SPECIFICATION Spec
CONSTANTS
    d1 = d1
    d2 = d2
    j1 = j1
    j2 = j2
    Jobs = {j1, j2}
    Targets = {t1}
    Deliverers = {d1, d2}
    Sweepers = {}
    JobsOf <- MixedJobs
    KeepChoices = {TRUE, FALSE}
    MaxCalls = 1
    Platform = "posix"
    Faults = {"crash", "io", "interrupt"}
    NoFile = NoFile
    Foreign = Foreign
    NoActor = NoActor
INVARIANTS
    FinalizedIsPublished
    ResultIsTruthful
    SuccessIsClean
    OutputsAreWhole
PROPERTIES
    ImplementsPublication
CHECK_DEADLOCK FALSE
