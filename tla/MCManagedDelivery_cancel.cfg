SPECIFICATION Spec
CONSTANTS
    d1 = d1
    d2 = d2
    j1 = j1
    j2 = j2
    Jobs = {j1}
    Targets = {t1}
    Deliverers = {d1}
    Sweepers = {}
    JobsOf <- OneDeliverer
    KeepChoices = {FALSE}
    MaxCalls = 1
    Platform = "nt"
    Faults = {"interrupt"}
    NoFile = NoFile
    Foreign = Foreign
    NoActor = NoActor
INVARIANTS
    CancelledJobsAreDeleted
CHECK_DEADLOCK FALSE
