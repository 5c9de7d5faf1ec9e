SPECIFICATION FairSpec
CONSTANTS
    d1 = d1
    d2 = d2
    j1 = j1
    j2 = j2
    Jobs = {j1}
    Targets = {t1}
    Deliverers = {d1, d2}
    Sweepers = {s1}
    JobsOf <- SharedJob
    KeepChoices = {FALSE}
    MaxCalls = 1
    Platform = "nt"
    Faults = {}
    NoFile = NoFile
    Foreign = Foreign
    NoActor = NoActor
PROPERTIES
    StrandedIsReported
    
CHECK_DEADLOCK FALSE
