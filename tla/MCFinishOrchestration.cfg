SPECIFICATION Spec
CONSTANTS
    f1 = f1
    f2 = f2
    t1 = t1
    t2 = t2
    Checkpoint = Checkpoint
    Finishers = {f1, f2}
    Preparers = {p1}
    Sweepers = {s1}
    Outputs = {t1, t2}
    MaxFinishes = 2
    MaxPrepares = 1
    Settings <- MCSettings
    NoFile = NoFile
    Foreign = Foreign
INVARIANTS
    TextIsManaged
PROPERTIES
    RecoverableKeepsCheckpoint
    FailureCleansAttempt
    SuccessIsComplete
CHECK_DEADLOCK FALSE
