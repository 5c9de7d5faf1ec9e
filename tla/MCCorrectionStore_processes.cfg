SPECIFICATION Spec
CONSTANTS
    t1 = t1
    t2 = t2
    t3 = t3
    s1 = s1
    s2 = s2
    p1 = p1
    p2 = p2
    Threads = {t1, t2}
    Stores = {s1, s2}
    Processes = {p1, p2}
    StoreOf <- OwnObjects
    ProcessOf <- TwoProcesses
    Ids = {i1}
    MaxCalls = 1
    MaxFiles = 2
    Faults = {"init"}
    Platform = "posix"
    NoFile = NoFile
    NoRow = NoRow
    NoThread = NoThread
PROPERTIES
    CorrectionsLeaveOnlyByCommand
CHECK_DEADLOCK FALSE
