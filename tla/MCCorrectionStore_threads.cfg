SPECIFICATION Spec
CONSTANTS
    t1 = t1
    t2 = t2
    t3 = t3
    s1 = s1
    s2 = s2
    p1 = p1
    p2 = p2
    Threads = {t1, t2, t3}
    Stores = {s1, s2}
    Processes = {p1}
    StoreOf <- SharedObject
    ProcessOf <- OneProcess
    Ids = {i1, i2}
    MaxCalls = 1
    MaxFiles = 2
    Faults = {"crash", "init", "sql"}
    Platform = "posix"
    NoFile = NoFile
    NoRow = NoRow
    NoThread = NoThread
SYMMETRY SwapAll
INVARIANTS
    ContentIsPrivate
PROPERTIES
    ImplementsCorrectionMap
    CorrectionsLeaveOnlyByCommand
    SuccessReachesTheStore
CHECK_DEADLOCK FALSE
