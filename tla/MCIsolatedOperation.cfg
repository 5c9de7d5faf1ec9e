SPECIFICATION Spec
CONSTANTS
    Papers = {a, b, x}
    Rejected = {x}
    MaxCalls = 8
    Faults = {"io", "worker", "interrupt", "crash"}
    None = None
INVARIANTS
    CopiesAreErased
    ChainIsBound
    RetriesAreSafe
CHECK_DEADLOCK FALSE
