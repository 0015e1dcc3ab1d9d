CONSTANTS
    Procs = {p1, p2}
    Floor = 4
    Block = 2
    MaxU64 = 11
    NoProc = NoProc
    SyncKeepsEntry = TRUE
SPECIFICATION Spec
INVARIANTS
    NeverReset
PROPERTY
    StrictlyIncreasing
CHECK_DEADLOCK FALSE
