\* Three concurrent calls, two attempts each.
CONSTANTS
    c1 = c1
    c2 = c2
    c3 = c3
    Calls = {c1, c2, c3}
    MaxAttempts = 2
SPECIFICATION Spec
SYMMETRY CallSymmetry
INVARIANTS
    TypeOK
    CommitsOnce
    OkIsCommitted
    BaseRevKeepsUpdates
    IInv
PROPERTIES
    ConflictIsFinal
    RefinesLog
\* Every call ends.
CHECK_DEADLOCK FALSE
