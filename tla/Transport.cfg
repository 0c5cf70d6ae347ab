\* Three overlapping requests, two attempts each, one expiry; no symmetry.
CONSTANTS
    t1 = t1
    t2 = t2
    t3 = t3
    Tasks = {t1, t2, t3}
    MaxAttempts = 2
    MaxExpiries = 1
SPECIFICATION FairSpec
INVARIANTS
    TypeOK
    TokensNotLost
    OneExchangeEach
    TransportInv
PROPERTIES
    StoreNeverGoesBack
    EveryRequestEnds
\* Every request ends.
CHECK_DEADLOCK FALSE
