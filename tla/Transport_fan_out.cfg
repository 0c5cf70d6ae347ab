\* Two requests find the token expired; nothing is ever retried.
CONSTANTS
    t1 = t1
    t2 = t2
    t3 = t3
    Tasks = {t1, t2}
    MaxAttempts = 1
    MaxExpiries = 1
SPECIFICATION Spec
INVARIANT RefreshIsTransparent
\* Every request ends.
CHECK_DEADLOCK FALSE
