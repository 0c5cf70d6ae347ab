\* One rotation, interrupted once, that users keep resuming.
CONSTANTS
    d1 = d1
    d2 = d2
    p1 = p1
    p2 = p2
    default = default
    custom = custom
    creator = creator
    Creator = creator
    Devices = {d1, d2}
    Passwords = {p1, p2}
    Password = p1
    Params = {default, custom}
    DefaultParams = default
    KeepsRecovery = FALSE
    Careful = TRUE
    MaxGen = 2
    MaxRevs = 2
    MaxFaults = 1
SPECIFICATION FairSpec
INVARIANTS
    MasterPasswordOpens
PROPERTIES
    RotationFinishes
