\* A rotation with a wrong password.
CONSTANTS
    d1 = d1
    d2 = d2
    p1 = p1
    p2 = p2
    default = default
    custom = custom
    creator = creator
    Creator = creator
    Devices = {d1}
    Passwords = {p1, p2}
    Password = p1
    Params = {default, custom}
    DefaultParams = default
    KeepsRecovery = FALSE
    Careful = FALSE
    MaxGen = 2
    MaxRevs = 1
    MaxFaults = 0
SPECIFICATION Spec
INVARIANT WrongPasswordSurfaces
