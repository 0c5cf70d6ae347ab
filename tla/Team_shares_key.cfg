\* A rotation in a team of two.
CONSTANTS
    c1 = c1
    c2 = c2
    u1 = u1
    u2 = u2
    none = none
    default = default
    custom = custom
    Clients = {c1, c2}
    NoClient = none
    Users = {u1, u2}
    Founder = u1
    Params = {default, custom}
    DefaultParams = default
    JoinParams = default
    MaxGen = 2
    MaxTokens = 1
    MaxChanges = 1
    MaxFaults = 1
SYMMETRY ClientSymmetry
CHECK_DEADLOCK FALSE
SPECIFICATION Spec
INVARIANT MembersShareKey
