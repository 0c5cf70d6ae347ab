\* Two users with three clients; one rotation, one change of a password by each,
\* one fault; join uses other parameters than the default ones.
CONSTANTS
    c1 = c1
    c2 = c2
    c3 = c3
    u1 = u1
    u2 = u2
    none = none
    default = default
    custom = custom
    Clients = {c1, c2, c3}
    NoClient = none
    Users = {u1, u2}
    Founder = u1
    Params = {default, custom}
    DefaultParams = default
    JoinParams = custom
    MaxGen = 2
    MaxTokens = 1
    MaxChanges = 2
    MaxFaults = 1
SYMMETRY ClientSymmetry
CHECK_DEADLOCK FALSE
SPECIFICATION Spec
INVARIANTS
    TypeOK
    DevicesHeld
    MasterPasswordOpens
    SessionGenTrue
    OffboardedKeysRetired
    TeamInv
PROPERTIES
    SameKeyRewrapped
