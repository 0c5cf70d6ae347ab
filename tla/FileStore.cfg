\* Three processes, two devices with up to three token pairs, two crashes.
CONSTANTS
    q1 = q1
    q2 = q2
    q3 = q3
    Processes = {q1, q2, q3}
    MaxDevices = 2
    MaxTokens = 3
    MaxFaults = 2
SPECIFICATION Spec
SYMMETRY ProcessSymmetry
INVARIANTS
    TypeOK
    FileParses
    StoredPairInForce
    DeviceIdOwnsTokens
    FileStoreInv
