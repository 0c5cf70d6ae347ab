\* One process, ended in the middle of a save.
CONSTANTS
    q1 = q1
    q2 = q2
    q3 = q3
    Processes = {q1}
    MaxDevices = 1
    MaxTokens = 2
    MaxFaults = 1
SPECIFICATION Spec
INVARIANT StaysLoadable
