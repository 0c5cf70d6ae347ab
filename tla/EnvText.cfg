\* Values of up to three characters, two lines typed, two revisions.
CONSTANTS
    Chars <- MCChars
    Alphabet = {"n", " ", "nl", "dq", "sq", "bs", "="}
    MaxLen = 3
    Envs <- MCEnvs
    Lines <- MCLines
    MaxLines = 2
    MaxRevs = 2
SPECIFICATION Spec
INVARIANTS
    TypeOK
    EditsOnly
PROPERTIES
    DiffRebuilds
