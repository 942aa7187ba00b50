CONSTANTS
    c1 = c1
    Commands = {c1}
    MaxWrites = 3
    MaxFetches = 1
    MaxLies = 0
SPECIFICATION Spec
CHECK_DEADLOCK FALSE
INVARIANT ManifestRefusalsAreEvidence
