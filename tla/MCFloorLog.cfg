CONSTANTS
    p1 = p1
    p2 = p2
    i1 = i1
    Processes = {p1, p2}
    IntentIds = {i1}
    Observations <- MCObservations
    CompactionThreshold = 1
    MaxWriteAttempts = 2
    MaxCommits = 3
    MaxFaults = 1
SPECIFICATION Spec
SYMMETRY ProcessSymmetry
CHECK_DEADLOCK FALSE
INVARIANT AcknowledgedSurvives
PROPERTY FoldIsStore
PROPERTY EvidenceKept
