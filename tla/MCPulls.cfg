CONSTANTS
    c1 = c1
    c2 = c2
    Commands = {c1, c2}
    MaxWrites = 3
    MaxFetches = 1
    MaxLies = 1
SPECIFICATION Spec
VIEW PullView
SYMMETRY CommandSymmetry
CHECK_DEADLOCK FALSE
PROPERTIES AccusedOnlyInRaces AcceptedAscends
