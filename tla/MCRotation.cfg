SPECIFICATION InstancesSpec
CONSTANTS
    alice = alice  bob = bob  x = x  y = y
    Machines <- TwoMachines
    Variables <- TwoVariables
    MissingWraps <- BobLacksFirst
    Initial <- OneVariable
    AlreadyLeft = TRUE
    MAX_ATTEMPTS = 2
    MAX_VALUES_CONFLICT_ATTEMPTS = 2
    MAX_REENCRYPT_PASSES = 2
    MaxOther = 1
    MaxManual = 1
    MaxFaults = 2
INVARIANTS AccusedOnlyWhenOvertaken IntentsTruthful FloorTrue ReencryptionKeepsText
PROPERTIES RevocationKept RunsEnd DeparturesRevoked
CHECK_DEADLOCK FALSE
