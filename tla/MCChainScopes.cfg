SPECIFICATION Spec
CONSTANTS
    Envs = {"e1", "e2"}
    Users = {"ann", "bob", "cat"}
    EncKeys = {"k1", "k2", "k3", "k4"}
    SigKeys = {"s1", "s2", "s3", "s4"}
    ManifestHashes = {}
    Operations <- ScopeOperations
    GenesisEntries <- Genesis1
    Timestamps = {}
    MaxChainEntries = 6
PROPERTIES NoEscalation AdminsShielded ChangesContained
CHECK_DEADLOCK FALSE
