SPECIFICATION Spec
CONSTANTS
    Envs = {}
    Users = {"ann", "bob", "cat", "dan"}
    EncKeys = {"k1", "k2", "k3", "k4", "k6"}
    SigKeys = {"s1", "s2", "s3", "s4", "s6"}
    ManifestHashes = {}
    Operations <- ApprovalOperations
    GenesisEntries <- Genesis1
    Timestamps = {1}
    MaxChainEntries = 8
INVARIANTS TypeOK GovernanceReachable
PROPERTIES FourEyes
CHECK_DEADLOCK FALSE
CONSTRAINT OneProposal
