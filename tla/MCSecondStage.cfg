SPECIFICATION StoreSpec
CONSTANTS
    Envs = {"e1"}
    Users = {"ann"}
    EncKeys = {"k1", "k2"}
    SigKeys = {"s1", "s2"}
    ManifestHashes = {"h1"}
    Operations <- DeviceOperations
    GenesisEntries <- Genesis1
    Timestamps = {}
    MaxChainEntries = 7
    Variables = {}
    MaxDevicesPerMember = 2
    MaxPendingProposals = 0
    MaxProposalLifetime = 0
    MaxMetaVersion = 1
    MaxValueVersion = 0
INVARIANTS SecondStageRedundant
CHECK_DEADLOCK FALSE
