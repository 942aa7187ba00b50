SPECIFICATION StoreSpec
CONSTANTS
    Envs = {"e1"}
    Users = {"ann", "bob"}
    EncKeys = {"k1", "k2"}
    SigKeys = {"s1", "s2"}
    ManifestHashes = {"h1", "h2"}
    Operations <- ContentOperations
    GenesisEntries <- Founders
    Timestamps = {}
    MaxChainEntries = 6
    Variables = {"v1"}
    MaxDevicesPerMember = 2
    MaxPendingProposals = 0
    MaxProposalLifetime = 0
    MaxMetaVersion = 2
    MaxValueVersion = 2
INVARIANTS ServedVerifies NoEquivocation CheckpointedValuesKept
CONSTRAINT OneContent
VIEW ContentView
CHECK_DEADLOCK FALSE
