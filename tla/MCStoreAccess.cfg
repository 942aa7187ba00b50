SPECIFICATION StoreSpec
CONSTANTS
    Envs = {"e1"}
    Users = {"ann", "k2"}
    EncKeys = {"k1", "k2", "k3"}
    SigKeys = {"s1", "s2", "s3"}
    ManifestHashes = {"h1"}
    Operations <- AccessOperations
    GenesisEntries <- Founders
    Timestamps = {1}
    MaxChainEntries = 8
    Variables = {}
    MaxDevicesPerMember = 2
    MaxPendingProposals = 1
    MaxProposalLifetime = 1
    MaxMetaVersion = 1
    MaxValueVersion = 0
INVARIANTS StoreMatchesChain SealedWithinReach WrapsOfPresentTenure AttestationsCurrent
CONSTRAINT OneSubject
CHECK_DEADLOCK FALSE
