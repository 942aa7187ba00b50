SPECIFICATION MandatesSpec
CONSTANTS
    Envs = {"e1", "e2"}
    Users = {"ann", "bob"}
    EncKeys = {"k1", "k2", "k3"}
    SigKeys = {"s1", "s2", "s3"}
    ManifestHashes = {"h1", "h2"}
    Operations <- HistoryOperations
    GenesisEntries <- Founders
    Timestamps = {1}
    MaxChainEntries = 7
INVARIANTS KeySubjectsUnique PeopleMatchDevices DeletedEnvironmentsForgotten EpochsAndCheckpointsOrdered EquivocationEvident IndexAgrees AppliedDerivable LeaversPending MandatesExact
CONSTRAINT OneSubject
CHECK_DEADLOCK FALSE
