SPECIFICATION InstancesSpec
CONSTANTS
    Envs = {"e1"}
    Users = {"ann", "amy", "bob"}
    EncKeys = {"k1", "k2", "k3", "k4"}
    SigKeys = {"s1", "s2", "s3"}
    ManifestHashes = {}
    Operations <- OtherOperations
    GenesisEntries <- Genesis1
    Timestamps = {1}
    MaxChainEntries = 6
    Invites = {"i1", "i2"}
    Terms <- OfferedTerms
    Acceptances <- BobAccepts
    Adders = {"ann", "amy"}
    Workers = {w1, w2}
    INVITE_TTL_MS = 3
    INVITE_ISSUE_WINDOW_MS = 1
    INVITE_ISSUE_WINDOW_LIMIT = 1
    MAX_PENDING_INVITES_PER_PROJECT = 1
    MAX_APPEND_ATTEMPTS = 2
    MaxTime = 4
INVARIANTS IssuanceBounded InvitationsAccounted FailuresExplained
CHECK_DEADLOCK FALSE
SYMMETRY RequestSymmetry
