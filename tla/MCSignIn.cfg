SPECIFICATION Spec
CONSTANTS
    f1 = f1  f2 = f2  ann = ann  bob = bob  n1 = n1  n2 = n2  w1 = w1  w2 = w2
    Flows = {f1, f2}
    Users = {ann, bob}
    Names = {n1, n2}
    Workers = {w1, w2}
    CLI_FLOW_TTL = 1
    CLI_FLOW_DELETE_GRACE = 1
    MAX_CONCURRENT_CLI_FLOWS = 2
    MAX_TOKENS_PER_USER = 1
    MaxTime = 3
    MaxTickets = 2
    MaxLag = 1
    MaxPollTime = 1
INVARIANTS TokensFollowApprovals PollsTruthful TokensAccounted
SYMMETRY Symmetries
CHECK_DEADLOCK FALSE
