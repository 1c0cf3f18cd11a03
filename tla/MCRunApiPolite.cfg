CONSTANTS
    s1 = s1
    s2 = s2
    s3 = s3
    priya = priya
    None = None
    RunIds = {1, 2}
    Workflows = {"review", "echo"}
    Workers <- MCNoWorkers
    Verdicts = {"approve", "reject"}
    Subjects <- MCPriya
    Comments <- MCComments
    Gates <- MCGates
    LeaseSeconds = {1}
    RetentionAge = 0
    MaxClock = 1
    MaxDecisions = 2
    Streams <- MCThreeStreams
    Payloads = {"hello", "bye"}
    Graph <- MCGraph
    Checkpointed <- MCCheckpointed
    Idempotent <- MCIdempotent
    CacheTtl = 1
    MayDisconnect = TRUE
    MayExpire = FALSE

SPECIFICATION GateByGateSpec
SYMMETRY MCSymmetry
CHECK_DEADLOCK FALSE

INVARIANT CacheHoldsOwnOutputs
PROPERTY RefinesLifecycle
