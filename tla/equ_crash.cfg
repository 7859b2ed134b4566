CONSTANTS
    a = a
    b = b
    pa = pa
    pb = pb
    None = None
    HdrLen = 1
    BodyLen = 2
    Conns = {a, b}
    Procs = {pa, pb}
    ProcOf <- TwoProcs
    FirstOf <- TwoFirst
    Requests <- Both
    MaxCalls = 3
    MaxDepth = 1
    MayExit = {pb}
    ServerMayExit = TRUE
    SplitRequests = FALSE
    SplitReplies = FALSE
    Longest = 3
SPECIFICATION Spec
CHECK_DEADLOCK FALSE
INVARIANTS TypeOK PhaseInv RepliesToOwnRequests CallGetsItsAnswer NoFault ServedAtMostOnce
