CONSTANTS
    a = a
    b = b
    pa = pa
    pb = pb
    None = None
    HdrLen = 1
    BodyLen = 2
    Conns = {a, b}
    Procs = {pa, pb}
    ProcOf <- TwoProcs
    FirstOf <- TwoFirst
    Requests <- Both
    MaxCalls = 3
    MaxDepth = 1
    MayExit = {pb}
    ServerMayExit = FALSE
    SplitRequests = FALSE
    SplitReplies = FALSE
    Longest = 3
SPECIFICATION FairSpec
CHECK_DEADLOCK FALSE
INVARIANTS OneThingInFlight
PROPERTIES EveryCallReturns ImplementsRpc
