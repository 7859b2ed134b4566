CONSTANTS
    a = a
    b = b
    pa = pa
    pb = pb
    None = None
    HdrLen = 1
    BodyLen = 2
    Conns = {a, b}
    Procs = {pa, pb}
    ProcOf <- TwoProcs
    FirstOf <- TwoFirst
    Requests <- Both
    MaxCalls = 2
    MaxDepth = 1
    MayExit = {}
    ServerMayExit = FALSE
    SplitRequests = TRUE
    SplitReplies = FALSE
    Longest = 3
SPECIFICATION Spec
CHECK_DEADLOCK FALSE
INVARIANT RepliesToOwnRequests
