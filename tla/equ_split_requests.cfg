CONSTANTS
    a = a
    b = b
    pa = pa
    pb = pb
    None = None
    HdrLen = 2
    BodyLen = 2
    Conns = {a}
    Procs = {pa}
    ProcOf <- OneProc
    FirstOf <- OneFirst
    Requests <- Ids
    MaxCalls = 3
    MaxDepth = 1
    MayExit = {}
    ServerMayExit = FALSE
    SplitRequests = TRUE
    SplitReplies = FALSE
    Longest = 4
SPECIFICATION FairSpec
CHECK_DEADLOCK FALSE
INVARIANTS DaemonKeepsFraming
PROPERTIES EveryCallReturns
