CONSTANTS
    lp = lp
    ua = ua
    none = none
    Loop = lp
    None = none
    Users <- One
    Offerers <- OnlyLoop
    Destroyers <- Both
    Offers = {}
    Incoming <- Chat
    MaxId = 2
    Timeouts = FALSE
    PeersTalk = FALSE
    UnlockAny = FALSE
SPECIFICATION FairSpec
CHECK_DEADLOCK FALSE
INVARIANTS NoFault MutexHeld
PROPERTIES RemovedIsFinal RemovedIsFreed LoopComesRound
