CONSTANTS
    lp = lp
    ua = ua
    none = none
    Loop = lp
    None = none
    Users = {}
    Offerers <- OnlyLoop
    Destroyers <- OnlyLoop
    Offers <- Made
    Incoming <- Asked
    MaxId = 2
    Timeouts = TRUE
    PeersTalk = FALSE
    UnlockAny = TRUE
SPECIFICATION Spec
CHECK_DEADLOCK FALSE
INVARIANTS OnlyStaleReads ChatEndIsTold
PROPERTIES NoCallbackAfterEnd RemovedIsFinal
