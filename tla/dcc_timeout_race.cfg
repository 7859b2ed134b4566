CONSTANTS
    lp = lp
    ua = ua
    none = none
    Loop = lp
    None = none
    Users <- One
    Offerers <- OnlyLoop
    Destroyers <- One
    Offers <- Chat
    Incoming <- Chat
    MaxId = 2
    Timeouts = TRUE
    PeersTalk = FALSE
    UnlockAny = FALSE
SPECIFICATION Spec
CHECK_DEADLOCK FALSE
INVARIANT FreedOnce
