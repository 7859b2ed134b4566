CONSTANTS
    lp = lp
    ua = ua
    none = none
    Loop = lp
    None = none
    Users <- One
    Offerers <- Both
    Destroyers <- One
    Offers <- Made
    Incoming <- Asked
    MaxId = 2
    Timeouts = FALSE
    PeersTalk = TRUE
    UnlockAny = TRUE
SPECIFICATION Spec
CHECK_DEADLOCK FALSE
INVARIANTS TypeOK ListOk
