CONSTANTS
    Script <- TwoLines
    Nothing = Nothing
    Pieces = 2
    InCap = 4
    Password = TRUE
    OutCap = 6
    MaxConns = 2
    MaxLines = 2
    MaxSaid = 4
    Commands = {"msg"}
    SlowConnect = TRUE
    Again = "quiet"
SPECIFICATION FairSpec
CHECK_DEADLOCK FALSE
INVARIANTS
    TypeOK
    HeardWhole
PROPERTIES
    ImplementsFeed
    CatchesUp
    LossEnds
