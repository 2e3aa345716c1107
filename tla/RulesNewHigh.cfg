\* As Rules.cfg.
SPECIFICATION Spec
CONSTANTS
    None = None
    Configs <- MCConfigs
    Shipped <- MCShipped
    Bases <- MCBases
    Levels <- MCLevels
    MaxMoves = 2
    MaxRoot = 5
INVARIANTS
    LowWithoutNewHigh
CHECK_DEADLOCK FALSE
