\* The thresholds of config.yaml in four modes; any two features off one of the
\* four markets, five minutes.
SPECIFICATION Spec
CONSTANTS
    None = None
    Configs <- MCConfigs
    Shipped <- MCShipped
    Bases <- MCBases
    Levels <- MCLevels
    MaxMoves = 2
    MaxRoot = 5
INVARIANTS
    SignalIsTradable
    GuardOnlyTakes
PROPERTIES
    RiskNeverAdmits
    ReadyIsQuiet
CHECK_DEADLOCK FALSE
