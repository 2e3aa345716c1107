\* Both coroutines, a root replaced by another, root tracking on and off, a stop
\* and a failed transaction at any point.
SPECIFICATION Spec
CONSTANTS
    MaxRoots = 2
    MaxRevs = 2
    MaxEvals = 2
    MaxStops = 1
    MaxErrors = 1
    Cap = 1
    Trackings = {TRUE, FALSE}
    FastMonitor = TRUE
INVARIANTS
    TypeOK
    AttemptHasRoot
    CapPerRoot
    HistoryTellsState
PROPERTIES
    ClosedIsFinal
    TerminalStays
