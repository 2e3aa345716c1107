\* The full scan alone, no fault, every tracking on a high of its own.
SPECIFICATION Spec
CONSTANTS
    MaxTracks = 2
    MaxSignals = 3
    MaxWatches = 2
    MaxFaults = 0
    Live = {"BASELINE", "VOLUME", "LOW"}
    FastMonitor = FALSE
    Shadow = TRUE
    ReuseIds = FALSE
INVARIANTS
    OneSignalPerTracking
    WatchOncePerTracking
PROPERTIES
    RowMovesOn
