\* Both coroutines, no fault: the scan works on the row as it was when its
\* cycle began.
SPECIFICATION Spec
CONSTANTS
    MaxTracks = 1
    MaxSignals = 2
    MaxWatches = 0
    MaxFaults = 0
    Live = {"BASELINE", "VOLUME", "LOW"}
    FastMonitor = TRUE
    Shadow = FALSE
    ReuseIds = FALSE
INVARIANTS
    OneSignalPerTracking
