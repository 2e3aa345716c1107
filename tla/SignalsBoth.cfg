\* Both coroutines, faults, and trackings of a high seen before.
SPECIFICATION Spec
CONSTANTS
    MaxTracks = 2
    MaxSignals = 2
    MaxWatches = 0
    MaxFaults = 1
    Live = {"BASELINE", "VOLUME", "LOW"}
    FastMonitor = TRUE
    Shadow = TRUE
    ReuseIds = TRUE
INVARIANTS
    ClimaxOncePerEvent
    TypeOK
    SignalIdIsOwn
    StatusIsBacked
