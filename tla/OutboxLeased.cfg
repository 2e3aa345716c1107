\* A lease that outlasts a drained batch, as 120 s does five short sends, and
\* no WATCH delivery, as shipped.
SPECIFICATION Spec
CONSTANTS
    MaxRows = 3
    MaxAttempts = 2
    Lease = 3
    RetryDelay = 1
    SendLimit = 1
    DrainLimit = 2
    WatchMax = 1
    SendWatch = FALSE
    MaxCrashes = 1
INVARIANTS
    LeaseCoversBatch
PROPERTIES
    OutcomeIsFinal
