\* Under fairness: one crash, failing sends and transactions, and sends that
\* may outlast the lease, so that rows are claimed again while their first
\* send is still running and its answer comes late.
SPECIFICATION FairSpec
CONSTANTS
    MaxRows = 2
    MaxAttempts = 2
    Lease = 1
    RetryDelay = 1
    SendLimit = 2
    DrainLimit = 2
    WatchMax = 1
    SendWatch = TRUE
    MaxCrashes = 1
INVARIANTS
    TypeOK
    AttemptBudget
    ConfirmedWasAccepted
    WatchWithinBudget
PROPERTIES
    EveryMessageSettles
    ImplementsRetries
