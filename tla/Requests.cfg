\* The scan and the fast monitor, four requests for two slots, a minimum delay
\* of two ticks, three attempts.
SPECIFICATION FairSpec
CONSTANTS
    scan = scan
    fast = fast
    Clients <- MCClients
    MaxConcurrency = 2
    MinDelay = 2
    MaxJitter = 1
    MaxTries = 3
    SuccessTTL = 2
    FailureTTL = 1
INVARIANTS
    ConcurrencyBound
PROPERTIES
    FirstCallsSpaced
    EveryFetchEnds
