\* Two observations, with a price or without: the candles of the first may never
\* come, those of the second come.  One signal, one row a pass, one pass of the
\* script beside the bot's.
SPECIFICATION FairSpec
CONSTANTS
    bot = bot
    script = script
    Workers <- MCWorkers
    Script = script
    Observed = 2
    Signalled = 1
    Ready = 1
    Horizon = 1
    Lookback = 2
    SigLimit = 1
    Batch = 1
    MaxBatches = 1
    MaxDelay = 2
    TryCap = 1
    MaxLag = 1
    MaxScripts = 1
    Stuck <- MCStuck
INVARIANTS
    UndoneOncePerScript
PROPERTIES
    SettledStaysAlone
    EveryObservationSettles
CHECK_DEADLOCK FALSE
