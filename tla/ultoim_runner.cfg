\* Two contracts and three marks of one window, a queue of one snapshot, one
\* crash or database error. Deadlock is not checked: the clock ends at
\* LastTick, and with every job done the model stops there.
SPECIFICATION Spec
CONSTANTS
    t1 = t1
    t2 = t2
    Tickers <- MCTickers
    Views <- MCViews
    Intervals = {"12M", "10M", "7M"}
    Mark <- MCMark
    Band <- MCBand
    ResearchOnly = {"12M"}
    Selective = {"10M"}
    YesLive = {"10M", "7M"}
    Excluded = {t2}
    TopN = 1
    SelectiveTopN = 1
    YesNotify = TRUE
    OutboxOn = TRUE
    WatchFrom = 1
    ConfirmCycles = 2
    ConfirmTicks = 1
    PruneAfter = 20
    CloseAt = 5
    LastTick = 4
    QueueMax = 1
    Faults = {"crash", "error"}
    MaxFaults = 1
CHECK_DEADLOCK FALSE
INVARIANTS
    AlertedOnce
    ClaimReachesExecutor
    PendingIsInHand
    YesPlacedOnce
    ExitOnce
PROPERTIES
    FlipWasHeld
    NoEntryAfterExit
    WarningSettles
