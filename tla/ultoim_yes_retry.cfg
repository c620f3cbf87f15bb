\* The window of ultoim_runner.cfg without faults: is a refused live YES buy
\* offered again within its band?  Deadlock is not checked, as there.
SPECIFICATION Spec
CONSTANTS
    t1 = t1
    t2 = t2
    Tickers <- MCTickers
    Views <- MCViews
    Intervals = {"12M", "10M", "7M"}
    Mark <- MCMark
    Band <- MCBand
    ResearchOnly = {"12M"}
    Selective = {"10M"}
    YesLive = {"10M", "7M"}
    Excluded = {t2}
    TopN = 1
    SelectiveTopN = 1
    YesNotify = TRUE
    OutboxOn = TRUE
    WatchFrom = 1
    ConfirmCycles = 2
    ConfirmTicks = 1
    PruneAfter = 20
    CloseAt = 5
    LastTick = 4
    QueueMax = 1
    Faults = {}
    MaxFaults = 0
CHECK_DEADLOCK FALSE
PROPERTY YesIsRetried
