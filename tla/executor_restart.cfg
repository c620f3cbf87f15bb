\* The process is restarted, between calls or inside one; the order store works.
CONSTANTS
    x1 = x1
    x2 = x2
    x3 = x3
    y1 = y1
    NoPick = NoPick
    Tickers <- MCTickers
    Windows <- MCWindows
    WindowOf <- MCWindowOf
    Picks <- MCPicks
    Cfg <- FlatCfg
    Bankroll = 10
    Faults <- Restarts
SPECIFICATION Spec
INVARIANTS
    BookAgrees
    ExitIsPossible
    ExitLeavesNothingResting
PROPERTY
    ImplementsEntryLimit
