\* The operator flips the switches; nothing else goes wrong.
CONSTANTS
    x1 = x1
    x2 = x2
    x3 = x3
    y1 = y1
    NoPick = NoPick
    Tickers <- MCTickers
    Windows <- MCWindows
    WindowOf <- MCWindowOf
    Picks <- MCPicks
    Cfg <- FlatCfg
    Bankroll = 10
    Faults <- Switching
SPECIFICATION Spec
INVARIANT KillLeavesPositionsAlone
