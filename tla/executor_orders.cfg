\* One process that is never restarted, and everything else that can go wrong.
CONSTANTS
    x1 = x1
    x2 = x2
    x3 = x3
    y1 = y1
    NoPick = NoPick
    Tickers <- MCTickers
    Windows <- MCWindows
    WindowOf <- MCWindowOf
    Picks <- MCPicks
    Cfg <- PercentCfg
    Bankroll = 10
    Faults <- Disturbed
SPECIFICATION Spec
SYMMETRY Interchangeable
INVARIANTS
    TypeOK
    WindowCap
    ExchangeIsBooked
    WindowSpend
    NeverReposted
PROPERTY
    SwitchesStopOrders
