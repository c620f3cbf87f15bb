\* Two contracts; every set of them may be wanted, every connection may fail,
\* two messages may wait.
SPECIFICATION Spec
CONSTANTS
    a = a
    b = b
    Tickers <- MCTickers
    Prices <- MCPrices
    MaxQty <- MCMaxQty
    MaxWire = 2
INVARIANTS
    BookTracksExchange
    HistoryWithinEpoch
    SubscriptionFollows
