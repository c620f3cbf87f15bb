----------------------------- MODULE KalshiBook -----------------------------
(***************************************************************************)
(* The Kalshi WebSocket feed: the dashboard thread changes the wanted      *)
(* contracts, the feed thread connects, subscribes and applies the order   *)
(* book and trade messages of its connection, and the caches are what the  *)
(* pricing code reads.  One side of each book is kept: the other one is    *)
(* handled alike.  A row of the microstructure history is reduced to the   *)
(* epoch it was received in: the current one, or one before a gap.         *)
(***************************************************************************)
EXTENDS Naturals, Sequences, FiniteSets

CONSTANTS
    Tickers, Prices,
    MaxQty,   \* bounds the exchange's quantity of a contract at a price
    MaxWire   \* bounds the messages of the connection not yet received

ASSUME FeedConstants ==
    /\ IsFiniteSet(Tickers) /\ Prices \subseteq 1..99   \* cents
    /\ MaxQty \in [Tickers -> [Prices -> Nat]] /\ MaxWire \in Nat

VARIABLES
    desired,     \* _desired
    setting,     \* subscribe changed _desired and is yet to set _reconnect
    reconnect,   \* the _reconnect event
    loop,        \* where _run_forever is
    subscribed,  \* _subscribed
    books,       \* _books, one side of each
    events, trades,  \* the epochs of the rows of _book_events and _trades
    started,     \* the epoch of _book_history_started_at and _trade_...
    exchange,    \* the exchange's own book
    channel,     \* the exchange's side of each subscription
    wire,        \* messages of this connection, in the order they were sent
    wiped        \* _reconnect was cleared with a change of _desired behind it

request == <<desired, setting>>
history == <<events, trades, started>>
market == <<exchange, channel, wire>>
vars == <<request, reconnect, loop, subscribed, books, history, market, wiped>>

Levels == [Prices -> Nat]
Empty == [p \in Prices |-> 0]
NoBook == [cached |-> FALSE]
Book == {NoBook} \cup [cached : {TRUE}, levels : Levels, best : Prices \cup {0}]
Epochs == {"past", "now"}
Message == [kind : {"snapshot"}, ticker : Tickers, levels : Levels]
           \cup [kind : {"up", "down"}, ticker : Tickers, price : Prices]
           \cup [kind : {"trade"}, ticker : Tickers]

TypeOK ==
    /\ desired \in SUBSET Tickers /\ subscribed \in SUBSET Tickers
    /\ setting \in BOOLEAN /\ reconnect \in BOOLEAN /\ wiped \in BOOLEAN
    /\ loop \in {"down", "opened", "check", "recv"}
    /\ books \in [Tickers -> Book]
    /\ events \in [Tickers -> SUBSET Epochs] /\ trades \in [Tickers -> SUBSET Epochs]
    /\ started \in [Tickers -> SUBSET Epochs]
    /\ exchange \in [Tickers -> Levels]
    /\ channel \in [Tickers -> {"off", "asked", "live"}]
    /\ wire \in Seq(Message)

Init ==
    /\ desired = {} /\ setting = FALSE /\ reconnect = FALSE
    /\ loop = "down" /\ subscribed = {} /\ wiped = FALSE
    /\ books = [t \in Tickers |-> NoBook]
    /\ events = [t \in Tickers |-> {}] /\ trades = [t \in Tickers |-> {}]
    /\ started = [t \in Tickers |-> {}]
    /\ exchange = [t \in Tickers |-> Empty]
    /\ channel = [t \in Tickers |-> "off"] /\ wire = <<>>

(***************************************************************************)
(* The dashboard thread: subscribe.                                        *)
(***************************************************************************)

Evicted(f, wanted, none) == [t \in Tickers |-> IF t \in wanted THEN f[t] ELSE none]

BugChanged(wanted) == ~(wanted \subseteq desired)
Changed(wanted) == wanted # desired

\* Under the lock: the new set, and no cache of a contract outside it.
Subscribe(wanted) ==
    /\ ~setting
    /\ desired' = wanted /\ setting' = Changed(wanted)
    /\ books' = Evicted(books, wanted, NoBook)
    /\ events' = Evicted(events, wanted, {}) /\ trades' = Evicted(trades, wanted, {})
    /\ started' = Evicted(started, wanted, {})
    /\ UNCHANGED <<reconnect, loop, subscribed, market, wiped>>

\* After the lock.
SetReconnect ==
    /\ setting /\ setting' = FALSE /\ reconnect' = TRUE /\ wiped' = FALSE
    /\ UNCHANGED <<desired, loop, subscribed, books, history, market>>

(***************************************************************************)
(* The feed thread: _run_forever.                                          *)
(***************************************************************************)

\* Connected: under the lock, the set this connection will subscribe to.
Open ==
    /\ loop = "down" /\ loop' = "opened"
    /\ subscribed' = desired
    /\ UNCHANGED <<request, reconnect, books, history, market, wiped>>

\* Outside the lock: the event is cleared, whatever set it, and the
\* subscriptions are sent.
ClearAndSend ==
    /\ loop = "opened" /\ loop' = "check"
    /\ reconnect' = FALSE
    /\ wiped' = (desired # subscribed /\ ~setting)
    /\ channel' = [t \in Tickers |-> IF t \in subscribed THEN "asked" ELSE "off"]
    /\ UNCHANGED <<request, subscribed, books, history, exchange, wire>>

Receive ==
    /\ loop = "check" /\ ~reconnect /\ loop' = "recv"
    /\ UNCHANGED <<request, reconnect, subscribed, books, history, market, wiped>>

ReceiveTimesOut ==
    /\ loop = "recv" /\ wire = <<>> /\ loop' = "check"
    /\ UNCHANGED <<request, reconnect, subscribed, books, history, market, wiped>>

\* What is received before a gap or a snapshot is of an epoch past.
Aged(f) == [t \in Tickers |-> IF f[t] = {} THEN {} ELSE {"past"}]

\* _invalidate_microstructure_history_locked clears these histories; the books
\* stay.
Invalidated == desired \cup {t \in Tickers : books[t].cached \/ events[t] \cup trades[t] # {}}
GapHistory(f) == [t \in Tickers |-> IF t \in Invalidated THEN {} ELSE Aged(f)[t]]

\* The end of a connection, which the feed chose or suffered.
Disconnected ==
    /\ loop' = "down" /\ subscribed' = {}
    /\ events' = GapHistory(events) /\ trades' = GapHistory(trades)
    /\ started' = GapHistory(started)
    /\ channel' = [t \in Tickers |-> "off"] /\ wire' = <<>>
    /\ UNCHANGED <<request, reconnect, books, exchange, wiped>>

Leave == loop = "check" /\ reconnect /\ Disconnected

ConnectionFails == loop # "down" /\ Disconnected

(***************************************************************************)
(* _handle_message.                                                        *)
(***************************************************************************)

Bids(levels) == {p \in Prices : levels[p] > 0}
Best(levels) == IF Bids(levels) = {} THEN 0
                ELSE CHOOSE p \in Bids(levels) : \A q \in Bids(levels) : q <= p

\* The rows a snapshot keeps: none, for it opens a new epoch.
BugKeptRows(f, t) == Aged(f)[t]
KeptRows(f, t) == {}

HandleSnapshot(t, levels) ==
    /\ books' = [books EXCEPT ![t] = [cached |-> TRUE, levels |-> levels,
                                      best |-> Best(levels)]]
    /\ events' = [events EXCEPT ![t] = KeptRows(events, t)]
    /\ trades' = [trades EXCEPT ![t] = KeptRows(trades, t)]
    /\ started' = [started EXCEPT ![t] = {"now"}]

Stepped(levels, kind, p) ==
    [levels EXCEPT ![p] = IF kind = "up" THEN @ + 1 ELSE IF @ > 0 THEN @ - 1 ELSE 0]

\* The best bid is looked for again only when the best level itself emptied.
BugNextBest(best, levels, p) ==
    IF Bids(levels) = {} THEN 0 ELSE IF p > best THEN p ELSE best
NextBest(best, levels, p) ==
    IF Bids(levels) = {} THEN 0
    ELSE IF p \in Bids(levels) /\ p > best THEN p
    ELSE IF p = best /\ p \notin Bids(levels) THEN Best(levels)
    ELSE best

\* setdefault: a delta of a contract without a book starts one.
Held(t) == IF books[t].cached THEN books[t]
           ELSE [cached |-> TRUE, levels |-> Empty, best |-> 0]

\* A row is added; the retention may drop those before it.
Appended(f, t) == {[f EXCEPT ![t] = @ \cup {"now"}], [f EXCEPT ![t] = {"now"}]}

HandleDelta(t, kind, p) ==
    /\ LET levels == Stepped(Held(t).levels, kind, p)
       IN books' = [books EXCEPT ![t] =
                      [cached |-> TRUE, levels |-> levels,
                       best |-> NextBest(Held(t).best, levels, p)]]
    /\ events' \in Appended(events, t)
    /\ UNCHANGED <<trades, started>>

HandleTrade(t) ==
    /\ trades' \in Appended(trades, t)
    /\ UNCHANGED <<books, events, started>>

\* A message received before _reconnect was set is handled all the same.
HandleMessage ==
    /\ loop = "recv" /\ wire # <<>> /\ loop' = "check"
    /\ wire' = Tail(wire)
    /\ LET m == Head(wire) IN
         \/ m.kind = "snapshot" /\ HandleSnapshot(m.ticker, m.levels)
         \/ m.kind \in {"up", "down"} /\ HandleDelta(m.ticker, m.kind, m.price)
         \/ m.kind = "trade" /\ HandleTrade(m.ticker)
    /\ UNCHANGED <<request, reconnect, subscribed, exchange, channel, wiped>>

(***************************************************************************)
(* The exchange: a subscribed contract gets one snapshot, and from then    *)
(* on every change of its book, in order.                                  *)
(***************************************************************************)

Sends(m) == Len(wire) < MaxWire /\ wire' = Append(wire, m)

SendsSnapshot(t) ==
    /\ channel[t] = "asked" /\ channel' = [channel EXCEPT ![t] = "live"]
    /\ Sends([kind |-> "snapshot", ticker |-> t, levels |-> exchange[t]])
    /\ UNCHANGED <<request, reconnect, loop, subscribed, books, history, exchange, wiped>>

BookChanges(t, kind, p) ==
    /\ IF kind = "up" THEN exchange[t][p] < MaxQty[t][p] ELSE exchange[t][p] > 0
    /\ exchange' = [exchange EXCEPT ![t] = Stepped(@, kind, p)]
    /\ IF channel[t] = "live"
       THEN Sends([kind |-> kind, ticker |-> t, price |-> p])
       ELSE UNCHANGED wire
    /\ UNCHANGED <<request, reconnect, loop, subscribed, books, history, channel, wiped>>

SendsTrade(t) ==
    /\ channel[t] # "off" /\ Sends([kind |-> "trade", ticker |-> t])
    /\ UNCHANGED <<request, reconnect, loop, subscribed, books, history, exchange,
                   channel, wiped>>

Next ==
    \/ \E wanted \in SUBSET Tickers : Subscribe(wanted)
    \/ SetReconnect
    \/ Open \/ ClearAndSend \/ Receive \/ ReceiveTimesOut \/ HandleMessage
    \/ Leave \/ ConnectionFails
    \/ \E t \in Tickers :
         \/ SendsSnapshot(t) \/ SendsTrade(t)
         \/ \E kind \in {"up", "down"}, p \in Prices : BookChanges(t, kind, p)

Spec == Init /\ [][Next]_vars

(***************************************************************************)
(* Properties.                                                             *)
(***************************************************************************)

\* A message of t applied to a book's levels.
Applied(levels, m, t) ==
    IF m.ticker # t \/ m.kind = "trade" THEN levels
    ELSE IF m.kind = "snapshot" THEN m.levels
    ELSE Stepped(levels, m.kind, m.price)

\* The levels of t's book when every message on the wire is handled.
Replayed(t) ==
    LET after[n \in 0..Len(wire)] ==
          IF n = 0 THEN books[t].levels ELSE Applied(after[n - 1], wire[n], t)
    IN  after[Len(wire)]

\* Once a contract's history has started, its cached book is the exchange's
\* book but for the messages still on the wire, and the best bid kept along
\* with the levels is their best: neither an eviction, a reconnect, a delta
\* of an evicted contract nor the shortcut that keeps the best bid between
\* deltas leaves a book that prices a contract wrongly.
BookTracksExchange ==
    \A t \in Tickers :
      started[t] # {} =>
        /\ books[t].cached
        /\ books[t].best = Best(books[t].levels)
        /\ Replayed(t) = exchange[t]

\* A history a reader may use never spans a gap of the transport or a second
\* snapshot: its start and all its rows belong to the same epoch, which a
\* trade that overtakes its contract's snapshot does not.
HistoryWithinEpoch ==
    \A t \in Tickers :
      started[t] # {} => started[t] = {"now"} /\ events[t] \cup trades[t] \subseteq {"now"}

\* While it listens, the feed is subscribed to the wanted contracts unless a
\* reconnect is on its way, or the change fell between the copy of _desired
\* and the clearing of the event: that one is lost until the next.
SubscriptionFollows ==
    loop \in {"check", "recv"} /\ ~reconnect /\ ~setting /\ ~wiped => subscribed = desired
=============================================================================
