-------------------------- MODULE KalshiBookProofs --------------------------
(***************************************************************************)
(* Proofs about KalshiBook, for any contracts, prices and quantities and   *)
(* for a wire of any length: TypeOK, the epochs of the histories, the      *)
(* reconnect protocol between the two threads, the best bid kept along     *)
(* with a book, and that a cached book is the exchange's but for the       *)
(* messages on the wire.                                                   *)
(***************************************************************************)
EXTENDS KalshiBook, WellFoundedInduction, TLAPS

\* Only a contract with a book has a history under way, and no row of an
\* epoch past is left in any.
HistoryInv ==
    \A t \in Tickers :
        /\ started[t] # {} => books[t].cached
        /\ started[t] \subseteq {"now"} /\ events[t] \subseteq {"now"}
        /\ trades[t] \subseteq {"now"}

\* A change of the wanted set is subscribed to, or announced by the event or
\* by the thread about to set it, or was wiped.
FollowInv ==
    loop # "down" /\ subscribed # desired =>
        setting \/ reconnect \/ wiped

\* The best bid kept with a book is the best of its levels, however the deltas
\* came to it.
BestKept ==
    \A t \in Tickers : books[t].cached => books[t].best = Best(books[t].levels)

-----------------------------------------------------------------------------
LEMMA LevelsType ==
    ASSUME NEW levels \in Levels, NEW kind, NEW p \in Prices
    PROVE  Stepped(levels, kind, p) \in Levels
BY DEF Stepped, Levels

Less == {pair \in Nat \X Nat : pair[1] < pair[2]}

LEMMA LessWellFounded == IsWellFoundedOn(Less, Nat)
BY NatLessThanWellFounded DEF OpToRel, Less

\* A non-empty set of prices has a greatest one: the one least short of 99.
LEMMA HighestExists ==
    ASSUME NEW S \in SUBSET Prices, S # {}
    PROVE  \E p \in S : \A q \in S : q <= p
<1> DEFINE T == {99 - p : p \in S}
<1>1. \A p \in S : p \in 1..99 /\ 99 - p \in T
  BY FeedConstants
<1>2. T \subseteq Nat /\ T # {}
  BY <1>1
<1>3. PICK x \in T : \A y \in T : <<y, x>> \notin Less
  <2> HIDE DEF T
  <2>. QED
    BY <1>2, LessWellFounded, WFMin
<1>4. \A y \in T : x <= y
  <2> SUFFICES ASSUME NEW y \in T PROVE x <= y
    OBVIOUS
  <2>1. x \in Nat /\ y \in Nat /\ <<y, x>> \in Nat \X Nat
    BY <1>2
  <2>2. ~(<<y, x>>[1] < <<y, x>>[2])
    BY <1>3, <2>1 DEF Less
  <2>. QED
    BY <2>1, <2>2
<1>5. PICK p \in S : x = 99 - p
  OBVIOUS
<1>6. \A q \in S : x <= 99 - q
  BY <1>1, <1>4
<1>7. \A q \in S : q <= p
  BY <1>1, <1>5, <1>6
<1>. QED
  BY <1>7

LEMMA BestIsHighest ==
    ASSUME NEW levels \in Levels
    PROVE  /\ Bids(levels) = {} => Best(levels) = 0
           /\ Bids(levels) # {} =>
                /\ Best(levels) \in Bids(levels)
                /\ \A q \in Bids(levels) : q <= Best(levels)
<1>1. Bids(levels) \in SUBSET Prices
  BY DEF Bids
<1>. QED
  BY <1>1, HighestExists DEF Best

LEMMA HighestIsBest ==
    ASSUME NEW levels \in Levels, NEW p \in Bids(levels), \A q \in Bids(levels) : q <= p
    PROVE  Best(levels) = p
<1>1. Bids(levels) \subseteq 1..99
  BY FeedConstants DEF Bids
<1>. QED
  BY <1>1, BestIsHighest

LEMMA BestType == ASSUME NEW levels \in Levels PROVE Best(levels) \in Prices \cup {0}
BY BestIsHighest DEF Bids

\* The shortcut of _handle_book_delta finds the best bid.
LEMMA NextBestIsBest ==
    ASSUME NEW levels \in Levels, NEW kind \in {"up", "down"}, NEW p \in Prices
    PROVE  NextBest(Best(levels), Stepped(levels, kind, p), p)
             = Best(Stepped(levels, kind, p))
<1> DEFINE new == Stepped(levels, kind, p)
<1>0. p \in 1..99 /\ \A q \in Prices : q \in 1..99
  BY FeedConstants
<1>. Best(levels) \in 0..99
  <2>1. Best(levels) \in Prices \cup {0}
    BY BestType
  <2>2. Prices \cup {0} \subseteq 0..99
    BY FeedConstants
  <2>. QED
    BY <2>1, <2>2
<1>1. new \in Levels /\ \A q \in Prices \ {p} : new[q] = levels[q]
  BY LevelsType DEF Stepped, Levels
<1>2. Bids(new) \subseteq Bids(levels) \cup {p} /\ Bids(levels) \subseteq Bids(new) \cup {p}
  BY <1>1 DEF Bids
<1>3. CASE Bids(new) = {}
  BY <1>3 DEF NextBest, Best
<1>4. CASE p \in Bids(new) /\ p > Best(levels)
  <2>1. \A q \in Bids(new) : q <= p
    <3> SUFFICES ASSUME NEW q \in Bids(new), q # p PROVE q <= p
      BY <1>0
    <3>1. q \in Bids(levels) /\ q \in Prices
      BY <1>2 DEF Bids
    <3>2. Best(levels) \in Bids(levels) /\ q <= Best(levels)
      BY <3>1, BestIsHighest
    <3>. QED
      BY <3>1, <3>2, <1>0, <1>4 DEF Bids
  <2>2. Best(new) = p
    BY <1>1, <1>4, <2>1, HighestIsBest
  <2>. QED
    BY <1>4, <2>2 DEF NextBest
<1>5. CASE Bids(new) # {} /\ ~(p \in Bids(new) /\ p > Best(levels)) /\ p = Best(levels) /\ p \notin Bids(new)
  BY <1>5 DEF NextBest
<1>6. CASE Bids(new) # {} /\ ~(p \in Bids(new) /\ p > Best(levels)) /\ ~(p = Best(levels) /\ p \notin Bids(new))
  <2>1. Bids(levels) # {}
    <3> SUFFICES ASSUME Bids(levels) = {} PROVE FALSE
      OBVIOUS
    <3>1. Best(levels) = 0
      BY BestIsHighest
    <3>2. p \in Bids(new)
      BY <1>2, <1>6
    <3>. QED
      BY <3>1, <3>2, <1>0, <1>6
  <2>2. Best(levels) \in Bids(levels) /\ Best(levels) \in Prices
    BY <2>1, BestIsHighest DEF Bids
  <2>3. Best(levels) \in Bids(new)
    BY <2>2, <1>2, <1>6
  <2>4. \A q \in Bids(new) : q <= Best(levels)
    <3> SUFFICES ASSUME NEW q \in Bids(new) PROVE q <= Best(levels)
      OBVIOUS
    <3>1. CASE q = p
      BY <3>1, <2>2, <1>0, <1>6
    <3>2. CASE q # p
      BY <3>2, <1>2, BestIsHighest
    <3>. QED
      BY <3>1, <3>2
  <2>5. Best(new) = Best(levels)
    BY <1>1, <2>3, <2>4, HighestIsBest
  <2>. QED
    BY <1>6, <2>5 DEF NextBest
<1>. QED
  BY <1>3, <1>4, <1>5, <1>6

-----------------------------------------------------------------------------
LEMMA InitType == Init => TypeOK
<1>1. Empty \in Levels
  BY DEF Empty, Levels
<1>2. [t \in Tickers |-> NoBook] \in [Tickers -> Book]
  BY DEF Book
<1>3. <<>> \in Seq(Message)
  OBVIOUS
<1>. QED
  BY <1>1, <1>2, <1>3 DEF Init, TypeOK

LEMMA SubscriberType ==
    ASSUME TypeOK, (\E wanted \in SUBSET Tickers : Subscribe(wanted)) \/ SetReconnect
    PROVE  TypeOK'
<1>1. CASE SetReconnect
  BY <1>1 DEF SetReconnect, TypeOK, history, market
<1>2. ASSUME NEW wanted \in SUBSET Tickers, Subscribe(wanted) PROVE TypeOK'
  <2>1. books' \in [Tickers -> Book]
    BY <1>2 DEF Subscribe, Evicted, TypeOK, Book
  <2>2. /\ events' \in [Tickers -> SUBSET Epochs] /\ trades' \in [Tickers -> SUBSET Epochs]
        /\ started' \in [Tickers -> SUBSET Epochs]
    BY <1>2 DEF Subscribe, Evicted, TypeOK
  <2>3. setting' \in BOOLEAN
    BY <1>2 DEF Subscribe, Changed
  <2>. QED
    BY <1>2, <2>1, <2>2, <2>3 DEF Subscribe, TypeOK, market
<1>. QED
  BY <1>1, <1>2

LEMMA LoopType ==
    ASSUME TypeOK, Open \/ ClearAndSend \/ Receive \/ ReceiveTimesOut PROVE TypeOK'
<1>1. CASE Open
  BY <1>1 DEF Open, TypeOK, request, history, market
<1>2. CASE ClearAndSend
  BY <1>2 DEF ClearAndSend, TypeOK, request, history
<1>3. CASE Receive
  BY <1>3 DEF Receive, TypeOK, request, history, market
<1>4. CASE ReceiveTimesOut
  BY <1>4 DEF ReceiveTimesOut, TypeOK, request, history, market
<1>. QED
  BY <1>1, <1>2, <1>3, <1>4

LEMMA AgedType ==
    ASSUME NEW f
    PROVE  /\ Aged(f) \in [Tickers -> SUBSET Epochs]
           /\ GapHistory(f) \in [Tickers -> SUBSET Epochs]
BY DEF Aged, GapHistory, Epochs

LEMMA DisconnectedType == ASSUME TypeOK, Leave \/ ConnectionFails PROVE TypeOK'
<1>1. Disconnected
  BY DEF Leave, ConnectionFails
<1>2. /\ events' \in [Tickers -> SUBSET Epochs] /\ trades' \in [Tickers -> SUBSET Epochs]
      /\ started' \in [Tickers -> SUBSET Epochs]
  BY <1>1, AgedType DEF Disconnected
<1>3. wire' \in Seq(Message)
  BY <1>1 DEF Disconnected
<1>. QED
  BY <1>1, <1>2, <1>3 DEF Disconnected, TypeOK, request

LEMMA HeldType ==
    ASSUME TypeOK, NEW t \in Tickers
    PROVE  /\ Held(t).levels \in Levels /\ Held(t).best \in Prices \cup {0}
           /\ BestKept => Held(t).best = Best(Held(t).levels)
<1>1. Empty \in Levels /\ Bids(Empty) = {}
  BY DEF Empty, Levels, Bids
<1>2. books[t] \in Book
  BY DEF TypeOK
<1>3. CASE books[t].cached
  <2>1. books[t] \in [cached : {TRUE}, levels : Levels, best : Prices \cup {0}]
    <3>1. ~NoBook.cached
      BY DEF NoBook
    <3>. QED
      BY <1>2, <1>3, <3>1 DEF Book
  <2>. QED
    BY <1>3, <2>1 DEF Held, BestKept
<1>4. CASE ~books[t].cached
  BY <1>1, <1>4 DEF Held, Best
<1>. QED
  BY <1>3, <1>4

LEMMA AppendedType ==
    ASSUME NEW f \in [Tickers -> SUBSET Epochs], NEW t \in Tickers, NEW g \in Appended(f, t)
    PROVE  g \in [Tickers -> SUBSET Epochs]
BY DEF Appended, Epochs

LEMMA MessageType ==
    ASSUME NEW m \in Message
    PROVE  /\ m.ticker \in Tickers
           /\ m.kind = "snapshot" => m.levels \in Levels
           /\ m.kind \in {"up", "down"} => m.price \in Prices
BY DEF Message

\* HandleMessage, by the kind of the message at the head of the wire.
LEMMA HandledCases ==
    ASSUME TypeOK, HandleMessage
    PROVE  \/ \E t \in Tickers, levels \in Levels : HandleSnapshot(t, levels)
           \/ \E t \in Tickers, kind \in {"up", "down"}, p \in Prices :
                HandleDelta(t, kind, p)
           \/ \E t \in Tickers : HandleTrade(t)
<1>1. Head(wire) \in Message
  BY DEF TypeOK, HandleMessage
<1>. QED
  BY <1>1, MessageType DEF HandleMessage

LEMMA HandledType == ASSUME TypeOK, HandleMessage PROVE TypeOK'
<1> DEFINE Handled ==
      /\ books' \in [Tickers -> Book] /\ started' \in [Tickers -> SUBSET Epochs]
      /\ events' \in [Tickers -> SUBSET Epochs] /\ trades' \in [Tickers -> SUBSET Epochs]
<1>1. ASSUME NEW t \in Tickers, NEW levels \in Levels, HandleSnapshot(t, levels)
      PROVE  Handled
  <2>1. [cached |-> TRUE, levels |-> levels, best |-> Best(levels)] \in Book
    BY BestType DEF Book
  <2>. QED
    BY <1>1, <2>1 DEF HandleSnapshot, KeptRows, TypeOK, Epochs
<1>2. ASSUME NEW t \in Tickers, NEW kind \in {"up", "down"}, NEW p \in Prices,
             HandleDelta(t, kind, p)
      PROVE  Handled
  <2> DEFINE levels == Stepped(Held(t).levels, kind, p)
             book == [cached |-> TRUE, levels |-> levels,
                      best |-> NextBest(Held(t).best, levels, p)]
  <2>1. levels \in Levels /\ Held(t).best \in Prices \cup {0}
    BY HeldType, LevelsType
  <2>2. NextBest(Held(t).best, levels, p) \in Prices \cup {0}
    BY <2>1, BestType DEF NextBest
  <2>3. book \in Book
    BY <2>1, <2>2 DEF Book
  <2>4. books' = [books EXCEPT ![t] = book] /\ events' \in Appended(events, t)
    BY <1>2 DEF HandleDelta
  <2>5. books' \in [Tickers -> Book]
    BY <2>3, <2>4 DEF TypeOK
  <2>6. events' \in [Tickers -> SUBSET Epochs]
    BY <2>4, AppendedType DEF TypeOK
  <2>. QED
    BY <1>2, <2>5, <2>6 DEF HandleDelta, TypeOK
<1>3. ASSUME NEW t \in Tickers, HandleTrade(t) PROVE Handled
  <2>1. trades' \in [Tickers -> SUBSET Epochs]
    BY <1>3, AppendedType DEF HandleTrade, TypeOK
  <2>. QED
    BY <1>3, <2>1 DEF HandleTrade, TypeOK
<1>4. Handled
  <2> HIDE DEF Handled
  <2>. QED
    BY <1>1, <1>2, <1>3, HandledCases
<1>5. wire' \in Seq(Message) /\ loop' \in {"down", "opened", "check", "recv"}
  BY DEF HandleMessage, TypeOK
<1>. QED
  BY <1>4, <1>5 DEF HandleMessage, TypeOK, request

LEMMA ExchangeType ==
    ASSUME TypeOK, NEW t \in Tickers,
           \/ SendsSnapshot(t) \/ SendsTrade(t)
           \/ \E kind \in {"up", "down"}, p \in Prices : BookChanges(t, kind, p)
    PROVE  TypeOK'
<1> DEFINE snapshot == [kind |-> "snapshot", ticker |-> t, levels |-> exchange[t]]
<1>1. CASE SendsSnapshot(t)
  <2>1. snapshot \in Message
    BY DEF Message, TypeOK
  <2>2. wire' \in Seq(Message)
    BY <1>1, <2>1 DEF SendsSnapshot, Sends, TypeOK
  <2>. QED
    BY <1>1, <2>2 DEF SendsSnapshot, TypeOK, request, history
<1>2. CASE SendsTrade(t)
  <2>1. [kind |-> "trade", ticker |-> t] \in Message
    BY DEF Message
  <2>2. wire' \in Seq(Message)
    BY <1>2, <2>1 DEF SendsTrade, Sends, TypeOK
  <2>. QED
    BY <1>2, <2>2 DEF SendsTrade, TypeOK, request, history
<1>3. ASSUME NEW kind \in {"up", "down"}, NEW p \in Prices, BookChanges(t, kind, p)
      PROVE  TypeOK'
  <2>1. [kind |-> kind, ticker |-> t, price |-> p] \in Message
    BY DEF Message
  <2>2. wire' \in Seq(Message)
    <3>1. wire' \in {wire, Append(wire, [kind |-> kind, ticker |-> t, price |-> p])}
      BY <1>3 DEF BookChanges, Sends
    <3>2. wire \in Seq(Message)
      BY DEF TypeOK
    <3>. QED
      BY <2>1, <3>1, <3>2
  <2>3. Stepped(exchange[t], kind, p) \in Levels
    BY LevelsType DEF TypeOK
  <2>4. exchange' \in [Tickers -> Levels]
    BY <1>3, <2>3 DEF BookChanges, TypeOK
  <2>. QED
    BY <1>3, <2>2, <2>4 DEF BookChanges, TypeOK, request, history
<1>. QED
  BY <1>1, <1>2, <1>3

LEMMA StepType == TypeOK /\ [Next]_vars => TypeOK'
<1> SUFFICES ASSUME TypeOK, [Next]_vars PROVE TypeOK'
  OBVIOUS
<1>1. CASE UNCHANGED vars
  BY <1>1 DEF vars, request, history, market, TypeOK
<1>. QED
  BY <1>1, SubscriberType, LoopType, DisconnectedType, HandledType, ExchangeType DEF Next

\* Every variable keeps its type, for any contracts, prices and bounds.
THEOREM TypeCorrect == Spec => []TypeOK
BY InitType, StepType, PTL DEF Spec

-----------------------------------------------------------------------------
LEMMA SubscriberHistory ==
    ASSUME HistoryInv, (\E wanted \in SUBSET Tickers : Subscribe(wanted)) \/ SetReconnect
    PROVE  HistoryInv'
<1>1. CASE SetReconnect
  BY <1>1 DEF SetReconnect, HistoryInv, history
<1>2. ASSUME NEW wanted \in SUBSET Tickers, Subscribe(wanted) PROVE HistoryInv'
  BY <1>2 DEF Subscribe, Evicted, HistoryInv
<1>. QED
  BY <1>1, <1>2

LEMMA DisconnectedHistory ==
    ASSUME TypeOK, HistoryInv, Leave \/ ConnectionFails PROVE HistoryInv'
<1>1. Disconnected
  BY DEF Leave, ConnectionFails
<1>2. ASSUME NEW t \in Tickers PROVE events'[t] = {} /\ trades'[t] = {} /\ started'[t] = {}
  BY <1>1 DEF Disconnected, GapHistory, Aged, Invalidated, HistoryInv
<1>. QED
  BY <1>1, <1>2 DEF HistoryInv

LEMMA HandledHistory ==
    ASSUME TypeOK, HistoryInv, HandleMessage PROVE HistoryInv'
<1>1. ASSUME NEW t \in Tickers, NEW levels \in Levels, HandleSnapshot(t, levels)
      PROVE  HistoryInv'
  BY <1>1 DEF HandleSnapshot, KeptRows, HistoryInv, TypeOK
<1>2. ASSUME NEW t \in Tickers, NEW kind \in {"up", "down"}, NEW p \in Prices,
             HandleDelta(t, kind, p)
      PROVE  HistoryInv'
  <2>1. \A s \in Tickers : books[s].cached => books'[s].cached
    BY <1>2 DEF HandleDelta, TypeOK
  <2>2. \A s \in Tickers : events'[s] \subseteq {"now"}
    BY <1>2 DEF HandleDelta, Appended, TypeOK, HistoryInv
  <2>. QED
    BY <1>2, <2>1, <2>2 DEF HandleDelta, HistoryInv
<1>3. ASSUME NEW t \in Tickers, HandleTrade(t) PROVE HistoryInv'
  BY <1>3 DEF HandleTrade, Appended, HistoryInv, TypeOK
<1>. QED
  BY <1>1, <1>2, <1>3, HandledCases

LEMMA StepHistory == TypeOK /\ HistoryInv /\ [Next]_vars => HistoryInv'
<1> SUFFICES ASSUME TypeOK, HistoryInv, [Next]_vars PROVE HistoryInv'
  OBVIOUS
<1>1. CASE UNCHANGED <<books, history>>
  BY <1>1 DEF HistoryInv, history
<1>2. CASE Open \/ ClearAndSend \/ Receive \/ ReceiveTimesOut
  BY <1>1, <1>2 DEF Open, ClearAndSend, Receive, ReceiveTimesOut
<1>3. CASE \E t \in Tickers :
             \/ SendsSnapshot(t) \/ SendsTrade(t)
             \/ \E kind \in {"up", "down"}, p \in Prices : BookChanges(t, kind, p)
  BY <1>1, <1>3 DEF SendsSnapshot, SendsTrade, BookChanges
<1>4. CASE UNCHANGED vars
  BY <1>1, <1>4 DEF vars
<1>. QED
  BY <1>2, <1>3, <1>4, SubscriberHistory, DisconnectedHistory, HandledHistory DEF Next

\* _handle_book_snapshot and _invalidate_microstructure_history_locked: no
\* history in use spans a gap or a second snapshot.
THEOREM HistoryOfOneEpoch == Spec => []HistoryWithinEpoch
<1>1. Init => HistoryInv
  BY DEF Init, HistoryInv
<1>2. HistoryInv => HistoryWithinEpoch
  BY DEF HistoryInv, HistoryWithinEpoch
<1>. QED
  BY <1>1, <1>2, StepHistory, TypeCorrect, PTL DEF Spec

-----------------------------------------------------------------------------
LEMMA StepFollow == FollowInv /\ [Next]_vars => FollowInv'
<1> SUFFICES ASSUME FollowInv, [Next]_vars PROVE FollowInv'
  OBVIOUS
<1>1. ASSUME NEW wanted \in SUBSET Tickers, Subscribe(wanted) PROVE FollowInv'
  BY <1>1 DEF Subscribe, Changed, FollowInv
<1>2. CASE SetReconnect
  BY <1>2 DEF SetReconnect, FollowInv
<1>3. CASE Open
  BY <1>3 DEF Open, FollowInv, request
<1>4. CASE ClearAndSend
  BY <1>4 DEF ClearAndSend, FollowInv, request
<1>5. CASE Receive \/ ReceiveTimesOut \/ HandleMessage
  BY <1>5 DEF Receive, ReceiveTimesOut, HandleMessage, FollowInv, request
<1>6. CASE Leave \/ ConnectionFails
  BY <1>6 DEF Leave, ConnectionFails, Disconnected, FollowInv
<1>7. ASSUME NEW t \in Tickers,
             \/ SendsSnapshot(t) \/ SendsTrade(t)
             \/ \E kind \in {"up", "down"}, p \in Prices : BookChanges(t, kind, p)
      PROVE  FollowInv'
  BY <1>7 DEF SendsSnapshot, SendsTrade, BookChanges, FollowInv, request
<1>8. CASE UNCHANGED vars
  BY <1>8 DEF vars, request, FollowInv
<1>. QED
  BY <1>1, <1>2, <1>3, <1>4, <1>5, <1>6, <1>7, <1>8 DEF Next

\* subscribe and _run_forever: the only change of the wanted contracts that a
\* listening feed does not follow is the one whose event was cleared between
\* the copy of the set and the subscription.
THEOREM FollowsUnlessWiped == Spec => []SubscriptionFollows
<1>1. Init => FollowInv
  BY DEF Init, FollowInv
<1>2. FollowInv => SubscriptionFollows
  BY DEF FollowInv, SubscriptionFollows
<1>. QED
  BY <1>1, <1>2, StepFollow, PTL DEF Spec

-----------------------------------------------------------------------------
LEMMA StepBest == TypeOK /\ BestKept /\ [Next]_vars => BestKept'
<1> SUFFICES ASSUME TypeOK, BestKept, [Next]_vars PROVE BestKept'
  OBVIOUS
<1>1. CASE UNCHANGED books
  BY <1>1 DEF BestKept
<1>2. ASSUME NEW wanted \in SUBSET Tickers, Subscribe(wanted) PROVE BestKept'
  BY <1>2 DEF Subscribe, Evicted, BestKept, NoBook
<1>3. CASE HandleMessage
  <2>1. ASSUME NEW t \in Tickers, NEW levels \in Levels, HandleSnapshot(t, levels)
        PROVE  BestKept'
    BY <2>1 DEF HandleSnapshot, BestKept, TypeOK
  <2>2. ASSUME NEW t \in Tickers, NEW kind \in {"up", "down"}, NEW p \in Prices,
               HandleDelta(t, kind, p)
        PROVE  BestKept'
    <3> DEFINE levels == Stepped(Held(t).levels, kind, p)
               book == [cached |-> TRUE, levels |-> levels,
                        best |-> NextBest(Held(t).best, levels, p)]
    <3>1. Held(t).levels \in Levels /\ Held(t).best = Best(Held(t).levels)
      BY HeldType
    <3>2. book.best = Best(book.levels)
      BY <3>1, NextBestIsBest
    <3>3. books' = [books EXCEPT ![t] = book]
      BY <2>2 DEF HandleDelta
    <3>. HIDE DEF book
    <3>4. books'[t] = book /\ \A s \in Tickers \ {t} : books'[s] = books[s]
      BY <3>3 DEF TypeOK
    <3>. QED
      BY <3>2, <3>4 DEF BestKept
  <2>3. ASSUME NEW t \in Tickers, HandleTrade(t) PROVE BestKept'
    BY <2>3, <1>1 DEF HandleTrade
  <2>. QED
    BY <1>3, <2>1, <2>2, <2>3, HandledCases
<1>4. CASE SetReconnect \/ Open \/ ClearAndSend \/ Receive \/ ReceiveTimesOut
  BY <1>1, <1>4 DEF SetReconnect, Open, ClearAndSend, Receive, ReceiveTimesOut
<1>5. CASE Leave \/ ConnectionFails
  BY <1>1, <1>5 DEF Leave, ConnectionFails, Disconnected
<1>6. ASSUME NEW t \in Tickers,
             \/ SendsSnapshot(t) \/ SendsTrade(t)
             \/ \E kind \in {"up", "down"}, p \in Prices : BookChanges(t, kind, p)
      PROVE  BestKept'
  BY <1>1, <1>6 DEF SendsSnapshot, SendsTrade, BookChanges
<1>7. CASE UNCHANGED vars
  BY <1>1, <1>7 DEF vars
<1>. QED
  BY <1>2, <1>3, <1>4, <1>5, <1>6, <1>7 DEF Next

\* _handle_book_delta: whatever deltas arrive, in whatever order and for books
\* with or without a snapshot, the shortcut keeps the best bid.
THEOREM BestBidIsKept == Spec => []BestKept
<1>1. Init => BestKept
  BY DEF Init, BestKept, NoBook
<1>. QED
  BY <1>1, StepBest, TypeCorrect, PTL DEF Spec

-----------------------------------------------------------------------------
\* A cached book is the exchange's but for the wire

\* From these levels, handling the messages of w after the k-th leads to goal:
\* run is the book of t on the way.
Follows(w, goal, t, k, levels) ==
    \E run \in [k..Len(w) -> Levels] :
        /\ run[k] = levels
        /\ \A i \in k+1..Len(w) : run[i] = Applied(run[i - 1], w[i], t)
        /\ run[Len(w)] = goal

\* A message that changes the book of t.
Touches(m, t) == m.ticker = t /\ m.kind # "trade"

NoChannelYet == loop \in {"down", "opened"} => \A t \in Tickers : channel[t] = "off"

\* Before the exchange sent the snapshot the wire has nothing of the book and no
\* history has started; from a book with a history, and from a snapshot on the
\* wire, the messages behind it lead to the exchange's book.
Tracked(t) ==
    /\ channel[t] # "live" =>
         started[t] = {} /\ \A k \in 1..Len(wire) : ~Touches(wire[k], t)
    /\ started[t] # {} => Follows(wire, exchange[t], t, 0, books[t].levels)
    /\ \A k \in 1..Len(wire) :
         wire[k].ticker = t /\ wire[k].kind = "snapshot" =>
           Follows(wire, exchange[t], t, k, wire[k].levels)

TrackInv == NoChannelYet /\ \A t \in Tickers : Tracked(t)

LEMMA AppliedType ==
    ASSUME NEW levels \in Levels, NEW m \in Message, NEW t
    PROVE  Applied(levels, m, t) \in Levels
<1>1. CASE m.ticker # t \/ m.kind = "trade"
  BY <1>1 DEF Applied
<1>2. CASE m.ticker = t /\ m.kind = "snapshot"
  BY <1>2, MessageType DEF Applied
<1>3. CASE m.ticker = t /\ m.kind \notin {"trade", "snapshot"}
  <2>1. m.kind \in {"up", "down"}
    BY <1>3 DEF Message
  <2>. QED
    BY <1>3, <2>1, MessageType, LevelsType DEF Applied
<1>. QED
  BY <1>1, <1>2, <1>3

\* A message sent with the change it is about is followed.
LEMMA FollowsSent ==
    ASSUME NEW w \in Seq(Message), NEW goal \in Levels, NEW t, NEW k \in Nat, k <= Len(w),
           NEW levels, Follows(w, goal, t, k, levels), NEW m \in Message
    PROVE  Follows(Append(w, m), Applied(goal, m, t), t, k, levels)
<1>1. PICK run \in [k..Len(w) -> Levels] :
        /\ run[k] = levels
        /\ \A i \in k+1..Len(w) : run[i] = Applied(run[i - 1], w[i], t)
        /\ run[Len(w)] = goal
  BY DEF Follows
<1> DEFINE n == Len(w)
           wm == Append(w, m)
           last == Applied(goal, m, t)
           longer == [i \in k..n+1 |-> IF i <= n THEN run[i] ELSE last]
<1>2. /\ n \in Nat /\ Len(wm) = n + 1 /\ wm[n + 1] = m
      /\ \A i \in 1..n : wm[i] = w[i]
  OBVIOUS
<1>3. last \in Levels
  BY AppliedType
<1> HIDE DEF wm
<1>4. longer \in [k..n+1 -> Levels]
  BY <1>1, <1>2, <1>3
<1>5. longer[k] = levels /\ longer[n + 1] = last
  BY <1>1, <1>2
<1>6. ASSUME NEW i \in k+1..n+1
      PROVE  longer[i] = Applied(longer[i - 1], wm[i], t)
  <2>1. CASE i <= n
    <3>1. longer[i] = run[i] /\ longer[i - 1] = run[i - 1] /\ wm[i] = w[i]
      BY <1>2, <2>1
    <3>. QED
      BY <1>1, <1>2, <2>1, <3>1
  <2>2. CASE i = n + 1
    <3>1. longer[i] = last /\ longer[i - 1] = goal /\ wm[i] = m
      BY <1>1, <1>2, <2>2
    <3>. QED
      BY <3>1
  <2>. QED
    BY <1>2, <2>1, <2>2
<1>. HIDE DEF longer, last
<1>7. Follows(wm, last, t, k, levels)
  BY <1>2, <1>4, <1>5, <1>6 DEF Follows
<1>. QED
  BY <1>7 DEF wm, last

\* Handling the first message moves the run one place on.
LEMMA FollowsHandled ==
    ASSUME NEW w \in Seq(Message), NEW goal, NEW t, NEW k \in Nat, k + 1 <= Len(w),
           NEW levels, Follows(w, goal, t, k + 1, levels)
    PROVE  Follows(Tail(w), goal, t, k, levels)
<1>1. PICK run \in [k + 1..Len(w) -> Levels] :
        /\ run[k + 1] = levels
        /\ \A i \in (k + 1)+1..Len(w) : run[i] = Applied(run[i - 1], w[i], t)
        /\ run[Len(w)] = goal
  BY DEF Follows
<1> DEFINE n == Len(w)
           tail == Tail(w)
           rest == [i \in k..n-1 |-> run[i + 1]]
<1>2. /\ n \in Nat \ {0} /\ Len(tail) = n - 1
      /\ \A i \in 1..n-1 : tail[i] = w[i + 1]
  OBVIOUS
<1> HIDE DEF tail
<1>3. rest \in [k..n-1 -> Levels]
  BY <1>1, <1>2
<1>4. rest[k] = levels /\ rest[n - 1] = goal
  BY <1>1, <1>2
<1>5. ASSUME NEW i \in k+1..n-1 PROVE rest[i] = Applied(rest[i - 1], tail[i], t)
  <2>1. rest[i] = run[i + 1] /\ rest[i - 1] = run[i] /\ tail[i] = w[i + 1]
    BY <1>2
  <2>2. i + 1 \in (k + 1)+1..n /\ (i + 1) - 1 = i
    BY <1>2
  <2>. QED
    BY <1>1, <2>1, <2>2
<1>. HIDE DEF rest
<1>6. Follows(tail, goal, t, k, levels)
  BY <1>2, <1>3, <1>4, <1>5 DEF Follows
<1>. QED
  BY <1>6 DEF tail

\* The first step of a run.
LEMMA FollowsHead ==
    ASSUME NEW w \in Seq(Message), NEW goal, NEW t, NEW levels,
           Follows(w, goal, t, 0, levels), w # <<>>
    PROVE  Follows(w, goal, t, 1, Applied(levels, w[1], t))
<1>1. PICK run \in [0..Len(w) -> Levels] :
        /\ run[0] = levels
        /\ \A i \in 0+1..Len(w) : run[i] = Applied(run[i - 1], w[i], t)
        /\ run[Len(w)] = goal
  BY DEF Follows
<1> DEFINE rest == [i \in 1..Len(w) |-> run[i]]
<1>2. Len(w) \in Nat \ {0}
  OBVIOUS
<1>3. run[1] = Applied(run[1 - 1], w[1], t)
  BY <1>1, <1>2
<1>4. rest \in [1..Len(w) -> Levels] /\ rest[1] = Applied(levels, w[1], t)
  BY <1>1, <1>2, <1>3
<1>5. /\ \A i \in 1+1..Len(w) : rest[i] = Applied(rest[i - 1], w[i], t)
      /\ rest[Len(w)] = goal
  BY <1>1, <1>2
<1>. HIDE DEF rest
<1>. QED
  BY <1>4, <1>5 DEF Follows

\* The run of no message.
LEMMA FollowsNone ==
    ASSUME NEW w \in Seq(Message), NEW goal \in Levels, NEW t
    PROVE  Follows(w, goal, t, Len(w), goal)
<1> DEFINE run == [i \in Len(w)..Len(w) |-> goal]
<1>1. run \in [Len(w)..Len(w) -> Levels] /\ run[Len(w)] = goal
  OBVIOUS
<1>2. \A i \in Len(w)+1..Len(w) : FALSE
  OBVIOUS
<1> HIDE DEF run
<1>. QED
  BY <1>1, <1>2 DEF Follows

\* The replay of the property is the run.
LEMMA FollowsReplayed ==
    ASSUME TypeOK, NEW t \in Tickers,
           Follows(wire, exchange[t], t, 0, books[t].levels)
    PROVE  Replayed(t) = exchange[t]
<1>1. PICK run \in [0..Len(wire) -> Levels] :
        /\ run[0] = books[t].levels
        /\ \A i \in 0+1..Len(wire) : run[i] = Applied(run[i - 1], wire[i], t)
        /\ run[Len(wire)] = exchange[t]
  BY DEF Follows
<1> DEFINE n == Len(wire)
           Recurs(f) == f = [i \in 0..n |-> IF i = 0 THEN books[t].levels
                                            ELSE Applied(f[i - 1], wire[i], t)]
           after == CHOOSE f : Recurs(f)
<1>2. n \in Nat
  BY DEF TypeOK
<1>3. Recurs(run)
  BY <1>1, <1>2
<1>4. Recurs(after)
  <2>. HIDE DEF Recurs
  <2>. QED
    BY <1>3
<1>5. Replayed(t) = after[n]
  BY DEF Replayed
<1> HIDE DEF after
<1>6. /\ after[0] = books[t].levels
      /\ \A i \in 1..n : after[i] = Applied(after[i - 1], wire[i], t)
  BY <1>2, <1>4
<1> DEFINE Differ == {i \in 0..n : after[i] # run[i]}
<1>7. Differ = {}
  <2> SUFFICES ASSUME Differ # {} PROVE FALSE
    OBVIOUS
  <2>1. Differ \subseteq Nat
    OBVIOUS
  <2>2. PICK i \in Differ : \A j \in Differ : <<j, i>> \notin Less
    <3> HIDE DEF Differ
    <3>. QED
      BY <2>1, LessWellFounded, WFMin
  <2>3. i \in 1..n
    BY <1>1, <1>2, <1>6
  <2>4. i - 1 \notin Differ
    <3>1. <<i - 1, i>> \in Less
      BY <2>3 DEF Less
    <3>. QED
      BY <2>2, <3>1
  <2>5. after[i - 1] = run[i - 1]
    BY <2>3, <2>4, <1>2
  <2>6. run[i] = Applied(run[i - 1], wire[i], t)
    BY <1>1, <2>3
  <2>7. after[i] = run[i]
    BY <1>6, <2>3, <2>5, <2>6
  <2>. QED
    BY <2>2, <2>7
<1>8. after[n] = run[n]
  BY <1>2, <1>7
<1>. QED
  BY <1>1, <1>5, <1>8

\* A message not about the book of t, and a book of t that is not touched.
LEMMA NotApplied ==
    ASSUME NEW levels, NEW m, NEW t, ~Touches(m, t) PROVE Applied(levels, m, t) = levels
BY DEF Touches, Applied

LEMMA SubscriberTracked ==
    ASSUME HistoryInv, TrackInv,
           (\E wanted \in SUBSET Tickers : Subscribe(wanted)) \/ SetReconnect
    PROVE  TrackInv'
<1>1. UNCHANGED <<loop, exchange, channel, wire>>
  BY DEF Subscribe, SetReconnect, market
<1>2. \A t \in Tickers : started'[t] # {} => started[t] # {} /\ books'[t] = books[t]
  <2>1. CASE SetReconnect
    BY <2>1 DEF SetReconnect, history
  <2>2. ASSUME NEW wanted \in SUBSET Tickers, Subscribe(wanted)
        PROVE  \A t \in Tickers : started'[t] # {} => started[t] # {} /\ books'[t] = books[t]
    BY <2>2 DEF Subscribe, Evicted
  <2>. QED
    BY <2>1, <2>2
<1>4. ASSUME NEW t \in Tickers PROVE Tracked(t)'
  <2>1. Tracked(t)
    BY DEF TrackInv
  <2>. QED
    BY <1>1, <1>2, <2>1 DEF Tracked
<1>. QED
  BY <1>1, <1>4 DEF TrackInv, NoChannelYet

LEMMA DisconnectedTracked ==
    ASSUME TypeOK, HistoryInv, Leave \/ ConnectionFails PROVE TrackInv'
<1>1. Disconnected
  BY DEF Leave, ConnectionFails
<1>2. ASSUME NEW t \in Tickers PROVE started'[t] = {} /\ channel'[t] = "off"
  BY <1>1 DEF Disconnected, GapHistory, Aged, Invalidated, HistoryInv
<1>3. wire' = <<>> /\ Len(wire') = 0
  BY <1>1 DEF Disconnected
<1>. QED
  BY <1>2, <1>3 DEF TrackInv, NoChannelYet, Tracked

LEMMA LoopTracked ==
    ASSUME TypeOK, TrackInv, Open \/ ClearAndSend \/ Receive \/ ReceiveTimesOut
    PROVE  TrackInv'
<1>1. UNCHANGED <<books, history, exchange, wire>>
  BY DEF Open, ClearAndSend, Receive, ReceiveTimesOut, market
<1>2. \A t \in Tickers : channel'[t] = channel[t] \/ channel[t] # "live"
  BY DEF Open, ClearAndSend, Receive, ReceiveTimesOut, market, TrackInv, NoChannelYet
<1>3. NoChannelYet'
  BY DEF Open, ClearAndSend, Receive, ReceiveTimesOut, market, TrackInv, NoChannelYet
<1>4. ASSUME NEW t \in Tickers PROVE Tracked(t)'
  <2>1. Tracked(t)
    BY DEF TrackInv
  <2>. QED
    BY <1>1, <1>2, <2>1 DEF Tracked, history
<1>. QED
  BY <1>3, <1>4 DEF TrackInv

\* What the handler of the head of the wire does to the book of a contract.
LEMMA HandledBook ==
    ASSUME TypeOK, HistoryInv, HandleMessage, NEW t \in Tickers
    PROVE  LET m == wire[1] IN
           /\ m \in Message /\ wire # <<>> /\ wire' = Tail(wire)
           /\ m.ticker = t /\ m.kind = "snapshot" =>
                books'[t].levels = m.levels /\ started'[t] # {}
           /\ ~(m.ticker = t /\ m.kind = "snapshot") => started'[t] = started[t]
           /\ ~(m.ticker = t /\ m.kind = "snapshot") /\ started[t] # {} =>
                books'[t].levels = Applied(books[t].levels, m, t)
<1> DEFINE m == wire[1]
<1>1. m \in Message /\ wire # <<>> /\ wire' = Tail(wire) /\ m = Head(wire)
  BY DEF HandleMessage, TypeOK
<1> HIDE DEF m
<1>2. m.ticker \in Tickers /\ (m.kind \in {"up", "down"} => m.price \in Prices)
  BY <1>1, MessageType
<1>3. CASE m.kind = "snapshot" /\ HandleSnapshot(m.ticker, m.levels)
  BY <1>1, <1>2, <1>3 DEF HandleSnapshot, Applied, TypeOK, m
<1>4. CASE m.kind \in {"up", "down"} /\ HandleDelta(m.ticker, m.kind, m.price)
  <2>1. started[t] # {} => Held(t) = books[t]
    BY DEF HistoryInv, Held
  <2>2. CASE m.ticker = t
    <3>1. books'[t].levels = Stepped(Held(t).levels, m.kind, m.price)
      BY <1>2, <1>4, <2>2 DEF HandleDelta, TypeOK
    <3>2. m.kind # "trade" /\ m.kind # "snapshot"
      BY <1>4
    <3>. QED
      BY <1>1, <1>4, <2>1, <2>2, <3>1, <3>2 DEF HandleDelta, Applied, m
  <2>3. CASE m.ticker # t
    BY <1>1, <1>2, <1>4, <2>3 DEF HandleDelta, Applied, TypeOK, m
  <2>. QED
    BY <2>2, <2>3
<1>5. CASE m.kind = "trade" /\ HandleTrade(m.ticker)
  BY <1>1, <1>5 DEF HandleTrade, Applied, m
<1>. QED
  BY <1>1, <1>3, <1>4, <1>5 DEF HandleMessage

LEMMA HandledTracked ==
    ASSUME TypeOK, HistoryInv, TrackInv, HandleMessage PROVE TrackInv'
<1> DEFINE m == wire[1]
<1>1. UNCHANGED <<exchange, channel>> /\ wire' = Tail(wire) /\ wire # <<>>
  BY DEF HandleMessage
<1>2. /\ Len(wire) \in Nat \ {0} /\ Len(wire') = Len(wire) - 1
      /\ \A k \in 1..Len(wire') : wire'[k] = wire[k + 1] /\ k + 1 \in 1..Len(wire)
  BY <1>1 DEF TypeOK
<1>3. NoChannelYet'
  BY <1>1 DEF HandleMessage, NoChannelYet
<1>4. ASSUME NEW t \in Tickers PROVE Tracked(t)'
  <2>1. Tracked(t)
    BY DEF TrackInv
  <2>2. 1 \in 1..Len(wire)
    BY <1>2
  <2>3. channel'[t] # "live" => started'[t] = {}
    <3> SUFFICES ASSUME channel[t] # "live" PROVE started'[t] = {}
      BY <1>1
    <3>1. started[t] = {} /\ ~Touches(wire[1], t)
      BY <2>1, <2>2 DEF Tracked
    <3>. QED
      BY <3>1, HandledBook DEF Touches
  <2>4. channel'[t] # "live" => \A k \in 1..Len(wire') : ~Touches(wire'[k], t)
    BY <1>1, <1>2, <2>1 DEF Tracked
  <2>5. wire \in Seq(Message) /\ exchange'[t] = exchange[t] /\ 0 + 1 <= Len(wire)
    BY <1>1, <1>2 DEF TypeOK
  <2>6. ASSUME started'[t] # {}
        PROVE  Follows(wire', exchange'[t], t, 0, books'[t].levels)
    <3>1. Follows(wire, exchange[t], t, 0 + 1, books'[t].levels)
      <4>1. CASE m.ticker = t /\ m.kind = "snapshot"
        BY <2>1, <2>2, <4>1, HandledBook DEF Tracked
      <4>2. CASE ~(m.ticker = t /\ m.kind = "snapshot")
        <5>1. started[t] # {} /\ books'[t].levels = Applied(books[t].levels, m, t)
          BY <2>6, <4>2, HandledBook
        <5>2. Follows(wire, exchange[t], t, 0, books[t].levels)
          BY <2>1, <5>1 DEF Tracked
        <5>. QED
          BY <1>1, <2>5, <5>1, <5>2, FollowsHead
      <4>. QED
        BY <4>1, <4>2
    <3>. QED
      BY <1>1, <2>5, <3>1, FollowsHandled
  <2>7. ASSUME NEW k \in 1..Len(wire'), wire'[k].ticker = t, wire'[k].kind = "snapshot"
        PROVE  Follows(wire', exchange'[t], t, k, wire'[k].levels)
    <3>1. wire'[k] = wire[k + 1] /\ k + 1 \in 1..Len(wire) /\ k \in Nat
      BY <1>2
    <3>2. Follows(wire, exchange[t], t, k + 1, wire[k + 1].levels)
      BY <2>1, <2>7, <3>1 DEF Tracked
    <3>3. k + 1 <= Len(wire)
      BY <1>2, <3>1
    <3>. QED
      BY <1>1, <2>5, <3>1, <3>2, <3>3, FollowsHandled
  <2>. QED
    BY <2>3, <2>4, <2>6, <2>7 DEF Tracked
<1>. QED
  BY <1>3, <1>4 DEF TrackInv

\* The exchange appends a message that says what it does to its book.
LEMMA SentTracked ==
    ASSUME TypeOK, NEW t \in Tickers, Tracked(t), NEW m \in Message, wire' = Append(wire, m),
           exchange'[t] = Applied(exchange[t], m, t), UNCHANGED <<books, history>>,
           channel'[t] = channel[t], ~(m.ticker = t /\ m.kind = "snapshot"),
           channel[t] # "live" => ~Touches(m, t)
    PROVE  Tracked(t)'
<1>1. /\ Len(wire) \in Nat /\ Len(wire') = Len(wire) + 1 /\ wire'[Len(wire) + 1] = m
      /\ \A k \in 1..Len(wire) : wire'[k] = wire[k]
  BY DEF TypeOK
<1>2. \A k \in 1..Len(wire') : k \in 1..Len(wire) \/ k = Len(wire) + 1
  BY <1>1
<1>3. channel'[t] # "live" =>
        started'[t] = {} /\ \A k \in 1..Len(wire') : ~Touches(wire'[k], t)
  BY <1>1, <1>2 DEF Tracked, history
<1>4. wire \in Seq(Message) /\ exchange[t] \in Levels
  BY DEF TypeOK
<1>5. ASSUME NEW k \in Nat, k <= Len(wire), NEW levels,
             Follows(wire, exchange[t], t, k, levels)
      PROVE  Follows(wire', exchange'[t], t, k, levels)
  BY <1>4, <1>5, FollowsSent
<1>6. started'[t] # {} => Follows(wire', exchange'[t], t, 0, books'[t].levels)
  BY <1>1, <1>5 DEF Tracked, history
<1>7. ASSUME NEW k \in 1..Len(wire'), wire'[k].ticker = t, wire'[k].kind = "snapshot"
      PROVE  Follows(wire', exchange'[t], t, k, wire'[k].levels)
  <2>1. k \in 1..Len(wire) /\ wire'[k] = wire[k] /\ k \in Nat /\ k <= Len(wire)
    BY <1>1, <1>2, <1>7
  <2>2. Follows(wire, exchange[t], t, k, wire[k].levels)
    BY <1>7, <2>1 DEF Tracked
  <2>. QED
    BY <1>5, <2>1, <2>2
<1>. QED
  BY <1>3, <1>6, <1>7 DEF Tracked

LEMMA ExchangeTracked ==
    ASSUME TypeOK, TrackInv, NEW t \in Tickers,
           \/ SendsSnapshot(t) \/ SendsTrade(t)
           \/ \E kind \in {"up", "down"}, p \in Prices : BookChanges(t, kind, p)
    PROVE  TrackInv'
<1>0. NoChannelYet'
  BY DEF SendsSnapshot, SendsTrade, BookChanges, TrackInv, NoChannelYet, TypeOK
<1> SUFFICES ASSUME NEW s \in Tickers PROVE Tracked(s)'
  BY <1>0 DEF TrackInv
<1>1. Tracked(s) /\ Tracked(t)
  BY DEF TrackInv
<1>2. CASE SendsSnapshot(t)
  <2> DEFINE m == [kind |-> "snapshot", ticker |-> t, levels |-> exchange[t]]
  <2>1. m \in Message /\ m.kind = "snapshot" /\ m.ticker = t /\ m.levels = exchange[t]
    BY DEF Message, TypeOK
  <2>2. /\ wire' = Append(wire, m) /\ UNCHANGED <<books, history, exchange>>
        /\ channel[t] = "asked" /\ channel' = [channel EXCEPT ![t] = "live"]
    BY <1>2 DEF SendsSnapshot, Sends
  <2> HIDE DEF m
  <2>3. CASE s # t
    <3>1. ~Touches(m, s) /\ ~(m.ticker = s /\ m.kind = "snapshot")
      BY <2>1, <2>3 DEF Touches
    <3>2. exchange'[s] = Applied(exchange[s], m, s) /\ channel'[s] = channel[s]
      BY <2>2, <2>3, <3>1, NotApplied DEF TypeOK
    <3>. QED
      BY <1>1, <2>1, <2>2, <3>1, <3>2, SentTracked
  <2>4. CASE s = t
    <3>1. /\ Len(wire) \in Nat /\ Len(wire') = Len(wire) + 1 /\ wire'[Len(wire) + 1] = m
          /\ \A k \in 1..Len(wire) : wire'[k] = wire[k]
      BY <2>2 DEF TypeOK
    <3>2. started[t] = {} /\ \A k \in 1..Len(wire) : ~Touches(wire[k], t)
      BY <1>1, <2>2 DEF Tracked
    <3>3. Follows(wire', exchange'[t], t, Len(wire'), exchange'[t])
      <4>1. wire' \in Seq(Message) /\ exchange'[t] \in Levels
        BY <2>1, <2>2 DEF TypeOK
      <4>. QED
        BY <4>1, FollowsNone
    <3>4. ASSUME NEW k \in 1..Len(wire'), wire'[k].ticker = t, wire'[k].kind = "snapshot"
          PROVE  k = Len(wire) + 1
      <4>1. k \in 1..Len(wire) \/ k = Len(wire) + 1
        BY <3>1
      <4>. QED
        BY <3>1, <3>2, <3>4, <4>1 DEF Touches
    <3>5. started'[t] = {} /\ channel'[t] = "live"
      BY <2>2, <3>2 DEF history, TypeOK
    <3>6. wire'[Len(wire) + 1].levels = exchange[t]
      BY <2>1, <3>1
    <3>7. ASSUME NEW k \in 1..Len(wire'), wire'[k].ticker = t, wire'[k].kind = "snapshot"
          PROVE  Follows(wire', exchange'[t], t, k, wire'[k].levels)
      <4>1. k = Len(wire')
        BY <3>1, <3>4, <3>7
      <4>2. wire'[k].levels = exchange'[t]
        BY <2>2, <3>1, <3>6, <4>1
      <4>. QED
        BY <3>3, <4>1, <4>2
    <3>. QED
      BY <2>4, <3>5, <3>7 DEF Tracked
  <2>. QED
    BY <2>3, <2>4
<1>3. CASE SendsTrade(t)
  <2> DEFINE m == [kind |-> "trade", ticker |-> t]
  <2>1. m \in Message /\ m.kind = "trade"
    BY DEF Message
  <2>2. wire' = Append(wire, m) /\ UNCHANGED <<books, history, exchange, channel>>
    BY <1>3 DEF SendsTrade, Sends
  <2> HIDE DEF m
  <2>3. ~Touches(m, s) /\ ~(m.ticker = s /\ m.kind = "snapshot")
    BY <2>1 DEF Touches
  <2>4. exchange'[s] = Applied(exchange[s], m, s)
    BY <2>2, <2>3, NotApplied
  <2>. QED
    BY <1>1, <2>1, <2>2, <2>3, <2>4, SentTracked
<1>4. ASSUME NEW kind \in {"up", "down"}, NEW p \in Prices, BookChanges(t, kind, p)
      PROVE  Tracked(s)'
  <2> DEFINE m == [kind |-> kind, ticker |-> t, price |-> p]
  <2>1. m \in Message /\ m.kind = kind /\ m.ticker = t /\ m.price = p
    BY DEF Message
  <2>2. /\ UNCHANGED <<books, history, channel>>
        /\ exchange' = [exchange EXCEPT ![t] = Stepped(@, kind, p)]
        /\ channel[t] = "live" => wire' = Append(wire, m)
        /\ channel[t] # "live" => wire' = wire
    BY <1>4 DEF BookChanges, Sends
  <2>3. /\ exchange'[t] = Stepped(exchange[t], kind, p)
        /\ s # t => exchange'[s] = exchange[s]
    BY <2>2 DEF TypeOK
  <2> HIDE DEF m
  <2>4. CASE channel[t] = "live"
    <3>1. s # t => ~Touches(m, s)
      BY <2>1 DEF Touches
    <3>2. exchange'[s] = Applied(exchange[s], m, s)
      <4>1. CASE s # t
        BY <2>3, <3>1, <4>1, NotApplied
      <4>2. CASE s = t
        BY <2>1, <2>3, <4>2 DEF Applied
      <4>. QED
        BY <4>1, <4>2
    <3>3. ~(m.ticker = s /\ m.kind = "snapshot")
      BY <2>1
    <3>4. channel'[s] = channel[s] /\ (channel[s] # "live" => ~Touches(m, s))
      BY <2>2, <2>4, <3>1
    <3>. QED
      BY <1>1, <2>1, <2>2, <2>4, <3>2, <3>3, <3>4, SentTracked
  <2>5. CASE channel[t] # "live"
    <3>1. UNCHANGED <<books, history, channel, wire>>
      BY <2>2, <2>5
    <3>2. CASE s # t
      <4>. QED
        BY <1>1, <2>3, <3>1, <3>2 DEF Tracked, history
    <3>3. CASE s = t
      <4>1. started'[t] = {} /\ \A k \in 1..Len(wire') : ~Touches(wire'[k], t)
        BY <1>1, <2>5, <3>1 DEF Tracked, history
      <4>. QED
        BY <3>3, <4>1 DEF Tracked, Touches
    <3>. QED
      BY <3>2, <3>3
  <2>. QED
    BY <2>4, <2>5
<1>. QED
  BY <1>2, <1>3, <1>4

LEMMA StepTracked == TypeOK /\ HistoryInv /\ TrackInv /\ [Next]_vars => TrackInv'
<1> SUFFICES ASSUME TypeOK, HistoryInv, TrackInv, [Next]_vars PROVE TrackInv'
  OBVIOUS
<1>1. CASE UNCHANGED vars
  <2>1. UNCHANGED <<loop, books, started, exchange, channel, wire>>
    BY <1>1 DEF vars, history, market
  <2>. QED
    BY <2>1 DEF TrackInv, NoChannelYet, Tracked
<1>. QED
  BY <1>1, SubscriberTracked, LoopTracked, DisconnectedTracked, HandledTracked,
     ExchangeTracked DEF Next

\* The feed thread and the dashboard thread, for any contracts and any number of
\* messages on the way: a cached book whose history has started is the
\* exchange's but for those messages, and its best bid is the best of its
\* levels.  The eviction, the reconnect and the message handled between them
\* never leave it a change behind.
THEOREM BooksTrack == Spec => []BookTracksExchange
<1>1. Init => HistoryInv /\ BestKept /\ TrackInv
  BY DEF Init, HistoryInv, BestKept, NoBook, TrackInv, NoChannelYet, Tracked
<1>2. TypeOK /\ HistoryInv /\ BestKept /\ TrackInv => BookTracksExchange
  BY FollowsReplayed DEF BookTracksExchange, HistoryInv, BestKept, TrackInv, Tracked
<1>. QED
  BY <1>1, <1>2, StepHistory, StepBest, StepTracked, TypeCorrect, PTL DEF Spec
=============================================================================
