--------------------------- MODULE ExecutorProofs ---------------------------
(***************************************************************************)
(* Proofs about the executor: its policy (RiskDecide), its process         *)
(* (Executor) and its restarts, for every set of contracts and windows,    *)
(* every configuration and every choice of faults unless a theorem says    *)
(* otherwise.                                                              *)
(***************************************************************************)
EXTENDS Executor, FiniteSetTheorems, TLAPS

(***************************************************************************)
(* What decide() promises of an order it places, for every pick, portfolio *)
(* and configuration, and what the portfolio operations keep.              *)
(***************************************************************************)

\* Whole contracts never cost more than the stake they were cut from.
LEMMA DivisionBound ==
    ASSUME NEW a \in Int, NEW b \in Nat, b > 0
    PROVE  a \div b \in Int /\ b * (a \div b) <= a
BY Z3

\* A count of at least one contract at a positive price is a positive amount.
LEMMA ProductPositive ==
    ASSUME NEW a \in Nat, NEW b \in Nat, a > 0, b > 0
    PROVE  a * b \in Nat /\ a * b > 0 /\ a * b = b * a
BY Z3

LEMMA PercentType ==
    ASSUME NEW pct \in Int, NEW amount \in Int
    PROVE  PercentOf(pct, amount) \in Int
BY DEF PercentOf

LEMMA MultiplierType ==
    ASSUME NEW p, NEW s \in Books, NEW c, IsPick(p, c)
    PROVE  Multiplier(p, s, c) \in Int
BY DEF Multiplier, IsPick

\* The stake is bounded by what the window, the ceiling and the account have left.
LEMMA StakeBounds ==
    ASSUME NEW p, NEW s \in Books, NEW c, IsPick(p, c), IsConfig(c)
    PROVE  /\ WindowBudget(p, s, c) \in Int
           /\ Remaining(p, s, c) \in Int /\ StakeCeiling(p, c) \in Int
           /\ s.bankroll \in Int /\ Stake(p, s, c) \in Int
           /\ Stake(p, s, c) <= Remaining(p, s, c)
           /\ Stake(p, s, c) <= s.bankroll
           /\ StakeCeiling(p, c) > 0 => Stake(p, s, c) <= StakeCeiling(p, c)
<1> DEFINE base == BaseStake(p, s, c)
           mult == Multiplier(p, s, c)
<1>1. s.bankroll \in Int /\ s.committed[p.window] \in Int
  BY DEF Books, IsPick
<1>2. base \in Int /\ BaseBudget(p, s, c) \in Int
  <2>1. PercentOf(c.perPickPct, s.bankroll) \in Int /\ PercentOf(c.maxPerWindowPct, s.bankroll) \in Int
    BY <1>1, PercentType DEF IsConfig
  <2>2. base \in Int
    BY <2>1 DEF BaseStake, IsPick, IsConfig
  <2>3. AtLeast(1, c.maxPicks) \in Int
    BY DEF AtLeast, IsConfig
  <2>4. base * AtLeast(1, c.maxPicks) \in Int
    BY <2>2, <2>3
  <2>. QED
    BY <2>1, <2>2, <2>4 DEF BaseBudget
<1>3. mult \in Int
  BY MultiplierType
<1>4. base * mult \in Int /\ WindowBudget(p, s, c) \in Int /\ Remaining(p, s, c) \in Int
  <2>1. BaseBudget(p, s, c) * mult \in Int
    BY <1>2, <1>3
  <2>. QED
    BY <1>1, <1>2, <1>3, <2>1 DEF Remaining, WindowBudget
<1>5. StakeCeiling(p, c) \in Int
  BY DEF StakeCeiling, IsPick, IsConfig
<1>. QED
  BY <1>1, <1>4, <1>5 DEF Stake, AtMost

LEMMA ClampToCents ==
    ASSUME NEW x \in Int
    PROVE  Clamp(x, 1, 99) \in 1..99
BY DEF Clamp, AtMost, AtLeast

\* The limit is a whole number of cents the exchange trades in, and in the band.
LEMMA LimitInBand ==
    ASSUME NEW p, NEW c, IsPick(p, c), IsConfig(c), PriceInBand(p, c)
    PROVE  /\ LimitPrice(p, c) \in 1..99
           /\ c.minPrice <= LimitPrice(p, c)
           /\ LimitPrice(p, c) <= c.maxPrice
<1>1. /\ c.minPrice \in Int /\ c.maxPrice \in Int /\ p.price \in 1..99
      /\ c.minPrice <= p.price /\ p.price <= c.maxPrice
  BY DEF PriceInBand, IsPick, IsConfig
<1>2. p.price + c.limitOffset \in Int
  BY <1>1 DEF IsConfig
<1>3. Clamp(p.price + c.limitOffset, 1, 99) \in 1..99
  BY <1>2, ClampToCents
<1>. QED
  BY <1>1, <1>3 DEF LimitPrice, Clamp, AtMost, AtLeast

\* risk.decide: a placed order is for at least one contract, at a limit inside
\* the price band, and its worst-case cost - a full fill at the limit, not at
\* the signalled ask - fits in what is left of the window's budget, under the
\* per-pick ceiling and in the bankroll.
THEOREM OrderWithinBounds ==
    ASSUME NEW p, NEW s \in Books, NEW c, NEW killed, IsPick(p, c), IsConfig(c)
    PROVE  LET d == Decide(p, s, c, killed)
           IN  /\ d \in Decisions
               /\ d.place =>
                    /\ Admitted(p, s, c, killed)
                    /\ d.count > 0
                    /\ c.minPrice <= d.limit /\ d.limit <= c.maxPrice
                    /\ d.stake = d.count * d.limit
                    /\ d.stake <= Stake(p, s, c)
                    /\ d.stake <= Remaining(p, s, c)
                    /\ StakeCeiling(p, c) > 0 => d.stake <= StakeCeiling(p, c)
                    /\ d.stake <= s.bankroll
<1> DEFINE count == ContractCount(p, s, c)
           limit == LimitPrice(p, c)
           stake == Stake(p, s, c)
           d == Decide(p, s, c, killed)
           placed == Admitted(p, s, c, killed) /\ Remaining(p, s, c) > 0 /\ count >= 1
<1>1. CASE ~placed
  <2>1. d = Refused
    BY <1>1 DEF Decide
  <2>. QED
    BY <2>1 DEF Refused, Decisions
<1>2. CASE placed
  <2>1. d = [place |-> TRUE, count |-> count, limit |-> limit, stake |-> count * limit]
    BY <1>2 DEF Decide
  <2>2. PriceInBand(p, c)
    BY <1>2 DEF Admitted
  <2>3. limit \in 1..99 /\ c.minPrice <= limit /\ limit <= c.maxPrice
    BY <2>2, LimitInBand
  <2>4. /\ stake \in Int /\ stake <= Remaining(p, s, c) /\ stake <= s.bankroll
        /\ StakeCeiling(p, c) > 0 => stake <= StakeCeiling(p, c)
    BY StakeBounds
  <2>5. count \in Int /\ limit * count <= stake
    BY <2>3, <2>4, DivisionBound DEF ContractCount
  <2>6. count \in Nat /\ count > 0
    BY <1>2, <2>5
  <2>7. count * limit \in Nat /\ count * limit <= stake
    BY <2>3, <2>5, <2>6, ProductPositive
  <2>8. /\ Remaining(p, s, c) \in Int /\ StakeCeiling(p, c) \in Int /\ s.bankroll \in Int
    BY StakeBounds
  <2>. QED
    BY <1>2, <2>1, <2>3, <2>4, <2>6, <2>7, <2>8 DEF Decisions
<1>. QED
  BY <1>1, <1>2

-----------------------------------------------------------------------------
\* The portfolio operations

LEMMA TickersFinite ==
    ASSUME NEW set \in SUBSET Tickers
    PROVE  IsFiniteSet(set) /\ Cardinality(set) \in Nat
BY TickersAssumption, FS_Subset, FS_CardinalityType

LEMMA EmptyBookAgrees ==
    ASSUME NEW bankroll \in Int, NEW dayStart \in Int
    PROVE  EmptyBook(bankroll, dayStart) \in Books /\ Agrees(EmptyBook(bankroll, dayStart))
BY FS_EmptySet DEF EmptyBook, Books, Agrees

\* What booking an entry keeps, when decide() admitted the contract as new.
LEMMA FillAgrees ==
    ASSUME NEW s \in Books, Agrees(s), NEW p, NEW d \in Decisions,
           p.ticker \in Tickers, p.window \in Windows, TickerIsNew(p, s)
    PROVE  ApplyFill(s, p, d) \in Books /\ Agrees(ApplyFill(s, p, d))
<1> DEFINE f == ApplyFill(s, p, d)
<1>1. /\ s.openTickers \in SUBSET Tickers /\ s.openCount \in Nat
      /\ s.positions \in [Tickers -> Nat] /\ s.windowCount \in [Windows -> Nat]
      /\ s.committed \in [Windows -> Nat]
      /\ s.windowTickers \in [Windows -> SUBSET Tickers]
      /\ d.count \in Nat /\ d.stake \in Nat
  BY DEF Books, Decisions
<1> DEFINE ot == s.openTickers \union {p.ticker}
           ps == [s.positions EXCEPT ![p.ticker] = d.count]
           wc == [s.windowCount EXCEPT ![p.window] = @ + 1]
           cm == [s.committed EXCEPT ![p.window] = @ + d.stake]
           wt == [s.windowTickers EXCEPT ![p.window] = @ \union {p.ticker}]
<1>2. /\ s.openCount + 1 \in Nat /\ ot \in SUBSET Tickers /\ ps \in [Tickers -> Nat]
      /\ wc \in [Windows -> Nat] /\ cm \in [Windows -> Nat]
      /\ wt \in [Windows -> SUBSET Tickers]
  BY <1>1
<1> HIDE DEF ot, ps, wc, cm, wt
<1>3. s.bankroll \in Int /\ s.dayStart \in Int /\ s.dayPnl \in Int
  BY DEF Books
<1>4. /\ f \in Books
      /\ f.openCount = s.openCount + 1 /\ f.openTickers = ot /\ f.positions = ps
      /\ f.windowCount = wc /\ f.windowTickers = wt
  BY <1>2, <1>3 DEF ApplyFill, Books, ot, ps, wc, cm, wt
<1> HIDE DEF f
<1>5. f.openCount = Cardinality(f.openTickers)
  <2>1. IsFiniteSet(s.openTickers) /\ p.ticker \notin s.openTickers
    BY <1>1, TickersFinite DEF TickerIsNew
  <2>2. Cardinality(s.openTickers \union {p.ticker}) = Cardinality(s.openTickers) + 1
    BY <2>1, FS_AddElement
  <2>. QED
    BY <1>4, <2>2 DEF Agrees, ot
<1>6. {t \in Tickers : f.positions[t] > 0} \subseteq f.openTickers
  BY <1>1, <1>4 DEF Agrees, ot, ps
<1>7. ASSUME NEW w \in Windows
      PROVE  f.windowCount[w] = Cardinality(f.windowTickers[w])
  <2>1. IsFiniteSet(s.windowTickers[w])
    BY <1>1, TickersFinite
  <2>2. CASE w = p.window
    <3>1. p.ticker \notin s.windowTickers[w]
      BY <2>2 DEF TickerIsNew
    <3>2. Cardinality(s.windowTickers[w] \union {p.ticker}) = Cardinality(s.windowTickers[w]) + 1
      BY <2>1, <3>1, FS_AddElement
    <3>. QED
      BY <1>1, <1>4, <2>2, <3>2 DEF Agrees, wc, wt
  <2>3. CASE w # p.window
    BY <1>1, <1>4, <2>3 DEF Agrees, wc, wt
  <2>. QED
    BY <2>2, <2>3
<1>. QED
  BY <1>4, <1>5, <1>6, <1>7 DEF Agrees, f

\* Dropping settled windows keeps the views in step, and leaves every window
\* that still runs as it was.
LEMMA PruneAgrees ==
    ASSUME NEW s \in Books, Agrees(s), NEW wk \in Windows
    PROVE  LET f == PruneSettled(s, wk)
           IN  /\ f \in Books /\ Agrees(f)
               /\ \A w \in Windows :
                     w >= wk => f.windowTickers[w] = s.windowTickers[w]
<1> DEFINE f == PruneSettled(s, wk)
           keep == RunningWindows(s, wk)
           kept == UNION {s.windowTickers[w] : w \in keep}
<1>1. CASE keep = KnownWindows(s)
  <2>1. f = s
    BY <1>1 DEF PruneSettled
  <2>. QED
    BY <2>1
<1>2. CASE keep # KnownWindows(s)
  <2>1. /\ s.positions \in [Tickers -> Nat] /\ s.windowCount \in [Windows -> Nat]
        /\ s.committed \in [Windows -> Nat]
        /\ s.windowTickers \in [Windows -> SUBSET Tickers]
    BY DEF Books
  <2> DEFINE ps == [t \in Tickers |-> IF t \in kept THEN s.positions[t] ELSE 0]
             wc == [w \in Windows |-> IF w \in keep THEN s.windowCount[w] ELSE 0]
             cm == [w \in Windows |-> IF w \in keep THEN s.committed[w] ELSE 0]
             wt == [w \in Windows |-> IF w \in keep THEN s.windowTickers[w] ELSE {}]
  <2>2. s.bankroll \in Int /\ s.dayStart \in Int /\ s.dayPnl \in Int
    BY DEF Books
  <2>3. kept \in SUBSET Tickers /\ Cardinality(kept) \in Nat
    <3>1. kept \in SUBSET Tickers
      BY <2>1 DEF RunningWindows, KnownWindows
    <3>. QED
      BY <3>1, TickersFinite
  <2>4. /\ ps \in [Tickers -> Nat] /\ wc \in [Windows -> Nat] /\ cm \in [Windows -> Nat]
        /\ wt \in [Windows -> SUBSET Tickers]
    BY <2>1
  <2>5. /\ f \in Books
        /\ f.openCount = Cardinality(kept) /\ f.openTickers = kept
        /\ \A t \in Tickers : f.positions[t] = IF t \in kept THEN s.positions[t] ELSE 0
        /\ \A w \in Windows : f.windowCount[w] = IF w \in keep THEN s.windowCount[w] ELSE 0
        /\ \A w \in Windows : f.windowTickers[w] = IF w \in keep THEN s.windowTickers[w] ELSE {}
    <3>1. f = [bankroll |-> s.bankroll, dayStart |-> s.dayStart, dayPnl |-> s.dayPnl,
               openCount |-> Cardinality(kept), openTickers |-> kept,
               positions |-> ps, windowCount |-> wc, committed |-> cm, windowTickers |-> wt]
      BY <1>2 DEF PruneSettled
    <3>2. f \in Books
      <4> HIDE DEF f, kept, keep, ps, wc, cm, wt
      <4>. QED
        BY <2>2, <2>3, <2>4, <3>1 DEF Books
    <3>. QED
      BY <3>1, <3>2
  <2>6. Agrees(f)
    BY <2>5, FS_EmptySet DEF Agrees
  <2>7. ASSUME NEW w \in Windows, w >= wk
        PROVE  f.windowTickers[w] = s.windowTickers[w]
    <3>1. w \notin keep => s.windowTickers[w] = {}
      BY <2>7 DEF RunningWindows, KnownWindows
    <3>. QED
      BY <2>5, <3>1
  <2>. QED
    BY <2>5, <2>6, <2>7
<1>. QED
  BY <1>1, <1>2

\* An acknowledged exit takes its contract out of every view but the window's,
\* which remembers it so that it is not entered again.
LEMMA ExitAgrees ==
    ASSUME NEW s \in Books, Agrees(s), NEW t \in Tickers
    PROVE  LET f == ApplyExit(s, t)
           IN  /\ f \in Books /\ Agrees(f)
               /\ f.windowTickers = s.windowTickers
<1> DEFINE f == ApplyExit(s, t)
<1>1. CASE s.positions[t] = 0
  <2>1. f = s
    BY <1>1 DEF ApplyExit
  <2>. QED
    BY <2>1
<1>2. CASE s.positions[t] # 0
  <2>1. /\ s.openTickers \in SUBSET Tickers /\ s.openCount \in Nat
        /\ s.positions \in [Tickers -> Nat]
    BY DEF Books
  <2>2. t \in s.openTickers /\ s.openCount = Cardinality(s.openTickers)
    BY <1>2, <2>1 DEF Agrees
  <2>3. /\ IsFiniteSet(s.openTickers)
        /\ Cardinality(s.openTickers \ {t}) = s.openCount - 1
        /\ Cardinality(s.openTickers \ {t}) \in Nat
    BY <2>1, <2>2, TickersFinite, FS_RemoveElement
  <2>4. AtLeast(0, s.openCount - 1) = s.openCount - 1
    BY <2>1, <2>3 DEF AtLeast
  <2>5. f = [bankroll |-> s.bankroll, dayStart |-> s.dayStart, dayPnl |-> s.dayPnl,
             openCount |-> s.openCount - 1, openTickers |-> s.openTickers \ {t},
             positions |-> [s.positions EXCEPT ![t] = 0],
             windowCount |-> s.windowCount, committed |-> s.committed,
             windowTickers |-> s.windowTickers]
    BY <1>2, <2>4 DEF ApplyExit
  <2>6. /\ s.openCount - 1 \in Nat /\ s.openTickers \ {t} \in SUBSET Tickers
        /\ [s.positions EXCEPT ![t] = 0] \in [Tickers -> Nat]
        /\ s.windowCount \in [Windows -> Nat] /\ s.committed \in [Windows -> Nat]
        /\ s.windowTickers \in [Windows -> SUBSET Tickers]
        /\ s.bankroll \in Int /\ s.dayStart \in Int /\ s.dayPnl \in Int
    BY <2>1, <2>3 DEF Books
  <2>7. /\ f \in Books
        /\ f.openCount = s.openCount - 1
        /\ f.openTickers = s.openTickers \ {t}
        /\ f.positions = [s.positions EXCEPT ![t] = 0]
        /\ f.windowCount = s.windowCount /\ f.windowTickers = s.windowTickers
    <3> HIDE DEF f
    <3>. QED
      BY <2>5, <2>6 DEF Books
  <2>8. {u \in Tickers : f.positions[u] > 0} \subseteq f.openTickers
    BY <2>1, <2>7 DEF Agrees
  <2>. QED
    BY <2>3, <2>7, <2>8 DEF Agrees
<1>. QED
  BY <1>1, <1>2
(***************************************************************************)
(* The process.                                                            *)
(*                                                                         *)
(* CallInv is what holds of the call under way, whatever happens: decide() *)
(* found its contract new, nothing has touched the portfolio since, and    *)
(* the switches it acts on are those it read when it began.  CapInv is     *)
(* what makes the window cap inductive in a process that is not restarted: *)
(* what the exchange holds of a window that still runs is in the           *)
(* portfolio's window_tickers, or is the order the call is about to book.  *)
(***************************************************************************)

CallInv ==
    /\ pc \in {"post", "book"} => TickerIsNew(req, book)
    /\ pc \notin {"down", "idle"} => began = switches

Inv == TypeOK /\ BookAgrees /\ CallInv

\* No order that the exchange took is answered with an error status: the client
\* takes one for a refusal, and the portfolio then misses the order.
ErrorsRefuse == "server_error" \notin Faults

\* No crash and no restart either; anything else may still go wrong.
OneProcess == ErrorsRefuse /\ Faults \cap {"restart", "crash", "crash_unrecorded"} = {}

InFlight == IF pc = "book" /\ Booked(ack) THEN {req.ticker} ELSE {}

\* Nothing has been entered before the process first boots.
NothingBeforeBoot == pc = "down" => accepted = {}

CapInv ==
    /\ pc # "down" =>
          \A w \in Windows : w >= clock =>
              InWindow(accepted, w) \subseteq book.windowTickers[w] \union InFlight
    /\ pc \in {"post", "book"} => book.windowCount[req.window] < Cfg.maxPicks
    /\ pc = "post" => req.ticker \notin accepted
    /\ WindowCap

-----------------------------------------------------------------------------
\* Type correctness, the portfolio's views and the call under way

LEMMA BootBook ==
    ASSUME NEW rows \in [Tickers -> [count : Nat, id : BOOLEAN]]
    PROVE  Rehydrated(rows) \in Books /\ Agrees(Rehydrated(rows))
<1> DEFINE found == {t \in Tickers : rows[t].count > 0}
           inWindow(w) == {t \in found : WindowOf[t] = w}
           wc == [w \in Windows |-> Cardinality(inWindow(w))]
           wt == [w \in Windows |-> inWindow(w)]
           ps == [t \in Tickers |-> rows[t].count]
<1>1. found \in SUBSET Tickers /\ Cardinality(found) \in Nat
  BY TickersFinite
<1>2. \A w \in Windows : inWindow(w) \in SUBSET Tickers /\ Cardinality(inWindow(w)) \in Nat
  BY TickersFinite
<1>3. /\ wc \in [Windows -> Nat] /\ wt \in [Windows -> SUBSET Tickers]
      /\ ps \in [Tickers -> Nat] /\ [w \in Windows |-> 0] \in [Windows -> Nat]
      /\ Bankroll \in Int
  BY <1>2, ConfigAssumption
<1>4. Rehydrated(rows) =
        [bankroll |-> Bankroll, dayStart |-> Bankroll, dayPnl |-> 0,
         openCount |-> Cardinality(found), openTickers |-> found, positions |-> ps,
         windowCount |-> wc, committed |-> [w \in Windows |-> 0], windowTickers |-> wt]
  BY DEF Rehydrated
<1>5. Rehydrated(rows) \in Books
  <2> HIDE DEF found, wc, wt, ps
  <2>. QED
    BY <1>1, <1>3, <1>4 DEF Books
<1>. QED
  BY <1>4, <1>5 DEF Agrees

LEMMA PickType ==
    ASSUME NEW p \in Picks
    PROVE  /\ IsPick(p, Cfg) /\ IsConfig(Cfg)
           /\ p.ticker \in Tickers /\ p.window \in Windows
           /\ p.window = WindowOf[p.ticker]
BY PicksAssumption, ConfigAssumption DEF IsPick

LEMMA InitInv == Init => Inv
<1> SUFFICES ASSUME Init PROVE Inv
  OBVIOUS
<1>1. book \in Books /\ BookAgrees
  BY ConfigAssumption, EmptyBookAgrees DEF Init, BookAgrees
<1>2. TypeOK
  BY <1>1 DEF Init, TypeOK, Refused, Decisions, Answers, NoRow, Off
<1>3. CallInv
  BY DEF Init, CallInv
<1>. QED
  BY <1>1, <1>2, <1>3 DEF Inv

LEMMA BootInv == Inv /\ Boot => Inv'
<1> SUFFICES ASSUME Inv, Boot PROVE Inv'
  OBVIOUS
<1> USE DEF Inv, Boot, exchange
<1> DEFINE rows == store[ModeOf(env)]
<1>1. rows \in [Tickers -> [count : Nat, id : BOOLEAN]]
  BY DEF TypeOK, ModeOf, Modes
<1>2. book' \in Books /\ BookAgrees'
  BY <1>1, BootBook DEF BookAgrees
<1>3. TypeOK'
  BY <1>2 DEF TypeOK
<1>4. CallInv'
  BY DEF CallInv
<1>. QED
  BY <1>2, <1>3, <1>4

LEMMA FireInv == ASSUME Inv, NEW p \in Picks, Fire(p) PROVE Inv'
<1> USE DEF Inv, exchange
<1> DEFINE s == PruneSettled(book, p.window)
           d == Decide(p, s, Cfg, env.kill)
<1>1. s \in Books /\ Agrees(s)
  BY PickType, PruneAgrees DEF TypeOK, BookAgrees
<1>2. d \in Decisions /\ (d.place => Admitted(p, s, Cfg, env.kill) /\ d.count > 0)
  BY <1>1, PickType, OrderWithinBounds
<1> HIDE DEF s, d
<1>3. /\ pc = "idle" /\ switches' = env /\ began' = env /\ book' = s
      /\ IF d.place THEN pc' = "post" /\ req' = p /\ dec' = d
                    ELSE UNCHANGED <<pc, req, dec>>
      /\ UNCHANGED <<env, ack, entryIds, store, clock, exchange, exited>>
  BY DEF Fire, RefreshSwitches, s, d
<1>4. BookAgrees'
  BY <1>1, <1>3 DEF BookAgrees
<1>5. TypeOK'
  BY <1>1, <1>2, <1>3 DEF TypeOK
<1>6. CallInv'
  BY <1>2, <1>3 DEF CallInv, Admitted
<1>. QED
  BY <1>4, <1>5, <1>6

LEMMA PostInv == Inv /\ (PostSimulated \/ PostAccepted \/ PostNotAccepted) => Inv'
<1> USE DEF Inv, exchange
<1>1. ASSUME Inv, PostSimulated PROVE Inv'
  BY <1>1 DEF PostSimulated, TypeOK, BookAgrees, CallInv, Answers
<1>2. ASSUME Inv, PostNotAccepted PROVE Inv'
  BY <1>2 DEF PostNotAccepted, TypeOK, BookAgrees, CallInv, Answers
<1>3. ASSUME Inv, PostAccepted PROVE Inv'
  <2>1. /\ req \in Picks /\ req.ticker \in Tickers /\ dec \in Decisions
        /\ dec.count \in Nat /\ dec.limit \in Nat
    BY <1>3, PickType DEF PostAccepted, TypeOK, Decisions
  <2>2. dec.limit * dec.count \in Nat
    BY <2>1
  <2>3. held' \in [Tickers -> Nat] /\ working' \in [Tickers -> Nat] /\ cost' \in [Tickers -> Nat]
    BY <1>3, <2>1, <2>2 DEF PostAccepted, TypeOK
  <2>4. ack' \in Answers /\ accepted' \subseteq Tickers
    BY <1>3, <2>1 DEF PostAccepted, Misheard, TypeOK, Answers
  <2>5. TypeOK'
    BY <1>3, <2>3, <2>4 DEF PostAccepted, TypeOK
  <2>. QED
    BY <1>3, <2>5 DEF PostAccepted, BookAgrees, CallInv
<1>. QED
  BY <1>1, <1>2, <1>3

LEMMA RowUpdate ==
    ASSUME NEW M, NEW T, NEW R, NEW f \in [M -> [T -> R]],
           NEW m \in M, NEW t \in T, NEW r \in R
    PROVE  [f EXCEPT ![m][t] = r] \in [M -> [T -> R]]
OBVIOUS

LEMMA BookEntryInv == Inv /\ BookEntry => Inv'
<1> SUFFICES ASSUME Inv, BookEntry PROVE Inv'
  OBVIOUS
<1> USE DEF Inv, exchange
<1>1. /\ req \in Picks /\ req.ticker \in Tickers /\ req.window \in Windows
      /\ dec \in Decisions /\ dec.count \in Nat
      /\ book \in Books /\ Agrees(book) /\ TickerIsNew(req, book)
  BY PickType DEF BookEntry, TypeOK, CallInv, BookAgrees, Decisions
<1>2. book' \in Books /\ Agrees(book')
  BY <1>1, FillAgrees DEF BookEntry
<1>3. store' \in [Modes -> [Tickers -> [count : Nat, id : BOOLEAN]]]
  <2>2. [count |-> dec.count, id |-> ack = "ok"] \in [count : Nat, id : BOOLEAN]
    BY <1>1
  <2> DEFINE mode == IF ack = "simulated" THEN "dry-run" ELSE "LIVE"
             r == [count |-> dec.count, id |-> ack = "ok"]
  <2>3. mode \in Modes
    BY DEF Modes
  <2>4. store' = [store EXCEPT ![mode][req.ticker] = r] \/ store' = store
    BY DEF BookEntry, StoreEntry
  <2> HIDE DEF mode, r
  <2>5. r \in [count : Nat, id : BOOLEAN]
    BY <2>2 DEF r
  <2>. QED
    <3>1. /\ store \in [Modes -> [Tickers -> [count : Nat, id : BOOLEAN]]]
          /\ req.ticker \in Tickers
      BY <1>1 DEF TypeOK
    <3>2. [store EXCEPT ![mode][req.ticker] = r]
             \in [Modes -> [Tickers -> [count : Nat, id : BOOLEAN]]]
      BY <2>3, <2>5, <3>1, RowUpdate
    <3>. QED
      BY <2>4, <3>1, <3>2
<1>4. entryIds' \subseteq Tickers
  BY <1>1 DEF BookEntry, TypeOK
<1>5. TypeOK'
  BY <1>2, <1>3, <1>4 DEF BookEntry, Return, TypeOK, Refused, Decisions, Answers
<1>6. CallInv'
  BY DEF BookEntry, Return, CallInv
<1>. QED
  BY <1>2, <1>5, <1>6 DEF BookAgrees

LEMMA ExitInv ==
    Inv /\ ((\E t \in Tickers : ExitBegin(t)) \/ ExitCancel \/ ExitSell \/ BookExit) => Inv'
<1> USE DEF Inv, exchange
<1>1. ASSUME Inv, NEW t \in Tickers, ExitBegin(t) PROVE Inv'
  BY <1>1 DEF ExitBegin, RefreshSwitches, TypeOK, BookAgrees, CallInv
<1>2. ASSUME Inv, ExitCancel PROVE Inv'
  <2>1. /\ req.ticker \in Tickers /\ working' \in [Tickers -> Nat]
        /\ UNCHANGED <<env, switches, book, entryIds, store, clock,
                       accepted, exitsSeen, held, cost, exited, began>>
        /\ pc = "cancel"
    BY <1>2 DEF ExitCancel, TypeOK
  <2>2. CASE Return
    BY <1>2, <2>1, <2>2 DEF Return, TypeOK, BookAgrees, CallInv, Refused, Decisions, Answers
  <2>3. CASE pc' = "sell" /\ UNCHANGED <<req, dec, ack>>
    BY <1>2, <2>1, <2>3 DEF TypeOK, BookAgrees, CallInv
  <2>. QED
    BY <1>2, <2>2, <2>3 DEF ExitCancel
<1>3. ASSUME Inv, ExitSell PROVE Inv'
  <2> DEFINE t == req.ticker
             k == AtMost(book.positions[t], held[t])
  <2>1. /\ t \in Tickers /\ held \in [Tickers -> Nat] /\ book.positions[t] \in Nat
        /\ k \in Nat /\ k <= held[t]
    BY <1>3 DEF ExitSell, TypeOK, Books, AtMost
  <2>2. held' \in [Tickers -> Nat]
    BY <1>3, <2>1 DEF ExitSell
  <2>3. exitsSeen' \subseteq Tickers /\ ack' \in Answers
    BY <1>3, <2>1 DEF ExitSell, Misheard, TypeOK, Answers
  <2>. QED
    BY <1>3, <2>2, <2>3 DEF ExitSell, TypeOK, BookAgrees, CallInv
<1>4. ASSUME Inv, BookExit PROVE Inv'
  <2>1. /\ req.ticker \in Tickers /\ book \in Books /\ Agrees(book)
    BY <1>4 DEF BookExit, TypeOK, BookAgrees
  <2>2. book' \in Books /\ Agrees(book')
    BY <1>4, <2>1, ExitAgrees DEF BookExit
  <2>3. entryIds' \subseteq Tickers /\ exited' \subseteq Tickers
    BY <1>4, <2>1 DEF BookExit, TypeOK
  <2>. QED
    BY <1>4, <2>2, <2>3 DEF BookExit, Return, TypeOK, BookAgrees, CallInv, Refused,
                            Decisions, Answers
<1>. QED
  BY <1>1, <1>2, <1>3, <1>4

LEMMA EnvironmentInv ==
    Inv /\ ((\E t \in Tickers : FillResting(t)) \/ NextWindow \/ FlipSwitch \/ Stop) => Inv'
<1> USE DEF Inv, exchange, process
<1>1. ASSUME Inv, NEW t \in Tickers, FillResting(t) PROVE Inv'
  <2>1. working' \in [Tickers -> Nat] /\ held' \in [Tickers -> Nat]
    BY <1>1 DEF FillResting, TypeOK
  <2>. QED
    BY <1>1, <2>1 DEF FillResting, TypeOK, BookAgrees, CallInv
<1>2. ASSUME Inv, NextWindow PROVE Inv'
  <2>1. working' \in [Tickers -> Nat] /\ held' \in [Tickers -> Nat] /\ clock' \in Windows
    BY <1>2 DEF NextWindow, TypeOK
  <2>. QED
    BY <1>2, <2>1 DEF NextWindow, TypeOK, BookAgrees, CallInv
<1>3. ASSUME Inv, FlipSwitch PROVE Inv'
  <2>1. env' \in [kill : BOOLEAN, dryRun : BOOLEAN]
    BY <1>3 DEF FlipSwitch, TypeOK
  <2>2. UNCHANGED <<process, store, clock, exchange, exited, began>>
    BY <1>3 DEF FlipSwitch
  <2>3. TypeOK'
    BY <1>3, <2>1, <2>2 DEF TypeOK
  <2>4. BookAgrees' /\ CallInv'
    BY <1>3, <2>2 DEF BookAgrees, CallInv
  <2>. QED
    BY <2>3, <2>4
<1>4. ASSUME Inv, Stop PROVE Inv'
  <2>1. book' \in Books /\ Agrees(book')
    BY <1>4, ConfigAssumption, EmptyBookAgrees DEF Stop
  <2>. QED
    BY <1>4, <2>1 DEF Stop, TypeOK, BookAgrees, CallInv, Refused, Decisions, Answers
<1>. QED
  BY <1>1, <1>2, <1>3, <1>4

LEMMA StepInv == Inv /\ [Next]_vars => Inv'
<1> SUFFICES ASSUME Inv, [Next]_vars PROVE Inv'
  OBVIOUS
<1>1. CASE Next
  BY <1>1, BootInv, FireInv, PostInv, BookEntryInv, ExitInv, EnvironmentInv DEF Next
<1>2. CASE UNCHANGED vars
  BY <1>2 DEF vars, process, exchange, Inv, TypeOK, BookAgrees, CallInv, TickerIsNew
<1>. QED
  BY <1>1, <1>2

LEMMA Invariance == Spec => []Inv
BY InitInv, StepInv, PTL DEF Spec

\* No sequence of calls, answers, fills, crashes and restarts takes a variable
\* out of the values the code can give it: in particular a call that reaches
\* place_order asks for at least one contract.
THEOREM TypeCorrect == Spec => []TypeOK
<1>1. Inv => TypeOK
  BY DEF Inv
<1>. QED
  BY <1>1, Invariance, PTL

\* The portfolio's three views of what is open agree for ever (apply_fill,
\* prune_settled, apply_exit and _rehydrate_window_cap together).
THEOREM ViewsAgree == Spec => []BookAgrees
<1>1. Inv => BookAgrees
  BY DEF Inv
<1>. QED
  BY <1>1, Invariance, PTL

-----------------------------------------------------------------------------
\* The switches

\* What a step may not do to the exchange while a switch is set.
Sends ==
    \/ accepted' # accepted
    \/ exitsSeen' # exitsSeen
    \/ pc = "cancel" /\ pc' # "cancel" /\ working' # working

\* Only three steps send anything, and each asks the client whether it is ready.
LEMMA OnlyReadySends == Next /\ Sends => Ready /\ pc \in {"post", "cancel", "sell"}
<1> SUFFICES ASSUME Next, Sends PROVE Ready /\ pc \in {"post", "cancel", "sell"}
  OBVIOUS
<1> USE DEF Sends, exchange, process
<1>1. CASE PostAccepted
  BY <1>1 DEF PostAccepted
<1>2. CASE ExitCancel
  BY <1>2 DEF ExitCancel
<1>3. CASE ExitSell
  BY <1>3 DEF ExitSell
<1>4. CASE Boot \/ BookExit \/ BookEntry
  BY <1>4 DEF Boot, BookExit, BookEntry
<1>5. ASSUME NEW p \in Picks, Fire(p) PROVE FALSE
  BY <1>5 DEF Fire
<1>6. ASSUME NEW t \in Tickers, ExitBegin(t) PROVE FALSE
  BY <1>6 DEF ExitBegin
<1>7. ASSUME NEW t \in Tickers, FillResting(t) PROVE FALSE
  BY <1>7 DEF FillResting
<1>8. CASE PostSimulated \/ PostNotAccepted
  BY <1>8 DEF PostSimulated, PostNotAccepted
<1>9. CASE NextWindow \/ FlipSwitch
  BY <1>9 DEF NextWindow, FlipSwitch
<1>10. CASE Stop
  BY <1>10 DEF Stop
<1>. QED
  BY <1>1, <1>2, <1>3, <1>4, <1>5, <1>6, <1>7, <1>8, <1>9, <1>10 DEF Next

\* Whatever goes wrong, no order and no cancel of a call that began under the
\* panic button or dry-run reaches the exchange (_refresh_safety_switches and
\* live_ready).
THEOREM SwitchesAreObeyed == Spec => SwitchesStopOrders
<1>1. Inv /\ [Next]_vars => [Sends => ~began.kill /\ ~began.dryRun]_vars
  BY OnlyReadySends DEF Inv, CallInv, Ready
<1>. QED
  BY <1>1, Invariance, PTL DEF Spec, SwitchesStopOrders, Sends

-----------------------------------------------------------------------------
\* The window cap of a process that is not restarted

\* Nothing but an acknowledged or lost POST adds an entry at the exchange.
LEMMA OnlyAcceptsEnter == Next /\ accepted' # accepted => PostAccepted
<1> SUFFICES ASSUME Next, accepted' # accepted, ~PostAccepted PROVE FALSE
  OBVIOUS
<1> USE DEF exchange, process
<1>1. ~(PostSimulated \/ PostNotAccepted \/ BookEntry \/ Boot)
  BY DEF PostSimulated, PostNotAccepted, BookEntry, Boot
<1>2. ~(ExitCancel \/ BookExit \/ \E t \in Tickers : ExitBegin(t))
  BY DEF ExitCancel, BookExit, ExitBegin
<1>3. ~ExitSell
  BY DEF ExitSell
<1>4. ~((\E t \in Tickers : FillResting(t)) \/ NextWindow \/ FlipSwitch \/ Stop)
  BY DEF FillResting, NextWindow, FlipSwitch, Stop
<1>5. ASSUME NEW p \in Picks PROVE ~Fire(p)
  BY DEF Fire
<1>. QED
  BY <1>1, <1>2, <1>3, <1>4, <1>5 DEF Next

LEMMA NoStop == OneProcess => ~Stop
<1> SUFFICES ASSUME OneProcess, Stop PROVE FALSE
  OBVIOUS
<1>1. ASSUME NEW f \in Faults
      PROVE  (CASE f = "restart" -> {"idle"}
                [] f = "crash" -> {"post", "cancel", "sell", "flat"}
                [] f = "crash_unrecorded" -> {"book"}
                [] OTHER -> {}) = {}
  BY <1>1 DEF OneProcess
<1>2. StopPoints = {}
  BY <1>1 DEF StopPoints
<1>. QED
  BY <1>2 DEF Stop

LEMMA InitCap == Init => CapInv /\ NothingBeforeBoot
<1> SUFFICES ASSUME Init PROVE CapInv /\ NothingBeforeBoot
  OBVIOUS
<1>1. \A w \in Windows : InWindow(accepted, w) = {}
  BY DEF Init, InWindow
<1>2. Cfg.maxPicks \in Nat
  BY ConfigAssumption DEF IsConfig
<1>. QED
  BY <1>1, <1>2, FS_EmptySet DEF Init, CapInv, NothingBeforeBoot, WindowCap

\* What an accepted entry may be: new to the exchange, in a window with room.
LEMMA AcceptedHasRoom ==
    ASSUME Inv, CapInv, PostAccepted
    PROVE  /\ req.ticker \in Tickers /\ req.ticker \notin accepted
           /\ accepted' = accepted \union {req.ticker}
           /\ IsFiniteSet(InWindow(accepted, WindowOf[req.ticker]))
           /\ Cardinality(InWindow(accepted, WindowOf[req.ticker])) < Cfg.maxPicks
<1> DEFINE w == WindowOf[req.ticker]
<1>1. /\ req \in Picks /\ req.ticker \in Tickers /\ w \in Windows /\ w = req.window
      /\ w = clock /\ pc = "post" /\ InFlight = {}
  BY PickType DEF PostAccepted, Inv, TypeOK, Open, InFlight
<1>2. w >= clock
  <2>1. w \in Nat
    BY <1>1, WindowsAssumption
  <2>. QED
    BY <1>1, <2>1
<1>3. InWindow(accepted, w) \subseteq book.windowTickers[w]
  BY <1>1, <1>2 DEF CapInv
<1>4. /\ book.windowTickers[w] \in SUBSET Tickers
      /\ book.windowCount[w] = Cardinality(book.windowTickers[w])
      /\ book.windowCount[w] < Cfg.maxPicks
  BY <1>1 DEF Inv, TypeOK, Books, BookAgrees, Agrees, CapInv
<1>5. IsFiniteSet(book.windowTickers[w]) /\ Cardinality(book.windowTickers[w]) \in Nat
  BY <1>4, TickersFinite
<1>6. /\ IsFiniteSet(InWindow(accepted, w)) /\ Cardinality(InWindow(accepted, w)) \in Nat
      /\ Cardinality(InWindow(accepted, w)) <= Cardinality(book.windowTickers[w])
  BY <1>3, <1>5, FS_Subset, FS_CardinalityType
<1>7. Cfg.maxPicks \in Nat
  BY ConfigAssumption DEF IsConfig
<1>. QED
  BY <1>1, <1>4, <1>5, <1>6, <1>7 DEF PostAccepted

LEMMA AcceptKeepsCap == ErrorsRefuse /\ Inv /\ CapInv /\ PostAccepted => CapInv'
<1> SUFFICES ASSUME ErrorsRefuse, Inv, CapInv, PostAccepted PROVE CapInv'
  OBVIOUS
<1> DEFINE t == req.ticker
<1>1. /\ t \in Tickers /\ t \notin accepted /\ accepted' = accepted \union {t}
      /\ IsFiniteSet(InWindow(accepted, WindowOf[t]))
      /\ Cardinality(InWindow(accepted, WindowOf[t])) < Cfg.maxPicks
  BY AcceptedHasRoom
<1>2. /\ pc = "post" /\ pc' = "book" /\ UNCHANGED <<req, book, clock>>
      /\ ack' \in {"ok", "uncertain", "ok_no_id"}
  BY DEF PostAccepted, Misheard, ErrorsRefuse
<1>3. InFlight = {} /\ InFlight' = {t}
  BY <1>2 DEF InFlight, Booked
<1>4. ASSUME NEW w \in Windows, w >= clock
      PROVE  InWindow(accepted', w) \subseteq book.windowTickers[w] \union {t}
  <2>1. InWindow(accepted, w) \subseteq book.windowTickers[w]
    BY <1>2, <1>3, <1>4 DEF CapInv
  <2>. QED
    BY <1>1, <2>1 DEF InWindow
<1>5. ASSUME NEW w \in Windows
      PROVE  Cardinality(InWindow(accepted', w)) <= Cfg.maxPicks
  <2>1. CASE w # WindowOf[t]
    <3>1. InWindow(accepted', w) = InWindow(accepted, w)
      BY <1>1, <2>1 DEF InWindow
    <3>. QED
      BY <3>1 DEF CapInv, WindowCap
  <2>2. CASE w = WindowOf[t]
    <3>1. InWindow(accepted', w) = InWindow(accepted, w) \union {t} /\ t \notin InWindow(accepted, w)
      BY <1>1, <2>2 DEF InWindow
    <3>2. Cardinality(InWindow(accepted', w)) = Cardinality(InWindow(accepted, w)) + 1
      BY <1>1, <2>2, <3>1, FS_AddElement
    <3>3. Cardinality(InWindow(accepted, w)) \in Nat /\ Cfg.maxPicks \in Nat
      BY <1>1, <2>2, FS_CardinalityType, ConfigAssumption DEF IsConfig
    <3>. QED
      BY <1>1, <2>2, <3>2, <3>3
  <2>. QED
    BY <2>1, <2>2
<1>. QED
  BY <1>2, <1>3, <1>4, <1>5 DEF CapInv, WindowCap

LEMMA FireCap == ASSUME Inv, CapInv, NEW p \in Picks, Fire(p) PROVE CapInv'
<1> DEFINE s == PruneSettled(book, p.window)
           d == Decide(p, s, Cfg, env.kill)
<1>1. /\ s \in Books
      /\ \A w \in Windows : w >= p.window => s.windowTickers[w] = book.windowTickers[w]
  BY PickType, PruneAgrees DEF Inv, TypeOK, BookAgrees
<1>2. d.place => s.windowCount[p.window] < Cfg.maxPicks /\ p.ticker \notin s.windowTickers[p.window]
  BY <1>1, PickType, OrderWithinBounds DEF Admitted, WindowHasRoom, TickerIsNew
<1> HIDE DEF s, d
<1>3. /\ pc = "idle" /\ p.window = clock /\ book' = s
      /\ \/ pc' = "post" /\ req' = p /\ d.place
         \/ pc' = "idle"
      /\ UNCHANGED <<accepted, clock>>
  BY DEF Fire, exchange, s, d
<1>4. InFlight = {} /\ InFlight' = {}
  BY <1>3 DEF InFlight
<1>5. \A w \in Windows : w >= clock => InWindow(accepted, w) \subseteq s.windowTickers[w]
  BY <1>1, <1>3, <1>4 DEF CapInv
<1>6. d.place => p.ticker \notin accepted
  <2>1. p.window \in Windows /\ p.window = WindowOf[p.ticker]
    BY PickType
  <2>2. clock >= clock
    BY WindowsAssumption DEF Inv, TypeOK
  <2>3. InWindow(accepted, p.window) \subseteq s.windowTickers[p.window]
    BY <1>3, <1>5, <2>1, <2>2
  <2>. QED
    BY <1>2, <2>1, <2>3 DEF InWindow
<1>. QED
  BY <1>2, <1>3, <1>4, <1>5, <1>6 DEF CapInv, WindowCap, InWindow

LEMMA BookEntryCap == Inv /\ CapInv /\ BookEntry => CapInv'
<1> SUFFICES ASSUME Inv, CapInv, BookEntry PROVE CapInv'
  OBVIOUS
<1>1. /\ req.ticker \in Tickers /\ req.window \in Windows
      /\ req.window = WindowOf[req.ticker]
      /\ book.windowTickers \in [Windows -> SUBSET Tickers]
  BY PickType DEF BookEntry, Inv, TypeOK, Books
<1>2. /\ pc = "book" /\ pc' = "idle" /\ UNCHANGED <<accepted, clock>>
      /\ book' = IF Booked(ack) THEN ApplyFill(book, req, dec) ELSE book
  BY DEF BookEntry, Return, exchange
<1>3. InFlight' = {}
  BY <1>2 DEF InFlight
<1>4. ASSUME NEW w \in Windows, w >= clock
      PROVE  InWindow(accepted, w) \subseteq book'.windowTickers[w]
  <2>1. InWindow(accepted, w) \subseteq book.windowTickers[w] \union InFlight
    BY <1>2, <1>4 DEF CapInv
  <2>2. CASE ~Booked(ack)
    BY <1>2, <2>1, <2>2 DEF InFlight
  <2>3. CASE Booked(ack)
    <3>1. book'.windowTickers =
            [book.windowTickers EXCEPT ![req.window] = @ \union {req.ticker}]
      BY <1>2, <2>3 DEF ApplyFill
    <3>2. req.ticker \in InWindow(accepted, w) => w = req.window
      BY <1>1 DEF InWindow
    <3>3. InFlight = {req.ticker}
      BY <1>2, <2>3 DEF InFlight
    <3>4. book.windowTickers[w] \subseteq book'.windowTickers[w]
      BY <1>1, <3>1
    <3>5. w = req.window => req.ticker \in book'.windowTickers[w]
      BY <1>1, <3>1
    <3>. QED
      BY <2>1, <3>2, <3>3, <3>4, <3>5
  <2>. QED
    BY <2>2, <2>3
<1>. QED
  BY <1>2, <1>3, <1>4 DEF CapInv, WindowCap, InWindow

\* The other steps leave accepted and the portfolio's windows alone.
LEMMA OtherCap ==
    ASSUME Inv, CapInv, Next, ~Boot, ~PostAccepted, ~BookEntry,
           ~(\E p \in Picks : Fire(p))
    PROVE  CapInv'
<1> USE DEF exchange, process
<1>2. CASE PostSimulated \/ PostNotAccepted
  <2>1. pc = "post" /\ pc' = "book" /\ UNCHANGED <<accepted, clock, book, req>>
    BY <1>2 DEF PostSimulated, PostNotAccepted
  <2>2. InFlight = {}
    BY <2>1 DEF InFlight
  <2>. QED
    BY <2>1, <2>2 DEF CapInv, WindowCap, InWindow
<1>3. CASE BookExit
  <2>1. req.ticker \in Tickers /\ book \in Books /\ Agrees(book) /\ pc = "flat"
    BY <1>3 DEF BookExit, Inv, TypeOK, BookAgrees
  <2>2. pc' = "idle" /\ book'.windowTickers = book.windowTickers /\ UNCHANGED <<accepted, clock>>
    BY <1>3, <2>1, ExitAgrees DEF BookExit, Return
  <2>3. InFlight = {} /\ InFlight' = {}
    BY <2>1, <2>2 DEF InFlight
  <2>. QED
    BY <2>1, <2>2, <2>3 DEF CapInv, WindowCap, InWindow
<1>4. CASE (\E t \in Tickers : ExitBegin(t)) \/ ExitCancel \/ ExitSell
  <2>1. /\ pc \in {"idle", "cancel", "sell"} /\ pc' \in {"idle", "cancel", "sell", "flat"}
        /\ UNCHANGED <<accepted, clock, book>>
    BY <1>4 DEF ExitBegin, ExitCancel, ExitSell, Return
  <2>2. InFlight = {} /\ InFlight' = {}
    BY <2>1 DEF InFlight
  <2>. QED
    BY <2>1, <2>2 DEF CapInv, WindowCap, InWindow
<1>5. CASE (\E t \in Tickers : FillResting(t)) \/ FlipSwitch
  <2>1. UNCHANGED <<accepted, clock, book, pc, req, ack>>
    BY <1>5 DEF FillResting, FlipSwitch
  <2>. QED
    BY <2>1 DEF CapInv, WindowCap, InWindow, InFlight
<1>6. CASE NextWindow
  <2>1. UNCHANGED <<accepted, book, pc, req, ack>> /\ clock' = clock + 1
    BY <1>6 DEF NextWindow
  <2>2. clock \in Nat /\ Windows \subseteq Nat
    BY WindowsAssumption DEF Inv, TypeOK
  <2>3. \A w \in Windows : w >= clock' => w >= clock
    BY <2>1, <2>2
  <2>. QED
    BY <2>1, <2>3 DEF CapInv, WindowCap, InWindow, InFlight
<1>7. CASE Stop
  <2>1. pc' = "down" /\ UNCHANGED accepted
    BY <1>7 DEF Stop
  <2>. QED
    BY <2>1 DEF CapInv, WindowCap, InWindow
<1>. QED
  BY <1>2, <1>3, <1>4, <1>5, <1>6, <1>7 DEF Next

\* Every step but a boot keeps the cap's invariant, under every other fault.
LEMMA RunningCap == ErrorsRefuse /\ Inv /\ CapInv /\ [Next]_vars /\ ~Boot => CapInv'
<1> SUFFICES ASSUME ErrorsRefuse, Inv, CapInv, [Next]_vars, ~Boot PROVE CapInv'
  OBVIOUS
<1>1. CASE Next
  BY <1>1, FireCap, AcceptKeepsCap, BookEntryCap, OtherCap
<1>2. CASE UNCHANGED vars
  BY <1>2 DEF vars, process, exchange, CapInv, WindowCap, InWindow, InFlight
<1>. QED
  BY <1>1, <1>2

LEMMA FirstBootCap == CapInv /\ NothingBeforeBoot /\ Boot => CapInv'
<1> SUFFICES ASSUME CapInv, NothingBeforeBoot, Boot PROVE CapInv'
  OBVIOUS
<1>1. accepted = {} /\ accepted' = {} /\ pc' = "idle"
  BY DEF Boot, exchange, NothingBeforeBoot
<1>2. \A w \in Windows : InWindow(accepted', w) = {}
  BY <1>1 DEF InWindow
<1>3. Cfg.maxPicks \in Nat
  BY ConfigAssumption DEF IsConfig
<1>. QED
  BY <1>1, <1>2, <1>3, FS_EmptySet DEF CapInv, WindowCap

\* Only Stop goes down again.
LEMMA StaysUp == OneProcess /\ NothingBeforeBoot /\ [Next]_vars => NothingBeforeBoot'
<1> SUFFICES ASSUME OneProcess, NothingBeforeBoot, [Next]_vars, pc' = "down"
             PROVE  accepted' = {}
  BY DEF NothingBeforeBoot
<1> USE DEF exchange, process
<1>1. CASE UNCHANGED vars
  BY <1>1 DEF vars, NothingBeforeBoot
<1>2. ~Stop
  BY NoStop
<1>3. CASE Boot \/ PostSimulated \/ PostAccepted \/ PostNotAccepted \/ BookEntry
  BY <1>3 DEF Boot, PostSimulated, PostAccepted, PostNotAccepted, BookEntry, Return
<1>4. CASE ExitCancel \/ ExitSell \/ BookExit
  BY <1>4 DEF ExitCancel, ExitSell, BookExit, Return
<1>5. ASSUME NEW p \in Picks, Fire(p) PROVE accepted' = {}
  BY <1>5 DEF Fire
<1>6. ASSUME NEW t \in Tickers, ExitBegin(t) \/ FillResting(t) PROVE accepted' = {}
  BY <1>6 DEF ExitBegin, FillResting, NothingBeforeBoot
<1>7. CASE NextWindow \/ FlipSwitch
  BY <1>7 DEF NextWindow, FlipSwitch, NothingBeforeBoot
<1>. QED
  BY <1>1, <1>2, <1>3, <1>4, <1>5, <1>6, <1>7 DEF Next

LEMMA StepCap ==
    OneProcess /\ Inv /\ CapInv /\ NothingBeforeBoot /\ [Next]_vars
        => CapInv' /\ NothingBeforeBoot'
BY RunningCap, FirstBootCap, StaysUp DEF OneProcess

\* In a process that is not restarted, the exchange never takes entries for more
\* than max_picks_per_window contracts of one window, whatever answers are lost,
\* refused or cannot be stored and whatever the windows and the operator do.
THEOREM CapHolds == OneProcess => (Spec => []WindowCap)
<1> SUFFICES ASSUME OneProcess PROVE Spec => []WindowCap
  OBVIOUS
<1>1. CapInv => WindowCap
  BY DEF CapInv
<1>2. Inv /\ CapInv /\ NothingBeforeBoot /\ [Next]_vars => CapInv' /\ NothingBeforeBoot'
  BY StepCap
<1>. QED
  BY <1>1, <1>2, InitCap, Invariance, PTL DEF Spec

\* Nor does it ever post an entry the exchange already took: decide()'s duplicate
\* guard and the booking of lost answers suffice, without the exchange's check of
\* client order ids.
THEOREM NothingReposted == OneProcess => (Spec => []NeverReposted)
<1> SUFFICES ASSUME OneProcess PROVE Spec => []NeverReposted
  OBVIOUS
<1>1. CapInv => NeverReposted
  BY DEF CapInv, NeverReposted
<1>2. Inv /\ CapInv /\ NothingBeforeBoot /\ [Next]_vars => CapInv' /\ NothingBeforeBoot'
  BY StepCap
<1>. QED
  BY <1>1, <1>2, InitCap, Invariance, PTL DEF Spec

\* A step that enters anything enters one new contract into a window with room.
LEMMA EntersWithinLimit == Inv /\ CapInv /\ [Next]_vars => [EntryLimit!Next]_accepted
<1> SUFFICES ASSUME Inv, CapInv, [Next]_vars, accepted' # accepted
             PROVE  EntryLimit!Next
  BY DEF EntryLimit!Next
<1>1. Next /\ Sends
  BY DEF vars, exchange, Sends
<1>2. PostAccepted
  BY <1>1, OnlyAcceptsEnter
<1>3. EntryLimit!Enter(req.ticker)
  <2>1. ASSUME NEW S PROVE EntryLimit!Cardinality(S) = Cardinality(S)
    BY DEF EntryLimit!Cardinality, Cardinality
  <2>2. EntryLimit!Cardinality(InWindow(accepted, WindowOf[req.ticker])) < Cfg.maxPicks
    BY <1>2, <2>1, AcceptedHasRoom
  <2>. QED
    BY <1>2, <2>2, AcceptedHasRoom DEF EntryLimit!Enter, InWindow
<1>. QED
  BY <1>2, <1>3, AcceptedHasRoom DEF EntryLimit!Next

\* The same process implements EntryLimit: contracts are entered one at a time,
\* each at most once, and only into a window with room.
THEOREM KeepsEntryLimit == OneProcess => (Spec => ImplementsEntryLimit)
<1> SUFFICES ASSUME OneProcess PROVE Spec => ImplementsEntryLimit
  OBVIOUS
<1>1. Init => EntryLimit!Init
  BY DEF Init, EntryLimit!Init
<1>2. Inv /\ CapInv /\ [Next]_vars => [EntryLimit!Next]_accepted
  BY EntersWithinLimit
<1>3. Inv /\ CapInv /\ NothingBeforeBoot /\ [Next]_vars => CapInv' /\ NothingBeforeBoot'
  BY StepCap
<1>. QED
  BY <1>1, <1>2, <1>3, InitCap, Invariance, PTL DEF Spec, ImplementsEntryLimit, EntryLimit!Spec
(***************************************************************************)
(* The restarts.                                                           *)
(*                                                                         *)
(* What survives a restart of the executor: when every order is answered   *)
(* and every row is stored, a process that dies between or inside calls    *)
(* (but not between an answer and its row) comes back able to leave        *)
(* everything it entered, and within the caps.                             *)
(*                                                                         *)
(* The chain is: what the exchange took is in the store with its order id, *)
(* but for the entry whose answer is in flight (Stored); a boot makes a    *)
(* position, an order id and a place in the window of every stored row     *)
(* (Sellable, CapInv); the prune of a running window touches none of them; *)
(* and an exit cancels before it sells, so a contract that was sold has    *)
(* nothing resting (SoldOff).                                              *)
(***************************************************************************)

\* The faults of a restarted process whose orders are answered and rows stored.
Orderly == Faults \subseteq {"restart", "crash", "reject"}

Calm == env = Off /\ switches = Off

Answered ==
    /\ pc = "book" => ack \in {"ok", "failed"} /\ (ack = "ok" => req.ticker \in accepted)
    /\ pc = "flat" => ack \in {"ok", "failed"}

Stored ==
    \A t \in Tickers :
        /\ store["LIVE"][t].count > 0 => t \in accepted
        /\ t \in accepted \ InFlight => store["LIVE"][t].count > 0 /\ store["LIVE"][t].id

\* The contracts a sale was taken or acknowledged of.
Left == exited \union exitsSeen

OnlyEntered ==
    /\ Left \subseteq accepted
    /\ \A t \in Tickers :
          /\ book.positions[t] > 0 => t \in accepted
          /\ held[t] > 0 \/ working[t] > 0 => t \in accepted /\ WindowOf[t] >= clock

Sellable ==
    pc # "down" =>
        \A t \in accepted \ (exited \union InFlight) :
            WindowOf[t] >= clock => t \in entryIds /\ book.positions[t] > 0

SoldOff ==
    /\ \A t \in Left : working[t] = 0
    /\ pc \in {"sell", "flat"} => req.ticker \in accepted /\ working[req.ticker] = 0

RInv == Calm /\ Answered /\ Stored /\ OnlyEntered /\ Sellable /\ SoldOff

-----------------------------------------------------------------------------
LEMMA InitR == Orderly /\ Init => RInv
<1> SUFFICES ASSUME Orderly, Init PROVE RInv
  OBVIOUS
<1>1. env = Off /\ switches = Off
  BY DEF Init, Orderly
<1>2. \A t \in Tickers : store["LIVE"][t].count = 0 /\ book.positions[t] = 0
  BY DEF Init, Modes, NoRow, EmptyBook
<1>. QED
  BY <1>1, <1>2 DEF Init, RInv, Calm, Answered, Stored, OnlyEntered, Sellable, SoldOff, Left

LEMMA BootR == Inv /\ RInv /\ Boot => RInv'
<1> SUFFICES ASSUME Inv, RInv, Boot PROVE RInv'
  OBVIOUS
<1> USE DEF exchange
<1>1. /\ pc = "down" /\ pc' = "idle" /\ env' = env /\ switches' = env
      /\ UNCHANGED <<store, clock, accepted, exited, exitsSeen, working, held, req, ack>>
      /\ InFlight = {} /\ InFlight' = {}
  BY DEF Boot, InFlight
<1>2. ModeOf(env) = "LIVE"
  BY DEF RInv, Calm, Off, ModeOf
<1>3. /\ entryIds' = {t \in Tickers : store["LIVE"][t].id}
      /\ book' = Rehydrated(store["LIVE"])
  BY <1>2 DEF Boot
<1>4. \A t \in Tickers : book'.positions[t] = store["LIVE"][t].count
  BY <1>3 DEF Rehydrated
<1>5. accepted \subseteq Tickers
  BY DEF Inv, TypeOK
<1>. QED
  BY <1>1, <1>3, <1>4, <1>5
     DEF RInv, Calm, Answered, Stored, OnlyEntered, Sellable, SoldOff, Left

\* A boot gives every entry of a window its place in that window.
LEMMA BootCap == Inv /\ RInv /\ CapInv /\ Boot => CapInv'
<1> SUFFICES ASSUME Inv, RInv, CapInv, Boot PROVE CapInv'
  OBVIOUS
<1>1. pc = "down" /\ pc' = "idle" /\ accepted' = accepted /\ clock' = clock /\ InFlight = {}
  BY DEF Boot, exchange, InFlight
<1>2. ModeOf(env) = "LIVE"
  BY DEF RInv, Calm, Off, ModeOf
<1>3. book' = Rehydrated(store["LIVE"])
  BY <1>2 DEF Boot
<1>4. ASSUME NEW w \in Windows PROVE InWindow(accepted, w) \subseteq book'.windowTickers[w]
  <2>1. book'.windowTickers[w] = {t \in {u \in Tickers : store["LIVE"][u].count > 0} : WindowOf[t] = w}
    BY <1>3, <1>4 DEF Rehydrated
  <2>. QED
    BY <1>1, <2>1 DEF InWindow, RInv, Stored, Inv, TypeOK
<1>. QED
  BY <1>1, <1>4 DEF CapInv, WindowCap, InWindow

\* The prune of a running window keeps the positions of every later window too.
LEMMA PruneKeeps ==
    ASSUME NEW s \in Books, NEW wk \in Windows, NEW w \in Windows, w >= wk,
           NEW t \in s.windowTickers[w]
    PROVE  PruneSettled(s, wk).positions[t] = s.positions[t]
<1> DEFINE keep == RunningWindows(s, wk)
           kept == UNION {s.windowTickers[v] : v \in keep}
<1>1. t \in Tickers /\ s.positions \in [Tickers -> Nat]
  BY DEF Books
<1>2. w \in keep
  BY DEF RunningWindows, KnownWindows
<1>3. t \in kept
  BY <1>2
<1>4. CASE keep = KnownWindows(s)
  BY <1>4 DEF PruneSettled
<1>5. CASE keep # KnownWindows(s)
  <2>1. PruneSettled(s, wk).positions =
           [v \in Tickers |-> IF v \in kept THEN s.positions[v] ELSE 0]
    BY <1>5 DEF PruneSettled
  <2> HIDE DEF kept
  <2>. QED
    BY <1>1, <1>3, <2>1
<1>. QED
  BY <1>4, <1>5

LEMMA PruneShrinks ==
    ASSUME NEW s \in Books, NEW wk \in Windows, NEW u \in Tickers,
           PruneSettled(s, wk).positions[u] > 0
    PROVE  s.positions[u] > 0
<1> DEFINE keep == RunningWindows(s, wk)
           kept == UNION {s.windowTickers[v] : v \in keep}
<1>1. CASE keep = KnownWindows(s)
  BY <1>1 DEF PruneSettled
<1>2. CASE keep # KnownWindows(s)
  <2>1. PruneSettled(s, wk).positions =
           [v \in Tickers |-> IF v \in kept THEN s.positions[v] ELSE 0]
    BY <1>2 DEF PruneSettled
  <2> HIDE DEF kept
  <2>. QED
    BY <2>1
<1>. QED
  BY <1>1, <1>2

LEMMA FireR == ASSUME Inv, RInv, CapInv, NEW p \in Picks, Fire(p) PROVE RInv'
<1> USE DEF exchange
<1> DEFINE s == PruneSettled(book, p.window)
<1>1. /\ pc = "idle" /\ p.window = clock /\ pc' \in {"idle", "post"}
      /\ env' = env /\ switches' = env /\ book' = s
      /\ UNCHANGED <<entryIds, store, clock, accepted, exited, exitsSeen, working, held>>
  BY DEF Fire, RefreshSwitches
<1>2. InFlight = {} /\ InFlight' = {}
  BY <1>1 DEF InFlight
<1>3. /\ book \in Books /\ clock \in Windows /\ accepted \subseteq Tickers
      /\ WindowOf \in [Tickers -> Windows]
  BY WindowOfAssumption DEF Inv, TypeOK
<1>4. \A u \in Tickers : s.positions[u] > 0 => book.positions[u] > 0
  BY <1>1, <1>3, PruneShrinks
<1>5. ASSUME NEW t \in accepted, WindowOf[t] >= clock
      PROVE  s.positions[t] = book.positions[t]
  <2>1. WindowOf[t] \in Windows /\ t \in InWindow(accepted, WindowOf[t])
    BY <1>3 DEF InWindow
  <2>2. t \in book.windowTickers[WindowOf[t]]
    BY <1>1, <1>2, <1>5, <2>1 DEF CapInv
  <2>. QED
    BY <1>1, <1>3, <1>5, <2>1, <2>2, PruneKeeps
<1> HIDE DEF s
<1>. QED
  BY <1>1, <1>2, <1>3, <1>4, <1>5
     DEF RInv, Calm, Answered, Stored, OnlyEntered, Sellable, SoldOff, Left

LEMMA PostR ==
    ASSUME Orderly, Inv, RInv, CapInv, PostSimulated \/ PostAccepted \/ PostNotAccepted
    PROVE  RInv'
<1> USE DEF exchange
<1>1. pc = "post" /\ InFlight = {} /\ req.ticker \in Tickers
  BY PickType DEF PostSimulated, PostAccepted, PostNotAccepted, InFlight, Inv, TypeOK
<1>2. ~PostSimulated
  BY DEF PostSimulated, Ready, RInv, Calm, Off
<1>3. CASE PostNotAccepted
  <2>1. /\ pc' = "book" /\ ack' = "failed"
        /\ UNCHANGED <<env, switches, book, entryIds, store, clock, accepted, exited,
                       exitsSeen, working, held>>
    BY <1>3 DEF PostNotAccepted, Orderly
  <2>2. InFlight' = {}
    BY <2>1 DEF InFlight, Booked
  <2>. QED
    BY <1>1, <2>1, <2>2 DEF RInv, Calm, Answered, Stored, OnlyEntered, Sellable, SoldOff, Left
<1>4. CASE PostAccepted
  <2> DEFINE t == req.ticker
  <2>1. /\ pc' = "book" /\ ack' = "ok" /\ req' = req
        /\ t \notin accepted /\ accepted' = accepted \union {t} /\ WindowOf[t] = clock
        /\ UNCHANGED <<env, switches, book, entryIds, store, clock, exited, exitsSeen>>
    BY <1>4 DEF PostAccepted, Misheard, Orderly, Open
  <2>2. InFlight' = {t}
    BY <2>1 DEF InFlight, Booked
  <2>3. \A u \in Tickers \ {t} : held'[u] = held[u] /\ working'[u] = working[u]
    BY <1>1, <1>4 DEF PostAccepted, Inv, TypeOK
  <2>4. clock \in Nat
    BY WindowsAssumption DEF Inv, TypeOK
  <2>5. t \notin Left
    BY <2>1 DEF RInv, OnlyEntered, Left
  <2>6. Stored' /\ Sellable' /\ Calm' /\ Answered'
    BY <1>1, <2>1, <2>2 DEF RInv, Calm, Answered, Stored, Sellable
  <2>7. OnlyEntered'
    BY <1>1, <2>1, <2>3, <2>4 DEF RInv, OnlyEntered, Left
  <2>8. SoldOff'
    BY <2>1, <2>3, <2>5 DEF RInv, SoldOff, Left, Inv, TypeOK
  <2>. QED
    BY <2>6, <2>7, <2>8 DEF RInv
<1>. QED
  BY <1>2, <1>3, <1>4

LEMMA BookEntryR == Orderly /\ Inv /\ RInv /\ BookEntry => RInv'
<1> SUFFICES ASSUME Orderly, Inv, RInv, BookEntry PROVE RInv'
  OBVIOUS
<1> USE DEF exchange
<1> DEFINE t == req.ticker
<1>1. /\ pc = "book" /\ pc' = "idle" /\ t \in Tickers /\ ack \in {"ok", "failed"}
      /\ (ack = "ok" => t \in accepted) /\ dec.count \in Nat /\ dec.count > 0
      /\ UNCHANGED <<env, switches, clock, accepted, exited, exitsSeen, working, held>>
  BY PickType DEF BookEntry, Return, RInv, Answered, Inv, TypeOK, Decisions
<1>2. InFlight' = {}
  BY <1>1 DEF InFlight
<1>3. /\ store \in [Modes -> [Tickers -> [count : Nat, id : BOOLEAN]]]
      /\ book.positions \in [Tickers -> Nat]
  BY DEF Inv, TypeOK, Books
<1>4. CASE ack = "failed"
  <2>1. InFlight = {} /\ UNCHANGED <<book, entryIds, store>>
    BY <1>4 DEF BookEntry, StoreEntry, Booked, InFlight
  <2>. QED
    BY <1>1, <1>2, <2>1 DEF RInv, Calm, Answered, Stored, OnlyEntered, Sellable, SoldOff, Left
<1>5. CASE ack = "ok"
  <2>1. InFlight = {t} /\ entryIds' = entryIds \union {t} /\ book' = ApplyFill(book, req, dec)
    BY <1>1, <1>5 DEF BookEntry, Booked, InFlight
  <2>2. store' = [store EXCEPT !["LIVE"][t] = [count |-> dec.count, id |-> TRUE]]
    BY <1>5 DEF BookEntry, StoreEntry, Orderly
  <2>3. /\ store'["LIVE"][t].count = dec.count /\ store'["LIVE"][t].id
        /\ \A u \in Tickers \ {t} : store'["LIVE"][u] = store["LIVE"][u]
    BY <1>1, <1>3, <2>2 DEF Modes
  <2>4. /\ book'.positions[t] = dec.count
        /\ \A u \in Tickers \ {t} : book'.positions[u] = book.positions[u]
    BY <1>1, <1>3, <2>1 DEF ApplyFill
  <2>5. Stored'
    BY <1>1, <1>2, <1>5, <2>1, <2>3 DEF RInv, Stored
  <2>6. Sellable'
    BY <1>1, <1>2, <2>1, <2>4 DEF RInv, Sellable, Inv, TypeOK
  <2>7. OnlyEntered'
    BY <1>1, <1>5, <2>4 DEF RInv, OnlyEntered, Left
  <2>. QED
    BY <1>1, <2>5, <2>6, <2>7 DEF RInv, Calm, Answered, SoldOff, Left
<1>. QED
  BY <1>1, <1>4, <1>5

\* The cancel is sent whenever something rests, and it is not refused.
LEMMA ExitCancelR == Orderly /\ Inv /\ RInv /\ ExitCancel => RInv'
<1> SUFFICES ASSUME Orderly, Inv, RInv, ExitCancel PROVE RInv'
  OBVIOUS
<1> USE DEF exchange
<1> DEFINE t == req.ticker
<1>1. /\ pc = "cancel" /\ t \in Tickers /\ working \in [Tickers -> Nat]
      /\ book.positions \in [Tickers -> Nat] /\ WindowOf[t] \in Nat
      /\ UNCHANGED <<env, switches, book, entryIds, store, clock, accepted, held,
                     exited, exitsSeen>>
  BY WindowsAssumption, WindowOfAssumption DEF ExitCancel, Inv, TypeOK, Books
<1>2. pc' = "idle" \/ (pc' = "sell" /\ req' = req /\ book.positions[t] > 0)
  BY <1>1 DEF ExitCancel, Return
<1>3. InFlight = {} /\ InFlight' = {}
  BY <1>1, <1>2 DEF InFlight
<1>4. working'[t] = 0 /\ \A u \in Tickers \ {t} : working'[u] = working[u]
  <2>1. working[t] > 0 => t \in accepted /\ t \notin exited /\ WindowOf[t] >= clock
    BY <1>1 DEF RInv, OnlyEntered, SoldOff, Left
  <2>2. working[t] > 0 => t \in entryIds
    BY <1>1, <1>3, <2>1 DEF RInv, Sellable
  <2>3. Ready
    BY DEF RInv, Calm, Off, Ready
  <2>4. \/ working' = [working EXCEPT ![t] = 0]
        \/ t \notin entryIds /\ working' = working
    BY <2>3 DEF ExitCancel, Orderly
  <2>. QED
    BY <1>1, <2>2, <2>4
<1>5. \A u \in Tickers : working'[u] > 0 => working[u] > 0
  BY <1>1, <1>4
<1>6. OnlyEntered'
  BY <1>1, <1>5 DEF RInv, OnlyEntered, Left
<1>7. \A u \in Left : working'[u] = 0
  BY <1>1, <1>4 DEF RInv, SoldOff, Left, Inv, TypeOK
<1>8. SoldOff'
  BY <1>1, <1>2, <1>4, <1>7 DEF RInv, OnlyEntered, SoldOff, Left
<1>. QED
  BY <1>1, <1>2, <1>3, <1>6, <1>8 DEF RInv, Calm, Answered, Stored, Sellable

LEMMA ExitSellR == Orderly /\ Inv /\ RInv /\ ExitSell => RInv'
<1> SUFFICES ASSUME Orderly, Inv, RInv, ExitSell PROVE RInv'
  OBVIOUS
<1> USE DEF exchange
<1> DEFINE t == req.ticker
<1>1. /\ pc = "sell" /\ pc' = "flat" /\ t \in Tickers /\ req' = req
      /\ UNCHANGED <<env, switches, book, entryIds, store, clock, accepted, working, exited>>
      /\ exitsSeen' \subseteq exitsSeen \union {t}
  BY DEF ExitSell, Inv, TypeOK
<1>2. InFlight = {} /\ InFlight' = {}
  BY <1>1 DEF InFlight
<1>3. ack' \in {"ok", "failed"}
  BY DEF ExitSell, Misheard, Orderly, Ready, RInv, Calm, Off
<1>4. \A u \in Tickers : held'[u] > 0 => held[u] > 0
  <2>1. held \in [Tickers -> Nat] /\ book.positions[t] \in Nat
    BY <1>1 DEF Inv, TypeOK, Books
  <2>2. \/ held' = held
        \/ \E sold \in 0..AtMost(book.positions[t], held[t]) :
              held' = [held EXCEPT ![t] = @ - sold]
    BY DEF ExitSell
  <2>. QED
    BY <1>1, <2>1, <2>2 DEF AtMost
<1>5. OnlyEntered'
  BY <1>1, <1>4 DEF RInv, OnlyEntered, SoldOff, Left
<1>. QED
  BY <1>1, <1>2, <1>3, <1>5 DEF RInv, Calm, Answered, Stored, Sellable, SoldOff, Left

LEMMA BookExitR == Inv /\ RInv /\ BookExit => RInv'
<1> SUFFICES ASSUME Inv, RInv, BookExit PROVE RInv'
  OBVIOUS
<1> USE DEF exchange
<1> DEFINE t == req.ticker
<1>1. /\ pc = "flat" /\ pc' = "idle" /\ t \in Tickers /\ ack \in {"ok", "failed"}
      /\ t \in accepted /\ working[t] = 0
      /\ UNCHANGED <<env, switches, store, clock, accepted, working, held, exitsSeen>>
  BY DEF BookExit, Return, Inv, TypeOK, RInv, Answered, SoldOff, Left
<1>2. InFlight = {} /\ InFlight' = {}
  BY <1>1 DEF InFlight
<1>3. CASE ack = "failed"
  <2>1. UNCHANGED <<book, entryIds, exited, exitsSeen>>
    BY <1>3 DEF BookExit
  <2>. QED
    BY <1>1, <1>2, <2>1 DEF RInv, Calm, Answered, Stored, OnlyEntered, Sellable, SoldOff, Left
<1>4. CASE ack = "ok"
  <2>1. exited' = exited \union {t} /\ entryIds' = entryIds \ {t} /\ book' = ApplyExit(book, t)
    BY <1>4 DEF BookExit
  <2>2. /\ book.positions \in [Tickers -> Nat]
        /\ \A u \in Tickers \ {t} : book'.positions[u] = book.positions[u]
    BY <1>1, <2>1 DEF ApplyExit, Inv, TypeOK, Books
  <2>3. \A u \in Tickers : book'.positions[u] > 0 => u \in accepted
    BY <1>1, <2>2 DEF RInv, OnlyEntered, Left
  <2>4. Sellable'
    BY <1>1, <1>2, <2>1, <2>2 DEF RInv, Sellable, Inv, TypeOK
  <2>. QED
    BY <1>1, <1>2, <2>1, <2>3, <2>4 DEF RInv, Calm, Answered, Stored, OnlyEntered, SoldOff, Left
<1>. QED
  BY <1>1, <1>3, <1>4

LEMMA EnvironmentR ==
    ASSUME Orderly, Inv, RInv,
           (\E t \in Tickers : ExitBegin(t) \/ FillResting(t)) \/ NextWindow \/ FlipSwitch \/ Stop
    PROVE  RInv'
<1> USE DEF exchange, process
<1>1. ASSUME NEW t \in Tickers, ExitBegin(t) PROVE RInv'
  <2>1. /\ pc = "idle" /\ pc' = "cancel" /\ env' = env /\ switches' = env
        /\ UNCHANGED <<book, entryIds, store, clock, accepted, exited, exitsSeen,
                       working, held>>
    BY <1>1 DEF ExitBegin, RefreshSwitches
  <2>2. InFlight = {} /\ InFlight' = {}
    BY <2>1 DEF InFlight
  <2>. QED
    BY <2>1, <2>2 DEF RInv, Calm, Answered, Stored, OnlyEntered, Sellable, SoldOff, Left
<1>2. ASSUME NEW t \in Tickers, FillResting(t) PROVE RInv'
  <2>1. /\ working[t] > 0
        /\ working' = [working EXCEPT ![t] = @ - 1] /\ held' = [held EXCEPT ![t] = @ + 1]
        /\ UNCHANGED <<env, switches, pc, req, ack, book, entryIds, store, clock,
                       accepted, exited, exitsSeen>>
    BY <1>2 DEF FillResting
  <2>2. InFlight' = InFlight
    BY <2>1 DEF InFlight
  <2>3. working \in [Tickers -> Nat] /\ held \in [Tickers -> Nat]
    BY DEF Inv, TypeOK
  <2>4. \A u \in Tickers : /\ working'[u] > 0 => working[u] > 0
                           /\ held'[u] > 0 => held[u] > 0 \/ working[u] > 0
                           /\ working[u] = 0 => working'[u] = 0
    BY <2>1, <2>3
  <2>5. pc \in {"sell", "flat"} => req.ticker \in Tickers
    BY DEF Inv, TypeOK
  <2>6. exited \subseteq Tickers
    BY DEF Inv, TypeOK
  <2>7. OnlyEntered' /\ SoldOff'
    BY <2>1, <2>4, <2>5, <2>6 DEF RInv, OnlyEntered, SoldOff, Left
  <2>. QED
    BY <2>1, <2>2, <2>7 DEF RInv, Calm, Answered, Stored, Sellable
<1>3. CASE NextWindow
  <2>1. /\ clock' = clock + 1
        /\ working' = [t \in Tickers |-> IF WindowOf[t] > clock THEN working[t] ELSE 0]
        /\ held' = [t \in Tickers |-> IF WindowOf[t] > clock THEN held[t] ELSE 0]
        /\ UNCHANGED <<env, switches, pc, req, ack, book, entryIds, store, accepted,
                       exited, exitsSeen>>
    BY <1>3 DEF NextWindow
  <2>2. InFlight' = InFlight
    BY <2>1 DEF InFlight
  <2>3. clock \in Nat /\ \A t \in Tickers : WindowOf[t] \in Nat
    BY WindowsAssumption, WindowOfAssumption DEF Inv, TypeOK
  <2>4. /\ \A u \in Tickers : /\ held'[u] > 0 \/ working'[u] > 0 =>
                                   (held[u] > 0 \/ working[u] > 0) /\ WindowOf[u] >= clock'
                              /\ working[u] = 0 => working'[u] = 0
    BY <2>1, <2>3
  <2>5. (pc \in {"sell", "flat"} => req.ticker \in Tickers) /\ exited \subseteq Tickers
        /\ accepted \subseteq Tickers
    BY DEF Inv, TypeOK
  <2>6. OnlyEntered' /\ SoldOff'
    BY <2>1, <2>4, <2>5 DEF RInv, OnlyEntered, SoldOff, Left
  <2>7. Sellable'
    BY <2>1, <2>2, <2>3, <2>5 DEF RInv, Sellable
  <2>. QED
    BY <2>1, <2>2, <2>6, <2>7 DEF RInv, Calm, Answered, Stored
<1>4. ~FlipSwitch
  BY DEF FlipSwitch, Orderly
<1>5. CASE Stop
  <2>1. pc # "book"
    <3>1. \A f \in Faults : f # "crash_unrecorded"
      BY DEF Orderly
    <3>2. "book" \notin StopPoints
      BY <3>1 DEF StopPoints, Orderly
    <3>. QED
      BY <1>5, <3>2 DEF Stop
  <2>2. /\ pc' = "down" /\ book' = EmptyBook(Bankroll, Bankroll) /\ entryIds' = {}
        /\ UNCHANGED <<env, switches, store, clock, accepted, working, held, exited,
                       exitsSeen>>
    BY <1>5 DEF Stop
  <2>3. InFlight = {} /\ InFlight' = {}
    BY <2>1, <2>2 DEF InFlight
  <2>4. \A t \in Tickers : book'.positions[t] = 0
    BY <2>2 DEF EmptyBook
  <2>. QED
    BY <2>2, <2>3, <2>4 DEF RInv, Calm, Answered, Stored, OnlyEntered, Sellable, SoldOff, Left
<1>. QED
  BY <1>1, <1>2, <1>3, <1>4, <1>5

LEMMA StepR == Orderly /\ Inv /\ CapInv /\ RInv /\ [Next]_vars => CapInv' /\ RInv'
<1> SUFFICES ASSUME Orderly, Inv, CapInv, RInv, [Next]_vars PROVE CapInv' /\ RInv'
  OBVIOUS
<1>1. CapInv'
  BY RunningCap, BootCap DEF Orderly, ErrorsRefuse
<1>2. ASSUME Next PROVE RInv'
  <2>1. CASE Boot \/ \E p \in Picks : Fire(p)
    BY <2>1, BootR, FireR
  <2>2. CASE PostSimulated \/ PostAccepted \/ PostNotAccepted \/ BookEntry
    BY <2>2, PostR, BookEntryR
  <2>3. CASE ExitCancel \/ ExitSell \/ BookExit
    BY <2>3, ExitCancelR, ExitSellR, BookExitR
  <2>4. CASE (\E t \in Tickers : ExitBegin(t) \/ FillResting(t)) \/ NextWindow \/ FlipSwitch \/ Stop
    BY <2>4, EnvironmentR
  <2>. QED
    BY <1>2, <2>1, <2>2, <2>3, <2>4 DEF Next
<1>3. ASSUME UNCHANGED vars PROVE RInv'
  BY <1>3 DEF vars, process, exchange, RInv, Calm, Answered, Stored, OnlyEntered, Sellable,
              SoldOff, Left, InFlight
<1>. QED
  BY <1>1, <1>2, <1>3

LEMMA RestartInvariance == Orderly => (Spec => [](Inv /\ CapInv /\ RInv))
<1> SUFFICES ASSUME Orderly PROVE Spec => [](Inv /\ CapInv /\ RInv)
  OBVIOUS
<1>1. Init => CapInv /\ RInv
  BY InitCap, InitR
<1>2. Inv /\ CapInv /\ RInv /\ [Next]_vars => CapInv' /\ RInv'
  BY StepR
<1>. QED
  BY <1>1, <1>2, Invariance, PTL DEF Spec

-----------------------------------------------------------------------------
\* Restarted any number of times, a booted executor can sell and cancel whatever
\* it entered and has not left (_rehydrate_window_cap, prune_settled, on_exit).
THEOREM ExitStaysPossible == Orderly => (Spec => []ExitIsPossible)
<1> SUFFICES ASSUME Orderly PROVE Spec => []ExitIsPossible
  OBVIOUS
<1>1. Inv /\ CapInv /\ RInv => ExitIsPossible
  <2> SUFFICES ASSUME Inv, RInv, pc = "idle", NEW t \in Tickers \ exited,
                      held[t] > 0 \/ working[t] > 0
               PROVE  t \in entryIds /\ book.positions[t] > 0
    BY DEF ExitIsPossible
  <2>1. InFlight = {}
    BY DEF InFlight
  <2>. QED
    BY <2>1 DEF RInv, OnlyEntered, Left, Sellable
<1>. QED
  BY <1>1, RestartInvariance, PTL

\* A contract whose exit sale the exchange took has nothing resting from then on,
\* in this process or in a later one (_cancel_resting_entry before the sell).
THEOREM ExitsLeaveNothing == Orderly => (Spec => []ExitLeavesNothingResting)
<1> SUFFICES ASSUME Orderly PROVE Spec => []ExitLeavesNothingResting
  OBVIOUS
<1>1. Inv /\ CapInv /\ RInv => ExitLeavesNothingResting
  BY DEF RInv, SoldOff, Left, ExitLeavesNothingResting
<1>. QED
  BY <1>1, RestartInvariance, PTL

\* Through any number of restarts and crashes the executor implements EntryLimit:
\* the window's cap and the duplicate guard come back with the stored rows.
THEOREM RestartsKeepEntryLimit == Orderly => (Spec => ImplementsEntryLimit)
<1> SUFFICES ASSUME Orderly PROVE Spec => ImplementsEntryLimit
  OBVIOUS
<1>1. Init => EntryLimit!Init
  BY DEF Init, EntryLimit!Init
<1>2. Inv /\ CapInv /\ RInv /\ [Next]_vars => [EntryLimit!Next]_accepted
  BY EntersWithinLimit
<1>. QED
  BY <1>1, <1>2, RestartInvariance, PTL DEF Spec, ImplementsEntryLimit, EntryLimit!Spec

\* Through the same restarts the window cap holds and no entry the exchange took is
\* posted again: the rows bring back the duplicate guard (window_tickers) as well.
THEOREM RestartsKeepCap == Orderly => (Spec => [](WindowCap /\ NeverReposted))
<1> SUFFICES ASSUME Orderly PROVE Spec => [](WindowCap /\ NeverReposted)
  OBVIOUS
<1>1. Inv /\ CapInv /\ RInv => WindowCap /\ NeverReposted
  BY DEF CapInv, NeverReposted
<1>. QED
  BY <1>1, RestartInvariance, PTL
(***************************************************************************)
(* The money.                                                              *)
(*                                                                         *)
(* What the exchange may be owed for a window is a sum over its contracts, *)
(* and the community module writes a sum as a choice of a function that    *)
(* obeys a recursive rule.  The facts a proof needs of it - it is a        *)
(* number, one changed term changes it by the difference, few small terms  *)
(* have a small sum - follow by induction over the subsets of the set      *)
(* summed over, stated with the well-founded order of finite sets.         *)
(***************************************************************************)

\* Induction over the subsets of a finite set, for the subsets in a set of them.
LEMMA SetInduction ==
    ASSUME NEW S, IsFiniteSet(S), NEW Good,
           \A T \in SUBSET S : (\A U \in SUBSET T : U # T => U \in Good) => T \in Good
    PROVE  S \in Good
<1> SUFFICES ASSUME S \notin Good PROVE FALSE
  OBVIOUS
<1> DEFINE Bad == {T \in SUBSET S : T \notin Good}
           Smaller == StrictSubsetOrdering(S)
<1>1. IsWellFoundedOn(Smaller, FiniteSubsetsOf(S))
  BY FS_StrictSubsetOrderingWellFounded
<1>2. Bad # {} /\ Bad \subseteq FiniteSubsetsOf(S)
  BY FS_Subset DEF FiniteSubsetsOf
<1>3. PICK T \in Bad : \A U \in Bad : ~(<<U, T>> \in Smaller)
  <2> HIDE DEF Bad, Smaller
  <2>. QED
    BY <1>1, <1>2, WFMin
<1>4. \A U \in SUBSET T : U # T => U \in Good
  BY <1>3 DEF StrictSubsetOrdering
<1>. QED
  BY <1>3, <1>4

Chosen(s) == CHOOSE x \in s : TRUE

SumRule(f, S, g) ==
    g = [s \in SUBSET S |-> IF s = {} THEN 0 ELSE f[Chosen(s)] + g[s \ {Chosen(s)}]]

\* The community module's sum is the value at S of a function that obeys the rule.
LEMMA SumIsFold ==
    ASSUME NEW f, NEW S
    PROVE  SumFunctionOnSet(f, S) = (CHOOSE g : SumRule(f, S, g))[S]
BY DEF SumFunctionOnSet, FoldFunctionOnSet, MapThenFoldSet, SumRule, Chosen

LEMMA ChosenIn == ASSUME NEW s, s # {} PROVE Chosen(s) \in s
BY DEF Chosen

\* The rule has one value at a finite set, whatever set it is applied to.
LEMMA RuleUnique ==
    ASSUME NEW f, NEW T, NEW U, NEW g, NEW h, SumRule(f, T, g), SumRule(f, U, h),
           NEW s, s \subseteq T, s \subseteq U, IsFiniteSet(s)
    PROVE  g[s] = h[s]
<1> DEFINE Good == {r \in SUBSET s : g[r] = h[r]}
<1>1. ASSUME NEW r \in SUBSET s, \A q \in SUBSET r : q # r => q \in Good
      PROVE  r \in Good
  <2>0. r \in SUBSET T /\ r \in SUBSET U
    OBVIOUS
  <2>1. /\ g[r] = IF r = {} THEN 0 ELSE f[Chosen(r)] + g[r \ {Chosen(r)}]
        /\ h[r] = IF r = {} THEN 0 ELSE f[Chosen(r)] + h[r \ {Chosen(r)}]
    BY <2>0 DEF SumRule
  <2>2. CASE r = {}
    BY <2>1, <2>2
  <2>3. CASE r # {}
    <3>1. r \ {Chosen(r)} \in Good
      BY <1>1, <2>3, ChosenIn
    <3>. QED
      BY <2>1, <2>3, <3>1
  <2>. QED
    BY <2>2, <2>3
<1>2. s \in Good
  <2> HIDE DEF Good
  <2>. QED
    BY <1>1, SetInduction
<1>. QED
  BY <1>2

LEMMA RuleExists ==
    ASSUME NEW S, IsFiniteSet(S), NEW f
    PROVE  \E g : SumRule(f, S, g)
<1> DEFINE Good == {T \in SUBSET S : \E g : SumRule(f, T, g)}
<1>1. ASSUME NEW T \in SUBSET S, \A U \in SUBSET T : U # T => U \in Good
      PROVE  T \in Good
  <2> DEFINE G(U) == CHOOSE g : SumRule(f, U, g)
             rest(s) == s \ {Chosen(s)}
             h == [s \in SUBSET T |-> IF s = {} THEN 0 ELSE f[Chosen(s)] + G(rest(s))[rest(s)]]
  <2>1. \A U \in SUBSET T : U # T => SumRule(f, U, G(U))
    BY <1>1
  <2>2. ASSUME NEW s \in SUBSET T, s # T
        PROVE  h[s] = G(s)[s]
    <3> HIDE DEF G
    <3>1. SumRule(f, s, G(s))
      BY <2>1, <2>2
    <3>2. G(s)[s] = IF s = {} THEN 0 ELSE f[Chosen(s)] + G(s)[rest(s)]
      BY <3>1 DEF SumRule
    <3>3. CASE s # {}
      <4>1. rest(s) \in SUBSET T /\ rest(s) # T /\ rest(s) \subseteq s
        BY <3>3, ChosenIn
      <4>2. IsFiniteSet(rest(s))
        BY <4>1, FS_Subset
      <4>3. SumRule(f, rest(s), G(rest(s)))
        BY <2>1, <4>1
      <4>4. G(s)[rest(s)] = G(rest(s))[rest(s)]
        <5> HIDE DEF rest
        <5>. QED
          BY <3>1, <4>1, <4>2, <4>3, RuleUnique
      <4>. QED
        BY <3>2, <3>3, <4>4
    <3>. QED
      BY <3>2, <3>3
  <2>3. ASSUME NEW s \in SUBSET T, s # {}
        PROVE  h[s] = f[Chosen(s)] + h[rest(s)]
    <3>1. rest(s) \in SUBSET T /\ rest(s) # T
      BY <2>3, ChosenIn
    <3>2. h[rest(s)] = G(rest(s))[rest(s)]
      <4> HIDE DEF h, G, rest
      <4>. QED
        BY <2>2, <3>1
    <3>. QED
      BY <2>3, <3>2
  <2>4. h = [s \in SUBSET T |-> IF s = {} THEN 0 ELSE f[Chosen(s)] + h[rest(s)]]
    <3>1. ASSUME NEW s \in SUBSET T
          PROVE  h[s] = IF s = {} THEN 0 ELSE f[Chosen(s)] + h[rest(s)]
      <4>1. CASE s = {}
        BY <4>1
      <4>2. CASE s # {}
        <5> HIDE DEF h, rest
        <5>. QED
          BY <2>3, <4>2
      <4>. QED
        BY <4>1, <4>2
    <3>2. h = [s \in SUBSET T |-> h[s]]
      OBVIOUS
    <3> HIDE DEF h, rest
    <3>. QED
      BY <3>1, <3>2
  <2>5. SumRule(f, T, h)
    BY <2>4 DEF SumRule
  <2>. QED
    BY <2>5
<1>2. S \in Good
  <2> HIDE DEF Good
  <2>. QED
    BY <1>1, SetInduction
<1>. QED
  BY <1>2

\* A sum takes its set apart one element at a time.
LEMMA SumStep ==
    ASSUME NEW S, IsFiniteSet(S), NEW f
    PROVE  SumFunctionOnSet(f, S) =
             IF S = {} THEN 0
             ELSE f[Chosen(S)] + SumFunctionOnSet(f, S \ {Chosen(S)})
<1> DEFINE G(U) == CHOOSE g : SumRule(f, U, g)
           R == S \ {Chosen(S)}
<1>1. IsFiniteSet(R) /\ R \subseteq S
  BY FS_Subset
<1>2. SumRule(f, S, G(S)) /\ SumRule(f, R, G(R))
  BY <1>1, RuleExists
<1>3. SumFunctionOnSet(f, S) = G(S)[S] /\ SumFunctionOnSet(f, R) = G(R)[R]
  BY SumIsFold
<1> HIDE DEF G
<1>4. G(S)[R] = G(R)[R]
  BY <1>1, <1>2, RuleUnique
<1>5. G(S)[S] = IF S = {} THEN 0 ELSE f[Chosen(S)] + G(S)[R]
  BY <1>2 DEF SumRule
<1>. QED
  BY <1>3, <1>4, <1>5

LEMMA SumType ==
    ASSUME NEW D, NEW f \in [D -> Nat], NEW S \in SUBSET D, IsFiniteSet(S)
    PROVE  SumFunctionOnSet(f, S) \in Nat
<1> DEFINE Good == {T \in SUBSET S : SumFunctionOnSet(f, T) \in Nat}
<1>1. ASSUME NEW T \in SUBSET S, \A U \in SUBSET T : U # T => U \in Good
      PROVE  T \in Good
  <2>1. IsFiniteSet(T)
    BY FS_Subset
  <2>2. CASE T = {}
    BY <2>1, <2>2, SumStep
  <2>3. CASE T # {}
    <3>1. Chosen(T) \in T
      BY <2>3, ChosenIn
    <3>2. SumFunctionOnSet(f, T \ {Chosen(T)}) \in Nat /\ f[Chosen(T)] \in Nat
      BY <1>1, <3>1
    <3>3. SumFunctionOnSet(f, T) = f[Chosen(T)] + SumFunctionOnSet(f, T \ {Chosen(T)})
      BY <2>1, <2>3, SumStep
    <3>. QED
      BY <3>2, <3>3
  <2>. QED
    BY <2>2, <2>3
<1>2. S \in Good
  <2> HIDE DEF Good
  <2>. QED
    BY <1>1, SetInduction
<1>. QED
  BY <1>2

\* Two functions on D that differ at x at most.
DifferAt(x, D, f, g) == \A y \in D : y # x => g[y] = f[y]

\* A change of one term changes the sums it is in, and no other.
LEMMA SumUpdate ==
    ASSUME NEW D, NEW f \in [D -> Nat], NEW S \in SUBSET D, IsFiniteSet(S),
           NEW x \in D, NEW g, NEW v \in Nat, g[x] = v, DifferAt(x, D, f, g)
    PROVE  /\ x \in S => SumFunctionOnSet(g, S) = SumFunctionOnSet(f, S) - f[x] + v
           /\ x \notin S => SumFunctionOnSet(g, S) = SumFunctionOnSet(f, S)
<1> DEFINE Moved(T) == IF x \in T THEN SumFunctionOnSet(f, T) - f[x] + v
                       ELSE SumFunctionOnSet(f, T)
           Good == {T \in SUBSET S : SumFunctionOnSet(g, T) = Moved(T)}
<1>0. g[x] = v /\ \A y \in D : y # x => g[y] = f[y]
  BY DEF DifferAt
<1>1. ASSUME NEW T \in SUBSET S, \A U \in SUBSET T : U # T => U \in Good
      PROVE  T \in Good
  <2>1. IsFiniteSet(T)
    BY FS_Subset
  <2>2. CASE T = {}
    BY <2>1, <2>2, SumStep
  <2>3. CASE T # {}
    <3> DEFINE c == Chosen(T)
               R == T \ {c}
    <3>1. c \in T /\ c \in D /\ R \in SUBSET S /\ R # T
      BY <2>3, ChosenIn
    <3>2. SumFunctionOnSet(g, R) = Moved(R)
      BY <1>1, <3>1
    <3>3. SumFunctionOnSet(f, R) \in Nat /\ f[c] \in Nat /\ f[x] \in Nat
      <4>1. IsFiniteSet(R) /\ R \in SUBSET D
        BY <3>1, FS_Subset
      <4>. QED
        BY <3>1, <4>1, SumType
    <3>4. /\ SumFunctionOnSet(f, T) = f[c] + SumFunctionOnSet(f, R)
          /\ SumFunctionOnSet(g, T) = g[c] + SumFunctionOnSet(g, R)
      BY <2>1, <2>3, SumStep
    <3>5. CASE c = x
      <4>1. x \in T /\ x \notin R
        BY <3>1, <3>5
      <4>2. g[c] = v
        BY <1>0, <3>5
      <4>3. SumFunctionOnSet(g, R) = SumFunctionOnSet(f, R)
        BY <3>2, <4>1
      <4> HIDE DEF c, R
      <4>4. SumFunctionOnSet(g, T) = SumFunctionOnSet(f, T) - f[x] + v
        BY <3>3, <3>4, <3>5, <4>2, <4>3
      <4>. QED
        BY <4>1, <4>4
    <3>6. CASE c # x
      <4>1. g[c] = f[c]
        BY <1>0, <3>1, <3>6
      <4>2. x \in T <=> x \in R
        BY <3>6
      <4>3. SumFunctionOnSet(g, T) = f[c] + Moved(R)
        BY <3>2, <3>4, <4>1
      <4> HIDE DEF c, R
      <4>. QED
        BY <3>3, <3>4, <4>2, <4>3
    <3>. QED
      BY <3>5, <3>6
  <2>. QED
    BY <2>2, <2>3
<1>2. S \in Good
  <2> HIDE DEF Good
  <2>. QED
    BY <1>1, SetInduction
<1>. QED
  BY <1>2

\* A sum of zeros, and a sum with a bounded number of bounded terms.
LEMMA SumBound ==
    ASSUME NEW D, NEW f \in [D -> Nat], NEW S \in SUBSET D, IsFiniteSet(S),
           NEW A, NEW b \in Nat,
           \A x \in S : f[x] <= b /\ (x \notin A => f[x] = 0)
    PROVE  /\ Cardinality(S \cap A) \in Nat
           /\ SumFunctionOnSet(f, S) <= b * Cardinality(S \cap A)
<1> DEFINE Good == {T \in SUBSET S : /\ Cardinality(T \cap A) \in Nat
                                     /\ SumFunctionOnSet(f, T) <= b * Cardinality(T \cap A)}
<1>1. ASSUME NEW T \in SUBSET S, \A U \in SUBSET T : U # T => U \in Good
      PROVE  T \in Good
  <2>1. IsFiniteSet(T)
    BY FS_Subset
  <2>2. CASE T = {}
    <3>1. Cardinality(T \cap A) = 0
      BY <2>2, FS_EmptySet
    <3>2. SumFunctionOnSet(f, T) = 0
      BY <2>1, <2>2, SumStep
    <3>3. b * 0 = 0
      OBVIOUS
    <3>. QED
      BY <3>1, <3>2, <3>3
  <2>3. CASE T # {}
    <3> DEFINE c == Chosen(T)
               R == T \ {c}
    <3>1. c \in T /\ c \in D /\ R \in SUBSET S /\ R # T
      BY <2>3, ChosenIn
    <3>2. /\ Cardinality(R \cap A) \in Nat
          /\ SumFunctionOnSet(f, R) <= b * Cardinality(R \cap A)
      BY <1>1, <3>1
    <3>3. IsFiniteSet(R) /\ R \in SUBSET D /\ IsFiniteSet(R \cap A)
      BY <3>1, FS_Subset
    <3>4. SumFunctionOnSet(f, R) \in Nat /\ f[c] \in Nat /\ f[c] <= b
      BY <3>1, <3>3, SumType
    <3>5. SumFunctionOnSet(f, T) = f[c] + SumFunctionOnSet(f, R)
      BY <2>1, <2>3, SumStep
    <3>6. CASE c \in A
      <4>1. T \cap A = (R \cap A) \union {c} /\ c \notin R \cap A
        BY <3>1, <3>6
      <4>2. Cardinality(T \cap A) = Cardinality(R \cap A) + 1
        BY <3>3, <4>1, FS_AddElement
      <4> DEFINE k == Cardinality(R \cap A)
      <4>3. b * (k + 1) = b * k + b /\ b * k \in Nat
        <5> HIDE DEF k, R
        <5>. QED
          BY <3>2, Z3 DEF k
      <4>4. SumFunctionOnSet(f, T) <= b * (k + 1)
        <5> HIDE DEF c, R, k
        <5>1. SumFunctionOnSet(f, R) <= b * k
          BY <3>2 DEF k
        <5>. QED
          BY <3>4, <3>5, <4>3, <5>1
      <4>5. Cardinality(T \cap A) \in Nat /\ SumFunctionOnSet(f, T) <= b * Cardinality(T \cap A)
        BY <3>2, <4>2, <4>4
      <4>. QED
        BY <4>5
    <3>7. CASE c \notin A
      <4>1. T \cap A = R \cap A /\ f[c] = 0
        BY <3>1, <3>7
      <4>2. SumFunctionOnSet(f, T) = SumFunctionOnSet(f, R)
        <5> HIDE DEF c, R
        <5>. QED
          BY <3>4, <3>5, <4>1
      <4>3. Cardinality(T \cap A) \in Nat /\ SumFunctionOnSet(f, T) <= b * Cardinality(T \cap A)
        BY <3>2, <4>1, <4>2
      <4>. QED
        BY <4>3
    <3>. QED
      BY <3>6, <3>7
  <2>. QED
    BY <2>2, <2>3
<1>2. S \in Good
  <2> HIDE DEF Good
  <2>. QED
    BY <1>1, SetInduction
<1>. QED
  BY <1>2

-----------------------------------------------------------------------------
\* What the exchange may be owed for a window

ContractsOf(w) == {t \in Tickers : WindowOf[t] = w}

\* Cents of the order the call under way is about to book.
Unbooked(w) == IF pc = "book" /\ Booked(ack) /\ req.window = w THEN dec.stake ELSE 0

\* The order under way costs what its decision says, and fits in the stake and in
\* the budget left.
Priced ==
    /\ pc \in {"post", "book"} => dec.stake = dec.count * dec.limit
    /\ pc = "post" => /\ dec.stake <= Remaining(req, book, Cfg)
                      /\ dec.stake <= Stake(req, book, Cfg)

\* The committed cents of a window that still runs cover what the exchange took of
\* it, but for the order that is about to be booked.
Covered ==
    pc # "down" => \A w \in Windows : w >= clock => SpentIn(w) <= book.committed[w] + Unbooked(w)

PriceInv ==
    /\ \A t \in Tickers \ accepted : cost[t] = 0
    /\ book.bankroll = Bankroll
    /\ Priced

LEMMA SpentType ==
    ASSUME TypeOK, NEW w \in Windows
    PROVE  /\ SpentIn(w) = SumFunctionOnSet(cost, ContractsOf(w))
           /\ ContractsOf(w) \in SUBSET Tickers /\ IsFiniteSet(ContractsOf(w))
           /\ cost \in [Tickers -> Nat]
           /\ SpentIn(w) \in Nat
<1>1. /\ SpentIn(w) = SumFunctionOnSet(cost, ContractsOf(w))
      /\ ContractsOf(w) \in SUBSET Tickers /\ cost \in [Tickers -> Nat]
  BY DEF SpentIn, ContractsOf, TypeOK
<1>2. IsFiniteSet(ContractsOf(w))
  BY <1>1, TickersFinite
<1>. QED
  BY <1>1, <1>2, SumType

\* Nothing is owed for a window of which nothing was taken.
LEMMA NothingSpent ==
    ASSUME TypeOK, PriceInv, NEW w \in Windows, InWindow(accepted, w) = {}
    PROVE  SpentIn(w) = 0
<1> DEFINE S == ContractsOf(w)
<1>1. \A t \in S : cost[t] <= 0 /\ (t \notin {} => cost[t] = 0)
  BY DEF PriceInv, ContractsOf, InWindow
<1>2. SumFunctionOnSet(cost, S) <= 0 * Cardinality(S \cap {}) /\ Cardinality(S \cap {}) \in Nat
  <2> HIDE DEF S
  <2>. QED
    BY <1>1, SpentType, SumBound DEF S
<1>. QED
  BY <1>2, SpentType

\* An accepted entry adds its cost to its own window, and to no other.
LEMMA AcceptSpends ==
    ASSUME Inv, CapInv, PriceInv, PostAccepted, NEW w \in Windows
    PROVE  SpentIn(w)' = SpentIn(w) + (IF w = req.window THEN dec.stake ELSE 0)
<1> DEFINE t == req.ticker
<1>1. /\ t \in Tickers /\ req.window = WindowOf[t] /\ pc = "post"
      /\ dec.limit \in Nat /\ dec.count \in Nat /\ dec.stake = dec.count * dec.limit
  BY PickType DEF PostAccepted, Inv, TypeOK, Decisions, PriceInv, Priced
<1>2. dec.limit * dec.count = dec.stake /\ dec.stake \in Nat
  BY <1>1
<1>3. cost[t] = 0 /\ cost' = [cost EXCEPT ![t] = dec.stake]
  BY <1>1, <1>2 DEF PostAccepted, CapInv, PriceInv
<1>4. SpentIn(w)' = SumFunctionOnSet(cost', ContractsOf(w))
  BY DEF SpentIn, ContractsOf
<1>5. /\ SpentIn(w) = SumFunctionOnSet(cost, ContractsOf(w)) /\ SpentIn(w) \in Nat
      /\ ContractsOf(w) \in SUBSET Tickers /\ IsFiniteSet(ContractsOf(w))
      /\ cost \in [Tickers -> Nat]
  BY SpentType DEF Inv
<1>6. /\ t \in ContractsOf(w) =>
            SumFunctionOnSet(cost', ContractsOf(w)) = SpentIn(w) - cost[t] + dec.stake
      /\ t \notin ContractsOf(w) => SumFunctionOnSet(cost', ContractsOf(w)) = SpentIn(w)
  <2> DEFINE S == ContractsOf(w)
             v == dec.stake
  <2> HIDE DEF t, S, v
  <2>1. S \in SUBSET Tickers /\ IsFiniteSet(S) /\ v \in Nat /\ t \in Tickers
    BY <1>1, <1>2, <1>5 DEF S, v
  <2>2. cost'[t] = v /\ DifferAt(t, Tickers, cost, cost') /\ cost \in [Tickers -> Nat]
    BY <1>3, <1>5, <2>1 DEF v, DifferAt
  <2>3. /\ t \in S => SumFunctionOnSet(cost', S) = SumFunctionOnSet(cost, S) - cost[t] + v
        /\ t \notin S => SumFunctionOnSet(cost', S) = SumFunctionOnSet(cost, S)
    BY <2>1, <2>2, SumUpdate
  <2>. QED
    BY <1>5, <2>3 DEF S, v
<1>7. t \in ContractsOf(w) <=> w = req.window
  BY <1>1 DEF ContractsOf
<1>. QED
  BY <1>2, <1>3, <1>4, <1>5, <1>6, <1>7

-----------------------------------------------------------------------------
\* The prices: what an order costs, and what is left when it is posted

LEMMA PruneBankroll ==
    ASSUME NEW s, NEW wk
    PROVE  PruneSettled(s, wk).bankroll = s.bankroll
BY DEF PruneSettled

LEMMA ExitMoney ==
    ASSUME NEW s, NEW t
    PROVE  ApplyExit(s, t).bankroll = s.bankroll /\ ApplyExit(s, t).committed = s.committed
BY DEF ApplyExit

LEMMA InitPrice == Init => PriceInv
BY DEF Init, PriceInv, Priced, EmptyBook

LEMMA FirePrice == ASSUME Inv, PriceInv, NEW p \in Picks, Fire(p) PROVE PriceInv'
<1> DEFINE s == PruneSettled(book, p.window)
           d == Decide(p, s, Cfg, env.kill)
<1>1. s \in Books /\ s.bankroll = book.bankroll
  BY PickType, PruneAgrees, PruneBankroll DEF Inv, TypeOK, BookAgrees
<1>2. d.place => /\ d.stake = d.count * d.limit
                 /\ d.stake <= Remaining(p, s, Cfg)
                 /\ d.stake <= Stake(p, s, Cfg)
  BY <1>1, PickType, OrderWithinBounds
<1> HIDE DEF s, d
<1>3. /\ pc = "idle" /\ book' = s
      /\ \/ pc' = "post" /\ req' = p /\ dec' = d /\ d.place
         \/ pc' = "idle"
      /\ UNCHANGED <<accepted, cost>>
  BY DEF Fire, exchange, s, d
<1>. QED
  BY <1>1, <1>2, <1>3 DEF PriceInv, Priced

LEMMA PostPrice ==
    ASSUME Inv, PriceInv, PostSimulated \/ PostAccepted \/ PostNotAccepted
    PROVE  PriceInv'
<1> USE DEF exchange
<1>1. /\ pc = "post" /\ pc' = "book" /\ UNCHANGED <<book, req, dec>>
  BY DEF PostSimulated, PostAccepted, PostNotAccepted
<1>2. \A t \in Tickers \ accepted' : cost'[t] = 0
  <2>1. CASE PostAccepted
    BY <2>1 DEF PostAccepted, PriceInv, Inv, TypeOK
  <2>2. CASE PostSimulated \/ PostNotAccepted
    BY <2>2 DEF PostSimulated, PostNotAccepted, PriceInv
  <2>. QED
    BY <2>1, <2>2
<1>. QED
  BY <1>1, <1>2 DEF PriceInv, Priced

LEMMA BookPrice ==
    ASSUME Inv, PriceInv, BookEntry \/ BookExit \/ Boot \/ Stop
    PROVE  PriceInv'
<1> USE DEF exchange
<1>1. UNCHANGED <<accepted, cost>> /\ pc' \in {"idle", "down"}
  BY DEF BookEntry, BookExit, Boot, Stop, Return
<1>2. book'.bankroll = Bankroll
  <2>1. CASE BookEntry
    BY <2>1 DEF BookEntry, ApplyFill, PriceInv
  <2>2. CASE BookExit
    BY <2>2, ExitMoney DEF BookExit, PriceInv
  <2>3. CASE Boot \/ Stop
    BY <2>3 DEF Boot, Stop, Rehydrated, EmptyBook
  <2>. QED
    BY <2>1, <2>2, <2>3
<1>. QED
  BY <1>1, <1>2 DEF PriceInv, Priced

LEMMA OtherPrice ==
    ASSUME Inv, PriceInv,
           \/ \E t \in Tickers : ExitBegin(t) \/ FillResting(t)
           \/ ExitCancel \/ ExitSell \/ NextWindow \/ FlipSwitch
    PROVE  PriceInv'
<1> USE DEF exchange, process
<1>1. CASE (\E t \in Tickers : ExitBegin(t)) \/ ExitCancel \/ ExitSell
  <2>1. pc' \in {"idle", "cancel", "sell", "flat"} /\ UNCHANGED <<accepted, cost, book>>
    BY <1>1 DEF ExitBegin, ExitCancel, ExitSell, Return
  <2>. QED
    BY <2>1 DEF PriceInv, Priced
<1>2. CASE (\E t \in Tickers : FillResting(t)) \/ NextWindow \/ FlipSwitch
  <2>1. UNCHANGED <<accepted, cost, book, pc, req, dec>>
    BY <1>2 DEF FillResting, NextWindow, FlipSwitch
  <2>. QED
    BY <2>1 DEF PriceInv, Priced
<1>. QED
  BY <1>1, <1>2

LEMMA StepPrice == Inv /\ PriceInv /\ [Next]_vars => PriceInv'
<1> SUFFICES ASSUME Inv, PriceInv, [Next]_vars PROVE PriceInv'
  OBVIOUS
<1>1. CASE Next
  BY <1>1, FirePrice, PostPrice, BookPrice, OtherPrice DEF Next
<1>2. CASE UNCHANGED vars
  BY <1>2 DEF vars, process, exchange, PriceInv, Priced
<1>. QED
  BY <1>1, <1>2

LEMMA PriceInvariance == Spec => [](Inv /\ PriceInv)
BY Invariance, InitPrice, StepPrice, PTL DEF Spec

-----------------------------------------------------------------------------
\* The committed cents of a window, in a process that is not restarted

LEMMA SameCosts ==
    ASSUME cost' = cost, NEW w
    PROVE  SpentIn(w)' = SpentIn(w)
BY DEF SpentIn

LEMMA PruneCommitted ==
    ASSUME NEW s \in Books, NEW wk \in Windows, NEW w \in Windows, w >= wk,
           s.windowTickers[w] # {}
    PROVE  PruneSettled(s, wk).committed[w] = s.committed[w]
<1> DEFINE keep == RunningWindows(s, wk)
<1>1. w \in keep
  BY DEF RunningWindows, KnownWindows
<1>2. CASE keep = KnownWindows(s)
  BY <1>2 DEF PruneSettled
<1>3. CASE keep # KnownWindows(s)
  <2>1. PruneSettled(s, wk).committed = [v \in Windows |-> IF v \in keep THEN s.committed[v] ELSE 0]
    BY <1>3 DEF PruneSettled
  <2>. QED
    BY <1>1, <2>1
<1>. QED
  BY <1>2, <1>3

LEMMA MoneyType ==
    ASSUME Inv, NEW w \in Windows
    PROVE  SpentIn(w) \in Nat /\ book.committed[w] \in Nat /\ dec.stake \in Nat
BY SpentType DEF Inv, TypeOK, Books, Decisions

LEMMA InitCovered == Init => Covered
BY DEF Init, Covered

\* Before the first boot nothing was taken, so an empty portfolio covers it.
LEMMA FirstBootCovered ==
    ASSUME Inv, PriceInv, NothingBeforeBoot, Boot
    PROVE  Covered'
<1>1. pc = "down" /\ pc' = "idle" /\ cost' = cost /\ clock' = clock /\ accepted = {}
  BY DEF Boot, exchange, NothingBeforeBoot
<1>2. ASSUME NEW w \in Windows PROVE SpentIn(w)' = 0 /\ book'.committed[w] = 0
  <2>1. InWindow(accepted, w) = {}
    BY <1>1 DEF InWindow
  <2>2. SpentIn(w)' = 0
    BY <1>1, <2>1, SameCosts, NothingSpent DEF Inv
  <2>. QED
    BY <2>2 DEF Boot, Rehydrated
<1>. QED
  BY <1>1, <1>2 DEF Covered, Unbooked

LEMMA FireCovered ==
    ASSUME Inv, CapInv, PriceInv, Covered, NEW p \in Picks, Fire(p)
    PROVE  Covered'
<1> DEFINE s == PruneSettled(book, p.window)
<1>1. /\ pc = "idle" /\ pc' \in {"idle", "post"} /\ p.window = clock /\ book' = s
      /\ clock' = clock /\ cost' = cost /\ p.window \in Windows /\ book \in Books
  BY PickType DEF Fire, exchange, Inv, TypeOK
<1>2. ASSUME NEW w \in Windows, w >= clock
      PROVE  SpentIn(w) <= s.committed[w]
  <2>1. SpentIn(w) <= book.committed[w]
    BY <1>1, <1>2, MoneyType DEF Covered, Unbooked
  <2>2. CASE book.windowTickers[w] # {}
    BY <1>1, <1>2, <2>1, <2>2, PruneCommitted
  <2>3. CASE book.windowTickers[w] = {}
    <3>1. InWindow(accepted, w) = {}
      BY <1>1, <1>2, <2>3 DEF CapInv, InFlight
    <3>2. SpentIn(w) = 0
      BY <3>1, NothingSpent DEF Inv
    <3>3. s.committed[w] \in Nat
      <4>1. s \in Books
        BY <1>1, PruneAgrees DEF Inv, BookAgrees
      <4>. QED
        BY <4>1 DEF Books
    <3>. QED
      BY <3>2, <3>3
  <2>. QED
    BY <2>2, <2>3
<1> HIDE DEF s
<1>3. ASSUME NEW w \in Windows PROVE Unbooked(w)' = 0
  BY <1>1 DEF Unbooked
<1>4. ASSUME NEW w \in Windows, w >= clock PROVE s.committed[w] + 0 = s.committed[w]
  <2>1. s \in Books
    BY <1>1, PruneAgrees DEF Inv, BookAgrees, s
  <2>. QED
    BY <2>1 DEF Books
<1>. QED
  BY <1>1, <1>2, <1>3, <1>4, SameCosts DEF Covered

LEMMA PostCovered ==
    ASSUME ErrorsRefuse, Inv, CapInv, PriceInv, Covered,
           PostSimulated \/ PostAccepted \/ PostNotAccepted
    PROVE  Covered'
<1>1. /\ pc = "post" /\ pc' = "book" /\ UNCHANGED <<book, req, dec, clock>>
  BY DEF PostSimulated, PostAccepted, PostNotAccepted
<1>2. ASSUME NEW w \in Windows, w >= clock
      PROVE  SpentIn(w)' <= book.committed[w] + Unbooked(w)'
  <2>1. SpentIn(w) <= book.committed[w] /\ Unbooked(w)' \in {0, dec.stake}
    BY <1>1, <1>2, MoneyType DEF Covered, Unbooked
  <2>2. CASE PostAccepted
    <3>1. Unbooked(w)' = IF w = req.window THEN dec.stake ELSE 0
      BY <1>1, <2>2 DEF Unbooked, PostAccepted, Misheard, ErrorsRefuse, Booked
    <3>2. SpentIn(w)' = SpentIn(w) + (IF w = req.window THEN dec.stake ELSE 0)
      BY <2>2, AcceptSpends
    <3>. QED
      BY <2>1, <3>1, <3>2, MoneyType
  <2>3. CASE PostSimulated \/ PostNotAccepted
    <3>1. SpentIn(w)' = SpentIn(w)
      BY <2>3, SameCosts DEF PostSimulated, PostNotAccepted, exchange
    <3>. QED
      BY <2>1, <3>1, MoneyType
  <2>. QED
    BY <2>2, <2>3
<1>. QED
  BY <1>1, <1>2 DEF Covered

LEMMA BookEntryCovered == ASSUME Inv, Covered, BookEntry PROVE Covered'
<1>1. /\ pc = "book" /\ pc' = "idle" /\ clock' = clock /\ cost' = cost
      /\ book' = IF Booked(ack) THEN ApplyFill(book, req, dec) ELSE book
      /\ req.window \in Windows /\ book.committed \in [Windows -> Nat]
  BY PickType DEF BookEntry, Return, exchange, Inv, TypeOK, Books
<1>2. ASSUME NEW w \in Windows
      PROVE  book'.committed[w] = book.committed[w] + Unbooked(w)
  BY <1>1, MoneyType DEF Unbooked, ApplyFill
<1>3. ASSUME NEW w \in Windows PROVE Unbooked(w)' = 0 /\ book'.committed[w] \in Nat
  BY <1>1, <1>2, MoneyType DEF Unbooked
<1>. QED
  BY <1>1, <1>2, <1>3, SameCosts DEF Covered

LEMMA OtherCovered ==
    ASSUME Inv, Covered,
           \/ \E t \in Tickers : ExitBegin(t) \/ FillResting(t)
           \/ ExitCancel \/ ExitSell \/ BookExit \/ NextWindow \/ FlipSwitch \/ Stop
    PROVE  Covered'
<1> USE DEF exchange, process
<1>1. cost' = cost
  BY DEF ExitBegin, FillResting, ExitCancel, ExitSell, BookExit, NextWindow, FlipSwitch, Stop
<1>2. CASE (\E t \in Tickers : ExitBegin(t)) \/ ExitCancel \/ ExitSell \/ BookExit
  <2>1. /\ pc \in {"idle", "cancel", "sell", "flat"} /\ pc' \in {"idle", "cancel", "sell", "flat"}
        /\ clock' = clock
    BY <1>2 DEF ExitBegin, ExitCancel, ExitSell, BookExit, Return
  <2>2. book'.committed = book.committed
    BY <1>2, ExitMoney DEF ExitBegin, ExitCancel, ExitSell, BookExit
  <2>3. \A w \in Windows : Unbooked(w) = 0 /\ Unbooked(w)' = 0
    BY <2>1 DEF Unbooked
  <2>. QED
    BY <1>1, <2>1, <2>2, <2>3, SameCosts DEF Covered
<1>3. CASE (\E t \in Tickers : FillResting(t)) \/ NextWindow \/ FlipSwitch
  <2>1. UNCHANGED <<book, pc, req, dec, ack>> /\ clock' \in {clock, clock + 1}
    BY <1>3 DEF FillResting, NextWindow, FlipSwitch
  <2>2. clock \in Nat /\ Windows \subseteq Nat
    BY WindowsAssumption DEF Inv, TypeOK
  <2>3. \A w \in Windows : (w >= clock' => w >= clock) /\ Unbooked(w)' = Unbooked(w)
    BY <2>1, <2>2 DEF Unbooked
  <2>. QED
    BY <1>1, <2>1, <2>3, SameCosts DEF Covered
<1>4. CASE Stop
  BY <1>4 DEF Stop, Covered
<1>. QED
  BY <1>2, <1>3, <1>4

LEMMA StepCovered ==
    ErrorsRefuse /\ Inv /\ CapInv /\ NothingBeforeBoot /\ PriceInv /\ Covered /\ [Next]_vars
        => Covered'
<1> SUFFICES ASSUME ErrorsRefuse, Inv, CapInv, NothingBeforeBoot, PriceInv, Covered, [Next]_vars
             PROVE  Covered'
  OBVIOUS
<1>1. CASE Next
  BY <1>1, FirstBootCovered, FireCovered, PostCovered, BookEntryCovered, OtherCovered DEF Next
<1>2. CASE UNCHANGED vars
  <2>1. UNCHANGED <<pc, req, dec, ack, clock, book, cost>>
    BY <1>2 DEF vars, process, exchange
  <2>2. \A w \in Windows : Unbooked(w)' = Unbooked(w)
    BY <2>1 DEF Unbooked
  <2>. QED
    BY <2>1, <2>2, SameCosts DEF Covered
<1>. QED
  BY <1>1, <1>2

LEMMA RunningMoney == OneProcess => (Spec => [](Inv /\ CapInv /\ PriceInv /\ Covered))
<1> SUFFICES ASSUME OneProcess PROVE Spec => [](Inv /\ CapInv /\ PriceInv /\ Covered)
  OBVIOUS
<1>1. Inv /\ CapInv /\ NothingBeforeBoot /\ [Next]_vars => CapInv' /\ NothingBeforeBoot'
  BY StepCap
<1>2. Init => CapInv /\ NothingBeforeBoot /\ Covered
  BY InitCap, InitCovered
<1>3. Inv /\ CapInv /\ NothingBeforeBoot /\ PriceInv /\ Covered /\ [Next]_vars => Covered'
  BY StepCovered DEF OneProcess
<1>. QED
  BY <1>1, <1>2, <1>3, PriceInvariance, PTL DEF Spec

\* In a process that is not restarted, between calls the portfolio knows every
\* entry the exchange took for a window that still runs, and the window's
\* committed cents are at least what those entries can cost - whatever answers were
\* lost, did not parse or could not be stored (on_fire, apply_fill, prune_settled).
THEOREM WhatWasTakenIsBooked == OneProcess => (Spec => []ExchangeIsBooked)
<1> SUFFICES ASSUME OneProcess PROVE Spec => []ExchangeIsBooked
  OBVIOUS
<1>1. Inv /\ CapInv /\ Covered => ExchangeIsBooked
  <2> SUFFICES ASSUME Inv, CapInv, Covered, pc \notin {"down", "book"},
                      NEW w \in Windows, w >= clock
               PROVE  /\ InWindow(accepted, w) \subseteq book.windowTickers[w]
                      /\ SpentIn(w) <= book.committed[w]
    BY DEF ExchangeIsBooked
  <2>. QED
    BY MoneyType DEF CapInv, InFlight, Covered, Unbooked
<1>. QED
  BY <1>1, RunningMoney, PTL

-----------------------------------------------------------------------------
\* The spend of a window: the window's budget, and what is left of it by restarts

\* No window's entries can cost more than b cents.
SpendsAtMost(b) == \A w \in Windows : SpentIn(w) <= b

\* b cents bound the window budget, or the stake, of every pick at this bankroll.
BudgetWithin(b) ==
    b \in Nat /\ \A p \in Picks, s \in Books : s.bankroll = Bankroll => WindowBudget(p, s, Cfg) <= b
StakeWithin(b) ==
    b \in Nat /\ \A p \in Picks, s \in Books : s.bankroll = Bankroll => Stake(p, s, Cfg) <= b

\* Nothing but an accepted entry costs anything.
LEMMA OnlyAcceptsCost == Next /\ cost' # cost => PostAccepted
<1> SUFFICES ASSUME Next, ~PostAccepted PROVE cost' = cost
  OBVIOUS
<1> USE DEF exchange, process
<1>1. CASE Boot \/ PostSimulated \/ PostNotAccepted \/ BookEntry
  BY <1>1 DEF Boot, PostSimulated, PostNotAccepted, BookEntry
<1>2. CASE ExitCancel \/ ExitSell \/ BookExit \/ NextWindow \/ FlipSwitch \/ Stop
  BY <1>2 DEF ExitCancel, ExitSell, BookExit, NextWindow, FlipSwitch, Stop
<1>3. ASSUME NEW p \in Picks, Fire(p) PROVE cost' = cost
  BY <1>3 DEF Fire
<1>4. ASSUME NEW t \in Tickers, ExitBegin(t) \/ FillResting(t) PROVE cost' = cost
  BY <1>4 DEF ExitBegin, FillResting
<1>. QED
  BY <1>1, <1>2, <1>3, <1>4 DEF Next

LEMMA InitSpend == ASSUME NEW b \in Nat, Init PROVE SpendsAtMost(b)
<1>1. TypeOK /\ PriceInv
  BY InitInv, InitPrice DEF Inv
<1>2. \A w \in Windows : InWindow(accepted, w) = {}
  BY DEF Init, InWindow
<1>. QED
  BY <1>1, <1>2, NothingSpent DEF SpendsAtMost

LEMMA StepSpend ==
    ASSUME NEW b, BudgetWithin(b)
    PROVE  Inv /\ CapInv /\ PriceInv /\ Covered /\ SpendsAtMost(b) /\ [Next]_vars
             => SpendsAtMost(b)'
<1> SUFFICES ASSUME Inv, CapInv, PriceInv, Covered, SpendsAtMost(b), [Next]_vars,
                    NEW w \in Windows
             PROVE  SpentIn(w)' <= b
  BY DEF SpendsAtMost
<1>1. SpentIn(w) <= b
  BY DEF SpendsAtMost
<1>2. CASE cost' = cost
  BY <1>1, <1>2, SameCosts
<1>3. CASE cost' # cost
  <2>1. PostAccepted
    BY <1>3, OnlyAcceptsCost DEF vars, exchange
  <2>2. SpentIn(w)' = SpentIn(w) + (IF w = req.window THEN dec.stake ELSE 0)
    BY <2>1, AcceptSpends
  <2>3. CASE w # req.window
    BY <1>1, <2>2, <2>3, MoneyType
  <2>4. CASE w = req.window
    <3>1. /\ pc = "post" /\ req \in Picks /\ book \in Books /\ book.bankroll = Bankroll
          /\ w = clock /\ w \in Nat
      BY <2>1, <2>4, PickType, WindowsAssumption
         DEF PostAccepted, Open, Inv, TypeOK, PriceInv
    <3>2. SpentIn(w) <= book.committed[w]
      BY <3>1, MoneyType DEF Covered, Unbooked
    <3>3. dec.stake <= WindowBudget(req, book, Cfg) - book.committed[w]
      BY <2>4, <3>1 DEF PriceInv, Priced, Remaining
    <3>4. WindowBudget(req, book, Cfg) \in Int /\ WindowBudget(req, book, Cfg) <= b /\ b \in Nat
      BY <3>1, PickType, StakeBounds DEF BudgetWithin
    <3>. QED
      BY <2>2, <2>4, <3>2, <3>3, <3>4, MoneyType
  <2>. QED
    BY <2>3, <2>4
<1>. QED
  BY <1>2, <1>3

\* In a process that is not restarted no window's entries can cost more than the
\* largest budget decide() gives a pick, whichever way the stakes are sized.
THEOREM SpendWithinBudget ==
    ASSUME NEW b, OneProcess, BudgetWithin(b)
    PROVE  Spec => []SpendsAtMost(b)
<1>1. Init => SpendsAtMost(b)
  BY InitSpend DEF BudgetWithin
<1>2. Inv /\ CapInv /\ PriceInv /\ Covered /\ SpendsAtMost(b) /\ [Next]_vars => SpendsAtMost(b)'
  BY StepSpend
<1>. QED
  BY <1>1, <1>2, RunningMoney, PTL DEF Spec

\* Percentages of the bankroll, no flat or interval stake and no multiplier.
PercentSizing ==
    /\ Cfg.flatStake <= 0 /\ \A p \in Picks : Cfg.intervalStake[p.interval] <= 0
    /\ ~Cfg.convictionSizing \/ \A p \in Picks : p.multiplier <= 1
    /\ Cfg.maxPerWindowPct >= 0 /\ Bankroll >= 0

LEMMA PercentPositive ==
    ASSUME NEW pct \in Int, NEW amount \in Int, pct >= 0, amount >= 0
    PROVE  PercentOf(pct, amount) \in Nat
<1>1. pct * amount \in Nat
  BY Z3
<1>. QED
  BY <1>1 DEF PercentOf

\* Under percentage sizing the exchange is never owed more for one window than
\* max_per_window_pct of the bankroll (decide's window budget, on_fire's booking).
THEOREM WindowSpendHolds == OneProcess /\ PercentSizing => (Spec => []WindowSpend)
<1> SUFFICES ASSUME OneProcess, PercentSizing PROVE Spec => []WindowSpend
  OBVIOUS
<1> DEFINE b == PercentOf(Cfg.maxPerWindowPct, Bankroll)
<1>1. b \in Nat
  BY PercentPositive, ConfigAssumption DEF PercentSizing, IsConfig
<1>2. ASSUME NEW p \in Picks, NEW s \in Books, s.bankroll = Bankroll
      PROVE  WindowBudget(p, s, Cfg) = b
  <2>1. Multiplier(p, s, Cfg) = 1
    BY PickType DEF Multiplier, PercentSizing, IsPick
  <2>2. BaseBudget(p, s, Cfg) = b
    BY <1>2, PickType DEF BaseBudget, PercentSizing, IsPick, IsConfig
  <2> HIDE DEF b
  <2>3. b * 1 = b
    BY <1>1
  <2>. QED
    BY <2>1, <2>2, <2>3 DEF WindowBudget
<1>3. BudgetWithin(b)
  <2> HIDE DEF b
  <2>. QED
    BY <1>1, <1>2 DEF BudgetWithin
<1>4. SpendsAtMost(b) => WindowSpend
  BY DEF SpendsAtMost, WindowSpend
<1> HIDE DEF b
<1>5. /\ Init => SpendsAtMost(b)
      /\ Inv /\ CapInv /\ PriceInv /\ Covered /\ SpendsAtMost(b) /\ [Next]_vars => SpendsAtMost(b)'
  BY <1>1, <1>3, InitSpend, StepSpend
<1>6. Spec => []SpendsAtMost(b)
  BY <1>5, RunningMoney, PTL DEF Spec
<1>. QED
  BY <1>4, <1>6, PTL

-----------------------------------------------------------------------------
\* No accepted entry costs more than b cents.
CostsAtMost(b) == \A t \in Tickers : cost[t] <= b

LEMMA StepCosts ==
    ASSUME NEW b, StakeWithin(b)
    PROVE  Inv /\ PriceInv /\ CostsAtMost(b) /\ [Next]_vars => CostsAtMost(b)'
<1> SUFFICES ASSUME Inv, PriceInv, CostsAtMost(b), [Next]_vars PROVE CostsAtMost(b)'
  OBVIOUS
<1>1. CASE cost' = cost
  BY <1>1 DEF CostsAtMost
<1>2. CASE cost' # cost
  <2>1. PostAccepted
    BY <1>2, OnlyAcceptsCost DEF vars, exchange
  <2>2. /\ pc = "post" /\ req \in Picks /\ book \in Books /\ book.bankroll = Bankroll
        /\ dec.limit \in Nat /\ dec.count \in Nat /\ dec.stake = dec.count * dec.limit
        /\ dec.stake <= Stake(req, book, Cfg)
    BY <2>1 DEF PostAccepted, Inv, TypeOK, Decisions, PriceInv, Priced
  <2>3. dec.limit * dec.count = dec.stake /\ dec.stake \in Nat
    BY <2>2
  <2>4. dec.stake <= b
    <3>1. Stake(req, book, Cfg) \in Int /\ Stake(req, book, Cfg) <= b /\ b \in Nat
      BY <2>2, PickType, StakeBounds DEF StakeWithin
    <3>. QED
      BY <2>2, <2>3, <3>1
  <2>5. cost' = [cost EXCEPT ![req.ticker] = dec.stake] /\ cost \in [Tickers -> Nat]
    BY <2>1, <2>3 DEF PostAccepted, Inv, TypeOK
  <2>. QED
    BY <2>4, <2>5 DEF CostsAtMost
<1>. QED
  BY <1>1, <1>2

\* A window with at most max_picks entries costs at most that many stakes.
LEMMA FewCost ==
    ASSUME Inv, PriceInv, NEW b \in Nat, CostsAtMost(b), WindowCap
    PROVE  SpendsAtMost(b * Cfg.maxPicks)
<1> SUFFICES ASSUME NEW w \in Windows PROVE SpentIn(w) <= b * Cfg.maxPicks
  BY DEF SpendsAtMost
<1> DEFINE S == ContractsOf(w)
           n == Cardinality(S \cap accepted)
<1>1. \A t \in S : cost[t] <= b /\ (t \notin accepted => cost[t] = 0)
  BY DEF CostsAtMost, ContractsOf, PriceInv
<1>2. n \in Nat /\ SpentIn(w) <= b * n /\ SpentIn(w) \in Nat
  <2>1. /\ S \in SUBSET Tickers /\ IsFiniteSet(S) /\ cost \in [Tickers -> Nat]
        /\ SpentIn(w) = SumFunctionOnSet(cost, S) /\ SpentIn(w) \in Nat
    BY SpentType DEF Inv
  <2> HIDE DEF S
  <2>2. Cardinality(S \cap accepted) \in Nat
        /\ SumFunctionOnSet(cost, S) <= b * Cardinality(S \cap accepted)
    BY <1>1, <2>1, SumBound
  <2>. QED
    BY <2>1, <2>2
<1>3. n <= Cfg.maxPicks /\ Cfg.maxPicks \in Nat
  <2>1. S \cap accepted = InWindow(accepted, w)
    BY DEF ContractsOf, InWindow, Inv, TypeOK
  <2>. QED
    BY <2>1, ConfigAssumption DEF WindowCap, IsConfig
<1> HIDE DEF n
<1>4. b * n <= b * Cfg.maxPicks /\ b * n \in Nat /\ b * Cfg.maxPicks \in Nat
  <2> DEFINE m == Cfg.maxPicks
  <2>1. n <= m /\ m \in Nat
    BY <1>3
  <2> HIDE DEF m
  <2>2. b * n <= b * m /\ b * n \in Nat /\ b * m \in Nat
    BY <1>2, <2>1, Z3
  <2>. QED
    BY <2>2 DEF m
<1>. QED
  BY <1>2, <1>4

\* A restarted process forgets the cents committed to a window but not the picks,
\* so what is left of the window's budget is max_picks stakes: through any number
\* of restarts the exchange is never owed more for one window
\* (_rehydrate_window_cap restores window_pick_count alone).
THEOREM RestartsKeepPickSpend ==
    ASSUME NEW b, Orderly, StakeWithin(b)
    PROVE  Spec => []SpendsAtMost(b * Cfg.maxPicks)
<1>1. Init => CostsAtMost(b)
  BY DEF Init, CostsAtMost, StakeWithin
<1>2. Inv /\ PriceInv /\ CostsAtMost(b) /\ [Next]_vars => CostsAtMost(b)'
  BY StepCosts
<1>3. Inv /\ CapInv /\ RInv /\ PriceInv /\ CostsAtMost(b) => SpendsAtMost(b * Cfg.maxPicks)
  BY FewCost DEF CapInv, StakeWithin
<1>. QED
  BY <1>1, <1>2, <1>3, PriceInvariance, RestartInvariance, PTL DEF Spec

\* A flat stake in cents, no interval stake and no multiplier.
FlatSizing ==
    /\ Cfg.flatStake > 0 /\ \A p \in Picks : Cfg.intervalStake[p.interval] <= 0
    /\ ~Cfg.convictionSizing \/ \A p \in Picks : p.multiplier <= 1

\* With flat stakes that is the window's budget itself: a restart costs nothing.
THEOREM FlatSpendSurvivesRestarts ==
    Orderly /\ FlatSizing => (Spec => []SpendsAtMost(Cfg.flatStake * Cfg.maxPicks))
<1> SUFFICES ASSUME Orderly, FlatSizing
             PROVE  Spec => []SpendsAtMost(Cfg.flatStake * Cfg.maxPicks)
  OBVIOUS
<1>1. Cfg.flatStake \in Nat
  BY ConfigAssumption DEF FlatSizing, IsConfig
<1>2. ASSUME NEW p \in Picks, NEW s \in Books PROVE Stake(p, s, Cfg) <= Cfg.flatStake
  <2>1. Multiplier(p, s, Cfg) = 1
    BY PickType DEF Multiplier, FlatSizing, IsPick
  <2>2. BaseStake(p, s, Cfg) = Cfg.flatStake
    BY PickType DEF BaseStake, FlatSizing, IsPick, IsConfig
  <2>3. BaseStake(p, s, Cfg) * Multiplier(p, s, Cfg) = Cfg.flatStake
    BY <1>1, <2>1, <2>2
  <2>4. /\ Remaining(p, s, Cfg) \in Int /\ StakeCeiling(p, Cfg) \in Int /\ s.bankroll \in Int
    BY PickType, StakeBounds
  <2>. QED
    BY <1>1, <2>3, <2>4 DEF Stake, AtMost
<1> DEFINE b == Cfg.flatStake
<1>3. StakeWithin(b)
  BY <1>1, <1>2 DEF StakeWithin
<1> HIDE DEF b
<1>4. Init => CostsAtMost(b)
  BY <1>3 DEF Init, CostsAtMost, StakeWithin
<1>5. Inv /\ PriceInv /\ CostsAtMost(b) /\ [Next]_vars => CostsAtMost(b)'
  BY <1>3, StepCosts
<1>6. Inv /\ CapInv /\ RInv /\ PriceInv /\ CostsAtMost(b) => SpendsAtMost(Cfg.flatStake * Cfg.maxPicks)
  BY <1>3, FewCost DEF CapInv, StakeWithin, b
<1>. QED
  BY <1>4, <1>5, <1>6, PriceInvariance, RestartInvariance, PTL DEF Spec
=============================================================================
