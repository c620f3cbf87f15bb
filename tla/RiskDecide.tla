----------------------------- MODULE RiskDecide -----------------------------
(***************************************************************************)
(* The pure half of the real-money executor, q15_upgrade/executor/risk.py: *)
(* whether a fired pick is admitted, how many contracts it buys at what    *)
(* limit, and how a placed entry, a settled window and an exit change the  *)
(* in-memory portfolio.                                                    *)
(*                                                                         *)
(* Money is integer cents.  The probabilities and percentages the code     *)
(* holds as floats are whole percents here, and an absent reading (None)   *)
(* is NoSignal, below every threshold.  The dicts of PortfolioState are    *)
(* total functions whose default (0, {}) is the one the code's .get uses;  *)
(* no entry of those dicts ever holds its default, so nothing is lost.     *)
(* The refusal reason codes are left out: the guards have no side effects, *)
(* so their order shows only in the log line.                              *)
(*                                                                         *)
(* Operators named Bug... are seeded faults: each is a wrong version of    *)
(* the definition after it, and no definition uses one.                    *)
(***************************************************************************)
EXTENDS Integers, FiniteSets

CONSTANTS Tickers,     \* exchange contracts (one asset in one 15-minute window)
          Windows      \* settlement window keys

ASSUME WindowsAssumption == Windows \subseteq Nat
ASSUME TickersAssumption == IsFiniteSet(Tickers)

NoSignal == -1

\* The portfolio, and what the sizing reads of a pick and of ExecutorConfig.
Books ==
    [bankroll : Int, dayStart : Int, dayPnl : Int,
     openCount : Nat, openTickers : SUBSET Tickers,
     positions : [Tickers -> Nat],
     windowCount : [Windows -> Nat],
     committed : [Windows -> Nat],
     windowTickers : [Windows -> SUBSET Tickers]]

Decisions == [place : BOOLEAN, count : Nat, limit : Nat, stake : Nat]

IsPick(p, c) ==
    /\ p.ticker \in Tickers /\ p.window \in Windows
    /\ p.price \in 1..99 /\ p.multiplier \in Int
    /\ c.intervalStake[p.interval] \in Int

IsConfig(c) ==
    /\ c.minPrice \in Int /\ c.maxPrice \in Int /\ c.limitOffset \in Int
    /\ c.flatStake \in Int /\ c.maxStakePerPick \in Int /\ c.maxPicks \in Nat
    /\ c.perPickPct \in Int /\ c.maxPerWindowPct \in Int

AtMost(a, b) == IF a <= b THEN a ELSE b
AtLeast(a, b) == IF a >= b THEN a ELSE b
Clamp(x, lo, hi) == AtLeast(lo, AtMost(hi, x))

\* int(round(x)) of pct percent of a whole amount: Python rounds half to even.
PercentOf(pct, amount) ==
    LET q == (pct * amount) \div 100
        r == (pct * amount) % 100
    IN  IF 2 * r > 100 \/ (2 * r = 100 /\ q % 2 = 1) THEN q + 1 ELSE q

-----------------------------------------------------------------------------
\* Admission: one operator per guard of decide().

RightSide(p, c) == c.noOnly => p.side = "NO"

IntervalAllowed(p, c) == c.allowedIntervals # {} => p.interval \in c.allowedIntervals

PriceInBand(p, c) ==
    /\ c.minPrice <= p.price /\ p.price <= c.maxPrice
    /\ p.price >= c.minEntryAsk

\* "x or 0.5": a threshold configured as 0 falls back to one half.
OrHalf(x) == IF x = 0 THEN 50 ELSE x

BtcGateOpen(p, c) ==
    \/ ~c.btcGate \/ p.side # "NO" \/ p.multiplier > 1
    \/ /\ p.lean = NoSignal \/ p.lean < OrHalf(c.btcGateLean)
       /\ p.breadth = NoSignal \/ p.breadth < OrHalf(c.btcGateBreadth)

\* The YES executor's floors fail closed: a missing reading refuses.
YesFloorsMet(p, c) ==
    /\ c.minYesProb > 0 => p.yesProb # NoSignal /\ p.yesProb >= c.minYesProb
    /\ c.minBtcLean > 0 => p.lean # NoSignal /\ p.lean >= c.minBtcLean
    /\ p.asset \notin c.excludedAssets

\* The absolute limit governs when set; else a percentage of the day's start.
DailyStopped(pnl, dayStart, c) ==
    \/ c.dailyLossCents > 0 /\ pnl <= -c.dailyLossCents
    \/ /\ c.dailyLossCents <= 0 /\ c.dailyLossPct > 0 /\ dayStart > 0
       /\ pnl <= -PercentOf(c.dailyLossPct, dayStart)

\* Seeded fault: only contracts still open are duplicates.
BugTickerIsNotOpen(p, s) == p.ticker \notin s.openTickers

TickerIsNew(p, s) ==
    /\ p.ticker \notin s.openTickers
    /\ p.ticker \notin s.windowTickers[p.window]

WindowHasRoom(p, s, c) ==
    /\ s.windowCount[p.window] < c.maxPicks
    /\ s.windowCount[p.window] >= 1 => p.price >= c.secondPickMinAsk

Admitted(p, s, c, killed) ==
    /\ ~killed
    /\ RightSide(p, c)
    /\ IntervalAllowed(p, c)
    /\ PriceInBand(p, c)
    /\ BtcGateOpen(p, c)
    /\ YesFloorsMet(p, c)
    /\ ~DailyStopped(s.dayPnl, s.dayStart, c)
    /\ s.openCount < c.maxOpen
    /\ TickerIsNew(p, s)
    /\ WindowHasRoom(p, s, c)
    /\ s.bankroll > 0

-----------------------------------------------------------------------------
\* Sizing.  Interval override first, then a flat stake, then percentages.

Multiplier(p, s, c) ==
    IF c.convictionSizing /\ p.multiplier > 1 /\ s.windowCount[p.window] >= 1
    THEN p.multiplier ELSE 1

BaseStake(p, s, c) ==
    IF c.intervalStake[p.interval] > 0 THEN c.intervalStake[p.interval]
    ELSE IF c.flatStake > 0 THEN c.flatStake
    ELSE PercentOf(c.perPickPct, s.bankroll)

BaseBudget(p, s, c) ==
    IF c.intervalStake[p.interval] > 0 \/ c.flatStake > 0
    THEN BaseStake(p, s, c) * AtLeast(1, c.maxPicks)
    ELSE PercentOf(c.maxPerWindowPct, s.bankroll)

WindowBudget(p, s, c) == BaseBudget(p, s, c) * Multiplier(p, s, c)

\* The most one pick may stake; 0 is no ceiling.
StakeCeiling(p, c) ==
    IF c.intervalStake[p.interval] > 0 THEN c.intervalStake[p.interval]
    ELSE c.maxStakePerPick

Remaining(p, s, c) == WindowBudget(p, s, c) - s.committed[p.window]

Stake(p, s, c) ==
    LET wanted == AtMost(BaseStake(p, s, c) * Multiplier(p, s, c), Remaining(p, s, c))
        capped == IF StakeCeiling(p, c) > 0 THEN AtMost(wanted, StakeCeiling(p, c))
                  ELSE wanted
    IN  AtMost(capped, s.bankroll)

\* The price the order is posted at: the ask plus the offset, kept in the band.
LimitPrice(p, c) == Clamp(Clamp(p.price + c.limitOffset, 1, 99), c.minPrice, c.maxPrice)

\* Seeded fault: sized at the signalled ask, posted at the limit.
BugCountAtAsk(p, s, c) == Stake(p, s, c) \div p.price

\* Whole contracts, sized at the price actually paid.
ContractCount(p, s, c) == Stake(p, s, c) \div LimitPrice(p, c)

Refused == [place |-> FALSE, count |-> 0, limit |-> 0, stake |-> 0]

\* Seeded fault: the budget is charged at the signalled ask.
BugDecideAtAsk(p, s, c, killed) ==
    LET count == ContractCount(p, s, c)
    IN  IF Admitted(p, s, c, killed) /\ Remaining(p, s, c) > 0 /\ count >= 1
        THEN [place |-> TRUE, count |-> count, limit |-> LimitPrice(p, c),
              stake |-> count * p.price]
        ELSE Refused

\* Seeded fault: no minimum of one contract.
BugDecideZero(p, s, c, killed) ==
    IF Admitted(p, s, c, killed) /\ Remaining(p, s, c) > 0
    THEN [place |-> TRUE, count |-> ContractCount(p, s, c), limit |-> LimitPrice(p, c),
          stake |-> ContractCount(p, s, c) * LimitPrice(p, c)]
    ELSE Refused

Decide(p, s, c, killed) ==
    LET count == ContractCount(p, s, c)
        limit == LimitPrice(p, c)
    IN  IF Admitted(p, s, c, killed) /\ Remaining(p, s, c) > 0 /\ count >= 1
        THEN [place |-> TRUE, count |-> count, limit |-> limit, stake |-> count * limit]
        ELSE Refused

-----------------------------------------------------------------------------
\* The portfolio and how a placed entry, a settled window and an exit change it.

EmptyBook(bankroll, dayStart) ==
    [bankroll |-> bankroll, dayStart |-> dayStart, dayPnl |-> 0,
     openCount |-> 0, openTickers |-> {},
     positions |-> [t \in Tickers |-> 0],
     windowCount |-> [w \in Windows |-> 0],
     committed |-> [w \in Windows |-> 0],
     windowTickers |-> [w \in Windows |-> {}]]

ApplyFill(s, p, d) ==
    [bankroll |-> s.bankroll, dayStart |-> s.dayStart, dayPnl |-> s.dayPnl,
     openCount |-> s.openCount + 1,
     openTickers |-> s.openTickers \union {p.ticker},
     positions |-> [s.positions EXCEPT ![p.ticker] = d.count],
     windowCount |-> [s.windowCount EXCEPT ![p.window] = @ + 1],
     committed |-> [s.committed EXCEPT ![p.window] = @ + d.stake],
     windowTickers |-> [s.windowTickers EXCEPT ![p.window] = @ \union {p.ticker}]]

\* Windows the portfolio knows, and the ones still running at window wk.
KnownWindows(s) == {w \in Windows : s.windowTickers[w] # {}}
RunningWindows(s, wk) == {w \in KnownWindows(s) : w >= wk}

\* Seeded fault: open_count is not recounted.
BugPruneKeepsCount(s, wk) ==
    LET keep == RunningWindows(s, wk)
        kept == UNION {s.windowTickers[w] : w \in keep}
    IN  [s EXCEPT !.openTickers = kept,
                  !.positions = [t \in Tickers |-> IF t \in kept THEN @[t] ELSE 0],
                  !.windowTickers = [w \in Windows |-> IF w \in keep THEN @[w] ELSE {}]]

PruneSettled(s, wk) ==
    LET keep == RunningWindows(s, wk)
        kept == UNION {s.windowTickers[w] : w \in keep}
    IN  IF keep = KnownWindows(s) THEN s
        ELSE [bankroll |-> s.bankroll, dayStart |-> s.dayStart, dayPnl |-> s.dayPnl,
              openCount |-> Cardinality(kept),
              openTickers |-> kept,
              positions |-> [t \in Tickers |-> IF t \in kept THEN s.positions[t] ELSE 0],
              windowCount |-> [w \in Windows |-> IF w \in keep THEN s.windowCount[w] ELSE 0],
              committed |-> [w \in Windows |-> IF w \in keep THEN s.committed[w] ELSE 0],
              windowTickers |-> [w \in Windows |-> IF w \in keep THEN s.windowTickers[w] ELSE {}]]

ApplyExit(s, t) ==
    IF s.positions[t] = 0 THEN s
    ELSE [bankroll |-> s.bankroll, dayStart |-> s.dayStart, dayPnl |-> s.dayPnl,
          openCount |-> AtLeast(0, s.openCount - 1),
          openTickers |-> s.openTickers \ {t},
          positions |-> [s.positions EXCEPT ![t] = 0],
          windowCount |-> s.windowCount,
          committed |-> s.committed,
          windowTickers |-> s.windowTickers]

\* The portfolio's views of what is open agree: open_count counts open_tickers,
\* a contract that can be sold is one of them, and each window's pick counter
\* counts the contracts the window knows.
Agrees(s) ==
    /\ s.openCount = Cardinality(s.openTickers)
    /\ {t \in Tickers : s.positions[t] > 0} \subseteq s.openTickers
    /\ \A w \in Windows : s.windowCount[w] = Cardinality(s.windowTickers[w])
=============================================================================
