---------------------------- MODULE MCExecutor ----------------------------
(***************************************************************************)
(* Small instances of Executor for TLC.  A window of three contracts and a *)
(* cap of two makes the cap, the budget and the duplicate guard bite; a    *)
(* second window of one contract makes pruning drop what has settled and,  *)
(* after a restart that read back both, keep what has not.  Prices are one *)
(* cent apart in a band of three, so that an offset, a budget and a        *)
(* whole-contract count interact.                                          *)
(***************************************************************************)
EXTENDS Executor, TLC

CONSTANTS x1, x2, x3, y1

MCTickers == {x1, x2, x3, y1}
MCWindows == 1..2
MCWindowOf == [t \in MCTickers |-> IF t = y1 THEN 2 ELSE 1]

PickOf(t, price) ==
    [ticker |-> t, asset |-> "alt", side |-> "NO", price |-> price,
     window |-> MCWindowOf[t], interval |-> "10M", multiplier |-> 1,
     lean |-> NoSignal, breadth |-> NoSignal, yesProb |-> NoSignal]

MCPicks == {PickOf(t, price) : t \in {x1, x2, x3}, price \in {1, 2}} \union {PickOf(y1, 2)}

BaseCfg ==
    [noOnly |-> TRUE, allowedIntervals |-> {},
     minPrice |-> 1, maxPrice |-> 3, minEntryAsk |-> 0,
     btcGate |-> TRUE, btcGateLean |-> 50, btcGateBreadth |-> 50,
     minYesProb |-> 0, minBtcLean |-> 0, excludedAssets |-> {},
     dailyLossCents |-> 0, dailyLossPct |-> 0,
     maxOpen |-> 3, maxPicks |-> 2, secondPickMinAsk |-> 0,
     intervalStake |-> [i \in {"10M"} |-> 0], flatStake |-> 0,
     perPickPct |-> 30, maxPerWindowPct |-> 50, maxStakePerPick |-> 0,
     convictionSizing |-> TRUE, limitOffset |-> 1]

\* Percentage sizing, as above: stakes of 3 in a window budget of 5.
PercentCfg == BaseCfg

\* Flat sizing: 4 cents a pick, at most two picks.
FlatCfg == [BaseCfg EXCEPT !.flatStake = 4]

Disturbed == {"switches", "reject", "uncertain", "no_id", "store", "cancel"}
Switching == {"switches"}
Restarts == {"restart", "crash", "reject"}
RestartsAfterLostAnswers == {"restart", "uncertain"}

\* Contracts of one window are interchangeable.
Interchangeable == Permutations({x1, x2, x3})
=============================================================================
