----------------------------- MODULE EntryLimit -----------------------------
(***************************************************************************)
(* What the executor promises the account: contracts are entered one at a  *)
(* time, each at most once, and never more than MaxPicks of one settlement *)
(* window.  An entry is never taken back - an exit sells the position, it  *)
(* does not give the window's budget back.                                 *)
(***************************************************************************)
EXTENDS Naturals, FiniteSets

CONSTANTS Tickers, Windows, WindowOf, MaxPicks

VARIABLE entered

Init == entered = {}

Enter(t) ==
    /\ t \notin entered
    /\ Cardinality({u \in entered : WindowOf[u] = WindowOf[t]}) < MaxPicks
    /\ entered' = entered \union {t}

Next == \E t \in Tickers : Enter(t)

Spec == Init /\ [][Next]_entered
=============================================================================
