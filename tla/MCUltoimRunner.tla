--------------------------- MODULE MCUltoimRunner ---------------------------
(***************************************************************************)
(* Two contracts of one window.  The first can show a NO that fires or a   *)
(* decisive YES; the second only the NO that fires, and the selective      *)
(* picker leaves it out.  12M is research only, 10M is the selective mark, *)
(* 7M delivers the top picks.                                              *)
(***************************************************************************)
EXTENDS UltoimRunner

CONSTANTS t1, t2

MCFires == [side |-> "NO", fired |-> TRUE, notify |-> FALSE, decisive |-> TRUE]
MCFlip == [side |-> "YES", fired |-> FALSE, notify |-> TRUE, decisive |-> TRUE]

MCTickers == {t1, t2}
MCViews == [t \in MCTickers |-> IF t = t1 THEN {MCFires, MCFlip} ELSE {MCFires}]
MCMark == [i \in {"12M", "10M", "7M"} |->
             CASE i = "12M" -> 720 [] i = "10M" -> 600 [] i = "7M" -> 420]
MCBand == [i \in {"12M", "10M", "7M"} |->
             CASE i = "12M" -> {1} [] i = "10M" -> {1, 2} [] i = "7M" -> {4}]
=============================================================================
