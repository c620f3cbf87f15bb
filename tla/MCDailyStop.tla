---------------------------- MODULE MCDailyStop ----------------------------
(***************************************************************************)
(* A small instance of DailyStop: an account of at most 5 units, a loss    *)
(* limit of 2, three days - one to set a reference, one to change it and   *)
(* one more for a process that slept through a whole day.                  *)
(***************************************************************************)
EXTENDS DailyStop

AbsoluteLimit == [dailyLossCents |-> 2, dailyLossPct |-> 0]

Disturbed == {"restart", "crash", "fire_read"}
=============================================================================
