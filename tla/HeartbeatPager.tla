--------------------------- MODULE HeartbeatPager ---------------------------
(***************************************************************************)
(* The dashboard's heartbeat and its pages.  The refresh loop stamps a     *)
(* file as each cycle begins, if the file can be written; a supervisor     *)
(* thread of the same process pages when the stamp is old.  Pages about    *)
(* the process's exit and about drifted runtime flags share its cooldown,  *)
(* which is kept in a file and, in case that cannot be written, in memory. *)
(* Ages saturate at Far; None is the age of what never was.                *)
(***************************************************************************)
EXTENDS Naturals, FiniteSetsExt

CONSTANTS
    StaleAfter,  \* heartbeat_stale_seconds
    Cooldown,    \* heartbeat_pager_cooldown_seconds
    Interval,    \* heartbeat_supervisor_interval_seconds
    CycleMax,    \* the longest cycle of a loop that does not hang
    Faults       \* what may go wrong beyond a hanging loop

\* What the theorems suppose of the constants.
PagerConstants ==
    /\ StaleAfter \in Nat \ {0} /\ Cooldown \in Nat \ {0}
    /\ Interval \in Nat \ {0} /\ CycleMax \in Nat \ {0}
    \* "crash": the process may die; "file": the cooldown file may be
    \* impossible to write for a while; "beat": a write of the heartbeat fails.
    /\ Faults \subseteq {"crash", "file", "beat"}

VARIABLES
    process, loop,     \* of the process, and of its refresh loop
    sinceCycle,        \* how long ago the loop, not hanging, began a cycle
    beatAge,           \* age of the stamp in the heartbeat file
    fileAge, memAge,   \* age of each kind's claim, in the file and in memory
    writable,          \* whether the cooldown file can be written
    waited,            \* how long the supervisor has slept
    sending,           \* the pages claimed whose sending is under way
    missed,            \* ghost: the last cycle's stamp could not be written
    pageAge            \* ghost: age of the last page of each kind

cooldowns == <<fileAge, memAge>>
heartbeat == <<sinceCycle, beatAge, missed>>
vars == <<process, loop, heartbeat, cooldowns, writable, waited, sending, pageAge>>

Kinds == {"stale", "exit", "runtime_config_manifest"}
Far == Max({StaleAfter + 1, Cooldown})
None == Far + 1
Ages == 0..None

TypeOK ==
    /\ process \in {"down", "booting", "up", "exiting"}
    /\ loop \in {"beats", "hangs"}
    /\ sinceCycle \in 0..CycleMax /\ beatAge \in Ages /\ missed \in BOOLEAN
    /\ fileAge \in [Kinds -> Ages] /\ memAge \in [Kinds -> Ages]
    /\ writable \in BOOLEAN /\ waited \in 0..Interval
    /\ sending \subseteq Kinds
    /\ pageAge \in [Kinds -> Ages]

Never == [k \in Kinds |-> None]

Init ==
    /\ process = "down" /\ loop = "beats"
    /\ sinceCycle = 0 /\ beatAge = None /\ missed = FALSE
    /\ fileAge = Never /\ memAge = Never /\ writable = TRUE
    /\ waited = 0 /\ sending = {} /\ pageAge = Never

(***************************************************************************)
(* Time, and the disk.                                                     *)
(***************************************************************************)

Older(age) == IF age >= Far THEN age ELSE age + 1
AllOlder(ages) == [k \in Kinds |-> Older(ages[k])]

Cycling == process = "up" /\ loop = "beats"

\* The supervisor's sleep; it does not sleep while it sends.
Sleeping == process \in {"up", "exiting"} /\ "stale" \notin sending

Tick ==
    /\ Cycling => sinceCycle < CycleMax
    /\ Sleeping => waited < Interval
    /\ sinceCycle' = IF Cycling THEN sinceCycle + 1 ELSE sinceCycle
    /\ waited' = IF Sleeping THEN waited + 1 ELSE waited
    /\ beatAge' = Older(beatAge)
    /\ fileAge' = AllOlder(fileAge) /\ memAge' = AllOlder(memAge)
    /\ pageAge' = AllOlder(pageAge)
    /\ UNCHANGED <<process, loop, missed, writable, sending>>

DiskFails ==
    /\ "file" \in Faults /\ writable' = ~writable
    /\ UNCHANGED <<process, loop, heartbeat, cooldowns, waited, sending, pageAge>>

(***************************************************************************)
(* _claim_persistent_cooldown.                                             *)
(***************************************************************************)

\* The entry of the file counts when it has one, else the one in memory.
LastClaim(k) == IF fileAge[k] # None THEN fileAge[k] ELSE memAge[k]

Stamp(k) ==
    /\ fileAge' = IF writable THEN [fileAge EXCEPT ![k] = 0] ELSE fileAge
    /\ memAge' = [memAge EXCEPT ![k] = 0]

Refused(k) == UNCHANGED cooldowns

Claim(k) ==
    IF LastClaim(k) >= Cooldown
    THEN /\ Stamp(k)
         /\ sending' = sending \cup {k} /\ pageAge' = [pageAge EXCEPT ![k] = 0]
    ELSE /\ Refused(k)
         /\ UNCHANGED <<sending, pageAge>>

NoClaim == UNCHANGED <<cooldowns, sending, pageAge>>

(***************************************************************************)
(* The process.                                                            *)
(***************************************************************************)

\* Importing app checks the runtime flags, which may have drifted.
Boot ==
    /\ process = "down" /\ process' = "booting" /\ loop' = "beats"
    /\ \E drifted \in BOOLEAN :
         LET k == "runtime_config_manifest" IN
           IF drifted /\ fileAge[k] >= Cooldown
           THEN /\ fileAge' = IF writable THEN [fileAge EXCEPT ![k] = 0] ELSE fileAge
                /\ memAge' = [Never EXCEPT ![k] = 0]
                /\ sending' = {k} /\ pageAge' = [pageAge EXCEPT ![k] = 0]
           ELSE /\ memAge' = Never
                /\ UNCHANGED <<fileAge, sending, pageAge>>
    /\ UNCHANGED <<heartbeat, writable, waited>>

\* A failing write is logged and leaves the old stamp.
WriteHeartbeat ==
    \/ beatAge' = 0 /\ missed' = FALSE
    \/ "beat" \in Faults /\ beatAge' = beatAge /\ missed' = TRUE

BeginCycle == sinceCycle' = 0 /\ WriteHeartbeat

\* refresh_loop stamps the heartbeat and then starts the supervisor.
Enter ==
    /\ process = "booting" /\ sending = {} /\ process' = "up"
    /\ BeginCycle /\ waited' = 0
    /\ UNCHANGED <<loop, cooldowns, writable, sending, pageAge>>

Beat ==
    /\ Cycling /\ BeginCycle
    /\ UNCHANGED <<process, loop, cooldowns, writable, waited, sending, pageAge>>

Hang ==
    /\ Cycling /\ loop' = "hangs"
    /\ UNCHANGED <<process, heartbeat, cooldowns, writable, waited, sending, pageAge>>

\* The cycle ends after all, and the next one begins.
Recover ==
    /\ process = "up" /\ loop = "hangs" /\ loop' = "beats" /\ BeginCycle
    /\ UNCHANGED <<process, cooldowns, writable, waited, sending, pageAge>>

\* The interpreter exits: send_process_exit_alert.
Exit ==
    /\ process = "up" /\ "exit" \notin sending /\ process' = "exiting"
    /\ Claim("exit")
    /\ UNCHANGED <<loop, heartbeat, writable, waited>>

Ended ==
    /\ process' = "down" /\ sending' = {} /\ loop' = "beats" /\ waited' = 0
    /\ UNCHANGED <<heartbeat, cooldowns, writable, pageAge>>

Stop == process = "exiting" /\ "exit" \notin sending /\ Ended
Crash == process # "down" /\ "crash" \in Faults /\ Ended

(***************************************************************************)
(* The pages.                                                              *)
(***************************************************************************)

\* heartbeat_status: a heartbeat exists and is older than the threshold.
IsOld == beatAge \in StaleAfter + 1..Far

\* heartbeat_supervisor_tick, up to the sending, by a thread of its own.
SupervisorTick ==
    /\ Sleeping /\ waited = Interval
    /\ waited' = 0
    /\ IF IsOld THEN Claim("stale") ELSE NoClaim
    /\ UNCHANGED <<process, loop, heartbeat, writable>>

\* A send ends, whatever came of it; nothing depends on its outcome.
Sent(k) ==
    /\ k \in sending /\ sending' = sending \ {k}
    /\ UNCHANGED <<process, loop, heartbeat, cooldowns, writable, waited, pageAge>>

Next ==
    \/ Tick \/ DiskFails
    \/ Boot \/ Enter \/ Beat \/ Hang \/ Recover \/ Exit \/ Stop \/ Crash
    \/ SupervisorTick
    \/ \E k \in Kinds : Sent(k)

Spec == Init /\ [][Next]_vars

(***************************************************************************)
(* Properties.                                                             *)
(***************************************************************************)

\* A kind of page is not sent again within its cooldown, neither by one
\* process nor by the next one after an exit or a crash.
PagesAreSpaced ==
    [][\A k \in Kinds : k \in sending' \ sending => pageAge[k] >= Cooldown]_vars

\* No page calls a loop hung that cycles, unless its last cycle could not write
\* its stamp: not in a process that finds the old heartbeat of the one before it,
\* not once a hang is over, and not after an earlier write failed.
NoFalseAlarm ==
    [][Cycling /\ ~missed => "stale" \notin sending' \ sending]_vars
=============================================================================
