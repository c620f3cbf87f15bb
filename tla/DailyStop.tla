----------------------------- MODULE DailyStop -----------------------------
(***************************************************************************)
(* The daily loss breaker of the live executor: the day's reference        *)
(* balance, where it is stored, and how on_fire turns it into an admission *)
(* or a stop (executor.py __init__, _load_day_reference,                   *)
(* _persist_day_reference and _refresh_daily_pnl, store.py get_meta and    *)
(* set_meta, and the DAILY_STOP guard of risk.py).                         *)
(*                                                                         *)
(* The account is shared: between two reads entries, settlements and the   *)
(* owner's own trades move the balance to anything.  The stored reference  *)
(* is two rows, date and balance, written and committed one after the      *)
(* other.  An entry's size and its other guards are module RiskDecide's.   *)
(***************************************************************************)
EXTENDS Integers

CONSTANTS MaxBalance,   \* bound on the account balance
          LastDay,      \* bound on the days that pass
          Bankroll,     \* Q15_EXEC_BANKROLL_CENTS, the reference of last resort
          Cfg,          \* the two daily limits
          Faults        \* what the environment does to this instance

FaultKinds ==
    {"restart",     \* the process stops between two calls and boots again
     "crash",       \* it dies between reading the balance and deciding
     "torn",        \* it dies between the two writes of the reference
     "boot_read",   \* the balance read of a boot fails
     "fire_read",   \* the balance read of a call fails
     "store"}       \* a write of the reference fails and is ignored

ASSUME BoundsAssumption == MaxBalance \in Nat /\ LastDay \in Nat
ASSUME BankrollAssumption == Bankroll \in Nat
ASSUME FaultsAssumption == Faults \subseteq FaultKinds

Risk == INSTANCE RiskDecide WITH Tickers <- {}, Windows <- {}

VARIABLES
    balance,    \* cash in the exchange account
    today,      \* the UTC date
    pc,         \* down, idle, persist_boot, persist_fire or decide
    dayDate,    \* Executor._day_date
    ref,        \* Executor._day_start_balance
    dayStart,   \* state.day_start_bankroll_cents
    pnl,        \* state.day_realized_pnl_cents
    read,       \* the balance the call under way read, None if it read none
    meta,       \* executor_meta: the stored date and reference
    firstRead,  \* observation: the first balance any process read today
    lastRead    \* observation: the last balance a call read today, in any process

process == <<pc, dayDate, ref, dayStart, pnl, read>>
vars == <<balance, today, process, meta, firstRead, lastRead>>

None == -1
Balances == 0..MaxBalance

Init ==
    /\ balance \in Balances
    /\ today = 1
    /\ pc = "down" /\ dayDate = None /\ ref = None /\ dayStart = None /\ pnl = 0
    /\ read = None
    /\ meta = [date |-> None, ref |-> None]
    /\ firstRead = None /\ lastRead = None

\* What get_balance_cents may return in a call that the fault can disturb.
Reads(fault) == {balance} \union (IF fault \in Faults THEN {None} ELSE {})

Observe(bal) ==
    /\ read' = bal
    /\ firstRead' = IF firstRead = None THEN bal ELSE firstRead

\* set_meta swallows a failing write.
WriteMeta(row) == meta' \in {row} \union (IF "store" \in Faults THEN {meta} ELSE {})

-----------------------------------------------------------------------------
\* Executor.__init__: reuse today's stored reference, else start a new one.

\* Seeded fault: a restart takes the balance it finds as the day's reference.
BugStoredReference == FALSE

StoredForToday == meta.date = today /\ meta.ref # None

Boot ==
    \E bal \in Reads("boot_read") :
        /\ pc = "down"
        /\ Observe(bal)
        /\ dayDate' = today /\ pnl' = 0
        /\ IF StoredForToday
           THEN ref' = meta.ref /\ pc' = "idle" /\ UNCHANGED meta
           ELSE /\ ref' = IF bal = None THEN Bankroll ELSE bal
                /\ WriteMeta([meta EXCEPT !.date = today])
                /\ pc' = "persist_boot"
        /\ dayStart' = ref'
        /\ UNCHANGED <<balance, today, lastRead>>

\* Seeded fault: the stored reference keeps its old balance.
BugPersistDateOnly ==
    /\ pc \in {"persist_boot", "persist_fire"}
    /\ UNCHANGED meta
    /\ pc' = IF pc = "persist_boot" THEN "idle" ELSE "decide"
    /\ UNCHANGED <<balance, today, dayDate, ref, dayStart, pnl, read, firstRead, lastRead>>

\* The second write of _persist_day_reference.
Persist ==
    /\ pc \in {"persist_boot", "persist_fire"}
    /\ WriteMeta([meta EXCEPT !.ref = ref])
    /\ pc' = IF pc = "persist_boot" THEN "idle" ELSE "decide"
    /\ UNCHANGED <<balance, today, dayDate, ref, dayStart, pnl, read, firstRead, lastRead>>

-----------------------------------------------------------------------------
\* on_fire: _refresh_daily_pnl, then the DAILY_STOP guard.

\* The UTC date changed since the reference was taken: re-base on this balance.
Rollover(bal) ==
    /\ dayDate' = today /\ ref' = bal /\ dayStart' = bal /\ pnl' = 0
    /\ WriteMeta([meta EXCEPT !.date = today])
    /\ pc' = "persist_fire"

\* Seeded fault: the reference of the process's start is kept for ever.
BugNoRollover(bal) ==
    /\ bal # None
    /\ pnl' = bal - ref /\ pc' = "decide"
    /\ UNCHANGED <<dayDate, ref, dayStart, meta>>

Refresh(bal) ==
    \/ bal # None /\ dayDate # today /\ Rollover(bal)
    \/ /\ bal # None /\ dayDate = today
       /\ pnl' = bal - ref /\ pc' = "decide"
       /\ UNCHANGED <<dayDate, ref, dayStart, meta>>
    \/ bal = None /\ pc' = "decide" /\ UNCHANGED <<dayDate, ref, dayStart, pnl, meta>>

Fire ==
    \E bal \in Reads("fire_read") :
        /\ pc = "idle"
        /\ Observe(bal)
        /\ lastRead' = IF bal = None THEN lastRead ELSE bal
        /\ Refresh(bal)
        /\ UNCHANGED <<balance, today>>

Stopped == Risk!DailyStopped(pnl, dayStart, Cfg)

\* The entry goes out and its cost leaves the account.
Admit ==
    /\ pc = "decide" /\ ~Stopped
    /\ pc' = "idle"
    /\ balance' \in 0..balance
    /\ UNCHANGED <<today, dayDate, ref, dayStart, pnl, read, meta, firstRead, lastRead>>

Refuse ==
    /\ pc = "decide" /\ Stopped
    /\ pc' = "idle"
    /\ UNCHANGED <<balance, today, dayDate, ref, dayStart, pnl, read, meta, firstRead, lastRead>>

-----------------------------------------------------------------------------
\* The account, the calendar and the process

BalanceMoves ==
    /\ balance' \in Balances
    /\ UNCHANGED <<today, process, meta, firstRead, lastRead>>

NewDay ==
    /\ today < LastDay
    /\ today' = today + 1
    /\ firstRead' = None /\ lastRead' = None
    /\ UNCHANGED <<balance, process, meta>>

StopPoints ==
    UNION {CASE f = "restart" -> {"idle"}
             [] f = "crash" -> {"decide"}
             [] f = "torn" -> {"persist_boot", "persist_fire"}
             [] OTHER -> {} : f \in Faults}

Stop ==
    /\ pc \in StopPoints
    /\ pc' = "down" /\ dayDate' = None /\ ref' = None /\ dayStart' = None /\ pnl' = 0
    /\ read' = None
    /\ UNCHANGED <<balance, today, meta, firstRead, lastRead>>

Next ==
    \/ Boot \/ Persist \/ Fire \/ Admit \/ Refuse
    \/ BalanceMoves \/ NewDay \/ Stop

Spec == Init /\ [][Next]_vars

-----------------------------------------------------------------------------
\* Every variable keeps to the values the code can give it.
TypeOK ==
    /\ balance \in Balances
    /\ today \in Nat \ {0}
    /\ pc \in {"down", "idle", "persist_boot", "persist_fire", "decide"}
    /\ dayDate \in Nat \union {None}
    /\ ref \in Nat \union {None} /\ dayStart \in Nat \union {None}
    /\ pc # "down" => dayDate # None /\ ref # None /\ dayStart = ref
    /\ pnl \in Int
    /\ read \in Nat \union {None}
    /\ meta \in [date : Nat \union {None}, ref : Nat \union {None}]
    /\ firstRead \in Nat \union {None} /\ lastRead \in Nat \union {None}

\* While today's reference is in use it is the first balance read today, by
\* whichever process read it: a restart does not re-base the day's loss.
ReferenceIsTheDaysFirst ==
    pc # "down" /\ dayDate = today /\ firstRead # None => ref = firstRead

\* What a balance says of the day's loss, and whether it reached the limit.
LimitReachedAt(bal) ==
    /\ bal # None /\ firstRead # None
    /\ Risk!DailyStopped(bal - firstRead, firstRead, Cfg)

\* No entry can be admitted by a call that itself read a balance at which the
\* day's loss limit, counted from the day's first balance, is reached.
NoEntryPastStop == pc = "decide" /\ LimitReachedAt(read) => Stopped

\* An entry can be refused only for a loss that a call read the same day: the
\* breaker re-arms at the date change and does not stay tripped on yesterday's
\* loss.
NoStopWithoutLoss ==
    pc = "decide" /\ Stopped /\ firstRead # None => LimitReachedAt(lastRead)

\* The breaker survives a restart: no entry can be admitted while the last
\* balance that a call read today, in this process or an earlier one, shows the
\* day's loss limit reached.
StopSurvivesRestart == pc = "decide" /\ LimitReachedAt(lastRead) => Stopped
=============================================================================
