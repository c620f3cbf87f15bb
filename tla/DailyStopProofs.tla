-------------------------- MODULE DailyStopProofs --------------------------
(***************************************************************************)
(* Proofs about DailyStop, for every limit, every balance and any number   *)
(* of days, restarts, crashes and failed reads in on_fire.                 *)
(*                                                                         *)
(* DayInv ties the three places that remember the day - the process, the   *)
(* store and the observed first read - to each other across the second     *)
(* write of the reference, midnight and a restart.  LossWasRead ties the   *)
(* loss the process holds to the last balance a call read.                 *)
(***************************************************************************)
EXTENDS DailyStop, TLAPS

Persisting == pc \in {"persist_boot", "persist_fire"}

\* The reference's two writes succeed and are not interrupted, and a boot can
\* read the balance.
Reliable == Faults \cap {"torn", "boot_read", "store"} = {}

DatesOrdered ==
    /\ meta.date <= today
    /\ pc # "down" => dayDate <= today

\* A balance was read today exactly when today's date is stored.
ReadIsStored ==
    /\ firstRead # None <=> meta.date = today
    /\ ~Persisting /\ meta.date = today => meta.ref = firstRead
    /\ Persisting => meta.date = dayDate

\* A process that has not seen today has read nothing today.
ProcessKnowsTheDay ==
    pc # "down" =>
        /\ dayDate # today => firstRead = None
        /\ dayDate = today => firstRead # None /\ ref = firstRead

\* The loss decide() sees is the one the call's own read shows.
LossIsRead ==
    pc \in {"persist_fire", "decide"} /\ read # None /\ dayDate = today =>
        pnl = read - ref

DayInv ==
    TypeOK /\ DatesOrdered /\ ReadIsStored /\ ProcessKnowsTheDay /\ LossIsRead

-----------------------------------------------------------------------------
LEMMA BalanceType == ASSUME NEW b \in Balances PROVE b \in Nat /\ b # None
BY BoundsAssumption DEF Balances, None

LEMMA ReadType ==
    ASSUME TypeOK, NEW fault, NEW bal \in Reads(fault)
    PROVE  bal \in Nat \union {None} /\ (fault \notin Faults => bal # None)
BY BalanceType DEF Reads, TypeOK

LEMMA MetaType ==
    ASSUME TypeOK, NEW row \in [date : Nat \union {None}, ref : Nat \union {None}], WriteMeta(row)
    PROVE  /\ meta' \in [date : Nat \union {None}, ref : Nat \union {None}]
           /\ "store" \notin Faults => meta' = row
BY DEF WriteMeta, TypeOK

LEMMA InitType == Init => TypeOK
BY BalanceType DEF Init, TypeOK, None

LEMMA BootType == TypeOK /\ Boot => TypeOK'
<1> SUFFICES ASSUME TypeOK, NEW bal \in Reads("boot_read"), Boot,
                    Observe(bal), pc = "down", dayDate' = today, pnl' = 0,
                    IF StoredForToday
                    THEN ref' = meta.ref /\ pc' = "idle" /\ UNCHANGED meta
                    ELSE /\ ref' = IF bal = None THEN Bankroll ELSE bal
                         /\ WriteMeta([meta EXCEPT !.date = today])
                         /\ pc' = "persist_boot",
                    dayStart' = ref', UNCHANGED <<balance, today, lastRead>>
             PROVE  TypeOK'
  BY DEF Boot
<1>1. bal \in Nat \union {None}
  BY ReadType
<1>2. [meta EXCEPT !.date = today] \in [date : Nat \union {None}, ref : Nat \union {None}]
  BY DEF TypeOK
<1>3. meta' \in [date : Nat \union {None}, ref : Nat \union {None}]
  BY <1>2, MetaType DEF TypeOK
<1>4. ref' \in Nat
  BY <1>1, BankrollAssumption DEF StoredForToday, TypeOK
<1>5. read' \in Nat \union {None} /\ firstRead' \in Nat \union {None} /\ lastRead' \in Nat \union {None}
  BY <1>1 DEF Observe, TypeOK
<1>. QED
  BY <1>3, <1>4, <1>5 DEF TypeOK, None

LEMMA PersistType == TypeOK /\ Persist => TypeOK'
<1> SUFFICES ASSUME TypeOK, Persist PROVE TypeOK'
  OBVIOUS
<1>1. [meta EXCEPT !.ref = ref] \in [date : Nat \union {None}, ref : Nat \union {None}]
  BY DEF TypeOK
<1>2. meta' \in [date : Nat \union {None}, ref : Nat \union {None}]
  BY <1>1, MetaType DEF Persist
<1>. QED
  BY <1>2 DEF Persist, TypeOK

LEMMA FireType == TypeOK /\ Fire => TypeOK'
<1> SUFFICES ASSUME TypeOK, NEW bal \in Reads("fire_read"), pc = "idle", Observe(bal),
                    lastRead' = (IF bal = None THEN lastRead ELSE bal),
                    Refresh(bal), UNCHANGED <<balance, today>>
             PROVE  TypeOK'
  BY DEF Fire
<1>1. bal \in Nat \union {None}
  BY ReadType
<1>2. read' \in Nat \union {None} /\ firstRead' \in Nat \union {None} /\ lastRead' \in Nat \union {None}
  BY <1>1 DEF Observe, TypeOK
<1>3. CASE bal # None /\ dayDate # today /\ Rollover(bal)
  <2>1. [meta EXCEPT !.date = today] \in [date : Nat \union {None}, ref : Nat \union {None}]
    BY DEF TypeOK
  <2>2. meta' \in [date : Nat \union {None}, ref : Nat \union {None}]
    BY <1>3, <2>1, MetaType DEF Rollover
  <2>. QED
    BY <1>1, <1>2, <1>3, <2>2 DEF Rollover, TypeOK, None
<1>4. CASE bal # None /\ dayDate = today /\ pnl' = bal - ref /\ pc' = "decide"
           /\ UNCHANGED <<dayDate, ref, dayStart, meta>>
  BY <1>1, <1>2, <1>4 DEF TypeOK, None
<1>5. CASE bal = None /\ pc' = "decide" /\ UNCHANGED <<dayDate, ref, dayStart, pnl, meta>>
  BY <1>2, <1>5 DEF TypeOK
<1>. QED
  BY <1>3, <1>4, <1>5 DEF Refresh

LEMMA OtherType ==
    TypeOK /\ (Admit \/ Refuse \/ BalanceMoves \/ NewDay \/ Stop) => TypeOK'
<1> SUFFICES ASSUME TypeOK, Admit \/ Refuse \/ BalanceMoves \/ NewDay \/ Stop PROVE TypeOK'
  OBVIOUS
<1>1. CASE Admit
  BY <1>1, BoundsAssumption DEF Admit, TypeOK, Balances
<1>2. CASE Refuse
  BY <1>2 DEF Refuse, TypeOK
<1>3. CASE BalanceMoves
  BY <1>3 DEF BalanceMoves, TypeOK, process
<1>4. CASE NewDay
  BY <1>4 DEF NewDay, TypeOK, process, None
<1>5. CASE Stop
  BY <1>5 DEF Stop, TypeOK, None
<1>. QED
  BY <1>1, <1>2, <1>3, <1>4, <1>5

LEMMA StepType == TypeOK /\ [Next]_vars => TypeOK'
<1> SUFFICES ASSUME TypeOK, [Next]_vars PROVE TypeOK'
  OBVIOUS
<1>1. CASE UNCHANGED vars
  BY <1>1 DEF vars, process, TypeOK
<1>. QED
  BY <1>1, BootType, PersistType, FireType, OtherType DEF Next

\* Whatever fails, the process never trades without a day, a reference and a
\* day's start that is that reference.
THEOREM TypeCorrect == Spec => []TypeOK
BY InitType, StepType, PTL DEF Spec

-----------------------------------------------------------------------------
\* The day's reference and the stop, when the store and the boot's read work

LEMMA InitDay == Init => DayInv
<1> SUFFICES ASSUME Init PROVE DayInv
  OBVIOUS
<1>1. TypeOK
  BY InitType
<1>. QED
  BY <1>1 DEF Init, DayInv, DatesOrdered, ReadIsStored, ProcessKnowsTheDay, LossIsRead,
              Persisting, None

LEMMA BootDay == Reliable /\ DayInv /\ Boot => DayInv'
<1> SUFFICES ASSUME Reliable, DayInv, NEW bal \in Reads("boot_read"),
                    Observe(bal), pc = "down", dayDate' = today, pnl' = 0,
                    IF StoredForToday
                    THEN ref' = meta.ref /\ pc' = "idle" /\ UNCHANGED meta
                    ELSE /\ ref' = IF bal = None THEN Bankroll ELSE bal
                         /\ WriteMeta([meta EXCEPT !.date = today])
                         /\ pc' = "persist_boot",
                    UNCHANGED <<balance, today>>,
                    TypeOK'
             PROVE  DayInv'
  BY BootType DEF Boot, DayInv
<1>1. /\ bal \in Nat /\ bal # None /\ today \in Nat /\ today # None
      /\ meta \in [date : Nat \union {None}, ref : Nat \union {None}]
  BY ReadType, BalanceType DEF Reliable, DayInv, TypeOK, None
<1>2. firstRead' = (IF firstRead = None THEN bal ELSE firstRead)
  BY DEF Observe
<1>3. CASE StoredForToday
  <2>1. firstRead # None /\ meta.ref = firstRead
    BY <1>3 DEF StoredForToday, DayInv, ReadIsStored, Persisting
  <2>2. firstRead' = firstRead /\ ref' = firstRead /\ meta' = meta /\ pc' = "idle"
    BY <1>2, <1>3, <2>1
  <2>. QED
    BY <1>1, <2>1, <2>2 DEF DayInv, DatesOrdered, ReadIsStored, ProcessKnowsTheDay,
                            LossIsRead, Persisting
<1>4. CASE ~StoredForToday
  <2>1. firstRead = None
    BY <1>4 DEF StoredForToday, DayInv, ReadIsStored, Persisting
  <2>2. /\ firstRead' = bal /\ ref' = bal /\ pc' = "persist_boot"
        /\ meta' = [meta EXCEPT !.date = today]
    <3>1. [meta EXCEPT !.date = today] \in [date : Nat \union {None}, ref : Nat \union {None}]
      BY <1>1
    <3>. QED
      BY <1>1, <1>2, <1>4, <2>1, <3>1, MetaType DEF Reliable, DayInv
  <2>3. meta'.date = today
    BY <1>1, <2>2
  <2>. QED
    BY <1>1, <2>2, <2>3 DEF DayInv, DatesOrdered, ReadIsStored, ProcessKnowsTheDay,
                            LossIsRead, Persisting
<1>. QED
  BY <1>3, <1>4

LEMMA PersistDay == Reliable /\ DayInv /\ Persist => DayInv'
<1> SUFFICES ASSUME Reliable, DayInv, Persist PROVE DayInv'
  OBVIOUS
<1>1. TypeOK'
  BY PersistType DEF DayInv
<1>2. meta \in [date : Nat \union {None}, ref : Nat \union {None}] /\ ref \in Nat \union {None}
  BY DEF DayInv, TypeOK
<1>3. meta' = [meta EXCEPT !.ref = ref]
  <2>1. [meta EXCEPT !.ref = ref] \in [date : Nat \union {None}, ref : Nat \union {None}]
    BY <1>2
  <2>. QED
    BY <2>1, MetaType DEF Persist, Reliable, DayInv
<1>4. meta'.date = meta.date /\ meta'.ref = ref /\ meta.date = dayDate
  BY <1>2, <1>3 DEF DayInv, ReadIsStored, Persist, Persisting
<1>5. /\ pc \in {"persist_boot", "persist_fire"}
      /\ pc' = (IF pc = "persist_boot" THEN "idle" ELSE "decide")
      /\ UNCHANGED <<balance, today, dayDate, ref, dayStart, pnl, read, firstRead, lastRead>>
  BY DEF Persist
<1>. QED
  BY <1>1, <1>4, <1>5 DEF DayInv, DatesOrdered, ReadIsStored, ProcessKnowsTheDay,
                          LossIsRead, Persisting

LEMMA FireDay == Reliable /\ DayInv /\ Fire => DayInv'
<1> SUFFICES ASSUME Reliable, DayInv, NEW bal \in Reads("fire_read"), pc = "idle",
                    Observe(bal), Refresh(bal), UNCHANGED <<balance, today>>, TypeOK'
             PROVE  DayInv'
  BY FireType DEF Fire, DayInv
<1>1. /\ bal \in Nat \union {None} /\ today \in Nat /\ today # None
      /\ meta \in [date : Nat \union {None}, ref : Nat \union {None}]
  BY ReadType DEF DayInv, TypeOK, None
<1>2. read' = bal /\ firstRead' = (IF firstRead = None THEN bal ELSE firstRead)
  BY DEF Observe
<1>3. CASE bal # None /\ dayDate # today /\ Rollover(bal)
  <2>1. firstRead = None
    BY <1>3 DEF DayInv, ProcessKnowsTheDay
  <2>2. /\ dayDate' = today /\ ref' = bal /\ pnl' = 0 /\ pc' = "persist_fire"
        /\ meta' = [meta EXCEPT !.date = today]
    <3>1. [meta EXCEPT !.date = today] \in [date : Nat \union {None}, ref : Nat \union {None}]
      BY <1>1
    <3>. QED
      BY <1>3, <3>1, MetaType DEF Rollover, Reliable, DayInv
  <2>3. meta'.date = today /\ firstRead' = bal
    BY <1>1, <1>2, <1>3, <2>1, <2>2
  <2>. QED
    BY <1>1, <1>2, <1>3, <2>2, <2>3 DEF DayInv, DatesOrdered, ReadIsStored,
                                   ProcessKnowsTheDay, LossIsRead, Persisting, None
<1>4. CASE bal # None /\ dayDate = today /\ pnl' = bal - ref /\ pc' = "decide"
           /\ UNCHANGED <<dayDate, ref, dayStart, meta>>
  <2>1. firstRead # None /\ firstRead' = firstRead
    BY <1>2, <1>4 DEF DayInv, ProcessKnowsTheDay
  <2>. QED
    BY <1>2, <1>4, <2>1 DEF DayInv, DatesOrdered, ReadIsStored, ProcessKnowsTheDay,
                            LossIsRead, Persisting
<1>5. CASE bal = None /\ pc' = "decide" /\ UNCHANGED <<dayDate, ref, dayStart, pnl, meta>>
  BY <1>2, <1>5 DEF DayInv, DatesOrdered, ReadIsStored, ProcessKnowsTheDay,
                    LossIsRead, Persisting
<1>. QED
  BY <1>3, <1>4, <1>5 DEF Refresh

LEMMA OtherDay ==
    Reliable /\ DayInv /\ (Admit \/ Refuse \/ BalanceMoves \/ NewDay \/ Stop) => DayInv'
<1> SUFFICES ASSUME Reliable, DayInv, Admit \/ Refuse \/ BalanceMoves \/ NewDay \/ Stop
             PROVE  DayInv'
  OBVIOUS
<1> USE DEF DayInv, DatesOrdered, ReadIsStored, ProcessKnowsTheDay, LossIsRead, Persisting
<1>1. TypeOK'
  BY OtherType
<1>2. CASE Admit
  BY <1>1, <1>2 DEF Admit
<1>3. CASE Refuse
  BY <1>1, <1>3 DEF Refuse
<1>4. CASE BalanceMoves
  BY <1>1, <1>4 DEF BalanceMoves, process
<1>5. CASE NewDay
  <2>1. /\ today \in Nat /\ today' = today + 1 /\ meta.date \in Nat \union {None}
        /\ dayDate \in Nat \union {None} /\ firstRead' = None
        /\ UNCHANGED <<balance, process, meta>>
    BY <1>5 DEF NewDay, TypeOK
  <2>2. meta.date < today' /\ (pc # "down" => dayDate < today')
    BY <2>1 DEF None
  <2>. QED
    BY <1>1, <2>1, <2>2 DEF process, None
<1>6. CASE Stop
  <2>1. StopPoints \subseteq {"idle", "decide"}
    <3>1. ASSUME NEW f \in Faults
          PROVE  (CASE f = "restart" -> {"idle"}
                    [] f = "crash" -> {"decide"}
                    [] f = "torn" -> {"persist_boot", "persist_fire"}
                    [] OTHER -> {}) \subseteq {"idle", "decide"}
      BY <3>1 DEF Reliable
    <3>. QED
      BY <3>1 DEF StopPoints
  <2>. QED
    BY <1>1, <1>6, <2>1 DEF Stop
<1>. QED
  BY <1>2, <1>3, <1>4, <1>5, <1>6

LEMMA StepDay == Reliable /\ DayInv /\ [Next]_vars => DayInv'
<1> SUFFICES ASSUME Reliable, DayInv, [Next]_vars PROVE DayInv'
  OBVIOUS
<1>1. CASE UNCHANGED vars
  BY <1>1 DEF vars, process, DayInv, TypeOK, DatesOrdered, ReadIsStored,
              ProcessKnowsTheDay, LossIsRead, Persisting
<1>. QED
  BY <1>1, BootDay, PersistDay, FireDay, OtherDay DEF Next

LEMMA DayInvariance == Reliable => (Spec => []DayInv)
<1> SUFFICES ASSUME Reliable PROVE Spec => []DayInv
  OBVIOUS
<1>1. DayInv /\ [Next]_vars => DayInv'
  BY StepDay
<1>. QED
  BY <1>1, InitDay, PTL DEF Spec

\* _load_day_reference and _persist_day_reference: restarts and crashes between
\* calls never re-base the day's loss on a balance read later in the day.
THEOREM ReferenceSurvivesRestarts == Reliable => (Spec => []ReferenceIsTheDaysFirst)
<1> SUFFICES ASSUME Reliable PROVE Spec => []ReferenceIsTheDaysFirst
  OBVIOUS
<1>1. DayInv => ReferenceIsTheDaysFirst
  BY DEF DayInv, ProcessKnowsTheDay, ReferenceIsTheDaysFirst
<1>. QED
  BY <1>1, DayInvariance, PTL

\* For every limit, absolute or percentage: a call that reads a balance at which
\* the day's loss, counted from the day's first balance, has reached the limit
\* cannot admit an entry - whichever process took the reference.
THEOREM StopIsObeyed == Reliable => (Spec => []NoEntryPastStop)
<1> SUFFICES ASSUME Reliable PROVE Spec => []NoEntryPastStop
  OBVIOUS
<1>1. DayInv => NoEntryPastStop
  <2> SUFFICES ASSUME DayInv, pc = "decide", LimitReachedAt(read) PROVE Stopped
    BY DEF NoEntryPastStop
  <2>1. read # None /\ firstRead # None
    BY DEF LimitReachedAt
  <2>2. dayDate = today /\ ref = firstRead
    BY <2>1 DEF DayInv, ProcessKnowsTheDay
  <2>3. pnl = read - firstRead /\ dayStart = firstRead
    BY <2>1, <2>2 DEF DayInv, LossIsRead, TypeOK
  <2>. QED
    BY <2>3 DEF LimitReachedAt, Stopped
<1>. QED
  BY <1>1, DayInvariance, PTL

-----------------------------------------------------------------------------
\* A refusal needs a loss

\* A day without a loss is below the limit.  A percentage of a reference of a
\* few cents may round to 0, and such a limit is reached by no loss at all.
NoLossNoStop == \A start \in Nat : ~Risk!DailyStopped(0, start, Cfg)

LEMMA AbsoluteLimitNeedsLoss == Cfg.dailyLossCents \in Nat \ {0} => NoLossNoStop
BY DEF NoLossNoStop, Risk!DailyStopped

\* The loss the process holds for today is none, as after a boot or a rollover,
\* or the one the last balance a call read today shows: a failing read keeps it.
LossWasRead ==
    pc # "down" /\ dayDate = today =>
        \/ pnl = 0
        \/ lastRead # None /\ pnl = lastRead - ref

LEMMA BootLoss == Boot => LossWasRead'
BY DEF Boot, LossWasRead

LEMMA FireLoss == TypeOK /\ LossWasRead /\ Fire => LossWasRead'
<1> SUFFICES ASSUME TypeOK, LossWasRead, NEW bal \in Reads("fire_read"), pc = "idle",
                    lastRead' = (IF bal = None THEN lastRead ELSE bal),
                    Refresh(bal), UNCHANGED <<balance, today>>
             PROVE  LossWasRead'
  BY DEF Fire
<1>1. CASE bal # None /\ dayDate # today /\ Rollover(bal)
  BY <1>1 DEF Rollover, LossWasRead
<1>2. CASE bal # None /\ dayDate = today /\ pnl' = bal - ref /\ pc' = "decide"
           /\ UNCHANGED <<dayDate, ref, dayStart, meta>>
  BY <1>2 DEF LossWasRead
<1>3. CASE bal = None /\ pc' = "decide" /\ UNCHANGED <<dayDate, ref, dayStart, pnl, meta>>
  BY <1>3 DEF LossWasRead
<1>. QED
  BY <1>1, <1>2, <1>3 DEF Refresh

LEMMA OtherLoss ==
    DayInv /\ LossWasRead /\ (Persist \/ Admit \/ Refuse \/ BalanceMoves \/ NewDay \/ Stop)
        => LossWasRead'
<1> SUFFICES ASSUME DayInv, LossWasRead,
                    Persist \/ Admit \/ Refuse \/ BalanceMoves \/ NewDay \/ Stop
             PROVE  LossWasRead'
  OBVIOUS
<1>1. CASE Persist
  BY <1>1 DEF Persist, LossWasRead
<1>2. CASE Admit \/ Refuse
  BY <1>2 DEF Admit, Refuse, LossWasRead
<1>3. CASE BalanceMoves
  BY <1>3 DEF BalanceMoves, process, LossWasRead
<1>4. CASE NewDay
  <2>1. pc' # "down" => dayDate' # today'
    BY <1>4 DEF NewDay, process, DayInv, DatesOrdered, TypeOK, None
  <2>. QED
    BY <2>1 DEF LossWasRead
<1>5. CASE Stop
  BY <1>5 DEF Stop, LossWasRead
<1>. QED
  BY <1>1, <1>2, <1>3, <1>4, <1>5

LEMMA StepLoss == DayInv /\ LossWasRead /\ [Next]_vars => LossWasRead'
<1> SUFFICES ASSUME DayInv, LossWasRead, [Next]_vars PROVE LossWasRead'
  OBVIOUS
<1>1. CASE UNCHANGED vars
  BY <1>1 DEF vars, process, LossWasRead
<1>. QED
  BY <1>1, BootLoss, FireLoss, OtherLoss DEF Next, DayInv

\* _refresh_daily_pnl re-bases on the first balance of the day, so yesterday's
\* loss refuses no entry today: once a balance was read today a refusal has a
\* loss behind it that the last balance a call read shows, whatever restarts and
\* failed reads lie between.
THEOREM BreakerRearms == Reliable /\ NoLossNoStop => (Spec => []NoStopWithoutLoss)
<1> SUFFICES ASSUME Reliable, NoLossNoStop PROVE Spec => []NoStopWithoutLoss
  OBVIOUS
<1>1. Init => LossWasRead
  BY DEF Init, LossWasRead
<1>2. DayInv /\ LossWasRead => NoStopWithoutLoss
  <2> SUFFICES ASSUME DayInv, LossWasRead, pc = "decide", Stopped, firstRead # None
               PROVE  LimitReachedAt(lastRead)
    BY DEF NoStopWithoutLoss
  <2>1. dayDate = today /\ ref = firstRead /\ dayStart = ref /\ ref \in Nat
    BY DEF DayInv, ProcessKnowsTheDay, TypeOK
  <2>2. pnl # 0
    BY <2>1 DEF NoLossNoStop, Stopped
  <2>3. lastRead # None /\ pnl = lastRead - firstRead
    BY <2>1, <2>2 DEF LossWasRead
  <2>. QED
    BY <2>1, <2>3 DEF LimitReachedAt, Stopped
<1>. QED
  BY <1>1, <1>2, StepLoss, DayInvariance, PTL DEF Spec

\* The default limit is an absolute one: its breaker needs a loss, whatever
\* the account held at the day's start.
THEOREM AbsoluteBreakerRearms ==
    Reliable /\ Cfg.dailyLossCents \in Nat \ {0} => (Spec => []NoStopWithoutLoss)
BY BreakerRearms, AbsoluteLimitNeedsLoss

-----------------------------------------------------------------------------
\* The stop of a process that is never restarted

\* Once a call read a balance today, the process holds the loss it shows.
LossIsHeld ==
    lastRead # None =>
        pc # "down" /\ dayDate = today /\ pnl = lastRead - ref

LEMMA StepHeld ==
    Faults \cap {"restart", "crash"} = {} /\ Reliable /\ DayInv /\ LossIsHeld /\ [Next]_vars
        => LossIsHeld'
<1> SUFFICES ASSUME Faults \cap {"restart", "crash"} = {}, Reliable, DayInv, LossIsHeld,
                    [Next]_vars
             PROVE  LossIsHeld'
  OBVIOUS
<1>1. CASE Boot
  BY <1>1 DEF Boot, LossIsHeld
<1>2. CASE Persist
  BY <1>2 DEF Persist, LossIsHeld
<1>3. CASE Fire
  <2>1. PICK bal \in Reads("fire_read") :
          /\ pc = "idle" /\ Refresh(bal) /\ UNCHANGED <<balance, today>>
          /\ lastRead' = IF bal = None THEN lastRead ELSE bal
    BY <1>3 DEF Fire
  <2>2. bal \in Nat \union {None}
    BY ReadType DEF DayInv
  <2>3. CASE bal # None /\ dayDate # today /\ Rollover(bal)
    BY <2>1, <2>2, <2>3 DEF Rollover, LossIsHeld
  <2>4. CASE bal # None /\ dayDate = today /\ pnl' = bal - ref /\ pc' = "decide"
             /\ UNCHANGED <<dayDate, ref, dayStart, meta>>
    BY <2>1, <2>4 DEF LossIsHeld
  <2>5. CASE bal = None /\ pc' = "decide" /\ UNCHANGED <<dayDate, ref, dayStart, pnl, meta>>
    BY <2>1, <2>5 DEF LossIsHeld
  <2>. QED
    BY <2>1, <2>3, <2>4, <2>5 DEF Refresh
<1>4. CASE Admit \/ Refuse
  BY <1>4 DEF Admit, Refuse, LossIsHeld
<1>5. CASE BalanceMoves \/ UNCHANGED vars
  BY <1>5 DEF BalanceMoves, vars, process, LossIsHeld
<1>6. CASE NewDay
  BY <1>6 DEF NewDay, LossIsHeld
<1>7. ~Stop
  <2>1. ASSUME NEW f \in Faults
        PROVE  (CASE f = "restart" -> {"idle"}
                  [] f = "crash" -> {"decide"}
                  [] f = "torn" -> {"persist_boot", "persist_fire"}
                  [] OTHER -> {}) = {}
    BY <2>1 DEF Reliable
  <2>2. StopPoints = {}
    BY <2>1 DEF StopPoints
  <2>. QED
    BY <2>2 DEF Stop
<1>. QED
  BY <1>1, <1>2, <1>3, <1>4, <1>5, <1>6, <1>7 DEF Next

\* Executor keeps state.day_realized_pnl_cents through a failing read: in a
\* process that is not restarted no entry is admitted while the last balance a
\* call read today shows the limit reached.  The restart is what loses the stop.
THEOREM StopSurvivesFailedReads ==
    Faults \cap {"restart", "crash"} = {} /\ Reliable => (Spec => []StopSurvivesRestart)
<1> SUFFICES ASSUME Faults \cap {"restart", "crash"} = {}, Reliable
             PROVE  Spec => []StopSurvivesRestart
  OBVIOUS
<1>1. Init => LossIsHeld
  BY DEF Init, LossIsHeld
<1>2. DayInv /\ LossIsHeld /\ [Next]_vars => LossIsHeld'
  BY StepHeld
<1>3. DayInv /\ LossIsHeld => StopSurvivesRestart
  <2> SUFFICES ASSUME DayInv, LossIsHeld, pc = "decide", LimitReachedAt(lastRead)
               PROVE  Stopped
    BY DEF StopSurvivesRestart
  <2>1. lastRead # None /\ firstRead # None
    BY DEF LimitReachedAt
  <2>2. dayDate = today /\ pnl = lastRead - ref /\ ref = firstRead /\ dayStart = firstRead
    BY <2>1 DEF LossIsHeld, DayInv, ProcessKnowsTheDay, TypeOK
  <2>. QED
    BY <2>2 DEF LimitReachedAt, Stopped
<1>. QED
  BY <1>1, <1>2, <1>3, DayInvariance, PTL DEF Spec

-----------------------------------------------------------------------------
\* What is left of the breaker when the store or the boot's read fails

\* Whatever fails, a call that read a balance decides on what that read shows
\* against the process's reference for today.
OwnReadDecides ==
    pc = "decide" /\ read # None /\ dayDate = today =>
        (Stopped <=> Risk!DailyStopped(read - ref, ref, Cfg))

DatesInOrder == pc # "down" => dayDate <= today

ReadInv == TypeOK /\ DatesInOrder /\ LossIsRead

LEMMA StepRead == ReadInv /\ [Next]_vars => ReadInv'
<1> SUFFICES ASSUME ReadInv, [Next]_vars PROVE DatesInOrder' /\ LossIsRead'
  BY StepType DEF ReadInv
<1> USE DEF ReadInv, DatesInOrder, LossIsRead
<1>1. CASE Boot
  BY <1>1 DEF Boot, TypeOK
<1>2. CASE Persist
  BY <1>2 DEF Persist
<1>3. CASE Fire
  <2>1. PICK bal \in Reads("fire_read") :
          pc = "idle" /\ Observe(bal) /\ Refresh(bal) /\ UNCHANGED <<balance, today>>
    BY <1>3 DEF Fire
  <2>2. bal \in Nat \union {None} /\ today \in Nat
    BY ReadType DEF TypeOK
  <2>3. CASE bal # None /\ dayDate # today /\ Rollover(bal)
    BY <2>1, <2>2, <2>3 DEF Rollover, Observe, None
  <2>4. CASE bal # None /\ dayDate = today /\ pnl' = bal - ref /\ pc' = "decide"
             /\ UNCHANGED <<dayDate, ref, dayStart, meta>>
    BY <2>1, <2>4 DEF Observe
  <2>5. CASE bal = None /\ pc' = "decide" /\ UNCHANGED <<dayDate, ref, dayStart, pnl, meta>>
    BY <2>1, <2>5 DEF Observe
  <2>. QED
    BY <2>1, <2>3, <2>4, <2>5 DEF Refresh
<1>4. CASE Admit \/ Refuse
  BY <1>4 DEF Admit, Refuse
<1>5. CASE BalanceMoves \/ UNCHANGED vars
  BY <1>5 DEF BalanceMoves, vars, process
<1>6. CASE NewDay
  <2>1. today \in Nat /\ dayDate \in Nat \union {None}
    BY DEF TypeOK
  <2>. QED
    BY <1>6, <2>1 DEF NewDay, process, None
<1>7. CASE Stop
  BY <1>7 DEF Stop
<1>. QED
  BY <1>1, <1>2, <1>3, <1>4, <1>5, <1>6, <1>7 DEF Next

\* _refresh_daily_pnl, under every fault: a torn or failing write of the
\* reference, or a boot that cannot read the balance, may re-base the day, but
\* never disarms the stop of a call that reads a balance.
THEOREM StopStaysArmed == Spec => []OwnReadDecides
<1>1. Init => ReadInv
  BY InitType DEF Init, ReadInv, DatesInOrder, LossIsRead
<1>2. ReadInv => OwnReadDecides
  BY DEF ReadInv, LossIsRead, OwnReadDecides, Stopped, TypeOK
<1>. QED
  BY <1>1, <1>2, StepRead, PTL DEF Spec
=============================================================================
