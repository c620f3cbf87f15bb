------------------------- MODULE UltoimRunnerProofs -------------------------
(***************************************************************************)
(* Proofs about UltoimRunner, for any contracts, verdicts, marks and       *)
(* bands, queue and number of crashes and database errors.                 *)
(***************************************************************************)
EXTENDS UltoimRunner, FiniteSetTheorems, TLAPS

PickAct == [op : Sequel, pick : Pick]
WarnOps == {"warn_send", "warn_mark", "on_exit"}
WarnAct == [op : WarnOps, t : Tickers, status : WarningStatus]

\* The row of a pick is there, with its side, while the pick's later steps
\* are taken; only a pick that fires is alerted.
Recorded == {"mark_recorded", "claim", "on_fire", "send", "mark"}
Alerting == {"claim", "on_fire", "send", "mark"}
RowInHand ==
    /\ act.op \in Recorded =>
         /\ rows[<<act.pick.t, act.pick.i>>] # NoRow
         /\ rows[<<act.pick.t, act.pick.i>>].side = act.pick.side
         /\ rows[<<act.pick.t, act.pick.i>>].fired = act.pick.fired
    /\ act.op \in Alerting => act.pick.fired

Typed == TypeOK /\ RowInHand

-----------------------------------------------------------------------------
(* What the pick selection returns.                                        *)

LEMMA SubsetFinite == ASSUME NEW S \in SUBSET Tickers PROVE IsFiniteSet(S)
BY RunnerConstants, FS_Subset

LEMMA OrderType ==
    ASSUME NEW S \in SUBSET Tickers, NEW ts \in SetToSeqs(S)
    PROVE  ts \in Seq(S)
<1>1. Cardinality(S) \in Nat
  BY SubsetFinite, FS_CardinalityType
<1>2. ts \in [1..Cardinality(S) -> S]
  BY DEF SetToSeqs
<1>. QED
  BY <1>1, <1>2

LEMMA RankedType ==
    ASSUME NEW S \in SUBSET Tickers, NEW n, NEW taken, NEW ts \in Ranked(S, n, taken)
    PROVE  ts \in Seq(S)
<1>1. PICK T \in SUBSET S : ts \in SetToSeqs(T \ taken)
  BY DEF Ranked, kSubset
<1>2. ts \in Seq(T \ taken)
  BY <1>1, OrderType
<1>. QED
  BY <1>2

Verdicts == UNION {[S -> View] : S \in SUBSET Tickers}
Kinds == {"DELIVERED_CANDIDATE", "RESEARCH_YES", "YES_LIVE"}

LEMMA VerdictsType ==
    ASSUME NEW c \in Verdicts
    PROVE  DOMAIN c \in SUBSET Tickers /\ \A t \in DOMAIN c : c[t] \in View
BY DEF Verdicts

LEMMA PicksType ==
    ASSUME NEW c \in Verdicts, NEW ts \in Seq(DOMAIN c), NEW i \in Intervals,
           NEW fired \in BOOLEAN, NEW suppress \in BOOLEAN, NEW kind \in Kinds,
           fired => kind = "DELIVERED_CANDIDATE",
           suppress => i \in Selective /\ SelectiveTopN > 1
    PROVE  PicksOf(ts, i, c, fired, suppress, kind) \in Seq(Pick)
<1>1. ASSUME NEW k \in 1..Len(ts)
      PROVE  ts[k] \in Tickers /\ c[ts[k]].side \in {"NO", "YES"}
  BY VerdictsType DEF View
<1>2. ASSUME NEW k \in 1..Len(ts)
      PROVE  [t |-> ts[k], i |-> i, side |-> c[ts[k]].side, fired |-> fired,
              suppress |-> suppress, kind |-> kind] \in Pick
  BY <1>1 DEF Pick, Kinds
<1>. QED
  BY <1>2 DEF PicksOf

LEMMA SelectionType ==
    ASSUME NEW c \in Verdicts, NEW i \in Intervals
    PROVE  /\ \A main \in MainPicks(i, c) : main \in Seq(Pick)
           /\ \A taken : \A extra \in NotifyPicks(i, c, taken) : extra \in Seq(Pick)
           /\ \A taken : \A yes \in ResearchYes(i, c, taken) : yes \in Seq(Pick)
           /\ \A main : \A live \in LiveYes(i, c, main) : live \in Seq(Pick)
<1>0. <<>> \in Seq(Pick)
  OBVIOUS
<1>1. DOMAIN c \in SUBSET Tickers
  BY VerdictsType
<1>2. /\ Fired(c) \in SUBSET DOMAIN c /\ SelectiveChoices(c) \in SUBSET DOMAIN c
      /\ SideYes(c) \in SUBSET DOMAIN c
  BY DEF Fired, SelectiveChoices, SideYes
<1>3. ASSUME NEW S \in SUBSET DOMAIN c, NEW n, NEW taken, NEW ts \in Ranked(S, n, taken)
      PROVE  ts \in Seq(DOMAIN c)
  <2>1. ts \in Seq(S)
    BY <1>1, RankedType
  <2>. QED
    BY <2>1
<1>4. \A t \in DOMAIN c : <<t>> \in Seq(DOMAIN c)
  OBVIOUS
<1>5. /\ FALSE \in BOOLEAN /\ TRUE \in BOOLEAN /\ (SelectiveTopN > 1) \in BOOLEAN
      /\ "DELIVERED_CANDIDATE" \in Kinds /\ "RESEARCH_YES" \in Kinds /\ "YES_LIVE" \in Kinds
  BY DEF Kinds
<1>6. ASSUME NEW main \in MainPicks(i, c) PROVE main \in Seq(Pick)
  <2>1. \A ts \in Seq(DOMAIN c), fires \in BOOLEAN :
          PicksOf(ts, i, c, fires, FALSE, "DELIVERED_CANDIDATE") \in Seq(Pick)
    BY <1>5, PicksType
  <2>1a. \A ts \in Seq(DOMAIN c) : i \in Selective =>
           PicksOf(ts, i, c, TRUE, SelectiveTopN > 1, "DELIVERED_CANDIDATE") \in Seq(Pick)
    BY <1>5, PicksType
  <2>2. \/ \E ts \in Seq(DOMAIN c) : main = PicksOf(ts, i, c, FALSE, FALSE, "DELIVERED_CANDIDATE")
        \/ /\ i \in Selective
           /\ \E ts \in Seq(DOMAIN c) :
                main = PicksOf(ts, i, c, TRUE, SelectiveTopN > 1, "DELIVERED_CANDIDATE")
        \/ \E ts \in Seq(DOMAIN c) : main = PicksOf(ts, i, c, TRUE, FALSE, "DELIVERED_CANDIDATE")
    BY <1>2, <1>3, <1>4 DEF MainPicks
  <2>. QED
    BY <1>5, <2>1, <2>1a, <2>2
<1>7. ASSUME NEW taken, NEW extra \in NotifyPicks(i, c, taken) PROVE extra \in Seq(Pick)
  <2>1. \A ts \in Seq(DOMAIN c) :
          PicksOf(ts, i, c, TRUE, FALSE, "DELIVERED_CANDIDATE") \in Seq(Pick)
    BY <1>5, PicksType
  <2>2. extra = <<>> \/ \E ts \in Seq(DOMAIN c) :
          extra = PicksOf(ts, i, c, TRUE, FALSE, "DELIVERED_CANDIDATE")
    BY <1>3 DEF NotifyPicks
  <2>. QED
    BY <1>0, <2>1, <2>2
<1>8. ASSUME NEW taken, NEW yes \in ResearchYes(i, c, taken) PROVE yes \in Seq(Pick)
  <2>1. \A ts \in Seq(DOMAIN c) : PicksOf(ts, i, c, FALSE, FALSE, "RESEARCH_YES") \in Seq(Pick)
    BY <1>5, PicksType
  <2>2. yes = <<>> \/ \E t \in DOMAIN c : yes = PicksOf(<<t>>, i, c, FALSE, FALSE, "RESEARCH_YES")
    BY <1>2 DEF ResearchYes
  <2>. QED
    BY <1>0, <1>4, <2>1, <2>2
<1>9. \A main : \A live \in LiveYes(i, c, main) : live \in Seq(Pick)
  <2> SUFFICES ASSUME NEW main, NEW live \in LiveYes(i, c, main) PROVE live \in Seq(Pick)
    OBVIOUS
  <2> DEFINE S == IF i \in Selective
                  THEN TickersOf(main) \cap SideYes(c) \cap SelectiveChoices(c) ELSE SideYes(c)
  <2>1. S \in SUBSET DOMAIN c
    BY <1>2
  <2>2. \A ts \in SetToSeqs(S) : ts \in Seq(DOMAIN c)
    <3> HIDE DEF S
    <3>1. ASSUME NEW ts \in SetToSeqs(S) PROVE ts \in Seq(S)
      BY <1>1, <2>1, OrderType
    <3>. QED
      BY <2>1, <3>1
  <2>3. \A ts \in Seq(DOMAIN c) : PicksOf(ts, i, c, FALSE, FALSE, "YES_LIVE") \in Seq(Pick)
    BY <1>5, PicksType
  <2>4. live = <<>> \/ \E ts \in SetToSeqs(S) : live = PicksOf(ts, i, c, FALSE, FALSE, "YES_LIVE")
    BY DEF LiveYes
  <2>. QED
    BY <1>0, <2>2, <2>3, <2>4
<1>. QED
  BY <1>6, <1>7, <1>8, <1>9

-----------------------------------------------------------------------------
(* The action in progress.                                                 *)

LEMMA ActCases ==
    ASSUME TypeOK
    PROVE  /\ act.op \in Sequel => act \in PickAct
           /\ act.op \in WarnOps => act \in WarnAct
           /\ act = NoAct \/ act \in PickAct \/ act \in WarnAct
           /\ act = NoAct <=> act.op = "none"
BY DEF TypeOK, Act, NoAct, PickAct, WarnAct, WarnOps, Sequel

LEMMA PickParts ==
    ASSUME NEW a \in PickAct
    PROVE  /\ a.pick \in Pick /\ a.pick.t \in Tickers /\ a.pick.i \in Intervals
           /\ \A op \in Sequel : /\ [a EXCEPT !.op = op] \in PickAct
                                /\ [a EXCEPT !.op = op].op = op
                                /\ [a EXCEPT !.op = op].pick = a.pick
BY DEF PickAct, Pick

LEMMA WarnParts ==
    ASSUME NEW a \in WarnAct
    PROVE  /\ a.t \in Tickers /\ a.status \in WarningStatus
           /\ \A op \in WarnOps, st \in WarningStatus :
                /\ [a EXCEPT !.op = op] \in WarnAct
                /\ [a EXCEPT !.op = op, !.status = st] \in WarnAct
BY DEF WarnAct

LEMMA ActsTyped == PickAct \subseteq Act /\ WarnAct \subseteq Act
BY DEF Act, PickAct, WarnAct, WarnOps

LEMMA TickersOfType == ASSUME NEW picks \in Seq(Pick) PROVE TickersOf(picks) \subseteq Tickers
<1>1. \A k \in DOMAIN picks : picks[k] \in Pick
  OBVIOUS
<1>. QED
  BY <1>1 DEF TickersOf, Pick

LEMMA InFlightType == ASSUME TypeOK PROVE InFlight \subseteq Tickers
<1>1. TickersOf(todo) \subseteq Tickers
  BY TickersOfType DEF TypeOK
<1>2. /\ act.op \in Sequel => act.pick.t \in Tickers
      /\ act # NoAct /\ act.op \notin Sequel => act.t \in Tickers
  BY ActCases, PickParts, WarnParts DEF PickAct
<1>. QED
  BY <1>1, <1>2 DEF InFlight

-----------------------------------------------------------------------------
(* Type correctness.                                                       *)

CallsType ==
    /\ offers \in [Tickers -> Nat]
    /\ yesOffers \in [Tickers -> Nat] /\ yesPlaced \in [Tickers -> Nat]
    /\ cards \in [Tickers -> Nat] /\ exits \in [Tickers -> Nat]

LEMMA CallsTyped == TypeOK => CallsType /\ calm \in [Tickers -> Nat]
BY DEF TypeOK, CallsType

LEMMA NaturalBounds ==
    /\ LastTick \in Nat /\ QueueMax \in Nat /\ MaxFaults \in Nat /\ ConfirmTicks \in Nat
    /\ ConfirmCycles \in Nat /\ PruneAfter \in Nat
BY RunnerConstants

LEMMA InitType == Init => TypeOK
<1>1. NoJob \in Job
  <2>1. <<>> \in [{} -> View]
    OBVIOUS
  <2>. QED
    BY <2>1 DEF NoJob, Job
<1>2. [ti \in Tickers \X Intervals |-> NoRow] \in [Tickers \X Intervals -> Row \cup {NoRow}]
  OBVIOUS
<1>3. jobs = <<>> /\ todo = <<>> => jobs \in Seq(Job) /\ todo \in Seq(Pick) /\ Len(jobs) = 0
  OBVIOUS
<1>4. 0 \in 0..LastTick /\ 0 \in 0..MaxFaults /\ 0 <= QueueMax
  BY RunnerConstants
<1>5. NoFlip \in [count : Nat, since : Nat]
  BY DEF NoFlip
<1>. QED
  BY <1>1, <1>2, <1>3, <1>4, <1>5 DEF Init, TypeOK, WarningStatus

LEMMA ObserveType == ASSUME TypeOK, Observe PROVE TypeOK'
<1>0. PICK shown \in SUBSET Tickers :
        \E cands \in {c \in [shown -> UNION {Views[t] : t \in shown}] :
                        \A t \in shown : c[t] \in Views[t]} :
          jobs' = IF shown # {} /\ HasRoom
                  THEN Append(jobs, [at |-> now', cands |-> cands]) ELSE jobs
  BY DEF Observe
<1>1. PICK cands \in [shown -> UNION {Views[t] : t \in shown}] :
        /\ \A t \in shown : cands[t] \in Views[t]
        /\ jobs' = IF shown # {} /\ HasRoom
                   THEN Append(jobs, [at |-> now', cands |-> cands]) ELSE jobs
  BY <1>0
<1>2. now' \in 0..LastTick /\ now' \in Nat
  BY NaturalBounds DEF Observe, TypeOK
<1>3. cands \in [shown -> View]
  BY <1>1, RunnerConstants
<1>4. [at |-> now', cands |-> cands] \in Job
  BY <1>2, <1>3 DEF Job
<1>5. jobs' \in Seq(Job) /\ Len(jobs') <= QueueMax
  BY <1>1, <1>4, RunnerConstants DEF HasRoom, TypeOK
<1>. QED
  BY <1>2, <1>5 DEF Observe, TypeOK, worker, ledger, calls, ghosts

LEMMA TakeType == ASSUME TypeOK, TakeJob PROVE TypeOK'
<1>1. Head(jobs) \in Job /\ Tail(jobs) \in Seq(Job) /\ Len(Tail(jobs)) <= QueueMax
  BY RunnerConstants DEF TakeJob, TypeOK
<1>2. DOMAIN Head(jobs).cands \in SUBSET Tickers
  BY <1>1 DEF Job
<1>3. flip' \in [Tickers -> [count : Nat, since : Nat]]
  BY DEF TakeJob, TypeOK, NoFlip
<1>. QED
  BY <1>1, <1>2, <1>3 DEF TakeJob, TypeOK, ledger, calls, ghosts

LEMMA DecideType == ASSUME TypeOK, NEW i \in Intervals, DecideInterval(i) PROVE TypeOK'
<1>1. job.cands \in Verdicts
  BY DEF TypeOK, Job, Verdicts
<1>2. todo' \in Seq(Pick)
  <2>1. CASE ReportLocked(i)
    BY <2>1 DEF DecideInterval, TypeOK
  <2>2. CASE ~ReportLocked(i)
    <3> DEFINE taken(main) == IF i \in Selective /\ SelectiveChoices(job.cands) = {}
                              THEN {} ELSE TickersOf(main)
    <3>1a. PICK main \in MainPicks(i, job.cands) :
             \E extra \in NotifyPicks(i, job.cands, taken(main)) :
             \E yes \in ResearchYes(i, job.cands, taken(main) \cup TickersOf(extra)) :
             \E live \in LiveYes(i, job.cands, main) : todo' = main \o extra \o yes \o live
      BY <2>2 DEF DecideInterval
    <3> HIDE DEF taken
    <3>1b. PICK extra \in NotifyPicks(i, job.cands, taken(main)) :
             \E yes \in ResearchYes(i, job.cands, taken(main) \cup TickersOf(extra)) :
             \E live \in LiveYes(i, job.cands, main) : todo' = main \o extra \o yes \o live
      BY <3>1a
    <3>1. PICK yes \in ResearchYes(i, job.cands, taken(main) \cup TickersOf(extra)),
               live \in LiveYes(i, job.cands, main) : todo' = main \o extra \o yes \o live
      BY <3>1b
    <3>2. main \in Seq(Pick) /\ extra \in Seq(Pick) /\ yes \in Seq(Pick) /\ live \in Seq(Pick)
      BY <1>1, SelectionType
    <3>. QED
      BY <3>1, <3>2
  <2>. QED
    BY <2>1, <2>2
<1>3. reportLock' \subseteq Intervals
  BY DEF DecideInterval, TypeOK
<1>. QED
  BY <1>2, <1>3 DEF DecideInterval, TypeOK, queue, calls, ghosts

LEMMA StartType == ASSUME TypeOK, StartPick PROVE TypeOK'
<1>1. Head(todo) \in Pick /\ Tail(todo) \in Seq(Pick)
  BY DEF StartPick, TypeOK
<1>2. act' \in PickAct
  BY <1>1 DEF StartPick, PickAct, Sequel
<1>. QED
  BY <1>1, <1>2, ActsTyped DEF StartPick, TypeOK, queue, ledger, calls, ghosts

\* The steps of a pick, by what they change.
LEMMA MarkedRowType ==
    ASSUME TypeOK, RowInHand, act.op \in Recorded, NEW status \in {"RECORDED", "ANSWERED"},
           MarkRow(status)
    PROVE  /\ rows' \in [Tickers \X Intervals -> Row \cup {NoRow}]
           /\ \A x \in Tickers \X Intervals : rows[x] # NoRow => rows'[x] # NoRow
<1>1. act \in PickAct /\ act.pick.t \in Tickers /\ act.pick.i \in Intervals
  BY ActCases, PickParts DEF Recorded, Sequel
<1> DEFINE x == <<act.pick.t, act.pick.i>>
<1>2. x \in Tickers \X Intervals /\ rows[x] # NoRow
  BY <1>1 DEF RowInHand
<1>3. rows[x] \in Row
  BY <1>2 DEF TypeOK
<1>4. [rows[x] EXCEPT !.status = status] \in Row
  BY <1>3 DEF Row
<1>5. rows' = [rows EXCEPT ![x] = [rows[x] EXCEPT !.status = status]]
  BY DEF MarkRow
<1>6. \A row \in Row : row # NoRow
  BY DEF Row, NoRow
<1> HIDE DEF x
<1>. QED
  BY <1>2, <1>4, <1>5, <1>6 DEF TypeOK

LEMMA PickStepType ==
    ASSUME TypeOK, RowInHand,
           \/ RecordDecision \/ MarkRecorded \/ ClaimAlert \/ OnFire \/ SendCard
           \/ MarkDelivery \/ OfferYes \/ ClaimYes
    PROVE  TypeOK'
<1>0. act.op \in Sequel
  BY DEF RecordDecision, MarkRecorded, ClaimAlert, OnFire, SendCard, MarkDelivery,
         OfferYes, ClaimYes, Doing, Sequel
<1>1. act \in PickAct /\ act.pick \in Pick /\ act.pick.t \in Tickers /\ act.pick.i \in Intervals
  BY <1>0, ActCases, PickParts
<1>2. \A op \in Sequel : Then(op) => act' \in Act \cup {NoAct}
  BY <1>1, PickParts, ActsTyped DEF Then
<1>3. {"mark_recorded", "claim", "on_fire", "send", "mark", "yes_claim"} \subseteq Sequel
  BY DEF Sequel
<1>4. CASE RecordDecision
  <2> DEFINE new == [fired |-> act.pick.fired, side |-> act.pick.side,
                     status |-> IF act.pick.kind = "RESEARCH_YES" THEN "RESEARCH" ELSE "PENDING"]
  <2>1. new \in Row
    BY <1>1 DEF Row, Pick
  <2>2. rows' \in {rows, [rows EXCEPT ![<<act.pick.t, act.pick.i>>] = new]}
    BY <1>4 DEF RecordDecision
  <2>3. rows' \in [Tickers \X Intervals -> Row \cup {NoRow}]
    <3> HIDE DEF new
    <3>. QED
      BY <1>1, <2>1, <2>2 DEF TypeOK
  <2>4. act' \in Act \cup {NoAct}
    BY <1>2, <1>3, <1>4 DEF RecordDecision
  <2>. QED
    BY <1>4, <2>3, <2>4 DEF RecordDecision, TypeOK, queue, workerRest, calls, ghosts
<1>5. CASE MarkRecorded \/ MarkDelivery
  <2>1. rows' \in [Tickers \X Intervals -> Row \cup {NoRow}]
    BY <1>5, MarkedRowType DEF MarkRecorded, MarkDelivery, Doing, Recorded
  <2>. QED
    BY <1>5, <2>1 DEF MarkRecorded, MarkDelivery, TypeOK, queue, workerRest, calls, ghosts
<1>6. CASE ClaimAlert \/ ClaimYes
  <2>1. alertLock' \subseteq Tickers \X {"NO", "YES"}
    BY <1>1, <1>6 DEF ClaimAlert, ClaimYes, TypeOK
  <2>2. act' \in Act \cup {NoAct}
    BY <1>2, <1>3, <1>6 DEF ClaimAlert, ClaimYes
  <2>. QED
    BY <1>6, <2>1, <2>2 DEF ClaimAlert, ClaimYes, TypeOK, queue, workerRest, calls, ghosts
<1>7. CASE OnFire \/ SendCard \/ OfferYes
  <2>1. act' \in Act \cup {NoAct}
    BY <1>2, <1>3, <1>7 DEF OnFire, SendCard, OfferYes
  <2>2. CallsType
    BY CallsTyped
  <2>3. CallsType'
    BY <1>1, <1>7, <2>2 DEF OnFire, SendCard, OfferYes, CallsType
  <2>4. {offers', yesOffers', yesPlaced', cards', exits'} \subseteq [Tickers -> Nat]
    BY <2>3 DEF CallsType
  <2>5. calm' \in [Tickers -> Nat]
    BY <1>7, CallsTyped DEF OnFire, SendCard, OfferYes, ghosts
  <2>. QED
    BY <1>7, <2>1, <2>4, <2>5
       DEF OnFire, SendCard, OfferYes, TypeOK, queue, workerRest, ledger, ghosts
<1>. QED
  BY <1>4, <1>5, <1>6, <1>7

LEMMA DebouncedType ==
    ASSUME TypeOK, NEW t \in Tickers, NEW c, NEW at \in Nat
    PROVE  Debounced(t, c, at) \in [count : Nat, since : Nat]
<1>1. flip[t] \in [count : Nat, since : Nat]
  BY DEF TypeOK
<1>2. [flip[t] EXCEPT !.count = @ + 1] \in [count : Nat, since : Nat]
  BY <1>1
<1>3. NoFlip \in [count : Nat, since : Nat] /\ [count |-> 1, since |-> at] \in [count : Nat, since : Nat]
  BY DEF NoFlip
<1>. QED
  BY <1>2, <1>3 DEF Debounced

LEMMA WatchType == ASSUME TypeOK, NEW t \in Tickers, Watch(t) PROVE TypeOK'
<1> DEFINE c == job.cands[t]
           entered == ~WarningRecorded(t) /\ FiredRows(t) # {}
           f == Debounced(t, c, job.at)
           raises == entered /\ Sustained(f, job.at)
<1>1. /\ calm' = [calm EXCEPT ![t] = IF entered /\ FlipSeen(t, c) THEN @ ELSE job.at]
      /\ flip' = [flip EXCEPT ![t] = IF WarningRecorded(t) THEN NoFlip
                                     ELSE IF entered THEN f ELSE @]
      /\ raises => /\ warnings' = [warnings EXCEPT ![t] = "PENDING"]
                   /\ act' = [op |-> "warn_send", t |-> t, status |-> "none"]
      /\ ~raises => UNCHANGED <<warnings, act>>
      /\ toWatch' = toWatch \ {t}
  BY DEF Watch
<1>2. job.at \in Nat
  BY DEF TypeOK, Job
<1>3. f \in [count : Nat, since : Nat] /\ NoFlip \in [count : Nat, since : Nat]
  BY <1>2, DebouncedType DEF NoFlip
<1> HIDE DEF c, entered, f, raises
<1>4. flip' \in [Tickers -> [count : Nat, since : Nat]]
  BY <1>1, <1>3 DEF TypeOK
<1>5. calm' \in [Tickers -> Nat]
  BY <1>1, <1>2, CallsTyped
<1>6. [op |-> "warn_send", t |-> t, status |-> "none"] \in Act
  BY DEF Act, WarningStatus
<1>7. warnings' \in [Tickers -> WarningStatus] /\ act' \in Act \cup {NoAct}
  BY <1>1, <1>6 DEF TypeOK, WarningStatus
<1>8. toWatch' \subseteq Tickers
  BY <1>1 DEF TypeOK
<1>9. {offers', yesOffers', yesPlaced', cards', exits', calm'} \subseteq [Tickers -> Nat]
  BY <1>5, CallsTyped DEF CallsType, Watch, calls
<1>10. /\ now' \in 0..LastTick /\ jobs' \in Seq(Job) /\ Len(jobs') <= QueueMax
       /\ job' \in Job /\ toDecide' \subseteq Intervals /\ todo' \in Seq(Pick)
       /\ reportLock' \subseteq Intervals /\ alertLock' \subseteq Tickers \X {"NO", "YES"}
       /\ rows' \in [Tickers \X Intervals -> Row \cup {NoRow}]
       /\ outbox' \in [Tickers -> {"none", "waiting", "SENT", "DEAD_LETTER"}]
       /\ lost' \cup unpriced' \subseteq Tickers /\ faults' \in 0..MaxFaults
  BY DEF Watch, TypeOK, queue
<1>. QED
  BY <1>4, <1>7, <1>8, <1>9, <1>10 DEF TypeOK

LEMMA WarnStepType ==
    ASSUME TypeOK, WarnSend \/ WarnMark \/ OnExit PROVE TypeOK'
<1>0. act.op \in WarnOps
  BY DEF WarnSend, WarnMark, OnExit, Doing, WarnOps
<1>1. act \in WarnAct /\ act.t \in Tickers /\ act.status \in WarningStatus
  BY <1>0, ActCases, WarnParts
<1>2. \A op \in WarnOps, st \in WarningStatus :
        [act EXCEPT !.op = op] \in Act /\ [act EXCEPT !.op = op, !.status = st] \in Act
  BY <1>1, WarnParts, ActsTyped
<1>3. CASE WarnSend
  <2>1. act' \in Act
    BY <1>2, <1>3 DEF WarnSend, WarnOps, WarningStatus
  <2>2. outbox' \in [Tickers -> {"none", "waiting", "SENT", "DEAD_LETTER"}]
    BY <1>1, <1>3 DEF WarnSend, TypeOK
  <2>. QED
    BY <1>3, <2>1, <2>2 DEF WarnSend, TypeOK, queue, workerRest, ledger, calls, ghosts
<1>4. CASE WarnMark
  <2>0. "on_exit" \in WarnOps /\ act' = [act EXCEPT !.op = "on_exit"]
    BY <1>4 DEF WarnMark, Then, WarnOps
  <2>1. act' \in Act
    BY <1>1, <1>2, <2>0
  <2>2. warnings' \in [Tickers -> WarningStatus]
    BY <1>1, <1>4 DEF WarnMark, TypeOK
  <2>. QED
    BY <1>4, <2>1, <2>2 DEF WarnMark, TypeOK, queue, workerRest, calls, ghosts
<1>5. CASE OnExit
  <2>0. CallsType /\ unpriced \subseteq Tickers
    BY CallsTyped DEF TypeOK
  <2>1. CallsType' /\ unpriced' \subseteq Tickers
    BY <1>1, <1>5, <2>0 DEF OnExit, CallsType
  <2>2. {offers', yesOffers', yesPlaced', cards', exits'} \subseteq [Tickers -> Nat] /\ calm' \in [Tickers -> Nat]
    BY <1>5, <2>1, CallsTyped DEF CallsType, OnExit
  <2>3. flip' \in [Tickers -> [count : Nat, since : Nat]]
    BY <1>5 DEF OnExit, TypeOK, NoFlip
  <2>4. lost' \cup unpriced' \subseteq Tickers
    BY <1>5, <2>1 DEF OnExit, TypeOK
  <2>5. /\ UNCHANGED <<now, jobs, job, toDecide, todo, toWatch, ledger, outbox, faults>>
        /\ act' \in Act \cup {NoAct}
    BY <1>5 DEF OnExit, queue, workerRest
  <2>6. {offers', yesOffers', yesPlaced', cards', exits', calm'} \subseteq [Tickers -> Nat]
    BY <2>2
  <2>. QED
    BY <2>3, <2>4, <2>5, <2>6 DEF TypeOK, ledger
<1>. QED
  BY <1>3, <1>4, <1>5

LEMMA RestType ==
    ASSUME TypeOK,
           \/ FinishJob \/ Crash \/ LedgerError
           \/ \E t \in Tickers : OutboxFinishes(t) \/ RefreshWarnings(t)
    PROVE  TypeOK'
<1>1. NoJob \in Job
  <2>1. <<>> \in [{} -> View]
    OBVIOUS
  <2>. QED
    BY <2>1 DEF NoJob, Job
<1>2. CASE FinishJob
  BY <1>1, <1>2 DEF FinishJob, TypeOK, queue, ledger, calls, ghosts
<1>3. DropJob => /\ job' \in Job /\ toDecide' \subseteq Intervals /\ todo' \in Seq(Pick)
                 /\ act' \in Act \cup {NoAct} /\ toWatch' \subseteq Tickers /\ lost' \subseteq Tickers
  <2>1. <<>> \in Seq(Pick)
    OBVIOUS
  <2>. QED
    BY <1>1, <2>1, InFlightType DEF DropJob, TypeOK
<1>4. Crash \/ LedgerError => faults' \in 0..MaxFaults
  BY NaturalBounds DEF Crash, LedgerError, TypeOK
<1>5. CASE Crash
  <2>1. <<>> \in Seq(Job) /\ Len(<<>>) <= QueueMax
    BY NaturalBounds
  <2>2. flip' \in [Tickers -> [count : Nat, since : Nat]]
    BY <1>5 DEF Crash, NoFlip
  <2>. QED
    BY <1>3, <1>4, <1>5, <2>1, <2>2 DEF Crash, TypeOK, ledger, calls
<1>6. CASE LedgerError
  <2>1. CASE Doing("yes") \/ Doing("yes_claim")
    <3>1. act.pick.t \in Tickers
      BY <2>1, ActCases, PickParts DEF Doing, Sequel
    <3>. QED
      BY <1>4, <1>6, <2>1, <3>1 DEF LedgerError, TypeOK, queue, workerRest, ledger, calls
  <2>2. CASE ~(Doing("yes") \/ Doing("yes_claim"))
    BY <1>3, <1>4, <1>6, <2>2 DEF LedgerError, TypeOK, queue, ledger, calls
  <2>. QED
    BY <2>1, <2>2
<1>7. ASSUME NEW t \in Tickers, OutboxFinishes(t) PROVE TypeOK'
  BY <1>7 DEF OutboxFinishes, TypeOK, queue, worker, ledger, calls, ghosts
<1>8. ASSUME NEW t \in Tickers, RefreshWarnings(t) PROVE TypeOK'
  BY <1>8 DEF RefreshWarnings, TypeOK, WarningStatus, queue, worker, calls, ghosts
<1>. QED
  BY <1>2, <1>5, <1>6, <1>7, <1>8

LEMMA StepType == Typed /\ [Next]_vars => TypeOK'
<1> SUFFICES ASSUME TypeOK, RowInHand, [Next]_vars PROVE TypeOK'
  BY DEF Typed
<1>1. CASE UNCHANGED vars
  BY <1>1 DEF vars, queue, worker, ledger, calls, ghosts, TypeOK
<1>2. CASE WorkerStep
  BY <1>2, TakeType, DecideType, StartType, PickStepType, WatchType, WarnStepType, RestType
     DEF WorkerStep
<1>3. CASE \E t \in Tickers : OutboxFinishes(t) \/ RefreshWarnings(t)
  BY <1>3, RestType
<1>. QED
  BY <1>1, <1>2, <1>3, ObserveType, RestType DEF Next

\* A pick goes on to its next step unchanged.
LEMMA ThenKeepsPick ==
    ASSUME act \in PickAct
    PROVE  \A op \in Sequel : Then(op) => act'.op = op /\ act'.pick = act.pick
BY PickParts DEF Then

LEMMA StepRow == Typed /\ [Next]_vars => RowInHand'
<1> SUFFICES ASSUME TypeOK, RowInHand, [Next]_vars PROVE RowInHand'
  BY DEF Typed
<1>1. CASE UNCHANGED <<act, rows>>
  BY <1>1 DEF RowInHand
<1>2. CASE act'.op \notin Recorded
  BY <1>2 DEF RowInHand, Recorded, Alerting
<1>3. NoAct.op \notin Recorded
  BY DEF NoAct, Recorded
<1>0. {"mark_recorded", "claim", "on_fire", "send", "mark", "yes_claim"} \subseteq Sequel
  BY DEF Sequel
<1>4. CASE RecordDecision
  <2>1. act \in PickAct /\ act.pick \in Pick /\ act.pick.t \in Tickers /\ act.pick.i \in Intervals
    BY <1>4, ActCases, PickParts DEF RecordDecision, Doing, Sequel
  <2> DEFINE x == <<act.pick.t, act.pick.i>>
             new == [fired |-> act.pick.fired, side |-> act.pick.side,
                     status |-> IF act.pick.kind = "RESEARCH_YES" THEN "RESEARCH" ELSE "PENDING"]
  <2>2. CASE rows[x] # NoRow \/ act.pick.kind = "RESEARCH_YES"
    BY <1>2, <1>3, <1>4, <2>2 DEF RecordDecision
  <2>3. CASE rows[x] = NoRow /\ act.pick.kind # "RESEARCH_YES"
    <3>1. /\ rows' = [rows EXCEPT ![x] = new] /\ act'.pick = act.pick
          /\ act'.op = IF act.pick.fired THEN "claim" ELSE "mark_recorded"
      BY <1>0, <1>4, <2>1, <2>3, ThenKeepsPick DEF RecordDecision
    <3>2. new # NoRow /\ new.side = act.pick.side /\ new.fired = act.pick.fired
      BY DEF NoRow
    <3>3. x \in Tickers \X Intervals
      BY <2>1
    <3> HIDE DEF new
    <3>. QED
      BY <3>1, <3>2, <3>3 DEF RowInHand, TypeOK, Alerting
  <2>. QED
    BY <2>2, <2>3
<1>5. CASE ClaimAlert \/ OnFire \/ SendCard
  <2>1. act.op \in Recorded /\ act \in PickAct
    BY <1>5, ActCases DEF ClaimAlert, OnFire, SendCard, Doing, Recorded, Sequel
  <2>2. act'.pick = act.pick /\ rows' = rows /\ act.op \in Alerting
    BY <1>0, <1>5, <2>1, ThenKeepsPick DEF ClaimAlert, OnFire, SendCard, ledger, Doing, Alerting
  <2>. QED
    BY <2>1, <2>2 DEF RowInHand
<1>6. CASE MarkRecorded \/ MarkDelivery \/ OnExit \/ ClaimYes
  BY <1>2, <1>3, <1>6 DEF MarkRecorded, MarkDelivery, OnExit, ClaimYes
<1>7. CASE OfferYes
  <2>1. act \in PickAct
    BY <1>7, ActCases DEF OfferYes, Doing, Sequel
  <2>2. act'.op \in {"none", "yes_claim"}
    BY <1>0, <1>7, <2>1, ThenKeepsPick DEF OfferYes, NoAct
  <2>. QED
    BY <1>2, <2>2 DEF Recorded
<1>8. CASE StartPick
  BY <1>2, <1>8 DEF StartPick, Recorded
<1>9. CASE WarnSend \/ WarnMark
  <2>1. act \in WarnAct
    BY <1>9, ActCases DEF WarnSend, WarnMark, Doing, WarnOps
  <2>2. act'.op \in {"warn_mark", "on_exit"}
    BY <1>9, <2>1 DEF WarnSend, WarnMark, Then, WarnAct
  <2>. QED
    BY <1>2, <2>2 DEF Recorded
<1>10. ASSUME NEW t \in Tickers, Watch(t) PROVE RowInHand'
  <2>1. UNCHANGED rows /\ (act' = act \/ act'.op = "warn_send")
    BY <1>10 DEF Watch
  <2>. QED
    BY <1>1, <1>2, <2>1 DEF Recorded
<1>11. CASE Crash \/ LedgerError
  <2>1. UNCHANGED rows /\ (act' = act \/ act' = NoAct)
    BY <1>11 DEF Crash, LedgerError, DropJob, ledger
  <2>. QED
    BY <1>1, <1>2, <1>3, <2>1
<1>12. CASE TakeJob \/ FinishJob \/ Observe \/ \E i \in Intervals : DecideInterval(i)
  BY <1>1, <1>12 DEF TakeJob, FinishJob, Observe, DecideInterval, worker, ledger
<1>13. CASE \E t \in Tickers : OutboxFinishes(t) \/ RefreshWarnings(t)
  BY <1>1, <1>13 DEF OutboxFinishes, RefreshWarnings, worker, ledger
<1>14. CASE UNCHANGED vars
  BY <1>1, <1>14 DEF vars, worker, ledger
<1>. QED
  BY <1>4, <1>5, <1>6, <1>7, <1>8, <1>9, <1>10, <1>11, <1>12, <1>13, <1>14
     DEF Next, WorkerStep

LEMMA TypedInvariance == Spec => []Typed
<1>1. Init => Typed
  BY InitType DEF Init, Typed, RowInHand, NoAct, Recorded, Alerting
<1>2. Typed /\ [Next]_vars => Typed'
  BY StepType, StepRow DEF Typed
<1>. QED
  BY <1>1, <1>2, PTL DEF Spec

\* Every variable keeps its type, for any contracts, marks, queue and faults;
\* a pick's row is there when its status is written.
THEOREM TypeCorrect == Spec => []TypeOK
<1>1. Typed => TypeOK
  BY DEF Typed
<1>. QED
  BY <1>1, TypedInvariance, PTL

-----------------------------------------------------------------------------
(* One alert: the lock is claimed before the order and the card, so a      *)
(* contract without it has neither.                                        *)

AlertInv ==
    \A t \in Tickers :
       /\ offers[t] <= 1 /\ cards[t] <= 1
       /\ <<t, "NO">> \notin alertLock => offers[t] = 0 /\ cards[t] = 0
       /\ act.op = "on_fire" /\ act.pick.t = t =>
            <<t, "NO">> \in alertLock /\ offers[t] = 0 /\ cards[t] = 0
       /\ act.op = "send" /\ act.pick.t = t =>
            <<t, "NO">> \in alertLock /\ cards[t] = 0

\* What every step but the claim, the order and the card leaves alone.
Aside ==
    /\ alertLock \subseteq alertLock' /\ UNCHANGED <<offers, cards>>
    /\ act' = act \/ act'.op \notin {"claim", "on_fire", "send"}
       \/ (act.op = "record" /\ act'.op = "claim")

LEMMA AsideSteps ==
    ASSUME TypeOK, [Next]_vars PROVE Aside \/ ClaimAlert \/ OnFire \/ SendCard
<1>0. {"mark_recorded", "claim", "on_fire", "send", "mark", "yes_claim"} \subseteq Sequel
  BY DEF Sequel
<1>1. NoAct.op = "none"
  BY DEF NoAct
<1>2. CASE RecordDecision
  <2>1. act \in PickAct
    BY <1>2, ActCases DEF RecordDecision, Doing, Sequel
  <2>2. act.op = "record" /\ act'.op \in {"none", "claim", "mark_recorded"}
    BY <1>0, <1>1, <1>2, <2>1, ThenKeepsPick DEF RecordDecision, Doing
  <2>. QED
    BY <1>2, <2>2 DEF Aside, RecordDecision, calls
<1>3. CASE MarkRecorded \/ MarkDelivery \/ ClaimYes
  BY <1>1, <1>3 DEF Aside, MarkRecorded, MarkDelivery, ClaimYes, calls
<1>4. CASE OfferYes
  <2>1. act \in PickAct
    BY <1>4, ActCases DEF OfferYes, Doing, Sequel
  <2>2. act'.op \in {"none", "yes_claim"}
    BY <1>0, <1>1, <1>4, <2>1, ThenKeepsPick DEF OfferYes
  <2>. QED
    BY <1>4, <2>2 DEF Aside, OfferYes, ledger
<1>5. CASE StartPick
  BY <1>5 DEF Aside, StartPick, ledger, calls
<1>6. CASE WarnSend \/ WarnMark
  <2>1. act \in WarnAct
    BY <1>6, ActCases DEF WarnSend, WarnMark, Doing, WarnOps
  <2>2. act'.op \in {"warn_mark", "on_exit"}
    BY <1>6, <2>1 DEF WarnSend, WarnMark, Then, WarnAct
  <2>. QED
    BY <1>6, <2>2 DEF Aside, WarnSend, WarnMark, ledger, calls
<1>7. CASE OnExit
  BY <1>1, <1>7 DEF Aside, OnExit, ledger
<1>8. CASE \E t \in Tickers : Watch(t)
  BY <1>8 DEF Aside, Watch, calls
<1>9. CASE Crash \/ LedgerError
  BY <1>1, <1>9 DEF Aside, Crash, LedgerError, DropJob, ledger, calls
<1>10. CASE TakeJob \/ FinishJob \/ Observe \/ \E i \in Intervals : DecideInterval(i)
  BY <1>10 DEF Aside, TakeJob, FinishJob, Observe, DecideInterval, worker, ledger, calls
<1>11. CASE \E t \in Tickers : OutboxFinishes(t) \/ RefreshWarnings(t)
  BY <1>11 DEF Aside, OutboxFinishes, RefreshWarnings, worker, ledger, calls
<1>12. CASE UNCHANGED vars
  BY <1>12 DEF Aside, vars, worker, ledger, calls
<1>. QED
  BY <1>2, <1>3, <1>4, <1>5, <1>6, <1>7, <1>8, <1>9, <1>10, <1>11, <1>12
     DEF Next, WorkerStep

LEMMA AlertStep == TypeOK /\ AlertInv /\ [Next]_vars => AlertInv'
<1> SUFFICES ASSUME TypeOK, AlertInv, [Next]_vars PROVE AlertInv'
  OBVIOUS
<1>0. {"mark_recorded", "on_fire", "send", "mark"} \subseteq Sequel
  BY DEF Sequel
<1>1. CASE Aside
  BY <1>1 DEF Aside, AlertInv
<1>2. CASE ClaimAlert
  <2>1. act \in PickAct
    BY <1>2, ActCases DEF ClaimAlert, Doing, Sequel
  <2>2. /\ act'.pick = act.pick
        /\ act'.op = IF AlertLocked(act.pick.t, "NO") THEN "mark_recorded" ELSE "on_fire"
    BY <1>0, <1>2, <2>1, ThenKeepsPick DEF ClaimAlert
  <2>. QED
    BY <1>2, <2>2 DEF ClaimAlert, AlertInv, AlertLocked, calls
<1>3. CASE OnFire
  <2>1. act \in PickAct /\ act.pick.t \in Tickers
    BY <1>3, ActCases, PickParts DEF OnFire, Doing, Sequel
  <2>2. act'.pick = act.pick /\ act'.op = "send"
    BY <1>0, <1>3, <2>1, ThenKeepsPick DEF OnFire
  <2>3. offers \in [Tickers -> Nat]
    BY CallsTyped DEF CallsType
  <2>4. <<act.pick.t, "NO">> \in alertLock /\ offers[act.pick.t] = 0 /\ cards[act.pick.t] = 0
    BY <1>3, <2>1 DEF OnFire, Doing, AlertInv
  <2>5. \A t \in Tickers :
          offers'[t] = IF t = act.pick.t /\ ReachesExecutor(act.pick) THEN 1 ELSE offers[t]
    BY <1>3, <2>1, <2>3, <2>4 DEF OnFire
  <2>6. UNCHANGED <<alertLock, cards>>
    BY <1>3 DEF OnFire, ledger
  <2> SUFFICES ASSUME NEW t \in Tickers
                PROVE  /\ offers'[t] <= 1 /\ cards'[t] <= 1
                       /\ <<t, "NO">> \notin alertLock' => offers'[t] = 0 /\ cards'[t] = 0
                       /\ act'.op = "on_fire" => act'.pick.t # t
                       /\ act'.op = "send" /\ act'.pick.t = t =>
                            <<t, "NO">> \in alertLock' /\ cards'[t] = 0
    BY DEF AlertInv
  <2>7. /\ offers[t] <= 1 /\ cards[t] <= 1
        /\ <<t, "NO">> \notin alertLock => offers[t] = 0 /\ cards[t] = 0
    BY DEF AlertInv
  <2>. QED
    BY <2>2, <2>4, <2>5, <2>6, <2>7
<1>4. CASE SendCard
  <2>1. act \in PickAct /\ act.pick.t \in Tickers
    BY <1>4, ActCases, PickParts DEF SendCard, Doing, Sequel
  <2>2. act'.pick = act.pick /\ act'.op = "mark"
    BY <1>0, <1>4, <2>1, ThenKeepsPick DEF SendCard
  <2>3. cards \in [Tickers -> Nat]
    BY CallsTyped DEF CallsType
  <2>4. <<act.pick.t, "NO">> \in alertLock /\ cards[act.pick.t] = 0
    BY <1>4, <2>1 DEF SendCard, Doing, AlertInv
  <2>5. \A t \in Tickers : cards'[t] = IF t = act.pick.t THEN 1 ELSE cards[t]
    BY <1>4, <2>1, <2>3, <2>4 DEF SendCard
  <2>6. UNCHANGED <<alertLock, offers>>
    BY <1>4 DEF SendCard, ledger
  <2> SUFFICES ASSUME NEW t \in Tickers
                PROVE  /\ offers'[t] <= 1 /\ cards'[t] <= 1
                       /\ <<t, "NO">> \notin alertLock' => offers'[t] = 0 /\ cards'[t] = 0
                       /\ act'.op = "on_fire" => act'.pick.t # t
                       /\ act'.op = "send" /\ act'.pick.t = t =>
                            <<t, "NO">> \in alertLock' /\ cards'[t] = 0
    BY DEF AlertInv
  <2>7. /\ offers[t] <= 1 /\ cards[t] <= 1
        /\ <<t, "NO">> \notin alertLock => offers[t] = 0 /\ cards[t] = 0
    BY DEF AlertInv
  <2>. QED
    BY <2>2, <2>4, <2>5, <2>6, <2>7
<1>. QED
  BY <1>1, <1>2, <1>3, <1>4, AsideSteps

\* A contract reaches the executor at most once and gets at most one card in
\* the window, for any marks, queue, crashes and database errors.
THEOREM AlertsOnce == Spec => []AlertedOnce
<1>1. Init => AlertInv
  BY DEF Init, AlertInv, NoAct
<1>2. Typed /\ AlertInv /\ [Next]_vars => AlertInv'
  BY AlertStep DEF Typed
<1>3. AlertInv => AlertedOnce
  BY DEF AlertInv, AlertedOnce
<1>. QED
  BY <1>1, <1>2, <1>3, TypedInvariance, PTL DEF Spec

-----------------------------------------------------------------------------
(* What the steps do to the pick in hand, its row and its calls.           *)

Here(t, i) == act.pick.t = t /\ act.pick.i = i

\* The steps that touch neither a row nor a call: they leave the step in
\* progress alone, move between steps that owe nothing, or lose it to a fault.
Quiet ==
    /\ UNCHANGED <<rows, offers, exits>>
    /\ \A t \in Tickers : <<t, "NO">> \in alertLock' <=> <<t, "NO">> \in alertLock
    /\ \A t \in Tickers : warnings'[t] = "none" <=> warnings[t] = "none"
    /\ lost \subseteq lost'
    /\ \/ act' = act
       \/ /\ act.op \in {"none", "yes", "yes_claim"}
          /\ act'.op \in {"none", "record", "yes", "yes_claim"}
          /\ act'.op = "record" => act.op = "none"
       \/ act' = NoAct /\ (act.op \in Sequel => act.pick.t \in lost')

Loud ==
    \/ RecordDecision \/ MarkRecorded \/ MarkDelivery \/ ClaimAlert \/ OnFire \/ SendCard
    \/ (\E t \in Tickers : Watch(t)) \/ WarnSend \/ WarnMark \/ OnExit

LEMMA DroppedIsLost ==
    ASSUME TypeOK, DropJob
    PROVE  lost \subseteq lost' /\ act' = NoAct /\ (act.op \in Sequel => act.pick.t \in lost')
<1>1. act.op \in Sequel => act # NoAct
  BY DEF Sequel, NoAct
<1>2. act.op \in Sequel => act.pick.t \in InFlight
  BY <1>1 DEF InFlight
<1>. QED
  BY <1>2 DEF DropJob

LEMMA QuietSteps == ASSUME TypeOK, [Next]_vars PROVE Quiet \/ Loud
<1>0. NoAct.op = "none" /\ {"yes", "yes_claim"} \subseteq Sequel
  BY DEF NoAct, Sequel
<1>1. CASE StartPick
  BY <1>0, <1>1 DEF Quiet, StartPick, ledger, calls, ghosts
<1>2. CASE OfferYes \/ ClaimYes
  <2>1. act \in PickAct
    BY <1>2, ActCases DEF OfferYes, ClaimYes, Doing, Sequel
  <2>2. act.op \in {"yes", "yes_claim"} /\ act'.op \in {"none", "yes_claim"}
    BY <1>0, <1>2, <2>1, ThenKeepsPick DEF OfferYes, ClaimYes, Doing
  <2>3. \A t \in Tickers : <<t, "NO">> \in alertLock' <=> <<t, "NO">> \in alertLock
    BY <1>2 DEF OfferYes, ClaimYes, ledger
  <2>. QED
    BY <1>2, <2>2, <2>3 DEF Quiet, OfferYes, ClaimYes, ledger, calls, ghosts
<1>3. CASE Crash
  BY <1>3, DroppedIsLost DEF Quiet, Crash, ledger, calls
<1>4. CASE LedgerError
  <2>1. CASE Doing("yes") \/ Doing("yes_claim")
    BY <1>0, <1>4, <2>1 DEF Quiet, LedgerError, Doing, ledger, calls
  <2>2. CASE ~(Doing("yes") \/ Doing("yes_claim"))
    BY <1>4, <2>2, DroppedIsLost DEF Quiet, LedgerError, ledger, calls
  <2>. QED
    BY <2>1, <2>2
<1>5. CASE TakeJob \/ FinishJob \/ Observe \/ \E i \in Intervals : DecideInterval(i)
  BY <1>5 DEF Quiet, TakeJob, FinishJob, Observe, DecideInterval, worker, ledger, calls, ghosts
<1>6. ASSUME NEW t \in Tickers, OutboxFinishes(t) \/ RefreshWarnings(t) PROVE Quiet
  BY <1>6 DEF Quiet, OutboxFinishes, RefreshWarnings, TypeOK, worker, ledger, calls, ghosts
<1>7. CASE UNCHANGED vars
  BY <1>7 DEF Quiet, vars, worker, ledger, calls, ghosts
<1>. QED
  BY <1>1, <1>2, <1>3, <1>4, <1>5, <1>6, <1>7 DEF Next, WorkerStep, Loud

\* A status is written on the row of the pick in hand and ends the pick.
LEMMA MarkFacts ==
    ASSUME TypeOK, RowInHand, MarkRecorded \/ MarkDelivery
    PROVE  /\ UNCHANGED <<alertLock, warnings, offers, exits, lost>>
           /\ act' = NoAct /\ act.op \in {"mark_recorded", "mark"}
           /\ <<act.pick.t, act.pick.i>> \in Tickers \X Intervals
           /\ rows'[<<act.pick.t, act.pick.i>>].status # "PENDING"
           /\ \A x \in Tickers \X Intervals :
                /\ x # <<act.pick.t, act.pick.i>> => rows'[x] = rows[x]
                /\ rows'[x] # NoRow <=> rows[x] # NoRow
                /\ rows[x] # NoRow => rows'[x].fired = rows[x].fired /\ rows'[x].side = rows[x].side
<1>1. act.op \in Recorded /\ act.op \in {"mark_recorded", "mark"}
  BY DEF MarkRecorded, MarkDelivery, Doing, Recorded
<1>2. act \in PickAct /\ act.pick.t \in Tickers /\ act.pick.i \in Intervals
  BY <1>1, ActCases, PickParts DEF Recorded, Sequel
<1> DEFINE y == <<act.pick.t, act.pick.i>>
<1>3. PICK status \in {"RECORDED", "ANSWERED"} : rows' = [rows EXCEPT ![y].status = status]
  BY DEF MarkRecorded, MarkDelivery, MarkRow
<1>4. y \in Tickers \X Intervals /\ rows[y] \in Row
  BY <1>1, <1>2 DEF RowInHand, TypeOK
<1>5. \A row \in Row : row # NoRow /\ [row EXCEPT !.status = status] \in Row
  BY DEF Row, NoRow
<1>6. rows'[y] = [rows[y] EXCEPT !.status = status]
  BY <1>3, <1>4 DEF TypeOK
<1>7. /\ rows'[y].status = status /\ rows'[y].fired = rows[y].fired
      /\ rows'[y].side = rows[y].side /\ rows'[y] # NoRow /\ rows[y] # NoRow
  BY <1>4, <1>5, <1>6 DEF Row
<1>8. \A x \in Tickers \X Intervals : x # y => rows'[x] = rows[x]
  BY <1>3 DEF TypeOK
<1>. QED
  BY <1>1, <1>4, <1>7, <1>8 DEF MarkRecorded, MarkDelivery, calls, ghosts

\* A duplicate ends the pick; a new row carries what the pick said.
LEMMA RecordFacts ==
    ASSUME TypeOK, RecordDecision
    PROVE  /\ UNCHANGED <<alertLock, warnings, offers, exits, lost>>
           /\ act.op = "record" /\ <<act.pick.t, act.pick.i>> \in Tickers \X Intervals
           /\ \/ rows[<<act.pick.t, act.pick.i>>] # NoRow /\ UNCHANGED rows /\ act' = NoAct
              \/ /\ rows[<<act.pick.t, act.pick.i>>] = NoRow
                 /\ \A x \in Tickers \X Intervals :
                      x # <<act.pick.t, act.pick.i>> => rows'[x] = rows[x]
                 /\ rows'[<<act.pick.t, act.pick.i>>] # NoRow
                 /\ rows'[<<act.pick.t, act.pick.i>>].fired = act.pick.fired
                 /\ \/ /\ act' = NoAct /\ ~act.pick.fired
                       /\ rows'[<<act.pick.t, act.pick.i>>].status # "PENDING"
                    \/ /\ act'.op = IF act.pick.fired THEN "claim" ELSE "mark_recorded"
                       /\ act'.pick = act.pick
<1>1. act.op = "record" /\ act \in PickAct
  BY ActCases DEF RecordDecision, Doing, Sequel
<1>2. act.pick \in Pick /\ act.pick.t \in Tickers /\ act.pick.i \in Intervals
  BY <1>1, PickParts
<1> DEFINE y == <<act.pick.t, act.pick.i>>
           new == [fired |-> act.pick.fired, side |-> act.pick.side,
                   status |-> IF act.pick.kind = "RESEARCH_YES" THEN "RESEARCH" ELSE "PENDING"]
<1>3. UNCHANGED <<alertLock, warnings, offers, exits, lost>>
  BY DEF RecordDecision, calls, ghosts
<1>4. CASE rows[y] # NoRow
  BY <1>1, <1>2, <1>3, <1>4 DEF RecordDecision
<1>5. CASE rows[y] = NoRow
  <2>1. rows' = [rows EXCEPT ![y] = new]
    BY <1>5 DEF RecordDecision
  <2>2. new # NoRow /\ new.fired = act.pick.fired
        /\ (act.pick.kind = "RESEARCH_YES" => new.status # "PENDING")
    BY DEF NoRow
  <2>3. /\ act.pick.kind = "RESEARCH_YES" => act' = NoAct /\ ~act.pick.fired
        /\ act.pick.kind # "RESEARCH_YES" =>
             /\ act'.op = IF act.pick.fired THEN "claim" ELSE "mark_recorded"
             /\ act'.pick = act.pick
    <3>1. {"claim", "mark_recorded"} \subseteq Sequel
      BY DEF Sequel
    <3>2. act.pick.kind = "RESEARCH_YES" => ~act.pick.fired
      BY <1>2 DEF Pick
    <3>. QED
      BY <1>1, <1>5, <3>1, <3>2, ThenKeepsPick DEF RecordDecision
  <2> HIDE DEF new
  <2>4. rows'[y] = new /\ \A x \in Tickers \X Intervals : x # y => rows'[x] = rows[x]
    BY <1>2, <2>1 DEF TypeOK
  <2>. QED
    BY <1>1, <1>2, <1>3, <1>5, <2>2, <2>3, <2>4
<1>. QED
  BY <1>4, <1>5

\* The alert of a pick: its lock, its order, its card.
LEMMA AlertFacts ==
    ASSUME TypeOK, ClaimAlert \/ OnFire \/ SendCard
    PROVE  /\ UNCHANGED <<rows, warnings, exits, lost>>
           /\ act.pick.t \in Tickers /\ act'.pick = act.pick
           /\ ClaimAlert =>
                /\ act.op = "claim" /\ UNCHANGED offers
                /\ alertLock' = alertLock \cup {<<act.pick.t, "NO">>}
                /\ act'.op = IF <<act.pick.t, "NO">> \in alertLock
                             THEN "mark_recorded" ELSE "on_fire"
           /\ OnFire =>
                /\ act.op = "on_fire" /\ act'.op = "send" /\ UNCHANGED alertLock
                /\ \A t \in Tickers : offers'[t] = IF t = act.pick.t /\ ReachesExecutor(act.pick)
                                                  THEN offers[t] + 1 ELSE offers[t]
           /\ SendCard =>
                act.op = "send" /\ act'.op = "mark" /\ UNCHANGED <<alertLock, offers>>
<1>0. {"mark_recorded", "on_fire", "send", "mark"} \subseteq Sequel
  BY DEF Sequel
<1>1. act \in PickAct /\ act.pick.t \in Tickers
  BY ActCases, PickParts DEF ClaimAlert, OnFire, SendCard, Doing, Sequel
<1>2. CASE ClaimAlert
  BY <1>0, <1>1, <1>2, ThenKeepsPick
     DEF ClaimAlert, OnFire, SendCard, Doing, AlertLocked, calls, ghosts
<1>3. CASE OnFire
  <2>1. offers \in [Tickers -> Nat]
    BY CallsTyped DEF CallsType
  <2>. QED
    BY <1>0, <1>1, <1>3, <2>1, ThenKeepsPick DEF ClaimAlert, OnFire, SendCard, Doing, ledger, ghosts
<1>4. CASE SendCard
  BY <1>0, <1>1, <1>4, ThenKeepsPick DEF ClaimAlert, OnFire, SendCard, Doing, ledger, ghosts
<1>. QED
  BY <1>2, <1>3, <1>4

\* The exit pass raises a warning once, marks it, and offers the sale last.
LEMMA WatchFacts ==
    ASSUME TypeOK, NEW t \in Tickers, Watch(t)
    PROVE  /\ UNCHANGED <<rows, alertLock, offers, exits, lost>> /\ act.op = "none"
           /\ \/ UNCHANGED <<warnings, act>>
              \/ /\ warnings[t] = "none" /\ FiredRows(t) # {}
                 /\ warnings' = [warnings EXCEPT ![t] = "PENDING"]
                 /\ act'.op = "warn_send" /\ act'.t = t
BY DEF Watch, WarningRecorded, NoAct, calls

LEMMA WarnFacts ==
    ASSUME TypeOK, WarnSend \/ WarnMark \/ OnExit
    PROVE  /\ UNCHANGED <<rows, alertLock, offers, lost>>
           /\ act.op \in WarnOps /\ act.t \in Tickers
           /\ WarnSend => /\ UNCHANGED <<warnings, exits>>
                          /\ act'.op = "warn_mark" /\ act'.t = act.t /\ act'.status # "none"
           /\ WarnMark => /\ act.op = "warn_mark" /\ UNCHANGED exits
                          /\ warnings' = [warnings EXCEPT ![act.t] = act.status]
                          /\ act'.op = "on_exit" /\ act'.t = act.t
           /\ OnExit => /\ UNCHANGED warnings /\ act' = NoAct
                        /\ \/ UNCHANGED exits
                           \/ exits' = [exits EXCEPT ![act.t] = exits[act.t] + 1]
<1>1. act.op \in WarnOps /\ act \in WarnAct /\ act.t \in Tickers
  BY ActCases, WarnParts DEF WarnSend, WarnMark, OnExit, Doing, WarnOps
<1>2. \A op \in WarnOps, st \in WarningStatus :
        LET a == [act EXCEPT !.op = op, !.status = st]
            b == [act EXCEPT !.op = op]
        IN  /\ a.op = op /\ a.t = act.t /\ a.status = st
            /\ b.op = op /\ b.t = act.t
  BY <1>1 DEF WarnAct
<1>3. CASE WarnSend
  <2>1. \E st \in WarningStatus \ {"none"} : act' = [act EXCEPT !.op = "warn_mark", !.status = st]
    BY <1>3 DEF WarnSend, WarningStatus
  <2>2. act'.op = "warn_mark" /\ act'.t = act.t /\ act'.status # "none"
    BY <1>2, <2>1 DEF WarnOps
  <2>. QED
    BY <1>1, <1>3, <2>2 DEF WarnSend, WarnMark, OnExit, Doing, ledger, calls, ghosts
<1>4. CASE WarnMark
  <2>1. act'.op = "on_exit" /\ act'.t = act.t
    BY <1>1, <1>2, <1>4 DEF WarnMark, Then, WarnOps, WarnAct
  <2>. QED
    BY <1>1, <1>4, <2>1 DEF WarnSend, WarnMark, OnExit, Doing, calls, ghosts
<1>5. CASE OnExit
  BY <1>1, <1>5 DEF WarnSend, WarnMark, OnExit, Doing, ledger
<1>. QED
  BY <1>3, <1>4, <1>5

-----------------------------------------------------------------------------
(* One sale: a warning is raised once and only for a suggested contract,   *)
(* and the sale ends its steps.                                            *)

HasFired(t) == \E i \in Intervals : rows[<<t, i>>] # NoRow /\ rows[<<t, i>>].fired

ExitInv ==
    /\ \A t \in Tickers :
         /\ exits[t] \in {0, 1}
         /\ exits[t] = 1 => HasFired(t)
         /\ warnings[t] = "none" => exits[t] = 0
         /\ act.op \in WarnOps /\ act.t = t => exits[t] = 0 /\ warnings[t] # "none" /\ HasFired(t)
    /\ act.op = "warn_mark" => act.status # "none"

LEMMA FiredStays == Typed /\ [Next]_vars => \A t \in Tickers : HasFired(t) => HasFired(t)'
<1> SUFFICES ASSUME TypeOK, RowInHand, [Next]_vars,
                    NEW t \in Tickers, NEW i \in Intervals, rows[<<t, i>>] # NoRow, rows[<<t, i>>].fired
              PROVE  rows'[<<t, i>>] # NoRow /\ rows'[<<t, i>>].fired
  BY DEF Typed, HasFired
<1>1. CASE UNCHANGED rows
  BY <1>1
<1>2. CASE RecordDecision
  BY <1>2, RecordFacts
<1>3. CASE MarkRecorded \/ MarkDelivery
  BY <1>3, MarkFacts
<1>. QED
  BY <1>1, <1>2, <1>3, QuietSteps, AlertFacts, WatchFacts, WarnFacts DEF Quiet, Loud

LEMMA ExitStep == Typed /\ ExitInv /\ [Next]_vars => ExitInv'
<1> SUFFICES ASSUME Typed, TypeOK, RowInHand, ExitInv, [Next]_vars PROVE ExitInv'
  BY DEF Typed
<1>0. \A t \in Tickers : HasFired(t) => HasFired(t)'
  BY FiredStays
<1>1. ASSUME UNCHANGED exits, \A t \in Tickers : warnings'[t] = "none" => warnings[t] = "none",
             act' = act \/ act'.op \notin WarnOps
      PROVE  ExitInv'
  BY <1>0, <1>1 DEF ExitInv, WarnOps
<1>2. NoAct.op = "none"
  BY DEF NoAct
<1>3. CASE Quiet
  BY <1>1, <1>2, <1>3 DEF Quiet, WarnOps
<1>4. CASE RecordDecision
  BY <1>1, <1>2, <1>4, RecordFacts DEF WarnOps
<1>5. CASE MarkRecorded \/ MarkDelivery
  BY <1>1, <1>2, <1>5, MarkFacts DEF WarnOps
<1>6. CASE ClaimAlert \/ OnFire \/ SendCard
  BY <1>1, <1>6, AlertFacts DEF WarnOps
<1>7. ASSUME NEW t \in Tickers, Watch(t) PROVE ExitInv'
  <2>1. CASE UNCHANGED <<warnings, act>>
    BY <1>1, <1>7, <2>1, WatchFacts
  <2>2. CASE ~UNCHANGED <<warnings, act>>
    <3>1. /\ UNCHANGED <<rows, exits>> /\ warnings[t] = "none" /\ HasFired(t)
          /\ warnings' = [warnings EXCEPT ![t] = "PENDING"]
          /\ act'.op = "warn_send" /\ act'.t = t
      BY <1>7, <2>2, WatchFacts DEF FiredRows, HasFired
    <3>. QED
      BY <1>0, <3>1 DEF ExitInv, TypeOK, WarnOps
  <2>. QED
    BY <2>1, <2>2
<1>8. CASE WarnSend
  BY <1>0, <1>8, WarnFacts DEF ExitInv, WarnOps
<1>9. CASE WarnMark
  BY <1>0, <1>9, WarnFacts DEF ExitInv, TypeOK, WarnOps
<1>10. CASE OnExit
  <2>1. act'.op = "none" /\ exits[act.t] = 0 /\ warnings[act.t] # "none" /\ HasFired(act.t)
        /\ act.t \in Tickers /\ UNCHANGED warnings
    BY <1>2, <1>10, WarnFacts DEF ExitInv
  <2>2. exits' = exits \/ exits' = [exits EXCEPT ![act.t] = 1]
    BY <1>10, <2>1, WarnFacts
  <2>3. \A t \in Tickers : exits'[t] = exits[t] \/ (t = act.t /\ exits'[t] = 1)
    BY <2>2, CallsTyped DEF CallsType
  <2>. QED
    BY <1>0, <2>1, <2>3 DEF ExitInv, WarnOps
<1>. QED
  BY <1>3, <1>4, <1>5, <1>6, <1>7, <1>8, <1>9, <1>10, QuietSteps DEF Loud

LEMMA ExitInvariance == Spec => [](Typed /\ ExitInv)
<1>1. Init => Typed /\ ExitInv
  <2>1. Init => Typed
    BY InitType DEF Init, Typed, RowInHand, NoAct, Recorded, Alerting
  <2>. QED
    BY <2>1 DEF Init, ExitInv, NoAct, WarnOps
<1>2. Typed /\ ExitInv /\ [Next]_vars => (Typed /\ ExitInv)'
  BY StepType, StepRow, ExitStep DEF Typed
<1>. QED
  BY <1>1, <1>2, PTL DEF Spec

\* The sale of a contract is offered at most once, and only for a contract
\* that was suggested, whatever is replayed after a crash.
THEOREM OneExit == Spec => []ExitOnce
<1>1. ExitInv => ExitOnce
  BY DEF ExitInv, ExitOnce, HasFired
<1>. QED
  BY <1>1, ExitInvariance, PTL

-----------------------------------------------------------------------------
(* What the worker owes: until a fault cuts it off, a row that waits is    *)
(* the pick in hand, a fired row has its alert, an alert its order, and no *)
(* order follows a sale.                                                   *)

PendInv ==
    \A t \in Tickers \ lost : \A i \in Intervals :
       rows[<<t, i>>].status = "PENDING" => act.op \in Recorded /\ Here(t, i)

EntryInv ==
    \A t \in Tickers \ lost :
       /\ HasFired(t) => \/ <<t, "NO">> \in alertLock
                         \/ act.op = "claim" /\ act.pick.t = t /\ exits[t] = 0
       /\ act.op = "on_fire" /\ act.pick.t = t => exits[t] = 0

\* The order was made, is next, or is for a reader to make.
Ordered(t) == offers[t] = 1 \/ PaperOnly(t) \/ (act.op = "on_fire" /\ act.pick.t = t)
ReachInv == \A t \in Tickers \ lost : <<t, "NO">> \in alertLock => Ordered(t)

Owed == Typed /\ AlertInv /\ ExitInv /\ PendInv /\ EntryInv /\ ReachInv

LEMMA PendStep == Typed /\ PendInv /\ [Next]_vars => PendInv'
<1> SUFFICES ASSUME TypeOK, RowInHand, PendInv, [Next]_vars,
                    NEW t \in Tickers \ lost', NEW i \in Intervals,
                    rows'[<<t, i>>].status = "PENDING"
              PROVE  act'.op \in Recorded /\ Here(t, i)'
  BY DEF Typed, PendInv
<1>0. NoAct.op = "none" /\ Recorded \subseteq Sequel
  BY DEF NoAct, Recorded, Sequel
<1>1. t \in Tickers \ lost /\ rows[<<t, i>>].status = "PENDING" => act.op \in Recorded /\ Here(t, i)
  BY DEF PendInv
<1>2. CASE Quiet
  BY <1>0, <1>1, <1>2 DEF Quiet, Recorded, Here
<1>3. CASE RecordDecision
  <2>1. t \notin lost /\ act.op = "record"
    BY <1>3, RecordFacts
  <2>2. act.op \notin Recorded
    BY <2>1 DEF Recorded
  <2>3. rows[<<t, i>>].status # "PENDING"
    BY <1>1, <2>1, <2>2
  <2>. QED
    BY <1>3, <2>3, RecordFacts DEF Recorded, Here
<1>4. CASE MarkRecorded \/ MarkDelivery
  BY <1>1, <1>4, MarkFacts DEF Here
<1>5. CASE ClaimAlert \/ OnFire \/ SendCard
  BY <1>1, <1>5, AlertFacts DEF Recorded, Here
<1>6. CASE (\E tt \in Tickers : Watch(tt)) \/ WarnSend \/ WarnMark \/ OnExit
  <2>1. UNCHANGED <<rows, lost>> /\ act.op \in {"none"} \cup WarnOps
    BY <1>6, WatchFacts, WarnFacts
  <2>. QED
    BY <1>1, <2>1 DEF Recorded, WarnOps
<1>. QED
  BY <1>2, <1>3, <1>4, <1>5, <1>6, QuietSteps DEF Loud

\* A contract that has not fired was never sold; a new fired row is the
\* pick's own and its claim is next.
LEMMA EntryStep == Typed /\ ExitInv /\ EntryInv /\ [Next]_vars => EntryInv'
<1> SUFFICES ASSUME Typed, TypeOK, RowInHand, ExitInv, EntryInv, [Next]_vars,
                    NEW t \in Tickers \ lost'
              PROVE  /\ HasFired(t)' => \/ <<t, "NO">> \in alertLock'
                                        \/ act'.op = "claim" /\ act'.pick.t = t /\ exits'[t] = 0
                     /\ act'.op = "on_fire" /\ act'.pick.t = t => exits'[t] = 0
  BY DEF Typed, EntryInv
<1>0. NoAct.op = "none"
  BY DEF NoAct
<1>1. t \notin lost =>
        /\ HasFired(t) => \/ <<t, "NO">> \in alertLock
                          \/ act.op = "claim" /\ act.pick.t = t /\ exits[t] = 0
        /\ act.op = "on_fire" /\ act.pick.t = t => exits[t] = 0
  BY DEF EntryInv
<1>2. (~HasFired(t) => exits[t] = 0) /\ exits[t] \in {0, 1}
  BY DEF ExitInv
<1>3. CASE Quiet
  <2>1. t \notin lost /\ (HasFired(t)' <=> HasFired(t))
    BY <1>3 DEF Quiet, HasFired
  <2>. QED
    BY <1>0, <1>1, <1>3, <2>1 DEF Quiet, Sequel
<1>4. CASE RecordDecision
  <2>1. t \notin lost /\ UNCHANGED <<alertLock, exits>> /\ act.op = "record"
    BY <1>4, RecordFacts
  <2>2. CASE HasFired(t)
    BY <1>0, <1>1, <1>4, <2>1, <2>2, RecordFacts
  <2>3. CASE ~HasFired(t) /\ HasFired(t)'
    BY <1>2, <1>4, <2>1, <2>3, RecordFacts DEF HasFired
  <2>4. CASE ~HasFired(t)'
    BY <1>0, <1>4, <2>1, <2>4, RecordFacts
  <2>. QED
    BY <2>2, <2>3, <2>4
<1>5. CASE MarkRecorded \/ MarkDelivery
  <2>1. HasFired(t)' => HasFired(t)
    BY <1>5, MarkFacts DEF HasFired
  <2>. QED
    BY <1>0, <1>1, <1>5, <2>1, MarkFacts
<1>6. CASE ClaimAlert \/ OnFire \/ SendCard
  <2>1. t \notin lost /\ UNCHANGED exits /\ (HasFired(t)' <=> HasFired(t))
    BY <1>6, AlertFacts DEF HasFired
  <2>. QED
    BY <1>1, <1>2, <1>6, <2>1, AlertFacts
<1>7. CASE \E tt \in Tickers : Watch(tt)
  <2>1. /\ t \notin lost /\ UNCHANGED <<exits, alertLock>> /\ (HasFired(t)' <=> HasFired(t))
        /\ act.op = "none" /\ act'.op \in {"none", "warn_send"}
    BY <1>7, WatchFacts DEF HasFired
  <2>. QED
    BY <1>1, <2>1
<1>8. CASE WarnSend \/ WarnMark \/ OnExit
  <2>1. /\ t \notin lost /\ UNCHANGED alertLock /\ (HasFired(t)' <=> HasFired(t))
        /\ act.op \in WarnOps /\ act'.op \in {"none"} \cup WarnOps
    BY <1>0, <1>8, WarnFacts DEF HasFired, WarnOps
  <2>. QED
    BY <1>1, <2>1 DEF WarnOps
<1>. QED
  BY <1>3, <1>4, <1>5, <1>6, <1>7, <1>8, QuietSteps DEF Loud

LEMMA PaperStays == Typed /\ [Next]_vars => \A t \in Tickers : PaperOnly(t) => PaperOnly(t)'
<1> SUFFICES ASSUME TypeOK, RowInHand, [Next]_vars, NEW t \in Tickers, PaperOnly(t)
              PROVE  PaperOnly(t)'
  BY DEF Typed
<1>1. PICK i \in FiredRows(t) : rows[<<t, i>>].side = "YES" \/ (i \in Selective /\ SelectiveTopN > 1)
  BY DEF PaperOnly
<1>2. i \in Intervals /\ rows[<<t, i>>] # NoRow /\ rows[<<t, i>>].fired
  BY DEF FiredRows
<1>3. /\ rows'[<<t, i>>] # NoRow /\ rows'[<<t, i>>].fired
      /\ rows'[<<t, i>>].side = rows[<<t, i>>].side
  <2>1. CASE UNCHANGED rows
    BY <1>2, <2>1
  <2>2. CASE RecordDecision
    BY <1>2, <2>2, RecordFacts
  <2>3. CASE MarkRecorded \/ MarkDelivery
    BY <1>2, <2>3, MarkFacts
  <2>. QED
    BY <2>1, <2>2, <2>3, QuietSteps, AlertFacts, WatchFacts, WarnFacts DEF Quiet, Loud
<1>. QED
  BY <1>1, <1>2, <1>3 DEF PaperOnly, FiredRows

LEMMA ReachStep == Typed /\ AlertInv /\ ReachInv /\ [Next]_vars => ReachInv'
<1> SUFFICES ASSUME Typed, TypeOK, RowInHand, AlertInv, ReachInv, [Next]_vars,
                    NEW t \in Tickers \ lost', <<t, "NO">> \in alertLock'
              PROVE  Ordered(t)'
  BY DEF Typed, ReachInv
<1>0. PaperOnly(t) => PaperOnly(t)'
  BY PaperStays
<1>1. t \notin lost /\ <<t, "NO">> \in alertLock => Ordered(t)
  BY DEF ReachInv
<1>2. ASSUME t \notin lost, <<t, "NO">> \in alertLock, offers'[t] = offers[t],
             act.op # "on_fire" \/ act' = act
      PROVE  Ordered(t)'
  BY <1>0, <1>1, <1>2 DEF Ordered
<1>3. CASE Quiet
  <2>1. t \notin lost /\ <<t, "NO">> \in alertLock /\ offers'[t] = offers[t]
    BY <1>3 DEF Quiet
  <2>2. CASE act.op = "on_fire" /\ act' # act
    <3>1. act.pick.t \in lost'
      BY <1>3, <2>2 DEF Quiet, Sequel
    <3>. QED
      BY <1>0, <1>1, <2>1, <3>1 DEF Ordered
  <2>. QED
    BY <1>2, <2>1, <2>2
<1>4. CASE RecordDecision
  BY <1>2, <1>4, RecordFacts
<1>5. CASE MarkRecorded \/ MarkDelivery
  BY <1>2, <1>5, MarkFacts
<1>6. CASE ClaimAlert
  <2>1. CASE <<t, "NO">> \in alertLock
    BY <1>2, <1>6, <2>1, AlertFacts
  <2>2. CASE <<t, "NO">> \notin alertLock
    BY <1>6, <2>2, AlertFacts DEF Ordered
  <2>. QED
    BY <2>1, <2>2
<1>7. CASE OnFire
  <2>1. CASE act.pick.t # t
    BY <1>0, <1>1, <1>7, <2>1, AlertFacts DEF Ordered
  <2>2. CASE act.pick.t = t /\ ReachesExecutor(act.pick)
    <3>1. offers[t] = 0 /\ offers'[t] = offers[t] + 1
      BY <1>7, <2>2, AlertFacts DEF AlertInv
    <3>. QED
      BY <3>1 DEF Ordered
  <2>3. CASE act.pick.t = t /\ ~ReachesExecutor(act.pick)
    <3>1. act \in PickAct /\ act.pick \in Pick /\ act.pick.i \in Intervals
      BY <1>7, ActCases, PickParts DEF OnFire, Doing, Sequel
    <3>2. act.op \in Recorded /\ act.op \in Alerting
      BY <1>7 DEF OnFire, Doing, Recorded, Alerting
    <3>3. act.pick.i \in FiredRows(t) /\ rows[<<t, act.pick.i>>].side = act.pick.side
      BY <2>3, <3>1, <3>2 DEF RowInHand, FiredRows
    <3>4. act.pick.side = "YES" \/ (act.pick.i \in Selective /\ SelectiveTopN > 1)
      BY <2>3, <3>1 DEF ReachesExecutor, Pick
    <3>5. PaperOnly(t)
      BY <3>3, <3>4 DEF PaperOnly
    <3>. QED
      BY <1>0, <3>5 DEF Ordered
  <2>. QED
    BY <2>1, <2>2, <2>3
<1>8. CASE SendCard
  BY <1>2, <1>8, AlertFacts
<1>9. CASE \E tt \in Tickers : Watch(tt)
  BY <1>2, <1>9, WatchFacts
<1>10. CASE WarnSend \/ WarnMark \/ OnExit
  BY <1>2, <1>10, WarnFacts DEF WarnOps
<1>. QED
  BY <1>3, <1>4, <1>5, <1>6, <1>7, <1>8, <1>9, <1>10, QuietSteps DEF Loud

LEMMA OwedInvariance == Spec => []Owed
<1>1. Init => Owed
  <2>1. Init => Typed
    BY InitType DEF Init, Typed, RowInHand, NoAct, Recorded, Alerting
  <2>2. Init => AlertInv /\ ExitInv
    BY DEF Init, AlertInv, ExitInv, NoAct, WarnOps
  <2>3. Init => \A x \in Tickers \X Intervals : rows[x] = NoRow /\ rows[x].status = "none"
    BY DEF Init, NoRow
  <2>4. Init => PendInv /\ EntryInv /\ ReachInv
    BY <2>3 DEF Init, PendInv, EntryInv, ReachInv, HasFired, NoAct
  <2>. QED
    BY <2>1, <2>2, <2>4 DEF Owed
<1>2. Owed /\ [Next]_vars => Owed'
  BY StepType, StepRow, AlertStep, ExitStep, PendStep, EntryStep, ReachStep DEF Owed, Typed
<1>. QED
  BY <1>1, <1>2, PTL DEF Spec

\* A row waits for its delivery status only while the worker is at it, or
\* after a fault cut it off.
THEOREM PendingRows == Spec => []PendingIsInHand
<1>1. Owed => PendingIsInHand
  BY DEF Owed, PendInv, PendingIsInHand, Recorded, Sequel, Here
<1>. QED
  BY <1>1, OwedInvariance, PTL

\* A claimed alert is offered to the executor, is paper only, or was cut off.
THEOREM AlertsReach == Spec => []ClaimReachesExecutor
<1>1. Owed => ClaimReachesExecutor
  BY DEF Owed, ReachInv, ClaimReachesExecutor, Ordered, Doing
<1>. QED
  BY <1>1, OwedInvariance, PTL

\* No order of a contract follows the offer of its sale, unless a fault had
\* cut the suggestion off.
THEOREM SaleEndsEntries == Spec => NoEntryAfterExit
<1>1. Owed /\ [Next]_vars =>
        [\A t \in Tickers \ lost : exits[t] = 1 => offers'[t] = offers[t]]_vars
  <2> SUFFICES ASSUME Owed, TypeOK, Next, NEW t \in Tickers \ lost, exits[t] = 1
                PROVE  offers'[t] = offers[t]
    BY DEF Owed, Typed
  <2>1. CASE OnFire
    <3>1. act.op = "on_fire" => act.pick.t # t
      <4>1. EntryInv
        BY DEF Owed
      <4>2. act.op = "on_fire" /\ act.pick.t = t => exits[t] = 0
        BY <4>1 DEF EntryInv
      <4>. QED
        BY <4>2
    <3>. QED
      BY <2>1, <3>1, AlertFacts
  <2>2. CASE ~OnFire
    <3>1. [Next]_vars /\ RowInHand
      BY DEF Owed, Typed
    <3>. QED
      BY <2>2, <3>1, QuietSteps, RecordFacts, MarkFacts, AlertFacts, WatchFacts, WarnFacts
         DEF Quiet, Loud
  <2>. QED
    BY <2>1, <2>2
<1>. QED
  BY <1>1, OwedInvariance, PTL DEF Spec, NoEntryAfterExit

-----------------------------------------------------------------------------
(* The debounce: snapshots are processed in the order they were taken, so  *)
(* a count that runs began after the last snapshot that showed no flip.    *)

ClockInv ==
    /\ job.at <= now
    /\ \A k \in 1..Len(jobs) : job.at < jobs[k].at /\ jobs[k].at <= now
    /\ \A j, k \in 1..Len(jobs) : j < k => jobs[j].at < jobs[k].at
    /\ \A t \in Tickers :
         /\ calm[t] <= now /\ \A k \in 1..Len(jobs) : calm[t] < jobs[k].at
         /\ t \in toWatch => calm[t] < job.at
         /\ flip[t] # NoFlip => calm[t] < flip[t].since /\ HasFired(t)

\* The steps that start no snapshot and look at none.
Still ==
    /\ UNCHANGED <<now, calm>> /\ jobs' \in {jobs, <<>>}
    /\ (job' = job /\ toWatch' = toWatch) \/ (job' = NoJob /\ toWatch' = {})
    /\ \A t \in Tickers : flip'[t] \in {flip[t], NoFlip}

LEMMA StillSteps ==
    ASSUME TypeOK, [Next]_vars
    PROVE  Still \/ Observe \/ TakeJob \/ \E t \in Tickers : Watch(t)
<1>1. CASE (\E i \in Intervals : DecideInterval(i)) \/ StartPick
  BY <1>1 DEF Still, DecideInterval, StartPick, queue, ghosts
<1>2. CASE RecordDecision \/ MarkRecorded \/ ClaimAlert \/ OnFire \/ SendCard \/ MarkDelivery
  BY <1>2 DEF Still, RecordDecision, MarkRecorded, ClaimAlert, OnFire, SendCard, MarkDelivery,
              queue, workerRest, ghosts
<1>3. CASE OfferYes \/ ClaimYes \/ WarnSend \/ WarnMark
  BY <1>3 DEF Still, OfferYes, ClaimYes, WarnSend, WarnMark, queue, workerRest, ghosts
<1>4. CASE OnExit
  BY <1>4 DEF Still, OnExit, queue, workerRest, TypeOK
<1>5. CASE FinishJob
  BY <1>5 DEF Still, FinishJob, queue, ghosts
<1>6. CASE \E t \in Tickers : OutboxFinishes(t) \/ RefreshWarnings(t)
  BY <1>6 DEF Still, OutboxFinishes, RefreshWarnings, queue, worker, ghosts
<1>7. CASE Crash
  BY <1>7 DEF Still, Crash, DropJob
<1>8. CASE LedgerError
  BY <1>8 DEF Still, LedgerError, DropJob, queue, workerRest
<1>9. CASE UNCHANGED vars
  BY <1>9 DEF Still, vars, queue, worker, ghosts
<1>. QED
  BY <1>1, <1>2, <1>3, <1>4, <1>5, <1>6, <1>7, <1>8, <1>9 DEF Next, WorkerStep

LEMMA ClockTypes ==
    ASSUME TypeOK
    PROVE  /\ now \in Nat /\ jobs \in Seq(Job) /\ job.at \in Nat /\ ConfirmTicks \in Nat
           /\ \A k \in 1..Len(jobs) : jobs[k].at \in Nat
           /\ \A t \in Tickers : calm[t] \in Nat /\ flip[t].since \in Nat
<1>1. now \in Nat /\ jobs \in Seq(Job) /\ job \in Job /\ ConfirmTicks \in Nat
  BY NaturalBounds DEF TypeOK
<1>2. \A j \in Job : j.at \in Nat
  BY DEF Job
<1>3. \A k \in 1..Len(jobs) : jobs[k] \in Job
  BY <1>1
<1>4. \A t \in Tickers : calm[t] \in Nat /\ flip[t].since \in Nat
  BY CallsTyped DEF TypeOK
<1>. QED
  BY <1>1, <1>2, <1>3, <1>4

LEMMA TakeClock == Typed /\ ClockInv /\ TakeJob => ClockInv'
<1> SUFFICES ASSUME TypeOK, ClockInv, TakeJob PROVE ClockInv'
  BY DEF Typed
<1>1. /\ jobs # <<>> /\ job' = Head(jobs) /\ jobs' = Tail(jobs) /\ toWatch' \subseteq Tickers
      /\ UNCHANGED <<now, calm, rows>> /\ \A t \in Tickers : flip'[t] \in {flip[t], NoFlip}
  <2>1. toWatch' \subseteq Tickers
    BY TakeType DEF TypeOK
  <2>. QED
    BY <2>1 DEF TakeJob, ledger, ghosts
<1>2. jobs \in Seq(Job)
  BY ClockTypes
<1>3. /\ Len(jobs) \in Nat /\ Len(jobs) >= 1 /\ job' = jobs[1]
      /\ Len(jobs') = Len(jobs) - 1 /\ \A k \in 1..Len(jobs') : jobs'[k] = jobs[k + 1]
  BY <1>1, <1>2
<1>4. \A k \in 1..Len(jobs') : k + 1 \in 1..Len(jobs) /\ 1 < k + 1
  BY <1>3
<1>5. 1 \in 1..Len(jobs)
  BY <1>3
<1>6. /\ job'.at <= now'
      /\ \A k \in 1..Len(jobs') : job'.at < jobs'[k].at /\ jobs'[k].at <= now'
      /\ \A t \in Tickers : /\ calm'[t] < job'.at
                            /\ \A k \in 1..Len(jobs') : calm'[t] < jobs'[k].at
  BY <1>1, <1>3, <1>4, <1>5 DEF ClockInv
<1>7. ASSUME NEW j \in 1..Len(jobs'), NEW k \in 1..Len(jobs'), j < k
      PROVE  jobs'[j].at < jobs'[k].at
  <2>1. j + 1 \in 1..Len(jobs) /\ k + 1 \in 1..Len(jobs) /\ j + 1 < k + 1
    BY <1>4, <1>7
  <2>. QED
    BY <1>3, <2>1 DEF ClockInv
<1>8. \A t \in Tickers : HasFired(t)' <=> HasFired(t)
  BY <1>1 DEF HasFired
<1>9. \A t \in Tickers : flip'[t] # NoFlip => calm'[t] < flip'[t].since /\ HasFired(t)'
  BY <1>1, <1>8 DEF ClockInv
<1>. QED
  BY <1>1, <1>6, <1>7, <1>9 DEF ClockInv

LEMMA AppendFacts ==
    ASSUME NEW S, NEW T, NEW s \in Seq(S), NEW e \in T
    PROVE  /\ Len(Append(s, e)) = Len(s) + 1 /\ Append(s, e)[Len(s) + 1] = e
           /\ \A k \in 1..Len(s) : Append(s, e)[k] = s[k]
OBVIOUS

LEMMA ObserveClock == Typed /\ ClockInv /\ Observe => ClockInv'
<1> SUFFICES ASSUME TypeOK, ClockInv, Observe PROVE ClockInv'
  BY DEF Typed
<1>1. /\ now' = now + 1 /\ UNCHANGED <<job, calm, flip, rows, toWatch>>
      /\ \/ jobs' = jobs
         \/ \E cands : jobs' = Append(jobs, [at |-> now', cands |-> cands])
  BY DEF Observe, worker, ledger, ghosts
<1>2. \A t \in Tickers : HasFired(t)' <=> HasFired(t)
  BY <1>1 DEF HasFired
<1>3. now \in Nat /\ job.at \in Nat /\ jobs \in Seq(Job) /\ Len(jobs) \in Nat
  BY ClockTypes
<1>4. /\ Len(jobs') \in Nat /\ Len(jobs') <= Len(jobs) + 1
      /\ \A k \in 1..Len(jobs') : (k \in 1..Len(jobs) /\ jobs'[k] = jobs[k])
                                  \/ (k = Len(jobs) + 1 /\ jobs'[k].at = now + 1)
  <2>1. CASE jobs' = jobs
    BY <1>3, <2>1
  <2>2. ASSUME NEW c, jobs' = Append(jobs, [at |-> now', cands |-> c]) PROVE <1>4
    <3> DEFINE j == [at |-> now', cands |-> c]
    <3>1. j.at = now + 1
      BY <1>1
    <3> HIDE DEF j
    <3>2. jobs' = Append(jobs, j)
      BY <2>2 DEF j
    <3>3. /\ Len(jobs') = Len(jobs) + 1 /\ jobs'[Len(jobs) + 1] = j
          /\ \A k \in 1..Len(jobs) : jobs'[k] = jobs[k]
      BY <1>3, <3>2, AppendFacts
    <3>4. \A k \in 1..Len(jobs') : k \in 1..Len(jobs) \/ k = Len(jobs) + 1
      BY <1>3, <3>3
    <3>. QED
      BY <1>3, <3>1, <3>3, <3>4
  <2>. QED
    BY <1>1, <2>1, <2>2
<1>5. \A k \in 1..Len(jobs) : jobs[k].at \in Nat
  BY ClockTypes
<1>6. \A t \in Tickers : calm[t] \in Nat
  BY ClockTypes
<1>7. \A k \in 1..Len(jobs') : job.at < jobs'[k].at /\ jobs'[k].at <= now + 1
                                  /\ \A t \in Tickers : calm[t] < jobs'[k].at
  BY <1>3, <1>4, <1>5, <1>6 DEF ClockInv
<1>8. ASSUME NEW j \in 1..Len(jobs'), NEW k \in 1..Len(jobs'), j < k
      PROVE  jobs'[j].at < jobs'[k].at
  <2>1. j \in 1..Len(jobs) /\ jobs'[j] = jobs[j]
    BY <1>3, <1>4, <1>8
  <2>. QED
    BY <1>3, <1>4, <1>5, <1>8, <2>1 DEF ClockInv
<1>. QED
  BY <1>1, <1>2, <1>3, <1>6, <1>7, <1>8 DEF ClockInv

LEMMA WatchClock == ASSUME Typed, ClockInv, NEW t \in Tickers, Watch(t) PROVE ClockInv'
<1> DEFINE c == job.cands[t]
           entered == ~WarningRecorded(t) /\ FiredRows(t) # {}
           f == Debounced(t, c, job.at)
<1>1. /\ calm' = [calm EXCEPT ![t] = IF entered /\ FlipSeen(t, c) THEN @ ELSE job.at]
      /\ flip' = [flip EXCEPT ![t] = IF WarningRecorded(t) THEN NoFlip
                                     ELSE IF entered THEN f ELSE @]
      /\ toWatch' = toWatch \ {t} /\ t \in toWatch /\ UNCHANGED <<now, jobs, job, rows>>
  BY DEF Watch, queue
<1>2. /\ TypeOK /\ calm \in [Tickers -> Nat] /\ flip \in [Tickers -> [count : Nat, since : Nat]]
      /\ job.at \in Nat
  BY CallsTyped, ClockTypes DEF Typed, TypeOK
<1>3. \A u \in Tickers : HasFired(u)' <=> HasFired(u)
  BY <1>1 DEF HasFired
<1>4. FiredRows(t) # {} <=> HasFired(t)
  BY DEF FiredRows, HasFired
<1>5. calm[t] < job.at
  BY <1>1 DEF ClockInv
<1>6. FlipSeen(t, c) => f.since = IF flip[t] = NoFlip THEN job.at ELSE flip[t].since
  BY <1>2 DEF Debounced
<1>7. ~FlipSeen(t, c) => f = NoFlip
  BY DEF Debounced
<1>8. flip'[t] # NoFlip => calm'[t] < flip'[t].since /\ HasFired(t)
  BY <1>1, <1>2, <1>4, <1>5, <1>6, <1>7 DEF ClockInv
<1>9. calm'[t] = calm[t] \/ calm'[t] = job.at
  BY <1>1, <1>2
<1>10. \A u \in Tickers \ {t} : calm'[u] = calm[u] /\ flip'[u] = flip[u]
  BY <1>1, <1>2
<1> HIDE DEF c, entered, f
<1>. QED
  BY <1>1, <1>3, <1>8, <1>9, <1>10 DEF ClockInv

LEMMA ClockStep == Typed /\ ClockInv /\ [Next]_vars => ClockInv'
<1> SUFFICES ASSUME Typed, ClockInv, [Next]_vars PROVE ClockInv'
  OBVIOUS
<1>1. CASE Still
  <2>1. \A t \in Tickers : HasFired(t) => HasFired(t)'
    BY FiredStays
  <2>2. NoJob.at = 0 /\ now \in Nat /\ \A k \in 1..Len(jobs) : jobs[k].at \in Nat
    BY ClockTypes DEF NoJob, Typed
  <2>3. job'.at <= job.at /\ (job' = job \/ toWatch' = {}) /\ toWatch' \subseteq toWatch
    BY <1>1, <2>2, ClockTypes DEF Still, Typed
  <2>4. jobs' = jobs \/ (jobs' = <<>> /\ 1..Len(jobs') = {})
    BY <1>1 DEF Still
  <2>5. job.at \in Nat /\ job'.at \in Nat
    BY <1>1, <2>2, ClockTypes DEF Still, Typed
  <2>. QED
    BY <1>1, <2>1, <2>2, <2>3, <2>4, <2>5 DEF ClockInv, Still
<1>. QED
  BY <1>1, StillSteps, TakeClock, ObserveClock, WatchClock DEF Typed

\* An exit warning is raised only when every snapshot of the contract processed
\* in the last ConfirmTicks showed the decisive flip, however many cycles a full
\* queue dropped in between and whatever a crash made the worker forget.
THEOREM WarningsWereHeld == Spec => FlipWasHeld
<1>1. Init => ClockInv
  BY DEF Init, ClockInv, NoJob, NoFlip
<1>2. Typed /\ ExitInv /\ ClockInv /\ [Next]_vars =>
        [\A t \in Tickers : (warnings[t] = "none" /\ warnings'[t] # "none") =>
            calm[t] + ConfirmTicks < job.at]_vars
  <2> SUFFICES ASSUME Typed, TypeOK, ExitInv, ClockInv, Next, NEW t \in Tickers,
                      warnings[t] = "none", warnings'[t] # "none"
               PROVE  calm[t] + ConfirmTicks < job.at
    BY DEF Typed
  <2>1. Watch(t)
    <3>1. [Next]_vars /\ RowInHand
      BY DEF Typed
    <3>2. ~WarnMark
      BY WarnFacts DEF ExitInv, WarnOps, TypeOK
    <3>3. ASSUME NEW u \in Tickers, Watch(u) PROVE u = t
      BY <3>3 DEF Watch, TypeOK
    <3>. QED
      BY <3>1, <3>2, <3>3, QuietSteps, RecordFacts, MarkFacts, AlertFacts, WarnFacts
         DEF Quiet, Loud
  <2> DEFINE f == Debounced(t, job.cands[t], job.at)
  <2>2. Sustained(f, job.at) /\ t \in toWatch
    BY <2>1 DEF Watch
  <2>3. f # NoFlip /\ job.at >= f.since + ConfirmTicks
    BY <2>2 DEF Sustained
  <2>4. f.since = IF flip[t] = NoFlip THEN job.at ELSE flip[t].since
    BY <2>3 DEF Debounced, TypeOK
  <2>5. calm[t] < f.since
    BY <2>2, <2>4 DEF ClockInv
  <2>6. /\ calm[t] \in Nat /\ job.at \in Nat /\ ConfirmTicks \in Nat
        /\ f.since \in Nat
    BY <2>4, ClockTypes
  <2> HIDE DEF f
  <2>. QED
    BY <2>3, <2>5, <2>6
<1>3. Typed /\ ClockInv /\ [Next]_vars => ClockInv'
  BY ClockStep
<1>. QED
  BY <1>1, <1>2, <1>3, ExitInvariance, PTL DEF Spec, FlipWasHeld

-----------------------------------------------------------------------------
(* The live YES buys: a mark puts a contract on the list at most once, and *)
(* the report lock lets a mark do so only once.                            *)

YesMarks == YesLive \cap reportLock
IsYes(p) == p.kind = "YES_LIVE"
Waits(t) == \E k \in 1..Len(todo) : IsYes(todo[k]) /\ todo[k].t = t
InHandYes(t) == act.op = "yes" /\ act.pick.t = t

YesInv ==
    /\ \A j, k \in 1..Len(todo) :
          IsYes(todo[j]) /\ IsYes(todo[k]) /\ todo[j].t = todo[k].t => j = k
    /\ \A t \in Tickers :
          /\ yesOffers[t] <= Cardinality(YesMarks)
          /\ InHandYes(t) => ~Waits(t)
          /\ InHandYes(t) \/ Waits(t) => yesOffers[t] < Cardinality(YesMarks)

\* What a list of the kinds that are not live adds nothing to.
NoYes(picks) == \A k \in 1..Len(picks) : ~IsYes(picks[k])

LEMMA PicksKind ==
    ASSUME NEW c, NEW ts \in Seq(Tickers), NEW i, NEW fired, NEW suppress, NEW kind
    PROVE  /\ Len(PicksOf(ts, i, c, fired, suppress, kind)) = Len(ts)
           /\ \A k \in 1..Len(ts) :
                 /\ PicksOf(ts, i, c, fired, suppress, kind)[k].kind = kind
                 /\ PicksOf(ts, i, c, fired, suppress, kind)[k].t = ts[k]
BY DEF PicksOf

LEMMA YesMarksSize ==
    ASSUME TypeOK
    PROVE  /\ IsFiniteSet(YesMarks) /\ Cardinality(YesMarks) \in Nat
           /\ \A i \in YesLive \ reportLock :
                 Cardinality(YesMarks \cup {i}) = Cardinality(YesMarks) + 1
<1>1. YesMarks \subseteq Intervals
  BY DEF YesMarks, TypeOK
<1>2. IsFiniteSet(YesMarks)
  BY <1>1, RunnerConstants, FS_Subset
<1>3. \A i \in YesLive \ reportLock : i \notin YesMarks
  BY DEF YesMarks
<1>. QED
  BY <1>2, <1>3, FS_CardinalityType, FS_AddElement

LEMMA SelectionKinds ==
    ASSUME NEW c \in Verdicts, NEW i \in Intervals
    PROVE  /\ \A main \in MainPicks(i, c) : NoYes(main)
           /\ \A taken : \A extra \in NotifyPicks(i, c, taken) : NoYes(extra)
           /\ \A taken : \A yes \in ResearchYes(i, c, taken) : NoYes(yes)
<1>1. DOMAIN c \in SUBSET Tickers
  BY VerdictsType
<1>2. /\ Fired(c) \in SUBSET DOMAIN c /\ SelectiveChoices(c) \in SUBSET DOMAIN c
      /\ SideYes(c) \in SUBSET DOMAIN c
  BY DEF Fired, SelectiveChoices, SideYes
<1>3. ASSUME NEW S \in SUBSET DOMAIN c, NEW n, NEW taken, NEW ts \in Ranked(S, n, taken)
      PROVE  ts \in Seq(Tickers)
  <2>1. ts \in Seq(S)
    BY <1>1, RankedType
  <2>. QED
    BY <1>1, <2>1
<1>4. \A t \in DOMAIN c : <<t>> \in Seq(Tickers)
  BY <1>1
<1>5. ASSUME NEW ts \in Seq(Tickers), NEW fired, NEW suppress, NEW kind, kind # "YES_LIVE"
      PROVE  NoYes(PicksOf(ts, i, c, fired, suppress, kind))
  BY <1>5, PicksKind DEF NoYes, IsYes
<1>6. NoYes(<<>>)
  BY DEF NoYes
<1>7. ASSUME NEW main \in MainPicks(i, c) PROVE NoYes(main)
  <2>1. \E fires, suppress : \E ts \in Seq(Tickers) :
          main = PicksOf(ts, i, c, fires, suppress, "DELIVERED_CANDIDATE")
    BY <1>2, <1>3, <1>4 DEF MainPicks
  <2>. QED
    BY <1>5, <2>1
<1>8. ASSUME NEW taken, NEW extra \in NotifyPicks(i, c, taken) PROVE NoYes(extra)
  <2>1. extra = <<>> \/ \E ts \in Seq(Tickers) :
          extra = PicksOf(ts, i, c, TRUE, FALSE, "DELIVERED_CANDIDATE")
    BY <1>3 DEF NotifyPicks
  <2>. QED
    BY <1>5, <1>6, <2>1
<1>9. ASSUME NEW taken, NEW yes \in ResearchYes(i, c, taken) PROVE NoYes(yes)
  <2>1. yes = <<>> \/ \E ts \in Seq(Tickers) :
          yes = PicksOf(ts, i, c, FALSE, FALSE, "RESEARCH_YES")
    BY <1>2, <1>4 DEF ResearchYes
  <2>. QED
    BY <1>5, <1>6, <2>1
<1>. QED
  BY <1>7, <1>8, <1>9

\* The live list has a contract once, and only the marks of YesLive have one.
LEMMA LiveKinds ==
    ASSUME NEW c \in Verdicts, NEW i \in Intervals, NEW main, NEW live \in LiveYes(i, c, main)
    PROVE  /\ live # <<>> => i \in YesLive
           /\ \A j, k \in 1..Len(live) : live[j].t = live[k].t => j = k
<1> DEFINE S == IF i \in Selective
                THEN TickersOf(main) \cap SideYes(c) \cap SelectiveChoices(c) ELSE SideYes(c)
<1>1. S \in SUBSET Tickers
  BY VerdictsType DEF SideYes
<1>2. live # <<>> => i \in YesLive /\ \E ts \in SetToSeqs(S) :
                        live = PicksOf(ts, i, c, FALSE, FALSE, "YES_LIVE")
  BY DEF LiveYes
<1> HIDE DEF S
<1>3. CASE live = <<>>
  BY <1>3
<1>4. ASSUME NEW ts \in SetToSeqs(S), live = PicksOf(ts, i, c, FALSE, FALSE, "YES_LIVE")
      PROVE  \A j, k \in 1..Len(live) : live[j].t = live[k].t => j = k
  <2>1. Cardinality(S) \in Nat
    BY <1>1, SubsetFinite, FS_CardinalityType
  <2>2. /\ ts \in [1..Cardinality(S) -> S]
        /\ \A j, k \in 1..Cardinality(S) : j # k => ts[j] # ts[k]
    BY DEF SetToSeqs
  <2>3. ts \in Seq(Tickers) /\ Len(ts) = Cardinality(S)
    BY <1>1, <2>1, <2>2
  <2>4. Len(live) = Len(ts) /\ \A k \in 1..Len(ts) : live[k].t = ts[k]
    <3> DEFINE picks == PicksOf(ts, i, c, FALSE, FALSE, "YES_LIVE")
    <3>1. Len(picks) = Len(ts) /\ \A k \in 1..Len(ts) : picks[k].t = ts[k]
      BY <2>3 DEF PicksOf
    <3> HIDE DEF picks
    <3>2. live = picks
      BY <1>4 DEF picks
    <3>. QED
      BY <3>1, <3>2
  <2>. QED
    BY <2>2, <2>3, <2>4
<1>. QED
  BY <1>2, <1>3, <1>4

LEMMA DecideYes == ASSUME Typed, YesInv, NEW i \in Intervals, DecideInterval(i) PROVE YesInv'
<1> DEFINE n == Cardinality(YesMarks)
<1>0. TypeOK
  BY DEF Typed
<1>1. /\ act' = act /\ act = NoAct /\ todo = <<>> /\ yesOffers' = yesOffers
      /\ \A t \in Tickers : ~InHandYes(t)'
  BY DEF DecideInterval, calls, InHandYes, NoAct
<1>2. CASE ReportLocked(i)
  BY <1>1, <1>2 DEF DecideInterval, YesInv, YesMarks, Waits, InHandYes
<1>3. CASE ~ReportLocked(i)
  <2>1. reportLock' = reportLock \cup {i} /\ i \notin reportLock
    BY <1>3 DEF DecideInterval, ReportLocked
  <2>2. /\ n \in Nat /\ Cardinality(YesMarks)' \in Nat
        /\ Cardinality(YesMarks)' = IF i \in YesLive THEN n + 1 ELSE n
    <3>1. YesMarks' = IF i \in YesLive THEN YesMarks \cup {i} ELSE YesMarks
      BY <2>1 DEF YesMarks
    <3>. QED
      BY <1>0, <2>1, <3>1, YesMarksSize
  <2>3. job.cands \in Verdicts
    BY <1>0 DEF TypeOK, Job, Verdicts
  <2> DEFINE taken(main) == IF i \in Selective /\ SelectiveChoices(job.cands) = {}
                            THEN {} ELSE TickersOf(main)
  <2>4. PICK main \in MainPicks(i, job.cands) :
           \E extra \in NotifyPicks(i, job.cands, taken(main)) :
           \E yes \in ResearchYes(i, job.cands, taken(main) \cup TickersOf(extra)) :
           \E live \in LiveYes(i, job.cands, main) : todo' = main \o extra \o yes \o live
    BY <1>3 DEF DecideInterval
  <2> HIDE DEF taken
  <2>5. PICK extra \in NotifyPicks(i, job.cands, taken(main)) :
           \E yes \in ResearchYes(i, job.cands, taken(main) \cup TickersOf(extra)) :
           \E live \in LiveYes(i, job.cands, main) : todo' = main \o extra \o yes \o live
    BY <2>4
  <2>6. PICK yes \in ResearchYes(i, job.cands, taken(main) \cup TickersOf(extra)),
             live \in LiveYes(i, job.cands, main) : todo' = main \o extra \o yes \o live
    BY <2>5
  <2>7. main \in Seq(Pick) /\ extra \in Seq(Pick) /\ yes \in Seq(Pick) /\ live \in Seq(Pick)
    BY <2>3, SelectionType
  <2>8. NoYes(main) /\ NoYes(extra) /\ NoYes(yes)
    BY <2>3, SelectionKinds
  <2>9. /\ live # <<>> => i \in YesLive
        /\ \A j, k \in 1..Len(live) : live[j].t = live[k].t => j = k
    BY <2>3, LiveKinds
  <2> DEFINE m == Len(main) + Len(extra) + Len(yes)
  <2>10. /\ m \in Nat /\ Len(live) \in Nat /\ Len(todo') = m + Len(live)
         /\ \A k \in 1..Len(todo') : IsYes(todo'[k]) =>
              k - m \in 1..Len(live) /\ todo'[k] = live[k - m]
    BY <2>6, <2>7, <2>8 DEF NoYes
  <2> HIDE DEF m, n
  <2>11. \A j, k \in 1..Len(todo') :
           IsYes(todo'[j]) /\ IsYes(todo'[k]) /\ todo'[j].t = todo'[k].t => j = k
    <3> SUFFICES ASSUME NEW j \in 1..Len(todo'), NEW k \in 1..Len(todo'),
                        IsYes(todo'[j]), IsYes(todo'[k]), todo'[j].t = todo'[k].t
                 PROVE  j = k
      OBVIOUS
    <3>1. j - m = k - m
      BY <2>9, <2>10
    <3>. QED
      BY <2>10, <3>1
  <2>12. \A t \in Tickers : Waits(t)' => i \in YesLive
    <3> SUFFICES ASSUME NEW t \in Tickers, NEW k \in 1..Len(todo'), IsYes(todo'[k])
                 PROVE  i \in YesLive
      BY DEF Waits, IsYes
    <3>1. Len(live) > 0
      BY <2>10
    <3>. QED
      BY <2>9, <3>1
  <2>13. \A t \in Tickers : yesOffers[t] \in Nat /\ yesOffers[t] <= n
    BY <1>0, CallsTyped DEF CallsType, YesInv, n
  <2>. QED
    BY <1>1, <2>2, <2>11, <2>12, <2>13 DEF YesInv, IsYes
<1>. QED
  BY <1>2, <1>3

LEMMA StartYes == Typed /\ YesInv /\ StartPick => YesInv'
<1> SUFFICES ASSUME Typed, TypeOK, YesInv, StartPick PROVE YesInv'
  BY DEF Typed
<1>1. /\ todo \in Seq(Pick) /\ todo # <<>> /\ todo' = Tail(todo)
      /\ UNCHANGED <<yesOffers, YesMarks>>
  BY DEF StartPick, TypeOK, ledger, calls, YesMarks
<1>2. /\ Len(todo) \in Nat /\ 1 \in 1..Len(todo) /\ Head(todo) = todo[1]
      /\ \A k \in 1..Len(todo') : k + 1 \in 1..Len(todo) /\ todo'[k] = todo[k + 1] /\ k + 1 # 1
  BY <1>1
<1>3. \A t \in Tickers : Waits(t)' => Waits(t)
  BY <1>2 DEF Waits, IsYes
<1>4. act'.op = "yes" => IsYes(todo[1]) /\ act'.pick = todo[1]
  BY <1>2 DEF StartPick, IsYes
<1>5. \A t \in Tickers : InHandYes(t)' => Waits(t) /\ ~Waits(t)'
  <2> SUFFICES ASSUME NEW t \in Tickers, InHandYes(t)' PROVE Waits(t) /\ ~Waits(t)'
    OBVIOUS
  <2>1. IsYes(todo[1]) /\ todo[1].t = t
    BY <1>4 DEF InHandYes
  <2>2. \A k \in 1..Len(todo') : ~(IsYes(todo'[k]) /\ todo'[k].t = t)
    BY <1>2, <2>1 DEF YesInv
  <2>. QED
    BY <1>2, <2>1, <2>2 DEF Waits, IsYes
<1>6. \A j, k \in 1..Len(todo') :
        IsYes(todo'[j]) /\ IsYes(todo'[k]) /\ todo'[j].t = todo'[k].t => j = k
  <2> SUFFICES ASSUME NEW j \in 1..Len(todo'), NEW k \in 1..Len(todo'),
                      IsYes(todo'[j]), IsYes(todo'[k]), todo'[j].t = todo'[k].t
               PROVE  j = k
    OBVIOUS
  <2>1. j + 1 = k + 1
    BY <1>2 DEF YesInv
  <2>. QED
    BY <2>1
<1>. QED
  BY <1>1, <1>3, <1>5, <1>6 DEF YesInv, IsYes

LEMMA OfferStep == Typed /\ YesInv /\ OfferYes => YesInv'
<1> SUFFICES ASSUME Typed, TypeOK, YesInv, OfferYes PROVE YesInv'
  BY DEF Typed
<1>1. act \in PickAct /\ act.op = "yes" /\ act.pick.t \in Tickers
  BY ActCases, PickParts DEF OfferYes, Doing, Sequel
<1>2. UNCHANGED <<todo, YesMarks>> /\ \A t \in Tickers : Waits(t)' <=> Waits(t)
  BY DEF OfferYes, workerRest, ledger, YesMarks, Waits
<1>3. "yes_claim" \in Sequel
  BY DEF Sequel
<1>4. act'.op # "yes"
  BY <1>1, <1>3, ThenKeepsPick DEF OfferYes, NoAct
<1>5. yesOffers' \in {yesOffers, [yesOffers EXCEPT ![act.pick.t] = @ + 1]}
  BY DEF OfferYes
<1>6. yesOffers \in [Tickers -> Nat] /\ Cardinality(YesMarks) \in Nat
  BY CallsTyped, YesMarksSize DEF CallsType
<1>7. InHandYes(act.pick.t)
  BY <1>1 DEF InHandYes
<1>8. \A t \in Tickers : /\ yesOffers'[t] <= Cardinality(YesMarks)
                         /\ Waits(t) => yesOffers'[t] < Cardinality(YesMarks)
  BY <1>1, <1>5, <1>6, <1>7 DEF YesInv
<1>. QED
  BY <1>2, <1>4, <1>8 DEF YesInv, InHandYes, IsYes

\* The steps that neither list, take nor offer a live YES buy.
YesStill ==
    /\ UNCHANGED <<yesOffers, reportLock>> /\ todo' \in {todo, <<>>}
    /\ act'.op = "yes" => act' = act

LEMMA YesSteps ==
    ASSUME TypeOK, [Next]_vars
    PROVE  YesStill \/ StartPick \/ OfferYes \/ \E i \in Intervals : DecideInterval(i)
<1>0. {"mark_recorded", "claim", "on_fire", "send", "mark", "yes_claim"} \subseteq Sequel
  BY DEF Sequel
<1>1. NoAct.op # "yes"
  BY DEF NoAct
<1>2. CASE RecordDecision \/ ClaimAlert \/ OnFire \/ SendCard
  <2>1. act \in PickAct
    BY <1>2, ActCases DEF RecordDecision, ClaimAlert, OnFire, SendCard, Doing, Sequel
  <2>2. act' = NoAct \/ \E op \in Sequel \ {"yes"} : Then(op)
    BY <1>0, <1>2 DEF RecordDecision, ClaimAlert, OnFire, SendCard
  <2>3. act'.op # "yes"
    BY <1>1, <2>1, <2>2, ThenKeepsPick
  <2>. QED
    BY <1>2, <2>3 DEF YesStill, RecordDecision, ClaimAlert, OnFire, SendCard, workerRest,
                      ledger, calls
<1>3. CASE MarkRecorded \/ MarkDelivery \/ ClaimYes \/ OnExit
  BY <1>1, <1>3 DEF YesStill, MarkRecorded, MarkDelivery, ClaimYes, OnExit, workerRest,
                    ledger, calls
<1>4. CASE WarnSend \/ WarnMark
  <2>1. act \in WarnAct
    BY <1>4, ActCases DEF WarnSend, WarnMark, Doing, WarnOps
  <2>2. act'.op \in {"warn_mark", "on_exit"}
    BY <1>4, <2>1 DEF WarnSend, WarnMark, Then, WarnAct
  <2>. QED
    BY <1>4, <2>2 DEF YesStill, WarnSend, WarnMark, workerRest, ledger, calls
<1>5. ASSUME NEW t \in Tickers, Watch(t) PROVE YesStill
  <2>1. act' = act \/ act'.op = "warn_send"
    BY <1>5 DEF Watch
  <2>. QED
    BY <1>5, <2>1 DEF YesStill, Watch, calls
<1>6. CASE Crash \/ LedgerError
  BY <1>1, <1>6 DEF YesStill, Crash, LedgerError, DropJob, workerRest, ledger, calls
<1>7. CASE TakeJob \/ FinishJob \/ Observe
  BY <1>7 DEF YesStill, TakeJob, FinishJob, Observe, worker, ledger, calls
<1>8. CASE \E t \in Tickers : OutboxFinishes(t) \/ RefreshWarnings(t)
  BY <1>8 DEF YesStill, OutboxFinishes, RefreshWarnings, worker, ledger, calls
<1>9. CASE UNCHANGED vars
  BY <1>9 DEF YesStill, vars, worker, ledger, calls
<1>. QED
  BY <1>2, <1>3, <1>4, <1>5, <1>6, <1>7, <1>8, <1>9 DEF Next, WorkerStep

LEMMA YesStep == Typed /\ YesInv /\ [Next]_vars => YesInv'
<1> SUFFICES ASSUME Typed, TypeOK, YesInv, [Next]_vars PROVE YesInv'
  BY DEF Typed
<1>1. CASE YesStill
  <2>1. YesMarks' = YesMarks
    BY <1>1 DEF YesStill, YesMarks
  <2>2. \A t \in Tickers : (InHandYes(t)' => InHandYes(t)) /\ (Waits(t)' => Waits(t))
    BY <1>1 DEF YesStill, InHandYes, Waits, IsYes
  <2>3. todo' = todo \/ 1..Len(todo') = {}
    BY <1>1 DEF YesStill
  <2>. QED
    BY <1>1, <2>1, <2>2, <2>3 DEF YesStill, YesInv, IsYes
<1>. QED
  BY <1>1, YesSteps, DecideYes, StartYes, OfferStep

YesOfferedOncePerMark ==
    \A t \in Tickers : yesOffers[t] <= Cardinality(YesLive \cap reportLock)

\* A live YES buy is offered at most once for each mark that was decided, so
\* the retry that _maybe_execute_yes announces for a refused one never takes
\* place within its mark, for any marks, bands, snapshots and faults.
THEOREM YesOffersBounded == Spec => []YesOfferedOncePerMark
<1>1. Init => YesInv
  <2> SUFFICES ASSUME Init PROVE YesInv
    OBVIOUS
  <2>1. YesMarks = {} /\ Cardinality(YesMarks) = 0
    BY FS_EmptySet DEF Init, YesMarks
  <2>2. todo = <<>> /\ act = NoAct /\ \A t \in Tickers : yesOffers[t] = 0
    BY DEF Init
  <2>. QED
    BY <2>1, <2>2 DEF YesInv, InHandYes, Waits, NoAct
<1>2. YesInv => YesOfferedOncePerMark
  BY DEF YesInv, YesOfferedOncePerMark, YesMarks
<1>. QED
  BY <1>1, <1>2, YesStep, TypedInvariance, PTL DEF Spec

-----------------------------------------------------------------------------
(* A live YES buy that was placed is locked, or waits for nothing but its  *)
(* claim.                                                                  *)

ClaimsYes(t) == act.op = "yes_claim" /\ act.pick.t = t

PlacedInv ==
    \A t \in Tickers \ lost :
       /\ yesPlaced[t] <= 1
       /\ yesPlaced[t] = 1 => <<t, "YES">> \in alertLock \/ ClaimsYes(t)

\* The steps that neither place a live YES buy nor claim it.
PlacedAside ==
    /\ UNCHANGED yesPlaced /\ alertLock \subseteq alertLock' /\ lost \subseteq lost'
    /\ act.op = "yes_claim" => act' = act \/ act.pick.t \in lost'

LEMMA PlacedSteps ==
    ASSUME TypeOK, [Next]_vars PROVE PlacedAside \/ OfferYes \/ ClaimYes
<1>1. CASE \/ RecordDecision \/ MarkRecorded \/ ClaimAlert \/ OnFire \/ SendCard
           \/ MarkDelivery \/ WarnSend \/ WarnMark \/ OnExit
  BY <1>1 DEF PlacedAside, RecordDecision, MarkRecorded, ClaimAlert, OnFire, SendCard,
              MarkDelivery, WarnSend, WarnMark, OnExit, Doing, ledger, calls, ghosts
<1>2. CASE \/ TakeJob \/ StartPick \/ FinishJob \/ Observe
           \/ \E i \in Intervals : DecideInterval(i)
  BY <1>2 DEF PlacedAside, TakeJob, StartPick, FinishJob, Observe, DecideInterval, NoAct,
              worker, ledger, calls, ghosts
<1>3. ASSUME NEW t \in Tickers, Watch(t) \/ OutboxFinishes(t) \/ RefreshWarnings(t)
      PROVE  PlacedAside
  BY <1>3 DEF PlacedAside, Watch, OutboxFinishes, RefreshWarnings, NoAct, worker, ledger,
              calls, ghosts
<1>4. CASE Crash
  <2>1. DropJob
    BY <1>4 DEF Crash
  <2>. QED
    BY <1>4, <2>1, DroppedIsLost DEF PlacedAside, Crash, Sequel, ledger, calls
<1>5. CASE LedgerError
  <2>1. CASE Doing("yes") \/ Doing("yes_claim")
    BY <1>5, <2>1 DEF PlacedAside, LedgerError, ledger, calls
  <2>2. CASE DropJob
    BY <1>5, <2>2, DroppedIsLost DEF PlacedAside, LedgerError, Sequel, ledger, calls
  <2>. QED
    BY <1>5, <2>1, <2>2 DEF LedgerError
<1>6. CASE UNCHANGED vars
  BY <1>6 DEF PlacedAside, vars, worker, ledger, calls, ghosts
<1>. QED
  BY <1>1, <1>2, <1>3, <1>4, <1>5, <1>6 DEF Next, WorkerStep

LEMMA PlacedStep == TypeOK /\ PlacedInv /\ [Next]_vars => PlacedInv'
<1> SUFFICES ASSUME TypeOK, PlacedInv, [Next]_vars PROVE PlacedInv'
  OBVIOUS
<1>1. CASE PlacedAside
  BY <1>1 DEF PlacedAside, PlacedInv, ClaimsYes
<1>2. CASE ClaimYes
  BY <1>2 DEF ClaimYes, PlacedInv, ClaimsYes, Doing, calls, ghosts
<1>3. CASE OfferYes
  <2>1. act \in PickAct /\ act.op = "yes" /\ act.pick.t \in Tickers
    BY <1>3, ActCases, PickParts DEF OfferYes, Doing, Sequel
  <2>2. yesPlaced \in [Tickers -> Nat] /\ UNCHANGED <<alertLock, lost>>
    BY <1>3, CallsTyped DEF CallsType, OfferYes, ledger, ghosts
  <2>3. \A t \in Tickers \ lost :
           yesPlaced[t] <= 1 /\ (yesPlaced[t] = 1 => <<t, "YES">> \in alertLock)
    BY <2>1 DEF PlacedInv, ClaimsYes
  <2>4. CASE yesPlaced' = yesPlaced
    BY <2>2, <2>3, <2>4 DEF PlacedInv
  <2>5. CASE yesPlaced' # yesPlaced
    <3>1. /\ <<act.pick.t, "YES">> \notin alertLock /\ Then("yes_claim")
          /\ yesPlaced' = [yesPlaced EXCEPT ![act.pick.t] = @ + 1]
      BY <1>3, <2>5 DEF OfferYes, AlertLocked
    <3>2. act'.op = "yes_claim" /\ act'.pick.t = act.pick.t
      BY <2>1, <3>1, ThenKeepsPick DEF Sequel
    <3>3. act.pick.t \notin lost => yesPlaced[act.pick.t] = 0
      BY <2>1, <2>2, <2>3, <3>1
    <3> SUFFICES ASSUME NEW t \in Tickers \ lost
                 PROVE  /\ yesPlaced'[t] <= 1
                        /\ yesPlaced'[t] = 1 => <<t, "YES">> \in alertLock \/ ClaimsYes(t)'
      BY <2>2 DEF PlacedInv
    <3>4. CASE t = act.pick.t
      BY <2>1, <2>2, <3>1, <3>2, <3>3, <3>4 DEF ClaimsYes
    <3>5. CASE t # act.pick.t
      BY <2>1, <2>2, <2>3, <3>1, <3>5
    <3>. QED
      BY <3>4, <3>5
  <2>. QED
    BY <2>4, <2>5
<1>. QED
  BY <1>1, <1>2, <1>3, PlacedSteps

\* A contract is bought as a live YES at most once in a window, whatever marks
\* list it and whatever the queue drops, unless a crash or a database error
\* fell between the placement and its claim (_maybe_execute_yes).
THEOREM OneLiveYes == Spec => []YesPlacedOnce
<1>1. Init => PlacedInv
  BY DEF Init, PlacedInv
<1>2. Typed /\ PlacedInv /\ [Next]_vars => PlacedInv'
  BY PlacedStep DEF Typed
<1>3. PlacedInv => YesPlacedOnce
  BY DEF PlacedInv, YesPlacedOnce
<1>. QED
  BY <1>1, <1>2, <1>3, TypedInvariance, PTL DEF Spec
=============================================================================
