------------------------ MODULE FetchSchedulerProofs ------------------------
(***************************************************************************)
(* Proofs about FetchScheduler, for any assets, pool, windows and hanging  *)
(* fetches.                                                                *)
(*                                                                         *)
(* An answer may be of any earlier market.  What keeps an engine from      *)
(* going back is the market that the loop holds for its asset: it is never *)
(* older than the engine's, it only goes forward or is dropped, and only   *)
(* its own answers are ingested.  What keeps the pool in order is that the *)
(* loop tracks exactly the fetches of the queue as queued, through         *)
(* cancelling, submitting anew and abandoning.                             *)
(***************************************************************************)
EXTENDS FetchScheduler, FiniteSetTheorems, WellFoundedInduction, TLAPS

ShownTypes ==
    /\ window \in Nat
    /\ current \in [Assets -> [ticker : Nat, live : BOOLEAN]]
    /\ engine \in [Assets -> Nat]
    /\ published \in [Assets -> [ticker : Nat, volume : Nat]]

InOrder(a) ==
    /\ published[a].ticker <= engine[a] /\ engine[a] <= window
    /\ current[a].ticker <= window
    /\ current[a].ticker # None => engine[a] <= current[a].ticker

OrderInv == ShownTypes /\ \A a \in Assets : InOrder(a)

LEMMA OrderInit == Init => OrderInv
BY DEF Init, OrderInv, ShownTypes, InOrder, All, NoMarket, None

\* The steps of the pools and the exchange's strikes touch nothing that is shown.
PoolStep ==
    \/ TakeUp \/ AnswerNobody \/ HarvestAndSubmit \/ WaitEnds \/ HarvestDetails \/ UNCHANGED vars
    \/ \E a \in Assets :
         \/ Strike(a) \/ Succeed(a) \/ Fail(a) \/ AnswerLate(a)
         \/ Yield(a) \/ AnswerDetail(a, "done") \/ AnswerDetail(a, "failed")

LEMMA StepKinds == [Next]_vars => Roll \/ Discover \/ Ingest \/ PoolStep
BY DEF Next, Loop, PoolStep

LEMMA PoolStepHides == PoolStep => UNCHANGED <<window, current, engine, published>>
<1> SUFFICES ASSUME PoolStep PROVE UNCHANGED <<window, current, engine, published>>
  OBVIOUS
<1> USE DEF exchange, shown
<1>1. CASE TakeUp \/ AnswerNobody
  BY <1>1 DEF TakeUp, TakeUpAs, AnswerNobody
<1>2. CASE HarvestAndSubmit \/ WaitEnds \/ HarvestDetails
  BY <1>2 DEF HarvestAndSubmit, WaitEnds, HarvestDetails
<1>3. CASE UNCHANGED vars
  BY <1>3 DEF vars
<1>4. ASSUME NEW a \in Assets,
             \/ Strike(a) \/ Succeed(a) \/ Fail(a) \/ AnswerLate(a)
             \/ Yield(a) \/ AnswerDetail(a, "done") \/ AnswerDetail(a, "failed")
      PROVE  UNCHANGED <<window, current, engine, published>>
  BY <1>4 DEF Strike, Succeed, Fail, AnswerLate, Answers, Yield, AnswerDetail
<1> QED
  BY <1>1, <1>2, <1>3, <1>4 DEF PoolStep

\* What an ingestion does to one asset.
LEMMA Ingested ==
    ASSUME OrderInv, Ingest, NEW a \in Assets
    PROVE  /\ \/ engine'[a] = engine[a] /\ published'[a] = published[a]
              \/ /\ a \in Active /\ engine'[a] = current[a].ticker
                 /\ engine'[a] # None /\ engine'[a] \in Nat
                 /\ \/ published'[a] = published[a]
                    \/ /\ published'[a].ticker = engine'[a]
                       /\ published'[a].volume \in {None, engine'[a]}
                       /\ published'[a] \in [ticker : Nat, volume : Nat]
           /\ UNCHANGED <<window, current>>
<1> DEFINE good == {b \in Assets : results[b] # None /\ IsCurrent(b)}
<1>1. PICK built \in SUBSET good :
        /\ engine' = [b \in Assets |-> IF b \in good THEN results[b] ELSE engine[b]]
        /\ published' = [b \in Assets |->
             IF b \in built THEN [ticker |-> results[b], volume |-> Resolved(b)]
             ELSE published[b]]
  BY DEF Ingest
<1>2. UNCHANGED <<window, current>>
  BY DEF Ingest, exchange
<1>3. CASE a \notin good
  BY <1>1, <1>2, <1>3
<1>4. CASE a \in good
  <2>1. a \in Active /\ results[a] = current[a].ticker /\ results[a] # None
    BY <1>4 DEF IsCurrent
  <2>2. results[a] \in Nat
    BY <2>1 DEF OrderInv, ShownTypes
  <2>3. Resolved(a) \in {None, results[a]} /\ None \in Nat
    BY <2>1 DEF Resolved, None
  <2>4. engine'[a] = results[a]
    BY <1>1, <1>4
  <2>5. CASE a \in built
    <3>1. published'[a] = [ticker |-> results[a], volume |-> Resolved(a)]
      BY <1>1, <2>5
    <3> QED
      BY <1>2, <2>1, <2>2, <2>3, <2>4, <3>1
  <2>6. CASE a \notin built
    <3>1. published'[a] = published[a]
      BY <1>1, <2>6
    <3> QED
      BY <1>2, <2>1, <2>2, <2>4, <3>1
  <2> QED
    BY <2>5, <2>6
<1> QED
  BY <1>3, <1>4

LEMMA OrderStep == OrderInv /\ [Next]_vars => OrderInv'
<1> SUFFICES ASSUME OrderInv, [Next]_vars PROVE OrderInv'
  OBVIOUS
<1>1. CASE Roll
  BY <1>1 DEF Roll, OrderInv, ShownTypes, InOrder, shown
<1>2. CASE Discover
  <2>1. UNCHANGED <<window, engine, published>>
    BY <1>2 DEF Discover, exchange, shown
  <2>2. PICK found \in SUBSET Assets :
          current' = [a \in Assets |->
                        IF a \in found THEN Soonest(a)
                        ELSE IF Expired(current[a]) THEN NoMarket ELSE current[a]]
    BY <1>2 DEF Discover
  <2>3. current' \in [Assets -> [ticker : Nat, live : BOOLEAN]]
    <3>1. \A a \in Assets : /\ Soonest(a) \in [ticker : Nat, live : BOOLEAN]
                            /\ NoMarket \in [ticker : Nat, live : BOOLEAN]
      BY DEF Soonest, NoMarket, None, OrderInv, ShownTypes
    <3> QED
      BY <2>2, <3>1 DEF OrderInv, ShownTypes
  <2>4. ASSUME NEW a \in Assets PROVE InOrder(a)'
    <3>1. current'[a] \in {Soonest(a), NoMarket, current[a]}
      BY <2>2
    <3>2. current'[a].ticker \in {window, None, current[a].ticker}
      BY <3>1 DEF Soonest, NoMarket
    <3> QED
      BY <2>1, <3>2 DEF OrderInv, ShownTypes, InOrder, None
  <2> QED
    BY <2>1, <2>3, <2>4 DEF OrderInv, ShownTypes
<1>3. CASE Ingest
  <2>1. \A a \in Assets : engine'[a] \in Nat /\ published'[a] \in [ticker : Nat, volume : Nat]
    BY <1>3, Ingested DEF OrderInv, ShownTypes
  <2>2. /\ engine' = [a \in Assets |-> engine'[a]]
        /\ published' = [a \in Assets |-> published'[a]]
    BY <1>3 DEF Ingest
  <2>3. UNCHANGED <<window, current>>
    BY <1>3 DEF Ingest, exchange
  <2>4. ShownTypes'
    BY <2>1, <2>2, <2>3 DEF OrderInv, ShownTypes
  <2>5. ASSUME NEW a \in Assets PROVE InOrder(a)'
    <3>1. InOrder(a) /\ current[a].ticker \in Nat /\ engine[a] \in Nat /\ published[a].ticker \in Nat
      BY DEF OrderInv, ShownTypes
    <3> QED
      BY <1>3, <2>3, <3>1, Ingested DEF InOrder, None, OrderInv, ShownTypes
  <2> QED
    BY <2>4, <2>5 DEF OrderInv
<1>4. CASE PoolStep
  BY <1>4, PoolStepHides DEF OrderInv, ShownTypes, InOrder
<1> QED
  BY <1>1, <1>2, <1>3, <1>4, StepKinds

\* However late the answers, an engine and its snapshot only go forward, and only
\* to the asset's live market.
THEOREM EnginesGoForward == Spec => NeverGoesBack
<1> DEFINE Forward == \A a \in Assets :
             /\ engine'[a] >= engine[a] /\ published'[a].ticker >= published[a].ticker
             /\ engine'[a] # engine[a] => a \in Active /\ engine'[a] = current[a].ticker
<1>1. OrderInv /\ [Next]_vars => Forward
  <2> SUFFICES ASSUME OrderInv, [Next]_vars, NEW a \in Assets
               PROVE  /\ engine'[a] >= engine[a]
                      /\ published'[a].ticker >= published[a].ticker
                      /\ engine'[a] # engine[a] => a \in Active /\ engine'[a] = current[a].ticker
    OBVIOUS
  <2>1. InOrder(a) /\ current[a].ticker \in Nat /\ engine[a] \in Nat /\ published[a].ticker \in Nat
    BY DEF OrderInv, ShownTypes
  <2>2. CASE Roll \/ Discover
    BY <2>1, <2>2 DEF Roll, Discover, shown
  <2>3. CASE Ingest
    BY <2>1, <2>3, Ingested DEF InOrder
  <2>4. CASE PoolStep
    BY <2>1, <2>4, PoolStepHides
  <2> QED
    BY <2>2, <2>3, <2>4, StepKinds
<1>2. OrderInv /\ [Next]_vars => [Forward]_vars
  BY <1>1
<1> QED
  BY <1>2, OrderInit, OrderStep, PTL DEF Spec, NeverGoesBack

\* No snapshot shows the volume of another market than its own.
THEOREM VolumesMatch == Spec => []VolumeIsOwn
<1>1. Init => VolumeIsOwn
  BY DEF Init, VolumeIsOwn, All, None
<1>2. OrderInv /\ VolumeIsOwn /\ [Next]_vars => VolumeIsOwn'
  <2> SUFFICES ASSUME OrderInv, VolumeIsOwn, [Next]_vars, NEW a \in Assets
               PROVE  published'[a].volume \in {None, published'[a].ticker}
    BY DEF VolumeIsOwn
  <2>1. CASE Roll \/ Discover
    BY <2>1 DEF Roll, Discover, shown, VolumeIsOwn
  <2>2. CASE Ingest
    BY <2>2, Ingested DEF VolumeIsOwn
  <2>3. CASE PoolStep
    BY <2>3, PoolStepHides DEF VolumeIsOwn
  <2> QED
    BY <2>1, <2>2, <2>3, StepKinds
<1> QED
  BY <1>1, <1>2, OrderInit, OrderStep, PTL DEF Spec

-----------------------------------------------------------------------------
\* The pool of threads

\* The fetches in the queue are those that the loop tracks as queued, once each.
QueuedOnce ==
    /\ \A i, j \in 1..Len(queue) : queue[i] = queue[j] => i = j
    /\ {queue[i] : i \in 1..Len(queue)} = At("queued")

QueueInv ==
    /\ \A i, j \in 1..Len(queue) : queue[i] = queue[j] => i = j
    /\ \A i \in 1..Len(queue) : inflight[queue[i]].at = "queued"
    /\ \A a \in At("queued") : \E i \in 1..Len(queue) : queue[i] = a

PoolInv == TypeOK /\ QueueInv /\ Busy <= Workers

PoolTypes ==
    /\ inflight \in [Assets -> Fetch] /\ queue \in Seq(Assets)
    /\ abandoned \in Nat

OtherTypes ==
    /\ window \in Windows /\ struck \in SUBSET Assets
    /\ current \in [Assets -> Market]
    /\ loop \in {"discover", "submit", "wait", "detail", "ingest"}
    /\ results \in [Assets -> Markets]
    /\ detailing \in [Assets -> Detail] /\ detail \in [Assets -> Markets]
    /\ engine \in [Assets -> Markets]
    /\ published \in [Assets -> [ticker : Markets, volume : Markets]]

LEMMA PlacesFinite ==
    \A place : IsFiniteSet(At(place)) /\ Cardinality(At(place)) \in Nat
<1> TAKE place
<1>1. At(place) \in SUBSET Assets
  BY DEF At
<1>. QED
  BY <1>1, SchedulerConstants, FS_Subset, FS_CardinalityType

LEMMA PoolInvParts == PoolInv <=> PoolTypes /\ OtherTypes /\ QueueInv /\ Busy <= Workers
<1>1. abandoned \in Nat /\ Busy <= Workers => abandoned \in 0..Workers
  BY PlacesFinite, SchedulerConstants DEF Busy, Stuck
<1>2. abandoned \in 0..Workers => abandoned \in Nat
  BY SchedulerConstants
<1>. QED
  BY <1>1, <1>2 DEF PoolInv, TypeOK, PoolTypes, OtherTypes

LEMMA PoolInvNext ==
    PoolTypes' /\ OtherTypes' /\ QueueInv' /\ Busy' <= Workers => PoolInv'
<1>1. At("hung")' \in SUBSET Assets /\ At("running")' \in SUBSET Assets
  BY DEF At
<1>2. Cardinality(At("hung")') \in Nat /\ Cardinality(At("running")') \in Nat
  BY <1>1, SchedulerConstants, FS_Subset, FS_CardinalityType
<1>3. abandoned' \in Nat /\ Busy' <= Workers => abandoned' \in 0..Workers
  BY <1>2, SchedulerConstants DEF Busy, Stuck
<1>. QED
  BY <1>3 DEF PoolInv, TypeOK, PoolTypes, OtherTypes

\* Threads are let go.
LEMMA NotBusier ==
    ASSUME PoolTypes, Busy <= Workers, abandoned' \in Nat, abandoned' <= abandoned,
           At("hung")' \subseteq At("hung"), At("running")' \subseteq At("running")
    PROVE  Busy' <= Workers
<1>1. /\ Cardinality(At("hung")') <= Cardinality(At("hung"))
      /\ Cardinality(At("running")') <= Cardinality(At("running"))
  BY PlacesFinite, FS_Subset
<1>2. /\ Cardinality(At("hung")) \in Nat /\ Cardinality(At("running")) \in Nat
      /\ Cardinality(At("hung")') \in Nat /\ Cardinality(At("running")') \in Nat
  <2>1. /\ At("hung")' \in SUBSET At("hung") /\ At("running")' \in SUBSET At("running")
    OBVIOUS
  <2>. QED
    BY <2>1, PlacesFinite, FS_Subset, FS_CardinalityType
<1>3. Busy = Cardinality(At("hung")) + abandoned + Cardinality(At("running"))
  BY DEF Busy, Stuck
<1>4. Busy' = Cardinality(At("hung")') + abandoned' + Cardinality(At("running")')
  BY DEF Busy, Stuck
<1>. QED
  BY <1>1, <1>2, <1>3, <1>4, SchedulerConstants DEF PoolTypes

LEMMA FetchTaken ==
    ASSUME NEW f \in Fetch, f.at # "none", NEW at \in {"queued", "running", "hung", "done", "failed"}
    PROVE  /\ [f EXCEPT !.at = at] \in Fetch /\ [f EXCEPT !.at = at].at = at
           /\ f.ticker \in Windows
           /\ [f EXCEPT !.mine = FALSE] \in Fetch /\ [f EXCEPT !.mine = FALSE].at = f.at
<1>1. f \in [at : {"queued", "running", "hung", "done", "failed"},
             ticker : Windows, mine : BOOLEAN]
  BY DEF Fetch, NoFetch
<1>. QED
  BY <1>1 DEF Fetch

\* A thread answers, tracked: Succeed, Fail, AnswerLate.
LEMMA AnswersPool ==
    ASSUME PoolInv, NEW a \in Assets, NEW at \in {"done", "failed"},
           inflight[a].at \in {"running", "hung"}, Answers(a, at)
    PROVE  PoolInv'
<1>1. /\ inflight' = [inflight EXCEPT ![a].at = at]
      /\ UNCHANGED <<exchange, current, loop, queue, abandoned, results, details, shown>>
  BY DEF Answers
<1>2. inflight \in [Assets -> Fetch] /\ queue \in Seq(Assets) /\ abandoned \in Nat
  BY PoolInvParts DEF PoolTypes
<1>3. [inflight[a] EXCEPT !.at = at] \in Fetch /\ [inflight[a] EXCEPT !.at = at].at = at
  <2>1. inflight[a] \in Fetch /\ inflight[a].at # "none"
    BY <1>2
  <2>2. at \in {"queued", "running", "hung", "done", "failed"}
    OBVIOUS
  <2>. QED
    BY <2>1, <2>2, FetchTaken
<1>4. /\ inflight' \in [Assets -> Fetch] /\ inflight'[a].at = at
      /\ \A b \in Assets \ {a} : inflight'[b] = inflight[b]
  BY <1>1, <1>2, <1>3
<1>5. At("hung")' \subseteq At("hung") /\ At("running")' \subseteq At("running")
  BY <1>4 DEF At
<1>6. PoolTypes' /\ OtherTypes'
  BY <1>1, <1>2, <1>4, PoolInvParts DEF PoolTypes, OtherTypes, exchange, details, shown
<1>7. QueueInv'
  <2>1. \A i \in 1..Len(queue) : queue[i] \in Assets /\ inflight[queue[i]].at = "queued"
    BY <1>2 DEF PoolInv, QueueInv
  <2>2. At("queued")' \subseteq At("queued")
    BY <1>4 DEF At
  <2>. QED
    BY <1>1, <1>4, <2>1, <2>2 DEF PoolInv, QueueInv
<1>8. Busy' <= Workers
  BY <1>1, <1>2, <1>5, NotBusier, PoolInvParts DEF PoolInv
<1>. QED
  BY <1>6, <1>7, <1>8, PoolInvNext

LEMMA TakeUpPool ==
    ASSUME PoolInv, NEW a \in Assets, NEW at \in {"running", "hung"}, TakeUpAs(a, at)
    PROVE  PoolInv'
<1>1. /\ inflight' = [inflight EXCEPT ![a].at = at] /\ queue' = Tail(queue)
      /\ queue # <<>> /\ a = Head(queue) /\ Busy < Workers
      /\ UNCHANGED <<exchange, current, loop, abandoned, results, details, shown>>
  BY DEF TakeUpAs
<1>2. inflight \in [Assets -> Fetch] /\ queue \in Seq(Assets) /\ abandoned \in Nat
  BY PoolInvParts DEF PoolTypes
<1>3. /\ Len(queue) \in Nat \ {0} /\ queue[1] = a /\ Tail(queue) \in Seq(Assets)
      /\ Len(queue') = Len(queue) - 1
      /\ \A i \in 1..Len(queue') : queue'[i] = queue[i + 1] /\ i + 1 \in 2..Len(queue)
  BY <1>1, <1>2
<1>4. inflight[a].at = "queued"
  BY <1>3 DEF PoolInv, QueueInv
<1>5. [inflight[a] EXCEPT !.at = at] \in Fetch /\ [inflight[a] EXCEPT !.at = at].at = at
  <2> DEFINE f == inflight[a]
  <2>1. f \in Fetch /\ f.at # "none"
    BY <1>2, <1>4
  <2>2. at \in {"queued", "running", "hung", "done", "failed"}
    OBVIOUS
  <2> HIDE DEF f
  <2>3. [f EXCEPT !.at = at] \in Fetch /\ [f EXCEPT !.at = at].at = at
    BY <2>1, <2>2, FetchTaken
  <2>. QED
    BY <2>3 DEF f
<1>6. /\ inflight' \in [Assets -> Fetch] /\ inflight'[a].at = at
      /\ \A b \in Assets \ {a} : inflight'[b] = inflight[b]
  BY <1>1, <1>2, <1>5
<1>7. PoolTypes' /\ OtherTypes'
  BY <1>1, <1>2, <1>3, <1>6, PoolInvParts DEF PoolTypes, OtherTypes, exchange, details, shown
<1>8. QueueInv'
  <2>1. \A i \in 2..Len(queue) : queue[i] \in Assets \ {a} /\ inflight[queue[i]].at = "queued"
    BY <1>2, <1>3 DEF PoolInv, QueueInv
  <2>2. \A i \in 1..Len(queue') : inflight'[queue'[i]].at = "queued"
    BY <1>3, <1>6, <2>1
  <2>3. ASSUME NEW i \in 1..Len(queue'), NEW j \in 1..Len(queue'), queue'[i] = queue'[j]
        PROVE  i = j
    <3>1. i + 1 = j + 1
      BY <1>3, <2>3 DEF PoolInv, QueueInv
    <3>. QED
      BY <3>1
  <2>4. ASSUME NEW b \in At("queued")' PROVE \E i \in 1..Len(queue') : queue'[i] = b
    <3>1. b \in At("queued") /\ b # a
      BY <1>6, <2>4 DEF At
    <3>2. PICK i \in 1..Len(queue) : queue[i] = b
      BY <3>1 DEF PoolInv, QueueInv
    <3>3. i - 1 \in 1..Len(queue') /\ (i - 1) + 1 = i
      BY <1>3, <3>1, <3>2
    <3>. QED
      BY <1>3, <3>2, <3>3
  <2>. QED
    BY <2>2, <2>3, <2>4 DEF QueueInv
<1>9. Busy' <= Workers
  <2> DEFINE h == Cardinality(At("hung"))
             r == Cardinality(At("running"))
             h1 == Cardinality(At("hung")')
             r1 == Cardinality(At("running")')
  <2>1. h \in Nat /\ r \in Nat /\ Busy = h + abandoned + r
    BY PlacesFinite DEF Busy, Stuck
  <2>2. Busy' = h1 + abandoned + r1
    BY <1>1 DEF Busy, Stuck
  <2>3. a \notin At("hung") /\ a \notin At("running")
    BY <1>4 DEF At
  <2>4. CASE at = "running"
    <3>1. At("hung")' = At("hung") /\ At("running")' = At("running") \cup {a}
      BY <1>6, <2>3, <2>4 DEF At
    <3>2. h1 = h /\ r1 = r + 1
      BY <3>1, <2>3, PlacesFinite, FS_AddElement
    <3> HIDE DEF h, r, h1, r1
    <3>. QED
      BY <1>1, <1>2, <2>1, <2>2, <3>2, SchedulerConstants
  <2>5. CASE at = "hung"
    <3>1. At("running")' = At("running") /\ At("hung")' = At("hung") \cup {a}
      BY <1>6, <2>3, <2>5 DEF At
    <3>2. h1 = h + 1 /\ r1 = r
      BY <3>1, <2>3, PlacesFinite, FS_AddElement
    <3> HIDE DEF h, r, h1, r1
    <3>. QED
      BY <1>1, <1>2, <2>1, <2>2, <3>2, SchedulerConstants
  <2>. QED
    BY <2>4, <2>5
<1>. QED
  BY <1>7, <1>8, <1>9, PoolInvNext

LEMMA NobodyPool == ASSUME PoolInv, AnswerNobody PROVE PoolInv'
<1>1. /\ abandoned > 0 /\ abandoned' = abandoned - 1
      /\ UNCHANGED <<exchange, current, loop, inflight, queue, results, details, shown>>
  BY DEF AnswerNobody
<1>2. abandoned \in Nat /\ abandoned' \in Nat /\ abandoned' <= abandoned
  BY <1>1, PoolInvParts DEF PoolTypes
<1>3. PoolTypes' /\ OtherTypes' /\ QueueInv'
  BY <1>1, <1>2, PoolInvParts DEF PoolTypes, OtherTypes, QueueInv, At, exchange, details, shown
<1>4. Busy' <= Workers
  BY <1>1, <1>2, NotBusier, PoolInvParts DEF At
<1>. QED
  BY <1>3, <1>4, PoolInvNext

LEMMA YieldPool == ASSUME PoolInv, NEW a \in Assets, Yield(a) PROVE PoolInv'
<1>1. /\ inflight' = [inflight EXCEPT ![a] = NoFetch] /\ a \in Answered
      /\ results' = IF inflight[a].at = "done"
                    THEN [results EXCEPT ![a] = inflight[a].ticker] ELSE results
      /\ UNCHANGED <<exchange, current, loop, queue, abandoned, details, shown>>
  BY DEF Yield
<1>2. inflight \in [Assets -> Fetch] /\ queue \in Seq(Assets) /\ abandoned \in Nat
  BY PoolInvParts DEF PoolTypes
<1>3. inflight[a].at \in {"done", "failed"} /\ NoFetch \in Fetch /\ NoFetch.at = "none"
  BY <1>1 DEF Answered, Fetch, NoFetch
<1>4. /\ inflight' \in [Assets -> Fetch] /\ inflight'[a].at = "none"
      /\ \A b \in Assets \ {a} : inflight'[b] = inflight[b]
  BY <1>1, <1>2, <1>3
<1>5. results' \in [Assets -> Markets]
  <2>1. inflight[a].ticker \in Windows
    BY <1>2, <1>3, FetchTaken
  <2>2. results \in [Assets -> Markets]
    BY PoolInvParts DEF OtherTypes
  <2>3. inflight[a].ticker \in Markets
    BY <2>1 DEF Markets
  <2>. QED
    BY <1>1, <2>2, <2>3
<1>6. PoolTypes' /\ OtherTypes'
  BY <1>1, <1>2, <1>4, <1>5, PoolInvParts DEF PoolTypes, OtherTypes, exchange, details, shown
<1>7. QueueInv'
  <2>1. \A i \in 1..Len(queue) : queue[i] \in Assets /\ inflight[queue[i]].at = "queued"
    BY <1>2 DEF PoolInv, QueueInv
  <2>2. At("queued")' \subseteq At("queued")
    BY <1>4 DEF At
  <2>. QED
    BY <1>1, <1>3, <1>4, <2>1, <2>2 DEF PoolInv, QueueInv
<1>8. Busy' <= Workers
  <2>1. At("hung")' \subseteq At("hung") /\ At("running")' \subseteq At("running")
    BY <1>4 DEF At
  <2>. QED
    BY <1>1, <1>2, <2>1, NotBusier, PoolInvParts
<1>. QED
  BY <1>6, <1>7, <1>8, PoolInvNext

-----------------------------------------------------------------------------
\* Harvesting and submitting

Less == {pair \in Nat \X Nat : pair[1] < pair[2]}

LEMMA LessWellFounded == IsWellFoundedOn(Less, Nat)
BY NatLessThanWellFounded DEF OpToRel, Less

LEMMA LeastExists ==
    ASSUME NEW S \in SUBSET Nat, S # {}
    PROVE  \E n \in S : n = 0 \/ n - 1 \notin S
<1>1. PICK n \in S : \A m \in S : <<m, n>> \notin Less
  BY LessWellFounded, WFMin
<1>2. n # 0 => <<n - 1, n>> \in Less
  BY DEF Less
<1>. QED
  BY <1>1, <1>2

\* s has the assets of the first m of the queue that are not dropped, once each.
LeftOf(dropped, m, s) ==
    /\ s \in Seq(Assets)
    /\ \A i, j \in 1..Len(s) : s[i] = s[j] => i = j
    /\ \A i \in 1..Len(s) : s[i] \notin dropped /\ \E j \in 1..m : s[i] = queue[j]
    /\ \A j \in 1..m : queue[j] \notin dropped => \E i \in 1..Len(s) : s[i] = queue[j]

\* The queue up to its i-th fetch is left from what is left of the fetches before.
LeftNext(dropped, i, s) == IF queue[i] \in dropped THEN s ELSE Append(s, queue[i])

LEMMA LeftNextIsLeft ==
    ASSUME PoolInv, NEW dropped, NEW i \in 1..Len(queue), NEW s, LeftOf(dropped, i - 1, s)
    PROVE  LeftOf(dropped, i, LeftNext(dropped, i, s))
<1>1. /\ s \in Seq(Assets) /\ Len(s) \in Nat /\ queue[i] \in Assets /\ i \in Nat
      /\ \A j \in 1..i - 1 : j \in 1..i /\ j \in 1..Len(queue)
  BY PoolInvParts DEF LeftOf, PoolTypes
<1>0. \A j \in 1..i : j \in 1..i - 1 \/ j = i
  BY <1>1
<1>2. CASE queue[i] \in dropped
  BY <1>0, <1>1, <1>2 DEF LeftOf, LeftNext
<1>3. CASE queue[i] \notin dropped
  <2> DEFINE t == Append(s, queue[i])
  <2>1. /\ t \in Seq(Assets) /\ Len(t) = Len(s) + 1 /\ t[Len(s) + 1] = queue[i]
        /\ \A k \in 1..Len(s) : t[k] = s[k]
    BY <1>1
  <2> HIDE DEF t
  <2>2. \A k \in 1..Len(s) : s[k] # queue[i]
    <3> SUFFICES ASSUME NEW k \in 1..Len(s) PROVE s[k] # queue[i]
      OBVIOUS
    <3>1. PICK j \in 1..i - 1 : s[k] = queue[j]
      BY DEF LeftOf
    <3>2. j # i
      BY <1>1
    <3>. QED
      BY <1>1, <3>1, <3>2 DEF PoolInv, QueueInv
  <2>3. \A k \in 1..Len(t) : k \in 1..Len(s) \/ k = Len(s) + 1
    BY <1>1, <2>1
  <2>4. \A k, l \in 1..Len(t) : t[k] = t[l] => k = l
    BY <2>1, <2>2, <2>3 DEF LeftOf
  <2>5. \A k \in 1..Len(t) : t[k] \notin dropped /\ \E j \in 1..i : t[k] = queue[j]
    <3> SUFFICES ASSUME NEW k \in 1..Len(t)
                 PROVE  t[k] \notin dropped /\ \E j \in 1..i : t[k] = queue[j]
      OBVIOUS
    <3>1. CASE k \in 1..Len(s)
      <4>1. s[k] \notin dropped /\ \E j \in 1..i - 1 : s[k] = queue[j]
        BY <3>1 DEF LeftOf
      <4>. QED
        BY <1>1, <2>1, <3>1, <4>1
    <3>2. CASE k = Len(s) + 1
      BY <1>1, <1>3, <2>1, <3>2
    <3>. QED
      BY <2>3, <3>1, <3>2
  <2>6. \A k \in 1..Len(s) : k \in 1..Len(t)
    BY <1>1, <2>1
  <2>7. \A j \in 1..i : queue[j] \notin dropped => \E k \in 1..Len(t) : t[k] = queue[j]
    <3>1. Len(s) + 1 \in 1..Len(t)
      BY <1>1, <2>1
    <3>. QED
      BY <1>0, <2>1, <2>6, <3>1 DEF LeftOf
  <2>. QED
    BY <1>3, <2>1, <2>4, <2>5, <2>7 DEF LeftOf, LeftNext, t
<1>. QED
  BY <1>2, <1>3

\* The recursive function that Left defines exists.
LEMMA LeftExists ==
    ASSUME PoolInv, NEW dropped
    PROVE  \E f \in [0..Len(queue) -> Seq(Assets)] :
             /\ f[0] = <<>>
             /\ \A i \in 1..Len(queue) : f[i] = LeftNext(dropped, i, f[i - 1])
<1> DEFINE n == Len(queue)
           Upto(k) == \E f \in [0..k -> Seq(Assets)] :
                        f[0] = <<>> /\ \A i \in 1..k : f[i] = LeftNext(dropped, i, f[i - 1])
           Bad == {k \in 0..n : ~Upto(k)}
<1>1. n \in Nat /\ \A i \in 1..n : queue[i] \in Assets
  BY PoolInvParts DEF PoolTypes
<1>2. Upto(0)
  <2> DEFINE f == [i \in 0..0 |-> <<>>]
  <2>1. f \in [0..0 -> Seq(Assets)] /\ f[0] = <<>>
    OBVIOUS
  <2> HIDE DEF f
  <2>2. \A i \in 1..0 : f[i] = LeftNext(dropped, i, f[i - 1])
    OBVIOUS
  <2>. QED
    BY <2>1, <2>2
<1>3. ASSUME NEW k \in 1..n, Upto(k - 1) PROVE Upto(k)
  <2>1. PICK f \in [0..k - 1 -> Seq(Assets)] :
          f[0] = <<>> /\ \A i \in 1..k - 1 : f[i] = LeftNext(dropped, i, f[i - 1])
    BY <1>3
  <2> DEFINE last == LeftNext(dropped, k, f[k - 1])
             g == [i \in 0..k |-> IF i < k THEN f[i] ELSE last]
  <2>2. last \in Seq(Assets)
    BY <1>1, <2>1 DEF LeftNext
  <2> HIDE DEF last
  <2>3. g \in [0..k -> Seq(Assets)] /\ g[0] = <<>>
    BY <2>1, <2>2
  <2>4. ASSUME NEW i \in 1..k PROVE g[i] = LeftNext(dropped, i, g[i - 1])
    <3>1. g[i - 1] = f[i - 1]
      OBVIOUS
    <3>2. CASE i < k
      BY <2>1, <3>1, <3>2
    <3>3. CASE i = k
      BY <3>1, <3>3 DEF last
    <3>. QED
      BY <3>2, <3>3
  <2> HIDE DEF g
  <2>. QED
    BY <2>3, <2>4
<1> HIDE DEF Upto
<1>4. Bad = {}
  <2> SUFFICES ASSUME Bad # {} PROVE FALSE
    OBVIOUS
  <2>1. Bad \in SUBSET Nat
    BY <1>1
  <2>2. PICK k \in Bad : k = 0 \/ k - 1 \notin Bad
    BY <2>1, LeastExists
  <2>3. k \in 1..n /\ k - 1 \in 0..n
    BY <1>1, <1>2, <2>2
  <2>. QED
    BY <1>3, <2>2, <2>3
<1>5. Upto(n)
  BY <1>1, <1>4
<1>. QED
  BY <1>5 DEF Upto

\* Cancelling leaves the queue a queue.
LEMMA LeftIsLeft ==
    ASSUME PoolInv, NEW dropped PROVE LeftOf(dropped, Len(queue), Left(dropped))
<1> DEFINE n == Len(queue)
           Recurs(f) == f = [i \in 0..n |-> IF i = 0 THEN <<>>
                                            ELSE IF queue[i] \in dropped THEN f[i - 1]
                                            ELSE Append(f[i - 1], queue[i])]
           left == CHOOSE f : Recurs(f)
           Bad == {k \in 0..n : ~LeftOf(dropped, k, left[k])}
<1>1. n \in Nat
  BY PoolInvParts DEF PoolTypes
<1>2. PICK f \in [0..n -> Seq(Assets)] :
        f[0] = <<>> /\ \A i \in 1..n : f[i] = LeftNext(dropped, i, f[i - 1])
  BY LeftExists
<1>3. Recurs(f)
  <2>1. \A i \in 0..n : i # 0 => i \in 1..n
    BY <1>1
  <2>2. \A i \in 0..n : f[i] = IF i = 0 THEN <<>>
                             ELSE IF queue[i] \in dropped THEN f[i - 1]
                             ELSE Append(f[i - 1], queue[i])
    BY <1>2, <2>1 DEF LeftNext
  <2>. QED
    BY <1>2, <2>2
<1>4. Recurs(left)
  <2> HIDE DEF Recurs
  <2>. QED
    BY <1>3
<1>5. Left(dropped) = left[n]
  BY DEF Left
<1> HIDE DEF left
<1>6. left[0] = <<>> /\ \A i \in 1..n : left[i] = LeftNext(dropped, i, left[i - 1])
  <2>1. 0 \in 0..n /\ \A i \in 1..n : i \in 0..n /\ i # 0
    BY <1>1
  <2>2. \A i \in 0..n : left[i] = IF i = 0 THEN <<>>
                                ELSE IF queue[i] \in dropped THEN left[i - 1]
                                ELSE Append(left[i - 1], queue[i])
    <3> DEFINE r == [i \in 0..n |-> IF i = 0 THEN <<>>
                                    ELSE IF queue[i] \in dropped THEN left[i - 1]
                                    ELSE Append(left[i - 1], queue[i])]
    <3>1. \A i \in 0..n : r[i] = IF i = 0 THEN <<>>
                                ELSE IF queue[i] \in dropped THEN left[i - 1]
                                ELSE Append(left[i - 1], queue[i])
      OBVIOUS
    <3>2. left = r
      BY <1>4
    <3>. QED
      BY <3>1, <3>2
  <2>. QED
    BY <2>1, <2>2 DEF LeftNext
<1>7. LeftOf(dropped, 0, left[0])
  BY <1>6 DEF LeftOf
<1>8. Bad = {}
  <2> SUFFICES ASSUME Bad # {} PROVE FALSE
    OBVIOUS
  <2>1. Bad \in SUBSET Nat
    BY <1>1
  <2>2. PICK k \in Bad : k = 0 \/ k - 1 \notin Bad
    BY <2>1, LeastExists
  <2>3. k \in 1..n /\ LeftOf(dropped, k - 1, left[k - 1])
    BY <1>1, <1>7, <2>2
  <2>4. LeftOf(dropped, k, left[k])
    BY <1>6, <2>3, LeftNextIsLeft
  <2>. QED
    BY <2>2, <2>4
<1>. QED
  BY <1>1, <1>5, <1>8

\* The fetches of a set are submitted once each.
LEMMA SubmittedOnce ==
    ASSUME NEW S \in SUBSET Assets
    PROVE  /\ SetToSeq(S) \in Seq(Assets)
           /\ \A i \in 1..Len(SetToSeq(S)) : SetToSeq(S)[i] \in S
           /\ \A i, j \in 1..Len(SetToSeq(S)) : SetToSeq(S)[i] = SetToSeq(S)[j] => i = j
           /\ \A a \in S : \E i \in 1..Len(SetToSeq(S)) : SetToSeq(S)[i] = a
<1>1. IsFiniteSet(S) /\ Cardinality(S) \in Nat /\ ExistsBijection(1..Cardinality(S), S)
  BY SchedulerConstants, FS_Subset, FS_CardinalityType
<1>2. \E f \in [1..Cardinality(S) -> S] : IsInjective(f)
  BY <1>1 DEF ExistsBijection, Bijection, Injection, IsInjective
<1>3. SetToSeq(S) \in [1..Cardinality(S) -> S] /\ IsInjective(SetToSeq(S))
  BY <1>2 DEF SetToSeq
<1> DEFINE order == SetToSeq(S)
<1> HIDE DEF order
<1>4. order \in Seq(S) /\ Len(order) = Cardinality(S)
  BY <1>1, <1>3 DEF order
<1>5. order \in [1..Cardinality(S) -> S] /\ IsInjective(order)
  BY <1>3 DEF order
<1> DEFINE image == {order[i] : i \in 1..Cardinality(S)}
<1>6. image = S
  <2>1. image \in SUBSET S
    BY <1>5
  <2>2. order \in Bijection(1..Cardinality(S), image)
    BY <1>5 DEF Bijection, Injection, Surjection, IsInjective
  <2>3. IsFiniteSet(1..Cardinality(S)) /\ Cardinality(1..Cardinality(S)) = Cardinality(S)
    BY <1>1, FS_Interval
  <2>4. ExistsBijection(1..Cardinality(S), image)
    BY <2>2 DEF ExistsBijection
  <2> HIDE DEF image
  <2>5. Cardinality(image) = Cardinality(S)
    BY <2>3, <2>4, FS_Bijection
  <2>. QED
    BY <1>1, <2>1, <2>5, FS_Subset
<1>7. \A a \in S : \E i \in 1..Len(order) : order[i] = a
  BY <1>4, <1>6
<1>. QED
  BY <1>1, <1>4, <1>5, <1>7 DEF order, IsInjective

\* What _harvest_and_submit makes of the fetch of one asset.
LEMMA HarvestedFetch ==
    ASSUME PoolInv, HarvestAndSubmit
    PROVE  \E dropped \in SUBSET Overdue, new \in SUBSET Active :
             /\ new \cap (At("running") \cup At("hung")) \subseteq dropped
             /\ new \cap At("queued") \subseteq dropped
             /\ inflight' \in [Assets -> Fetch]
             /\ \A a \in Assets :
                  inflight'[a].at = IF a \in new THEN "queued"
                                   ELSE IF a \in dropped \cup Answered THEN "none"
                                   ELSE inflight[a].at
             /\ queue' = Left(dropped) \o SetToSeq(new)
             /\ abandoned' = abandoned + Cardinality(dropped \cap At("hung"))
<1>1. PICK dropped \in SUBSET Overdue :
         LET gone == Answered \cup dropped
             new == {a \in Active : ~Kept(gone, a)}
         IN
           /\ inflight' = [a \in Assets |->
                IF a \in new
                THEN [at |-> "queued", ticker |-> current[a].ticker, mine |-> TRUE]
                ELSE IF Kept(gone, a) THEN [inflight[a] EXCEPT !.mine = FALSE]
                ELSE NoFetch]
           /\ queue' = Left(dropped) \o SetToSeq(new)
           /\ abandoned' = abandoned + Cardinality(dropped \cap At("hung"))
  BY DEF HarvestAndSubmit
<1> DEFINE gone == Answered \cup dropped
           new == {a \in Active : ~Kept(gone, a)}
           Made(a) == IF a \in new
                      THEN [at |-> "queued", ticker |-> current[a].ticker, mine |-> TRUE]
                      ELSE IF Kept(gone, a) THEN [inflight[a] EXCEPT !.mine = FALSE]
                      ELSE NoFetch
<1>2. inflight' = [a \in Assets |-> Made(a)]
  BY <1>1
<1>3. ASSUME NEW a \in Assets
      PROVE  /\ Made(a) \in Fetch
             /\ Made(a).at = IF a \in new THEN "queued"
                             ELSE IF a \in dropped \cup Answered THEN "none"
                             ELSE inflight[a].at
  <2>1. inflight[a] \in Fetch /\ current[a] \in Market
    BY PoolInvParts DEF PoolTypes, OtherTypes
  <2>2. CASE a \in new
    <3>1. current[a].live
      BY <2>2 DEF Active
    <3>2. current[a].ticker \in Windows
      BY <2>1, <3>1 DEF Market, NoMarket
    <3>. QED
      BY <2>2, <3>2 DEF Fetch
  <2>3. CASE a \notin new /\ Kept(gone, a)
    <3>1. inflight[a].at # "none" /\ a \notin gone
      BY <2>3 DEF Kept
    <3>2. [inflight[a] EXCEPT !.mine = FALSE] \in Fetch
          /\ [inflight[a] EXCEPT !.mine = FALSE].at = inflight[a].at
      <4> DEFINE f == inflight[a]
      <4>1. f \in Fetch /\ f.at # "none"
        BY <2>1, <3>1
      <4> HIDE DEF f
      <4>2. [f EXCEPT !.mine = FALSE] \in Fetch /\ [f EXCEPT !.mine = FALSE].at = f.at
        BY <4>1, FetchTaken
      <4>. QED
        BY <4>2 DEF f
    <3>. QED
      BY <2>3, <3>1, <3>2
  <2>4. CASE a \notin new /\ ~Kept(gone, a)
    <3>1. inflight[a].at = "none" \/ a \in gone
      BY <2>4 DEF Kept
    <3>2. Made(a) = NoFetch /\ NoFetch.at = "none" /\ NoFetch \in Fetch
      BY <2>4 DEF NoFetch, Fetch
    <3> HIDE DEF Made, new
    <3>. QED
      BY <2>4, <3>1, <3>2
  <2>. QED
    BY <2>2, <2>3, <2>4
<1>4. new \in SUBSET Active /\ new \in SUBSET Assets
  BY DEF Active
<1>5. ASSUME NEW a \in new, inflight[a].at \in {"running", "hung", "queued"} PROVE a \in dropped
  BY <1>5 DEF Kept, Answered
<1>6. queue' = Left(dropped) \o SetToSeq(new)
      /\ abandoned' = abandoned + Cardinality(dropped \cap At("hung"))
  BY <1>1
<1> HIDE DEF new, Made, gone
<1>7. inflight' \in [Assets -> Fetch]
  BY <1>2, <1>3
<1>8. \A a \in Assets : inflight'[a].at = IF a \in new THEN "queued"
                                          ELSE IF a \in dropped \cup Answered THEN "none"
                                          ELSE inflight[a].at
  BY <1>2, <1>3
<1>9. /\ new \cap (At("running") \cup At("hung")) \subseteq dropped
      /\ new \cap At("queued") \subseteq dropped
  BY <1>5 DEF At
<1>. QED
  BY <1>4, <1>6, <1>7, <1>8, <1>9

LEMMA HarvestPool == ASSUME PoolInv, HarvestAndSubmit PROVE PoolInv'
<1>1. PICK dropped \in SUBSET Overdue, new \in SUBSET Active :
             /\ new \cap (At("running") \cup At("hung")) \subseteq dropped
             /\ new \cap At("queued") \subseteq dropped
             /\ inflight' \in [Assets -> Fetch]
             /\ \A a \in Assets :
                  inflight'[a].at = IF a \in new THEN "queued"
                                   ELSE IF a \in dropped \cup Answered THEN "none"
                                   ELSE inflight[a].at
             /\ queue' = Left(dropped) \o SetToSeq(new)
             /\ abandoned' = abandoned + Cardinality(dropped \cap At("hung"))
  BY HarvestedFetch
<1>2. /\ inflight \in [Assets -> Fetch] /\ queue \in Seq(Assets) /\ abandoned \in Nat
      /\ new \in SUBSET Assets
  BY PoolInvParts DEF PoolTypes, Active
<1>3. \A a \in dropped : inflight[a].at \in {"hung", "queued"}
  BY DEF Overdue
<1>4. OtherTypes'
  <2>1. results' \in [Assets -> Markets]
    <3>1. \A a \in Assets : inflight[a].at = "done" => inflight[a].ticker \in Windows
      BY <1>2 DEF Fetch, NoFetch
    <3>. QED
      BY <3>1 DEF HarvestAndSubmit, Markets
  <2>2. loop' = "wait" /\ UNCHANGED <<exchange, current, details, shown>>
    BY DEF HarvestAndSubmit
  <2>. QED
    BY <2>1, <2>2, PoolInvParts DEF OtherTypes, exchange, details, shown
<1> DEFINE left == Left(dropped)
           order == SetToSeq(new)
<1>5. LeftOf(dropped, Len(queue), left)
  BY LeftIsLeft
<1>6. /\ order \in Seq(Assets)
      /\ \A i \in 1..Len(order) : order[i] \in new
      /\ \A i, j \in 1..Len(order) : order[i] = order[j] => i = j
      /\ \A a \in new : \E i \in 1..Len(order) : order[i] = a
  BY <1>2, SubmittedOnce
<1>7. queue' = left \o order
  BY <1>1
<1> HIDE DEF left, order
<1>8. /\ left \in Seq(Assets) /\ Len(left) \in Nat
      /\ \A i, j \in 1..Len(left) : left[i] = left[j] => i = j
  BY <1>5 DEF LeftOf
<1>9. \A i \in 1..Len(left) :
         left[i] \in Assets /\ left[i] \notin dropped /\ inflight[left[i]].at = "queued"
  <2>1. \A j \in 1..Len(queue) : inflight[queue[j]].at = "queued"
    BY DEF PoolInv, QueueInv
  <2>. QED
    BY <1>5, <1>8, <2>1 DEF LeftOf
<1>10. QueueInv'
  <2>1. \A i \in 1..Len(left) : left[i] \notin new
    BY <1>1, <1>9 DEF At
  <2>2. /\ Len(order) \in Nat /\ Len(queue') = Len(left) + Len(order)
        /\ \A i \in 1..Len(queue') : \/ i \in 1..Len(left) /\ queue'[i] = left[i]
                                     \/ /\ i - Len(left) \in 1..Len(order)
                                        /\ queue'[i] = order[i - Len(left)]
    BY <1>6, <1>7, <1>8
  <2>3. ASSUME NEW i \in 1..Len(queue') PROVE inflight'[queue'[i]].at = "queued"
    <3>1. CASE i \in 1..Len(left) /\ queue'[i] = left[i]
      <4>1. left[i] \notin Answered
        BY <1>9, <3>1 DEF Answered
      <4>. QED
        BY <1>1, <1>9, <3>1, <4>1
    <3>2. CASE i - Len(left) \in 1..Len(order) /\ queue'[i] = order[i - Len(left)]
      BY <1>1, <1>2, <1>6, <3>2
    <3>. QED
      BY <2>2, <3>1, <3>2
  <2>4. ASSUME NEW i \in 1..Len(queue'), NEW j \in 1..Len(queue'), queue'[i] = queue'[j]
        PROVE  i = j
    <3>1. CASE i \in 1..Len(left) /\ queue'[i] = left[i]
               /\ j \in 1..Len(left) /\ queue'[j] = left[j]
      BY <1>8, <2>4, <3>1
    <3>2. CASE /\ i - Len(left) \in 1..Len(order) /\ queue'[i] = order[i - Len(left)]
               /\ j - Len(left) \in 1..Len(order) /\ queue'[j] = order[j - Len(left)]
      <4>1. i - Len(left) = j - Len(left)
        BY <1>6, <2>4, <3>2
      <4>. QED
        BY <1>8, <2>2, <4>1
    <3>. QED
      BY <1>6, <2>1, <2>2, <2>4, <3>1, <3>2
  <2>5. /\ \A i \in 1..Len(left) : i \in 1..Len(queue') /\ queue'[i] = left[i]
        /\ \A i \in 1..Len(order) : /\ Len(left) + i \in 1..Len(queue')
                                     /\ queue'[Len(left) + i] = order[i]
    BY <1>6, <1>7, <1>8
  <2>6. ASSUME NEW b \in At("queued")' PROVE \E i \in 1..Len(queue') : queue'[i] = b
    <3>1. CASE b \in new
      BY <1>6, <2>5, <3>1
    <3>2. CASE b \notin new
      <4>1. b \in At("queued") /\ b \notin dropped
        BY <1>1, <2>6, <3>2 DEF At
      <4>2. PICK j \in 1..Len(queue) : queue[j] = b
        BY <4>1 DEF PoolInv, QueueInv
      <4>3. PICK i \in 1..Len(left) : left[i] = b
        BY <1>5, <4>1, <4>2 DEF LeftOf
      <4>. QED
        BY <2>5, <4>3
    <3>. QED
      BY <3>1, <3>2
  <2>. QED
    BY <2>3, <2>4, <2>6 DEF QueueInv
<1>11. PoolTypes'
  <2>1. queue' \in Seq(Assets)
    BY <1>6, <1>7, <1>8
  <2>2. dropped \cap At("hung") \in SUBSET At("hung")
    OBVIOUS
  <2>3. Cardinality(dropped \cap At("hung")) \in Nat
    BY <2>2, PlacesFinite, FS_Subset, FS_CardinalityType
  <2>. QED
    BY <1>1, <1>2, <2>1, <2>3 DEF PoolTypes
<1>12. Busy' <= Workers
  <2>1. At("hung")' = At("hung") \ dropped
    BY <1>1, <1>2 DEF At, Answered
  <2>2. At("running")' = At("running")
    BY <1>1, <1>2, <1>3 DEF At, Answered
  <2> DEFINE h == Cardinality(At("hung"))
             r == Cardinality(At("running"))
             d == Cardinality(dropped \cap At("hung"))
             h1 == Cardinality(At("hung")')
  <2>3. h1 = h - d /\ h \in Nat /\ r \in Nat /\ d \in Nat
    <3>1. At("hung") \cap dropped = dropped \cap At("hung")
      OBVIOUS
    <3>2. dropped \cap At("hung") \in SUBSET At("hung")
      OBVIOUS
    <3>3. Cardinality(At("hung") \ dropped) = h - Cardinality(At("hung") \cap dropped)
      BY PlacesFinite, FS_Difference
    <3>. QED
      BY <2>1, <3>1, <3>2, <3>3, PlacesFinite, FS_Subset, FS_CardinalityType
  <2>4. Busy = h + abandoned + r /\ Busy' = h1 + abandoned' + r
    BY <2>2 DEF Busy, Stuck
  <2>5. Busy <= Workers /\ abandoned' = abandoned + d
    BY <1>1, PoolInvParts
  <2> HIDE DEF h, r, d, h1
  <2>. QED
    BY <1>2, <2>3, <2>4, <2>5, SchedulerConstants
<1>. QED
  BY <1>4, <1>10, <1>11, <1>12, PoolInvNext

-----------------------------------------------------------------------------
\* The steps that leave the pool alone

LEMMA PoolKept ==
    ASSUME PoolInv, UNCHANGED pool, OtherTypes' PROVE PoolInv'
BY PoolInvParts DEF PoolInv, TypeOK, OtherTypes, QueueInv, Busy, Stuck, At, pool

LEMMA MarketsMove ==
    ASSUME PoolInv,
           Roll \/ Discover \/ WaitEnds \/ \E a \in Assets : Strike(a)
    PROVE  PoolInv'
<1>1. UNCHANGED pool
  BY DEF Roll, Discover, WaitEnds, Strike
<1>2. OtherTypes
  BY PoolInvParts
<1>3. ASSUME Roll PROVE OtherTypes'
  BY <1>2, <1>3, SchedulerConstants DEF Roll, OtherTypes, Windows, details, shown
<1>4. ASSUME Discover PROVE OtherTypes'
  <2>1. PICK found \in SUBSET Assets :
          current' = [a \in Assets |->
                        IF a \in found THEN Soonest(a)
                        ELSE IF Expired(current[a]) THEN NoMarket ELSE current[a]]
    BY <1>4 DEF Discover
  <2>2. \A a \in Assets : Soonest(a) \in Market /\ NoMarket \in Market
    BY <1>2 DEF Soonest, Market, OtherTypes
  <2>3. current' \in [Assets -> Market]
    BY <1>2, <2>1, <2>2 DEF OtherTypes
  <2>. QED
    BY <1>2, <1>4, <2>3 DEF Discover, OtherTypes, exchange, details, shown
<1>5. ASSUME WaitEnds PROVE OtherTypes'
  BY <1>2, <1>5 DEF WaitEnds, OtherTypes, exchange, details, shown
<1>6. ASSUME NEW a \in Assets, Strike(a) PROVE OtherTypes'
  BY <1>2, <1>6 DEF Strike, OtherTypes, details, shown
<1>. QED
  BY <1>1, <1>3, <1>4, <1>5, <1>6, PoolKept DEF Roll, Discover, WaitEnds, Strike

LEMMA DetailsMove ==
    ASSUME PoolInv,
           HarvestDetails \/ \E a \in Assets, at \in {"done", "failed"} : AnswerDetail(a, at)
    PROVE  PoolInv'
<1>1. UNCHANGED pool
  BY DEF HarvestDetails, AnswerDetail
<1>2. OtherTypes
  BY PoolInvParts
<1>3. ASSUME HarvestDetails PROVE OtherTypes'
  <2>1. PICK due \in SUBSET (Active \cap Detailed) :
         LET running == {a \in Assets : detailing[a].at = "running"}
             got == [a \in Assets |-> IF detailing[a].at = "done"
                                      THEN detailing[a].ticker ELSE detail[a]]
             inFlight == running \cup due
         IN
           /\ detailing' = [a \in Assets |->
                IF a \in running THEN detailing[a]
                ELSE IF a \in due
                THEN [at |-> "running", ticker |-> current[a].ticker]
                ELSE NoDetail]
           /\ detail' = [a \in Assets |->
                IF a \in inFlight \/ (a \in Active /\ got[a] = current[a].ticker)
                THEN got[a] ELSE None]
    BY <1>3 DEF HarvestDetails
  <2>2. ASSUME NEW a \in Assets
        PROVE  /\ detailing[a] \in Detail /\ NoDetail \in Detail
               /\ detailing[a].at = "done" => detailing[a].ticker \in Markets
               /\ a \in due => [at |-> "running", ticker |-> current[a].ticker] \in Detail
    <3>1. detailing[a] \in Detail /\ current[a] \in Market
      BY <1>2 DEF OtherTypes
    <3>2. detailing[a].at = "done" => detailing[a].ticker \in Markets
      BY <3>1 DEF Detail, NoDetail, Markets
    <3>3. a \in due => current[a].ticker \in Windows
      BY <3>1 DEF Active, Market, NoMarket
    <3>. QED
      BY <3>1, <3>2, <3>3 DEF Detail
  <2>3. detailing' \in [Assets -> Detail]
    BY <2>1, <2>2
  <2> DEFINE got == [a \in Assets |-> IF detailing[a].at = "done"
                                      THEN detailing[a].ticker ELSE detail[a]]
  <2>4. got \in [Assets -> Markets] /\ None \in Markets
    BY <1>2, <2>2 DEF OtherTypes, Markets
  <2>5. detail' \in [Assets -> Markets]
    <3>1. \A a \in Assets : detail'[a] \in {got[a], None}
      BY <2>1
    <3>2. detail' = [a \in Assets |-> detail'[a]]
      BY <2>1
    <3> HIDE DEF got
    <3>. QED
      BY <2>4, <3>1, <3>2
  <2>. QED
    BY <1>2, <1>3, <2>3, <2>5 DEF HarvestDetails, OtherTypes, exchange, shown
<1>4. ASSUME NEW a \in Assets, NEW at \in {"done", "failed"}, AnswerDetail(a, at)
      PROVE  OtherTypes'
  <2>1. detailing[a] \in Detail /\ detailing[a].at = "running"
    BY <1>2, <1>4 DEF AnswerDetail, OtherTypes
  <2>2. [detailing[a] EXCEPT !.at = at] \in Detail
    BY <2>1 DEF Detail, NoDetail
  <2>3. detailing' \in [Assets -> Detail]
    BY <1>2, <1>4, <2>2 DEF AnswerDetail, OtherTypes
  <2>. QED
    BY <1>2, <1>4, <2>3 DEF AnswerDetail, OtherTypes, exchange, shown
<1>. QED
  BY <1>1, <1>3, <1>4, PoolKept

LEMMA IngestMove == ASSUME PoolInv, Ingest PROVE PoolInv'
<1>1. UNCHANGED pool
  BY DEF Ingest
<1>2. OtherTypes
  BY PoolInvParts
<1>3. PICK built \in SUBSET {a \in Assets : results[a] # None /\ IsCurrent(a)} :
        /\ engine' = [a \in Assets |->
             IF a \in {b \in Assets : results[b] # None /\ IsCurrent(b)} THEN results[a]
             ELSE engine[a]]
        /\ published' = [a \in Assets |->
             IF a \in built THEN [ticker |-> results[a], volume |-> Resolved(a)]
             ELSE published[a]]
  BY DEF Ingest
<1>4. engine' \in [Assets -> Markets] /\ results' \in [Assets -> Markets]
  BY <1>2, <1>3 DEF OtherTypes, Ingest, All, Markets
<1>5. \A a \in Assets : Resolved(a) \in Markets
  BY <1>2 DEF OtherTypes, Resolved, Markets
<1>6. published' \in [Assets -> [ticker : Markets, volume : Markets]]
  BY <1>2, <1>3, <1>5 DEF OtherTypes
<1>7. OtherTypes'
  BY <1>2, <1>4, <1>6 DEF Ingest, OtherTypes, exchange, details
<1>. QED
  BY <1>1, <1>7, PoolKept

LEMMA InitPool == Init => PoolInv
<1> SUFFICES ASSUME Init PROVE PoolInv
  OBVIOUS
<1>1. At("hung") = {} /\ At("running") = {}
  BY DEF Init, All, NoFetch, At
<1>2. Busy = 0
  <2>1. Cardinality(At("hung")) = 0 /\ Cardinality(At("running")) = 0 /\ abandoned = 0
    BY <1>1, FS_EmptySet DEF Init
  <2>. QED
    BY <2>1 DEF Busy, Stuck
<1>3. 0 \in 0..Workers /\ Busy <= Workers
  BY <1>2, SchedulerConstants
<1>4. PoolTypes
  BY DEF Init, PoolTypes, All, Fetch
<1>5. OtherTypes
  BY SchedulerConstants
     DEF Init, OtherTypes, All, Windows, Markets, Market, Detail
<1>6. QueueInv
  BY DEF Init, QueueInv, At, All, NoFetch
<1>. QED
  BY <1>3, <1>4, <1>5, <1>6, PoolInvParts

LEMMA StepPool == PoolInv /\ [Next]_vars => PoolInv'
<1> SUFFICES ASSUME PoolInv, [Next]_vars PROVE PoolInv'
  OBVIOUS
<1>1. CASE TakeUp
  BY <1>1, TakeUpPool DEF TakeUp
<1>2. ASSUME NEW a \in Assets, Succeed(a) \/ Fail(a) \/ AnswerLate(a) PROVE PoolInv'
  BY <1>2, AnswersPool DEF Succeed, Fail, AnswerLate
<1>3. ASSUME NEW a \in Assets, AnswerDetail(a, "done") \/ AnswerDetail(a, "failed")
      PROVE  PoolInv'
  BY <1>3, DetailsMove
<1>4. CASE UNCHANGED vars
  <2>1. UNCHANGED pool /\ OtherTypes'
    BY <1>4, PoolInvParts DEF vars, OtherTypes, exchange, details, shown
  <2>. QED
    BY <2>1, PoolKept
<1>. QED
  BY <1>1, <1>2, <1>3, <1>4, NobodyPool, YieldPool, HarvestPool, MarketsMove, DetailsMove,
     IngestMove DEF Next, Loop

\* Every variable keeps its type, for any assets, threads and hanging fetches:
\* what a thread takes up is a fetch that the loop tracks.
THEOREM TypeCorrect == Spec => []TypeOK
<1>1. PoolInv => TypeOK
  BY DEF PoolInv
<1>. QED
  BY <1>1, InitPool, StepPool, PTL DEF Spec

\* inflight and the queue of the ThreadPoolExecutor: a fetch tracked as queued is
\* in the queue, once - none waits for a thread that never comes, and a cancelled
\* or resubmitted one leaves no second fetch of its asset behind.
THEOREM QueuedOnceAlways == Spec => []QueuedOnce
<1>1. PoolInv => QueuedOnce
  <2> SUFFICES ASSUME PoolInv PROVE QueuedOnce
    OBVIOUS
  <2>1. \A i \in 1..Len(queue) : queue[i] \in Assets /\ inflight[queue[i]].at = "queued"
    BY PoolInvParts DEF QueueInv, PoolTypes
  <2>. QED
    BY <2>1 DEF PoolInv, QueueInv, QueuedOnce, At
<1>. QED
  BY <1>1, InitPool, StepPool, PTL DEF Spec
=============================================================================
