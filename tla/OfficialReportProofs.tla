------------------------ MODULE OfficialReportProofs ------------------------
(***************************************************************************)
(* Proofs about OfficialReport, for any processes, assets, views, gates,   *)
(* faults and number of restarts.                                          *)
(***************************************************************************)
EXTENDS OfficialReport, FiniteSetTheorems, TLAPS

\* Steps on the way to the report's send, and the steps a delivered or
\* pending report, a follow-up or a prediction adds.
Special == {"claim", "send", "unlock"}
Plain == {"observe", "interval", "entry", "slot", "push", "arm", "check", "consume"}

Op(p, k) == todo[p][k].op

\* A cycle's steps end with its only reconciliation, and only the next one can
\* be on the way to the send.
Planned ==
    \A p \in Processes :
       /\ todo[p] # <<>> => Op(p, Len(todo[p])) = "reconcile"
       /\ \A k \in 1..Len(todo[p]) : Op(p, k) = "reconcile" => k = Len(todo[p])
       /\ \A k \in 2..Len(todo[p]) : Op(p, k) \notin Special

\* Only a follow-up that was armed is sent or consumed.
DueSteps ==
    \A p \in Processes, k \in Nat :
       k \in 1..Len(todo[p]) /\ Op(p, k) \in {"check", "consume"}
         => followup[todo[p][k].a] # NoFollowup

Typed == TypeOK /\ Planned /\ DueSteps

-----------------------------------------------------------------------------
(* The steps of a cycle.                                                   *)

LEMMA NaturalBounds ==
    /\ LastTick \in Nat /\ MaxFaults \in Nat /\ StableCycles \in Nat /\ StableCycles > 0
    /\ FollowDelay \in Nat /\ BandEnd \in Nat /\ CloseAt \in Nat /\ ExpireAt \in Nat
    /\ ForceAt \in Nat /\ MarkAt \in Nat
BY ReportConstants

LEMMA OrderType ==
    ASSUME NEW S \in SUBSET Assets, NEW order \in SetToSeqs(S)
    PROVE  order \in Seq(S)
<1>1. Cardinality(S) \in Nat
  BY ReportConstants, FS_Subset, FS_CardinalityType
<1>2. order \in [1..Cardinality(S) -> S]
  BY DEF SetToSeqs
<1>. QED
  BY <1>1, <1>2

LEMMA StepsTyped ==
    /\ \A op \in {"report", "claim", "send", "unlock", "followups", "reconcile"} :
         Step(op) \in Steps /\ Step(op).op = op
    /\ \A a \in Assets :
         /\ \A op \in {"record", "observe", "pending", "slot", "push", "arm", "check", "consume"} :
              StepOf(op, a) \in Steps /\ StepOf(op, a).op = op /\ StepOf(op, a).a = a
         /\ \A op \in {"interval", "entry"}, mid \in BOOLEAN :
              /\ SentStep(op, a, mid) \in Steps /\ SentStep(op, a, mid).op = op
              /\ SentStep(op, a, mid).a = a /\ SentStep(op, a, mid).mid = mid
BY DEF Step, StepOf, SentStep, Steps

LEMMA StepCases ==
    ASSUME NEW s \in Steps
    PROVE  /\ s.op \in {"record", "observe", "pending", "slot", "push", "arm", "check",
                        "consume", "credit", "interval", "entry"} => s.a \in Assets
           /\ s.op \in {"credit", "interval", "entry"} => s.mid \in BOOLEAN
           /\ s.op = "credit" => s.arms \in BOOLEAN
BY DEF Steps

\* What a cycle sees while it has steps left.
LEMMA SeenTyped ==
    ASSUME TypeOK, NEW p \in Processes, todo[p] # <<>>
    PROVE  /\ cycle[p] \in [at : 0..LastTick, view : Views] /\ cycle[p].at \in 0..LastTick
           /\ Seen(p) \in View /\ Seen(p).rank \in Seq(Assets) /\ Seen(p).best \in Assets
           /\ Seen(p).side \in [Assets -> Sides]
           /\ Head(todo[p]) \in Steps /\ Tail(todo[p]) \in Seq(Steps)
<1>1. cycle[p] \in [at : 0..LastTick, view : Views]
  BY DEF TypeOK
<1>2. Seen(p) \in View
  BY <1>1, ReportConstants DEF Seen
<1>3. todo[p] \in Seq(Steps)
  BY DEF TypeOK
<1>. QED
  BY <1>1, <1>2, <1>3 DEF View

LEMMA ThenFacts ==
    ASSUME TypeOK, NEW p \in Processes, todo[p] # <<>>, NEW more \in Seq(Steps), Then(p, more)
    PROVE  /\ todo' \in [Processes -> Seq(Steps)]
           /\ \A q \in Processes : q # p => todo'[q] = todo[q]
           /\ todo'[p] = more \o Tail(todo[p])
           /\ Len(todo'[p]) = Len(more) + Len(todo[p]) - 1
           /\ \A k \in 1..Len(todo'[p]) :
                /\ k <= Len(more) => todo'[p][k] = more[k]
                /\ k > Len(more) => /\ k - Len(more) + 1 \in 2..Len(todo[p])
                                    /\ todo'[p][k] = todo[p][k - Len(more) + 1]
<1>1. todo[p] \in Seq(Steps) /\ Len(todo[p]) \in Nat \ {0}
  BY DEF TypeOK
<1>2. Tail(todo[p]) \in Seq(Steps) /\ Len(Tail(todo[p])) = Len(todo[p]) - 1
  BY <1>1
<1>3. more \o Tail(todo[p]) \in Seq(Steps)
  BY <1>2
<1>4. todo'[p] = more \o Tail(todo[p]) /\ todo' \in [Processes -> Seq(Steps)]
      /\ \A q \in Processes : q # p => todo'[q] = todo[q]
  BY <1>3 DEF Then, TypeOK
<1>5. \A k \in 1..(Len(more) + Len(todo[p]) - 1) :
        /\ k <= Len(more) => (more \o Tail(todo[p]))[k] = more[k]
        /\ k > Len(more) => /\ k - Len(more) + 1 \in 2..Len(todo[p])
                            /\ (more \o Tail(todo[p]))[k] = todo[p][k - Len(more) + 1]
  BY <1>1, <1>2
<1>. QED
  BY <1>2, <1>4, <1>5

\* A step of process p that puts "more" in place of the one it takes.
Adds(p, more) ==
    /\ todo[p] # <<>> /\ Head(todo[p]).op # "reconcile"
    /\ more \in Seq(Steps) /\ Then(p, more)
    /\ \A k \in 1..Len(more) : more[k].op \notin {"reconcile", "report"}
    /\ Len(more) = 1 \/ \A k \in 1..Len(more) : more[k].op \notin Special

\* What "more" may hold when the step is not on the way to the send.
PlainSteps(p, more) ==
    LET s == Head(todo[p]) IN
      \A k \in 1..Len(more) :
        /\ more[k].op \in Plain
        /\ more[k].op \in {"interval", "entry"} => s.op = "credit" /\ more[k].mid = s.mid
        /\ more[k].op \in {"slot", "push", "arm"} => s.op = "credit" /\ s.arms /\ more[k].a = s.a
        /\ more[k].op = "arm" => \E j \in 1..(k - 1) : more[j].op = "slot"
        /\ more[k].op \in {"check", "consume"} => followup[more[k].a] # NoFollowup

AddsPlain(p) == \E more \in Seq(Steps) : Adds(p, more) /\ PlainSteps(p, more)

LEMMA AddsPlanned ==
    ASSUME Typed, NEW p \in Processes, NEW more, Adds(p, more)
    PROVE  Planned' /\ todo'[p] # <<>> /\ todo' \in [Processes -> Seq(Steps)]
<1>1. todo[p] \in Seq(Steps) /\ Len(todo[p]) \in Nat \ {0} /\ Len(more) \in Nat /\ more \in Seq(Steps)
  BY DEF Typed, TypeOK, Adds
<1>2. /\ todo[p][Len(todo[p])].op = "reconcile" /\ Head(todo[p]) = todo[p][1]
      /\ \A k \in 1..Len(todo[p]) : todo[p][k].op = "reconcile" => k = Len(todo[p])
      /\ \A k \in 2..Len(todo[p]) : todo[p][k].op \notin Special
  BY <1>1 DEF Typed, Planned, Op
<1>3. Len(todo[p]) >= 2
  BY <1>1, <1>2 DEF Adds
<1>4. /\ Len(todo'[p]) = Len(more) + Len(todo[p]) - 1
      /\ \A k \in 1..Len(todo'[p]) :
           /\ k <= Len(more) => todo'[p][k] = more[k]
           /\ k > Len(more) => /\ k - Len(more) + 1 \in 2..Len(todo[p])
                               /\ todo'[p][k] = todo[p][k - Len(more) + 1]
      /\ todo' \in [Processes -> Seq(Steps)] /\ \A q \in Processes : q # p => todo'[q] = todo[q]
  BY ThenFacts DEF Typed, Adds
<1>5. todo'[p][Len(todo'[p])].op = "reconcile"
  <2> DEFINE k == Len(todo'[p])
  <2>1. k \in 1..Len(todo'[p]) /\ k > Len(more) /\ k - Len(more) + 1 = Len(todo[p])
    BY <1>1, <1>3, <1>4
  <2>2. todo'[p][k] = todo[p][k - Len(more) + 1]
    BY <1>4, <2>1
  <2>. QED
    BY <1>2, <2>1, <2>2
<1>6. \A k \in 1..Len(todo'[p]) : todo'[p][k].op = "reconcile" => k = Len(todo'[p])
  <2> SUFFICES ASSUME NEW k \in 1..Len(todo'[p]), todo'[p][k].op = "reconcile"
                PROVE  k = Len(todo'[p])
    OBVIOUS
  <2>1. k > Len(more)
    BY <1>1, <1>4 DEF Adds
  <2>2. PICK j \in 2..Len(todo[p]) : j = k - Len(more) + 1 /\ todo'[p][k] = todo[p][j]
    BY <1>4, <2>1
  <2>3. todo[p][j].op = "reconcile" /\ j \in 1..Len(todo[p])
    BY <1>1, <2>2
  <2>4. j = Len(todo[p])
    BY <1>2, <2>3
  <2>5. k \in Nat /\ j = k - Len(more) + 1 /\ Len(todo'[p]) = Len(more) + Len(todo[p]) - 1
    BY <1>1, <1>4, <2>2
  <2>6. \A n \in Nat, m \in Nat, i \in Nat : n = i - m + 1 => i = m + n - 1
    OBVIOUS
  <2>. QED
    BY <1>1, <2>4, <2>5, <2>6
<1>7. \A k \in 2..Len(todo'[p]) : todo'[p][k].op \notin Special
  <2> SUFFICES ASSUME NEW k \in 2..Len(todo'[p])
                PROVE  todo'[p][k].op \notin Special
    OBVIOUS
  <2>1. CASE k <= Len(more)
    BY <1>1, <1>4, <2>1 DEF Adds
  <2>2. CASE k > Len(more)
    <3>1. PICK j \in 2..Len(todo[p]) : todo'[p][k] = todo[p][j]
      BY <1>1, <1>4, <2>2
    <3>. QED
      BY <1>2, <3>1
  <2>. QED
    BY <1>1, <1>4, <2>1, <2>2
<1>8. todo'[p] # <<>>
  BY <1>1, <1>3, <1>4
<1>9. \A q \in Processes : q # p =>
        /\ todo'[q] # <<>> => todo'[q][Len(todo'[q])].op = "reconcile"
        /\ \A k \in 1..Len(todo'[q]) : todo'[q][k].op = "reconcile" => k = Len(todo'[q])
        /\ \A k \in 2..Len(todo'[q]) : todo'[q][k].op \notin Special
  BY <1>4 DEF Typed, Planned, Op
<1>. QED
  BY <1>4, <1>5, <1>6, <1>7, <1>8, <1>9 DEF Planned, Op

\* Where a step that is left comes from.
LEMMA AddsOrigin ==
    ASSUME Typed, NEW p \in Processes, NEW more, Adds(p, more)
    PROVE  /\ \A q \in Processes : q # p => todo'[q] = todo[q]
           /\ \A k \in 1..Len(todo'[p]) :
                \/ k \in 1..Len(more) /\ todo'[p][k] = more[k]
                \/ \E j \in 2..Len(todo[p]) : todo'[p][k] = todo[p][j]
           /\ \A j \in 2..Len(todo[p]) :
                \E k \in 1..Len(todo'[p]) : todo'[p][k] = todo[p][j]
<1>1. todo[p] \in Seq(Steps) /\ Len(todo[p]) \in Nat \ {0} /\ Len(more) \in Nat
  BY DEF Typed, TypeOK, Adds
<1>2. /\ Len(todo'[p]) = Len(more) + Len(todo[p]) - 1
      /\ \A k \in 1..Len(todo'[p]) :
           /\ k <= Len(more) => todo'[p][k] = more[k]
           /\ k > Len(more) => /\ k - Len(more) + 1 \in 2..Len(todo[p])
                               /\ todo'[p][k] = todo[p][k - Len(more) + 1]
      /\ \A q \in Processes : q # p => todo'[q] = todo[q]
  BY ThenFacts DEF Typed, Adds
<1>3. \A k \in 1..Len(todo'[p]) :
        \/ k \in 1..Len(more) /\ todo'[p][k] = more[k]
        \/ \E j \in 2..Len(todo[p]) : todo'[p][k] = todo[p][j]
  <2> SUFFICES ASSUME NEW k \in 1..Len(todo'[p])
                PROVE  \/ k \in 1..Len(more) /\ todo'[p][k] = more[k]
                       \/ \E j \in 2..Len(todo[p]) : todo'[p][k] = todo[p][j]
    OBVIOUS
  <2>1. CASE k <= Len(more)
    BY <1>1, <1>2, <2>1
  <2>2. CASE k > Len(more)
    BY <1>2, <2>2
  <2>. QED
    BY <1>1, <1>2, <2>1, <2>2
<1>4. \A j \in 2..Len(todo[p]) : todo'[p][j - 1 + Len(more)] = todo[p][j]
                               /\ j - 1 + Len(more) \in 1..Len(todo'[p])
  <2> SUFFICES ASSUME NEW j \in 2..Len(todo[p])
                PROVE  todo'[p][j - 1 + Len(more)] = todo[p][j]
                       /\ j - 1 + Len(more) \in 1..Len(todo'[p])
    OBVIOUS
  <2> DEFINE k == j - 1 + Len(more)
  <2>1. k \in 1..Len(todo'[p]) /\ k > Len(more) /\ k - Len(more) + 1 = j
    BY <1>1, <1>2
  <2>2. todo'[p][k] = todo[p][k - Len(more) + 1]
    BY <1>2, <2>1
  <2>. QED
    BY <2>1, <2>2
<1>. QED
  BY <1>2, <1>3, <1>4

-----------------------------------------------------------------------------
(* The steps each action adds.                                             *)

LEMMA HeadFacts ==
    ASSUME Typed, NEW p \in Processes, todo[p] # <<>>
    PROVE  /\ Head(todo[p]) = todo[p][1] /\ 1 \in 1..Len(todo[p]) /\ Head(todo[p]) \in Steps
           /\ Len(todo[p]) \in Nat \ {0}
BY DEF Typed, TypeOK

LEMMA PlainNone ==
    ASSUME NEW p \in Processes
    PROVE  <<>> \in Seq(Steps) /\ PlainSteps(p, <<>>)
BY DEF PlainSteps

LEMMA QuietAdds ==
    ASSUME NEW p \in Processes, NEW more \in Seq(Steps), PlainSteps(p, more),
           todo[p] # <<>>, Head(todo[p]).op # "reconcile", Then(p, more)
    PROVE  AddsPlain(p)
BY DEF AddsPlain, Adds, PlainSteps, Plain, Special

LEMMA RecordAdds ==
    ASSUME Typed, NEW p \in Processes, RecordPrediction(p) PROVE AddsPlain(p)
<1>1. At(p, "record") /\ todo[p] # <<>> /\ Asset(p) \in Assets
  BY HeadFacts, StepCases DEF RecordPrediction, At, Asset
<1>2. PICK more \in {<<StepOf("observe", Asset(p))>>, <<>>} : Then(p, more)
  BY DEF RecordPrediction
<1>3. CASE more = <<>>
  BY <1>1, <1>2, <1>3, PlainNone, QuietAdds DEF At
<1>4. CASE more = <<StepOf("observe", Asset(p))>>
  <2>1. StepOf("observe", Asset(p)) \in Steps /\ StepOf("observe", Asset(p)).op = "observe"
    BY <1>1, StepsTyped
  <2>2. more \in Seq(Steps) /\ Len(more) = 1 /\ more[1].op = "observe"
    BY <1>4, <2>1
  <2>3. PlainSteps(p, more)
    BY <2>2 DEF PlainSteps, Plain
  <2>. QED
    BY <1>1, <1>2, <2>2, <2>3, QuietAdds DEF At
<1>. QED
  BY <1>2, <1>3, <1>4

LEMMA SingleAdds ==
    ASSUME Typed, NEW p \in Processes,
           ObserveShadow(p) \/ MarkPending(p) \/ RecordSent(p) \/ ClaimSlot(p)
           \/ MarkPushed(p) \/ ArmFollowup(p) \/ ConsumeFollowup(p)
    PROVE  AddsPlain(p)
<1>1. Then(p, <<>>) /\ todo[p] # <<>> /\ Head(todo[p]).op # "reconcile"
  BY DEF ObserveShadow, MarkPending, RecordSent, ClaimSlot, MarkPushed, ArmFollowup,
         ConsumeFollowup, At
<1>. QED
  BY <1>1, PlainNone, QuietAdds

LEMMA SendFollowupAdds ==
    ASSUME Typed, NEW p \in Processes, SendFollowup(p) PROVE AddsPlain(p)
<1> DEFINE more == <<StepOf("consume", Asset(p))>>
<1>1. At(p, "check") /\ todo[p] # <<>> /\ Asset(p) \in Assets /\ Then(p, more)
  BY HeadFacts, StepCases DEF SendFollowup, At, Asset
<1>2. /\ StepOf("consume", Asset(p)) \in Steps /\ StepOf("consume", Asset(p)).op = "consume"
      /\ StepOf("consume", Asset(p)).a = Asset(p)
  BY <1>1, StepsTyped
<1>3. followup[Asset(p)] # NoFollowup
  BY <1>1, HeadFacts DEF Typed, DueSteps, Op, At, Asset
<1>4. more \in Seq(Steps) /\ Len(more) = 1 /\ more[1].op = "consume" /\ more[1].a = Asset(p)
  BY <1>2
<1>5. PlainSteps(p, more)
  BY <1>3, <1>4 DEF PlainSteps, Plain
<1>. QED
  BY <1>1, <1>4, <1>5, QuietAdds DEF At

LEMMA ReadDueAdds ==
    ASSUME Typed, NEW p \in Processes, ReadDue(p) PROVE AddsPlain(p)
<1>1. At(p, "followups") /\ todo[p] # <<>> /\ Head(todo[p]).op # "reconcile"
  BY DEF ReadDue, At
<1>2. PICK order \in SetToSeqs(Due(cycle[p].at)) :
        Then(p, [k \in DOMAIN order |->
                   StepOf(IF IsLive(p, order[k]) THEN "check" ELSE "consume", order[k])])
  BY DEF ReadDue
<1> DEFINE op(k) == IF IsLive(p, order[k]) THEN "check" ELSE "consume"
           more == [k \in DOMAIN order |-> StepOf(op(k), order[k])]
<1>3. order \in Seq(Due(cycle[p].at)) /\ Due(cycle[p].at) \subseteq Assets
  BY OrderType DEF Due
<1>4. \A k \in DOMAIN order :
        /\ order[k] \in Assets /\ followup[order[k]] # NoFollowup
        /\ StepOf(op(k), order[k]) \in Steps /\ StepOf(op(k), order[k]).op = op(k)
        /\ StepOf(op(k), order[k]).a = order[k]
  BY <1>3, StepsTyped DEF Due, NoFollowup
<1>5. more \in Seq(Steps) /\ Len(more) = Len(order)
  BY <1>3, <1>4
<1>6. \A k \in 1..Len(more) : more[k].op = op(k) /\ more[k].a = order[k]
                            /\ followup[order[k]] # NoFollowup
  BY <1>3, <1>4, <1>5
<1>7. PlainSteps(p, more)
  BY <1>6 DEF PlainSteps, Plain
<1>. QED
  BY <1>1, <1>2, <1>5, <1>7, QuietAdds

LEMMA PlainChain ==
    ASSUME NEW p \in Processes, NEW m \in Seq(Steps), NEW n \in Seq(Steps),
           PlainSteps(p, m), PlainSteps(p, n)
    PROVE  m \o n \in Seq(Steps) /\ PlainSteps(p, m \o n)
<1> DEFINE c == m \o n
<1>1. /\ c \in Seq(Steps) /\ Len(c) = Len(m) + Len(n) /\ Len(m) \in Nat /\ Len(n) \in Nat
      /\ \A k \in 1..Len(m) : c[k] = m[k] /\ k \in 1..Len(c)
      /\ \A k \in 1..Len(c) : k > Len(m) => k - Len(m) \in 1..Len(n) /\ c[k] = n[k - Len(m)]
      /\ \A j \in 1..Len(n) : c[j + Len(m)] = n[j] /\ j + Len(m) \in 1..Len(c)
  OBVIOUS
<1> HIDE DEF c
<1>2. ASSUME NEW k \in 1..Len(c), c[k].op = "arm"
      PROVE  \E j \in 1..(k - 1) : c[j].op = "slot"
  <2>1. CASE k <= Len(m)
    <3>1. k \in 1..Len(m) /\ m[k].op = "arm"
      BY <1>1, <1>2, <2>1
    <3>2. PICK j \in 1..(k - 1) : m[j].op = "slot"
      BY <3>1 DEF PlainSteps
    <3>3. j \in 1..Len(m)
      BY <1>1, <2>1
    <3>. QED
      BY <1>1, <3>2, <3>3
  <2>2. CASE k > Len(m)
    <3>1. PICK i \in 1..Len(n) : i = k - Len(m) /\ c[k] = n[i]
      BY <1>1, <2>2
    <3>2. PICK j \in 1..(i - 1) : n[j].op = "slot"
      BY <1>2, <3>1 DEF PlainSteps
    <3>3. j \in 1..Len(n)
      BY <1>1, <3>1, <3>2
    <3>4. c[j + Len(m)].op = "slot"
      BY <1>1, <3>2, <3>3
    <3>5. j + Len(m) \in 1..(k - 1)
      BY <1>1, <3>1, <3>2
    <3>. QED
      BY <3>4, <3>5
  <2>. QED
    BY <1>1, <2>1, <2>2
<1>3. \A k \in 1..Len(c) : (\E i \in 1..Len(m) : c[k] = m[i]) \/ (\E i \in 1..Len(n) : c[k] = n[i])
  <2> SUFFICES ASSUME NEW k \in 1..Len(c)
                PROVE  (\E i \in 1..Len(m) : c[k] = m[i]) \/ (\E i \in 1..Len(n) : c[k] = n[i])
    OBVIOUS
  <2>1. CASE k <= Len(m)
    BY <1>1, <2>1
  <2>2. CASE k > Len(m)
    BY <1>1, <2>2
  <2>. QED
    BY <1>1, <2>1, <2>2
<1>4. PlainSteps(p, c)
  BY <1>2, <1>3 DEF PlainSteps
<1>. QED
  BY <1>1, <1>4 DEF c

LEMMA MarkSentAdds ==
    ASSUME Typed, NEW p \in Processes, MarkSent(p) PROVE AddsPlain(p)
<1> DEFINE s == Head(todo[p])
           x1 == SentStep("interval", s.a, s.mid)
           x2 == SentStep("entry", s.a, s.mid)
           x3 == StepOf("slot", s.a)
           x4 == StepOf("push", s.a)
           x5 == StepOf("arm", s.a)
           e == IF s.a \in Seen(p).entry THEN <<x2>> ELSE <<>>
           f == IF s.arms THEN <<x3, x4, x5>> ELSE <<>>
           more == PickSteps(Seen(p), s)
<1>1. s.op = "credit" /\ todo[p] # <<>> /\ Then(p, more)
  BY DEF MarkSent, At
<1>2. s.a \in Assets /\ s.mid \in BOOLEAN /\ s.arms \in BOOLEAN
  BY <1>1, HeadFacts, StepCases
<1>3. /\ x1 \in Steps /\ x1.op = "interval" /\ x1.mid = s.mid
      /\ x2 \in Steps /\ x2.op = "entry" /\ x2.mid = s.mid
      /\ x3 \in Steps /\ x3.op = "slot" /\ x3.a = s.a
      /\ x4 \in Steps /\ x4.op = "push" /\ x4.a = s.a
      /\ x5 \in Steps /\ x5.op = "arm" /\ x5.a = s.a
  BY <1>2, StepsTyped
<1>4. more = (<<x1>> \o e) \o f
  BY DEF PickSteps
<1> HIDE DEF x1, x2, x3, x4, x5, more
<1>5. <<x1>> \in Seq(Steps) /\ PlainSteps(p, <<x1>>)
  BY <1>1, <1>3 DEF PlainSteps, Plain
<1>6. e \in Seq(Steps) /\ PlainSteps(p, e)
  BY <1>1, <1>3 DEF PlainSteps, Plain
<1>7. f \in Seq(Steps) /\ PlainSteps(p, f)
  <2>1. CASE s.arms
    <3>1. f = <<x3, x4, x5>> /\ f \in Seq(Steps) /\ Len(f) = 3
          /\ f[1] = x3 /\ f[2] = x4 /\ f[3] = x5
      BY <1>3, <2>1
    <3>2. \A k \in 1..Len(f) : k = 1 \/ k = 2 \/ k = 3
      BY <3>1
    <3>3. \A k \in 1..Len(f) : f[k].op = "arm" => \E j \in 1..(k - 1) : f[j].op = "slot"
      BY <1>3, <3>1, <3>2
    <3>. QED
      BY <1>1, <1>3, <2>1, <3>1, <3>2, <3>3 DEF PlainSteps, Plain
  <2>2. CASE ~s.arms
    BY <2>2, PlainNone
  <2>. QED
    BY <2>1, <2>2
<1> HIDE DEF e, f
<1>8. more \in Seq(Steps) /\ PlainSteps(p, more)
  BY <1>4, <1>5, <1>6, <1>7, PlainChain
<1>. QED
  BY <1>1, <1>8, QuietAdds

LEMMA ConsiderAdds ==
    ASSUME Typed, NEW p \in Processes, ConsiderReport(p)
    PROVE  \E more \in Seq(Steps) :
             /\ Adds(p, more)
             /\ \/ more = <<>> /\ (LastChance(p) /\ BandEnd <= ExpireAt => lock)
                \/ more = <<Step("claim")>> /\ Len(more) = 1 /\ more[1].op = "claim" /\ ~lock
<1> DEFINE v == Seen(p)
           counted == IF v.rank = <<>> THEN verdict[p] ELSE Counted(p)
           asked == /\ v.rank # <<>> /\ Settled(cycle[p].at, counted.count)
                    /\ KeyKnown(v) /\ ~lock
           more == IF asked THEN <<Step("claim")>> ELSE <<>>
<1>1. At(p, "report") /\ Then(p, more) /\ todo[p] # <<>> /\ Head(todo[p]).op = "report"
  BY DEF ConsiderReport, At
<1>2. Step("claim") \in Steps /\ Step("claim").op = "claim"
  BY StepsTyped
<1>3. more \in Seq(Steps) /\ Adds(p, more)
  <2>1. CASE asked
    BY <1>1, <1>2, <2>1 DEF Adds
  <2>2. CASE ~asked
    BY <1>1, <2>2 DEF Adds
  <2>. QED
    BY <2>1, <2>2
<1>4. ASSUME LastChance(p), BandEnd <= ExpireAt, ~asked
      PROVE  lock
  <2>1. KeyKnown(v) /\ v.rank # <<>> /\ cycle[p].at >= ForceAt /\ cycle[p].at < BandEnd
    BY <1>4 DEF LastChance, KeyKnown, Seen, InBand
  <2>2. cycle[p].at \in Nat
    BY <1>1, SeenTyped, NaturalBounds DEF Typed
  <2>3. Settled(cycle[p].at, counted.count)
    BY <1>4, <2>1, <2>2, NaturalBounds DEF Settled
  <2>. QED
    BY <1>4, <2>1, <2>3 DEF Typed, TypeOK
<1>5. CASE asked
  <2>1. more = <<Step("claim")>> /\ Len(more) = 1 /\ more[1].op = "claim" /\ ~lock
    BY <1>2, <1>5
  <2>. QED
    BY <1>3, <2>1
<1>6. CASE ~asked
  <2>1. more = <<>> /\ (LastChance(p) /\ BandEnd <= ExpireAt => lock)
    BY <1>4, <1>6
  <2>. QED
    BY <1>3, <2>1
<1>. QED
  BY <1>5, <1>6

LEMMA ClaimAdds ==
    ASSUME Typed, NEW p \in Processes, ClaimReport(p)
    PROVE  \E more \in Seq(Steps) :
             /\ Adds(p, more)
             /\ \/ more = <<>> /\ lock
                \/ more = <<Step("send")>> /\ Len(more) = 1 /\ more[1].op = "send" /\ ~lock
<1> DEFINE more == IF ~lock THEN <<Step("send")>> ELSE <<>>
<1>1. At(p, "claim") /\ Then(p, more) /\ todo[p] # <<>> /\ Head(todo[p]).op = "claim"
  BY DEF ClaimReport, At, Claimed
<1>2. Step("send") \in Steps /\ Step("send").op = "send"
  BY StepsTyped
<1>3. CASE ~lock
  <2>1. more = <<Step("send")>> /\ Len(more) = 1 /\ more[1].op = "send" /\ more \in Seq(Steps)
    BY <1>2, <1>3
  <2>2. Adds(p, more)
    BY <1>1, <2>1 DEF Adds
  <2>. QED
    BY <1>3, <2>1, <2>2
<1>4. CASE lock
  <2>1. more = <<>> /\ more \in Seq(Steps)
    BY <1>4
  <2>2. Adds(p, more)
    BY <1>1, <2>1 DEF Adds
  <2>. QED
    BY <1>4, <2>1, <2>2
<1>. QED
  BY <1>3, <1>4

LEMMA UnlockAdds ==
    ASSUME Typed, NEW p \in Processes, UnlockReport(p) PROVE Adds(p, <<>>)
BY DEF UnlockReport, At, Adds

\* What the answer to the send adds.
Answered(p, more) ==
    \/ /\ more = <<Step("unlock")>> /\ Len(more) = 1 /\ more[1].op = "unlock"
       /\ outbox' = "SENT" /\ mutes' = mutes + 1 /\ silenced' = TRUE /\ shown' = shown
    \/ /\ mutes' = mutes /\ silenced' = silenced
       /\ outbox' = "SENT" /\ (outbox = "SENT" \/ shown' = TRUE) /\ (shown => shown')
       /\ \A k \in 1..Len(more) : more[k].op = "credit" /\ (more[k].mid => shown')
       /\ \A i, j \in 1..Len(more) : more[i].arms /\ more[j].arms => more[i].a = more[j].a
    \/ /\ mutes' = mutes /\ silenced' = silenced
       /\ \/ outbox' = outbox /\ shown' = shown
          \/ outbox # "SENT" /\ outbox' = "QUEUED" /\ (shown => shown')
       /\ \A k \in 1..Len(more) : more[k].op = "pending"

LEMMA DeliveredFacts ==
    ASSUME NEW v \in View, NEW mid \in BOOLEAN
    PROVE  /\ DeliveredSteps(v, mid) \in Seq(Steps)
           /\ \A k \in 1..Len(DeliveredSteps(v, mid)) :
                /\ DeliveredSteps(v, mid)[k].op = "credit"
                /\ DeliveredSteps(v, mid)[k].mid = mid
           /\ \A i, j \in 1..Len(DeliveredSteps(v, mid)) :
                DeliveredSteps(v, mid)[i].arms /\ DeliveredSteps(v, mid)[j].arms
                  => DeliveredSteps(v, mid)[i].a = DeliveredSteps(v, mid)[j].a
<1> DEFINE d == DeliveredSteps(v, mid)
           c(i) == [op |-> "credit", a |-> v.rank[i], mid |-> mid, arms |-> Arms(v, i)]
<1>1. v.rank \in Seq(Assets) /\ Len(v.rank) \in Nat
  BY DEF View
<1>2. \A i \in 1..Len(v.rank) : /\ c(i) \in Steps /\ c(i).op = "credit" /\ c(i).mid = mid
                              /\ c(i).a = v.rank[i] /\ c(i).arms = Arms(v, i)
  BY <1>1 DEF Steps, Arms, FirstEntry
<1>3. d = [i \in 1..Len(v.rank) |-> c(i)]
  BY <1>1 DEF DeliveredSteps
<1> HIDE DEF d, c
<1>4. /\ d \in Seq(Steps) /\ Len(d) = Len(v.rank)
      /\ \A k \in 1..Len(d) : /\ d[k].op = "credit" /\ d[k].mid = mid
                              /\ d[k].a = v.rank[k] /\ d[k].arms = Arms(v, k)
  BY <1>1, <1>2, <1>3
<1>5. \A i, j \in 1..Len(d) : d[i].arms /\ d[j].arms => d[i].a = d[j].a
  <2> SUFFICES ASSUME NEW i \in 1..Len(d), NEW j \in 1..Len(d), d[i].arms, d[j].arms
                PROVE  d[i].a = d[j].a
    OBVIOUS
  <2>1. FirstEntry(v, i) /\ FirstEntry(v, j)
    BY <1>4 DEF Arms
  <2>2. ~(i < j) /\ ~(j < i)
    BY <1>1, <1>4, <2>1 DEF FirstEntry
  <2>. QED
    BY <1>1, <1>4, <2>2
<1>6. \A k \in 1..Len(d) : d[k].op = "credit" /\ d[k].mid = mid
  BY <1>4
<1>. QED
  BY <1>4, <1>5, <1>6 DEF d

LEMMA PendingFacts ==
    ASSUME NEW v \in View
    PROVE  /\ PendingSteps(v) \in Seq(Steps)
           /\ \A k \in 1..Len(PendingSteps(v)) : PendingSteps(v)[k].op = "pending"
<1> DEFINE d == PendingSteps(v)
<1>1. v.rank \in Seq(Assets) /\ Len(v.rank) \in Nat
  BY DEF View
<1>2. \A i \in 1..Len(v.rank) : StepOf("pending", v.rank[i]) \in Steps
                              /\ StepOf("pending", v.rank[i]).op = "pending"
  BY <1>1, StepsTyped
<1>3. d = [i \in 1..Len(v.rank) |-> StepOf("pending", v.rank[i])]
  BY <1>1 DEF PendingSteps
<1> HIDE DEF d
<1>. QED
  BY <1>1, <1>2, <1>3 DEF d

LEMMA SendAdds ==
    ASSUME Typed, NEW p \in Processes, SendReport(p)
    PROVE  \E more \in Seq(Steps) : Adds(p, more) /\ Answered(p, more)
<1>1. At(p, "send") /\ todo[p] # <<>> /\ Head(todo[p]).op = "send" /\ Seen(p) \in View
  BY SeenTyped DEF SendReport, At, Typed
<1>2. Step("unlock") \in Steps /\ Step("unlock").op = "unlock"
  BY StepsTyped
<1>3. \A mid \in BOOLEAN : Then(p, DeliveredSteps(Seen(p), mid)) =>
        DeliveredSteps(Seen(p), mid) \in Seq(Steps) /\ Adds(p, DeliveredSteps(Seen(p), mid))
  BY <1>1, DeliveredFacts DEF Adds, Special
<1>4. Then(p, PendingSteps(Seen(p))) =>
        PendingSteps(Seen(p)) \in Seq(Steps) /\ Adds(p, PendingSteps(Seen(p)))
  BY <1>1, PendingFacts DEF Adds, Special
<1>5. ASSUME outbox = "SENT", Then(p, DeliveredSteps(Seen(p), FALSE)),
             UNCHANGED <<outbox, shown, silenced, mutes>>
      PROVE  Answered(p, DeliveredSteps(Seen(p), FALSE))
  BY <1>1, <1>5, DeliveredFacts DEF Answered
<1>6. ASSUME outbox # "SENT", Then(p, DeliveredSteps(Seen(p), TRUE)),
             outbox' = "SENT", shown' = TRUE, UNCHANGED <<silenced, mutes>>
      PROVE  Answered(p, DeliveredSteps(Seen(p), TRUE))
  BY <1>1, <1>6, DeliveredFacts DEF Answered
<1>7. ASSUME Then(p, <<Step("unlock")>>), outbox' = "SENT", mutes' = mutes + 1,
             silenced' = TRUE, UNCHANGED shown
      PROVE  /\ <<Step("unlock")>> \in Seq(Steps) /\ Adds(p, <<Step("unlock")>>)
             /\ Answered(p, <<Step("unlock")>>)
  <2> DEFINE m == <<Step("unlock")>>
  <2>1. m \in Seq(Steps) /\ Len(m) = 1 /\ m[1].op = "unlock"
    BY <1>2
  <2>2. Adds(p, m)
    BY <1>1, <1>7, <2>1 DEF Adds
  <2>3. Answered(p, m)
    BY <1>7, <2>1 DEF Answered
  <2>. QED
    BY <2>1, <2>2, <2>3
<1>8. ASSUME Then(p, PendingSteps(Seen(p))), UNCHANGED <<silenced, mutes>>,
             \/ UNCHANGED <<outbox, shown>>
             \/ outbox # "SENT" /\ outbox' = "QUEUED" /\ (shown => shown')
      PROVE  Answered(p, PendingSteps(Seen(p)))
  BY <1>1, <1>8, PendingFacts DEF Answered
<1>9. \/ /\ outbox = "SENT" /\ Then(p, DeliveredSteps(Seen(p), FALSE))
         /\ UNCHANGED <<outbox, shown, silenced, mutes>>
      \/ /\ outbox # "SENT" /\ Then(p, DeliveredSteps(Seen(p), TRUE))
         /\ outbox' = "SENT" /\ shown' = TRUE /\ UNCHANGED <<silenced, mutes>>
      \/ /\ Then(p, <<Step("unlock")>>) /\ outbox' = "SENT" /\ mutes' = mutes + 1
         /\ silenced' = TRUE /\ UNCHANGED shown
      \/ /\ Then(p, PendingSteps(Seen(p))) /\ UNCHANGED <<silenced, mutes>>
         /\ \/ UNCHANGED <<outbox, shown>>
            \/ outbox # "SENT" /\ outbox' = "QUEUED" /\ (shown => shown')
  BY DEF SendReport
<1>. QED
  BY <1>3, <1>4, <1>5, <1>6, <1>7, <1>8, <1>9

-----------------------------------------------------------------------------
(* Types.                                                                  *)

\* The steps of a cycle that are neither on the way to the send nor its end.
PlainAct(p) ==
    \/ RecordPrediction(p) \/ ObserveShadow(p) \/ MarkPending(p) \/ MarkSent(p)
    \/ RecordSent(p) \/ ClaimSlot(p) \/ MarkPushed(p) \/ ArmFollowup(p)
    \/ ReadDue(p) \/ SendFollowup(p) \/ ConsumeFollowup(p)

\* The cycle ends: by itself, by an error or with its process.
Ends(p) == Reconcile(p) \/ CycleFails(p) \/ Restart(p)

LEMMA NextCases ==
    ASSUME Next
    PROVE  \/ WorkerDelivers \/ Tick
           \/ \E p \in Processes : \/ StartCycle(p) \/ PlainAct(p) \/ ConsiderReport(p)
                                   \/ ClaimReport(p) \/ SendReport(p) \/ UnlockReport(p)
                                   \/ Ends(p)
BY DEF Next, CycleStep, PlainAct, Ends

LEMMA PlainAdds ==
    ASSUME Typed, NEW p \in Processes, PlainAct(p)
    PROVE  /\ AddsPlain(p)
           /\ UNCHANGED <<now, cycle, verdict, gone, lock, telegram, owed, faults>>
           /\ todo[p] # <<>>
<1>1. AddsPlain(p)
  BY RecordAdds, SingleAdds, SendFollowupAdds, ReadDueAdds, MarkSentAdds DEF PlainAct
<1>2. UNCHANGED <<now, cycle, verdict, gone, lock, telegram, owed, faults>>
  BY DEF PlainAct, RecordPrediction, ObserveShadow, MarkPending, MarkSent, RecordSent, ClaimSlot,
         MarkPushed, ArmFollowup, ReadDue, SendFollowup, ConsumeFollowup, ledger, telegram
<1>. QED
  BY <1>1, <1>2 DEF AddsPlain, Adds

LEMMA CycleKept ==
    ASSUME Typed, NEW p \in Processes, NEW more, Adds(p, more), UNCHANGED cycle
    PROVE  /\ todo' \in [Processes -> Seq(Steps)] /\ Planned'
           /\ \A q \in Processes : todo'[q] = <<>> <=> cycle'[q] = NoCycle
<1>1. todo[p] # <<>>
  BY DEF Adds
<1>2. \A q \in Processes : todo[q] = <<>> <=> cycle[q] = NoCycle
  BY DEF Typed, TypeOK
<1>. QED
  BY <1>1, <1>2, AddsPlanned, AddsOrigin

\* No action forgets a follow-up.
LEMMA FollowupsStay ==
    ASSUME TypeOK, [Next]_vars, NEW a \in Assets, followup[a] # NoFollowup
    PROVE  followup'[a] # NoFollowup
<1>1. CASE \E p \in Processes : ConsumeFollowup(p)
  <2>1. PICK p \in Processes : ConsumeFollowup(p)
    BY <1>1
  <2>2. followup[a] \in [status : {"armed", "consumed"}, due : Nat]
    BY DEF TypeOK
  <2>3. followup'[a] = followup[a] \/ followup'[a] = [followup[a] EXCEPT !.status = "consumed"]
    BY <2>1 DEF ConsumeFollowup, TypeOK
  <2>. QED
    BY <2>2, <2>3 DEF NoFollowup
<1>2. CASE \E p \in Processes : ArmFollowup(p)
  BY <1>2 DEF ArmFollowup, TypeOK
<1>3. CASE ~(\E p \in Processes : ConsumeFollowup(p)) /\ ~(\E p \in Processes : ArmFollowup(p))
  <2>1. UNCHANGED followup
    BY <1>3, NextCases DEF PlainAct, RecordPrediction, ObserveShadow, MarkPending, MarkSent,
       RecordSent, ClaimSlot, MarkPushed, ReadDue, SendFollowup, StartCycle, ConsiderReport,
       ClaimReport, SendReport, UnlockReport, Ends, Reconcile, CycleFails, Restart,
       WorkerDelivers, Tick, vars, ledger
  <2>. QED
    BY <2>1
<1>. QED
  BY <1>1, <1>2, <1>3

LEMMA DueStay ==
    ASSUME Typed, [Next]_vars, NEW p \in Processes, NEW more \in Seq(Steps), Adds(p, more),
           \A k \in 1..Len(more) : more[k].op \in {"check", "consume"} =>
             followup[more[k].a] # NoFollowup /\ more[k].a \in Assets
    PROVE  DueSteps'
<1>. SUFFICES ASSUME NEW q \in Processes, NEW k \in 1..Len(todo'[q]),
                     todo'[q][k].op \in {"check", "consume"}
              PROVE  followup'[todo'[q][k].a] # NoFollowup
  BY DEF DueSteps, Op
<1>1. todo[q] \in Seq(Steps) /\ todo[p] \in Seq(Steps)
  BY DEF Typed, TypeOK
<1>2. CASE \E j \in 1..Len(todo[q]) : todo'[q][k] = todo[q][j]
  <2>1. PICK j \in 1..Len(todo[q]) : todo'[q][k] = todo[q][j]
    BY <1>2
  <2>2. todo[q][j].a \in Assets /\ followup[todo[q][j].a] # NoFollowup
    BY <1>1, <2>1, StepCases DEF Typed, DueSteps, Op
  <2>. QED
    BY <2>1, <2>2, FollowupsStay DEF Typed
<1>3. CASE \E j \in 1..Len(more) : q = p /\ todo'[p][k] = more[j]
  BY <1>3, FollowupsStay DEF Typed
<1>4. q = p \/ todo'[q] = todo[q]
  BY AddsOrigin
<1>5. CASE q = p
  BY <1>1, <1>2, <1>3, <1>5, AddsOrigin
<1>6. CASE todo'[q] = todo[q]
  BY <1>2, <1>6
<1>. QED
  BY <1>4, <1>5, <1>6

LEMMA PlainType ==
    ASSUME Typed, NEW p \in Processes, PlainAct(p)
    PROVE  Typed'
<1>1. /\ todo' \in [Processes -> Seq(Steps)] /\ Planned'
      /\ \A q \in Processes : todo'[q] = <<>> <=> cycle'[q] = NoCycle
  BY PlainAdds, CycleKept DEF AddsPlain
<1>2. UNCHANGED <<now, cycle, verdict, gone, lock, telegram, owed, faults>> /\ todo[p] # <<>>
  BY PlainAdds
<1>3. \A op \in {"record", "observe", "pending", "slot", "push", "arm", "check", "consume",
                 "credit", "interval", "entry"} : At(p, op) => Asset(p) \in Assets
  BY <1>2, HeadFacts, StepCases DEF At, Asset
<1>4. Seen(p).side \in [Assets -> Sides] /\ cycle[p].at \in Nat
  BY <1>2, SeenTyped, NaturalBounds DEF Typed
<1>5. TypeOK
  BY DEF Typed
<1>6. /\ cache' \in [Processes -> [Assets -> Sides \cup {NoSide}]]
      /\ predicted' \in [Assets -> Sides \cup {NoSide}]
      /\ official' \subseteq Assets \X {"interval", "entry"}
      /\ slot' \in Assets \cup {NoSlot} /\ pushed' \subseteq Assets
      /\ followup' \in [Assets -> {NoFollowup} \cup
           [status : {"armed", "consumed"}, due : Nat]]
      /\ native' \in [Assets -> {"absent", "unsent", "PENDING", "SENT", "DELIVERY_FAILED"}]
      /\ checked' \subseteq Assets
  <2>1. CASE RecordPrediction(p)
    <3>1. Original(p, Asset(p)) \in Sides \cup {NoSide} /\ Asset(p) \in Assets
      BY <1>3, <1>4, <1>5, <2>1 DEF RecordPrediction, Original, TypeOK
    <3>. QED
      BY <1>4, <1>5, <2>1, <3>1 DEF RecordPrediction, TypeOK
  <2>2. CASE ObserveShadow(p) \/ MarkPending(p) \/ MarkSent(p)
    BY <1>3, <1>5, <2>2 DEF ObserveShadow, MarkPending, MarkSent, ledger, TypeOK
  <2>3. CASE RecordSent(p)
    <3>1. Head(todo[p]).a \in Assets /\ Head(todo[p]).op \in {"interval", "entry"}
      BY <1>3, <2>3 DEF RecordSent, At, Asset
    <3>. QED
      BY <1>5, <2>3, <3>1 DEF RecordSent, TypeOK
  <2>4. CASE ClaimSlot(p) \/ MarkPushed(p)
    BY <1>3, <1>5, <2>4 DEF ClaimSlot, MarkPushed, TypeOK
  <2>5. CASE ArmFollowup(p)
    <3>1. [status |-> "armed", due |-> cycle[p].at + FollowDelay] \in
            [status : {"armed", "consumed"}, due : Nat]
      BY <1>4, NaturalBounds
    <3>. QED
      BY <1>3, <1>5, <2>5, <3>1 DEF ArmFollowup, TypeOK
  <2>6. CASE ReadDue(p) \/ SendFollowup(p)
    BY <1>3, <1>5, <2>6 DEF ReadDue, SendFollowup, ledger, TypeOK
  <2>7. CASE ConsumeFollowup(p)
    <3>1. Asset(p) \in Assets /\ followup[Asset(p)] # NoFollowup
      BY <1>2, <1>3, <2>7, HeadFacts DEF ConsumeFollowup, Typed, DueSteps, Op, At, Asset
    <3>2. [followup[Asset(p)] EXCEPT !.status = "consumed"]
            \in [status : {"armed", "consumed"}, due : Nat]
      <4>1. followup[Asset(p)] \in [status : {"armed", "consumed"}, due : Nat]
        BY <1>5, <3>1 DEF TypeOK
      <4>. QED
        BY <4>1
    <3>. QED
      BY <1>5, <2>7, <3>1, <3>2 DEF ConsumeFollowup, TypeOK
  <2>. QED
    BY <2>1, <2>2, <2>3, <2>4, <2>5, <2>6, <2>7 DEF PlainAct
<1>7. TypeOK'
  BY <1>1, <1>2, <1>5, <1>6 DEF TypeOK, telegram
<1>8. [Next]_vars
  BY DEF Next, CycleStep, PlainAct
<1>9. DueSteps'
  <2>1. PICK more \in Seq(Steps) : Adds(p, more) /\ PlainSteps(p, more)
    BY PlainAdds DEF AddsPlain
  <2>2. \A k \in 1..Len(more) : more[k].op \in {"check", "consume"} =>
          followup[more[k].a] # NoFollowup /\ more[k].a \in Assets
    BY <2>1, StepCases DEF PlainSteps
  <2>. QED
    BY <1>8, <2>1, <2>2, DueStay
<1>. QED
  BY <1>1, <1>7, <1>9 DEF Typed

LEMMA StartType ==
    ASSUME Typed, NEW p \in Processes, StartCycle(p)
    PROVE  /\ Typed'
           /\ \A k \in 1..Len(todo'[p]) :
                todo'[p][k].op \in {"record", "report", "followups", "reconcile"}
           /\ \A q \in Processes : q # p => todo'[q] = todo[q] /\ cycle'[q] = cycle[q]
           /\ cycle'[p].at \in 0..LastTick /\ cycle'[p].view \in View
           /\ (InBand(cycle'[p].at) => \E k \in 1..Len(todo'[p]) : todo'[p][k].op = "report")
<1>1. PICK v \in Views :
        /\ cycle' = [cycle EXCEPT ![p] = [at |-> now, view |-> v]]
        /\ todo' = [todo EXCEPT ![p] =
             (IF ~InBand(now) THEN <<>>
              ELSE [i \in DOMAIN v.rank |-> StepOf("record", v.rank[i])] \o <<Step("report")>>)
             \o (IF Delivers(now) THEN <<Step("followups")>> ELSE <<>>)
             \o <<Step("reconcile")>>]
  BY DEF StartCycle
<1> DEFINE r == [i \in DOMAIN v.rank |-> StepOf("record", v.rank[i])]
           b == IF ~InBand(now) THEN <<>> ELSE r \o <<Step("report")>>
           f == IF Delivers(now) THEN <<Step("followups")>> ELSE <<>>
           all == (b \o f) \o <<Step("reconcile")>>
           Early(s) == s \in Seq(Steps) /\ \A k \in 1..Len(s) : s[k].op \in {"record", "report", "followups"}
<1>2. v \in View /\ v.rank \in Seq(Assets) /\ Len(v.rank) \in Nat
  BY ReportConstants DEF View
<1>3. /\ Step("report") \in Steps /\ Step("report").op = "report"
      /\ Step("followups") \in Steps /\ Step("followups").op = "followups"
      /\ Step("reconcile") \in Steps /\ Step("reconcile").op = "reconcile"
  BY StepsTyped
<1>4. Early(r)
  <2>1. \A i \in 1..Len(v.rank) : StepOf("record", v.rank[i]) \in Steps
                                /\ StepOf("record", v.rank[i]).op = "record"
    BY <1>2, StepsTyped
  <2>. QED
    BY <1>2, <2>1
<1> HIDE DEF r
<1>5. ASSUME NEW c, NEW t, Early(c), Early(t)
      PROVE  /\ Early(c \o t) /\ Len(c \o t) = Len(c) + Len(t)
             /\ \A k \in 1..Len(c) : (c \o t)[k] = c[k]
             /\ \A k \in 1..Len(t) : (c \o t)[k + Len(c)] = t[k]
  <2>1. c \in Seq(Steps) /\ t \in Seq(Steps)
    BY <1>5
  <2>2. /\ c \o t \in Seq(Steps) /\ Len(c \o t) = Len(c) + Len(t) /\ Len(c) \in Nat /\ Len(t) \in Nat
        /\ \A k \in 1..Len(c) : (c \o t)[k] = c[k]
        /\ \A k \in 1..Len(t) : (c \o t)[k + Len(c)] = t[k]
    BY <2>1
  <2>3. ASSUME NEW k \in 1..Len(c \o t)
        PROVE  (c \o t)[k].op \in {"record", "report", "followups"}
    <3>1. CASE k <= Len(c)
      BY <1>5, <2>2, <3>1
    <3>2. CASE k > Len(c)
      <4>1. k - Len(c) \in 1..Len(t) /\ (c \o t)[k] = t[k - Len(c)]
        BY <2>1, <2>2, <3>2
      <4>. QED
        BY <1>5, <4>1
    <3>. QED
      BY <2>2, <3>1, <3>2
  <2>. QED
    BY <2>2, <2>3
<1>6. Early(<<>>) /\ Early(<<Step("report")>>) /\ Early(<<Step("followups")>>)
  BY <1>3
<1>7. Early(b) /\ Early(f) /\ (InBand(now) => \E k \in 1..Len(b) : b[k].op = "report")
  <2>1. Early(r \o <<Step("report")>>) /\ Len(r \o <<Step("report")>>) = Len(r) + 1
        /\ (r \o <<Step("report")>>)[1 + Len(r)] = Step("report") /\ Len(r) \in Nat
    BY <1>3, <1>4, <1>5, <1>6
  <2>. QED
    BY <1>3, <1>6, <2>1
<1> HIDE DEF b, f
<1>8. Early(b \o f) /\ (InBand(now) => \E k \in 1..Len(b \o f) : (b \o f)[k].op = "report")
  <2>1. Early(b \o f) /\ Len(b \o f) = Len(b) + Len(f) /\ Len(b) \in Nat /\ Len(f) \in Nat
        /\ \A k \in 1..Len(b) : (b \o f)[k] = b[k]
    BY <1>5, <1>7
  <2>2. \A k \in 1..Len(b) : k \in 1..Len(b \o f)
    BY <2>1
  <2>. QED
    BY <1>7, <2>1, <2>2
<1>9. /\ all \in Seq(Steps) /\ Len(all) = Len(b \o f) + 1 /\ Len(b \o f) \in Nat
      /\ all[Len(all)] = Step("reconcile")
      /\ \A k \in 1..Len(b \o f) : all[k] = (b \o f)[k] /\ k \in 1..Len(all)
      /\ \A k \in 1..Len(all) : k # Len(all) => k \in 1..Len(b \o f)
  <2> DEFINE c == b \o f
  <2>1. c \in Seq(Steps)
    BY <1>8
  <2> HIDE DEF c
  <2>2. \A s \in Seq(Steps), x \in Steps :
          /\ s \o <<x>> \in Seq(Steps) /\ Len(s \o <<x>>) = Len(s) + 1 /\ Len(s) \in Nat
          /\ (s \o <<x>>)[Len(s \o <<x>>)] = x
          /\ \A k \in 1..Len(s) : (s \o <<x>>)[k] = s[k] /\ k \in 1..Len(s \o <<x>>)
          /\ \A k \in 1..Len(s \o <<x>>) : k # Len(s \o <<x>>) => k \in 1..Len(s)
    OBVIOUS
  <2>. QED
    BY <1>3, <2>1, <2>2 DEF c
<1> HIDE DEF all
<1>10. /\ todo' = [todo EXCEPT ![p] = all] /\ todo'[p] = all
       /\ todo' \in [Processes -> Seq(Steps)]
       /\ \A q \in Processes : q # p => todo'[q] = todo[q]
  BY <1>1, <1>9 DEF all, b, f, r, Typed, TypeOK
<1>11. /\ cycle'[p] = [at |-> now, view |-> v] /\ now \in 0..LastTick
       /\ cycle' \in [Processes -> {NoCycle} \cup [at : 0..LastTick, view : Views]]
       /\ \A q \in Processes : q # p => cycle'[q] = cycle[q]
  BY <1>1 DEF Typed, TypeOK
<1>12. \A k \in 1..Len(all) : /\ k # Len(all) => all[k].op \in {"record", "report", "followups"}
                              /\ k = Len(all) => all[k].op = "reconcile"
  BY <1>3, <1>8, <1>9
<1>13. Planned'
  <2>1. /\ all[Len(all)].op = "reconcile"
        /\ \A k \in 1..Len(all) : all[k].op = "reconcile" => k = Len(all)
        /\ \A k \in 2..Len(all) : all[k].op \notin Special
    BY <1>3, <1>9, <1>12 DEF Special
  <2>. QED
    BY <1>10, <2>1 DEF Planned, Op, Typed
<1>14. DueSteps'
  BY <1>10, <1>12 DEF DueSteps, Op, Typed, StartCycle, ledger
<1>15. TypeOK'
  <2>1. cycle'[p] # NoCycle
    <3>1. DOMAIN [at |-> now, view |-> v] = {"at", "view"} /\ DOMAIN NoCycle = {"at"}
      BY DEF NoCycle
    <3>. QED
      BY <1>11, <3>1
  <2>2. todo'[p] # <<>>
    BY <1>9, <1>10
  <2>. QED
    BY <1>10, <1>11, <2>1, <2>2 DEF Typed, TypeOK, StartCycle, ledger, telegram
<1>16. InBand(now) => \E k \in 1..Len(all) : all[k].op = "report"
  BY <1>8, <1>9
<1>. QED
  BY <1>2, <1>10, <1>11, <1>12, <1>13, <1>14, <1>15, <1>16 DEF Typed

LEMMA NoDueSteps ==
    ASSUME Typed, [Next]_vars, NEW p \in Processes, NEW more \in Seq(Steps), Adds(p, more),
           \A k \in 1..Len(more) : more[k].op \notin {"check", "consume"}
    PROVE  DueSteps'
BY DueStay

LEMMA ReportType ==
    ASSUME Typed, NEW p \in Processes,
           ConsiderReport(p) \/ ClaimReport(p) \/ SendReport(p) \/ UnlockReport(p)
    PROVE  Typed'
<1>1. PICK more \in Seq(Steps) :
        Adds(p, more) /\ \A k \in 1..Len(more) : more[k].op \notin {"check", "consume"}
  <2>1. CASE ConsiderReport(p)
    BY <2>1, ConsiderAdds
  <2>2. CASE ClaimReport(p)
    BY <2>2, ClaimAdds
  <2>3. CASE SendReport(p)
    <3>1. PICK more \in Seq(Steps) : Adds(p, more) /\ Answered(p, more)
      BY <2>3, SendAdds
    <3>2. \A k \in 1..Len(more) : more[k].op \notin {"check", "consume"}
      BY <3>1 DEF Answered
    <3>. QED
      BY <3>1, <3>2
  <2>4. CASE UnlockReport(p)
    <3>1. Adds(p, <<>>) /\ <<>> \in Seq(Steps) /\ Len(<<>>) = 0
      BY <2>4, UnlockAdds
    <3>2. \A more \in {<<>>} : \A k \in 1..Len(more) : more[k].op \notin {"check", "consume"}
      OBVIOUS
    <3>. QED
      BY <3>1, <3>2
  <2>. QED
    BY <2>1, <2>2, <2>3, <2>4
<1>2. [Next]_vars
  BY DEF Next, CycleStep
<1>3. DueSteps'
  BY <1>1, <1>2, NoDueSteps
<1>4. UNCHANGED <<now, cycle, cache, gone, predicted, official, slot, pushed, followup,
                  native, checked, owed>>
  BY DEF ConsiderReport, ClaimReport, SendReport, UnlockReport, ledger, telegram
<1>5. Planned' /\ todo' \in [Processes -> Seq(Steps)]
      /\ \A q \in Processes : todo'[q] = <<>> <=> cycle'[q] = NoCycle
  BY <1>1, <1>4, CycleKept
<1>6. verdict' \in [Processes -> {NoVerdict} \cup
         [signature : Assets \X Sides \X BOOLEAN, count : 1..StableCycles]]
  <2>1. CASE ConsiderReport(p)
    <3>1. todo[p] # <<>>
      BY <1>1 DEF Adds
    <3>2. Signature(Seen(p)) \in Assets \X Sides \X BOOLEAN
      <4>1. (Seen(p).best \in Seen(p).entry) \in BOOLEAN
        OBVIOUS
      <4>2. Seen(p).best \in Assets /\ Seen(p).side[Seen(p).best] \in Sides
        BY <3>1, SeenTyped DEF Typed
      <4>. QED
        BY <4>1, <4>2 DEF Signature
    <3>3. verdict[p] \in {NoVerdict} \cup
            [signature : Assets \X Sides \X BOOLEAN, count : 1..StableCycles]
      BY DEF Typed, TypeOK
    <3>4. Counted(p) \in [signature : Assets \X Sides \X BOOLEAN, count : 1..StableCycles]
      <4> DEFINE c == Counted(p).count
      <4>1. c \in 1..StableCycles
        BY <3>3, NaturalBounds DEF Counted, NoVerdict
      <4>2. Counted(p) = [signature |-> Signature(Seen(p)), count |-> c]
        BY DEF Counted
      <4>. QED
        BY <3>2, <4>1, <4>2
    <3>. QED
      BY <2>1, <3>3, <3>4 DEF ConsiderReport, Typed, TypeOK
  <2>2. CASE ClaimReport(p) \/ SendReport(p) \/ UnlockReport(p)
    BY <2>2 DEF ClaimReport, SendReport, UnlockReport, Typed, TypeOK
  <2>. QED
    BY <2>1, <2>2
<1>7. /\ lock' \in BOOLEAN
      /\ outbox' \in {"absent", "QUEUED", "SENT", "DEAD_LETTER"}
      /\ shown' \in BOOLEAN /\ silenced' \in BOOLEAN
      /\ calls' \in Nat /\ mutes' \in Nat /\ faults' \in 0..MaxFaults
  <2>1. CASE ConsiderReport(p)
    BY <2>1 DEF ConsiderReport, ledger, telegram, Typed, TypeOK
  <2>2. CASE ClaimReport(p)
    BY <2>2 DEF ClaimReport, telegram, Typed, TypeOK
  <2>3. CASE UnlockReport(p)
    BY <2>3 DEF UnlockReport, telegram, Typed, TypeOK
  <2>4. CASE SendReport(p)
    <3>1. calls' = calls + 1 /\ (mutes' = mutes \/ mutes' = mutes + 1) /\ lock' = lock
          /\ (faults' = faults \/ (faults < MaxFaults /\ faults' = faults + 1))
          /\ outbox' \in {outbox, "SENT", "QUEUED"}
          /\ shown' \in {shown, TRUE} /\ silenced' \in {silenced, TRUE}
      BY <2>4 DEF SendReport, Injects, ledger
    <3>2. calls \in Nat /\ mutes \in Nat /\ faults \in 0..MaxFaults /\ lock \in BOOLEAN
          /\ shown \in BOOLEAN /\ silenced \in BOOLEAN
          /\ outbox \in {"absent", "QUEUED", "SENT", "DEAD_LETTER"}
      BY DEF Typed, TypeOK
    <3>3. calls' \in Nat /\ mutes' \in Nat /\ faults' \in 0..MaxFaults
      BY <3>1, <3>2, NaturalBounds
    <3>. QED
      BY <3>1, <3>2, <3>3
  <2>. QED
    BY <2>1, <2>2, <2>3, <2>4
<1>. QED
  BY <1>3, <1>4, <1>5, <1>6, <1>7 DEF Typed, TypeOK

LEMMA EndsFrame ==
    ASSUME Typed, NEW p \in Processes, Ends(p)
    PROVE  /\ todo' = [todo EXCEPT ![p] = <<>>] /\ cycle' = [cycle EXCEPT ![p] = NoCycle]
           /\ todo[p] # <<>>
           /\ \/ UNCHANGED <<verdict, cache, gone>>
              \/ Forget(p)
           /\ UNCHANGED <<now, ledger, telegram, checked>>
BY DEF Ends, Reconcile, CycleFails, Restart, EndCycle, At

LEMMA EndsType ==
    ASSUME Typed, NEW p \in Processes, Ends(p)
    PROVE  Typed'
<1>1. /\ todo'[p] = <<>> /\ cycle'[p] = NoCycle /\ todo' \in [Processes -> Seq(Steps)]
      /\ cycle' \in [Processes -> {NoCycle} \cup [at : 0..LastTick, view : Views]]
      /\ \A q \in Processes : q # p => todo'[q] = todo[q] /\ cycle'[q] = cycle[q]
  <2>1. todo \in [Processes -> Seq(Steps)] /\ <<>> \in Seq(Steps)
        /\ cycle \in [Processes -> {NoCycle} \cup [at : 0..LastTick, view : Views]]
    BY DEF Typed, TypeOK
  <2>2. todo' = [todo EXCEPT ![p] = <<>>] /\ cycle' = [cycle EXCEPT ![p] = NoCycle]
    BY EndsFrame
  <2>. QED
    BY <2>1, <2>2
<1>2. \A q \in Processes : todo'[q] = <<>> <=> cycle'[q] = NoCycle
  BY <1>1 DEF Typed, TypeOK
<1>3. Planned'
  BY <1>1 DEF Typed, Planned, Op
<1>4. DueSteps'
  BY <1>1, EndsFrame DEF Typed, DueSteps, Op, ledger
<1>5. /\ verdict' \in [Processes -> {NoVerdict} \cup
         [signature : Assets \X Sides \X BOOLEAN, count : 1..StableCycles]]
      /\ cache' \in [Processes -> [Assets -> Sides \cup {NoSide}]] /\ gone' \subseteq Outgoing
  <2>1. CASE UNCHANGED <<verdict, cache, gone>>
    BY <2>1 DEF Typed, TypeOK
  <2>2. CASE Forget(p)
    <3>1. [a \in Assets |-> NoSide] \in [Assets -> Sides \cup {NoSide}]
      OBVIOUS
    <3>2. gone' \subseteq Outgoing
      BY <2>2 DEF Forget, Typed, TypeOK
    <3>3. cache' \in [Processes -> [Assets -> Sides \cup {NoSide}]]
      BY <2>2, <3>1 DEF Forget, Typed, TypeOK
    <3>4. verdict' \in [Processes -> {NoVerdict} \cup
            [signature : Assets \X Sides \X BOOLEAN, count : 1..StableCycles]]
      BY <2>2 DEF Forget, Typed, TypeOK
    <3>. QED
      BY <3>2, <3>3, <3>4
  <2>. QED
    BY <2>1, <2>2, EndsFrame
<1>6. /\ native' \in [Assets -> {"absent", "unsent", "PENDING", "SENT", "DELIVERY_FAILED"}]
      /\ owed' \in BOOLEAN /\ faults' \in 0..MaxFaults
  <2>1. CASE Reconcile(p)
    BY <2>1 DEF Reconcile, Reconciled, Promoted, LastChance, Typed, TypeOK
  <2>2. CASE CycleFails(p) \/ Restart(p)
    BY <2>2, NaturalBounds DEF CycleFails, Restart, Injects, Typed, TypeOK
  <2>. QED
    BY <2>1, <2>2 DEF Ends
<1>. QED
  BY <1>1, <1>2, <1>3, <1>4, <1>5, <1>6, EndsFrame DEF Typed, TypeOK, ledger, telegram

LEMMA InitType == Init => Typed
<1> SUFFICES ASSUME Init PROVE Typed
  OBVIOUS
<1>1. TypeOK
  <2>1. todo \in [Processes -> Seq(Steps)]
    BY DEF Init
  <2>2. cycle \in [Processes -> {NoCycle} \cup [at : 0..LastTick, view : Views]]
        /\ \A p \in Processes : todo[p] = <<>> <=> cycle[p] = NoCycle
    BY DEF Init
  <2>3. verdict \in [Processes -> {NoVerdict} \cup
         [signature : Assets \X Sides \X BOOLEAN, count : 1..StableCycles]]
    BY DEF Init
  <2>4. now \in 0..LastTick /\ faults \in 0..MaxFaults
    BY NaturalBounds DEF Init
  <2>5. cache \in [Processes -> [Assets -> Sides \cup {NoSide}]]
        /\ predicted \in [Assets -> Sides \cup {NoSide}]
    BY DEF Init
  <2>6. /\ followup \in [Assets -> {NoFollowup} \cup
             [status : {"armed", "consumed"}, due : Nat]]
        /\ native \in [Assets -> {"absent", "unsent", "PENDING", "SENT", "DELIVERY_FAILED"}]
    BY DEF Init
  <2>. QED
    BY <2>1, <2>2, <2>3, <2>4, <2>5, <2>6 DEF Init, TypeOK
<1>2. Planned /\ DueSteps
  BY DEF Init, Planned, DueSteps, Op
<1>. QED
  BY <1>1, <1>2 DEF Typed

LEMMA StepType == Typed /\ [Next]_vars => Typed'
<1> SUFFICES ASSUME Typed, [Next]_vars PROVE Typed'
  OBVIOUS
<1>1. CASE \E p \in Processes : StartCycle(p)
  BY <1>1, StartType
<1>2. CASE \E p \in Processes : PlainAct(p)
  BY <1>2, PlainType
<1>3. CASE \E p \in Processes :
             ConsiderReport(p) \/ ClaimReport(p) \/ SendReport(p) \/ UnlockReport(p)
  BY <1>3, ReportType
<1>4. CASE \E p \in Processes : Ends(p)
  BY <1>4, EndsType
<1>5. CASE WorkerDelivers
  BY <1>5 DEF WorkerDelivers, Typed, TypeOK, Planned, DueSteps, Op, memory, ledger
<1>6. CASE Tick
  BY <1>6, NaturalBounds DEF Tick, Typed, TypeOK, Planned, DueSteps, Op, memory, ledger, telegram
<1>7. CASE UNCHANGED vars
  BY <1>7 DEF vars, Typed, TypeOK, Planned, DueSteps, Op, memory, ledger, telegram
<1>. QED
  BY <1>1, <1>2, <1>3, <1>4, <1>5, <1>6, <1>7, NextCases

LEMMA TypedAlways == Spec => []Typed
BY InitType, StepType, PTL DEF Spec

\* Every variable keeps its type, and a process has steps left exactly while
\* it is in a cycle.
THEOREM TypeCorrect == Spec => []TypeOK
<1>1. Typed => TypeOK
  BY DEF Typed
<1>. QED
  BY <1>1, TypedAlways, PTL

-----------------------------------------------------------------------------
(* One report.                                                             *)

\* A process between its claim and the end of its send.
Sending(p) == At(p, "send") \/ At(p, "unlock")

\* The lock is held by whoever sends, and is free only while every send so far
\* was muted.
SendInv ==
    /\ calls <= 1 + mutes
    /\ \A p \in Processes : Sending(p) => lock /\ calls <= mutes
    /\ \A p, q \in Processes : Sending(p) /\ Sending(q) => p = q
    /\ ~lock => calls <= mutes
    /\ \A p \in Processes : At(p, "unlock") => mutes > 0

LEMMA SendingMoves ==
    ASSUME Typed, NEW p \in Processes, NEW more, Adds(p, more)
    PROVE  /\ \A q \in Processes : q # p => /\ Sending(q)' = Sending(q)
                                            /\ At(q, "unlock")' = At(q, "unlock")
                                            /\ At(q, "send")' = At(q, "send")
           /\ Sending(p)' => Len(more) > 0 /\ more[1].op \in {"send", "unlock"}
           /\ At(p, "unlock")' => more[1].op = "unlock"
<1>1. \A q \in Processes : q # p => todo'[q] = todo[q]
  BY AddsOrigin
<1>2. /\ todo' \in [Processes -> Seq(Steps)] /\ Len(more) \in Nat
      /\ todo[p] \in Seq(Steps)
  <2>1. more \in Seq(Steps) /\ todo[p] \in Seq(Steps)
    BY DEF Adds, Typed, TypeOK
  <2>. QED
    BY <2>1, AddsPlanned
<1>3. todo'[p] # <<>> /\ todo'[p] \in Seq(Steps)
  BY <1>2, AddsPlanned
<1>4. Head(todo'[p]) = todo'[p][1] /\ 1 \in 1..Len(todo'[p])
  BY <1>3
<1>5. \/ 1 \in 1..Len(more) /\ todo'[p][1] = more[1]
      \/ \E j \in 2..Len(todo[p]) : todo'[p][1] = todo[p][j]
  BY <1>4, AddsOrigin
<1>6. \A j \in 2..Len(todo[p]) : todo[p][j].op \notin Special
  BY DEF Typed, Planned, Op
<1>7. \/ 1 \in 1..Len(more) /\ Head(todo'[p]).op = more[1].op
      \/ Head(todo'[p]).op \notin Special
  BY <1>4, <1>5, <1>6
<1>8. \A op \in {"send", "unlock"} :
        At(p, op)' => Len(more) > 0 /\ more[1].op = op
  BY <1>2, <1>7 DEF At, Special
<1>. QED
  BY <1>1, <1>8 DEF Sending, At

LEMMA SendStays ==
    ASSUME Typed, SendInv, UNCHANGED <<lock, calls, mutes>>,
           \A q \in Processes : /\ Sending(q)' => Sending(q)
                                /\ At(q, "unlock")' => At(q, "unlock")
    PROVE  SendInv'
BY DEF SendInv

LEMMA QuietSend ==
    ASSUME Typed, SendInv, UNCHANGED <<lock, calls, mutes>>,
           NEW p \in Processes, NEW more \in Seq(Steps), Adds(p, more),
           \A k \in 1..Len(more) : more[k].op \notin {"send", "unlock"}
    PROVE  SendInv'
<1>1. ~Sending(p)' /\ ~At(p, "unlock")'
  BY SendingMoves DEF Sending
<1>. QED
  BY <1>1, SendingMoves, SendStays

LEMMA SendInit == Init => SendInv
BY DEF Init, SendInv, Sending, At

LEMMA SendStep == Typed /\ SendInv /\ [Next]_vars => SendInv'
<1> SUFFICES ASSUME Typed, SendInv, [Next]_vars PROVE SendInv'
  OBVIOUS
<1>1. ASSUME NEW p \in Processes, StartCycle(p) PROVE SendInv'
  <2>1. ~Sending(p)' /\ ~At(p, "unlock")'
    <3>1. todo'[p] # <<>> => todo'[p] \in Seq(Steps)
      BY <1>1, StartType DEF Typed, TypeOK
    <3>2. At(p, "send")' \/ At(p, "unlock")' =>
            1 \in 1..Len(todo'[p]) /\ todo'[p][1].op \in {"send", "unlock"}
      BY <3>1 DEF At
    <3>3. ~At(p, "send")' /\ ~At(p, "unlock")'
      BY <1>1, <3>2, StartType
    <3>. QED
      BY <3>3 DEF Sending
  <2>2. \A q \in Processes : q # p => todo'[q] = todo[q]
    BY <1>1, StartType
  <2>3. \A q \in Processes : /\ Sending(q)' => Sending(q)
                             /\ At(q, "unlock")' => At(q, "unlock")
    BY <2>1, <2>2 DEF Sending, At
  <2>. QED
    BY <1>1, <2>3, SendStays DEF StartCycle, ledger, telegram
<1>2. ASSUME NEW p \in Processes, PlainAct(p) PROVE SendInv'
  <2>1. PICK more \in Seq(Steps) : Adds(p, more) /\ PlainSteps(p, more)
    BY <1>2, PlainAdds DEF AddsPlain
  <2>2. \A k \in 1..Len(more) : more[k].op \notin {"send", "unlock"}
    BY <2>1 DEF PlainSteps, Plain
  <2>. QED
    BY <1>2, <2>1, <2>2, PlainAdds, QuietSend DEF telegram
<1>3. ASSUME NEW p \in Processes, ConsiderReport(p) PROVE SendInv'
  <2>1. PICK more \in Seq(Steps) :
          Adds(p, more) /\ \A k \in 1..Len(more) : more[k].op \notin {"send", "unlock"}
    BY <1>3, ConsiderAdds
  <2>. QED
    BY <1>3, <2>1, QuietSend DEF ConsiderReport, ledger, telegram
<1>4. ASSUME NEW p \in Processes, ClaimReport(p) PROVE SendInv'
  <2>1. PICK more \in Seq(Steps) :
          /\ Adds(p, more)
          /\ \/ more = <<>> /\ lock
             \/ more = <<Step("send")>> /\ Len(more) = 1 /\ more[1].op = "send" /\ ~lock
    BY <1>4, ClaimAdds
  <2>2. lock' = TRUE /\ UNCHANGED <<calls, mutes>>
    BY <1>4 DEF ClaimReport, telegram
  <2>3. CASE lock
    <3>1. \A k \in 1..Len(more) : more[k].op \notin {"send", "unlock"}
      BY <2>1, <2>3
    <3>2. UNCHANGED <<lock, calls, mutes>>
      BY <2>2, <2>3 DEF Typed, TypeOK
    <3>. QED
      BY <2>1, <3>1, <3>2, QuietSend
  <2>4. CASE ~lock
    <3>1. calls <= mutes /\ \A q \in Processes : ~Sending(q)
      BY <2>4 DEF SendInv
    <3>2. \A q \in Processes : Sending(q)' => q = p
      BY <2>1, <3>1, SendingMoves
    <3>3. \A q \in Processes : ~At(q, "unlock")'
      BY <2>1, <2>4, <3>1, SendingMoves DEF Sending
    <3>. QED
      BY <2>2, <3>1, <3>2, <3>3 DEF SendInv
  <2>. QED
    BY <2>3, <2>4
<1>5. ASSUME NEW p \in Processes, SendReport(p) PROVE SendInv'
  <2>1. PICK more \in Seq(Steps) : Adds(p, more) /\ Answered(p, more)
    BY <1>5, SendAdds
  <2>2. lock /\ calls <= mutes /\ calls' = calls + 1 /\ lock' = lock
        /\ calls \in Nat /\ mutes \in Nat /\ Sending(p)
    BY <1>5 DEF SendReport, SendInv, Sending, ledger, Typed, TypeOK
  <2>3. \A q \in Processes : Sending(q)' => q = p
    BY <2>2, <2>1, SendingMoves DEF SendInv
  <2>4. CASE more = <<Step("unlock")>> /\ more[1].op = "unlock" /\ mutes' = mutes + 1
    <3>1. calls' <= mutes' /\ mutes' > 0 /\ calls' <= 1 + mutes'
      BY <2>2, <2>4
    <3>2. \A q \in Processes : At(q, "unlock")' => mutes' > 0
      BY <3>1
    <3>. QED
      BY <2>2, <2>3, <3>1, <3>2 DEF SendInv
  <2>5. CASE mutes' = mutes /\ \A k \in 1..Len(more) : more[k].op \notin {"send", "unlock"}
    <3>1. ~Sending(p)'
      BY <2>1, <2>5, SendingMoves
    <3>2. \A q \in Processes : ~Sending(q)' /\ ~At(q, "unlock")'
      BY <2>3, <3>1 DEF Sending
    <3>3. calls' <= 1 + mutes'
      BY <2>2, <2>5
    <3>. QED
      BY <2>2, <3>2, <3>3 DEF SendInv
  <2>. QED
    BY <2>1, <2>4, <2>5 DEF Answered
<1>6. ASSUME NEW p \in Processes, UnlockReport(p) PROVE SendInv'
  <2>1. Adds(p, <<>>) /\ Len(<<>>) = 0
    BY <1>6, UnlockAdds
  <2>2. Sending(p) /\ calls <= mutes /\ UNCHANGED <<calls, mutes>> /\ lock' = FALSE
        /\ calls \in Nat /\ mutes \in Nat
    BY <1>6 DEF UnlockReport, SendInv, Sending, telegram, Typed, TypeOK
  <2>3. \A q \in Processes : ~Sending(q)' /\ ~At(q, "unlock")'
    <3>1. ~Sending(p)'
      BY <2>1, SendingMoves
    <3>2. \A q \in Processes : q # p => ~Sending(q)'
      BY <2>1, <2>2, SendingMoves DEF SendInv
    <3>. QED
      BY <3>1, <3>2 DEF Sending
  <2>. QED
    BY <2>2, <2>3 DEF SendInv
<1>7. ASSUME NEW p \in Processes, Ends(p) PROVE SendInv'
  <2>1. todo'[p] = <<>> /\ \A q \in Processes : q # p => todo'[q] = todo[q]
    BY <1>7, EndsFrame DEF Typed, TypeOK
  <2>2. \A q \in Processes : /\ Sending(q)' => Sending(q)
                             /\ At(q, "unlock")' => At(q, "unlock")
    BY <2>1 DEF Sending, At
  <2>. QED
    BY <1>7, <2>2, EndsFrame, SendStays DEF ledger, telegram
<1>8. CASE WorkerDelivers \/ Tick \/ UNCHANGED vars
  <2>1. UNCHANGED <<todo, lock, calls, mutes>>
    BY <1>8 DEF WorkerDelivers, Tick, vars, memory, ledger, telegram
  <2>. QED
    BY <2>1 DEF SendInv, Sending, At
<1>. QED
  BY <1>1, <1>2, <1>3, <1>4, <1>5, <1>6, <1>7, <1>8, NextCases

\* However many processes cycle, restart and fail, the report is sent once and
\* again only after each send that was muted.
THEOREM SentOnce == Spec => []OneReport
<1>1. Init => Typed /\ SendInv
  BY InitType, SendInit
<1>2. Typed /\ SendInv /\ [Next]_vars => Typed' /\ SendInv'
  BY StepType, SendStep
<1>3. SendInv => OneReport
  BY DEF SendInv, OneReport
<1>. QED
  BY <1>1, <1>2, <1>3, PTL DEF Spec

-----------------------------------------------------------------------------
(* What follows from the answer.                                           *)

Unmarked == {"record", "report", "followups", "reconcile", "claim", "send", "unlock",
             "pending", "observe", "slot", "push", "arm", "check", "consume"}

\* A step that credits the report, or records it, comes from its answer.
LEMMA StepOrigin ==
    ASSUME Typed, [Next]_vars, NEW q \in Processes, NEW k \in 1..Len(todo'[q])
    PROVE  \/ \E j \in 1..Len(todo[q]) : todo'[q][k] = todo[q][j]
           \/ todo'[q][k].op \in Unmarked
           \/ /\ todo'[q][k].op \in {"interval", "entry"} /\ todo[q] # <<>>
              /\ Head(todo[q]).op = "credit" /\ todo'[q][k].mid = Head(todo[q]).mid
           \/ /\ todo'[q][k].op = "credit"
              /\ outbox' = "SENT" /\ (todo'[q][k].mid => shown')
<1> DEFINE Same == \E j \in 1..Len(todo[q]) : todo'[q][k] = todo[q][j]
<1>1. todo'[q] = todo[q] => Same
  OBVIOUS
<1>2. ASSUME NEW p \in Processes, NEW more, Adds(p, more)
      PROVE  Same \/ (q = p /\ \E j \in 1..Len(more) : todo'[q][k] = more[j])
  <2>1. CASE q # p
    <3>1. todo'[q] = todo[q]
      BY <1>2, <2>1, AddsOrigin
    <3>. QED
      BY <1>1, <3>1
  <2>2. CASE q = p
    <3>1. \/ k \in 1..Len(more) /\ todo'[q][k] = more[k]
          \/ \E j \in 2..Len(todo[q]) : todo'[q][k] = todo[q][j]
      BY <1>2, <2>2, AddsOrigin
    <3>2. todo[q] \in Seq(Steps)
      BY DEF Typed, TypeOK
    <3>3. \A j \in 2..Len(todo[q]) : j \in 1..Len(todo[q])
      BY <3>2
    <3>. QED
      BY <2>2, <3>1, <3>3
  <2>. QED
    BY <2>1, <2>2
<1>3. ASSUME NEW p \in Processes, StartCycle(p) PROVE Same \/ todo'[q][k].op \in Unmarked
  BY <1>1, <1>3, StartType DEF Unmarked
<1>4. ASSUME NEW p \in Processes, PlainAct(p)
      PROVE  \/ Same \/ todo'[q][k].op \in Unmarked
             \/ /\ todo'[q][k].op \in {"interval", "entry"} /\ todo[q] # <<>>
                /\ Head(todo[q]).op = "credit" /\ todo'[q][k].mid = Head(todo[q]).mid
  <2>1. PICK more \in Seq(Steps) : Adds(p, more) /\ PlainSteps(p, more)
    BY <1>4, PlainAdds DEF AddsPlain
  <2>2. CASE \E j \in 1..Len(more) : q = p /\ todo'[q][k] = more[j]
    BY <2>1, <2>2 DEF PlainSteps, Plain, Unmarked, Adds
  <2>. QED
    BY <1>2, <2>1, <2>2
<1>5. ASSUME NEW p \in Processes, ConsiderReport(p) \/ ClaimReport(p) \/ UnlockReport(p)
      PROVE  Same \/ todo'[q][k].op \in Unmarked
  <2>1. PICK more \in Seq(Steps) :
          Adds(p, more) /\ \A j \in 1..Len(more) : more[j].op \in Unmarked
    <3>1. \A more \in {<<>>} : more \in Seq(Steps) /\ \A j \in 1..Len(more) : more[j].op \in Unmarked
      OBVIOUS
    <3>2. CASE ConsiderReport(p)
      <4>1. PICK more \in Seq(Steps) :
              Adds(p, more) /\ (more = <<>> \/ (Len(more) = 1 /\ more[1].op = "claim"))
        BY <3>2, ConsiderAdds
      <4>2. \A j \in 1..Len(more) : more[j].op \in Unmarked
        BY <3>1, <4>1 DEF Unmarked
      <4>. QED
        BY <4>1, <4>2
    <3>3. CASE ClaimReport(p)
      <4>1. PICK more \in Seq(Steps) :
              Adds(p, more) /\ (more = <<>> \/ (Len(more) = 1 /\ more[1].op = "send"))
        BY <3>3, ClaimAdds
      <4>2. \A j \in 1..Len(more) : more[j].op \in Unmarked
        BY <3>1, <4>1 DEF Unmarked
      <4>. QED
        BY <4>1, <4>2
    <3>4. CASE UnlockReport(p)
      BY <3>1, <3>4, UnlockAdds
    <3>. QED
      BY <1>5, <3>2, <3>3, <3>4
  <2>. QED
    BY <1>2, <2>1
<1>6. ASSUME NEW p \in Processes, SendReport(p)
      PROVE  \/ Same \/ todo'[q][k].op \in Unmarked
             \/ /\ todo'[q][k].op = "credit"
                /\ outbox' = "SENT" /\ (todo'[q][k].mid => shown')
  <2>1. PICK more \in Seq(Steps) : Adds(p, more) /\ Answered(p, more)
    BY <1>6, SendAdds
  <2>2. ASSUME NEW j \in 1..Len(more), todo'[q][k] = more[j]
        PROVE  \/ todo'[q][k].op \in Unmarked
               \/ /\ todo'[q][k].op = "credit"
                  /\ outbox' = "SENT" /\ (todo'[q][k].mid => shown')
    BY <2>1, <2>2 DEF Answered, Unmarked
  <2>. QED
    BY <1>2, <2>1, <2>2
<1>7. ASSUME NEW p \in Processes, Ends(p) PROVE Same
  <2>1. todo'[p] = <<>> /\ \A i \in Processes : i # p => todo'[i] = todo[i]
    BY <1>7, EndsFrame DEF Typed, TypeOK
  <2>. QED
    BY <1>1, <2>1
<1>8. CASE WorkerDelivers \/ Tick \/ UNCHANGED vars
  BY <1>1, <1>8 DEF WorkerDelivers, Tick, vars, memory
<1>. QED
  BY <1>3, <1>4, <1>5, <1>6, <1>7, <1>8, NextCases

\* A step about a report with a message id follows one Telegram showed.
ShownInv ==
    /\ official # {} => shown
    /\ \A p \in Processes : \A k \in 1..Len(todo[p]) :
         Op(p, k) \in {"credit", "interval", "entry"} /\ todo[p][k].mid => shown

LEMMA ShownStays ==
    ASSUME Typed, [Next]_vars, shown PROVE shown'
<1>1. ASSUME NEW p \in Processes, SendReport(p) PROVE shown'
  BY <1>1 DEF SendReport
<1>2. CASE ~(\E p \in Processes : SendReport(p)) /\ ~WorkerDelivers
  BY <1>2, NextCases, PlainAdds, EndsFrame
     DEF StartCycle, ConsiderReport, ClaimReport, UnlockReport, Tick, vars, telegram
<1>. QED
  BY <1>1, <1>2 DEF WorkerDelivers

LEMMA ShownStep == Typed /\ ShownInv /\ [Next]_vars => ShownInv'
<1> SUFFICES ASSUME Typed, ShownInv, [Next]_vars PROVE ShownInv'
  OBVIOUS
<1>1. ASSUME NEW q \in Processes, NEW k \in 1..Len(todo'[q]),
             todo'[q][k].op \in {"credit", "interval", "entry"}, todo'[q][k].mid
      PROVE  shown'
  <2>1. CASE \E j \in 1..Len(todo[q]) : todo'[q][k] = todo[q][j]
    BY <1>1, <2>1, ShownStays DEF ShownInv, Op
  <2>2. CASE /\ todo[q] # <<>> /\ Head(todo[q]).op = "credit"
             /\ todo'[q][k].mid = Head(todo[q]).mid
    <3>1. Head(todo[q]) = todo[q][1] /\ 1 \in 1..Len(todo[q])
      BY <2>2, HeadFacts
    <3>2. shown
      BY <1>1, <2>2, <3>1 DEF ShownInv, Op
    <3>. QED
      BY <3>2, ShownStays
  <2>3. todo'[q][k].op \notin Unmarked
    BY <1>1 DEF Unmarked
  <2>. QED
    BY <1>1, <2>1, <2>2, <2>3, StepOrigin
<1>2. official' # {} => shown'
  <2>1. ASSUME NEW p \in Processes, RecordSent(p), official = {}, official' # {} PROVE shown
    <3>1. /\ todo[p] # <<>> /\ Head(todo[p]).op \in {"interval", "entry"}
          /\ Head(todo[p]).mid
      BY <2>1 DEF RecordSent, At, IsOfficial
    <3>2. Head(todo[p]) = todo[p][1] /\ 1 \in 1..Len(todo[p])
      BY <3>1, HeadFacts
    <3>. QED
      BY <3>1, <3>2 DEF ShownInv, Op
  <2>2. CASE ~(\E p \in Processes : RecordSent(p))
    <3>1. UNCHANGED official
      BY <2>2, NextCases, EndsFrame
         DEF PlainAct, RecordPrediction, ObserveShadow, MarkPending, MarkSent, ClaimSlot,
             MarkPushed, ArmFollowup, ReadDue, SendFollowup, ConsumeFollowup, StartCycle,
             ConsiderReport, ClaimReport, SendReport, UnlockReport, WorkerDelivers, Tick, vars, ledger
    <3>. QED
      BY <3>1, ShownStays DEF ShownInv
  <2>. QED
    BY <2>1, <2>2, ShownStays DEF ShownInv
<1>. QED
  BY <1>1, <1>2 DEF ShownInv, Op

\* Every row of the official record is of a report Telegram showed, whoever
\* sent it and however late the row is written.
THEOREM OnlyShownIsOfficial == Spec => []OfficialMeansShown
<1>1. Init => Typed /\ ShownInv
  BY InitType DEF Init, ShownInv
<1>2. Typed /\ ShownInv /\ [Next]_vars => Typed' /\ ShownInv'
  BY StepType, ShownStep
<1>3. ShownInv => OfficialMeansShown
  BY DEF ShownInv, OfficialMeansShown
<1>. QED
  BY <1>1, <1>2, <1>3, PTL DEF Spec

\* The outbox's row, once final, stays so: no send meets a row that is queued
\* or given up, for the lock keeps later cycles out unless it was muted.
OutboxInv ==
    /\ \A p \in Processes : \A k \in 1..Len(todo[p]) : Op(p, k) = "credit" => outbox = "SENT"
    /\ outbox = "SENT" => shown \/ silenced
    /\ outbox # "SENT" => mutes = 0
    /\ outbox # "absent" => calls > 0
    /\ CreditFollowsTelegram

LEMMA OutboxMoves ==
    ASSUME Typed, SendInv, OutboxInv, [Next]_vars
    PROVE  /\ outbox = "SENT" => outbox' = "SENT"
           /\ outbox = "DEAD_LETTER" => outbox' = "DEAD_LETTER"
           /\ shown \/ silenced => shown' \/ silenced'
           /\ outbox' = "SENT" => shown' \/ silenced'
           /\ outbox' # "SENT" => mutes' = 0
           /\ outbox' # "absent" => calls' > 0
<1>1. ASSUME NEW p \in Processes, SendReport(p)
      PROVE  /\ outbox = "SENT" => outbox' = "SENT"
             /\ outbox = "DEAD_LETTER" => outbox' = "DEAD_LETTER"
             /\ shown \/ silenced => shown' \/ silenced'
             /\ outbox' = "SENT" => shown' \/ silenced'
             /\ outbox' # "SENT" => mutes' = 0
             /\ outbox' # "absent" => calls' > 0
  <2>1. calls <= mutes /\ calls \in Nat /\ mutes \in Nat /\ calls' = calls + 1
    BY <1>1 DEF SendReport, SendInv, Sending, Typed, TypeOK
  <2>2. outbox \in {"SENT", "absent"}
    BY <2>1 DEF OutboxInv, Typed, TypeOK
  <2>3. PICK more \in Seq(Steps) : Answered(p, more)
    BY <1>1, SendAdds
  <2>4. shown => shown'
    BY <1>1, ShownStays
  <2>5. silenced => silenced'
    BY <2>3 DEF Answered
  <2>6. outbox = "SENT" => outbox' = "SENT"
    BY <2>3 DEF Answered
  <2>7. outbox' = "SENT" => shown' \/ silenced'
    BY <2>3, <2>4, <2>5 DEF Answered, OutboxInv
  <2>8. outbox' # "SENT" => mutes' = 0
    BY <2>3, <2>6 DEF Answered, OutboxInv
  <2>. QED
    BY <2>1, <2>2, <2>4, <2>5, <2>6, <2>7, <2>8
<1>2. CASE WorkerDelivers
  BY <1>2 DEF WorkerDelivers, OutboxInv, Typed, TypeOK
<1>3. CASE ~(\E p \in Processes : SendReport(p)) /\ ~WorkerDelivers
  <2>1. UNCHANGED telegram
    BY <1>3, NextCases, PlainAdds, EndsFrame
       DEF StartCycle, ConsiderReport, ClaimReport, UnlockReport, Tick, vars, telegram
  <2>. QED
    BY <2>1 DEF telegram, OutboxInv
<1>. QED
  BY <1>1, <1>2, <1>3

LEMMA CreditStep == Typed /\ SendInv /\ OutboxInv /\ [Next]_vars => CreditFollowsTelegram'
<1> SUFFICES ASSUME Typed, SendInv, OutboxInv, [Next]_vars, NEW a \in Assets
              PROVE  /\ native'[a] = "SENT" => shown' \/ silenced'
                     /\ native'[a] = "DELIVERY_FAILED" => outbox' = "DEAD_LETTER"
  BY DEF CreditFollowsTelegram
<1>1. /\ native[a] = "SENT" => shown \/ silenced
      /\ native[a] = "DELIVERY_FAILED" => outbox = "DEAD_LETTER"
  BY DEF OutboxInv, CreditFollowsTelegram
<1>2. CASE native'[a] = native[a]
  BY <1>1, <1>2, OutboxMoves
<1>3. ASSUME NEW p \in Processes, MarkSent(p), native'[a] # native[a]
      PROVE  native'[a] = "SENT" /\ (shown \/ silenced)
  <2>1. Head(todo[p]).op = "credit" /\ Head(todo[p]) = todo[p][1] /\ 1 \in 1..Len(todo[p])
    BY <1>3, HeadFacts DEF MarkSent, At
  <2>2. outbox = "SENT"
    BY <2>1 DEF OutboxInv, Op
  <2>. QED
    BY <1>3, <2>2 DEF MarkSent, OutboxInv, Typed, TypeOK
<1>4. ASSUME NEW p \in Processes, ObserveShadow(p) \/ MarkPending(p), native'[a] # native[a]
      PROVE  native'[a] \notin {"SENT", "DELIVERY_FAILED"}
  BY <1>4 DEF ObserveShadow, MarkPending, Typed, TypeOK
<1>5. ASSUME NEW p \in Processes, Reconcile(p)
      PROVE  /\ native'[a] = "SENT" => shown \/ silenced
             /\ native'[a] = "DELIVERY_FAILED" => outbox = "DEAD_LETTER"
  BY <1>1, <1>5 DEF Reconcile, Reconciled, Promoted, OutboxInv, Typed, TypeOK
<1>6. CASE ~(\E p \in Processes : MarkSent(p) \/ ObserveShadow(p) \/ MarkPending(p) \/ Reconcile(p))
  <2>1. UNCHANGED native
    BY <1>6, NextCases
       DEF PlainAct, RecordPrediction, RecordSent, ClaimSlot, MarkPushed, ArmFollowup, ReadDue,
           SendFollowup, ConsumeFollowup, StartCycle, ConsiderReport, ClaimReport, SendReport,
           UnlockReport, Ends, CycleFails, Restart, WorkerDelivers, Tick, vars
  <2>. QED
    BY <1>2, <2>1
<1>. QED
  BY <1>2, <1>3, <1>4, <1>5, <1>6, OutboxMoves

LEMMA OutboxStep == Typed /\ SendInv /\ OutboxInv /\ [Next]_vars => OutboxInv'
<1> SUFFICES ASSUME Typed, SendInv, OutboxInv, [Next]_vars PROVE OutboxInv'
  OBVIOUS
<1>1. ASSUME NEW q \in Processes, NEW k \in 1..Len(todo'[q]), todo'[q][k].op = "credit"
      PROVE  outbox' = "SENT"
  <2>1. CASE \E j \in 1..Len(todo[q]) : todo'[q][k] = todo[q][j]
    BY <1>1, <2>1, OutboxMoves DEF OutboxInv, Op
  <2>2. todo'[q][k].op \notin Unmarked
    BY <1>1 DEF Unmarked
  <2>. QED
    BY <1>1, <2>1, <2>2, StepOrigin
<1>. QED
  BY <1>1, OutboxMoves, CreditStep DEF OutboxInv, Op

\* The shadow ledger's delivery statuses say what Telegram and the outbox did.
THEOREM CreditIsTrue == Spec => []CreditFollowsTelegram
<1>1. Init => Typed /\ SendInv /\ OutboxInv
  BY InitType, SendInit DEF Init, OutboxInv, CreditFollowsTelegram
<1>2. Typed /\ SendInv /\ OutboxInv /\ [Next]_vars => Typed' /\ SendInv' /\ OutboxInv'
  BY StepType, SendStep, OutboxStep
<1>3. OutboxInv => CreditFollowsTelegram
  BY DEF OutboxInv
<1>. QED
  BY <1>1, <1>2, <1>3, PTL DEF Spec

-----------------------------------------------------------------------------
(* The side on record, and the end of the band.                            *)

LEMMA RecordStep == Typed /\ ComparesWithRecord /\ [Next]_vars => ComparesWithRecord'
<1> SUFFICES ASSUME Typed, ComparesWithRecord, [Next]_vars,
                    NEW q \in Processes, NEW a \in Assets, cache'[q][a] # NoSide
              PROVE  cache'[q][a] = predicted'[a]
  BY DEF ComparesWithRecord
<1>1. cache[q][a] # NoSide => cache[q][a] = predicted[a]
  BY DEF ComparesWithRecord
<1>2. ASSUME NEW p \in Processes, RecordPrediction(p) PROVE cache'[q][a] = predicted'[a]
  <2> DEFINE b == Asset(p)
             inserted == b \in Seen(p).canon /\ cache[p][b] = NoSide /\ predicted[b] = NoSide
  <2>1. b \in Assets /\ Seen(p).side \in [Assets -> Sides]
    <3>1. todo[p] # <<>> /\ Head(todo[p]).op = "record"
      BY <1>2 DEF RecordPrediction, At
    <3>. QED
      BY <3>1, HeadFacts, StepCases, SeenTyped DEF Asset, Typed
  <2>2. /\ predicted' = IF inserted THEN [predicted EXCEPT ![b] = Seen(p).side[b]] ELSE predicted
        /\ cache' = IF b \in Seen(p).canon THEN [cache EXCEPT ![p][b] = Original(p, b)] ELSE cache
    BY <1>2 DEF RecordPrediction
  <2>3. /\ predicted \in [Assets -> Sides \cup {NoSide}]
        /\ cache \in [Processes -> [Assets -> Sides \cup {NoSide}]]
    BY DEF Typed, TypeOK
  <2>4. CASE q = p /\ a = b /\ b \in Seen(p).canon
    <3>1. cache'[q][a] = Original(p, b)
      BY <2>1, <2>2, <2>3, <2>4
    <3>. QED
      BY <1>1, <2>1, <2>2, <2>3, <2>4, <3>1 DEF Original
  <2>5. CASE ~(q = p /\ a = b /\ b \in Seen(p).canon)
    <3>1. cache'[q][a] = cache[q][a]
      BY <2>1, <2>2, <2>3, <2>5
    <3>2. predicted[a] # NoSide
      BY <1>1, <3>1
    <3>3. predicted'[a] = predicted[a]
      BY <2>1, <2>2, <2>3, <3>2
    <3>. QED
      BY <1>1, <3>1, <3>3
  <2>. QED
    BY <2>4, <2>5
<1>3. ASSUME NEW p \in Processes, Ends(p) PROVE cache'[q][a] = predicted'[a]
  <2>1. cache' = cache \/ cache' = [cache EXCEPT ![p] = [x \in Assets |-> NoSide]]
    BY <1>3, EndsFrame DEF Forget
  <2>2. cache'[q][a] = cache[q][a]
    <3>1. cache \in [Processes -> [Assets -> Sides \cup {NoSide}]]
      BY DEF Typed, TypeOK
    <3>2. CASE cache' = [cache EXCEPT ![p] = [x \in Assets |-> NoSide]]
      <4>1. q = p => cache'[q][a] = NoSide
        BY <3>1, <3>2
      <4>. QED
        BY <3>1, <3>2, <4>1
    <3>. QED
      BY <2>1, <3>2
  <2>. QED
    BY <1>1, <1>3, <2>2, EndsFrame DEF ledger
<1>4. CASE ~(\E p \in Processes : RecordPrediction(p) \/ Ends(p))
  <2>1. UNCHANGED <<cache, predicted>>
    BY <1>4, NextCases
       DEF PlainAct, ObserveShadow, MarkPending, MarkSent, RecordSent, ClaimSlot, MarkPushed,
           ArmFollowup, ReadDue, SendFollowup, ConsumeFollowup, StartCycle, ConsiderReport,
           ClaimReport, SendReport, UnlockReport, WorkerDelivers, Tick, vars, memory, ledger
  <2>. QED
    BY <1>1, <2>1
<1>. QED
  BY <1>2, <1>3, <1>4

\* Whichever process recorded a prediction, every process compares with it.
THEOREM RecordIsCompared == Spec => []ComparesWithRecord
<1>1. Init => Typed /\ ComparesWithRecord
  BY InitType DEF Init, ComparesWithRecord
<1>2. Typed /\ ComparesWithRecord /\ [Next]_vars => Typed' /\ ComparesWithRecord'
  BY StepType, RecordStep
<1>. QED
  BY <1>1, <1>2, PTL DEF Spec

\* A whole cycle of the forced zone either asks for the report or finds the
\* window claimed.
BandInv ==
    /\ BandClosesWithReport
    /\ \A p \in Processes :
         todo[p] # <<>> /\ LastChance(p) /\ (\A k \in 1..Len(todo[p]) : Op(p, k) # "report")
           => lock \/ mutes > 0 \/ At(p, "claim")

LEMMA LockStays ==
    ASSUME Typed, SendInv, [Next]_vars, lock \/ mutes > 0
    PROVE  lock' \/ mutes' > 0
<1>1. lock \in BOOLEAN /\ mutes \in Nat
  BY DEF Typed, TypeOK
<1>2. ASSUME NEW p \in Processes, UnlockReport(p) PROVE mutes' > 0
  BY <1>2 DEF UnlockReport, SendInv, telegram
<1>3. ASSUME NEW p \in Processes, ClaimReport(p) PROVE lock'
  BY <1>3 DEF ClaimReport
<1>4. ASSUME NEW p \in Processes, SendReport(p) PROVE lock' \/ mutes' > 0
  <2>1. lock' = lock /\ (mutes' = mutes \/ mutes' = mutes + 1)
    BY <1>4 DEF SendReport, ledger
  <2>. QED
    BY <1>1, <2>1
<1>5. CASE ~(\E p \in Processes : UnlockReport(p) \/ ClaimReport(p) \/ SendReport(p))
  <2>1. UNCHANGED <<lock, mutes>>
    BY <1>5, NextCases, PlainAdds, EndsFrame
       DEF StartCycle, ConsiderReport, WorkerDelivers, Tick, vars, ledger, telegram
  <2>. QED
    BY <2>1
<1>. QED
  BY <1>2, <1>3, <1>4, <1>5

LEMMA BandKept ==
    ASSUME Typed, NEW p \in Processes, NEW more, Adds(p, more), UNCHANGED cycle,
           Head(todo[p]).op # "report", Head(todo[p]).op # "claim", BandInv,
           \A k \in 1..Len(todo'[p]) : Op(p, k)' # "report", LastChance(p)'
    PROVE  lock \/ mutes > 0
<1>1. todo[p] # <<>> /\ LastChance(p) /\ ~At(p, "claim")
  BY DEF Adds, LastChance, InBand, KeyKnown, At
<1>2. \A k \in 1..Len(todo[p]) : Op(p, k) # "report"
  <2>1. \A k \in 2..Len(todo[p]) : todo[p][k].op # "report"
    BY AddsOrigin DEF Op
  <2>2. todo[p][1].op # "report"
    BY <1>1, HeadFacts
  <2>3. \A k \in 1..Len(todo[p]) : k = 1 \/ k \in 2..Len(todo[p])
    BY <1>1, HeadFacts
  <2>. QED
    BY <2>1, <2>2, <2>3 DEF Op
<1>. QED
  BY <1>1, <1>2 DEF BandInv

LEMMA BandStep ==
    ASSUME BandEnd <= ExpireAt
    PROVE  Typed /\ SendInv /\ BandInv /\ [Next]_vars => BandInv'
<1> SUFFICES ASSUME Typed, SendInv, BandInv, [Next]_vars PROVE BandInv'
  OBVIOUS
<1>1. BandClosesWithReport'
  <2>1. CASE owed
    BY <2>1, LockStays DEF BandInv, BandClosesWithReport
  <2>2. ASSUME NEW p \in Processes, Reconcile(p), LastChance(p) PROVE lock \/ mutes > 0
    <3>1. todo[p] # <<>> /\ Head(todo[p]).op = "reconcile" /\ todo[p][1].op = "reconcile"
          /\ 1 \in 1..Len(todo[p])
      BY <2>2, HeadFacts DEF Reconcile, At
    <3>2. Len(todo[p]) = 1
      BY <3>1 DEF Typed, Planned, Op
    <3>3. \A k \in 1..Len(todo[p]) : Op(p, k) # "report"
      BY <3>1, <3>2 DEF Op
    <3>. QED
      BY <2>2, <3>1, <3>3 DEF BandInv, At
  <2>3. CASE ~owed /\ ~(\E p \in Processes : Reconcile(p) /\ LastChance(p))
    <3>1. ~owed'
      <4>1. ASSUME NEW p \in Processes, Reconcile(p) PROVE ~owed'
        BY <2>3, <4>1 DEF Reconcile
      <4>2. CASE ~(\E p \in Processes : Reconcile(p))
        <5>1. UNCHANGED owed
          BY <4>2, NextCases, PlainAdds
             DEF StartCycle, ConsiderReport, ClaimReport, SendReport, UnlockReport, Ends,
                 CycleFails, Restart, WorkerDelivers, Tick, vars
        <5>. QED
          BY <2>3, <5>1
      <4>. QED
        BY <4>1, <4>2
    <3>. QED
      BY <3>1 DEF BandClosesWithReport
  <2>. QED
    BY <2>1, <2>2, <2>3, LockStays DEF BandClosesWithReport
<1>2. ASSUME NEW q \in Processes, todo'[q] # <<>>, LastChance(q)',
             \A k \in 1..Len(todo'[q]) : Op(q, k)' # "report"
      PROVE  lock' \/ mutes' > 0 \/ At(q, "claim")'
  <2>0. ASSUME todo'[q] = todo[q], cycle'[q] = cycle[q]
        PROVE  lock' \/ mutes' > 0 \/ At(q, "claim")'
    <3>1. todo[q] # <<>> /\ LastChance(q) /\ (\A k \in 1..Len(todo[q]) : Op(q, k) # "report")
          /\ (At(q, "claim") => At(q, "claim")')
      BY <1>2, <2>0 DEF LastChance, InBand, KeyKnown, Op, At
    <3>. QED
      BY <3>1, LockStays DEF BandInv
  <2>1. ASSUME NEW p \in Processes, StartCycle(p)
        PROVE  lock' \/ mutes' > 0 \/ At(q, "claim")'
    <3>1. CASE q = p
      BY <1>2, <2>1, <3>1, StartType DEF LastChance, InBand, Op
    <3>2. CASE q # p
      BY <2>0, <2>1, <3>2, StartType
    <3>. QED
      BY <3>1, <3>2
  <2>2. ASSUME NEW p \in Processes, NEW more, Adds(p, more), UNCHANGED cycle,
               q = p => Head(todo[p]).op # "report" /\ Head(todo[p]).op # "claim"
        PROVE  lock' \/ mutes' > 0 \/ At(q, "claim")'
    <3>1. CASE q = p
      <4>1. lock \/ mutes > 0
        BY <1>2, <2>2, <3>1, BandKept
      <4>. QED
        BY <4>1, LockStays
    <3>2. CASE q # p
      BY <2>0, <2>2, <3>2, AddsOrigin
    <3>. QED
      BY <3>1, <3>2
  <2>3. ASSUME NEW p \in Processes, PlainAct(p)
        PROVE  lock' \/ mutes' > 0 \/ At(q, "claim")'
    <3>1. Head(todo[p]).op # "report" /\ Head(todo[p]).op # "claim"
      BY <2>3 DEF PlainAct, RecordPrediction, ObserveShadow, MarkPending, MarkSent, RecordSent,
         ClaimSlot, MarkPushed, ArmFollowup, ReadDue, SendFollowup, ConsumeFollowup, At
    <3>. QED
      BY <2>2, <2>3, <3>1, PlainAdds DEF AddsPlain
  <2>4. ASSUME NEW p \in Processes, SendReport(p) \/ UnlockReport(p)
        PROVE  lock' \/ mutes' > 0 \/ At(q, "claim")'
    <3>1. Head(todo[p]).op # "report" /\ Head(todo[p]).op # "claim" /\ UNCHANGED cycle
      BY <2>4 DEF SendReport, UnlockReport, At
    <3>. QED
      BY <2>2, <2>4, <3>1, SendAdds, UnlockAdds
  <2>5. ASSUME NEW p \in Processes, ClaimReport(p)
        PROVE  lock' \/ mutes' > 0 \/ At(q, "claim")'
    BY <2>5 DEF ClaimReport
  <2>6. ASSUME NEW p \in Processes, ConsiderReport(p)
        PROVE  lock' \/ mutes' > 0 \/ At(q, "claim")'
    <3>1. PICK more \in Seq(Steps) :
             /\ Adds(p, more)
             /\ \/ more = <<>> /\ (LastChance(p) /\ BandEnd <= ExpireAt => lock)
                \/ more = <<Step("claim")>> /\ Len(more) = 1 /\ more[1].op = "claim" /\ ~lock
      BY <2>6, ConsiderAdds
    <3>2. UNCHANGED cycle
      BY <2>6 DEF ConsiderReport
    <3>3. CASE q # p
      BY <2>2, <3>1, <3>2, <3>3
    <3>4. CASE q = p /\ Len(more) = 1 /\ more[1].op = "claim"
      <4>1. todo'[p] \in Seq(Steps) /\ todo'[p] # <<>>
        BY <3>1, AddsPlanned
      <4>2. Head(todo'[p]) = todo'[p][1] /\ 1 \in 1..Len(todo'[p])
        BY <4>1
      <4>3. todo'[p][1] = more[1]
        <5>1. \A k \in 1..Len(todo'[p]) : k <= Len(more) => todo'[p][k] = more[k]
          BY <3>1, ThenFacts DEF Adds, Typed
        <5>. QED
          BY <3>4, <4>2, <5>1
      <4>. QED
        BY <3>4, <4>1, <4>2, <4>3 DEF At
    <3>5. CASE q = p /\ (LastChance(p) => lock)
      <4>1. LastChance(p)
        BY <1>2, <3>2, <3>5 DEF LastChance, InBand, KeyKnown
      <4>. QED
        BY <3>5, <4>1, LockStays
    <3>. QED
      BY <3>1, <3>3, <3>4, <3>5
  <2>7. ASSUME NEW p \in Processes, Ends(p)
        PROVE  lock' \/ mutes' > 0 \/ At(q, "claim")'
    <3>1. todo'[p] = <<>> /\ \A i \in Processes : i # p => todo'[i] = todo[i] /\ cycle'[i] = cycle[i]
      BY <2>7, EndsFrame DEF Typed, TypeOK
    <3>. QED
      BY <1>2, <2>0, <3>1
  <2>8. CASE WorkerDelivers \/ Tick \/ UNCHANGED vars
    BY <2>0, <2>8 DEF WorkerDelivers, Tick, vars, memory
  <2>. QED
    BY <2>1, <2>3, <2>4, <2>5, <2>6, <2>7, <2>8, NextCases
<1>. QED
  BY <1>1, <1>2 DEF BandInv

\* Where the report does not expire before its band ends, no band in which a
\* whole cycle of the forced zone had a report to send closes without a claim,
\* unless the report was muted.
THEOREM BandIsClosed ==
    ASSUME BandEnd <= ExpireAt
    PROVE  Spec => []BandClosesWithReport
<1>1. Init => Typed /\ SendInv /\ BandInv
  BY InitType, SendInit DEF Init, BandInv, BandClosesWithReport
<1>2. Typed /\ SendInv /\ BandInv /\ [Next]_vars => Typed' /\ SendInv' /\ BandInv'
  BY StepType, SendStep, BandStep
<1>3. BandInv => BandClosesWithReport
  BY DEF BandInv
<1>. QED
  BY <1>1, <1>2, <1>3, PTL DEF Spec

-----------------------------------------------------------------------------
(* One active entry.                                                       *)

\* Asset a is on its way to the slot, holds it, or has a follow-up.
Arming(p, k, a) ==
    /\ todo[p][k].op \in {"credit", "slot", "push", "arm"} /\ todo[p][k].a = a
    /\ todo[p][k].op = "credit" => todo[p][k].arms

Chosen(a) ==
    \/ slot = a \/ followup[a] # NoFollowup
    \/ \E p \in Processes : \E k \in 1..Len(todo[p]) : Arming(p, k, a)

\* Only one send is answered as delivered, so only one asset is ever chosen,
\* and its slot is claimed before its follow-up is armed.
EntryInv ==
    /\ \A a, b \in Assets : Chosen(a) /\ Chosen(b) => a = b
    /\ \A a \in Assets : Chosen(a) => calls > mutes
    /\ mutes <= calls
    /\ \A a \in Assets : followup[a] # NoFollowup => slot # NoSlot
    /\ \A a \in checked : followup[a] # NoFollowup

\* The slot is claimed before the follow-up is armed.
SlotFirst ==
    \A p \in Processes : \A k \in 1..Len(todo[p]) :
       Op(p, k) = "arm" => slot # NoSlot \/ \E j \in 1..(k - 1) : Op(p, j) = "slot"

LEMMA SlotStays ==
    ASSUME Typed, [Next]_vars, NoSlot \notin Assets
    PROVE  /\ slot # NoSlot => slot' # NoSlot
           /\ \A p \in Processes : ClaimSlot(p) => slot' # NoSlot
           /\ slot' = slot \/ \E p \in Processes : ClaimSlot(p) /\ slot' = Asset(p)
<1>1. ASSUME NEW p \in Processes, ClaimSlot(p)
      PROVE  /\ slot # NoSlot => slot' # NoSlot
             /\ slot' # NoSlot
             /\ slot' = slot \/ slot' = Asset(p)
  <2>1. Asset(p) \in Assets
    <3>1. todo[p] # <<>> /\ Head(todo[p]).op = "slot"
      BY <1>1 DEF ClaimSlot, At
    <3>. QED
      BY <3>1, HeadFacts, StepCases DEF Asset
  <2>. QED
    BY <1>1, <2>1 DEF ClaimSlot
<1>2. CASE ~(\E p \in Processes : ClaimSlot(p))
  <2>1. UNCHANGED slot
    BY <1>2, NextCases, EndsFrame
       DEF PlainAct, RecordPrediction, ObserveShadow, MarkPending, MarkSent, RecordSent,
           MarkPushed, ArmFollowup, ReadDue, SendFollowup, ConsumeFollowup, StartCycle,
           ConsiderReport, ClaimReport, SendReport, UnlockReport, WorkerDelivers, Tick, vars, ledger
  <2>. QED
    BY <1>2, <2>1
<1>. QED
  BY <1>1, <1>2

LEMMA SlotFirstAdds ==
    ASSUME Typed, SlotFirst, NEW p \in Processes, NEW more \in Seq(Steps), Adds(p, more),
           slot # NoSlot => slot' # NoSlot,
           Head(todo[p]).op = "slot" => slot' # NoSlot,
           \A k \in 1..Len(more) : more[k].op = "arm" => \E j \in 1..(k - 1) : more[j].op = "slot"
    PROVE  SlotFirst'
<1>. SUFFICES ASSUME NEW q \in Processes, NEW k \in 1..Len(todo'[q]), todo'[q][k].op = "arm",
                     ~(slot' # NoSlot)
              PROVE  \E j \in 1..(k - 1) : todo'[q][j].op = "slot"
  BY DEF SlotFirst, Op
<1>1. CASE q # p
  <2>1. todo'[q] = todo[q]
    BY <1>1, AddsOrigin
  <2>. QED
    BY <2>1 DEF SlotFirst, Op
<1>2. CASE q = p
  <2>1. /\ Len(todo'[p]) = Len(more) + Len(todo[p]) - 1
        /\ \A i \in 1..Len(todo'[p]) :
             /\ i <= Len(more) => todo'[p][i] = more[i]
             /\ i > Len(more) => /\ i - Len(more) + 1 \in 2..Len(todo[p])
                                 /\ todo'[p][i] = todo[p][i - Len(more) + 1]
    BY ThenFacts DEF Adds, Typed
  <2>2. Len(more) \in Nat /\ Len(todo[p]) \in Nat \ {0} /\ todo[p][1] = Head(todo[p])
    BY HeadFacts DEF Adds
  <2>3. CASE k <= Len(more)
    <3>1. k \in 1..Len(more) /\ more[k].op = "arm"
      BY <1>2, <2>1, <2>2, <2>3
    <3>2. PICK j \in 1..(k - 1) : more[j].op = "slot"
      BY <3>1
    <3>3. j \in 1..Len(todo'[p]) /\ j <= Len(more)
      BY <1>2, <2>2, <2>3, <3>1, <3>2
    <3>. QED
      BY <1>2, <2>1, <3>2, <3>3
  <2>4. CASE k > Len(more)
    <3>1. PICK i \in 2..Len(todo[p]) : i = k - Len(more) + 1 /\ todo'[p][k] = todo[p][i]
      BY <1>2, <2>1, <2>4
    <3>2. i \in 1..Len(todo[p]) /\ Op(p, i) = "arm" /\ ~(slot # NoSlot)
      BY <1>2, <2>2, <3>1 DEF Op
    <3>3. PICK j \in 1..(i - 1) : Op(p, j) = "slot"
      BY <3>2 DEF SlotFirst
    <3>4. j # 1 /\ j \in Nat /\ j >= 1
      BY <2>2, <3>1, <3>3 DEF Op
    <3>5. j - 1 + Len(more) \in Nat
      BY <2>2, <3>4
    <3>6. PICK n \in Nat : n = j - 1 + Len(more)
      BY <3>5
    <3>7. n \in 1..(k - 1) /\ n \in 1..Len(todo'[p]) /\ n > Len(more) /\ n - Len(more) + 1 = j
      BY <1>2, <2>1, <2>2, <3>1, <3>3, <3>4, <3>6
    <3>8. todo'[p][n] = todo[p][j]
      BY <2>1, <3>7
    <3>. QED
      BY <1>2, <3>3, <3>7, <3>8 DEF Op
  <2>. QED
    BY <1>2, <2>2, <2>3, <2>4
<1>. QED
  BY <1>1, <1>2

LEMMA SlotFirstStep ==
    ASSUME NoSlot \notin Assets
    PROVE  Typed /\ SlotFirst /\ [Next]_vars => SlotFirst'
<1> SUFFICES ASSUME Typed, SlotFirst, [Next]_vars PROVE SlotFirst'
  OBVIOUS
<1>1. slot # NoSlot => slot' # NoSlot
  BY SlotStays
<1>2. ASSUME NEW p \in Processes, PlainAct(p) PROVE SlotFirst'
  <2>1. PICK more \in Seq(Steps) : Adds(p, more) /\ PlainSteps(p, more)
    BY <1>2, PlainAdds DEF AddsPlain
  <2>2. Head(todo[p]).op = "slot" => ClaimSlot(p)
    BY <1>2 DEF PlainAct, RecordPrediction, ObserveShadow, MarkPending, MarkSent, RecordSent,
       MarkPushed, ArmFollowup, ReadDue, SendFollowup, ConsumeFollowup, At
  <2>3. \A k \in 1..Len(more) : more[k].op = "arm" => \E j \in 1..(k - 1) : more[j].op = "slot"
    BY <2>1 DEF PlainSteps
  <2>. QED
    BY <1>1, <2>1, <2>2, <2>3, SlotStays, SlotFirstAdds
<1>3. ASSUME NEW p \in Processes, NEW more \in Seq(Steps), Adds(p, more),
             Head(todo[p]).op # "slot", \A k \in 1..Len(more) : more[k].op # "arm"
      PROVE  SlotFirst'
  BY <1>1, <1>3, SlotFirstAdds
<1>4. ASSUME NEW p \in Processes,
             ConsiderReport(p) \/ ClaimReport(p) \/ SendReport(p) \/ UnlockReport(p)
      PROVE  SlotFirst'
  <2>1. Head(todo[p]).op # "slot"
    BY <1>4 DEF ConsiderReport, ClaimReport, SendReport, UnlockReport, At
  <2>2. \A more \in {<<>>} : more \in Seq(Steps) /\ \A k \in 1..Len(more) : more[k].op # "arm"
    OBVIOUS
  <2>3. CASE ConsiderReport(p)
    BY <1>3, <2>1, <2>2, <2>3, ConsiderAdds
  <2>4. CASE ClaimReport(p)
    BY <1>3, <2>1, <2>2, <2>4, ClaimAdds
  <2>5. CASE SendReport(p)
    <3>1. PICK more \in Seq(Steps) : Adds(p, more) /\ Answered(p, more)
      BY <2>5, SendAdds
    <3>2. \A k \in 1..Len(more) : more[k].op # "arm"
      BY <3>1 DEF Answered
    <3>. QED
      BY <1>3, <2>1, <3>1, <3>2
  <2>6. CASE UnlockReport(p)
    BY <1>3, <2>1, <2>2, <2>6, UnlockAdds
  <2>. QED
    BY <1>4, <2>3, <2>4, <2>5, <2>6
<1>5. ASSUME NEW p \in Processes, \A i \in Processes : i # p => todo'[i] = todo[i],
             \A k \in 1..Len(todo'[p]) : todo'[p][k].op # "arm"
      PROVE  SlotFirst'
  BY <1>1, <1>5 DEF SlotFirst, Op
<1>6. ASSUME NEW p \in Processes, StartCycle(p) PROVE SlotFirst'
  BY <1>5, <1>6, StartType
<1>7. ASSUME NEW p \in Processes, Ends(p) PROVE SlotFirst'
  <2>1. todo'[p] = <<>> /\ \A i \in Processes : i # p => todo'[i] = todo[i]
    BY <1>7, EndsFrame DEF Typed, TypeOK
  <2>. QED
    BY <1>5, <2>1
<1>8. CASE WorkerDelivers \/ Tick \/ UNCHANGED vars
  <2>1. UNCHANGED todo
    BY <1>8 DEF WorkerDelivers, Tick, vars, memory
  <2>. QED
    BY <1>1, <2>1 DEF SlotFirst, Op
<1>. QED
  BY <1>2, <1>4, <1>6, <1>7, <1>8, NextCases

\* Where an asset that is chosen after a step comes from.
LEMMA ChosenBefore ==
    ASSUME Typed, [Next]_vars, ~(\E p \in Processes : SendReport(p)), NoSlot \notin Assets,
           NEW a \in Assets, Chosen(a)'
    PROVE  Chosen(a)
<1>1. ASSUME NEW p \in Processes, todo[p] # <<>>,
             Head(todo[p]).op \in {"slot", "push", "arm"} \/
               (Head(todo[p]).op = "credit" /\ Head(todo[p]).arms),
             Head(todo[p]).a = a
      PROVE  Chosen(a)
  BY <1>1, HeadFacts DEF Chosen, Arming
<1>2. CASE slot' = a
  <2>1. ASSUME NEW p \in Processes, ClaimSlot(p), slot' = Asset(p) PROVE Chosen(a)
    <3>1. todo[p] # <<>> /\ Head(todo[p]).op = "slot" /\ Head(todo[p]).a = a
      BY <1>2, <2>1 DEF ClaimSlot, At, Asset
    <3>. QED
      BY <1>1, <3>1
  <2>2. CASE slot' = slot
    BY <1>2, <2>2 DEF Chosen
  <2>. QED
    BY <2>1, <2>2, SlotStays
<1>3. CASE followup'[a] # NoFollowup
  <2>1. ASSUME NEW p \in Processes, ArmFollowup(p), Asset(p) = a PROVE Chosen(a)
    <3>1. todo[p] # <<>> /\ Head(todo[p]).op = "arm" /\ Head(todo[p]).a = a
      BY <2>1 DEF ArmFollowup, At, Asset
    <3>. QED
      BY <1>1, <3>1
  <2>2. ASSUME NEW p \in Processes, ConsumeFollowup(p), Asset(p) = a PROVE Chosen(a)
    <3>1. todo[p] # <<>> /\ Op(p, 1) = "consume" /\ todo[p][1].a = a /\ 1 \in 1..Len(todo[p])
      BY <2>2, HeadFacts DEF ConsumeFollowup, At, Asset, Op
    <3>. QED
      BY <3>1 DEF Typed, DueSteps, Chosen
  <2>3. CASE ~(\E p \in Processes : (ArmFollowup(p) \/ ConsumeFollowup(p)) /\ Asset(p) = a)
    <3>1. ASSUME NEW p \in Processes, ArmFollowup(p) \/ ConsumeFollowup(p)
          PROVE  followup'[a] = followup[a]
      BY <2>3, <3>1 DEF ArmFollowup, ConsumeFollowup, Typed, TypeOK
    <3>2. CASE ~(\E p \in Processes : ArmFollowup(p) \/ ConsumeFollowup(p))
      <4>1. UNCHANGED followup
        BY <3>2, NextCases, EndsFrame
           DEF PlainAct, RecordPrediction, ObserveShadow, MarkPending, MarkSent, RecordSent,
               ClaimSlot, MarkPushed, ReadDue, SendFollowup, StartCycle, ConsiderReport,
               ClaimReport, SendReport, UnlockReport, WorkerDelivers, Tick, vars, ledger
      <4>. QED
        BY <1>3, <4>1 DEF Chosen
    <3>. QED
      BY <1>3, <3>1, <3>2 DEF Chosen
  <2>. QED
    BY <2>1, <2>2, <2>3
<1>4. ASSUME NEW q \in Processes, NEW k \in 1..Len(todo'[q]), Arming(q, k, a)'
      PROVE  Chosen(a)
  <2> DEFINE s == todo'[q][k]
  <2>1. /\ s.op \in {"credit", "slot", "push", "arm"} /\ s.a = a
        /\ s.op = "credit" => s.arms
    BY <1>4 DEF Arming
  <2>2. CASE \E j \in 1..Len(todo[q]) : s = todo[q][j]
    BY <2>1, <2>2 DEF Chosen, Arming
  <2>3. ASSUME NEW p \in Processes, NEW more \in Seq(Steps), Adds(p, more), PlainSteps(p, more)
        PROVE  Chosen(a)
    <3>1. CASE q # p
      <4>1. todo'[q] = todo[q]
        BY <2>3, <3>1, AddsOrigin
      <4>. QED
        BY <2>2, <4>1
    <3>2. CASE q = p /\ k \in 1..Len(more) /\ s = more[k]
      BY <1>1, <2>1, <2>3, <3>2 DEF PlainSteps, Plain, Adds
    <3>3. CASE q = p /\ \E j \in 2..Len(todo[q]) : s = todo[q][j]
      <4>1. todo[q] # <<>>
        BY <2>3, <3>3 DEF Adds
      <4>2. \A j \in 2..Len(todo[q]) : j \in 1..Len(todo[q])
        BY <4>1, HeadFacts
      <4>. QED
        BY <2>2, <3>3, <4>2
    <3>. QED
      BY <2>3, <3>1, <3>2, <3>3, AddsOrigin
  <2>4. ASSUME NEW p \in Processes, NEW more \in Seq(Steps), Adds(p, more),
               \A j \in 1..Len(more) : more[j].op \in Special
        PROVE  Chosen(a)
    <3>1. PlainSteps(p, more) \/ Chosen(a)
      <4>1. CASE q = p /\ k \in 1..Len(more) /\ s = more[k]
        BY <2>1, <2>4, <4>1 DEF Special
      <4>2. CASE q = p /\ \E j \in 2..Len(todo[q]) : s = todo[q][j]
        <5>1. todo[q] # <<>>
          BY <2>4, <4>2 DEF Adds
        <5>2. \A j \in 2..Len(todo[q]) : j \in 1..Len(todo[q])
          BY <5>1, HeadFacts
        <5>. QED
          BY <2>2, <4>2, <5>2
      <4>3. CASE todo'[q] = todo[q]
        BY <2>2, <4>3
      <4>. QED
        BY <2>4, <4>1, <4>2, <4>3, AddsOrigin
    <3>. QED
      BY <2>3, <2>4, <3>1
  <2>5. \A more \in {<<>>} : more \in Seq(Steps) /\ \A j \in 1..Len(more) : more[j].op \in Special
    OBVIOUS
  <2>6. ASSUME NEW p \in Processes, PlainAct(p) PROVE Chosen(a)
    BY <2>3, <2>6, PlainAdds DEF AddsPlain
  <2>7. ASSUME NEW p \in Processes, ConsiderReport(p) PROVE Chosen(a)
    <3>1. PICK more \in Seq(Steps) :
            Adds(p, more) /\ (more = <<>> \/ (Len(more) = 1 /\ more[1].op = "claim"))
      BY <2>7, ConsiderAdds
    <3>2. \A j \in 1..Len(more) : more[j].op \in Special
      BY <2>5, <3>1 DEF Special
    <3>. QED
      BY <2>4, <3>1, <3>2
  <2>8. ASSUME NEW p \in Processes, ClaimReport(p) PROVE Chosen(a)
    <3>1. PICK more \in Seq(Steps) :
            Adds(p, more) /\ (more = <<>> \/ (Len(more) = 1 /\ more[1].op = "send"))
      BY <2>8, ClaimAdds
    <3>2. \A j \in 1..Len(more) : more[j].op \in Special
      BY <2>5, <3>1 DEF Special
    <3>. QED
      BY <2>4, <3>1, <3>2
  <2>9. ASSUME NEW p \in Processes, UnlockReport(p) PROVE Chosen(a)
    BY <2>4, <2>5, <2>9, UnlockAdds
  <2>10. ASSUME NEW p \in Processes, StartCycle(p) PROVE Chosen(a)
    BY <2>1, <2>2, <2>10, StartType
  <2>11. ASSUME NEW p \in Processes, Ends(p) PROVE Chosen(a)
    <3>1. todo'[p] = <<>> /\ \A i \in Processes : i # p => todo'[i] = todo[i]
      BY <2>11, EndsFrame DEF Typed, TypeOK
    <3>. QED
      BY <2>2, <3>1
  <2>12. CASE WorkerDelivers \/ Tick \/ UNCHANGED vars
    BY <2>2, <2>12 DEF WorkerDelivers, Tick, vars, memory
  <2>. QED
    BY <2>6, <2>7, <2>8, <2>9, <2>10, <2>11, <2>12, NextCases
<1>. QED
  BY <1>2, <1>3, <1>4 DEF Chosen

LEMMA EntryStep ==
    ASSUME NoSlot \notin Assets
    PROVE  Typed /\ SendInv /\ SlotFirst /\ EntryInv /\ [Next]_vars => EntryInv'
<1> SUFFICES ASSUME Typed, SendInv, SlotFirst, EntryInv, [Next]_vars PROVE EntryInv'
  OBVIOUS
<1>1. CASE \E p \in Processes : SendReport(p)
  <2>1. PICK p \in Processes : SendReport(p)
    BY <1>1
  <2>2. PICK more \in Seq(Steps) : Adds(p, more) /\ Answered(p, more)
    BY <2>1, SendAdds
  <2>3. calls <= mutes /\ calls \in Nat /\ mutes \in Nat /\ calls' = calls + 1
        /\ mutes <= calls /\ UNCHANGED <<slot, followup, checked>>
    BY <2>1 DEF SendReport, SendInv, Sending, EntryInv, Typed, TypeOK, ledger
  <2>4. \A a \in Assets : ~Chosen(a)
    BY <2>3 DEF EntryInv
  <2>5. \A a \in Assets : Chosen(a)' =>
          \E k \in 1..Len(more) : more[k].op = "credit" /\ more[k].arms /\ more[k].a = a
    <3> SUFFICES ASSUME NEW a \in Assets, Chosen(a)'
                  PROVE  \E k \in 1..Len(more) :
                           more[k].op = "credit" /\ more[k].arms /\ more[k].a = a
      OBVIOUS
    <3>1. ~(slot' = a) /\ ~(followup'[a] # NoFollowup)
      BY <2>3, <2>4 DEF Chosen
    <3>2. PICK q \in Processes : \E k \in 1..Len(todo'[q]) : Arming(q, k, a)'
      BY <3>1 DEF Chosen
    <3>3. PICK k \in 1..Len(todo'[q]) : Arming(q, k, a)'
      BY <3>2
    <3>4. ~(\E j \in 1..Len(todo[q]) : todo'[q][k] = todo[q][j])
      BY <2>4, <3>3 DEF Chosen, Arming
    <3>5. q = p
      BY <2>2, <3>3, <3>4, AddsOrigin
    <3>6. \A j \in 2..Len(todo[q]) : j \in 1..Len(todo[q])
      BY <2>2, <3>5, HeadFacts DEF Adds
    <3>7. k \in 1..Len(more) /\ todo'[q][k] = more[k]
      BY <2>2, <3>4, <3>5, <3>6, AddsOrigin
    <3>. QED
      BY <2>2, <3>3, <3>7 DEF Answered, Arming
  <2>6. \A a, b \in Assets : Chosen(a)' /\ Chosen(b)' => a = b
    BY <2>2, <2>5 DEF Answered
  <2>7. \A a \in Assets : Chosen(a)' => calls' > mutes'
    BY <2>2, <2>3, <2>5 DEF Answered
  <2>8. mutes' <= calls'
    BY <2>2, <2>3 DEF Answered
  <2>. QED
    BY <2>3, <2>6, <2>7, <2>8 DEF EntryInv
<1>2. CASE ~(\E p \in Processes : SendReport(p))
  <2>1. \A a \in Assets : Chosen(a)' => Chosen(a)
    BY <1>2, ChosenBefore
  <2>2. UNCHANGED <<calls, mutes>>
    BY <1>2, NextCases, PlainAdds, EndsFrame
       DEF StartCycle, ConsiderReport, ClaimReport, UnlockReport, WorkerDelivers, Tick, vars, telegram
  <2>3. ASSUME NEW a \in Assets, followup'[a] # NoFollowup PROVE slot' # NoSlot
    <3>1. CASE followup[a] # NoFollowup
      BY <3>1, SlotStays DEF EntryInv
    <3>2. ASSUME NEW p \in Processes, ArmFollowup(p) PROVE slot' # NoSlot
      <4>1. todo[p] # <<>> /\ Head(todo[p]).op = "arm"
        BY <3>2 DEF ArmFollowup, At
      <4>2. Op(p, 1) = "arm" /\ 1 \in 1..Len(todo[p])
        BY <4>1, HeadFacts DEF Op
      <4>3. ~(\E j \in 1..(1 - 1) : Op(p, j) = "slot")
        OBVIOUS
      <4>. QED
        BY <4>2, <4>3, SlotStays DEF SlotFirst
    <3>3. CASE followup[a] = NoFollowup /\ ~(\E p \in Processes : ArmFollowup(p))
      <4>1. ASSUME NEW p \in Processes, ConsumeFollowup(p) PROVE followup'[a] = followup[a]
        <5>1. todo[p] # <<>> /\ Op(p, 1) = "consume" /\ todo[p][1] = Head(todo[p])
              /\ 1 \in 1..Len(todo[p])
          BY <4>1, HeadFacts DEF ConsumeFollowup, At, Op
        <5>2. followup[Asset(p)] # NoFollowup
          BY <5>1 DEF Typed, DueSteps, Asset
        <5>. QED
          BY <3>3, <4>1, <5>2 DEF ConsumeFollowup, Typed, TypeOK
      <4>2. CASE ~(\E p \in Processes : ConsumeFollowup(p))
        <5>1. UNCHANGED followup
          BY <3>3, <4>2, NextCases, EndsFrame
             DEF PlainAct, RecordPrediction, ObserveShadow, MarkPending, MarkSent, RecordSent,
                 ClaimSlot, MarkPushed, ReadDue, SendFollowup, StartCycle, ConsiderReport,
                 ClaimReport, SendReport, UnlockReport, WorkerDelivers, Tick, vars, ledger
        <5>. QED
          BY <2>3, <3>3, <5>1
      <4>. QED
        BY <2>3, <3>3, <4>1, <4>2
    <3>. QED
      BY <3>1, <3>2, <3>3
  <2>4. ASSUME NEW a \in checked' PROVE followup'[a] # NoFollowup
    <3>1. CASE a \in checked
      BY <3>1, FollowupsStay DEF EntryInv, Typed, TypeOK
    <3>2. ASSUME NEW p \in Processes, SendFollowup(p), a = Asset(p) PROVE followup'[a] # NoFollowup
      <4>1. todo[p] # <<>> /\ Op(p, 1) = "check" /\ todo[p][1] = Head(todo[p])
            /\ 1 \in 1..Len(todo[p]) /\ Head(todo[p]) \in Steps /\ Head(todo[p]).op = "check"
        BY <3>2, HeadFacts DEF SendFollowup, At, Op
      <4>2. followup[a] # NoFollowup /\ a \in Assets
        BY <3>2, <4>1, StepCases DEF Typed, DueSteps, Asset
      <4>. QED
        BY <4>2, FollowupsStay DEF Typed
    <3>3. a \in checked \/ \E p \in Processes : SendFollowup(p) /\ a = Asset(p)
      <4>1. ASSUME NEW p \in Processes, SendFollowup(p) PROVE a \in checked \/ a = Asset(p)
        BY <2>4, <4>1 DEF SendFollowup
      <4>2. CASE ~(\E p \in Processes : SendFollowup(p))
        <5>1. UNCHANGED checked
          BY <4>2, NextCases, EndsFrame
             DEF PlainAct, RecordPrediction, ObserveShadow, MarkPending, MarkSent, RecordSent,
                 ClaimSlot, MarkPushed, ArmFollowup, ReadDue, ConsumeFollowup, StartCycle,
                 ConsiderReport, ClaimReport, SendReport, UnlockReport, WorkerDelivers, Tick, vars
        <5>. QED
          BY <2>4, <5>1
      <4>. QED
        BY <4>1, <4>2
    <3>. QED
      BY <3>1, <3>2, <3>3
  <2>. QED
    BY <2>1, <2>2, <2>3, <2>4 DEF EntryInv
<1>. QED
  BY <1>1, <1>2

\* One asset at most gets the timeframe's slot and its follow-up, and no other
\* asset's follow-up is sent.
THEOREM EntryIsOne ==
    ASSUME NoSlot \notin Assets
    PROVE  Spec => []OneActiveEntry
<1>1. Init => Typed /\ SendInv /\ SlotFirst /\ EntryInv
  <2> SUFFICES ASSUME Init PROVE Typed /\ SendInv /\ SlotFirst /\ EntryInv
    OBVIOUS
  <2>1. SlotFirst
    BY DEF Init, SlotFirst
  <2>2. \A a \in Assets : ~Chosen(a)
    BY DEF Init, Chosen
  <2>3. EntryInv
    BY <2>2 DEF Init, EntryInv
  <2>. QED
    BY <2>1, <2>3, InitType, SendInit
<1>2. Typed /\ SendInv /\ SlotFirst /\ EntryInv /\ [Next]_vars =>
        Typed' /\ SendInv' /\ SlotFirst' /\ EntryInv'
  BY StepType, SendStep, SlotFirstStep, EntryStep
<1>3. Typed /\ EntryInv => OneActiveEntry
  <2> SUFFICES ASSUME Typed, EntryInv, NEW a \in Assets, followup[a] # NoFollowup
                PROVE  /\ slot = a
                       /\ \A b \in Assets \ {a} : followup[b] = NoFollowup
                       /\ checked \subseteq {a}
    BY DEF OneActiveEntry
  <2>1. \A b \in Assets : followup[b] # NoFollowup => b = a
    BY DEF EntryInv, Chosen
  <2>2. slot \in Assets
    BY DEF EntryInv, Typed, TypeOK
  <2>3. slot = a
    BY <2>2 DEF EntryInv, Chosen
  <2>4. checked \subseteq {a}
    BY <2>1 DEF EntryInv, Typed, TypeOK
  <2>. QED
    BY <2>1, <2>3, <2>4
<1>. QED
  BY <1>1, <1>2, <1>3, PTL DEF Spec
=============================================================================
