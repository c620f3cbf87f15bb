--------------------------- MODULE OfficialReport ---------------------------
(***************************************************************************)
(* One checkpoint of one 15-minute window: every process that runs the     *)
(* v9.5 policy records the first prediction of each asset, waits for the   *)
(* verdict to settle, claims the window's report lock, sends the official  *)
(* report through the outbox, and writes what follows from the answer: the *)
(* official record, the shadow's delivery status, the timeframe's slot and *)
(* one follow-up.  Each transaction is a step; the cycle's view, its       *)
(* remaining steps, the verdict's count and the prediction cache are       *)
(* memory, everything else is shared and durable.                          *)
(***************************************************************************)
EXTENDS Naturals, Sequences, FiniteSets, SequencesExt

CONSTANTS
    Processes, Assets,
    Outgoing,      \* processes a deploy is replacing: each has a last cycle to run
    Views,         \* what the analysis of a cycle can show
    StableCycles,  \* Q15_V95_DECISION_STABILITY_CYCLES
    MarkAt, ForceAt, ExpireAt, BandEnd,  \* ticks of the checkpoint's gates
    CloseAt,       \* from here the cycles see the next window
    LastTick,      \* the next window's first delivering band
    FollowDelay, Faults, MaxFaults,
    MaxLag         \* bound on the ticks a cycle lasts

Sides == {"YES", "NO"}
View == [rank : Seq(Assets), best : Assets, side : [Assets -> Sides],
         entry : SUBSET Assets, canon : SUBSET Assets]

ASSUME ReportConstants ==
    /\ IsFiniteSet(Processes) /\ IsFiniteSet(Assets)
    /\ Outgoing \subseteq Processes /\ Views \subseteq View
    /\ {StableCycles, MarkAt, ForceAt, ExpireAt, BandEnd, CloseAt, LastTick,
        FollowDelay, MaxFaults, MaxLag} \subseteq Nat
    /\ StableCycles > 0 /\ BandEnd <= CloseAt /\ CloseAt <= LastTick
    /\ Faults \subseteq {"crash", "error", "mute", "fail", "lost", "unqueued"}

VARIABLES
    now,        \* wall clock, in ticks
    cycle,      \* each process's cycle: when it began and what it sees
    todo,       \* the steps the cycle has left
    verdict,    \* _decision_stability: the best pick and how often in a row
    cache,      \* _prediction_record_cache: the side it believes is on record
    gone,       \* outgoing processes that have stopped
    predicted,  \* the side of each asset's recorded prediction
    lock,       \* official_report_lock
    official,   \* sent_predictions, as asset and record type
    slot, pushed, followup,
    native,     \* the shadow ledger's delivery status of each pick
    outbox,     \* the outbox's row for the report
    shown,      \* Telegram showed the report
    silenced,   \* the notifier muted it: its row is SENT all the same
    checked,    \* follow-ups sent
    calls, mutes,  \* sends of the report, and those answered as muted
    owed,       \* a whole cycle ran in the last-chance zone with a report to send
    faults

memory == <<cycle, todo, verdict, cache, gone>>
ledger == <<predicted, lock, official, slot, pushed, followup>>
telegram == <<outbox, shown, silenced, calls, mutes>>
vars == <<now, memory, ledger, native, telegram, checked, owed, faults>>

NoSide == "none"
NoCycle == [at |-> 0]
NoVerdict == [count |-> 0]
NoSlot == "none"
NoFollowup == [status |-> "none"]

Step(op) == [op |-> op]
StepOf(op, a) == [op |-> op, a |-> a]
SentStep(op, a, mid) == [op |-> op, a |-> a, mid |-> mid]
Steps ==
    [op : {"report", "claim", "send", "unlock", "followups", "reconcile"}]
    \cup [op : {"record", "observe", "pending", "slot", "push", "arm",
                "check", "consume"}, a : Assets]
    \cup [op : {"credit"}, a : Assets, mid : BOOLEAN, arms : BOOLEAN]
    \cup [op : {"interval", "entry"}, a : Assets, mid : BOOLEAN]

Init ==
    /\ now = 0
    /\ cycle = [p \in Processes |-> NoCycle] /\ todo = [p \in Processes |-> <<>>]
    /\ verdict = [p \in Processes |-> NoVerdict]
    /\ cache = [p \in Processes |-> [a \in Assets |-> NoSide]] /\ gone = {}
    /\ predicted = [a \in Assets |-> NoSide]
    /\ lock = FALSE /\ official = {}
    /\ slot = NoSlot /\ pushed = {} /\ followup = [a \in Assets |-> NoFollowup]
    /\ native = [a \in Assets |-> "absent"]
    /\ outbox = "absent" /\ shown = FALSE /\ silenced = FALSE /\ checked = {}
    /\ calls = 0 /\ mutes = 0 /\ owed = FALSE /\ faults = 0

Injects(fault) == fault \in Faults /\ faults < MaxFaults /\ faults' = faults + 1

-----------------------------------------------------------------------------
(* A cycle.                                                                *)

At(p, op) == todo[p] # <<>> /\ Head(todo[p]).op = op
Then(p, more) == todo' = [todo EXCEPT ![p] = more \o Tail(@)]
Seen(p) == cycle[p].view
Asset(p) == Head(todo[p]).a

InBand(t) == t < BandEnd

\* 15M does not deliver, so its cycles dispatch no follow-ups.
Delivers(t) == t < CloseAt \/ t >= LastTick

\* Predictions and the report belong to the band; a cycle always ends with
\* the dispatch of follow-ups and the reconciliation of deliveries.
StartCycle(p) ==
    /\ todo[p] = <<>> /\ p \notin gone
    /\ \E v \in Views :
         /\ cycle' = [cycle EXCEPT ![p] = [at |-> now, view |-> v]]
         /\ todo' = [todo EXCEPT ![p] =
              (IF ~InBand(now) THEN <<>>
               ELSE [i \in DOMAIN v.rank |-> StepOf("record", v.rank[i])] \o <<Step("report")>>)
              \o (IF Delivers(now) THEN <<Step("followups")>> ELSE <<>>)
              \o <<Step("reconcile")>>]
    /\ UNCHANGED <<now, verdict, cache, gone, ledger, native, telegram, checked, owed, faults>>

BugOriginal(p, a) == Seen(p).side[a]
\* The side the ledger holds for this asset once this process has tried to
\* insert its own.
Original(p, a) ==
    IF cache[p][a] # NoSide THEN cache[p][a]
    ELSE IF predicted[a] = NoSide THEN Seen(p).side[a] ELSE predicted[a]

\* record_prediction inserts once; nothing updates the side it holds.
RecordPrediction(p) ==
    /\ At(p, "record")
    /\ LET a == Asset(p)
           recordable == a \in Seen(p).canon
           inserted == recordable /\ cache[p][a] = NoSide /\ predicted[a] = NoSide
       IN /\ Then(p, IF inserted THEN <<StepOf("observe", a)>> ELSE <<>>)
          /\ predicted' = IF inserted THEN [predicted EXCEPT ![a] = Seen(p).side[a]]
                          ELSE predicted
          /\ cache' = IF recordable THEN [cache EXCEPT ![p][a] = Original(p, a)] ELSE cache
    /\ UNCHANGED <<now, cycle, verdict, gone, lock, official, slot, pushed, followup,
                   native, telegram, checked, owed, faults>>

\* The shadow's paired row is a second database, written after the first.
ObserveShadow(p) ==
    /\ At(p, "observe") /\ Then(p, <<>>)
    /\ native' = [native EXCEPT ![Asset(p)] = IF @ = "absent" THEN "unsent" ELSE @]
    /\ UNCHANGED <<now, cycle, verdict, cache, gone, ledger, telegram, checked, owed, faults>>

-----------------------------------------------------------------------------
(* The official report.                                                    *)

\* The best pick, its side and whether it is an entry.
Signature(v) == <<v.best, v.side[v.best], v.best \in v.entry>>

\* Past the number of cycles required, the count is not told apart.
Counted(p) ==
    LET old == verdict[p]
        same == old # NoVerdict /\ old.signature = Signature(Seen(p))
    IN [signature |-> Signature(Seen(p)),
        count |-> IF ~same THEN 1
                  ELSE IF old.count = StableCycles THEN StableCycles ELSE old.count + 1]

BugSettled(t, count) == t < ExpireAt /\ t >= MarkAt /\ count >= StableCycles
\* _decision_settled, in its order: expired, forced, held until the mark, stable.
Settled(t, count) ==
    /\ t < ExpireAt
    /\ \/ t >= ForceAt
       \/ t >= MarkAt /\ count >= StableCycles

\* The window's key is the close of the top pick's contract.
KeyKnown(v) == v.rank # <<>> /\ v.rank[1] \in v.canon

\* Within one window the minimum-gap guard reads the row the lock reads.
ConsiderReport(p) ==
    /\ At(p, "report")
    /\ LET v == Seen(p)
           counted == IF v.rank = <<>> THEN verdict[p] ELSE Counted(p)
       IN /\ verdict' = [verdict EXCEPT ![p] = counted]
          /\ Then(p, IF /\ v.rank # <<>> /\ Settled(cycle[p].at, counted.count)
                        /\ KeyKnown(v) /\ ~lock
                     THEN <<Step("claim")>> ELSE <<>>)
    /\ UNCHANGED <<now, cycle, cache, gone, ledger, native, telegram, checked, owed, faults>>

BugClaimed == TRUE
\* INSERT OR IGNORE made the row.
Claimed == ~lock

ClaimReport(p) ==
    /\ At(p, "claim")
    /\ Then(p, IF Claimed THEN <<Step("send")>> ELSE <<>>)
    /\ lock' = TRUE
    /\ UNCHANGED <<now, cycle, verdict, cache, gone, predicted, official, slot,
                   pushed, followup, native, telegram, checked, owed, faults>>

FirstEntry(v, i) == v.rank[i] \in v.entry /\ \A j \in 1..(i - 1) : v.rank[j] \notin v.entry

BugArms(v, i) == v.rank[i] \in v.entry
\* entry_armed: the highest-ranked entry only.
Arms(v, i) == FirstEntry(v, i)

\* What a delivered report does for each pick: credit it, then record it.
DeliveredSteps(v, mid) ==
    [i \in DOMAIN v.rank |->
       [op |-> "credit", a |-> v.rank[i], mid |-> mid, arms |-> Arms(v, i)]]
PickSteps(v, credit) ==
    LET a == credit.a IN
      <<SentStep("interval", a, credit.mid)>>
      \o (IF a \in v.entry THEN <<SentStep("entry", a, credit.mid)>> ELSE <<>>)
      \o (IF credit.arms THEN <<StepOf("slot", a), StepOf("push", a), StepOf("arm", a)>>
          ELSE <<>>)

PendingSteps(v) == [i \in DOMAIN v.rank |-> StepOf("pending", v.rank[i])]

\* send_with_result under the report's key: a row already SENT answers
\* "delivered" without a message id; otherwise the report is queued and tried.
SendReport(p) ==
    /\ At(p, "send") /\ calls' = calls + 1
    /\ \/ /\ outbox = "SENT"
          /\ Then(p, DeliveredSteps(Seen(p), FALSE))
          /\ UNCHANGED <<outbox, shown, silenced, mutes, faults>>
       \/ /\ outbox # "SENT"
          /\ Then(p, DeliveredSteps(Seen(p), TRUE))
          /\ outbox' = "SENT" /\ shown' = TRUE
          /\ UNCHANGED <<silenced, mutes, faults>>
       \/ /\ outbox # "SENT" /\ Injects("mute")
          /\ Then(p, <<Step("unlock")>>)
          /\ outbox' = "SENT" /\ mutes' = mutes + 1
          /\ silenced' = TRUE /\ UNCHANGED shown
       \/ /\ outbox # "SENT" /\ Injects("fail")
          /\ Then(p, PendingSteps(Seen(p)))
          /\ outbox' = "QUEUED" /\ UNCHANGED <<shown, silenced, mutes>>
       \/ /\ outbox # "SENT" /\ Injects("lost")
          /\ Then(p, PendingSteps(Seen(p)))
          /\ outbox' = "QUEUED" /\ shown' = TRUE /\ UNCHANGED <<silenced, mutes>>
       \/ /\ Injects("unqueued")
          /\ Then(p, PendingSteps(Seen(p)))
          /\ UNCHANGED <<outbox, shown, silenced, mutes>>
    /\ UNCHANGED <<now, cycle, verdict, cache, gone, ledger, native, checked, owed>>

\* Only a muted send gives the window back.
UnlockReport(p) ==
    /\ At(p, "unlock") /\ Then(p, <<>>)
    /\ lock' = FALSE
    /\ UNCHANGED <<now, cycle, verdict, cache, gone, predicted, official, slot,
                   pushed, followup, native, telegram, checked, owed, faults>>

\* mark_native_pending, mark_native_sent: rows not yet SENT.
MarkPending(p) ==
    /\ At(p, "pending") /\ Then(p, <<>>)
    /\ native' = [native EXCEPT ![Asset(p)] = IF @ = "unsent" THEN "PENDING" ELSE @]
    /\ UNCHANGED <<now, cycle, verdict, cache, gone, ledger, telegram, checked, owed, faults>>

MarkSent(p) ==
    /\ At(p, "credit") /\ Then(p, PickSteps(Seen(p), Head(todo[p])))
    /\ native' = [native EXCEPT ![Asset(p)] = IF @ = "absent" THEN @ ELSE "SENT"]
    /\ UNCHANGED <<now, cycle, verdict, cache, gone, ledger, telegram, checked, owed, faults>>

BugIsOfficial(step, at) == at < CloseAt
\* No message id, or sent at or after the close: not official.
IsOfficial(step, at) == step.mid /\ at < CloseAt

RecordSent(p) ==
    /\ At(p, "interval") \/ At(p, "entry")
    /\ Then(p, <<>>)
    /\ LET step == Head(todo[p]) IN
         official' = IF IsOfficial(step, cycle[p].at)
                     THEN official \cup {<<step.a, step.op>>} ELSE official
    /\ UNCHANGED <<now, cycle, verdict, cache, gone, predicted, lock, slot,
                   pushed, followup, native, telegram, checked, owed, faults>>

\* claim_pushed_slot: refused while another contract of this window holds it.
ClaimSlot(p) ==
    /\ At(p, "slot") /\ Then(p, <<>>)
    /\ slot' = IF slot = NoSlot THEN Asset(p) ELSE slot
    /\ UNCHANGED <<now, cycle, verdict, cache, gone, predicted, lock, official,
                   pushed, followup, native, telegram, checked, owed, faults>>

MarkPushed(p) ==
    /\ At(p, "push") /\ Then(p, <<>>)
    /\ pushed' = IF predicted[Asset(p)] = NoSide THEN pushed ELSE pushed \cup {Asset(p)}
    /\ UNCHANGED <<now, cycle, verdict, cache, gone, predicted, lock, official,
                   slot, followup, native, telegram, checked, owed, faults>>

ArmFollowup(p) ==
    /\ At(p, "arm") /\ Then(p, <<>>)
    /\ followup' = [followup EXCEPT ![Asset(p)] =
                      IF @ = NoFollowup
                      THEN [status |-> "armed", due |-> cycle[p].at + FollowDelay] ELSE @]
    /\ UNCHANGED <<now, cycle, verdict, cache, gone, predicted, lock, official,
                   slot, pushed, native, telegram, checked, owed, faults>>

-----------------------------------------------------------------------------
(* After the report.                                                       *)

BugDue(t) == {a \in Assets : followup[a].status = "armed" /\ followup[a].due = t}
Due(t) == {a \in Assets : followup[a].status = "armed" /\ followup[a].due <= t}

IsLive(p, a) == cycle[p].at < CloseAt /\ a \in Seen(p).canon

\* due_followups; a contract the cycle does not see is consumed unsent.
ReadDue(p) ==
    /\ At(p, "followups")
    /\ \E order \in SetToSeqs(Due(cycle[p].at)) :
         Then(p, [k \in DOMAIN order |->
                    StepOf(IF IsLive(p, order[k]) THEN "check" ELSE "consume", order[k])])
    /\ UNCHANGED <<now, cycle, verdict, cache, gone, ledger, native, telegram, checked, owed, faults>>

SendFollowup(p) ==
    /\ At(p, "check") /\ Then(p, <<StepOf("consume", Asset(p))>>)
    /\ checked' = checked \cup {Asset(p)}
    /\ UNCHANGED <<now, cycle, verdict, cache, gone, ledger, native, telegram, owed, faults>>

ConsumeFollowup(p) ==
    /\ At(p, "consume") /\ Then(p, <<>>)
    /\ followup' = [followup EXCEPT ![Asset(p)].status = "consumed"]
    /\ UNCHANGED <<now, cycle, verdict, cache, gone, predicted, lock, official,
                   slot, pushed, native, telegram, checked, owed, faults>>

BugPromoted(status) == status # "DEAD_LETTER"
Promoted(status) == status = "SENT"

\* reconcile_native_delivery: picks tagged with the report's key take the
\* outbox's verdict, DELIVERY_FAILED ones too.
Reconciled(a) ==
    IF native[a] \notin {"PENDING", "DELIVERY_FAILED"} THEN native[a]
    ELSE IF Promoted(outbox) THEN "SENT"
    ELSE IF outbox = "DEAD_LETTER" THEN "DELIVERY_FAILED"
    ELSE native[a]

\* A whole cycle of the forced zone had a report to send.
LastChance(p) ==
    LET c == cycle[p] IN c.at >= ForceAt /\ InBand(c.at) /\ KeyKnown(c.view)

\* What a process keeps in memory is lost; an outgoing one does not return.
Forget(p) ==
    /\ verdict' = [verdict EXCEPT ![p] = NoVerdict]
    /\ cache' = [cache EXCEPT ![p] = [a \in Assets |-> NoSide]]
    /\ gone' = gone \cup ({p} \cap Outgoing)

\* The cycle is over, and with it an outgoing process.
EndCycle(p) ==
    /\ cycle' = [cycle EXCEPT ![p] = NoCycle] /\ todo' = [todo EXCEPT ![p] = <<>>]
    /\ IF p \in Outgoing THEN Forget(p) ELSE UNCHANGED <<verdict, cache, gone>>

Reconcile(p) ==
    /\ At(p, "reconcile") /\ EndCycle(p)
    /\ native' = [a \in Assets |-> Reconciled(a)]
    /\ owed' = (owed \/ LastChance(p))
    /\ UNCHANGED <<now, ledger, telegram, checked, faults>>

-----------------------------------------------------------------------------
(* The environment.                                                        *)

\* The outbox's worker retries until Telegram takes the report, the notifier
\* mutes it, or the attempts run out.
WorkerDelivers ==
    /\ outbox = "QUEUED"
    /\ \/ outbox' = "SENT" /\ shown' = TRUE /\ UNCHANGED silenced
       \/ /\ "mute" \in Faults
          /\ outbox' = "SENT" /\ silenced' = TRUE /\ UNCHANGED shown
       \/ /\ "fail" \in Faults
          /\ outbox' = "DEAD_LETTER" /\ UNCHANGED <<shown, silenced>>
    /\ UNCHANGED <<now, memory, ledger, native, checked, calls, mutes, owed, faults>>

\* The process dies in its cycle and starts again with an empty memory.
Restart(p) ==
    /\ todo[p] # <<>> /\ Injects("crash")
    /\ cycle' = [cycle EXCEPT ![p] = NoCycle] /\ todo' = [todo EXCEPT ![p] = <<>>]
    /\ Forget(p)
    /\ UNCHANGED <<now, ledger, native, telegram, checked, owed>>

\* A database error ends the cycle where it is; the shadow's own are swallowed.
CycleFails(p) ==
    /\ todo[p] # <<>> /\ Injects("error")
    /\ Head(todo[p]).op \notin {"observe", "pending", "credit", "reconcile"}
    /\ EndCycle(p)
    /\ UNCHANGED <<now, ledger, native, telegram, checked, owed>>

Tick ==
    /\ now < LastTick /\ now' = now + 1
    /\ \A p \in Processes : todo[p] # <<>> => now < cycle[p].at + MaxLag
    /\ UNCHANGED <<memory, ledger, native, telegram, checked, owed, faults>>

CycleStep(p) ==
    \/ RecordPrediction(p) \/ ObserveShadow(p)
    \/ ConsiderReport(p) \/ ClaimReport(p) \/ SendReport(p) \/ UnlockReport(p)
    \/ MarkPending(p) \/ MarkSent(p) \/ RecordSent(p)
    \/ ClaimSlot(p) \/ MarkPushed(p) \/ ArmFollowup(p)
    \/ ReadDue(p) \/ SendFollowup(p) \/ ConsumeFollowup(p) \/ Reconcile(p)

Next ==
    \/ \E p \in Processes : StartCycle(p) \/ CycleStep(p) \/ CycleFails(p) \/ Restart(p)
    \/ WorkerDelivers
    \/ Tick

\* The live loop and the outbox's worker thread never stop; time passes.
Fairness ==
    /\ \A p \in Processes : WF_vars(StartCycle(p) \/ CycleStep(p))
    /\ WF_vars(WorkerDelivers)
    /\ WF_vars(Tick)

Spec == Init /\ [][Next]_vars /\ Fairness

-----------------------------------------------------------------------------
(* What the report promises.                                               *)

TypeOK ==
    /\ now \in 0..LastTick
    /\ cycle \in [Processes -> {NoCycle} \cup [at : 0..LastTick, view : Views]]
    /\ todo \in [Processes -> Seq(Steps)]
    /\ \A p \in Processes : todo[p] = <<>> <=> cycle[p] = NoCycle
    /\ verdict \in [Processes -> {NoVerdict} \cup
         [signature : Assets \X Sides \X BOOLEAN, count : 1..StableCycles]]
    /\ cache \in [Processes -> [Assets -> Sides \cup {NoSide}]] /\ gone \subseteq Outgoing
    /\ predicted \in [Assets -> Sides \cup {NoSide}]
    /\ lock \in BOOLEAN /\ official \subseteq Assets \X {"interval", "entry"}
    /\ slot \in Assets \cup {NoSlot} /\ pushed \subseteq Assets
    /\ followup \in [Assets -> {NoFollowup} \cup
         [status : {"armed", "consumed"}, due : Nat]]
    /\ native \in [Assets -> {"absent", "unsent", "PENDING", "SENT", "DELIVERY_FAILED"}]
    /\ outbox \in {"absent", "QUEUED", "SENT", "DEAD_LETTER"}
    /\ shown \in BOOLEAN /\ silenced \in BOOLEAN /\ checked \subseteq Assets
    /\ calls \in Nat /\ mutes \in Nat /\ owed \in BOOLEAN /\ faults \in 0..MaxFaults

\* However many processes and restarts, the report is sent once, and again
\* only after a send the notifier muted.
OneReport == calls <= 1 + mutes

\* A row of the official record, which nothing deletes, is of a report
\* Telegram showed.
OfficialMeansShown == official # {} => shown

\* Unless the notifier muted the report, the shadow counts a pick as sent only
\* when the report was shown, and as failed only when the outbox gave it up.
CreditFollowsTelegram ==
    \A a \in Assets :
        /\ native[a] = "SENT" => shown \/ silenced
        /\ native[a] = "DELIVERY_FAILED" => outbox = "DEAD_LETTER"

\* A process compares its cycles with the side on record, whichever process
\* recorded it and whatever it has shown since.
ComparesWithRecord ==
    \A p \in Processes, a \in Assets :
        cache[p][a] # NoSide => cache[p][a] = predicted[a]

\* One active entry per timeframe: at most one contract gets a follow-up, it
\* holds the slot, and no other contract's follow-up is sent.
OneActiveEntry ==
    \A a \in Assets :
        followup[a] # NoFollowup =>
            /\ slot = a
            /\ \A b \in Assets \ {a} : followup[b] = NoFollowup
            /\ checked \subseteq {a}

\* A band never closes without its report: once a whole cycle of the forced
\* zone has had one to send, the window is claimed, or was muted.
BandClosesWithReport == owed => lock \/ mutes > 0

LooseEnd(a) ==
    \/ native[a] = "PENDING" /\ outbox # "absent"
    \/ followup[a].status = "armed"

\* Neither kind of loose end lasts: a pick left to the outbox gets its final
\* status, and an armed follow-up is sent or consumed.
LooseEndsSettle == []<>(\A a \in Assets : ~LooseEnd(a))
=============================================================================
