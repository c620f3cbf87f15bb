---------------------------- MODULE UltoimRunner ----------------------------
(***************************************************************************)
(* The UltoIM v2 runner over one settlement window.  The live loop         *)
(* enqueues one snapshot per cycle; a single worker thread takes the       *)
(* snapshots in order, decides each entry mark once, records and alerts    *)
(* the picks, offers them to the executor, and watches the suggested       *)
(* contracts for a flip.  Locks, rows and warnings are committed one       *)
(* statement at a time in SQLite; the queue, the debounce and the job in   *)
(* progress are memory.                                                    *)
(***************************************************************************)
EXTENDS Naturals, Sequences, FiniteSets, FiniteSetsExt, SequencesExt

CONSTANTS
    Tickers, Views,    \* the contracts, and the gate verdicts each one shows
    Intervals, Mark, Band,          \* entry marks and the ticks of their bands
    ResearchOnly, Selective, YesLive,     \* kinds of marks
    Excluded,          \* contracts the selective picker leaves out
    TopN, SelectiveTopN, YesNotify, OutboxOn,
    WatchFrom, ConfirmCycles, ConfirmTicks, PruneAfter,
    CloseAt, LastTick, QueueMax,
    Faults, MaxFaults

View == [side : {"NO", "YES"}, fired : BOOLEAN, notify : BOOLEAN, decisive : BOOLEAN]

ASSUME RunnerConstants ==
    /\ IsFiniteSet(Tickers) /\ IsFiniteSet(Intervals)
    /\ Views \in [Tickers -> SUBSET View]
    /\ Mark \in [Intervals -> Nat] /\ Band \in [Intervals -> SUBSET Nat]
    /\ ResearchOnly \cup Selective \cup YesLive \subseteq Intervals
    /\ TopN \in Nat \ {0} /\ SelectiveTopN \in Nat \ {0}
    /\ {WatchFrom, ConfirmCycles, ConfirmTicks, PruneAfter, CloseAt, LastTick,
        QueueMax, MaxFaults} \subseteq Nat
    /\ Faults \subseteq {"crash", "error"}

VARIABLES
    now,        \* wall clock, in ticks
    jobs,       \* queued snapshots [at, cands]
    job, toDecide, todo, act, toWatch,      \* the job in progress
    flip,       \* _exit_state: the debounce of each contract
    reportLock, alertLock, rows, warnings,  \* the ledger
    outbox,     \* the persistent outbox's row for each exit warning
    offers, yesOffers, cards, exits,        \* calls that left the runner
    yesPlaced,  \* live YES buys that the YES executor answered as placed
    calm,       \* last tick a processed snapshot showed no decisive flip
    lost, unpriced,  \* contracts a fault cut off; exits without a price
    faults

queue == <<now, jobs>>
worker == <<job, toDecide, todo, act, toWatch>>
ledger == <<reportLock, alertLock, rows, warnings>>
calls == <<offers, yesOffers, yesPlaced, cards, exits>>
ghosts == <<calm, lost, unpriced, faults>>
vars == <<queue, worker, flip, ledger, outbox, calls, ghosts>>

\* Only a delivered candidate fires; only a selective list is left to choice.
Pick == {p \in [t : Tickers, i : Intervals, side : {"NO", "YES"}, fired : BOOLEAN,
                suppress : BOOLEAN,
                kind : {"DELIVERED_CANDIDATE", "RESEARCH_YES", "YES_LIVE"}] :
           /\ p.fired => p.kind = "DELIVERED_CANDIDATE"
           /\ p.suppress => p.i \in Selective /\ SelectiveTopN > 1}
Job == [at : Nat, cands : UNION {[S -> View] : S \in SUBSET Tickers}]

NoJob == [at |-> 0, cands |-> <<>>]   \* an enqueued snapshot has a contract
NoAct == [op |-> "none"]
NoRow == [status |-> "none"]
NoFlip == [count |-> 0, since |-> 0]

WarningStatus == {"none", "PENDING", "QUEUED", "SENT", "MUTED", "DELIVERY_FAILED", "EXPIRED"}
Sequel == {"record", "mark_recorded", "claim", "on_fire", "send", "mark",
           "yes", "yes_claim"}
\* ANSWERED stands for SENT, MUTED and DELIVERY_FAILED: nothing reads which.
Act == [op : Sequel, pick : Pick]
       \cup [op : {"warn_send", "warn_mark", "on_exit"}, t : Tickers,
             status : WarningStatus]
Row == [fired : BOOLEAN, side : {"NO", "YES"},
        status : {"PENDING", "RESEARCH", "RECORDED", "ANSWERED"}]

Init ==
    /\ now = 0 /\ jobs = <<>>
    /\ job = NoJob /\ toDecide = {} /\ todo = <<>> /\ act = NoAct /\ toWatch = {}
    /\ flip = [t \in Tickers |-> NoFlip]
    /\ reportLock = {} /\ alertLock = {}
    /\ rows = [ti \in Tickers \X Intervals |-> NoRow]
    /\ warnings = [t \in Tickers |-> "none"]
    /\ outbox = [t \in Tickers |-> "none"]
    /\ offers = [t \in Tickers |-> 0]
    /\ yesOffers = [t \in Tickers |-> 0] /\ yesPlaced = [t \in Tickers |-> 0]
    /\ cards = [t \in Tickers |-> 0] /\ exits = [t \in Tickers |-> 0]
    /\ calm = [t \in Tickers |-> 0] /\ lost = {} /\ unpriced = {} /\ faults = 0

-----------------------------------------------------------------------------
(* The live loop.                                                          *)

HasRoom == Len(jobs) < QueueMax

\* A cycle of the loop: the contracts with a prediction form a snapshot; a
\* full queue drops it, and with no such contract nothing is enqueued.
Observe ==
    /\ now < LastTick /\ now' = now + 1
    /\ \E shown \in SUBSET Tickers :
       \E cands \in {c \in [shown -> UNION {Views[t] : t \in shown}] :
                       \A t \in shown : c[t] \in Views[t]} :
          jobs' = IF shown # {} /\ HasRoom
                  THEN Append(jobs, [at |-> now', cands |-> cands]) ELSE jobs
    /\ UNCHANGED <<worker, flip, ledger, outbox, calls, ghosts>>

-----------------------------------------------------------------------------
(* The worker: one job at a time, one durable statement per step.          *)

\* The entry pass covers the marks whose band the snapshot falls in; the
\* exit pass, the contracts seen after the watch starts.
TakeJob ==
    /\ job = NoJob /\ jobs # <<>>
    /\ LET j == Head(jobs) IN
         /\ job' = j
         /\ toDecide' = {i \in Intervals : j.at \in Band[i]}
         /\ toWatch' = IF j.at < WatchFrom THEN {} ELSE DOMAIN j.cands
         /\ flip' = [t \in Tickers |->
                       IF flip[t] # NoFlip /\ flip[t].since + PruneAfter < j.at
                       THEN NoFlip ELSE flip[t]]
    /\ jobs' = Tail(jobs)
    /\ UNCHANGED <<now, todo, act, ledger, outbox, calls, ghosts>>

\* The first n of S in the picker's order, whatever the prices make it,
\* without those the mark has taken already.
Ranked(S, n, taken) ==
    UNION {SetToSeqs(T \ taken) : T \in kSubset(Min({n, Cardinality(S)}), S)}

TickersOf(picks) == {picks[k].t : k \in DOMAIN picks}
PicksOf(ts, i, c, fired, suppress, kind) ==
    [k \in DOMAIN ts |-> [t |-> ts[k], i |-> i, side |-> c[ts[k]].side,
                          fired |-> fired, suppress |-> suppress, kind |-> kind]]

Fired(c) == {t \in DOMAIN c : c[t].fired}
SideYes(c) == {t \in DOMAIN c : c[t].side = "YES"}

\* The bounded list of a selective mark: firing NO and confirmed YES.
SelectiveChoices(c) == {t \in DOMAIN c \ Excluded :
                 \/ c[t].side = "NO" /\ c[t].fired
                 \/ c[t].side = "YES" /\ c[t].notify}

\* What the mark records first: its top picks, or the single best for research.
MainPicks(i, c) ==
    LET best == {PicksOf(<<t>>, i, c, FALSE, FALSE, "DELIVERED_CANDIDATE") : t \in DOMAIN c}
    IN  IF i \in ResearchOnly THEN
            IF Fired(c) = {} THEN best
            ELSE {PicksOf(ts, i, c, FALSE, FALSE, "DELIVERED_CANDIDATE") :
                    ts \in Ranked(Fired(c), TopN, {})}
        ELSE IF i \in Selective THEN
            IF SelectiveChoices(c) = {} THEN best
            ELSE {PicksOf(ts, i, c, TRUE, SelectiveTopN > 1, "DELIVERED_CANDIDATE") :
                    ts \in Ranked(SelectiveChoices(c), SelectiveTopN, {})}
        ELSE IF Fired(c) = {} THEN best
             ELSE {PicksOf(ts, i, c, TRUE, FALSE, "DELIVERED_CANDIDATE") :
                     ts \in Ranked(Fired(c), TopN, {})}

\* Paper YES cards, over the contracts the mark has not delivered already.
NotifyPicks(i, c, taken) ==
    IF ~YesNotify \/ i \in ResearchOnly \cup Selective THEN {<<>>}
    ELSE {PicksOf(ts, i, c, TRUE, FALSE, "DELIVERED_CANDIDATE") :
            ts \in Ranked({t \in DOMAIN c : c[t].notify}, TopN, taken)}

\* The best YES is recorded for research unless it was delivered.
ResearchYes(i, c, taken) ==
    IF i \in ResearchOnly \/ SideYes(c) = {} THEN {<<>>}
    ELSE {IF t \in taken THEN <<>>
          ELSE PicksOf(<<t>>, i, c, FALSE, FALSE, "RESEARCH_YES") : t \in SideYes(c)}

\* The live YES buys go to the separate YES executor.
LiveYes(i, c, main) ==
    IF i \notin YesLive \/ i \in ResearchOnly THEN {<<>>}
    ELSE {PicksOf(ts, i, c, FALSE, FALSE, "YES_LIVE") :
            ts \in SetToSeqs(IF i \in Selective
                             THEN TickersOf(main) \cap SideYes(c) \cap SelectiveChoices(c)
                             ELSE SideYes(c))}

\* A mark is decided once per window, a contract alerted once per window
\* and namespace; both locks are durable.
ReportLocked(i) == i \in reportLock

BugAlertLocked(t, space) == FALSE
AlertLocked(t, space) == <<t, space>> \in alertLock

\* The report lock is committed before any pick is recorded.
DecideInterval(i) ==
    /\ i \in toDecide /\ act = NoAct /\ todo = <<>>
    /\ \A j \in toDecide : Mark[j] <= Mark[i]
    /\ toDecide' = toDecide \ {i}
    /\ IF ReportLocked(i) THEN UNCHANGED <<reportLock, todo>>
       ELSE /\ reportLock' = reportLock \cup {i}
            /\ \E main \in MainPicks(i, job.cands) :
               LET taken == IF i \in Selective /\ SelectiveChoices(job.cands) = {}
                            THEN {} ELSE TickersOf(main) IN
               \E extra \in NotifyPicks(i, job.cands, taken) :
               \E yes \in ResearchYes(i, job.cands, taken \cup TickersOf(extra)) :
               \E live \in LiveYes(i, job.cands, main) :
                  todo' = main \o extra \o yes \o live
    /\ UNCHANGED <<queue, job, act, toWatch, flip, alertLock, rows, warnings,
                   outbox, calls, ghosts>>

StartPick ==
    /\ act = NoAct /\ todo # <<>>
    /\ LET p == Head(todo) IN
         act' = [op |-> IF p.kind = "YES_LIVE" THEN "yes" ELSE "record",
                 pick |-> p]
    /\ todo' = Tail(todo)
    /\ UNCHANGED <<queue, job, toDecide, toWatch, flip, ledger, outbox, calls, ghosts>>

Doing(op) == act.op = op
Then(op) == act' = [act EXCEPT !.op = op]
workerRest == <<job, toDecide, todo, toWatch>>

\* UNIQUE(model_version, ticker, interval): a duplicate row ends the pick.
RecordDecision ==
    /\ Doing("record")
    /\ LET p == act.pick IN
         IF rows[<<p.t, p.i>>] # NoRow THEN act' = NoAct /\ UNCHANGED rows
         ELSE /\ rows' = [rows EXCEPT ![<<p.t, p.i>>] =
                    [fired |-> p.fired, side |-> p.side,
                     status |-> IF p.kind = "RESEARCH_YES" THEN "RESEARCH" ELSE "PENDING"]]
              /\ IF p.kind = "RESEARCH_YES" THEN act' = NoAct
                 ELSE Then(IF p.fired THEN "claim" ELSE "mark_recorded")
    /\ UNCHANGED <<queue, workerRest, flip, reportLock, alertLock, warnings,
                   outbox, calls, ghosts>>

BugMarkRow(status) == UNCHANGED rows
MarkRow(status) == rows' = [rows EXCEPT ![<<act.pick.t, act.pick.i>>].status = status]

MarkRecorded ==
    /\ Doing("mark_recorded")
    /\ MarkRow("RECORDED") /\ act' = NoAct
    /\ UNCHANGED <<queue, workerRest, flip, reportLock, alertLock, warnings,
                   outbox, calls, ghosts>>

\* One alert per contract and window, across marks and restarts.
ClaimAlert ==
    /\ Doing("claim")
    /\ alertLock' = alertLock \cup {<<act.pick.t, "NO">>}
    /\ Then(IF AlertLocked(act.pick.t, "NO") THEN "mark_recorded" ELSE "on_fire")
    /\ UNCHANGED <<queue, workerRest, flip, reportLock, rows, warnings, outbox, calls, ghosts>>

BugReachesExecutor(p) == FALSE
\* Only a NO that is not left to the reader's choice reaches the executor.
ReachesExecutor(p) == p.side = "NO" /\ ~p.suppress

\* The order goes out before the card.
OnFire ==
    /\ Doing("on_fire")
    /\ offers' = IF ReachesExecutor(act.pick)
                 THEN [offers EXCEPT ![act.pick.t] = @ + 1] ELSE offers
    /\ Then("send")
    /\ UNCHANGED <<queue, workerRest, flip, ledger, outbox, yesOffers, yesPlaced, cards,
                   exits, ghosts>>

SendCard ==
    /\ Doing("send")
    /\ Then("mark")
    /\ cards' = [cards EXCEPT ![act.pick.t] = @ + 1]
    /\ UNCHANGED <<queue, workerRest, flip, ledger, outbox, offers, yesOffers, yesPlaced,
                   exits, ghosts>>

MarkDelivery ==
    /\ Doing("mark")
    /\ MarkRow("ANSWERED") /\ act' = NoAct
    /\ UNCHANGED <<queue, workerRest, flip, reportLock, alertLock, warnings,
                   outbox, calls, ghosts>>

\* The live YES buy is offered first and its lock claimed only on a placement.
OfferYes ==
    /\ Doing("yes")
    /\ LET t == act.pick.t IN
         IF AlertLocked(t, "YES") THEN act' = NoAct /\ UNCHANGED <<yesOffers, yesPlaced>>
         ELSE /\ yesOffers' = [yesOffers EXCEPT ![t] = @ + 1]
              /\ \/ Then("yes_claim") /\ yesPlaced' = [yesPlaced EXCEPT ![t] = @ + 1]
                 \/ act' = NoAct /\ UNCHANGED yesPlaced
    /\ UNCHANGED <<queue, workerRest, flip, ledger, outbox, offers, cards, exits, ghosts>>

ClaimYes ==
    /\ Doing("yes_claim")
    /\ alertLock' = alertLock \cup {<<act.pick.t, "YES">>}
    /\ act' = NoAct
    /\ UNCHANGED <<queue, workerRest, flip, reportLock, rows, warnings, outbox, calls, ghosts>>

-----------------------------------------------------------------------------
(* The exit pass, after every mark of the snapshot is decided.             *)

\* The earliest suggestion of the contract, by mark and then by time.
BugFiredRows(t) == {i \in Intervals : rows[<<t, i>>] # NoRow}
FiredRows(t) == {i \in Intervals : rows[<<t, i>>] # NoRow /\ rows[<<t, i>>].fired}
EntryMark(t) == CHOOSE i \in FiredRows(t) :
                  \A j \in FiredRows(t) : Mark[j] < Mark[i] \/ j = i
WarningRecorded(t) == warnings[t] # "none"

FlipSeen(t, c) == c.side # rows[<<t, EntryMark(t)>>].side /\ c.decisive

BugDebounced(t, c, at) ==
    IF flip[t] = NoFlip THEN IF FlipSeen(t, c) THEN [count |-> 1, since |-> at] ELSE NoFlip
    ELSE IF FlipSeen(t, c) THEN [flip[t] EXCEPT !.count = @ + 1] ELSE flip[t]

\* A snapshot that shows no decisive flip resets the count.
Debounced(t, c, at) ==
    IF ~FlipSeen(t, c) THEN NoFlip
    ELSE IF flip[t] = NoFlip THEN [count |-> 1, since |-> at]
    ELSE [flip[t] EXCEPT !.count = @ + 1]

Sustained(f, at) ==
    f # NoFlip /\ f.count >= ConfirmCycles /\ at >= f.since + ConfirmTicks

Watch(t) ==
    /\ t \in toWatch /\ toDecide = {} /\ todo = <<>> /\ act = NoAct
    /\ toWatch' = toWatch \ {t}
    /\ LET c == job.cands[t]
           entered == ~WarningRecorded(t) /\ FiredRows(t) # {}
           f == Debounced(t, c, job.at)
       IN  /\ calm' = [calm EXCEPT ![t] = IF entered /\ FlipSeen(t, c) THEN @ ELSE job.at]
           /\ flip' = [flip EXCEPT ![t] = IF WarningRecorded(t) THEN NoFlip
                                          ELSE IF entered THEN f ELSE @]
           /\ IF entered /\ Sustained(f, job.at)
              THEN /\ warnings' = [warnings EXCEPT ![t] = "PENDING"]
                   /\ act' = [op |-> "warn_send", t |-> t, status |-> "none"]
              ELSE UNCHANGED <<warnings, act>>
    /\ UNCHANGED <<queue, job, toDecide, todo, reportLock, alertLock, rows,
                   outbox, calls, lost, unpriced, faults>>

\* Sent directly, or enqueued in the outbox and tried once at once.
WarnSend ==
    /\ Doing("warn_send")
    /\ \E result \in {"SENT", "MUTED", "DELIVERY_FAILED"} :
         IF job.at >= CloseAt
         THEN act' = [act EXCEPT !.op = "warn_mark", !.status = "EXPIRED"] /\ UNCHANGED outbox
         ELSE IF ~OutboxOn
         THEN act' = [act EXCEPT !.op = "warn_mark", !.status = result] /\ UNCHANGED outbox
         ELSE /\ outbox' = [outbox EXCEPT ![act.t] =
                     IF result = "DELIVERY_FAILED" THEN "waiting" ELSE "SENT"]
              /\ act' = [act EXCEPT !.op = "warn_mark",
                     !.status = IF result = "DELIVERY_FAILED" THEN "QUEUED" ELSE result]
    /\ UNCHANGED <<queue, workerRest, flip, ledger, calls, ghosts>>

WarnMark ==
    /\ Doing("warn_mark")
    /\ warnings' = [warnings EXCEPT ![act.t] = act.status]
    /\ Then("on_exit")
    /\ UNCHANGED <<queue, workerRest, flip, reportLock, alertLock, rows, outbox,
                   calls, ghosts>>

\* The sale is offered last, and only when the snapshot priced the contract.
OnExit ==
    /\ Doing("on_exit")
    /\ \/ exits' = [exits EXCEPT ![act.t] = @ + 1] /\ UNCHANGED unpriced
       \/ unpriced' = unpriced \cup {act.t} /\ UNCHANGED exits
    /\ flip' = [flip EXCEPT ![act.t] = NoFlip]
    /\ act' = NoAct
    /\ UNCHANGED <<queue, workerRest, ledger, outbox, offers, yesOffers, yesPlaced,
                   cards, calm, lost, faults>>

FinishJob ==
    /\ job # NoJob /\ toDecide = {} /\ todo = <<>> /\ act = NoAct /\ toWatch = {}
    /\ job' = NoJob
    /\ UNCHANGED <<queue, toDecide, todo, act, toWatch, flip, ledger, outbox,
                   calls, ghosts>>

-----------------------------------------------------------------------------
(* The outbox, the reports that refresh from it, and the faults.           *)

\* The outbox closes every message it accepted, as Delivery states.
OutboxFinishes(t) ==
    /\ outbox[t] = "waiting"
    /\ \E end \in {"SENT", "DEAD_LETTER"} : outbox' = [outbox EXCEPT ![t] = end]
    /\ UNCHANGED <<queue, worker, flip, ledger, calls, ghosts>>

BugOutboxClosed(t) == outbox[t] = "SENT"
OutboxClosed(t) == outbox[t] \in {"SENT", "DEAD_LETTER"}

\* Any report of the warnings first credits the queued ones.
RefreshWarnings(t) ==
    /\ warnings[t] = "QUEUED" /\ OutboxClosed(t)
    /\ warnings' = [warnings EXCEPT ![t] =
                      IF outbox[t] = "SENT" THEN "SENT" ELSE "DELIVERY_FAILED"]
    /\ UNCHANGED <<queue, worker, flip, reportLock, alertLock, rows, outbox, calls, ghosts>>

\* The contracts whose remaining steps are in memory only.
InFlight == TickersOf(todo) \cup
            (IF act = NoAct THEN {}
             ELSE IF act.op \in Sequel THEN {act.pick.t} ELSE {act.t})
DropJob ==
    /\ job' = NoJob /\ toDecide' = {} /\ todo' = <<>> /\ act' = NoAct /\ toWatch' = {}
    /\ lost' = lost \cup InFlight

Crash ==
    /\ "crash" \in Faults /\ faults < MaxFaults
    /\ faults' = faults + 1
    /\ DropJob
    /\ jobs' = <<>> /\ flip' = [t \in Tickers |-> NoFlip]
    /\ UNCHANGED <<now, ledger, outbox, calls, calm, unpriced>>

\* A database statement raises: the worker logs it and drops the job; the
\* YES hook alone swallows it and the job goes on.
LedgerError ==
    /\ "error" \in Faults /\ faults < MaxFaults /\ job # NoJob
    /\ faults' = faults + 1
    /\ IF Doing("yes") \/ Doing("yes_claim")
       THEN act' = NoAct /\ lost' = lost \cup {act.pick.t} /\ UNCHANGED workerRest
       ELSE ~Doing("on_fire") /\ ~Doing("on_exit") /\ DropJob
    /\ UNCHANGED <<queue, flip, ledger, outbox, calls, calm, unpriced>>

WorkerStep ==
    \/ TakeJob \/ (\E i \in Intervals : DecideInterval(i)) \/ StartPick
    \/ RecordDecision \/ MarkRecorded \/ ClaimAlert \/ OnFire \/ SendCard \/ MarkDelivery
    \/ OfferYes \/ ClaimYes
    \/ (\E t \in Tickers : Watch(t)) \/ WarnSend \/ WarnMark \/ OnExit \/ FinishJob

Next ==
    \/ Observe
    \/ WorkerStep
    \/ \E t \in Tickers : OutboxFinishes(t) \/ RefreshWarnings(t)
    \/ Crash \/ LedgerError

Fairness ==
    /\ WF_vars(WorkerStep)
    /\ \A t \in Tickers : WF_vars(OutboxFinishes(t)) /\ WF_vars(RefreshWarnings(t))

Spec == Init /\ [][Next]_vars /\ Fairness

-----------------------------------------------------------------------------
TypeOK ==
    /\ now \in 0..LastTick
    /\ jobs \in Seq(Job) /\ Len(jobs) <= QueueMax
    /\ job \in Job /\ toDecide \subseteq Intervals
    /\ todo \in Seq(Pick) /\ act \in Act \cup {NoAct} /\ toWatch \subseteq Tickers
    /\ flip \in [Tickers -> [count : Nat, since : Nat]]
    /\ reportLock \subseteq Intervals /\ alertLock \subseteq Tickers \X {"NO", "YES"}
    /\ rows \in [Tickers \X Intervals -> Row \cup {NoRow}]
    /\ warnings \in [Tickers -> WarningStatus]
    /\ outbox \in [Tickers -> {"none", "waiting", "SENT", "DEAD_LETTER"}]
    /\ {offers, yesOffers, yesPlaced, cards, exits, calm} \subseteq [Tickers -> Nat]
    /\ lost \cup unpriced \subseteq Tickers /\ faults \in 0..MaxFaults

\* A contract reaches the executor at most once per window and at most one
\* card is sent for it, whatever marks pick it and wherever a restart or a
\* database error cuts the worker off.
AlertedOnce == \A t \in Tickers : offers[t] <= 1 /\ cards[t] <= 1

\* A contract whose alert was claimed is offered to the executor, unless its
\* suggestion is paper only or a fault cut its steps off.
PaperOnly(t) == \E i \in FiredRows(t) :
                  rows[<<t, i>>].side = "YES" \/ (i \in Selective /\ SelectiveTopN > 1)
ClaimReachesExecutor ==
    \A t \in Tickers \ lost :
       <<t, "NO">> \in alertLock =>
          offers[t] = 1 \/ PaperOnly(t) \/ (Doing("on_fire") /\ act.pick.t = t)

\* A row waits for its delivery status only while the worker is at it, unless
\* a fault cut its steps off.
PendingIsInHand ==
    \A t \in Tickers \ lost, i \in Intervals :
       rows[<<t, i>>].status = "PENDING" =>
          act.op \in Sequel /\ act.pick.t = t /\ act.pick.i = i

\* A contract is bought as a live YES at most once in a window, whatever marks
\* list it, unless a fault fell between its placement and its claim.
YesPlacedOnce == \A t \in Tickers \ lost : yesPlaced[t] <= 1

\* A live YES buy that was refused is offered again by the next snapshot of
\* the mark's band that lists the contract, as _maybe_execute_yes says of a
\* refusal ("retry next cycle").
YesIsRetried ==
    [][\A t \in Tickers, i \in YesLive :
          /\ i \in toDecide \ toDecide' /\ job' = job
          /\ yesOffers[t] > 0 /\ <<t, "YES">> \notin alertLock
          /\ \A main \in MainPicks(i, job.cands) :
             \A live \in LiveYes(i, job.cands, main) : t \in TickersOf(live)
          => t \in TickersOf(SelectSeq(todo', LAMBDA p : p.kind = "YES_LIVE"))]_vars

\* The sale of a contract is offered at most once, and only for a contract
\* that was suggested.
ExitOnce ==
    \A t \in Tickers :
       /\ exits[t] <= 1
       /\ exits[t] = 1 => \E i \in Intervals : rows[<<t, i>>] # NoRow /\ rows[<<t, i>>].fired

\* A warning is raised only when every snapshot of the contract processed in
\* the last ConfirmTicks showed the decisive flip.
FlipWasHeld ==
    [][\A t \in Tickers : (warnings[t] = "none" /\ warnings'[t] # "none") =>
          calm[t] + ConfirmTicks < job.at]_vars

\* Once the sale of a contract was offered, no order of it follows, unless a
\* fault had cut the suggestion off before its order.
NoEntryAfterExit ==
    [][\A t \in Tickers \ lost : exits[t] = 1 => offers'[t] = offers[t]]_vars

\* A recorded warning gets its final delivery status and its sale (when it
\* is priced), unless a fault cut the steps off; a queued one included.
WarningSettles ==
    \A t \in Tickers :
       (warnings[t] # "none") ~>
         \/ warnings[t] \notin {"PENDING", "QUEUED"} /\ (exits[t] = 1 \/ t \in unpriced)
         \/ t \in lost
=============================================================================
