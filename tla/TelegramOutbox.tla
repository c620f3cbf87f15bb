--------------------------- MODULE TelegramOutbox ---------------------------
(***************************************************************************)
(* The durable Telegram outbox of one process, notifications/outbox_v9.py: *)
(* the table, the producers that enqueue and try at once, the background   *)
(* worker that retries what is due, the lock that lets one of them send at *)
(* a time, and the recovery of a restart.                                  *)
(*                                                                         *)
(* Each transaction of the backend is one step.  An attempt is three: the  *)
(* claim, the send (Telegram may show the message and the answer be lost)  *)
(* and the update of the row; the process may die between any two.  A row  *)
(* is due once its next_attempt_at has come; a key's deadline passes once. *)
(*                                                                         *)
(* Operators named Bug... are seeded faults: each is a wrong version of    *)
(* the definition after it, and no definition uses one.                    *)
(***************************************************************************)
EXTENDS Integers, Sequences

CONSTANTS Keys,         \* idempotency keys
          Callers,      \* producer threads
          MaxAttempts,  \* Q15_V9_OUTBOX_MAX_ATTEMPTS
          RawRetries,   \* retries inside one raw send
          MaxCrashes,   \* bound on the crashes of the process
          Faults        \* what the environment does to this instance

FaultKinds ==
    {"fail",     \* a send fails and the message is not shown
     "lost",     \* a send fails although the message is shown
     "mute",     \* the notifier's alert level suppresses the message
     "expire"}   \* messages carry a deadline, and deadlines pass

ASSUME AttemptsAssumption == MaxAttempts \in Nat \ {0}
ASSUME BoundsAssumption == RawRetries \in Nat /\ MaxCrashes \in Nat
ASSUME FaultsAssumption == Faults \subseteq FaultKinds

VARIABLES
    row,      \* the table, by key
    order,    \* keys in the order of created_at
    lapsed,   \* keys whose deadline has passed
    up,       \* the process runs
    job,      \* the attempt that holds the delivery lock
    waiting,  \* the key each producer is about to attempt, in send_with_result
    posts,    \* messages Telegram showed
    doubts,   \* observation: shown messages the outbox has no answer for
    told,     \* observation: keys some caller was told are delivered
    crashes

vars == <<row, order, lapsed, up, job, waiting, posts, doubts, told, crashes>>

Retryable == {"PENDING", "FAILED_RETRYABLE"}
Final == {"SENT", "DEAD_LETTER", "EXPIRED"}
Statuses == Retryable \union Final \union {"ABSENT", "SENDING"}
Worker == "worker"
NoJob == [step |-> "none"]

NoRow == [status |-> "ABSENT", attempts |-> 0, due |-> FALSE, expires |-> FALSE]
Idle == [c \in Callers |-> {}]

Init ==
    /\ row = [k \in Keys |-> NoRow]
    /\ order = <<>> /\ lapsed = {}
    /\ up = TRUE /\ job = NoJob /\ waiting = Idle
    /\ posts = [k \in Keys |-> 0] /\ doubts = [k \in Keys |-> 0]
    /\ told = {} /\ crashes = 0

SetStatus(k, status) == row' = [row EXCEPT ![k].status = status]

-----------------------------------------------------------------------------
\* Producers

\* INSERT OR IGNORE, then COALESCE the deadline into the row.
Enqueued(k, expires) ==
    IF row[k].status # "ABSENT" THEN [row[k] EXCEPT !.expires = @ \/ expires]
    ELSE [status |-> IF expires /\ k \in lapsed THEN "EXPIRED" ELSE "PENDING",
          attempts |-> 0, due |-> TRUE, expires |-> expires]

Enqueue(k) ==
    \E expires \in {FALSE} \union (IF "expire" \in Faults THEN {TRUE} ELSE {}) :
        /\ row' = [row EXCEPT ![k] = Enqueued(k, expires)]
        /\ order' = IF row[k].status = "ABSENT" THEN Append(order, k) ELSE order
        /\ told' = IF row'[k].status = "SENT" THEN told \union {k} ELSE told

\* enqueue_with_result: persist and leave the delivery to the worker.
EnqueueWithResult(k) ==
    /\ up
    /\ Enqueue(k)
    /\ UNCHANGED <<lapsed, up, job, waiting, posts, doubts, crashes>>

\* send_with_result: persist, then attempt this row unless it is settled.
SendWithResult(c, k) ==
    /\ up /\ waiting[c] = {}
    /\ Enqueue(k)
    /\ waiting' = [waiting EXCEPT ![c] =
                      IF row'[k].status \in {"SENT", "EXPIRED"} THEN {} ELSE {k}]
    /\ UNCHANGED <<lapsed, up, job, posts, doubts, crashes>>

-----------------------------------------------------------------------------
\* The attempt, under the delivery lock

Claimed(k, by) == [step |-> "claimed", key |-> k, by |-> by,
                   before |-> row[k].attempts, expires |-> row[k].expires]

\* claim(row_id): by the producer, whether or not the row is due.
CallerClaims(c) ==
    \E k \in waiting[c] :
        /\ up /\ job = NoJob
        /\ IF row[k].status \in Retryable
           THEN SetStatus(k, "SENDING") /\ job' = Claimed(k, c) /\ UNCHANGED waiting
           ELSE UNCHANGED <<row, job>> /\ waiting' = [waiting EXCEPT ![c] = {}]
        /\ UNCHANGED <<order, lapsed, up, posts, doubts, told, crashes>>

IsDue(k) == row[k].status \in Retryable /\ row[k].due

\* claim(): the oldest due row.
WorkerClaims ==
    \E i \in DOMAIN order :
        /\ up /\ job = NoJob
        /\ IsDue(order[i]) /\ \A j \in 1..(i - 1) : ~IsDue(order[j])
        /\ SetStatus(order[i], "SENDING")
        /\ job' = Claimed(order[i], Worker)
        /\ UNCHANGED <<order, lapsed, up, waiting, posts, doubts, told, crashes>>

\* The lock is released and the producer, if there is one, gets its answer.
Release(delivered) ==
    /\ job' = NoJob
    /\ waiting' = [c \in Callers |-> IF c = job.by THEN {} ELSE waiting[c]]
    /\ told' = IF delivered /\ job.by # Worker THEN told \union {job.key} ELSE told

\* The deadline as the claim read it.
PastDeadline == job.expires /\ job.key \in lapsed

\* The claimed row's deadline has passed: expire() and send nothing.
ExpireClaimed ==
    /\ job.step = "claimed" /\ PastDeadline
    /\ SetStatus(job.key, "EXPIRED")
    /\ Release(FALSE)
    /\ UNCHANGED <<order, lapsed, up, posts, doubts, crashes>>

\* What one raw send can come to: how often Telegram showed the message without
\* answering, and the answer the outbox gets.
Outcomes ==
    LET silent == IF "lost" \in Faults THEN 0..RawRetries ELSE {0}
    IN  [silent : silent, answer : {"delivered"}]
        \union (IF "lost" \in Faults THEN [silent : 1..(RawRetries + 1), answer : {"failed"}] ELSE {})
        \union (IF "fail" \in Faults THEN [silent : {0}, answer : {"failed"}] ELSE {})
        \union (IF "mute" \in Faults THEN [silent : {0}, answer : {"muted"}] ELSE {})

RawSend ==
    \E out \in Outcomes :
        /\ job.step = "claimed" /\ ~PastDeadline
        /\ posts' = [posts EXCEPT ![job.key] =
                        @ + out.silent + (IF out.answer = "delivered" THEN 1 ELSE 0)]
        /\ doubts' = [doubts EXCEPT ![job.key] = @ + out.silent]
        /\ job' = [step |-> "answered", key |-> job.key, by |-> job.by,
                   before |-> job.before, answer |-> out.answer]
        /\ UNCHANGED <<row, order, lapsed, up, waiting, told, crashes>>

\* Seeded fault: the last failure is retried too.
BugAfterFailure(before) == "FAILED_RETRYABLE"

AfterFailure(before) == IF before + 1 >= MaxAttempts THEN "DEAD_LETTER" ELSE "FAILED_RETRYABLE"

\* Seeded fault: a failed attempt leaves the row to the next restart.
BugComplete ==
    LET handled == job.answer \in {"delivered", "muted"}
    IN  /\ job.step = "answered"
        /\ IF handled THEN SetStatus(job.key, "SENT") ELSE UNCHANGED row
        /\ Release(job.answer = "delivered")
        /\ UNCHANGED <<order, lapsed, up, posts, doubts, crashes>>

\* Seeded fault: an attempt whose answer is a failure counts as sent.
BugCompleteAsSent ==
    /\ job.step = "answered"
    /\ SetStatus(job.key, "SENT")
    /\ Release(job.answer = "delivered")
    /\ UNCHANGED <<order, lapsed, up, posts, doubts, crashes>>

\* complete(): a delivery and an intentional mute are both handled.
Complete ==
    LET handled == job.answer \in {"delivered", "muted"}
        status == IF handled THEN "SENT" ELSE AfterFailure(job.before)
    IN  /\ job.step = "answered"
        /\ row' = [row EXCEPT ![job.key].status = status,
                              ![job.key].attempts = @ + 1,
                              ![job.key].due = IF handled THEN @ ELSE FALSE]
        /\ Release(job.answer = "delivered")
        /\ UNCHANGED <<order, lapsed, up, posts, doubts, crashes>>

-----------------------------------------------------------------------------
\* Time, crashes and recovery

BackoffEnds(k) ==
    /\ row[k].status = "FAILED_RETRYABLE" /\ ~row[k].due
    /\ row' = [row EXCEPT ![k].due = TRUE]
    /\ UNCHANGED <<order, lapsed, up, job, waiting, posts, doubts, told, crashes>>

DeadlinePasses(k) ==
    /\ "expire" \in Faults /\ k \notin lapsed
    /\ lapsed' = lapsed \union {k}
    /\ UNCHANGED <<row, order, up, job, waiting, posts, doubts, told, crashes>>

\* A message shown and not yet recorded is in doubt from now on.
Crash ==
    /\ up /\ crashes < MaxCrashes
    /\ up' = FALSE /\ crashes' = crashes + 1
    /\ doubts' = IF job.step = "answered" /\ job.answer = "delivered"
                 THEN [doubts EXCEPT ![job.key] = @ + 1] ELSE doubts
    /\ job' = NoJob /\ waiting' = Idle
    /\ UNCHANGED <<row, order, lapsed, posts, told>>

\* Seeded fault: a row left in SENDING by a crash stays there.
BugRecovered(k) ==
    IF row[k].expires /\ k \in lapsed /\ row[k].status \in Retryable
    THEN [row[k] EXCEPT !.status = "EXPIRED"] ELSE row[k]

\* Seeded fault: recovery puts every row back.
BugRecoveredAll(k) ==
    IF row[k].status # "ABSENT"
    THEN [row[k] EXCEPT !.status = "FAILED_RETRYABLE", !.due = TRUE] ELSE row[k]

\* recover(): expire what lapsed, then give interrupted sends back.
Recovered(k) ==
    IF row[k].expires /\ k \in lapsed /\ row[k].status \in Retryable \union {"SENDING"}
    THEN [row[k] EXCEPT !.status = "EXPIRED"]
    ELSE IF row[k].status = "SENDING"
    THEN [row[k] EXCEPT !.status = "FAILED_RETRYABLE", !.due = TRUE]
    ELSE row[k]

Restart ==
    /\ ~up
    /\ up' = TRUE
    /\ row' = [k \in Keys |-> Recovered(k)]
    /\ UNCHANGED <<order, lapsed, job, waiting, posts, doubts, told, crashes>>

-----------------------------------------------------------------------------
Attempt == ExpireClaimed \/ RawSend \/ Complete

Next ==
    \/ \E k \in Keys : EnqueueWithResult(k) \/ BackoffEnds(k) \/ DeadlinePasses(k)
    \/ \E c \in Callers, k \in Keys : SendWithResult(c, k)
    \/ \E c \in Callers : CallerClaims(c)
    \/ WorkerClaims \/ ExpireClaimed \/ RawSend \/ Complete
    \/ Crash \/ Restart

\* The worker thread polls for ever, a thread that holds the lock goes on, time
\* passes, and a supervisor restarts a dead process.  Nothing makes a producer
\* call, a send succeed or a deadline pass.
Fairness ==
    /\ WF_vars(WorkerClaims)
    /\ WF_vars(Attempt)
    /\ WF_vars(Restart)
    /\ \A k \in Keys : WF_vars(BackoffEnds(k))
    /\ \A c \in Callers : WF_vars(CallerClaims(c))

Spec == Init /\ [][Next]_vars /\ Fairness

-----------------------------------------------------------------------------
Rows == [status : Statuses, attempts : 0..MaxAttempts, due : BOOLEAN, expires : BOOLEAN]

Attempts ==
    [step : {"claimed"}, key : Keys, by : Callers \union {Worker},
     before : Nat, expires : BOOLEAN]
    \union
    [step : {"answered"}, key : Keys, by : Callers \union {Worker},
     before : Nat, answer : {"delivered", "failed", "muted"}]

\* Every variable keeps to the values the code can give it.
TypeOK ==
    /\ row \in [Keys -> Rows]
    /\ order \in Seq(Keys) /\ lapsed \subseteq Keys
    /\ up \in BOOLEAN
    /\ job \in {NoJob} \union Attempts
    /\ waiting \in [Callers -> SUBSET Keys]
    /\ posts \in [Keys -> Nat] /\ doubts \in [Keys -> Nat]
    /\ told \subseteq Keys /\ crashes \in 0..MaxCrashes

\* Telegram shows a message twice only when the outbox could not know it had
\* been shown: every post beyond the first answers a lost answer or a crash
\* between the answer and the row's update.
DuplicatesAreExplained == \A k \in Keys : posts[k] <= 1 + doubts[k]

\* A row is SENDING only while an attempt of it is under way: in a running
\* process no message is stranded between the two halves of an attempt.
NothingStranded ==
    up => \A k \in Keys : row[k].status = "SENDING" => job # NoJob /\ job.key = k

\* A row is marked SENT only after Telegram showed the message, and a caller
\* told "delivered" was told the truth.
SentMeansShown ==
    /\ \A k \in Keys : row[k].status = "SENT" => posts[k] > 0
    /\ \A k \in told : posts[k] > 0

\* The outbox keeps Delivery's promise: every accepted message is closed in the
\* end, under failures, lost answers and crashes, and none is shown or reopened
\* after it was closed.
Phase ==
    [k \in Keys |-> IF row[k].status = "ABSENT" THEN "new"
                    ELSE IF row[k].status \in Final THEN "closed" ELSE "open"]

Promise == INSTANCE Delivery WITH phase <- Phase, Burst <- RawRetries + 1
KeepsPromise == Promise!Spec
=============================================================================
