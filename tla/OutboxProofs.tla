---------------------------- MODULE OutboxProofs ----------------------------
(***************************************************************************)
(* Proofs about TelegramOutbox, for every number of messages, producers,   *)
(* attempts, retries and crashes.                                          *)
(*                                                                         *)
(* The delivery lock is what makes the outbox correct: AttemptInv says     *)
(* that the attempt holding it owns the one row that is SENDING, and has   *)
(* read its attempt count; the rest of the invariant is about what that    *)
(* row's number of attempts and posts can be.                              *)
(***************************************************************************)
EXTENDS TelegramOutbox, TLAPS

Delivered(k) == job # NoJob /\ job.step = "answered" /\ job.answer = "delivered" /\ job.key = k

\* The attempt under way owns its row.
AttemptInv ==
    job # NoJob =>
        /\ up
        /\ row[job.key].status = "SENDING"
        /\ job.before = row[job.key].attempts

\* An open row has an attempt left.
AttemptsLeft ==
    \A k \in Keys :
        row[k].status \in Retryable \union {"SENDING"} => row[k].attempts < MaxAttempts

\* A row shown once has the answer, on the row or in the attempt's hands.
PostsExplained ==
    \A k \in Keys :
        IF row[k].status = "SENT" \/ Delivered(k) THEN posts[k] <= 1 + doubts[k]
                                                  ELSE posts[k] <= doubts[k]

Inv == TypeOK /\ AttemptInv /\ NothingStranded /\ AttemptsLeft /\ PostsExplained

-----------------------------------------------------------------------------
\* Rows and attempts

LEMMA RowUpdate ==
    ASSUME NEW f \in [Keys -> Rows], NEW k \in Keys, NEW r \in Rows
    PROVE  /\ [f EXCEPT ![k] = r] \in [Keys -> Rows]
           /\ [f EXCEPT ![k] = r][k] = r
           /\ \A j \in Keys : j # k => [f EXCEPT ![k] = r][j] = f[j]
OBVIOUS

LEMMA StatusUpdate ==
    ASSUME NEW f \in [Keys -> Rows], NEW k \in Keys, NEW st \in Statuses
    PROVE  LET g == [f EXCEPT ![k].status = st]
           IN  /\ g \in [Keys -> Rows]
               /\ g[k].status = st /\ g[k].attempts = f[k].attempts
               /\ \A j \in Keys : j # k => g[j] = f[j]
<1> DEFINE r == [f[k] EXCEPT !.status = st]
<1>1. f[k] \in Rows
  OBVIOUS
<1>2. r \in Rows /\ r.status = st /\ r.attempts = f[k].attempts
  BY <1>1 DEF Rows
<1>3. [f EXCEPT ![k].status = st] = [f EXCEPT ![k] = r]
  OBVIOUS
<1> HIDE DEF r
<1>. QED
  BY <1>2, <1>3, RowUpdate

LEMMA InitInv == Init => Inv
<1> SUFFICES ASSUME Init PROVE Inv
  OBVIOUS
<1>1. 0 \in 0..MaxAttempts /\ 0 \in 0..MaxCrashes
  BY AttemptsAssumption, BoundsAssumption
<1>2. NoRow \in Rows
  BY <1>1 DEF NoRow, Rows, Statuses
<1>3. TypeOK
  BY <1>1, <1>2 DEF Init, TypeOK, Idle
<1>. QED
  BY <1>3 DEF Init, Inv, AttemptInv, NothingStranded, AttemptsLeft, PostsExplained,
              Delivered, NoRow, Retryable

LEMMA TypeParts ==
    ASSUME TypeOK
    PROVE  /\ row \in [Keys -> Rows]
           /\ \A k \in Keys :
                 /\ row[k] \in Rows /\ row[k].status \in Statuses
                 /\ row[k].attempts \in 0..MaxAttempts /\ row[k].attempts \in Nat
           /\ job # NoJob => /\ job.key \in Keys /\ job.by \in Callers \union {Worker}
                             /\ job.before \in Nat /\ job.step \in {"claimed", "answered"}
                             /\ job.step = "answered" => job.answer \in {"delivered", "failed", "muted"}
BY AttemptsAssumption DEF TypeOK, Rows, Attempts, NoJob

-----------------------------------------------------------------------------
\* Producers

LEMMA EnqueuedRow ==
    ASSUME TypeOK, NEW k \in Keys, NEW expires \in BOOLEAN
    PROVE  LET r == Enqueued(k, expires)
           IN  /\ r \in Rows
               /\ row[k].status # "ABSENT" => r.status = row[k].status /\ r.attempts = row[k].attempts
               /\ row[k].status = "ABSENT" => r.status \in {"PENDING", "EXPIRED"} /\ r.attempts = 0
<1>1. row[k] \in Rows
  BY TypeParts
<1>2. CASE row[k].status # "ABSENT"
  BY <1>1, <1>2 DEF Enqueued, Rows
<1>3. CASE row[k].status = "ABSENT"
  <2>1. 0 \in 0..MaxAttempts
    BY AttemptsAssumption
  <2>. QED
    BY <1>3, <2>1 DEF Enqueued, Rows, Statuses, Final, Retryable
<1>. QED
  BY <1>2, <1>3

LEMMA EnqueueInv ==
    ASSUME Inv, NEW k \in Keys, Enqueue(k),
           UNCHANGED <<lapsed, up, job, posts, doubts, crashes>>,
           waiting' \in [Callers -> SUBSET Keys]
    PROVE  Inv'
<1>1. PICK expires \in BOOLEAN :
        /\ row' = [row EXCEPT ![k] = Enqueued(k, expires)]
        /\ order' = IF row[k].status = "ABSENT" THEN Append(order, k) ELSE order
        /\ told' = IF row'[k].status = "SENT" THEN told \union {k} ELSE told
  BY DEF Enqueue
<1> DEFINE r == Enqueued(k, expires)
<1>2. /\ r \in Rows
      /\ row[k].status # "ABSENT" => r.status = row[k].status /\ r.attempts = row[k].attempts
      /\ row[k].status = "ABSENT" => r.status \in {"PENDING", "EXPIRED"} /\ r.attempts = 0
  BY EnqueuedRow DEF Inv
<1> HIDE DEF r
<1>3. /\ row' \in [Keys -> Rows] /\ row'[k] = r
      /\ \A j \in Keys : j # k => row'[j] = row[j]
  BY <1>1, <1>2, RowUpdate DEF Inv, TypeOK, r
<1>4. order' \in Seq(Keys) /\ told' \subseteq Keys
  BY <1>1 DEF Inv, TypeOK
<1>5. TypeOK'
  BY <1>3, <1>4 DEF Inv, TypeOK
<1>6. \A j \in Keys :
        /\ (row'[j].status = "SENDING") <=> (row[j].status = "SENDING")
        /\ (row'[j].status = "SENT") <=> (row[j].status = "SENT")
        /\ row[j].status # "ABSENT" => row'[j].attempts = row[j].attempts
  BY <1>2, <1>3
<1>7. AttemptInv' /\ NothingStranded'
  BY <1>6, TypeParts DEF Inv, AttemptInv, NothingStranded
<1>8. AttemptsLeft'
  <2>1. 0 < MaxAttempts
    BY AttemptsAssumption
  <2>. QED
    BY <1>2, <1>3, <2>1 DEF Inv, AttemptsLeft, Retryable
<1>9. PostsExplained'
  BY <1>6 DEF Inv, PostsExplained, Delivered
<1>. QED
  BY <1>5, <1>7, <1>8, <1>9 DEF Inv

LEMMA ProducerInv ==
    Inv /\ (\E k \in Keys : EnqueueWithResult(k) \/ \E c \in Callers : SendWithResult(c, k)) => Inv'
<1>1. ASSUME Inv, NEW k \in Keys, EnqueueWithResult(k) PROVE Inv'
  BY <1>1, EnqueueInv DEF EnqueueWithResult, Inv, TypeOK
<1>2. ASSUME Inv, NEW k \in Keys, NEW c \in Callers, SendWithResult(c, k) PROVE Inv'
  <2>1. waiting' \in [Callers -> SUBSET Keys]
    BY <1>2 DEF SendWithResult, Inv, TypeOK
  <2>. QED
    BY <1>2, <2>1, EnqueueInv DEF SendWithResult
<1>. QED
  BY <1>1, <1>2

-----------------------------------------------------------------------------
\* The attempt

\* A claim takes an open row, whoever claims.
LEMMA ClaimInv ==
    ASSUME Inv, NEW k \in Keys, NEW by \in Callers \union {Worker},
           up, job = NoJob, row[k].status \in Retryable,
           SetStatus(k, "SENDING"), job' = Claimed(k, by),
           UNCHANGED <<order, lapsed, up, waiting, posts, doubts, told, crashes>>
    PROVE  Inv'
<1>1. "SENDING" \in Statuses /\ row \in [Keys -> Rows]
  BY DEF Statuses, Inv, TypeOK
<1>2. /\ row' \in [Keys -> Rows]
      /\ row'[k].status = "SENDING" /\ row'[k].attempts = row[k].attempts
      /\ \A j \in Keys : j # k => row'[j] = row[j]
  BY <1>1, StatusUpdate DEF SetStatus
<1>3. /\ job' \in Attempts /\ job'.key = k /\ job'.step = "claimed"
      /\ job'.before = row[k].attempts
  <2>1. row[k].attempts \in Nat /\ row[k].expires \in BOOLEAN
    BY <1>1, TypeParts DEF Inv, Rows
  <2>. QED
    BY <2>1 DEF Claimed, Attempts
<1>4. job' # NoJob
  BY <1>3 DEF NoJob
<1>5. TypeOK'
  BY <1>2, <1>3 DEF Inv, TypeOK
<1>6. AttemptInv' /\ NothingStranded'
  BY <1>2, <1>3, <1>4 DEF Inv, AttemptInv, NothingStranded
<1>7. AttemptsLeft'
  BY <1>2 DEF Inv, AttemptsLeft, Retryable
<1>8. PostsExplained'
  BY <1>2, <1>3, <1>4 DEF Inv, PostsExplained, Delivered, Retryable
<1>. QED
  BY <1>5, <1>6, <1>7, <1>8 DEF Inv

LEMMA ClaimsInv == Inv /\ (WorkerClaims \/ \E c \in Callers : CallerClaims(c)) => Inv'
<1>1. ASSUME Inv, WorkerClaims PROVE Inv'
  <2>1. PICK i \in DOMAIN order :
          /\ up /\ job = NoJob /\ IsDue(order[i])
          /\ SetStatus(order[i], "SENDING") /\ job' = Claimed(order[i], Worker)
          /\ UNCHANGED <<order, lapsed, up, waiting, posts, doubts, told, crashes>>
    BY <1>1 DEF WorkerClaims
  <2>2. order[i] \in Keys
    BY <1>1 DEF Inv, TypeOK
  <2>. QED
    BY <1>1, <2>1, <2>2, ClaimInv DEF IsDue
<1>2. ASSUME Inv, NEW c \in Callers, CallerClaims(c) PROVE Inv'
  <2>1. PICK k \in waiting[c] :
          /\ up /\ job = NoJob
          /\ IF row[k].status \in Retryable
             THEN SetStatus(k, "SENDING") /\ job' = Claimed(k, c) /\ UNCHANGED waiting
             ELSE UNCHANGED <<row, job>> /\ waiting' = [waiting EXCEPT ![c] = {}]
          /\ UNCHANGED <<order, lapsed, up, posts, doubts, told, crashes>>
    BY <1>2 DEF CallerClaims
  <2>2. k \in Keys
    BY <1>2 DEF Inv, TypeOK
  <2>3. CASE row[k].status \in Retryable
    BY <1>2, <2>1, <2>2, <2>3, ClaimInv
  <2>4. CASE row[k].status \notin Retryable
    <3>1. waiting' \in [Callers -> SUBSET Keys]
      BY <1>2, <2>1, <2>4 DEF Inv, TypeOK
    <3>. QED
      BY <1>2, <2>1, <2>4, <3>1 DEF Inv, TypeOK, AttemptInv, NothingStranded, AttemptsLeft,
                                    PostsExplained, Delivered
  <2>. QED
    BY <2>3, <2>4
<1>. QED
  BY <1>1, <1>2

LEMMA RawSendInv == Inv /\ RawSend => Inv'
<1> SUFFICES ASSUME Inv, RawSend PROVE Inv'
  OBVIOUS
<1>1. PICK out \in Outcomes :
        /\ job.step = "claimed"
        /\ posts' = [posts EXCEPT ![job.key] =
                        @ + out.silent + (IF out.answer = "delivered" THEN 1 ELSE 0)]
        /\ doubts' = [doubts EXCEPT ![job.key] = @ + out.silent]
        /\ job' = [step |-> "answered", key |-> job.key, by |-> job.by,
                   before |-> job.before, answer |-> out.answer]
        /\ UNCHANGED <<row, order, lapsed, up, waiting, told, crashes>>
  BY DEF RawSend
<1>2. out.silent \in Nat /\ out.answer \in {"delivered", "failed", "muted"}
  BY BoundsAssumption DEF Outcomes
<1>3. /\ job # NoJob /\ job.key \in Keys /\ job.by \in Callers \union {Worker}
      /\ job.before \in Nat
  BY <1>1, TypeParts DEF Inv, NoJob
<1>4. /\ job' \in Attempts /\ job' # NoJob /\ job'.key = job.key /\ job'.step = "answered"
      /\ job'.before = job.before /\ job'.answer = out.answer
  BY <1>1, <1>2, <1>3 DEF Attempts, NoJob
<1>5. /\ posts \in [Keys -> Nat] /\ doubts \in [Keys -> Nat]
  BY DEF Inv, TypeOK
<1>6. posts' \in [Keys -> Nat] /\ doubts' \in [Keys -> Nat]
  <2>1. \A n \in Nat : n + out.silent \in Nat
    BY <1>2
  <2>2. \A n \in Nat : n + out.silent + (IF out.answer = "delivered" THEN 1 ELSE 0) \in Nat
    BY <1>2
  <2>. QED
    BY <1>1, <1>3, <1>5, <2>1, <2>2
<1>7. TypeOK'
  BY <1>1, <1>4, <1>6 DEF Inv, TypeOK
<1>8. AttemptInv' /\ NothingStranded' /\ AttemptsLeft'
  BY <1>1, <1>3, <1>4 DEF Inv, AttemptInv, NothingStranded, AttemptsLeft
<1>9. ASSUME NEW k \in Keys
      PROVE  IF row'[k].status = "SENT" \/ Delivered(k)' THEN posts'[k] <= 1 + doubts'[k]
                                                        ELSE posts'[k] <= doubts'[k]
  <2>1. CASE k # job.key
    BY <1>1, <1>3, <1>4, <1>5, <2>1 DEF Inv, PostsExplained, Delivered
  <2>2. CASE k = job.key
    <3>1. row[k].status = "SENDING" /\ ~Delivered(k)
      BY <1>1, <1>3, <2>2 DEF Inv, AttemptInv, Delivered
    <3>2. posts[k] \in Nat /\ doubts[k] \in Nat /\ posts[k] <= doubts[k]
      BY <1>5, <3>1 DEF Inv, PostsExplained
    <3>3. doubts'[k] = doubts[k] + out.silent
      BY <1>1, <1>5, <2>2
    <3>4. posts'[k] = posts[k] + out.silent + (IF out.answer = "delivered" THEN 1 ELSE 0)
      BY <1>1, <1>5, <2>2
    <3>5. Delivered(k)' <=> out.answer = "delivered"
      BY <1>4, <2>2 DEF Delivered
    <3>. QED
      BY <1>1, <1>2, <3>1, <3>2, <3>3, <3>4, <3>5
  <2>. QED
    BY <2>1, <2>2
<1>. QED
  BY <1>7, <1>8, <1>9 DEF Inv, PostsExplained

\* The attempt's row as the invariant has it while the lock is held.
LEMMA OwnRow ==
    ASSUME Inv, job # NoJob
    PROVE  /\ up /\ job.key \in Keys /\ job.by \in Callers \union {Worker}
           /\ row[job.key].status = "SENDING"
           /\ row[job.key].attempts \in Nat /\ row[job.key].attempts < MaxAttempts
           /\ job.before = row[job.key].attempts
           /\ \A k \in Keys : k # job.key => row[k].status # "SENDING"
BY TypeParts DEF Inv, AttemptInv, NothingStranded, AttemptsLeft

LEMMA ReleaseType ==
    ASSUME Inv, job # NoJob, NEW delivered \in BOOLEAN, Release(delivered)
    PROVE  job' = NoJob /\ waiting' \in [Callers -> SUBSET Keys] /\ told' \subseteq Keys
BY OwnRow DEF Release, Inv, TypeOK

LEMMA ExpireInv == Inv /\ ExpireClaimed => Inv'
<1> SUFFICES ASSUME Inv, ExpireClaimed PROVE Inv'
  OBVIOUS
<1>1. /\ job # NoJob /\ job.step = "claimed" /\ SetStatus(job.key, "EXPIRED") /\ Release(FALSE)
      /\ UNCHANGED <<order, lapsed, up, posts, doubts, crashes>>
  <2>1. job.step = "claimed" /\ NoJob.step = "none"
    BY DEF ExpireClaimed, NoJob
  <2>2. job # NoJob
    BY <2>1
  <2>. QED
    BY <2>2, Zenon DEF ExpireClaimed
<1>2. "EXPIRED" \in Statuses /\ row \in [Keys -> Rows]
  BY DEF Statuses, Final, Inv, TypeOK
<1>3. /\ row' \in [Keys -> Rows] /\ row'[job.key].status = "EXPIRED"
      /\ \A k \in Keys : k # job.key => row'[k] = row[k]
  BY <1>1, <1>2, OwnRow, StatusUpdate DEF SetStatus
<1>4. job' = NoJob /\ waiting' \in [Callers -> SUBSET Keys] /\ told' \subseteq Keys
  BY <1>1, ReleaseType
<1>5. TypeOK'
  BY <1>1, <1>3, <1>4 DEF Inv, TypeOK
<1>6. AttemptInv' /\ NothingStranded' /\ AttemptsLeft'
  BY <1>1, <1>3, <1>4, OwnRow DEF Inv, AttemptInv, NothingStranded, AttemptsLeft, Retryable
<1>7. PostsExplained'
  <2>1. \A k \in Keys : ~Delivered(k) /\ ~Delivered(k)'
    BY <1>1, <1>4 DEF Delivered
  <2>. QED
    BY <1>1, <1>3, <2>1, OwnRow DEF Inv, PostsExplained
<1>. QED
  BY <1>5, <1>6, <1>7 DEF Inv

LEMMA CompleteInv == Inv /\ Complete => Inv'
<1> SUFFICES ASSUME Inv, Complete PROVE Inv'
  OBVIOUS
<1> DEFINE key == job.key
           handled == job.answer \in {"delivered", "muted"}
           status == IF handled THEN "SENT" ELSE AfterFailure(job.before)
           r == [row[key] EXCEPT !.status = status, !.attempts = @ + 1,
                                 !.due = IF handled THEN @ ELSE FALSE]
<1>1. /\ job # NoJob /\ job.step = "answered" /\ Release(job.answer = "delivered")
      /\ UNCHANGED <<order, lapsed, up, posts, doubts, crashes>>
  BY DEF Complete, NoJob
<1>2. /\ key \in Keys /\ row[key] \in Rows /\ row[key].attempts \in Nat
      /\ row[key].attempts < MaxAttempts /\ job.before = row[key].attempts
      /\ row \in [Keys -> Rows] /\ MaxAttempts \in Nat
  BY <1>1, OwnRow, TypeParts, AttemptsAssumption DEF Inv, TypeOK
<1>3. status \in {"SENT", "DEAD_LETTER", "FAILED_RETRYABLE"}
  BY DEF AfterFailure
<1>4. r \in Rows /\ r.status = status /\ r.attempts = row[key].attempts + 1
  <2>1. row[key].attempts + 1 \in 0..MaxAttempts
    BY <1>2
  <2>2. status \in Statuses
    BY <1>3 DEF Statuses, Retryable, Final
  <2> HIDE DEF status, handled, key
  <2>. QED
    BY <1>2, <2>1, <2>2 DEF Rows
<1>5. status = "FAILED_RETRYABLE" => row[key].attempts + 1 < MaxAttempts
  BY <1>2 DEF AfterFailure
<1>6. row' = [row EXCEPT ![key] = r]
  BY DEF Complete
<1> HIDE DEF r
<1>7. /\ row' \in [Keys -> Rows] /\ row'[key] = r
      /\ \A k \in Keys : k # key => row'[k] = row[k]
  BY <1>2, <1>4, <1>6, RowUpdate
<1>8. job' = NoJob /\ waiting' \in [Callers -> SUBSET Keys] /\ told' \subseteq Keys
  BY <1>1, ReleaseType
<1>9. TypeOK'
  BY <1>1, <1>7, <1>8 DEF Inv, TypeOK
<1>10. AttemptInv' /\ NothingStranded'
  BY <1>1, <1>3, <1>4, <1>7, <1>8, OwnRow DEF AttemptInv, NothingStranded
<1>11. AttemptsLeft'
  <2>1. ASSUME NEW k \in Keys, row'[k].status \in Retryable \union {"SENDING"}
        PROVE  row'[k].attempts < MaxAttempts
    <3>1. CASE k = key
      BY <1>3, <1>4, <1>5, <1>7, <2>1, <3>1 DEF Retryable
    <3>2. CASE k # key
      BY <1>7, <2>1, <3>2 DEF Inv, AttemptsLeft
    <3>. QED
      BY <3>1, <3>2
  <2>. QED
    BY <2>1 DEF AttemptsLeft
<1>12. PostsExplained'
  <2>1. ASSUME NEW k \in Keys
        PROVE  IF row'[k].status = "SENT" \/ Delivered(k)' THEN posts'[k] <= 1 + doubts'[k]
                                                          ELSE posts'[k] <= doubts'[k]
    <3>1. ~Delivered(k)' /\ posts[k] \in Nat /\ doubts[k] \in Nat
      BY <1>8 DEF Delivered, Inv, TypeOK
    <3>2. CASE k # key
      BY <1>1, <1>7, <3>1, <3>2 DEF Inv, PostsExplained, Delivered
    <3>3. CASE k = key
      <4>1. row[k].status = "SENDING"
        BY <1>1, <3>3, OwnRow
      <4>2. IF Delivered(k) THEN posts[k] <= 1 + doubts[k] ELSE posts[k] <= doubts[k]
        BY <4>1 DEF Inv, PostsExplained
      <4>3. Delivered(k) => row'[k].status = "SENT"
        BY <1>1, <1>4, <1>7, <3>3 DEF Delivered
      <4>. QED
        BY <1>1, <3>1, <4>2, <4>3
    <3>. QED
      BY <3>2, <3>3
  <2>. QED
    BY <2>1 DEF PostsExplained
<1>. QED
  BY <1>9, <1>10, <1>11, <1>12 DEF Inv

-----------------------------------------------------------------------------
\* Time, crashes and recovery

LEMMA TimeInv ==
    Inv /\ (\E k \in Keys : BackoffEnds(k) \/ DeadlinePasses(k)) => Inv'
<1>1. ASSUME Inv, NEW k \in Keys, BackoffEnds(k) PROVE Inv'
  <2> DEFINE r == [row[k] EXCEPT !.due = TRUE]
  <2>1. row \in [Keys -> Rows] /\ row[k] \in Rows
    BY <1>1 DEF Inv, TypeOK
  <2>2. r \in Rows /\ r.status = row[k].status /\ r.attempts = row[k].attempts
    BY <2>1 DEF Rows
  <2>3. row' = [row EXCEPT ![k] = r]
    BY <1>1 DEF BackoffEnds
  <2> HIDE DEF r
  <2>4. /\ row' \in [Keys -> Rows]
        /\ \A j \in Keys : row'[j].status = row[j].status /\ row'[j].attempts = row[j].attempts
    BY <2>1, <2>2, <2>3, RowUpdate
  <2>5. UNCHANGED <<order, lapsed, up, job, waiting, posts, doubts, told, crashes>>
    BY <1>1 DEF BackoffEnds
  <2>6. TypeOK'
    BY <1>1, <2>4, <2>5 DEF Inv, TypeOK
  <2>7. AttemptInv' /\ NothingStranded' /\ AttemptsLeft'
    BY <1>1, <2>4, <2>5, OwnRow DEF Inv, AttemptInv, NothingStranded, AttemptsLeft
  <2>8. PostsExplained'
    BY <1>1, <2>4, <2>5 DEF Inv, PostsExplained, Delivered
  <2>. QED
    BY <2>6, <2>7, <2>8 DEF Inv
<1>2. ASSUME Inv, NEW k \in Keys, DeadlinePasses(k) PROVE Inv'
  BY <1>2 DEF DeadlinePasses, Inv, TypeOK, AttemptInv, NothingStranded, AttemptsLeft,
              PostsExplained, Delivered
<1>. QED
  BY <1>1, <1>2

LEMMA CrashInv == Inv /\ Crash => Inv'
<1> SUFFICES ASSUME Inv, Crash PROVE Inv'
  OBVIOUS
<1>1. /\ up' = FALSE /\ job' = NoJob /\ waiting' = Idle /\ crashes' \in 0..MaxCrashes
      /\ UNCHANGED <<row, order, lapsed, posts, told>>
  BY BoundsAssumption DEF Crash, Inv, TypeOK
<1>2. posts \in [Keys -> Nat] /\ doubts \in [Keys -> Nat]
  BY DEF Inv, TypeOK
<1>3. /\ doubts' \in [Keys -> Nat]
      /\ \A k \in Keys : doubts'[k] = IF Delivered(k) THEN doubts[k] + 1 ELSE doubts[k]
  <2>1. CASE job.step = "answered" /\ job.answer = "delivered"
    <3>1. job # NoJob
      BY <2>1 DEF NoJob
    <3>2. doubts' = [doubts EXCEPT ![job.key] = @ + 1] /\ job.key \in Keys
      BY <2>1, <3>1, OwnRow DEF Crash
    <3>. QED
      BY <1>2, <2>1, <3>1, <3>2 DEF Delivered
  <2>2. CASE ~(job.step = "answered" /\ job.answer = "delivered")
    BY <1>2, <2>2 DEF Crash, Delivered
  <2>. QED
    BY <2>1, <2>2
<1>4. TypeOK'
  BY <1>1, <1>3 DEF Inv, TypeOK, Idle
<1>5. AttemptInv' /\ NothingStranded' /\ AttemptsLeft'
  BY <1>1 DEF Inv, AttemptInv, NothingStranded, AttemptsLeft
<1>6. PostsExplained'
  BY <1>1, <1>2, <1>3 DEF Inv, PostsExplained, Delivered
<1>. QED
  BY <1>4, <1>5, <1>6 DEF Inv

LEMMA RestartInv == Inv /\ Restart => Inv'
<1> SUFFICES ASSUME Inv, Restart PROVE Inv'
  OBVIOUS
<1>1. /\ ~up /\ up' = TRUE /\ row' = [k \in Keys |-> Recovered(k)]
      /\ UNCHANGED <<order, lapsed, job, waiting, posts, doubts, told, crashes>>
  BY DEF Restart
<1>2. job = NoJob
  BY <1>1 DEF Inv, AttemptInv
<1>3. ASSUME NEW k \in Keys
      PROVE  /\ Recovered(k) \in Rows /\ Recovered(k).attempts = row[k].attempts
             /\ Recovered(k).status # "SENDING"
             /\ (Recovered(k).status = "SENT") <=> (row[k].status = "SENT")
             /\ Recovered(k).status \in Retryable => row[k].status \in Retryable \union {"SENDING"}
  <2>1. row[k] \in Rows
    BY TypeParts DEF Inv
  <2>. QED
    BY <2>1 DEF Recovered, Rows, Statuses, Retryable, Final
<1>4. row' \in [Keys -> Rows] /\ \A k \in Keys : row'[k] = Recovered(k)
  BY <1>1, <1>3
<1>5. TypeOK'
  BY <1>1, <1>4 DEF Inv, TypeOK
<1>6. AttemptInv' /\ NothingStranded'
  BY <1>1, <1>2, <1>3, <1>4 DEF AttemptInv, NothingStranded
<1>7. AttemptsLeft'
  BY <1>3, <1>4 DEF Inv, AttemptsLeft
<1>8. PostsExplained'
  BY <1>1, <1>2, <1>3, <1>4 DEF Inv, PostsExplained, Delivered
<1>. QED
  BY <1>5, <1>6, <1>7, <1>8 DEF Inv

LEMMA StepInv == Inv /\ [Next]_vars => Inv'
<1> SUFFICES ASSUME Inv, [Next]_vars PROVE Inv'
  OBVIOUS
<1>1. CASE UNCHANGED vars
  BY <1>1 DEF vars, Inv, TypeOK, AttemptInv, NothingStranded, AttemptsLeft, PostsExplained, Delivered
<1>2. CASE Next
  BY <1>2, ProducerInv, ClaimsInv, ExpireInv, RawSendInv, CompleteInv, TimeInv, CrashInv,
     RestartInv DEF Next
<1>. QED
  BY <1>1, <1>2

LEMMA Invariance == Spec => []Inv
BY InitInv, StepInv, PTL DEF Spec

\* No interleaving of producers, worker and crashes makes a row's attempts exceed
\* max_attempts or a variable leave its values.
THEOREM TypeCorrect == Spec => []TypeOK
<1>1. Inv => TypeOK
  BY DEF Inv
<1>. QED
  BY <1>1, Invariance, PTL

\* In a running process only the row of the attempt under way is SENDING, so the
\* worker's queries, which never look at SENDING rows, lose no message.
THEOREM NoMessageStranded == Spec => []NothingStranded
<1>1. Inv => NothingStranded
  BY DEF Inv
<1>. QED
  BY <1>1, Invariance, PTL

\* Every post of a message beyond its first answers a lost answer or a crash
\* between the answer and complete(), for any number of crashes and retries.
THEOREM NoUnexplainedDuplicate == Spec => []DuplicatesAreExplained
<1>1. Inv => DuplicatesAreExplained
  <2> SUFFICES ASSUME Inv, NEW k \in Keys PROVE posts[k] <= 1 + doubts[k]
    BY DEF DuplicatesAreExplained
  <2>1. posts[k] \in Nat /\ doubts[k] \in Nat
    BY DEF Inv, TypeOK
  <2>2. posts[k] <= 1 + doubts[k] \/ posts[k] <= doubts[k]
    BY DEF Inv, PostsExplained
  <2>. QED
    BY <2>1, <2>2
<1>. QED
  BY <1>1, Invariance, PTL

-----------------------------------------------------------------------------
\* SENT and what callers are told, when no alert level mutes messages

Unmuted == "mute" \notin Faults

Shown ==
    /\ job # NoJob /\ job.step = "answered" => job.answer # "muted"
    /\ \A k \in Keys :
          row[k].status = "SENT" \/ k \in told \/ Delivered(k) => posts[k] > 0

LEMMA EnqueueShown ==
    ASSUME Inv, Shown, NEW k \in Keys, Enqueue(k), UNCHANGED <<job, posts>>
    PROVE  Shown'
<1>1. PICK expires \in BOOLEAN :
        /\ row' = [row EXCEPT ![k] = Enqueued(k, expires)]
        /\ told' = IF row'[k].status = "SENT" THEN told \union {k} ELSE told
  BY DEF Enqueue
<1> DEFINE r == Enqueued(k, expires)
<1>2. /\ r \in Rows
      /\ row[k].status # "ABSENT" => r.status = row[k].status
      /\ row[k].status = "ABSENT" => r.status \in {"PENDING", "EXPIRED"}
  BY EnqueuedRow DEF Inv
<1> HIDE DEF r
<1>3. row'[k] = r /\ \A j \in Keys : j # k => row'[j] = row[j]
  BY <1>1, <1>2, RowUpdate DEF Inv, TypeOK, r
<1>4. \A j \in Keys : (row'[j].status = "SENT") <=> (row[j].status = "SENT")
  BY <1>2, <1>3
<1>5. \A j \in Keys : j \in told' => j \in told \/ row[j].status = "SENT"
  BY <1>1, <1>4
<1>. QED
  BY <1>4, <1>5 DEF Shown, Delivered

LEMMA ClaimShown ==
    ASSUME Inv, Shown, NEW k \in Keys, SetStatus(k, "SENDING"), job'.step = "claimed",
           UNCHANGED <<posts, told>>
    PROVE  Shown'
<1>1. /\ row'[k].status = "SENDING"
      /\ \A j \in Keys : j # k => row'[j] = row[j]
  BY StatusUpdate DEF SetStatus, Inv, TypeOK, Statuses
<1>. QED
  BY <1>1 DEF Shown, Delivered

LEMMA RawSendShown == ASSUME Unmuted, Inv, Shown, RawSend PROVE Shown'
<1>1. PICK out \in Outcomes :
        /\ job.step = "claimed"
        /\ posts' = [posts EXCEPT ![job.key] =
                        @ + out.silent + (IF out.answer = "delivered" THEN 1 ELSE 0)]
        /\ job' = [step |-> "answered", key |-> job.key, by |-> job.by,
                   before |-> job.before, answer |-> out.answer]
        /\ UNCHANGED <<row, told>>
  BY DEF RawSend
<1>2. out.silent \in Nat /\ out.answer \in {"delivered", "failed"}
  BY BoundsAssumption DEF Outcomes, Unmuted
<1>3. job # NoJob /\ job.key \in Keys
  BY <1>1, TypeParts DEF Inv, NoJob
<1>4. posts \in [Keys -> Nat]
  BY DEF Inv, TypeOK
<1>5. ASSUME NEW k \in Keys
      PROVE  /\ posts'[k] >= posts[k] /\ posts[k] \in Nat /\ posts'[k] \in Nat
             /\ k = job.key /\ out.answer = "delivered" => posts'[k] > 0
  <2>1. posts[k] \in Nat
    BY <1>4
  <2>2. CASE k # job.key
    BY <1>1, <1>4, <2>1, <2>2
  <2>3. CASE k = job.key
    <3>1. posts'[k] = posts[k] + out.silent + (IF out.answer = "delivered" THEN 1 ELSE 0)
      BY <1>1, <1>4, <2>3
    <3>. QED
      BY <1>2, <2>1, <3>1
  <2>. QED
    BY <2>2, <2>3
<1>6. job'.answer = out.answer /\ job'.key = job.key
  BY <1>1
<1>. QED
  BY <1>1, <1>2, <1>5, <1>6 DEF Shown, Delivered

LEMMA CompleteShown == ASSUME Inv, Shown, Complete PROVE Shown'
<1> DEFINE key == job.key
           handled == job.answer \in {"delivered", "muted"}
           status == IF handled THEN "SENT" ELSE AfterFailure(job.before)
           r == [row[key] EXCEPT !.status = status, !.attempts = @ + 1,
                                 !.due = IF handled THEN @ ELSE FALSE]
<1>1. /\ job.step = "answered" /\ job # NoJob /\ row' = [row EXCEPT ![key] = r]
      /\ Release(job.answer = "delivered") /\ UNCHANGED posts
  <2>1. job.step = "answered" /\ Release(job.answer = "delivered") /\ UNCHANGED posts
    BY Zenon DEF Complete
  <2>2. job # NoJob
    BY <2>1 DEF NoJob
  <2>3. row' = [row EXCEPT ![key] = r]
    BY DEF Complete
  <2>. QED
    BY <2>1, <2>2, <2>3
<1>2. key \in Keys /\ row[key] \in Rows /\ row \in [Keys -> Rows]
  BY <1>1, OwnRow, TypeParts DEF Inv, TypeOK
<1>3. r.status = status
  <2> HIDE DEF status, handled, key
  <2>. QED
    BY <1>2 DEF Rows
<1>4. status = "SENT" => job.answer = "delivered"
  BY <1>1 DEF Shown, AfterFailure
<1>5. job.answer = "delivered" => posts[key] > 0
  BY <1>1, <1>2 DEF Shown, Delivered
<1> HIDE DEF r
<1>6. row'[key] = r /\ \A k \in Keys : k # key => row'[k] = row[k]
  BY <1>1, <1>2
<1>7. job' = NoJob /\ \A k \in told' : k \in told \/ (k = key /\ job.answer = "delivered")
  BY <1>1 DEF Release
<1>. QED
  BY <1>1, <1>3, <1>4, <1>5, <1>6, <1>7 DEF Shown, Delivered

LEMMA StepShown == Unmuted /\ Inv /\ Shown /\ [Next]_vars => Shown'
<1> SUFFICES ASSUME Unmuted, Inv, Shown, [Next]_vars PROVE Shown'
  OBVIOUS
<1>1. ASSUME NEW k \in Keys, EnqueueWithResult(k) PROVE Shown'
  BY <1>1, EnqueueShown DEF EnqueueWithResult
<1>2. ASSUME NEW k \in Keys, NEW c \in Callers, SendWithResult(c, k) PROVE Shown'
  BY <1>2, EnqueueShown DEF SendWithResult
<1>3. ASSUME NEW c \in Callers, CallerClaims(c) PROVE Shown'
  <2>1. PICK k \in waiting[c] :
          /\ IF row[k].status \in Retryable
             THEN SetStatus(k, "SENDING") /\ job' = Claimed(k, c) /\ UNCHANGED waiting
             ELSE UNCHANGED <<row, job>> /\ waiting' = [waiting EXCEPT ![c] = {}]
          /\ UNCHANGED <<posts, told>>
    BY <1>3 DEF CallerClaims
  <2>2. k \in Keys
    BY <1>3 DEF Inv, TypeOK
  <2>3. CASE row[k].status \in Retryable
    BY <2>1, <2>2, <2>3, ClaimShown DEF Claimed
  <2>4. CASE row[k].status \notin Retryable
    BY <2>1, <2>4 DEF Shown, Delivered
  <2>. QED
    BY <2>3, <2>4
<1>4. CASE WorkerClaims
  <2>1. PICK i \in DOMAIN order :
          /\ SetStatus(order[i], "SENDING") /\ job' = Claimed(order[i], Worker)
          /\ UNCHANGED <<posts, told>>
    BY <1>4 DEF WorkerClaims
  <2>2. order[i] \in Keys
    BY DEF Inv, TypeOK
  <2>. QED
    BY <2>1, <2>2, ClaimShown DEF Claimed
<1>5. CASE ExpireClaimed
  <2>1. job.step = "claimed" /\ SetStatus(job.key, "EXPIRED")
    BY <1>5, Zenon DEF ExpireClaimed
  <2>2. job' = NoJob /\ told' = told /\ posts' = posts
    BY <1>5 DEF ExpireClaimed, Release
  <2>3. job.key \in Keys /\ row \in [Keys -> Rows] /\ "EXPIRED" \in Statuses
    BY <2>1, OwnRow DEF NoJob, Inv, TypeOK, Statuses, Final
  <2>4. /\ row'[job.key].status = "EXPIRED"
        /\ \A k \in Keys : k # job.key => row'[k] = row[k]
    BY <2>1, <2>3, StatusUpdate DEF SetStatus
  <2>. QED
    BY <2>2, <2>4 DEF Shown, Delivered
<1>6. CASE RawSend
  BY <1>6, RawSendShown
<1>7. CASE Complete
  BY <1>7, CompleteShown
<1>8. ASSUME NEW k \in Keys, BackoffEnds(k) PROVE Shown'
  <2>1. \A j \in Keys : (row'[j].status = "SENT") => (row[j].status = "SENT")
    BY <1>8 DEF BackoffEnds, Inv, TypeOK, Rows
  <2>. QED
    BY <1>8, <2>1 DEF BackoffEnds, Shown, Delivered
<1>9. ASSUME NEW k \in Keys, DeadlinePasses(k) PROVE Shown'
  BY <1>9 DEF DeadlinePasses, Shown, Delivered
<1>10. CASE Crash
  BY <1>10 DEF Crash, Shown, Delivered
<1>11. CASE Restart
  <2>1. \A k \in Keys : row'[k].status = "SENT" => row[k].status = "SENT"
    BY <1>11, TypeParts DEF Restart, Recovered, Inv, Rows
  <2>. QED
    BY <1>11, <2>1 DEF Restart, Shown, Delivered
<1>12. CASE UNCHANGED vars
  BY <1>12 DEF vars, Shown, Delivered
<1>. QED
  BY <1>1, <1>2, <1>3, <1>4, <1>5, <1>6, <1>7, <1>8, <1>9, <1>10, <1>11, <1>12 DEF Next

\* A row is SENT, and a caller is told "delivered", only after Telegram showed the
\* message - across retries, lost answers, deadlines and crashes, as long as no
\* alert level mutes messages (with one, the row of a muted message is SENT too).
THEOREM SentIsShown == Unmuted => (Spec => []SentMeansShown)
<1> SUFFICES ASSUME Unmuted PROVE Spec => []SentMeansShown
  OBVIOUS
<1>1. Init => Shown
  BY DEF Init, Shown, NoRow, Delivered
<1>2. Inv /\ Shown /\ [Next]_vars => Shown'
  BY StepShown
<1>3. Inv /\ Shown => SentMeansShown
  BY DEF Inv, TypeOK, Shown, SentMeansShown
<1>. QED
  BY <1>1, <1>2, <1>3, Invariance, PTL DEF Spec
(***************************************************************************)
(* The promise.                                                            *)
(*                                                                         *)
(* The safety half of Delivery's promise, step by step: a producer's first *)
(* enqueue accepts, a raw send offers, an expiry, a handled answer or a    *)
(* last failure closes, a restart closes what lapsed, and every other step *)
(* leaves the phases and the posts alone.  That every message is closed in *)
(* the end is the other half, and is left to the run outbox.               *)
(***************************************************************************)

PhaseOf(status) ==
    IF status = "ABSENT" THEN "new" ELSE IF status \in Final THEN "closed" ELSE "open"

PromisedStep == Promise!Next \/ UNCHANGED <<Phase, posts>>

LEMMA PhaseAt == \A k \in Keys : Phase[k] = PhaseOf(row[k].status)
BY DEF Phase, PhaseOf

LEMMA PhaseAtNext == Phase' = [k \in Keys |-> PhaseOf(row'[k].status)]
BY DEF Phase, PhaseOf

\* A step that touches one row changes that row's phase at most.
LEMMA PhaseMoves ==
    ASSUME NEW k \in Keys, \A j \in Keys : j # k => row'[j].status = row[j].status
    PROVE  Phase' = [Phase EXCEPT ![k] = PhaseOf(row'[k].status)]
<1>1. Phase' = [j \in Keys |-> PhaseOf(row'[j].status)]
  BY PhaseAtNext
<1>2. Phase = [j \in Keys |-> PhaseOf(row[j].status)]
  BY DEF Phase, PhaseOf
<1>. QED
  BY <1>1, <1>2

LEMMA PhaseStays ==
    ASSUME \A j \in Keys : PhaseOf(row'[j].status) = PhaseOf(row[j].status)
    PROVE  Phase' = Phase
<1>1. Phase' = [j \in Keys |-> PhaseOf(row'[j].status)]
  BY PhaseAtNext
<1>2. Phase = [j \in Keys |-> PhaseOf(row[j].status)]
  BY DEF Phase, PhaseOf
<1>. QED
  BY <1>1, <1>2

LEMMA EnqueuePromised ==
    ASSUME Inv, NEW k \in Keys, Enqueue(k), posts' = posts
    PROVE  PromisedStep
<1>1. PICK expires \in BOOLEAN : row' = [row EXCEPT ![k] = Enqueued(k, expires)]
  BY DEF Enqueue
<1> DEFINE r == Enqueued(k, expires)
<1>2. /\ r \in Rows
      /\ row[k].status # "ABSENT" => r.status = row[k].status
      /\ row[k].status = "ABSENT" => r.status \in {"PENDING", "EXPIRED"}
  BY EnqueuedRow DEF Inv
<1> HIDE DEF r
<1>3. row'[k] = r /\ \A j \in Keys : j # k => row'[j] = row[j]
  BY <1>1, <1>2, RowUpdate DEF Inv, TypeOK, r
<1>4. CASE row[k].status # "ABSENT"
  BY <1>2, <1>3, <1>4, PhaseStays DEF PromisedStep
<1>5. CASE row[k].status = "ABSENT"
  <2>1. Phase' = [Phase EXCEPT ![k] = PhaseOf(r.status)]
    BY <1>3, PhaseMoves
  <2>2. PhaseOf(r.status) \in {"open", "closed"}
    BY <1>2, <1>5 DEF PhaseOf, Final
  <2>3. Phase[k] = "new"
    BY <1>5, PhaseAt DEF PhaseOf
  <2>4. Promise!Accept(k)
    BY <2>1, <2>2, <2>3 DEF Promise!Accept
  <2>. QED
    BY <2>4 DEF PromisedStep, Promise!Next
<1>. QED
  BY <1>4, <1>5

LEMMA ClaimPromised ==
    ASSUME Inv, NEW k \in Keys, row[k].status \in Retryable, SetStatus(k, "SENDING"),
           posts' = posts
    PROVE  PromisedStep
<1>1. "SENDING" \in Statuses /\ row \in [Keys -> Rows]
  BY DEF Statuses, Inv, TypeOK
<1>2. row'[k].status = "SENDING" /\ \A j \in Keys : j # k => row'[j] = row[j]
  BY <1>1, StatusUpdate DEF SetStatus
<1>3. Phase' = Phase
  BY <1>2, PhaseStays DEF PhaseOf, Retryable, Final
<1>. QED
  BY <1>3 DEF PromisedStep

\* The attempt's row, when it is settled.
LEMMA SettlePromised ==
    ASSUME Inv, job # NoJob, posts' = posts,
           row'[job.key].status \in Final,
           \A j \in Keys : j # job.key => row'[j] = row[j]
    PROVE  PromisedStep
<1>1. job.key \in Keys /\ row[job.key].status = "SENDING"
  BY OwnRow
<1>2. Phase' = [Phase EXCEPT ![job.key] = "closed"]
  <2>1. Phase' = [Phase EXCEPT ![job.key] = PhaseOf(row'[job.key].status)]
    BY <1>1, PhaseMoves
  <2>. QED
    BY <2>1 DEF PhaseOf, Final
<1>3. Phase[job.key] = "open"
  BY <1>1, PhaseAt DEF PhaseOf, Final
<1>4. Promise!Close(job.key)
  BY <1>2, <1>3 DEF Promise!Close
<1>. QED
  BY <1>1, <1>4 DEF PromisedStep, Promise!Next

LEMMA ExpirePromised == Inv /\ ExpireClaimed => PromisedStep
<1> SUFFICES ASSUME Inv, ExpireClaimed PROVE PromisedStep
  OBVIOUS
<1>1. job.step = "claimed" /\ SetStatus(job.key, "EXPIRED") /\ posts' = posts
  BY Zenon DEF ExpireClaimed
<1>2. job # NoJob /\ job.key \in Keys /\ row \in [Keys -> Rows] /\ "EXPIRED" \in Statuses
  BY <1>1, OwnRow DEF NoJob, Inv, TypeOK, Statuses, Final
<1>3. /\ row'[job.key].status = "EXPIRED"
      /\ \A k \in Keys : k # job.key => row'[k] = row[k]
  BY <1>1, <1>2, StatusUpdate DEF SetStatus
<1>. QED
  BY <1>1, <1>2, <1>3, SettlePromised DEF Final

LEMMA CompletePromised == Inv /\ Complete => PromisedStep
<1> SUFFICES ASSUME Inv, Complete PROVE PromisedStep
  OBVIOUS
<1> DEFINE handled == job.answer \in {"delivered", "muted"}
           status == IF handled THEN "SENT" ELSE AfterFailure(job.before)
           r == [row[job.key] EXCEPT !.status = status, !.attempts = @ + 1,
                                     !.due = IF handled THEN @ ELSE FALSE]
<1>1. job # NoJob /\ posts' = posts
  BY DEF Complete, NoJob
<1>2. job.key \in Keys /\ row[job.key] \in Rows /\ row \in [Keys -> Rows]
  BY <1>1, OwnRow, TypeParts DEF Inv, TypeOK
<1>3. status \in {"SENT", "DEAD_LETTER", "FAILED_RETRYABLE"}
  BY DEF AfterFailure
<1>4. row' = [row EXCEPT ![job.key] = r]
  BY DEF Complete
<1>5. r.status = status
  BY <1>2 DEF Rows
<1> HIDE DEF r, status
<1>6. row'[job.key].status = status /\ \A k \in Keys : k # job.key => row'[k] = row[k]
  BY <1>2, <1>4, <1>5
<1>7. CASE status \in Final
  BY <1>1, <1>6, <1>7, SettlePromised
<1>8. CASE status = "FAILED_RETRYABLE"
  <2>1. row[job.key].status = "SENDING"
    BY <1>1, OwnRow
  <2>2. Phase' = Phase
    BY <1>6, <1>8, <2>1, PhaseStays DEF PhaseOf, Final
  <2>. QED
    BY <1>1, <2>2 DEF PromisedStep
<1>. QED
  BY <1>3, <1>7, <1>8 DEF Final

\* One raw send shows at most one message per try.
LEMMA RawSendPromised == Inv /\ RawSend => PromisedStep
<1> SUFFICES ASSUME Inv, RawSend PROVE PromisedStep
  OBVIOUS
<1>1. PICK out \in Outcomes :
        /\ job.step = "claimed"
        /\ posts' = [posts EXCEPT ![job.key] =
                        @ + out.silent + (IF out.answer = "delivered" THEN 1 ELSE 0)]
        /\ row' = row
  BY DEF RawSend
<1> DEFINE n == out.silent + (IF out.answer = "delivered" THEN 1 ELSE 0)
<1>2. /\ RawRetries \in Nat /\ out.silent \in Nat /\ n \in 0..(RawRetries + 1)
  BY BoundsAssumption DEF Outcomes
<1>3. job.key \in Keys /\ row[job.key].status = "SENDING"
  BY <1>1, OwnRow DEF NoJob
<1>4. posts' = [posts EXCEPT ![job.key] = @ + n]
  <2>1. posts[job.key] \in Nat
    BY <1>3 DEF Inv, TypeOK
  <2>2. posts[job.key] + out.silent + (IF out.answer = "delivered" THEN 1 ELSE 0)
          = posts[job.key] + n
    BY <1>2, <2>1
  <2> HIDE DEF n
  <2>. QED
    BY <1>1, <2>2
<1> HIDE DEF n
<1>5. Phase' = Phase /\ Phase[job.key] = "open"
  BY <1>1, <1>3, PhaseStays, PhaseAt DEF PhaseOf, Final
<1>6. Promise!Offer(job.key)
  BY <1>2, <1>4, <1>5 DEF Promise!Offer
<1>. QED
  BY <1>3, <1>6 DEF PromisedStep, Promise!Next

LEMMA RestartPromised == Inv /\ Restart => PromisedStep
<1> SUFFICES ASSUME Inv, Restart PROVE PromisedStep
  OBVIOUS
<1>1. row' = [k \in Keys |-> Recovered(k)] /\ posts' = posts
  BY DEF Restart
<1> DEFINE closed == {k \in Keys : PhaseOf(row[k].status) = "open"
                                    /\ PhaseOf(row'[k].status) = "closed"}
<1>2. ASSUME NEW k \in Keys
      PROVE  \/ PhaseOf(row'[k].status) = PhaseOf(row[k].status)
             \/ PhaseOf(row[k].status) = "open" /\ PhaseOf(row'[k].status) = "closed"
  <2>1. row[k] \in Rows /\ row'[k] = Recovered(k)
    BY <1>1, TypeParts DEF Inv
  <2>2. \/ row'[k].status = row[k].status
        \/ /\ row[k].status \in {"PENDING", "FAILED_RETRYABLE", "SENDING"}
           /\ row'[k].status = "EXPIRED"
        \/ row[k].status = "SENDING" /\ row'[k].status = "FAILED_RETRYABLE"
    BY <2>1 DEF Recovered, Rows, Retryable
  <2>. QED
    BY <2>2 DEF PhaseOf, Final
<1>3. \A k \in closed : Phase[k] = "open"
  BY PhaseAt
<1>4. Phase' = [k \in Keys |-> IF k \in closed THEN "closed" ELSE Phase[k]]
  BY <1>2, PhaseAt, PhaseAtNext
<1>5. Promise!CloseSome(closed)
  <2> HIDE DEF closed
  <2>. QED
    BY <1>1, <1>3, <1>4 DEF Promise!CloseSome
<1>. QED
  BY <1>5 DEF PromisedStep, Promise!Next

LEMMA StepPromised == Inv /\ [Next]_vars => PromisedStep
<1> SUFFICES ASSUME Inv, [Next]_vars PROVE PromisedStep
  OBVIOUS
<1>1. ASSUME NEW k \in Keys, EnqueueWithResult(k) PROVE PromisedStep
  BY <1>1, EnqueuePromised DEF EnqueueWithResult
<1>2. ASSUME NEW k \in Keys, NEW c \in Callers, SendWithResult(c, k) PROVE PromisedStep
  BY <1>2, EnqueuePromised DEF SendWithResult
<1>3. ASSUME row' = row, posts' = posts PROVE PromisedStep
  BY <1>3, PhaseStays DEF PromisedStep
<1>4. ASSUME NEW c \in Callers, CallerClaims(c) PROVE PromisedStep
  <2>1. PICK k \in waiting[c] :
          /\ \/ row[k].status \in Retryable /\ SetStatus(k, "SENDING")
             \/ row' = row
          /\ posts' = posts
    BY <1>4 DEF CallerClaims
  <2>2. k \in Keys
    BY <1>4 DEF Inv, TypeOK
  <2>. QED
    BY <1>3, <2>1, <2>2, ClaimPromised
<1>5. CASE WorkerClaims
  <2>1. PICK i \in DOMAIN order :
          IsDue(order[i]) /\ SetStatus(order[i], "SENDING") /\ posts' = posts
    BY <1>5 DEF WorkerClaims
  <2>2. order[i] \in Keys
    BY DEF Inv, TypeOK
  <2>. QED
    BY <2>1, <2>2, ClaimPromised DEF IsDue
<1>6. ASSUME NEW k \in Keys, BackoffEnds(k) PROVE PromisedStep
  <2>1. row' = [row EXCEPT ![k].due = TRUE] /\ row \in [Keys -> Rows] /\ posts' = posts
    BY <1>6 DEF BackoffEnds, Inv, TypeOK
  <2>2. \A j \in Keys : row'[j].status = row[j].status
    BY <2>1 DEF Rows
  <2>. QED
    BY <2>1, <2>2, PhaseStays DEF PromisedStep
<1>7. CASE (\E k \in Keys : DeadlinePasses(k)) \/ Crash \/ UNCHANGED vars
  BY <1>3, <1>7 DEF DeadlinePasses, Crash, vars
<1>. QED
  BY <1>1, <1>2, <1>4, <1>5, <1>6, <1>7, ExpirePromised, CompletePromised, RawSendPromised,
     RestartPromised DEF Next

\* The outbox implements Delivery but for its fairness: a message is offered only
\* while it is open, closed at most once and never offered or reopened after that,
\* and one offer shows it at most once per try - across producers, the worker,
\* lost answers, deadlines, crashes and recoveries.
THEOREM KeepsPromiseSafely == Spec => Promise!Init /\ [][Promise!Next]_<<Phase, posts>>
<1>1. Init => Promise!Init
  BY DEF Init, Promise!Init, Phase, NoRow
<1>2. Inv /\ [Next]_vars => [Promise!Next]_<<Phase, posts>>
  BY StepPromised DEF PromisedStep
<1>. QED
  BY <1>1, <1>2, Invariance, PTL DEF Spec
=============================================================================
