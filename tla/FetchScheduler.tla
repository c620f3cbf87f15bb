--------------------------- MODULE FetchScheduler ---------------------------
(***************************************************************************)
(* The dashboard's refresh loop and its pool of fetching threads.  Each    *)
(* cycle discovers the assets' markets, harvests the fetches in flight,    *)
(* abandons those that hang, submits new ones, waits up to a deadline and  *)
(* publishes a snapshot of what arrived; a market's volume comes from a    *)
(* second pool and is cached.  The market of an asset is named by the      *)
(* window it trades in; a fetch by the market it was submitted for.        *)
(***************************************************************************)
EXTENDS Naturals, Sequences, FiniteSets, SequencesExt

CONSTANTS
    Assets,
    Workers,    \* max_workers of the fetching pool
    MaxWindow,  \* bounds the windows that go by
    MaxHung,    \* bounds the fetches that hang at the same time
    Detailed    \* bounds the assets whose details are fetched

ASSUME SchedulerConstants ==
    /\ IsFiniteSet(Assets) /\ Workers \in Nat \ {0}
    /\ MaxWindow \in Nat \ {0} /\ MaxHung \in 0..Workers
    /\ Detailed \subseteq Assets

VARIABLES
    window,     \* the window the exchange trades in
    struck,     \* the assets whose market has its strike
    current,    \* current_markets
    loop,       \* where refresh_loop is
    inflight,   \* inflight: the fetch of each asset that is tracked
    queue,      \* the pool's queue of fetches no thread has taken up
    abandoned,  \* how many fetches run on untracked
    results,    \* the markets of the answers of this cycle
    detailing, detail,  \* detail_inflight and detail_cache, by market
    engine,     \* the market of each asset's engine
    published   \* each asset's last live snapshot: its market, and its volume's

exchange == <<window, struck>>
pool == <<inflight, queue, abandoned>>
details == <<detailing, detail>>
shown == <<engine, published>>
vars == <<exchange, current, loop, pool, results, details, shown>>

Windows == 1..MaxWindow
None == 0
Markets == {None} \cup Windows
NoMarket == [ticker |-> None, live |-> FALSE]
Market == {NoMarket} \cup [ticker : Windows, live : BOOLEAN]
NoFetch == [at |-> "none"]
\* mine: the fetch was submitted in this cycle.
Fetch == {NoFetch}
         \cup [at : {"queued", "running", "hung", "done", "failed"},
               ticker : Windows, mine : BOOLEAN]
NoDetail == [at |-> "none"]
Detail == {NoDetail} \cup [at : {"running", "done", "failed"}, ticker : Windows]

TypeOK ==
    /\ window \in Windows /\ struck \in SUBSET Assets
    /\ current \in [Assets -> Market]
    /\ loop \in {"discover", "submit", "wait", "detail", "ingest"}
    /\ inflight \in [Assets -> Fetch] /\ queue \in Seq(Assets)
    /\ abandoned \in 0..Workers
    /\ results \in [Assets -> Markets]
    /\ detailing \in [Assets -> Detail] /\ detail \in [Assets -> Markets]
    /\ engine \in [Assets -> Markets]
    /\ published \in [Assets -> [ticker : Markets, volume : Markets]]

All(x) == [a \in Assets |-> x]

Init ==
    /\ window = 1 /\ struck = {}
    /\ current = All(NoMarket) /\ loop = "discover"
    /\ inflight = All(NoFetch) /\ queue = <<>> /\ abandoned = 0
    /\ results = All(None)
    /\ detailing = All(NoDetail) /\ detail = All(None)
    /\ engine = All(None) /\ published = All([ticker |-> None, volume |-> None])

(***************************************************************************)
(* The exchange: a market opens, gets its strike and closes.               *)
(***************************************************************************)

Strike(a) ==
    /\ a \notin struck /\ struck' = struck \cup {a}
    /\ UNCHANGED <<window, current, loop, pool, results, details, shown>>

Roll ==
    /\ window < MaxWindow /\ window' = window + 1 /\ struck' = {}
    /\ UNCHANGED <<current, loop, pool, results, details, shown>>

(***************************************************************************)
(* The threads of the pool.                                                *)
(***************************************************************************)

At(place) == {a \in Assets : inflight[a].at = place}
Stuck == Cardinality(At("hung")) + abandoned
Busy == Stuck + Cardinality(At("running"))

\* A free thread takes up the oldest fetch; it answers in bounded time, or hangs.
TakeUpAs(a, at) ==
    /\ queue # <<>> /\ a = Head(queue) /\ Busy < Workers
    /\ at = "hung" => Stuck < MaxHung
    /\ queue' = Tail(queue)
    /\ inflight' = [inflight EXCEPT ![a].at = at]
    /\ UNCHANGED <<exchange, current, loop, abandoned, results, details, shown>>
TakeUp == \E a \in Assets : TakeUpAs(a, "running") \/ TakeUpAs(a, "hung")

Answers(a, at) ==
    /\ inflight' = [inflight EXCEPT ![a].at = at]
    /\ UNCHANGED <<exchange, current, loop, queue, abandoned, results, details, shown>>

Succeed(a) == inflight[a].at = "running" /\ Answers(a, "done")
Fail(a) == inflight[a].at = "running" /\ Answers(a, "failed")

\* A fetch that hung may answer all the same, tracked or not.
AnswerLate(a) == inflight[a].at = "hung" /\ Answers(a, "done")
AnswerNobody ==
    /\ abandoned > 0 /\ abandoned' = abandoned - 1
    /\ UNCHANGED <<exchange, current, loop, inflight, queue, results, details, shown>>

(***************************************************************************)
(* The refresh loop.                                                       *)
(***************************************************************************)

\* discover_single: the soonest market that has not closed.
Soonest(a) == [ticker |-> window, live |-> a \in struck]
Expired(market) == market.ticker # None /\ market.ticker < window

\* Discovery finds the markets of some assets, by its interval or because they
\* expired; an expired market that has no successor yet is dropped.
Discover ==
    /\ loop = "discover" /\ loop' = "submit"
    /\ \E found \in SUBSET Assets :
         current' = [a \in Assets |->
                       IF a \in found THEN Soonest(a)
                       ELSE IF Expired(current[a]) THEN NoMarket ELSE current[a]]
    /\ UNCHANGED <<exchange, pool, results, details, shown>>

Active == {a \in Assets : current[a].live}
Answered == {a \in Assets : inflight[a].at \in {"done", "failed"}}

\* FETCH_INFLIGHT_TTL is far above the time of a fetch that answers: what
\* passes it hangs, or is queued behind threads that all hang.
BugOverdue == {}
Overdue == {a \in Assets : \/ inflight[a].at = "hung"
                           \/ inflight[a].at = "queued" /\ Stuck = Workers}

\* Cancelling takes a queued fetch out of the pool's queue.
Left(dropped) ==
    LET left[i \in 0..Len(queue)] ==
          IF i = 0 THEN <<>>
          ELSE IF queue[i] \in dropped THEN left[i - 1]
          ELSE Append(left[i - 1], queue[i])
    IN  left[Len(queue)]

BugKept(gone, a) == inflight[a].at \in {"running", "hung"} /\ a \notin gone
Kept(gone, a) == inflight[a].at # "none" /\ a \notin gone

\* _harvest_and_submit, up to the wait.  Cancelling leaves a running fetch running.
HarvestAndSubmit ==
    /\ loop = "submit" /\ loop' = "wait"
    /\ \E dropped \in SUBSET Overdue :
         LET gone == Answered \cup dropped
             new == {a \in Active : ~Kept(gone, a)}
         IN
           /\ inflight' = [a \in Assets |->
                IF a \in new
                THEN [at |-> "queued", ticker |-> current[a].ticker, mine |-> TRUE]
                ELSE IF Kept(gone, a) THEN [inflight[a] EXCEPT !.mine = FALSE]
                ELSE NoFetch]
           /\ queue' = Left(dropped) \o SetToSeq(new)
           /\ abandoned' = abandoned + Cardinality(dropped \cap At("hung"))
    /\ results' = [a \in Assets |->
                     IF inflight[a].at = "done" THEN inflight[a].ticker ELSE None]
    /\ UNCHANGED <<exchange, current, details, shown>>

\* as_completed yields a fetch of this cycle.
Yield(a) ==
    /\ loop = "wait" /\ a \in Answered /\ inflight[a].mine
    /\ results' = IF inflight[a].at = "done"
                  THEN [results EXCEPT ![a] = inflight[a].ticker] ELSE results
    /\ inflight' = [inflight EXCEPT ![a] = NoFetch]
    /\ UNCHANGED <<exchange, current, loop, queue, abandoned, details, shown>>

\* All of them were yielded, or the deadline passed.
WaitEnds ==
    /\ loop = "wait" /\ loop' = "detail"
    /\ UNCHANGED <<exchange, current, pool, results, details, shown>>

\* The detail fetches: harvest, submit those that are due, prune the cache.
HarvestDetails ==
    /\ loop = "detail" /\ loop' = "ingest"
    /\ \E due \in SUBSET (Active \cap Detailed) :
         LET running == {a \in Assets : detailing[a].at = "running"}
             got == [a \in Assets |-> IF detailing[a].at = "done"
                                      THEN detailing[a].ticker ELSE detail[a]]
             inFlight == running \cup due
         IN
           /\ detailing' = [a \in Assets |->
                IF a \in running THEN detailing[a]
                ELSE IF a \in due
                THEN [at |-> "running", ticker |-> current[a].ticker]
                ELSE NoDetail]
           /\ detail' = [a \in Assets |->
                IF a \in inFlight \/ (a \in Active /\ got[a] = current[a].ticker)
                THEN got[a] ELSE None]
    /\ UNCHANGED <<exchange, current, pool, results, shown>>

\* A thread of the second pool; no bound is set on its answer.
AnswerDetail(a, at) ==
    /\ detailing[a].at = "running"
    /\ detailing' = [detailing EXCEPT ![a].at = at]
    /\ UNCHANGED <<exchange, current, loop, pool, results, detail, shown>>

\* _fetch_result_is_current: the answer is of the asset's market, which is live.
BugIsCurrent(a) == a \in Active
IsCurrent(a) == a \in Active /\ results[a] = current[a].ticker

\* _resolve_cached_detail.
BugResolved(a) == detail[a]
Resolved(a) == IF detail[a] = current[a].ticker THEN detail[a] ELSE None

\* Answers that are not of the live market are dropped; ingesting or building a
\* snapshot may fail, for one asset at a time.
Ingest ==
    /\ loop = "ingest" /\ loop' = "discover"
    /\ LET good == {a \in Assets : results[a] # None /\ IsCurrent(a)}
       IN \E built \in SUBSET good :
            /\ engine' = [a \in Assets |-> IF a \in good THEN results[a] ELSE engine[a]]
            /\ published' = [a \in Assets |->
                 IF a \in built
                 THEN [ticker |-> results[a], volume |-> Resolved(a)]
                 ELSE published[a]]
    /\ results' = All(None)
    /\ UNCHANGED <<exchange, current, pool, details>>

Loop == Discover \/ HarvestAndSubmit \/ WaitEnds \/ HarvestDetails \/ Ingest

Next ==
    \/ Roll \/ TakeUp \/ AnswerNobody \/ Loop
    \/ \E a \in Assets :
         \/ Strike(a) \/ Succeed(a) \/ Fail(a) \/ AnswerLate(a)
         \/ Yield(a) \/ AnswerDetail(a, "done") \/ AnswerDetail(a, "failed")

Spec == Init /\ [][Next]_vars

(***************************************************************************)
(* The loop cycles forever.  A free thread takes up what is queued, an     *)
(* upstream does not hang on every request, and answers not by an          *)
(* exception forever.  An overdue fetch is abandoned: the loop compares    *)
(* its age in every cycle.                                                 *)
(***************************************************************************)
Abandon(a) == HarvestAndSubmit /\ inflight[a].at = "hung" /\ inflight'[a].at # "hung"

Fairness ==
    /\ WF_vars(Loop) /\ WF_vars(TakeUp)
    /\ \A a \in Assets : WF_vars(Succeed(a) \/ Fail(a)) /\ SF_vars(Succeed(a))
                         /\ SF_vars(TakeUpAs(a, "running")) /\ SF_vars(Abandon(a))

FairSpec == Spec /\ Fairness

(***************************************************************************)
(* Properties.                                                             *)
(***************************************************************************)

\* However late an answer comes and however the markets roll over meanwhile,
\* an asset's engine and snapshot never go back to an earlier market, and a
\* market that is not the asset's live one is never ingested.
NeverGoesBack ==
    [][\A a \in Assets :
         /\ engine'[a] >= engine[a] /\ published'[a].ticker >= published[a].ticker
         /\ engine'[a] # engine[a] => a \in Active /\ engine'[a] = current[a].ticker]_vars

\* No snapshot shows another market's volume, although a detail fetch of a
\* market that closed may answer after the rollover and stays in the cache
\* while the next one is in flight.
VolumeIsOwn == \A a \in Assets : published[a].volume \in {None, published[a].ticker}

\* While a thread is left that does not hang, every live market is served in
\* the end, or is no longer the asset's live market: a fetch that hangs is
\* replaced although it keeps its thread.
Served(a) == loop = "ingest" /\ results[a] # None /\ IsCurrent(a)
LiveMarketIsServed ==
    \A a \in Assets : \A w \in Windows :
      current[a] = [ticker |-> w, live |-> TRUE]
        ~> Served(a) \/ current[a] # [ticker |-> w, live |-> TRUE]
=============================================================================
