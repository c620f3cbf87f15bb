# A verification development for the Q15 trading monitor

The repository is a Python program that watches Kalshi's 15-minute crypto
contracts, announces picks over Telegram, and can place real-money orders for
them. This directory holds TLA+ models of the parts that carry its protocols:
the **real-money executor** (`q15_upgrade/executor/`), the **durable Telegram
outbox** (`notifications/outbox_v9.py`), the **UltoIM v2 runner**
(`q15_upgrade/ultoim_v2/`), which decides what the executor is asked to do, the
**official report** of a checkpoint (`q15_upgrade/checkpoint_v95.py` and its
ledgers), the **Kalshi order-book feed** (`q15_upgrade/ws_client.py`), from
which everything is priced, the **refresh loop's fetches** (`app.py`) and
the **pages** that tell an operator when that loop has stopped
(`cycle_watchdog.py`). It says what they promise, model-checks it with TLC
on small instances and proves the parts that matter most with TLAPS for every
value of the constants.

1. Inventory
2. Modules and the code they model
3. Runs: what each checks, its bounds, what it shows
4. Where the code and its comments disagree
5. Proofs
6. Limits of the models
7. Plan

## 1. Inventory

The program is one process with many daemon threads. Feeds (WebSocket clients)
write shared snapshots under locks; the dashboard loop in `app.py` fetches
markets, runs the v9.5 checkpoint policy over the cycle and hands each cycle to
a set of *runners*; a runner queues jobs to one worker thread of its own,
records picks in a SQLite or Postgres ledger, announces them through the outbox,
and one of them (UltoIM v2) calls the executor.

```
 Kalshi, spot feeds --> app.refresh_loop --> v9.5 policy ------+--> outbox --> Telegram
  (KalshiBook)         (FetchScheduler)      (OfficialReport)  |  (TelegramOutbox)
                             |                                 |
                             |    \--> cycle watchdog --> pages
                             |         (HeartbeatPager)        |
                             |                                 |
                             +--> ultoim_v2 runner ------------+
                                  (UltoimRunner)
                                    |  on_fire / on_exit (one worker thread)
                                    v
                                  executor --> order store (SQLite/Postgres)
                                  (Executor, DailyStop)
                                    |
                                    +--> Kalshi REST: orders, cancels, balance
```

| component | state | operations | hard behaviour | correct when |
|---|---|---|---|---|
| executor: risk policy (`risk.py`) | none (pure); `PortfolioState` values | `decide`, `apply_fill`, `prune_settled`, `apply_exit` | integer rounding, views of one portfolio drifting apart | an order fits every budget; the views agree |
| executor: process (`executor.py`) | portfolio, entry order ids, day reference, switches | `on_fire`, `on_exit`, boot | lost answers, restarts, switches flipped mid-call, GTC entries that fill late | the exchange never holds more than the caps allow, positions stay closable |
| executor: client, store, config | order rows, meta rows, environment | POST, DELETE, balance; record, read back | failing writes and reads, torn writes | what is read back is what was booked |
| Telegram outbox (`outbox_v9.py`) | table `q15_telegram_outbox`, delivery lock | enqueue, claim, attempt, complete, expire, recover | crash mid-send, lost answer, two threads on one row | nothing lost, duplicates explained, SENT is true |
| notifier and client (`notifier.py`, `telegram_client.py`) | counters | raw send with retries, mute | lost answers inside the retries | outcome reported truthfully |
| UltoIM v2 runner and ledger | observe queue, exit debounce; picks, report and alert locks, exit warnings | observe, decide a mark, record, alert, offer, watch, warn, sell | crash between claim and order, full queue, locks claimed before or after the act | at most one order and card per contract, no sale lost without a cause |
| checkpoints, decision ledger, shadow ledger | predictions, report lock, official record, entry slot, follow-ups, delivery statuses; verdict count and prediction cache in memory | record, settle, claim, send, credit, arm, follow up, reconcile | two processes of a deploy, a send whose answer is late, lost or muted, an error between two statements | one report per checkpoint and window, and records that agree with what was shown |
| Kalshi WebSocket client | wanted and subscribed sets, books, event and trade histories | subscribe, reconnect, snapshot, delta, trade | a wake-up between two threads, messages of evicted contracts, gaps | best prices are those of the book, histories span no gap |
| Q15 runtime and signals | per-asset candidate, confirmation, cool-down; alert latches | update, finalize | latch reset against a permanent claim key, grace periods | an alert per confirmed entry, none twice |
| dashboard loop, fetch scheduler (`app.py`) | active markets, in-flight fetches and details, the pool's threads | discover, harvest, submit, abandon, wait, ingest | answers after a rollover, fetches that hang, results of two cycles for one asset | only the active market's answers are used; a hanging fetch starves nobody |
| cycle watchdog | heartbeat and cooldown files, cooldowns in memory, alerted marks | beat, tick, claim, page, observe feeds | cooldown and mark set before the send, restarts between them, a disk that cannot be written | every outage is announced, none twice within its cooldown, no false alarm |
| path recorder, market cache | sampled paths, flushed keys, bounded queue | sample, flush | queue full after the key is marked | a window's path is written once |
| shared database layer (`db.py`) | connections, claimed events | `claim_event` | error read as "not won" | one winner per event |
| market data assembly (`hybrid_data.py`) | connection last seen, bootstrapped tickers | choose WebSocket or REST, backfill | gaps noticed by comparing two looks, marks set after slow calls | no trade of a contract is skipped |
| spot feeds | books, candles | maintain, derive | stale feeds | - |
| strategy bots, research runners, learning, analysis, reports, routes, tools | paper ledgers, statistics | record, settle, report | no order depends on them | - |

`PROJECT.json` lists every component with its status, and under `hazards` every
place where this code is hard to test, with the properties that watch it or the
reason none does.

The models cover the paths on which the program acts on the world. Most of its
lines are elsewhere: research bots and strategies that keep paper books,
statistics, figures and report layout. They were left out on purpose (section 6).

## 2. Modules and the code they model

| module | models | extends / instantiates |
|---|---|---|
| `RiskDecide` | `executor/risk.py`: `decide` and the three portfolio updates | - |
| `Executor` | `executor.py`, `trading_client.py`, `store.py` and the exchange | `RiskDecide`, `EntryLimit` |
| `EntryLimit` | abstract: at most `MaxPicks` contracts per window, each once | - |
| `DailyStop` | the daily loss breaker and its stored reference | `RiskDecide` (the guard) |
| `TelegramOutbox` | `notifications/outbox_v9.py` and the outcomes of a raw send | `Delivery` |
| `Delivery` | abstract: an accepted message is closed in the end, a closed one never shown again | - |
| `UltoimRunner` | `ultoim_v2/runner.py` and its ledger over one window | - |
| `OfficialReport` | the report of one checkpoint: `checkpoint_v95.py`, `ledger_v95.py`, `challenger/ledger.py` | - |
| `KalshiBook` | `ws_client.py`: subscriptions, books, histories | - |
| `FetchScheduler` | `app.py`: the refresh loop's discovery, fetches, details and ingestion | - |
| `HeartbeatPager` | `cycle_watchdog.py`: heartbeat, supervisor, exit and manifest pages, their cooldown | - |
| `MC*` | the instances the runs check | |
| `*Proofs` | theorems and their proofs (`ExecutorProofs` also holds those about `RiskDecide`) | |

**RiskDecide.** One operator per guard of `decide()` (`RightSide`,
`PriceInBand`, `BtcGateOpen`, `TickerIsNew`, `WindowHasRoom`, ...), conjoined in
`Admitted`; sizing in `BaseStake`, `WindowBudget`, `Stake`, `LimitPrice`,
`ContractCount`; the result in `Decide`. Money is whole cents as in the code,
and `PercentOf` rounds half to even as Python's `round` does. Probabilities and
percentages the code holds as floats are whole percents. `PortfolioState` is the
record `Books`; its dicts are total functions whose default is that of the
code's `.get`.

**Executor.** The runner calls `on_fire` and `on_exit` from one worker thread,
so calls do not overlap; but each call leaves the process, and there the rest of
the world goes on. `pc` says where the call is:

| code | actions |
|---|---|
| `get_executor()`, `Executor.__init__`, `_rehydrate_window_cap` | `Boot`; `RefreshSwitches` at the start of every call |
| `on_fire`: prune, decide | `Fire(p)` |
| `place_order` of an entry | `PostSimulated`, `PostAccepted`, `PostNotAccepted` |
| `record_order_result`, `apply_fill`, the order id | `BookEntry` |
| `on_exit`: cancel; `NO_POSITION` | `ExitBegin(t)`, `ExitCancel` |
| the reduce-only sell; record and `apply_exit` | `ExitSell`, `BookExit` |
| exchange, clock, operator, death of the process | `FillResting(t)`, `NextWindow`, `FlipSwitch`, `Stop` |

The store keeps what a restart can read back: the newest row of each contract
and posture with `http_ok=1`. A ticker stands for its (window, ticker) key and
for its client order ids, which the exchange accepts once. `Faults` selects what
the environment does; the action a fault enables is guarded by it and nothing
else in the model is.

**DailyStop.** `Boot` (with `_load_day_reference`), `Persist` (the second of the
two writes of `_persist_day_reference`), `Fire` (`_refresh_daily_pnl` with the
day's rollover), `Admit` or `Refuse`, an account that anyone may move, and the
calendar. `firstRead` and `lastRead` are observations: the first balance that
any process read today, and the last one that a call read.

**TelegramOutbox.** Each transaction of the backend is a step:
`EnqueueWithResult` and `SendWithResult` insert; `CallerClaims` and
`WorkerClaims` claim under the delivery lock; `ExpireClaimed`, `RawSend` and
`Complete` are the three ends of an attempt; `BackoffEnds`, `DeadlinePasses`,
`Crash` and `Restart` (`recover`) are time and failure. A row's
`next_attempt_at` is the flag `due`. `Outcomes` lists what a raw send can come
to: shown and answered, shown and not answered, not shown, muted; `RawRetries`
is the number of retries inside one send, as `TelegramSendClient` makes.

**UltoimRunner.** One settlement window. The loop's thread enqueues, the worker
takes one snapshot at a time, and every durable statement is a step of its own,
so that a crash or an error falls between any two.

| code | actions |
|---|---|
| `observe`: build the job, `put_nowait` or drop | `Observe` |
| `_worker_loop`, the head of `_observe_sync` | `TakeJob`, `FinishJob` |
| a mark in its band: `report_locked`, `lock_report`, the choice of picks in `_decide_interval` and `_decide_10m_selective` | `DecideInterval(i)` with `MainPicks`, `NotifyPicks`, `ResearchYes`, `LiveYes` |
| `_record_and_maybe_alert`, statement by statement | `StartPick`, `RecordDecision`, `MarkRecorded`, `ClaimAlert`, `OnFire`, `SendCard`, `MarkDelivery` |
| `_maybe_execute_yes`: check, post, then claim | `OfferYes`, `ClaimYes` |
| `_maybe_exit_warning`: debounce, hold time, record | `Watch(t)` |
| `_send_exit_warning`, `mark_exit_delivery`, the sale | `WarnSend`, `WarnMark`, `OnExit` |
| `refresh_exit_warning_delivery_statuses`; the outbox's answer | `RefreshWarnings(t)`, `OutboxFinishes(t)` |
| a killed process; a statement that raises | `Crash`, `LedgerError` |

A candidate is reduced to what the runner asks of it (`View`): its side, whether
it fires, whether it is a confirmed YES, whether it is decisive. The order the
picker ranks candidates in comes from prices and is left open: every choice of
the top `n` is a possible one (`Ranked`). The executor is the counters `offers`,
`yesOffers` and `exits`; the outbox is the row an exit warning has there.
`calm`, `lost` and `unpriced` are observations.

**OfficialReport.** One checkpoint of one window, and any number of processes
that run the policy on the same ledger: a deploy starts the new process before
the old one stops. `StartCycle(p)` takes the cycle's view and lists the steps
`run_cycle` will take; each step is one transaction. `todo` is what is left.

| code | actions |
|---|---|
| `_record_cycle_predictions`, `record_prediction`, the shadow's row | `RecordPrediction`, `ObserveShadow` |
| `_send_ranked_panel`: `_decision_settled` and the gates | `ConsiderReport` (`Counted`, `Settled`, `KeyKnown`) |
| `lock_official_report`, `send_with_result`, `unlock_official_report` | `ClaimReport`, `SendReport`, `UnlockReport` |
| the picks of a delivered or undelivered report | `MarkSent`, `RecordSent`, `ClaimSlot`, `MarkPushed`, `ArmFollowup`; `MarkPending` |
| `_dispatch_entry_followups` | `ReadDue`, `SendFollowup`, `ConsumeFollowup` |
| `reconcile_native_delivery`, the end of the cycle | `Reconcile` |
| the outbox's worker, an error in the cycle, a restart, time | `WorkerDelivers`, `CycleFails`, `Restart`, `Tick` |

A view is what one cycle's analysis can show: the ranking, the best pick, each
side, which picks are entries and which contracts have a canonical. The verdict
count and the prediction cache belong to a process and die with it.

**KalshiBook.** Two threads and the exchange. `Subscribe` and `SetReconnect` are
the dashboard's `subscribe`, whose event is set after its lock is released;
`Open`, `ClearAndSend`, `Receive`, `ReceiveTimesOut`, `HandleMessage`, `Leave`
and `ConnectionFails` are `_run_forever`; `HandleSnapshot`, `HandleDelta` and
`HandleTrade` are the handlers `HandleMessage` calls. The exchange answers a
subscription with one snapshot (`SendsSnapshot`), then sends each change
(`BookChanges`) and trade (`SendsTrade`) in order. One side of each book is
kept, as levels and a cached best; a row of a history is reduced to whether it
was received before or after the last snapshot or gap.

**FetchScheduler.** The loop's cycle is five steps, `Discover`,
`HarvestAndSubmit`, `WaitEnds` (with a `Yield(a)` for each future that
`as_completed` gives back before it), `HarvestDetails` and `Ingest`; between any
two of them the exchange strikes and rolls markets and the pool's threads take
up (`TakeUp`), finish (`Succeed`, `Fail`) or hang. A fetch that hung can still
answer (`AnswerLate`), also when nobody tracks it any more (`AnswerNobody`). A
market is the number of its window; a fetch carries the market it was submitted
for, and whether it was submitted in this cycle. `abandoned` counts the calls
that `cancel()` left running.

**HeartbeatPager.** `Boot` imports `app` and checks the runtime flags, `Enter`
starts the loop with its first stamp, `Beat`, `Hang` and `Recover` are the loop,
`SupervisorTick` is `heartbeat_supervisor_tick` up to its send, `Exit` the page
of the interpreter's exit, `Sent(k)` the end of a send.
`Claim(k)` is `_claim_persistent_cooldown` on the file and the memory. A failing
write of the stamp is swallowed (`WriteHeartbeat`). Time is `Tick`: a loop that
does not hang begins its next cycle within `CycleMax` ticks, the supervisor
wakes every `Interval`. `pageAge` and `missed` (the last cycle's stamp could not
be written) are observations. No run checks this
module; its theorems hold for every threshold, cooldown and fault they name.

Operators named `Bug...` are seeded faults, each a wrong version of the
definition that follows it; none is used by a definition. They show for every
property checked that a plausible error in the code would break it.

## 3. Runs

| run | instance | states | result |
|---|---|---|---|
| `executor_orders` | 3 contracts of one window and 1 of the next, cap 2, percentage sizing, two prices, all faults but the process's death and an error status for an order that was taken; contracts of a window symmetric | 1.9 M | holds |
| `executor_restart` | as above, flat sizing, restarts and crashes at every point but one | 47 k | holds |
| `executor_cap_restart` | restarts and lost answers | | `WindowCap` violated |
| `executor_kill_exit` | the operator flips the switches | | `KillLeavesPositionsAlone` violated |
| `daily_stop` | balances 0..5, limit 2, 3 days, restarts, crashes, failing reads | 13.8 k | holds |
| `daily_stop_rearmed` | the same with restarts and failing reads of a call | | `StopSurvivesRestart` violated |
| `outbox` | 2 messages, 1 producer and the worker, 2 attempts, 1 crash, failures, lost answers, deadlines | 287 k | holds |
| `ultoim_runner` | 2 contracts, 3 marks (research, selective, top picks; live YES at the last two), 4 cycles, a queue of 1, one crash or database error | 368 k | holds |
| `ultoim_yes_retry` | the same without faults | | `YesIsRetried` violated |
| `official_report` | 10M: 2 processes, one of them outgoing, 2 assets, one fault of six kinds | 822 k | holds |
| `kalshi_book` | 2 contracts, 2 prices, 2 messages in flight, any set wanted, any connection failing | 2.85 M | holds |
| `fetch_scheduler` | 1 asset with details, 2 threads of which 1 may hang, 3 windows | 235 k | holds |

Why these bounds are enough to be interesting. *Executor*: three contracts
against a cap of two make the third the one that must be refused; the budget of
5 cents admits a first order and leaves a remainder that is smaller than the
next stake; the limit offset of 1 makes sizing at the ask and at the limit
differ; the second window makes `prune_settled` drop a settled window, and, after
a restart that read back entries of both windows, drop one and keep the other.
The open-position cap of 3 stays out of the way: picks are fired for the running
window and settled ones are pruned first, so the window cap bites before it.
*Daily stop*: one day to set a
reference, one to change it, one more for a process that slept through a day; a
limit of 2 in balances up to 5 is crossed from several references. *Outbox*: two
messages let one's retry meet the other's first attempt, and two attempts give a
retry and a last one; the crash falls between any two steps. *Runner*: the
first contract can fire or flip decisively, so that it is suggested,
flips back before the hold time, or is sold; the second is one that the
selective mark leaves out, so that mark may have nothing to choose from; two marks share the tick 1 band and
10M is still open at tick 2, so a mark is met again after it was decided, or
after a crash; 7M comes last and
may pick what 10M alerted or bought as a live YES; a queue of one drops cycles while a job is under way.
Two confirming cycles and one tick of hold time make the debounce's two
conditions differ. *Report*: the two views disagree in ranking, side, entries
and canonicals, so a verdict can stay, change, lack its key, or name another
entry; the gates fall on ticks 1 (mark), 2 (forced) and 3 (band end), so a cycle
may run before, in and after each; the outgoing process has its last cycle at
any of them. The clock goes on to the next window's delivering band, where
follow-ups are still due. *Book*: one contract has two levels, the better one two
deep, so that the best bid is raised, lowered, emptied and kept; the other
replaces it; two messages in flight let a change or a trade overtake a
subscription's snapshot. *Fetches*: three windows
let an answer and a detail outlive their market by more than one rollover; of the
two threads one may hang, so that an abandoned fetch keeps its thread and the
replacement gets the other. One asset suffices for that, and liveness over three
windows is out of reach with two; the safety properties are proved for any
number of assets and threads.

**What the properties say.**

- `WindowCap`: the exchange never takes entries for more than
  `max_picks_per_window` contracts of one window, lost answers included.
- `ExchangeIsBooked`: between calls, every entry the exchange took for the
  running window is owned in `window_tickers` and its worst-case cost is in
  `window_committed`.
- `WindowSpend`: under percentage sizing, the limits posted for a window never
  add up to more than its percentage of the bankroll.
- `NeverReposted`: a live client never posts an entry the exchange already took;
  the duplicate guard does not lean on the exchange's check of client order ids.
- `SwitchesStopOrders`: once kill or dry-run is set, only a call that had
  already begun may still reach the exchange.
- `BookAgrees` (checked across restarts): `open_count`, `open_tickers`,
  `positions`, `window_count` and `window_tickers` tell one story.
- `ExitIsPossible`, `ExitLeavesNothingResting`: a rebooted executor can sell and
  cancel everything it is in; from the moment the exchange takes the sale of an
  exit nothing of the entry is left to fill.
- `ImplementsEntryLimit`: seen from the exchange, `Executor` is `EntryLimit`.
- `ReferenceIsTheDaysFirst`, `NoEntryPastStop`, `NoStopWithoutLoss`: the day's
  reference is the day's first balance whichever process read it; no call that
  read a balance past the limit admits; no refusal without a loss of that day.
- `DuplicatesAreExplained`, `NothingStranded`, `SentMeansShown`: every post
  beyond the first answers a lost answer or a crash; no row is stuck in SENDING;
  SENT and "delivered" are true.
- `KeepsPromise`: the outbox implements `Delivery`, whose liveness says every
  accepted message is closed in the end (sent, dead-lettered or expired).
- `AlertedOnce`: a contract is offered to the executor and gets a card at most
  once per window, whatever marks pick it and wherever a fault cuts in.
- `ClaimReachesExecutor`: a contract whose alert lock was claimed is offered to
  the executor, unless its suggestion is paper only or a fault cut it off. The
  lock is never released, so this is where an entry would be lost silently.
- `PendingIsInHand`: no row is left waiting for its status without a fault.
- `YesPlacedOnce`: two marks that list a contract buy it as a live YES once,
  although the lock is claimed only after the placement.
- `ExitOnce`, `NoEntryAfterExit`: one sale, of a suggested contract only, and
  no order of the contract after it.
- `FlipWasHeld`: a warning needs every processed snapshot of the hold time to
  show the flip, dropped cycles and crashes included.
- `WarningSettles`: every warning comes to a final status and its sale, unless
  the snapshot had no price or a fault cut it off.
- `OneReport`: one report per checkpoint and window across processes and
  restarts, and one more per mute. A lost answer or a failed send does not
  repeat it.
- `OfficialMeansShown`, `CreditFollowsTelegram`: the official record and the
  shadow's delivery statuses follow what Telegram and the outbox did.
- `ComparesWithRecord`: every process reports against the side on record.
- `OneActiveEntry`: one contract gets the slot and the follow-up.
- `BandClosesWithReport`: once a whole cycle of the forced zone had a report to
  send, the window was claimed, or muted.
- `LooseEndsSettle`: picks left to the outbox get their status, armed follow-ups
  are sent or consumed.
- `BookTracksExchange`: with a history started, the cached book plus the
  messages in flight is the exchange's book, and its best bid is the best level.
- `HistoryWithinEpoch`: a history that may be read has no row from before a gap
  or an earlier snapshot.
- `SubscriptionFollows`: the listening feed follows the wanted contracts, but
  for the one wake-up a reconnect wipes (see section 4).
- `NeverGoesBack`: no engine and no snapshot returns to an earlier market,
  however late an answer comes; only a live market is ingested.
- `VolumeIsOwn`: a snapshot never shows another market's volume, although the
  cache keeps an old market's detail while the next one is in flight.
- `LiveMarketIsServed`: while one thread does not hang, every live market's
  answer is ingested, or the market stops being the live one: a fetch that hangs
  is replaced although it keeps its thread.

**Fairness** is stated where something must eventually happen. *Outbox*.
`WorkerClaims`: the worker thread polls for ever (`_run`). `Attempt`: a thread
that holds the lock goes on, since every call in it has a timeout. `Restart`:
the supervisor restarts a dead process. `BackoffEnds(k)`: time passes.
`CallerClaims(c)`: a producer that is inside `send_with_result` goes on.
*Runner*. `WorkerStep`: `_worker_loop` never ends and catches what a job raises;
`OutboxFinishes(t)`: what `KeepsPromise` shows of the outbox;
`RefreshWarnings(t)`: the reports that begin with a refresh are scheduled.
*Report*. `StartCycle(p) \/ CycleStep(p)`: the live loop calls `run_cycle` for
ever and a cycle goes on; `WorkerDelivers`: the outbox's worker; `Tick`: time.
Weak fairness suffices for each. Nothing makes a send succeed, a producer call,
a deadline pass or a snapshot arrive.
*Fetches*. `Loop` and
`TakeUp`; a call that does not hang ends (`Succeed(a) \/ Fail(a)`); strong
fairness says that an upstream neither fails nor hangs on every request of an
asset (`Succeed`, `TakeUpAs(a, "running")`) and that a hanging fetch is at some
cycle found overdue (`Abandon(a)`: its age only grows).
The executor, daily stop and book modules state safety only: a refused entry is
not retried by the executor, and what the feed owes depends on messages nobody
has to send.

`CHECK_DEADLOCK` is left on in every run but the two of the runner, whose clock ends
at `LastTick`: with every job done the model stops there.

## 4. Where the code and its comments disagree

Four runs each check one property that a comment states, and TLC finds a
behaviour of the code that breaks it. `PROJECT.json` quotes the comments.

1. `executor_cap_restart`. An entry whose answer was lost is booked in memory,
   but its row has `http_ok=0` and rehydration reads only `http_ok=1`: after a
   restart the window's cap starts without it.
2. `executor_kill_exit`. Under the kill switch a sell is simulated and answered
   `ok`; `on_exit` takes that for a sell and forgets the position and the order
   id, so the position cannot be closed after the switch is released.
3. `daily_stop_rearmed`. The reference survives a restart, the loss does not: a
   call reads a balance past the limit and is refused, the process restarts, and
   the next call, which cannot read the balance, finds the breaker open. Only
   the restart does this: without it the loss in memory outlives any number of
   failed reads (`StopSurvivesFailedReads`).
4. `ultoim_yes_retry`. A refused live YES buy is said to be retried by the next
   cycle (runner.py:1059, docstring 1024-1033). `_maybe_execute_yes` is called
   from a mark's decision only, and the report lock decides a mark once: the
   next snapshot of the band passes it over. `YesOffersBounded` proves that the
   retry never takes place.

Noticed while modelling and left as remarks.

*Outbox.* "The outbox marks a message SENT only after Telegram confirms delivery"
(outbox_v9.py:3), but a message suppressed by alert level comes back as ok
(notifier.py:254-260) and is completed as a success (686-688): its row is SENT.
`SentMeansShown` fails as soon as `Faults` holds `"mute"`; the theorem
`SentIsShown` names that hypothesis (`Unmuted`).

*Executor.* `_refresh_safety_switches` says that re-reading the switches "can
exclusively make the executor SAFER" (executor.py:453-454), but it also releases
them, and by design (`FlipSwitch` goes both ways); rehydration restores the
count of a window's picks and not the cents committed to it; a failed balance
read at the first boot of a day stores the configured bankroll as that day's
reference, as does a dry-run boot that is later switched to live; a death
between an entry's answer and its row loses the entry (`crash_unrecorded`).
`_request` returns every status from 400 up as a plain failure, although a
gateway may answer 5xx for an order the exchange took (`server_error`; section 6).

*Runner.* The sale of a contract is offered to the NO
executor only, also for a contract the YES executor bought (1308-1312). The sale
comes after the warning's send and status: an exception of either loses it, and
a snapshot without a price skips it. A crash between the outbox's acceptance of
a warning and its mark leaves the warning PENDING for good.

*Report.* `_decision_settled` tests the expiry before the safety net. At 7M the
report expires two minutes before the close and would be forced one minute
before it: a verdict that never settles is never reported (`BandIsClosed` says
which checkpoints are safe). After a mute the lock is released, but the outbox's
row under the same key is SENT: the next cycle's send answers "delivered"
without showing anything, its picks are credited SENT as "delivered before
close" (ledger_v95.py:1153-1155), and the slot and follow-up are armed; only the
official record asks for a message id (1296-1297). The docstring at
checkpoint_v95.py:3997-4001 says a failed send releases the lock; only a muted
one does. When the report could not even be queued, its picks are marked PENDING
all the same, under a comment that calls it "durably queued" (4083-4085), and
stay so: `LooseEnd` asks for a queued row. A report the worker delivers after
the cycle is credited in the shadow but gets no official record, slot or
follow-up. A death between the prediction and its shadow row leaves the pick
unpaired; one between the send and `mark_native_pending` leaves its picks out of
every reconciliation. A follow-up whose contract one cycle does not see is
consumed unsent (4412-4415), and two processes may send one twice.

*Feed.* `_reconnect` is cleared outside the lock, after the wanted set was
copied (ws_client.py:725): a `subscribe` in between is lost until the next
change or disconnect, and `wiped` in the model marks exactly that. A delta of an
evicted contract starts a book from nothing (847) that is served for its
maximum age as if whole; books are not cleared at a disconnect and are served
for as long. A trade may be received before its contract's snapshot. Hence
`BookTracksExchange` speaks of contracts whose history has started, which is
what tells the two apart.

*Fetches.* A fetch past its time-to-live is dropped from `inflight` and replaced
at once, but `cancel()` leaves a running call in its thread (app.py:630-641):
against "at most one outstanding request per asset" (743-745) one asset can hold
several threads, and when all hang nothing is fetched until one answers. An
answer harvested from an earlier cycle is overwritten when the same pass's next
fetch is in time (648): if it was the backfill of a WebSocket gap, its ticker is
already marked as bootstrapped (hybrid_data.py:96) and the gap's trades are lost;
a failed REST read is marked the same way.

*Pages.* When the cooldown file holds an old claim and can no longer be written,
the memory stamped in its place is not consulted (cycle_watchdog.py:232): every
tick pages. Hence `PagesKeepCooldown` supposes a writable file. A feed is marked
as alerted before its page is sent, and the mark lasts until it recovers (449,
514): one failed send silences that feed for the outage. A heartbeat that cannot
be written is logged and forgotten (194-199): a loop that cycles is then paged as
hung. The threshold is not checked against the time a cycle may take either, and
a cycle that outlasts it is paged as a hang.

## 5. Proofs

Every theorem is checked by `tlapm` to the last leaf. The assumptions are those
named `...Assumption` and `...Constants` in the modules, which TLC evaluates in
the runs (but `PagerConstants`, which the theorems about `HeartbeatPager` state
themselves), and the ones in the last column.

| theorem | says | needs |
|---|---|---|
| `ExecutorProofs!OrderWithinBounds` | an order `decide` places has a count of at least 1, a limit in the band, costs count times limit, and fits the window's remaining budget, the per-pick ceiling and the bankroll | any portfolio and configuration |
| `ExecutorProofs!TypeCorrect`, `ViewsAgree` | `TypeOK`, `BookAgrees` | any faults |
| `ExecutorProofs!SwitchesAreObeyed` | `SwitchesStopOrders` | any faults |
| `ExecutorProofs!CapHolds`, `NothingReposted`, `KeepsEntryLimit` | `WindowCap`, `NeverReposted`, refinement of `EntryLimit` | `OneProcess`: no restart, no crash, and `ErrorsRefuse`: an error status means that the order was not taken |
| `ExecutorProofs!ExitStaysPossible`, `ExitsLeaveNothing`, `RestartsKeepEntryLimit`, `RestartsKeepCap` | `ExitIsPossible`, `ExitLeavesNothingResting`, refinement of `EntryLimit`; `WindowCap` and `NeverReposted` across restarts | `Orderly`: restarts, crashes and refusals; every order answered truly, every row stored |
| `ExecutorProofs!WhatWasTakenIsBooked` | `ExchangeIsBooked` | `OneProcess` |
| `ExecutorProofs!SpendWithinBudget`, `WindowSpendHolds` | what the exchange took of a window never costs more than the largest budget a decision can have; `WindowSpend` | `OneProcess`; the second one percentage sizing without a conviction multiplier |
| `ExecutorProofs!RestartsKeepPickSpend`, `FlatSpendSurvivesRestarts` | across restarts the cents taken of a window are bounded by picks times the largest stake; under a flat stake that is the window's budget | `Orderly` |
| `DailyStopProofs!TypeCorrect` | `TypeOK` | any faults |
| `DailyStopProofs!ReferenceSurvivesRestarts`, `StopIsObeyed` | `ReferenceIsTheDaysFirst`, `NoEntryPastStop` | `Reliable`: boot reads and store writes work, no torn write |
| `DailyStopProofs!BreakerRearms`, `AbsoluteBreakerRearms` | `NoStopWithoutLoss` | `Reliable`, and a limit that no loss does not reach: so every absolute one |
| `DailyStopProofs!StopSurvivesFailedReads` | `StopSurvivesRestart`: a loss that a call has read stops the day's later entries, however many reads fail | `Reliable`, no restart and no crash |
| `DailyStopProofs!StopStaysArmed` | a call that read a balance decides on that read against the process's reference | any faults |
| `OutboxProofs!TypeCorrect`, `NoMessageStranded`, `NoUnexplainedDuplicate` | `TypeOK`, `NothingStranded`, `DuplicatesAreExplained` | any faults, any number of crashes |
| `OutboxProofs!SentIsShown` | `SentMeansShown` | `Unmuted`: nothing is muted |
| `OutboxProofs!KeepsPromiseSafely` | the outbox implements `Delivery` but for its fairness: `KeepsPromise` without liveness | any faults, any number of crashes |
| `UltoimRunnerProofs!TypeCorrect`, `AlertsOnce`, `OneExit`, `PendingRows`, `AlertsReach`, `SaleEndsEntries`, `OneLiveYes`, `WarningsWereHeld` | `TypeOK`, `AlertedOnce`, `ExitOnce`, `PendingIsInHand`, `ClaimReachesExecutor`, `NoEntryAfterExit`, `YesPlacedOnce`, `FlipWasHeld` | any contracts, marks, bands, queue and number of crashes and errors |
| `UltoimRunnerProofs!YesOffersBounded` | a live YES buy is offered at most once per decided YES mark: no refusal is retried within its mark | as above |
| `OfficialReportProofs!TypeCorrect`, `SentOnce`, `OnlyShownIsOfficial`, `CreditIsTrue`, `RecordIsCompared` | `TypeOK`, `OneReport`, `OfficialMeansShown`, `CreditFollowsTelegram`, `ComparesWithRecord` | any processes, assets, gates and faults |
| `OfficialReportProofs!BandIsClosed` | `BandClosesWithReport` | the report does not expire before its band ends: so at 15M and 10M, not at 7M |
| `OfficialReportProofs!EntryIsOne` | `OneActiveEntry` | the empty slot is not an asset |
| `KalshiBookProofs!TypeCorrect`, `HistoryOfOneEpoch`, `FollowsUnlessWiped`, `BooksTrack` | `TypeOK`, `HistoryWithinEpoch`, `SubscriptionFollows`, `BookTracksExchange` | any contracts, prices, quantities, wire |
| `KalshiBookProofs!BestBidIsKept` | the best bid kept with a book is the best of its levels, also before a history starts | as above |
| `FetchSchedulerProofs!TypeCorrect`, `EnginesGoForward`, `VolumesMatch` | `TypeOK`, `NeverGoesBack`, `VolumeIsOwn` | any assets, threads, windows, hanging fetches |
| `FetchSchedulerProofs!QueuedOnceAlways` | the pool's queue holds exactly the fetches tracked as queued, once each | as above |
| `HeartbeatPagerProofs!TypeCorrect` | `TypeOK` | any threshold, cooldown, interval, faults |
| `HeartbeatPagerProofs!AlarmsAreTrue` | `NoFalseAlarm`: a page calls a cycling loop hung only if the loop's last cycle failed to write its stamp; neither a dead process's heartbeat nor a hang that is over raises one | `CycleMax <= StaleAfter`: no cycle of a loop that does not hang outlasts the threshold, which the configuration does not enforce |
| `HeartbeatPagerProofs!PagesKeepCooldown` | `PagesAreSpaced`: a kind of page keeps its cooldown across exits and crashes | the cooldown file can be written |

**The arguments.** `ExecutorProofs` first shows what each portfolio update
does to a well-typed, agreeing portfolio (`FillAgrees`, `PruneAgrees`,
`ExitAgrees`), with the cardinality facts of the library.
It then proves `Inv == TypeOK /\ BookAgrees /\ CallInv` inductive:
`BookAgrees` alone is not, because `BookEntry` books a decision taken some steps
ago, and only `CallInv` says that the contract is still new to the book then; it
also says that a call under way keeps the switches it began with, which is what
`SwitchesAreObeyed` rests on. `CapHolds` needs `CapInv` beside it: what the
exchange took for running windows is in the window's book, except for the one
order whose answer is in flight, and a call that is about to post still has
room. The cap at the exchange then follows from the cap in the book. Windows
already settled cannot grow, since picks are fired for the running window.

Its second part carries `CapInv` through a boot. The chain is: what the
exchange took is stored with its order id, but for the entry whose answer is in
flight (`Stored`); a boot makes a position, an order id and a place in the
window of every stored row (`Sellable`); the prune of a running window touches
none of them; an exit cancels before it sells, so a contract that was sold has
nothing resting (`SoldOff`). Lost answers and failing writes are excluded
because the chain breaks there, as `executor_cap_restart` shows.

The money is counted with sums over a finite set of contracts, which the model
writes as a fold. `SumRule` describes a fold without its choices - nothing for
the empty set, one member more for a set with one more - and the first lemmas
show that the fold is the only function that obeys it (`RuleExists`,
`RuleUnique`), by induction on the finite sets in its first-order form, a
minimal counterexample under strict inclusion. From it come the facts the
invariants need: what a sum becomes when one cost changes (`SumUpdate`), and a
bound by the number of summands (`SumBound`). `PriceInv` says that a contract
costs nothing until it is taken, and `Covered` that what the exchange took of a
window is within the cents committed in the book and the one order whose answer
is still out; every decision fits the remaining budget (`OrderWithinBounds`), so
the spend does. A restart forgets the committed cents, and with them this
argument: what is left is the count of picks, each within a stake. TLC shows
that the difference is real. On the instance of `executor_restart` with
percentage sizing, `WindowSpend` is violated; with the flat stake the proved
bound of 8 cents holds and 7 does not.

`DayInv` ties the stored row, the process and the observations together: a
balance was read today exactly when today's date is stored, and, outside the two
writes, with that balance. The outbox's `Inv` says which row an attempt holds
and how many attempts it has left, and counts posts against doubts separately
for rows that are and are not sent. Its safety refinement goes step by step: a
row's `Phase` is what `Delivery` sees of it, and every step accepts, offers or
closes one message along an action of `Delivery` or leaves what it sees alone;
a restart may close several at once (`CloseSome`).

`LossWasRead` is what `BreakerRearms` adds to `DayInv`: the loss in memory is
none, or the one that the last balance a call read today shows; without a
restart it is always the latter (`LossIsHeld`), which is
`StopSurvivesFailedReads`. A percentage of a
reference of a few cents rounds to a limit of 0, which no loss at all reaches;
this is the hypothesis `NoLossNoStop` excludes.

The runner's proofs separate the steps by what they touch (`Quiet`, and one
lemma of facts for each kind of loud step), so that each invariant looks only at
its own. `RowInHand` says that a pick's row is there while its later steps run;
`AlertInv` that a contract without its lock has neither order nor card;
`PendInv`, `EntryInv` and `ReachInv` who still owes a row, an order and an
offer. `YesInv` bounds the offers of a YES buy by the decided marks, strictly
while one is listed or in hand: that a mark lists a contract once
(`LiveKinds`) and is decided once (the report lock) both enter. `PlacedInv` says
that a placed one is locked or waits for nothing but its claim, which is what
two marks that list the same contract need. `ClockInv` says
that snapshots are taken in the order of their times and that a running count
began after the last calm snapshot: `FlipWasHeld` follows for any queue bound.

The report's proofs first describe what is left of a cycle (`Planned`: its only
reconciliation is last, and only its next step may be on the way to the send).
`SendInv`: whoever is between the claim and the answer holds the lock, alone,
and no unmuted send was made yet. `ShownInv` and `OutboxInv` follow the answer
through the steps it adds to a cycle; `BandInv`, a cycle that has the last
chance and is past its report; `EntryInv`, that every step that arms an entry,
in any process, is about the same asset, since one report was delivered and its
`Arms` holds of one pick.

The feed's `FollowInv` is the reconnect protocol between its two threads; its
best bid is kept by induction over the messages, with `HighestExists` for the
maximum of a set of prices. `BookTracksExchange` replays the wire, and no
invariant speaks of a replay until one names the books on the way: `Follows` is
that run, from a book or from a snapshot that is still on the wire, and
`TrackInv` that it ends at the exchange's book for every history in use.
Sending lengthens the run by one message, handling shortens it by one
(`FollowsSent`, `FollowsHandled`), and a contract that has no snapshot yet has
nothing on the wire that touches its book. `FollowsReplayed` shows, by a least
counterexample on the position, that the run is the replay.

An answer may be of any earlier market. What orders the engines is `OrderInv`:
the market the loop holds for an asset is never older than its engine's, it only
goes forward or is dropped, and an ingestion takes its answer alone. The pool's
`TypeOK` is not inductive: that a thread takes up a tracked fetch needs
`QueueInv`, the queue's agreement with `inflight` (`LeftIsLeft` for what
cancelling leaves of it, `SubmittedOnce` for what is added), and the bound of
`abandoned` needs `Busy <= Workers`, a count that abandoning only moves.
`StoreInv` is why the cooldown survives a restart: while the file can be
written, its entries are as old as the last pages, and the memory knows of no
page that the file does not. `BeatInv` says that a loop which cycles and wrote
its last stamp has one no older than its cycle; as no cycle outlasts the
threshold, a page needs a hang or a failed write, and since the stamp precedes
the supervisor's start, the heartbeat of a dead process is read only when that
first write failed.

**Only model-checked.** `KeepsPromise` with its fairness, `WarningSettles`,
`LooseEndsSettle` and `LiveMarketIsServed`: liveness under fairness is out of
this prover's reach. Every safety invariant and action property that a passing
run checks is also a theorem, under the hypotheses of the table. The other way
round, the type invariants of `DailyStop`, `UltoimRunner`, `OfficialReport`,
`KalshiBook` and `HeartbeatPager` and the two properties of `HeartbeatPager` are
proved and no run repeats them.

## 6. Limits of the models

*Executor*
- One executor instance. The NO and the YES executor share the account and no
  state; their client order ids do not collide.
- The bankroll is the configured one; a live executor may take it from the
  balance read at boot.
- The executor's enabled flag, malformed picks and a missing store are left out.
- Rehydration reads rows of the last 7200 seconds, which are all rows of windows
  that can still be running; the model reads all rows, and older windows are
  pruned by the next call.
- Picks are fired for the running window, as the runner does.
- An error status is a refusal, as `_request` takes it (trading_client.py:103-105;
  the repository's tests say so of 4xx only). The model can say otherwise (the
  fault `server_error`: taken, answered by a 5xx, booked nowhere), but no passing
  run enables it and the theorems exclude it (`ErrorsRefuse`): what is said of
  caps, spend, booking and repeated posts rests on this assumption.
- Orders are taken whole or not at all, and fill in any parts; the exchange's
  own balance check is one of the refusals.
- The daily stop is a module of its own: `Executor` runs with both limits 0,
  where `_refresh_daily_pnl` does nothing.

*Outbox*
- One process, and the database does not fail inside a transaction; the hazards
  list what two processes on one table and a failing `complete()` would do.
- Times are orderings: a back-off ends or a deadline passes at any moment.

*Runner*
- One window. A verdict is taken as given: gate evaluation, prices, settlement,
  recaps, message ids and the notifications v3 owns are left out, and so is
  everything that only reads the ledger.
- A full queue drops cycles, and what is said of warnings speaks of the snapshots
  that were processed; no property says that a mark is decided.
- The executor's refusals are inside `OfferYes` (placed or not) and outside of
  `OnFire`, whose result the runner only logs. `Executor` has the other side: a
  contract offered once is entered at most once.
- `EXPIRED` is a status the runner writes for a warning sent at or after the
  close; the instance closes after its clock ends.

*Report*
- One checkpoint of one window; a process that works through several does so in
  turn. The minimum gap between reports reads the same row as the lock within a
  window and is not a guard of its own.
- Manipulation records and alerts, revisions, recaps, settlement, the compact
  and legacy panels and snapshots without a clock are left out.
- `ClaimSlot` makes the test for an active entry and the insert, two transactions
  of the code (ledger_v95.py:1773-1807), one step: the report lock leaves one
  deliverer, so no other process is between the two.
- The shadow's predicted side may differ from the reported one
  (challenger/ledger.py:156-162): only delivery statuses are modelled.

*Feed*
- One side of each book; quantities are small counters, a delta changes a level
  by one. Microprices, the derived microstructure figures, retention by time
  (an append may drop the rows before it), market status and `stop()` are left
  out. A reader is not a process: the properties speak of the caches at every
  moment.

*Fetches*
- A snapshot is reduced to its market and its volume's; snapshots of assets
  without a live market, and what the cycle does after them, are left out. The
  deadline of a cycle may pass at any time.

*Pages*
- A lost or corrupted cooldown file, a clock that is stepped and a deploy's
  second process are left out; the check of an age and the claim after it are
  one step. That a lasting hang is told in the end, the pages about stale feeds
  and the page about a slow cycle are left out.

*Composition*
- The modules meet at their interfaces: the runner's calls are the executor's,
  and what the runner and the report ask of the outbox is what `KeepsPromise`
  and `SentMeansShown` say of it. They are not conjoined into one
  specification, whose state space would add no step that crosses an interface.

**Not modelled.** Each component's reason is in `PROJECT.json`. In short: the
Q15 runtime and the signal engine are bypassed while v9.5 is active
(checkpoint_v95.py:1639 overwrites the decision state they would latch);
strategy bots, research runners, learning stores, analysis and readiness
monitors are floating-point statistics over paper books on which no order or
alert depends; panels, reports and routes are layout; spot feeds are I/O and
arithmetic. Data assembly has a protocol of its own, which is in the plan. These
are most of the repository's lines.

## 7. Plan

Done: `RiskDecide`, `Executor` with `EntryLimit`, `DailyStop`, `TelegramOutbox`
with `Delivery`, `UltoimRunner`, `OfficialReport`, `KalshiBook`, `FetchScheduler`,
`HeartbeatPager`, and their proofs, in that order: first what cannot be undone,
then what decides it, then what it is priced from, and last what tells an
operator that it stopped. Next:

1. `TradeFeed`: `HybridMarketData`'s choice between WebSocket and REST, its
   backfills, and the loop that may replace one (section 4, *Fetches*).
2. The pages about stale feeds: grace, shared cooldown, the mark set before the
   send.
3. `SignalLatch`: `signals._finalize` with `db.claim_event`, the latch reset on
   invalidation against the permanent claim key, for deployments without v9.5.
4. The outbox on a shared table with two processes, and with a database that
   fails between a send and its `complete()`.
5. `PathRecorder`: marks set before the act, the bounded queue. Strategy bots:
   the life of one paper position in `strategy_bots/ledger.py`.
6. Proofs: how far the caps of the executor can be exceeded when answers are
   lost, as a function of the number of lost ones, which the model does not
   count yet.
