------------------------------ MODULE Executor ------------------------------
(***************************************************************************)
(* One real-money executor process, its durable order store and the        *)
(* exchange it trades on: q15_upgrade/executor/{executor,trading_client,   *)
(* store}.py.                                                              *)
(*                                                                         *)
(* The runner's single worker thread calls on_fire and on_exit one at a    *)
(* time.  Each call is split where it leaves the process: on_fire into     *)
(* (decide) (POST) (record and book), on_exit into (refresh) (DELETE)      *)
(* (POST) (record and book).  Between those steps the exchange fills       *)
(* resting orders, the operator flips a switch, the window closes, or the  *)
(* process dies.                                                           *)
(*                                                                         *)
(* A ticker names one contract of one window, so a ticker stands for its   *)
(* (window, ticker) key and for its client order ids.  The daily stop is   *)
(* off here (both limits 0, which makes _refresh_daily_pnl a no-op); the   *)
(* module DailyStop is about it.                                           *)
(***************************************************************************)
EXTENDS RiskDecide, Functions

CONSTANTS WindowOf,   \* the window of each contract
          Picks,      \* the picks the runner may fire
          Cfg,        \* ExecutorConfig at boot, but for the two switches
          Bankroll,   \* Q15_EXEC_BANKROLL_CENTS
          Faults,     \* what the environment does to this instance
          NoPick      \* no call under way

FaultKinds ==
    {"restart",      \* the process stops between two calls and boots again
     "crash",        \* it dies inside a call, but not in the next place:
     "crash_unrecorded",  \* after an entry's answer and before its row is stored
     "switches",     \* the operator flips the kill and dry-run switches
     "reject",       \* the exchange or a connect timeout refuses an order
     "uncertain",    \* the answer to an order is lost
     "server_error", \* a gateway answers 5xx to an order that was taken
     "no_id",        \* an acknowledgement whose body does not parse
     "store",        \* a write to the order store fails
     "cancel"}       \* a cancel fails although the order still rests

ASSUME WindowOfAssumption == WindowOf \in [Tickers -> Windows]
ASSUME PicksAssumption == \A p \in Picks : IsPick(p, Cfg) /\ p.window = WindowOf[p.ticker]
ASSUME ConfigAssumption == IsConfig(Cfg) /\ Bankroll \in Int
ASSUME FaultsAssumption == Faults \subseteq FaultKinds
ASSUME StopAssumption == Cfg.dailyLossCents = 0 /\ Cfg.dailyLossPct = 0

VARIABLES
    env,        \* the two switches as the environment holds them
    switches,   \* the two switches in ex.cfg and client.cfg
    pc,         \* where the worker is: down, idle, or inside a call
    req,        \* the pick or the contract of the call under way
    dec,        \* decide()'s answer for the call under way
    ack,        \* the trading client's answer for the call under way
    book,       \* Executor.state
    entryIds,   \* keys of Executor._entry_orders
    store,      \* newest successful entry row per mode and contract
    clock,      \* the window the exchange is trading
    accepted,   \* entry orders the exchange took, by client order id
    exitsSeen,  \* exit orders the exchange took, by client order id
    working,    \* unfilled contracts of a contract's resting entry
    held,       \* contracts held at the exchange
    cost,       \* limit times count of the accepted entry
    exited,     \* observation: contracts a live exit was acknowledged for
    began       \* observation: the switches when the call under way began

process == <<switches, pc, req, dec, ack, book, entryIds>>
exchange == <<accepted, exitsSeen, working, held, cost>>
vars == <<env, process, store, clock, exchange, exited, began>>

Modes == {"LIVE", "dry-run"}
Answers == {"none", "ok", "ok_no_id", "simulated", "failed", "uncertain"}
Off == [kill |-> FALSE, dryRun |-> FALSE]
NoRow == [count |-> 0, id |-> FALSE]

\* Worst-case cents of the entries the exchange took for window w.
SpentIn(w) == SumFunctionOnSet(cost, {t \in Tickers : WindowOf[t] = w})

Ready == ~switches.kill /\ ~switches.dryRun
Open(t) == WindowOf[t] = clock

Init ==
    /\ env \in [kill : BOOLEAN, dryRun : BOOLEAN]
    /\ "switches" \notin Faults => env = Off
    /\ switches = env /\ began = env
    /\ pc = "down" /\ req = NoPick /\ dec = Refused /\ ack = "none"
    /\ book = EmptyBook(Bankroll, Bankroll)
    /\ entryIds = {}
    /\ store = [m \in Modes |-> [t \in Tickers |-> NoRow]]
    /\ clock \in Windows /\ \A w \in Windows : clock <= w
    /\ accepted = {} /\ exitsSeen = {} /\ exited = {}
    /\ working = [t \in Tickers |-> 0]
    /\ held = [t \in Tickers |-> 0]
    /\ cost = [t \in Tickers |-> 0]

-----------------------------------------------------------------------------
\* get_executor() in a process that has no executor yet: Executor.__init__.

\* Seeded fault: the window counters come back, the positions do not.
BugRehydrateNoPositions(rows) ==
    LET found == {t \in Tickers : rows[t].count > 0}
    IN  [EmptyBook(Bankroll, Bankroll) EXCEPT
            !.windowTickers = [w \in Windows |-> {t \in found : WindowOf[t] = w}],
            !.windowCount = [w \in Windows |-> Cardinality({t \in found : WindowOf[t] = w})]]

\* Seeded fault: the positions come back, the window counters do not.
BugRehydrateNoCounts(rows) ==
    LET found == {t \in Tickers : rows[t].count > 0}
    IN  [EmptyBook(Bankroll, Bankroll) EXCEPT
            !.positions = [t \in Tickers |-> rows[t].count],
            !.openTickers = found,
            !.openCount = Cardinality(found)]

\* What _rehydrate_window_cap makes of the stored entries of one mode.
Rehydrated(rows) ==
    LET found == {t \in Tickers : rows[t].count > 0}
        inWindow(w) == {t \in found : WindowOf[t] = w}
    IN  [bankroll |-> Bankroll, dayStart |-> Bankroll, dayPnl |-> 0,
         openCount |-> Cardinality(found),
         openTickers |-> found,
         positions |-> [t \in Tickers |-> rows[t].count],
         windowCount |-> [w \in Windows |-> Cardinality(inWindow(w))],
         committed |-> [w \in Windows |-> 0],
         windowTickers |-> [w \in Windows |-> inWindow(w)]]

ModeOf(sw) == IF ~sw.kill /\ ~sw.dryRun THEN "LIVE" ELSE "dry-run"

Boot ==
    /\ pc = "down"
    /\ pc' = "idle"
    /\ switches' = env
    /\ LET rows == store[ModeOf(env)]
       IN  /\ book' = Rehydrated(rows)
           /\ entryIds' = {t \in Tickers : rows[t].id}
    /\ UNCHANGED <<env, req, dec, ack, store, clock, exchange, exited, began>>

\* Seeded fault: the switches are read once, at boot.
BugNoRefresh == switches' = switches /\ began' = env

\* _refresh_safety_switches, run by get_executor() at the start of every call.
RefreshSwitches == switches' = env /\ began' = env

Return == pc' = "idle" /\ req' = NoPick /\ dec' = Refused /\ ack' = "none"

-----------------------------------------------------------------------------
\* on_fire

\* Prune, refuse or go on to the POST.
Fire(p) ==
    LET s == PruneSettled(book, p.window)
        d == Decide(p, s, Cfg, env.kill)
    IN  /\ pc = "idle" /\ p.window = clock
        /\ RefreshSwitches
        /\ book' = s
        /\ IF d.place THEN pc' = "post" /\ req' = p /\ dec' = d
                      ELSE UNCHANGED <<pc, req, dec>>
        /\ UNCHANGED <<env, ack, entryIds, store, clock, exchange, exited>>

\* place_order with the client not ready: acknowledged, nothing sent.
PostSimulated ==
    /\ pc = "post" /\ ~Ready
    /\ ack' = "simulated" /\ pc' = "book"
    /\ UNCHANGED <<env, switches, req, dec, book, entryIds, store, clock, exchange, exited, began>>

\* What the client may make of the answer to an order that was taken: a lost one
\* is uncertain, but any error status is a refusal (_request).
Misheard ==
    (IF "uncertain" \in Faults THEN {"uncertain"} ELSE {}) \union
    (IF "server_error" \in Faults THEN {"failed"} ELSE {})

\* The exchange takes the order and fills some of it at once.
PostAccepted ==
    /\ pc = "post" /\ Ready
    /\ Open(req.ticker) /\ req.ticker \notin accepted
    /\ accepted' = accepted \union {req.ticker}
    /\ \E filled \in 0..dec.count :
          /\ held' = [held EXCEPT ![req.ticker] = filled]
          /\ working' = [working EXCEPT ![req.ticker] = dec.count - filled]
    /\ cost' = [cost EXCEPT ![req.ticker] = dec.limit * dec.count]
    /\ ack' \in {"ok"} \union Misheard
                       \union (IF "no_id" \in Faults THEN {"ok_no_id"} ELSE {})
    /\ pc' = "book"
    /\ UNCHANGED <<env, switches, req, dec, book, entryIds, store, clock, exitsSeen, exited, began>>

\* The order never rests: refused, a repeated client order id, or lost unsent.
PostNotAccepted ==
    /\ pc = "post" /\ Ready
    /\ \/ /\ "reject" \in Faults \/ ~Open(req.ticker) \/ req.ticker \in accepted
          /\ ack' = "failed"
       \/ "uncertain" \in Faults /\ ack' = "uncertain"
    /\ pc' = "book"
    /\ UNCHANGED <<env, switches, req, dec, book, entryIds, store, clock, exchange, exited, began>>

\* Seeded fault: an order whose answer was lost counts as not placed.
BugBookedOnlyAcked(a) == a \in {"ok", "ok_no_id", "simulated"}

Booked(a) == a \in {"ok", "ok_no_id", "simulated", "uncertain"}

\* record_order_result: only rows with http_ok=1 are ever read back.
StoreEntry(t, count, a) ==
    LET mode == IF a = "simulated" THEN "dry-run" ELSE "LIVE"
        row == [count |-> count, id |-> a = "ok"]
    IN  \/ /\ a \in {"ok", "ok_no_id", "simulated"}
           /\ store' = [store EXCEPT ![mode][t] = row]
        \/ /\ a \notin {"ok", "ok_no_id", "simulated"} \/ "store" \in Faults
           /\ UNCHANGED store

\* Record the placement, then book it.
BookEntry ==
    /\ pc = "book"
    /\ StoreEntry(req.ticker, dec.count, ack)
    /\ book' = IF Booked(ack) THEN ApplyFill(book, req, dec) ELSE book
    /\ entryIds' = IF ack = "ok" THEN entryIds \union {req.ticker} ELSE entryIds
    /\ Return
    /\ UNCHANGED <<env, switches, clock, exchange, exited, began>>

-----------------------------------------------------------------------------
\* on_exit

ExitBegin(t) ==
    /\ pc = "idle" /\ Open(t)
    /\ RefreshSwitches
    /\ pc' = "cancel" /\ req' = [ticker |-> t]
    /\ UNCHANGED <<env, dec, ack, book, entryIds, store, clock, exchange, exited>>

\* _cancel_resting_entry, then the NO_POSITION return.  A cancel of an order
\* that no longer rests is refused and changes nothing.
ExitCancel ==
    LET t == req.ticker
        sent == t \in entryIds /\ Ready
    IN  /\ pc = "cancel"
        /\ \/ sent /\ working' = [working EXCEPT ![t] = 0]
           \/ (~sent \/ "cancel" \in Faults) /\ UNCHANGED working
        /\ IF book.positions[t] < 1 THEN Return
           ELSE pc' = "sell" /\ UNCHANGED <<req, dec, ack>>
        /\ UNCHANGED <<env, switches, book, entryIds, store, clock,
                       accepted, exitsSeen, held, cost, exited, began>>

\* Seeded fault: the exit sells first and cancels the resting entry afterwards.
BugSellFirst ==
    LET t == req.ticker
    IN  /\ \/ /\ pc = "cancel" /\ book.positions[t] > 0 /\ t \notin exitsSeen
              /\ exitsSeen' = exitsSeen \union {t}
              /\ held' = [held EXCEPT ![t] = 0]
              /\ ack' = "ok" /\ pc' = "sell" /\ UNCHANGED working
           \/ /\ pc = "sell" /\ pc' = "flat"
              /\ working' = [working EXCEPT ![t] = 0]
              /\ UNCHANGED <<exitsSeen, held, ack>>
        /\ UNCHANGED <<env, switches, req, dec, book, entryIds, store, clock,
                       accepted, cost, exited, began>>

\* The reduce-only immediate-or-cancel sell: simulated; taken, and clamped to what
\* is held; or refused, repeated or lost unsent.
ExitSell ==
    LET t == req.ticker
        k == AtMost(book.positions[t], held[t])
    IN  /\ pc = "sell" /\ pc' = "flat"
        /\ \/ ~Ready /\ ack' = "simulated" /\ UNCHANGED <<held, exitsSeen>>
           \/ /\ Ready /\ Open(t) /\ t \notin exitsSeen
              /\ exitsSeen' = exitsSeen \union {t}
              /\ \E sold \in 0..k : held' = [held EXCEPT ![t] = @ - sold]
              /\ ack' \in {"ok"} \union Misheard
           \/ /\ Ready
              /\ ~Open(t) \/ t \in exitsSeen \/ Faults \cap {"reject", "uncertain"} # {}
              /\ ack' = "failed"
              /\ UNCHANGED <<held, exitsSeen>>
        /\ UNCHANGED <<env, switches, req, dec, book, entryIds, store, clock,
                       accepted, working, cost, exited, began>>

\* An acknowledged sell, real or simulated, drops the position and the order id.
BookExit ==
    LET t == req.ticker
        done == ack \in {"ok", "simulated"}
    IN  /\ pc = "flat"
        /\ book' = IF done THEN ApplyExit(book, t) ELSE book
        /\ entryIds' = IF done THEN entryIds \ {t} ELSE entryIds
        /\ exited' = IF ack = "ok" THEN exited \union {t} ELSE exited
        /\ Return
        /\ UNCHANGED <<env, switches, store, clock, exchange, began>>

-----------------------------------------------------------------------------
\* The exchange, the clock and the operator

FillResting(t) ==
    /\ working[t] > 0 /\ Open(t)
    /\ working' = [working EXCEPT ![t] = @ - 1]
    /\ held' = [held EXCEPT ![t] = @ + 1]
    /\ UNCHANGED <<env, process, store, clock, accepted, exitsSeen, cost, exited, began>>

\* The window closes: its contracts settle and nothing of them rests or is held.
NextWindow ==
    /\ clock + 1 \in Windows
    /\ clock' = clock + 1
    /\ working' = [t \in Tickers |-> IF WindowOf[t] > clock THEN working[t] ELSE 0]
    /\ held' = [t \in Tickers |-> IF WindowOf[t] > clock THEN held[t] ELSE 0]
    /\ UNCHANGED <<env, process, store, accepted, exitsSeen, cost, exited, began>>

FlipSwitch ==
    /\ "switches" \in Faults
    /\ env' \in {[env EXCEPT !.kill = ~@], [env EXCEPT !.dryRun = ~@]}
    /\ UNCHANGED <<process, store, clock, exchange, exited, began>>

StopPoints ==
    UNION {CASE f = "restart" -> {"idle"}
             [] f = "crash" -> {"post", "cancel", "sell", "flat"}
             [] f = "crash_unrecorded" -> {"book"}
             [] OTHER -> {} : f \in Faults}

\* All memory is lost; the order store and the exchange are not.
Stop ==
    /\ pc \in StopPoints
    /\ pc' = "down" /\ req' = NoPick /\ dec' = Refused /\ ack' = "none"
    /\ book' = EmptyBook(Bankroll, Bankroll) /\ entryIds' = {}
    /\ UNCHANGED <<env, switches, store, clock, exchange, exited, began>>

Next ==
    \/ Boot
    \/ \E p \in Picks : Fire(p)
    \/ PostSimulated \/ PostAccepted \/ PostNotAccepted \/ BookEntry
    \/ \E t \in Tickers : ExitBegin(t) \/ FillResting(t)
    \/ ExitCancel \/ ExitSell \/ BookExit
    \/ NextWindow \/ FlipSwitch \/ Stop

Spec == Init /\ [][Next]_vars

-----------------------------------------------------------------------------
\* Every variable keeps to the values the code can give it.
Requests == Picks \union [ticker : Tickers]

TypeOK ==
    /\ env \in [kill : BOOLEAN, dryRun : BOOLEAN]
    /\ switches \in [kill : BOOLEAN, dryRun : BOOLEAN]
    /\ began \in [kill : BOOLEAN, dryRun : BOOLEAN]
    /\ pc \in {"down", "idle", "post", "book", "cancel", "sell", "flat"}
    /\ dec \in Decisions
    /\ pc \in {"post", "book"} => req \in Picks /\ dec.count > 0
    /\ pc \in {"cancel", "sell", "flat"} => req \in [ticker : Tickers]
    /\ ack \in Answers
    /\ book \in Books
    /\ entryIds \subseteq Tickers
    /\ store \in [Modes -> [Tickers -> [count : Nat, id : BOOLEAN]]]
    /\ clock \in Windows
    /\ accepted \subseteq Tickers /\ exitsSeen \subseteq Tickers /\ exited \subseteq Tickers
    /\ working \in [Tickers -> Nat] /\ held \in [Tickers -> Nat] /\ cost \in [Tickers -> Nat]

-----------------------------------------------------------------------------
\* Safety

InWindow(set, w) == {t \in set : WindowOf[t] = w}

\* The exchange never takes entries for more than max_picks_per_window
\* contracts of one settlement window: the correlation cap of decide(), seen
\* where it matters and not in the executor's own counters.
WindowCap == \A w \in Windows : Cardinality(InWindow(accepted, w)) <= Cfg.maxPicks

\* What on_fire books covers what the exchange took.  Between calls every entry
\* accepted for the running window is owned in window_tickers, and the window's
\* committed cents are at least the worst case those entries can cost - also
\* when the acknowledgement was lost, unparsable or could not be stored.
ExchangeIsBooked ==
    pc \notin {"down", "book"} =>
        \A w \in Windows : w >= clock =>
            /\ InWindow(accepted, w) \subseteq book.windowTickers[w]
            /\ SpentIn(w) <= book.committed[w]

\* Under percentage sizing the exchange is never owed more for one window than
\* max_per_window_pct of the bankroll, priced at the limits posted.
WindowSpend ==
    \A w \in Windows : SpentIn(w) <= PercentOf(Cfg.maxPerWindowPct, Bankroll)

\* A ready client never posts an entry the exchange has already taken: DUP_TICKER
\* must hold a contract after an exit, a lost answer or a settled neighbour, and
\* does not lean on the exchange's client-order-id check.
NeverReposted == pc = "post" /\ Ready => req.ticker \notin accepted

\* The portfolio's three views of what is open agree, across fills, settled
\* windows, exits and restarts: on them rest the open-position cap, the window
\* cap and the duplicate guard.
BookAgrees == Agrees(book)

\* Once the panic button or dry-run is set, only a call that had already begun
\* may still reach the exchange: no entry, sell or cancel of a later call does.
SwitchesStopOrders ==
    [][ \/ accepted' # accepted
        \/ exitsSeen' # exitsSeen
        \/ pc = "cancel" /\ pc' # "cancel" /\ working' # working
        => ~began.kill /\ ~began.dryRun ]_vars

\* A booted executor can still get out of everything it is in: it knows the
\* position of every contract held, and the order id of every entry that
\* rests, unless a live exit of that contract was already acknowledged.
ExitIsPossible ==
    pc = "idle" => \A t \in Tickers \ exited :
        /\ held[t] > 0 => book.positions[t] > 0
        /\ working[t] > 0 => t \in entryIds /\ book.positions[t] > 0

\* From the moment the exchange takes the sale of an exit nothing of the entry is
\* left resting to fill into the move the exit is escaping: the cancel has gone
\* out before, and a crash between the sale and its booking changes nothing.
ExitLeavesNothingResting == \A t \in exitsSeen : working[t] = 0

\* While the kill switch is on, the executor still knows every contract it
\* holds and has not sold: the switch "leaves existing positions alone".
KillLeavesPositionsAlone ==
    pc = "idle" /\ switches.kill =>
        \A t \in Tickers \ exited : held[t] > 0 => book.positions[t] > 0

\* What the caps promise the account, whatever the process goes through.
EntryLimit == INSTANCE EntryLimit WITH entered <- accepted, MaxPicks <- Cfg.maxPicks
ImplementsEntryLimit == EntryLimit!Spec
=============================================================================
