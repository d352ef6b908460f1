# Verification of tomorrow-bot

TLA+ models of the trading bot in `src/` (C++23, Bitget USDT-M futures), the TLC
configurations that check them and the TLAPS proofs about them. Paths below are
relative to `src/src/`; line numbers are those of the modelled commit.

## The system

One process trades several symbols. `main` (`app/main.cpp`) scans the market, wipes what
an earlier process left at the exchange, builds one `TradingPipeline` per symbol, gives
them to the `Supervisor` and runs an idle monitor that moves pipelines to other symbols.
All pipelines share one portfolio; everything else (strategy, risk engine, execution
engine, order registry, bracket manager, worker pool, the two WebSocket clients) belongs
to one pipeline, that is to one symbol.

Threads of a pipeline:

| thread | what it does | locks |
|---|---|---|
| tick (the thread of the public WebSocket) | book, features, strategy, decision, gates, sizing, risk, leverage, `execute`; periodic tasks, order watchdog, bracket verification | `pipeline_mutex_` |
| private WebSocket | `on_private_ws_message`: fills and order states | registry and portfolio mutexes only |
| REST worker (one, queue of 32) | reconciliation, balance sync, clock sync, funding, open interest, orphan clean-up | registry, portfolio and bracket mutexes only |

No mutex is held across a REST call, except `pipeline_mutex_` by the tick itself. So
what a thread read before a call may be stale after it, and this is where most of the
hard behaviour is.

### Inventory

| component | state | operations | hard behaviour | what makes it correct |
|---|---|---|---|---|
| portfolio | positions per leg, cash ledger, reservations, pnl, peak | open, reduce, close, reserve, release, fee, funding, daily reset, sync | every pipeline calls it in any order | the ledger balances; nothing erases a loss |
| execution | registry of orders, intents, fill marks, reservations | execute, process fill, cancel, watchdog, reconcile, clean up | three threads, lost answers, lost and repeated events | an execution is booked once; margin is neither lost nor leaked; one entry per symbol |
| brackets | tracked take-profit and stop ids per leg | register, verify, fall back, release, clean up orphans | REST calls without the lock; failed listings look empty | live protection stays, dead protection goes |
| periodic tasks, worker pool | queue, in-flight flags, risk guards | offer, run, drain, destroy | drop at the limit, stop at any time | one job per flag, stop returns and is quiet |
| app, supervisor | system state, subsystems, pipelines, orders found at startup | scan, wipe, filter by capital, start, rotate, signal, shut down | failing queries before a wipe; signals and ticks while a pipeline is replaced | live protection survives the wipe; positions stay managed; one pipeline per symbol; a signal ends the process |
| scanner | breaker counters, last basket | scan, filter, score traps, diversify | requests fail one by one, a deadline | whatever fails, the basket is sound |
| circuit breaker, retry | three atomics | allow, record, retry | no mutex | never stuck half-open |
| position control | tracked side, pending close, hedge state of each pipeline | stagnant exit, hedge recovery, stop-loss, exit and entry signals, sync, reconcile | fields written by two threads, stale listings, a portfolio shared by all | local state returns to what the exchange has; the stop-loss is not switched off for good |
| strategy | state of the symbol, setup, cooldowns | detect, confirm, enter, manage, cool down | missed notifications, late fills | in step with the position; never waits for ever |
| risk | locks, counters of losses, trades and rates, kill switch | evaluate, record order, record close | the switch of another thread; limits that interact | nothing is sent while halted |
| regime, uncertainty, decision, execution alpha | hysteresis, cooldown | classify, assess, aggregate, choose style | thresholds that move with the state | inputs of the entry |
| sizing, leverage, gates, bandit, TWAP | plan, applied leverage, arms, cooldowns | size, raise, slice, delay, back off | one step undoes the cap of another; early returns | one entry, within the loss a trade may make; a plan ends |
| recovery, persistence | snapshot, journal | restore, replay, query, synchronise | crash between two steps, one query of two fails, an old snapshot | no position of the exchange is lost; the portfolio heals |
| market feed, order book | sequence numbers, book, subscriptions, pong age | connect, subscribe, confirm, apply, invalidate | a link that dies silently, gaps, reconnects, subscribe from another thread | the book is one the exchange had; no stale depth; the feed comes back |
| private feed | login, subscriptions | connect, log in, subscribe | login answer against subscribe, time-outs | both channels are served |
| dual legs | pair state | enter, unwind | | no caller in production |
| features, indicators, estimators | windows of floats | formulas | numerical | out of TLC's reach |
| config, security, telemetry, metrics, logging | | | | not in the trading path |

`PROJECT.json` lists every component with its sources, and the hazards by line.

## Modules

| module | models | state | actions |
|---|---|---|---|
| `PortfolioOps` | `portfolio_engine.cpp` as operators on a record | | one operator per method |
| `Portfolio` | the shared engine; each method holds `mutex_`, so it is one atomic action | `pf` | one per public operation |
| `OrderFSM`, `OrderRegistry` | state table; registry operations as operators | | |
| `OrderExecution` | `ExecutionEngine`, `FillProcessor`, `CancelManager`, watchdog, private WebSocket handler, reconciliation job, and the exchange | registry, reservations, exchange orders, messages, locals of three threads | one per registry or portfolio call |
| `ProtectiveBrackets` | `ProtectiveBracketManager` with its callers and the exchange's plan orders | `brackets_`, local and exchange positions, plan orders, locals of two threads | one per critical section or REST call |
| `HedgePairManager` | `hedge_pair_manager.cpp` as operators on its two fields; `Evaluate` is the set of outcomes that prices and scores can lead to | | |
| `PositionControl` | the part of `trading_pipeline.cpp` that controls positions: the tick's stagnant exit, hedge recovery, stop-loss and signal, the balance sync and the position reconciliation of the worker, fills and plans at the exchange | positions at the exchange and in the shared portfolio, the control fields of each pipeline, the order a tick is about to send, the listings under way | one per stage of the tick, one per fetch and one per application |
| `StrategyEngine`, `RiskEngine`, `MarketAssessment`, `DecisionEngine`, `ExecutionAlpha`, `TwapExecutor`, `EntrySizing`, `EntryGates` | the engines a tick asks, as operators on their state: one module per engine, scores in percent and costs in basis points, features as the facts or levels that the conditions tell apart | | |
| `SignalFlow` | `on_feature_snapshot` from its first guard to `execute`, composed of these engines | their states, working entries and position, cooldowns, the kill switch, what the tick under way has read and decided | one per stretch of the tick between two points where another thread can interfere, plus fills, cancels, closes, sync and the switch |
| `OrderBook`, `MarketFeed` | local book and normalizer as operators; public WebSocket client and gateway, with the exchange's tape of books | link, subscriptions and their confirmations, wire, phase of the client, book, age of the pong | one per handler or timer of the client's thread, one per step of `subscribe` on the other thread |
| `BookMirror` | abstract: what a local book promises | | appear, advance, vanish |
| `PrivateFeed` | private WebSocket client | stream, login, timer, subscriptions | as above |
| `ExchangeFeeds` | both feeds side by side | | |
| `Recovery` | constructor of a pipeline (`RecoveryService`, snapshot, journal), start, trading, periodic sync, crash | positions at the exchange and in the portfolio, snapshot, journal, step of each pipeline | one per query or write |
| `MarketScan` | a scan: loading with breaker and deadline, filter, trap scores, ranking, diversification, fallback | `scanner`: breaker, market, pairs left to fetch, pairs loaded, pairs chosen | skip, scan without lists, begin, fetch the next pair, choose |
| `AppLifecycle` | `Supervisor`, idle monitor, rotation, shutdown | system state, subsystems, pipelines | one per step of each thread |
| `AppStartup` | `main` from the first scan to its return, composed with `AppLifecycle` and `MarketScan`, whose steps it takes while a scan runs | what was scanned, reported, wiped and filtered; orders at the exchange | one per query or stage |
| `PeriodicTasks` | `RestWorkerPool`, `run_periodic_tasks`, `stop` | queue, in-flight counter and flags, risk guards | one per critical section |
| `CircuitBreaker` | `circuit_breaker.cpp`, `RetryExecutor::execute` | the atomics, the callers | one per atomic access |
| `Background` | the tasks and the breaker side by side | | |
| `*Proofs` | theorems about the module of that name; `ProcessProofs`: about the process and what runs beside the trading, that is `AppStartup` with `AppLifecycle` and `MarketScan`, `PeriodicTasks` and `CircuitBreaker` | | |
| `MC*` | instances for TLC | | |

`Background` and `ExchangeFeeds` put two parts that share no state into one specification:
a behaviour runs one of them.

An operator `Name_What` before a definition `Name` is a plausible bug of that definition; it is
used only to see that a property notices it.

## Runs

| run | question | bounds | why they are enough |
|---|---|---|---|
| `portfolio` | does every sequence of operations keep the books, the equity over a reset and the peak? | two orders, quantities 1-2, prices 2-3, four operations | every pair of operations meets every kind of state; every law is also proved for all values |
| `orders` | are marks, margin and bookings consistent under all interleavings, and is an entry alone? | orders of two units; four scenarios: a market order polled by REST while its events come without price, out of order and repeated; a market order with a garbled reply and a failed cancel; a limit order with repeated frames (these three with the reconciliation); two limit entries without faults or reconciliation | partial and full fills, reordering and repetition all need two units; every property here is also proved for any orders, quantity and scenarios |
| `orders_unreliable` | does a limit order settle, keep its record and give its margin back when answers and events are lost? | one limit order without the reconciliation: a lost submit reply, lost, reordered and repeated events, one failed cancel | each fault at every step; only that it settles is not proved |
| `brackets` | are tracked ids right, fallbacks placed again only after a lost answer, orphans removed, brackets settled? | one leg, an inherited and a new position, two verifications, one failed REST call | the failure may hit any call; identity of legs is proved for any legs |
| `control` | do portfolio, tracked leg and stop-loss recover from whatever the tick, the worker and the exchange do? | one symbol, unit size, hedging on, two steps that send orders (`MaxSends`); starts flat, with a leg or with a pair, an adopted position counting as one step | entry and close, hedge and unwind, close and re-entry all fit; what follows after the last order is not bounded |
| `signal` | does an entry join at most an order whose cancel failed, is it within its risk and never sent while halted; does nobody wait for ever? | one setup type, scenarios of a few markets, accounts and conditions each; `MaxWorking`, `MaxRejections`, cooldowns of one or two ticks | a plan of several slices, a working entry, a late fill, a rejection and a cooldown can all be under way together; cancels fail in the scenario of the single order |
| `feed` | is the local book one the exchange had, does a dead link show, do the feeds come back (the private one up to its first login time-out)? | tapes of three books, one of each kind (both sides change, one side, the price falls through), two channels, `MaxBreaks` disconnects, ignored subscriptions and login time-outs | a gap needs two updates, a reconnect a third; each fault at every step |
| `recovery` | does the portfolio survive crashes? | two symbols, sizes up to two, a bounded number of ends, failed queries and trades | a crash in each step of one pipeline while the other trades; the snapshot may be older than any of them |
| `app` | are positions managed or the process ended, pipelines of different symbols, baskets sound; does a signal end the process? | four symbols, four scans, baskets of two with one per sector | a scan may fail, be cut short or fall to the breaker; a pipeline can move while the other holds, fails or moves; every safety property is also proved for any market and symbols |
| `background` | is the pool safe at its limit and while stopping; can the breaker hang? | one worker, queue of two, four tasks; two callers, threshold 2, one probe, one retry | the queue overflows, guarded and unguarded tasks mix; `OneJobPerFlag` is also proved for any workers and limit, and the breaker's safety for any number of callers |

Violations, each a statement of the repository that the code does not meet (quoted
under `findings`):

| run | what happens |
|---|---|
| `orders_double_booking` | a market order confirmed by REST is booked again by its own fill event |
| `startup_wipe` | the position query fails and the wipe cancels the stops of open positions |

### Refinement

`BookMirror` says what a local book promises to its readers: it shows nothing or a book that
the exchange had, it never goes back to an older one, and it may be withdrawn at any time.
`MarketFeed` implements it (`MirrorsExchange`, checked by `feed` and proved for any tapes
and breaks as `BookIsMirrored`): `past` is the tape of the
exchange so far, `mirror` the levels of a book whose quality is Valid and nothing otherwise.
So a lost or discarded delta never leaves a mixture of two books behind.

### Fairness

- Threads are weakly fair: a thread that can take its next step takes it (the
  operating system schedules it, and REST calls have timeouts).
- `orders_unreliable`: the watchdog is strongly fair because each tick calls it.
- `brackets`: verification, clean-up, balance sync and reconciliation are strongly
  fair; each is due again after a fixed interval and the tick returns to idle between
  operations. Nothing is assumed of the market: positions need not be opened or closed,
  plan orders need not trigger.
- `control`: ticks keep coming, working orders end, fills are booked. The balance sync and
  the reconciliation are strongly fair: both are due again and again, the pool's queue is
  first in first out and its one worker gets to each; of the calls that are made some
  succeed. No signal, plan trigger or hedge decision is assumed to happen.
- `signal`: every tick ends, and again and again there is time for one that is not cut
  short: the clock advances, ticks get through to the strategy, and the exchange does
  not refuse a closing order for ever (strong fairness, since other steps interrupt
  each of them). No entry, fill or price is assumed.
- `feed`: handlers and timers of the client's thread are weakly fair, the handshake and
  the login strongly: they are tried again after each failure and some try succeeds.
- `recovery`: the steps of a constructor, `start` and the periodic sync are weakly fair.
- `app`: main, its startup, the monitor and ticks run; signals need not come.
- `background`: workers, ticks and `stop` run; time passes and callers keep calling.

Failures are bounded in number (`MaxErrors`, `cancelFailures`, `MaxBreaks`, `MaxFaults`, ...): under failures
without end nothing can be promised.

## Proofs

In the order of the modules; a theorem about a property of the runs names it.

| theorem | statement | argument |
|---|---|---|
| **Portfolio** | | |
| `PortfolioTypeCorrect` | types, for all constants | by cases on the operation |
| `CashIsConserved` | `total_cash = available_cash + reserved_for_orders` | inductive with the types; one lemma per operator that touches the ledger |
| `NetPnlIsGrossMinusFees` | net = gross - fees | same |
| `ReservationsAreCovered` | `ReservationsCovered`: both conditions of `check_invariants` on reservations (cash is conserved, `reserved_for_orders` is the sum of the pending orders' reservations), and a reservation never overdraws: `available_cash` goes below zero only in a step in which `total_cash` falls. The first condition of `check_invariants`, `available_cash >= 0`, does not hold (see Observations) | lemmas on sums over a finite set (adding or taking away a member, changing one value), by well-founded induction on its subsets; then one operator changes one reservation and the counter by the same amount (`OverdrawnByLossOnly` for the last part) |
| `ResetKeepsEquity`, `SyncMatchesExchange` | action properties | from the types and the definition of the equity |
| `PeakIsKept` | `DrawdownNotErased`: only the daily reset and the first sync lower the peak | one lemma per operator that ends in `RaisePeak`; the others leave the peak alone |
| **OrderExecution** | | |
| `OrdersTypeCorrect` | types; no order executes beyond its quantity or is submitted twice; a thread that books or marks a fill has one | inductive (`OrderInv`); one lemma per group of actions, by way of `ThreadStepKeeps` and `ExchangeStepKeeps`, which say what a step of one thread or of the exchange has to show |
| `TradesAreBookedOnce` | `TradeBookedOnce` under any loss, repetition and reordering | strengthened by: a booked trade is in `seen_trade_ids_`, and while the thread carries a fill to the portfolio its trade is seen and not booked. It assumes that no id is evicted, that is fewer than `kMaxSeenTradeIds` trades |
| `MarkedIsBooked` | `AppliedIsBooked` whichever of poll, fill event and order update comes first | strengthened by: a marked order is booked or the private thread is about to book it (`process_order_fill` marks first); every quantity on its way to the portfolio is positive |
| `RecordsNeverGoBack` | `RecordNeverGoesBack`, under any faults | `LifeInv`, which the next four rest on too: `OrderInv`, what the states say of the life of an order (`RecordsOK`), that a thread's copy of a record is not ahead of it (`CopiesOK`), and that the copy which will be written is the current one (`CurrentOK`): once a limit order can be found by its exchange id, only the private thread writes a copy back |
| `MarginNeverLeaks` | `NoMarginLeak` | `ReleaseOK`: an ended order with margin has a thread at work that will release it |
| `MarginIsHeld` | `MarginHeldWhileWorking`, with the reconciliation | `HoldOK`: an active order that is live or being sent, and unbooked, has its margin; with answered requests only a confirmed end of the order releases, and no order goes to UnknownRecovery |
| `LimitFillsBookedOnce` | `LimitBookedWithinExchange`, whatever is repeated | `SequenceOK`: the messages of an order are in order and its end is the last one, the record and the booking never pass a fill the thread has not seen |
| `OneEntryAtATime` | `AtMostOneEntryLive` for any number of entries | `GateOK`: a live order has an active record, because neither a cancel nor an update ends a record before the exchange ended the order; so the gate sees it |
| **SignalFlow** | | |
| `NothingSentWhileHalted` | `HaltedSendsNothing`: a tick that ran under the switch sends neither an entry nor a slice of an older plan | `FlowInv`: the types, the facts a tick has established at each stage (`TickOK`: the risk engine has read the switch before anything that opens is sent) and what a plan still has to send (`PlanOK`) |
| `EntriesJoinOnlyStrays` | `EntryJoinsOnlyStrays`: an entry of a signal joins a position or another live order only where an order whose cancel failed was alive when the guards looked | same; after the guards only the tick itself puts a new order to work, and only a stray moves the book |
| `SignalsWithinRisk` | `SizedWithinRisk` for any limits of the exchange | same, with lemmas on whole numbers: each filter that raises an order asks the cap, and shares of falling weight add up to no more than the whole |
| **Recovery** | | |
| `RecoveryTypeCorrect` | types; a fetched listing is about the symbol of its pipeline | inductive with the next |
| `RecoveredIsNotLost` | `NothingLost`, through any crashes | `IInv`: also a listing that was fetched and not applied yet has, for every leg that has not moved since, the size of the exchange |
| **MarketFeed** | | |
| `FeedTypeCorrect` | types; a message on the wire is one the exchange can have written | inductive (`FeedInv`) |
| `DepthIsNotStale` | `NoStaleDepth` | strengthened by `WireOK` (the messages are of rising places of the tape, of this connection, none older than the newest book shown) and `BookOK` (a valid book is the book of one place) |
| `DeadLinkIsNoticed` | `DeadLinkNoticed` | `BeatOK`: on a dead link no pong is on the way, so each heartbeat finds the last one two halves older |
| `BookIsMirrored` | the refinement `MirrorsExchange` | step by step; `DeltaIsRead`: a delta that continues the sequence turns the book of one place of the tape into that of the next, so every step shows nothing, the same book, or a later one |
| **AppLifecycle, AppStartup and MarketScan** (`ProcessProofs`) | | |
| `StartupSound` | `StartInv`: types of `main` up to the pipelines, and what each of its stages has established about the lists | by cases on the step of `main` and of the scan. Sorting, filtering and diversifying keep a list within the pairs and without repetition (lemmas such as `Limited` on the places of a sequence) |
| `BasketsSound` | `BasketIsSound`: listed, quiet, spread over the sectors, each pair once | from `StartInv`: what is loaded was fetched, what is chosen is a part of what is loaded |
| `ForcedSymbolsManaged` | `ForcedManagedOrExit`: a startup with symbols added for positions gives each a pipeline, or `main` returns because the filter has left no pair of the scan | same; a forced symbol is put back after the filter, creation drops none, and `StartupEnds` lists the steps that leave the startup |
| `PipelinesDiffer` | `OnePipelinePerSymbol`, while symbols are created and while the monitor rotates them, if the configuration lists no symbol twice | `ListsSound`: the list pipelines are made from has no repetition. `LifeInv`: slots have different symbols, none of them is in the monitor's pool, and the pipeline under construction has a symbol that no slot has. The pool matters: it was read from the slots of an earlier step |
| **PeriodicTasks** (`ProcessProofs`) | | |
| `GuardedTasksOnce` | `OneJobPerFlag`: a guarded task is queued or run at most once, and only while its in-flight flag is up, whatever the queue drops | inductive with the types of queue and workers (`TasksInv`) |
| **CircuitBreaker** (`ProcessProofs`) | | |
| `BreakerTypeCorrect` | ranges and retry limit | inductive |
| `NeverStuckHalfOpen` | `HalfOpenIsDecided`: a half-open breaker has a deciding request | strengthened by: a caller that won the exchange has not reset the counter yet, or some caller is between probe and record |
| **PositionControl** | | |
| `ControlTypeCorrect` | types, the hedge budget included | strengthened by: a manager that waits for its hedge order is below the budget. The count grows when the portfolio shows the leg, long after `can_hedge()` was asked, so the types alone are not inductive |
| **ProtectiveBrackets** | | |
| `BracketsTypeCorrect` | types of brackets, plan orders and locals | one lemma per thread; the ids a thread holds are plan orders |
| `BracketsTrackTheirOwn` | `TrackedIsOwn` when take-profit and stop are further apart than the tolerance of `prices_match` | inductive with the types; only six steps touch a bracket |
| `FallbackRepeatsOnlyLost` | `FallbackRepeatsLostOnly`: of two live fallbacks of one entry and kind one is an order whose answer was lost, whatever is released, cleaned up or fails in between | `FallbackInv`: plan orders, brackets and verifications belong to an entry already made (`EntriesOK`); an active bracket has an id for every answered fallback of its entry, or the verification under way has crossed the kind out (`PlacedOK`) |

The constants' assumptions are the `ASSUME`s of the modules: amounts, prices and quantities are
naturals, `max_verify_attempts`, the cooldowns and the thresholds are positive and ordered as the
configuration requires, sets of callers and legs are not empty, the sets of orders of a portfolio, of symbols
and of legs of the recovery are finite, an entry is at least one unit, the smallest notional and the
leverages are positive and in order, the exchange lists finitely many pairs and each symbol once,
`MaxScans` is positive, and a tape is a non-empty sequence of books whose levels have a size.
Amounts are integers where the code has doubles; the rounding of doubles is not modelled.

The type invariants of these modules are proved for all constants and not repeated in
the runs. The conditions of the properties on orders (an orderly channel, answered cancels, no
reconciliation) are part of their statement, in `OrderExecution`; the theorems add none but that
of `BracketsTrackTheirOwn` and that of `PipelinesDiffer` (`config_loader.cpp:301` does not remove a symbol that
is listed twice, see below).

Only model-checked: liveness, which is beyond the provers (`OrderSettles`, `FlagReleased`,
`StopTerminates`, `OpenRecovers`, `SignalEndsProcess`, `OrphansRemoved`, `BracketSettles`, `PortfolioAgrees`,
`TrackedLegRecovers`, `StopLossResumes`, `EntrySettles`, `TwapEnds`, `PositionAdopted`, `BookHeals`, `FeedSettles`,
`PrivateFeedSettles`). The safety properties of the passing runs are all theorems. The two runs that expect a
violation show what the code does not promise, on instances only.

## Observations without a run

Met while modelling; true of the code, too local or too indirect for a run.

- `cancel_manager.cpp:134`: `force_transition` to UnknownRecovery also reopens an
  order that a fill has completed meanwhile. No job resolves UnknownRecovery (the methods of `RecoveryManager` that
  would have no caller), and it is not active: after a failed cancel the order may be live and
  the entry gate (`trading_pipeline.cpp:4215`) lets a second one through. `SignalFlow` has this
  order as a stray: `EntryJoinsOnlyStrays` says that nothing else gets past the gate.
- `reconciliation_engine.cpp:449`, `trading_pipeline.cpp:5150`: an order is active from the moment
  it is registered, so a reconciliation that runs while its submit is under way takes it for one that is
  missing at the exchange. It cancels with an exchange id that is still empty; the answer
  "not found" counts as success (`bitget_futures_order_submitter.cpp:662`), the order becomes
  Cancelled and its margin is released while it goes live. The gate at
  `trading_pipeline.cpp:4215`, which the comment above it wants to keep to one order, then lets a
  second entry through. `AtMostOneEntryLive` and `NoMarginLeak` are therefore stated without
  the reconciliation job.
- `trading_pipeline.cpp:4873`: the desync request is taken down when the balance sync is
  queued, also if one is already in flight or fails afterwards, so the guard of
  `risk_checks.cpp:780` does not last until the resynchronisation.
- A fill event that is lost is never booked if the reconciliation then sees the order
  gone; a market fill without a price stays unbooked when the reconciliation cancels.
- A partial fill that arrives after the cancel keeps the order active for ever.
- `rest_worker_pool.cpp:74`: a job dropped at a full queue never clears its in-flight
  flag. `:135`: between pop and the increment of `in_flight_`, `drain` sees the job nowhere.
- `trading_pipeline.cpp:4782` overwrites the guard that the clock job set on a drift.
- `circuit_breaker.cpp:81`: a success that loaded HalfOpen may close a breaker that was
  reopened meanwhile. The breaker, the retry executor, the idempotency manager and the
  operational guard have no caller outside the tests.
- A slot whose pipeline failed to start never counts as idle and is not rotated.
- `portfolio_engine.cpp:916`: `check_invariants` demands `available_cash >= 0`, which the code does
  not keep: losses, fees and funding are taken from the available cash without a test. Reservations alone
  cannot cause it (`ReservationsCovered`).
- `protective_bracket_manager.cpp:667`: when the answer of `submit_plan_order` is lost, the manager
  takes the order for failed and the next verification places a second live stop; the first one is
  tracked by nothing until a clean-up finds the symbol without an active bracket.
- `protective_bracket_manager.cpp:16`: with a tolerance of 1 % a take-profit and a stop that
  are closer than that match the same plan order; the other one is untracked and is
  cancelled by the next clean-up (`Narrow = TRUE`).
- `protective_bracket_manager.cpp:455`: `release` erases whatever bracket the leg has by then.
- `trading_pipeline.cpp:700`: the brackets are recovered before the recovery service has
  found any position, so never.
- `protective_bracket_manager.cpp:594`: the clean-up spares a symbol only if no bracket of it is
  active. Between `on_position_opened` and the verification (3 s grace, 1.5 s period) the
  bracket is active with empty ids, so a clean-up in that window takes the presets of the new
  position for orphans and cancels its stop, which the comment above wants to prevent. The
  fallback of the verification places a new one.
- `trading_pipeline.cpp:5289`: the mismatches are about every symbol of the shared portfolio, and
  the handler closes `symbol_`'s own leg whatever `mismatch.symbol` is. With two symbols, one
  pipeline closes its own live position locally because the other symbol's has gone, and
  releases its bracket; the next balance sync brings the position back.
- `main.cpp:1052`: a tick that is under way while the monitor stops its pipeline can open a
  position after the check that says a pipeline with a position is never replaced.
- `trading_pipeline.cpp:1097-1131`: for a pair the sync calls `notify_hedge_opened()` and then
  `reset_trailing_state()`, which resets the manager: with `hedge_active_` set it is back at
  PrimaryOnly with a count of 0, so the budget of two hedges per position
  (`trading_pipeline.cpp:1837`) starts again at each sync.
- `hedge_pair_manager.cpp:211` expects the watchdog to call `notify_hedge_failed()`; it does not.
  A hedge order that ends unfilled switches the stop-loss off until the next sync.
- `close_order_pending_` after a stagnant exit is cleared by nothing once the position is gone,
  so the pipeline takes no entry until its slot is rotated; a close that the TWAP plan or
  the leverage block swallows leaves it set until the next sync.
- A LongExit or ShortExit may name a leg other than the tracked one, while the size is asked
  of the exchange for the tracked one (`trading_pipeline.cpp:3700-3787`).
- `trading_pipeline.cpp:1168`: a position opened while the sync waits for its answer is
  taken for a phantom; if that happens before its bracket is registered, the bracket and
  its plan orders stay after the position is gone.
- `recovery_service.cpp:336`: positions that the exchange does not have are never removed by the
  recovery, only by the periodic sync, and that of symbols no pipeline trades by nothing;
  journal entries are written with other field names (`size`) than are read (`amount`).
  A snapshot is added to what other pipelines have restored already, until the sync.

Clocks: `clock.hpp` promises nanoseconds since the Unix epoch, `wall_clock.cpp:15` returns
`steady_clock`. Comparisons with the exchange's or the snapshot's times therefore mix two
time scales: candles are not closed by time, `is_feed_fresh` is always true, and the
journal is never replayed because its entries are "older" than the snapshot.

Feeds:

- `bitget_private_ws_client.cpp:178-190`, `289-296`: after a login that timed out, the aborted
  read of the replaced stream is taken for an error of the new one, and the client
  reconnects for ever. `PrivateFeedSettles` is therefore stated up to the first time-out.
- With incremental books a discarded delta leaves the book out of sequence until the next
  reconnect, since nothing asks for a snapshot; the configured `books15` channel sends
  snapshots only. The private client has no pong time-out and does not repeat a subscription
  that is not confirmed. `connect_timeout_ms` is not used. The public client's `stop` calls
  `async_close` from another thread than the stream's.

Signals and risk:

- A TWAP plan bypasses the guards against pyramiding (`trading_pipeline.cpp:4202`, `:4215`) and
  the cooldown after a stop-loss; its slices set no leverage, notify no strategy and register
  no bracket. `EntryJoinsOnlyStrays` is therefore about the entries of signals. Only a denial
  ends a plan early; a slice that fails is lost.
- An entry that Thompson sampling delays is computed again when its wait ends and the stored
  intent is used only if the strategy signals at that very tick (`trading_pipeline.cpp:2806`).
- The lock of the drawdown halt is removed by switching the kill switch on and off. The losses
  are counted by `record_trade_close` only; `record_trade_result` is empty.
- A Kelly fraction of zero means "do not trade" (`portfolio_allocator.cpp:346`), but the bump to
  the exchange's minimum can still make an order of it. The size multiplier of the
  uncertainty is applied twice (`trading_pipeline.cpp:3926`). The leverage that is raised for the
  target margin is not tested against the liquidation buffer again.
- `decision_aggregation_engine.cpp:244`: the comment allows base + 0.20, the code base + 0.25 with a
  cap of 0.80.
- A limit entry is reported to the strategy as an opened position before it fills: while it
  works the strategy sees no position and goes into its cooldown.
- `trading_pipeline.cpp:4853`: the block that a clock drift sets lasts until the next tick.

Startup and scanner:

- `main.cpp:435`, `config_loader.cpp:301`: a symbol that the configuration lists twice is not
  removed, so manual mode would run two pipelines for it. `OnePipelinePerSymbol` is checked, and
  `PipelinesDiffer` proved, for lists without repetition.
- A SIGTERM during a scan or the wipe, in manual mode, or between
  `install_signal_handlers` and `supervisor.start` is lost: `g_early_shutdown`, which
  `main.cpp:51` calls sticky, is read by `interruptible_sleep` only. `SignalEndsProcess`
  is about the waits and everything after the start.
- `main.cpp:590`: an entry of an earlier process that fills between the position query and the
  wipe is in no list, so the wipe cancels its preset stop.
- `main.cpp:737`: when the capital filter leaves no pair of the scan, `main` returns 1 before the forced
  symbols are put back, so open positions stay unmanaged, although `main.cpp:429` says that they must
  always be managed.
- A position whose symbol the scanner itself chose is not among the forced ones, so the capital
  filter can drop it; `main.cpp:429` says open positions must always be managed.
  If no scanned pair passes the filter, `main` returns 1 although forced symbols exist
  (`main.cpp:737`). The filter drops all pairs that are too dear in one pass, also when one
  of them would fit after the other has gone.
- The correlation test of the diversification never applies, because the candles have been
  moved out before; an empty order book followed by candles resets the breaker's count; the
  breaker's counters are plain integers of two threads.

## Not modelled, and the plan

Left out because nothing in production reaches it: dual legs and the pair engines,
`recover_positions`, `recover_from_journal`, `recover_full_state`, the write-ahead log,
`RecoveryManager`, `unsubscribe`, `check_staleness`, `confirm_hedge_filled`, the idempotency
manager and the operational guard. (The circuit breaker and the retry executor have no
production caller either, but are small, concurrent and tested by the repository.)

Left out because it is out of TLC's reach: numerical code over windows of floats (features,
indicators, estimators of `ml`, scores of the scanner and of the market reaction). What the
decisions read of them is an input of the models, as a level or as a fact.

Left out because it is pure I/O, configuration or observability: HTTP server, SQL adapter,
signing, configuration, security, telemetry, metrics, logging. Of the feed, tickers, trades
and candles, whose only readers are the features.

What a next step would add, in this order:

1. An abstract order ledger (ordered, executed, booked) that `OrderExecution` implements: its
   invariants are proved one by one, the refinement would say them at once.
2. `PortfolioAgrees` and `BookHeals` as safety: after a sync that nothing has interrupted, portfolio
   and exchange agree. That a sync comes stays with TLC.
