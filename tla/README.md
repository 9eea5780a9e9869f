# DutchKem Trading: a verification project

TLA+ models of the parts of the trading backend where several actors change
shared state, the TLC configurations that check them on small instances, and
TLAPS proofs of the properties that hold for every value of the constants.

1. [The system](#1-the-system): its components, their state and what makes each correct
2. [The plan](#2-the-plan)
3. [The modules](#3-the-modules): how state and actions correspond to the code
4. [The runs](#4-the-runs): what each checks, its bounds, and what it shows
5. [Fairness](#5-fairness)
6. [The proofs](#6-the-proofs)
7. [What is only model-checked](#7-what-is-only-model-checked)
8. [What is not modelled](#8-what-is-not-modelled)
9. [What else the models show of the code](#9-what-else-the-models-show-of-the-code)

To repeat a run, `tlc -config pay_all.cfg MCPaymentLedger`; to repeat a
proof, `tlapm PaymentLedgerProofs.tla`. Paths below are relative to
`src/backend/` unless they begin with `src/`.

## 1. The system

The backend is a Django application served by web workers, with Celery workers
and Celery beat beside it, PostgreSQL and Redis behind it, and two outside
parties that hold state of their own: the Korapay payment gateway and the MT5
broker. An "infrastructure" package adds in-process services with their own
threads (connection pool, failover, health, power). Nothing coordinates these
except database transactions, row locks, and one `threading.Lock` per service.

| Component | State | Operations | Talks to | What makes it correct |
|---|---|---|---|---|
| **Payments** (`payments/services.py`) | Transaction rows, `User.balance` | create deposit, verify deposit, create withdrawal, webhook, reconciliation pass | Korapay (calls and webhooks), KYC, every view or task that saves a User | a deposit is credited once and only if paid; the balance is what the rows say; no overdraft; what is paid completes |
| **Order execution** (`trading/services.py`, `trading/views.py`) | Order, Trade and Position rows | validate, execute, cancel, modify, close | broker over HTTP, monitor row | the book and the broker agree; a FILLED order has its trade; positions follow trades |
| **Drawdown and daily target** (`risk_management/`, `config/tasks.py`) | DrawdownMonitor row: flags, counters, targets | minute task, midnight reset, target enforcement, override, update by each trade, circuit breaker, sizing | order execution reads the flags | a drawdown halts trading and stays halted; a stricter state never allows more |
| **MT5 client** (`mcp_integration/services.py`) | circuit breaker, connection flag | tool calls, connect with retries, health check, tick feed | a bridge on port 8082 | an open breaker shields the bridge and closes again once it answers |
| **Broker bridge** (`src/mt5-bridge/bridge_server.py`) | terminal, its flag | HTTP requests, one at a time | MT5 terminal | what callers believe of the terminal is so |
| **MT5 connection pool** (`infrastructure/mt5_pool.py`) | connections with states and error counts | acquire, release, mark error, health check, reconnect thread | strategies that need a connection | bounded; a connection has one user; failed connections return |
| **Node failover** (`infrastructure/failover_manager.py`) | nodes, active node, failover state | register, heartbeat, monitor, trigger failover, recovery | orchestrator, REST views, alerts | one failover at a time; one active node; failovers end; a dead active node is replaced |
| **Leader election** (`infrastructure/multi_node.py`) | nodes, leader | register, heartbeat, elect, check failovers | nothing in the repository calls it | a failed leader is replaced |
| **Broker failover** (`infrastructure/broker_failover.py`) | brokers, active broker | connect, heartbeat, select, trigger, monitor | orchestrator, REST views | trading settles on a live broker |
| **Internet failover** (`infrastructure/internet_failover.py`) | connections, failures, active connection | test, switch, monitor | alerts | what was given up is not chosen; a slow connection causes no flapping |
| **State synchronisation** (`infrastructure/state_sync.py`) | bounded buffer, Redis records, history, locks | sync, drain, resync, verify, lock, release | Redis | the newest state survives an outage; a lock has one owner |
| **Trading state and power** (`infrastructure/trading_state.py`, `power_protection.py`) | signed records; outage and shutdown state | save, load; check, four handlers, delayed shutdown | disk, Redis, UPS | what was saved loads after a restart; a critical battery shuts down, once |
| **Self-healing** (`infrastructure/self_healing.py`) | breakers, restart counts | use through a breaker, restart, reconnect, forced recovery | services it restarts | restarts are bounded; a breaker of a working service closes |
| **Health monitor, alerts** (`health_monitor.py`, `alert_system.py`) | last results, level, rate slots | checks, level events, alerts on channels | orchestrator | trouble is told of |
| **Resiliency orchestrator** (`infrastructure/orchestrator.py`) | which components it made, loops | initialize, start, stop; reactions to events | all of infrastructure | one loop each; each event heard once |
| **Accounts** (`accounts/`) | User rows, failed logins, locks, devices, sessions | sign in, profile, password, MFA, log out; account scaling | payments, through the shared row | a full count of failures is locked |
| **Request guards, security monitor** (`security/`) | buckets, blocks, histories, detector logs, events, baseline | per request, periodic cleanup | cache, database | limits hold; what was recorded is there to be judged |
| **Trading cycles** (`ml/v65_orchestrator.py`, `ml/v6_orchestrator.py`, `config/tasks.py`, `ml/enhancements/`) | tracked positions, market, signal, weights | task with retries, phases from exits to execution, backup system | analysers (inputs), orders | protected positions stay protected; tracked positions are bounded and diverse |
| **Replays** (`config/tasks.py`) | backtest row, running account | two replay tasks | strategies, Gold Edge | the result reconciles with its trades |
| **Search and learning** (`ml/genetic_optimizer.py`, `ml/models/rl_agent.py`, `ml/online_learning.py`, `ml/auto_retrain.py`, `ml/enhancements/self_optimizing_system.py`) | populations, replay memory, rollouts, windows, outcomes | search, train, retrain, compare | market data (inputs) | what is learned from is used once; genes stay in their bounds |
| **Signals, Gold Edge, calendar, features** (`strategies/`, `gold_edge/`, `ml/enhancements/smart_news_trading.py`, `ml/feature_store.py`) | rows of signals, regime, calendars, vectors | tasks with retries, requests, lookups | Redis, files | one row per result; what is read is what was stored last |
| **Statistics** (`config/tasks.py`, `analytics/views.py`) | cached performance rows | periodic task, view | trades, while they close and are reopened | figures are those of one moment (they are not: what contradicts takes a trade that moved) |
| **Messages, market data** (`notifications/`, `market_data/`) | rows, sockets, subscriptions, candle buffer | send, mark read; connect, subscribe, poll, flush | channels, bridge, InfluxDB | marks follow what was tried; counts follow sockets |
| **Market models, scalping, cryptography, records, front end** | models, rows, price series | compute, store, show | orders, as signals | numeric or presentational; no shared protocol |

The behaviours that are hard:

* **Read, call out, write.** Handlers read rows, wait for the gateway or the
  broker, and then write what they decided from the old rows, often the whole
  row (`save()` without `update_fields`). Other handlers run during the wait.
* **A transaction around a call that cannot be rolled back.** Orders and closes
  call the broker inside `transaction.atomic`: the rows go, the position stays.
* **Locks let go in the middle.** Failover and the pool's reconnect thread claim
  something under a lock and finish without it.
* **Lost answers and dying processes.** A gateway or broker call may have had
  its effect when it fails; a worker may die anywhere.
* **Repeated and reordered events.** The gateway repeats and reorders webhooks.
* **Retries of a task that has already stored something.** Celery tasks retry from
  the start, after rows of the first attempt have been committed.
* **Two stores for one thing.** Redis when it answers, the memory of a process
  or a file when it does not, and no way back.
* **Two writers of one flag.** Order pages, the minute task, the midnight task and
  an override write the same monitor row with different ideas of the day.

`PROJECT.json` lists the hazards one by one, each at its line, with the
properties that cover it.

## 2. The plan

Modules, in the order of what a failure would cost. All are done.

1. `LedgerBook` (what the payment service promises) and `PaymentLedger`
   (how it does it), with proofs.
2. `MT5Pool`, with proofs.
3. `FailoverManager` composed of its threads and callers, with proofs; `MultiNode`.
4. `OrderExecution`: orders, book, broker and halts together, with proofs.
5. `BrokerFailover`, `InternetFailover`, `Supervisor` (the orchestrator that starts
   and stops the monitors) and `HealthAlerts` (what it does on their events).
6. `StateSync` (buffer and drain) and `SyncRecords` (hashes, copies, locks).
7. `PowerProtection` with the trading state store: save, crash, load; delayed shutdown.
8. `MT5Breaker`, `SelfHealing`, `BrokerBridge`: the way of a request to the terminal.
9. `Accounts`, `RequestGuard`, `SecurityMonitor`: users and their requests.
10. `RiskRules`, `TradingCycle`, `V6Cycle`, `BackupCycle`: who trades when, and how much.
11. `Backtest`, `GoldEdge`, `SignalEngine`, `PerformanceCache`, `NewsCalendar`,
    `FeatureCache`, `MarketStream`, `Messages`: what trading reads and what it tells.
12. `GeneticEvolution`, `ParameterSearch`, `RlTraining`, `OnlineLearning`.
13. `ServiceProofs`, `WorkProofs` and `WorkTypesProofs`: proofs about the modules of 2
    and 5 to 12 and about their composition, on the
    lemmas of `SumLemmas`.

Every safety invariant and action property of the passing runs is proved. Left on the
plan: the refinement of an abstract failover lock by `FailoverManager`, whose promise
`OneFailoverAtATime` states directly; and a composition of `TradingCycle`,
`OrderExecution` and `BrokerBridge` (today each has its own idea of the broker, because
the code connects them by rows only).

## 3. The modules

Each module's `map` entry in `PROJECT.json` names the lines behind every
definition. Operators commented *Variant* are plausible mistakes in that code
(a dropped guard, an off-by-one, a missing reset): substituted for the
definition that follows, each makes a property of some run fail, which is how
we know that the property depends on the code. They are not used otherwise.

### LedgerBook and PaymentLedger

| Model | Code |
|---|---|
| `tx[r]` | `Transaction.status`; `ABSENT` until the row is committed |
| `balance[u]` | `accounts.User.balance` |
| `gw[r]` | the gateway's record of the payment (external) |
| `lock[r]` | the row lock of `select_for_update` |
| `job[w]` | what one worker has read and where its request stands |
| `posted[d]` | history: how often a deposit was added to a balance |

A database transaction is a sequence of steps of its worker whose writes
become visible in the last one. `create_deposit` is `CreateDeposit`,
`CallInitialize` (the answer may be lost after the gateway acted),
`CommitDeposit`; `verify_deposit` is `LockForVerify`, `AskVerify`,
`CommitVerify`, all under the row lock; `create_withdrawal` is
`LoadForWithdrawal` (authentication loads the user) and `CommitWithdrawal`;
`handle_webhook` makes no outside call, so each event is one step, taken when
the lock is free. An event for a reference without a row
(`WebhookUnknown`) changes nothing: `.get()` raises `DoesNotExist`
(`payments/services.py:189`), so the request ends in an error instead of the
answer the lines after it prepare and `payments/tests.py:379-385` describes.

`reconcile_transactions` has no transaction and no lock: `ListPending` reads
the rows, and each save and each credit afterwards (`SaveReconcile`,
`CreditReconcile`) is its own commit. `LoadUser` and `SaveUser` stand
for every handler that saves a whole User row (profile, password, MFA,
`config/tasks.py:400`); the balance written is the one read before, or, in the
sync task, the one the broker reports (`Terminal`). `Crash` may come at any step: the open transaction is
rolled back, its locks are released. `StartPayout` and `Settle` are the gateway.

Amounts are fixed per reference (net of fee): no property compares amounts
of one payment at two times. Authentication, KYC forms, HMAC signatures and
the JSON of the gateway are left out; `Verified` stands for KYC.

`LedgerBook` says what an account may rely on: credit each deposit at most
once, debit each withdrawal once, change the balance in no other way.
`PaymentLedger!Book` instantiates it with the completed deposits and the
existing withdrawals as the posted ones.

### MT5Pool

| Model | Code |
|---|---|
| `pool`, `next` | `self.connections`, `_conn_counter` |
| `state[i]`, `errors[i]` | the connection object, pooled or not |
| `held[c]` | the connection a client thread got from `acquire` |
| `running`, `todo`, `cur`, `pc` | the reconnect thread: started, its `failed_conns`, its place |

`acquire`, `release` and `health_check` are under the lock, one step each
(`AcquireIdle`/`AcquireNew`, `Release`, `HealthCheck`, where the set of
connections over the age limit is chosen freely). `MarkError` is the client's
own unlocked call. `reconnect_connection` is three steps, because it looks up
the connection under the lock (`LookUp`) but marks it, sleeps and idles it
without (`MarkReconnecting`, `FinishReconnect`). The load-balancing strategies are
one choice among the selectable connections.

### FailoverManager

| Model | Code |
|---|---|
| `status[n]`, `active`, `state` | `nodes[n]['status']`, `active_node_id`, `FailoverState` |
| `up[n]`, `late[n]` | whether heartbeats arrive; whether the last one is too old |
| `todo` | the failed nodes the monitor has yet to look at |
| `pc[t]`, `src[t]`, `tgt[t]` | each calling thread's place in `trigger_failover` and its arguments |

`trigger_failover` is `Start` (first locked section), `Select` (the backup is
chosen from the dictionary without the lock) and `Switch` (second locked
section). It is called by the monitor (`LookAt`, for the node that is active),
the orchestrator (`OrchestratorCall`, no arguments) and the REST view
(`ApiCall`, any source and target, registered or not). `Register` of a new node
while another thread walks the dictionary may raise in that thread, which
leaves its call without restoring the state. `Switch` to a target that is not
registered raises after the source has been marked failed. Callbacks only send
alerts and are left out.

### MultiNode

`multi_node.py` method by method. `locked` is true from the moment
`check_failovers` calls `elect_leader`: the caller waits for a lock it
holds itself, and every other method waits with it.

### OrderExecution

| Model | Code |
|---|---|
| `broker[t]` | the broker's position (external) |
| `order[t]`, `trade[t]`, `position` | the rows of the three tables |
| `rows`, `flags`, `count` | DrawdownMonitor: how many rows the user has; triggers and trade count of the newest |
| `equity`, `deep` | the account: day's target or loss limit reached; drawdown limit reached |
| `pc`, `tk`, `todo`, `day` | a worker's place, its ticket, and what an enforcement has left to close |
| `task` | what `monitor_drawdown` read and has not yet saved |

`PlaceOrder` is the view's validation and its PENDING row; `FillOrder` and
`LoseAnswer` the broker call; `BookOrder` and `CommitOrder` the writes after
it; `MarkFilled` the view's last save. Closing is `CloseTrade` (the
broker call, which reports success for any answer), `BookClose`, `CommitClose`.
`ModifyTrade` and `SaveModified` save a whole row read before the broker call.
Enforcement of the daily target is a transaction of several closes
(`EnforceDailyTarget`, `EnforceClose`, `EnforceEnd`), each of whose exceptions
is caught. `MonitorRead` and `MonitorSave` are the minute task, `ResetDaily` the
midnight task, `OverrideHalt` the override page.

Three facts of the code shape the module and surprise a reader:

* `_update_daily_monitor` raises `TypeError` on every row it did not create in
  the same call: it adds a float to the row's `Decimal`. Only the transaction
  that makes the user's first monitor row commits (`MonitorUpdatable`); all
  others roll back after the broker has acted.
* `DrawdownMonitor.user` is not unique. Two transactions that both saw no row
  both make one, and `get_or_create` raises from then on, in requests and in
  the minute task (`MonitorRead` needs `rows < 2`).
* An empty book refuses every first order: with one position the net exposure
  is the gross exposure, more than the 70% allowed (`trading/services.py:172`).
  `Init` therefore starts from a book with positions entered by an
  administrator (`Seeded`), where the code first becomes interesting.

`TradeCreateView` is not an action: it passes an argument
`execute_market_order` does not take and ends in `TypeError` before any change
(`trading/views.py:72-80`).

Volumes are one unit per position, prices and profits are left out; what the
guards need of them is in `MaxUnits`, `Buys`, `equity` and `deep`.

### Broker and internet failover, monitors and the orchestrator

| Module | Model | Code |
|---|---|---|
| `BrokerFailover` | `brokerStatus`, `activeBroker`, `brokerFresh`, `connecting`, `brokerMonitor` | `broker_failover.py`: statuses, `active_broker_id`, age of the heartbeat, a connect between its two locked parts, a monitor that checks (`CheckBrokers`) and then acts (`ActOnBrokers`) |
| `InternetFailover` | `ispStatus`, `ispFails`, `ispTodo`, `ispTesting`, `ispReplaced` | `internet_failover.py`: a round tests one connection after the other; the socket is tried outside the lock (`BeginTest`, `EndTest`), and a record registered anew meanwhile keeps nothing of the result |
| `HealthAlerts` | `results`, `level`, `limited`, `told` | `health_monitor.py` and `alert_system.py`: checks one by one, `_update_overall_level`, the event, the orchestrator's callback, the rate slot taken before delivery |
| `Supervisor` | `svMade`, `svHeard`, `svAt`, `svFlag`, `svLoops`, `svOverrun` | `orchestrator.py`: initialize, start and stop monitor by monitor; a stop lowers the flag (`MonitorStop`) and waits for the thread only so long (`MonitorJoin`) |
| `SelfHealing` | `circuit`, `restarting`, `restarts`, `reconnects` | `self_healing.py`: the breaker of a service, forced half open by `_coordinate_self_healing`; a restart checks its limit (`BeginRestart`) and counts after it has slept and started (`EndRestart`) |

Connecting to a broker never raises in the code, so no broker becomes FAILED.
`brokersByHand` says in the initial state whether operators and the orchestrator
move trading too. Counts that only matter against a threshold stop at it.

### State, power, and the way to the terminal

| Module | Model | Code |
|---|---|---|
| `StateSync` | `synced`, `newest`, `buffer`, `inHand`, `draining` | `state_sync.py` as the orchestrator drives it every 30 seconds; the drain takes an item (`DrainTake`), tries it (`DrainSync`) and puts it back at the end when Redis fails |
| `SyncRecords` | `rsStored`, `rsQueue`, `rsHistory`, `rsCopy`, `rsLock`, `rsHolding` | hashes and history of one key, `resync_node` in two steps, locks given without Redis, releases that delete any holder's key |
| `PowerProtection` | `powerStatus`, `shuttingDown`, `shutdownPc`, `redisRecord`, `fileRecord` | `power_protection.py` with `trading_state.py`: the four handlers, the thread that waits, saves and shuts down; `Crash` and `Restart`; a record with what its signature was taken over |
| `MT5Breaker` | `breaker`, `request`, `triesLeft` | `mcp_integration/services.py`: coroutines between awaits; an answer may come after the breaker has changed, a cancelled request records nothing |
| `BrokerBridge` | `brQueue`, `brOpen`, `clKnown`, `bkLevels`, `bkOff` | client and bridge: one request at a time, ten seconds' patience (`GiveUp`), what was given up on is served all the same; `brKind` is the MCP server the client's paths belong to or `src/mt5-bridge/bridge_server.py`, which knows none of them |

A signature is the set of fields it covers: `SignState` covers the record without
its signature, `Verified` recomputes it with one, which is all the difference
between a record that loads and one that does not. The signature's strength is
not a subject.

### Users and requests

| Module | Model | Code |
|---|---|---|
| `Accounts` | `acRow`, `acLoaded[r]` | the users' row and the copy each request loaded; every save writes the whole copy back, except those with `update_fields` |
| `RequestGuard` | `rgTokens`, `rgPlace`, `rgUnblock`, `rgAdmitted`; `ztDevices`, `ztRead` | `waf.py`: two buckets passed in order, a timed block, and the times of all admitted requests as history; `zero_trust.py`: histories read from the cache and written back without a lock; the reputation of an address, which is always clean |
| `SecurityMonitor` | `idLog`, `idRecorded`, `evRows`, `evRead`, `raFiles`, `raBaseline` | the detectors' logs, as sets of numbered and dated entries, and their verdicts; the events chained by the hash of the row read before, the integrity baseline and its file |
| `Messages` | `alSlot`, `alRows`; `noRow`, `noView`, `noTodo` | alerts with their slot and log rows; a notification on its channels while a view that read the row earlier saves all of it; the priorities are those the notify methods give |

### Deciding and trading

| Module | Model | Code |
|---|---|---|
| `RiskRules` | `rrDrawdown`, `rrFlags`, `rrTargets`, `rrSettings` | circuit breaker, recovery tiers, sizing, targets, metrics, the active settings row |
| `TradingCycle` | `tcPhase`, `tcMarket`, `tcOpen`, `tcSignal`, `tcTries` | `run_v6_trading_cycle` with its retries and the phases of `V65TradingOrchestrator`; phases that always do the same are conjuncts of the next one, with the exceptions they swallow; what leaves a phase as an exception ends the cycle (`PhaseRaises`) |
| `V6Cycle` | `v6Opps`, `v6Pred`, `v6Signal`, `v6Size`, `v6Weights` | the fallback's phases with strategies, ensembles, Kelly and volatility sizes, spread and slippage checks |
| `BackupCycle` | `bkCurrent`, `bkFailures`, `bkSwitched`, `bkLog` | `backup_manager.py` and its two tasks |
| `GoldEdge` | `goldResult`, `goldSignals`, `goldScan` | composite, grid of borders, filter, decision and levels as operators; analyse, store and scan as actions |
| `SignalEngine` | `sgPc`, `sgTries`, `sgScores`, `sgSignals`; `sgRegime` | `calculate_signal`, `calculate_confluence`, the two tasks that store rows and retry, the regime switcher |
| `NewsCalendar` | `nwCalendar`, `nwLoaded`, `nwFile`, `nwAnswer` | the calendar each process keeps for a day and shares in a file, and the advice of phase 4 |
| `Backtest` | `btPc`, `btPosition`, `btBalance`, `btCurve` | `run_backtest` and `run_gold_edge_backtest`, one bar a step, then closing the rest and writing the row |
| `PerformanceCache` | `pcTask`, `pcRead`, `pcDaily`, `pcSymbol`, `pcView` | `calculate_performance` and the metrics view, one query a step, while trades close and a stale save of `modify_trade` reopens them |

Prices, distances and scores are small whole numbers (each module's header names
its unit). What analysers, indicators or a statistical test say of the market
is a choice from a set; what the code does with it is modelled.

### Learning and data

| Module | Model | Code |
|---|---|---|
| `GeneticEvolution` | `gePool`, `gePc` | the first population, its scores, and one call of `evolve` on it: tournament, crossover, mutation, projection, elite (by `Place`, a stable sort's rank); the fitness simulation over seven bars |
| `ParameterSearch` | `gsPc`, `gsBest`; `soBest`, `soRun` | `optimize` up to the method it calls and does not have, the tuner and the self-optimizer around it |
| `RlTraining` | `rlRollout`, `rlMemory`, `rlNet`, `rlTarget`, the environment's account | `rl_agent.py`; a network is the number of its updates, an action may be any |
| `OnlineLearning` | learner, window, tester, ensemble, retrain manager | `online_learning.py`, `auto_retrain.py` |
| `FeatureCache` | `fcVerdict`, `fcRedis`, `fcMemory`, `fcAsk` | `feature_store.py`; keys are asked for (`AskKeys`) and read one by one (`ReadVector`) |
| `MarketStream` | `wsState`, `wsCount`, `wsFeed`; `psLast`; `inBuffer` | `consumers.py`, `services.py`, `ingestion.py`; the count of sockets is read (`Connect1`) and written (`Connect2`) in two steps |

`optimize` calls a method the class does not have once the first generation is judged
(`ml/genetic_optimizer.py:1024`), so no search has a second generation: `ParameterSearch`
raises there, and `GeneticEvolution` takes the public method `evolve` as a caller of its
own would, once, on a scored population. Nothing is said of a history of generations or
of its convergence, since the program never has one.

## 4. The runs

Runs marked *violation* check one statement of the repository's documents,
comments or tests that the code does not keep; `PROJECT.json` quotes the
statement under `findings`. Everything else passes.

### Payments (`MCPaymentLedger`)

One user, because the races are between requests on one account; two workers,
because every race in the code is between two requests; amounts that differ, so
that crediting the wrong payment shows. A reference is used once (the code
draws it at random), so the number of references bounds each behaviour, and
deadlock is not checked: when all payments are settled nothing is left to do.

| Run | Instance | Checks | Shows |
|---|---|---|---|
| `pay_locked` | 2 deposits, 1 withdrawal, no passes, no whole-row saves; 33,890 states | `PostedOnce`, `BalanceMatchesRows`, `ImplementsBook` | with crashes, lost answers and repeated events, each deposit is credited once, the balance is the sum of the rows, and the rows implement `LedgerBook` |
| `pay_all` | 1 deposit, 1 withdrawal, both workers may run passes and save users; 44,990 states | `TypeOK`, `CompletedIsPaid`, `CompletedIsFinal`, `PaidIsCompleted` | even so only paid payments complete, COMPLETED is final, and a paid deposit that has a row completes |
| `pay_overdraft` | 2 withdrawals of 2 and 5 from a balance of 5 | *violation* of `NoOverdraft` | both requests load the balance 5, both pass the check, the balance ends at -2 |
| `pay_reconcile` | 1 deposit, 1 worker may run passes | *violation* of `CreditedAtMostOnce` | a pass reads the row as PROCESSING and asks the gateway, a webhook completes and credits the deposit, the pass saves and credits it again |

What does not hold beyond those: `BalanceMatchesRows` with one editor
(`pay_locked` with `Editors = {w1}`). In the shortest trace the sync task
writes the broker's balance over the wallet's; in another, a profile page loads
the user, a webhook credits a deposit, and the page's save puts the old
balance back. No document promises the contrary, so this is described here and in
the hazards. `CompletedIsFinal` and `CompletedIsPaid` say what survives of the
reconciliation pass: its order of commits loses or repeats money, never status. With
passes `PostedOnce` is false for the moment between the commit of COMPLETED and that of
the credit (`payments/services.py:244, 246`), and for good when the worker dies there;
`pay_reconcile` therefore checks that nothing is credited *twice*.

### Failover (`MCFailoverManager`, `MultiNode`)

| Run | Instance | Checks | Shows |
|---|---|---|---|
| `fo_all` | 2 nodes, one registered later; monitor, orchestrator and REST calls; nodes recovered and set active by hand; 329,000 states | `TypeOK`, `OneFailoverAtATime` | the state set in the first locked section keeps others out until the second |
| `fo_live` | 3 nodes, the monitor alone; 32,000 states | `OneActive`, `FailoverEnds`, `FailoverHappens` | at most one node is active, every failover ends, and a dead active node is replaced while some backup stays up |
| `mn_reelect` | 3 nodes, one steady | *violation* of `LeaderReplaced` | `check_failovers` waits for its own lock; the failed leader is never replaced |

Two nodes suffice for mutual exclusion between three threads (a source and a
target); three give the liveness run a choice of backup and a second failure.

What does not hold: a target that is not registered, which the REST view
accepts, raises in the second locked section; the state stays in progress and
every later failover is refused. With the orchestrator beside the monitor, `OneActive`
fails (the monitor compares with `active_node_id` before another failover has
moved it, and then fails over a source that is no longer active, so that the
node in between stays marked active). And a backup that returns after the only
report of a failure is not used: `check_failures` reports a node once, which is
why `FailoverHappens` has the premise that some backup stays up.

### Orders and halts (`OrderExecution`)

| Run | Instance | Checks | Shows |
|---|---|---|---|
| `ord_all` | 1 seeded position, 1 order, 2 workers of which one enforces the target, answers lost and workers dying; 1,750,000 states | `TypeOK`, `FilledIsBooked`, `PositionsAreOpen`, `DrawdownSticky`, `DrawdownHalts` | filled orders are in the book and were at the broker; positions never outlive trades; a drawdown halts and stays |
| `ord_orphan` | 1 seeded position, 2 orders, nothing lost | *violation* of `OpenIsBooked` | the second booking raises `TypeError` on the monitor row the first one made; the broker's position stays unbooked |

A seeded position and an order are the fewest with which orders, closes,
modifications and enforcement meet on one trade and on two; the limit of
two trades a day is never reached, in any instance, because every booking after
the first rolls back; three units of exposure do not bind with two tickets, as only
the balance rule can refuse an order there. `Levels` is `{"gain"}`: the loss limit differs in closing all
positions instead of a choice of them, and the choice includes all. The model
has no counter that grows without end: `rows` is bounded by the orders and
closes that may be in flight when there is none.

The halt of the daily target does not keep: the page sets the flag from the
equity, and a minute later the task clears it, because `daily_pnl_percent` is
never written.

`DrawdownSticky` and `DrawdownHalts` have the premise of a single monitor row:
with a second, the newest row's flags are what trading reads, and the task
stops. `OpenIsBooked` cannot hold at all when answers are lost, as nothing
compares the book with the broker, so its run excludes that. The reverse, an
OPEN trade without a Position, happens when a stale `modify_trade` saves over
a close. No statement in the repository excludes it.

### Infrastructure (`MCInfra`, `PowerProtection`)

The eight services share no state, and their product would multiply states
without adding a behaviour. `MCInfra` therefore holds them side by side: `part`, chosen in
the initial state, names the one that moves, the others keep their initial
state, and each property is about one of them.

| Run | Checks | Shows |
|---|---|---|
| `infra` | `InfraTypeOK`, `PoolBounded`, `ExclusiveUntilReconnect`, `ErrorsCleared` | the pool keeps its bound; acquisition is exclusive until the reconnect thread is started; once it runs, a failed connection is made idle, released or closed |
| | `SettlesOnHealthy` | when one broker stays up, the other down and no hand interferes, trading ends on the live one |
| | `GivenUpStaysOut`, `FlappingEnds` | a connection given up is not moved to; while all are down the monitor stops moving between them |
| | `NewestSurvives`, `DrainEnds` | while nobody drains, the newest version of each key is in Redis or in the buffer; a drain ends when Redis stays |
| | `CriticalShutsDown`, `CommandOnce` | a battery that stays critical on a machine that obeys ends in the shutdown command, issued once |
| | `BreakerFollowsBridge`, `CircuitRecovers` | both breakers close for good once what they guard works for good, though late answers and forced recoveries change them |
| | `TroubleIsTold` | with a channel that delivers, every level of trouble was told of |
| `power_restore` | *violation* of `RestoresSaved` | what `save_state` has just stored, `load_state` refuses |

Instance: two clients, `MaxConnections` 1, two ids, at most 3 errors on each,
unhealthy from 2; two brokers of equal priority; two connections, given up after 2
failures; a buffer of 2 and 3 versions; two callers, a breaker opening after
3; two threads that heal, `MaxRestarts` 2; three checks, one critical. Two of
each actor give every race in the code a partner; each limit is small but
crossed, and the steps beyond it occur (a third version drops the oldest, a
third restart is refused, a third error makes a connection unhealthy). With one
place in the pool and a second id a connection is dropped and replaced when the
pool is full. The counts of versions, ids and errors are bounds of the model.

What does not hold. With the reconnect thread running, two clients can hold one
connection: a client's call fails and marks its connection, the thread
reconnects and idles it while the client still holds it, and another acquires
it; hence the premise of `ExclusiveUntilReconnect`. A connection released after
its fifth error is idle but unhealthy: no strategy selects it, the thread looks
only for state error, nothing calls `health_check`, and a full pool of such
connections stays exhausted. With three brokers, or two of unequal priority, trading may
alternate between dead brokers for ever, as the choice looks at priority only.
With a drain, an old entry can be put behind newer ones and overwrite them.

### The trading work (`MCWork`)

Composed in the same way; `work` names the part that moves.

| Run | Checks | Shows |
|---|---|---|
| `work` | `WorkTypeOK` | the types of all parts, and the smaller promises of each module, named there: at most one signal per task however it is retried (`OneSignalPerTask`), weights that stay a distribution (`NeverSilenced`), the tables of a drawdown that agree (`TablesAgree`), one loop a monitor (`OneLoop`), locks that exclude (`LocksExclude`) and others |
| | `BacktestReconciles` | initial balance plus trades is the final balance and the end of the curve, trades follow each other, and the stored drawdown covers every fall |
| | `BreakevenKept` | once five pips in profit, a position's stop never returns to the losing side |
| | `LearnedOnce` | PPO learns from each step once, never across episodes |
| | `MismatchMeansMoved` | cached or shown figures contradict each other only if a trade was closed, or for a symbol's row reopened, between their queries |
| | `FullCountIsLocked` | failures may be lost to stale saves, but a count at the limit never stands unlocked |
| | `RateHeld` | no more than a full bucket and one refill pass in a window |

1,440,000 states. The instance gives each part its smallest interesting size: three
symbols of which one pair stands in the correlation matrix the other way
round; two prices 31 pips apart, which reach breakeven and the first target
but not at once; three bars beyond the warm-up; seven candles for the fitness;
one trader with two trades of one symbol, which close with a win or a loss and are reopened at any query of
the task and of the view; two requests on one user's row with a limit of 2 failures; two threads on buckets of 1 and 2
tokens over two windows; two symbols that a scan of Gold Edge has to order; a clock of each monitor one tick beyond its longest
window, so that entries age out; rollouts of 2 steps in 4 training rows.
Constants that are limits of the code (retries, histories, windows) are scaled
down and each is crossed. Stops and targets of the trading cycle are the code's.

## 5. Fairness

| Specification | Assumed | Why the code justifies it |
|---|---|---|
| `PaymentLedger!FairSpec` | WF of `Continue(w)` | a request under way goes on: gateway calls time out after 30 seconds and three attempts; a crash is always possible instead |
| | SF of `WebhookSuccess(r)` | the gateway repeats a success event until it is answered with success, and a row's lock is free again and again |
| `MT5Pool!FairSpec` | WF of `Reconnect` | the thread's loop; clients may hold connections for ever, and health checks are never assumed |
| `FailoverManager!FairSpec` | WF of `MonitorStep`, `TriggerStep(t)` | the monitor's loop and calls that have begun, which block on nothing but a short lock |
| | WF of `Miss(n)`, `Heartbeat(n)` | time passes for a silent node; a node that is up sends heartbeats |
| `MultiNode!FairSpec` | WF of `CheckFailovers` | what the class expects of its owner (nothing in the repository calls it); without it a violation would mean nothing |
| `OrderExecution!FairSpec` | WF of `MonitorTask` | Celery beat starts `monitor_drawdown` every minute |

| `MCInfra!InfraSpec` | WF of each monitor's and drain's own step: `CheckBrokers`, `ActOnBrokers`, `MonitorIsps`, `MonitorPower`, `ShutdownWorker`, `DrainTake` or `DrainSync`, `MonitorHealth`, `Reconnect` | loops in threads of their own, which sleep and go on |
| | WF of `ConnectEnd`, `BrokerHeartbeat`, `BrokerSilent`, `CoolDown`, `HealCoolDown` | a connect that began ends; a live broker sends heartbeats; time passes |
| | WF of `TryConnect`, `TryReconnect`, `RecordResult`, `EndRestart` and of the orchestrator's `AttemptRecovery` | a call under way goes on; the orchestrator's loop calls it every 30 seconds |
| | WF of `CallTool`, SF of `Answer`, WF of a service's result and SF of `Use` | a request is answered, or fails by its timeout, though others may be cancelled; somebody goes on using the bridge and the service, for a breaker nobody asks never closes |

The two liveness properties of the breakers (`BreakerFollowsBridge`,
`CircuitRecovers`) are the only ones that assume callers. No registration,
enforcement, reconnection by hand, restart or health check of the pool is ever assumed to happen.

## 6. The proofs

All proofs hold for every value of the constants that satisfies the module's
named assumption (`PaymentAssumption`, `PoolAssumption`, `FailoverAssumption`,
`OrderAssumption` and those of the services and the trading work), without the bounds of the runs where these are constants
(any number of users, references, workers, clients, nodes, tickets). The
assumptions give types, say that model values differ from real ones, that a
pool and a trading day allow something, and which workers play which part.

**PaymentLedgerProofs.** `TypeCorrect` is inductive as it stands. Everything
else needs `IInv`, what a request in flight may still rely on:

* `LockHeld`: a verification holds its row's lock, and that row is neither
  absent nor completed. Without it, a verdict "pending" read before the payment
  settled could be committed over COMPLETED.
* `NewRows`: a row being created is not there and has one creator, else a late
  `CommitDeposit` could reset a row.
* `RowsExist`: a reconciliation pass works on rows that exist.
* `AnswersTrue`: a verdict read from the gateway is still its verdict.
* `CompletedIsPaid` itself.

From `InvariantHolds` follow `PaidOnly` and `CompletedStays`, whatever passes
and saves race. `CreditedOnce` assumes `Reconcilers = {}`, and
`LockedHandlersImplementBook` also `Editors = {}`; the trace of `pay_reconcile`
(a deposit credited twice) shows that the first assumption is needed, the one above
that the second is. The refinement proof
maps the commits of `CommitVerify` and `WebhookSuccess` on a deposit to
`Credit`, the accepting branch of `CommitWithdrawal` to `Debit`, and everything
else to a stutter; `LockHeld` and `NewRows` supply the guards of the abstract
steps.

`BalanceIsTheRows` is about the sum itself: under the same two assumptions the
balance is the opening one, plus the completed deposits, less the existing
withdrawals. Its invariant `AddsUp` is that equation with the rows of every user,
and each commit changes one row, hence one summand.

**SumLemmas.** Sums over finite sets, which the library defines by recursion over
a set but has no theorems about. `SumOver` is the same sum as a function of
subsets; its properties (no element, one element more or less, two functions that
agree, two of which one is nowhere greater) are proved by induction over the set of
sizes for which they hold, since an induction theorem with an operator as its parameter cannot be
used here.

**FailoverManagerProofs.** `FailoverTypes`, which says that the active node is
registered and needs `HasTarget` (a thread about to switch has a target);
`FailoversExclude`, from `Claimed`: a thread between the locked sections left
the state in progress, and is the only one there; and `MonitorKeepsOneActive`,
which assumes `MonitorOnly` (no other caller, no node set active by hand). Its
invariant `ActiveInv` says that only the active node has the status active and
that the monitor, while it fails over, works on the node that is active: with
another caller this second part is what breaks.

**OrderExecutionProofs.** `OrderTypes`; `FilledOrdersAreBooked`, from `Answered`
(what a worker was told about its ticket still holds) and `TradesAreReal`;
`PositionsStayOpen`, inductive with the types alone, because each write of a
status other than OPEN deletes the position in the same commit; and
`DrawdownStays`, from `TaskCurrent`: a snapshot held by the minute task has every
drawdown flag set since, as only the task sets it, and a user without a row has no flags.

**ServiceProofs** holds one proof for each of several services, all for any
number of threads, keys, nodes and rows:

* `PoolTypes`; `PoolStaysBounded`, where `OnlyNewGrows` shows that a step shrinks the
  pool or adds one connection when there was room; and `HeldOnce`, from `SoleHolder`:
  until the reconnect thread is started, it rests, held ids have been issued, a pooled
  connection that is idle is held by no one, and no two clients hold the same.
* `RestartsStayBounded`: restarts counted and under way stay within the maximum
  plus the other threads. The invariant bounds the sum, for a restart that
  ends moves from one summand to the other.
* `TroubleStaysTold`: a subject whose slot is taken has been told of
  (`ToldInv`), since a channel that delivers takes part in every alert, and
  the subjects' levels are all sent (`BothSubjectsAreSent`).
* `CommandRunsOnce`: there is a shutdown thread only after `is_shutting_down` was
  set, which nothing but a new process takes back (`ShutdownInv`).
* `GivenUpIsLeftOut`: outside the connection in use, a full count of failures
  comes with the mark disconnected, whatever test counted it (`GivenUpInv`,
  `AfterTestMarks`).
* `LoopsAndEvents`: but for monitors whose stop gave up waiting, the loop
  started last is the only one, and runs under its flag or is being waited for
  (`LoopInv`); events are registered with the components, once (`EventsInv`). With the
  types these make up `SupervisorTypeOK`.
* `FeaturesAreKept` (`FeatureTypeOK`): the verdict about Redis never changes (`JudgedTypes`), and
  nothing newer than an answer was in Redis when it was asked for (`LatestInv`).
* `NewestIsKept`: until a drain has started, the newest version of each key is in Redis
  or in the buffer, no further from its end than the keys written after it
  (`NewestInv`); the keys are written in rounds and the buffer has room for a
  round, so what a full buffer drops is never the newest.
* `LocksStayApart`: the lock's key names its one holder until a lock is given
  without Redis or runs out in use (`LockInv`).
* `RecordTypes`: the copies of a key on the nodes have versions the key has had, and
  what is under way between read and write carries such a version too (`RecordInv`).
* `FullCountsAreLocked`: the row, and every copy a request has loaded of it,
  has its lock when its count is full (`RowInv`); so stale saves cannot separate them.
* `StepsAreLearnedOnce`: a rollout is shorter than its length between steps and
  is empty under evaluation (`RolloutInv`).
* `AccountTypes`: a device is confirmed from its creation, so no copy saved over the row
  can take that back (`UserInv`); counts, copies and sessions keep their types through every save.
* `TrainingTypes`: the target network is copied at multiples of the update frequency, so
  it is behind by the steps since the last one; an episode under way is below its last row.
* `LearningTypes`: the window is a list's end, so what was added since the last
  successful training is its own end, which is shown element by element. A flagged model
  keeps its weight above the minimum because a weight grows by at most a quarter before
  all are normalised: the sums before and after are compared (`SumsCompare`), and four
  fifths of what was the minimum's multiple remain.
* `NativeNeverTrades`: no close is ever sent to a native bridge, for nobody has a
  ticket to close (`NativeInv`).
* `InfraTypes`: `InfraTypeOK` needs an invariant for each of the eight services
  (`InfraInv`), among them the pool's and, for the buffer's size, the one of
  `NewestIsKept`; each service's steps leave the others' variables alone.
* `StreamTypes`: a user's open sockets are those counted, less those between the
  read and the write of the count, until it has slipped (`SocketInv`); a candle's
  number is in the buffer, in the store or among the lost ones, and a batch keeps its
  order while it moves (`CandleInv`, `BatchIsPlaced`).
* `MessagesTypes`: what was sent of a subject in its minute, plus the threads that
  looked at its slot before it was taken, is at most all threads (`AlertInv`); the marks
  of a notification's row, and of the copy a view has read, are channels tried (`NoteInv`).
* `BackupTypes`: the place of each system in the chain is unique (`PlacesInChain`), so the one
  before is known from the one in use (`BackupInv`).
* `NewsTypes`: an event that was ahead of the day its calendar was loaded on is not due
  on that day (`Ahead`, `DaysPass`), in a process's calendar and in the shared file.
* `BridgeTypes`: while a change of levels waits for its answer its ticket counts as in
  doubt, and what waits is of a known ticket (`BridgeInv`).

**WorkProofs** does the same for the trading work, for all prices, distances, numbers
of trades, users, requests, bars and genes:

* `BreakevenIsKept` and `CycleTypes` rest on `CycleInv`: each tracked position has its
  breakeven, the volume its taken targets left (`VolumeLeft`) and no correlated
  companion, and a cycle that has a signal has a price and room for it.
  `StopsMoved` and `ManagedSound` hold the case analysis of trailing,
  breakeven and partial closes; `CombinedNeverSignals` shows that the branch of
  combined strategies cannot reach its threshold.
* `MismatchesAreMoves`: while no trade has gone the way recorded in `moved`, what a pass
  or the view has read still bounds what its next query can return (`ReadInv`,
  `ResponseInv`): closing a trade never lowers a count (`ClosingCounts`), reopening one
  never raises one (`ReopeningCounts`).
* `BurstsAreBounded`: what has been admitted since any admission, plus what is left
  in the address's bucket, is at most a full bucket and what has run in since (`BucketInv`),
  in units of a token's share of the window so that no division is left.
* `ReplaysReconcile`: the balance is the initial one plus what the trades realised,
  a sum over the table of trades (`RealisedSoFar`); the curve's next point is the
  balance plus the open position; and the running peak is its highest point so
  far (`CurveInv`). The attempt to prove the drawdown's clause as first stated, with
  falls relative to *any* earlier point, failed for a good reason: at
  an equity of zero or less, a fall in percent of a lower point can exceed the
  one from the peak. The clause now measures from the highest point until then,
  as the code does.
* `GeneTypes`: a fitness is a number, which is proved from its definition
  (`FitnessIsWhole`): nothing divides by zero, neither a peak that starts at the capital
  nor a deviation that is positive. Repairs leave the genes in their bounds, since a stop within its bounds has
  a target beyond it, and what cannot be repaired is clamped; parents are in bounds, and so
  are crossovers and mutations of them.
* `SearchTypes`: the best on record is one that was evaluated, and the threshold moves by
  a step that is clipped again.
* `CacheTypes`, `ReplayTypes`: the task's place and what it has read; a replay's trades
  and its open position together are no more than its bars (`ProgressInv`).
* `RiskTypes`: the metrics add up trade by trade (`MetricsAdd`), each table of a drawdown
  is a table of ranges so that a deeper one reads a row that is no looser, and active
  rows with those about to be created are no more than the workers that looked.
* `GuardTypes`: a device history has no repetition even when two threads write back
  old copies of it, for what is written back was without one when read (`TrustInv`); buckets stay
  between nothing and full.
* `MonitorTypes`: each worker that saves an event has read one that exists, the rate
  analyzer's log stays empty, and a verdict's level is the worst of levels that exist.
* `GoldTypes`: whatever went into it, an answer is sound (`AnswersAreSound`): its
  combined score is a weighted mean of three scores that are each within bounds
  (`AnswersAreBounded`), and the conditions that refuse an entry are those that give a
  reason, though the code computes the two apart. What is stored was such an answer.
* `SignalTypes`: while a task runs, its earlier attempts have left a score each at most, and
  no signal (`SignalsInv`): the signal is stored last, and what fails after it is not retried.
* `V6Types`: for every market and every weight an operator sets, the fallback's
  opportunities are liquid symbols of its market, each listed once (`ScannedInv`), its orders
  have the smallest size and none would be refused (`SizedInv`). With the weights it
  starts with it never signals (`DefaultsNeverAgree`): whatever the bars, a vote of the
  trend strategy puts the close on the side of the average (`TrendSide`) from which the
  reversion strategy votes the other way (`ReversionSide`), and the rest reach 60.75%.
  Assumed are positive prices and windows of which the short one is not the longer
  (`V6Assumption`).

**WorkTypesProofs** composes the parts of `MCWork`: a step of the work is a step of each part
or leaves its variables alone (`OnlyTheNamed`, then one lemma for each part), so a behaviour of
`WorkSpec` is one of every part's specification and `WorkTypes` follows from the
twenty-two theorems about the parts' types. Its steps show more than the run checks: there
each part's types are asked for only where that part moves.

## 7. What is only model-checked

* Liveness: `PaidIsCompleted`, `ErrorsCleared`, `FailoverEnds`,
  `FailoverHappens`, `DrawdownHalts`, `SettlesOnHealthy`, `FlappingEnds`,
  `CriticalShutsDown`, `DrainEnds`, `BreakerFollowsBridge`, `CircuitRecovers`.
  TLAPS has no rules for `ENABLED`, so fairness is beyond it.
* What the fitness of a genome, the Sharpe ratio or a confluence score comes to: the
  proofs say that it is a number and in which bounds, TLC that the number is the one
  the code would compute on the candles of the run.
* What indicators and analysers say of the prices is an input of the models.

## 8. What is not modelled

Left out for good, with the reason:

* market models, features, scalping and indicators: functions of price series
  without shared state, whose correctness is numerical. The modules take what
  they say as an input;
* encryption, credentials and the FIPS layer: a model would have to assume what
  these functions compute;
* records that are created, read, updated and deleted by one view each (audit,
  referrals, expert advisors), the front end and the deployment scripts;
* Celery tasks that are a sequence of independent writes (model training stubs,
  clean-ups, deployment of an expert advisor, whose import fails);
* watchdogs, memory snapshots and state backups of self-healing, and `compress`
  settings of a connection, which nothing in the repository registers or reads.

Within modelled parts, the following is abstracted: amounts, fees, prices and
volumes beyond what guards compare; signatures and formats of messages; logging
and metrics; the choice among equal candidates (any may be taken); the time
between reading a clock and taking a lock. Several
users are in `PaymentLedger`'s proofs but not its runs; `OrderExecution` is about
one user's account, since no row it writes is shared between users. Redis and
the cache answer or fail; they do not lose single writes.

## 9. What else the models show of the code

Where a document of the repository says otherwise there is a run that finds the
violation (section 4). The following has no such statement against it; the
modules contain it as it is, and it explains guards that would surprise a reader.

* **Trading cycles.** With its default weights the fallback cannot signal: the
  strategies reach 60.75%, below the 65% it asks for, and asset predictions always raise
  (`V6Cycle`); its order size is always the smallest and its spread and slippage checks never
  refuse. The task's own fallback raises `TypeError` (`config/tasks.py:1332`). The
  first target may loosen a stop trailed beyond breakeven (`ml/v65_orchestrator.py:1086`).
  The daily-loss and tier checks of phase 9 raise and are swallowed
  (`ml/v65_orchestrator.py:747-766`). The correlation matrix holds some pairs in an order
  its lookup never uses (`ml/enhancements/artificial_diversification.py:112-114`).
  In semi-automatic mode positions are tracked that were never opened, and what the
  orchestrator closes stays open at the broker. In automatic mode it is the reverse: the
  answer of the broker's client is a dictionary, asking it for `success` raises
  (`ml/v65_orchestrator.py:938`), and what was opened is not tracked. The fallback on
  predictions takes the entry price of the top opportunity, whichever symbol it signals
  (`ml/v65_orchestrator.py:674`).
* **Search and learning.** `optimize` calls a missing `_evolve`
  (`ml/genetic_optimizer.py:1024`). `episode_length` never ends an episode
  (`ml/models/rl_agent.py:258-261`), and a test split of fewer than two rows raises before
  anything is saved.
* **Signals and calendar.** A confluence total can overflow its
  `DecimalField` (`config/tasks.py:172-184`), and a signal that fails to store leaves one more score at
  every retry. The advice to follow an event is only given ahead of it, and the default
  calendar never has an event on its own day (`ml/enhancements/smart_news_trading.py:241`).
* **Risk rules.** `daily_loss_percent` keeps the last loss when the day recovers
  (`risk_management/models.py:642-643`); targets multiply a float with a `Decimal`
  and always end in an error answer (`ml/enhancements/profit_target_manager.py:155`); two
  workers may both make an active settings row (`risk_management/models.py:955`); a sizing budget may be negative
  (`risk_management/views.py:69-79`).
* **Way to the terminal.** The deployment guide's bridge knows none of the paths the client
  posts to; the 404's JSON counts as success, so positions are empty, nothing is
  ever opened and the breaker stays closed (`BrokerBridge`). A change of one level sends 0 for the
  other (`mcp_integration/services.py:288-297`).
* **State.** Locks are given without Redis, and a release deletes
  whoever's lock it finds; a dictionary that failed after a connection is hashed
  twice and never consistent (`SyncRecords`). The feature store keeps the verdict of its
  first use, so processes that started at different times may each have a store (`FeatureCache`).
* **Backups and monitors.** The two backup tasks call methods the
  manager does not have (`config/tasks.py:1437`, `config/tasks.py:1562`), and its log
  names the same system twice. A stop of the orchestrator waits 10 seconds for a loop that
  sleeps 30, so a start soon after leaves two.
* **Request rates.** `RateAnalyzer.record` prunes a log by putting a new list in the
  place of the one it then appends to (`security/intrusion_detection.py:210-216`),
  so the log of requests stays empty and neither a spike nor a sustained rate is ever
  found, though the class "Tracks request rates per IP/user and detects spikes."
  (line 197). In `SecurityMonitor` this is `WriteRate`, and `MonitorTypeOK`
  contains it. `zero_trust.py` asks a model for blocked addresses that `accounts` does not
  have and swallows the import error (line 100), so every address is clean.
* **Statistics.** The counts of a cached row come from several queries with nothing to hold
  the trades still, so its wins may exceed its trades; `calculate_performance` raises at its
  summaries (`PerformanceCache`), and the view does when all trades were reopened before it
  reads them.
* **Accounts and messages.** Failures and locks are lost when a request saves an
  older copy of the row (`accounts/serializers.py:87`); a setup page makes confirmed
  devices; scaling moves no money. A notification of the quiet hours is never sent
  later, and a view that marks one as read may take back the mark of a channel.
* **Market data.** The price socket asks the scope's user for a key
  (`market_data/consumers.py:26`), so none opens behind the authentication middleware; a user's
  count of sockets is read and written in two steps; an error answer is broadcast as a price of zero.
