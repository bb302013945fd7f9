# QH-Trader: a TLA+ verification project

QH-Trader (`src/`) is a Python system that trades Chinese futures: one *execution service* per account owns the
trading interface (CTP), keeps the account in a SQLite journal, and executes commands that strategies, a watchdog and
operators put into a queue; a backtest engine drives the same strategies over history. This directory holds TLA+
models of that system, TLC configurations that check them on small instances, and TLAPS proofs. `PROJECT.json` lists
the runs, the mutants that show each property can fail, the source lines behind every definition, the findings, and
the hazards the properties are aimed at. All definitions are translated from the code; docs and tests are only
quoted where the code does something else (findings).

How to run: `tlc -workers 2 -config X.cfg M` for a run of the table below, `tlapm M.tla` for a module of proofs:
`ExecutionService_proofs`, `Gateways_proofs`, `AccountKernel_proofs`, `Account_proofs`, `Restart_proofs`,
`Supervision_proofs`, `Research_proofs`, and `Sums_proofs`, whose lemmas on sums the last five use.

## 1. The system

Paths are below `src/qh_trader/`.

```
 strategies, watchdog, operator                 CTP front (external)
        | INSERT command                          | callbacks        ^ requests
        v                                         v                  |
  command_queue (SQLite)  <--- ExecutionService ingress queues   CtpTraderGateway
        ^     |   account thread: facts, takeover, dispatch -------------+
        |     v                                     |
     Journal (events, keys, control) <--- LiveAccountModel (orders, positions, ledger, risk)
```

### 1.1 Components of the live process

| component | state | operations | interacts with | what is hard |
|---|---|---|---|---|
| Execution service `engine/execution_service.py` | ready, fault, epoch claim, pending fact, ingress queues, counters | submit, one round of the loop (facts, one command, market data), takeover, reconcile and enable, retry of a pending fact, start and recovery | queue, journal, account model, gateway; callback threads append to the ingress queues | a crash between call and result; a commit that is durable but fails to publish; control that changes between check and call; the same trade told twice |
| Execution store, command queue `infrastructure/command_queue.py` | commands with status, observed epoch, sequence | submit (idempotent), next pending, transition | producers in other processes | who may move a status, and under which epoch |
| Journal `infrastructure/journal.py` | transactions, events, trade keys, control record, projections, snapshots | append atomically, replay, snapshot, checkpoint | everything durable | atomicity, duplicate identities, contiguous cursor |
| CTP gateway `gateway/ctp_gateway.py` | session flags, fault, reconciliation mark, order reference book | connect, maintain, mark reconciled, submit, cancel, callbacks | CTP front; account thread *and* callback thread | callbacks between a test and the write that follows it; waits given up while the answer comes; references over sessions |
| Feedback normalizer `gateway/feedback_normalizer.py` | gaps | callbacks to domain events | order reference book | a trade carries a reference, not a session |
| Account kernel `engine/live_account_model.py`, `domain/orders.py`, `domain/positions.py` | orders, dedup keys, unlinked trades, position buckets, freezes, funds reservations, trading day, replica | stage order, send result, report, trade, settlement price, trading day, cancel | execution service (stage, commit, publish), ledger, risk | reports and trades in any order, repeated, after the day they speak of; unknown send results |
| Ledger `domain/ledger.py` | lots, closed records, cash entries, settlements | trade, settle, revise, reserve, release | kernel, backtest | basis of lots, revisions |
| Risk manager `domain/risk.py`, `domain/limits.py` | state, epoch, daily counters | check order, count reports, escalate, reset | kernel, backtest | counters under repeated reports |
| Recovery `domain/recovery.py`, `gateway/ctp_query.py`, `gateway/paper_query.py` | phase, watermarks, differences, deadline | replay, merge four queries, decide ready | gateway queries, kernel replica | facts arriving between the four queries |
| Strategy runtime `engine/live_engine.py`, `strategy/`, `infrastructure/strategy_checkpoint.py` | pending intents, seen trades, gate, event key; the strategy's own position and plan; checkpoint | start, bar, tick, report, trade, stop order | queue, account, journal | being told of every fill; restart in the middle of an event |
| Watchdog `monitor/watchdog.py`, `monitor/heartbeat.py`, operator control `monitor/control.py` | silence per role, last beat, requested incidents, pending applications | observe, apply for a takeover, retry | heartbeat files, command table, control record | alive or dead by a file; retries of a write that may have been durable |
| Account lifecycle `domain/lifecycle.py` | phase, half-settled warning, pending snapshots | login, market hours, settlement, maintenance | tests only, today | half-settled snapshots |
| Account checkpoint `engine/account_checkpoint.py` | - | dump, load, retire history | kernel, journal | what a late report of a retired order does |
| Smart order router `domain/smart_router.py`, trading rules `domain/rules.py`, `infrastructure/rule_store.py` | versioned rules | split a close, select a rule by time | kernel, backtest | boundaries of splits and versions |
| Epoch fence `gateway/epoch_fence.py` | - | compare the claim with the control record directly before a call | service, gateway | stale claims |
| Assembly `scripts/live_assembly.py`, `scripts/run_execution_service.py`, `scripts/run_simnow_strategy.py` | - | wiring, the loop, session watch, heartbeat | all of the above | order of steps at start and stop |

### 1.2 Research, data, support

| component | state | operations | what is hard |
|---|---|---|---|
| Backtest engine `engine/base_engine.py`, `engine/backtest_engine.py`, `core/event.py`, `core/clock.py` | clock, timers, held orders, day | bars in time order, held orders, day switch, settlement | order of events at one instant, no look-ahead |
| Simulated gateway `gateway/simulated_gateway.py` | orders, pending cancels | match a bar, partial fills, expire, cancel | volume limits, expiry against fills |
| Roll manager `domain/rollover.py`, roll-aware strategy `research/multi_product.py` | roll task with two legs, held contract, pending orders | plan, bind, fill, fail, resume, give up | partial fills, refusals and expiries of two legs |
| Live bars, session gate `data/live_bars.py`, `data/session_gate.py`, `gateway/ctp_market.py` | bucket, last tick, closed-through time | tick, clock, gap | ticks late, lost, repeated at the edge of a bar |
| Continuous and dominant contracts `data/continuous.py`, `data/dominant_contract.py` | - | pure algorithms over bars | switch days |
| Data storage, download, replay `data/storage.py`, `data/downloader.py`, `data/replay.py`, ... | snapshots, manifests | archive, publish, resume | a failure between archive and publication |
| Calendar, gaps, validation, statement parser, analysis, viewer, observability, scripts | tables | pure functions, I/O | - |

`PROJECT.json` "components" lists all of them with their sources and what is left out of each.

### 1.3 What makes each part correct

- Execution: a command reaches the broker at most once; the queue never denies a call that was made; what the broker
  may have stays reserved; a call is made under the current epoch; only an acknowledged takeover moves the epoch;
  every accepted command and every fact is processed in the end; no trade is booked twice.
- Storage: journal, projections, queue and every reader of them tell one history; a checkpoint or a restart is
  invisible to the account's readers, retired orders included.
- Programs: none trades what another one trades, none leaves a lock, a session or a heartbeat behind; a start that
  fails gives back what it had.
- Session: orders go only to a session that was reconciled; a lost session closes the gate; the session comes back.
- Reconciliation: trading is enabled only on what is true of the counter, whatever trades meanwhile.
- References: a callback is applied to its own order or to none; a cancel finds its order.
- Account: freezes are the orders' reservations and cover what the broker may still take; position, lots and trades
  agree; the balance and the results trade by trade are one account; limits hold over orders on their way; a day's
  tasks run once, and no new risk is taken on a half settled account.
- Restrictions: what was restricted stays so until a confirmed RESUME; nothing forbidden leaves for the broker.
- Strategy: never more than one lot; told of every fill; nothing forgotten over a restart.
- Watchdog: one application per incident, no conflicting one, none forgotten.
- Market data: a bar is what the exchange traded, or the feed pauses; the trading day of a time, the gaps of a
  series, the dominant contract and the rule in effect are what was known then.
- Rollover: legs are what the account holds; no leg twice; completed means moved; every roll ends (but for one whose order
  expires while it is paused, 3.2).
- Research: no order trades on what its author could not know; a fill has a possible price; publications are atomic.

## 2. The modules

| module | models | run, abstract counterpart, proofs |
|---|---|---|
| `ExecutionService` | the account thread, callback threads, producers, crashes, takeovers, assembly's reconcile/enable | execution_*; implements `CommandLifecycle`; `ExecutionService_proofs` |
| `CommandLifecycle` | what a producer may rely on for each command: its statuses, and a call at most once | abstract specification |
| `CommandStore` | the database: journal, projections, queue, snapshots, a reader that follows by cursor, executors that die | supervision; `Supervision_proofs` |
| `Assembly` | services and a runtime of one account: locks, preflight report, registers, heartbeats, confirmation, start and end | account; `Account_proofs` |
| `CtpSession` | session flags, handshake, maintain, reconciliation mark, both gates | ctp_gateways; `Gateways_proofs` |
| `LiveFeed` | market front, queue, bars from ticks, gaps, pause | ctp_gateways; `Gateways_proofs` |
| `CtpOrderRefs` | order references over logins, crashes and restarts; attribution; cancels | restart; `Restart_proofs` |
| `Recovery` | four paged queries, merge, differences, enabling, while orders trade | restart; `Restart_proofs` |
| `AccountKernel` | the account as it is staged by facts, against a broker that trades on its own | account; `AccountKernel_proofs` |
| `AccountLedger` | balance, lots, settlement, revision, late trades | account; `Account_proofs` |
| `AccountHistory` | journal, checkpoint, retirement, the account in memory | restart; implements `PlainAccount`; `Restart_proofs` |
| `PlainAccount` | one order per name, a trade counts once, an order that ended stays ended | abstract specification |
| `AccountLifecycle` | the phases of a trading day and its tasks | account; `Account_proofs` |
| `RiskGate` | the checks before an order, on what is held, reserved and on its way | account; `Account_proofs` |
| `RiskControl` | who restricts the account, and what a restriction does over restarts and takeovers | account; `Account_proofs` |
| `StrategyRuntime` | LiveEngine, the EMA strategy's order logic, its checkpoint and its loop | restart; `Restart_proofs` |
| `Watchdog` | watchdog, heartbeats, applications for takeover | supervision; `Supervision_proofs` |
| `Rollover` | roll manager and roll-aware strategy over days of a daily-bar backtest | supervision; `Supervision_proofs` |
| `Backtest`, `FillPrices` | the event loop of the backtest with the simulated gateway; the price of a fill | research |
| `Routing` | splitting and binding of closing orders, the flag at the counter | research; `Research_proofs` |
| `RuleVersions` | versions of rules, against a definition of the one in effect | research; `Research_proofs` |
| `Contracts`, `TradingSessions` | dominant contracts, sessions, trading days and gaps, each against a definition of what it should be | research; `Research_proofs` |
| `DataStore` | downloads and publications by processes that die, readers | research; implements `AtomicStore`; `Research_proofs` |
| `AtomicStore` | a store that changes and is read whole | abstract specification |
| `Sums_proofs` | lemmas on sums over finite sets, for the proofs | - |
| `MCExecution`, `MCGateways`, `MCAccount`, `MCRestart`, `MCSupervision`, `MCResearch` | instances for TLC | |

An `MC` module brings together parts that share no state: the variable `part` says which one a behaviour follows, and
the others stand still in one initial state. It composes nothing; it lets one run of TLC answer for several modules,
and a property of a part is stated under `part = ...` where it would not hold of a part that stands still. Where parts
do interact, the boundary is drawn at what one sees of the other: ExecutionService sees an order as a plan that is
staged, AccountKernel a dispatch as one step, Recovery a session as something that may be lost.

### 2.1 ExecutionService

State: `status`, `observed`, `order`, `inserted` are the command table; `control`, `phase`, `events`, `applied`,
`prepared` the journal (with the account's content reduced to how often each trade was booked and which commands'
plans are staged); `pc` says where the account thread is; `ready`, `fault`, `authority`, `pendingFact` and the ingress
queues are the process's memory and are lost by `Crash`; `calls` counts what reached the broker and belongs to nobody.

A commit has three outcomes: committed, rolled back, or durable with a failing publish ("unpublished"): the last two
raise alike. The steps of a dispatch (`PrepareCommand`, `FinalFence`, `GatewayCall`, `RecordSendResult`) are separate
actions, because callbacks, producers and the end of the process come between them. Likewise taking facts
(`ProcessTradeFact`, `EndBatch`, `Poll`), `BeginReconciliation`/`FinishQueries`/`CheckEnable`/`Enable`, and
`Start`/`RecordInterrupted`/`Started`. `ControlEpoch` (controller, number) is one number, as the store accepts a
strictly larger one only.

Over-approximations: takeovers and reconcile-and-enable may happen at any turn of the loop, not only where the scripts
call them; the broker answers with any result. Abstracted: contents of commands, the account's figures, the
maintenance of terminal commands.

### 2.2 CtpSession

One notification of the callback thread is one step, as each holds the gateway's lock or writes single flags; the
account thread's tests and writes are separate steps. The broker's front is external: it goes down and up and answers
requests of a connection that is up. `raced` is a history variable that marks the one window described in finding
`ctp_session_mark_race`.

### 2.3 CtpOrderRefs

`refsPerUser` is what the counter's MaxOrderRef means: TRUE if it counts the requests of all sessions of the user (and
no request is lost on its way), FALSE if every session starts anew, which the project measured at SimNow
(docs/06_开发计划.md:422). It is chosen in the initial state. Attribution, naming and cancels are promised for TRUE only:
see section 3.2. That waiting trades are linked is promised for both. Orders are their own exchange numbers. Orders may be dispatched
again after another login, which the execution service does not do.

### 2.4 AccountKernel

One long position of one instrument with its yesterday and today buckets, reservations of lots and of funds per order,
dedup of trades, linking of trades to orders, the change of the trading day. The broker trades on its own, and its
reports and trades arrive in any order, again and again. The two commits of a dispatch are one step (their separation
is the subject of ExecutionService); `Resolved` are the orders whose trades get their session triple from the resolver,
those of the others carry the exchange's number only and may be posted before the account can find the order; the broker
takes no order before the account's day has advanced; retirement (AccountHistory), risk counters (RiskGate), equity and
fees (AccountLedger) are other modules'. Money is in units, and the proportional release of funds is
floor division, as exact as the code's decimals for the instances used. Lots are kept per day (see the comment at
`Candidates`).

### 2.5 StrategyRuntime

`LiveEngine` with one EMA strategy, long only, one lot; when the strategy wants to enter or leave is a free choice.
A bar and a tick of one number share a command name (bound). An exception in a callback ends the process, as in
`run_simnow_strategy`. That script refuses to start over an existing database; the restarts modelled are those of
`LiveEngine.start` in another assembly of the same order. `ReportsNameOrder` distinguishes the simulated gateway
(reports carry client_order_id) from CTP (they do not).

### 2.6 Watchdog

Time is counted in rounds of the watchdog; of the beats between two rounds only the last can be seen, so one is
modelled. Alarms are not state: nothing reads them. Who takes an application up is a change of the control record.

### 2.7 Rollover

A round is one trading day of `BacktestEngine.run` over daily bars: what is left of yesterday's orders expires, held
orders go out at the open, both contracts are matched with a volume that may be anything, and `on_bar` is called for
the bar of every contract at the close. An order that the router splits into today's and yesterday's lots is one order.
Refusals (risk limits, holiday windows, margin, no session) come at once, as `send_order` calls back before it returns.
`RollInv` says what the roll, its orders and the account know of each other between any two steps; the proof rests on it.

### 2.8 CommandStore and AccountHistory

`CommandStore` is the database: `journal` is what was committed, `tables` its projections, `queue` the commands,
`owner` and `cached` the one executor and what it remembers, `heard` a subscriber that follows by its cursor. An executor
may die between write and answer, and its next commit is refused if what it remembers is not what is there.
What the first n transactions amount to (the last content of each key) is the definition everything else is compared with.

`AccountHistory` is the account on top of it: facts under numbers that start anew with each checkpoint, finished orders
that a checkpoint retires, a memory that applies only what is new. Facts are an order's intent, result, report, trade
and the end of a day; a commit may fail before or after it is durable.

### 2.9 Assembly

`stage` is where a program is in its start or end, `inputs` what it has read, `acquired` and `toClose` what it holds.
Services of one account share a database and its lock; a runtime has a state directory of its own (and looks whether
its database exists before it takes the lock, run_simnow_strategy.py:513), so that nothing but the operator's
confirmation keeps it from trading beside a service: `misconfirmed` marks a confirmation that was not true. The report
of the preflight is any of a set that the instance gives, read within the runtime's start.

### 2.10 Recovery

Each order of `Deals` has at most one trade (`TradeOf`: lots, money, product). `broker` is what the counter has of an
order, `own` what the account has, `booked` its trades. The counter goes on trading between the four queries; answers are
sets of records that arrive in parts, late, with an error, half converted, or never, up to `MaxFaults` events of that kind
and of others. An order may be "done" in the account with its trade not booked: a report may have ended it whose trade
was lost. `before` is a history variable, the trades that were booked at the beginning. When trading is enabled and the
session lasts, every trade of the counter is booked, or a callback will tell it, or it was missed by an order whose end
was booked, and others undo it in lots and in money, which the four queries cannot show.

### 2.11 RiskGate, RiskControl, AccountLifecycle, AccountLedger

`RiskGate` keeps two pictures of a day: the account's (`account`, counters) and the exchange's (`exchange`); reports come
in any order and once more. `RiskControl` has the producers of restrictions (console, statement check), the strategy's
orders, and the account thread's steps from a taken command to a published state; `asked` is a history variable: the
strictest restriction that was taken up. `AccountLifecycle` is driven by anybody in any order, as nothing but its tests
calls it yet. In `AccountLedger` a history variable (`unposted`) names what the code does not post: the difference a
revision loses or repeats for lots closed since, and the first day of a late opening trade.

### 2.12 LiveFeed

The exchange's ticks are given; each may be delivered late, be lost, be unusable or carry a time ahead of the clock.
The loop drains a bounded queue, builds bars and closes them by the clock. A bar the strategy gets is compared with the
ticks the exchange emitted. Sessions and prices are constants of the instance, as are the orders of `RiskGate`.

### 2.13 Research

`Backtest` walks the openings and ends of bars; a strategy may answer every bar, timer and report with any order or
cancellation. `known` is the latest time of which it has seen something, copied into an order (`knew`) and a
cancellation (`cancelKnew`): "no look-ahead" is a relation between those and the bar an order trades in. `FillPrices` is
checked on every order, bar and limit of a grid, `TradingSessions` on every calendar of nine days and every set of
missing minutes of a grid. `RuleVersions`, `Contracts` and `Routing` are small state machines (versions are put, days
arrive, orders are planned, held and sent), compared with reference definitions in the same module.

## 3. Runs

All runs are exhaustive. A run names few properties: where several invariants describe one thing, they are conjuncts of
one (`BooksAgree`, `StrategyIsSound`, `RollIsSound`, ...), together with the module's type invariant; the definitions of
the conjuncts say what each is about. `CHECK_DEADLOCK FALSE` is used where the process may really stop for good (crash
bound reached, watcher stopped, everything processed); `supervision` never stops and is checked for deadlock.

| run | states | what it shows |
|---|---|---|
| execution_dispatch | 845,024 | one order, two takeovers, 2 crashes, 1 failed commit: at most one call per command, what the queue and the account say of it, what is refused leaves nothing, fences and epochs, the inductive invariant of the proofs, the refinement of CommandLifecycle |
| execution_ingress | 104,007 | a trade reported twice and a conversion failure: booked once; the published view is the committed account; every command and every fact is processed in the end (with one failure and one crash) |
| ctp_gateways | 137,772 | trading: the gate over a session that was not reconciled opens through one race only, a lost session closes the service, the session comes back unless a fault is set; market: bars are true or the feed pauses |
| account | 1,013,043 | six parts: orders and lots, checks before an order, money over days, the account's day, restrictions, the programs that trade it |
| restart | 1,805,419 | four parts of a process that starts again: the strategy, the order references, the reconciliation, the account's history (which implements PlainAccount) |
| supervision | 286,685 | what must come to an end: an incident the watchdog sees, a roll; and the database between the processes |
| research | 610,240 | backtest, fill prices, storage (which implements AtomicStore), routing, rules, dominant contracts, calendar, gaps |

### 3.1 Findings (runs that end in a violation)

| run | what the counterexample shows |
|---|---|
| ctp_session_mark_race | `mark_reconciled` tests the session and clears the mark afterwards; a callback between the two lets the next session trade without reconciliation |
| account_kernel_funds | after the second of three partial fills, too little is reserved for the rest (a fraction of the whole order applied to what is left) |
| strategy_deaf | over CTP the strategy is never told of its reports and trades |
| rollover_open_first | with OPEN_FIRST the roll is COMPLETED without closing the old contract |
| backtest_look_ahead | a bar is matched whole when it opens and its reports are given out at once: without cancel latency an order is cancelled at the opening on a fill of the bar's end |

### 3.2 What the properties leave out, and why

Some promises of docs and comments are not kept by the code, and the properties above say so in their premises instead
of claiming more. A reader who strengthens them will meet these behaviours:

- `ReloginUnlessFaulted` needs `fault = "none"`: the connection lost and back during a re-login wait clears the fault
  first and the wait's timeout sets it afterwards (ctp_gateway.py:1271); `maintain` then does nothing for good.
- The callback router's `faulted` mark is read by nobody in the gateway (ctp_gateway.py:721): only the service's gate
  closes after a conversion failure.
- `SettledOrdersHoldNothing` speaks of `Resolved` orders: a trade posted before its order can be found is linked later
  (orders.py:530), but neither lots nor funds reserved for the order are consumed then.
- No property says that a genuine trade can always be booked: after a crash between a dispatch and its result the order
  cannot be found, its lots are frozen for it, and its own trade meets them (the service keeps the fact and stops);
  `LinkedTradesAreBookable` speaks of linked orders.
- A refused cancel changes nothing in the account (feedback_normalizer.py:340): the order stays cancel-pending.
- `NeverMisattributed`, `KnownOrdersAreNamed` and `CancelFindsItsOrder` need `refsPerUser`. Over a counter that counts
  every session anew, a trade whose order lost its result in a crash is booked to the new order of the same reference,
  and the rejection of an order that shares its reference with a restored one is dropped.
- A heartbeat file counts as progress when it is first read, however old it is (watchdog.py:122): the watchdog's
  applications rest on beats it has read, not on the age of them.
- `RollIsDriven` and `RollEnds` except `missed`: an order that expires while the roll is PAUSED is not noted
  (multi_product.py:344), its leg stays placed, and the roll can wait for ever (it needs the default of 3 retries; with
  2 it is given up first).
- A PAUSE or REDUCE_ONLY that is stale, or comes while the account is not ready, is refused (execution_service.py:400)
  and forgotten, and the console has ended with success before; a RESUME may lift a restriction its author did not know
  of. `RestrictionsHold` speaks of what was taken up. No caller enters CANCELING or FLATTENING.
- The counter of opened lots goes by reports (risk.py:341): orders that are sent and not yet accepted are in no counter,
  so that several together may pass the limit. `OrdersAreSafe` has the position limit and the self-trade check.
- A service restarted under the same controller keeps its epoch and isolates nothing (run_execution_service.py:133);
  a runtime has a database and a heartbeat of its own, so only the operator's confirmation keeps the two apart
  (`AssemblyIsSound` names the confirmation that was wrong).
- `EnabledOnTruth`: trades that were missed by orders the account has as ended, and that leave positions and balance as
  they were, are invisible to the four queries.
- `LedgerIsSound`: revise_settlement posts for the lots held now; lots closed since the settlement lose the difference or
  have it twice. Only tests call it, and versions are compared as strings.
- An order that a strategy sends in answer to the cancellation of a held one, at the end of a run, is neither sent nor
  rejected (base_engine.py:822).
- `MappingIsCausal` is about days after the first: the first entry of a mapping is in effect from the start of the day it
  was decided on, and on the last day of a history a switch takes effect at once (dominant_contract.py:123).
- With intervals under a day the roll-aware strategy looks at the day's last close from the first bar on
  (multi_product.py, continuous_close_by_day).
- project_product_calendar for a window drops the night session of its first day.
- A memory journal keeps a key with None where the database deletes it; its docstring says they are equal.
- After a roll that was given up halfway, lots left in the old contract are sized by no signal (multi_product.py:482).

### 3.3 Bounds, and why they are enough

- `MaxCrashes`, `MaxFailures`, `MaxEpoch`: the steps of one dispatch are interrupted once, and the recovery of it once
  more; two epochs give an old and a new controller, three give nothing new as claims are compared for equality. The
  properties of both execution runs are proved for every value.
- Batches of 1 or 2 trades, a queue of facts bounded to 1 and a market queue that overflows at 1.
- `CtpSession`: three front events let a loss, a return and another loss fall into one wait, with an error answer and a
  wait given up while the answer is on its way. `LiveFeed`: two sessions, the second with a shorter bar; a horizon of
  five time units has bars that are whole, cut, joined late and missed.
- `AccountKernel`: two lots for an order give partial fills, one opening and one closing order a pair of offsets that
  share a bucket after the change of day; two days give a change of day under live orders; lots held from before give
  freezes against both buckets. `RiskGate`: two buys that together reach the limits and a sell the first crosses.
  `AccountLedger`: two instruments (one settled, the other waiting), three days, two prices, two versions.
  `AccountLifecycle`: two days, versions and batches. `Assembly`: two of three programs at a time, an old and a new epoch.
  `RiskControl`: an old and a new holder, two restrictions since a checkpoint, one command that waits while another is
  built; proved for every value.
- `StrategyRuntime`: entry, exit, and one more event; two observed events may be out of order. `CtpOrderRefs`: an order of
  a lost session, one of the present session and one more login. `Recovery`: a buy and a sell of one product that cancel
  out, another product, one fault (`MaxFaults`). `AccountHistory`: two orders, four days (retirement takes two), five facts.
- `Watchdog`: one round of tolerated silence, one beat, one restart, one change of control. `Rollover`: three lots let
  both legs be filled in part twice; three retries are the code's default; two bars per close use up two of them in one
  day. Proved for every value, closing first. `CommandStore`: three transactions, a snapshot in the middle, contents that set, delete and set a key again.
- `Backtest`: six bars of two instruments over two days with a night, one of rejected quality; a third day with a session
  and no bars; a bar's length is more than a delay. Two writers of `DataStore` are alike (SYMMETRY; no liveness is checked there), three downloads are
  one over another over a third. `RuleVersions`: four versions make chains and forks. `Contracts`: five days allow a
  confirmation of two days to begin, to be broken and to be completed.

### 3.4 Fairness

- `ExecutionService`: the loop of the account thread (`Round`) runs as long as the process lives, queries end (with or
  without success), and a readiness attempt that was begun is ended. Nothing obliges crashes, callbacks or operators.
- `CtpSession`: the account thread goes on, and the counter answers what it was asked over a connection that stays up;
  nothing obliges the front to come back, nor any query to succeed.
- `LiveFeed`: the clock goes on, snapshots on their way arrive or are lost, and the loop goes on.
- `Watchdog`: rounds go on; evaluating needs readable files again and again (strong fairness, as reading may fail at
  times), and so does writing; a living service beats.
- `Rollover`: bars go on.

## 4. Proofs

A theorem holds for every value of the constants that its assumptions admit; the run of the same property shows it on
one instance, the proof that the bounds of the instance hide nothing. The invariant a run checks is seldom inductive.
Each section names what has to be added, which is also what a reader has to know to see why the code is right. Inductive
invariants were checked by TLC before they were proved (as invariants of a run, and the hard ones as inductive on small
instances).

The assumptions on constants are the ASSUMEs of the modules (`ServiceAssumption`, `SessionAssumption`,
`FeedAssumption`, `KernelAssumption`, `AccountAssumption`, `GateAssumption`, `LedgerAssumption`, `ProgramAssumption`,
`RestartAssumption`, `RuntimeAssumption`, `WatchdogAssumption`, `RollAssumption`, `StoreAssumption`, `RouteAssumption`, `RuleAssumption`):
sets are finite where the code holds them in memory, counters and limits are natural numbers, names of one kind are not
names of another; TLC evaluates them in every run. A theorem with a hypothesis of its own says so below.

### 4.1 ExecutionService_proofs

For every set of commands, events and trade keys, every queue and any number of crashes, failures and takeovers.

| theorem | statement |
|---|---|
| TypeCorrect, DispatchCorrect | `TypeOK` and `DispatchInv` are invariants |
| NeverSentTwice, NeverDenied, AlwaysReserved, RefusalsAreClean | AtMostOneCall, SeenIsNeverDenied, SeenIsReserved, RefusedIsUntouched |
| CallsAreFenced, EpochsAreTakenOver | the action properties FencedCalls and EpochOnlyByTakeover |
| LifecycleImplemented | every step is a step of CommandLifecycle or a stutter |
| BookedOnce | TradesBookedOnce |
| ExecutorCorrect | `ExecutorInv` is an invariant |
| AlwaysReconciled, NoDispatchForgotten, AlwaysPublished | ReadyIsReconciled, NoOrphanDispatch, ViewIsCommitted |

"At most one call" is not inductive: nothing in it says that a call is only made by a thread whose command was still
uncalled. `DispatchInv` adds what the thread knows at each step of a dispatch: between the fence and the record of
the result the current command is DISPATCHING and staged; before the call it has not been called; at the call, the
claim, the control record and the command's epoch agree; NOT_SENT is only recorded for a call that did not happen; and
a command that was called is DISPATCHING or SENT_UNKNOWN for ever. `DispatchStep` has one step per action. The action
properties follow from it by the same case split (`QuietStep` collects the actions that touch neither calls nor
epochs). The refinement maps a status and the calls as they are. `BookedOnce` has an invariant of its own: a trade
whose key is not yet in the journal has not been booked (`UnbookedStep`).

The gate: `ExecutorInv` says that an executor with a fault is in its main loop and only the fact it keeps can clear the
fault, that the counters the gate compares are honest (what callback threads counted and nobody acknowledged is still
queued or kept for a repair: `LossInv`), and that a dispatch is open only at the executor that works on it.

`TypeOK`, `SeenIsNeverDenied`, `SeenIsReserved` and `RefusedIsUntouched` are proved and not listed as invariants of a
run: the run checks `DispatchInv`, from which they follow.

### 4.2 Gateways_proofs

| theorem | statement |
|---|---|
| SessionCorrect, OnlyTheRace | `SessionInv`; OnlyTheRaceReopens |
| FeedCorrect, BarsAlwaysTrue | `FeedInv`; BarsAreTrue |

The session, for any number of disconnects, errors and late answers: unless the race has happened, a login is on its way
only while the gate asks for a reconciliation, and never while the account thread is between the queries and the mark,
nor while it holds an order it has tested (`LoginInv`, `MarkInv`).

The feed, for any disjoint sessions, prices, bar length, gap, ages, queue and horizon: while nothing is counted as lost
and the feed is not paused, what is on the wire and in the queue is what the exchange made after the last snapshot
taken, in order and without a hole (`PipeInv`), and the open bucket is what was traded from its first to its last
snapshot (`TakenInv`). What is closed lies on the grid of a session (`GridInv`), so a snapshot of a closed interval
pauses the feed; a bar that the clock closes early therefore is whole, or some of it is still under way and stays so.

### 4.3 AccountKernel_proofs

For any finite set of orders, their offsets and quantities, any lots held at the beginning and any number of days.

| theorem | statement |
|---|---|
| BooksAlwaysAgree | BooksAgree |
| ReservationsAlwaysFit | ReservationsFit |

`BooksInv` says of each operator of the kernel what it changes, and that the broker never gives away what it has not,
which bounds freezes by buckets. `FitInv` compares what the account has of an order (what was traded of it, by trades
and by reports) with what the broker has done, whatever is on its way: trades that were seen are the broker's own, and a
report never says more than has happened. `account_kernel_funds` shows that the same does not hold of funds.

### 4.4 Account_proofs

| theorem | statement |
|---|---|
| AlwaysControlTypeOK, AlwaysRestrictionsHold | the types of RiskControl; RestrictionsHold (any operators and bounds; `HeldLots \in Nat`) |
| DayCorrect, AlwaysDayIsSound | `DayInv`; DayIsSound (any days, versions and order of calls) |
| AssemblyAlwaysSound | AssemblyIsSound (any programs, registers, reports and days) |
| OrdersAlwaysSafe | OrdersAreSafe (any orders, quantities, prices and limits) |
| LedgerCorrect, LedgerAlwaysSound | `LedgerInv`; LedgerIsSound (any instruments, prices, fee and days, any number of trades, prices and revisions) |

`RestrictionsHold` says nothing of the journal, of which a restart makes the state anew, nor of an order between its
check and its call. `ControlInv` adds that the journal stands for what was asked (`Rebuilt(saved)`, which a checkpoint
leaves as it is and a control moves to its target: lemma `RebuiltAppended`), that the kernel is behind only while a
committed fact is published, and that an order about to be called is permitted by the state in effect.

`ProgramInv`: what a program has to close begins with the database, then the session, and both tables agree with it; so
the owner of a database is who has one to close, and who is logged in owns it.

`GateInv`: what the account knows of an order lags behind the broker and never runs ahead (`KnownIsTrue`, `ToldIsTrue`);
so what it believes it may come to hold bounds what it may come to hold, a sum over its orders (`LimitInv`).

`LedgerInv`: that balance and results trade by trade are one account is inductive with the types and with what
`_try_advance` relies on (`Pending`: a day that is to end is today). The proof is of the operators: what the open lots
have earned is a sum over instruments, sides and lots, and each fact changes it by what the fact posts. A lot that is
opened adds a term (`EarnedAppended`), a close takes one out of the middle of a queue (`EarnedRemoved`, where the places of
the lots behind it move: `TotalRenamed`), a settlement adds its gain to every term (`EarnedMarked`), and a revision moves
the lots that still have the old basis by one difference (`EarnedRebased`, `TotalScaled`).

### 4.5 Restart_proofs

| theorem | statement |
|---|---|
| ReferencesCorrect, AttributionSound | `RefsInv`; AttributionIsSound (any orders, sessions, restarts) |
| HistoryCorrect, AlwaysDurable, PlainImplemented | `HistoryInv`; HistoryIsDurable; the refinement of PlainAccount (any orders, days, failures) |
| ReconciliationCorrect, TradingOnTruth | `RecoveryInv`; EnabledOnTruth (any orders, trades, products) |
| RuntimeCorrect, FatesKept, StrategySound | `RuntimeInv`; FatesAreKept; StrategyIsSound (any events, crashes, queues), from `ReportsNameOrder` |

References: book, recorded results, indices and counter never give one triple to two orders nor two triples to one,
because a login begins after every reference the counter has seen and a restored book holds no others. History: the
journal, read back from its checkpoint and facts, is the account, and the account in memory is that, or one fact
behind, or stands on another checkpoint and is built again. Reconciliation: what an answer without a difference showed
was true when the counter made it, up to trades that will be told, and stays true while the session lasts
(`ShownInv`); a late, cut or foreign answer is never taken for the one asked for (`AnswersInv`). Strategy: a command is
followed from the callback that makes it; while it may still trade it is an intent of the strategy, the gate is shut
for every other one and the checkpoint holds it. `ReportsNameOrder` is true of the simulated gateway and not of CTP;
`strategy_deaf` shows that the theorems need it.

### 4.6 Supervision_proofs

| theorem | statement |
|---|---|
| WatchdogCorrect, AlwaysApplicationsAreSound | types and `ApplicationsInv`; ApplicationsAreSound (any timeouts, beats, restarts, failed writes) |
| StoreCorrect, AlwaysOneHistory | `StoreInv`; StoreIsOneHistory (any executors, transactions and snapshots, with the commands of MCSupervision) |
| RollCorrect, RollAlwaysSound, CompletedAlwaysMoved | `RollInv`; RollIsSound; the safety half of RollEndsMoved (any size, retries, bars and volumes), from `~OpenFirst` |

The watchdog: what it keeps agrees with what is written, by number and by the life it was made in, and what this life has
written it still keeps. The database: whatever stands beside the journal is a function of it. The roll: `RollIsSound`
compares legs and account, and says nothing of orders that are alive when a leg's expiry was not noted or when the roll
was given up with an order in the market. `RollInv` has two parts. Without a roll, at most one order is alive and it
fits into `Size` (`IdleInv`). Within one (`RollingInv`) the legs count what the account has; there are two orders at
most, the second of which waits for the next opening; what may still be filled closes what is left of the old contract,
or opens no more than the first leg is ahead; a placed leg has its order unless one ended while the roll was paused.
`rollover_open_first` shows that `~OpenFirst` is needed.

### 4.7 Research_proofs

| theorem | statement |
|---|---|
| StoreCorrect, AlwaysTraceable, AtomicStoreImplemented | `StoreInv`; PublishedIsTraceable; the refinement of AtomicStore (any writers, readers, downloads and retirements) |
| RoutesAlwaysWhole | RoutesAreWhole (any lots and orders, every kind of exchange, priority and fee; the two days of MCResearch) |
| RulesAlwaysFound | RulesAreFound (any versions and times) |
| SessionsCount, HolidaysAlwaysAgree, GapsRest | the three parts of SessionsAreSound: any set of trading days, profile and announcements; any bars, evidence and sessions that do not overlap |
| SessionsAlwaysSound | SessionsAreSound (the inputs of MCResearch, from the three above) |
| MappingAlwaysCausal | MappingIsCausal (any contracts, prices above zero, days of confirmation and histories) |

Storage: a file is named by its content and never changes; the lock makes the captured manifest the published one until
the pointer is replaced. Routing (`RouteInv`): what the book freezes of a day is the sum of what its children hold, a
child holds what it has yet to trade of the day its offset names, and a plan is one piece, or two of different days.
Rules (`RuleInv`): a version replaces an older one that was known by then, so replacement has no cycles, and of the
versions in effect one is behind no other. Calendars: the sessions of a day lie within it or in the night of the trading
day before and do not overlap, so a minute is of one trading day; the trading days that `holiday_starts` counts to the
eve of a holiday are one exactly when a workday before the next trading day is none. Gaps: a scan of the bars in the order
of their starts leaves every minute up to where it is (`Scanned`) to a bar, or to one piece between two bounds of the
evidence, of the kind the evidence gives for that minute (`PiecesAreWhole`). Dominant contracts: a history is mapped day by
day, and after each day an entry that has ended, or the one that has not, shows for every day that is decided the
contract that led the mapping the day before (`EffectInv`); a challenger is counted for exactly as long as it leads
(`RunInv`); an item of the series is adjusted to the one before it by prices of one or the other day (`WovenInv`), and is
never changed by a later one.

### 4.8 Sums_proofs, and recursion

What the models sum (freezes, lots on their way, what lots have earned, missed trades) they sum with `MapThenSumSet`, a recursive function whose
next term is a CHOOSE. Induction over data by a theorem that takes an operator is out of the prover's reach, so every
induction is a least counterexample: `WFMin` on the strict subsets of a finite set, or the least number, and the
definition unfolded once. `Sums_proofs` has the lemmas (a term added, taken, changed; terms renamed or scaled; a sum of
non-negative terms bounds each) that the other modules cite.

### 4.9 Only model-checked

- Liveness, which the prover cannot do: `CommandsAreProcessed`, `FactsAreBooked`, `SessionRecovers`, `FalseBarPauses`,
  `LostIsRequested`, `RollEndsMoved` (but for its safety half).
- `BacktestIsFair`: an engine over one given history of bars (TLC takes every answer a strategy may give to it); fill
  prices are checked for every order, bar and limit of a grid.
- `FundsCoverExposure`, `StrategyInStep` over CTP and the other properties of the runs in 3.1 do not hold.

## 5. What is left to do

| module | about |
|---|---|
| `Rollover` | the short side, several batches |
| composition | `CtpSession` with the dispatch of ExecutionService; `Watchdog` with its takeover |

## 6. Not modelled, and why

Analysis, viewer, observability, command lines and probes keep no state the trading parts read. Conversions of prices,
flags and code tables, codecs and checksums, parsers of data sources and statements are pure I/O; no property depends
on them. What a power failure leaves of a file is not modelled: what is written stays. Numerical research code (the
multi-product portfolio and its report, the vector backtest) has no state between steps that others read. The indicator
arithmetic of strategies is a free choice in the models, which covers every indicator. Components with status "partly"
say in `PROJECT.json` what is left out of them.
