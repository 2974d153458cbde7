# Formal models of the trading bot

TLA+ models of the paper-trading bot in this repository, TLC configurations that
check them on small instances, and TLAPS proofs of what matters most for every
value of the constants. Paths below are relative to the repository root.

Five models cover the trading loop: the life of an order (`OrderLifecycle`, with
its promise `OrderContract`), the risk gate (`RiskGate`), the ladder (`Ladder`),
the trailing stop and the wheel over the same shares (`Protection`), and the bus
with the decision layer and the feedback it learns from (`FeedbackLoop`). Two more
stand beside it: the backtests that compose the strategies, the risk layer and the
decision layer over a simulated broker (`Backtest`, `BacktestPlans`), and the
analysis that turns bars and signals into a confidence and a size (`Enrichment`
with `Fimathe`, `Synthesis` and `ShadowModel`).

## 1. The system

One process runs a cycle every ten minutes (`agents/monitor.py`,
`scheduling/scheduler.py`). A cycle walks a pipeline of agents over an in-memory
bus (`orchestration/bus_orchestrator.py`): periodic reconciliation, ingestion of
bars, planning (strategies, then risk), decision layer, execution, feedback. The
broker is remote; a SQLite file and a kill-switch file survive the process.

| Component | State it keeps | Operations | Hard behaviour | What makes it correct |
|---|---|---|---|---|
| Executor (`agents/executor.py`) | nothing of its own; rows in `orders`, `trade_log` | execute, execute_many, submit with retry, persist the answer | crash between row, network and answer; lost answers and blind retries; switch flipped between checks | row before network; at most one order per intent; the ledger never ahead of the broker |
| Order ledger (`data/order_repo.py`, `data/trade_logger.py`, `data/position_repo.py`) | order rows and their status, trades, position snapshot | record_pending, mark_*, log_execution, replace_all_from_broker | unconditional updates, several transactions per fill | final rows stay, rows close, fills logged once |
| Kill switch (`core/kill_switch.py`) | env var or sentinel file | engage, release, is_engaged | flipped by a person at any time | stops every order not yet past its last check |
| Reconciliation (`orchestration/reconcile.py`, `agents/reconcile_agent.py`) | cycle counter | at boot and every N cycles | broker moves between its reads; failing lookups | open rows converge to the broker |
| Monitor, scheduler, start (`agents/monitor.py`, `main.py`) | - | first tick, scheduled ticks, restart | the first tick runs outside the scheduler | a failed cycle harms nothing later |
| Planner (`agents/planner.py`) | - | plan, apply risk | one account snapshot for all intents | exits always pass |
| Risk layer (`risk/`) | start equity and peak (persisted), halt (memory) | begin_cycle, assess | restarts, day changes, several intents per snapshot | no new risk under a halt; limits per symbol and in total |
| Ladder (`strategies/ladder_buys.py`) | anchor and rungs (persisted) | evaluate, reset | state written before the order executes | each rung buys once; the invalidation stop liquidates |
| Trailing stop (`strategies/trailing_stop.py`) | open orders at the broker | evaluate | failing reads look like empty answers | every long covered once |
| Wheel (`strategies/wheel.py`) | leg marks (persisted) | evaluate | one cash figure backs several puts | puts are cash-secured, calls covered |
| Decision layer and feedback (`intelligence/`, `feedback/`, `agents/feedback_agent.py`) | table `decisions` | process, attach outcome, evaluate | outcomes of orders that never executed | vetoes only on evidence |
| Bus (`orchestration/bus.py`, `agents/bus_agents.py`) | one queue per topic | publish, drain | exceptions in the middle of a cycle | nothing stale is executed |
| Backtest (`simulation/sim_broker.py`, `engine.py`) | simulated cash, position, pending orders, emulated stop | set_index, fill at open, protect, evaluate, submit, mark, liquidate | order of fills, triggers and decisions in a bar; rungs and stops of one bar | no look-ahead; books balance; no short sale |
| Experiments (`simulation/experiment*.py`, `montecarlo.py`, `gate.py`) | the table `decisions` shared by the runs of an experiment; a frozen gate | windows, sweep, two passes, in-sample training | decisions of one run judged by another | evidence comes from fills of the same run |
| Fimathe (`fimathe/engine.py`) | none (columns of a frame) | channels, indicators, PCM score, signals, stops | vectorised columns that may see later bars; degenerate channels | causal; buys and sells alike |
| Signals, synthesis, sizing (`strategies/signals/`, `synthesis/`, `sizing/`, `integration/`) | signals collected | collect, synthesize, enrich, size | failing sources, contrary evidence, caps | size follows evidence within the limits |
| Machine learning (`ml/`) | promoted classifier | training set, evaluate, recommend | temporal split, ties, tiny test sets | a promoted model had skill on later decisions |
| Audit log, dashboard, statistics | - | - | read-only, write-only or sampling | not modelled (section 8) |

Interaction: the planner calls strategies and risk manager synchronously and
publishes intents; the decision agent filters them; the executor calls broker,
switch and ledger; fills go to the feedback agent. The only shared state with the
outside is the broker's account, the switch and the database. Concurrency is
therefore between the process, the broker, the operator, and crashes; inside the
process everything is sequential (APScheduler runs one instance of the job).

## 2. Plan

The modules, in the order they were written: `OrderLifecycle` and `OrderContract`,
`RiskGate`, `Ladder`, `Protection`, `FeedbackLoop`, then `Backtest` with
`BacktestPlans`, which composes strategies, risk, decisions and feedback over one
broker, and the analysis: `Fimathe`, `Synthesis` and `ShadowModel` are pure,
`Enrichment` EXTENDS them and gives them a market, sources and a log. Each component
that keeps state across steps has its proofs in a module of its own.

Abstract specifications: `OrderContract`, which `OrderLifecycle` implements, and the
position defined by the closes seen so far, which `Backtest` is shown to compute
(`PositionByDefinition`).

What remains worth doing:

1. A composition of `RiskGate` and `Ladder` in the loop itself: two rungs of one cycle
   pass the gate over the same snapshot. `Backtest` composes the two over one broker,
   where the risk layer runs without a second process.
2. A breaker that remembers every equity it has seen, as an abstract specification of
   `RiskGate`.
3. `RiskKeepsCash` under a weaker hypothesis than `Modest` (section 7): the limit per
   trade, which the theorem does not use, allows larger gaps than the limit per symbol.

## 3. Modules and code

All models follow the same conventions. Every transaction on the database, every
call of the broker and every message on the bus is a step of its own, so that a
crash, an answer of the broker, or the operator may come between any two; purely
local computation is part of the step that uses it. `pc` says where the single
process is. Variables are grouped into the broker, the database, the process
(lost by a crash) and history. History variables are never read by an action but
as a bound, and exist because a property speaks of the past. `Fault`, where it
occurs, counts what goes wrong against a bound, `MaxFaults`.

What a proof has to take apart is written without `RECURSIVE`: a function of the index
where a value depends on the one before it, a fold of the community modules where it is
a sum, and `Selection!Filter` where a list comprehension of the code keeps some of a
sequence, in order.

Every action is one operation; definitions whose names end in a deviation
(`RungUnmarked`, `PlaceStopsAny`), marked "Mutant", are not part of any
specification: each is a plausible bug, and a property that holds is shown to fail
when the definition it deviates from is replaced by it.

### 3.1 OrderLifecycle, OrderContract, OrderClaims

State: the switch (`engaged`); per order the broker's view (`bstatus`, `bfilled`),
the row (`status`, `filledQty`), `logged` for `trade_log` and `positions` for the
snapshot; the process (`pc`, `batch`, `cur`, `attempt`, `resp`, `todo`, `cycles`,
`firstTick`). A client order id is one intent, since `core/models.py` draws an id
per intent.

| Code | Actions |
|---|---|
| `Monitor.start`, boot reconciliation, `main.py` | boot and first tick; an exception in it ends the process, in later ones APScheduler logs it |
| `BusOrchestrator.run_cycle` | plan, reconciliation every N cycles, batch |
| `Executor.execute`, `_submit` | switch, validate, lookup of a duplicate, `record_pending`, second check, send, backoff, give up, `mark_submitted`, `mark_fill`, `log_execution` |
| `Executor.execute_many` | the cap on a batch: what exceeds it is dropped |
| `reconcile` | positions read first, then one lookup per open row |
| `KillSwitch` | engage and release at any moment |
| broker (from `fake_broker.py`, `alpaca_broker.py`) | create, fill in parts, cancel; duplicates of an id |

The two brokers differ where it matters. `"fake"`: a duplicate id returns the
existing order and its status is readable. `"alpaca"`: a duplicate raises, and the
status returned on submission is `str()` of an enum member, which none of the sets
of the executor contains, so only the quantity decides the row's status.

`OrderContract` is the promise without processes: announce, place at most once and
not under the switch but for the order in flight, execute, claim no more than was
executed. `OrderClaims` holds what comments say and the code does not do.

### 3.2 RiskGate

One symbol seen through `PortfolioRiskGuard`, `RiskManager`, `main.py`
(`_build_risk_manager`) and `Planner._apply_risk`. Percentages are integers and
ratios are compared as products, so nothing is rounded that the code does not round.
`StartDay` reads or writes the start equity of the day, `StartPeak` the high-water
mark, and the process may crash between them. `BeginCycle` evaluates the limits;
`PeakWriteFails` is the write of a new peak that raises after the memory was
updated. `ApproveBuy`, the puts, the exits and `Veto` are the outcomes of assessing
one intent; approvals are kept as counts and sums of shares (`buys`, `bought`, ...),
because all intents of a cycle are assessed against the one `account` read at its
start.

### 3.3 Ladder

`anchor` and `filled` are the rows `ladder_anchor:*` and `ladder_rung:*`. `Visit`
reads the price and stores a missing anchor; `Invalidate` starts a reset, which
`DeleteRung` carries out row by row before `Liquidate` returns the sale; `Rung`
decides one rung and marks it *before* its intent leaves the strategy; `Raise` is
an exception that drops all intents of the strategy while its writes stay. `Hand` is
the decision layer: it takes out whatever the ladder intends for a symbol in a regime
that is `vetoed`, its own stop included, as often as the regime is that one; no bound
and no fault is spent on it. `Sell` may change `vetoed`, because the outcome of a sale
closes decisions (how a record of losses comes about is `FeedbackLoop`); `denied` keeps
the symbols whose sale was vetoed until the cycle ends. `Lose` stands for the other
reasons why an intent does not become an order (risk, which sales pass, the switch,
the cap, a refusal). A rung is one lot; market orders fill at once.

### 3.4 Protection

`TrailingStopStrategy` and `WheelStrategy` over the same shares, counted in lots of
100. `ReadOrders` and `PlaceStops` are the two reads of the trailing stop, each with
the failure the code turns into an empty answer; `ReadAccount`, `VisitSells`,
`VisitSkips` are the wheel, whose marks (`wheel_open_put`, `wheel_open_call`) are
written when a leg is chosen; `ExecuteStop`, `ExecuteLeg`, `Lose` end the cycle.
The decision layer has no part here: it judges by closed decisions, only buys are ever
closed, and these two strategies never buy shares. Four histories say what the
properties excuse, and each starts again where the code looks again: `drift` (lots that
came or left in another way) and `twice` when a stop is asked for, `gone` (lots sold by
a stop or by somebody else) when a call is decided, `spent` (cash paid for shares) when
the account is read for a put.
Between any two steps a stop may be executed, an option assigned or expire, shares
be bought or sold by somebody else. Prices do not move (a stop may be executed at
any time instead) and premiums are left out.

### 3.5 FeedbackLoop

The pipeline of `bus_orchestrator.py` over its topics (`bus`), the decision layer
(`Evaluate`, `Record`, `Approve`), the executor's side of the bus, and the feedback
agent (`HandleBuy`, `HandleSale`, `Close`). `rows` is the table `decisions`. A buy
is one lot, a sale asks for what is held when it is planned. The bars of a symbol
show a regime and a price (`Views`; the price may be missing). What the executor
does with one order is the subject of `OrderLifecycle`; here an order is filled at
its submission, accepted and filled later (`LateFill`, which nothing publishes), or
not placed. Exceptions are placed where the code lets them happen: in the planner
they leave the bars on the bus, in the decision layer rows that are recorded and
not passed on, in the executor they lose the rest of the batch and its fills, in
the feedback handler they are swallowed.

### 3.6 Backtest, BacktestPlans

One run is a sequence of phases per bar, in the order of the engine's loop:
`FillOrder` one pending order at the open, `Opened`, `Enter` (the first bar after
the warm-up, where a trailing run buys its position), `Protect` (the emulated native
stop raises its high water and triggers on the close), `EvaluateTrailing`,
`EvaluateBroken` and `EvaluateRungs` (the strategies themselves), `Assess` and
`Judge` (risk and decision layers, one intent at a time), `Submit`, `Mark`, `Finish`
(the liquidation at the last close). `StartRun` builds a fresh broker and guard;
`SkipRun` is a series that is too short, or a window whose regime the frozen gate
vetoes. The regime is computed from the closes as `feedback/regime.py` does, with
windows of two bars. Money is exact: slippage and commission are fractions of
`Scale`.

A plan is the sequence of runs an experiment makes over one series; `BacktestPlans`
builds them as `run_sweep`, `run_experiment` and `run_oos_experiment` do. What a plan
carries from run to run is what the code carries: the decision log and the gate.

### 3.7 Enrichment, Fimathe, Synthesis, ShadowModel, Selection

`Fimathe` is `FimatheEngine.process` as operators of a whole frame and a bar, the way
the vectorised code computes columns, so that a column that reads later bars shows.
Fractions are exact, as numerators over a known power of the smoothing; only the PCM
score is rounded, to thousandths, with `tanh` from a table in steps of an eighth.
Frames carry no volume. `Synthesis` is what the other sources say: the two providers,
`SignalService.collect` that drops a failing one, views, `synthesize`, `DynamicSizer`.
`ShadowModel` is the training set and `evaluate`: temporal split, ranks with ties,
AUC against its interval (both squared, so that the comparison is of integers), and
the expectancy of what the model approves.

`Enrichment` adds the days: `NewBar` (closes yesterday's decision), `Collect`,
`Enrich`, and `Promote`, which may follow any recommendation once. The market, the
intent of the day and the closing of its decision are the caller's and are marked
external.

## 4. Runs

| Run | Distinct states | What it shows |
|---|---|---|
| `Orders_faults` | 628 250 | Two orders with partial fills against every kind of fault and a crash: types, a row before every order, the ledger never ahead, no orphan but by a hidden answer, final rows stay, the snapshot is explained by the ledger, fills have quantity and trade, the switch stops orders |
| `Orders_reexecute` | 135 372 | An intent executed three times with every fault and two crashes, under fairness: logged once, every step is one of `OrderContract`, open rows of settled and of unknown orders are closed in the end |
| `Orders_claim_reach` | violation | A lost answer and refused retries leave a filled order REJECTED for ever, against `orchestration/reconcile.py:8-9` |
| `Risk_gate` | 268 548 | Two days, two starts, a failed write: the peak is remembered, losses stop new risk, limits per symbol, of heat and per trade hold per approval, exits pass |
| `Risk_claim_symbol` | violation | Two buys of a cycle exceed the limit of the symbol together, against `config/risk.py:5` |
| `Ladder_rungs` | 633 084 | Two ladders with a fault anywhere and vetoes that may last for ever: each rung buys once, positions are bounded, a sale is whole and alone, configured ladders are liquidated in the end or their sale is vetoed |
| `Ladder_claim_liquidate` | violation | A ladder without a configured anchor that loses its sale takes the broken price as its anchor and never sells, against `strategies/ladder_buys.py:54-55` |
| `Protection_wheel` | 287 162 | One stop per long and for what is held, but for lots that came or left since; legs sold once; calls covered, but for lots sold since; each put secured by itself; every long gets a stop |
| `Feedback_loop` | 395 079 | Nothing stale on the bus, decisions on the cycle's own bars, outcomes final and from real prices, vetoes with evidence, and no way out of a veto |
| `Feedback_claim_trades` | violation | A sale closes open decisions whose order was never executed, against `feedback/evaluation.py:23` |
| `Backtest_runs` | 525 953 | Five experiments over every series of nine bars: the books balance, no sale is short, the risk layer never owes cash, the record is made of fills of the same run, positions are those defined by the closes seen |
| `Enrichment_days` | 84 269 | Every market of six bars over three alphabets, both channel methods, ageing and failing sources, a challenger: nothing is decided from later bars, both directions are treated alike, confidence and number of shares follow the evidence within the limits, promotion needs skill on unseen decisions |

Every property of a passing run is paired with a mutant of the code under which the
same run finds it violated (`PROJECT.json`, `mutants`). `RiskGate!TypeOK` is in no run:
it is part of the inductive invariant that is proved.

## 5. Bounds, and why they are enough

- Orders: two orders, one that is validated against the account and one that is
  not; a batch cap of one, so that dropping occurs; two attempts, so that a retry
  meets its own first attempt; reconciliation every second cycle, so that cycles
  with and without it alternate; one crash, so that a restarted process meets what
  the first one left (a crash keeps only the database, the broker and the switch).
  `Qty = 2`, so that fills are partial. The re-execution run is about one intent:
  three executions and two crashes, so that a repetition meets the outcome of a
  repetition. The broker is `"alpaca"` in the fault run, where duplicates raise, and
  `"fake"` in the re-execution run, the scenario of `tests/test_order_failures.py`.
- Risk: two days and two starts are the least in which a start finds the figures of
  an earlier process of the same and of another day. The equities are a wiped
  account, both limits exactly (97 at 3 %, 80 at 20 %) and the peak; the accounts
  lie below, at and beyond each limit, with and without a lot and a quote. Two
  intents per cycle are the least that share a snapshot.
- Ladder: two rungs (10 %, 20 %) and a stop (30 %) with three prices, one per
  region: above the first rung, at the second, under the stop. One fault, because
  each single fault is what the code must survive; vetoes are not counted. Two regimes,
  one of which may turn out to lose, so that a veto comes, binds and is left again.
  Prices move between two visits only, since nothing else reads them. Every vetoed sale
  leaves the rungs to be bought once more, so the position may grow for ever: a ladder
  re-armed twice since it was flat (`MaxRearms`) sees its price fall only, and under the
  stop it can be vetoed again as often as the regime allows. A stock with a configured
  anchor and a crypto asset without one cover both branches of `_resolve_anchor` and of
  the market hours.
- Protection: two wheels of one and of two contracts whose puts the cash cannot both
  secure; four events let a put be assigned, a stop be executed, and shares be
  traded and a call be assigned after it.
- Backtest: closes at three levels (10, 8, 5) with rungs at 10, 20 and 30 %, a stop
  at 40 % and a trail of 10 %: the middle level reaches rungs and the trail, the low
  one every rung and the stop. The price may change at six of nine bars, opening with
  or without a gap. Warm-up and the windows of the regime are one or two bars, so that
  nine bars hold two passes, overlapping windows, and an in-sample part; the code's
  figures (a window of tens of bars) change how long a case takes to arise, not which.
  An intent is judged by the last five bars of its run (`Recent`, 60 in the code), so
  that later bars of a run leave the first ones out.
- Enrichment: six bars with a swing period of one give pivots, their confirmation and
  three bars after it. The alphabets are chosen for breakouts both ways, pivots in any
  order, and channels of no width. One scenario is made for the size: a disclosure
  against the side ages beside a purchase for it, so the fraction of the equity passes
  from between the floor and the cap to beyond the cap. Model scores above and below the threshold, one
  that approves nothing, and a test set of two, the least that can be ranked.
  One promotion per history.
- Feedback: two buys and two sales of one ladder in two regimes, up to two per
  cycle: a sale may meet none, one or two open buys, of its own cycle or of an
  earlier one. With `MinSamples = 1` one loss is a record.

`CHECK_DEADLOCK FALSE` stands where a bound or the program ends the behaviour: the
days and starts of `Risk_*`, the ids of `Feedback_*`, which are all planned in the
end, the last run of an experiment in `Backtest_runs`, and the last bar of
`Enrichment_days`.

## 6. Fairness

Safety runs assume none. `OrderLifecycle.LiveSpec`: the process keeps taking steps
(`WF(Bot)`; the scheduler of `scheduling/scheduler.py` runs the job for ever and a
crashed process is restarted), and a broker that is asked for its positions again
and again answers some day (`SF(SyncStart)`; the call fails at most intermittently).
Nothing is assumed of the operator or of the broker's orders. `Ladder.LiveSpec`:
the process carries on, cycles begin, and the market opens again and again
(`SF(Begin(TRUE))`: the trading day of `core/market_clock.py`). `Protection.LiveSpec`:
cycles begin and carry on while the market is open. No fairness is assumed of
prices, regimes, vetoes, fills, faults, assignments or expiries, and the faults are
bounded rather than assumed to stop (vetoes are neither: `ConfiguredLaddersLiquidate`
names the sale that is vetoed): a liveness property that holds says that the system recovers
from them.

## 7. Proofs

`OrderLifecycleProofs`, `RiskGateProofs`, `LadderProofs`, `ProtectionProofs`,
`FeedbackLoopProofs`, `BacktestProofs` and `EnrichmentProofs`, with the lemmas of
`FoldLemmas`, are checked by TLAPS to the last leaf. They assume only the named
`ASSUME` of each module: types and ranges of the constants, and what the code's callers
guarantee (a bar's low is not above its high and its close is positive, the runs of an
experiment lie within its series, `run_backtest` drives the trailing stop without the
decision layer, the ids of decisions are finitely many). One theorem, `RiskKeepsCashHolds`, has a hypothesis of its own. So
there is no bound on orders, retries, crashes, days, symbols, rungs, contracts, faults,
batches, series, experiments, bars, sources, views or models.

Sums and filters. A sum in the models is a fold of the community modules over a finite
set. `FoldLemmas` expands that fold once (`SumIsSums`: it is the one function that
satisfies the recursion) and derives `SumEmpty`, `SumAdd`, `SumRemove`, `SumSame`,
`SumMonotone` and the like. Where a fact needs induction over a set or a length, it is
proved by its least counterexample (`SmallestSubset` and `LeastNumber`: a collection of
finite sets has a smallest one, a set of naturals that is not empty a least element),
since the library's induction theorems take an operator as parameter; `RecursionExists`
gives the recursive functions the models use the value their equation says.

| Theorem | Why the property alone is not inductive |
|---|---|
| `OrderLifecycleProofs!Invariance`, `TypeCorrect`, `WriteBeforeNetworkHolds`, `LedgerNeverAheadHolds` | An answer in hand is persisted several steps after it was given. `AnswerIsReal` says it is one the broker gave and can only be old; `InHand` and `RowsExist` tie it to the order being executed, `BrokerAgrees` ties status to quantity. |
| `SwitchStopsOrdersHolds` | `PassHeld`: an order about to be sent under an engaged switch is the one that holds the pass. |
| `NoOrphanHolds` | Rows are closed as REJECTED before, during and after the network call; `Unrecorded` and `BeingSent` say in which of these the broker can know the order. |
| `Implementation` | Every step of the pipeline is a step of `OrderContract` or a stutter, action by action, under the invariant. |
| `FillsAccountedHolds` | `FillInHand`: where the fill in hand is between its three transactions; a crash there (`torn`) and a reconciliation (`learnt`) are the only ways to skip one. |
| `LoggedOnceHolds` | `LogInv`: what is logged is at the broker, so a repetition finds it there, and an order about to be placed or logged is not in the log unless a lookup misled the executor. |
| `FinalRowsStayHolds` | `FinalInv`: the rows a reconciliation has still to look up are open, and an order executed once is PENDING_SUBMIT without quantity until its answer is persisted. |
| `SnapshotExplainedHolds` | `SnapInv`: a closed row agrees with the broker, and what the snapshot shows of an order is in the ledger or in the rows still to look up. |
| `RiskGateProofs!PeakRememberedHolds` | `PeakStored`: the mark on disk is not below the highest equity unless a write failed, with an edge case for accounts never worth more than 1, since the guard starts from 1 when it has nothing. |
| `LossStopsRiskHolds` | `LossHalts`: a loss seen is a halt that lives as long as the process; `StartsStored` says from which figure the loss is measured. |
| `SymbolLimitHolds`, `HeatLimitHolds`, `TradeRiskHolds`, `ExitsPassHolds` | Sums over a cycle grow by one approval at a time: the limit is stated for n approvals, so that each step adds one. Lemmas on division and rounding carry the arithmetic. |
| `LadderProofs!RungOnceHolds` | `BuysOnce`: a rung about to be bought is marked and was not bought; an unmarked one was not bought. `CycleShape` keeps intents of a symbol apart from its visit. |
| `SaleIsWholeHolds`, `RearmsFromZeroHolds` | `ResetShape`: the rungs below the index are deleted and the sale will ask for what is held. |
| `LadderBoundedHolds` | `HeldWasBought`: what is held is counted by rungs bought since their deletion, and by one full ladder for each reset that deleted a rung since the symbol was flat. |
| `ProtectionProofs!OneStopPerLongHolds` | `StopOnce`: a symbol read as uncovered, or with a stop on its way, has no stop but for failed reads. |
| `LegsSoldOnceHolds` | `LegOnce`: a leg on its way is marked and was never sold. |
| `CallsCoveredHolds` | `CallBacked`: a call on its way is backed already by what is held and what was sold since it was decided, and open calls are those ever sold, so that an assignment cannot meet a second call on its way. |
| `PutsSecuredAloneHolds` | `PutSecured`: the cash read is at most the cash that is there or was paid for shares since, and a put that is sold was secured at its target by that cash (`PutsAtTarget`); what the listed strike costs above the target is added at the end. |
| `StopsMatchPositionHolds` | `StopsHeld`: what is held is what the open stop or the one on its way asks for, and what came or left otherwise since it was decided (`drift`); a stop on its way meets no open one unless the symbol is in `twice`, which takes a failed read. |
| `FeedbackLoopProofs!NothingStaleHolds` | `BusShape`: each phase finds only what the phase before it left, all of it of the current batch. |
| `DecidedOnFreshBarsHolds` | `Fresh`: the newest snapshot is this cycle's, and an intent on its way has no row yet, so nothing was recorded under another snapshot. |
| `OutcomeOfRealPricesHolds`, `OutcomesStayHolds` | `OneFill`: an order on its way was not executed and is not pending, so a price, once written, stays; `LoopShape`: what was told of a fill stays true and a closing sale meets only open buys. |
| `VetoHasEvidenceHolds`, `VetoIsForeverHolds` | `EvidenceInv`: a policy in force was computed from the rows as they are (`VetoIsCurrent`), losses were told by fills (`LossesAreTold`), and closed rows are buys (`BuysAreClosed`). A combo that loses has no trade that could still change its sum, so the veto never lifts. |
| `BacktestProofs!BooksBalanceHolds` | Inductive with the types: every fill moves cash, cost, trades and commissions together. |
| `SalesAreWholeHolds` | `SoleSale` and `Flow`: a sale is decided after everything else of the bar is out of the way, is the only order on its way through risk, decisions and submission, and nothing but its own fill moves the position before. |
| `EvidenceFromFillsHolds` | `OpenBuysAccounted`: each open buy of the log is of this run and was filled, or is the one order in hand that carries its id, or is of the run's last bar; `Unjudged`: orders get their id from the decision layer and from nothing else. |
| `PositionByDefinitionHolds` | `TrailingHolds` and `StopStands`: at every phase of a bar, where the stop stands and which sale waits for the open follow from the closes looked at so far. `LadderHolds`: rungs marked are those the closes reached, and the position is their sum but for the orders on their way (`OrdersFor`). |
| `RiskKeepsCashHolds` (under `Modest`) | `Covered`: between the risk layer and the open each buy is within the limit of the symbol and there is at most one per rung; at the open there is an amount that pays any one of the pending orders and, once for each of them, is in the account. |
| `EnrichmentProofs!SizeFollowsEvidenceHolds` | `Provenance` keeps for every decision of the log where its views came from and that its size follows from its confidence; `ConfMonotone` compares the confidences of two decisions with the same sources, view by view, through the sums, the division by the weights and the blend with the model, and `QtyMonotone` carries the comparison on through the Kelly fraction, floor and cap to the number of shares, or to the limit of the exposure. |
| `NoHindsightHolds` | `ProcessLocal`: the verdict of a bar is the same over every frame that agrees up to it, though the columns are computed over the whole frame; what the sources may have known is bounded by their dates. |
| `SetupsMirrorHolds` | `ProcessMirror`: prices mirrored at a level swap peaks and troughs, negate the moving averages' differences and keep true ranges, so the verdict changes sign and keeps its score. Proved of every frame and both channel methods, for setups the engine calls valid. |
| `PromotionMeansSkillHolds` | `MannWhitney`: the sum of ranks with ties is the number of pairs won, half of it for ties; the test set lies after the training set because the log is in the order of days. |

`RiskKeepsCash` is false of arbitrary constants: with a limit per symbol of 100 %, or one
share worth the whole account, one gap suffices. `Modest` says how much room it takes: the
limit of the symbol, once for every rung, pays for the dearest open that may follow a
close; one share is at most half of the account; slippage and commission together are at
most a third. With the three rungs, 20 % and five basis points of the code this allows an
open 1.6 times the close before it. The instance of `Backtest_runs` has gaps of a factor of
two, just beyond the hypothesis, and the property holds there too.

Two of the properties had to be corrected before they could be proved, which TLC had not
shown on its instance: `LadderByDefinition` did not except runs with a stop, and
`TrailingByDefinition` took for granted that half of the account buys a share.

Only model-checked, and why: the liveness properties (`OpenRowsClose`,
`ConfiguredLaddersLiquidate`, `LongsGetStops`). Liveness under fairness and `ENABLED` are
beyond the prover.

## 8. What the models leave out

Not modelled, with the reason: the audit log (written, never read by a decision); the
dashboard (reads only); the metrics of a finished backtest and the statistics of
`simulation/statistics.py` (bootstrap, probability of overfitting: floating point over
random samples); downloading and caching of data; the direct and external orchestrators
(the same lists without topics); parsing of the configuration, schema migrations,
formatting and logging. Of the analysis: Fibonacci levels, ADX and the cycle phase, the
lot size and the volume factor of `fimathe/engine.py` (no decision reads them, or the
frames have no volume), per-source weights (none by default), the wording of a rationale
and the language model that may write it, gradient descent (a fit may return any
threshold model), saving and loading of a model. Quotes, bars, disclosures and option
chains are inputs: any value of a small set.

Abstracted: quantities are lots or whole shares; the position snapshot is replaced in
one step, as nothing but the dashboard reads it; the lookup and the row update of one
order in a reconciliation are one step, since nothing else of the process runs
between them and a broker that moves on in between only makes the answer old, which
the next reconciliation repairs.

## 9. Behaviours to know of

The violations of section 4 are disagreements with what the repository says of
itself. The models also make the following visible, which no run is spent on:

- Orders. A crash between `mark_submitted` and `mark_fill` leaves FILLED with quantity
  zero, where `agents/executor.py:10-11` speaks of the quantity really filled (`torn`,
  excused by `FillsAccounted`). An order blocked by the second check is recorded as REJECTED, where the
  comment at `agents/executor.py:130-131` leaves it PENDING_SUBMIT to the reconciliation. Retries do not read
  the switch again (`agents/executor.py:252`; this is why `SwitchStopsOrders` has a
  pass). A lookup that fails closes the row like one that finds nothing
  (`orchestration/reconcile.py:121`). Fills learnt by the reconciliation never reach
  `trade_log`, and a partial fill is logged with the quantity of the intent
  (`data/trade_logger.py:49`).
- Risk. When the budget of one trade does not cover a share, the cap per trade is not
  applied (`risk/manager.py:105`). Rounding to lots can drop a small sale
  (`agents/planner.py:143-145`). The halt lives in memory, and the start equity is
  read once per process, not at midnight. A peak whose write failed is not written
  again until a higher one, and the exception ends that cycle with its exits.
- Ladder. A rung is marked though its buy may never be executed
  (`strategies/ladder_buys.py:82`). A crash in the middle of a reset leaves rungs
  marked under the next anchor (`strategies/ladder_buys.py:129`; `RearmsFromZero`
  excuses exactly these). The decision layer may veto the sale of a broken ladder
  (`intelligence/engine.py:185`), for ever while the regime lasts, and the reset before
  it has re-armed the rungs: once the price is back over the stop they are bought
  again, so a position may grow by a whole ladder for each vetoed or lost sale
  (`LadderBounded` counts them).
- Protection. A position that grows after its stop was placed stays covered in part
  (`strategies/trailing_stop.py:59`), and one that shrinks keeps a stop that sells
  short; `StopsMatchPosition` says by how much. `strategies/wheel.py:12` promises
  cash of at least strike times 100 times contracts for each put, but all puts of an
  evaluation are compared with the same cash, and at the target and not at the strike of
  the contract that is then looked for (`strategies/wheel.py:102`): together, or at a
  dearer strike, they may exceed it. `PutsSecuredAlone` claims no more than that. Nothing calls
  `WheelStrategy.reset`, so a leg that was lost or expired is never sold again. A
  stop over the shares that cover a call leaves it naked when it is executed.
- Feedback. The veto looks at strategy and regime only, so it also holds the
  strategy's own sales back (`intelligence/engine.py:185`), and it never lifts, since
  vetoed decisions produce no trades (`VetoIsForever`). Fills that arrive after the
  submission are never published (`agents/bus_agents.py:90`), so their decisions stay
  open. Each buy a sale closes is given a P&L over the whole quantity of the sale
  (`agents/feedback_agent.py:64`).
- Backtest. `run_backtest` classifies the regime over the whole window before it trades
  (`simulation/engine.py:109`), where its docstring says "sem look-ahead"; only the
  frozen gate reads it, and a gated run is skipped or not, so `PositionByDefinition`
  still holds of those that run. Configuration C of `simulation/experiment.py` learns on
  the series it is then measured on; its metrics take the trades of all bars with the
  bars of the out-of-sample part (`experiment.py:127`). The ladder never reads
  `buying_power` (`simulation/sim_broker.py:119`), so without the risk layer the cash
  may turn negative. A trailing run enters at the close of the last warm-up bar. The
  curve of the equity ends before the liquidation is paid for, `trade_pnls` leave the
  commissions of the buys out (`BooksBalance` accounts for them), a daily loss halts the
  rest of a run, the policy can veto the ladder's own stop, a second trailing stop may
  be placed on the bar of the trigger, and buys of a run's last bar stay open in the
  log until the next run's sale closes them (`EvidenceFromFills` names them). The gate is
  trained with the ladder only, so windows of the trailing stop are never vetoed.
- Analysis. Nothing in the loop calls `DecisionEnricher`; tests do. With its default
  payoff of 2, a confidence of at least one half already asks for more than `max_risk_pct`,
  so the size does not depend on confidence there, against the docstring of
  `integration/enricher.py:8` ("quantidade dimensionada por essa confianca"); the
  scenarios with a payoff of 1 make it depend, and `SizeFollowsEvidence` says for every
  payoff that more confidence buys no fewer shares. A weak view
  in favour dilutes the conviction of the others, since weights are averaged. The chance
  of winning counts twice, as a view and in the blend, and a low one is still a view in
  favour. The enricher reads `signal` and not `setup_valid`, so a setup in a channel of no
  width becomes a view; in an upside-down channel the sell is measured from the upper edge
  (`SetupsMirror` speaks of valid setups). `setup_valid` compares a ratio of rounded
  numbers with exactly 2 (`fimathe/engine.py:323`): for closes at which the target crosses
  a power of two it may come out just below, and the setup is dropped; the model is exact.
  A model that approves nothing can be promoted when the baseline loses, and an AUC of one
  has no standard error, so only `min_test` guards it; `PromotionMeansSkill` names the
  first case.

## 10. Running

    tlc -workers 2 -config Ladder_rungs.cfg MCLadder.tla
    tlapm LadderProofs.tla

`PROJECT.json` lists each run with its module and configuration, the theorems, the
mutants, and for each definition the lines of code it models.
