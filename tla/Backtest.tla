------------------------------ MODULE Backtest ------------------------------
(***************************************************************************)
(* The backtest broker driven bar by bar, the two engines that drive it    *)
(* with the real strategies, and the experiments built from them: the      *)
(* sweep of rolling windows, the controlled experiment on the ladder, and  *)
(* the out-of-sample experiment with its frozen regime gate.               *)
(*                                                                         *)
(* Sources: simulation/sim_broker.py, costs.py, engine.py, gate.py,        *)
(* montecarlo.py, experiment.py, experiment_oos.py, feedback/regime.py,    *)
(* and the strategies, risk layer, decision layer and feedback agent as    *)
(* these engines call them.                                                *)
(*                                                                         *)
(* A series is known in full before the run starts: that the run does not  *)
(* look ahead is a property, not the shape of the model.  Money is exact:  *)
(* a price paid is in units of 1/Scale, cash in units of 1/(Scale*Scale).  *)
(* There is one symbol; runs over several share nothing but the decision   *)
(* log, whose combos have no symbol.                                       *)
(***************************************************************************)
EXTENDS Integers, Sequences, Functions, FiniteSetsExt

CONSTANTS
  AllSeries,    \* price series: opens and closes, bar by bar
  Plans,        \* experiments: sequences of runs over one series
  Cash,         \* the account of a run
  Scale, Slip, Comm,  \* slippage and commission of a fill, in 1/Scale
  Warmup,       \* bars before the first decision
  Needed,       \* bars a run of each kind needs after the warm-up
  Qty, Drop,    \* qty and drop_pct of each rung
  StopLoss,     \* LADDER_STOP_PCT
  TrailPct,     \* trailing_stop_pct
  DailyLoss, MaxDrawdown, MaxPerSymbol, MaxHeat, RiskPerTrade, AssumedStop,
  Fast, Slow, VolWindow,   \* windows of classify_regime
  Recent,       \* the bars get_bars is asked for to judge the intents of a bar
  MinSamples,   \* min_samples of policy and gate
  ReturnScale   \* a multiple of every price, so that returns are integers

Kinds == {"window", "series", "train"}

\* A run: run_backtest over a window, or run_continuous, over the bars lo..hi
\* of the series.
RunType == [kind: Kinds, strategy: {"trailing_stop", "ladder_buys"}, risk: BOOLEAN,
            stop: BOOLEAN, learn: BOOLEAN, gated: BOOLEAN, lo: Nat \ {0}, hi: Nat]

ASSUME BacktestAssumption ==
  /\ \A s \in AllSeries : Len(s.open) = Len(s.close)
  /\ \A s \in AllSeries : s.open \in Seq(Nat \ {0}) /\ s.close \in Seq(Nat \ {0})
  /\ \A p \in Plans : p \in Seq(RunType)
  /\ \A p \in Plans, s \in AllSeries : \A r \in Range(p) : r.hi <= Len(s.close)
  \* The trailing stop is driven by run_backtest alone, which has no decision layer.
  /\ \A p \in Plans : \A r \in Range(p) : r.strategy = "trailing_stop" => r.kind = "window" /\ ~r.learn
  /\ Cash \in Nat \ {0} /\ Scale \in Nat \ {0} /\ Slip \in 0..Scale /\ Comm \in 0..Scale
  /\ Warmup \in Nat /\ Needed \in [Kinds -> Nat \ {0}]
  /\ Qty \in Seq(Nat \ {0}) /\ Drop \in Seq(0..100) /\ Len(Qty) = Len(Drop)
  /\ StopLoss \in 0..100 /\ TrailPct \in 0..100
  /\ DailyLoss \in 0..100 /\ MaxDrawdown \in 0..100 /\ MaxPerSymbol \in Nat
  /\ MaxHeat \in Nat /\ RiskPerTrade \in Nat /\ AssumedStop \in 1..100
  /\ Fast \in Nat \ {0} /\ Slow \in Nat \ {0} /\ VolWindow \in Nat \ {0}
  /\ Recent \in Nat \ {0}
  /\ MinSamples \in Nat \ {0} /\ ReturnScale \in Nat \ {0}

VARIABLES
  series,
  runs,       \* runs still to do, the current one at the head
  pc,         \* "start", "open", "enter", "protect", "evaluate", "risk",
              \* "judge", "submit", "mark" or "finish"
  bar,
  \* SimBroker
  cash,
  qty,
  basis,      \* _avg times _qty
  pending,    \* market orders for the next open
  trail,      \* the native trailing stop: high water and quantity; qty 0 if none
  \* the memory of the strategy: anchor (0 if none) and rungs marked filled
  anchor, rungs,
  \* the circuit breaker
  peak, halted,
  \* intents on their way through a cycle
  todo, passed,
  \* the table decisions of the experiment, and the combos of the frozen gate
  decisions, vetoed,
  \* history
  realized,   \* trade_pnls, summed
  fees        \* commissions of the buys

brokerVars  == <<cash, qty, basis, pending, trail>>
ladderVars  == <<anchor, rungs>>
guardVars   == <<peak, halted>>
cycleVars   == <<todo, passed>>
logVars     == <<decisions, vetoed>>
bookVars    == <<realized, fees>>
vars == <<series, runs, pc, bar, brokerVars, ladderVars, guardVars, cycleVars,
          logVars, bookVars>>

Run == Head(runs)
Close(b) == series.close[b]
NoTrail == [high |-> 0, qty |-> 0]

(* What get_account, get_position and mark_equity make of the close.       *)
Equity == cash + qty * Close(bar) * Scale * Scale

FreshBroker ==
  /\ cash' = Cash * Scale * Scale /\ qty' = 0 /\ basis' = 0
  /\ pending' = <<>> /\ trail' = NoTrail
  /\ realized' = 0 /\ fees' = 0

Init ==
  /\ series \in AllSeries /\ runs \in Plans
  /\ pc = "start" /\ bar = 1
  /\ cash = Cash * Scale * Scale /\ qty = 0 /\ basis = 0
  /\ pending = <<>> /\ trail = NoTrail
  /\ anchor = 0 /\ rungs = {}
  /\ peak = Cash * Scale * Scale /\ halted = FALSE
  /\ todo = <<>> /\ passed = <<>>
  /\ decisions = <<>> /\ vetoed = {}
  /\ realized = 0 /\ fees = 0

-----------------------------------------------------------------------------
(* classify_regime, over exact fractions: n * n times the variance of a    *)
(* window of returns is an integer.                                        *)

SumOf(f) == FoldFunction(+, 0, f)
LastOf(k, s) == SubSeq(s, Len(s) - k + 1, Len(s))
Returns(c) == [k \in 1..(Len(c) - 1) |-> ((c[k + 1] - c[k]) * ReturnScale) \div c[k]]
Spread(s) == Len(s) * SumOf([k \in DOMAIN s |-> s[k] * s[k]]) - SumOf(s) * SumOf(s)

\* high_vol_ratio is 1.6, trend_threshold 0.005.
HighVol(rets) ==
  LET recent == LastOf(VolWindow, rets) IN
  /\ Spread(rets) > 0
  /\ 25 * Spread(recent) * Len(rets) * Len(rets)
       > 64 * Spread(rets) * VolWindow * VolWindow
Trend(c, sign) ==
  LET ref == c[Len(c) - Slow + 1] IN
  /\ sign * (SumOf(LastOf(Fast, c)) * Slow - SumOf(LastOf(Slow, c)) * Fast) > 0
  /\ sign * 1000 * (c[Len(c)] - ref) > 5 * ref

Regime(c) ==
  CASE Len(c) < Slow + 1 \/ Len(c) < VolWindow + 2 -> "unknown"
    [] OTHER -> CASE HighVol(Returns(c)) -> "high_vol"
                  [] OTHER -> CASE Trend(c, 1) -> "trend_up"
                                [] Trend(c, -1) -> "trend_down"
                                [] OTHER -> "range"

Bars(lo, hi) == SubSeq(series.close, lo, hi)

\* The last bars of the run, not more than asked for: get_bars.
RecentBars == Bars(IF bar + 1 - Recent > Run.lo THEN bar + 1 - Recent ELSE Run.lo, bar)

-----------------------------------------------------------------------------
(* The decision log of an experiment.                                      *)

Closed == {k \in DOMAIN decisions : decisions[k].status = "closed"}
ClosedIn(regime) == {k \in Closed : decisions[k].regime = regime}
Pnl(S) == SumOf([k \in S |-> decisions[k].pnl])

(* The combo of the ladder in a regime has enough trades and loses money.  *)
Loses(regime) ==
  Cardinality(ClosedIn(regime)) >= MinSamples /\ Pnl(ClosedIn(regime)) < 0

Decision(order, allowed) ==
  [side |-> order.side, regime |-> Regime(RecentBars),
   status |-> IF allowed THEN "open" ELSE "skipped",
   ref |-> Close(bar), entry |-> 0, pnl |-> 0, last |-> bar = Run.hi,
   run |-> Len(runs), soldIn |-> 0]

(* FeedbackAgent: a buy gives its decision the price of the fill, a sale   *)
(* closes every open buy of the symbol.                                    *)
Bought(log, id, price) ==
  [k \in DOMAIN log |-> IF k = id /\ log[k].status = "open"
                        THEN [log[k] EXCEPT !.entry = price] ELSE log[k]]
Sold(log, n, price) ==
  [k \in DOMAIN log |->
     IF log[k].status # "open" \/ log[k].side # "buy" THEN log[k]
     ELSE LET entry == IF log[k].entry # 0 THEN log[k].entry ELSE log[k].ref * Scale IN
          [log[k] EXCEPT !.status = "closed", !.soldIn = Len(runs),
                         !.pnl = (price - entry) * n]]

-----------------------------------------------------------------------------
(* Fills.                                                                  *)

BuyPrice(p)  == p * (Scale + Slip)
SellPrice(p) == p * (Scale - Slip)

FillBuy(p, n) ==
  LET cost == BuyPrice(p) * n IN
  /\ cash' = cash - cost * (Scale + Comm)
  /\ fees' = fees + cost * Comm
  /\ basis' = basis + cost * Scale
  /\ qty' = qty + n
  /\ UNCHANGED <<trail, realized>>

\* Share of the basis in n of the shares held.
CostOf(n) == IF n = qty THEN basis ELSE (basis * n) \div qty

\* Mutant: the trade is booked before its commission.
FillSellGross(p, n) ==
  LET proceeds == SellPrice(p) * n IN
  /\ cash' = cash + proceeds * (Scale - Comm)
  /\ realized' = realized + proceeds * Scale - CostOf(n)
  /\ qty' = IF n < qty THEN qty - n ELSE 0
  /\ basis' = IF n < qty THEN basis - CostOf(n) ELSE 0
  /\ trail' = IF n < qty THEN trail ELSE NoTrail
  /\ UNCHANGED fees
FillSell(p, n) ==
  LET proceeds == SellPrice(p) * n IN
  /\ cash' = cash + proceeds * (Scale - Comm)
  /\ realized' = realized + proceeds * (Scale - Comm) - CostOf(n)
  /\ qty' = IF n < qty THEN qty - n ELSE 0
  /\ basis' = IF n < qty THEN basis - CostOf(n) ELSE 0
  /\ trail' = IF n < qty THEN trail ELSE NoTrail
  /\ UNCHANGED fees

-----------------------------------------------------------------------------
(* The runs of an experiment.                                              *)

(* A run starts with an account, a strategy and a circuit breaker of its   *)
(* own.                                                                    *)
LongEnough == Run.hi - Run.lo + 1 >= Warmup + Needed[Run.kind]
Allowed == Run.gated => <<Run.strategy, Regime(Bars(Run.lo, Run.hi))>> \notin vetoed

StartRun ==
  /\ pc = "start" /\ runs # <<>>
  /\ LongEnough /\ Allowed
  /\ pc' = "open" /\ bar' = Run.lo
  /\ FreshBroker
  /\ anchor' = 0 /\ rungs' = {}
  /\ peak' = Cash * Scale * Scale /\ halted' = FALSE
  /\ UNCHANGED <<series, runs, cycleVars, logVars>>

(* Too short a series is left out; a vetoed window stays flat.             *)
SkipRun ==
  /\ pc = "start" /\ runs # <<>>
  /\ ~(LongEnough /\ Allowed)
  /\ runs' = Tail(runs)
  /\ UNCHANGED <<series, pc, bar, brokerVars, ladderVars, guardVars, cycleVars,
                 logVars, bookVars>>

-----------------------------------------------------------------------------
(* A bar.                                                                  *)

(* fill_pending_at_open, one order at a time, and feedback.step on its     *)
(* fill.                                                                   *)
FillOrder ==
  LET order == Head(pending)
      p     == series.open[bar] IN
  /\ pc = "open" /\ pending # <<>>
  /\ pending' = Tail(pending)
  /\ \/ /\ order.side = "buy"
        /\ FillBuy(p, order.qty)
        /\ decisions' = IF Run.learn THEN Bought(decisions, order.id, BuyPrice(p))
                        ELSE decisions
     \/ /\ order.side = "sell"
        /\ FillSell(p, order.qty)
        /\ decisions' = IF Run.learn THEN Sold(decisions, order.qty, SellPrice(p))
                        ELSE decisions
  /\ UNCHANGED <<series, runs, pc, bar, ladderVars, guardVars, cycleVars, vetoed>>

Warming == bar - Run.lo < Warmup
Trailing == Run.strategy = "trailing_stop"

Opened ==
  /\ pc = "open" /\ pending = <<>>
  /\ pc' = CASE Warming -> "mark" [] ~Warming /\ Trailing -> "enter"
              [] OTHER -> "evaluate"
  /\ UNCHANGED <<series, runs, bar, brokerVars, ladderVars, guardVars, cycleVars,
                 logVars, bookVars>>

\* to_integral_value rounds half to even.
RoundHalfEven(n, d) ==
  LET down == n \div d IN
  IF 2 * (n % d) > d \/ (2 * (n % d) = d /\ down % 2 = 1) THEN down + 1 ELSE down

(* The position to protect: half of the cash, at the close of the bar      *)
(* after the warm-up.                                                      *)
Enter ==
  LET n == RoundHalfEven(Cash, 2 * Close(bar)) IN
  /\ pc = "enter"
  /\ \/ bar - Run.lo = Warmup /\ n > 0 /\ FillBuy(Close(bar), n)
     \/ ~(bar - Run.lo = Warmup /\ n > 0)
          /\ UNCHANGED <<cash, qty, basis, trail, realized, fees>>
  /\ pc' = "protect"
  /\ UNCHANGED <<series, runs, bar, pending, ladderVars, guardVars, cycleVars, logVars>>

\* Mutant: the high water is the first close.
ProtectFixed ==
  /\ pc = "protect"
  /\ IF trail.qty # 0 /\ qty > 0 /\ 100 * Close(bar) <= trail.high * (100 - TrailPct)
     THEN /\ pending' = Append(pending, [side |-> "sell", qty |-> qty, id |-> 0])
          /\ trail' = NoTrail
     ELSE UNCHANGED <<pending, trail>>
  /\ pc' = "evaluate"
  /\ UNCHANGED <<series, runs, bar, cash, qty, basis, ladderVars, guardVars,
                 cycleVars, logVars, bookVars>>
(* update_trailing_and_maybe_trigger.                                      *)
Protect ==
  LET high == IF Close(bar) > trail.high THEN Close(bar) ELSE trail.high
      hit  == 100 * Close(bar) <= high * (100 - TrailPct) IN
  /\ pc = "protect"
  /\ \/ (trail.qty = 0 \/ qty = 0) /\ UNCHANGED <<pending, trail>>
     \/ /\ trail.qty # 0 /\ qty > 0 /\ ~hit
        /\ trail' = [trail EXCEPT !.high = high] /\ UNCHANGED pending
     \/ /\ trail.qty # 0 /\ qty > 0 /\ hit
        /\ pending' = Append(pending, [side |-> "sell", qty |-> qty, id |-> 0])
        /\ trail' = NoTrail
  /\ pc' = "evaluate"
  /\ UNCHANGED <<series, runs, bar, cash, qty, basis, ladderVars, guardVars,
                 cycleVars, logVars, bookVars>>

-----------------------------------------------------------------------------
(* The strategies.                                                         *)

(* begin_cycle of the circuit breaker, which starts from Cash: the limit   *)
(* on the loss of a day is one on the loss of the run.                     *)
BeginCycle ==
  /\ peak' = IF Equity > peak THEN Equity ELSE peak
  /\ halted' = \/ halted
               \/ 100 * Equity <= (100 - DailyLoss) * Cash * Scale * Scale
               \/ 100 * Equity <= (100 - MaxDrawdown) * peak'

Judged == IF Run.learn THEN "judge" ELSE "submit"

Route(intents) ==
  /\ todo' = intents
  /\ \/ intents = <<>> /\ pc' = "mark" /\ UNCHANGED guardVars
     \/ intents # <<>> /\ ~Run.risk /\ pc' = Judged /\ UNCHANGED guardVars
     \/ intents # <<>> /\ Run.risk /\ pc' = "risk" /\ BeginCycle

(* TrailingStopStrategy: a long without a trailing order gets one.         *)
EvaluateTrailing ==
  /\ pc = "evaluate" /\ Trailing
  /\ Route(IF qty > 0 /\ trail.qty = 0
           THEN <<[side |-> "trail", qty |-> qty, id |-> 0]>> ELSE <<>>)
  /\ UNCHANGED <<series, runs, bar, brokerVars, ladderVars, passed, logVars, bookVars>>

Below(p, a, pct) == 100 * p <= a * (100 - pct)
Anchor == IF anchor # 0 THEN anchor ELSE Close(bar)
Broken == Run.stop /\ qty > 0 /\ Below(Close(bar), Anchor, StopLoss)
Reached == {k \in DOMAIN Drop : k \notin rungs /\ Below(Close(bar), Anchor, Drop[k])}
Sale == <<[side |-> "sell", qty |-> qty, id |-> 0]>>

\* The rungs of S in the order of the configuration, and the orders for them.
InOrder(S) ==
  {f \in [1..Cardinality(S) -> S] : \A m, n \in DOMAIN f : m < n => f[m] < f[n]}
RungOrders(f) == [n \in DOMAIN f |-> [side |-> "buy", qty |-> Qty[f[n]], id |-> 0]]

\* Mutant: the invalidation stop does not end the visit.
EvaluateBrokenBuys ==
  /\ pc = "evaluate" /\ ~Trailing
  /\ Broken
  /\ \E f \in InOrder(Reached) : Route(Sale \o RungOrders(f))
  /\ anchor' = 0 /\ rungs' = {}
  /\ UNCHANGED <<series, runs, bar, brokerVars, passed, logVars, bookVars>>
(* LadderBuysStrategy: the invalidation stop re-arms the ladder and asks   *)
(* for everything held.                                                    *)
EvaluateBroken ==
  /\ pc = "evaluate" /\ ~Trailing
  /\ Broken
  /\ Route(Sale)
  /\ anchor' = 0 /\ rungs' = {}
  /\ UNCHANGED <<series, runs, bar, brokerVars, passed, logVars, bookVars>>

EvaluateRungs ==
  /\ pc = "evaluate" /\ ~Trailing
  /\ ~Broken
  /\ \E f \in InOrder(Reached) : Route(RungOrders(f))
  /\ anchor' = Anchor /\ rungs' = rungs \union Reached
  /\ UNCHANGED <<series, runs, bar, brokerVars, passed, logVars, bookVars>>

-----------------------------------------------------------------------------
(* The gates, one intent at a time, each over the close of the bar.        *)

Price == Close(bar) * Scale * Scale
MaxAdd ==
  LET most == (Equity * MaxPerSymbol) \div (100 * Price) IN
  IF most > qty THEN most - qty ELSE 0
QtyRisk == (Equity * RiskPerTrade) \div (Price * AssumedStop)
Smaller(a, b) == IF a <= b THEN a ELSE b
Sized(n) ==
  LET capped == Smaller(n, MaxAdd) IN
  IF QtyRisk > 0 THEN Smaller(capped, QtyRisk) ELSE capped

(* RiskManager.assess for a buy: exposure and heat are those of the one    *)
(* symbol.                                                                 *)
BuyPasses(n) ==
  /\ ~halted /\ Equity > 0 /\ MaxAdd > 0
  /\ 100 * (qty + Sized(n)) * Price <= MaxPerSymbol * Equity
  /\ (qty + Sized(n)) * Price * AssumedStop <= MaxHeat * Equity

\* Mutant: the intent that was assessed is routed, not the reduced one.
AssessKeepsQty ==
  LET it == Head(todo) IN
  /\ pc = "risk" /\ todo # <<>>
  /\ todo' = Tail(todo)
  /\ passed' = IF it.side # "buy" \/ BuyPasses(it.qty) THEN Append(passed, it) ELSE passed
  /\ UNCHANGED <<series, runs, pc, bar, brokerVars, ladderVars, guardVars, logVars, bookVars>>
(* _route_risk and _apply_risk.                                            *)
Assess ==
  LET it == Head(todo) IN
  /\ pc = "risk" /\ todo # <<>>
  /\ todo' = Tail(todo)
  /\ \/ it.side # "buy" /\ passed' = Append(passed, it)
     \/ /\ it.side = "buy" /\ BuyPasses(it.qty)
        /\ passed' = Append(passed, [it EXCEPT !.qty = Sized(it.qty)])
     \/ it.side = "buy" /\ ~BuyPasses(it.qty) /\ UNCHANGED passed
  /\ UNCHANGED <<series, runs, pc, bar, brokerVars, ladderVars, guardVars, logVars, bookVars>>

Assessed ==
  /\ pc = "risk" /\ todo = <<>>
  /\ todo' = passed /\ passed' = <<>>
  /\ pc' = Judged
  /\ UNCHANGED <<series, runs, bar, brokerVars, ladderVars, guardVars, logVars, bookVars>>

(* DecisionIntelligence.process: one intent is recorded, and passed on     *)
(* unless its combo loses.  Rows added meanwhile are no trades.            *)
Judge ==
  LET it      == Head(todo)
      allowed == ~Loses(Regime(RecentBars)) IN
  /\ pc = "judge" /\ todo # <<>>
  /\ todo' = Tail(todo)
  /\ decisions' = Append(decisions, Decision(it, allowed))
  /\ passed' = IF allowed THEN Append(passed, [it EXCEPT !.id = Len(decisions) + 1])
               ELSE passed
  /\ UNCHANGED <<series, runs, pc, bar, brokerVars, ladderVars, guardVars, vetoed, bookVars>>

JudgedAll ==
  /\ pc = "judge" /\ todo = <<>>
  /\ todo' = passed /\ passed' = <<>>
  /\ pc' = "submit"
  /\ UNCHANGED <<series, runs, bar, brokerVars, ladderVars, guardVars, logVars, bookVars>>

(* submit_order: a trailing stop is the broker's own, anything else waits  *)
(* for the next open.                                                      *)
Submit ==
  LET it == Head(todo) IN
  /\ pc = "submit" /\ todo # <<>>
  /\ todo' = Tail(todo)
  /\ \/ it.side = "trail" /\ UNCHANGED pending
          /\ trail' = [high |-> Close(bar), qty |-> it.qty]
     \/ it.side # "trail" /\ pending' = Append(pending, it) /\ UNCHANGED trail
  /\ UNCHANGED <<series, runs, pc, bar, cash, qty, basis, ladderVars, guardVars, passed,
                 logVars, bookVars>>

Submitted ==
  /\ pc = "submit" /\ todo = <<>>
  /\ pc' = "mark"
  /\ UNCHANGED <<series, runs, bar, brokerVars, ladderVars, guardVars, cycleVars,
                 logVars, bookVars>>

Mark ==
  /\ pc = "mark"
  /\ \/ bar < Run.hi /\ bar' = bar + 1 /\ pc' = "open"
     \/ bar = Run.hi /\ pc' = "finish" /\ UNCHANGED bar
  /\ UNCHANGED <<series, runs, brokerVars, ladderVars, guardVars, cycleVars,
                 logVars, bookVars>>

-----------------------------------------------------------------------------
(* The end of a run.                                                       *)

(* FrozenRegimeGate.from_decision_log, after the training run.             *)
Vetoed(log) ==
  LET trades(r) == {k \in DOMAIN log : log[k].status = "closed" /\ log[k].regime = r}
      regimes   == {log[k].regime : k \in DOMAIN log} IN
  {<<"ladder_buys", r>> : r \in {r \in regimes :
     /\ Cardinality(trades(r)) >= MinSamples
     /\ SumOf([k \in trades(r) |-> log[k].pnl]) < 0}}

\* Mutant: the liquidation is not reported to the feedback agent.
FinishUnreported ==
  /\ pc = "finish"
  /\ IF qty > 0 THEN FillSell(Close(bar), qty)
     ELSE UNCHANGED <<cash, qty, basis, trail, realized, fees>>
  /\ vetoed' = IF Run.kind = "train" THEN Vetoed(decisions) ELSE vetoed
  /\ runs' = Tail(runs) /\ pc' = "start"
  /\ UNCHANGED <<series, bar, pending, ladderVars, guardVars, cycleVars, decisions>>
(* liquidate_final at the last close; what is pending is never filled.     *)
Finish ==
  /\ pc = "finish"
  /\ \/ /\ qty > 0
        /\ FillSell(Close(bar), qty)
        /\ decisions' = IF Run.learn THEN Sold(decisions, qty, SellPrice(Close(bar)))
                        ELSE decisions
     \/ qty = 0 /\ UNCHANGED <<cash, qty, basis, trail, realized, fees, decisions>>
  /\ vetoed' = IF Run.kind = "train" THEN Vetoed(decisions') ELSE vetoed
  /\ runs' = Tail(runs) /\ pc' = "start"
  /\ UNCHANGED <<series, bar, pending, ladderVars, guardVars, cycleVars>>

Next ==
  \/ StartRun \/ SkipRun
  \/ FillOrder \/ Opened \/ Enter \/ Protect
  \/ EvaluateTrailing \/ EvaluateBroken \/ EvaluateRungs
  \/ Assess \/ Assessed \/ Judge \/ JudgedAll
  \/ Submit \/ Submitted \/ Mark \/ Finish

Spec == Init /\ [][Next]_vars

-----------------------------------------------------------------------------
(* Properties.                                                             *)

Sides == {"buy", "sell", "trail"}
OrderType == [side: Sides, qty: Nat \ {0}, id: Nat]
DecisionType ==
  [side: Sides, regime: {"unknown", "high_vol", "trend_up", "trend_down", "range"},
   status: {"open", "skipped", "closed"}, ref: Nat \ {0}, entry: Nat, pnl: Int,
   last: BOOLEAN, run: Nat, soldIn: Nat]

\* Every variable keeps its type; intents and pending orders ask for at least
\* a share, and the position of the backtest is never negative.
TypeOK ==
  /\ runs \in Seq(RunType)
  /\ pc \in {"start", "open", "enter", "protect", "evaluate", "risk", "judge",
             "submit", "mark", "finish"}
  /\ bar \in Nat /\ cash \in Int /\ qty \in Nat /\ basis \in Nat
  /\ pending \in Seq(OrderType) /\ trail \in [high: Nat, qty: Nat]
  /\ anchor \in Nat /\ rungs \subseteq DOMAIN Drop
  /\ peak \in Int /\ halted \in BOOLEAN
  /\ todo \in Seq(OrderType) /\ passed \in Seq(OrderType)
  /\ decisions \in Seq(DecisionType)
  /\ realized \in Int /\ fees \in Nat

\* The account is explained by its trades: cash and the cost of what is held
\* are the starting cash, plus the trades realized, less the commissions of
\* the buys, which trade_pnls leave out (sim_broker.py, _fill_buy and
\* _fill_sell).
BooksBalance == cash + basis = Cash * Scale * Scale + realized - fees

\* No sale is for more or less than the position it finds at the next open:
\* a pending sale is the whole position and the only pending order, whatever
\* stops and rungs the same bar reached, so a fill cannot go short
\* (sim_broker.py:185-189 would hide it).
SalesAreWhole ==
  pc # "start" => \A k \in DOMAIN pending : pending[k].side = "sell" =>
    pending[k].qty = qty /\ Len(pending) = 1

\* With the risk layer no run ever owes cash ("sem caixa negativo",
\* experiment.py:7-8), over the rungs of a bar, re-armed ladders, stops and
\* the fills a gap makes dearer than the close they were sized at.
RiskKeepsCash == pc # "start" /\ Run.risk => cash >= 0

\* A trade that counts in a combo's record was bought and sold by the same
\* run; the exception are buys of its last bar, which never fill and are
\* closed by the next sale (feedback_agent.py, _close_open_longs).
EvidenceFromFills ==
  \A k \in Closed :
    decisions[k].last \/ (decisions[k].entry # 0 /\ decisions[k].soldIn = decisions[k].run)

Entry == Run.lo + Warmup
HighWater(b) == Max({Close(j) : j \in Entry..b})
Breached(b) == Below(Close(b), HighWater(b), TrailPct)

\* No close after the entry and up to a bar is trail% under the highest since.
Unbreached(b) == \A j \in (Entry + 1)..b : ~Breached(j)
Affordable == RoundHalfEven(Cash, 2 * Close(Entry)) > 0

\* What a window run of the trailing stop holds, by the closes up to the bar:
\* if half of the cash buys a share, it is long from the first bar after the
\* warm-up to the open after the first close trail% under the highest close
\* since, which is where the stop stands meanwhile.  A definition over the bars
\* seen, so it also says that the run does not look ahead.
TrailingByDefinition ==
  pc = "mark" /\ Trailing /\ bar >= Entry =>
    /\ qty > 0 <=> Affordable /\ Unbreached(bar - 1)
    /\ Affordable /\ Unbreached(bar) => trail.high = HighWater(bar)

\* What a ladder without risk layer, decisions and stop holds: the rungs some
\* earlier close has reached, and no others.
LadderByDefinition ==
  pc = "mark" /\ ~Trailing /\ ~Run.risk /\ ~Run.learn /\ ~Run.stop /\ bar >= Entry =>
    qty = SumOf([k \in {k \in DOMAIN Drop : \E j \in Entry..(bar - 1) :
                         Below(Close(j), Close(Entry), Drop[k])} |-> Qty[k]])

\* The position of a run is the one its strategy defines over the bars seen so
\* far, filled a bar late: no decision uses a later bar (sim_broker.py:1-8).
PositionByDefinition == TrailingByDefinition /\ LadderByDefinition
=============================================================================
