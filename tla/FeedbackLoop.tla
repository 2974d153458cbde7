---------------------------- MODULE FeedbackLoop ----------------------------
(***************************************************************************)
(* The pipeline of a cycle over the bus, and the loop it closes: every     *)
(* intent is recorded as a decision, the record of closed decisions of a   *)
(* strategy in a regime vetoes further ones, fills give decisions their    *)
(* entry price and their outcome.                                          *)
(*                                                                         *)
(* Sources: orchestration/bus.py, orchestration/bus_orchestrator.py,       *)
(* agents/base.py, agents/bus_agents.py, agents/feedback_agent.py,         *)
(* intelligence/engine.py, intelligence/decision_policy.py,                *)
(* feedback/decision_log.py, feedback/evaluation.py.                       *)
(*                                                                         *)
(* A buy is one lot; a sale asks for what is held when it is planned.      *)
(* What the executor does with an order is OrderLifecycle's subject: here  *)
(* it is filled at once, accepted and filled later, or not placed.         *)
(***************************************************************************)
EXTENDS Integers, Sequences, FiniteSets, FiniteSetsExt, Functions, SequencesExt

CONSTANTS
  Ids,           \* the intents of the run, by client_order_id
  Order,         \* strategy, symbol and side of each
  Symbols,
  Views,         \* what the bars of a symbol may show: a regime and a price
  Prices,
  None,          \* no value
  MinSamples,    \* min_samples of the policy; block_if_expectancy_below is 0
  MaxBatch,      \* bound: intents of a cycle
  MaxFaults      \* bound: exceptions and crashes

Strategies == {Order[i].strategy : i \in Ids}
Regimes == {v.regime : v \in Views}
Combos == Strategies \X Regimes

ASSUME FeedbackAssumption ==
  /\ \A i \in Ids : Order[i].symbol \in Symbols /\ Order[i].side \in {"buy", "sell"}
  /\ Prices \subseteq Nat \ {0}
  /\ \A v \in Views : v.price \in Prices \union {None}
  /\ None \notin Prices \union Ids
  /\ IsFiniteSet(Ids) /\ MinSamples \in Nat \ {0}
  /\ MaxBatch \in Nat /\ MaxFaults \in Nat

VARIABLES
  rows,      \* the table decisions
  \* the broker
  filled,    \* price an order was executed at, or None
  qty,       \* lots an order asks for
  pending,   \* orders accepted and not executed
  \* the process
  bus,       \* the topics market_data, intents, approved and fills
  pc,        \* "idle", "plan", "decide", "record", "execute", "orders",
             \* "feedback", "close" or "down"
  view,      \* the snapshot the decisions of this cycle use
  vetoed,    \* combos vetoed by the evaluation of this cycle
  todo,      \* intents still to record, or still to execute
  passed,    \* intents allowed, or orders filled at their submission
  closing,   \* open buys the sale in hand has still to close
  \* history, also the bounds
  planned,   \* intents ever planned
  batch,     \* intents planned by the current cycle
  seen,      \* what the ingestion of the current cycle saw
  told,      \* buys whose fill was written to their open decision
  faults

brokerVars  == <<filled, qty, pending>>
cycleVars   == <<view, vetoed, todo, passed, closing>>
historyVars == <<planned, batch, seen, told, faults>>
vars == <<rows, brokerVars, bus, pc, cycleVars, historyVars>>

Closed == {"win", "loss", "breakeven"}
Status == {"none", "open", "skipped"} \union Closed
NoRow  == [status |-> "none", regime |-> None, ref |-> None, entry |-> None, pnl |-> 0]
NoBus  == [market |-> <<>>, intents |-> {}, approved |-> {}, fills |-> <<>>]

IsBuy(i) == Order[i].side = "buy"
Combo(i) == <<Order[i].strategy, rows[i].regime>>

(* Lots held at the broker.                                                *)
Executed(s, side) ==
  {i \in Ids : Order[i].symbol = s /\ Order[i].side = side /\ filled[i] # None}
SumOver(f, S) == FoldFunctionOnSet(+, 0, f, S)
Held(s) == SumOver(qty, Executed(s, "buy")) - SumOver(qty, Executed(s, "sell"))

Init ==
  /\ rows = [i \in Ids |-> NoRow]
  /\ filled = [i \in Ids |-> None] /\ qty = [i \in Ids |-> 0] /\ pending = {}
  /\ bus = NoBus /\ pc = "idle"
  /\ view = None /\ vetoed = {} /\ todo = {} /\ passed = <<>> /\ closing = {}
  /\ planned = {} /\ batch = {} /\ seen = None /\ told = {} /\ faults = 0

NoCycle ==
  view' = None /\ vetoed' = {} /\ todo' = {} /\ passed' = <<>> /\ closing' = {}

Fault == faults < MaxFaults /\ faults' = faults + 1

-----------------------------------------------------------------------------
(* Ingestion and planner.                                                  *)

Ingest(v) ==
  /\ pc = "idle" /\ planned # Ids
  /\ pc' = "plan"
  /\ bus' = [bus EXCEPT !.market = Append(@, v)]
  /\ seen' = v /\ batch' = {}
  /\ UNCHANGED <<rows, brokerVars, cycleVars, planned, told, faults>>

(* Strategies sell what is held, once per symbol and cycle.                *)
Plan(S) ==
  /\ pc = "plan"
  /\ \A i \in S : ~IsBuy(i) => Held(Order[i].symbol) \in Nat \ {0}
  /\ \A i, j \in S : ~IsBuy(i) /\ Order[j].symbol = Order[i].symbol /\ ~IsBuy(j) => i = j
  /\ pc' = "decide"
  /\ bus' = [bus EXCEPT !.intents = @ \union S]
  /\ qty' = [i \in Ids |-> IF i \notin S THEN qty[i]
                           ELSE IF IsBuy(i) THEN 1 ELSE Held(Order[i].symbol)]
  /\ planned' = planned \union S /\ batch' = S
  /\ UNCHANGED <<rows, filled, pending, cycleVars, seen, told, faults>>

\* Mutant: intents are published strategy by strategy, before an exception.
PlanRaisesLate ==
  /\ pc = "plan"
  /\ Fault
  /\ pc' = "idle"
  /\ \E i \in Ids \ planned :
       /\ IsBuy(i)
       /\ bus' = [bus EXCEPT !.intents = @ \union {i}]
       /\ planned' = planned \union {i}
       /\ qty' = [qty EXCEPT ![i] = 1]
  /\ UNCHANGED <<rows, filled, pending, cycleVars, batch, seen, told>>

(* An exception leaves the bars on the bus: nothing was published yet.     *)
PlanRaises ==
  /\ pc = "plan"
  /\ Fault
  /\ pc' = "idle"
  /\ UNCHANGED <<rows, brokerVars, bus, cycleVars, planned, batch, seen, told>>

-----------------------------------------------------------------------------
(* The decision layer.                                                     *)

ClosedRows(c) == {i \in Ids : rows[i].status \in Closed /\ Combo(i) = c}
Pnl(S) == SumOver([i \in Ids |-> rows[i].pnl], S)

\* Mutant: the record of a strategy is not told apart by regime.
VetoedAnyRegime(c) ==
  LET R == UNION {ClosedRows(d) : d \in {d \in Combos : d[1] = c[1]}} IN
  Cardinality(R) >= MinSamples /\ Pnl(R) < 0

(* evaluate and evaluate_combo: enough closed trades, and a loss on        *)
(* average.                                                                *)
Vetoed(c) == Cardinality(ClosedRows(c)) >= MinSamples /\ Pnl(ClosedRows(c)) < 0

\* Mutant: the oldest snapshot is used.
EvaluateOldest ==
  /\ pc = "decide"
  /\ bus' = [bus EXCEPT !.intents = {}, !.market = <<>>]
  /\ todo' = bus.intents
  /\ view' = Head(bus.market)
  /\ vetoed' = {c \in Combos : Vetoed(c)}
  /\ pc' = IF todo' = {} THEN "execute" ELSE "record"
  /\ UNCHANGED <<rows, brokerVars, passed, closing, historyVars>>
(* The topics are drained, the newest snapshot is kept, the record is      *)
(* evaluated once for the cycle.                                           *)
Evaluate ==
  /\ pc = "decide"
  /\ bus' = [bus EXCEPT !.intents = {}, !.market = <<>>]
  /\ todo' = bus.intents
  /\ view' = Last(bus.market)
  /\ vetoed' = {c \in Combos : Vetoed(c)}
  /\ pc' = IF todo' = {} THEN "execute" ELSE "record"
  /\ UNCHANGED <<rows, brokerVars, passed, closing, historyVars>>

Allowed(i) == <<Order[i].strategy, view[Order[i].symbol].regime>> \notin vetoed

\* Mutant: a vetoed intent is recorded like a trade.
RecordOpen(i) ==
  LET v == view[Order[i].symbol] IN
  /\ pc = "record" /\ i \in todo
  /\ todo' = todo \ {i}
  /\ rows' = [rows EXCEPT ![i] =
       [NoRow EXCEPT !.status = "open", !.regime = v.regime, !.ref = v.price]]
  /\ passed' = IF Allowed(i) THEN Append(passed, i) ELSE passed
  /\ UNCHANGED <<brokerVars, bus, pc, view, vetoed, closing, historyVars>>

(* One decision is recorded, as skipped when it is vetoed.                 *)
Record(i) ==
  LET v == view[Order[i].symbol] IN
  /\ pc = "record" /\ i \in todo
  /\ todo' = todo \ {i}
  /\ rows' = [rows EXCEPT ![i] =
       [NoRow EXCEPT !.status = IF Allowed(i) THEN "open" ELSE "skipped",
                     !.regime = v.regime, !.ref = v.price]]
  /\ passed' = IF Allowed(i) THEN Append(passed, i) ELSE passed
  /\ UNCHANGED <<brokerVars, bus, pc, view, vetoed, closing, historyVars>>

(* The rows recorded before the exception stay open.                       *)
RecordRaises ==
  /\ pc = "record" /\ todo # {}
  /\ Fault
  /\ pc' = "idle" /\ NoCycle
  /\ UNCHANGED <<rows, brokerVars, bus, planned, batch, seen, told>>

Approve ==
  /\ pc = "record" /\ todo = {}
  /\ bus' = [bus EXCEPT !.approved = @ \union Range(passed)]
  /\ pc' = "execute" /\ passed' = <<>>
  /\ UNCHANGED <<rows, brokerVars, view, vetoed, todo, closing, historyVars>>

-----------------------------------------------------------------------------
(* The executor.                                                           *)

Take ==
  /\ pc = "execute"
  /\ bus' = [bus EXCEPT !.approved = {}]
  /\ todo' = bus.approved
  /\ pc' = "orders"
  /\ UNCHANGED <<rows, brokerVars, view, vetoed, passed, closing, historyVars>>

CanFill(i) == IsBuy(i) \/ qty[i] <= Held(Order[i].symbol)

Fill(i, p) == filled' = [filled EXCEPT ![i] = p]

(* Filled at submission: the result carries quantity and price.            *)
ExecuteFilled(i, p) ==
  /\ pc = "orders" /\ i \in todo /\ CanFill(i)
  /\ Fill(i, p)
  /\ todo' = todo \ {i}
  /\ passed' = Append(passed, i)
  /\ UNCHANGED <<rows, qty, pending, bus, pc, view, vetoed, closing, historyVars>>

ExecuteAccepted(i) ==
  /\ pc = "orders" /\ i \in todo
  /\ pending' = pending \union {i}
  /\ todo' = todo \ {i}
  /\ UNCHANGED <<rows, filled, qty, bus, pc, view, vetoed, passed, closing, historyVars>>

(* Blocked by the switch, cut by the cap, refused, or never placed.        *)
ExecuteNothing(i) ==
  /\ pc = "orders" /\ i \in todo
  /\ todo' = todo \ {i}
  /\ UNCHANGED <<rows, brokerVars, bus, pc, view, vetoed, passed, closing, historyVars>>

(* An exception, before or after the order in hand is executed, loses the  *)
(* rest of the batch and the fills of what is done.                        *)
ExecuteRaises(i) ==
  /\ pc = "orders" /\ i \in todo
  /\ Fault
  /\ UNCHANGED filled \/ (CanFill(i) /\ \E p \in Prices : Fill(i, p))
  /\ pc' = "idle" /\ NoCycle
  /\ UNCHANGED <<rows, qty, pending, bus, planned, batch, seen, told>>

Publish ==
  /\ pc = "orders" /\ todo = {}
  /\ bus' = [bus EXCEPT !.fills = @ \o passed]
  /\ pc' = "feedback" /\ passed' = <<>>
  /\ UNCHANGED <<rows, brokerVars, view, vetoed, todo, closing, historyVars>>

-----------------------------------------------------------------------------
(* The feedback agent.                                                     *)

Fills == bus.fills
NextFill == bus' = [bus EXCEPT !.fills = Tail(@)]

(* A buy: the entry price of its open decision is the price of the fill.   *)
HandleBuy ==
  /\ pc = "feedback" /\ Fills # <<>> /\ IsBuy(Head(Fills))
  /\ LET i == Head(Fills) IN
     IF rows[i].status = "open"
     THEN /\ rows' = [rows EXCEPT ![i].entry = filled[i]]
          /\ told' = told \union {i}
     ELSE UNCHANGED <<rows, told>>
  /\ NextFill
  /\ UNCHANGED <<brokerVars, pc, cycleVars, planned, batch, seen, faults>>

\* Mutant: every buy of the symbol on record is closed, open or not.
HandleSaleAny ==
  /\ pc = "feedback" /\ Fills # <<>> /\ ~IsBuy(Head(Fills))
  /\ closing' = {i \in Ids : /\ rows[i].status # "none" /\ IsBuy(i)
                             /\ Order[i].symbol = Order[Head(Fills)].symbol}
  /\ pc' = "close"
  /\ UNCHANGED <<rows, brokerVars, bus, view, vetoed, todo, passed, historyVars>>

(* A sale closes the open buys of its symbol, read in one query.           *)
HandleSale ==
  /\ pc = "feedback" /\ Fills # <<>> /\ ~IsBuy(Head(Fills))
  /\ closing' = {i \in Ids : /\ rows[i].status = "open" /\ IsBuy(i)
                             /\ Order[i].symbol = Order[Head(Fills)].symbol}
  /\ pc' = "close"
  /\ UNCHANGED <<rows, brokerVars, bus, view, vetoed, todo, passed, historyVars>>

Entry(r) == IF r.entry # None THEN r.entry ELSE r.ref

Outcome(entry, exit) ==
  IF exit > entry THEN "win" ELSE IF exit < entry THEN "loss" ELSE "breakeven"

\* Mutant: the outcome is measured from the price of the decision.
CloseFromReference(i) ==
  LET x == Head(Fills)
      e == IF rows[i].ref # None THEN rows[i].ref ELSE rows[i].entry IN
  /\ pc = "close" /\ i \in closing
  /\ closing' = closing \ {i}
  /\ rows' = IF e = None THEN rows
             ELSE [rows EXCEPT ![i].status = Outcome(e, filled[x]),
                               ![i].entry = e,
                               ![i].pnl = (filled[x] - e) * qty[x]]
  /\ UNCHANGED <<brokerVars, bus, pc, view, vetoed, todo, passed, historyVars>>

(* One decision: it stays open when its entry is unknown.                  *)
Close(i) ==
  LET x == Head(Fills)
      e == Entry(rows[i]) IN
  /\ pc = "close" /\ i \in closing
  /\ closing' = closing \ {i}
  /\ rows' = IF e = None THEN rows
             ELSE [rows EXCEPT ![i].status = Outcome(e, filled[x]),
                               ![i].entry = e,
                               ![i].pnl = (filled[x] - e) * qty[x]]
  /\ UNCHANGED <<brokerVars, bus, pc, view, vetoed, todo, passed, historyVars>>

SaleDone ==
  /\ pc = "close" /\ closing = {}
  /\ pc' = "feedback"
  /\ NextFill
  /\ UNCHANGED <<rows, brokerVars, cycleVars, historyVars>>

(* BaseAgent.step goes on with the next message.                           *)
HandleRaises ==
  /\ \/ pc = "feedback" /\ Fills # <<>>
     \/ pc = "close" /\ closing # {}
  /\ Fault
  /\ pc' = "feedback" /\ closing' = {}
  /\ NextFill
  /\ UNCHANGED <<rows, brokerVars, view, vetoed, todo, passed, planned, batch, seen, told>>

EndCycle ==
  /\ pc = "feedback" /\ Fills = <<>>
  /\ pc' = "idle" /\ NoCycle
  /\ UNCHANGED <<rows, brokerVars, bus, historyVars>>

-----------------------------------------------------------------------------
(* An order accepted earlier is executed: nobody publishes that fill.      *)
LateFill(i, p) ==
  /\ i \in pending /\ CanFill(i)
  /\ Fill(i, p)
  /\ pending' = pending \ {i}
  /\ UNCHANGED <<rows, qty, bus, pc, cycleVars, historyVars>>

Crash ==
  /\ pc # "down"
  /\ Fault
  /\ pc' = "down" /\ bus' = NoBus /\ NoCycle
  /\ UNCHANGED <<rows, brokerVars, planned, batch, seen, told>>

Restart ==
  /\ pc = "down"
  /\ pc' = "idle"
  /\ UNCHANGED <<rows, brokerVars, bus, cycleVars, historyVars>>

Next ==
  \/ \E v \in [Symbols -> Views] : Ingest(v)
  \/ \E S \in UNION {kSubset(n, Ids \ planned) : n \in 0..MaxBatch} : Plan(S)
  \/ PlanRaises
  \/ Evaluate
  \/ \E i \in todo : Record(i)
  \/ RecordRaises
  \/ Approve
  \/ Take
  \/ \E i \in todo, p \in Prices : ExecuteFilled(i, p)
  \/ \E i \in todo : ExecuteAccepted(i) \/ ExecuteNothing(i) \/ ExecuteRaises(i)
  \/ Publish
  \/ HandleBuy
  \/ HandleSale
  \/ \E i \in closing : Close(i)
  \/ SaleDone
  \/ HandleRaises
  \/ EndCycle
  \/ \E i \in pending, p \in Prices : LateFill(i, p)
  \/ Crash
  \/ Restart

Spec == Init /\ [][Next]_vars

-----------------------------------------------------------------------------
(* Properties.                                                             *)

Row == [status: Status, regime: Regimes \union {None}, ref: Prices \union {None},
        entry: Prices \union {None}, pnl: Int]

(* Also: a topic never holds more than what the failed cycles left on it.  *)
TypeOK ==
  /\ rows \in [Ids -> Row]
  /\ filled \in [Ids -> Prices \union {None}]
  /\ qty \in [Ids -> Nat]
  /\ pending \subseteq Ids
  /\ bus.market \in Seq([Symbols -> Views]) /\ Len(bus.market) <= 1 + faults
  /\ bus.intents \subseteq Ids /\ bus.approved \subseteq Ids /\ bus.fills \in Seq(Ids)
  /\ pc \in {"idle", "plan", "decide", "record", "execute", "orders",
             "feedback", "close", "down"}
  /\ view \in [Symbols -> Views] \union {None}
  /\ vetoed \subseteq Combos
  /\ todo \subseteq Ids /\ passed \in Seq(Ids) /\ closing \subseteq Ids
  /\ planned \subseteq Ids /\ batch \subseteq Ids /\ told \subseteq Ids
  /\ seen \in [Symbols -> Views] \union {None}
  /\ faults \in 0..MaxFaults

(* Whatever raises and wherever, no intent, approval or fill waits on the  *)
(* bus for a later cycle, and only intents of the current cycle are        *)
(* recorded and executed.                                                  *)
NothingStale ==
  /\ pc \in {"idle", "plan", "down"} =>
       bus.intents = {} /\ bus.approved = {} /\ bus.fills = <<>>
  /\ bus.intents \union bus.approved \union todo \subseteq batch

(* A decision is recorded under the regime and the price its own cycle     *)
(* saw, though earlier snapshots may still be on the bus.                  *)
DecidedOnFreshBars ==
  pc \in {"record", "orders", "feedback"} =>
    \A i \in batch : rows[i].status # "none" =>
      rows[i].regime = seen[Order[i].symbol].regime /\ rows[i].ref = seen[Order[i].symbol].price

(* A decision that is closed or skipped stays as it is.                    *)
OutcomesStay ==
  [][\A i \in Ids : rows[i].status \in Closed \union {"skipped"} => rows'[i] = rows[i]]_vars

(* The P&L of the loop is that of the real fill of the buy, once that fill *)
(* was written, and of a price at which a sale of the symbol was executed. *)
OutcomeOfRealPrices ==
  \A i \in Ids : rows[i].status \in Closed =>
    /\ i \in told => rows[i].entry = filled[i]
    /\ \E x \in Executed(Order[i].symbol, "sell") :
         rows[i].status = Outcome(rows[i].entry, filled[x])

(* "veta combos estrategia@regime com edge negativo comprovado": a skipped *)
(* decision has enough closed trades of its own strategy and regime behind *)
(* it, losses among them.                                                  *)
VetoHasEvidence ==
  \A i \in Ids : rows[i].status = "skipped" =>
    /\ Cardinality(ClosedRows(Combo(i))) >= MinSamples
    /\ \E j \in ClosedRows(Combo(i)) : rows[j].status = "loss"

(* A combo that is vetoed and has no open buy stays vetoed for ever: its   *)
(* skipped decisions can give it no better record.                         *)
Trapped(c) ==
  Vetoed(c) /\ \A i \in Ids : IsBuy(i) /\ rows[i].status = "open" => Combo(i) # c
VetoIsForever == [][\A c \in Combos : Trapped(c) => Trapped(c)']_vars
=============================================================================
