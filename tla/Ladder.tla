------------------------------- MODULE Ladder -------------------------------
(***************************************************************************)
(* The ladder of staggered buys: an anchor price, rungs below it that are  *)
(* bought once each, and an invalidation stop that sells everything and    *)
(* re-arms the ladder.  Anchor and rungs are rows of the table state, each *)
(* written or deleted in a transaction of its own.                         *)
(*                                                                         *)
(* Sources: strategies/ladder_buys.py, data/state_repo.py, and what the    *)
(* planner, the decision layer and the executor may do to an intent on its *)
(* way to the broker (agents/planner.py, intelligence/engine.py,           *)
(* agents/executor.py).                                                    *)
(*                                                                         *)
(* Every rung is one lot.  Market orders sent while the market is open are *)
(* filled at once; fills in parts and late ones are those of               *)
(* OrderLifecycle.                                                         *)
(***************************************************************************)
EXTENDS Naturals, FiniteSets

CONSTANTS
  Symbols,       \* items of the watchlist with a ladder
  Stocks,        \* those that trade in market hours only
  Prices,
  None,          \* no value
  Configured,    \* anchor_price of each symbol, or None
  Drop,          \* drop_pct of each rung, in order; the same for every symbol
  StopLoss,      \* stop_loss_pct
  Regimes,       \* what the decision layer may take the market of a symbol for
  Losing,        \* bound: those in which the record may come to show losses
  MaxRearms,     \* bound: a ladder re-armed so often since it was flat falls only
  MaxFaults      \* bound: intents lost, exceptions and crashes

Rungs == DOMAIN Drop
N == Cardinality(Rungs)

ASSUME LadderAssumption ==
  /\ Stocks \subseteq Symbols
  /\ None \notin Symbols
  /\ Prices \subseteq Nat \ {0}
  /\ None \notin Nat
  /\ Configured \in [Symbols -> (Nat \ {0}) \union {None}]
  /\ N \in Nat
  /\ Drop \in [1..N -> 0..100]
  /\ StopLoss \in 0..100
  /\ Losing \subseteq Regimes
  /\ MaxRearms \in Nat /\ MaxFaults \in Nat

VARIABLES
  price,     \* the market
  held,      \* lots at the broker
  \* SQLite table state
  anchor,    \* ladder_anchor:<symbol>, or None
  filled,    \* rungs i with a row ladder_rung:<symbol>:<i>
  vetoed,    \* regimes in which the table decisions shows the ladder losing
  \* the process
  pc,        \* "idle", "pick", "stop", "rungs", "reset", "execute" or "down"
  todo,      \* symbols this evaluation has still to visit
  cur,       \* the symbol being visited
  quote,     \* the price read for it
  index,     \* the rung whose row is read or deleted next
  selling,   \* lots the liquidation will ask for
  intents,   \* what evaluate has produced so far, then what is left to execute
  \* history, also the bounds
  bought,    \* times each rung was bought since its row was last deleted
  paid,      \* anchor under which the symbol was last bought
  rearms,    \* resets that deleted a rung since the symbol was last flat
  torn,      \* symbols whose last reset was cut off by a crash
  denied,    \* symbols whose sale the decision layer vetoed in this cycle
  faults

marketVars  == <<price, held>>
ladderVars  == <<anchor, filled>>
decisionVars == <<vetoed, denied>>
visitVars   == <<cur, quote, index, selling>>
historyVars == <<bought, paid, rearms, torn, faults>>
vars == <<marketVars, ladderVars, decisionVars, pc, todo, visitVars, intents, historyVars>>

Intent == [symbol: Symbols, side: {"buy"}, rung: Rungs]
            \union [symbol: Symbols, side: {"sell"}, qty: Nat]

(* A price at or below a percentage under the anchor.                      *)
Below(p, a, pct) == 100 * p <= a * (100 - pct)

Init ==
  /\ price \in [Symbols -> Prices]
  /\ held = [s \in Symbols |-> 0]
  /\ anchor = [s \in Symbols |-> None]
  /\ filled = [s \in Symbols |-> {}]
  /\ vetoed = {} /\ denied = {}
  /\ pc = "idle" /\ todo = {}
  /\ cur = None /\ quote = 0 /\ index = 1 /\ selling = 0
  /\ intents = {}
  /\ bought = [s \in Symbols |-> [r \in Rungs |-> 0]]
  /\ paid = [s \in Symbols |-> None]
  /\ rearms = [s \in Symbols |-> 0]
  /\ torn = {}
  /\ faults = 0

NoVisit == cur' = None /\ quote' = 0 /\ index' = 1 /\ selling' = 0

Fault == faults < MaxFaults /\ faults' = faults + 1

-----------------------------------------------------------------------------
(* A price is read in Visit only, so it may as well move just before one.  *)
Move(s, p) ==
  /\ pc = "pick"
  /\ price[s] # p
  /\ rearms[s] < MaxRearms \/ p < price[s]
  /\ price' = [price EXCEPT ![s] = p]
  /\ UNCHANGED <<held, ladderVars, decisionVars, pc, todo, visitVars, intents, historyVars>>

(* LadderBuysStrategy.evaluate: outside market hours only what trades      *)
(* around the clock is visited.                                            *)
Begin(open) ==
  /\ pc = "idle"
  /\ pc' = "pick"
  /\ todo' = IF open THEN Symbols ELSE Symbols \ Stocks
  /\ UNCHANGED <<marketVars, decisionVars, ladderVars, visitVars, intents, historyVars>>

\* Mutant: the configured anchor is overlooked.
VisitAnchorsAtPrice(s) ==
  /\ pc = "pick" /\ s \in todo
  /\ pc' = "stop"
  /\ todo' = todo \ {s}
  /\ cur' = s /\ quote' = price[s]
  /\ anchor' = [anchor EXCEPT ![s] = IF @ # None THEN @ ELSE price[s]]
  /\ UNCHANGED <<marketVars, decisionVars, filled, index, selling, intents, historyVars>>

(* get_last_price, then _resolve_anchor, which stores a missing anchor.    *)
Visit(s) ==
  /\ pc = "pick" /\ s \in todo
  /\ pc' = "stop"
  /\ todo' = todo \ {s}
  /\ cur' = s /\ quote' = price[s]
  /\ anchor' = [anchor EXCEPT ![s] =
       IF @ # None THEN @ ELSE IF Configured[s] # None THEN Configured[s] ELSE price[s]]
  /\ UNCHANGED <<marketVars, decisionVars, filled, index, selling, intents, historyVars>>

\* Mutant: the liquidation asks for the rungs marked, not for the position.
InvalidateMarked ==
  /\ pc = "stop"
  /\ held[cur] > 0
  /\ Below(quote, anchor[cur], StopLoss)
  /\ pc' = "reset"
  /\ selling' = Cardinality(filled[cur])
  /\ anchor' = [anchor EXCEPT ![cur] = None]
  /\ rearms' = [rearms EXCEPT ![cur] = IF filled[cur] = {} THEN @ ELSE @ + 1]
  /\ UNCHANGED <<marketVars, decisionVars, filled, todo, cur, quote, index, intents,
                 bought, paid, torn, faults>>

(* _maybe_invalidation_stop with a position under the stop: reset deletes  *)
(* the anchor, then the rungs.                                             *)
Invalidate ==
  /\ pc = "stop"
  /\ held[cur] > 0
  /\ Below(quote, anchor[cur], StopLoss)
  /\ pc' = "reset"
  /\ selling' = held[cur]
  /\ anchor' = [anchor EXCEPT ![cur] = None]
  /\ rearms' = [rearms EXCEPT ![cur] = IF filled[cur] = {} THEN @ ELSE @ + 1]
  /\ UNCHANGED <<marketVars, decisionVars, filled, todo, cur, quote, index, intents,
                 bought, paid, torn, faults>>

\* Mutant: the rungs are re-armed when the price is back, position or not.
StopHoldsRearms ==
  LET back == ~Below(quote, anchor[cur], Drop[1]) IN
  /\ pc = "stop"
  /\ held[cur] = 0 \/ ~Below(quote, anchor[cur], StopLoss)
  /\ pc' = "rungs"
  /\ filled' = IF back THEN [filled EXCEPT ![cur] = {}] ELSE filled
  /\ bought' = IF back THEN [bought EXCEPT ![cur] = [r \in Rungs |-> 0]] ELSE bought
  /\ UNCHANGED <<marketVars, decisionVars, anchor, todo, visitVars, intents,
                 paid, rearms, torn, faults>>

StopHolds ==
  /\ pc = "stop"
  /\ held[cur] = 0 \/ ~Below(quote, anchor[cur], StopLoss)
  /\ pc' = "rungs"
  /\ UNCHANGED <<marketVars, decisionVars, ladderVars, todo, visitVars, intents, historyVars>>

DeleteRung ==
  /\ pc = "reset" /\ index <= N
  /\ filled' = [filled EXCEPT ![cur] = @ \ {index}]
  /\ bought' = [bought EXCEPT ![cur][index] = 0]
  /\ index' = index + 1
  /\ UNCHANGED <<marketVars, decisionVars, anchor, pc, todo, cur, quote, selling, intents,
                 paid, rearms, torn, faults>>

(* The reset is complete: the sale of the whole position.                  *)
Liquidate ==
  /\ pc = "reset" /\ index > N
  /\ intents' = intents \union {[symbol |-> cur, side |-> "sell", qty |-> selling]}
  /\ torn' = torn \ {cur}
  /\ pc' = "pick" /\ NoVisit
  /\ UNCHANGED <<marketVars, decisionVars, ladderVars, todo, bought, paid, rearms, faults>>

(* One rung of the loop: bought, and marked as bought, when its row is     *)
(* missing and the price is low enough.                                    *)
Triggered == index \notin filled[cur] /\ Below(quote, anchor[cur], Drop[index])

\* Mutant: the rung is not marked.
RungUnmarked ==
  /\ pc = "rungs" /\ index <= N
  /\ index' = index + 1
  /\ intents' = IF Triggered
                THEN intents \union {[symbol |-> cur, side |-> "buy", rung |-> index]}
                ELSE intents
  /\ UNCHANGED <<marketVars, decisionVars, ladderVars, pc, todo, cur, quote, selling, historyVars>>

Rung ==
  /\ pc = "rungs" /\ index <= N
  /\ index' = index + 1
  /\ IF Triggered
     THEN /\ filled' = [filled EXCEPT ![cur] = @ \union {index}]
          /\ intents' = intents \union
                          {[symbol |-> cur, side |-> "buy", rung |-> index]}
     ELSE UNCHANGED <<filled, intents>>
  /\ UNCHANGED <<marketVars, decisionVars, anchor, pc, todo, cur, quote, selling, historyVars>>

Leave ==
  /\ pc = "rungs" /\ index > N
  /\ pc' = "pick" /\ NoVisit
  /\ UNCHANGED <<marketVars, decisionVars, ladderVars, todo, intents, historyVars>>

(* A read at the broker raises: Planner.plan drops the strategy's whole    *)
(* result.  What it wrote stays.                                           *)
Raise ==
  /\ pc = "stop" \/ (pc = "pick" /\ todo # {})
  /\ Fault
  /\ pc' = "execute"
  /\ todo' = {} /\ intents' = {} /\ NoVisit
  /\ UNCHANGED <<marketVars, decisionVars, ladderVars, bought, paid, rearms, torn>>

(* DecisionIntelligence.process vetoes whatever the ladder intends in a    *)
(* regime in which it lost, its own stop included, for as long as the      *)
(* record says so.  The regime of a symbol is read off the bars.           *)
Hand(regime) ==
  /\ pc = "pick" /\ todo = {}
  /\ pc' = "execute"
  /\ intents' = {i \in intents : regime[i.symbol] \notin vetoed}
  /\ denied' = {s \in Symbols : /\ regime[s] \in vetoed
                                /\ \E i \in intents : i.symbol = s /\ i.side = "sell"}
  /\ UNCHANGED <<marketVars, ladderVars, vetoed, todo, visitVars, historyVars>>

-----------------------------------------------------------------------------
(* The rest of the pipeline.                                               *)

Buy(i) ==
  /\ pc = "execute" /\ i \in intents /\ i.side = "buy"
  /\ intents' = intents \ {i}
  /\ held' = [held EXCEPT ![i.symbol] = @ + 1]
  /\ bought' = [bought EXCEPT ![i.symbol][i.rung] = @ + 1]
  /\ paid' = [paid EXCEPT ![i.symbol] = anchor[i.symbol]]
  /\ UNCHANGED <<price, ladderVars, decisionVars, pc, todo, visitVars, rearms, torn, faults>>

(* The outcome of a sale closes the open decisions of its symbol, which    *)
(* may give the ladder a record of losses, or lift one (FeedbackLoop).     *)
Sell(i) ==
  /\ pc = "execute" /\ i \in intents /\ i.side = "sell"
  /\ vetoed' \in SUBSET Losing
  /\ intents' = intents \ {i}
  /\ held' = [held EXCEPT ![i.symbol] = @ - i.qty]
  /\ rearms' = [rearms EXCEPT ![i.symbol] = IF held'[i.symbol] = 0 THEN 0 ELSE @]
  /\ UNCHANGED <<price, ladderVars, denied, pc, todo, visitVars, bought, paid, torn, faults>>

(* A buy refused by the risk layer (sales pass it), or any intent that is  *)
(* blocked by the switch, cut by the cap on a batch or refused by the      *)
(* broker.                                                                 *)
Lose(i) ==
  /\ pc = "execute" /\ i \in intents
  /\ Fault
  /\ intents' = intents \ {i}
  /\ UNCHANGED <<marketVars, decisionVars, ladderVars, pc, todo, visitVars,
                 bought, paid, rearms, torn>>

EndCycle ==
  /\ pc = "execute" /\ intents = {}
  /\ pc' = "idle" /\ denied' = {}
  /\ UNCHANGED <<marketVars, vetoed, ladderVars, todo, visitVars, intents, historyVars>>

Crash ==
  /\ pc # "down"
  /\ Fault
  /\ pc' = "down"
  /\ torn' = IF pc = "reset" THEN torn \union {cur} ELSE torn
  /\ todo' = {} /\ intents' = {} /\ denied' = {} /\ NoVisit
  /\ UNCHANGED <<marketVars, vetoed, ladderVars, bought, paid, rearms>>

Restart ==
  /\ pc = "down"
  /\ pc' = "idle"
  /\ UNCHANGED <<marketVars, decisionVars, ladderVars, todo, visitVars, intents, historyVars>>

-----------------------------------------------------------------------------
Process ==
  \/ \E s \in Symbols : Visit(s)
  \/ Invalidate \/ StopHolds \/ DeleteRung \/ Liquidate \/ Rung \/ Leave
  \/ \E regime \in [Symbols -> Regimes] : Hand(regime)
  \/ \E i \in intents : Buy(i) \/ Sell(i)
  \/ EndCycle
  \/ Restart

Next ==
  \/ Process
  \/ \E open \in BOOLEAN : Begin(open)
  \/ \E s \in Symbols, p \in Prices : Move(s, p)
  \/ Raise
  \/ \E i \in intents : Lose(i)
  \/ Crash

Spec == Init /\ [][Next]_vars

(* The scheduler keeps running cycles, the process carries on with what it *)
(* has begun, and the market opens again and again.                        *)
LiveSpec ==
  Spec /\ WF_vars(Process) /\ WF_vars(\E open \in BOOLEAN : Begin(open))
       /\ SF_vars(Begin(TRUE))

-----------------------------------------------------------------------------
(* Properties.                                                             *)

TypeOK ==
  /\ price \in [Symbols -> Prices]
  /\ held \in [Symbols -> Nat]
  /\ anchor \in [Symbols -> (Nat \ {0}) \union {None}]
  /\ filled \in [Symbols -> SUBSET Rungs]
  /\ vetoed \subseteq Regimes /\ denied \subseteq Symbols
  /\ pc \in {"idle", "pick", "stop", "rungs", "reset", "execute", "down"}
  /\ todo \subseteq Symbols
  /\ cur \in Symbols \union {None}
  /\ quote \in Nat
  /\ index \in 1..(N + 1)
  /\ selling \in Nat
  /\ intents \subseteq Intent
  /\ bought \in [Symbols -> [Rungs -> Nat]]
  /\ paid \in [Symbols -> Nat \union {None}]
  /\ rearms \in [Symbols -> Nat]
  /\ torn \subseteq Symbols
  /\ faults \in 0..MaxFaults

(* "Cada degrau dispara no MAXIMO uma vez": between two resets a rung is   *)
(* bought at most once, whatever is lost and whenever the process crashes. *)
RungOnce == \A s \in Symbols, r \in Rungs : bought[s][r] <= 1

(* A ladder never holds more than all its rungs, once for each time its    *)
(* rungs were deleted while it still held something: a sale that is lost   *)
(* or vetoed after the reset lets it buy them again.                       *)
LadderBounded == \A s \in Symbols : held[s] <= N * (1 + rearms[s])

(* The order that liquidates a ladder never meets a buy of the same cycle  *)
(* and never asks for more than there is.                                  *)
SaleIsWhole ==
  \A i \in intents : i.side = "sell" =>
    /\ i.qty = held[i.symbol]
    /\ \A j \in intents : j.symbol = i.symbol => j = i

(* "re-arma a escada do zero": without an anchor no rung counts as bought, *)
(* unless a crash cut the reset off.                                       *)
RearmsFromZero ==
  \A s \in Symbols : anchor[s] = None =>
    filled[s] = {} \/ s \in torn \/ (pc = "reset" /\ cur = s)

(* A symbol held while its price is under the stop of the anchor it was    *)
(* bought at.                                                              *)
Broken(s) == held[s] > 0 /\ Below(price[s], paid[s], StopLoss)

(* A ladder with a configured anchor is liquidated in the end, though a    *)
(* sale may be lost: the next cycles ask for it again until one is         *)
(* executed, unless the decision layer vetoes the sale itself, which it    *)
(* may do for ever.                                                        *)
ConfiguredLaddersLiquidate ==
  \A s \in Symbols :
    Configured[s] # None => (Broken(s) ~> ~Broken(s) \/ s \in denied)
=============================================================================
