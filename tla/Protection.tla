----------------------------- MODULE Protection -----------------------------
(***************************************************************************)
(* Two strategies over the same shares: the trailing stop, which asks the  *)
(* broker what is already protected, and the wheel, which remembers in the *)
(* table state which legs it has sold.                                     *)
(*                                                                         *)
(* Sources: strategies/trailing_stop.py, strategies/wheel.py, and what the *)
(* planner and the executor may do to an intent on its way to the broker   *)
(* (agents/planner.py, agents/executor.py).                                *)
(*                                                                         *)
(* Shares are counted in lots of SHARES_PER_CONTRACT; prices do not move,  *)
(* a trailing stop may be executed at any time.  Symbols are stocks        *)
(* without a ladder, which the trailing stop leaves alone.                 *)
(***************************************************************************)
EXTENDS Integers, Sequences, FiniteSets, SequencesExt

CONSTANTS
  Symbols,
  Wheeled,       \* those with a wheel
  Contracts,     \* contracts of each wheel
  Target,        \* collateral of its puts at the target strike
  Strike,        \* collateral at the strike of the contract that is listed
  Worth,         \* what a lot sells for
  Cash0,         \* cash at the start
  MaxEvents,     \* bound: executions and assignments nobody ordered here
  MaxFaults      \* bound: failing reads, exceptions, lost orders, crashes

ASSUME ProtectionAssumption ==
  /\ Wheeled \subseteq Symbols
  /\ Contracts \in [Wheeled -> Nat \ {0}]
  /\ Target \in [Wheeled -> Nat] /\ Strike \in [Wheeled -> Nat]
  /\ Worth \in [Symbols -> Nat]
  /\ Cash0 \in Nat /\ MaxEvents \in Nat /\ MaxFaults \in Nat

VARIABLES
  \* the broker
  held,      \* lots, negative when short
  stops,     \* quantities of the open trailing stops, in order
  puts,      \* short contracts
  calls,
  cash,
  \* SQLite table state
  marks,     \* rows wheel_open_put and wheel_open_call
  \* the process
  pc,        \* "idle", "orders", "positions", "account", "wheel", "execute" or "down"
  covered,   \* symbols with an open trailing order, as read
  funds,     \* cash, as read
  todo,      \* wheels to visit
  legs,      \* the wheel's intents so far
  intents,   \* what is left to execute
  \* history, also the bounds
  blind,     \* failed reads of the open orders
  twice,     \* symbols whose last stop was asked for over an open one
  drift,     \* net lots that came otherwise than by a stop (left, if negative)
             \* since the last stop of the symbol was asked for
  gone,      \* lots that left by a stop or a sale of somebody else since the
             \* call of the symbol was decided
  spent,     \* cash paid for shares since the account was read for the put
             \* of the symbol
  sold,      \* contracts ever sold, by leg
  events, faults

brokerVars  == <<held, stops, puts, calls, cash>>
cycleVars   == <<covered, funds, todo, legs, intents>>
positionHistory == <<twice, drift, gone>>
historyVars == <<blind, positionHistory, spent, sold, events, faults>>
vars == <<brokerVars, marks, pc, cycleVars, historyVars>>

Leg == {"put", "call"}
Intent == [kind: Leg \union {"stop"}, symbol: Symbols, qty: Nat \ {0}]
Total(q) == FoldSeq(+, 0, q)

Init ==
  /\ held = [s \in Symbols |-> 0] /\ stops = [s \in Symbols |-> <<>>]
  /\ puts = [s \in Symbols |-> 0] /\ calls = [s \in Symbols |-> 0]
  /\ cash = Cash0 /\ marks = {} /\ pc = "idle"
  /\ covered = {} /\ funds = 0 /\ todo = {} /\ legs = {} /\ intents = {}
  /\ blind = 0 /\ events = 0 /\ faults = 0 /\ twice = {}
  /\ drift = [s \in Symbols |-> 0] /\ gone = [s \in Symbols |-> 0]
  /\ spent = [s \in Symbols |-> 0]
  /\ sold = [l \in Leg |-> [s \in Symbols |-> 0]]

NoCycle == covered' = {} /\ funds' = 0 /\ todo' = {} /\ legs' = {} /\ intents' = {}

Fault == faults < MaxFaults /\ faults' = faults + 1

-----------------------------------------------------------------------------
(* TrailingStopStrategy.evaluate: open orders first, positions second.     *)

(* Outside market hours neither strategy does anything for a stock.        *)
Begin ==
  /\ pc = "idle"
  /\ pc' = "orders"
  /\ UNCHANGED <<brokerVars, marks, cycleVars, historyVars>>

\* Mutants: the type of the open orders is not recognised; a symbol that was
\* stopped out counts as covered.
ReadOrdersUnknown ==
  /\ pc = "orders" /\ pc' = "positions"
  /\ covered' = {}
  /\ UNCHANGED <<brokerVars, marks, funds, todo, legs, intents, historyVars>>
ReadOrdersForEver ==
  /\ pc = "orders" /\ pc' = "positions"
  /\ covered' = {s \in Symbols : stops[s] # <<>> \/ gone[s] > 0}
  /\ UNCHANGED <<brokerVars, marks, funds, todo, legs, intents, historyVars>>

ReadOrders ==
  /\ pc = "orders" /\ pc' = "positions"
  /\ covered' = {s \in Symbols : stops[s] # <<>>}
  /\ UNCHANGED <<brokerVars, marks, funds, todo, legs, intents, historyVars>>

(* A failing read looks like no open orders.                               *)
ReadOrdersFails ==
  /\ pc = "orders" /\ pc' = "positions"
  /\ Fault
  /\ covered' = {}
  /\ blind' = blind + 1
  /\ UNCHANGED <<brokerVars, marks, funds, todo, legs, intents,
                 positionHistory, spent, sold, events>>

\* Mutant: a stop is rounded up to the contracts of the wheel.
StopWhole(s) ==
  [kind |-> "stop", symbol |-> s,
   qty |-> IF s \in Wheeled /\ held[s] < Contracts[s] THEN Contracts[s] ELSE held[s]]

Stop(s) == [kind |-> "stop", symbol |-> s, qty |-> held[s]]

Uncovered == {s \in Symbols : held[s] > 0} \ covered

(* One stop over the whole of every long without a trailing order.         *)
PlaceStops ==
  /\ pc = "positions" /\ pc' = "account"
  /\ intents' = {Stop(s) : s \in Uncovered}
  /\ twice' = (twice \ Uncovered) \union {s \in Uncovered : stops[s] # <<>>}
  /\ drift' = [s \in Symbols |-> IF s \in Uncovered THEN 0 ELSE drift[s]]
  /\ UNCHANGED <<brokerVars, marks, covered, funds, todo, legs,
                 blind, gone, spent, sold, events, faults>>

(* A failing read looks like no positions.                                 *)
ReadPositionsFails ==
  /\ pc = "positions" /\ pc' = "account"
  /\ Fault
  /\ UNCHANGED <<brokerVars, marks, cycleVars, blind, positionHistory, spent, sold, events>>

-----------------------------------------------------------------------------
(* WheelStrategy.evaluate.                                                 *)

ReadAccount ==
  /\ pc = "account" /\ pc' = "wheel"
  /\ funds' = cash
  /\ todo' = Wheeled
  /\ spent' = [s \in Symbols |-> IF <<"put", s>> \in marks THEN spent[s] ELSE 0]
  /\ UNCHANGED <<brokerVars, marks, covered, legs, intents,
                 blind, positionHistory, sold, events, faults>>

(* The account has no permission for options now.                          *)
LevelTooLow ==
  /\ pc = "account" /\ pc' = "execute"
  /\ UNCHANGED <<brokerVars, marks, cycleVars, historyVars>>

\* Mutant: any shares are enough for a call.
EnoughSharesAny(s) == held[s] > 0

EnoughShares(s) == held[s] >= Contracts[s]

\* Mutant: the collateral of one contract secures them all.
SecuredOne(s) == funds * Contracts[s] >= Target[s]

(* The cash as read for every wheel of the evaluation: what earlier puts   *)
(* count on is not set aside, and the contract is looked for afterwards.   *)
Secured(s) == funds >= Target[s]

\* Mutant: the leg is not marked.
SellUnmarked(leg, s) ==
  /\ <<leg, s>> \notin marks
  /\ legs' = legs \union {[kind |-> leg, symbol |-> s, qty |-> Contracts[s]]}
  /\ UNCHANGED marks

Sell(leg, s) ==
  /\ <<leg, s>> \notin marks
  /\ marks' = marks \union {<<leg, s>>}
  /\ legs' = legs \union {[kind |-> leg, symbol |-> s, qty |-> Contracts[s]]}

Visit(s) ==
  /\ pc = "wheel" /\ s \in todo
  /\ todo' = todo \ {s}
  /\ UNCHANGED <<brokerVars, pc, covered, funds, intents,
                 blind, twice, drift, spent, sold, events, faults>>

(* _maybe_covered_call and _maybe_cash_secured_put.                        *)
VisitSells(s) ==
  /\ Visit(s)
  /\ \/ EnoughShares(s) /\ Sell("call", s) /\ gone' = [gone EXCEPT ![s] = 0]
     \/ ~EnoughShares(s) /\ Secured(s) /\ Sell("put", s) /\ UNCHANGED gone

(* The leg is marked already, cash is short, or no contract is listed.     *)
VisitSkips(s) ==
  /\ Visit(s)
  /\ UNCHANGED <<marks, legs, gone>>

(* Planner.plan drops the wheel's intents; its marks and the stops of the  *)
(* other strategy stay.                                                    *)
WheelRaises ==
  /\ pc = "account" \/ (pc = "wheel" /\ todo # {})
  /\ Fault
  /\ pc' = "execute"
  /\ todo' = {} /\ legs' = {}
  /\ UNCHANGED <<brokerVars, marks, covered, funds, intents,
                 blind, positionHistory, spent, sold, events>>

Hand ==
  /\ pc = "wheel" /\ todo = {}
  /\ pc' = "execute"
  /\ intents' = intents \union legs /\ legs' = {}
  /\ UNCHANGED <<brokerVars, marks, covered, funds, todo, historyVars>>

-----------------------------------------------------------------------------
(* The rest of the pipeline.                                               *)

ExecuteStop(i) ==
  /\ pc = "execute" /\ i \in intents /\ i.kind = "stop"
  /\ intents' = intents \ {i}
  /\ stops' = [stops EXCEPT ![i.symbol] = Append(@, i.qty)]
  /\ UNCHANGED <<held, puts, calls, cash, marks, pc, covered, funds, todo, legs, historyVars>>

(* Premiums are left out.                                                  *)
ExecuteLeg(i) ==
  /\ pc = "execute" /\ i \in intents /\ i.kind \in Leg
  /\ intents' = intents \ {i}
  /\ IF i.kind = "put"
     THEN puts' = [puts EXCEPT ![i.symbol] = @ + i.qty] /\ UNCHANGED calls
     ELSE calls' = [calls EXCEPT ![i.symbol] = @ + i.qty] /\ UNCHANGED puts
  /\ sold' = [sold EXCEPT ![i.kind][i.symbol] = @ + i.qty]
  /\ UNCHANGED <<held, stops, cash, marks, pc, covered, funds, todo, legs,
                 blind, positionHistory, spent, events, faults>>

(* Refused by the risk manager (a put), blocked, cut by the cap on a batch *)
(* or refused by the broker.  The decision layer vetoes neither strategy:  *)
(* only buys are ever closed, and these two never buy shares.              *)
Lose(i) ==
  /\ pc = "execute" /\ i \in intents
  /\ Fault
  /\ intents' = intents \ {i}
  /\ UNCHANGED <<brokerVars, marks, pc, covered, funds, todo, legs,
                 blind, positionHistory, spent, sold, events>>

EndCycle ==
  /\ pc = "execute" /\ intents = {}
  /\ pc' = "idle" /\ NoCycle
  /\ UNCHANGED <<brokerVars, marks, historyVars>>

Crash ==
  /\ pc # "down"
  /\ Fault
  /\ pc' = "down" /\ NoCycle
  /\ UNCHANGED <<brokerVars, marks, blind, positionHistory, spent, sold, events>>

Restart ==
  /\ pc = "down"
  /\ pc' = "idle"
  /\ UNCHANGED <<brokerVars, marks, cycleVars, historyVars>>

-----------------------------------------------------------------------------
(* The broker and the holder of the account.                               *)

Event ==
  /\ events < MaxEvents /\ events' = events + 1
  /\ UNCHANGED <<marks, pc, cycleVars, blind, twice, sold, faults>>

\* Lots that come otherwise than by a stop; cash that is paid for shares.
Drifts(s, lots) == drift' = [drift EXCEPT ![s] = @ + lots]
Pays(price) ==
  /\ cash' = cash - price
  /\ spent' = [s \in Symbols |-> spent[s] + price]

(* A stop is executed, whatever is held by then.                           *)
Trigger(s, k) ==
  /\ Event
  /\ held' = [held EXCEPT ![s] = @ - stops[s][k]]
  /\ cash' = cash + stops[s][k] * Worth[s]
  /\ gone' = [gone EXCEPT ![s] = @ + stops[s][k]]
  /\ stops' = [stops EXCEPT ![s] = RemoveAt(@, k)]
  /\ UNCHANGED <<puts, calls, drift, spent>>

PutAssigned(s) ==
  /\ Event
  /\ puts[s] > 0
  /\ held' = [held EXCEPT ![s] = @ + puts[s]]
  /\ Drifts(s, puts[s]) /\ Pays(Strike[s])
  /\ puts' = [puts EXCEPT ![s] = 0]
  /\ UNCHANGED <<stops, calls, gone>>

CallAssigned(s) ==
  /\ Event
  /\ calls[s] > 0
  /\ held' = [held EXCEPT ![s] = @ - calls[s]]
  /\ Drifts(s, -calls[s])
  /\ cash' = cash + calls[s] * Worth[s]
  /\ calls' = [calls EXCEPT ![s] = 0]
  /\ UNCHANGED <<stops, puts, gone, spent>>

Expire(s) ==
  /\ Event
  /\ puts[s] + calls[s] > 0
  /\ puts' = [puts EXCEPT ![s] = 0] /\ calls' = [calls EXCEPT ![s] = 0]
  /\ UNCHANGED <<held, stops, cash, drift, gone, spent>>

BuyElsewhere(s) ==
  /\ Event
  /\ cash >= Worth[s]
  /\ held' = [held EXCEPT ![s] = @ + 1]
  /\ Drifts(s, 1) /\ Pays(Worth[s])
  /\ UNCHANGED <<stops, puts, calls, gone>>

SellElsewhere(s) ==
  /\ Event
  /\ held[s] > 0
  /\ held' = [held EXCEPT ![s] = @ - 1]
  /\ Drifts(s, -1)
  /\ cash' = cash + Worth[s]
  /\ gone' = [gone EXCEPT ![s] = @ + 1]
  /\ UNCHANGED <<stops, puts, calls, spent>>

-----------------------------------------------------------------------------
Process ==
  \/ ReadOrders \/ PlaceStops \/ ReadAccount \/ LevelTooLow
  \/ \E s \in Wheeled : VisitSells(s) \/ VisitSkips(s)
  \/ Hand
  \/ \E i \in intents : ExecuteStop(i) \/ ExecuteLeg(i)
  \/ EndCycle
  \/ Restart

Next ==
  \/ Begin
  \/ Process
  \/ ReadOrdersFails \/ ReadPositionsFails \/ WheelRaises
  \/ \E i \in intents : Lose(i)
  \/ Crash
  \/ \E s \in Symbols :
       \/ \E k \in DOMAIN stops[s] : Trigger(s, k)
       \/ PutAssigned(s) \/ CallAssigned(s) \/ Expire(s)
       \/ BuyElsewhere(s) \/ SellElsewhere(s)

Spec == Init /\ [][Next]_vars

(* The scheduler keeps running cycles while the market is open and the     *)
(* process carries on with what it has begun.                              *)
LiveSpec == Spec /\ WF_vars(Begin) /\ WF_vars(Process)

-----------------------------------------------------------------------------
(* Properties.                                                             *)

TypeOK ==
  /\ held \in [Symbols -> Int]
  /\ stops \in [Symbols -> Seq(Nat \ {0})]
  /\ puts \in [Symbols -> Nat] /\ calls \in [Symbols -> Nat]
  /\ cash \in Int
  /\ marks \subseteq Leg \X Wheeled
  /\ pc \in {"idle", "orders", "positions", "account", "wheel", "execute", "down"}
  /\ covered \subseteq Symbols /\ funds \in Int /\ todo \subseteq Wheeled
  /\ legs \subseteq Intent /\ intents \subseteq Intent
  /\ blind \in 0..MaxFaults /\ twice \subseteq Symbols
  /\ drift \in [Symbols -> Int] /\ gone \in [Symbols -> Nat]
  /\ spent \in [Symbols -> Nat]
  /\ sold \in [Leg -> [Symbols -> Nat]]
  /\ events \in 0..MaxEvents /\ faults \in 0..MaxFaults

(* A symbol has one trailing stop, and one more for each time the open     *)
(* orders could not be read: crashes, restarts and lost orders place none  *)
(* twice.                                                                  *)
OneStopPerLong == \A s \in Symbols : Len(stops[s]) <= 1 + blind

(* The stops of a symbol ask together for what is held, neither more nor   *)
(* less, but for the lots that came or left in another way after the stop  *)
(* was asked for: only those can make a stop sell short, or leave lots     *)
(* without one until it is executed.  Excepted are the symbols for which a *)
(* stop was asked for over an open one, and there are none of these while  *)
(* the open orders are read.                                               *)
StopsMatchPosition ==
  /\ blind = 0 => twice = {}
  /\ \A s \in Symbols \ twice :
       stops[s] # <<>> => held[s] = Total(stops[s]) + drift[s]

(* "Cada perna e marcada em state": each leg of a wheel is sold at most    *)
(* once, though intents are lost and the process restarts.                 *)
LegsSoldOnce ==
  \A l \in Leg, s \in Symbols :
    IF s \in Wheeled THEN sold[l][s] <= Contracts[s] ELSE sold[l][s] = 0

(* A call is covered by shares: it is naked only for lots that a stop, or  *)
(* somebody else, sold after the call was decided.                         *)
CallsCovered == \A s \in Symbols : calls[s] <= held[s] + gone[s]

(* A put, if it alone is assigned, overdraws the cash by no more than what *)
(* was paid for shares after the account was read for it and what the      *)
(* contract that is listed costs above the target.  Several puts may count *)
(* on the same cash: nothing is said of what they cost together.           *)
Dearer(s) == IF Strike[s] > Target[s] THEN Strike[s] - Target[s] ELSE 0
PutsSecuredAlone ==
  \A s \in Wheeled : puts[s] > 0 => Strike[s] <= cash + spent[s] + Dearer(s)

(* A long without a stop gets one or is closed, though a read may fail, an *)
(* order be lost or the process crash: the broker is asked again in every  *)
(* cycle.                                                                  *)
Unprotected(s) == held[s] > 0 /\ stops[s] = <<>>
LongsGetStops == \A s \in Symbols : Unprotected(s) ~> ~Unprotected(s)
=============================================================================
