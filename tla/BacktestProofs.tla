--------------------------- MODULE BacktestProofs ---------------------------
(***************************************************************************)
(* Machine-checked proofs about Backtest, for any series of prices, any    *)
(* experiment made of its runs, and any costs, rungs and limits.           *)
(***************************************************************************)
EXTENDS Backtest, FoldLemmas

-----------------------------------------------------------------------------
(* The inductive invariant *)

\* The run in hand stays on the series.
RunsFit ==
  /\ series \in AllSeries
  /\ \A k \in DOMAIN runs : runs[k].hi <= Len(series.close)
  /\ pc # "start" => runs # <<>> /\ bar \in Run.lo..Run.hi

\* Who has orders where: intents are on their way only through the gates, the
\* ladder decides with no order pending, the trailing stop asks the broker for
\* nothing but its own order.
Flow ==
  /\ pc \notin {"risk", "judge", "submit"} => todo = <<>>
  /\ pc \notin {"risk", "judge"} => passed = <<>>
  /\ pc \in {"enter", "protect"} => Trailing /\ pending = <<>>
  /\ pc = "evaluate" /\ ~Trailing => pending = <<>>
  /\ pc # "start" /\ Trailing =>
       /\ \A k \in DOMAIN todo : todo[k].side = "trail"
       /\ \A k \in DOMAIN passed : passed[k].side = "trail"

\* Orders in the hands of the broker or on their way to it.
InHand == Len(pending) + Len(passed) + Len(todo)

\* A sale of the ladder is the only order anywhere, a sale triggered by the
\* trailing stop the only one pending, and either is for the whole position.
SoleSale ==
  pc # "start" =>
    /\ \A k \in DOMAIN pending : pending[k].side = "sell" =>
         pending[k].qty = qty /\ (IF Trailing THEN Len(pending) ELSE InHand) = 1
    /\ \A k \in DOMAIN passed : passed[k].side = "sell" => passed[k].qty = qty /\ InHand = 1
    /\ \A k \in DOMAIN todo : todo[k].side = "sell" => todo[k].qty = qty /\ InHand = 1

IInv ==
  /\ TypeOK
  /\ RunsFit
  /\ Flow
  /\ SoleSale
  /\ BooksBalance

-----------------------------------------------------------------------------
(* Data *)

\* The bar in hand has prices.
LEMMA PriceFact ==
  ASSUME TypeOK, RunsFit, pc # "start"
  PROVE  /\ Close(bar) \in Nat \ {0} /\ series.open[bar] \in Nat \ {0}
         /\ Run \in RunType /\ bar \in Nat \ {0}
         /\ Run.lo \in Nat \ {0} /\ Run.hi \in Nat
         /\ Tail(runs) \in Seq(RunType)
         /\ \A k \in DOMAIN Tail(runs) : Tail(runs)[k].hi <= Len(series.close)
<1>1. Run \in RunType /\ runs # <<>> /\ Run.hi <= Len(series.close)
  BY DEF TypeOK, RunsFit, Run
<1>2. Run.lo \in Nat \ {0} /\ Run.hi \in Nat
  BY <1>1 DEF RunType
<1>3. bar \in 1..Len(series.close) /\ Len(series.open) = Len(series.close)
  BY <1>1, <1>2, BacktestAssumption DEF RunsFit
<1>4. series.open \in Seq(Nat \ {0}) /\ series.close \in Seq(Nat \ {0})
  BY BacktestAssumption DEF RunsFit
<1>5. Tail(runs) \in Seq(RunType)
  BY <1>1 DEF TypeOK
<1>6. \A k \in DOMAIN Tail(runs) : Tail(runs)[k].hi <= Len(series.close)
  <2>1. \A k \in DOMAIN Tail(runs) : k + 1 \in DOMAIN runs /\ Tail(runs)[k] = runs[k + 1]
    BY <1>1 DEF TypeOK
  <2>2. QED
    BY <2>1 DEF RunsFit
<1>7. series.open[bar] \in Nat \ {0} /\ Close(bar) \in Nat \ {0} /\ bar \in Nat \ {0}
  BY <1>3, <1>4 DEF Close
<1> QED
  BY <1>1, <1>2, <1>5, <1>6, <1>7

LEMMA OrderFact ==
  ASSUME NEW o \in OrderType
  PROVE  o.side \in Sides /\ o.qty \in Nat \ {0} /\ o.id \in Nat
  BY DEF OrderType

\* A fill at a price: what it pays or earns.
LEMMA FillFact ==
  ASSUME NEW p \in Nat \ {0}, NEW n \in Nat \ {0}
  PROVE  /\ BuyPrice(p) \in Nat \ {0} /\ SellPrice(p) \in Nat
         /\ BuyPrice(p) * n \in Nat /\ SellPrice(p) * n \in Nat
         /\ (BuyPrice(p) * n) * Comm \in Nat /\ (BuyPrice(p) * n) * Scale \in Nat
         /\ \A c \in Nat : c * (Scale + Comm) = c * Scale + c * Comm
<1>0. Scale \in Nat \ {0} /\ Slip \in Nat /\ Comm \in Nat /\ Scale - Slip \in Nat
  BY BacktestAssumption
<1>1. \A x, y \in Nat : x * y \in Nat
  OBVIOUS
<1>2. \A x, y \in Nat \ {0} : x * y \in Nat \ {0}
  OBVIOUS
<1>3. Scale + Slip \in Nat \ {0}
  BY <1>0
<1>4. BuyPrice(p) \in Nat \ {0} /\ SellPrice(p) \in Nat
  BY <1>0, <1>1, <1>2, <1>3 DEF BuyPrice, SellPrice
<1>5. BuyPrice(p) * n \in Nat /\ SellPrice(p) * n \in Nat
  BY <1>4, <1>1
<1>6. \A c \in Nat : c * (Scale + Comm) = c * Scale + c * Comm
  BY <1>0
<1> QED
  BY <1>0, <1>1, <1>4, <1>5, <1>6

\* A buy keeps the books.
LEMMA FillBuyFact ==
  ASSUME TypeOK, BooksBalance, NEW p \in Nat \ {0}, NEW n \in Nat \ {0}, FillBuy(p, n)
  PROVE  /\ cash' \in Int /\ fees' \in Nat /\ basis' \in Nat /\ qty' \in Nat
         /\ UNCHANGED <<trail, realized>>
         /\ BooksBalance'
<1> DEFINE c == BuyPrice(p) * n
<1>1. c \in Nat /\ c * Comm \in Nat /\ c * Scale \in Nat
      /\ c * (Scale + Comm) = c * Scale + c * Comm
  BY FillFact
<1>2. /\ cash' = cash - c * (Scale + Comm) /\ fees' = fees + c * Comm
      /\ basis' = basis + c * Scale /\ qty' = qty + n
      /\ UNCHANGED <<trail, realized>>
  BY DEF FillBuy
<1> HIDE DEF c
<1>3. cash \in Int /\ fees \in Nat /\ basis \in Nat /\ qty \in Nat /\ realized \in Int
  BY DEF TypeOK
<1>4. cash' + basis' = cash + basis - c * Comm
  BY <1>1, <1>2, <1>3
<1>5. Cash * Scale * Scale \in Int
  BY BacktestAssumption
<1>6. BooksBalance'
  BY <1>1, <1>2, <1>3, <1>4, <1>5 DEF BooksBalance
<1> QED
  BY <1>1, <1>2, <1>3, <1>6

\* So does a sale of everything, which leaves nothing.
LEMMA FillSellFact ==
  ASSUME TypeOK, BooksBalance, NEW p \in Nat \ {0}, qty # 0, FillSell(p, qty)
  PROVE  /\ cash' \in Int /\ realized' \in Int /\ basis' = 0 /\ qty' = 0
         /\ trail' = NoTrail /\ UNCHANGED fees
         /\ BooksBalance'
<1> DEFINE e == (SellPrice(p) * qty) * (Scale - Comm)
<1>1. cash \in Int /\ fees \in Nat /\ basis \in Nat /\ qty \in Nat \ {0} /\ realized \in Int
  BY DEF TypeOK
<1>2. SellPrice(p) * qty \in Nat /\ Scale - Comm \in Int
  BY <1>1, FillFact, BacktestAssumption
<1>3. e \in Int
  BY <1>2
<1>4. /\ cash' = cash + e /\ realized' = realized + e - basis
      /\ qty' = 0 /\ basis' = 0 /\ trail' = NoTrail /\ UNCHANGED fees
  BY <1>1 DEF FillSell, CostOf
<1> HIDE DEF e
<1>5. Cash * Scale * Scale \in Int
  BY BacktestAssumption
<1>6. BooksBalance'
  BY <1>1, <1>3, <1>4, <1>5 DEF BooksBalance
<1> QED
  BY <1>1, <1>3, <1>4, <1>6

\* The decision log keeps its type.
LEMMA LogFact ==
  ASSUME NEW log \in Seq(DecisionType), NEW price \in Nat, NEW n \in Nat, NEW id \in Nat
  PROVE  Bought(log, id, price) \in Seq(DecisionType) /\ Sold(log, n, price) \in Seq(DecisionType)
<1>1. ASSUME NEW k \in DOMAIN log
      PROVE  /\ log[k] \in DecisionType
             /\ [log[k] EXCEPT !.entry = price] \in DecisionType
  <2>1. log[k] \in DecisionType
    OBVIOUS
  <2>2. QED
    BY <2>1 DEF DecisionType
<1>2. ASSUME NEW k \in DOMAIN log
      PROVE  Sold(log, n, price)[k] \in DecisionType
  <2> DEFINE entry == IF log[k].entry # 0 THEN log[k].entry ELSE log[k].ref * Scale
  <2>1. log[k] \in DecisionType
    OBVIOUS
  <2>2. log[k].entry \in Nat /\ log[k].ref \in Nat
    BY <2>1 DEF DecisionType
  <2>3. entry \in Nat
    BY <2>2, BacktestAssumption
  <2>4. (price - entry) * n \in Int
    BY <2>3
  <2>5. Len(runs) \in Nat
    OBVIOUS
  <2> HIDE DEF entry
  <2>6. Sold(log, n, price)[k] \in
          {log[k], [log[k] EXCEPT !.status = "closed", !.soldIn = Len(runs),
                                  !.pnl = (price - entry) * n]}
    BY DEF Sold, entry
  <2>7. QED
    BY <2>1, <2>4, <2>5, <2>6 DEF DecisionType
<1>3. Bought(log, id, price) \in Seq(DecisionType)
  BY <1>1 DEF Bought
<1>4. Sold(log, n, price) \in [1..Len(log) -> DecisionType]
  <2> DEFINE t == Sold(log, n, price)
  <2>1. DOMAIN t = 1..Len(log) /\ t = [k \in DOMAIN t |-> t[k]]
    BY DEF Sold
  <2>2. \A k \in DOMAIN t : t[k] \in DecisionType
    BY <1>2, <2>1
  <2> HIDE DEF t
  <2>3. t \in [1..Len(log) -> DecisionType]
    BY <2>1, <2>2
  <2>4. QED
    BY <2>3 DEF t
<1> QED
  BY <1>3, <1>4

\* The rungs of a set, in order, are orders to buy.
LEMMA RungFact ==
  ASSUME TypeOK, NEW S \in SUBSET DOMAIN Drop, NEW f \in InOrder(S)
  PROVE  /\ RungOrders(f) \in Seq(OrderType)
         /\ \A k \in DOMAIN RungOrders(f) : RungOrders(f)[k].side = "buy"
<1>1. IsFiniteSet(S)
  <2>1. DOMAIN Drop = 1..Len(Drop) /\ Len(Drop) \in Int
    BY BacktestAssumption
  <2>2. IsFiniteSet(DOMAIN Drop)
    BY <2>1, FS_Interval
  <2>3. QED
    BY <2>2, FS_Subset
<1>2. Cardinality(S) \in Nat
  BY <1>1, FS_CardinalityType
<1>3. f \in [1..Cardinality(S) -> S]
  BY DEF InOrder
<1>4. \A k \in 1..Cardinality(S) : Qty[f[k]] \in Nat \ {0}
  <2>1. DOMAIN Drop = DOMAIN Qty /\ \A k \in DOMAIN Qty : Qty[k] \in Nat \ {0}
    BY BacktestAssumption
  <2>2. QED
    BY <1>3, <2>1
<1>5. \A k \in 1..Cardinality(S) :
        [side |-> "buy", qty |-> Qty[f[k]], id |-> 0] \in OrderType
  BY <1>4 DEF OrderType, Sides
<1>6. RungOrders(f) \in [1..Cardinality(S) -> OrderType]
  BY <1>3, <1>5 DEF RungOrders
<1> QED
  BY <1>2, <1>3, <1>6 DEF RungOrders

\* A window of closes has one of the five regimes.
LEMMA RegimeFact ==
  ASSUME NEW c
  PROVE  Regime(c) \in {"unknown", "high_vol", "trend_up", "trend_down", "range"}
<1> USE DEF Regime
<1>1. CASE Len(c) < Slow + 1 \/ Len(c) < VolWindow + 2
  BY <1>1
<1>2. CASE ~(Len(c) < Slow + 1 \/ Len(c) < VolWindow + 2) /\ HighVol(Returns(c))
  BY <1>2
<1>3. CASE ~(Len(c) < Slow + 1 \/ Len(c) < VolWindow + 2) /\ ~HighVol(Returns(c))
  BY <1>3
<1> QED
  BY <1>1, <1>2, <1>3

\* Equity, and the quantity a buy is reduced to.
LEMMA SizedFact ==
  ASSUME TypeOK, RunsFit, pc # "start", NEW n \in Nat \ {0}
  PROVE  Equity \in Int /\ (BuyPasses(n) => Sized(n) \in Nat \ {0})
<1>1. Close(bar) \in Nat \ {0} /\ qty \in Nat /\ cash \in Int
  BY PriceFact DEF TypeOK
<1>2. Scale \in Nat \ {0} /\ MaxPerSymbol \in Nat /\ RiskPerTrade \in Nat /\ AssumedStop \in Nat \ {0}
  BY BacktestAssumption
<1>3. \A x, y \in Nat \ {0} : x * y \in Nat \ {0}
  OBVIOUS
<1>4. \A x, y \in Int : x * y \in Int
  OBVIOUS
<1>5. Price \in Nat \ {0}
  BY <1>1, <1>2, <1>3 DEF Price
<1>6. Equity \in Int
  BY <1>1, <1>2, <1>4 DEF Equity
<1>7. 100 * Price \in Nat \ {0} /\ Price * AssumedStop \in Nat \ {0}
  BY <1>2, <1>3, <1>5
<1>8. Equity * MaxPerSymbol \in Int /\ Equity * RiskPerTrade \in Int
  BY <1>2, <1>4, <1>6
<1>9. (Equity * MaxPerSymbol) \div (100 * Price) \in Int /\ QtyRisk \in Int
  BY <1>7, <1>8 DEF QtyRisk
<1>10. MaxAdd \in Int
  BY <1>1, <1>9 DEF MaxAdd
<1>11. MaxAdd > 0 => Sized(n) \in Nat \ {0}
  BY <1>9, <1>10 DEF Sized, Smaller
<1> QED
  BY <1>6, <1>11 DEF BuyPasses

-----------------------------------------------------------------------------
(* The invariant is inductive *)

LEMMA InitInv == Init => IInv
<1> SUFFICES ASSUME Init PROVE IInv
  OBVIOUS
<1>1. Cash * Scale * Scale \in Int
  BY BacktestAssumption
<1>2. TypeOK
  <2>1. runs \in Seq(RunType)
    BY BacktestAssumption DEF Init
  <2>2. /\ pc = "start" /\ bar = 1 /\ qty = 0 /\ basis = 0 /\ anchor = 0 /\ rungs = {}
        /\ halted = FALSE /\ realized = 0 /\ fees = 0 /\ trail = NoTrail
        /\ cash \in Int /\ peak \in Int
        /\ pending = <<>> /\ todo = <<>> /\ passed = <<>> /\ decisions = <<>>
    BY <1>1 DEF Init
  <2>3. <<>> \in Seq(OrderType) /\ <<>> \in Seq(DecisionType)
    OBVIOUS
  <2>4. NoTrail \in [high: Nat, qty: Nat]
    BY DEF NoTrail
  <2>5. /\ pending \in Seq(OrderType) /\ todo \in Seq(OrderType) /\ passed \in Seq(OrderType)
        /\ decisions \in Seq(DecisionType) /\ trail \in [high: Nat, qty: Nat]
    BY <2>2, <2>3, <2>4
  <2>6. rungs \subseteq DOMAIN Drop /\ halted \in BOOLEAN
    BY <2>2
  <2>7. bar \in Nat /\ qty \in Nat /\ basis \in Nat /\ anchor \in Nat
        /\ realized \in Int /\ fees \in Nat
    BY <2>2
  <2>8. QED
    BY <2>1, <2>2, <2>5, <2>6, <2>7, Zenon DEF TypeOK
<1>3. RunsFit
  BY BacktestAssumption DEF Init, RunsFit, Range
<1>4. Flow /\ SoleSale
  BY DEF Init, Flow, SoleSale
<1>5. BooksBalance
  BY <1>1 DEF Init, BooksBalance
<1> QED
  BY <1>2, <1>3, <1>4, <1>5 DEF IInv

\* A step inside a bar that leaves the run alone.
LEMMA SameRunFact ==
  ASSUME RunsFit, pc # "start", UNCHANGED <<series, runs, bar>>
  PROVE  RunsFit' /\ Run' = Run /\ (Trailing' <=> Trailing)
  BY DEF RunsFit, Run, Trailing

\* The orders in hand are where they were.
LEMMA SameOrdersFact ==
  ASSUME SoleSale, pc # "start", UNCHANGED <<runs, todo, passed, pending, qty>>
  PROVE  SoleSale'
  BY DEF SoleSale, InHand, Trailing, Run

LEMMA SameBooksFact ==
  ASSUME BooksBalance, UNCHANGED <<cash, basis, realized, fees>>
  PROVE  BooksBalance'
  BY DEF BooksBalance

LEMMA StartStep == ASSUME IInv, StartRun PROVE IInv'
<1> USE DEF IInv
<1>1. Cash * Scale * Scale \in Int
  BY BacktestAssumption
<1>2. Run \in RunType /\ runs # <<>>
  BY DEF TypeOK, StartRun, Run
<1>3. Run.lo \in Nat \ {0} /\ Run.hi \in Nat /\ Run.kind \in Kinds
  BY <1>2 DEF RunType
<1>4. Run.lo <= Run.hi
  <2>1. Needed[Run.kind] \in Nat \ {0} /\ Warmup \in Nat
    BY <1>3, BacktestAssumption
  <2>2. QED
    BY <1>3, <2>1 DEF StartRun, LongEnough
<1>5. TypeOK'
  <2>1. /\ pc' = "open" /\ bar' \in Nat /\ qty' = 0 /\ basis' = 0 /\ anchor' = 0
        /\ rungs' = {} /\ halted' = FALSE /\ realized' = 0 /\ fees' = 0
        /\ trail' = NoTrail /\ cash' \in Int /\ peak' \in Int /\ pending' = <<>>
        /\ UNCHANGED <<runs, todo, passed, decisions>>
    BY <1>1, <1>3 DEF StartRun, FreshBroker, cycleVars, logVars
  <2>2. <<>> \in Seq(OrderType)
    OBVIOUS
  <2>3. NoTrail \in [high: Nat, qty: Nat]
    BY DEF NoTrail
  <2>4. pending' \in Seq(OrderType) /\ trail' \in [high: Nat, qty: Nat]
        /\ rungs' \subseteq DOMAIN Drop /\ halted' \in BOOLEAN
    BY <2>1, <2>2, <2>3
  <2>5. bar' \in Nat /\ qty' \in Nat /\ basis' \in Nat /\ anchor' \in Nat
        /\ realized' \in Int /\ fees' \in Nat
    BY <2>1
  <2>6. /\ runs' \in Seq(RunType) /\ todo' \in Seq(OrderType) /\ passed' \in Seq(OrderType)
        /\ decisions' \in Seq(DecisionType)
    BY <2>1 DEF TypeOK
  <2>7. QED
    BY <2>1, <2>4, <2>5, <2>6, Zenon DEF TypeOK
<1>6. RunsFit'
  BY <1>2, <1>3, <1>4 DEF RunsFit, StartRun, Run
<1>7. Flow'
  <2>1. todo' = <<>> /\ passed' = <<>> /\ pending' = <<>> /\ pc' = "open"
    BY DEF StartRun, FreshBroker, cycleVars, Flow
  <2>2. QED
    BY <2>1 DEF Flow
<1>8. SoleSale'
  BY DEF StartRun, FreshBroker, cycleVars, Flow, SoleSale
<1>9. BooksBalance'
  BY <1>1 DEF StartRun, FreshBroker, BooksBalance
<1> QED
  BY <1>5, <1>6, <1>7, <1>8, <1>9

LEMMA SkipStep == ASSUME IInv, SkipRun PROVE IInv'
<1> USE DEF IInv
<1>1. Tail(runs) \in Seq(RunType)
  BY DEF TypeOK, SkipRun
<1>2. TypeOK'
  BY <1>1 DEF TypeOK, SkipRun, brokerVars, ladderVars, guardVars, cycleVars, logVars, bookVars
<1>3. RunsFit'
  <2>1. \A k \in DOMAIN Tail(runs) : k + 1 \in DOMAIN runs /\ Tail(runs)[k] = runs[k + 1]
    BY DEF TypeOK, SkipRun
  <2>2. QED
    BY <2>1 DEF RunsFit, SkipRun
<1>4. Flow' /\ SoleSale'
  BY DEF Flow, SoleSale, SkipRun, brokerVars, cycleVars
<1>5. BooksBalance'
  BY DEF BooksBalance, SkipRun, brokerVars, bookVars
<1> QED
  BY <1>2, <1>3, <1>4, <1>5

LEMMA FillStep == ASSUME IInv, FillOrder PROVE IInv'
<1> USE DEF IInv
<1> DEFINE order == Head(pending)
           p     == series.open[bar]
<1>1. /\ pc = "open" /\ pending # <<>> /\ pending' = Tail(pending)
      /\ UNCHANGED <<series, runs, pc, bar, ladderVars, guardVars, cycleVars, vetoed>>
  BY DEF FillOrder
<1>2. p \in Nat \ {0}
  BY <1>1, PriceFact
<1>3. order \in OrderType /\ Tail(pending) \in Seq(OrderType) /\ order = pending[1]
      /\ 1 \in DOMAIN pending
  BY <1>1 DEF TypeOK
<1>4. order.qty \in Nat \ {0} /\ order.id \in Nat
  BY <1>3, OrderFact
<1>5. RunsFit' /\ Run' = Run /\ (Trailing' <=> Trailing)
  BY <1>1, SameRunFact
<1>6. todo = <<>> /\ passed = <<>> /\ todo' = <<>> /\ passed' = <<>>
  BY <1>1 DEF Flow, cycleVars
<1>7. Flow'
  BY <1>1, <1>5, <1>6 DEF Flow
<1>8. CASE order.side = "buy" /\ FillBuy(p, order.qty)
           /\ decisions' = IF Run.learn THEN Bought(decisions, order.id, BuyPrice(p))
                           ELSE decisions
  <2>1. /\ cash' \in Int /\ fees' \in Nat /\ basis' \in Nat /\ qty' \in Nat
        /\ UNCHANGED <<trail, realized>> /\ BooksBalance'
    BY <1>2, <1>4, <1>8, FillBuyFact
  <2>2. decisions' \in Seq(DecisionType)
    <3>1. decisions \in Seq(DecisionType)
      BY DEF TypeOK
    <3>2. BuyPrice(p) \in Nat
      BY <1>2, FillFact
    <3>3. Bought(decisions, order.id, BuyPrice(p)) \in Seq(DecisionType)
      BY <1>4, <3>1, <3>2, LogFact
    <3>4. QED
      BY <1>8, <3>1, <3>3
  <2>3. TypeOK'
    BY <1>1, <1>3, <2>1, <2>2 DEF TypeOK, ladderVars, guardVars, cycleVars
  <2>4. \A k \in DOMAIN pending : pending[k].side # "sell"
    <3> SUFFICES ASSUME NEW k \in DOMAIN pending, pending[k].side = "sell"
                 PROVE  FALSE
      OBVIOUS
    <3>1. Len(pending) = 1
      BY <1>1, <1>6 DEF SoleSale, InHand, TypeOK
    <3>2. k = 1
      BY <3>1 DEF TypeOK
    <3>3. QED
      BY <1>3, <1>8, <3>2
  <2>5. \A k \in DOMAIN Tail(pending) : k + 1 \in DOMAIN pending /\ Tail(pending)[k] = pending[k + 1]
    BY <1>1 DEF TypeOK
  <2>6. SoleSale'
    BY <1>1, <1>6, <2>4, <2>5 DEF SoleSale
  <2>7. QED
    BY <1>5, <1>7, <2>1, <2>3, <2>6
<1>9. CASE order.side = "sell" /\ FillSell(p, order.qty)
           /\ decisions' = IF Run.learn THEN Sold(decisions, order.qty, SellPrice(p))
                           ELSE decisions
  <2>1. order.qty = qty /\ Len(pending) = 1
    BY <1>1, <1>3, <1>6, <1>9 DEF SoleSale, InHand, TypeOK
  <2>2. /\ cash' \in Int /\ realized' \in Int /\ basis' = 0 /\ qty' = 0
        /\ trail' = NoTrail /\ UNCHANGED fees /\ BooksBalance'
    BY <1>2, <1>4, <1>9, <2>1, FillSellFact
  <2>3. decisions' \in Seq(DecisionType)
    <3>1. decisions \in Seq(DecisionType)
      BY DEF TypeOK
    <3>2. SellPrice(p) \in Nat
      BY <1>2, FillFact
    <3>3. Sold(decisions, order.qty, SellPrice(p)) \in Seq(DecisionType)
      BY <1>4, <3>1, <3>2, LogFact
    <3>4. QED
      BY <1>9, <3>1, <3>3
  <2>4. TypeOK'
    BY <1>1, <1>3, <2>2, <2>3 DEF TypeOK, ladderVars, guardVars, cycleVars, NoTrail
  <2>5. pending' = <<>>
    BY <1>1, <2>1 DEF TypeOK
  <2>6. SoleSale'
    BY <1>6, <2>5 DEF SoleSale
  <2>7. QED
    BY <1>5, <1>7, <2>2, <2>4, <2>6
<1> QED
  BY <1>8, <1>9 DEF FillOrder

LEMMA OpenedStep == ASSUME IInv, Opened PROVE IInv'
<1> USE DEF IInv
<1>1. /\ UNCHANGED <<series, runs, bar, cash, qty, basis, realized, fees, pending, trail,
                     todo, passed, ladderVars, guardVars, logVars>>
      /\ pc = "open" /\ pending = <<>> /\ pc' \in {"mark", "enter", "evaluate"}
      /\ (pc' = "enter" => Trailing)
  BY DEF Opened, brokerVars, cycleVars, bookVars
<1>2. RunsFit' /\ Run' = Run /\ (Trailing' <=> Trailing)
  BY <1>1, SameRunFact DEF RunsFit, Run
<1>3. TypeOK'
  BY <1>1 DEF TypeOK, ladderVars, guardVars, logVars
<1>4. Flow'
  BY <1>1, <1>2 DEF Flow
<1>5. SoleSale' /\ BooksBalance'
  BY <1>1, SameOrdersFact, SameBooksFact
<1> QED
  BY <1>2, <1>3, <1>4, <1>5

\* The shares of the trailing stop's position are at least none.
LEMMA RoundFact ==
  ASSUME NEW n \in Nat, NEW d \in Nat \ {0}
  PROVE  RoundHalfEven(n, d) \in Nat
<1>1. n \div d \in Nat /\ n % d \in Nat
  OBVIOUS
<1> QED
  BY <1>1 DEF RoundHalfEven

LEMMA EnterStep == ASSUME IInv, Enter PROVE IInv'
<1> USE DEF IInv
<1> DEFINE n == RoundHalfEven(Cash, 2 * Close(bar))
<1>1. /\ pc = "enter" /\ pc' = "protect"
      /\ UNCHANGED <<series, runs, bar, pending, ladderVars, guardVars, cycleVars, logVars>>
      /\ \/ n > 0 /\ FillBuy(Close(bar), n)
         \/ UNCHANGED <<cash, qty, basis, trail, realized, fees>>
  BY DEF Enter
<1>2. Close(bar) \in Nat \ {0} /\ 2 * Close(bar) \in Nat \ {0} /\ Cash \in Nat
  BY <1>1, PriceFact, BacktestAssumption
<1>3. n \in Nat
  BY <1>2, RoundFact
<1> HIDE DEF n
<1>4. RunsFit' /\ Run' = Run /\ (Trailing' <=> Trailing)
  BY <1>1, SameRunFact
<1>5. todo = <<>> /\ passed = <<>> /\ todo' = <<>> /\ passed' = <<>> /\ Trailing
      /\ pending = <<>> /\ pending' = <<>>
  BY <1>1 DEF Flow, cycleVars
<1>6. Flow' /\ SoleSale'
  BY <1>1, <1>4, <1>5 DEF Flow, SoleSale
<1>7. TypeOK' /\ BooksBalance'
  <2>1. CASE n > 0 /\ FillBuy(Close(bar), n)
    <3>1. /\ cash' \in Int /\ fees' \in Nat /\ basis' \in Nat /\ qty' \in Nat
          /\ UNCHANGED <<trail, realized>> /\ BooksBalance'
      BY <1>2, <1>3, <2>1, FillBuyFact
    <3>2. QED
      BY <1>1, <3>1 DEF TypeOK, ladderVars, guardVars, cycleVars, logVars
  <2>2. CASE UNCHANGED <<cash, qty, basis, trail, realized, fees>>
    BY <1>1, <2>2, SameBooksFact DEF TypeOK, ladderVars, guardVars, cycleVars, logVars
  <2>3. QED
    BY <1>1, <2>1, <2>2
<1> QED
  BY <1>4, <1>6, <1>7

LEMMA ProtectStep == ASSUME IInv, Protect PROVE IInv'
<1> USE DEF IInv
<1>1. /\ pc = "protect" /\ pc' = "evaluate"
      /\ UNCHANGED <<series, runs, bar, cash, qty, basis, ladderVars, guardVars,
                     cycleVars, logVars, bookVars>>
  BY DEF Protect
<1>2. RunsFit' /\ Run' = Run /\ (Trailing' <=> Trailing)
  BY <1>1, SameRunFact
<1>3. todo = <<>> /\ passed = <<>> /\ todo' = <<>> /\ passed' = <<>> /\ Trailing
      /\ pending = <<>>
  BY <1>1 DEF Flow, cycleVars
<1>4. \/ pending' = pending /\ trail' \in [high: Nat, qty: Nat]
      \/ /\ pending' = <<[side |-> "sell", qty |-> qty, id |-> 0]>> /\ qty \in Nat \ {0}
         /\ trail' = NoTrail
  <2>1. Close(bar) \in Nat /\ trail \in [high: Nat, qty: Nat] /\ qty \in Nat
    BY <1>1, PriceFact DEF TypeOK
  <2>2. CASE UNCHANGED <<pending, trail>>
    BY <2>1, <2>2
  <2>3. CASE UNCHANGED pending /\
             trail' = [trail EXCEPT !.high = IF Close(bar) > trail.high THEN Close(bar) ELSE trail.high]
    BY <2>1, <2>3
  <2>4. CASE /\ qty > 0 /\ trail' = NoTrail
             /\ pending' = Append(pending, [side |-> "sell", qty |-> qty, id |-> 0])
    BY <1>3, <2>1, <2>4
  <2>5. QED
    BY <2>2, <2>3, <2>4 DEF Protect
<1>5. TypeOK'
  <2>1. pending' \in Seq(OrderType) /\ trail' \in [high: Nat, qty: Nat]
    <3>1. CASE pending' = pending /\ trail' \in [high: Nat, qty: Nat]
      BY <3>1 DEF TypeOK
    <3>2. CASE /\ pending' = <<[side |-> "sell", qty |-> qty, id |-> 0]>> /\ qty \in Nat \ {0}
               /\ trail' = NoTrail
      <4>1. [side |-> "sell", qty |-> qty, id |-> 0] \in OrderType
        BY <3>2 DEF OrderType, Sides
      <4>2. QED
        BY <3>2, <4>1 DEF NoTrail
    <3>3. QED
      BY <1>4, <3>1, <3>2
  <2>2. QED
    BY <1>1, <2>1 DEF TypeOK, ladderVars, guardVars, cycleVars, logVars, bookVars
<1>6. Flow'
  BY <1>1, <1>2, <1>3 DEF Flow
<1>7. SoleSale'
  BY <1>1, <1>2, <1>3, <1>4 DEF SoleSale
<1>8. BooksBalance'
  BY <1>1, SameBooksFact DEF bookVars
<1> QED
  BY <1>2, <1>5, <1>6, <1>7, <1>8

\* What the strategies ask for goes to the gate, to the broker, or nowhere.
LEMMA RouteFact ==
  ASSUME IInv, pc = "evaluate", NEW intents \in Seq(OrderType), Route(intents)
  PROVE  /\ todo' = intents /\ pc' \in {"mark", "judge", "submit", "risk"}
         /\ (intents = <<>> => pc' = "mark") /\ (pc' = "mark" => intents = <<>>)
         /\ peak' \in Int /\ halted' \in BOOLEAN
<1> USE DEF IInv
<1>1. Equity \in Int
  <2>1. Close(bar) \in Nat /\ qty \in Nat /\ cash \in Int /\ Scale \in Nat
    BY PriceFact, BacktestAssumption DEF TypeOK
  <2>2. \A x, y \in Int : x * y \in Int
    OBVIOUS
  <2>3. QED
    BY <2>1, <2>2 DEF Equity
<1>2. Judged \in {"judge", "submit"}
  BY DEF Judged
<1>3. peak \in Int /\ halted \in BOOLEAN
  BY DEF TypeOK
<1>4. CASE intents = <<>> /\ pc' = "mark" /\ UNCHANGED guardVars
  BY <1>3, <1>4 DEF Route, guardVars
<1>5. CASE intents # <<>> /\ pc' = Judged /\ UNCHANGED guardVars
  BY <1>2, <1>3, <1>5 DEF Route, guardVars
<1>6. CASE intents # <<>> /\ pc' = "risk" /\ BeginCycle
  <2>1. peak' \in Int
    BY <1>1, <1>3, <1>6 DEF BeginCycle
  <2>2. halted' \in BOOLEAN
    BY <1>6 DEF BeginCycle
  <2>3. QED
    BY <1>6, <2>1, <2>2 DEF Route
<1> QED
  BY <1>4, <1>5, <1>6 DEF Route

LEMMA EvaluateTrailingStep == ASSUME IInv, EvaluateTrailing PROVE IInv'
<1> USE DEF IInv
<1> DEFINE it == [side |-> "trail", qty |-> qty, id |-> 0]
           intents == IF qty > 0 /\ trail.qty = 0 THEN <<it>> ELSE <<>>
<1>1. /\ pc = "evaluate" /\ Trailing /\ Route(intents)
      /\ UNCHANGED <<series, runs, bar, brokerVars, ladderVars, passed, logVars, bookVars>>
  BY DEF EvaluateTrailing
<1>2. intents \in Seq(OrderType) /\ \A k \in DOMAIN intents : intents[k].side = "trail"
  <2>1. CASE qty > 0 /\ trail.qty = 0
    <3>1. it \in OrderType
      BY <2>1 DEF TypeOK, OrderType, Sides
    <3>2. QED
      BY <2>1, <3>1
  <2>2. CASE ~(qty > 0 /\ trail.qty = 0)
    BY <2>2
  <2>3. QED
    BY <2>1, <2>2
<1> HIDE DEF intents
<1>3. /\ todo' = intents /\ pc' \in {"mark", "judge", "submit", "risk"}
      /\ (pc' = "mark" => intents = <<>>) /\ peak' \in Int /\ halted' \in BOOLEAN
  BY <1>1, <1>2, RouteFact
<1>4. RunsFit' /\ Run' = Run /\ (Trailing' <=> Trailing)
  BY <1>1, SameRunFact
<1>5. TypeOK'
  BY <1>1, <1>2, <1>3 DEF TypeOK, brokerVars, ladderVars, logVars, bookVars
<1>6. passed' = <<>>
  BY <1>1 DEF Flow
<1>7. Flow'
  BY <1>1, <1>2, <1>3, <1>4, <1>6 DEF Flow
<1>8. SoleSale'
  BY <1>1, <1>2, <1>3, <1>4, <1>6 DEF SoleSale, brokerVars
<1>9. BooksBalance'
  BY <1>1, SameBooksFact DEF brokerVars, bookVars
<1> QED
  BY <1>4, <1>5, <1>7, <1>8, <1>9

LEMMA EvaluateBrokenStep == ASSUME IInv, EvaluateBroken PROVE IInv'
<1> USE DEF IInv
<1>1. /\ pc = "evaluate" /\ ~Trailing /\ Route(Sale) /\ qty > 0
      /\ anchor' = 0 /\ rungs' = {}
      /\ UNCHANGED <<series, runs, bar, brokerVars, passed, logVars, bookVars>>
  BY DEF EvaluateBroken, Broken
<1>2. Sale \in Seq(OrderType) /\ Len(Sale) = 1 /\ Sale[1].qty = qty
  <2>1. [side |-> "sell", qty |-> qty, id |-> 0] \in OrderType
    BY <1>1 DEF TypeOK, OrderType, Sides
  <2>2. QED
    BY <2>1 DEF Sale
<1>3. /\ todo' = Sale /\ pc' \in {"mark", "judge", "submit", "risk"}
      /\ (pc' = "mark" => Sale = <<>>) /\ peak' \in Int /\ halted' \in BOOLEAN
  BY <1>1, <1>2, RouteFact
<1>4. RunsFit' /\ Run' = Run /\ (Trailing' <=> Trailing)
  BY <1>1, SameRunFact
<1>5. TypeOK'
  BY <1>1, <1>2, <1>3 DEF TypeOK, brokerVars, logVars, bookVars
<1>6. passed' = <<>> /\ pending = <<>> /\ pending' = <<>> /\ qty' = qty
  BY <1>1 DEF Flow, brokerVars
<1>7. Flow'
  BY <1>1, <1>2, <1>3, <1>4, <1>6 DEF Flow
<1>8. SoleSale'
  <2>1. InHand' = 1
    BY <1>2, <1>3, <1>6 DEF InHand
  <2>2. \A k \in DOMAIN Sale : Sale[k].qty = qty
    BY <1>2
  <2>3. QED
    BY <1>3, <1>6, <2>1, <2>2 DEF SoleSale
<1>9. BooksBalance'
  BY <1>1, SameBooksFact DEF brokerVars, bookVars
<1> QED
  BY <1>4, <1>5, <1>7, <1>8, <1>9

LEMMA EvaluateRungsStep == ASSUME IInv, EvaluateRungs PROVE IInv'
<1> USE DEF IInv
<1>1. PICK f \in InOrder(Reached) : Route(RungOrders(f))
  BY DEF EvaluateRungs
<1>2. /\ pc = "evaluate" /\ ~Trailing /\ anchor' = Anchor /\ rungs' = rungs \union Reached
      /\ UNCHANGED <<series, runs, bar, brokerVars, passed, logVars, bookVars>>
  BY DEF EvaluateRungs
<1>3. /\ RungOrders(f) \in Seq(OrderType)
      /\ \A k \in DOMAIN RungOrders(f) : RungOrders(f)[k].side = "buy"
  BY RungFact DEF Reached
<1>4. /\ todo' = RungOrders(f) /\ pc' \in {"mark", "judge", "submit", "risk"}
      /\ (pc' = "mark" => RungOrders(f) = <<>>) /\ peak' \in Int /\ halted' \in BOOLEAN
  BY <1>1, <1>2, <1>3, RouteFact
<1>5. RunsFit' /\ Run' = Run /\ (Trailing' <=> Trailing)
  BY <1>2, SameRunFact
<1>6. anchor' \in Nat /\ rungs' \subseteq DOMAIN Drop
  BY <1>2, PriceFact DEF Anchor, Reached, TypeOK
<1>7. TypeOK'
  BY <1>2, <1>3, <1>4, <1>6 DEF TypeOK, brokerVars, logVars, bookVars
<1>8. passed' = <<>> /\ pending' = <<>>
  BY <1>2 DEF Flow, brokerVars
<1>9. Flow'
  BY <1>2, <1>4, <1>5, <1>8 DEF Flow
<1>10. SoleSale'
  BY <1>3, <1>4, <1>8 DEF SoleSale
<1>11. BooksBalance'
  BY <1>2, SameBooksFact DEF brokerVars, bookVars
<1> QED
  BY <1>5, <1>7, <1>9, <1>10, <1>11

\* Queues of orders.
LEMMA AppendFact ==
  ASSUME NEW q \in Seq(OrderType), NEW o \in OrderType
  PROVE  /\ Append(q, o) \in Seq(OrderType) /\ Len(Append(q, o)) = Len(q) + 1
         /\ \A k \in DOMAIN Append(q, o) :
              (k \in DOMAIN q /\ Append(q, o)[k] = q[k]) \/ Append(q, o)[k] = o
  OBVIOUS

LEMMA TailFact ==
  ASSUME NEW q \in Seq(OrderType), q # <<>>
  PROVE  /\ Head(q) \in OrderType /\ 1 \in DOMAIN q /\ Head(q) = q[1]
         /\ Tail(q) \in Seq(OrderType) /\ Len(Tail(q)) = Len(q) - 1
         /\ Len(q) \in Nat \ {0}
         /\ \A k \in DOMAIN Tail(q) : k + 1 \in DOMAIN q /\ Tail(q)[k] = q[k + 1]
  OBVIOUS

\* An order passes a gate, unchanged if it is no buy, or is dropped there.
LEMMA GateFact ==
  ASSUME IInv, pc \in {"risk", "judge"}, todo # <<>>, NEW o \in OrderType,
         o.side = Head(todo).side, o.side = "sell" => o.qty = Head(todo).qty,
         todo' = Tail(todo), passed' = Append(passed, o) \/ passed' = passed,
         UNCHANGED <<series, runs, bar, pc, pending, qty>>
  PROVE  /\ todo' \in Seq(OrderType) /\ passed' \in Seq(OrderType)
         /\ RunsFit' /\ Flow' /\ SoleSale'
<1> USE DEF IInv
<1>1. todo \in Seq(OrderType) /\ passed \in Seq(OrderType) /\ pending \in Seq(OrderType)
  BY DEF TypeOK
<1>2. /\ Head(todo) = todo[1] /\ 1 \in DOMAIN todo /\ todo' \in Seq(OrderType)
      /\ Len(todo') = Len(todo) - 1 /\ Len(todo) \in Nat \ {0}
      /\ \A k \in DOMAIN todo' : k + 1 \in DOMAIN todo /\ todo'[k] = todo[k + 1]
  BY <1>1, TailFact
<1>3. /\ passed' \in Seq(OrderType) /\ Len(passed') \in {Len(passed), Len(passed) + 1}
      /\ \A k \in DOMAIN passed' :
           (k \in DOMAIN passed /\ passed'[k] = passed[k]) \/ (passed'[k] = o /\ passed' # passed)
      /\ (passed' # passed => Len(passed') = Len(passed) + 1)
  BY <1>1, AppendFact
<1>4. RunsFit' /\ Run' = Run /\ (Trailing' <=> Trailing)
  BY SameRunFact
<1>5. Flow'
  <2>1. /\ pc \notin {"enter", "protect", "evaluate", "start"} /\ pc' = pc
    OBVIOUS
  <2>2. Trailing => Head(todo).side = "trail"
    BY <1>2, <2>1 DEF Flow
  <2>3. Trailing => /\ \A k \in DOMAIN todo' : todo'[k].side = "trail"
                    /\ \A k \in DOMAIN passed' : passed'[k].side = "trail"
    BY <1>2, <1>3, <2>1, <2>2 DEF Flow
  <2>4. QED
    BY <1>4, <2>1, <2>3 DEF Flow
<1>6. SoleSale'
  <2>1. Len(pending) \in Nat /\ Len(passed) \in Nat
    BY <1>1
  <2>2. Trailing => Head(todo).side # "sell"
    BY <1>2 DEF Flow
  <2>3. ASSUME NEW k \in DOMAIN pending, pending[k].side = "sell"
        PROVE  pending[k].qty = qty /\ (IF Trailing THEN Len(pending) ELSE InHand') = 1
    <3>1. pending[k].qty = qty /\ (IF Trailing THEN Len(pending) ELSE InHand) = 1
      BY <2>3 DEF SoleSale
    <3>2. Len(pending) \in Nat \ {0}
      BY <1>1, <2>3
    <3>3. CASE Trailing
      BY <3>1, <3>3
    <3>4. CASE ~Trailing
      BY <1>2, <2>1, <3>1, <3>2, <3>4 DEF InHand
    <3>5. QED
      BY <3>3, <3>4
  <2>4. ASSUME NEW k \in DOMAIN todo', todo'[k].side = "sell"
        PROVE  FALSE
    <3>1. InHand = 1
      BY <1>2, <2>4 DEF SoleSale
    <3>2. Len(todo') \in Nat \ {0}
      BY <1>2, <2>4
    <3>3. QED
      BY <1>2, <2>1, <3>1, <3>2 DEF InHand
  <2>5. ASSUME NEW k \in DOMAIN passed', passed'[k].side = "sell"
        PROVE  passed'[k].qty = qty /\ InHand' = 1
    <3>1. CASE k \in DOMAIN passed /\ passed'[k] = passed[k]
      <4>1. passed[k].qty = qty /\ InHand = 1
        BY <2>5, <3>1 DEF SoleSale
      <4>2. Len(passed) \in Nat \ {0}
        BY <1>1, <3>1
      <4>3. QED
        BY <1>2, <2>1, <4>1, <4>2 DEF InHand
    <3>2. CASE passed'[k] = o /\ passed' # passed
      <4>1. todo[1].qty = qty /\ InHand = 1
        BY <1>2, <2>5, <3>2 DEF SoleSale
      <4>2. InHand' = InHand
        <5>1. Len(passed') = Len(passed) + 1 /\ Len(passed) \in Nat
          BY <1>2, <1>3, <2>1, <3>2
        <5>2. Len(todo') = Len(todo) - 1 /\ Len(todo) \in Nat /\ Len(pending') = Len(pending)
              /\ Len(pending) \in Nat
          BY <1>2, <1>3, <2>1
        <5> QED
          BY <5>1, <5>2 DEF InHand
      <4>3. passed'[k].qty = qty
        BY <1>2, <2>5, <3>2, <4>1
      <4>4. QED
        BY <4>1, <4>2, <4>3
    <3>3. QED
      BY <1>3, <3>1, <3>2
  <2>6. QED
    BY <1>4, <2>3, <2>4, <2>5 DEF SoleSale
<1> QED
  BY <1>2, <1>3, <1>4, <1>5, <1>6

\* What passed the gate goes on to the next.
LEMMA ForwardFact ==
  ASSUME IInv, pc \in {"risk", "judge"}, todo = <<>>, todo' = passed, passed' = <<>>,
         pc' \in {"judge", "submit"}, UNCHANGED <<series, runs, bar, pending, qty>>
  PROVE  /\ todo' \in Seq(OrderType) /\ passed' \in Seq(OrderType)
         /\ RunsFit' /\ Flow' /\ SoleSale'
<1> USE DEF IInv
<1>1. RunsFit' /\ Run' = Run /\ (Trailing' <=> Trailing)
  BY SameRunFact
<1>2. todo' \in Seq(OrderType) /\ passed' \in Seq(OrderType)
  BY DEF TypeOK
<1>3. Flow'
  BY <1>1 DEF Flow
<1>4. InHand' = InHand
  BY <1>2 DEF InHand, TypeOK
<1>5. SoleSale'
  BY <1>1, <1>4 DEF SoleSale
<1> QED
  BY <1>1, <1>2, <1>3, <1>5

LEMMA AssessStep == ASSUME IInv, Assess PROVE IInv'
<1> USE DEF IInv
<1> DEFINE it == Head(todo)
           cut == [it EXCEPT !.qty = Sized(it.qty)]
<1>1. /\ pc = "risk" /\ todo # <<>> /\ todo' = Tail(todo)
      /\ UNCHANGED <<series, runs, pc, bar, brokerVars, ladderVars, guardVars, logVars, bookVars>>
  BY DEF Assess
<1>2. it \in OrderType
  BY <1>1, TailFact DEF TypeOK
<1>3. it.side \in Sides /\ it.qty \in Nat \ {0} /\ it.id \in Nat
  BY <1>2, OrderFact
<1>4. /\ todo' \in Seq(OrderType) /\ passed' \in Seq(OrderType)
      /\ RunsFit' /\ Flow' /\ SoleSale'
  <2>1. CASE passed' = Append(passed, it) \/ passed' = passed
    BY <1>1, <1>2, <2>1, GateFact DEF brokerVars
  <2>2. CASE it.side = "buy" /\ BuyPasses(it.qty) /\ passed' = Append(passed, cut)
    <3>1. Sized(it.qty) \in Nat \ {0}
      BY <1>1, <1>3, <2>2, SizedFact
    <3>2. cut \in OrderType
      BY <1>2, <3>1 DEF OrderType
    <3>3. cut.side = "buy"
      BY <1>2, <2>2 DEF OrderType
    <3> HIDE DEF cut
    <3>4. QED
      BY <1>1, <2>2, <3>2, <3>3, GateFact DEF brokerVars
  <2>3. QED
    BY <2>1, <2>2 DEF Assess
<1>5. TypeOK'
  BY <1>1, <1>4 DEF TypeOK, brokerVars, ladderVars, guardVars, logVars, bookVars
<1>6. BooksBalance'
  BY <1>1, SameBooksFact DEF brokerVars, bookVars
<1> QED
  BY <1>4, <1>5, <1>6

LEMMA AssessedStep == ASSUME IInv, Assessed PROVE IInv'
<1> USE DEF IInv
<1>1. /\ pc = "risk" /\ todo = <<>> /\ todo' = passed /\ passed' = <<>>
      /\ pc' \in {"judge", "submit"}
      /\ UNCHANGED <<series, runs, bar, brokerVars, ladderVars, guardVars, logVars, bookVars>>
  BY DEF Assessed, Judged
<1>2. /\ todo' \in Seq(OrderType) /\ passed' \in Seq(OrderType)
      /\ RunsFit' /\ Flow' /\ SoleSale'
  BY <1>1, ForwardFact DEF brokerVars
<1>3. TypeOK' /\ BooksBalance'
  BY <1>1, <1>2, SameBooksFact DEF TypeOK, brokerVars, ladderVars, guardVars, logVars, bookVars
<1> QED
  BY <1>2, <1>3

LEMMA JudgeStep == ASSUME IInv, Judge PROVE IInv'
<1> USE DEF IInv
<1> DEFINE it == Head(todo)
           named == [it EXCEPT !.id = Len(decisions) + 1]
           allowed == ~Loses(Regime(RecentBars))
<1>1. /\ pc = "judge" /\ todo # <<>> /\ todo' = Tail(todo)
      /\ decisions' = Append(decisions, Decision(it, allowed))
      /\ passed' = IF allowed THEN Append(passed, named) ELSE passed
      /\ UNCHANGED <<series, runs, pc, bar, brokerVars, ladderVars, guardVars, vetoed, bookVars>>
  BY DEF Judge
<1>2. it \in OrderType
  BY <1>1, TailFact DEF TypeOK
<1>3. it.side \in Sides /\ it.qty \in Nat \ {0}
  BY <1>2, OrderFact
<1>4. Len(decisions) \in Nat /\ decisions \in Seq(DecisionType)
  BY DEF TypeOK
<1>5. named \in OrderType /\ named.side = it.side /\ named.qty = it.qty
  BY <1>2, <1>4 DEF OrderType
<1> HIDE DEF allowed
<1>6. Decision(it, allowed) \in DecisionType
  <2>1. Regime(RecentBars) \in {"unknown", "high_vol", "trend_up", "trend_down", "range"}
    BY RegimeFact
  <2>2. Close(bar) \in Nat \ {0} /\ (bar = Run.hi) \in BOOLEAN /\ Len(runs) \in Nat
    BY <1>1, PriceFact DEF TypeOK
  <2>3. QED
    BY <1>3, <2>1, <2>2 DEF Decision, DecisionType
<1>7. decisions' \in Seq(DecisionType)
  BY <1>1, <1>4, <1>6
<1> HIDE DEF named
<1>8. /\ todo' \in Seq(OrderType) /\ passed' \in Seq(OrderType)
      /\ RunsFit' /\ Flow' /\ SoleSale'
  BY <1>1, <1>5, GateFact DEF brokerVars
<1>9. TypeOK'
  BY <1>1, <1>7, <1>8 DEF TypeOK, brokerVars, ladderVars, guardVars, bookVars
<1>10. BooksBalance'
  BY <1>1, SameBooksFact DEF brokerVars, bookVars
<1> QED
  BY <1>8, <1>9, <1>10

LEMMA JudgedAllStep == ASSUME IInv, JudgedAll PROVE IInv'
<1> USE DEF IInv
<1>1. /\ pc = "judge" /\ todo = <<>> /\ todo' = passed /\ passed' = <<>> /\ pc' = "submit"
      /\ UNCHANGED <<series, runs, bar, brokerVars, ladderVars, guardVars, logVars, bookVars>>
  BY DEF JudgedAll
<1>2. /\ todo' \in Seq(OrderType) /\ passed' \in Seq(OrderType)
      /\ RunsFit' /\ Flow' /\ SoleSale'
  BY <1>1, ForwardFact DEF brokerVars
<1>3. TypeOK' /\ BooksBalance'
  BY <1>1, <1>2, SameBooksFact DEF TypeOK, brokerVars, ladderVars, guardVars, logVars, bookVars
<1> QED
  BY <1>2, <1>3

LEMMA SubmitStep == ASSUME IInv, Submit PROVE IInv'
<1> USE DEF IInv
<1> DEFINE it == Head(todo)
<1>1. /\ pc = "submit" /\ todo # <<>> /\ todo' = Tail(todo) /\ pc' = pc
      /\ UNCHANGED <<series, runs, bar, cash, qty, basis, ladderVars, guardVars, passed,
                     logVars, bookVars>>
  BY DEF Submit
<1>2. \/ /\ it.side = "trail" /\ pending' = pending
         /\ trail' = [high |-> Close(bar), qty |-> it.qty]
      \/ it.side # "trail" /\ pending' = Append(pending, it) /\ trail' = trail
  BY DEF Submit
<1>3. todo \in Seq(OrderType) /\ pending \in Seq(OrderType) /\ passed = <<>>
      /\ trail \in [high: Nat, qty: Nat]
  BY <1>1 DEF TypeOK, Flow
<1>4. /\ it \in OrderType /\ it = todo[1] /\ 1 \in DOMAIN todo
      /\ todo' \in Seq(OrderType) /\ Len(todo') = Len(todo) - 1 /\ Len(todo) \in Nat \ {0}
      /\ \A k \in DOMAIN todo' : k + 1 \in DOMAIN todo /\ todo'[k] = todo[k + 1]
  BY <1>1, <1>3, TailFact
<1>5. it.side \in Sides /\ it.qty \in Nat \ {0}
  BY <1>4, OrderFact
<1>6. RunsFit' /\ Run' = Run /\ (Trailing' <=> Trailing)
  BY <1>1, SameRunFact
<1>7. Flow'
  BY <1>1, <1>3, <1>4, <1>6 DEF Flow
<1>8. TypeOK'
  <2>1. pending' \in Seq(OrderType) /\ trail' \in [high: Nat, qty: Nat]
    <3>1. Close(bar) \in Nat
      BY <1>1, PriceFact
    <3>2. [high |-> Close(bar), qty |-> it.qty] \in [high: Nat, qty: Nat]
      BY <1>5, <3>1
    <3>3. Append(pending, it) \in Seq(OrderType)
      BY <1>3, <1>4, AppendFact
    <3> HIDE DEF it
    <3>4. QED
      BY <1>2, <1>3, <3>2, <3>3
  <2>2. QED
    BY <1>1, <1>4, <2>1 DEF TypeOK, ladderVars, guardVars, logVars, bookVars
<1>9. SoleSale'
  <2> DEFINE t == todo'
             d == pending'
  <2>1. \A k \in DOMAIN t : t[k].side # "sell"
    <3> SUFFICES ASSUME NEW k \in DOMAIN t, t[k].side = "sell" PROVE FALSE
      OBVIOUS
    <3>1. InHand = 1
      BY <1>1, <1>4 DEF SoleSale
    <3>2. Len(t) \in Nat \ {0} /\ Len(pending) \in Nat /\ Len(passed) = 0
      BY <1>3, <1>4
    <3>3. QED
      BY <1>4, <3>1, <3>2 DEF InHand
  <2>2. CASE it.side = "trail"
    <3>1. d = pending
      BY <1>2, <2>2
    <3>2. ASSUME NEW k \in DOMAIN pending, pending[k].side = "sell"
          PROVE  Trailing /\ pending[k].qty = qty /\ Len(pending) = 1
      <4>1. pending[k].qty = qty /\ (IF Trailing THEN Len(pending) ELSE InHand) = 1
        BY <1>1, <3>2 DEF SoleSale
      <4>2. Len(pending) \in Nat \ {0} /\ Len(passed) = 0
        BY <1>3, <3>2
      <4>3. Trailing
        BY <1>4, <4>1, <4>2 DEF InHand
      <4>4. QED
        BY <4>1, <4>3
    <3>3. QED
      BY <1>1, <1>3, <1>6, <2>1, <3>1, <3>2 DEF SoleSale
  <2>3. CASE it.side # "trail"
    <3>1. ~Trailing
      BY <1>1, <1>4, <2>3 DEF Flow
    <3>2. /\ Len(d) = Len(pending) + 1
          /\ \A k \in DOMAIN d : (k \in DOMAIN pending /\ d[k] = pending[k]) \/ d[k] = it
      BY <1>2, <1>3, <1>4, <2>3, AppendFact
    <3>3. InHand' = InHand
      BY <1>1, <1>3, <1>4, <3>2 DEF InHand
    <3>4. \A k \in DOMAIN pending : pending[k].side = "sell" =>
            pending[k].qty = qty /\ InHand = 1
      BY <1>1, <3>1 DEF SoleSale
    <3>5. it.side = "sell" => it.qty = qty /\ InHand = 1
      BY <1>1, <1>4 DEF SoleSale
    <3>6. \A k \in DOMAIN d : d[k].side = "sell" => d[k].qty = qty /\ InHand' = 1
      BY <3>2, <3>3, <3>4, <3>5
    <3>7. QED
      BY <1>1, <1>3, <1>6, <2>1, <3>1, <3>6 DEF SoleSale
  <2>4. QED
    BY <2>2, <2>3
<1>10. BooksBalance'
  BY <1>1, SameBooksFact DEF bookVars
<1> QED
  BY <1>6, <1>7, <1>8, <1>9, <1>10

LEMMA SubmittedStep == ASSUME IInv, Submitted PROVE IInv'
<1> USE DEF IInv
<1>1. /\ pc = "submit" /\ todo = <<>> /\ pc' = "mark"
      /\ UNCHANGED <<series, runs, bar, brokerVars, ladderVars, guardVars, cycleVars,
                     logVars, bookVars>>
  BY DEF Submitted
<1>2. RunsFit' /\ Run' = Run /\ (Trailing' <=> Trailing)
  BY <1>1, SameRunFact
<1>3. TypeOK'
  BY <1>1 DEF TypeOK, brokerVars, ladderVars, guardVars, cycleVars, logVars, bookVars
<1>4. Flow' /\ SoleSale' /\ BooksBalance'
  BY <1>1, <1>2, SameOrdersFact, SameBooksFact DEF Flow, brokerVars, cycleVars, bookVars
<1> QED
  BY <1>2, <1>3, <1>4

LEMMA MarkStep == ASSUME IInv, Mark PROVE IInv'
<1> USE DEF IInv
<1>1. /\ pc = "mark"
      /\ \/ bar < Run.hi /\ bar' = bar + 1 /\ pc' = "open"
         \/ bar = Run.hi /\ pc' = "finish" /\ UNCHANGED bar
      /\ UNCHANGED <<series, runs, brokerVars, ladderVars, guardVars, cycleVars, logVars, bookVars>>
  BY DEF Mark
<1>2. Run.lo \in Nat /\ Run.hi \in Nat /\ bar \in Nat
  BY <1>1, PriceFact
<1>3. RunsFit' /\ Run' = Run /\ (Trailing' <=> Trailing)
  BY <1>1, <1>2 DEF RunsFit, Run, Trailing
<1>4. TypeOK'
  BY <1>1, <1>2 DEF TypeOK, brokerVars, ladderVars, guardVars, cycleVars, logVars, bookVars
<1>5. Flow' /\ SoleSale' /\ BooksBalance'
  BY <1>1, <1>3, SameOrdersFact, SameBooksFact DEF Flow, brokerVars, cycleVars, bookVars
<1> QED
  BY <1>3, <1>4, <1>5

LEMMA FinishStep == ASSUME IInv, Finish PROVE IInv'
<1> USE DEF IInv
<1>1. /\ pc = "finish" /\ runs' = Tail(runs) /\ pc' = "start"
      /\ UNCHANGED <<series, bar, pending, ladderVars, guardVars, cycleVars>>
  BY DEF Finish
<1>2. Close(bar) \in Nat \ {0} /\ Tail(runs) \in Seq(RunType)
      /\ \A k \in DOMAIN Tail(runs) : Tail(runs)[k].hi <= Len(series.close)
  BY <1>1, PriceFact
<1>3. RunsFit'
  BY <1>1, <1>2 DEF RunsFit
<1>4. Flow' /\ SoleSale'
  BY <1>1 DEF Flow, SoleSale, cycleVars
<1>5. /\ decisions' \in Seq(DecisionType) /\ cash' \in Int /\ qty' \in Nat /\ basis' \in Nat
      /\ trail' \in [high: Nat, qty: Nat] /\ realized' \in Int /\ fees' \in Nat
      /\ BooksBalance'
  <2>1. CASE /\ qty > 0 /\ FillSell(Close(bar), qty)
             /\ decisions' = IF Run.learn THEN Sold(decisions, qty, SellPrice(Close(bar)))
                             ELSE decisions
    <3>1. /\ cash' \in Int /\ realized' \in Int /\ basis' = 0 /\ qty' = 0
          /\ trail' = NoTrail /\ UNCHANGED fees /\ BooksBalance'
      BY <1>2, <2>1, FillSellFact DEF TypeOK
    <3>2. decisions \in Seq(DecisionType) /\ qty \in Nat \ {0} /\ fees \in Nat
      BY <2>1 DEF TypeOK
    <3>3. SellPrice(Close(bar)) \in Nat
      BY <1>2, <3>2, FillFact
    <3>4. Sold(decisions, qty, SellPrice(Close(bar))) \in Seq(DecisionType)
      BY <3>2, <3>3, LogFact
    <3>5. QED
      BY <2>1, <3>1, <3>2, <3>4 DEF NoTrail
  <2>2. CASE UNCHANGED <<cash, qty, basis, trail, realized, fees, decisions>>
    BY <2>2, SameBooksFact DEF TypeOK
  <2>3. QED
    BY <2>1, <2>2 DEF Finish
<1>6. TypeOK'
  BY <1>1, <1>2, <1>5 DEF TypeOK, ladderVars, guardVars, cycleVars
<1> QED
  BY <1>3, <1>4, <1>5, <1>6

LEMMA StutterStep == ASSUME IInv, UNCHANGED vars PROVE IInv'
  BY DEF IInv, TypeOK, RunsFit, Flow, SoleSale, BooksBalance, InHand, Run, Trailing,
         vars, brokerVars, ladderVars, guardVars, cycleVars, logVars, bookVars

-----------------------------------------------------------------------------
(* Theorems *)

\* Every step of an experiment keeps the invariant.
THEOREM Invariance == Spec => []IInv
<1>1. IInv /\ [Next]_vars => IInv'
  BY StartStep, SkipStep, FillStep, OpenedStep, EnterStep, ProtectStep,
     EvaluateTrailingStep, EvaluateBrokenStep, EvaluateRungsStep, AssessStep, AssessedStep,
     JudgeStep, JudgedAllStep, SubmitStep, SubmittedStep, MarkStep, FinishStep, StutterStep
     DEF Next
<1> QED
  BY InitInv, <1>1, PTL DEF Spec

\* Every variable keeps its type; the position of the backtest broker is never
\* negative.
THEOREM TypeCorrect == Spec => []TypeOK
<1>1. IInv => TypeOK
  BY DEF IInv
<1> QED
  BY Invariance, <1>1, PTL

\* The cash of every run and the cost of what it holds are its starting cash,
\* its realized trades and the commissions of its buys (sim_broker.py, _fill_buy
\* and _fill_sell), for any prices and any costs.
THEOREM BooksBalanceHolds == Spec => []BooksBalance
<1>1. IInv => BooksBalance
  BY DEF IInv
<1> QED
  BY Invariance, <1>1, PTL

\* No sale fills for more or less than the position, whatever the prices, the
\* rungs, the limits and the policy: the backtest never goes short.
THEOREM SalesAreWholeHolds == Spec => []SalesAreWhole
<1>1. IInv => SalesAreWhole
  <2> SUFFICES ASSUME IInv, pc # "start", NEW k \in DOMAIN pending, pending[k].side = "sell"
               PROVE  pending[k].qty = qty /\ Len(pending) = 1
    BY DEF SalesAreWhole
  <2>1. pending[k].qty = qty /\ (IF Trailing THEN Len(pending) ELSE InHand) = 1
    BY DEF IInv, SoleSale
  <2>2. Len(pending) \in Nat \ {0} /\ Len(passed) \in Nat /\ Len(todo) \in Nat
    BY DEF IInv, TypeOK
  <2>3. CASE Trailing
    BY <2>1, <2>3
  <2>4. CASE ~Trailing
    <3>1. Len(pending) + Len(passed) + Len(todo) = 1
      BY <2>1, <2>4 DEF InHand
    <3>2. \A a \in Nat \ {0}, b, c \in Nat : a + b + c = 1 => a = 1
      OBVIOUS
    <3>3. Len(pending) = 1
      BY <2>2, <3>1, <3>2
    <3> QED
      BY <2>1, <3>3
  <2>5. QED
    BY <2>3, <2>4
<1> QED
  BY Invariance, <1>1, PTL

-----------------------------------------------------------------------------
(* The evidence of a combo.  EvidenceFromFills is not inductive: a sale    *)
(* closes whatever buys are open, so those must be known to be filled.     *)

\* Buys of the decision log that are open and were not recorded at a last bar.
OpenBuys == {k \in DOMAIN decisions :
               decisions[k].status = "open" /\ decisions[k].side = "buy" /\ ~decisions[k].last}

Carries(q, k) == \E j \in DOMAIN q : q[j].side = "buy" /\ q[j].id = k
OnItsWay(k) == Carries(pending, k) \/ Carries(passed, k) \/ Carries(todo, k)

\* Such a buy belongs to the run in hand and was filled, or its order is on its
\* way to an open of this run.
Accounted(k) ==
  /\ Run.learn /\ decisions[k].run = Len(runs)
  /\ \/ decisions[k].entry # 0 /\ qty > 0
     \/ OnItsWay(k) /\ (pc = "open" \/ bar < Run.hi)

OpenBuysAccounted == IF pc = "start" THEN OpenBuys = {} ELSE \A k \in OpenBuys : Accounted(k)

\* Only what was judged has the name of a decision.
Unjudged ==
  /\ pc = "judge" => Run.learn
  /\ pc = "finish" => bar = Run.hi
  /\ pc \in {"risk", "judge"} => \A j \in DOMAIN todo : todo[j].id = 0
  /\ pc = "risk" => \A j \in DOMAIN passed : passed[j].id = 0

EvidenceInv == EvidenceFromFills /\ OpenBuysAccounted /\ Unjudged

\* What a fill writes in the log.
LEMMA BoughtFact ==
  ASSUME NEW log \in Seq(DecisionType), NEW price \in Nat, NEW id \in Nat, NEW k \in DOMAIN log
  PROVE  LET t == Bought(log, id, price) IN
         /\ DOMAIN t = DOMAIN log
         /\ t[k].side = log[k].side /\ t[k].status = log[k].status /\ t[k].last = log[k].last
         /\ t[k].run = log[k].run /\ t[k].soldIn = log[k].soldIn
         /\ t[k].entry = IF k = id /\ log[k].status = "open" THEN price ELSE log[k].entry
<1>1. log[k] \in DecisionType
  OBVIOUS
<1> DEFINE r == [log[k] EXCEPT !.entry = price]
<1>2. /\ r.side = log[k].side /\ r.status = log[k].status /\ r.last = log[k].last
      /\ r.run = log[k].run /\ r.soldIn = log[k].soldIn /\ r.entry = price
  BY <1>1 DEF DecisionType
<1>3. DOMAIN Bought(log, id, price) = DOMAIN log
      /\ Bought(log, id, price)[k] = IF k = id /\ log[k].status = "open" THEN r ELSE log[k]
  BY DEF Bought
<1> HIDE DEF r
<1> QED
  BY <1>2, <1>3

LEMMA SoldDomain == \A log, n, price : DOMAIN Sold(log, n, price) = DOMAIN log
BY DEF Sold

LEMMA SoldFact ==
  ASSUME NEW log \in Seq(DecisionType), NEW price \in Nat, NEW n \in Nat, NEW k \in DOMAIN log
  PROVE  LET t == Sold(log, n, price) IN
         /\ DOMAIN t = DOMAIN log
         /\ t[k].side = log[k].side /\ t[k].last = log[k].last
         /\ t[k].run = log[k].run /\ t[k].entry = log[k].entry
         /\ IF log[k].status = "open" /\ log[k].side = "buy"
            THEN t[k].status = "closed" /\ t[k].soldIn = Len(runs)
            ELSE t[k] = log[k]
<1>1. log[k] \in DecisionType
  OBVIOUS
<1> DEFINE e == (price - (IF log[k].entry # 0 THEN log[k].entry ELSE log[k].ref * Scale)) * n
           r == [log[k] EXCEPT !.status = "closed", !.soldIn = Len(runs), !.pnl = e]
<1>2. /\ r.side = log[k].side /\ r.last = log[k].last /\ r.run = log[k].run
      /\ r.entry = log[k].entry /\ r.status = "closed" /\ r.soldIn = Len(runs)
  <2> HIDE DEF e
  <2> QED
    BY <1>1 DEF DecisionType
<1>3. DOMAIN Sold(log, n, price) = DOMAIN log
      /\ Sold(log, n, price)[k] =
           IF log[k].status # "open" \/ log[k].side # "buy" THEN log[k] ELSE r
  BY DEF Sold
<1> HIDE DEF r
<1> QED
  BY <1>2, <1>3

\* Orders stay on their way when their queue grows or loses another order.
LEMMA CarriesFact ==
  ASSUME NEW q \in Seq(OrderType), NEW k, Carries(q, k)
  PROVE  /\ \A o \in OrderType : Carries(Append(q, o), k)
         /\ q # <<>> /\ ~(Head(q).side = "buy" /\ Head(q).id = k) => Carries(Tail(q), k)
<1>1. PICK j \in DOMAIN q : q[j].side = "buy" /\ q[j].id = k
  BY DEF Carries
<1>2. ASSUME NEW o \in OrderType PROVE Carries(Append(q, o), k)
  <2>1. j \in DOMAIN Append(q, o) /\ Append(q, o)[j] = q[j]
    OBVIOUS
  <2> QED
    BY <1>1, <2>1 DEF Carries
<1>3. ASSUME q # <<>>, ~(Head(q).side = "buy" /\ Head(q).id = k) PROVE Carries(Tail(q), k)
  <2>1. j # 1
    BY <1>1, <1>3
  <2>2. j - 1 \in DOMAIN Tail(q) /\ Tail(q)[j - 1] = q[j]
    BY <1>3, <2>1
  <2> QED
    BY <1>1, <2>2 DEF Carries
<1> QED
  BY <1>2, <1>3

LEMMA CarriesLast ==
  ASSUME NEW q \in Seq(OrderType), NEW o \in OrderType, o.side = "buy"
  PROVE  Carries(Append(q, o), o.id)
<1>1. Len(q) + 1 \in DOMAIN Append(q, o) /\ Append(q, o)[Len(q) + 1] = o
  OBVIOUS
<1> QED
  BY <1>1 DEF Carries

LEMMA CarriesNothing == \A k : ~ Carries(<<>>, k)
BY DEF Carries

\* A step that writes nothing in the log and loses no order.
LEMMA LogKept ==
  ASSUME EvidenceInv, pc # "start", pc' # "start", UNCHANGED <<runs, decisions>>,
         qty > 0 => qty' > 0,
         \A k \in OpenBuys : OnItsWay(k) /\ (pc = "open" \/ bar < Run.hi) =>
                               OnItsWay(k)' /\ (pc' = "open" \/ bar' < Run.hi)
  PROVE  EvidenceFromFills' /\ OpenBuysAccounted'
<1>1. OpenBuys' = OpenBuys /\ Closed' = Closed /\ Run' = Run
  BY DEF OpenBuys, Closed, Run
<1>2. EvidenceFromFills'
  BY <1>1 DEF EvidenceInv, EvidenceFromFills
<1>3. ASSUME NEW k \in OpenBuys PROVE Accounted(k)'
  <2>1. Accounted(k)
    BY DEF EvidenceInv, OpenBuysAccounted
  <2>2. CASE decisions[k].entry # 0 /\ qty > 0
    BY <1>1, <2>1, <2>2 DEF Accounted
  <2>3. CASE OnItsWay(k) /\ (pc = "open" \/ bar < Run.hi)
    <3>1. OnItsWay(k)' /\ (pc' = "open" \/ bar' < Run'.hi)
      BY <1>1, <2>3
    <3> HIDE DEF OnItsWay
    <3> QED
      BY <1>1, <2>1, <3>1 DEF Accounted
  <2> QED
    BY <2>1, <2>2, <2>3 DEF Accounted
<1> QED
  BY <1>1, <1>2, <1>3 DEF OpenBuysAccounted

LEMMA EvidenceStart ==
  ASSUME EvidenceInv, StartRun \/ SkipRun
  PROVE  EvidenceInv'
<1>1. pc = "start" /\ decisions' = decisions /\ pc' \in {"start", "open"}
  BY DEF StartRun, SkipRun, logVars
<1>2. OpenBuys = {} /\ OpenBuys' = OpenBuys /\ Closed' = Closed
  BY <1>1 DEF EvidenceInv, OpenBuysAccounted, OpenBuys, Closed
<1> QED
  BY <1>1, <1>2 DEF EvidenceInv, EvidenceFromFills, OpenBuysAccounted, Unjudged

LEMMA EvidenceBuy ==
  ASSUME IInv, EvidenceInv, FillOrder, Head(pending).side = "buy"
  PROVE  EvidenceInv'
<1> DEFINE order == Head(pending)
           p     == BuyPrice(series.open[bar])
<1>1. /\ pc = "open" /\ pc' = "open" /\ pending # <<>> /\ pending' = Tail(pending)
      /\ UNCHANGED <<runs, bar, todo, passed>> /\ qty' = qty + order.qty
      /\ decisions' = IF Run.learn THEN Bought(decisions, order.id, p) ELSE decisions
  BY DEF FillOrder, FillBuy, cycleVars
<1>2. /\ order \in OrderType /\ pending \in Seq(OrderType) /\ decisions \in Seq(DecisionType)
      /\ qty \in Nat /\ todo = <<>> /\ passed = <<>>
  BY <1>1, TailFact DEF IInv, TypeOK, Flow
<1>3. order.qty \in Nat \ {0} /\ order.id \in Nat
  BY <1>2, OrderFact
<1>4. p \in Nat \ {0} /\ qty' > 0 /\ Run' = Run
  <2>1. series.open[bar] \in Nat \ {0}
    BY <1>1, PriceFact DEF IInv
  <2>2. p \in Nat \ {0}
    BY <1>3, <2>1, FillFact
  <2>3. qty' > 0
    BY <1>1, <1>2, <1>3
  <2> QED
    BY <1>1, <2>2, <2>3 DEF Run
<1> HIDE DEF order, p
<1>5. CASE ~ Run.learn
  <2>1. OpenBuys = {}
    BY <1>1, <1>5 DEF EvidenceInv, OpenBuysAccounted, Accounted
  <2>2. EvidenceFromFills' /\ OpenBuysAccounted'
    BY <1>1, <1>4, <1>5, <2>1, LogKept
  <2> QED
    BY <1>1, <2>2 DEF EvidenceInv, Unjudged
<1>6. CASE Run.learn
  <2>1. /\ DOMAIN decisions' = DOMAIN decisions
        /\ \A k \in DOMAIN decisions :
             /\ decisions'[k].side = decisions[k].side /\ decisions'[k].status = decisions[k].status
             /\ decisions'[k].last = decisions[k].last /\ decisions'[k].run = decisions[k].run
             /\ decisions'[k].soldIn = decisions[k].soldIn
             /\ decisions'[k].entry = IF k = order.id /\ decisions[k].status = "open" THEN p
                                      ELSE decisions[k].entry
    <3>1. decisions' = Bought(decisions, order.id, p)
      BY <1>1, <1>6
    <3>2. DOMAIN Bought(decisions, order.id, p) = DOMAIN decisions
      BY DEF Bought
    <3> QED
      BY <1>2, <1>3, <1>4, <3>1, <3>2, BoughtFact
  <2>2. OpenBuys' = OpenBuys /\ Closed' = Closed
    BY <2>1 DEF OpenBuys, Closed
  <2>3. EvidenceFromFills'
    BY <2>1, <2>2 DEF EvidenceInv, EvidenceFromFills, Closed
  <2>4. ASSUME NEW k \in OpenBuys PROVE Accounted(k)'
    <3>1. /\ k \in DOMAIN decisions /\ decisions[k].status = "open"
          /\ Accounted(k)
      BY <1>1 DEF OpenBuys, EvidenceInv, OpenBuysAccounted
    <3>2. CASE k = order.id \/ decisions[k].entry # 0
      BY <1>1, <1>4, <2>1, <3>1, <3>2 DEF Accounted
    <3>3. CASE k # order.id /\ decisions[k].entry = 0
      <4>1. Carries(pending, k)
        BY <1>2, <3>1, <3>3, CarriesNothing DEF Accounted, OnItsWay
      <4>2. Carries(pending', k)
        BY <1>1, <1>2, <3>3, <4>1, CarriesFact DEF order
      <4> QED
        BY <1>1, <1>4, <2>1, <3>1, <4>2 DEF Accounted, OnItsWay
    <3> QED
      BY <3>2, <3>3
  <2> QED
    BY <1>1, <2>2, <2>3, <2>4 DEF EvidenceInv, OpenBuysAccounted, Unjudged
<1> QED
  BY <1>5, <1>6

\* A sale that closes every open buy, when all of them are filled.
LEMMA EvidenceClosed ==
  ASSUME IInv, EvidenceInv, Run.learn, pc # "start", NEW n \in Nat, NEW price \in Nat,
         decisions' = Sold(decisions, n, price), \A k \in OpenBuys : decisions[k].entry # 0
  PROVE  EvidenceFromFills' /\ OpenBuys' = {}
<1>1. decisions \in Seq(DecisionType)
  BY DEF IInv, TypeOK
<1>2. /\ DOMAIN decisions' = DOMAIN decisions
      /\ \A k \in DOMAIN decisions :
           /\ decisions'[k].side = decisions[k].side /\ decisions'[k].last = decisions[k].last
           /\ decisions'[k].run = decisions[k].run /\ decisions'[k].entry = decisions[k].entry
           /\ IF decisions[k].status = "open" /\ decisions[k].side = "buy"
              THEN decisions'[k].status = "closed" /\ decisions'[k].soldIn = Len(runs)
              ELSE decisions'[k] = decisions[k]
  <2> DEFINE t == Sold(decisions, n, price)
  <2>1. DOMAIN t = DOMAIN decisions
    BY SoldDomain
  <2>2. ASSUME NEW k \in DOMAIN decisions
        PROVE  /\ t[k].side = decisions[k].side /\ t[k].last = decisions[k].last
               /\ t[k].run = decisions[k].run /\ t[k].entry = decisions[k].entry
               /\ IF decisions[k].status = "open" /\ decisions[k].side = "buy"
                  THEN t[k].status = "closed" /\ t[k].soldIn = Len(runs)
                  ELSE t[k] = decisions[k]
    BY <1>1, SoldFact
  <2>3. decisions' = t
    OBVIOUS
  <2> HIDE DEF t
  <2> QED
    BY <2>1, <2>2, <2>3
<1>3. OpenBuys' = {}
  BY <1>2 DEF OpenBuys
<1>4. ASSUME NEW k \in Closed'
      PROVE  decisions'[k].last \/ (decisions'[k].entry # 0 /\ decisions'[k].soldIn = decisions'[k].run)
  <2>1. CASE decisions[k].status = "open" /\ decisions[k].side = "buy"
    BY <1>2, <1>4, <2>1 DEF Closed, OpenBuys, EvidenceInv, OpenBuysAccounted, Accounted
  <2>2. CASE ~ (decisions[k].status = "open" /\ decisions[k].side = "buy")
    BY <1>2, <1>4, <2>2 DEF Closed, EvidenceInv, EvidenceFromFills
  <2> QED
    BY <2>1, <2>2
<1> QED
  BY <1>3, <1>4 DEF EvidenceFromFills

LEMMA EvidenceSale ==
  ASSUME IInv, EvidenceInv, FillOrder, Head(pending).side = "sell"
  PROVE  EvidenceInv'
<1> DEFINE order == Head(pending)
           p     == SellPrice(series.open[bar])
<1>1. /\ pc = "open" /\ pc' = "open" /\ pending # <<>> /\ pending' = Tail(pending)
      /\ UNCHANGED <<runs, bar, todo, passed>>
      /\ decisions' = IF Run.learn THEN Sold(decisions, order.qty, p) ELSE decisions
  BY DEF FillOrder, cycleVars
<1>2. /\ order \in OrderType /\ pending \in Seq(OrderType) /\ order = pending[1] /\ 1 \in DOMAIN pending
      /\ todo = <<>> /\ passed = <<>>
  BY <1>1, TailFact DEF IInv, TypeOK, Flow
<1>3. order.qty \in Nat /\ p \in Nat
  BY <1>1, <1>2, OrderFact, PriceFact, FillFact DEF IInv
<1>4. Len(pending) = 1
  BY <1>1, <1>2 DEF IInv, SoleSale, InHand
<1>5. \A k \in OpenBuys : Run.learn /\ decisions[k].entry # 0
  <2>1. \A k : ~ OnItsWay(k)
    BY <1>2, <1>4, CarriesNothing DEF OnItsWay, Carries
  <2> QED
    BY <1>1, <2>1 DEF EvidenceInv, OpenBuysAccounted, Accounted
<1>6. EvidenceFromFills' /\ OpenBuys' = {}
  <2>1. CASE Run.learn
    <3> HIDE DEF order, p
    <3> QED
      BY <1>1, <1>3, <1>5, <2>1, EvidenceClosed
  <2>2. CASE ~ Run.learn
    <3>1. OpenBuys = {} /\ decisions' = decisions
      BY <1>1, <1>5, <2>2
    <3> QED
      BY <3>1 DEF OpenBuys, EvidenceInv, EvidenceFromFills, Closed
  <2> QED
    BY <2>1, <2>2
<1> QED
  BY <1>1, <1>6 DEF EvidenceInv, OpenBuysAccounted, Unjudged

LEMMA EvidenceFill ==
  ASSUME IInv, EvidenceInv, FillOrder
  PROVE  EvidenceInv'
<1>1. Head(pending).side \in {"buy", "sell"}
  BY DEF FillOrder
<1> QED
  BY <1>1, EvidenceBuy, EvidenceSale

LEMMA EvidenceFinish ==
  ASSUME IInv, EvidenceInv, Finish
  PROVE  EvidenceInv'
<1>1. pc = "finish" /\ pc' = "start" /\ bar = Run.hi
  BY DEF Finish, EvidenceInv, Unjudged
<1>2. Run.hi \in Nat /\ qty \in Nat /\ SellPrice(Close(bar)) \in Nat
  <2>1. Close(bar) \in Nat \ {0} /\ Run.hi \in Nat
    BY <1>1, PriceFact DEF IInv
  <2>2. 1 \in Nat \ {0}
    OBVIOUS
  <2> QED
    BY <2>1, <2>2, FillFact DEF IInv, TypeOK
<1>3. \A k \in OpenBuys : Run.learn /\ decisions[k].entry # 0 /\ qty > 0
  BY <1>1, <1>2 DEF EvidenceInv, OpenBuysAccounted, Accounted
<1>4. EvidenceFromFills' /\ OpenBuys' = {}
  <2>1. CASE Run.learn /\ qty > 0
    <3>1. decisions' = Sold(decisions, qty, SellPrice(Close(bar)))
      BY <2>1 DEF Finish
    <3> QED
      BY <1>1, <1>2, <1>3, <2>1, <3>1, EvidenceClosed
  <2>2. CASE ~ (Run.learn /\ qty > 0)
    <3>1. OpenBuys = {} /\ decisions' = decisions
      BY <1>2, <1>3, <2>2 DEF Finish
    <3> QED
      BY <3>1 DEF OpenBuys, EvidenceInv, EvidenceFromFills, Closed
  <2> QED
    BY <2>1, <2>2
<1> QED
  BY <1>1, <1>4 DEF EvidenceInv, OpenBuysAccounted, Unjudged

\* With all queues but the broker's empty an order can only wait there.
LEMMA EvidenceIdle ==
  ASSUME EvidenceInv, pc # "start", pc' \notin {"start", "risk", "judge"}, pc' # "finish",
         UNCHANGED <<runs, decisions, bar>>, qty > 0 => qty' > 0,
         todo = <<>>, passed = <<>>, pc # "open" \/ pending = <<>>,
         \A k \in OpenBuys : Carries(pending, k) => Carries(pending', k)
  PROVE  EvidenceInv'
<1>1. \A k : OnItsWay(k) => Carries(pending, k)
  BY CarriesNothing DEF OnItsWay
<1>2. \A k : Carries(pending', k) => OnItsWay(k)'
  BY DEF OnItsWay
<1>3. Run' = Run
  BY DEF Run
<1>4. \A k \in OpenBuys : OnItsWay(k) /\ (pc = "open" \/ bar < Run.hi) =>
                           OnItsWay(k)' /\ (pc' = "open" \/ bar' < Run'.hi)
  <2> HIDE DEF OnItsWay
  <2> QED
    BY <1>1, <1>2, <1>3, CarriesNothing
<1>5. EvidenceFromFills' /\ OpenBuysAccounted'
  <2> HIDE DEF OnItsWay, OpenBuys
  <2> QED
    BY <1>3, <1>4, LogKept
<1> QED
  BY <1>5 DEF EvidenceInv, Unjudged

LEMMA EvidenceOpened == ASSUME IInv, EvidenceInv, Opened PROVE EvidenceInv'
<1>1. /\ pc = "open" /\ pending = <<>> /\ pc' \in {"mark", "enter", "evaluate"}
      /\ UNCHANGED <<runs, bar, qty, pending, decisions>>
  BY DEF Opened, brokerVars, logVars
<1>2. todo = <<>> /\ passed = <<>>
  BY <1>1 DEF IInv, Flow
<1> QED
  BY <1>1, <1>2, EvidenceIdle

LEMMA EvidenceEnter == ASSUME IInv, EvidenceInv, Enter PROVE EvidenceInv'
<1> DEFINE n == RoundHalfEven(Cash, 2 * Close(bar))
<1>1. /\ pc = "enter" /\ pc' = "protect" /\ UNCHANGED <<runs, bar, pending, decisions>>
      /\ (n > 0 /\ qty' = qty + n) \/ qty' = qty
  BY DEF Enter, FillBuy, logVars
<1>2. todo = <<>> /\ passed = <<>> /\ qty \in Nat
  BY <1>1 DEF IInv, Flow, TypeOK
<1>3. n \in Nat
  <2>1. 2 * Close(bar) \in Nat \ {0} /\ Cash \in Nat
    BY <1>1, PriceFact, BacktestAssumption DEF IInv
  <2> QED
    BY <2>1, RoundFact
<1> HIDE DEF n
<1>4. qty > 0 => qty' > 0
  BY <1>1, <1>2, <1>3
<1> QED
  BY <1>1, <1>2, <1>4, EvidenceIdle

LEMMA EvidenceProtect == ASSUME IInv, EvidenceInv, Protect PROVE EvidenceInv'
<1>1. /\ pc = "protect" /\ pc' = "evaluate" /\ UNCHANGED <<runs, bar, qty, decisions>>
  BY DEF Protect, logVars
<1>2. todo = <<>> /\ passed = <<>> /\ pending = <<>>
  BY <1>1 DEF IInv, Flow
<1> QED
  BY <1>1, <1>2, CarriesNothing, EvidenceIdle

LEMMA EvidenceRoute ==
  ASSUME IInv, EvidenceInv, pc = "evaluate", NEW intents \in Seq(OrderType), Route(intents),
         \A j \in DOMAIN intents : intents[j].id = 0,
         UNCHANGED <<runs, bar, qty, pending, passed, decisions>>
  PROVE  EvidenceInv'
<1>1. /\ todo' = intents /\ pc' \in {"mark", "judge", "submit", "risk"}
      /\ (pc' = "judge" => Run.learn)
  <2>1. todo' = intents /\ pc' \in {"mark", "judge", "submit", "risk"}
    BY RouteFact
  <2>2. pc' = "judge" => Run.learn
    BY DEF Route, Judged
  <2> QED
    BY <2>1, <2>2
<1>2. todo = <<>> /\ passed = <<>> /\ Run' = Run
  BY DEF IInv, Flow, Run
<1>3. \A k \in OpenBuys : OnItsWay(k) /\ (pc = "open" \/ bar < Run.hi) =>
                           OnItsWay(k)' /\ (pc' = "open" \/ bar' < Run'.hi)
  BY <1>2, CarriesNothing DEF OnItsWay
<1>4. EvidenceFromFills' /\ OpenBuysAccounted'
  <2> HIDE DEF OnItsWay, OpenBuys
  <2> QED
    BY <1>1, <1>2, <1>3, LogKept
<1>5. Unjudged'
  BY <1>1, <1>2 DEF Unjudged
<1> QED
  BY <1>4, <1>5 DEF EvidenceInv

LEMMA EvidenceTrailing == ASSUME IInv, EvidenceInv, EvaluateTrailing PROVE EvidenceInv'
<1> DEFINE it == [side |-> "trail", qty |-> qty, id |-> 0]
           intents == IF qty > 0 /\ trail.qty = 0 THEN <<it>> ELSE <<>>
<1>1. /\ pc = "evaluate" /\ Route(intents)
      /\ UNCHANGED <<runs, bar, qty, pending, passed, decisions>>
  BY DEF EvaluateTrailing, brokerVars, logVars
<1>2. intents \in Seq(OrderType) /\ \A j \in DOMAIN intents : intents[j].id = 0
  <2>1. CASE qty > 0 /\ trail.qty = 0
    <3>1. it \in OrderType
      BY <2>1 DEF IInv, TypeOK, OrderType, Sides
    <3> QED
      BY <2>1, <3>1
  <2>2. CASE ~(qty > 0 /\ trail.qty = 0)
    BY <2>2
  <2> QED
    BY <2>1, <2>2
<1> HIDE DEF intents
<1> QED
  BY <1>1, <1>2, EvidenceRoute

LEMMA EvidenceBroken == ASSUME IInv, EvidenceInv, EvaluateBroken PROVE EvidenceInv'
<1>1. /\ pc = "evaluate" /\ Route(Sale) /\ qty > 0
      /\ UNCHANGED <<runs, bar, qty, pending, passed, decisions>>
  BY DEF EvaluateBroken, Broken, brokerVars, logVars
<1>2. Sale \in Seq(OrderType) /\ \A j \in DOMAIN Sale : Sale[j].id = 0
  <2>1. [side |-> "sell", qty |-> qty, id |-> 0] \in OrderType
    BY <1>1 DEF IInv, TypeOK, OrderType, Sides
  <2> QED
    BY <2>1 DEF Sale
<1> QED
  BY <1>1, <1>2, EvidenceRoute

LEMMA EvidenceRungs == ASSUME IInv, EvidenceInv, EvaluateRungs PROVE EvidenceInv'
<1>1. PICK f \in InOrder(Reached) : Route(RungOrders(f))
  BY DEF EvaluateRungs
<1>2. pc = "evaluate" /\ UNCHANGED <<runs, bar, qty, pending, passed, decisions>>
  BY DEF EvaluateRungs, brokerVars, logVars
<1>3. RungOrders(f) \in Seq(OrderType)
  BY RungFact DEF Reached, IInv
<1>4. \A j \in DOMAIN RungOrders(f) : RungOrders(f)[j].id = 0
  BY DEF RungOrders
<1> QED
  BY <1>1, <1>2, <1>3, <1>4, EvidenceRoute

\* Before they are judged orders have no name, so a buy of the log waits in the
\* hands of the broker or among what was judged.
LEMMA NamelessFact ==
  ASSUME IInv, EvidenceInv, pc \in {"risk", "judge"}, NEW k \in OpenBuys
  PROVE  /\ ~ Carries(todo, k)
         /\ pc = "risk" => ~ Carries(passed, k)
<1>1. k # 0
  BY DEF OpenBuys, IInv, TypeOK
<1> QED
  BY <1>1 DEF Carries, EvidenceInv, Unjudged

LEMMA EvidenceAssess == ASSUME IInv, EvidenceInv, Assess PROVE EvidenceInv'
<1> DEFINE it == Head(todo)
           cut == [it EXCEPT !.qty = Sized(it.qty)]
<1>1. /\ pc = "risk" /\ todo # <<>> /\ todo' = Tail(todo)
      /\ UNCHANGED <<runs, pc, bar, qty, pending, decisions>>
      /\ passed' = Append(passed, it) \/ passed' = Append(passed, cut) \/ passed' = passed
  BY DEF Assess, brokerVars, logVars
<1>2. /\ it \in OrderType /\ 1 \in DOMAIN todo /\ it = todo[1] /\ passed \in Seq(OrderType)
      /\ \A k \in DOMAIN Tail(todo) : k + 1 \in DOMAIN todo /\ Tail(todo)[k] = todo[k + 1]
  BY <1>1, TailFact DEF IInv, TypeOK
<1>3. it.id = 0
  BY <1>1, <1>2 DEF EvidenceInv, Unjudged
<1>4. cut.id = 0
  BY <1>2, <1>3 DEF OrderType
<1> HIDE DEF it, cut
<1>5. \A k \in OpenBuys : OnItsWay(k) /\ (pc = "open" \/ bar < Run.hi) =>
                           OnItsWay(k)' /\ (pc' = "open" \/ bar' < Run'.hi)
  BY <1>1, NamelessFact DEF OnItsWay, Run
<1>6. EvidenceFromFills' /\ OpenBuysAccounted'
  <2> HIDE DEF OnItsWay, OpenBuys
  <2> QED
    BY <1>1, <1>5, LogKept
<1>7. \A j \in DOMAIN todo' : todo'[j].id = 0
  BY <1>1, <1>2 DEF EvidenceInv, Unjudged
<1>8. \A j \in DOMAIN passed' : passed'[j].id = 0
  <2>1. \A j \in DOMAIN passed : passed[j].id = 0
    BY <1>1 DEF EvidenceInv, Unjudged
  <2>2. \A o : o.id = 0 => \A j \in DOMAIN Append(passed, o) : Append(passed, o)[j].id = 0
    BY <1>2, <2>1
  <2> QED
    BY <1>1, <1>3, <1>4, <2>1, <2>2
<1> QED
  BY <1>1, <1>6, <1>7, <1>8 DEF EvidenceInv, Unjudged

LEMMA EvidenceAssessed == ASSUME IInv, EvidenceInv, Assessed PROVE EvidenceInv'
<1>1. /\ pc = "risk" /\ todo = <<>> /\ todo' = passed /\ passed' = <<>>
      /\ pc' \in {"judge", "submit"} /\ (pc' = "judge" => Run.learn) /\ Run' = Run
      /\ UNCHANGED <<runs, bar, qty, pending, decisions>>
  BY DEF Assessed, Judged, brokerVars, logVars, Run
<1>2. \A k \in OpenBuys : OnItsWay(k) /\ (pc = "open" \/ bar < Run.hi) =>
                           OnItsWay(k)' /\ (pc' = "open" \/ bar' < Run'.hi)
  BY <1>1, NamelessFact DEF OnItsWay
<1>3. EvidenceFromFills' /\ OpenBuysAccounted'
  <2> HIDE DEF OnItsWay, OpenBuys
  <2> QED
    BY <1>1, <1>2, LogKept
<1>4. Unjudged'
  BY <1>1 DEF Unjudged, EvidenceInv
<1> QED
  BY <1>3, <1>4 DEF EvidenceInv

LEMMA EvidenceJudge == ASSUME IInv, EvidenceInv, Judge PROVE EvidenceInv'
<1>0. PICK last \in Nat : last = Len(decisions) + 1
  BY DEF IInv, TypeOK
<1> DEFINE it == Head(todo)
           named == [it EXCEPT !.id = last]
           allowed == ~Loses(Regime(RecentBars))
           d == Decision(it, allowed)
<1>1. /\ pc = "judge" /\ todo # <<>> /\ todo' = Tail(todo)
      /\ decisions' = Append(decisions, d)
      /\ passed' = IF allowed THEN Append(passed, named) ELSE passed
      /\ UNCHANGED <<runs, pc, bar, qty, pending>> /\ Run' = Run
  BY <1>0 DEF Judge, brokerVars, Run
<1>2. /\ it \in OrderType /\ passed \in Seq(OrderType)
      /\ \A k \in DOMAIN Tail(todo) : k + 1 \in DOMAIN todo /\ Tail(todo)[k] = todo[k + 1]
  BY <1>1, TailFact DEF IInv, TypeOK
<1>3. decisions \in Seq(DecisionType)
  BY DEF IInv, TypeOK
<1>4. named \in OrderType /\ named.id = last /\ named.side = it.side
  BY <1>2, <1>3 DEF OrderType
<1>5. /\ d.side = it.side /\ d.status = (IF allowed THEN "open" ELSE "skipped")
      /\ d.last = (bar = Run.hi) /\ d.run = Len(runs)
  BY DEF Decision
<1> HIDE DEF named, allowed, d, it
<1>6. /\ DOMAIN decisions' = DOMAIN decisions \union {last}
      /\ decisions'[last] = d /\ last \notin DOMAIN decisions
      /\ \A k \in DOMAIN decisions : decisions'[k] = decisions[k]
  BY <1>0, <1>1, <1>3
<1>7. Closed' = Closed
  BY <1>5, <1>6 DEF Closed
<1>8. EvidenceFromFills'
  BY <1>6, <1>7 DEF EvidenceInv, EvidenceFromFills, Closed
<1>9. ASSUME NEW k \in OpenBuys, k \in DOMAIN decisions PROVE Accounted(k)'
  <2>1. Accounted(k) /\ ~ Carries(todo, k)
    BY <1>1, NamelessFact DEF EvidenceInv, OpenBuysAccounted
  <2>2. Carries(passed, k) => Carries(passed', k)
    BY <1>1, <1>2, <1>4, CarriesFact
  <2> QED
    BY <1>1, <1>6, <1>9, <2>1, <2>2 DEF Accounted, OnItsWay
<1>10. ASSUME last \in OpenBuys' PROVE Accounted(last)'
  <2>1. d.status = "open" /\ d.side = "buy" /\ ~ d.last
    BY <1>6, <1>10 DEF OpenBuys
  <2>2. Carries(passed', last)
    BY <1>1, <1>2, <1>4, <1>5, <2>1, CarriesLast
  <2>3. Run.learn /\ bar < Run.hi
    <3>1. bar \in Run.lo..Run.hi /\ Run.lo \in Nat /\ Run.hi \in Nat
      BY <1>1, PriceFact DEF IInv, RunsFit
    <3>2. bar # Run.hi
      BY <1>5, <2>1
    <3> QED
      BY <1>1, <3>1, <3>2 DEF EvidenceInv, Unjudged
  <2>4. OnItsWay(last)'
    BY <2>2 DEF OnItsWay
  <2> HIDE DEF OnItsWay
  <2> QED
    BY <1>1, <1>5, <1>6, <2>3, <2>4 DEF Accounted
<1>11. OpenBuysAccounted'
  <2>1. \A k \in OpenBuys' : k = last \/ (k \in OpenBuys /\ k \in DOMAIN decisions)
    BY <1>6 DEF OpenBuys
  <2>2. \A k \in OpenBuys' : Accounted(k)'
    <3> HIDE DEF OpenBuys, Accounted
    <3> QED
      BY <1>9, <1>10, <2>1
  <2> QED
    BY <1>1, <2>2 DEF OpenBuysAccounted
<1>12. Unjudged'
  BY <1>1, <1>2 DEF EvidenceInv, Unjudged
<1> QED
  BY <1>8, <1>11, <1>12 DEF EvidenceInv

LEMMA EvidenceJudgedAll == ASSUME IInv, EvidenceInv, JudgedAll PROVE EvidenceInv'
<1>1. /\ pc = "judge" /\ todo = <<>> /\ todo' = passed /\ passed' = <<>> /\ pc' = "submit"
      /\ UNCHANGED <<runs, bar, qty, pending, decisions>> /\ Run' = Run
  BY DEF JudgedAll, brokerVars, logVars, Run
<1>2. \A k \in OpenBuys : OnItsWay(k) /\ (pc = "open" \/ bar < Run.hi) =>
                           OnItsWay(k)' /\ (pc' = "open" \/ bar' < Run'.hi)
  BY <1>1, CarriesNothing DEF OnItsWay
<1>3. EvidenceFromFills' /\ OpenBuysAccounted'
  <2> HIDE DEF OnItsWay, OpenBuys
  <2> QED
    BY <1>1, <1>2, LogKept
<1> QED
  BY <1>1, <1>3 DEF EvidenceInv, Unjudged

LEMMA EvidenceSubmit == ASSUME IInv, EvidenceInv, Submit PROVE EvidenceInv'
<1> DEFINE it == Head(todo)
<1>1. /\ pc = "submit" /\ todo # <<>> /\ todo' = Tail(todo) /\ Run' = Run
      /\ UNCHANGED <<runs, pc, bar, qty, passed, decisions>>
      /\ \/ it.side = "trail" /\ pending' = pending
         \/ it.side # "trail" /\ pending' = Append(pending, it)
  BY DEF Submit, logVars, Run
<1>2. /\ it \in OrderType /\ todo \in Seq(OrderType) /\ pending \in Seq(OrderType)
  BY <1>1, TailFact DEF IInv, TypeOK
<1>3. ASSUME NEW k, OnItsWay(k) PROVE OnItsWay(k)'
  <2>1. CASE Carries(pending, k)
    <3>1. Carries(pending', k)
      BY <1>1, <1>2, <2>1, CarriesFact
    <3> QED
      BY <3>1 DEF OnItsWay
  <2>2. CASE Carries(passed, k)
    BY <1>1, <2>2 DEF OnItsWay
  <2>3. CASE Carries(todo, k) /\ it.side = "buy" /\ it.id = k
    <3>1. pending' = Append(pending, it)
      BY <1>1, <2>3
    <3>2. Carries(pending', k)
      BY <1>2, <2>3, <3>1, CarriesLast
    <3> QED
      BY <3>2 DEF OnItsWay
  <2>4. CASE Carries(todo, k) /\ ~(it.side = "buy" /\ it.id = k)
    <3>1. Carries(todo', k)
      BY <1>1, <1>2, <2>4, CarriesFact
    <3> QED
      BY <3>1 DEF OnItsWay
  <2> QED
    BY <1>3, <2>1, <2>2, <2>3, <2>4 DEF OnItsWay
<1>4. EvidenceFromFills' /\ OpenBuysAccounted'
  <2> HIDE DEF OnItsWay, OpenBuys, it
  <2> QED
    BY <1>1, <1>3, LogKept
<1> QED
  BY <1>1, <1>4 DEF EvidenceInv, Unjudged

LEMMA EvidenceSubmitted == ASSUME IInv, EvidenceInv, Submitted PROVE EvidenceInv'
<1>1. /\ pc = "submit" /\ todo = <<>> /\ pc' = "mark"
      /\ UNCHANGED <<runs, bar, qty, pending, decisions>>
  BY DEF Submitted, brokerVars, logVars
<1>2. passed = <<>>
  BY <1>1 DEF IInv, Flow
<1> QED
  BY <1>1, <1>2, EvidenceIdle

LEMMA EvidenceMark == ASSUME IInv, EvidenceInv, Mark PROVE EvidenceInv'
<1>1. /\ pc = "mark" /\ Run' = Run
      /\ \/ bar < Run.hi /\ pc' = "open"
         \/ bar = Run.hi /\ pc' = "finish" /\ bar' = bar
      /\ UNCHANGED <<runs, qty, pending, todo, passed, decisions>>
  BY DEF Mark, brokerVars, cycleVars, logVars, Run
<1>2. bar \in Nat /\ Run.hi \in Nat
  BY <1>1, PriceFact DEF IInv
<1>3. \A k \in OpenBuys : OnItsWay(k) /\ (pc = "open" \/ bar < Run.hi) =>
                           OnItsWay(k)' /\ (pc' = "open" \/ bar' < Run'.hi)
  BY <1>1, <1>2 DEF OnItsWay
<1>4. EvidenceFromFills' /\ OpenBuysAccounted'
  <2> HIDE DEF OnItsWay, OpenBuys
  <2> QED
    BY <1>1, <1>3, LogKept
<1> QED
  BY <1>1, <1>4 DEF EvidenceInv, Unjudged

LEMMA EvidenceInit == Init => EvidenceInv
BY DEF Init, EvidenceInv, EvidenceFromFills, Closed, OpenBuysAccounted, OpenBuys, Unjudged

LEMMA EvidenceStep == IInv /\ EvidenceInv /\ [Next]_vars => EvidenceInv'
<1>1. ASSUME EvidenceInv, UNCHANGED vars PROVE EvidenceInv'
  BY <1>1 DEF EvidenceInv, EvidenceFromFills, Closed, OpenBuysAccounted, OpenBuys, Accounted,
       OnItsWay, Carries, Unjudged, Run, vars, brokerVars, cycleVars, logVars
<1> QED
  BY <1>1, EvidenceStart, EvidenceFill, EvidenceOpened, EvidenceEnter, EvidenceProtect,
     EvidenceTrailing, EvidenceBroken, EvidenceRungs, EvidenceAssess, EvidenceAssessed,
     EvidenceJudge, EvidenceJudgedAll, EvidenceSubmit, EvidenceSubmitted, EvidenceMark,
     EvidenceFinish DEF Next

\* Every step of an experiment keeps the invariant of the evidence.
THEOREM EvidenceInvariance == Spec => [](IInv /\ EvidenceInv)
<1>1. Init => EvidenceInv
  BY EvidenceInit
<1>2. IInv /\ EvidenceInv /\ [Next]_vars => EvidenceInv'
  BY EvidenceStep
<1> QED
  BY Invariance, <1>1, <1>2, PTL DEF Spec

\* What counts against a combo was bought and sold by the same run, unless it is
\* a buy of a last bar (feedback_agent.py, _close_open_longs): for any series,
\* any experiment and any number of orders on their way at once.
THEOREM EvidenceFromFillsHolds == Spec => []EvidenceFromFills
<1>1. EvidenceInv => EvidenceFromFills
  BY DEF EvidenceInv
<1> QED
  BY EvidenceInvariance, <1>1, PTL

-----------------------------------------------------------------------------
(* The position of the trailing stop.  TrailingByDefinition is not         *)
(* inductive: what the bar ends with is decided by where the stop stood    *)
(* at its close and by the order that waited for its open.                 *)

Entered == bar > Entry \/ (bar = Entry /\ pc \notin {"open", "enter"})

\* The highest close from the entry to a bar, without a CHOOSE.
IsHigh(h, b) == (\E j \in Entry..b : h = Close(j)) /\ \A j \in Entry..b : Close(j) <= h
AtHigh(b) == trail.qty > 0 /\ IsHigh(trail.high, b)

\* Before the entry there is nothing; after it the position is what the closes
\* before the bar make it, and an order to sell it waits when the last close
\* that was looked at is the first breach.
TrailingHolds ==
  /\ \A k \in DOMAIN pending : pending[k].side = "sell"
  /\ pc # "judge"
  /\ bar < Entry => pc \in {"open", "mark", "finish"}
  /\ ~Entered => qty = 0 /\ pending = <<>> /\ trail.qty = 0
  /\ Entered =>
       IF pc = "open"
       THEN /\ pending = <<>> => (qty > 0 <=> Affordable /\ Unbreached(bar - 1))
            /\ pending # <<>> => qty > 0 /\ ~Unbreached(bar - 1)
       ELSE /\ qty > 0 <=> Affordable /\ Unbreached(bar - 1)
            /\ pc \notin {"enter", "protect"} => (pending # <<>> <=> qty > 0 /\ ~Unbreached(bar))

\* While it is held and was not breached, the stop stands at the highest close.
StopStands ==
  qty > 0 =>
    /\ pc \in {"open", "enter", "protect"} /\ bar > Entry /\ pending = <<>> => AtHigh(bar - 1)
    /\ pc \in {"protect", "evaluate"} /\ bar = Entry => trail.qty = 0
    /\ pc = "evaluate" /\ bar > Entry /\ Unbreached(bar) => AtHigh(bar)
    /\ pc \in {"risk", "submit", "mark", "finish"} /\ Unbreached(bar) =>
         AtHigh(bar) \/ (bar = Entry /\ (todo # <<>> \/ passed # <<>>))
    /\ (todo # <<>> \/ passed # <<>>) /\ Unbreached(bar) => bar = Entry

StopsUnjudged == \A k \in DOMAIN runs : runs[k].strategy = "trailing_stop" => ~runs[k].learn

TrailingInv ==
  /\ StopsUnjudged
  /\ pc # "start" /\ Trailing => TrailingHolds /\ StopStands

LEMMA StopSame ==
  ASSUME UNCHANGED <<series, runs>>
  PROVE  /\ Run' = Run /\ Entry' = Entry /\ (Trailing' <=> Trailing) /\ (Affordable' <=> Affordable)
         /\ \A b : Close(b)' = Close(b)
         /\ \A b : Unbreached(b)' <=> Unbreached(b)
         /\ \A h, b : IsHigh(h, b)' <=> IsHigh(h, b)
<1>1. Run' = Run /\ Entry' = Entry /\ (Trailing' <=> Trailing)
  BY DEF Run, Entry, Trailing
<1>2. \A b : Close(b)' = Close(b)
  BY DEF Close
<1>3. Affordable' <=> Affordable
  BY <1>1 DEF Affordable, Close, RoundHalfEven
<1>4. \A b : HighWater(b)' = HighWater(b)
  BY <1>1 DEF HighWater, Close, Max
<1>5. \A b : Breached(b)' <=> Breached(b)
  BY <1>4 DEF Breached, Close, Below
<1>6. \A b : Unbreached(b)' <=> Unbreached(b)
  BY <1>1, <1>5 DEF Unbreached
<1>7. \A h, b : IsHigh(h, b)' <=> IsHigh(h, b)
  BY <1>1 DEF IsHigh, Close
<1> QED
  BY <1>1, <1>2, <1>3, <1>6, <1>7

LEMMA BarFact ==
  ASSUME IInv, pc # "start"
  PROVE  /\ bar \in Nat /\ Entry \in Nat /\ Run.hi \in Nat /\ bar <= Run.hi /\ Run.lo <= bar
         /\ Run.lo <= Entry /\ Run.lo \in Nat /\ qty \in Nat /\ trail.qty \in Nat
         /\ Close(bar) \in Nat \ {0} /\ (Warming <=> bar < Entry)
         /\ \A j \in Entry..bar : Close(j) \in Nat \ {0}
<1>1. Run \in RunType /\ Run.lo \in Nat \ {0} /\ Run.hi \in Nat /\ Close(bar) \in Nat \ {0}
  BY PriceFact DEF IInv
<1>2. bar \in Run.lo..Run.hi /\ Run.hi <= Len(series.close) /\ qty \in Nat /\ trail.qty \in Nat
  BY DEF IInv, RunsFit, TypeOK, Run
<1>3. Warmup \in Nat /\ series.close \in Seq(Nat \ {0})
  BY BacktestAssumption DEF IInv, RunsFit
<1>4. \A j \in 1..Len(series.close) : Close(j) \in Nat \ {0}
  BY <1>3 DEF Close
<1>5. Entry \in Nat \ {0} /\ Run.lo <= Entry /\ (Warming <=> bar < Entry)
  <2> DEFINE lo == Run.lo
  <2>1. lo \in Nat \ {0} /\ bar \in Nat
    BY <1>1, <1>2
  <2>2. Entry = lo + Warmup /\ (Warming <=> bar - lo < Warmup)
    BY DEF Entry, Warming
  <2> HIDE DEF lo
  <2>3. Entry \in Nat \ {0} /\ lo <= Entry /\ (Warming <=> bar < Entry)
    BY <1>3, <2>1, <2>2
  <2> QED
    BY <2>3 DEF lo
<1>6. ASSUME NEW j \in Entry..bar PROVE Close(j) \in Nat \ {0}
  <2>1. j \in 1..Len(series.close)
    <3>1. bar \in Nat /\ bar <= Run.hi
      BY <1>1, <1>2
    <3>2. Len(series.close) \in Nat
      BY <1>3
    <3> QED
      BY <1>1, <1>2, <1>5, <3>1, <3>2
  <2> QED
    BY <1>4, <2>1
<1> QED
  BY <1>1, <1>2, <1>5, <1>6

\* What the last close adds to what the closes before it say.
LEMMA UnbreachedFact ==
  ASSUME IInv, pc # "start"
  PROVE  /\ bar <= Entry => Unbreached(bar) /\ Unbreached(bar - 1)
         /\ bar <= Entry + 1 => Unbreached(bar - 1)
         /\ bar > Entry => (Unbreached(bar) <=> Unbreached(bar - 1) /\ ~Breached(bar))
<1>1. bar \in Nat /\ Entry \in Nat
  BY BarFact
<1>2. bar > Entry => (Entry + 1)..bar = ((Entry + 1)..(bar - 1)) \union {bar}
  BY <1>1
<1> QED
  BY <1>1, <1>2 DEF Unbreached

LEMMA HighFact ==
  ASSUME IInv, pc # "start", NEW h, NEW b, IsHigh(h, b), b = bar
  PROVE  HighWater(b) = h /\ h \in Nat
<1>1. PICK j \in Entry..b : h = Close(j)
  BY DEF IsHigh
<1>2. \A k \in Entry..b : Close(k) \in Nat
  BY BarFact
<1> DEFINE S == {Close(k) : k \in Entry..b}
<1>3. h \in S /\ S \subseteq Nat /\ \A y \in S : y <= h
  BY <1>1, <1>2 DEF IsHigh
<1> HIDE DEF S
<1>4. \A x \in S : (\A y \in S : x >= y) => x = h
  BY <1>3
<1>5. \A y \in S : h >= y
  BY <1>3
<1>6. (CHOOSE x \in S : \A y \in S : x >= y) = h
  BY <1>3, <1>4, <1>5
<1> QED
  BY <1>3, <1>6 DEF HighWater, Max, S

\* The stop rises with the close, and is hit when the close breaches it.
LEMMA HighNext ==
  ASSUME IInv, pc # "start", bar > Entry, NEW h, IsHigh(h, bar - 1),
         NEW t, t = IF Close(bar) > h THEN Close(bar) ELSE h
  PROVE  IsHigh(t, bar) /\ (Breached(bar) <=> 100 * Close(bar) <= t * (100 - TrailPct))
<1>1. bar \in Nat /\ Entry \in Nat /\ Close(bar) \in Nat
      /\ \A j \in Entry..bar : Close(j) \in Nat
  BY BarFact
<1>2. PICK j \in Entry..(bar - 1) : h = Close(j)
  BY DEF IsHigh
<1>3. \A k \in Entry..bar : k = bar \/ k \in Entry..(bar - 1)
  BY <1>1
<1>4. j \in Entry..bar /\ bar \in Entry..bar /\ h \in Nat
  BY <1>1, <1>2
<1>5. \A k \in Entry..(bar - 1) : Close(k) <= h
  BY DEF IsHigh
<1>6. IsHigh(t, bar)
  <2>1. \A k \in Entry..bar : Close(k) <= t
    BY <1>1, <1>3, <1>4, <1>5
  <2>2. \E k \in Entry..bar : t = Close(k)
    BY <1>2, <1>4
  <2> QED
    BY <2>1, <2>2 DEF IsHigh
<1>7. HighWater(bar) = t
  BY <1>6, HighFact
<1> QED
  BY <1>6, <1>7 DEF Breached, Below

LEMMA TrailingOther ==
  ASSUME TrailingInv, UNCHANGED runs, pc' = "start" \/ ~Trailing
  PROVE  TrailingInv'
  BY DEF TrailingInv, StopsUnjudged, Trailing, Run

LEMMA TrailingKept ==
  ASSUME TrailingInv, UNCHANGED runs, TrailingHolds' /\ StopStands'
  PROVE  TrailingInv'
  BY DEF TrailingInv, StopsUnjudged

LEMMA TrailingStart == ASSUME IInv, TrailingInv, StartRun PROVE TrailingInv'
<1>1. /\ pc' = "open" /\ bar' = Run.lo /\ UNCHANGED <<series, runs>>
      /\ pending' = <<>> /\ qty' = 0 /\ trail' = NoTrail
  BY DEF StartRun, FreshBroker
<1>2. Entry' = Entry /\ Run.lo <= Entry /\ Run.lo \in Nat /\ Entry \in Nat
  <2>1. Run \in RunType
    BY DEF StartRun, IInv, TypeOK, Run
  <2>2. Run.lo \in Nat /\ Warmup \in Nat
    BY <2>1, BacktestAssumption DEF RunType
  <2> QED
    BY <1>1, <2>2, StopSame DEF Entry
<1>3. ~Entered'
  BY <1>1, <1>2 DEF Entered
<1>4. TrailingHolds'
  BY <1>1, <1>3 DEF TrailingHolds, NoTrail
<1>5. StopStands'
  BY <1>1 DEF StopStands
<1> QED
  BY <1>1, <1>4, <1>5, TrailingKept

LEMMA TrailingFill == ASSUME IInv, TrailingInv, FillOrder, Trailing PROVE TrailingInv'
<1>1. /\ pc = "open" /\ pc' = "open" /\ pending # <<>> /\ pending' = Tail(pending)
      /\ UNCHANGED <<series, runs, bar, todo, passed>>
  BY DEF FillOrder, cycleVars
<1>2. TrailingHolds /\ StopStands
  BY <1>1 DEF TrailingInv
<1>3. Head(pending) = pending[1] /\ 1 \in DOMAIN pending
  BY <1>1, TailFact DEF IInv, TypeOK
<1>4. Head(pending).side = "sell" /\ Head(pending).qty = qty /\ Len(pending) = 1
  BY <1>1, <1>2, <1>3 DEF TrailingHolds, IInv, SoleSale
<1>5. pending' = <<>>
  <2>1. pending \in Seq(OrderType)
    BY DEF IInv, TypeOK
  <2> QED
    BY <1>1, <1>4, <2>1
<1>6. qty' = 0
  BY <1>4 DEF FillOrder, FillSell, IInv, TypeOK
<1>7. Entered /\ ~Unbreached(bar - 1)
  BY <1>1, <1>2 DEF TrailingHolds
<1>8. Entered' /\ ~Unbreached(bar - 1)'
  BY <1>1, <1>7, StopSame DEF Entered
<1>9. TrailingHolds'
  BY <1>1, <1>2, <1>5, <1>6, <1>7, <1>8, StopSame DEF TrailingHolds
<1>10. StopStands'
  BY <1>6 DEF StopStands
<1> QED
  BY <1>1, <1>9, <1>10, TrailingKept

LEMMA TrailingOpened == ASSUME IInv, TrailingInv, Opened, Trailing PROVE TrailingInv'
<1>1. /\ pc = "open" /\ pending = <<>> /\ UNCHANGED <<series, runs, bar, qty, pending, trail, todo, passed>>
      /\ pc' = IF Warming THEN "mark" ELSE "enter"
  <2>1. CASE Warming
    BY <2>1 DEF Opened, brokerVars, cycleVars
  <2>2. CASE ~Warming
    BY <2>2 DEF Opened, brokerVars, cycleVars
  <2> QED
    BY <2>1, <2>2
<1>2. TrailingHolds /\ StopStands
  BY <1>1 DEF TrailingInv
<1>3. bar \in Nat /\ Entry \in Nat /\ qty \in Nat /\ (Warming <=> bar < Entry)
  BY <1>1, BarFact
<1>4. Entered' <=> Entered
  BY <1>1, <1>3, StopSame DEF Entered
<1>5. TrailingHolds'
  BY <1>1, <1>2, <1>3, <1>4, StopSame DEF TrailingHolds, Entered
<1>6. StopStands'
  <2>1. qty > 0 => bar > Entry
    BY <1>1, <1>2, <1>3 DEF TrailingHolds, Entered
  <2> QED
    BY <1>1, <1>2, <1>3, <2>1, StopSame DEF StopStands, AtHigh, IInv, Flow
<1> QED
  BY <1>1, <1>5, <1>6, TrailingKept

LEMMA TrailingEnter == ASSUME IInv, TrailingInv, Enter, Trailing PROVE TrailingInv'
<1> DEFINE n == RoundHalfEven(Cash, 2 * Close(bar))
<1>1. /\ pc = "enter" /\ pc' = "protect" /\ UNCHANGED <<series, runs, bar, pending, trail, todo, passed>>
      /\ IF bar - Run.lo = Warmup /\ n > 0 THEN qty' = qty + n ELSE qty' = qty
  BY DEF Enter, FillBuy, cycleVars
<1>2. TrailingHolds /\ StopStands /\ pending = <<>> /\ todo = <<>> /\ passed = <<>>
  BY <1>1 DEF TrailingInv, IInv, Flow
<1>3. bar \in Nat /\ Entry \in Nat /\ qty \in Nat /\ trail.qty \in Nat /\ bar >= Entry
      /\ (bar - Run.lo = Warmup <=> bar = Entry)
  <2>1. bar \in Nat /\ Run.lo \in Nat /\ Entry \in Nat /\ Warmup \in Nat
    BY <1>1, BarFact, BacktestAssumption
  <2>2. bar - Run.lo = Warmup <=> bar = Entry
    <3> DEFINE lo == Run.lo
    <3>1. lo \in Nat
      BY <2>1
    <3>2. Entry = lo + Warmup
      BY DEF Entry
    <3> HIDE DEF lo
    <3>3. bar - lo = Warmup <=> bar = Entry
      BY <2>1, <3>1, <3>2
    <3> QED
      BY <3>3 DEF lo
  <2>3. ~(bar < Entry)
    BY <1>1, <1>2 DEF TrailingHolds
  <2> QED
    BY <1>1, <2>1, <2>2, <2>3, BarFact
<1>4. Entered'
  BY <1>1, <1>3, StopSame DEF Entered
<1>5. CASE bar = Entry
  <2>1. qty = 0 /\ trail.qty = 0 /\ n \in Nat
    <3>1. 2 * Close(bar) \in Nat \ {0} /\ Cash \in Nat
      BY <1>1, BarFact, BacktestAssumption
    <3> QED
      BY <1>1, <1>2, <1>5, <3>1, RoundFact DEF TrailingHolds, Entered
  <2>2. Affordable <=> n > 0
    BY <1>5 DEF Affordable
  <2>3. Unbreached(bar - 1)
    BY <1>1, <1>3, <1>5, UnbreachedFact
  <2> HIDE DEF n
  <2>4. qty' > 0 <=> Affordable
    BY <1>1, <1>3, <1>5, <2>1, <2>2
  <2>5. TrailingHolds'
    BY <1>1, <1>2, <1>3, <1>4, <1>5, <2>3, <2>4, StopSame DEF TrailingHolds
  <2>6. StopStands'
    BY <1>1, <1>2, <1>3, <1>5, <2>1, StopSame DEF StopStands
  <2> QED
    BY <1>1, <2>5, <2>6, TrailingKept
<1>6. CASE bar # Entry
  <2>1. qty' = qty /\ Entered
    BY <1>1, <1>3, <1>6 DEF Entered
  <2>2. TrailingHolds'
    BY <1>1, <1>2, <1>3, <1>4, <2>1, StopSame DEF TrailingHolds
  <2>3. StopStands'
    BY <1>1, <1>2, <1>3, <1>6, <2>1, StopSame DEF StopStands, AtHigh
  <2> QED
    BY <1>1, <2>2, <2>3, TrailingKept
<1> QED
  BY <1>5, <1>6

LEMMA TrailingProtect == ASSUME IInv, TrailingInv, Protect, Trailing PROVE TrailingInv'
<1> DEFINE high == IF Close(bar) > trail.high THEN Close(bar) ELSE trail.high
           hit  == 100 * Close(bar) <= high * (100 - TrailPct)
           sale == [side |-> "sell", qty |-> qty, id |-> 0]
<1>1. /\ pc = "protect" /\ pc' = "evaluate" /\ UNCHANGED <<series, runs, bar, qty, todo, passed>>
      /\ \/ (trail.qty = 0 \/ qty = 0) /\ UNCHANGED <<pending, trail>>
         \/ /\ trail.qty # 0 /\ qty > 0 /\ ~hit
            /\ trail' = [trail EXCEPT !.high = high] /\ UNCHANGED pending
         \/ /\ trail.qty # 0 /\ qty > 0 /\ hit
            /\ pending' = Append(pending, sale) /\ trail' = NoTrail
  BY DEF Protect, cycleVars
<1>2. TrailingHolds /\ StopStands /\ pending = <<>> /\ todo = <<>> /\ passed = <<>>
  BY <1>1 DEF TrailingInv, IInv, Flow
<1>3. /\ bar \in Nat /\ Entry \in Nat /\ qty \in Nat /\ trail.qty \in Nat
      /\ trail \in [high: Nat, qty: Nat] /\ bar >= Entry
  <2>1. bar \in Nat /\ Entry \in Nat /\ qty \in Nat /\ trail.qty \in Nat
    BY <1>1, BarFact
  <2>2. ~(bar < Entry)
    BY <1>1, <1>2 DEF TrailingHolds
  <2> QED
    BY <2>1, <2>2 DEF IInv, TypeOK
<1>4. Entered /\ Entered' /\ (qty > 0 <=> Affordable /\ Unbreached(bar - 1))
  BY <1>1, <1>2, <1>3, StopSame DEF Entered, TrailingHolds
<1>5. CASE qty = 0 \/ bar = Entry
  <2>1. UNCHANGED <<pending, trail>> /\ (bar = Entry /\ qty > 0 => trail.qty = 0)
    BY <1>1, <1>2, <1>3, <1>5 DEF StopStands
  <2>2. bar = Entry => Unbreached(bar)
    BY <1>1, <1>3, UnbreachedFact
  <2>3. TrailingHolds'
    BY <1>1, <1>2, <1>3, <1>4, <1>5, <2>1, <2>2, StopSame DEF TrailingHolds
  <2>4. StopStands'
    BY <1>1, <1>2, <1>3, <1>5, <2>1, StopSame DEF StopStands
  <2> QED
    BY <1>1, <2>3, <2>4, TrailingKept
<1>6. CASE qty > 0 /\ bar > Entry
  <2>1. AtHigh(bar - 1) /\ Unbreached(bar - 1)
    BY <1>1, <1>2, <1>3, <1>4, <1>6 DEF StopStands
  <2>2. IsHigh(trail.high, bar - 1) /\ trail.qty > 0
    BY <2>1 DEF AtHigh
  <2>3. IsHigh(high, bar) /\ (Breached(bar) <=> hit)
    BY <1>1, <1>6, <2>2, HighNext
  <2>4. Unbreached(bar) <=> ~hit
    BY <1>1, <1>6, <2>1, <2>3, UnbreachedFact
  <2>5. \/ ~hit /\ trail' = [trail EXCEPT !.high = high] /\ pending' = <<>>
        \/ hit /\ pending' = Append(pending, sale) /\ trail' = NoTrail
    <3> HIDE DEF high, hit, sale
    <3> QED
      BY <1>1, <1>2, <1>3, <1>6, <2>2
  <2>6. [trail EXCEPT !.high = high].high = high /\ [trail EXCEPT !.high = high].qty = trail.qty
    BY <1>3
  <2>7. Append(<<>>, sale) # <<>> /\ \A k \in DOMAIN Append(<<>>, sale) : Append(<<>>, sale)[k].side = "sell"
    OBVIOUS
  <2> HIDE DEF high, hit, sale
  <2>8. TrailingHolds'
    BY <1>1, <1>2, <1>3, <1>4, <1>6, <2>1, <2>4, <2>5, <2>7, StopSame DEF TrailingHolds
  <2>9. StopStands'
    BY <1>1, <1>2, <1>3, <1>6, <2>2, <2>3, <2>4, <2>5, <2>6, StopSame DEF StopStands, AtHigh
  <2> QED
    BY <1>1, <2>8, <2>9, TrailingKept
<1> QED
  BY <1>3, <1>5, <1>6

LEMMA TrailingEvaluate == ASSUME IInv, TrailingInv, EvaluateTrailing PROVE TrailingInv'
<1> DEFINE it == [side |-> "trail", qty |-> qty, id |-> 0]
           intents == IF qty > 0 /\ trail.qty = 0 THEN <<it>> ELSE <<>>
<1>1. /\ pc = "evaluate" /\ Trailing /\ Route(intents)
      /\ UNCHANGED <<series, runs, bar, qty, pending, trail, passed>>
  BY DEF EvaluateTrailing, brokerVars
<1>2. TrailingHolds /\ StopStands /\ todo = <<>> /\ passed = <<>>
  BY <1>1 DEF TrailingInv, IInv, Flow
<1>3. /\ bar \in Nat /\ Entry \in Nat /\ qty \in Nat /\ trail.qty \in Nat /\ bar >= Entry
  BY <1>1, <1>2, BarFact DEF TrailingHolds
<1>4. ~Run.learn
  <2>1. runs # <<>> /\ 1 \in DOMAIN runs /\ Run = runs[1]
    BY <1>1 DEF IInv, RunsFit, TypeOK, Run
  <2> QED
    BY <1>1, <2>1 DEF TrailingInv, StopsUnjudged, Trailing
<1>5. intents # <<>> <=> qty > 0 /\ trail.qty = 0
  OBVIOUS
<1> HIDE DEF intents
<1>6. todo' = intents /\ pc' \in {"risk", "submit", "mark"} /\ (pc' = "mark" => intents = <<>>)
  BY <1>1, <1>4 DEF Route, Judged
<1>7. Entered /\ Entered'
  BY <1>1, <1>3, <1>6, StopSame DEF Entered
<1>8. TrailingHolds'
  BY <1>1, <1>2, <1>3, <1>6, <1>7, StopSame DEF TrailingHolds
<1>9. StopStands'
  BY <1>1, <1>2, <1>3, <1>5, <1>6, StopSame DEF StopStands, AtHigh
<1> QED
  BY <1>1, <1>8, <1>9, TrailingKept

LEMMA TrailingAssess == ASSUME IInv, TrailingInv, Assess, Trailing PROVE TrailingInv'
<1>1. /\ pc = "risk" /\ pc' = "risk" /\ todo # <<>> /\ todo' = Tail(todo)
      /\ UNCHANGED <<series, runs, bar, qty, pending, trail>>
  BY DEF Assess, brokerVars
<1>2. TrailingHolds /\ StopStands
  BY <1>1 DEF TrailingInv
<1>3. Head(todo) = todo[1] /\ 1 \in DOMAIN todo
  BY <1>1, TailFact DEF IInv, TypeOK
<1>4. Head(todo).side = "trail"
  BY <1>1, <1>3 DEF IInv, Flow
<1>5. passed' # <<>>
  <2>1. passed' = Append(passed, Head(todo)) /\ passed \in Seq(OrderType)
    BY <1>4 DEF Assess, IInv, TypeOK
  <2> QED
    BY <2>1
<1>6. bar \in Nat /\ Entry \in Nat /\ qty \in Nat
  BY <1>1, BarFact
<1>7. Entered' <=> Entered
  BY <1>1, <1>6, StopSame DEF Entered
<1>8. TrailingHolds'
  BY <1>1, <1>2, <1>6, <1>7, StopSame DEF TrailingHolds
<1>9. StopStands'
  BY <1>1, <1>2, <1>5, <1>6, StopSame DEF StopStands, AtHigh
<1> QED
  BY <1>1, <1>8, <1>9, TrailingKept

LEMMA TrailingAssessed == ASSUME IInv, TrailingInv, Assessed, Trailing PROVE TrailingInv'
<1>1. /\ pc = "risk" /\ todo = <<>> /\ todo' = passed /\ passed' = <<>>
      /\ UNCHANGED <<series, runs, bar, qty, pending, trail>>
  BY DEF Assessed, brokerVars
<1>2. pc' = "submit"
  <2>1. runs # <<>> /\ 1 \in DOMAIN runs /\ Run = runs[1]
    BY <1>1 DEF IInv, RunsFit, TypeOK, Run
  <2> QED
    BY <2>1 DEF TrailingInv, StopsUnjudged, Trailing, Assessed, Judged
<1>3. TrailingHolds /\ StopStands
  BY <1>1 DEF TrailingInv
<1>4. bar \in Nat /\ Entry \in Nat /\ qty \in Nat
  BY <1>1, BarFact
<1>5. Entered' <=> Entered
  BY <1>1, <1>2, <1>4, StopSame DEF Entered
<1>6. TrailingHolds'
  BY <1>1, <1>2, <1>3, <1>4, <1>5, StopSame DEF TrailingHolds
<1>7. StopStands'
  BY <1>1, <1>2, <1>3, <1>4, StopSame DEF StopStands, AtHigh
<1> QED
  BY <1>1, <1>6, <1>7, TrailingKept

LEMMA TrailingSubmit == ASSUME IInv, TrailingInv, Submit, Trailing PROVE TrailingInv'
<1>1. /\ pc = "submit" /\ pc' = "submit" /\ todo # <<>> /\ todo' = Tail(todo)
      /\ UNCHANGED <<series, runs, bar, qty, passed>>
  BY DEF Submit
<1>2. TrailingHolds /\ StopStands /\ passed = <<>>
  BY <1>1 DEF TrailingInv, IInv, Flow
<1>3. Head(todo) = todo[1] /\ 1 \in DOMAIN todo /\ Head(todo) \in OrderType
  BY <1>1, TailFact DEF IInv, TypeOK
<1>4. Head(todo).side = "trail" /\ Head(todo).qty \in Nat \ {0}
  BY <1>1, <1>3, OrderFact DEF IInv, Flow
<1>5. pending' = pending /\ trail'.high = Close(bar) /\ trail'.qty > 0
  BY <1>4 DEF Submit
<1>6. bar \in Nat /\ Entry \in Nat /\ qty \in Nat /\ Close(bar) \in Nat
  BY <1>1, BarFact
<1>7. Entered' <=> Entered
  BY <1>1, <1>6, StopSame DEF Entered
<1>8. qty > 0 => Entered
  BY <1>2, <1>6 DEF TrailingHolds
<1>9. bar < Entry => FALSE
  BY <1>1, <1>2 DEF TrailingHolds
<1>10. TrailingHolds'
  BY <1>1, <1>2, <1>5, <1>6, <1>7, <1>9, StopSame DEF TrailingHolds, Entered
<1>11. bar = Entry => AtHigh(bar)'
  <2>1. bar = Entry => IsHigh(Close(bar), bar)
    BY <1>6 DEF IsHigh
  <2> QED
    BY <1>1, <1>5, <2>1, StopSame DEF AtHigh
<1>12. StopStands'
  BY <1>1, <1>2, <1>6, <1>11, StopSame DEF StopStands
<1> QED
  BY <1>1, <1>10, <1>12, TrailingKept

LEMMA TrailingSubmitted == ASSUME IInv, TrailingInv, Submitted, Trailing PROVE TrailingInv'
<1>1. /\ pc = "submit" /\ todo = <<>> /\ pc' = "mark"
      /\ UNCHANGED <<series, runs, bar, qty, pending, trail, todo, passed>>
  BY DEF Submitted, brokerVars, cycleVars
<1>2. passed = <<>>
  BY <1>1 DEF IInv, Flow
<1>3. TrailingHolds /\ StopStands
  BY <1>1 DEF TrailingInv
<1>4. TrailingHolds'
  BY <1>1, <1>3, StopSame DEF TrailingHolds, Entered
<1>5. StopStands'
  BY <1>1, <1>2, <1>3, StopSame DEF StopStands, AtHigh
<1> QED
  BY <1>1, <1>4, <1>5, TrailingKept

LEMMA TrailingMark == ASSUME IInv, TrailingInv, Mark, Trailing PROVE TrailingInv'
<1>1. /\ pc = "mark"
      /\ \/ bar < Run.hi /\ bar' = bar + 1 /\ pc' = "open"
         \/ bar = Run.hi /\ pc' = "finish" /\ UNCHANGED bar
      /\ UNCHANGED <<series, runs, qty, pending, trail, todo, passed>>
  BY DEF Mark, brokerVars, cycleVars
<1>2. TrailingHolds /\ StopStands /\ todo = <<>> /\ passed = <<>>
  BY <1>1 DEF TrailingInv, IInv, Flow
<1>3. bar \in Nat /\ Entry \in Nat /\ qty \in Nat
  BY <1>1, BarFact
<1>4. CASE bar' = bar + 1 /\ pc' = "open"
  <2>1. bar' - 1 = bar
    BY <1>3, <1>4
  <2>2. (Unbreached(bar - 1)' <=> Unbreached(bar)) /\ (AtHigh(bar - 1)' <=> AtHigh(bar))
    BY <1>1, <2>1, StopSame DEF AtHigh
  <2>3. Entered' <=> bar >= Entry
    BY <1>1, <1>3, <1>4, StopSame DEF Entered
  <2>4. Entered <=> bar >= Entry
    BY <1>1, <1>3 DEF Entered
  <2>5. Unbreached(bar) => Unbreached(bar - 1)
    BY <1>1, <1>3, UnbreachedFact
  <2>6. TrailingHolds'
    BY <1>1, <1>2, <1>3, <1>4, <2>2, <2>3, <2>4, <2>5, StopSame DEF TrailingHolds
  <2>7. StopStands'
    <3>1. qty > 0 /\ pending = <<>> => AtHigh(bar)
      BY <1>1, <1>2, <1>3, <2>4 DEF StopStands, TrailingHolds
    <3> QED
      BY <1>1, <1>2, <1>3, <1>4, <2>2, <3>1, StopSame DEF StopStands
  <2> QED
    BY <1>1, <2>6, <2>7, TrailingKept
<1>5. CASE pc' = "finish" /\ UNCHANGED bar
  <2>1. TrailingHolds'
    BY <1>1, <1>2, <1>5, StopSame DEF TrailingHolds, Entered
  <2>2. StopStands'
    BY <1>1, <1>2, <1>5, StopSame DEF StopStands, AtHigh
  <2> QED
    BY <1>1, <2>1, <2>2, TrailingKept
<1> QED
  BY <1>1, <1>4, <1>5

\* The rest of the plan is as free of judged stops as the plan.
LEMMA TrailingTail ==
  ASSUME IInv, TrailingInv, runs # <<>>, runs' = Tail(runs), pc' = "start"
  PROVE  TrailingInv'
<1>1. \A k \in DOMAIN runs' : k + 1 \in DOMAIN runs /\ runs'[k] = runs[k + 1]
  BY DEF IInv, TypeOK
<1> QED
  BY <1>1 DEF TrailingInv, StopsUnjudged

LEMMA TrailingInit == Init => TrailingInv
<1> SUFFICES ASSUME Init PROVE TrailingInv
  OBVIOUS
<1>1. runs \in Plans /\ series \in AllSeries
  BY DEF Init
<1>2. \A k \in DOMAIN runs : runs[k] \in Range(runs)
  BY DEF Range
<1>3. \A r \in Range(runs) : r.strategy = "trailing_stop" => ~r.learn
  BY <1>1, BacktestAssumption
<1> QED
  BY <1>2, <1>3 DEF Init, TrailingInv, StopsUnjudged

LEMMA TrailingStep == IInv /\ TrailingInv /\ [Next]_vars => TrailingInv'
<1> SUFFICES ASSUME IInv, TrailingInv, [Next]_vars PROVE TrailingInv'
  OBVIOUS
<1>1. CASE StartRun
  BY <1>1, TrailingStart
<1>2. CASE SkipRun
  BY <1>2, TrailingTail DEF SkipRun
<1>3. CASE Finish
  <2>1. runs # <<>>
    BY <1>3 DEF Finish, IInv, RunsFit
  <2> QED
    BY <1>3, <2>1, TrailingTail DEF Finish
<1>4. CASE Judge \/ JudgedAll
  <2>1. pc = "judge" /\ UNCHANGED runs
    BY <1>4 DEF Judge, JudgedAll
  <2>2. ~Trailing
    BY <2>1 DEF TrailingInv, TrailingHolds
  <2> QED
    BY <2>1, <2>2, TrailingOther
<1>5. CASE EvaluateBroken \/ EvaluateRungs
  <2>1. ~Trailing /\ UNCHANGED runs
    BY <1>5 DEF EvaluateBroken, EvaluateRungs
  <2> QED
    BY <2>1, TrailingOther
<1>6. CASE EvaluateTrailing
  BY <1>6, TrailingEvaluate
<1>7. CASE FillOrder \/ Opened \/ Enter \/ Protect
  <2>1. UNCHANGED runs
    BY <1>7 DEF FillOrder, Opened, Enter, Protect
  <2> QED
    BY <1>7, <2>1, TrailingOther, TrailingFill, TrailingOpened, TrailingEnter, TrailingProtect
<1>8. CASE Assess \/ Assessed \/ Submit \/ Submitted \/ Mark
  <2>1. UNCHANGED runs
    BY <1>8 DEF Assess, Assessed, Submit, Submitted, Mark
  <2> QED
    BY <1>8, <2>1, TrailingOther, TrailingAssess, TrailingAssessed, TrailingSubmit,
       TrailingSubmitted, TrailingMark
<1>9. CASE UNCHANGED vars
  <2>1. UNCHANGED <<series, runs, pc, bar, qty, pending, trail, todo, passed>>
    BY <1>9 DEF vars, brokerVars, cycleVars
  <2>2. StopsUnjudged' /\ (Entered' <=> Entered)
    BY <2>1, StopSame DEF TrailingInv, StopsUnjudged, Entered
  <2>3. TrailingHolds => TrailingHolds'
    BY <2>1, <2>2, StopSame DEF TrailingHolds
  <2>4. StopStands => StopStands'
    BY <2>1, StopSame DEF StopStands, AtHigh
  <2> QED
    BY <2>1, <2>2, <2>3, <2>4, StopSame DEF TrailingInv
<1> QED
  BY <1>1, <1>2, <1>3, <1>4, <1>5, <1>6, <1>7, <1>8, <1>9 DEF Next

\* Every step of an experiment keeps the invariant of the trailing stop.
THEOREM TrailingInvariance == Spec => [](IInv /\ TrailingInv)
<1>1. Init => TrailingInv
  BY TrailingInit
<1>2. IInv /\ TrailingInv /\ [Next]_vars => TrailingInv'
  BY TrailingStep
<1> QED
  BY Invariance, <1>1, <1>2, PTL DEF Spec

LEMMA TrailingPosition == IInv /\ TrailingInv => TrailingByDefinition
<1> SUFFICES ASSUME IInv, TrailingInv, pc = "mark", Trailing, bar >= Entry
             PROVE  /\ qty > 0 <=> Affordable /\ Unbreached(bar - 1)
                    /\ Affordable /\ Unbreached(bar) => trail.high = HighWater(bar)
  BY DEF TrailingByDefinition
<1>1. TrailingHolds /\ StopStands /\ todo = <<>> /\ passed = <<>>
  BY DEF TrailingInv, IInv, Flow
<1>2. bar \in Nat /\ Entry \in Nat /\ qty \in Nat
  BY BarFact
<1>3. qty > 0 <=> Affordable /\ Unbreached(bar - 1)
  BY <1>1, <1>2 DEF TrailingHolds, Entered
<1>4. ASSUME Affordable, Unbreached(bar) PROVE trail.high = HighWater(bar)
  <2>1. qty > 0
    BY <1>2, <1>3, <1>4, UnbreachedFact
  <2>2. IsHigh(trail.high, bar)
    BY <1>1, <1>4, <2>1 DEF StopStands, AtHigh
  <2> QED
    BY <2>2, HighFact
<1> QED
  BY <1>3, <1>4

-----------------------------------------------------------------------------
(* The position of the ladder.  LadderByDefinition is not inductive: a bar *)
(* ends with what earlier bars asked for, so the orders of the bar and the *)
(* part of them that an open has not filled yet are part of the argument.  *)

Plain == ~Trailing /\ ~Run.risk /\ ~Run.learn /\ ~Run.stop

\* The rungs some close from the entry to a bar has reached.
ReachedBy(b) == {k \in DOMAIN Drop : \E j \in Entry..b : Below(Close(j), Close(Entry), Drop[k])}

\* Orders for the rungs of a set, one for each.
OrdersFor(q, S) ==
  \E f \in [1..Len(q) -> S] :
    /\ \A k \in S : \E m \in 1..Len(q) : f[m] = k
    /\ \A m, n \in 1..Len(q) : f[m] = f[n] => m = n
    /\ \A m \in 1..Len(q) : q[m].side = "buy" /\ q[m].qty = Qty[f[m]]

LadderHolds ==
  /\ pc \notin {"risk", "judge"}
  /\ bar < Entry => pc \in {"open", "mark", "finish"}
  /\ IF bar < Entry \/ (bar = Entry /\ pc \in {"open", "evaluate"})
     THEN anchor = 0 /\ rungs = {} /\ qty = 0 /\ pending = <<>>
     ELSE IF pc \in {"open", "evaluate"}
     THEN /\ anchor = Close(Entry) /\ rungs = ReachedBy(bar - 1)
          /\ \E S \in SUBSET rungs : OrdersFor(pending, S) /\ qty = Sum(Qty, rungs \ S)
     ELSE /\ anchor = Close(Entry) /\ rungs = ReachedBy(bar)
          /\ OrdersFor(pending \o todo, ReachedBy(bar) \ ReachedBy(bar - 1))
          /\ qty = Sum(Qty, ReachedBy(bar - 1))

LadderInv == pc # "start" /\ Plain => LadderHolds

LEMMA OrdersNone ==
  ASSUME NEW S
  PROVE  OrdersFor(<<>>, S) <=> S = {}
<1>1. CASE S = {}
  <2>1. [k \in 1..0 |-> k] \in [1..Len(<<>>) -> S]
    BY <1>1
  <2> QED
    BY <1>1, <2>1 DEF OrdersFor
<1>2. CASE S # {}
  BY <1>2 DEF OrdersFor
<1> QED
  BY <1>1, <1>2

\* The first of such orders is for one of the rungs, the others for the rest.
LEMMA OrdersTail ==
  ASSUME NEW q \in Seq(OrderType), q # <<>>, NEW S, OrdersFor(q, S)
  PROVE  \E e \in S : /\ Head(q).side = "buy" /\ Head(q).qty = Qty[e]
                      /\ OrdersFor(Tail(q), S \ {e})
<1>1. PICK f \in [1..Len(q) -> S] :
        /\ \A k \in S : \E m \in 1..Len(q) : f[m] = k
        /\ \A m, n \in 1..Len(q) : f[m] = f[n] => m = n
        /\ \A m \in 1..Len(q) : q[m].side = "buy" /\ q[m].qty = Qty[f[m]]
  BY DEF OrdersFor
<1>2. 1 \in 1..Len(q) /\ Head(q) = q[1] /\ Len(Tail(q)) = Len(q) - 1 /\ Len(q) \in Nat \ {0}
  OBVIOUS
<1> DEFINE e == f[1]
           n == Len(q)
           g == [m \in 1..(n - 1) |-> f[m + 1]]
<1>3. e \in S /\ Head(q).side = "buy" /\ Head(q).qty = Qty[e]
  BY <1>1, <1>2
<1>4. \A m \in 1..(n - 1) : m + 1 \in 1..n /\ m + 1 # 1 /\ Tail(q)[m] = q[m + 1]
  BY <1>2
<1>5. g \in [1..(n - 1) -> S \ {e}] /\ \A m \in 1..(n - 1) : g[m] = f[m + 1]
  <2>1. \A m \in 1..(n - 1) : f[m + 1] \in S \ {e}
    BY <1>1, <1>2, <1>4
  <2> QED
    BY <2>1
<1> HIDE DEF g, e
<1>6. ASSUME NEW k \in S \ {e} PROVE \E m \in 1..(n - 1) : g[m] = k
  <2>1. PICK m \in 1..n : f[m] = k
    BY <1>1
  <2>2. m # 1
    BY <2>1 DEF e
  <2>3. m - 1 \in 1..(n - 1) /\ (m - 1) + 1 = m
    BY <1>2, <2>2
  <2> QED
    BY <1>5, <2>1, <2>3
<1>7. ASSUME NEW m \in 1..(n - 1), NEW k \in 1..(n - 1), g[m] = g[k] PROVE m = k
  <2>1. m + 1 = k + 1
    BY <1>1, <1>4, <1>5, <1>7
  <2> QED
    BY <2>1
<1>8. \A m \in 1..(n - 1) : Tail(q)[m].side = "buy" /\ Tail(q)[m].qty = Qty[g[m]]
  BY <1>1, <1>4, <1>5
<1>9. Len(Tail(q)) = n - 1
  BY <1>2
<1> HIDE DEF n
<1>10. OrdersFor(Tail(q), S \ {e})
  <2> DEFINE t == Tail(q)
             R == S \ {e}
  <2>1. /\ g \in [1..Len(t) -> R]
        /\ \A k \in R : \E m \in 1..Len(t) : g[m] = k
        /\ \A m, k \in 1..Len(t) : g[m] = g[k] => m = k
        /\ \A m \in 1..Len(t) : t[m].side = "buy" /\ t[m].qty = Qty[g[m]]
    BY <1>5, <1>6, <1>7, <1>8, <1>9
  <2> HIDE DEF t, R
  <2>2. OrdersFor(t, R)
    BY <2>1 DEF OrdersFor
  <2> QED
    BY <2>2 DEF t, R
<1> QED
  BY <1>3, <1>10

\* The orders of a bar are one for each rung it reached.
LEMMA OrdersInOrder ==
  ASSUME NEW S, IsFiniteSet(S), S \subseteq DOMAIN Drop, NEW f \in InOrder(S)
  PROVE  OrdersFor(RungOrders(f), S)
<1> DEFINE n == Cardinality(S)
<1>1. n \in Nat
  BY FS_CardinalityType
<1>2. f \in [1..n -> S] /\ \A m, k \in 1..n : m < k => f[m] < f[k]
  BY DEF InOrder
<1> HIDE DEF n
<1>3. \A x \in S : x \in Int
  BY BacktestAssumption
<1>4. \A m, k \in 1..n : f[m] = f[k] => m = k
  <2> SUFFICES ASSUME NEW m \in 1..n, NEW k \in 1..n, f[m] = f[k], m # k PROVE FALSE
    OBVIOUS
  <2>1. m < k \/ k < m
    BY <1>1
  <2>2. f[m] \in Int /\ f[k] \in Int
    BY <1>2, <1>3
  <2> QED
    BY <1>2, <2>1, <2>2
<1>5. f \in Injection(1..n, S)
  BY <1>2, <1>4 DEF Injection, IsInjective
<1>6. Cardinality(1..n) = n
  BY <1>1, FS_Interval
<1>7. f \in Surjection(1..n, S)
  BY <1>5, <1>6, FS_Injection DEF n
<1>8. \A k \in S : \E m \in 1..n : f[m] = k
  BY <1>7 DEF Surjection
<1>9. Len(RungOrders(f)) = n /\ \A m \in 1..n : RungOrders(f)[m].side = "buy" /\ RungOrders(f)[m].qty = Qty[f[m]]
  BY <1>1, <1>2 DEF RungOrders
<1> QED
  BY <1>2, <1>4, <1>8, <1>9 DEF OrdersFor


\* A sum over rungs, and one more rung.
LEMMA RungSum ==
  ASSUME NEW S \in SUBSET DOMAIN Drop
  PROVE  /\ IsFiniteSet(S) /\ Sum(Qty, S) \in Int
         /\ \A e \in DOMAIN Drop \ S : Qty[e] \in Nat /\ Sum(Qty, S \union {e}) = Sum(Qty, S) + Qty[e]
         /\ SumOf([k \in S |-> Qty[k]]) = Sum(Qty, S)
<1>1. DOMAIN Drop = 1..Len(Drop) /\ Len(Drop) \in Nat /\ \A k \in DOMAIN Drop : Qty[k] \in Nat
  BY BacktestAssumption
<1>2. IsFiniteSet(S)
  <2>1. IsFiniteSet(1..Len(Drop))
    BY <1>1, FS_Interval
  <2> QED
    BY <1>1, <2>1, FS_Subset
<1>3. Ints(Qty, S)
  BY <1>1 DEF Ints
<1>4. Sum(Qty, S) \in Int
  BY <1>2, <1>3, SumInt
<1>5. ASSUME NEW e \in DOMAIN Drop \ S
      PROVE  Qty[e] \in Nat /\ Sum(Qty, S \union {e}) = Sum(Qty, S) + Qty[e]
  <2>1. Qty[e] \in Nat
    BY <1>1
  <2>2. Sum(Qty, S \union {e}) = Qty[e] + Sum(Qty, S)
    BY <1>2, <1>3, <2>1, SumAdd
  <2> QED
    BY <1>4, <2>1, <2>2
<1>6. SumOf([k \in S |-> Qty[k]]) = Sum(Qty, S)
  <2> DEFINE g == [k \in S |-> Qty[k]]
  <2>1. DOMAIN g = S /\ \A x \in S : Qty[x] = g[x]
    OBVIOUS
  <2> HIDE DEF g
  <2>2. SumOf(g) = Sum(g, S)
    <3>1. DOMAIN g = S
      BY <2>1
    <3> QED
      BY <3>1 DEF SumOf, FoldFunction, Sum, FoldFunctionOnSet, MapThenFoldSet
  <2>3. Sum(Qty, S) = Sum(g, S)
    BY <1>2, <1>3, <2>1, SumSame
  <2> QED
    BY <2>2, <2>3 DEF g
<1> QED
  BY <1>2, <1>4, <1>5, <1>6

\* What a close adds to the rungs that were reached before it.
LEMMA ReachedFact ==
  ASSUME IInv, pc # "start", bar >= Entry
  PROVE  /\ ReachedBy(bar - 1) \subseteq ReachedBy(bar) /\ ReachedBy(bar) \subseteq DOMAIN Drop
         /\ ReachedBy(bar) = ReachedBy(bar - 1) \union
              {k \in DOMAIN Drop : Below(Close(bar), Close(Entry), Drop[k])}
         /\ bar = Entry => ReachedBy(bar - 1) = {}
<1>1. bar \in Nat /\ Entry \in Nat
  BY BarFact
<1>2. Entry..bar = (Entry..(bar - 1)) \union {bar}
  BY <1>1
<1>3. bar = Entry => Entry..(bar - 1) = {}
  BY <1>1
<1> QED
  BY <1>2, <1>3 DEF ReachedBy

LEMMA LadderSame ==
  ASSUME UNCHANGED <<series, runs>>
  PROVE  /\ Run' = Run /\ Entry' = Entry /\ (Plain' <=> Plain)
         /\ \A b : Close(b)' = Close(b)
         /\ \A b : ReachedBy(b)' = ReachedBy(b)
<1>1. Run' = Run /\ Entry' = Entry /\ (Trailing' <=> Trailing) /\ \A b : Close(b)' = Close(b)
  BY StopSame
<1>2. Plain' <=> Plain
  BY <1>1 DEF Plain
<1>3. \A b : ReachedBy(b)' = ReachedBy(b)
  BY <1>1 DEF ReachedBy, Below
<1> QED
  BY <1>1, <1>2, <1>3

LEMMA LadderOther ==
  ASSUME LadderInv, UNCHANGED runs, ~Plain \/ pc' = "start"
  PROVE  LadderInv'
  BY DEF LadderInv, Plain, Trailing, Run

LEMMA LadderStart == ASSUME IInv, StartRun PROVE LadderInv'
<1>1. /\ pc' = "open" /\ bar' = Run.lo /\ UNCHANGED <<series, runs>>
      /\ pending' = <<>> /\ qty' = 0 /\ anchor' = 0 /\ rungs' = {}
  BY DEF StartRun, FreshBroker
<1>2. Entry' = Entry /\ Run.lo <= Entry /\ Run.lo \in Nat /\ Entry \in Nat
  <2>1. Run \in RunType
    BY DEF StartRun, IInv, TypeOK, Run
  <2>2. Run.lo \in Nat /\ Warmup \in Nat
    BY <2>1, BacktestAssumption DEF RunType
  <2> QED
    BY <1>1, <2>2, LadderSame DEF Entry
<1> QED
  BY <1>1, <1>2 DEF LadderInv, LadderHolds

LEMMA LadderFill == ASSUME IInv, LadderInv, Plain, FillOrder PROVE LadderInv'
<1>1. /\ pc = "open" /\ pc' = "open" /\ pending # <<>> /\ pending' = Tail(pending)
      /\ UNCHANGED <<series, runs, bar, anchor, rungs>>
  BY DEF FillOrder, ladderVars
<1>2. /\ LadderHolds /\ bar \in Nat /\ Entry \in Nat /\ qty \in Nat
      /\ pending \in Seq(OrderType) /\ rungs \subseteq DOMAIN Drop
  BY <1>1, BarFact DEF LadderInv, IInv, TypeOK
<1>3. ~(bar < Entry) /\ bar # Entry
  BY <1>1, <1>2 DEF LadderHolds
<1>4. /\ anchor = Close(Entry) /\ rungs = ReachedBy(bar - 1)
      /\ \E S \in SUBSET rungs : OrdersFor(pending, S) /\ qty = Sum(Qty, rungs \ S)
  BY <1>1, <1>2, <1>3 DEF LadderHolds
<1>5. PICK S \in SUBSET rungs : OrdersFor(pending, S) /\ qty = Sum(Qty, rungs \ S)
  BY <1>4
<1>6. PICK e \in S : Head(pending).side = "buy" /\ Head(pending).qty = Qty[e]
                     /\ OrdersFor(Tail(pending), S \ {e})
  BY <1>1, <1>2, <1>5, OrdersTail
<1>7. qty' = qty + Qty[e]
  BY <1>6 DEF FillOrder, FillBuy
<1>8. qty' = Sum(Qty, rungs \ (S \ {e}))
  <2> DEFINE R == rungs \ S
  <2>1. R \in SUBSET DOMAIN Drop /\ e \in DOMAIN Drop \ R
    BY <1>2, <1>5, <1>6
  <2>2. rungs \ (S \ {e}) = R \union {e}
    BY <1>5, <1>6
  <2>3. qty = Sum(Qty, R)
    BY <1>5
  <2> HIDE DEF R
  <2>4. Sum(Qty, R \union {e}) = Sum(Qty, R) + Qty[e]
    BY <2>1, RungSum
  <2> QED
    BY <1>7, <2>2, <2>3, <2>4
<1>9. \E T \in SUBSET rungs' : OrdersFor(pending', T) /\ qty' = Sum(Qty, rungs' \ T)
  BY <1>1, <1>5, <1>6, <1>8
<1>10. Entry' = Entry /\ anchor' = Close(Entry)' /\ rungs' = ReachedBy(bar - 1)'
  BY <1>1, <1>4, LadderSame
<1>11. (\E T \in SUBSET rungs : OrdersFor(pending, T) /\ qty = Sum(Qty, rungs \ T))'
  BY <1>9 DEF OrdersFor
<1> QED
  BY <1>1, <1>2, <1>3, <1>10, <1>11 DEF LadderInv, LadderHolds

LEMMA LadderOpened == ASSUME IInv, LadderInv, Plain, Opened PROVE LadderInv'
<1>1. /\ pc = "open" /\ pending = <<>>
      /\ UNCHANGED <<series, runs, bar, qty, pending, todo, anchor, rungs>>
  BY DEF Opened, brokerVars, ladderVars, cycleVars
<1>2. LadderHolds /\ bar \in Nat /\ Entry \in Nat /\ (Warming <=> bar < Entry)
  BY <1>1, BarFact DEF LadderInv
<1>3. pc' = IF bar < Entry THEN "mark" ELSE "evaluate"
  <2>1. CASE Warming
    BY <1>2, <2>1 DEF Opened
  <2>2. CASE ~Warming
    BY <1>2, <2>2 DEF Opened, Plain
  <2> QED
    BY <2>1, <2>2
<1>4. Entry' = Entry /\ Close(Entry)' = Close(Entry) /\ ReachedBy(bar - 1)' = ReachedBy(bar - 1)
  BY <1>1, LadderSame
<1>5. (\E S \in SUBSET rungs : OrdersFor(pending, S) /\ qty = Sum(Qty, rungs \ S)) =>
      (\E S \in SUBSET rungs : OrdersFor(pending, S) /\ qty = Sum(Qty, rungs \ S))'
  BY <1>1
<1> QED
  BY <1>1, <1>2, <1>3, <1>4, <1>5 DEF LadderInv, LadderHolds

LEMMA LadderRungs == ASSUME IInv, LadderInv, Plain, EvaluateRungs PROVE LadderInv'
<1>1. PICK f \in InOrder(Reached) : Route(RungOrders(f))
  BY DEF EvaluateRungs
<1>2. /\ pc = "evaluate" /\ ~Trailing /\ anchor' = Anchor /\ rungs' = rungs \union Reached
      /\ UNCHANGED <<series, runs, bar, qty, pending, passed>>
  BY DEF EvaluateRungs, brokerVars
<1>3. /\ LadderHolds /\ pending = <<>> /\ bar \in Nat /\ Entry \in Nat /\ bar >= Entry
      /\ Close(Entry) \in Nat \ {0}
  <2>1. LadderHolds /\ pending = <<>> /\ bar \in Nat /\ Entry \in Nat
    BY <1>2, BarFact DEF LadderInv, IInv, Flow
  <2>2. bar >= Entry
    BY <1>2, <2>1 DEF LadderHolds
  <2>3. Entry \in Entry..bar
    BY <2>1, <2>2
  <2> QED
    BY <1>2, <2>1, <2>2, <2>3, BarFact
<1>4. Anchor = Close(Entry) /\ rungs = ReachedBy(bar - 1) /\ qty = Sum(Qty, ReachedBy(bar - 1))
  <2>1. CASE bar = Entry
    <3>1. anchor = 0 /\ rungs = {} /\ qty = 0
      BY <1>2, <1>3, <2>1 DEF LadderHolds
    <3>2. ReachedBy(bar - 1) = {}
      BY <1>2, <1>3, <2>1, ReachedFact
    <3> QED
      BY <2>1, <3>1, <3>2, SumEmpty DEF Anchor
  <2>2. CASE bar # Entry
    <3>1. /\ anchor = Close(Entry) /\ rungs = ReachedBy(bar - 1)
          /\ \E S \in SUBSET rungs : OrdersFor(pending, S) /\ qty = Sum(Qty, rungs \ S)
      BY <1>2, <1>3, <2>2 DEF LadderHolds
    <3>2. qty = Sum(Qty, rungs \ {})
      BY <1>3, <3>1, OrdersNone
    <3>3. rungs \ {} = rungs
      OBVIOUS
    <3> QED
      BY <1>3, <3>1, <3>2, <3>3 DEF Anchor
  <2> QED
    BY <2>1, <2>2
<1>5. Reached = ReachedBy(bar) \ ReachedBy(bar - 1) /\ rungs' = ReachedBy(bar)
  <2>1. Reached = {k \in DOMAIN Drop : k \notin ReachedBy(bar - 1) /\ Below(Close(bar), Close(Entry), Drop[k])}
    BY <1>4 DEF Reached
  <2>2. ReachedBy(bar) = ReachedBy(bar - 1) \union
          {k \in DOMAIN Drop : Below(Close(bar), Close(Entry), Drop[k])}
    BY <1>2, <1>3, ReachedFact
  <2> HIDE DEF Reached, Below
  <2> QED
    BY <1>2, <1>4, <2>1, <2>2
<1>6. RungOrders(f) \in Seq(OrderType) /\ OrdersFor(RungOrders(f), Reached)
  <2>1. Reached \in SUBSET DOMAIN Drop
    BY DEF Reached
  <2>2. IsFiniteSet(Reached)
    BY <2>1, RungSum
  <2>3. RungOrders(f) \in Seq(OrderType)
    BY <2>1, RungFact DEF IInv
  <2> QED
    BY <2>1, <2>2, <2>3, OrdersInOrder
<1>7. todo' = RungOrders(f) /\ pc' \in {"submit", "mark"}
  BY <1>1 DEF Route, Judged, Plain
<1>8. pending' \o todo' = RungOrders(f)
  BY <1>2, <1>3, <1>6, <1>7
<1>9. /\ Entry' = Entry /\ Close(Entry)' = Close(Entry) /\ ReachedBy(bar)' = ReachedBy(bar)
      /\ ReachedBy(bar - 1)' = ReachedBy(bar - 1)
  BY <1>2, LadderSame
<1>10. OrdersFor(pending \o todo, ReachedBy(bar) \ ReachedBy(bar - 1))'
  BY <1>5, <1>6, <1>8, <1>9
<1>11. ~(bar' < Entry') /\ pc' \notin {"open", "evaluate", "risk", "judge"}
  BY <1>2, <1>3, <1>7, <1>9
<1> QED
  BY <1>2, <1>4, <1>5, <1>9, <1>10, <1>11 DEF LadderInv, LadderHolds

LEMMA LadderSubmit == ASSUME IInv, LadderInv, Plain, Submit PROVE LadderInv'
<1> DEFINE it == Head(todo)
<1>1. /\ pc = "submit" /\ pc' = "submit" /\ todo # <<>> /\ todo' = Tail(todo)
      /\ UNCHANGED <<series, runs, bar, qty, anchor, rungs>>
      /\ it.side # "trail" => pending' = Append(pending, it)
  BY DEF Submit, ladderVars
<1>2. /\ LadderHolds /\ bar \in Nat /\ Entry \in Nat
      /\ todo \in Seq(OrderType) /\ pending \in Seq(OrderType)
  BY <1>1, BarFact DEF LadderInv, IInv, TypeOK
<1>3. bar >= Entry
  BY <1>1, <1>2 DEF LadderHolds
<1>4. /\ anchor = Close(Entry) /\ rungs = ReachedBy(bar)
      /\ OrdersFor(pending \o todo, ReachedBy(bar) \ ReachedBy(bar - 1))
      /\ qty = Sum(Qty, ReachedBy(bar - 1))
  BY <1>1, <1>2, <1>3 DEF LadderHolds
<1>5. it.side = "buy"
  <2> DEFINE m == Len(pending) + 1
  <2>1. m \in 1..Len(pending \o todo) /\ (pending \o todo)[m] = it
    BY <1>1, <1>2
  <2> HIDE DEF m
  <2> QED
    BY <1>4, <2>1 DEF OrdersFor
<1>6. pending' \o todo' = pending \o todo
  <2>1. Append(pending, it) \o Tail(todo) = pending \o todo
    BY <1>1, <1>2
  <2> QED
    BY <1>1, <1>5, <2>1
<1>7. /\ Entry' = Entry /\ Close(Entry)' = Close(Entry) /\ ReachedBy(bar)' = ReachedBy(bar)
      /\ ReachedBy(bar - 1)' = ReachedBy(bar - 1)
  BY <1>1, LadderSame
<1>8. OrdersFor(pending \o todo, ReachedBy(bar) \ ReachedBy(bar - 1))'
  BY <1>4, <1>6, <1>7
<1> QED
  BY <1>1, <1>2, <1>3, <1>4, <1>7, <1>8 DEF LadderInv, LadderHolds

LEMMA LadderSubmitted == ASSUME IInv, LadderInv, Plain, Submitted PROVE LadderInv'
<1>1. /\ pc = "submit" /\ pc' = "mark"
      /\ UNCHANGED <<series, runs, bar, qty, pending, todo, anchor, rungs>>
  BY DEF Submitted, brokerVars, ladderVars, cycleVars
<1>2. LadderHolds /\ bar \in Nat /\ Entry \in Nat
  BY <1>1, BarFact DEF LadderInv
<1>3. /\ Entry' = Entry /\ Close(Entry)' = Close(Entry) /\ ReachedBy(bar)' = ReachedBy(bar)
      /\ ReachedBy(bar - 1)' = ReachedBy(bar - 1)
  BY <1>1, LadderSame
<1> QED
  BY <1>1, <1>2, <1>3 DEF LadderInv, LadderHolds

LEMMA LadderMark == ASSUME IInv, LadderInv, Plain, Mark PROVE LadderInv'
<1>1. /\ pc = "mark"
      /\ \/ bar' = bar + 1 /\ pc' = "open"
         \/ bar' = bar /\ pc' = "finish"
      /\ UNCHANGED <<series, runs, qty, pending, todo, anchor, rungs>>
  BY DEF Mark, brokerVars, ladderVars, cycleVars
<1>2. LadderHolds /\ bar \in Nat /\ Entry \in Nat /\ todo = <<>> /\ pending \in Seq(OrderType)
  BY <1>1, BarFact DEF LadderInv, IInv, Flow, TypeOK
<1>3. Entry' = Entry /\ Close(Entry)' = Close(Entry) /\ \A b : ReachedBy(b)' = ReachedBy(b)
  BY <1>1, LadderSame
<1>4. CASE bar < Entry
  BY <1>1, <1>2, <1>3, <1>4 DEF LadderInv, LadderHolds
<1>5. CASE bar >= Entry
  <2> DEFINE S == ReachedBy(bar) \ ReachedBy(bar - 1)
  <2>1. /\ anchor = Close(Entry) /\ rungs = ReachedBy(bar) /\ OrdersFor(pending \o todo, S)
        /\ qty = Sum(Qty, ReachedBy(bar - 1))
    BY <1>1, <1>2, <1>5 DEF LadderHolds
  <2>2. CASE bar' = bar + 1 /\ pc' = "open"
    <3>1. bar' - 1 = bar
      BY <1>2, <2>2
    <3>2. ReachedBy(bar - 1)' = ReachedBy(bar)
      BY <1>3, <3>1
    <3>3. OrdersFor(pending, S) /\ S \in SUBSET rungs /\ qty = Sum(Qty, rungs \ S)
      <4>1. pending \o todo = pending
        BY <1>2
      <4>2. rungs \ S = ReachedBy(bar - 1)
        BY <1>1, <1>5, <2>1, ReachedFact
      <4> QED
        BY <2>1, <4>1, <4>2
    <3>4. (\E T \in SUBSET rungs : OrdersFor(pending, T) /\ qty = Sum(Qty, rungs \ T))'
      <4> HIDE DEF S
      <4> QED
        BY <1>1, <3>3
    <3>5. ~(bar' < Entry') /\ bar' # Entry'
      BY <1>2, <1>3, <1>5, <2>2
    <3>6. anchor' = Close(Entry)' /\ rungs' = ReachedBy(bar - 1)'
      BY <1>1, <1>3, <2>1, <3>2
    <3> HIDE DEF S
    <3> QED
      BY <2>2, <3>4, <3>5, <3>6 DEF LadderInv, LadderHolds
  <2>3. CASE bar' = bar /\ pc' = "finish"
    <3>1. ReachedBy(bar)' = ReachedBy(bar) /\ ReachedBy(bar - 1)' = ReachedBy(bar - 1)
      BY <1>3, <2>3
    <3> QED
      BY <1>1, <1>2, <1>3, <1>5, <2>1, <2>3, <3>1 DEF LadderInv, LadderHolds
  <2> QED
    BY <1>1, <2>2, <2>3
<1> QED
  BY <1>2, <1>4, <1>5

LEMMA LadderStep == IInv /\ LadderInv /\ [Next]_vars => LadderInv'
<1> SUFFICES ASSUME IInv, LadderInv, [Next]_vars PROVE LadderInv'
  OBVIOUS
<1>1. CASE StartRun
  BY <1>1, LadderStart
<1>2. CASE SkipRun \/ Finish
  BY <1>2 DEF SkipRun, Finish, LadderInv
<1>3. CASE Enter \/ Protect \/ EvaluateTrailing \/ EvaluateBroken
  <2>1. Trailing \/ Run.stop
    BY <1>3 DEF Enter, Protect, EvaluateTrailing, EvaluateBroken, Broken, IInv, Flow
  <2>2. UNCHANGED runs
    BY <1>3 DEF Enter, Protect, EvaluateTrailing, EvaluateBroken
  <2> QED
    BY <2>1, <2>2, LadderOther DEF Plain
<1>4. CASE Assess \/ Assessed \/ Judge \/ JudgedAll
  <2>1. pc \in {"risk", "judge"} /\ UNCHANGED runs
    BY <1>4 DEF Assess, Assessed, Judge, JudgedAll
  <2>2. ~Plain
    BY <2>1 DEF LadderInv, LadderHolds
  <2> QED
    BY <2>1, <2>2, LadderOther
<1>5. CASE FillOrder \/ Opened \/ EvaluateRungs \/ Submit \/ Submitted \/ Mark
  <2>1. UNCHANGED runs
    BY <1>5 DEF FillOrder, Opened, EvaluateRungs, Submit, Submitted, Mark
  <2> QED
    BY <1>5, <2>1, LadderOther, LadderFill, LadderOpened, LadderRungs, LadderSubmit,
       LadderSubmitted, LadderMark
<1>6. CASE UNCHANGED vars
  <2>1. UNCHANGED <<series, runs, pc, bar, qty, pending, todo, anchor, rungs>>
    BY <1>6 DEF vars, brokerVars, ladderVars, cycleVars
  <2>2. LadderHolds => LadderHolds'
    BY <2>1, LadderSame DEF LadderHolds
  <2> QED
    BY <2>1, <2>2, LadderSame DEF LadderInv
<1> QED
  BY <1>1, <1>2, <1>3, <1>4, <1>5, <1>6 DEF Next

\* Every step of an experiment keeps the invariant of the ladder.
THEOREM LadderInvariance == Spec => [](IInv /\ LadderInv)
<1>1. Init => LadderInv
  BY DEF Init, LadderInv
<1>2. IInv /\ LadderInv /\ [Next]_vars => LadderInv'
  BY LadderStep
<1> QED
  BY Invariance, <1>1, <1>2, PTL DEF Spec

LEMMA LadderPosition == IInv /\ LadderInv => LadderByDefinition
<1> SUFFICES ASSUME IInv, LadderInv, pc = "mark", Plain, bar >= Entry
             PROVE  qty = SumOf([k \in ReachedBy(bar - 1) |-> Qty[k]])
  BY DEF LadderByDefinition, ReachedBy, Plain
<1>1. LadderHolds /\ bar \in Nat /\ Entry \in Nat
  BY BarFact DEF LadderInv
<1>2. qty = Sum(Qty, ReachedBy(bar - 1))
  BY <1>1 DEF LadderHolds
<1>3. ReachedBy(bar - 1) \in SUBSET DOMAIN Drop
  BY DEF ReachedBy
<1> QED
  BY <1>2, <1>3, RungSum

\* The position of a run is the one its strategy defines over the bars seen so
\* far, filled a bar late, whatever the later bars are: the backtest does not
\* look ahead (sim_broker.py:1-8), for any series, run, stop and rungs.
THEOREM PositionByDefinitionHolds == Spec => []PositionByDefinition
<1>1. IInv /\ TrailingInv => TrailingByDefinition
  BY TrailingPosition
<1>2. IInv /\ LadderInv => LadderByDefinition
  BY LadderPosition
<1>3. TrailingByDefinition /\ LadderByDefinition => PositionByDefinition
  BY DEF PositionByDefinition
<1> QED
  BY TrailingInvariance, LadderInvariance, <1>1, <1>2, <1>3, PTL

-----------------------------------------------------------------------------
(* The cash.  RiskKeepsCash is not inductive, and not true of every         *)
(* configuration: rungs of one bar are sized one by one against the same    *)
(* cash and filled at the next open, so it takes that all of them together, *)
(* at the dearest open that may follow, are worth no more than the account. *)

\* What a share costs that is bought at the open of a bar, with slippage and
\* commission.
Unit(b) == series.open[b] * (Scale + Slip) * (Scale + Comm)

\* The orders a bar may end with.
Rungs == IF Qty = <<>> THEN 1 ELSE Len(Qty)

\* The limit of the symbol, once for every rung, pays for the next open; one
\* share is at most half of the account, and the costs of a fill at most a third.
Modest ==
  /\ MaxPerSymbol <= 100
  /\ \A s \in AllSeries : \A b \in 2..Len(s.close) :
       Rungs * MaxPerSymbol * (s.open[b] * (Scale + Slip) * (Scale + Comm))
         <= 100 * (s.close[b - 1] * Scale * Scale)
  /\ \A s \in AllSeries : \A b \in DOMAIN s.close : 2 * s.close[b] <= Cash
  /\ 3 * ((Scale + Slip) * (Scale + Comm)) <= 4 * (Scale * Scale)

Buys(q) == {k \in DOMAIN q : q[k].side = "buy"}

\* With so many shares more the position is within the limit of the symbol.
Backed(n) == 100 * (qty + n) * Price <= MaxPerSymbol * Equity
Within(q) == \A k \in DOMAIN q : q[k].side = "buy" => Backed(q[k].qty)

\* What is in the hands of the broker at an open has a share of the cash for
\* every order; what has passed the risk layer is within the limit, and there is
\* no more than one order for every rung.
Funded(q, c) ==
  /\ Len(q) * c <= Rungs * cash
  /\ \A k \in DOMAIN q : q[k].side = "buy" => Rungs * (q[k].qty * Unit(bar)) <= c

Covered ==
  /\ InHand <= Rungs
  /\ pc = "open" => \E c \in Nat : Funded(pending, c)
  /\ pc # "open" => Within(pending)
  /\ Within(passed)
  /\ pc # "risk" => Within(todo)

Solvent ==
  /\ cash >= 0
  /\ Trailing /\ ~Entered => cash = Cash * Scale * Scale
  /\ ~Trailing => Covered

SolventInv == pc # "start" /\ Run.risk => Solvent

\* An order within the limit costs its share of the cash at most.
LEMMA AffordFact ==
  ASSUME NEW R \in Nat, NEW M \in Nat, M <= 100, NEW U \in Nat, NEW P \in Nat \ {0},
         NEW n \in Nat \ {0}, NEW q \in Nat, NEW c \in Int, c >= 0,
         R * M * U <= 100 * P, 100 * (q + n) * P <= M * (c + q * P)
  PROVE  R * (n * U) <= c
<1> DEFINE qP == q * P
           nP == n * P
           nU == n * U
           X == R * nU
<1>1. /\ qP \in Nat /\ nP \in Nat \ {0} /\ nU \in Nat /\ X \in Nat
  <2>1. \A x, y \in Nat : x * y \in Nat
    OBVIOUS
  <2>2. \A x, y \in Nat \ {0} : x * y \in Nat \ {0}
    OBVIOUS
  <2> QED
    BY <2>1, <2>2
<1>2. 100 * (q + n) * P = 100 * qP + 100 * nP
  OBVIOUS
<1>3. M * (c + qP) = M * c + M * qP
  BY <1>1
<1>4. M * X <= 100 * nP
  <2> DEFINE a == R * M * U
             d == 100 * P
  <2>1. a \in Nat /\ d \in Nat /\ a <= d
    OBVIOUS
  <2>2. \A x, y, z \in Nat : x <= y => z * x <= z * y
    OBVIOUS
  <2>3. n * a <= n * d
    BY <2>1, <2>2
  <2>4. n * a = M * X /\ n * d = 100 * nP
    OBVIOUS
  <2> QED
    BY <2>3, <2>4
<1> HIDE DEF qP, nP, nU, X
<1>5. 100 * qP + 100 * nP <= M * c + M * qP
  BY <1>2, <1>3 DEF qP
<1>6. M * qP <= 100 * qP
  BY <1>1
<1>7. M * c \in Int /\ M * qP \in Nat /\ M * X \in Nat
  BY <1>1
<1>8. M * X <= M * c /\ 100 * nP <= M * c
  BY <1>1, <1>4, <1>5, <1>6, <1>7
<1>9. M > 0
  <2>1. M = 0 => M * c = 0
    OBVIOUS
  <2> QED
    BY <1>1, <1>8, <2>1
<1>10. X <= c
  <2>1. ASSUME c < X PROVE FALSE
    <3>1. c + 1 <= X /\ M * (c + 1) <= M * X
      BY <1>1, <2>1
    <3>2. M * (c + 1) = M * c + M
      OBVIOUS
    <3> QED
      BY <1>7, <1>8, <1>9, <3>1, <3>2
  <2> QED
    BY <1>1, <2>1
<1> QED
  BY <1>10 DEF X, nU

\* One order paid, the others keep their share.
LEMMA PaidFact ==
  ASSUME NEW R \in Nat \ {0}, NEW c \in Nat, NEW l \in Nat \ {0}, NEW x \in Nat, NEW m \in Int,
         l * c <= R * m, R * x <= c
  PROVE  (l - 1) * c <= R * (m - x) /\ m - x >= 0
<1> DEFINE lc == l * c
           Rm == R * m
           Rx == R * x
<1>1. lc \in Nat /\ Rm \in Int /\ Rx \in Nat
  OBVIOUS
<1>2. (l - 1) * c = lc - c /\ R * (m - x) = Rm - Rx
  OBVIOUS
<1>3. (l - 1) * c >= 0
  OBVIOUS
<1> HIDE DEF lc, Rm, Rx
<1>4. lc - c <= Rm - Rx
  BY <1>1 DEF lc, Rm, Rx
<1>5. R * (m - x) >= 0
  BY <1>1, <1>2, <1>3, <1>4
<1>6. m - x >= 0
  BY <1>5
<1> QED
  BY <1>2, <1>4, <1>6

\* Half of the account buys a position the account can pay.
LEMMA HalfFact ==
  ASSUME NEW C \in Nat \ {0}, NEW p \in Nat \ {0}, 2 * p <= C, NEW w \in Nat, NEW s \in Nat,
         3 * w <= 4 * s
  PROVE  RoundHalfEven(C, 2 * p) * (p * w) <= C * s
<1> DEFINE d == 2 * p
           n == RoundHalfEven(C, d)
           down == C \div d
           r == C % d
<1>1. d \in Nat \ {0} /\ down \in Nat /\ r \in Nat /\ C = d * down + r /\ r < d
  OBVIOUS
<1>2. n \in Nat /\ (n = down \/ (n = down + 1 /\ 2 * r >= d))
  <2> HIDE DEF d
  <2> QED
    BY <1>1 DEF RoundHalfEven
<1> HIDE DEF down, r, n
<1>3. 2 * (d * n) <= 3 * C
  <2>1. d * (down + 1) = d * down + d /\ d * down \in Nat
    BY <1>1
  <2> HIDE DEF d
  <2>2. d <= C
    BY DEF d
  <2>3. CASE n = down
    BY <1>1, <2>1, <2>3
  <2>4. CASE n = down + 1 /\ 2 * r >= d
    BY <1>1, <2>1, <2>2, <2>4
  <2> QED
    BY <1>2, <2>3, <2>4
<1>4. n * p \in Nat /\ d * n = 2 * (n * p)
  BY <1>2
<1> DEFINE k == n * p
<1>5. k \in Nat /\ 4 * k <= 3 * C
  BY <1>3, <1>4
<1>6. n * (p * w) = k * w
  BY <1>2
<1> HIDE DEF k
<1>7. k * w \in Nat /\ C * w \in Nat /\ C * s \in Nat
  BY <1>5
<1>8. 4 * (k * w) <= 3 * (C * w)
  <2>1. (4 * k) * w <= (3 * C) * w
    <3> DEFINE a == 4 * k
               b == 3 * C
    <3>1. a \in Nat /\ b \in Nat /\ a <= b
      BY <1>5
    <3> HIDE DEF a, b
    <3>2. a * w <= b * w
      BY <3>1
    <3> QED
      BY <3>2 DEF a, b
  <2> QED
    BY <1>5, <2>1
<1>9. 3 * (C * w) <= 4 * (C * s)
  <2>1. C * (3 * w) <= C * (4 * s)
    <3> DEFINE a == 3 * w
               b == 4 * s
    <3>1. a \in Nat /\ b \in Nat /\ a <= b
      OBVIOUS
    <3> HIDE DEF a, b
    <3>2. C * a <= C * b
      BY <3>1
    <3> QED
      BY <3>2 DEF a, b
  <2> QED
    BY <2>1
<1>10. k * w <= C * s
  BY <1>7, <1>8, <1>9
<1> QED
  BY <1>6, <1>10 DEF n, d

LEMMA CostFact ==
  ASSUME IInv, pc # "start"
  PROVE  /\ Rungs \in Nat \ {0} /\ Unit(bar) \in Nat /\ Price \in Nat \ {0} /\ Equity \in Int
         /\ InHand \in Nat /\ cash \in Int /\ qty \in Nat
         /\ Scale \in Nat \ {0} /\ Scale - Slip \in Nat /\ Scale - Comm \in Nat
         /\ Cash * Scale * Scale \in Nat \ {0}
<1>1. /\ cash \in Int /\ qty \in Nat /\ Close(bar) \in Nat \ {0} /\ series.open[bar] \in Nat \ {0}
      /\ pending \in Seq(OrderType) /\ passed \in Seq(OrderType) /\ todo \in Seq(OrderType)
  BY PriceFact DEF IInv, TypeOK
<1>2. /\ Scale \in Nat \ {0} /\ Slip \in Nat /\ Comm \in Nat /\ Slip <= Scale /\ Comm <= Scale
      /\ Cash \in Nat \ {0} /\ Qty \in Seq(Nat \ {0})
  BY BacktestAssumption
<1>3. Scale - Slip \in Nat /\ Scale - Comm \in Nat /\ Scale + Slip \in Nat /\ Scale + Comm \in Nat
  BY <1>2
<1>4. \A x, y \in Nat : x * y \in Nat
  OBVIOUS
<1>5. \A x, y \in Nat \ {0} : x * y \in Nat \ {0}
  OBVIOUS
<1>6. \A x, y \in Int : x * y \in Int
  OBVIOUS
<1>7. Price \in Nat \ {0} /\ Cash * Scale * Scale \in Nat \ {0}
  BY <1>1, <1>2, <1>5 DEF Price
<1>8. Unit(bar) \in Nat
  BY <1>1, <1>3, <1>4 DEF Unit
<1>9. Equity \in Int
  BY <1>1, <1>2, <1>6 DEF Equity
<1>10. Rungs \in Nat \ {0}
  <2>1. Qty # <<>> => Len(Qty) \in Nat \ {0}
    BY <1>2
  <2> QED
    BY <2>1 DEF Rungs
<1>11. InHand \in Nat
  BY <1>1 DEF InHand
<1> QED
  BY <1>1, <1>2, <1>3, <1>7, <1>8, <1>9, <1>10, <1>11

\* What a fill does to the cash.
LEMMA PayFact ==
  ASSUME IInv, pc # "start", NEW p \in Nat \ {0}, NEW n \in Nat \ {0}, FillBuy(p, n)
  PROVE  cash' = cash - n * (p * (Scale + Slip) * (Scale + Comm))
<1>1. Scale + Slip \in Nat /\ Scale + Comm \in Nat
  BY BacktestAssumption
<1>2. \A a, b \in Nat : ((p * a) * n) * b = n * (p * a * b)
  OBVIOUS
<1> QED
  BY <1>1, <1>2 DEF FillBuy, BuyPrice

LEMMA EarnFact ==
  ASSUME IInv, pc # "start", NEW p \in Nat \ {0}, NEW n \in Nat \ {0}, FillSell(p, n)
  PROVE  cash' \in Int /\ cash' >= cash
<1>1. SellPrice(p) * n \in Nat /\ Scale - Comm \in Nat /\ cash \in Int
  BY CostFact, FillFact
<1>2. \A x, y \in Nat : x * y \in Nat
  OBVIOUS
<1>3. (SellPrice(p) * n) * (Scale - Comm) \in Nat
  BY <1>1, <1>2
<1>4. cash' = cash + (SellPrice(p) * n) * (Scale - Comm)
  BY DEF FillSell
<1> QED
  BY <1>1, <1>3, <1>4

\* Inside a bar the limit stays what it was.
LEMMA MoveFact ==
  ASSUME UNCHANGED <<series, bar, cash, qty>>, pc' # "open", InHand' <= Rungs,
         \A k \in DOMAIN pending' : pending'[k].side = "buy" => Backed(pending'[k].qty),
         \A k \in DOMAIN passed' : passed'[k].side = "buy" => Backed(passed'[k].qty),
         pc' # "risk" => \A k \in DOMAIN todo' : todo'[k].side = "buy" => Backed(todo'[k].qty)
  PROVE  Covered'
<1>1. Price' = Price /\ Equity' = Equity
  BY DEF Price, Equity, Close
<1>2. Rungs' = Rungs
  BY DEF Rungs
<1>3. Within(pending)'
  BY <1>1 DEF Within, Backed
<1>4. Within(passed)'
  BY <1>1 DEF Within, Backed
<1>5. pc' # "risk" => Within(todo)'
  BY <1>1 DEF Within, Backed
<1> QED
  BY <1>2, <1>3, <1>4, <1>5 DEF Covered

LEMMA CoveredFill == ASSUME IInv, IInv', Solvent, ~Trailing, FillOrder PROVE cash' >= 0 /\ Covered'
<1> DEFINE o == Head(pending)
<1>1. /\ pc = "open" /\ pc' = "open" /\ pending # <<>> /\ pending' = Tail(pending)
      /\ UNCHANGED <<series, runs, bar, todo, passed>>
  BY DEF FillOrder, cycleVars
<1>2. /\ Covered /\ cash >= 0 /\ cash \in Int /\ Rungs \in Nat \ {0} /\ Unit(bar) \in Nat
      /\ InHand \in Nat /\ todo = <<>> /\ passed = <<>> /\ pending \in Seq(OrderType)
      /\ Rungs' = Rungs /\ Unit(bar)' = Unit(bar)
  <2>1. Covered /\ cash >= 0
    BY DEF Solvent
  <2>2. Rungs' = Rungs /\ Unit(bar)' = Unit(bar)
    BY <1>1 DEF Rungs, Unit
  <2> QED
    BY <1>1, <2>1, <2>2, CostFact DEF IInv, Flow, TypeOK
<1>3. /\ o \in OrderType /\ 1 \in DOMAIN pending /\ o = pending[1]
      /\ Tail(pending) \in Seq(OrderType) /\ Len(Tail(pending)) = Len(pending) - 1
      /\ Len(pending) \in Nat \ {0}
      /\ \A k \in DOMAIN Tail(pending) : k + 1 \in DOMAIN pending /\ Tail(pending)[k] = pending[k + 1]
  BY <1>1, <1>2, TailFact
<1>4. o.qty \in Nat \ {0} /\ series.open[bar] \in Nat \ {0}
  BY <1>1, <1>3, OrderFact, PriceFact DEF IInv
<1>5. InHand' <= Rungs
  BY <1>1, <1>2, <1>3 DEF InHand, Covered
<1>6. (cash' >= 0 /\ \E c \in Nat : Funded(pending, c)')
  <2>1. CASE o.side = "buy"
    <3>1. PICK c \in Nat : Funded(pending, c)
      BY <1>1, <1>2 DEF Covered
    <3> DEFINE x == o.qty * Unit(bar)
    <3>2. x \in Nat /\ Rungs * x <= c /\ Len(pending) * c <= Rungs * cash
      <4>1. x \in Nat
        BY <1>2, <1>4
      <4> QED
        BY <1>3, <2>1, <3>1, <4>1 DEF Funded
    <3>3. cash' = cash - x
      <4>1. FillBuy(series.open[bar], o.qty)
        BY <2>1 DEF FillOrder
      <4> QED
        BY <1>1, <1>4, <4>1, PayFact DEF Unit
    <3> HIDE DEF x
    <3>4. (Len(pending) - 1) * c <= Rungs * (cash - x) /\ cash - x >= 0
      BY <1>2, <1>3, <3>2, PaidFact
    <3>5. Len(pending') * c <= Rungs' * cash'
      BY <1>1, <1>2, <1>3, <3>3, <3>4
    <3>6. \A k \in DOMAIN pending' : pending'[k].side = "buy" => Rungs' * (pending'[k].qty * Unit(bar)') <= c
      BY <1>1, <1>2, <1>3, <3>1 DEF Funded
    <3>7. Funded(pending, c)'
      BY <3>5, <3>6 DEF Funded
    <3> QED
      BY <3>3, <3>4, <3>7
  <2>2. CASE o.side = "sell"
    <3>1. Len(pending) = 1
      BY <1>1, <1>2, <1>3, <2>2 DEF IInv, SoleSale, InHand
    <3>2. pending' = <<>>
      BY <1>1, <1>2, <3>1
    <3>3. FillSell(series.open[bar], o.qty)
      BY <2>2 DEF FillOrder
    <3>4. cash' \in Int /\ cash' >= 0
      <4> HIDE DEF o
      <4>1. cash' \in Int /\ cash' >= cash
        BY <1>1, <1>4, <3>3, EarnFact
      <4> QED
        BY <1>2, <4>1
    <3>5. Rungs' * cash' >= 0
      <4>1. \A x, y \in Nat : x * y >= 0
        OBVIOUS
      <4>2. Rungs' \in Nat /\ cash' \in Nat
        BY <1>2, <3>4
      <4> QED
        BY <4>1, <4>2
    <3>6. Funded(pending, 0)'
      BY <3>2, <3>5 DEF Funded
    <3> QED
      BY <3>4, <3>6
  <2> QED
    BY <2>1, <2>2 DEF FillOrder
<1>7. Within(passed)' /\ Within(todo)'
  BY <1>1, <1>2 DEF Within
<1> QED
  BY <1>1, <1>2, <1>5, <1>6, <1>7 DEF Covered

\* No order in hand, or only the sale of everything.
LEMMA CoveredIdle ==
  ASSUME IInv, ~Trailing, Opened \/ EvaluateBroken
  PROVE  Covered' /\ UNCHANGED cash
<1>1. pc # "start" /\ pending = <<>> /\ passed = <<>> /\ todo = <<>>
  BY DEF Opened, EvaluateBroken, IInv, Flow
<1>2. UNCHANGED <<series, bar, cash, qty, pending, passed>> /\ pc' # "open"
      /\ (todo' = <<>> \/ todo' = Sale)
  <2>1. CASE Opened
    <3>1. pc' # "open"
      BY <2>1 DEF Opened
    <3> QED
      BY <1>1, <2>1, <3>1 DEF Opened, brokerVars, cycleVars
  <2>2. CASE EvaluateBroken
    <3>1. Route(Sale) /\ UNCHANGED <<series, bar, cash, qty, pending, passed>>
      BY <2>2 DEF EvaluateBroken, brokerVars
    <3>2. todo' = Sale /\ pc' # "open"
      BY <3>1 DEF Route, Judged
    <3> QED
      BY <3>1, <3>2
  <2> QED
    BY <2>1, <2>2
<1>3. Len(todo') <= 1 /\ Len(todo') \in Nat /\ \A k \in DOMAIN todo' : todo'[k].side # "buy"
  <2>1. Len(Sale) = 1 /\ DOMAIN Sale = {1} /\ Sale[1].side = "sell"
    BY DEF Sale
  <2>2. Len(<<>>) = 0 /\ DOMAIN <<>> = {}
    OBVIOUS
  <2>3. CASE todo' = Sale
    <3>1. Len(todo') = 1 /\ DOMAIN todo' = {1} /\ todo'[1].side = "sell"
      BY <2>1, <2>3
    <3> QED
      BY <3>1
  <2>4. CASE todo' = <<>>
    BY <2>2, <2>4
  <2> QED
    BY <1>2, <2>3, <2>4
<1>4. InHand' <= Rungs
  <2>1. Rungs \in Nat \ {0}
    BY <1>1, CostFact
  <2>2. Len(pending') = 0 /\ Len(passed') = 0
    BY <1>1, <1>2
  <2> QED
    BY <1>3, <2>1, <2>2 DEF InHand
<1> QED
  BY <1>1, <1>2, <1>3, <1>4, MoveFact

LEMMA CoveredRungs ==
  ASSUME IInv, Run.risk, EvaluateRungs
  PROVE  Covered' /\ UNCHANGED cash
<1>1. PICK f \in InOrder(Reached) : Route(RungOrders(f))
  BY DEF EvaluateRungs
<1>2. /\ pc = "evaluate" /\ ~Trailing
      /\ UNCHANGED <<series, bar, cash, qty, pending, passed>>
  BY DEF EvaluateRungs, brokerVars
<1>3. pending' = <<>> /\ passed' = <<>>
  BY <1>2 DEF IInv, Flow
<1>4. todo' = RungOrders(f) /\ pc' \in {"risk", "mark"} /\ (pc' = "mark" => RungOrders(f) = <<>>)
  BY <1>1 DEF Route
<1>5. Len(RungOrders(f)) \in Nat /\ Len(RungOrders(f)) <= Rungs
  <2>1. Reached \in SUBSET DOMAIN Drop /\ DOMAIN Drop = 1..Len(Qty) /\ Len(Qty) \in Nat
    <3>1. Drop \in Seq(0..100) /\ Qty \in Seq(Nat \ {0}) /\ Len(Qty) = Len(Drop)
      BY BacktestAssumption
    <3>2. Reached \in SUBSET DOMAIN Drop
      BY DEF Reached
    <3> QED
      BY <3>1, <3>2
  <2>2. IsFiniteSet(1..Len(Qty)) /\ Cardinality(1..Len(Qty)) = Len(Qty)
    <3>1. ASSUME NEW n \in Nat PROVE IsFiniteSet(1..n) /\ Cardinality(1..n) = n
      BY FS_Interval
    <3> QED
      BY <2>1, <3>1
  <2>3. Cardinality(Reached) \in Nat /\ Cardinality(Reached) <= Len(Qty)
    BY <2>1, <2>2, FS_Subset, FS_CardinalityType
  <2>4. f \in [1..Cardinality(Reached) -> Reached]
    BY DEF InOrder
  <2>5. Len(RungOrders(f)) = Cardinality(Reached)
    <3>1. DOMAIN RungOrders(f) = 1..Cardinality(Reached)
      BY <2>4 DEF RungOrders
    <3>2. RungOrders(f) \in Seq(OrderType)
      BY <2>1, RungFact DEF IInv
    <3> QED
      BY <2>3, <3>1, <3>2
  <2>6. Qty # <<>> => Rungs = Len(Qty)
    BY DEF Rungs
  <2>7. Qty = <<>> => Len(Qty) = 0 /\ Rungs = 1
    BY DEF Rungs
  <2> QED
    BY <2>1, <2>3, <2>5, <2>6, <2>7
<1>6. InHand' <= Rungs
  BY <1>3, <1>4, <1>5 DEF InHand
<1>7. pc' # "risk" => \A k \in DOMAIN todo' : todo'[k].side = "buy" => Backed(todo'[k].qty)
  BY <1>4
<1>8. \A k \in DOMAIN <<>> : FALSE
  OBVIOUS
<1> QED
  BY <1>2, <1>3, <1>4, <1>6, <1>7, <1>8, MoveFact

\* A gate lets an order through, or drops it.
LEMMA CoveredGate ==
  ASSUME IInv, Covered, pc \in {"risk", "judge"}, pc' = pc, todo # <<>>, todo' = Tail(todo),
         NEW o \in OrderType, passed' = Append(passed, o) \/ passed' = passed,
         o.side = "buy" => Backed(o.qty),
         UNCHANGED <<series, bar, cash, qty, pending>>
  PROVE  Covered'
<1>1. todo \in Seq(OrderType) /\ passed \in Seq(OrderType) /\ pending \in Seq(OrderType)
  BY DEF IInv, TypeOK
<1>2. /\ Len(Tail(todo)) = Len(todo) - 1 /\ Len(todo) \in Nat \ {0}
      /\ \A k \in DOMAIN Tail(todo) : k + 1 \in DOMAIN todo /\ Tail(todo)[k] = todo[k + 1]
  BY <1>1, TailFact
<1>3. /\ Len(Append(passed, o)) = Len(passed) + 1
      /\ \A k \in DOMAIN Append(passed, o) :
           (k \in DOMAIN passed /\ Append(passed, o)[k] = passed[k]) \/ Append(passed, o)[k] = o
  BY <1>1, AppendFact
<1>4. InHand' <= Rungs
  <2>1. Len(passed') <= Len(passed) + 1 /\ Len(passed') \in Nat
    BY <1>1, <1>3
  <2>2. Len(pending) \in Nat /\ Len(passed) \in Nat /\ Rungs \in Nat
    <3>1. pc # "start"
      OBVIOUS
    <3>2. Rungs \in Nat
      BY <3>1, CostFact
    <3> QED
      BY <1>1, <3>2
  <2> QED
    BY <1>2, <2>1, <2>2 DEF InHand, Covered
<1>5. \A k \in DOMAIN passed' : passed'[k].side = "buy" => Backed(passed'[k].qty)
  <2>1. \A k \in DOMAIN passed : passed[k].side = "buy" => Backed(passed[k].qty)
    BY DEF Covered, Within
  <2> QED
    BY <1>3, <2>1
<1>6. pc' # "risk" => \A k \in DOMAIN todo' : todo'[k].side = "buy" => Backed(todo'[k].qty)
  BY <1>2 DEF Covered, Within
<1>7. \A k \in DOMAIN pending' : pending'[k].side = "buy" => Backed(pending'[k].qty)
  BY DEF Covered, Within
<1> QED
  BY <1>4, <1>5, <1>6, <1>7, MoveFact

LEMMA CoveredAssess == ASSUME IInv, Covered, Assess PROVE Covered' /\ UNCHANGED cash
<1> DEFINE it == Head(todo)
           cut == [it EXCEPT !.qty = Sized(it.qty)]
<1>1. /\ pc = "risk" /\ pc' = pc /\ todo # <<>> /\ todo' = Tail(todo)
      /\ UNCHANGED <<series, bar, cash, qty, pending>>
  BY DEF Assess, brokerVars
<1>2. it \in OrderType /\ it.qty \in Nat \ {0}
  BY <1>1, TailFact, OrderFact DEF IInv, TypeOK
<1>3. CASE it.side # "buy" /\ passed' = Append(passed, it)
  BY <1>1, <1>2, <1>3, CoveredGate
<1>4. CASE it.side = "buy" /\ BuyPasses(it.qty) /\ passed' = Append(passed, cut)
  <2>1. Sized(it.qty) \in Nat \ {0}
    BY <1>1, <1>2, <1>4, SizedFact DEF IInv
  <2>2. cut \in OrderType /\ cut.qty = Sized(it.qty)
    BY <1>2, <2>1 DEF OrderType
  <2>3. Backed(Sized(it.qty))
    BY <1>4 DEF BuyPasses, Backed
  <2> HIDE DEF cut
  <2>4. Backed(cut.qty)
    BY <2>2, <2>3
  <2> QED
    BY <1>1, <1>4, <2>2, <2>4, CoveredGate
<1>5. CASE it.side = "buy" /\ passed' = passed
  <2> DEFINE o == [it EXCEPT !.side = "sell"]
  <2>1. o \in OrderType /\ o.side # "buy"
    BY <1>2 DEF OrderType, Sides
  <2> HIDE DEF o
  <2> QED
    BY <1>1, <1>5, <2>1, CoveredGate
<1> QED
  BY <1>1, <1>3, <1>4, <1>5 DEF Assess

LEMMA CoveredJudge == ASSUME IInv, Covered, Judge PROVE Covered' /\ UNCHANGED cash
<1> DEFINE it == Head(todo)
           named == [it EXCEPT !.id = Len(decisions) + 1]
<1>1. /\ pc = "judge" /\ pc' = pc /\ todo # <<>> /\ todo' = Tail(todo)
      /\ passed' = Append(passed, named) \/ passed' = passed
      /\ UNCHANGED <<series, bar, cash, qty, pending>>
  BY DEF Judge, brokerVars
<1>2. it \in OrderType /\ it = todo[1] /\ 1 \in DOMAIN todo /\ Len(decisions) \in Nat
  BY <1>1, TailFact DEF IInv, TypeOK
<1>3. named \in OrderType /\ named.side = it.side /\ named.qty = it.qty
  BY <1>2 DEF OrderType
<1>4. it.side = "buy" => Backed(it.qty)
  BY <1>1, <1>2 DEF Covered, Within
<1> HIDE DEF named
<1>5. named.side = "buy" => Backed(named.qty)
  BY <1>3, <1>4
<1> QED
  BY <1>1, <1>3, <1>5, CoveredGate

LEMMA CoveredForward ==
  ASSUME IInv, Covered, Assessed \/ JudgedAll
  PROVE  Covered' /\ UNCHANGED cash
<1>1. /\ pc \in {"risk", "judge"} /\ pc' # "open" /\ todo = <<>> /\ todo' = passed /\ passed' = <<>>
      /\ UNCHANGED <<series, bar, cash, qty, pending>>
  BY DEF Assessed, JudgedAll, Judged, brokerVars
<1>2. InHand' <= Rungs
  BY <1>1 DEF Covered, InHand, IInv, TypeOK
<1>3. Within(passed) /\ Within(pending)
  BY <1>1 DEF Covered
<1>4. \A k \in DOMAIN <<>> : FALSE
  OBVIOUS
<1> QED
  BY <1>1, <1>2, <1>3, <1>4, MoveFact DEF Within

LEMMA CoveredSubmit == ASSUME IInv, Covered, Submit PROVE Covered' /\ UNCHANGED cash
<1> DEFINE it == Head(todo)
<1>1. /\ pc = "submit" /\ pc' = pc /\ todo # <<>> /\ todo' = Tail(todo)
      /\ UNCHANGED <<series, bar, cash, qty, passed>>
      /\ pending' = Append(pending, it) \/ pending' = pending
  BY DEF Submit
<1>2. todo \in Seq(OrderType) /\ pending \in Seq(OrderType) /\ passed = <<>>
  BY <1>1 DEF IInv, TypeOK, Flow
<1>3. /\ it \in OrderType /\ 1 \in DOMAIN todo /\ it = todo[1]
      /\ Len(Tail(todo)) = Len(todo) - 1 /\ Len(todo) \in Nat \ {0}
      /\ \A k \in DOMAIN Tail(todo) : k + 1 \in DOMAIN todo /\ Tail(todo)[k] = todo[k + 1]
  BY <1>1, <1>2, TailFact
<1>4. Within(todo) /\ Within(pending)
  BY <1>1 DEF Covered
<1> HIDE DEF it
<1>5. /\ Len(Append(pending, it)) = Len(pending) + 1
      /\ \A k \in DOMAIN Append(pending, it) :
           (k \in DOMAIN pending /\ Append(pending, it)[k] = pending[k]) \/ Append(pending, it)[k] = it
  BY <1>2, <1>3, AppendFact
<1>6. InHand' <= Rungs
  <2>1. Len(pending') <= Len(pending) + 1 /\ Len(pending') \in Nat
    BY <1>1, <1>2, <1>5
  <2>2. Len(pending) \in Nat /\ Len(passed) \in Nat /\ Rungs \in Nat /\ Len(passed') = Len(passed)
    BY <1>1, <1>2, CostFact
  <2> QED
    BY <1>1, <1>3, <2>1, <2>2 DEF InHand, Covered
<1>7. \A k \in DOMAIN pending' : pending'[k].side = "buy" => Backed(pending'[k].qty)
  BY <1>1, <1>3, <1>4, <1>5 DEF Within
<1>8. \A k \in DOMAIN todo' : todo'[k].side = "buy" => Backed(todo'[k].qty)
  BY <1>1, <1>3, <1>4 DEF Within
<1>9. \A k \in DOMAIN passed' : FALSE
  BY <1>1, <1>2
<1> QED
  BY <1>1, <1>6, <1>7, <1>8, <1>9, MoveFact

\* The next open: what is within the limit at the close can be paid at the open.
LEMMA CoveredMark ==
  ASSUME Modest, IInv, Solvent, ~Trailing, Mark
  PROVE  Covered' /\ UNCHANGED cash
<1>1. /\ pc = "mark" /\ UNCHANGED <<series, runs, cash, qty, pending, passed, todo>>
      /\ \/ bar < Run.hi /\ bar' = bar + 1 /\ pc' = "open"
         \/ pc' = "finish" /\ UNCHANGED bar
  BY DEF Mark, brokerVars, cycleVars
<1>2. /\ Covered /\ cash >= 0 /\ passed = <<>> /\ todo = <<>> /\ Within(pending)
      /\ pending \in Seq(OrderType)
  <2>1. Covered /\ cash >= 0
    BY DEF Solvent
  <2> QED
    BY <1>1, <2>1 DEF Covered, IInv, Flow, TypeOK
<1>3. InHand' <= Rungs
  BY <1>1, <1>2 DEF InHand, Covered
<1>4. CASE pc' = "finish" /\ UNCHANGED bar
  BY <1>1, <1>2, <1>3, <1>4, MoveFact DEF Within
<1>5. CASE bar < Run.hi /\ bar' = bar + 1 /\ pc' = "open"
  <2> DEFINE U == Unit(bar + 1)
             P == Price
  <2>1. /\ bar \in Nat \ {0} /\ Run.hi <= Len(series.close) /\ Len(series.close) \in Nat /\ Run.hi \in Nat
        /\ series \in AllSeries /\ series.open \in Seq(Nat \ {0}) /\ Len(series.open) = Len(series.close)
    <3>1. series \in AllSeries /\ Run.hi <= Len(series.close)
      BY <1>1 DEF IInv, RunsFit, TypeOK, Run
    <3>2. series.open \in Seq(Nat \ {0}) /\ series.close \in Seq(Nat \ {0}) /\ Len(series.open) = Len(series.close)
      BY <3>1, BacktestAssumption
    <3> QED
      BY <1>1, <3>1, <3>2, PriceFact DEF IInv
  <2>2. bar + 1 \in 2..Len(series.close) /\ (bar + 1) - 1 = bar
    BY <1>5, <2>1
  <2>3. U \in Nat
    <3>1. series.open[bar + 1] \in Nat
      BY <2>1, <2>2
    <3>2. Scale + Slip \in Nat /\ Scale + Comm \in Nat
      BY BacktestAssumption
    <3>3. \A x, y \in Nat : x * y \in Nat
      OBVIOUS
    <3> QED
      BY <3>1, <3>2, <3>3 DEF Unit
  <2>4. /\ P \in Nat \ {0} /\ Rungs \in Nat \ {0} /\ cash \in Int /\ qty \in Nat
        /\ Equity = cash + qty * P
    <3>1. Scale \in Int /\ Close(bar) \in Int /\ qty \in Int
      BY <1>1, PriceFact, BacktestAssumption DEF IInv, TypeOK
    <3>2. qty * Close(bar) * Scale * Scale = qty * (Close(bar) * Scale * Scale)
      BY <3>1
    <3> QED
      BY <1>1, <3>2, CostFact DEF Equity, Price
  <2>5. MaxPerSymbol \in Nat /\ MaxPerSymbol <= 100 /\ Rungs * MaxPerSymbol * U <= 100 * P
    <3>1. Rungs * MaxPerSymbol * (series.open[bar + 1] * (Scale + Slip) * (Scale + Comm))
            <= 100 * (series.close[(bar + 1) - 1] * Scale * Scale)
      BY <2>1, <2>2 DEF Modest
    <3> QED
      BY <2>2, <3>1, BacktestAssumption DEF Modest, Unit, Price, Close
  <2> HIDE DEF U, P
  <2>6. ASSUME NEW k \in DOMAIN pending, pending[k].side = "buy"
        PROVE  Rungs * (pending[k].qty * U) <= cash
    <3> DEFINE n == pending[k].qty
    <3>1. n \in Nat \ {0}
      BY <1>2, OrderFact
    <3>2. Backed(n)
      BY <1>2, <2>6 DEF Within
    <3> HIDE DEF n
    <3>3. 100 * (qty + n) * P <= MaxPerSymbol * (cash + qty * P)
      BY <2>4, <3>2 DEF Backed, P
    <3>4. Rungs * (n * U) <= cash
      BY <1>2, <2>3, <2>4, <2>5, <3>1, <3>3, AffordFact
    <3> QED
      BY <3>4 DEF n
  <2>7. Len(pending) * cash <= Rungs * cash
    <3>1. Len(pending) \in Nat /\ Len(pending) <= Rungs
      BY <1>2 DEF InHand, Covered
    <3>2. \A x, y, z \in Nat : x <= y => x * z <= y * z
      OBVIOUS
    <3> QED
      BY <1>2, <2>4, <3>1, <3>2
  <2>8. Unit(bar)' = U /\ Rungs' = Rungs
    BY <1>1, <1>5 DEF Unit, U, Rungs
  <2>9. cash \in Nat /\ Funded(pending, cash)'
    <3>1. \A k \in DOMAIN pending' : pending'[k].side = "buy" => Rungs' * (pending'[k].qty * Unit(bar)') <= cash'
      BY <1>1, <2>6, <2>8
    <3>2. Len(pending') * cash' <= Rungs' * cash'
      BY <1>1, <2>7, <2>8
    <3> QED
      BY <1>2, <2>4, <3>1, <3>2 DEF Funded
  <2>10. \E c \in Nat : Funded(pending, c)'
    <3>1. PICK c \in Nat : c = cash'
      BY <1>1, <2>9
    <3>2. Funded(pending, c)'
      BY <2>9, <3>1 DEF Funded
    <3> QED
      BY <3>2
  <2>11. Within(passed)' /\ Within(todo)'
    BY <1>1, <1>2 DEF Within
  <2> QED
    BY <1>1, <1>3, <1>5, <2>8, <2>10, <2>11 DEF Covered
<1> QED
  BY <1>1, <1>4, <1>5

LEMMA CoveredStep ==
  ASSUME Modest, IInv, IInv', Solvent, Run.risk, ~Trailing, pc # "start", pc' # "start", [Next]_vars
  PROVE  cash' >= 0 /\ Covered'
<1>1. Covered /\ cash >= 0
  BY DEF Solvent
<1>2. CASE StartRun \/ SkipRun \/ Finish \/ Enter \/ Protect \/ EvaluateTrailing
  BY <1>2 DEF StartRun, SkipRun, Finish, Enter, Protect, EvaluateTrailing, IInv, Flow
<1>3. CASE FillOrder
  BY <1>3, CoveredFill
<1>4. CASE Opened \/ EvaluateBroken
  BY <1>1, <1>4, CoveredIdle
<1>5. CASE EvaluateRungs
  BY <1>1, <1>5, CoveredRungs
<1>6. CASE Assess \/ Assessed
  BY <1>1, <1>6, CoveredAssess, CoveredForward
<1>7. CASE Judge \/ JudgedAll
  BY <1>1, <1>7, CoveredJudge, CoveredForward
<1>8. CASE Submit
  BY <1>1, <1>8, CoveredSubmit
<1>9. CASE Mark
  BY <1>1, <1>9, CoveredMark
<1>10. CASE Submitted \/ UNCHANGED vars
  <2>1. UNCHANGED <<series, bar, cash, qty, pending, passed, todo>> /\ (pc' = pc \/ (pc = "submit" /\ pc' = "mark"))
    BY <1>10 DEF Submitted, vars, brokerVars, cycleVars
  <2>2. /\ InHand' = InHand /\ Rungs' = Rungs /\ Price' = Price /\ Equity' = Equity
        /\ Unit(bar)' = Unit(bar)
    BY <2>1 DEF InHand, Rungs, Price, Equity, Unit, Close
  <2>3. /\ Within(pending) => Within(pending)'
        /\ Within(passed) => Within(passed)'
        /\ Within(todo) => Within(todo)'
    BY <2>1, <2>2 DEF Within, Backed
  <2>4. ASSUME NEW c \in Nat, Funded(pending, c) PROVE Funded(pending, c)'
    BY <2>1, <2>2, <2>4 DEF Funded
  <2>5. (\E c \in Nat : Funded(pending, c)) => \E c \in Nat : Funded(pending, c)'
    BY <2>4
  <2> QED
    BY <1>1, <2>1, <2>2, <2>3, <2>5 DEF Covered
<1> QED
  BY <1>2, <1>3, <1>4, <1>5, <1>6, <1>7, <1>8, <1>9, <1>10 DEF Next

\* The trailing stop buys once, with the whole account to pay for it, and after
\* that only sells.
LEMMA TrailingSolvent ==
  ASSUME Modest, IInv, TrailingInv, Solvent, Trailing, pc # "start", pc' # "start", [Next]_vars
  PROVE  cash' >= 0 /\ (~Entered' => cash' = Cash * Scale * Scale)
<1>1. /\ cash >= 0 /\ (~Entered => cash = Cash * Scale * Scale) /\ cash \in Int
      /\ TrailingHolds /\ bar \in Nat /\ Entry \in Nat
  BY BarFact DEF Solvent, TrailingInv, IInv, TypeOK
<1>2. CASE StartRun \/ SkipRun \/ Finish \/ EvaluateBroken \/ EvaluateRungs \/ Judge \/ JudgedAll
  BY <1>1, <1>2 DEF StartRun, SkipRun, Finish, EvaluateBroken, EvaluateRungs, Judge, JudgedAll, TrailingHolds
<1>3. CASE FillOrder
  <2>1. /\ pc = "open" /\ pc' = "open" /\ pending # <<>> /\ UNCHANGED <<series, runs, bar>>
    BY <1>3 DEF FillOrder
  <2>2. Head(pending) = pending[1] /\ 1 \in DOMAIN pending /\ Head(pending) \in OrderType
    BY <2>1, TailFact DEF IInv, TypeOK
  <2>3. Head(pending).side = "sell" /\ Entered
    BY <1>1, <2>1, <2>2 DEF TrailingHolds
  <2>4. FillSell(series.open[bar], Head(pending).qty)
    BY <1>3, <2>3 DEF FillOrder
  <2>5. cash' \in Int /\ cash' >= cash
    BY <1>1, <2>1, <2>2, <2>4, OrderFact, PriceFact, EarnFact DEF IInv
  <2>6. Entered'
    BY <2>1, <2>3, StopSame DEF Entered
  <2> QED
    BY <1>1, <2>5, <2>6
<1>4. CASE Enter
  <2> DEFINE n == RoundHalfEven(Cash, 2 * Close(bar))
             w == (Scale + Slip) * (Scale + Comm)
             s == Scale * Scale
  <2>1. /\ pc = "enter" /\ pc' = "protect" /\ UNCHANGED <<series, runs, bar>>
        /\ \/ bar - Run.lo = Warmup /\ n > 0 /\ FillBuy(Close(bar), n)
           \/ UNCHANGED cash
    BY <1>4 DEF Enter
  <2>2. bar >= Entry /\ (bar - Run.lo = Warmup => bar = Entry)
    <3> DEFINE lo == Run.lo
    <3>1. lo \in Nat /\ Entry = lo + Warmup /\ Warmup \in Nat
      BY <2>1, BarFact, BacktestAssumption DEF Entry
    <3>2. ~(bar < Entry)
      BY <1>1, <2>1 DEF TrailingHolds
    <3> HIDE DEF lo
    <3>3. bar >= Entry /\ (bar - lo = Warmup => bar = Entry)
      BY <1>1, <3>1, <3>2
    <3> QED
      BY <3>3 DEF lo
  <2>3. Entered'
    BY <1>1, <2>1, <2>2, StopSame DEF Entered
  <2>4. CASE UNCHANGED cash
    BY <1>1, <2>3, <2>4
  <2>5. CASE bar = Entry /\ n > 0 /\ FillBuy(Close(bar), n)
    <3>1. ~Entered
      BY <1>1, <2>1, <2>5 DEF Entered
    <3>2. Close(bar) \in Nat \ {0} /\ 2 * Close(bar) <= Cash /\ Cash \in Nat \ {0}
      <4>1. series \in AllSeries /\ bar \in DOMAIN series.close
        <5>1. series \in AllSeries /\ Run.hi <= Len(series.close) /\ bar \in Nat \ {0} /\ bar <= Run.hi /\ Run.hi \in Nat
          <6>1. series \in AllSeries /\ Run.hi <= Len(series.close)
            BY <2>1 DEF IInv, RunsFit, TypeOK, Run
          <6>2. bar \in Nat \ {0} /\ Run.hi \in Nat
            BY <2>1, PriceFact DEF IInv
          <6>3. bar <= Run.hi
            BY <2>1, BarFact
          <6> QED
            BY <6>1, <6>2, <6>3
        <5>2. series.close \in Seq(Nat \ {0})
          BY <5>1, BacktestAssumption
        <5> QED
          BY <5>1, <5>2
      <4> QED
        BY <2>1, <4>1, BarFact, BacktestAssumption DEF Modest, Close
    <3>3. w \in Nat /\ s \in Nat /\ 3 * w <= 4 * s
      <4>1. Scale \in Nat /\ Scale + Slip \in Nat /\ Scale + Comm \in Nat
        BY BacktestAssumption
      <4>2. \A x, y \in Nat : x * y \in Nat
        OBVIOUS
      <4> QED
        BY <4>1, <4>2 DEF Modest
    <3>4. n \in Nat \ {0}
      <4>1. 2 * Close(bar) \in Nat \ {0} /\ Cash \in Nat
        BY <3>2
      <4> QED
        BY <2>5, <4>1, RoundFact
    <3>5. n * (Close(bar) * w) <= Cash * s
      <4> HIDE DEF w, s
      <4> QED
        BY <3>2, <3>3, HalfFact
    <3>6. cash' = Cash * Scale * Scale - n * (Close(bar) * (Scale + Slip) * (Scale + Comm))
      <4> HIDE DEF n
      <4> QED
        BY <1>1, <2>1, <2>5, <3>1, <3>2, <3>4, PayFact
    <3>7. /\ Close(bar) * (Scale + Slip) * (Scale + Comm) = Close(bar) * w
          /\ Cash * Scale * Scale = Cash * s
      <4>1. Scale \in Int /\ Slip \in Int /\ Comm \in Int /\ Close(bar) \in Int /\ Cash \in Int
        BY <3>2, BacktestAssumption
      <4>2. \A x, y, z \in Int : x * y * z = x * (y * z)
        OBVIOUS
      <4> QED
        BY <4>1, <4>2
    <3>8. Cash * s \in Int /\ n * (Close(bar) * w) \in Int
      <4> HIDE DEF n, w, s
      <4>1. \A x, y \in Int : x * y \in Int
        OBVIOUS
      <4> QED
        BY <3>2, <3>3, <3>4, <4>1
    <3> HIDE DEF n, w, s
    <3>9. cash' = Cash * s - n * (Close(bar) * w)
      BY <3>6, <3>7
    <3>10. cash' >= 0
      BY <3>5, <3>8, <3>9
    <3> QED
      BY <2>3, <3>10
  <2> QED
    BY <2>1, <2>2, <2>4, <2>5
<1>5. CASE Mark
  <2>1. /\ pc = "mark" /\ UNCHANGED <<series, runs, cash>>
        /\ (bar' = bar + 1 /\ pc' = "open") \/ (bar' = bar /\ pc' = "finish")
    BY <1>5 DEF Mark, brokerVars
  <2>2. Entered => Entered'
    BY <1>1, <2>1, StopSame DEF Entered
  <2> QED
    BY <1>1, <2>1, <2>2
<1>6. CASE Opened \/ Protect \/ EvaluateTrailing \/ Assess \/ Assessed \/ Submit \/ Submitted
           \/ UNCHANGED vars
  <2>1. UNCHANGED <<series, runs, bar, cash>>
    BY <1>6 DEF Opened, Protect, EvaluateTrailing, Assess, Assessed, Submit, Submitted,
       brokerVars, vars
  <2>2. pc' \in {"open", "enter"} => pc \in {"open", "enter"}
    BY <1>6 DEF Opened, Protect, EvaluateTrailing, Assess, Assessed, Submit, Submitted, vars,
       Route, Judged
  <2>3. Entered => Entered'
    BY <1>1, <2>1, <2>2, StopSame DEF Entered
  <2> QED
    BY <1>1, <2>1, <2>3
<1> QED
  BY <1>2, <1>3, <1>4, <1>5, <1>6 DEF Next

LEMMA SolventStart == ASSUME IInv, StartRun PROVE Solvent'
<1>1. /\ pc = "start" /\ pc' = "open" /\ cash' = Cash * Scale * Scale /\ pending' = <<>>
      /\ UNCHANGED <<passed, todo>>
  BY DEF StartRun, FreshBroker, cycleVars
<1>2. passed' = <<>> /\ todo' = <<>>
  BY <1>1 DEF IInv, Flow
<1>3. Cash * Scale * Scale \in Nat
  <2>1. \A x, y \in Nat : x * y \in Nat
    OBVIOUS
  <2> QED
    BY <2>1, BacktestAssumption
<1>4. Rungs \in Nat \ {0} /\ Rungs' = Rungs
  <2>1. Qty \in Seq(Nat \ {0})
    BY BacktestAssumption
  <2>2. Qty # <<>> => Len(Qty) \in Nat \ {0}
    BY <2>1
  <2> QED
    BY <2>2 DEF Rungs
<1>5. InHand' = 0
  BY <1>1, <1>2 DEF InHand
<1>6. Rungs' * cash' >= 0
  <2>1. cash' \in Nat
    BY <1>1, <1>3
  <2> QED
    <3>1. \A x, y \in Nat : x * y >= 0
      OBVIOUS
    <3> QED
      BY <1>4, <2>1, <3>1
<1>7. Funded(pending, 0)'
  BY <1>1, <1>6 DEF Funded
<1>8. \E c \in Nat : Funded(pending, c)'
  BY <1>7
<1>9. Within(passed)' /\ Within(todo)'
  BY <1>2 DEF Within
<1>10. Covered'
  BY <1>1, <1>4, <1>5, <1>8, <1>9 DEF Covered
<1> QED
  BY <1>1, <1>3, <1>10 DEF Solvent

LEMMA SolventStep ==
  ASSUME Modest
  PROVE  IInv /\ IInv' /\ TrailingInv /\ SolventInv /\ [Next]_vars => SolventInv'
<1> SUFFICES ASSUME IInv, IInv', TrailingInv, SolventInv, [Next]_vars, pc' # "start", Run'.risk
             PROVE  Solvent'
  BY DEF SolventInv
<1>1. CASE pc = "start"
  <2>1. CASE StartRun
    BY <2>1, SolventStart
  <2>2. CASE ~StartRun
    <3>1. pc' = pc
      BY <1>1, <2>2 DEF Next, SkipRun, FillOrder, Opened, Enter, Protect, EvaluateTrailing,
         EvaluateBroken, EvaluateRungs, Assess, Assessed, Judge, JudgedAll, Submit, Submitted,
         Mark, Finish, vars
    <3> QED
      BY <1>1, <3>1
  <2> QED
    BY <2>1, <2>2
<1>2. CASE pc # "start"
  <2>1. UNCHANGED <<series, runs>>
    BY <1>2 DEF Next, StartRun, SkipRun, FillOrder, Opened, Enter, Protect, EvaluateTrailing,
       EvaluateBroken, EvaluateRungs, Assess, Assessed, Judge, JudgedAll, Submit, Submitted,
       Mark, Finish, vars
  <2>2. Run' = Run /\ (Trailing' <=> Trailing)
    BY <2>1, StopSame
  <2>3. Run.risk /\ Solvent
    BY <1>2, <2>2 DEF SolventInv
  <2>4. CASE Trailing
    <3>1. cash' >= 0 /\ (~Entered' => cash' = Cash * Scale * Scale)
      BY <1>2, <2>3, <2>4, TrailingSolvent
    <3> QED
      BY <2>2, <2>4, <3>1 DEF Solvent
  <2>5. CASE ~Trailing
    <3>1. cash' >= 0 /\ Covered'
      BY <1>2, <2>3, <2>5, CoveredStep
    <3> QED
      BY <2>2, <2>5, <3>1 DEF Solvent
  <2> QED
    BY <2>4, <2>5
<1> QED
  BY <1>1, <1>2

\* With the risk layer no run ever owes cash (experiment.py:7-8), if the limit
\* of the symbol leaves room for what every rung costs at the next open: with
\* the code's three rungs, 20 % and five basis points of costs, an open up to
\* 1.6 times the close before it.
THEOREM RiskKeepsCashHolds ==
  ASSUME Modest
  PROVE  Spec => []RiskKeepsCash
<1>1. Init => SolventInv
  BY DEF Init, SolventInv
<1>2. IInv /\ IInv' /\ TrailingInv /\ SolventInv /\ [Next]_vars => SolventInv'
  BY SolventStep
<1>3. SolventInv => RiskKeepsCash
  BY DEF SolventInv, Solvent, RiskKeepsCash
<1> QED
  BY TrailingInvariance, <1>1, <1>2, <1>3, PTL DEF Spec
=============================================================================
