------------------------- MODULE FeedbackLoopProofs -------------------------
(***************************************************************************)
(* Machine-checked proofs about FeedbackLoop, for any intents, symbols,    *)
(* regimes and prices, any batch size and any number of exceptions and     *)
(* crashes.                                                                *)
(***************************************************************************)
EXTENDS FeedbackLoop, FoldLemmas, SequenceTheorems, TLAPS

-----------------------------------------------------------------------------
(* The inductive invariant *)

Topics == [market : Seq([Symbols -> Views]), intents : SUBSET Ids,
           approved : SUBSET Ids, fills : Seq(Ids)]

\* Each phase finds only what the phase before it has left, all of it of the
\* current batch; a failed cycle leaves a snapshot of the market and no more.
BusShape ==
  /\ bus \in Topics
  /\ pc # "decide" => bus.intents = {}
  /\ pc # "execute" => bus.approved = {}
  /\ pc \notin {"feedback", "close"} => bus.fills = <<>>
  /\ pc \notin {"record", "orders"} => todo = {} /\ passed = <<>>
  /\ pc # "close" => closing = {}
  /\ bus.intents \union bus.approved \union todo \union Range(passed) \subseteq batch
  /\ batch \subseteq planned

\* The newest snapshot on the bus is the one of this cycle; an intent is
\* recorded once, under that snapshot.
Fresh ==
  /\ pc \in {"plan", "decide"} =>
       bus.market # <<>> /\ bus.market[Len(bus.market)] = seen
  /\ pc \in {"record", "execute", "orders", "feedback", "close"} =>
       view = seen /\ seen \in [Symbols -> Views]
  /\ \A i \in batch : rows[i].status # "none" =>
       rows[i].regime = seen[Order[i].symbol].regime /\ rows[i].ref = seen[Order[i].symbol].price
  /\ \A i \in Ids \ planned : rows[i].status = "none"
  /\ \A i \in bus.intents : rows[i].status = "none"
  /\ pc = "record" => \A i \in todo : rows[i].status = "none"

\* An order is executed once: nothing on its way was executed or is pending,
\* and what is reported as a fill has its price.
OneFill ==
  /\ pending \subseteq planned
  /\ \A i \in Ids : filled[i] # None => i \in planned /\ i \notin pending
  /\ \A i \in bus.intents \union bus.approved \union todo : filled[i] = None /\ i \notin pending
  /\ pc = "record" => \A i \in Range(passed) : filled[i] = None /\ i \notin pending
  /\ pc = "orders" => \A i \in Range(passed) : filled[i] # None
  /\ \A i \in Range(bus.fills) : filled[i] # None

\* What was told of a fill stays true, and the sale in hand closes open buys.
LoopShape ==
  /\ \A i \in told : rows[i].status # "none" /\ filled[i] # None /\ rows[i].entry = filled[i]
  /\ pc = "close" => bus.fills # <<>> /\ ~IsBuy(Head(bus.fills))
  /\ \A i \in closing : /\ rows[i].status = "open"
                        /\ Order[i].symbol = Order[Head(bus.fills)].symbol
  /\ OutcomeOfRealPrices

Waiting == Len(bus.market) <= faults + (IF pc \in {"plan", "decide"} THEN 1 ELSE 0)

IInv ==
  /\ TypeOK
  /\ BusShape
  /\ Waiting
  /\ Fresh
  /\ OneFill
  /\ LoopShape

-----------------------------------------------------------------------------
(* Data *)

\* What a sequence holds, and what it holds when it grows or is consumed.
LEMMA RangeFact ==
  ASSUME NEW q \in Seq(Ids)
  PROVE  /\ Range(q) \subseteq Ids
         /\ \A e \in Ids : /\ Append(q, e) \in Seq(Ids)
                           /\ Range(Append(q, e)) = Range(q) \union {e}
         /\ q # <<>> => /\ Head(q) \in Range(q) /\ Tail(q) \in Seq(Ids)
                        /\ Range(Tail(q)) \subseteq Range(q)
<1>1. Range(q) \subseteq Ids
  BY DEF Range
<1>2. ASSUME NEW e \in Ids
      PROVE  Append(q, e) \in Seq(Ids) /\ Range(Append(q, e)) = Range(q) \union {e}
  <2>1. /\ Append(q, e) \in Seq(Ids) /\ Len(Append(q, e)) = Len(q) + 1
        /\ \A k \in 1 .. Len(q) : Append(q, e)[k] = q[k]
        /\ Append(q, e)[Len(q) + 1] = e
    BY <1>2
  <2>2. DOMAIN Append(q, e) = 1 .. Len(q) + 1 /\ DOMAIN q = 1 .. Len(q) /\ Len(q) \in Nat
    BY <2>1
  <2>3. Range(Append(q, e)) \subseteq Range(q) \union {e}
    BY <2>1, <2>2 DEF Range
  <2>4. Range(q) \subseteq Range(Append(q, e))
    BY <2>1, <2>2 DEF Range
  <2>5. e \in Range(Append(q, e))
    BY <2>1, <2>2 DEF Range
  <2> QED
    BY <2>1, <2>3, <2>4, <2>5
<1>3. ASSUME q # <<>>
      PROVE  /\ Head(q) \in Range(q) /\ Tail(q) \in Seq(Ids)
             /\ Range(Tail(q)) \subseteq Range(q)
  <2>1. /\ Len(q) \in Nat \ {0} /\ Head(q) = q[1] /\ DOMAIN q = 1 .. Len(q)
    BY <1>3
  <2>2. /\ Tail(q) \in Seq(Ids) /\ Len(Tail(q)) = Len(q) - 1
        /\ \A k \in 1 .. Len(Tail(q)) : Tail(q)[k] = q[k + 1]
    BY <1>3, HeadTailProperties
  <2>3. Range(Tail(q)) \subseteq Range(q)
    BY <2>1, <2>2 DEF Range
  <2> QED
    BY <2>1, <2>2, <2>3 DEF Range
<1> QED
  BY <1>1, <1>2, <1>3

LEMMA EmptyRange == Range(<<>>) = {}
BY DEF Range

\* The batches of Next are sets of intents never planned.
LEMMA PlanChoice ==
  \A S \in UNION {kSubset(n, Ids \ planned) : n \in 0 .. MaxBatch} :
    S \in SUBSET (Ids \ planned)
BY DEF kSubset

\* A snapshot that joins the bus is its newest.
LEMMA MarketFact ==
  ASSUME NEW q \in Seq([Symbols -> Views]), NEW v \in [Symbols -> Views]
  PROVE  /\ Append(q, v) \in Seq([Symbols -> Views]) /\ Append(q, v) # <<>>
         /\ Len(q) \in Nat /\ Len(Append(q, v)) = Len(q) + 1
         /\ Append(q, v)[Len(Append(q, v))] = v
BY AppendProperties

-----------------------------------------------------------------------------
\* What recording a decision writes.
LEMMA RowFact ==
  ASSUME NEW st \in Status, NEW g \in Regimes \union {None}, NEW p \in Prices \union {None}
  PROVE  /\ [NoRow EXCEPT !.status = st, !.regime = g, !.ref = p] \in Row
         /\ [NoRow EXCEPT !.status = st, !.regime = g, !.ref = p].regime = g
         /\ [NoRow EXCEPT !.status = st, !.regime = g, !.ref = p].ref = p
         /\ [NoRow EXCEPT !.status = st, !.regime = g, !.ref = p].status = st
<1>1. NoRow \in Row
  BY DEF NoRow, Row, Status
<1> QED
  BY <1>1 DEF Row

\* A topic that changes leaves the others alone.
LEMMA TopicFact ==
  ASSUME NEW b \in Topics
  PROVE  /\ \A q \in Seq([Symbols -> Views]) : [b EXCEPT !.market = q] \in Topics
         /\ \A S \in SUBSET Ids : /\ [b EXCEPT !.intents = S] \in Topics
                                 /\ [b EXCEPT !.approved = S] \in Topics
         /\ \A q \in Seq(Ids) : [b EXCEPT !.fills = q] \in Topics
         /\ [b EXCEPT !.intents = {}, !.market = <<>>] \in Topics
<1>1. \A q \in Seq([Symbols -> Views]) : [b EXCEPT !.market = q] \in Topics
  BY DEF Topics
<1>2. \A S \in SUBSET Ids : [b EXCEPT !.intents = S] \in Topics /\ [b EXCEPT !.approved = S] \in Topics
  BY DEF Topics
<1>3. \A q \in Seq(Ids) : [b EXCEPT !.fills = q] \in Topics
  BY DEF Topics
<1>4. [b EXCEPT !.intents = {}, !.market = <<>>] \in Topics
  <2>1. {} \in SUBSET Ids /\ <<>> \in Seq([Symbols -> Views])
    OBVIOUS
  <2> QED
    BY <2>1 DEF Topics
<1> QED
  BY <1>1, <1>2, <1>3, <1>4

-----------------------------------------------------------------------------
THEOREM InitInv == Init => IInv
<1> SUFFICES ASSUME Init PROVE IInv
  OBVIOUS
<1> USE FeedbackAssumption, EmptyRange DEF Init, NoBus, NoRow
<1>1. TypeOK
  BY DEF TypeOK, Row, Status
<1>2. BusShape /\ Waiting
  BY DEF BusShape, Waiting, Topics
<1>3. Fresh /\ OneFill /\ LoopShape
  BY DEF Fresh, OneFill, LoopShape, OutcomeOfRealPrices, Closed
<1> QED
  BY <1>1, <1>2, <1>3 DEF IInv

-----------------------------------------------------------------------------
\* Every step keeps the phases apart.
LEMMA BusStep ==
  ASSUME IInv, [Next]_vars
  PROVE  BusShape'
<1> USE FeedbackAssumption
<1> USE DEF brokerVars, cycleVars, historyVars, IInv, Fault, NoCycle
<1>1. ASSUME NEW v \in [Symbols -> Views], Ingest(v) PROVE BusShape'
  <2>1. bus' = [bus EXCEPT !.market = Append(bus.market, v)] /\ batch' = {} /\ pc = "idle"
        /\ pc' = "plan" /\ todo' = todo /\ passed' = passed /\ closing' = closing /\ planned' = planned
    BY <1>1 DEF Ingest
  <2>2. bus' \in Topics
    BY <2>1, TopicFact, MarketFact DEF BusShape, Topics
  <2>3. bus'.intents = {} /\ bus'.approved = {} /\ bus'.fills = <<>>
    BY <2>1 DEF BusShape, Topics
  <2>4. Range(passed') = {} /\ todo' = {} /\ passed' = <<>> /\ closing' = {}
    BY <2>1, EmptyRange DEF BusShape
  <2> QED
    BY <2>1, <2>2, <2>3, <2>4 DEF BusShape
<1>2. ASSUME NEW S \in SUBSET (Ids \ planned), Plan(S) PROVE BusShape'
  <2>1. bus' = [bus EXCEPT !.intents = bus.intents \union S] /\ batch' = S /\ pc = "plan"
        /\ pc' = "decide" /\ todo' = todo /\ passed' = passed /\ closing' = closing
        /\ planned' = planned \union S
    BY <1>2 DEF Plan
  <2>2. bus' \in Topics
    BY <2>1, TopicFact DEF BusShape, Topics
  <2>3. bus'.intents = S /\ bus'.approved = {} /\ bus'.fills = <<>>
    BY <2>1 DEF BusShape, Topics
  <2>4. Range(passed') = {} /\ todo' = {} /\ passed' = <<>> /\ closing' = {}
    BY <2>1, EmptyRange DEF BusShape
  <2> QED
    BY <2>1, <2>2, <2>3, <2>4 DEF BusShape
<1>3. ASSUME PlanRaises PROVE BusShape'
  BY <1>3 DEF PlanRaises, BusShape
<1>4. ASSUME Evaluate PROVE BusShape'
  <2>1. bus' = [bus EXCEPT !.intents = {}, !.market = <<>>] /\ batch' = batch /\ pc = "decide"
        /\ pc' = (IF todo' = {} THEN "execute" ELSE "record") /\ todo' = bus.intents
        /\ passed' = passed /\ closing' = closing /\ planned' = planned
    BY <1>4 DEF Evaluate
  <2>2. bus' \in Topics
    BY <2>1, TopicFact DEF BusShape
  <2>3. bus'.intents = {} /\ bus'.approved = {} /\ bus'.fills = <<>>
    BY <2>1 DEF BusShape, Topics
  <2>4. Range(passed') = {} /\ passed' = <<>> /\ closing' = {}
    BY <2>1, EmptyRange DEF BusShape
  <2> QED
    BY <2>1, <2>2, <2>3, <2>4 DEF BusShape
<1>5. ASSUME NEW i \in todo, Record(i) PROVE BusShape'
  <2>1. /\ bus' = bus /\ batch' = batch /\ planned' = planned /\ pc = "record" /\ pc' = pc
        /\ todo' = todo \ {i} /\ closing' = closing
        /\ passed' = passed \/ passed' = Append(passed, i)
    BY <1>5 DEF Record
  <2>2. Range(passed') \subseteq Range(passed) \union {i}
    <3>1. passed \in Seq(Ids) /\ i \in Ids
      BY <1>5 DEF TypeOK
    <3>2. Range(Append(passed, i)) = Range(passed) \union {i}
      BY <3>1, RangeFact
    <3> QED
      BY <2>1, <3>2
  <2> QED
    BY <2>1, <2>2, <1>5 DEF BusShape
<1>6. ASSUME RecordRaises PROVE BusShape'
  <2>1. /\ bus' = bus /\ batch' = batch /\ planned' = planned /\ pc \in {"record", "orders"} /\ pc' = "idle"
        /\ todo' = {} /\ closing' = {} /\ passed' = <<>>
    BY <1>6 DEF RecordRaises
  <2> QED
    BY <2>1, EmptyRange DEF BusShape
<1>7. ASSUME Approve PROVE BusShape'
  <2>1. /\ bus' = [bus EXCEPT !.approved = bus.approved \union Range(passed)] /\ batch' = batch
        /\ pc = "record" /\ pc' = "execute" /\ todo' = todo /\ todo = {} /\ passed' = <<>>
        /\ closing' = closing /\ planned' = planned
    BY <1>7 DEF Approve
  <2>2. bus' \in Topics
    BY <2>1, TopicFact, RangeFact DEF BusShape, Topics, TypeOK
  <2>3. bus'.intents = bus.intents /\ bus'.approved = Range(passed) /\ bus'.fills = <<>>
    BY <2>1 DEF BusShape, Topics
  <2>4. Range(passed') = {}
    BY <2>1, EmptyRange
  <2> QED
    BY <2>1, <2>2, <2>3, <2>4 DEF BusShape
<1>8. ASSUME Take PROVE BusShape'
  <2>1. /\ bus' = [bus EXCEPT !.approved = {}] /\ batch' = batch
        /\ pc = "execute" /\ pc' = "orders" /\ todo' = bus.approved /\ passed' = passed
        /\ closing' = closing /\ planned' = planned
    BY <1>8 DEF Take
  <2>2. bus' \in Topics
    BY <2>1, TopicFact DEF BusShape
  <2>3. bus'.intents = bus.intents /\ bus'.approved = {} /\ bus'.fills = <<>>
    BY <2>1 DEF BusShape, Topics
  <2> QED
    BY <2>1, <2>2, <2>3 DEF BusShape
<1>9. ASSUME NEW i \in todo, NEW p \in Prices, ExecuteFilled(i, p) PROVE BusShape'
  <2>1. /\ bus' = bus /\ batch' = batch /\ planned' = planned /\ pc = "orders" /\ pc' = pc
        /\ todo' = todo \ {i} /\ closing' = closing /\ passed' = Append(passed, i)
    BY <1>9 DEF ExecuteFilled
  <2>2. Range(passed') = Range(passed) \union {i}
    BY <2>1, <1>9, RangeFact DEF TypeOK
  <2> QED
    BY <2>1, <2>2, <1>9 DEF BusShape
<1>10. ASSUME NEW i \in todo, ExecuteAccepted(i) PROVE BusShape'
  BY <1>10 DEF ExecuteAccepted, BusShape
<1>11. ASSUME NEW i \in todo, ExecuteNothing(i) PROVE BusShape'
  BY <1>11 DEF ExecuteNothing, BusShape
<1>12. ASSUME NEW i \in todo, ExecuteRaises(i) PROVE BusShape'
  <2>1. /\ bus' = bus /\ batch' = batch /\ planned' = planned /\ pc \in {"record", "orders"} /\ pc' = "idle"
        /\ todo' = {} /\ closing' = {} /\ passed' = <<>>
    BY <1>12 DEF ExecuteRaises
  <2> QED
    BY <2>1, EmptyRange DEF BusShape
<1>13. ASSUME Publish PROVE BusShape'
  <2>1. /\ bus' = [bus EXCEPT !.fills = bus.fills \o passed] /\ batch' = batch
        /\ pc = "orders" /\ pc' = "feedback" /\ todo' = todo /\ todo = {} /\ passed' = <<>>
        /\ closing' = closing /\ planned' = planned
    BY <1>13 DEF Publish
  <2>2. bus.fills \o passed \in Seq(Ids)
    BY ConcatProperties DEF TypeOK
  <2>3. bus' \in Topics
    BY <2>1, <2>2, TopicFact DEF BusShape
  <2>4. bus'.intents = bus.intents /\ bus'.approved = bus.approved
    BY <2>1 DEF BusShape, Topics
  <2> QED
    BY <2>1, <2>3, <2>4, EmptyRange DEF BusShape
<1>14. ASSUME HandleBuy PROVE BusShape'
  <2>1. /\ bus' = [bus EXCEPT !.fills = Tail(bus.fills)] /\ batch' = batch
        /\ pc \in {"feedback", "close"} /\ pc' = "feedback" /\ todo' = todo /\ passed' = passed
        /\ closing' = {} /\ planned' = planned /\ bus.fills # <<>>
    BY <1>14 DEF HandleBuy, NextFill, Fills, LoopShape, BusShape
  <2>2. Tail(bus.fills) \in Seq(Ids)
    BY <2>1, RangeFact DEF TypeOK
  <2>3. bus' \in Topics
    BY <2>1, <2>2, TopicFact DEF BusShape
  <2>4. bus'.intents = bus.intents /\ bus'.approved = bus.approved
    BY <2>1 DEF BusShape, Topics
  <2> QED
    BY <2>1, <2>3, <2>4 DEF BusShape
<1>15. ASSUME HandleSale PROVE BusShape'
  BY <1>15 DEF HandleSale, NextFill, Fills, BusShape
<1>16. ASSUME NEW i \in closing, Close(i) PROVE BusShape'
  BY <1>16 DEF Close, NextFill, Fills, BusShape
<1>17. ASSUME SaleDone PROVE BusShape'
  <2>1. /\ bus' = [bus EXCEPT !.fills = Tail(bus.fills)] /\ batch' = batch
        /\ pc \in {"feedback", "close"} /\ pc' = "feedback" /\ todo' = todo /\ passed' = passed
        /\ closing' = {} /\ planned' = planned /\ bus.fills # <<>>
    BY <1>17 DEF SaleDone, NextFill, Fills, LoopShape, BusShape
  <2>2. Tail(bus.fills) \in Seq(Ids)
    BY <2>1, RangeFact DEF TypeOK
  <2>3. bus' \in Topics
    BY <2>1, <2>2, TopicFact DEF BusShape
  <2>4. bus'.intents = bus.intents /\ bus'.approved = bus.approved
    BY <2>1 DEF BusShape, Topics
  <2> QED
    BY <2>1, <2>3, <2>4 DEF BusShape
<1>18. ASSUME HandleRaises PROVE BusShape'
  <2>1. /\ bus' = [bus EXCEPT !.fills = Tail(bus.fills)] /\ batch' = batch
        /\ pc \in {"feedback", "close"} /\ pc' = "feedback" /\ todo' = todo /\ passed' = passed
        /\ closing' = {} /\ planned' = planned /\ bus.fills # <<>>
    BY <1>18 DEF HandleRaises, NextFill, Fills, LoopShape, BusShape
  <2>2. Tail(bus.fills) \in Seq(Ids)
    BY <2>1, RangeFact DEF TypeOK
  <2>3. bus' \in Topics
    BY <2>1, <2>2, TopicFact DEF BusShape
  <2>4. bus'.intents = bus.intents /\ bus'.approved = bus.approved
    BY <2>1 DEF BusShape, Topics
  <2> QED
    BY <2>1, <2>3, <2>4 DEF BusShape
<1>19. ASSUME EndCycle PROVE BusShape'
  BY <1>19 DEF EndCycle, NextFill, Fills, BusShape
<1>20. ASSUME NEW i \in pending, NEW p \in Prices, LateFill(i, p) PROVE BusShape'
  BY <1>20 DEF LateFill, Fill, BusShape
<1>21. ASSUME Crash PROVE BusShape'
  <2>1. /\ bus' = NoBus /\ batch' = batch /\ planned' = planned /\ pc' = "down"
        /\ todo' = {} /\ closing' = {} /\ passed' = <<>>
    BY <1>21 DEF Crash
  <2>2. NoBus \in Topics /\ NoBus.intents = {} /\ NoBus.approved = {} /\ NoBus.fills = <<>>
    BY DEF NoBus, Topics
  <2> QED
    BY <2>1, <2>2, EmptyRange DEF BusShape
<1>22. ASSUME Restart PROVE BusShape'
  BY <1>22 DEF Restart, BusShape
<1>23. CASE UNCHANGED vars
  BY <1>23 DEF vars, BusShape
<1> QED
  BY PlanChoice, <1>1, <1>2, <1>3, <1>4, <1>5, <1>6, <1>7, <1>8, <1>9, <1>10, <1>11, <1>12, <1>13, <1>14, <1>15, <1>16, <1>17, <1>18, <1>19, <1>20, <1>21, <1>22, <1>23 DEF Next

\* Only a failed cycle leaves a snapshot behind.
LEMMA WaitingStep ==
  ASSUME IInv, [Next]_vars
  PROVE  Waiting'
<1> USE FeedbackAssumption
<1> USE DEF brokerVars, cycleVars, historyVars, IInv, Fault, NoCycle
<1>1. ASSUME NEW v \in [Symbols -> Views], Ingest(v) PROVE Waiting'
  <2>1. Len(bus.market) \in Nat /\ Len(bus'.market) = Len(bus.market) + 1
    <3>1. bus'.market = Append(bus.market, v)
      BY <1>1 DEF Ingest, BusShape, Topics
    <3> QED
      BY <3>1, MarketFact DEF TypeOK
  <2> QED
    BY <2>1, <1>1 DEF Ingest, Waiting, TypeOK
<1>2. ASSUME NEW S \in SUBSET (Ids \ planned), Plan(S) PROVE Waiting'
  BY <1>2 DEF Plan, Waiting, BusShape, Topics, TypeOK
<1>3. ASSUME PlanRaises PROVE Waiting'
  BY <1>3 DEF PlanRaises, Waiting, BusShape, Topics, TypeOK
<1>4. ASSUME Evaluate PROVE Waiting'
  BY <1>4 DEF Evaluate, Waiting, BusShape, Topics, TypeOK
<1>5. ASSUME NEW i \in todo, Record(i) PROVE Waiting'
  BY <1>5 DEF Record, Waiting, BusShape, Topics, TypeOK
<1>6. ASSUME RecordRaises PROVE Waiting'
  BY <1>6 DEF RecordRaises, Waiting, BusShape, Topics, TypeOK
<1>7. ASSUME Approve PROVE Waiting'
  BY <1>7 DEF Approve, Waiting, BusShape, Topics, TypeOK
<1>8. ASSUME Take PROVE Waiting'
  BY <1>8 DEF Take, Waiting, BusShape, Topics, TypeOK
<1>9. ASSUME NEW i \in todo, NEW p \in Prices, ExecuteFilled(i, p) PROVE Waiting'
  BY <1>9 DEF ExecuteFilled, Fill, Waiting, BusShape, Topics, TypeOK
<1>10. ASSUME NEW i \in todo, ExecuteAccepted(i) PROVE Waiting'
  BY <1>10 DEF ExecuteAccepted, Waiting, BusShape, Topics, TypeOK
<1>11. ASSUME NEW i \in todo, ExecuteNothing(i) PROVE Waiting'
  BY <1>11 DEF ExecuteNothing, Waiting, BusShape, Topics, TypeOK
<1>12. ASSUME NEW i \in todo, ExecuteRaises(i) PROVE Waiting'
  BY <1>12 DEF ExecuteRaises, Fill, Waiting, BusShape, Topics, TypeOK
<1>13. ASSUME Publish PROVE Waiting'
  BY <1>13 DEF Publish, Waiting, BusShape, Topics, TypeOK
<1>14. ASSUME HandleBuy PROVE Waiting'
  BY <1>14 DEF HandleBuy, NextFill, Fills, Waiting, BusShape, Topics, TypeOK
<1>15. ASSUME HandleSale PROVE Waiting'
  BY <1>15 DEF HandleSale, NextFill, Fills, Waiting, BusShape, Topics, TypeOK
<1>16. ASSUME NEW i \in closing, Close(i) PROVE Waiting'
  BY <1>16 DEF Close, NextFill, Fills, Waiting, BusShape, Topics, TypeOK
<1>17. ASSUME SaleDone PROVE Waiting'
  BY <1>17 DEF SaleDone, NextFill, Fills, Waiting, BusShape, Topics, TypeOK
<1>18. ASSUME HandleRaises PROVE Waiting'
  BY <1>18 DEF HandleRaises, NextFill, Fills, Waiting, BusShape, Topics, TypeOK
<1>19. ASSUME EndCycle PROVE Waiting'
  BY <1>19 DEF EndCycle, NextFill, Fills, Waiting, BusShape, Topics, TypeOK
<1>20. ASSUME NEW i \in pending, NEW p \in Prices, LateFill(i, p) PROVE Waiting'
  BY <1>20 DEF LateFill, Fill, Waiting, BusShape, Topics, TypeOK
<1>21. ASSUME Crash PROVE Waiting'
  BY <1>21 DEF Crash, Waiting, NoBus, TypeOK
<1>22. ASSUME Restart PROVE Waiting'
  BY <1>22 DEF Restart, Waiting, BusShape, Topics, TypeOK
<1>23. CASE UNCHANGED vars
  BY <1>23 DEF vars, Waiting, BusShape, Topics, TypeOK
<1> QED
  BY PlanChoice, <1>1, <1>2, <1>3, <1>4, <1>5, <1>6, <1>7, <1>8, <1>9, <1>10, <1>11, <1>12, <1>13, <1>14, <1>15, <1>16, <1>17, <1>18, <1>19, <1>20, <1>21, <1>22, <1>23 DEF Next

\* What closing a decision writes: an outcome between two prices.
LEMMA CloseFact ==
  ASSUME IInv, NEW i \in closing, Close(i)
  PROVE  /\ i \in Ids /\ Head(bus.fills) \in Ids /\ filled[Head(bus.fills)] \in Prices
         /\ rows' \in [Ids -> Row]
         /\ \A j \in Ids \ {i} : rows'[j] = rows[j]
         /\ \/ rows' = rows
            \/ /\ Entry(rows[i]) # None /\ rows'[i].entry = Entry(rows[i])
               /\ rows'[i].status = Outcome(Entry(rows[i]), filled[Head(bus.fills)])
               /\ rows'[i].regime = rows[i].regime /\ rows'[i].ref = rows[i].ref
<1> USE FeedbackAssumption DEF IInv
<1> DEFINE x == Head(bus.fills)
           e == Entry(rows[i])
<1>1. i \in Ids /\ rows[i] \in Row
  BY DEF TypeOK
<1>2. x \in Ids /\ filled[x] \in Prices
  <2>1. bus.fills \in Seq(Ids) /\ bus.fills # <<>>
    BY DEF TypeOK, LoopShape, Close
  <2>2. x \in Range(bus.fills) /\ x \in Ids
    BY <2>1, RangeFact
  <2> QED
    BY <2>2 DEF TypeOK, OneFill
<1>3. e \in Prices \union {None}
  BY <1>1 DEF Row, Entry
<1>4. CASE e = None
  BY <1>1, <1>2, <1>4 DEF Close, Fills, TypeOK
<1>5. CASE e # None
  <2> DEFINE p == (filled[x] - e) * qty[x]
             r == [rows[i] EXCEPT !.status = Outcome(e, filled[x]), !.entry = e, !.pnl = p]
  <2>1. p \in Int
    <3>1. e \in Prices /\ qty[x] \in Nat
      BY <1>2, <1>3, <1>5 DEF TypeOK
    <3>2. \A y \in Prices : y \in Int
      OBVIOUS
    <3> HIDE DEF e, x
    <3>3. filled[x] \in Int
      BY <1>2, <3>2
    <3>4. e \in Int
      BY <3>1, <3>2
    <3> QED
      BY <3>1, <3>3, <3>4
  <2>2. Outcome(e, filled[x]) \in Status
    BY DEF Outcome, Status, Closed
  <2>3. rows' = [rows EXCEPT ![i] = r]
    BY <1>1, <1>5 DEF Close, Fills, TypeOK
  <2> HIDE DEF e, p
  <2>4. r \in Row /\ r.entry = e /\ r.status = Outcome(e, filled[x])
        /\ r.regime = rows[i].regime /\ r.ref = rows[i].ref
    BY <1>1, <1>3, <1>5, <2>1, <2>2 DEF Row
  <2> HIDE DEF r
  <2>5. rows' \in [Ids -> Row] /\ rows'[i] = r /\ \A j \in Ids \ {i} : rows'[j] = rows[j]
    BY <1>1, <2>3, <2>4 DEF TypeOK
  <2> QED
    BY <1>1, <1>2, <1>5, <2>4, <2>5 DEF e
<1> QED
  BY <1>4, <1>5

\* Every step keeps the types.
LEMMA TypeStep ==
  ASSUME IInv, [Next]_vars
  PROVE  TypeOK'
<1> USE FeedbackAssumption
<1> USE DEF brokerVars, cycleVars, historyVars, IInv, Fault, NoCycle
<1>0. /\ bus'.market \in Seq([Symbols -> Views])
      /\ bus'.intents \subseteq Ids /\ bus'.approved \subseteq Ids /\ bus'.fills \in Seq(Ids)
      /\ faults' \in Nat => Len(bus'.market) <= 1 + faults'
  <2>1. bus' \in Topics /\ Waiting'
    BY BusStep, WaitingStep DEF BusShape
  <2>2. bus'.market \in Seq([Symbols -> Views]) /\ Len(bus'.market) \in Nat
    BY <2>1 DEF Topics
  <2> QED
    BY <2>1, <2>2 DEF Topics, Waiting
<1>1. ASSUME NEW v \in [Symbols -> Views], Ingest(v) PROVE TypeOK'
  BY <1>0, <1>1 DEF Ingest, TypeOK, NoBus
<1>2. ASSUME NEW S \in SUBSET (Ids \ planned), Plan(S) PROVE TypeOK'
  BY <1>2 DEF Plan, TypeOK, BusShape, Topics
<1>3. ASSUME PlanRaises PROVE TypeOK'
  BY <1>3 DEF PlanRaises, TypeOK, BusShape, Topics
<1>4. ASSUME Evaluate PROVE TypeOK'
  <2>1. Last(bus.market) \in [Symbols -> Views]
    <3>1. bus.market \in Seq([Symbols -> Views]) /\ bus.market # <<>>
      BY <1>4 DEF Evaluate, TypeOK, Fresh
    <3> QED
      BY <3>1 DEF Last
  <2>2. vetoed' \subseteq Combos /\ todo' \subseteq Ids
    BY <1>4 DEF Evaluate, TypeOK
  <2>3. /\ rows' = rows /\ filled' = filled /\ qty' = qty /\ pending' = pending
        /\ pc' \in {"execute", "record"} /\ view' = Last(bus.market)
        /\ passed' = passed /\ closing' = closing /\ planned' = planned /\ batch' = batch
        /\ seen' = seen /\ told' = told /\ faults' = faults
    BY <1>4 DEF Evaluate
  <2> QED
    BY <1>0, <2>1, <2>2, <2>3 DEF TypeOK
<1>5. ASSUME NEW i \in todo, Record(i) PROVE TypeOK'
  <2> DEFINE s == Order[i].symbol
             st == IF Allowed(i) THEN "open" ELSE "skipped"
             r == [NoRow EXCEPT !.status = st, !.regime = view[s].regime, !.ref = view[s].price]
  <2>1. i \in Ids /\ s \in Symbols /\ view \in [Symbols -> Views]
    BY <1>5 DEF Record, TypeOK, Fresh
  <2>2. view[s] \in Views /\ view[s].regime \in Regimes /\ view[s].price \in Prices \union {None}
    BY <2>1 DEF Regimes
  <2>3. st \in Status
    BY DEF Status
  <2>4. r \in Row
    <3> HIDE DEF st
    <3> QED
      BY <2>2, <2>3, RowFact
  <2>5. rows' = [rows EXCEPT ![i] = r]
    BY <1>5 DEF Record
  <2> HIDE DEF r
  <2>6. rows' \in [Ids -> Row]
    BY <2>4, <2>5 DEF TypeOK
  <2>7. passed' \in Seq(Ids)
    BY <2>1, <1>5 DEF Record, TypeOK
  <2> QED
    BY <1>0, <2>6, <2>7, <1>5 DEF Record, TypeOK
<1>6. ASSUME RecordRaises PROVE TypeOK'
  BY <1>0, <1>6 DEF RecordRaises, TypeOK, NoBus
<1>7. ASSUME Approve PROVE TypeOK'
  BY <1>7 DEF Approve, TypeOK, BusShape, Topics
<1>8. ASSUME Take PROVE TypeOK'
  BY <1>8 DEF Take, TypeOK, BusShape, Topics
<1>9. ASSUME NEW i \in todo, NEW p \in Prices, ExecuteFilled(i, p) PROVE TypeOK'
  BY <1>9 DEF ExecuteFilled, Fill, TypeOK, BusShape, Topics
<1>10. ASSUME NEW i \in todo, ExecuteAccepted(i) PROVE TypeOK'
  BY <1>10 DEF ExecuteAccepted, TypeOK, BusShape, Topics
<1>11. ASSUME NEW i \in todo, ExecuteNothing(i) PROVE TypeOK'
  BY <1>11 DEF ExecuteNothing, TypeOK, BusShape, Topics
<1>12. ASSUME NEW i \in todo, ExecuteRaises(i) PROVE TypeOK'
  <2>1. /\ rows' = rows /\ qty' = qty /\ pending' = pending /\ bus' = bus /\ pc' = "idle"
        /\ view' = None /\ vetoed' = {} /\ todo' = {} /\ passed' = <<>> /\ closing' = {}
        /\ planned' = planned /\ batch' = batch /\ seen' = seen /\ told' = told
        /\ faults < MaxFaults /\ faults' = faults + 1
    BY <1>12 DEF ExecuteRaises
  <2>2. filled' \in [Ids -> Prices \union {None}]
    <3>1. filled \in [Ids -> Prices \union {None}]
      BY DEF TypeOK
    <3>2. CASE filled' = filled
      BY <3>1, <3>2
    <3>3. ASSUME NEW p \in Prices, filled' = [filled EXCEPT ![i] = p]
          PROVE  filled' \in [Ids -> Prices \union {None}]
      BY <3>1, <3>3
    <3> QED
      BY <3>2, <3>3, <1>12 DEF ExecuteRaises, Fill
  <2>3. faults' \in 0 .. MaxFaults
    BY <2>1 DEF TypeOK
  <2> QED
    BY <1>0, <2>1, <2>2, <2>3 DEF TypeOK
<1>13. ASSUME Publish PROVE TypeOK'
  BY <1>13 DEF Publish, TypeOK, BusShape, Topics
<1>14. ASSUME HandleBuy PROVE TypeOK'
  <2>1. rows' \in [Ids -> Row] /\ told' \subseteq Ids
    <3>1. CASE rows[Head(bus.fills)].status = "open"
      <4> DEFINE i == Head(bus.fills)
                 r == [rows[i] EXCEPT !.entry = filled[i]]
      <4>1. i \in Ids
        BY <1>14 DEF HandleBuy, Fills, TypeOK
      <4>2. rows[i] \in Row /\ filled[i] \in Prices \union {None}
        BY <4>1 DEF TypeOK
      <4>3. r \in Row
        BY <4>2 DEF Row
      <4>4. rows' = [rows EXCEPT ![i] = r] /\ told' = told \union {i}
        BY <3>1, <1>14 DEF HandleBuy, Fills
      <4> QED
        BY <4>1, <4>3, <4>4 DEF TypeOK
    <3>2. CASE rows[Head(bus.fills)].status # "open"
      BY <3>2, <1>14 DEF HandleBuy, Fills, TypeOK
    <3> QED
      BY <3>1, <3>2
  <2>2. /\ filled' = filled /\ qty' = qty /\ pending' = pending /\ pc' = pc
        /\ view' = view /\ vetoed' = vetoed /\ todo' = todo /\ passed' = passed
        /\ closing' = closing /\ planned' = planned /\ batch' = batch /\ seen' = seen
        /\ faults' = faults
    BY <1>14 DEF HandleBuy
  <2> QED
    BY <1>0, <2>1, <2>2 DEF TypeOK
<1>15. ASSUME HandleSale PROVE TypeOK'
  BY <1>15 DEF HandleSale, NextFill, Fills, TypeOK, BusShape, Topics
<1>16. ASSUME NEW i \in closing, Close(i) PROVE TypeOK'
  <2>1. rows' \in [Ids -> Row]
    BY <1>16, CloseFact DEF TypeOK
  <2> QED
    BY <1>0, <2>1, <1>16 DEF Close, TypeOK
<1>17. ASSUME SaleDone PROVE TypeOK'
  <2>1. /\ rows' = rows /\ filled' = filled /\ qty' = qty /\ pending' = pending
        /\ pc' = "feedback" /\ view' = view /\ vetoed' = vetoed /\ todo' = todo
        /\ passed' = passed /\ closing' = closing /\ planned' = planned /\ batch' = batch
        /\ seen' = seen /\ told' = told /\ faults' = faults
    BY <1>17 DEF SaleDone
  <2> QED
    BY <1>0, <2>1 DEF TypeOK
<1>18. ASSUME HandleRaises PROVE TypeOK'
  <2>1. /\ rows' = rows /\ filled' = filled /\ qty' = qty /\ pending' = pending
        /\ pc' = "feedback" /\ view' = view /\ vetoed' = vetoed /\ todo' = todo
        /\ passed' = passed /\ closing' = {} /\ planned' = planned /\ batch' = batch
        /\ seen' = seen /\ told' = told /\ faults < MaxFaults /\ faults' = faults + 1
    BY <1>18 DEF HandleRaises
  <2>2. faults' \in 0 .. MaxFaults
    BY <2>1 DEF TypeOK
  <2> QED
    BY <1>0, <2>1, <2>2 DEF TypeOK
<1>19. ASSUME EndCycle PROVE TypeOK'
  BY <1>19 DEF EndCycle, NextFill, Fills, TypeOK, BusShape, Topics
<1>20. ASSUME NEW i \in pending, NEW p \in Prices, LateFill(i, p) PROVE TypeOK'
  BY <1>20 DEF LateFill, Fill, TypeOK, BusShape, Topics
<1>21. ASSUME Crash PROVE TypeOK'
  BY <1>0, <1>21 DEF Crash, NoBus, TypeOK, NoBus
<1>22. ASSUME Restart PROVE TypeOK'
  BY <1>22 DEF Restart, TypeOK, BusShape, Topics
<1>23. CASE UNCHANGED vars
  BY <1>23 DEF vars, TypeOK, BusShape, Topics
<1> QED
  BY PlanChoice, <1>1, <1>2, <1>3, <1>4, <1>5, <1>6, <1>7, <1>8, <1>9, <1>10, <1>11, <1>12, <1>13, <1>14, <1>15, <1>16, <1>17, <1>18, <1>19, <1>20, <1>21, <1>22, <1>23 DEF Next

\* What a fill of a buy writes: the entry price of its open decision.
LEMMA HandleBuyFact ==
  ASSUME IInv, HandleBuy
  PROVE  /\ Head(bus.fills) \in Ids /\ filled[Head(bus.fills)] \in Prices
         /\ \A j \in Ids : /\ rows'[j].regime = rows[j].regime /\ rows'[j].ref = rows[j].ref
                           /\ rows'[j].status = rows[j].status
         /\ \A j \in Ids : \/ rows'[j] = rows[j]
                           \/ /\ j = Head(bus.fills) /\ rows[j].status = "open"
                              /\ rows'[j].entry = filled[j]
         /\ \A j \in told' : \/ j \in told /\ rows'[j] = rows[j]
                             \/ /\ j = Head(bus.fills) /\ rows[j].status = "open"
                                /\ rows'[j].entry = filled[j]
<1> USE FeedbackAssumption DEF IInv
<1> DEFINE i == Head(bus.fills)
           r == [rows[i] EXCEPT !.entry = filled[i]]
<1>1. i \in Ids /\ filled[i] \in Prices
  <2>1. bus.fills \in Seq(Ids) /\ bus.fills # <<>>
    BY DEF TypeOK, HandleBuy, Fills
  <2>2. i \in Range(bus.fills) /\ i \in Ids
    BY <2>1, RangeFact
  <2> QED
    BY <2>2 DEF TypeOK, OneFill
<1>2. CASE rows[i].status = "open"
  <2>1. rows' = [rows EXCEPT ![i] = r] /\ told' = told \union {i}
    BY <1>2 DEF HandleBuy, Fills
  <2>2. /\ r.entry = filled[i] /\ r.regime = rows[i].regime /\ r.ref = rows[i].ref
        /\ r.status = rows[i].status
    BY <1>1 DEF TypeOK, Row
  <2> HIDE DEF r
  <2>3. rows'[i] = r /\ \A j \in Ids \ {i} : rows'[j] = rows[j]
    BY <1>1, <2>1 DEF TypeOK
  <2>4. told \subseteq Ids
    BY DEF TypeOK
  <2> QED
    BY <1>1, <1>2, <2>1, <2>2, <2>3, <2>4
<1>3. CASE rows[i].status # "open"
  <2>1. rows' = rows /\ told' = told
    BY <1>3 DEF HandleBuy, Fills
  <2> QED
    BY <1>1, <2>1
<1> QED
  BY <1>2, <1>3

\* Every decision of a batch is recorded once, under the snapshot of its cycle.
LEMMA FreshStep ==
  ASSUME IInv, [Next]_vars
  PROVE  Fresh'
<1> USE FeedbackAssumption
<1> USE DEF brokerVars, cycleVars, historyVars, IInv, Fault, NoCycle
<1>1. ASSUME NEW v \in [Symbols -> Views], Ingest(v) PROVE Fresh'
  <2>1. bus'.intents = bus.intents /\ bus'.market = Append(bus.market, v)
    BY <1>1 DEF Ingest, BusShape, Topics
  <2>2. bus'.market # <<>> /\ bus'.market[Len(bus'.market)] = v
    <3>1. bus.market \in Seq([Symbols -> Views])
      BY DEF TypeOK
    <3>2. Append(bus.market, v) # <<>> /\ Append(bus.market, v)[Len(Append(bus.market, v))] = v
      BY <3>1, MarketFact
    <3> QED
      BY <2>1, <3>2
  <2> QED
    BY <2>1, <2>2, <1>1 DEF Ingest, Fresh, BusShape
<1>2. ASSUME NEW S \in SUBSET (Ids \ planned), Plan(S) PROVE Fresh'
  <2>1. bus' = [bus EXCEPT !.intents = bus.intents \union S] /\ bus.intents = {} /\ bus \in Topics
    BY <1>2 DEF Plan, BusShape
  <2>2. bus'.intents = S /\ bus'.market = bus.market
    BY <2>1 DEF Topics
  <2> QED
    BY <2>2, <1>2 DEF Plan, Fresh, BusShape, TypeOK
<1>3. ASSUME PlanRaises PROVE Fresh'
  BY <1>3 DEF PlanRaises, Fresh, BusShape, TypeOK
<1>4. ASSUME Evaluate PROVE Fresh'
  <2>1. bus'.intents = {}
    BY <1>4 DEF Evaluate, BusShape, Topics
  <2>2. view' = seen /\ seen \in [Symbols -> Views]
    <3>1. /\ view' = Last(bus.market) /\ bus.market # <<>> /\ seen = Last(bus.market)
      BY <1>4 DEF Evaluate, Fresh, Last
    <3>2. Last(bus.market) \in [Symbols -> Views]
      <4>1. bus.market \in Seq([Symbols -> Views])
        BY DEF TypeOK
      <4> QED
        BY <3>1, <4>1 DEF Last
    <3> QED
      BY <3>1, <3>2
  <2> QED
    BY <2>1, <2>2, <1>4 DEF Evaluate, Fresh
<1>5. ASSUME NEW i \in todo, Record(i) PROVE Fresh'
  <2> DEFINE s == Order[i].symbol
             st == IF Allowed(i) THEN "open" ELSE "skipped"
             r == [NoRow EXCEPT !.status = st, !.regime = view[s].regime, !.ref = view[s].price]
  <2>1. i \in Ids /\ i \in batch /\ i \in planned /\ view = seen
    BY <1>5 DEF Record, TypeOK, BusShape, Fresh
  <2>2. rows' = [rows EXCEPT ![i] = r] /\ r.regime = view[s].regime /\ r.ref = view[s].price
    BY <1>5 DEF Record, NoRow
  <2> HIDE DEF r
  <2>3. rows'[i] = r /\ \A j \in Ids \ {i} : rows'[j] = rows[j]
    BY <2>1, <2>2 DEF TypeOK
  <2>4. bus' = bus /\ pc' = pc /\ view' = view /\ seen' = seen /\ batch' = batch /\ planned' = planned
        /\ todo' = todo \ {i} /\ pc = "record"
    BY <1>5 DEF Record
  <2>5. bus.intents = {} /\ batch \subseteq Ids
    BY <2>4 DEF BusShape, TypeOK
  <2> QED
    BY <2>1, <2>2, <2>3, <2>4, <2>5 DEF Fresh, TypeOK
<1>6. ASSUME RecordRaises PROVE Fresh'
  BY <1>6 DEF RecordRaises, Fresh, BusShape, TypeOK
<1>7. ASSUME Approve PROVE Fresh'
  <2>1. /\ rows' = rows /\ bus'.market = bus.market /\ bus'.intents \subseteq bus.intents
        /\ seen' = seen /\ batch' = batch /\ planned' = planned
    BY <1>7 DEF Approve, BusShape, Topics
  <2> QED
    BY <2>1, <1>7 DEF Approve, Fresh, BusShape
<1>8. ASSUME Take PROVE Fresh'
  <2>1. /\ rows' = rows /\ bus'.market = bus.market /\ bus'.intents \subseteq bus.intents
        /\ seen' = seen /\ batch' = batch /\ planned' = planned
    BY <1>8 DEF Take, BusShape, Topics
  <2> QED
    BY <2>1, <1>8 DEF Take, Fresh, BusShape
<1>9. ASSUME NEW i \in todo, NEW p \in Prices, ExecuteFilled(i, p) PROVE Fresh'
  BY <1>9 DEF ExecuteFilled, Fill, Fresh, BusShape, TypeOK
<1>10. ASSUME NEW i \in todo, ExecuteAccepted(i) PROVE Fresh'
  BY <1>10 DEF ExecuteAccepted, Fresh, BusShape, TypeOK
<1>11. ASSUME NEW i \in todo, ExecuteNothing(i) PROVE Fresh'
  BY <1>11 DEF ExecuteNothing, Fresh, BusShape, TypeOK
<1>12. ASSUME NEW i \in todo, ExecuteRaises(i) PROVE Fresh'
  BY <1>12 DEF ExecuteRaises, Fill, Fresh, BusShape, TypeOK
<1>13. ASSUME Publish PROVE Fresh'
  <2>1. /\ rows' = rows /\ bus'.market = bus.market /\ bus'.intents \subseteq bus.intents
        /\ seen' = seen /\ batch' = batch /\ planned' = planned
    BY <1>13 DEF Publish, BusShape, Topics
  <2> QED
    BY <2>1, <1>13 DEF Publish, Fresh, BusShape
<1>14. ASSUME HandleBuy PROVE Fresh'
  <2>1. /\ bus'.intents = bus.intents /\ pc = "feedback" /\ pc' = pc /\ view' = view
        /\ seen' = seen /\ batch' = batch /\ planned' = planned /\ todo' = todo
    BY <1>14 DEF HandleBuy, NextFill, BusShape, Topics
  <2>2. \A j \in Ids : /\ rows'[j].regime = rows[j].regime /\ rows'[j].ref = rows[j].ref
                       /\ rows'[j].status = rows[j].status
    BY <1>14, HandleBuyFact
  <2>3. batch \subseteq Ids /\ bus.intents \subseteq Ids
    BY DEF TypeOK
  <2>4. view = seen /\ seen \in [Symbols -> Views]
    BY <2>1 DEF Fresh
  <2>5. \A j \in batch' : rows'[j].status # "none" =>
          rows'[j].regime = seen'[Order[j].symbol].regime /\ rows'[j].ref = seen'[Order[j].symbol].price
    BY <2>1, <2>2, <2>3 DEF Fresh
  <2>6. \A j \in (Ids \ planned') \union bus'.intents : rows'[j].status = "none"
    BY <2>1, <2>2, <2>3 DEF Fresh
  <2> QED
    BY <2>1, <2>4, <2>5, <2>6 DEF Fresh
<1>15. ASSUME HandleSale PROVE Fresh'
  <2>1. /\ rows' = rows /\ bus'.market = bus.market /\ bus'.intents \subseteq bus.intents
        /\ seen' = seen /\ batch' = batch /\ planned' = planned
    BY <1>15 DEF HandleSale, BusShape, Topics
  <2> QED
    BY <2>1, <1>15 DEF HandleSale, Fresh, BusShape
<1>16. ASSUME NEW i \in closing, Close(i) PROVE Fresh'
  <2>1. /\ bus' = bus /\ pc = "close" /\ pc' = pc /\ view' = view /\ rows[i].status = "open"
        /\ seen' = seen /\ batch' = batch /\ planned' = planned /\ todo' = todo
    BY <1>16 DEF Close, LoopShape
  <2>2. \A j \in Ids : rows'[j].regime = rows[j].regime /\ rows'[j].ref = rows[j].ref
    BY <1>16, CloseFact
  <2>3. \A j \in Ids : rows[j].status = "none" => rows'[j] = rows[j]
    BY <2>1, <1>16, CloseFact
  <2>4. batch \subseteq Ids /\ bus.intents = {} /\ \A j \in Ids : rows'[j].status # "none" => rows[j].status # "none"
    BY <2>1, <2>3 DEF TypeOK, BusShape
  <2>5. view = seen /\ seen \in [Symbols -> Views]
    BY <2>1 DEF Fresh
  <2>6. \A j \in batch' : rows'[j].status # "none" =>
          rows'[j].regime = seen'[Order[j].symbol].regime /\ rows'[j].ref = seen'[Order[j].symbol].price
    BY <2>1, <2>2, <2>4 DEF Fresh
  <2>7. \A j \in Ids \ planned' : rows'[j].status = "none"
    BY <2>1, <2>3 DEF Fresh
  <2> QED
    BY <2>1, <2>4, <2>5, <2>6, <2>7 DEF Fresh
<1>17. ASSUME SaleDone PROVE Fresh'
  <2>1. /\ rows' = rows /\ bus'.market = bus.market /\ bus'.intents \subseteq bus.intents
        /\ seen' = seen /\ batch' = batch /\ planned' = planned
    BY <1>17 DEF SaleDone, NextFill, BusShape, Topics
  <2> QED
    BY <2>1, <1>17 DEF SaleDone, Fresh, BusShape
<1>18. ASSUME HandleRaises PROVE Fresh'
  <2>1. /\ rows' = rows /\ bus'.market = bus.market /\ bus'.intents \subseteq bus.intents
        /\ seen' = seen /\ batch' = batch /\ planned' = planned
    BY <1>18 DEF HandleRaises, NextFill, BusShape, Topics
  <2> QED
    BY <2>1, <1>18 DEF HandleRaises, Fresh, BusShape
<1>19. ASSUME EndCycle PROVE Fresh'
  <2>1. /\ rows' = rows /\ bus'.market = bus.market /\ bus'.intents \subseteq bus.intents
        /\ seen' = seen /\ batch' = batch /\ planned' = planned
    BY <1>19 DEF EndCycle, BusShape, Topics
  <2> QED
    BY <2>1, <1>19 DEF EndCycle, Fresh, BusShape
<1>20. ASSUME NEW i \in pending, NEW p \in Prices, LateFill(i, p) PROVE Fresh'
  BY <1>20 DEF LateFill, Fill, Fresh, BusShape, TypeOK
<1>21. ASSUME Crash PROVE Fresh'
  <2>1. rows' = rows /\ seen' = seen /\ batch' = batch /\ planned' = planned
        /\ todo' = {} /\ pc' = "down" /\ bus'.intents = {}
    BY <1>21 DEF Crash, NoBus
  <2> QED
    BY <2>1 DEF Fresh
<1>22. ASSUME Restart PROVE Fresh'
  BY <1>22 DEF Restart, Fresh, BusShape, TypeOK
<1>23. CASE UNCHANGED vars
  BY <1>23 DEF vars, Fresh, BusShape, TypeOK
<1> QED
  BY PlanChoice, <1>1, <1>2, <1>3, <1>4, <1>5, <1>6, <1>7, <1>8, <1>9, <1>10, <1>11, <1>12, <1>13, <1>14, <1>15, <1>16, <1>17, <1>18, <1>19, <1>20, <1>21, <1>22, <1>23 DEF Next

\* Every step keeps executions single and fills priced.
LEMMA OneFillStep ==
  ASSUME IInv, [Next]_vars
  PROVE  OneFill'
<1> USE FeedbackAssumption
<1> USE DEF brokerVars, cycleVars, historyVars, IInv, Fault, NoCycle
<1>1. ASSUME NEW v \in [Symbols -> Views], Ingest(v) PROVE OneFill'
  <2>1. filled' = filled /\ pending' = pending /\ planned' = planned /\ todo' = todo /\ passed' = passed
    BY <1>1 DEF Ingest
  <2>2. pc = "idle" /\ pc' = "plan" /\ bus'.intents = bus.intents /\ bus'.approved = bus.approved
        /\ bus'.fills = bus.fills
    BY <1>1 DEF Ingest, BusShape, Topics
  <2> QED
    BY <2>1, <2>2 DEF OneFill
<1>2. ASSUME NEW S \in SUBSET (Ids \ planned), Plan(S) PROVE OneFill'
  <2>1. filled' = filled /\ pending' = pending /\ planned' = planned \union S /\ todo' = todo
        /\ passed' = passed /\ pc' = "decide" /\ pc = "plan"
    BY <1>2 DEF Plan
  <2>2. bus'.intents = bus.intents \union S /\ bus'.approved = bus.approved /\ bus'.fills = bus.fills
    BY <1>2 DEF Plan, BusShape, Topics
  <2> QED
    BY <2>1, <2>2 DEF OneFill, TypeOK
<1>3. ASSUME PlanRaises PROVE OneFill'
  <2>1. filled' = filled /\ pending' = pending /\ planned' = planned /\ todo' \subseteq todo
        /\ bus' = bus /\ pc' = "idle"
    BY <1>3 DEF PlanRaises
  <2> QED
    BY <2>1 DEF OneFill
<1>4. ASSUME Evaluate PROVE OneFill'
  <2>1. filled' = filled /\ pending' = pending /\ planned' = planned /\ todo' = bus.intents
        /\ passed' = passed /\ pc = "decide" /\ pc' # "orders"
    BY <1>4 DEF Evaluate
  <2>2. bus'.intents = {} /\ bus'.approved = bus.approved /\ bus'.fills = bus.fills
    BY <1>4 DEF Evaluate, BusShape, Topics
  <2>3. Range(passed') = {}
    BY <2>1, EmptyRange DEF BusShape
  <2> QED
    BY <2>1, <2>2, <2>3 DEF OneFill
<1>5. ASSUME NEW i \in todo, Record(i) PROVE OneFill'
  <2>1. filled' = filled /\ pending' = pending /\ planned' = planned /\ todo' = todo \ {i}
        /\ bus' = bus /\ pc = "record" /\ pc' = pc
        /\ (passed' = passed \/ passed' = Append(passed, i))
    BY <1>5 DEF Record
  <2>2. Range(passed') \subseteq Range(passed) \union {i}
    <3>1. passed \in Seq(Ids) /\ i \in Ids
      BY <1>5 DEF TypeOK
    <3>2. Range(Append(passed, i)) = Range(passed) \union {i}
      BY <3>1, RangeFact
    <3> QED
      BY <2>1, <3>2
  <2> QED
    BY <2>1, <2>2, <1>5 DEF OneFill
<1>6. ASSUME RecordRaises PROVE OneFill'
  <2>1. filled' = filled /\ pending' = pending /\ planned' = planned /\ todo' \subseteq todo
        /\ bus' = bus /\ pc' = "idle"
    BY <1>6 DEF RecordRaises
  <2> QED
    BY <2>1 DEF OneFill
<1>7. ASSUME Approve PROVE OneFill'
  <2>1. filled' = filled /\ pending' = pending /\ planned' = planned /\ todo' = todo
        /\ passed' = <<>> /\ pc = "record" /\ pc' = "execute"
    BY <1>7 DEF Approve
  <2>2. bus'.intents = bus.intents /\ bus'.approved = bus.approved \union Range(passed)
        /\ bus'.fills = bus.fills
    BY <1>7 DEF Approve, BusShape, Topics
  <2> QED
    BY <2>1, <2>2 DEF OneFill
<1>8. ASSUME Take PROVE OneFill'
  <2>1. filled' = filled /\ pending' = pending /\ planned' = planned /\ todo' = bus.approved
        /\ passed' = passed /\ pc = "execute" /\ pc' = "orders"
    BY <1>8 DEF Take
  <2>2. bus'.intents = bus.intents /\ bus'.approved = {} /\ bus'.fills = bus.fills
    BY <1>8 DEF Take, BusShape, Topics
  <2>3. Range(passed') = {}
    BY <2>1, EmptyRange DEF BusShape
  <2> QED
    BY <2>1, <2>2, <2>3 DEF OneFill
<1>9. ASSUME NEW i \in todo, NEW p \in Prices, ExecuteFilled(i, p) PROVE OneFill'
  <2>1. filled' = [filled EXCEPT ![i] = p] /\ pending' = pending /\ planned' = planned
        /\ todo' = todo \ {i} /\ passed' = Append(passed, i) /\ bus' = bus /\ pc = "orders" /\ pc' = pc
    BY <1>9 DEF ExecuteFilled, Fill
  <2>2. i \in Ids /\ i \in planned /\ i \notin pending /\ p # None
    BY <1>9 DEF TypeOK, BusShape, OneFill
  <2>3. filled'[i] = p /\ \A j \in Ids \ {i} : filled'[j] = filled[j]
    BY <2>1, <2>2 DEF TypeOK
  <2>4. Range(passed') = Range(passed) \union {i} /\ Range(passed) \subseteq Ids
    <3>1. passed \in Seq(Ids)
      BY DEF TypeOK
    <3> QED
      BY <2>1, <2>2, <3>1, RangeFact
  <2>5. bus.intents = {} /\ bus.approved = {} /\ Range(bus.fills) = {}
    BY <2>1, EmptyRange DEF BusShape
  <2>6. todo \subseteq Ids
    BY DEF TypeOK
  <2> QED
    BY <2>1, <2>2, <2>3, <2>4, <2>5, <2>6 DEF OneFill
<1>10. ASSUME NEW i \in todo, ExecuteAccepted(i) PROVE OneFill'
  <2>1. filled' = filled /\ pending' = pending \union {i} /\ planned' = planned
        /\ todo' = todo \ {i} /\ passed' = passed /\ bus' = bus /\ pc = "orders" /\ pc' = pc
    BY <1>10 DEF ExecuteAccepted
  <2>2. i \in planned /\ filled[i] = None /\ bus.intents = {} /\ bus.approved = {}
    BY <2>1, <1>10 DEF TypeOK, BusShape, OneFill
  <2> QED
    BY <2>1, <2>2 DEF OneFill
<1>11. ASSUME NEW i \in todo, ExecuteNothing(i) PROVE OneFill'
  BY <1>11 DEF ExecuteNothing, OneFill
<1>12. ASSUME NEW i \in todo, ExecuteRaises(i) PROVE OneFill'
  <2>1. pending' = pending /\ planned' = planned /\ todo' = {} /\ passed' = <<>>
        /\ bus' = bus /\ pc = "orders" /\ pc' = "idle"
    BY <1>12 DEF ExecuteRaises
  <2>2. i \in Ids /\ i \in planned /\ i \notin pending
    BY <1>12 DEF TypeOK, BusShape, OneFill
  <2>3. \A j \in Ids \ {i} : filled'[j] = filled[j]
    BY <1>12 DEF ExecuteRaises, Fill, TypeOK
  <2>4. bus.intents = {} /\ bus.approved = {} /\ Range(bus.fills) = {}
    BY <2>1, EmptyRange DEF BusShape
  <2> QED
    BY <2>1, <2>2, <2>3, <2>4 DEF OneFill
<1>13. ASSUME Publish PROVE OneFill'
  <2>1. filled' = filled /\ pending' = pending /\ planned' = planned /\ todo' = todo
        /\ pc = "orders" /\ pc' = "feedback" /\ bus.fills = <<>>
    BY <1>13 DEF Publish, BusShape
  <2>2. bus'.intents = bus.intents /\ bus'.approved = bus.approved /\ bus'.fills = bus.fills \o passed
    BY <1>13 DEF Publish, BusShape, Topics
  <2>3. bus'.fills = passed
    <3>1. passed \in Seq(Ids)
      BY DEF TypeOK
    <3> QED
      BY <2>1, <2>2, <3>1, ConcatEmptySeq
  <2> QED
    BY <2>1, <2>2, <2>3 DEF OneFill
<1>14. ASSUME HandleBuy PROVE OneFill'
  <2>1. filled' = filled /\ pending' = pending /\ planned' = planned /\ todo' = todo
        /\ pc' = "feedback" /\ bus.fills # <<>>
    BY <1>14 DEF HandleBuy, Fills, LoopShape
  <2>2. bus'.intents = bus.intents /\ bus'.approved = bus.approved /\ bus'.fills = Tail(bus.fills)
    BY <1>14 DEF HandleBuy, NextFill, Fills, BusShape, Topics
  <2>3. Range(bus'.fills) \subseteq Range(bus.fills)
    <3>1. bus.fills \in Seq(Ids)
      BY DEF TypeOK
    <3> QED
      BY <2>1, <2>2, <3>1, RangeFact
  <2> QED
    BY <2>1, <2>2, <2>3 DEF OneFill
<1>15. ASSUME HandleSale PROVE OneFill'
  BY <1>15 DEF HandleSale, NextFill, Fills, OneFill
<1>16. ASSUME NEW i \in closing, Close(i) PROVE OneFill'
  BY <1>16 DEF Close, NextFill, Fills, OneFill
<1>17. ASSUME SaleDone PROVE OneFill'
  <2>1. filled' = filled /\ pending' = pending /\ planned' = planned /\ todo' = todo
        /\ pc' = "feedback" /\ bus.fills # <<>>
    BY <1>17 DEF SaleDone, Fills, LoopShape
  <2>2. bus'.intents = bus.intents /\ bus'.approved = bus.approved /\ bus'.fills = Tail(bus.fills)
    BY <1>17 DEF SaleDone, NextFill, Fills, BusShape, Topics
  <2>3. Range(bus'.fills) \subseteq Range(bus.fills)
    <3>1. bus.fills \in Seq(Ids)
      BY DEF TypeOK
    <3> QED
      BY <2>1, <2>2, <3>1, RangeFact
  <2> QED
    BY <2>1, <2>2, <2>3 DEF OneFill
<1>18. ASSUME HandleRaises PROVE OneFill'
  <2>1. filled' = filled /\ pending' = pending /\ planned' = planned /\ todo' = todo
        /\ pc' = "feedback" /\ bus.fills # <<>>
    BY <1>18 DEF HandleRaises, Fills, LoopShape
  <2>2. bus'.intents = bus.intents /\ bus'.approved = bus.approved /\ bus'.fills = Tail(bus.fills)
    BY <1>18 DEF HandleRaises, NextFill, Fills, BusShape, Topics
  <2>3. Range(bus'.fills) \subseteq Range(bus.fills)
    <3>1. bus.fills \in Seq(Ids)
      BY DEF TypeOK
    <3> QED
      BY <2>1, <2>2, <3>1, RangeFact
  <2> QED
    BY <2>1, <2>2, <2>3 DEF OneFill
<1>19. ASSUME EndCycle PROVE OneFill'
  <2>1. filled' = filled /\ pending' = pending /\ planned' = planned /\ todo' \subseteq todo
        /\ bus' = bus /\ pc' = "idle"
    BY <1>19 DEF EndCycle
  <2> QED
    BY <2>1 DEF OneFill
<1>20. ASSUME NEW i \in pending, NEW p \in Prices, LateFill(i, p) PROVE OneFill'
  <2>1. filled' = [filled EXCEPT ![i] = p] /\ pending' = pending \ {i} /\ planned' = planned
        /\ todo' = todo /\ passed' = passed /\ bus' = bus /\ pc' = pc
    BY <1>20 DEF LateFill, Fill
  <2>2. i \in Ids /\ i \in planned /\ p # None
    BY <1>20 DEF TypeOK, OneFill
  <2>3. filled'[i] = p /\ \A j \in Ids \ {i} : filled'[j] = filled[j]
    BY <2>1, <2>2 DEF TypeOK
  <2>4. i \notin bus.intents \union bus.approved \union todo
        /\ (pc = "record" => i \notin Range(passed))
    BY <1>20 DEF OneFill
  <2>5. bus.intents \union bus.approved \union todo \subseteq Ids /\ pending \subseteq Ids
        /\ Range(passed) \subseteq Ids /\ Range(bus.fills) \subseteq Ids
    <3>1. passed \in Seq(Ids) /\ bus.fills \in Seq(Ids)
      BY DEF TypeOK
    <3> QED
      BY <3>1, RangeFact DEF TypeOK
  <2> QED
    BY <2>1, <2>2, <2>3, <2>4, <2>5 DEF OneFill
<1>21. ASSUME Crash PROVE OneFill'
  <2>1. filled' = filled /\ pending' = pending /\ planned' = planned /\ todo' = {} /\ pc' = "down"
        /\ bus'.intents = {} /\ bus'.approved = {} /\ bus'.fills = <<>>
    BY <1>21 DEF Crash, NoBus
  <2> QED
    BY <2>1, EmptyRange DEF OneFill
<1>22. ASSUME Restart PROVE OneFill'
  <2>1. filled' = filled /\ pending' = pending /\ planned' = planned /\ todo' \subseteq todo
        /\ bus' = bus /\ pc' = "idle"
    BY <1>22 DEF Restart
  <2> QED
    BY <2>1 DEF OneFill
<1>23. CASE UNCHANGED vars
  BY <1>23 DEF vars, OneFill
<1> QED
  BY PlanChoice, <1>1, <1>2, <1>3, <1>4, <1>5, <1>6, <1>7, <1>8, <1>9, <1>10, <1>11, <1>12, <1>13, <1>14, <1>15, <1>16, <1>17, <1>18, <1>19, <1>20, <1>21, <1>22, <1>23 DEF Next

\* A price of execution is never written again.
LEMMA FilledStays ==
  ASSUME IInv, [Next]_vars
  PROVE  \A j \in Ids : filled[j] # None => filled'[j] = filled[j]
<1> USE FeedbackAssumption DEF IInv
<1>1. ASSUME NEW i \in Ids, filled[i] = None, NEW p, Fill(i, p)
      PROVE  \A j \in Ids : filled[j] # None => filled'[j] = filled[j]
  BY <1>1 DEF Fill, TypeOK
<1>2. \A i \in todo : i \in Ids /\ filled[i] = None
  <2>1. \A i \in todo : i \in Ids
    BY DEF TypeOK
  <2> QED
    BY <2>1 DEF OneFill
<1>3. \A i \in pending : i \in Ids /\ filled[i] = None
  BY DEF TypeOK, OneFill
<1>4. ASSUME NEW i \in todo, NEW p \in Prices, ExecuteFilled(i, p)
      PROVE  \A j \in Ids : filled[j] # None => filled'[j] = filled[j]
  BY <1>1, <1>2, <1>4 DEF ExecuteFilled
<1>5. ASSUME NEW i \in todo, ExecuteRaises(i)
      PROVE  \A j \in Ids : filled[j] # None => filled'[j] = filled[j]
  BY <1>1, <1>2, <1>5 DEF ExecuteRaises
<1>6. ASSUME NEW i \in pending, NEW p \in Prices, LateFill(i, p)
      PROVE  \A j \in Ids : filled[j] # None => filled'[j] = filled[j]
  BY <1>1, <1>3, <1>6 DEF LateFill
<1>7. CASE filled' = filled
  BY <1>7
<1> QED
  BY <1>4, <1>5, <1>6, <1>7
     DEF Next, vars, brokerVars, Ingest, Plan, PlanRaises, Evaluate, Record, RecordRaises,
         Approve, Take, ExecuteAccepted, ExecuteNothing, Publish, HandleBuy, HandleSale, Close,
         SaleDone, HandleRaises, EndCycle, Crash, Restart

\* Every step keeps what was told, and outcomes are of real prices.
LEMMA LoopStep ==
  ASSUME IInv, [Next]_vars
  PROVE  LoopShape'
<1> USE FeedbackAssumption
<1> USE DEF brokerVars, cycleVars, historyVars, IInv, Fault, NoCycle
<1>0. /\ \A j \in Ids : filled[j] # None => filled'[j] = filled[j]
      /\ told \subseteq Ids /\ closing \subseteq Ids
  BY FilledStays DEF TypeOK
<1>a. ASSUME NEW s, NEW x \in Executed(s, "sell")
      PROVE  filled'[x] = filled[x] /\ x \in Executed(s, "sell")'
  BY <1>a, <1>0 DEF Executed
<1>b. ASSUME \A j \in Ids : rows'[j].status \in Closed =>
               rows'[j] = rows[j] /\ (j \in told' => j \in told)
      PROVE  OutcomeOfRealPrices'
  <2> SUFFICES ASSUME NEW j \in Ids, rows'[j].status \in Closed
               PROVE  /\ j \in told' => rows'[j].entry = filled'[j]
                      /\ \E x \in Executed(Order[j].symbol, "sell")' :
                           rows'[j].status = Outcome(rows'[j].entry, filled'[x])
    BY DEF OutcomeOfRealPrices, Outcome
  <2>1. rows'[j] = rows[j] /\ (j \in told' => j \in told)
    BY <1>b
  <2>2. j \in told' => rows'[j].entry = filled'[j]
    BY <2>1, <1>0 DEF LoopShape
  <2>3. PICK x \in Executed(Order[j].symbol, "sell") :
          rows[j].status = Outcome(rows[j].entry, filled[x])
    BY <2>1 DEF LoopShape, OutcomeOfRealPrices
  <2>4. x \in Executed(Order[j].symbol, "sell")' /\ filled'[x] = filled[x]
    BY <1>a
  <2> QED
    BY <2>1, <2>2, <2>3, <2>4
<1>c. ASSUME rows' = rows, told' = told
      PROVE  /\ OutcomeOfRealPrices'
             /\ \A j \in told' : rows'[j].status # "none" /\ filled'[j] # None /\ rows'[j].entry = filled'[j]
  <2>1. OutcomeOfRealPrices'
    BY <1>b, <1>c
  <2> QED
    BY <2>1, <1>0, <1>c DEF LoopShape
<1>1. ASSUME NEW v \in [Symbols -> Views], Ingest(v) PROVE LoopShape'
  <2>1. rows' = rows /\ told' = told /\ closing' = {} /\ pc' # "close"
    BY <1>1 DEF Ingest, BusShape
  <2> QED
    BY <2>1, <1>0, <1>b, <1>c DEF LoopShape
<1>2. ASSUME NEW S \in SUBSET (Ids \ planned), Plan(S) PROVE LoopShape'
  <2>1. rows' = rows /\ told' = told /\ closing' = {} /\ pc' # "close"
    BY <1>2 DEF Plan, BusShape
  <2> QED
    BY <2>1, <1>0, <1>b, <1>c DEF LoopShape
<1>3. ASSUME PlanRaises PROVE LoopShape'
  <2>1. rows' = rows /\ told' = told /\ closing' = {} /\ pc' # "close"
    BY <1>3 DEF PlanRaises, BusShape
  <2> QED
    BY <2>1, <1>0, <1>b, <1>c DEF LoopShape
<1>4. ASSUME Evaluate PROVE LoopShape'
  <2>1. rows' = rows /\ told' = told /\ closing' = {} /\ pc' # "close"
    BY <1>4 DEF Evaluate, BusShape
  <2> QED
    BY <2>1, <1>0, <1>b, <1>c DEF LoopShape
<1>5. ASSUME NEW i \in todo, Record(i) PROVE LoopShape'
  <2>1. i \in Ids /\ rows[i].status = "none" /\ told' = told /\ pc' # "close" /\ closing' = {}
    BY <1>5 DEF Record, Fresh, TypeOK, BusShape
  <2>2. /\ rows'[i].status \in {"open", "skipped"}
        /\ \A j \in Ids \ {i} : rows'[j] = rows[j]
    <3> DEFINE v == view[Order[i].symbol]
               r == [NoRow EXCEPT !.status = IF Allowed(i) THEN "open" ELSE "skipped",
                                  !.regime = v.regime, !.ref = v.price]
    <3>1. rows' = [rows EXCEPT ![i] = r] /\ r.status \in {"open", "skipped"}
      BY <1>5 DEF Record, NoRow
    <3> HIDE DEF r
    <3> QED
      BY <3>1, <2>1 DEF TypeOK
  <2>3. OutcomeOfRealPrices'
    BY <2>1, <2>2, <1>b DEF Closed
  <2>4. \A j \in told : j # i /\ rows'[j] = rows[j]
    BY <2>1, <2>2, <1>0 DEF LoopShape
  <2>5. \A j \in told : rows'[j].status # "none" /\ filled'[j] # None /\ rows'[j].entry = filled'[j]
    BY <2>4, <1>0 DEF LoopShape
  <2> QED
    BY <2>1, <2>3, <2>5 DEF LoopShape
<1>6. ASSUME RecordRaises PROVE LoopShape'
  <2>1. rows' = rows /\ told' = told /\ closing' = {} /\ pc' # "close"
    BY <1>6 DEF RecordRaises, NoCycle, BusShape
  <2> QED
    BY <2>1, <1>0, <1>b, <1>c DEF LoopShape
<1>7. ASSUME Approve PROVE LoopShape'
  <2>1. rows' = rows /\ told' = told /\ closing' = {} /\ pc' # "close"
    BY <1>7 DEF Approve, BusShape
  <2> QED
    BY <2>1, <1>0, <1>b, <1>c DEF LoopShape
<1>8. ASSUME Take PROVE LoopShape'
  <2>1. rows' = rows /\ told' = told /\ closing' = {} /\ pc' # "close"
    BY <1>8 DEF Take, BusShape
  <2> QED
    BY <2>1, <1>0, <1>b, <1>c DEF LoopShape
<1>9. ASSUME NEW i \in todo, NEW p \in Prices, ExecuteFilled(i, p) PROVE LoopShape'
  <2>1. rows' = rows /\ told' = told /\ closing' = {} /\ pc' # "close"
    BY <1>9 DEF ExecuteFilled, BusShape
  <2> QED
    BY <2>1, <1>0, <1>b, <1>c DEF LoopShape
<1>10. ASSUME NEW i \in todo, ExecuteAccepted(i) PROVE LoopShape'
  <2>1. rows' = rows /\ told' = told /\ closing' = {} /\ pc' # "close"
    BY <1>10 DEF ExecuteAccepted, BusShape
  <2> QED
    BY <2>1, <1>0, <1>b, <1>c DEF LoopShape
<1>11. ASSUME NEW i \in todo, ExecuteNothing(i) PROVE LoopShape'
  <2>1. rows' = rows /\ told' = told /\ closing' = {} /\ pc' # "close"
    BY <1>11 DEF ExecuteNothing, BusShape
  <2> QED
    BY <2>1, <1>0, <1>b, <1>c DEF LoopShape
<1>12. ASSUME NEW i \in todo, ExecuteRaises(i) PROVE LoopShape'
  <2>1. rows' = rows /\ told' = told /\ closing' = {} /\ pc' # "close"
    BY <1>12 DEF ExecuteRaises, NoCycle, BusShape
  <2> QED
    BY <2>1, <1>0, <1>b, <1>c DEF LoopShape
<1>13. ASSUME Publish PROVE LoopShape'
  <2>1. rows' = rows /\ told' = told /\ closing' = {} /\ pc' # "close"
    BY <1>13 DEF Publish, BusShape
  <2> QED
    BY <2>1, <1>0, <1>b, <1>c DEF LoopShape
<1>14. ASSUME HandleBuy PROVE LoopShape'
  <2>1. pc' # "close" /\ closing' = {} /\ filled' = filled
    BY <1>14 DEF HandleBuy, BusShape
  <2>2. \A j \in Ids : rows'[j].status \in Closed => rows'[j] = rows[j] /\ (j \in told' => j \in told)
    BY <1>14, HandleBuyFact DEF Closed
  <2>3. OutcomeOfRealPrices'
    BY <2>2, <1>b
  <2>4. \A j \in told' : rows'[j].status # "none" /\ filled[j] # None /\ rows'[j].entry = filled[j]
    <3>1. Head(bus.fills) \in Ids /\ filled[Head(bus.fills)] # None
          /\ \A j \in Ids : rows'[j].status = rows[j].status
      BY <1>14, HandleBuyFact
    <3>2. \A j \in told' : \/ j \in told /\ rows'[j] = rows[j]
                           \/ /\ j = Head(bus.fills) /\ rows[j].status = "open"
                              /\ rows'[j].entry = filled[j]
      BY <1>14, HandleBuyFact
    <3> QED
      BY <3>1, <3>2 DEF LoopShape
  <2> QED
    BY <2>1, <2>3, <2>4 DEF LoopShape
<1>15. ASSUME HandleSale PROVE LoopShape'
  <2>1. rows' = rows /\ told' = told /\ pc' = "close" /\ bus' = bus
        /\ bus.fills # <<>> /\ ~IsBuy(Head(bus.fills))
        /\ closing' = {j \in Ids : /\ rows[j].status = "open" /\ IsBuy(j)
                                   /\ Order[j].symbol = Order[Head(bus.fills)].symbol}
    BY <1>15 DEF HandleSale, Fills
  <2> QED
    BY <2>1, <1>c DEF LoopShape, IsBuy
<1>16. ASSUME NEW i \in closing, Close(i) PROVE LoopShape'
  <2> DEFINE x == Head(bus.fills)
  <2>1. /\ bus' = bus /\ pc = "close" /\ pc' = pc /\ filled' = filled /\ told' = told
        /\ closing' = closing \ {i} /\ rows[i].status = "open" /\ Order[i].symbol = Order[x].symbol
        /\ bus.fills # <<>> /\ ~IsBuy(x)
    BY <1>16 DEF Close, LoopShape
  <2>2. /\ i \in Ids /\ x \in Ids /\ filled[x] \in Prices
        /\ \A j \in Ids \ {i} : rows'[j] = rows[j]
    BY <1>16, CloseFact
  <2>3. \/ rows'[i] = rows[i]
        \/ /\ Entry(rows[i]) # None /\ rows'[i].entry = Entry(rows[i])
           /\ rows'[i].status = Outcome(Entry(rows[i]), filled[x])
    BY <1>16, CloseFact
  <2>4. \A j \in told' : rows'[j].status # "none" /\ filled'[j] # None /\ rows'[j].entry = filled'[j]
    <3>1. ASSUME NEW j \in told, j # i
          PROVE  rows'[j].status # "none" /\ filled[j] # None /\ rows'[j].entry = filled[j]
      BY <3>1, <2>2, <1>0 DEF LoopShape
    <3>2. ASSUME i \in told
          PROVE  rows'[i].status # "none" /\ filled[i] # None /\ rows'[i].entry = filled[i]
      BY <3>2, <2>1, <2>3 DEF LoopShape, Entry, Outcome
    <3> QED
      BY <3>1, <3>2, <2>1
  <2>5. OutcomeOfRealPrices'
    <3>1. ASSUME NEW j \in Ids, rows'[j].status \in Closed
          PROVE  \E y \in Executed(Order[j].symbol, "sell") :
                   rows'[j].status = Outcome(rows'[j].entry, filled[y])
      <4>1. CASE rows'[j] = rows[j]
        BY <3>1, <4>1 DEF LoopShape, OutcomeOfRealPrices
      <4>2. CASE rows'[j] # rows[j]
        <5>1. j = i /\ rows'[j].status = Outcome(rows'[j].entry, filled[x])
          BY <4>2, <2>2, <2>3
        <5>2. x \in Executed(Order[j].symbol, "sell")
          BY <5>1, <2>1, <2>2 DEF Executed, IsBuy
        <5> QED
          BY <5>1, <5>2
      <4> QED
        BY <4>1, <4>2
    <3>2. \A j \in told' : rows'[j].entry = filled'[j]
      BY <2>4
    <3>3. \A s : Executed(s, "sell")' = Executed(s, "sell")
      BY <2>1 DEF Executed
    <3> QED
      BY <3>1, <3>2, <3>3, <2>1 DEF OutcomeOfRealPrices, Outcome
  <2>6. \A j \in closing' : rows'[j].status = "open" /\ Order[j].symbol = Order[x].symbol
    BY <2>1, <2>2, <1>0 DEF LoopShape
  <2> QED
    BY <2>1, <2>4, <2>5, <2>6 DEF LoopShape
<1>17. ASSUME SaleDone PROVE LoopShape'
  <2>1. rows' = rows /\ told' = told /\ closing' = {} /\ pc' # "close"
    BY <1>17 DEF SaleDone, BusShape
  <2> QED
    BY <2>1, <1>0, <1>b, <1>c DEF LoopShape
<1>18. ASSUME HandleRaises PROVE LoopShape'
  <2>1. rows' = rows /\ told' = told /\ closing' = {} /\ pc' # "close"
    BY <1>18 DEF HandleRaises, BusShape
  <2> QED
    BY <2>1, <1>0, <1>b, <1>c DEF LoopShape
<1>19. ASSUME EndCycle PROVE LoopShape'
  <2>1. rows' = rows /\ told' = told /\ closing' = {} /\ pc' # "close"
    BY <1>19 DEF EndCycle, NoCycle, BusShape
  <2> QED
    BY <2>1, <1>0, <1>b, <1>c DEF LoopShape
<1>20. ASSUME NEW i \in pending, NEW p \in Prices, LateFill(i, p) PROVE LoopShape'
  <2>1. rows' = rows /\ told' = told /\ closing' = closing /\ pc' = pc /\ bus' = bus
    BY <1>20 DEF LateFill
  <2> QED
    BY <2>1, <1>c DEF LoopShape, IsBuy
<1>21. ASSUME Crash PROVE LoopShape'
  <2>1. rows' = rows /\ told' = told /\ closing' = {} /\ pc' # "close"
    BY <1>21 DEF Crash, NoCycle, BusShape
  <2> QED
    BY <2>1, <1>0, <1>b, <1>c DEF LoopShape
<1>22. ASSUME Restart PROVE LoopShape'
  <2>1. rows' = rows /\ told' = told /\ closing' = {} /\ pc' # "close"
    BY <1>22 DEF Restart, BusShape
  <2> QED
    BY <2>1, <1>0, <1>b, <1>c DEF LoopShape
<1>23. CASE UNCHANGED vars
  <2>1. rows' = rows /\ told' = told /\ closing' = closing /\ pc' = pc /\ bus' = bus
    BY <1>23 DEF vars
  <2> QED
    BY <2>1, <1>c DEF LoopShape, IsBuy
<1> QED
  BY PlanChoice, <1>1, <1>2, <1>3, <1>4, <1>5, <1>6, <1>7, <1>8, <1>9, <1>10, <1>11, <1>12, <1>13, <1>14, <1>15, <1>16, <1>17, <1>18, <1>19, <1>20, <1>21, <1>22, <1>23 DEF Next

-----------------------------------------------------------------------------
\* Every step keeps the whole invariant.
THEOREM StepInv == IInv /\ [Next]_vars => IInv'
BY TypeStep, BusStep, WaitingStep, FreshStep, OneFillStep, LoopStep DEF IInv

\* The phases of every cycle find on the bus only what the phase before left.
THEOREM Invariance == Spec => []IInv
BY InitInv, StepInv, PTL DEF Spec

\* The table, the topics and the broker keep their types, and the market topic
\* holds no more snapshots than cycles have failed, and one.
THEOREM TypeCorrect == Spec => []TypeOK
<1>1. IInv => TypeOK
  BY DEF IInv
<1> QED
  BY <1>1, Invariance, PTL

\* No exception and no crash leaves an intent, an approval or a fill for a
\* later cycle.
THEOREM NothingStaleHolds == Spec => []NothingStale
<1>1. IInv => NothingStale
  BY DEF IInv, BusShape, NothingStale
<1> QED
  BY <1>1, Invariance, PTL

\* A decision carries the regime and the price its own cycle saw, though
\* snapshots of failed cycles may come before it on the bus.
THEOREM DecidedOnFreshBarsHolds == Spec => []DecidedOnFreshBars
<1>1. IInv => DecidedOnFreshBars
  BY DEF IInv, Fresh, DecidedOnFreshBars
<1> QED
  BY <1>1, Invariance, PTL

\* A closed decision compares the price of its own fill, once that fill was
\* told, with the price of an executed sale of its symbol.
THEOREM OutcomeOfRealPricesHolds == Spec => []OutcomeOfRealPrices
<1>1. IInv => OutcomeOfRealPrices
  BY DEF IInv, LoopShape
<1> QED
  BY <1>1, Invariance, PTL

\* The table is written where a decision is new or open, and nowhere else.
LEMMA FinalRowsStay ==
  ASSUME IInv, [Next]_vars
  PROVE  \A i \in Ids : rows[i].status \in Closed \union {"skipped"} => rows'[i] = rows[i]
<1> DEFINE Stay == \A j \in Ids : rows[j].status \in Closed \union {"skipped"} => rows'[j] = rows[j]
<1>1. ASSUME NEW i \in todo, Record(i) PROVE Stay
  <2>1. i \in Ids /\ rows[i].status = "none"
    BY <1>1 DEF IInv, TypeOK, Fresh, Record
  <2>2. \A j \in Ids \ {i} : rows'[j] = rows[j]
    BY <1>1, <2>1 DEF IInv, TypeOK, Record
  <2> QED
    BY <2>1, <2>2 DEF Closed
<1>2. ASSUME HandleBuy PROVE Stay
  BY <1>2, HandleBuyFact DEF Closed
<1>3. ASSUME NEW i \in closing, Close(i) PROVE Stay
  <2>1. rows[i].status = "open"
    BY <1>3 DEF IInv, LoopShape
  <2>2. \A j \in Ids \ {i} : rows'[j] = rows[j]
    BY <1>3, CloseFact
  <2> QED
    BY <2>1, <2>2 DEF Closed
<1>4. CASE rows' = rows
  BY <1>4
<1> QED
  BY <1>1, <1>2, <1>3, <1>4
     DEF Next, vars, Ingest, Plan, PlanRaises, Evaluate, RecordRaises, Approve, Take,
         ExecuteFilled, ExecuteAccepted, ExecuteNothing, ExecuteRaises, Publish, HandleSale,
         SaleDone, HandleRaises, EndCycle, LateFill, Crash, Restart

\* No step writes over a decision that is closed or skipped.
THEOREM OutcomesStayHolds == Spec => OutcomesStay
<1>1. IInv /\ [Next]_vars =>
        [\A i \in Ids : rows[i].status \in Closed \union {"skipped"} => rows'[i] = rows[i]]_vars
  BY FinalRowsStay
<1> QED
  BY <1>1, Invariance, PTL DEF Spec, OutcomesStay

-----------------------------------------------------------------------------
(* The record behind a veto.  VetoHasEvidence is not inductive: a decision *)
(* is skipped for what the evaluation of its cycle found, and that must    *)
(* still be what the table says when the decision is recorded.             *)

\* The veto of a cycle is what its table says, a closed decision with a loss is
\* one, and what a sale closes are buys.
VetoIsCurrent == pc = "record" => vetoed = {c \in Combos : Vetoed(c)}
LossesAreTold == \A i \in Ids : rows[i].status \in Closed /\ rows[i].pnl < 0 => rows[i].status = "loss"
BuysAreClosed == \A i \in closing : IsBuy(i)

EvidenceInv == VetoIsCurrent /\ LossesAreTold /\ BuysAreClosed /\ VetoHasEvidence

Pnls == [i \in Ids |-> rows[i].pnl]

LEMMA SumOverFact ==
  ASSUME NEW f, NEW S
  PROVE  SumOver(f, S) = Sum(f, S)
BY DEF SumOver, Sum, FoldFunctionOnSet, MapThenFoldSet

LEMMA ClosedRowsFact ==
  ASSUME TypeOK, NEW c
  PROVE  ClosedRows(c) \subseteq Ids /\ IsFiniteSet(ClosedRows(c)) /\ Ints(Pnls, ClosedRows(c))
<1>1. ClosedRows(c) \subseteq Ids
  BY DEF ClosedRows
<1>2. IsFiniteSet(ClosedRows(c))
  BY <1>1, FS_Subset, FeedbackAssumption
<1>3. \A i \in Ids : rows[i].pnl \in Int
  BY DEF TypeOK, Row
<1> QED
  BY <1>1, <1>2, <1>3 DEF Pnls, Ints

\* A record that makes a veto has a loss in it: no sum of gains is negative.
LEMMA VetoNeedsLoss ==
  ASSUME TypeOK, LossesAreTold, NEW c, Vetoed(c)
  PROVE  \E j \in ClosedRows(c) : rows[j].status = "loss"
<1>1. Sum(Pnls, ClosedRows(c)) < 0
  BY SumOverFact DEF Vetoed, Pnl, Pnls
<1>2. PICK j \in ClosedRows(c) : Pnls[j] < 0
  BY <1>1, ClosedRowsFact, NegativeSum
<1> QED
  BY <1>2 DEF ClosedRows, Pnls, LossesAreTold

\* A record that is not written to makes the veto it made.
LEMMA SameRecord ==
  ASSUME TypeOK, TypeOK', NEW c,
         \A i \in ClosedRows(c) \union ClosedRows(c)' : rows'[i] = rows[i]
  PROVE  ClosedRows(c)' = ClosedRows(c) /\ Vetoed(c)' = Vetoed(c)
<1>1. ClosedRows(c)' = ClosedRows(c)
  BY DEF ClosedRows, Combo
<1>2. Sum(Pnls, ClosedRows(c)) = Sum(Pnls', ClosedRows(c))
  <2>1. \A i \in ClosedRows(c) : Pnls[i] = Pnls'[i]
    BY <1>1, ClosedRowsFact DEF Pnls
  <2> QED
    BY <2>1, ClosedRowsFact, SumSame
<1>3. \A S : Pnl(S) = Sum(Pnls, S)
  BY SumOverFact DEF Pnl, Pnls
<1>4. \A S : Pnl(S)' = Sum(Pnls', S)
  BY SumOverFact DEF Pnl, Pnls
<1> QED
  BY <1>1, <1>2, <1>3, <1>4 DEF Vetoed

\* Decisions that are closed stay so: the evidence of a combo only grows.
LEMMA EvidenceGrows ==
  ASSUME IInv, IInv', [Next]_vars, NEW c
  PROVE  /\ ClosedRows(c) \subseteq ClosedRows(c)'
         /\ Cardinality(ClosedRows(c)) \in Nat /\ Cardinality(ClosedRows(c)') \in Nat
         /\ Cardinality(ClosedRows(c)) <= Cardinality(ClosedRows(c)')
         /\ \A i \in ClosedRows(c) : rows'[i] = rows[i]
<1>1. \A i \in ClosedRows(c) : rows'[i] = rows[i]
  BY FinalRowsStay DEF ClosedRows
<1>2. ClosedRows(c) \subseteq ClosedRows(c)'
  BY <1>1 DEF ClosedRows, Combo
<1>3. TypeOK /\ TypeOK'
  BY DEF IInv
<1>4. ClosedRows(c)' \subseteq Ids /\ IsFiniteSet(ClosedRows(c)')
  BY FS_Subset, FeedbackAssumption DEF ClosedRows
<1>5. IsFiniteSet(ClosedRows(c))
  BY <1>3, ClosedRowsFact
<1> QED
  BY <1>1, <1>2, <1>4, <1>5, FS_Subset, FS_CardinalityType

\* What a step does to the table, seen from its outcomes: it leaves the statuses,
\* records one decision, or closes one.
LEMMA RowsStep ==
  ASSUME IInv, BuysAreClosed, [Next]_vars
  PROVE  \/ \A i \in Ids : /\ rows'[i].status = rows[i].status /\ rows'[i].pnl = rows[i].pnl
                           /\ rows'[i].regime = rows[i].regime
         \/ \E i \in todo : pc = "record" /\ Record(i)
         \/ \E i \in closing : pc = "close" /\ Close(i)
<1> DEFINE Same == \A i \in Ids : /\ rows'[i].status = rows[i].status /\ rows'[i].pnl = rows[i].pnl
                                  /\ rows'[i].regime = rows[i].regime
<1>1. ASSUME HandleBuy PROVE Same
  <2> DEFINE i == Head(bus.fills)
  <2>1. i \in Ids
    BY <1>1, HandleBuyFact
  <2>2. rows' = [rows EXCEPT ![i] = [rows[i] EXCEPT !.entry = filled[i]]] \/ rows' = rows
    BY <1>1 DEF HandleBuy, Fills
  <2>3. rows \in [Ids -> Row] /\ rows[i] \in Row
    BY <2>1 DEF IInv, TypeOK
  <2> DEFINE r == [rows[i] EXCEPT !.entry = filled[i]]
  <2>4. r.status = rows[i].status /\ r.pnl = rows[i].pnl /\ r.regime = rows[i].regime
    BY <2>3 DEF Row
  <2> HIDE DEF i, r
  <2> QED
    BY <2>1, <2>2, <2>3, <2>4 DEF r
<1>2. CASE rows' = rows
  BY <1>2
<1> QED
  BY <1>1, <1>2
     DEF Next, vars, Ingest, Plan, PlanRaises, Evaluate, Record, RecordRaises, Approve, Take,
         ExecuteFilled, ExecuteAccepted, ExecuteNothing, ExecuteRaises, Publish, HandleSale, Close,
         SaleDone, HandleRaises, EndCycle, LateFill, Crash, Restart

\* What recording a decision does: one row that was none is open or skipped.
LEMMA RecordFact ==
  ASSUME IInv, NEW i \in todo, Record(i)
  PROVE  /\ i \in Ids /\ rows[i].status = "none"
         /\ <<Order[i].strategy, rows'[i].regime>> \in Combos
         /\ \A j \in Ids \ {i} : rows'[j] = rows[j]
         /\ \/ rows'[i].status = "open" /\ <<Order[i].strategy, rows'[i].regime>> \notin vetoed
            \/ rows'[i].status = "skipped" /\ <<Order[i].strategy, rows'[i].regime>> \in vetoed
<1> DEFINE v == view[Order[i].symbol]
           st == IF Allowed(i) THEN "open" ELSE "skipped"
           r == [NoRow EXCEPT !.status = st, !.regime = v.regime, !.ref = v.price]
<1>1. i \in Ids /\ rows[i].status = "none"
  BY DEF IInv, TypeOK, Fresh, Record
<1>2. v \in Views /\ v.regime \in Regimes /\ v.price \in Prices \union {None}
  <2>1. view \in [Symbols -> Views] /\ Order[i].symbol \in Symbols
    BY <1>1, FeedbackAssumption DEF IInv, Fresh, Record
  <2>2. v \in Views
    BY <2>1
  <2> QED
    BY <2>2, FeedbackAssumption DEF Regimes
<1>3. rows' = [rows EXCEPT ![i] = r]
  BY DEF Record
<1>4. st \in Status
  BY DEF Status
<1>5. r.regime = v.regime /\ r.status = st
  <2> HIDE DEF v, st
  <2> QED
    BY DEF NoRow
<1>6. rows'[i] = r /\ \A j \in Ids \ {i} : rows'[j] = rows[j]
  <2> HIDE DEF r
  <2> QED
    BY <1>1, <1>3 DEF IInv, TypeOK
<1> HIDE DEF r
<1>7. rows'[i].regime = v.regime /\ rows'[i].status = st
  BY <1>5, <1>6
<1>8. <<Order[i].strategy, v.regime>> \in Combos
  BY <1>1, <1>2 DEF Combos, Strategies
<1> HIDE DEF v
<1> QED
  BY <1>1, <1>6, <1>7, <1>8 DEF Allowed, v

\* Outcomes are written by Close alone: otherwise the closed decisions of every
\* combo are the same.
LEMMA RecordUntouched ==
  ASSUME IInv, IInv', [Next]_vars, NEW c,
         \A i \in Ids : rows'[i].status \in Closed => rows[i].status \in Closed
  PROVE  ClosedRows(c)' = ClosedRows(c) /\ Vetoed(c)' = Vetoed(c)
<1>1. \A i \in ClosedRows(c) \union ClosedRows(c)' : rows'[i] = rows[i]
  BY FinalRowsStay DEF ClosedRows
<1> QED
  BY <1>1, SameRecord DEF IInv

\* The veto of a cycle is set by Evaluate, what a sale closes by HandleSale.
LEMMA CycleStep ==
  ASSUME [Next]_vars
  PROVE  /\ pc' = "record" => Evaluate \/ (pc = "record" /\ vetoed' = vetoed)
         /\ \A i \in closing' : i \in closing \/ IsBuy(i)
<1> DEFINE Vetoes == pc' = "record" => Evaluate \/ (pc = "record" /\ vetoed' = vetoed)
           Closes == \A i \in closing' : i \in closing \/ IsBuy(i)
<1>1. ASSUME NEW v \in [Symbols -> Views], Ingest(v) PROVE Vetoes /\ Closes
  BY <1>1 DEF Ingest, cycleVars
<1>2. ASSUME NEW S \in SUBSET (Ids \ planned), Plan(S) PROVE Vetoes /\ Closes
  BY <1>2 DEF Plan, cycleVars
<1>3. ASSUME PlanRaises PROVE Vetoes /\ Closes
  BY <1>3 DEF PlanRaises, cycleVars
<1>4. ASSUME Evaluate PROVE Vetoes /\ Closes
  BY <1>4 DEF Evaluate
<1>5. ASSUME NEW i \in todo, Record(i) PROVE Vetoes /\ Closes
  BY <1>5 DEF Record
<1>6. ASSUME RecordRaises PROVE Vetoes /\ Closes
  BY <1>6 DEF RecordRaises, NoCycle
<1>7. ASSUME Approve PROVE Vetoes /\ Closes
  BY <1>7 DEF Approve
<1>8. ASSUME Take PROVE Vetoes /\ Closes
  BY <1>8 DEF Take
<1>9. ASSUME NEW i \in todo, NEW p \in Prices, ExecuteFilled(i, p) PROVE Vetoes /\ Closes
  BY <1>9 DEF ExecuteFilled
<1>10. ASSUME NEW i \in todo, ExecuteAccepted(i) PROVE Vetoes /\ Closes
  BY <1>10 DEF ExecuteAccepted
<1>11. ASSUME NEW i \in todo, ExecuteNothing(i) PROVE Vetoes /\ Closes
  BY <1>11 DEF ExecuteNothing
<1>12. ASSUME NEW i \in todo, ExecuteRaises(i) PROVE Vetoes /\ Closes
  BY <1>12 DEF ExecuteRaises, NoCycle
<1>13. ASSUME Publish PROVE Vetoes /\ Closes
  BY <1>13 DEF Publish
<1>14. ASSUME HandleBuy PROVE Vetoes /\ Closes
  BY <1>14 DEF HandleBuy, cycleVars
<1>15. ASSUME HandleSale PROVE Vetoes /\ Closes
  BY <1>15 DEF HandleSale
<1>16. ASSUME NEW i \in closing, Close(i) PROVE Vetoes /\ Closes
  BY <1>16 DEF Close
<1>17. ASSUME SaleDone PROVE Vetoes /\ Closes
  BY <1>17 DEF SaleDone, cycleVars
<1>18. ASSUME HandleRaises PROVE Vetoes /\ Closes
  BY <1>18 DEF HandleRaises
<1>19. ASSUME EndCycle PROVE Vetoes /\ Closes
  BY <1>19 DEF EndCycle, NoCycle
<1>20. ASSUME NEW i \in pending, NEW p \in Prices, LateFill(i, p) PROVE Vetoes /\ Closes
  BY <1>20 DEF LateFill, cycleVars
<1>21. ASSUME Crash PROVE Vetoes /\ Closes
  BY <1>21 DEF Crash, NoCycle
<1>22. ASSUME Restart PROVE Vetoes /\ Closes
  BY <1>22 DEF Restart, cycleVars
<1>23. CASE UNCHANGED vars
  BY <1>23 DEF vars, cycleVars
<1> QED
  BY PlanChoice, <1>1, <1>2, <1>3, <1>4, <1>5, <1>6, <1>7, <1>8, <1>9, <1>10, <1>11, <1>12, <1>13, <1>14, <1>15, <1>16, <1>17, <1>18, <1>19, <1>20, <1>21, <1>22, <1>23
     DEF Next

LEMMA VetoIsCurrentStep ==
  ASSUME IInv, IInv', EvidenceInv, [Next]_vars
  PROVE  VetoIsCurrent'
<1> SUFFICES ASSUME pc' = "record" PROVE vetoed' = {c \in Combos : Vetoed(c)'}
  BY DEF VetoIsCurrent
<1>1. CASE Evaluate
  <2>1. rows' = rows /\ vetoed' = {c \in Combos : Vetoed(c)}
    BY <1>1 DEF Evaluate
  <2>2. \A c : Vetoed(c)' = Vetoed(c)
    BY <2>1, RecordUntouched
  <2> QED
    BY <2>1, <2>2
<1>2. CASE ~Evaluate
  <2>1. pc = "record" /\ vetoed' = vetoed
    BY <1>2, CycleStep
  <2>2. \A i \in Ids : rows'[i].status \in Closed => rows[i].status \in Closed
    <3>1. ASSUME NEW i \in todo, Record(i)
          PROVE  \A j \in Ids : rows'[j].status \in Closed => rows[j].status \in Closed
      BY <3>1, RecordFact DEF Closed
    <3> QED
      BY <2>1, <3>1, RowsStep DEF EvidenceInv
  <2>3. \A c : Vetoed(c)' = Vetoed(c)
    BY <2>2, RecordUntouched
  <2> QED
    BY <2>1, <2>3 DEF EvidenceInv, VetoIsCurrent
<1> QED
  BY <1>1, <1>2

\* A decision closed at a loss of money has the outcome of a loss.
LEMMA LossesAreToldStep ==
  ASSUME IInv, IInv', EvidenceInv, [Next]_vars
  PROVE  LossesAreTold'
<1>1. CASE \A i \in Ids : rows'[i].status = rows[i].status /\ rows'[i].pnl = rows[i].pnl
  BY <1>1 DEF EvidenceInv, LossesAreTold
<1>2. ASSUME NEW i \in todo, Record(i) PROVE LossesAreTold'
  BY <1>2, RecordFact DEF EvidenceInv, LossesAreTold, Closed
<1>3. ASSUME NEW i \in closing, Close(i) PROVE LossesAreTold'
  <2> DEFINE x == Head(bus.fills)
             e == Entry(rows[i])
  <2>1. i \in Ids /\ x \in Ids /\ filled[x] \in Prices /\ \A j \in Ids \ {i} : rows'[j] = rows[j]
    BY <1>3, CloseFact
  <2>2. e \in Prices \union {None} /\ qty[x] \in Nat
    BY <2>1 DEF IInv, TypeOK, Row, Entry
  <2>3. CASE e = None
    BY <1>3, <2>3 DEF Close, Fills, EvidenceInv, LossesAreTold
  <2>4. CASE e # None
    <3> DEFINE p == (filled[x] - e) * qty[x]
               r == [rows[i] EXCEPT !.status = Outcome(e, filled[x]), !.entry = e, !.pnl = p]
    <3>1. rows' = [rows EXCEPT ![i] = r]
      BY <1>3, <2>4 DEF Close, Fills
    <3>2. rows \in [Ids -> Row] /\ rows[i] \in Row
      BY <2>1 DEF IInv, TypeOK
    <3>3. r.status = Outcome(e, filled[x]) /\ r.pnl = p
      <4> HIDE DEF p, e, x
      <4> QED
        BY <3>2 DEF Row
    <3>4. rows'[i].status = Outcome(e, filled[x]) /\ rows'[i].pnl = p
      <4> HIDE DEF r
      <4> QED
        BY <2>1, <3>1, <3>2, <3>3
    <3>5. filled[x] \in Nat /\ e \in Nat
      <4>1. \A y \in Prices : y \in Nat
        BY FeedbackAssumption
      <4> HIDE DEF e, x
      <4> QED
        BY <2>1, <2>2, <2>4, <4>1
    <3>6. p < 0 => filled[x] < e
      <4> HIDE DEF e, x
      <4>1. ASSUME NEW a \in Nat, NEW b \in Nat, NEW q \in Nat, ~ (a < b) PROVE ~ ((a - b) * q < 0)
        <5>1. a - b \in Nat
          BY <4>1
        <5>2. \A m, n \in Nat : m * n \in Nat
          OBVIOUS
        <5> QED
          BY <5>1, <5>2
      <4> QED
        BY <2>2, <3>5, <4>1
    <3>7. rows'[i].pnl < 0 => rows'[i].status = "loss"
      <4>1. Outcome(e, filled[x]) = "loss" \/ ~ (filled[x] < e)
        <5> HIDE DEF e, x
        <5> QED
          BY <3>5 DEF Outcome
      <4> HIDE DEF e, x, p
      <4> QED
        BY <3>4, <3>6, <4>1
    <3> HIDE DEF e, x
    <3> QED
      BY <2>1, <3>7 DEF EvidenceInv, LossesAreTold
  <2> QED
    BY <2>3, <2>4
<1> QED
  BY <1>1, <1>2, <1>3, RowsStep DEF EvidenceInv

\* A sale takes hold of buys, and lets go of them.
LEMMA BuysAreClosedStep ==
  ASSUME BuysAreClosed, IInv, [Next]_vars
  PROVE  BuysAreClosed'
BY CycleStep DEF BuysAreClosed, IsBuy

LEMMA EvidenceStep ==
  ASSUME IInv, IInv', EvidenceInv, [Next]_vars
  PROVE  VetoHasEvidence'
<1> DEFINE Evidence(c) == /\ Cardinality(ClosedRows(c)) >= MinSamples
                          /\ \E j \in ClosedRows(c) : rows[j].status = "loss"
<1>1. ASSUME NEW c, Evidence(c)
      PROVE  /\ Cardinality(ClosedRows(c)') >= MinSamples
             /\ \E j \in ClosedRows(c)' : rows'[j].status = "loss"
  BY <1>1, EvidenceGrows, FeedbackAssumption
<1> SUFFICES ASSUME NEW i \in Ids, rows'[i].status = "skipped"
             PROVE  Evidence(<<Order[i].strategy, rows'[i].regime>>)
  BY <1>1 DEF VetoHasEvidence, Combo
<1>2. CASE rows[i].status = "skipped"
  <2>1. rows'[i] = rows[i]
    BY <1>2, FinalRowsStay
  <2> QED
    BY <1>2, <2>1 DEF EvidenceInv, VetoHasEvidence, Combo
<1>3. CASE rows[i].status # "skipped"
  <2>1. PICK k \in todo : pc = "record" /\ Record(k)
    <3>1. ASSUME NEW k \in closing, Close(k) PROVE FALSE
      BY <1>3, <3>1, CloseFact DEF Outcome
    <3> QED
      BY <1>3, <3>1, RowsStep DEF EvidenceInv
  <2>2. k = i
    BY <1>3, <2>1, RecordFact
  <2> DEFINE c == <<Order[i].strategy, rows'[i].regime>>
  <2>3. c \in vetoed
    BY <2>1, <2>2, RecordFact
  <2>4. Vetoed(c)
    BY <2>1, <2>3 DEF EvidenceInv, VetoIsCurrent
  <2>5. TypeOK /\ LossesAreTold
    BY DEF IInv, EvidenceInv
  <2> HIDE DEF c
  <2>6. Cardinality(ClosedRows(c)) >= MinSamples
    BY <2>4 DEF Vetoed
  <2>7. \E j \in ClosedRows(c) : rows[j].status = "loss"
    BY <2>4, <2>5, VetoNeedsLoss
  <2> QED
    BY <2>6, <2>7 DEF c
<1> QED
  BY <1>2, <1>3

THEOREM EvidenceInvariance == Spec => [](IInv /\ EvidenceInv)
<1>1. Init => IInv /\ EvidenceInv
  BY InitInv DEF Init, EvidenceInv, VetoIsCurrent, LossesAreTold, BuysAreClosed, VetoHasEvidence, NoRow, Closed
<1>2. (IInv /\ EvidenceInv) /\ [Next]_vars => (IInv /\ EvidenceInv)'
  BY StepInv, VetoIsCurrentStep, LossesAreToldStep, BuysAreClosedStep, EvidenceStep DEF EvidenceInv
<1> QED
  BY <1>1, <1>2, PTL DEF Spec

\* No decision is skipped for nothing: enough closed decisions of its strategy in
\* its regime are behind it, and one of them is a loss.
THEOREM VetoHasEvidenceHolds == Spec => []VetoHasEvidence
<1>1. EvidenceInv => VetoHasEvidence
  BY DEF EvidenceInv
<1> QED
  BY <1>1, EvidenceInvariance, PTL

\* A combo that is vetoed and has no open buy can neither close a decision nor
\* open one: its record, and so its veto, stays what it is.
LEMMA TrappedStays ==
  ASSUME IInv, IInv', EvidenceInv, [Next]_vars, NEW c \in Combos, Trapped(c)
  PROVE  Trapped(c)'
<1> DEFINE NoOpenBuy == \A i \in Ids : IsBuy(i) /\ rows[i].status = "open" => Combo(i) # c
<1>1. Vetoed(c) /\ NoOpenBuy
  BY DEF Trapped
<1>2. CASE \A i \in Ids : rows'[i].status = rows[i].status /\ rows'[i].regime = rows[i].regime
  <2>1. Vetoed(c)'
    BY <1>1, <1>2, RecordUntouched
  <2> QED
    BY <1>1, <1>2, <2>1 DEF Trapped, IsBuy, Combo
<1>3. ASSUME NEW i \in todo, pc = "record", Record(i) PROVE Trapped(c)'
  <2>1. Vetoed(c)'
    <3>1. \A j \in Ids : rows'[j].status \in Closed => rows[j].status \in Closed
      BY <1>3, RecordFact DEF Closed
    <3> QED
      BY <1>1, <3>1, RecordUntouched
  <2>2. c \in vetoed
    BY <1>1, <1>3 DEF EvidenceInv, VetoIsCurrent
  <2>3. ASSUME NEW j \in Ids, rows'[j].status = "open"
        PROVE  \/ rows[j].status = "open" /\ Combo(j)' = Combo(j)
               \/ Combo(j)' # c
    BY <1>3, <2>2, <2>3, RecordFact DEF Combo
  <2> QED
    BY <1>1, <2>1, <2>3 DEF Trapped, IsBuy
<1>4. ASSUME NEW i \in closing, Close(i) PROVE Trapped(c)'
  <2>1. i \in Ids /\ \A j \in Ids \ {i} : rows'[j] = rows[j]
    BY <1>4, CloseFact
  <2>2. CASE rows' = rows
    BY <1>2, <2>2
  <2>3. CASE rows' # rows
    <3>1. rows'[i].status \in Closed /\ rows'[i].regime = rows[i].regime
      BY <1>4, <2>3, CloseFact DEF Outcome, Closed
    <3>2. rows[i].status = "open" /\ IsBuy(i)
      BY <1>4 DEF EvidenceInv, BuysAreClosed, IInv, LoopShape
    <3>3. Combo(i) # c /\ Combo(i)' # c
      BY <1>1, <2>1, <3>1, <3>2 DEF Combo
    <3>4. i \notin ClosedRows(c) \union ClosedRows(c)'
      BY <3>3 DEF ClosedRows
    <3>5. \A j \in ClosedRows(c) \union ClosedRows(c)' : rows'[j] = rows[j]
      BY <2>1, <3>4 DEF ClosedRows
    <3>6. Vetoed(c)'
      BY <1>1, <3>5, SameRecord DEF IInv
    <3>7. \A j \in Ids : rows'[j].status = "open" => rows[j].status = "open" /\ Combo(j)' = Combo(j)
      BY <2>1, <3>1 DEF Combo, Closed
    <3> QED
      BY <1>1, <3>6, <3>7 DEF Trapped, IsBuy
  <2> QED
    BY <2>2, <2>3
<1> QED
  BY <1>2, <1>3, <1>4, RowsStep DEF EvidenceInv

\* The veto of such a combo is never lifted.
THEOREM VetoIsForeverHolds == Spec => VetoIsForever
<1>1. (IInv /\ EvidenceInv) /\ (IInv /\ EvidenceInv)' /\ [Next]_vars =>
        [\A c \in Combos : Trapped(c) => Trapped(c)']_vars
  BY TrappedStays
<1> QED
  BY <1>1, EvidenceInvariance, PTL DEF Spec, VetoIsForever
=============================================================================
