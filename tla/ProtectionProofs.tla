-------------------------- MODULE ProtectionProofs --------------------------
(***************************************************************************)
(* Machine-checked proofs about Protection, for any symbols, wheels,       *)
(* strikes and cash, and any number of events, failing reads, lost orders, *)
(* exceptions and crashes.                                                 *)
(***************************************************************************)
EXTENDS Protection, SequenceTheorems, FoldLemmas

-----------------------------------------------------------------------------
(* The inductive invariant *)

\* The wheel hands its legs over at the end of its evaluation, and only then
\* are there stops and legs to execute together.
LegsShape ==
  /\ pc # "wheel" => legs = {}
  /\ pc \in {"idle", "orders", "positions", "down"} => intents = {}
  /\ \A i \in legs : i.kind \in Leg
  /\ pc # "execute" => \A i \in intents : i.kind = "stop"

\* A symbol that was read as uncovered, or has a stop on its way, has no stop
\* but those that failed reads account for; it has one stop on its way.
StopOnce ==
  /\ OneStopPerLong
  /\ blind <= faults
  /\ pc = "positions" => \A s \in Symbols \ covered : Len(stops[s]) <= blind
  /\ \A i \in intents : i.kind = "stop" =>
       /\ Len(stops[i.symbol]) <= blind
       /\ \A j \in intents : j.kind = "stop" /\ j.symbol = i.symbol => j = i

\* A leg on its way is marked, whole, and was never sold before.
LegOnce ==
  /\ LegsSoldOnce
  /\ \A i \in legs \union intents : i.kind \in Leg =>
       /\ i.symbol \in Wheeled /\ i.qty = Contracts[i.symbol]
       /\ <<i.kind, i.symbol>> \in marks
       /\ sold[i.kind][i.symbol] = 0
  /\ \A l \in Leg, s \in Wheeled : <<l, s>> \notin marks => sold[l][s] = 0

\* Calls that are open or on their way are those that were sold, or will be,
\* over shares that have not left but by a stop or a sale elsewhere.
CallBacked ==
  /\ CallsCovered
  /\ \A s \in Symbols : calls[s] <= sold["call"][s]
  /\ \A i \in legs \union intents : i.kind = "call" =>
       Contracts[i.symbol] <= held[i.symbol] + gone[i.symbol]

\* Cash leaves for shares only, and what is there secures every put that is
\* open, on its way, or still to be decided, each at its target strike.
PutsAtTarget == \A s \in Wheeled : puts[s] > 0 => Target[s] <= cash + spent[s]
PutSecured ==
  /\ PutsAtTarget
  /\ \A s \in Symbols : puts[s] <= sold["put"][s]
  /\ pc = "wheel" => \A s \in todo : <<"put", s>> \notin marks => funds <= cash + spent[s]
  /\ \A i \in legs \union intents : i.kind = "put" =>
       Target[i.symbol] <= cash + spent[i.symbol]

IInv ==
  /\ TypeOK
  /\ LegsShape
  /\ StopOnce
  /\ LegOnce
  /\ CallBacked
  /\ PutSecured

-----------------------------------------------------------------------------
(* Data *)

\* A kind and a symbol tell two legs apart, since a leg is always whole.
LEMMA IntentFact ==
  ASSUME NEW i \in Intent
  PROVE  /\ i.symbol \in Symbols /\ i.qty \in Nat \ {0}
         /\ i.kind \in Leg \union {"stop"}
         /\ i = [kind |-> i.kind, symbol |-> i.symbol, qty |-> i.qty]
  BY DEF Intent

\* A stop that is executed leaves one stop less.
LEMMA RemoveFact ==
  ASSUME NEW q \in Seq(Nat \ {0}), NEW k \in DOMAIN q
  PROVE  /\ q[k] \in Nat \ {0}
         /\ RemoveAt(q, k) \in Seq(Nat \ {0})
         /\ Len(RemoveAt(q, k)) <= Len(q)
         /\ Len(RemoveAt(q, k)) \in Nat
<1> DEFINE T == Nat \ {0}
<1>0. q \in Seq(T) /\ Len(q) \in Nat /\ k \in 1..Len(q) /\ q[k] \in T
  OBVIOUS
<1> HIDE DEF T
<1>1. SubSeq(q, 1, k - 1) \in Seq(T) /\ Len(SubSeq(q, 1, k - 1)) = k - 1
  BY <1>0, SubSeqProperties
<1>2. SubSeq(q, k + 1, Len(q)) \in Seq(T) /\ Len(SubSeq(q, k + 1, Len(q))) = Len(q) - k
  BY <1>0, SubSeqProperties, SMTT(20)
<1>3. /\ RemoveAt(q, k) \in Seq(T)
      /\ Len(RemoveAt(q, k)) = (k - 1) + (Len(q) - k)
  BY <1>1, <1>2, ConcatProperties, SMTT(20) DEF RemoveAt
<1> QED
  BY <1>0, <1>3 DEF T

\* Adding keeps an order.
LEMMA AddFact ==
  ASSUME NEW m \in Int, NEW n \in Int, NEW d \in Int, m <= n
  PROVE  m + d <= n + d
  OBVIOUS

-----------------------------------------------------------------------------
THEOREM InitInv == Init => IInv
<1> SUFFICES ASSUME Init PROVE IInv
  OBVIOUS
<1> USE ProtectionAssumption DEF Init, Leg
<1>1. TypeOK
  BY DEF TypeOK
<1>2. LegsShape /\ StopOnce
  BY DEF LegsShape, StopOnce, OneStopPerLong
<1>3. LegOnce /\ CallBacked /\ PutSecured
  BY DEF LegOnce, LegsSoldOnce, CallBacked, CallsCovered, PutSecured, PutsAtTarget
<1> QED
  BY <1>1, <1>2, <1>3 DEF IInv

-----------------------------------------------------------------------------
\* What the execution of a leg adds, and where.
LEMMA ExecuteLegFact ==
  ASSUME TypeOK, NEW i \in intents, ExecuteLeg(i)
  PROVE  /\ i.symbol \in Symbols /\ i.kind \in Leg /\ i.qty \in Nat \ {0}
         /\ \A l \in Leg, s \in Symbols :
              sold'[l][s] = IF l = i.kind /\ s = i.symbol THEN sold[l][s] + i.qty
                                                          ELSE sold[l][s]
         /\ \A s \in Symbols :
              puts'[s] = IF i.kind = "put" /\ s = i.symbol THEN puts[s] + i.qty ELSE puts[s]
         /\ \A s \in Symbols :
              calls'[s] = IF i.kind = "call" /\ s = i.symbol THEN calls[s] + i.qty
                                                             ELSE calls[s]
<1>1. i.symbol \in Symbols /\ i.kind \in Leg /\ i.qty \in Nat \ {0}
  BY IntentFact DEF TypeOK, ExecuteLeg
<1>2. \A l \in Leg, s \in Symbols :
        sold'[l][s] = IF l = i.kind /\ s = i.symbol THEN sold[l][s] + i.qty ELSE sold[l][s]
  <2> DEFINE row == [sold[i.kind] EXCEPT ![i.symbol] = sold[i.kind][i.symbol] + i.qty]
  <2>1. sold' = [sold EXCEPT ![i.kind] = row]
    BY <1>1 DEF TypeOK, ExecuteLeg
  <2>2. \A s \in Symbols :
          row[s] = IF s = i.symbol THEN sold[i.kind][s] + i.qty ELSE sold[i.kind][s]
    BY <1>1 DEF TypeOK
  <2> HIDE DEF row
  <2> QED
    BY <1>1, <2>1, <2>2 DEF TypeOK
<1>3. CASE i.kind = "put"
  <2>1. puts' = [puts EXCEPT ![i.symbol] = puts[i.symbol] + i.qty] /\ calls' = calls
    BY <1>3 DEF ExecuteLeg
  <2> QED
    BY <1>1, <1>2, <1>3, <2>1 DEF TypeOK
<1>4. CASE i.kind = "call"
  <2>1. calls' = [calls EXCEPT ![i.symbol] = calls[i.symbol] + i.qty] /\ puts' = puts
    BY <1>4 DEF ExecuteLeg
  <2> QED
    BY <1>1, <1>2, <1>4, <2>1 DEF TypeOK
<1> QED
  BY <1>1, <1>3, <1>4 DEF Leg

\* Visiting a wheel sells one leg, which was not sold before: a call over
\* shares, from which what left is counted anew, or a put over cash.
LEMMA VisitSellsFact ==
  ASSUME NEW s \in Wheeled, VisitSells(s)
  PROVE  \E l \in Leg : /\ Sell(l, s)
                        /\ l = "call" => EnoughShares(s) /\ gone' = [gone EXCEPT ![s] = 0]
                        /\ l = "put" => Secured(s) /\ gone' = gone
<1>1. CASE EnoughShares(s)
  <2>1. Sell("call", s) /\ gone' = [gone EXCEPT ![s] = 0]
    BY <1>1 DEF VisitSells
  <2> QED
    BY <1>1, <2>1 DEF Leg
<1>2. CASE ~EnoughShares(s)
  <2>1. Sell("put", s) /\ Secured(s) /\ gone' = gone
    BY <1>2 DEF VisitSells
  <2> QED
    BY <2>1 DEF Leg
<1> QED
  BY <1>1, <1>2

\* A stop that is executed turns shares held into shares gone, brings cash,
\* and leaves no symbol with more stops.
LEMMA TriggerFact ==
  ASSUME TypeOK, NEW s \in Symbols, NEW k \in DOMAIN stops[s], Trigger(s, k)
  PROVE  /\ \A x \in Symbols : held'[x] + gone'[x] = held[x] + gone[x]
         /\ \A x \in Symbols : Len(stops'[x]) <= Len(stops[x]) /\ Len(stops'[x]) \in Nat
         /\ cash <= cash'
<1> USE ProtectionAssumption
<1> DEFINE n == stops[s][k]
<1>1. n \in Nat /\ Len(RemoveAt(stops[s], k)) <= Len(stops[s])
               /\ Len(RemoveAt(stops[s], k)) \in Nat
  BY RemoveFact DEF TypeOK
<1>2. /\ held' = [held EXCEPT ![s] = held[s] - n]
      /\ gone' = [gone EXCEPT ![s] = gone[s] + n]
      /\ stops' = [stops EXCEPT ![s] = RemoveAt(stops[s], k)]
      /\ cash' = cash + n * Worth[s]
  BY DEF Trigger
<1> HIDE DEF n
<1>3. \A x \in Symbols : held'[x] + gone'[x] = held[x] + gone[x]
  BY <1>1, <1>2 DEF TypeOK
<1>4. \A x \in Symbols : Len(stops'[x]) <= Len(stops[x]) /\ Len(stops'[x]) \in Nat
  <2>1. \A x \in Symbols : Len(stops[x]) \in Nat
    BY DEF TypeOK
  <2> QED
    BY <1>1, <1>2, <2>1 DEF TypeOK
<1>5. n * Worth[s] \in Nat
  BY <1>1
<1> QED
  BY <1>2, <1>3, <1>4, <1>5 DEF TypeOK

-----------------------------------------------------------------------------
\* Every step keeps the types.
LEMMA TypeStep ==
  ASSUME IInv, [Next]_vars
  PROVE  TypeOK'
<1> USE ProtectionAssumption
<1> USE DEF brokerVars, cycleVars, positionHistory, historyVars, IInv, Fault, NoCycle, Event
<1>1. ASSUME Begin PROVE TypeOK'
  BY <1>1 DEF TypeOK, Begin
<1>2. ASSUME ReadOrders PROVE TypeOK'
  BY <1>2 DEF TypeOK, ReadOrders
<1>3. ASSUME ReadOrdersFails PROVE TypeOK'
  BY <1>3, SMTT(20) DEF TypeOK, StopOnce, ReadOrdersFails
<1>4. ASSUME PlaceStops PROVE TypeOK'
  <2>1. intents' \subseteq Intent
    BY <1>4 DEF TypeOK, PlaceStops, Uncovered, Stop, Intent
  <2>2. twice' \subseteq Symbols /\ drift' \in [Symbols -> Int]
    BY <1>4 DEF TypeOK, PlaceStops, Uncovered
  <2> QED
    BY <1>4, <2>1, <2>2 DEF TypeOK, PlaceStops
<1>5. ASSUME ReadPositionsFails PROVE TypeOK'
  BY <1>5, SMTT(20) DEF TypeOK, ReadPositionsFails
<1>6. ASSUME ReadAccount PROVE TypeOK'
  BY <1>6 DEF TypeOK, ReadAccount
<1>7. ASSUME LevelTooLow PROVE TypeOK'
  BY <1>7 DEF TypeOK, LevelTooLow
<1>8. ASSUME NEW s \in Wheeled, VisitSells(s) PROVE TypeOK'
  <2>1. s \in Symbols /\ Contracts[s] \in Nat \ {0}
    OBVIOUS
  <2>2. ASSUME NEW l \in Leg, Sell(l, s)
        PROVE  marks' \subseteq Leg \X Wheeled /\ legs' \subseteq Intent
    BY <2>1, <2>2 DEF TypeOK, Sell, Intent
  <2>3. marks' \subseteq Leg \X Wheeled /\ legs' \subseteq Intent
    BY <1>8, <2>2 DEF VisitSells, Leg
  <2>4. gone' \in [Symbols -> Nat]
    <3>1. gone' = gone \/ gone' = [gone EXCEPT ![s] = 0]
      BY <1>8, VisitSellsFact, Zenon DEF Leg
    <3>2. gone \in [Symbols -> Nat]
      BY DEF TypeOK
    <3> QED
      BY <3>1, <3>2
  <2> QED
    BY <1>8, <2>3, <2>4 DEF TypeOK, VisitSells, Visit
<1>9. ASSUME NEW s \in Wheeled, VisitSkips(s) PROVE TypeOK'
  BY <1>9 DEF TypeOK, VisitSkips, Visit
<1>10. ASSUME WheelRaises PROVE TypeOK'
  BY <1>10, SMTT(20) DEF TypeOK, WheelRaises
<1>11. ASSUME Hand PROVE TypeOK'
  BY <1>11 DEF TypeOK, Hand
<1>12. ASSUME NEW i \in intents, ExecuteStop(i) PROVE TypeOK'
  <2>1. i.symbol \in Symbols /\ i.qty \in Nat \ {0}
    BY IntentFact DEF TypeOK
  <2>2. stops' \in [Symbols -> Seq(Nat \ {0})]
    <3>1. Append(stops[i.symbol], i.qty) \in Seq(Nat \ {0})
      BY <2>1 DEF TypeOK
    <3> QED
      BY <1>12, <2>1, <3>1 DEF TypeOK, ExecuteStop
  <2> QED
    BY <1>12, <2>2 DEF TypeOK, ExecuteStop
<1>13. ASSUME NEW i \in intents, ExecuteLeg(i) PROVE TypeOK'
  <2>1. i.symbol \in Symbols /\ i.qty \in Nat /\ i.kind \in Leg
    BY <1>13, IntentFact DEF TypeOK, ExecuteLeg
  <2>2. puts' \in [Symbols -> Nat] /\ calls' \in [Symbols -> Nat]
    <3>1. CASE i.kind = "put"
      <4>1. /\ puts' = [puts EXCEPT ![i.symbol] = puts[i.symbol] + i.qty]
            /\ calls' = calls
        BY <1>13, <3>1 DEF ExecuteLeg
      <4>2. puts \in [Symbols -> Nat] /\ calls \in [Symbols -> Nat]
        BY DEF TypeOK
      <4>3. puts[i.symbol] + i.qty \in Nat
        BY <2>1, <4>2
      <4> QED
        BY <2>1, <4>1, <4>2, <4>3
    <3>2. CASE i.kind # "put"
      <4>1. /\ calls' = [calls EXCEPT ![i.symbol] = calls[i.symbol] + i.qty]
            /\ puts' = puts
        BY <1>13, <3>2 DEF ExecuteLeg
      <4>2. puts \in [Symbols -> Nat] /\ calls \in [Symbols -> Nat]
        BY DEF TypeOK
      <4>3. calls[i.symbol] + i.qty \in Nat
        BY <2>1, <4>2
      <4> QED
        BY <2>1, <4>1, <4>2, <4>3
    <3> QED
      BY <3>1, <3>2
  <2>3. sold' \in [Leg -> [Symbols -> Nat]]
    <3> DEFINE row == [sold[i.kind] EXCEPT ![i.symbol] = sold[i.kind][i.symbol] + i.qty]
    <3>1. sold[i.kind] \in [Symbols -> Nat]
      BY <2>1 DEF TypeOK
    <3>2. row \in [Symbols -> Nat]
      BY <2>1, <3>1
    <3>3. sold' = [sold EXCEPT ![i.kind] = row]
      BY <1>13, <2>1 DEF TypeOK, ExecuteLeg
    <3> HIDE DEF row
    <3> QED
      BY <2>1, <3>2, <3>3 DEF TypeOK
  <2> QED
    BY <1>13, <2>2, <2>3 DEF TypeOK, ExecuteLeg
<1>14. ASSUME NEW i \in intents, Lose(i) PROVE TypeOK'
  BY <1>14 DEF TypeOK, Lose
<1>15. ASSUME EndCycle PROVE TypeOK'
  BY <1>15 DEF TypeOK, EndCycle
<1>16. ASSUME Crash PROVE TypeOK'
  <2>1. faults' \in 0..MaxFaults
    BY <1>16 DEF TypeOK, Crash
  <2> QED
    BY <1>16, <2>1 DEF TypeOK, Crash
<1>17. ASSUME Restart PROVE TypeOK'
  BY <1>17 DEF TypeOK, Restart
<1>18. ASSUME NEW s \in Symbols, NEW k \in DOMAIN stops[s], Trigger(s, k) PROVE TypeOK'
  <2>1. stops[s] \in Seq(Nat \ {0})
    BY DEF TypeOK
  <2>2. stops[s][k] \in Nat /\ RemoveAt(stops[s], k) \in Seq(Nat \ {0})
    BY <2>1, RemoveFact
  <2>3. held' \in [Symbols -> Int]
    BY <1>18, <2>2, SMTT(20) DEF TypeOK, Trigger
  <2>4. gone' \in [Symbols -> Nat]
    BY <1>18, <2>2, SMTT(20) DEF TypeOK, Trigger
  <2>5. stops' \in [Symbols -> Seq(Nat \ {0})]
    BY <1>18, <2>2 DEF TypeOK, Trigger
  <2>6. cash' \in Int
    <3>1. stops[s][k] * Worth[s] \in Int
      BY <2>2
    <3> QED
      BY <1>18, <3>1 DEF TypeOK, Trigger
  <2>7. /\ UNCHANGED <<marks, pc, covered, funds, todo, legs, intents, blind, twice, sold, faults>>
        /\ events' \in 0..MaxEvents
    BY <1>18 DEF TypeOK, Trigger
  <2> QED
    BY <1>18, <2>3, <2>4, <2>5, <2>6, <2>7 DEF TypeOK, Trigger
<1>19. ASSUME NEW s \in Symbols, PutAssigned(s) PROVE TypeOK'
  <2>1. s \in Wheeled /\ Strike[s] \in Nat
    <3>1. puts[s] \in Nat /\ puts[s] <= sold["put"][s] /\ puts[s] > 0
      BY <1>19 DEF TypeOK, PutSecured, PutAssigned
    <3>2. s \notin Wheeled => sold["put"][s] = 0
      BY DEF LegOnce, LegsSoldOnce, Leg
    <3>3. s \in Wheeled
      BY <3>1, <3>2
    <3> QED
      BY <3>3
  <2>2. held' \in [Symbols -> Int] /\ drift' \in [Symbols -> Int]
    BY <1>19, SMTT(20) DEF TypeOK, PutAssigned, Drifts
  <2>3. cash' \in Int /\ spent' \in [Symbols -> Nat]
    <3>1. cash \in Int /\ spent \in [Symbols -> Nat]
      BY DEF TypeOK
    <3> QED
      BY <1>19, <2>1, <3>1 DEF PutAssigned, Pays
  <2>4. /\ UNCHANGED <<marks, pc, covered, funds, todo, legs, intents, blind, twice, sold, faults>>
        /\ events' \in 0..MaxEvents
    BY <1>19 DEF TypeOK, PutAssigned
  <2> QED
    BY <1>19, <2>2, <2>3, <2>4 DEF TypeOK, PutAssigned
<1>20. ASSUME NEW s \in Symbols, CallAssigned(s) PROVE TypeOK'
  <2>1. calls[s] \in Nat /\ calls[s] * Worth[s] \in Int
    BY DEF TypeOK
  <2>2. held' \in [Symbols -> Int]
    BY <1>20, <2>1, SMTT(20) DEF TypeOK, CallAssigned
  <2>3. drift' \in [Symbols -> Int]
    BY <1>20, <2>1, SMTT(20) DEF TypeOK, CallAssigned, Drifts
  <2>4. calls' \in [Symbols -> Nat] /\ cash' \in Int
    BY <1>20, <2>1, SMTT(20) DEF TypeOK, CallAssigned
  <2>5. /\ UNCHANGED <<marks, pc, covered, funds, todo, legs, intents, blind, twice, sold, faults>>
        /\ events' \in 0..MaxEvents
    BY <1>20 DEF TypeOK, CallAssigned
  <2> QED
    BY <1>20, <2>2, <2>3, <2>4, <2>5 DEF TypeOK, CallAssigned
<1>21. ASSUME NEW s \in Symbols, Expire(s) PROVE TypeOK'
  <2>1. puts' \in [Symbols -> Nat]
    BY <1>21 DEF TypeOK, Expire
  <2>2. calls' \in [Symbols -> Nat]
    BY <1>21 DEF TypeOK, Expire
  <2>3. /\ UNCHANGED <<marks, pc, covered, funds, todo, legs, intents, blind, twice, sold, faults>>
        /\ events' \in 0..MaxEvents
    BY <1>21 DEF TypeOK, Expire
  <2> QED
    BY <1>21, <2>1, <2>2, <2>3 DEF TypeOK, Expire
<1>22. ASSUME NEW s \in Symbols, BuyElsewhere(s) PROVE TypeOK'
  <2>1. held' \in [Symbols -> Int] /\ drift' \in [Symbols -> Int]
    BY <1>22 DEF TypeOK, BuyElsewhere, Drifts
  <2>2. cash' \in Int /\ spent' \in [Symbols -> Nat]
    <3>1. cash \in Int /\ spent \in [Symbols -> Nat] /\ Worth[s] \in Nat
      BY DEF TypeOK
    <3> QED
      BY <1>22, <3>1 DEF BuyElsewhere, Pays
  <2>3. /\ UNCHANGED <<marks, pc, covered, funds, todo, legs, intents, blind, twice, sold, faults>>
        /\ events' \in 0..MaxEvents
    BY <1>22 DEF TypeOK, BuyElsewhere
  <2> QED
    BY <1>22, <2>1, <2>2, <2>3 DEF TypeOK, BuyElsewhere
<1>23. ASSUME NEW s \in Symbols, SellElsewhere(s) PROVE TypeOK'
  <2>1. held' \in [Symbols -> Int]
    BY <1>23 DEF TypeOK, SellElsewhere
  <2>2. cash' \in Int
    BY <1>23 DEF TypeOK, SellElsewhere
  <2>3. gone' \in [Symbols -> Nat] /\ drift' \in [Symbols -> Int]
    BY <1>23, SMTT(20) DEF TypeOK, SellElsewhere, Drifts
  <2>4. /\ UNCHANGED <<marks, pc, covered, funds, todo, legs, intents, blind, twice, sold, faults>>
        /\ events' \in 0..MaxEvents
    BY <1>23 DEF TypeOK, SellElsewhere
  <2> QED
    BY <1>23, <2>1, <2>2, <2>3, <2>4 DEF TypeOK, SellElsewhere
<1>24. CASE UNCHANGED vars
  BY <1>24 DEF TypeOK, vars
<1> QED
  BY <1>1, <1>2, <1>3, <1>4, <1>5, <1>6, <1>7, <1>8, <1>9, <1>10, <1>11, <1>12,
     <1>13, <1>14, <1>15, <1>16, <1>17, <1>18, <1>19, <1>20, <1>21, <1>22, <1>23, <1>24
  DEF Next, Process

\* Every step keeps the legs with the wheel until they are handed over.
LEMMA LegsShapeStep ==
  ASSUME IInv, [Next]_vars
  PROVE  LegsShape'
<1> USE ProtectionAssumption
<1> USE DEF brokerVars, cycleVars, positionHistory, historyVars, IInv, Fault, NoCycle, Event
<1>1. ASSUME Begin PROVE LegsShape'
  BY <1>1 DEF TypeOK, LegsShape, Begin
<1>2. ASSUME ReadOrders PROVE LegsShape'
  BY <1>2 DEF TypeOK, LegsShape, ReadOrders
<1>3. ASSUME ReadOrdersFails PROVE LegsShape'
  BY <1>3 DEF TypeOK, LegsShape, ReadOrdersFails
<1>4. ASSUME PlaceStops PROVE LegsShape'
  BY <1>4 DEF TypeOK, LegsShape, PlaceStops, Stop
<1>5. ASSUME ReadPositionsFails PROVE LegsShape'
  BY <1>5 DEF TypeOK, LegsShape, ReadPositionsFails
<1>6. ASSUME ReadAccount PROVE LegsShape'
  BY <1>6 DEF TypeOK, LegsShape, ReadAccount
<1>7. ASSUME LevelTooLow PROVE LegsShape'
  BY <1>7 DEF TypeOK, LegsShape, LevelTooLow
<1>8. ASSUME NEW s \in Wheeled, VisitSells(s) PROVE LegsShape'
  <2>1. PICK l \in Leg : Sell(l, s)
    BY <1>8, VisitSellsFact
  <2>2. pc = "wheel" /\ pc' = pc /\ intents' = intents
    BY <1>8 DEF VisitSells, Visit
  <2>3. \A i \in legs' : i.kind \in Leg
    BY <2>1 DEF LegsShape, Sell
  <2> QED
    BY <2>2, <2>3 DEF LegsShape
<1>9. ASSUME NEW s \in Wheeled, VisitSkips(s) PROVE LegsShape'
  BY <1>9 DEF TypeOK, LegsShape, VisitSkips, Visit
<1>10. ASSUME WheelRaises PROVE LegsShape'
  BY <1>10 DEF TypeOK, LegsShape, WheelRaises
<1>11. ASSUME Hand PROVE LegsShape'
  BY <1>11 DEF TypeOK, LegsShape, Hand
<1>12. ASSUME NEW i \in intents, ExecuteStop(i) PROVE LegsShape'
  BY <1>12 DEF TypeOK, LegsShape, ExecuteStop
<1>13. ASSUME NEW i \in intents, ExecuteLeg(i) PROVE LegsShape'
  BY <1>13 DEF TypeOK, LegsShape, ExecuteLeg
<1>14. ASSUME NEW i \in intents, Lose(i) PROVE LegsShape'
  BY <1>14 DEF TypeOK, LegsShape, Lose
<1>15. ASSUME EndCycle PROVE LegsShape'
  BY <1>15 DEF TypeOK, LegsShape, EndCycle
<1>16. ASSUME Crash PROVE LegsShape'
  BY <1>16 DEF TypeOK, LegsShape, Crash
<1>17. ASSUME Restart PROVE LegsShape'
  BY <1>17 DEF TypeOK, LegsShape, Restart
<1>18. ASSUME NEW s \in Symbols, NEW k \in DOMAIN stops[s], Trigger(s, k) PROVE LegsShape'
  BY <1>18 DEF LegsShape, Trigger
<1>19. ASSUME NEW s \in Symbols, PutAssigned(s) PROVE LegsShape'
  BY <1>19 DEF TypeOK, LegsShape, PutAssigned
<1>20. ASSUME NEW s \in Symbols, CallAssigned(s) PROVE LegsShape'
  BY <1>20 DEF TypeOK, LegsShape, CallAssigned
<1>21. ASSUME NEW s \in Symbols, Expire(s) PROVE LegsShape'
  BY <1>21 DEF TypeOK, LegsShape, Expire
<1>22. ASSUME NEW s \in Symbols, BuyElsewhere(s) PROVE LegsShape'
  BY <1>22 DEF TypeOK, LegsShape, BuyElsewhere
<1>23. ASSUME NEW s \in Symbols, SellElsewhere(s) PROVE LegsShape'
  BY <1>23 DEF TypeOK, LegsShape, SellElsewhere
<1>24. CASE UNCHANGED vars
  BY <1>24 DEF TypeOK, LegsShape, vars
<1> QED
  BY <1>1, <1>2, <1>3, <1>4, <1>5, <1>6, <1>7, <1>8, <1>9, <1>10, <1>11, <1>12,
     <1>13, <1>14, <1>15, <1>16, <1>17, <1>18, <1>19, <1>20, <1>21, <1>22, <1>23, <1>24
  DEF Next, Process

\* Every step keeps one stop for a long, failed reads apart.
LEMMA StopOnceStep ==
  ASSUME IInv, [Next]_vars
  PROVE  StopOnce'
<1> USE ProtectionAssumption
<1> USE DEF brokerVars, cycleVars, positionHistory, historyVars, IInv, Fault, NoCycle, Event
<1>1. ASSUME Begin PROVE StopOnce'
  BY <1>1 DEF LegsShape, StopOnce, OneStopPerLong, Begin
<1>2. ASSUME ReadOrders PROVE StopOnce'
  <2>1. \A s \in Symbols \ covered' : Len(stops[s]) <= blind
    BY <1>2 DEF TypeOK, ReadOrders
  <2>2. intents' = {} /\ stops' = stops /\ blind' = blind /\ faults' = faults
    BY <1>2 DEF LegsShape, ReadOrders
  <2> QED
    BY <2>1, <2>2 DEF StopOnce, OneStopPerLong
<1>3. ASSUME ReadOrdersFails PROVE StopOnce'
  <2>1. intents' = {} /\ stops' = stops /\ blind' = blind + 1 /\ faults' = faults + 1
    BY <1>3 DEF LegsShape, ReadOrdersFails
  <2>2. \A s \in Symbols : Len(stops[s]) <= blind + 1 /\ Len(stops[s]) \in Nat /\ blind \in Nat
    BY DEF TypeOK, StopOnce, OneStopPerLong
  <2>3. \A s \in Symbols : Len(stops[s]) <= 1 + (blind + 1)
    BY <2>2
  <2>4. blind + 1 <= faults + 1
    BY DEF TypeOK, StopOnce
  <2> QED
    BY <2>1, <2>2, <2>3, <2>4 DEF StopOnce, OneStopPerLong
<1>4. ASSUME PlaceStops PROVE StopOnce'
  <2>1. \A i \in intents' : \E s \in Symbols \ covered : i = Stop(s)
    BY <1>4 DEF PlaceStops, Uncovered
  <2>2. \A s \in Symbols : Stop(s).symbol = s
    BY DEF Stop
  <2>3. \A i \in intents' : i.symbol \in Symbols \ covered /\ i = Stop(i.symbol)
    BY <2>1, <2>2
  <2>4. pc = "positions" /\ pc' # "positions" /\ stops' = stops /\ blind' = blind /\ faults' = faults
    BY <1>4 DEF PlaceStops
  <2> QED
    BY <2>3, <2>4 DEF StopOnce, OneStopPerLong
<1>5. ASSUME ReadPositionsFails PROVE StopOnce'
  BY <1>5 DEF TypeOK, LegsShape, StopOnce, OneStopPerLong, ReadPositionsFails
<1>6. ASSUME ReadAccount PROVE StopOnce'
  BY <1>6 DEF LegsShape, StopOnce, OneStopPerLong, ReadAccount
<1>7. ASSUME LevelTooLow PROVE StopOnce'
  BY <1>7 DEF LegsShape, StopOnce, OneStopPerLong, LevelTooLow
<1>8. ASSUME NEW s \in Wheeled, VisitSells(s) PROVE StopOnce'
  BY <1>8 DEF LegsShape, StopOnce, OneStopPerLong, VisitSells, Visit
<1>9. ASSUME NEW s \in Wheeled, VisitSkips(s) PROVE StopOnce'
  BY <1>9 DEF LegsShape, StopOnce, OneStopPerLong, VisitSkips, Visit
<1>10. ASSUME WheelRaises PROVE StopOnce'
  BY <1>10 DEF TypeOK, LegsShape, StopOnce, OneStopPerLong, WheelRaises
<1>11. ASSUME Hand PROVE StopOnce'
  <2>1. \A i \in intents' : i.kind = "stop" => i \in intents
    BY <1>11 DEF LegsShape, Hand, Leg
  <2> QED
    BY <1>11, <2>1 DEF StopOnce, OneStopPerLong, Hand
<1>12. ASSUME NEW i \in intents, ExecuteStop(i) PROVE StopOnce'
  <2>1. i.symbol \in Symbols /\ i.qty \in Nat \ {0}
    BY IntentFact DEF TypeOK
  <2>2. stops[i.symbol] \in Seq(Nat \ {0}) /\ Len(stops[i.symbol]) <= blind
    BY <1>12, <2>1 DEF TypeOK, StopOnce, ExecuteStop
  <2>3. Len(Append(stops[i.symbol], i.qty)) <= 1 + blind
    BY <2>1, <2>2 DEF TypeOK
  <2>4. \A s \in Symbols : stops'[s] = IF s = i.symbol THEN Append(stops[i.symbol], i.qty)
                                                      ELSE stops[s]
    BY <1>12, <2>1 DEF TypeOK, ExecuteStop
  <2>5. \A j \in intents' : j \in intents /\ (j.kind = "stop" =>
          j.symbol \in Symbols /\ j.symbol # i.symbol)
    BY <1>12, IntentFact DEF TypeOK, StopOnce, ExecuteStop
  <2>6. blind' = blind /\ faults' = faults /\ pc' # "positions"
    BY <1>12 DEF ExecuteStop
  <2>7. OneStopPerLong'
    BY <2>3, <2>4, <2>6 DEF StopOnce, OneStopPerLong
  <2>8. \A j \in intents' : j.kind = "stop" => Len(stops'[j.symbol]) <= blind
    BY <2>4, <2>5 DEF StopOnce
  <2> QED
    BY <2>5, <2>6, <2>7, <2>8 DEF StopOnce
<1>13. ASSUME NEW i \in intents, ExecuteLeg(i) PROVE StopOnce'
  BY <1>13 DEF StopOnce, OneStopPerLong, ExecuteLeg
<1>14. ASSUME NEW i \in intents, Lose(i) PROVE StopOnce'
  BY <1>14 DEF TypeOK, LegsShape, StopOnce, OneStopPerLong, Lose
<1>15. ASSUME EndCycle PROVE StopOnce'
  BY <1>15 DEF LegsShape, StopOnce, OneStopPerLong, EndCycle
<1>16. ASSUME Crash PROVE StopOnce'
  BY <1>16 DEF TypeOK, LegsShape, StopOnce, OneStopPerLong, Crash
<1>17. ASSUME Restart PROVE StopOnce'
  BY <1>17 DEF LegsShape, StopOnce, OneStopPerLong, Restart
<1>18. ASSUME NEW s \in Symbols, NEW k \in DOMAIN stops[s], Trigger(s, k) PROVE StopOnce'
  <2>1. /\ pc' = pc /\ covered' = covered /\ intents' = intents
        /\ blind' = blind /\ faults' = faults
    BY <1>18 DEF Trigger
  <2>2. \A x \in Symbols : /\ Len(stops'[x]) <= Len(stops[x])
                           /\ Len(stops'[x]) \in Nat /\ Len(stops[x]) \in Nat
    <3>1. \A x \in Symbols : Len(stops'[x]) <= Len(stops[x]) /\ Len(stops'[x]) \in Nat
      BY <1>18, TriggerFact
    <3>2. \A x \in Symbols : Len(stops[x]) \in Nat
      BY DEF TypeOK
    <3> QED
      BY <3>1, <3>2
  <2>3. blind \in Nat /\ \A i \in intents : i.symbol \in Symbols
    BY IntentFact DEF TypeOK
  <2>4. \A x \in Symbols : Len(stops'[x]) <= 1 + blind
    BY <2>2, <2>3, SMTT(20) DEF StopOnce, OneStopPerLong
  <2>5. \A x \in Symbols : Len(stops[x]) <= blind => Len(stops'[x]) <= blind
    BY <2>2, <2>3
  <2> QED
    BY <2>1, <2>3, <2>4, <2>5 DEF StopOnce, OneStopPerLong
<1>19. ASSUME NEW s \in Symbols, PutAssigned(s) PROVE StopOnce'
  BY <1>19 DEF LegsShape, StopOnce, OneStopPerLong, PutAssigned
<1>20. ASSUME NEW s \in Symbols, CallAssigned(s) PROVE StopOnce'
  BY <1>20 DEF LegsShape, StopOnce, OneStopPerLong, CallAssigned
<1>21. ASSUME NEW s \in Symbols, Expire(s) PROVE StopOnce'
  BY <1>21 DEF LegsShape, StopOnce, OneStopPerLong, Expire
<1>22. ASSUME NEW s \in Symbols, BuyElsewhere(s) PROVE StopOnce'
  BY <1>22 DEF LegsShape, StopOnce, OneStopPerLong, BuyElsewhere
<1>23. ASSUME NEW s \in Symbols, SellElsewhere(s) PROVE StopOnce'
  BY <1>23 DEF LegsShape, StopOnce, OneStopPerLong, SellElsewhere
<1>24. CASE UNCHANGED vars
  BY <1>24 DEF LegsShape, StopOnce, OneStopPerLong, vars
<1> QED
  BY <1>1, <1>2, <1>3, <1>4, <1>5, <1>6, <1>7, <1>8, <1>9, <1>10, <1>11, <1>12,
     <1>13, <1>14, <1>15, <1>16, <1>17, <1>18, <1>19, <1>20, <1>21, <1>22, <1>23, <1>24
  DEF Next, Process

\* Every step keeps each leg sold at most once.
LEMMA LegOnceStep ==
  ASSUME IInv, [Next]_vars
  PROVE  LegOnce'
<1> USE ProtectionAssumption
<1> USE DEF brokerVars, cycleVars, positionHistory, historyVars, IInv, Fault, NoCycle, Event
<1>1. ASSUME Begin PROVE LegOnce'
  BY <1>1 DEF LegsShape, LegOnce, LegsSoldOnce, Begin
<1>2. ASSUME ReadOrders PROVE LegOnce'
  BY <1>2 DEF LegsShape, LegOnce, LegsSoldOnce, ReadOrders
<1>3. ASSUME ReadOrdersFails PROVE LegOnce'
  BY <1>3 DEF LegsShape, LegOnce, LegsSoldOnce, ReadOrdersFails
<1>4. ASSUME PlaceStops PROVE LegOnce'
  <2>1. \A i \in legs' \union intents' : i.kind \notin Leg
    BY <1>4 DEF LegsShape, PlaceStops, Stop, Leg
  <2> QED
    BY <1>4, <2>1 DEF LegOnce, LegsSoldOnce, PlaceStops
<1>5. ASSUME ReadPositionsFails PROVE LegOnce'
  BY <1>5 DEF LegsShape, LegOnce, LegsSoldOnce, ReadPositionsFails
<1>6. ASSUME ReadAccount PROVE LegOnce'
  BY <1>6 DEF LegsShape, LegOnce, LegsSoldOnce, ReadAccount
<1>7. ASSUME LevelTooLow PROVE LegOnce'
  BY <1>7 DEF LegsShape, LegOnce, LegsSoldOnce, LevelTooLow
<1>8. ASSUME NEW s \in Wheeled, VisitSells(s) PROVE LegOnce'
  <2>1. PICK l \in Leg : Sell(l, s)
    BY <1>8, VisitSellsFact
  <2> DEFINE b == [kind |-> l, symbol |-> s, qty |-> Contracts[s]]
  <2>2. /\ intents' = intents /\ sold' = sold
        /\ marks' = marks \union {<<l, s>>}
        /\ \A i \in legs' : i \in legs \/ i = b
    BY <1>8, <2>1 DEF VisitSells, Visit, Sell
  <2>3. sold[l][s] = 0
    BY <2>1 DEF LegOnce, Sell
  <2>4. b.kind = l /\ b.symbol = s /\ b.qty = Contracts[s]
    OBVIOUS
  <2> HIDE DEF b
  <2>5. \A i \in legs' \union intents' : i.kind \in Leg =>
          /\ i.symbol \in Wheeled /\ i.qty = Contracts[i.symbol]
          /\ <<i.kind, i.symbol>> \in marks'
          /\ sold[i.kind][i.symbol] = 0
    BY <2>2, <2>3, <2>4 DEF LegOnce
  <2> QED
    BY <2>2, <2>5 DEF LegOnce, LegsSoldOnce
<1>9. ASSUME NEW s \in Wheeled, VisitSkips(s) PROVE LegOnce'
  BY <1>9 DEF LegsShape, LegOnce, LegsSoldOnce, VisitSkips, Visit
<1>10. ASSUME WheelRaises PROVE LegOnce'
  BY <1>10 DEF LegsShape, LegOnce, LegsSoldOnce, WheelRaises
<1>11. ASSUME Hand PROVE LegOnce'
  BY <1>11 DEF LegsShape, LegOnce, LegsSoldOnce, Hand
<1>12. ASSUME NEW i \in intents, ExecuteStop(i) PROVE LegOnce'
  BY <1>12 DEF LegsShape, LegOnce, LegsSoldOnce, ExecuteStop
<1>13. ASSUME NEW i \in intents, ExecuteLeg(i) PROVE LegOnce'
  <2>1. /\ legs' = {} /\ intents' = intents \ {i} /\ marks' = marks
        /\ legs = {}
    BY <1>13 DEF LegsShape, ExecuteLeg
  <2>2. /\ i.kind \in Leg /\ i.symbol \in Wheeled /\ i.qty = Contracts[i.symbol]
        /\ <<i.kind, i.symbol>> \in marks
        /\ sold[i.kind][i.symbol] = 0
    BY <1>13 DEF LegOnce, ExecuteLeg
  <2>3. \A l \in Leg, s \in Symbols :
          sold'[l][s] = IF l = i.kind /\ s = i.symbol THEN Contracts[s] ELSE sold[l][s]
    <3>1. \A l \in Leg, s \in Symbols :
            sold'[l][s] = IF l = i.kind /\ s = i.symbol THEN sold[l][s] + i.qty ELSE sold[l][s]
      BY <1>13, ExecuteLegFact
    <3>2. 0 + Contracts[i.symbol] = Contracts[i.symbol]
      BY <2>2
    <3> QED
      BY <2>2, <3>1, <3>2
  <2>4. \A j \in intents' : j.kind \in Leg =>
          /\ j.symbol \in Wheeled /\ j.qty = Contracts[j.symbol]
          /\ <<j.kind, j.symbol>> \in marks
          /\ sold'[j.kind][j.symbol] = 0
    <3> SUFFICES ASSUME NEW j \in intents', j.kind \in Leg
                 PROVE  /\ j.symbol \in Wheeled /\ j.qty = Contracts[j.symbol]
                        /\ <<j.kind, j.symbol>> \in marks
                        /\ sold'[j.kind][j.symbol] = 0
      OBVIOUS
    <3>1. /\ j.symbol \in Wheeled /\ j.qty = Contracts[j.symbol]
          /\ <<j.kind, j.symbol>> \in marks
          /\ sold[j.kind][j.symbol] = 0
      BY <2>1 DEF LegOnce
    <3>2. ~(j.kind = i.kind /\ j.symbol = i.symbol)
      <4>1. /\ i = [kind |-> i.kind, symbol |-> i.symbol, qty |-> i.qty]
            /\ j = [kind |-> j.kind, symbol |-> j.symbol, qty |-> j.qty]
        BY <2>1, IntentFact DEF TypeOK
      <4> QED
        BY <2>1, <2>2, <3>1, <4>1
    <3> QED
      BY <2>3, <3>1, <3>2
  <2>5. \A l \in Leg, s \in Symbols :
          IF s \in Wheeled THEN sold'[l][s] <= Contracts[s] ELSE sold'[l][s] = 0
    BY <2>2, <2>3 DEF LegOnce, LegsSoldOnce
  <2>6. \A l \in Leg, s \in Wheeled : <<l, s>> \notin marks => sold'[l][s] = 0
    BY <2>2, <2>3 DEF LegOnce
  <2> QED
    BY <2>1, <2>4, <2>5, <2>6 DEF LegOnce, LegsSoldOnce
<1>14. ASSUME NEW i \in intents, Lose(i) PROVE LegOnce'
  BY <1>14 DEF LegsShape, LegOnce, LegsSoldOnce, Lose
<1>15. ASSUME EndCycle PROVE LegOnce'
  BY <1>15 DEF LegsShape, LegOnce, LegsSoldOnce, EndCycle
<1>16. ASSUME Crash PROVE LegOnce'
  BY <1>16 DEF LegsShape, LegOnce, LegsSoldOnce, Crash
<1>17. ASSUME Restart PROVE LegOnce'
  BY <1>17 DEF LegsShape, LegOnce, LegsSoldOnce, Restart
<1>18. ASSUME NEW s \in Symbols, NEW k \in DOMAIN stops[s], Trigger(s, k) PROVE LegOnce'
  BY <1>18 DEF LegsShape, LegOnce, LegsSoldOnce, Trigger
<1>19. ASSUME NEW s \in Symbols, PutAssigned(s) PROVE LegOnce'
  BY <1>19 DEF LegsShape, LegOnce, LegsSoldOnce, PutAssigned
<1>20. ASSUME NEW s \in Symbols, CallAssigned(s) PROVE LegOnce'
  BY <1>20 DEF LegsShape, LegOnce, LegsSoldOnce, CallAssigned
<1>21. ASSUME NEW s \in Symbols, Expire(s) PROVE LegOnce'
  BY <1>21 DEF LegsShape, LegOnce, LegsSoldOnce, Expire
<1>22. ASSUME NEW s \in Symbols, BuyElsewhere(s) PROVE LegOnce'
  BY <1>22 DEF LegsShape, LegOnce, LegsSoldOnce, BuyElsewhere
<1>23. ASSUME NEW s \in Symbols, SellElsewhere(s) PROVE LegOnce'
  BY <1>23 DEF LegsShape, LegOnce, LegsSoldOnce, SellElsewhere
<1>24. CASE UNCHANGED vars
  BY <1>24 DEF LegsShape, LegOnce, LegsSoldOnce, vars
<1> QED
  BY <1>1, <1>2, <1>3, <1>4, <1>5, <1>6, <1>7, <1>8, <1>9, <1>10, <1>11, <1>12,
     <1>13, <1>14, <1>15, <1>16, <1>17, <1>18, <1>19, <1>20, <1>21, <1>22, <1>23, <1>24
  DEF Next, Process

\* An event that closes calls, or leaves them, and takes no share away but by
\* a stop or a sale elsewhere keeps every call backed.
LEMMA EventBacks ==
  ASSUME IInv, TypeOK', legs' = legs, intents' = intents, sold' = sold,
         \A x \in Symbols : /\ calls'[x] <= calls[x]
                            /\ held[x] + gone[x] <= held'[x] + gone'[x]
  PROVE  CallBacked'
<1> USE ProtectionAssumption DEF IInv
<1>1. \A i \in legs \union intents : i.symbol \in Symbols
  BY IntentFact DEF TypeOK
<1>2. \A x \in Symbols : /\ held[x] + gone[x] \in Int /\ held'[x] + gone'[x] \in Int
                         /\ calls[x] \in Nat /\ calls'[x] \in Nat
                         /\ sold["call"][x] \in Nat
  <2>1. \A x \in Symbols : held[x] \in Int /\ gone[x] \in Nat /\ calls[x] \in Nat
    BY DEF TypeOK
  <2>2. \A x \in Symbols : held'[x] \in Int /\ gone'[x] \in Nat /\ calls'[x] \in Nat
    BY DEF TypeOK
  <2>3. \A x \in Symbols : sold["call"][x] \in Nat
    BY DEF TypeOK, Leg
  <2> QED
    BY <2>1, <2>2, <2>3
<1>3. \A x \in Symbols : calls'[x] <= sold["call"][x] /\ calls'[x] <= held'[x] + gone'[x]
  BY <1>2 DEF CallBacked, CallsCovered
<1>4. ASSUME NEW i \in legs \union intents, i.kind = "call"
      PROVE  Contracts[i.symbol] <= held'[i.symbol] + gone'[i.symbol]
  <2>1. i.symbol \in Wheeled /\ Contracts[i.symbol] \in Nat
    BY <1>4 DEF LegOnce, Leg
  <2>2. Contracts[i.symbol] <= held[i.symbol] + gone[i.symbol]
    BY <1>4 DEF CallBacked
  <2> QED
    BY <1>1, <1>2, <2>1, <2>2
<1> QED
  BY <1>3, <1>4 DEF CallBacked, CallsCovered

\* Every step keeps the calls backed.
LEMMA CallBackedStep ==
  ASSUME IInv, [Next]_vars
  PROVE  CallBacked'
<1> USE ProtectionAssumption
<1> USE DEF brokerVars, cycleVars, positionHistory, historyVars, IInv, Fault, NoCycle, Event
<1>1. ASSUME Begin PROVE CallBacked'
  BY <1>1 DEF CallBacked, CallsCovered, Begin
<1>2. ASSUME ReadOrders PROVE CallBacked'
  BY <1>2 DEF CallBacked, CallsCovered, ReadOrders
<1>3. ASSUME ReadOrdersFails PROVE CallBacked'
  BY <1>3 DEF CallBacked, CallsCovered, ReadOrdersFails
<1>4. ASSUME PlaceStops PROVE CallBacked'
  <2>1. \A i \in legs' \union intents' : i.kind # "call"
    BY <1>4 DEF LegsShape, PlaceStops, Stop, Leg
  <2> QED
    BY <1>4, <2>1 DEF CallBacked, CallsCovered, PlaceStops
<1>5. ASSUME ReadPositionsFails PROVE CallBacked'
  BY <1>5 DEF CallBacked, CallsCovered, ReadPositionsFails
<1>6. ASSUME ReadAccount PROVE CallBacked'
  BY <1>6 DEF CallBacked, CallsCovered, ReadAccount
<1>7. ASSUME LevelTooLow PROVE CallBacked'
  BY <1>7 DEF CallBacked, CallsCovered, LevelTooLow
<1>8. ASSUME NEW s \in Wheeled, VisitSells(s) PROVE CallBacked'
  <2>1. PICK l \in Leg : /\ Sell(l, s)
                         /\ l = "call" => EnoughShares(s) /\ gone' = [gone EXCEPT ![s] = 0]
                         /\ l = "put" => gone' = gone
    BY <1>8, VisitSellsFact
  <2> DEFINE b == [kind |-> l, symbol |-> s, qty |-> Contracts[s]]
  <2>2. /\ intents' = intents /\ sold' = sold /\ calls' = calls /\ held' = held
        /\ \A i \in legs' : i \in legs \/ i = b
    BY <1>8, <2>1 DEF VisitSells, Visit, Sell
  <2>3. CASE l = "put"
    <3>1. b.kind # "call" /\ gone' = gone
      BY <2>1, <2>3
    <3> HIDE DEF b
    <3> QED
      BY <2>2, <3>1 DEF CallBacked, CallsCovered
  <2>4. CASE l = "call"
    <3>1. /\ held[s] \in Int /\ Contracts[s] \in Nat /\ Contracts[s] <= held[s]
          /\ s \in Symbols /\ calls[s] \in Nat
      BY <2>1, <2>4 DEF TypeOK, EnoughShares
    <3>2. calls[s] <= 0
      BY <2>1, <2>4 DEF LegOnce, CallBacked, Sell, Leg
    <3>3. \A x \in Symbols : gone'[x] = IF x = s THEN 0 ELSE gone[x]
      BY <2>1, <2>4 DEF TypeOK
    <3>4. \A i \in legs \union intents : i.kind = "call" => i.symbol \in Symbols /\ i.symbol # s
      BY <2>1, <2>4 DEF LegOnce, Sell, Leg
    <3>5. b.symbol = s
      OBVIOUS
    <3> HIDE DEF b
    <3>6. \A x \in Symbols : calls'[x] <= held'[x] + gone'[x]
      BY <2>2, <3>1, <3>2, <3>3 DEF CallBacked, CallsCovered
    <3>7. \A i \in legs' \union intents' : i.kind = "call" =>
            Contracts[i.symbol] <= held'[i.symbol] + gone'[i.symbol]
      BY <2>2, <3>1, <3>3, <3>4, <3>5 DEF CallBacked
    <3> QED
      BY <2>2, <3>6, <3>7 DEF CallBacked, CallsCovered
  <2> QED
    BY <2>1, <2>3, <2>4 DEF Leg
<1>9. ASSUME NEW s \in Wheeled, VisitSkips(s) PROVE CallBacked'
  BY <1>9 DEF CallBacked, CallsCovered, VisitSkips, Visit
<1>10. ASSUME WheelRaises PROVE CallBacked'
  BY <1>10 DEF CallBacked, CallsCovered, WheelRaises
<1>11. ASSUME Hand PROVE CallBacked'
  BY <1>11 DEF CallBacked, CallsCovered, Hand
<1>12. ASSUME NEW i \in intents, ExecuteStop(i) PROVE CallBacked'
  BY <1>12 DEF CallBacked, CallsCovered, ExecuteStop
<1>13. ASSUME NEW i \in intents, ExecuteLeg(i) PROVE CallBacked'
  <2>1. /\ i.kind \in Leg /\ i.symbol \in Wheeled /\ i.qty = Contracts[i.symbol]
        /\ sold[i.kind][i.symbol] = 0
    BY <1>13 DEF LegOnce, ExecuteLeg
  <2>2. /\ legs' = legs /\ intents' = intents \ {i} /\ held' = held /\ gone' = gone
    BY <1>13 DEF ExecuteLeg
  <2>3. ASSUME NEW s \in Symbols
        PROVE  calls'[s] <= sold'["call"][s] /\ calls'[s] <= held[s] + gone[s]
    <3>1. /\ calls[s] \in Nat /\ sold["call"][s] \in Nat /\ i.qty \in Nat
          /\ calls[s] <= sold["call"][s] /\ calls[s] <= held[s] + gone[s]
      BY <2>1 DEF TypeOK, CallBacked, CallsCovered, Leg
    <3>2. /\ calls'[s] = IF i.kind = "call" /\ s = i.symbol THEN calls[s] + i.qty ELSE calls[s]
          /\ sold'["call"][s] = IF i.kind = "call" /\ s = i.symbol
                                THEN sold["call"][s] + i.qty ELSE sold["call"][s]
      BY <1>13, ExecuteLegFact DEF Leg
    <3>3. CASE i.kind = "call" /\ s = i.symbol
      <4>1. Contracts[s] <= held[s] + gone[s]
        BY <3>3 DEF CallBacked
      <4>2. calls[s] = 0
        BY <2>1, <3>1, <3>3
      <4> QED
        BY <2>1, <3>1, <3>2, <3>3, <4>1, <4>2
    <3>4. CASE ~(i.kind = "call" /\ s = i.symbol)
      BY <3>1, <3>2, <3>4
    <3> QED
      BY <3>3, <3>4
  <2> QED
    BY <2>2, <2>3 DEF CallBacked, CallsCovered
<1>14. ASSUME NEW i \in intents, Lose(i) PROVE CallBacked'
  BY <1>14 DEF CallBacked, CallsCovered, Lose
<1>15. ASSUME EndCycle PROVE CallBacked'
  BY <1>15 DEF CallBacked, CallsCovered, EndCycle
<1>16. ASSUME Crash PROVE CallBacked'
  BY <1>16 DEF CallBacked, CallsCovered, Crash
<1>17. ASSUME Restart PROVE CallBacked'
  BY <1>17 DEF CallBacked, CallsCovered, Restart
<1>18. ASSUME NEW s \in Symbols, NEW k \in DOMAIN stops[s], Trigger(s, k) PROVE CallBacked'
  <2>1. legs' = legs /\ intents' = intents /\ sold' = sold
    BY <1>18 DEF Trigger
  <2>2. \A x \in Symbols : /\ calls'[x] <= calls[x]
                           /\ held[x] + gone[x] <= held'[x] + gone'[x]
    <3>1. \A x \in Symbols : held'[x] + gone'[x] = held[x] + gone[x]
      BY <1>18, TriggerFact
    <3>2. calls' = calls /\ \A x \in Symbols : held[x] + gone[x] \in Int /\ calls[x] \in Nat
      BY <1>18, SMTT(20) DEF TypeOK, Trigger
    <3> QED
      BY <3>1, <3>2
  <2> QED
    BY <2>1, <2>2, TypeStep, EventBacks
<1>19. ASSUME NEW s \in Symbols, PutAssigned(s) PROVE CallBacked'
  <2>1. legs' = legs /\ intents' = intents /\ sold' = sold
    BY <1>19 DEF PutAssigned
  <2>2. \A x \in Symbols : /\ calls'[x] <= calls[x]
                           /\ held[x] + gone[x] <= held'[x] + gone'[x]
    <3>1. /\ held' = [held EXCEPT ![s] = held[s] + puts[s]]
          /\ gone' = gone /\ calls' = calls
      BY <1>19 DEF PutAssigned
    <3>2. \A x \in Symbols : held[x] \in Int /\ gone[x] \in Nat /\ calls[x] \in Nat /\ puts[x] \in Nat
      BY DEF TypeOK
    <3>3. \A x \in Symbols : /\ held'[x] = IF x = s THEN held[s] + puts[s] ELSE held[x]
                             /\ gone'[x] = gone[x]
      BY <3>1 DEF TypeOK
    <3> QED
      BY <3>1, <3>2, <3>3
  <2> QED
    BY <2>1, <2>2, TypeStep, EventBacks
<1>20. ASSUME NEW s \in Symbols, CallAssigned(s) PROVE CallBacked'
  <2>1. /\ legs' = legs /\ intents' = intents /\ sold' = sold /\ gone' = gone
        /\ held' = [held EXCEPT ![s] = held[s] - calls[s]]
        /\ calls' = [calls EXCEPT ![s] = 0]
    BY <1>20 DEF CallAssigned
  <2>2. /\ calls[s] \in Nat \ {0} /\ calls[s] <= sold["call"][s]
        /\ held[s] \in Int /\ gone[s] \in Nat /\ sold["call"][s] \in Nat
        /\ calls[s] <= held[s] + gone[s]
    BY <1>20 DEF TypeOK, CallBacked, CallsCovered, CallAssigned, Leg
  <2>3. \A x \in Symbols : x # s => held'[x] = held[x] /\ calls'[x] = calls[x]
    BY <2>1 DEF TypeOK
  <2>4. calls'[s] = 0 /\ held'[s] = held[s] - calls[s]
    BY <2>1 DEF TypeOK
  <2>5. \A x \in Symbols : calls'[x] <= sold["call"][x] /\ calls'[x] <= held'[x] + gone[x]
    BY <2>2, <2>3, <2>4 DEF CallBacked, CallsCovered
  <2>6. \A i \in legs \union intents : i.kind = "call" => i.symbol \in Symbols /\ i.symbol # s
    <3>1. \A i \in legs \union intents : i.kind = "call" =>
            i.symbol \in Symbols /\ sold["call"][i.symbol] = 0
      BY DEF LegOnce, Leg
    <3>2. sold["call"][s] # 0
      BY <2>2
    <3> QED
      BY <3>1, <3>2
  <2> QED
    BY <2>1, <2>3, <2>5, <2>6 DEF CallBacked, CallsCovered
<1>21. ASSUME NEW s \in Symbols, Expire(s) PROVE CallBacked'
  <2>1. legs' = legs /\ intents' = intents /\ sold' = sold
    BY <1>21 DEF Expire
  <2>2. \A x \in Symbols : /\ calls'[x] <= calls[x]
                           /\ held[x] + gone[x] <= held'[x] + gone'[x]
    BY <1>21, SMTT(20) DEF TypeOK, Expire
  <2> QED
    BY <2>1, <2>2, TypeStep, EventBacks
<1>22. ASSUME NEW s \in Symbols, BuyElsewhere(s) PROVE CallBacked'
  <2>1. legs' = legs /\ intents' = intents /\ sold' = sold
    BY <1>22 DEF BuyElsewhere
  <2>2. \A x \in Symbols : /\ calls'[x] <= calls[x]
                           /\ held[x] + gone[x] <= held'[x] + gone'[x]
    <3>1. /\ held' = [held EXCEPT ![s] = held[s] + 1]
          /\ gone' = gone /\ calls' = calls
      BY <1>22 DEF BuyElsewhere
    <3>2. \A x \in Symbols : held[x] \in Int /\ gone[x] \in Nat /\ calls[x] \in Nat /\ puts[x] \in Nat
      BY DEF TypeOK
    <3>3. \A x \in Symbols : /\ held'[x] = IF x = s THEN held[s] + 1 ELSE held[x]
                             /\ gone'[x] = gone[x]
      BY <3>1 DEF TypeOK
    <3> QED
      BY <3>1, <3>2, <3>3
  <2> QED
    BY <2>1, <2>2, TypeStep, EventBacks
<1>23. ASSUME NEW s \in Symbols, SellElsewhere(s) PROVE CallBacked'
  <2>1. legs' = legs /\ intents' = intents /\ sold' = sold
    BY <1>23 DEF SellElsewhere
  <2>2. \A x \in Symbols : /\ calls'[x] <= calls[x]
                           /\ held[x] + gone[x] <= held'[x] + gone'[x]
    <3>1. /\ held' = [held EXCEPT ![s] = held[s] - 1]
          /\ gone' = [gone EXCEPT ![s] = gone[s] + 1] /\ calls' = calls
      BY <1>23 DEF SellElsewhere
    <3>2. \A x \in Symbols : held[x] \in Int /\ gone[x] \in Nat /\ calls[x] \in Nat /\ puts[x] \in Nat
      BY DEF TypeOK
    <3>3. \A x \in Symbols : /\ held'[x] = IF x = s THEN held[s] - 1 ELSE held[x]
                             /\ gone'[x] = IF x = s THEN gone[s] + 1 ELSE gone[x]
      BY <3>1 DEF TypeOK
    <3> QED
      BY <3>1, <3>2, <3>3
  <2> QED
    BY <2>1, <2>2, TypeStep, EventBacks
<1>24. CASE UNCHANGED vars
  BY <1>24 DEF CallBacked, CallsCovered, vars
<1> QED
  BY <1>1, <1>2, <1>3, <1>4, <1>5, <1>6, <1>7, <1>8, <1>9, <1>10, <1>11, <1>12,
     <1>13, <1>14, <1>15, <1>16, <1>17, <1>18, <1>19, <1>20, <1>21, <1>22, <1>23, <1>24
  DEF Next, Process

\* A step that closes puts, or leaves them, and takes no cash but for shares
\* keeps every put secured.
LEMMA EventSecures ==
  ASSUME IInv, TypeOK', pc' = pc, funds' = funds, todo' = todo, marks' = marks,
         legs' = legs, intents' = intents, sold' = sold,
         \A x \in Symbols : /\ cash + spent[x] <= cash' + spent'[x]
                            /\ puts'[x] <= puts[x]
  PROVE  PutSecured'
<1> USE ProtectionAssumption DEF IInv
<1>1. /\ \A x \in Symbols : cash + spent[x] \in Int /\ cash' + spent'[x] \in Int
      /\ funds \in Int /\ todo \subseteq Symbols
      /\ \A s \in Wheeled : Target[s] \in Nat
  <2>1. cash \in Int /\ \A x \in Symbols : spent[x] \in Nat
    BY DEF TypeOK
  <2>2. cash' \in Int /\ \A x \in Symbols : spent'[x] \in Nat
    BY DEF TypeOK
  <2>3. funds \in Int /\ todo \subseteq Symbols
    BY DEF TypeOK
  <2> QED
    BY <2>1, <2>2, <2>3
<1>2. \A x \in Symbols : puts[x] \in Nat /\ puts'[x] \in Nat /\ sold["put"][x] \in Nat
  <2>1. \A x \in Symbols : puts[x] \in Nat
    BY DEF TypeOK
  <2>2. \A x \in Symbols : puts'[x] \in Nat
    BY DEF TypeOK
  <2>3. \A x \in Symbols : sold["put"][x] \in Nat
    BY DEF TypeOK, Leg
  <2> QED
    BY <2>1, <2>2, <2>3
<1>3. \A x \in Symbols : puts'[x] <= sold["put"][x]
  BY <1>2 DEF PutSecured
<1>4. ASSUME NEW s \in Wheeled, puts'[s] > 0 PROVE Target[s] <= cash' + spent'[s]
  <2>1. s \in Symbols /\ puts[s] > 0
    BY <1>2, <1>4
  <2>2. Target[s] <= cash + spent[s]
    BY <2>1 DEF PutSecured, PutsAtTarget
  <2> QED
    BY <1>1, <2>1, <2>2
<1>5. ASSUME pc = "wheel", NEW s \in todo, <<"put", s>> \notin marks
      PROVE  funds <= cash' + spent'[s]
  <2>1. funds <= cash + spent[s] /\ s \in Symbols
    BY <1>1, <1>5 DEF PutSecured
  <2> QED
    BY <1>1, <2>1
<1>6. ASSUME NEW i \in legs \union intents, i.kind = "put"
      PROVE  Target[i.symbol] <= cash' + spent'[i.symbol]
  <2>1. i.symbol \in Wheeled /\ Target[i.symbol] <= cash + spent[i.symbol]
    BY <1>6 DEF PutSecured, LegOnce, Leg
  <2> QED
    BY <1>1, <2>1
<1> QED
  BY <1>3, <1>4, <1>5, <1>6 DEF PutSecured, PutsAtTarget

\* Every step keeps the puts secured.
LEMMA PutSecuredStep ==
  ASSUME IInv, [Next]_vars
  PROVE  PutSecured'
<1> USE ProtectionAssumption
<1> USE DEF brokerVars, cycleVars, positionHistory, historyVars, IInv, Fault, NoCycle, Event
<1>1. ASSUME Begin PROVE PutSecured'
  BY <1>1 DEF PutSecured, PutsAtTarget, Begin
<1>2. ASSUME ReadOrders PROVE PutSecured'
  BY <1>2 DEF PutSecured, PutsAtTarget, ReadOrders
<1>3. ASSUME ReadOrdersFails PROVE PutSecured'
  BY <1>3 DEF PutSecured, PutsAtTarget, ReadOrdersFails
<1>4. ASSUME PlaceStops PROVE PutSecured'
  <2>1. \A i \in legs' \union intents' : i.kind # "put"
    BY <1>4 DEF LegsShape, PlaceStops, Stop, Leg
  <2> QED
    BY <1>4, <2>1 DEF PutSecured, PutsAtTarget, PlaceStops
<1>5. ASSUME ReadPositionsFails PROVE PutSecured'
  BY <1>5 DEF PutSecured, PutsAtTarget, ReadPositionsFails
<1>6. ASSUME ReadAccount PROVE PutSecured'
  <2>1. /\ funds' = cash /\ UNCHANGED <<cash, puts, sold, marks, legs, intents>>
        /\ todo' = Wheeled /\ pc = "account"
        /\ spent' = [s \in Symbols |-> IF <<"put", s>> \in marks THEN spent[s] ELSE 0]
    BY <1>6 DEF ReadAccount
  <2>2. \A i \in legs \union intents : i.kind # "put"
    BY <2>1 DEF LegsShape, Leg
  <2>3. \A s \in Wheeled : puts[s] > 0 => spent'[s] = spent[s]
    <3>1. \A s \in Wheeled : <<"put", s>> \notin marks => puts[s] \in Nat /\ puts[s] <= 0
      BY DEF TypeOK, LegOnce, PutSecured, Leg
    <3> QED
      BY <2>1, <3>1
  <2>4. \A s \in Wheeled : <<"put", s>> \notin marks => cash <= cash + spent'[s]
    BY <2>1 DEF TypeOK
  <2> QED
    BY <2>1, <2>2, <2>3, <2>4 DEF PutSecured, PutsAtTarget
<1>7. ASSUME LevelTooLow PROVE PutSecured'
  BY <1>7 DEF PutSecured, PutsAtTarget, LevelTooLow
<1>8. ASSUME NEW s \in Wheeled, VisitSells(s) PROVE PutSecured'
  <2>1. PICK l \in Leg : Sell(l, s) /\ (l = "put" => Secured(s))
    BY <1>8, VisitSellsFact
  <2> DEFINE b == [kind |-> l, symbol |-> s, qty |-> Contracts[s]]
  <2>2. /\ intents' = intents /\ sold' = sold /\ puts' = puts
        /\ cash' = cash /\ spent' = spent /\ funds' = funds /\ pc' = pc
        /\ todo' \subseteq todo /\ marks \subseteq marks'
        /\ \A i \in legs' : i \in legs \/ i = b
    BY <1>8, <2>1 DEF VisitSells, Visit, Sell
  <2>3. b.kind = "put" => Target[b.symbol] <= cash + spent[b.symbol]
    <3>1. ASSUME l = "put" PROVE funds <= cash + spent[s]
      BY <1>8, <2>1, <3>1 DEF PutSecured, VisitSells, Visit, Sell
    <3>2. /\ funds \in Int /\ cash + spent[s] \in Int /\ Target[s] \in Nat
      BY DEF TypeOK
    <3> QED
      BY <2>1, <3>1, <3>2 DEF Secured
  <2> HIDE DEF b
  <2> QED
    BY <2>2, <2>3 DEF PutSecured, PutsAtTarget
<1>9. ASSUME NEW s \in Wheeled, VisitSkips(s) PROVE PutSecured'
  BY <1>9 DEF PutSecured, PutsAtTarget, VisitSkips, Visit
<1>10. ASSUME WheelRaises PROVE PutSecured'
  BY <1>10 DEF PutSecured, PutsAtTarget, WheelRaises
<1>11. ASSUME Hand PROVE PutSecured'
  BY <1>11 DEF PutSecured, PutsAtTarget, Hand
<1>12. ASSUME NEW i \in intents, ExecuteStop(i) PROVE PutSecured'
  BY <1>12 DEF PutSecured, PutsAtTarget, ExecuteStop
<1>13. ASSUME NEW i \in intents, ExecuteLeg(i) PROVE PutSecured'
  <2>1. i.kind \in Leg /\ i.symbol \in Wheeled
    BY <1>13 DEF LegOnce, ExecuteLeg
  <2>2. /\ legs' = legs /\ intents' = intents \ {i} /\ pc' = pc
        /\ cash' = cash /\ spent' = spent /\ funds' = funds
        /\ todo' = todo /\ marks' = marks
    BY <1>13 DEF ExecuteLeg
  <2>3. ASSUME NEW s \in Symbols
        PROVE  /\ puts'[s] <= sold'["put"][s]
               /\ s \in Wheeled /\ puts'[s] > 0 => Target[s] <= cash + spent[s]
    <3>1. /\ puts[s] \in Nat /\ sold["put"][s] \in Nat
          /\ puts[s] <= sold["put"][s]
      BY DEF TypeOK, PutSecured, Leg
    <3>2. /\ puts'[s] = IF i.kind = "put" /\ s = i.symbol THEN puts[s] + i.qty ELSE puts[s]
          /\ sold'["put"][s] = IF i.kind = "put" /\ s = i.symbol
                               THEN sold["put"][s] + i.qty ELSE sold["put"][s]
          /\ i.qty \in Nat
      BY <1>13, ExecuteLegFact DEF Leg
    <3>3. CASE i.kind = "put" /\ s = i.symbol
      <4>1. Target[s] <= cash + spent[s]
        BY <3>3 DEF PutSecured
      <4> QED
        BY <3>1, <3>2, <3>3, <4>1
    <3>4. CASE ~(i.kind = "put" /\ s = i.symbol)
      <4>1. s \in Wheeled /\ puts[s] > 0 => Target[s] <= cash + spent[s]
        BY DEF PutSecured, PutsAtTarget
      <4> QED
        BY <3>1, <3>2, <3>4, <4>1
    <3> QED
      BY <3>3, <3>4
  <2> QED
    BY <2>2, <2>3 DEF PutSecured, PutsAtTarget
<1>14. ASSUME NEW i \in intents, Lose(i) PROVE PutSecured'
  BY <1>14 DEF PutSecured, PutsAtTarget, Lose
<1>15. ASSUME EndCycle PROVE PutSecured'
  BY <1>15 DEF PutSecured, PutsAtTarget, EndCycle
<1>16. ASSUME Crash PROVE PutSecured'
  BY <1>16 DEF PutSecured, PutsAtTarget, Crash
<1>17. ASSUME Restart PROVE PutSecured'
  BY <1>17 DEF PutSecured, PutsAtTarget, Restart
<1>18. ASSUME NEW s \in Symbols, NEW k \in DOMAIN stops[s], Trigger(s, k) PROVE PutSecured'
  <2>1. /\ pc' = pc /\ funds' = funds /\ todo' = todo /\ marks' = marks
        /\ legs' = legs /\ intents' = intents /\ sold' = sold
    BY <1>18 DEF Trigger
  <2>2. \A x \in Symbols : /\ cash + spent[x] <= cash' + spent'[x]
                           /\ puts'[x] <= puts[x]
    <3>1. cash <= cash'
      BY <1>18, TriggerFact
    <3>2. spent' = spent /\ puts' = puts
      BY <1>18 DEF Trigger
    <3>3. cash \in Int /\ \A x \in Symbols : spent[x] \in Int /\ puts[x] \in Int
      BY DEF TypeOK
    <3>4. cash' \in Int
      BY TypeStep DEF TypeOK
    <3>5. \A x \in Symbols : cash + spent[x] <= cash' + spent[x]
      BY <3>1, <3>3, <3>4, AddFact
    <3>6. \A x \in Symbols : puts'[x] <= puts[x]
      BY <3>2, <3>3
    <3> QED
      BY <3>2, <3>5, <3>6
  <2> QED
    BY <2>1, <2>2, TypeStep, EventSecures
<1>19. ASSUME NEW s \in Symbols, PutAssigned(s) PROVE PutSecured'
  <2>1. /\ pc' = pc /\ funds' = funds /\ todo' = todo /\ marks' = marks
        /\ legs' = legs /\ intents' = intents /\ sold' = sold
    BY <1>19 DEF PutAssigned
  <2>2. \A x \in Symbols : /\ cash + spent[x] <= cash' + spent'[x]
                           /\ puts'[x] <= puts[x]
    <3>1. /\ cash' = cash - Strike[s]
          /\ spent' = [x \in Symbols |-> spent[x] + Strike[s]]
          /\ puts' = [puts EXCEPT ![s] = 0]
      BY <1>19 DEF PutAssigned, Pays
    <3>2. cash \in Int /\ spent \in [Symbols -> Nat] /\ \A x \in Symbols : puts[x] \in Nat
      BY DEF TypeOK
    <3>3. s \in Wheeled
      <4>1. puts[s] > 0 /\ puts[s] <= sold["put"][s]
        BY <1>19 DEF PutSecured, PutAssigned
      <4>2. s \notin Wheeled => sold["put"][s] = 0
        BY DEF LegOnce, LegsSoldOnce, Leg
      <4> QED
        BY <3>2, <4>1, <4>2
    <3>4. Strike[s] \in Nat
      BY <3>3
    <3>5. \A x \in Symbols : puts'[x] <= puts[x]
      <4>1. DOMAIN puts = Symbols
        BY DEF TypeOK
      <4>2. \A x \in Symbols : puts'[x] = IF x = s THEN 0 ELSE puts[x]
        BY <3>1, <4>1
      <4> QED
        BY <3>2, <4>2
    <3> QED
      BY <3>1, <3>2, <3>4, <3>5
  <2> QED
    BY <2>1, <2>2, TypeStep, EventSecures
<1>20. ASSUME NEW s \in Symbols, CallAssigned(s) PROVE PutSecured'
  <2>1. /\ pc' = pc /\ funds' = funds /\ todo' = todo /\ marks' = marks
        /\ legs' = legs /\ intents' = intents /\ sold' = sold
    BY <1>20 DEF CallAssigned
  <2>2. \A x \in Symbols : /\ cash + spent[x] <= cash' + spent'[x]
                           /\ puts'[x] <= puts[x]
    <3> DEFINE m == calls[s] * Worth[s]
    <3>1. /\ cash' = cash + m /\ spent' = spent /\ puts' = puts
      BY <1>20 DEF CallAssigned
    <3>2. calls[s] \in Nat /\ Worth[s] \in Nat
      BY DEF TypeOK
    <3>3. /\ cash \in Int /\ spent \in [Symbols -> Nat] /\ m \in Nat
          /\ \A x \in Symbols : puts[x] \in Nat
      BY <3>2 DEF TypeOK
    <3> HIDE DEF m
    <3> QED
      BY <3>1, <3>3
  <2> QED
    BY <2>1, <2>2, TypeStep, EventSecures
<1>21. ASSUME NEW s \in Symbols, Expire(s) PROVE PutSecured'
  <2>1. /\ pc' = pc /\ funds' = funds /\ todo' = todo /\ marks' = marks
        /\ legs' = legs /\ intents' = intents /\ sold' = sold
    BY <1>21 DEF Expire
  <2>2. \A x \in Symbols : /\ cash + spent[x] <= cash' + spent'[x]
                           /\ puts'[x] <= puts[x]
    <3>1. /\ cash' = cash /\ spent' = spent /\ puts' = [puts EXCEPT ![s] = 0]
      BY <1>21 DEF Expire
    <3>2. cash \in Int /\ spent \in [Symbols -> Nat] /\ \A x \in Symbols : puts[x] \in Nat
      BY DEF TypeOK
    <3>3. \A x \in Symbols : puts'[x] <= puts[x]
      BY <3>1, <3>2 DEF TypeOK
    <3> QED
      BY <3>1, <3>2, <3>3
  <2> QED
    BY <2>1, <2>2, TypeStep, EventSecures
<1>22. ASSUME NEW s \in Symbols, BuyElsewhere(s) PROVE PutSecured'
  <2>1. /\ pc' = pc /\ funds' = funds /\ todo' = todo /\ marks' = marks
        /\ legs' = legs /\ intents' = intents /\ sold' = sold
    BY <1>22 DEF BuyElsewhere
  <2>2. \A x \in Symbols : /\ cash + spent[x] <= cash' + spent'[x]
                           /\ puts'[x] <= puts[x]
    <3>1. /\ cash' = cash - Worth[s] /\ puts' = puts
          /\ spent' = [x \in Symbols |-> spent[x] + Worth[s]]
      BY <1>22 DEF BuyElsewhere, Pays
    <3>2. /\ cash \in Int /\ spent \in [Symbols -> Nat] /\ Worth[s] \in Nat
          /\ \A x \in Symbols : puts[x] \in Nat
      BY DEF TypeOK
    <3> QED
      BY <3>1, <3>2
  <2> QED
    BY <2>1, <2>2, TypeStep, EventSecures
<1>23. ASSUME NEW s \in Symbols, SellElsewhere(s) PROVE PutSecured'
  <2>1. /\ pc' = pc /\ funds' = funds /\ todo' = todo /\ marks' = marks
        /\ legs' = legs /\ intents' = intents /\ sold' = sold
    BY <1>23 DEF SellElsewhere
  <2>2. \A x \in Symbols : /\ cash + spent[x] <= cash' + spent'[x]
                           /\ puts'[x] <= puts[x]
    <3>1. /\ cash' = cash + Worth[s] /\ spent' = spent /\ puts' = puts
      BY <1>23 DEF SellElsewhere
    <3>2. /\ cash \in Int /\ spent \in [Symbols -> Nat] /\ Worth[s] \in Nat
          /\ \A x \in Symbols : puts[x] \in Nat
      BY DEF TypeOK
    <3> QED
      BY <3>1, <3>2
  <2> QED
    BY <2>1, <2>2, TypeStep, EventSecures
<1>24. CASE UNCHANGED vars
  BY <1>24 DEF PutSecured, PutsAtTarget, vars
<1> QED
  BY <1>1, <1>2, <1>3, <1>4, <1>5, <1>6, <1>7, <1>8, <1>9, <1>10, <1>11, <1>12,
     <1>13, <1>14, <1>15, <1>16, <1>17, <1>18, <1>19, <1>20, <1>21, <1>22, <1>23, <1>24
  DEF Next, Process

-----------------------------------------------------------------------------
\* Every step keeps the invariant.
THEOREM StepInv == IInv /\ [Next]_vars => IInv'
BY TypeStep, LegsShapeStep, StopOnceStep, LegOnceStep, CallBackedStep, PutSecuredStep
DEF IInv

\* The strengthened invariant holds of every reachable state.
THEOREM Invariance == Spec => []IInv
BY InitInv, StepInv, PTL DEF Spec

\* Type correctness: stops stay sequences of positive quantities, options and
\* what was sold of them are never negative.
THEOREM TypeCorrect == Spec => []TypeOK
<1>1. IInv => TypeOK
  BY DEF IInv
<1> QED
  BY <1>1, Invariance, PTL

\* The trailing stop places a second stop over a symbol only when it could not
\* read the open orders, whatever is lost or restarted.
THEOREM OneStopPerLongHolds == Spec => []OneStopPerLong
<1>1. IInv => OneStopPerLong
  BY DEF IInv, StopOnce
<1> QED
  BY <1>1, Invariance, PTL

\* The wheel sells each of its legs at most once: the marks written before the
\* intents survive every loss and restart.
THEOREM LegsSoldOnceHolds == Spec => []LegsSoldOnce
<1>1. IInv => LegsSoldOnce
  BY DEF IInv, LegOnce
<1> QED
  BY <1>1, Invariance, PTL

\* A call is naked only for lots that a stop, or somebody else, sold after the
\* wheel decided it (wheel.py: the shares are read, the trailing stop sells
\* the same shares).
THEOREM CallsCoveredHolds == Spec => []CallsCovered
<1>1. IInv => CallsCovered
  BY DEF IInv, CallBacked
<1> QED
  BY <1>1, Invariance, PTL

\* Each put, if it alone is assigned, overdraws the cash by no more than what
\* was paid for shares since the account was read for it and what the listed
\* contract costs above the target (wheel.py: the gate, before the contract is
\* selected).  The puts of several wheels count on the same cash: nothing is
\* proved, nor true, of all of them together.
THEOREM PutsSecuredAloneHolds == Spec => []PutsSecuredAlone
<1>1. ASSUME IInv PROVE PutsSecuredAlone
  <2>1. SUFFICES ASSUME NEW s \in Wheeled, puts[s] > 0
                 PROVE  Strike[s] <= cash + spent[s] + Dearer(s)
    BY DEF PutsSecuredAlone
  <2>2. Target[s] <= cash + spent[s]
    BY <1>1, <2>1 DEF IInv, PutSecured, PutsAtTarget
  <2>3. cash \in Int /\ spent[s] \in Nat /\ Target[s] \in Nat /\ Strike[s] \in Nat
    BY <1>1, ProtectionAssumption DEF IInv, TypeOK
  <2> QED
    BY <2>2, <2>3 DEF Dearer
<1> QED
  BY <1>1, Invariance, PTL

-----------------------------------------------------------------------------
(* The quantities of the stops.  StopsMatchPosition is not inductive: a    *)
(* stop that is on its way was sized by positions read earlier, so what it *)
(* asks for must be known before the broker has it, and it must be alone.  *)

StopsHeld ==
  /\ blind = 0 => twice = {}
  /\ \A s \in Symbols \ twice :
       /\ Len(stops[s]) <= 1
       /\ stops[s] # <<>> => held[s] = Total(stops[s]) + drift[s]
  /\ \A i \in intents : i.kind = "stop" /\ i.symbol \notin twice =>
       stops[i.symbol] = <<>> /\ held[i.symbol] = i.qty + drift[i.symbol]

\* What no stop and one stop ask for.
LEMMA TotalFact == Total(<<>>) = 0 /\ \A n \in Nat : Total(<<n>>) = n
<1>1. ASSUME NEW q PROVE Total(q) = Sum(q, DOMAIN q)
  BY DEF Total, FoldSeq, FoldFunction, Sum, FoldFunctionOnSet, MapThenFoldSet
<1>2. Total(<<>>) = 0
  <2>1. DOMAIN <<>> = {}
    OBVIOUS
  <2> QED
    BY <1>1, <2>1, SumEmpty
<1>3. ASSUME NEW n \in Nat PROVE Total(<<n>>) = n
  <2> DEFINE q == <<n>>
  <2>1. DOMAIN q = {} \union {1} /\ q[1] = n
    OBVIOUS
  <2>2. IsFiniteSet({}) /\ Ints(q, {})
    BY FS_EmptySet DEF Ints
  <2> HIDE DEF q
  <2>3. Sum(q, {} \union {1}) = q[1] + Sum(q, {})
    BY <2>1, <2>2, SumAdd
  <2>4. Total(q) = n
    BY <1>1, <2>1, <2>3, SumEmpty
  <2> QED
    BY <2>4 DEF q
<1> QED
  BY <1>2, <1>3

\* A step that moves a position by as much as it drifts, and sends no new stop.
LEMMA StopsHeldKept ==
  ASSUME TypeOK, TypeOK', StopsHeld, UNCHANGED <<twice, stops>>,
         blind' = 0 => blind = 0,
         \A s \in Symbols : held'[s] - drift'[s] = held[s] - drift[s],
         \A i \in intents' : i.kind = "stop" => i \in intents
  PROVE  StopsHeld'
<1>1. \A s \in Symbols : held[s] \in Int /\ drift[s] \in Int
  BY DEF TypeOK
<1>2. \A s \in Symbols : held'[s] \in Int /\ drift'[s] \in Int
  BY DEF TypeOK
<1>3. ASSUME NEW s \in Symbols, NEW n \in Int, held[s] = n + drift[s]
      PROVE  held'[s] = n + drift'[s]
  <2>1. held'[s] - drift'[s] = held[s] - drift[s]
    OBVIOUS
  <2> QED
    BY <1>1, <1>2, <1>3, <2>1
<1>4. ASSUME NEW s \in Symbols \ twice
      PROVE  /\ Len(stops'[s]) <= 1
             /\ stops'[s] # <<>> => held'[s] = Total(stops'[s]) + drift'[s]
  <2>1. /\ Len(stops[s]) <= 1 /\ stops'[s] = stops[s]
        /\ stops[s] # <<>> => held[s] = Total(stops[s]) + drift[s]
    BY <1>4 DEF StopsHeld
  <2>2. Total(stops[s]) \in Int
    <3> DEFINE q == stops[s]
    <3>1. q \in Seq(Nat \ {0})
      BY DEF TypeOK
    <3> HIDE DEF q
    <3>2. Ints(q, DOMAIN q) /\ IsFiniteSet(DOMAIN q)
      BY <3>1, FS_Interval DEF Ints
    <3>3. Total(q) = Sum(q, DOMAIN q)
      BY DEF Total, FoldSeq, FoldFunction, Sum, FoldFunctionOnSet, MapThenFoldSet
    <3>4. Total(q) \in Int
      BY <3>2, <3>3, SumInt
    <3> QED
      BY <3>4 DEF q
  <2>3. stops[s] # <<>> => held'[s] = Total(stops[s]) + drift'[s]
    BY <1>3, <1>4, <2>1, <2>2
  <2> QED
    BY <2>1, <2>3
<1>5. ASSUME NEW i \in intents', i.kind = "stop", i.symbol \notin twice
      PROVE  stops'[i.symbol] = <<>> /\ held'[i.symbol] = i.qty + drift'[i.symbol]
  <2>1. i \in intents /\ i.symbol \in Symbols /\ i.qty \in Int
    BY <1>5, IntentFact DEF TypeOK
  <2>2. stops[i.symbol] = <<>> /\ held[i.symbol] = i.qty + drift[i.symbol]
    BY <1>5, <2>1 DEF StopsHeld
  <2> QED
    BY <1>3, <2>1, <2>2
<1> QED
  BY <1>4, <1>5 DEF StopsHeld

LEMMA StopsHeldStep ==
  ASSUME IInv, StopsHeld, [Next]_vars
  PROVE  StopsHeld'
<1> USE ProtectionAssumption
<1> USE DEF brokerVars, cycleVars, positionHistory, historyVars, NoCycle, Event
<1>0. TypeOK /\ TypeOK'
  BY TypeStep DEF IInv
<1>1. ASSUME UNCHANGED <<twice, stops, held, drift>>, blind' = 0 => blind = 0,
             \A i \in intents' : i.kind = "stop" => i \in intents
      PROVE  StopsHeld'
  <2>1. \A s \in Symbols : held'[s] - drift'[s] = held[s] - drift[s]
    BY <1>1
  <2> QED
    BY <1>0, <1>1, <2>1, StopsHeldKept
<1>2. CASE \/ Begin \/ ReadOrders \/ ReadPositionsFails \/ ReadAccount \/ LevelTooLow
           \/ (\E s \in Wheeled : VisitSells(s) \/ VisitSkips(s)) \/ WheelRaises
           \/ (\E i \in intents : ExecuteLeg(i) \/ Lose(i)) \/ EndCycle \/ Crash \/ Restart
  <2>1. UNCHANGED <<blind, twice, stops, held, drift>> /\ intents' \subseteq intents
    BY <1>2 DEF Begin, ReadOrders, ReadPositionsFails, ReadAccount, LevelTooLow, VisitSells,
       VisitSkips, Visit, WheelRaises, ExecuteLeg, Lose, EndCycle, Crash, Restart
  <2> QED
    BY <1>1, <2>1
<1>3. CASE Hand
  <2>1. UNCHANGED <<blind, twice, stops, held, drift>> /\ intents' = intents \union legs
    BY <1>3 DEF Hand
  <2>2. \A i \in legs : i.kind # "stop"
    BY DEF IInv, LegsShape, Leg
  <2> QED
    BY <1>1, <2>1, <2>2
<1>4. CASE ReadOrdersFails
  <2>1. blind' = blind + 1 /\ blind \in Nat
    BY <1>0, <1>4 DEF ReadOrdersFails, TypeOK
  <2>2. UNCHANGED <<twice, stops, held, drift, intents>>
    BY <1>4 DEF ReadOrdersFails
  <2> QED
    BY <1>1, <2>1, <2>2
<1>5. CASE PlaceStops
  <2>1. /\ UNCHANGED <<blind, stops, held>>
        /\ intents' = {Stop(s) : s \in Uncovered}
        /\ twice' = (twice \ Uncovered) \union {s \in Uncovered : stops[s] # <<>>}
        /\ \A s \in Symbols : drift'[s] = IF s \in Uncovered THEN 0 ELSE drift[s]
    BY <1>5 DEF PlaceStops
  <2>2. Uncovered \subseteq Symbols \ covered /\ \A s \in Symbols : held[s] \in Int
    BY <1>0 DEF Uncovered, TypeOK
  <2>3. ASSUME blind = 0 PROVE twice' = {}
    <3>1. twice = {}
      BY <2>3 DEF StopsHeld
    <3>2. \A s \in Uncovered : stops[s] = <<>>
      <4>1. \A s \in Uncovered : Len(stops[s]) <= 0 /\ stops[s] \in Seq(Nat \ {0})
        BY <1>0, <1>5, <2>2, <2>3 DEF IInv, StopOnce, TypeOK, PlaceStops
      <4> QED
        BY <4>1
    <3> QED
      BY <2>1, <3>1, <3>2
  <2>4. ASSUME NEW s \in Symbols \ twice'
        PROVE  /\ Len(stops[s]) <= 1
               /\ stops[s] # <<>> => held[s] = Total(stops[s]) + drift'[s]
    <3>1. CASE s \in Uncovered
      <4>1. stops[s] = <<>>
        BY <2>1, <2>4, <3>1
      <4> QED
        BY <4>1
    <3>2. CASE s \notin Uncovered
      <4>1. s \notin twice /\ drift'[s] = drift[s]
        BY <2>1, <2>4, <3>2
      <4> QED
        BY <4>1 DEF StopsHeld
    <3> QED
      BY <3>1, <3>2
  <2>5. ASSUME NEW i \in intents', i.symbol \notin twice'
        PROVE  stops[i.symbol] = <<>> /\ held[i.symbol] = i.qty + drift'[i.symbol]
    <3>1. PICK s \in Uncovered : i = Stop(s)
      BY <2>1
    <3>2. i.symbol = s /\ i.qty = held[s] /\ drift'[s] = 0
      BY <2>1, <2>2, <3>1 DEF Stop
    <3>3. stops[s] = <<>>
      BY <2>1, <2>5, <3>2
    <3>4. held[s] = held[s] + 0
      BY <2>2
    <3> QED
      BY <3>2, <3>3, <3>4
  <2> QED
    BY <2>1, <2>3, <2>4, <2>5 DEF StopsHeld
<1>6. ASSUME NEW i \in intents, ExecuteStop(i) PROVE StopsHeld'
  <2>1. /\ UNCHANGED <<blind, twice, held, drift>> /\ intents' = intents \ {i} /\ i.kind = "stop"
        /\ stops' = [stops EXCEPT ![i.symbol] = Append(stops[i.symbol], i.qty)]
    BY <1>6 DEF ExecuteStop
  <2>2. i.symbol \in Symbols /\ i.qty \in Nat
    BY <1>0, IntentFact DEF TypeOK
  <2>3. \A s \in Symbols : s # i.symbol => stops'[s] = stops[s]
    BY <1>0, <2>1, <2>2 DEF TypeOK
  <2>4. \A j \in intents' : j.kind = "stop" => j.symbol # i.symbol /\ j.symbol \in Symbols
    <3>1. \A j \in intents : j.kind = "stop" /\ j.symbol = i.symbol => j = i
      BY <2>1 DEF IInv, StopOnce
    <3>2. \A j \in intents : j.symbol \in Symbols
      BY <1>0, IntentFact DEF TypeOK
    <3> QED
      BY <2>1, <3>1, <3>2
  <2>5. ASSUME i.symbol \notin twice
        PROVE  stops'[i.symbol] = <<i.qty>> /\ held[i.symbol] = i.qty + drift[i.symbol]
    <3>1. stops[i.symbol] = <<>> /\ held[i.symbol] = i.qty + drift[i.symbol]
      BY <2>1, <2>5 DEF StopsHeld
    <3>2. stops'[i.symbol] = Append(stops[i.symbol], i.qty)
      BY <1>0, <2>1, <2>2 DEF TypeOK
    <3> QED
      BY <3>1, <3>2
  <2>6. ASSUME NEW s \in Symbols \ twice
        PROVE  /\ Len(stops'[s]) <= 1
               /\ stops'[s] # <<>> => held[s] = Total(stops'[s]) + drift[s]
    <3>1. CASE s = i.symbol
      <4>1. Len(<<i.qty>>) = 1 /\ Total(<<i.qty>>) = i.qty
        BY <2>2, TotalFact
      <4> QED
        <5>1. stops'[s] = <<i.qty>> /\ held[s] = i.qty + drift[s]
          BY <2>5, <2>6, <3>1
        <5>2. Total(stops'[s]) = i.qty
          BY <4>1, <5>1, Zenon
        <5>3. Len(stops'[s]) <= 1
          BY <4>1, <5>1
        <5> QED
          BY <5>1, <5>2, <5>3
    <3>2. CASE s # i.symbol
      BY <2>3, <2>6, <3>2 DEF StopsHeld
    <3> QED
      BY <3>1, <3>2
  <2>7. ASSUME NEW j \in intents', j.kind = "stop", j.symbol \notin twice
        PROVE  stops'[j.symbol] = <<>> /\ held[j.symbol] = j.qty + drift[j.symbol]
    BY <2>1, <2>3, <2>4, <2>7 DEF StopsHeld
  <2>8. blind = 0 => twice = {}
    BY DEF StopsHeld
  <2> QED
    BY <2>1, <2>6, <2>7, <2>8 DEF StopsHeld
<1>7. ASSUME NEW s \in Symbols, NEW k \in DOMAIN stops[s], Trigger(s, k) PROVE StopsHeld'
  <2>1. /\ UNCHANGED <<blind, twice, drift, intents>>
        /\ held' = [held EXCEPT ![s] = held[s] - stops[s][k]]
        /\ stops' = [stops EXCEPT ![s] = RemoveAt(stops[s], k)]
    BY <1>7 DEF Trigger
  <2>2. \A x \in Symbols : x # s => stops'[x] = stops[x] /\ held'[x] = held[x]
    <3>1. held \in [Symbols -> Int] /\ DOMAIN stops = Symbols
      BY <1>0 DEF TypeOK
    <3> QED
      BY <2>1, <3>1, Zenon
  <2>3. stops[s] \in Seq(Nat \ {0}) /\ k \in 1..Len(stops[s]) /\ stops[s] # <<>>
    <3>1. stops[s] \in Seq(Nat \ {0}) /\ k \in DOMAIN stops[s]
      BY <1>0, <1>7 DEF TypeOK
    <3>2. k \in 1..Len(stops[s])
      BY <3>1
    <3> QED
      BY <3>1, <3>2
  <2>4. ASSUME s \notin twice PROVE stops'[s] = <<>>
    <3>1. Len(stops[s]) <= 1
      BY <2>4 DEF StopsHeld
    <3>2. stops[s] = <<stops[s][1]>> /\ k = 1
      BY <2>3, <3>1
    <3>3. RemoveAt(<<stops[s][1]>>, 1) = <<>>
      BY <2>3 DEF RemoveAt
    <3>4. stops'[s] = RemoveAt(stops[s], k)
      BY <1>0, <2>1 DEF TypeOK
    <3> QED
      BY <3>2, <3>3, <3>4
  <2>5. ASSUME NEW x \in Symbols \ twice
        PROVE  /\ Len(stops'[x]) <= 1
               /\ stops'[x] # <<>> => held'[x] = Total(stops'[x]) + drift[x]
    <3>1. CASE x = s
      BY <2>4, <2>5, <3>1
    <3>2. CASE x # s
      BY <2>2, <2>5, <3>2 DEF StopsHeld
    <3> QED
      BY <3>1, <3>2
  <2>6. ASSUME NEW i \in intents, i.kind = "stop", i.symbol \notin twice
        PROVE  stops'[i.symbol] = <<>> /\ held'[i.symbol] = i.qty + drift[i.symbol]
    <3>1. stops[i.symbol] = <<>> /\ held[i.symbol] = i.qty + drift[i.symbol]
      BY <2>6 DEF StopsHeld
    <3>2. i.symbol \in Symbols /\ i.symbol # s
      BY <1>0, <2>3, <3>1, IntentFact DEF TypeOK
    <3> QED
      BY <2>2, <3>1, <3>2
  <2>7. blind = 0 => twice = {}
    BY DEF StopsHeld
  <2> QED
    BY <2>1, <2>5, <2>6, <2>7 DEF StopsHeld
<1>8. ASSUME NEW s \in Symbols,
             \/ PutAssigned(s) \/ CallAssigned(s) \/ Expire(s) \/ BuyElsewhere(s) \/ SellElsewhere(s)
      PROVE  StopsHeld'
  <2>1. UNCHANGED <<blind, twice, stops, intents>>
    BY <1>8 DEF PutAssigned, CallAssigned, Expire, BuyElsewhere, SellElsewhere
  <2>2. held \in [Symbols -> Int] /\ drift \in [Symbols -> Int]
    BY <1>0 DEF TypeOK
  <2>3. calls[s] \in Nat /\ puts[s] \in Nat
    BY <1>0 DEF TypeOK
  <2>4. \A x \in Symbols : held'[x] - drift'[x] = held[x] - drift[x]
    <3>1. CASE PutAssigned(s)
      BY <2>2, <2>3, <3>1 DEF PutAssigned, Drifts
    <3>2. CASE CallAssigned(s)
      BY <2>2, <2>3, <3>2 DEF CallAssigned, Drifts
    <3>3. CASE Expire(s)
      BY <3>3 DEF Expire
    <3>4. CASE BuyElsewhere(s)
      BY <2>2, <3>4 DEF BuyElsewhere, Drifts
    <3>5. CASE SellElsewhere(s)
      BY <2>2, <3>5 DEF SellElsewhere, Drifts
    <3> QED
      BY <1>8, <3>1, <3>2, <3>3, <3>4, <3>5
  <2> QED
    BY <1>0, <2>1, <2>4, StopsHeldKept
<1>9. CASE UNCHANGED vars
  BY <1>1, <1>9 DEF vars
<1> QED
  BY <1>2, <1>3, <1>4, <1>5, <1>6, <1>7, <1>8, <1>9 DEF Next, Process

\* The stops of a symbol ask together for exactly what is held, but for the
\* lots that came or left in another way since the last of them was asked for,
\* and but for a symbol for which a stop was asked for over an open one, after
\* a failed read of the open orders: for any quantities, and whatever is lost,
\* restarted or moved elsewhere meanwhile (trailing_stop.py: one stop over the
\* whole of what is held).
THEOREM StopsMatchPositionHolds == Spec => []StopsMatchPosition
<1>1. Init => StopsHeld
  BY DEF Init, StopsHeld
<1>2. IInv /\ StopsHeld /\ [Next]_vars => StopsHeld'
  BY StopsHeldStep
<1>3. StopsHeld => StopsMatchPosition
  BY DEF StopsHeld, StopsMatchPosition
<1> QED
  BY Invariance, <1>1, <1>2, <1>3, PTL DEF Spec
=============================================================================
