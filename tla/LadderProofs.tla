---------------------------- MODULE LadderProofs ----------------------------
(***************************************************************************)
(* Machine-checked proofs about Ladder, for any symbols, prices, anchors,  *)
(* number of rungs and percentages, and any number of lost intents,        *)
(* exceptions and crashes.                                                 *)
(***************************************************************************)
EXTENDS Ladder, FiniteSetTheorems, TLAPS

-----------------------------------------------------------------------------
(* The inductive invariant *)

\* A symbol in hand is off the list of those to visit, has an anchor once its
\* price was read, and none of the intents produced so far is about it but
\* for the rungs the loop has passed.
CycleShape ==
  /\ pc \in {"stop", "reset", "rungs"} => cur \in Symbols \ todo
  /\ pc \notin {"reset", "rungs"} => index = 1
  /\ pc \in {"stop", "rungs"} => anchor[cur] # None
  /\ pc \in {"idle", "down"} => intents = {}
  /\ \A i \in intents : i.symbol \notin todo
  /\ pc \in {"stop", "reset"} => \A i \in intents : i.symbol # cur
  /\ pc = "rungs" =>
       \A i \in intents : i.symbol = cur => i.side = "buy" /\ i.rung < index

\* A rung that is not marked was not bought and is not about to be; one that
\* is about to be bought was not bought before.
BuysOnce ==
  /\ RungOnce
  /\ \A s \in Symbols, r \in Rungs : r \notin filled[s] => bought[s][r] = 0
  /\ \A i \in intents : i.side = "buy" =>
       i.rung \in filled[i.symbol] /\ bought[i.symbol][i.rung] = 0

\* The reset has deleted the rungs below the index, and its sale will ask
\* for what is held.
ResetShape ==
  pc = "reset" => /\ \A r \in Rungs : r < index => r \notin filled[cur]
                  /\ anchor[cur] = None
                  /\ selling = held[cur]

\* What is held was bought on rungs since their last deletion, or before a
\* reset that has not sold it.
Bought(s) == {r \in Rungs : bought[s][r] = 1}
HeldWasBought ==
  /\ \A s \in Symbols : held[s] <= N * rearms[s] + Cardinality(Bought(s))
  /\ pc = "reset" => held[cur] <= N * rearms[cur]

IInv ==
  /\ TypeOK
  /\ CycleShape
  /\ BuysOnce
  /\ ResetShape
  /\ SaleIsWhole
  /\ RearmsFromZero
  /\ HeldWasBought

-----------------------------------------------------------------------------
(* Data *)

\* The rungs are numbered from one.
LEMMA RungsFact == Rungs = 1..N /\ N \in Nat /\ IsFiniteSet(Rungs)
<1>1. Rungs = 1..N /\ N \in Nat
  BY LadderAssumption DEF Rungs
<1>2. IsFiniteSet(1..N)
  BY <1>1, FS_Interval
<1> QED
  BY <1>1, <1>2

\* A buy and a sale are told apart by their side.
LEMMA IntentFact ==
  ASSUME NEW i \in Intent
  PROVE  /\ i.symbol \in Symbols
         /\ i.side \in {"buy", "sell"}
         /\ i.side = "buy" => /\ i.rung \in Rungs
                              /\ i = [symbol |-> i.symbol, side |-> "buy", rung |-> i.rung]
         /\ i.side = "sell" => i.qty \in Nat
  BY DEF Intent

\* Adding one to the bought rungs counts one more.
LEMMA BoughtFact ==
  ASSUME NEW S \in SUBSET Rungs
  PROVE  /\ IsFiniteSet(S) /\ Cardinality(S) \in Nat /\ Cardinality(S) <= N
         /\ \A r \in Rungs \ S : Cardinality(S \union {r}) = Cardinality(S) + 1
<1>1. IsFiniteSet(S) /\ Cardinality(S) <= Cardinality(Rungs)
  BY RungsFact, FS_Subset
<1>2. Cardinality(S) \in Nat
  BY <1>1, FS_CardinalityType
<1>3. \A r \in Rungs \ S : Cardinality(S \union {r}) = Cardinality(S) + 1
  BY <1>1, FS_AddElement
<1> QED
  BY <1>1, <1>2, <1>3 DEF N

-----------------------------------------------------------------------------
THEOREM InitInv == Init => IInv
<1> SUFFICES ASSUME Init PROVE IInv
  OBVIOUS
<1> USE RungsFact, LadderAssumption
<1>1. TypeOK
  BY DEF Init, TypeOK, Intent
<1>2. CycleShape /\ BuysOnce /\ ResetShape
  BY DEF Init, CycleShape, BuysOnce, ResetShape, RungOnce
<1>3. SaleIsWhole /\ RearmsFromZero
  BY DEF Init, SaleIsWhole, RearmsFromZero
<1>4. HeldWasBought
  <2>1. ASSUME NEW s \in Symbols
        PROVE  held[s] <= N * rearms[s] + Cardinality(Bought(s))
    <3>1. Cardinality(Bought(s)) \in Nat
      BY BoughtFact DEF Bought
    <3> QED
      BY <3>1 DEF Init
  <2> QED
    BY <2>1 DEF HeldWasBought, Init
<1> QED
  BY <1>1, <1>2, <1>3, <1>4 DEF IInv

-----------------------------------------------------------------------------
\* Every step keeps the types.
LEMMA TypeStep ==
  ASSUME IInv, [Next]_vars
  PROVE  TypeOK'
<1> USE RungsFact, LadderAssumption
<1> USE DEF marketVars, ladderVars, decisionVars, visitVars, historyVars, IInv, Fault, NoVisit
<1>1. ASSUME NEW open \in BOOLEAN, Begin(open) PROVE TypeOK'
  BY <1>1 DEF TypeOK, Begin
<1>2. ASSUME NEW s \in Symbols, NEW p \in Prices, Move(s, p) PROVE TypeOK'
  BY <1>2 DEF TypeOK, Move
<1>3. ASSUME NEW s \in Symbols, Visit(s) PROVE TypeOK'
  BY <1>3 DEF TypeOK, Visit
<1>4. ASSUME Invalidate PROVE TypeOK'
  <2>1. cur \in Symbols /\ held[cur] \in Nat /\ rearms[cur] + 1 \in Nat
    BY <1>4 DEF TypeOK, CycleShape, Invalidate
  <2>2. anchor' \in [Symbols -> (Nat \ {0}) \union {None}]
    BY <1>4, <2>1 DEF TypeOK, Invalidate
  <2> QED
    BY <1>4, <2>1, <2>2 DEF TypeOK, Invalidate
<1>5. ASSUME StopHolds PROVE TypeOK'
  BY <1>5 DEF TypeOK, StopHolds
<1>6. ASSUME DeleteRung PROVE TypeOK'
  <2>1. cur \in Symbols /\ index + 1 \in 1..(N + 1)
    BY <1>6 DEF TypeOK, CycleShape, DeleteRung
  <2> QED
    BY <1>6, <2>1 DEF TypeOK, DeleteRung
<1>7. ASSUME Liquidate PROVE TypeOK'
  <2>1. [symbol |-> cur, side |-> "sell", qty |-> selling] \in Intent
    BY <1>7 DEF TypeOK, CycleShape, Liquidate, Intent
  <2> QED
    BY <1>7, <2>1 DEF TypeOK, Liquidate
<1>8. ASSUME Rung PROVE TypeOK'
  <2>1. cur \in Symbols /\ index \in Rungs /\ index + 1 \in 1..(N + 1)
    BY <1>8 DEF TypeOK, CycleShape, Rung
  <2>2. [symbol |-> cur, side |-> "buy", rung |-> index] \in Intent
    BY <2>1 DEF Intent
  <2>3. filled' \in [Symbols -> SUBSET Rungs] /\ intents' \subseteq Intent
    <3>1. CASE Triggered
      <4>1. filled[cur] \union {index} \in SUBSET Rungs
        BY <2>1 DEF TypeOK
      <4>2. /\ filled' = [filled EXCEPT ![cur] = filled[cur] \union {index}]
            /\ intents' = intents \union {[symbol |-> cur, side |-> "buy", rung |-> index]}
        BY <1>8, <3>1 DEF Rung
      <4>3. filled' \in [Symbols -> SUBSET Rungs]
        BY <2>1, <4>1, <4>2 DEF TypeOK
      <4>4. intents' \subseteq Intent
        BY <2>2, <4>2 DEF TypeOK
      <4> QED
        BY <4>3, <4>4
    <3>2. CASE ~Triggered
      BY <1>8, <3>2 DEF TypeOK, Rung
    <3> QED
      BY <3>1, <3>2
  <2> QED
    BY <1>8, <2>1, <2>3 DEF TypeOK, Rung
<1>9. ASSUME Leave PROVE TypeOK'
  <2>1. cur' = None /\ quote' \in Nat /\ index' \in 1..(N + 1) /\ selling' \in Nat
    BY <1>9 DEF Leave
  <2> QED
    BY <1>9, <2>1 DEF TypeOK, Leave
<1>10. ASSUME NEW regime \in [Symbols -> Regimes], Hand(regime) PROVE TypeOK'
  BY <1>10 DEF TypeOK, Hand
<1>11. ASSUME NEW i \in intents, Buy(i) PROVE TypeOK'
  <2>1. /\ i.symbol \in Symbols /\ i.rung \in Rungs
        /\ held[i.symbol] \in Nat /\ bought[i.symbol][i.rung] \in Nat
    BY <1>11, IntentFact DEF TypeOK, Buy
  <2>2. bought' \in [Symbols -> [Rungs -> Nat]]
    <3> DEFINE row == [bought[i.symbol] EXCEPT ![i.rung] = bought[i.symbol][i.rung] + 1]
    <3>0. bought[i.symbol] \in [Rungs -> Nat]
      BY <2>1 DEF TypeOK
    <3>1. row \in [Rungs -> Nat]
      <4> DEFINE f == bought[i.symbol]
      <4>1. f \in [Rungs -> Nat]
        BY <3>0
      <4>2. f[i.rung] \in Nat /\ i.rung \in Rungs
        BY <2>1
      <4> HIDE DEF f
      <4>3. f[i.rung] + 1 \in Nat
        BY <4>2
      <4>4. [f EXCEPT ![i.rung] = f[i.rung] + 1] \in [Rungs -> Nat]
        BY <4>1, <4>2, <4>3
      <4> QED
        BY <4>4 DEF f
    <3>2. bought' = [bought EXCEPT ![i.symbol] = row]
      BY <1>11, <2>1 DEF TypeOK, Buy
    <3> HIDE DEF row
    <3> QED
      BY <2>1, <3>1, <3>2 DEF TypeOK
  <2>3. held' \in [Symbols -> Nat]
    BY <1>11, <2>1 DEF TypeOK, Buy
  <2>4. paid' \in [Symbols -> Nat \union {None}]
    BY <1>11, <2>1 DEF TypeOK, Buy
  <2> QED
    BY <1>11, <2>2, <2>3, <2>4 DEF TypeOK, Buy
<1>12. ASSUME NEW i \in intents, Sell(i) PROVE TypeOK'
  <2>1. i.symbol \in Symbols /\ held[i.symbol] - i.qty = 0
    BY <1>12, IntentFact DEF TypeOK, Sell, SaleIsWhole
  <2> QED
    BY <1>12, <2>1, SMTT(20) DEF TypeOK, Sell
<1>13. ASSUME EndCycle PROVE TypeOK'
  BY <1>13 DEF TypeOK, EndCycle
<1>14. ASSUME Restart PROVE TypeOK'
  BY <1>14 DEF TypeOK, Restart
<1>15. ASSUME Raise PROVE TypeOK'
  BY <1>15, SMTT(20) DEF TypeOK, Raise
<1>16. ASSUME NEW i \in intents, Lose(i) PROVE TypeOK'
  BY <1>16 DEF TypeOK, Lose
<1>17. ASSUME Crash PROVE TypeOK'
  BY <1>17 DEF TypeOK, CycleShape, Crash
<1>18. CASE UNCHANGED vars
  BY <1>18 DEF TypeOK, vars, vars
<1> QED
  BY <1>1, <1>2, <1>3, <1>4, <1>5, <1>6, <1>7, <1>8, <1>9,
     <1>10, <1>11, <1>12, <1>13, <1>14, <1>15, <1>16, <1>17, <1>18
  DEF Next, Process

\* Every step keeps what is in hand apart from what is done and to do.
LEMMA CycleShapeStep ==
  ASSUME IInv, [Next]_vars
  PROVE  CycleShape'
<1> USE RungsFact, LadderAssumption
<1> USE DEF marketVars, ladderVars, decisionVars, visitVars, historyVars, IInv, Fault, NoVisit
<1>1. ASSUME NEW open \in BOOLEAN, Begin(open) PROVE CycleShape'
  BY <1>1 DEF TypeOK, CycleShape, Begin
<1>2. ASSUME NEW s \in Symbols, NEW p \in Prices, Move(s, p) PROVE CycleShape'
  BY <1>2 DEF TypeOK, CycleShape, Move
<1>3. ASSUME NEW s \in Symbols, Visit(s) PROVE CycleShape'
  <2>1. anchor'[s] # None
    BY <1>3 DEF TypeOK, Visit
  <2> QED
    BY <1>3, <2>1 DEF TypeOK, CycleShape, Visit
<1>4. ASSUME Invalidate PROVE CycleShape'
  BY <1>4 DEF TypeOK, CycleShape, Invalidate
<1>5. ASSUME StopHolds PROVE CycleShape'
  BY <1>5 DEF TypeOK, CycleShape, StopHolds
<1>6. ASSUME DeleteRung PROVE CycleShape'
  BY <1>6 DEF TypeOK, CycleShape, DeleteRung
<1>7. ASSUME Liquidate PROVE CycleShape'
  <2>1. cur \in Symbols \ todo
    BY <1>7 DEF CycleShape, Liquidate
  <2>2. \A j \in intents' : j.symbol \notin todo
    BY <1>7, <2>1 DEF CycleShape, Liquidate
  <2> QED
    BY <1>7, <2>2 DEF CycleShape, Liquidate
<1>8. ASSUME Rung PROVE CycleShape'
  <2>1. cur \in Symbols \ todo /\ anchor[cur] # None
    BY <1>8 DEF CycleShape, Rung
  <2> DEFINE b == [symbol |-> cur, side |-> "buy", rung |-> index]
  <2>2. \A j \in intents' : j \in intents \/ j = b
    BY <1>8 DEF Rung
  <2>3. index \in Nat /\ \A j \in intents : j.side = "buy" => j.rung \in Nat
    BY RungsFact, IntentFact DEF TypeOK
  <2>4. \A j \in intents' : j.symbol \notin todo /\ (j.symbol = cur => j.side = "buy" /\ j.rung < index + 1)
    BY <1>8, <2>1, <2>2, <2>3 DEF CycleShape, Rung
  <2> QED
    BY <1>8, <2>1, <2>4 DEF CycleShape, Rung
<1>9. ASSUME Leave PROVE CycleShape'
  BY <1>9 DEF TypeOK, CycleShape, Leave
<1>10. ASSUME NEW regime \in [Symbols -> Regimes], Hand(regime) PROVE CycleShape'
  BY <1>10 DEF TypeOK, CycleShape, Hand
<1>11. ASSUME NEW i \in intents, Buy(i) PROVE CycleShape'
  BY <1>11 DEF TypeOK, CycleShape, Buy
<1>12. ASSUME NEW i \in intents, Sell(i) PROVE CycleShape'
  BY <1>12 DEF TypeOK, CycleShape, Sell
<1>13. ASSUME EndCycle PROVE CycleShape'
  BY <1>13 DEF TypeOK, CycleShape, EndCycle
<1>14. ASSUME Restart PROVE CycleShape'
  BY <1>14 DEF TypeOK, CycleShape, Restart
<1>15. ASSUME Raise PROVE CycleShape'
  BY <1>15 DEF TypeOK, CycleShape, Raise
<1>16. ASSUME NEW i \in intents, Lose(i) PROVE CycleShape'
  BY <1>16 DEF TypeOK, CycleShape, Lose
<1>17. ASSUME Crash PROVE CycleShape'
  BY <1>17 DEF TypeOK, CycleShape, Crash
<1>18. CASE UNCHANGED vars
  BY <1>18 DEF TypeOK, CycleShape, vars, vars
<1> QED
  BY <1>1, <1>2, <1>3, <1>4, <1>5, <1>6, <1>7, <1>8, <1>9,
     <1>10, <1>11, <1>12, <1>13, <1>14, <1>15, <1>16, <1>17, <1>18
  DEF Next, Process

\* Every step keeps each rung bought at most once.
LEMMA BuysOnceStep ==
  ASSUME IInv, [Next]_vars
  PROVE  BuysOnce'
<1> USE RungsFact, LadderAssumption
<1> USE DEF marketVars, ladderVars, decisionVars, visitVars, historyVars, IInv, Fault, NoVisit
<1>1. ASSUME NEW open \in BOOLEAN, Begin(open) PROVE BuysOnce'
  BY <1>1 DEF TypeOK, BuysOnce, RungOnce, Begin
<1>2. ASSUME NEW s \in Symbols, NEW p \in Prices, Move(s, p) PROVE BuysOnce'
  BY <1>2 DEF TypeOK, BuysOnce, RungOnce, Move
<1>3. ASSUME NEW s \in Symbols, Visit(s) PROVE BuysOnce'
  BY <1>3 DEF TypeOK, BuysOnce, RungOnce, Visit
<1>4. ASSUME Invalidate PROVE BuysOnce'
  BY <1>4 DEF TypeOK, BuysOnce, RungOnce, Invalidate
<1>5. ASSUME StopHolds PROVE BuysOnce'
  BY <1>5 DEF TypeOK, BuysOnce, RungOnce, StopHolds
<1>6. ASSUME DeleteRung PROVE BuysOnce'
  <2>1. cur \in Symbols /\ index \in Rungs /\ \A j \in intents : j.symbol # cur
    BY <1>6 DEF CycleShape, TypeOK, DeleteRung
  <2> DEFINE row == [bought[cur] EXCEPT ![index] = 0]
  <2>2. /\ bought' = [bought EXCEPT ![cur] = row]
        /\ filled' = [filled EXCEPT ![cur] = filled[cur] \ {index}]
        /\ intents' = intents
    BY <1>6, <2>1 DEF TypeOK, DeleteRung
  <2>3. \A r \in Rungs : row[r] = IF r = index THEN 0 ELSE bought[cur][r]
    BY <2>1 DEF TypeOK
  <2> HIDE DEF row
  <2>4. \A s \in Symbols, r \in Rungs :
          bought'[s][r] = IF s = cur /\ r = index THEN 0 ELSE bought[s][r]
    BY <2>1, <2>2, <2>3 DEF TypeOK
  <2>5. \A s \in Symbols : filled'[s] = IF s = cur THEN filled[s] \ {index} ELSE filled[s]
    BY <2>1, <2>2 DEF TypeOK
  <2>6. \A j \in intents : j.symbol \in Symbols /\ (j.side = "buy" => j.rung \in Rungs)
    BY IntentFact DEF TypeOK
  <2> QED
    BY <2>1, <2>2, <2>4, <2>5, <2>6 DEF BuysOnce, RungOnce
<1>7. ASSUME Liquidate PROVE BuysOnce'
  <2>1. \A j \in intents' : j.side = "buy" => j \in intents
    BY <1>7 DEF Liquidate
  <2> QED
    BY <1>7, <2>1 DEF BuysOnce, RungOnce, Liquidate
<1>8. ASSUME Rung PROVE BuysOnce'
  <2>1. cur \in Symbols /\ index \in Rungs
    BY <1>8 DEF CycleShape, TypeOK, Rung
  <2>2. CASE Triggered
    <3> DEFINE b == [symbol |-> cur, side |-> "buy", rung |-> index]
    <3>1. /\ bought[cur][index] = 0
          /\ bought' = bought
          /\ filled' = [filled EXCEPT ![cur] = filled[cur] \union {index}]
          /\ \A j \in intents' : j \in intents \/ j = b
      BY <1>8, <2>1, <2>2 DEF BuysOnce, Triggered, Rung
    <3>2. \A s \in Symbols :
            filled'[s] = IF s = cur THEN filled[s] \union {index} ELSE filled[s]
      BY <2>1, <3>1 DEF TypeOK
    <3>3. \A j \in intents : j.symbol \in Symbols
      BY IntentFact DEF TypeOK
    <3>4. \A j \in intents' : j.side = "buy" =>
            j.rung \in filled'[j.symbol] /\ bought[j.symbol][j.rung] = 0
      <4>1. /\ b.symbol = cur /\ b.rung = index
            /\ index \in filled'[cur]
        BY <2>1, <3>2
      <4> HIDE DEF b
      <4>2. \A j \in intents : j.side = "buy" =>
              j.rung \in filled'[j.symbol] /\ bought[j.symbol][j.rung] = 0
        BY <3>2, <3>3 DEF BuysOnce
      <4> QED
        BY <3>1, <4>1, <4>2
    <3>5. \A s \in Symbols, r \in Rungs : r \notin filled'[s] => bought[s][r] = 0
      BY <3>2 DEF BuysOnce
    <3> QED
      BY <3>1, <3>4, <3>5 DEF BuysOnce, RungOnce
  <2>3. CASE ~Triggered
    BY <1>8, <2>3 DEF BuysOnce, RungOnce, Rung
  <2> QED
    BY <2>2, <2>3
<1>9. ASSUME Leave PROVE BuysOnce'
  BY <1>9 DEF TypeOK, BuysOnce, RungOnce, Leave
<1>10. ASSUME NEW regime \in [Symbols -> Regimes], Hand(regime) PROVE BuysOnce'
  BY <1>10 DEF TypeOK, BuysOnce, RungOnce, Hand
<1>11. ASSUME NEW i \in intents, Buy(i) PROVE BuysOnce'
  <2>1. i.symbol \in Symbols /\ i.rung \in Rungs
    BY <1>11, IntentFact DEF TypeOK, Buy
  <2>2. /\ bought[i.symbol][i.rung] = 0 /\ i.rung \in filled[i.symbol]
        /\ filled' = filled
        /\ intents' = intents \ {i}
    BY <1>11 DEF BuysOnce, Buy
  <2> DEFINE row == [bought[i.symbol] EXCEPT ![i.rung] = bought[i.symbol][i.rung] + 1]
  <2>3. bought' = [bought EXCEPT ![i.symbol] = row]
    BY <1>11, <2>1 DEF TypeOK, Buy
  <2>4. \A r \in Rungs : row[r] = IF r = i.rung THEN 1 ELSE bought[i.symbol][r]
    <3>1. bought[i.symbol] \in [Rungs -> Nat] /\ bought[i.symbol][i.rung] + 1 = 1
      BY <2>1, <2>2 DEF TypeOK
    <3> QED
      BY <2>1, <3>1
  <2> HIDE DEF row
  <2>5. \A s \in Symbols, r \in Rungs :
          bought'[s][r] = IF s = i.symbol /\ r = i.rung THEN 1 ELSE bought[s][r]
    BY <2>1, <2>3, <2>4 DEF TypeOK
  <2>6. \A j \in intents : j.side = "buy" =>
          /\ j.symbol \in Symbols /\ j.rung \in Rungs
          /\ j.symbol = i.symbol /\ j.rung = i.rung => j = i
    <3>1. i = [symbol |-> i.symbol, side |-> "buy", rung |-> i.rung]
      BY <1>11, IntentFact DEF TypeOK, Buy
    <3>2. \A j \in intents : j.side = "buy" =>
            /\ j.symbol \in Symbols /\ j.rung \in Rungs
            /\ j = [symbol |-> j.symbol, side |-> "buy", rung |-> j.rung]
      BY IntentFact DEF TypeOK
    <3> QED
      BY <3>1, <3>2
  <2>7. \A j \in intents' : j.side = "buy" =>
          j.rung \in filled[j.symbol] /\ bought'[j.symbol][j.rung] = 0
    BY <2>2, <2>5, <2>6 DEF BuysOnce
  <2> QED
    BY <2>2, <2>5, <2>7 DEF BuysOnce, RungOnce
<1>12. ASSUME NEW i \in intents, Sell(i) PROVE BuysOnce'
  BY <1>12 DEF TypeOK, BuysOnce, RungOnce, Sell
<1>13. ASSUME EndCycle PROVE BuysOnce'
  BY <1>13 DEF TypeOK, BuysOnce, RungOnce, EndCycle
<1>14. ASSUME Restart PROVE BuysOnce'
  BY <1>14 DEF TypeOK, BuysOnce, RungOnce, Restart
<1>15. ASSUME Raise PROVE BuysOnce'
  BY <1>15 DEF TypeOK, BuysOnce, RungOnce, Raise
<1>16. ASSUME NEW i \in intents, Lose(i) PROVE BuysOnce'
  BY <1>16 DEF TypeOK, BuysOnce, RungOnce, Lose
<1>17. ASSUME Crash PROVE BuysOnce'
  BY <1>17 DEF TypeOK, BuysOnce, RungOnce, Crash
<1>18. CASE UNCHANGED vars
  BY <1>18 DEF TypeOK, BuysOnce, RungOnce, vars, vars
<1> QED
  BY <1>1, <1>2, <1>3, <1>4, <1>5, <1>6, <1>7, <1>8, <1>9,
     <1>10, <1>11, <1>12, <1>13, <1>14, <1>15, <1>16, <1>17, <1>18
  DEF Next, Process

\* Every step of a reset deletes a rung; nothing changes the position meanwhile.
LEMMA ResetShapeStep ==
  ASSUME IInv, [Next]_vars
  PROVE  ResetShape'
<1> USE RungsFact, LadderAssumption
<1> USE DEF marketVars, ladderVars, decisionVars, visitVars, historyVars, IInv, Fault, NoVisit
<1>1. ASSUME NEW open \in BOOLEAN, Begin(open) PROVE ResetShape'
  BY <1>1 DEF TypeOK, CycleShape, ResetShape, Begin
<1>2. ASSUME NEW s \in Symbols, NEW p \in Prices, Move(s, p) PROVE ResetShape'
  BY <1>2 DEF TypeOK, CycleShape, ResetShape, Move
<1>3. ASSUME NEW s \in Symbols, Visit(s) PROVE ResetShape'
  BY <1>3 DEF TypeOK, CycleShape, ResetShape, Visit
<1>4. ASSUME Invalidate PROVE ResetShape'
  BY <1>4 DEF TypeOK, CycleShape, ResetShape, Invalidate
<1>5. ASSUME StopHolds PROVE ResetShape'
  BY <1>5 DEF TypeOK, CycleShape, ResetShape, StopHolds
<1>6. ASSUME DeleteRung PROVE ResetShape'
  <2>1. cur \in Symbols /\ index \in 1..(N + 1)
    BY <1>6 DEF CycleShape, TypeOK, DeleteRung
  <2>2. \A r \in Rungs : r < index + 1 => r \notin filled'[cur]
    BY <1>6, <2>1 DEF TypeOK, ResetShape, DeleteRung
  <2> QED
    BY <1>6, <2>2 DEF ResetShape, DeleteRung
<1>7. ASSUME Liquidate PROVE ResetShape'
  BY <1>7 DEF ResetShape, Liquidate
<1>8. ASSUME Rung PROVE ResetShape'
  BY <1>8 DEF ResetShape, Rung
<1>9. ASSUME Leave PROVE ResetShape'
  BY <1>9 DEF TypeOK, CycleShape, ResetShape, Leave
<1>10. ASSUME NEW regime \in [Symbols -> Regimes], Hand(regime) PROVE ResetShape'
  BY <1>10 DEF TypeOK, CycleShape, ResetShape, Hand
<1>11. ASSUME NEW i \in intents, Buy(i) PROVE ResetShape'
  BY <1>11 DEF TypeOK, CycleShape, ResetShape, Buy
<1>12. ASSUME NEW i \in intents, Sell(i) PROVE ResetShape'
  BY <1>12 DEF TypeOK, CycleShape, ResetShape, Sell
<1>13. ASSUME EndCycle PROVE ResetShape'
  BY <1>13 DEF TypeOK, CycleShape, ResetShape, EndCycle
<1>14. ASSUME Restart PROVE ResetShape'
  BY <1>14 DEF TypeOK, CycleShape, ResetShape, Restart
<1>15. ASSUME Raise PROVE ResetShape'
  BY <1>15 DEF TypeOK, CycleShape, ResetShape, Raise
<1>16. ASSUME NEW i \in intents, Lose(i) PROVE ResetShape'
  BY <1>16 DEF TypeOK, CycleShape, ResetShape, Lose
<1>17. ASSUME Crash PROVE ResetShape'
  BY <1>17 DEF TypeOK, CycleShape, ResetShape, Crash
<1>18. CASE UNCHANGED vars
  BY <1>18 DEF TypeOK, CycleShape, ResetShape, vars, vars
<1> QED
  BY <1>1, <1>2, <1>3, <1>4, <1>5, <1>6, <1>7, <1>8, <1>9,
     <1>10, <1>11, <1>12, <1>13, <1>14, <1>15, <1>16, <1>17, <1>18
  DEF Next, Process

\* Every step keeps a sale alone on its symbol, and whole.
LEMMA SaleIsWholeStep ==
  ASSUME IInv, [Next]_vars
  PROVE  SaleIsWhole'
<1> USE RungsFact, LadderAssumption
<1> USE DEF marketVars, ladderVars, decisionVars, visitVars, historyVars, IInv, Fault, NoVisit
<1>1. ASSUME NEW open \in BOOLEAN, Begin(open) PROVE SaleIsWhole'
  BY <1>1 DEF SaleIsWhole, Begin
<1>2. ASSUME NEW s \in Symbols, NEW p \in Prices, Move(s, p) PROVE SaleIsWhole'
  BY <1>2 DEF SaleIsWhole, Move
<1>3. ASSUME NEW s \in Symbols, Visit(s) PROVE SaleIsWhole'
  BY <1>3 DEF SaleIsWhole, Visit
<1>4. ASSUME Invalidate PROVE SaleIsWhole'
  BY <1>4 DEF SaleIsWhole, Invalidate
<1>5. ASSUME StopHolds PROVE SaleIsWhole'
  BY <1>5 DEF SaleIsWhole, StopHolds
<1>6. ASSUME DeleteRung PROVE SaleIsWhole'
  BY <1>6 DEF SaleIsWhole, DeleteRung
<1>7. ASSUME Liquidate PROVE SaleIsWhole'
  <2> DEFINE x == [symbol |-> cur, side |-> "sell", qty |-> selling]
  <2>1. /\ x.qty = held[x.symbol]
        /\ \A j \in intents : j.symbol # x.symbol
    BY <1>7 DEF ResetShape, CycleShape, Liquidate
  <2>2. /\ held' = held
        /\ intents' = intents \union {x}
    BY <1>7 DEF Liquidate
  <2> HIDE DEF x
  <2> QED
    BY <2>1, <2>2 DEF SaleIsWhole
<1>8. ASSUME Rung PROVE SaleIsWhole'
  <2>1. CASE Triggered
    <3> DEFINE b == [symbol |-> cur, side |-> "buy", rung |-> index]
    <3>1. /\ b.side # "sell" /\ b.symbol = cur
          /\ held' = held
          /\ intents' = intents \union {b}
          /\ \A j \in intents : j.symbol = cur => j.side = "buy"
      BY <1>8, <2>1 DEF CycleShape, Rung
    <3> HIDE DEF b
    <3>2. \A i \in intents : i.side = "sell" => i.symbol # b.symbol
      BY <3>1
    <3> QED
      BY <3>1, <3>2 DEF SaleIsWhole
  <2>2. CASE ~Triggered
    BY <1>8, <2>2 DEF SaleIsWhole, Rung
  <2> QED
    BY <2>1, <2>2
<1>9. ASSUME Leave PROVE SaleIsWhole'
  BY <1>9 DEF SaleIsWhole, Leave
<1>10. ASSUME NEW regime \in [Symbols -> Regimes], Hand(regime) PROVE SaleIsWhole'
  BY <1>10 DEF SaleIsWhole, Hand
<1>11. ASSUME NEW i \in intents, Buy(i) PROVE SaleIsWhole'
  <2>1. \A j \in intents : j.side = "sell" => j.symbol \in Symbols /\ j.symbol # i.symbol
    BY <1>11, IntentFact DEF SaleIsWhole, TypeOK, Buy
  <2>2. \A s \in Symbols : s # i.symbol => held'[s] = held[s]
    BY <1>11 DEF TypeOK, Buy
  <2> QED
    BY <1>11, <2>1, <2>2 DEF SaleIsWhole, Buy
<1>12. ASSUME NEW i \in intents, Sell(i) PROVE SaleIsWhole'
  <2>1. \A j \in intents : j # i => j.symbol \in Symbols /\ j.symbol # i.symbol
    BY <1>12, IntentFact DEF SaleIsWhole, TypeOK, Sell
  <2>2. \A s \in Symbols : s # i.symbol => held'[s] = held[s]
    BY <1>12 DEF TypeOK, Sell
  <2> QED
    BY <1>12, <2>1, <2>2 DEF SaleIsWhole, Sell
<1>13. ASSUME EndCycle PROVE SaleIsWhole'
  BY <1>13 DEF SaleIsWhole, EndCycle
<1>14. ASSUME Restart PROVE SaleIsWhole'
  BY <1>14 DEF SaleIsWhole, Restart
<1>15. ASSUME Raise PROVE SaleIsWhole'
  BY <1>15 DEF SaleIsWhole, Raise
<1>16. ASSUME NEW i \in intents, Lose(i) PROVE SaleIsWhole'
  BY <1>16 DEF SaleIsWhole, Lose
<1>17. ASSUME Crash PROVE SaleIsWhole'
  BY <1>17 DEF SaleIsWhole, Crash
<1>18. CASE UNCHANGED vars
  BY <1>18 DEF SaleIsWhole, vars, vars
<1> QED
  BY <1>1, <1>2, <1>3, <1>4, <1>5, <1>6, <1>7, <1>8, <1>9,
     <1>10, <1>11, <1>12, <1>13, <1>14, <1>15, <1>16, <1>17, <1>18
  DEF Next, Process

\* Every step leaves no rung without an anchor, resets apart.
LEMMA RearmsFromZeroStep ==
  ASSUME IInv, [Next]_vars
  PROVE  RearmsFromZero'
<1> USE RungsFact, LadderAssumption
<1> USE DEF marketVars, ladderVars, decisionVars, visitVars, historyVars, IInv, Fault, NoVisit
<1>1. ASSUME NEW open \in BOOLEAN, Begin(open) PROVE RearmsFromZero'
  BY <1>1 DEF TypeOK, CycleShape, RearmsFromZero, Begin
<1>2. ASSUME NEW s \in Symbols, NEW p \in Prices, Move(s, p) PROVE RearmsFromZero'
  BY <1>2 DEF TypeOK, CycleShape, RearmsFromZero, Move
<1>3. ASSUME NEW s \in Symbols, Visit(s) PROVE RearmsFromZero'
  BY <1>3 DEF TypeOK, CycleShape, RearmsFromZero, Visit
<1>4. ASSUME Invalidate PROVE RearmsFromZero'
  BY <1>4 DEF TypeOK, CycleShape, RearmsFromZero, Invalidate
<1>5. ASSUME StopHolds PROVE RearmsFromZero'
  BY <1>5 DEF TypeOK, CycleShape, RearmsFromZero, StopHolds
<1>6. ASSUME DeleteRung PROVE RearmsFromZero'
  <2>1. \A s \in Symbols : s # cur => filled'[s] = filled[s]
    BY <1>6 DEF TypeOK, DeleteRung
  <2> QED
    BY <1>6, <2>1 DEF RearmsFromZero, DeleteRung
<1>7. ASSUME Liquidate PROVE RearmsFromZero'
  <2>1. cur \in Symbols /\ filled[cur] = {}
    BY <1>7 DEF CycleShape, ResetShape, TypeOK, Liquidate
  <2> QED
    BY <1>7, <2>1 DEF RearmsFromZero, Liquidate
<1>8. ASSUME Rung PROVE RearmsFromZero'
  <2>1. anchor[cur] # None
    BY <1>8 DEF CycleShape, Rung
  <2>2. \A s \in Symbols : s # cur => filled'[s] = filled[s]
    BY <1>8 DEF TypeOK, Rung
  <2> QED
    BY <1>8, <2>1, <2>2 DEF RearmsFromZero, Rung
<1>9. ASSUME Leave PROVE RearmsFromZero'
  BY <1>9 DEF TypeOK, CycleShape, RearmsFromZero, Leave
<1>10. ASSUME NEW regime \in [Symbols -> Regimes], Hand(regime) PROVE RearmsFromZero'
  BY <1>10 DEF TypeOK, CycleShape, RearmsFromZero, Hand
<1>11. ASSUME NEW i \in intents, Buy(i) PROVE RearmsFromZero'
  BY <1>11 DEF TypeOK, CycleShape, RearmsFromZero, Buy
<1>12. ASSUME NEW i \in intents, Sell(i) PROVE RearmsFromZero'
  BY <1>12 DEF TypeOK, CycleShape, RearmsFromZero, Sell
<1>13. ASSUME EndCycle PROVE RearmsFromZero'
  BY <1>13 DEF TypeOK, CycleShape, RearmsFromZero, EndCycle
<1>14. ASSUME Restart PROVE RearmsFromZero'
  BY <1>14 DEF TypeOK, CycleShape, RearmsFromZero, Restart
<1>15. ASSUME Raise PROVE RearmsFromZero'
  BY <1>15 DEF TypeOK, CycleShape, RearmsFromZero, Raise
<1>16. ASSUME NEW i \in intents, Lose(i) PROVE RearmsFromZero'
  BY <1>16 DEF TypeOK, CycleShape, RearmsFromZero, Lose
<1>17. ASSUME Crash PROVE RearmsFromZero'
  BY <1>17 DEF TypeOK, CycleShape, RearmsFromZero, Crash
<1>18. CASE UNCHANGED vars
  BY <1>18 DEF TypeOK, CycleShape, RearmsFromZero, vars, vars
<1> QED
  BY <1>1, <1>2, <1>3, <1>4, <1>5, <1>6, <1>7, <1>8, <1>9,
     <1>10, <1>11, <1>12, <1>13, <1>14, <1>15, <1>16, <1>17, <1>18
  DEF Next, Process

\* Every step keeps the position explained by the rungs bought.
LEMMA HeldWasBoughtStep ==
  ASSUME IInv, [Next]_vars
  PROVE  HeldWasBought'
<1> USE RungsFact, LadderAssumption
<1> USE DEF marketVars, ladderVars, decisionVars, visitVars, historyVars, IInv, Fault, NoVisit
<1>1. ASSUME NEW open \in BOOLEAN, Begin(open) PROVE HeldWasBought'
  <2>1. held' = held /\ bought' = bought /\ rearms' = rearms
    BY <1>1 DEF Begin
  <2>2. pc' = "reset" => pc = "reset" /\ cur' = cur
    BY <1>1 DEF Begin
  <2> QED
    BY <2>1, <2>2 DEF HeldWasBought, Bought
<1>2. ASSUME NEW s \in Symbols, NEW p \in Prices, Move(s, p) PROVE HeldWasBought'
  <2>1. held' = held /\ bought' = bought /\ rearms' = rearms
    BY <1>2 DEF Move
  <2>2. pc' = "reset" => pc = "reset" /\ cur' = cur
    BY <1>2 DEF Move
  <2> QED
    BY <2>1, <2>2 DEF HeldWasBought, Bought
<1>3. ASSUME NEW s \in Symbols, Visit(s) PROVE HeldWasBought'
  <2>1. held' = held /\ bought' = bought /\ rearms' = rearms
    BY <1>3 DEF Visit
  <2>2. pc' # "reset" /\ \A x \in Symbols : Bought(x)' = Bought(x)
    BY <1>3, <2>1 DEF Visit, Bought
  <2> QED
    BY <2>1, <2>2 DEF HeldWasBought
<1>4. ASSUME Invalidate PROVE HeldWasBought'
  <2> DEFINE m == IF filled[cur] = {} THEN rearms[cur] ELSE rearms[cur] + 1
  <2>1. cur \in Symbols /\ held[cur] \in Nat /\ rearms[cur] \in Nat /\ m \in Nat
    BY <1>4 DEF CycleShape, TypeOK, Invalidate
  <2>2. /\ held' = held /\ bought' = bought /\ cur' = cur
        /\ \A s \in Symbols : rearms'[s] = IF s = cur THEN m ELSE rearms[s]
    BY <1>4, <2>1 DEF TypeOK, Invalidate
  <2>3. \A s \in Symbols : Bought(s)' = Bought(s)
    BY <2>2 DEF Bought
  <2>4. Cardinality(Bought(cur)) \in Nat /\ Cardinality(Bought(cur)) <= N
    BY BoughtFact DEF Bought
  <2>5. held[cur] <= N * rearms[cur] + Cardinality(Bought(cur))
    BY <2>1 DEF HeldWasBought
  <2>6. held[cur] <= N * m
    <3>1. CASE filled[cur] = {}
      \* What is not marked was not bought since its deletion.
      <4>1. Bought(cur) = {}
        BY <2>1, <3>1 DEF BuysOnce, Bought
      <4>2. Cardinality(Bought(cur)) = 0
        BY <4>1, FS_EmptySet
      <4> QED
        BY <2>1, <2>5, <3>1, <4>2
    <3>2. CASE filled[cur] # {}
      <4>0. m = rearms[cur] + 1
        BY <3>2
      <4> HIDE DEF m
      <4> DEFINE c == Cardinality(Bought(cur))
      <4>1. c \in Nat /\ c <= N /\ held[cur] <= N * rearms[cur] + c
        BY <2>4, <2>5
      <4> HIDE DEF c
      <4>2. N * (rearms[cur] + 1) = N * rearms[cur] + N /\ N * rearms[cur] \in Nat
        BY <2>1
      <4> DEFINE k == N * rearms[cur]
      <4>3. k \in Nat /\ N * m = k + N /\ held[cur] <= k + c
        BY <4>0, <4>1, <4>2
      <4> HIDE DEF k
      <4> QED
        BY <2>1, <4>1, <4>3
    <3> QED
      BY <3>1, <3>2
  <2> HIDE DEF m
  <2>7. held[cur] <= N * m + Cardinality(Bought(cur))
    <3>1. N * m \in Nat
      BY <2>1
    <3> QED
      BY <2>1, <2>4, <2>6, <3>1
  <2> QED
    BY <2>1, <2>2, <2>3, <2>6, <2>7 DEF HeldWasBought
<1>5. ASSUME StopHolds PROVE HeldWasBought'
  <2>1. held' = held /\ bought' = bought /\ rearms' = rearms
    BY <1>5 DEF StopHolds
  <2>2. pc' = "reset" => pc = "reset" /\ cur' = cur
    BY <1>5 DEF StopHolds
  <2> QED
    BY <2>1, <2>2 DEF HeldWasBought, Bought
<1>6. ASSUME DeleteRung PROVE HeldWasBought'
  <2>1. cur \in Symbols
    BY <1>6 DEF CycleShape, DeleteRung
  <2>2. /\ held' = held /\ rearms' = rearms /\ cur' = cur
        /\ \A s \in Symbols : s # cur => bought'[s] = bought[s]
    BY <1>6 DEF TypeOK, DeleteRung
  <2>3. held[cur] <= N * rearms[cur]
    BY <1>6 DEF HeldWasBought, DeleteRung
  <2>4. Cardinality(Bought(cur)') \in Nat
    <3>1. Bought(cur)' \in SUBSET Rungs
      BY DEF Bought
    <3> QED
      BY <3>1, BoughtFact
  <2>5. ASSUME NEW s \in Symbols
        PROVE  held'[s] <= N * rearms'[s] + Cardinality(Bought(s)')
    <3>1. CASE s = cur
      <4>1. held[s] \in Nat /\ N * rearms[s] \in Nat
        BY DEF TypeOK
      <4>2. Bought(s)' = Bought(cur)'
        BY <2>2, <3>1 DEF Bought
      <4> QED
        BY <2>2, <2>3, <2>4, <3>1, <4>1, <4>2
    <3>2. CASE s # cur
      <4>1. Bought(s)' = Bought(s) /\ held'[s] = held[s] /\ rearms'[s] = rearms[s]
        BY <2>2, <3>2 DEF Bought
      <4> QED
        BY <4>1 DEF HeldWasBought
    <3> QED
      BY <3>1, <3>2
  <2> QED
    BY <1>6, <2>2, <2>3, <2>5 DEF HeldWasBought
<1>7. ASSUME Liquidate PROVE HeldWasBought'
  <2>1. held' = held /\ bought' = bought /\ rearms' = rearms
    BY <1>7 DEF Liquidate
  <2>2. pc' = "reset" => pc = "reset" /\ cur' = cur
    BY <1>7 DEF Liquidate
  <2> QED
    BY <2>1, <2>2 DEF HeldWasBought, Bought
<1>8. ASSUME Rung PROVE HeldWasBought'
  <2>1. held' = held /\ bought' = bought /\ rearms' = rearms
    BY <1>8 DEF Rung
  <2>2. pc' = "reset" => pc = "reset" /\ cur' = cur
    BY <1>8 DEF Rung
  <2> QED
    BY <2>1, <2>2 DEF HeldWasBought, Bought
<1>9. ASSUME Leave PROVE HeldWasBought'
  <2>1. held' = held /\ bought' = bought /\ rearms' = rearms
    BY <1>9 DEF Leave
  <2>2. pc' = "reset" => pc = "reset" /\ cur' = cur
    BY <1>9 DEF Leave
  <2> QED
    BY <2>1, <2>2 DEF HeldWasBought, Bought
<1>10. ASSUME NEW regime \in [Symbols -> Regimes], Hand(regime) PROVE HeldWasBought'
  <2>1. held' = held /\ bought' = bought /\ rearms' = rearms
    BY <1>10 DEF Hand
  <2>2. pc' = "reset" => pc = "reset" /\ cur' = cur
    BY <1>10 DEF Hand
  <2> QED
    BY <2>1, <2>2 DEF HeldWasBought, Bought
<1>11. ASSUME NEW i \in intents, Buy(i) PROVE HeldWasBought'
  <2>1. i.symbol \in Symbols /\ i.rung \in Rungs /\ pc' # "reset"
    BY <1>11, IntentFact DEF TypeOK, Buy
  <2>2. bought[i.symbol][i.rung] = 0
    BY <1>11 DEF BuysOnce, Buy
  <2> DEFINE row == [bought[i.symbol] EXCEPT ![i.rung] = bought[i.symbol][i.rung] + 1]
  <2>3. bought' = [bought EXCEPT ![i.symbol] = row] /\ rearms' = rearms
    BY <1>11, <2>1 DEF TypeOK, Buy
  <2>4. \A r \in Rungs : row[r] = IF r = i.rung THEN 1 ELSE bought[i.symbol][r]
    <3>1. bought[i.symbol] \in [Rungs -> Nat] /\ bought[i.symbol][i.rung] + 1 = 1
      BY <2>1, <2>2 DEF TypeOK
    <3> QED
      BY <2>1, <3>1
  <2> HIDE DEF row
  <2>5. \A s \in Symbols : held'[s] = IF s = i.symbol THEN held[s] + 1 ELSE held[s]
    BY <1>11, <2>1 DEF TypeOK, Buy
  <2>6. ASSUME NEW s \in Symbols
        PROVE  held'[s] <= N * rearms'[s] + Cardinality(Bought(s)')
    <3>1. CASE s = i.symbol
      <4>1. Bought(s)' = Bought(s) \union {i.rung} /\ i.rung \notin Bought(s)
        <5>1. bought'[s] = row /\ bought[s] = bought[i.symbol]
          BY <2>1, <2>3, <3>1 DEF TypeOK
        <5>2. \A r \in Rungs : bought'[s][r] = 1 <=> r = i.rung \/ bought[s][r] = 1
          BY <2>4, <5>1
        <5>3. bought[s][i.rung] = 0
          BY <2>2, <3>1
        <5> QED
          BY <2>1, <5>2, <5>3 DEF Bought
      <4>2. Cardinality(Bought(s)') = Cardinality(Bought(s)) + 1
        <5>1. Bought(s) \in SUBSET Rungs /\ i.rung \in Rungs \ Bought(s)
          BY <2>1, <4>1 DEF Bought
        <5>2. Cardinality(Bought(s) \union {i.rung}) = Cardinality(Bought(s)) + 1
          BY <5>1, BoughtFact
        <5> QED
          BY <4>1, <5>2
      <4>3. Cardinality(Bought(s)) \in Nat /\ held[s] \in Nat /\ N * rearms[s] \in Nat
        BY BoughtFact DEF Bought, TypeOK
      <4>4. held[s] <= N * rearms[s] + Cardinality(Bought(s))
        BY DEF HeldWasBought
      <4> QED
        BY <2>3, <2>5, <3>1, <4>2, <4>3, <4>4
    <3>2. CASE s # i.symbol
      <4>1. Bought(s)' = Bought(s) /\ held'[s] = held[s]
        BY <2>1, <2>3, <2>5, <3>2 DEF Bought, TypeOK
      <4> QED
        BY <2>3, <4>1 DEF HeldWasBought
    <3> QED
      BY <3>1, <3>2
  <2> QED
    BY <2>1, <2>6 DEF HeldWasBought
<1>12. ASSUME NEW i \in intents, Sell(i) PROVE HeldWasBought'
  <2>1. i.symbol \in Symbols /\ held[i.symbol] - i.qty = 0 /\ pc' # "reset"
    BY <1>12, IntentFact DEF TypeOK, Sell, SaleIsWhole
  <2>2. \A s \in Symbols : s # i.symbol => held'[s] = held[s] /\ rearms'[s] = rearms[s]
    BY <1>12 DEF TypeOK, Sell
  <2>3. held'[i.symbol] = 0 /\ rearms'[i.symbol] = 0
    BY <1>12, <2>1 DEF TypeOK, Sell
  <2>4. \A s \in Symbols : Bought(s)' = Bought(s) /\ Cardinality(Bought(s)) \in Nat
    BY <1>12, BoughtFact DEF Bought, Sell
  <2>5. ASSUME NEW s \in Symbols
        PROVE  held'[s] <= N * rearms'[s] + Cardinality(Bought(s)')
    <3>1. CASE s = i.symbol
      <4>1. 0 <= N * 0 + Cardinality(Bought(s))
        BY <2>4
      <4> QED
        BY <2>3, <2>4, <3>1, <4>1
    <3>2. CASE s # i.symbol
      BY <2>2, <2>4, <3>2 DEF HeldWasBought
    <3> QED
      BY <3>1, <3>2
  <2> QED
    BY <2>1, <2>5 DEF HeldWasBought
<1>13. ASSUME EndCycle PROVE HeldWasBought'
  <2>1. held' = held /\ bought' = bought /\ rearms' = rearms
    BY <1>13 DEF EndCycle
  <2>2. pc' = "reset" => pc = "reset" /\ cur' = cur
    BY <1>13 DEF EndCycle
  <2> QED
    BY <2>1, <2>2 DEF HeldWasBought, Bought
<1>14. ASSUME Restart PROVE HeldWasBought'
  <2>1. held' = held /\ bought' = bought /\ rearms' = rearms
    BY <1>14 DEF Restart
  <2>2. pc' = "reset" => pc = "reset" /\ cur' = cur
    BY <1>14 DEF Restart
  <2> QED
    BY <2>1, <2>2 DEF HeldWasBought, Bought
<1>15. ASSUME Raise PROVE HeldWasBought'
  <2>1. held' = held /\ bought' = bought /\ rearms' = rearms
    BY <1>15 DEF Raise
  <2>2. pc' = "reset" => pc = "reset" /\ cur' = cur
    BY <1>15 DEF Raise
  <2> QED
    BY <2>1, <2>2 DEF HeldWasBought, Bought
<1>16. ASSUME NEW i \in intents, Lose(i) PROVE HeldWasBought'
  <2>1. held' = held /\ bought' = bought /\ rearms' = rearms
    BY <1>16 DEF Lose
  <2>2. pc' = "reset" => pc = "reset" /\ cur' = cur
    BY <1>16 DEF Lose
  <2> QED
    BY <2>1, <2>2 DEF HeldWasBought, Bought
<1>17. ASSUME Crash PROVE HeldWasBought'
  <2>1. held' = held /\ bought' = bought /\ rearms' = rearms
    BY <1>17 DEF Crash
  <2>2. pc' = "reset" => pc = "reset" /\ cur' = cur
    BY <1>17 DEF Crash
  <2> QED
    BY <2>1, <2>2 DEF HeldWasBought, Bought
<1>18. CASE UNCHANGED vars
  BY <1>18 DEF HeldWasBought, Bought, vars, vars
<1> QED
  BY <1>1, <1>2, <1>3, <1>4, <1>5, <1>6, <1>7, <1>8, <1>9,
     <1>10, <1>11, <1>12, <1>13, <1>14, <1>15, <1>16, <1>17, <1>18
  DEF Next, Process

-----------------------------------------------------------------------------
\* Every step keeps the invariant.
THEOREM StepInv == IInv /\ [Next]_vars => IInv'
BY TypeStep, CycleShapeStep, BuysOnceStep, ResetShapeStep, SaleIsWholeStep,
   RearmsFromZeroStep, HeldWasBoughtStep
DEF IInv

\* The strengthened invariant holds of every reachable state.
THEOREM Invariance == Spec => []IInv
BY InitInv, StepInv, PTL DEF Spec

\* Type correctness: anchors stay positive prices, rungs stay those of the
\* list, and what is held is never negative although sales subtract from it.
THEOREM TypeCorrect == Spec => []TypeOK
<1>1. IInv => TypeOK
  BY DEF IInv
<1> QED
  BY <1>1, Invariance, PTL

\* Whatever is lost, raised or cut off by a crash, no rung of any ladder is
\* bought twice between two deletions of its row.
THEOREM RungOnceHolds == Spec => []RungOnce
<1>1. IInv => RungOnce
  BY DEF IInv, BuysOnce
<1> QED
  BY <1>1, Invariance, PTL

\* A liquidation, planned when its ladder was visited, still asks for exactly
\* what is held when it is executed, and no buy of the symbol is beside it.
THEOREM SaleIsWholeHolds == Spec => []SaleIsWhole
<1>1. IInv => SaleIsWhole
  BY DEF IInv
<1> QED
  BY <1>1, Invariance, PTL

\* A ladder without an anchor has no rung marked as bought, but for resets in
\* progress or cut off by a crash.
THEOREM RearmsFromZeroHolds == Spec => []RearmsFromZero
<1>1. IInv => RearmsFromZero
  BY DEF IInv
<1> QED
  BY <1>1, Invariance, PTL

\* A position is bounded by the number of rungs, once for each time the
\* ladder was re-armed before it was sold.
THEOREM LadderBoundedHolds == Spec => []LadderBounded
<1>1. ASSUME IInv, NEW s \in Symbols PROVE held[s] <= N * (1 + rearms[s])
  <2> DEFINE c == Cardinality(Bought(s))
  <2>1. c \in Nat /\ c <= N
    BY BoughtFact DEF Bought
  <2>2. held[s] <= N * rearms[s] + c
    BY <1>1 DEF IInv, HeldWasBought
  <2> HIDE DEF c
  <2>3. held[s] \in Nat /\ rearms[s] \in Nat /\ N \in Nat
    BY <1>1, RungsFact DEF IInv, TypeOK
  <2>4. N * (1 + rearms[s]) = N * rearms[s] + N /\ N * rearms[s] \in Nat
    BY <2>3
  <2> QED
    BY <2>1, <2>2, <2>3, <2>4
<1>2. IInv => LadderBounded
  BY <1>1 DEF LadderBounded
<1> QED
  BY <1>2, Invariance, PTL
=============================================================================
