--------------------------- MODULE RiskGateProofs ---------------------------
(***************************************************************************)
(* Machine-checked proofs about RiskGate, for all limits, equities,        *)
(* positions, prices and lots, and any number of intents, days, starts and *)
(* failed writes.                                                          *)
(***************************************************************************)
EXTENDS RiskGate, TLAPS

-----------------------------------------------------------------------------
(* The inductive invariant *)

\* The stored start of a day is the first equity a start read on it, and a
\* process that got past its first read has one.
StartsStored ==
  /\ opening = storedStart
  /\ pc # "down" => storedStart[startDay] # None
  /\ pc \in {"idle", "cycle"} =>
       start = IF storedStart[startDay] > 0 THEN storedStart[startDay] ELSE 1

\* The high-water mark is on disk, and a running guard is not below it.  For
\* an account that was never worth more than 1, the 1 the guard starts from
\* when it has nothing else does as well.
PeakStored ==
  ~unsaved => /\ storedPeak >= top \/ top <= 1
              /\ pc \in {"idle", "cycle"} =>
                   peak >= top /\ (storedPeak >= peak \/ peak = 1)

\* A loss is a halt, for as long as the process lives.
LossHalts == lost => halted /\ pc \in {"idle", "cycle"}

\* Approvals belong to the cycle that made them.
NothingBetweenCycles ==
  pc # "cycle" => /\ buys = 0 /\ bought = 0 /\ puts = 0 /\ pledged = 0
                  /\ exits = 0 /\ exitAsked = 0 /\ exitSent = 0

IInv ==
  /\ TypeOK
  /\ StartsStored
  /\ PeakStored
  /\ LossHalts
  /\ NothingBetweenCycles
  /\ LossStopsRisk

-----------------------------------------------------------------------------
(* Arithmetic *)

\* A product grows with its factor.
LEMMA Monotone ==
  ASSUME NEW k \in Nat, NEW a \in Nat, NEW b \in Nat, a <= b
  PROVE  k * a <= k * b
  OBVIOUS

\* What a division leaves is less than the divisor.
LEMMA Quotient ==
  ASSUME NEW a \in Nat, NEW b \in Nat \ {0}
  PROVE  /\ a \div b \in Nat
         /\ b * (a \div b) <= a
         /\ a <= b * (a \div b) + (b - 1)
  OBVIOUS

\* Rounding down to the lot loses less than one lot.
LEMMA RoundedDown ==
  ASSUME account \in Snapshot, NEW q \in Nat
  PROVE  /\ Rounded(q) \in Nat
         /\ Rounded(q) <= q
         /\ q <= Rounded(q) + (IF account.lot = 0 THEN 0 ELSE account.lot - 1)
<1>1. CASE account.lot = 0
  BY <1>1 DEF Rounded, Snapshot
<1>2. CASE account.lot # 0
  <2> DEFINE n == q \div account.lot
  <2>1. account.lot \in Nat \ {0}
    BY <1>2 DEF Snapshot
  <2>2. /\ n \in Nat
        /\ account.lot * n <= q
        /\ q <= account.lot * n + (account.lot - 1)
    BY <2>1, Quotient
  <2>3. account.lot * n = n * account.lot
    BY <2>1, <2>2
  <2>4. Rounded(q) = n * account.lot
    BY <1>2 DEF Rounded
  <2> QED
    BY <1>2, <2>1, <2>2, <2>3, <2>4
<1> QED
  BY <1>1, <1>2

\* A quantity is sized to at most what was asked, and to at most the risk
\* budget of a trade when that covers a share.
LEMMA SizedFact ==
  ASSUME TypeOK, NEW q \in Nat
  PROVE  /\ QtyRisk \in Nat
         /\ Sized(q) \in Nat /\ Sized(q) <= q
         /\ QtyRisk > 0 =>
              Sized(q) * account.price * AssumedStop <= RiskPerTrade * equity
<1> DEFINE risk == account.price * AssumedStop
<1>1. /\ account.price \in Nat \ {0} /\ account.held \in Nat /\ equity \in Nat
      /\ AssumedStop \in Nat \ {0} /\ RiskPerTrade \in Nat /\ MaxPerSymbol \in Nat
  BY RiskAssumption DEF TypeOK, Snapshot
<1>2. /\ risk \in Nat \ {0} /\ 100 * account.price \in Nat \ {0}
      /\ equity * RiskPerTrade \in Nat /\ equity * MaxPerSymbol \in Nat
  BY <1>1
<1>3. QtyRisk \in Nat /\ risk * QtyRisk <= equity * RiskPerTrade
  BY <1>2, Quotient DEF QtyRisk
<1>4. MaxAdd \in Nat
  <2> DEFINE most == (equity * MaxPerSymbol) \div (100 * account.price)
  <2>1. most \in Nat
    BY <1>2, Quotient
  <2> HIDE DEF most
  <2>2. (IF most > CurrentQty THEN most - CurrentQty ELSE 0) \in Nat
    BY <1>1, <2>1 DEF CurrentQty
  <2> QED
    BY <2>2 DEF MaxAdd, most
<1>5. /\ Sized(q) \in Nat /\ Sized(q) <= q
      /\ QtyRisk > 0 => Sized(q) <= QtyRisk
  BY <1>3, <1>4 DEF Sized, Smaller
<1>6. QtyRisk > 0 => risk * Sized(q) <= risk * QtyRisk
  BY <1>2, <1>3, <1>5, Monotone
<1>7. /\ risk * Sized(q) = Sized(q) * account.price * AssumedStop
      /\ equity * RiskPerTrade = RiskPerTrade * equity
      /\ risk * QtyRisk \in Nat /\ risk * Sized(q) \in Nat
  BY <1>1, <1>3, <1>5
<1> QED
  BY <1>2, <1>3, <1>5, <1>6, <1>7

\* The snapshot of a process that has none is one.
LEMMA NoSnapshotFact == NoSnapshot \in Snapshot
  BY DEF NoSnapshot, Snapshot

-----------------------------------------------------------------------------
\* At a loss, as the account's history has it, the limits of the guard are
\* hit as well: its start and its peak are no lower than they should be.
LEMMA LossIsSeen ==
  ASSUME IInv, pc = "idle", NEW e \in Nat, AtALoss(e)
  PROVE  LimitHit(e, Larger(peak, e))
<1> DEFINE first == opening[startDay]
           high  == Larger(peak, e)
           known == Larger(top, e)
<1>1. /\ first \in Nat /\ start \in Nat /\ peak \in Nat /\ top \in Nat
      /\ start = IF first > 0 THEN first ELSE 1
      /\ ~unsaved => peak >= top
      /\ MaxDrawdown \in 0..100
  BY RiskAssumption DEF IInv, TypeOK, StartsStored, PeakStored
<1>2. CASE first > 0 /\ DailyLossHit(e, first)
  BY <1>1, <1>2 DEF LimitHit
<1>3. CASE top > 0 /\ ~unsaved /\ DrawdownHit(e, known)
  <2>1. /\ known \in Nat /\ high \in Nat /\ known <= high
        /\ 100 - MaxDrawdown \in Nat
    BY <1>1, <1>3 DEF Larger
  <2>2. (100 - MaxDrawdown) * known <= (100 - MaxDrawdown) * high
    BY <2>1, Monotone
  <2> HIDE DEF known, high
  <2>3. 100 * e <= (100 - MaxDrawdown) * high
    BY <1>3, <2>1, <2>2 DEF DrawdownHit
  <2> QED
    BY <2>3 DEF LimitHit, DrawdownHit, high
<1> QED
  BY <1>2, <1>3 DEF AtALoss

\* An assessment leaves the calendar, the store and the guard alone.
LEMMA GateKeeps ==
  ASSUME IInv, Assess,
         buys' \in Nat, bought' \in Nat, puts' \in Nat, pledged' \in Nat,
         exits' \in Nat, exitAsked' \in Nat, exitSent' \in Nat
  PROVE  /\ TypeOK' /\ StartsStored' /\ PeakStored' /\ LossHalts'
         /\ NothingBetweenCycles'
<1> USE DEF IInv, Assess, storeVars, guardVars, historyVars
<1>1. TypeOK'
  <2>1. intents' \in 0..MaxIntents
    BY RiskAssumption DEF TypeOK
  <2> QED
    BY <2>1 DEF TypeOK
<1>2. StartsStored' /\ PeakStored' /\ LossHalts' /\ NothingBetweenCycles'
  BY DEF StartsStored, PeakStored, LossHalts, NothingBetweenCycles
<1> QED
  BY <1>1, <1>2

\* A loss is a halt, and under a halt nothing that increases the risk passes.
LEMMA HaltBlocks ==
  ASSUME IInv, lost
  PROVE  /\ \A q \in Asked : ~BuyPasses(q)
         /\ \A c \in Collaterals : ~PutPasses(c)
  BY DEF IInv, LossHalts, BuyPasses, PutPasses, MayOpen

-----------------------------------------------------------------------------
\* The inductive invariant holds in every reachable state.
THEOREM Invariance == Spec => []IInv
<1> USE RiskAssumption
<1>1. Init => IInv
  <2> SUFFICES ASSUME Init PROVE IInv
    OBVIOUS
  <2>1. TypeOK
    <3>1. halted \in BOOLEAN /\ lost \in BOOLEAN /\ unsaved \in BOOLEAN
      BY DEF Init
    <3>2. account \in Snapshot
      BY NoSnapshotFact DEF Init
    <3> QED
      BY <3>1, <3>2 DEF Init, TypeOK
  <2>2. StartsStored /\ PeakStored /\ LossHalts /\ NothingBetweenCycles /\ LossStopsRisk
    BY DEF Init, StartsStored, PeakStored, LossHalts, NothingBetweenCycles, LossStopsRisk
  <2> QED
    BY <2>1, <2>2 DEF IInv
<1>2. IInv /\ [Next]_vars => IInv'
  <2> SUFFICES ASSUME IInv, [Next]_vars PROVE IInv'
    OBVIOUS
  <2> USE DEF IInv
  <2>1. CASE Midnight
    BY <2>1 DEF Midnight, TypeOK, StartsStored, PeakStored, LossHalts,
                NothingBetweenCycles, LossStopsRisk, storeVars, guardVars,
                cycleVars, historyVars
  <2>2. ASSUME NEW e \in Equities, StartDay(e) PROVE IInv'
    <3> USE <2>2 DEF StartDay, cycleVars
    <3>1. TypeOK'
      BY DEF TypeOK
    <3>2. StartsStored'
      BY DEF StartsStored, TypeOK
    <3>3. PeakStored' /\ LossHalts' /\ NothingBetweenCycles' /\ LossStopsRisk'
      BY DEF PeakStored, LossHalts, NothingBetweenCycles, LossStopsRisk
    <3> QED
      BY <3>1, <3>2, <3>3
  <2>3. CASE StartPeak
    <3> DEFINE opened == storedStart[startDay]
               high   == Larger(storedPeak, Larger(opened, read))
    <3> USE <2>3 DEF StartPeak, cycleVars
    <3>1. /\ opened \in Nat /\ high \in Nat
          /\ high >= storedPeak /\ high >= Larger(opened, read)
      BY DEF TypeOK, StartsStored, Larger
    <3>2. TypeOK'
      <4>1. /\ start' \in Nat \ {0} /\ peak' \in Nat \ {0} /\ storedPeak' \in Nat
            /\ top' \in Nat
        BY <3>1 DEF TypeOK, Larger
      <4> QED
        BY <4>1 DEF TypeOK
    <3>3. StartsStored'
      BY DEF StartsStored
    <3>4. PeakStored'
      BY <3>1 DEF PeakStored, TypeOK, Larger
    <3>5. LossHalts' /\ NothingBetweenCycles' /\ LossStopsRisk'
      BY DEF LossHalts, NothingBetweenCycles, LossStopsRisk
    <3> QED
      BY <3>2, <3>3, <3>4, <3>5
  <2>4. CASE Crash
    <3> USE <2>4 DEF Crash, NoApprovals, storeVars, guardVars
    <3>1. TypeOK'
      <4>1. lost' \in BOOLEAN
        OBVIOUS
      <4>2. account' \in Snapshot
        BY NoSnapshotFact
      <4> QED
        BY <4>1, <4>2 DEF TypeOK
    <3>2. StartsStored' /\ PeakStored' /\ LossHalts' /\ NothingBetweenCycles' /\ LossStopsRisk'
      BY DEF StartsStored, PeakStored, LossHalts, NothingBetweenCycles, LossStopsRisk
    <3> QED
      BY <3>1, <3>2
  <2>5. ASSUME NEW e \in Equities, NEW a \in Accounts, BeginCycle(e, a)
        PROVE  IInv'
    <3> USE <2>5 DEF BeginCycle, NoApprovals
    <3>1. TypeOK'
      BY DEF TypeOK, Larger
    <3>2. StartsStored' /\ NothingBetweenCycles' /\ LossStopsRisk'
      BY DEF StartsStored, NothingBetweenCycles, LossStopsRisk
    <3>3. PeakStored'
      BY DEF PeakStored, TypeOK, Larger
    <3>4. LossHalts'
      BY LossIsSeen DEF LossHalts
    <3> QED
      BY <3>1, <3>2, <3>3, <3>4
  <2>6. ASSUME NEW e \in Equities, PeakWriteFails(e) PROVE IInv'
    BY <2>6 DEF PeakWriteFails, TypeOK, StartsStored, PeakStored, LossHalts,
                NothingBetweenCycles, LossStopsRisk, Larger, storeVars, cycleVars
  <2>7. ASSUME NEW q \in Asked, ApproveBuy(q) PROVE IInv'
    <3>1. Rounded(Sized(q)) \in Nat
      BY SizedFact, RoundedDown DEF TypeOK
    <3>2. /\ buys' \in Nat /\ bought' \in Nat /\ puts' \in Nat /\ pledged' \in Nat
          /\ exits' \in Nat /\ exitAsked' \in Nat /\ exitSent' \in Nat
      BY <2>7, <3>1 DEF ApproveBuy, TypeOK
    <3>3. LossStopsRisk'
      BY <2>7, HaltBlocks DEF ApproveBuy, Assess, LossStopsRisk, historyVars
    <3> QED
      BY <2>7, <3>2, <3>3, GateKeeps DEF ApproveBuy
  <2>8. ASSUME NEW c \in Collaterals, ApprovePut(c) PROVE IInv'
    <3>1. /\ buys' \in Nat /\ bought' \in Nat /\ puts' \in Nat /\ pledged' \in Nat
          /\ exits' \in Nat /\ exitAsked' \in Nat /\ exitSent' \in Nat
      BY <2>8 DEF ApprovePut, TypeOK
    <3>2. LossStopsRisk'
      BY <2>8, HaltBlocks DEF ApprovePut, Assess, LossStopsRisk, historyVars
    <3> QED
      BY <2>8, <3>1, <3>2, GateKeeps DEF ApprovePut
  <2>9. CASE Veto
    <3>1. /\ buys' \in Nat /\ bought' \in Nat /\ puts' \in Nat /\ pledged' \in Nat
          /\ exits' \in Nat /\ exitAsked' \in Nat /\ exitSent' \in Nat
      BY <2>9 DEF Veto, TypeOK
    <3>2. LossStopsRisk'
      BY <2>9 DEF Veto, Assess, LossStopsRisk, historyVars
    <3> QED
      BY <2>9, <3>1, <3>2, GateKeeps DEF Veto
  <2>10. ASSUME NEW q \in Asked, PassExit(q) PROVE IInv'
    <3>1. q \in Nat /\ Rounded(q) \in Nat
      BY RoundedDown DEF TypeOK
    <3>2. /\ buys' \in Nat /\ bought' \in Nat /\ puts' \in Nat /\ pledged' \in Nat
          /\ exits' \in Nat /\ exitAsked' \in Nat /\ exitSent' \in Nat
      BY <2>10, <3>1 DEF PassExit, TypeOK
    <3>3. LossStopsRisk'
      BY <2>10 DEF PassExit, Assess, LossStopsRisk, historyVars
    <3> QED
      BY <2>10, <3>2, <3>3, GateKeeps DEF PassExit
  <2>11. CASE EndCycle
    <3> USE <2>11 DEF EndCycle, NoApprovals, storeVars, guardVars, historyVars
    <3>1. TypeOK'
      BY NoSnapshotFact DEF TypeOK
    <3>2. StartsStored' /\ PeakStored' /\ LossHalts' /\ NothingBetweenCycles' /\ LossStopsRisk'
      BY DEF StartsStored, PeakStored, LossHalts, NothingBetweenCycles, LossStopsRisk
    <3> QED
      BY <3>1, <3>2
  <2>12. CASE UNCHANGED vars
    BY <2>12 DEF vars, TypeOK, StartsStored, PeakStored, LossHalts,
                 NothingBetweenCycles, LossStopsRisk, storeVars, guardVars,
                 cycleVars, historyVars
  <2> QED
    BY <2>1, <2>2, <2>3, <2>4, <2>5, <2>6, <2>7, <2>8, <2>9, <2>10, <2>11, <2>12
       DEF Next
<1> QED
  BY <1>1, <1>2, PTL DEF Spec

-----------------------------------------------------------------------------
(* Over restarts and within a process *)

\* A running guard measures the drawdown from the highest equity ever seen,
\* unless a write of the peak failed.
THEOREM PeakRememberedHolds == Spec => []PeakRemembered
<1>1. IInv => PeakRemembered
  BY DEF IInv, PeakStored, PeakRemembered
<1> QED
  BY <1>1, Invariance, PTL

\* After a loss at a limit the process approves nothing that increases risk.
THEOREM LossStopsRiskHolds == Spec => []LossStopsRisk
<1>1. IInv => LossStopsRisk
  BY DEF IInv
<1> QED
  BY <1>1, Invariance, PTL

\* Every variable keeps its type.
THEOREM TypeCorrect == Spec => []TypeOK
<1>1. IInv => TypeOK
  BY DEF IInv
<1> QED
  BY <1>1, Invariance, PTL

-----------------------------------------------------------------------------
(* Within a cycle *)

NothingApproved ==
  /\ buys = 0 /\ bought = 0 /\ puts = 0 /\ pledged = 0
  /\ exits = 0 /\ exitAsked = 0 /\ exitSent = 0

\* A step empties the cycle, leaves it alone or assesses one more intent
\* against the same snapshot.
LEMMA CycleStep ==
  ASSUME IInv, [Next]_vars
  PROVE  \/ NothingApproved'
         \/ UNCHANGED cycleVars
         \/ \E q \in Asked : ApproveBuy(q)
         \/ \E c \in Collaterals : ApprovePut(c)
         \/ Veto
         \/ \E q \in Asked : PassExit(q)
  BY DEF Next, vars, Midnight, StartDay, StartPeak, Crash, BeginCycle,
         PeakWriteFails, EndCycle, NoApprovals, NothingApproved

\* n buys within n limits and one more within one are n + 1 within n + 1.
LEMMA OneMoreBuy ==
  ASSUME NEW n \in Nat, NEW h \in Nat, NEW b \in Nat, NEW p \in Nat,
         NEW lim \in Nat, NEW s \in Nat, NEW r \in Nat, r <= s,
         (n * h + b) * p * 100 <= n * lim,
         100 * ((h + s) * p) <= lim
  PROVE  ((n + 1) * h + (b + r)) * p * 100 <= (n + 1) * lim
<1>1. p * r <= p * s
  BY Monotone
<1>2. ((n + 1) * h + (b + r)) * p * 100
        = (n * h + b) * p * 100 + 100 * (h * p) + 100 * (p * r)
  OBVIOUS
<1>3. 100 * ((h + s) * p) = 100 * (h * p) + 100 * (p * s)
  OBVIOUS
<1>4. (n + 1) * lim = n * lim + lim
  OBVIOUS
<1>5. /\ p * r \in Nat /\ p * s \in Nat /\ h * p \in Nat /\ n * lim \in Nat
      /\ (n * h + b) * p * 100 \in Nat
  OBVIOUS
<1> QED
  BY <1>1, <1>2, <1>3, <1>4, <1>5

\* Likewise for the value of everything under the assumed stop.
LEMMA OneMoreRisk ==
  ASSUME NEW n \in Nat, NEW g \in Nat, NEW x \in Nat, NEW k \in Nat,
         NEW lim \in Nat, NEW y \in Nat, NEW z \in Nat, z <= y,
         (n * g + x) * k <= n * lim,
         (g + y) * k <= lim
  PROVE  ((n + 1) * g + (x + z)) * k <= (n + 1) * lim
<1>1. k * z <= k * y
  BY Monotone
<1>2. ((n + 1) * g + (x + z)) * k = (n * g + x) * k + g * k + k * z
  OBVIOUS
<1>3. (g + y) * k = g * k + k * y
  OBVIOUS
<1>4. (n + 1) * lim = n * lim + lim
  OBVIOUS
<1>5. /\ k * z \in Nat /\ k * y \in Nat /\ g * k \in Nat /\ n * lim \in Nat
      /\ (n * g + x) * k \in Nat
  OBVIOUS
<1> QED
  BY <1>1, <1>2, <1>3, <1>4, <1>5

\* What a buy that passes has been checked for, and what leaves of it.
LEMMA BuyFact ==
  ASSUME IInv, NEW q \in Asked, ApproveBuy(q)
  PROVE  /\ Sized(q) \in Nat /\ Rounded(Sized(q)) \in Nat
         /\ Rounded(Sized(q)) <= Sized(q)
         /\ 100 * ((account.held + Sized(q)) * account.price) <= MaxPerSymbol * equity
         /\ (account.gross + Sized(q) * account.price) * AssumedStop <= MaxHeat * equity
         /\ account' = account /\ equity' = equity
<1>1. /\ Sized(q) \in Nat /\ Rounded(Sized(q)) \in Nat
      /\ Rounded(Sized(q)) <= Sized(q)
  BY RiskAssumption, SizedFact, RoundedDown DEF IInv, TypeOK
<1> QED
  BY <1>1 DEF ApproveBuy, Assess, BuyPasses, CanOpen, CurrentQty

\* The figures the limits are made of are natural numbers.
LEMMA Figures ==
  ASSUME IInv
  PROVE  /\ account.held \in Nat /\ account.gross \in Nat /\ account.price \in Nat
         /\ account.lot \in Nat
         /\ equity \in Nat /\ buys \in Nat /\ bought \in Nat
         /\ puts \in Nat /\ pledged \in Nat
         /\ exits \in Nat /\ exitAsked \in Nat /\ exitSent \in Nat
         /\ MaxPerSymbol \in Nat /\ MaxHeat \in Nat /\ RiskPerTrade \in Nat
         /\ AssumedStop \in Nat
  BY RiskAssumption DEF IInv, TypeOK, Snapshot

\* n buys of a cycle take the symbol to at most n times its limit.
THEOREM SymbolLimitHolds == Spec => []SymbolWithinLimit
<1>1. Init => SymbolWithinLimit
  BY RiskAssumption DEF Init, SymbolWithinLimit, NoSnapshot
<1>2. IInv /\ IInv' /\ SymbolWithinLimit /\ [Next]_vars => SymbolWithinLimit'
  <2> SUFFICES ASSUME IInv, IInv', SymbolWithinLimit, [Next]_vars
               PROVE  SymbolWithinLimit'
    OBVIOUS
  <2>1. CASE NothingApproved'
    <3>1. account'.held \in Nat /\ account'.price \in Nat /\ equity' \in Nat
      BY DEF IInv, TypeOK, Snapshot
    <3> QED
      BY <2>1, <3>1, RiskAssumption DEF NothingApproved, SymbolWithinLimit
  <2>2. CASE UNCHANGED cycleVars
    BY <2>2 DEF cycleVars, SymbolWithinLimit
  <2>3. ASSUME NEW q \in Asked, ApproveBuy(q) PROVE SymbolWithinLimit'
    <3> DEFINE lim == MaxPerSymbol * equity
               sent == Rounded(Sized(q))
    <3>1. lim \in Nat /\ buys * MaxPerSymbol * equity = buys * lim
          /\ (buys + 1) * MaxPerSymbol * equity = (buys + 1) * lim
      BY Figures
    <3>2. /\ Sized(q) \in Nat /\ sent \in Nat /\ sent <= Sized(q)
          /\ 100 * ((account.held + Sized(q)) * account.price) <= lim
      BY <2>3, BuyFact
    <3>3. (buys * account.held + bought) * account.price * 100 <= buys * lim
      BY <3>1 DEF SymbolWithinLimit
    <3>4. ((buys + 1) * account.held + (bought + sent)) * account.price * 100
            <= (buys + 1) * lim
      BY <3>1, <3>2, <3>3, Figures, OneMoreBuy
    <3>5. buys' = buys + 1 /\ bought' = bought + sent
          /\ account' = account /\ equity' = equity
      BY <2>3, BuyFact DEF ApproveBuy
    <3> QED
      BY <3>1, <3>4, <3>5 DEF SymbolWithinLimit
  <2>4. ASSUME buys' = buys, bought' = bought, Assess PROVE SymbolWithinLimit'
    BY <2>4 DEF Assess, SymbolWithinLimit
  <2> QED
    BY <2>1, <2>2, <2>3, <2>4, CycleStep DEF ApprovePut, Veto, PassExit
<1> QED
  BY <1>1, <1>2, Invariance, PTL DEF Spec

\* n buys and short puts take the portfolio to at most n times its heat limit.
THEOREM HeatLimitHolds == Spec => []HeatWithinLimit
<1>1. Init => HeatWithinLimit
  BY RiskAssumption DEF Init, HeatWithinLimit, NoSnapshot
<1>2. IInv /\ IInv' /\ HeatWithinLimit /\ [Next]_vars => HeatWithinLimit'
  <2> SUFFICES ASSUME IInv, IInv', HeatWithinLimit, [Next]_vars
               PROVE  HeatWithinLimit'
    OBVIOUS
  <2> DEFINE lim == MaxHeat * equity
             n   == buys + puts
             x   == bought * account.price + pledged
  <2>1. CASE NothingApproved'
    <3>1. account'.gross \in Nat /\ account'.price \in Nat /\ equity' \in Nat
      BY DEF IInv, TypeOK, Snapshot
    <3> QED
      BY <2>1, <3>1, RiskAssumption DEF NothingApproved, HeatWithinLimit
  <2>2. CASE UNCHANGED cycleVars
    BY <2>2 DEF cycleVars, HeatWithinLimit
  <2>3. /\ lim \in Nat /\ n \in Nat /\ x \in Nat
        /\ n * MaxHeat * equity = n * lim
        /\ (n + 1) * MaxHeat * equity = (n + 1) * lim
    BY Figures
  <2>4. (n * account.gross + x) * AssumedStop <= n * lim
    BY <2>3, Figures DEF HeatWithinLimit
  <2>5. ASSUME NEW q \in Asked, ApproveBuy(q) PROVE HeatWithinLimit'
    <3> DEFINE sent == Rounded(Sized(q))
    <3>1. /\ Sized(q) \in Nat /\ sent \in Nat /\ sent <= Sized(q)
          /\ (account.gross + Sized(q) * account.price) * AssumedStop <= lim
      BY <2>5, BuyFact
    <3>2. /\ sent * account.price <= Sized(q) * account.price
          /\ sent * account.price \in Nat /\ Sized(q) * account.price \in Nat
      <4>1. account.price * sent <= account.price * Sized(q)
        BY <3>1, Figures, Monotone
      <4> QED
        BY <3>1, <4>1, Figures
    <3>3. ((n + 1) * account.gross + (x + sent * account.price)) * AssumedStop
            <= (n + 1) * lim
      BY <2>3, <2>4, <3>1, <3>2, Figures, OneMoreRisk
    <3>4. /\ buys' = buys + 1 /\ bought' = bought + sent
          /\ puts' = puts /\ pledged' = pledged
          /\ account' = account /\ equity' = equity
      BY <2>5, BuyFact DEF ApproveBuy
    <3>5. /\ buys' + puts' = n + 1
          /\ bought' * account'.price + pledged' = x + sent * account.price
      <4>1. (bought + sent) * account.price
              = bought * account.price + sent * account.price
        BY <3>1, Figures
      <4>2. bought' * account'.price = (bought + sent) * account.price
        BY <3>4
      <4>3. bought * account.price \in Nat
        BY Figures
      <4> QED
        BY <3>2, <3>4, <4>1, <4>2, <4>3, Figures
    <3>6. HeatWithinLimit' <=>
            ((buys' + puts') * account.gross + (bought' * account'.price + pledged'))
               * AssumedStop <= (n + 1) * lim
      BY <2>3, <3>1, <3>4, <3>5, Figures DEF HeatWithinLimit
    <3> QED
      BY <3>3, <3>5, <3>6
  <2>6. ASSUME NEW c \in Collaterals, ApprovePut(c) PROVE HeatWithinLimit'
    <3>1. c \in Nat /\ c <= c /\ (account.gross + c) * AssumedStop <= lim
      BY <2>6, RiskAssumption DEF ApprovePut, PutPasses, CanOpen
    <3>2. ((n + 1) * account.gross + (x + c)) * AssumedStop <= (n + 1) * lim
      BY <2>3, <2>4, <3>1, Figures, OneMoreRisk
    <3>3. /\ puts' = puts + 1 /\ pledged' = pledged + c
          /\ buys' = buys /\ bought' = bought
          /\ account' = account /\ equity' = equity
      BY <2>6 DEF ApprovePut, Assess
    <3>4. /\ buys' + puts' = n + 1
          /\ bought' * account'.price + pledged' = x + c
      <4> DEFINE v == bought * account.price
      <4>1. bought' * account'.price = v
        BY <3>3
      <4>2. v \in Nat /\ x = v + pledged
        BY Figures
      <4> HIDE DEF v, x
      <4>3. v + (pledged + c) = (v + pledged) + c
        BY <3>1, <4>2, Figures
      <4>4. buys + (puts + 1) = (buys + puts) + 1
        BY Figures
      <4> QED
        BY <3>3, <4>1, <4>2, <4>3, <4>4
    <3>5. HeatWithinLimit' <=>
            ((buys' + puts') * account.gross + (bought' * account'.price + pledged'))
               * AssumedStop <= (n + 1) * lim
      BY <2>3, <3>1, <3>3, <3>4, Figures DEF HeatWithinLimit
    <3> QED
      BY <3>2, <3>4, <3>5
  <2>7. ASSUME buys' = buys, bought' = bought, puts' = puts, pledged' = pledged,
               Assess
        PROVE  HeatWithinLimit'
    BY <2>7 DEF Assess, HeatWithinLimit
  <2> QED
    BY <2>1, <2>2, <2>5, <2>6, <2>7, CycleStep DEF Veto, PassExit
<1> QED
  BY <1>1, <1>2, Invariance, PTL DEF Spec

\* A buy risks no more than the budget of a trade that covers a share.
THEOREM TradeRiskHolds == Spec => []TradeRiskWithinBudget
<1>1. Init => TradeRiskWithinBudget
  BY RiskAssumption DEF Init, TradeRiskWithinBudget, NoSnapshot
<1>2. IInv /\ IInv' /\ TradeRiskWithinBudget /\ [Next]_vars => TradeRiskWithinBudget'
  <2> SUFFICES ASSUME IInv, IInv', TradeRiskWithinBudget, [Next]_vars
               PROVE  TradeRiskWithinBudget'
    OBVIOUS
  <2>1. CASE NothingApproved'
    <3>1. account'.price \in Nat /\ equity' \in Nat
      BY DEF IInv, TypeOK, Snapshot
    <3> QED
      BY <2>1, <3>1, RiskAssumption DEF NothingApproved, TradeRiskWithinBudget
  <2>2. CASE UNCHANGED cycleVars
    BY <2>2 DEF cycleVars, TradeRiskWithinBudget, QtyRisk
  <2>3. ASSUME NEW q \in Asked, ApproveBuy(q) PROVE TradeRiskWithinBudget'
    <3> DEFINE lim  == RiskPerTrade * equity
               risk == account.price * AssumedStop
               sent == Rounded(Sized(q))
    <3>1. /\ account' = account /\ equity' = equity
          /\ buys' = buys + 1 /\ bought' = bought + sent
      BY <2>3, BuyFact DEF ApproveBuy
    <3>2. QtyRisk' = QtyRisk
      BY <3>1 DEF QtyRisk
    <3> SUFFICES ASSUME QtyRisk > 0
                 PROVE  (bought + sent) * account.price * AssumedStop
                          <= (buys + 1) * RiskPerTrade * equity
      BY <3>1, <3>2 DEF TradeRiskWithinBudget
    <3>3. /\ Sized(q) \in Nat /\ sent \in Nat /\ sent <= Sized(q)
          /\ Sized(q) * account.price * AssumedStop <= lim
      BY <2>3, BuyFact, SizedFact, RiskAssumption DEF IInv
    <3>4. /\ lim \in Nat /\ risk \in Nat
          /\ buys * RiskPerTrade * equity = buys * lim
          /\ (buys + 1) * RiskPerTrade * equity = buys * lim + lim
      BY Figures
    <3>5. bought * account.price * AssumedStop <= buys * lim
      BY <3>4 DEF TradeRiskWithinBudget
    <3>6. risk * sent <= risk * Sized(q)
      BY <3>3, <3>4, Monotone
    <3>7. /\ risk * sent \in Nat /\ buys * lim \in Nat
          /\ risk * Sized(q) = Sized(q) * account.price * AssumedStop
          /\ bought * account.price * AssumedStop \in Nat
          /\ (bought + sent) * account.price * AssumedStop
               = bought * account.price * AssumedStop + risk * sent
      BY <3>3, <3>4, Figures
    <3> HIDE DEF lim, risk, sent
    <3> QED
      BY <3>3, <3>4, <3>5, <3>6, <3>7
  <2>4. ASSUME buys' = buys, bought' = bought, Assess PROVE TradeRiskWithinBudget'
    BY <2>4 DEF Assess, TradeRiskWithinBudget, QtyRisk
  <2> QED
    BY <2>1, <2>2, <2>3, <2>4, CycleStep DEF ApprovePut, Veto, PassExit
<1> QED
  BY <1>1, <1>2, Invariance, PTL DEF Spec

\* A sale leaves whole but for less than one lot, halt or not.
THEOREM ExitsPassHolds == Spec => []ExitsPass
<1>1. Init => ExitsPass
  BY DEF Init, ExitsPass, NoSnapshot
<1>2. IInv /\ IInv' /\ ExitsPass /\ [Next]_vars => ExitsPass'
  <2> SUFFICES ASSUME IInv, IInv', ExitsPass, [Next]_vars PROVE ExitsPass'
    OBVIOUS
  <2> DEFINE loss == IF account.lot = 0 THEN 0 ELSE account.lot - 1
  <2>1. CASE NothingApproved'
    <3>1. account'.lot \in Nat
      BY DEF IInv, TypeOK, Snapshot
    <3> QED
      BY <2>1, <3>1 DEF NothingApproved, ExitsPass
  <2>2. CASE UNCHANGED cycleVars
    BY <2>2 DEF cycleVars, ExitsPass
  <2>3. ASSUME NEW q \in Asked, PassExit(q) PROVE ExitsPass'
    <3>1. q \in Nat /\ Rounded(q) \in Nat /\ q <= Rounded(q) + loss
      BY RoundedDown, RiskAssumption DEF IInv, TypeOK
    <3>2. loss \in Nat
      BY Figures
    <3>3. /\ exitAsked' = exitAsked + q /\ exitSent' = exitSent + Rounded(q)
          /\ exits' = exits + 1 /\ account' = account
      BY <2>3 DEF PassExit, Assess
    <3>4. exitAsked <= exitSent + exits * loss
      BY DEF ExitsPass
    <3>5. (exits + 1) * loss = exits * loss + loss /\ exits * loss \in Nat
      BY <3>2, Figures
    <3> HIDE DEF loss
    <3>6. exitAsked + q <= (exitSent + Rounded(q)) + (exits + 1) * loss
      BY <3>1, <3>2, <3>4, <3>5, Figures
    <3> QED
      BY <3>3, <3>6 DEF ExitsPass, loss
  <2>4. ASSUME exits' = exits, exitAsked' = exitAsked, exitSent' = exitSent, Assess
        PROVE  ExitsPass'
    BY <2>4 DEF Assess, ExitsPass
  <2> QED
    BY <2>1, <2>2, <2>3, <2>4, CycleStep DEF ApproveBuy, ApprovePut, Veto
<1> QED
  BY <1>1, <1>2, Invariance, PTL DEF Spec

\* What a cycle approves against one snapshot, for all limits, portfolios, lots
\* and numbers of intents.
THEOREM ApprovalsWithinLimitsHold == Spec => []ApprovalsWithinLimits
  BY SymbolLimitHolds, HeatLimitHolds, TradeRiskHolds, PTL DEF ApprovalsWithinLimits
=============================================================================
