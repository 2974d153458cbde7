------------------------ MODULE OrderLifecycleProofs ------------------------
(***************************************************************************)
(* Machine-checked proofs about OrderLifecycle, for every number of        *)
(* orders, retries, crashes and re-executions, either kind of broker and   *)
(* every set of faults.                                                    *)
(***************************************************************************)
EXTENDS OrderLifecycle, TLAPS

-----------------------------------------------------------------------------
(* The inductive invariant *)

\* The process holds an intent exactly while it executes one.
InHand ==
  /\ pc \in ExecutingPc <=> cur # None
  /\ pc \in {"send", "backoff", "giveup"} => attempt >= 1
  /\ pc = "backoff" => attempt < MaxRetries

\* The row of the intent in hand exists from RecordPending on, and so do the
\* rows a reconciliation works on.
RowsExist ==
  /\ pc \in {"recheck", "send", "backoff", "giveup", "mark", "fill", "log"}
       => status[cur] # "ABSENT"
  /\ \A c \in todo : status[c] # "ABSENT"

\* Status and quantity agree at the broker.
BrokerAgrees ==
  \A c \in Cid : /\ bstatus[c] = "filled" <=> bfilled[c] = Qty
                 /\ bstatus[c] = "none" => bfilled[c] = 0

\* The answer in hand is one the broker gave: it may be old, never ahead.
AnswerIsReal ==
  pc \in {"mark", "fill", "log"} =>
    /\ resp \in Response
    /\ bstatus[cur] # "none"
    /\ filledQty[cur] <= resp.filled /\ resp.filled <= bfilled[cur]
    /\ resp.status \in {"filled", "dead"} => bstatus[cur] = resp.status

\* An order about to be sent while the switch is engaged holds the pass.
PassHeld == engaged /\ pc \in {"send", "backoff"} => pass = {cur}

IInv ==
  /\ TypeOK
  /\ InHand
  /\ RowsExist
  /\ WriteBeforeNetwork
  /\ BrokerAgrees
  /\ AnswerIsReal
  /\ PassHeld
  /\ LedgerNeverAhead

-----------------------------------------------------------------------------
\* The status the executor records is a status of a row, and FILLED only for
\* an answer that says so.
LEMMA LifecycleStatusFact ==
  ASSUME NEW s \in BrokerStatus, NEW q \in 0..Qty
  PROVE  /\ LifecycleStatus(s, q) \in LocalStatus \ {"ABSENT", "PENDING_SUBMIT", "CANCELED"}
         /\ LifecycleStatus(s, q) = "FILLED" => s = "filled" \/ q = Qty
         /\ LifecycleStatus(s, q) = "REJECTED" => s = "dead" /\ q = 0
  BY LifecycleAssumption DEF LifecycleStatus, Readable, LocalStatus, BrokerStatus

LEMMA InitInv == Init => IInv
  BY LifecycleAssumption, SMTT(30)
  DEF Init, IInv, TypeOK, InHand, RowsExist, WriteBeforeNetwork, BrokerAgrees,
      AnswerIsReal, PassHeld, LedgerNeverAhead, BrokerStatus, LocalStatus, Pc,
      ExecutingPc, SyncPc, NoResp, FaultKind

LEMMA StepInv == IInv /\ [Next]_vars => IInv'
<1> SUFFICES ASSUME IInv, [Next]_vars PROVE IInv'
  OBVIOUS
<1> USE LifecycleAssumption
        DEF IInv, TypeOK, InHand, RowsExist, WriteBeforeNetwork, BrokerAgrees,
            AnswerIsReal, PassHeld, LedgerNeverAhead, BrokerStatus, LocalStatus,
            Pc, ExecutingPc, SyncPc, NoResp, Response,
            switchVars, brokerVars, rowVars, dbVars, orderVars, processVars, historyVars
<1>1. CASE Engage
  BY <1>1 DEF Engage
<1>2. CASE Release
  <2>1. UNCHANGED <<brokerVars, dbVars, processVars, historyVars>> /\ engaged' = FALSE /\ pass' = {}
    BY <1>2 DEF Release
  <2>2. TypeOK'
    BY <2>1, ZenonT(40)
  <2>3. InHand' /\ RowsExist'
    BY <2>1
  <2>4. WriteBeforeNetwork' /\ BrokerAgrees' /\ AnswerIsReal' /\ PassHeld' /\ LedgerNeverAhead'
    BY <2>1
  <2> QED
    BY <2>2, <2>3, <2>4
<1>3. ASSUME NEW c \in Cid, BrokerFill(c) PROVE IInv'
  BY <1>3 DEF BrokerFill, Live
<1>4. ASSUME NEW c \in Cid, BrokerEnd(c) PROVE IInv'
  BY <1>4 DEF BrokerEnd, Live
<1>5. CASE Crash
  BY <1>5 DEF Crash, ForgetProcess
<1>6. CASE Restart
  BY <1>6 DEF Restart
<1>7. CASE SyncStart
  BY <1>7 DEF SyncStart, OpenRows, OpenStatus
<1>8. CASE SyncFail
  BY <1>8 DEF SyncFail, AfterSync
<1>9. ASSUME NEW c \in Cid, SyncOne(c) PROVE IInv'
  BY <1>9 DEF SyncOne, Reconciled, LookupFailed, Misled
<1>10. CASE SyncDone
  BY <1>10 DEF SyncDone, AfterSync
<1>11. CASE Tick
  BY <1>11 DEF Tick
<1>12. CASE Approve
  BY <1>12 DEF Approve
<1>13. CASE PlanRaises
  <2>1. CASE firstTick
    BY <1>13, <2>1 DEF PlanRaises, AbortCycle, ForgetProcess
  <2>2. CASE ~firstTick
    BY <1>13, <2>2 DEF PlanRaises, AbortCycle
  <2>3. QED
    BY <2>1, <2>2
<1>14. CASE EndCycle
  <2>1. TypeOK'
    BY <1>14 DEF EndCycle
  <2>2. InHand' /\ RowsExist'
    BY <1>14 DEF EndCycle
  <2>3. WriteBeforeNetwork' /\ BrokerAgrees' /\ AnswerIsReal' /\ PassHeld' /\ LedgerNeverAhead'
    BY <1>14 DEF EndCycle
  <2>4. QED
    BY <2>1, <2>2, <2>3
<1>15. ASSUME NEW c \in Cid, Take(c) PROVE IInv'
  BY <1>15 DEF Take
<1>16. CASE Validate
  BY <1>16 DEF Validate, Done
<1>17. CASE ValidateRaises
  <2>1. CASE firstTick
    BY <1>17, <2>1 DEF ValidateRaises, AbortCycle, ForgetProcess
  <2>2. CASE ~firstTick
    BY <1>17, <2>2 DEF ValidateRaises, AbortCycle
  <2>3. QED
    BY <2>1, <2>2
<1>18. CASE Lookup
  BY <1>18 DEF Lookup, Done, Misled
<1>19. CASE RecordPending
  BY <1>19 DEF RecordPending
<1>20. CASE Recheck
  BY <1>20 DEF Recheck, Done
<1>21. CASE Send
  BY <1>21 DEF Send, RequestLost, Created, Duplicate, AttemptFails, Answered, StatusFor
<1>22. CASE Backoff
  BY <1>22 DEF Backoff
<1>23. CASE GiveUp
  BY <1>23 DEF GiveUp, Done
<1>24. CASE MarkSubmitted
  BY <1>24, LifecycleStatusFact DEF MarkSubmitted, Done
<1>25. CASE MarkFill
  BY <1>25, LifecycleStatusFact DEF MarkFill
<1>26. CASE LogFill
  BY <1>26 DEF LogFill, Done
<1>27. CASE UNCHANGED vars
  BY <1>27 DEF vars
<1>28. QED
  BY <1>1, <1>2, <1>3, <1>4, <1>5, <1>6, <1>7, <1>8, <1>9, <1>10, <1>11, <1>12,
     <1>13, <1>14, <1>15, <1>16, <1>17, <1>18, <1>19, <1>20, <1>21, <1>22, <1>23,
     <1>24, <1>25, <1>26, <1>27
  DEF Next, Bot, Reconciliation, Execution

\* The inductive invariant holds in every reachable state.
THEOREM Invariance == Spec => []IInv
<1>1. Init => IInv
  BY InitInv
<1>2. IInv /\ [Next]_vars => IInv'
  BY StepInv
<1>3. QED
  BY <1>1, <1>2, PTL DEF Spec

-----------------------------------------------------------------------------
(* What follows from it *)

\* Every variable keeps its type, whatever the constants.
THEOREM TypeCorrect == Spec => []TypeOK
  BY Invariance, PTL DEF IInv

\* Every order the broker knows has a row in the ledger.
THEOREM WriteBeforeNetworkHolds == Spec => []WriteBeforeNetwork
  BY Invariance, PTL DEF IInv

\* The ledger never claims more than the broker executed.
THEOREM LedgerNeverAheadHolds == Spec => []LedgerNeverAhead
  BY Invariance, PTL DEF IInv

-----------------------------------------------------------------------------
(* Steps that create an order, add a row or claim a fill *)

\* Only Send creates an order, and only the one in hand.
LEMMA OnlySendCreates ==
  ASSUME IInv, [Next]_vars
  PROVE  \/ UNCHANGED bstatus
         \/ \E c \in Cid : BrokerFill(c) \/ BrokerEnd(c)
         \/ Send
  BY DEF Next, Bot, Reconciliation, Execution, vars, brokerVars, dbVars, processVars,
         historyVars, switchVars, Engage, Release, Crash, Restart, SyncStart, SyncFail,
         SyncOne, SyncDone, Tick, Approve, PlanRaises, ValidateRaises, AbortCycle,
         EndCycle, Take, Validate, Lookup, RecordPending, Recheck, Backoff, GiveUp,
         MarkSubmitted, MarkFill, LogFill

\* The kill switch: an order created while it is engaged holds the pass.
THEOREM SwitchStopsOrdersHolds == Spec => SwitchStopsOrders
<1> DEFINE A == engaged => \A c \in Cid :
                  bstatus[c] = "none" /\ bstatus'[c] # "none" => c \in pass
<1>1. IInv /\ [Next]_vars => [A]_vars
  <2> SUFFICES ASSUME IInv, [Next]_vars, engaged, NEW c \in Cid,
                      bstatus[c] = "none", bstatus'[c] # "none"
               PROVE  c \in pass
    OBVIOUS
  <2>1. CASE UNCHANGED bstatus
    BY <2>1
  <2>2. ASSUME NEW d \in Cid, BrokerFill(d) \/ BrokerEnd(d) PROVE c \in pass
    BY <2>2 DEF BrokerFill, BrokerEnd, Live, IInv, TypeOK
  <2>3. CASE Send
    <3>1. c = cur
      BY <2>3 DEF Send, RequestLost, Created, Duplicate, brokerVars, IInv, TypeOK
    <3>2. QED
      BY <2>3, <3>1 DEF Send, IInv, PassHeld
  <2>4. QED
    BY <2>1, <2>2, <2>3, OnlySendCreates
<1>2. QED
  BY <1>1, Invariance, PTL DEF Spec, SwitchStopsOrders

-----------------------------------------------------------------------------
(* OrderLifecycle implements OrderContract *)

\* A step that changes neither a row's existence, nor the broker, nor the
\* switch, nor a claim is a stutter of the contract.
LEMMA ContractStutter ==
  ASSUME UNCHANGED <<switchVars, brokerVars, filledQty>>,
         \A c \in Cid : status'[c] # "ABSENT" <=> status[c] # "ABSENT"
  PROVE  UNCHANGED Contract!vars
  BY DEF Contract!vars, switchVars, brokerVars

\* A claim of a row that exists, of no more than the broker executed.
LEMMA ContractClaim ==
  ASSUME TypeOK, NEW c \in Cid, NEW q \in Nat,
         UNCHANGED <<switchVars, brokerVars>>,
         filledQty' = [filledQty EXCEPT ![c] = q],
         filledQty[c] <= q, q <= bfilled[c],
         status[c] # "ABSENT",
         \A d \in Cid : status'[d] # "ABSENT" <=> status[d] # "ABSENT"
  PROVE  Contract!Claim(c)
<1>1. q \in filledQty[c]..bfilled[c]
  BY LifecycleAssumption DEF TypeOK
<1>2. UNCHANGED <<engaged, pass, {d \in Cid : status[d] # "ABSENT"},
                  {d \in Cid : bstatus[d] # "none"}, bfilled>>
  BY DEF switchVars, brokerVars
<1>3. QED
  BY <1>1, <1>2 DEF Contract!Claim

\* The contract's steps, as they look from here.
LEMMA SendImplements == IInv /\ Send => [Contract!Next]_Contract!vars
<1> SUFFICES ASSUME IInv, Send PROVE [Contract!Next]_Contract!vars
  OBVIOUS
<1>1. cur \in Cid /\ status[cur] # "ABSENT" /\ (engaged => pass = {cur})
  BY DEF IInv, TypeOK, InHand, RowsExist, PassHeld, Send, ExecutingPc
<1>2. CASE RequestLost \/ Duplicate
  BY <1>2, ContractStutter DEF Send, RequestLost, Duplicate, dbVars, brokerVars
<1>3. CASE Created
  <2>1. PICK q \in 0..Qty : \E s \in StatusFor(q) :
          /\ bstatus' = [bstatus EXCEPT ![cur] = s]
          /\ bfilled' = [bfilled EXCEPT ![cur] = q]
    BY <1>3 DEF Created
  <2>2. PICK s \in StatusFor(q) : bstatus' = [bstatus EXCEPT ![cur] = s]
    BY <2>1
  <2>3. s # "none"
    BY <2>2 DEF StatusFor
  <2>4. {c \in Cid : bstatus'[c] # "none"} = {c \in Cid : bstatus[c] # "none"} \union {cur}
    BY <1>1, <2>2, <2>3 DEF IInv, TypeOK
  <2>5. UNCHANGED <<engaged, pass, {c \in Cid : status[c] # "ABSENT"}, filledQty>>
    BY DEF Send, switchVars, dbVars
  <2>6. cur \in {c \in Cid : status[c] # "ABSENT"} \ {c \in Cid : bstatus[c] # "none"}
    BY <1>1, <1>3 DEF Created
  <2>7. PICK c \in Cid : c = cur
    BY <1>1
  <2>8. Contract!Place(c)
    BY <1>1, <2>1, <2>4, <2>5, <2>6, <2>7 DEF Contract!Place
  <2>9. QED
    BY <2>8 DEF Contract!Next
<1>4. QED
  BY <1>2, <1>3 DEF Send

LEMMA StepImplements == IInv /\ [Next]_vars => [Contract!Next]_Contract!vars
<1> SUFFICES ASSUME IInv, [Next]_vars PROVE [Contract!Next]_Contract!vars
  OBVIOUS
<1>1. CASE Engage \/ Release
  <2>1. UNCHANGED <<{c \in Cid : status[c] # "ABSENT"}, {c \in Cid : bstatus[c] # "none"},
                    bfilled, filledQty>>
    BY <1>1 DEF Engage, Release, brokerVars, dbVars
  <2>2. pc \in {"send", "backoff"} => cur \in Cid
    BY DEF IInv, TypeOK, InHand, ExecutingPc
  <2>3. CASE Engage
    BY <2>1, <2>2, <2>3 DEF Engage, Contract!Next, Contract!Flip
  <2>4. CASE Release
    <3>1. engaged = TRUE
      BY <2>4 DEF Release, IInv, TypeOK
    <3>2. QED
      BY <2>1, <2>4, <3>1 DEF Release, Contract!Next, Contract!Flip
  <2>5. QED
    BY <1>1, <2>3, <2>4
<1>2. ASSUME NEW c \in Cid, BrokerFill(c) PROVE [Contract!Next]_Contract!vars
  <2>1. PICK q \in (bfilled[c] + 1)..Qty :
          /\ bfilled' = [bfilled EXCEPT ![c] = q]
          /\ bstatus' = [bstatus EXCEPT ![c] = IF q = Qty THEN "filled" ELSE "partial"]
    BY <1>2 DEF BrokerFill
  <2>2. q \in bfilled[c]..Qty
    BY LifecycleAssumption DEF IInv, TypeOK
  <2>3. {d \in Cid : bstatus'[d] # "none"} = {d \in Cid : bstatus[d] # "none"}
    BY <1>2, <2>1 DEF BrokerFill, Live, IInv, TypeOK
  <2>4. UNCHANGED <<engaged, pass, {d \in Cid : status[d] # "ABSENT"}, filledQty>>
    BY <1>2 DEF BrokerFill, switchVars, dbVars
  <2>5. c \in {d \in Cid : bstatus[d] # "none"}
    BY <1>2 DEF BrokerFill, Live
  <2>6. Contract!Execute(c)
    BY <2>1, <2>2, <2>3, <2>4, <2>5 DEF Contract!Execute
  <2>7. QED
    BY <2>6 DEF Contract!Next
<1>3. ASSUME NEW c \in Cid, BrokerEnd(c) PROVE [Contract!Next]_Contract!vars
  <2>1. {d \in Cid : bstatus'[d] # "none"} = {d \in Cid : bstatus[d] # "none"}
    BY <1>3 DEF BrokerEnd, Live, IInv, TypeOK
  <2>2. QED
    BY <1>3, <2>1 DEF BrokerEnd, Contract!vars, switchVars, dbVars
<1>4. ASSUME NEW c \in Cid, SyncOne(c) PROVE [Contract!Next]_Contract!vars
  <2>1. PICK row \in {Reconciled(c), LookupFailed(c)} :
          /\ status' = [status EXCEPT ![c] = row.status]
          /\ filledQty' = [filledQty EXCEPT ![c] = row.filled]
    BY <1>4 DEF SyncOne
  <2>2. status[c] # "ABSENT" /\ UNCHANGED <<switchVars, brokerVars>>
    BY <1>4 DEF SyncOne, IInv, RowsExist
  <2>3. /\ row.status # "ABSENT" /\ row.filled \in Nat
        /\ filledQty[c] <= row.filled /\ row.filled <= bfilled[c]
    BY <2>1, <2>2, LifecycleAssumption
    DEF Reconciled, LookupFailed, IInv, TypeOK, LedgerNeverAhead
  <2>4. \A d \in Cid : status'[d] # "ABSENT" <=> status[d] # "ABSENT"
    BY <2>1, <2>2, <2>3 DEF IInv, TypeOK
  <2>5. Contract!Claim(c)
    BY <2>1, <2>2, <2>3, <2>4, ContractClaim DEF IInv
  <2>6. QED
    BY <2>5 DEF Contract!Next
<1>5. CASE RecordPending
  <2>1. cur \in Cid
    BY <1>5 DEF RecordPending, IInv, TypeOK, InHand, ExecutingPc
  <2>2. CASE status[cur] = "ABSENT"
    <3>1. {d \in Cid : status'[d] # "ABSENT"} = {d \in Cid : status[d] # "ABSENT"} \union {cur}
      BY <1>5, <2>1, <2>2 DEF RecordPending, IInv, TypeOK
    <3>2. UNCHANGED <<engaged, pass, {d \in Cid : bstatus[d] # "none"}, bfilled, filledQty>>
      BY <1>5 DEF RecordPending, switchVars, brokerVars
    <3>3. PICK c \in Cid : c = cur
      BY <2>1
    <3>4. Contract!Announce(c)
      BY <2>1, <2>2, <3>1, <3>2, <3>3 DEF Contract!Announce
    <3>5. QED
      BY <3>4 DEF Contract!Next
  <2>3. CASE status[cur] # "ABSENT"
    BY <1>5, <2>1, <2>3, ContractStutter DEF RecordPending, IInv, TypeOK
  <2>4. QED
    BY <2>2, <2>3
<1>6. CASE Send
  BY <1>6, SendImplements
<1>7. CASE Recheck \/ GiveUp \/ MarkSubmitted
  <2>1. cur \in Cid /\ status[cur] # "ABSENT" /\ UNCHANGED <<switchVars, brokerVars, filledQty>>
    BY <1>7 DEF Recheck, GiveUp, MarkSubmitted, IInv, TypeOK, InHand, RowsExist, ExecutingPc
  <2>2. \E s \in LocalStatus \ {"ABSENT"} : status' = [status EXCEPT ![cur] = s] \/ status' = status
    <3>1. CASE Recheck \/ GiveUp
      BY <3>1 DEF Recheck, GiveUp, LocalStatus
    <3>2. CASE MarkSubmitted
      BY <3>2, LifecycleStatusFact DEF MarkSubmitted, IInv, AnswerIsReal, Response
    <3>3. QED
      BY <1>7, <3>1, <3>2
  <2>3. QED
    BY <2>1, <2>2, ContractStutter DEF IInv, TypeOK
<1>8. CASE MarkFill
  <2>1. /\ cur \in Cid /\ status[cur] # "ABSENT" /\ resp.filled \in Nat
        /\ filledQty[cur] <= resp.filled /\ resp.filled <= bfilled[cur]
    BY <1>8, LifecycleAssumption
    DEF MarkFill, IInv, TypeOK, InHand, RowsExist, AnswerIsReal, Response, ExecutingPc
  <2>2. LifecycleStatus(resp.status, resp.filled) # "ABSENT"
    BY <1>8, LifecycleStatusFact DEF MarkFill, IInv, AnswerIsReal, Response
  <2>3. \A d \in Cid : status'[d] # "ABSENT" <=> status[d] # "ABSENT"
    BY <1>8, <2>1, <2>2 DEF MarkFill, IInv, TypeOK
  <2>4. PICK c \in Cid, q \in Nat : c = cur /\ q = resp.filled
    BY <2>1
  <2>5. Contract!Claim(c)
    BY <1>8, <2>1, <2>3, <2>4, ContractClaim DEF MarkFill, IInv
  <2>6. QED
    BY <2>5 DEF Contract!Next
<1>9. CASE UNCHANGED <<switchVars, brokerVars, rowVars>>
  BY <1>9, ContractStutter DEF rowVars
<1>10. QED
  <2>1. CASE Crash \/ Restart \/ SyncStart \/ SyncFail \/ SyncDone \/ Tick \/ Approve
             \/ EndCycle \/ (\E c \in Cid : Take(c)) \/ Validate \/ Lookup \/ Backoff
             \/ LogFill \/ UNCHANGED vars
    BY <1>9, <2>1 DEF Crash, Restart, SyncStart, SyncFail, SyncDone, Tick, Approve,
       EndCycle, Take, Validate, Lookup, Backoff, LogFill, vars, dbVars, rowVars
  <2>2. CASE PlanRaises \/ ValidateRaises
    BY <1>9, <2>2 DEF PlanRaises, ValidateRaises, AbortCycle, dbVars, rowVars
  <2>3. QED
    BY <1>1, <1>2, <1>3, <1>4, <1>5, <1>6, <1>7, <1>8, <2>1, <2>2
    DEF Next, Bot, Reconciliation, Execution

\* The refinement: every behaviour of the order path, crashes, retries and
\* reconciliations included, is one of OrderContract.
THEOREM Implementation == Spec => ImplementsContract
<1>1. Init => Contract!Init
  BY DEF Init, Contract!Init
<1>2. IInv /\ [Next]_vars => [Contract!Next]_Contract!vars
  BY StepImplements
<1>3. QED
  BY <1>1, <1>2, Invariance, PTL DEF Spec, ImplementsContract, Contract!Spec

-----------------------------------------------------------------------------
(* No orphan *)

\* An intent executed once at most, which nothing hid from the bot.
Plain(c) == runs[c] <= 1 /\ c \notin misled

\* An intent not yet handed over, or not yet recorded, has no row; and no
\* intent is both in hand and waiting.
Unrecorded ==
  /\ \A c \in Cid :
       /\ runs[c] <= 1
       /\ runs[c] = 0 \/ c \in batch \/ (c = cur /\ pc \in {"validate", "lookup", "record"})
       => status[c] = "ABSENT"
  /\ \A c \in batch : runs[c] # 0
  /\ cur # None => runs[cur] # 0 /\ cur \notin batch

\* From its record to its answer the row of the intent in hand is pending, and
\* while it is being sent the broker does not know it.
BeingSent ==
  cur # None /\ Plain(cur) =>
    /\ pc \in {"recheck", "send", "backoff", "giveup", "mark"}
         => status[cur] = "PENDING_SUBMIT"
    /\ pc \in {"recheck", "send", "backoff", "giveup"} => bstatus[cur] = "none"

OrphanInv == Unrecorded /\ BeingSent /\ NoOrphan

LEMMA OrphanInit == Init => OrphanInv
  BY DEF Init, OrphanInv, Unrecorded, BeingSent, Plain, NoOrphan

LEMMA OrphanStep == IInv /\ OrphanInv /\ [Next]_vars => OrphanInv'
<1> SUFFICES ASSUME IInv, OrphanInv, [Next]_vars PROVE OrphanInv'
  OBVIOUS
<1> USE LifecycleAssumption
        DEF IInv, TypeOK, InHand, OrphanInv, Unrecorded, Plain, Misled, BeingSent, NoOrphan,
            ExecutingPc, switchVars, brokerVars, rowVars, dbVars, orderVars,
            processVars, historyVars
<1>1. CASE Engage \/ Release \/ Restart
  BY <1>1 DEF Engage, Release, Restart
<1>2. ASSUME NEW c \in Cid, BrokerFill(c) \/ BrokerEnd(c) PROVE OrphanInv'
  BY <1>2 DEF BrokerFill, BrokerEnd, Live
<1>3. CASE Crash
  BY <1>3 DEF Crash, ForgetProcess
<1>4. CASE SyncStart \/ SyncFail \/ SyncDone
  BY <1>4 DEF SyncStart, SyncFail, SyncDone, AfterSync
<1>5. ASSUME NEW c \in Cid, SyncOne(c) PROVE OrphanInv'
  BY <1>5 DEF SyncOne, Reconciled, RowsExist
<1>6. CASE Tick \/ EndCycle
  BY <1>6 DEF Tick, EndCycle
<1>7. CASE Approve
  BY <1>7 DEF Approve
<1>8. CASE PlanRaises \/ ValidateRaises
  <2>1. CASE firstTick
    BY <1>8, <2>1 DEF PlanRaises, ValidateRaises, AbortCycle, ForgetProcess
  <2>2. CASE ~firstTick
    BY <1>8, <2>2 DEF PlanRaises, ValidateRaises, AbortCycle
  <2>3. QED
    BY <2>1, <2>2
<1>9. ASSUME NEW c \in Cid, Take(c) PROVE OrphanInv'
  BY <1>9 DEF Take
<1>10. CASE Validate
  BY <1>10 DEF Validate, Done
<1>11. CASE Lookup
  BY <1>11 DEF Lookup, Done
<1>12. CASE RecordPending
  BY <1>12 DEF RecordPending, WriteBeforeNetwork
<1>13. CASE Recheck
  BY <1>13 DEF Recheck, Done
<1>14. CASE Send
  BY <1>14 DEF Send, RequestLost, Created, Duplicate, AttemptFails, Answered, StatusFor
<1>15. CASE Backoff
  BY <1>15 DEF Backoff
<1>16. CASE GiveUp
  BY <1>16 DEF GiveUp, Done
<1>17. CASE MarkSubmitted \/ MarkFill
  BY <1>17, LifecycleStatusFact
  DEF MarkSubmitted, MarkFill, Done, AnswerIsReal, Response, LocalStatus
<1>18. CASE LogFill
  BY <1>18 DEF LogFill, Done
<1>19. CASE UNCHANGED vars
  BY <1>19 DEF vars
<1>20. QED
  BY <1>1, <1>2, <1>3, <1>4, <1>5, <1>6, <1>7, <1>8, <1>9, <1>10, <1>11, <1>12,
     <1>13, <1>14, <1>15, <1>16, <1>17, <1>18, <1>19
  DEF Next, Bot, Reconciliation, Execution

\* A REJECTED row hides a live or executed order only if a lost response or a
\* failed lookup hid it from the bot, or its intent is executed again: lost
\* requests, crashes and flips of the switch never do, for any number of them.
THEOREM NoOrphanHolds == Spec => []NoOrphan
<1>1. Init => OrphanInv
  BY OrphanInit
<1>2. IInv /\ OrphanInv /\ [Next]_vars => OrphanInv'
  BY OrphanStep
<1>3. OrphanInv => NoOrphan
  BY DEF OrphanInv
<1>4. QED
  BY <1>1, <1>2, <1>3, Invariance, PTL DEF Spec

-----------------------------------------------------------------------------
(* Fills are accounted for *)

\* What the executor carries from one transaction of a fill to the next.
FillInHand ==
  /\ pc \in {"mark", "fill", "log"} /\ resp.status = "filled" => resp.filled = Qty
  /\ pc = "log" /\ status[cur] = "FILLED" => filledQty[cur] = Qty

FillInv == FillInHand /\ FillsAccounted

LEMMA FillInit == Init => FillInv
  BY DEF Init, FillInv, FillInHand, FillsAccounted

LEMMA FillStep == IInv /\ FillInv /\ [Next]_vars => FillInv'
<1> SUFFICES ASSUME IInv, FillInv, [Next]_vars PROVE FillInv'
  OBVIOUS
<1> USE LifecycleAssumption
        DEF IInv, TypeOK, InHand, FillInv, FillInHand, FillsAccounted, ExecutingPc,
            switchVars, brokerVars, rowVars, dbVars, orderVars, processVars, historyVars
<1>1. CASE Engage \/ Release \/ Restart
  BY <1>1 DEF Engage, Release, Restart
<1>2. ASSUME NEW c \in Cid, BrokerFill(c) \/ BrokerEnd(c) PROVE FillInv'
  BY <1>2 DEF BrokerFill, BrokerEnd
<1>3. CASE Crash
  BY <1>3 DEF Crash, ForgetProcess
<1>4. CASE SyncStart \/ SyncFail \/ SyncDone
  BY <1>4 DEF SyncStart, SyncFail, SyncDone, AfterSync
<1>5. ASSUME NEW c \in Cid, SyncOne(c) PROVE FillInv'
  BY <1>5 DEF SyncOne, Reconciled, LookupFailed, BrokerAgrees
<1>6. CASE Tick \/ EndCycle
  BY <1>6 DEF Tick, EndCycle
<1>7. CASE Approve
  BY <1>7 DEF Approve
<1>8. CASE PlanRaises \/ ValidateRaises
  <2>1. CASE firstTick
    BY <1>8, <2>1 DEF PlanRaises, ValidateRaises, AbortCycle, ForgetProcess
  <2>2. CASE ~firstTick
    BY <1>8, <2>2 DEF PlanRaises, ValidateRaises, AbortCycle
  <2>3. QED
    BY <2>1, <2>2
<1>9. ASSUME NEW c \in Cid, Take(c) PROVE FillInv'
  BY <1>9 DEF Take
<1>10. CASE Validate \/ Lookup
  BY <1>10 DEF Validate, Lookup, Done
<1>11. CASE RecordPending
  BY <1>11 DEF RecordPending
<1>12. CASE Recheck
  BY <1>12 DEF Recheck, Done
<1>13. CASE Send
  BY <1>13 DEF Send, RequestLost, Created, Duplicate, AttemptFails, Answered, StatusFor,
     BrokerAgrees
<1>14. CASE Backoff
  BY <1>14 DEF Backoff
<1>15. CASE GiveUp
  BY <1>15 DEF GiveUp, Done
<1>16. CASE MarkSubmitted
  BY <1>16, LifecycleStatusFact DEF MarkSubmitted, Done, AnswerIsReal, Response
<1>17. CASE MarkFill
  BY <1>17, LifecycleStatusFact DEF MarkFill, AnswerIsReal, Response
<1>18. CASE LogFill
  BY <1>18 DEF LogFill, Done
<1>19. CASE UNCHANGED vars
  BY <1>19 DEF vars
<1>20. QED
  BY <1>1, <1>2, <1>3, <1>4, <1>5, <1>6, <1>7, <1>8, <1>9, <1>10, <1>11, <1>12,
     <1>13, <1>14, <1>15, <1>16, <1>17, <1>18, <1>19
  DEF Next, Bot, Reconciliation, Execution

\* A FILLED row has its quantity, and its trade is logged or was learnt by a
\* reconciliation, unless a crash cut its transactions: for any number of
\* orders, executions, faults and crashes.
THEOREM FillsAccountedHolds == Spec => []FillsAccounted
<1>1. Init => FillInv
  BY FillInit
<1>2. IInv /\ FillInv /\ [Next]_vars => FillInv'
  BY FillStep
<1>3. FillInv => FillsAccounted
  BY DEF FillInv
<1>4. QED
  BY <1>1, <1>2, <1>3, Invariance, PTL DEF Spec

-----------------------------------------------------------------------------
(* Trades are logged once *)

\* A trade in the log has its order at the broker, and an order on its way there
\* has no trade yet, unless its lookup failed.
LogInv ==
  /\ \A c \in Cid : logged[c] > 0 => bstatus[c] # "none"
  /\ pc \in {"record", "recheck", "send", "backoff", "giveup", "mark", "fill", "log"}
       => logged[cur] = 0 \/ cur \in misled
  /\ LoggedOnce

LEMMA LogInit == Init => LogInv
  BY LifecycleAssumption DEF Init, LogInv, LoggedOnce

LEMMA LogStep == IInv /\ LogInv /\ [Next]_vars => LogInv'
<1> SUFFICES ASSUME IInv, LogInv, [Next]_vars PROVE LogInv'
  OBVIOUS
<1> USE LifecycleAssumption
        DEF IInv, TypeOK, InHand, LogInv, LoggedOnce, Misled, ExecutingPc, switchVars,
           brokerVars, rowVars, dbVars, orderVars, processVars, historyVars
<1>1. CASE Engage \/ Release \/ Restart
  BY <1>1 DEF Engage, Release, Restart
<1>2. ASSUME NEW c \in Cid, BrokerFill(c) \/ BrokerEnd(c) PROVE LogInv'
  BY <1>2 DEF BrokerFill, BrokerEnd, Live
<1>3. CASE Crash
  BY <1>3 DEF Crash, ForgetProcess
<1>4. CASE SyncStart \/ SyncFail \/ SyncDone
  BY <1>4 DEF SyncStart, SyncFail, SyncDone, AfterSync
<1>5. ASSUME NEW c \in Cid, SyncOne(c) PROVE LogInv'
  BY <1>5 DEF SyncOne, Reconciled, LookupFailed
<1>6. CASE Tick \/ EndCycle
  BY <1>6 DEF Tick, EndCycle
<1>7. CASE Approve
  BY <1>7 DEF Approve
<1>8. CASE PlanRaises \/ ValidateRaises
  <2>1. CASE firstTick
    BY <1>8, <2>1 DEF PlanRaises, ValidateRaises, AbortCycle, ForgetProcess
  <2>2. CASE ~firstTick
    BY <1>8, <2>2 DEF PlanRaises, ValidateRaises, AbortCycle
  <2>3. QED
    BY <2>1, <2>2
<1>9. ASSUME NEW c \in Cid, Take(c) PROVE LogInv'
  BY <1>9 DEF Take
<1>10. CASE Validate \/ Lookup
  BY <1>10 DEF Validate, Lookup, Done
<1>11. CASE RecordPending
  BY <1>11 DEF RecordPending
<1>12. CASE Recheck
  BY <1>12 DEF Recheck, Done
<1>13. CASE Send
  BY <1>13 DEF Send, RequestLost, Created, Duplicate, AttemptFails, Answered, StatusFor
<1>14. CASE Backoff
  BY <1>14 DEF Backoff
<1>15. CASE GiveUp
  BY <1>15 DEF GiveUp, Done
<1>16. CASE MarkSubmitted
  BY <1>16 DEF MarkSubmitted, Done
<1>17. CASE MarkFill
  BY <1>17 DEF MarkFill
<1>18. CASE LogFill
  BY <1>18 DEF LogFill, Done, AnswerIsReal
<1>19. CASE UNCHANGED vars
  BY <1>19 DEF vars
<1>20. QED
  BY <1>1, <1>2, <1>3, <1>4, <1>5, <1>6, <1>7, <1>8, <1>9, <1>10, <1>11, <1>12, <1>13,
     <1>14, <1>15, <1>16, <1>17, <1>18, <1>19
  DEF Next, Bot, Reconciliation, Execution

\* However often an intent is executed, its trade is in the log once, unless a
\* lookup failed or a response was lost.
THEOREM LoggedOnceHolds == Spec => []LoggedOnce
<1>1. Init => LogInv
  BY LogInit
<1>2. IInv /\ LogInv /\ [Next]_vars => LogInv'
  BY LogStep
<1>3. LogInv => LoggedOnce
  BY DEF LogInv
<1>4. QED
  BY <1>1, <1>2, <1>3, Invariance, PTL DEF Spec

-----------------------------------------------------------------------------
(* Final rows stay *)

\* A reconciliation holds open rows only; the row of an intent executed once is
\* pending until its answer is recorded, and has no quantity before MarkFill.
FinalInv ==
  /\ \A c \in todo : status[c] \in OpenStatus
  /\ pc \notin {"boot", "sync"} => todo = {}
  /\ \A c \in Cid : status[c] = "ABSENT" => filledQty[c] = 0
  /\ cur # None /\ runs[cur] <= 1 =>
       /\ pc \in {"recheck", "send", "backoff", "giveup", "mark"}
            => status[cur] = "PENDING_SUBMIT"
       /\ pc \in {"recheck", "send", "backoff", "giveup", "mark", "fill"}
            => filledQty[cur] = 0
       /\ pc \in {"fill", "log"} => status[cur] # "CANCELED"

LEMMA FinalInit == Init => FinalInv
  BY DEF Init, FinalInv

LEMMA FinalStep == IInv /\ OrphanInv /\ FinalInv /\ [Next]_vars => FinalInv'
<1> SUFFICES ASSUME IInv, OrphanInv, FinalInv, [Next]_vars PROVE FinalInv'
  OBVIOUS
<1> USE LifecycleAssumption
        DEF IInv, TypeOK, InHand, OrphanInv, Unrecorded, FinalInv, ExecutingPc, OpenStatus,
           switchVars, brokerVars, rowVars, dbVars, orderVars, processVars, historyVars
<1>1. CASE Engage \/ Release \/ Restart
  BY <1>1 DEF Engage, Release, Restart
<1>2. ASSUME NEW c \in Cid, BrokerFill(c) \/ BrokerEnd(c) PROVE FinalInv'
  BY <1>2 DEF BrokerFill, BrokerEnd, Live
<1>3. CASE Crash
  BY <1>3 DEF Crash, ForgetProcess
<1>4. CASE SyncStart \/ SyncFail \/ SyncDone
  BY <1>4 DEF SyncStart, SyncFail, SyncDone, AfterSync, OpenRows
<1>5. ASSUME NEW c \in Cid, SyncOne(c) PROVE FinalInv'
  BY <1>5 DEF SyncOne, Reconciled, LookupFailed
<1>6. CASE Tick \/ EndCycle
  BY <1>6 DEF Tick, EndCycle
<1>7. CASE Approve
  BY <1>7 DEF Approve
<1>8. CASE PlanRaises \/ ValidateRaises
  <2>1. CASE firstTick
    BY <1>8, <2>1 DEF PlanRaises, ValidateRaises, AbortCycle, ForgetProcess
  <2>2. CASE ~firstTick
    BY <1>8, <2>2 DEF PlanRaises, ValidateRaises, AbortCycle
  <2>3. QED
    BY <2>1, <2>2
<1>9. ASSUME NEW c \in Cid, Take(c) PROVE FinalInv'
  BY <1>9 DEF Take
<1>10. CASE Validate \/ Lookup
  BY <1>10 DEF Validate, Lookup, Done
<1>11. CASE RecordPending
  BY <1>11 DEF RecordPending
<1>12. CASE Recheck
  BY <1>12 DEF Recheck, Done
<1>13. CASE Send
  BY <1>13 DEF Send, RequestLost, Created, Duplicate, AttemptFails, Answered, StatusFor
<1>14. CASE Backoff
  BY <1>14 DEF Backoff
<1>15. CASE GiveUp
  BY <1>15 DEF GiveUp, Done
<1>16. CASE MarkSubmitted
  BY <1>16, LifecycleStatusFact DEF MarkSubmitted, Done, AnswerIsReal, Response
<1>17. CASE MarkFill
  BY <1>17, LifecycleStatusFact DEF MarkFill, AnswerIsReal, Response
<1>18. CASE LogFill
  BY <1>18 DEF LogFill, Done
<1>19. CASE UNCHANGED vars
  BY <1>19 DEF vars
<1>20. QED
  BY <1>1, <1>2, <1>3, <1>4, <1>5, <1>6, <1>7, <1>8, <1>9, <1>10, <1>11, <1>12, <1>13,
     <1>14, <1>15, <1>16, <1>17, <1>18, <1>19
  DEF Next, Bot, Reconciliation, Execution

\* A row that is CANCELED, or FILLED with its quantity, is never rewritten while
\* its intent is executed once, whatever crashes, retries and faults occur.
THEOREM FinalRowsStayHolds == Spec => FinalRowsStay
<1> DEFINE A == \A c \in Cid :
       /\ runs[c] <= 1
       /\ \/ status[c] = "CANCELED"
          \/ status[c] = "FILLED" /\ filledQty[c] = Qty
       => status'[c] = status[c] /\ filledQty'[c] = filledQty[c]
<1>1. IInv /\ FinalInv /\ [Next]_vars => [A]_vars
  <2> SUFFICES ASSUME IInv, FinalInv, [Next]_vars, NEW c \in Cid, runs[c] <= 1,
                      \/ status[c] = "CANCELED"
                      \/ status[c] = "FILLED" /\ filledQty[c] = Qty
               PROVE  status'[c] = status[c] /\ filledQty'[c] = filledQty[c]
    OBVIOUS
  <2>1. CASE UNCHANGED rowVars
    BY <2>1 DEF rowVars
  <2>2. ASSUME NEW d \in Cid, SyncOne(d) PROVE status'[c] = status[c] /\ filledQty'[c] = filledQty[c]
    <3>1. c # d
      BY <2>2 DEF SyncOne, FinalInv, OpenStatus
    <3>2. QED
      BY <2>2, <3>1 DEF SyncOne, IInv, TypeOK
  <2>3. CASE RecordPending
    BY <2>3 DEF RecordPending, IInv, TypeOK
  <2>4. CASE Recheck \/ GiveUp \/ MarkSubmitted
    <3>1. cur # c
      BY <2>4 DEF Recheck, GiveUp, MarkSubmitted, FinalInv, IInv, InHand, ExecutingPc
    <3>2. QED
      BY <2>4, <3>1 DEF Recheck, GiveUp, MarkSubmitted, IInv, TypeOK
  <2>5. CASE MarkFill
    <3>1. cur # c
      BY <2>5, LifecycleAssumption DEF MarkFill, FinalInv, IInv, InHand, ExecutingPc
    <3>2. QED
      BY <2>5, <3>1 DEF MarkFill, IInv, TypeOK
  <2>6. QED
    BY <2>1, <2>2, <2>3, <2>4, <2>5
    DEF Next, Bot, Reconciliation, Execution, vars, rowVars, dbVars, Engage, Release,
        BrokerFill, BrokerEnd, Crash, Restart, SyncStart, SyncFail, SyncDone, Tick, Approve,
        PlanRaises, ValidateRaises, AbortCycle, EndCycle, Take, Validate, Lookup, Send,
        Backoff, LogFill
<1>2. Init => FinalInv /\ OrphanInv
  BY FinalInit, OrphanInit
<1>3. IInv /\ OrphanInv /\ FinalInv /\ [Next]_vars => OrphanInv' /\ FinalInv'
  BY FinalStep, OrphanStep
<1>4. QED
  BY <1>1, <1>2, <1>3, Invariance, PTL DEF Spec, FinalRowsStay

-----------------------------------------------------------------------------
(* The ledger explains the position snapshot *)

\* An intent of a process that never crashed.
Calm(c) == Plain(c) /\ crashes = 0

\* The row of such an intent is closed only with all the broker executed, and
\* nothing is executed any more.
ClosedAgrees ==
  /\ \A c \in Cid : bstatus[c] = "new" => bfilled[c] = 0
  /\ pc \in {"mark", "fill", "log"} /\ resp.status = "dead" => resp.filled = bfilled[cur]
  /\ pc = "fill" => resp.filled > 0
  /\ pc \in {"fill", "log"} => status[cur] # "REJECTED"
  /\ \A c \in Cid : status[c] = "CANCELED" => bstatus[c] = "dead" \/ runs[c] > 1
  /\ \A c \in Cid :
       Calm(c) /\ ~(c = cur /\ pc \in {"fill", "log"}) /\ status[c] \notin OpenStatus
         => filledQty[c] = bfilled[c]

\* What was read of the positions is at the broker, and in the ledger as soon as
\* the reconciliation has passed the row.
SnapshotRead ==
  \A c \in Cid : Calm(c) =>
    positions[c] <= (IF pc \in {"boot", "sync"} /\ c \in todo THEN bfilled[c]
                     ELSE filledQty[c])

SnapInv == ClosedAgrees /\ SnapshotRead

LEMMA SnapInit == Init => SnapInv
  BY LifecycleAssumption DEF Init, SnapInv, ClosedAgrees, SnapshotRead, OpenStatus

LEMMA ReconciledFact ==
  ASSUME IInv, NEW c \in Cid, status[c] \in OpenStatus,
         bstatus[c] = "new" => bfilled[c] = 0
  PROVE  /\ Reconciled(c).filled \in 0..Qty /\ filledQty[c] <= Reconciled(c).filled
         /\ Reconciled(c).status = "CANCELED" => bstatus[c] = "dead"
         /\ Reconciled(c).filled = bfilled[c]
<1> USE DEF IInv, TypeOK, LedgerNeverAhead, BrokerAgrees, OpenStatus
<1>1. CASE bstatus[c] = "none"
  BY <1>1, LifecycleAssumption DEF Reconciled
<1>2. CASE bstatus[c] \in {"filled", "partial", "dead"}
  BY <1>2, LifecycleAssumption DEF Reconciled
<1>3. CASE bstatus[c] = "new"
  BY <1>3, LifecycleAssumption DEF Reconciled
<1>4. QED
  BY <1>1, <1>2, <1>3 DEF BrokerStatus

LEMMA AnswerFact ==
  ASSUME resp \in Response, NEW s, s = LifecycleStatus(resp.status, resp.filled)
  PROVE  /\ s \in LocalStatus \ {"ABSENT", "PENDING_SUBMIT", "CANCELED"}
         /\ s = "FILLED" => resp.status = "filled" \/ resp.filled = Qty
         /\ s = "REJECTED" => resp.status = "dead" /\ resp.filled = 0
<1>1. resp.status \in BrokerStatus /\ resp.filled \in 0..Qty
  BY DEF Response
<1>2. QED
  BY <1>1, LifecycleStatusFact

LEMMA SnapStep ==
  IInv /\ OrphanInv /\ FinalInv /\ FillInv /\ SnapInv /\ [Next]_vars => SnapInv'
<1> SUFFICES ASSUME IInv, OrphanInv, FinalInv, FillInv, SnapInv, [Next]_vars PROVE SnapInv'
  OBVIOUS
<1> USE LifecycleAssumption
        DEF IInv, TypeOK, InHand, OrphanInv, Plain, NoOrphan, SnapInv, Calm, ClosedAgrees,
           SnapshotRead, Misled, ExecutingPc, OpenStatus, BrokerAgrees, LedgerNeverAhead,
           switchVars, brokerVars, rowVars, dbVars, orderVars, processVars, historyVars
<1>1. CASE Engage \/ Release \/ Restart
  BY <1>1 DEF Engage, Release, Restart
<1>2. ASSUME NEW c \in Cid, BrokerFill(c) \/ BrokerEnd(c) PROVE SnapInv'
  <2>1. /\ bstatus[c] \in {"new", "partial"} /\ status[c] # "ABSENT"
        /\ UNCHANGED <<dbVars, processVars, historyVars>>
    BY <1>2 DEF BrokerFill, BrokerEnd, Live, WriteBeforeNetwork
  <2>2. Calm(c) => status[c] \in OpenStatus \/ BrokerEnd(c)
    BY <1>2, <2>1 DEF LocalStatus
  <2>3. ~(pc \in {"mark", "fill", "log"} /\ resp.status = "dead" /\ cur = c)
    BY <2>1 DEF AnswerIsReal
  <2>4. CASE BrokerFill(c)
    <3>1. PICK q \in (bfilled[c] + 1)..Qty :
            /\ bfilled' = [bfilled EXCEPT ![c] = q]
            /\ bstatus' = [bstatus EXCEPT ![c] = IF q = Qty THEN "filled" ELSE "partial"]
      BY <2>4 DEF BrokerFill
    <3>2. Calm(c) => status[c] \in OpenStatus
      BY <2>1 DEF LocalStatus
    <3>3. ClosedAgrees'
      BY <2>1, <2>3, <3>1, <3>2
    <3>4. SnapshotRead'
      BY <2>1, <3>1
    <3>5. QED
      BY <3>3, <3>4
  <2>5. CASE BrokerEnd(c)
    BY <2>1, <2>5 DEF BrokerEnd
  <2>6. QED
    BY <1>2, <2>4, <2>5
<1>3. CASE Crash
  BY <1>3 DEF Crash, ForgetProcess
<1>4. CASE SyncStart \/ SyncFail \/ SyncDone
  BY <1>4 DEF SyncStart, SyncFail, SyncDone, AfterSync, OpenRows, FinalInv
<1>5. ASSUME NEW c \in Cid, SyncOne(c) PROVE SnapInv'
  <2>1. cur = None /\ pc \in {"boot", "sync"} /\ c \in todo
    BY <1>5 DEF SyncOne
  <2>2. PICK row \in {Reconciled(c), LookupFailed(c)} :
          /\ row = LookupFailed(c) => row = Reconciled(c) \/ Misled(c)
          /\ status' = [status EXCEPT ![c] = row.status]
          /\ filledQty' = [filledQty EXCEPT ![c] = row.filled]
    BY <1>5 DEF SyncOne
  <2>3. /\ todo' = todo \ {c} /\ misled \subseteq misled'
        /\ UNCHANGED <<brokerVars, positions, pc, orderVars, runs, crashes>>
    BY <1>5 DEF SyncOne
  <2>4. status[c] \in OpenStatus
    BY <2>1 DEF FinalInv
  <2>5. CASE row = Reconciled(c)
    <3>1. /\ row.filled \in 0..Qty /\ filledQty[c] <= row.filled
          /\ row.status = "CANCELED" => bstatus[c] = "dead"
          /\ row.filled = bfilled[c]
      BY <2>4, <2>5, ReconciledFact
    <3>2. ClosedAgrees'
      BY <2>1, <2>2, <2>3, <3>1
    <3>3. SnapshotRead'
      BY <2>1, <2>2, <2>3, <3>1
    <3>4. QED
      BY <3>2, <3>3
  <2>6. CASE row = LookupFailed(c)
    <3>1. row.status = "REJECTED" /\ row.filled = filledQty[c]
      BY <2>6 DEF LookupFailed
    <3>2. ClosedAgrees'
      BY <2>1, <2>2, <2>3, <2>5, <2>6, <3>1
    <3>3. SnapshotRead'
      BY <2>1, <2>2, <2>3, <2>5, <2>6, <3>1
    <3>4. QED
      BY <3>2, <3>3
  <2> QED
    BY <2>2, <2>5, <2>6
<1>6. CASE Tick \/ EndCycle
  BY <1>6 DEF Tick, EndCycle, FinalInv
<1>7. CASE Approve
  BY <1>7 DEF Approve, FinalInv
<1>8. CASE PlanRaises \/ ValidateRaises
  <2>1. CASE firstTick
    BY <1>8, <2>1 DEF PlanRaises, ValidateRaises, AbortCycle, ForgetProcess
  <2>2. CASE ~firstTick
    BY <1>8, <2>2 DEF PlanRaises, ValidateRaises, AbortCycle
  <2>3. QED
    BY <2>1, <2>2
<1>9. ASSUME NEW c \in Cid, Take(c) PROVE SnapInv'
  BY <1>9 DEF Take
<1>10. CASE Validate \/ Lookup
  BY <1>10 DEF Validate, Lookup, Done
<1>11. CASE RecordPending
  BY <1>11 DEF RecordPending, WriteBeforeNetwork
<1>12. CASE Recheck
  <2>1. CASE engaged
    <3>1. /\ cur \in Cid /\ UNCHANGED <<brokerVars, filledQty, positions, todo, historyVars>>
          /\ pc' = "next" /\ cur' = None /\ pc \notin {"boot", "sync"}
          /\ status' = [status EXCEPT ![cur] = "REJECTED"]
      BY <1>12, <2>1 DEF Recheck, Done
    <3>2. Plain(cur) => filledQty[cur] = bfilled[cur]
      BY <1>12, <2>1 DEF BeingSent, Recheck
    <3>3. ClosedAgrees'
      BY <3>1, <3>2
    <3>4. SnapshotRead'
      BY <3>1
    <3>5. QED
      BY <3>3, <3>4
  <2>2. CASE ~engaged
    BY <1>12, <2>2 DEF Recheck
  <2>3. QED
    BY <2>1, <2>2
<1>13. CASE Send
  <2>1. /\ cur \in Cid /\ pc \notin {"boot", "sync"} /\ cur' = cur
        /\ UNCHANGED <<rowVars, positions, todo, runs, crashes>>
        /\ pc = "send" /\ pc' \in {"backoff", "giveup", "mark"}
    BY <1>13 DEF Send, RequestLost, Created, Duplicate, AttemptFails, Answered
  <2>2. CASE Created
    <3>1. PICK q \in 0..Qty : \E s \in StatusFor(q) :
            /\ bstatus' = [bstatus EXCEPT ![cur] = s]
            /\ bfilled' = [bfilled EXCEPT ![cur] = q]
            /\ \/ Answered(s, q) /\ UNCHANGED misled
               \/ AttemptFails /\ misled' = misled \union {cur}
      BY <2>2 DEF Created
    <3>2. PICK s \in StatusFor(q) :
            /\ bstatus' = [bstatus EXCEPT ![cur] = s]
            /\ \/ Answered(s, q) /\ UNCHANGED misled
               \/ AttemptFails /\ misled' = misled \union {cur}
      BY <3>1
    <3>3. /\ s = "new" => q = 0
          /\ s = "filled" => q = Qty
      BY <3>2 DEF StatusFor
    <3>4. /\ misled \subseteq misled'
          /\ pc' = "mark" => resp'.status = s /\ resp'.filled = q
      BY <3>2 DEF Answered, AttemptFails
    <3>5. bstatus[cur] = "none" \/ runs[cur] > 1
      BY <2>2, <1>13 DEF Created, Send
    <3>6. Calm(cur)' => status[cur] \in OpenStatus
      BY <2>1, <3>4, <1>13 DEF BeingSent, Send
    <3>7. ClosedAgrees'
      BY <2>1, <3>1, <3>2, <3>3, <3>4, <3>5, <3>6
    <3>8. SnapshotRead'
      BY <2>1, <3>1, <3>4
    <3>9. QED
      BY <3>7, <3>8
  <2>3. CASE RequestLost \/ Duplicate
    <3>1. UNCHANGED <<brokerVars, misled>> /\ (pc' = "mark" => resp'.status = bstatus[cur]
            /\ resp'.filled = bfilled[cur])
      BY <2>3 DEF RequestLost, Duplicate, Answered, AttemptFails
    <3>2. ClosedAgrees'
      BY <2>1, <3>1
    <3>3. SnapshotRead'
      BY <2>1, <3>1
    <3>4. QED
      BY <3>2, <3>3
  <2>4. QED
    BY <1>13, <2>2, <2>3 DEF Send
<1>14. CASE Backoff
  BY <1>14 DEF Backoff
<1>15. CASE GiveUp
  <2>1. /\ cur \in Cid /\ UNCHANGED <<brokerVars, filledQty, positions, todo, historyVars>>
        /\ pc' = "next" /\ cur' = None /\ pc \notin {"boot", "sync"}
        /\ status' = [status EXCEPT ![cur] = "REJECTED"]
    BY <1>15 DEF GiveUp, Done
  <2>2. Plain(cur) => filledQty[cur] = bfilled[cur]
    BY <1>15 DEF BeingSent, GiveUp
  <2>3. ClosedAgrees'
    BY <2>1, <2>2
  <2>4. SnapshotRead'
    BY <2>1
  <2>5. QED
    BY <2>3, <2>4
<1>16. CASE MarkSubmitted
  <2>1. /\ cur \in Cid /\ UNCHANGED <<brokerVars, filledQty, positions, todo, historyVars>>
        /\ pc \notin {"boot", "sync"} /\ resp \in Response
    BY <1>16 DEF MarkSubmitted, AnswerIsReal
  <2>2. PICK s : /\ s = LifecycleStatus(resp.status, resp.filled)
                 /\ status' = [status EXCEPT ![cur] = s]
    BY <1>16 DEF MarkSubmitted
  <2> HIDE DEF Response
  <2>a. /\ s \in LocalStatus \ {"ABSENT", "PENDING_SUBMIT", "CANCELED"}
        /\ s = "FILLED" => resp.status = "filled" \/ resp.filled = Qty
        /\ s = "REJECTED" => resp.status = "dead" /\ resp.filled = 0
    BY <2>1, <2>2, AnswerFact
  <2>3. CASE resp.filled > 0
    <3>1. pc' = "fill" /\ UNCHANGED orderVars
      BY <1>16, <2>3 DEF MarkSubmitted
    <3>2. ClosedAgrees'
      BY <1>16, <2>1, <2>2, <2>a, <2>3, <3>1 DEF MarkSubmitted
    <3>3. SnapshotRead'
      BY <2>1, <3>1
    <3>4. QED
      BY <3>2, <3>3
  <2>4. CASE ~(resp.filled > 0)
    <3>1. pc' = "next" /\ cur' = None
      BY <1>16, <2>4 DEF MarkSubmitted, Done
    <3>2. Calm(cur) /\ s \notin OpenStatus => filledQty[cur] = bfilled[cur]
      BY <1>16, <2>1, <2>a, <2>4 DEF MarkSubmitted, LocalStatus, Response, AnswerIsReal, FillInv, FillInHand
    <3>3. ClosedAgrees'
      BY <2>1, <2>2, <2>a, <3>1, <3>2
    <3>4. SnapshotRead'
      BY <2>1, <3>1
    <3>5. QED
      BY <3>3, <3>4
  <2>5. QED
    BY <2>3, <2>4
<1>17. CASE MarkFill
  <2>1. /\ cur \in Cid /\ UNCHANGED <<brokerVars, positions, todo, orderVars, historyVars>>
        /\ pc \notin {"boot", "sync"} /\ pc' = "log" /\ resp \in Response
        /\ filledQty' = [filledQty EXCEPT ![cur] = resp.filled]
        /\ filledQty[cur] <= resp.filled
    BY <1>17 DEF MarkFill, AnswerIsReal
  <2>2. PICK s : /\ s = LifecycleStatus(resp.status, resp.filled)
                 /\ status' = [status EXCEPT ![cur] = s]
    BY <1>17 DEF MarkFill
  <2> HIDE DEF Response
  <2>a. /\ s \in LocalStatus \ {"ABSENT", "PENDING_SUBMIT", "CANCELED"}
        /\ s = "REJECTED" => resp.filled = 0
    BY <2>1, <2>2, AnswerFact
  <2>3. ClosedAgrees'
    BY <1>17, <2>1, <2>2, <2>a DEF MarkFill, FillInv, FillInHand, Response
  <2>4. SnapshotRead'
    BY <2>1 DEF Response
  <2>5. QED
    BY <2>3, <2>4
<1>18. CASE LogFill
  <2>1. /\ cur \in Cid /\ UNCHANGED <<brokerVars, rowVars, positions, todo, historyVars>>
        /\ pc = "log" /\ pc' = "next" /\ cur' = None
    BY <1>18 DEF LogFill, Done
  <2>2. Calm(cur) /\ status[cur] \notin OpenStatus => filledQty[cur] = bfilled[cur]
    <3>1. Calm(cur) => status[cur] \notin {"ABSENT", "REJECTED", "CANCELED"}
      BY <2>1 DEF FinalInv, RowsExist
    <3>2. status[cur] = "FILLED" => filledQty[cur] = bfilled[cur]
      BY <2>1 DEF FillInv, FillInHand
    <3>3. QED
      BY <2>1, <3>1, <3>2 DEF LocalStatus
  <2>3. ClosedAgrees'
    BY <2>1, <2>2
  <2>4. SnapshotRead'
    BY <2>1
  <2>5. QED
    BY <2>3, <2>4
<1>19. CASE UNCHANGED vars
  BY <1>19 DEF vars
<1>20. QED
  BY <1>1, <1>2, <1>3, <1>4, <1>5, <1>6, <1>7, <1>8, <1>9, <1>10, <1>11, <1>12, <1>13,
     <1>14, <1>15, <1>16, <1>17, <1>18, <1>19
  DEF Next, Bot, Reconciliation, Execution

\* Once a reconciliation is over, the fills of the ledger explain every lot of
\* the position snapshot, for any number of orders and reconciliations.
THEOREM SnapshotExplainedHolds == Spec => []SnapshotExplained
<1>1. Init => OrphanInv /\ FinalInv /\ FillInv /\ SnapInv
  BY OrphanInit, FinalInit, FillInit, SnapInit
<1>2. IInv /\ OrphanInv /\ FinalInv /\ FillInv /\ SnapInv /\ [Next]_vars
        => OrphanInv' /\ FinalInv' /\ FillInv' /\ SnapInv'
  BY OrphanStep, FinalStep, FillStep, SnapStep
<1>3. IInv /\ SnapInv => SnapshotExplained
  BY DEF SnapInv, SnapshotRead, SnapshotExplained, Calm, Plain, IInv, TypeOK
<1>4. QED
  BY <1>1, <1>2, <1>3, Invariance, PTL DEF Spec

=============================================================================
