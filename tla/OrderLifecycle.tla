--------------------------- MODULE OrderLifecycle ---------------------------
(***************************************************************************)
(* The life of an order: one bot process (Monitor, pipeline, Executor,     *)
(* reconciliation), the SQLite tables it writes, the broker, the kill      *)
(* switch, and crashes and restarts between any two steps.                 *)
(*                                                                         *)
(* Sources: agents/executor.py, data/order_repo.py, data/trade_logger.py,  *)
(* data/position_repo.py, core/kill_switch.py, orchestration/reconcile.py, *)
(* agents/reconcile_agent.py, orchestration/bus_orchestrator.py,           *)
(* agents/monitor.py, main.py, broker/fake_broker.py,                      *)
(* broker/alpaca_broker.py.                                                *)
(*                                                                         *)
(* A client order id stands for the intent it was made for                 *)
(* (core/models.py gives every intent its own id).  Every broker call and  *)
(* every transaction on orders and trade_log is a step of its own; the     *)
(* position snapshot, which only the dashboard reads, is replaced in one.  *)
(* The audit trail is left out.                                            *)
(***************************************************************************)
EXTENDS Naturals, FiniteSets

CONSTANTS
  Cid,             \* client order ids, one per intent
  None,            \* no order in hand
  ReadsAccount,    \* the buys and option orders: validated against the account
  Qty,             \* lots of every order
  MaxRetries,      \* Executor max_retries
  MaxOrders,       \* Executor max_orders_per_cycle
  ReconcileEvery,  \* ReconcileAgent every_n_cycles
  Broker,          \* "fake" or "alpaca": how the broker answers
  Faults,          \* what may go wrong around a call
  MaxRuns,         \* bound: how often one intent is handed to the executor
  MaxCrashes       \* bound: crashes of the process

FaultKind == {"lost_request", "lost_response", "lookup", "positions", "account"}

ASSUME LifecycleAssumption ==
  /\ None \notin Cid
  /\ ReadsAccount \subseteq Cid
  /\ Qty \in Nat \ {0}
  /\ MaxRetries \in Nat \ {0}
  /\ MaxOrders \in Nat
  /\ ReconcileEvery \in Nat \ {0}
  /\ Broker \in {"fake", "alpaca"}
  /\ Faults \subseteq FaultKind
  /\ MaxRuns \in Nat \ {0}
  /\ MaxCrashes \in Nat

VARIABLES
  \* kill switch
  engaged,      \* env var set or sentinel file present
  pass,         \* history: the order past its last check when it was engaged
  \* broker
  bstatus,      \* status of the order at the broker
  bfilled,      \* lots executed
  \* SQLite
  status,       \* orders.status
  filledQty,    \* orders.filled_qty
  logged,       \* lots trade_log says were traded, over all its rows
  positions,    \* local snapshot: lots each order contributes to it
  \* bot process
  pc,           \* where the process is
  batch,        \* intents of this cycle still to execute
  cur,          \* the intent being executed
  attempt,      \* submission attempt
  resp,         \* the broker's answer, not yet persisted
  todo,         \* open rows this reconciliation has still to look up
  cycles,       \* ReconcileAgent._count, modulo ReconcileEvery
  firstTick,    \* the cycle Monitor.start runs outside the scheduler
  \* history, also the bounds
  misled,       \* orders that a lost response or a failed lookup hid from the bot
  torn,         \* orders whose fill a crash cut between its transactions
  learnt,       \* orders whose fill a reconciliation wrote
  runs,         \* times each intent was handed to the executor
  crashes

switchVars  == <<engaged, pass>>
brokerVars  == <<bstatus, bfilled>>
rowVars     == <<status, filledQty>>
dbVars      == <<status, filledQty, logged, positions>>
orderVars   == <<cur, attempt, resp>>
processVars == <<pc, batch, cur, attempt, resp, todo, cycles, firstTick>>
historyVars == <<misled, torn, learnt, runs, crashes>>
vars == <<switchVars, brokerVars, dbVars, processVars, historyVars>>

-----------------------------------------------------------------------------
(* Values *)

BrokerStatus == {"none", "new", "partial", "filled", "dead"}
LocalStatus  == {"ABSENT", "PENDING_SUBMIT", "SUBMITTED", "PARTIALLY_FILLED",
                 "FILLED", "REJECTED", "CANCELED"}

\* The rows pending_or_submitted() returns.
OpenStatus == {"PENDING_SUBMIT", "SUBMITTED", "PARTIALLY_FILLED"}

\* Mutants: rows selected without their status, rows still unsent only.
AllRows     == {c \in Cid : status[c] # "ABSENT"}
PendingRows == {c \in Cid : status[c] = "PENDING_SUBMIT"}

OpenRows == {c \in Cid : status[c] \in OpenStatus}

Response == [status : BrokerStatus \ {"none"}, filled : 0..Qty]
NoResp   == [status |-> "none", filled |-> 0]

\* Broker orders that can still execute.
Live == {"new", "partial"}

ExecutingPc == {"validate", "lookup", "record", "recheck", "send", "backoff",
                "giveup", "mark", "fill", "log"}
SyncPc      == {"bootstart", "boot", "syncstart", "sync"}
Pc          == ExecutingPc \union SyncPc \union {"down", "idle", "plan", "next"}

\* Executor._lifecycle_status.  The status AlpacaBroker.submit_order returns
\* is str() of an enum member, which no set of the executor contains: only the
\* quantity decides then.
Readable(s, set) == Broker = "fake" /\ s \in set
LifecycleStatus(s, q) ==
  IF Readable(s, {"filled"}) \/ q >= Qty THEN "FILLED"
  ELSE IF Readable(s, {"partial"}) \/ q > 0 THEN "PARTIALLY_FILLED"
  ELSE IF Readable(s, {"dead"}) THEN "REJECTED"
  ELSE "SUBMITTED"

\* A broker status that q executed lots allow.
StatusFor(q) ==
  CASE q = Qty -> {"filled"}
    [] q = 0   -> {"new", "dead"}
    [] OTHER   -> {"partial", "dead"}

-----------------------------------------------------------------------------
Init ==
  /\ engaged \in BOOLEAN /\ pass = {}
  /\ bstatus = [c \in Cid |-> "none"] /\ bfilled = [c \in Cid |-> 0]
  /\ status = [c \in Cid |-> "ABSENT"] /\ filledQty = [c \in Cid |-> 0]
  /\ logged = [c \in Cid |-> 0] /\ positions = [c \in Cid |-> 0]
  /\ pc = "down" /\ batch = {} /\ cur = None /\ attempt = 0 /\ resp = NoResp
  /\ todo = {} /\ cycles = 0 /\ firstTick = TRUE
  /\ misled = {} /\ torn = {} /\ learnt = {}
  /\ runs = [c \in Cid |-> 0] /\ crashes = 0

-----------------------------------------------------------------------------
(* Kill switch: the operator sets or removes the sentinel at any moment. *)

Engage ==
  /\ ~engaged
  /\ engaged' = TRUE
  /\ pass' = IF pc \in {"send", "backoff"} THEN {cur} ELSE {}
  /\ UNCHANGED <<brokerVars, dbVars, processVars, historyVars>>

Release ==
  /\ engaged
  /\ engaged' = FALSE /\ pass' = {}
  /\ UNCHANGED <<brokerVars, dbVars, processVars, historyVars>>

(* Broker: a live order executes, or is canceled, expires or is rejected. *)

BrokerFill(c) ==
  /\ bstatus[c] \in Live
  /\ \E q \in (bfilled[c] + 1)..Qty :
       /\ bfilled' = [bfilled EXCEPT ![c] = q]
       /\ bstatus' = [bstatus EXCEPT ![c] = IF q = Qty THEN "filled" ELSE "partial"]
  /\ UNCHANGED <<switchVars, dbVars, processVars, historyVars>>

BrokerEnd(c) ==
  /\ bstatus[c] \in Live
  /\ bstatus' = [bstatus EXCEPT ![c] = "dead"]
  /\ UNCHANGED <<switchVars, bfilled, dbVars, processVars, historyVars>>

-----------------------------------------------------------------------------
(* Process: crash, restart, exceptions that escape. *)

ForgetProcess ==
  /\ batch' = {} /\ cur' = None /\ attempt' = 0 /\ resp' = NoResp
  /\ todo' = {} /\ cycles' = 0 /\ firstTick' = TRUE

Crash ==
  /\ pc # "down" /\ crashes < MaxCrashes
  /\ pc' = "down" /\ crashes' = crashes + 1
  /\ torn' = IF pc \in {"fill", "log"} THEN torn \union {cur} ELSE torn
  /\ ForgetProcess
  /\ UNCHANGED <<switchVars, brokerVars, dbVars, misled, learnt, runs>>

\* build_app reconciles before anything else.
Restart ==
  /\ pc = "down"
  /\ pc' = "bootstart"
  /\ UNCHANGED <<switchVars, brokerVars, dbVars, batch, orderVars, todo, cycles,
                 firstTick, historyVars>>

\* An exception that no agent catches ends the cycle.  The scheduler survives
\* it; the first tick runs outside the scheduler and takes the process down.
AbortCycle ==
  /\ IF firstTick
     THEN pc' = "down" /\ ForgetProcess
     ELSE /\ pc' = "idle" /\ batch' = {}
          /\ cur' = None /\ attempt' = 0 /\ resp' = NoResp
          /\ UNCHANGED <<todo, cycles, firstTick>>
  /\ UNCHANGED <<switchVars, brokerVars, dbVars, historyVars>>

-----------------------------------------------------------------------------
(* Reconciliation, at boot and every ReconcileEvery cycles. *)

AfterSync == IF pc \in {"bootstart", "boot"} THEN "idle" ELSE "plan"

\* get_positions, replace_all_from_broker, pending_or_submitted.
SyncStart ==
  /\ pc \in {"bootstart", "syncstart"}
  /\ positions' = bfilled
  /\ todo' = OpenRows
  /\ pc' = IF pc = "bootstart" THEN "boot" ELSE "sync"
  /\ UNCHANGED <<switchVars, brokerVars, rowVars, logged, batch, orderVars,
                 cycles, firstTick, historyVars>>

\* get_positions raised; build_app and ReconcileAgent swallow it.
SyncFail ==
  /\ pc \in {"bootstart", "syncstart"}
  /\ "positions" \in Faults
  /\ pc' = AfterSync
  /\ UNCHANGED <<switchVars, brokerVars, dbVars, batch, orderVars, todo,
                 cycles, firstTick, historyVars>>

\* Mutants: a resting order taken for an unknown one; unknown orders left open;
\* the status of a fill without its quantity.
ReconciledStatusOnly(c) ==
  CASE bstatus[c] = "none"    -> [status |-> "REJECTED", filled |-> filledQty[c]]
    [] bstatus[c] = "filled"  -> [status |-> "FILLED", filled |-> filledQty[c]]
    [] bstatus[c] = "partial" -> [status |-> "PARTIALLY_FILLED", filled |-> bfilled[c]]
    [] bstatus[c] = "dead"    -> [status |-> "CANCELED", filled |-> bfilled[c]]
    [] OTHER                  -> [status |-> status[c], filled |-> filledQty[c]]
ReconciledNewRejected(c) ==
  CASE bstatus[c] \in {"none", "new"} -> [status |-> "REJECTED", filled |-> filledQty[c]]
    [] bstatus[c] = "filled"  -> [status |-> "FILLED", filled |-> bfilled[c]]
    [] bstatus[c] = "partial" -> [status |-> "PARTIALLY_FILLED", filled |-> bfilled[c]]
    [] OTHER                  -> [status |-> "CANCELED", filled |-> bfilled[c]]
\* The row after a lookup that answered what the broker knows.
Reconciled(c) ==
  CASE bstatus[c] = "none"    -> [status |-> "REJECTED", filled |-> filledQty[c]]
    [] bstatus[c] = "filled"  -> [status |-> "FILLED", filled |-> bfilled[c]]
    [] bstatus[c] = "partial" -> [status |-> "PARTIALLY_FILLED", filled |-> bfilled[c]]
    [] bstatus[c] = "dead"    -> [status |-> "CANCELED", filled |-> bfilled[c]]
    [] OTHER                  -> [status |-> status[c], filled |-> filledQty[c]]

\* A lookup that raised is taken for an order the broker does not know.
LookupFailed(c) == [status |-> "REJECTED", filled |-> filledQty[c]]

\* The bot takes an order the broker holds for one it does not know.
Misled(c) == misled' = IF bstatus[c] = "none" THEN misled ELSE misled \union {c}

SyncOne(c) ==
  /\ pc \in {"boot", "sync"} /\ c \in todo
  /\ \E row \in {Reconciled(c), LookupFailed(c)} :
       /\ \/ row = Reconciled(c) /\ UNCHANGED misled
          \/ row = LookupFailed(c) /\ "lookup" \in Faults /\ Misled(c)
       /\ status' = [status EXCEPT ![c] = row.status]
       /\ filledQty' = [filledQty EXCEPT ![c] = row.filled]
       /\ learnt' = IF row.status = "FILLED" THEN learnt \union {c} ELSE learnt
  /\ todo' = todo \ {c}
  /\ UNCHANGED <<switchVars, brokerVars, logged, positions, pc, batch, orderVars,
                 cycles, firstTick, torn, runs, crashes>>

\* Mutant: positions read after the orders.
SyncDoneReadsPositions ==
  /\ pc \in {"boot", "sync"} /\ todo = {}
  /\ pc' = AfterSync /\ positions' = bfilled
  /\ UNCHANGED <<switchVars, brokerVars, rowVars, logged, batch, orderVars, todo,
                 cycles, firstTick, historyVars>>

SyncDone ==
  /\ pc \in {"boot", "sync"} /\ todo = {}
  /\ pc' = AfterSync
  /\ UNCHANGED <<switchVars, brokerVars, dbVars, batch, orderVars, todo, cycles,
                 firstTick, historyVars>>

-----------------------------------------------------------------------------
(* One cycle: reconcile agent, then the intents the planner and the decision *)
(* agent approved, capped by the executor.                                   *)

Tick ==
  /\ pc = "idle"
  /\ cycles' = (cycles + 1) % ReconcileEvery
  /\ pc' = IF cycles' = 0 THEN "syncstart" ELSE "plan"
  /\ UNCHANGED <<switchVars, brokerVars, dbVars, batch, orderVars, todo,
                 firstTick, historyVars>>

\* The approved intents; execute_many keeps MaxOrders of them and drops the rest.
Approve ==
  /\ pc = "plan"
  /\ \E approved \in SUBSET {c \in Cid : runs[c] < MaxRuns} :
       /\ \E kept \in SUBSET approved :
            /\ IF Cardinality(approved) > MaxOrders
               THEN Cardinality(kept) = MaxOrders
               ELSE kept = approved
            /\ batch' = kept
       /\ runs' = [c \in Cid |-> IF c \in approved THEN runs[c] + 1 ELSE runs[c]]
  /\ pc' = "next"
  /\ UNCHANGED <<switchVars, brokerVars, dbVars, orderVars, todo, cycles,
                 firstTick, misled, torn, learnt, crashes>>

\* Planner._apply_risk reads the account and lets its exceptions escape.
PlanRaises ==
  /\ pc = "plan" /\ "account" \in Faults
  /\ AbortCycle

EndCycle ==
  /\ pc = "next" /\ batch = {}
  /\ pc' = "idle" /\ firstTick' = FALSE
  /\ UNCHANGED <<switchVars, brokerVars, dbVars, batch, orderVars, todo, cycles,
                 historyVars>>

-----------------------------------------------------------------------------
(* Executor.execute *)

\* Return from execute to the loop of execute_many.
Done == pc' = "next" /\ cur' = None /\ attempt' = 0 /\ resp' = NoResp

\* The first kill switch check, then dispatch.
Take(c) ==
  /\ pc = "next" /\ c \in batch
  /\ batch' = batch \ {c}
  /\ IF engaged
     THEN UNCHANGED <<pc, cur>>
     ELSE pc' = "validate" /\ cur' = c
  /\ UNCHANGED <<switchVars, brokerVars, dbVars, attempt, resp, todo, cycles,
                 firstTick, historyVars>>

\* Buying power and options level: any answer of the account is possible.
Validate ==
  /\ pc = "validate"
  /\ \/ pc' = "lookup" /\ UNCHANGED orderVars
     \/ cur \in ReadsAccount /\ Done
  /\ UNCHANGED <<switchVars, brokerVars, dbVars, batch, todo, cycles, firstTick,
                 historyVars>>

ValidateRaises ==
  /\ pc = "validate" /\ cur \in ReadsAccount /\ "account" \in Faults
  /\ AbortCycle

\* Mutant: no idempotency lookup.
LookupSkipped ==
  /\ pc = "lookup"
  /\ pc' = "record"
  /\ UNCHANGED <<switchVars, brokerVars, dbVars, batch, orderVars, todo, cycles,
                 firstTick, historyVars>>

\* Idempotency: an order the broker knows is not sent again.  A lookup that
\* raised is taken for an unknown order.
Lookup ==
  /\ pc = "lookup"
  /\ \/ bstatus[cur] # "none" /\ Done /\ UNCHANGED misled
     \/ /\ bstatus[cur] = "none" \/ "lookup" \in Faults
        /\ pc' = "record" /\ UNCHANGED orderVars
        /\ Misled(cur)
  /\ UNCHANGED <<switchVars, brokerVars, dbVars, batch, todo, cycles, firstTick,
                 torn, learnt, runs, crashes>>

\* Mutants: nothing written before the network; INSERT OR REPLACE.
RecordNothing ==
  /\ pc = "record"
  /\ pc' = "recheck"
  /\ UNCHANGED <<switchVars, brokerVars, dbVars, batch, orderVars, todo, cycles,
                 firstTick, historyVars>>
RecordReplaces ==
  /\ pc = "record"
  /\ status' = [status EXCEPT ![cur] = "PENDING_SUBMIT"]
  /\ filledQty' = [filledQty EXCEPT ![cur] = 0]
  /\ pc' = "recheck"
  /\ UNCHANGED <<switchVars, brokerVars, logged, positions, batch, orderVars, todo,
                 cycles, firstTick, historyVars>>

\* INSERT ... ON CONFLICT DO NOTHING.
RecordPending ==
  /\ pc = "record"
  /\ status' = [status EXCEPT ![cur] = IF @ = "ABSENT" THEN "PENDING_SUBMIT" ELSE @]
  /\ pc' = "recheck"
  /\ UNCHANGED <<switchVars, brokerVars, filledQty, logged, positions, batch,
                 orderVars, todo, cycles, firstTick, historyVars>>

\* Mutant: the switch is read only on entry to execute.
RecheckSkipped ==
  /\ pc = "recheck"
  /\ pc' = "send" /\ attempt' = 1
  /\ UNCHANGED <<switchVars, brokerVars, dbVars, batch, cur, resp, todo, cycles,
                 firstTick, historyVars>>

\* The second kill switch check; a blocked order is marked rejected.
Recheck ==
  /\ pc = "recheck"
  /\ IF engaged
     THEN status' = [status EXCEPT ![cur] = "REJECTED"] /\ Done
     ELSE pc' = "send" /\ attempt' = 1 /\ UNCHANGED <<status, cur, resp>>
  /\ UNCHANGED <<switchVars, brokerVars, filledQty, logged, positions, batch,
                 todo, cycles, firstTick, historyVars>>

-----------------------------------------------------------------------------
(* Executor._submit_with_retry *)

\* Mutant: one attempt too many.
AttemptFailsOffByOne ==
  /\ pc' = IF attempt <= MaxRetries THEN "backoff" ELSE "giveup"
  /\ UNCHANGED <<cur, attempt, resp>>

\* submit() raised: back off, or give up after the last attempt.
AttemptFails ==
  /\ pc' = IF attempt < MaxRetries THEN "backoff" ELSE "giveup"
  /\ UNCHANGED <<cur, attempt, resp>>

\* submit() returned: q lots executed, the order in status s.
Answered(s, q) ==
  /\ pc' = "mark" /\ resp' = [status |-> s, filled |-> q]
  /\ UNCHANGED <<cur, attempt>>

\* The request never reached the broker, or was refused.
RequestLost ==
  /\ "lost_request" \in Faults
  /\ AttemptFails
  /\ UNCHANGED <<brokerVars, misled>>

\* The broker creates the order; the response may be lost on the way back.
Created ==
  /\ bstatus[cur] = "none"
  /\ \E q \in 0..Qty : \E s \in StatusFor(q) :
       /\ bstatus' = [bstatus EXCEPT ![cur] = s]
       /\ bfilled' = [bfilled EXCEPT ![cur] = q]
       /\ \/ Answered(s, q) /\ UNCHANGED misled
          \/ /\ "lost_response" \in Faults
             /\ AttemptFails /\ misled' = misled \union {cur}

\* The id is known already: FakeBroker returns the order it has, Alpaca
\* refuses the duplicate.
Duplicate ==
  /\ bstatus[cur] # "none"
  /\ IF Broker = "fake" THEN Answered(bstatus[cur], bfilled[cur]) ELSE AttemptFails
  /\ UNCHANGED <<brokerVars, misled>>

Send ==
  /\ pc = "send"
  /\ RequestLost \/ Created \/ Duplicate
  /\ UNCHANGED <<switchVars, dbVars, batch, todo, cycles, firstTick, torn, learnt,
                 runs, crashes>>

\* The sleep between two attempts; the switch is not read again.
Backoff ==
  /\ pc = "backoff"
  /\ pc' = "send" /\ attempt' = attempt + 1
  /\ UNCHANGED <<switchVars, brokerVars, dbVars, batch, cur, resp, todo, cycles,
                 firstTick, historyVars>>

GiveUp ==
  /\ pc = "giveup"
  /\ status' = [status EXCEPT ![cur] = "REJECTED"]
  /\ Done
  /\ UNCHANGED <<switchVars, brokerVars, filledQty, logged, positions, batch,
                 todo, cycles, firstTick, historyVars>>

-----------------------------------------------------------------------------
(* Executor._persist_result: three transactions. *)

MarkSubmitted ==
  /\ pc = "mark"
  /\ status' = [status EXCEPT ![cur] = LifecycleStatus(resp.status, resp.filled)]
  /\ IF resp.filled > 0 THEN pc' = "fill" /\ UNCHANGED orderVars ELSE Done
  /\ UNCHANGED <<switchVars, brokerVars, filledQty, logged, positions, batch,
                 todo, cycles, firstTick, historyVars>>

\* Mutant: the fill is assumed to be total.
MarkFillTotal ==
  /\ pc = "fill"
  /\ status' = [status EXCEPT ![cur] = LifecycleStatus(resp.status, resp.filled)]
  /\ filledQty' = [filledQty EXCEPT ![cur] = Qty]
  /\ pc' = "log"
  /\ UNCHANGED <<switchVars, brokerVars, logged, positions, batch, orderVars,
                 todo, cycles, firstTick, historyVars>>

MarkFill ==
  /\ pc = "fill"
  /\ status' = [status EXCEPT ![cur] = LifecycleStatus(resp.status, resp.filled)]
  /\ filledQty' = [filledQty EXCEPT ![cur] = resp.filled]
  /\ pc' = "log"
  /\ UNCHANGED <<switchVars, brokerVars, logged, positions, batch, orderVars,
                 todo, cycles, firstTick, historyVars>>

\* TradeLogger.log_execution records the quantity of the intent.
LogFill ==
  /\ pc = "log"
  /\ logged' = [logged EXCEPT ![cur] = @ + Qty]
  /\ Done
  /\ UNCHANGED <<switchVars, brokerVars, rowVars, positions, batch, todo,
                 cycles, firstTick, historyVars>>

-----------------------------------------------------------------------------
Reconciliation ==
  SyncStart \/ SyncFail \/ (\E c \in Cid : SyncOne(c)) \/ SyncDone

Execution ==
  \/ \E c \in Cid : Take(c)
  \/ Validate \/ ValidateRaises \/ Lookup \/ RecordPending \/ Recheck
  \/ Send \/ Backoff \/ GiveUp \/ MarkSubmitted \/ MarkFill \/ LogFill

Bot ==
  Restart \/ Reconciliation \/ Tick \/ Approve \/ PlanRaises \/ Execution \/ EndCycle

Next ==
  \/ Engage \/ Release
  \/ \E c \in Cid : BrokerFill(c) \/ BrokerEnd(c)
  \/ Crash
  \/ Bot

Spec == Init /\ [][Next]_vars

\* The process runs until it crashes and is restarted; a broker that is asked
\* for its positions again and again answers some day.  Nothing is assumed of
\* the broker's orders nor of the operator.
Fairness == WF_vars(Bot) /\ SF_vars(SyncStart)
LiveSpec == Spec /\ Fairness

-----------------------------------------------------------------------------
(* Properties *)

TypeOK ==
  /\ engaged \in BOOLEAN /\ pass \subseteq Cid
  /\ bstatus \in [Cid -> BrokerStatus] /\ bfilled \in [Cid -> 0..Qty]
  /\ status \in [Cid -> LocalStatus] /\ filledQty \in [Cid -> 0..Qty]
  /\ logged \in [Cid -> Nat] /\ positions \in [Cid -> 0..Qty]
  /\ pc \in Pc /\ batch \subseteq Cid /\ cur \in Cid \union {None}
  /\ attempt \in 0..MaxRetries /\ resp \in Response \union {NoResp}
  /\ todo \subseteq Cid /\ cycles \in 0..(ReconcileEvery - 1)
  /\ firstTick \in BOOLEAN
  /\ misled \subseteq Cid /\ torn \subseteq Cid /\ learnt \subseteq Cid
  /\ runs \in [Cid -> 0..MaxRuns] /\ crashes \in 0..MaxCrashes

\* Write before network: whatever crashed, was retried or failed, every order
\* the broker knows has a row, so that the reconciliation can find it
\* (agents/executor.py, step 4 of the pipeline).
WriteBeforeNetwork ==
  \A c \in Cid : bstatus[c] # "none" => status[c] # "ABSENT"

\* The kill switch: while it stays engaged, the only order that can still
\* reach the broker is the one that was past its second check when it was
\* engaged (its retries included).  The rest of the batch, later cycles and
\* cycles after a restart are stopped.
SwitchStopsOrders ==
  [][engaged => \A c \in Cid :
                  bstatus[c] = "none" /\ bstatus'[c] # "none" => c \in pass]_vars

\* The ledger is never ahead of the broker: it claims no lot the broker has
\* not executed, and a row is FILLED only when the order is.
LedgerNeverAhead ==
  \A c \in Cid : /\ filledQty[c] <= bfilled[c]
                 /\ status[c] = "FILLED" => bstatus[c] = "filled"

\* No orphan: a row is REJECTED while the broker holds a live or executed order
\* for it only if a lost response or a failed lookup hid the order, or the
\* intent is being executed again; crashes, retries, lost requests and the
\* switch never do it.
NoOrphan ==
  \A c \in Cid :
    status[c] = "REJECTED" /\ bstatus[c] \notin {"none", "dead"}
      => c \in misled \/ runs[c] > 1

\* A row that says CANCELED, or FILLED with its quantity, is final as long as
\* its intent is executed once: no later reconciliation, late answer or retry
\* rewrites it.
FinalRowsStay ==
  [][\A c \in Cid :
       /\ runs[c] <= 1
       /\ \/ status[c] = "CANCELED"
          \/ status[c] = "FILLED" /\ filledQty[c] = Qty
       => status'[c] = status[c] /\ filledQty'[c] = filledQty[c]]_vars

\* The position snapshot is read before the rows, so once a reconciliation
\* is over the fills of the ledger explain every lot of the snapshot (but for
\* hidden or re-executed orders, and crashes, which tear a fill's two writes).
SnapshotExplained ==
  pc \notin {"boot", "sync"} /\ crashes = 0
    => \A c \in Cid : c \in misled \/ runs[c] > 1 \/ positions[c] <= filledQty[c]

\* Status, quantity and trade log of a fill are three transactions: a row that
\* is FILLED has its quantity, and a trade in trade_log unless a reconciliation
\* learnt the fill, but for the fill being written and for those a crash cut
\* (agents/executor.py, _persist_result; orchestration/reconcile.py, which
\* never writes trade_log).
FillsAccounted ==
  \A c \in Cid :
    /\ status[c] = "FILLED" /\ c \notin torn
    /\ ~(c = cur /\ pc \in {"fill", "log"})
    => filledQty[c] = Qty /\ (logged[c] > 0 \/ c \in learnt)

\* An intent executed again (a reconnection, tests/test_order_failures.py) does
\* not log its trade again, unless a failed lookup hid the order.
LoggedOnce == \A c \in Cid : logged[c] <= Qty \/ c \in misled

\* A row the bot believes open is closed once the broker has settled the order.
SettledRowsClose ==
  \A c \in Cid : (bstatus[c] \in {"filled", "dead"} /\ status[c] \in OpenStatus)
                   ~> status[c] \notin OpenStatus

\* A row left by a crash before the broker heard of the order is closed.
PhantomRowsClose ==
  \A c \in Cid : (bstatus[c] = "none" /\ status[c] \in OpenStatus)
                   ~> (bstatus[c] # "none" \/ status[c] = "REJECTED")

\* No row stays open for ever: neither the row of an order the broker has
\* settled nor one whose order never reached it.
OpenRowsClose == SettledRowsClose /\ PhantomRowsClose

-----------------------------------------------------------------------------
(* The promise the order path makes: OrderContract. *)

Contract == INSTANCE OrderContract WITH
  announced <- {c \in Cid : status[c] # "ABSENT"},
  placed    <- {c \in Cid : bstatus[c] # "none"},
  executed  <- bfilled,
  claimed   <- filledQty

ImplementsContract == Contract!Spec

=============================================================================
