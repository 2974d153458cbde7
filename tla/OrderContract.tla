--------------------------- MODULE OrderContract ---------------------------
(***************************************************************************)
(* What the order path promises, without processes, retries, crashes or    *)
(* reconciliation: an order is announced in the local ledger before it is  *)
(* placed at the broker, it is placed at most once, no order is placed     *)
(* while the kill switch is engaged but the one that held a pass when it   *)
(* was engaged, and the ledger claims a fill only after the broker         *)
(* executed it.                                                            *)
(*                                                                         *)
(* Sources of the promise: the pipeline in the header of                   *)
(* agents/executor.py, core/kill_switch.py and orchestration/reconcile.py. *)
(* OrderLifecycle.tla implements it.                                       *)
(***************************************************************************)
EXTENDS Naturals

CONSTANTS Cid,   \* client order ids
          Qty    \* quantity of every order, in lots

VARIABLES
  engaged,     \* kill switch
  pass,        \* the order in flight when the switch was engaged, if any
  announced,   \* ids with a row in the ledger
  placed,      \* ids the broker knows
  executed,    \* lots the broker executed, per id
  claimed      \* lots the ledger says were executed, per id

vars == <<engaged, pass, announced, placed, executed, claimed>>

Init ==
  /\ engaged \in BOOLEAN
  /\ pass = {}
  /\ announced = {}
  /\ placed = {}
  /\ executed = [c \in Cid |-> 0]
  /\ claimed = [c \in Cid |-> 0]

\* The operator flips the switch; an order already on its way keeps a pass.
Flip ==
  /\ engaged' = ~engaged
  /\ \/ pass' = {}
     \/ engaged' /\ \E c \in Cid : pass' = {c}
  /\ UNCHANGED <<announced, placed, executed, claimed>>

Announce(c) ==
  /\ c \notin announced
  /\ announced' = announced \union {c}
  /\ UNCHANGED <<engaged, pass, placed, executed, claimed>>

\* A new order may execute in part or in full as it is placed.
Place(c) ==
  /\ c \in announced \ placed
  /\ engaged => c \in pass
  /\ placed' = placed \union {c}
  /\ \E q \in 0..Qty : executed' = [executed EXCEPT ![c] = q]
  /\ UNCHANGED <<engaged, pass, announced, claimed>>

Execute(c) ==
  /\ c \in placed
  /\ \E q \in executed[c]..Qty : executed' = [executed EXCEPT ![c] = q]
  /\ UNCHANGED <<engaged, pass, announced, placed, claimed>>

Claim(c) ==
  /\ c \in announced
  /\ \E q \in claimed[c]..executed[c] : claimed' = [claimed EXCEPT ![c] = q]
  /\ UNCHANGED <<engaged, pass, announced, placed, executed>>

Next ==
  \/ Flip
  \/ \E c \in Cid : Announce(c) \/ Place(c) \/ Execute(c) \/ Claim(c)

Spec == Init /\ [][Next]_vars

=============================================================================
