----------------------------- MODULE OrderClaims -----------------------------
(***************************************************************************)
(* What comments and documents of the repository say of the order path and *)
(* the code, as modelled in OrderLifecycle, does not do.  Every definition *)
(* is checked by a run of its own that ends in a counterexample.           *)
(***************************************************************************)
EXTENDS OrderLifecycle

\* orchestration/reconcile.py:8-9: divergences are resolved in favour of the
\* broker; so an order the broker filled is FILLED in the ledger some day.
BrokerFillsReachTheLedger ==
  \A c \in Cid : bstatus[c] = "filled" ~> status[c] = "FILLED"

=============================================================================
