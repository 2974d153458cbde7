--------------------------- MODULE MCFeedbackLoop ---------------------------
(* FeedbackLoop over one ladder: two buys and two sales, planned in any     *)
(* order and in batches that may mix them, in two regimes.                  *)
EXTENDS FeedbackLoop, TLC

CONSTANTS a, b1, b2, x1, x2

MCOrder == [i \in Ids |-> [strategy |-> "ladder", symbol |-> a,
                           side |-> IF i \in {x1, x2} THEN "sell" ELSE "buy"]]
MCViews == {[regime |-> "up", price |-> 2], [regime |-> "down", price |-> None]}

MCSymmetry == Permutations({b1, b2}) \union Permutations({x1, x2})

-----------------------------------------------------------------------------
(* feedback/evaluation.py:23: win, loss and breakeven are "desfechos que    *)
(* representam um trade efetivamente realizado (fechado)".  A sale closes   *)
(* every open buy decision of its symbol, those never executed included.    *)
OutcomesAreTrades ==
  \A i \in Ids : rows[i].status \in Closed => filled[i] # None
=============================================================================
