---------------------------- MODULE ShadowModel ----------------------------
(***************************************************************************)
(* Champion against challenger: the training set built from the decision   *)
(* log and the temporal evaluation that decides whether the model of a     *)
(* setup's chance of winning leaves the shadow.                            *)
(*                                                                         *)
(* A trained SetupClassifier is a threshold on one feature: "cut" on the   *)
(* PCM score, with the probability (per thousand) it gives at or above the *)
(* cut and below it.  Which one a fit returns is left open.  AUC and its   *)
(* Hanley-McNeil interval are compared exactly, in integers.               *)
(***************************************************************************)
EXTENDS Integers, Sequences, FiniteSetsExt, SequencesExt, Selection

CONSTANTS
    TestPercent,    \* test_frac, per cent
    MinTest,        \* min_test
    Threshold       \* threshold, thousandths

\* At least as many decisions are fitted as are tested.
ASSUME ShadowAssumption ==
  TestPercent \in 1 .. 50 /\ MinTest \in Nat \ {0} /\ Threshold \in Nat

-----------------------------------------------------------------------------
(* Training set and model *)

\* The decisions whose outcome is a win or a loss, in the order of the log.
TrainingSet(log) == Filter(log, {r \in Range(log) : r.outcome \in {"win", "loss"}})

\* predict_proba; a decision without the feature counts as a score of zero.
Proba(model, features) == IF features.pcm >= model.cut THEN model.above ELSE model.below

RoundHalfEven(num, den) ==
  LET twice == 2 * (num % den)
      low == num \div den
  IN IF twice > den \/ (twice = den /\ low % 2 = 1) THEN low + 1 ELSE low

TestSize(rows) == RoundHalfEven(Len(rows) * TestPercent, 100)

Enough(rows) == Len(rows) >= 2 * MinTest /\ TestSize(rows) >= MinTest

\* Split in time: the last rows are unseen by the fit.
Unseen(rows) == SubSeq(rows, Len(rows) - TestSize(rows) + 1, Len(rows))

-----------------------------------------------------------------------------
(* Area under the ROC curve *)

Wins(rows) == {i \in DOMAIN rows : rows[i].outcome = "win"}
Losses(rows) == DOMAIN rows \ Wins(rows)

\* Ranks in the order of arrival, ties included.
Rank2ByArrival(scores, i) ==
  2 * Cardinality({j \in DOMAIN scores : scores[j] < scores[i] \/ (scores[j] = scores[i] /\ j <= i)})

\* Twice the 1-based rank of a score, the mean rank among equal scores.
Rank2(scores, i) ==
  2 * Cardinality({j \in DOMAIN scores : scores[j] < scores[i]})
  + Cardinality({j \in DOMAIN scores : scores[j] = scores[i]}) + 1

\* The AUC is U/D.
D(rows) == 2 * Cardinality(Wins(rows)) * Cardinality(Losses(rows))
U(rows, scores) ==
  MapThenSumSet(LAMBDA i : Rank2(scores, i), Wins(rows))
  - Cardinality(Wins(rows)) * (Cardinality(Wins(rows)) + 1)

\* auc - 2.33 * se > 1/2, squared and multiplied out; 43.43 is 8 * 2.33^2.
SurelySkilled(u, d, wins, losses) ==
  LET k == (2 * d - u) * (d + u)
      num == u * (d - u) * k
             + (wins - 1) * (u * d * d * (d + u) - u * u * k)
             + (losses - 1) * (2 * u * u * d * (2 * d - u) - u * u * k)
  IN 2 * u > d /\ (2 * u - d) * (2 * u - d) * d * k * 100 > 4343 * num

\* The decisions the model would approve earn more than all of them; none earns nothing.
BetterPnl(rows, scores) ==
  LET all == MapThenSumSet(LAMBDA i : rows[i].pnl, DOMAIN rows)
      taken == {i \in DOMAIN rows : scores[i] >= Threshold}
      some == MapThenSumSet(LAMBDA i : rows[i].pnl, taken)
  IN IF taken = {} THEN all < 0 ELSE some * Len(rows) > all * Cardinality(taken)

\* recommend_promote
Recommends(rows, model) ==
  LET test == Unseen(rows)
      scores == [i \in DOMAIN test |-> Proba(model, test[i].features)]
      d == D(test)
      u == U(test, scores)
  IN /\ Enough(rows)
     /\ d > 0
     /\ SurelySkilled(u, d, Cardinality(Wins(test)), Cardinality(Losses(test)))
     /\ 100 * (2 * u - d) >= 6 * d
     /\ BetterPnl(test, scores)
=============================================================================
