--------------------------- MODULE BacktestPlans ---------------------------
(***************************************************************************)
(* The experiments the command lines run, as the runs Backtest makes of a  *)
(* series of n bars.                                                       *)
(*                                                                         *)
(* Sources: simulation/montecarlo.py, experiment.py, experiment_oos.py.    *)
(***************************************************************************)
EXTENDS Naturals, Sequences

\* make_windows: rolling windows of a length, by their first bars.
Starts(n, length, step) ==
  [k \in 1..(IF length > n THEN 0 ELSE (n - length) \div step + 1) |-> (k - 1) * step]

WindowRun(strategy, risk, gated, lo, hi) ==
  [kind |-> "window", strategy |-> strategy, risk |-> risk, stop |-> FALSE,
   learn |-> FALSE, gated |-> gated, lo |-> lo, hi |-> hi]

SeriesRun(kind, risk, learn, hi) ==
  [kind |-> kind, strategy |-> "ladder_buys", risk |-> risk, stop |-> risk,
   learn |-> learn, gated |-> FALSE, lo |-> 1, hi |-> hi]

(* run_sweep over the bars after the first k: each window with both        *)
(* strategies.                                                             *)
Sweep(k, n, length, step, risk, gated) ==
  LET starts == Starts(n - k, length, step)
      strategy(i) == IF i % 2 = 1 THEN "trailing_stop" ELSE "ladder_buys"
      lo(i) == k + starts[(i + 1) \div 2] + 1 IN
  [i \in 1..(2 * Len(starts)) |->
     WindowRun(strategy(i), risk, gated, lo(i), lo(i) + length - 1)]

(* run_experiment: the crude ladder; risk and stop; two passes over the    *)
(* same bars with the decision layer, of which the second is measured.     *)
Baseline(n)     == <<SeriesRun("series", FALSE, FALSE, n)>>
RiskAndStop(n)  == <<SeriesRun("series", TRUE, FALSE, n)>>
TwoPasses(n)    == <<SeriesRun("series", TRUE, TRUE, n), SeriesRun("series", TRUE, TRUE, n)>>

(* run_oos_experiment: the gate learns on the first k bars, the windows of *)
(* the rest are run without and with it.                                   *)
OutOfSample(k, n, length, step) ==
  <<SeriesRun("train", TRUE, TRUE, k)>>
    \o Sweep(k, n, length, step, TRUE, FALSE)
    \o Sweep(k, n, length, step, TRUE, TRUE)
=============================================================================
