----------------------------- MODULE MCBacktest -----------------------------
(* Backtest over every series of nine bars on three price levels in which   *)
(* some bars move, opening at the close before (no gap) or at their own     *)
(* close (a gap every time the price moves).                                *)
EXTENDS Backtest, BacktestPlans

Levels == {5, 8, 10}
Length == 9
\* Bars at which the price may change.
Moves == {2, 3, 4, 5, 7, 9}

Source(b) == CHOOSE j \in Moves \union {1} :
               j <= b /\ \A i \in Moves \union {1} : i <= b => i <= j
Path(f) == [b \in 1..Length |-> IF Source(b) = 1 THEN 10 ELSE f[Source(b)]]
OpenOf(close, gap) ==
  [b \in 1..Length |-> IF gap \/ b = 1 THEN close[b] ELSE close[b - 1]]

MCSeries == {[open |-> OpenOf(Path(f), gap), close |-> Path(f)] :
               f \in [Moves -> Levels], gap \in BOOLEAN}

MCPlans == {Baseline(Length), RiskAndStop(Length), TwoPasses(Length),
            Sweep(0, Length, 6, 3, FALSE, FALSE), OutOfSample(5, Length, 4, 2)}

MCQty == <<10, 20, 30>>
MCDrop == <<10, 20, 30>>
MCNeeded == [window |-> 3, series |-> 4, train |-> 4]
=============================================================================
