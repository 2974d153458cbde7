--------------------------- MODULE MCEnrichment ---------------------------
(***************************************************************************)
(* Small histories for TLC.  The markets are bars around 20 whose closes   *)
(* break out of their neighbours; each scenario adds its sources and the   *)
(* intent of every day.                                                    *)
(***************************************************************************)
EXTENDS Enrichment

Bar(o, h, l, c) == [o |-> o, h |-> h, l |-> l, c |-> c]

\* Two quiet bars, a strong rise, a strong fall.
Swings == {Bar(20, 21, 19, 20), Bar(19, 23, 19, 23), Bar(21, 21, 17, 17), Bar(23, 24, 22, 24)}
\* Bars that form peaks and troughs in any order, with gaps between them.
Gaps == {Bar(20, 21, 19, 20), Bar(21, 25, 21, 25), Bar(24, 25, 23, 24), Bar(19, 19, 15, 15)}
\* Bars whose last peak may lie as low as the last trough: a channel of no width.
Steps == {Bar(20, 20, 17, 17), Bar(16, 16, 16, 16), Bar(15, 15, 14, 14), Bar(14, 16, 14, 16)}

Own(day, sign) == [symbol |-> "s", sign |-> sign, day |-> day]
Other(day, sign) == [symbol |-> "t", sign |-> sign, day |-> day]
Change(sign, ratio) == [symbol |-> "s", sign |-> sign, ratio |-> ratio]

Never == [n \in 1 .. MaxBars |-> {}]
Sometimes == [n \in 1 .. MaxBars |-> IF n % 3 = 0 THEN {1} ELSE IF n % 4 = 0 THEN {1, 2} ELSE {}]

Plain == [market |-> Swings, method |-> "rolling", side |-> 1, regime |-> 0, payoff |-> 2,
          symbol |-> "s", disclosures |-> <<>>, changes |-> <<>>, down |-> Never,
          distance |-> 2, held |-> 0]

MCScenarios ==
  { Plain,
    [Plain EXCEPT !.market = Steps, !.method = "pivots", !.side = -1, !.regime = -1],
    [Plain EXCEPT !.payoff = 1, !.regime = 1, !.held = 2, !.down = Sometimes,
                  !.disclosures = <<Own(1, 1), Own(4, -1), Other(2, 1)>>, !.changes = <<Change(1, 300)>>],
    [Plain EXCEPT !.side = -1, !.payoff = 1, !.market = Gaps, !.method = "pivots", !.down = Sometimes,
                  !.disclosures = <<Own(2, -1), Own(3, -1)>>, !.changes = <<Change(1, 50), Change(-1, 1500)>>],
    \* A disclosure against the side that ages beside a purchase for it: the size grows by the day.
    [Plain EXCEPT !.payoff = 1, !.distance = 5,
                  !.disclosures = <<Own(1, -1)>>, !.changes = <<Change(1, 460)>>] }

MCModels == {[cut |-> 450, above |-> 700, below |-> 300], [cut |-> 450, above |-> 400, below |-> 600],
             [cut |-> 0, above |-> 400, below |-> 400]}
=============================================================================
