---------------------------- MODULE Enrichment ----------------------------
(***************************************************************************)
(* The analysis beside the trading loop, over a market that grows by one   *)
(* bar a day: the signal providers are asked, the DecisionEnricher scores  *)
(* and sizes the intent of the day from the bars so far, the decision is   *)
(* logged with what it was made from, closed at the next close, and the    *)
(* challenger is evaluated on the log until it is promoted and takes part. *)
(*                                                                         *)
(* The market, the sources, the closing of a decision and the person who   *)
(* follows recommend_promote are outside src/; everything in between is    *)
(* Fimathe, Synthesis and ShadowModel.                                     *)
(***************************************************************************)
EXTENDS Fimathe, Synthesis, ShadowModel

CONSTANTS
    Scenarios,      \* what one history is given; see ScenarioOK
    Models,         \* the classifiers a fit may return: [cut, above, below]
    MinBars,        \* min_bars of the enricher
    RegimeConfidence,   \* 0.55, in thousandths
    Equity,
    SymbolPercent,  \* max_per_symbol_pct, per cent
    MaxBars         \* bound: bars of a history

Sides == {1, -1}
BarOK(b) ==
  /\ b.o \in Nat /\ b.h \in Nat /\ b.l \in Nat /\ b.c \in Nat /\ b.c > 0
  /\ b.l <= b.h /\ b = [o |-> b.o, h |-> b.h, l |-> b.l, c |-> b.c]
ScenarioOK(s) ==
  /\ s.method \in {"rolling", "pivots"} /\ s.side \in Sides
  /\ s.regime \in {-1, 0, 1}              \* TREND_DOWN, RANGE, TREND_UP
  /\ s.payoff \in Nat /\ s.held \in Nat   \* win_loss_ratio, current_qty
  /\ s.distance \in Nat
  /\ IsFiniteSet(s.market) /\ \A b \in s.market : BarOK(b)
  /\ s.disclosures \in Seq([symbol : STRING, sign : Sides, day : Int])
  /\ s.changes \in Seq([symbol : STRING, sign : Sides, ratio : Int])
  /\ s.down \in [1 .. MaxBars -> SUBSET {1, 2}]   \* providers that raise that day

ASSUME EnrichmentAssumption ==
  /\ MinBars \in Nat \ {0} /\ MaxBars \in Nat
  /\ RegimeConfidence \in 0 .. 1000 /\ Equity \in Nat /\ SymbolPercent \in Nat
  /\ \A s \in Scenarios : ScenarioOK(s)
  /\ \A m \in Models : m.cut \in Nat /\ m.above \in 0 .. 1000 /\ m.below \in 0 .. 1000

NoSetup == [signal |-> 0, valid |-> FALSE, pcm |-> 0]
Shadow == [model |-> [cut |-> 0, above |-> 500, below |-> 500], rows |-> <<>>, fitted |-> 0]

VARIABLES scenario, bars, signals, log, promoted, pc
vars == <<scenario, bars, signals, log, promoted, pc>>

Init ==
  /\ scenario \in Scenarios
  /\ bars = <<>> /\ signals = <<>> /\ log = <<>>
  /\ promoted = Shadow /\ pc = "market"

Today == Len(bars)
Close == bars[Today].c

\* The profit of a decision at a price.
PnlAt(d, price) == d.side * (price - d.entry) * d.qty

Settled(d, price) ==
  IF d.outcome # "open" THEN d
  ELSE [d EXCEPT !.pnl = PnlAt(d, price),
                 !.outcome = IF PnlAt(d, price) > 0 THEN "win"
                             ELSE IF PnlAt(d, price) < 0 THEN "loss" ELSE "breakeven"]

\* The next bar, at whose close the decision of the day before is closed.
NewBar ==
  /\ pc = "market" /\ Today < MaxBars
  /\ \E b \in scenario.market :
       /\ bars' = Append(bars, b)
       /\ log' = [i \in DOMAIN log |-> Settled(log[i], b.c)]
  /\ pc' = "collect"
  /\ UNCHANGED <<scenario, signals, promoted>>

Collect ==
  /\ pc = "collect"
  /\ signals' = CollectSignals(<<Congress(scenario.disclosures, Today), SmartMoney(scenario.changes)>>,
                               scenario.down[Today])
  /\ pc' = "enrich"
  /\ UNCHANGED <<scenario, bars, log, promoted>>

-----------------------------------------------------------------------------
(* The enricher *)

Setup == IF Today < MinBars THEN NoSetup ELSE Process(scenario.method, bars, Today)

\* What the classifier sees of a setup, at training and at prediction.
Features(setup) == [pcm |-> setup.pcm]

Trained == promoted # Shadow
PWin(setup) == Proba(promoted.model, Features(setup))

Views(setup) ==
  SignalViews(signals, scenario.symbol)
  \o (IF setup.signal # 0 THEN <<View("fimathe", setup.signal, setup.pcm, 2)>> ELSE <<>>)
  \o (IF scenario.regime # 0 THEN <<View("regime", scenario.regime, RegimeConfidence, 1)>> ELSE <<>>)
  \o (IF Trained THEN <<View("ml", scenario.side, PWin(setup), 2)>> ELSE <<>>)

\* Confidence for the intended side: one half, moved by half the conviction.
Aligned(synthesis, side) ==
  IF synthesis.direction = side THEN 5000 + synthesis.conviction \div 2
  ELSE IF synthesis.direction = 0 THEN 5000
  ELSE 5000 - synthesis.conviction \div 2

Confidence(views, setup) ==
  LET own == Aligned(Synthesize(views), scenario.side)
  IN IF Trained THEN (own + 10 * PWin(setup)) \div 2 ELSE own

\* The intent of the day: enter at the close, with the stop at a fixed distance.
StopPrice == Close - scenario.side * scenario.distance

Decision(setup, views) ==
  LET confidence == Confidence(views, setup)
      qty == DynamicQty(confidence, scenario.payoff, Equity, Close, StopPrice,
                        SymbolPercent, scenario.held)
  IN [day |-> Today, side |-> scenario.side, setup |-> setup, views |-> views,
      features |-> Features(setup), conflict |-> Synthesize(views).conflict,
      confidence |-> confidence, qty |-> qty, entry |-> Close, stop |-> StopPrice,
      outcome |-> IF qty > 0 THEN "open" ELSE "skip", pnl |-> 0]

Enrich ==
  /\ pc = "enrich"
  /\ log' = Append(log, Decision(Setup, Views(Setup)))
  /\ pc' = "market"
  /\ UNCHANGED <<scenario, bars, signals, promoted>>

\* evaluate_from_log recommends the model of this fit, and it is promoted.
Promote ==
  /\ pc = "market" /\ ~Trained
  /\ LET rows == TrainingSet(log)
     IN \E model \in Models :
          /\ Recommends(rows, model)
          /\ promoted' = [model |-> model, rows |-> Unseen(rows),
                          fitted |-> rows[Len(rows) - TestSize(rows)].day]
  /\ UNCHANGED <<scenario, bars, signals, log, pc>>

Next == NewBar \/ Collect \/ Enrich \/ Promote

Spec == Init /\ [][Next]_vars

-----------------------------------------------------------------------------
(* Properties *)

(* No decision is made from what was not known that day: what the engine said of a bar *)
(* is what it says of it when any number of later bars have arrived, and a disclosure  *)
(* behind a view was public and not too old on the day (FimatheEngine.process,         *)
(* detect_swings_pivots, CongressTradingProvider.fetch).                               *)
KnownThen(d) ==
  /\ d.day >= MinBars => d.setup = Process(scenario.method, bars, d.day)
  /\ \A i \in DOMAIN d.views :
       d.views[i].source = "congress" =>
         \E e \in Range(scenario.disclosures) :
            e.sign = d.views[i].sign /\ e.symbol = scenario.symbol
            /\ e.day <= d.day /\ d.day <= e.day + MaxAge
NoHindsight == \A i \in DOMAIN log : KnownThen(log[i])

(* A valid setup has its stop on the losing side of the close and its targets beyond   *)
(* it, and the same prices upside down are the same setup on the other side: neither   *)
(* direction of the technique is treated differently from the other.                   *)
Top == 2 * Max({b.h : b \in scenario.market})
Mirrored == [i \in DOMAIN bars |->
               [o |-> Top - bars[i].o, h |-> Top - bars[i].l, l |-> Top - bars[i].h, c |-> Top - bars[i].c]]
SetupsMirror ==
  \A i \in DOMAIN log :
    LET s == log[i].setup
        upsideDown == Process(scenario.method, SubSeq(Mirrored, 1, log[i].day), log[i].day)
    IN s.valid =>
         /\ s.signal * (s.close - s.stop) > 0
         /\ s.signal * (s.tp1 - s.close) > 0 /\ s.signal * (s.tp2 - s.tp1) > 0
         /\ upsideDown.valid /\ upsideDown.signal = -s.signal /\ upsideDown.pcm = s.pcm
         /\ upsideDown.close - upsideDown.stop = s.stop - s.close

(* Size follows evidence: of two decisions from the same sources, the one whose every  *)
(* source favours the side more is not the less confident and does not buy fewer       *)
(* shares, which lose the same each at the stop, unless one more would exceed what may *)
(* be held of the symbol; and no decision puts more at risk, or leaves more held, than *)
(* the limits allow (DecisionEnricher.enrich, DynamicSizer.risk_pct and qty).          *)
NoWeaker(d, e) ==
  /\ Len(d.views) = Len(e.views)
  /\ \A j \in DOMAIN d.views :
       /\ d.views[j].source = e.views[j].source
       /\ d.side * d.views[j].sign * d.views[j].confidence
            >= e.side * e.views[j].sign * e.views[j].confidence
Allowed(d, qty) == 100 * (qty + scenario.held) * d.entry <= SymbolPercent * Equity
SizeFollowsEvidence ==
  \A i \in DOMAIN log :
    LET d == log[i]
        risked == d.qty * (IF d.entry > d.stop THEN d.entry - d.stop ELSE d.stop - d.entry)
    IN /\ 10000 * risked <= MaxRisk * Equity
       /\ d.qty > 0 => Allowed(d, d.qty)
       /\ \A j \in DOMAIN log :
            NoWeaker(d, log[j]) =>
              /\ d.confidence >= log[j].confidence
              /\ d.qty >= log[j].qty \/ ~Allowed(d, d.qty + 1)

(* A promoted model has shown skill on decisions it was not fitted on: they are all    *)
(* later, it ranks more winners above losers than below, and the decisions it approves *)
(* earned more on average than all of them (evaluate, recommend_promote).              *)
PromotionMeansSkill ==
  Trained =>
    LET rows == promoted.rows
        score(i) == Proba(promoted.model, rows[i].features)
        pairs == Wins(rows) \X Losses(rows)
        taken == {i \in DOMAIN rows : score(i) >= Threshold}
        earned(which) == MapThenSumSet(LAMBDA i : rows[i].pnl, which)
    IN /\ \A i \in DOMAIN rows : rows[i].day > promoted.fitted /\ rows[i].outcome \in {"win", "loss"}
       /\ Cardinality({p \in pairs : score(p[1]) > score(p[2])})
            > Cardinality({p \in pairs : score(p[1]) < score(p[2])})
       /\ earned(taken) * Len(rows) > earned(DOMAIN rows) * Cardinality(taken)
          \/ (taken = {} /\ earned(DOMAIN rows) < 0)
=============================================================================
