----------------------------- MODULE Synthesis -----------------------------
(***************************************************************************)
(* From what other sources say of a symbol to a confidence and a size:     *)
(* the signal providers and their aggregator, the views, the synthesizer   *)
(* and the dynamic sizer.  All of it is pure.  Confidences of views are    *)
(* thousandths, weights are halves, convictions, confidences of a decision *)
(* and fractions of the equity are ten-thousandths, and money is integer.  *)
(***************************************************************************)
EXTENDS Integers, Sequences, SequencesExt, Selection

CONSTANTS
    MaxAge,         \* max_age_days of the congress provider
    MinChange,      \* min_change_ratio of the smart money provider, thousandths
    NeutralBand,    \* neutral_band, thousandths
    Agreement,      \* conflict_threshold, thousandths
    KellyCap,       \* kelly_cap is one over this number
    MaxRisk,        \* max_risk_pct, ten-thousandths
    MinRisk,        \* min_risk_pct, ten-thousandths
    Floor           \* confidence_floor, ten-thousandths

ASSUME SynthesisAssumption ==
  /\ MaxAge \in Nat \ {0} /\ MinChange \in Nat
  /\ NeutralBand \in Nat /\ Agreement \in Nat
  /\ KellyCap \in Nat \ {0} /\ Floor \in Nat
  /\ MinRisk \in Nat /\ MaxRisk \in Nat /\ MinRisk <= MaxRisk

AtMost(x, top) == IF x > top THEN top ELSE x
AtLeast(x, low) == IF x < low THEN low ELSE x

-----------------------------------------------------------------------------
(* Signal providers *)

Age(d, today) == today - d.day

\* Only disclosures that are public today and not too old carry an edge.
Fresh(d, today) == Age(d, today) \in 0 .. MaxAge

\* Confidence decays linearly with the age, to the nearest thousandth.
Congress(disclosures, today) ==
  LET fresh == Filter(disclosures, {d \in Range(disclosures) : Fresh(d, today)})
  IN [i \in DOMAIN fresh |->
       [source |-> "congress", symbol |-> fresh[i].symbol, sign |-> fresh[i].sign,
        confidence |-> AtLeast(0, 1000 - (2000 * Age(fresh[i], today) + MaxAge) \div (2 * MaxAge))]]

\* Confidence grows with the change of the position and saturates.
SmartMoney(changes) ==
  LET big == Filter(changes, {c \in Range(changes) : c.ratio >= MinChange})
  IN [i \in DOMAIN big |->
       [source |-> "smart_money", symbol |-> big[i].symbol, sign |-> big[i].sign,
        confidence |-> AtMost(big[i].ratio, 1000)]]

\* SignalService.collect: a provider that raises is skipped and the next one is asked.
CollectSignals(provided, down) ==
  FlattenSeq([i \in DOMAIN provided |-> IF i \in down THEN <<>> ELSE provided[i]])

-----------------------------------------------------------------------------
(* Views and their synthesis *)

View(source, sign, confidence, weight) ==
  [source |-> source, sign |-> sign, confidence |-> AtMost(AtLeast(confidence, 0), 1000),
   weight |-> weight]

SignalViews(signals, symbol) ==
  LET own == Filter(signals, {s \in Range(signals) : s.symbol = symbol})
  IN [i \in DOMAIN own |-> View(own[i].source, own[i].sign, own[i].confidence, 2)]

Mass(v) == v.weight * v.confidence

Total(amounts) == FoldSeq(+, 0, amounts)

\* Direction, conviction and conflict of the weighted views.
Synthesize(views) ==
  LET n == DOMAIN views
      mass == [i \in n |-> Mass(views[i])]
      weight == Total([i \in n |-> views[i].weight])
      net == Total([i \in n |-> mass[i] * views[i].sign])
      direction == IF net > NeutralBand * weight THEN 1
                   ELSE IF net < -(NeutralBand * weight) THEN -1 ELSE 0
      agree == Total([i \in n |-> IF views[i].sign = direction THEN mass[i] ELSE 0])
  IN IF views = <<>> THEN [direction |-> 0, conviction |-> 0, conflict |-> FALSE]
     ELSE [direction |-> direction,
           conviction |-> AtMost((10 * (IF net < 0 THEN -net ELSE net)) \div weight, 10000),
           conflict |-> /\ direction # 0
                        /\ 1000 * agree < Agreement * AtLeast(Total(mass), 1)]

-----------------------------------------------------------------------------
(* Sizing *)

\* Full Kelly fraction for the payoff b, none without an edge.
Kelly(p, b) == IF b <= 0 THEN 0 ELSE AtLeast(AtMost((p * b - (10000 - p)) \div b, 10000), 0)

\* The limits the wrong way round: what asks for more than the most falls back to the least.
RiskFractionFallsBack(confidence, b) ==
  LET share == Kelly(confidence, b) \div KellyCap
  IN IF confidence < Floor \/ Kelly(confidence, b) <= 0 THEN 0
     ELSE IF share \in MinRisk .. MaxRisk THEN share ELSE MinRisk

RiskFraction(confidence, b) ==
  LET kelly == Kelly(confidence, b)
  IN IF confidence < Floor \/ kelly <= 0 THEN 0
     ELSE AtLeast(AtMost(kelly \div KellyCap, MaxRisk), MinRisk)

\* fixed_fractional_qty: shares whose loss at the stop is the fraction of the equity.
FixedFractional(equity, fraction, entry, stop) ==
  LET perShare == IF entry > stop THEN entry - stop ELSE stop - entry
  IN IF perShare = 0 THEN 0 ELSE (equity * fraction) \div (10000 * perShare)

\* max_qty_for_exposure: what may be added without exceeding the share of the equity.
MaxAdditional(equity, percent, entry, held) ==
  AtLeast((equity * percent) \div (100 * entry) - held, 0)

DynamicQty(confidence, b, equity, entry, stop, percent, held) ==
  AtMost(FixedFractional(equity, RiskFraction(confidence, b), entry, stop),
         MaxAdditional(equity, percent, entry, held))
=============================================================================
