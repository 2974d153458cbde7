------------------------------ MODULE Fimathe ------------------------------
(***************************************************************************)
(* The deterministic part of the FIMATHE technique (FimatheEngine): what   *)
(* the engine says of bar k of a frame of OHLC bars.  A frame is a         *)
(* sequence of records [o, h, l, c] of integer prices.  Every column is an *)
(* operator of the WHOLE frame and of k, as in the vectorised code, so     *)
(* that a column that looked at later bars would show.                     *)
(*                                                                         *)
(* Fractions stay exact: an exponential mean of alpha 1/p at its n-th      *)
(* value is an integer over p^(n-1) (Scale), and a distance of the stops   *)
(* is counted in halves of a price over that scale.  Only the PCM score is *)
(* rounded, to thousandths.  Frames carry no volume column.                *)
(***************************************************************************)
EXTENDS Integers, Sequences, FiniteSetsExt

CONSTANTS
    SwingPeriod,      \* swing_period
    Smoothing,        \* rsi_period and atr_period: alpha is 1/Smoothing
    MinAtrHalves,     \* min_atr_multiplier, in halves of an ATR
    RiskReward,       \* risk_reward_min
    PcmConfirmation   \* pcm_confirmation

ASSUME FimatheAssumption ==
  /\ SwingPeriod \in Nat \ {0} /\ Smoothing \in Nat \ {0}
  /\ MinAtrHalves \in Nat /\ RiskReward \in Nat /\ PcmConfirmation \in BOOLEAN

NaN == -1             \* prices are positive: no channel yet

Abs(x) == IF x < 0 THEN -x ELSE x
Larger(x, y) == IF x > y THEN x ELSE y
Smaller(x, y) == IF x < y THEN x ELSE y

-----------------------------------------------------------------------------
(* Channels *)

\* Strict local extrema of the frame against SwingPeriod neighbours on each side.
Around(i) == (i - SwingPeriod .. i + SwingPeriod) \ {i}
Inner(f) == 1 + SwingPeriod .. Len(f) - SwingPeriod
Peaks(f) == {i \in Inner(f) : \A j \in Around(i) : f[i].h > f[j].h}
Troughs(f) == {i \in Inner(f) : \A j \in Around(i) : f[i].l < f[j].l}

\* A slip a vectorised version makes easily: the pivot used from its own bar on.
ConfirmedAtOnce(pivots, k) == {i \in pivots : i <= k}

\* The pivots of the frame that are known at bar k: SwingPeriod bars after they occurred.
Confirmed(pivots, k) == {i \in pivots : i + SwingPeriod <= k}

SwingHigh(method, f, k) ==
  IF method = "pivots"
  THEN LET known == Confirmed(Peaks(f), k)
       IN IF known = {} THEN NaN ELSE f[Max(known)].h
  ELSE IF k <= SwingPeriod THEN NaN ELSE Max({f[i].h : i \in k - SwingPeriod .. k - 1})

SwingLow(method, f, k) ==
  IF method = "pivots"
  THEN LET known == Confirmed(Troughs(f), k)
       IN IF known = {} THEN NaN ELSE f[Max(known)].l
  ELSE IF k <= SwingPeriod THEN NaN ELSE Min({f[i].l : i \in k - SwingPeriod .. k - 1})

\* The channel, with zone_neutra doubled (its factor is one half).
Channel(method, f, k) ==
  LET up == SwingHigh(method, f, k)
      low == SwingLow(method, f, k)
  IN [upper |-> up, lower |-> low, ready |-> up # NaN /\ low # NaN, zone2 |-> up + low]

-----------------------------------------------------------------------------
(* Indicators *)

Scale(n) ==
  LET power[m \in 0 .. n - 1] == IF m = 0 THEN 1 ELSE Smoothing * power[m - 1]
  IN power[n - 1]

\* Exponential mean of the sequence x with alpha 1/Smoothing, times Scale of its index.
Ewm(x) ==
  LET mean[n \in 1 .. Len(x)] ==
        IF n = 1 THEN x[1]
        ELSE (Smoothing - 1) * mean[n - 1] + (Scale(n) \div Smoothing) * x[n]
  IN mean

TrueRange(f, k) ==
  LET own == f[k].h - f[k].l
  IN IF k = 1 THEN own
     ELSE Max({own, Abs(f[k].h - f[k - 1].c), Abs(f[k].l - f[k - 1].c)})

Atr(f, k) == Ewm([i \in 1 .. k |-> TrueRange(f, i)])[k]

Rsi(f, k) ==
  IF k = 1 THEN 100
  ELSE LET delta == [i \in 1 .. k - 1 |-> f[i + 1].c - f[i].c]
           gain == Ewm([i \in 1 .. k - 1 |-> Larger(delta[i], 0)])[k - 1]
           loss == Ewm([i \in 1 .. k - 1 |-> Larger(-delta[i], 0)])[k - 1]
       IN IF loss = 0 THEN 100 ELSE (100 * gain) \div (gain + loss)

-----------------------------------------------------------------------------
(* PCM score, signal and stops *)

\* tanh(n/8) in thousandths, for n = 1, 2, ... ; beyond two ATRs it is taken as one.
Tanh8 == <<124, 245, 358, 462, 555, 635, 704, 762, 809, 848, 880, 905, 926, 941, 954, 964>>
Tanh(eighths) ==
  IF eighths = 0 THEN 0 ELSE IF eighths > Len(Tanh8) THEN 1000 ELSE Tanh8[eighths]

\* A copy of the upper side where the lower one belongs.
BeyondUpperOnly(ch, c) == IF ch.upper # NaN THEN Larger(c - ch.upper, 0) ELSE 0

\* Distance of the close beyond the channel: above it first, and only then below it.
Beyond(ch, c) ==
  IF ch.upper # NaN /\ c > ch.upper THEN c - ch.upper
  ELSE IF ch.lower # NaN THEN Larger(ch.lower - c, 0) ELSE 0

BodyRatio(bar) ==
  IF bar.h = bar.l THEN 0 ELSE Smaller(1000, (1000 * Abs(bar.c - bar.o)) \div (bar.h - bar.l))

\* breakout_strength in eighths of an ATR; the ATR comes with its scale.
Strength(beyond, atr, scale) == IF atr = 0 THEN 0 ELSE (8 * beyond * scale) \div atr

\* Half body, half breakout, and three quarters of it for want of volume.
PcmScore(bar, strength) == (3 * (BodyRatio(bar) + Tanh(strength))) \div 8

Signal(ch, c, pcm) ==
  IF ~ch.ready \/ (PcmConfirmation /\ pcm < 500) THEN 0
  ELSE IF c > ch.upper /\ 2 * c > ch.zone2 THEN 1
  ELSE IF c < ch.lower /\ 2 * c < ch.zone2 THEN -1
  ELSE 0

\* The stop on the far side of the channel, MinAtrHalves/2 ATRs beyond it.
StopLoss(ch, signal, atr, scale) ==
  IF signal = 1 THEN 2 * scale * ch.lower - MinAtrHalves * atr
  ELSE 2 * scale * ch.upper + MinAtrHalves * atr

StrongEnough(beyond, atr, scale) ==
  IF atr = 0 THEN MinAtrHalves <= 0 ELSE 2 * beyond * scale >= MinAtrHalves * atr

\* What process() says of bar k: the columns the enrichment, the log and the risk use.
Process(method, f, k) ==
  LET ch == Channel(method, f, k)
      c == f[k].c
      atr == Atr(f, k)
      scale == Scale(k)
      strength == Strength(Beyond(ch, c), atr, scale)
      pcm == PcmScore(f[k], strength)
      signal == Signal(ch, c, pcm)
      stop == IF signal = 0 THEN 0 ELSE StopLoss(ch, signal, atr, scale)
      risk == signal * (2 * scale * c - stop)
  IN [signal |-> signal, pcm |-> pcm, rsi |-> Rsi(f, k), strength |-> strength,
      zone |-> IF ch.ready THEN 2 * c - ch.zone2 ELSE 0,
      close |-> 2 * scale * c, stop |-> stop,
      tp1 |-> 2 * scale * c + signal * risk, tp2 |-> 2 * scale * c + 2 * signal * risk,
      valid |-> /\ signal # 0
                /\ ch.upper > ch.lower
                /\ StrongEnough(Beyond(ch, c), atr, scale)
                /\ risk # 0 /\ RiskReward <= 2]
=============================================================================
