------------------------------ MODULE RiskGate ------------------------------
(***************************************************************************)
(* The risk layer: the circuit breaker that main.py rebuilds at every      *)
(* start from two persisted figures, and the gate each intent of a         *)
(* planning cycle goes through.                                            *)
(*                                                                         *)
(* Sources: main.py (_build_risk_manager), risk/portfolio_guard.py,        *)
(* risk/manager.py, risk/sizing.py, agents/planner.py, core/rounding.py.   *)
(*                                                                         *)
(* Percentages are integers (3 stands for 0.03), so a comparison of ratios *)
(* is one of products.  The intents are those of one symbol, counted in    *)
(* whole shares; all other positions appear in the gross exposure.         *)
(***************************************************************************)
EXTENDS Naturals, FiniteSets

CONSTANTS
  Equities,      \* equity figures the broker may report
  Accounts,      \* the rest of a snapshot, with the market metadata of the symbol
  Asked,         \* quantities strategies ask for
  Collaterals,   \* strike * 100 * contracts of the puts they sell
  Days,          \* UTC dates, in order 1, 2, ...
  None,          \* no value stored
  DailyLoss,     \* daily_loss_limit_pct
  MaxDrawdown,   \* max_drawdown_pct
  MaxPerSymbol,  \* max_per_symbol_pct
  MaxHeat,       \* max_portfolio_heat_pct
  RiskPerTrade,  \* risk_per_trade_pct
  AssumedStop,   \* assumed_stop_pct
  MaxIntents,    \* bound: intents of one cycle
  MaxStarts,     \* bound: starts of the process
  MaxFailures    \* bound: writes of the peak that fail

\* Shares held, gross exposure of all positions, price of the symbol if it is
\* quoted, and its lot size: 0 when the watchlist has none.
Snapshot == [held: Nat, gross: Nat, price: Nat \ {0}, quoted: BOOLEAN, lot: Nat]

ASSUME RiskAssumption ==
  /\ Equities \subseteq Nat
  /\ Accounts \subseteq Snapshot
  /\ Asked \subseteq Nat \ {0}
  /\ Collaterals \subseteq Nat
  /\ Days \subseteq Nat
  /\ 1 \in Days
  /\ None \notin Nat
  /\ DailyLoss \in 0..100
  /\ MaxDrawdown \in 0..100
  /\ MaxPerSymbol \in Nat
  /\ MaxHeat \in Nat
  /\ RiskPerTrade \in Nat
  /\ AssumedStop \in 1..100
  /\ MaxIntents \in Nat
  /\ MaxStarts \in Nat
  /\ MaxFailures \in Nat

VARIABLES
  day,
  \* SQLite table state
  storedStart,  \* risk_start_equity:<day>
  storedPeak,   \* risk_peak_equity; 0 when absent
  \* the process
  pc,           \* "down", "starting", "idle" or "cycle"
  startDay,     \* the date this process took at its start
  read,         \* the equity it read then
  start,        \* guard.start_equity
  peak,         \* guard.peak_equity
  halted,       \* guard.trading_halted
  \* the cycle: one snapshot, and what has passed the gate
  equity,
  account,
  intents,      \* intents assessed
  buys,         \* risk-increasing stock orders approved, and their shares
  bought,
  puts,         \* short puts approved, and their collateral
  pledged,
  exits,        \* sales asked for, their shares, and the shares passed on
  exitAsked,
  exitSent,
  \* history, also the bounds
  top,          \* highest equity a finished start or a cycle has seen
  opening,      \* first equity any start read on each day
  lost,         \* a cycle of this process was at a loss limit
  unsaved,      \* a write of the peak has failed
  starts,
  failures

storeVars   == <<storedStart, storedPeak>>
guardVars   == <<startDay, read, start, peak, halted>>
cycleVars   == <<equity, account, intents, buys, bought, puts, pledged,
                 exits, exitAsked, exitSent>>
historyVars == <<top, opening, lost, unsaved, starts, failures>>
vars == <<day, storeVars, pc, guardVars, cycleVars, historyVars>>

Larger(a, b)  == IF a >= b THEN a ELSE b
Smaller(a, b) == IF a <= b THEN a ELSE b

NoSnapshot == [held |-> 0, gross |-> 0, price |-> 1, quoted |-> FALSE, lot |-> 0]

(* What a cycle has approved before it assesses anything.                  *)
NoApprovals ==
  /\ intents' = 0
  /\ buys' = 0 /\ bought' = 0
  /\ puts' = 0 /\ pledged' = 0
  /\ exits' = 0 /\ exitAsked' = 0 /\ exitSent' = 0

Init ==
  /\ day = 1
  /\ storedStart = [d \in Days |-> None]
  /\ storedPeak = 0
  /\ pc = "down"
  /\ startDay = 1 /\ read = 0 /\ start = 1 /\ peak = 1
  /\ halted = FALSE
  /\ equity = 0 /\ account = NoSnapshot
  /\ intents = 0 /\ buys = 0 /\ bought = 0 /\ puts = 0 /\ pledged = 0
  /\ exits = 0 /\ exitAsked = 0 /\ exitSent = 0
  /\ top = 0
  /\ opening = [d \in Days |-> None]
  /\ lost = FALSE /\ unsaved = FALSE
  /\ starts = 0 /\ failures = 0

-----------------------------------------------------------------------------
(* The calendar and the process.                                           *)

Midnight ==
  /\ day + 1 \in Days
  /\ day' = day + 1
  /\ UNCHANGED <<storeVars, pc, guardVars, cycleVars, historyVars>>

(* The first half of _build_risk_manager: read the equity and the date,    *)
(* keep the first equity of the day.                                       *)
StartDay(e) ==
  /\ pc = "down"
  /\ starts < MaxStarts
  /\ starts' = starts + 1
  /\ pc' = "starting"
  /\ startDay' = day
  /\ read' = e
  /\ storedStart' = IF storedStart[day] = None
                    THEN [storedStart EXCEPT ![day] = e] ELSE storedStart
  /\ opening' = IF opening[day] = None
                THEN [opening EXCEPT ![day] = e] ELSE opening
  /\ UNCHANGED <<day, storedPeak, start, peak, halted, cycleVars,
                 top, lost, unsaved, failures>>

\* Mutant: the stored high-water mark is not read back.
StartPeakForgets ==
  LET opened == storedStart[startDay]
      high   == Larger(opened, read) IN
  /\ pc = "starting"
  /\ storedPeak' = high
  /\ start' = IF opened > 0 THEN opened ELSE 1
  /\ peak'  = IF high > 0 THEN high ELSE start'
  /\ halted' = FALSE
  /\ pc' = "idle"
  /\ top' = Larger(top, high)
  /\ UNCHANGED <<day, storedStart, startDay, read, cycleVars,
                 opening, lost, unsaved, starts, failures>>

(* The second half: the high-water mark is the largest of the stored one,  *)
(* the start of the day and the equity read; then a guard without a halt.  *)
StartPeak ==
  LET opened == storedStart[startDay]
      high   == Larger(storedPeak, Larger(opened, read)) IN
  /\ pc = "starting"
  /\ storedPeak' = high
  /\ start' = IF opened > 0 THEN opened ELSE 1
  /\ peak'  = IF high > 0 THEN high ELSE start'
  /\ halted' = FALSE
  /\ pc' = "idle"
  /\ top' = Larger(top, Larger(opened, read))
  /\ UNCHANGED <<day, storedStart, startDay, read, cycleVars,
                 opening, lost, unsaved, starts, failures>>

Crash ==
  /\ pc # "down"
  /\ pc' = "down"
  /\ lost' = FALSE
  /\ equity' = 0 /\ account' = NoSnapshot /\ NoApprovals
  /\ UNCHANGED <<day, storeVars, guardVars, top, opening, unsaved,
                 starts, failures>>

-----------------------------------------------------------------------------
(* The circuit breaker, PortfolioRiskGuard.update.                         *)

DailyLossHit(e, s)   == 100 * e <= (100 - DailyLoss) * s
DrawdownHit(e, p)    == 100 * e <= (100 - MaxDrawdown) * p
LimitHit(e, p)       == DailyLossHit(e, start) \/ DrawdownHit(e, p)

(* The same limits over what the account has been worth, whatever the      *)
(* process remembers of it.                                                *)
AtALoss(e) ==
  \/ opening[startDay] > 0 /\ DailyLossHit(e, opening[startDay])
  \/ top > 0 /\ ~unsaved /\ DrawdownHit(e, Larger(top, e))

\* Mutant: the halt follows the equity instead of staying.
BeginCycleResumes(e, a) ==
  LET high == Larger(peak, e) IN
  /\ pc = "idle"
  /\ pc' = "cycle"
  /\ peak' = high
  /\ storedPeak' = IF e > peak THEN e ELSE storedPeak
  /\ halted' = LimitHit(e, high)
  /\ equity' = e /\ account' = a /\ NoApprovals
  /\ top' = Larger(top, e)
  /\ lost' = (lost \/ AtALoss(e))
  /\ UNCHANGED <<day, storedStart, startDay, read, start,
                 opening, unsaved, starts, failures>>

(* _apply_risk reads the account and begins the cycle; a new peak is       *)
(* persisted before the limits are tested.  A halt stays.                  *)
BeginCycle(e, a) ==
  LET high == Larger(peak, e) IN
  /\ pc = "idle"
  /\ pc' = "cycle"
  /\ peak' = high
  /\ storedPeak' = IF e > peak THEN e ELSE storedPeak
  /\ halted' = (halted \/ LimitHit(e, high))
  /\ equity' = e /\ account' = a /\ NoApprovals
  /\ top' = Larger(top, e)
  /\ lost' = (lost \/ AtALoss(e))
  /\ UNCHANGED <<day, storedStart, startDay, read, start,
                 opening, unsaved, starts, failures>>

(* The new peak is in memory when its write raises: the exception ends the *)
(* cycle and nothing writes that peak again.                               *)
PeakWriteFails(e) ==
  /\ pc = "idle"
  /\ e > peak
  /\ failures < MaxFailures
  /\ failures' = failures + 1
  /\ peak' = e
  /\ top' = Larger(top, e)
  /\ unsaved' = TRUE
  /\ UNCHANGED <<day, storeVars, pc, startDay, read, start, halted, cycleVars,
                 opening, lost, starts>>

-----------------------------------------------------------------------------
(* The gate, RiskManager.assess and Planner._round_to_market_steps.        *)

(* Shares of the symbol the snapshot shows (by_symbol.get).                *)
CurrentQty == account.held

(* max_qty_for_exposure, floored to whole shares.                          *)
MaxAdd ==
  LET most == (equity * MaxPerSymbol) \div (100 * account.price) IN
  IF most > CurrentQty THEN most - CurrentQty ELSE 0

(* fixed_fractional_qty at the assumed stop.                               *)
QtyRisk == (equity * RiskPerTrade) \div (account.price * AssumedStop)

(* The quantity after both caps; a risk quantity of zero caps nothing.     *)
Sized(q) ==
  LET capped == Smaller(q, MaxAdd) IN
  IF QtyRisk > 0 THEN Smaller(capped, QtyRisk) ELSE capped

(* PortfolioRiskGuard.can_open, over the value of the symbol and the value *)
(* of everything: the heat is what a stop on all of it would cost.         *)
CanOpen(symbolValue, grossValue) ==
  /\ ~halted
  /\ 100 * symbolValue <= MaxPerSymbol * equity
  /\ grossValue * AssumedStop <= MaxHeat * equity

(* What every risk-increasing intent has to pass first.                    *)
MayOpen == ~halted /\ account.quoted /\ equity > 0

\* round_qty: down to the lot.
Rounded(q) == IF account.lot = 0 THEN q ELSE (q \div account.lot) * account.lot

\* Mutant: the heat before the buy instead of after it.
BuyPassesHeatBefore(q) ==
  /\ MayOpen
  /\ MaxAdd > 0
  /\ CanOpen((CurrentQty + Sized(q)) * account.price, account.gross)

BuyPasses(q) ==
  /\ MayOpen
  /\ MaxAdd > 0
  /\ CanOpen((CurrentQty + Sized(q)) * account.price,
             account.gross + Sized(q) * account.price)

PutPasses(c) ==
  /\ MayOpen
  /\ CanOpen(c, account.gross + c)

(* One more intent of the cycle.                                           *)
Assess ==
  /\ pc = "cycle"
  /\ intents < MaxIntents
  /\ intents' = intents + 1
  /\ UNCHANGED <<day, storeVars, pc, guardVars, equity, account, historyVars>>

ApproveBuy(q) ==
  /\ Assess
  /\ BuyPasses(q)
  /\ Rounded(Sized(q)) > 0
  /\ buys' = buys + 1
  /\ bought' = bought + Rounded(Sized(q))
  /\ UNCHANGED <<puts, pledged, exits, exitAsked, exitSent>>

ApprovePut(c) ==
  /\ Assess
  /\ PutPasses(c)
  /\ puts' = puts + 1
  /\ pledged' = pledged + c
  /\ UNCHANGED <<buys, bought, exits, exitAsked, exitSent>>

(* An intent that increases the risk and does not pass.                    *)
Veto ==
  /\ Assess
  /\ \/ \E q \in Asked : ~BuyPasses(q) \/ Rounded(Sized(q)) = 0
     \/ \E c \in Collaterals : ~PutPasses(c)
  /\ UNCHANGED <<buys, bought, puts, pledged, exits, exitAsked, exitSent>>

\* Mutant: a halt holds sales back as well.
PassExitUnlessHalted(q) ==
  /\ Assess
  /\ exits' = exits + 1
  /\ exitAsked' = exitAsked + q
  /\ exitSent' = exitSent + (IF halted THEN 0 ELSE Rounded(q))
  /\ UNCHANGED <<buys, bought, puts, pledged>>

(* A sale, or a trailing stop, which is one: it passes the gate and is     *)
(* still rounded to the lot.                                               *)
PassExit(q) ==
  /\ Assess
  /\ exits' = exits + 1
  /\ exitAsked' = exitAsked + q
  /\ exitSent' = exitSent + Rounded(q)
  /\ UNCHANGED <<buys, bought, puts, pledged>>

EndCycle ==
  /\ pc = "cycle"
  /\ pc' = "idle"
  /\ equity' = 0 /\ account' = NoSnapshot /\ NoApprovals
  /\ UNCHANGED <<day, storeVars, guardVars, historyVars>>

-----------------------------------------------------------------------------
Next ==
  \/ Midnight
  \/ \E e \in Equities : StartDay(e)
  \/ StartPeak
  \/ Crash
  \/ \E e \in Equities, a \in Accounts : BeginCycle(e, a)
  \/ \E e \in Equities : PeakWriteFails(e)
  \/ \E q \in Asked : ApproveBuy(q)
  \/ \E c \in Collaterals : ApprovePut(c)
  \/ Veto
  \/ \E q \in Asked : PassExit(q)
  \/ EndCycle

Spec == Init /\ [][Next]_vars

-----------------------------------------------------------------------------
(* Properties.                                                             *)

(* Every variable keeps its type: the two figures the ratios of            *)
(* PortfolioRiskGuard.update are taken over are never zero.                *)
TypeOK ==
  /\ day \in Days
  /\ storedStart \in [Days -> Nat \union {None}]
  /\ storedPeak \in Nat
  /\ pc \in {"down", "starting", "idle", "cycle"}
  /\ startDay \in Days
  /\ read \in Nat
  /\ start \in Nat \ {0}
  /\ peak \in Nat \ {0}
  /\ halted \in BOOLEAN
  /\ equity \in Nat
  /\ account \in Snapshot
  /\ intents \in 0..MaxIntents
  /\ buys \in Nat /\ bought \in Nat
  /\ puts \in Nat /\ pledged \in Nat
  /\ exits \in Nat /\ exitAsked \in Nat /\ exitSent \in Nat
  /\ top \in Nat
  /\ opening \in [Days -> Nat \union {None}]
  /\ lost \in BOOLEAN /\ unsaved \in BOOLEAN
  /\ starts \in 0..MaxStarts
  /\ failures \in 0..MaxFailures

(* Whatever crashes and restarts happened, a running guard measures the    *)
(* drawdown from the highest equity any start or cycle has ever seen,      *)
(* unless a write of the peak failed (main.py, "risk_peak_equity").        *)
PeakRemembered ==
  pc \in {"idle", "cycle"} /\ ~unsaved => peak >= top

(* Once a cycle of this process stood at a loss limit, measured from the   *)
(* first equity of the day it started on or from the highest equity ever   *)
(* seen, it approves no buy and no short put any more, even after the      *)
(* equity has recovered.                                                   *)
LossStopsRisk == lost => buys = 0 /\ puts = 0

(* n buys approved in one cycle, each assessed against the same snapshot,  *)
(* take the symbol to at most n times its limit: one buy to the limit.     *)
SymbolWithinLimit ==
  (buys * account.held + bought) * account.price * 100
    <= buys * MaxPerSymbol * equity

(* Likewise for the portfolio heat over all buys and short puts.           *)
HeatWithinLimit ==
  ((buys + puts) * account.gross + bought * account.price + pledged) * AssumedStop
    <= (buys + puts) * MaxHeat * equity

(* As soon as the risk budget of one trade covers a share, no buy risks    *)
(* more than that budget down to the assumed stop.                         *)
TradeRiskWithinBudget ==
  QtyRisk > 0 =>
    bought * account.price * AssumedStop <= buys * RiskPerTrade * equity

(* What a cycle approves against one snapshot exceeds no limit by more     *)
(* than the number of its approvals: of the symbol, of the portfolio heat, *)
(* of the risk of one trade.                                               *)
ApprovalsWithinLimits ==
  SymbolWithinLimit /\ HeatWithinLimit /\ TradeRiskWithinBudget

(* No halt, loss, missing quote or empty account holds a sale back: it     *)
(* leaves whole but for less than one lot.                                 *)
ExitsPass ==
  exitAsked <= exitSent + exits * (IF account.lot = 0 THEN 0 ELSE account.lot - 1)
=============================================================================
