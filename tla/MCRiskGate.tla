----------------------------- MODULE MCRiskGate -----------------------------
(* RiskGate over accounts at the edges of its limits: a symbol with no      *)
(* position, one below and one at its limit, a portfolio near its heat      *)
(* limit, a price the risk budget does not cover, and a missing quote.      *)
EXTENDS RiskGate

Account(h, g, p, k, l) ==
  [held |-> h, gross |-> g, price |-> p, quoted |-> k, lot |-> l]

MCAccounts ==
  { Account(0, 0, 5, TRUE, 2), Account(2, 10, 5, TRUE, 2),
    Account(2, 95, 5, TRUE, 0), Account(4, 20, 5, TRUE, 2),
    Account(0, 60, 11, TRUE, 0), Account(2, 10, 5, FALSE, 2) }

-----------------------------------------------------------------------------
(* config/risk.py:5 says of max_per_symbol "<= 20% do equity em um unico    *)
(* ativo".  Planner._apply_risk reads the positions once per cycle          *)
(* (agents/planner.py:101) and RiskManager assesses every intent against    *)
(* that list, so two buys of a symbol in one cycle, each within the limit,  *)
(* exceed it together.                                                      *)
SymbolNeverOverLimit ==
  buys > 0 =>
    100 * (account.held + bought) * account.price <= MaxPerSymbol * equity
=============================================================================
