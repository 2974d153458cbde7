------------------------------ MODULE MCLadder ------------------------------
(* Ladder over two symbols: a stock whose anchor is configured and a crypto *)
(* asset whose anchor is the first price seen; two rungs and a stop.        *)
EXTENDS Ladder

CONSTANTS aapl, btc, range, down

MCConfigured == [s \in Symbols |-> IF s = aapl THEN 10 ELSE None]
MCDrop == [r \in 1..2 |-> 10 * r]

-----------------------------------------------------------------------------
(* strategies/ladder_buys.py:54-55: "se a tese quebrou (preco caiu alem do  *)
(* limite), liquida a escada inteira".  A ladder without a configured       *)
(* anchor takes the broken price as its new anchor, so a sale that is lost  *)
(* once is never asked for again.                                           *)
LaddersLiquidate == \A s \in Symbols : Broken(s) ~> ~Broken(s)
=============================================================================
