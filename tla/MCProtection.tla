---------------------------- MODULE MCProtection ----------------------------
(* Protection over two wheels of one and of two contracts.  The cash pays   *)
(* for the first put only, until its shares are sold above their strike.    *)
EXTENDS Protection

CONSTANTS ko, pep

MCContracts == [s \in Wheeled |-> IF s = ko THEN 1 ELSE 2]
MCTarget == [s \in Wheeled |-> IF s = ko THEN 2 ELSE 5]
MCStrike == [s \in Wheeled |-> IF s = ko THEN 2 ELSE 6]
MCWorth  == [s \in Symbols |-> 3]
=============================================================================
