--------------------------- MODULE MC_Settlement ---------------------------
(***************************************************************************)
(* Values for the constants of Settlement.  Three unit trades make a cycle *)
(* of deliveries; two cycles show what one leaves to the next.  Two trades *)
(* at the higher price are more than a payment holds; no other width is    *)
(* reached, since NettingEngine and ClearingHouse are checked with narrow  *)
(* ones.                                                                   *)
(***************************************************************************)
EXTENDS Settlement

CONSTANT S1

MCAccounts        == 1..3
MCPrices          == {1, 3}
MCQuantities      == {1}
MCInitialBalances == {6}
=============================================================================
