------------------------- MODULE MC_NettingEngine -------------------------
(***************************************************************************)
(* Values for the constants of NettingEngine.  With quantities 1 and 3,    *)
(* prices -1 and 2 and three trades, pairs go flat with and without a      *)
(* residual payment, buy and sell through each other at different prices   *)
(* (which makes net payments negative), and, at the widths of the          *)
(* configurations, truncate a quantity (9 mod 8), saturate a payment       *)
(* (12 > 7) and wrap an accumulator around (18 > 15).                      *)
(***************************************************************************)
EXTENDS NettingEngine, TLC

CONSTANTS S1, S2

MCAccounts   == 1..3
MCSymbols    == {S1, S2}
MCPrices     == {-1, 2}
MCQuantities == {1, 3}
MCHalf       == 16

Symmetry == Permutations(MCSymbols)
=============================================================================
