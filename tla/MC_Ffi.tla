------------------------------- MODULE MC_Ffi -------------------------------
(***************************************************************************)
(* Values for the constants of Ffi.  Unit trades of two accounts, one with *)
(* itself, make arrays of up to three obligations, in all orders; a length *)
(* has three values, so that one array has a length that does not fit.     *)
(* The caller makes up two obligations of its own, one of which charges    *)
(* the receiver.  The first waterfall saturates its total capacity, the    *)
(* second has a negative layer.                                            *)
(***************************************************************************)
EXTENDS Ffi

CONSTANTS S1, S2

MCRate(num, den) == [num |-> num, den |-> den]

MCSymbols           == {S1, S2}
MCAccounts          == {1, 2}
MCInitialRates      == {MCRate(1, 4)}
MCVariationRates    == {MCRate(1, 1)}
MCStressScenarios   == {MCRate(7, 8), MCRate(5, 4)}
MCWaterfallConfigs  == {<<0, 3, 0, 3, 3>>, <<-3, 2, 0, 0, 0>>}
MCTrade(s, b, a, p) == [symbol |-> s, buyer |-> b, seller |-> a, price |-> p, quantity |-> 1]
MCTrades            == {MCTrade(S1, 1, 2, 2), MCTrade(S1, 2, 1, 1), MCTrade(S1, 1, 1, 1),
                        MCTrade(S2, 1, 2, 1), MCTrade(S2, 2, 2, 1)}
MCCallerObligations == {NetObligation(S1, 1, 2, 1, -3), NetObligation(S1, 1, 2, 1, 2)}
=============================================================================
