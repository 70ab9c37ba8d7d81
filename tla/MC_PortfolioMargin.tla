------------------------- MODULE MC_PortfolioMargin -------------------------
(***************************************************************************)
(* 7-bit amounts and floats of 5 significant bits: payments above 32 are   *)
(* rounded on the way into a float, most products are rounded, two large   *)
(* payments saturate, and the least amount has no absolute value.  The     *)
(* first configuration is the nearest to MarginConfig's default; the       *)
(* second is dominated by its scenarios, of which one triples the price;   *)
(* the third has a floor and no scenarios; nothing of the fourth is        *)
(* positive.                                                               *)
(***************************************************************************)
EXTENDS PortfolioMargin

CONSTANTS A, B

MCAccounts  == {A, B}
MCSymmetry  == Permutations(MCAccounts)
MCWidth     == 6
MCPrecision == 5
MCPayments  == {-64, -37, -9, 5, 20, 63}

MCRate(num, den) == [num |-> num, den |-> den]

MCConfigs ==
    {[initial_margin_rate |-> MCRate(26, 512), variation_margin_rate |-> MCRate(1, 1),
      stress_scenarios |-> {MCRate(27, 32), MCRate(29, 32), MCRate(30, 32),
                            MCRate(17, 16), MCRate(18, 16), MCRate(19, 16)},
      margin_floor |-> 2],
     [initial_margin_rate |-> MCRate(1, 2), variation_margin_rate |-> MCRate(5, 8),
      stress_scenarios |-> {MCRate(3, 1), MCRate(0, 1)}, margin_floor |-> -1],
     [initial_margin_rate |-> MCRate(0, 1), variation_margin_rate |-> MCRate(31, 32),
      stress_scenarios |-> {}, margin_floor |-> 7],
     [initial_margin_rate |-> MCRate(-3, 8), variation_margin_rate |-> MCRate(-1, 1),
      stress_scenarios |-> {}, margin_floor |-> -5]}
=============================================================================
