------------------------ MODULE MC_DefaultWaterfall ------------------------
(***************************************************************************)
(* 4-bit amounts: every loss, and capacities that include an empty layer,  *)
(* a negative one, and the largest amount, so that totals saturate and a   *)
(* negative capacity can wrap the remaining loss.                          *)
(***************************************************************************)
EXTENDS DefaultWaterfall

MCHalf       == 8
MCCapacities == {-3, 0, 2, 7}
MCLosses     == -8..7
=============================================================================
