------------------------ MODULE MC_CollateralAccount ------------------------
(***************************************************************************)
(* All four types, rates in tenths, and 7-bit values: three units or six   *)
(* fit with their products, a deposit of the largest value makes the next  *)
(* one wrap.                                                               *)
(***************************************************************************)
EXTENDS CollateralAccount

MCType == {"Cash", "GovernmentBond", "CorporateBond", "Equity"}

Rates(cash, gov_bond, corp_bond, equity) ==
    [ct \in MCType |-> CASE ct = "Cash" -> cash
                         [] ct = "GovernmentBond" -> gov_bond
                         [] ct = "CorporateBond" -> corp_bond
                         [] ct = "Equity" -> equity]

MCHaircuts == {Rates(0, 0, 1, 3), Rates(0, 1, 5, 10)}
MCLimits   == {Rates(10, 10, 5, 3), Rates(4, 3, 2, 0)}
MCAmounts  == {-1, 1, 3, 63}
MCHalf     == 64
=============================================================================
