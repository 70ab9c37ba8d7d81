------------------------- MODULE MC_ClearingHouse -------------------------
(***************************************************************************)
(* Values for the constants of ClearingHouse: 3-bit balances, so that a    *)
(* credit can wrap around, and batches over three accounts of which any    *)
(* may be missing: every pair of obligations, and chains of three in which *)
(* an account can pay only after it has been paid.                         *)
(***************************************************************************)
EXTENDS ClearingHouse

CONSTANTS A, B, C, S

MCAccounts        == {A, B, C}
MCInitialBalances == {0, 3}
MCHalf            == 4

Ob(d, r, pay) == NetObligation(S, d, r, 1, pay)

MCObligations == {Ob(A, B, 3), Ob(A, B, -2), Ob(B, C, 2), Ob(B, A, 1), Ob(C, A, 3), Ob(C, C, 3)}

MCBatches ==
    UNION {[1..n -> MCObligations] : n \in 1..2}
    \cup {<<Ob(A, B, 3), Ob(B, C, 3), Ob(C, A, 3)>>,
          <<Ob(C, A, 3), Ob(B, C, 3), Ob(A, B, 3)>>,
          <<Ob(A, B, 1), Ob(A, C, 1), Ob(A, B, 1)>>}
=============================================================================
