------------------------- MODULE MC_ReplayVerifier -------------------------
(***************************************************************************)
(* Fields of 2 bits: of the clearing attempts two have counts that overlap *)
(* their neighbour's field, and two differ only in bits of the number of   *)
(* obligations that are shifted out of the payload.  Trade ids and counts  *)
(* coincide across kinds of events, and hashes make two failures different *)
(* in trade and reason indistinguishable (1 XOR 6 = 2 XOR 5).              *)
(***************************************************************************)
EXTENDS ReplayVerifier

MCTimestamps == {1, 2}
MCTradeIds   == {1, 2}
MCCounts     == {1}
MCClearings  == {<<2, 1, 1>>, <<18, 1, 1>>, <<5, 5, 0>>, <<5, 1, 4>>, <<3, 1, 1>>}
MCReasonHash == [reason \in {"funds", "account"} |-> IF reason = "funds" THEN 6 ELSE 5]
=============================================================================
