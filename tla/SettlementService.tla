------------------------- MODULE SettlementService -------------------------
(***************************************************************************)
(* What the pipeline promises to those who trade, without netting engine,  *)
(* cycles or reports: in a cycle, positions are built up by trades; then   *)
(* the cycle closes with obligations that deliver the positions;           *)
(* the obligations are settled one by one, each of them entirely or not at *)
(* all, and refused only if the deliverer cannot pay; then the next cycle  *)
(* begins with nothing left over.  Settlement implements this.             *)
(***************************************************************************)
EXTENDS Obligations, Sequences

CONSTANTS
    Accounts, Symbols, Quantities,
    Modulus,    \* the number of values of a balance
    UnitModulus \* the number of values of a quantity

VARIABLES
    phase,      \* "trading" or "settling"
    position,   \* units of each symbol the trades of the cycle gave each account
    pending,    \* the obligations not settled yet
    balance

vars == <<phase, position, pending, balance>>

Flat == [s \in Symbols |-> [a \in Accounts |-> 0]]

Init ==
    /\ phase = "trading"
    /\ position = Flat
    /\ pending = <<>>
    /\ balance \in [Accounts -> Int]

Trade(s, buyer, seller, quantity) ==
    /\ phase = "trading"
    /\ position' = [position EXCEPT ![s] =
                       [a \in Accounts |-> position[s][a]
                                             + (IF a = buyer THEN quantity ELSE 0)
                                             - (IF a = seller THEN quantity ELSE 0)]]
    /\ UNCHANGED <<phase, pending, balance>>

Close ==
    /\ phase = "trading"
    /\ phase' = "settling"
    /\ \A s \in Symbols, a \in Accounts :
          (NetUnits(pending', s, a) - position[s][a]) % UnitModulus = 0
    /\ UNCHANGED <<position, balance>>

Take ==
    /\ phase = "settling"
    /\ pending # <<>>
    /\ pending' = Tail(pending)
    /\ UNCHANGED <<phase, position>>

(***************************************************************************)
(* The deliverer is debited and the receiver credited, up to the width of  *)
(* a balance; nobody else's balance changes.                               *)
(***************************************************************************)
Settle ==
    /\ Take
    /\ balance' \in [Accounts -> Int]
    /\ LET ob     == Head(pending)
           due(a) == Into(ob, a, ob.net_payment) - OutOf(ob, a, ob.net_payment)
       IN  \A a \in Accounts :
              IF a \in {ob.deliverer, ob.receiver}
              THEN (balance'[a] - balance[a] - due(a)) % Modulus = 0
              ELSE balance'[a] = balance[a]

Refuse ==
    /\ Take
    /\ LET ob == Head(pending) IN balance[ob.deliverer] < ob.net_payment
    /\ UNCHANGED balance

Reopen ==
    /\ phase = "settling"
    /\ pending = <<>>
    /\ phase' = "trading"
    /\ position' = Flat
    /\ UNCHANGED <<pending, balance>>

Next ==
    \/ \E s \in Symbols, buyer, seller \in Accounts, q \in Quantities : Trade(s, buyer, seller, q)
    \/ Close
    \/ Settle
    \/ Refuse
    \/ Reopen

Spec == Init /\ [][Next]_vars
=============================================================================
