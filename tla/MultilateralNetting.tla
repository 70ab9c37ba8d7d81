------------------------ MODULE MultilateralNetting ------------------------
(***************************************************************************)
(* Multilateral netting by cycle cancellation (netting.rs).  A call of     *)
(* multilateral_net groups the given obligations by symbol and takes the   *)
(* groups one at a time, in the arbitrary order of a HashMap.  In a group  *)
(* it cancels one cycle of the graph deliverer -> receiver after another   *)
(* until find_cycle returns None, then moves what is left to the result.   *)
(*                                                                         *)
(* Obligations keep their index in the argument: the code pushes them into *)
(* their group in order, so indices compare in a group as they do here.    *)
(***************************************************************************)
EXTENDS Obligations, Sequences

CONSTANTS
    Accounts,
    Symbols,
    NoSymbol,      \* not a symbol: no group is in work
    Arguments      \* the sequences of obligations multilateral_net is given

NetObligations == ObligationType(Symbols, Accounts, Nat, Int)

ASSUME MultilateralAssumption ==
    /\ NoSymbol \notin Symbols
    /\ Arguments \subseteq Seq(NetObligations)

VARIABLES
    argument,   \* history: the obligations of the current call
    obs,        \* the same obligations, as far as cycles were cancelled
    todo,       \* symbols whose group is not finished
    current,    \* the symbol of the group in work, or NoSymbol
    result      \* the sequence the call returns

vars == <<argument, obs, todo, current, result>>

Returned == todo = {}

Init ==
    /\ argument = <<>>
    /\ obs = <<>>
    /\ todo = {}
    /\ current = NoSymbol
    /\ result = <<>>

multilateral_net(obligations) ==
    /\ Returned
    /\ argument' = obligations
    /\ obs' = obligations
    /\ todo' = {obligations[i].symbol : i \in DOMAIN obligations}
    /\ current' = NoSymbol
    /\ result' = <<>>

NextGroup(s) ==
    /\ current = NoSymbol
    /\ s \in todo
    /\ current' = s
    /\ UNCHANGED <<argument, obs, todo, result>>

-----------------------------------------------------------------------------
(***************************************************************************)
(* find_cycle.  From a start account the depth-first search tries edges in *)
(* index order, never revisits an account of its path, and backtracks, so  *)
(* what it returns is the simple cycle through start whose sequence of     *)
(* indices is lexicographically least.  (Module CycleSearch checks this    *)
(* against the recursion of dfs_find_cycle.)  The accounts are tried as    *)
(* start in the arbitrary order of a HashMap: any account on a cycle may   *)
(* be the first one that succeeds.                                         *)
(***************************************************************************)
Edges(s) == {i \in DOMAIN obs : obs[i].symbol = s /\ obs[i].net_quantity > 0}

\* Mutants: the path need not close; a self-obligation is no cycle.
IsCycle_Open(c, start) ==
    /\ obs[c[1]].deliverer = start
    /\ \A k \in 1..Len(c)-1 : obs[c[k]].receiver = obs[c[k+1]].deliverer
    /\ \A j, k \in 1..Len(c) : obs[c[j]].deliverer = obs[c[k]].deliverer => j = k

IsCycle_NoSelf(c, start) ==
    /\ Len(c) > 1
    /\ IsCycle_Open(c, start)
    /\ obs[c[Len(c)]].receiver = start

IsCycle(c, start) ==
    /\ obs[c[1]].deliverer = start
    /\ obs[c[Len(c)]].receiver = start
    /\ \A k \in 1..Len(c)-1 : obs[c[k]].receiver = obs[c[k+1]].deliverer
    /\ \A j, k \in 1..Len(c) : obs[c[j]].deliverer = obs[c[k]].deliverer => j = k

Paths(s) == UNION {[1..n -> Edges(s)] : n \in 1..Cardinality(Edges(s))}

Cycles(s, start) == {c \in Paths(s) : IsCycle(c, start)}

Precedes(c, d) ==
    \E k \in DOMAIN c \cap DOMAIN d :
        /\ \A j \in 1..k-1 : c[j] = d[j]
        /\ c[k] < d[k]

FoundFrom(s, start) ==
    {c \in Cycles(s, start) : \A d \in Cycles(s, start) \ {c} : Precedes(c, d)}

Starts(s) == {obs[i].deliverer : i \in Edges(s)}

find_cycle(s) == UNION {FoundFrom(s, start) : start \in Starts(s)}

-----------------------------------------------------------------------------
(***************************************************************************)
(* cancel_cycle.  Rust's integer division truncates toward zero.           *)
(***************************************************************************)
\* Mutant: division rounds down.
TruncDiv_Floor(n, d) == n \div d

TruncDiv(n, d) == IF n >= 0 THEN n \div d ELSE -((-n) \div d)

\* Mutants: the payment stays; the quantity stays.
Reduced_PaymentOnly(ob, quantity) ==
    [ob EXCEPT !.net_payment = @ - TruncDiv(@ * quantity, ob.net_quantity)]

Reduced_QuantityOnly(ob, quantity) == [ob EXCEPT !.net_quantity = @ - quantity]

Reduced(ob, quantity) ==
    [ob EXCEPT !.net_quantity = @ - quantity,
               !.net_payment  = @ - TruncDiv(@ * quantity, ob.net_quantity)]

\* Mutant: the first edge of the cycle is taken for the least.
IsMinimum_First(quantity, cycle) == quantity = obs[cycle[1]].net_quantity

IsMinimum(quantity, cycle) ==
    /\ \E k \in DOMAIN cycle : quantity = obs[cycle[k]].net_quantity
    /\ \A k \in DOMAIN cycle : quantity <= obs[cycle[k]].net_quantity

\* Mutant: the loop over the cycle stops one edge early.
cancel_cycle_AllButLast(cycle) ==
    \E k \in DOMAIN cycle :
        LET min_qty == obs[cycle[k]].net_quantity IN
        /\ IsMinimum(min_qty, cycle)
        /\ obs' = [i \in DOMAIN obs |->
                      IF \E j \in 1..Len(cycle)-1 : cycle[j] = i
                      THEN Reduced(obs[i], min_qty) ELSE obs[i]]

cancel_cycle(cycle) ==
    \E k \in DOMAIN cycle :
        LET min_qty == obs[cycle[k]].net_quantity IN
        /\ IsMinimum(min_qty, cycle)
        /\ obs' = [i \in DOMAIN obs |->
                      IF \E j \in DOMAIN cycle : cycle[j] = i
                      THEN Reduced(obs[i], min_qty) ELSE obs[i]]

CancelCycle ==
    /\ current # NoSymbol
    /\ \E cycle \in find_cycle(current) : cancel_cycle(cycle)
    /\ UNCHANGED <<argument, todo, current, result>>

(***************************************************************************)
(* The while loop ends: the live obligations of the group, in index order, *)
(* extend the result.                                                      *)
(***************************************************************************)
Retained(s) ==
    {kept \in [1..Cardinality(Edges(s)) -> Edges(s)] :
        \A j, k \in DOMAIN kept : j < k => kept[j] < kept[k]}

Retain ==
    /\ current # NoSymbol
    /\ find_cycle(current) = {}
    /\ \E kept \in Retained(current) :
          result' = result \o [k \in DOMAIN kept |-> obs[kept[k]]]
    /\ todo' = todo \ {current}
    /\ current' = NoSymbol
    /\ UNCHANGED <<argument, obs>>

Step ==
    \/ \E s \in Symbols : NextGroup(s)
    \/ CancelCycle
    \/ Retain

(***************************************************************************)
(* The call's variables are gone when it returns, and its result when the  *)
(* caller is done with it.                                                 *)
(***************************************************************************)
drop ==
    /\ Returned
    /\ argument' = <<>>
    /\ obs' = <<>>
    /\ todo' = {}
    /\ current' = NoSymbol
    /\ result' = <<>>

Next ==
    \/ /\ argument = <<>>
       /\ \E obligations \in Arguments : multilateral_net(obligations)
    \/ Step
    \/ drop

Spec == Init /\ [][Next]_vars

(***************************************************************************)
(* A call, once made, is a loop of the calling thread: it keeps stepping.  *)
(* Nothing obliges a caller to call.                                       *)
(***************************************************************************)
FairSpec == Spec /\ WF_vars(Step)

-----------------------------------------------------------------------------
\* While cycles are cancelled, every entry of a group stays an obligation: its quantity
\* never falls below zero.
TypeOK ==
    /\ argument \in Seq(NetObligations)
    /\ obs \in [DOMAIN argument -> NetObligations]
    /\ todo \subseteq Symbols
    /\ current \in todo \cup {NoSymbol}
    /\ result \in Seq(NetObligations)

(***************************************************************************)
(* Cancellation only shrinks obligations: parties and symbol stay, the     *)
(* quantity never exceeds the bilateral one (nor wraps below zero), the    *)
(* payment stays between zero and the bilateral one, and an obligation     *)
(* with nothing to deliver has nothing to pay.                             *)
(***************************************************************************)
Between(x, y, z) == (x <= y /\ y <= z) \/ (z <= y /\ y <= x)

Shrunk(ob, original) ==
    /\ ob.symbol = original.symbol
    /\ ob.deliverer = original.deliverer
    /\ ob.receiver = original.receiver
    /\ ob.net_quantity <= original.net_quantity
    /\ Between(0, ob.net_payment, original.net_payment)
    /\ ob.net_quantity = 0 /\ original.net_quantity > 0 => ob.net_payment = 0

OnlyShrinks == \A i \in DOMAIN obs : Shrunk(obs[i], argument[i])

(***************************************************************************)
(* Multilateral netting changes no account's net delivery in any symbol,   *)
(* whichever cycles it happens to cancel.  At any moment of the call the   *)
(* finished groups are in result, the others still in obs.                 *)
(***************************************************************************)
Pending == [i \in {j \in DOMAIN obs : obs[j].symbol \in todo} |-> obs[i]]

NetDeliveryPreserved ==
    \A s \in Symbols, a \in Accounts :
        NetUnits(result, s, a) + NetUnits(Pending, s, a) = NetUnits(argument, s, a)

(***************************************************************************)
(* "Payment is reduced proportionally to preserve the average price": the  *)
(* truncation leaves at most one tick per cancelled cycle on an obligation *)
(* and a cycle retires an edge, so what is left of a payment exceeds the   *)
(* proportional share by less than the number of obligations, and never    *)
(* falls below it.                                                         *)
(***************************************************************************)
Magnitude(n) == IF n < 0 THEN -n ELSE n

AveragePriceKept ==
    \A i \in DOMAIN obs :
        LET before == argument[i]
            excess == Magnitude(obs[i].net_payment) * before.net_quantity
                        - Magnitude(before.net_payment) * obs[i].net_quantity
        IN  excess \in 0 .. (Len(argument) - 1) * before.net_quantity

(***************************************************************************)
(* An edge gives up its own average price, so cancelling edges of          *)
(* different prices moves cash between accounts.  At one price for all     *)
(* obligations of a symbol it moves none: then every account is due the    *)
(* cash it was due before.                                                 *)
(***************************************************************************)
OnePrice(s, price) ==
    \A i \in DOMAIN argument :
        argument[i].symbol = s => argument[i].net_payment = price * argument[i].net_quantity

UniformPriceKeepsCash ==
    \A s \in Symbols, k \in {i \in DOMAIN argument : argument[i].net_quantity > 0} :
        OnePrice(s, TruncDiv(argument[k].net_payment, argument[k].net_quantity))
        => \A a \in Accounts :
              NetCash(result, s, a) + NetCash(Pending, s, a) = NetCash(argument, s, a)

(***************************************************************************)
(* When the call returns nothing circular is left: in each symbol, every   *)
(* group of accounts has a member that delivers to none of the others.     *)
(***************************************************************************)
Owes(s, a, b) ==
    \E i \in DOMAIN result : /\ result[i].symbol = s
                             /\ result[i].deliverer = a
                             /\ result[i].receiver = b

NoCircularFlow ==
    Returned =>
        \A s \in Symbols : \A group \in (SUBSET Accounts) \ {{}} :
            \E a \in group : \A b \in group : ~Owes(s, a, b)

(***************************************************************************)
(* Every cancellation settles an obligation of the group in full and       *)
(* revives none: this is why the while loop of multilateral_net ends.      *)
(***************************************************************************)
Live == {i \in DOMAIN obs : obs[i].net_quantity > 0}

CancelRetiresAnEdge ==
    [][~Returned /\ obs' # obs => Live' \subseteq Live /\ Live' # Live]_vars

(***************************************************************************)
(* multilateral_net returns.                                               *)
(***************************************************************************)
CallReturns == ~Returned ~> Returned
=============================================================================
