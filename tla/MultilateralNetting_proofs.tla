-------------------- MODULE MultilateralNetting_proofs --------------------
(***************************************************************************)
(* Proofs about MultilateralNetting, for any sets of accounts, symbols and *)
(* obligations.                                                            *)
(***************************************************************************)
EXTENDS MultilateralNetting, ArithmeticLemmas

-----------------------------------------------------------------------------
(***************************************************************************)
(* The arithmetic of a proportional reduction.                             *)
(***************************************************************************)
LEMMA DivBound ==
    ASSUME NEW n \in Nat, NEW q \in Nat \ {0}, NEW p \in Nat, n <= p * q
    PROVE  n \div q \in 0..p
<1> DEFINE d == n \div q
<1>1. d \in Int /\ n = q * d + (n % q) /\ n % q \in 0..(q - 1)
  OBVIOUS
<1>2. ASSUME d < 0 PROVE FALSE
  <2>1. q * d <= -q
    BY <1>1, <1>2
  <2> QED
    BY <1>1, <2>1
<1>3. ASSUME d > p PROVE FALSE
  <2>1. q * d >= q * (p + 1)
    BY <1>1, <1>3
  <2>2. q * (p + 1) = p * q + q
    OBVIOUS
  <2> QED
    BY <1>1, <2>1, <2>2
<1> QED
  BY <1>1, <1>2, <1>3

LEMMA ProductBound ==
    ASSUME NEW p \in Nat, NEW m \in Nat, NEW q \in Nat, m <= q
    PROVE  p * m \in Nat /\ p * m <= p * q
OBVIOUS

(***************************************************************************)
(* The reduction lies between zero and the payment, and is the payment     *)
(* when the whole quantity goes.                                           *)
(***************************************************************************)
LEMMA TruncDivBetween ==
    ASSUME NEW p \in Int, NEW m \in Nat, NEW q \in Nat \ {0}, m <= q
    PROVE  /\ TruncDiv(p * m, q) \in Int
           /\ Between(0, TruncDiv(p * m, q), p)
           /\ m = q => TruncDiv(p * m, q) = p
<1>1. CASE p >= 0
  <2>1. p * m \in Nat /\ p * m <= p * q
    BY <1>1, ProductBound
  <2>2. (p * m) \div q \in 0..p
    BY <1>1, <2>1, DivBound
  <2>3. ASSUME m = q PROVE (p * m) \div q = p
    BY <2>3
  <2> QED
    BY <1>1, <2>1, <2>2, <2>3 DEF TruncDiv, Between
<1>2. CASE p < 0
  <2>1. (-p) * m \in Nat /\ (-p) * m <= (-p) * q
    BY <1>2, ProductBound
  <2>2. ((-p) * m) \div q \in 0..(-p)
    BY <1>2, <2>1, DivBound
  <2>3. -(p * m) = (-p) * m
    OBVIOUS
  <2>4. ASSUME m = q PROVE ((-p) * m) \div q = -p
    BY <2>4
  <2>5. CASE m = 0
    <3>1. p * m = 0 /\ 0 \div q = 0 /\ m # q
      BY <2>5
    <3> QED
      BY <1>2, <3>1 DEF TruncDiv, Between
  <2>6. CASE m > 0
    <3>1. ~(p * m >= 0)
      BY <1>2, <2>6
    <3> QED
      BY <1>2, <2>2, <2>3, <2>4, <3>1 DEF TruncDiv, Between
  <2> QED
    BY <2>5, <2>6
<1> QED
  BY <1>1, <1>2

-----------------------------------------------------------------------------
(***************************************************************************)
(* One obligation of a cancelled cycle.                                    *)
(***************************************************************************)
LEMMA ReducedFields ==
    ASSUME NEW ob \in NetObligations, NEW m \in 1..ob.net_quantity
    PROVE  /\ Reduced(ob, m) \in NetObligations
           /\ Reduced(ob, m).symbol = ob.symbol
           /\ Reduced(ob, m).deliverer = ob.deliverer
           /\ Reduced(ob, m).receiver = ob.receiver
           /\ Reduced(ob, m).net_quantity = ob.net_quantity - m
           /\ Between(0, Reduced(ob, m).net_payment, ob.net_payment)
           /\ Reduced(ob, m).net_quantity = 0 => Reduced(ob, m).net_payment = 0
<1> DEFINE q == ob.net_quantity
           p == ob.net_payment
           t == TruncDiv(p * m, q)
<1>1. q \in Nat \ {0} /\ p \in Int /\ m \in Nat /\ m <= q
  BY DEF NetObligations, ObligationType
<1>2. t \in Int /\ Between(0, t, p) /\ (m = q => t = p)
  BY <1>1, TruncDivBetween
<1>3. Reduced(ob, m) = [ob EXCEPT !.net_quantity = q - m, !.net_payment = p - t]
  BY DEF Reduced
<1>4. /\ Reduced(ob, m).symbol = ob.symbol
      /\ Reduced(ob, m).deliverer = ob.deliverer
      /\ Reduced(ob, m).receiver = ob.receiver
      /\ Reduced(ob, m).net_quantity = q - m
      /\ Reduced(ob, m).net_payment = p - t
  BY <1>3 DEF NetObligations, ObligationType
<1>5. q - m \in Nat /\ p - t \in Int
  BY <1>1, <1>2
<1>6. Reduced(ob, m) \in NetObligations
  BY <1>3, <1>5 DEF NetObligations, ObligationType
<1>7. Between(0, p - t, p) /\ (q - m = 0 => p - t = 0)
  BY <1>1, <1>2 DEF Between
<1> QED
  BY <1>4, <1>6, <1>7

LEMMA ReducedShrinks ==
    ASSUME NEW ob \in NetObligations, NEW original \in NetObligations,
           Shrunk(ob, original), NEW m \in 1..ob.net_quantity
    PROVE  Shrunk(Reduced(ob, m), original)
<1>1. /\ ob.net_quantity \in Nat /\ original.net_quantity \in Nat
      /\ ob.net_payment \in Int /\ original.net_payment \in Int
      /\ Reduced(ob, m).net_payment \in Int
  BY ReducedFields DEF NetObligations, ObligationType
<1> QED
  BY <1>1, ReducedFields DEF Shrunk, Between

(***************************************************************************)
(* What CancelCycle does to obs, without the search: some live obligations *)
(* are reduced by the least quantity among them.                           *)
(***************************************************************************)
LEMMA CancelReduces ==
    ASSUME TypeOK, CancelCycle
    PROVE  \E E \in SUBSET Live, bottleneck \in Live :
              LET m == obs[bottleneck].net_quantity IN
              /\ bottleneck \in E
              /\ \A i \in E : m \in 1..obs[i].net_quantity
              /\ obs' = [i \in DOMAIN obs |->
                            IF i \in E THEN Reduced(obs[i], m) ELSE obs[i]]
<1>1. PICK cycle \in find_cycle(current) : cancel_cycle(cycle)
  BY DEF CancelCycle
<1>2. cycle \in Paths(current)
  BY <1>1 DEF find_cycle, FoundFrom, Cycles
<1>3. PICK n : cycle \in [1..n -> Edges(current)]
  BY <1>2 DEF Paths
<1>4. PICK k \in DOMAIN cycle :
        /\ IsMinimum(obs[cycle[k]].net_quantity, cycle)
        /\ obs' = [i \in DOMAIN obs |->
                      IF \E j \in DOMAIN cycle : cycle[j] = i
                      THEN Reduced(obs[i], obs[cycle[k]].net_quantity) ELSE obs[i]]
  BY <1>1 DEF cancel_cycle
<1> DEFINE E == {i \in Live : \E j \in DOMAIN cycle : cycle[j] = i}
           m == obs[cycle[k]].net_quantity
<1>5. \A j \in DOMAIN cycle : cycle[j] \in Live
  BY <1>3 DEF Edges, Live
<1>6. \A i \in DOMAIN obs : obs[i].net_quantity \in Nat
  BY DEF TypeOK, NetObligations, ObligationType
<1>7. \A i \in E : m \in 1..obs[i].net_quantity
  BY <1>4, <1>5, <1>6 DEF IsMinimum, Live
<1>8. obs' = [i \in DOMAIN obs |-> IF i \in E THEN Reduced(obs[i], m) ELSE obs[i]]
  BY <1>4, <1>5
<1>9. E \in SUBSET Live /\ cycle[k] \in Live /\ cycle[k] \in E
  BY <1>5
<1> WITNESS E \in SUBSET Live, cycle[k] \in Live
<1> QED
  BY <1>7, <1>8, <1>9

-----------------------------------------------------------------------------
(***************************************************************************)
(* The inductive invariant: types, and that obligations only shrink.       *)
(***************************************************************************)
IInv == TypeOK /\ OnlyShrinks

LEMMA ShrunkSelf ==
    ASSUME NEW ob \in NetObligations
    PROVE  Shrunk(ob, ob)
<1>1. ob.net_quantity \in Nat /\ ob.net_payment \in Int
  BY DEF NetObligations, ObligationType
<1> QED
  BY <1>1 DEF Shrunk, Between

LEMMA InitInv == Init => IInv
<1> SUFFICES ASSUME Init PROVE IInv
  OBVIOUS
<1>1. DOMAIN obs = {} /\ DOMAIN argument = {}
  BY DEF Init
<1>2. argument \in Seq(NetObligations) /\ result \in Seq(NetObligations)
  BY DEF Init
<1>3. obs \in [DOMAIN argument -> NetObligations]
  BY <1>1 DEF Init
<1> QED
  BY <1>1, <1>2, <1>3 DEF Init, IInv, TypeOK, OnlyShrinks

(***************************************************************************)
(* What Retain appends is a sequence of obligations.                       *)
(***************************************************************************)
LEMMA RetainedType ==
    ASSUME TypeOK, NEW s, NEW kept \in Retained(s)
    PROVE  [k \in DOMAIN kept |-> obs[kept[k]]] \in Seq(NetObligations)
<1> DEFINE n == Cardinality(Edges(s))
<1>1. Edges(s) \subseteq 1..Len(argument) /\ Len(argument) \in Nat
  BY DEF Edges, TypeOK
<1>2. IsFiniteSet(Edges(s))
  <2>1. IsFiniteSet(1..Len(argument))
    BY <1>1, FS_Interval
  <2> QED
    BY <1>1, <2>1, FS_Subset
<1>3. n \in Nat
  BY <1>2, FS_CardinalityType
<1>4. kept \in [1..n -> Edges(s)]
  BY DEF Retained
<1>5. \A k \in 1..n : obs[kept[k]] \in NetObligations
  BY <1>4 DEF Edges, TypeOK
<1> HIDE DEF n
<1> QED
  BY <1>3, <1>4, <1>5

LEMMA CallInv ==
    ASSUME NEW obligations \in Arguments, multilateral_net(obligations)
    PROVE  IInv'
<1>1. obligations \in Seq(NetObligations)
  BY MultilateralAssumption
<1>2. /\ argument' = obligations
      /\ obs' = obligations
      /\ todo' = {obligations[i].symbol : i \in DOMAIN obligations}
      /\ current' = NoSymbol
      /\ result' = <<>>
  BY DEF multilateral_net
<1>3. \A i \in DOMAIN obligations : obligations[i] \in NetObligations
  BY <1>1
<1>4. \A i \in DOMAIN obligations : obligations[i].symbol \in Symbols
  BY <1>3 DEF NetObligations, ObligationType
<1>5. obs' \in [DOMAIN argument' -> NetObligations]
  BY <1>1, <1>2
<1>6. todo' \subseteq Symbols
  BY <1>2, <1>4
<1>7. OnlyShrinks'
  BY <1>2, <1>3, ShrunkSelf DEF OnlyShrinks
<1>8. result' \in Seq(NetObligations)
  BY <1>2
<1> QED
  BY <1>1, <1>2, <1>5, <1>6, <1>7, <1>8 DEF IInv, TypeOK

LEMMA CancelInv ==
    ASSUME IInv, CancelCycle
    PROVE  IInv'
<1>1. PICK E \in SUBSET Live, bottleneck \in Live :
        LET m == obs[bottleneck].net_quantity IN
        /\ bottleneck \in E
        /\ \A i \in E : m \in 1..obs[i].net_quantity
        /\ obs' = [i \in DOMAIN obs |-> IF i \in E THEN Reduced(obs[i], m) ELSE obs[i]]
  BY CancelReduces DEF IInv
<1>2. /\ argument' = argument
      /\ todo' = todo
      /\ current' = current
      /\ result' = result
  BY DEF CancelCycle
<1>3. \A i \in DOMAIN obs : /\ obs[i] \in NetObligations
                            /\ argument[i] \in NetObligations
                            /\ Shrunk(obs[i], argument[i])
  BY DEF IInv, TypeOK, OnlyShrinks
<1>4. \A i \in DOMAIN obs : obs'[i] \in NetObligations /\ Shrunk(obs'[i], argument[i])
  BY <1>1, <1>3, ReducedFields, ReducedShrinks
<1>5. DOMAIN obs' = DOMAIN obs /\ DOMAIN obs = DOMAIN argument
  BY <1>1 DEF IInv, TypeOK
<1>6. obs' \in [DOMAIN argument -> NetObligations]
  BY <1>1, <1>4, <1>5
<1>7. OnlyShrinks'
  BY <1>2, <1>4, <1>5 DEF OnlyShrinks
<1> QED
  BY <1>2, <1>6, <1>7 DEF IInv, TypeOK

(***************************************************************************)
(* After a call everything is as before the first one.                     *)
(***************************************************************************)
LEMMA DropInits == drop => Init'
BY DEF drop, Init

LEMMA InitInvNext == Init' => IInv'
BY InitInv, PTL

LEMMA NextInv == IInv /\ [Next]_vars => IInv'
<1> SUFFICES ASSUME IInv, [Next]_vars PROVE IInv'
  OBVIOUS
<1>1. ASSUME NEW obligations \in Arguments, multilateral_net(obligations)
      PROVE  IInv'
  BY <1>1, CallInv
<1>2. ASSUME NEW s \in Symbols, NextGroup(s)
      PROVE  IInv'
  BY <1>2 DEF NextGroup, IInv, TypeOK, OnlyShrinks
<1>3. CASE CancelCycle
  BY <1>3, CancelInv
<1>4. CASE Retain
  <2>1. PICK kept \in Retained(current) :
          result' = result \o [k \in DOMAIN kept |-> obs[kept[k]]]
    BY <1>4 DEF Retain
  <2>2. [k \in DOMAIN kept |-> obs[kept[k]]] \in Seq(NetObligations)
    BY RetainedType DEF IInv
  <2>3. result' \in Seq(NetObligations)
    BY <2>1, <2>2 DEF IInv, TypeOK
  <2>4. /\ todo' = todo \ {current}
        /\ current' = NoSymbol
        /\ argument' = argument
        /\ obs' = obs
    BY <1>4 DEF Retain
  <2> QED
    BY <2>3, <2>4 DEF IInv, TypeOK, OnlyShrinks
<1>5. CASE UNCHANGED vars
  BY <1>5 DEF vars, IInv, TypeOK, OnlyShrinks
<1>6. CASE drop
  BY <1>6, DropInits, InitInvNext
<1> QED
  BY <1>1, <1>2, <1>3, <1>4, <1>5, <1>6 DEF Next, Step

(***************************************************************************)
(* The types of the state of multilateral_net.                             *)
(***************************************************************************)
THEOREM TypeCorrect == Spec => []TypeOK
<1>1. IInv => TypeOK
  BY DEF IInv
<1> QED
  BY <1>1, InitInv, NextInv, PTL DEF Spec

(***************************************************************************)
(* Whatever cycles are found, in whatever order, cancelling them never     *)
(* makes an obligation larger, reverses a payment, or leaves a payment     *)
(* with nothing to deliver for it.                                         *)
(***************************************************************************)
THEOREM CancellationOnlyShrinks == Spec => []OnlyShrinks
<1>1. IInv => OnlyShrinks
  BY DEF IInv
<1> QED
  BY <1>1, InitInv, NextInv, PTL DEF Spec

-----------------------------------------------------------------------------
(***************************************************************************)
(* A step of the loop that changes an obligation is a cancellation, and    *)
(* settles its bottleneck in full.                                         *)
(***************************************************************************)
LEMMA CancelRetires ==
    ASSUME IInv, CancelCycle
    PROVE  Live' \subseteq Live /\ Live' # Live
<1>1. PICK E \in SUBSET Live, bottleneck \in Live :
        LET m == obs[bottleneck].net_quantity IN
        /\ bottleneck \in E
        /\ \A i \in E : m \in 1..obs[i].net_quantity
        /\ obs' = [i \in DOMAIN obs |-> IF i \in E THEN Reduced(obs[i], m) ELSE obs[i]]
  BY CancelReduces DEF IInv
<1>2. \A i \in DOMAIN obs : obs[i] \in NetObligations /\ obs[i].net_quantity \in Nat
  BY DEF IInv, TypeOK, NetObligations, ObligationType
<1>3. \A i \in DOMAIN obs : obs'[i].net_quantity <= obs[i].net_quantity
  BY <1>1, <1>2, ReducedFields
<1>4. obs'[bottleneck].net_quantity = 0
  BY <1>1, <1>2, ReducedFields DEF Live
<1>5. DOMAIN obs' = DOMAIN obs
  BY <1>1
<1>6. \A i \in DOMAIN obs : obs'[i].net_quantity \in Int
  BY <1>1, <1>2, ReducedFields
<1>7. Live' \subseteq Live
  BY <1>2, <1>3, <1>5, <1>6 DEF Live
<1>8. bottleneck \notin Live'
  BY <1>4 DEF Live
<1> QED
  BY <1>7, <1>8

(***************************************************************************)
(* Every cancellation removes an obligation from the finitely many live    *)
(* ones: the while loop cannot run forever, whatever find_cycle returns.   *)
(***************************************************************************)
THEOREM LoopMakesProgress == Spec => CancelRetiresAnEdge
<1>1. ASSUME IInv, [Next]_vars, ~Returned, obs' # obs
      PROVE  Live' \subseteq Live /\ Live' # Live
  <2>1. CancelCycle
    BY <1>1 DEF Next, Step, multilateral_net, NextGroup, Retain, drop, vars
  <2> QED
    BY <1>1, <2>1, CancelRetires
<1>2. IInv /\ [Next]_vars => [~Returned /\ obs' # obs => Live' \subseteq Live /\ Live' # Live]_vars
  BY <1>1
<1> QED
  BY <1>2, InitInv, NextInv, PTL DEF Spec, CancelRetiresAnEdge

-----------------------------------------------------------------------------
(***************************************************************************)
(* The search finds a cycle wherever there is one.  First, sequences that  *)
(* are written as functions on 1..n.                                       *)
(***************************************************************************)
LEMMA LengthOf ==
    ASSUME NEW n \in Nat, NEW S, NEW c \in [1..n -> S]
    PROVE  c \in Seq(S) /\ Len(c) = n
OBVIOUS

LEMMA FiniteEdges ==
    ASSUME TypeOK, NEW s
    PROVE  /\ Edges(s) \subseteq Nat \ {0}
           /\ IsFiniteSet(Edges(s)) /\ Cardinality(Edges(s)) \in Nat
<1>1. Edges(s) \subseteq 1..Len(argument) /\ Len(argument) \in Nat
  BY DEF Edges, TypeOK
<1>2. IsFiniteSet(1..Len(argument))
  BY <1>1, FS_Interval
<1>3. IsFiniteSet(Edges(s))
  BY <1>1, <1>2, FS_Subset
<1>4. QED
  BY <1>1, <1>3, FS_CardinalityType

(***************************************************************************)
(* A trail leads along edges to accounts of a group and leaves no account  *)
(* twice.  It has at most as many edges as the graph, so there is a        *)
(* longest one.                                                            *)
(***************************************************************************)
IsTrail(c, n, s, group) ==
    /\ c \in [1..n -> Edges(s)]
    /\ \A j \in 1..n : obs[c[j]].receiver \in group
    /\ \A j \in 1..n-1 : obs[c[j]].receiver = obs[c[j+1]].deliverer
    /\ \A j, k \in 1..n : obs[c[j]].deliverer = obs[c[k]].deliverer => j = k

LEMMA TrailLength ==
    ASSUME TypeOK, NEW s, NEW group, NEW n \in Nat, NEW c, IsTrail(c, n, s, group)
    PROVE  n <= Cardinality(Edges(s))
<1>1. c \in Injection(1..n, Edges(s))
  BY DEF IsTrail, Injection, IsInjective
<1>2. Cardinality(1..n) <= Cardinality(Edges(s))
  BY <1>1, FiniteEdges, FS_Injection
<1>3. Cardinality(1..n) = n
  BY 1 \in Int /\ n \in Int, FS_Interval
<1>4. QED
  BY <1>2, <1>3

LEMMA LongestTrail ==
    ASSUME TypeOK, NEW s, NEW group, group # {},
           \A a \in group : \E i \in Edges(s) : /\ obs[i].deliverer = a
                                                /\ obs[i].receiver \in group
    PROVE  \E m \in Nat \ {0} : /\ \E c : IsTrail(c, m, s, group)
                                /\ \A d : ~IsTrail(d, m + 1, s, group)
<1> DEFINE Lengths == {n \in Nat \ {0} : \E c : IsTrail(c, n, s, group)}
<1>1. 1 \in Lengths
  <2>1. PICK a \in group : TRUE
    OBVIOUS
  <2>2. PICK i \in Edges(s) : obs[i].receiver \in group
    BY <2>1
  <2>3. IsTrail([j \in 1..1 |-> i], 1, s, group)
    BY <2>2 DEF IsTrail
  <2>4. QED
    BY <2>3
<1>2. \A n \in Lengths : n <= Cardinality(Edges(s))
  BY TrailLength
<1>3. PICK m \in Lengths : \A n \in Lengths : n <= m
  <2>1. Lengths \in SUBSET Nat /\ Lengths # {}
    BY <1>1
  <2>2. Cardinality(Edges(s)) \in Nat
    BY FiniteEdges
  <2> HIDE DEF Lengths
  <2>3. QED
    BY <1>2, <2>1, <2>2, GreatestNatural
<1>4. ~(m + 1 <= m) /\ m + 1 \in Nat \ {0}
  OBVIOUS
<1>5. \A d : ~IsTrail(d, m + 1, s, group)
  BY <1>3, <1>4
<1>6. QED
  BY <1>5

(***************************************************************************)
(* The last account of a longest trail delivers to its group like any      *)
(* other; as no edge prolongs the trail, the account is already on it, and *)
(* the part of the trail from there on is a cycle.                         *)
(***************************************************************************)
LEMMA CycleExists ==
    ASSUME TypeOK, NEW s, NEW group, group # {},
           \A a \in group : \E i \in Edges(s) : /\ obs[i].deliverer = a
                                                /\ obs[i].receiver \in group
    PROVE  \E start \in Starts(s) : Cycles(s, start) # {}
<1>1. PICK m \in Nat \ {0} : /\ \E c : IsTrail(c, m, s, group)
                             /\ \A d : ~IsTrail(d, m + 1, s, group)
  BY LongestTrail
<1>2. PICK c : IsTrail(c, m, s, group)
  BY <1>1
<1> DEFINE last == obs[c[m]].receiver
<1>3. last \in group
  BY <1>2 DEF IsTrail
<1>4. PICK e \in Edges(s) : obs[e].deliverer = last /\ obs[e].receiver \in group
  BY <1>3
<1>5. PICK k \in 1..m : obs[c[k]].deliverer = last
  <2>1. SUFFICES ASSUME \A k \in 1..m : obs[c[k]].deliverer # last
                 PROVE  FALSE
    OBVIOUS
  <2> DEFINE d == [j \in 1..m+1 |-> IF j = m + 1 THEN e ELSE c[j]]
  <2>2. d \in [1..m+1 -> Edges(s)] /\ \A j \in 1..m+1 : obs[d[j]].receiver \in group
    BY <1>2, <1>4 DEF IsTrail
  <2>3. \A j \in 1..m : obs[d[j]].receiver = obs[d[j+1]].deliverer
    BY <1>2, <1>4 DEF IsTrail
  <2>4. \A j, l \in 1..m+1 : obs[d[j]].deliverer = obs[d[l]].deliverer => j = l
    BY <1>2, <1>4, <2>1 DEF IsTrail
  <2>5. (m + 1) - 1 = m
    OBVIOUS
  <2> HIDE DEF d
  <2>6. IsTrail(d, m + 1, s, group)
    BY <2>2, <2>3, <2>4, <2>5 DEF IsTrail
  <2>7. QED
    BY <1>1, <2>6
<1> DEFINE n == m - k + 1
           cycle == [j \in 1..n |-> c[j + k - 1]]
<1>6. n \in Nat \ {0} /\ n <= m
  OBVIOUS
<1>7. cycle \in [1..n -> Edges(s)]
  BY <1>2 DEF IsTrail
<1>8. Len(cycle) = n
  <2> HIDE DEF n, cycle
  <2>1. QED
    BY <1>6, <1>7, LengthOf
<1>9. cycle[1] = c[k] /\ cycle[n] = c[m]
  OBVIOUS
<1>10. \A j \in 1..n-1 : obs[cycle[j]].receiver = obs[cycle[j+1]].deliverer
  BY <1>2 DEF IsTrail
<1>11. \A i, j \in 1..n : obs[cycle[i]].deliverer = obs[cycle[j]].deliverer => i = j
  BY <1>2 DEF IsTrail
<1>12. IsCycle(cycle, last)
  <2> HIDE DEF n, cycle
  <2>1. QED
    BY <1>5, <1>8, <1>9, <1>10, <1>11 DEF IsCycle
<1>13. cycle \in Paths(s)
  <2>1. n \in 1..Cardinality(Edges(s))
    BY <1>2, <1>6, TrailLength, FiniteEdges
  <2> HIDE DEF n, cycle
  <2>2. QED
    BY <1>7, <2>1 DEF Paths
<1>14. last \in Starts(s)
  BY <1>4 DEF Starts
<1>15. cycle \in Cycles(s, last)
  BY <1>12, <1>13 DEF Cycles
<1>16. QED
  BY <1>14, <1>15

(***************************************************************************)
(* Among the cycles from one account one comes first: there are finitely   *)
(* many, none is the beginning of another, and Precedes is transitive.     *)
(***************************************************************************)
LEMMA FinitePaths ==
    ASSUME TypeOK, NEW s
    PROVE  IsFiniteSet(Paths(s))
<1> DEFINE N == Cardinality(Edges(s))
           Lengths == {[1..n -> Edges(s)] : n \in 1..N}
           e == [n \in 1..N |-> [1..n -> Edges(s)]]
<1>1. IsFiniteSet(1..N) /\ 1..N \subseteq Nat
  BY FiniteEdges, 1 \in Int, FS_Interval
<1>2. IsFiniteSet(Lengths)
  <2>1. e \in [1..N -> Lengths] /\ \A y \in Lengths : \E n \in 1..N : e[n] = y
    OBVIOUS
  <2> HIDE DEF e, Lengths
  <2>2. QED
    BY <1>1, <2>1, FiniteImage
<1>3. \A L \in Lengths : IsFiniteSet(L)
  <2>1. SUFFICES ASSUME NEW n \in 1..N  PROVE IsFiniteSet([1..n -> Edges(s)])
    OBVIOUS
  <2>2. n \in Int /\ 1 \in Int
    BY <1>1
  <2>3. IsFiniteSet(1..n)
    BY <2>2, FS_Interval
  <2>4. QED
    BY <2>3, FiniteEdges, FiniteFunctions
<1>4. IsFiniteSet(UNION Lengths)
  <2> HIDE DEF Lengths
  <2>1. QED
    BY <1>2, <1>3, FS_UNION
<1>5. QED
  BY <1>4 DEF Paths

LEMMA CycleShape ==
    ASSUME TypeOK, NEW s, NEW start, NEW c \in Cycles(s, start)
    PROVE  /\ Len(c) \in Nat \ {0} /\ c \in [1..Len(c) -> Edges(s)]
           /\ \A k \in 1..Len(c) : c[k] \in Int
           /\ obs[c[1]].deliverer = start
           /\ obs[c[Len(c)]].receiver = start
           /\ \A k \in 1..Len(c)-1 : obs[c[k]].receiver = obs[c[k+1]].deliverer
           /\ \A j, k \in 1..Len(c) : obs[c[j]].deliverer = obs[c[k]].deliverer => j = k
<1>1. PICK n \in 1..Cardinality(Edges(s)) : c \in [1..n -> Edges(s)]
  BY DEF Cycles, Paths
<1>2. n \in Nat \ {0}
  BY FiniteEdges
<1>3. Len(c) = n
  BY <1>1, <1>2, LengthOf
<1>4. \A k \in 1..n : c[k] \in Int
  BY <1>1, FiniteEdges
<1>5. QED
  BY <1>1, <1>2, <1>3, <1>4 DEF Cycles, IsCycle

LEMMA NoCycleBeginsAnother ==
    ASSUME TypeOK, NEW s, NEW start,
           NEW c \in Cycles(s, start), NEW d \in Cycles(s, start),
           Len(c) <= Len(d), \A k \in 1..Len(c) : c[k] = d[k]
    PROVE  c = d
<1>1. Len(c) \in Nat \ {0} /\ Len(d) \in Nat \ {0}
  BY CycleShape
<1>2. c \in [1..Len(c) -> Edges(s)] /\ d \in [1..Len(d) -> Edges(s)]
  BY CycleShape
<1>3. CASE Len(c) = Len(d)
  BY <1>2, <1>3
<1>4. CASE Len(c) < Len(d)
  <2>1. obs[d[Len(c)]].receiver = start /\ obs[d[1]].deliverer = start
    BY <1>1, CycleShape
  <2>2. Len(c) \in 1..Len(d)-1 /\ Len(c) + 1 \in 1..Len(d) /\ 1 \in 1..Len(d)
    BY <1>1, <1>4
  <2>3. obs[d[Len(c) + 1]].deliverer = obs[d[1]].deliverer
    BY <2>1, <2>2, CycleShape
  <2>4. Len(c) + 1 = 1
    BY <2>2, <2>3, CycleShape
  <2>5. QED
    BY <1>1, <2>4
<1>5. QED
  BY <1>1, <1>3, <1>4

LEMMA PrecedesTotal ==
    ASSUME TypeOK, NEW s, NEW start,
           NEW c \in Cycles(s, start), NEW d \in Cycles(s, start), c # d
    PROVE  Precedes(c, d) \/ Precedes(d, c)
<1> DEFINE Both == {k \in Nat : k \in 1..Len(c) /\ k \in 1..Len(d)}
           Differ == {k \in Both : c[k] # d[k]}
<1>1. Len(c) \in Nat \ {0} /\ Len(d) \in Nat \ {0}
  BY CycleShape
<1>2. Differ # {}
  <2>1. SUFFICES ASSUME \A k \in Both : c[k] = d[k]  PROVE FALSE
    OBVIOUS
  <2>2. CASE Len(c) <= Len(d)
    <3>1. \A k \in 1..Len(c) : c[k] = d[k]
      BY <1>1, <2>1, <2>2
    <3>2. QED
      BY <2>2, <3>1, NoCycleBeginsAnother
  <2>3. CASE Len(d) <= Len(c)
    <3>1. \A k \in 1..Len(d) : d[k] = c[k]
      BY <1>1, <2>1, <2>3
    <3>2. QED
      BY <2>3, <3>1, NoCycleBeginsAnother
  <2>4. QED
    BY <1>1, <2>2, <2>3
<1>3. PICK k \in Differ : \A j \in Differ : k <= j
  <2>1. Differ \in SUBSET Nat
    OBVIOUS
  <2> HIDE DEF Differ
  <2>2. QED
    BY <1>2, <2>1, LeastNatural
<1>4. \A j \in 1..k-1 : c[j] = d[j]
  <2>1. SUFFICES ASSUME NEW j \in 1..k-1, c[j] # d[j]  PROVE FALSE
    OBVIOUS
  <2>2. j \in Differ /\ ~(k <= j)
    BY <1>1, <1>3, <2>1
  <2>3. QED
    BY <1>3, <2>2
<1>5. c[k] \in Int /\ d[k] \in Int /\ c[k] # d[k]
  BY <1>3, CycleShape
<1>6. DOMAIN c = 1..Len(c) /\ DOMAIN d = 1..Len(d) /\ k \in DOMAIN c /\ k \in DOMAIN d
  BY <1>3, CycleShape
<1>7. c[k] < d[k] \/ d[k] < c[k]
  BY <1>5
<1>8. k \in DOMAIN c \cap DOMAIN d /\ k \in DOMAIN d \cap DOMAIN c
  BY <1>6
<1>9. ASSUME c[k] < d[k]  PROVE Precedes(c, d)
  BY <1>4, <1>8, <1>9 DEF Precedes
<1>10. ASSUME d[k] < c[k]  PROVE Precedes(d, c)
  BY <1>4, <1>8, <1>10 DEF Precedes
<1>11. QED
  BY <1>7, <1>9, <1>10

LEMMA PrecedesTransitive ==
    ASSUME TypeOK, NEW s, NEW start,
           NEW c \in Cycles(s, start), NEW d \in Cycles(s, start), NEW e \in Cycles(s, start),
           Precedes(c, d), Precedes(d, e)
    PROVE  Precedes(c, e)
<1>1. /\ DOMAIN c = 1..Len(c) /\ DOMAIN d = 1..Len(d) /\ DOMAIN e = 1..Len(e)
      /\ Len(c) \in Nat /\ Len(d) \in Nat /\ Len(e) \in Nat
      /\ \A k \in DOMAIN c : c[k] \in Int
      /\ \A k \in DOMAIN d : d[k] \in Int
      /\ \A k \in DOMAIN e : e[k] \in Int
  BY CycleShape
<1>2. PICK k \in DOMAIN c \cap DOMAIN d : (\A j \in 1..k-1 : c[j] = d[j]) /\ c[k] < d[k]
  BY DEF Precedes
<1>3. PICK l \in DOMAIN d \cap DOMAIN e : (\A j \in 1..l-1 : d[j] = e[j]) /\ d[l] < e[l]
  BY DEF Precedes
<1>4. k \in Int /\ l \in Int
  BY <1>1
<1>5. CASE k < l
  <2>1. k \in 1..l-1 /\ d[k] = e[k] /\ k \in DOMAIN e
    BY <1>1, <1>2, <1>3, <1>5
  <2>2. \A j \in 1..k-1 : c[j] = e[j]
    BY <1>1, <1>2, <1>3, <1>5
  <2>3. QED
    BY <1>2, <2>1, <2>2 DEF Precedes
<1>6. CASE l < k
  <2>1. l \in 1..k-1 /\ c[l] = d[l] /\ l \in DOMAIN c
    BY <1>1, <1>2, <1>3, <1>6
  <2>2. \A j \in 1..l-1 : c[j] = e[j]
    BY <1>1, <1>2, <1>3, <1>6
  <2>3. QED
    BY <1>3, <2>1, <2>2 DEF Precedes
<1>7. CASE k = l
  <2>1. \A j \in 1..k-1 : c[j] = e[j]
    BY <1>2, <1>3, <1>7
  <2>2. c[k] < e[k]
    BY <1>1, <1>2, <1>3, <1>7
  <2>3. QED
    BY <1>2, <1>3, <1>7, <2>1, <2>2 DEF Precedes
<1>8. QED
  BY <1>4, <1>5, <1>6, <1>7

IsFirst(c, S) == \A d \in S \ {c} : Precedes(c, d)

LEMMA FirstCycle ==
    ASSUME TypeOK, NEW s, NEW start, Cycles(s, start) # {}
    PROVE  FoundFrom(s, start) # {}
<1> DEFINE C == Cycles(s, start)
           Bad == {S \in SUBSET C : S # {} /\ \A c \in S : ~IsFirst(c, S)}
<1>1. IsFiniteSet(C)
  <2>1. C \in SUBSET Paths(s)
    BY DEF Cycles
  <2> HIDE DEF C
  <2>2. QED
    BY <2>1, FinitePaths, FS_Subset
<1>2. SUFFICES ASSUME Bad # {}  PROVE FALSE
  <2>1. C \notin Bad => \E c \in C : IsFirst(c, C)
    OBVIOUS
  <2>2. QED
    BY <1>2, <2>1 DEF IsFirst, FoundFrom
<1>3. PICK S \in Bad : \A T \in Bad : T \subseteq S => T = S
  <2>1. Bad \in SUBSET (SUBSET C)
    OBVIOUS
  <2> HIDE DEF Bad, C
  <2>2. QED
    BY <1>1, <1>2, <2>1, MinimalSubset
<1>4. S \in SUBSET C /\ S # {} /\ \A c \in S : ~IsFirst(c, S)
  BY <1>3
<1>5. PICK x \in S : TRUE
  BY <1>4
<1> DEFINE T == S \ {x}
<1>6. T # {}
  BY <1>4, <1>5 DEF IsFirst
<1>7. PICK c \in T : IsFirst(c, T)
  <2>1. T \subseteq S /\ T # S /\ T \in SUBSET C
    BY <1>4, <1>5
  <2>2. T \notin Bad
    <3> HIDE DEF T, Bad, C
    <3>1. QED
      BY <1>3, <2>1
  <2>3. QED
    BY <1>6, <2>1, <2>2
<1>8. c \in C /\ x \in C /\ c # x /\ c \in S
  BY <1>4, <1>5, <1>7
<1>9. ASSUME Precedes(c, x)  PROVE IsFirst(c, S)
  BY <1>7, <1>9 DEF IsFirst
<1>10. ASSUME Precedes(x, c)  PROVE IsFirst(x, S)
  <2>1. SUFFICES ASSUME NEW d \in S \ {x}  PROVE Precedes(x, d)
    BY DEF IsFirst
  <2>2. d = c \/ Precedes(c, d)
    BY <1>7, <2>1 DEF IsFirst
  <2>3. d \in C
    BY <1>4
  <2>4. QED
    BY <1>8, <1>10, <2>2, <2>3, PrecedesTransitive
<1>11. QED
  BY <1>4, <1>5, <1>8, <1>9, <1>10, PrecedesTotal

(***************************************************************************)
(* Where find_cycle finds nothing, every group of accounts has a member    *)
(* without an edge into the group.                                         *)
(***************************************************************************)
LEMMA NothingFound ==
    ASSUME TypeOK, NEW s, find_cycle(s) = {}, NEW group, group # {}
    PROVE  \E a \in group : \A i \in Edges(s) :
              ~(obs[i].deliverer = a /\ obs[i].receiver \in group)
<1>1. SUFFICES ASSUME \A a \in group : \E i \in Edges(s) :
                          /\ obs[i].deliverer = a
                          /\ obs[i].receiver \in group
               PROVE  FALSE
  OBVIOUS
<1>2. PICK start \in Starts(s) : Cycles(s, start) # {}
  BY <1>1, CycleExists
<1>3. FoundFrom(s, start) # {}
  BY <1>2, FirstCycle
<1>4. QED
  BY <1>2, <1>3 DEF find_cycle

-----------------------------------------------------------------------------
(***************************************************************************)
(* What Retain does to the result, entry by entry.                         *)
(***************************************************************************)
Appends(kept, n) ==
    /\ kept \in [1..n -> Edges(current)]
    /\ \A j, k \in 1..n : j < k => kept[j] < kept[k]
    /\ Len(result') = Len(result) + n
    /\ DOMAIN result' = 1..(Len(result) + n)
    /\ \A k \in 1..Len(result) : result'[k] = result[k]
    /\ \A k \in 1..n : result'[Len(result) + k] = obs[kept[k]]

LEMMA RetainAppends ==
    ASSUME TypeOK, Retain
    PROVE  \E kept : Appends(kept, Cardinality(Edges(current)))
<1>1. PICK kept \in Retained(current) :
        result' = result \o [k \in DOMAIN kept |-> obs[kept[k]]]
  BY DEF Retain
<1>2. PICK n : n = Cardinality(Edges(current))
  OBVIOUS
<1>3. n \in Nat
  BY <1>2, FiniteEdges
<1>4. /\ kept \in [1..n -> Edges(current)]
      /\ \A j, k \in 1..n : j < k => kept[j] < kept[k]
  BY <1>2 DEF Retained
<1>5. PICK tail : tail = [k \in 1..n |-> obs[kept[k]]]
  OBVIOUS
<1>6. result' = result \o tail
  BY <1>1, <1>4, <1>5
<1>7. tail \in Seq(NetObligations) /\ result \in Seq(NetObligations)
  BY <1>1, <1>4, <1>5, RetainedType DEF TypeOK
<1>8. \A k \in 1..n : obs[kept[k]] \in NetObligations
  BY <1>4 DEF Edges, TypeOK
<1>9. Len(tail) = n
  BY <1>3, <1>5, <1>8, LengthOf
<1>10. Len(result) \in Nat
  BY <1>7
<1>11. Len(result') = Len(result) + n /\ DOMAIN result' = 1..(Len(result) + n)
  <2>1. result' \in Seq(NetObligations)
    BY <1>6, <1>7
  <2>2. Len(result') = Len(result) + n
    <3>1. Len(result \o tail) = Len(result) + Len(tail)
      BY <1>7
    <3>2. QED
      BY <1>6, <1>9, <3>1
  <2>3. DOMAIN result' = 1..Len(result')
    BY <2>1
  <2>4. QED
    BY <2>2, <2>3
<1>12. \A k \in 1..Len(result) : result'[k] = result[k]
  BY <1>6, <1>7
<1>13. \A k \in 1..n : result'[Len(result) + k] = obs[kept[k]]
  <2>1. SUFFICES ASSUME NEW k \in 1..n  PROVE result'[Len(result) + k] = obs[kept[k]]
    OBVIOUS
  <2>2. result'[Len(result) + k] = tail[k]
    BY <1>3, <1>6, <1>7, <1>9, <1>10
  <2>3. QED
    BY <1>5, <2>2
<1>14. Appends(kept, n)
  BY <1>4, <1>11, <1>12, <1>13 DEF Appends
<1>15. QED
  BY <1>2, <1>14

(***************************************************************************)
(* The inductive invariant of the result: it holds finished groups only,   *)
(* and nothing circular in any of them.                                    *)
(***************************************************************************)
OnlyFinished == \A k \in DOMAIN result : result[k].symbol \notin todo

FinishedAcyclic ==
    \A s \in Symbols \ todo : \A group \in (SUBSET Accounts) \ {{}} :
        \E a \in group : \A b \in group : ~Owes(s, a, b)

AcyclicInv == IInv /\ OnlyFinished /\ FinishedAcyclic

LEMMA EmptyResult ==
    ASSUME result' = <<>>
    PROVE  OnlyFinished' /\ FinishedAcyclic'
<1>1. DOMAIN result' = {}
  OBVIOUS
<1>2. \A s, a, b : ~Owes(s, a, b)'
  BY <1>1 DEF Owes
<1>3. QED
  BY <1>1, <1>2 DEF OnlyFinished, FinishedAcyclic

LEMMA RetainAcyclic ==
    ASSUME AcyclicInv, Retain
    PROVE  OnlyFinished' /\ FinishedAcyclic'
<1>0. TypeOK /\ OnlyFinished /\ FinishedAcyclic
  BY DEF AcyclicInv, IInv
<1>1. /\ current \in todo /\ find_cycle(current) = {}
      /\ todo' = todo \ {current} /\ obs' = obs
  BY <1>0 DEF Retain, TypeOK
<1>2. PICK n : n = Cardinality(Edges(current))
  OBVIOUS
<1>3. PICK kept : Appends(kept, n)
  BY <1>0, <1>2, RetainAppends
<1>4. n \in Nat /\ Len(result) \in Nat /\ DOMAIN result = 1..Len(result)
  BY <1>0, <1>2, FiniteEdges DEF TypeOK
<1>5. \A k \in DOMAIN result' :
        \/ k \in DOMAIN result /\ result'[k] = result[k]
        \/ \E i \in Edges(current) : result'[k] = obs[i]
  <2>1. SUFFICES ASSUME NEW k \in 1..(Len(result) + n)
                 PROVE  \/ k \in 1..Len(result) /\ result'[k] = result[k]
                        \/ \E i \in Edges(current) : result'[k] = obs[i]
    BY <1>3, <1>4 DEF Appends
  <2>2. CASE k <= Len(result)
    <3>1. k \in 1..Len(result)
      BY <1>4, <2>2
    <3>2. QED
      BY <1>3, <3>1 DEF Appends
  <2>3. CASE k > Len(result)
    <3>1. PICK j \in 1..n : k = Len(result) + j
      <4>1. k - Len(result) \in 1..n /\ k = Len(result) + (k - Len(result))
        BY <1>4, <2>3
      <4>2. QED
        BY <4>1
    <3>2. result'[k] = obs[kept[j]] /\ kept[j] \in Edges(current)
      BY <1>3, <3>1 DEF Appends
    <3>3. QED
      BY <3>2
  <2>4. QED
    BY <1>4, <2>2, <2>3
<1>6. OnlyFinished'
  <2>1. \A i \in Edges(current) : obs[i].symbol = current
    BY DEF Edges
  <2>2. QED
    BY <1>0, <1>1, <1>5, <2>1 DEF OnlyFinished
<1>7. ASSUME NEW s \in Symbols \ todo', NEW group \in (SUBSET Accounts) \ {{}}
      PROVE  \E a \in group : \A b \in group : ~Owes(s, a, b)'
  <2>1. CASE s # current
    <3>1. s \in Symbols \ todo
      BY <1>1, <1>7, <2>1
    <3>2. PICK a \in group : \A b \in group : ~Owes(s, a, b)
      BY <1>0, <3>1 DEF FinishedAcyclic
    <3>3. \A b \in group : ~Owes(s, a, b)'
      <4>1. \A i \in Edges(current) : obs[i].symbol # s
        BY <2>1 DEF Edges
      <4>2. QED
        BY <1>5, <3>2, <4>1 DEF Owes
    <3>4. QED
      BY <3>3
  <2>2. CASE s = current
    <3>1. PICK a \in group : \A i \in Edges(current) :
                                ~(obs[i].deliverer = a /\ obs[i].receiver \in group)
      BY <1>0, <1>1, NothingFound
    <3>2. \A b \in group : ~Owes(s, a, b)'
      <4>1. \A k \in DOMAIN result : result[k].symbol # s
        BY <1>0, <1>1, <2>2 DEF OnlyFinished
      <4>2. QED
        BY <1>5, <3>1, <4>1 DEF Owes
    <3>3. QED
      BY <3>2
  <2>3. QED
    BY <2>1, <2>2
<1>8. QED
  BY <1>6, <1>7 DEF FinishedAcyclic

LEMMA InitAcyclic == Init => AcyclicInv
<1>1. SUFFICES ASSUME Init  PROVE AcyclicInv
  OBVIOUS
<1>2. DOMAIN result = {}
  BY <1>1 DEF Init
<1>3. QED
  BY <1>1, <1>2, InitInv DEF AcyclicInv, OnlyFinished, FinishedAcyclic, Owes

LEMMA InitAcyclicNext == Init' => AcyclicInv'
BY InitAcyclic, PTL

LEMMA NextAcyclic == AcyclicInv /\ [Next]_vars => AcyclicInv'
<1> SUFFICES ASSUME AcyclicInv, [Next]_vars PROVE AcyclicInv'
  OBVIOUS
<1>1. SUFFICES OnlyFinished' /\ FinishedAcyclic'
  BY NextInv DEF AcyclicInv
<1>2. ASSUME NEW obligations \in Arguments, multilateral_net(obligations)
      PROVE  OnlyFinished' /\ FinishedAcyclic'
  BY <1>2, EmptyResult DEF multilateral_net
<1>3. CASE Retain
  BY <1>3, RetainAcyclic
<1>4. ASSUME result' = result, todo' = todo
      PROVE  OnlyFinished' /\ FinishedAcyclic'
  BY <1>4 DEF AcyclicInv, OnlyFinished, FinishedAcyclic, Owes
<1>5. ASSUME NEW s \in Symbols, NextGroup(s)
      PROVE  OnlyFinished' /\ FinishedAcyclic'
  BY <1>4, <1>5 DEF NextGroup
<1>6. CASE CancelCycle
  BY <1>4, <1>6 DEF CancelCycle
<1>7. CASE UNCHANGED vars
  BY <1>4, <1>7 DEF vars
<1>8. CASE drop
  BY <1>8, DropInits, InitAcyclicNext DEF AcyclicInv
<1>9. QED
  BY <1>2, <1>3, <1>5, <1>6, <1>7, <1>8 DEF Next, Step

(***************************************************************************)
(* For any obligations and whatever cycles the search happens to find:     *)
(* when multilateral_net returns, no cycle of obligations is left in any   *)
(* symbol.                                                                 *)
(***************************************************************************)
THEOREM NothingCircularRemains == Spec => []NoCircularFlow
<1>1. AcyclicInv => NoCircularFlow
  BY DEF AcyclicInv, FinishedAcyclic, NoCircularFlow, Returned
<1>2. QED
  BY <1>1, InitAcyclic, NextAcyclic, PTL DEF Spec

-----------------------------------------------------------------------------
(***************************************************************************)
(* What an account receives net is a sum over the obligations.             *)
(***************************************************************************)
Weight(ob, s, a) ==
    IF ob.symbol = s
    THEN (IF ob.receiver = a THEN ob.net_quantity ELSE 0)
           - (IF ob.deliverer = a THEN ob.net_quantity ELSE 0)
    ELSE 0

LEMMA NetUnitsIsASum ==
    ASSUME NEW f, NEW s, NEW a
    PROVE  NetUnits(f, s, a)
             = SumFunctionOnSet([i \in DOMAIN f |-> Weight(f[i], s, a)], DOMAIN f)
<1>1. DOMAIN [i \in DOMAIN f |-> Weight(f[i], s, a)] = DOMAIN f
  OBVIOUS
<1>2. NetUnits(f, s, a) = SumFunction([i \in DOMAIN f |-> Weight(f[i], s, a)])
  BY DEF NetUnits, Total, Weight, Into, OutOf
<1>3. QED
  BY <1>1, <1>2 DEF SumFunction

LEMMA WeightType ==
    ASSUME NEW ob \in NetObligations, NEW s, NEW a
    PROVE  /\ Weight(ob, s, a) \in Int
           /\ ob.net_quantity = 0 => Weight(ob, s, a) = 0
BY DEF Weight, NetObligations, ObligationType

(***************************************************************************)
(* Along a cycle each account that delivers also receives: the receiver of *)
(* an edge is the deliverer of the next, and of the first after the last.  *)
(***************************************************************************)
Delivers(c, n, a) == [j \in 1..n |-> IF obs[c[j]].deliverer = a THEN 1 ELSE 0]
Receives(c, n, a) == [j \in 1..n |-> IF obs[c[j]].receiver = a THEN 1 ELSE 0]

LEMMA CycleBalances ==
    ASSUME TypeOK, NEW s, NEW start, NEW c \in Cycles(s, start), NEW n, n = Len(c), NEW a
    PROVE  SumFunctionOnSet(Receives(c, n, a), 1..n) = SumFunctionOnSet(Delivers(c, n, a), 1..n)
<1>1. n \in Nat \ {0}
  BY CycleShape
<1> DEFINE next == [j \in 1..n |-> IF j = n THEN 1 ELSE j + 1]
<1>2. next \in [1..n -> 1..n]
  BY <1>1
<1>3. \A k \in 1..n : \E j \in 1..n : next[j] = k
  <2>1. SUFFICES ASSUME NEW k \in 1..n  PROVE \E j \in 1..n : next[j] = k
    OBVIOUS
  <2>2. CASE k = 1
    <3>1. n \in 1..n /\ next[n] = 1
      BY <1>1
    <3>2. QED
      BY <2>2, <3>1
  <2>3. CASE k > 1
    <3>1. k - 1 \in 1..n /\ k - 1 # n /\ (k - 1) + 1 = k
      BY <1>1, <2>3
    <3>2. next[k - 1] = k
      BY <3>1
    <3>3. QED
      BY <3>1, <3>2
  <2>4. QED
    BY <1>1, <2>2, <2>3
<1>4. \A j, k \in 1..n : next[j] = next[k] => j = k
  BY <1>1
<1>5. \A j \in 1..n : obs[c[j]].receiver = obs[c[next[j]]].deliverer
  <2>1. SUFFICES ASSUME NEW j \in 1..n
                 PROVE  obs[c[j]].receiver = obs[c[next[j]]].deliverer
    OBVIOUS
  <2>2. CASE j = n
    BY <2>2, CycleShape
  <2>3. CASE j # n
    <3>1. j \in 1..n-1 /\ next[j] = j + 1
      BY <1>1, <2>3
    <3>2. QED
      BY <3>1, CycleShape
  <2>4. QED
    BY <2>2, <2>3
<1>6. PICK f : f = Receives(c, n, a)
  OBVIOUS
<1>7. PICK g : g = Delivers(c, n, a)
  OBVIOUS
<1>8. \A j \in 1..n : f[j] \in Int /\ f[j] = g[next[j]]
  BY <1>2, <1>5, <1>6, <1>7 DEF Receives, Delivers
<1>9. IsFiniteSet(1..n)
  BY <1>1, 1 \in Int, FS_Interval
<1> HIDE DEF next
<1>10. SumFunctionOnSet(f, 1..n) = SumFunctionOnSet(g, 1..n)
  <2>1. PICK D : D = 1..n
    OBVIOUS
  <2>2. /\ IsFiniteSet(D) /\ next \in [D -> D]
        /\ \A k \in D : \E j \in D : next[j] = k
        /\ \A j, k \in D : next[j] = next[k] => j = k
        /\ \A j \in D : f[j] \in Int /\ f[j] = g[next[j]]
    BY <1>2, <1>3, <1>4, <1>8, <1>9, <2>1
  <2>3. SumFunctionOnSet(f, D) = SumFunctionOnSet(g, D)
    BY <2>2, SumRenamed
  <2>4. QED
    BY <2>1, <2>3
<1>11. QED
  BY <1>6, <1>7, <1>10

(***************************************************************************)
(* What CancelCycle does to obs, along the cycle: the edges of a cycle of  *)
(* the group in work give up the same quantity.                            *)
(***************************************************************************)
CancelledAlong(c, n, q) ==
    /\ \E start : c \in Cycles(current, start)
    /\ n = Len(c)
    /\ \A j \in 1..n : q \in 1..obs[c[j]].net_quantity
    /\ obs' = [i \in DOMAIN obs |->
                  IF \E j \in 1..n : c[j] = i THEN Reduced(obs[i], q) ELSE obs[i]]

LEMMA CancelFollowsACycle ==
    ASSUME TypeOK, CancelCycle
    PROVE  \E c, n, q : CancelledAlong(c, n, q)
<1>1. PICK c \in find_cycle(current) : cancel_cycle(c)
  BY DEF CancelCycle
<1>2. PICK start : c \in Cycles(current, start)
  BY <1>1 DEF find_cycle, FoundFrom
<1>3. PICK n : n = Len(c)
  OBVIOUS
<1>4. /\ n \in Nat \ {0} /\ c \in [1..n -> Edges(current)] /\ DOMAIN c = 1..n
  BY <1>2, <1>3, CycleShape
<1>5. PICK k \in DOMAIN c :
        /\ IsMinimum(obs[c[k]].net_quantity, c)
        /\ obs' = [i \in DOMAIN obs |->
                      IF \E j \in DOMAIN c : c[j] = i
                      THEN Reduced(obs[i], obs[c[k]].net_quantity) ELSE obs[i]]
  BY <1>1 DEF cancel_cycle
<1>6. PICK q : q = obs[c[k]].net_quantity
  OBVIOUS
<1>7. \A i \in Edges(current) : /\ i \in DOMAIN obs
                                /\ obs[i].net_quantity \in Nat
                                /\ obs[i].net_quantity > 0
  BY DEF TypeOK, Edges, NetObligations, ObligationType
<1>8. \A j \in 1..n : c[j] \in Edges(current) /\ q <= obs[c[j]].net_quantity
  BY <1>4, <1>5, <1>6 DEF IsMinimum
<1>9. q \in Nat /\ q > 0
  BY <1>4, <1>5, <1>6, <1>7, <1>8
<1>10. \A j \in 1..n : q \in 1..obs[c[j]].net_quantity
  BY <1>7, <1>8, <1>9
<1>11. obs' = [i \in DOMAIN obs |->
                  IF \E j \in 1..n : c[j] = i THEN Reduced(obs[i], q) ELSE obs[i]]
  BY <1>4, <1>5, <1>6
<1>12. CancelledAlong(c, n, q)
  BY <1>2, <1>3, <1>10, <1>11 DEF CancelledAlong
<1>13. QED
  BY <1>12

(***************************************************************************)
(* The obligations whose group is not finished.                            *)
(***************************************************************************)
Open == {j \in DOMAIN obs : obs[j].symbol \in todo}

LEMMA OpenIsFinite ==
    ASSUME TypeOK
    PROVE  /\ IsFiniteSet(Open) /\ DOMAIN Pending = Open
           /\ \A i \in Open : obs[i] \in NetObligations /\ Pending[i] = obs[i]
<1>1. DOMAIN obs = 1..Len(argument) /\ Len(argument) \in Nat
  BY DEF TypeOK
<1>2. IsFiniteSet(1..Len(argument))
  BY <1>1, 1 \in Int, FS_Interval
<1>3. IsFiniteSet(Open)
  BY <1>1, <1>2, FS_Subset DEF Open
<1>4. QED
  BY <1>3 DEF Open, Pending, TypeOK

(***************************************************************************)
(* A cancelled edge takes from its receiver and gives to its deliverer;    *)
(* over the cycle this adds up to nothing for every account.               *)
(***************************************************************************)
Taken(c, n, a) ==
    [i \in Open |-> IF \E j \in 1..n : c[j] = i
                    THEN (IF obs[i].deliverer = a THEN 1 ELSE 0)
                           - (IF obs[i].receiver = a THEN 1 ELSE 0)
                    ELSE 0]

LEMMA NothingTaken ==
    ASSUME TypeOK, current \in todo, NEW start, NEW c \in Cycles(current, start),
           NEW n, n = Len(c), NEW a
    PROVE  SumFunctionOnSet(Taken(c, n, a), Open) = 0
<1>1. /\ n \in Nat \ {0} /\ c \in [1..n -> Edges(current)]
      /\ \A j, k \in 1..n : obs[c[j]].deliverer = obs[c[k]].deliverer => j = k
  <2>1. /\ Len(c) \in Nat \ {0} /\ c \in [1..Len(c) -> Edges(current)]
        /\ \A j, k \in 1..Len(c) : obs[c[j]].deliverer = obs[c[k]].deliverer => j = k
    BY CycleShape
  <2>2. QED
    BY <2>1
<1>2. PICK D : D = 1..n
  OBVIOUS
<1>3. IsFiniteSet(D)
  BY <1>1, <1>2, 1 \in Int, FS_Interval
<1>4. Edges(current) \subseteq Open
  BY DEF Edges, Open
<1> DEFINE C == {i \in Open : \E j \in D : c[j] = i}
<1>5. C \in SUBSET Open /\ IsFiniteSet(C)
  BY OpenIsFinite, FS_Subset
<1>6. /\ c \in [D -> C]
      /\ \A i \in C : \E j \in D : c[j] = i
      /\ \A j, k \in D : c[j] = c[k] => j = k
  BY <1>1, <1>2, <1>4
<1>7. PICK t : t = Taken(c, n, a)
  OBVIOUS
<1>8. PICK r : r = Receives(c, n, a)
  OBVIOUS
<1>9. PICK d : d = Delivers(c, n, a)
  OBVIOUS
<1> DEFINE u == [j \in D |-> t[c[j]]]
<1>10. \A i \in Open : t[i] \in Int
  BY <1>7 DEF Taken
<1>11. \A i \in Open \ C : t[i] = 0
  BY <1>2, <1>7 DEF Taken
<1>12. \A j \in D : /\ u[j] \in Int /\ r[j] \in Int /\ d[j] \in Int
                    /\ d[j] = r[j] + u[j]
  <2>1. SUFFICES ASSUME NEW j \in D
                 PROVE  /\ u[j] \in Int /\ r[j] \in Int /\ d[j] \in Int
                        /\ d[j] = r[j] + u[j]
    OBVIOUS
  <2>2. c[j] \in C
    BY <1>6
  <2>3. t[c[j]] = (IF obs[c[j]].deliverer = a THEN 1 ELSE 0)
                    - (IF obs[c[j]].receiver = a THEN 1 ELSE 0)
    BY <1>2, <1>7, <2>2 DEF Taken
  <2>4. /\ r[j] = IF obs[c[j]].receiver = a THEN 1 ELSE 0
        /\ d[j] = IF obs[c[j]].deliverer = a THEN 1 ELSE 0
    BY <1>2, <1>8, <1>9 DEF Receives, Delivers
  <2>5. u[j] = d[j] - r[j]
    BY <2>3, <2>4
  <2>6. QED
    BY <2>4, <2>5
<1> HIDE DEF C, u
<1>13. SumFunctionOnSet(t, Open) = SumFunctionOnSet(t, C)
  BY <1>5, <1>10, <1>11, OpenIsFinite, SumOverSupport
<1>14. SumFunctionOnSet(u, D) = SumFunctionOnSet(t, C)
  <2>1. PICK v : v = u
    OBVIOUS
  <2>2. \A j \in D : v[j] \in Int /\ v[j] = t[c[j]]
    BY <1>12, <2>1 DEF u
  <2>3. PICK e : e = c
    OBVIOUS
  <2>4. PICK T : T = C
    OBVIOUS
  <2>5. /\ e \in [D -> T]
        /\ \A i \in T : \E j \in D : e[j] = i
        /\ \A j, k \in D : e[j] = e[k] => j = k
        /\ \A j \in D : v[j] \in Int /\ v[j] = t[e[j]]
        /\ IsFiniteSet(D) /\ IsFiniteSet(T)
    BY <1>3, <1>5, <1>6, <2>2, <2>3, <2>4
  <2>6. SumFunctionOnSet(v, D) = SumFunctionOnSet(t, T)
    BY <2>5, SumRenamed
  <2>7. QED
    BY <2>1, <2>4, <2>6
<1>15. SumFunctionOnSet(d, D) = SumFunctionOnSet(r, D) + SumFunctionOnSet(u, D)
  BY <1>3, <1>12, SumPlus
<1>16. SumFunctionOnSet(r, D) = SumFunctionOnSet(d, D)
  BY <1>2, <1>8, <1>9, CycleBalances
<1>17. SumFunctionOnSet(r, D) \in Int /\ SumFunctionOnSet(u, D) \in Int
  BY <1>3, <1>12, SumType
<1>18. SumFunctionOnSet(u, D) = 0
  BY <1>15, <1>16, <1>17
<1>19. QED
  BY <1>7, <1>13, <1>14, <1>18

LEMMA ReducedWeight ==
    ASSUME NEW ob \in NetObligations, NEW q \in 1..ob.net_quantity, NEW a
    PROVE  /\ \A s : s # ob.symbol => Weight(Reduced(ob, q), s, a) = Weight(ob, s, a)
           /\ Weight(Reduced(ob, q), ob.symbol, a)
                = Weight(ob, ob.symbol, a)
                    + q * ((IF ob.deliverer = a THEN 1 ELSE 0)
                             - (IF ob.receiver = a THEN 1 ELSE 0))
<1>1. /\ Reduced(ob, q).symbol = ob.symbol
      /\ Reduced(ob, q).deliverer = ob.deliverer
      /\ Reduced(ob, q).receiver = ob.receiver
      /\ Reduced(ob, q).net_quantity = ob.net_quantity - q
  BY ReducedFields
<1>2. PICK x : x = ob.net_quantity
  OBVIOUS
<1>3. x \in Int /\ q \in Int
  BY <1>2 DEF NetObligations, ObligationType
<1>4. \A s : s # ob.symbol => Weight(Reduced(ob, q), s, a) = Weight(ob, s, a)
  BY <1>1 DEF Weight
<1>5. Weight(Reduced(ob, q), ob.symbol, a)
        = (IF ob.receiver = a THEN x - q ELSE 0) - (IF ob.deliverer = a THEN x - q ELSE 0)
  BY <1>1, <1>2 DEF Weight
<1>6. Weight(ob, ob.symbol, a)
        = (IF ob.receiver = a THEN x ELSE 0) - (IF ob.deliverer = a THEN x ELSE 0)
  BY <1>2 DEF Weight
<1>7. (IF ob.receiver = a THEN x - q ELSE 0) - (IF ob.deliverer = a THEN x - q ELSE 0)
        = ((IF ob.receiver = a THEN x ELSE 0) - (IF ob.deliverer = a THEN x ELSE 0))
            + q * ((IF ob.deliverer = a THEN 1 ELSE 0) - (IF ob.receiver = a THEN 1 ELSE 0))
  BY <1>3
<1>8. QED
  BY <1>4, <1>5, <1>6, <1>7

(***************************************************************************)
(* A cancellation leaves every account's net delivery as it was.           *)
(***************************************************************************)
LEMMA CancelKeepsDeliveries ==
    ASSUME IInv, CancelCycle, NEW s, NEW a
    PROVE  NetUnits(Pending, s, a)' = NetUnits(Pending, s, a)
<1>0. TypeOK /\ TypeOK'
  BY CancelInv DEF IInv
<1>1. current \in todo /\ todo' = todo
  BY <1>0 DEF CancelCycle, TypeOK
<1>2. PICK c, n, q : CancelledAlong(c, n, q)
  BY <1>0, CancelFollowsACycle
<1>3. PICK start : c \in Cycles(current, start)
  BY <1>2 DEF CancelledAlong
<1>4. PICK f : f = [i \in Open |-> Weight(obs[i], s, a)]
  OBVIOUS
<1>5. PICK g : g = [i \in Open |-> Weight(obs'[i], s, a)]
  OBVIOUS
<1>6. PICK t : t = Taken(c, n, a)
  OBVIOUS
<1>7. /\ n = Len(c) /\ n \in Nat \ {0} /\ c \in [1..n -> Edges(current)]
      /\ \A j \in 1..n : q \in 1..obs[c[j]].net_quantity
      /\ obs' = [i \in DOMAIN obs |->
                  IF \E j \in 1..n : c[j] = i THEN Reduced(obs[i], q) ELSE obs[i]]
  BY <1>0, <1>2, <1>3, CycleShape DEF CancelledAlong
<1>8. /\ IsFiniteSet(Open) /\ DOMAIN Pending = Open
      /\ \A i \in Open : i \in DOMAIN obs /\ obs[i] \in NetObligations /\ Pending[i] = obs[i]
  BY <1>0, OpenIsFinite DEF Open
<1>9. \A i \in DOMAIN obs : obs[i] \in NetObligations /\ obs'[i].symbol = obs[i].symbol
  BY <1>0, <1>7, ReducedFields DEF TypeOK
<1>10. DOMAIN Pending' = Open /\ \A i \in Open : Pending'[i] = obs'[i]
  BY <1>1, <1>7, <1>9 DEF Pending, Open
<1>11. NetUnits(Pending, s, a) = SumFunctionOnSet(f, Open)
  <2>1. f = [i \in Open |-> Weight(Pending[i], s, a)]
    BY <1>4, <1>8
  <2>2. QED
    BY <1>8, <2>1, NetUnitsIsASum
<1>12. NetUnits(Pending, s, a)' = SumFunctionOnSet(g, Open)
  <2>1. g = [i \in Open |-> Weight(Pending'[i], s, a)]
    BY <1>5, <1>10
  <2>2. NetUnits(Pending', s, a)
          = SumFunctionOnSet([i \in DOMAIN Pending' |-> Weight(Pending'[i], s, a)],
                             DOMAIN Pending')
    BY NetUnitsIsASum
  <2>3. QED
    BY <1>10, <2>1, <2>2
<1>13. q \in Int
  BY <1>7
<1>14. \A i \in Open : f[i] \in Int /\ t[i] \in Int
  BY <1>4, <1>6, <1>8, WeightType DEF Taken
<1>15. CASE s # current
  <2>1. \A i \in Open : g[i] = f[i]
    <3>1. SUFFICES ASSUME NEW i \in Open  PROVE Weight(obs'[i], s, a) = Weight(obs[i], s, a)
      BY <1>4, <1>5
    <3>2. CASE \E j \in 1..n : c[j] = i
      <4>1. PICK j \in 1..n : c[j] = i
        BY <3>2
      <4>2. obs[i] \in NetObligations /\ q \in 1..obs[i].net_quantity /\ obs[i].symbol = current
        BY <1>7, <1>8, <4>1 DEF Edges
      <4>3. obs'[i] = Reduced(obs[i], q)
        BY <1>7, <1>8, <3>2
      <4>4. QED
        BY <1>15, <4>2, <4>3, ReducedWeight
    <3>3. CASE ~\E j \in 1..n : c[j] = i
      BY <1>7, <1>8, <3>3
    <3>4. QED
      BY <3>2, <3>3
  <2>2. QED
    BY <1>8, <1>11, <1>12, <2>1, SumSame
<1>16. CASE s = current
  <2>1. \A i \in Open : g[i] = f[i] + q * t[i]
    <3>1. SUFFICES ASSUME NEW i \in Open
                   PROVE  Weight(obs'[i], s, a) = Weight(obs[i], s, a) + q * t[i]
      BY <1>4, <1>5
    <3>2. CASE \E j \in 1..n : c[j] = i
      <4>1. PICK j \in 1..n : c[j] = i
        BY <3>2
      <4>2. obs[i] \in NetObligations /\ q \in 1..obs[i].net_quantity /\ obs[i].symbol = current
        BY <1>7, <1>8, <4>1 DEF Edges
      <4>3. obs'[i] = Reduced(obs[i], q)
        BY <1>7, <1>8, <3>2
      <4>4. t[i] = (IF obs[i].deliverer = a THEN 1 ELSE 0)
                     - (IF obs[i].receiver = a THEN 1 ELSE 0)
        BY <1>6, <3>2 DEF Taken
      <4>5. QED
        BY <1>16, <4>2, <4>3, <4>4, ReducedWeight
    <3>3. CASE ~\E j \in 1..n : c[j] = i
      <4>1. t[i] = 0 /\ obs'[i] = obs[i]
        BY <1>6, <1>7, <1>8, <3>3 DEF Taken
      <4>2. Weight(obs[i], s, a) \in Int
        BY <1>8, WeightType
      <4>3. QED
        BY <1>13, <4>1, <4>2
    <3>4. QED
      BY <3>2, <3>3
  <2>2. \A i \in Open : g[i] \in Int
    BY <1>5, <1>7, <1>8, <1>9, <1>0, WeightType DEF TypeOK
  <2>3. SumFunctionOnSet(g, Open) = SumFunctionOnSet(f, Open) + q * SumFunctionOnSet(t, Open)
    BY <1>8, <1>13, <1>14, <2>1, <2>2, SumOfMultiples
  <2>4. SumFunctionOnSet(t, Open) = 0
    BY <1>0, <1>1, <1>3, <1>6, <1>7, NothingTaken
  <2>5. SumFunctionOnSet(f, Open) \in Int
    BY <1>8, <1>14, SumType
  <2>6. QED
    BY <1>11, <1>12, <1>13, <2>3, <2>4, <2>5
<1>17. QED
  BY <1>15, <1>16

(***************************************************************************)
(* Retain moves the live obligations of the group in work from obs to the  *)
(* result: each of them, and each once.                                    *)
(***************************************************************************)
GroupUnits(s, a) ==
    SumFunctionOnSet([i \in Edges(current) |-> Weight(obs[i], s, a)], Edges(current))

LEMMA KeptOnce ==
    ASSUME TypeOK, NEW n, n = Cardinality(Edges(current)), NEW kept, Appends(kept, n)
    PROVE  /\ n \in Nat /\ kept \in [1..n -> Edges(current)]
           /\ \A j, k \in 1..n : kept[j] = kept[k] => j = k
           /\ \A i \in Edges(current) : \E j \in 1..n : kept[j] = i
<1>1. n \in Nat /\ IsFiniteSet(Edges(current)) /\ Edges(current) \subseteq Nat
  BY FiniteEdges
<1>2. kept \in [1..n -> Edges(current)] /\ \A j, k \in 1..n : j < k => kept[j] < kept[k]
  BY DEF Appends
<1>3. ASSUME NEW j \in 1..n, NEW k \in 1..n, kept[j] = kept[k]  PROVE j = k
  <2>1. kept[j] \in Nat
    BY <1>1, <1>2
  <2>2. ~(kept[j] < kept[k]) /\ ~(kept[k] < kept[j])
    BY <1>3, <2>1
  <2>3. ~(j < k) /\ ~(k < j)
    BY <1>2, <2>2
  <2>4. QED
    BY <1>1, <2>3
<1>4. kept \in Injection(1..n, Edges(current))
  BY <1>2, <1>3 DEF Injection, IsInjective
<1>5. Cardinality(1..n) = n
  BY <1>1, 1 \in Int, FS_Interval
<1>6. kept \in Surjection(1..n, Edges(current))
  BY <1>1, <1>4, <1>5, FS_Injection
<1>7. QED
  BY <1>1, <1>2, <1>3, <1>6 DEF Surjection

LEMMA ResultGains ==
    ASSUME TypeOK, TypeOK', Retain, NEW s, NEW a
    PROVE  NetUnits(result', s, a) = NetUnits(result, s, a) + GroupUnits(s, a)
<1>1. PICK n : n = Cardinality(Edges(current))
  OBVIOUS
<1>2. PICK kept : Appends(kept, n)
  BY <1>1, RetainAppends
<1>3. PICK E : E = Edges(current)
  OBVIOUS
<1>4. /\ n \in Nat /\ kept \in [1..n -> E]
      /\ \A j, k \in 1..n : kept[j] = kept[k] => j = k
      /\ \A i \in E : \E j \in 1..n : kept[j] = i
      /\ IsFiniteSet(E)
  BY <1>1, <1>2, <1>3, KeptOnce, FiniteEdges
<1>5. PICK L : L = Len(result)
  OBVIOUS
<1>6. L \in Nat /\ DOMAIN result = 1..L /\ \A k \in 1..L : result[k] \in NetObligations
  BY <1>5 DEF TypeOK
<1>7. /\ DOMAIN result' = 1..(L + n)
      /\ \A k \in 1..L : result'[k] = result[k]
      /\ \A k \in 1..n : result'[L + k] = obs[kept[k]]
  BY <1>2, <1>5 DEF Appends
<1>8. PICK A : A = 1..L
  OBVIOUS
<1>9. PICK B : B = L+1 .. L+n
  OBVIOUS
<1>10. IsFiniteSet(A) /\ IsFiniteSet(B)
  <2>1. 1 \in Int /\ L \in Int /\ L + 1 \in Int /\ L + n \in Int
    BY <1>4, <1>6
  <2>2. QED
    BY <1>8, <1>9, <2>1, FS_Interval
<1>11. A \cap B = {} /\ DOMAIN result' = A \cup B /\ DOMAIN result = A
  BY <1>4, <1>6, <1>7, <1>8, <1>9
<1>12. \A k \in A \cup B : result'[k] \in NetObligations
  <2>1. \A k \in DOMAIN result' : result'[k] \in NetObligations
    BY DEF TypeOK
  <2>2. QED
    BY <1>11, <2>1
<1>13. PICK f : f = [k \in A \cup B |-> Weight(result'[k], s, a)]
  OBVIOUS
<1>14. PICK h : h = [k \in A |-> Weight(result[k], s, a)]
  OBVIOUS
<1>15. PICK g : g = [i \in E |-> Weight(obs[i], s, a)]
  OBVIOUS
<1>16. \A k \in A \cup B : f[k] \in Int
  BY <1>12, <1>13, WeightType
<1>17. SumFunctionOnSet(f, A \cup B) = SumFunctionOnSet(f, A) + SumFunctionOnSet(f, B)
  BY <1>10, <1>11, <1>16, SumOfUnion
<1>18. SumFunctionOnSet(f, A) = SumFunctionOnSet(h, A)
  <2>1. \A k \in A : f[k] = h[k]
    BY <1>7, <1>8, <1>13, <1>14
  <2>2. QED
    BY <1>10, <2>1, SumSame
<1>19. SumFunctionOnSet(f, B) = SumFunctionOnSet(g, E)
  <2>1. PICK e : e = [k \in B |-> kept[k - L]]
    OBVIOUS
  <2>2. \A k \in B : k - L \in 1..n /\ L + (k - L) = k
    BY <1>4, <1>6, <1>9
  <2>3. e \in [B -> E]
    BY <1>4, <2>1, <2>2
  <2>4. ASSUME NEW i \in E  PROVE \E k \in B : e[k] = i
    <3>1. PICK j \in 1..n : kept[j] = i
      BY <1>4
    <3>2. L + j \in B /\ (L + j) - L = j
      BY <1>4, <1>6, <1>9
    <3>3. e[L + j] = i
      BY <2>1, <3>1, <3>2
    <3>4. QED
      BY <3>2, <3>3
  <2>5. ASSUME NEW j \in B, NEW k \in B, e[j] = e[k]  PROVE j = k
    <3>1. kept[j - L] = kept[k - L]
      BY <2>1, <2>5
    <3>2. j - L = k - L
      BY <1>4, <2>2, <3>1
    <3>3. QED
      BY <2>2, <3>2
  <2>6. \A k \in B : f[k] \in Int /\ f[k] = g[e[k]]
    <3>1. SUFFICES ASSUME NEW k \in B  PROVE f[k] \in Int /\ f[k] = g[e[k]]
      OBVIOUS
    <3>2. result'[k] = obs[e[k]]
      BY <1>7, <2>1, <2>2
    <3>3. f[k] = Weight(result'[k], s, a) /\ g[e[k]] = Weight(obs[e[k]], s, a)
      BY <1>13, <1>15, <2>3
    <3>4. QED
      BY <1>16, <3>2, <3>3
  <2>7. QED
    BY <1>4, <1>10, <2>3, <2>4, <2>5, <2>6, SumRenamed
<1>20. NetUnits(result', s, a) = SumFunctionOnSet(f, A \cup B)
  BY <1>11, <1>13, NetUnitsIsASum
<1>21. NetUnits(result, s, a) = SumFunctionOnSet(h, A)
  BY <1>11, <1>14, NetUnitsIsASum
<1>22. GroupUnits(s, a) = SumFunctionOnSet(g, E)
  BY <1>3, <1>15 DEF GroupUnits
<1>23. QED
  BY <1>17, <1>18, <1>19, <1>20, <1>21, <1>22

LEMMA PendingLoses ==
    ASSUME TypeOK, TypeOK', Retain, NEW s, NEW a
    PROVE  NetUnits(Pending, s, a) = NetUnits(Pending', s, a) + GroupUnits(s, a)
<1>1. todo' = todo \ {current} /\ obs' = obs /\ current \in todo
  BY DEF Retain, TypeOK
<1>2. PICK P : P = Open
  OBVIOUS
<1>3. PICK E : E = Edges(current)
  OBVIOUS
<1> DEFINE G == {i \in P : obs[i].symbol = current}
           R == P \ G
<1>4. /\ IsFiniteSet(P) /\ DOMAIN Pending = P
      /\ \A i \in P : obs[i] \in NetObligations /\ Pending[i] = obs[i]
  BY <1>2, OpenIsFinite
<1>5. IsFiniteSet(G) /\ IsFiniteSet(R) /\ G \cap R = {} /\ P = R \cup G /\ R \cap G = {}
  BY <1>4, FS_Subset
<1>6. DOMAIN Pending' = R /\ \A i \in R : Pending'[i] = obs[i]
  BY <1>1, <1>2 DEF Pending, Open
<1>7. E \in SUBSET G /\ \A i \in G \ E : obs[i].net_quantity = 0
  BY <1>1, <1>2, <1>3, <1>4 DEF Edges, Open, NetObligations, ObligationType
<1>8. PICK f : f = [i \in P |-> Weight(obs[i], s, a)]
  OBVIOUS
<1>9. PICK g : g = [i \in E |-> Weight(obs[i], s, a)]
  OBVIOUS
<1>10. PICK h : h = [i \in R |-> Weight(obs[i], s, a)]
  OBVIOUS
<1>11. \A i \in P : f[i] \in Int
  BY <1>4, <1>8, WeightType
<1>12. \A i \in G \ E : f[i] = 0
  BY <1>4, <1>7, <1>8, WeightType
<1>13. NetUnits(Pending, s, a) = SumFunctionOnSet(f, P)
  <2>1. f = [i \in P |-> Weight(Pending[i], s, a)]
    BY <1>4, <1>8
  <2>2. QED
    BY <1>4, <2>1, NetUnitsIsASum
<1>14. NetUnits(Pending', s, a) = SumFunctionOnSet(h, R)
  <2>1. h = [i \in R |-> Weight(Pending'[i], s, a)]
    BY <1>6, <1>10
  <2> HIDE DEF R
  <2>2. NetUnits(Pending', s, a)
          = SumFunctionOnSet([i \in DOMAIN Pending' |-> Weight(Pending'[i], s, a)],
                             DOMAIN Pending')
    BY NetUnitsIsASum
  <2>3. QED
    BY <1>6, <2>1, <2>2
<1>15. \A i \in R : f[i] = h[i]
  BY <1>8, <1>10
<1>16. \A i \in E : f[i] = g[i]
  BY <1>7, <1>8, <1>9
<1>17. \A i \in G : f[i] \in Int
  BY <1>11
<1> HIDE DEF G, R
<1>18. SumFunctionOnSet(f, P) = SumFunctionOnSet(f, R) + SumFunctionOnSet(f, G)
  <2>1. \A i \in R \cup G : f[i] \in Int
    BY <1>5, <1>11
  <2>2. SumFunctionOnSet(f, R \cup G) = SumFunctionOnSet(f, R) + SumFunctionOnSet(f, G)
    BY <1>5, <2>1, SumOfUnion
  <2>3. QED
    BY <1>5, <2>2
<1>19. SumFunctionOnSet(f, G) = SumFunctionOnSet(f, E)
  BY <1>5, <1>7, <1>12, <1>17, SumOverSupport
<1>20. SumFunctionOnSet(f, R) = SumFunctionOnSet(h, R)
  BY <1>5, <1>15, SumSame
<1>21. SumFunctionOnSet(f, E) = SumFunctionOnSet(g, E)
  <2>1. IsFiniteSet(E)
    BY <1>5, <1>7, FS_Subset
  <2>2. QED
    BY <1>16, <2>1, SumSame
<1>22. GroupUnits(s, a) = SumFunctionOnSet(g, E)
  BY <1>3, <1>9 DEF GroupUnits
<1>23. QED
  BY <1>13, <1>14, <1>18, <1>19, <1>20, <1>21, <1>22

LEMMA UnitsType ==
    ASSUME TypeOK, NEW s, NEW a
    PROVE  NetUnits(result, s, a) \in Int /\ GroupUnits(s, a) \in Int
<1>1. IsFiniteSet(DOMAIN result) /\ \A k \in DOMAIN result : result[k] \in NetObligations
  <2>1. DOMAIN result = 1..Len(result) /\ Len(result) \in Nat
    BY DEF TypeOK
  <2>2. \A k \in DOMAIN result : result[k] \in NetObligations
    BY DEF TypeOK
  <2>3. QED
    BY <2>1, <2>2, 1 \in Int, FS_Interval
<1>2. PICK f : f = [k \in DOMAIN result |-> Weight(result[k], s, a)]
  OBVIOUS
<1>3. PICK g : g = [i \in Edges(current) |-> Weight(obs[i], s, a)]
  OBVIOUS
<1>4. \A k \in DOMAIN result : f[k] \in Int
  BY <1>1, <1>2, WeightType
<1>5. \A i \in Edges(current) : g[i] \in Int
  BY <1>3, WeightType DEF Edges, TypeOK
<1>6. SumFunctionOnSet(f, DOMAIN result) \in Int
  BY <1>1, <1>4, SumType
<1>7. SumFunctionOnSet(g, Edges(current)) \in Int
  BY <1>5, FiniteEdges, SumType
<1>8. QED
  BY <1>2, <1>3, <1>6, <1>7, NetUnitsIsASum DEF GroupUnits

LEMMA PendingType ==
    ASSUME TypeOK, NEW s, NEW a
    PROVE  NetUnits(Pending, s, a) \in Int
<1>1. IsFiniteSet(Open) /\ DOMAIN Pending = Open
  BY OpenIsFinite
<1>2. PICK f : f = [i \in Open |-> Weight(Pending[i], s, a)]
  OBVIOUS
<1>3. \A i \in Open : f[i] \in Int
  BY <1>2, OpenIsFinite, WeightType
<1>4. SumFunctionOnSet(f, Open) \in Int
  BY <1>1, <1>3, SumType
<1>5. QED
  BY <1>1, <1>2, <1>4, NetUnitsIsASum

UnitsAreIntegers == \A s, a : NetUnits(Pending, s, a) \in Int

LEMMA PendingTypeNow == TypeOK => UnitsAreIntegers
BY PendingType DEF UnitsAreIntegers

LEMMA PendingTypeNext == TypeOK' => UnitsAreIntegers'
BY PendingTypeNow, PTL

(***************************************************************************)
(* Net deliveries with the types are inductive.                            *)
(***************************************************************************)
DeliveryInv == IInv /\ NetDeliveryPreserved

LEMMA CallKeepsDeliveries ==
    ASSUME NEW obligations \in Arguments, multilateral_net(obligations), IInv'
    PROVE  NetDeliveryPreserved'
<1>1. TypeOK'
  BY DEF IInv
<1>2. /\ argument' = obligations /\ obs' = obligations /\ result' = <<>>
      /\ todo' = {obligations[i].symbol : i \in DOMAIN obligations}
  BY DEF multilateral_net
<1>3. Pending' = argument'
  <2>1. {j \in DOMAIN obs' : obs'[j].symbol \in todo'} = DOMAIN obligations
    BY <1>2
  <2>2. Pending' = [i \in DOMAIN obligations |-> obligations[i]]
    BY <1>2, <2>1 DEF Pending
  <2>3. obligations \in Seq(NetObligations)
    BY MultilateralAssumption
  <2>4. obligations = [i \in DOMAIN obligations |-> obligations[i]]
    BY <2>3
  <2>5. QED
    BY <1>2, <2>2, <2>4
<1>4. SUFFICES ASSUME NEW s \in Symbols, NEW a \in Accounts
               PROVE  NetUnits(result', s, a) + NetUnits(Pending', s, a)
                        = NetUnits(argument', s, a)
  BY DEF NetDeliveryPreserved
<1>5. NetUnits(result', s, a) = 0
  <2>1. DOMAIN result' = {}
    BY <1>2
  <2>2. NetUnits(result', s, a)
          = SumFunctionOnSet([i \in DOMAIN result' |-> Weight(result'[i], s, a)],
                             DOMAIN result')
    BY NetUnitsIsASum
  <2>3. PICK f : f = [i \in DOMAIN result' |-> Weight(result'[i], s, a)]
    OBVIOUS
  <2>4. SumFunctionOnSet(f, {}) = 0
    BY SumOfNothing
  <2>5. QED
    BY <2>1, <2>2, <2>3, <2>4
<1>6. NetUnits(Pending', s, a) \in Int
  BY <1>1, PendingTypeNext DEF UnitsAreIntegers
<1>7. NetUnits(Pending', s, a) = NetUnits(argument', s, a)
  BY <1>3
<1>8. QED
  BY <1>5, <1>6, <1>7

LEMMA RetainKeepsDeliveries ==
    ASSUME IInv, IInv', NetDeliveryPreserved, Retain
    PROVE  NetDeliveryPreserved'
<1>1. TypeOK /\ TypeOK' /\ argument' = argument
  BY DEF IInv, Retain
<1>2. SUFFICES ASSUME NEW s \in Symbols, NEW a \in Accounts
               PROVE  NetUnits(result', s, a) + NetUnits(Pending', s, a)
                        = NetUnits(argument', s, a)
  BY DEF NetDeliveryPreserved
<1>3. PICK r : r = NetUnits(result, s, a)
  OBVIOUS
<1>4. PICK g : g = GroupUnits(s, a)
  OBVIOUS
<1>5. PICK p : p = NetUnits(Pending', s, a)
  OBVIOUS
<1>6. NetUnits(result', s, a) = r + g
  BY <1>1, <1>3, <1>4, ResultGains
<1>7. NetUnits(Pending, s, a) = p + g
  BY <1>1, <1>4, <1>5, PendingLoses
<1>8. r \in Int /\ g \in Int
  BY <1>1, <1>3, <1>4, UnitsType
<1>9. p \in Int
  BY <1>1, <1>5, PendingTypeNext DEF UnitsAreIntegers
<1>10. r + (p + g) = NetUnits(argument, s, a)
  BY <1>3, <1>7 DEF NetDeliveryPreserved
<1>11. (r + g) + p = r + (p + g)
  BY <1>8, <1>9
<1>12. NetUnits(argument', s, a) = NetUnits(argument, s, a)
  BY <1>1
<1>13. QED
  BY <1>5, <1>6, <1>10, <1>11, <1>12

LEMMA InitDelivery == Init => DeliveryInv
<1>1. SUFFICES ASSUME Init  PROVE NetDeliveryPreserved
  BY InitInv DEF DeliveryInv
<1>2. argument = <<>> /\ obs = <<>> /\ result = <<>>
  BY <1>1 DEF Init
<1>3. DOMAIN Pending = {} /\ DOMAIN result = {} /\ DOMAIN argument = {}
  BY <1>2 DEF Pending
<1>4. ASSUME NEW f, DOMAIN f = {}, NEW s, NEW a  PROVE NetUnits(f, s, a) = 0
  <2>1. PICK g : g = [i \in DOMAIN f |-> Weight(f[i], s, a)]
    OBVIOUS
  <2>2. SumFunctionOnSet(g, {}) = 0
    BY SumOfNothing
  <2>3. QED
    BY <1>4, <2>1, <2>2, NetUnitsIsASum
<1>5. SUFFICES ASSUME NEW s \in Symbols, NEW a \in Accounts
               PROVE  NetUnits(result, s, a) + NetUnits(Pending, s, a) = NetUnits(argument, s, a)
  BY DEF NetDeliveryPreserved
<1>6. /\ NetUnits(result, s, a) = 0 /\ NetUnits(Pending, s, a) = 0
      /\ NetUnits(argument, s, a) = 0
  BY <1>3, <1>4
<1>7. QED
  BY <1>6

LEMMA InitDeliveryNext == Init' => DeliveryInv'
BY InitDelivery, PTL

LEMMA NextDelivery == DeliveryInv /\ [Next]_vars => DeliveryInv'
<1> SUFFICES ASSUME DeliveryInv, [Next]_vars PROVE DeliveryInv'
  OBVIOUS
<1>1. IInv /\ IInv' /\ NetDeliveryPreserved
  BY NextInv DEF DeliveryInv
<1>2. SUFFICES NetDeliveryPreserved'
  BY <1>1 DEF DeliveryInv
<1>3. ASSUME NEW obligations \in Arguments, multilateral_net(obligations)
      PROVE  NetDeliveryPreserved'
  BY <1>1, <1>3, CallKeepsDeliveries
<1>4. CASE CancelCycle
  <2>1. argument' = argument /\ result' = result
    BY <1>4 DEF CancelCycle
  <2>2. SUFFICES ASSUME NEW s \in Symbols, NEW a \in Accounts
                 PROVE  NetUnits(result', s, a) + NetUnits(Pending', s, a)
                          = NetUnits(argument', s, a)
    BY DEF NetDeliveryPreserved
  <2>3. NetUnits(Pending', s, a) = NetUnits(Pending, s, a)
    <3>1. NetUnits(Pending, s, a)' = NetUnits(Pending, s, a)
      BY <1>1, <1>4, CancelKeepsDeliveries
    <3>2. QED
      BY <3>1
  <2>4. QED
    BY <1>1, <2>1, <2>3 DEF NetDeliveryPreserved
<1>5. CASE Retain
  BY <1>1, <1>5, RetainKeepsDeliveries
<1>6. ASSUME UNCHANGED <<argument, obs, todo, result>>
      PROVE  NetDeliveryPreserved'
  <2>1. Pending' = Pending /\ result' = result /\ argument' = argument
    BY <1>6 DEF Pending
  <2>2. QED
    BY <1>1, <2>1 DEF NetDeliveryPreserved
<1>7. ASSUME NEW s \in Symbols, NextGroup(s)  PROVE NetDeliveryPreserved'
  BY <1>6, <1>7 DEF NextGroup
<1>8. CASE UNCHANGED vars
  BY <1>6, <1>8 DEF vars
<1>9. CASE drop
  BY <1>9, DropInits, InitDeliveryNext DEF DeliveryInv
<1>10. QED
  BY <1>3, <1>4, <1>5, <1>7, <1>8, <1>9 DEF Next, Step

(***************************************************************************)
(* Multilateral netting, however it groups the obligations and whichever   *)
(* cycles it cancels, changes no account's net delivery in any symbol.     *)
(***************************************************************************)
THEOREM MultilateralKeepsDeliveries == Spec => []NetDeliveryPreserved
<1>1. DeliveryInv => NetDeliveryPreserved
  BY DEF DeliveryInv
<1>2. QED
  BY <1>1, InitDelivery, NextDelivery, PTL DEF Spec

-----------------------------------------------------------------------------
(***************************************************************************)
(* The arithmetic of the average price.  With payment p and quantity q,    *)
(* of an original payment P and quantity Q, the excess |p| * Q - |P| * q   *)
(* of the remaining payment over its share shrinks with the quantity and   *)
(* then grows by the truncation, which is less than one tick.              *)
(***************************************************************************)
LEMMA ExcessEquation ==
    ASSUME NEW a \in Nat, NEW A \in Nat, NEW Q \in Nat, NEW q \in Nat, NEW m \in Nat,
           NEW d \in Int, NEW r \in Int, a * m = q * d + r
    PROVE  q * ((a - d) * Q - A * (q - m)) = (q - m) * (a * Q - A * q) + r * Q
<1>1. q * ((a - d) * Q - A * (q - m)) = q * a * Q - (q * d) * Q - q * A * q + q * A * m
  OBVIOUS
<1>2. (q * d) * Q = (a * m) * Q - r * Q
  <2>1. PICK u : u = q * d
    OBVIOUS
  <2>2. PICK v : v = a * m
    OBVIOUS
  <2>3. u \in Int /\ v \in Int /\ u = v - r
    BY <2>1, <2>2
  <2>4. u * Q = v * Q - r * Q
    BY <2>3
  <2>5. QED
    BY <2>1, <2>2, <2>4
<1>3. (q - m) * (a * Q - A * q) = q * a * Q - (a * m) * Q - q * A * q + q * A * m
  OBVIOUS
<1>4. PICK k1 : k1 = q * a * Q
  OBVIOUS
<1>5. PICK k2 : k2 = (a * m) * Q
  OBVIOUS
<1>6. PICK k3 : k3 = r * Q
  OBVIOUS
<1>7. PICK k4 : k4 = q * A * q
  OBVIOUS
<1>8. PICK k5 : k5 = q * A * m
  OBVIOUS
<1>9. k1 \in Int /\ k2 \in Int /\ k3 \in Int /\ k4 \in Int /\ k5 \in Int
  BY <1>4, <1>5, <1>6, <1>7, <1>8
<1>10. k1 - (k2 - k3) - k4 + k5 = (k1 - k2 - k4 + k5) + k3
  BY <1>9
<1>11. QED
  BY <1>1, <1>2, <1>3, <1>4, <1>5, <1>6, <1>7, <1>8, <1>10

LEMMA ExcessBound ==
    ASSUME NEW a \in Nat, NEW A \in Nat, NEW Q \in Nat, NEW q \in Nat \ {0}, NEW m \in 1..q,
           a * Q - A * q >= 0
    PROVE  LET y == (a - ((a * m) \div q)) * Q - A * (q - m)
           IN  0 <= y /\ y <= (a * Q - A * q) + Q
<1>1. PICK d : d = (a * m) \div q
  OBVIOUS
<1>2. PICK r : r = (a * m) % q
  OBVIOUS
<1>3. m \in Nat /\ a * m \in Int
  OBVIOUS
<1>4. d \in Int /\ r \in 0..q-1 /\ a * m = q * d + r
  BY <1>1, <1>2, <1>3, DivMod
<1>5. PICK x : x = a * Q - A * q
  OBVIOUS
<1>6. PICK y : y = (a - d) * Q - A * (q - m)
  OBVIOUS
<1>7. x \in Nat /\ y \in Int /\ r \in Nat
  BY <1>4, <1>5, <1>6
<1>8. q * y = (q - m) * x + r * Q
  BY <1>3, <1>4, <1>5, <1>6, <1>7, ExcessEquation
<1>9. q - m \in Nat /\ q - m <= q /\ r <= q
  BY <1>4
<1>10. (q - m) * x \in Nat /\ (q - m) * x <= q * x
  BY <1>7, <1>9
<1>11. r * Q \in Nat /\ r * Q <= q * Q
  BY <1>7, <1>9
<1>12. q * y >= 0 /\ q * y <= q * x + q * Q
  <2>1. PICK u : u = (q - m) * x
    OBVIOUS
  <2>2. PICK v : v = r * Q
    OBVIOUS
  <2>3. PICK u2 : u2 = q * x
    OBVIOUS
  <2>4. PICK v2 : v2 = q * Q
    OBVIOUS
  <2>5. PICK w : w = q * y
    OBVIOUS
  <2>6. /\ u \in Nat /\ v \in Nat /\ u <= u2 /\ v <= v2 /\ w = u + v
        /\ u2 \in Int /\ v2 \in Int
    BY <1>7, <1>8, <1>10, <1>11, <2>1, <2>2, <2>3, <2>4, <2>5
  <2>7. w >= 0 /\ w <= u2 + v2
    BY <2>6
  <2>8. QED
    BY <2>3, <2>4, <2>5, <2>7
<1>13. 0 <= y
  <2>1. SUFFICES ASSUME y <= -1  PROVE FALSE
    BY <1>7
  <2>2. q * y <= -q
    BY <1>7, <2>1
  <2>3. q * y \in Int
    BY <1>7
  <2>4. QED
    BY <1>12, <2>2, <2>3
<1>14. y <= x + Q
  <2>1. SUFFICES ASSUME y >= x + Q + 1  PROVE FALSE
    BY <1>7
  <2>2. q * y >= q * (x + Q + 1)
    <3>1. q * (x + Q + 1) <= q * y
      BY <1>7, <2>1, ProductMonotonic
    <3>2. QED
      BY <1>7, <3>1
  <2>3. q * (x + Q + 1) = q * x + q * Q + q
    BY <1>7
  <2>4. PICK u : u = q * x + q * Q
    OBVIOUS
  <2>5. PICK w : w = q * y
    OBVIOUS
  <2>6. u \in Int /\ w \in Int /\ w <= u /\ w >= u + q
    BY <1>7, <1>12, <2>2, <2>3, <2>4, <2>5
  <2>7. QED
    BY <2>6
<1>15. QED
  BY <1>1, <1>5, <1>6, <1>13, <1>14

(***************************************************************************)
(* The magnitude of what is left of a payment.                             *)
(***************************************************************************)
LEMMA ReducedMagnitude ==
    ASSUME NEW ob \in NetObligations, NEW m \in 1..ob.net_quantity
    PROVE  LET a == Magnitude(ob.net_payment)
           IN  /\ a \in Nat
               /\ Magnitude(Reduced(ob, m).net_payment) = a - ((a * m) \div ob.net_quantity)
<1>1. PICK q : q = ob.net_quantity
  OBVIOUS
<1>2. PICK p : p = ob.net_payment
  OBVIOUS
<1>3. q \in Nat \ {0} /\ p \in Int /\ m \in Nat \ {0} /\ m <= q
  BY <1>1, <1>2 DEF NetObligations, ObligationType
<1>4. Reduced(ob, m).net_payment = p - TruncDiv(p * m, q)
  BY <1>1, <1>2 DEF Reduced, NetObligations, ObligationType
<1>5. PICK a : a = Magnitude(p)
  OBVIOUS
<1>6. a \in Nat
  BY <1>3, <1>5 DEF Magnitude
<1>7. (a * m) \div q \in 0..a
  BY <1>3, <1>6, ProductBound, DivBound
<1>8. CASE p >= 0
  <2>1. a = p /\ p * m >= 0
    BY <1>3, <1>5, <1>8 DEF Magnitude
  <2>2. TruncDiv(p * m, q) = (a * m) \div q
    BY <2>1 DEF TruncDiv
  <2>3. Magnitude(p - TruncDiv(p * m, q)) = a - ((a * m) \div q)
    BY <1>3, <1>6, <1>7, <2>1, <2>2 DEF Magnitude
  <2>4. QED
    BY <1>1, <1>2, <1>4, <1>5, <1>6, <2>3
<1>9. CASE p < 0
  <2>1. a = -p /\ ~(p * m >= 0) /\ -(p * m) = a * m
    BY <1>3, <1>5, <1>9 DEF Magnitude
  <2>2. PICK t : t = (a * m) \div q
    OBVIOUS
  <2>3. TruncDiv(p * m, q) = -t
    BY <2>1, <2>2 DEF TruncDiv
  <2>4. t \in 0..a /\ p = -a
    BY <1>3, <1>7, <2>1, <2>2
  <2>5. Magnitude(p - TruncDiv(p * m, q)) = a - t
    BY <1>6, <2>3, <2>4 DEF Magnitude
  <2>6. QED
    BY <1>1, <1>2, <1>4, <1>5, <1>6, <2>2, <2>5
<1>10. QED
  BY <1>3, <1>8, <1>9

(***************************************************************************)
(* The inductive invariant of the average price: an obligation is at most  *)
(* one tick per settled obligation above its share.                        *)
(***************************************************************************)
Excess(ob, before) ==
    Magnitude(ob.net_payment) * before.net_quantity
      - Magnitude(before.net_payment) * ob.net_quantity

Settled == Len(argument) - Cardinality(Live)

ExcessBounded ==
    \A i \in DOMAIN obs :
        Excess(obs[i], argument[i]) \in 0 .. Settled * argument[i].net_quantity

PriceInv == IInv /\ ExcessBounded

LEMMA LiveIsFinite ==
    ASSUME TypeOK
    PROVE  /\ DOMAIN obs = 1..Len(argument) /\ Len(argument) \in Nat
           /\ IsFiniteSet(Live) /\ Cardinality(Live) \in Nat
           /\ Settled \in Nat
<1>1. DOMAIN obs = 1..Len(argument) /\ Len(argument) \in Nat
  BY DEF TypeOK
<1>2. /\ IsFiniteSet(1..Len(argument))
      /\ Cardinality(1..Len(argument)) = Len(argument)
  BY <1>1, 1 \in Int, FS_Interval
<1>3. Live \in SUBSET (1..Len(argument))
  BY <1>1 DEF Live
<1>4. IsFiniteSet(Live) /\ Cardinality(Live) <= Len(argument)
  BY <1>2, <1>3, FS_Subset
<1>5. Cardinality(Live) \in Nat
  BY <1>4, FS_CardinalityType
<1>6. QED
  BY <1>1, <1>4, <1>5 DEF Settled

LiveCounted == Cardinality(Live) \in Nat /\ Settled \in Nat

LEMMA LiveCountedNow == TypeOK => LiveCounted
BY LiveIsFinite DEF LiveCounted

LEMMA LiveCountedNext == TypeOK' => LiveCounted'
BY LiveCountedNow, PTL

LEMMA ExcessType ==
    ASSUME NEW ob \in NetObligations, NEW before \in NetObligations
    PROVE  /\ Excess(ob, before) \in Int
           /\ before.net_quantity \in Nat /\ ob.net_quantity \in Nat
           /\ ob.net_payment \in Int
           /\ Magnitude(ob.net_payment) \in Nat /\ Magnitude(before.net_payment) \in Nat
<1>1. /\ before.net_quantity \in Nat /\ ob.net_quantity \in Nat
      /\ ob.net_payment \in Int /\ before.net_payment \in Int
  BY DEF NetObligations, ObligationType
<1>2. Magnitude(ob.net_payment) \in Nat /\ Magnitude(before.net_payment) \in Nat
  BY <1>1 DEF Magnitude
<1>3. QED
  BY <1>1, <1>2 DEF Excess

LEMMA ReducedExcess ==
    ASSUME NEW ob \in NetObligations, NEW before \in NetObligations, NEW b \in Nat,
           Excess(ob, before) \in 0 .. b * before.net_quantity, NEW m \in 1..ob.net_quantity
    PROVE  Excess(Reduced(ob, m), before) \in 0 .. (b + 1) * before.net_quantity
<1>1. PICK a : a = Magnitude(ob.net_payment)
  OBVIOUS
<1>2. PICK A : A = Magnitude(before.net_payment)
  OBVIOUS
<1>3. PICK q : q = ob.net_quantity
  OBVIOUS
<1>4. PICK Q : Q = before.net_quantity
  OBVIOUS
<1>5. a \in Nat /\ A \in Nat /\ q \in Nat \ {0} /\ Q \in Nat /\ m \in 1..q
  BY <1>1, <1>2, <1>3, <1>4, ExcessType
<1>6. a * Q - A * q \in 0 .. b * Q
  BY <1>1, <1>2, <1>3, <1>4 DEF Excess
<1>7. PICK d : d = (a * m) \div q
  OBVIOUS
<1>8. Magnitude(Reduced(ob, m).net_payment) = a - d /\ Reduced(ob, m).net_quantity = q - m
  BY <1>1, <1>3, <1>7, ReducedMagnitude, ReducedFields
<1>9. PICK y : y = (a - d) * Q - A * (q - m)
  OBVIOUS
<1>10. PICK x : x = a * Q - A * q
  OBVIOUS
<1>11. 0 <= y /\ y <= x + Q
  <2>1. x >= 0
    BY <1>5, <1>6, <1>10
  <2>2. QED
    BY <1>5, <1>7, <1>9, <1>10, <2>1, ExcessBound
<1>12. d \in Int
  BY <1>5, <1>7
<1>13. y \in Int /\ x \in Int
  BY <1>5, <1>9, <1>10, <1>12
<1>14. (b + 1) * Q = b * Q + Q /\ b * Q \in Int
  BY <1>5
<1>15. PICK k : k = b * Q
  OBVIOUS
<1>16. y \in 0 .. k + Q
  BY <1>5, <1>6, <1>10, <1>11, <1>13, <1>14, <1>15
<1>17. Excess(Reduced(ob, m), before) = y
  BY <1>2, <1>4, <1>8, <1>9 DEF Excess
<1>18. QED
  BY <1>4, <1>14, <1>15, <1>16, <1>17

(***************************************************************************)
(* A cancellation settles an obligation, and adds at most a tick to each.  *)
(***************************************************************************)
LEMMA CancelPrice ==
    ASSUME PriceInv, CancelCycle
    PROVE  ExcessBounded'
<1>1. TypeOK /\ IInv /\ IInv' /\ TypeOK' /\ argument' = argument
  BY CancelInv DEF PriceInv, IInv, CancelCycle
<1>2. PICK E \in SUBSET Live, bottleneck \in Live :
        LET m == obs[bottleneck].net_quantity IN
        /\ bottleneck \in E
        /\ \A i \in E : m \in 1..obs[i].net_quantity
        /\ obs' = [i \in DOMAIN obs |-> IF i \in E THEN Reduced(obs[i], m) ELSE obs[i]]
  BY <1>1, CancelReduces
<1>3. PICK m : m = obs[bottleneck].net_quantity
  OBVIOUS
<1>4. PICK b : b = Settled
  OBVIOUS
<1>5. PICK b2 : b2 = Settled'
  OBVIOUS
<1>6. b \in Nat /\ b2 \in Nat /\ b + 1 <= b2
  <2>1. Live' \subseteq Live /\ Live' # Live
    BY <1>1, CancelRetires
  <2>2. IsFiniteSet(Live) /\ Live' \in SUBSET Live
    BY <1>1, <2>1, LiveIsFinite
  <2>3. Cardinality(Live') <= Cardinality(Live) /\ Cardinality(Live') # Cardinality(Live)
    BY <2>1, <2>2, FS_Subset
  <2>4. /\ Cardinality(Live') \in Nat /\ Cardinality(Live) \in Nat
        /\ Len(argument) \in Nat /\ b \in Nat /\ b2 \in Nat
    BY <1>1, <1>4, <1>5, LiveIsFinite, LiveCountedNext DEF LiveCounted
  <2>5. b = Len(argument) - Cardinality(Live) /\ b2 = Len(argument) - Cardinality(Live')
    BY <1>1, <1>4, <1>5 DEF Settled
  <2>6. QED
    BY <2>3, <2>4, <2>5
<1>7. ASSUME NEW i \in DOMAIN obs
      PROVE  Excess(obs'[i], argument[i]) \in 0 .. b2 * argument[i].net_quantity
  <2>1. obs[i] \in NetObligations /\ argument[i] \in NetObligations
    BY <1>1 DEF TypeOK
  <2>2. Excess(obs[i], argument[i]) \in 0 .. b * argument[i].net_quantity
    BY <1>4 DEF PriceInv, ExcessBounded
  <2>3. PICK Q : Q = argument[i].net_quantity
    OBVIOUS
  <2>4. Q \in Nat
    BY <2>1, <2>3, ExcessType
  <2>5. (b + 1) * Q <= b2 * Q /\ b * Q <= b2 * Q
    BY <1>6, <2>4
  <2>6. CASE i \in E
    <3>1. obs'[i] = Reduced(obs[i], m) /\ m \in 1..obs[i].net_quantity
      BY <1>2, <1>3, <2>6
    <3>2. Excess(obs'[i], argument[i]) \in 0 .. (b + 1) * argument[i].net_quantity
      BY <1>6, <2>1, <2>2, <3>1, ReducedExcess
    <3>3. PICK y : y = Excess(obs'[i], argument[i])
      OBVIOUS
    <3>4. y \in 0 .. (b + 1) * Q
      BY <2>3, <3>2, <3>3
    <3>5. y \in 0 .. b2 * Q
      <4>1. PICK k1 : k1 = (b + 1) * Q
        OBVIOUS
      <4>2. PICK k2 : k2 = b2 * Q
        OBVIOUS
      <4>3. k1 \in Int /\ k2 \in Int /\ k1 <= k2 /\ y \in 0 .. k1
        BY <1>6, <2>4, <2>5, <3>4, <4>1, <4>2
      <4>4. QED
        BY <4>2, <4>3
    <3>6. QED
      BY <2>3, <3>3, <3>5
  <2>7. CASE i \notin E
    <3>1. obs'[i] = obs[i]
      BY <1>2, <2>7
    <3>2. PICK y : y = Excess(obs[i], argument[i])
      OBVIOUS
    <3>3. y \in 0 .. b * Q
      BY <2>2, <2>3, <3>2
    <3>4. y \in 0 .. b2 * Q
      <4>1. PICK k1 : k1 = b * Q
        OBVIOUS
      <4>2. PICK k2 : k2 = b2 * Q
        OBVIOUS
      <4>3. k1 \in Int /\ k2 \in Int /\ k1 <= k2 /\ y \in 0 .. k1
        BY <1>6, <2>4, <2>5, <3>3, <4>1, <4>2
      <4>4. QED
        BY <4>2, <4>3
    <3>5. QED
      BY <2>3, <3>1, <3>2, <3>4
  <2>8. QED
    BY <2>6, <2>7
<1>8. DOMAIN obs' = DOMAIN obs
  BY <1>2
<1>9. QED
  BY <1>1, <1>5, <1>7, <1>8 DEF ExcessBounded

LEMMA CallPrice ==
    ASSUME NEW obligations \in Arguments, multilateral_net(obligations), IInv'
    PROVE  ExcessBounded'
<1>1. argument' = obligations /\ obs' = obligations /\ TypeOK'
  BY DEF multilateral_net, IInv
<1>2. \A i \in DOMAIN obligations : obligations[i] \in NetObligations
  BY <1>1 DEF TypeOK
<1>3. Settled' \in Nat
  BY <1>1, LiveCountedNext DEF LiveCounted
<1>4. ASSUME NEW i \in DOMAIN obligations
      PROVE  Excess(obligations[i], obligations[i])
               \in 0 .. Settled' * obligations[i].net_quantity
  <2>1. PICK Q : Q = obligations[i].net_quantity
    OBVIOUS
  <2>2. PICK a : a = Magnitude(obligations[i].net_payment)
    OBVIOUS
  <2>3. Q \in Nat /\ a \in Nat
    BY <1>2, <2>1, <2>2, ExcessType
  <2>4. a * Q - a * Q = 0
    BY <2>3
  <2>5. PICK b : b = Settled'
    OBVIOUS
  <2>6. 0 \in 0 .. b * Q
    <3>1. b \in Nat
      BY <1>3, <2>5
    <3>2. b * Q \in Nat
      BY <2>3, <3>1
    <3>3. QED
      BY <3>2
  <2>7. Excess(obligations[i], obligations[i]) = 0
    BY <2>1, <2>2, <2>4 DEF Excess
  <2>8. QED
    BY <2>1, <2>5, <2>6, <2>7
<1>5. QED
  BY <1>1, <1>4 DEF ExcessBounded

LEMMA InitPrice == Init => PriceInv
<1>1. SUFFICES ASSUME Init  PROVE ExcessBounded
  BY InitInv DEF PriceInv
<1>2. DOMAIN obs = {}
  BY <1>1 DEF Init
<1>3. QED
  BY <1>2 DEF ExcessBounded

LEMMA InitPriceNext == Init' => PriceInv'
BY InitPrice, PTL

LEMMA NextPrice == PriceInv /\ [Next]_vars => PriceInv'
<1> SUFFICES ASSUME PriceInv, [Next]_vars PROVE PriceInv'
  OBVIOUS
<1>1. IInv /\ IInv' /\ ExcessBounded
  BY NextInv DEF PriceInv
<1>2. SUFFICES ExcessBounded'
  BY <1>1 DEF PriceInv
<1>3. ASSUME NEW obligations \in Arguments, multilateral_net(obligations)
      PROVE  ExcessBounded'
  BY <1>1, <1>3, CallPrice
<1>4. CASE CancelCycle
  BY <1>4, CancelPrice
<1>5. ASSUME argument' = argument, obs' = obs  PROVE ExcessBounded'
  <2>1. Settled' = Settled
    BY <1>5 DEF Settled, Live
  <2>2. QED
    BY <1>1, <1>5, <2>1 DEF ExcessBounded
<1>6. ASSUME NEW s \in Symbols, NextGroup(s)  PROVE ExcessBounded'
  BY <1>5, <1>6 DEF NextGroup
<1>7. CASE Retain
  BY <1>5, <1>7 DEF Retain
<1>8. CASE UNCHANGED vars
  BY <1>5, <1>8 DEF vars
<1>9. CASE drop
  BY <1>9, DropInits, InitPriceNext DEF PriceInv
<1>10. QED
  BY <1>3, <1>4, <1>6, <1>7, <1>8, <1>9 DEF Next, Step

LEMMA PriceIsKept ==
    ASSUME PriceInv
    PROVE  AveragePriceKept
<1>1. TypeOK /\ OnlyShrinks /\ ExcessBounded
  BY DEF PriceInv, IInv
<1>2. /\ DOMAIN obs = 1..Len(argument) /\ Len(argument) \in Nat
      /\ IsFiniteSet(Live) /\ Cardinality(Live) \in Nat /\ Settled \in Nat
  BY <1>1, LiveIsFinite
<1>3. SUFFICES ASSUME NEW i \in DOMAIN obs
               PROVE  Excess(obs[i], argument[i])
                        \in 0 .. (Len(argument) - 1) * argument[i].net_quantity
  BY DEF AveragePriceKept, Excess
<1>4. obs[i] \in NetObligations /\ argument[i] \in NetObligations
  BY <1>1 DEF TypeOK
<1>5. PICK Q : Q = argument[i].net_quantity
  OBVIOUS
<1>6. PICK q : q = obs[i].net_quantity
  OBVIOUS
<1>7. PICK y : y = Excess(obs[i], argument[i])
  OBVIOUS
<1>8. PICK A : A = Magnitude(argument[i].net_payment)
  OBVIOUS
<1>9. PICK a : a = Magnitude(obs[i].net_payment)
  OBVIOUS
<1>10. Q \in Nat /\ q \in Nat /\ y \in Int /\ A \in Nat /\ a \in Nat /\ q <= Q
  BY <1>1, <1>4, <1>5, <1>6, <1>7, <1>8, <1>9, ExcessType DEF OnlyShrinks, Shrunk
<1>11. y = a * Q - A * q
  BY <1>5, <1>6, <1>7, <1>8, <1>9 DEF Excess
<1>12. PICK b : b = Len(argument) - 1
  OBVIOUS
<1>13. b \in Nat
  BY <1>2, <1>12
<1>14. CASE q > 0
  <2>1. i \in Live
    BY <1>6, <1>14 DEF Live
  <2>2. Cardinality(Live) # 0
    BY <1>2, <2>1, FS_EmptySet
  <2>3. Settled <= b
    BY <1>2, <1>12, <2>2 DEF Settled
  <2>4. y \in 0 .. Settled * Q
    BY <1>1, <1>5, <1>7 DEF ExcessBounded
  <2>5. PICK z : z = Settled
    OBVIOUS
  <2>6. z \in Nat /\ z <= b /\ y \in 0 .. z * Q
    BY <1>2, <2>3, <2>4, <2>5
  <2>7. z * Q <= b * Q
    BY <1>10, <1>13, <2>6
  <2>8. y \in 0 .. b * Q
    <3>1. PICK k1 : k1 = z * Q
      OBVIOUS
    <3>2. PICK k2 : k2 = b * Q
      OBVIOUS
    <3>3. k1 \in Int /\ k2 \in Int /\ k1 <= k2 /\ y \in 0 .. k1
      BY <1>10, <1>13, <2>6, <2>7, <3>1, <3>2
    <3>4. QED
      BY <3>2, <3>3
  <2>9. QED
    BY <1>5, <1>7, <1>12, <2>8
<1>15. CASE q = 0
  <2>1. A * q = 0
    BY <1>10, <1>15
  <2>2. a * Q = 0
    <3>1. CASE Q = 0
      BY <1>10, <3>1
    <3>2. CASE Q > 0
      <4>1. obs[i].net_payment = 0
        BY <1>1, <1>5, <1>6, <1>15, <3>2 DEF OnlyShrinks, Shrunk
      <4>2. a = 0
        BY <1>9, <4>1 DEF Magnitude
      <4>3. QED
        BY <1>10, <4>2
    <3>3. QED
      BY <1>10, <3>1, <3>2
  <2>3. y = 0
    BY <1>11, <2>1, <2>2
  <2>4. 0 \in 0 .. b * Q
    BY <1>10, <1>13
  <2>5. QED
    BY <1>5, <1>7, <1>12, <2>3, <2>4
<1>16. QED
  BY <1>10, <1>14, <1>15

(***************************************************************************)
(* The reduction of a payment is proportional up to rounding: after any    *)
(* number of cancellations what is left of it exceeds its share by less    *)
(* than a tick per other obligation, and never falls below.                *)
(***************************************************************************)
THEOREM PricesAreKept == Spec => []AveragePriceKept
<1>1. PriceInv => AveragePriceKept
  BY PriceIsKept
<1>2. QED
  BY <1>1, InitPrice, NextPrice, PTL DEF Spec

-----------------------------------------------------------------------------
(***************************************************************************)
(* At an integral price nothing is lost to truncation: an obligation that  *)
(* is reduced keeps its price exactly.                                     *)
(***************************************************************************)
LEMMA TruncDivExact ==
    ASSUME NEW k \in Int, NEW q \in Nat \ {0}
    PROVE  TruncDiv(q * k, q) = k
<1>1. CASE q * k >= 0
  <2>1. q * k \in Int /\ q * k = q * k + 0 /\ 0 \in 0 .. q - 1
    OBVIOUS
  <2>2. (q * k) \div q = k
    BY <2>1, DivModUnique
  <2>3. QED
    BY <1>1, <2>2 DEF TruncDiv
<1>2. CASE ~(q * k >= 0)
  <2>1. -(q * k) \in Int /\ -(q * k) = q * (-k) + 0 /\ 0 \in 0 .. q - 1 /\ -k \in Int
    OBVIOUS
  <2>2. (-(q * k)) \div q = -k
    BY <2>1, DivModUnique
  <2>3. QED
    BY <1>2, <2>2 DEF TruncDiv
<1>3. QED
  BY <1>1, <1>2

LEMMA TruncDivType ==
    ASSUME NEW n \in Int, NEW q \in Nat \ {0}
    PROVE  TruncDiv(n, q) \in Int
<1>1. n \div q \in Int /\ (-n) \div q \in Int
  BY DivMod
<1>2. QED
  BY <1>1 DEF TruncDiv

LEMMA ReducedPrice ==
    ASSUME NEW ob \in NetObligations, NEW m \in 1..ob.net_quantity, NEW price \in Int,
           ob.net_payment = price * ob.net_quantity
    PROVE  Reduced(ob, m).net_payment = price * Reduced(ob, m).net_quantity
<1>1. PICK q : q = ob.net_quantity
  OBVIOUS
<1>2. q \in Nat \ {0} /\ m \in Nat /\ price * m \in Int
  BY <1>1 DEF NetObligations, ObligationType
<1>3. ob.net_payment * m = q * (price * m)
  BY <1>1, <1>2
<1>4. TruncDiv(ob.net_payment * m, q) = price * m
  BY <1>2, <1>3, TruncDivExact
<1>5. Reduced(ob, m) = [ob EXCEPT !.net_quantity = q - m,
                                  !.net_payment  = price * q - price * m]
  BY <1>1, <1>4 DEF Reduced
<1>6. Reduced(ob, m).net_payment = price * q - price * m
  BY <1>5 DEF NetObligations, ObligationType
<1>7. Reduced(ob, m).net_quantity = q - m
  BY <1>1, ReducedFields
<1>8. price * q - price * m = price * (q - m)
  BY <1>2
<1>9. QED
  BY <1>6, <1>7, <1>8

(***************************************************************************)
(* A symbol that has one price in the argument keeps it, in the groups     *)
(* still in work and in the result.                                        *)
(***************************************************************************)
PricedAt(f, s, price) ==
    \A i \in DOMAIN f : f[i].symbol = s => f[i].net_payment = price * f[i].net_quantity

OnePriceKept ==
    \A s, price : price \in Int /\ OnePrice(s, price) =>
        PricedAt(obs, s, price) /\ PricedAt(result, s, price)

OnePriceInv == IInv /\ OnePriceKept

LEMMA CancelKeepsPrice ==
    ASSUME OnePriceInv, CancelCycle
    PROVE  OnePriceKept'
<1>1. PICK E \in SUBSET Live, bottleneck \in Live :
        LET m == obs[bottleneck].net_quantity IN
        /\ bottleneck \in E
        /\ \A i \in E : m \in 1..obs[i].net_quantity
        /\ obs' = [i \in DOMAIN obs |-> IF i \in E THEN Reduced(obs[i], m) ELSE obs[i]]
  BY CancelReduces DEF OnePriceInv, IInv
<1>2. argument' = argument /\ result' = result
  BY DEF CancelCycle
<1>3. SUFFICES ASSUME NEW s, NEW price \in Int, OnePrice(s, price)
               PROVE  PricedAt(obs', s, price)
  BY <1>2 DEF OnePriceInv, OnePriceKept, OnePrice
<1>4. PricedAt(obs, s, price)
  BY <1>3 DEF OnePriceInv, OnePriceKept
<1>5. SUFFICES ASSUME NEW i \in DOMAIN obs, obs'[i].symbol = s
               PROVE  obs'[i].net_payment = price * obs'[i].net_quantity
  BY <1>1 DEF PricedAt
<1>6. obs[i] \in NetObligations
  BY DEF OnePriceInv, IInv, TypeOK
<1>7. CASE i \notin E
  BY <1>1, <1>4, <1>5, <1>7 DEF PricedAt
<1>8. CASE i \in E
  <2>1. PICK m : m \in 1..obs[i].net_quantity /\ obs'[i] = Reduced(obs[i], m)
    BY <1>1, <1>8
  <2>2. obs[i].symbol = s
    BY <1>5, <1>6, <2>1, ReducedFields
  <2>3. QED
    BY <1>4, <1>6, <2>1, <2>2, ReducedPrice DEF PricedAt
<1>9. QED
  BY <1>7, <1>8

LEMMA RetainKeepsPrice ==
    ASSUME OnePriceInv, Retain
    PROVE  OnePriceKept'
<1>1. PICK n : n = Cardinality(Edges(current))
  OBVIOUS
<1>2. PICK kept : Appends(kept, n)
  BY <1>1, RetainAppends DEF OnePriceInv, IInv
<1>3. argument' = argument /\ obs' = obs
  BY DEF Retain
<1>4. SUFFICES ASSUME NEW s, NEW price \in Int, OnePrice(s, price)
               PROVE  PricedAt(result', s, price)
  BY <1>3 DEF OnePriceInv, OnePriceKept, OnePrice
<1>5. PricedAt(obs, s, price) /\ PricedAt(result, s, price)
  BY <1>4 DEF OnePriceInv, OnePriceKept
<1>6. SUFFICES ASSUME NEW k \in DOMAIN result', result'[k].symbol = s
               PROVE  result'[k].net_payment = price * result'[k].net_quantity
  BY DEF PricedAt
<1>7. n \in Nat /\ Len(result) \in Nat /\ DOMAIN result = 1..Len(result)
  BY <1>1, FiniteEdges DEF OnePriceInv, IInv, TypeOK
<1>8. CASE k \in 1..Len(result)
  BY <1>2, <1>5, <1>6, <1>7, <1>8 DEF Appends, PricedAt
<1>9. CASE k \notin 1..Len(result)
  <2>1. PICK j \in 1..n : k = Len(result) + j
    <3>1. k \in 1..(Len(result) + n)
      BY <1>2, <1>6 DEF Appends
    <3>2. k - Len(result) \in 1..n /\ k = Len(result) + (k - Len(result))
      BY <1>7, <1>9, <3>1
    <3>3. QED
      BY <3>2
  <2>2. result'[k] = obs[kept[j]] /\ kept[j] \in DOMAIN obs
    BY <1>2, <2>1 DEF Appends, Edges
  <2>3. QED
    BY <1>5, <1>6, <2>2 DEF PricedAt
<1>10. QED
  BY <1>8, <1>9

LEMMA InitOnePrice == Init => OnePriceInv
<1>1. SUFFICES ASSUME Init  PROVE OnePriceKept
  BY InitInv DEF OnePriceInv
<1>2. DOMAIN obs = {} /\ DOMAIN result = {}
  BY <1>1 DEF Init
<1>3. QED
  BY <1>2 DEF OnePriceKept, PricedAt

LEMMA InitOnePriceNext == Init' => OnePriceInv'
BY InitOnePrice, PTL

LEMMA NextOnePrice == OnePriceInv /\ [Next]_vars => OnePriceInv'
<1> SUFFICES ASSUME OnePriceInv, [Next]_vars PROVE OnePriceInv'
  OBVIOUS
<1>1. IInv /\ IInv' /\ OnePriceKept
  BY NextInv DEF OnePriceInv
<1>2. SUFFICES OnePriceKept'
  BY <1>1 DEF OnePriceInv
<1>3. ASSUME NEW obligations \in Arguments, multilateral_net(obligations)
      PROVE  OnePriceKept'
  <2>1. obs' = argument' /\ DOMAIN result' = {}
    BY <1>3 DEF multilateral_net
  <2>2. QED
    BY <2>1 DEF OnePriceKept, OnePrice, PricedAt
<1>4. CASE CancelCycle
  BY <1>4, CancelKeepsPrice
<1>5. ASSUME argument' = argument, obs' = obs, result' = result  PROVE OnePriceKept'
  BY <1>1, <1>5 DEF OnePriceKept, OnePrice
<1>6. ASSUME NEW s \in Symbols, NextGroup(s)  PROVE OnePriceKept'
  BY <1>5, <1>6 DEF NextGroup
<1>7. CASE Retain
  BY <1>7, RetainKeepsPrice
<1>8. CASE UNCHANGED vars
  BY <1>5, <1>8 DEF vars
<1>9. CASE drop
  BY <1>9, DropInits, InitOnePriceNext DEF OnePriceInv
<1>10. QED
  BY <1>3, <1>4, <1>6, <1>7, <1>8, <1>9 DEF Next, Step

(***************************************************************************)
(* At one price, the cash an account is due is that price times the units  *)
(* it delivers net.                                                        *)
(***************************************************************************)
Cash(ob, s, a) ==
    IF ob.symbol = s
    THEN (IF ob.deliverer = a THEN ob.net_payment ELSE 0)
           - (IF ob.receiver = a THEN ob.net_payment ELSE 0)
    ELSE 0

LEMMA NetCashIsASum ==
    ASSUME NEW f, NEW s, NEW a
    PROVE  NetCash(f, s, a)
             = SumFunctionOnSet([i \in DOMAIN f |-> Cash(f[i], s, a)], DOMAIN f)
<1>1. DOMAIN [i \in DOMAIN f |-> Cash(f[i], s, a)] = DOMAIN f
  OBVIOUS
<1>2. NetCash(f, s, a) = SumFunction([i \in DOMAIN f |-> Cash(f[i], s, a)])
  BY DEF NetCash, Total, Cash, Into, OutOf
<1>3. QED
  BY <1>1, <1>2 DEF SumFunction

LEMMA CashAtPrice ==
    ASSUME NEW f, IsFiniteSet(DOMAIN f), \A i \in DOMAIN f : f[i] \in NetObligations,
           NEW s, NEW a, NEW price \in Int, PricedAt(f, s, price)
    PROVE  NetUnits(f, s, a) \in Int /\ NetCash(f, s, a) = (-price) * NetUnits(f, s, a)
<1>1. PICK S : S = DOMAIN f
  OBVIOUS
<1>2. PICK c : c = [i \in S |-> Cash(f[i], s, a)]
  OBVIOUS
<1>3. PICK w : w = [i \in S |-> Weight(f[i], s, a)]
  OBVIOUS
<1>4. PICK z : z = [i \in S |-> 0]
  OBVIOUS
<1>5. \A i \in S : /\ c[i] \in Int /\ z[i] \in Int /\ w[i] \in Int
                  /\ c[i] = z[i] + (-price) * w[i]
  <2>1. SUFFICES ASSUME NEW i \in S
                 PROVE  /\ Cash(f[i], s, a) \in Int /\ Weight(f[i], s, a) \in Int
                        /\ Cash(f[i], s, a) = 0 + (-price) * Weight(f[i], s, a)
    BY <1>2, <1>3, <1>4
  <2>2. PICK q : q = f[i].net_quantity
    OBVIOUS
  <2>3. q \in Int /\ f[i].net_payment \in Int /\ price * q \in Int
    BY <1>1, <2>2 DEF NetObligations, ObligationType
  <2>4. CASE f[i].symbol # s
    BY <2>4 DEF Cash, Weight
  <2>5. CASE f[i].symbol = s
    <3>1. f[i].net_payment = price * q
      BY <1>1, <2>2, <2>5 DEF PricedAt
    <3>2. /\ (-price) * (q - q) = price * q - price * q
          /\ (-price) * (q - 0) = 0 - price * q
          /\ (-price) * (0 - q) = price * q - 0
          /\ (-price) * (0 - 0) = 0 - 0
      BY <2>3
    <3>3. Cash(f[i], s, a) = (-price) * Weight(f[i], s, a)
      <4>1. CASE f[i].deliverer = a /\ f[i].receiver = a
        BY <2>2, <2>5, <3>1, <3>2, <4>1 DEF Cash, Weight
      <4>2. CASE f[i].deliverer = a /\ f[i].receiver # a
        BY <2>2, <2>3, <2>5, <3>1, <4>2 DEF Cash, Weight
      <4>3. CASE f[i].deliverer # a /\ f[i].receiver = a
        BY <2>2, <2>5, <3>1, <3>2, <4>3 DEF Cash, Weight
      <4>4. CASE f[i].deliverer # a /\ f[i].receiver # a
        BY <2>5, <3>2, <4>4 DEF Cash, Weight
      <4>5. QED
        BY <4>1, <4>2, <4>3, <4>4
    <3>4. Cash(f[i], s, a) \in Int /\ Weight(f[i], s, a) \in Int
      BY <2>2, <2>3, <2>5 DEF Cash, Weight
    <3>5. QED
      BY <3>3, <3>4
  <2>6. QED
    BY <2>4, <2>5
<1>6. SumFunctionOnSet(c, S) = SumFunctionOnSet(z, S) + (-price) * SumFunctionOnSet(w, S)
  <2>1. IsFiniteSet(S) /\ -price \in Int
    BY <1>1
  <2>2. QED
    BY <1>5, <2>1, SumOfMultiples
<1>7. SumFunctionOnSet(z, S) = 0
  BY <1>1, <1>4, SumOfZeros
<1>8. SumFunctionOnSet(w, S) \in Int
  BY <1>1, <1>5, SumType
<1>9. NetUnits(f, s, a) = SumFunctionOnSet(w, S) /\ NetCash(f, s, a) = SumFunctionOnSet(c, S)
  BY <1>1, <1>2, <1>3, NetUnitsIsASum, NetCashIsASum
<1>10. QED
  BY <1>6, <1>7, <1>8, <1>9

LEMMA CashIsKept ==
    ASSUME OnePriceInv, NetDeliveryPreserved
    PROVE  UniformPriceKeepsCash
<1>1. TypeOK
  BY DEF OnePriceInv, IInv
<1>2. SUFFICES ASSUME NEW s \in Symbols, NEW k \in DOMAIN argument,
                      argument[k].net_quantity > 0,
                      OnePrice(s, TruncDiv(argument[k].net_payment, argument[k].net_quantity)),
                      NEW a \in Accounts
               PROVE  NetCash(result, s, a) + NetCash(Pending, s, a) = NetCash(argument, s, a)
  BY DEF UniformPriceKeepsCash
<1>3. PICK price : price = TruncDiv(argument[k].net_payment, argument[k].net_quantity)
  OBVIOUS
<1>4. price \in Int
  <2>1. argument[k] \in NetObligations
    BY <1>1 DEF TypeOK
  <2>2. QED
    BY <1>2, <1>3, <2>1, TruncDivType DEF NetObligations, ObligationType
<1>5. PricedAt(obs, s, price) /\ PricedAt(result, s, price) /\ PricedAt(argument, s, price)
  BY <1>2, <1>3, <1>4 DEF OnePriceInv, OnePriceKept, OnePrice, PricedAt
<1>6. /\ IsFiniteSet(DOMAIN Pending) /\ PricedAt(Pending, s, price)
      /\ \A i \in DOMAIN Pending : Pending[i] \in NetObligations
  BY <1>1, <1>5, OpenIsFinite DEF PricedAt, Open
<1>7. /\ IsFiniteSet(DOMAIN result) /\ \A i \in DOMAIN result : result[i] \in NetObligations
      /\ IsFiniteSet(DOMAIN argument)
      /\ \A i \in DOMAIN argument : argument[i] \in NetObligations
  <2>1. /\ DOMAIN result = 1..Len(result) /\ Len(result) \in Nat
        /\ DOMAIN argument = 1..Len(argument) /\ Len(argument) \in Nat
    BY <1>1 DEF TypeOK
  <2>2. IsFiniteSet(1..Len(result)) /\ IsFiniteSet(1..Len(argument))
    BY <2>1, 1 \in Int, FS_Interval
  <2>3. QED
    BY <1>1, <2>1, <2>2 DEF TypeOK
<1>8. PICK r : r = NetUnits(result, s, a)
  OBVIOUS
<1>9. PICK p : p = NetUnits(Pending, s, a)
  OBVIOUS
<1>10. PICK u : u = NetUnits(argument, s, a)
  OBVIOUS
<1>11. r + p = u
  BY <1>8, <1>9, <1>10 DEF NetDeliveryPreserved
<1>12. /\ r \in Int /\ NetCash(result, s, a) = (-price) * r
       /\ p \in Int /\ NetCash(Pending, s, a) = (-price) * p
       /\ u \in Int /\ NetCash(argument, s, a) = (-price) * u
  BY <1>4, <1>5, <1>6, <1>7, <1>8, <1>9, <1>10, CashAtPrice
<1>13. (-price) * r + (-price) * p = (-price) * (r + p)
  BY <1>4, <1>12
<1>14. QED
  BY <1>11, <1>12, <1>13

(***************************************************************************)
(* Whichever cycles are cancelled: at one price for all obligations of a   *)
(* symbol, no account gains or loses cash by it.                           *)
(***************************************************************************)
THEOREM UniformPricesKeepCash == Spec => []UniformPriceKeepsCash
<1>1. OnePriceInv /\ NetDeliveryPreserved => UniformPriceKeepsCash
  BY CashIsKept
<1>2. QED
  BY <1>1, InitOnePrice, NextOnePrice, MultilateralKeepsDeliveries, PTL DEF Spec
=============================================================================
