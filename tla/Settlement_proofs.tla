--------------------------- MODULE Settlement_proofs ---------------------------
(***************************************************************************)
(* The pipeline implements SettlementService, and every trade moves its    *)
(* cash once, for every value of the constants.  What the engine and       *)
(* multilateral netting do on their own is proved in NettingEngine_proofs  *)
(* and MultilateralNetting_proofs; here those theorems are instantiated,   *)
(* after it is shown that the pipeline runs both components by their       *)
(* specifications.                                                         *)
(***************************************************************************)
EXTENDS Settlement, ArithmeticLemmas, SequenceTheorems

NetObligations == ObligationType(Symbols, Accounts, Nat, Int)

EngineProofs == INSTANCE NettingEngine_proofs WITH Half <- AccumulatorHalf
MultiProofs  == INSTANCE MultilateralNetting_proofs WITH Arguments <- Seq(NetObligations)

-----------------------------------------------------------------------------
(***************************************************************************)
(* An instance has names of its own for everything, also for the operators *)
(* of the standard and community modules.  First, that they mean the same. *)
(***************************************************************************)
LEMMA SameFinite ==
    \A S : /\ EngineProofs!IsFiniteSet(S) <=> IsFiniteSet(S)
           /\ Engine!IsFiniteSet(S) <=> IsFiniteSet(S)
BY DEF EngineProofs!IsFiniteSet, Engine!IsFiniteSet, IsFiniteSet

LEMMA SameCardinality ==
    \A S : MultiProofs!Cardinality(S) = Multi!Cardinality(S)
BY DEF MultiProofs!Cardinality, Multi!Cardinality

LEMMA EngineSum == \A f : Engine!SumFunction(f) = SumFunction(f)
<1>1. SUFFICES ASSUME NEW f  PROVE Engine!SumFunction(f) = SumFunction(f)
  OBVIOUS
<1>2. Engine!SumFunctionOnSet(f, DOMAIN f)
        = (CHOOSE it : IsSumTable(it, f, DOMAIN f))[DOMAIN f]
  BY DEF Engine!SumFunctionOnSet, Engine!FoldFunctionOnSet,
         Engine!MapThenFoldSet, IsSumTable, Pick
<1>3. QED
  BY <1>2, SumIsChosen DEF Engine!SumFunction, SumFunction

LEMMA EngineProofsSum == \A f : EngineProofs!SumFunction(f) = SumFunction(f)
<1>1. SUFFICES ASSUME NEW f  PROVE EngineProofs!SumFunction(f) = SumFunction(f)
  OBVIOUS
<1>2. EngineProofs!SumFunctionOnSet(f, DOMAIN f)
        = (CHOOSE it : IsSumTable(it, f, DOMAIN f))[DOMAIN f]
  BY DEF EngineProofs!SumFunctionOnSet, EngineProofs!FoldFunctionOnSet,
         EngineProofs!MapThenFoldSet, IsSumTable, Pick
<1>3. QED
  BY <1>2, SumIsChosen DEF EngineProofs!SumFunction, SumFunction

LEMMA MultiSum == \A f : MultiProofs!SumFunction(f) = SumFunction(f)
<1>1. SUFFICES ASSUME NEW f  PROVE MultiProofs!SumFunction(f) = SumFunction(f)
  OBVIOUS
<1>2. MultiProofs!SumFunctionOnSet(f, DOMAIN f)
        = (CHOOSE it : IsSumTable(it, f, DOMAIN f))[DOMAIN f]
  BY DEF MultiProofs!SumFunctionOnSet, MultiProofs!FoldFunctionOnSet,
         MultiProofs!MapThenFoldSet, IsSumTable, Pick
<1>3. QED
  BY <1>2, SumIsChosen DEF MultiProofs!SumFunction, SumFunction

LEMMA ServiceSum == \A f : Service!SumFunction(f) = SumFunction(f)
<1>1. SUFFICES ASSUME NEW f  PROVE Service!SumFunction(f) = SumFunction(f)
  OBVIOUS
<1>2. Service!SumFunctionOnSet(f, DOMAIN f)
        = (CHOOSE it : IsSumTable(it, f, DOMAIN f))[DOMAIN f]
  BY DEF Service!SumFunctionOnSet, Service!FoldFunctionOnSet,
         Service!MapThenFoldSet, IsSumTable, Pick
<1>3. QED
  BY <1>2, SumIsChosen DEF Service!SumFunction, SumFunction

(***************************************************************************)
(* The assumptions of the components hold.                                 *)
(***************************************************************************)
LEMMA EngineAssumption == EngineProofs!NettingAssumption
BY SettlementAssumption, SameFinite
   DEF EngineProofs!NettingAssumption, Engine!NettingAssumption,
       EngineProofs!Signed, Engine!Signed

LEMMA MultiAssumption == MultiProofs!MultilateralAssumption
BY SettlementAssumption
   DEF MultiProofs!MultilateralAssumption, MultiProofs!NetObligations, NetObligations,
       MultiProofs!ObligationType, ObligationType

(***************************************************************************)
(* The calls of the pipeline are steps of the components.                  *)
(***************************************************************************)
LEMMA EngineSteps ==
    /\ Engine!Init => EngineProofs!Init
    /\ \A t \in Engine!Trade : Engine!AddTrade(t) => EngineProofs!Next
    /\ Engine!clear => EngineProofs!Next
<1>1. Engine!Init => EngineProofs!Init
  BY DEF Engine!Init, EngineProofs!Init, Engine!Direction, EngineProofs!Direction,
         Engine!Zero, EngineProofs!Zero
<1>2. Engine!clear => EngineProofs!Next
  BY DEF Engine!clear, EngineProofs!Next, EngineProofs!clear, Engine!Direction,
         EngineProofs!Direction, Engine!Zero, EngineProofs!Zero
<1>3. Engine!Trade = EngineProofs!Trade
  BY DEF Engine!Trade, EngineProofs!Trade
<1>4. \A t : Engine!AddTrade(t) <=> EngineProofs!AddTrade(t)
  BY DEF Engine!AddTrade, EngineProofs!AddTrade, Engine!add_trade, EngineProofs!add_trade,
         Engine!KeyOf, EngineProofs!KeyOf, Engine!canonical_pair,
         EngineProofs!canonical_pair, Engine!AccumulatorOf, EngineProofs!AccumulatorOf,
         Engine!Accumulate, EngineProofs!Accumulate, Engine!Sum, EngineProofs!Sum,
         Engine!Sign, EngineProofs!Sign, Engine!Wrap, EngineProofs!Wrap,
         Engine!Record, EngineProofs!Record, Engine!Zero, EngineProofs!Zero
<1>5. QED
  BY <1>1, <1>2, <1>3, <1>4 DEF EngineProofs!Next

LEMMA MultiSteps ==
    /\ Multi!Init => MultiProofs!Init
    /\ \A obligations \in Seq(NetObligations) :
          argument = <<>> /\ Multi!multilateral_net(obligations) => MultiProofs!Next
    /\ Multi!Step => MultiProofs!Next
    /\ Multi!drop => MultiProofs!Next
<1>1. Multi!Init => MultiProofs!Init
  BY DEF Multi!Init, MultiProofs!Init
<1>2. ASSUME NEW obligations \in Seq(NetObligations), argument = <<>>,
             Multi!multilateral_net(obligations)
      PROVE  MultiProofs!Next
  BY <1>2 DEF MultiProofs!Next, MultiProofs!multilateral_net, Multi!multilateral_net,
              MultiProofs!Returned, Multi!Returned
<1>3. Multi!drop => MultiProofs!Next
  BY DEF MultiProofs!Next, MultiProofs!drop, Multi!drop, MultiProofs!Returned,
         Multi!Returned
<1>4. \A s : Multi!Edges(s) = MultiProofs!Edges(s)
  BY DEF Multi!Edges, MultiProofs!Edges
<1>5. \A s : Multi!find_cycle(s) = MultiProofs!find_cycle(s)
  <2>1. \A s : Multi!Paths(s) = MultiProofs!Paths(s)
    BY <1>4, SameCardinality DEF Multi!Paths, MultiProofs!Paths
  <2>2. \A s, start : Multi!Cycles(s, start) = MultiProofs!Cycles(s, start)
    BY <2>1 DEF Multi!Cycles, MultiProofs!Cycles, Multi!IsCycle, MultiProofs!IsCycle
  <2>3. \A s, start : Multi!FoundFrom(s, start) = MultiProofs!FoundFrom(s, start)
    BY <2>2 DEF Multi!FoundFrom, MultiProofs!FoundFrom, Multi!Precedes,
                MultiProofs!Precedes
  <2>4. \A s : Multi!Starts(s) = MultiProofs!Starts(s)
    BY <1>4 DEF Multi!Starts, MultiProofs!Starts
  <2>5. QED
    BY <2>3, <2>4 DEF Multi!find_cycle, MultiProofs!find_cycle
<1>6. Multi!CancelCycle => MultiProofs!CancelCycle
  <2>1. \A c : Multi!cancel_cycle(c) <=> MultiProofs!cancel_cycle(c)
    BY DEF Multi!cancel_cycle, MultiProofs!cancel_cycle, Multi!IsMinimum,
           MultiProofs!IsMinimum, Multi!Reduced, MultiProofs!Reduced,
           Multi!TruncDiv, MultiProofs!TruncDiv
  <2>2. QED
    BY <1>5, <2>1 DEF Multi!CancelCycle, MultiProofs!CancelCycle
<1>7. Multi!Retain => MultiProofs!Retain
  <2>1. \A s : Multi!Retained(s) = MultiProofs!Retained(s)
    BY <1>4, SameCardinality DEF Multi!Retained, MultiProofs!Retained
  <2>2. QED
    BY <1>5, <2>1 DEF Multi!Retain, MultiProofs!Retain
<1>8. \A s : Multi!NextGroup(s) => MultiProofs!NextGroup(s)
  BY DEF Multi!NextGroup, MultiProofs!NextGroup
<1>9. Multi!Step => MultiProofs!Next
  BY <1>6, <1>7, <1>8 DEF Multi!Step, MultiProofs!Step, MultiProofs!Next
<1>10. QED
  BY <1>1, <1>2, <1>3, <1>9

-----------------------------------------------------------------------------
(***************************************************************************)
(* The engine of the pipeline behaves as NettingEngine says, so whatever   *)
(* is proved of it holds here.                                             *)
(***************************************************************************)
LEMMA EngineRuns == Spec => EngineProofs!Spec
<1>1. Init => EngineProofs!Init
  BY EngineSteps DEF Init
<1>2. [Next]_vars => [EngineProofs!Next]_EngineProofs!vars
  <2>1. SUFFICES ASSUME Next  PROVE [EngineProofs!Next]_EngineProofs!vars
    BY DEF vars, engineVars, EngineProofs!vars
  <2>2. CASE \E t \in Engine!Trade : AddTrade(t)
    BY <2>2, EngineSteps DEF AddTrade
  <2>3. CASE NextCycle
    BY <2>3, EngineSteps DEF NextCycle, ResetEngine
  <2>4. CASE UNCHANGED engineVars
    BY <2>4 DEF engineVars, EngineProofs!vars
  <2>5. QED
    BY <2>1, <2>2, <2>3, <2>4
    DEF Next, NetBilaterally, compute_multilateral, CancelCycles, SubmitResult, ClearNext
<1>3. QED
  BY <1>1, <1>2, PTL DEF Spec, EngineProofs!Spec

EngineFacts == EngineProofs!TypeOK /\ EngineProofs!DeliveriesPreserved

LEMMA EngineAlways == Spec => []EngineFacts
<1>1. EngineProofs!Spec => []EngineProofs!TypeOK
  BY EngineAssumption, EngineProofs!TypeCorrect
<1>2. EngineProofs!Spec => []EngineProofs!DeliveriesPreserved
  BY EngineAssumption, EngineProofs!NettingPreservesDeliveries
<1>3. QED
  BY <1>1, <1>2, EngineRuns, PTL DEF EngineFacts

(***************************************************************************)
(* The obligations of the engine are finitely many, and well-formed.       *)
(***************************************************************************)
LEMMA FiniteKeys == IsFiniteSet(Engine!NettingKey)
<1>1. IsFiniteSet(Accounts) /\ IsFiniteSet(Symbols)
  BY SettlementAssumption, SameFinite DEF Engine!NettingAssumption
<1>2. IsFiniteSet(Accounts \X Accounts)
  BY <1>1, FS_Product
<1>3. IsFiniteSet(Symbols \X (Accounts \X Accounts))
  BY <1>1, <1>2, FS_Product
<1>4. PICK T : T = Symbols \X (Accounts \X Accounts)
  OBVIOUS
<1>5. PICK K : K = Engine!NettingKey
  OBVIOUS
<1>6. PICK r : r = [p \in T |-> [symbol |-> p[1], lo |-> p[2][1], hi |-> p[2][2]]]
  OBVIOUS
<1>7. PICK R : R = {r[p] : p \in T}
  OBVIOUS
<1>8. r \in [T -> R] /\ \A x \in R : \E p \in T : r[p] = x
  BY <1>6, <1>7
<1>9. IsFiniteSet(R)
  BY <1>3, <1>4, <1>8, FiniteImage
<1>10. K \subseteq R
  <2>1. SUFFICES ASSUME NEW k \in K  PROVE k \in R
    OBVIOUS
  <2>2. k \in [symbol : Symbols, lo : Accounts, hi : Accounts]
    BY <1>5 DEF Engine!NettingKey
  <2>3. PICK p \in T : p = <<k.symbol, <<k.lo, k.hi>>>>
    BY <1>4, <2>2
  <2>4. r[p] = [symbol |-> k.symbol, lo |-> k.lo, hi |-> k.hi]
    BY <1>6, <2>3
  <2>5. r[p] = k
    BY <2>2, <2>4
  <2>6. QED
    BY <1>7, <2>5
<1>11. QED
  BY <1>5, <1>9, <1>10, FS_Subset

LEMMA NetShape ==
    ASSUME EngineProofs!TypeOK
    PROVE  IsFiniteSet(Engine!compute_net) /\ Engine!compute_net \subseteq NetObligations
<1>1. /\ DOMAIN accumulators \subseteq Engine!NettingKey
      /\ \A k \in DOMAIN accumulators : accumulators[k].quantity \in Int
                                        /\ accumulators[k].payment \in Int
  <2>1. DOMAIN accumulators \subseteq Engine!NettingKey
    BY DEF EngineProofs!TypeOK, EngineProofs!NettingKey, Engine!NettingKey
  <2>2. AccumulatorHalf \in Nat \ {0}
    BY SettlementAssumption DEF Engine!NettingAssumption
  <2>3. \A k \in DOMAIN accumulators : accumulators[k] \in EngineProofs!Accumulator
    BY DEF EngineProofs!TypeOK
  <2>4. QED
    BY <2>1, <2>2, <2>3 DEF EngineProofs!Accumulator, EngineProofs!Signed
<1>2. PICK N : N = Engine!compute_net
  OBVIOUS
<1>3. PICK U : U = Engine!Unbalanced
  OBVIOUS
<1>4. PICK e : e = [k \in U |-> Engine!ObligationOf(k, accumulators[k])]
  OBVIOUS
<1>5. e \in [U -> N] /\ \A ob \in N : \E k \in U : e[k] = ob
  BY <1>2, <1>3, <1>4 DEF Engine!compute_net
<1>6. IsFiniteSet(U)
  BY <1>1, <1>3, FiniteKeys, FS_Subset DEF Engine!Unbalanced
<1>7. IsFiniteSet(N)
  BY <1>5, <1>6, FiniteImage
<1>8. ASSUME NEW k \in U  PROVE e[k] \in NetObligations
  <2>1. k \in DOMAIN accumulators /\ k.symbol \in Symbols /\ k.lo \in Accounts
        /\ k.hi \in Accounts
    BY <1>1, <1>3 DEF Engine!Unbalanced, Engine!NettingKey
  <2>2. QuantityMod \in Nat \ {0} /\ PaymentMax \in Nat /\ AccumulatorHalf \in Nat \ {0}
    BY SettlementAssumption DEF Engine!NettingAssumption
  <2>3. \A n \in Int : Engine!AsU64(n) \in Nat
    BY <2>2 DEF Engine!AsU64
  <2>4. \A n \in Int : Engine!saturating_i128_to_i64(n) \in Int
    BY <2>2 DEF Engine!saturating_i128_to_i64
  <2>5. \A n \in Int : Engine!Wrap(n) \in Int
    BY <2>2 DEF Engine!Wrap
  <2>6. PICK q : q = accumulators[k].quantity
    OBVIOUS
  <2>7. PICK p : p = accumulators[k].payment
    OBVIOUS
  <2>8. q \in Int /\ p \in Int /\ -q \in Int /\ -p \in Int
    BY <1>1, <2>1, <2>6, <2>7
  <2>9. /\ Engine!AsU64(q) \in Nat /\ Engine!AsU64(Engine!Wrap(-q)) \in Nat
        /\ Engine!saturating_i128_to_i64(p) \in Int
        /\ Engine!saturating_i128_to_i64(Engine!Wrap(-p)) \in Int
    BY <2>3, <2>4, <2>5, <2>8
  <2>10. QED
    BY <1>4, <2>1, <2>6, <2>7, <2>9
    DEF Engine!ObligationOf, Engine!NetObligation, NetObligations, ObligationType
<1>9. N \subseteq NetObligations
  BY <1>5, <1>8
<1>10. QED
  BY <1>2, <1>7, <1>9

-----------------------------------------------------------------------------
(***************************************************************************)
(* The units a collection of obligations gives an account, in the words of *)
(* each of the modules.                                                    *)
(***************************************************************************)
Weight(ob, s, a) ==
    IF ob.symbol = s
    THEN (IF ob.receiver = a THEN ob.net_quantity ELSE 0)
           - (IF ob.deliverer = a THEN ob.net_quantity ELSE 0)
    ELSE 0

Delivered(f, s, a) == SumFunction([i \in DOMAIN f |-> Weight(f[i], s, a)])

LEMMA SameUnits ==
    \A f, s, a : /\ EngineProofs!NetUnits(f, s, a) = Delivered(f, s, a)
                 /\ MultiProofs!NetUnits(f, s, a) = Delivered(f, s, a)
                 /\ Service!NetUnits(f, s, a) = Delivered(f, s, a)
<1>1. ASSUME NEW f, NEW s, NEW a
      PROVE  EngineProofs!NetUnits(f, s, a) = Delivered(f, s, a)
  BY EngineProofsSum DEF EngineProofs!NetUnits, EngineProofs!Total, EngineProofs!Into,
                         EngineProofs!OutOf, Delivered, Weight
<1>2. ASSUME NEW f, NEW s, NEW a
      PROVE  MultiProofs!NetUnits(f, s, a) = Delivered(f, s, a)
  BY MultiSum DEF MultiProofs!NetUnits, MultiProofs!Total, MultiProofs!Into,
                  MultiProofs!OutOf, Delivered, Weight
<1>3. ASSUME NEW f, NEW s, NEW a
      PROVE  Service!NetUnits(f, s, a) = Delivered(f, s, a)
  BY ServiceSum DEF Service!NetUnits, Service!Total, Service!Into, Service!OutOf,
                    Delivered, Weight
<1>4. QED
  BY <1>1, <1>2, <1>3

LEMMA WeightType == \A ob \in NetObligations : \A s, a : Weight(ob, s, a) \in Int
BY DEF NetObligations, ObligationType, Weight

(***************************************************************************)
(* In whatever order the obligations of compute_net are given away, they   *)
(* deliver what the engine computed.                                       *)
(***************************************************************************)
LEMMA InAnyOrder ==
    ASSUME EngineProofs!TypeOK, NEW o \in SetToSeqs(Engine!compute_net)
    PROVE  /\ o \in Seq(NetObligations)
           /\ \A s, a : Delivered(o, s, a)
                          = EngineProofs!NetUnits(EngineProofs!Obligations, s, a)
<1>1. PICK N : N = Engine!compute_net
  OBVIOUS
<1>2. IsFiniteSet(N) /\ N \subseteq NetObligations
  BY <1>1, NetShape
<1>3. PICK n : n = Cardinality(N)
  OBVIOUS
<1>4. n \in Nat
  BY <1>2, <1>3, FS_CardinalityType
<1>5. o \in [1..n -> N] /\ \A i, j \in 1..n : i # j => o[i] # o[j]
  BY <1>1, <1>3 DEF SetToSeqs
<1>6. o \in Seq(NetObligations)
  <2>1. o \in [1..n -> NetObligations]
    BY <1>2, <1>5
  <2>2. QED
    BY <1>4, <2>1
<1>7. PICK D : D = 1..n
  OBVIOUS
<1>8. IsFiniteSet(D) /\ Cardinality(D) = n
  <2>1. 1 \in Int /\ n \in Int
    BY <1>4
  <2>2. QED
    BY <1>4, <1>7, <2>1, FS_Interval
<1>9. \A ob \in N : \E i \in D : o[i] = ob
  <2>1. o \in Injection(D, N)
    BY <1>5, <1>7 DEF Injection, IsInjective
  <2>2. o \in Surjection(D, N)
    BY <1>2, <1>3, <1>8, <2>1, FS_Injection
  <2>3. QED
    BY <2>2 DEF Surjection
<1>10. SUFFICES ASSUME NEW s, NEW a
                PROVE  Delivered(o, s, a)
                         = EngineProofs!NetUnits(EngineProofs!Obligations, s, a)
  BY <1>6
<1>11. PICK f : f = [i \in D |-> Weight(o[i], s, a)]
  OBVIOUS
<1>12. PICK g : g = [ob \in N |-> Weight(ob, s, a)]
  OBVIOUS
<1>13. SumFunctionOnSet(f, D) = SumFunctionOnSet(g, N)
  <2>1. o \in [D -> N] /\ \A i, j \in D : o[i] = o[j] => i = j
    BY <1>5, <1>7
  <2>2. \A i \in D : f[i] \in Int /\ f[i] = g[o[i]]
    BY <1>2, <1>11, <1>12, <2>1, WeightType
  <2>3. QED
    BY <1>2, <1>8, <1>9, <2>1, <2>2, SumRenamed
<1>14. Delivered(o, s, a) = SumFunctionOnSet(f, D)
  BY <1>5, <1>7, <1>11 DEF Delivered, SumFunction
<1>15. EngineProofs!Obligations = [ob \in N |-> ob]
  BY <1>1 DEF EngineProofs!Obligations, EngineProofs!compute_net, Engine!compute_net,
     EngineProofs!Unbalanced, Engine!Unbalanced, EngineProofs!ObligationOf,
     Engine!ObligationOf, EngineProofs!NetObligation, Engine!NetObligation,
     EngineProofs!AsU64, Engine!AsU64, EngineProofs!saturating_i128_to_i64,
     Engine!saturating_i128_to_i64, EngineProofs!Wrap, Engine!Wrap
<1>16. EngineProofs!NetUnits(EngineProofs!Obligations, s, a) = SumFunctionOnSet(g, N)
  <2>1. PICK h : h = EngineProofs!Obligations
    OBVIOUS
  <2>2. DOMAIN h = N /\ [ob \in DOMAIN h |-> Weight(h[ob], s, a)] = g
    BY <1>12, <1>15, <2>1
  <2>3. Delivered(h, s, a) = SumFunctionOnSet(g, N)
    BY <1>12, <2>2 DEF Delivered, SumFunction
  <2>4. QED
    BY <2>1, <2>3, SameUnits
<1>17. QED
  BY <1>13, <1>14, <1>16

(***************************************************************************)
(* The positions of the refinement mapping are what the trades delivered.  *)
(***************************************************************************)
LEMMA PositionIsTraded ==
    \A s \in Symbols, a \in Accounts : Positions[s][a] = EngineProofs!TradedUnits(s, a)
BY EngineSum, EngineProofsSum
   DEF Positions, Engine!TradedUnits, EngineProofs!TradedUnits, Engine!Direction,
       EngineProofs!Direction

LEMMA PositionsDelivered ==
    ASSUME EngineFacts, NEW o \in SetToSeqs(Engine!compute_net),
           NEW s \in Symbols, NEW a \in Accounts
    PROVE  (Delivered(o, s, a) - Positions[s][a]) % QuantityMod = 0
<1>1. Delivered(o, s, a) = EngineProofs!NetUnits(EngineProofs!Obligations, s, a)
  BY InAnyOrder DEF EngineFacts
<1>2. Positions[s][a] = EngineProofs!TradedUnits(s, a)
  BY PositionIsTraded
<1>3. (EngineProofs!NetUnits(EngineProofs!Obligations, s, a)
         - EngineProofs!TradedUnits(s, a)) % QuantityMod = 0
  BY DEF EngineFacts, EngineProofs!DeliveriesPreserved
<1>4. QED
  BY <1>1, <1>2, <1>3

-----------------------------------------------------------------------------
(***************************************************************************)
(* Where the caller is decides what there is to look at: multilateral      *)
(* netting has not been called before the trades are netted, and while it  *)
(* works its argument is what the engine gave.                             *)
(***************************************************************************)
StageInv ==
    /\ stage \in {"trading", "netting", "clearing"}
    /\ stage = "trading" => argument = <<>>
    /\ stage = "netting" => argument \in SetToSeqs(Engine!compute_net)

LEMMA InitStage == Init => StageInv
BY DEF Init, Multi!Init, StageInv

LEMMA NextStage == StageInv /\ [Next]_vars => StageInv'
<1> SUFFICES ASSUME StageInv, [Next]_vars  PROVE StageInv'
  OBVIOUS
<1>1. ASSUME accumulators' = accumulators
      PROVE  Engine!compute_net' = Engine!compute_net
  BY <1>1 DEF Engine!compute_net, Engine!Unbalanced
<1>2. CASE \E t \in Engine!Trade : AddTrade(t)
  BY <1>2 DEF AddTrade, multiVars, StageInv
<1>3. CASE NetBilaterally
  BY <1>3 DEF NetBilaterally, StageInv
<1>4. CASE compute_multilateral
  <2>1. accumulators' = accumulators /\ stage' = "netting"
    BY <1>4 DEF compute_multilateral, engineVars
  <2>2. argument' \in SetToSeqs(Engine!compute_net)
    BY <1>4 DEF compute_multilateral, Multi!multilateral_net
  <2>3. QED
    BY <1>1, <2>1, <2>2 DEF StageInv
<1>5. CASE CancelCycles
  <2>1. argument' = argument
    BY <1>5 DEF CancelCycles, Multi!Step, Multi!NextGroup, Multi!CancelCycle, Multi!Retain
  <2>2. accumulators' = accumulators /\ stage' = stage
    BY <1>5 DEF CancelCycles, engineVars
  <2>3. QED
    BY <1>1, <2>1, <2>2 DEF StageInv
<1>6. CASE SubmitResult
  BY <1>6 DEF SubmitResult, StageInv
<1>7. CASE ClearNext
  BY <1>7 DEF ClearNext, StageInv
<1>8. CASE NextCycle
  BY <1>8 DEF NextCycle, Multi!drop, StageInv
<1>9. CASE UNCHANGED vars
  BY <1>1, <1>9 DEF vars, engineVars, multiVars, StageInv
<1>10. QED
  BY <1>2, <1>3, <1>4, <1>5, <1>6, <1>7, <1>8, <1>9 DEF Next

(***************************************************************************)
(* Multilateral netting behaves as MultilateralNetting says.               *)
(***************************************************************************)
LEMMA MultiRuns == Spec => MultiProofs!Spec
<1>1. Init => MultiProofs!Init
  BY MultiSteps DEF Init
<1>2. EngineFacts /\ StageInv /\ [Next]_vars => [MultiProofs!Next]_MultiProofs!vars
  <2>1. SUFFICES ASSUME EngineFacts, StageInv, Next
                 PROVE  [MultiProofs!Next]_MultiProofs!vars
    BY DEF vars, multiVars, MultiProofs!vars
  <2>2. CASE compute_multilateral
    <3>1. PICK obligations \in SetToSeqs(Engine!compute_net) :
             Multi!multilateral_net(obligations)
      BY <2>2 DEF compute_multilateral
    <3>2. obligations \in Seq(NetObligations)
      BY <2>1, InAnyOrder DEF EngineFacts
    <3>3. argument = <<>>
      BY <2>1, <2>2 DEF compute_multilateral, StageInv
    <3>4. QED
      BY <3>1, <3>2, <3>3, MultiSteps
  <2>3. CASE CancelCycles
    BY <2>3, MultiSteps DEF CancelCycles
  <2>4. CASE NextCycle
    BY <2>4, MultiSteps DEF NextCycle
  <2>5. CASE UNCHANGED multiVars
    BY <2>5 DEF multiVars, MultiProofs!vars
  <2>6. QED
    BY <2>1, <2>2, <2>3, <2>4, <2>5
    DEF Next, AddTrade, NetBilaterally, SubmitResult, ClearNext
<1>3. QED
  BY <1>1, <1>2, InitStage, NextStage, EngineAlways, PTL DEF Spec, MultiProofs!Spec

MultiFacts == MultiProofs!TypeOK /\ MultiProofs!NetDeliveryPreserved

LEMMA MultiAlways == Spec => []MultiFacts
<1>1. MultiProofs!Spec => []MultiProofs!TypeOK
  BY MultiAssumption, MultiProofs!TypeCorrect
<1>2. MultiProofs!Spec => []MultiProofs!NetDeliveryPreserved
  BY MultiAssumption, MultiProofs!MultilateralKeepsDeliveries
<1>3. QED
  BY <1>1, <1>2, MultiRuns, PTL DEF MultiFacts

LEMMA StageAlways == Spec => []StageInv
BY InitStage, NextStage, PTL DEF Spec

(***************************************************************************)
(* What multilateral netting returns still delivers the positions.         *)
(***************************************************************************)
LEMMA ResultDelivers ==
    ASSUME EngineFacts, MultiFacts, StageInv, stage = "netting", Multi!Returned,
           NEW s \in Symbols, NEW a \in Accounts
    PROVE  (Delivered(result, s, a) - Positions[s][a]) % QuantityMod = 0
<1>1. argument \in SetToSeqs(Engine!compute_net)
  BY DEF StageInv
<1>2. (Delivered(argument, s, a) - Positions[s][a]) % QuantityMod = 0
  BY <1>1, PositionsDelivered
<1>3. Delivered(result, s, a) + Delivered(MultiProofs!Pending, s, a)
        = Delivered(argument, s, a)
  BY SameUnits DEF MultiFacts, MultiProofs!NetDeliveryPreserved
<1>4. Delivered(MultiProofs!Pending, s, a) = 0
  <2>1. PICK p : p = MultiProofs!Pending
    OBVIOUS
  <2>2. DOMAIN p = {}
    BY <2>1 DEF MultiProofs!Pending, Multi!Returned
  <2>3. PICK f : f = [i \in DOMAIN p |-> Weight(p[i], s, a)]
    OBVIOUS
  <2>4. Delivered(p, s, a) = SumFunctionOnSet(f, {})
    BY <2>2, <2>3 DEF Delivered, SumFunction
  <2>5. QED
    BY <2>1, <2>4, SumOfNothing
<1>5. Delivered(result, s, a) \in Int
  <2>1. result \in Seq(NetObligations)
    BY DEF MultiFacts, MultiProofs!TypeOK, MultiProofs!NetObligations, NetObligations,
           MultiProofs!ObligationType, ObligationType
  <2>2. PICK D : D = DOMAIN result
    OBVIOUS
  <2>3. IsFiniteSet(D)
    <3>1. D = 1..Len(result) /\ Len(result) \in Nat
      BY <2>1, <2>2
    <3>2. PICK n : n = Len(result)
      OBVIOUS
    <3>3. 1 \in Int /\ n \in Int
      BY <3>1, <3>2
    <3>4. QED
      BY <3>1, <3>2, <3>3, FS_Interval
  <2>4. PICK f : f = [i \in D |-> Weight(result[i], s, a)]
    OBVIOUS
  <2>5. \A i \in D : f[i] \in Int
    BY <2>1, <2>2, <2>4, WeightType
  <2>6. SumFunctionOnSet(f, D) \in Int
    BY <2>3, <2>5, SumType
  <2>7. QED
    BY <2>2, <2>4, <2>6 DEF Delivered, SumFunction
<1>6. Delivered(result, s, a) = Delivered(argument, s, a)
  BY <1>3, <1>4, <1>5
<1>7. QED
  BY <1>2, <1>6

-----------------------------------------------------------------------------
(***************************************************************************)
(* The clearing house of the pipeline: every account is registered, and a  *)
(* batch is worked off one obligation at a time.                           *)
(***************************************************************************)
Reports == {House!Cleared} \cup {House!AccountNotFound(a) : a \in Accounts}
           \cup {House!InsufficientBalance(a, r, b) : a \in Accounts, r \in Int, b \in Int}

HouseInv ==
    /\ accounts \in [Accounts -> Int]
    /\ batch \in Seq(NetObligations)
    /\ results \in Seq(Reports)
    /\ Len(results) <= Len(batch)

LEMMA HouseAssumption == Half \in Nat \ {0} /\ InitialBalances \subseteq Int
BY SettlementAssumption DEF House!ClearingAssumption, House!Balance

LEMMA WrapIsWrapped == \A n : House!Wrap(n) = Wrapped(n, Half)
BY DEF House!Wrap, Wrapped

LEMMA ClearNextCases ==
    ASSUME HouseInv, House!ClearNext
    PROVE  /\ Len(results) < Len(batch)
           /\ UNCHANGED batch
           /\ results' \in Seq(Reports) /\ Len(results') = Len(results) + 1
           /\ LET ob == batch[Len(results) + 1]
              IN  /\ ob \in NetObligations
                  /\ \/ accounts' = accounts /\ accounts[ob.deliverer] < ob.net_payment
                     \/ accounts' = [House!Debited(ob) EXCEPT
                                        ![ob.receiver] = House!Wrap(@ + ob.net_payment)]
<1>1. Len(results) < Len(batch) /\ batch' = batch
  BY DEF HouseInv, House!ClearNext, House!Idle
<1>2. PICK ob : ob = batch[Len(results) + 1]
  OBVIOUS
<1>3. ob \in NetObligations
  <2>1. Len(results) + 1 \in 1..Len(batch)
    BY <1>1 DEF HouseInv
  <2>2. QED
    BY <1>2, <2>1 DEF HouseInv
<1>4. House!clear_obligation(ob)
  BY <1>2 DEF House!ClearNext
<1>5. /\ ob.deliverer \in Accounts /\ ob.receiver \in Accounts /\ ob.net_payment \in Int
  BY <1>3 DEF NetObligations, ObligationType
<1>6. DOMAIN accounts = Accounts /\ accounts[ob.deliverer] \in Int
  BY <1>5 DEF HouseInv
<1>7. CASE ~House!CanPay(ob)
           /\ House!Refuse(House!InsufficientBalance(ob.deliverer, ob.net_payment,
                                                     accounts[ob.deliverer]))
  <2>1. PICK e : e = House!InsufficientBalance(ob.deliverer, ob.net_payment,
                                               accounts[ob.deliverer])
    OBVIOUS
  <2>2. e \in Reports
    BY <1>5, <1>6, <2>1 DEF Reports
  <2>3. results' = Append(results, e) /\ accounts' = accounts
    BY <1>7, <2>1 DEF House!Refuse
  <2>4. accounts[ob.deliverer] < ob.net_payment
    BY <1>5, <1>6, <1>7 DEF House!CanPay
  <2>5. results' \in Seq(Reports) /\ Len(results') = Len(results) + 1
    BY <2>2, <2>3 DEF HouseInv
  <2>6. QED
    BY <1>1, <1>2, <1>3, <2>3, <2>4, <2>5
<1>8. CASE House!Transfer(ob)
  <2>1. results' = Append(results, House!Cleared)
        /\ accounts' = [House!Debited(ob) EXCEPT
                           ![ob.receiver] = House!Wrap(@ + ob.net_payment)]
    BY <1>8 DEF House!Transfer
  <2>2. House!Cleared \in Reports
    BY DEF Reports
  <2>3. results' \in Seq(Reports) /\ Len(results') = Len(results) + 1
    BY <2>1, <2>2 DEF HouseInv
  <2>4. QED
    BY <1>1, <1>2, <1>3, <2>1, <2>3
<1>9. QED
  BY <1>4, <1>5, <1>6, <1>7, <1>8 DEF House!clear_obligation

LEMMA BalancesAfter ==
    ASSUME HouseInv, NEW ob \in NetObligations, NEW new,
           new = [House!Debited(ob) EXCEPT ![ob.receiver] = House!Wrap(@ + ob.net_payment)]
    PROVE  /\ new \in [Accounts -> Int]
           /\ \A a \in Accounts :
                 LET gain == Service!Into(ob, a, ob.net_payment)
                              - Service!OutOf(ob, a, ob.net_payment)
                 IN  IF a \in {ob.deliverer, ob.receiver}
                     THEN (new[a] - accounts[a] - gain) % (2 * Half) = 0
                     ELSE new[a] = accounts[a]
<1>1. PICK d \in Accounts, r \in Accounts, p \in Int :
         d = ob.deliverer /\ r = ob.receiver /\ p = ob.net_payment
  BY DEF NetObligations, ObligationType
<1>2. Half \in Nat \ {0}
  BY HouseAssumption
<1>3. \A n \in Int : Wrapped(n, Half) \in Int
  BY <1>2, WrappedValue
<1>4. accounts \in [Accounts -> Int]
  BY DEF HouseInv
<1>5. \A a \in Accounts :
         new[a] = IF a = r
                  THEN Wrapped((IF a = d THEN Wrapped(accounts[a] - p, Half)
                                         ELSE accounts[a]) + p, Half)
                  ELSE IF a = d THEN Wrapped(accounts[a] - p, Half) ELSE accounts[a]
  BY <1>1, <1>4, WrapIsWrapped DEF House!Debited
<1>6. new \in [Accounts -> Int]
  <2>1. \A a \in Accounts : new[a] \in Int
    <3>1. SUFFICES ASSUME NEW a \in Accounts  PROVE new[a] \in Int
      OBVIOUS
    <3>2. accounts[a] \in Int /\ accounts[a] - p \in Int /\ accounts[a] + p \in Int
      BY <1>1, <1>4
    <3>3. Wrapped(accounts[a] - p, Half) + p \in Int
      BY <1>1, <1>3, <3>2
    <3>4. QED
      BY <1>3, <1>5, <3>2, <3>3
  <2>2. new = [a \in Accounts |-> new[a]]
    BY <1>4 DEF House!Debited
  <2>3. QED
    BY <2>1, <2>2
<1>7. ASSUME NEW a \in Accounts, NEW m \in Int, NEW gain \in Int,
             new[a] = Wrapped(m, Half), m = accounts[a] + gain
      PROVE  (new[a] - accounts[a] - gain) % (2 * Half) = 0
  <2>1. PICK b : b = accounts[a]
    OBVIOUS
  <2>2. b \in Int
    BY <1>4, <2>1
  <2>3. PICK n \in Int : n = -b - gain
    <3>1. -b - gain \in Int
      BY <2>2
    <3>2. QED
      BY <3>1
  <2>4. (Wrapped(m, Half) + n) % (2 * Half) = (m + n) % (2 * Half)
    BY <1>2, <1>7, <2>3, WrappedMod
  <2>5. m + n = 0
    BY <1>7, <2>1, <2>2, <2>3
  <2>6. 0 % (2 * Half) = 0
    BY <1>2
  <2>7. new[a] - accounts[a] - gain = Wrapped(m, Half) + n
    <3>1. PICK w : w = Wrapped(m, Half)
      OBVIOUS
    <3>2. w \in Int
      BY <1>3, <3>1
    <3>3. w - b - gain = w + n
      BY <1>7, <2>2, <2>3, <3>2
    <3>4. QED
      BY <1>7, <2>1, <3>1, <3>3
  <2>8. QED
    BY <2>4, <2>5, <2>6, <2>7
<1>8. ASSUME NEW a \in Accounts, a \in {d, r}
      PROVE  LET gain == (IF r = a THEN p ELSE 0) - (IF d = a THEN p ELSE 0)
             IN  (new[a] - accounts[a] - gain) % (2 * Half) = 0
  <2>1. PICK b : b = accounts[a]
    OBVIOUS
  <2>2. b \in Int
    BY <1>4, <2>1
  <2>3. CASE a = r /\ a = d
    <3>1. new[a] = Wrapped(Wrapped(b - p, Half) + p, Half)
      BY <1>5, <2>1, <2>3
    <3>2. Wrapped(Wrapped(b - p, Half) + p, Half) = Wrapped((b - p) + p, Half)
      <4>1. b - p \in Int
        BY <1>1, <2>2
      <4>2. QED
        BY <1>1, <1>2, <4>1, WrappedAdd
    <3>3. (b - p) + p = b /\ b = b + 0
      BY <1>1, <2>2
    <3>4. (new[a] - accounts[a] - 0) % (2 * Half) = 0
      BY <1>7, <2>1, <2>2, <3>1, <3>2, <3>3
    <3>5. p - p = 0
      BY <1>1
    <3>6. QED
      BY <2>3, <3>4, <3>5
  <2>4. CASE a = r /\ a # d
    <3>1. new[a] = Wrapped(b + p, Half) /\ b + p \in Int
      BY <1>1, <1>5, <2>1, <2>2, <2>4
    <3>2. (new[a] - accounts[a] - p) % (2 * Half) = 0
      BY <1>1, <1>7, <2>1, <3>1
    <3>3. p - 0 = p
      BY <1>1
    <3>4. QED
      BY <2>4, <3>2, <3>3
  <2>5. CASE a # r /\ a = d
    <3>1. new[a] = Wrapped(b - p, Half) /\ b - p \in Int /\ 0 - p \in Int
          /\ b - p = b + (0 - p)
      BY <1>1, <1>5, <2>1, <2>2, <2>5
    <3>2. (new[a] - accounts[a] - (0 - p)) % (2 * Half) = 0
      BY <1>7, <2>1, <3>1
    <3>3. QED
      BY <2>5, <3>2
  <2>6. QED
    BY <1>8, <2>3, <2>4, <2>5
<1>9. QED
  BY <1>1, <1>5, <1>6, <1>8 DEF Service!Into, Service!OutOf

LEMMA InitHouse == Init => HouseInv
<1>1. SUFFICES ASSUME Init  PROVE HouseInv
  OBVIOUS
<1>2. accounts \in [Accounts -> Int]
  BY <1>1, HouseAssumption DEF Init
<1>3. batch = <<>> /\ results = <<>>
  BY <1>1 DEF Init
<1>4. QED
  BY <1>2, <1>3 DEF HouseInv

LEMMA SubmitHouse ==
    ASSUME HouseInv, NEW obligations \in Seq(NetObligations), House!clear_all(obligations)
    PROVE  HouseInv'
<1>1. batch' = obligations /\ results' = <<>> /\ accounts' = accounts
  BY DEF House!clear_all
<1>2. Len(results') <= Len(batch')
  BY <1>1
<1>3. results' \in Seq(Reports)
  BY <1>1
<1>4. QED
  BY <1>1, <1>2, <1>3 DEF HouseInv

LEMMA NextHouse ==
    EngineFacts /\ MultiFacts /\ HouseInv /\ [Next]_vars => HouseInv'
<1> SUFFICES ASSUME EngineFacts, MultiFacts, HouseInv, [Next]_vars  PROVE HouseInv'
  OBVIOUS
<1>1. CASE NetBilaterally
  <2>1. PICK obligations \in SetToSeqs(Engine!compute_net) : House!clear_all(obligations)
    BY <1>1 DEF NetBilaterally
  <2>2. obligations \in Seq(NetObligations)
    BY InAnyOrder DEF EngineFacts
  <2>3. QED
    BY <2>1, <2>2, SubmitHouse
<1>2. CASE SubmitResult
  <2>1. House!clear_all(result)
    BY <1>2 DEF SubmitResult
  <2>2. result \in Seq(NetObligations)
    BY DEF MultiFacts, MultiProofs!TypeOK, MultiProofs!NetObligations, NetObligations,
           MultiProofs!ObligationType, ObligationType
  <2>3. QED
    BY <2>1, <2>2, SubmitHouse
<1>3. CASE ClearNext
  <2>1. House!ClearNext
    BY <1>3 DEF ClearNext
  <2>2. PICK ob : ob = batch[Len(results) + 1]
    OBVIOUS
  <2>3. /\ Len(results) < Len(batch) /\ batch' = batch
        /\ results' \in Seq(Reports) /\ Len(results') = Len(results) + 1
        /\ ob \in NetObligations
        /\ \/ accounts' = accounts
           \/ accounts' = [House!Debited(ob) EXCEPT
                              ![ob.receiver] = House!Wrap(@ + ob.net_payment)]
    BY <2>1, <2>2, ClearNextCases
  <2>4. accounts' \in [Accounts -> Int]
    BY <2>3, BalancesAfter DEF HouseInv
  <2>5. Len(results') <= Len(batch')
    BY <2>3 DEF HouseInv
  <2>6. QED
    BY <2>3, <2>4, <2>5 DEF HouseInv
<1>4. CASE NextCycle
  <2>1. batch' = <<>> /\ results' = <<>> /\ accounts' = accounts
    BY <1>4 DEF NextCycle
  <2>2. QED
    BY <2>1 DEF HouseInv
<1>5. CASE UNCHANGED houseVars
  BY <1>5 DEF houseVars, HouseInv
<1>6. QED
  BY <1>1, <1>2, <1>3, <1>4, <1>5 DEF Next, AddTrade, compute_multilateral, CancelCycles, vars

LEMMA HouseAlways == Spec => []HouseInv
BY InitHouse, NextHouse, EngineAlways, MultiAlways, PTL DEF Spec

-----------------------------------------------------------------------------
(***************************************************************************)
(* Every step of the pipeline is a step of the service, or none.           *)
(***************************************************************************)
LEMMA TakeOne ==
    ASSUME NEW S, NEW b \in Seq(S), NEW k \in Nat, k < Len(b)
    PROVE  /\ SubSeq(b, k + 1, Len(b)) # <<>>
           /\ Head(SubSeq(b, k + 1, Len(b))) = b[k + 1]
           /\ Tail(SubSeq(b, k + 1, Len(b))) = SubSeq(b, (k + 1) + 1, Len(b))
<1>1. Len(b) \in Nat
  OBVIOUS
<1>2. PICK m \in 1..Len(b) : m = k + 1
  BY <1>1
<1>3. PICK n \in m..Len(b) : n = Len(b)
  BY <1>1
<1>4. Head(SubSeq(b, m, n)) = b[m] /\ Tail(SubSeq(b, m, n)) = SubSeq(b, m + 1, n)
  BY HeadTailOfSubSeq
<1>5. SubSeq(b, m, n) # <<>>
  <2>1. \A i \in m..n : b[i] \in S
    BY <1>1
  <2>2. Len(SubSeq(b, m, n)) = n - m + 1
    BY <1>1, <2>1, SubSeqProperties
  <2>3. QED
    BY <1>1, <2>2
<1>6. QED
  BY <1>2, <1>3, <1>4, <1>5

(***************************************************************************)
(* What the mapping makes of the variables of the components.              *)
(***************************************************************************)
LEMMA PositionsStay == gross' = gross => Positions' = Positions
BY DEF Positions, Engine!TradedUnits

LEMMA OutstandingStays == batch' = batch /\ results' = results => Outstanding' = Outstanding
BY DEF Outstanding

LEMMA NothingOutstanding ==
    ASSUME HouseInv, House!Idle
    PROVE  Outstanding = <<>>
<1>1. PICK n \in Nat : n = Len(batch)
  BY DEF HouseInv
<1>2. Len(results) = n
  BY <1>1 DEF House!Idle
<1>3. n + 1 \in Int /\ n \in Int /\ n < n + 1
  OBVIOUS
<1>4. SubSeq(batch, n + 1, n) = <<>>
  BY <1>3, SubSeqEmpty
<1>5. QED
  BY <1>1, <1>2, <1>4 DEF Outstanding

LEMMA AllOutstanding ==
    ASSUME NEW obligations \in Seq(NetObligations), House!clear_all(obligations)
    PROVE  Outstanding' = obligations
<1>1. batch' = obligations /\ results' = <<>>
  BY DEF House!clear_all
<1>2. Outstanding' = SubSeq(obligations, 0 + 1, Len(obligations))
  BY <1>1 DEF Outstanding
<1>3. SubSeq(obligations, 1, Len(obligations)) = obligations
  BY SubSeqFull
<1>4. 0 + 1 = 1
  OBVIOUS
<1>5. QED
  BY <1>2, <1>3, <1>4

(***************************************************************************)
(* Clearing one obligation settles or refuses it.                          *)
(***************************************************************************)
LEMMA ClearNextServes ==
    ASSUME HouseInv, ClearNext
    PROVE  Service!Next
<1>1. /\ House!ClearNext /\ stage = "clearing" /\ stage' = "clearing"
      /\ gross' = gross
  BY DEF ClearNext, engineVars
<1>2. PICK ob : ob = batch[Len(results) + 1]
  OBVIOUS
<1>3. /\ Len(results) < Len(batch) /\ batch' = batch
      /\ results' \in Seq(Reports) /\ Len(results') = Len(results) + 1
      /\ ob \in NetObligations
      /\ \/ accounts' = accounts /\ accounts[ob.deliverer] < ob.net_payment
         \/ accounts' = [House!Debited(ob) EXCEPT
                            ![ob.receiver] = House!Wrap(@ + ob.net_payment)]
  BY <1>1, <1>2, ClearNextCases
<1>4. /\ Outstanding # <<>> /\ Head(Outstanding) = ob
      /\ Outstanding' = Tail(Outstanding)
  <2>1. PICK k \in Nat : k = Len(results)
    BY DEF HouseInv
  <2>2. batch \in Seq(NetObligations) /\ k < Len(batch)
    BY <1>3, <2>1 DEF HouseInv
  <2>3. /\ SubSeq(batch, k + 1, Len(batch)) # <<>>
        /\ Head(SubSeq(batch, k + 1, Len(batch))) = batch[k + 1]
        /\ Tail(SubSeq(batch, k + 1, Len(batch))) = SubSeq(batch, (k + 1) + 1, Len(batch))
    BY <2>2, TakeOne
  <2>4. Outstanding' = SubSeq(batch, (k + 1) + 1, Len(batch))
    BY <1>3, <2>1 DEF Outstanding
  <2>5. QED
    BY <1>2, <2>1, <2>3, <2>4 DEF Outstanding
<1>5. Service!Take
  BY <1>1, <1>4, PositionsStay DEF Service!Take, PhaseOfStage
<1>6. CASE accounts' = accounts /\ accounts[ob.deliverer] < ob.net_payment
  BY <1>4, <1>5, <1>6 DEF Service!Refuse, Service!Next
<1>7. CASE accounts' = [House!Debited(ob) EXCEPT
                           ![ob.receiver] = House!Wrap(@ + ob.net_payment)]
  <2>1. PICK new : new = accounts' /\ new = [House!Debited(ob) EXCEPT
                           ![ob.receiver] = House!Wrap(@ + ob.net_payment)]
    BY <1>7
  <2>2. /\ new \in [Accounts -> Int]
        /\ \A a \in Accounts :
              LET gain == Service!Into(ob, a, ob.net_payment)
                           - Service!OutOf(ob, a, ob.net_payment)
              IN  IF a \in {ob.deliverer, ob.receiver}
                  THEN (new[a] - accounts[a] - gain) % (2 * Half) = 0
                  ELSE new[a] = accounts[a]
    <3>1. ob \in NetObligations
      BY <1>3
    <3>2. QED
      BY <2>1, <3>1, BalancesAfter
  <2>3. Service!Settle
    BY <1>4, <1>5, <2>1, <2>2 DEF Service!Settle
  <2>4. QED
    BY <2>3 DEF Service!Next
<1>8. QED
  BY <1>3, <1>6, <1>7

(***************************************************************************)
(* A trade moves the positions of its two parties.                         *)
(***************************************************************************)
LEMMA FiniteDirections == IsFiniteSet(Engine!Direction)
<1>1. IsFiniteSet(Accounts) /\ IsFiniteSet(Symbols)
  BY SettlementAssumption, SameFinite DEF Engine!NettingAssumption
<1>2. PICK T : T = Symbols \X (Accounts \X Accounts)
  OBVIOUS
<1>3. IsFiniteSet(T)
  <2>1. IsFiniteSet(Accounts \X Accounts)
    BY <1>1, FS_Product
  <2>2. QED
    BY <1>1, <1>2, <2>1, FS_Product
<1>4. PICK R : R = Engine!Direction
  OBVIOUS
<1>5. PICK r : r = [p \in T |-> [symbol |-> p[1], buyer |-> p[2][1], seller |-> p[2][2]]]
  OBVIOUS
<1>6. r \in [T -> R]
  BY <1>2, <1>4, <1>5 DEF Engine!Direction
<1>7. ASSUME NEW x \in R  PROVE \E p \in T : r[p] = x
  <2>1. x \in [symbol : Symbols, buyer : Accounts, seller : Accounts]
    BY <1>4, <1>7 DEF Engine!Direction
  <2>2. PICK p \in T : p = <<x.symbol, <<x.buyer, x.seller>>>>
    BY <1>2, <2>1
  <2>3. r[p] = [symbol |-> x.symbol, buyer |-> x.buyer, seller |-> x.seller]
    BY <1>5, <2>2
  <2>4. QED
    BY <2>1, <2>2, <2>3
<1>8. IsFiniteSet(R)
  BY <1>3, <1>6, <1>7, FiniteImage
<1>9. QED
  BY <1>4, <1>8

\* What the trades of one direction give an account.
Moved(volume, d, a) == (IF d.buyer = a THEN volume ELSE 0) - (IF d.seller = a THEN volume ELSE 0)

DirectionsOf(s) == {dir \in Engine!Direction : dir.symbol = s}

LEMMA PositionIsASum ==
    ASSUME NEW s \in Symbols, NEW a \in Accounts
    PROVE  Positions[s][a]
             = SumFunctionOnSet([d \in DirectionsOf(s) |-> Moved(gross[d].quantity, d, a)],
                                DirectionsOf(s))
<1>1. PICK f : f = [d \in DirectionsOf(s) |-> Moved(gross[d].quantity, d, a)]
  OBVIOUS
<1>2. Positions[s][a] = Engine!SumFunction(f)
  BY <1>1 DEF Positions, Engine!TradedUnits, DirectionsOf, Moved
<1>3. DOMAIN f = DirectionsOf(s)
  BY <1>1
<1>4. QED
  BY <1>1, <1>2, <1>3, EngineSum DEF SumFunction

LEMMA PositionIsASumNext ==
    ASSUME NEW s \in Symbols, NEW a \in Accounts
    PROVE  Positions'[s][a]
             = SumFunctionOnSet([d \in DirectionsOf(s) |-> Moved(gross'[d].quantity, d, a)],
                                DirectionsOf(s))
<1>1. PICK f : f = [d \in DirectionsOf(s) |-> Moved(gross'[d].quantity, d, a)]
  OBVIOUS
<1>2. Positions'[s][a] = Engine!SumFunction(f)
  BY <1>1 DEF Positions, Engine!TradedUnits, DirectionsOf, Moved
<1>3. DOMAIN f = DirectionsOf(s)
  BY <1>1
<1>4. QED
  BY <1>1, <1>2, <1>3, EngineSum DEF SumFunction

LEMMA TradeMovesPositions ==
    ASSUME EngineProofs!TypeOK, NEW t \in Engine!Trade, Engine!add_trade(t),
           NEW s \in Symbols, NEW a \in Accounts
    PROVE  Positions'[s][a]
             = IF s = t.symbol THEN Positions[s][a] + Moved(t.quantity, t, a)
                               ELSE Positions[s][a]
<1>1. PICK D : D = DirectionsOf(s)
  OBVIOUS
<1>2. IsFiniteSet(D)
  BY <1>1, FiniteDirections, FS_Subset DEF DirectionsOf
<1>3. PICK f : f = [d \in D |-> Moved(gross[d].quantity, d, a)]
  OBVIOUS
<1>4. PICK g : g = [d \in D |-> Moved(gross'[d].quantity, d, a)]
  OBVIOUS
<1>5. Positions[s][a] = SumFunctionOnSet(f, D) /\ Positions'[s][a] = SumFunctionOnSet(g, D)
  BY <1>1, <1>3, <1>4, PositionIsASum, PositionIsASumNext
<1>6. PICK e : e = [symbol |-> t.symbol, buyer |-> t.buyer, seller |-> t.seller]
  OBVIOUS
<1>7. e \in Engine!Direction /\ e.symbol = t.symbol /\ e.buyer = t.buyer
      /\ e.seller = t.seller
  BY <1>6 DEF Engine!Trade, Engine!Direction
<1>8. \A d \in Engine!Direction : gross[d].quantity \in Nat
  BY DEF EngineProofs!TypeOK, EngineProofs!Direction, Engine!Direction, EngineProofs!Volume
<1>9. t.quantity \in Nat
  BY SettlementAssumption DEF Engine!NettingAssumption, Engine!Trade
<1>10. \A d \in Engine!Direction :
          gross'[d].quantity = IF d = e THEN gross[d].quantity + t.quantity
                                        ELSE gross[d].quantity
  BY <1>6, <1>7
  DEF Engine!add_trade, Engine!Record, EngineProofs!TypeOK, EngineProofs!Direction,
      Engine!Direction
<1>11. D \subseteq Engine!Direction /\ \A d \in D : d.symbol = s
  BY <1>1 DEF DirectionsOf
<1>12. \A d \in D : f[d] \in Int /\ g[d] \in Int /\ (d # e => g[d] = f[d])
  BY <1>3, <1>4, <1>8, <1>9, <1>10, <1>11 DEF Moved
<1>13. CASE s = t.symbol
  <2>1. e \in D
    BY <1>1, <1>7, <1>13 DEF DirectionsOf
  <2>2. SumFunctionOnSet(g, D) = SumFunctionOnSet(f, D) - f[e] + g[e]
    BY <1>2, <1>12, <2>1, SumChangeOne
  <2>3. g[e] = f[e] + Moved(t.quantity, t, a)
    BY <1>3, <1>4, <1>7, <1>8, <1>9, <1>10, <2>1 DEF Moved
  <2>4. SumFunctionOnSet(f, D) \in Int
    BY <1>2, <1>12, SumType
  <2>5. PICK x \in Int, y \in Int, z \in Int :
           x = SumFunctionOnSet(f, D) /\ y = f[e] /\ z = Moved(t.quantity, t, a)
    BY <1>9, <1>12, <2>1, <2>4 DEF Moved
  <2>6. x - y + (y + z) = x + z
    OBVIOUS
  <2>7. QED
    BY <1>5, <1>13, <2>2, <2>3, <2>5, <2>6
<1>14. CASE s # t.symbol
  <2>1. \A d \in D : f[d] = g[d]
    BY <1>7, <1>11, <1>12, <1>14
  <2>2. SumFunctionOnSet(f, D) = SumFunctionOnSet(g, D)
    BY <1>2, <2>1, SumSame
  <2>3. QED
    BY <1>5, <1>14, <2>2
<1>15. QED
  BY <1>13, <1>14

LEMMA AddTradeServes ==
    ASSUME EngineProofs!TypeOK, NEW t \in Engine!Trade, AddTrade(t)
    PROVE  Service!Trade(t.symbol, t.buyer, t.seller, t.quantity)
<1>1. /\ Engine!add_trade(t) /\ stage = "trading" /\ stage' = stage
      /\ accounts' = accounts /\ batch' = batch /\ results' = results
  BY DEF AddTrade, Engine!AddTrade, houseVars
<1>2. PICK x : x = t.symbol
  OBVIOUS
<1>3. PICK b : b = t.buyer
  OBVIOUS
<1>4. PICK l : l = t.seller
  OBVIOUS
<1>5. PICK q : q = t.quantity
  OBVIOUS
<1>6. x \in Symbols /\ b \in Accounts /\ l \in Accounts /\ q \in Nat
  BY <1>2, <1>3, <1>4, <1>5, SettlementAssumption
  DEF Engine!NettingAssumption, Engine!Trade
<1>7. PICK old : old = Positions
  OBVIOUS
<1>8. PICK new : new = Positions'
  OBVIOUS
<1>9. old = [s \in Symbols |-> [a \in Accounts |-> old[s][a]]]
  BY <1>7 DEF Positions
<1>10. new = [s \in Symbols |-> [a \in Accounts |-> new[s][a]]]
  BY <1>8 DEF Positions
<1>11. \A s \in Symbols, a \in Accounts :
          new[s][a] = IF s = x THEN old[s][a] + Moved(q, t, a) ELSE old[s][a]
  BY <1>1, <1>2, <1>5, <1>7, <1>8, TradeMovesPositions
<1>12. \A s \in Symbols, a \in Accounts : old[s][a] \in Int
  <2>1. SUFFICES ASSUME NEW s \in Symbols, NEW a \in Accounts  PROVE old[s][a] \in Int
    OBVIOUS
  <2>2. PICK D : D = DirectionsOf(s)
    OBVIOUS
  <2>3. PICK f : f = [d \in D |-> Moved(gross[d].quantity, d, a)]
    OBVIOUS
  <2>4. IsFiniteSet(D)
    BY <2>2, FiniteDirections, FS_Subset DEF DirectionsOf
  <2>5. \A d \in Engine!Direction : gross[d].quantity \in Nat
    BY DEF EngineProofs!TypeOK, EngineProofs!Direction, Engine!Direction, EngineProofs!Volume
  <2>6. \A d \in D : gross[d].quantity \in Nat
    BY <2>2, <2>5 DEF DirectionsOf
  <2>7. \A d \in D : f[d] \in Int
    BY <2>3, <2>6 DEF Moved
  <2>8. SumFunctionOnSet(f, D) \in Int
    BY <2>4, <2>7, SumType
  <2>9. QED
    BY <1>7, <2>2, <2>3, <2>8, PositionIsASum
<1>13. PICK row : row = [a \in Accounts |-> old[x][a] + (IF a = b THEN q ELSE 0)
                                                      - (IF a = l THEN q ELSE 0)]
  OBVIOUS
<1>14. row = [a \in Accounts |-> row[a]]
  BY <1>13
<1>15. \A a \in Accounts : row[a] = new[x][a]
  <2>1. SUFFICES ASSUME NEW a \in Accounts  PROVE row[a] = new[x][a]
    OBVIOUS
  <2>2. PICK y \in Int : y = old[x][a]
    BY <1>6, <1>12
  <2>3. new[x][a] = y + Moved(q, t, a)
    BY <1>6, <1>11, <2>2
  <2>4. row[a] = y + (IF a = b THEN q ELSE 0) - (IF a = l THEN q ELSE 0)
    BY <1>13, <2>2
  <2>5. Moved(q, t, a) = (IF b = a THEN q ELSE 0) - (IF l = a THEN q ELSE 0)
    BY <1>3, <1>4 DEF Moved
  <2>6. QED
    BY <1>6, <2>3, <2>4, <2>5
<1>16. row = new[x]
  BY <1>6, <1>10, <1>14, <1>15
<1>17. \A s \in Symbols : s # x => new[s] = old[s]
  <2>1. SUFFICES ASSUME NEW s \in Symbols, s # x  PROVE new[s] = old[s]
    OBVIOUS
  <2>2. new[s] = [a \in Accounts |-> new[s][a]] /\ old[s] = [a \in Accounts |-> old[s][a]]
    BY <1>9, <1>10
  <2>3. \A a \in Accounts : new[s][a] = old[s][a]
    BY <1>11, <2>1
  <2>4. QED
    BY <2>2, <2>3
<1>18. new = [old EXCEPT ![x] = row]
  BY <1>6, <1>9, <1>10, <1>16, <1>17
<1>19. new = [old EXCEPT ![x] = [a \in Accounts |-> old[x][a] + (IF a = b THEN q ELSE 0)
                                                         - (IF a = l THEN q ELSE 0)]]
  BY <1>13, <1>18
<1>20. QED
  BY <1>1, <1>2, <1>3, <1>4, <1>5, <1>7, <1>8, <1>19, OutstandingStays DEF Service!Trade, PhaseOfStage

(***************************************************************************)
(* The two ways of netting close the cycle.                                *)
(***************************************************************************)
LEMMA CloseServes ==
    ASSUME NEW obligations \in Seq(NetObligations), House!clear_all(obligations),
           \A s \in Symbols, a \in Accounts :
              (Delivered(obligations, s, a) - Positions[s][a]) % QuantityMod = 0,
           stage \in {"trading", "netting"}, stage' = "clearing", gross' = gross
    PROVE  Service!Close
<1>1. Outstanding' = obligations
  BY AllOutstanding
<1>2. accounts' = accounts
  BY DEF House!clear_all
<1>3. PhaseOfStage = "trading" /\ PhaseOfStage' = "settling"
  BY DEF PhaseOfStage
<1>4. \A s \in Symbols, a \in Accounts :
         (Service!NetUnits(Outstanding', s, a) - Positions[s][a]) % QuantityMod = 0
  BY <1>1, SameUnits
<1>5. QED
  BY <1>2, <1>3, <1>4, PositionsStay DEF Service!Close

(***************************************************************************)
(* The next cycle begins with nothing.                                     *)
(***************************************************************************)
LEMMA NothingTraded ==
    ASSUME gross = [d \in Engine!Direction |-> Engine!Zero]
    PROVE  Positions = Service!Flat
<1>1. ASSUME NEW s \in Symbols, NEW a \in Accounts  PROVE Positions[s][a] = 0
  <2>1. PICK D : D = DirectionsOf(s)
    OBVIOUS
  <2>2. PICK f : f = [d \in D |-> Moved(gross[d].quantity, d, a)]
    OBVIOUS
  <2>3. IsFiniteSet(D)
    BY <2>1, FiniteDirections, FS_Subset DEF DirectionsOf
  <2>4. \A d \in D : f[d] = 0
    BY <2>1, <2>2 DEF DirectionsOf, Moved, Engine!Zero
  <2>5. SumFunctionOnSet(f, D) = 0
    BY <2>3, <2>4, SumOfZeros
  <2>6. QED
    BY <2>1, <2>2, <2>5, PositionIsASum
<1>2. Positions = [s \in Symbols |-> [a \in Accounts |-> Positions[s][a]]]
  BY DEF Positions
<1>3. QED
  BY <1>1, <1>2 DEF Service!Flat

NoTrades == gross = [d \in Engine!Direction |-> Engine!Zero]
AllFlat  == Positions = Service!Flat

LEMMA FlatNow == NoTrades => AllFlat
BY NothingTraded DEF NoTrades, AllFlat

LEMMA FlatNext == NoTrades' => AllFlat'
BY FlatNow, PTL

LEMMA NextCycleServes ==
    ASSUME HouseInv, NextCycle
    PROVE  Service!Reopen
<1>1. /\ stage = "clearing" /\ stage' = "trading" /\ House!Idle
      /\ batch' = <<>> /\ results' = <<>> /\ accounts' = accounts
      /\ gross' = [d \in Engine!Direction |-> Engine!Zero]
  BY DEF NextCycle, ResetEngine, Engine!clear
<1>2. Outstanding = <<>>
  BY <1>1, NothingOutstanding
<1>3. Outstanding' = <<>>
  <2>1. Outstanding' = SubSeq(<<>>, Len(<<>>) + 1, Len(<<>>))
    BY <1>1 DEF Outstanding
  <2>2. PICK m \in Int, n \in Int : m = Len(<<>>) + 1 /\ n = Len(<<>>) /\ n < m
    OBVIOUS
  <2>3. QED
    BY <2>1, <2>2, SubSeqEmpty
<1>4. Positions' = Service!Flat
  <2>1. NoTrades'
    BY <1>1 DEF NoTrades, Engine!Direction, Engine!Zero
  <2>2. QED
    BY <2>1, FlatNext DEF AllFlat, Service!Flat
<1>5. QED
  BY <1>1, <1>2, <1>3, <1>4 DEF Service!Reopen, PhaseOfStage

-----------------------------------------------------------------------------
LEMMA InitServes == Init => Service!Init
<1>1. SUFFICES ASSUME Init  PROVE Service!Init
  OBVIOUS
<1>2. stage = "trading" /\ batch = <<>> /\ results = <<>> /\ NoTrades
  BY <1>1 DEF Init, Engine!Init, NoTrades
<1>3. accounts \in [Accounts -> Int]
  BY <1>1, InitHouse DEF HouseInv
<1>4. Outstanding = <<>>
  BY <1>1, <1>2, InitHouse, NothingOutstanding DEF House!Idle
<1>5. QED
  BY <1>2, <1>3, <1>4, FlatNow DEF Service!Init, PhaseOfStage, AllFlat

Facts == EngineFacts /\ MultiFacts /\ StageInv /\ HouseInv

LEMMA NextServes == Facts /\ [Next]_vars => [Service!Next]_Service!vars
<1>1. SUFFICES ASSUME Facts, [Next]_vars  PROVE [Service!Next]_Service!vars
  OBVIOUS
<1>2. EngineProofs!TypeOK /\ EngineFacts /\ MultiFacts /\ StageInv /\ HouseInv
  BY <1>1 DEF Facts, EngineFacts
<1>3. ASSUME gross' = gross, stage' = stage \/ (stage = "trading" /\ stage' = "netting"),
             accounts' = accounts, batch' = batch, results' = results
      PROVE  UNCHANGED Service!vars
  BY <1>3, PositionsStay, OutstandingStays DEF Service!vars, PhaseOfStage
<1>4. ASSUME NEW t \in Engine!Trade, AddTrade(t)  PROVE Service!Next
  <2>1. Service!Trade(t.symbol, t.buyer, t.seller, t.quantity)
    BY <1>2, <1>4, AddTradeServes
  <2>2. /\ t.symbol \in Symbols /\ t.buyer \in Accounts /\ t.seller \in Accounts
        /\ t.quantity \in Quantities
    BY DEF Engine!Trade
  <2>3. QED
    BY <2>1, <2>2 DEF Service!Next
<1>5. CASE NetBilaterally
  <2>1. PICK obligations \in SetToSeqs(Engine!compute_net) : House!clear_all(obligations)
    BY <1>5 DEF NetBilaterally
  <2>2. obligations \in Seq(NetObligations)
    BY <1>2, InAnyOrder
  <2>3. \A s \in Symbols, a \in Accounts :
           (Delivered(obligations, s, a) - Positions[s][a]) % QuantityMod = 0
    BY <1>2, PositionsDelivered
  <2>4. stage = "trading" /\ stage' = "clearing" /\ gross' = gross
    BY <1>5 DEF NetBilaterally, engineVars
  <2>5. Service!Close
    BY <2>1, <2>2, <2>3, <2>4, CloseServes
  <2>6. QED
    BY <2>5 DEF Service!Next
<1>6. CASE compute_multilateral
  BY <1>3, <1>6 DEF compute_multilateral, engineVars, houseVars
<1>7. CASE CancelCycles
  BY <1>3, <1>7 DEF CancelCycles, engineVars, houseVars
<1>8. CASE SubmitResult
  <2>1. /\ House!clear_all(result) /\ Multi!Returned
        /\ stage = "netting" /\ stage' = "clearing" /\ gross' = gross
    BY <1>8 DEF SubmitResult, engineVars
  <2>2. result \in Seq(NetObligations)
    BY <1>2 DEF MultiFacts, MultiProofs!TypeOK, MultiProofs!NetObligations, NetObligations,
                MultiProofs!ObligationType, ObligationType
  <2>3. \A s \in Symbols, a \in Accounts :
           (Delivered(result, s, a) - Positions[s][a]) % QuantityMod = 0
    BY <1>2, <2>1, ResultDelivers
  <2>4. Service!Close
    BY <2>1, <2>2, <2>3, CloseServes
  <2>5. QED
    BY <2>4 DEF Service!Next
<1>9. CASE ClearNext
  BY <1>2, <1>9, ClearNextServes
<1>10. CASE NextCycle
  BY <1>2, <1>10, NextCycleServes DEF Service!Next
<1>11. CASE UNCHANGED vars
  BY <1>3, <1>11 DEF vars, engineVars, houseVars
<1>12. QED
  BY <1>1, <1>4, <1>5, <1>6, <1>7, <1>8, <1>9, <1>10, <1>11 DEF Next

(***************************************************************************)
(* The pipeline of trades, netting, clearing and the next cycle implements *)
(* the service, for any accounts, symbols, prices, quantities, widths and  *)
(* numbers of trades and cycles: obligations deliver the positions modulo  *)
(* the width of a quantity whichever way the trades are netted, and each   *)
(* is settled whole or refused for lack of funds.                          *)
(***************************************************************************)
THEOREM PipelineImplementsService == Spec => ImplementsService
<1>1. Spec => []Facts
  BY EngineAlways, MultiAlways, StageAlways, HouseAlways, PTL DEF Facts
<1>2. QED
  BY <1>1, InitServes, NextServes, PTL DEF Spec, ImplementsService, Service!Spec

-----------------------------------------------------------------------------
(***************************************************************************)
(* The cash of a cycle.  First, that it is netted as it was traded.        *)
(***************************************************************************)
CashFacts == EngineProofs!TypeOK /\ EngineProofs!CashPreservedButFlatPairs

LEMMA CashAlways == Spec => []CashFacts
<1>1. EngineProofs!Spec => []EngineProofs!TypeOK
  BY EngineAssumption, EngineProofs!TypeCorrect
<1>2. EngineProofs!Spec => []EngineProofs!CashPreservedButFlatPairs
  BY EngineAssumption, EngineProofs!NettingPreservesCash
<1>3. QED
  BY <1>1, <1>2, EngineRuns, PTL DEF CashFacts

\* What an obligation gives an account when the clearing house performs it.
Credit(ob, a) == (IF ob.receiver = a THEN ob.net_payment ELSE 0)
               - (IF ob.deliverer = a THEN ob.net_payment ELSE 0)

\* What it gives in one symbol as the netting engine means it, and what a
\* collection does.
CashWeight(ob, s, a) ==
    IF ob.symbol = s
    THEN (IF ob.deliverer = a THEN ob.net_payment ELSE 0)
           - (IF ob.receiver = a THEN ob.net_payment ELSE 0)
    ELSE 0

LEMMA CashTypes ==
    \A ob \in NetObligations : \A s, a :
        /\ Credit(ob, a) \in Int /\ CashWeight(ob, s, a) \in Int
        /\ CashWeight(ob, s, a) = IF ob.symbol = s THEN -Credit(ob, a) ELSE 0
BY DEF NetObligations, ObligationType, Credit, CashWeight

(***************************************************************************)
(* The obligations of compute_net, in whatever order, have the same sum.   *)
(***************************************************************************)
LEMMA SameSumInAnyOrder ==
    ASSUME EngineProofs!TypeOK, NEW o \in SetToSeqs(Engine!compute_net),
           NEW w, \A ob \in NetObligations : w[ob] \in Int
    PROVE  /\ Len(o) \in Nat /\ IsFiniteSet(1..Len(o))
           /\ \A i \in 1..Len(o) : o[i] \in NetObligations
           /\ SumFunctionOnSet([i \in 1..Len(o) |-> w[o[i]]], 1..Len(o))
                = SumFunctionOnSet(w, Engine!compute_net)
<1>1. PICK N : N = Engine!compute_net
  OBVIOUS
<1>2. IsFiniteSet(N) /\ N \subseteq NetObligations
  BY <1>1, NetShape
<1>3. PICK n : n = Cardinality(N)
  OBVIOUS
<1>4. n \in Nat
  BY <1>2, <1>3, FS_CardinalityType
<1>5. o \in [1..n -> N] /\ \A i, j \in 1..n : i # j => o[i] # o[j]
  BY <1>1, <1>3 DEF SetToSeqs
<1>6. Len(o) = n
  <2>1. o \in Seq(NetObligations)
    BY InAnyOrder
  <2>2. PICK m \in Nat : m = Len(o) /\ DOMAIN o = 1..m
    BY <2>1
  <2>3. 1..m = 1..n
    BY <1>5, <2>2
  <2>4. m = n
    BY <1>4, <2>3
  <2>5. QED
    BY <2>2, <2>4
<1>7. PICK D : D = 1..n
  OBVIOUS
<1>8. IsFiniteSet(D) /\ Cardinality(D) = n
  <2>1. 1 \in Int /\ n \in Int
    BY <1>4
  <2>2. QED
    BY <1>4, <1>7, <2>1, FS_Interval
<1>9. \A ob \in N : \E i \in D : o[i] = ob
  <2>1. o \in Injection(D, N)
    BY <1>5, <1>7 DEF Injection, IsInjective
  <2>2. o \in Surjection(D, N)
    BY <1>2, <1>3, <1>8, <2>1, FS_Injection
  <2>3. QED
    BY <2>2 DEF Surjection
<1>10. o \in [D -> N] /\ \A i, j \in D : o[i] = o[j] => i = j
  BY <1>5, <1>7
<1>11. PICK f : f = [i \in D |-> w[o[i]]]
  OBVIOUS
<1>12. SumFunctionOnSet(f, D) = SumFunctionOnSet(w, N)
  <2>1. \A i, j \in D : o[i] = o[j] => i = j
    BY <1>10
  <2>2. o \in [D -> N] /\ IsFiniteSet(D) /\ IsFiniteSet(N)
    BY <1>2, <1>8, <1>10
  <2>3. \A i \in D : f[i] \in Int /\ f[i] = w[o[i]]
    BY <1>2, <1>11, <2>2
  <2>4. QED
    BY <1>9, <2>1, <2>2, <2>3, SumRenamed
<1>13. QED
  BY <1>1, <1>2, <1>4, <1>6, <1>7, <1>8, <1>10, <1>11, <1>12

(***************************************************************************)
(* What the trades of a cycle and its flat pairs mean for an account, in   *)
(* all symbols.                                                            *)
(***************************************************************************)
Paid(amount, d, a) == (IF d.seller = a THEN amount ELSE 0) - (IF d.buyer = a THEN amount ELSE 0)

CashIn(s, a) ==
    SumFunctionOnSet([d \in DirectionsOf(s) |-> Paid(gross[d].payment, d, a)], DirectionsOf(s))

CashOf(a) == SumFunctionOnSet([s \in Symbols |-> CashIn(s, a)], Symbols)

LEMMA CashInIsTraded == \A s, a : EngineProofs!TradedCash(s, a) = CashIn(s, a)
<1>1. SUFFICES ASSUME NEW s, NEW a  PROVE EngineProofs!TradedCash(s, a) = CashIn(s, a)
  OBVIOUS
<1>2. PICK f : f = [d \in DirectionsOf(s) |-> Paid(gross[d].payment, d, a)]
  OBVIOUS
<1>3. EngineProofs!TradedCash(s, a) = EngineProofs!SumFunction(f)
  BY <1>2 DEF EngineProofs!TradedCash, EngineProofs!Direction, Engine!Direction,
              DirectionsOf, Paid
<1>4. DOMAIN f = DirectionsOf(s)
  BY <1>2
<1>5. QED
  BY <1>2, <1>3, <1>4, EngineProofsSum DEF SumFunction, CashIn

LEMMA CashInType ==
    ASSUME EngineProofs!TypeOK, NEW s, NEW a
    PROVE  CashIn(s, a) \in Int
<1>1. PICK D : D = DirectionsOf(s)
  OBVIOUS
<1>2. PICK f : f = [d \in D |-> Paid(gross[d].payment, d, a)]
  OBVIOUS
<1>3. IsFiniteSet(D)
  BY <1>1, FiniteDirections, FS_Subset DEF DirectionsOf
<1>4. \A d \in Engine!Direction : gross[d].payment \in Int
  BY DEF EngineProofs!TypeOK, EngineProofs!Direction, Engine!Direction, EngineProofs!Volume
<1>5. \A d \in D : gross[d].payment \in Int
  BY <1>1, <1>4 DEF DirectionsOf
<1>6. \A d \in D : f[d] \in Int
  BY <1>2, <1>5 DEF Paid
<1>7. SumFunctionOnSet(f, D) \in Int
  BY <1>3, <1>6, SumType
<1>8. QED
  BY <1>1, <1>2, <1>7 DEF CashIn

LEMMA FiniteSymbols == IsFiniteSet(Symbols)
BY SettlementAssumption, SameFinite DEF Engine!NettingAssumption

LEMMA CashOfType ==
    ASSUME EngineProofs!TypeOK, NEW a
    PROVE  CashOf(a) \in Int
<1>1. PICK f : f = [s \in Symbols |-> CashIn(s, a)]
  OBVIOUS
<1>2. \A s \in Symbols : f[s] \in Int
  BY <1>1, CashInType
<1>3. SumFunctionOnSet(f, Symbols) \in Int
  BY <1>2, FiniteSymbols, SumType
<1>4. QED
  BY <1>1, <1>3 DEF CashOf

LEMMA FlatType ==
    ASSUME EngineProofs!TypeOK, NEW s, NEW a
    PROVE  EngineProofs!FlatResidual(s, a) \in Int
<1>1. PICK K : K = {key \in DOMAIN accumulators \ EngineProofs!Unbalanced : key.symbol = s}
  OBVIOUS
<1>2. PICK f : f = [k \in K |-> (IF k.hi = a THEN accumulators[k].payment ELSE 0)
                              - (IF k.lo = a THEN accumulators[k].payment ELSE 0)]
  OBVIOUS
<1>3. EngineProofs!FlatResidual(s, a) = SumFunctionOnSet(f, K)
  <2>1. EngineProofs!FlatResidual(s, a) = EngineProofs!SumFunction(f)
    BY <1>1, <1>2 DEF EngineProofs!FlatResidual
  <2>2. DOMAIN f = K
    BY <1>2
  <2>3. QED
    BY <2>1, <2>2, EngineProofsSum DEF SumFunction
<1>4. IsFiniteSet(K)
  <2>1. K \subseteq Engine!NettingKey
    BY <1>1 DEF EngineProofs!TypeOK, EngineProofs!NettingKey, Engine!NettingKey
  <2>2. QED
    BY <2>1, FiniteKeys, FS_Subset
<1>5. \A k \in K : accumulators[k].payment \in Int
  <2>1. \A k \in DOMAIN accumulators : accumulators[k] \in EngineProofs!Accumulator
    BY DEF EngineProofs!TypeOK
  <2>2. AccumulatorHalf \in Nat \ {0}
    BY SettlementAssumption DEF Engine!NettingAssumption
  <2>3. QED
    BY <1>1, <2>1, <2>2 DEF EngineProofs!Accumulator, EngineProofs!Signed
<1>6. \A k \in K : f[k] \in Int
  BY <1>2, <1>5
<1>7. QED
  BY <1>3, <1>4, <1>6, SumType

LEMMA ResidualIsASum ==
    \A a : Residual(a) = SumFunctionOnSet([s \in Symbols |-> EngineProofs!FlatResidual(s, a)],
                                          Symbols)
<1>1. \A s, a : Engine!FlatResidual(s, a) = EngineProofs!FlatResidual(s, a)
  <2>1. SUFFICES ASSUME NEW s, NEW a
                 PROVE  Engine!FlatResidual(s, a) = EngineProofs!FlatResidual(s, a)
    OBVIOUS
  <2>2. PICK f : f = [k \in {key \in DOMAIN accumulators \ Engine!Unbalanced : key.symbol = s} |->
                          (IF k.hi = a THEN accumulators[k].payment ELSE 0)
                        - (IF k.lo = a THEN accumulators[k].payment ELSE 0)]
    OBVIOUS
  <2>3. Engine!FlatResidual(s, a) = Engine!SumFunction(f)
    BY <2>2 DEF Engine!FlatResidual
  <2>4. EngineProofs!FlatResidual(s, a) = EngineProofs!SumFunction(f)
    BY <2>2 DEF EngineProofs!FlatResidual, EngineProofs!Unbalanced, Engine!Unbalanced
  <2>5. QED
    BY <2>3, <2>4, EngineSum, EngineProofsSum
<1>2. SUFFICES ASSUME NEW a
               PROVE  Residual(a)
                        = SumFunctionOnSet([s \in Symbols |-> EngineProofs!FlatResidual(s, a)],
                                           Symbols)
  OBVIOUS
<1>3. PICK f : f = [s \in Symbols |-> EngineProofs!FlatResidual(s, a)]
  OBVIOUS
<1>4. Residual(a) = SumFunction(f)
  BY <1>1, <1>3 DEF Residual
<1>5. DOMAIN f = Symbols
  BY <1>3
<1>6. QED
  BY <1>3, <1>4, <1>5 DEF SumFunction

LEMMA ResidualType ==
    ASSUME EngineProofs!TypeOK, NEW a
    PROVE  Residual(a) \in Int
<1>1. PICK f : f = [s \in Symbols |-> EngineProofs!FlatResidual(s, a)]
  OBVIOUS
<1>2. \A s \in Symbols : f[s] \in Int
  BY <1>1, FlatType
<1>3. SumFunctionOnSet(f, Symbols) \in Int
  BY <1>2, FiniteSymbols, SumType
<1>4. QED
  BY <1>1, <1>3, ResidualIsASum

(***************************************************************************)
(* All obligations of a cycle, cleared in any order, move the cash of the  *)
(* trades, but for the flat pairs.                                         *)
(***************************************************************************)
Credited(f, n, a) == SumFunctionOnSet([i \in 1..n |-> Credit(f[i], a)], 1..n)

LEMMA NetCashIsASum ==
    \A s, a : EngineProofs!NetCash(EngineProofs!Obligations, s, a)
                = SumFunctionOnSet([ob \in Engine!compute_net |-> CashWeight(ob, s, a)],
                                   Engine!compute_net)
<1>1. SUFFICES ASSUME NEW s, NEW a
               PROVE  EngineProofs!NetCash(EngineProofs!Obligations, s, a)
                        = SumFunctionOnSet([ob \in Engine!compute_net |-> CashWeight(ob, s, a)],
                                           Engine!compute_net)
  OBVIOUS
<1>2. PICK N : N = Engine!compute_net
  OBVIOUS
<1>3. PICK g : g = [ob \in N |-> CashWeight(ob, s, a)]
  OBVIOUS
<1>4. PICK h : h = EngineProofs!Obligations
  OBVIOUS
<1>5. h = [ob \in N |-> ob]
  BY <1>2, <1>4
  DEF EngineProofs!Obligations, EngineProofs!compute_net, Engine!compute_net,
      EngineProofs!Unbalanced, Engine!Unbalanced, EngineProofs!ObligationOf,
      Engine!ObligationOf, EngineProofs!NetObligation, Engine!NetObligation,
      EngineProofs!AsU64, Engine!AsU64, EngineProofs!saturating_i128_to_i64,
      Engine!saturating_i128_to_i64, EngineProofs!Wrap, Engine!Wrap
<1>6. EngineProofs!NetCash(h, s, a)
        = EngineProofs!SumFunction([i \in DOMAIN h |-> CashWeight(h[i], s, a)])
  BY DEF EngineProofs!NetCash, EngineProofs!Total, EngineProofs!Into, EngineProofs!OutOf,
         CashWeight
<1>7. [i \in DOMAIN h |-> CashWeight(h[i], s, a)] = g /\ DOMAIN g = N
  BY <1>3, <1>5
<1>8. EngineProofs!NetCash(h, s, a) = SumFunctionOnSet(g, N)
  BY <1>6, <1>7, EngineProofsSum DEF SumFunction
<1>9. QED
  BY <1>2, <1>3, <1>4, <1>8

LEMMA NetCashBySymbol ==
    ASSUME EngineProofs!TypeOK, NEW a,
           NEW m, m = [ob \in Engine!compute_net |-> -Credit(ob, a)],
           NEW part, part = [s \in Symbols |->
                                EngineProofs!NetCash(EngineProofs!Obligations, s, a)]
    PROVE  /\ SumFunctionOnSet(part, Symbols) = SumFunctionOnSet(m, Engine!compute_net)
           /\ \A s \in Symbols : part[s] \in Int
<1>1. PICK N : N = Engine!compute_net
  OBVIOUS
<1>2. IsFiniteSet(N) /\ N \subseteq NetObligations
  BY <1>1, NetShape
<1>3. PICK c : c = [ob \in N |-> ob.symbol]
  OBVIOUS
<1>4. \A ob \in N : c[ob] \in Symbols
  BY <1>2, <1>3 DEF NetObligations, ObligationType
<1>5. \A ob \in N : m[ob] = -Credit(ob, a) /\ m[ob] \in Int
  BY <1>1, <1>2, CashTypes
<1>6. ASSUME NEW s \in Symbols
      PROVE  part[s] = SumFunctionOnSet(InClasses(m, c, N, {s}), N) /\ part[s] \in Int
  <2>1. PICK g : g = [ob \in N |-> CashWeight(ob, s, a)]
    OBVIOUS
  <2>2. PICK h : h = InClasses(m, c, N, {s})
    OBVIOUS
  <2>3. part[s] = SumFunctionOnSet(g, N)
    BY <1>1, <2>1, NetCashIsASum
  <2>4. \A ob \in N : g[ob] \in Int
    BY <1>2, <2>1, CashTypes
  <2>5. \A ob \in N : h[ob] = g[ob]
    <3>1. SUFFICES ASSUME NEW ob \in N  PROVE h[ob] = g[ob]
      OBVIOUS
    <3>2. h[ob] = IF ob.symbol = s THEN m[ob] ELSE 0
      BY <1>3, <2>2 DEF InClasses
    <3>3. g[ob] = IF ob.symbol = s THEN -Credit(ob, a) ELSE 0
      BY <1>2, <2>1, CashTypes
    <3>4. QED
      BY <1>5, <3>2, <3>3
  <2>6. SumFunctionOnSet(h, N) = SumFunctionOnSet(g, N)
    BY <1>2, <2>5, SumSame
  <2>7. SumFunctionOnSet(g, N) \in Int
    BY <1>2, <2>4, SumType
  <2>8. QED
    BY <2>2, <2>3, <2>6, <2>7
<1>7. PICK S : S = Symbols
  OBVIOUS
<1>8. PICK p : p = part
  OBVIOUS
<1>9. p = [s \in S |-> ClassSum(m, c, N, s)]
  <2>1. \A s \in S : p[s] = ClassSum(m, c, N, s)
    BY <1>6, <1>7, <1>8 DEF ClassSum
  <2>2. p = [s \in S |-> p[s]]
    BY <1>7, <1>8
  <2>3. QED
    BY <2>1, <2>2
<1>10. SumFunctionOnSet(p, S) = SumFunctionOnSet(m, N)
  <2>1. IsFiniteSet(S) /\ IsFiniteSet(N)
    BY <1>2, <1>7, FiniteSymbols
  <2>2. c \in [N -> S]
    BY <1>3, <1>4, <1>7
  <2>3. \A ob \in N : m[ob] \in Int
    BY <1>5
  <2>4. SumFunctionOnSet([s \in S |-> ClassSum(m, c, N, s)], S) = SumFunctionOnSet(m, N)
    BY <2>1, <2>2, <2>3, SumByClass
  <2>5. QED
    BY <1>9, <2>4
<1>11. QED
  BY <1>1, <1>6, <1>7, <1>8, <1>10

LEMMA BatchPays ==
    ASSUME CashFacts, NettedExactly, NEW o \in SetToSeqs(Engine!compute_net),
           NEW a \in Accounts
    PROVE  Credited(o, Len(o), a) = Residual(a) - CashOf(a)
<1>1. EngineProofs!TypeOK
  BY DEF CashFacts
<1>2. PICK N : N = Engine!compute_net
  OBVIOUS
<1>3. IsFiniteSet(N) /\ N \subseteq NetObligations
  BY <1>1, <1>2, NetShape
<1>4. PICK w : w = [ob \in NetObligations |-> Credit(ob, a)]
  OBVIOUS
<1>5. \A ob \in NetObligations : w[ob] = Credit(ob, a) /\ w[ob] \in Int
  BY <1>4, CashTypes
<1>6. Credited(o, Len(o), a) = SumFunctionOnSet(w, N)
  <2>1. PICK D : D = 1..Len(o)
    OBVIOUS
  <2>2. /\ \A i \in D : o[i] \in NetObligations
        /\ SumFunctionOnSet([i \in D |-> w[o[i]]], D) = SumFunctionOnSet(w, N)
    BY <1>1, <1>2, <1>5, <2>1, SameSumInAnyOrder
  <2>3. [i \in D |-> w[o[i]]] = [i \in D |-> Credit(o[i], a)]
    BY <1>5, <2>2
  <2>4. QED
    BY <2>1, <2>2, <2>3 DEF Credited
<1>7. PICK m : m = [ob \in N |-> -Credit(ob, a)]
  OBVIOUS
<1>8. SumFunctionOnSet(m, N) = -SumFunctionOnSet(w, N) /\ SumFunctionOnSet(w, N) \in Int
  <2>1. \A ob \in N : w[ob] \in Int /\ m[ob] = -w[ob]
    BY <1>3, <1>5, <1>7
  <2>2. SumFunctionOnSet(m, N) = -SumFunctionOnSet(w, N)
    BY <1>3, <2>1, SumNegated
  <2>3. SumFunctionOnSet(w, N) \in Int
    BY <1>3, <2>1, SumType
  <2>4. QED
    BY <2>2, <2>3
<1>9. PICK part : part = [s \in Symbols |->
                             EngineProofs!NetCash(EngineProofs!Obligations, s, a)]
  OBVIOUS
<1>10. /\ SumFunctionOnSet(part, Symbols) = SumFunctionOnSet(m, N)
       /\ \A s \in Symbols : part[s] \in Int
  BY <1>1, <1>2, <1>7, <1>9, NetCashBySymbol
<1>11. PICK flat : flat = [s \in Symbols |-> EngineProofs!FlatResidual(s, a)]
  OBVIOUS
<1>12. PICK traded : traded = [s \in Symbols |-> CashIn(s, a)]
  OBVIOUS
<1>13. \A s \in Symbols :
          part[s] \in Int /\ flat[s] \in Int /\ traded[s] = part[s] + flat[s]
  <2>1. SUFFICES ASSUME NEW s \in Symbols
                 PROVE  /\ part[s] \in Int /\ flat[s] \in Int
                        /\ traded[s] = part[s] + flat[s]
    OBVIOUS
  <2>2. part[s] \in Int /\ flat[s] \in Int /\ traded[s] \in Int
    BY <1>1, <1>10, <1>11, <1>12, FlatType, CashInType
  <2>3. EngineProofs!NetCash(EngineProofs!Obligations, s, a)
          = EngineProofs!TradedCash(s, a) - EngineProofs!FlatResidual(s, a)
    BY DEF CashFacts, EngineProofs!CashPreservedButFlatPairs, NettedExactly
  <2>4. part[s] = traded[s] - flat[s]
    BY <1>9, <1>11, <1>12, <2>3, CashInIsTraded
  <2>5. QED
    BY <2>2, <2>4
<1>14. SumFunctionOnSet(traded, Symbols)
         = SumFunctionOnSet(part, Symbols) + SumFunctionOnSet(flat, Symbols)
  BY <1>13, FiniteSymbols, SumPlus
<1>15. CashOf(a) = SumFunctionOnSet(traded, Symbols)
       /\ Residual(a) = SumFunctionOnSet(flat, Symbols)
  BY <1>11, <1>12, ResidualIsASum DEF CashOf
<1>16. Residual(a) \in Int
  BY <1>1, ResidualType
<1>17. PICK x \in Int, y \in Int :
          x = SumFunctionOnSet(w, N) /\ y = Residual(a)
  BY <1>8, <1>16
<1>18. CashOf(a) = -x + y
  BY <1>8, <1>10, <1>14, <1>15, <1>17
<1>19. x = y - (-x + y)
  OBVIOUS
<1>20. QED
  BY <1>6, <1>17, <1>18, <1>19

(***************************************************************************)
(* A trade gives its two parties its cash.                                 *)
(***************************************************************************)
LEMMA CashInNext ==
    ASSUME NEW s, NEW a
    PROVE  CashIn(s, a)' = SumFunctionOnSet([d \in DirectionsOf(s) |-> Paid(gross'[d].payment, d, a)],
                                            DirectionsOf(s))
BY DEF CashIn, DirectionsOf, Paid, Engine!Direction

LEMMA TradeTypes ==
    ASSUME NEW t \in Engine!Trade
    PROVE  t.symbol \in Symbols /\ t.price \in Int /\ t.quantity \in Int
<1>1. t.symbol \in Symbols /\ t.price \in Prices /\ t.quantity \in Quantities
  BY DEF Engine!Trade
<1>2. Prices \subseteq Int /\ Quantities \subseteq Nat
  BY SettlementAssumption DEF Engine!NettingAssumption
<1>3. \A p \in Prices, q \in Quantities : p \in Int /\ q \in Int
  BY <1>2
<1>4. QED
  BY <1>1, <1>3

LEMMA TradeMovesCash ==
    ASSUME EngineProofs!TypeOK, NEW t \in Engine!Trade, Engine!add_trade(t),
           NEW s \in Symbols, NEW a \in Accounts
    PROVE  CashIn(s, a)' = IF s = t.symbol THEN CashIn(s, a) + Gain(t, a) ELSE CashIn(s, a)
<1>1. PICK D : D = DirectionsOf(s)
  OBVIOUS
<1>2. IsFiniteSet(D)
  BY <1>1, FiniteDirections, FS_Subset DEF DirectionsOf
<1>3. PICK f : f = [d \in D |-> Paid(gross[d].payment, d, a)]
  OBVIOUS
<1>4. PICK g : g = [d \in D |-> Paid(gross'[d].payment, d, a)]
  OBVIOUS
<1>5. CashIn(s, a) = SumFunctionOnSet(f, D) /\ CashIn(s, a)' = SumFunctionOnSet(g, D)
  <2>1. CashIn(s, a) = SumFunctionOnSet(f, D)
    BY <1>1, <1>3 DEF CashIn
  <2>2. CashIn(s, a)' = SumFunctionOnSet(g, D)
    BY <1>1, <1>4, CashInNext
  <2>3. QED
    BY <2>1, <2>2
<1>6. PICK e : e = [symbol |-> t.symbol, buyer |-> t.buyer, seller |-> t.seller]
  OBVIOUS
<1>7. e \in Engine!Direction /\ e.symbol = t.symbol /\ e.buyer = t.buyer
      /\ e.seller = t.seller
  BY <1>6 DEF Engine!Trade, Engine!Direction
<1>8. \A d \in Engine!Direction : gross[d].payment \in Int
  BY DEF EngineProofs!TypeOK, EngineProofs!Direction, Engine!Direction, EngineProofs!Volume
<1>9. PICK v \in Int : v = t.price * t.quantity
  <2>1. t.price \in Int /\ t.quantity \in Int
    BY TradeTypes
  <2>2. QED
    BY <2>1
<1>10. \A d \in Engine!Direction :
          gross'[d].payment = IF d = e THEN gross[d].payment + v ELSE gross[d].payment
  BY <1>6, <1>7, <1>9
  DEF Engine!add_trade, Engine!Record, EngineProofs!TypeOK, EngineProofs!Direction,
      Engine!Direction
<1>11. D \subseteq Engine!Direction /\ \A d \in D : d.symbol = s
  BY <1>1 DEF DirectionsOf
<1>12. \A d \in D : f[d] \in Int /\ g[d] \in Int /\ (d # e => g[d] = f[d])
  BY <1>3, <1>4, <1>8, <1>10, <1>11 DEF Paid
<1>13. Gain(t, a) = Paid(v, t, a)
  BY <1>9 DEF Gain, Paid
<1>14. CASE s = t.symbol
  <2>1. e \in D
    BY <1>1, <1>7, <1>14 DEF DirectionsOf
  <2>2. SumFunctionOnSet(g, D) = SumFunctionOnSet(f, D) - f[e] + g[e]
    BY <1>2, <1>12, <2>1, SumChangeOne
  <2>3. g[e] = f[e] + Paid(v, t, a)
    BY <1>3, <1>4, <1>7, <1>8, <1>10, <2>1 DEF Paid
  <2>4. SumFunctionOnSet(f, D) \in Int
    BY <1>2, <1>12, SumType
  <2>5. PICK x \in Int, y \in Int, z \in Int :
           x = SumFunctionOnSet(f, D) /\ y = f[e] /\ z = Paid(v, t, a)
    <3>1. f[e] \in Int
      BY <1>12, <2>1
    <3>2. Paid(v, t, a) \in Int
      BY DEF Paid
    <3>3. QED
      BY <2>4, <3>1, <3>2
  <2>6. x - y + (y + z) = x + z
    OBVIOUS
  <2>7. QED
    BY <1>5, <1>13, <1>14, <2>2, <2>3, <2>5, <2>6
<1>15. CASE s # t.symbol
  <2>1. \A d \in D : f[d] = g[d]
    BY <1>7, <1>11, <1>12, <1>15
  <2>2. SumFunctionOnSet(f, D) = SumFunctionOnSet(g, D)
    BY <1>2, <2>1, SumSame
  <2>3. QED
    BY <1>5, <1>15, <2>2
<1>16. QED
  BY <1>14, <1>15

LEMMA CashOfNext ==
    ASSUME NEW a
    PROVE  CashOf(a)' = SumFunctionOnSet([s \in Symbols |-> CashIn(s, a)'], Symbols)
BY DEF CashOf

LEMMA TradeAddsCash ==
    ASSUME EngineProofs!TypeOK, NEW t \in Engine!Trade, Engine!add_trade(t), NEW a \in Accounts
    PROVE  CashOf(a)' = CashOf(a) + Gain(t, a) /\ Gain(t, a) \in Int
<1>1. PICK f : f = [s \in Symbols |-> CashIn(s, a)]
  OBVIOUS
<1>2. PICK g : g = [s \in Symbols |-> CashIn(s, a)']
  OBVIOUS
<1>3. t.symbol \in Symbols /\ t.price \in Int /\ t.quantity \in Int
  BY TradeTypes
<1>4. PICK z \in Int : z = Gain(t, a)
  <2>1. PICK v \in Int : v = t.price * t.quantity
    BY <1>3
  <2>2. QED
    BY <2>1 DEF Gain
<1>5. PICK e \in Symbols : e = t.symbol
  BY <1>3
<1>6. \A s \in Symbols : f[s] \in Int /\ g[s] = IF s = e THEN f[s] + z ELSE f[s]
  BY <1>1, <1>2, <1>4, <1>5, CashInType, TradeMovesCash
<1>7. \A s \in Symbols : f[s] \in Int /\ g[s] \in Int /\ (s # e => g[s] = f[s])
  BY <1>6
<1>8. SumFunctionOnSet(g, Symbols) = SumFunctionOnSet(f, Symbols) - f[e] + g[e]
  BY <1>7, FiniteSymbols, SumChangeOne
<1>9. SumFunctionOnSet(f, Symbols) \in Int
  BY <1>7, FiniteSymbols, SumType
<1>10. PICK x \in Int, y \in Int : x = SumFunctionOnSet(f, Symbols) /\ y = f[e]
  BY <1>7, <1>9
<1>11. g[e] = y + z
  BY <1>6, <1>10
<1>12. SumFunctionOnSet(g, Symbols) = x - y + (y + z)
  BY <1>8, <1>10, <1>11
<1>13. x - y + (y + z) = x + z
  OBVIOUS
<1>14. QED
  BY <1>1, <1>2, <1>4, <1>10, <1>12, <1>13, CashOfNext DEF CashOf

LEMMA NoTradesNoCash ==
    ASSUME NoTrades, NEW a
    PROVE  CashOf(a) = 0
<1>1. ASSUME NEW s  PROVE CashIn(s, a) = 0
  <2>1. PICK D : D = DirectionsOf(s)
    OBVIOUS
  <2>2. PICK f : f = [d \in D |-> Paid(gross[d].payment, d, a)]
    OBVIOUS
  <2>3. IsFiniteSet(D)
    BY <2>1, FiniteDirections, FS_Subset DEF DirectionsOf
  <2>4. \A d \in D : f[d] = 0
    BY <2>1, <2>2 DEF NoTrades, DirectionsOf, Paid, Engine!Zero
  <2>5. SumFunctionOnSet(f, D) = 0
    BY <2>3, <2>4, SumOfZeros
  <2>6. QED
    BY <2>1, <2>2, <2>5 DEF CashIn
<1>2. PICK f : f = [s \in Symbols |-> CashIn(s, a)]
  OBVIOUS
<1>3. \A s \in Symbols : f[s] = 0
  BY <1>1, <1>2
<1>4. SumFunctionOnSet(f, Symbols) = 0
  BY <1>3, FiniteSymbols, SumOfZeros
<1>5. QED
  BY <1>2, <1>4 DEF CashOf

NoCash == \A a \in Accounts : CashOf(a) = 0

LEMMA NoCashNow == NoTrades => NoCash
BY NoTradesNoCash DEF NoCash

LEMMA NoCashNext == NoTrades' => NoCash'
BY NoCashNow, PTL

(***************************************************************************)
(* One more obligation cleared, and nothing wrapped: the balances move by  *)
(* what it gives.                                                          *)
(***************************************************************************)
LEMMA OneMoreCleared ==
    ASSUME HouseInv, House!ClearNext, AllCleared', ~overflowed'
    PROVE  /\ AllCleared /\ ~overflowed
           /\ Len(results) < Len(batch) /\ Len(results') = Len(results) + 1
           /\ batch' = batch /\ opening' = opening
           /\ batch[Len(results) + 1] \in NetObligations
           /\ \A a \in Accounts :
                 accounts'[a] = accounts[a] + Credit(batch[Len(results) + 1], a)
<1>1. Len(results) < Len(batch) /\ batch' = batch /\ opening' = opening
  BY DEF HouseInv, House!ClearNext, House!Idle
<1>2. PICK n \in Nat : n = Len(results)
  BY DEF HouseInv
<1>3. PICK ob : ob = batch[n + 1]
  OBVIOUS
<1>4. ob \in NetObligations
  <2>1. n + 1 \in 1..Len(batch)
    BY <1>1, <1>2 DEF HouseInv
  <2>2. QED
    BY <1>3, <2>1 DEF HouseInv
<1>5. PICK d \in Accounts, r \in Accounts, p \in Int :
         d = ob.deliverer /\ r = ob.receiver /\ p = ob.net_payment
  BY <1>4 DEF NetObligations, ObligationType
<1>6. accounts \in [Accounts -> Int]
  BY DEF HouseInv
<1>7. results \in Seq(Reports)
  BY DEF HouseInv
<1>8. ASSUME NEW e, results' = Append(results, e)
      PROVE  Len(results') = n + 1 /\ AllCleared /\ e = House!Cleared
  <2>1. /\ Len(results') = n + 1 /\ DOMAIN results = 1..n /\ DOMAIN results' = 1..(n + 1)
        /\ results'[n + 1] = e /\ \A i \in 1..n : results'[i] = results[i]
    BY <1>2, <1>7, <1>8
  <2>2. \A i \in 1..(n + 1) : results'[i] = House!Cleared
    BY <2>1 DEF AllCleared, House!Cleared
  <2>3. n + 1 \in 1..(n + 1) /\ \A i \in 1..n : i \in 1..(n + 1)
    BY <1>2
  <2>4. QED
    BY <2>1, <2>2, <2>3 DEF AllCleared
<1>9. House!Transfer(ob)
  <2>1. House!clear_obligation(ob)
    BY <1>2, <1>3 DEF House!ClearNext
  <2>2. \A a, x, y : House!InsufficientBalance(a, x, y) # House!Cleared
    BY DEF House!InsufficientBalance, House!Cleared
  <2>3. \A a, x, y : ~House!Refuse(House!InsufficientBalance(a, x, y))
    BY <1>8, <2>2 DEF House!Refuse
  <2>4. d \in DOMAIN accounts /\ r \in DOMAIN accounts
    BY <1>5, <1>6
  <2>5. QED
    BY <1>5, <2>1, <2>3, <2>4 DEF House!clear_obligation
<1>10. Len(results') = n + 1 /\ AllCleared
  BY <1>8, <1>9 DEF House!Transfer
<1>11. PICK debited : debited = House!Debited(ob)
  OBVIOUS
<1>12. \A m \in Int : m \in House!Balance => House!Wrap(m) = m
  BY HouseAssumption, WrapIsWrapped, WrappedValue DEF House!Balance
<1>13. ~overflowed /\ accounts[d] - p \in House!Balance /\ debited[r] + p \in House!Balance
  BY <1>5, <1>9, <1>11 DEF House!Transfer
<1>14. \A a \in Accounts : debited[a] = IF a = d THEN accounts[a] - p ELSE accounts[a]
  <2>1. accounts[d] - p \in Int
    BY <1>5, <1>6
  <2>2. House!Wrap(accounts[d] - p) = accounts[d] - p
    BY <1>12, <1>13, <2>1
  <2>3. debited = [accounts EXCEPT ![d] = House!Wrap(accounts[d] - p)]
    BY <1>5, <1>11 DEF House!Debited
  <2>4. QED
    BY <1>6, <2>2, <2>3
<1>15. DOMAIN debited = Accounts
  BY <1>6, <1>11 DEF House!Debited
<1>16. \A a \in Accounts : accounts'[a] = IF a = r THEN debited[a] + p ELSE debited[a]
  <2>1. accounts' = [debited EXCEPT ![r] = House!Wrap(debited[r] + p)]
    BY <1>5, <1>9, <1>11 DEF House!Transfer
  <2>2. debited[r] + p \in Int
    BY <1>5, <1>6, <1>14
  <2>3. House!Wrap(debited[r] + p) = debited[r] + p
    BY <1>12, <1>13, <2>2
  <2>4. QED
    BY <1>15, <2>1, <2>3
<1>17. \A a \in Accounts : accounts'[a] = accounts[a] + Credit(ob, a)
  <2>1. SUFFICES ASSUME NEW a \in Accounts
                 PROVE  accounts'[a] = accounts[a] + Credit(ob, a)
    OBVIOUS
  <2>2. PICK b \in Int : b = accounts[a]
    BY <1>6
  <2>3. Credit(ob, a) = (IF r = a THEN p ELSE 0) - (IF d = a THEN p ELSE 0)
    BY <1>5 DEF Credit
  <2>4. accounts'[a] = IF a = r THEN (IF a = d THEN b - p ELSE b) + p
                       ELSE IF a = d THEN b - p ELSE b
    BY <1>14, <1>16, <2>2
  <2>5. QED
    BY <1>5, <2>2, <2>3, <2>4
<1>18. QED
  BY <1>1, <1>2, <1>3, <1>4, <1>10, <1>13, <1>17

(***************************************************************************)
(* The inductive invariant of the cash.  While trades come in nothing has  *)
(* moved since the cycle began; a batch moves what its cleared obligations *)
(* give; and over all cycles that were cleared in full, the balances have  *)
(* moved by what the trades of the finished ones were due.                 *)
(***************************************************************************)
LedgerTypes ==
    /\ initial \in [Accounts -> Int]
    /\ opening \in [Accounts -> Int]
    /\ due \in [Accounts -> Int]

BatchIsNetted == stage = "clearing" /\ clean => batch \in SetToSeqs(Engine!compute_net)

NothingMovesBefore == stage # "clearing" => accounts = opening

BatchMovesCredits ==
    stage = "clearing" /\ AllCleared /\ ~overflowed =>
        \A a \in Accounts : accounts[a] = opening[a] + Credited(batch, Len(results), a)

CyclesMoveDues ==
    clean => \A a \in Accounts : due[a] - CashOf(a) = initial[a] - opening[a]

CashInv ==
    /\ LedgerTypes /\ BatchIsNetted /\ NothingMovesBefore /\ BatchMovesCredits
    /\ CyclesMoveDues

LEMMA CreditedNothing == \A f, a : Credited(f, 0, a) = 0
<1>1. \A f : SumFunctionOnSet(f, 1..0) = 0
  <2>1. 1..0 = {}
    OBVIOUS
  <2>2. QED
    BY <2>1, SumOfNothing
<1>2. QED
  BY <1>1 DEF Credited

LEMMA CreditedOneMore ==
    ASSUME NEW f \in Seq(NetObligations), NEW n \in Nat, n < Len(f), NEW a
    PROVE  /\ Credited(f, n + 1, a) = Credited(f, n, a) + Credit(f[n + 1], a)
           /\ Credited(f, n, a) \in Int /\ Credit(f[n + 1], a) \in Int
<1>1. \A i \in 1..(n + 1) : f[i] \in NetObligations
  OBVIOUS
<1>2. PICK g : g = [i \in 1..(n + 1) |-> Credit(f[i], a)]
  OBVIOUS
<1>3. \A i \in 1..(n + 1) : g[i] = Credit(f[i], a) /\ g[i] \in Int
  BY <1>1, <1>2, CashTypes
<1>4. SumFunctionOnSet(g, 1..(n + 1)) = SumFunctionOnSet(g, 1..n) + g[n + 1]
  BY <1>3, SumOfInterval
<1>5. PICK h : h = [i \in 1..n |-> Credit(f[i], a)]
  OBVIOUS
<1>6. IsFiniteSet(1..n)
  <2>1. 1 \in Int /\ n \in Int
    OBVIOUS
  <2>2. QED
    BY <2>1, FS_Interval
<1>7. \A i \in 1..n : i \in 1..(n + 1) /\ h[i] = g[i] /\ h[i] \in Int
  BY <1>3, <1>5
<1>8. SumFunctionOnSet(h, 1..n) = SumFunctionOnSet(g, 1..n)
      /\ SumFunctionOnSet(h, 1..n) \in Int
  BY <1>6, <1>7, SumSame, SumType
<1>9. n + 1 \in 1..(n + 1)
  OBVIOUS
<1>10. Credited(f, n + 1, a) = SumFunctionOnSet(g, 1..(n + 1))
       /\ Credited(f, n, a) = SumFunctionOnSet(h, 1..n)
  BY <1>2, <1>5 DEF Credited
<1>11. QED
  BY <1>3, <1>4, <1>8, <1>9, <1>10

(***************************************************************************)
(* When a cycle is settled in full, opening balances, batch and trades add *)
(* up.                                                                     *)
(***************************************************************************)
LEMMA SettledMovesCash ==
    ASSUME HouseInv, CashFacts, CashInv, SettledInFull, NEW a \in Accounts
    PROVE  accounts[a] = initial[a] - (due[a] - Residual(a))
<1>1. stage = "clearing" /\ clean /\ NettedExactly /\ AllCleared /\ ~overflowed
      /\ Len(results) = Len(batch)
  BY DEF SettledInFull, House!Idle
<1>2. batch \in SetToSeqs(Engine!compute_net)
  BY <1>1 DEF CashInv, BatchIsNetted
<1>3. Credited(batch, Len(batch), a) = Residual(a) - CashOf(a)
  BY <1>1, <1>2, BatchPays
<1>4. accounts[a] = opening[a] + Credited(batch, Len(batch), a)
  BY <1>1 DEF CashInv, BatchMovesCredits
<1>5. due[a] - CashOf(a) = initial[a] - opening[a]
  BY <1>1 DEF CashInv, CyclesMoveDues
<1>6. PICK i \in Int, o \in Int, u \in Int, r \in Int, c \in Int :
         i = initial[a] /\ o = opening[a] /\ u = due[a] /\ r = Residual(a) /\ c = CashOf(a)
  BY ResidualType, CashOfType DEF CashFacts, CashInv, LedgerTypes
<1>7. u - c = i - o => o + (r - c) = i - (u - r)
  BY <1>6
<1>8. QED
  BY <1>3, <1>4, <1>5, <1>6, <1>7

LEMMA InitCash == Init => CashInv
<1>1. SUFFICES ASSUME Init  PROVE CashInv
  OBVIOUS
<1>2. /\ accounts \in [Accounts -> Int] /\ opening = accounts /\ initial = accounts
      /\ stage = "trading" /\ due = [a \in Accounts |-> 0] /\ NoTrades
  BY <1>1, HouseAssumption DEF Init, Engine!Init, NoTrades
<1>3. LedgerTypes
  BY <1>2 DEF LedgerTypes
<1>4. \A a \in Accounts : due[a] - CashOf(a) = initial[a] - opening[a]
  <2>1. SUFFICES ASSUME NEW a \in Accounts
                 PROVE  due[a] - CashOf(a) = initial[a] - opening[a]
    OBVIOUS
  <2>2. PICK b \in Int : b = accounts[a]
    BY <1>2
  <2>3. CashOf(a) = 0 /\ due[a] = 0
    BY <1>2, NoCashNow DEF NoCash
  <2>4. QED
    BY <1>2, <2>2, <2>3
<1>5. QED
  BY <1>2, <1>3, <1>4
  DEF CashInv, BatchIsNetted, NothingMovesBefore, BatchMovesCredits, CyclesMoveDues

LEMMA CashStays == gross' = gross => \A a : CashOf(a)' = CashOf(a)
<1>1. SUFFICES ASSUME gross' = gross, NEW a  PROVE CashOf(a)' = CashOf(a)
  OBVIOUS
<1>2. \A s : CashIn(s, a)' = CashIn(s, a)
  BY <1>1, CashInNext DEF CashIn
<1>3. QED
  BY <1>2, CashOfNext DEF CashOf

LEMMA NetStays == accumulators' = accumulators => Engine!compute_net' = Engine!compute_net
BY DEF Engine!compute_net, Engine!Unbalanced

LEMMA AddTradeCash ==
    ASSUME CashFacts, CashInv, NEW t \in Engine!Trade, AddTrade(t)
    PROVE  CashInv'
<1>1. /\ Engine!add_trade(t) /\ stage = "trading" /\ stage' = "trading"
      /\ accounts' = accounts /\ opening' = opening /\ initial' = initial /\ clean' = clean
      /\ due' = [a \in Accounts |-> due[a] + Gain(t, a)]
  BY DEF AddTrade, Engine!AddTrade, houseVars
<1>2. \A a \in Accounts : CashOf(a)' = CashOf(a) + Gain(t, a) /\ Gain(t, a) \in Int
  BY <1>1, TradeAddsCash DEF CashFacts
<1>3. LedgerTypes'
  BY <1>1, <1>2 DEF CashInv, LedgerTypes
<1>4. NothingMovesBefore'
  BY <1>1 DEF CashInv, NothingMovesBefore
<1>5. CyclesMoveDues'
  <2>1. SUFFICES ASSUME clean, NEW a \in Accounts
                 PROVE  due'[a] - CashOf(a)' = initial[a] - opening[a]
    BY <1>1 DEF CyclesMoveDues
  <2>2. PICK u \in Int, c \in Int, g \in Int :
           u = due[a] /\ c = CashOf(a) /\ g = Gain(t, a)
    BY <1>2, CashOfType DEF CashFacts, CashInv, LedgerTypes
  <2>3. u - c = initial[a] - opening[a]
    BY <2>1, <2>2 DEF CashInv, CyclesMoveDues
  <2>4. due'[a] = u + g /\ CashOf(a)' = c + g
    BY <1>1, <1>2, <2>2
  <2>5. (u + g) - (c + g) = u - c
    OBVIOUS
  <2>6. QED
    BY <2>3, <2>4, <2>5
<1>6. BatchIsNetted' /\ BatchMovesCredits'
  BY <1>1 DEF BatchIsNetted, BatchMovesCredits
<1>7. QED
  BY <1>3, <1>4, <1>5, <1>6 DEF CashInv

\* Handing a batch to the clearing house moves nothing yet.
LEMMA CloseCash ==
    ASSUME CashInv, stage # "clearing", stage' = "clearing",
           NEW obligations, House!clear_all(obligations),
           clean' => clean /\ obligations \in SetToSeqs(Engine!compute_net),
           initial' = initial, due' = due, gross' = gross, accumulators' = accumulators
    PROVE  CashInv'
<1>1. /\ batch' = obligations /\ results' = <<>> /\ accounts' = accounts
      /\ opening' = accounts /\ opening = accounts
  BY DEF House!clear_all, CashInv, NothingMovesBefore
<1>2. LedgerTypes' /\ NothingMovesBefore' /\ BatchIsNetted'
  BY <1>1, NetStays DEF CashInv, LedgerTypes, NothingMovesBefore, BatchIsNetted
<1>3. CyclesMoveDues'
  BY <1>1, CashStays DEF CashInv, CyclesMoveDues
<1>4. BatchMovesCredits'
  <2>1. SUFFICES ASSUME NEW a \in Accounts
                 PROVE  accounts'[a] = opening'[a] + Credited(batch', Len(results'), a)
    BY DEF BatchMovesCredits, Credited, Credit
  <2>2. Len(results') = 0
    BY <1>1
  <2>3. Credited(batch', Len(results'), a) = 0
    BY <2>2, CreditedNothing
  <2>4. PICK b \in Int : b = opening[a]
    BY DEF CashInv, LedgerTypes
  <2>5. QED
    BY <1>1, <2>3, <2>4
<1>5. QED
  BY <1>2, <1>3, <1>4 DEF CashInv

LEMMA ClearNextCash ==
    ASSUME HouseInv, CashInv, ClearNext
    PROVE  CashInv'
<1>1. /\ House!ClearNext /\ stage = "clearing" /\ stage' = "clearing" /\ gross' = gross
      /\ accumulators' = accumulators /\ initial' = initial /\ due' = due /\ clean' = clean
  BY DEF ClearNext, engineVars, historyVars
<1>2. batch' = batch /\ opening' = opening
  BY <1>1 DEF House!ClearNext
<1>3. LedgerTypes' /\ NothingMovesBefore' /\ BatchIsNetted'
  BY <1>1, <1>2, NetStays DEF CashInv, LedgerTypes, NothingMovesBefore, BatchIsNetted
<1>4. CyclesMoveDues'
  BY <1>1, <1>2, CashStays DEF CashInv, CyclesMoveDues
<1>5. BatchMovesCredits'
  <2>1. SUFFICES ASSUME AllCleared', ~overflowed', NEW a \in Accounts
                 PROVE  accounts'[a] = opening'[a] + Credited(batch', Len(results'), a)
    BY DEF BatchMovesCredits, Credited, Credit
  <2>2. PICK n \in Nat : n = Len(results)
    BY DEF HouseInv
  <2>3. /\ AllCleared /\ ~overflowed /\ n < Len(batch) /\ Len(results') = n + 1
        /\ accounts'[a] = accounts[a] + Credit(batch[n + 1], a)
    BY <1>1, <2>1, <2>2, OneMoreCleared
  <2>4. accounts[a] = opening[a] + Credited(batch, n, a)
    BY <1>1, <2>2, <2>3 DEF CashInv, BatchMovesCredits
  <2>5. /\ Credited(batch, n + 1, a) = Credited(batch, n, a) + Credit(batch[n + 1], a)
        /\ Credited(batch, n, a) \in Int /\ Credit(batch[n + 1], a) \in Int
    BY <2>3, CreditedOneMore DEF HouseInv
  <2>6. PICK o \in Int, x \in Int, y \in Int :
           o = opening[a] /\ x = Credited(batch, n, a) /\ y = Credit(batch[n + 1], a)
    BY <2>5 DEF CashInv, LedgerTypes
  <2>7. (o + x) + y = o + (x + y)
    OBVIOUS
  <2>8. QED
    BY <1>2, <2>3, <2>4, <2>5, <2>6, <2>7
<1>6. QED
  BY <1>3, <1>4, <1>5 DEF CashInv

LEMMA NextCycleCash ==
    ASSUME HouseInv, CashFacts, CashInv, NextCycle
    PROVE  CashInv'
<1>1. /\ stage = "clearing" /\ House!Idle /\ stage' = "trading" /\ accounts' = accounts
      /\ opening' = accounts /\ initial' = initial
      /\ due' = [a \in Accounts |-> due[a] - Residual(a)]
      /\ clean' = (clean /\ NettedExactly /\ AllCleared /\ ~overflowed)
      /\ gross' = [d \in Engine!Direction |-> Engine!Zero]
  BY DEF NextCycle, ResetEngine, Engine!clear
<1>2. NoCash'
  <2>1. NoTrades'
    BY <1>1 DEF NoTrades, Engine!Direction, Engine!Zero
  <2>2. QED
    BY <2>1, NoCashNext
<1>3. \A a \in Accounts : Residual(a) \in Int /\ due[a] \in Int /\ initial[a] \in Int
                          /\ accounts[a] \in Int
  BY ResidualType DEF CashFacts, CashInv, LedgerTypes, HouseInv
<1>4. LedgerTypes'
  BY <1>1, <1>3 DEF CashInv, LedgerTypes, HouseInv
<1>5. NothingMovesBefore' /\ BatchIsNetted' /\ BatchMovesCredits'
  BY <1>1 DEF NothingMovesBefore, BatchIsNetted, BatchMovesCredits
<1>6. CyclesMoveDues'
  <2>1. SUFFICES ASSUME clean', NEW a \in Accounts
                 PROVE  due'[a] - CashOf(a)' = initial[a] - accounts[a]
    BY <1>1 DEF CyclesMoveDues
  <2>2. SettledInFull
    BY <1>1, <2>1 DEF SettledInFull
  <2>3. accounts[a] = initial[a] - (due[a] - Residual(a))
    BY <2>2, SettledMovesCash
  <2>4. CashOf(a)' = 0
    BY <1>2 DEF NoCash
  <2>5. due'[a] = due[a] - Residual(a)
    BY <1>1
  <2>6. PICK i \in Int, u \in Int : i = initial[a] /\ u = due[a] - Residual(a)
    BY <1>3
  <2>7. u - 0 = i - (i - u)
    OBVIOUS
  <2>8. QED
    BY <2>3, <2>4, <2>5, <2>6, <2>7
<1>7. QED
  BY <1>4, <1>5, <1>6 DEF CashInv

LEMMA NextCash == HouseInv /\ CashFacts /\ CashInv /\ [Next]_vars => CashInv'
<1>1. SUFFICES ASSUME HouseInv, CashFacts, CashInv, [Next]_vars  PROVE CashInv'
  OBVIOUS
<1>2. ASSUME stage' = stage \/ (stage # "clearing" /\ stage' # "clearing"),
             UNCHANGED <<engineVars, houseVars, initial, due, clean>>
      PROVE  CashInv'
  <2>1. /\ gross' = gross /\ accumulators' = accumulators /\ accounts' = accounts
        /\ opening' = opening /\ batch' = batch /\ results' = results
        /\ overflowed' = overflowed
    BY <1>2 DEF engineVars, houseVars
  <2>2. LedgerTypes' /\ NothingMovesBefore' /\ BatchIsNetted'
    BY <1>1, <1>2, <2>1, NetStays DEF CashInv, LedgerTypes, NothingMovesBefore, BatchIsNetted
  <2>3. CyclesMoveDues'
    BY <1>1, <1>2, <2>1, CashStays DEF CashInv, CyclesMoveDues
  <2>4. BatchMovesCredits'
    BY <1>1, <1>2, <2>1 DEF CashInv, BatchMovesCredits, AllCleared, House!Cleared, Credited, Credit
  <2>5. QED
    BY <2>2, <2>3, <2>4 DEF CashInv
<1>3. CASE \E t \in Engine!Trade : AddTrade(t)
  BY <1>1, <1>3, AddTradeCash
<1>4. CASE NetBilaterally
  <2>1. PICK obligations \in SetToSeqs(Engine!compute_net) : House!clear_all(obligations)
    BY <1>4 DEF NetBilaterally
  <2>2. /\ stage # "clearing" /\ stage' = "clearing" /\ clean' = clean /\ initial' = initial
        /\ due' = due /\ gross' = gross /\ accumulators' = accumulators
    BY <1>4 DEF NetBilaterally, engineVars, historyVars
  <2>3. QED
    BY <1>1, <2>1, <2>2, CloseCash
<1>5. CASE compute_multilateral
  BY <1>2, <1>5 DEF compute_multilateral, historyVars
<1>6. CASE CancelCycles
  BY <1>2, <1>6 DEF CancelCycles, historyVars
<1>7. CASE SubmitResult
  <2>1. /\ House!clear_all(result) /\ stage # "clearing" /\ stage' = "clearing"
        /\ clean' = FALSE /\ initial' = initial /\ due' = due /\ gross' = gross
        /\ accumulators' = accumulators
    BY <1>7 DEF SubmitResult, engineVars
  <2>2. QED
    BY <1>1, <2>1, CloseCash
<1>8. CASE ClearNext
  BY <1>1, <1>8, ClearNextCash
<1>9. CASE NextCycle
  BY <1>1, <1>9, NextCycleCash
<1>10. CASE UNCHANGED vars
  BY <1>2, <1>10 DEF vars, historyVars
<1>11. QED
  BY <1>1, <1>3, <1>4, <1>5, <1>6, <1>7, <1>8, <1>9, <1>10 DEF Next

(***************************************************************************)
(* Every trade moves its cash once: over any number of cycles that were    *)
(* netted bilaterally and within the widths, and cleared in full, whatever *)
(* the order of their obligations, the balances have moved by the cash of  *)
(* all trades, but for what flat pairs kept.                               *)
(***************************************************************************)
THEOREM EachTradeIsPaidOnce == Spec => []EveryTradeMovesItsCashOnce
<1>1. HouseInv /\ CashFacts /\ CashInv => EveryTradeMovesItsCashOnce
  BY SettledMovesCash DEF EveryTradeMovesItsCashOnce
<1>2. QED
  BY <1>1, InitCash, NextCash, HouseAlways, CashAlways, PTL DEF Spec
=============================================================================
