---------------------- MODULE DefaultWaterfall_proofs ----------------------
(***************************************************************************)
(* Proofs about DefaultWaterfall, for every configuration, every loss and  *)
(* every width of an amount.                                               *)
(***************************************************************************)
EXTENDS DefaultWaterfall, ArithmeticLemmas

LEMMA WrapType ==
    ASSUME NEW n \in Int
    PROVE  /\ Wrap(n) \in Amount
           /\ n \in Amount => Wrap(n) = n
BY WaterfallAssumption, WrappedValue DEF Wrap, Wrapped, Amount

LEMMA WrapMod ==
    ASSUME NEW m \in Int, NEW n \in Int
    PROVE  (Wrap(m) + n) % (2 * Half) = (m + n) % (2 * Half)
BY WaterfallAssumption, WrappedMod DEF Wrap, Wrapped

(***************************************************************************)
(* What the loop knows between two layers: the loss left is what the last  *)
(* layer left, and while there is any, every layer so far is exhausted.    *)
(***************************************************************************)
LoopInv ==
    Funded /\ loss > 0 =>
        /\ remaining \in 0..loss
        /\ remaining = IF layers = <<>> THEN loss ELSE layers[Len(layers)].remaining_after
        /\ remaining > 0 =>
              \A j \in 1..Len(layers) : layers[j].absorbed = layers[j].capacity

IInv == TypeOK /\ ExhaustedInOrder /\ LoopInv

LEMMA InitInv == Init => IInv
<1> SUFFICES ASSUME Init PROVE IInv
  OBVIOUS
<1>1. Len(layers) = 0 /\ layers \in Seq(Absorption)
  BY DEF Init
<1>2. loss \in Int /\ loss \in Amount
  BY WaterfallAssumption DEF Init, Amount
<1>3. TypeOK
  BY <1>1, <1>2 DEF Init, TypeOK
<1>4. ExhaustedInOrder
  BY <1>1 DEF ExhaustedInOrder
<1>5. LoopInv
  BY <1>1, <1>2 DEF Init, LoopInv
<1> QED
  BY <1>3, <1>4, <1>5 DEF IInv

LEMMA AbsorbInv ==
    ASSUME IInv, absorb_layer
    PROVE  IInv'
<1> DEFINE n == Len(layers) + 1
           capacity == config[n]
           absorbed == Absorb(capacity)
           entry == [capacity |-> capacity, absorbed |-> absorbed,
                     remaining_after |-> remaining']
<1>1. /\ n \in Layer
      /\ capacity \in Amount
      /\ remaining \in Amount
      /\ layers \in Seq(Absorption)
      /\ Len(layers) \in Nat
  BY WaterfallAssumption DEF IInv, TypeOK, absorb_layer, Layer
<1>2. capacity \in Int /\ remaining \in Int /\ absorbed \in Int /\ absorbed \in Amount
  BY <1>1, WaterfallAssumption DEF Absorb, Amount
<1>3. /\ remaining' = Wrap(remaining - absorbed)
      /\ layers' = Append(layers, entry)
      /\ config' = config
      /\ loss' = loss
      /\ loss > 0
      /\ Len(layers) < 5
  BY DEF absorb_layer
<1>4. remaining' \in Amount
  BY <1>2, <1>3, WrapType
<1>5. entry \in Absorption
  BY <1>1, <1>2, <1>4 DEF Absorption
<1>6. /\ layers' \in Seq(Absorption)
      /\ Len(layers') = n
      /\ layers'[n] = entry
      /\ \A i \in 1..Len(layers) : layers'[i] = layers[i]
  BY <1>1, <1>3, <1>5
<1>7. TypeOK'
  BY <1>1, <1>3, <1>4, <1>6 DEF IInv, TypeOK
<1>8. ASSUME Funded
      PROVE  ExhaustedInOrder' /\ LoopInv'
  <2>1. capacity >= 0
    BY <1>1, <1>8 DEF Funded
  <2>2. /\ remaining \in 0..loss
        /\ remaining = IF layers = <<>> THEN loss ELSE layers[Len(layers)].remaining_after
        /\ remaining > 0 =>
              \A j \in 1..Len(layers) : layers[j].absorbed = layers[j].capacity
    BY <1>3, <1>8 DEF IInv, LoopInv
  <2>3. loss \in Int
    BY WaterfallAssumption DEF IInv, TypeOK, Amount
  <2>4. absorbed \in 0..capacity /\ remaining - absorbed \in 0..remaining
    BY <1>2, <2>1, <2>2, <2>3 DEF Absorb
  <2>5. remaining - absorbed \in Amount
    BY <1>1, <1>2, <2>4, WaterfallAssumption DEF Amount
  <2>6. remaining' = remaining - absorbed
    BY <1>2, <1>3, <2>5, WrapType
  <2>7. /\ absorbed > 0 => remaining > 0
        /\ remaining' > 0 => remaining > 0 /\ absorbed = capacity
    BY <1>2, <2>3, <2>4, <2>6 DEF Absorb
  <2>8. ASSUME NEW i \in Nat, i = n
        PROVE  Given(i)' = remaining
    <3>1. Given(i)' = IF i = 1 THEN loss' ELSE layers'[i-1].remaining_after
      BY DEF Given
    <3>2. CASE layers = <<>>
      BY <1>3, <2>2, <2>8, <3>1, <3>2
    <3>3. CASE layers # <<>>
      <4>1. i # 1 /\ i - 1 = Len(layers) /\ i - 1 \in 1..Len(layers)
        BY <1>1, <2>8, <3>3
      <4> QED
        BY <1>6, <2>2, <3>1, <3>3, <4>1
    <3> QED
      BY <3>2, <3>3
  <2>9. \A i \in 1..Len(layers) : Given(i)' = Given(i)
    BY <1>1, <1>3, <1>6 DEF Given
  <2>10. \A i \in 1..Len(layers) :
           /\ layers[i].absorbed \in 0..layers[i].capacity
           /\ layers[i].remaining_after = Given(i) - layers[i].absorbed
           /\ \A j \in 1..i-1 :
                 layers[i].absorbed > 0 => layers[j].absorbed = layers[j].capacity
    BY <1>3, <1>8 DEF IInv, ExhaustedInOrder
  <2>11. /\ layers'[n].absorbed = absorbed
         /\ layers'[n].capacity = capacity
         /\ layers'[n].remaining_after = remaining'
    BY <1>6
  <2>12. \A i \in 1..Len(layers') :
           /\ layers'[i].absorbed \in 0..layers'[i].capacity
           /\ layers'[i].remaining_after = Given(i)' - layers'[i].absorbed
           /\ \A j \in 1..i-1 :
                 layers'[i].absorbed > 0 => layers'[j].absorbed = layers'[j].capacity
    <3> SUFFICES ASSUME NEW i \in 1..Len(layers')
                 PROVE  /\ layers'[i].absorbed \in 0..layers'[i].capacity
                        /\ layers'[i].remaining_after = Given(i)' - layers'[i].absorbed
                        /\ \A j \in 1..i-1 :
                              layers'[i].absorbed > 0 =>
                                  layers'[j].absorbed = layers'[j].capacity
      OBVIOUS
    <3>1. CASE i = n
      <4>1. Given(i)' = remaining
        BY <1>1, <2>8, <3>1
      <4>2. absorbed > 0 => \A j \in 1..i-1 : layers'[j].absorbed = layers'[j].capacity
        BY <1>1, <1>6, <2>2, <2>7, <3>1
      <4> QED
        BY <2>4, <2>6, <2>11, <3>1, <4>1, <4>2
    <3>2. CASE i \in 1..Len(layers)
      BY <1>1, <1>6, <2>9, <2>10, <3>2
    <3> QED
      BY <1>1, <1>6, <3>1, <3>2
  <2>13. ExhaustedInOrder'
    BY <2>12 DEF ExhaustedInOrder
  <2>14. layers' # <<>>
    BY <1>1, <1>6
  <2>15. LoopInv'
    BY <1>1, <1>3, <1>6, <2>2, <2>3, <2>4, <2>6, <2>7, <2>11, <2>14 DEF LoopInv
  <2> QED
    BY <2>13, <2>15
<1>9. ASSUME ~Funded
      PROVE  ExhaustedInOrder' /\ LoopInv'
  BY <1>3, <1>9 DEF Funded, ExhaustedInOrder, LoopInv
<1> QED
  BY <1>7, <1>8, <1>9 DEF IInv

LEMMA ZeroInv ==
    ASSUME IInv, zero_result
    PROVE  IInv'
<1>1. /\ remaining' = 0
      /\ layers' = [i \in 1..5 |-> [capacity |-> config[i], absorbed |-> 0, remaining_after |-> 0]]
      /\ config' = config
      /\ loss' = loss
      /\ ~(loss > 0)
  BY WaterfallAssumption DEF zero_result, Layer, IInv, TypeOK, Amount
<1>2. 0 \in Amount
  BY WaterfallAssumption DEF Amount
<1>3. \A i \in 1..5 : config[i] \in Amount
  BY WaterfallAssumption DEF IInv, TypeOK, Layer
<1>4. layers' \in [1..5 -> Absorption]
  BY <1>1, <1>2, <1>3 DEF Absorption
<1>5. layers' \in Seq(Absorption) /\ Len(layers') = 5
  BY <1>1, <1>4
<1> QED
  BY <1>1, <1>2, <1>5 DEF IInv, TypeOK, ExhaustedInOrder, LoopInv

LEMMA NextInv == IInv /\ [Next]_vars => IInv'
<1>1. ASSUME IInv, UNCHANGED vars PROVE IInv'
  BY <1>1 DEF vars, IInv, TypeOK, ExhaustedInOrder, LoopInv, Funded, Given
<1> QED
  BY <1>1, AbsorbInv, ZeroInv DEF Next

(***************************************************************************)
(* The types of a report in progress; in particular the loss left always   *)
(* fits an amount.                                                         *)
(***************************************************************************)
THEOREM TypeCorrect == Spec => []TypeOK
<1>1. IInv => TypeOK
  BY DEF IInv
<1> QED
  BY <1>1, InitInv, NextInv, PTL DEF Spec

(***************************************************************************)
(* Capital is used in the order of the waterfall: no layer is tapped       *)
(* before those above it are exhausted, and none beyond what it has.       *)
(***************************************************************************)
THEOREM WaterfallOrder == Spec => []ExhaustedInOrder
<1>1. IInv => ExhaustedInOrder
  BY DEF IInv
<1> QED
  BY <1>1, InitInv, NextInv, PTL DEF Spec

-----------------------------------------------------------------------------
(***************************************************************************)
(* What the loop has absorbed: with what is left it makes up the loss, in  *)
(* the width of an amount, and exactly when no capacity is negative.  Each *)
(* entry is the layer's own.                                               *)
(***************************************************************************)
AbsorbedInv ==
    loss > 0 =>
        /\ (AbsorbedByLayers + (remaining - loss)) % (2 * Half) = 0
        /\ Funded => AbsorbedByLayers + remaining = loss
        /\ \A i \in 1..Len(layers) : layers[i].capacity = config[i]

LEMMA AbsorbedType ==
    ASSUME TypeOK
    PROVE  /\ AbsorbedByLayers \in Int
           /\ DOMAIN layers = 1..Len(layers) /\ IsFiniteSet(1..Len(layers))
           /\ \A i \in 1..Len(layers) : layers[i].absorbed \in Int
           /\ AbsorbedByLayers = SumFunctionOnSet([i \in 1..Len(layers) |-> layers[i].absorbed],
                                                  1..Len(layers))
<1>1. DOMAIN layers = 1..Len(layers) /\ Len(layers) \in Nat
  BY DEF TypeOK
<1>2. IsFiniteSet(1..Len(layers))
  <2>1. 1 \in Int /\ Len(layers) \in Int
    BY <1>1
  <2>2. QED
    BY <2>1, FS_Interval
<1>3. \A i \in 1..Len(layers) : layers[i].absorbed \in Int
  <2>1. SUFFICES ASSUME NEW i \in 1..Len(layers)  PROVE layers[i].absorbed \in Int
    OBVIOUS
  <2>2. layers[i] \in Absorption
    BY DEF TypeOK
  <2>3. QED
    BY <2>2, WaterfallAssumption DEF Absorption, Amount
<1> DEFINE S == 1..Len(layers)
           f == [i \in S |-> layers[i].absorbed]
<1>4. AbsorbedByLayers = SumFunctionOnSet(f, S)
  BY <1>1 DEF AbsorbedByLayers, SumFunction
<1>5. \A i \in S : f[i] \in Int
  BY <1>3
<1>6. SumFunctionOnSet(f, S) \in Int
  <2> HIDE DEF f, S
  <2>1. QED
    BY <1>2, <1>5, SumType DEF S
<1>7. QED
  BY <1>1, <1>2, <1>3, <1>4, <1>6

LEMMA InitAbsorbed == Init => AbsorbedInv
<1> SUFFICES ASSUME Init  PROVE AbsorbedInv
  OBVIOUS
<1>1. TypeOK /\ Len(layers) = 0 /\ remaining = loss
  BY InitInv DEF IInv, Init
<1>2. loss \in Int
  BY <1>1, WaterfallAssumption DEF TypeOK, Amount
<1>3. AbsorbedByLayers = 0
  <2>1. 1..Len(layers) = {}
    BY <1>1
  <2>2. QED
    BY <1>1, <2>1, AbsorbedType, SumOfNothing
<1>4. (0 + (loss - loss)) % (2 * Half) = 0 /\ 0 + loss = loss
  <2>1. 0 + (loss - loss) = 0
    BY <1>2
  <2>2. 2 * Half \in Nat \ {0}
    BY WaterfallAssumption
  <2>3. QED
    BY <1>2, <2>1, <2>2
<1>5. QED
  BY <1>1, <1>3, <1>4 DEF AbsorbedInv

LEMMA AbsorbedStep ==
    ASSUME IInv, IInv', AbsorbedInv, absorb_layer
    PROVE  AbsorbedInv'
<1>1. PICK n : n = Len(layers) + 1
  OBVIOUS
<1>2. PICK a : a = Absorb(config[n])
  OBVIOUS
<1>3. /\ remaining' = Wrap(remaining - a)
      /\ layers' = Append(layers, [capacity |-> config[n], absorbed |-> a,
                                   remaining_after |-> remaining'])
      /\ config' = config /\ loss' = loss /\ loss > 0 /\ Len(layers) < 5
  BY <1>1, <1>2 DEF absorb_layer
<1>4. /\ Len(layers) \in Nat /\ n \in Nat /\ Len(layers') = n
      /\ layers'[n].absorbed = a /\ layers'[n].capacity = config[n]
      /\ \A i \in 1..Len(layers) : layers'[i] = layers[i]
      /\ 1..n = 1..Len(layers) \cup {n} /\ n \notin 1..Len(layers)
  BY <1>1, <1>3 DEF IInv, TypeOK
<1>5. /\ a \in Int /\ remaining \in Int /\ loss \in Int /\ remaining - a \in Int
      /\ AbsorbedByLayers \in Int /\ remaining' \in Int
  <2>1. n \in Layer /\ config[n] \in Int /\ remaining \in Int /\ loss \in Int
    <3>1. n \in Layer
      BY <1>1, <1>3, <1>4 DEF Layer
    <3>2. /\ config[n] \in Amount /\ remaining \in Amount /\ loss \in Amount
      BY <3>1, WaterfallAssumption DEF IInv, TypeOK
    <3>3. Amount \subseteq Int
      BY WaterfallAssumption DEF Amount
    <3>4. QED
      BY <3>1, <3>2, <3>3
  <2>2. a \in Int
    BY <1>2, <2>1 DEF Absorb
  <2>3. remaining' \in Int
    BY WaterfallAssumption DEF IInv, TypeOK, Amount
  <2>4. QED
    BY <2>1, <2>2, <2>3, AbsorbedType DEF IInv
<1>6. AbsorbedByLayers' = AbsorbedByLayers + a
  <2>1. PICK S : S = 1..Len(layers)
    OBVIOUS
  <2>2. PICK f : f = [i \in S |-> layers[i].absorbed]
    OBVIOUS
  <2>3. PICK g : g = [i \in S \cup {n} |-> layers'[i].absorbed]
    OBVIOUS
  <2>4. AbsorbedByLayers = SumFunctionOnSet(f, S) /\ IsFiniteSet(S)
    BY <2>1, <2>2, AbsorbedType DEF IInv
  <2>5. AbsorbedByLayers' = SumFunctionOnSet(g, S \cup {n})
    <3>1. DOMAIN layers' = S \cup {n}
      BY <1>4, <2>1 DEF IInv, TypeOK
    <3>2. QED
      BY <2>3, <3>1 DEF AbsorbedByLayers, SumFunction
  <2>6. /\ \A i \in S : f[i] = g[i] /\ g[i] \in Int
        /\ g[n] = a /\ n \notin S
    BY <1>4, <2>1, <2>2, <2>3, AbsorbedType DEF IInv
  <2>7. SumFunctionOnSet(g, S \cup {n}) = SumFunctionOnSet(g, S) + g[n]
    BY <1>5, <2>4, <2>6, SumAddElement
  <2>8. SumFunctionOnSet(f, S) = SumFunctionOnSet(g, S)
    BY <2>4, <2>6, SumSame
  <2>9. QED
    BY <2>4, <2>5, <2>6, <2>7, <2>8
<1>7. (AbsorbedByLayers' + (remaining' - loss')) % (2 * Half) = 0
  <2> DEFINE A == AbsorbedByLayers
  <2>1. A \in Int
    BY <1>5
  <2>2. (A + (remaining - loss)) % (2 * Half) = 0
    BY <1>3 DEF AbsorbedInv
  <2>3. (remaining' + ((A + a) - loss)) % (2 * Half)
          = ((remaining - a) + ((A + a) - loss)) % (2 * Half)
    <3>1. (A + a) - loss \in Int
      BY <1>5
    <3>2. QED
      BY <1>3, <1>5, <3>1, WrapMod
  <2> HIDE DEF A
  <2>4. (remaining - a) + ((A + a) - loss) = A + (remaining - loss)
    BY <1>5, <2>1
  <2>5. (A + a) + (remaining' - loss) = remaining' + ((A + a) - loss)
    BY <1>5, <2>1
  <2>6. QED
    BY <1>3, <1>6, <2>2, <2>3, <2>4, <2>5 DEF A
<1>8. ASSUME Funded'
      PROVE  AbsorbedByLayers' + remaining' = loss'
  <2>1. Funded /\ AbsorbedByLayers + remaining = loss
    BY <1>3, <1>8 DEF Funded, AbsorbedInv
  <2>2. remaining \in 0..loss /\ config[n] >= 0 /\ config[n] \in Int
    <3>1. remaining \in 0..loss
      BY <1>3, <2>1 DEF IInv, LoopInv
    <3>2. n \in Layer
      BY <1>1, <1>3, <1>4 DEF Layer
    <3>3. config[n] >= 0 /\ config[n] \in Amount
      BY <2>1, <3>2, WaterfallAssumption DEF Funded, IInv, TypeOK
    <3>4. Amount \subseteq Int
      BY WaterfallAssumption DEF Amount
    <3>5. QED
      BY <3>1, <3>3, <3>4
  <2>3. remaining - a \in 0..loss
    BY <1>2, <1>5, <2>2 DEF Absorb
  <2>4. remaining - a \in Amount
    BY <1>5, <2>3, WaterfallAssumption DEF IInv, TypeOK, Amount
  <2>5. remaining' = remaining - a
    BY <1>3, <1>5, <2>4, WrapType
  <2>6. QED
    BY <1>3, <1>5, <1>6, <2>1, <2>5
<1>9. \A i \in 1..Len(layers') : layers'[i].capacity = config'[i]
  BY <1>3, <1>4 DEF AbsorbedInv
<1>10. QED
  BY <1>7, <1>8, <1>9 DEF AbsorbedInv

LEMMA NextAbsorbed == IInv /\ IInv' /\ AbsorbedInv /\ [Next]_vars => AbsorbedInv'
<1>1. ASSUME IInv, zero_result PROVE AbsorbedInv'
  <2>1. loss \in Int
    BY <1>1, WaterfallAssumption DEF IInv, TypeOK, Amount
  <2>2. ~(loss > 0) /\ loss' = loss
    BY <1>1, <2>1 DEF zero_result
  <2>3. QED
    BY <2>2 DEF AbsorbedInv
<1>2. ASSUME AbsorbedInv, UNCHANGED vars PROVE AbsorbedInv'
  BY <1>2 DEF vars, AbsorbedInv, AbsorbedByLayers, Funded
<1>3. QED
  BY <1>1, <1>2, AbsorbedStep DEF Next

LEMMA AbsorbedAlways == Spec => [](IInv /\ AbsorbedInv)
<1>1. IInv /\ AbsorbedInv /\ [Next]_vars => (IInv /\ AbsorbedInv)'
  BY NextInv, NextAbsorbed
<1>2. Init => IInv /\ AbsorbedInv
  BY InitInv, InitAbsorbed
<1>3. QED
  BY <1>1, <1>2, PTL DEF Spec

(***************************************************************************)
(* The report of a loss is complete: the layers and the shortfall make up  *)
(* the loss, and total_absorbed is what the layers absorbed.               *)
(***************************************************************************)
THEOREM LossIsAccountedFor == Spec => []LossAccountedFor
<1>1. IInv /\ AbsorbedInv => LossAccountedFor
  <2>1. SUFFICES ASSUME IInv, AbsorbedInv, Reported, loss > 0
                 PROVE  /\ (AbsorbedByLayers + remaining - loss) % (2 * Half) = 0
                        /\ Funded => /\ AbsorbedByLayers + remaining = loss
                                     /\ total_absorbed = AbsorbedByLayers
    BY DEF LossAccountedFor
  <2>2. /\ AbsorbedByLayers \in Int /\ remaining \in Int /\ loss \in Int
        /\ loss \in Amount /\ Half \in Nat \ {0}
    BY <2>1, AbsorbedType, WaterfallAssumption DEF IInv, TypeOK, Amount
  <2> DEFINE A == AbsorbedByLayers
  <2> HIDE DEF A
  <2>3. A + remaining - loss = A + (remaining - loss)
    BY <2>2 DEF A
  <2>4. (A + remaining - loss) % (2 * Half) = 0
    BY <2>1, <2>3 DEF AbsorbedInv, A
  <2>5. ASSUME Funded
        PROVE  A + remaining = loss /\ total_absorbed = A
    <3>1. A + remaining = loss
      BY <2>1, <2>5 DEF AbsorbedInv, A
    <3>2. remaining \in 0..loss
      BY <2>1, <2>5 DEF IInv, LoopInv
    <3>3. loss - remaining = A /\ loss - remaining \in Int /\ loss - remaining \in 0..loss
      BY <2>2, <3>1, <3>2 DEF A
    <3>4. loss - remaining \in Amount
      BY <2>2, <3>2 DEF Amount
    <3>5. Wrap(loss - remaining) = loss - remaining
      BY <3>3, <3>4, WrapType
    <3>6. ~(loss <= 0)
      BY <2>1, <2>2
    <3>7. QED
      BY <3>1, <3>3, <3>5, <3>6 DEF total_absorbed
  <2>6. QED
    BY <2>4, <2>5 DEF A
<1>2. QED
  BY <1>1, AbsorbedAlways, PTL

-----------------------------------------------------------------------------
(***************************************************************************)
(* total_capacity is the sum of the five capacities, cut off at the        *)
(* greatest amount.                                                        *)
(***************************************************************************)
AllCapital == SumFunctionOnSet(config, Layer)

LEMMA SaturatingAdd ==
    ASSUME NEW m \in Int, NEW n \in Int, NEW s \in Int, s >= 0, n >= 0,
           m = IF s <= Half - 1 THEN s ELSE Half - 1
    PROVE  saturating_add(m, n) = IF s + n <= Half - 1 THEN s + n ELSE Half - 1
<1> DEFINE low == Min({Half - 1, m + n})
<1>1. Half \in Int /\ Half >= 1 /\ Half - 1 \in Int /\ m + n \in Int /\ -Half \in Int
  BY WaterfallAssumption
<1>2. low = IF Half - 1 <= m + n THEN Half - 1 ELSE m + n
  BY <1>1, MinAndMax
<1>3. low \in Int /\ low >= 0
  BY <1>1, <1>2
<1>4. saturating_add(m, n) = Max({-Half, low})
  BY DEF saturating_add
<1>5. saturating_add(m, n) = low
  <2>1. PICK a : a = -Half
    OBVIOUS
  <2>2. PICK b : b = low
    OBVIOUS
  <2>3. a \in Int /\ b \in Int /\ a <= b /\ a # b
    BY <1>1, <1>3, <2>1, <2>2
  <2>4. Max({a, b}) = b
    BY <2>3, MinAndMax
  <2>5. QED
    BY <1>4, <2>1, <2>2, <2>4
<1> HIDE DEF low
<1>6. QED
  BY <1>1, <1>2, <1>5

LEMMA SumOfFive ==
    ASSUME NEW f, \A i \in 1..5 : f[i] \in Int
    PROVE  SumFunctionOnSet(f, 1..5) = f[1] + f[2] + f[3] + f[4] + f[5]
<1> DEFINE sum(n) == SumFunctionOnSet(f, 1..n)
<1>1. sum(0) = 0
  <2>1. 1..0 = {}
    OBVIOUS
  <2>2. QED
    BY <2>1, SumOfNothing
<1>2. ASSUME NEW n \in 0..4
      PROVE  sum(n + 1) = sum(n) + f[n + 1]
  BY SumOfInterval
<1> HIDE DEF sum
<1>3. /\ sum(0 + 1) = sum(0) + f[0 + 1] /\ sum(1 + 1) = sum(1) + f[1 + 1]
      /\ sum(2 + 1) = sum(2) + f[2 + 1] /\ sum(3 + 1) = sum(3) + f[3 + 1]
      /\ sum(4 + 1) = sum(4) + f[4 + 1]
  <2>1. 0 \in 0..4 /\ 1 \in 0..4 /\ 2 \in 0..4 /\ 3 \in 0..4 /\ 4 \in 0..4
    OBVIOUS
  <2>2. QED
    BY <1>2, <2>1
<1>4. f[1] \in Int /\ f[2] \in Int /\ f[3] \in Int /\ f[4] \in Int /\ f[5] \in Int
  OBVIOUS
<1>5. sum(5) = f[1] + f[2] + f[3] + f[4] + f[5]
  BY <1>1, <1>3, <1>4
<1>6. QED
  BY <1>5 DEF sum

LEMMA TotalCapacity ==
    ASSUME TypeOK, Funded
    PROVE  /\ AllCapital \in Int
           /\ total_capacity = IF AllCapital <= Half - 1 THEN AllCapital ELSE Half - 1
<1>1. \A i \in 1..5 : config[i] \in Int /\ config[i] >= 0 /\ config[i] <= Half - 1
  <2>1. SUFFICES ASSUME NEW i \in 1..5
                 PROVE  config[i] \in Int /\ config[i] >= 0 /\ config[i] <= Half - 1
    OBVIOUS
  <2>2. config[i] \in Amount /\ config[i] >= 0
    BY WaterfallAssumption DEF TypeOK, Funded, Layer
  <2>3. QED
    BY <2>2, WaterfallAssumption DEF Amount
<1>2. AllCapital = config[1] + config[2] + config[3] + config[4] + config[5]
  BY <1>1, SumOfFive DEF AllCapital, Layer
<1> DEFINE s1 == config[1]
           s2 == s1 + config[2]
           s3 == s2 + config[3]
           s4 == s3 + config[4]
           s5 == s4 + config[5]
           c2 == saturating_add(config[1], config[2])
           c3 == saturating_add(c2, config[3])
           c4 == saturating_add(c3, config[4])
           c5 == saturating_add(c4, config[5])
<1>3. total_capacity = c5
  BY DEF total_capacity
<1>4. AllCapital = s5
  BY <1>2
<1>5. /\ s1 \in Int /\ s2 \in Int /\ s3 \in Int /\ s4 \in Int /\ s5 \in Int
      /\ s1 >= 0 /\ s2 >= 0 /\ s3 >= 0 /\ s4 >= 0
  BY <1>1
<1>6. /\ config[2] \in Int /\ config[3] \in Int /\ config[4] \in Int /\ config[5] \in Int
      /\ config[2] >= 0 /\ config[3] >= 0 /\ config[4] >= 0 /\ config[5] >= 0
      /\ Half - 1 \in Int
  BY <1>1, WaterfallAssumption
<1>7. s1 = IF s1 <= Half - 1 THEN s1 ELSE Half - 1
  BY <1>1
<1>8. s1 + config[2] = s2 /\ s2 + config[3] = s3 /\ s3 + config[4] = s4 /\ s4 + config[5] = s5
  OBVIOUS
<1>9. c2 = saturating_add(s1, config[2])
  OBVIOUS
<1>10. /\ c3 = saturating_add(c2, config[3]) /\ c4 = saturating_add(c3, config[4])
       /\ c5 = saturating_add(c4, config[5])
  OBVIOUS
<1> HIDE DEF s1, s2, s3, s4, s5, c2, c3, c4, c5
<1>11. c2 = IF s2 <= Half - 1 THEN s2 ELSE Half - 1
  BY <1>5, <1>6, <1>7, <1>8, <1>9, SaturatingAdd
<1>12. c3 = IF s3 <= Half - 1 THEN s3 ELSE Half - 1
  <2>1. c2 \in Int
    BY <1>5, <1>6, <1>11
  <2>2. QED
    BY <1>5, <1>6, <1>8, <1>10, <1>11, <2>1, SaturatingAdd
<1>13. c4 = IF s4 <= Half - 1 THEN s4 ELSE Half - 1
  <2>1. c3 \in Int
    BY <1>5, <1>6, <1>12
  <2>2. QED
    BY <1>5, <1>6, <1>8, <1>10, <1>12, <2>1, SaturatingAdd
<1>14. c5 = IF s5 <= Half - 1 THEN s5 ELSE Half - 1
  <2>1. c4 \in Int
    BY <1>5, <1>6, <1>13
  <2>2. QED
    BY <1>5, <1>6, <1>8, <1>10, <1>13, <2>1, SaturatingAdd
<1>15. QED
  BY <1>3, <1>4, <1>5, <1>14

(***************************************************************************)
(* Whether a loss is covered is told beforehand by the total of the        *)
(* capital, whatever its spread and even where total_capacity saturates.   *)
(***************************************************************************)
THEOREM CoverageByCapital == Spec => []CapitalDecidesCoverage
<1>1. IInv /\ AbsorbedInv => CapitalDecidesCoverage
  <2>1. SUFFICES ASSUME IInv, AbsorbedInv, Reported, Funded
                 PROVE  fully_covered <=> loss <= total_capacity
    BY DEF CapitalDecidesCoverage
  <2>2. /\ loss \in Int /\ remaining \in Int /\ loss <= Half - 1 /\ Half \in Nat \ {0}
    BY <2>1, WaterfallAssumption DEF IInv, TypeOK, Amount
  <2>3. /\ AllCapital \in Int
        /\ total_capacity = IF AllCapital <= Half - 1 THEN AllCapital ELSE Half - 1
    BY <2>1, TotalCapacity DEF IInv
  <2>4. \A i \in 1..5 : config[i] \in Int /\ config[i] >= 0
    <3>1. SUFFICES ASSUME NEW i \in 1..5  PROVE config[i] \in Int /\ config[i] >= 0
      OBVIOUS
    <3>2. config[i] \in Amount /\ config[i] >= 0
      BY <2>1, WaterfallAssumption DEF IInv, TypeOK, Funded, Layer
    <3>3. QED
      BY <3>2, WaterfallAssumption DEF Amount
  <2>5. IsFiniteSet(1..5)
    <3>1. 1 \in Int /\ 5 \in Int
      OBVIOUS
    <3>2. QED
      BY <3>1, FS_Interval
  <2>6. AllCapital >= 0
    <3>1. PICK f : f = config
      OBVIOUS
    <3>2. SumFunctionOnSet(f, 1..5) \in Nat
      BY <2>4, <2>5, <3>1, SumIsNat
    <3>3. QED
      BY <3>1, <3>2 DEF AllCapital, Layer
  <2>7. CASE loss <= 0
    BY <2>2, <2>3, <2>6, <2>7 DEF fully_covered
  <2>8. CASE loss > 0
    <3>1. /\ AbsorbedByLayers + remaining = loss /\ remaining \in 0..loss
          /\ \A i \in 1..5 : layers[i].capacity = config[i]
      BY <2>1, <2>8 DEF IInv, AbsorbedInv, LoopInv, Reported
    <3>2. PICK f : f = [i \in 1..5 |-> layers[i].absorbed]
      OBVIOUS
    <3>3. PICK g : g = config
      OBVIOUS
    <3>4. /\ AbsorbedByLayers = SumFunctionOnSet(f, 1..5) /\ AbsorbedByLayers \in Int
          /\ \A i \in 1..5 : layers[i].absorbed \in Int
      BY <2>1, <3>2, AbsorbedType DEF IInv, Reported
    <3>5. AllCapital = SumFunctionOnSet(g, 1..5)
      BY <3>3 DEF AllCapital, Layer
    <3>6. AbsorbedByLayers <= AllCapital
      <4>1. \A i \in 1..5 : layers[i].absorbed \in 0..layers[i].capacity
        BY <2>1, <2>8 DEF IInv, ExhaustedInOrder, Reported
      <4>2. \A i \in 1..5 : f[i] \in Int /\ g[i] \in Int /\ f[i] <= g[i]
        BY <2>4, <3>1, <3>2, <3>3, <3>4, <4>1
      <4>3. QED
        BY <2>5, <3>4, <3>5, <4>2, SumMonotonic
    <3>7. remaining > 0 => AbsorbedByLayers = AllCapital
      <4>1. SUFFICES ASSUME remaining > 0 PROVE AbsorbedByLayers = AllCapital
        OBVIOUS
      <4>2. \A i \in 1..5 : layers[i].absorbed = layers[i].capacity
        BY <2>1, <2>8, <4>1 DEF IInv, LoopInv, Reported
      <4>3. \A i \in 1..5 : f[i] = g[i]
        BY <3>1, <3>2, <3>3, <4>2
      <4>4. QED
        BY <2>5, <3>4, <3>5, <4>3, SumSame
    <3>8. fully_covered <=> remaining = 0
      BY <2>2, <2>8 DEF fully_covered
    <3>9. QED
      BY <2>2, <2>3, <3>1, <3>4, <3>6, <3>7, <3>8
  <2>9. QED
    BY <2>2, <2>7, <2>8
<1>2. QED
  BY <1>1, AbsorbedAlways, PTL
=============================================================================
