----------------------- MODULE NettingEngine_proofs -----------------------
(***************************************************************************)
(* Proofs about NettingEngine, for any set of accounts, prices, quantities *)
(* and any number of trades.                                               *)
(***************************************************************************)
EXTENDS NettingEngine, ArithmeticLemmas

DirectionOf(t) == [symbol |-> t.symbol, buyer |-> t.buyer, seller |-> t.seller]

(***************************************************************************)
(* The key of a trade is canonical: it orders the two parties, and nothing *)
(* else of the trade matters for it.                                       *)
(***************************************************************************)
LEMMA KeyIsCanonical ==
    ASSUME NEW t \in Trade
    PROVE  /\ KeyOf(t) \in NettingKey
           /\ KeyOf(t).symbol = t.symbol
           /\ \/ KeyOf(t).lo = t.buyer /\ KeyOf(t).hi = t.seller
              \/ KeyOf(t).lo = t.seller /\ KeyOf(t).hi = t.buyer
           /\ DirectionOf(t) \in Direction
<1>1. /\ t.buyer \in Accounts /\ t.buyer \in Int
      /\ t.seller \in Accounts /\ t.seller \in Int
      /\ t.symbol \in Symbols
  BY NettingAssumption DEF Trade
<1> QED
  BY <1>1 DEF KeyOf, canonical_pair, NettingKey, DirectionOf, Direction

LEMMA TradeAmounts ==
    ASSUME NEW t \in Trade
    PROVE  t.quantity \in Nat /\ t.price * t.quantity \in Int
<1>1. t.quantity \in Nat /\ t.price \in Int
  BY NettingAssumption DEF Trade
<1> QED
  BY <1>1

(***************************************************************************)
(* Wrapping gives a value of the width, changes nothing within it, and     *)
(* otherwise takes away a multiple of the number of values.                *)
(***************************************************************************)
LEMMA WrapType ==
    ASSUME NEW n \in Int
    PROVE  /\ Wrap(n) \in Signed
           /\ n \in Signed => Wrap(n) = n
BY NettingAssumption, WrappedValue DEF Wrap, Wrapped, Signed

LEMMA WrapShift ==
    ASSUME NEW n \in Int
    PROVE  \E j \in Int : Wrap(n) = n + (2 * Half) * j
<1> DEFINE M == 2 * Half
           q == (n + Half) \div M
           r == (n + Half) % M
<1>1. M \in Nat \ {0} /\ n + Half \in Int /\ Half \in Int
  BY NettingAssumption
<1> HIDE DEF M
<1>2. q \in Int /\ r \in 0 .. M - 1 /\ n + Half = M * q + r
  BY <1>1, DivMod
<1>3. Wrap(n) = r - Half
  BY DEF Wrap, M
<1> HIDE DEF q, r
<1>4. M * (-q) = -(M * q) /\ M * q \in Int /\ -q \in Int
  BY <1>1, <1>2
<1>5. r - Half = n + M * (-q)
  BY <1>1, <1>2, <1>4
<1>6. QED
  BY <1>3, <1>4, <1>5 DEF M

(***************************************************************************)
(* A trade moves the accumulator of its own pair by a signed volume, and   *)
(* the un-netted volume of its own direction by the same volume.           *)
(***************************************************************************)
LEMMA TradeMoves ==
    ASSUME TypeOK, NEW t \in Trade, add_trade(t)
    PROVE  /\ \A k \in NettingKey :
                 AccumulatorOf(k)' = IF k = KeyOf(t)
                                     THEN Accumulate(AccumulatorOf(k), t)
                                     ELSE AccumulatorOf(k)
           /\ \A d \in Direction :
                 gross'[d] = IF d = DirectionOf(t) THEN Record(d, t) ELSE gross[d]
<1>1. accumulators' = [j \in DOMAIN accumulators \cup {KeyOf(t)} |->
                          IF j = KeyOf(t) THEN Accumulate(AccumulatorOf(KeyOf(t)), t)
                                          ELSE accumulators[j]]
  BY DEF add_trade
<1>2. gross' = [gross EXCEPT ![DirectionOf(t)] = Record(DirectionOf(t), t)]
  BY DEF add_trade, DirectionOf
<1> QED
  BY <1>1, <1>2 DEF AccumulatorOf, TypeOK

LEMMA AccumulatorType ==
    ASSUME TypeOK, NEW k \in NettingKey
    PROVE  /\ AccumulatorOf(k) \in Accumulator
           /\ AccumulatorOf(k).quantity \in Int
           /\ AccumulatorOf(k).payment \in Int
<1>1. Half \in Nat \ {0} /\ 0 \in Signed /\ Signed \subseteq Int
  BY NettingAssumption DEF Signed
<1>2. Zero \in Accumulator
  BY <1>1 DEF Zero, Accumulator
<1>3. AccumulatorOf(k) \in Accumulator
  BY <1>2 DEF AccumulatorOf, TypeOK
<1> QED
  BY <1>1, <1>3 DEF Accumulator

(***************************************************************************)
(* An accumulator and a trade have an exact sum; what is stored is its     *)
(* value at the accumulator's width.                                       *)
(***************************************************************************)
LEMMA AccumulateType ==
    ASSUME TypeOK, NEW t \in Trade, NEW k \in NettingKey
    PROVE  Accumulate(AccumulatorOf(k), t) \in Accumulator
<1> DEFINE sum == Sum(AccumulatorOf(k), t)
<1>1. sum.quantity \in Int /\ sum.payment \in Int
  <2>1. Sign(t) \in Int
    BY DEF Sign
  <2> QED
    BY <2>1, AccumulatorType, TradeAmounts DEF Sum
<1>2. Wrap(sum.quantity) \in Signed /\ Wrap(sum.payment) \in Signed
  BY <1>1, WrapType
<1> QED
  BY <1>2 DEF Accumulate, Accumulator

LEMMA InitType == Init => TypeOK
<1> SUFFICES ASSUME Init PROVE TypeOK
  OBVIOUS
<1>1. Zero \in Volume /\ 0 \in 0..MaxTrades
  BY NettingAssumption DEF Zero, Volume
<1>2. accumulators \in [DOMAIN accumulators -> Accumulator] /\ DOMAIN accumulators = {}
  BY DEF Init
<1> QED
  BY <1>1, <1>2 DEF Init, TypeOK

LEMMA NextType == TypeOK /\ [Next]_vars => TypeOK'
<1> SUFFICES ASSUME TypeOK, [Next]_vars PROVE TypeOK'
  OBVIOUS
<1>1. ASSUME NEW t \in Trade, AddTrade(t)
      PROVE  TypeOK'
  <2> DEFINE k == KeyOf(t)
             d == DirectionOf(t)
  <2>1. k \in NettingKey /\ d \in Direction
    BY KeyIsCanonical
  <2>2. Accumulate(AccumulatorOf(k), t) \in Accumulator
    BY <2>1, AccumulateType
  <2>3. accumulators' = [j \in DOMAIN accumulators \cup {k} |->
                           IF j = k THEN Accumulate(AccumulatorOf(k), t)
                                    ELSE accumulators[j]]
    BY <1>1 DEF AddTrade, add_trade
  <2>4. /\ accumulators' \in [DOMAIN accumulators' -> Accumulator]
        /\ DOMAIN accumulators' \subseteq NettingKey
    BY <2>1, <2>2, <2>3 DEF TypeOK
  <2>5. gross[d] \in Volume
    BY <2>1 DEF TypeOK
  <2>6. Record(d, t) \in Volume
    BY <2>5, TradeAmounts DEF Record, Volume
  <2>7. gross' = [gross EXCEPT ![d] = Record(d, t)]
    BY <1>1 DEF AddTrade, add_trade, DirectionOf
  <2>8. gross' \in [Direction -> Volume]
    BY <2>1, <2>6, <2>7 DEF TypeOK
  <2>9. added' \in 0..MaxTrades
    BY <1>1, NettingAssumption DEF AddTrade, TypeOK
  <2>10. wrapped' \in BOOLEAN
    BY <1>1 DEF AddTrade, add_trade
  <2> QED
    BY <2>4, <2>8, <2>9, <2>10 DEF TypeOK
<1>2. CASE clear
  <2>1. Zero \in Volume /\ 0 \in 0..MaxTrades
    BY NettingAssumption DEF Zero, Volume
  <2>2. accumulators' \in [DOMAIN accumulators' -> Accumulator] /\ DOMAIN accumulators' = {}
    BY <1>2 DEF clear
  <2> QED
    BY <1>2, <2>1, <2>2 DEF clear, TypeOK
<1>3. CASE UNCHANGED vars
  BY <1>3 DEF vars, TypeOK
<1> QED
  BY <1>1, <1>2, <1>3 DEF Next

(***************************************************************************)
(* The types of the engine's state.                                        *)
(***************************************************************************)
THEOREM TypeCorrect == Spec => []TypeOK
<1> QED
  BY InitType, NextType, PTL DEF Spec

-----------------------------------------------------------------------------
(***************************************************************************)
(* The two directions of a key, and the volumes in them.                   *)
(***************************************************************************)
Up(k)   == [symbol |-> k.symbol, buyer |-> k.lo, seller |-> k.hi]
Down(k) == [symbol |-> k.symbol, buyer |-> k.hi, seller |-> k.lo]

LEMMA KeyDirections ==
    ASSUME TypeOK, NEW k \in NettingKey
    PROVE  /\ Up(k) \in Direction /\ Down(k) \in Direction
           /\ gross[Up(k)].quantity \in Int /\ gross[Up(k)].payment \in Int
           /\ gross[Down(k)].quantity \in Int /\ gross[Down(k)].payment \in Int
           /\ k.lo # k.hi => Up(k) # Down(k)
<1>1. Up(k) \in Direction /\ Down(k) \in Direction
  BY DEF Up, Down, Direction, NettingKey
<1>2. gross[Up(k)] \in Volume /\ gross[Down(k)] \in Volume
  BY <1>1 DEF TypeOK
<1>3. k.lo # k.hi => Up(k) # Down(k)
  BY DEF Up, Down
<1> QED
  BY <1>1, <1>2, <1>3 DEF Volume

(***************************************************************************)
(* The direction of a trade belongs to the trade's own key and to no       *)
(* other: Up if the buyer is lo, Down if not.                              *)
(***************************************************************************)
LEMMA DirectionOfKey ==
    ASSUME NEW t \in Trade, NEW k \in NettingKey
    PROVE  /\ DirectionOf(t) = Up(k) => k = KeyOf(t) /\ t.buyer = KeyOf(t).lo
           /\ DirectionOf(t) = Down(k) =>
                 k = KeyOf(t) /\ (k.lo # k.hi => t.buyer # KeyOf(t).lo)
           /\ k = KeyOf(t) => DirectionOf(t) = IF t.buyer = KeyOf(t).lo THEN Up(k) ELSE Down(k)
<1>1. /\ t.buyer \in Int /\ t.seller \in Int
      /\ k \in [symbol: Symbols, lo: Accounts, hi: Accounts]
      /\ k.lo \in Int /\ k.hi \in Int /\ k.lo <= k.hi
  BY NettingAssumption DEF Trade, NettingKey
<1>2. k = [symbol |-> k.symbol, lo |-> k.lo, hi |-> k.hi]
  BY <1>1
<1>3. CASE t.buyer <= t.seller
  <2>1. KeyOf(t) = [symbol |-> t.symbol, lo |-> t.buyer, hi |-> t.seller]
    BY <1>3 DEF KeyOf, canonical_pair
  <2> QED
    BY <1>1, <1>2, <1>3, <2>1 DEF DirectionOf, Up, Down
<1>4. CASE ~(t.buyer <= t.seller)
  <2>1. KeyOf(t) = [symbol |-> t.symbol, lo |-> t.seller, hi |-> t.buyer]
    BY <1>4 DEF KeyOf, canonical_pair
  <2> QED
    BY <1>1, <1>2, <1>4, <2>1 DEF DirectionOf, Up, Down
<1> QED
  BY <1>3, <1>4

(***************************************************************************)
(* While no sum wraps, a trade moves the accumulator and the volumes of    *)
(* its key alike.                                                          *)
(***************************************************************************)
LEMMA AddTradeNets ==
    ASSUME TypeOK, AccumulatorsNetTheTrades, NEW t \in Trade, add_trade(t),
           ~wrapped', NEW k \in NettingKey
    PROVE  /\ AccumulatorOf(k)'.quantity = Net(k, "quantity")'
           /\ AccumulatorOf(k)'.payment = Net(k, "payment")'
<1> DEFINE acc  == AccumulatorOf(k)
           up   == gross[Up(k)]
           down == gross[Down(k)]
           v    == t.price * t.quantity
<1>1. /\ acc.quantity \in Int /\ acc.payment \in Int
      /\ t.quantity \in Int /\ v \in Int
      /\ up.quantity \in Int /\ up.payment \in Int
      /\ down.quantity \in Int /\ down.payment \in Int
  BY AccumulatorType, TradeAmounts, KeyDirections
<1>0. ~wrapped /\ Accumulate(AccumulatorOf(KeyOf(t)), t) = Sum(AccumulatorOf(KeyOf(t)), t)
  BY DEF add_trade
<1>2. /\ acc.quantity = IF k.lo = k.hi THEN up.quantity ELSE up.quantity - down.quantity
      /\ acc.payment = IF k.lo = k.hi THEN up.payment ELSE up.payment - down.payment
  BY <1>0 DEF AccumulatorsNetTheTrades, Net, Up, Down
<1>3. /\ Net(k, "quantity")' = IF k.lo = k.hi THEN gross'[Up(k)].quantity
                               ELSE gross'[Up(k)].quantity - gross'[Down(k)].quantity
      /\ Net(k, "payment")' = IF k.lo = k.hi THEN gross'[Up(k)].payment
                              ELSE gross'[Up(k)].payment - gross'[Down(k)].payment
  BY DEF Net, Up, Down
<1>4. CASE k # KeyOf(t)
  <2>1. DirectionOf(t) # Up(k) /\ DirectionOf(t) # Down(k)
    BY <1>4, DirectionOfKey
  <2>2. gross'[Up(k)] = up /\ gross'[Down(k)] = down /\ AccumulatorOf(k)' = acc
    BY <1>4, <2>1, KeyDirections, TradeMoves
  <2> QED
    BY <1>2, <1>3, <2>2
<1>5. CASE k = KeyOf(t) /\ t.buyer = k.lo
  <2>1. DirectionOf(t) = Up(k) /\ (k.lo # k.hi => DirectionOf(t) # Down(k))
    BY <1>5, DirectionOfKey, KeyDirections
  <2>2. /\ gross'[Up(k)] = [quantity |-> up.quantity + t.quantity, payment |-> up.payment + v]
        /\ k.lo # k.hi => gross'[Down(k)] = down
    BY <2>1, KeyDirections, TradeMoves DEF Record
  <2>3. AccumulatorOf(k)' = [quantity |-> acc.quantity + 1 * t.quantity,
                             payment |-> acc.payment + 1 * v]
    BY <1>0, <1>5, TradeMoves DEF Sum, Sign
  <2>4. /\ gross'[Up(k)].quantity = up.quantity + t.quantity
        /\ gross'[Up(k)].payment = up.payment + v
        /\ AccumulatorOf(k)'.quantity = acc.quantity + t.quantity
        /\ AccumulatorOf(k)'.payment = acc.payment + v
    BY <1>1, <2>2, <2>3
  <2> HIDE DEF v
  <2> QED
    BY <1>1, <1>2, <1>3, <2>2, <2>4
<1>6. CASE k = KeyOf(t) /\ t.buyer # k.lo
  <2>1. DirectionOf(t) = Down(k) /\ k.lo # k.hi /\ DirectionOf(t) # Up(k)
    BY <1>6, DirectionOfKey, KeyIsCanonical, KeyDirections
  <2>2. /\ gross'[Down(k)] = [quantity |-> down.quantity + t.quantity, payment |-> down.payment + v]
        /\ gross'[Up(k)] = up
    BY <2>1, KeyDirections, TradeMoves DEF Record
  <2>3. AccumulatorOf(k)' = [quantity |-> acc.quantity + (-1) * t.quantity,
                             payment |-> acc.payment + (-1) * v]
    BY <1>0, <1>6, TradeMoves DEF Sum, Sign
  <2>4. /\ gross'[Down(k)].quantity = down.quantity + t.quantity
        /\ gross'[Down(k)].payment = down.payment + v
        /\ AccumulatorOf(k)'.quantity = acc.quantity - t.quantity
        /\ AccumulatorOf(k)'.payment = acc.payment - v
    BY <1>1, <2>2, <2>3
  <2> HIDE DEF v
  <2> QED
    BY <1>1, <1>2, <1>3, <2>1, <2>2, <2>4
<1> QED
  BY <1>4, <1>5, <1>6

LEMMA InitNets == Init => AccumulatorsNetTheTrades
<1> SUFFICES ASSUME Init, NEW k \in NettingKey
             PROVE  /\ AccumulatorOf(k).quantity = Net(k, "quantity")
                    /\ AccumulatorOf(k).payment = Net(k, "payment")
  BY DEF AccumulatorsNetTheTrades
<1>1. gross[Up(k)] = Zero /\ gross[Down(k)] = Zero
  BY InitType, KeyDirections DEF Init
<1>2. AccumulatorOf(k) = Zero
  BY DEF Init, AccumulatorOf
<1> QED
  BY <1>1, <1>2 DEF Net, Zero, Up, Down

LEMMA NextNets ==
    TypeOK /\ AccumulatorsNetTheTrades /\ [Next]_vars => AccumulatorsNetTheTrades'
<1> SUFFICES ASSUME TypeOK, AccumulatorsNetTheTrades, [Next]_vars
             PROVE  AccumulatorsNetTheTrades'
  OBVIOUS
<1>1. ASSUME NEW t \in Trade, AddTrade(t)
      PROVE  AccumulatorsNetTheTrades'
  BY <1>1, AddTradeNets DEF AddTrade, AccumulatorsNetTheTrades
<1>2. CASE clear
  <2> SUFFICES ASSUME NEW k \in NettingKey
               PROVE  /\ AccumulatorOf(k)'.quantity = Net(k, "quantity")'
                      /\ AccumulatorOf(k)'.payment = Net(k, "payment")'
    BY DEF AccumulatorsNetTheTrades
  <2>1. gross'[Up(k)] = Zero /\ gross'[Down(k)] = Zero
    BY <1>2, KeyDirections DEF clear
  <2>2. AccumulatorOf(k)' = Zero
    BY <1>2 DEF clear, AccumulatorOf
  <2> QED
    BY <2>1, <2>2 DEF Net, Zero, Up, Down
<1>3. CASE UNCHANGED vars
  BY <1>3 DEF vars, AccumulatorsNetTheTrades, AccumulatorOf, Net
<1> QED
  BY <1>1, <1>2, <1>3 DEF Next

(***************************************************************************)
(* Bilateral netting is exact and does not depend on the order of trades:  *)
(* each accumulator is the difference of what the two accounts bought from *)
(* each other, in units and in cash, until a sum wraps around.             *)
(***************************************************************************)
THEOREM NettingIsExact == Spec => []AccumulatorsNetTheTrades
<1> QED
  BY InitType, NextType, InitNets, NextNets, PTL DEF Spec

-----------------------------------------------------------------------------
(***************************************************************************)
(* What compute_net makes of an accumulator.  The cast drops multiples of  *)
(* QuantityMod, and so has the wrapping before it.                         *)
(***************************************************************************)
LEMMA CastAfterWrap ==
    ASSUME NEW n \in Int
    PROVE  AsU64(Wrap(n)) = n % QuantityMod
<1>1. PICK j \in Int : Wrap(n) = n + (2 * Half) * j
  BY WrapShift
<1>2. QuantityMod \in Nat \ {0} /\ 2 * Half \in Int /\ (2 * Half) % QuantityMod = 0
  BY NettingAssumption
<1>3. PICK m \in Int : 2 * Half = QuantityMod * m
  BY <1>2, ModZero
<1>4. (QuantityMod * m) * j = QuantityMod * (m * j) /\ m * j \in Int
  BY <1>1, <1>2, <1>3
<1>5. (n + QuantityMod * (m * j)) % QuantityMod = n % QuantityMod
  BY <1>2, <1>4, ModShift
<1>6. QED
  BY <1>1, <1>3, <1>4, <1>5 DEF AsU64

LEMMA UnbalancedKey ==
    ASSUME TypeOK, NEW k \in Unbalanced
    PROVE  /\ k \in NettingKey /\ k \in DOMAIN accumulators
           /\ AccumulatorOf(k) = accumulators[k]
           /\ accumulators[k].quantity \in Int /\ accumulators[k].quantity \in Signed
           /\ accumulators[k].payment \in Int /\ accumulators[k].payment \in Signed
           /\ accumulators[k].quantity # 0
<1>1. k \in DOMAIN accumulators /\ accumulators[k].quantity # 0
  BY DEF Unbalanced
<1>2. k \in NettingKey /\ AccumulatorOf(k) = accumulators[k]
  BY <1>1 DEF TypeOK, AccumulatorOf
<1>3. accumulators[k] \in Accumulator
  BY <1>1 DEF TypeOK
<1>4. QED
  BY <1>1, <1>2, <1>3, AccumulatorType DEF Accumulator

(***************************************************************************)
(* The obligation of a key: between its two accounts, in its symbol, the   *)
(* net buyer receiving the size of the accumulator, as far as it fits.     *)
(***************************************************************************)
LEMMA ObligationShape ==
    ASSUME TypeOK, NEW k \in Unbalanced, NEW ob, ob = ObligationOf(k, accumulators[k]),
           NEW q, q = accumulators[k].quantity
    PROVE  /\ ob.symbol = k.symbol
           /\ q > 0 => /\ ob.receiver = k.lo /\ ob.deliverer = k.hi
                       /\ ob.net_quantity = q % QuantityMod
           /\ ~(q > 0) => /\ ob.receiver = k.hi /\ ob.deliverer = k.lo
                          /\ ob.net_quantity = (-q) % QuantityMod
<1>1. q \in Int /\ -q \in Int
  BY UnbalancedKey
<1>2. CASE q > 0
  BY <1>2 DEF ObligationOf, NetObligation, AsU64
<1>3. CASE ~(q > 0)
  <2>1. ob = NetObligation(k.symbol, k.lo, k.hi, AsU64(Wrap(-q)),
                           saturating_i128_to_i64(Wrap(-accumulators[k].payment)))
    BY <1>3 DEF ObligationOf
  <2>2. AsU64(Wrap(-q)) = (-q) % QuantityMod
    BY <1>1, CastAfterWrap
  <2>3. QED
    BY <1>3, <2>1, <2>2 DEF NetObligation
<1>4. QED
  BY <1>2, <1>3

\* Different keys have different obligations, even between the same accounts.
LEMMA OneObligationPerKey ==
    ASSUME TypeOK, NEW k \in Unbalanced, NEW j \in Unbalanced,
           NEW ob, ob = ObligationOf(k, accumulators[k]),
           NEW o, o = ObligationOf(j, accumulators[j]),
           o.symbol = ob.symbol, {o.deliverer, o.receiver} = {ob.deliverer, ob.receiver}
    PROVE  j = k
<1>1. /\ k \in NettingKey /\ j \in NettingKey
  BY UnbalancedKey
<1>2. /\ k = [symbol |-> k.symbol, lo |-> k.lo, hi |-> k.hi]
      /\ j = [symbol |-> j.symbol, lo |-> j.lo, hi |-> j.hi]
      /\ k.lo \in Int /\ k.hi \in Int /\ k.lo <= k.hi
      /\ j.lo \in Int /\ j.hi \in Int /\ j.lo <= j.hi
  BY <1>1, NettingAssumption DEF NettingKey
<1>3. ob.symbol = k.symbol /\ {ob.deliverer, ob.receiver} = {k.lo, k.hi}
  BY ObligationShape
<1>4. o.symbol = j.symbol /\ {o.deliverer, o.receiver} = {j.lo, j.hi}
  BY ObligationShape
<1>5. j.symbol = k.symbol /\ {j.lo, j.hi} = {k.lo, k.hi}
  BY <1>3, <1>4
<1>6. j.lo = k.lo /\ j.hi = k.hi
  BY <1>2, <1>5
<1>7. QED
  BY <1>2, <1>5, <1>6

\* A remainder of a natural number is at most the number.
LEMMA CastAtMost ==
    ASSUME NEW n \in Nat
    PROVE  n % QuantityMod <= n
<1>1. QuantityMod \in Nat \ {0}
  BY NettingAssumption
<1>2. PICK q : q = n \div QuantityMod
  OBVIOUS
<1>3. PICK r : r = n % QuantityMod
  OBVIOUS
<1>4. q \in Int /\ r \in 0 .. QuantityMod - 1 /\ n = QuantityMod * q + r
  BY <1>1, <1>2, <1>3, DivMod
<1>5. q >= 0
  <2>1. SUFFICES ASSUME q <= -1  PROVE FALSE
    BY <1>4
  <2>2. QuantityMod * q <= QuantityMod * (-1)
    BY <1>1, <1>4, <2>1, ProductMonotonic
  <2>3. QuantityMod * q \in Int /\ QuantityMod * (-1) = -QuantityMod
    BY <1>1, <1>4
  <2>4. QED
    BY <1>1, <1>4, <2>2, <2>3
<1>6. QuantityMod * q >= 0 /\ QuantityMod * q \in Int
  BY <1>1, <1>4, <1>5
<1>7. QED
  BY <1>3, <1>4, <1>6

LEMMA ExposureOfKey ==
    ASSUME TypeOK, AccumulatorsNetTheTrades, ~wrapped, NEW k \in Unbalanced,
           NEW ob, ob = ObligationOf(k, accumulators[k])
    PROVE  ob.net_quantity <= gross[[symbol |-> ob.symbol, buyer |-> ob.receiver,
                                     seller |-> ob.deliverer]].quantity
<1> DEFINE up   == gross[Up(k)].quantity
           down == gross[Down(k)].quantity
<1>1. PICK q : q = accumulators[k].quantity
  OBVIOUS
<1>2. k \in NettingKey /\ q \in Int /\ q # 0 /\ AccumulatorOf(k).quantity = q
  BY <1>1, UnbalancedKey
<1>3. up \in Nat /\ down \in Nat
  <2>1. gross[Up(k)] \in Volume /\ gross[Down(k)] \in Volume
    BY <1>2, KeyDirections DEF TypeOK
  <2>2. QED
    BY <2>1 DEF Volume
<1>4. q = IF k.lo = k.hi THEN up ELSE up - down
  BY <1>2 DEF AccumulatorsNetTheTrades, Net, Up, Down
<1> HIDE DEF up, down
<1>5. CASE q > 0
  <2>1. ob.symbol = k.symbol /\ ob.receiver = k.lo /\ ob.deliverer = k.hi
        /\ ob.net_quantity = q % QuantityMod
    BY <1>1, <1>5, ObligationShape
  <2>2. q \in Nat /\ q <= up
    BY <1>2, <1>3, <1>4, <1>5
  <2>3. q % QuantityMod <= q /\ q % QuantityMod \in Int
    BY <2>2, CastAtMost, NettingAssumption, DivMod
  <2>4. ob.net_quantity <= up
    BY <1>3, <2>1, <2>2, <2>3
  <2>5. QED
    BY <2>1, <2>4 DEF Up, up
<1>6. CASE ~(q > 0)
  <2>1. ob.symbol = k.symbol /\ ob.receiver = k.hi /\ ob.deliverer = k.lo
        /\ ob.net_quantity = (-q) % QuantityMod
    BY <1>1, <1>6, ObligationShape
  <2>2. -q \in Nat /\ -q <= down
    BY <1>2, <1>3, <1>4, <1>6
  <2>3. (-q) % QuantityMod <= -q /\ (-q) % QuantityMod \in Int
    BY <2>2, CastAtMost, NettingAssumption, DivMod
  <2>4. ob.net_quantity <= down
    BY <1>3, <2>1, <2>2, <2>3
  <2>5. QED
    BY <2>1, <2>4 DEF Down, down
<1>7. QED
  BY <1>5, <1>6

(***************************************************************************)
(* Netting never adds exposure: an obligation is at most what its receiver *)
(* bought from its deliverer, and there is none in the other direction.    *)
(***************************************************************************)
THEOREM NettingNeverAddsExposure == Spec => []ExposureNeverGrows
<1>1. TypeOK /\ AccumulatorsNetTheTrades => ExposureNeverGrows
  <2>1. SUFFICES ASSUME TypeOK, AccumulatorsNetTheTrades, ~wrapped, NEW ob \in compute_net
                 PROVE  /\ ob.net_quantity
                              <= gross[[symbol |-> ob.symbol, buyer |-> ob.receiver,
                                        seller |-> ob.deliverer]].quantity
                        /\ {o \in compute_net :
                               /\ o # ob
                               /\ o.symbol = ob.symbol
                               /\ {o.deliverer, o.receiver}
                                    = {ob.deliverer, ob.receiver}} = {}
    BY DEF ExposureNeverGrows
  <2>2. PICK k \in Unbalanced : ob = ObligationOf(k, accumulators[k])
    BY DEF compute_net
  <2>3. ASSUME NEW o \in compute_net, o.symbol = ob.symbol,
               {o.deliverer, o.receiver} = {ob.deliverer, ob.receiver}
        PROVE  o = ob
    <3>1. PICK j \in Unbalanced : o = ObligationOf(j, accumulators[j])
      BY DEF compute_net
    <3>2. j = k
      BY <2>1, <2>2, <2>3, <3>1, OneObligationPerKey
    <3>3. QED
      BY <2>2, <3>1, <3>2
  <2>4. ob.net_quantity <= gross[[symbol |-> ob.symbol, buyer |-> ob.receiver,
                                  seller |-> ob.deliverer]].quantity
    BY <2>1, <2>2, ExposureOfKey
  <2>5. QED
    BY <2>3, <2>4
<1>2. QED
  BY <1>1, TypeCorrect, NettingIsExact, PTL

-----------------------------------------------------------------------------
(***************************************************************************)
(* Sums over the keys and over the directions: what lo and what the buyer  *)
(* gets counts up for an account, what hi and what the seller gets counts  *)
(* down.                                                                   *)
(***************************************************************************)
KeyTerm(k, amount, s, a) ==
    IF k.symbol = s THEN (IF k.lo = a THEN amount ELSE 0) - (IF k.hi = a THEN amount ELSE 0)
                    ELSE 0

TradeTerm(d, amount, s, a) ==
    IF d.symbol = s THEN (IF d.buyer = a THEN amount ELSE 0) - (IF d.seller = a THEN amount ELSE 0)
                    ELSE 0

KeySum(A, s, a)   == SumFunctionOnSet([k \in NettingKey |-> KeyTerm(k, A[k], s, a)], NettingKey)
TradeSum(V, s, a) == SumFunctionOnSet([d \in Direction |-> TradeTerm(d, V[d], s, a)], Direction)

LEMMA FinitelyMany == IsFiniteSet(NettingKey) /\ IsFiniteSet(Direction)
<1> DEFINE Triples == Symbols \X (Accounts \X Accounts)
           e == [x \in Triples |-> [symbol |-> x[1], buyer |-> x[2][1], seller |-> x[2][2]]]
           Pairs == [symbol: Symbols, lo: Accounts, hi: Accounts]
           p == [x \in Triples |-> [symbol |-> x[1], lo |-> x[2][1], hi |-> x[2][2]]]
<1>1. IsFiniteSet(Triples)
  <2>1. IsFiniteSet(Accounts \X Accounts)
    BY NettingAssumption, FS_Product
  <2>2. QED
    BY <2>1, NettingAssumption, FS_Product
<1>2. e \in [Triples -> Direction] /\ \A y \in Direction : \E x \in Triples : e[x] = y
  <2>1. e \in [Triples -> Direction]
    BY DEF Direction
  <2>2. ASSUME NEW y \in Direction  PROVE \E x \in Triples : e[x] = y
    <3>1. <<y.symbol, <<y.buyer, y.seller>>>> \in Triples
      BY DEF Direction
    <3>2. y = [symbol |-> y.symbol, buyer |-> y.buyer, seller |-> y.seller]
      BY DEF Direction
    <3>3. e[<<y.symbol, <<y.buyer, y.seller>>>>] = y
      BY <3>1, <3>2
    <3>4. QED
      BY <3>1, <3>3
  <2>3. QED
    BY <2>1, <2>2
<1>3. p \in [Triples -> Pairs] /\ \A y \in Pairs : \E x \in Triples : p[x] = y
  <2>1. p \in [Triples -> Pairs]
    OBVIOUS
  <2>2. ASSUME NEW y \in Pairs  PROVE \E x \in Triples : p[x] = y
    <3>1. <<y.symbol, <<y.lo, y.hi>>>> \in Triples
      OBVIOUS
    <3>2. y = [symbol |-> y.symbol, lo |-> y.lo, hi |-> y.hi]
      OBVIOUS
    <3>3. p[<<y.symbol, <<y.lo, y.hi>>>>] = y
      BY <3>1, <3>2
    <3>4. QED
      BY <3>1, <3>3
  <2>3. QED
    BY <2>1, <2>2
<1> HIDE DEF e, p, Triples
<1>4. IsFiniteSet(Direction)
  BY <1>1, <1>2, FiniteImage
<1>5. IsFiniteSet(Pairs)
  <2> HIDE DEF Pairs
  <2>1. QED
    BY <1>1, <1>3, FiniteImage
<1>6. NettingKey \in SUBSET Pairs
  BY DEF NettingKey
<1>7. QED
  BY <1>4, <1>5, <1>6, FS_Subset

LEMMA TermType ==
    ASSUME NEW k, NEW amount \in Int, NEW s, NEW a
    PROVE  KeyTerm(k, amount, s, a) \in Int /\ TradeTerm(k, amount, s, a) \in Int
BY DEF KeyTerm, TradeTerm

\* A trade t of volume v takes A to B and V to W; w is lost by wrapping.
MoveAlike(A, B, V, W, t, v, w) ==
    /\ t \in Trade /\ v \in Int /\ w \in Int
    /\ \A k \in NettingKey :
          A[k] \in Int /\ B[k] = IF k = KeyOf(t) THEN A[k] + Sign(t) * v + w ELSE A[k]
    /\ \A d \in Direction :
          V[d] \in Int /\ W[d] = IF d = DirectionOf(t) THEN V[d] + v ELSE V[d]

(***************************************************************************)
(* A trade moves both sums of an account alike, but for what its           *)
(* accumulator has lost by wrapping.                                       *)
(***************************************************************************)
LEMMA SumsMoveAlike ==
    ASSUME NEW A, NEW B, NEW V, NEW W, NEW t, NEW v, NEW w, NEW s, NEW a,
           MoveAlike(A, B, V, W, t, v, w)
    PROVE  /\ KeySum(A, s, a) \in Int /\ KeySum(B, s, a) \in Int
           /\ TradeSum(V, s, a) \in Int /\ TradeSum(W, s, a) \in Int
           /\ KeySum(B, s, a) - TradeSum(W, s, a)
                = KeySum(A, s, a) - TradeSum(V, s, a) + KeyTerm(KeyOf(t), w, s, a)
<1>0. /\ t \in Trade /\ v \in Int /\ w \in Int
      /\ \A k \in NettingKey :
            A[k] \in Int /\ B[k] = IF k = KeyOf(t) THEN A[k] + Sign(t) * v + w ELSE A[k]
      /\ \A d \in Direction :
            V[d] \in Int /\ W[d] = IF d = DirectionOf(t) THEN V[d] + v ELSE V[d]
  BY DEF MoveAlike
<1>1. PICK k : k = KeyOf(t)
  OBVIOUS
<1>2. PICK d : d = DirectionOf(t)
  OBVIOUS
<1>3. PICK fa : fa = [j \in NettingKey |-> KeyTerm(j, A[j], s, a)]
  OBVIOUS
<1>4. PICK fb : fb = [j \in NettingKey |-> KeyTerm(j, B[j], s, a)]
  OBVIOUS
<1>5. PICK gv : gv = [j \in Direction |-> TradeTerm(j, V[j], s, a)]
  OBVIOUS
<1>6. PICK gw : gw = [j \in Direction |-> TradeTerm(j, W[j], s, a)]
  OBVIOUS
<1>7. k \in NettingKey /\ d \in Direction
  BY <1>0, <1>1, <1>2, KeyIsCanonical
<1>8. Sign(t) \in {1, -1} /\ Sign(t) * v \in Int
  BY <1>0 DEF Sign
<1>9. /\ \A j \in NettingKey : A[j] \in Int /\ B[j] \in Int
      /\ \A j \in Direction : V[j] \in Int /\ W[j] \in Int
  BY <1>0, <1>8
<1>10. \A j \in NettingKey : fa[j] \in Int /\ fb[j] \in Int /\ (j # k => fb[j] = fa[j])
  BY <1>0, <1>1, <1>3, <1>4, <1>9, TermType
<1>11. \A j \in Direction : gv[j] \in Int /\ gw[j] \in Int /\ (j # d => gw[j] = gv[j])
  BY <1>0, <1>2, <1>5, <1>6, <1>9, TermType
<1>12. SumFunctionOnSet(fb, NettingKey) = SumFunctionOnSet(fa, NettingKey) - fa[k] + fb[k]
  BY <1>7, <1>10, FinitelyMany, SumChangeOne
<1>13. SumFunctionOnSet(gw, Direction) = SumFunctionOnSet(gv, Direction) - gv[d] + gw[d]
  BY <1>7, <1>11, FinitelyMany, SumChangeOne
<1>14. /\ SumFunctionOnSet(fa, NettingKey) \in Int /\ SumFunctionOnSet(fb, NettingKey) \in Int
       /\ SumFunctionOnSet(gv, Direction) \in Int /\ SumFunctionOnSet(gw, Direction) \in Int
  BY <1>10, <1>11, FinitelyMany, SumType
<1>15. fb[k] - fa[k] = gw[d] - gv[d] + KeyTerm(k, w, s, a)
  <2>1. /\ fa[k] = KeyTerm(k, A[k], s, a) /\ fb[k] = KeyTerm(k, A[k] + Sign(t) * v + w, s, a)
        /\ gv[d] = TradeTerm(d, V[d], s, a) /\ gw[d] = TradeTerm(d, V[d] + v, s, a)
    BY <1>0, <1>1, <1>2, <1>3, <1>4, <1>5, <1>6, <1>7
  <2>2. k.symbol = t.symbol /\ d.symbol = t.symbol /\ d.buyer = t.buyer /\ d.seller = t.seller
    BY <1>0, <1>1, <1>2, KeyIsCanonical DEF DirectionOf
  <2>3. A[k] \in Int /\ V[d] \in Int
    BY <1>7, <1>9
  <2>4. \/ Sign(t) * v = v /\ d.buyer = k.lo /\ d.seller = k.hi
        \/ Sign(t) * v = -v /\ d.buyer = k.hi /\ d.seller = k.lo
    BY <1>0, <1>1, <2>2, KeyIsCanonical DEF Sign
  <2>5. PICK x : x = A[k]
    OBVIOUS
  <2>6. PICK y : y = V[d]
    OBVIOUS
  <2>7. PICK u : u = Sign(t) * v
    OBVIOUS
  <2>8. KeyTerm(k, x + u + w, s, a) - KeyTerm(k, x, s, a)
          = TradeTerm(d, y + v, s, a) - TradeTerm(d, y, s, a) + KeyTerm(k, w, s, a)
    <3>1. x \in Int /\ y \in Int /\ u \in Int /\ k.symbol = d.symbol
      BY <1>0, <1>8, <2>2, <2>3, <2>5, <2>6, <2>7
    <3>2. \/ u = v /\ d.buyer = k.lo /\ d.seller = k.hi
          \/ u = -v /\ d.buyer = k.hi /\ d.seller = k.lo
      BY <2>4, <2>7
    <3>3. CASE k.symbol # s
      BY <1>0, <3>1, <3>3 DEF KeyTerm, TradeTerm
    <3>4. CASE k.symbol = s
      <4>1. ASSUME NEW n \in Int
            PROVE  /\ KeyTerm(k, n, s, a) =
                        IF k.lo = a THEN (IF k.hi = a THEN 0 ELSE n)
                                    ELSE (IF k.hi = a THEN -n ELSE 0)
                   /\ TradeTerm(d, n, s, a) =
                        IF d.buyer = a THEN (IF d.seller = a THEN 0 ELSE n)
                                       ELSE (IF d.seller = a THEN -n ELSE 0)
        BY <3>1, <3>4 DEF KeyTerm, TradeTerm
      <4>2. x + u + w \in Int /\ y + v \in Int
        BY <1>0, <3>1
      <4>3. CASE k.lo = a /\ k.hi = a
        BY <1>0, <3>1, <3>2, <4>1, <4>2, <4>3
      <4>4. CASE k.lo = a /\ k.hi # a
        BY <1>0, <3>1, <3>2, <4>1, <4>2, <4>4
      <4>5. CASE k.lo # a /\ k.hi = a
        BY <1>0, <3>1, <3>2, <4>1, <4>2, <4>5
      <4>6. CASE k.lo # a /\ k.hi # a
        BY <1>0, <3>1, <3>2, <4>1, <4>2, <4>6
      <4>7. QED
        BY <4>3, <4>4, <4>5, <4>6
    <3>5. QED
      BY <3>3, <3>4
  <2>9. QED
    BY <2>1, <2>5, <2>6, <2>7, <2>8
<1>16. KeyTerm(k, w, s, a) \in Int /\ fa[k] \in Int /\ fb[k] \in Int /\ gv[d] \in Int /\ gw[d] \in Int
  BY <1>0, <1>7, <1>10, <1>11, TermType
<1>17. /\ KeySum(A, s, a) = SumFunctionOnSet(fa, NettingKey)
       /\ KeySum(B, s, a) = SumFunctionOnSet(fb, NettingKey)
       /\ TradeSum(V, s, a) = SumFunctionOnSet(gv, Direction)
       /\ TradeSum(W, s, a) = SumFunctionOnSet(gw, Direction)
  BY <1>3, <1>4, <1>5, <1>6 DEF KeySum, TradeSum
<1>18. SumFunctionOnSet(fb, NettingKey) - SumFunctionOnSet(gw, Direction)
         = SumFunctionOnSet(fa, NettingKey) - SumFunctionOnSet(gv, Direction)
             + KeyTerm(k, w, s, a)
  <2>1. PICK sa : sa = SumFunctionOnSet(fa, NettingKey)
    OBVIOUS
  <2>2. PICK sv : sv = SumFunctionOnSet(gv, Direction)
    OBVIOUS
  <2>3. PICK z : z = KeyTerm(k, w, s, a)
    OBVIOUS
  <2>4. /\ sa \in Int /\ sv \in Int /\ z \in Int
        /\ fa[k] \in Int /\ fb[k] \in Int /\ gv[d] \in Int /\ gw[d] \in Int
        /\ fb[k] - fa[k] = gw[d] - gv[d] + z
    BY <1>14, <1>15, <1>16, <2>1, <2>2, <2>3
  <2>5. (sa - fa[k] + fb[k]) - (sv - gv[d] + gw[d]) = sa - sv + z
    <3>1. PICK x1 : x1 = fa[k]
      OBVIOUS
    <3>2. PICK x2 : x2 = fb[k]
      OBVIOUS
    <3>3. PICK y1 : y1 = gv[d]
      OBVIOUS
    <3>4. PICK y2 : y2 = gw[d]
      OBVIOUS
    <3>5. /\ x1 \in Int /\ x2 \in Int /\ y1 \in Int /\ y2 \in Int
          /\ sa \in Int /\ sv \in Int /\ z \in Int /\ x2 - x1 = y2 - y1 + z
      BY <2>4, <3>1, <3>2, <3>3, <3>4
    <3>6. (sa - x1 + x2) - (sv - y1 + y2) = sa - sv + z
      BY <3>5
    <3>7. QED
      BY <3>1, <3>2, <3>3, <3>4, <3>6
  <2>6. QED
    BY <1>12, <1>13, <2>1, <2>2, <2>3, <2>5
<1>19. QED
  BY <1>1, <1>14, <1>17, <1>18

(***************************************************************************)
(* The inductive invariant behind both properties of preservation: for     *)
(* each account, the accumulators add up to what the trades add up to; up  *)
(* to the width of an accumulator for the units, and exactly while nothing *)
(* has wrapped.                                                            *)
(***************************************************************************)
NetUnitsOf == [k \in NettingKey |-> AccumulatorOf(k).quantity]
NetCashOf  == [k \in NettingKey |-> AccumulatorOf(k).payment]
UnitsOf    == [d \in Direction |-> gross[d].quantity]
CashOf     == [d \in Direction |-> gross[d].payment]

SumsAgree ==
    \A s \in Symbols, a \in Accounts :
        /\ (KeySum(NetUnitsOf, s, a) - TradeSum(UnitsOf, s, a)) % (2 * Half) = 0
        /\ ~wrapped => /\ KeySum(NetUnitsOf, s, a) = TradeSum(UnitsOf, s, a)
                       /\ KeySum(NetCashOf, s, a) = TradeSum(CashOf, s, a)

LEMMA ZeroSums ==
    ASSUME NEW A, \A k \in NettingKey : A[k] = 0, NEW V, \A d \in Direction : V[d] = 0,
           NEW s, NEW a
    PROVE  KeySum(A, s, a) = 0 /\ TradeSum(V, s, a) = 0
<1>1. PICK f : f = [k \in NettingKey |-> KeyTerm(k, A[k], s, a)]
  OBVIOUS
<1>2. PICK g : g = [d \in Direction |-> TradeTerm(d, V[d], s, a)]
  OBVIOUS
<1>3. /\ \A k \in NettingKey : f[k] = 0
      /\ \A d \in Direction : g[d] = 0
  BY <1>1, <1>2 DEF KeyTerm, TradeTerm
<1>4. SumFunctionOnSet(f, NettingKey) = 0 /\ SumFunctionOnSet(g, Direction) = 0
  BY <1>3, FinitelyMany, SumOfZeros
<1>5. QED
  BY <1>1, <1>2, <1>4 DEF KeySum, TradeSum

NothingTraded ==
    accumulators = [k \in {} |-> Zero] /\ gross = [d \in Direction |-> Zero]

LEMMA EmptySumsAgree == NothingTraded => SumsAgree
<1>0. SUFFICES ASSUME NothingTraded  PROVE SumsAgree
  OBVIOUS
<1>1. PICK u : u = NetUnitsOf
  OBVIOUS
<1>2. PICK c : c = NetCashOf
  OBVIOUS
<1>3. PICK v : v = UnitsOf
  OBVIOUS
<1>4. PICK w : w = CashOf
  OBVIOUS
<1>5. \A k \in NettingKey : u[k] = 0 /\ c[k] = 0
  BY <1>0, <1>1, <1>2 DEF NothingTraded, NetUnitsOf, NetCashOf, AccumulatorOf, Zero
<1>6. \A d \in Direction : v[d] = 0 /\ w[d] = 0
  BY <1>0, <1>3, <1>4 DEF NothingTraded, UnitsOf, CashOf, Zero
<1>7. SUFFICES ASSUME NEW s \in Symbols, NEW a \in Accounts
               PROVE  /\ (KeySum(u, s, a) - TradeSum(v, s, a)) % (2 * Half) = 0
                      /\ KeySum(u, s, a) = TradeSum(v, s, a)
                      /\ KeySum(c, s, a) = TradeSum(w, s, a)
  BY <1>1, <1>2, <1>3, <1>4 DEF SumsAgree
<1>8. /\ KeySum(u, s, a) = 0 /\ TradeSum(v, s, a) = 0
      /\ KeySum(c, s, a) = 0 /\ TradeSum(w, s, a) = 0
  BY <1>5, <1>6, ZeroSums
<1>9. 0 % (2 * Half) = 0
  BY NettingAssumption
<1>10. QED
  BY <1>8, <1>9

LEMMA TermValues ==
    ASSUME NEW k, NEW m \in Int, NEW s, NEW a
    PROVE  KeyTerm(k, m, s, a) \in {m, -m, 0}
BY DEF KeyTerm

LEMMA NoDifference ==
    ASSUME NEW x \in Int, NEW y \in Int, NEW z \in Int, x - y = z - z + 0
    PROVE  x = y
OBVIOUS

LEMMA AddTradeSums ==
    ASSUME TypeOK, SumsAgree, NEW t \in Trade, add_trade(t)
    PROVE  SumsAgree'
<1>1. PICK k : k = KeyOf(t)
  OBVIOUS
<1>2. PICK q : q = t.quantity
  OBVIOUS
<1>3. PICK v : v = t.price * t.quantity
  OBVIOUS
<1>4. k \in NettingKey /\ q \in Int /\ v \in Int /\ Sign(t) * q \in Int /\ Sign(t) * v \in Int
  BY <1>1, <1>2, <1>3, KeyIsCanonical, TradeAmounts DEF Sign
<1>5. PICK x : x = AccumulatorOf(k).quantity
  OBVIOUS
<1>6. PICK y : y = AccumulatorOf(k).payment
  OBVIOUS
<1>7. x \in Int /\ y \in Int
  BY <1>4, <1>5, <1>6, AccumulatorType
<1>8. PICK i \in Int : Wrap(x + Sign(t) * q) = x + Sign(t) * q + (2 * Half) * i
  BY <1>4, <1>7, WrapShift
<1>9. PICK j \in Int : Wrap(y + Sign(t) * v) = y + Sign(t) * v + (2 * Half) * j
  BY <1>4, <1>7, WrapShift
<1>10. PICK wi : wi = (2 * Half) * i
  OBVIOUS
<1>11. PICK wj : wj = (2 * Half) * j
  OBVIOUS
<1>12. wi \in Int /\ wj \in Int
  BY <1>10, <1>11, NettingAssumption
<1>13. /\ AccumulatorOf(k)'.quantity = x + Sign(t) * q + wi
       /\ AccumulatorOf(k)'.payment = y + Sign(t) * v + wj
       /\ ~wrapped' => ~wrapped /\ wi = 0 /\ wj = 0
  <2>1. Sum(AccumulatorOf(k), t) = [quantity |-> x + Sign(t) * q, payment |-> y + Sign(t) * v]
    BY <1>2, <1>3, <1>5, <1>6 DEF Sum
  <2>2. Accumulate(AccumulatorOf(k), t) = [quantity |-> x + Sign(t) * q + wi,
                                           payment |-> y + Sign(t) * v + wj]
    BY <1>8, <1>9, <1>10, <1>11, <2>1 DEF Accumulate
  <2>3. AccumulatorOf(k)' = Accumulate(AccumulatorOf(k), t)
    BY <1>1, <1>4, TradeMoves
  <2>4. ~wrapped' => ~wrapped /\ Accumulate(AccumulatorOf(k), t) = Sum(AccumulatorOf(k), t)
    BY <1>1 DEF add_trade
  <2>5. ASSUME Accumulate(AccumulatorOf(k), t) = Sum(AccumulatorOf(k), t)
        PROVE  wi = 0 /\ wj = 0
    <3>1. PICK sq : sq = Sign(t) * q
      OBVIOUS
    <3>2. PICK sv : sv = Sign(t) * v
      OBVIOUS
    <3>3. x + sq + wi = x + sq /\ y + sv + wj = y + sv
      BY <2>1, <2>2, <2>5, <3>1, <3>2
    <3>4. sq \in Int /\ sv \in Int
      BY <1>4, <3>1, <3>2
    <3>5. QED
      BY <1>7, <1>12, <3>3, <3>4
  <2>6. QED
    BY <2>2, <2>3, <2>4, <2>5
<1>14. PICK A : A = NetUnitsOf
  OBVIOUS
<1>15. PICK B : B = NetUnitsOf'
  OBVIOUS
<1>16. PICK C : C = NetCashOf
  OBVIOUS
<1>17. PICK D : D = NetCashOf'
  OBVIOUS
<1>18. PICK P : P = UnitsOf
  OBVIOUS
<1>19. PICK Q : Q = UnitsOf'
  OBVIOUS
<1>20. PICK R : R = CashOf
  OBVIOUS
<1>21. PICK S : S = CashOf'
  OBVIOUS
<1>22. \A n \in NettingKey :
          /\ A[n] \in Int /\ B[n] = IF n = KeyOf(t) THEN A[n] + Sign(t) * q + wi ELSE A[n]
          /\ C[n] \in Int /\ D[n] = IF n = KeyOf(t) THEN C[n] + Sign(t) * v + wj ELSE C[n]
  <2>1. SUFFICES ASSUME NEW n \in NettingKey
                 PROVE  /\ A[n] \in Int
                        /\ B[n] = IF n = k THEN A[n] + Sign(t) * q + wi ELSE A[n]
                        /\ C[n] \in Int
                        /\ D[n] = IF n = k THEN C[n] + Sign(t) * v + wj ELSE C[n]
    BY <1>1
  <2>2. /\ A[n] = AccumulatorOf(n).quantity /\ C[n] = AccumulatorOf(n).payment
        /\ B[n] = AccumulatorOf(n)'.quantity /\ D[n] = AccumulatorOf(n)'.payment
    BY <1>14, <1>15, <1>16, <1>17 DEF NetUnitsOf, NetCashOf
  <2>3. A[n] \in Int /\ C[n] \in Int
    BY <2>2, AccumulatorType
  <2>4. CASE n = k
    BY <1>5, <1>6, <1>13, <2>2, <2>3, <2>4
  <2>5. CASE n # k
    BY <1>1, <2>2, <2>3, <2>5, TradeMoves
  <2>6. QED
    BY <2>4, <2>5
<1>23. \A d \in Direction :
          /\ P[d] \in Int /\ Q[d] = IF d = DirectionOf(t) THEN P[d] + q ELSE P[d]
          /\ R[d] \in Int /\ S[d] = IF d = DirectionOf(t) THEN R[d] + v ELSE R[d]
  <2>1. SUFFICES ASSUME NEW d \in Direction
                 PROVE  /\ P[d] \in Int /\ Q[d] = IF d = DirectionOf(t) THEN P[d] + q ELSE P[d]
                        /\ R[d] \in Int /\ S[d] = IF d = DirectionOf(t) THEN R[d] + v ELSE R[d]
    OBVIOUS
  <2>2. /\ P[d] = gross[d].quantity /\ R[d] = gross[d].payment
        /\ Q[d] = gross'[d].quantity /\ S[d] = gross'[d].payment
    BY <1>18, <1>19, <1>20, <1>21 DEF UnitsOf, CashOf
  <2>3. P[d] \in Int /\ R[d] \in Int
    <3>1. gross[d] \in Volume
      BY DEF TypeOK
    <3>2. QED
      BY <2>2, <3>1 DEF Volume
  <2>4. gross'[d] = IF d = DirectionOf(t)
                    THEN [quantity |-> gross[d].quantity + q, payment |-> gross[d].payment + v]
                    ELSE gross[d]
    BY <1>2, <1>3, TradeMoves DEF Record
  <2>5. CASE d = DirectionOf(t)
    BY <2>2, <2>3, <2>4, <2>5
  <2>6. CASE d # DirectionOf(t)
    BY <2>2, <2>3, <2>4, <2>6
  <2>7. QED
    BY <2>5, <2>6
<1>24. SUFFICES ASSUME NEW s \in Symbols, NEW a \in Accounts
                PROVE  /\ (KeySum(B, s, a) - TradeSum(Q, s, a)) % (2 * Half) = 0
                       /\ ~wrapped' => /\ KeySum(B, s, a) = TradeSum(Q, s, a)
                                       /\ KeySum(D, s, a) = TradeSum(S, s, a)
  BY <1>15, <1>17, <1>19, <1>21 DEF SumsAgree, KeySum, TradeSum
<1>25. /\ (KeySum(A, s, a) - TradeSum(P, s, a)) % (2 * Half) = 0
       /\ ~wrapped => /\ KeySum(A, s, a) = TradeSum(P, s, a)
                      /\ KeySum(C, s, a) = TradeSum(R, s, a)
  BY <1>14, <1>16, <1>18, <1>20 DEF SumsAgree
<1>26. /\ KeySum(A, s, a) \in Int /\ KeySum(B, s, a) \in Int
       /\ TradeSum(P, s, a) \in Int /\ TradeSum(Q, s, a) \in Int
       /\ KeySum(B, s, a) - TradeSum(Q, s, a)
            = KeySum(A, s, a) - TradeSum(P, s, a) + KeyTerm(KeyOf(t), wi, s, a)
  <2>1. MoveAlike(A, B, P, Q, t, q, wi)
    BY <1>4, <1>12, <1>22, <1>23 DEF MoveAlike
  <2>2. QED
    BY <2>1, SumsMoveAlike
<1>27. /\ KeySum(C, s, a) \in Int /\ KeySum(D, s, a) \in Int
       /\ TradeSum(R, s, a) \in Int /\ TradeSum(S, s, a) \in Int
       /\ KeySum(D, s, a) - TradeSum(S, s, a)
            = KeySum(C, s, a) - TradeSum(R, s, a) + KeyTerm(KeyOf(t), wj, s, a)
  <2>1. MoveAlike(C, D, R, S, t, v, wj)
    BY <1>4, <1>12, <1>22, <1>23 DEF MoveAlike
  <2>2. QED
    BY <2>1, SumsMoveAlike
<1>28. (KeySum(B, s, a) - TradeSum(Q, s, a)) % (2 * Half) = 0
  <2>1. 2 * Half \in Nat \ {0}
    BY NettingAssumption
  <2>2. PICK x1 \in Int : KeyTerm(KeyOf(t), wi, s, a) = (2 * Half) * x1
    <3>1. PICK M : M = 2 * Half
      OBVIOUS
    <3>2. M \in Int /\ wi = M * i /\ -wi = M * (-i) /\ 0 = M * 0 /\ -i \in Int
      BY <1>10, <2>1, <3>1
    <3>3. KeyTerm(KeyOf(t), wi, s, a) \in {wi, -wi, 0}
      BY <1>12, TermValues
    <3>4. \E x1 \in Int : KeyTerm(KeyOf(t), wi, s, a) = M * x1
      <4>1. CASE KeyTerm(KeyOf(t), wi, s, a) = wi
        BY <3>2, <4>1
      <4>2. CASE KeyTerm(KeyOf(t), wi, s, a) = -wi
        <5>1. KeyTerm(KeyOf(t), wi, s, a) = M * (-i) /\ -i \in Int
          BY <3>2, <4>2
        <5>2. QED
          BY <5>1
      <4>3. CASE KeyTerm(KeyOf(t), wi, s, a) = 0
        <5>1. KeyTerm(KeyOf(t), wi, s, a) = M * 0 /\ 0 \in Int
          BY <3>2, <4>3
        <5>2. QED
          BY <5>1
      <4>4. QED
        BY <3>3, <4>1, <4>2, <4>3
    <3>5. QED
      BY <3>1, <3>4
  <2>3. PICK d0 : d0 = KeySum(A, s, a) - TradeSum(P, s, a)
    OBVIOUS
  <2>4. d0 \in Int /\ d0 % (2 * Half) = 0
    BY <1>25, <1>26, <2>3
  <2>5. (d0 + (2 * Half) * x1) % (2 * Half) = d0 % (2 * Half)
    BY <2>1, <2>4, ModShift
  <2>6. QED
    BY <1>26, <2>2, <2>3, <2>4, <2>5
<1>29. ASSUME ~wrapped'
       PROVE  KeySum(B, s, a) = TradeSum(Q, s, a) /\ KeySum(D, s, a) = TradeSum(S, s, a)
  <2>1. ~wrapped /\ wi = 0 /\ wj = 0
    BY <1>13, <1>29
  <2>2. KeyTerm(KeyOf(t), wi, s, a) = 0 /\ KeyTerm(KeyOf(t), wj, s, a) = 0
    BY <2>1 DEF KeyTerm
  <2>3. KeySum(A, s, a) = TradeSum(P, s, a) /\ KeySum(C, s, a) = TradeSum(R, s, a)
    BY <1>25, <2>1
  <2>4. KeySum(B, s, a) = TradeSum(Q, s, a)
    BY <1>26, <2>2, <2>3, NoDifference
  <2>5. KeySum(D, s, a) = TradeSum(S, s, a)
    BY <1>27, <2>2, <2>3, NoDifference
  <2>6. QED
    BY <2>4, <2>5
<1>30. QED
  BY <1>28, <1>29

LEMMA SumsAlwaysAgree == Spec => []SumsAgree
<1>1. Init => NothingTraded
  BY DEF Init, NothingTraded
<1>2. TypeOK /\ SumsAgree /\ [Next]_vars => SumsAgree' \/ NothingTraded'
  <2>1. SUFFICES ASSUME TypeOK, SumsAgree, [Next]_vars  PROVE SumsAgree' \/ NothingTraded'
    OBVIOUS
  <2>2. ASSUME NEW t \in Trade, AddTrade(t)  PROVE SumsAgree'
    BY <2>1, <2>2, AddTradeSums DEF AddTrade
  <2>3. CASE clear
    BY <2>3 DEF clear, NothingTraded
  <2>4. CASE UNCHANGED vars
    BY <2>1, <2>4 DEF vars, SumsAgree, NetUnitsOf, NetCashOf, UnitsOf, CashOf, AccumulatorOf
  <2>5. QED
    BY <2>1, <2>2, <2>3, <2>4 DEF Next
<1>3. QED
  BY <1>1, <1>2, EmptySumsAgree, TypeCorrect, PTL DEF Spec

-----------------------------------------------------------------------------
(***************************************************************************)
(* From the sums over the keys to the obligations, one for each key that   *)
(* is not balanced.                                                        *)
(***************************************************************************)
LEMMA ObligationsByKey ==
    ASSUME TypeOK, NEW f, NEW g,
           \A k \in Unbalanced : f[k] \in Int /\ f[k] = g[ObligationOf(k, accumulators[k])]
    PROVE  SumFunctionOnSet(f, Unbalanced) = SumFunctionOnSet(g, compute_net)
<1>1. PICK U : U = Unbalanced
  OBVIOUS
<1>2. PICK N : N = compute_net
  OBVIOUS
<1>3. PICK e : e = [k \in U |-> ObligationOf(k, accumulators[k])]
  OBVIOUS
<1>4. U \in SUBSET NettingKey
  BY <1>1, UnbalancedKey
<1>5. IsFiniteSet(U)
  BY <1>4, FinitelyMany, FS_Subset
<1>6. e \in [U -> N] /\ \A ob \in N : \E k \in U : e[k] = ob
  BY <1>1, <1>2, <1>3 DEF compute_net
<1>7. IsFiniteSet(N)
  BY <1>5, <1>6, FiniteImage
<1>8. \A k, j \in U : e[k] = e[j] => k = j
  <2>1. SUFFICES ASSUME NEW k \in U, NEW j \in U, e[k] = e[j]  PROVE k = j
    OBVIOUS
  <2>2. PICK ob : ob = e[k]
    OBVIOUS
  <2>3. /\ ob = ObligationOf(k, accumulators[k]) /\ ob = ObligationOf(j, accumulators[j])
        /\ k \in Unbalanced /\ j \in Unbalanced
    BY <1>1, <1>3, <2>1, <2>2
  <2>4. QED
    BY <2>3, OneObligationPerKey
<1>9. \A k \in U : f[k] \in Int /\ f[k] = g[e[k]]
  BY <1>1, <1>3
<1>10. SumFunctionOnSet(f, U) = SumFunctionOnSet(g, N)
  BY <1>5, <1>6, <1>7, <1>8, <1>9, SumRenamed
<1>11. QED
  BY <1>1, <1>2, <1>10

(***************************************************************************)
(* The signed quantity that an obligation delivers to lo.                  *)
(***************************************************************************)
CastOf(q) == IF q > 0 THEN q % QuantityMod ELSE -((-q) % QuantityMod)

LEMMA CastShift ==
    ASSUME NEW q \in Int
    PROVE  /\ CastOf(q) \in Int
           /\ \E m \in Int : q = CastOf(q) + QuantityMod * m
           /\ q \in -QuantityMod + 1 .. QuantityMod - 1 => CastOf(q) = q
<1>1. QuantityMod \in Nat \ {0} /\ -q \in Int
  BY NettingAssumption
<1>2. CASE q > 0
  <2>1. PICK r : r = q % QuantityMod
    OBVIOUS
  <2>2. PICK m : m = q \div QuantityMod
    OBVIOUS
  <2>3. r \in 0 .. QuantityMod - 1 /\ m \in Int /\ q = QuantityMod * m + r
    BY <1>1, <2>1, <2>2, DivMod
  <2>4. CastOf(q) = r
    BY <1>2, <2>1 DEF CastOf
  <2>5. QuantityMod * m \in Int
    BY <1>1, <2>3
  <2>6. r \in Int /\ q = r + QuantityMod * m
    BY <1>1, <2>3, <2>5
  <2>7. q \in 0 .. QuantityMod - 1 => r = q
    BY <1>1, <2>1
  <2>8. q \in -QuantityMod + 1 .. QuantityMod - 1 => q \in 0 .. QuantityMod - 1
    BY <1>1, <1>2
  <2>9. QED
    BY <2>3, <2>4, <2>6, <2>7, <2>8
<1>3. CASE ~(q > 0)
  <2>1. PICK r : r = (-q) % QuantityMod
    OBVIOUS
  <2>2. PICK m : m = (-q) \div QuantityMod
    OBVIOUS
  <2>3. r \in 0 .. QuantityMod - 1 /\ m \in Int /\ -q = QuantityMod * m + r
    BY <1>1, <2>1, <2>2, DivMod
  <2>4. CastOf(q) = -r
    BY <1>3, <2>1 DEF CastOf
  <2>5. QuantityMod * m \in Int /\ QuantityMod * (-m) = -(QuantityMod * m) /\ -m \in Int
    BY <1>1, <2>3
  <2>6. -r \in Int /\ q = -r + QuantityMod * (-m)
    BY <1>1, <2>3, <2>5
  <2>7. -q \in 0 .. QuantityMod - 1 => r = -q
    BY <1>1, <2>1
  <2>8. q \in -QuantityMod + 1 .. QuantityMod - 1 => -q \in 0 .. QuantityMod - 1
    BY <1>1, <1>3
  <2>9. q \in -QuantityMod + 1 .. QuantityMod - 1 => -r = q
    BY <1>1, <2>3, <2>7, <2>8
  <2>10. QED
    BY <2>4, <2>5, <2>6, <2>9
<1>4. QED
  BY <1>2, <1>3

\* q is r and m times M.
Split(q, r, M, m) == r \in Int /\ M \in Int /\ m \in Int /\ q = r + M * m

LEMMA TermLinear ==
    ASSUME NEW k, NEW s, NEW a, NEW r, NEW M, NEW m, NEW q, Split(q, r, M, m)
    PROVE  KeyTerm(k, q, s, a) = KeyTerm(k, r, s, a) + M * KeyTerm(k, m, s, a)
<1>0. r \in Int /\ M \in Int /\ m \in Int /\ q = r + M * m
  BY DEF Split
<1>1. PICK p : p = M * m
  OBVIOUS
<1>2. p \in Int /\ M * (-m) = -p /\ M * 0 = 0 /\ q = r + p
  BY <1>0, <1>1
<1>3. CASE k.symbol = s /\ k.lo = a /\ k.hi # a
  <2>1. KeyTerm(k, q, s, a) = q /\ KeyTerm(k, r, s, a) = r /\ KeyTerm(k, m, s, a) = m
    BY <1>0, <1>2, <1>3 DEF KeyTerm
  <2>2. QED
    BY <1>0, <1>1, <1>2, <2>1
<1>4. CASE k.symbol = s /\ k.lo # a /\ k.hi = a
  <2>1. KeyTerm(k, q, s, a) = -q /\ KeyTerm(k, r, s, a) = -r /\ KeyTerm(k, m, s, a) = -m
    BY <1>0, <1>2, <1>4 DEF KeyTerm
  <2>2. -q = -r + (-p)
    BY <1>0, <1>2
  <2>3. QED
    BY <1>0, <1>2, <2>1, <2>2
<1>5. CASE ~(k.symbol = s /\ k.lo = a /\ k.hi # a) /\ ~(k.symbol = s /\ k.lo # a /\ k.hi = a)
  <2>1. KeyTerm(k, q, s, a) = 0 /\ KeyTerm(k, r, s, a) = 0 /\ KeyTerm(k, m, s, a) = 0
    BY <1>0, <1>2, <1>5 DEF KeyTerm
  <2>2. QED
    BY <1>0, <1>2, <2>1
<1>6. QED
  BY <1>3, <1>4, <1>5

LEMMA TradedIsTradeSum ==
    ASSUME TypeOK, NEW s, NEW a
    PROVE  /\ TradedUnits(s, a) = TradeSum(UnitsOf, s, a)
           /\ TradedCash(s, a) = -TradeSum(CashOf, s, a)
<1>1. PICK T : T = {dir \in Direction : dir.symbol = s}
  OBVIOUS
<1>2. PICK u : u = [d \in Direction |-> TradeTerm(d, UnitsOf[d], s, a)]
  OBVIOUS
<1>3. PICK c : c = [d \in Direction |-> TradeTerm(d, CashOf[d], s, a)]
  OBVIOUS
<1>4. PICK f : f = [d \in T |-> (IF d.buyer = a THEN gross[d].quantity ELSE 0)
                            - (IF d.seller = a THEN gross[d].quantity ELSE 0)]
  OBVIOUS
<1>5. PICK g : g = [d \in T |-> (IF d.seller = a THEN gross[d].payment ELSE 0)
                            - (IF d.buyer = a THEN gross[d].payment ELSE 0)]
  OBVIOUS
<1>6. T \in SUBSET Direction /\ IsFiniteSet(Direction) /\ IsFiniteSet(T)
  BY <1>1, FinitelyMany, FS_Subset
<1>7. \A d \in Direction : /\ gross[d].quantity \in Int /\ gross[d].payment \in Int
                            /\ UnitsOf[d] = gross[d].quantity /\ CashOf[d] = gross[d].payment
  <2>1. SUFFICES ASSUME NEW d \in Direction
                 PROVE  /\ gross[d].quantity \in Int /\ gross[d].payment \in Int
                        /\ UnitsOf[d] = gross[d].quantity /\ CashOf[d] = gross[d].payment
    OBVIOUS
  <2>2. gross[d] \in Volume
    BY DEF TypeOK
  <2>3. QED
    BY <2>2 DEF Volume, UnitsOf, CashOf
<1>8. \A d \in Direction : u[d] \in Int /\ c[d] \in Int
  BY <1>2, <1>3, <1>7, TermType
<1>9. \A d \in Direction \ T : u[d] = 0 /\ c[d] = 0
  BY <1>1, <1>2, <1>3 DEF TradeTerm
<1>10. \A d \in T : f[d] = u[d]
  BY <1>1, <1>2, <1>4, <1>7 DEF TradeTerm
<1>11. \A d \in T : c[d] \in Int /\ g[d] = -c[d]
  <2>1. SUFFICES ASSUME NEW d \in T  PROVE c[d] \in Int /\ g[d] = -c[d]
    OBVIOUS
  <2>2. PICK x : x = gross[d].payment
    OBVIOUS
  <2>3. x \in Int /\ d \in Direction /\ d.symbol = s
    BY <1>1, <1>7, <2>1, <2>2
  <2>4. /\ c[d] = (IF d.buyer = a THEN x ELSE 0) - (IF d.seller = a THEN x ELSE 0)
        /\ g[d] = (IF d.seller = a THEN x ELSE 0) - (IF d.buyer = a THEN x ELSE 0)
    BY <1>3, <1>5, <1>7, <2>2, <2>3 DEF TradeTerm
  <2>5. QED
    BY <2>3, <2>4
<1>12. /\ SumFunctionOnSet(u, Direction) = SumFunctionOnSet(u, T)
       /\ SumFunctionOnSet(c, Direction) = SumFunctionOnSet(c, T)
  BY <1>6, <1>8, <1>9, SumOverSupport
<1>13. SumFunctionOnSet(f, T) = SumFunctionOnSet(u, T)
  BY <1>6, <1>10, SumSame
<1>14. SumFunctionOnSet(g, T) = -SumFunctionOnSet(c, T)
  BY <1>6, <1>11, SumNegated
<1>15. TradedUnits(s, a) = SumFunctionOnSet(f, T) /\ TradedCash(s, a) = SumFunctionOnSet(g, T)
  BY <1>1, <1>4, <1>5 DEF TradedUnits, TradedCash, SumFunction
<1>16. QED
  BY <1>2, <1>3, <1>12, <1>13, <1>14, <1>15 DEF TradeSum

(***************************************************************************)
(* What the obligations give an account is what the keys give it, with the *)
(* quantities cast; and the other way round for the payments, as long as   *)
(* none of them saturates.                                                 *)
(***************************************************************************)
LEMMA OwedUnits ==
    ASSUME TypeOK, NEW s, NEW a, NEW f,
           \A k \in Unbalanced : f[k] = KeyTerm(k, CastOf(accumulators[k].quantity), s, a)
    PROVE  NetUnits(Obligations, s, a) = SumFunctionOnSet(f, Unbalanced)
<1>1. PICK g : g = [ob \in compute_net |->
                      IF ob.symbol = s
                      THEN Into(ob, a, ob.net_quantity) - OutOf(ob, a, ob.net_quantity)
                      ELSE 0]
  OBVIOUS
<1>2. NetUnits(Obligations, s, a) = SumFunctionOnSet(g, compute_net)
  BY <1>1 DEF NetUnits, Total, Obligations, SumFunction
<1>3. ASSUME NEW k \in Unbalanced
      PROVE  f[k] \in Int /\ f[k] = g[ObligationOf(k, accumulators[k])]
  <2>1. PICK q : q = accumulators[k].quantity
    OBVIOUS
  <2>2. PICK ob : ob = ObligationOf(k, accumulators[k])
    OBVIOUS
  <2>3. q \in Int /\ CastOf(q) \in Int /\ ob \in compute_net
    BY <2>1, <2>2, UnbalancedKey, CastShift DEF compute_net
  <2>4. PICK r : r = CastOf(q)
    OBVIOUS
  <2>5. r \in Int /\ f[k] = KeyTerm(k, r, s, a)
    BY <2>1, <2>3, <2>4
  <2>6. g[ob] = KeyTerm(k, r, s, a)
    <3>1. g[ob] = IF ob.symbol = s
                  THEN (IF ob.receiver = a THEN ob.net_quantity ELSE 0)
                     - (IF ob.deliverer = a THEN ob.net_quantity ELSE 0)
                  ELSE 0
      BY <1>1, <2>3 DEF Into, OutOf
    <3>2. CASE q > 0
      <4>1. ob.symbol = k.symbol /\ ob.receiver = k.lo /\ ob.deliverer = k.hi /\ ob.net_quantity = r
        BY <2>1, <2>2, <2>4, <3>2, ObligationShape DEF CastOf
      <4>2. QED
        BY <3>1, <4>1 DEF KeyTerm
    <3>3. CASE ~(q > 0)
      <4>1. PICK n : n = (-q) % QuantityMod
        OBVIOUS
      <4>2. ob.symbol = k.symbol /\ ob.receiver = k.hi /\ ob.deliverer = k.lo /\ ob.net_quantity = n
        BY <2>1, <2>2, <3>3, <4>1, ObligationShape
      <4>3. r = -n /\ n \in Int
        <5>1. -q \in Int /\ QuantityMod \in Nat \ {0}
          BY <2>3, NettingAssumption
        <5>2. QED
          BY <2>4, <3>3, <4>1, <5>1, DivMod DEF CastOf
      <4>4. /\ KeyTerm(k, r, s, a) = IF k.symbol = s
                                     THEN (IF k.lo = a THEN -n ELSE 0) - (IF k.hi = a THEN -n ELSE 0)
                                     ELSE 0
            /\ g[ob] = IF k.symbol = s
                       THEN (IF k.hi = a THEN n ELSE 0) - (IF k.lo = a THEN n ELSE 0)
                       ELSE 0
        BY <3>1, <4>2, <4>3 DEF KeyTerm
      <4>5. QED
        BY <4>3, <4>4
    <3>4. QED
      BY <3>2, <3>3
  <2>7. KeyTerm(k, r, s, a) \in Int
    BY <2>5, TermType
  <2>8. QED
    BY <2>2, <2>5, <2>6, <2>7
<1>4. SumFunctionOnSet(f, Unbalanced) = SumFunctionOnSet(g, compute_net)
  BY <1>3, ObligationsByKey
<1>5. QED
  BY <1>2, <1>4

LEMMA OwedCash ==
    ASSUME TypeOK, NEW s, NEW a, NEW f,
           \A k \in Unbalanced : accumulators[k].payment \in -PaymentMax .. PaymentMax,
           \A k \in Unbalanced : f[k] = KeyTerm(k, accumulators[k].payment, s, a)
    PROVE  NetCash(Obligations, s, a) = -SumFunctionOnSet(f, Unbalanced)
<1>1. PICK g : g = [ob \in compute_net |->
                      IF ob.symbol = s
                      THEN OutOf(ob, a, ob.net_payment) - Into(ob, a, ob.net_payment)
                      ELSE 0]
  OBVIOUS
<1>2. NetCash(Obligations, s, a) = SumFunctionOnSet(g, compute_net)
  BY <1>1 DEF NetCash, Total, Obligations, SumFunction
<1>3. PICK h : h = [k \in Unbalanced |-> -f[k]]
  OBVIOUS
<1>4. ASSUME NEW k \in Unbalanced
      PROVE  /\ f[k] \in Int /\ h[k] = -f[k]
             /\ h[k] \in Int /\ h[k] = g[ObligationOf(k, accumulators[k])]
  <2>1. PICK q : q = accumulators[k].quantity
    OBVIOUS
  <2>2. PICK p : p = accumulators[k].payment
    OBVIOUS
  <2>3. PICK ob : ob = ObligationOf(k, accumulators[k])
    OBVIOUS
  <2>4. p \in Int /\ -p \in Int /\ f[k] = KeyTerm(k, p, s, a) /\ ob \in compute_net
    BY <2>2, <2>3, UnbalancedKey DEF compute_net
  <2>5. /\ p \in -PaymentMax .. PaymentMax /\ -p \in -PaymentMax .. PaymentMax
        /\ -p \in Signed
    <3>1. PaymentMax \in Nat /\ PaymentMax < Half /\ Half \in Nat
      BY NettingAssumption
    <3>2. p \in -PaymentMax .. PaymentMax
      BY <2>2
    <3>3. QED
      BY <2>4, <3>1, <3>2 DEF Signed
  <2>6. saturating_i128_to_i64(p) = p /\ saturating_i128_to_i64(Wrap(-p)) = -p
    <3>1. Wrap(-p) = -p
      BY <2>4, <2>5, WrapType
    <3>2. ASSUME NEW n \in -PaymentMax .. PaymentMax  PROVE saturating_i128_to_i64(n) = n
      BY NettingAssumption DEF saturating_i128_to_i64
    <3>3. QED
      BY <2>5, <3>1, <3>2
  <2>7. g[ob] = IF ob.symbol = s
                THEN (IF ob.deliverer = a THEN ob.net_payment ELSE 0)
                   - (IF ob.receiver = a THEN ob.net_payment ELSE 0)
                ELSE 0
    BY <1>1, <2>4 DEF Into, OutOf
  <2>8. PICK t : t = KeyTerm(k, p, s, a)
    OBVIOUS
  <2>9. t \in Int /\ -t \in Int
    BY <2>4, <2>8, TermType
  <2>10. g[ob] = -t
    <3>1. t = IF k.symbol = s
              THEN (IF k.lo = a THEN p ELSE 0) - (IF k.hi = a THEN p ELSE 0) ELSE 0
      BY <2>8 DEF KeyTerm
    <3>2. CASE q > 0
      <4>1. /\ ob.symbol = k.symbol /\ ob.receiver = k.lo /\ ob.deliverer = k.hi
            /\ ob.net_payment = p
        BY <2>1, <2>2, <2>3, <2>6, <3>2 DEF ObligationOf, NetObligation
      <4>2. g[ob] = IF k.symbol = s
                    THEN (IF k.hi = a THEN p ELSE 0) - (IF k.lo = a THEN p ELSE 0) ELSE 0
        BY <2>7, <4>1
      <4>3. QED
        BY <2>4, <3>1, <4>2
    <3>3. CASE ~(q > 0)
      <4>1. /\ ob.symbol = k.symbol /\ ob.receiver = k.hi /\ ob.deliverer = k.lo
            /\ ob.net_payment = -p
        BY <2>1, <2>2, <2>3, <2>6, <3>3 DEF ObligationOf, NetObligation
      <4>2. g[ob] = IF k.symbol = s
                    THEN (IF k.lo = a THEN -p ELSE 0) - (IF k.hi = a THEN -p ELSE 0) ELSE 0
        BY <2>7, <4>1
      <4>3. QED
        BY <2>4, <3>1, <4>2
    <3>4. QED
      BY <3>2, <3>3
  <2>11. f[k] = t /\ h[k] = -t
    BY <1>3, <2>4, <2>8
  <2>12. QED
    BY <2>3, <2>9, <2>10, <2>11
<1>5. IsFiniteSet(Unbalanced)
  <2>1. Unbalanced \in SUBSET NettingKey
    BY UnbalancedKey
  <2>2. QED
    BY <2>1, FinitelyMany, FS_Subset
<1>6. SumFunctionOnSet(h, Unbalanced) = SumFunctionOnSet(g, compute_net)
  BY <1>4, ObligationsByKey
<1>7. SumFunctionOnSet(h, Unbalanced) = -SumFunctionOnSet(f, Unbalanced)
  BY <1>4, <1>5, SumNegated
<1>8. QED
  BY <1>2, <1>6, <1>7

(***************************************************************************)
(* The keys that are balanced give nobody any units.                       *)
(***************************************************************************)
LEMMA UnitsOfUnbalanced ==
    ASSUME TypeOK, NEW s, NEW a, NEW f,
           \A k \in Unbalanced : f[k] = KeyTerm(k, accumulators[k].quantity, s, a)
    PROVE  /\ IsFiniteSet(Unbalanced)
           /\ \A k \in Unbalanced : f[k] \in Int
           /\ KeySum(NetUnitsOf, s, a) = SumFunctionOnSet(f, Unbalanced)
<1>1. PICK g : g = [k \in NettingKey |-> KeyTerm(k, NetUnitsOf[k], s, a)]
  OBVIOUS
<1>2. PICK U : U = Unbalanced
  OBVIOUS
<1>3. U \in SUBSET NettingKey /\ IsFiniteSet(NettingKey) /\ IsFiniteSet(U)
  BY <1>2, UnbalancedKey, FinitelyMany, FS_Subset
<1>4. \A k \in NettingKey : g[k] \in Int
  BY <1>1, AccumulatorType, TermType DEF NetUnitsOf
<1>5. \A k \in NettingKey \ U : g[k] = 0
  <2>1. SUFFICES ASSUME NEW k \in NettingKey, k \notin Unbalanced  PROVE g[k] = 0
    BY <1>2
  <2>2. AccumulatorOf(k).quantity = 0
    BY <2>1 DEF AccumulatorOf, Unbalanced, Zero
  <2>3. QED
    BY <1>1, <2>2 DEF NetUnitsOf, KeyTerm
<1>6. \A k \in U : f[k] = g[k]
  BY <1>1, <1>2, UnbalancedKey DEF NetUnitsOf
<1>7. SumFunctionOnSet(g, NettingKey) = SumFunctionOnSet(g, U)
  BY <1>3, <1>4, <1>5, SumOverSupport
<1>8. SumFunctionOnSet(f, U) = SumFunctionOnSet(g, U)
  BY <1>3, <1>6, SumSame
<1>9. KeySum(NetUnitsOf, s, a) = SumFunctionOnSet(g, NettingKey)
  BY <1>1 DEF KeySum
<1>10. QED
  BY <1>2, <1>3, <1>4, <1>6, <1>7, <1>8, <1>9

LEMMA DeliveriesOfState ==
    ASSUME TypeOK, SumsAgree, NEW s \in Symbols, NEW a \in Accounts,
           NEW owed, owed = NetUnits(Obligations, s, a),
           NEW traded, traded = TradedUnits(s, a)
    PROVE  /\ (owed - traded) % QuantityMod = 0
           /\ (/\ ~wrapped
               /\ \A k \in DOMAIN accumulators :
                     accumulators[k].quantity \in -QuantityMod + 1 .. QuantityMod - 1)
                 => owed = traded
<1>1. PICK U : U = Unbalanced
  OBVIOUS
<1>2. PICK f : f = [k \in U |-> KeyTerm(k, accumulators[k].quantity, s, a)]
  OBVIOUS
<1>3. PICK g : g = [k \in U |-> KeyTerm(k, CastOf(accumulators[k].quantity), s, a)]
  OBVIOUS
<1>4. PICK m : m = [k \in U |-> CHOOSE x \in Int :
           accumulators[k].quantity = CastOf(accumulators[k].quantity) + QuantityMod * x]
  OBVIOUS
<1>5. PICK h : h = [k \in U |-> KeyTerm(k, m[k], s, a)]
  OBVIOUS
<1>6. PICK keys : keys = KeySum(NetUnitsOf, s, a)
  OBVIOUS
<1>7. /\ IsFiniteSet(U) /\ \A k \in U : f[k] \in Int
      /\ keys = SumFunctionOnSet(f, U)
  BY <1>1, <1>2, <1>6, UnitsOfUnbalanced
<1>8. owed = SumFunctionOnSet(g, U)
  BY <1>1, <1>3, OwedUnits
<1>9. /\ traded = TradeSum(UnitsOf, s, a)
      /\ (keys - traded) % (2 * Half) = 0
      /\ ~wrapped => keys = traded
  BY <1>6, TradedIsTradeSum DEF SumsAgree
<1>10. ASSUME NEW k \in U
       PROVE  /\ g[k] \in Int /\ h[k] \in Int /\ f[k] = g[k] + QuantityMod * h[k]
              /\ accumulators[k].quantity \in -QuantityMod + 1 .. QuantityMod - 1 => g[k] = f[k]
  <2>1. PICK q : q = accumulators[k].quantity
    OBVIOUS
  <2>2. PICK r : r = CastOf(q)
    OBVIOUS
  <2>3. PICK x : x = m[k]
    OBVIOUS
  <2>4. q \in Int /\ k \in Unbalanced
    BY <1>1, <1>10, <2>1, UnbalancedKey
  <2>5. /\ r \in Int /\ \E y \in Int : q = r + QuantityMod * y
        /\ q \in -QuantityMod + 1 .. QuantityMod - 1 => r = q
    BY <2>2, <2>4, CastShift
  <2>6. x \in Int /\ q = r + QuantityMod * x
    <3>1. x = CHOOSE y \in Int : q = r + QuantityMod * y
      BY <1>4, <1>10, <2>1, <2>2, <2>3
    <3>2. QED
      BY <2>5, <3>1
  <2>7. /\ f[k] = KeyTerm(k, q, s, a) /\ g[k] = KeyTerm(k, r, s, a)
        /\ h[k] = KeyTerm(k, x, s, a)
    BY <1>2, <1>3, <1>5, <1>10, <2>1, <2>2, <2>3
  <2>8. QuantityMod \in Int
    BY NettingAssumption
  <2>9. KeyTerm(k, q, s, a) = KeyTerm(k, r, s, a) + QuantityMod * KeyTerm(k, x, s, a)
    <3>1. Split(q, r, QuantityMod, x)
      BY <2>5, <2>6, <2>8 DEF Split
    <3>2. QED
      BY <3>1, TermLinear
  <2>10. g[k] \in Int /\ h[k] \in Int
    BY <2>5, <2>6, <2>7, TermType
  <2>11. QED
    BY <2>1, <2>5, <2>7, <2>9, <2>10
<1>11. PICK quotients : quotients = SumFunctionOnSet(h, U)
  OBVIOUS
<1>12. PICK M : M = QuantityMod
  OBVIOUS
<1>13. M \in Nat \ {0} /\ M \in Int
  BY <1>12, NettingAssumption
<1>14. keys = owed + M * quotients
  <2>1. \A k \in U : f[k] \in Int /\ g[k] \in Int /\ h[k] \in Int /\ f[k] = g[k] + M * h[k]
    BY <1>7, <1>10, <1>12
  <2>2. SumFunctionOnSet(f, U) = SumFunctionOnSet(g, U) + M * SumFunctionOnSet(h, U)
    BY <1>7, <1>13, <2>1, SumOfMultiples
  <2>3. QED
    BY <1>7, <1>8, <1>11, <2>2
<1>15. owed \in Int /\ quotients \in Int /\ keys \in Int
  <2>1. /\ \A k \in U : g[k] \in Int
        /\ \A k \in U : h[k] \in Int
    BY <1>10
  <2>2. QED
    BY <1>7, <1>8, <1>11, <2>1, SumType
<1>16. traded \in Int
  <2>1. PICK T : T = [d \in Direction |-> TradeTerm(d, UnitsOf[d], s, a)]
    OBVIOUS
  <2>2. \A d \in Direction : T[d] \in Int
    <3>1. SUFFICES ASSUME NEW d \in Direction  PROVE T[d] \in Int
      OBVIOUS
    <3>2. gross[d] \in Volume /\ UnitsOf[d] = gross[d].quantity
      BY DEF TypeOK, UnitsOf
    <3>3. UnitsOf[d] \in Int
      BY <3>2 DEF Volume
    <3>4. QED
      BY <2>1, <3>3, TermType
  <2>3. SumFunctionOnSet(T, Direction) \in Int
    BY <2>2, FinitelyMany, SumType
  <2>4. QED
    BY <1>9, <2>1, <2>3 DEF TradeSum
<1>17. (owed - traded) % M = 0
  <2>1. PICK W : W = 2 * Half
    OBVIOUS
  <2>2. PICK d : d = keys - traded
    OBVIOUS
  <2>3. W \in Nat \ {0} /\ W \in Int /\ W % M = 0 /\ d \in Int /\ d % W = 0
    BY <1>9, <1>12, <1>15, <1>16, <2>1, <2>2, NettingAssumption
  <2>4. PICK c \in Int : W = M * c
    BY <1>13, <2>3, ModZero
  <2>5. PICK b \in Int : d = W * b
    BY <2>3, ModZero
  <2>6. /\ (M * c) * b = M * (c * b) /\ c * b \in Int
        /\ M * (c * b) \in Int /\ M * quotients \in Int
        /\ M * (c * b - quotients) = M * (c * b) - M * quotients
    BY <1>13, <1>15, <2>4, <2>5
  <2>7. keys - traded = M * (c * b)
    BY <2>2, <2>4, <2>5, <2>6
  <2>8. PICK z : z = c * b - quotients
    OBVIOUS
  <2>9. z \in Int
    BY <1>15, <2>6, <2>8
  <2>10. PICK diff : diff = owed - traded
    OBVIOUS
  <2>11. diff = M * z
    BY <1>14, <1>15, <1>16, <2>6, <2>7, <2>8, <2>10
  <2>12. diff \in Int
    BY <1>15, <1>16, <2>10
  <2>13. diff % M = 0
    BY <1>13, <2>9, <2>11, <2>12, ModZero
  <2>14. QED
    BY <2>10, <2>13
<1>18. ASSUME ~wrapped,
              \A k \in DOMAIN accumulators :
                  accumulators[k].quantity \in -QuantityMod + 1 .. QuantityMod - 1
       PROVE  owed = traded
  <2>1. \A k \in U : f[k] = g[k]
    BY <1>1, <1>10, <1>18, UnbalancedKey
  <2>2. SumFunctionOnSet(f, U) = SumFunctionOnSet(g, U)
    BY <1>7, <2>1, SumSame
  <2>3. QED
    BY <1>7, <1>8, <1>9, <1>18, <2>2
<1>19. QED
  BY <1>12, <1>17, <1>18

(***************************************************************************)
(* Deliveries are preserved by netting, for any trades in any order, and   *)
(* even where an accumulator wraps around, up to the width of              *)
(* net_quantity.                                                           *)
(***************************************************************************)
THEOREM NettingPreservesDeliveries == Spec => []DeliveriesPreserved
<1>1. TypeOK /\ SumsAgree => DeliveriesPreserved
  <2>1. SUFFICES ASSUME TypeOK, SumsAgree, NEW s \in Symbols, NEW a \in Accounts
                 PROVE  /\ (NetUnits(Obligations, s, a) - TradedUnits(s, a)) % QuantityMod = 0
                        /\ (/\ ~wrapped
                            /\ \A k \in DOMAIN accumulators :
                                  accumulators[k].quantity \in -QuantityMod + 1 .. QuantityMod - 1)
                              => NetUnits(Obligations, s, a) = TradedUnits(s, a)
    BY DEF DeliveriesPreserved
  <2>2. PICK owed : owed = NetUnits(Obligations, s, a)
    OBVIOUS
  <2>3. PICK traded : traded = TradedUnits(s, a)
    OBVIOUS
  <2>4. QED
    BY <2>1, <2>2, <2>3, DeliveriesOfState
<1>2. QED
  BY <1>1, TypeCorrect, SumsAlwaysAgree, PTL

(***************************************************************************)
(* The cash of the keys is that of the unbalanced and that of the flat.    *)
(***************************************************************************)
FlatPairs(s) == {key \in DOMAIN accumulators \ Unbalanced : key.symbol = s}

KeyCash(K, s, a) ==
    SumFunctionOnSet([k \in K |-> KeyTerm(k, accumulators[k].payment, s, a)], K)

LEMMA CashOfKeys ==
    ASSUME TypeOK, NEW s, NEW a
    PROVE  /\ IsFiniteSet(FlatPairs(s))
           /\ \A k \in FlatPairs(s) : accumulators[k].payment \in Int
           /\ KeyCash(Unbalanced, s, a) \in Int /\ KeyCash(FlatPairs(s), s, a) \in Int
           /\ KeySum(NetCashOf, s, a) = KeyCash(Unbalanced, s, a) + KeyCash(FlatPairs(s), s, a)
<1>0. PICK F : F = FlatPairs(s)
  OBVIOUS
<1>1. PICK U : U = Unbalanced
  OBVIOUS
<1>2. PICK g : g = [k \in NettingKey |-> KeyTerm(k, NetCashOf[k], s, a)]
  OBVIOUS
<1>3. PICK D : D = U \cup F
  OBVIOUS
<1>4. /\ U \in SUBSET NettingKey /\ F \in SUBSET NettingKey /\ D \in SUBSET NettingKey
      /\ U \cap F = {}
  BY <1>0, <1>1, <1>3, UnbalancedKey DEF TypeOK, FlatPairs
<1>5. IsFiniteSet(NettingKey) /\ IsFiniteSet(U) /\ IsFiniteSet(F)
  BY <1>4, FinitelyMany, FS_Subset
<1>6. \A k \in NettingKey : g[k] \in Int
  BY <1>2, AccumulatorType, TermType DEF NetCashOf
<1>7. \A k \in NettingKey \ D : g[k] = 0
  <2>1. SUFFICES ASSUME NEW k \in NettingKey, k \notin U, k \notin F  PROVE g[k] = 0
    BY <1>3
  <2>2. CASE k \in DOMAIN accumulators
    <3>1. k.symbol # s
      BY <1>0, <1>1, <2>1, <2>2 DEF FlatPairs
    <3>2. QED
      BY <1>2, <3>1 DEF KeyTerm
  <2>3. CASE k \notin DOMAIN accumulators
    <3>1. AccumulatorOf(k).payment = 0
      BY <2>3 DEF AccumulatorOf, Zero
    <3>2. QED
      BY <1>2, <3>1 DEF NetCashOf, KeyTerm
  <2>4. QED
    BY <2>2, <2>3
<1>8. PICK f : f = [k \in U |-> KeyTerm(k, accumulators[k].payment, s, a)]
  OBVIOUS
<1>9. PICK h : h = [k \in F |-> KeyTerm(k, accumulators[k].payment, s, a)]
  OBVIOUS
<1>10. (\A k \in U : f[k] = g[k]) /\ (\A k \in F : h[k] = g[k])
  <2>1. ASSUME NEW k \in U  PROVE f[k] = g[k]
    <3>1. k \in NettingKey /\ AccumulatorOf(k) = accumulators[k]
      BY <1>1, UnbalancedKey
    <3>2. QED
      BY <1>2, <1>8, <3>1 DEF NetCashOf
  <2>2. ASSUME NEW k \in F  PROVE h[k] = g[k]
    <3>1. k \in NettingKey /\ AccumulatorOf(k) = accumulators[k]
      BY <1>0, <1>4 DEF AccumulatorOf, FlatPairs
    <3>2. QED
      BY <1>2, <1>9, <3>1 DEF NetCashOf
  <2>3. QED
    BY <2>1, <2>2
<1>11. SumFunctionOnSet(g, NettingKey) = SumFunctionOnSet(g, D)
  BY <1>4, <1>5, <1>6, <1>7, SumOverSupport
<1>12. SumFunctionOnSet(g, D) = SumFunctionOnSet(g, U) + SumFunctionOnSet(g, F)
  <2>1. \A k \in U \cup F : g[k] \in Int
    BY <1>4, <1>6
  <2>2. SumFunctionOnSet(g, U \cup F) = SumFunctionOnSet(g, U) + SumFunctionOnSet(g, F)
    BY <1>4, <1>5, <2>1, SumOfUnion
  <2>3. QED
    BY <1>3, <2>2
<1>13. /\ SumFunctionOnSet(f, U) = SumFunctionOnSet(g, U)
       /\ SumFunctionOnSet(h, F) = SumFunctionOnSet(g, F)
  BY <1>5, <1>10, SumSame
<1>14. SumFunctionOnSet(g, U) \in Int /\ SumFunctionOnSet(g, F) \in Int
  <2>1. (\A k \in U : g[k] \in Int) /\ (\A k \in F : g[k] \in Int)
    BY <1>4, <1>6
  <2>2. QED
    BY <1>5, <2>1, SumType
<1>15. KeySum(NetCashOf, s, a) = SumFunctionOnSet(g, NettingKey)
  BY <1>2 DEF KeySum
<1>16. /\ KeyCash(Unbalanced, s, a) = SumFunctionOnSet(f, U)
       /\ KeyCash(FlatPairs(s), s, a) = SumFunctionOnSet(h, F)
  BY <1>0, <1>1, <1>8, <1>9 DEF KeyCash
<1>17. \A k \in FlatPairs(s) : accumulators[k].payment \in Int
  <2>1. SUFFICES ASSUME NEW k \in FlatPairs(s)  PROVE accumulators[k].payment \in Int
    OBVIOUS
  <2>2. k \in NettingKey /\ AccumulatorOf(k) = accumulators[k]
    BY DEF TypeOK, AccumulatorOf, FlatPairs
  <2>3. QED
    BY <2>2, AccumulatorType
<1>18. QED
  BY <1>0, <1>5, <1>11, <1>12, <1>13, <1>14, <1>15, <1>16, <1>17

(***************************************************************************)
(* Cash is preserved by netting but for what flat pairs leave unpaid.      *)
(***************************************************************************)
THEOREM NettingPreservesCash == Spec => []CashPreservedButFlatPairs
<1>1. TypeOK /\ SumsAgree => CashPreservedButFlatPairs
  <2>1. SUFFICES ASSUME TypeOK, SumsAgree, ~wrapped, NEW s \in Symbols, NEW a \in Accounts,
                        \A k \in DOMAIN accumulators :
                            accumulators[k].payment \in -PaymentMax .. PaymentMax
                 PROVE  NetCash(Obligations, s, a) = TradedCash(s, a) - FlatResidual(s, a)
    BY DEF CashPreservedButFlatPairs
  <2>2. PICK F : F = FlatPairs(s)
    OBVIOUS
  <2>3. PICK x : x = KeyCash(Unbalanced, s, a)
    OBVIOUS
  <2>4. PICK y : y = KeyCash(FlatPairs(s), s, a)
    OBVIOUS
  <2>5. /\ IsFiniteSet(F) /\ \A k \in F : accumulators[k].payment \in Int
        /\ x \in Int /\ y \in Int /\ KeySum(NetCashOf, s, a) = x + y
    BY <2>1, <2>2, <2>3, <2>4, CashOfKeys
  <2>6. NetCash(Obligations, s, a) = -x
    <3>1. PICK f : f = [k \in Unbalanced |-> KeyTerm(k, accumulators[k].payment, s, a)]
      OBVIOUS
    <3>2. /\ \A k \in Unbalanced : accumulators[k].payment \in -PaymentMax .. PaymentMax
          /\ \A k \in Unbalanced : f[k] = KeyTerm(k, accumulators[k].payment, s, a)
      BY <2>1, <3>1 DEF Unbalanced
    <3>3. NetCash(Obligations, s, a) = -SumFunctionOnSet(f, Unbalanced)
      BY <2>1, <3>2, OwedCash
    <3>4. QED
      BY <2>3, <3>1, <3>3 DEF KeyCash
  <2>7. TradedCash(s, a) = -(x + y)
    BY <2>1, <2>5, TradedIsTradeSum DEF SumsAgree
  <2>8. FlatResidual(s, a) = -y
    <3>1. PICK h : h = [k \in F |-> KeyTerm(k, accumulators[k].payment, s, a)]
      OBVIOUS
    <3>2. PICK r : r = [k \in F |-> (IF k.hi = a THEN accumulators[k].payment ELSE 0)
                               - (IF k.lo = a THEN accumulators[k].payment ELSE 0)]
      OBVIOUS
    <3>3. FlatResidual(s, a) = SumFunctionOnSet(r, F)
      BY <2>2, <3>2 DEF FlatResidual, FlatPairs, SumFunction
    <3>4. ASSUME NEW k \in F  PROVE h[k] \in Int /\ r[k] = -h[k]
      <4>1. PICK p : p = accumulators[k].payment
        OBVIOUS
      <4>2. p \in Int /\ k.symbol = s
        BY <2>2, <2>5, <4>1 DEF FlatPairs
      <4>3. /\ h[k] = (IF k.lo = a THEN p ELSE 0) - (IF k.hi = a THEN p ELSE 0)
            /\ r[k] = (IF k.hi = a THEN p ELSE 0) - (IF k.lo = a THEN p ELSE 0)
        BY <3>1, <3>2, <4>1, <4>2 DEF KeyTerm
      <4>4. QED
        BY <4>2, <4>3
    <3>5. SumFunctionOnSet(r, F) = -SumFunctionOnSet(h, F)
      BY <2>5, <3>4, SumNegated
    <3>6. y = SumFunctionOnSet(h, F)
      BY <2>2, <2>4, <3>1 DEF KeyCash
    <3>7. QED
      BY <3>3, <3>5, <3>6
  <2>9. -x = -(x + y) - (-y)
    BY <2>5
  <2>10. QED
    BY <2>6, <2>7, <2>8, <2>9
<1>2. QED
  BY <1>1, TypeCorrect, SumsAlwaysAgree, PTL
=============================================================================
