--------------------------- MODULE NettingEngine ---------------------------
(***************************************************************************)
(* The bilateral netting engine (netting.rs): add_trade folds each trade   *)
(* of a netting cycle into one signed accumulator per symbol and unordered *)
(* pair of accounts; compute_net turns the accumulators into obligations;  *)
(* clear starts the next cycle.                                            *)
(*                                                                         *)
(* Every integer keeps its width: the i128 accumulators, which wrap around *)
(* in a release build (Cargo.toml leaves overflow checks off), and the     *)
(* narrower results of compute_net.                                        *)
(***************************************************************************)
EXTENDS Obligations, FiniteSets

CONSTANTS
    Accounts,      \* account ids; the code compares them, so they are numbers
    Symbols,
    Prices,        \* trade.price, an i64: may be negative
    Quantities,    \* trade.quantity, a u64
    QuantityMod,   \* 2^64, the number of values of net_quantity
    PaymentMax,    \* 2^63 - 1, the largest net_payment
    Half,          \* 2^127: an accumulator holds -Half .. Half-1
    MaxTrades      \* bound on the trades of one cycle

Signed == -Half .. Half - 1

\* One trade always fits: |price| <= 2^63 and quantity < 2^64.  2^64 divides 2^128.
ASSUME NettingAssumption ==
    /\ Accounts \subseteq Int
    /\ IsFiniteSet(Accounts) /\ IsFiniteSet(Symbols)
    /\ Prices \subseteq Int
    /\ Quantities \subseteq Nat
    /\ QuantityMod \in Nat \ {0}
    /\ PaymentMax \in Nat
    /\ Half \in Nat \ {0}
    /\ (2 * Half) % QuantityMod = 0
    /\ PaymentMax < Half
    /\ \A p \in Prices, q \in Quantities : p * q \in Signed
    /\ MaxTrades \in Nat

VARIABLES
    accumulators,  \* a function from the keys seen in this cycle
    gross,         \* history: what each buyer bought from each seller, un-netted
    added,         \* history: trades added in this cycle
    wrapped        \* history: an accumulator of this cycle has wrapped around

vars == <<accumulators, gross, added, wrapped>>

Trade == [symbol: Symbols, buyer: Accounts, seller: Accounts,
          price: Prices, quantity: Quantities]

NettingKey == {k \in [symbol: Symbols, lo: Accounts, hi: Accounts] : k.lo <= k.hi}
Direction  == [symbol: Symbols, buyer: Accounts, seller: Accounts]

Accumulator == [quantity: Signed, payment: Signed]
Volume      == [quantity: Nat, payment: Int]
Zero        == [quantity |-> 0, payment |-> 0]

\* Mutant: the pair keeps the order of the trade.
canonical_pair_AsGiven(a, b) == [lo |-> a, hi |-> b]

canonical_pair(a, b) == IF a <= b THEN [lo |-> a, hi |-> b] ELSE [lo |-> b, hi |-> a]

KeyOf(t) == LET pair == canonical_pair(t.buyer, t.seller)
            IN  [symbol |-> t.symbol, lo |-> pair.lo, hi |-> pair.hi]

AccumulatorOf(k) == IF k \in DOMAIN accumulators THEN accumulators[k] ELSE Zero

Init ==
    /\ accumulators = [k \in {} |-> Zero]
    /\ gross = [d \in Direction |-> Zero]
    /\ added = 0
    /\ wrapped = FALSE

Wrap(n) == ((n + Half) % (2 * Half)) - Half

(***************************************************************************)
(* A purchase by lo counts up, a purchase by hi counts down.               *)
(***************************************************************************)
Sign(t) == IF t.buyer = KeyOf(t).lo THEN 1 ELSE -1

\* Mutants: a sale is counted like a purchase, in cash or in units.
Sum_PaymentUnsigned(acc, t) ==
    [quantity |-> acc.quantity + Sign(t) * t.quantity,
     payment  |-> acc.payment + t.price * t.quantity]

Sum_QuantityUnsigned(acc, t) ==
    [quantity |-> acc.quantity + t.quantity,
     payment  |-> acc.payment + Sign(t) * (t.price * t.quantity)]

Sum(acc, t) ==
    [quantity |-> acc.quantity + Sign(t) * t.quantity,
     payment  |-> acc.payment + Sign(t) * (t.price * t.quantity)]

Accumulate(acc, t) ==
    LET sum == Sum(acc, t)
    IN  [quantity |-> Wrap(sum.quantity), payment |-> Wrap(sum.payment)]

Record(d, t) ==
    [quantity |-> gross[d].quantity + t.quantity,
     payment  |-> gross[d].payment + t.price * t.quantity]

add_trade(t) ==
    LET k == KeyOf(t)
        d == [symbol |-> t.symbol, buyer |-> t.buyer, seller |-> t.seller]
    IN  /\ accumulators' = [j \in DOMAIN accumulators \cup {k} |->
                               IF j = k THEN Accumulate(AccumulatorOf(k), t)
                                        ELSE accumulators[j]]
        /\ gross' = [gross EXCEPT ![d] = Record(d, t)]
        /\ wrapped' = (wrapped \/ Accumulate(AccumulatorOf(k), t) # Sum(AccumulatorOf(k), t))

clear ==
    /\ accumulators' = [k \in {} |-> Zero]
    /\ gross' = [d \in Direction |-> Zero]
    /\ added' = 0
    /\ wrapped' = FALSE

AddTrade(t) ==
    /\ added < MaxTrades
    /\ add_trade(t)
    /\ added' = added + 1

Next ==
    \/ \E t \in Trade : AddTrade(t)
    \/ clear

Spec == Init /\ [][Next]_vars

-----------------------------------------------------------------------------
(***************************************************************************)
(* compute_net.  The HashMap is read in an arbitrary order, so the result  *)
(* is a set; it holds at most one obligation per key.  The quantity is     *)
(* cast with `as u64`, which drops high bits; the payment is clamped.      *)
(***************************************************************************)
AsU64(n) == n % QuantityMod

saturating_i128_to_i64(n) ==
    IF n > PaymentMax THEN PaymentMax
    ELSE IF n < -PaymentMax - 1 THEN -PaymentMax - 1
    ELSE n

\* Mutants: the second branch keeps the parties, or the sign of the payment,
\* of the first.
ObligationOf_SameParties(k, acc) ==
    NetObligation(k.symbol, k.hi, k.lo,
                  AsU64(IF acc.quantity > 0 THEN acc.quantity ELSE Wrap(-acc.quantity)),
                  saturating_i128_to_i64(acc.payment))

ObligationOf_PaymentNotNegated(k, acc) ==
    IF acc.quantity > 0
    THEN NetObligation(k.symbol, k.hi, k.lo, AsU64(acc.quantity),
                       saturating_i128_to_i64(acc.payment))
    ELSE NetObligation(k.symbol, k.lo, k.hi, AsU64(Wrap(-acc.quantity)),
                       saturating_i128_to_i64(acc.payment))

ObligationOf(k, acc) ==
    IF acc.quantity > 0
    THEN NetObligation(k.symbol, k.hi, k.lo, AsU64(acc.quantity),
                       saturating_i128_to_i64(acc.payment))
    ELSE NetObligation(k.symbol, k.lo, k.hi, AsU64(Wrap(-acc.quantity)),
                       saturating_i128_to_i64(Wrap(-acc.payment)))

Unbalanced == {k \in DOMAIN accumulators : accumulators[k].quantity # 0}

compute_net == {ObligationOf(k, accumulators[k]) : k \in Unbalanced}

-----------------------------------------------------------------------------
\* Every accumulator is an integer under a key (symbol, lo, hi) with lo before hi.
TypeOK ==
    /\ accumulators \in [DOMAIN accumulators -> Accumulator]
    /\ DOMAIN accumulators \subseteq NettingKey
    /\ gross \in [Direction -> Volume]
    /\ added \in 0..MaxTrades
    /\ wrapped \in BOOLEAN

(***************************************************************************)
(* The accumulators are a function of what was traded, whatever the order  *)
(* of the trades: each is the volume lo bought from hi minus the volume hi *)
(* bought from lo (a trade of an account with itself counts once), and a   *)
(* pair without an accumulator traded nothing, unless a sum has wrapped.   *)
(***************************************************************************)
Net(k, field) ==
    LET up   == gross[[symbol |-> k.symbol, buyer |-> k.lo, seller |-> k.hi]]
        down == gross[[symbol |-> k.symbol, buyer |-> k.hi, seller |-> k.lo]]
    IN  IF k.lo = k.hi THEN up[field] ELSE up[field] - down[field]

AccumulatorsNetTheTrades ==
    ~wrapped =>
        \A k \in NettingKey :
            /\ AccumulatorOf(k).quantity = Net(k, "quantity")
            /\ AccumulatorOf(k).payment = Net(k, "payment")

(***************************************************************************)
(* What the trades themselves mean for one account.                        *)
(***************************************************************************)
TradedUnits(s, a) ==
    SumFunction([d \in {dir \in Direction : dir.symbol = s} |->
                    (IF d.buyer = a THEN gross[d].quantity ELSE 0)
                  - (IF d.seller = a THEN gross[d].quantity ELSE 0)])

TradedCash(s, a) ==
    SumFunction([d \in {dir \in Direction : dir.symbol = s} |->
                    (IF d.seller = a THEN gross[d].payment ELSE 0)
                  - (IF d.buyer = a THEN gross[d].payment ELSE 0)])

(***************************************************************************)
(* The cash that the flat pairs of an account still owe it: quantities     *)
(* offset, prices did not, and compute_net skips the pair.                 *)
(***************************************************************************)
FlatResidual(s, a) ==
    SumFunction([k \in {key \in DOMAIN accumulators \ Unbalanced : key.symbol = s} |->
                    (IF k.hi = a THEN accumulators[k].payment ELSE 0)
                  - (IF k.lo = a THEN accumulators[k].payment ELSE 0)])

Obligations == LET net == compute_net IN [ob \in net |-> ob]

(***************************************************************************)
(* Netting preserves deliveries: the obligations give each account, in     *)
(* each symbol, what its trades gave it, up to the truncation of           *)
(* net_quantity (a sum of truncated quantities agrees modulo its width,    *)
(* and an accumulator that wrapped agrees as far as the quantity goes).    *)
(***************************************************************************)
DeliveriesPreserved ==
    \A s \in Symbols, a \in Accounts :
        LET owed == NetUnits(Obligations, s, a) IN
        /\ (owed - TradedUnits(s, a)) % QuantityMod = 0
        /\ (/\ ~wrapped
            /\ \A k \in DOMAIN accumulators :
                  accumulators[k].quantity \in -QuantityMod + 1 .. QuantityMod - 1)
              => owed = TradedUnits(s, a)

(***************************************************************************)
(* Netting preserves cash, except what flat pairs leave behind, as long as *)
(* no payment saturates and no sum has wrapped.                            *)
(***************************************************************************)
CashPreservedButFlatPairs ==
    /\ ~wrapped
    /\ \A k \in DOMAIN accumulators :
          accumulators[k].payment \in -PaymentMax .. PaymentMax
    => \A s \in Symbols, a \in Accounts :
          NetCash(Obligations, s, a) = TradedCash(s, a) - FlatResidual(s, a)

(***************************************************************************)
(* Netting never adds exposure, and two accounts never owe each other: the *)
(* obligations between two accounts, in both directions, amount to no more *)
(* than what the two traded in the symbol, and only one direction is left. *)
(***************************************************************************)
ExposureNeverGrows ==
    ~wrapped => \A ob \in compute_net :
        LET between(b, x) == gross[[symbol |-> ob.symbol, buyer |-> b, seller |-> x]].quantity
            opposite == {o \in compute_net : /\ o # ob
                                             /\ o.symbol = ob.symbol
                                             /\ {o.deliverer, o.receiver}
                                                  = {ob.deliverer, ob.receiver}}
        IN  /\ ob.net_quantity <= between(ob.receiver, ob.deliverer)
            /\ opposite = {}
=============================================================================
