---------------------- MODULE CollateralAccount_proofs ----------------------
(***************************************************************************)
(* Proofs about CollateralAccount, for every set of types, configuration   *)
(* of haircuts, amounts and width of a value.                              *)
(***************************************************************************)
EXTENDS CollateralAccount, ArithmeticLemmas

(***************************************************************************)
(* Wrapping gives a value of the width, and changes nothing within it.     *)
(***************************************************************************)
LEMMA WrapType ==
    ASSUME NEW n \in Int
    PROVE  /\ Wrap(n) \in Value
           /\ n \in Value => Wrap(n) = n
BY CollateralAssumption, WrappedValue DEF Wrap, Wrapped, Value

(***************************************************************************)
(* A deposit stays in the width because it wraps, a withdrawal because it  *)
(* takes something, and no more than there is.                             *)
(***************************************************************************)
LEMMA DepositType ==
    ASSUME TypeOK, NEW ct \in CollateralType, NEW amount \in Amounts, deposit(ct, amount)
    PROVE  /\ holdings' \in [CollateralType -> Value]
           /\ overflowed' \in BOOLEAN
<1>1. CASE amount <= 0
  BY <1>1, CollateralAssumption DEF deposit, TypeOK, Value
<1>2. CASE amount > 0
  <2>1. holdings[ct] + amount \in Int
    BY CollateralAssumption DEF TypeOK, Value
  <2>2. Wrap(holdings[ct] + amount) \in Value
    BY <2>1, WrapType
  <2>3. /\ holdings' = [holdings EXCEPT ![ct] = Wrap(holdings[ct] + amount)]
        /\ overflowed' = (overflowed \/ holdings[ct] + amount \notin Value)
    BY <1>2, CollateralAssumption DEF deposit, Value
  <2> QED
    BY <2>2, <2>3 DEF TypeOK
<1> QED
  BY <1>1, <1>2, CollateralAssumption DEF Value

LEMMA WithdrawType ==
    ASSUME TypeOK, NEW ct \in CollateralType, NEW amount \in Amounts, withdraw(ct, amount)
    PROVE  /\ holdings' \in [CollateralType -> Value]
           /\ overflowed' \in BOOLEAN
<1>1. CASE amount > 0 /\ Sufficient(ct, amount)
  <2>1. holdings' = [holdings EXCEPT ![ct] = holdings[ct] - amount]
    BY <1>1, CollateralAssumption DEF withdraw, Value
  <2>2. holdings[ct] - amount \in Value
    BY <1>1, CollateralAssumption DEF Sufficient, TypeOK, Value
  <2> QED
    BY <1>1, <2>1, <2>2, CollateralAssumption DEF withdraw, TypeOK, Value
<1>2. CASE ~(amount > 0 /\ Sufficient(ct, amount))
  BY <1>2 DEF withdraw, TypeOK
<1> QED
  BY <1>1, <1>2

LEMMA InitType == Init => TypeOK
<1> SUFFICES ASSUME Init PROVE TypeOK
  OBVIOUS
<1>1. 0 \in Value
  BY CollateralAssumption DEF Value
<1>2. holdings \in [CollateralType -> Value]
  BY <1>1 DEF Init
<1>3. operations \in 0..MaxOperations
  BY CollateralAssumption DEF Init
<1> QED
  BY <1>2, <1>3 DEF Init, TypeOK

LEMMA NextType == TypeOK /\ [Next]_vars => TypeOK'
<1> SUFFICES ASSUME TypeOK, [Next]_vars PROVE TypeOK'
  OBVIOUS
<1>1. CASE Next
  <2>1. PICK ct \in CollateralType, amount \in Amounts :
            deposit(ct, amount) \/ withdraw(ct, amount)
    BY <1>1 DEF Next
  <2>2. holdings' \in [CollateralType -> Value] /\ overflowed' \in BOOLEAN
    BY <2>1, DepositType, WithdrawType
  <2>3. operations' \in 0..MaxOperations
    BY <1>1, CollateralAssumption DEF Next, TypeOK
  <2>4. haircut' \in Haircuts
    BY <1>1 DEF Next, TypeOK
  <2> QED
    BY <2>2, <2>3, <2>4 DEF TypeOK
<1>2. CASE UNCHANGED vars
  BY <1>2 DEF TypeOK, vars
<1> QED
  BY <1>1, <1>2

(***************************************************************************)
(* Type correctness, with whatever amounts the account is called           *)
(* (collateral.rs: deposit, withdraw).                                     *)
(***************************************************************************)
THEOREM TypeCorrect == Spec => []TypeOK
<1> QED
  BY InitType, NextType, PTL DEF Spec

-----------------------------------------------------------------------------
(***************************************************************************)
(* A deposit takes a holding below zero only by wrapping around, which it  *)
(* records; a withdrawal leaves at least zero.                             *)
(***************************************************************************)
LEMMA DepositKeeps ==
    ASSUME TypeOK, NeverOverdrawn, NEW ct \in CollateralType, NEW amount \in Amounts,
           deposit(ct, amount)
    PROVE  NeverOverdrawn'
<1>1. CASE amount <= 0
  BY <1>1, CollateralAssumption DEF deposit, NeverOverdrawn, Value
<1>2. CASE amount > 0
  <2> SUFFICES ASSUME ~overflowed', NEW other \in CollateralType PROVE holdings'[other] >= 0
    BY DEF NeverOverdrawn
  <2>0. ~(amount <= 0)
    BY <1>2, CollateralAssumption DEF Value
  <2>1. /\ holdings' = [holdings EXCEPT ![ct] = Wrap(holdings[ct] + amount)]
        /\ ~overflowed /\ holdings[ct] + amount \in Value
    BY <2>0, ZenonT(30) DEF deposit
  <2>2. Wrap(holdings[ct] + amount) = holdings[ct] + amount
    BY <2>1, WrapType, CollateralAssumption DEF TypeOK, Value
  <2>3. holdings[ct] >= 0 /\ holdings[other] >= 0
    BY <2>1 DEF NeverOverdrawn
  <2>4. holdings[ct] + amount >= 0
    BY <1>2, <2>3, CollateralAssumption DEF TypeOK, Value
  <2> QED
    BY <2>1, <2>2, <2>3, <2>4 DEF TypeOK
<1> QED
  BY <1>1, <1>2, CollateralAssumption DEF Value

LEMMA WithdrawKeeps ==
    ASSUME TypeOK, NeverOverdrawn, NEW ct \in CollateralType, NEW amount \in Amounts,
           withdraw(ct, amount)
    PROVE  NeverOverdrawn'
<1>1. CASE amount > 0 /\ Sufficient(ct, amount)
  <2>1. /\ holdings' = [holdings EXCEPT ![ct] = holdings[ct] - amount]
        /\ overflowed' = overflowed
    BY <1>1, CollateralAssumption DEF withdraw, Value
  <2>2. holdings[ct] - amount >= 0
    BY <1>1, CollateralAssumption DEF Sufficient, TypeOK, Value
  <2> QED
    BY <2>1, <2>2 DEF NeverOverdrawn, TypeOK
<1>2. CASE ~(amount > 0 /\ Sufficient(ct, amount))
  BY <1>2 DEF withdraw, NeverOverdrawn
<1> QED
  BY <1>1, <1>2

(***************************************************************************)
(* No collateral is withdrawn that was not deposited (collateral.rs:       *)
(* the balance check of withdraw is per type and precedes the debit).      *)
(***************************************************************************)
THEOREM HoldingsStayCovered == Spec => []NeverOverdrawn
<1>1. Init => NeverOverdrawn
  BY DEF Init, NeverOverdrawn
<1>2. TypeOK /\ NeverOverdrawn /\ [Next]_vars => NeverOverdrawn'
  <2> SUFFICES ASSUME TypeOK, NeverOverdrawn, [Next]_vars PROVE NeverOverdrawn'
    OBVIOUS
  <2>1. CASE Next
    <3>1. PICK ct \in CollateralType, amount \in Amounts :
              deposit(ct, amount) \/ withdraw(ct, amount)
      BY <2>1 DEF Next
    <3> QED
      BY <3>1, DepositKeeps, WithdrawKeeps
  <2>2. CASE UNCHANGED vars
    BY <2>2 DEF NeverOverdrawn, vars
  <2> QED
    BY <2>1, <2>2
<1> QED
  BY <1>1, <1>2, TypeCorrect, PTL DEF Spec

-----------------------------------------------------------------------------
(***************************************************************************)
(* What apply_haircut does to a holding whose products fit: the value is   *)
(* between nothing and the holding, and rounded down by less than a tick.  *)
(***************************************************************************)
LEMMA HaircutOfValue ==
    ASSUME NEW ct \in CollateralType, NEW value \in Nat, value * Scale < Half,
           haircut[ct] \in 0 .. Scale
    PROVE  /\ apply_haircut(ct, value) \in 0 .. value
           /\ value * (Scale - haircut[ct]) - apply_haircut(ct, value) * Scale \in 0 .. Scale - 1
<1>1. PICK k : k = Scale - haircut[ct]
  OBVIOUS
<1>2. k \in Nat /\ k <= Scale /\ Scale \in Nat \ {0} /\ Half \in Nat
  BY <1>1, CollateralAssumption
<1>3. value * k \in Nat /\ value * k <= value * Scale /\ value * Scale \in Nat
  BY <1>2, ProductMonotonic
<1>4. value * k \in Value
  BY <1>2, <1>3 DEF Value
<1>5. Wrap(value * k) = value * k
  BY <1>3, <1>4, WrapType
<1> DEFINE p == value * k
           v == p \div Scale
           r == p % Scale
<1>6. apply_haircut(ct, value) = v
  <2>1. apply_haircut(ct, value) = TruncDiv(p, Scale) /\ p >= 0
    BY <1>1, <1>3, <1>5 DEF apply_haircut
  <2>2. QED
    BY <2>1 DEF TruncDiv
<1>7. p \in Nat /\ p <= value * Scale
  BY <1>3
<1> HIDE DEF p
<1>8. v \in Int /\ r \in 0 .. Scale - 1 /\ p = Scale * v + r
  BY <1>2, <1>7, DivMod
<1>9. ~(v > value)
  <2>1. SUFFICES ASSUME v > value  PROVE FALSE
    OBVIOUS
  <2>2. p >= Scale * (value + 1)
    BY <1>2, <1>7, <2>1, QuotientBound
  <2>3. Scale * (value + 1) = value * Scale + Scale
    BY <1>2
  <2>4. QED
    BY <1>2, <1>3, <1>7, <2>2, <2>3
<1>10. v > -1
  <2>1. Scale * (-1 + 1) = 0
    BY <1>2
  <2>2. p >= Scale * (-1 + 1)
    BY <1>7, <2>1
  <2>3. QED
    BY <1>2, <1>7, <2>2, QuotientBound
<1> HIDE DEF v, r
<1>11. v * Scale = Scale * v
  BY <1>2, <1>8
<1>12. Scale * v \in Int
  BY <1>2, <1>8
<1>13. v \in 0 .. value
  BY <1>8, <1>9, <1>10
<1>14. p - v * Scale = r
  BY <1>7, <1>8, <1>11, <1>12
<1>15. QED
  BY <1>1, <1>6, <1>8, <1>13, <1>14 DEF p

LEMMA HoldingsFit ==
    ASSUME TypeOK, NeverOverdrawn, Fits
    PROVE  /\ SumFunction(holdings) \in Nat
           /\ \A ct \in CollateralType :
                 /\ holdings[ct] \in Nat /\ holdings[ct] <= SumFunction(holdings)
                 /\ holdings[ct] * Scale < Half
                 /\ haircut[ct] \in 0 .. Scale
<1>1. PICK f : f = holdings
  OBVIOUS
<1>2. PICK all : all = SumFunction(holdings)
  OBVIOUS
<1>3. \A ct \in CollateralType : f[ct] \in Nat
  <2>1. SUFFICES ASSUME NEW ct \in CollateralType  PROVE holdings[ct] \in Nat
    BY <1>1
  <2>2. holdings[ct] \in Value /\ holdings[ct] >= 0
    BY DEF TypeOK, NeverOverdrawn, Fits
  <2>3. QED
    BY <2>2, CollateralAssumption DEF Value
<1>4. IsFiniteSet(CollateralType)
  BY CollateralAssumption
<1>5. all = SumFunctionOnSet(f, CollateralType)
  <2>1. DOMAIN holdings = CollateralType
    BY DEF TypeOK
  <2>2. QED
    BY <1>1, <1>2, <2>1 DEF SumFunction
<1>6. all \in Nat
  BY <1>3, <1>4, <1>5, SumIsNat
<1>7. ASSUME NEW ct \in CollateralType
      PROVE  /\ f[ct] \in Nat /\ f[ct] <= all /\ f[ct] * Scale < Half
             /\ haircut[ct] \in 0 .. Scale
  <2>1. f[ct] \in Nat /\ f[ct] <= all
    BY <1>3, <1>4, <1>5, <1>7, TermAtMostSum
  <2>2. Scale \in Nat /\ Half \in Nat /\ all * Scale < Half
    BY <1>2, CollateralAssumption DEF Fits
  <2>3. Scale * f[ct] <= Scale * all
    BY <1>6, <2>1, <2>2, ProductMonotonic
  <2>4. Scale * f[ct] = f[ct] * Scale /\ Scale * all = all * Scale
    BY <1>6, <2>1, <2>2
  <2>5. f[ct] * Scale \in Int /\ all * Scale \in Int
    BY <1>6, <2>1, <2>2
  <2>6. haircut[ct] \in 0 .. Scale
    BY CollateralAssumption DEF TypeOK, HaircutConfig
  <2>7. QED
    BY <2>1, <2>2, <2>3, <2>4, <2>5, <2>6
<1>8. QED
  BY <1>1, <1>2, <1>6, <1>7

(***************************************************************************)
(* Rates: every haircut takes what it says, to less than a tick            *)
(* (collateral.rs: apply_haircut multiplies before it divides).            *)
(***************************************************************************)
THEOREM HaircutsTakeTheirRate == Spec => []HaircutsAreExact
<1>1. TypeOK /\ NeverOverdrawn => HaircutsAreExact
  <2>1. SUFFICES ASSUME TypeOK, NeverOverdrawn, Fits, NEW ct \in CollateralType
                 PROVE  holdings[ct] * (Scale - haircut[ct]) - adjusted_value(ct) * Scale
                            \in 0 .. Scale - 1
    BY DEF HaircutsAreExact
  <2>2. holdings[ct] \in Nat /\ holdings[ct] * Scale < Half /\ haircut[ct] \in 0 .. Scale
    BY <2>1, HoldingsFit
  <2>3. QED
    BY <2>1, <2>2, HaircutOfValue DEF adjusted_value
<1>2. QED
  BY <1>1, TypeCorrect, HoldingsStayCovered, PTL

(***************************************************************************)
(* The total after haircuts is the true sum, and current_bps is the rate   *)
(* of a type in it, rounded down: nothing wraps while the holdings fit.    *)
(***************************************************************************)
LEMMA RateOfType ==
    ASSUME TypeOK, NeverOverdrawn, Fits, NEW ct \in CollateralType
    PROVE  /\ AdjustedSum \in Nat /\ total_adjusted_value = AdjustedSum
           /\ adjusted_value(ct) \in Nat /\ adjusted_value(ct) <= AdjustedSum
           /\ AdjustedSum > 0 =>
                 current_bps(ct) = (adjusted_value(ct) * Scale) \div AdjustedSum
<1>1. PICK f : f = [t \in CollateralType |-> adjusted_value(t)]
  OBVIOUS
<1>2. PICK g : g = holdings
  OBVIOUS
<1>3. PICK all : all = SumFunction(holdings)
  OBVIOUS
<1>4. PICK total : total = AdjustedSum
  OBVIOUS
<1>5. PICK a : a = adjusted_value(ct)
  OBVIOUS
<1>6. IsFiniteSet(CollateralType) /\ Scale \in Nat \ {0} /\ Half \in Nat \ {0}
  BY CollateralAssumption
<1>7. \A t \in CollateralType : f[t] \in Nat /\ g[t] \in Nat /\ f[t] <= g[t]
  <2>1. SUFFICES ASSUME NEW t \in CollateralType
                 PROVE  f[t] \in Nat /\ g[t] \in Nat /\ f[t] <= g[t]
    OBVIOUS
  <2>2. holdings[t] \in Nat /\ holdings[t] * Scale < Half /\ haircut[t] \in 0 .. Scale
    BY HoldingsFit
  <2>3. adjusted_value(t) \in 0 .. holdings[t]
    BY <2>2, HaircutOfValue DEF adjusted_value
  <2>4. QED
    BY <1>1, <1>2, <2>2, <2>3
<1>8. all = SumFunctionOnSet(g, CollateralType) /\ all \in Nat /\ all * Scale < Half
  <2>1. DOMAIN holdings = CollateralType
    BY DEF TypeOK
  <2>2. QED
    BY <1>2, <1>3, <2>1, HoldingsFit DEF SumFunction, Fits
<1>9. total = SumFunctionOnSet(f, CollateralType)
  <2>1. DOMAIN f = CollateralType
    BY <1>1
  <2>2. QED
    BY <1>1, <1>4, <2>1 DEF AdjustedSum, SumFunction
<1>10. total \in Nat /\ total <= all
  <2>1. total \in Nat
    BY <1>6, <1>7, <1>9, SumIsNat
  <2>2. \A t \in CollateralType : f[t] \in Int /\ g[t] \in Int /\ f[t] <= g[t]
    BY <1>7
  <2>3. SumFunctionOnSet(f, CollateralType) <= SumFunctionOnSet(g, CollateralType)
    BY <1>6, <2>2, SumMonotonic
  <2>4. QED
    BY <1>8, <1>9, <2>1, <2>3
<1>11. a \in Nat /\ a <= total
  <2>1. a = f[ct]
    BY <1>1, <1>5
  <2>2. QED
    BY <1>6, <1>7, <1>9, <2>1, TermAtMostSum
<1>12. /\ a * Scale \in Nat /\ total * Scale \in Nat /\ all * Scale \in Nat
       /\ a * Scale <= total * Scale /\ total * Scale <= all * Scale /\ total <= total * Scale
  <2>1. Scale * a <= Scale * total /\ Scale * total <= Scale * all /\ total * 1 <= total * Scale
    BY <1>6, <1>8, <1>10, <1>11, ProductMonotonic
  <2>2. /\ Scale * a = a * Scale /\ Scale * total = total * Scale /\ Scale * all = all * Scale
        /\ total * 1 = total
    BY <1>6, <1>8, <1>10, <1>11
  <2>3. a * Scale \in Nat /\ total * Scale \in Nat /\ all * Scale \in Nat
    BY <1>6, <1>8, <1>10, <1>11
  <2>4. QED
    BY <2>1, <2>2, <2>3
<1>13. total \in Value /\ a * Scale \in Value
  BY <1>6, <1>8, <1>10, <1>12 DEF Value
<1>14. Wrap(total) = total /\ Wrap(a * Scale) = a * Scale
  BY <1>10, <1>12, <1>13, WrapType
<1>15. total_adjusted_value = total
  BY <1>4, <1>14 DEF total_adjusted_value
<1>16. ASSUME total > 0
       PROVE  current_bps(ct) = (a * Scale) \div total
  <2> DEFINE n == a * Scale
             q == n \div total
  <2>1. n \in Nat /\ n <= total * Scale
    BY <1>12
  <2>2. current_bps(ct) = (TruncDiv(n, total) % RateMod)
    BY <1>5, <1>14, <1>15 DEF current_bps
  <2>3. TruncDiv(n, total) = q
    BY <2>1 DEF TruncDiv
  <2> HIDE DEF n
  <2>4. total \in Nat \ {0}
    BY <1>10, <1>16
  <2>5. q \in Int
    BY <2>1, <2>4, DivMod
  <2>6. q > -1
    <3>1. total * (-1 + 1) = 0
      BY <2>4
    <3>2. n >= total * (-1 + 1)
      BY <2>1, <3>1
    <3>3. QED
      BY <2>1, <2>4, <3>2, QuotientBound
  <2>7. ~(q > Scale)
    <3>1. SUFFICES ASSUME q > Scale  PROVE FALSE
      OBVIOUS
    <3>2. n >= total * (Scale + 1)
      BY <1>6, <2>1, <2>4, <3>1, QuotientBound
    <3>3. total * (Scale + 1) = total * Scale + total
      BY <1>6, <2>4
    <3>4. QED
      BY <1>10, <1>12, <1>16, <2>1, <3>2, <3>3
  <2> HIDE DEF q
  <2>8. q \in 0 .. RateMod - 1 /\ RateMod \in Nat \ {0}
    BY <1>6, <2>5, <2>6, <2>7, CollateralAssumption DEF Fits
  <2>9. (q % RateMod) = q
    BY <2>8
  <2>10. QED
    BY <2>2, <2>3, <2>9 DEF n, q
<1>17. QED
  BY <1>4, <1>5, <1>10, <1>11, <1>15, <1>16

(***************************************************************************)
(* No breach of a limit is reported that is not one.                       *)
(***************************************************************************)
THEOREM ReportedBreachesAreReal == Spec => []BreachesAreReal
<1>1. TypeOK /\ NeverOverdrawn => BreachesAreReal
  <2>1. SUFFICES ASSUME TypeOK, NeverOverdrawn, Fits, NEW limits \in Limits,
                        NEW ct \in check_concentration(limits)
                 PROVE  BeyondLimit(ct, limits, 0)
    BY DEF BreachesAreReal
  <2>2. ct \in CollateralType /\ total_adjusted_value > 0 /\ current_bps(ct) > limits[ct]
    BY DEF check_concentration, Exceeds
  <2>3. PICK total : total = AdjustedSum
    OBVIOUS
  <2>4. PICK a : a = adjusted_value(ct)
    OBVIOUS
  <2>5. PICK limit : limit = limits[ct]
    OBVIOUS
  <2>6. /\ total \in Nat /\ total > 0 /\ a \in Nat /\ (a * Scale) \div total > limit
    BY <2>1, <2>2, <2>3, <2>4, <2>5, RateOfType
  <2>7. limit \in Nat /\ Scale \in Nat
    BY <2>2, <2>5, CollateralAssumption
  <2>8. a * Scale \in Nat
    BY <2>6, <2>7
  <2>9. a * Scale >= total * (limit + 1)
    BY <2>6, <2>7, <2>8, QuotientBound
  <2>10. total * (limit + 1) = limit * total + total /\ 0 * total = 0 /\ limit * total \in Int
    BY <2>6, <2>7
  <2>11. a * Scale > limit * total + 0 * total
    BY <2>6, <2>8, <2>9, <2>10
  <2>12. QED
    BY <2>3, <2>4, <2>5, <2>11 DEF BeyondLimit
<1>2. QED
  BY <1>1, TypeCorrect, HoldingsStayCovered, PTL

(***************************************************************************)
(* A type beyond its limit by more than the rounding of current_bps is     *)
(* reported.                                                               *)
(***************************************************************************)
THEOREM NoClearBreachIsMissed == Spec => []ClearBreachesReported
<1>1. TypeOK /\ NeverOverdrawn => ClearBreachesReported
  <2>1. SUFFICES ASSUME TypeOK, NeverOverdrawn, Fits, NEW limits \in Limits,
                        NEW ct \in CollateralType, BeyondLimit(ct, limits, 1)
                 PROVE  ct \in check_concentration(limits)
    BY DEF ClearBreachesReported
  <2>2. PICK total : total = AdjustedSum
    OBVIOUS
  <2>3. PICK a : a = adjusted_value(ct)
    OBVIOUS
  <2>4. PICK limit : limit = limits[ct]
    OBVIOUS
  <2>5. a * Scale > limit * total + 1 * total
    BY <2>1, <2>2, <2>3, <2>4 DEF BeyondLimit
  <2>6. /\ total \in Nat /\ total_adjusted_value = total /\ a \in Nat /\ a <= total
        /\ total > 0 => current_bps(ct) = (a * Scale) \div total
    BY <2>1, <2>2, <2>3, RateOfType
  <2>7. limit \in Nat /\ Scale \in Nat
    BY <2>4, CollateralAssumption
  <2>8. a > 0 /\ total > 0
    <3>1. limit * total \in Nat /\ 1 * total = total
      BY <2>6, <2>7
    <3>2. a * Scale > 0
      BY <2>5, <2>6, <2>7, <3>1
    <3>3. a # 0
      <4>1. 0 * Scale = 0
        BY <2>7
      <4>2. QED
        BY <3>2, <4>1
    <3>4. QED
      BY <2>6, <3>3
  <2>9. total * (limit + 1) = limit * total + 1 * total
    BY <2>6, <2>7
  <2>10. a * Scale \in Nat /\ limit * total + 1 * total \in Nat
    BY <2>6, <2>7
  <2>11. a * Scale >= total * (limit + 1)
    BY <2>5, <2>9, <2>10
  <2>12. (a * Scale) \div total > limit
    BY <2>6, <2>7, <2>8, <2>10, <2>11, QuotientBound
  <2>13. QED
    BY <2>3, <2>4, <2>6, <2>8, <2>12 DEF check_concentration, Exceeds
<1>2. QED
  BY <1>1, TypeCorrect, HoldingsStayCovered, PTL
=============================================================================
