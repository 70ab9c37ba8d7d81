----------------------- MODULE PortfolioMargin_proofs -----------------------
(***************************************************************************)
(* Margins in floating point, for every width, precision, configuration    *)
(* and portfolio: how far a rounded product is from the exact one, that    *)
(* rounding respects order, and what follows for the margin.               *)
(***************************************************************************)
EXTENDS PortfolioMargin, ArithmeticLemmas

(***************************************************************************)
(* Powers of two.  First, that the recursive function is what its equation *)
(* says: for every number there is a table up to it, and tables agree.     *)
(***************************************************************************)
IsPowers(f, D) == f = [n \in D |-> IF n = 0 THEN 1 ELSE 2 * f[n - 1]]

LEMMA Exp2IsChosen == Exp2 = CHOOSE f : IsPowers(f, Nat)
BY DEF Exp2, IsPowers

LEMMA PowersExist == \A N \in Nat : \E f : IsPowers(f, 0..N)
<1> DEFINE Bad == {N \in Nat : ~ \E f : IsPowers(f, 0..N)}
<1>1. SUFFICES ASSUME Bad # {}  PROVE FALSE
  OBVIOUS
<1>2. PICK N \in Bad : \A k \in Bad : N <= k
  <2>1. Bad \in SUBSET Nat
    OBVIOUS
  <2>2. QED
    BY <1>1, <2>1, LeastNatural
<1>3. CASE N = 0
  <2>1. PICK f : f = [n \in 0..0 |-> 1]
    OBVIOUS
  <2>2. IsPowers(f, 0..0)
    BY <2>1 DEF IsPowers
  <2>3. QED
    BY <1>2, <1>3, <2>2
<1>4. CASE N # 0
  <2>1. N \in Nat /\ N - 1 \in Nat /\ N - 1 \notin Bad
    BY <1>2, <1>4
  <2>2. PICK g : IsPowers(g, 0..(N - 1))
    BY <2>1
  <2>3. \A n \in 0..(N - 1) : g[n] = IF n = 0 THEN 1 ELSE 2 * g[n - 1]
    BY <2>2 DEF IsPowers
  <2>4. PICK f : f = [n \in 0..N |-> IF n < N THEN g[n] ELSE 2 * g[N - 1]]
    OBVIOUS
  <2>5. \A n \in 0..N : f[n] = IF n = 0 THEN 1 ELSE 2 * f[n - 1]
    <3>1. TAKE n \in 0..N
    <3>2. CASE n = N
      BY <1>4, <2>1, <2>4, <3>2
    <3>3. CASE n # N /\ n # 0
      <4>1. n \in 0..(N - 1) /\ n - 1 \in 0..N /\ n < N /\ n - 1 < N
        BY <2>1, <3>3
      <4>2. QED
        BY <2>3, <2>4, <3>3, <4>1
    <3>4. CASE n # N /\ n = 0
      <4>1. n \in 0..(N - 1) /\ n < N
        BY <2>1, <3>4
      <4>2. QED
        BY <2>3, <2>4, <3>4, <4>1
    <3>5. QED
      BY <3>2, <3>3, <3>4
  <2>6. IsPowers(f, 0..N)
    BY <2>4, <2>5 DEF IsPowers
  <2>7. QED
    BY <1>2, <2>6
<1>5. QED
  BY <1>3, <1>4

LEMMA PowersAgree ==
    ASSUME NEW a \in Nat, NEW b \in Nat, NEW f, NEW g,
           IsPowers(f, 0..a), IsPowers(g, 0..b), NEW n \in Nat, n <= a, n <= b
    PROVE  f[n] = g[n]
<1> DEFINE Bad == {k \in Nat : k <= a /\ k <= b /\ f[k] # g[k]}
<1>1. SUFFICES ASSUME Bad # {}  PROVE FALSE
  OBVIOUS
<1>2. PICK m \in Bad : \A k \in Bad : m <= k
  <2>1. Bad \in SUBSET Nat
    OBVIOUS
  <2>2. QED
    BY <1>1, <2>1, LeastNatural
<1>3. f[m] = IF m = 0 THEN 1 ELSE 2 * f[m - 1]
  BY <1>2 DEF IsPowers
<1>4. g[m] = IF m = 0 THEN 1 ELSE 2 * g[m - 1]
  BY <1>2 DEF IsPowers
<1>5. m # 0 => f[m - 1] = g[m - 1]
  BY <1>2
<1>6. QED
  BY <1>2, <1>3, <1>4, <1>5

LEMMA Exp2Equation == IsPowers(Exp2, Nat)
<1> DEFINE Table(n) == CHOOSE f : IsPowers(f, 0..n)
<1>1. \A n \in Nat : IsPowers(Table(n), 0..n)
  BY PowersExist
<1> HIDE DEF Table
<1>2. \A n \in Nat : Table(n)[n] = IF n = 0 THEN 1 ELSE 2 * Table(n)[n - 1]
  <2>1. TAKE n \in Nat
  <2>2. PICK f : f = Table(n)
    OBVIOUS
  <2>3. f = [k \in 0..n |-> IF k = 0 THEN 1 ELSE 2 * f[k - 1]]
    BY <1>1, <2>2 DEF IsPowers
  <2>4. QED
    BY <2>2, <2>3
<1>3. \A n \in Nat : n # 0 => Table(n)[n - 1] = Table(n - 1)[n - 1]
  <2>1. TAKE n \in Nat
  <2>2. HAVE n # 0
  <2>3. n - 1 \in Nat /\ n - 1 <= n /\ n - 1 <= n - 1
    BY <2>2
  <2>4. QED
    BY <1>1, <2>3, PowersAgree
<1>4. PICK F : F = [n \in Nat |-> Table(n)[n]]
  OBVIOUS
<1>5. \A n \in Nat : F[n] = IF n = 0 THEN 1 ELSE 2 * F[n - 1]
  BY <1>2, <1>3, <1>4
<1>6. IsPowers(F, Nat)
  BY <1>4, <1>5 DEF IsPowers
<1>7. QED
  BY <1>6, Exp2IsChosen

LEMMA Exp2Step ==
    /\ Exp2[0] = 1
    /\ \A n \in Nat : Exp2[n + 1] = 2 * Exp2[n]
<1>1. \A n \in Nat : Exp2[n] = IF n = 0 THEN 1 ELSE 2 * Exp2[n - 1]
  BY Exp2Equation DEF IsPowers
<1>2. QED
  BY <1>1

LEMMA Exp2Type == \A n \in Nat : Exp2[n] \in Nat \ {0}
<1> DEFINE Bad == {n \in Nat : Exp2[n] \notin Nat \ {0}}
<1>1. SUFFICES ASSUME Bad # {}  PROVE FALSE
  OBVIOUS
<1>2. PICK m \in Bad : \A k \in Bad : m <= k
  <2>1. Bad \in SUBSET Nat
    OBVIOUS
  <2>2. QED
    BY <1>1, <2>1, LeastNatural
<1>3. m # 0
  BY <1>2, Exp2Step
<1>4. m - 1 \in Nat /\ Exp2[m - 1] \in Nat \ {0}
  BY <1>2, <1>3
<1>5. Exp2[m] = 2 * Exp2[m - 1]
  BY <1>4, Exp2Step
<1>6. QED
  BY <1>2, <1>4, <1>5

LEMMA Exp2Sum == \A a, b \in Nat : Exp2[a + b] = Exp2[a] * Exp2[b]
<1>1. SUFFICES ASSUME NEW a \in Nat, NEW b \in Nat  PROVE Exp2[a + b] = Exp2[a] * Exp2[b]
  OBVIOUS
<1> DEFINE Bad == {n \in Nat : Exp2[a + n] # Exp2[a] * Exp2[n]}
<1>2. SUFFICES ASSUME Bad # {}  PROVE FALSE
  OBVIOUS
<1>3. PICK m \in Bad : \A k \in Bad : m <= k
  <2>1. Bad \in SUBSET Nat
    OBVIOUS
  <2>2. QED
    BY <1>2, <2>1, LeastNatural
<1>4. m # 0
  BY <1>3, Exp2Step, Exp2Type
<1>5. PICK k \in Nat : m = k + 1
  <2>1. m - 1 \in Nat /\ m = (m - 1) + 1
    BY <1>3, <1>4
  <2>2. QED
    BY <2>1
<1>6. Exp2[a + k] = Exp2[a] * Exp2[k]
  BY <1>3, <1>5
<1>7. Exp2[m] = 2 * Exp2[k] /\ Exp2[a + m] = 2 * Exp2[a + k]
  <2>1. a + m = (a + k) + 1 /\ a + k \in Nat
    BY <1>5
  <2>2. QED
    BY <1>5, <2>1, Exp2Step
<1>8. PICK x \in Int, y \in Int : x = Exp2[a] /\ y = Exp2[k]
  BY Exp2Type
<1>9. 2 * (x * y) = x * (2 * y)
  OBVIOUS
<1>10. QED
  BY <1>3, <1>6, <1>7, <1>8, <1>9

LEMMA Exp2Monotonic ==
    ASSUME NEW a \in Nat, NEW b \in Nat, a <= b
    PROVE  Exp2[a] <= Exp2[b] /\ Exp2[b] = Exp2[a] * Exp2[b - a]
<1>1. b - a \in Nat /\ a + (b - a) = b
  OBVIOUS
<1>2. Exp2[b] = Exp2[a] * Exp2[b - a]
  BY <1>1, Exp2Sum
<1>3. PICK x \in Nat, y \in Nat : x = Exp2[a] /\ y = Exp2[b - a] /\ y >= 1
  BY <1>1, Exp2Type
<1>4. x * 1 <= x * y
  BY <1>3, ProductMonotonic
<1>5. QED
  BY <1>2, <1>3, <1>4

-----------------------------------------------------------------------------
(***************************************************************************)
(* Absolute values and products.                                           *)
(***************************************************************************)
LEMMA AbsType == \A x \in Int : Abs(x) \in Nat /\ Abs(-x) = Abs(x) /\ x <= Abs(x)
BY DEF Abs

LEMMA AbsSum == \A x, y \in Int : Abs(x + y) <= Abs(x) + Abs(y) /\ Abs(x) - Abs(y) <= Abs(x + y)
BY DEF Abs

LEMMA ProductSigns ==
    ASSUME NEW x \in Int, NEW y \in Int
    PROVE  /\ x * y \in Int
           /\ (-x) * y = -(x * y) /\ x * (-y) = -(x * y) /\ (-x) * (-y) = x * y
           /\ (x >= 0 /\ y >= 0) => x * y >= 0
OBVIOUS

LEMMA AbsProduct == \A x, y \in Int : Abs(x * y) = Abs(x) * Abs(y)
<1> TAKE x, y \in Int
<1>1. CASE x >= 0 /\ y >= 0
  BY <1>1, ProductSigns DEF Abs
<1>2. CASE x < 0 /\ y >= 0
  <2>1. -x \in Int /\ -x >= 0 /\ (-x) * y >= 0 /\ (-x) * y = -(x * y) /\ x * y \in Int
    BY <1>2, ProductSigns
  <2>2. QED
    BY <1>2, <2>1 DEF Abs
<1>3. CASE x >= 0 /\ y < 0
  <2>1. -y \in Int /\ -y >= 0 /\ x * (-y) >= 0 /\ x * (-y) = -(x * y) /\ x * y \in Int
    BY <1>3, ProductSigns
  <2>2. QED
    BY <1>3, <2>1 DEF Abs
<1>4. CASE x < 0 /\ y < 0
  <2>1. -x \in Int /\ -y \in Int /\ -x >= 0 /\ -y >= 0
    BY <1>4
  <2>2. (-x) * (-y) >= 0 /\ (-x) * (-y) = x * y /\ x * y \in Int
    BY <2>1, ProductSigns
  <2>3. QED
    BY <1>4, <2>2 DEF Abs
<1>5. QED
  BY <1>1, <1>2, <1>3, <1>4

-----------------------------------------------------------------------------
(***************************************************************************)
(* Rounding to a multiple of a unit: no multiple is nearer.                *)
(***************************************************************************)
Rounded(n, unit) ==
    unit * IF 2 * (n % unit) < unit \/ (2 * (n % unit) = unit /\ (n \div unit) % 2 = 0)
           THEN n \div unit ELSE n \div unit + 1

LEMMA FloatIsRounded == \A n \in Numerator : NearestFloat[n] = Rounded(n, Unit(n))
BY DEF NearestFloat, Rounded

LEMMA RoundedEither ==
    ASSUME NEW n \in Int, NEW unit \in Nat \ {0}
    PROVE  \E q \in Int, r \in 0 .. unit - 1 :
              /\ q = n \div unit /\ r = n % unit /\ n = unit * q + r
              /\ unit * q \in Int /\ unit * (q + 1) = unit * q + unit
              /\ \/ 2 * r <= unit /\ Rounded(n, unit) = unit * q
                 \/ 2 * r >= unit /\ Rounded(n, unit) = unit * q + unit
<1>1. PICK q \in Int, r \in 0 .. unit - 1 : q = n \div unit /\ r = n % unit /\ n = unit * q + r
  BY DivMod
<1>2. unit * q \in Int /\ unit * (q + 1) = unit * q + unit
  OBVIOUS
<1>3. Rounded(n, unit) = IF 2 * r < unit \/ (2 * r = unit /\ q % 2 = 0)
                         THEN unit * q ELSE unit * (q + 1)
  BY <1>1 DEF Rounded
<1>4. \/ 2 * r <= unit /\ Rounded(n, unit) = unit * q
      \/ 2 * r >= unit /\ Rounded(n, unit) = unit * q + unit
  BY <1>2, <1>3
<1>5. QED
  BY <1>1, <1>2, <1>4

LEMMA RoundedIsNearest ==
    ASSUME NEW n \in Int, NEW unit \in Nat \ {0}
    PROVE  /\ Rounded(n, unit) \in Int
           /\ 2 * Abs(Rounded(n, unit) - n) <= unit
           /\ \A j \in Int : Abs(Rounded(n, unit) - n) <= Abs(n - unit * j)
<1>1. PICK q \in Int, r \in 0 .. unit - 1 :
              /\ q = n \div unit /\ r = n % unit /\ n = unit * q + r
              /\ unit * q \in Int /\ unit * (q + 1) = unit * q + unit
              /\ \/ 2 * r <= unit /\ Rounded(n, unit) = unit * q
                 \/ 2 * r >= unit /\ Rounded(n, unit) = unit * q + unit
  BY RoundedEither
<1>2. PICK e \in Nat : e = Abs(Rounded(n, unit) - n)
  BY <1>1, AbsType
<1>3. Rounded(n, unit) \in Int /\ 2 * e <= unit /\ e <= r /\ e + r <= unit
  BY <1>1, <1>2 DEF Abs
<1>4. ASSUME NEW j \in Int  PROVE e <= Abs(n - unit * j)
  <2>1. unit * j \in Int
    OBVIOUS
  <2>2. CASE j <= q
    <3>1. unit * j <= unit * q
      BY <2>2, ProductMonotonic
    <3>2. QED
      BY <1>1, <1>3, <2>1, <3>1 DEF Abs
  <2>3. CASE j >= q + 1
    <3>1. unit * (q + 1) <= unit * j
      BY <2>3, ProductMonotonic
    <3>2. QED
      BY <1>1, <1>3, <2>1, <3>1 DEF Abs
  <2>4. QED
    BY <2>2, <2>3
<1>5. QED
  BY <1>2, <1>3, <1>4

LEMMA RoundedMultiple ==
    ASSUME NEW j \in Int, NEW unit \in Nat \ {0}
    PROVE  Rounded(unit * j, unit) = unit * j
<1>1. PICK n \in Int : n = unit * j
  OBVIOUS
<1>2. Rounded(n, unit) \in Int /\ Abs(Rounded(n, unit) - n) <= Abs(n - unit * j)
  BY RoundedIsNearest
<1>3. Abs(n - unit * j) = 0
  BY <1>1 DEF Abs
<1>4. QED
  BY <1>1, <1>2, <1>3 DEF Abs

LEMMA RoundedMonotonic ==
    ASSUME NEW m \in Int, NEW n \in Int, m <= n, NEW unit \in Nat \ {0}
    PROVE  Rounded(m, unit) <= Rounded(n, unit)
<1>1. PICK q \in Int, r \in 0 .. unit - 1 :
              /\ q = m \div unit /\ r = m % unit /\ m = unit * q + r
              /\ unit * q \in Int /\ unit * (q + 1) = unit * q + unit
              /\ \/ 2 * r <= unit /\ Rounded(m, unit) = unit * q
                 \/ 2 * r >= unit /\ Rounded(m, unit) = unit * q + unit
  BY RoundedEither
<1>2. PICK p \in Int, s \in 0 .. unit - 1 :
              /\ p = n \div unit /\ s = n % unit /\ n = unit * p + s
              /\ unit * p \in Int /\ unit * (p + 1) = unit * p + unit
              /\ \/ 2 * s <= unit /\ Rounded(n, unit) = unit * p
                 \/ 2 * s >= unit /\ Rounded(n, unit) = unit * p + unit
  BY RoundedEither
<1>3. CASE q = p
  <2>1. r <= s
    BY <1>1, <1>2, <1>3
  <2>2. CASE r = s
    <3>1. Rounded(m, unit) = Rounded(n, unit)
      BY <1>1, <1>2, <1>3, <2>2 DEF Rounded
    <3>2. QED
      BY <1>1, <3>1
  <2>3. CASE r < s
    BY <1>1, <1>2, <1>3, <2>3
  <2>4. QED
    BY <2>1, <2>2, <2>3
<1>4. CASE q + 1 <= p
  <2>1. unit * (q + 1) <= unit * p
    BY <1>4, ProductMonotonic
  <2>2. QED
    BY <1>1, <1>2, <2>1
<1>5. CASE p + 1 <= q
  <2>1. unit * (p + 1) <= unit * q
    BY <1>5, ProductMonotonic
  <2>2. QED
    BY <1>1, <1>2, <2>1
<1>6. QED
  BY <1>3, <1>4, <1>5

-----------------------------------------------------------------------------
(***************************************************************************)
(* The nearest float.  Of Precision significant bits there are Sig values; *)
(* the unit of a number is one, or such that the number takes at least     *)
(* half of them, so that an error of half a unit is relatively small.      *)
(***************************************************************************)
Sig     == Exp2[Precision]
HalfSig == Exp2[Precision - 1]

LEMMA SigType ==
    /\ Sig \in Nat \ {0} /\ HalfSig \in Nat \ {0} /\ Half \in Nat \ {0} /\ Scale \in Nat \ {0}
    /\ Sig = 2 * HalfSig /\ Sig * Sig = Scale
<1>1. Precision \in Nat \ {0} /\ Width \in Nat /\ Precision - 1 \in Nat
  BY MarginAssumption
<1>2. Sig \in Nat \ {0} /\ HalfSig \in Nat \ {0} /\ Half \in Nat \ {0} /\ Scale \in Nat \ {0}
  <2>1. 2 * Precision \in Nat
    BY <1>1
  <2>2. QED
    BY <1>1, <2>1, Exp2Type DEF Sig, HalfSig, Half, Scale
<1>3. Sig = 2 * HalfSig
  <2>1. (Precision - 1) + 1 = Precision
    BY <1>1
  <2>2. QED
    BY <1>1, <2>1, Exp2Step DEF Sig, HalfSig
<1>4. Sig * Sig = Scale
  <2>1. Precision + Precision = 2 * Precision
    BY <1>1
  <2>2. QED
    BY <1>1, <2>1, Exp2Sum DEF Sig, Scale
<1>5. QED
  BY <1>2, <1>3, <1>4

LEMMA UnitOf ==
    ASSUME NEW n \in Numerator
    PROVE  /\ n \in Int
           /\ \E s \in Nat : /\ Unit(n) = Exp2[s] /\ Abs(n) < Sig * Exp2[s]
                             /\ \A t \in Nat : Abs(n) < Sig * Exp2[t] => s <= t
<1>1. n \in Int /\ Abs(n) \in Nat /\ Abs(n) <= Half * Sig /\ Half * Sig \in Nat
  <2>1. PICK b \in Nat : b = Half * Sig
    BY SigType
  <2>2. n \in -b .. b
    BY <2>1 DEF Numerator, Sig
  <2>3. QED
    BY <2>1, <2>2 DEF Abs
<1> DEFINE S == {s \in 0 .. Width + 1 : Abs(n) < Exp2[Precision + s]}
<1>2. \A s \in Nat : Exp2[Precision + s] = Sig * Exp2[s]
  BY MarginAssumption, Exp2Sum DEF Sig
<1>3. Width \in Nat /\ Width + 1 \in 0 .. Width + 1 /\ Abs(n) < Exp2[Precision + (Width + 1)]
  <2>1. Width \in Nat /\ Width + 1 \in Nat
    BY MarginAssumption
  <2>2. PICK b \in Nat : b = Half * Sig /\ b >= 1
    <3>1. PICK x \in Nat, y \in Nat : x = Half /\ y = Sig /\ x >= 1 /\ y >= 1
      BY SigType
    <3>2. x * 1 <= x * y
      BY <3>1, ProductMonotonic
    <3>3. QED
      BY <3>1, <3>2
  <2>3. Exp2[Width + 1] = 2 * Half
    BY <2>1, Exp2Step DEF Half
  <2>4. Sig * (2 * Half) = 2 * (Half * Sig)
    BY SigType
  <2>5. QED
    BY <1>1, <1>2, <2>1, <2>2, <2>3, <2>4
<1>4. S \in SUBSET Nat /\ S # {}
  BY <1>3
<1>5. PICK s \in S : \A t \in S : s <= t
  BY <1>4, LeastNatural
<1>6. Min(S) = s
  <2>1. \A x \in S : (\A y \in S : x =< y) <=> x = s
    <3>1. \A x \in S : x \in Int
      BY <1>4
    <3>2. QED
      BY <1>5, <3>1
  <2>2. QED
    BY <1>5, <2>1 DEF Min
<1>7. Unit(n) = Exp2[s]
  BY <1>6 DEF Unit
<1>8. s \in Nat /\ Abs(n) < Sig * Exp2[s]
  BY <1>2, <1>5
<1>9. ASSUME NEW t \in Nat, Abs(n) < Sig * Exp2[t]  PROVE s <= t
  <2>1. CASE t \in 0 .. Width + 1
    <3>1. t \in S
      BY <1>2, <1>9, <2>1
    <3>2. QED
      BY <1>5, <3>1
  <2>2. CASE t \notin 0 .. Width + 1
    BY <1>3, <1>5, <2>2
  <2>3. QED
    BY <2>1, <2>2
<1>10. QED
  BY <1>1, <1>7, <1>8, <1>9

LEMMA UnitFits ==
    ASSUME NEW n \in Numerator
    PROVE  /\ Unit(n) \in Nat \ {0} /\ HalfSig * Unit(n) \in Nat
           /\ Unit(n) = 1 \/ HalfSig * Unit(n) <= Abs(n)
<1>1. n \in Int /\ Abs(n) \in Nat
  BY UnitOf, AbsType
<1>2. PICK s \in Nat : /\ Unit(n) = Exp2[s] /\ Abs(n) < Sig * Exp2[s]
                       /\ \A t \in Nat : Abs(n) < Sig * Exp2[t] => s <= t
  BY UnitOf
<1>3. Unit(n) \in Nat \ {0} /\ HalfSig * Unit(n) \in Nat
  BY <1>2, Exp2Type, SigType
<1>4. CASE s = 0
  BY <1>2, <1>3, <1>4, Exp2Step
<1>5. CASE s # 0
  <2>1. PICK t \in Nat : s = t + 1
    <3>1. s - 1 \in Nat /\ s = (s - 1) + 1
      BY <1>5
    <3>2. QED
      BY <3>1
  <2>2. ~(Abs(n) < Sig * Exp2[t])
    BY <1>2, <2>1
  <2>3. PICK h \in Int, x \in Int : h = HalfSig /\ x = Exp2[t]
    BY SigType, Exp2Type
  <2>4. Unit(n) = 2 * x
    BY <1>2, <2>1, <2>3, Exp2Step
  <2>5. Sig * Exp2[t] = HalfSig * Unit(n)
    <3>1. (2 * h) * x = h * (2 * x)
      OBVIOUS
    <3>2. QED
      BY <2>3, <2>4, <3>1, SigType
  <2>6. QED
    BY <1>1, <1>3, <2>2, <2>5
<1>6. QED
  BY <1>3, <1>4, <1>5

\* One rounding is off by at most one part in Sig + 1.
LEMMA FloatIsNear ==
    ASSUME NEW n \in Numerator
    PROVE  /\ n \in Int /\ NearestFloat[n] \in Int
           /\ (Sig + 1) * Abs(NearestFloat[n] - n) <= Abs(n)
<1>1. n \in Int /\ Abs(n) \in Nat
  BY UnitOf, AbsType
<1>2. PICK u \in Nat \ {0} : u = Unit(n) /\ (u = 1 \/ HalfSig * u <= Abs(n))
  BY UnitFits
<1>3. PICK y \in Int : y = NearestFloat[n] /\ y = Rounded(n, u)
  BY <1>1, <1>2, FloatIsRounded, RoundedIsNearest
<1>4. PICK e \in Nat : e = Abs(y - n)
  BY <1>1, <1>3, AbsType
<1>5. 2 * e <= u /\ \A j \in Int : e <= Abs(n - u * j)
  BY <1>1, <1>2, <1>3, <1>4, RoundedIsNearest
<1>6. CASE u = 1
  <2>1. e = 0
    BY <1>4, <1>5, <1>6
  <2>2. QED
    BY <1>1, <1>3, <1>4, <2>1, SigType
<1>7. CASE u # 1
  <2>1. PICK h \in Nat, b \in Nat : h = HalfSig /\ b = h * u /\ b <= Abs(n)
    BY <1>2, <1>7, SigType
  <2>2. u * h = b /\ u * (-h) = -b
    BY <2>1
  <2>3. e <= Abs(n) - b
    <3>1. e <= Abs(n - b)
      BY <1>5, <2>1, <2>2
    <3>2. e <= Abs(n + b)
      <4>1. -h \in Int /\ n - (-b) = n + b
        BY <1>1, <2>1
      <4>2. QED
        BY <1>5, <2>2, <4>1
    <3>3. QED
      BY <1>1, <1>4, <2>1, <3>1, <3>2 DEF Abs
  <2>4. h * (2 * e) <= b
    <3>1. h * (2 * e) <= h * u
      BY <1>4, <1>5, <2>1, ProductMonotonic
    <3>2. QED
      BY <2>1, <3>1
  <2>5. (2 * h + 1) * e = h * (2 * e) + e
    BY <1>4, <2>1
  <2>6. h * (2 * e) \in Int
    BY <1>4, <2>1
  <2>7. (Sig + 1) * e <= Abs(n)
    BY <1>1, <1>4, <2>1, <2>3, <2>4, <2>5, <2>6, SigType
  <2>8. QED
    BY <1>1, <1>3, <1>4, <2>7
<1>8. QED
  BY <1>6, <1>7

\* A larger number has a larger unit.
LEMMA FloatIsMonotonic ==
    ASSUME NEW m \in Numerator, NEW n \in Numerator, 0 <= m, m <= n
    PROVE  NearestFloat[m] <= NearestFloat[n]
<1>1. m \in Int /\ n \in Int /\ Abs(m) = m /\ Abs(n) = n
  BY UnitOf DEF Abs
<1>2. PICK s \in Nat : /\ Unit(m) = Exp2[s] /\ m < Sig * Exp2[s]
                       /\ \A t \in Nat : m < Sig * Exp2[t] => s <= t
  BY <1>1, UnitOf
<1>3. PICK t \in Nat : Unit(n) = Exp2[t] /\ n < Sig * Exp2[t]
  BY <1>1, UnitOf
<1>4. PICK u \in Nat \ {0}, v \in Nat \ {0} :
        /\ u = Unit(m) /\ v = Unit(n) /\ NearestFloat[m] = Rounded(m, u)
        /\ NearestFloat[n] = Rounded(n, v)
  BY UnitFits, FloatIsRounded
<1>5. s <= t
  BY <1>1, <1>2, <1>3, Exp2Type, SigType
<1>6. CASE s = t
  BY <1>1, <1>2, <1>3, <1>4, <1>6, RoundedMonotonic
<1>7. CASE s < t
  <2>1. PICK b \in Int : b = Sig * u
    BY <1>4, SigType
  <2>2. 2 * u <= v
    <3>1. s + 1 \in Nat /\ s + 1 <= t
      BY <1>7
    <3>2. Exp2[s + 1] <= Exp2[t]
      BY <3>1, Exp2Monotonic
    <3>3. QED
      BY <1>2, <1>3, <1>4, <3>2, Exp2Step
  <2>3. HalfSig * v <= n /\ b <= HalfSig * v
    <3>1. PICK h \in Nat : h = HalfSig
      BY SigType
    <3>2. h * (2 * u) <= h * v
      BY <1>4, <2>2, <3>1, ProductMonotonic
    <3>3. h * (2 * u) = (2 * h) * u
      BY <1>4, <3>1
    <3>4. v # 1
      BY <1>4, <2>2
    <3>5. QED
      BY <1>1, <1>4, <2>1, <3>1, <3>2, <3>3, <3>4, SigType, UnitFits
  <2>4. Rounded(m, u) <= b
    <3>1. m <= b
      BY <1>1, <1>2, <1>4, <2>1
    <3>2. Rounded(m, u) <= Rounded(b, u)
      BY <1>1, <1>4, <2>1, <3>1, RoundedMonotonic
    <3>3. Rounded(b, u) = b
      <4>1. u * Sig = b /\ Sig \in Int
        BY <1>4, <2>1, SigType
      <4>2. QED
        BY <1>4, <4>1, RoundedMultiple
    <3>4. QED
      BY <3>2, <3>3
  <2>5. HalfSig * v <= Rounded(n, v)
    <3>1. PICK c \in Int : c = HalfSig * v
      BY <1>4, SigType
    <3>2. Rounded(c, v) <= Rounded(n, v)
      BY <1>1, <1>4, <2>3, <3>1, RoundedMonotonic
    <3>3. Rounded(c, v) = c
      <4>1. v * HalfSig = c /\ HalfSig \in Int
        BY <1>4, <3>1, SigType
      <4>2. QED
        BY <1>4, <4>1, RoundedMultiple
    <3>4. QED
      BY <3>1, <3>2, <3>3
  <2>6. PICK c \in Int : c = HalfSig * v
    BY <1>4, SigType
  <2>7. Rounded(m, u) \in Int /\ Rounded(n, v) \in Int
    BY <1>1, <1>4, RoundedIsNearest
  <2>8. QED
    BY <1>4, <2>1, <2>3, <2>4, <2>5, <2>6, <2>7
<1>8. QED
  BY <1>2, <1>3, <1>5, <1>6, <1>7

-----------------------------------------------------------------------------
(***************************************************************************)
(* An amount times a rate.                                                 *)
(***************************************************************************)
LEMMA Cancel ==
    ASSUME NEW p \in Nat \ {0}, NEW x \in Int, NEW y \in Int
    PROVE  /\ p * x < p * y => x < y
           /\ p * x <= p * y => x <= y
<1>1. ASSUME y <= x  PROVE p * y <= p * x
  BY <1>1, ProductMonotonic
<1>2. ASSUME y + 1 <= x  PROVE p * y + p <= p * x
  <2>1. p * (y + 1) <= p * x
    BY <1>2, ProductMonotonic
  <2>2. p * (y + 1) = p * y + p
    OBVIOUS
  <2>3. QED
    BY <2>1, <2>2
<1>3. p * x \in Int /\ p * y \in Int
  OBVIOUS
<1>4. QED
  BY <1>1, <1>2, <1>3

LEMMA FloatOfAmount ==
    ASSUME NEW a \in -Half .. Half
    PROVE  a \in Int /\ a \in Numerator /\ NearestFloat[a] \in -Half .. Half
<1>1. PICK H \in Nat \ {0}, q \in Nat \ {0}, b \in Nat : H = Half /\ q = Sig /\ q >= 2 /\ b = H * q
  BY SigType
<1>2. a \in -H .. H
  BY <1>1
<1>3. 2 * H <= b
  <2>1. H * 2 <= H * q
    BY <1>1, ProductMonotonic
  <2>2. QED
    BY <1>1, <2>1
<1>4. a \in Int /\ a \in -b .. b /\ -H \in -b .. b /\ H \in -b .. b /\ a \in Numerator
  BY <1>1, <1>2, <1>3 DEF Numerator, Sig
<1>5. PICK s \in Nat : Unit(a) = Exp2[s] /\ \A t \in Nat : Abs(a) < Sig * Exp2[t] => s <= t
  BY <1>4, UnitOf
<1>6. s <= Width /\ Width \in Nat
  <2>1. Abs(a) <= H
    BY <1>2 DEF Abs
  <2>2. Sig * Exp2[Width] = b
    BY <1>1 DEF Half
  <2>3. Abs(a) < Sig * Exp2[Width]
    BY <1>1, <1>2, <1>3, <2>1, <2>2 DEF Abs
  <2>4. QED
    BY <1>5, <2>3, MarginAssumption
<1>7. PICK u \in Nat \ {0}, w \in Nat \ {0} : u = Unit(a) /\ H = u * w
  <2>1. Width - s \in Nat /\ Exp2[Width] = Exp2[s] * Exp2[Width - s]
    BY <1>6, Exp2Monotonic
  <2>2. QED
    BY <1>1, <1>5, <2>1, Exp2Type DEF Half
<1>8. Rounded(H, u) = H /\ Rounded(-H, u) = -H
  <2>1. u * (-w) = -H /\ -w \in Int
    BY <1>7
  <2>2. Rounded(u * w, u) = u * w /\ Rounded(u * (-w), u) = u * (-w)
    <3>1. \A j \in Int : Rounded(u * j, u) = u * j
      BY RoundedMultiple
    <3>2. w \in Int /\ -w \in Int
      OBVIOUS
    <3>3. QED
      BY <3>1, <3>2
  <2>3. QED
    BY <1>7, <2>1, <2>2
<1>9. Rounded(a, u) \in Int /\ Rounded(a, u) <= H /\ -H <= Rounded(a, u)
  <2>1. Rounded(a, u) <= Rounded(H, u) /\ Rounded(-H, u) <= Rounded(a, u)
    BY <1>2, <1>4, <1>7, RoundedMonotonic
  <2>2. QED
    BY <1>4, <1>7, <1>8, <2>1, RoundedIsNearest
<1>10. QED
  BY <1>1, <1>4, <1>7, <1>9, FloatIsRounded

LEMMA BoundedProduct ==
    ASSUME NEW H \in Nat, NEW q \in Nat, NEW x \in -H .. H, NEW y \in -q .. q
    PROVE  x * y \in Int /\ Abs(x * y) <= H * q /\ x * y \in -(H * q) .. H * q
<1>1. x \in Int /\ y \in Int /\ x * y \in Int /\ H * q \in Int
  OBVIOUS
<1>2. PICK c \in Nat, d \in Nat : c = Abs(x) /\ d = Abs(y) /\ c <= H /\ d <= q
  BY <1>1 DEF Abs
<1>3. c * d <= c * q /\ q * c <= q * H
  BY <1>2, ProductMonotonic
<1>4. c * d <= H * q
  <2>1. q * c = c * q /\ q * H = H * q /\ c * d \in Int /\ c * q \in Int
    BY <1>2
  <2>2. QED
    BY <1>1, <1>3, <2>1
<1>5. Abs(x * y) <= H * q
  BY <1>1, <1>2, <1>4, AbsProduct
<1>6. QED
  BY <1>1, <1>5 DEF Abs

\* Rounding the amount and then the product is off by two parts in Sig.
LEMMA TwoRoundings ==
    ASSUME NEW a \in -Half .. Half, NEW num \in -Sig .. Sig
    PROVE  /\ a * num \in Int /\ NearestFloat[a] * num \in Numerator
           /\ NearestFloat[NearestFloat[a] * num] \in Int
           /\ Sig * Abs(NearestFloat[NearestFloat[a] * num] - a * num) <= 2 * Abs(a * num)
<1>1. PICK q \in Nat \ {0} : q = Sig
  BY SigType
<1>2. num \in Int /\ a \in Int /\ a \in Numerator /\ NearestFloat[a] \in -Half .. Half
  BY FloatOfAmount, SigType
<1>3. PICK b \in Int : b = NearestFloat[a] /\ b \in -Half .. Half
  BY <1>2, SigType
<1>4. PICK x \in Int, y \in Int : x = a * num /\ y = b * num
  BY <1>2, <1>3
<1>5. y \in Numerator
  BY <1>3, <1>4, SigType, BoundedProduct DEF Numerator, Sig
<1>6. PICK F \in Int : F = NearestFloat[y]
  BY <1>5, FloatIsNear
<1>7. PICK d \in Nat, z \in Nat, w \in Nat, X \in Nat :
        d = Abs(F - x) /\ z = Abs(y - x) /\ w = Abs(F - y) /\ X = Abs(x)
  <2>1. F - x \in Int /\ y - x \in Int /\ F - y \in Int /\ x \in Int
    BY <1>4, <1>6
  <2>2. Abs(F - x) \in Nat /\ Abs(y - x) \in Nat /\ Abs(F - y) \in Nat /\ Abs(x) \in Nat
    BY <2>1, AbsType
  <2>3. QED
    BY <2>2
<1>8. d <= w + z /\ Abs(y) <= X + z
  BY <1>4, <1>6, <1>7 DEF Abs
<1>9. (q + 1) * w <= X + z
  <2>1. (Sig + 1) * Abs(F - y) <= Abs(y)
    BY <1>5, <1>6, FloatIsNear
  <2>2. (q + 1) * w <= Abs(y) /\ (q + 1) * w \in Int /\ Abs(y) \in Int
    BY <1>1, <1>4, <1>7, <2>1, AbsType
  <2>3. QED
    BY <1>7, <1>8, <2>2
<1>10. (q + 1) * z <= X
  <2>1. PICK e \in Nat, f \in Nat, g \in Nat : e = Abs(b - a) /\ f = Abs(num) /\ g = Abs(a)
    BY <1>2, <1>3, AbsType
  <2>2. (q + 1) * e <= g
    BY <1>1, <1>2, <1>3, <2>1, FloatIsNear
  <2>3. y - x = (b - a) * num
    BY <1>2, <1>3, <1>4
  <2>4. z = e * f /\ X = g * f
    <3>1. PICK c \in Int : c = b - a
      BY <1>2, <1>3
    <3>2. Abs(c * num) = Abs(c) * Abs(num)
      BY <1>2, AbsProduct
    <3>3. Abs(a * num) = Abs(a) * Abs(num)
      BY <1>2, AbsProduct
    <3>4. QED
      BY <1>4, <1>7, <2>1, <2>3, <3>1, <3>2, <3>3
  <2>5. PICK c \in Int : c = (q + 1) * e
    BY <1>1, <2>1
  <2>6. f * c <= f * g
    BY <2>1, <2>2, <2>5, ProductMonotonic
  <2>7. f * c = (q + 1) * (e * f)
    BY <1>1, <2>1, <2>5
  <2>8. QED
    BY <2>1, <2>4, <2>6, <2>7
<1>11. q * d <= 2 * X
  <2>1. PICK qd \in Int, qw \in Int, qz \in Int : qd = q * d /\ qw = q * w /\ qz = q * z
    BY <1>1, <1>7
  <2>2. (q + 1) * w = qw + w /\ (q + 1) * z = qz + z
    BY <1>1, <1>7, <2>1
  <2>3. qd <= qw + qz
    <3>1. q * d <= q * (w + z)
      BY <1>1, <1>7, <1>8, ProductMonotonic
    <3>2. q * (w + z) = qw + qz
      BY <1>1, <1>7, <2>1
    <3>3. QED
      BY <2>1, <3>1, <3>2
  <2>4. qd <= 2 * X
    BY <1>7, <1>9, <1>10, <2>2, <2>3
  <2>5. QED
    BY <2>1, <2>4
<1>12. QED
  BY <1>1, <1>3, <1>4, <1>5, <1>6, <1>7, <1>11

LEMMA RateType ==
    ASSUME NEW rate \in Rate
    PROVE  /\ rate.num \in -Sig .. Sig /\ rate.num \in Int
           /\ rate.den \in Nat \ {0} /\ Scale \div rate.den \in Nat \ {0}
           /\ (Scale \div rate.den) * rate.den = Scale
<1>1. PICK e \in 0 .. 2 * Precision : rate.den = Exp2[e]
  BY DEF Rate
<1>2. 2 * Precision \in Nat /\ e \in Nat /\ e <= 2 * Precision
  BY <1>1, MarginAssumption
<1>3. PICK k \in Nat \ {0}, d \in Nat \ {0} : d = rate.den /\ Scale = d * k
  <2>1. Exp2[e] \in Nat \ {0} /\ Exp2[2 * Precision - e] \in Nat \ {0}
    <3>1. 2 * Precision - e \in Nat
      BY <1>2
    <3>2. QED
      BY <1>2, <3>1, Exp2Type
  <2>2. Exp2[2 * Precision] = Exp2[e] * Exp2[2 * Precision - e]
    BY <1>2, Exp2Monotonic
  <2>3. QED
    BY <1>1, <2>1, <2>2 DEF Scale
<1>4. Scale \div d = k
  <2>1. Scale = d * k + 0 /\ 0 \in 0 .. d - 1 /\ Scale \in Int
    BY <1>3
  <2>2. QED
    BY <1>3, <2>1, DivModUnique
<1>5. k * d = d * k
  BY <1>3
<1>6. rate.num \in -Sig .. Sig /\ rate.num \in Int
  BY SigType DEF Rate, Sig
<1>7. QED
  BY <1>3, <1>4, <1>5, <1>6

LEMMA TruncNear ==
    ASSUME NEW n \in Int, NEW d \in Nat \ {0}
    PROVE  TruncDiv(n, d) \in Int /\ Abs(TruncDiv(n, d) * d - n) <= d - 1
<1>1. CASE n >= 0
  <2>1. PICK q \in Int, r \in 0 .. d - 1 : q = n \div d /\ n = d * q + r
    BY DivMod
  <2>2. TruncDiv(n, d) = q /\ q * d = d * q /\ d * q \in Int
    BY <1>1, <2>1 DEF TruncDiv
  <2>3. QED
    BY <2>1, <2>2 DEF Abs
<1>2. CASE n < 0
  <2>1. -n \in Int
    OBVIOUS
  <2>2. PICK q \in Int, r \in 0 .. d - 1 : q = (-n) \div d /\ -n = d * q + r
    BY <2>1, DivMod
  <2>3. TruncDiv(n, d) = -q /\ (-q) * d = -(d * q) /\ d * q \in Int
    BY <1>2, <2>2 DEF TruncDiv
  <2>4. QED
    BY <2>2, <2>3 DEF Abs
<1>3. QED
  BY <1>1, <1>2

LEMMA SaturateValue ==
    ASSUME NEW n \in Int
    PROVE  /\ Saturate(n) = IF n >= Half THEN Half - 1 ELSE IF n < -Half THEN -Half ELSE n
           /\ Saturate(n) \in Amount
<1>1. PICK H \in Nat \ {0} : H = Half
  BY SigType
<1>2. Min({H - 1, n}) = IF H - 1 <= n THEN H - 1 ELSE n
  BY <1>1, MinAndMax
<1>3. PICK m \in Int : m = Min({H - 1, n})
  BY <1>1, <1>2
<1>4. Max({-H, m}) = IF -H >= m THEN -H ELSE m
  BY <1>1, MinAndMax
<1>5. Saturate(n) = IF n >= H THEN H - 1 ELSE IF n < -H THEN -H ELSE n
  BY <1>1, <1>2, <1>3, <1>4 DEF Saturate
<1>6. QED
  BY <1>1, <1>5 DEF Amount

\* A truncated amount is off by less than one tick, and by its roundings.
LEMMA ScaledIsNear ==
    ASSUME NEW a \in -Half .. Half, NEW rate \in Rate
    PROVE  /\ Times(a, rate) \in Int
           /\ \E T \in Int :
                 /\ Scaled(a, rate) = Saturate(T)
                 /\ Sig * Abs(T * Scale - Times(a, rate))
                       < Sig * Scale + 2 * Abs(Times(a, rate))
<1>1. PICK num \in Int, d \in Nat \ {0}, k \in Nat \ {0} :
        /\ num = rate.num /\ num \in -Sig .. Sig /\ d = rate.den /\ k = Scale \div rate.den
        /\ k * d = Scale
  BY RateType
<1>2. PICK q \in Nat \ {0}, S \in Nat \ {0} : q = Sig /\ S = Scale
  BY SigType
<1>3. PICK n \in Int, F \in Int :
        /\ n = a * num /\ F = NearestFloat[NearestFloat[a] * num]
        /\ Sig * Abs(F - n) <= 2 * Abs(n)
  BY <1>1, TwoRoundings
<1>4. PICK T \in Int : T = TruncDiv(F, d) /\ Abs(T * d - F) <= d - 1
  BY <1>1, <1>3, TruncNear
<1>5. Scaled(a, rate) = Saturate(T)
  BY <1>1, <1>3, <1>4 DEF Scaled
<1>6. PICK x \in Int : x = n * k /\ Times(a, rate) = x
  BY <1>1, <1>3 DEF Times
<1>7. PICK A \in Nat, B \in Nat, N \in Nat : A = Abs(T * d - F) /\ B = Abs(F - n) /\ N = Abs(n)
  <2>1. T * d - F \in Int /\ F - n \in Int
    BY <1>1, <1>3, <1>4
  <2>2. QED
    BY <2>1, AbsType
<1>8. Abs(T * S - x) <= k * A + k * B
  <2>1. PICK t \in Int, f \in Int : t = T * d - F /\ f = F - n
    BY <1>1, <1>3, <1>4
  <2>2. T * S = k * (T * d)
    <3>1. T * (k * d) = k * (T * d)
      BY <1>1, <1>4
    <3>2. QED
      BY <1>1, <1>2, <3>1
  <2>3. k * t = k * (T * d) - k * F /\ k * f = k * F - k * n /\ x = k * n
    BY <1>1, <1>3, <1>4, <1>6, <2>1
  <2>4. k * (T * d) \in Int /\ k * F \in Int /\ k * n \in Int /\ k * t \in Int /\ k * f \in Int
    BY <1>1, <1>3, <1>4, <2>1
  <2>5. T * S - x = k * t + k * f
    BY <2>2, <2>3, <2>4
  <2>6. Abs(k * t) = k * A /\ Abs(k * f) = k * B
    <3>1. Abs(k) = k
      BY <1>1 DEF Abs
    <3> k \in Int
      OBVIOUS
    <3>2. Abs(k * t) = Abs(k) * Abs(t)
      BY AbsProduct
    <3>3. Abs(k * f) = Abs(k) * Abs(f)
      BY AbsProduct
    <3>4. QED
      BY <1>7, <2>1, <3>1, <3>2, <3>3
  <2>7. QED
    BY <2>4, <2>5, <2>6, AbsSum
<1>9. k * A <= S - 1
  <2>1. k * A <= k * (d - 1)
    BY <1>1, <1>4, <1>7, ProductMonotonic
  <2>2. k * (d - 1) = k * d - k /\ k * A \in Int
    BY <1>1, <1>7
  <2>3. QED
    BY <1>1, <1>2, <2>1, <2>2
<1>10. q * (k * B) <= 2 * (k * N) /\ Abs(x) = k * N
  <2>1. PICK c \in Int : c = q * B
    BY <1>2, <1>7
  <2>2. k * c <= k * (2 * N)
    BY <1>1, <1>2, <1>3, <1>7, <2>1, ProductMonotonic
  <2>3. k * c = q * (k * B) /\ k * (2 * N) = 2 * (k * N)
    BY <1>1, <1>2, <1>7, <2>1
  <2>4. Abs(x) = N * k
    <3> k \in Int
      OBVIOUS
    <3>1. Abs(n * k) = Abs(n) * Abs(k)
      BY AbsProduct
    <3>2. Abs(k) = k
      BY <1>1 DEF Abs
    <3>3. QED
      BY <1>6, <1>7, <3>1, <3>2
  <2>5. N * k = k * N
    BY <1>1, <1>7
  <2>6. QED
    BY <2>2, <2>3, <2>4, <2>5
<1>11. q * Abs(T * S - x) < q * S + 2 * Abs(x)
  <2>1. PICK D \in Nat, a1 \in Int, b1 \in Int, n1 \in Int :
          D = Abs(T * S - x) /\ a1 = k * A /\ b1 = k * B /\ n1 = k * N
    <3>1. T * S - x \in Int
      BY <1>2, <1>4, <1>6
    <3>2. Abs(T * S - x) \in Nat
      BY <3>1, AbsType
    <3>3. k * A \in Int /\ k * B \in Int /\ k * N \in Int
      BY <1>1, <1>7
    <3>4. QED
      BY <3>2, <3>3
  <2>2. D <= (S - 1) + b1
    BY <1>2, <1>8, <1>9, <2>1
  <2>3. q * D <= q * ((S - 1) + b1)
    BY <1>2, <2>1, <2>2, ProductMonotonic
  <2>4. q * ((S - 1) + b1) = q * S - q + q * b1
    BY <1>2, <2>1
  <2>5. q * D \in Int /\ q * S \in Int /\ q * b1 \in Int
    BY <1>2, <2>1
  <2>6. QED
    BY <1>2, <1>10, <2>1, <2>3, <2>4, <2>5
<1>12. QED
  BY <1>2, <1>5, <1>6, <1>11

(***************************************************************************)
(* What a formula of so many requirements may be off by, if no product is  *)
(* larger than L.  (Four parts in Sig: each requirement has two products.) *)
(***************************************************************************)
Slack(L, n) == 2 * n * Scale + (2 * L) \div HalfSig

LEMMA SlackValue ==
    ASSUME NEW L \in Nat, NEW n \in Nat
    PROVE  \E f \in Nat : /\ Slack(L, n) = (2 * n) * Scale + f
                          /\ Sig * f <= 4 * L /\ 4 * L < Sig * f + Sig
<1>1. PICK h \in Nat \ {0} : h = HalfSig /\ Sig = 2 * h
  BY SigType
<1>2. PICK f \in Int, r \in 0 .. h - 1 : f = (2 * L) \div h /\ 2 * L = h * f + r
  <2>1. 2 * L \in Int
    OBVIOUS
  <2>2. QED
    BY <2>1, DivMod
<1>3. f >= 0
  <2>1. CASE f <= -1
    <3>1. h * f <= h * (-1)
      BY <2>1, ProductMonotonic
    <3>2. h * (-1) = -h /\ h * f \in Int
      OBVIOUS
    <3>3. QED
      BY <1>2, <3>1, <3>2
  <2>2. QED
    BY <2>1
<1>4. (2 * h) * f = 2 * (h * f) /\ h * f \in Int
  BY <1>2
<1>5. QED
  BY <1>1, <1>2, <1>3, <1>4 DEF Slack

LEMMA WithinSlack ==
    ASSUME NEW L \in Nat, NEW n \in Nat, NEW E \in Int,
           Sig * E <= Sig * ((2 * n) * Scale) + 4 * L
    PROVE  E <= Slack(L, n)
<1>1. PICK q \in Nat \ {0}, b \in Nat : q = Sig /\ b = (2 * n) * Scale
  BY SigType
<1>2. PICK f \in Nat : Slack(L, n) = b + f /\ q * f <= 4 * L /\ 4 * L < q * f + q
  BY <1>1, SlackValue
<1>3. q * E < q * (b + f + 1)
  <2>1. q * (b + f + 1) = q * b + q * f + q
    BY <1>1, <1>2
  <2>2. q * E \in Int /\ q * b \in Int /\ q * f \in Int
    BY <1>1, <1>2
  <2>3. QED
    BY <1>1, <1>2, <2>1, <2>2
<1>4. b + f + 1 \in Int /\ E < b + f + 1
  BY <1>1, <1>2, <1>3, Cancel
<1>5. QED
  BY <1>1, <1>2, <1>4

\* Nothing saturates while products keep that distance from the largest amount.
Room(L) == L <= Half * Scale - Slack(L, 1)

LEMMA ScaledFits ==
    ASSUME NEW a \in -Half .. Half, NEW rate \in Rate, NEW L \in Nat, Room(L),
           NEW P \in Nat, P <= L, Abs(Times(a, rate)) <= P
    PROVE  /\ Times(a, rate) \in Int
           /\ Scaled(a, rate) \in Int /\ Scaled(a, rate) < Half /\ -Half < Scaled(a, rate)
           /\ Sig * Abs(Scaled(a, rate) * Scale - Times(a, rate)) < Sig * Scale + 2 * P
<1>1. PICK q \in Nat \ {0}, S \in Nat \ {0}, H \in Nat \ {0} : q = Sig /\ S = Scale /\ H = Half
  BY SigType
<1>2. PICK x \in Int, T \in Int :
        /\ x = Times(a, rate) /\ Scaled(a, rate) = Saturate(T)
        /\ q * Abs(T * S - x) < q * S + 2 * Abs(x)
  BY <1>1, ScaledIsNear
<1>3. PICK f \in Nat : Slack(L, 1) = 2 * S + f /\ 4 * L < q * f + q
  <2>1. PICK f \in Nat : Slack(L, 1) = (2 * 1) * Scale + f /\ 4 * L < Sig * f + Sig
    BY SlackValue
  <2>2. QED
    BY <1>1, <2>1
<1>4. PICK X \in Nat, D \in Nat, ts \in Int, hs \in Int :
        X = Abs(x) /\ D = Abs(T * S - x) /\ ts = T * S /\ hs = H * S
  <2>1. T * S - x \in Int /\ T * S \in Int /\ H * S \in Int
    BY <1>1, <1>2
  <2>2. QED
    BY <1>2, <2>1, AbsType
<1>5. X <= P /\ X <= hs - 2 * S - f
  BY <1>1, <1>2, <1>3, <1>4 DEF Room
<1>6. D < S + f + 1
  <2>1. q * (S + f + 1) = q * S + q * f + q
    BY <1>1, <1>3
  <2>2. q * D \in Int /\ q * S \in Int /\ q * f \in Int
    BY <1>1, <1>3, <1>4
  <2>3. q * D < q * (S + f + 1)
    BY <1>1, <1>2, <1>3, <1>4, <1>5, <2>1, <2>2
  <2>4. S + f + 1 \in Int
    BY <1>1, <1>3
  <2>5. QED
    BY <1>1, <1>4, <2>3, <2>4, Cancel
<1>7. ts < hs /\ -hs < ts
  BY <1>1, <1>2, <1>3, <1>4, <1>5, <1>6 DEF Abs
<1>8. T < H /\ -H < T
  <2>1. S * T = ts /\ S * H = hs /\ S * (-H) = -hs
    BY <1>1, <1>2, <1>4
  <2>2. S * T < S * H => T < H
    BY <1>1, <1>2, Cancel
  <2>3. S * (-H) < S * T => -H < T
    <3>1. -H \in Int
      BY <1>1
    <3>2. QED
      BY <1>1, <1>2, <3>1, Cancel
  <2>4. QED
    BY <1>7, <2>1, <2>2, <2>3
<1>9. Scaled(a, rate) = T
  BY <1>1, <1>2, <1>8, SaturateValue
<1>10. q * D < q * S + 2 * P
  <2>1. q * D \in Int /\ q * S \in Int
    BY <1>1, <1>4
  <2>2. QED
    BY <1>1, <1>2, <1>4, <1>5, <2>1
<1>11. QED
  BY <1>1, <1>2, <1>4, <1>8, <1>9, <1>10

-----------------------------------------------------------------------------
(***************************************************************************)
(* The largest of the figures that a requirement compares.                 *)
(***************************************************************************)
LEMMA MaxOfBounded ==
    ASSUME NEW S \in SUBSET Int, NEW z \in S, NEW b \in Int, \A x \in S : x <= b
    PROVE  Max(S) \in S /\ Max(S) \in Int /\ \A x \in S : x <= Max(S)
<1> DEFINE D == {n \in Nat : z + n \in S}
<1>1. z \in Int /\ D \in SUBSET Nat /\ D # {}
  <2>1. z + 0 = z
    OBVIOUS
  <2>2. QED
    BY <2>1
<1>2. b - z \in Nat /\ \A k \in D : k <= b - z
  <2>1. b - z \in Nat
    BY <1>1
  <2>2. ASSUME NEW k \in D  PROVE k <= b - z
    <3>1. k \in Nat /\ z + k \in S
      BY <1>1
    <3>2. z + k <= b
      BY <3>1
    <3>3. QED
      BY <1>1, <3>1, <3>2
  <2>3. QED
    BY <2>1, <2>2
<1>3. PICK m \in D : \A k \in D : k <= m
  BY <1>1, <1>2, GreatestNatural
<1>4. PICK y \in S : y = z + m
  BY <1>3
<1>5. \A x \in S : x <= y
  <2>1. TAKE x \in S
  <2>2. CASE x <= z
    BY <1>1, <1>3, <1>4, <2>2
  <2>3. CASE x > z
    <3>1. x - z \in Nat /\ z + (x - z) = x
      BY <1>1, <2>3
    <3>2. x - z \in D
      BY <3>1
    <3>3. QED
      BY <1>1, <1>3, <1>4, <3>1, <3>2
  <2>4. QED
    BY <1>1, <2>2, <2>3
<1>6. \A x \in S : (\A w \in S : x >= w) <=> x = y
  <2>1. \A x \in S : x \in Int
    OBVIOUS
  <2>2. QED
    BY <1>4, <1>5, <2>1
<1>7. Max(S) = y
  BY <1>4, <1>6 DEF Max
<1>8. QED
  BY <1>4, <1>5, <1>7

ConfigOk == config \in MarginConfig

LEMMA ConfigType ==
    ASSUME ConfigOk
    PROVE  /\ config.initial_margin_rate \in Rate /\ config.variation_margin_rate \in Rate
           /\ \A scenario \in config.stress_scenarios : scenario \in Rate
           /\ config.margin_floor \in Int /\ config.margin_floor < Half
           /\ config.margin_floor >= -Half
<1>1. PICK H \in Nat \ {0} : H = Half
  BY SigType
<1>2. Amount = -H .. H - 1
  BY <1>1 DEF Amount
<1>3. config.margin_floor \in Amount
  BY DEF ConfigOk, MarginConfig
<1>4. QED
  BY <1>1, <1>2, <1>3 DEF ConfigOk, MarginConfig

LEMMA TimesType ==
    ASSUME NEW rate \in Rate
    PROVE  /\ Times(1, rate) \in Int
           /\ Abs(Times(1, rate)) \in Nat /\ Abs(Times(1, rate)) <= Sig * Scale
           /\ \A a \in Int : Times(a, rate) = a * Times(1, rate)
<1>1. PICK num \in Int, k \in Int, d \in Int :
        /\ num = rate.num /\ num \in -Sig .. Sig /\ k = Scale \div rate.den
        /\ k > 0 /\ d > 0 /\ k * d = Scale
  BY RateType
<1>2. PICK S \in Nat : S = Scale
  BY SigType
<1>3. k <= S
  <2>1. k * 1 <= k * d
    BY <1>1, ProductMonotonic
  <2>2. QED
    BY <1>1, <1>2, <2>1
<1>4. k \in -S .. S
  BY <1>1, <1>2, <1>3
<1>5. num * k \in Int /\ Abs(num * k) <= Sig * S
  <2>1. Sig \in Nat
    BY SigType
  <2>2. QED
    BY <1>1, <1>2, <1>4, <2>1, BoundedProduct
<1>6. Times(1, rate) = num * k
  <2>1. Times(1, rate) = (1 * num) * k
    BY <1>1 DEF Times
  <2>2. 1 * num = num
    OBVIOUS
  <2>3. QED
    BY <2>1, <2>2
<1>7. \A a \in Int : Times(a, rate) = a * (num * k)
  <2>1. TAKE a \in Int
  <2>2. Times(a, rate) = (a * num) * k
    BY <1>1 DEF Times
  <2>3. QED
    BY <2>2
<1>8. Abs(num * k) \in Nat
  BY <1>5, AbsType
<1>9. QED
  BY <1>2, <1>5, <1>6, <1>7, <1>8

LEMMA LargestRateType ==
    ASSUME ConfigOk
    PROVE  /\ LargestRate \in Nat
           /\ \A rate \in config.stress_scenarios
                  \cup {config.initial_margin_rate, config.variation_margin_rate} :
                /\ rate \in Rate
                /\ Abs(Times(1, rate)) <= LargestRate
<1> DEFINE R == config.stress_scenarios
                    \cup {config.initial_margin_rate, config.variation_margin_rate}
           S == {Abs(Times(1, rate)) : rate \in R}
<1>1. \A rate \in R : rate \in Rate
  BY ConfigType
<1>2. PICK b \in Int : b = Sig * Scale
  BY SigType
<1>3. \A x \in S : x \in Nat /\ x <= b
  BY <1>1, <1>2, TimesType
<1>4. S \in SUBSET Int /\ Abs(Times(1, config.initial_margin_rate)) \in S
  BY <1>3
<1>5. Max(S) \in S /\ \A x \in S : x <= Max(S)
  <2>1. \A x \in S : x <= b
    BY <1>3
  <2>2. QED
    BY <1>4, <2>1, MaxOfBounded
<1>6. LargestRate = Max(S)
  BY DEF LargestRate
<1>7. QED
  BY <1>1, <1>3, <1>5, <1>6

\* A product is no larger than the largest rate allows.
LEMMA TimesBound ==
    ASSUME ConfigOk, NEW n \in Nat, NEW a \in 0 .. n,
           NEW rate \in config.stress_scenarios
                   \cup {config.initial_margin_rate, config.variation_margin_rate}
    PROVE  Abs(Times(a, rate)) <= n * LargestRate /\ Times(a, rate) \in Int
<1>1. PICK r \in Nat, t \in Int :
        r = LargestRate /\ rate \in Rate /\ t = Times(1, rate) /\ Abs(t) <= r
  BY LargestRateType, TimesType
<1>2. Times(a, rate) = a * t
  BY <1>1, TimesType
<1>3. a \in -n .. n /\ t \in -r .. r
  BY <1>1 DEF Abs
<1>4. QED
  BY <1>1, <1>2, <1>3, BoundedProduct

LEMMA StressType ==
    ASSUME ConfigOk, NEW n \in Nat, NEW scenario \in config.stress_scenarios
    PROVE  /\ StressOf(n, scenario) \in Nat
           /\ StressOf(n, scenario) <= n * LargestRate + n * Scale
           /\ StressOf(n, scenario) = n * StressOf(1, scenario)
<1>1. PICK t \in Int, S \in Nat : t = Times(1, scenario) /\ S = Scale /\ scenario \in Rate
  BY ConfigType, TimesType, SigType
<1>2. Times(n, scenario) = n * t /\ n * t \in Int /\ n * S \in Nat /\ 1 * S = S
  BY <1>1, TimesType
<1>3. StressOf(n, scenario) = Abs(n * t - n * S) /\ StressOf(1, scenario) = Abs(t - S)
  BY <1>1, <1>2 DEF StressOf
<1>4. PICK P \in Int : P = n * LargestRate /\ Abs(n * t) <= P
  <2>1. n \in 0 .. n /\ n * LargestRate \in Int
    BY LargestRateType
  <2>2. Abs(Times(n, scenario)) <= n * LargestRate
    BY <2>1, TimesBound
  <2>3. QED
    BY <1>2, <2>1, <2>2
<1>5. Abs(n * t - n * S) = n * Abs(t - S)
  <2>1. n * t - n * S = n * (t - S) /\ t - S \in Int
    BY <1>1
  <2>2. Abs(n * (t - S)) = Abs(n) * Abs(t - S)
    BY <2>1, AbsProduct
  <2>3. Abs(n) = n
    BY DEF Abs
  <2>4. QED
    BY <2>1, <2>2, <2>3
<1>6. Abs(n * t - n * S) \in Nat /\ Abs(n * t - n * S) <= P + n * S
  BY <1>2, <1>4 DEF Abs
<1>7. QED
  BY <1>1, <1>3, <1>4, <1>5, <1>6

(***************************************************************************)
(* The loss of a scenario: neither the subtraction nor abs wraps, and its  *)
(* error is that of the product.                                           *)
(***************************************************************************)
LEMMA ScenarioNear ==
    ASSUME ConfigOk, NEW n \in 0 .. Half - 1, NEW scenario \in config.stress_scenarios,
           NEW L \in Nat, Room(L), NEW P \in Nat, P = n * LargestRate, P <= L,
           StressOf(n, scenario) <= Half * Scale - Slack(L, 1)
    PROVE  /\ ScenarioLoss(n, scenario) \in Nat /\ ScenarioLoss(n, scenario) < Half
           /\ Sig * Abs(ScenarioLoss(n, scenario) * Scale - StressOf(n, scenario))
                 < Sig * Scale + 2 * P
<1>1. PICK q \in Nat \ {0}, S \in Nat \ {0}, H \in Nat \ {0} : q = Sig /\ S = Scale /\ H = Half
  BY SigType
<1>2. n \in Nat /\ n \in -H .. H /\ n < H /\ scenario \in Rate
  BY <1>1, ConfigType
<1>3. Abs(Times(n, scenario)) <= P
  <2>1. n \in 0 .. n
    BY <1>2
  <2>2. QED
    BY <1>2, <2>1, TimesBound
<1>4. PICK T \in Int, x \in Int :
        /\ T = Scaled(n, scenario) /\ x = Times(n, scenario)
        /\ -H < T /\ T < H /\ q * Abs(T * S - x) < q * S + 2 * P
  BY <1>1, <1>2, <1>3, ScaledFits
<1>5. PICK f \in Nat : Slack(L, 1) = 2 * S + f /\ 4 * L < q * f + q
  <2>1. PICK f \in Nat : Slack(L, 1) = (2 * 1) * Scale + f /\ 4 * L < Sig * f + Sig
    BY SlackValue
  <2>2. QED
    BY <1>1, <2>1
<1>6. PICK ts \in Int, ns \in Int, hs \in Int : ts = T * S /\ ns = n * S /\ hs = H * S
  BY <1>1, <1>2, <1>4
<1>7. PICK D \in Nat, Z \in Nat :
        /\ D = Abs(ts - x) /\ Z = Abs(x - ns) /\ Z = StressOf(n, scenario)
        /\ Z <= hs - (2 * S + f)
  <2>1. ts - x \in Int /\ x - ns \in Int
    BY <1>4, <1>6
  <2>2. StressOf(n, scenario) = Abs(x - ns)
    BY <1>1, <1>4, <1>6 DEF StressOf
  <2>3. QED
    BY <1>1, <1>5, <1>6, <2>1, <2>2, AbsType
<1>8. D < S + f + 1
  <2>1. q * (S + f + 1) = q * S + q * f + q
    BY <1>1, <1>5
  <2>2. q * D \in Int /\ q * S \in Int /\ q * f \in Int
    BY <1>1, <1>5, <1>7
  <2>3. q * D < q * (S + f + 1)
    BY <1>1, <1>4, <1>5, <1>6, <1>7, <2>1, <2>2
  <2>4. S + f + 1 \in Int
    BY <1>1, <1>5
  <2>5. QED
    BY <1>1, <1>7, <2>3, <2>4, Cancel
<1>9. PICK l \in Nat : l = Abs(T - n) /\ l * S = Abs(ts - ns)
  <2>1. T - n \in Int /\ S \in Int
    BY <1>1, <1>2, <1>4
  <2>2. Abs((T - n) * S) = Abs(T - n) * Abs(S)
    BY <2>1, AbsProduct
  <2>3. Abs(S) = S
    BY <1>1 DEF Abs
  <2>4. (T - n) * S = ts - ns
    BY <1>1, <1>2, <1>4, <1>6
  <2>5. Abs(T - n) \in Nat
    BY <2>1, AbsType
  <2>6. QED
    BY <2>2, <2>3, <2>4, <2>5
<1>10. Abs(l * S - Z) <= D /\ l * S < hs
  <2>1. PICK m \in Int : m = l * S /\ m = Abs(ts - ns)
    BY <1>1, <1>9
  <2>2. QED
    BY <1>1, <1>4, <1>5, <1>6, <1>7, <1>8, <2>1 DEF Abs
<1>11. l < H
  <2>1. S * l < S * H
    BY <1>1, <1>6, <1>9, <1>10
  <2>2. QED
    BY <1>1, <1>9, <2>1, Cancel
<1>12. ScenarioLoss(n, scenario) = l
  <2>1. T - n \in Int /\ T - n \in -H .. H - 1 /\ l \in -H .. H - 1
    BY <1>1, <1>2, <1>4, <1>9, <1>11 DEF Abs
  <2>2. Wrapped(T - n, H) = T - n /\ Wrapped(l, H) = l
    BY <1>1, <1>9, <2>1, WrappedValue
  <2>3. Wrap(T - n) = T - n /\ Wrap(l) = l
    BY <1>1, <2>2 DEF Wrap, Wrapped
  <2>4. QED
    BY <1>4, <1>9, <2>3 DEF ScenarioLoss
<1>13. q * Abs(l * S - Z) < q * S + 2 * P
  <2>1. l * S - Z \in Int
    BY <1>1, <1>7, <1>9
  <2>2. PICK E \in Nat : E = Abs(l * S - Z)
    BY <2>1, AbsType
  <2>3. q * E <= q * D
    BY <1>1, <1>7, <1>10, <2>2, ProductMonotonic
  <2>4. q * E \in Int /\ q * D \in Int /\ q * S \in Int
    BY <1>1, <1>7, <2>2
  <2>5. QED
    BY <1>4, <1>6, <1>7, <2>2, <2>3, <2>4
<1>14. QED
  BY <1>1, <1>7, <1>9, <1>11, <1>12, <1>13

LEMMA AmountType == \A n : n \in Amount <=> n \in Int /\ -Half <= n /\ n < Half
<1>1. PICK H \in Nat \ {0} : H = Half
  BY SigType
<1>2. QED
  BY <1>1 DEF Amount

LEMMA WrapType == \A n \in Int : Wrap(n) \in Amount /\ (n \in Amount => Wrap(n) = n)
<1>1. PICK H \in Nat \ {0} : H = Half
  BY SigType
<1>2. ASSUME NEW n \in Int
      PROVE  Wrap(n) \in Amount /\ (n \in Amount => Wrap(n) = n)
  <2>1. Wrap(n) = Wrapped(n, H)
    BY <1>1 DEF Wrap, Wrapped
  <2>2. Amount = -H .. H - 1
    BY <1>1 DEF Amount
  <2>3. QED
    BY <1>1, <2>1, <2>2, WrappedValue
<1>3. QED
  BY <1>2

LEMMA ScaledType ==
    ASSUME NEW a \in -Half .. Half, NEW rate \in Rate
    PROVE  Scaled(a, rate) \in Amount
BY ScaledIsNear, SaturateValue

\* The worst scenario, or no loss.
LEMMA StressValue ==
    ASSUME ConfigOk, NEW n \in 0 .. Half - 1
    PROVE  LET stress == worst_case_stress(config, n)
           IN  /\ stress \in Nat /\ stress < Half
               /\ \A scenario \in config.stress_scenarios : ScenarioLoss(n, scenario) <= stress
               /\ \/ stress = 0
                  \/ \E scenario \in config.stress_scenarios : stress = ScenarioLoss(n, scenario)
<1> DEFINE W == {0} \cup {ScenarioLoss(n, scenario) : scenario \in config.stress_scenarios}
<1>1. PICK H \in Nat \ {0} : H = Half
  BY SigType
<1>2. n \in -Half .. Half /\ n \in Int
  BY <1>1
<1>3. ASSUME NEW scenario \in config.stress_scenarios
      PROVE  ScenarioLoss(n, scenario) \in Int /\ ScenarioLoss(n, scenario) <= H - 1
  <2>1. scenario \in Rate
    BY ConfigType
  <2>2. PICK T \in Int : T = Scaled(n, scenario)
    BY <1>2, <2>1, ScaledType, AmountType
  <2>3. T - n \in Int
    BY <1>2
  <2>4. PICK w \in Int : w = Wrap(T - n)
    BY <2>3, WrapType, AmountType
  <2>5. Abs(w) \in Int
    BY AbsType
  <2>6. Wrap(Abs(w)) \in Amount
    BY <2>5, WrapType
  <2>7. QED
    BY <1>1, <2>2, <2>4, <2>6, AmountType DEF ScenarioLoss
<1>4. W \in SUBSET Int /\ 0 \in W
  BY <1>3
<1>5. \A x \in W : x <= H - 1
  BY <1>1, <1>3
<1>6. Max(W) \in W /\ Max(W) \in Int /\ \A x \in W : x <= Max(W)
  <2>1. H - 1 \in Int
    BY <1>1
  <2>2. QED
    BY <1>4, <1>5, <2>1, MaxOfBounded
<1>7. worst_case_stress(config, n) = Max(W)
  BY DEF worst_case_stress
<1>8. Max(W) <= H - 1 /\ 0 <= Max(W)
  BY <1>4, <1>5, <1>6
<1>9. Max(W) \in Nat /\ Max(W) < Half
  BY <1>1, <1>6, <1>8
<1> HIDE DEF W
<1>10. \A scenario \in config.stress_scenarios : ScenarioLoss(n, scenario) \in W
  BY DEF W
<1>11. \A x \in W : x = 0 \/ \E scenario \in config.stress_scenarios :
                                 x = ScenarioLoss(n, scenario)
  BY DEF W
<1>12. QED
  BY <1>6, <1>7, <1>9, <1>10, <1>11

\* The largest of the three margins.
LEMMA RequirementValue ==
    ASSUME ConfigOk, NEW n \in 0 .. Half - 1, NEW e \in 0 .. n, NEW holder
    PROVE  LET R    == Requirement(config, holder, n, e).total_margin
               base == Scaled(n, config.initial_margin_rate)
                           + Scaled(e, config.variation_margin_rate)
           IN  /\ base \in Int /\ R \in Nat /\ R < Half
               /\ Saturate(base) <= R /\ worst_case_stress(config, n) <= R
               /\ config.margin_floor <= R
               /\ R \in {Saturate(base), worst_case_stress(config, n), config.margin_floor}
<1>1. PICK H \in Nat \ {0} : H = Half
  BY SigType
<1>2. n \in -Half .. Half /\ e \in -Half .. Half
  BY <1>1
<1>3. PICK i \in Int, v \in Int :
        /\ i = Scaled(n, config.initial_margin_rate)
        /\ v = Scaled(e, config.variation_margin_rate)
  BY <1>2, ConfigType, ScaledType, AmountType
<1>4. PICK b \in Int : b = Saturate(i + v) /\ b <= H - 1
  <2>1. i + v \in Int
    BY <1>3
  <2>2. QED
    BY <1>1, <2>1, SaturateValue, AmountType
<1>5. PICK s \in Nat : s = worst_case_stress(config, n) /\ s <= H - 1
  BY <1>1, StressValue
<1>6. PICK m \in Int : m = config.margin_floor /\ m <= H - 1
  BY <1>1, ConfigType
<1>7. PICK R : R = Max({b, s, m})
  OBVIOUS
<1>8. R \in {b, s, m} /\ b <= R /\ s <= R /\ m <= R
  <2>1. {b, s, m} \in SUBSET Int /\ b \in {b, s, m} /\ \A x \in {b, s, m} : x <= H - 1
    BY <1>4, <1>5, <1>6
  <2>2. H - 1 \in Int
    BY <1>1
  <2>3. QED
    BY <1>7, <2>1, <2>2, MaxOfBounded
<1>9. Requirement(config, holder, n, e).total_margin = R
  BY <1>3, <1>4, <1>5, <1>6, <1>7 DEF Requirement, MarginRequirement
<1>10. R \in Nat /\ R < H
  BY <1>1, <1>4, <1>5, <1>6, <1>8
<1>11. QED
  BY <1>1, <1>3, <1>4, <1>5, <1>6, <1>8, <1>9, <1>10

\* The largest of the exact figures.
LEMMA IdealValue ==
    ASSUME ConfigOk, NEW n \in Nat, NEW e \in 0 .. n
    PROVE  LET I    == Ideal(n, e)
               base == Times(n, config.initial_margin_rate)
                           + Times(e, config.variation_margin_rate)
           IN  /\ base \in Int /\ I \in Nat /\ base <= I
               /\ config.margin_floor * Scale \in Int /\ config.margin_floor * Scale <= I
               /\ \A scenario \in config.stress_scenarios : StressOf(n, scenario) <= I
               /\ \/ I \in {0, config.margin_floor * Scale, base}
                  \/ \E scenario \in config.stress_scenarios : I = StressOf(n, scenario)
<1>1. PICK x \in Int, y \in Int : /\ x = Times(n, config.initial_margin_rate)
                                  /\ y = Times(e, config.variation_margin_rate)
  BY ConfigType, TimesType
<1>2. PICK F \in Int, b \in Int : F = config.margin_floor * Scale /\ b = x + y
  <2>1. config.margin_floor * Scale \in Int
    BY ConfigType, SigType
  <2>2. QED
    BY <1>1, <2>1
<1>3. PICK t \in Int : t = n * LargestRate + n * Scale /\ t >= 0
  <2>1. n * LargestRate \in Nat /\ n * Scale \in Nat
    BY LargestRateType, SigType
  <2>2. QED
    BY <2>1
<1> DEFINE W == {0, F, b} \cup {StressOf(n, scenario) : scenario \in config.stress_scenarios}
<1>4. \A scenario \in config.stress_scenarios :
         StressOf(n, scenario) \in Nat /\ StressOf(n, scenario) <= t
  BY <1>3, StressType
<1>5. W \in SUBSET Int /\ 0 \in W
  BY <1>2, <1>4
<1>6. PICK u \in Int : t <= u /\ F <= u /\ b <= u
  <2>1. PICK f \in Nat, c \in Nat : f = Abs(F) /\ c = Abs(b) /\ F <= f /\ b <= c
    BY <1>2, AbsType
  <2>2. t + f + c \in Int /\ t <= t + f + c /\ F <= t + f + c /\ b <= t + f + c
    BY <1>2, <1>3, <2>1
  <2>3. QED
    BY <2>2
<1>7. \A x0 \in W : x0 <= u
  BY <1>2, <1>3, <1>4, <1>6
<1>8. Max(W) \in W /\ Max(W) \in Int /\ \A x0 \in W : x0 <= Max(W)
  BY <1>5, <1>6, <1>7, MaxOfBounded
<1>9. Ideal(n, e) = Max(W)
  BY <1>1, <1>2 DEF Ideal
<1>10. F \in W /\ b \in W /\ \A scenario \in config.stress_scenarios : StressOf(n, scenario) \in W
  OBVIOUS
<1>11. \A x0 \in W : x0 \in {0, F, b} \/ \E scenario \in config.stress_scenarios :
                                 x0 = StressOf(n, scenario)
  OBVIOUS
<1> HIDE DEF W
<1>12. Max(W) \in Nat
  BY <1>5, <1>8
<1>13. QED
  BY <1>1, <1>2, <1>8, <1>9, <1>10, <1>11, <1>12

(***************************************************************************)
(* A requirement is near the formula.  Two products are added, so it may   *)
(* be off by two ticks, and by twice the rounding of a product.            *)
(***************************************************************************)
LEMMA RequirementNear ==
    ASSUME ConfigOk, NEW n \in 0 .. Half - 1, NEW e \in 0 .. n, NEW holder,
           NEW L \in Nat, Room(L), NEW P \in Nat, P = n * LargestRate, P <= L,
           \A scenario \in config.stress_scenarios :
              StressOf(n, scenario) <= Half * Scale - Slack(L, 1)
    PROVE  LET R == Requirement(config, holder, n, e).total_margin
               I == Ideal(n, e)
           IN  /\ R \in Nat /\ R < Half /\ I \in Nat
               /\ Sig * (R * Scale - I) <= Sig * (2 * Scale) + 4 * P
               /\ R = Half - 1 \/ Sig * (I - R * Scale) <= Sig * (2 * Scale) + 4 * P
<1>1. PICK q \in Nat \ {0}, S \in Nat \ {0}, H \in Nat \ {0} : q = Sig /\ S = Scale /\ H = Half
  BY SigType
<1>2. n \in Nat /\ n \in -Half .. Half /\ e \in -Half .. Half /\ n \in 0 .. n
  BY <1>1
<1>3. PICK x \in Int, i \in Int :
        /\ x = Times(n, config.initial_margin_rate)
        /\ i = Scaled(n, config.initial_margin_rate)
        /\ q * Abs(i * S - x) < q * S + 2 * P
  <2>1. Abs(Times(n, config.initial_margin_rate)) <= P
    BY <1>2, TimesBound
  <2>2. QED
    BY <1>1, <1>2, <2>1, ConfigType, ScaledFits
<1>4. PICK y \in Int, v \in Int :
        /\ y = Times(e, config.variation_margin_rate)
        /\ v = Scaled(e, config.variation_margin_rate)
        /\ q * Abs(v * S - y) < q * S + 2 * P
  <2>1. Abs(Times(e, config.variation_margin_rate)) <= P
    BY <1>2, TimesBound
  <2>2. QED
    BY <1>1, <1>2, <2>1, ConfigType, ScaledFits
<1>5. PICK m \in Int, F \in Int : m = config.margin_floor /\ F = m * S
  BY <1>1, ConfigType
<1>6. PICK I \in Nat :
        /\ I = Ideal(n, e) /\ x + y <= I /\ F <= I
        /\ \A scenario \in config.stress_scenarios : StressOf(n, scenario) <= I
        /\ \/ I \in {0, F, x + y}
           \/ \E scenario \in config.stress_scenarios : I = StressOf(n, scenario)
  BY <1>1, <1>2, <1>3, <1>4, <1>5, IdealValue
<1>7. PICK s \in Nat :
        /\ s = worst_case_stress(config, n)
        /\ \A scenario \in config.stress_scenarios : ScenarioLoss(n, scenario) <= s
        /\ \/ s = 0
           \/ \E scenario \in config.stress_scenarios : s = ScenarioLoss(n, scenario)
  BY StressValue
<1>8. PICK b \in Int : b = Saturate(i + v) /\ b = IF i + v >= H THEN H - 1
                                                  ELSE IF i + v < -H THEN -H ELSE i + v
  <2>1. i + v \in Int
    BY <1>3, <1>4
  <2>2. QED
    BY <1>1, <2>1, SaturateValue, AmountType
<1>9. PICK R \in Nat :
        /\ R = Requirement(config, holder, n, e).total_margin
        /\ R < H /\ b <= R /\ s <= R /\ m <= R /\ R \in {b, s, m}
  BY <1>1, <1>3, <1>4, <1>5, <1>7, <1>8, RequirementValue
<1>10. PICK B \in Nat : B = q * (2 * S) + 4 * P
  BY <1>1
<1>11. PICK RS \in Nat : RS = R * S
  BY <1>1, <1>9
<1>13. ASSUME NEW k \in Int, k <= 0  PROVE q * k <= B
  <2>1. q * k <= q * 0
    BY <1>1, <1>13, ProductMonotonic
  <2>2. q * 0 = 0 /\ q * k \in Int
    BY <1>1
  <2>3. QED
    BY <1>10, <2>1, <2>2
<1>14. ASSUME NEW k \in Int, NEW l \in Int, k <= l, q * l <= B  PROVE q * k <= B
  <2>1. q * k <= q * l
    BY <1>1, <1>14, ProductMonotonic
  <2>2. q * k \in Int /\ q * l \in Int
    BY <1>1
  <2>3. QED
    BY <1>10, <1>14, <2>1, <2>2
\* The error of the two products.
<1>15. PICK t \in Int : /\ t = (i + v) * S
                        /\ q * (t - (x + y)) <= B /\ q * ((x + y) - t) <= B
  <2>1. PICK is \in Int, vs \in Int : is = i * S /\ vs = v * S /\ (i + v) * S = is + vs
    BY <1>1, <1>3, <1>4
  <2>2. PICK d \in Nat, g \in Nat : d = Abs(is - x) /\ g = Abs(vs - y)
    BY <1>3, <1>4, <2>1, AbsType
  <2>3. PICK qd \in Int, qg \in Int, qs \in Int : qd = q * d /\ qg = q * g /\ qs = q * S
    BY <1>1, <2>2
  <2>4. q * (d + g) = qd + qg /\ q * (2 * S) = 2 * qs
    BY <1>1, <2>2, <2>3
  <2>5. q * (d + g) <= B
    BY <1>1, <1>3, <1>4, <1>10, <2>1, <2>2, <2>3, <2>4
  <2>6. (is + vs) - (x + y) <= d + g /\ (x + y) - (is + vs) <= d + g
    BY <1>3, <1>4, <2>1, <2>2 DEF Abs
  <2>7. (is + vs) - (x + y) \in Int /\ (x + y) - (is + vs) \in Int /\ d + g \in Int
    BY <1>3, <1>4, <2>1, <2>2
  <2>8. q * ((is + vs) - (x + y)) <= B /\ q * ((x + y) - (is + vs)) <= B
    BY <1>14, <2>5, <2>6, <2>7
  <2>9. is + vs \in Int
    BY <2>1
  <2>10. QED
    BY <2>1, <2>8, <2>9
\* The error of a scenario.
<1>16. ASSUME NEW scenario \in config.stress_scenarios
       PROVE  \E l \in Nat, ls \in Nat, Z \in Nat :
                 /\ l = ScenarioLoss(n, scenario) /\ ls = l * S /\ Z = StressOf(n, scenario)
                 /\ q * (ls - Z) <= B /\ q * (Z - ls) <= B
  <2>1. PICK l \in Nat, Z \in Nat :
          /\ l = ScenarioLoss(n, scenario) /\ Z = StressOf(n, scenario)
          /\ q * Abs(l * S - Z) < q * S + 2 * P
    BY <1>1, <1>2, StressType, ScenarioNear
  <2>2. PICK ls \in Nat : ls = l * S
    BY <1>1, <2>1
  <2>3. PICK d \in Nat : d = Abs(ls - Z) /\ ls - Z <= d /\ Z - ls <= d
    <3>1. ls - Z \in Int
      BY <2>1, <2>2
    <3>2. QED
      BY <2>1, <2>2, <3>1, AbsType DEF Abs
  <2>4. q * d <= B
    <3>1. PICK qs \in Nat, qd \in Int : qs = q * S /\ qd = q * d
      BY <1>1, <2>3
    <3>2. q * (2 * S) = 2 * qs
      BY <1>1, <3>1
    <3>3. QED
      BY <1>10, <2>1, <2>2, <2>3, <3>1, <3>2
  <2>5. ls - Z \in Int /\ Z - ls \in Int
    BY <2>1, <2>2
  <2>6. q * (ls - Z) <= B /\ q * (Z - ls) <= B
    BY <1>14, <2>3, <2>4, <2>5
  <2>7. QED
    BY <2>1, <2>2, <2>6
\* Multiplied by Scale, the comparisons stay.
<1>17. \A k \in Int : k * S \in Int /\ (k <= R => k * S <= RS)
  <2>1. ASSUME NEW k \in Int, k <= R  PROVE k * S <= RS
    <3>1. S * k <= S * R
      BY <1>1, <2>1, ProductMonotonic
    <3>2. S * k = k * S /\ S * R = RS
      BY <1>1, <1>11
    <3>3. QED
      BY <3>1, <3>2
  <2>2. QED
    BY <1>1, <2>1
<1>18. q * (RS - I) <= B
  <2>1. CASE R = b
    <3>1. i + v >= -H /\ b <= i + v
      BY <1>1, <1>3, <1>4, <1>8, <1>9, <2>1
    <3>2. RS <= t
      <4>1. S * b <= S * (i + v)
        <5>1. i + v \in Int
          BY <1>3, <1>4
        <5>2. QED
          BY <1>1, <3>1, <5>1, ProductMonotonic
      <4>2. S * b = b * S /\ S * (i + v) = t
        BY <1>1, <1>3, <1>4, <1>15
      <4>3. QED
        BY <1>11, <2>1, <4>1, <4>2
    <3>3. RS - I <= t - (x + y) /\ RS - I \in Int /\ t - (x + y) \in Int
      BY <1>3, <1>4, <1>6, <1>11, <1>15, <3>2
    <3>4. QED
      BY <1>14, <1>15, <3>3
  <2>2. CASE R = s /\ s = 0
    <3>1. RS = 0
      BY <1>1, <1>11, <2>2
    <3>2. RS - I \in Int /\ RS - I <= 0
      BY <3>1
    <3>3. QED
      BY <1>13, <3>2
  <2>3. ASSUME R = s, NEW scenario \in config.stress_scenarios, s = ScenarioLoss(n, scenario)
        PROVE  q * (RS - I) <= B
    <3>1. PICK l \in Nat, ls \in Nat, Z \in Nat :
             /\ l = ScenarioLoss(n, scenario) /\ ls = l * S /\ Z = StressOf(n, scenario)
             /\ q * (ls - Z) <= B
      BY <1>16
    <3>2. RS = ls /\ Z <= I
      BY <1>6, <1>11, <2>3, <3>1
    <3>3. RS - I <= ls - Z /\ RS - I \in Int /\ ls - Z \in Int
      BY <3>2
    <3>4. QED
      BY <1>14, <3>1, <3>3
  <2>4. CASE R = m
    <3>1. RS = F
      BY <1>5, <1>11, <2>4
    <3>2. RS - I \in Int /\ RS - I <= 0
      BY <1>6, <3>1
    <3>3. QED
      BY <1>13, <3>2
  <2>5. QED
    BY <1>7, <1>9, <2>1, <2>2, <2>3, <2>4
<1>19. R = H - 1 \/ q * (I - RS) <= B
  <2>1. SUFFICES ASSUME R # H - 1  PROVE q * (I - RS) <= B
    OBVIOUS
  <2>2. CASE I = 0
    <3>1. I - RS \in Int /\ I - RS <= 0
      BY <2>2
    <3>2. QED
      BY <1>13, <3>1
  <2>3. CASE I = F
    <3>1. I - RS \in Int /\ I - RS <= 0
      BY <1>5, <1>9, <1>17, <2>3
    <3>2. QED
      BY <1>13, <3>1
  <2>4. CASE I = x + y
    <3>1. i + v <= R
      BY <1>1, <1>3, <1>4, <1>8, <1>9, <2>1
    <3>2. i + v \in Int
      BY <1>3, <1>4
    <3>3. t <= RS
      BY <1>15, <1>17, <3>1, <3>2
    <3>4. I - RS <= (x + y) - t /\ I - RS \in Int /\ (x + y) - t \in Int
      BY <1>3, <1>4, <2>4, <3>3
    <3>5. QED
      BY <1>14, <1>15, <3>4
  <2>5. ASSUME NEW scenario \in config.stress_scenarios, I = StressOf(n, scenario)
        PROVE  q * (I - RS) <= B
    <3>1. PICK l \in Nat, ls \in Nat, Z \in Nat :
             /\ l = ScenarioLoss(n, scenario) /\ ls = l * S /\ Z = StressOf(n, scenario)
             /\ q * (Z - ls) <= B
      BY <1>16
    <3>2. l \in Int /\ l <= R
      BY <1>7, <1>9, <3>1
    <3>3. ls <= RS
      BY <1>17, <3>1, <3>2
    <3>4. I - RS <= Z - ls /\ I - RS \in Int /\ Z - ls \in Int
      BY <2>5, <3>1, <3>3
    <3>5. QED
      BY <1>14, <3>1, <3>4
  <2>6. QED
    BY <1>6, <2>2, <2>3, <2>4, <2>5
<1>20. QED
  BY <1>1, <1>6, <1>9, <1>10, <1>11, <1>18, <1>19

-----------------------------------------------------------------------------
(***************************************************************************)
(* The sums of the loop, over the obligations of a sequence.               *)
(***************************************************************************)
GrossTerm(ob, a) == IF a \in {ob.deliverer, ob.receiver} THEN Abs(ob.net_payment) ELSE 0
NetTerm(ob, a)   == IF a \in {ob.deliverer, ob.receiver} THEN Signed(a, ob) ELSE 0

GrossTerms(obs, a) == [i \in 1 .. Len(obs) |-> GrossTerm(obs[i], a)]
NetTerms(obs, a)   == [i \in 1 .. Len(obs) |-> NetTerm(obs[i], a)]

GrossOf(obs, a) == SumFunctionOnSet(GrossTerms(obs, a), 1 .. Len(obs))
NetOf(obs, a)   == SumFunctionOnSet(NetTerms(obs, a), 1 .. Len(obs))

LEMMA TermTypes ==
    ASSUME NEW ob \in NetObligations, NEW a
    PROVE  /\ ob.net_payment \in Amount /\ ob.net_payment \in Int
           /\ GrossTerm(ob, a) \in Nat /\ NetTerm(ob, a) \in Int
           /\ Abs(NetTerm(ob, a)) <= GrossTerm(ob, a)
<1>1. ob.net_payment \in Amount /\ ob.net_payment \in Int
  BY PortfolioAssumption, AmountType DEF NetObligations, ObligationType
<1>2. QED
  BY <1>1 DEF GrossTerm, NetTerm, Signed, Abs

LEMMA PrefixFinite == \A n \in Nat : IsFiniteSet(1 .. n)
<1>1. ASSUME NEW n \in Nat  PROVE IsFiniteSet(1 .. n)
  <2>1. 1 \in Int /\ n \in Int
    OBVIOUS
  <2>2. QED
    BY <2>1, FS_Interval
<1>2. QED
  BY <1>1

\* One element more than in f.
LEMMA SumOneMore ==
    ASSUME NEW n \in Nat, NEW f, NEW g,
           \A i \in 1 .. n + 1 : g[i] \in Int, \A i \in 1 .. n : f[i] = g[i]
    PROVE  SumFunctionOnSet(g, 1 .. n + 1) = SumFunctionOnSet(f, 1 .. n) + g[n + 1]
<1>1. SumFunctionOnSet(g, 1 .. n + 1) = SumFunctionOnSet(g, 1 .. n) + g[n + 1]
  BY SumOfInterval
<1>2. SumFunctionOnSet(f, 1 .. n) = SumFunctionOnSet(g, 1 .. n)
  BY PrefixFinite, SumSame
<1>3. QED
  BY <1>1, <1>2

LEMMA SumsOneMore ==
    ASSUME NEW obs \in Seq(NetObligations), NEW ob \in NetObligations, NEW a
    PROVE  /\ GrossOf(Append(obs, ob), a) = GrossOf(obs, a) + GrossTerm(ob, a)
           /\ NetOf(Append(obs, ob), a) = NetOf(obs, a) + NetTerm(ob, a)
<1>1. PICK n \in Nat : n = Len(obs)
  OBVIOUS
<1>2. PICK more : more = Append(obs, ob)
  OBVIOUS
<1>3. /\ Len(more) = n + 1 /\ more[n + 1] = ob
      /\ \A i \in 1 .. n : more[i] = obs[i]
      /\ \A i \in 1 .. n + 1 : more[i] \in NetObligations
      /\ \A i \in 1 .. n : i \in 1 .. n + 1
      /\ n + 1 \in 1 .. n + 1
  BY <1>1, <1>2
<1>4. GrossOf(more, a) = GrossOf(obs, a) + GrossTerm(ob, a)
  <2>1. PICK f, g : f = GrossTerms(obs, a) /\ g = GrossTerms(more, a)
    OBVIOUS
  <2>2. /\ \A i \in 1 .. n : f[i] = GrossTerm(obs[i], a)
        /\ \A i \in 1 .. n + 1 : g[i] = GrossTerm(more[i], a)
    BY <1>1, <1>3, <2>1 DEF GrossTerms
  <2>3. \A i \in 1 .. n + 1 : g[i] \in Int
    BY <1>3, <2>2, TermTypes
  <2>4. \A i \in 1 .. n : f[i] = g[i]
    BY <1>3, <2>2
  <2>5. SumFunctionOnSet(g, 1 .. n + 1) = SumFunctionOnSet(f, 1 .. n) + g[n + 1]
    BY <2>3, <2>4, SumOneMore
  <2>6. g[n + 1] = GrossTerm(ob, a)
    BY <1>3, <2>2
  <2>7. QED
    BY <1>1, <1>3, <2>1, <2>5, <2>6 DEF GrossOf
<1>5. NetOf(more, a) = NetOf(obs, a) + NetTerm(ob, a)
  <2>1. PICK f, g : f = NetTerms(obs, a) /\ g = NetTerms(more, a)
    OBVIOUS
  <2>2. /\ \A i \in 1 .. n : f[i] = NetTerm(obs[i], a)
        /\ \A i \in 1 .. n + 1 : g[i] = NetTerm(more[i], a)
    BY <1>1, <1>3, <2>1 DEF NetTerms
  <2>3. \A i \in 1 .. n + 1 : g[i] \in Int
    BY <1>3, <2>2, TermTypes
  <2>4. \A i \in 1 .. n : f[i] = g[i]
    BY <1>3, <2>2
  <2>5. SumFunctionOnSet(g, 1 .. n + 1) = SumFunctionOnSet(f, 1 .. n) + g[n + 1]
    BY <2>3, <2>4, SumOneMore
  <2>6. g[n + 1] = NetTerm(ob, a)
    BY <1>3, <2>2
  <2>7. QED
    BY <1>1, <1>3, <2>1, <2>5, <2>6 DEF NetOf
<1>6. QED
  BY <1>2, <1>4, <1>5

\* What the model adds up for its properties.
LEMMA WhatTheLoopAdds ==
    ASSUME considered \in Seq(NetObligations)
    PROVE  Gross = GrossOf(considered, account) /\ Long - Short = NetOf(considered, account)
<1>1. PICK n \in Nat : n = Len(considered) /\ DOMAIN considered = 1 .. n
  OBVIOUS
<1>2. \A i \in 1 .. n : considered[i] \in NetObligations
  BY <1>1
<1>3. Gross = GrossOf(considered, account)
  BY <1>1 DEF Gross, Involved, Total, SumFunction, GrossOf, GrossTerms, GrossTerm
<1>4. PICK long, short, net :
        /\ long = [i \in 1 .. n |-> IF Receives(considered[i])
                                    THEN considered[i].net_payment ELSE 0]
        /\ short = [i \in 1 .. n |-> OutOf(considered[i], account, considered[i].net_payment)]
        /\ net = NetTerms(considered, account)
  OBVIOUS
<1>5. Long = SumFunctionOnSet(long, 1 .. n) /\ Short = SumFunctionOnSet(short, 1 .. n)
  BY <1>1, <1>4 DEF Long, Short, Total, SumFunction
<1>6. \A i \in 1 .. n : long[i] \in Int /\ short[i] \in Int /\ net[i] \in Int
                        /\ long[i] = net[i] + short[i]
  <2>1. TAKE i \in 1 .. n
  <2>2. PICK ob \in NetObligations : ob = considered[i] /\ ob.net_payment \in Int
    BY <1>2, TermTypes
  <2>3. /\ long[i] = IF Receives(ob) THEN ob.net_payment ELSE 0
        /\ short[i] = OutOf(ob, account, ob.net_payment)
        /\ net[i] = NetTerm(ob, account)
    BY <1>1, <1>4, <2>2 DEF NetTerms
  <2>4. QED
    BY <2>2, <2>3 DEF Receives, OutOf, NetTerm, Signed
<1>7. SumFunctionOnSet(long, 1 .. n)
        = SumFunctionOnSet(net, 1 .. n) + SumFunctionOnSet(short, 1 .. n)
  BY <1>6, PrefixFinite, SumPlus
<1>8. SumFunctionOnSet(net, 1 .. n) \in Int /\ SumFunctionOnSet(short, 1 .. n) \in Int
  BY <1>6, PrefixFinite, SumType
<1>9. QED
  BY <1>1, <1>3, <1>4, <1>5, <1>7, <1>8 DEF NetOf

-----------------------------------------------------------------------------
(***************************************************************************)
(* The invariant of the loop.  As long as nothing saturates or wraps, the  *)
(* two sums are the exact ones; and without the least payment, whose abs   *)
(* wraps, the notional is never negative.                                  *)
(***************************************************************************)
TypeInv ==
    /\ ConfigOk
    /\ considered \in Seq(NetObligations)
    /\ sums.notional \in Amount /\ sums.exposure \in Amount

SumsBounded ==
    /\ GrossOf(considered, account) \in Nat /\ NetOf(considered, account) \in Int
    /\ Abs(NetOf(considered, account)) <= GrossOf(considered, account)

ExactSums ==
    exact => /\ sums.notional = GrossOf(considered, account)
             /\ sums.exposure = NetOf(considered, account)
             /\ \A i \in 1 .. Len(considered) :
                   account \in {considered[i].deliverer, considered[i].receiver} =>
                      considered[i].net_payment # -Half

NotionalNotNegative ==
    (\A i \in 1 .. Len(considered) : considered[i].net_payment # -Half) => sums.notional >= 0

LoopInv == TypeInv /\ SumsBounded /\ ExactSums /\ NotionalNotNegative

LEMMA InitLoop == Init => LoopInv
<1>1. SUFFICES ASSUME Init  PROVE LoopInv
  OBVIOUS
<1>2. TypeInv /\ sums.notional = 0 /\ sums.exposure = 0
  <2>1. 0 \in Amount
    BY SigType, AmountType
  <2>2. QED
    BY <1>1, <2>1, PortfolioAssumption DEF Init, TypeInv, ConfigOk, NoExposure
<1>3. Len(considered) = 0 /\ 1 .. 0 = {}
  BY <1>1 DEF Init
<1>4. GrossOf(considered, account) = 0 /\ NetOf(considered, account) = 0
  BY <1>3, SumOfNothing DEF GrossOf, NetOf
<1>5. QED
  BY <1>2, <1>3, <1>4 DEF LoopInv, SumsBounded, ExactSums, NotionalNotNegative, Abs

\* What one round adds.
LEMMA ConsiderSums ==
    ASSUME TypeInv, NEW ob \in NetObligations, Consider(ob)
    PROVE  /\ sums'.notional \in Amount /\ sums'.exposure \in Amount
           /\ ob.net_payment # -Half =>
                 sums'.notional = IF Involved(ob)
                                  THEN Saturate(sums.notional + Abs(ob.net_payment))
                                  ELSE sums.notional
           /\ exact' => /\ exact
                        /\ Involved(ob) => ob.net_payment # -Half
                        /\ sums'.notional = sums.notional + GrossTerm(ob, account)
                        /\ sums'.exposure = sums.exposure + NetTerm(ob, account)
<1>1. PICK H \in Nat \ {0} : H = Half
  BY SigType
<1>2. PICK p \in Int, m \in Int, x \in Int :
        /\ p = ob.net_payment /\ -H <= p /\ p < H
        /\ m = sums.notional /\ -H <= m /\ m < H
        /\ x = sums.exposure /\ -H <= x /\ x < H
  BY <1>1, TermTypes, AmountType DEF TypeInv
<1>3. PICK g \in Int, t \in Int, w \in Int :
        g = Abs(p) /\ t = Signed(account, ob) /\ w = Wrap(g) /\ w \in Amount
        /\ (g \in Amount => w = g)
  <2>1. Abs(p) \in Int /\ Signed(account, ob) \in Int
    BY <1>2 DEF Abs, Signed
  <2>2. QED
    BY <2>1, WrapType, AmountType
<1>4. CASE Involved(ob)
  <2>1. sums' = [notional |-> Saturate(m + w), exposure |-> Saturate(x + t)]
    BY <1>2, <1>3, <1>4 DEF Consider, Considered, Involved
  <2>2. sums'.notional = Saturate(m + w) /\ sums'.exposure = Saturate(x + t)
    BY <2>1
  <2>3. m + w \in Int /\ x + t \in Int /\ w \in Int
    BY <1>2, <1>3, AmountType
  <2>4. Saturate(m + w) \in Amount /\ Saturate(x + t) \in Amount
    BY <2>3, SaturateValue
  <2>5. p # -H => g \in Amount
    BY <1>1, <1>2, <1>3, AmountType DEF Abs
  <2>6. p # -H => w = g
    BY <1>3, <2>5
  <2>7. ASSUME exact'
        PROVE  exact /\ m + g \in Amount /\ g \in Amount /\ x + t \in Amount
    BY <1>2, <1>3, <1>4, <2>7 DEF Consider
  <2>8. exact' => w = g /\ p # -H /\ Saturate(m + w) = m + g /\ Saturate(x + t) = x + t
    <3>1. ASSUME NEW k \in Amount  PROVE Saturate(k) = k
      BY <1>1, AmountType, SaturateValue
    <3>2. g \in Amount => p # -H
      BY <1>1, <1>2, <1>3, AmountType DEF Abs
    <3>3. QED
      BY <1>3, <2>7, <3>1, <3>2
  <2>9. GrossTerm(ob, account) = g /\ NetTerm(ob, account) = t
    BY <1>2, <1>3, <1>4 DEF GrossTerm, NetTerm, Involved
  <2>10. QED
    BY <1>1, <1>2, <1>3, <1>4, <2>2, <2>4, <2>6, <2>7, <2>8, <2>9
<1>5. CASE ~Involved(ob)
  <2>1. sums' = sums
    BY <1>5 DEF Consider, Considered, Involved
  <2>2. GrossTerm(ob, account) = 0 /\ NetTerm(ob, account) = 0
    BY <1>5 DEF GrossTerm, NetTerm, Involved
  <2>3. exact' => exact
    BY DEF Consider
  <2>4. sums.notional \in Int /\ sums.exposure \in Int
    BY <1>2
  <2>5. QED
    BY <1>5, <2>1, <2>2, <2>3, <2>4 DEF TypeInv
<1>6. QED
  BY <1>4, <1>5

LEMMA ConsiderLoop ==
    ASSUME LoopInv, NEW ob \in NetObligations, Consider(ob)
    PROVE  LoopInv'
<1>1. TypeInv /\ SumsBounded /\ ExactSums /\ NotionalNotNegative
  BY DEF LoopInv
<1>2. considered \in Seq(NetObligations) /\ considered' = Append(considered, ob)
      /\ account' = account /\ config' = config
  BY <1>1 DEF TypeInv, Consider
<1>3. PICK n \in Nat : n = Len(considered)
  BY <1>2
<1>4. /\ considered' \in Seq(NetObligations)
      /\ Len(considered') = n + 1 /\ considered'[n + 1] = ob
      /\ \A i \in 1 .. n : considered'[i] = considered[i] /\ i \in 1 .. n + 1
      /\ n + 1 \in 1 .. n + 1
      /\ \A i \in 1 .. n + 1 : i = n + 1 \/ i \in 1 .. n
  BY <1>2, <1>3
<1>5. /\ GrossOf(considered', account') = GrossOf(considered, account) + GrossTerm(ob, account)
      /\ NetOf(considered', account') = NetOf(considered, account) + NetTerm(ob, account)
  BY <1>2, SumsOneMore
<1>6. /\ sums'.notional \in Amount /\ sums'.exposure \in Amount
      /\ ob.net_payment # -Half =>
            sums'.notional = IF Involved(ob)
                             THEN Saturate(sums.notional + Abs(ob.net_payment))
                             ELSE sums.notional
      /\ exact' => /\ exact
                   /\ Involved(ob) => ob.net_payment # -Half
                   /\ sums'.notional = sums.notional + GrossTerm(ob, account)
                   /\ sums'.exposure = sums.exposure + NetTerm(ob, account)
  BY <1>1, ConsiderSums
<1>7. TypeInv'
  BY <1>1, <1>2, <1>4, <1>6 DEF TypeInv, ConfigOk
<1>8. SumsBounded'
  <2>1. PICK g \in Nat, t \in Int, G \in Nat, N \in Int :
          /\ g = GrossTerm(ob, account) /\ t = NetTerm(ob, account) /\ Abs(t) <= g
          /\ G = GrossOf(considered, account) /\ N = NetOf(considered, account) /\ Abs(N) <= G
    BY <1>1, TermTypes DEF SumsBounded
  <2>2. G + g \in Nat /\ N + t \in Int /\ Abs(N + t) <= G + g
    BY <2>1 DEF Abs
  <2>3. QED
    BY <1>5, <2>1, <2>2 DEF SumsBounded
<1>9. ExactSums'
  <2>1. SUFFICES ASSUME exact'
                 PROVE  /\ sums'.notional = GrossOf(considered', account')
                        /\ sums'.exposure = NetOf(considered', account')
                        /\ \A i \in 1 .. Len(considered') :
                              account' \in {considered'[i].deliverer, considered'[i].receiver} =>
                                 considered'[i].net_payment # -Half
    BY DEF ExactSums
  <2>2. ASSUME NEW i \in 1 .. n + 1,
               account' \in {considered'[i].deliverer, considered'[i].receiver}
        PROVE  considered'[i].net_payment # -Half
    <3>1. CASE i = n + 1
      BY <1>2, <1>4, <1>6, <2>1, <2>2, <3>1 DEF Involved
    <3>2. CASE i \in 1 .. n
      BY <1>1, <1>2, <1>3, <1>4, <1>6, <2>1, <2>2, <3>2 DEF ExactSums
    <3>3. QED
      BY <1>4, <3>1, <3>2
  <2>3. /\ sums'.notional = GrossOf(considered', account')
        /\ sums'.exposure = NetOf(considered', account')
    BY <1>1, <1>5, <1>6, <2>1 DEF ExactSums
  <2>4. QED
    BY <1>4, <2>2, <2>3
<1>10. NotionalNotNegative'
  <2>1. SUFFICES ASSUME \A i \in 1 .. n + 1 : considered'[i].net_payment # -Half
                 PROVE  sums'.notional >= 0
    BY <1>4 DEF NotionalNotNegative
  <2>2. ob.net_payment # -Half
    BY <1>4, <2>1
  <2>3. \A i \in 1 .. Len(considered) : considered[i].net_payment # -Half
    BY <1>3, <1>4, <2>1
  <2>4. sums.notional \in Nat
    BY <1>1, <2>3, AmountType DEF NotionalNotNegative, TypeInv
  <2>5. Abs(ob.net_payment) \in Nat
    BY TermTypes, AbsType
  <2>6. sums.notional + Abs(ob.net_payment) \in Nat
    BY <2>4, <2>5
  <2>7. \A k \in Nat : Saturate(k) >= 0
    BY SigType, SaturateValue
  <2>8. QED
    BY <1>6, <2>2, <2>4, <2>6, <2>7
<1>11. QED
  BY <1>7, <1>8, <1>9, <1>10 DEF LoopInv

LEMMA NextLoop == LoopInv /\ [Next]_vars => LoopInv'
<1>1. SUFFICES ASSUME LoopInv, [Next]_vars  PROVE LoopInv'
  OBVIOUS
<1>2. CASE Next
  BY <1>1, <1>2, ConsiderLoop DEF Next
<1>3. CASE UNCHANGED vars
  <2>1. config' = config /\ account' = account /\ considered' = considered
        /\ sums' = sums /\ exact' = exact
    BY <1>3 DEF vars
  <2>2. QED
    BY <1>1, <2>1 DEF LoopInv, TypeInv, ConfigOk, SumsBounded, ExactSums, NotionalNotNegative
<1>4. QED
  BY <1>1, <1>2, <1>3

LEMMA LoopIsInvariant == Spec => []LoopInv
BY InitLoop, NextLoop, PTL DEF Spec

-----------------------------------------------------------------------------
(***************************************************************************)
(* What the properties say, in the terms above.                            *)
(***************************************************************************)
LEMMA RoundingErrorIs ==
    \A n \in Nat : RoundingError(n) = Slack(LargestProduct, n)
BY DEF RoundingError, Slack, HalfSig

\* The portfolio, once its sums are exact.
LEMMA PortfolioFacts ==
    ASSUME LoopInv, exact, Unsaturated
    PROVE  LET L == LargestProduct
               G == Gross
               e == Abs(Long - Short)
               R == requirement.total_margin
           IN  /\ ConfigOk /\ G \in 0 .. Half - 1 /\ e \in 0 .. G
               /\ L \in Nat /\ L = G * LargestRate /\ Room(L)
               /\ IdealMargin \in Nat /\ IdealMargin <= Half * Scale - Slack(L, 1)
               /\ R \in Nat /\ R < Half
               /\ Sig * (R * Scale - IdealMargin) <= Sig * (2 * Scale) + 4 * L
               /\ R = Half - 1 \/ Sig * (IdealMargin - R * Scale) <= Sig * (2 * Scale) + 4 * L
<1>1. /\ ConfigOk /\ considered \in Seq(NetObligations)
      /\ sums.notional \in Amount /\ sums.exposure \in Amount
      /\ sums.notional = GrossOf(considered, account) /\ GrossOf(considered, account) \in Nat
      /\ sums.exposure = NetOf(considered, account) /\ NetOf(considered, account) \in Int
      /\ Abs(NetOf(considered, account)) <= GrossOf(considered, account)
  BY DEF LoopInv, TypeInv, SumsBounded, ExactSums
<1>2. PICK G \in Nat, x \in Int, e \in Nat, H \in Nat \ {0} :
        /\ H = Half /\ G = Gross /\ x = Long - Short /\ e = Abs(x)
        /\ G = sums.notional /\ x = sums.exposure /\ G < H /\ e <= G
  <2>1. Gross = GrossOf(considered, account) /\ Long - Short = NetOf(considered, account)
    BY <1>1, WhatTheLoopAdds
  <2>2. Half \in Nat \ {0}
    BY SigType
  <2>3. Abs(NetOf(considered, account)) \in Nat
    BY <1>1, AbsType
  <2>4. GrossOf(considered, account) < Half
    BY <1>1, AmountType
  <2>5. QED
    BY <1>1, <2>1, <2>2, <2>3, <2>4
<1>3. PICK L \in Nat : L = LargestProduct /\ L = G * LargestRate
  <2>1. LargestProduct = G * LargestRate /\ LargestRate \in Nat
    BY <1>1, <1>2, LargestRateType DEF LargestProduct
  <2>2. G * LargestRate \in Nat
    BY <2>1
  <2>3. QED
    BY <2>1, <2>2
<1>4. PICK top \in Int : top = Half * Scale - Slack(L, 1)
  <2>1. PICK f \in Nat : Slack(L, 1) = (2 * 1) * Scale + f
    BY SlackValue
  <2>2. QED
    BY <2>1, SigType
<1>5. IdealMargin \in 0 .. top /\ L \in 0 .. top
  <2>1. RoundingError(1) = Slack(L, 1)
    BY <1>3, RoundingErrorIs
  <2>2. QED
    BY <1>3, <1>4, <2>1 DEF Unsaturated
<1>6. Room(L)
  BY <1>4, <1>5 DEF Room
<1>7. G \in 0 .. Half - 1 /\ e \in 0 .. G
  BY <1>2
<1>8. IdealMargin = Ideal(G, e)
  BY <1>2 DEF IdealMargin
<1>9. \A scenario \in config.stress_scenarios : StressOf(G, scenario) <= top
  <2>1. TAKE scenario \in config.stress_scenarios
  <2>2. StressOf(G, scenario) <= IdealMargin
    BY <1>1, <1>7, <1>8, IdealValue
  <2>3. StressOf(G, scenario) \in Nat
    BY <1>1, StressType
  <2>4. QED
    BY <1>4, <1>5, <2>2, <2>3
<1>10. requirement = Requirement(config, account, G, e)
  BY <1>2 DEF requirement, PortfolioRequirement
<1>11. LET R == requirement.total_margin
           I == IdealMargin
       IN  /\ R \in Nat /\ R < Half /\ I \in Nat
           /\ Sig * (R * Scale - I) <= Sig * (2 * Scale) + 4 * L
           /\ R = Half - 1 \/ Sig * (I - R * Scale) <= Sig * (2 * Scale) + 4 * L
  <2>1. L <= L
    OBVIOUS
  <2>2. QED
    BY <1>1, <1>3, <1>4, <1>6, <1>7, <1>8, <1>9, <1>10, <2>1, RequirementNear
<1>12. QED
  BY <1>1, <1>2, <1>3, <1>4, <1>5, <1>6, <1>7, <1>11

(***************************************************************************)
(* What compute_portfolio_margin returns is what its formula says over the *)
(* rationals, up to one tick for each of two truncations and the relative  *)
(* error of two roundings for each product with a rate.                    *)
(***************************************************************************)
THEOREM MarginWithinRounding == Spec => []MarginIsAccurate
<1>1. LoopInv => MarginIsAccurate
  <2>1. SUFFICES ASSUME LoopInv, exact, Unsaturated
                 PROVE  Abs(requirement.total_margin * Scale - IdealMargin) <= RoundingError(1)
    BY DEF MarginIsAccurate
  <2>2. PICK L \in Nat, R \in Nat, I \in Nat :
          /\ L = LargestProduct /\ R = requirement.total_margin /\ I = IdealMargin
          /\ R < Half /\ I <= Half * Scale - Slack(L, 1)
          /\ Sig * (R * Scale - I) <= Sig * (2 * Scale) + 4 * L
          /\ R = Half - 1 \/ Sig * (I - R * Scale) <= Sig * (2 * Scale) + 4 * L
    BY <2>1, PortfolioFacts
  <2>3. PICK S \in Nat \ {0}, H \in Nat \ {0}, RS \in Nat :
          S = Scale /\ H = Half /\ RS = R * Scale
    BY SigType
  <2>4. PICK sl \in Nat : sl = Slack(L, 1) /\ sl >= 2 * S
    <3>1. PICK f \in Nat : Slack(L, 1) = (2 * 1) * Scale + f
      BY SlackValue
    <3>2. QED
      BY <2>3, <3>1
  <2>5. \A E \in Int : Sig * E <= Sig * (2 * S) + 4 * L => E <= sl
    <3>1. ASSUME NEW E \in Int, Sig * E <= Sig * (2 * S) + 4 * L
          PROVE  E <= sl
      <4>1. 1 \in Nat /\ (2 * 1) * Scale = 2 * S
        BY <2>3
      <4>2. Sig * E <= Sig * ((2 * 1) * Scale) + 4 * L
        BY <3>1, <4>1
      <4>3. QED
        BY <2>4, <4>1, <4>2, WithinSlack
    <3>2. QED
      BY <3>1
  <2>6. RS - I <= sl
    <3>1. RS - I \in Int
      OBVIOUS
    <3>2. QED
      BY <2>2, <2>3, <2>5, <3>1
  <2>7. I - RS <= sl
    <3>1. I - RS \in Int
      OBVIOUS
    <3>2. CASE R = H - 1
      <4>1. RS = H * S - S
        BY <2>3, <3>2
      <4>2. H * S \in Int /\ I <= H * S - sl
        BY <2>2, <2>3, <2>4
      <4>3. QED
        BY <2>3, <2>4, <4>1, <4>2
    <3>3. CASE R # H - 1
      BY <2>2, <2>3, <2>5, <3>1, <3>3
    <3>4. QED
      BY <3>2, <3>3
  <2>8. Abs(RS - I) <= sl
    BY <2>6, <2>7 DEF Abs
  <2>9. QED
    BY <2>2, <2>3, <2>4, <2>8, RoundingErrorIs
<1>2. QED
  BY <1>1, LoopIsInvariant, PTL

-----------------------------------------------------------------------------
(***************************************************************************)
(* A portfolio against its obligations one by one.                         *)
(***************************************************************************)
LEMMA SumOfEqualTerms ==
    ASSUME NEW S, IsFiniteSet(S), NEW K \in Int, NEW f, \A x \in S : f[x] = K
    PROVE  /\ Cardinality(S) \in Nat
           /\ SumFunctionOnSet(f, S) = K * Cardinality(S)
<1>1. Cardinality(S) \in Nat
  BY FS_CardinalityType
<1> DEFINE Bad == {T \in SUBSET S : SumFunctionOnSet(f, T) # K * Cardinality(T)}
<1>2. SUFFICES ASSUME Bad # {}  PROVE FALSE
  BY <1>1
<1>3. PICK T \in Bad : \A U \in Bad : U \subseteq T => U = T
  <2>1. Bad \in SUBSET (SUBSET S)
    OBVIOUS
  <2> HIDE DEF Bad
  <2>2. QED
    BY <1>2, <2>1, MinimalSubset
<1>4. T \in SUBSET S /\ SumFunctionOnSet(f, T) # K * Cardinality(T)
  BY <1>3
<1>5. IsFiniteSet(T)
  BY <1>4, FS_Subset
<1>6. T # {}
  <2>1. ASSUME T = {}  PROVE FALSE
    <3>1. SumFunctionOnSet(f, T) = 0 /\ Cardinality(T) = 0 /\ K * 0 = 0
      BY <2>1, SumOfNothing, FS_EmptySet
    <3> HIDE DEF Bad
    <3>2. QED
      BY <1>4, <3>1
  <2>2. QED
    BY <2>1
<1>7. PICK p \in T : TRUE
  BY <1>6
<1>8. PICK U : U = T \ {p}
  OBVIOUS
<1>9. SumFunctionOnSet(f, U) = K * Cardinality(U)
  BY <1>3, <1>7, <1>8
<1> HIDE DEF Bad
<1>10. SumFunctionOnSet(f, T) = K + SumFunctionOnSet(f, U)
  <2>1. f[p] = K /\ \A x \in T : f[x] \in Int
    BY <1>4, <1>7
  <2>2. SumFunctionOnSet(f, T) = f[p] + SumFunctionOnSet(f, T \ {p})
    BY <1>5, <2>1, SumTakeOut
  <2>3. QED
    BY <1>8, <2>1, <2>2
<1>11. PICK c \in Int, d \in Int : c = Cardinality(T) /\ d = Cardinality(U) /\ c = d + 1
  <2>1. IsFiniteSet(U) /\ Cardinality(U) = Cardinality(T) - 1
    BY <1>5, <1>7, <1>8, FS_RemoveElement
  <2>2. Cardinality(T) \in Int /\ Cardinality(U) \in Int
    BY <1>5, <2>1, FS_CardinalityType
  <2>3. QED
    BY <2>1, <2>2
<1>12. K * (d + 1) = K + K * d
  OBVIOUS
<1>13. QED
  BY <1>4, <1>9, <1>10, <1>11, <1>12

LEMMA SumTimes ==
    ASSUME NEW S, IsFiniteSet(S), NEW K \in Int, NEW f, NEW g,
           \A x \in S : f[x] \in Int /\ g[x] \in Int /\ g[x] = K * f[x]
    PROVE  SumFunctionOnSet(g, S) = K * SumFunctionOnSet(f, S)
<1> DEFINE Bad == {T \in SUBSET S : SumFunctionOnSet(g, T) # K * SumFunctionOnSet(f, T)}
<1>1. SUFFICES ASSUME Bad # {}  PROVE FALSE
  OBVIOUS
<1>2. PICK T \in Bad : \A U \in Bad : U \subseteq T => U = T
  <2>1. Bad \in SUBSET (SUBSET S)
    OBVIOUS
  <2> HIDE DEF Bad
  <2>2. QED
    BY <1>1, <2>1, MinimalSubset
<1>3. T \in SUBSET S /\ SumFunctionOnSet(g, T) # K * SumFunctionOnSet(f, T)
  BY <1>2
<1>4. IsFiniteSet(T)
  BY <1>3, FS_Subset
<1>5. T # {}
  <2>1. ASSUME T = {}  PROVE FALSE
    <3>1. SumFunctionOnSet(g, T) = 0 /\ SumFunctionOnSet(f, T) = 0 /\ K * 0 = 0
      BY <2>1, SumOfNothing
    <3> HIDE DEF Bad
    <3>2. QED
      BY <1>3, <3>1
  <2>2. QED
    BY <2>1
<1>6. PICK p \in T : TRUE
  BY <1>5
<1>7. PICK U : U = T \ {p}
  OBVIOUS
<1>8. SumFunctionOnSet(g, U) = K * SumFunctionOnSet(f, U)
  BY <1>2, <1>6, <1>7
<1> HIDE DEF Bad
<1>9. PICK fp \in Int, gp \in Int : fp = f[p] /\ gp = g[p] /\ gp = K * fp
  BY <1>3, <1>6
<1>10. \A x \in T : f[x] \in Int /\ g[x] \in Int
  BY <1>3
<1>11. /\ SumFunctionOnSet(f, T) = fp + SumFunctionOnSet(f, U)
       /\ SumFunctionOnSet(g, T) = gp + SumFunctionOnSet(g, U)
  <2>1. \A x \in T : f[x] \in Int
    BY <1>10
  <2>2. \A x \in T : g[x] \in Int
    BY <1>10
  <2>3. SumFunctionOnSet(f, T) = f[p] + SumFunctionOnSet(f, T \ {p})
    BY <1>4, <1>6, <2>1, SumTakeOut
  <2>4. SumFunctionOnSet(g, T) = g[p] + SumFunctionOnSet(g, T \ {p})
    BY <1>4, <1>6, <2>2, SumTakeOut
  <2>5. QED
    BY <1>7, <1>9, <2>3, <2>4
<1>12. PICK fu \in Int : fu = SumFunctionOnSet(f, U)
  <2>1. IsFiniteSet(U) /\ \A x \in U : f[x] \in Int
    BY <1>4, <1>7, <1>10, FS_Subset
  <2>2. SumFunctionOnSet(f, U) \in Int
    BY <2>1, SumType
  <2>3. QED
    BY <2>2
<1>13. K * (fp + fu) = K * fp + K * fu
  OBVIOUS
<1>14. QED
  BY <1>3, <1>8, <1>9, <1>11, <1>12, <1>13

\* The obligations of the account, their absolute payments, and their formulas.
Payment(i)     == Abs(considered[i].net_payment)
SingleMargin(i) == Requirement(config, considered[i].deliverer, Payment(i), Payment(i)).total_margin

LEMMA MineFacts ==
    ASSUME LoopInv, exact
    PROVE  /\ IsFiniteSet(Mine)
           /\ \A i \in Mine : /\ Payment(i) \in Nat /\ Payment(i) < Half
                              /\ Single(considered[i]).total_margin = SingleMargin(i)
           /\ \A f : (\A i \in Mine : f[i] = Payment(i)) => SumFunctionOnSet(f, Mine) = Gross
<1>1. PICK n \in Nat :
        /\ n = Len(considered) /\ DOMAIN considered = 1 .. n
        /\ considered \in Seq(NetObligations)
        /\ \A i \in 1 .. n : account \in {considered[i].deliverer, considered[i].receiver} =>
              considered[i].net_payment # -Half
  BY DEF LoopInv, TypeInv, ExactSums
<1>2. \A i \in 1 .. n : considered[i] \in NetObligations
  BY <1>1
<1>3. IsFiniteSet(1 .. n) /\ Mine \in SUBSET (1 .. n)
  BY <1>1, PrefixFinite DEF Mine
<1>4. IsFiniteSet(Mine)
  BY <1>3, FS_Subset
<1>5. \A i \in 1 .. n : /\ Payment(i) \in Nat
                        /\ i \in Mine => GrossTerm(considered[i], account) = Payment(i)
                        /\ i \notin Mine => GrossTerm(considered[i], account) = 0
  BY <1>1, <1>2, TermTypes, AbsType DEF Mine, Involved, GrossTerm, Payment
<1>6. ASSUME NEW i \in Mine
      PROVE  Payment(i) < Half /\ Single(considered[i]).total_margin = SingleMargin(i)
  <2>1. PICK H \in Nat \ {0}, p \in Int :
          /\ H = Half /\ p = considered[i].net_payment /\ -H < p /\ p < H
    <3>1. Half \in Nat \ {0}
      BY SigType
    <3>2. considered[i].net_payment \in Int /\ considered[i].net_payment \in Amount
      BY <1>2, <1>3, TermTypes
    <3>3. considered[i].net_payment # -Half
      BY <1>1, <1>3 DEF Mine, Involved
    <3>4. QED
      BY <3>1, <3>2, <3>3, AmountType
  <2>2. Payment(i) \in Nat /\ Payment(i) < H /\ Payment(i) \in Amount
    BY <2>1, AmountType DEF Payment, Abs
  <2>3. ObligationNotional(considered[i]) = Payment(i)
    BY <2>2, WrapType DEF ObligationNotional, Payment
  <2>4. compute_obligation_margin(config, considered[i])
          = Requirement(config, considered[i].deliverer, Payment(i), Payment(i))
    BY <2>3 DEF compute_obligation_margin
  <2>5. Single(considered[i]).total_margin = SingleMargin(i)
    BY <2>4 DEF Single, SingleMargin, Requirement, MarginRequirement
  <2>6. QED
    BY <2>1, <2>2, <2>5
<1>7. ASSUME NEW f, \A i \in Mine : f[i] = Payment(i)
      PROVE  SumFunctionOnSet(f, Mine) = Gross
  <2>1. PICK g : g = GrossTerms(considered, account)
    OBVIOUS
  <2>2. \A i \in 1 .. n : g[i] = GrossTerm(considered[i], account)
    BY <1>1, <2>1 DEF GrossTerms
  <2>3. \A i \in 1 .. n : g[i] \in Int
    BY <1>5, <2>2
  <2>4. \A i \in (1 .. n) \ Mine : g[i] = 0
    BY <1>5, <2>2
  <2>5. SumFunctionOnSet(g, 1 .. n) = SumFunctionOnSet(g, Mine)
    BY <1>3, <2>3, <2>4, SumOverSupport
  <2>6. \A i \in Mine : f[i] = g[i]
    BY <1>3, <1>5, <1>7, <2>2
  <2>7. SumFunctionOnSet(f, Mine) = SumFunctionOnSet(g, Mine)
    BY <1>4, <2>6, SumSame
  <2>8. Gross = SumFunctionOnSet(g, 1 .. n)
    BY <1>1, <2>1, WhatTheLoopAdds DEF GrossOf
  <2>9. QED
    BY <2>5, <2>7, <2>8
<1>8. \A i \in Mine : Payment(i) \in Nat
  BY <1>3, <1>5
<1>9. QED
  BY <1>4, <1>6, <1>7, <1>8

\* What an obligation of the account costs, against its formula.
LEMMA SingleNear ==
    ASSUME LoopInv, exact, Unsaturated, NEW i \in Mine
    PROVE  LET a == Payment(i)
               I == Ideal(a, a)
               R == SingleMargin(i)
           IN  /\ a \in Nat /\ a <= Gross /\ I \in Nat /\ R \in Nat /\ R < Half
               /\ \/ R = Half - 1
                  \/ Sig * (I - R * Scale) <= Sig * (2 * Scale) + 4 * (a * LargestRate)
<1>1. PICK L \in Nat, G \in Nat, e \in Nat, H \in Nat \ {0} :
        /\ L = LargestProduct /\ G = Gross /\ e = Abs(Long - Short) /\ H = Half
        /\ ConfigOk /\ G < H /\ e \in 0 .. G
        /\ L = G * LargestRate /\ Room(L)
        /\ IdealMargin \in Nat /\ IdealMargin <= Half * Scale - Slack(L, 1)
  <2>1. Half \in Nat \ {0}
    BY SigType
  <2>2. /\ ConfigOk /\ Gross \in 0 .. Half - 1 /\ Abs(Long - Short) \in 0 .. Gross
        /\ LargestProduct \in Nat /\ LargestProduct = Gross * LargestRate /\ Room(LargestProduct)
        /\ IdealMargin \in Nat
        /\ IdealMargin <= Half * Scale - Slack(LargestProduct, 1)
    BY PortfolioFacts
  <2>3. Gross \in Nat /\ Gross < Half /\ Abs(Long - Short) \in Nat
    BY <2>1, <2>2
  <2>4. QED
    BY <2>1, <2>2, <2>3
<1>2. PICK a \in Nat : a = Payment(i) /\ a < H /\ a <= G
  <2>1. PICK f : f = [k \in Mine |-> Payment(k)]
    OBVIOUS
  <2>2. \A k \in Mine : f[k] = Payment(k) /\ f[k] \in Nat
    BY <2>1, MineFacts
  <2>3. SumFunctionOnSet(f, Mine) = G
    BY <1>1, <2>2, MineFacts
  <2>4. f[i] <= SumFunctionOnSet(f, Mine)
    BY <2>2, MineFacts, TermAtMostSum
  <2>5. QED
    BY <1>1, <2>2, <2>3, <2>4, MineFacts
<1>3. PICK r \in Nat : r = LargestRate
  BY <1>1, LargestRateType
<1>4. PICK P \in Nat : P = a * r /\ P <= L
  <2>1. r * a <= r * G
    BY <1>1, <1>2, <1>3, ProductMonotonic
  <2>2. r * a = a * r /\ r * G = G * r /\ a * r \in Nat
    BY <1>1, <1>2, <1>3
  <2>3. QED
    BY <1>1, <1>3, <2>1, <2>2
<1>5. PICK top \in Int : top = Half * Scale - Slack(L, 1)
  <2>1. PICK f \in Nat : Slack(L, 1) = (2 * 1) * Scale + f
    BY SlackValue
  <2>2. QED
    BY <2>1, SigType
<1>6. \A scenario \in config.stress_scenarios : StressOf(a, scenario) <= top
  <2>1. TAKE scenario \in config.stress_scenarios
  <2>2. PICK z \in Nat : /\ z = StressOf(1, scenario)
                         /\ StressOf(a, scenario) = a * z /\ StressOf(G, scenario) = G * z
    <3>1. 1 \in Nat
      OBVIOUS
    <3>2. QED
      BY <1>1, <1>2, <3>1, StressType
  <2>3. StressOf(G, scenario) <= IdealMargin
    BY <1>1, IdealValue DEF IdealMargin
  <2>4. z * a <= z * G
    BY <1>1, <1>2, <2>2, ProductMonotonic
  <2>5. z * a = a * z /\ z * G = G * z /\ a * z \in Int /\ G * z \in Int
    BY <1>1, <1>2, <2>2
  <2>6. QED
    BY <1>1, <1>5, <2>2, <2>3, <2>4, <2>5
<1>7. a \in 0 .. Half - 1 /\ a \in 0 .. a
  BY <1>1, <1>2
<1>8. LET R == SingleMargin(i)
          I == Ideal(a, a)
      IN  /\ R \in Nat /\ R < Half /\ I \in Nat
          /\ R = Half - 1 \/ Sig * (I - R * Scale) <= Sig * (2 * Scale) + 4 * P
  <2>1. SingleMargin(i) = Requirement(config, considered[i].deliverer, a, a).total_margin
    BY <1>2 DEF SingleMargin
  <2>2. QED
    BY <1>1, <1>3, <1>4, <1>5, <1>6, <1>7, <2>1, RequirementNear
<1>9. QED
  BY <1>1, <1>2, <1>3, <1>4, <1>8

\* The formula of the portfolio is at most the sum of those of its obligations.
LEMMA IdealOfPortfolio ==
    ASSUME LoopInv, exact, Unsaturated, Mine # {},
           config.variation_margin_rate.num >= 0,
           NEW F, \A i \in Mine : F[i] = Ideal(Payment(i), Payment(i))
    PROVE  IdealMargin <= SumFunctionOnSet(F, Mine) /\ SumFunctionOnSet(F, Mine) \in Nat
<1>1. PICK G \in Nat, e \in Nat :
        /\ G = Gross /\ e = Abs(Long - Short) /\ ConfigOk /\ e \in 0 .. G /\ e <= G
  <2>1. Half \in Nat
    BY SigType
  <2>2. ConfigOk /\ Gross \in 0 .. Half - 1 /\ Abs(Long - Short) \in 0 .. Gross
    BY PortfolioFacts
  <2>3. Gross \in Nat /\ Abs(Long - Short) \in Nat /\ Abs(Long - Short) <= Gross
    BY <2>1, <2>2
  <2>4. QED
    BY <2>2, <2>3
<1>2. IsFiniteSet(Mine)
  BY MineFacts
<1>3. PICK a : a = [k \in Mine |-> Payment(k)]
  OBVIOUS
<1>4. \A i \in Mine : a[i] \in Nat /\ a[i] = Payment(i)
  BY <1>3, MineFacts
<1>5. SumFunctionOnSet(a, Mine) = G
  BY <1>1, <1>4, MineFacts
<1>6. \A i \in Mine : F[i] \in Nat /\ F[i] = Ideal(a[i], a[i])
  BY <1>4, SingleNear
<1>7. PICK all \in Nat : all = SumFunctionOnSet(F, Mine)
  BY <1>2, <1>6, SumIsNat
\* A multiple of each payment below each formula.
<1>8. ASSUME NEW k \in Int, \A i \in Mine : k * a[i] <= F[i]
      PROVE  k * G <= all
  <2>1. PICK g : g = [i \in Mine |-> k * a[i]]
    OBVIOUS
  <2>2. \A i \in Mine : a[i] \in Int /\ g[i] \in Int /\ g[i] = k * a[i]
    <3>1. TAKE i \in Mine
    <3>2. PICK x \in Int : x = a[i]
      BY <1>4
    <3>3. QED
      BY <2>1, <3>2
  <2>3. SumFunctionOnSet(g, Mine) = k * SumFunctionOnSet(a, Mine)
    BY <1>2, <2>2, SumTimes
  <2>4. \A i \in Mine : g[i] \in Int /\ F[i] \in Int /\ g[i] <= F[i]
    BY <1>6, <1>8, <2>2
  <2>5. SumFunctionOnSet(g, Mine) <= SumFunctionOnSet(F, Mine)
    BY <1>2, <2>4, SumMonotonic
  <2>6. QED
    BY <1>5, <1>7, <2>3, <2>5
<1>9. PICK x \in Int, y \in Int :
        /\ x = Times(1, config.initial_margin_rate) /\ y = Times(1, config.variation_margin_rate)
        /\ \A n \in Int : Times(n, config.initial_margin_rate) = n * x
        /\ \A n \in Int : Times(n, config.variation_margin_rate) = n * y
  BY <1>1, ConfigType, TimesType
<1>10. y >= 0
  <2>1. PICK num \in Nat, k \in Nat : num = config.variation_margin_rate.num
                                 /\ k = Scale \div config.variation_margin_rate.den
    BY <1>1, ConfigType, RateType
  <2>2. y = (1 * num) * k /\ 1 * num = num /\ num * k >= 0
    BY <1>9, <2>1 DEF Times
  <2>3. QED
    BY <2>2
<1>11. PICK gx \in Int, gy \in Int, ey \in Int, B \in Int :
         /\ gx = G * x /\ gy = G * y /\ ey = e * y /\ B = gx + ey
         /\ B = Times(G, config.initial_margin_rate) + Times(e, config.variation_margin_rate)
  <2>1. G \in Int /\ e \in Int /\ G * x \in Int /\ G * y \in Int /\ e * y \in Int
    BY <1>1, <1>9
  <2>2. Times(G, config.initial_margin_rate) = G * x
        /\ Times(e, config.variation_margin_rate) = e * y
    BY <1>9, <2>1
  <2>3. G * x + e * y \in Int
    BY <2>1
  <2>4. QED
    BY <2>1, <2>2, <2>3
<1>12. ASSUME IdealMargin = config.margin_floor * Scale  PROVE IdealMargin <= all
  <2>1. PICK i \in Mine : TRUE
    OBVIOUS
  <2>2. a[i] \in Nat /\ a[i] \in 0 .. a[i]
    BY <1>4
  <2>3. config.margin_floor * Scale <= F[i] /\ config.margin_floor * Scale \in Int
    BY <1>1, <1>6, <2>2, IdealValue
  <2>4. F[i] <= all
    BY <1>2, <1>6, <1>7, TermAtMostSum
  <2>5. QED
    BY <1>6, <1>7, <1>12, <2>3, <2>4
<1>13. ASSUME IdealMargin = B  PROVE IdealMargin <= all
  <2>1. ey <= gy
    <3>1. y * e <= y * G
      BY <1>1, <1>9, <1>10, ProductMonotonic
    <3>2. y * e = ey /\ y * G = gy
      BY <1>1, <1>9, <1>11
    <3>3. QED
      BY <3>1, <3>2
  <2>2. ASSUME NEW i \in Mine  PROVE (x + y) * a[i] <= F[i]
    <3>1. PICK n \in Nat : n = a[i] /\ n \in 0 .. n
      BY <1>4
    <3>2. Times(n, config.initial_margin_rate) + Times(n, config.variation_margin_rate) <= F[i]
      BY <1>1, <1>6, <3>1, IdealValue
    <3>3. (x + y) * n = n * x + n * y
      BY <1>9, <3>1
    <3>4. QED
      BY <1>9, <3>1, <3>2, <3>3
  <2>3. (x + y) * G <= all
    <3>1. x + y \in Int
      BY <1>9
    <3>2. QED
      BY <1>8, <2>2, <3>1
  <2>4. (x + y) * G = gx + gy
    BY <1>1, <1>9, <1>11
  <2>5. QED
    BY <1>7, <1>11, <1>13, <2>1, <2>3, <2>4
<1>14. ASSUME NEW scenario \in config.stress_scenarios, IdealMargin = StressOf(G, scenario)
       PROVE  IdealMargin <= all
  <2>1. PICK z \in Nat : z = StressOf(1, scenario)
    <3>1. 1 \in Nat
      OBVIOUS
    <3>2. QED
      BY <1>1, <3>1, StressType
  <2>2. ASSUME NEW i \in Mine  PROVE z * a[i] <= F[i]
    <3>1. PICK n \in Nat : n = a[i] /\ n \in 0 .. n
      BY <1>4
    <3>2. StressOf(n, scenario) = n * z
      BY <1>1, <2>1, StressType
    <3>3. StressOf(n, scenario) <= F[i]
      BY <1>1, <1>6, <3>1, IdealValue
    <3>4. n * z = z * n
      BY <2>1, <3>1
    <3>5. QED
      BY <3>1, <3>2, <3>3, <3>4
  <2>3. z * G <= all
    BY <1>8, <2>1, <2>2
  <2>4. StressOf(G, scenario) = G * z /\ G * z = z * G
    BY <1>1, <2>1, StressType
  <2>5. QED
    BY <1>14, <2>3, <2>4
<1>15. \/ IdealMargin \in {0, config.margin_floor * Scale, B}
       \/ \E scenario \in config.stress_scenarios : IdealMargin = StressOf(G, scenario)
  BY <1>1, <1>11, IdealValue DEF IdealMargin
<1>16. IdealMargin <= all
  <2>1. ASSUME IdealMargin = 0  PROVE IdealMargin <= all
    BY <1>7, <2>1
  <2>2. \/ IdealMargin = 0 \/ IdealMargin = config.margin_floor * Scale \/ IdealMargin = B
        \/ \E scenario \in config.stress_scenarios : IdealMargin = StressOf(G, scenario)
    BY <1>15
  <2>3. QED
    BY <1>12, <1>13, <1>14, <2>1, <2>2, Zenon
<1>17. QED
  BY <1>7, <1>16

\* Obligations whose margins do not saturate: the errors add up.
LEMMA SinglesTogether ==
    ASSUME LoopInv, exact, Unsaturated,
           NEW R, \A i \in Mine : R[i] = SingleMargin(i) /\ R[i] # Half - 1,
           NEW F, \A i \in Mine : F[i] = Ideal(Payment(i), Payment(i))
    PROVE  /\ SumFunctionOnSet(R, Mine) \in Int /\ SumFunctionOnSet(F, Mine) \in Int
           /\ Cardinality(Mine) \in Nat
           /\ Sig * (SumFunctionOnSet(F, Mine) - SumFunctionOnSet(R, Mine) * Scale)
                 <= Sig * ((2 * Cardinality(Mine)) * Scale) + 4 * LargestProduct
<1>1. PICK q \in Nat \ {0}, S \in Nat \ {0} : q = Sig /\ S = Scale
  BY SigType
<1>2. PICK G \in Nat, r \in Nat, L \in Nat :
        G = Gross /\ r = LargestRate /\ L = LargestProduct /\ L = G * r
  <2>1. ConfigOk /\ LargestProduct \in Nat /\ LargestProduct = Gross * LargestRate
    BY PortfolioFacts
  <2>2. Gross \in Nat
    <3>1. considered \in Seq(NetObligations) /\ GrossOf(considered, account) \in Nat
      BY DEF LoopInv, TypeInv, SumsBounded
    <3>2. QED
      BY <3>1, WhatTheLoopAdds
  <2>3. LargestRate \in Nat
    BY <2>1, LargestRateType
  <2>4. QED
    BY <2>1, <2>2, <2>3
<1>3. IsFiniteSet(Mine)
  BY MineFacts
<1>4. PICK a : a = [k \in Mine |-> Payment(k)]
  OBVIOUS
<1>5. \A i \in Mine : a[i] \in Nat /\ a[i] = Payment(i)
  BY <1>4, MineFacts
<1>6. SumFunctionOnSet(a, Mine) = G
  BY <1>2, <1>5, MineFacts
<1>7. \A i \in Mine : /\ R[i] \in Nat /\ F[i] \in Nat
                      /\ q * (F[i] - R[i] * S) <= q * (2 * S) + 4 * (a[i] * r)
  <2>1. TAKE i \in Mine
  <2>2. /\ Ideal(Payment(i), Payment(i)) \in Nat /\ SingleMargin(i) \in Nat
        /\ \/ SingleMargin(i) = Half - 1
           \/ Sig * (Ideal(Payment(i), Payment(i)) - SingleMargin(i) * Scale)
                 <= Sig * (2 * Scale) + 4 * (Payment(i) * LargestRate)
    BY SingleNear
  <2>3. R[i] = SingleMargin(i) /\ F[i] = Ideal(Payment(i), Payment(i)) /\ R[i] # Half - 1
    OBVIOUS
  <2>4. QED
    BY <1>1, <1>2, <1>5, <2>2, <2>3
<1>8. PICK QF, C, Y, Z, YZ, CYZ :
        /\ QF = [i \in Mine |-> q * F[i]]     /\ C = [i \in Mine |-> q * (2 * S)]
        /\ Y = [i \in Mine |-> (4 * r) * a[i]] /\ Z = [i \in Mine |-> (q * S) * R[i]]
        /\ YZ = [i \in Mine |-> Y[i] + Z[i]]   /\ CYZ = [i \in Mine |-> C[i] + YZ[i]]
  OBVIOUS
<1>9. PICK k \in Nat, p \in Nat, s \in Nat : k = q * (2 * S) /\ p = 4 * r /\ s = q * S
  BY <1>1, <1>2
<1>10. ASSUME NEW i \in Mine
       PROVE  /\ QF[i] \in Int /\ QF[i] = q * F[i] /\ F[i] \in Int
              /\ C[i] = k /\ C[i] \in Int
              /\ Y[i] \in Int /\ Y[i] = p * a[i] /\ a[i] \in Int
              /\ Z[i] \in Int /\ Z[i] = s * R[i] /\ R[i] \in Int
              /\ YZ[i] \in Int /\ YZ[i] = Y[i] + Z[i]
              /\ CYZ[i] \in Int /\ CYZ[i] = C[i] + YZ[i]
              /\ QF[i] <= CYZ[i]
  <2>1. PICK f \in Nat, m \in Nat, x \in Nat :
          /\ f = F[i] /\ m = R[i] /\ x = a[i]
          /\ q * (f - m * S) <= k + 4 * (x * r)
    BY <1>5, <1>7, <1>9
  <2>2. PICK qf \in Int, y \in Int, z \in Int : qf = q * f /\ y = p * x /\ z = s * m
    BY <1>1, <1>9, <2>1
  <2>3. /\ QF[i] = qf /\ C[i] = k /\ Y[i] = y /\ Z[i] = z
        /\ YZ[i] = y + z /\ CYZ[i] = k + (y + z)
    BY <1>8, <1>9, <2>1, <2>2
  <2>4. q * (f - m * S) = qf - z /\ 4 * (x * r) = y
    <3>1. PICK ms \in Int : ms = m * S
      BY <1>1, <2>1
    <3>2. q * (f - ms) = q * f - q * ms
      BY <1>1, <2>1, <3>1
    <3>3. (q * S) * m = q * (m * S) /\ (4 * r) * x = 4 * (x * r)
      BY <1>1, <1>2, <2>1
    <3>4. QED
      BY <1>9, <2>2, <3>1, <3>2, <3>3
  <2>5. QED
    BY <1>9, <2>1, <2>2, <2>3, <2>4
<1>11. PICK all \in Int, T \in Int :
         all = SumFunctionOnSet(F, Mine) /\ T = SumFunctionOnSet(R, Mine)
  <2>1. \A i \in Mine : F[i] \in Int
    BY <1>10
  <2>2. \A i \in Mine : R[i] \in Int
    BY <1>10
  <2>3. SumFunctionOnSet(F, Mine) \in Int
    BY <1>3, <2>1, SumType
  <2>4. SumFunctionOnSet(R, Mine) \in Int
    BY <1>3, <2>2, SumType
  <2>5. QED
    BY <2>3, <2>4
<1>12. SumFunctionOnSet(QF, Mine) = q * all
  <2>1. \A i \in Mine : F[i] \in Int /\ QF[i] \in Int /\ QF[i] = q * F[i]
    BY <1>10
  <2>2. q \in Int
    OBVIOUS
  <2>3. SumFunctionOnSet(QF, Mine) = q * SumFunctionOnSet(F, Mine)
    BY <1>3, <2>1, <2>2, SumTimes
  <2>4. QED
    BY <1>11, <2>3
<1>13. PICK c \in Nat : c = Cardinality(Mine) /\ SumFunctionOnSet(C, Mine) = k * c
  <2>1. \A i \in Mine : C[i] = k
    BY <1>10
  <2>2. k \in Int
    BY <1>9
  <2>3. QED
    BY <1>3, <2>1, <2>2, SumOfEqualTerms
<1>14. SumFunctionOnSet(Y, Mine) = p * G
  <2>1. \A i \in Mine : a[i] \in Int /\ Y[i] \in Int /\ Y[i] = p * a[i]
    BY <1>10
  <2>2. p \in Int
    BY <1>9
  <2>3. SumFunctionOnSet(Y, Mine) = p * SumFunctionOnSet(a, Mine)
    BY <1>3, <2>1, <2>2, SumTimes
  <2>4. QED
    BY <1>6, <2>3
<1>15. SumFunctionOnSet(Z, Mine) = s * T
  <2>1. \A i \in Mine : R[i] \in Int /\ Z[i] \in Int /\ Z[i] = s * R[i]
    BY <1>10
  <2>2. s \in Int
    BY <1>9
  <2>3. SumFunctionOnSet(Z, Mine) = s * SumFunctionOnSet(R, Mine)
    BY <1>3, <2>1, <2>2, SumTimes
  <2>4. QED
    BY <1>11, <2>3
<1>16. SumFunctionOnSet(YZ, Mine) = p * G + s * T
  <2>1. \A i \in Mine : Y[i] \in Int /\ Z[i] \in Int /\ YZ[i] = Y[i] + Z[i]
    BY <1>10
  <2>2. SumFunctionOnSet(YZ, Mine) = SumFunctionOnSet(Y, Mine) + SumFunctionOnSet(Z, Mine)
    BY <1>3, <2>1, SumPlus
  <2>3. QED
    BY <1>14, <1>15, <2>2
<1>17. SumFunctionOnSet(CYZ, Mine) = k * c + (p * G + s * T)
  <2>1. \A i \in Mine : C[i] \in Int /\ YZ[i] \in Int /\ CYZ[i] = C[i] + YZ[i]
    BY <1>10
  <2>2. SumFunctionOnSet(CYZ, Mine) = SumFunctionOnSet(C, Mine) + SumFunctionOnSet(YZ, Mine)
    BY <1>3, <2>1, SumPlus
  <2>3. QED
    BY <1>13, <1>16, <2>2
<1>18. q * all <= k * c + (p * G + s * T)
  <2>1. \A i \in Mine : QF[i] \in Int /\ CYZ[i] \in Int /\ QF[i] <= CYZ[i]
    BY <1>10
  <2>2. SumFunctionOnSet(QF, Mine) <= SumFunctionOnSet(CYZ, Mine)
    BY <1>3, <2>1, SumMonotonic
  <2>3. QED
    BY <1>12, <1>17, <2>2
<1>19. q * (all - T * S) <= q * ((2 * c) * S) + 4 * L
  <2>1. PICK ts \in Int : ts = T * S
    BY <1>1, <1>11
  <2>2. q * (all - ts) = q * all - q * ts
    BY <1>1, <1>11, <2>1
  <2>3. s * T = q * ts
    <3>1. (q * S) * T = q * (T * S)
      BY <1>1, <1>11
    <3>2. QED
      BY <1>9, <2>1, <3>1
  <2>4. p * G = 4 * L
    <3>1. (4 * r) * G = 4 * (G * r)
      BY <1>2
    <3>2. QED
      BY <1>2, <1>9, <3>1
  <2>5. k * c = q * ((2 * c) * S)
    <3>1. (q * (2 * S)) * c = q * ((2 * c) * S)
      BY <1>1, <1>13
    <3>2. QED
      BY <1>9, <3>1
  <2>6. PICK u \in Int, v \in Int, w \in Int :
          u = q * all /\ v = q * ts /\ w = q * ((2 * c) * S)
    BY <1>1, <1>11, <1>13, <2>1
  <2>7. u <= w + (4 * L + v)
    BY <1>18, <2>3, <2>4, <2>5, <2>6
  <2>8. QED
    BY <1>2, <2>1, <2>2, <2>6, <2>7
<1>20. QED
  BY <1>1, <1>2, <1>11, <1>13, <1>19

\* A call of compute_portfolio_margin asks for no more than one call of
\* compute_obligation_margin for each of the account's obligations, up to rounding.
THEOREM NettingIsNotDearer == Spec => []NettingNeverCostsMore
<1>1. LoopInv => NettingNeverCostsMore
  <2>1. SUFFICES ASSUME LoopInv, exact, Unsaturated, Mine # {},
                        config.variation_margin_rate.num >= 0
                 PROVE  (requirement.total_margin
                            - SumFunction([i \in Mine |-> Single(considered[i]).total_margin]))
                              * Scale
                           <= RoundingError(1) + RoundingError(Cardinality(Mine))
    BY DEF NettingNeverCostsMore
  <2>2. PICK L \in Nat, M \in Nat, I \in Nat :
          /\ L = LargestProduct /\ M = requirement.total_margin /\ I = IdealMargin
          /\ M < Half
          /\ Sig * (M * Scale - I) <= Sig * (2 * Scale) + 4 * L
    BY <2>1, PortfolioFacts
  <2>3. PICK S \in Nat \ {0}, H \in Nat \ {0}, MS \in Nat :
          S = Scale /\ H = Half /\ MS = M * Scale
    BY SigType
  <2>4. PICK R, F : /\ R = [i \in Mine |-> Single(considered[i]).total_margin]
                    /\ F = [i \in Mine |-> Ideal(Payment(i), Payment(i))]
    OBVIOUS
  <2>5. \A i \in Mine : /\ R[i] = SingleMargin(i) /\ R[i] \in Nat
                        /\ F[i] = Ideal(Payment(i), Payment(i))
    BY <2>1, <2>4, MineFacts, SingleNear
  <2>6. IsFiniteSet(Mine)
    BY <2>1, MineFacts
  <2>7. PICK T \in Nat : /\ T = SumFunctionOnSet(R, Mine)
                         /\ T = SumFunction([i \in Mine |-> Single(considered[i]).total_margin])
    <3>1. SumFunctionOnSet(R, Mine) \in Nat
      BY <2>5, <2>6, SumIsNat
    <3>2. DOMAIN R = Mine
      BY <2>4
    <3>3. QED
      BY <2>4, <3>1, <3>2 DEF SumFunction
  <2>8. PICK c \in Nat : c = Cardinality(Mine)
    BY <2>6, FS_CardinalityType
  <2>9. PICK s1 \in Nat, sc \in Nat :
          /\ s1 = Slack(L, 1) /\ sc = Slack(L, c)
          /\ s1 = RoundingError(1) /\ sc = RoundingError(Cardinality(Mine))
    <3>1. ASSUME NEW n \in Nat  PROVE Slack(L, n) \in Nat /\ RoundingError(n) = Slack(L, n)
      <4>1. PICK f \in Nat : Slack(L, n) = (2 * n) * Scale + f
        BY SlackValue
      <4>2. (2 * n) * Scale \in Nat
        BY <2>3
      <4>3. QED
        BY <2>2, <4>1, <4>2, RoundingErrorIs
    <3>2. 1 \in Nat
      OBVIOUS
    <3>3. QED
      BY <2>8, <3>1, <3>2
  <2>10. (M - T) * S <= s1 + sc
    <3>1. CASE \E i \in Mine : R[i] = H - 1
      <4>1. PICK i \in Mine : R[i] = H - 1
        BY <3>1
      <4>2. R[i] <= T
        BY <2>5, <2>6, <2>7, TermAtMostSum
      <4>3. M - T \in Int /\ M - T <= 0
        BY <2>2, <2>3, <4>1, <4>2
      <4>4. S * (M - T) <= S * 0
        BY <2>3, <4>3, ProductMonotonic
      <4>5. S * 0 = 0 /\ S * (M - T) = (M - T) * S
        BY <2>3, <4>3
      <4>6. QED
        BY <2>9, <4>4, <4>5
    <3>2. CASE \A i \in Mine : R[i] # H - 1
      <4>1. \A i \in Mine : R[i] = SingleMargin(i) /\ R[i] # Half - 1
        BY <2>3, <2>5, <3>2
      <4>2. PICK all \in Int :
              /\ all = SumFunctionOnSet(F, Mine)
              /\ Sig * (all - T * S) <= Sig * ((2 * c) * S) + 4 * L
        BY <2>1, <2>2, <2>3, <2>5, <2>7, <2>8, <4>1, SinglesTogether
      <4>3. I <= all
        BY <2>1, <2>2, <2>5, <4>2, IdealOfPortfolio
      <4>4. PICK TS \in Int : TS = T * S
        BY <2>3, <2>7
      <4>5. all - TS <= sc
        <5>1. all - TS \in Int
          BY <4>2, <4>4
        <5>2. Sig * (all - TS) <= Sig * ((2 * c) * Scale) + 4 * L
          BY <2>3, <4>2, <4>4
        <5>3. QED
          BY <2>8, <2>9, <5>1, <5>2, WithinSlack
      <4>6. MS - I <= s1
        <5>1. MS - I \in Int /\ 1 \in Nat /\ (2 * 1) * Scale = 2 * S
          BY <2>3
        <5>2. Sig * (MS - I) <= Sig * ((2 * 1) * Scale) + 4 * L
          BY <2>2, <2>3, <5>1
        <5>3. QED
          BY <2>9, <5>1, <5>2, WithinSlack
      <4>7. (M - T) * S = MS - TS
        BY <2>2, <2>3, <2>7, <4>4
      <4>8. QED
        BY <2>2, <2>3, <2>9, <4>2, <4>3, <4>4, <4>5, <4>6, <4>7
    <3>3. QED
      BY <3>1, <3>2
  <2>11. QED
    BY <2>2, <2>3, <2>7, <2>9, <2>10
<1>2. QED
  BY <1>1, LoopIsInvariant, PTL

-----------------------------------------------------------------------------
(***************************************************************************)
(* A product respects the order of amounts that are not negative, through  *)
(* both roundings, the truncation and the saturation.                      *)
(***************************************************************************)
LEMMA FloatNotNegative == \A n \in Numerator : n >= 0 => NearestFloat[n] >= 0
<1>1. 0 \in Numerator /\ NearestFloat[0] = 0
  <2>1. 0 \in -Half .. Half
    BY SigType
  <2>2. 0 \in Numerator
    BY <2>1, FloatOfAmount
  <2>3. PICK y \in Int, q \in Nat \ {0} : y = NearestFloat[0] /\ q = Sig
                                      /\ (q + 1) * Abs(y - 0) <= Abs(0)
    BY <2>2, FloatIsNear, SigType
  <2>4. PICK d \in Nat : d = Abs(y) /\ (q + 1) * d <= 0
    <3>1. y - 0 = y /\ Abs(0) = 0
      BY DEF Abs
    <3>2. QED
      BY <2>3, <3>1, AbsType
  <2>5. (q + 1) * d = q * d + d /\ q * d >= 0
    BY <2>3, <2>4
  <2>6. d = 0
    BY <2>3, <2>4, <2>5
  <2>7. QED
    BY <2>2, <2>3, <2>4, <2>6 DEF Abs
<1>2. ASSUME NEW n \in Numerator, n >= 0  PROVE NearestFloat[n] >= 0
  <2>1. 0 <= n /\ NearestFloat[n] \in Int
    BY <1>2, FloatIsNear
  <2>2. NearestFloat[0] <= NearestFloat[n]
    BY <1>1, <2>1, FloatIsMonotonic
  <2>3. QED
    BY <1>1, <2>1, <2>2
<1>3. QED
  BY <1>2

LEMMA DivMonotonic ==
    ASSUME NEW m \in Nat, NEW n \in Nat, m <= n, NEW d \in Nat \ {0}
    PROVE  m \div d <= n \div d
<1>1. PICK p \in Int, r \in 0 .. d - 1 : p = m \div d /\ m = d * p + r
  BY DivMod
<1>2. PICK q \in Int, s \in 0 .. d - 1 : q = n \div d /\ n = d * q + s
  BY DivMod
<1>3. ASSUME q + 1 <= p  PROVE FALSE
  <2>1. d * (q + 1) <= d * p
    BY <1>3, ProductMonotonic
  <2>2. d * (q + 1) = d * q + d /\ d * q \in Int /\ d * p \in Int
    OBVIOUS
  <2>3. QED
    BY <1>1, <1>2, <2>1, <2>2
<1>4. QED
  BY <1>1, <1>2, <1>3

LEMMA SaturateMonotonic ==
    ASSUME NEW m \in Int, NEW n \in Int, m <= n
    PROVE  Saturate(m) <= Saturate(n)
<1>1. PICK H \in Nat \ {0} : H = Half
  BY SigType
<1>2. /\ Saturate(m) = IF m >= H THEN H - 1 ELSE IF m < -H THEN -H ELSE m
      /\ Saturate(n) = IF n >= H THEN H - 1 ELSE IF n < -H THEN -H ELSE n
  BY <1>1, SaturateValue
<1>3. QED
  BY <1>1, <1>2

LEMMA ScaledIsMonotonic ==
    ASSUME NEW rate \in Rate, rate.num >= 0,
           NEW m \in Nat, NEW n \in Nat, m <= n, n < Half
    PROVE  Scaled(m, rate) <= Scaled(n, rate)
<1>1. PICK H \in Nat \ {0} : H = Half
  BY SigType
<1>2. m \in -Half .. Half /\ n \in -Half .. Half
  BY <1>1
<1>3. PICK num \in Nat, d \in Nat \ {0} : num = rate.num /\ num \in -Sig .. Sig /\ d = rate.den
  BY RateType
<1>4. PICK x \in Nat, y \in Nat : x = NearestFloat[m] /\ y = NearestFloat[n] /\ x <= y
  <2>1. m \in Numerator /\ n \in Numerator /\ m >= 0 /\ n >= 0 /\ 0 <= m
    BY <1>2, FloatOfAmount
  <2>2. NearestFloat[m] \in Int /\ NearestFloat[n] \in Int
    BY <2>1, FloatIsNear
  <2>3. NearestFloat[m] >= 0 /\ NearestFloat[n] >= 0
    BY <2>1, FloatNotNegative
  <2>4. NearestFloat[m] <= NearestFloat[n]
    BY <2>1, FloatIsMonotonic
  <2>5. QED
    BY <2>2, <2>3, <2>4
<1>5. PICK u \in Nat, v \in Nat : u = x * num /\ v = y * num /\ u <= v
  <2>1. num * x <= num * y
    BY <1>3, <1>4, ProductMonotonic
  <2>2. num * x = x * num /\ num * y = y * num /\ x * num \in Nat /\ y * num \in Nat
    BY <1>3, <1>4
  <2>3. QED
    BY <2>1, <2>2
<1>6. u \in Numerator /\ v \in Numerator
  BY <1>2, <1>3, <1>4, <1>5, TwoRoundings
<1>7. PICK f \in Nat, g \in Nat : f = NearestFloat[u] /\ g = NearestFloat[v] /\ f <= g
  <2>1. u >= 0 /\ v >= 0 /\ 0 <= u
    OBVIOUS
  <2>2. NearestFloat[u] \in Int /\ NearestFloat[v] \in Int
    BY <1>6, FloatIsNear
  <2>3. NearestFloat[u] >= 0 /\ NearestFloat[v] >= 0
    BY <1>6, <2>1, FloatNotNegative
  <2>4. NearestFloat[u] <= NearestFloat[v]
    BY <1>5, <1>6, <2>1, FloatIsMonotonic
  <2>5. QED
    BY <2>2, <2>3, <2>4
<1>8. PICK k \in Int, l \in Int : k = f \div d /\ l = g \div d /\ k <= l
  <2>1. f \div d \in Int /\ g \div d \in Int
    BY DivMod
  <2>2. f \div d <= g \div d
    BY <1>7, DivMonotonic
  <2>3. QED
    BY <2>1, <2>2
<1>9. TruncDiv(f, d) = k /\ TruncDiv(g, d) = l
  BY <1>7, <1>8 DEF TruncDiv
<1>10. Scaled(m, rate) = Saturate(k) /\ Scaled(n, rate) = Saturate(l)
  BY <1>3, <1>4, <1>5, <1>7, <1>9 DEF Scaled
<1>11. QED
  BY <1>8, <1>10, SaturateMonotonic

\* One round, without the least payment: the notional does not fall either.
LEMMA NotionalNeverFalls ==
    ASSUME LoopInv, [Next]_vars,
           \A i \in DOMAIN considered' : considered'[i].net_payment # -Half
    PROVE  /\ sums.notional \in Nat /\ sums'.notional \in Nat
           /\ sums.notional <= sums'.notional /\ sums'.notional < Half
<1>1. /\ considered \in Seq(NetObligations) /\ sums.notional \in Int /\ sums.notional < Half
      /\ considered' \in Seq(NetObligations) /\ sums'.notional \in Int /\ sums'.notional < Half
  <2>1. LoopInv'
    BY NextLoop
  <2>2. QED
    BY <2>1, AmountType DEF LoopInv, TypeInv
<1>2. CASE Next
  <2>1. PICK ob \in NetObligations : Consider(ob)
    BY <1>2 DEF Next
  <2>2. considered' = Append(considered, ob)
    BY <2>1 DEF Consider
  <2>3. PICK n \in Nat : n = Len(considered)
    BY <1>1
  <2>4. /\ DOMAIN considered' = 1 .. n + 1 /\ considered'[n + 1] = ob /\ n + 1 \in 1 .. n + 1
        /\ \A i \in 1 .. n : considered'[i] = considered[i] /\ i \in 1 .. n + 1
    BY <1>1, <2>2, <2>3
  <2>5. ob.net_payment # -Half /\ \A i \in 1 .. n : considered[i].net_payment # -Half
    BY <2>4
  <2>6. sums.notional >= 0
    BY <2>3, <2>5 DEF LoopInv, NotionalNotNegative
  <2>7. sums'.notional = IF Involved(ob)
                         THEN Saturate(sums.notional + Abs(ob.net_payment))
                         ELSE sums.notional
    BY <2>1, <2>5, ConsiderSums DEF LoopInv
  <2>8. PICK g \in Nat, H \in Nat \ {0} : g = Abs(ob.net_payment) /\ H = Half
    BY TermTypes, AbsType, SigType
  <2>9. PICK m \in Nat : m = sums.notional /\ m < H
    BY <1>1, <2>6, <2>8
  <2>10. Saturate(m + g) = IF m + g >= H THEN H - 1 ELSE m + g
    BY <2>8, SaturateValue
  <2>11. QED
    BY <1>1, <2>7, <2>8, <2>9, <2>10
<1>3. CASE UNCHANGED vars
  <2>1. considered' = considered /\ sums' = sums
    BY <1>3 DEF vars
  <2>2. sums.notional >= 0
    BY <1>1, <2>1 DEF LoopInv, NotionalNotNegative
  <2>3. QED
    BY <1>1, <2>1, <2>2
<1>4. QED
  BY <1>2, <1>3

\* A further round of the loop of compute_portfolio_margin never lowers the initial
\* margin, also when the notional saturates or its product with the rate is rounded.
THEOREM InitialMarginRises == Spec => InitialMarginNeverFalls
<1>1. LoopInv /\ [Next]_vars =>
        [/\ config.initial_margin_rate.num >= 0
         /\ \A i \in DOMAIN considered' : considered'[i].net_payment # -Half
         => InitialMargin(sums'.notional) >= InitialMargin(sums.notional)]_vars
  <2>1. SUFFICES ASSUME LoopInv, [Next]_vars, config.initial_margin_rate.num >= 0,
                        \A i \in DOMAIN considered' : considered'[i].net_payment # -Half
                 PROVE  InitialMargin(sums'.notional) >= InitialMargin(sums.notional)
    OBVIOUS
  <2>2. PICK m \in Nat, n \in Nat :
          m = sums.notional /\ n = sums'.notional /\ m <= n /\ n < Half
    BY <2>1, NotionalNeverFalls
  <2>3. config.initial_margin_rate \in Rate
    BY <2>1, ConfigType DEF LoopInv, TypeInv
  <2>4. PICK x \in Int, y \in Int : /\ x = Scaled(m, config.initial_margin_rate)
                                    /\ y = Scaled(n, config.initial_margin_rate)
    <3>1. m \in -Half .. Half /\ n \in -Half .. Half
      BY <2>2, SigType
    <3>2. QED
      BY <2>3, <3>1, ScaledType, AmountType
  <2>5. x <= y
    BY <2>1, <2>2, <2>3, <2>4, ScaledIsMonotonic
  <2>6. QED
    BY <2>2, <2>4, <2>5 DEF InitialMargin
<1>2. QED
  BY <1>1, LoopIsInvariant, PTL DEF Spec, InitialMarginNeverFalls

-----------------------------------------------------------------------------
(***************************************************************************)
(* The fold over a slice, as its library defines it: a table over the sets *)
(* of positions, in which the last position of a set is considered last.   *)
(***************************************************************************)
IsFold(it, a, obs, S) ==
    it = [s \in SUBSET S |->
            IF s = {} THEN NoExposure
            ELSE Considered(it[s \ {Max(s)}], a, obs[Max(s)])]

FoldOf(a, obs, S) == (CHOOSE it : IsFold(it, a, obs, S))[S]

LEMMA SumsAreChosen ==
    ASSUME NEW a, NEW obs
    PROVE  PortfolioSums(a, obs) = FoldOf(a, obs, DOMAIN obs)
BY DEF PortfolioSums, FoldLeft, MapThenFoldSet, IsFold, FoldOf

\* Each set of positions has a last one.
HasLasts(S) == IsFiniteSet(S) /\ \A s \in SUBSET S : s # {} => Max(s) \in s

LEMMA PrefixHasLasts == \A n \in Nat : HasLasts(1 .. n)
<1>1. SUFFICES ASSUME NEW n \in Nat, NEW s \in SUBSET (1 .. n), s # {}
               PROVE  Max(s) \in s
  BY PrefixFinite DEF HasLasts
<1>2. PICK z \in s : TRUE
  BY <1>1
<1>3. s \in SUBSET Int /\ n \in Int /\ \A x \in s : x <= n
  OBVIOUS
<1>4. QED
  BY <1>2, <1>3, MaxOfBounded

LEMMA PartHasLasts ==
    ASSUME NEW S, HasLasts(S), NEW T \in SUBSET S
    PROVE  HasLasts(T)
BY FS_Subset DEF HasLasts

LEMMA LastOfPrefix == \A n \in Nat : Max(1 .. n + 1) = n + 1 /\ (1 .. n + 1) \ {n + 1} = 1 .. n
<1>1. SUFFICES ASSUME NEW n \in Nat
               PROVE  Max(1 .. n + 1) = n + 1 /\ (1 .. n + 1) \ {n + 1} = 1 .. n
  OBVIOUS
<1>2. PICK s : s = 1 .. n + 1
  OBVIOUS
<1>3. s \in SUBSET Int /\ n + 1 \in s /\ n + 1 \in Int /\ \A x \in s : x <= n + 1
  BY <1>2
<1>4. Max(s) \in s /\ Max(s) \in Int /\ \A x \in s : x <= Max(s)
  BY <1>3, MaxOfBounded
<1>5. Max(s) = n + 1
  BY <1>3, <1>4
<1>6. QED
  BY <1>2, <1>5

\* Two tables agree on the positions where their slices do.
LEMMA FoldUnique ==
    ASSUME NEW a, NEW obs, NEW more, NEW A, HasLasts(A), NEW B, NEW g, NEW h,
           IsFold(g, a, obs, A), IsFold(h, a, more, B),
           NEW S \in SUBSET A, S \in SUBSET B, \A i \in S : obs[i] = more[i]
    PROVE  g[S] = h[S]
<1> DEFINE Bad == {T \in SUBSET S : g[T] # h[T]}
<1>1. SUFFICES ASSUME Bad # {}  PROVE FALSE
  OBVIOUS
<1>2. IsFiniteSet(S)
  BY FS_Subset DEF HasLasts
<1>3. PICK T \in Bad : \A U \in Bad : U \subseteq T => U = T
  <2> HIDE DEF Bad
  <2>1. Bad \in SUBSET (SUBSET S)  BY DEF Bad
  <2>2. QED  BY <1>1, <1>2, <2>1, MinimalSubset
<1>4. T \in SUBSET S /\ T \in SUBSET A /\ T \in SUBSET B /\ g[T] # h[T]
  BY <1>3
<1>5. T # {}
  BY <1>4 DEF IsFold
<1>6. PICK last \in T : last = Max(T)
  BY <1>4, <1>5 DEF HasLasts
<1>7. g[T \ {last}] = h[T \ {last}]
  <2>1. T \ {last} \notin Bad
    <3>1. T \ {last} \subseteq T /\ T \ {last} # T
      OBVIOUS
    <3> HIDE DEF Bad
    <3>2. QED
      BY <1>3, <3>1
  <2>2. QED
    BY <1>4, <2>1
<1>8. g[T] = Considered(g[T \ {last}], a, obs[last])
  BY <1>4, <1>5, <1>6 DEF IsFold
<1>9. h[T] = Considered(h[T \ {last}], a, more[last])
  BY <1>4, <1>5, <1>6 DEF IsFold
<1>10. obs[last] = more[last]
  BY <1>4
<1>11. QED
  BY <1>4, <1>7, <1>8, <1>9, <1>10

LEMMA FoldExists ==
    ASSUME NEW a, NEW obs, NEW S, HasLasts(S)
    PROVE  \E it : IsFold(it, a, obs, S)
<1> DEFINE Table(U) == CHOOSE it : IsFold(it, a, obs, U)
           Bad == {T \in SUBSET S : ~ \E it : IsFold(it, a, obs, T)}
<1>1. SUFFICES ASSUME Bad # {}  PROVE FALSE
  OBVIOUS
<1>2. PICK T \in Bad : \A U \in Bad : U \subseteq T => U = T
  <2>1. IsFiniteSet(S)  BY DEF HasLasts
  <2> HIDE DEF Bad
  <2>2. Bad \in SUBSET (SUBSET S)  BY DEF Bad
  <2>3. QED  BY <1>1, <2>1, <2>2, MinimalSubset
<1>3. ASSUME NEW U \in SUBSET T, U # T
      PROVE  IsFold(Table(U), a, obs, U)
  <2>1. \E it : IsFold(it, a, obs, U)
    BY <1>2, <1>3
  <2>2. QED
    BY <2>1
<1>4. \A s \in SUBSET T : HasLasts(s)
  BY <1>2, PartHasLasts
<1>5. \A s \in SUBSET T : s # {} => Max(s) \in s
  BY <1>4 DEF HasLasts
<1> DEFINE it == [s \in SUBSET T |->
                    IF s = {} THEN NoExposure
                    ELSE Considered(Table(s \ {Max(s)})[s \ {Max(s)}], a, obs[Max(s)])]
<1> HIDE DEF Table
<1>6. ASSUME NEW s \in SUBSET T, s # T
      PROVE  it[s] = Table(s)[s]
  <2>1. CASE s = {}
    BY <1>3, <1>6, <2>1 DEF IsFold
  <2>2. CASE s # {}
    <3> DEFINE u == s \ {Max(s)}
    <3>1. Max(s) \in s  BY <1>5, <2>2
    <3>2. IsFold(Table(s), a, obs, s) /\ IsFold(Table(u), a, obs, u)
      BY <1>3, <1>6, <3>1
    <3>3. HasLasts(s)
      BY <1>4
    <3>4. Table(s)[u] = Table(u)[u]
      <4> HIDE DEF u
      <4>1. u \in SUBSET s /\ u \in SUBSET u  BY DEF u
      <4>2. QED  BY <3>2, <3>3, <4>1, FoldUnique
    <3>5. Table(s)[s] = Considered(Table(s)[u], a, obs[Max(s)])
      <4> HIDE DEF u
      <4>1. Table(s) = [r \in SUBSET s |->
               IF r = {} THEN NoExposure
               ELSE Considered(Table(s)[r \ {Max(r)}], a, obs[Max(r)])]
        BY <3>2 DEF IsFold
      <4>2. QED  BY <4>1, <2>2 DEF u
    <3>6. it[s] = Considered(Table(u)[u], a, obs[Max(s)])
      BY <2>2
    <3>7. QED
      BY <3>4, <3>5, <3>6
  <2>3. QED
    BY <2>1, <2>2
<1>7. ASSUME NEW s \in SUBSET T, s # {}
      PROVE  Table(s \ {Max(s)})[s \ {Max(s)}] = it[s \ {Max(s)}]
  <2>1. Max(s) \in s  BY <1>5, <1>7
  <2>2. s \ {Max(s)} \in SUBSET T /\ s \ {Max(s)} # T  BY <2>1
  <2> HIDE DEF it
  <2>3. QED  BY <1>6, <2>2
<1>8. it = [s \in SUBSET T |->
              IF s = {} THEN NoExposure
              ELSE Considered(it[s \ {Max(s)}], a, obs[Max(s)])]
  BY <1>7
<1>9. QED
  <2> HIDE DEF it
  <2>1. IsFold(it, a, obs, T)  BY <1>8 DEF IsFold
  <2>2. QED  BY <1>2, <2>1

\* What the fold says, position after position.
LEMMA FoldEquation ==
    ASSUME NEW n \in Nat, NEW a, NEW obs
    PROVE  /\ FoldOf(a, obs, 1 .. 0) = NoExposure
           /\ FoldOf(a, obs, 1 .. n + 1) = Considered(FoldOf(a, obs, 1 .. n), a, obs[n + 1])
<1>1. PICK e : e = 1 .. 0 /\ e = {} /\ HasLasts(e)
  <2>1. 1 .. 0 = {} /\ 0 \in Nat
    OBVIOUS
  <2>2. QED
    BY <2>1, PrefixHasLasts
<1>2. PICK S, T : S = 1 .. n /\ T = 1 .. n + 1 /\ HasLasts(S) /\ HasLasts(T)
  <2>1. n + 1 \in Nat
    OBVIOUS
  <2>2. QED
    BY <2>1, PrefixHasLasts
<1>3. PICK f : f = (CHOOSE it : IsFold(it, a, obs, e)) /\ IsFold(f, a, obs, e)
  BY <1>1, FoldExists
<1>4. f[e] = NoExposure
  BY <1>1, <1>3 DEF IsFold
<1>5. PICK g : g = (CHOOSE it : IsFold(it, a, obs, S)) /\ IsFold(g, a, obs, S)
  BY <1>2, FoldExists
<1>6. PICK h : h = (CHOOSE it : IsFold(it, a, obs, T)) /\ IsFold(h, a, obs, T)
  BY <1>2, FoldExists
<1>7. S \in SUBSET T /\ S \in SUBSET S /\ T \in SUBSET T /\ T # {}
  BY <1>2
<1>8. Max(T) = n + 1 /\ T \ {n + 1} = S
  BY <1>2, LastOfPrefix
<1>9. h[T] = Considered(h[S], a, obs[n + 1])
  <2>1. \A s \in SUBSET T : s # {} => h[s] = Considered(h[s \ {Max(s)}], a, obs[Max(s)])
    BY <1>6 DEF IsFold
  <2>2. QED
    BY <1>7, <1>8, <2>1
<1>10. g[S] = h[S]
  <2>1. HasLasts(S) /\ S \in SUBSET S /\ S \in SUBSET T
    BY <1>2, <1>7
  <2>2. IsFold(g, a, obs, S) /\ IsFold(h, a, obs, T) /\ \A i \in S : obs[i] = obs[i]
    BY <1>5, <1>6
  <2>3. QED
    BY <2>1, <2>2, FoldUnique
<1>11. QED
  BY <1>1, <1>2, <1>3, <1>4, <1>5, <1>6, <1>9, <1>10 DEF FoldOf

LEMMA FoldSame ==
    ASSUME NEW n \in Nat, NEW a, NEW obs, NEW more, \A i \in 1 .. n : obs[i] = more[i]
    PROVE  FoldOf(a, obs, 1 .. n) = FoldOf(a, more, 1 .. n)
<1>1. PICK S : S = 1 .. n /\ HasLasts(S)
  BY PrefixHasLasts
<1>2. PICK g : g = (CHOOSE it : IsFold(it, a, obs, S)) /\ IsFold(g, a, obs, S)
  BY <1>1, FoldExists
<1>3. PICK h : h = (CHOOSE it : IsFold(it, a, more, S)) /\ IsFold(h, a, more, S)
  BY <1>1, FoldExists
<1>4. S \in SUBSET S /\ \A i \in S : obs[i] = more[i]
  BY <1>1
<1>5. g[S] = h[S]
  BY <1>1, <1>2, <1>3, <1>4, FoldUnique
<1>6. QED
  BY <1>1, <1>2, <1>3, <1>5 DEF FoldOf

\* The fold over nothing, and over one obligation more.
LEMMA SumsOfNothing == \A a : PortfolioSums(a, <<>>) = NoExposure
<1>1. SUFFICES ASSUME NEW a  PROVE PortfolioSums(a, <<>>) = NoExposure
  OBVIOUS
<1>2. PICK obs : obs = <<>>
  OBVIOUS
<1>3. DOMAIN obs = 1 .. 0
  BY <1>2
<1>4. FoldOf(a, obs, 1 .. 0) = NoExposure
  BY 0 \in Nat, FoldEquation
<1>5. QED
  BY <1>2, <1>3, <1>4, SumsAreChosen

LEMMA SumsOfAppend ==
    ASSUME NEW R, NEW obs \in Seq(R), NEW ob \in R, NEW a
    PROVE  PortfolioSums(a, Append(obs, ob)) = Considered(PortfolioSums(a, obs), a, ob)
<1>1. PICK n \in Nat : n = Len(obs) /\ DOMAIN obs = 1 .. n
  OBVIOUS
<1>2. PICK more : more = Append(obs, ob)
  OBVIOUS
<1>3. DOMAIN more = 1 .. n + 1 /\ more[n + 1] = ob /\ \A i \in 1 .. n : obs[i] = more[i]
  BY <1>1, <1>2
<1>4. FoldOf(a, obs, 1 .. n) = FoldOf(a, more, 1 .. n)
  BY <1>3, FoldSame
<1>5. FoldOf(a, more, 1 .. n + 1) = Considered(FoldOf(a, more, 1 .. n), a, more[n + 1])
  BY FoldEquation
<1>6. PortfolioSums(a, obs) = FoldOf(a, obs, 1 .. n)
      /\ PortfolioSums(a, more) = FoldOf(a, more, 1 .. n + 1)
  BY <1>1, <1>3, SumsAreChosen
<1>7. QED
  BY <1>2, <1>3, <1>4, <1>5, <1>6

LEMMA LoopOverOne ==
    ASSUME NEW c, NEW a, NEW ob
    PROVE  compute_portfolio_margin(c, a, <<ob>>)
             = PortfolioRequirement(c, a, Considered(NoExposure, a, ob))
<1>1. <<>> \in Seq({ob}) /\ ob \in {ob} /\ Append(<<>>, ob) = <<ob>>
  OBVIOUS
<1>2. PortfolioSums(a, <<ob>>) = Considered(NoExposure, a, ob)
  <2>1. PortfolioSums(a, Append(<<>>, ob)) = Considered(PortfolioSums(a, <<>>), a, ob)
    BY <1>1, SumsOfAppend
  <2>2. QED
    BY <1>1, <2>1, SumsOfNothing
<1>3. QED
  BY <1>2 DEF compute_portfolio_margin

LEMMA OtherHolder ==
    ASSUME NEW a, NEW b, NEW initial, NEW variation, NEW stress, NEW total
    PROVE  [MarginRequirement(a, initial, variation, stress, total) EXCEPT !.account_id = b]
             = MarginRequirement(b, initial, variation, stress, total)
BY DEF MarginRequirement

\* compute_portfolio_margin of one obligation is compute_obligation_margin of it.
THEOREM EntryPointsAgree == Spec => []SingleObligationAgrees
<1>1. LoopInv => SingleObligationAgrees
  <2>1. SUFFICES ASSUME LoopInv, NEW i \in DOMAIN considered,
                        Involved(considered[i]), considered[i].net_payment # -Half
                 PROVE  compute_portfolio_margin(config, account, <<considered[i]>>)
                          = Single(considered[i])
    BY DEF SingleObligationAgrees
  <2>2. PICK ob : ob = considered[i]
    OBVIOUS
  <2>3. ob \in NetObligations
    <3>1. considered \in Seq(NetObligations)
      BY <2>1 DEF LoopInv, TypeInv
    <3>2. QED
      BY <2>2, <3>1
  <2>4. PICK H \in Nat \ {0}, p \in Int :
          H = Half /\ p = ob.net_payment /\ -H < p /\ p < H
    <3>1. Half \in Nat \ {0}
      BY SigType
    <3>2. ob.net_payment \in Int /\ ob.net_payment \in Amount /\ ob.net_payment # -Half
      BY <2>1, <2>2, <2>3, TermTypes
    <3>3. QED
      BY <3>1, <3>2, AmountType
  <2>5. PICK g \in Nat, t \in Int :
          /\ g = Abs(p) /\ t = Signed(account, ob) /\ Abs(t) = g
          /\ g < H /\ -H <= t /\ t < H
    BY <2>4 DEF Abs, Signed
  <2>6. Wrap(g) = g /\ Saturate(0 + g) = g /\ Saturate(0 + t) = t
    <3>1. 0 + g = g /\ 0 + t = t /\ g \in Int /\ g \in Amount
      BY <2>4, <2>5, AmountType
    <3>2. Saturate(g) = g /\ Saturate(t) = t
      BY <2>4, <2>5, SaturateValue
    <3>3. QED
      BY <3>1, <3>2, WrapType
  <2>7. PICK w : w = Considered(NoExposure, account, ob)
    OBVIOUS
  <2>8. w.notional = g /\ w.exposure = t
    <3>1. account \in {ob.deliverer, ob.receiver}
      BY <2>1, <2>2 DEF Involved
    <3>2. w = [notional |-> Saturate(0 + g), exposure |-> Saturate(0 + t)]
      BY <2>4, <2>5, <2>6, <2>7, <3>1 DEF Considered, NoExposure
    <3>3. QED
      BY <2>6, <3>2
  <2>9. compute_portfolio_margin(config, account, <<ob>>) = Requirement(config, account, g, g)
    <3>1. compute_portfolio_margin(config, account, <<ob>>)
            = PortfolioRequirement(config, account, w)
      BY <2>7, LoopOverOne
    <3>2. QED
      BY <2>5, <2>8, <3>1 DEF PortfolioRequirement
  <2>10. Single(ob) = [Requirement(config, ob.deliverer, g, g) EXCEPT !.account_id = account]
    BY <2>4, <2>5, <2>6 DEF Single, compute_obligation_margin, ObligationNotional
  <2>11. [Requirement(config, ob.deliverer, g, g) EXCEPT !.account_id = account]
           = Requirement(config, account, g, g)
    <3>1. PICK x, y, s, z : /\ x = Scaled(g, config.initial_margin_rate)
                            /\ y = Scaled(g, config.variation_margin_rate)
                            /\ s = worst_case_stress(config, g)
                            /\ z = Max({Saturate(x + y), s, config.margin_floor})
      OBVIOUS
    <3>2. \A a : Requirement(config, a, g, g) = MarginRequirement(a, x, y, s, z)
      BY <3>1 DEF Requirement
    <3>3. PICK d : d = ob.deliverer
      OBVIOUS
    <3>4. [MarginRequirement(d, x, y, s, z) EXCEPT !.account_id = account]
            = MarginRequirement(account, x, y, s, z)
      BY OtherHolder
    <3>5. Requirement(config, d, g, g) = MarginRequirement(d, x, y, s, z)
      BY <3>2
    <3>6. [Requirement(config, d, g, g) EXCEPT !.account_id = account]
            = MarginRequirement(account, x, y, s, z)
      BY <3>4, <3>5, Zenon
    <3>7. QED
      BY <3>2, <3>3, <3>6, Zenon
  <2>12. QED
    BY <2>2, <2>9, <2>10, <2>11
<1>2. QED
  BY <1>1, LoopIsInvariant, PTL

-----------------------------------------------------------------------------
(***************************************************************************)
(* A slice whose gross payments fit, and of which no payment of the        *)
(* account is the least one, is added up exactly in whatever order.        *)
(***************************************************************************)
LEMMA ConsideredExactly ==
    ASSUME NEW ob \in NetObligations, NEW a, NEW G \in Nat, NEW N \in Int, Abs(N) <= G,
           G + GrossTerm(ob, a) < Half,
           a \in {ob.deliverer, ob.receiver} => ob.net_payment # -Half
    PROVE  Considered([notional |-> G, exposure |-> N], a, ob)
             = [notional |-> G + GrossTerm(ob, a), exposure |-> N + NetTerm(ob, a)]
<1>1. PICK H \in Nat \ {0} : H = Half
  BY SigType
<1>2. PICK s : s = [notional |-> G, exposure |-> N]
  OBVIOUS
<1>3. s.notional = G /\ s.exposure = N
  BY <1>2
<1>4. PICK p \in Int : p = ob.net_payment /\ -H <= p /\ p < H
  BY <1>1, TermTypes, AmountType
<1>5. CASE a \in {ob.deliverer, ob.receiver}
  <2>1. PICK g \in Nat, t \in Int : g = Abs(p) /\ t = Signed(a, ob) /\ Abs(t) = g
    BY <1>4 DEF Abs, Signed
  <2>2. GrossTerm(ob, a) = g /\ NetTerm(ob, a) = t
    BY <1>4, <1>5, <2>1 DEF GrossTerm, NetTerm
  <2>3. G + g < H /\ p # -H
    BY <1>1, <1>4, <1>5, <2>2
  <2>4. g \in Amount /\ G + g \in Amount /\ N + t \in Amount
    <3>1. -H <= N + t /\ N + t < H /\ -H <= g /\ g < H /\ -H <= G + g
      BY <2>1, <2>3 DEF Abs
    <3>2. QED
      BY <1>1, <2>1, <2>3, <3>1, AmountType
  <2>5. Wrap(g) = g /\ Saturate(G + g) = G + g /\ Saturate(N + t) = N + t
    <3>1. \A k \in Amount : Saturate(k) = k
      BY <1>1, AmountType, SaturateValue
    <3>2. Wrap(g) = g
      BY <2>1, <2>4, WrapType
    <3>3. QED
      BY <2>4, <3>1, <3>2
  <2>6. Considered(s, a, ob) = [notional |-> Saturate(G + g), exposure |-> Saturate(N + t)]
    BY <1>3, <1>4, <1>5, <2>1, <2>5 DEF Considered
  <2>7. QED
    BY <1>2, <2>2, <2>5, <2>6
<1>6. CASE a \notin {ob.deliverer, ob.receiver}
  <2>1. GrossTerm(ob, a) = 0 /\ NetTerm(ob, a) = 0
    BY <1>6 DEF GrossTerm, NetTerm
  <2>2. Considered(s, a, ob) = s
    BY <1>6 DEF Considered
  <2>3. G + 0 = G /\ N + 0 = N
    OBVIOUS
  <2>4. QED
    BY <1>2, <2>1, <2>2, <2>3
<1>7. QED
  BY <1>5, <1>6

LEMMA AbsOfSum ==
    \A x, g \in Nat, y, t \in Int :
        Abs(y) <= x /\ Abs(t) <= g => x + g \in Nat /\ y + t \in Int /\ Abs(y + t) <= x + g
BY DEF Abs

LEMMA SumsAreExact ==
    ASSUME NEW obs \in Seq(NetObligations), NEW a, GrossOf(obs, a) < Half,
           \A i \in 1 .. Len(obs) :
              a \in {obs[i].deliverer, obs[i].receiver} => obs[i].net_payment # -Half
    PROVE  PortfolioSums(a, obs) = [notional |-> GrossOf(obs, a), exposure |-> NetOf(obs, a)]
<1>1. PICK n \in Nat : n = Len(obs) /\ DOMAIN obs = 1 .. n
  OBVIOUS
<1>2. \A i \in 1 .. n : obs[i] \in NetObligations
  BY <1>1
<1>3. PICK f, h : f = GrossTerms(obs, a) /\ h = NetTerms(obs, a)
  OBVIOUS
<1>4. \A i \in 1 .. n : f[i] = GrossTerm(obs[i], a) /\ h[i] = NetTerm(obs[i], a)
  BY <1>1, <1>3 DEF GrossTerms, NetTerms
<1>5. \A i \in 1 .. n : f[i] \in Nat /\ f[i] \in Int /\ h[i] \in Int /\ Abs(h[i]) <= f[i]
  BY <1>2, <1>4, TermTypes
<1> DEFINE G(k) == SumFunctionOnSet(f, 1 .. k)
           N(k) == SumFunctionOnSet(h, 1 .. k)
           Exactly(k) == /\ FoldOf(a, obs, 1 .. k) = [notional |-> G(k), exposure |-> N(k)]
                         /\ G(k) \in Nat /\ N(k) \in Int /\ Abs(N(k)) <= G(k)
<1>6. G(n) = GrossOf(obs, a) /\ N(n) = NetOf(obs, a) /\ G(n) < Half
  BY <1>1, <1>3 DEF GrossOf, NetOf
<1>7. Exactly(0)
  <2>1. G(0) = 0 /\ N(0) = 0
    <3>1. 1 .. 0 = {}
      OBVIOUS
    <3>2. QED
      BY <3>1, SumOfNothing
  <2>2. FoldOf(a, obs, 1 .. 0) = NoExposure
    BY <1>1, FoldEquation
  <2>3. QED
    BY <2>1, <2>2 DEF NoExposure, Abs
<1>8. ASSUME NEW j \in Nat, j < n, Exactly(j)
      PROVE  Exactly(j + 1)
  <2>1. j + 1 \in 1 .. n /\ \A i \in 1 .. j + 1 : i \in 1 .. n
    BY <1>8
  <2>2. PICK ob \in NetObligations :
          /\ ob = obs[j + 1] /\ f[j + 1] = GrossTerm(ob, a) /\ h[j + 1] = NetTerm(ob, a)
          /\ a \in {ob.deliverer, ob.receiver} => ob.net_payment # -Half
    BY <1>1, <1>2, <1>4, <2>1
  <2>3. PICK g \in Nat, t \in Int : g = f[j + 1] /\ t = h[j + 1] /\ Abs(t) <= g
    BY <1>5, <2>1
  <2>4. G(j + 1) = G(j) + g /\ N(j + 1) = N(j) + t
    <3>1. \A i \in 1 .. j + 1 : f[i] \in Int /\ h[i] \in Int
      BY <1>5, <2>1
    <3>2. SumFunctionOnSet(f, 1 .. j + 1) = SumFunctionOnSet(f, 1 .. j) + f[j + 1]
      BY <3>1, SumOfInterval
    <3>3. SumFunctionOnSet(h, 1 .. j + 1) = SumFunctionOnSet(h, 1 .. j) + h[j + 1]
      BY <3>1, SumOfInterval
    <3>4. QED
      BY <2>3, <3>2, <3>3
  <2>5. G(j + 1) <= G(n)
    <3>1. PICK S, T : S = 1 .. n /\ T = 1 .. j + 1
      OBVIOUS
    <3>2. IsFiniteSet(S) /\ T \in SUBSET S /\ \A x \in S : f[x] \in Nat
      BY <1>5, <2>1, <3>1, PrefixFinite
    <3>3. SumFunctionOnSet(f, T) <= SumFunctionOnSet(f, S)
      BY <3>2, SumOfMore
    <3>4. QED
      BY <3>1, <3>3
  <2>6. PICK x \in Nat, y \in Int : x = G(j) /\ y = N(j) /\ Abs(y) <= x
    BY <1>8
  <2>7. x + g \in Nat /\ y + t \in Int /\ Abs(y + t) <= x + g
    BY <2>3, <2>6, AbsOfSum
  <2>8. x + GrossTerm(ob, a) < Half
    <3>1. PICK z : z = G(n)
      OBVIOUS
    <3>2. z \in Nat
      <4>1. \A i \in 1 .. n : f[i] \in Nat
        BY <1>5
      <4>2. QED
        BY <3>1, <4>1, PrefixFinite, SumIsNat
    <3>3. x + g <= z /\ z < Half /\ Half \in Nat
      BY <1>6, <2>4, <2>5, <2>6, <3>1, SigType
    <3>4. QED
      BY <2>2, <2>3, <2>6, <3>2, <3>3
  <2> HIDE DEF G, N
  <2>9. Considered([notional |-> x, exposure |-> y], a, ob)
          = [notional |-> x + GrossTerm(ob, a), exposure |-> y + NetTerm(ob, a)]
    BY <2>2, <2>6, <2>8, ConsideredExactly
  <2>10. FoldOf(a, obs, 1 .. j + 1) = Considered(FoldOf(a, obs, 1 .. j), a, obs[j + 1])
    BY FoldEquation
  <2>11. FoldOf(a, obs, 1 .. j) = [notional |-> x, exposure |-> y]
    BY <1>8, <2>6
  <2>12. QED
    BY <2>2, <2>3, <2>4, <2>6, <2>7, <2>9, <2>10, <2>11
<1>9. Exactly(n)
  <2> HIDE DEF Exactly
  <2> DEFINE Bad == {k \in Nat : k <= n /\ ~Exactly(k)}
  <2>1. SUFFICES ASSUME Bad # {}  PROVE FALSE
    BY <1>1
  <2>2. PICK k \in Bad : \A j \in Bad : k <= j
    <3>1. Bad \in SUBSET Nat
      OBVIOUS
    <3> HIDE DEF Bad
    <3>2. QED
      BY <2>1, <3>1, LeastNatural
  <2>3. k # 0
    BY <1>7, <2>2
  <2>4. PICK j \in Nat : k = j + 1 /\ j < n
    <3>1. k - 1 \in Nat /\ k = (k - 1) + 1 /\ k - 1 < n
      BY <1>1, <2>2, <2>3
    <3>2. QED
      BY <3>1
  <2>5. Exactly(j)
    BY <2>2, <2>4
  <2>6. QED
    BY <1>8, <2>2, <2>4, <2>5
<1>10. PortfolioSums(a, obs) = FoldOf(a, obs, 1 .. n)
  BY <1>1, SumsAreChosen
<1>11. QED
  BY <1>6, <1>9, <1>10

\* Another order of the slice has the same sums over the integers.
Reordered(obs, order) == [i \in DOMAIN obs |-> obs[order[i]]]

SameSums(other, obs, a) ==
    /\ other \in Seq(NetObligations) /\ Len(other) = Len(obs)
    /\ \A i \in 1 .. Len(other) : \E k \in 1 .. Len(obs) : other[i] = obs[k]
    /\ GrossOf(other, a) = GrossOf(obs, a) /\ NetOf(other, a) = NetOf(obs, a)

LEMMA PermutedSum ==
    ASSUME NEW S, IsFiniteSet(S), NEW e \in Bijection(S, S),
           NEW f, NEW g, \A x \in S : f[x] \in Int /\ f[x] = g[e[x]]
    PROVE  SumFunctionOnSet(f, S) = SumFunctionOnSet(g, S)
<1>1. /\ e \in [S -> S]
      /\ \A y \in S : \E x \in S : e[x] = y
      /\ \A x1, x2 \in S : e[x1] = e[x2] => x1 = x2
  BY DEF Bijection, Injection, Surjection, IsInjective
<1>2. QED
  BY <1>1, SumRenamed

LEMMA ReorderedSums ==
    ASSUME NEW obs \in Seq(NetObligations), NEW a, NEW order \in Bijection(DOMAIN obs, DOMAIN obs)
    PROVE  SameSums(Reordered(obs, order), obs, a)
<1> PICK other : other = Reordered(obs, order)
  OBVIOUS
<1>1. PICK n \in Nat : n = Len(obs) /\ DOMAIN obs = 1 .. n
  OBVIOUS
<1>2. PICK S : S = 1 .. n /\ IsFiniteSet(S)
  BY PrefixFinite
<1>3. order \in Bijection(S, S) /\ order \in [S -> S] /\ IsFiniteSet(S)
  BY <1>1, <1>2 DEF Bijection, Injection, Surjection
<1>4. \A i \in S : obs[i] \in NetObligations
  BY <1>1, <1>2
<1>5. other = [i \in 1 .. n |-> obs[order[i]]] /\ \A i \in S : order[i] \in S
  BY <1>1, <1>3 DEF Reordered
<1>6. \A i \in 1 .. n : obs[order[i]] \in NetObligations
  BY <1>2, <1>4, <1>5
<1>7. other \in Seq(NetObligations) /\ Len(other) = n
  BY <1>5, <1>6
<1>8. \A i \in S : other[i] = obs[order[i]]
  BY <1>2, <1>5
<1>9. GrossOf(other, a) = GrossOf(obs, a)
  <2>1. PICK f, g : f = GrossTerms(other, a) /\ g = GrossTerms(obs, a)
    OBVIOUS
  <2>2. \A i \in S : f[i] = GrossTerm(other[i], a) /\ g[i] = GrossTerm(obs[i], a)
    BY <1>1, <1>2, <1>7, <2>1 DEF GrossTerms
  <2>3. \A i \in S : g[i] \in Int
    BY <1>4, <2>2, TermTypes
  <2>4. \A i \in S : f[i] \in Int /\ f[i] = g[order[i]]
    BY <1>5, <1>8, <2>2, <2>3
  <2>5. SumFunctionOnSet(f, S) = SumFunctionOnSet(g, S)
    BY <1>3, <2>4, PermutedSum
  <2>6. QED
    BY <1>1, <1>2, <1>7, <2>1, <2>5 DEF GrossOf
<1>10. NetOf(other, a) = NetOf(obs, a)
  <2>1. PICK f, g : f = NetTerms(other, a) /\ g = NetTerms(obs, a)
    OBVIOUS
  <2>2. \A i \in S : f[i] = NetTerm(other[i], a) /\ g[i] = NetTerm(obs[i], a)
    BY <1>1, <1>2, <1>7, <2>1 DEF NetTerms
  <2>3. \A i \in S : g[i] \in Int
    BY <1>4, <2>2, TermTypes
  <2>4. \A i \in S : f[i] \in Int /\ f[i] = g[order[i]]
    BY <1>5, <1>8, <2>2, <2>3
  <2>5. SumFunctionOnSet(f, S) = SumFunctionOnSet(g, S)
    BY <1>3, <2>4, PermutedSum
  <2>6. QED
    BY <1>1, <1>2, <1>7, <2>1, <2>5 DEF NetOf
<1>11. QED
  BY <1>1, <1>2, <1>5, <1>7, <1>8, <1>9, <1>10 DEF SameSums

(***************************************************************************)
(* The loop, taken one obligation at a time, is the call on the slice.     *)
(***************************************************************************)
FoldInv == considered \in Seq(NetObligations) /\ sums = PortfolioSums(account, considered)

LEMMA FoldIsInvariant == Spec => []FoldInv
<1>1. Init => FoldInv
  BY SumsOfNothing DEF Init, FoldInv
<1>2. FoldInv /\ [Next]_vars => FoldInv'
  <2>1. SUFFICES ASSUME FoldInv, [Next]_vars  PROVE FoldInv'
    OBVIOUS
  <2>2. ASSUME NEW ob \in NetObligations, Consider(ob)
        PROVE  FoldInv'
    <3>1. considered' = Append(considered, ob) /\ account' = account
          /\ sums' = Considered(sums, account, ob)
      BY <2>2 DEF Consider
    <3>2. PortfolioSums(account, Append(considered, ob))
            = Considered(PortfolioSums(account, considered), account, ob)
      BY <2>1, SumsOfAppend DEF FoldInv
    <3>3. QED
      BY <2>1, <3>1, <3>2 DEF FoldInv
  <2>3. CASE UNCHANGED vars
    BY <2>1, <2>3 DEF vars, FoldInv
  <2>4. QED
    BY <2>1, <2>2, <2>3 DEF Next
<1>3. QED
  BY <1>1, <1>2, PTL DEF Spec

\* The order in which a HashMap delivers the slice does not reach the margin:
\* what is exact in one order is exact, and the same, in all.
THEOREM OrderIsIrrelevant == Spec => []OrderDoesNotMatter
<1>1. LoopInv /\ FoldInv => OrderDoesNotMatter
  <2>1. SUFFICES ASSUME LoopInv, FoldInv, exact,
                        NEW order \in Bijection(DOMAIN considered, DOMAIN considered)
                 PROVE  PortfolioSums(account, [i \in DOMAIN considered |-> considered[order[i]]])
                          = sums
    BY DEF OrderDoesNotMatter
  <2>2. considered \in Seq(NetObligations)
    BY <2>1 DEF FoldInv
  <2>3. PICK other : other = Reordered(considered, order)
    OBVIOUS
  <2>4. /\ other \in Seq(NetObligations) /\ Len(other) = Len(considered)
        /\ \A i \in 1 .. Len(other) : \E k \in 1 .. Len(considered) : other[i] = considered[k]
        /\ GrossOf(other, account) = GrossOf(considered, account)
        /\ NetOf(other, account) = NetOf(considered, account)
    <3>1. SameSums(other, considered, account)
      BY <2>2, <2>3, ReorderedSums
    <3>2. QED
      BY <3>1 DEF SameSums
  <2>5. GrossOf(considered, account) < Half
    BY <2>1, AmountType DEF LoopInv, TypeInv, ExactSums
  <2>6. \A i \in 1 .. Len(considered) :
          account \in {considered[i].deliverer, considered[i].receiver} =>
             considered[i].net_payment # -Half
    BY <2>1 DEF LoopInv, ExactSums
  <2>7. \A i \in 1 .. Len(other) :
          account \in {other[i].deliverer, other[i].receiver} => other[i].net_payment # -Half
    BY <2>4, <2>6
  <2>8. sums = [notional |-> GrossOf(considered, account), exposure |-> NetOf(considered, account)]
    BY <2>1, <2>2, <2>5, <2>6, SumsAreExact DEF FoldInv
  <2>9. PortfolioSums(account, other)
          = [notional |-> GrossOf(other, account), exposure |-> NetOf(other, account)]
    BY <2>4, <2>5, <2>7, SumsAreExact
  <2>10. QED
    BY <2>3, <2>4, <2>8, <2>9 DEF Reordered
<1>2. QED
  BY <1>1, LoopIsInvariant, FoldIsInvariant, PTL
=============================================================================
