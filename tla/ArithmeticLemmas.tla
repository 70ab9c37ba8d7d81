-------------------------- MODULE ArithmeticLemmas --------------------------
(***************************************************************************)
(* The arithmetic that the proofs of this project rest on: division with   *)
(* remainder, which models the width of an integer, and finite sums.  What *)
(* SumFunctionOnSet computes is proved from its definition as a fold.      *)
(*                                                                         *)
(* An induction here is an argument by a minimal counterexample: the set   *)
(* of the subsets for which a law fails, if it is not empty, has a member  *)
(* no other member is contained in (MinimalSubset).                        *)
(***************************************************************************)
EXTENDS FiniteSetsExt, FiniteSetTheorems, TLAPS

(***************************************************************************)
(* Division with remainder: what it gives, and that nothing else fits.     *)
(***************************************************************************)
LEMMA DivMod ==
    ASSUME NEW a \in Int, NEW M \in Nat \ {0}
    PROVE  /\ a \div M \in Int /\ a % M \in 0 .. M - 1
           /\ a = M * (a \div M) + (a % M)
OBVIOUS

LEMMA SmallMultiple ==
    ASSUME NEW M \in Nat \ {0}, NEW k \in Int, M * k < M, M * k > -M
    PROVE  k = 0
<1>1. k >= 1 => M * k >= M
  OBVIOUS
<1>2. k <= -1 => M * k <= -M
  OBVIOUS
<1>3. QED
  BY <1>1, <1>2

LEMMA DivModUnique ==
    ASSUME NEW a \in Int, NEW M \in Nat \ {0}, NEW k \in Int, NEW r \in 0 .. M - 1,
           a = M * k + r
    PROVE  a % M = r /\ a \div M = k
<1> DEFINE q == a \div M
           s == a % M
<1>1. q \in Int /\ s \in 0 .. M - 1 /\ a = M * q + s
  BY DivMod
<1> HIDE DEF q, s
<1>2. M * (k - q) = M * k - M * q
  BY <1>1
<1>3. M * (k - q) = s - r
  <2>1. M * k \in Int /\ M * q \in Int
    BY <1>1
  <2>2. QED
    BY <1>1, <1>2, <2>1
<1>4. k - q = 0
  BY <1>1, <1>3, SmallMultiple
<1>5. k = q
  BY <1>1, <1>4
<1>6. s = r
  BY <1>1, <1>5
<1>7. QED
  BY <1>5, <1>6 DEF q, s

\* A remainder can be taken before an addition.
LEMMA ModAdd ==
    ASSUME NEW x \in Int, NEW y \in Int, NEW M \in Nat \ {0}
    PROVE  ((x % M) + y) % M = (x + y) % M
<1> DEFINE q == x \div M
           r == x % M
           z == (r + y) % M
           k == (r + y) \div M
<1>1. q \in Int /\ r \in 0 .. M - 1 /\ x = M * q + r
  BY DivMod
<1>2. r + y \in Int
  BY <1>1
<1> HIDE DEF r
<1>3. k \in Int /\ z \in 0 .. M - 1 /\ r + y = M * k + z
  BY <1>2, DivMod
<1> HIDE DEF q, z, k
<1>4. M * (q + k) = M * q + M * k
  BY <1>1, <1>3
<1>5. x + y = M * (q + k) + z
  <2>1. M * q \in Int /\ M * k \in Int
    BY <1>1, <1>3
  <2>2. QED
    BY <1>1, <1>3, <1>4, <2>1
<1>6. (x + y) % M = z
  <2>1. x + y \in Int /\ q + k \in Int
    BY <1>1, <1>3
  <2>2. QED
    BY <1>3, <1>5, <2>1, DivModUnique
<1>7. QED
  BY <1>6 DEF z, r

\* A multiple of the divisor makes no difference to the remainder.
LEMMA ModShift ==
    ASSUME NEW a \in Int, NEW k \in Int, NEW M \in Nat \ {0}
    PROVE  (a + M * k) % M = a % M
<1> DEFINE q == a \div M
           r == a % M
<1>1. q \in Int /\ r \in 0 .. M - 1 /\ a = M * q + r
  BY DivMod
<1> HIDE DEF q, r
<1>2. M * (q + k) = M * q + M * k /\ M * k \in Int /\ M * q \in Int
  BY <1>1
<1>3. a + M * k = M * (q + k) + r
  BY <1>1, <1>2
<1>4. q + k \in Int /\ a + M * k \in Int
  BY <1>1, <1>2
<1>5. (a + M * k) % M = r
  BY <1>1, <1>3, <1>4, DivModUnique
<1>6. QED
  BY <1>5 DEF r

LEMMA ModZero ==
    ASSUME NEW a \in Int, NEW M \in Nat \ {0}
    PROVE  a % M = 0 <=> \E k \in Int : a = M * k
<1>1. ASSUME a % M = 0  PROVE \E k \in Int : a = M * k
  <2>1. a \div M \in Int /\ a = M * (a \div M) + (a % M)
    BY DivMod
  <2>2. M * (a \div M) \in Int
    BY <2>1
  <2>3. a = M * (a \div M)
    BY <1>1, <2>1, <2>2
  <2>4. QED
    BY <2>1, <2>3
<1>2. ASSUME NEW k \in Int, a = M * k  PROVE a % M = 0
  <2>1. a = M * k + 0 /\ 0 \in 0 .. M - 1
    BY <1>2
  <2>2. QED
    BY <2>1, DivModUnique
<1>3. QED
  BY <1>1, <1>2

(***************************************************************************)
(* Products of natural numbers, in the form in which rates are compared.   *)
(***************************************************************************)
LEMMA ProductMonotonic ==
    ASSUME NEW a \in Nat, NEW b \in Int, NEW c \in Int, b <= c
    PROVE  a * b <= a * c
<1>1. PICK d \in Nat : c = b + d
  <2>1. c - b \in Nat /\ c = b + (c - b)
    OBVIOUS
  <2>2. QED
    BY <2>1
<1>2. a * d >= 0 /\ a * b \in Int /\ a * d \in Int
  BY <1>1
<1>3. a * (b + d) = a * b + a * d
  BY <1>1
<1>4. QED
  BY <1>1, <1>2, <1>3

\* A quotient is beyond a bound only if the dividend is beyond its multiple.
LEMMA QuotientBound ==
    ASSUME NEW n \in Nat, NEW d \in Nat \ {0}, NEW b \in Int
    PROVE  /\ n \div d > b => n >= d * (b + 1)
           /\ n >= d * (b + 1) => n \div d > b
<1> DEFINE q == n \div d
           r == n % d
<1>1. q \in Int /\ r \in 0 .. d - 1 /\ n = d * q + r
  BY DivMod
<1> HIDE DEF q, r
<1>2. ASSUME q >= b + 1  PROVE n >= d * (b + 1)
  <2>1. d * (b + 1) <= d * q
    BY <1>1, <1>2, ProductMonotonic
  <2>2. d * q \in Int /\ d * (b + 1) \in Int
    BY <1>1
  <2>3. QED
    BY <1>1, <2>1, <2>2
<1>3. ASSUME n >= d * (b + 1), ~(q > b)  PROVE FALSE
  <2>1. d * (q + 1) <= d * (b + 1)
    BY <1>1, <1>3, ProductMonotonic
  <2>2. d * (q + 1) = d * q + d
    BY <1>1
  <2>3. d * q \in Int /\ d * (b + 1) \in Int
    BY <1>1
  <2>4. QED
    BY <1>1, <1>3, <2>1, <2>2, <2>3
<1>4. QED
  BY <1>1, <1>2, <1>3 DEF q

(***************************************************************************)
(* The value of a two's complement integer of 2 * H values: it is in the   *)
(* range, a value in the range is its own, and a sum can be wrapped at     *)
(* once or at every step.                                                  *)
(***************************************************************************)
Wrapped(n, H) == ((n + H) % (2 * H)) - H

LEMMA WrappedValue ==
    ASSUME NEW H \in Nat \ {0}, NEW n \in Int
    PROVE  /\ Wrapped(n, H) \in -H .. H - 1
           /\ n \in -H .. H - 1 => Wrapped(n, H) = n
<1> DEFINE m == 2 * H
<1>1. m \in Nat \ {0}
  OBVIOUS
<1>2. (n + H) % m \in 0 .. (m - 1)
  BY <1>1
<1>3. n + H \in 0 .. (m - 1) => (n + H) % m = n + H
  BY <1>1
<1>4. QED
  BY <1>2, <1>3 DEF Wrapped

LEMMA WrappedAdd ==
    ASSUME NEW H \in Nat \ {0}, NEW m \in Int, NEW n \in Int
    PROVE  Wrapped(Wrapped(m, H) + n, H) = Wrapped(m + n, H)
<1> DEFINE M == 2 * H
           r == (m + H) % M
<1>1. M \in Nat \ {0} /\ m + H \in Int
  OBVIOUS
<1>2. r \in Int
  BY <1>1
<1> HIDE DEF M
<1>3. (r + n) % M = ((m + H) + n) % M
  BY <1>1, ModAdd
<1> HIDE DEF r
<1>4. (r - H + n) + H = r + n /\ (m + n) + H = (m + H) + n
  BY <1>2
<1>5. QED
  BY <1>3, <1>4 DEF Wrapped, M, r

\* Wrapping changes a sum by multiples of the number of values only.
LEMMA WrappedMod ==
    ASSUME NEW H \in Nat \ {0}, NEW m \in Int, NEW n \in Int
    PROVE  (Wrapped(m, H) + n) % (2 * H) = (m + n) % (2 * H)
<1> DEFINE M == 2 * H
           r == (m + H) % M
<1>1. M \in Nat \ {0} /\ m + H \in Int /\ n - H \in Int
  OBVIOUS
<1>2. r \in Int
  BY <1>1
<1> HIDE DEF M
<1>3. (r + (n - H)) % M = ((m + H) + (n - H)) % M
  BY <1>1, ModAdd
<1> HIDE DEF r
<1>4. (r - H) + n = r + (n - H) /\ m + n = (m + H) + (n - H)
  BY <1>2
<1>5. QED
  BY <1>3, <1>4 DEF Wrapped, M, r

LEMMA MinAndMax ==
    ASSUME NEW a \in Int, NEW b \in Int
    PROVE  /\ Min({a, b}) = IF a <= b THEN a ELSE b
           /\ Max({a, b}) = IF a >= b THEN a ELSE b
<1>1. \A x \in {a, b} : (\A y \in {a, b} : x =< y) <=> x = IF a <= b THEN a ELSE b
  OBVIOUS
<1>2. \A x \in {a, b} : (\A y \in {a, b} : x >= y) <=> x = IF a >= b THEN a ELSE b
  OBVIOUS
<1>3. QED
  BY <1>1, <1>2 DEF Min, Max

(***************************************************************************)
(* A sum over a finite set, as the fold defines it: the elements are taken *)
(* out one by one, by a choice.                                            *)
(***************************************************************************)
Pick(s) == CHOOSE x \in s : TRUE

\* it is the table of the sums of f over the subsets of S.
IsSumTable(it, f, S) ==
    it = [s \in SUBSET S |-> IF s = {} THEN 0 ELSE f[Pick(s)] + it[s \ {Pick(s)}]]

(***************************************************************************)
(* The definition of the sum, with the recursive function of the fold      *)
(* written as the choice that it is.                                       *)
(***************************************************************************)
LEMMA SumIsChosen ==
    ASSUME NEW f, NEW S
    PROVE  SumFunctionOnSet(f, S) = (CHOOSE it : IsSumTable(it, f, S))[S]
BY DEF SumFunctionOnSet, FoldFunctionOnSet, MapThenFoldSet, IsSumTable, Pick

(***************************************************************************)
(* A collection of subsets of a finite set has a minimal member.           *)
(***************************************************************************)
LEMMA MinimalSubset ==
    ASSUME NEW S, IsFiniteSet(S), NEW B \in SUBSET (SUBSET S), B # {}
    PROVE  \E T \in B : \A U \in B : U \subseteq T => U = T
<1>1. B \subseteq FiniteSubsetsOf(S)
  BY FS_Subset DEF FiniteSubsetsOf
<1>2. PICK T \in B : \A U \in B : ~(<<U, T>> \in StrictSubsetOrdering(S))
  BY <1>1, FS_StrictSubsetOrderingWellFounded, WFMin
<1>3. QED
  BY <1>2 DEF StrictSubsetOrdering

(***************************************************************************)
(* Two tables of sums agree wherever both are defined.                     *)
(***************************************************************************)
LEMMA SumTableUnique ==
    ASSUME NEW f, NEW A, NEW B, IsFiniteSet(A), NEW g, NEW h,
           IsSumTable(g, f, A), IsSumTable(h, f, B),
           NEW S \in SUBSET A, S \in SUBSET B
    PROVE  g[S] = h[S]
<1> DEFINE Bad == {T \in SUBSET A : T \subseteq B /\ g[T] # h[T]}
<1>1. SUFFICES ASSUME Bad # {}  PROVE FALSE
  OBVIOUS
<1>2. PICK T \in Bad : \A U \in Bad : U \subseteq T => U = T
  <2> HIDE DEF Bad
  <2>1. Bad \in SUBSET (SUBSET A)  BY DEF Bad
  <2>2. QED  BY <1>1, <2>1, MinimalSubset
<1>3. T # {}
  BY <1>2 DEF IsSumTable
<1>4. Pick(T) \in T
  BY <1>3 DEF Pick
<1>5. g[T \ {Pick(T)}] = h[T \ {Pick(T)}]
  BY <1>2, <1>4
<1>6. g[T] = f[Pick(T)] + g[T \ {Pick(T)}]
  BY <1>2, <1>3 DEF IsSumTable
<1>7. h[T] = f[Pick(T)] + h[T \ {Pick(T)}]
  BY <1>2, <1>3 DEF IsSumTable
<1>8. QED
  BY <1>2, <1>5, <1>6, <1>7

(***************************************************************************)
(* A finite set has a table of sums.                                       *)
(***************************************************************************)
LEMMA SumTableExists ==
    ASSUME NEW f, NEW S, IsFiniteSet(S)
    PROVE  \E it : IsSumTable(it, f, S)
<1> DEFINE Table(U) == CHOOSE it : IsSumTable(it, f, U)
           Bad == {T \in SUBSET S : ~ \E it : IsSumTable(it, f, T)}
<1>1. SUFFICES ASSUME Bad # {}  PROVE FALSE
  OBVIOUS
<1>2. PICK T \in Bad : \A U \in Bad : U \subseteq T => U = T
  <2> HIDE DEF Bad
  <2>1. Bad \in SUBSET (SUBSET S)  BY DEF Bad
  <2>2. QED  BY <1>1, <2>1, MinimalSubset
<1>3. ASSUME NEW U \in SUBSET T, U # T
      PROVE  IsSumTable(Table(U), f, U)
  <2>1. \E it : IsSumTable(it, f, U)
    BY <1>2, <1>3
  <2>2. QED
    BY <2>1
<1> DEFINE it == [s \in SUBSET T |->
                    IF s = {} THEN 0
                    ELSE f[Pick(s)] + Table(s \ {Pick(s)})[s \ {Pick(s)}]]
<1> HIDE DEF Table
<1>4. ASSUME NEW s \in SUBSET T, s # T
      PROVE  it[s] = Table(s)[s]
  <2>1. CASE s = {}
    BY <1>3, <1>4, <2>1 DEF IsSumTable
  <2>2. CASE s # {}
    <3> DEFINE u == s \ {Pick(s)}
    <3>1. Pick(s) \in s  BY <2>2 DEF Pick
    <3>2. IsSumTable(Table(s), f, s) /\ IsSumTable(Table(u), f, u)
      BY <1>3, <1>4, <3>1
    <3>3. IsFiniteSet(s) /\ IsFiniteSet(u)
      BY <1>2, FS_Subset
    <3>4. Table(s)[u] = Table(u)[u]
      <4> HIDE DEF u
      <4>1. u \in SUBSET s  BY DEF u
      <4>2. QED  BY <3>2, <3>3, <4>1, SumTableUnique
    <3>5. Table(s)[s] = f[Pick(s)] + Table(s)[u]
      <4> HIDE DEF u
      <4>1. Table(s) = [r \in SUBSET s |->
               IF r = {} THEN 0 ELSE f[Pick(r)] + Table(s)[r \ {Pick(r)}]]
        BY <3>2 DEF IsSumTable
      <4>2. QED  BY <4>1, <2>2 DEF u
    <3>6. it[s] = f[Pick(s)] + Table(u)[u]
      BY <2>2
    <3>7. QED
      BY <3>4, <3>5, <3>6
  <2>3. QED
    BY <2>1, <2>2
<1>5. ASSUME NEW s \in SUBSET T, s # {}
      PROVE  Table(s \ {Pick(s)})[s \ {Pick(s)}] = it[s \ {Pick(s)}]
  <2>1. Pick(s) \in s  BY <1>5 DEF Pick
  <2>2. s \ {Pick(s)} \in SUBSET T /\ s \ {Pick(s)} # T  BY <2>1
  <2> HIDE DEF it
  <2>3. QED  BY <1>4, <2>2
<1>6. it = [s \in SUBSET T |->
              IF s = {} THEN 0 ELSE f[Pick(s)] + it[s \ {Pick(s)}]]
  BY <1>5
<1>7. QED
  <2> HIDE DEF it
  <2>1. QED  BY <1>2, <1>6 DEF IsSumTable

-----------------------------------------------------------------------------
(***************************************************************************)
(* The equation a sum satisfies, and the laws that follow from it.         *)
(***************************************************************************)
LEMMA SumEquation ==
    ASSUME NEW f, NEW S, IsFiniteSet(S)
    PROVE  SumFunctionOnSet(f, S) =
             IF S = {} THEN 0
             ELSE f[Pick(S)] + SumFunctionOnSet(f, S \ {Pick(S)})
<1> DEFINE Table(U) == CHOOSE it : IsSumTable(it, f, U)
<1>1. ASSUME NEW U, IsFiniteSet(U)
      PROVE  IsSumTable(Table(U), f, U)
  <2>1. \E it : IsSumTable(it, f, U)  BY <1>1, SumTableExists
  <2>2. QED  BY <2>1
<1>2. \A U : SumFunctionOnSet(f, U) = Table(U)[U]
  BY SumIsChosen
<1> HIDE DEF Table
<1>3. Table(S) = [s \in SUBSET S |->
         IF s = {} THEN 0 ELSE f[Pick(s)] + Table(S)[s \ {Pick(s)}]]
  BY <1>1 DEF IsSumTable
<1>4. CASE S = {}
  BY <1>2, <1>3, <1>4
<1>5. CASE S # {}
  <2> DEFINE u == S \ {Pick(S)}
  <2>1. u \in SUBSET S /\ IsFiniteSet(u)
    BY FS_Subset
  <2>2. Table(S)[S] = f[Pick(S)] + Table(S)[u]
    <3> HIDE DEF u
    <3>1. QED  BY <1>3, <1>5 DEF u
  <2>3. Table(S)[u] = Table(u)[u]
    <3> HIDE DEF u
    <3>1. IsSumTable(Table(S), f, S)
      BY <1>1
    <3>2. IsSumTable(Table(u), f, u)
      BY <1>1, <2>1
    <3>3. u \in SUBSET S /\ u \in SUBSET u
      BY <2>1
    <3>4. QED  BY <3>1, <3>2, <3>3, SumTableUnique
  <2>4. QED
    BY <1>2, <1>5, <2>2, <2>3
<1>6. QED
  BY <1>4, <1>5

LEMMA SumOfNothing ==
    ASSUME NEW f
    PROVE  SumFunctionOnSet(f, {}) = 0
BY SumEquation, FS_EmptySet

LEMMA SumType ==
    ASSUME NEW S, IsFiniteSet(S), NEW f, \A x \in S : f[x] \in Int
    PROVE  SumFunctionOnSet(f, S) \in Int
<1> DEFINE Bad == {T \in SUBSET S : SumFunctionOnSet(f, T) \notin Int}
<1>1. SUFFICES ASSUME Bad # {}  PROVE FALSE
  OBVIOUS
<1>2. PICK T \in Bad : \A U \in Bad : U \subseteq T => U = T
  <2> HIDE DEF Bad
  <2>1. Bad \in SUBSET (SUBSET S)  BY DEF Bad
  <2>2. QED  BY <1>1, <2>1, MinimalSubset
<1>3. IsFiniteSet(T)
  BY <1>2, FS_Subset
<1>4. T # {}
  BY <1>2, SumOfNothing
<1>5. Pick(T) \in T
  BY <1>4 DEF Pick
<1>6. SumFunctionOnSet(f, T \ {Pick(T)}) \in Int
  BY <1>2, <1>5
<1>7. SumFunctionOnSet(f, T) = f[Pick(T)] + SumFunctionOnSet(f, T \ {Pick(T)})
  BY <1>3, <1>4, SumEquation
<1>8. QED
  BY <1>2, <1>5, <1>6, <1>7

\* Any element can be taken out of the sum, not only the one the fold picks.
LEMMA SumTakeOut ==
    ASSUME NEW S, IsFiniteSet(S), NEW f, \A x \in S : f[x] \in Int, NEW e \in S
    PROVE  SumFunctionOnSet(f, S) = f[e] + SumFunctionOnSet(f, S \ {e})
<1> DEFINE Bad == {T \in SUBSET S :
         \E x \in T : SumFunctionOnSet(f, T) # f[x] + SumFunctionOnSet(f, T \ {x})}
<1>1. SUFFICES ASSUME Bad # {}  PROVE FALSE
  OBVIOUS
<1>2. PICK T \in Bad : \A U \in Bad : U \subseteq T => U = T
  <2> HIDE DEF Bad
  <2>1. Bad \in SUBSET (SUBSET S)  BY DEF Bad
  <2>2. QED  BY <1>1, <2>1, MinimalSubset
<1>3. PICK x \in T : SumFunctionOnSet(f, T) # f[x] + SumFunctionOnSet(f, T \ {x})
  BY <1>2
<1> DEFINE p == Pick(T)
           A == T \ {p}
           B == T \ {x}
           C == (T \ {p}) \ {x}
<1>4. p \in T /\ T # {}
  BY <1>3 DEF Pick
<1>5. IsFiniteSet(T) /\ IsFiniteSet(A) /\ IsFiniteSet(B) /\ IsFiniteSet(C)
  BY <1>2, FS_Subset
<1>6. SumFunctionOnSet(f, T) = f[p] + SumFunctionOnSet(f, A)
  BY <1>4, <1>5, SumEquation
<1>7. x # p
  BY <1>3, <1>6
<1>8. A \in SUBSET S /\ A \notin Bad /\ x \in A
  BY <1>2, <1>3, <1>4, <1>7
<1>9. B \in SUBSET S /\ B \notin Bad /\ p \in B
  BY <1>2, <1>3, <1>4, <1>7
<1>10. SumFunctionOnSet(f, A) = f[x] + SumFunctionOnSet(f, A \ {x})
  BY <1>8
<1>11. SumFunctionOnSet(f, B) = f[p] + SumFunctionOnSet(f, B \ {p})
  BY <1>9
<1>12. A \ {x} = C /\ B \ {p} = C
  OBVIOUS
<1>13. SumFunctionOnSet(f, C) \in Int
  <2>1. \A y \in C : f[y] \in Int  BY <1>2
  <2> HIDE DEF C
  <2>2. QED  BY <1>5, <2>1, SumType
<1>14. f[x] \in Int /\ f[p] \in Int
  BY <1>2, <1>3, <1>4
<1>15. SumFunctionOnSet(f, A) = f[x] + SumFunctionOnSet(f, C)
  BY <1>10, <1>12
<1>16. SumFunctionOnSet(f, B) = f[p] + SumFunctionOnSet(f, C)
  BY <1>11, <1>12
<1> HIDE DEF A, B, C, p, Bad
<1>17. SumFunctionOnSet(f, T) = f[x] + SumFunctionOnSet(f, B)
  BY <1>6, <1>13, <1>14, <1>15, <1>16
<1>18. QED
  BY <1>3, <1>17 DEF B

LEMMA SumAddElement ==
    ASSUME NEW S, IsFiniteSet(S), NEW e, e \notin S,
           NEW f, \A x \in S \cup {e} : f[x] \in Int
    PROVE  SumFunctionOnSet(f, S \cup {e}) = SumFunctionOnSet(f, S) + f[e]
<1>1. IsFiniteSet(S \cup {e})
  BY FS_AddElement
<1>2. (S \cup {e}) \ {e} = S
  OBVIOUS
<1>3. SumFunctionOnSet(f, S \cup {e}) = f[e] + SumFunctionOnSet(f, (S \cup {e}) \ {e})
  <2> DEFINE T == S \cup {e}
  <2>1. e \in T /\ \A x \in T : f[x] \in Int
    OBVIOUS
  <2> HIDE DEF T
  <2>2. SumFunctionOnSet(f, T) = f[e] + SumFunctionOnSet(f, T \ {e})
    BY <1>1, <2>1, SumTakeOut DEF T
  <2>3. QED  BY <2>2 DEF T
<1>4. SumFunctionOnSet(f, S) \in Int /\ f[e] \in Int
  BY SumType
<1>5. SumFunctionOnSet(f, S \cup {e}) = f[e] + SumFunctionOnSet(f, S)
  BY <1>2, <1>3
<1>6. QED
  <2> DEFINE all == SumFunctionOnSet(f, S \cup {e})
             rest == SumFunctionOnSet(f, S)
  <2>1. all = f[e] + rest /\ rest \in Int /\ f[e] \in Int
    BY <1>4, <1>5
  <2> HIDE DEF all, rest
  <2>2. all = rest + f[e]
    BY <2>1
  <2>3. QED  BY <2>2 DEF all, rest

\* A sum over the positions of a sequence grows by its last entry.
LEMMA SumOfInterval ==
    ASSUME NEW n \in Nat, NEW f, \A i \in 1 .. n + 1 : f[i] \in Int
    PROVE  SumFunctionOnSet(f, 1 .. n + 1) = SumFunctionOnSet(f, 1 .. n) + f[n + 1]
<1>1. PICK S : S = 1 .. n
  OBVIOUS
<1>2. PICK e : e = n + 1
  OBVIOUS
<1>3. S \cup {e} = 1 .. n + 1 /\ e \notin S
  BY <1>1, <1>2
<1>4. IsFiniteSet(S)
  <2>1. 1 \in Int /\ n \in Int
    OBVIOUS
  <2>2. QED
    BY <1>1, <2>1, FS_Interval
<1>5. SumFunctionOnSet(f, S \cup {e}) = SumFunctionOnSet(f, S) + f[e]
  BY <1>3, <1>4, SumAddElement
<1>6. QED
  BY <1>1, <1>2, <1>3, <1>5

\* A sum only depends on the values it adds up.
LEMMA SumSame ==
    ASSUME NEW S, IsFiniteSet(S), NEW f, NEW g, \A x \in S : f[x] = g[x]
    PROVE  SumFunctionOnSet(f, S) = SumFunctionOnSet(g, S)
<1> DEFINE Bad == {T \in SUBSET S : SumFunctionOnSet(f, T) # SumFunctionOnSet(g, T)}
<1>1. SUFFICES ASSUME Bad # {}  PROVE FALSE
  OBVIOUS
<1>2. PICK T \in Bad : \A U \in Bad : U \subseteq T => U = T
  <2> HIDE DEF Bad
  <2>1. Bad \in SUBSET (SUBSET S)  BY DEF Bad
  <2>2. QED  BY <1>1, <2>1, MinimalSubset
<1>3. IsFiniteSet(T)
  BY <1>2, FS_Subset
<1>4. T # {}
  BY <1>2, SumOfNothing
<1>5. Pick(T) \in T
  BY <1>4 DEF Pick
<1>6. SumFunctionOnSet(f, T \ {Pick(T)}) = SumFunctionOnSet(g, T \ {Pick(T)})
  BY <1>2, <1>5
<1>7. SumFunctionOnSet(f, T) = f[Pick(T)] + SumFunctionOnSet(f, T \ {Pick(T)})
  BY <1>3, <1>4, SumEquation
<1>8. SumFunctionOnSet(g, T) = g[Pick(T)] + SumFunctionOnSet(g, T \ {Pick(T)})
  BY <1>3, <1>4, SumEquation
<1>9. QED
  BY <1>2, <1>5, <1>6, <1>7, <1>8

\* A sum of sums is the sum of the terms.
LEMMA SumPlus ==
    ASSUME NEW S, IsFiniteSet(S), NEW f, NEW g, NEW h,
           \A x \in S : f[x] \in Int /\ g[x] \in Int /\ h[x] = f[x] + g[x]
    PROVE  SumFunctionOnSet(h, S) = SumFunctionOnSet(f, S) + SumFunctionOnSet(g, S)
<1> DEFINE Bad == {T \in SUBSET S : SumFunctionOnSet(h, T)
                      # SumFunctionOnSet(f, T) + SumFunctionOnSet(g, T)}
<1>1. SUFFICES ASSUME Bad # {}  PROVE FALSE
  OBVIOUS
<1>2. PICK T \in Bad : \A U \in Bad : U \subseteq T => U = T
  <2> HIDE DEF Bad
  <2>1. Bad \in SUBSET (SUBSET S)  BY DEF Bad
  <2>2. QED  BY <1>1, <2>1, MinimalSubset
<1> DEFINE p == Pick(T)
           U == T \ {p}
<1>3. IsFiniteSet(T) /\ IsFiniteSet(U)
  BY <1>2, FS_Subset
<1>4. T # {}
  <2>1. SUFFICES ASSUME T = {}  PROVE FALSE
    OBVIOUS
  <2>2. SumFunctionOnSet(f, T) = 0 /\ SumFunctionOnSet(g, T) = 0 /\ SumFunctionOnSet(h, T) = 0
    BY <2>1, SumOfNothing
  <2>3. SumFunctionOnSet(h, T) # SumFunctionOnSet(f, T) + SumFunctionOnSet(g, T)
    BY <1>2
  <2> HIDE DEF Bad, p, U
  <2>4. QED  BY <2>2, <2>3
<1>5. p \in T
  BY <1>4 DEF Pick
<1>6. SumFunctionOnSet(h, U) = SumFunctionOnSet(f, U) + SumFunctionOnSet(g, U)
  BY <1>2, <1>5
<1>7. /\ SumFunctionOnSet(f, T) = f[p] + SumFunctionOnSet(f, U)
      /\ SumFunctionOnSet(g, T) = g[p] + SumFunctionOnSet(g, U)
      /\ SumFunctionOnSet(h, T) = h[p] + SumFunctionOnSet(h, U)
  BY <1>3, <1>4, SumEquation
<1>8. \A x \in U : f[x] \in Int /\ g[x] \in Int
  BY <1>2
<1> HIDE DEF U
<1>9. SumFunctionOnSet(f, U) \in Int /\ SumFunctionOnSet(g, U) \in Int
  BY <1>3, <1>8, SumType
<1>10. f[p] \in Int /\ g[p] \in Int /\ h[p] = f[p] + g[p]
  BY <1>2, <1>5
<1>11. SumFunctionOnSet(h, T) # SumFunctionOnSet(f, T) + SumFunctionOnSet(g, T)
  BY <1>2
<1> HIDE DEF p, Bad
<1>12. QED
  BY <1>6, <1>7, <1>9, <1>10, <1>11

\* Larger terms, larger sum.
LEMMA SumMonotonic ==
    ASSUME NEW S, IsFiniteSet(S), NEW f, NEW g,
           \A x \in S : f[x] \in Int /\ g[x] \in Int /\ f[x] <= g[x]
    PROVE  SumFunctionOnSet(f, S) <= SumFunctionOnSet(g, S)
<1> DEFINE Bad == {T \in SUBSET S :
                      ~(SumFunctionOnSet(f, T) <= SumFunctionOnSet(g, T))}
<1>1. SUFFICES ASSUME Bad # {}  PROVE FALSE
  OBVIOUS
<1>2. PICK T \in Bad : \A U \in Bad : U \subseteq T => U = T
  <2> HIDE DEF Bad
  <2>1. Bad \in SUBSET (SUBSET S)  BY DEF Bad
  <2>2. QED  BY <1>1, <2>1, MinimalSubset
<1> DEFINE p == Pick(T)
           U == T \ {p}
<1>3. IsFiniteSet(T) /\ IsFiniteSet(U)
  BY <1>2, FS_Subset
<1>4. T # {}
  <2>1. SUFFICES ASSUME T = {}  PROVE FALSE
    OBVIOUS
  <2>2. SumFunctionOnSet(f, T) = 0 /\ SumFunctionOnSet(g, T) = 0
    BY <2>1, SumOfNothing
  <2>3. ~(SumFunctionOnSet(f, T) <= SumFunctionOnSet(g, T))
    BY <1>2
  <2> HIDE DEF Bad, p, U
  <2>4. QED  BY <2>2, <2>3
<1>5. p \in T
  BY <1>4 DEF Pick
<1>6. SumFunctionOnSet(f, U) <= SumFunctionOnSet(g, U)
  BY <1>2, <1>5
<1>7. /\ SumFunctionOnSet(f, T) = f[p] + SumFunctionOnSet(f, U)
      /\ SumFunctionOnSet(g, T) = g[p] + SumFunctionOnSet(g, U)
  BY <1>3, <1>4, SumEquation
<1>8. \A x \in U : f[x] \in Int /\ g[x] \in Int
  BY <1>2
<1> HIDE DEF U
<1>9. SumFunctionOnSet(f, U) \in Int /\ SumFunctionOnSet(g, U) \in Int
  BY <1>3, <1>8, SumType
<1>10. f[p] \in Int /\ g[p] \in Int /\ f[p] <= g[p]
  BY <1>2, <1>5
<1>11. ~(SumFunctionOnSet(f, T) <= SumFunctionOnSet(g, T))
  BY <1>2
<1> HIDE DEF p, Bad
<1>12. QED
  BY <1>6, <1>7, <1>9, <1>10, <1>11

LEMMA SumOfZeros ==
    ASSUME NEW S, IsFiniteSet(S), NEW f, \A x \in S : f[x] = 0
    PROVE  SumFunctionOnSet(f, S) = 0
<1>1. \A x \in S : f[x] \in Int /\ f[x] \in Int /\ f[x] = f[x] + f[x]
  OBVIOUS
<1>2. SumFunctionOnSet(f, S) = SumFunctionOnSet(f, S) + SumFunctionOnSet(f, S)
  BY <1>1, SumPlus
<1>3. SumFunctionOnSet(f, S) \in Int
  BY <1>1, SumType
<1> DEFINE sum == SumFunctionOnSet(f, S)
<1>4. sum = sum + sum /\ sum \in Int
  BY <1>2, <1>3
<1> HIDE DEF sum
<1>5. sum = 0
  BY <1>4
<1>6. QED
  BY <1>5 DEF sum

LEMMA SumIsNat ==
    ASSUME NEW S, IsFiniteSet(S), NEW f, \A x \in S : f[x] \in Nat
    PROVE  SumFunctionOnSet(f, S) \in Nat
<1> DEFINE zeros == [x \in S |-> 0]
           sum   == SumFunctionOnSet(f, S)
           none  == SumFunctionOnSet(zeros, S)
<1>1. \A x \in S : zeros[x] \in Int /\ f[x] \in Int /\ zeros[x] <= f[x] /\ zeros[x] = 0
  OBVIOUS
<1> HIDE DEF zeros
<1>2. none <= sum
  BY <1>1, SumMonotonic
<1>3. none = 0
  BY <1>1, SumOfZeros
<1>4. sum \in Int
  BY <1>1, SumType
<1> HIDE DEF sum, none
<1>5. sum \in Nat
  BY <1>2, <1>3, <1>4
<1>6. QED
  BY <1>5 DEF sum

\* Terms that cannot be negative are each at most the sum.
LEMMA TermAtMostSum ==
    ASSUME NEW S, IsFiniteSet(S), NEW f, \A x \in S : f[x] \in Nat, NEW e \in S
    PROVE  f[e] <= SumFunctionOnSet(f, S)
<1> DEFINE U    == S \ {e}
           all  == SumFunctionOnSet(f, S)
           rest == SumFunctionOnSet(f, U)
<1>1. IsFiniteSet(U) /\ \A x \in U : f[x] \in Nat
  BY FS_Subset
<1>2. \A x \in S : f[x] \in Int
  OBVIOUS
<1>3. all = f[e] + rest
  BY <1>2, SumTakeOut
<1>4. rest \in Nat
  <2> HIDE DEF U
  <2>1. QED  BY <1>1, SumIsNat
<1> HIDE DEF all, rest
<1>5. f[e] <= all
  BY <1>3, <1>4
<1>6. QED
  BY <1>5 DEF all

\* What changes when one term does.
LEMMA SumChangeOne ==
    ASSUME NEW S, IsFiniteSet(S), NEW e \in S, NEW f, NEW g,
           \A x \in S : f[x] \in Int /\ g[x] \in Int /\ (x # e => g[x] = f[x])
    PROVE  SumFunctionOnSet(g, S) = SumFunctionOnSet(f, S) - f[e] + g[e]
<1> DEFINE U     == S \ {e}
           old   == SumFunctionOnSet(f, S)
           new   == SumFunctionOnSet(g, S)
           restf == SumFunctionOnSet(f, U)
           restg == SumFunctionOnSet(g, U)
<1>1. IsFiniteSet(U) /\ \A x \in U : f[x] \in Int /\ f[x] = g[x]
  BY FS_Subset
<1>2. old = f[e] + restf /\ new = g[e] + restg
  BY SumTakeOut
<1>3. restf = restg /\ restf \in Int
  <2> HIDE DEF U
  <2>1. QED  BY <1>1, SumSame, SumType
<1>4. f[e] \in Int /\ g[e] \in Int
  OBVIOUS
<1> HIDE DEF old, new, restf, restg
<1>5. new = old - f[e] + g[e]
  BY <1>2, <1>3, <1>4
<1>6. QED
  BY <1>5 DEF old, new

\* Terms that are zero can be left out.
LEMMA SumOverSupport ==
    ASSUME NEW S, IsFiniteSet(S), NEW f, \A x \in S : f[x] \in Int,
           NEW T \in SUBSET S, \A x \in S \ T : f[x] = 0
    PROVE  SumFunctionOnSet(f, S) = SumFunctionOnSet(f, T)
<1> DEFINE Bad == {U \in SUBSET S : T \subseteq U
                      /\ SumFunctionOnSet(f, U) # SumFunctionOnSet(f, T)}
<1>1. SUFFICES ASSUME Bad # {}  PROVE FALSE
  OBVIOUS
<1>2. PICK U \in Bad : \A V \in Bad : V \subseteq U => V = U
  <2> HIDE DEF Bad
  <2>1. Bad \in SUBSET (SUBSET S)  BY DEF Bad
  <2>2. QED  BY <1>1, <2>1, MinimalSubset
<1>3. PICK x \in U : x \notin T
  BY <1>2
<1>4. IsFiniteSet(U) /\ IsFiniteSet(U \ {x}) /\ \A y \in U : f[y] \in Int
  BY <1>2, FS_Subset
<1>5. SumFunctionOnSet(f, U) = f[x] + SumFunctionOnSet(f, U \ {x})
  BY <1>4, SumTakeOut
<1>6. SumFunctionOnSet(f, U \ {x}) = SumFunctionOnSet(f, T)
  BY <1>2, <1>3
<1>7. f[x] = 0
  BY <1>2, <1>3
<1>8. SumFunctionOnSet(f, T) \in Int
  <2>1. IsFiniteSet(T) /\ \A y \in T : f[y] \in Int
    BY FS_Subset
  <2>2. QED  BY <2>1, SumType
<1>9. SumFunctionOnSet(f, U) # SumFunctionOnSet(f, T)
  BY <1>2
<1> HIDE DEF Bad
<1>10. QED
  BY <1>5, <1>6, <1>7, <1>8, <1>9

\* Two sets without a common element are added up one after the other.
LEMMA SumOfUnion ==
    ASSUME NEW S, IsFiniteSet(S), NEW T, IsFiniteSet(T), S \cap T = {},
           NEW f, \A x \in S \cup T : f[x] \in Int
    PROVE  SumFunctionOnSet(f, S \cup T) = SumFunctionOnSet(f, S) + SumFunctionOnSet(f, T)
<1>1. PICK U : U = S \cup T
  OBVIOUS
<1>2. PICK g : g = [x \in U |-> IF x \in S THEN f[x] ELSE 0]
  OBVIOUS
<1>3. PICK h : h = [x \in U |-> IF x \in T THEN f[x] ELSE 0]
  OBVIOUS
<1>4. IsFiniteSet(U) /\ S \in SUBSET U /\ T \in SUBSET U
  BY <1>1, FS_Union
<1>5. \A x \in U : /\ f[x] \in Int /\ g[x] \in Int /\ h[x] \in Int /\ f[x] = g[x] + h[x]
  BY <1>1, <1>2, <1>3
<1>6. SumFunctionOnSet(f, U) = SumFunctionOnSet(g, U) + SumFunctionOnSet(h, U)
  BY <1>4, <1>5, SumPlus
<1>7. SumFunctionOnSet(g, U) = SumFunctionOnSet(g, S)
  <2>1. \A x \in U \ S : g[x] = 0
    BY <1>2
  <2>2. QED
    BY <1>4, <1>5, <2>1, SumOverSupport
<1>8. SumFunctionOnSet(h, U) = SumFunctionOnSet(h, T)
  <2>1. \A x \in U \ T : h[x] = 0
    BY <1>3
  <2>2. QED
    BY <1>4, <1>5, <2>1, SumOverSupport
<1>9. SumFunctionOnSet(g, S) = SumFunctionOnSet(f, S)
  <2>1. \A x \in S : g[x] = f[x]
    BY <1>1, <1>2
  <2>2. QED
    BY <2>1, SumSame
<1>10. SumFunctionOnSet(h, T) = SumFunctionOnSet(f, T)
  <2>1. \A x \in T : h[x] = f[x]
    BY <1>1, <1>3
  <2>2. QED
    BY <2>1, SumSame
<1>11. QED
  BY <1>1, <1>6, <1>7, <1>8, <1>9, <1>10

LEMMA SumNegated ==
    ASSUME NEW S, IsFiniteSet(S), NEW f, NEW g, \A x \in S : g[x] \in Int /\ f[x] = -g[x]
    PROVE  SumFunctionOnSet(f, S) = -SumFunctionOnSet(g, S)
<1>1. PICK z : z = [x \in S |-> 0]
  OBVIOUS
<1>2. \A x \in S : f[x] \in Int /\ g[x] \in Int /\ z[x] = 0 /\ z[x] = f[x] + g[x]
  BY <1>1
<1>3. SumFunctionOnSet(z, S) = 0 /\ SumFunctionOnSet(f, S) \in Int /\ SumFunctionOnSet(g, S) \in Int
  BY <1>2, SumOfZeros, SumType
<1>4. SumFunctionOnSet(z, S) = SumFunctionOnSet(f, S) + SumFunctionOnSet(g, S)
  BY <1>2, SumPlus
<1>5. QED
  BY <1>3, <1>4

\* Terms that cannot be negative: more of them, larger sum.
LEMMA SumOfMore ==
    ASSUME NEW S, IsFiniteSet(S), NEW f, \A x \in S : f[x] \in Nat, NEW T \in SUBSET S
    PROVE  SumFunctionOnSet(f, T) <= SumFunctionOnSet(f, S)
<1> DEFINE g == [x \in S |-> IF x \in T THEN f[x] ELSE 0]
<1>1. /\ \A x \in S : f[x] \in Int /\ g[x] \in Int /\ g[x] <= f[x]
      /\ \A x \in S \ T : g[x] = 0
      /\ \A x \in T : f[x] = g[x]
  OBVIOUS
<1>2. IsFiniteSet(T)
  BY FS_Subset
<1> HIDE DEF g
<1>3. SumFunctionOnSet(g, S) <= SumFunctionOnSet(f, S)
  BY <1>1, SumMonotonic
<1>4. SumFunctionOnSet(g, S) = SumFunctionOnSet(g, T)
  BY <1>1, SumOverSupport
<1>5. SumFunctionOnSet(f, T) = SumFunctionOnSet(g, T)
  BY <1>1, <1>2, SumSame
<1>6. QED
  BY <1>3, <1>4, <1>5

\* The terms may be renamed by a bijection e from S onto T.
LEMMA SumRenamed ==
    ASSUME NEW S, NEW T, IsFiniteSet(S), IsFiniteSet(T), NEW e \in [S -> T],
           \A y \in T : \E x \in S : e[x] = y,
           \A x1, x2 \in S : e[x1] = e[x2] => x1 = x2,
           NEW f, NEW g, \A x \in S : f[x] \in Int /\ f[x] = g[e[x]]
    PROVE  SumFunctionOnSet(f, S) = SumFunctionOnSet(g, T)
<1> DEFINE Image(U) == {y \in T : \E x \in U : e[x] = y}
           Bad == {U \in SUBSET S :
                     SumFunctionOnSet(f, U) # SumFunctionOnSet(g, Image(U))}
<1>1. Image(S) = T
  OBVIOUS
<1>2. SUFFICES ASSUME Bad # {}  PROVE FALSE
  <2>1. S \notin Bad => SumFunctionOnSet(f, S) = SumFunctionOnSet(g, Image(S))
    OBVIOUS
  <2>2. QED  BY <1>1, <2>1
<1>3. PICK U \in Bad : \A V \in Bad : V \subseteq U => V = U
  <2> HIDE DEF Bad
  <2>1. Bad \in SUBSET (SUBSET S)  BY DEF Bad
  <2>2. QED  BY <1>2, <2>1, MinimalSubset
<1>4. SumFunctionOnSet(f, U) # SumFunctionOnSet(g, Image(U))
  BY <1>3
<1>5. U # {}
  <2>1. SUFFICES ASSUME U = {}  PROVE FALSE
    OBVIOUS
  <2>2. Image(U) = {}
    BY <2>1
  <2>3. SumFunctionOnSet(f, {}) = 0 /\ SumFunctionOnSet(g, {}) = 0
    BY SumOfNothing
  <2>4. QED  BY <1>4, <2>1, <2>2, <2>3
<1>6. PICK p \in U : TRUE
  BY <1>5
<1> DEFINE V == U \ {p}
<1>7. Image(U) \ {e[p]} = Image(V) /\ e[p] \in Image(U)
  BY <1>3, <1>6
<1>8. SumFunctionOnSet(f, V) = SumFunctionOnSet(g, Image(V))
  <2>1. V \in SUBSET S /\ V \subseteq U /\ V # U
    BY <1>3, <1>6
  <2>2. V \notin Bad
    <3> HIDE DEF Bad, V
    <3>1. QED  BY <1>3, <2>1
  <2>3. QED
    BY <2>1, <2>2
<1>9. SumFunctionOnSet(f, U) = f[p] + SumFunctionOnSet(f, V)
  <2>1. IsFiniteSet(U) /\ \A x \in U : f[x] \in Int
    BY <1>3, FS_Subset
  <2>2. QED  BY <2>1, <1>6, SumTakeOut
<1>10. SumFunctionOnSet(g, Image(U)) = g[e[p]] + SumFunctionOnSet(g, Image(V))
  <2> DEFINE I == Image(U)
  <2>1. IsFiniteSet(I)
    <3>1. I \in SUBSET T  OBVIOUS
    <3> HIDE DEF I
    <3>2. QED  BY <3>1, FS_Subset
  <2>2. \A y \in I : g[y] \in Int
    BY <1>3
  <2>3. e[p] \in I /\ I \ {e[p]} = Image(V)
    BY <1>7
  <2> HIDE DEF I, Image, V, Bad
  <2>4. SumFunctionOnSet(g, I) = g[e[p]] + SumFunctionOnSet(g, I \ {e[p]})
    BY <2>1, <2>2, <2>3, SumTakeOut
  <2>5. QED  BY <2>3, <2>4 DEF I
<1>11. f[p] = g[e[p]]
  BY <1>3, <1>6
<1> HIDE DEF Bad, Image, V
<1>12. QED
  BY <1>4, <1>8, <1>9, <1>10, <1>11

\* Terms that agree modulo M have sums that agree modulo M: a multiple of M
\* added to each term is a multiple of M added to the sum.
LEMMA SumOfMultiples ==
    ASSUME NEW S, IsFiniteSet(S), NEW M \in Int, NEW f, NEW g, NEW h,
           \A x \in S : /\ f[x] \in Int /\ g[x] \in Int /\ h[x] \in Int
                        /\ f[x] = g[x] + M * h[x]
    PROVE  SumFunctionOnSet(f, S)
             = SumFunctionOnSet(g, S) + M * SumFunctionOnSet(h, S)
<1> DEFINE Bad == {T \in SUBSET S :
              SumFunctionOnSet(f, T)
                # SumFunctionOnSet(g, T) + M * SumFunctionOnSet(h, T)}
<1>1. SUFFICES ASSUME Bad # {}  PROVE FALSE
  OBVIOUS
<1>2. PICK T \in Bad : \A U \in Bad : U \subseteq T => U = T
  <2> HIDE DEF Bad
  <2>1. Bad \in SUBSET (SUBSET S)  BY DEF Bad
  <2>2. QED  BY <1>1, <2>1, MinimalSubset
<1>3. SumFunctionOnSet(f, T) # SumFunctionOnSet(g, T) + M * SumFunctionOnSet(h, T)
  BY <1>2
<1> DEFINE p == Pick(T)
           U == T \ {p}
<1>4. IsFiniteSet(T) /\ IsFiniteSet(U)
  BY <1>2, FS_Subset
<1>5. T # {}
  <2>1. SUFFICES ASSUME T = {}  PROVE FALSE
    OBVIOUS
  <2>2. /\ SumFunctionOnSet(f, T) = 0
        /\ SumFunctionOnSet(g, T) = 0
        /\ SumFunctionOnSet(h, T) = 0
    BY <2>1, SumOfNothing
  <2> HIDE DEF Bad, p, U
  <2>3. QED  BY <1>3, <2>2
<1>6. p \in T
  BY <1>5 DEF Pick
<1>7. SumFunctionOnSet(f, U)
        = SumFunctionOnSet(g, U) + M * SumFunctionOnSet(h, U)
  BY <1>2, <1>6
<1>8. /\ SumFunctionOnSet(f, T) = f[p] + SumFunctionOnSet(f, U)
      /\ SumFunctionOnSet(g, T) = g[p] + SumFunctionOnSet(g, U)
      /\ SumFunctionOnSet(h, T) = h[p] + SumFunctionOnSet(h, U)
  BY <1>4, <1>5, SumEquation
<1>9. \A x \in U : f[x] \in Int /\ g[x] \in Int /\ h[x] \in Int
  BY <1>2
<1> HIDE DEF U
<1>10. /\ SumFunctionOnSet(f, U) \in Int
       /\ SumFunctionOnSet(g, U) \in Int
       /\ SumFunctionOnSet(h, U) \in Int
  BY <1>4, <1>9, SumType
<1>11. /\ f[p] \in Int /\ g[p] \in Int /\ h[p] \in Int
       /\ f[p] = g[p] + M * h[p]
  BY <1>2, <1>6
<1> HIDE DEF p, Bad
<1> DEFINE fu == SumFunctionOnSet(f, U)
           gu == SumFunctionOnSet(g, U)
           hu == SumFunctionOnSet(h, U)
           hp == h[p]
<1>12. M * (hp + hu) = M * hp + M * hu
  <2>1. hp \in Int /\ hu \in Int
    BY <1>10, <1>11
  <2> HIDE DEF hp, hu
  <2>2. QED  BY <2>1
<1>13. fu = gu + M * hu /\ M * hp \in Int /\ M * hu \in Int
  BY <1>7, <1>10, <1>11
<1>14. f[p] + fu = g[p] + gu + M * (hp + hu)
  <2>1. f[p] = g[p] + M * hp  BY <1>11
  <2>2. gu \in Int /\ g[p] \in Int /\ fu \in Int /\ f[p] \in Int
    BY <1>10, <1>11
  <2> HIDE DEF fu, gu, hu, hp
  <2>3. QED  BY <1>12, <1>13, <2>1, <2>2
<1>15. QED
  BY <1>3, <1>8, <1>14

(***************************************************************************)
(* What a function reaches from a finite set is finite.                    *)
(***************************************************************************)
LEMMA FiniteImage ==
    ASSUME NEW S, IsFiniteSet(S), NEW T, NEW e \in [S -> T], \A y \in T : \E x \in S : e[x] = y
    PROVE  IsFiniteSet(T)
<1>1. e \in Surjection(S, T)
  BY DEF Surjection
<1>2. QED
  BY <1>1, FS_Surjection

(***************************************************************************)
(* A nonempty set of naturals has a least member, and a greatest one if it *)
(* is bounded.                                                             *)
(***************************************************************************)
LEMMA LeastNatural ==
    ASSUME NEW S \in SUBSET Nat, S # {}
    PROVE  \E m \in S : \A k \in S : m <= k
<1>1. PICK p \in S : TRUE
  OBVIOUS
<1> DEFINE Intervals == {I \in SUBSET (0..p) : \E k \in S : k <= p /\ I = 0..k}
<1>2. PICK I \in Intervals : \A J \in Intervals : J \subseteq I => J = I
  <2>1. PICK U : U = 0..p
    OBVIOUS
  <2>2. IsFiniteSet(U)
    BY 0 \in Int /\ p \in Int, <2>1, FS_Interval
  <2>3. U \in Intervals
    BY <1>1, <2>1
  <2>4. Intervals \in SUBSET (SUBSET U) /\ Intervals # {}
    BY <2>1, <2>3
  <2> HIDE DEF Intervals
  <2>5. QED
    BY <2>2, <2>4, MinimalSubset
<1>3. PICK m \in S : m <= p /\ I = 0..m
  BY <1>2
<1>4. ASSUME NEW k \in S  PROVE m <= k
  <2>1. SUFFICES ASSUME k < m  PROVE FALSE
    OBVIOUS
  <2>2. 0..k \in Intervals /\ 0..k \subseteq I
    BY <1>3, <2>1
  <2>3. 0..k = 0..m
    BY <1>2, <1>3, <2>2
  <2>4. m \in 0..m /\ m \notin 0..k
    BY <2>1
  <2>5. QED
    BY <2>3, <2>4
<1>5. QED
  BY <1>4

LEMMA GreatestNatural ==
    ASSUME NEW S \in SUBSET Nat, S # {}, NEW n \in Nat, \A k \in S : k <= n
    PROVE  \E m \in S : \A k \in S : k <= m
<1> DEFINE Gaps == {g \in 0..n : n - g \in S}
<1>1. Gaps \in SUBSET Nat /\ Gaps # {}
  <2>1. PICK k \in S : TRUE
    OBVIOUS
  <2>2. n - k \in 0..n /\ n - (n - k) = k
    BY <2>1
  <2>3. QED
    BY <2>1, <2>2
<1>2. PICK g \in Gaps : \A h \in Gaps : g <= h
  <2> HIDE DEF Gaps
  <2>1. QED
    BY <1>1, LeastNatural
<1>3. ASSUME NEW k \in S  PROVE k <= n - g
  <2>1. n - k \in Gaps
    BY <1>3
  <2>2. g <= n - k
    <3> HIDE DEF Gaps
    <3>1. QED
      BY <1>2, <2>1
  <2>3. g \in Int /\ k \in Int
    BY <1>2
  <2>4. QED
    BY <2>2, <2>3
<1>4. QED
  BY <1>2, <1>3

(***************************************************************************)
(* There are finitely many functions between two finite sets.              *)
(***************************************************************************)
LEMMA FiniteFunctions ==
    ASSUME NEW S, IsFiniteSet(S), NEW T, IsFiniteSet(T)
    PROVE  IsFiniteSet([S -> T])
<1> DEFINE e == [f \in [S -> T] |-> {<<x, f[x]>> : x \in S}]
<1>1. e \in [[S -> T] -> SUBSET (S \X T)]
  OBVIOUS
<1>2. ASSUME NEW f \in [S -> T], NEW g \in [S -> T], e[f] = e[g]  PROVE f = g
  <2>1. ASSUME NEW x \in S  PROVE f[x] = g[x]
    <3>1. <<x, f[x]>> \in e[g]
      BY <1>2
    <3>2. PICK y \in S : <<x, f[x]>> = <<y, g[y]>>
      BY <3>1
    <3>3. QED
      BY <3>2
  <2>2. QED
    BY <2>1
<1>3. e \in Injection([S -> T], SUBSET (S \X T))
  <2> HIDE DEF e
  <2>1. DOMAIN e = [S -> T]
    BY <1>1
  <2>2. QED
    BY <1>1, <1>2, <2>1 DEF Injection, IsInjective
<1>4. IsFiniteSet(SUBSET (S \X T))
  <2>1. IsFiniteSet(S \X T)
    BY FS_Product
  <2>2. QED
    BY <2>1, FS_SUBSET
<1> HIDE DEF e
<1>5. QED
  BY <1>3, <1>4, FS_Injection

\* A finite sum may be taken class by class.
InClasses(f, c, S, V) == [x \in S |-> IF c[x] \in V THEN f[x] ELSE 0]

ClassSum(f, c, S, t) == SumFunctionOnSet(InClasses(f, c, S, {t}), S)

LEMMA OneMoreClass ==
    ASSUME NEW S, IsFiniteSet(S), NEW c, NEW f, \A x \in S : f[x] \in Int,
           NEW U, NEW p, p \notin U
    PROVE  SumFunctionOnSet(InClasses(f, c, S, U \cup {p}), S)
             = SumFunctionOnSet(InClasses(f, c, S, {p}), S)
                 + SumFunctionOnSet(InClasses(f, c, S, U), S)
<1>1. PICK h : h = InClasses(f, c, S, U \cup {p})
  OBVIOUS
<1>2. PICK g1 : g1 = InClasses(f, c, S, {p})
  OBVIOUS
<1>3. PICK g2 : g2 = InClasses(f, c, S, U)
  OBVIOUS
<1>4. \A x \in S : g1[x] \in Int /\ g2[x] \in Int /\ h[x] = g1[x] + g2[x]
  BY <1>1, <1>2, <1>3 DEF InClasses
<1>5. SumFunctionOnSet(h, S) = SumFunctionOnSet(g1, S) + SumFunctionOnSet(g2, S)
  BY <1>4, SumPlus
<1>6. QED
  BY <1>1, <1>2, <1>3, <1>5

LEMMA SumByClass ==
    ASSUME NEW S, IsFiniteSet(S), NEW T, IsFiniteSet(T),
           NEW c \in [S -> T], NEW f, \A x \in S : f[x] \in Int
    PROVE  SumFunctionOnSet([t \in T |-> ClassSum(f, c, S, t)], T) = SumFunctionOnSet(f, S)
<1> DEFINE part == [t \in T |-> ClassSum(f, c, S, t)]
<1>1. \A t \in T : part[t] = SumFunctionOnSet(InClasses(f, c, S, {t}), S)
  BY DEF ClassSum
<1> HIDE DEF part
<1> DEFINE Bad == {V \in SUBSET T :
              SumFunctionOnSet(part, V) # SumFunctionOnSet(InClasses(f, c, S, V), S)}
<1>2. ASSUME Bad # {}  PROVE FALSE
  <2>1. PICK V \in Bad : \A U \in Bad : U \subseteq V => U = V
    <3> HIDE DEF Bad
    <3>1. Bad \in SUBSET (SUBSET T)  BY DEF Bad
    <3>2. QED  BY <1>2, <3>1, MinimalSubset
  <2>2. /\ V \in SUBSET T /\ IsFiniteSet(V)
        /\ SumFunctionOnSet(part, V) # SumFunctionOnSet(InClasses(f, c, S, V), S)
    BY <2>1, FS_Subset
  <2>3. V # {}
    <3>1. SUFFICES ASSUME V = {}  PROVE FALSE
      OBVIOUS
    <3>2. PICK g : g = InClasses(f, c, S, V)
      OBVIOUS
    <3>3. \A x \in S : g[x] = 0
      BY <3>1, <3>2 DEF InClasses
    <3>4. SumFunctionOnSet(g, S) = 0 /\ SumFunctionOnSet(part, V) = 0
      BY <3>1, <3>3, SumOfZeros, SumOfNothing
    <3>5. QED
      BY <2>2, <3>2, <3>4
  <2>4. PICK p : p = Pick(V)
    OBVIOUS
  <2>5. PICK U : U = V \ {p}
    OBVIOUS
  <2>6. p \in V /\ p \notin U /\ U \cup {p} = V /\ U \in SUBSET T /\ U # V
    BY <2>2, <2>3, <2>4, <2>5 DEF Pick
  <2>7. SumFunctionOnSet(part, U) = SumFunctionOnSet(InClasses(f, c, S, U), S)
    BY <2>1, <2>6
  <2>8. SumFunctionOnSet(part, V) = part[p] + SumFunctionOnSet(part, U)
    BY <2>2, <2>3, <2>4, <2>5, SumEquation
  <2>9. part[p] = SumFunctionOnSet(InClasses(f, c, S, {p}), S)
    BY <1>1, <2>2, <2>6
  <2>10. SumFunctionOnSet(InClasses(f, c, S, V), S)
           = SumFunctionOnSet(InClasses(f, c, S, {p}), S)
               + SumFunctionOnSet(InClasses(f, c, S, U), S)
    BY <2>6, OneMoreClass
  <2>11. QED
    BY <2>2, <2>7, <2>8, <2>9, <2>10
<1>3. SumFunctionOnSet(part, T) = SumFunctionOnSet(InClasses(f, c, S, T), S)
  BY <1>2
<1>4. PICK g : g = InClasses(f, c, S, T)
  OBVIOUS
<1>5. \A x \in S : g[x] = f[x]
  BY <1>4 DEF InClasses
<1>6. SumFunctionOnSet(g, S) = SumFunctionOnSet(f, S)
  BY <1>5, SumSame
<1>7. QED
  BY <1>3, <1>4, <1>6 DEF part
=============================================================================
