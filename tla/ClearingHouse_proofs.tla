----------------------- MODULE ClearingHouse_proofs -----------------------
(***************************************************************************)
(* Proofs about ClearingHouse, for every set of accounts, every batch and  *)
(* every width of a balance.                                               *)
(***************************************************************************)
EXTENDS ClearingHouse, ArithmeticLemmas

(***************************************************************************)
(* Wrapping gives a value of the width, changes nothing within it, and can *)
(* be done at every step of a sum or once at its end.                      *)
(***************************************************************************)
LEMMA WrapType ==
    ASSUME NEW n \in Int
    PROVE  /\ Wrap(n) \in Balance
           /\ n \in Balance => Wrap(n) = n
BY ClearingAssumption, WrappedValue DEF Wrap, Wrapped, Balance

LEMMA WrapAdd ==
    ASSUME NEW m \in Int, NEW n \in Int
    PROVE  Wrap(Wrap(m) + n) = Wrap(m + n)
BY ClearingAssumption, WrappedAdd DEF Wrap, Wrapped

(***************************************************************************)
(* A transfer leaves the accounts registered and their balances in range.  *)
(***************************************************************************)
LEMMA TransferType ==
    ASSUME TypeOK, NEW ob \in NetObligations,
           {ob.deliverer, ob.receiver} \subseteq DOMAIN accounts, Transfer(ob)
    PROVE  accounts' \in [DOMAIN accounts -> Balance]
<1>1. ob.net_payment \in Int
  BY ClearingAssumption DEF NetObligations, ObligationType, Balance
<1>2. \A a \in DOMAIN accounts : accounts[a] \in Int
  BY ClearingAssumption DEF TypeOK, Balance
<1>3. Debited(ob) \in [DOMAIN accounts -> Balance]
  BY <1>1, <1>2, WrapType DEF Debited, TypeOK
<1>4. \A a \in DOMAIN accounts : Debited(ob)[a] \in Int
  BY <1>3, ClearingAssumption DEF Balance
<1> QED
  BY <1>1, <1>3, <1>4, WrapType DEF Transfer

(***************************************************************************)
(* Nothing is attempted yet.                                               *)
(***************************************************************************)
LEMMA NoResults ==
    ASSUME NEW b \in Seq(NetObligations)
    PROVE  /\ <<>> \in Seq(NetObligations)
           /\ <<>> \in Seq(Outcomes)
           /\ Len(<<>>) <= Len(b)
<1>1. Len(b) \in Nat
  OBVIOUS
<1>2. Len(<<>>) = 0
  OBVIOUS
<1> QED
  BY <1>1, <1>2

LEMMA InitType == Init => TypeOK
<1> SUFFICES ASSUME Init PROVE TypeOK
  OBVIOUS
<1>1. accounts \in [DOMAIN accounts -> Balance] /\ DOMAIN accounts = {}
  BY DEF Init
<1>2. /\ batch \in Seq(NetObligations)
      /\ results \in Seq(Outcomes)
      /\ Len(results) <= Len(batch)
  BY DEF Init
<1> QED
  BY <1>1, <1>2 DEF Init, TypeOK

LEMMA NextType == TypeOK /\ [Next]_vars => TypeOK'
<1> SUFFICES ASSUME TypeOK, [Next]_vars PROVE TypeOK'
  OBVIOUS
<1>1. ASSUME NEW id \in Accounts, NEW b \in InitialBalances, register_account(id, b)
      PROVE  TypeOK'
  <2>1. b \in Balance
    BY ClearingAssumption
  <2>2. accounts' \in [DOMAIN accounts \cup {id} -> Balance]
    BY <1>1, <2>1 DEF register_account, TypeOK
  <2>3. DOMAIN accounts' \subseteq Accounts
    BY <2>2 DEF TypeOK
  <2>4. batch' = <<>> /\ results' = <<>> /\ opening' = accounts' /\ overflowed' = FALSE
    BY <1>1 DEF register_account
  <2> QED
    BY <2>2, <2>3, <2>4, NoResults DEF TypeOK
<1>2. ASSUME NEW obligations \in Batches, clear_all(obligations)
      PROVE  TypeOK'
  <2>1. obligations \in Seq(NetObligations)
    BY ClearingAssumption
  <2>2. /\ batch' = obligations
        /\ results' = <<>>
        /\ opening' = accounts
        /\ accounts' = accounts
        /\ overflowed' = FALSE
    BY <1>2 DEF clear_all
  <2> QED
    BY <2>1, <2>2, NoResults DEF TypeOK
<1>3. CASE ClearNext
  <2> DEFINE ob == batch[Len(results) + 1]
  <2>1. Len(results) \in Nat /\ Len(batch) \in Nat /\ Len(results) < Len(batch)
    BY <1>3 DEF ClearNext, Idle, TypeOK
  <2>2. ob \in NetObligations
    BY <2>1 DEF TypeOK
  <2>3. /\ ob.deliverer \in Accounts
        /\ ob.receiver \in Accounts
        /\ ob.net_payment \in Balance
    BY <2>2 DEF NetObligations, ObligationType
  <2>4. ASSUME NEW e \in Outcomes, results' = Append(results, e)
        PROVE  results' \in Seq(Outcomes) /\ Len(results') <= Len(batch)
    BY <2>1, <2>4 DEF TypeOK
  <2>5. batch' = batch /\ opening' = opening
    BY <1>3 DEF ClearNext
  <2>6. ASSUME NEW e \in Outcomes, Refuse(e)
        PROVE  TypeOK'
    BY <2>4, <2>5, <2>6 DEF Refuse, TypeOK
  <2>7. ASSUME ob.deliverer \in DOMAIN accounts
        PROVE  InsufficientBalance(ob.deliverer, ob.net_payment, accounts[ob.deliverer])
                   \in Outcomes
    BY <2>3, <2>7 DEF InsufficientBalance, Outcomes, TypeOK
  <2>8. \A a \in Accounts : AccountNotFound(a) \in Outcomes
    BY DEF AccountNotFound, Outcomes
  <2>9. ASSUME {ob.deliverer, ob.receiver} \subseteq DOMAIN accounts, Transfer(ob)
        PROVE  TypeOK'
    <3>1. accounts' \in [DOMAIN accounts -> Balance]
      BY <2>2, <2>9, TransferType
    <3>2. Cleared \in Outcomes
      BY DEF Outcomes
    <3>3. results' \in Seq(Outcomes) /\ Len(results') <= Len(batch)
      BY <2>4, <2>9, <3>2 DEF Transfer
    <3>4. overflowed' \in BOOLEAN
      BY <2>9 DEF Transfer, TypeOK
    <3> QED
      BY <2>5, <3>1, <3>3, <3>4 DEF TypeOK
  <2>10. clear_obligation(ob)
    BY <1>3 DEF ClearNext
  <2> QED
    BY <2>3, <2>6, <2>7, <2>8, <2>9, <2>10 DEF clear_obligation
<1>4. CASE UNCHANGED vars
  BY <1>4 DEF vars, TypeOK
<1> QED
  BY <1>1, <1>2, <1>3, <1>4 DEF Next

(***************************************************************************)
(* Balances stay in the range of their type and every obligation attempted *)
(* has one result.                                                         *)
(***************************************************************************)
THEOREM TypeCorrect == Spec => []TypeOK
<1> QED
  BY InitType, NextType, PTL DEF Spec

-----------------------------------------------------------------------------
(***************************************************************************)
(* A transfer of a payment that is not negative, between accounts that are *)
(* not overdrawn, overdraws neither if no balance wraps around: the check  *)
(* of clear_obligation covers the debit, and the credit only adds.         *)
(***************************************************************************)
LEMMA TransferCovered ==
    ASSUME TypeOK, NEW ob \in NetObligations, ob.net_payment >= 0,
           {ob.deliverer, ob.receiver} \subseteq DOMAIN accounts,
           accounts[ob.deliverer] >= ob.net_payment,
           \A a \in DOMAIN accounts : accounts[a] >= 0,
           Transfer(ob), ~overflowed'
    PROVE  \A a \in DOMAIN accounts : accounts'[a] >= 0
<1> DEFINE d == ob.deliverer
           r == ob.receiver
           p == ob.net_payment
<1>1. p \in Int
  BY ClearingAssumption DEF NetObligations, ObligationType, Balance
<1>2. \A a \in DOMAIN accounts : accounts[a] \in Int
  BY ClearingAssumption DEF TypeOK, Balance
<1>3. accounts[d] - p \in Balance /\ Debited(ob)[r] + p \in Balance
  BY DEF Transfer
<1>4. Wrap(accounts[d] - p) = accounts[d] - p
  BY <1>1, <1>2, <1>3, WrapType
<1>5. Debited(ob) = [accounts EXCEPT ![d] = accounts[d] - p]
  BY <1>4 DEF Debited
<1>6. DOMAIN Debited(ob) = DOMAIN accounts
  BY <1>5
<1>7. \A a \in DOMAIN accounts : Debited(ob)[a] \in Int /\ Debited(ob)[a] >= 0
  BY <1>1, <1>2, <1>5 DEF TypeOK
<1>8. Wrap(Debited(ob)[r] + p) = Debited(ob)[r] + p
  BY <1>1, <1>3, <1>7, WrapType
<1>9. accounts' = [Debited(ob) EXCEPT ![r] = Debited(ob)[r] + p]
  BY <1>8 DEF Transfer
<1> QED
  BY <1>1, <1>6, <1>7, <1>9

LEMMA NextCovered == TypeOK /\ NoOverdraft /\ [Next]_vars => NoOverdraft'
<1> SUFFICES ASSUME TypeOK, NoOverdraft, [Next]_vars,
                    NonnegativePayments', ~overflowed',
                    \A a \in DOMAIN opening' : opening'[a] >= 0
             PROVE  \A a \in DOMAIN accounts' : accounts'[a] >= 0
  BY DEF NoOverdraft
<1>1. ASSUME NEW id \in Accounts, NEW b \in InitialBalances, register_account(id, b)
      PROVE  opening' = accounts'
  BY <1>1 DEF register_account
<1>2. ASSUME NEW obligations \in Batches, clear_all(obligations)
      PROVE  opening' = accounts'
  BY <1>2 DEF clear_all
<1>3. CASE ClearNext
  <2> DEFINE ob == batch[Len(results) + 1]
  <2>1. Len(results) + 1 \in 1..Len(batch)
    BY <1>3 DEF ClearNext, Idle, TypeOK
  <2>2. batch' = batch /\ opening' = opening /\ clear_obligation(ob)
    BY <1>3 DEF ClearNext
  <2>3. ob \in NetObligations
    BY <2>1 DEF TypeOK
  <2>4. NonnegativePayments /\ ob.net_payment >= 0
    BY <2>1, <2>2 DEF NonnegativePayments
  <2>5. CASE accounts' = accounts /\ overflowed' = overflowed
    BY <2>2, <2>4, <2>5 DEF NoOverdraft
  <2>6. CASE /\ {ob.deliverer, ob.receiver} \subseteq DOMAIN accounts
             /\ CanPay(ob)
             /\ Transfer(ob)
    <3>1. ~overflowed
      BY <2>6 DEF Transfer
    <3>2. \A a \in DOMAIN accounts : accounts[a] >= 0
      BY <2>2, <2>4, <3>1 DEF NoOverdraft
    <3>3. \A a \in DOMAIN accounts : accounts'[a] >= 0
      BY <2>3, <2>4, <2>6, <3>2, TransferCovered DEF CanPay
    <3>4. DOMAIN accounts' = DOMAIN accounts
      BY <2>3, <2>6, TransferType
    <3> QED
      BY <3>3, <3>4
  <2> QED
    BY <2>2, <2>5, <2>6 DEF clear_obligation, Refuse
<1>4. CASE UNCHANGED vars
  BY <1>4 DEF vars, NoOverdraft, NonnegativePayments
<1> QED
  BY <1>1, <1>2, <1>3, <1>4 DEF Next

(***************************************************************************)
(* No batch of payments that are not negative, in whatever order and with  *)
(* whatever failures in it, overdraws an account.                          *)
(***************************************************************************)
THEOREM ClearingNeverOverdraws == Spec => []NoOverdraft
<1>1. Init => NoOverdraft
  BY DEF Init, NoOverdraft
<1> QED
  BY <1>1, InitType, NextType, NextCovered, PTL DEF Spec

-----------------------------------------------------------------------------
(***************************************************************************)
(* What obligation i of the batch gives account a, which obligations of    *)
(* the first k were cleared, and what account a has after them as long as  *)
(* nothing wraps around.                                                   *)
(***************************************************************************)
Gain(i, a)       == Into(batch[i], a, batch[i].net_payment)
                  - OutOf(batch[i], a, batch[i].net_payment)
ClearedFirst(k)  == {i \in 1..k : results[i] = Cleared}
GainFirst(k, a)  == SumFunctionOnSet([i \in ClearedFirst(k) |-> Gain(i, a)], ClearedFirst(k))

LEMMA GainsAreIntegers ==
    ASSUME TypeOK, NEW k \in 0 .. Len(results), NEW a
    PROVE  /\ IsFiniteSet(ClearedFirst(k))
           /\ \A i \in 1 .. Len(batch) : Gain(i, a) \in Int
           /\ \A i \in ClearedFirst(k) : Gain(i, a) \in Int
           /\ GainFirst(k, a) \in Int
<1>1. Len(results) \in Nat /\ Len(batch) \in Nat /\ Len(results) <= Len(batch)
  BY DEF TypeOK
<1>2. ClearedFirst(k) \subseteq 1 .. Len(batch)
  BY <1>1 DEF ClearedFirst
<1>3. IsFiniteSet(ClearedFirst(k))
  <2>1. IsFiniteSet(1 .. Len(batch))
    BY <1>1, FS_Interval
  <2>2. QED
    BY <1>2, <2>1, FS_Subset
<1>4. \A i \in 1 .. Len(batch) : Gain(i, a) \in Int
  <2>1. SUFFICES ASSUME NEW i \in 1 .. Len(batch)  PROVE Gain(i, a) \in Int
    OBVIOUS
  <2>2. batch[i] \in NetObligations
    BY DEF TypeOK
  <2>3. batch[i].net_payment \in Int
    BY <2>2, ClearingAssumption DEF NetObligations, ObligationType, Balance
  <2>4. QED
    BY <2>3 DEF Gain, Into, OutOf
<1>5. GainFirst(k, a) \in Int
  <2> DEFINE f == [i \in ClearedFirst(k) |-> Gain(i, a)]
  <2>1. \A i \in ClearedFirst(k) : f[i] \in Int
    BY <1>2, <1>4
  <2> HIDE DEF f
  <2>2. SumFunctionOnSet(f, ClearedFirst(k)) \in Int
    BY <1>3, <2>1, SumType
  <2>3. QED
    BY <2>2 DEF f, GainFirst
<1>6. QED
  BY <1>2, <1>3, <1>4, <1>5

\* BalanceAfter in these terms, in this state and in the next.
LEMMA BalanceIsGain ==
    ASSUME NEW k, NEW a
    PROVE  /\ BalanceAfter(k, a) = Wrap(opening[a] + GainFirst(k, a))
           /\ BalanceAfter(k, a)' = Wrap(opening'[a] + GainFirst(k, a)')
BY DEF BalanceAfter, GainFirst, ClearedFirst, Gain, SumFunction

(***************************************************************************)
(* What one more result changes: nothing of what the earlier obligations   *)
(* did, and the last one counts if it was cleared.                         *)
(***************************************************************************)
LEMMA OneMoreResult ==
    ASSUME TypeOK, ~Idle, batch' = batch, opening' = opening,
           NEW r, results' = Append(results, r), NEW a,
           NEW n, n = Len(results)
    PROVE  /\ n \in Nat /\ n + 1 \in 1 .. Len(batch)
           /\ \A k \in 0 .. n : GainFirst(k, a)' = GainFirst(k, a)
           /\ r # Cleared => GainFirst(n + 1, a)' = GainFirst(n, a)
           /\ r = Cleared => GainFirst(n + 1, a)' = GainFirst(n, a) + Gain(n + 1, a)
           /\ Len(results') = n + 1
           /\ results'[n + 1] = r
           /\ \A i \in 1 .. n : results'[i] = results[i]
<1>1. n \in Nat /\ Len(batch) \in Nat /\ n + 1 \in 1 .. Len(batch)
  BY DEF TypeOK, Idle
<1>2. /\ Len(results') = n + 1
      /\ results'[n + 1] = r
      /\ \A i \in 1 .. n : results'[i] = results[i]
  BY <1>1 DEF TypeOK
<1>3. \A i : Gain(i, a)' = Gain(i, a)
  BY DEF Gain
<1>4. \A k \in 0 .. n : ClearedFirst(k)' = ClearedFirst(k)
  BY <1>1, <1>2 DEF ClearedFirst
<1>5. \A k \in 0 .. n : GainFirst(k, a)' = GainFirst(k, a)
  BY <1>3, <1>4 DEF GainFirst
<1>6. n \in 0 .. n /\ n + 1 \notin ClearedFirst(n)
  BY <1>1 DEF ClearedFirst
<1>7. CASE r # Cleared
  <2>1. ClearedFirst(n + 1)' = ClearedFirst(n)
    BY <1>1, <1>2, <1>7 DEF ClearedFirst
  <2>2. GainFirst(n + 1, a)' = GainFirst(n, a)
    BY <1>3, <2>1 DEF GainFirst
  <2>3. QED
    BY <1>1, <1>2, <1>5, <1>7, <2>2
<1>8. CASE r = Cleared
  <2> DEFINE S == ClearedFirst(n)
             T == S \cup {n + 1}
             f == [i \in S |-> Gain(i, a)]
             g == [i \in T |-> Gain(i, a)]
  <2>1. ClearedFirst(n + 1)' = T
    BY <1>1, <1>2, <1>8 DEF ClearedFirst
  <2>2. GainFirst(n + 1, a)' = SumFunctionOnSet(g, T)
    BY <1>3, <2>1 DEF GainFirst
  <2>3. IsFiniteSet(S) /\ \A i \in T : g[i] \in Int
    BY <1>1, <1>6, GainsAreIntegers
  <2>4. \A i \in S : f[i] = g[i]
    OBVIOUS
  <2>5. g[n + 1] = Gain(n + 1, a)
    OBVIOUS
  <2>6. GainFirst(n, a) = SumFunctionOnSet(f, S)
    BY DEF GainFirst
  <2> HIDE DEF f, g
  <2>7. SumFunctionOnSet(g, T) = SumFunctionOnSet(g, S) + g[n + 1]
    <3> HIDE DEF S
    <3>1. n + 1 \notin S  BY <1>6 DEF S
    <3>2. QED  BY <2>3, <3>1, SumAddElement
  <2>8. SumFunctionOnSet(f, S) = SumFunctionOnSet(g, S)
    <3> HIDE DEF S
    <3>1. QED  BY <2>3, <2>4, SumSame
  <2>9. GainFirst(n + 1, a)' = GainFirst(n, a) + Gain(n + 1, a)
    BY <2>2, <2>5, <2>6, <2>7, <2>8
  <2>10. QED
    BY <1>1, <1>2, <1>5, <1>8, <2>9
<1>9. QED
  BY <1>7, <1>8

(***************************************************************************)
(* What clear_obligation leaves each account with: its balance and the     *)
(* gain, wrapped once, although the code wraps the debit and the credit.   *)
(***************************************************************************)
LEMMA TransferGain ==
    ASSUME TypeOK, NEW ob \in NetObligations,
           {ob.deliverer, ob.receiver} \subseteq DOMAIN accounts, Transfer(ob),
           NEW a \in DOMAIN accounts
    PROVE  /\ accounts'[a] = Wrap(accounts[a] + (Into(ob, a, ob.net_payment)
                                              - OutOf(ob, a, ob.net_payment)))
           /\ ~overflowed' => accounts[a] + (Into(ob, a, ob.net_payment)
                                              - OutOf(ob, a, ob.net_payment)) \in Balance
<1> DEFINE d == ob.deliverer
           r == ob.receiver
           p == ob.net_payment
<1>1. p \in Int
  BY ClearingAssumption DEF NetObligations, ObligationType, Balance
<1>2. \A b \in DOMAIN accounts : accounts[b] \in Int /\ accounts[b] \in Balance
  BY ClearingAssumption DEF TypeOK, Balance
<1>3. accounts' = [Debited(ob) EXCEPT ![r] = Wrap(Debited(ob)[r] + p)]
  BY DEF Transfer
<1>4. Debited(ob) = [accounts EXCEPT ![d] = Wrap(accounts[d] - p)]
  BY DEF Debited
<1>5. ~overflowed' => /\ accounts[d] - p \in Balance
                      /\ Debited(ob)[r] + p \in Balance
  BY DEF Transfer
<1>6. \A b \in DOMAIN accounts :
         /\ accounts'[b] = IF b = r THEN Wrap(Debited(ob)[r] + p) ELSE Debited(ob)[b]
         /\ Debited(ob)[b] = IF b = d THEN Wrap(accounts[d] - p) ELSE accounts[b]
  BY <1>3, <1>4 DEF TypeOK
<1>7. CASE a = d /\ a = r
  <2>1. accounts'[a] = Wrap(Wrap(accounts[a] + (-p)) + p)
    BY <1>1, <1>2, <1>6, <1>7
  <2>2. Wrap(Wrap(accounts[a] + (-p)) + p) = Wrap((accounts[a] + (-p)) + p)
    <3>1. accounts[a] + (-p) \in Int
      BY <1>1, <1>2
    <3>2. QED
      BY <1>1, <3>1, WrapAdd
  <2>3. (accounts[a] + (-p)) + p = accounts[a] + (p - p)
    BY <1>1, <1>2
  <2>4. accounts[a] + (p - p) = accounts[a]
    BY <1>1, <1>2
  <2>5. QED
    BY <1>2, <1>7, <2>1, <2>2, <2>3, <2>4 DEF Into, OutOf
<1>8. CASE a = d /\ a # r
  <2>1. accounts'[a] = Wrap(accounts[a] - p)
    BY <1>6, <1>8
  <2>2. accounts[a] - p = accounts[a] + (0 - p)
    BY <1>1, <1>2
  <2>3. QED
    BY <1>5, <1>8, <2>1, <2>2 DEF Into, OutOf
<1>9. CASE a # d /\ a = r
  <2>1. accounts'[a] = Wrap(accounts[a] + p) /\ Debited(ob)[r] = accounts[a]
    BY <1>6, <1>9
  <2>2. accounts[a] + p = accounts[a] + (p - 0)
    BY <1>1, <1>2
  <2>3. QED
    BY <1>5, <1>9, <2>1, <2>2 DEF Into, OutOf
<1>10. CASE a # d /\ a # r
  <2>1. accounts'[a] = accounts[a]
    BY <1>6, <1>10
  <2>2. accounts[a] = accounts[a] + (0 - 0)
    BY <1>2
  <2>3. Wrap(accounts[a]) = accounts[a]
    BY <1>2, WrapType
  <2>4. QED
    BY <1>2, <1>10, <2>1, <2>2, <2>3 DEF Into, OutOf
<1>11. QED
  BY <1>7, <1>8, <1>9, <1>10

(***************************************************************************)
(* The result of the next obligation, as Justified computes it, and what   *)
(* goes with it.                                                           *)
(***************************************************************************)
ResultOf(ob) ==
    IF ob.deliverer \notin DOMAIN accounts THEN AccountNotFound(ob.deliverer)
    ELSE IF ob.receiver \notin DOMAIN accounts THEN AccountNotFound(ob.receiver)
    ELSE IF accounts[ob.deliverer] >= ob.net_payment THEN Cleared
    ELSE InsufficientBalance(ob.deliverer, ob.net_payment, accounts[ob.deliverer])

LEMMA ErrorsAreNotCleared ==
    \A a, m, n : /\ AccountNotFound(a) # Cleared
                 /\ InsufficientBalance(a, m, n) # Cleared
                 /\ AccountNotFound(a).error = "AccountNotFound"
                 /\ InsufficientBalance(a, m, n).error = "InsufficientBalance"
                 /\ Cleared.error = "None"
<1> SUFFICES ASSUME NEW a, NEW m, NEW n
             PROVE  /\ AccountNotFound(a) # Cleared
                    /\ InsufficientBalance(a, m, n) # Cleared
                    /\ AccountNotFound(a).error = "AccountNotFound"
                    /\ InsufficientBalance(a, m, n).error = "InsufficientBalance"
                    /\ Cleared.error = "None"
  OBVIOUS
<1>1. /\ AccountNotFound(a).error = "AccountNotFound"
      /\ InsufficientBalance(a, m, n).error = "InsufficientBalance"
      /\ Cleared.error = "None"
  BY DEF AccountNotFound, InsufficientBalance, Cleared
<1>2. QED
  BY <1>1

LEMMA ClearStep ==
    ASSUME TypeOK, ClearNext, NEW n, n = Len(results), NEW ob, ob = batch[n + 1],
           NEW r, r = ResultOf(ob)
    PROVE  /\ batch' = batch /\ opening' = opening /\ ob \in NetObligations
           /\ results' = Append(results, r)
           /\ r # Cleared => accounts' = accounts /\ overflowed' = overflowed
           /\ r = Cleared => /\ {ob.deliverer, ob.receiver} \subseteq DOMAIN accounts
                             /\ Transfer(ob)
<1>1. n \in Nat /\ n + 1 \in 1 .. Len(batch)
  BY DEF ClearNext, Idle, TypeOK
<1>2. batch' = batch /\ opening' = opening /\ clear_obligation(ob)
  BY DEF ClearNext
<1>3. ob \in NetObligations
  BY <1>1 DEF TypeOK
<1>4. CASE ob.deliverer \notin DOMAIN accounts
  <2>1. r = AccountNotFound(ob.deliverer) /\ r # Cleared
    BY <1>4, ErrorsAreNotCleared DEF ResultOf
  <2>2. Refuse(AccountNotFound(ob.deliverer))
    BY <1>2, <1>4 DEF clear_obligation
  <2>3. QED
    BY <1>2, <1>3, <2>1, <2>2 DEF Refuse
<1>5. CASE ob.deliverer \in DOMAIN accounts /\ ob.receiver \notin DOMAIN accounts
  <2>1. r = AccountNotFound(ob.receiver) /\ r # Cleared
    BY <1>5, ErrorsAreNotCleared DEF ResultOf
  <2>2. Refuse(AccountNotFound(ob.receiver))
    BY <1>2, <1>5 DEF clear_obligation
  <2>3. QED
    BY <1>2, <1>3, <2>1, <2>2 DEF Refuse
<1>6. CASE {ob.deliverer, ob.receiver} \subseteq DOMAIN accounts /\ ~CanPay(ob)
  <2>1. /\ r = InsufficientBalance(ob.deliverer, ob.net_payment, accounts[ob.deliverer])
        /\ r # Cleared
    BY <1>6, ErrorsAreNotCleared DEF ResultOf, CanPay
  <2>2. Refuse(InsufficientBalance(ob.deliverer, ob.net_payment, accounts[ob.deliverer]))
    BY <1>2, <1>6 DEF clear_obligation
  <2>3. QED
    BY <1>2, <1>3, <2>1, <2>2 DEF Refuse
<1>7. CASE {ob.deliverer, ob.receiver} \subseteq DOMAIN accounts /\ CanPay(ob)
  <2>1. r = Cleared
    BY <1>7 DEF ResultOf, CanPay
  <2>2. Transfer(ob)
    BY <1>2, <1>7 DEF clear_obligation
  <2>3. results' = Append(results, r)
    BY <2>1, <2>2 DEF Transfer
  <2>4. QED
    BY <1>2, <1>3, <1>7, <2>1, <2>2, <2>3
<1>8. QED
  BY <1>4, <1>5, <1>6, <1>7

(***************************************************************************)
(* A batch that has not started explains the balances: nothing moved.      *)
(***************************************************************************)
LEMMA NothingGained ==
    ASSUME results' = <<>>, TypeOK', NEW a
    PROVE  /\ GainFirst(0, a)' = 0
           /\ Len(results') = 0
           /\ a \in DOMAIN opening' => BalanceAfter(0, a)' = opening'[a]
<1>1. ClearedFirst(0)' = {}
  BY DEF ClearedFirst
<1>2. GainFirst(0, a)' = 0
  BY <1>1, SumOfNothing DEF GainFirst
<1>3. ASSUME a \in DOMAIN opening'
      PROVE  BalanceAfter(0, a)' = opening'[a]
  <2>1. opening'[a] \in Balance
    BY <1>3 DEF TypeOK
  <2>2. opening'[a] \in Int
    BY <2>1, ClearingAssumption DEF Balance
  <2>3. opening'[a] + 0 = opening'[a]
    BY <2>2
  <2>4. BalanceAfter(0, a)' = Wrap(opening'[a] + GainFirst(0, a)')
    BY BalanceIsGain
  <2>5. QED
    BY <1>2, <2>1, <2>2, <2>3, <2>4, WrapType
<1>4. QED
  BY <1>2, <1>3

LEMMA ClearNextExplains ==
    ASSUME TypeOK, TypeOK', ReportExplainsBalances, ClearNext
    PROVE  ReportExplainsBalances'
<1>1. PICK n : n = Len(results)
  OBVIOUS
<1>2. PICK ob : ob = batch[n + 1]
  OBVIOUS
<1>3. PICK r : r = ResultOf(ob)
  OBVIOUS
<1>4. /\ batch' = batch /\ opening' = opening /\ ob \in NetObligations
      /\ results' = Append(results, r)
      /\ r # Cleared => accounts' = accounts /\ overflowed' = overflowed
      /\ r = Cleared => {ob.deliverer, ob.receiver} \subseteq DOMAIN accounts /\ Transfer(ob)
  BY <1>1, <1>2, <1>3, ClearStep
<1>5. ~Idle
  BY DEF ClearNext
<1>6. /\ n \in Nat /\ n + 1 \in 1 .. Len(batch)
      /\ Len(results') = n + 1
      /\ results'[n + 1] = r
      /\ \A i \in 1 .. n : results'[i] = results[i]
  BY <1>1, <1>4, <1>5, OneMoreResult
<1>7. DOMAIN opening = DOMAIN accounts /\ DOMAIN accounts' = DOMAIN accounts
  BY <1>4 DEF TypeOK
<1>8. \A a \in DOMAIN accounts : accounts[a] = BalanceAfter(n, a)
  BY <1>1 DEF ReportExplainsBalances
<1>9. \A a : \A k \in 0 .. n : BalanceAfter(k, a)' = BalanceAfter(k, a)
  <2>1. SUFFICES ASSUME NEW a, NEW k \in 0 .. n
                 PROVE  BalanceAfter(k, a)' = BalanceAfter(k, a)
    OBVIOUS
  <2>2. GainFirst(k, a)' = GainFirst(k, a)
    BY <1>1, <1>4, <1>5, OneMoreResult
  <2>3. QED
    BY <1>4, <2>2, BalanceIsGain
<1>10. ASSUME NEW i \in 1 .. n
       PROVE  Justified(i)'
  <2>1. Justified(i)
    BY <1>1 DEF ReportExplainsBalances
  <2>2. i - 1 \in 0 .. n
    BY <1>6
  <2>3. BalanceAfter(i - 1, batch[i].deliverer)' = BalanceAfter(i - 1, batch[i].deliverer)
    BY <1>4, <1>9, <2>2
  <2>4. results'[i] = results[i]
    BY <1>6
  <2>5. QED
    BY <1>4, <2>1, <2>3, <2>4 DEF Justified
<1>11. Justified(n + 1)'
  <2>1. (n + 1) - 1 = n /\ n \in 0 .. n
    BY <1>6
  <2>2. BalanceAfter(n, ob.deliverer)' = BalanceAfter(n, ob.deliverer)
    BY <1>9, <2>1
  <2>3. Justified(n + 1)' <=>
          LET missing == {ob.deliverer, ob.receiver} \ DOMAIN accounts
              funds   == BalanceAfter(n, ob.deliverer)
          IN  IF missing # {}
              THEN r = AccountNotFound(IF ob.deliverer \in missing
                                       THEN ob.deliverer ELSE ob.receiver)
              ELSE r = IF funds >= ob.net_payment THEN Cleared
                       ELSE InsufficientBalance(ob.deliverer, ob.net_payment, funds)
    BY <1>2, <1>4, <1>6, <1>7, <2>1, <2>2 DEF Justified
  <2>4. CASE ob.deliverer \in DOMAIN accounts /\ ob.receiver \in DOMAIN accounts
    <3>1. accounts[ob.deliverer] = BalanceAfter(n, ob.deliverer)
      BY <1>8, <2>4
    <3>2. QED
      BY <1>3, <2>3, <2>4, <3>1 DEF ResultOf
  <2>5. CASE ob.deliverer \notin DOMAIN accounts
    BY <1>3, <2>3, <2>5 DEF ResultOf
  <2>6. CASE ob.deliverer \in DOMAIN accounts /\ ob.receiver \notin DOMAIN accounts
    BY <1>3, <2>3, <2>6 DEF ResultOf
  <2>7. QED
    BY <2>4, <2>5, <2>6
<1>12. ASSUME NEW a \in DOMAIN accounts
       PROVE  accounts'[a] = BalanceAfter(n + 1, a)'
  <2>1. BalanceAfter(n + 1, a)' = Wrap(opening[a] + GainFirst(n + 1, a)')
    BY <1>4, BalanceIsGain
  <2>2. accounts[a] = Wrap(opening[a] + GainFirst(n, a))
    BY <1>8, BalanceIsGain
  <2>3. CASE r # Cleared
    <3>1. GainFirst(n + 1, a)' = GainFirst(n, a)
      BY <1>1, <1>4, <1>5, <2>3, OneMoreResult
    <3>2. QED
      BY <1>4, <2>1, <2>2, <2>3, <3>1
  <2>4. CASE r = Cleared
    <3>1. GainFirst(n + 1, a)' = GainFirst(n, a) + Gain(n + 1, a)
      BY <1>1, <1>4, <1>5, <2>4, OneMoreResult
    <3>2. /\ GainFirst(n, a) \in Int /\ Gain(n + 1, a) \in Int
      <4>1. n \in 0 .. Len(results)
        BY <1>1, <1>6
      <4>2. QED
        BY <1>6, <4>1, GainsAreIntegers
    <3>3. opening[a] \in Int
      BY <1>7, ClearingAssumption DEF TypeOK, Balance
    <3>4. accounts'[a] = Wrap(accounts[a] + Gain(n + 1, a))
      BY <1>2, <1>4, <2>4, TransferGain DEF Gain
    <3>5. (opening[a] + GainFirst(n, a)) + Gain(n + 1, a)
            = opening[a] + (GainFirst(n, a) + Gain(n + 1, a))
      BY <3>2, <3>3
    <3>6. opening[a] + GainFirst(n, a) \in Int
      BY <3>2, <3>3
    <3>7. PICK m \in Int, k \in Int :
             m = opening[a] + GainFirst(n, a) /\ k = Gain(n + 1, a)
      BY <3>2, <3>6
    <3>8. accounts'[a] = Wrap(Wrap(m) + k) /\ BalanceAfter(n + 1, a)' = Wrap(m + k)
      BY <1>4, <2>1, <2>2, <3>1, <3>4, <3>5, <3>7
    <3>9. QED
      BY <3>7, <3>8, WrapAdd
  <2>5. QED
    BY <2>3, <2>4
<1>13. \A i \in 1 .. n + 1 : i \in 1 .. n \/ i = n + 1
  BY <1>6
<1>14. QED
  BY <1>6, <1>7, <1>10, <1>11, <1>12, <1>13 DEF ReportExplainsBalances

LEMMA NextExplains ==
    TypeOK /\ TypeOK' /\ ReportExplainsBalances /\ [Next]_vars => ReportExplainsBalances'
<1> SUFFICES ASSUME TypeOK, TypeOK', ReportExplainsBalances, [Next]_vars
             PROVE  ReportExplainsBalances'
  OBVIOUS
<1>1. ASSUME results' = <<>>, opening' = accounts'
      PROVE  ReportExplainsBalances'
  <2>1. Len(results') = 0
    BY <1>1, NothingGained
  <2>2. \A a \in DOMAIN opening' : BalanceAfter(0, a)' = opening'[a]
    BY <1>1, NothingGained
  <2>3. QED
    BY <1>1, <2>1, <2>2 DEF ReportExplainsBalances
<1>2. ASSUME NEW id \in Accounts, NEW b \in InitialBalances, register_account(id, b)
      PROVE  ReportExplainsBalances'
  BY <1>1, <1>2 DEF register_account
<1>3. ASSUME NEW obligations \in Batches, clear_all(obligations)
      PROVE  ReportExplainsBalances'
  BY <1>1, <1>3 DEF clear_all
<1>4. CASE ClearNext
  BY <1>4, ClearNextExplains
<1>5. CASE UNCHANGED vars
  <2>1. \A k, a : BalanceAfter(k, a)' = BalanceAfter(k, a)
    BY <1>5 DEF vars, BalanceAfter
  <2>2. \A k : Justified(k)' <=> Justified(k)
    BY <1>5, <2>1 DEF vars, Justified
  <2>3. QED
    BY <1>5, <2>1, <2>2 DEF vars, ReportExplainsBalances
<1>6. QED
  BY <1>2, <1>3, <1>4, <1>5 DEF Next

(***************************************************************************)
(* The results of a batch explain its balances: from the opening balances  *)
(* and the report of clear_all one can tell every balance on the way, and  *)
(* each result is the one the balance before it calls for, whatever fails. *)
(***************************************************************************)
THEOREM ReportAlwaysExplains == Spec => []ReportExplainsBalances
<1>1. Init => ReportExplainsBalances
  BY DEF Init, ReportExplainsBalances
<1>2. QED
  BY <1>1, TypeCorrect, NextExplains, PTL DEF Spec

-----------------------------------------------------------------------------
(***************************************************************************)
(* overflowed records the truth: as long as it is not set, no balance that *)
(* the report accounts for has left its range, so wrapping did nothing.    *)
(***************************************************************************)
NeverWrapped ==
    ~overflowed => \A a \in DOMAIN opening, k \in 0 .. Len(results) :
                       opening[a] + GainFirst(k, a) \in Balance

LEMMA ClearNextExact ==
    ASSUME TypeOK, ReportExplainsBalances, NeverWrapped, ClearNext
    PROVE  NeverWrapped'
<1>1. PICK n : n = Len(results)
  OBVIOUS
<1>2. PICK ob : ob = batch[n + 1]
  OBVIOUS
<1>3. PICK r : r = ResultOf(ob)
  OBVIOUS
<1>4. /\ batch' = batch /\ opening' = opening /\ ob \in NetObligations
      /\ results' = Append(results, r)
      /\ r # Cleared => accounts' = accounts /\ overflowed' = overflowed
      /\ r = Cleared => {ob.deliverer, ob.receiver} \subseteq DOMAIN accounts /\ Transfer(ob)
  BY <1>1, <1>2, <1>3, ClearStep
<1>5. ~Idle
  BY DEF ClearNext
<1>6. n \in Nat /\ n + 1 \in 1 .. Len(batch) /\ Len(results') = n + 1
  BY <1>1, <1>4, <1>5, OneMoreResult
<1>7. SUFFICES ASSUME ~overflowed', NEW a \in DOMAIN opening', NEW k \in 0 .. n + 1
               PROVE  opening'[a] + GainFirst(k, a)' \in Balance
  BY <1>6 DEF NeverWrapped
<1>8. ~overflowed
  BY <1>4, <1>7 DEF Transfer
<1>9. \A j \in 0 .. n : opening[a] + GainFirst(j, a) \in Balance
  BY <1>1, <1>4, <1>7, <1>8 DEF NeverWrapped
<1>10. \A j \in 0 .. n : GainFirst(j, a)' = GainFirst(j, a)
  BY <1>1, <1>4, <1>5, OneMoreResult
<1>11. CASE k \in 0 .. n
  BY <1>4, <1>9, <1>10, <1>11
<1>12. CASE k = n + 1
  <2>1. n \in 0 .. n /\ n \in 0 .. Len(results)
    BY <1>1, <1>6
  <2>2. CASE r # Cleared
    <3>1. GainFirst(n + 1, a)' = GainFirst(n, a)
      BY <1>1, <1>4, <1>5, <2>2, OneMoreResult
    <3>2. QED
      BY <1>4, <1>9, <1>12, <2>1, <3>1
  <2>3. CASE r = Cleared
    <3>1. GainFirst(n + 1, a)' = GainFirst(n, a) + Gain(n + 1, a)
      BY <1>1, <1>4, <1>5, <2>3, OneMoreResult
    <3>2. a \in DOMAIN accounts
      BY <1>4, <1>7 DEF TypeOK
    <3>3. accounts[a] + Gain(n + 1, a) \in Balance
      BY <1>2, <1>4, <1>7, <2>3, <3>2, TransferGain DEF Gain
    <3>4. opening[a] \in Int /\ GainFirst(n, a) \in Int /\ Gain(n + 1, a) \in Int
      <4>1. opening[a] \in Int
        BY <1>4, <1>7, ClearingAssumption DEF TypeOK, Balance
      <4>2. QED
        BY <1>6, <2>1, <4>1, GainsAreIntegers
    <3>5. accounts[a] = opening[a] + GainFirst(n, a)
      <4>1. accounts[a] = Wrap(opening[a] + GainFirst(n, a))
        BY <1>1, <3>2, BalanceIsGain DEF ReportExplainsBalances
      <4>2. opening[a] + GainFirst(n, a) \in Int
        BY <3>4
      <4>3. QED
        BY <1>9, <2>1, <4>1, <4>2, WrapType
    <3>6. opening[a] + (GainFirst(n, a) + Gain(n + 1, a))
            = (opening[a] + GainFirst(n, a)) + Gain(n + 1, a)
      BY <3>4
    <3>7. QED
      BY <1>4, <1>12, <3>1, <3>3, <3>5, <3>6
  <2>4. QED
    BY <2>2, <2>3
<1>13. QED
  BY <1>6, <1>11, <1>12

LEMMA NextExact ==
    TypeOK /\ TypeOK' /\ ReportExplainsBalances /\ NeverWrapped /\ [Next]_vars
        => NeverWrapped'
<1> SUFFICES ASSUME TypeOK, TypeOK', ReportExplainsBalances, NeverWrapped, [Next]_vars
             PROVE  NeverWrapped'
  OBVIOUS
<1>1. ASSUME results' = <<>>
      PROVE  NeverWrapped'
  <2>1. SUFFICES ASSUME NEW a \in DOMAIN opening', NEW k \in 0 .. Len(results')
                 PROVE  opening'[a] + GainFirst(k, a)' \in Balance
    BY DEF NeverWrapped
  <2>2. GainFirst(0, a)' = 0 /\ Len(results') = 0
    BY <1>1, NothingGained
  <2>3. opening'[a] \in Balance
    BY <2>1 DEF TypeOK
  <2>4. opening'[a] + 0 = opening'[a]
    BY <2>3, ClearingAssumption DEF Balance
  <2>5. k = 0
    BY <2>1, <2>2
  <2>6. QED
    BY <2>2, <2>3, <2>4, <2>5
<1>2. ASSUME NEW id \in Accounts, NEW b \in InitialBalances, register_account(id, b)
      PROVE  NeverWrapped'
  BY <1>1, <1>2 DEF register_account
<1>3. ASSUME NEW obligations \in Batches, clear_all(obligations)
      PROVE  NeverWrapped'
  BY <1>1, <1>3 DEF clear_all
<1>4. CASE ClearNext
  BY <1>4, ClearNextExact
<1>5. CASE UNCHANGED vars
  BY <1>5 DEF vars, NeverWrapped, GainFirst, ClearedFirst, Gain
<1>6. QED
  BY <1>2, <1>3, <1>4, <1>5 DEF Next

(***************************************************************************)
(* A refusal for lack of funds means what FundedAccountsPay says.  Of the  *)
(* obligations before it, the cleared ones took at most what the account   *)
(* owes in them; together with the refused payment that is more than the   *)
(* opening balance, and at most all the account owes in the batch.         *)
(***************************************************************************)
LEMMA RefusalMeansShort ==
    ASSUME TypeOK, ReportExplainsBalances, NeverWrapped
    PROVE  FundedAccountsPay
<1> SUFFICES ASSUME NonnegativePayments, ~overflowed, NEW i \in 1 .. Len(results),
                    results[i].error = "InsufficientBalance"
             PROVE  Owed(batch[i].deliverer) > opening[batch[i].deliverer]
  BY DEF FundedAccountsPay
<1> DEFINE ob   == batch[i]
           p    == ob.deliverer
           C    == ClearedFirst(i - 1)
           S    == 1 .. Len(batch)
           owes == [j \in S |-> OutOf(batch[j], p, batch[j].net_payment)]
           gain == [j \in C |-> Gain(j, p)]
           rest == [j \in C |-> gain[j] + owes[j]]
<1>1. /\ Len(results) \in Nat /\ Len(batch) \in Nat /\ Len(results) <= Len(batch)
      /\ i \in S /\ i - 1 \in 0 .. Len(results)
  BY DEF TypeOK
<1>2. C \subseteq S /\ i \notin C /\ IsFiniteSet(C) /\ IsFiniteSet(S)
  <2>1. C \subseteq S /\ i \notin C
    BY <1>1 DEF ClearedFirst
  <2>2. IsFiniteSet(C)
    BY <1>1, GainsAreIntegers
  <2>3. IsFiniteSet(S)
    <3>1. 1 \in Int /\ Len(batch) \in Int
      BY <1>1
    <3>2. IsFiniteSet(1 .. Len(batch))
      BY <3>1, FS_Interval
    <3>3. QED
      BY <3>2
  <2>4. QED
    BY <2>1, <2>2, <2>3
<1>3. \A j \in S : batch[j].net_payment \in Nat
  <2>1. SUFFICES ASSUME NEW j \in S  PROVE batch[j].net_payment \in Nat
    OBVIOUS
  <2>2. batch[j] \in NetObligations /\ batch[j].net_payment >= 0
    BY DEF TypeOK, NonnegativePayments
  <2>3. QED
    BY <2>2, ClearingAssumption DEF NetObligations, ObligationType, Balance
<1>4. \A j \in S : owes[j] \in Nat
  BY <1>3 DEF OutOf
<1>5. \A j \in C : /\ gain[j] \in Int /\ owes[j] \in Int
                  /\ rest[j] = gain[j] + owes[j] /\ rest[j] \in Nat
  <2>1. SUFFICES ASSUME NEW j \in C
                 PROVE  gain[j] \in Int /\ owes[j] \in Int /\ gain[j] + owes[j] \in Nat
    OBVIOUS
  <2>2. j \in S /\ batch[j].net_payment \in Nat
    BY <1>2, <1>3
  <2>3. QED
    BY <2>2 DEF Gain, Into, OutOf
<1>6. GainFirst(i - 1, p) = SumFunctionOnSet(gain, C)
  BY DEF GainFirst
<1>7. Owed(p) = SumFunctionOnSet(owes, S)
  <2>1. DOMAIN batch = S
    BY DEF TypeOK
  <2>2. QED
    BY <2>1 DEF Owed, Total, SumFunction
<1>8. owes[i] = ob.net_payment
  BY <1>1 DEF OutOf
<1>9. p \in DOMAIN opening /\ BalanceAfter(i - 1, p) < ob.net_payment
  <2>1. Justified(i)
    BY DEF ReportExplainsBalances
  <2>2. {p, ob.receiver} \ DOMAIN opening = {}
    BY <2>1, ErrorsAreNotCleared DEF Justified
  <2>3. ~(BalanceAfter(i - 1, p) >= ob.net_payment)
    BY <2>1, <2>2, ErrorsAreNotCleared DEF Justified
  <2>4. BalanceAfter(i - 1, p) \in Int
    <3>1. opening[p] \in Int
      BY <2>2, ClearingAssumption DEF TypeOK, Balance
    <3>2. opening[p] + GainFirst(i - 1, p) \in Int
      BY <1>1, <3>1, GainsAreIntegers
    <3>3. QED
      BY <3>2, BalanceIsGain, WrapType, ClearingAssumption DEF Balance
  <2>5. QED
    BY <1>1, <1>3, <2>2, <2>3, <2>4
<1>10. BalanceAfter(i - 1, p) = opening[p] + GainFirst(i - 1, p)
  <2>1. opening[p] + GainFirst(i - 1, p) \in Balance
    BY <1>1, <1>9 DEF NeverWrapped
  <2>2. opening[p] + GainFirst(i - 1, p) \in Int
    BY <2>1, ClearingAssumption DEF Balance
  <2>3. QED
    BY <2>1, <2>2, BalanceIsGain, WrapType
<1>11. opening[p] \in Int /\ ob.net_payment \in Nat
  BY <1>1, <1>3, <1>9, ClearingAssumption DEF TypeOK, Balance
<1> HIDE DEF owes, gain, rest, C
<1>12. SumFunctionOnSet(rest, C) = SumFunctionOnSet(gain, C) + SumFunctionOnSet(owes, C)
  BY <1>2, <1>5, SumPlus
<1>13. SumFunctionOnSet(rest, C) \in Nat
  BY <1>2, <1>5, SumIsNat
<1>14. SumFunctionOnSet(gain, C) \in Int /\ SumFunctionOnSet(owes, C) \in Int
  BY <1>2, <1>5, SumType
<1>15. SumFunctionOnSet(owes, C \cup {i}) = SumFunctionOnSet(owes, C) + owes[i]
  <2>1. \A j \in C \cup {i} : owes[j] \in Int
    BY <1>1, <1>2, <1>4
  <2>2. QED
    BY <1>2, <2>1, SumAddElement
<1>16. SumFunctionOnSet(owes, C \cup {i}) <= SumFunctionOnSet(owes, S)
  <2>1. C \cup {i} \in SUBSET S
    BY <1>1, <1>2
  <2>2. QED
    BY <1>2, <1>4, <2>1, SumOfMore
<1>17. SumFunctionOnSet(owes, S) \in Nat
  BY <1>2, <1>4, SumIsNat
<1> DEFINE owed == Owed(p)
           open == opening[p]
           pay  == ob.net_payment
           sg   == SumFunctionOnSet(gain, C)
           so   == SumFunctionOnSet(owes, C)
<1>18. /\ sg + so \in Nat /\ sg \in Int /\ so \in Int
       /\ owed \in Nat /\ so + pay <= owed
       /\ open \in Int /\ pay \in Nat /\ open + sg < pay
  BY <1>6, <1>7, <1>8, <1>9, <1>10, <1>11, <1>12, <1>13, <1>14, <1>15, <1>16, <1>17
<1> HIDE DEF owed, open, pay, sg, so
<1>19. owed > open
  BY <1>18
<1>20. QED
  BY <1>19 DEF owed, open

(***************************************************************************)
(* An account that can pay all it owes in a batch out of its opening       *)
(* balance is never refused, whatever the order and whatever else fails.   *)
(***************************************************************************)
THEOREM FundedAccountsAlwaysPay == Spec => []FundedAccountsPay
<1>1. Init => NeverWrapped
  BY DEF Init, NeverWrapped
<1>2. Spec => []NeverWrapped
  BY <1>1, TypeCorrect, ReportAlwaysExplains, NextExact, PTL DEF Spec
<1>3. QED
  BY <1>2, TypeCorrect, ReportAlwaysExplains, RefusalMeansShort, PTL

-----------------------------------------------------------------------------
(***************************************************************************)
(* A transfer between accounts that are not overdrawn neither makes nor    *)
(* loses money, so the receiver ends up with at most all there is.         *)
(***************************************************************************)
LEMMA TransferKeepsMoney ==
    ASSUME TypeOK, NEW S, S = DOMAIN accounts, IsFiniteSet(S),
           NEW ob \in NetObligations, ob.net_payment >= 0,
           ob.deliverer \in S, ob.receiver \in S,
           accounts[ob.deliverer] >= ob.net_payment,
           \A a \in S : accounts[a] >= 0,
           SumFunctionOnSet(accounts, S) < Half,
           ~overflowed, Transfer(ob)
    PROVE  /\ ~overflowed'
           /\ DOMAIN accounts' = S
           /\ \A a \in S : accounts'[a] >= 0
           /\ SumFunctionOnSet(accounts', S) = SumFunctionOnSet(accounts, S)
<1> DEFINE d == ob.deliverer
           r == ob.receiver
           p == ob.net_payment
           debited == Debited(ob)
<1>1. p \in Nat /\ Half \in Nat
  BY ClearingAssumption DEF NetObligations, ObligationType, Balance
<1>2. \A a \in S : accounts[a] \in Nat /\ accounts[a] \in Balance
  BY ClearingAssumption DEF TypeOK, Balance
<1>3. accounts[d] - p \in Nat /\ accounts[d] - p \in Balance
  BY <1>1, <1>2 DEF Balance
<1>4. Wrap(accounts[d] - p) = accounts[d] - p
  BY <1>3, WrapType
<1>5. /\ DOMAIN debited = S /\ debited[d] = accounts[d] - p
      /\ \A a \in S : debited[a] \in Nat /\ (a # d => debited[a] = accounts[a])
  BY <1>2, <1>3, <1>4 DEF Debited, TypeOK
<1>6. SumFunctionOnSet(debited, S) = SumFunctionOnSet(accounts, S) - accounts[d] + debited[d]
  <2> HIDE DEF debited
  <2>1. QED  BY <1>2, <1>5, SumChangeOne
<1>7. SumFunctionOnSet(accounts, S) \in Int /\ SumFunctionOnSet(debited, S) \in Int
  <2> HIDE DEF debited
  <2>1. QED  BY <1>2, <1>5, SumType
<1>8. debited[r] <= SumFunctionOnSet(debited, S)
  <2> HIDE DEF debited
  <2>1. QED  BY <1>5, TermAtMostSum
<1>9. debited[r] + p \in Nat /\ debited[r] + p \in Balance
  BY <1>1, <1>2, <1>3, <1>5, <1>6, <1>7, <1>8 DEF Balance
<1>10. Wrap(debited[r] + p) = debited[r] + p
  BY <1>9, WrapType
<1>11. /\ DOMAIN accounts' = S /\ accounts'[r] = debited[r] + p
       /\ \A a \in S : accounts'[a] \in Nat /\ (a # r => accounts'[a] = debited[a])
  BY <1>5, <1>9, <1>10 DEF Transfer
<1>12. SumFunctionOnSet(accounts', S) = SumFunctionOnSet(debited, S) - debited[r] + accounts'[r]
  <2> HIDE DEF debited
  <2>1. QED  BY <1>5, <1>11, SumChangeOne
<1>13. ~overflowed'
  BY <1>3, <1>9 DEF Transfer
<1>14. SumFunctionOnSet(accounts', S) = SumFunctionOnSet(accounts, S)
  BY <1>1, <1>2, <1>3, <1>5, <1>6, <1>7, <1>11, <1>12
<1>15. \A a \in S : accounts'[a] >= 0
  BY <1>11
<1>16. QED
  BY <1>11, <1>13, <1>14, <1>15

(***************************************************************************)
(* While the money of the house fits a balance, nothing has wrapped, no    *)
(* account is overdrawn, and there is as much money as at the opening.     *)
(***************************************************************************)
MoneyFits ==
    /\ NonnegativePayments
    /\ \A a \in DOMAIN opening : opening[a] >= 0
    /\ SumFunctionOnSet(opening, DOMAIN opening) < Half

MoneyInv ==
    /\ IsFiniteSet(DOMAIN accounts)
    /\ MoneyFits =>
          /\ ~overflowed
          /\ \A a \in DOMAIN accounts : accounts[a] >= 0
          /\ SumFunctionOnSet(accounts, DOMAIN accounts)
               = SumFunctionOnSet(opening, DOMAIN opening)

LEMMA NextMoney == TypeOK /\ MoneyInv /\ [Next]_vars => MoneyInv'
<1> SUFFICES ASSUME TypeOK, MoneyInv, [Next]_vars  PROVE MoneyInv'
  OBVIOUS
<1>1. ASSUME IsFiniteSet(DOMAIN accounts'), opening' = accounts', overflowed' = FALSE
      PROVE  MoneyInv'
  BY <1>1 DEF MoneyInv, MoneyFits
<1>2. ASSUME NEW id \in Accounts, NEW b \in InitialBalances, register_account(id, b)
      PROVE  MoneyInv'
  <2>1. DOMAIN accounts' = DOMAIN accounts \cup {id}
    BY <1>2 DEF register_account
  <2>2. IsFiniteSet(DOMAIN accounts')
    BY <2>1, FS_AddElement DEF MoneyInv
  <2>3. opening' = accounts' /\ overflowed' = FALSE
    BY <1>2 DEF register_account
  <2>4. QED
    BY <1>1, <2>2, <2>3
<1>3. ASSUME NEW obligations \in Batches, clear_all(obligations)
      PROVE  MoneyInv'
  BY <1>1, <1>3 DEF clear_all, MoneyInv
<1>4. CASE ClearNext
  <2>1. PICK ob : ob = batch[Len(results) + 1]
    OBVIOUS
  <2>2. Len(results) + 1 \in 1 .. Len(batch)
    BY <1>4 DEF ClearNext, Idle, TypeOK
  <2>3. batch' = batch /\ opening' = opening /\ clear_obligation(ob)
    BY <1>4, <2>1 DEF ClearNext
  <2>4. MoneyFits' <=> MoneyFits
    BY <2>3 DEF MoneyFits, NonnegativePayments
  <2>5. CASE accounts' = accounts /\ overflowed' = overflowed
    BY <2>3, <2>4, <2>5 DEF MoneyInv
  <2>6. CASE /\ {ob.deliverer, ob.receiver} \subseteq DOMAIN accounts
             /\ CanPay(ob)
             /\ Transfer(ob)
    <3>1. ob \in NetObligations
      BY <2>1, <2>2 DEF TypeOK
    <3>2. DOMAIN accounts' = DOMAIN accounts
      BY <2>6, <3>1, TransferType
    <3>3. CASE MoneyFits
      <4>1. ob.net_payment >= 0
        BY <2>1, <2>2, <3>3 DEF MoneyFits, NonnegativePayments
      <4>2. PICK S : S = DOMAIN accounts
        OBVIOUS
      <4>3. /\ ~overflowed'
            /\ \A a \in S : accounts'[a] >= 0
            /\ SumFunctionOnSet(accounts', S) = SumFunctionOnSet(accounts, S)
        <5>1. /\ IsFiniteSet(S) /\ ob.deliverer \in S /\ ob.receiver \in S
              /\ accounts[ob.deliverer] >= ob.net_payment
              /\ \A a \in S : accounts[a] >= 0
              /\ SumFunctionOnSet(accounts, S) < Half
              /\ ~overflowed
          BY <2>6, <3>3, <4>2 DEF CanPay, MoneyInv, MoneyFits
        <5>2. QED
          BY <2>6, <3>1, <4>1, <4>2, <5>1, TransferKeepsMoney
      <4>4. QED
        BY <2>3, <3>2, <3>3, <4>2, <4>3 DEF MoneyInv
    <3>4. CASE ~MoneyFits
      BY <2>4, <3>2, <3>4 DEF MoneyInv
    <3>5. QED
      BY <3>3, <3>4
  <2>7. QED
    BY <2>3, <2>5, <2>6 DEF clear_obligation, Refuse
<1>5. CASE UNCHANGED vars
  BY <1>5 DEF vars, MoneyInv, MoneyFits, NonnegativePayments
<1>6. QED
  BY <1>2, <1>3, <1>4, <1>5 DEF Next

(***************************************************************************)
(* No number of accounts, registrations and batches makes a balance wrap   *)
(* around as long as all the money of the house fits one balance.          *)
(***************************************************************************)
THEOREM FittingMoneyNeverWraps == Spec => []MoneyThatFitsNeverWraps
<1>1. Init => MoneyInv
  BY FS_EmptySet DEF Init, MoneyInv
<1>2. MoneyInv => MoneyThatFitsNeverWraps
  BY DEF MoneyInv, MoneyFits, MoneyThatFitsNeverWraps, SumFunction
<1>3. QED
  BY <1>1, <1>2, TypeCorrect, NextMoney, PTL DEF Spec
=============================================================================
