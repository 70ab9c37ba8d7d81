--------------------------- MODULE ClearingHouse ---------------------------
(***************************************************************************)
(* The clearing house (clearing.rs).  clear_all takes the obligations of a *)
(* slice in order; each is one call of clear_obligation, which moves       *)
(* net_payment from the deliverer's balance to the receiver's or returns   *)
(* an error, and a failure undoes nothing that went before.  A single      *)
(* clear_obligation is a clear_all of one obligation.                      *)
(*                                                                         *)
(* Balances are i64.  Cargo.toml leaves overflow checks off in the release *)
(* profile, so `balance -= pay` and `balance += pay` wrap around.          *)
(* margin_held is set to 0 and never read: it is left out.                 *)
(***************************************************************************)
EXTENDS Obligations, Sequences

CONSTANTS
    Accounts,
    Symbols,
    InitialBalances,  \* what register_account is given
    Batches,          \* the slices clear_all is given
    Half              \* 2^63: a balance is in -Half .. Half-1

Balance        == -Half .. Half - 1
NetObligations == ObligationType(Symbols, Accounts, Nat, Balance)

ASSUME ClearingAssumption ==
    /\ Half \in Nat \ {0}
    /\ InitialBalances \subseteq Balance
    /\ Batches \subseteq Seq(NetObligations)

VARIABLES
    accounts,   \* a function from the registered accounts to their balances
    batch,      \* the slice of the current or last clear_all
    results,    \* its results so far, one for each obligation attempted
    opening,    \* history: accounts when clear_all was called
    overflowed  \* history: a balance wrapped around since then

vars == <<accounts, batch, results, opening, overflowed>>

(***************************************************************************)
(* The value of an i64 after an addition or a subtraction.                 *)
(***************************************************************************)
Wrap(n) == ((n + Half) % (2 * Half)) - Half

(***************************************************************************)
(* What clear_obligation returns: Ok(()) or a ClearingError.               *)
(***************************************************************************)
Cleared            == [error |-> "None"]
AccountNotFound(a) == [error |-> "AccountNotFound", account |-> a]
InsufficientBalance(a, required, available) ==
    [error |-> "InsufficientBalance", account |-> a,
     required |-> required, available |-> available]

Outcomes == {Cleared}
            \cup [error: {"AccountNotFound"}, account: Accounts]
            \cup [error: {"InsufficientBalance"}, account: Accounts,
                  required: Balance, available: Balance]

Idle == Len(results) = Len(batch)

Init ==
    /\ accounts = [a \in {} |-> 0]
    /\ batch = <<>>
    /\ results = <<>>
    /\ opening = accounts
    /\ overflowed = FALSE

(***************************************************************************)
(* register_account replaces the account if it is there.                   *)
(***************************************************************************)
register_account(id, initial_balance) ==
    /\ Idle
    /\ accounts' = [a \in DOMAIN accounts \cup {id} |->
                       IF a = id THEN initial_balance ELSE accounts[a]]
    /\ batch' = <<>>
    /\ results' = <<>>
    /\ opening' = accounts'
    /\ overflowed' = FALSE

clear_all(obligations) ==
    /\ Idle
    /\ batch' = obligations
    /\ results' = <<>>
    /\ opening' = accounts
    /\ overflowed' = FALSE
    /\ UNCHANGED accounts

(***************************************************************************)
(* The debit, then the credit: they read and write the same balance when   *)
(* an account has an obligation to itself.                                 *)
(***************************************************************************)
Debited(ob) == [accounts EXCEPT ![ob.deliverer] = Wrap(@ - ob.net_payment)]

Transfer(ob) ==
    LET debited == Debited(ob)
    IN  /\ accounts' = [debited EXCEPT ![ob.receiver] = Wrap(@ + ob.net_payment)]
        /\ overflowed' = \/ overflowed
                         \/ accounts[ob.deliverer] - ob.net_payment \notin Balance
                         \/ debited[ob.receiver] + ob.net_payment \notin Balance
        /\ results' = Append(results, Cleared)

\* Mutants: looking an account up opens it; a failure rolls the batch back.
Refuse_Opens(error) ==
    /\ results' = Append(results, error)
    /\ accounts' = [a \in DOMAIN accounts \cup {error.account} |->
                       IF a \in DOMAIN accounts THEN accounts[a] ELSE 0]
    /\ UNCHANGED overflowed

Refuse_RollBack(error) ==
    /\ results' = Append(results, error)
    /\ accounts' = opening
    /\ UNCHANGED overflowed

Refuse(error) ==
    /\ results' = Append(results, error)
    /\ UNCHANGED <<accounts, overflowed>>

\* Mutants: the balance must exceed the payment; it is not checked.
CanPay_Strictly(ob) == accounts[ob.deliverer] > ob.net_payment
CanPay_Always(ob)   == TRUE

CanPay(ob) == accounts[ob.deliverer] >= ob.net_payment

clear_obligation(ob) ==
    \/ /\ ob.deliverer \notin DOMAIN accounts
       /\ Refuse(AccountNotFound(ob.deliverer))
    \/ /\ ob.deliverer \in DOMAIN accounts
       /\ ob.receiver \notin DOMAIN accounts
       /\ Refuse(AccountNotFound(ob.receiver))
    \/ /\ {ob.deliverer, ob.receiver} \subseteq DOMAIN accounts
       /\ ~CanPay(ob)
       /\ Refuse(InsufficientBalance(ob.deliverer, ob.net_payment, accounts[ob.deliverer]))
    \/ /\ {ob.deliverer, ob.receiver} \subseteq DOMAIN accounts
       /\ CanPay(ob)
       /\ Transfer(ob)

ClearNext ==
    /\ ~Idle
    /\ clear_obligation(batch[Len(results) + 1])
    /\ UNCHANGED <<batch, opening>>

Next ==
    \/ \E id \in Accounts, b \in InitialBalances : register_account(id, b)
    \/ \E obligations \in Batches : clear_all(obligations)
    \/ ClearNext

Spec == Init /\ [][Next]_vars

-----------------------------------------------------------------------------
\* Clearing opens and closes no account, and clear_all reports at most one result per
\* obligation.
TypeOK ==
    /\ accounts \in [DOMAIN accounts -> Balance]
    /\ DOMAIN accounts \subseteq Accounts
    /\ opening \in [DOMAIN accounts -> Balance]
    /\ batch \in Seq(NetObligations)
    /\ results \in Seq(Outcomes)
    /\ Len(results) <= Len(batch)
    /\ overflowed \in BOOLEAN

(***************************************************************************)
(* The report of clear_all accounts for everything it did.  From the       *)
(* opening balances and the results alone one can compute the balance of   *)
(* every account before each obligation; that balance justifies the result *)
(* of the obligation, down to the figures of the error, and the last one   *)
(* is the balance the account has.  So a failure leaves no trace, and what *)
(* was cleared before or after it stands.                                  *)
(***************************************************************************)
BalanceAfter(k, a) ==
    LET cleared == {i \in 1..k : results[i] = Cleared}
    IN  Wrap(opening[a] + SumFunction([i \in cleared |->
                              Into(batch[i], a, batch[i].net_payment)
                            - OutOf(batch[i], a, batch[i].net_payment)]))

Justified(i) ==
    LET ob      == batch[i]
        missing == {ob.deliverer, ob.receiver} \ DOMAIN opening
        funds   == BalanceAfter(i - 1, ob.deliverer)
    IN  IF missing # {}
        THEN results[i] = AccountNotFound(IF ob.deliverer \in missing
                                          THEN ob.deliverer ELSE ob.receiver)
        ELSE results[i] = IF funds >= ob.net_payment THEN Cleared
                          ELSE InsufficientBalance(ob.deliverer, ob.net_payment, funds)

ReportExplainsBalances ==
    /\ \A i \in 1..Len(results) : Justified(i)
    /\ \A a \in DOMAIN accounts : accounts[a] = BalanceAfter(Len(results), a)

(***************************************************************************)
(* An account that can pay all it owes in the batch out of its opening     *)
(* balance is never refused for lack of funds, in whatever position of the *)
(* batch its obligations come and whatever else fails.                     *)
(***************************************************************************)
NonnegativePayments == \A i \in 1..Len(batch) : batch[i].net_payment >= 0

Owed(a) == Total(LAMBDA ob : OutOf(ob, a, ob.net_payment), batch)

FundedAccountsPay ==
    NonnegativePayments /\ ~overflowed =>
        \A i \in 1..Len(results) :
            LET payer == batch[i].deliverer
            IN  results[i].error = "InsufficientBalance" => Owed(payer) > opening[payer]

(***************************************************************************)
(* Clearing payments that are not negative never overdraws an account that *)
(* was not overdrawn, unless a credit wraps around.                        *)
(***************************************************************************)
NoOverdraft ==
    /\ NonnegativePayments
    /\ ~overflowed
    /\ \A a \in DOMAIN opening : opening[a] >= 0
    => \A a \in DOMAIN accounts : accounts[a] >= 0

(***************************************************************************)
(* Money that fits an i64 as a whole never wraps one around, however it is *)
(* passed about: no account ever gets more than all there is.              *)
(***************************************************************************)
MoneyThatFitsNeverWraps ==
    /\ NonnegativePayments
    /\ \A a \in DOMAIN opening : opening[a] >= 0
    /\ SumFunction(opening) < Half
    => ~overflowed

(***************************************************************************)
(* clear_obligation "returns ClearingError if the account is missing or    *)
(* has insufficient funds".  A negative net_payment makes the receiver the *)
(* account that pays; the promise would mean that whichever account an     *)
(* obligation charges could afford it.                                     *)
(***************************************************************************)
PayerHasFunds ==
    (\A a \in DOMAIN opening : opening[a] >= 0) /\ ~overflowed
        => \A a \in DOMAIN accounts : accounts[a] >= 0
=============================================================================
