------------------------- MODULE CollateralAccount -------------------------
(***************************************************************************)
(* A collateral account (collateral.rs): face values by type of            *)
(* collateral, deposited and withdrawn one at a time; what they are worth  *)
(* after haircuts; and the check of concentration limits.                  *)
(*                                                                         *)
(* Values are i64 and, with overflow checks off in a release build, wrap   *)
(* around; rates are in basis points, of which Scale make one.             *)
(***************************************************************************)
EXTENDS Integers, FiniteSets, FiniteSetsExt

CONSTANTS
    CollateralType,
    Haircuts,        \* configurations: a rate for each type
    Limits,          \* what check_concentration is given: a rate for each type
    Amounts,         \* what deposit and withdraw are given
    Scale,           \* 10_000
    Half,            \* 2^63: a value is in -Half .. Half-1
    RateMod,         \* 2^32, the number of values of current_bps
    MaxOperations    \* bound on the deposits and withdrawals

Value == -Half .. Half - 1

HaircutConfig == [CollateralType -> 0 .. Scale]

ASSUME CollateralAssumption ==
    /\ IsFiniteSet(CollateralType)
    /\ Scale \in Nat \ {0}
    /\ Half \in Nat \ {0}
    /\ RateMod \in Nat \ {0}
    /\ Haircuts \subseteq HaircutConfig
    /\ Limits \subseteq [CollateralType -> Nat]
    /\ Amounts \subseteq Value
    /\ MaxOperations \in Nat

VARIABLES
    holdings,
    haircut,       \* the configuration of the account
    operations,    \* history: deposits and withdrawals so far
    overflowed     \* history: a deposit has wrapped around

vars == <<holdings, haircut, operations, overflowed>>

Wrap(n) == ((n + Half) % (2 * Half)) - Half

Init ==
    /\ holdings = [ct \in CollateralType |-> 0]
    /\ haircut \in Haircuts
    /\ operations = 0
    /\ overflowed = FALSE

deposit(ct, amount) ==
    \/ /\ amount > 0
       /\ holdings' = [holdings EXCEPT ![ct] = Wrap(@ + amount)]
       /\ overflowed' = (overflowed \/ holdings[ct] + amount \notin Value)
    \/ /\ amount <= 0
       /\ UNCHANGED <<holdings, overflowed>>

total_face_value == Wrap(SumFunction(holdings))

\* Mutant: the whole account is looked at.
Sufficient_InTotal(ct, amount) == total_face_value >= amount

Sufficient(ct, amount) == holdings[ct] >= amount

(***************************************************************************)
(* withdraw: without effect if there is nothing to withdraw or too little  *)
(* to withdraw from.                                                       *)
(***************************************************************************)
withdraw(ct, amount) ==
    \/ /\ amount > 0 /\ Sufficient(ct, amount)
       /\ holdings' = [holdings EXCEPT ![ct] = @ - amount]
       /\ UNCHANGED overflowed
    \/ /\ amount <= 0 \/ ~Sufficient(ct, amount)
       /\ UNCHANGED <<holdings, overflowed>>

Next ==
    /\ operations < MaxOperations
    /\ operations' = operations + 1
    /\ UNCHANGED haircut
    /\ \E ct \in CollateralType, amount \in Amounts :
          deposit(ct, amount) \/ withdraw(ct, amount)

Spec == Init /\ [][Next]_vars

-----------------------------------------------------------------------------
\* Rust's division truncates toward zero; divisors here are positive.
TruncDiv(n, d) == IF n >= 0 THEN n \div d ELSE -((-n) \div d)

\* Mutant: the division comes first.
apply_haircut_DivideFirst(ct, value) ==
    Wrap(TruncDiv(value, Scale) * (Scale - haircut[ct]))

apply_haircut(ct, value) == TruncDiv(Wrap(value * (Scale - haircut[ct])), Scale)

adjusted_value(ct) == apply_haircut(ct, holdings[ct])

\* Mutant: the ratio is taken of the face values.
total_adjusted_value_Face == total_face_value

AdjustedSum == SumFunction([ct \in CollateralType |-> adjusted_value(ct)])

total_adjusted_value == Wrap(AdjustedSum)

current_bps(ct) ==
    TruncDiv(Wrap(adjusted_value(ct) * Scale), total_adjusted_value) % RateMod

\* Mutant: reaching the limit is a breach.
Exceeds_Reached(ct, limits) == current_bps(ct) >= limits[ct]

Exceeds(ct, limits) == current_bps(ct) > limits[ct]

check_concentration(limits) ==
    {ct \in CollateralType : /\ total_adjusted_value > 0
                             /\ adjusted_value(ct) > 0
                             /\ Exceeds(ct, limits)}

-----------------------------------------------------------------------------
\* Deposits and withdrawals keep every holding within its width.
TypeOK ==
    /\ holdings \in [CollateralType -> Value]
    /\ haircut \in Haircuts
    /\ operations \in 0..MaxOperations
    /\ overflowed \in BOOLEAN

(***************************************************************************)
(* No collateral is withdrawn that was not deposited: a holding is never   *)
(* negative, unless a deposit has wrapped around.                          *)
(***************************************************************************)
NeverOverdrawn == ~overflowed => \A ct \in CollateralType : holdings[ct] >= 0

(***************************************************************************)
(* The holdings are small enough for every intermediate result to fit.     *)
(***************************************************************************)
Fits ==
    /\ ~overflowed
    /\ SumFunction(holdings) * Scale < Half
    /\ Scale < RateMod

(***************************************************************************)
(* A haircut takes what its rate says and rounds against the account, by   *)
(* less than one tick for each type.                                       *)
(***************************************************************************)
HaircutsAreExact ==
    Fits => \A ct \in CollateralType :
        holdings[ct] * (Scale - haircut[ct]) - adjusted_value(ct) * Scale \in 0 .. Scale - 1

(***************************************************************************)
(* A reported breach is one: the type really makes up more of the account, *)
(* after haircuts, than its limit allows.                                  *)
(***************************************************************************)
BeyondLimit(ct, limits, excess) ==
    adjusted_value(ct) * Scale > limits[ct] * AdjustedSum + excess * AdjustedSum

BreachesAreReal ==
    Fits => \A limits \in Limits : \A ct \in check_concentration(limits) :
        BeyondLimit(ct, limits, 0)

(***************************************************************************)
(* Every type beyond its limit by more than a basis point is reported:     *)
(* current_bps is rounded down, so no less is promised.                    *)
(***************************************************************************)
ClearBreachesReported ==
    Fits => \A limits \in Limits, ct \in CollateralType :
        BeyondLimit(ct, limits, 1) => ct \in check_concentration(limits)
=============================================================================
