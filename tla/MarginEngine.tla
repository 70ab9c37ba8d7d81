---------------------------- MODULE MarginEngine ----------------------------
(***************************************************************************)
(* The margin engine (margin.rs): what an account must hold against one    *)
(* obligation, or against all of its obligations.  The engine keeps its    *)
(* configuration and nothing else, so its two operations are operators.    *)
(*                                                                         *)
(* Amounts are i64.  Rates are f64, and a product with one goes through    *)
(* f64: the amount is converted (rounding to Precision significant bits,   *)
(* ties to even), multiplied (rounding again) and cast back with `as i64`, *)
(* which truncates toward zero and saturates.  Exponents are unbounded and *)
(* rates are finite.                                                       *)
(***************************************************************************)
EXTENDS Obligations, SequencesExt

CONSTANTS
    Width,        \* 63: an amount is in -2^63 .. 2^63-1
    Precision     \* 53, the significant bits of an f64

\* 2^n
Exp2[n \in Nat] == IF n = 0 THEN 1 ELSE 2 * Exp2[n - 1]

Half   == Exp2[Width]
Amount == -Half .. Half - 1

\* A rate is num/den, what an f64 can hold: den is a power of two, at most Scale.
Scale == Exp2[2 * Precision]
Rate  == [num : -Exp2[Precision] .. Exp2[Precision],
          den : {Exp2[e] : e \in 0 .. 2 * Precision}]

MarginConfig ==
    [initial_margin_rate: Rate, variation_margin_rate: Rate,
     stress_scenarios: SUBSET Rate, margin_floor: Amount]

ASSUME MarginAssumption == Width \in Nat \ {0} /\ Precision \in Nat \ {0}

MarginRequirement(account, initial, variation, stress, total) ==
    [account_id |-> account, initial_margin |-> initial, variation_margin |-> variation,
     stress_margin |-> stress, total_margin |-> total]

-----------------------------------------------------------------------------
Wrap(n) == ((n + Half) % (2 * Half)) - Half

\* Mutant: an i64 that wraps around.
Saturate_Wrapping(n) == Wrap(n)

Saturate(n) == Max({-Half, Min({Half - 1, n})})

Abs(n) == IF n < 0 THEN -n ELSE n

TruncDiv(n, d) == IF n >= 0 THEN n \div d ELSE -((-n) \div d)

(***************************************************************************)
(* The f64 nearest to an integer.  Scaling by a power of two changes none  *)
(* of its significant bits, so this also rounds the numerator of an amount *)
(* times a rate.                                                           *)
(***************************************************************************)
Numerator == -(Half * Exp2[Precision]) .. Half * Exp2[Precision]

Unit(n) == Exp2[Min({s \in 0 .. Width + 1 : Abs(n) < Exp2[Precision + s]})]

NearestFloat[n \in Numerator] ==
    LET unit  == Unit(n)
        below == n \div unit
        twice == 2 * (n % unit)
    IN  unit * IF twice < unit \/ (twice = unit /\ below % 2 = 0) THEN below ELSE below + 1

\* (amount as f64 * rate) as i64
Scaled(amount, rate) ==
    Saturate(TruncDiv(NearestFloat[NearestFloat[amount] * rate.num], rate.den))

-----------------------------------------------------------------------------
\* The subtraction and abs wrap around.
ScenarioLoss(notional, scenario) == Wrap(Abs(Wrap(Scaled(notional, scenario) - notional)))

worst_case_stress(config, notional) ==
    Max({0} \cup {ScenarioLoss(notional, scenario) : scenario \in config.stress_scenarios})

Requirement(config, account, notional, exposure) ==
    LET initial   == Scaled(notional, config.initial_margin_rate)
        variation == Scaled(exposure, config.variation_margin_rate)
        stress    == worst_case_stress(config, notional)
    IN  MarginRequirement(account, initial, variation, stress,
            Max({Saturate(initial + variation), stress, config.margin_floor}))

\* Mutant: the payment keeps its sign.
ObligationNotional_Signed(ob) == ob.net_payment

\* unsigned_abs() as i64 leaves the least payment negative.
ObligationNotional(ob) == Wrap(Abs(ob.net_payment))

compute_obligation_margin(config, ob) ==
    Requirement(config, ob.deliverer, ObligationNotional(ob), ObligationNotional(ob))

-----------------------------------------------------------------------------
(***************************************************************************)
(* One round of the loop of compute_portfolio_margin, from the sums        *)
(* [notional, exposure].  The deliverer is looked at first.                *)
(***************************************************************************)
NoExposure == [notional |-> 0, exposure |-> 0]

Signed(account, ob) == IF ob.deliverer = account THEN -ob.net_payment ELSE ob.net_payment

\* Mutant: whoever is not the deliverer is taken for the receiver.
Considered_Everyone(sums, account, ob) ==
    [notional |-> Saturate(sums.notional + Wrap(Abs(ob.net_payment))),
     exposure |-> Saturate(sums.exposure + Signed(account, ob))]

\* Mutant: the exposure loses its sign in the loop.
Considered_Unsigned(sums, account, ob) ==
    IF account \in {ob.deliverer, ob.receiver}
    THEN [notional |-> Saturate(sums.notional + Wrap(Abs(ob.net_payment))),
          exposure |-> Saturate(Abs(sums.exposure) + Signed(account, ob))]
    ELSE sums

Considered(sums, account, ob) ==
    IF account \in {ob.deliverer, ob.receiver}
    THEN [notional |-> Saturate(sums.notional + Wrap(Abs(ob.net_payment))),
          exposure |-> Saturate(sums.exposure + Signed(account, ob))]
    ELSE sums

\* Mutant: variation margin is taken of the gross notional.
PortfolioRequirement_Gross(config, account, sums) ==
    Requirement(config, account, sums.notional, sums.notional)

PortfolioRequirement(config, account, sums) ==
    Requirement(config, account, sums.notional, Abs(sums.exposure))

PortfolioSums(account, obligations) ==
    FoldLeft(LAMBDA sums, ob : Considered(sums, account, ob), NoExposure, obligations)

compute_portfolio_margin(config, account, obligations) ==
    PortfolioRequirement(config, account, PortfolioSums(account, obligations))
=============================================================================
