--------------------------- MODULE PortfolioMargin ---------------------------
(***************************************************************************)
(* One call of compute_portfolio_margin (margin.rs): the loop over the     *)
(* obligations of the slice, which arrive one by one and in any order (a   *)
(* HashMap put them into the slice).  Every state is one in which the loop *)
(* may end, so `requirement` is what the call returns for the obligations  *)
(* considered so far.                                                      *)
(***************************************************************************)
EXTENDS MarginEngine

CONSTANTS
    Accounts, Symbols,
    Payments,         \* net_payment, an i64
    Configs,          \* configurations of the engine
    MaxObligations    \* bound on the length of the slice

NetObligations == ObligationType(Symbols, Accounts, {1}, Payments)

ASSUME PortfolioAssumption ==
    /\ Payments \subseteq Amount
    /\ Configs \subseteq MarginConfig
    /\ MaxObligations \in Nat

VARIABLES
    config,
    account,       \* the account whose margin is asked for
    considered,    \* the part of the slice the loop is through with
    sums,          \* [notional |-> total_notional, exposure |-> net_exposure]
    exact          \* history: no addition saturated, no abs() wrapped

vars == <<config, account, considered, sums, exact>>

Init ==
    /\ config \in Configs
    /\ account \in Accounts
    /\ considered = <<>>
    /\ sums = NoExposure
    /\ exact = TRUE

Involved(ob) == account \in {ob.deliverer, ob.receiver}

Consider(ob) ==
    /\ Len(considered) < MaxObligations
    /\ considered' = Append(considered, ob)
    /\ sums' = Considered(sums, account, ob)
    /\ exact' = /\ exact
                /\ Involved(ob) =>
                      /\ sums.notional + Abs(ob.net_payment) \in Amount
                      /\ Abs(ob.net_payment) \in Amount
                      /\ sums.exposure + Signed(account, ob) \in Amount
    /\ UNCHANGED <<config, account>>

Next == \E ob \in NetObligations : Consider(ob)

Spec == Init /\ [][Next]_vars

requirement == PortfolioRequirement(config, account, sums)

-----------------------------------------------------------------------------
(***************************************************************************)
(* What the loop should add up, whatever the order of the slice: the gross *)
(* payments of the account, what it receives, and what it delivers (to     *)
(* which an obligation of the account to itself counts).                   *)
(***************************************************************************)
Receives(ob) == ob.receiver = account /\ ob.deliverer # account

Gross == Total(LAMBDA ob : IF Involved(ob) THEN Abs(ob.net_payment) ELSE 0, considered)
Long  == Total(LAMBDA ob : IF Receives(ob) THEN ob.net_payment ELSE 0, considered)
Short == Total(LAMBDA ob : OutOf(ob, account, ob.net_payment), considered)

(***************************************************************************)
(* The margin is what the formula says over the rationals,                 *)
(*     max(notional * initial rate + |exposure| * variation rate,          *)
(*         the largest |rate - 1| * notional, floor, 0),                   *)
(* up to one tick for each amount that was truncated and a relative error  *)
(* of 2^(1-Precision) for each product that went through f64, as long as   *)
(* no product saturates.  (A saturated product makes a rising scenario     *)
(* look harmless: what counts is its distance from the notional.)          *)
(* All is multiplied by Scale, a common denominator of the rates.          *)
(***************************************************************************)
Times(amount, rate) == amount * rate.num * (Scale \div rate.den)

StressOf(notional, scenario) == Abs(Times(notional, scenario) - notional * Scale)

Ideal(notional, exposure) ==
    Max({0, config.margin_floor * Scale,
         Times(notional, config.initial_margin_rate)
             + Times(exposure, config.variation_margin_rate)}
        \cup {StressOf(notional, scenario) : scenario \in config.stress_scenarios})

IdealMargin == Ideal(Gross, Abs(Long - Short))

LargestRate ==
    Max({Abs(Times(1, rate)) : rate \in config.stress_scenarios
             \cup {config.initial_margin_rate, config.variation_margin_rate}})

LargestProduct == Gross * LargestRate

RoundingError(requirements) ==
    2 * requirements * Scale + (2 * LargestProduct) \div Exp2[Precision - 1]

Unsaturated ==
    {IdealMargin, LargestProduct} \subseteq 0 .. Half * Scale - RoundingError(1)

MarginIsAccurate ==
    exact /\ Unsaturated =>
        Abs(requirement.total_margin * Scale - IdealMargin) <= RoundingError(1)

(***************************************************************************)
(* The order of the slice, which a HashMap chose, does not reach the       *)
(* margin.  It would if a sum saturated on the way; but what is exact in   *)
(* one order is exact in all, since no sum exceeds the gross notional.     *)
(***************************************************************************)
OrderDoesNotMatter ==
    exact => \A order \in Bijection(DOMAIN considered, DOMAIN considered) :
                PortfolioSums(account, [i \in DOMAIN considered |-> considered[order[i]]]) = sums

(***************************************************************************)
(* The two entry points agree: the margin of a portfolio of one obligation *)
(* is the margin of the obligation.  Only the least payment, whose         *)
(* absolute value does not fit, tells them apart.                          *)
(***************************************************************************)
Single(ob) == [compute_obligation_margin(config, ob) EXCEPT !.account_id = account]

SingleObligationAgrees ==
    \A i \in DOMAIN considered :
        Involved(considered[i]) /\ considered[i].net_payment # -Half
        => compute_portfolio_margin(config, account, <<considered[i]>>) = Single(considered[i])

(***************************************************************************)
(* Netting a portfolio never costs more than margining its obligations one *)
(* by one, up to the rounding of the portfolio and of the obligations.  (A *)
(* negative variation rate rewards exposure, and netting takes it away.)   *)
(***************************************************************************)
Mine == {i \in DOMAIN considered : Involved(considered[i])}

NettingNeverCostsMore ==
    exact /\ Unsaturated /\ Mine # {} /\ config.variation_margin_rate.num >= 0 =>
        LET singles == SumFunction([i \in Mine |-> Single(considered[i]).total_margin])
        IN  (requirement.total_margin - singles) * Scale
                <= RoundingError(1) + RoundingError(Cardinality(Mine))

(***************************************************************************)
(* A further obligation, in either direction, never lowers the initial     *)
(* margin, saturation and rounding included, unless its rate is negative.  *)
(* Only the least payment does, since its absolute value stays negative.   *)
(***************************************************************************)
InitialMargin(notional) == Scaled(notional, config.initial_margin_rate)

InitialMarginNeverFalls ==
    [][/\ config.initial_margin_rate.num >= 0
       /\ \A i \in DOMAIN considered' : considered'[i].net_payment # -Half
       => InitialMargin(sums'.notional) >= InitialMargin(sums.notional)]_vars
=============================================================================
