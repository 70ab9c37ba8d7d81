------------------------- MODULE DefaultWaterfall -------------------------
(***************************************************************************)
(* The default waterfall (waterfall.rs): absorb_loss walks the five layers *)
(* of capital in order and lets each absorb min(remaining, capacity).  A   *)
(* loss that is not positive takes the short way out, zero_result.         *)
(* absorb_losses is absorb_loss of each loss, from the same capacities.    *)
(*                                                                         *)
(* Amounts are i64 and nothing validates the configuration: a capacity may *)
(* be negative, and then `remaining -= absorbed` grows and may wrap.       *)
(***************************************************************************)
EXTENDS Integers, Sequences, FiniteSetsExt

CONSTANTS
    Capacities,   \* the values a field of WaterfallConfig takes
    Losses,       \* what absorb_loss is given
    Half          \* 2^63: an amount is in -Half .. Half-1

Amount == -Half .. Half - 1

ASSUME WaterfallAssumption ==
    /\ Half \in Nat \ {0}
    /\ Capacities \subseteq Amount
    /\ Losses \subseteq Amount

\* defaulter_margin, defaulter_fund, ccp_first_loss, members_fund, ccp_capital
Layer == 1..5

VARIABLES
    config,      \* the capacity of each layer
    loss,        \* total_loss
    remaining,   \* the loss not absorbed so far; in the end, the shortfall
    layers       \* the LayerAbsorption records so far

vars == <<config, loss, remaining, layers>>

Wrap(n) == ((n + Half) % (2 * Half)) - Half

Absorption == [capacity: Amount, absorbed: Amount, remaining_after: Amount]

Init ==
    /\ config \in [Layer -> Capacities]
    /\ loss \in Losses
    /\ remaining = loss
    /\ layers = <<>>

\* Mutant: the branches of the minimum are swapped.
Absorb_Greater(capacity) == IF remaining <= capacity THEN capacity ELSE remaining

Absorb(capacity) == IF remaining <= capacity THEN remaining ELSE capacity

absorb_layer ==
    /\ loss > 0
    /\ Len(layers) < 5
    /\ LET capacity == config[Len(layers) + 1]
           absorbed == Absorb(capacity)
       IN  /\ remaining' = Wrap(remaining - absorbed)
           /\ layers' = Append(layers, [capacity |-> capacity, absorbed |-> absorbed,
                                        remaining_after |-> remaining'])
    /\ UNCHANGED <<config, loss>>

zero_result ==
    /\ loss <= 0
    /\ layers = <<>>
    /\ remaining' = 0
    /\ layers' = [i \in Layer |->
                     [capacity |-> config[i], absorbed |-> 0, remaining_after |-> 0]]
    /\ UNCHANGED <<config, loss>>

Next == absorb_layer \/ zero_result

Spec == Init /\ [][Next]_vars

-----------------------------------------------------------------------------
Reported == Len(layers) = 5

\* Mutant: the shortfall counts as absorbed.
total_absorbed_WholeLoss == IF loss <= 0 THEN 0 ELSE loss

total_absorbed == IF loss <= 0 THEN 0 ELSE Wrap(loss - remaining)
fully_covered  == loss <= 0 \/ remaining = 0

\* Mutant: the addition wraps around.
saturating_add_Wrapping(m, n) == Wrap(m + n)

saturating_add(m, n) == Max({-Half, Min({Half - 1, m + n})})

total_capacity ==
    saturating_add(saturating_add(saturating_add(saturating_add(
        config[1], config[2]), config[3]), config[4]), config[5])

-----------------------------------------------------------------------------
\* The loss left over keeps its width, and no more than five layers are gone through.
TypeOK ==
    /\ config \in [Layer -> Capacities]
    /\ loss \in Losses
    /\ remaining \in Amount
    /\ layers \in Seq(Absorption)
    /\ Len(layers) <= 5

Funded == \A i \in Layer : config[i] >= 0

(***************************************************************************)
(* "Each exhausted before the next is tapped": a layer absorbs something   *)
(* only when every layer before it has given all it has, no layer gives    *)
(* more than it has, and what a layer is left with is what the next starts *)
(* from.                                                                   *)
(***************************************************************************)
Given(i) == IF i = 1 THEN loss ELSE layers[i-1].remaining_after

ExhaustedInOrder ==
    Funded /\ loss > 0 =>
        \A i \in 1..Len(layers) :
            /\ layers[i].absorbed \in 0..layers[i].capacity
            /\ layers[i].remaining_after = Given(i) - layers[i].absorbed
            /\ \A j \in 1..i-1 :
                  layers[i].absorbed > 0 => layers[j].absorbed = layers[j].capacity

(***************************************************************************)
(* The report is complete: what the layers absorbed and the shortfall make *)
(* up the loss, and the layers add up to total_absorbed; modulo the width  *)
(* of an amount if capacities are negative.                                *)
(***************************************************************************)
AbsorbedByLayers == SumFunction([i \in DOMAIN layers |-> layers[i].absorbed])

LossAccountedFor ==
    Reported /\ loss > 0 =>
        /\ (AbsorbedByLayers + remaining - loss) % (2 * Half) = 0
        /\ Funded => /\ AbsorbedByLayers + remaining = loss
                     /\ total_absorbed = AbsorbedByLayers

(***************************************************************************)
(* Whether a loss is covered depends on the total of the capital only, not *)
(* on how it is spread over the layers, and total_capacity tells it, even  *)
(* where its additions saturate.                                           *)
(***************************************************************************)
CapitalDecidesCoverage ==
    Reported /\ Funded => (fully_covered <=> loss <= total_capacity)
=============================================================================
