----------------------------- MODULE Settlement -----------------------------
(***************************************************************************)
(* The pipeline of README.md's Quick Start: a caller adds the trades of a  *)
(* cycle to the netting engine, has the obligations computed (compute_net, *)
(* or compute_multilateral, which runs multilateral_net on them), hands    *)
(* them to clear_all, and resets the engine for the next cycle.  The       *)
(* components are those of NettingEngine, MultilateralNetting and          *)
(* ClearingHouse; what is new here is what they mean together.             *)
(***************************************************************************)
EXTENDS Obligations, Sequences, SequencesExt

CONSTANTS
    Accounts, Symbols, NoSymbol, Prices, Quantities, QuantityMod, PaymentMax,
    AccumulatorHalf, Half, InitialBalances,
    MaxTrades,     \* bound on the trades of a cycle
    MaxAllTrades,  \* bound on the trades of all cycles
    MaxCycles      \* bound on the netting cycles

VARIABLES
    accumulators, gross, added, wrapped,              \* NettingEngine
    argument, obs, todo, current, result,             \* MultilateralNetting
    accounts, batch, results, opening, overflowed,    \* ClearingHouse
    stage,         \* the caller's place: "trading", "netting" or "clearing"
    cycle,         \* history: netting cycles begun
    trades,        \* history: trades added in all cycles
    initial,       \* history: the balances before the first cycle
    due,           \* history: cash the trades so far give each account, less
                   \*          what finished cycles dropped with flat pairs
    clean          \* history: only compute_net was used, and each finished
                   \*          cycle was netted exactly and cleared in full

Engine == INSTANCE NettingEngine WITH Half <- AccumulatorHalf
Multi  == INSTANCE MultilateralNetting
              WITH Arguments <- Seq(ObligationType(Symbols, Accounts, Nat, Int))
House  == INSTANCE ClearingHouse WITH Batches <- {}

ASSUME SettlementAssumption ==
    /\ Engine!NettingAssumption
    /\ House!ClearingAssumption
    /\ NoSymbol \notin Symbols

engineVars  == <<accumulators, gross, added, wrapped>>
multiVars   == <<argument, obs, todo, current, result>>
houseVars   == <<accounts, batch, results, opening, overflowed>>
historyVars == <<cycle, trades, initial, due, clean>>
vars == <<engineVars, multiVars, houseVars, stage, historyVars>>

(***************************************************************************)
(* The accounts are registered before the first trade.                     *)
(***************************************************************************)
Init ==
    /\ Engine!Init
    /\ Multi!Init
    /\ accounts \in [Accounts -> InitialBalances]
    /\ batch = <<>>
    /\ results = <<>>
    /\ opening = accounts
    /\ overflowed = FALSE
    /\ stage = "trading"
    /\ cycle = 1
    /\ trades = 0
    /\ initial = accounts
    /\ due = [a \in Accounts |-> 0]
    /\ clean = TRUE

Gain(t, a) == (IF t.seller = a THEN t.price * t.quantity ELSE 0)
            - (IF t.buyer = a THEN t.price * t.quantity ELSE 0)

AddTrade(t) ==
    /\ stage = "trading"
    /\ trades < MaxAllTrades
    /\ Engine!AddTrade(t)
    /\ trades' = trades + 1
    /\ due' = [a \in Accounts |-> due[a] + Gain(t, a)]
    /\ UNCHANGED <<multiVars, houseVars, stage, cycle, initial, clean>>

(***************************************************************************)
(* compute_net returns its obligations in any order.                       *)
(***************************************************************************)
NetBilaterally ==
    /\ stage = "trading"
    /\ \E obligations \in SetToSeqs(Engine!compute_net) : House!clear_all(obligations)
    /\ stage' = "clearing"
    /\ UNCHANGED <<engineVars, multiVars, historyVars>>

compute_multilateral ==
    /\ stage = "trading"
    /\ \E obligations \in SetToSeqs(Engine!compute_net) : Multi!multilateral_net(obligations)
    /\ stage' = "netting"
    /\ UNCHANGED <<engineVars, houseVars, historyVars>>

CancelCycles ==
    /\ stage = "netting"
    /\ Multi!Step
    /\ UNCHANGED <<engineVars, houseVars, stage, historyVars>>

SubmitResult ==
    /\ stage = "netting"
    /\ Multi!Returned
    /\ House!clear_all(result)
    /\ stage' = "clearing"
    /\ clean' = FALSE
    /\ UNCHANGED <<engineVars, multiVars, cycle, trades, initial, due>>

ClearNext ==
    /\ stage = "clearing"
    /\ House!ClearNext
    /\ UNCHANGED <<engineVars, multiVars, stage, historyVars>>

(***************************************************************************)
(* No width got in the way of netting: no sum has wrapped, and no payment  *)
(* is clamped.                                                             *)
(***************************************************************************)
NettedExactly ==
    /\ ~wrapped
    /\ \A k \in DOMAIN accumulators :
          accumulators[k].payment \in -PaymentMax .. PaymentMax

AllCleared == \A i \in DOMAIN results : results[i] = House!Cleared

Residual(a) == SumFunction([s \in Symbols |-> Engine!FlatResidual(s, a)])

\* Mutant: the engine keeps the trades of the finished cycle.
ResetEngine_Forgotten == UNCHANGED engineVars

ResetEngine == Engine!clear

(***************************************************************************)
(* The caller resets the engine and drops what the calls returned.         *)
(***************************************************************************)
NextCycle ==
    /\ stage = "clearing"
    /\ House!Idle
    /\ cycle < MaxCycles
    /\ ResetEngine
    /\ Multi!drop
    /\ batch' = <<>>
    /\ results' = <<>>
    /\ opening' = accounts
    /\ overflowed' = FALSE
    /\ stage' = "trading"
    /\ cycle' = cycle + 1
    /\ due' = [a \in Accounts |-> due[a] - Residual(a)]
    /\ clean' = (clean /\ NettedExactly /\ AllCleared /\ ~overflowed)
    /\ UNCHANGED <<accounts, trades, initial>>

Next ==
    \/ \E t \in Engine!Trade : AddTrade(t)
    \/ NetBilaterally
    \/ compute_multilateral
    \/ CancelCycles
    \/ SubmitResult
    \/ ClearNext
    \/ NextCycle

Spec == Init /\ [][Next]_vars

-----------------------------------------------------------------------------
(***************************************************************************)
(* Over any number of cycles that were netted bilaterally, without sums or *)
(* payments beyond their widths, and cleared in full, every trade has      *)
(* moved its cash once, and only flat pairs have kept theirs.  The         *)
(* clearing house debits the deliverer, so the balances move opposite to   *)
(* the cash the trades give (see SellersArePaid).                          *)
(***************************************************************************)
SettledInFull ==
    /\ stage = "clearing"
    /\ House!Idle
    /\ clean /\ NettedExactly /\ AllCleared /\ ~overflowed

EveryTradeMovesItsCashOnce ==
    SettledInFull =>
        \A a \in Accounts : accounts[a] = initial[a] - (due[a] - Residual(a))

(***************************************************************************)
(* The pipeline implements SettlementService: whichever way the trades are *)
(* netted and in whatever order the obligations come out of a HashMap, the *)
(* cycle closes with obligations that deliver the positions, each of them  *)
(* is then settled or refused for lack of funds, and no position or        *)
(* obligation survives into the next cycle.  Cancelling cycles is a step   *)
(* nobody outside notices.                                                 *)
(***************************************************************************)
PhaseOfStage   == IF stage = "clearing" THEN "settling" ELSE "trading"
Positions      == [s \in Symbols |-> [a \in Accounts |-> Engine!TradedUnits(s, a)]]
Outstanding    == SubSeq(batch, Len(results) + 1, Len(batch))

Service == INSTANCE SettlementService
               WITH Modulus <- 2 * Half, UnitModulus <- QuantityMod, phase <- PhaseOfStage,
                    position <- Positions, pending <- Outstanding, balance <- accounts

ImplementsService == Service!Spec

(***************************************************************************)
(* netting.rs, on net_payment_signed: "positive means lo_id pays hi_id",   *)
(* and a purchase by lo_id counts positive: the buyer pays.  Then, if all  *)
(* is cleared, a balance would move by what the account's trades gave it.  *)
(***************************************************************************)
SellersArePaid ==
    SettledInFull =>
        \A a \in Accounts : accounts[a] = initial[a] + (due[a] - Residual(a))
=============================================================================
