-------------------------------- MODULE Ffi --------------------------------
(***************************************************************************)
(* The C interface (ffi.rs): 23 functions over five kinds of heap objects, *)
(* and one caller that keeps the contract of their Safety comments, as the *)
(* Unity and Unreal wrappers do: it owns at most one object of each kind,  *)
(* forgets a handle when it destroys it, and frees an array once, with the *)
(* length it was given.  A call on a null handle changes nothing.          *)
(*                                                                         *)
(* Functions that change no object are operators on the state; the objects *)
(* themselves are those of the component modules.                          *)
(***************************************************************************)
EXTENDS Obligations, Sequences, SequencesExt, FiniteSets, Functions, TLC

CONSTANTS
    Accounts, Symbols, Prices, Quantities, QuantityMod, PaymentMax,
    AccumulatorHalf, MaxTrades,           \* NettingEngine
    InitialBalances,                      \* ClearingHouse
    InitialRates, VariationRates, Floors, \* MarginEngine
    Precision,
    WaterfallConfigs,                     \* DefaultWaterfall
    Timestamps, TradeIds,                 \* SettlementJournal
    Width,            \* 63: an amount or a balance is in -2^63 .. 2^63-1
    LenMod,           \* 2^32, the number of values of a length
    Trades,           \* the trades the caller adds
    CallerObligations,\* obligations the caller makes up itself
    StressScenarios,  \* the rates nearest to 0.85, 0.90, 0.95, 1.05, 1.10, 1.15
    MaxCalls          \* bound on the calls that change an object

Half == 2 ^ Width

VARIABLES
    live,                                           \* the handles that are not null
    accumulators, gross, added, wrapped,            \* NettingEngine
    accounts, batch, results, opening, overflowed,  \* ClearingHouse
    config,                                         \* MarginEngine
    capacity,                                       \* DefaultWaterfall
    entries, next_seq,                              \* SettlementJournal
    held,       \* the arrays the caller holds: a pointer and a length each
    heap,       \* the blocks of array memory that were not given back, by address
    undefined,  \* the behaviour of the program has become undefined
    log,        \* history: calls of clear_obligation and the codes returned,
                \*          since the clearing house or an account was new
    calls       \* history: calls so far

Engine  == INSTANCE NettingEngine WITH Half <- AccumulatorHalf
House   == INSTANCE ClearingHouse WITH Batches <- {}
Margin  == INSTANCE MarginEngine
Journal == INSTANCE SettlementJournal
               WITH Events <- [kind: {"TradeReceived"}, trade_id: TradeIds]
Cascade(total_loss, left) ==
    INSTANCE DefaultWaterfall
        WITH Losses <- {}, Capacities <- -Half .. Half - 1,
             config <- capacity, loss <- total_loss, remaining <- left, layers <- <<>>

engineVars  == <<accumulators, gross, added, wrapped>>
houseVars   == <<accounts, batch, results, opening, overflowed, log>>
journalVars == <<entries, next_seq>>
arrayVars   == <<held, heap, undefined>>
vars == <<live, engineVars, houseVars, config, capacity, journalVars, arrayVars, calls>>

Kind == {"engine", "house", "margin", "waterfall", "journal"}

None == [none |-> TRUE]

Init ==
    /\ live = {}
    /\ Engine!Init /\ House!Init /\ Journal!Init
    /\ config = None
    /\ capacity = None
    /\ held = <<>>
    /\ heap = [p \in {} |-> <<>>]
    /\ undefined = FALSE
    /\ log = <<>>
    /\ calls = 0

Create(kind)  == kind \notin live /\ live' = live \cup {kind}
Destroy(kind) == kind \in live /\ live' = live \ {kind}
Use(kind)     == kind \in live /\ UNCHANGED live

-----------------------------------------------------------------------------
(***************************************************************************)
(* NettingEngine.  add_trade also takes an id, a time and a status byte,   *)
(* which the engine does not read.                                         *)
(***************************************************************************)
engine_new ==
    /\ Create("engine")
    /\ UNCHANGED <<engineVars, arrayVars>>

engine_add_trade(trade) ==
    /\ Use("engine")
    /\ Engine!AddTrade(trade)
    /\ UNCHANGED arrayVars

engine_clear ==
    /\ Use("engine")
    /\ Engine!clear
    /\ UNCHANGED arrayVars

engine_destroy ==
    /\ Destroy("engine")
    /\ Engine!clear
    /\ UNCHANGED arrayVars

(***************************************************************************)
(* compute_net gives the caller a copy of the obligations, in any order,   *)
(* and its length as a u32.  The pointer is null if there are none.  On a  *)
(* null handle it is null, too, and the length is not written: the caller  *)
(* is left with whatever its variable held.                                *)
(*                                                                         *)
(* The copy is collected from an iterator of known length, for which a Vec *)
(* allocates exactly as many elements.                                     *)
(***************************************************************************)
Null == 0

Array(ptr, len) == [ptr |-> ptr, len |-> len]

Memory(array) == IF array.ptr = Null THEN <<>> ELSE heap[array.ptr].memory

FreshAddress == CHOOSE p \in 1 .. Cardinality(DOMAIN heap) + 1 : p \notin DOMAIN heap

\* Mutant: pushed one by one, the elements get room for four and then twice that.
Collected_Pushed(memory) ==
    [memory |-> memory, allocated |-> IF Len(memory) <= 4 THEN 4 ELSE 8]

Collected(memory) == [memory |-> memory, allocated |-> Len(memory)]

engine_compute_net ==
    /\ UNCHANGED <<live, engineVars, undefined>>
    /\ \/ /\ "engine" \in live
          /\ Engine!compute_net = {}
          /\ held' = Append(held, Array(Null, 0))
          /\ UNCHANGED heap
       \/ /\ "engine" \in live
          /\ \E memory \in SetToSeqs(Engine!compute_net) \ {<<>>} :
                /\ heap' = (FreshAddress :> Collected(memory)) @@ heap
                /\ held' = Append(held, Array(FreshAddress, Len(memory) % LenMod))
       \/ /\ "engine" \notin live
          /\ \E len \in 0 .. LenMod - 1 : held' = Append(held, Array(Null, len))
          /\ UNCHANGED heap

(***************************************************************************)
(* The block goes back with its length for its capacity.  If that is not   *)
(* what was allocated, the allocator is given a wrong layout, and anything *)
(* may happen: the model says so and goes no further.                      *)
(***************************************************************************)
Deallocate(ptr, capacity_given) ==
    IF capacity_given = heap[ptr].allocated
    THEN /\ heap' = Restrict(heap, DOMAIN heap \ {ptr})
         /\ UNCHANGED undefined
    ELSE /\ undefined' = TRUE
         /\ UNCHANGED heap

obligations_free(i) ==
    /\ held' = RemoveAt(held, i)
    /\ IF held[i].ptr # Null /\ held[i].len > 0
       THEN Deallocate(held[i].ptr, held[i].len)
       ELSE UNCHANGED <<heap, undefined>>
    /\ UNCHANGED <<live, engineVars>>

-----------------------------------------------------------------------------
(***************************************************************************)
(* ClearingHouse.                                                          *)
(***************************************************************************)
NoAccounts ==
    /\ accounts' = [a \in {} |-> 0]
    /\ batch' = <<>> /\ results' = <<>>
    /\ opening' = accounts'
    /\ overflowed' = FALSE
    /\ log' = <<>>

house_new     == Create("house") /\ NoAccounts
house_destroy == Destroy("house") /\ NoAccounts

house_register_account(id, initial_balance) ==
    /\ Use("house")
    /\ House!register_account(id, initial_balance)
    /\ log' = <<>>

\* Mutant: the codes of the two errors are exchanged.
CodeOf_Exchanged(result) ==
    CASE result = House!Cleared                  -> 0
      [] result.error = "InsufficientBalance"    -> -2
      [] result.error = "AccountNotFound"        -> -1

CodeOf(result) ==
    CASE result = House!Cleared                  -> 0
      [] result.error = "InsufficientBalance"    -> -1
      [] result.error = "AccountNotFound"        -> -2

(***************************************************************************)
(* One obligation at a time: the caller's loop over an array takes the     *)
(* place of clear_all.                                                     *)
(***************************************************************************)
house_clear_obligation(ob) ==
    /\ UNCHANGED live
    /\ \/ /\ "house" \in live
          /\ House!clear_obligation(ob)
          /\ batch' = Append(batch, ob)
          /\ log' = Append(log, [ob |-> ob, code |-> CodeOf(Last(results'))])
          /\ UNCHANGED opening
       \/ /\ "house" \notin live
          /\ log' = Append(log, [ob |-> ob, code |-> -2])
          /\ UNCHANGED <<accounts, batch, results, opening, overflowed>>

\* Mutant: an unknown account has nothing.
get_balance_Zero(id) == IF id \in DOMAIN accounts THEN accounts[id] ELSE 0

get_balance(id) == IF id \in DOMAIN accounts THEN accounts[id] ELSE -Half

-----------------------------------------------------------------------------
(***************************************************************************)
(* MarginEngine.  On a null handle the result is left unwritten.           *)
(***************************************************************************)
margin_new(initial_rate, variation_rate, floor) ==
    /\ Create("margin")
    /\ config' = [initial_margin_rate |-> initial_rate, variation_margin_rate |-> variation_rate,
                  stress_scenarios |-> StressScenarios, margin_floor |-> floor]

margin_destroy == Destroy("margin") /\ config' = None

Refused        == [rc |-> -1]
Returned(out)  == [rc |-> 0, out |-> out]

margin_compute_obligation(ob) ==
    IF "margin" \notin live THEN Refused
    ELSE Returned(Margin!compute_obligation_margin(config, ob))

\* Mutant: the last element is not passed on.
Passed_AllButLast(array) ==
    IF array.ptr = Null \/ array.len = 0 THEN <<>> ELSE SubSeq(Memory(array), 1, array.len - 1)

Passed(array) ==
    IF array.ptr = Null \/ array.len = 0 THEN <<>> ELSE SubSeq(Memory(array), 1, array.len)

margin_compute_portfolio(account, array) ==
    IF "margin" \notin live THEN Refused
    ELSE Returned(Margin!compute_portfolio_margin(config, account, Passed(array)))

-----------------------------------------------------------------------------
(***************************************************************************)
(* DefaultWaterfall.  absorb_loss runs the five layers in one call.        *)
(***************************************************************************)
waterfall_new(capacities) == Create("waterfall") /\ capacity' = capacities
waterfall_destroy         == Destroy("waterfall") /\ capacity' = None

Remaining(loss) ==
    IF loss <= 0 THEN 0
    ELSE FoldLeft(LAMBDA left, c : Cascade(loss, left)!Wrap(left - Cascade(loss, left)!Absorb(c)),
                  loss, capacity)

fully_covered(loss) == IF Cascade(loss, Remaining(loss))!fully_covered THEN 1 ELSE 0

waterfall_absorb_loss(loss) ==
    IF "waterfall" \notin live THEN Refused
    ELSE Returned([total_loss     |-> loss,
                   total_absorbed |-> Cascade(loss, Remaining(loss))!total_absorbed,
                   fully_covered  |-> fully_covered(loss),
                   shortfall      |-> Remaining(loss)])

waterfall_total_capacity ==
    IF "waterfall" \notin live THEN 0 ELSE Cascade(0, 0)!total_capacity

-----------------------------------------------------------------------------
(***************************************************************************)
(* SettlementJournal.                                                      *)
(***************************************************************************)
journal_new == Create("journal") /\ UNCHANGED journalVars

journal_record_trade(timestamp_ns, trade_id) ==
    /\ Use("journal")
    /\ Journal!record(timestamp_ns, [kind |-> "TradeReceived", trade_id |-> trade_id])

journal_destroy ==
    /\ Destroy("journal")
    /\ entries' = <<>>
    /\ next_seq' = 1

journal_len == Len(entries) % LenMod

-----------------------------------------------------------------------------
\* What the caller clears: obligations it has read from an array, or its own.
ReadFrom(array)  == LET passed == Passed(array) IN {passed[i] : i \in DOMAIN passed}
KnownObligations == CallerObligations \cup UNION {ReadFrom(held[i]) : i \in DOMAIN held}

EngineCall ==
    /\ \/ engine_new
       \/ \E trade \in Trades : engine_add_trade(trade)
       \/ engine_clear
       \/ engine_destroy
       \/ engine_compute_net
       \/ \E i \in DOMAIN held : obligations_free(i)
    /\ UNCHANGED <<houseVars, config, capacity, journalVars>>

HouseCall ==
    /\ \/ house_new
       \/ \E id \in Accounts, b \in InitialBalances : house_register_account(id, b)
       \/ \E ob \in KnownObligations : house_clear_obligation(ob)
       \/ house_destroy
    /\ UNCHANGED <<engineVars, arrayVars, config, capacity, journalVars>>

OtherCall ==
    /\ \/ /\ \/ \E i \in InitialRates, v \in VariationRates, f \in Floors : margin_new(i, v, f)
             \/ margin_destroy
          /\ UNCHANGED <<capacity, journalVars>>
       \/ /\ \/ \E capacities \in WaterfallConfigs : waterfall_new(capacities)
             \/ waterfall_destroy
          /\ UNCHANGED <<config, journalVars>>
       \/ /\ \/ journal_new
             \/ \E t \in Timestamps, id \in TradeIds : journal_record_trade(t, id)
             \/ journal_destroy
          /\ UNCHANGED <<config, capacity>>
    /\ UNCHANGED <<engineVars, arrayVars, houseVars>>

Next ==
    /\ ~undefined
    /\ calls < MaxCalls
    /\ calls' = calls + 1
    /\ EngineCall \/ HouseCall \/ OtherCall

Spec == Init /\ [][Next]_vars

-----------------------------------------------------------------------------
(***************************************************************************)
(* Array memory comes back whole: a block is in the heap only as long as   *)
(* the caller holds it, whether or not its engine still exists, and no     *)
(* block is given back with another size than it was allocated with.  The  *)
(* exceptions are the blocks whose length does not fit a u32: a multiple   *)
(* of 2^32 is never given back, and any other makes the behaviour          *)
(* undefined, though the caller does all that the Safety comments (ffi.rs  *)
(* 128 and 165-167) ask for.                                               *)
(***************************************************************************)
LengthFits(p) == Len(heap[p].memory) < LenMod

ArraysAreFreedWhole ==
    IF undefined
    THEN \E p \in DOMAIN heap : ~LengthFits(p) /\ Len(heap[p].memory) % LenMod # 0
    ELSE \A p \in DOMAIN heap :
            Len(heap[p].memory) % LenMod # 0 => \E i \in DOMAIN held : held[i].ptr = p

(***************************************************************************)
(* The codes tell the C caller what Rust's results would: from the opening *)
(* balances and the codes alone one can compute every balance, and tell    *)
(* which party was missing or could not pay.                               *)
(***************************************************************************)
BalanceAfter(k, a) ==
    LET cleared == {i \in 1..k : log[i].code = 0}
    IN  House!Wrap(opening[a] + SumFunction([i \in cleared |->
                                    Into(log[i].ob, a, log[i].ob.net_payment)
                                  - OutOf(log[i].ob, a, log[i].ob.net_payment)]))

CodesExplainBalances ==
    /\ \A a \in DOMAIN accounts : get_balance(a) = BalanceAfter(Len(log), a)
    /\ \A i \in DOMAIN log :
          LET ob == log[i].ob
          IN  log[i].code = IF ~({ob.deliverer, ob.receiver} \subseteq DOMAIN opening) THEN -2
                            ELSE IF BalanceAfter(i - 1, ob.deliverer) < ob.net_payment THEN -1
                            ELSE 0

(***************************************************************************)
(* get_balance returns i64::MIN for an account that does not exist.  No    *)
(* account has that balance, as long as payments are not negative, no      *)
(* account started overdrawn and no credit has wrapped around.             *)
(***************************************************************************)
SentinelMeansMissing ==
    /\ House!NonnegativePayments /\ ~overflowed
    /\ \A a \in DOMAIN opening : opening[a] >= 0
    => \A a \in Accounts : get_balance(a) = -Half <=> a \notin DOMAIN accounts

(***************************************************************************)
(* The order in which a HashMap put the obligations into an array does not *)
(* reach the caller through the margin: arrays with the same obligations   *)
(* ask every account for the same margin, unless its payments saturate or  *)
(* its length did not fit.                                                 *)
(***************************************************************************)
GrossPayments(memory) ==
    Total(LAMBDA ob : Margin!Abs(ob.net_payment), memory)

Whole(array) == array.ptr = Null \/ array.len = Len(Memory(array))

SameObligationsSameMargin ==
    \A i, j \in DOMAIN held :
        /\ Range(Memory(held[i])) = Range(Memory(held[j]))
        /\ Whole(held[i]) /\ Whole(held[j])
        /\ GrossPayments(Memory(held[i])) < Half
        => \A a \in Accounts :
              margin_compute_portfolio(a, held[i]) = margin_compute_portfolio(a, held[j])
=============================================================================
