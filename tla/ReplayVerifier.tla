--------------------------- MODULE ReplayVerifier ---------------------------
(***************************************************************************)
(* Replay verification (replay.rs): two journals grow independently, say   *)
(* the one that was kept and the one that a replay records, and at any     *)
(* moment build_replay_log and verify compare them, step by step, by       *)
(* content hash; compute_journal_hash folds a journal into one hash.       *)
(*                                                                         *)
(* FNV-1a is taken to be free of collisions: a hash is the tuple of what   *)
(* is hashed.  What the code loses before it hashes is modelled:           *)
(* event_payload squeezes an event into one u64, the counts of a clearing  *)
(* attempt into fields of 16 bits.                                         *)
(***************************************************************************)
EXTENDS Naturals, Sequences, FiniteSets, Bitwise

CONSTANTS
    Timestamps, TradeIds, Counts,
    Clearings,     \* the three counts of a clearing attempt, which nothing ties together
    Reasons,
    ReasonHash,    \* fnv1a of a reason, a u64
    Field,         \* 2^16; a u64 has four such fields
    MaxEntries     \* bound on the length of a journal

ASSUME ReplayAssumption ==
    /\ TradeIds \cup Counts \subseteq Nat
    /\ Clearings \subseteq Nat \X Nat \X Nat
    /\ ReasonHash \in [Reasons -> 0 .. Field*Field*Field*Field - 1]
    /\ Field \in Nat \ {0}

VARIABLES original, original_seq, replica, replica_seq

vars == <<original, original_seq, replica, replica_seq>>

-----------------------------------------------------------------------------
TradeReceived(trade_id) == [kind |-> 0, trade_id |-> trade_id]
NettingCompleted(count) == [kind |-> 1, obligation_count |-> count]
ClearingAttempted(obligations, success, fail) ==
    [kind |-> 2, obligation_count |-> obligations,
     success_count |-> success, fail_count |-> fail]
SettlementCompleted(count) == [kind |-> 3, trade_count |-> count]
SettlementFailed(trade_id, reason) ==
    [kind |-> 4, trade_id |-> trade_id, reason |-> reason]

JournalEvent ==
    {TradeReceived(id) : id \in TradeIds}
    \cup {NettingCompleted(n) : n \in Counts}
    \cup {ClearingAttempted(c[1], c[2], c[3]) : c \in Clearings}
    \cup {SettlementCompleted(n) : n \in Counts}
    \cup {SettlementFailed(id, reason) : id \in TradeIds, reason \in Reasons}

Original == INSTANCE SettlementJournal
                WITH Events <- JournalEvent, entries <- original, next_seq <- original_seq
Replica  == INSTANCE SettlementJournal
                WITH Events <- JournalEvent, entries <- replica, next_seq <- replica_seq

Init == Original!Init /\ Replica!Init

RecordOriginal ==
    /\ Len(original) < MaxEntries
    /\ Original!Next
    /\ UNCHANGED <<replica, replica_seq>>

RecordReplica ==
    /\ Len(replica) < MaxEntries
    /\ Replica!Next
    /\ UNCHANGED <<original, original_seq>>

Next == RecordOriginal \/ RecordReplica

Spec == Init /\ [][Next]_vars

-----------------------------------------------------------------------------
AsU64(n) == n % (Field * Field * Field * Field)

Packed(obligations, successes, fails) ==
    AsU64(obligations * Field * Field) | AsU64(successes * Field) | fails

event_payload[event \in JournalEvent] ==
    CASE event.kind = 0 -> event.trade_id
      [] event.kind = 1 -> event.obligation_count
      [] event.kind = 2 -> Packed(event.obligation_count, event.success_count, event.fail_count)
      [] event.kind = 3 -> event.trade_count
      [] event.kind = 4 -> event.trade_id ^^ ReasonHash[event.reason]

step_hash(entry) ==
    <<entry.sequence, entry.timestamp_ns, entry.event.kind, event_payload[entry.event]>>

ReplayStep(entry) == [sequence |-> entry.sequence, content_hash |-> step_hash(entry)]

build_replay_log(entries) == [i \in 1..Len(entries) |-> ReplayStep(entries[i])]

Shorter(expected, actual) == IF Len(expected) <= Len(actual) THEN Len(expected) ELSE Len(actual)

\* Mutant: a later step that agrees makes up for one that differs.
Mismatches_LastOnly(expected, actual) ==
    {i \in {Shorter(expected, actual)} \ {0} : expected[i].content_hash # actual[i].content_hash}

Mismatches(expected, actual) ==
    {i \in 1..Shorter(expected, actual) : expected[i].content_hash # actual[i].content_hash}

\* Mutant: a replay that stops early goes unnoticed.
MismatchedLength_ExtraOnly(expected, actual) ==
    IF Len(expected) >= Len(actual) THEN {}
    ELSE LET min_len == Shorter(expected, actual)
         IN  {IF min_len > 0 THEN expected[min_len].sequence + 1 ELSE 1}

(***************************************************************************)
(* The comment of verify (replay.rs:89-90) reports a mismatch "at the      *)
(* shorter log's length"; the code reports the position behind it, the     *)
(* first that one log only has.                                            *)
(***************************************************************************)
MismatchedLength(expected, actual) ==
    IF Len(expected) = Len(actual) THEN {}
    ELSE LET min_len == Shorter(expected, actual)
         IN  {IF min_len > 0 THEN expected[min_len].sequence + 1 ELSE 1}

ReplayResult(discrepancies, steps_verified) ==
    [discrepancies |-> discrepancies, steps_verified |-> steps_verified,
     success |-> discrepancies = {}]

verify(expected, actual) ==
    LET mismatches == Mismatches(expected, actual)
    IN  ReplayResult({expected[i].sequence : i \in mismatches} \cup MismatchedLength(expected, actual),
                     Shorter(expected, actual) - Cardinality(mismatches))

\* Mutant: the fold starts over at every entry.
Chain_Unlinked(cumulative, step) == <<step>>

Chain(cumulative, step) == <<cumulative, step>>

compute_journal_hash(entries) ==
    LET folded[n \in 0..Len(entries)] ==
            IF n = 0 THEN <<>> ELSE Chain(folded[n-1], step_hash(entries[n]))
    IN  folded[Len(entries)]

Verification == verify(build_replay_log(original), build_replay_log(replica))

-----------------------------------------------------------------------------
(***************************************************************************)
(* The discrepancies name the entries to look at: the sequence numbers     *)
(* reported are the positions at which the two journals have different     *)
(* entries, and the first position that only one of them has.  Counts and  *)
(* failures that event_payload confuses are not looked at here.            *)
(***************************************************************************)
Fits(event) ==
    event.kind = 2 => /\ event.obligation_count < Field * Field
                      /\ event.success_count < Field
                      /\ event.fail_count < Field

Confusable(e, f) ==
    \/ ~Fits(e) \/ ~Fits(f)
    \/ e.kind = 4 /\ f.kind = 4 /\ e.trade_id # f.trade_id /\ e.reason # f.reason

Unambiguous ==
    \A i \in 1..Shorter(original, replica) : ~Confusable(original[i].event, replica[i].event)

DiscrepanciesLocateDivergence ==
    Unambiguous =>
        Verification.discrepancies =
            {i \in 1..Shorter(original, replica) : original[i] # replica[i]}
            \cup IF Len(original) = Len(replica) THEN {} ELSE {Shorter(original, replica) + 1}

(***************************************************************************)
(* The two ways to compare journals agree: their hashes are equal exactly  *)
(* when verify succeeds on their logs.                                     *)
(***************************************************************************)
HashAgreesWithVerify ==
    Verification.success
        <=> compute_journal_hash(original) = compute_journal_hash(replica)

(***************************************************************************)
(* A journal that has diverged cannot be repaired by recording more: a     *)
(* discrepancy between entries that both journals have stays reported.     *)
(***************************************************************************)
DivergenceIsPermanent ==
    [][Verification.discrepancies \cap 1..Shorter(original, replica)
         \subseteq Verification'.discrepancies]_vars

=============================================================================
