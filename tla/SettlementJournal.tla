------------------------- MODULE SettlementJournal -------------------------
(***************************************************************************)
(* The settlement journal (journal.rs): a list of entries to which record  *)
(* appends, numbering them from 1.  The other operations only read it.     *)
(***************************************************************************)
EXTENDS Naturals, Sequences

CONSTANTS
    Timestamps,
    Events         \* the values of JournalEvent

VARIABLES
    entries,
    next_seq       \* the sequence number of the next entry

vars == <<entries, next_seq>>

JournalEntry == [sequence: Nat, timestamp_ns: Timestamps, event: Events]

Init ==
    /\ entries = <<>>
    /\ next_seq = 1

record(timestamp_ns, event) ==
    /\ entries' = Append(entries, [sequence     |-> next_seq,
                                   timestamp_ns |-> timestamp_ns,
                                   event        |-> event])
    /\ next_seq' = next_seq + 1

Next == \E timestamp_ns \in Timestamps, event \in Events : record(timestamp_ns, event)

Spec == Init /\ [][Next]_vars
=============================================================================
