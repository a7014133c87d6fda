----------------------------- MODULE Dictionary -----------------------------
(***************************************************************************)
(* What a table of keys and values promises to its callers: the comments   *)
(* of src/src/hash.h without buckets and chains.                           *)
(***************************************************************************)
EXTENDS FiniteSets, Functions, SequencesExt

CONSTANTS Keys, Values, NULL

VARIABLES entries,   \* a function on the keys that are set
          returned   \* what the last call gave back

Value(k) == IF k \in DOMAIN entries THEN entries[k] ELSE NULL

Init == entries = <<>> /\ returned = NULL

(* "If existent, the old value will be deleted" and returned. *)
Set(k, v) == /\ entries' = [x \in DOMAIN entries \cup {k} |->
                               IF x = k THEN v ELSE entries[x]]
             /\ returned' = Value(k)

Delete(k) == /\ entries' = Restrict(entries, DOMAIN entries \ {k})
             /\ returned' = Value(k)

Get(k) == UNCHANGED entries /\ returned' = Value(k)

(* Every key once, in an order of the table's choosing. *)
ListKeys == /\ UNCHANGED entries
            /\ IsInjective(returned') /\ Range(returned') = DOMAIN entries

Next == \/ \E k \in Keys : Delete(k) \/ Get(k) \/ \E v \in Values : Set(k, v)
        \/ ListKeys

Spec == Init /\ [][Next]_<<entries, returned>>
=============================================================================
