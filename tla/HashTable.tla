----------------------------- MODULE HashTable ------------------------------
(***************************************************************************)
(* The hash table of src/src/hash.c: an array of chains.  A chain is the   *)
(* sequence of its entries without the empty entry at its head, and        *)
(* getHashEntry() is the place in it that found->next has.                 *)
(***************************************************************************)
EXTENDS Integers, Functions, SequencesExt

CONSTANTS
    Keys,      \* strings, as sequences of signed chars
    Values,    \* what callers store
    NULL,
    Size,      \* hash->size, the number of buckets
    CharMax,   \* greatest value of a signed char
    UIntMax    \* greatest value of an unsigned int

ASSUME SizeAssumption == /\ {Size, CharMax, UIntMax} \subseteq Nat \ {0}
                         /\ Size <= UIntMax
ASSUME KeysAssumption == Keys \subseteq Seq((-CharMax - 1 .. CharMax) \ {0})
ASSUME NullAssumption == NULL \notin Values

Buckets == 0 .. Size - 1
Entries == [key : Keys, value : Values]

VARIABLES hash,      \* per bucket: its chain
          returned   \* what the last call gave back
tableVars == <<hash, returned>>

(* Each addition converts a signed char to unsigned int and wraps. *)
StdHashFunction(key) ==
    FoldLeft(LAMBDA sum, char : (sum + char) % (UIntMax + 1), 0, key) % Size

Chain(k)     == hash[StdHashFunction(k)]
KeyAt(k, n)  == n \in DOMAIN Chain(k) /\ Chain(k)[n].key = k

(* The first entry with the key, or the place behind the last one. *)
GetHashEntry(k) ==
    CHOOSE n \in 1 .. Len(Chain(k)) + 1 :
        /\ \A m \in 1 .. n - 1 : ~KeyAt(k, m)
        /\ KeyAt(k, n) \/ n = Len(Chain(k)) + 1

Found(k) == GetHashEntry(k) <= Len(Chain(k))
ValueOf(k) == IF Found(k) THEN Chain(k)[GetHashEntry(k)].value ELSE NULL

HashTableCreate ==
    /\ hash = [b \in Buckets |-> <<>>]
    /\ returned = NULL

(* Variants: the value goes into an existing entry only, or a new entry is *)
(* made in any case.                                                       *)
HashTableSetUnset(k, v) ==
    /\ hash' = [hash EXCEPT ![StdHashFunction(k)] =
                  IF Found(k) THEN [@ EXCEPT ![GetHashEntry(k)].value = v]
                              ELSE Append(@, [key |-> k, value |-> NULL])]
    /\ returned' = ValueOf(k)

HashTableSetAlways(k, v) ==
    /\ hash' = [hash EXCEPT ![StdHashFunction(k)] =
                  Append(@, [key |-> k, value |-> v])]
    /\ returned' = ValueOf(k)

HashTableSet(k, v) ==
    /\ hash' = [hash EXCEPT ![StdHashFunction(k)] =
                  IF Found(k) THEN [@ EXCEPT ![GetHashEntry(k)].value = v]
                              ELSE Append(@, [key |-> k, value |-> v])]
    /\ returned' = ValueOf(k)

(* Variant: the rest of the chain goes with the entry. *)
HashTableDeleteRest(k) ==
    /\ hash' = [hash EXCEPT ![StdHashFunction(k)] =
                  SubSeq(@, 1, GetHashEntry(k) - 1)]
    /\ returned' = ValueOf(k)

HashTableDelete(k) ==
    /\ hash' = [hash EXCEPT ![StdHashFunction(k)] =
                  IF Found(k) THEN RemoveAt(@, GetHashEntry(k)) ELSE @]
    /\ returned' = ValueOf(k)

HashTableGet(k) == UNCHANGED hash /\ returned' = ValueOf(k)

(* The keys bucket by bucket, each chain from its head. *)
AllEntries == FoldFunction(LAMBDA chain, rest : chain \o rest, <<>>, hash)
HashTableKeys ==
    /\ UNCHANGED hash
    /\ returned' = [n \in DOMAIN AllEntries |-> AllEntries[n].key]

(* Not a step of this module: nobody calls the table after it. *)
HashTableDispose == hash' = [b \in Buckets |-> <<>>] /\ UNCHANGED returned

TableNext ==
    \/ \E k \in Keys : \/ HashTableDelete(k) \/ HashTableGet(k)
                       \/ \E v \in Values : HashTableSet(k, v)
    \/ HashTableKeys

TableSpec == HashTableCreate /\ [][TableNext]_tableVars

-----------------------------------------------------------------------------
(* Properties *)

TableTypeOK == /\ hash \in [Buckets -> Seq(Entries)]
               /\ returned \in Values \cup {NULL} \/ returned \in Seq(Keys)

(* A key is only in the bucket its hash names, and there only once: the    *)
(* lookup, which stops at the first match, never leaves a stale entry      *)
(* behind it that a delete would bring back.                               *)
ChainsSound ==
    \A b \in Buckets : \A m, n \in DOMAIN hash[b] :
        /\ StdHashFunction(hash[b][n].key) = b
        /\ hash[b][m].key = hash[b][n].key => m = n

(* The dictionary the chains stand for. *)
KeysIn == {k \in Keys : \E n \in DOMAIN Chain(k) : KeyAt(k, n)}
Dict   == INSTANCE Dictionary WITH entries <- [k \in KeysIn |-> ValueOf(k)]

(* Whatever the hash function makes of the keys, the table does what       *)
(* hash.h says: each call changes the entry it names and no other, returns *)
(* the old value, and hashTableKeys() lists every key once.                *)
ImplementsDictionary == Dict!Spec
=============================================================================
