---------------------------- MODULE ContentTypes ----------------------------
(***************************************************************************)
(* The content types of src/src/contenttype.c: a hash table from file name *)
(* extensions to allocated ContentType structures, which the configuration *)
(* may replace, and the lookup by which http.c labels a response.  The     *)
(* values in contentTypeHash, which is hash here, are addresses.           *)
(***************************************************************************)
EXTENDS HashTable, FiniteSetsExt

CONSTANTS
    Types,       \* type strings
    Html, Jpeg,  \* "text/html" and "image/jpeg"
    Jpg,         \* the key "jpg"
    Dot,         \* FILE_EXTENSION_SEPARATOR
    Paths,       \* the pairs of arguments contenttype_get() is given
    Free,        \* what a free address holds
    MaxSets      \* bound: contenttype lines in the configuration

ASSUME TypesAssumption == /\ {Html, Jpeg} \subseteq Types
                          /\ {Free, NULL} \cap Types = {}
                          /\ Jpg \in Keys /\ MaxSets \in Nat
ASSUME PathsAssumption == \A p \in Paths : /\ p.file # <<>>
                                           /\ p.maxPathLength \in Nat \ {0}
                                           /\ p.file \in Seq(Int \ {0})

VARIABLES
    defaultContentType,
    heap,                  \* per address: the type string, or Free
    state,                 \* start, ready, crashed or closed
    answer,                \* the last lookup: its path and the type it gave
    configured,            \* history: the type last asked for, per key
    sets                   \* bound counter
vars == <<hash, returned, defaultContentType, heap, state, answer, configured,
          sets>>

NoAnswer == [path |-> NULL, type |-> NULL]

Init ==
    /\ HashTableCreate
    /\ defaultContentType = NULL
    /\ heap = [a \in Values |-> Free]
    /\ state = "start"
    /\ answer = NoAnswer
    /\ configured = [k \in Keys |-> NULL]
    /\ sets = 0

(* contenttype_create() and contenttype_dispose(), on a state of the heap. *)
Create(a, t)  == [heap EXCEPT ![a] = t]
Dispose(h, A) == [a \in Values |-> IF a \in A THEN Free ELSE h[a]]

Initialize ==
    /\ state = "start"
    /\ \E jpg, html \in Values :
         /\ jpg # html
         /\ HashTableSet(Jpg, jpg)
         /\ heap' = [heap EXCEPT ![jpg] = Jpeg, ![html] = Html]
         /\ defaultContentType' = html
    /\ configured' = [configured EXCEPT ![Jpg] = Jpeg]
    /\ state' = "ready"
    /\ UNCHANGED <<answer, sets>>

(* What is disposed of when a enters the table: the type it replaces.      *)
(* Variants: the new one, or nothing.                                      *)
ReplacedNew(a)  == {a}
ReplacedNone(a) == {}
Replaced(a)     == {returned'}

(* One contenttype line: a new type for k. *)
Set(k, t) ==
    /\ state = "ready" /\ sets < MaxSets
    /\ \E a \in Values : /\ heap[a] = Free
                         /\ HashTableSet(k, a)
                         /\ heap' = Dispose(Create(a, t), Replaced(a))
    /\ configured' = [configured EXCEPT ![k] = t]
    /\ sets' = sets + 1
    /\ UNCHANGED <<defaultContentType, state, answer>>

(* Where the part of the path that the caller announced has a separator. *)
Dots(p) == {n \in 1 .. Min({Len(p.file), p.maxPathLength}) : p.file[n] = Dot}

(* Variant: the search starts at the other end. *)
ExtensionFirst(p) == SubSeq(p.file, Min(Dots(p)) + 1, Len(p.file))

(* The extension goes on to the end of the string, whatever was announced. *)
Extension(p) == SubSeq(p.file, Max(Dots(p)) + 1, Len(p.file))

TypeOf(e) == IF Found(e) THEN heap[ValueOf(e)]
                               ELSE heap[defaultContentType]

(* contenttype_get() *)
Get(p) ==
    /\ state = "ready" /\ Dots(p) # {}
    /\ HashTableGet(Extension(p))
    /\ answer' = [path |-> p, type |-> TypeOf(Extension(p))]
    /\ UNCHANGED <<defaultContentType, heap, state, configured, sets>>

(* Without a separator the index, a size_t, passes below zero and the      *)
(* search goes on in the memory before the path, until it finds one there  *)
(* or the process has no memory left.                                      *)
GetBelowStart(p) ==
    /\ state = "ready" /\ Dots(p) = {}
    /\ \/ \E e \in Keys \cup {<<>>} :
             /\ HashTableGet(e)
             /\ answer' = [path |-> p, type |-> TypeOf(e)]
             /\ UNCHANGED state
       \/ state' = "crashed" /\ UNCHANGED <<hash, returned, answer>>
    /\ UNCHANGED <<defaultContentType, heap, configured, sets>>

(* The keys the table lists, their types, the default and the table go. *)
Close ==
    /\ state = "ready"
    /\ heap' = Dispose(heap, {defaultContentType} \cup
                             {ValueOf(k) : k \in KeysIn})
    /\ HashTableDispose
    /\ state' = "closed"
    /\ UNCHANGED <<defaultContentType, answer, configured, sets>>

Next == \/ Initialize \/ Close
        \/ \E k \in Keys, t \in Types : Set(k, t)
        \/ \E p \in Paths : Get(p) \/ GetBelowStart(p)

Spec == Init /\ [][Next]_vars

-----------------------------------------------------------------------------
(* Properties *)

TypeOK ==
    /\ TableTypeOK
    /\ defaultContentType \in Values \cup {NULL}
    /\ heap \in [Values -> Types \cup {Free}]
    /\ state \in {"start", "ready", "crashed", "closed"}
    /\ answer \in [path : Paths, type : Types] \cup {NoAnswer}
    /\ configured \in [Keys -> Types \cup {NULL}]
    /\ sets \in 0 .. MaxSets

Stored == [k \in KeysIn |-> ValueOf(k)]

(* Every allocated type has one owner, an entry of the table or the        *)
(* default, and each of those has an allocated one: replacing a type       *)
(* neither leaks the old one nor disposes of one that is in use, and at    *)
(* the end none is left and none is disposed of twice.                     *)
OneOwnerEach ==
    LET owned == Range(Stored) \cup
                 (IF state = "ready" THEN {defaultContentType} ELSE {})
    IN /\ {a \in Values : heap[a] # Free} = owned \/ state = "crashed"
       /\ IsInjective(Stored) /\ defaultContentType \notin Range(Stored)

(* The type a path should have: the one last configured for what follows   *)
(* the last dot in it, and text/html otherwise.                            *)
TypeAsked(p) ==
    LET dots == {n \in DOMAIN p.file : p.file[n] = Dot}
        e    == SubSeq(p.file, Max(dots) + 1, Len(p.file))
    IN IF dots # {} /\ e \in Keys /\ configured[e] # NULL THEN configured[e]
                                                          ELSE Html

(* A file in whose name the search finds a dot is labelled with the type   *)
(* last configured for it, whatever the table did with its chains.         *)
ConfiguredTypeServed ==
    [][\A p \in Paths : Get(p) => answer'.type = TypeAsked(p)]_vars

(* A file for whose extension no type was configured is delivered as       *)
(* text/html.  Of a path in which the search finds no dot the code says    *)
(* what the memory in front of it makes it say.                            *)
DefaultTypeServed ==
    [][\A p \in Paths : Get(p) \/ GetBelowStart(p) =>
         state' = "ready" /\ answer'.type = TypeAsked(p)]_vars
=============================================================================
