---------------------------- MODULE RequestProofs ----------------------------
(***************************************************************************)
(* Proofs about the types of the responses, for every set of extensions,   *)
(* URLs and addresses and however many lines the configuration has: each   *)
(* allocated type has one owner, a path gets the type configured for it,   *)
(* and the path is the one that a URL of any length means.                 *)
(***************************************************************************)
EXTENDS Request, HashTableProofs


(* From contenttype_initialize() to contenttype_close(). *)
Live == state \in {"ready", "crashed"}

(* An address is allocated while it is the default's or an entry's, and    *)
(* never of two of them.                                                   *)
OwnersInv ==
    /\ Live => /\ defaultContentType \in Values
               /\ \A a \in Values : heap[a] # Free
                     <=> a = defaultContentType \/ \E k \in KeysIn : ValueOf(k) = a
               /\ \A k \in KeysIn : ValueOf(k) # defaultContentType
               /\ \A k, l \in KeysIn : ValueOf(k) = ValueOf(l) => k = l
    /\ ~Live => KeysIn = {} /\ \A a \in Values : heap[a] = Free

(* What the table leads to is what was configured last.                    *)
ServedInv ==
    /\ Live => /\ heap[defaultContentType] = Html
               /\ \A k \in Keys :
                    configured[k] = IF k \in KeysIn THEN heap[ValueOf(k)] ELSE NULL
    /\ state = "start" => configured = [k \in Keys |-> NULL]

Inv == ChainsInv /\ SearchSound /\ TypeOK /\ OwnersInv /\ ServedInv

-----------------------------------------------------------------------------
(* The table *)

LEMMA DisposedInv ==
  ASSUME HashTableDispose
  PROVE  ChainsInv' /\ KeysIn' = {}
<1>1. hash' = [b \in Buckets |-> <<>>]
  BY DEF HashTableDispose
<1>2. ChainsInv'
  BY <1>1, EmptySeq DEF ChainsInv, ChainsSound
<1>3. \A k \in Keys : DOMAIN Chain(k)' = {}
  BY <1>1, KeysHaveBuckets DEF Chain
<1>4. KeysIn' = {}
  BY <1>3 DEF KeysIn
<1>5. QED
  BY <1>2, <1>4

LEMMA TableStep ==
  ASSUME Next
  PROVE  \/ UNCHANGED hash
         \/ \E k \in Keys, v \in Values : HashTableSet(k, v)
         \/ HashTableDispose
<1>1. CASE Initialize
  BY <1>1, TypesAssumption DEF Initialize
<1>2. CASE \E k \in Keys, t \in Types : Set(k, t)
  BY <1>2 DEF Set
<1>3. CASE \E p \in Paths : Get(p)
  BY <1>3 DEF Get, HashTableGet
<1>4. CASE \E p \in Paths : GetBelowStart(p)
  BY <1>4 DEF GetBelowStart, HashTableGet
<1>5. CASE Close
  BY <1>5 DEF Close
<1>6. QED
  BY <1>1, <1>2, <1>3, <1>4, <1>5 DEF Next

LEMMA TableStaysSound == Spec => []ChainsInv
<1>1. Init => ChainsInv
  BY CreateInv DEF Init
<1>2. ChainsInv /\ [Next]_vars => ChainsInv'
  <2> SUFFICES ASSUME ChainsInv, [Next]_vars PROVE ChainsInv'
    OBVIOUS
  <2>1. CASE UNCHANGED hash
    BY <2>1 DEF ChainsInv, ChainsSound
  <2>2. CASE \E k \in Keys, v \in Values : HashTableSet(k, v)
    BY <2>2, SetInv
  <2>3. CASE HashTableDispose
    BY <2>3, DisposedInv
  <2>4. QED
    BY <2>1, <2>2, <2>3, TableStep DEF vars
<1>3. QED
  BY <1>1, <1>2, PTL DEF Spec

(* What stays of the table when no call changes it.                        *)
LEMMA EntriesKept ==
  ASSUME UNCHANGED hash
  PROVE  KeysIn' = KeysIn /\ \A k \in KeysIn : ValueOf(k)' = ValueOf(k)
<1>1. UNCHANGED Map
  BY TableKept
<1>2. DOMAIN Map = KeysIn /\ DOMAIN Map' = KeysIn'
  BY DEF Map
<1>3. \A k \in KeysIn : Map[k] = ValueOf(k)
  BY DEF Map
<1>4. \A k \in KeysIn' : Map'[k] = ValueOf(k)'
  BY DEF Map
<1>5. QED
  BY <1>1, <1>2, <1>3, <1>4

-----------------------------------------------------------------------------
(* The lookup *)

LEMMA MinOfTwo ==
  ASSUME NEW a \in Nat, NEW b \in Nat
  PROVE  Min({a, b}) = IF a <= b THEN a ELSE b
BY DEF Min

LEMMA DotsAre ==
  ASSUME NEW p \in Paths
  PROVE  /\ Len(p.file) \in Nat /\ p.file \in Seq(Int)
         /\ Dots(p) = {n \in 1 .. Len(p.file) : n <= p.maxPathLength /\ p.file[n] = Dot}
         /\ Dots(p) # {} => Max(Dots(p)) \in Dots(p)
<1>1. p.file \in Seq(Int) /\ p.maxPathLength \in Nat
  <2>1. p.file \in Seq(Int \ {0}) /\ Int \ {0} \subseteq Int
    BY PathsAssumption
  <2>2. QED
    BY <2>1, SeqMonotonic, PathsAssumption
<1> DEFINE len == Len(p.file)
           max == p.maxPathLength
<1>2. len \in Nat
  BY <1>1, LenProperties
<1>3. Dots(p) = {n \in 1 .. Min({len, max}) : p.file[n] = Dot}
  BY DEF Dots
<1> HIDE DEF len, max
<1>4. max \in Nat
  BY <1>1 DEF max
<1>5. Min({len, max}) = IF len <= max THEN len ELSE max
  BY <1>2, <1>4, MinOfTwo
<1>6. \A n : n \in 1 .. Min({len, max}) <=> n \in 1 .. len /\ n <= max
  BY <1>2, <1>4, <1>5
<1>7. Dots(p) = {n \in 1 .. len : n <= max /\ p.file[n] = Dot}
  BY <1>3, <1>6
<1>8. Dots(p) \in SUBSET (1 .. len)
  BY <1>7
<1>9. Dots(p) # {} => Max(Dots(p)) \in Dots(p)
  BY <1>2, <1>8, MaxOf
<1>10. QED
  BY <1>1, <1>2, <1>7, <1>9 DEF len, max

LEMMA ExtensionIs ==
  ASSUME NEW p \in Paths, Dots(p) # {}
  PROVE  Extension(p) \in Seq(Int)
<1>1. /\ Len(p.file) \in Nat /\ p.file \in Seq(Int)
      /\ Max(Dots(p)) \in 1 .. Len(p.file)
  BY DotsAre
<1> DEFINE m == Max(Dots(p)) + 1
           len == Len(p.file)
<1>2. m \in 1 .. len + 1 /\ len \in m - 1 .. len
  BY <1>1
<1>3. Extension(p) = SubSeq(p.file, m, len)
  BY DEF Extension
<1> HIDE DEF m
<1>4. QED
  BY <1>1, <1>2, <1>3, SubSeqProperties

(* What the table says of an extension, whether it can be a key or not.    *)
LEMMA TypeOfIs ==
  ASSUME Inv, state = "ready", NEW e \in Seq(Int)
  PROVE  /\ TypeOf(e) \in Types /\ ValueOf(e) \in Values \cup {NULL}
         /\ TypeOf(e) = IF e \in Keys /\ configured[e] # NULL THEN configured[e]
                                                             ELSE Html
<1>1. /\ defaultContentType \in Values /\ heap[defaultContentType] = Html
      /\ \A a \in Values : heap[a] # Free => heap[a] \in Types /\ heap[a] # NULL
  BY TypesAssumption DEF Inv, OwnersInv, ServedInv, Live, TypeOK
<1>2. Html \in Types
  BY TypesAssumption
<1>3. CASE e \notin Keys
  BY <1>1, <1>2, <1>3, SearchElsewhere DEF Inv, TypeOf
<1>4. CASE e \in KeysIn
  <2>1. e \in Keys /\ Found(e) /\ ValueOf(e) \in Values
    BY <1>4 DEF Inv, SearchSound, KeysIn
  <2>2. heap[ValueOf(e)] # Free /\ configured[e] = heap[ValueOf(e)]
    BY <1>4, <2>1 DEF Inv, OwnersInv, ServedInv, Live
  <2>3. QED
    BY <1>1, <2>1, <2>2 DEF TypeOf
<1>5. CASE e \in Keys \ KeysIn
  <2>1. ~Found(e) /\ ValueOf(e) = NULL /\ configured[e] = NULL
    BY <1>5 DEF Inv, SearchSound, ServedInv, Live
  <2>2. QED
    BY <1>1, <1>2, <2>1 DEF TypeOf
<1>6. QED
  BY <1>3, <1>4, <1>5

-----------------------------------------------------------------------------
(* The invariant *)

LEMMA StartInv == Init => TypeOK /\ OwnersInv /\ ServedInv
<1> SUFFICES ASSUME Init PROVE TypeOK /\ OwnersInv /\ ServedInv
  OBVIOUS
<1>1. TableTypeOK
  BY CreateInv DEF Init, HashTableCreate, ChainsInv, TableTypeOK
<1>2. TypeOK
  <2>1. /\ heap \in [Values -> Types \cup {Free}]
        /\ configured \in [Keys -> Types \cup {NULL}]
    BY DEF Init
  <2>2. answer = NoAnswer /\ sets \in 0 .. MaxSets
    BY TypesAssumption DEF Init
  <2>3. QED
    BY <1>1, <2>1, <2>2 DEF Init, TypeOK
<1>3. \A k \in Keys : DOMAIN Chain(k) = {}
  BY KeysHaveBuckets DEF Init, HashTableCreate, Chain
<1>4. KeysIn = {}
  BY <1>3 DEF KeysIn
<1>5. QED
  BY <1>2, <1>4 DEF Init, OwnersInv, ServedInv, Live

LEMMA InitializeInv ==
  ASSUME Inv, ChainsInv', SearchSound', Initialize
  PROVE  TypeOK' /\ OwnersInv' /\ ServedInv'
<1>1. PICK jpg \in Values, html \in Values :
         /\ jpg # html /\ HashTableSet(Jpg, jpg)
         /\ heap' = [heap EXCEPT ![jpg] = Jpeg, ![html] = Html]
         /\ defaultContentType' = html
  BY DEF Initialize
<1>2. /\ KeysIn = {} /\ heap \in [Values -> Types \cup {Free}]
      /\ \A a \in Values : heap[a] = Free
  BY DEF Initialize, Inv, OwnersInv, Live, TypeOK
<1>3. KeysIn' = {Jpg} /\ ValueOf(Jpg)' = jpg
  BY <1>1, <1>2, SetKeys, TypesAssumption DEF Inv
<1>4. /\ heap' \in [Values -> Types \cup {Free}]
      /\ \A a \in Values : heap'[a] = IF a = html THEN Html
                                       ELSE IF a = jpg THEN Jpeg ELSE Free
  BY <1>1, <1>2, TypesAssumption
<1>5. Live' /\ state' = "ready"
  BY DEF Initialize, Live
<1>6. OwnersInv'
  BY <1>1, <1>3, <1>4, <1>5, TypesAssumption DEF OwnersInv
<1>7. ServedInv'
  <2>1. configured' = [configured EXCEPT ![Jpg] = Jpeg] /\ configured = [k \in Keys |-> NULL]
    BY DEF Initialize, Inv, ServedInv
  <2>2. QED
    BY <1>1, <1>3, <1>4, <1>5, <2>1, TypesAssumption DEF ServedInv
<1>8. TypeOK'
  <2>1. returned' = NULL
    <3>1. Jpg \in Keys /\ Jpg \notin KeysIn
      BY <1>2, TypesAssumption
    <3>2. QED
      BY <1>1, <3>1 DEF HashTableSet, Inv, SearchSound
  <2>2. TableTypeOK'
    BY <2>1 DEF TableTypeOK, ChainsInv
  <2>3. configured' \in [Keys -> Types \cup {NULL}]
    BY TypesAssumption DEF Initialize, Inv, TypeOK
  <2>4. UNCHANGED <<answer, sets>> /\ answer \in [path : Paths, type : Types] \cup {NoAnswer}
        /\ sets \in 0 .. MaxSets
    BY DEF Initialize, Inv, TypeOK
  <2>5. QED
    BY <1>1, <1>4, <1>5, <2>2, <2>3, <2>4 DEF TypeOK, NoAnswer
<1>9. QED
  BY <1>6, <1>7, <1>8

LEMMA SetTypeInv ==
  ASSUME Inv, ChainsInv', SearchSound', NEW k \in Keys, NEW t \in Types, Set(k, t)
  PROVE  TypeOK' /\ OwnersInv' /\ ServedInv'
<1>1. PICK a \in Values : /\ heap[a] = Free /\ HashTableSet(k, a)
                          /\ heap' = Dispose(Create(a, t), Replaced(a))
  BY DEF Set
<1>2. /\ state = "ready" /\ Live /\ state' = "ready" /\ Live'
      /\ UNCHANGED <<defaultContentType, answer>>
      /\ configured' = [configured EXCEPT ![k] = t]
      /\ sets < MaxSets /\ sets' = sets + 1
  BY DEF Set, Live
<1>3. /\ KeysIn' = KeysIn \cup {k}
      /\ \A x \in KeysIn' : ValueOf(x)' = IF x = k THEN a ELSE ValueOf(x)
  BY <1>1, SetKeys DEF Inv
<1>4. /\ returned' = ValueOf(k)
      /\ k \in KeysIn => ValueOf(k) \in Values
      /\ k \notin KeysIn => returned' = NULL /\ NULL \notin Values
  BY <1>1, NullAssumption DEF HashTableSet, Inv, SearchSound
<1>5. heap \in [Values -> Types \cup {Free}] /\ t # Free
  BY TypesAssumption DEF Inv, TypeOK
<1>6. \A b \in Values : heap'[b] = IF b = returned' THEN Free
                                   ELSE IF b = a THEN t ELSE heap[b]
  BY <1>1, <1>5 DEF Dispose, Create, Replaced
<1>7. heap' \in [Values -> Types \cup {Free}]
  <2>1. heap' = [b \in Values |-> heap'[b]]
    BY <1>1 DEF Dispose
  <2>2. QED
    BY <1>5, <1>6, <2>1
<1>8. /\ defaultContentType \in Values
      /\ \A b \in Values : heap[b] # Free
            <=> b = defaultContentType \/ \E x \in KeysIn : ValueOf(x) = b
      /\ \A x \in KeysIn : ValueOf(x) # defaultContentType /\ ValueOf(x) \in Values
      /\ \A x, y \in KeysIn : ValueOf(x) = ValueOf(y) => x = y
  BY <1>2 DEF Inv, OwnersInv, SearchSound, KeysIn
<1>9. a # defaultContentType /\ \A x \in KeysIn : ValueOf(x) # a
  BY <1>1, <1>8
<1>10. defaultContentType # returned'
  BY <1>4, <1>8
<1>11. OwnersInv'
  <2>1. ASSUME NEW b \in Values
        PROVE  heap'[b] # Free <=> b = defaultContentType
                                   \/ \E x \in KeysIn' : ValueOf(x)' = b
    <3>1. CASE b = a
      <4>1. a # returned'
        BY <1>4, <1>9
      <4>2. QED
        BY <1>3, <1>5, <1>6, <3>1, <4>1
    <3>2. CASE b # a /\ b = returned'
      <4>1. k \in KeysIn /\ ValueOf(k) = b
        BY <1>4, <3>2
      <4>2. \A x \in KeysIn' : ValueOf(x)' # b
        BY <1>3, <1>8, <3>2, <4>1
      <4>3. QED
        BY <1>6, <1>10, <3>2, <4>2
    <3>3. CASE b # a /\ b # returned'
      <4>1. heap'[b] = heap[b]
        BY <1>6, <3>3
      <4>2. (\E x \in KeysIn' : ValueOf(x)' = b) <=> \E x \in KeysIn : ValueOf(x) = b
        BY <1>3, <1>4, <3>3
      <4>3. QED
        BY <1>8, <4>1, <4>2
    <3>4. QED
      BY <3>1, <3>2, <3>3
  <2>2. \A x \in KeysIn' : ValueOf(x)' # defaultContentType
    BY <1>3, <1>8, <1>9
  <2>3. \A x, y \in KeysIn' : ValueOf(x)' = ValueOf(y)' => x = y
    BY <1>3, <1>8, <1>9
  <2>4. QED
    BY <1>2, <1>8, <2>1, <2>2, <2>3 DEF OwnersInv
<1>12. ServedInv'
  <2>1. heap[defaultContentType] = Html
        /\ \A x \in Keys : configured[x] = IF x \in KeysIn THEN heap[ValueOf(x)] ELSE NULL
    BY <1>2 DEF Inv, ServedInv
  <2>2. heap'[defaultContentType] = Html
    BY <1>6, <1>8, <1>9, <1>10, <2>1
  <2>3. ASSUME NEW x \in Keys
        PROVE  configured'[x] = IF x \in KeysIn' THEN heap'[ValueOf(x)'] ELSE NULL
    <3>1. DOMAIN configured = Keys
      BY DEF Inv, TypeOK
    <3>2. CASE x = k
      <4>1. configured'[x] = t /\ x \in KeysIn' /\ ValueOf(x)' = a
        BY <1>2, <1>3, <3>1, <3>2
      <4>2. heap'[a] = t
        BY <1>4, <1>6, <1>9
      <4>3. QED
        BY <4>1, <4>2
    <3>3. CASE x # k
      <4>1. configured'[x] = configured[x] /\ (x \in KeysIn' <=> x \in KeysIn)
        BY <1>2, <1>3, <3>1, <3>3
      <4>2. CASE x \in KeysIn
        <5>1. ValueOf(x)' = ValueOf(x) /\ ValueOf(x) # a /\ ValueOf(x) \in Values
          BY <1>3, <1>8, <1>9, <3>3, <4>1, <4>2
        <5>2. ValueOf(x) # returned'
          BY <1>4, <1>8, <3>3, <4>2, <5>1
        <5>3. heap'[ValueOf(x)] = heap[ValueOf(x)]
          BY <1>6, <5>1, <5>2
        <5>4. QED
          BY <2>1, <4>1, <4>2, <5>1, <5>3
      <4>3. CASE x \notin KeysIn
        BY <2>1, <4>1, <4>3
      <4>4. QED
        BY <4>2, <4>3
    <3>4. QED
      BY <3>2, <3>3
  <2>4. QED
    BY <1>2, <2>2, <2>3 DEF ServedInv
<1>13. TypeOK'
  <2>1. TableTypeOK'
    BY <1>4 DEF TableTypeOK, ChainsInv
  <2>2. configured' \in [Keys -> Types \cup {NULL}]
    BY <1>2 DEF Inv, TypeOK
  <2>3. sets \in 0 .. MaxSets /\ answer \in [path : Paths, type : Types] \cup {NoAnswer}
    BY DEF Inv, TypeOK
  <2>4. sets' \in 0 .. MaxSets
    BY <1>2, <2>3, TypesAssumption
  <2>5. QED
    BY <1>2, <1>7, <1>8, <2>1, <2>2, <2>3, <2>4 DEF TypeOK, NoAnswer
<1>14. QED
  BY <1>11, <1>12, <1>13

(* A lookup changes nothing but the answer. *)
LEMMA LookupKeeps ==
  ASSUME Inv, ChainsInv', UNCHANGED <<hash, defaultContentType, heap, configured, sets>>,
         returned' \in Values \cup {NULL} \/ returned' = returned,
         state = "ready", state' \in {"ready", "crashed"},
         answer' \in [path : Paths, type : Types] \cup {NoAnswer}
  PROVE  TypeOK' /\ OwnersInv' /\ ServedInv'
<1>1. KeysIn' = KeysIn /\ \A k \in KeysIn : ValueOf(k)' = ValueOf(k)
  BY EntriesKept
<1>2. Live /\ Live' /\ state' # "start"
  BY DEF Live
<1>3. OwnersInv'
  BY <1>1, <1>2 DEF Inv, OwnersInv
<1>4. ServedInv'
  BY <1>1, <1>2 DEF Inv, ServedInv
<1>5. TableTypeOK'
  BY DEF Inv, TypeOK, TableTypeOK, ChainsInv
<1>6. TypeOK'
  BY <1>5 DEF Inv, TypeOK, NoAnswer
<1>7. QED
  BY <1>3, <1>4, <1>6

LEMMA GetInv ==
  ASSUME Inv, ChainsInv', NEW p \in Paths, Get(p)
  PROVE  TypeOK' /\ OwnersInv' /\ ServedInv'
<1> DEFINE e == Extension(p)
<1>1. e \in Seq(Int)
  BY ExtensionIs DEF Get
<1>2. /\ state = "ready" /\ state' = state
      /\ UNCHANGED <<hash, defaultContentType, heap, configured, sets>>
      /\ returned' = ValueOf(e) /\ answer' = [path |-> p, type |-> TypeOf(e)]
  BY DEF Get, HashTableGet
<1> HIDE DEF e
<1>3. TypeOf(e) \in Types /\ ValueOf(e) \in Values \cup {NULL}
  BY <1>1, <1>2, TypeOfIs
<1>4. QED
  BY <1>2, <1>3, LookupKeeps

LEMMA BelowInv ==
  ASSUME Inv, ChainsInv', NEW p \in Paths, GetBelowStart(p)
  PROVE  TypeOK' /\ OwnersInv' /\ ServedInv'
<1>1. state = "ready" /\ UNCHANGED <<defaultContentType, heap, configured, sets>>
  BY DEF GetBelowStart
<1>2. CASE \E e \in Keys \cup {<<>>} : /\ HashTableGet(e) /\ UNCHANGED state
                                       /\ answer' = [path |-> p, type |-> TypeOf(e)]
  <2>1. PICK e \in Keys \cup {<<>>} : /\ HashTableGet(e) /\ UNCHANGED state
                                      /\ answer' = [path |-> p, type |-> TypeOf(e)]
    BY <1>2
  <2>2. e \in Seq(Int)
    BY KeysAreSeqs, EmptySeq
  <2>3. TypeOf(e) \in Types /\ ValueOf(e) \in Values \cup {NULL}
    BY <1>1, <2>2, TypeOfIs
  <2>4. UNCHANGED hash /\ returned' = ValueOf(e)
    BY <2>1 DEF HashTableGet
  <2>5. QED
    BY <1>1, <2>1, <2>3, <2>4, LookupKeeps
<1>3. CASE state' = "crashed" /\ UNCHANGED <<hash, returned, answer>>
  <2>1. answer' \in [path : Paths, type : Types] \cup {NoAnswer}
    BY <1>3 DEF Inv, TypeOK
  <2>2. QED
    BY <1>1, <1>3, <2>1, LookupKeeps
<1>4. QED
  BY <1>2, <1>3 DEF GetBelowStart

LEMMA CloseInv ==
  ASSUME Inv, ChainsInv', Close
  PROVE  TypeOK' /\ OwnersInv' /\ ServedInv'
<1>1. /\ state = "ready" /\ state' = "closed" /\ HashTableDispose
      /\ heap' = Dispose(heap, {defaultContentType} \cup {ValueOf(k) : k \in KeysIn})
      /\ UNCHANGED <<returned, defaultContentType, answer, configured, sets>>
  BY DEF Close, HashTableDispose
<1>2. KeysIn' = {}
  BY <1>1, DisposedInv
<1>3. \A a \in Values : heap[a] # Free
         => a \in {defaultContentType} \cup {ValueOf(k) : k \in KeysIn}
  BY <1>1 DEF Inv, OwnersInv, Live
<1>4. \A a \in Values : heap'[a] = Free
  BY <1>1, <1>3 DEF Dispose
<1>5. heap' \in [Values -> Types \cup {Free}]
  BY <1>1, <1>4 DEF Dispose
<1>6. OwnersInv' /\ ServedInv'
  BY <1>1, <1>2, <1>4 DEF OwnersInv, ServedInv, Live
<1>7. TableTypeOK'
  BY <1>1 DEF Inv, TypeOK, TableTypeOK, ChainsInv
<1>8. TypeOK'
  BY <1>1, <1>5, <1>7 DEF Inv, TypeOK, NoAnswer
<1>9. QED
  BY <1>6, <1>8

LEMMA NextInv ==
  ASSUME Inv, ChainsInv', SearchSound', [Next]_vars
  PROVE  TypeOK' /\ OwnersInv' /\ ServedInv'
<1>1. CASE UNCHANGED vars
  <2>1. KeysIn' = KeysIn /\ \A k \in KeysIn : ValueOf(k)' = ValueOf(k)
    BY <1>1, EntriesKept DEF vars
  <2>2. OwnersInv'
    BY <1>1, <2>1 DEF Inv, OwnersInv, Live, vars
  <2>3. ServedInv'
    BY <1>1, <2>1 DEF Inv, ServedInv, Live, vars
  <2>4. TypeOK'
    BY <1>1 DEF Inv, TypeOK, TableTypeOK, NoAnswer, vars
  <2>5. QED
    BY <2>2, <2>3, <2>4
<1>2. CASE Initialize
  BY <1>2, InitializeInv
<1>3. CASE \E k \in Keys, t \in Types : Set(k, t)
  BY <1>3, SetTypeInv
<1>4. CASE \E p \in Paths : Get(p)
  BY <1>4, GetInv
<1>5. CASE \E p \in Paths : GetBelowStart(p)
  BY <1>5, BelowInv
<1>6. CASE Close
  BY <1>6, CloseInv
<1>7. QED
  BY <1>1, <1>2, <1>3, <1>4, <1>5, <1>6 DEF Next

LEMMA Invariance == Spec => []Inv
<1>1. ChainsInv => SearchSound
  BY SearchIsSound
<1>2. Inv /\ ChainsInv' /\ SearchSound' /\ [Next]_vars => Inv'
  BY NextInv DEF Inv
<1>3. ChainsInv /\ SearchSound /\ Init => Inv
  BY StartInv DEF Inv
<1>4. QED
  BY <1>1, <1>2, <1>3, TableStaysSound, PTL DEF Spec

(* The table leads to addresses, the default is one, and what a lookup     *)
(* answers is a type, even where it was made below the start of a path.    *)
THEOREM TypesTypeCorrect == Spec => []TypeOK
<1>1. Inv => TypeOK
  BY DEF Inv
<1>2. QED
  BY <1>1, Invariance, PTL

(* For every number of lines of configuration, extensions and buckets: no  *)
(* type is leaked, none is disposed of while the table or the default      *)
(* leads to it, none twice, and none is left when the table is closed.     *)
THEOREM OwnersAreUnique == Spec => []OneOwnerEach
<1>1. Inv => OneOwnerEach
  <2> SUFFICES ASSUME Inv PROVE OneOwnerEach
    OBVIOUS
  <2>1. Range(Stored) = {ValueOf(k) : k \in KeysIn}
    BY DEF Range, Stored
  <2>2. IsInjective(Stored)
    <3>1. KeysIn = {} \/ \A k, l \in KeysIn : ValueOf(k) = ValueOf(l) => k = l
      BY DEF Inv, OwnersInv
    <3>2. QED
      BY <3>1 DEF IsInjective, Stored
  <2>3. \A k \in KeysIn : ValueOf(k) \in Values
    BY DEF Inv, SearchSound, KeysIn
  <2>4. QED
    BY <2>1, <2>2, <2>3 DEF Inv, OwnersInv, Live, OneOwnerEach, TypeOK
<1>2. QED
  BY <1>1, Invariance, PTL

-----------------------------------------------------------------------------
(* What is served *)

(* The search looks at the whole name or finds no dot: so http.c calls it. *)
NamesAnnounced == \A p \in Paths : Dots(p) = {} \/ Len(p.file) <= p.maxPathLength

LEMMA AskedIsExtension ==
  ASSUME NamesAnnounced, NEW p \in Paths, Dots(p) # {}
  PROVE  TypeAsked(p) = IF Extension(p) \in Keys /\ configured[Extension(p)] # NULL
                        THEN configured[Extension(p)] ELSE Html
<1>1. /\ Len(p.file) \in Nat /\ p.file \in Seq(Int)
      /\ Dots(p) = {n \in 1 .. Len(p.file) : n <= p.maxPathLength /\ p.file[n] = Dot}
  BY DotsAre
<1>2. p.maxPathLength \in Nat /\ Len(p.file) <= p.maxPathLength
  BY PathsAssumption DEF NamesAnnounced
<1>3. DOMAIN p.file = 1 .. Len(p.file)
  BY <1>1, LenProperties
<1>4. {n \in DOMAIN p.file : p.file[n] = Dot} = Dots(p)
  BY <1>1, <1>2, <1>3
<1>5. QED
  BY <1>4 DEF TypeAsked, Extension

(* A name in which the search finds a dot, and which it sees to its end,   *)
(* gets the type last configured for what follows its last dot.            *)
THEOREM ServesConfiguredTypes == NamesAnnounced => (Spec => ConfiguredTypeServed)
<1> SUFFICES ASSUME NamesAnnounced PROVE Spec => ConfiguredTypeServed
  OBVIOUS
<1>1. Inv => [\A p \in Paths : Get(p) => answer'.type = TypeAsked(p)]_vars
  <2> SUFFICES ASSUME Inv, NEW p \in Paths, Get(p)
               PROVE  answer'.type = TypeAsked(p)
    OBVIOUS
  <2>1. Dots(p) # {} /\ state = "ready"
    BY DEF Get
  <2>2. Extension(p) \in Seq(Int)
    BY <2>1, ExtensionIs
  <2>3. answer'.type = TypeOf(Extension(p))
    BY DEF Get
  <2>4. QED
    BY <2>1, <2>2, <2>3, TypeOfIs, AskedIsExtension
<1>2. QED
  BY <1>1, Invariance, PTL DEF ConfiguredTypeServed


-----------------------------------------------------------------------------
(* One character *)

States == {"PATH_OR_SCHEME", "SCHEME_OR_PORT", "PORT", "FIRST_SLASH",
           "SECOND_SLASH", "SERVER", "PATH", "OK", "FAIL"}
Readers == [state : States, startIndex : Nat, readIndex : Nat]
Reader(s, start, read) == [state |-> s, startIndex |-> start, readIndex |-> read]

LEMMA GotoIs ==
  ASSUME NEW char
  PROVE  /\ Goto("PATH_OR_SCHEME", char) = IF char \in Ends THEN "OK"
                                           ELSE IF char = Colon THEN "SCHEME_OR_PORT"
                                           ELSE "PATH_OR_SCHEME"
         /\ Goto("SCHEME_OR_PORT", char) = IF char = Slash THEN "FIRST_SLASH" ELSE "PORT"
         /\ Goto("PORT", char) = IF char = Slash THEN "PATH" ELSE "PORT"
         /\ Goto("FIRST_SLASH", char) = IF char = Slash THEN "SECOND_SLASH" ELSE "FAIL"
         /\ Goto("SECOND_SLASH", char) = "SERVER"
         /\ Goto("SERVER", char) = IF char = Slash THEN "PATH" ELSE "SERVER"
         /\ Goto("PATH", char) = IF char \in Ends THEN "OK" ELSE "PATH"
         /\ Goto("OK", char) = "OK" /\ Goto("FAIL", char) = "FAIL"
<1>0. char \in Ends => char # Colon
  BY CharsAssumption
<1>1. Goto("PATH_OR_SCHEME", char) = IF char \in Ends THEN "OK"
                                     ELSE IF char = Colon THEN "SCHEME_OR_PORT"
                                     ELSE "PATH_OR_SCHEME"
  <2>1. CASE char \in Ends
    BY <1>0, <2>1, Zenon DEF Goto
  <2>2. CASE char \notin Ends /\ char = Colon
    BY <2>2, Zenon DEF Goto
  <2>3. CASE char \notin Ends /\ char # Colon
    BY <2>3, Zenon DEF Goto
  <2>4. QED
    BY <2>1, <2>2, <2>3
<1>2. Goto("SCHEME_OR_PORT", char) = IF char = Slash THEN "FIRST_SLASH" ELSE "PORT"
  BY Zenon DEF Goto
<1>3. Goto("PORT", char) = IF char = Slash THEN "PATH" ELSE "PORT"
  <2>1. CASE char = Slash
    BY <2>1, Zenon DEF Goto
  <2>2. CASE char # Slash
    BY <2>2, Zenon DEF Goto
  <2>3. QED
    BY <2>1, <2>2
<1>4. Goto("FIRST_SLASH", char) = IF char = Slash THEN "SECOND_SLASH" ELSE "FAIL"
  BY Zenon DEF Goto
<1>5. Goto("SECOND_SLASH", char) = "SERVER"
  BY Zenon DEF Goto
<1>6. Goto("SERVER", char) = IF char = Slash THEN "PATH" ELSE "SERVER"
  <2>1. CASE char = Slash
    BY <2>1, Zenon DEF Goto
  <2>2. CASE char # Slash
    BY <2>2, Zenon DEF Goto
  <2>3. QED
    BY <2>1, <2>2
<1>7. Goto("PATH", char) = IF char \in Ends THEN "OK" ELSE "PATH"
  <2>1. CASE char \in Ends
    BY <2>1, Zenon DEF Goto
  <2>2. CASE char \notin Ends
    BY <2>2, Zenon DEF Goto
  <2>3. QED
    BY <2>1, <2>2
<1>8. Goto("OK", char) = "OK" /\ Goto("FAIL", char) = "FAIL"
  BY Zenon DEF Goto
<1>9. QED
  BY <1>1, <1>2, <1>3, <1>4, <1>5, <1>6, <1>7, <1>8

LEMMA StartIndexIs ==
  ASSUME NEW s, NEW start, NEW read, NEW to
  PROVE  StartIndex(Reader(s, start, read), to)
           = IF s = "PORT" /\ to = "PATH" THEN read + 1
             ELSE IF s = "SERVER" /\ to = "PATH" THEN read ELSE start
<1> DEFINE a == Reader(s, start, read)
<1>1. a.state = s /\ a.startIndex = start /\ a.readIndex = read
  BY DEF Reader
<1> HIDE DEF a
<1>2. CASE to = "PATH" /\ s = "PORT"
  <2>1. a.state = "PORT" /\ to = "PATH"
    BY <1>1, <1>2
  <2>2. StartIndex(a, to) = a.readIndex + 1
    BY <2>1, Zenon DEF StartIndex
  <2>3. QED
    BY <1>1, <1>2, <2>2 DEF a
<1>3. CASE to = "PATH" /\ s = "SERVER"
  <2>1. a.state = "SERVER" /\ to = "PATH"
    BY <1>1, <1>3
  <2>2. StartIndex(a, to) = a.readIndex
    BY <2>1, Zenon DEF StartIndex
  <2>3. QED
    BY <1>1, <1>3, <2>2 DEF a
<1>4. CASE to # "PATH" \/ s \notin {"PORT", "SERVER"}
  <2>1. StartIndex(a, to) = a.startIndex
    BY <1>1, <1>4, Zenon DEF StartIndex
  <2>2. QED
    BY <1>1, <1>4, <2>1 DEF a
<1>5. QED
  BY <1>2, <1>3, <1>4 DEF a

(* The automaton, state by state.                                          *)
LEMMA ReadIs ==
  ASSUME NEW start, NEW read, NEW char
  PROVE  LET R(s) == Read(Reader(s, start, read), char)
             On(s) == Reader(s, start, read + 1)
         IN /\ R("PATH_OR_SCHEME") = IF char \in Ends THEN Reader("OK", start, read)
                                     ELSE IF char = Colon THEN On("SCHEME_OR_PORT")
                                     ELSE On("PATH_OR_SCHEME")
            /\ R("SCHEME_OR_PORT") = IF char = Slash THEN On("FIRST_SLASH") ELSE On("PORT")
            /\ R("PORT") = IF char = Slash THEN Reader("PATH", read + 1, read + 1)
                                           ELSE On("PORT")
            /\ R("FIRST_SLASH") = IF char = Slash THEN On("SECOND_SLASH")
                                  ELSE Reader("FAIL", start, read)
            /\ R("SECOND_SLASH") = On("SERVER")
            /\ R("SERVER") = IF char = Slash THEN Reader("PATH", read, read + 1)
                                             ELSE On("SERVER")
            /\ R("PATH") = IF char \in Ends THEN Reader("OK", start, read) ELSE On("PATH")
            /\ R("OK") = Reader("OK", start, read)
            /\ R("FAIL") = Reader("FAIL", start, read)
<1> DEFINE From(s) == Reader(s, start, read)
<1>1. \A s : From(s).state = s /\ From(s).startIndex = start /\ From(s).readIndex = read
  BY DEF Reader
<1>2. ASSUME NEW s \in States \ {"OK", "FAIL"}, NEW to, to = Goto(s, char)
      PROVE  Read(From(s), char)
               = Reader(to, IF s = "PORT" /\ to = "PATH" THEN read + 1
                            ELSE IF s = "SERVER" /\ to = "PATH" THEN read ELSE start,
                        IF to \in {"OK", "FAIL"} THEN read ELSE read + 1)
  <2>1. StartIndex(From(s), to)
          = IF s = "PORT" /\ to = "PATH" THEN read + 1
            ELSE IF s = "SERVER" /\ to = "PATH" THEN read ELSE start
    BY StartIndexIs
  <2>2. Read(From(s), char)
          = [state |-> to, startIndex |-> StartIndex(From(s), to),
             readIndex |-> IF to \in {"OK", "FAIL"} THEN read ELSE read + 1]
    <3> HIDE DEF From
    <3>1. QED
      BY <1>1, <1>2 DEF Read
  <2>3. QED
    BY <2>1, <2>2 DEF Reader
<1>3. \A s \in {"OK", "FAIL"} : Read(From(s), char) = From(s)
  <2> HIDE DEF From
  <2>1. QED
    BY <1>1 DEF Read
<1>4. Read(From("PATH_OR_SCHEME"), char)
        = IF char \in Ends THEN From("OK")
          ELSE IF char = Colon THEN Reader("SCHEME_OR_PORT", start, read + 1)
          ELSE Reader("PATH_OR_SCHEME", start, read + 1)
  BY <1>2, GotoIs DEF States
<1>5. Read(From("SCHEME_OR_PORT"), char)
        = IF char = Slash THEN Reader("FIRST_SLASH", start, read + 1)
                          ELSE Reader("PORT", start, read + 1)
  BY <1>2, GotoIs DEF States
<1>6. Read(From("PORT"), char)
        = IF char = Slash THEN Reader("PATH", read + 1, read + 1)
                          ELSE Reader("PORT", start, read + 1)
  BY <1>2, GotoIs DEF States
<1>7. Read(From("FIRST_SLASH"), char)
        = IF char = Slash THEN Reader("SECOND_SLASH", start, read + 1) ELSE From("FAIL")
  BY <1>2, GotoIs DEF States
<1>8. Read(From("SECOND_SLASH"), char) = Reader("SERVER", start, read + 1)
  BY <1>2, GotoIs DEF States
<1>9. Read(From("SERVER"), char)
        = IF char = Slash THEN Reader("PATH", read, read + 1)
                          ELSE Reader("SERVER", start, read + 1)
  BY <1>2, GotoIs DEF States
<1>10. Read(From("PATH"), char)
         = IF char \in Ends THEN From("OK") ELSE Reader("PATH", start, read + 1)
  BY <1>2, GotoIs DEF States
<1>11. QED
  BY <1>3, <1>4, <1>5, <1>6, <1>7, <1>8, <1>9, <1>10

LEMMA ReadTyped ==
  ASSUME NEW a \in Readers, NEW char
  PROVE  /\ Read(a, char) \in Readers
         /\ Read(a, char).readIndex <= a.readIndex + 1
<1> DEFINE s == a.state
           start == a.startIndex
           read == a.readIndex
<1>1. s \in States /\ start \in Nat /\ read \in Nat /\ a = Reader(s, start, read)
  BY DEF Readers, Reader
<1> HIDE DEF s, start, read
<1>2. /\ read + 1 \in Nat
      /\ read <= read + 1 /\ read + 1 <= read + 1
  BY <1>1
<1>3. \E to \in States, i \in Nat, r \in {read, read + 1} :
        Read(a, char) = Reader(to, i, r)
  <2>1. CASE s = "PATH_OR_SCHEME"
    BY <1>1, <2>1, ReadIs DEF States
  <2>2. CASE s = "SCHEME_OR_PORT"
    BY <1>1, <2>2, ReadIs DEF States
  <2>3. CASE s = "PORT"
    BY <1>1, <1>2, <2>3, ReadIs DEF States
  <2>4. CASE s = "FIRST_SLASH"
    BY <1>1, <2>4, ReadIs DEF States
  <2>5. CASE s = "SECOND_SLASH"
    BY <1>1, <2>5, ReadIs DEF States
  <2>6. CASE s = "SERVER"
    BY <1>1, <2>6, ReadIs DEF States
  <2>7. CASE s = "PATH"
    BY <1>1, <2>7, ReadIs DEF States
  <2>8. CASE s \in {"OK", "FAIL"}
    BY <1>1, <2>8, ReadIs DEF States
  <2>9. QED
    BY <1>1, <2>1, <2>2, <2>3, <2>4, <2>5, <2>6, <2>7, <2>8 DEF States
<1>4. QED
  BY <1>2, <1>3 DEF Readers, Reader, read

-----------------------------------------------------------------------------
(* All characters *)

(* What the loop reads: the URL and its zero.                              *)
InMemory(url) == IF url = <<>> THEN <<>> ELSE Append(url, NUL)

(* run[m] is what the automaton knows after m characters.                  *)
Runs(run, url) ==
  /\ run[0] = Reader("PATH_OR_SCHEME", 0, 0)
  /\ \A m \in 0 .. Len(InMemory(url)) : run[m] \in Readers
  /\ \A m \in 0 .. Len(InMemory(url)) - 1 : run[m + 1] = Read(run[m], InMemory(url)[m + 1])

LEMMA InMemoryIs ==
  ASSUME NEW url \in Seq(Int)
  PROVE  /\ Len(url) \in Nat
         /\ Len(InMemory(url)) = IF url = <<>> THEN 0 ELSE Len(url) + 1
         /\ DOMAIN InMemory(url) = 1 .. Len(InMemory(url))
         /\ \A m \in 1 .. Len(url) : InMemory(url)[m] = url[m]
         /\ url # <<>> => InMemory(url)[Len(url) + 1] = NUL
<1>1. CASE url = <<>>
  BY <1>1, EmptySeq, LenProperties DEF InMemory
<1>2. CASE url # <<>>
  <2>1. url \in Seq(Int \cup {NUL}) /\ NUL \in Int \cup {NUL}
    BY SeqMonotonic
  <2> HIDE DEF InMemory
  <2>2. InMemory(url) = Append(url, NUL)
    BY <1>2 DEF InMemory
  <2>3. /\ Append(url, NUL) \in Seq(Int \cup {NUL})
        /\ Len(Append(url, NUL)) = Len(url) + 1
        /\ \A i \in 1 .. Len(url) : Append(url, NUL)[i] = url[i]
        /\ Append(url, NUL)[Len(url) + 1] = NUL
    BY <2>1, AppendProperties
  <2>4. DOMAIN Append(url, NUL) = 1 .. Len(Append(url, NUL))
    BY <2>3, LenProperties
  <2>5. QED
    BY <1>2, <2>2, <2>3, <2>4, LenProperties
<1>3. QED
  BY <1>1, <1>2

LEMMA LoopRuns ==
  ASSUME NEW url \in Seq(Int)
  PROVE  \E run : Runs(run, url) /\ Loop(url) = run[Len(InMemory(url))]
<1> DEFINE w == InMemory(url)
           n == Len(w)
           base == Reader("PATH_OR_SCHEME", 0, 0)
           Op == [m \in 1 .. n |-> [a \in Readers |-> Read(a, w[m])]]
           Iter(g) == [s \in SUBSET (DOMAIN w) |-> IF s = {} THEN base
                         ELSE Read(g[s \ {Max(s)}], w[Max(s)])]
           iter == CHOOSE g : g = Iter(g)
<1>1. Loop(url) = iter[DOMAIN w]
  BY DEF Loop, FoldLeft, MapThenFoldSet, InMemory, Reader
<1>2. n \in Nat /\ DOMAIN w = 1 .. n
  BY InMemoryIs
<1>3. base \in Readers
  BY DEF Readers, Reader, States
<1>4. Op \in [1 .. n -> [Readers -> Readers]]
  BY ReadTyped
<1>5. \A s \in (SUBSET (1 .. n)) \ {{}} : Max(s) \in 1 .. n
  <2> HIDE DEF n
  <2>1. QED
    BY <1>2, MaxOf
<1> HIDE DEF w, n, base
<1>6. \A g : FoldsLeft(g, n, Readers, base, Op)
         <=> /\ g[{}] = base
             /\ \A s \in (SUBSET (1 .. n)) \ {{}} :
                  g[s \ {Max(s)}] \in Readers
                     => g[s] = Read(g[s \ {Max(s)}], w[Max(s)])
  BY <1>5 DEF FoldsLeft
<1>7. \E g : g = Iter(g)
  <2> HIDE DEF Op
  <2>1. PICK g : g = [s \in SUBSET (1 .. n) |-> g[s]] /\ FoldsLeft(g, n, Readers, base, Op)
    BY <1>2, <1>3, <1>4, FoldLeftExists
  <2>2. \A s \in SUBSET (1 .. n) : g[s] \in Readers
    BY <1>2, <1>3, <1>4, <2>1, FoldLeftIn
  <2>3. \A s \in (SUBSET (1 .. n)) \ {{}} : g[s] = Read(g[s \ {Max(s)}], w[Max(s)])
    BY <1>6, <2>1, <2>2
  <2>4. g[{}] = base
    BY <2>1 DEF FoldsLeft
  <2>5. g = Iter(g)
    BY <1>2, <2>1, <2>3, <2>4
  <2>6. QED
    BY <2>5
<1>8. iter = Iter(iter)
  <2> HIDE DEF Iter
  <2>1. QED
    BY <1>7
<1> HIDE DEF iter
<1>9. FoldsLeft(iter, n, Readers, base, Op)
  <2>1. iter[{}] = base
    BY <1>8
  <2>2. \A s \in (SUBSET (1 .. n)) \ {{}} : iter[s] = Read(iter[s \ {Max(s)}], w[Max(s)])
    BY <1>2, <1>8
  <2>3. QED
    BY <1>6, <2>1, <2>2
<1>10. PICK run : RunsLeft(run, n, Readers, base, Op) /\ run[n] = iter[1 .. n]
  <2> HIDE DEF Op, Iter
  <2>1. QED
    BY <1>2, <1>3, <1>4, <1>9, FoldLeftRun
<1>11. \A m \in 0 .. n - 1 : run[m + 1] = Read(run[m], w[m + 1])
  <2> TAKE m \in 0 .. n - 1
  <2>1. m + 1 \in 1 .. n /\ m \in 0 .. n
    BY <1>2
  <2>2. QED
    BY <1>10, <2>1 DEF RunsLeft
<1>12. Runs(run, url)
  BY <1>10, <1>11 DEF RunsLeft, Runs, w, n, base
<1>13. Loop(url) = run[Len(InMemory(url))]
  BY <1>1, <1>2, <1>10 DEF w, n
<1>14. QED
  BY <1>12, <1>13

-----------------------------------------------------------------------------
(* What the URL means *)

LEMMA FirstOfIs ==
  ASSUME NEW T, T \subseteq Nat, NEW default
  PROVE  IF T = {} THEN FirstOf(T, default) = default
         ELSE FirstOf(T, default) \in T /\ \A n \in T : FirstOf(T, default) <= n
<1>1. CASE T # {}
  <2>1. PICK x \in T : \A y \in T : x <= y
    BY <1>1, LeastOf
  <2>2. QED
    BY <1>1, <2>1 DEF FirstOf, Min
<1>2. QED
  BY <1>1 DEF FirstOf

(* Where the landmarks of a URL are: the first end, a colon before it, a   *)
(* slash behind the server.                                                *)
LEMMA QueryIs ==
  ASSUME NEW url \in Seq(Int)
  PROVE  /\ QueryAt(url) \in 1 .. Len(url) + 1
         /\ QueryAt(url) <= Len(url) => url[QueryAt(url)] \in Ends
         /\ \A m \in 1 .. Len(url) : m < QueryAt(url) => url[m] \notin Ends
<1> DEFINE T == {m \in DOMAIN url : url[m] \in Ends}
           len == Len(url)
<1>1. len \in Nat /\ DOMAIN url = 1 .. len
  BY LenProperties
<1>2. T \subseteq Nat /\ T \subseteq 1 .. len
  BY <1>1
<1>3. IF T = {} THEN FirstOf(T, len + 1) = len + 1
      ELSE FirstOf(T, len + 1) \in T /\ \A m \in T : FirstOf(T, len + 1) <= m
  <2> HIDE DEF T, len
  <2>1. QED
    BY <1>2, FirstOfIs
<1>4. QueryAt(url) = FirstOf(T, len + 1)
  BY DEF QueryAt
<1> DEFINE q == QueryAt(url)
<1> HIDE DEF len
<1>5. q \in 1 .. len + 1
  BY <1>1, <1>2, <1>3, <1>4
<1>6. q <= len => url[q] \in Ends
  BY <1>1, <1>3, <1>4
<1>7. ASSUME NEW m \in 1 .. len, m < q
      PROVE  url[m] \notin Ends
  <2>1. m \notin T
    <3> HIDE DEF T
    <3>1. QED
      BY <1>1, <1>3, <1>4, <1>5, <1>7
  <2>2. QED
    BY <1>1, <2>1
<1>8. QED
  BY <1>5, <1>6, <1>7 DEF len

LEMMA ColonIs ==
  ASSUME NEW url \in Seq(Int)
  PROVE  /\ ColonAt(url) \in 1 .. Len(url) + 1
         /\ ColonAt(url) < QueryAt(url) => url[ColonAt(url)] = Colon
         /\ \A m \in 1 .. Len(url) : m < ColonAt(url) /\ m < QueryAt(url) => url[m] # Colon
<1> DEFINE T == {m \in DOMAIN url : url[m] = Colon}
           len == Len(url)
           q == QueryAt(url)
<1>1. len \in Nat /\ DOMAIN url = 1 .. len /\ q \in 1 .. len + 1
  BY LenProperties, QueryIs
<1>2. T \subseteq Nat /\ T \subseteq 1 .. len
  BY <1>1
<1>3. IF T = {} THEN FirstOf(T, q) = q
      ELSE FirstOf(T, q) \in T /\ \A m \in T : FirstOf(T, q) <= m
  <2> HIDE DEF T, q
  <2>1. QED
    BY <1>2, FirstOfIs
<1>4. ColonAt(url) = FirstOf(T, q)
  BY DEF ColonAt
<1> DEFINE c == ColonAt(url)
<1> HIDE DEF len, q
<1>5. c \in 1 .. len + 1
  BY <1>1, <1>2, <1>3, <1>4
<1>6. c < q => url[c] = Colon
  BY <1>1, <1>3, <1>4
<1>7. ASSUME NEW m \in 1 .. len, m < c, m < q
      PROVE  url[m] # Colon
  <2>1. m \notin T
    <3> HIDE DEF T
    <3>1. QED
      BY <1>1, <1>3, <1>4, <1>5, <1>7
  <2>2. QED
    BY <1>1, <2>1
<1>8. QED
  BY <1>5, <1>6, <1>7 DEF len, q

LEMMA SlashIs ==
  ASSUME NEW url \in Seq(Int), SlashAt(url) < QueryAt(url)
  PROVE  /\ SlashAt(url) \in ServerAt(url) .. Len(url)
         /\ url[SlashAt(url)] = Slash
         /\ \A m \in ServerAt(url) .. Len(url) : m < SlashAt(url) => url[m] # Slash
<1> DEFINE len == Len(url)
           q == QueryAt(url)
           from == ServerAt(url)
           T == {m \in from .. len : url[m] = Slash}
<1>1. len \in Nat /\ q \in Nat /\ from \in Nat
  BY LenProperties, QueryIs, ColonIs DEF ServerAt
<1> HIDE DEF from, len, q
<1>2. T \subseteq Nat /\ T \subseteq from .. len
  BY <1>1
<1>3. IF T = {} THEN FirstOf(T, q) = q
      ELSE FirstOf(T, q) \in T /\ \A m \in T : FirstOf(T, q) <= m
  <2> HIDE DEF T
  <2>1. QED
    BY <1>2, FirstOfIs
<1>4. SlashAt(url) = FirstOf(T, q)
  BY DEF SlashAt, from, len, q
<1> DEFINE sl == SlashAt(url)
<1>5. sl < q
  BY DEF q
<1>6. sl \in T /\ \A m \in T : sl <= m
  BY <1>1, <1>3, <1>4, <1>5
<1>7. sl \in from .. len /\ url[sl] = Slash
  BY <1>6
<1>8. \A m \in from .. len : m < sl => url[m] # Slash
  BY <1>1, <1>2, <1>6
<1>9. QED
  BY <1>7, <1>8 DEF from, len

(* What the loop reads at the landmarks and between them.                  *)
LEMMA CharsRead ==
  ASSUME NEW url \in Seq(Int)
  PROVE  /\ QueryAt(url) <= Len(url) => InMemory(url)[QueryAt(url)] \in Ends
         /\ \A m \in 1 .. Len(InMemory(url)) :
              /\ m < QueryAt(url) \/ QueryAt(url) > Len(url) => InMemory(url)[m] \notin Ends
              /\ m < ColonAt(url) /\ (m < QueryAt(url) \/ QueryAt(url) > Len(url))
                    => InMemory(url)[m] # Colon
<1> DEFINE len == Len(url)
           q == QueryAt(url)
           c == ColonAt(url)
           w == InMemory(url)
           n == Len(w)
<1>1. /\ len \in Nat /\ n \in Nat /\ n <= len + 1
      /\ \A m \in 1 .. len : w[m] = url[m]
      /\ n = len + 1 => w[len + 1] = NUL
  BY InMemoryIs
<1>2. /\ q \in 1 .. len + 1 /\ (q <= len => url[q] \in Ends)
      /\ \A m \in 1 .. len : m < q => url[m] \notin Ends
  BY QueryIs
<1>3. \A m \in 1 .. len : m < c /\ m < q => url[m] # Colon
  BY ColonIs
<1>4. NUL \notin Ends /\ NUL # Colon
  BY CharsAssumption
<1> HIDE DEF len, q, c, w, n
<1>5. q <= len => w[q] \in Ends
  BY <1>1, <1>2
<1>6. ASSUME NEW m \in 1 .. n, m < q \/ q > len
      PROVE  w[m] \notin Ends /\ (m < c => w[m] # Colon)
  <2>1. CASE m <= len
    <3>1. m \in 1 .. len /\ m < q
      BY <1>1, <1>2, <1>6, <2>1
    <3>2. QED
      BY <1>1, <1>2, <1>3, <3>1
  <2>2. CASE m > len
    <3>1. m = len + 1 /\ n = len + 1
      BY <1>1, <2>2
    <3>2. QED
      BY <1>1, <1>4, <3>1
  <2>3. QED
    BY <1>1, <2>1, <2>2
<1>7. QED
  BY <1>5, <1>6 DEF len, q, c, w, n

LEMMA RelativeLoop ==
  ASSUME NEW url \in Seq(Int), Relative(url)
  PROVE  Loop(url) = IF QueryAt(url) <= Len(url) THEN Reader("OK", 0, QueryAt(url) - 1)
                     ELSE Reader("PATH_OR_SCHEME", 0, Len(InMemory(url)))
<1> DEFINE len == Len(url)
           q == QueryAt(url)
           w == InMemory(url)
           n == Len(w)
<1>1. PICK run : Runs(run, url) /\ Loop(url) = run[n]
  BY LoopRuns
<1>2. /\ len \in Nat /\ n \in Nat /\ n <= len + 1 /\ (n = 0 => len = 0)
      /\ n # 0 => n = len + 1
  BY InMemoryIs, EmptySeq
<1>3. /\ q \in 1 .. len + 1 /\ (q <= len => w[q] \in Ends)
      /\ \A m \in 1 .. n : m < q \/ q > len => w[m] \notin Ends /\ w[m] # Colon
  <2>1. q <= ColonAt(url) /\ ColonAt(url) \in 1 .. len + 1 /\ q \in 1 .. len + 1
    BY QueryIs, ColonIs DEF Relative
  <2>2. \A m \in 1 .. n : m < q \/ q > len =>
            \/ m < ColonAt(url)
            \/ m = len + 1 /\ q > len
    BY <1>2, <2>1
  <2>3. n = len + 1 => w[len + 1] = NUL /\ NUL # Colon
    BY <1>2, InMemoryIs, CharsAssumption
  <2>4. QED
    BY <2>1, <2>2, <2>3, CharsRead
<1>4. /\ run[0] = Reader("PATH_OR_SCHEME", 0, 0)
      /\ \A m \in 0 .. n - 1 : run[m + 1] = Read(run[m], w[m + 1])
  BY <1>1 DEF Runs
<1> HIDE DEF len, q, w, n
<1> DEFINE At(m) == IF m < q \/ q > len THEN Reader("PATH_OR_SCHEME", 0, m)
                                        ELSE Reader("OK", 0, q - 1)
           Good == [m \in 0 .. n |-> {At(m)}]
<1>5. run[0] \in Good[0]
  BY <1>2, <1>3, <1>4
<1>6. ASSUME NEW m \in 0 .. n - 1, run[m] \in Good[m]
      PROVE  run[m + 1] \in Good[m + 1]
  <2>1. m + 1 \in 1 .. n /\ m \in 0 .. n /\ m + 1 \in 0 .. n
    BY <1>2
  <2>2. run[m] = At(m) /\ run[m + 1] = Read(run[m], w[m + 1])
    BY <1>4, <1>6, <2>1
  <2>3. CASE m + 1 < q \/ q > len
    <3>1. At(m) = Reader("PATH_OR_SCHEME", 0, m) /\ At(m + 1) = Reader("PATH_OR_SCHEME", 0, m + 1)
      BY <1>2, <1>3, <2>3
    <3>2. w[m + 1] \notin Ends /\ w[m + 1] # Colon
      BY <1>3, <2>1, <2>3
    <3>3. run[m + 1] = At(m + 1)
      <4> HIDE DEF At
      <4>1. QED
        BY <2>2, <3>1, <3>2, ReadIs
    <3>4. QED
      BY <2>1, <3>3
  <2>4. CASE m + 1 = q /\ q <= len
    <3>1. At(m) = Reader("PATH_OR_SCHEME", 0, m) /\ At(m + 1) = Reader("OK", 0, m)
      BY <1>2, <1>3, <2>4
    <3>2. w[m + 1] \in Ends
      BY <1>3, <2>4
    <3>3. run[m + 1] = At(m + 1)
      <4> HIDE DEF At
      <4>1. QED
        BY <2>2, <3>1, <3>2, ReadIs
    <3>4. QED
      BY <2>1, <3>3
  <2>5. CASE m + 1 > q /\ q <= len
    <3>1. At(m) = Reader("OK", 0, q - 1) /\ At(m + 1) = Reader("OK", 0, q - 1)
      BY <1>2, <1>3, <2>5
    <3>2. run[m + 1] = At(m + 1)
      <4> HIDE DEF At
      <4>1. QED
        BY <2>2, <3>1, ReadIs
    <3>3. QED
      BY <2>1, <3>2
  <2>6. QED
    BY <1>2, <1>3, <2>3, <2>4, <2>5
<1>7. \A m \in 0 .. n : run[m] \in Good[m]
  <2> HIDE DEF Good
  <2>1. QED
    BY <1>2, <1>5, <1>6, RunInduction
<1>8. run[n] = At(n)
  BY <1>2, <1>7
<1>9. At(n) = IF q <= len THEN Reader("OK", 0, q - 1) ELSE Reader("PATH_OR_SCHEME", 0, n)
  BY <1>2, <1>3
<1>10. QED
  <2> HIDE DEF At
  <2>1. QED
    BY <1>1, <1>8, <1>9 DEF n, q, len, w

LEMMA AbsoluteIs ==
  ASSUME NEW url \in Seq(Int), Absolute(url)
  PROVE  LET c == ColonAt(url)
             sl == SlashAt(url)
             w == InMemory(url)
         IN /\ c \in 1 .. Len(url) /\ sl \in 1 .. Len(url)
            /\ c + 3 < sl /\ sl < QueryAt(url) /\ Len(w) = Len(url) + 1
            /\ w[c] = Colon /\ w[c + 1] = Slash /\ w[c + 2] = Slash /\ w[sl] = Slash
            /\ \A m \in 1 .. Len(w) : c + 3 <= m /\ m < sl => w[m] # Slash
<1> DEFINE len == Len(url)
           c == ColonAt(url)
           sl == SlashAt(url)
           q == QueryAt(url)
           w == InMemory(url)
<1>1. /\ len \in Nat /\ \A m \in 1 .. len : w[m] = url[m]
      /\ Len(w) = IF url = <<>> THEN 0 ELSE len + 1
  BY InMemoryIs
<1>2. c + 3 < sl /\ sl < q /\ SubSeq(url, c, c + 2) = <<Colon, Slash, Slash>>
  <2>1. /\ c + 3 < sl /\ sl < q
        /\ SubSeq(url, c, (c + 3) - 1) = <<Colon, Slash, Slash>> /\ c \in Int
    BY ColonIs DEF Absolute, ServerAt
  <2>2. (c + 3) - 1 = c + 2
    BY <2>1
  <2>3. QED
    BY <2>1, <2>2
<1>3. /\ c \in 1 .. len + 1 /\ q \in 1 .. len + 1
      /\ sl \in c + 3 .. len /\ url[sl] = Slash
      /\ \A m \in c + 3 .. len : m < sl => url[m] # Slash
  BY <1>2, QueryIs, ColonIs, SlashIs DEF ServerAt
<1>4. len # 0 => url # <<>>
  BY EmptySeq
<1> HIDE DEF len, c, sl, q, w
<1>5. c \in 1 .. len /\ sl \in 1 .. len /\ c + 2 \in 1 .. len /\ len # 0
  BY <1>1, <1>2, <1>3
<1>6. url[c] = Colon /\ url[c + 1] = Slash /\ url[c + 2] = Slash
  <2>1. c \in 1 .. len + 1 /\ c + 2 \in c - 1 .. len
    BY <1>1, <1>5
  <2>2. \A i \in 1 .. (c + 2) - c + 1 : SubSeq(url, c, c + 2)[i] = url[c + i - 1]
    <3>1. \A i \in 1 .. len : url[i] \in Int
      BY ElementOfSeq DEF len
    <3>2. \A i \in c .. c + 2 : i \in 1 .. len
      BY <1>1, <1>5
    <3>3. c \in Int /\ c + 2 \in Int /\ \A i \in c .. c + 2 : url[i] \in Int
      BY <1>5, <3>1, <3>2
    <3> DEFINE d == c + 2
    <3> HIDE DEF d
    <3>4. \A i \in 1 .. d - c + 1 : SubSeq(url, c, d)[i] = url[c + i - 1]
      BY <3>3, SubSeqProperties DEF d
    <3>5. QED
      BY <3>4 DEF d
  <2>3. /\ 1 \in 1 .. (c + 2) - c + 1 /\ 2 \in 1 .. (c + 2) - c + 1
        /\ 3 \in 1 .. (c + 2) - c + 1
        /\ c + 1 - 1 = c /\ c + 2 - 1 = c + 1 /\ c + 3 - 1 = c + 2
    BY <1>5
  <2>4. <<Colon, Slash, Slash>>[1] = Colon /\ <<Colon, Slash, Slash>>[2] = Slash
        /\ <<Colon, Slash, Slash>>[3] = Slash
    OBVIOUS
  <2>5. /\ SubSeq(url, c, c + 2)[1] = url[c + 1 - 1]
        /\ SubSeq(url, c, c + 2)[2] = url[c + 2 - 1]
        /\ SubSeq(url, c, c + 2)[3] = url[c + 3 - 1]
    BY <2>2, <2>3
  <2>6. QED
    BY <1>2, <2>3, <2>4, <2>5
<1>7. w[c] = Colon /\ w[c + 1] = Slash /\ w[c + 2] = Slash /\ w[sl] = Slash
  <2>1. c + 1 \in 1 .. len
    BY <1>1, <1>5
  <2>2. QED
    BY <1>1, <1>3, <1>5, <1>6, <2>1
<1>8. Len(w) = len + 1
  BY <1>1, <1>4, <1>5
<1>9. \A m \in 1 .. len + 1 : c + 3 <= m /\ m < sl => w[m] # Slash
  <2> TAKE m \in 1 .. len + 1
  <2>1. c + 3 <= m /\ m < sl => m \in 1 .. len /\ m \in c + 3 .. len
    BY <1>1, <1>5
  <2>2. QED
    BY <1>1, <1>3, <2>1
<1>10. QED
  BY <1>2, <1>5, <1>7, <1>8, <1>9 DEF len, c, sl, q, w

LEMMA AbsoluteLoop ==
  ASSUME NEW url \in Seq(Int), Absolute(url)
  PROVE  Loop(url) = IF QueryAt(url) <= Len(url)
                     THEN Reader("OK", SlashAt(url) - 1, QueryAt(url) - 1)
                     ELSE Reader("PATH", SlashAt(url) - 1, Len(url) + 1)
<1> DEFINE len == Len(url)
           q == QueryAt(url)
           c == ColonAt(url)
           sl == SlashAt(url)
           w == InMemory(url)
           n == len + 1
<1>1. PICK run : Runs(run, url) /\ Loop(url) = run[Len(w)]
  BY LoopRuns
<1>2. /\ len \in Nat /\ Len(w) = n
      /\ c \in 1 .. len /\ sl \in 1 .. len /\ c + 3 < sl /\ sl < q
      /\ w[c] = Colon /\ w[c + 1] = Slash /\ w[c + 2] = Slash /\ w[sl] = Slash
      /\ \A m \in 1 .. n : c + 3 <= m /\ m < sl => w[m] # Slash
  BY InMemoryIs, AbsoluteIs
<1>3. /\ q \in 1 .. len + 1 /\ (q <= len => w[q] \in Ends)
      /\ \A m \in 1 .. n :
           /\ m < q \/ q > len => w[m] \notin Ends
           /\ m < c /\ (m < q \/ q > len) => w[m] # Colon
  BY <1>2, QueryIs, CharsRead
<1>4. /\ run[0] = Reader("PATH_OR_SCHEME", 0, 0)
      /\ \A m \in 0 .. n - 1 : run[m + 1] = Read(run[m], w[m + 1])
  BY <1>1, <1>2 DEF Runs
<1>5. Colon \notin Ends
  BY CharsAssumption
<1> HIDE DEF len, q, c, sl, w
<1>6. n \in Nat /\ n >= 1
  BY <1>2
<1> DEFINE At(m) ==
      IF m < c THEN Reader("PATH_OR_SCHEME", 0, m)
      ELSE IF m = c THEN Reader("SCHEME_OR_PORT", 0, m)
      ELSE IF m = c + 1 THEN Reader("FIRST_SLASH", 0, m)
      ELSE IF m = c + 2 THEN Reader("SECOND_SLASH", 0, m)
      ELSE IF m < sl THEN Reader("SERVER", 0, m)
      ELSE IF m < q \/ q > len THEN Reader("PATH", sl - 1, m)
      ELSE Reader("OK", sl - 1, q - 1)
           Good == [m \in 0 .. n |-> {At(m)}]
<1>7. run[0] \in Good[0]
  BY <1>2, <1>4
<1> HIDE DEF n
<1>8. ASSUME NEW m \in 0 .. n - 1, run[m] = At(m)
      PROVE  run[m + 1] = At(m + 1)
  <2>1. m \in Nat /\ m + 1 \in 1 .. n /\ m + 1 <= len + 1
    BY <1>2, <1>6 DEF n
  <2>2. run[m + 1] = Read(At(m), w[m + 1])
    BY <1>4, <1>8
  <2>3. CASE m + 1 < c
    <3>1. At(m) = Reader("PATH_OR_SCHEME", 0, m) /\ At(m + 1) = Reader("PATH_OR_SCHEME", 0, m + 1)
      BY <1>2, <2>1, <2>3
    <3>2. m + 1 < q
      BY <1>2, <1>3, <2>1, <2>3
    <3>3. w[m + 1] \notin Ends /\ w[m + 1] # Colon
      BY <1>3, <2>1, <2>3, <3>2
    <3> HIDE DEF At
    <3>4. QED
      BY <2>2, <3>1, <3>3, ReadIs
  <2>4. CASE m + 1 = c
    <3>1. At(m) = Reader("PATH_OR_SCHEME", 0, m) /\ At(m + 1) = Reader("SCHEME_OR_PORT", 0, m + 1)
      BY <1>2, <2>1, <2>4
    <3> HIDE DEF At
    <3>2. QED
      BY <1>2, <1>5, <2>2, <2>4, <3>1, ReadIs
  <2>5. CASE m = c
    <3>1. At(m) = Reader("SCHEME_OR_PORT", 0, m) /\ At(m + 1) = Reader("FIRST_SLASH", 0, m + 1)
      BY <1>2, <2>1, <2>5
    <3> HIDE DEF At
    <3>2. QED
      BY <1>2, <2>2, <2>5, <3>1, ReadIs
  <2>6. CASE m = c + 1
    <3>1. At(m) = Reader("FIRST_SLASH", 0, m) /\ At(m + 1) = Reader("SECOND_SLASH", 0, m + 1)
      BY <1>2, <2>1, <2>6
    <3>2. m + 1 = c + 2
      BY <1>2, <2>6
    <3> HIDE DEF At
    <3>3. QED
      BY <1>2, <2>2, <3>1, <3>2, ReadIs
  <2>7. CASE m = c + 2
    <3>1. At(m) = Reader("SECOND_SLASH", 0, m) /\ At(m + 1) = Reader("SERVER", 0, m + 1)
      BY <1>2, <2>1, <2>7
    <3> HIDE DEF At
    <3>2. QED
      BY <2>2, <3>1, ReadIs
  <2>8. CASE c + 3 <= m /\ m + 1 < sl
    <3>1. At(m) = Reader("SERVER", 0, m) /\ At(m + 1) = Reader("SERVER", 0, m + 1)
      BY <1>2, <2>1, <2>8
    <3>2. w[m + 1] # Slash
      BY <1>2, <2>1, <2>8
    <3> HIDE DEF At
    <3>3. QED
      BY <2>2, <3>1, <3>2, ReadIs
  <2>9. CASE m + 1 = sl
    <3>1. /\ At(m) = Reader("SERVER", 0, m) /\ At(m + 1) = Reader("PATH", sl - 1, m + 1)
          /\ sl - 1 = m
      BY <1>2, <1>3, <2>1, <2>9
    <3> HIDE DEF At
    <3>2. QED
      BY <1>2, <2>2, <2>9, <3>1, ReadIs
  <2>10. CASE sl <= m /\ (m + 1 < q \/ q > len)
    <3>1. At(m) = Reader("PATH", sl - 1, m) /\ At(m + 1) = Reader("PATH", sl - 1, m + 1)
      BY <1>2, <1>3, <2>1, <2>10
    <3>2. w[m + 1] \notin Ends
      BY <1>3, <2>1, <2>10
    <3> HIDE DEF At
    <3>3. QED
      BY <2>2, <3>1, <3>2, ReadIs
  <2>11. CASE m + 1 = q /\ q <= len
    <3>1. At(m) = Reader("PATH", sl - 1, m) /\ At(m + 1) = Reader("OK", sl - 1, m)
      <4>1. /\ m >= sl /\ m < q /\ ~(m + 1 < sl) /\ ~(m + 1 < q) /\ ~(q > len)
            /\ m > c + 2 /\ m + 1 > c + 2 /\ q - 1 = m
        BY <1>2, <1>3, <2>1, <2>11
      <4>2. At(m) = Reader("PATH", sl - 1, m)
        BY <1>2, <2>1, <4>1
      <4>3. At(m + 1) = Reader("OK", sl - 1, q - 1)
        BY <1>2, <2>1, <4>1
      <4>4. QED
        BY <4>1, <4>2, <4>3
    <3>2. w[m + 1] \in Ends
      BY <1>3, <2>11
    <3> HIDE DEF At
    <3>3. QED
      BY <2>2, <3>1, <3>2, ReadIs
  <2>12. CASE m >= q /\ q <= len
    <3>1. At(m) = Reader("OK", sl - 1, q - 1) /\ At(m + 1) = Reader("OK", sl - 1, q - 1)
      BY <1>2, <1>3, <2>1, <2>12
    <3> HIDE DEF At
    <3>2. QED
      BY <2>2, <3>1, ReadIs
  <2> HIDE DEF At
  <2>13. \/ m + 1 < c \/ m + 1 = c \/ m = c \/ m = c + 1 \/ m = c + 2
         \/ c + 3 <= m /\ m + 1 < sl
         \/ m + 1 = sl \/ sl <= m
    BY <1>2, <2>1
  <2>14. sl <= m => \/ m + 1 < q \/ q > len
                    \/ m + 1 = q /\ q <= len
                    \/ m >= q /\ q <= len
    BY <1>2, <1>3, <2>1
  <2>15. QED
    BY <2>3, <2>4, <2>5, <2>6, <2>7, <2>8, <2>9, <2>10, <2>11, <2>12, <2>13, <2>14
<1>9. \A m \in 0 .. n - 1 : run[m] \in Good[m] => run[m + 1] \in Good[m + 1]
  <2> HIDE DEF At
  <2> TAKE m \in 0 .. n - 1
  <2>1. m \in 0 .. n /\ m + 1 \in 0 .. n
    BY <1>6
  <2>2. QED
    BY <1>8, <2>1
<1>10. \A m \in 0 .. n : run[m] \in Good[m]
  <2> HIDE DEF Good
  <2>1. QED
    BY <1>6, <1>7, <1>9, RunInduction
<1>11. run[n] = At(n)
  <2> HIDE DEF At
  <2>1. n \in 0 .. n
    BY <1>6
  <2>2. QED
    BY <1>10, <2>1
<1>12. At(n) = IF q <= len THEN Reader("OK", sl - 1, q - 1) ELSE Reader("PATH", sl - 1, n)
  BY <1>2, <1>3 DEF n
<1>13. QED
  <2> HIDE DEF At
  <2>1. QED
    BY <1>1, <1>2, <1>11, <1>12 DEF n, q, len, w, sl

(* The slash that ends a port, or any index behind the zero if none does.  *)
EndsPort(url, p) ==
  /\ p \in Nat /\ ColonAt(url) + 2 <= p
  /\ InMemory(url)[ColonAt(url) + 1] # Slash
  /\ \A m \in 1 .. Len(InMemory(url)) :
        ColonAt(url) + 2 <= m /\ m < p => InMemory(url)[m] # Slash
  /\ p <= Len(InMemory(url)) => InMemory(url)[p] = Slash /\ p < QueryAt(url)

LEMMA PortLoop ==
  ASSUME NEW url \in Seq(Int), NEW p, ColonAt(url) < QueryAt(url), EndsPort(url, p)
  PROVE  Loop(url) = IF p > Len(url) + 1 THEN Reader("PORT", 0, Len(url) + 1)
                     ELSE IF QueryAt(url) <= Len(url)
                     THEN Reader("OK", p, QueryAt(url) - 1)
                     ELSE Reader("PATH", p, Len(url) + 1)
<1> DEFINE len == Len(url)
           q == QueryAt(url)
           c == ColonAt(url)
           w == InMemory(url)
           n == len + 1
<1>1. PICK run : Runs(run, url) /\ Loop(url) = run[Len(w)]
  BY LoopRuns
<1>2. /\ len \in Nat /\ Len(w) = n /\ \A m \in 1 .. len : w[m] = url[m]
      /\ q \in 1 .. len + 1 /\ c \in 1 .. len /\ c < q /\ w[c] = Colon
  <2>1. /\ len \in Nat /\ \A m \in 1 .. len : w[m] = url[m]
        /\ Len(w) = IF url = <<>> THEN 0 ELSE len + 1
    BY InMemoryIs
  <2>2. q \in 1 .. len + 1 /\ c \in 1 .. len + 1 /\ c < q /\ url[c] = Colon
    BY QueryIs, ColonIs
  <2>3. len # 0 => url # <<>>
    BY EmptySeq
  <2> HIDE DEF len, q, c, w
  <2>4. c \in 1 .. len /\ len # 0
    BY <2>1, <2>2
  <2>5. QED
    BY <2>1, <2>2, <2>3, <2>4
<1>3. /\ q <= len => w[q] \in Ends
      /\ \A m \in 1 .. n :
           /\ m < q \/ q > len => w[m] \notin Ends
           /\ m < c /\ (m < q \/ q > len) => w[m] # Colon
  BY <1>2, CharsRead
<1>4. /\ run[0] = Reader("PATH_OR_SCHEME", 0, 0)
      /\ \A m \in 0 .. n - 1 : run[m + 1] = Read(run[m], w[m + 1])
  BY <1>1, <1>2 DEF Runs
<1>5. Colon \notin Ends
  BY CharsAssumption
<1>6. /\ p \in Nat /\ c + 2 <= p /\ w[c + 1] # Slash
      /\ \A m \in 1 .. n : c + 2 <= m /\ m < p => w[m] # Slash
      /\ p <= n => w[p] = Slash /\ p < q
  BY <1>2 DEF EndsPort
<1> HIDE DEF len, q, c, w
<1>7. n \in Nat /\ n >= 1
  BY <1>2
<1> DEFINE At(m) ==
      IF m < c THEN Reader("PATH_OR_SCHEME", 0, m)
      ELSE IF m = c THEN Reader("SCHEME_OR_PORT", 0, m)
      ELSE IF m < p THEN Reader("PORT", 0, m)
      ELSE IF m < q \/ q > len THEN Reader("PATH", p, m)
      ELSE Reader("OK", p, q - 1)
           Good == [m \in 0 .. n |-> {At(m)}]
<1>8. run[0] \in Good[0]
  BY <1>2, <1>4
<1> HIDE DEF n
<1>9. ASSUME NEW m \in 0 .. n - 1, run[m] = At(m)
      PROVE  run[m + 1] = At(m + 1)
  <2>1. m \in Nat /\ m + 1 \in 1 .. n /\ m + 1 <= len + 1
    BY <1>2, <1>7 DEF n
  <2>2. run[m + 1] = Read(At(m), w[m + 1])
    BY <1>4, <1>9
  <2>3. CASE m + 1 < c
    <3>1. At(m) = Reader("PATH_OR_SCHEME", 0, m) /\ At(m + 1) = Reader("PATH_OR_SCHEME", 0, m + 1)
      BY <1>2, <2>1, <2>3
    <3>2. m + 1 < q
      BY <1>2, <2>1, <2>3
    <3>3. w[m + 1] \notin Ends /\ w[m + 1] # Colon
      BY <1>3, <2>1, <2>3, <3>2
    <3> HIDE DEF At
    <3>4. QED
      BY <2>2, <3>1, <3>3, ReadIs
  <2>4. CASE m + 1 = c
    <3>1. At(m) = Reader("PATH_OR_SCHEME", 0, m) /\ At(m + 1) = Reader("SCHEME_OR_PORT", 0, m + 1)
      BY <1>2, <2>1, <2>4
    <3> HIDE DEF At
    <3>2. QED
      BY <1>2, <1>5, <2>2, <2>4, <3>1, ReadIs
  <2>5. CASE m = c
    <3>1. At(m) = Reader("SCHEME_OR_PORT", 0, m) /\ At(m + 1) = Reader("PORT", 0, m + 1)
      BY <1>2, <1>6, <2>1, <2>5
    <3> HIDE DEF At
    <3>2. QED
      BY <1>6, <2>2, <2>5, <3>1, ReadIs
  <2>6. CASE c + 1 <= m /\ m + 1 < p
    <3>1. At(m) = Reader("PORT", 0, m) /\ At(m + 1) = Reader("PORT", 0, m + 1)
      BY <1>2, <1>6, <2>1, <2>6
    <3>2. w[m + 1] # Slash
      BY <1>2, <1>6, <2>1, <2>6
    <3> HIDE DEF At
    <3>3. QED
      BY <2>2, <3>1, <3>2, ReadIs
  <2>7. CASE m + 1 = p
    <3>1. /\ p < q /\ w[p] = Slash
          /\ ~(m < c) /\ m # c /\ m < p
          /\ ~(m + 1 < c) /\ m + 1 # c /\ ~(m + 1 < p) /\ m + 1 < q
      <4>1. p <= n /\ c + 2 <= p /\ c \in Nat
        BY <1>2, <1>6, <2>1, <2>7
      <4>2. p < q /\ w[p] = Slash
        BY <1>6, <4>1
      <4>3. QED
        BY <1>2, <2>1, <2>7, <4>1, <4>2
    <3>2. At(m) = Reader("PORT", 0, m) /\ At(m + 1) = Reader("PATH", m + 1, m + 1)
      BY <2>7, <3>1
    <3> HIDE DEF At
    <3>3. QED
      BY <2>2, <2>7, <3>1, <3>2, ReadIs
  <2>8. CASE p <= m /\ (m + 1 < q \/ q > len)
    <3>1. At(m) = Reader("PATH", p, m) /\ At(m + 1) = Reader("PATH", p, m + 1)
      BY <1>2, <1>6, <2>1, <2>8
    <3>2. w[m + 1] \notin Ends
      BY <1>3, <2>1, <2>8
    <3> HIDE DEF At
    <3>3. QED
      BY <1>6, <2>2, <3>1, <3>2, ReadIs
  <2>9. CASE p <= m /\ m + 1 = q /\ q <= len
    <3>1. ~(m < c) /\ m # c /\ ~(m < p) /\ m < q /\ q - 1 = m
      BY <1>2, <1>6, <2>1, <2>9
    <3>2. ~(m + 1 < c) /\ m + 1 # c /\ ~(m + 1 < p) /\ ~(m + 1 < q) /\ ~(q > len)
      BY <1>2, <1>6, <2>1, <2>9
    <3>3. At(m) = Reader("PATH", p, m)
      BY <3>1
    <3>4. At(m + 1) = Reader("OK", p, m)
      BY <3>1, <3>2
    <3>5. w[m + 1] \in Ends
      BY <1>3, <2>9
    <3> HIDE DEF At
    <3>6. QED
      BY <1>6, <2>1, <2>2, <3>3, <3>4, <3>5, ReadIs
  <2>10. CASE p <= m /\ m >= q /\ q <= len
    <3>1. At(m) = Reader("OK", p, q - 1) /\ At(m + 1) = Reader("OK", p, q - 1)
      BY <1>2, <1>6, <2>1, <2>10
    <3> HIDE DEF At
    <3>2. QED
      BY <1>2, <1>6, <2>2, <3>1, ReadIs
  <2> HIDE DEF At
  <2>11. \/ m + 1 < c \/ m + 1 = c \/ m = c
         \/ c + 1 <= m /\ m + 1 < p
         \/ m + 1 = p \/ p <= m
    <3>1. c \in Nat /\ p \in Nat
      BY <1>2, <1>6
    <3>2. QED
      BY <2>1, <3>1
  <2>12. p <= m => \/ m + 1 < q \/ q > len
                   \/ m + 1 = q /\ q <= len
                   \/ m >= q /\ q <= len
    BY <1>2, <1>6, <2>1
  <2>13. QED
    BY <2>3, <2>4, <2>5, <2>6, <2>7, <2>8, <2>9, <2>10, <2>11, <2>12
<1>10. \A m \in 0 .. n - 1 : run[m] \in Good[m] => run[m + 1] \in Good[m + 1]
  <2> HIDE DEF At
  <2> TAKE m \in 0 .. n - 1
  <2>1. m \in 0 .. n /\ m + 1 \in 0 .. n
    BY <1>7
  <2>2. QED
    BY <1>9, <2>1
<1>11. \A m \in 0 .. n : run[m] \in Good[m]
  <2> HIDE DEF Good
  <2>1. QED
    BY <1>7, <1>8, <1>10, RunInduction
<1>12. run[n] = At(n)
  <2> HIDE DEF At
  <2>1. n \in 0 .. n
    BY <1>7
  <2>2. QED
    BY <1>11, <2>1
<1>13. At(n) = IF p > len + 1 THEN Reader("PORT", 0, len + 1)
               ELSE IF q <= len THEN Reader("OK", p, q - 1) ELSE Reader("PATH", p, len + 1)
  <2>1. n = len + 1 /\ ~(n < c) /\ n # c /\ (n < p <=> p > len + 1)
    BY <1>2, <1>6 DEF n
  <2>2. n < q \/ q > len <=> ~(q <= len)
    BY <1>2 DEF n
  <2>3. QED
    BY <2>1, <2>2
<1>14. QED
  <2> HIDE DEF At
  <2>1. QED
    BY <1>1, <1>2, <1>12, <1>13 DEF n, q, len

LEMMA PortedLoop ==
  ASSUME NEW url \in Seq(Int), Ported(url)
  PROVE  /\ PortSlashAt(url) \in 1 .. Len(url) /\ ColonAt(url) < QueryAt(url)
         /\ Loop(url) = IF QueryAt(url) <= Len(url)
                        THEN Reader("OK", PortSlashAt(url), QueryAt(url) - 1)
                        ELSE Reader("PATH", PortSlashAt(url), Len(url) + 1)
<1> DEFINE len == Len(url)
           q == QueryAt(url)
           c == ColonAt(url)
           p == PortSlashAt(url)
           w == InMemory(url)
           T == {m \in c + 2 .. len : url[m] = Slash}
<1>1. /\ len \in Nat /\ q \in 1 .. len + 1 /\ c \in 1 .. len + 1
      /\ p < q /\ url[c + 1] # Slash
  BY LenProperties, QueryIs, ColonIs DEF Ported
<1>2. p = FirstOf(T, q)
  BY DEF PortSlashAt
<1>3. /\ \A m \in 1 .. len : w[m] = url[m]
      /\ Len(w) = IF url = <<>> THEN 0 ELSE len + 1
      /\ url # <<>> => w[len + 1] = NUL
      /\ NUL # Slash
  BY InMemoryIs, CharsAssumption
<1>4. len # 0 => url # <<>>
  BY EmptySeq
<1> HIDE DEF len, q, c, p, w
<1>5. T \subseteq Nat /\ T \subseteq c + 2 .. len
  BY <1>1
<1>6. p \in T /\ \A m \in T : p <= m
  <2>1. IF T = {} THEN FirstOf(T, q) = q
        ELSE FirstOf(T, q) \in T /\ \A m \in T : FirstOf(T, q) <= m
    <3> HIDE DEF T
    <3>1. QED
      BY <1>5, FirstOfIs
  <2> HIDE DEF T
  <2>2. QED
    BY <1>1, <1>2, <2>1
<1>7. p \in c + 2 .. len /\ url[p] = Slash
  BY <1>6
<1>8. p \in 1 .. len /\ c < q /\ c + 1 \in 1 .. len /\ len # 0
  BY <1>1, <1>7
<1>9. \A m \in 1 .. len + 1 : c + 2 <= m /\ m < p => w[m] # Slash
  <2> TAKE m \in 1 .. len + 1
  <2>1. c + 2 <= m /\ m < p => m \in 1 .. len /\ m \in c + 2 .. len /\ ~(p <= m)
    BY <1>1, <1>7
  <2>2. c + 2 <= m /\ m < p => m \notin T
    BY <1>6, <2>1
  <2>3. QED
    BY <1>3, <2>1, <2>2
<1>10. w[c + 1] # Slash /\ w[p] = Slash /\ c + 2 <= p /\ p \in Nat /\ Len(w) = len + 1
  BY <1>1, <1>3, <1>4, <1>7, <1>8
<1>11. EndsPort(url, p)
  <2> HIDE DEF T
  <2>1. QED
    BY <1>1, <1>9, <1>10 DEF EndsPort, len, w, c, q
<1>12. ~(p > len + 1)
  BY <1>1, <1>8
<1>13. Loop(url) = IF p > len + 1 THEN Reader("PORT", 0, len + 1)
                   ELSE IF q <= len THEN Reader("OK", p, q - 1)
                   ELSE Reader("PATH", p, len + 1)
  BY <1>8, <1>11, PortLoop DEF len, q, c
<1>14. QED
  BY <1>8, <1>12, <1>13 DEF len, q, c, p

LEMMA PathlessLoop ==
  ASSUME NEW url \in Seq(Int), Pathless(url)
  PROVE  Loop(url) = Reader("PORT", 0, Len(url) + 1)
<1> DEFINE len == Len(url)
           q == QueryAt(url)
           c == ColonAt(url)
           w == InMemory(url)
<1>1. /\ len \in Nat /\ q \in 1 .. len + 1 /\ c \in 1 .. len + 1 /\ c < q
      /\ \A m \in c + 1 .. len : url[m] # Slash
  BY LenProperties, QueryIs, ColonIs DEF Pathless
<1>2. /\ \A m \in 1 .. len : w[m] = url[m]
      /\ Len(w) = IF url = <<>> THEN 0 ELSE len + 1
      /\ url # <<>> => w[len + 1] = NUL
      /\ NUL # Slash
  BY InMemoryIs, CharsAssumption
<1>3. len # 0 => url # <<>>
  BY EmptySeq
<1> HIDE DEF len, q, c, w
<1>4. len # 0 /\ Len(w) = len + 1 /\ w[len + 1] = NUL
  BY <1>1, <1>2, <1>3
<1>5. \A m \in 1 .. len + 1 : c + 1 <= m => w[m] # Slash
  <2> TAKE m \in 1 .. len + 1
  <2>1. c + 1 <= m => m = len + 1 \/ (m \in 1 .. len /\ m \in c + 1 .. len)
    BY <1>1
  <2>2. QED
    BY <1>1, <1>2, <1>4, <2>1
<1>6. c + 1 \in 1 .. len + 1 /\ c + 2 <= len + 2 /\ len + 2 \in Nat /\ ~(len + 2 <= len + 1)
  BY <1>1
<1>7. w[c + 1] # Slash
  BY <1>1, <1>5, <1>6
<1>8. \A m \in 1 .. len + 1 : c + 2 <= m /\ m < len + 2 => w[m] # Slash
  BY <1>1, <1>5
<1>9. EndsPort(url, len + 2)
  BY <1>4, <1>6, <1>7, <1>8 DEF EndsPort, w, c
<1> DEFINE p == len + 2
<1>10. p > len + 1
  BY <1>1
<1> HIDE DEF p
<1>11. EndsPort(url, p)
  BY <1>9 DEF p
<1>12. Loop(url) = IF p > len + 1 THEN Reader("PORT", 0, len + 1)
                   ELSE IF q <= len THEN Reader("OK", p, q - 1)
                   ELSE Reader("PATH", p, len + 1)
  BY <1>1, <1>11, PortLoop DEF len, q, c
<1>13. QED
  BY <1>10, <1>12 DEF len

-----------------------------------------------------------------------------
(* The path in a URL *)

LEMMA LoopTyped ==
  ASSUME NEW url \in Seq(Int)
  PROVE  /\ Loop(url).state \in States /\ Loop(url).startIndex \in Nat
         /\ Loop(url).readIndex \in 0 .. Len(url) + 1
<1> DEFINE n == Len(InMemory(url))
           Good == [m \in 0 .. n |-> {a \in Readers : a.readIndex <= m}]
<1>1. PICK run : Runs(run, url) /\ Loop(url) = run[n]
  BY LoopRuns
<1>2. n \in Nat /\ Len(url) \in Nat /\ n <= Len(url) + 1
  BY InMemoryIs
<1>3. /\ run[0] = Reader("PATH_OR_SCHEME", 0, 0) /\ run[0] \in Readers
      /\ \A m \in 0 .. n : run[m] \in Readers
      /\ \A m \in 0 .. n - 1 : run[m + 1] = Read(run[m], InMemory(url)[m + 1])
  BY <1>1, <1>2 DEF Runs
<1> HIDE DEF n
<1>4. run[0] \in Good[0]
  BY <1>2, <1>3 DEF Reader
<1>5. ASSUME NEW m \in 0 .. n - 1, run[m] \in Good[m]
      PROVE  run[m + 1] \in Good[m + 1]
  <2>1. m \in 0 .. n /\ m + 1 \in 0 .. n /\ m \in Nat
    BY <1>2
  <2>2. run[m] \in Readers /\ run[m].readIndex \in Nat /\ run[m].readIndex <= m
    BY <1>5, <2>1 DEF Readers
  <2>3. run[m + 1] \in Readers /\ run[m + 1].readIndex <= run[m].readIndex + 1
    BY <1>3, <2>2, ReadTyped
  <2>4. run[m + 1].readIndex \in Nat
    BY <2>3 DEF Readers
  <2>5. run[m + 1].readIndex <= m + 1
    BY <2>1, <2>2, <2>3, <2>4
  <2>6. QED
    BY <2>1, <2>3, <2>5
<1>6. \A m \in 0 .. n : run[m] \in Good[m]
  <2> HIDE DEF Good
  <2>1. QED
    BY <1>2, <1>4, <1>5, RunInduction
<1>7. Loop(url) \in Readers /\ Loop(url).readIndex <= n
  BY <1>1, <1>2, <1>6
<1>8. QED
  BY <1>2, <1>7 DEF Readers

LEMMA GetPathIs ==
  ASSUME NEW url \in Seq(Int)
  PROVE  LET a == Loop(url)
             p == GetPath(url)
         IN /\ p.found <=> a.state \in {"OK", "PATH", "PATH_OR_SCHEME"}
            /\ p.index \in Nat /\ p.length \in Int
            /\ p.index = a.startIndex /\ p.index + p.length = a.readIndex
            /\ p.index + p.length <= Len(url) + 1
<1> DEFINE i == Loop(url).startIndex
           r == Loop(url).readIndex
<1>1. i \in Nat /\ r \in Nat /\ r <= Len(url) + 1
  BY LoopTyped, LenProperties
<1>2. /\ GetPath(url).found <=> Loop(url).state \in {"OK", "PATH", "PATH_OR_SCHEME"}
      /\ GetPath(url).index = i /\ GetPath(url).length = r - i
  BY DEF GetPath
<1> HIDE DEF i, r
<1>3. i + (r - i) = r /\ r - i \in Int
  BY <1>1
<1>4. QED
  BY <1>1, <1>2, <1>3 DEF i, r

LEMMA PathStringIs ==
  ASSUME NEW url \in Seq(Int), NEW start \in Nat, NEW r \in Nat, NEW s,
         Loop(url) = Reader(s, start, r)
  PROVE  /\ GetPath(url).found <=> s \in {"OK", "PATH", "PATH_OR_SCHEME"}
         /\ r <= Len(url) => PathString(url) = SubSeq(url, start + 1, r)
         /\ r >= Len(url) => PathString(url) = SubSeq(url, start + 1, Len(url))
<1>1. Loop(url).startIndex = start /\ Loop(url).readIndex = r /\ Loop(url).state = s
  BY DEF Reader
<1>2. GetPath(url).index = start /\ GetPath(url).index + GetPath(url).length = r
  BY <1>1, GetPathIs
<1> DEFINE len == Len(url)
<1>3. len \in Nat
  BY LenProperties
<1> HIDE DEF len
<1>4. Min({r, len}) = IF r <= len THEN r ELSE len
  BY <1>3, MinOfTwo
<1>5. PathString(url)
        = SubSeq(url, GetPath(url).index + 1,
                 Min({GetPath(url).index + GetPath(url).length, len}))
  BY DEF PathString, len
<1>6. PathString(url) = SubSeq(url, start + 1, IF r <= len THEN r ELSE len)
  BY <1>2, <1>4, <1>5
<1>7. r >= len => (IF r <= len THEN r ELSE len) = len
  BY <1>3
<1>8. GetPath(url).found <=> s \in {"OK", "PATH", "PATH_OR_SCHEME"}
  BY <1>1, GetPathIs
<1>9. QED
  BY <1>6, <1>7, <1>8 DEF len

(* Where the automaton stops in a URL that has a path.                     *)
LEMMA HasPathLoop ==
  ASSUME NEW url \in Seq(Int), HasPath(url)
  PROVE  \E s \in {"OK", "PATH", "PATH_OR_SCHEME"} :
           /\ PathAt(url) \in Nat \ {0}
           /\ Loop(url) = Reader(s, PathAt(url) - 1, BehindPath(url))
<1> DEFINE len == Len(url)
           q == QueryAt(url)
           n == Len(InMemory(url))
<1>1. /\ len \in Nat /\ n = IF url = <<>> THEN 0 ELSE len + 1
      /\ q \in 1 .. len + 1 /\ (url = <<>> <=> len = 0)
  BY InMemoryIs, QueryIs, EmptySeq
<1>2. BehindPath(url) = IF q <= len THEN q - 1 ELSE n
  BY <1>1 DEF BehindPath
<1>3. CASE Relative(url)
  <2>1. Loop(url) = IF q <= len THEN Reader("OK", 0, q - 1)
                    ELSE Reader("PATH_OR_SCHEME", 0, n)
    BY <1>3, RelativeLoop
  <2>2. ~Absolute(url)
    <3>1. Absolute(url) => ColonAt(url) < QueryAt(url)
      BY AbsoluteIs, QueryIs, ColonIs
    <3>2. QED
      BY <1>3, <3>1, QueryIs, ColonIs DEF Relative
  <2>3. PathAt(url) = 1
    BY <1>3, <2>2, Zenon DEF PathAt
  <2>4. PathAt(url) - 1 = 0 /\ PathAt(url) \in Nat \ {0}
    BY <2>3
  <2> HIDE DEF len, q, n
  <2>5. QED
    BY <1>2, <2>1, <2>4
<1>4. CASE Absolute(url) /\ ~Relative(url)
  <2>1. Loop(url) = IF q <= len THEN Reader("OK", SlashAt(url) - 1, q - 1)
                    ELSE Reader("PATH", SlashAt(url) - 1, len + 1)
    BY <1>4, AbsoluteLoop
  <2>2. PathAt(url) = SlashAt(url)
    BY <1>4, Zenon DEF PathAt
  <2>3. SlashAt(url) \in 1 .. len
    BY <1>4, AbsoluteIs
  <2> HIDE DEF len, q, n
  <2>4. PathAt(url) \in Nat \ {0} /\ n = len + 1
    BY <1>1, <2>2, <2>3
  <2>5. QED
    BY <1>2, <2>1, <2>2, <2>4
<1>5. CASE Ported(url) /\ ~Absolute(url) /\ ~Relative(url)
  <2>1. /\ PortSlashAt(url) \in 1 .. len
        /\ Loop(url) = IF q <= len THEN Reader("OK", PortSlashAt(url), q - 1)
                       ELSE Reader("PATH", PortSlashAt(url), len + 1)
    BY <1>5, PortedLoop
  <2>2. PathAt(url) = PortSlashAt(url) + 1
    BY <1>5, Zenon DEF PathAt
  <2> HIDE DEF len, q, n
  <2>3. PathAt(url) - 1 = PortSlashAt(url) /\ PathAt(url) \in Nat \ {0} /\ n = len + 1
    BY <1>1, <2>1, <2>2
  <2>4. QED
    BY <1>2, <2>1, <2>3
<1>6. QED
  BY <1>3, <1>4, <1>5 DEF HasPath

(* The automaton finds the path of every URL that has one.                 *)
LEMMA PathFound ==
  ASSUME NEW url \in Seq(Int), HasPath(url)
  PROVE  /\ GetPath(url).found /\ PathString(url) = PathMeant(url)
         /\ GetPath(url).index + GetPath(url).length = BehindPath(url)
<1> DEFINE len == Len(url)
           q == QueryAt(url)
           b == BehindPath(url)
           at == PathAt(url)
<1>1. PICK s \in {"OK", "PATH", "PATH_OR_SCHEME"} :
        at \in Nat \ {0} /\ Loop(url) = Reader(s, at - 1, b)
  BY HasPathLoop
<1>2. len \in Nat /\ q \in 1 .. len + 1 /\ (url = <<>> => len = 0)
  BY LenProperties, QueryIs, EmptySeq
<1>3. b = IF q <= len THEN q - 1 ELSE IF url = <<>> THEN 0 ELSE len + 1
  BY DEF BehindPath
<1>4. PathMeant(url) = SubSeq(url, at, q - 1)
  BY DEF PathMeant
<1> HIDE DEF len, q, b, at
<1>5. at - 1 \in Nat /\ at - 1 + 1 = at /\ b \in Nat
  BY <1>1, <1>2, <1>3
<1>6. /\ GetPath(url).found <=> s \in {"OK", "PATH", "PATH_OR_SCHEME"}
      /\ b <= len => PathString(url) = SubSeq(url, at - 1 + 1, b)
      /\ b >= len => PathString(url) = SubSeq(url, at - 1 + 1, len)
  BY <1>1, <1>5, PathStringIs DEF len
<1>7. ASSUME q <= len
      PROVE  PathString(url) = PathMeant(url)
  <2>1. b <= len /\ b = q - 1
    BY <1>2, <1>3, <1>7
  <2>2. QED
    BY <1>4, <1>5, <1>6, <2>1
<1>8. ASSUME q > len
      PROVE  PathString(url) = PathMeant(url)
  <2>1. b >= len /\ len = q - 1
    BY <1>2, <1>3, <1>8
  <2>2. QED
    BY <1>4, <1>5, <1>6, <2>1
<1>9. PathString(url) = PathMeant(url)
  BY <1>2, <1>7, <1>8
<1>10. GetPath(url).index + GetPath(url).length = b
  BY <1>1, GetPathIs DEF Reader
<1>11. QED
  BY <1>1, <1>6, <1>9, <1>10 DEF b

(* For URLs of every length and of any characters: url_getPath() finds the *)
(* path that is meant and none that is not, and counts up to the byte that *)
(* BehindPath says, which is at most the one behind the URL's own zero.    *)
THEOREM PathsFound == Spec => []UrlPathsFound
<1>1. UrlPathsFound
  <2>1. \A url \in Strings : url \in Seq(Int)
    BY UrlsAssumption
  <2>2. \A url \in Strings : HasPath(url) =>
           /\ GetPath(url).found /\ PathString(url) = PathMeant(url)
           /\ GetPath(url).index + GetPath(url).length = BehindPath(url)
    BY <2>1, PathFound
  <2>3. \A url \in Strings : GetPath(url).index + GetPath(url).length <= Len(url) + 1
    BY <2>1, GetPathIs
  <2>4. \A url \in Strings : Pathless(url) => ~GetPath(url).found
    <3> TAKE url \in Strings
    <3>1. Pathless(url) => Loop(url).state = "PORT"
      BY <2>1, PathlessLoop DEF Reader
    <3>2. QED
      BY <2>1, <3>1, GetPathIs
  <2>5. QED
    BY <2>2, <2>3, <2>4 DEF UrlPathsFound
<1>2. QED
  BY <1>1, PTL

-----------------------------------------------------------------------------
(* The type of the response *)

LEMMA PathStringLength ==
  ASSUME NEW url \in Seq(Int), Wellformed(url)
  PROVE  /\ GetPath(url).length \in Nat
         /\ Len(PathString(url)) <= GetPath(url).length
         /\ Len(PathString(url)) = 1 => GetPath(url).length <= 2
<1> DEFINE len == Len(url)
           i == GetPath(url).index
           l == GetPath(url).length
           e == IF i + l <= len THEN i + l ELSE len
<1>1. i \in Nat /\ l \in Int /\ l >= 1 /\ i + l <= len + 1 /\ len \in Nat
  BY GetPathIs, LenProperties DEF Wellformed
<1>2. PathString(url) = SubSeq(url, i + 1, Min({i + l, len}))
  BY DEF PathString
<1>3. \A m \in 1 .. len : url[m] \in Int
  BY ElementOfSeq
<1> HIDE DEF len, i, l
<1>4. Min({i + l, len}) = e
  BY <1>1, MinOfTwo
<1>5. e \in Int /\ i + 1 \in Int /\ e <= len /\ \A m \in i + 1 .. e : url[m] \in Int
  BY <1>1, <1>3
<1> DEFINE from == i + 1
<1> HIDE DEF e
<1>6. Len(SubSeq(url, from, e)) = IF from <= e THEN e - from + 1 ELSE 0
  <2>1. from \in Int /\ \A m \in from .. e : url[m] \in Int
    BY <1>5
  <2> HIDE DEF from
  <2>2. QED
    BY <1>5, <2>1, SubSeqProperties
<1>7. Len(PathString(url)) = IF i + 1 <= e THEN e - i ELSE 0
  <2>1. e - from + 1 = e - i
    BY <1>1, <1>5
  <2>2. QED
    BY <1>2, <1>4, <1>6, <2>1
<1>8. l \in Nat
  BY <1>1
<1>9. e <= i + l /\ (e = i + 1 => l <= 2)
  BY <1>1 DEF e
<1>10. /\ Len(PathString(url)) <= l
       /\ Len(PathString(url)) = 1 => l <= 2
  <2>1. CASE i + 1 <= e
    <3>1. Len(PathString(url)) = e - i /\ e - i <= l /\ (e - i = 1 => e = i + 1)
      BY <1>1, <1>5, <1>7, <1>9, <2>1
    <3>2. QED
      BY <1>9, <3>1
  <2>2. CASE ~(i + 1 <= e)
    BY <1>1, <1>7, <2>2
  <2>3. QED
    BY <2>1, <2>2
<1>11. QED
  BY <1>8, <1>10 DEF l

(* The default page is the only name that is longer than the path the      *)
(* search for a dot is told of.                                            *)
LEMMA RequestsAnnounced == NamesAnnounced
<1> SUFFICES ASSUME NEW p \in Paths, Len(p.file) > p.maxPathLength
             PROVE  Dots(p) = {}
  <2>1. \A p \in Paths : Len(p.file) \in Nat /\ p.maxPathLength \in Nat
    BY DotsAre, PathsAssumption
  <2>2. QED
    BY <2>1 DEF NamesAnnounced
<1>1. PICK url \in Urls : Wellformed(url) /\ p = Requested(url)
  BY RequestsAssumption DEF Range, Resources
<1>2. url \in Seq(Int)
  BY UrlsAssumption
<1>3. p.file = Page(PathString(url)) /\ p.maxPathLength = GetPath(url).length
  BY <1>1 DEF Requested
<1>4. PathString(url) = <<Slash>> /\ p.file = DEFAULT_FILE_NAME
  <2>1. CASE PathString(url) # <<Slash>>
    <3>1. p.file = PathString(url)
      BY <1>3, <2>1 DEF Page
    <3>2. Len(p.file) <= p.maxPathLength /\ Len(p.file) \in Nat /\ p.maxPathLength \in Nat
      BY <1>1, <1>2, <1>3, <3>1, PathStringLength, DotsAre
    <3>3. QED
      BY <3>2
  <2>2. QED
    BY <1>3, <2>1 DEF Page
<1>5. p.maxPathLength \in Nat /\ p.maxPathLength <= 2
  <2>1. Len(PathString(url)) = 1
    BY <1>4
  <2>2. QED
    BY <1>1, <1>2, <1>3, <2>1, PathStringLength
<1>6. /\ Dots(p) = {n \in 1 .. Len(p.file) : n <= p.maxPathLength /\ p.file[n] = Dot}
      /\ DOMAIN p.file = 1 .. Len(p.file) /\ Len(p.file) \in Nat
  <2>1. p.file \in Seq(Int)
    BY DotsAre
  <2>2. QED
    BY <2>1, DotsAre, LenProperties
<1>7. \A n \in Dots(p) : FALSE
  <2> TAKE n \in Dots(p)
  <2>1. n \in DOMAIN p.file /\ n <= p.maxPathLength /\ p.file[n] = Dot /\ n \in Nat
    BY <1>6
  <2>2. n <= 2
    BY <1>5, <2>1
  <2>3. QED
    BY <1>4, <2>1, <2>2, PageAssumption
<1>8. QED
  BY <1>7

(* For every set of URLs and every configuration: a file asked for by a    *)
(* URL without a scheme, or with one and a server, gets the type last      *)
(* configured for the extension of the path that the URL means.            *)
THEOREM RequestsLabelled == Spec => RequestLabelled
<1>1. ASSUME NEW url \in DOMAIN Resources \cap DOMAIN Meant
      PROVE  /\ Resources[url] \in Paths
             /\ TypeAsked(Meant[url]) = TypeAsked(Resources[url])
  <2>1. /\ url \in Urls /\ (Relative(url) \/ Absolute(url))
        /\ Resources[url] = Requested(url) /\ Meant[url] = [file |-> Page(PathMeant(url))]
    BY DEF Resources, Meant
  <2>2. PathString(url) = PathMeant(url)
    BY <2>1, UrlsAssumption, PathFound DEF HasPath
  <2>3. Meant[url].file = Resources[url].file
    BY <2>1, <2>2 DEF Requested
  <2>4. TypeAsked(Meant[url]) = TypeAsked(Resources[url])
    BY <2>3 DEF TypeAsked
  <2>5. Resources[url] \in Paths
    BY RequestsAssumption DEF Range
  <2>6. QED
    BY <2>4, <2>5
<1>2. (\A p \in Paths : Get(p) => answer'.type = TypeAsked(p))
        => \A url \in DOMAIN Resources \cap DOMAIN Meant :
              Get(Resources[url]) => answer'.type = TypeAsked(Meant[url])
  BY <1>1
<1>3. Spec => ConfiguredTypeServed
  BY RequestsAnnounced, ServesConfiguredTypes
<1>4. ConfiguredTypeServed => RequestLabelled
  BY <1>2, PTL DEF ConfiguredTypeServed, RequestLabelled
<1>5. QED
  BY <1>3, <1>4
=============================================================================
