-------------------------- MODULE HashTableProofs ---------------------------
(***************************************************************************)
(* Proofs about the hash table, for every set of keys, every number of     *)
(* buckets and every width of the integers: every key has a bucket, the    *)
(* chains stay sound, and the table is a dictionary.                       *)
(***************************************************************************)
EXTENDS HashTable, FoldTheorems, SequenceTheorems, TLAPS

-----------------------------------------------------------------------------
(* The hash function *)

LEMMA ModBounds ==
  ASSUME NEW a \in Int, NEW m \in Nat \ {0}
  PROVE  a % m \in 0 .. m - 1
OBVIOUS

(* Adding a char to an unsigned int wraps, below zero as well as above.    *)
LEMMA SumWraps ==
  ASSUME NEW sum \in 0 .. UIntMax, NEW char \in Int
  PROVE  (sum + char) % (UIntMax + 1) \in 0 .. UIntMax
<1> DEFINE a == sum + char
           m == UIntMax + 1
<1>1. a \in Int /\ m \in Nat \ {0} /\ m - 1 = UIntMax
  BY SizeAssumption
<1> HIDE DEF a, m
<1>2. a % m \in 0 .. m - 1
  BY <1>1, ModBounds
<1>3. QED
  BY <1>1, <1>2 DEF a, m

(* Every key has a bucket, whatever bytes it is made of.                   *)
LEMMA HashInBuckets ==
  ASSUME NEW key \in Seq(Int)
  PROVE  StdHashFunction(key) \in Buckets
<1> DEFINE S == DOMAIN key
           Next1(s, sum) == (sum + key[Max(s)]) % (UIntMax + 1)
           ch == [s \in SUBSET S |-> Max(s)]
           Op == [s \in SUBSET S |-> [sum \in 0 .. UIntMax |-> Next1(s, sum)]]
           Good == [s \in SUBSET S |-> 0 .. UIntMax]
           Iter(g) == [s \in SUBSET S |-> IF s = {} THEN 0
                                          ELSE Next1(s, g[s \ {Max(s)}])]
           iter == CHOOSE g : g = Iter(g)
<1>1. StdHashFunction(key) = iter[S] % Size
  BY DEF StdHashFunction, FoldLeft, MapThenFoldSet
<1>2. Len(key) \in Nat /\ S = 1 .. Len(key) /\ \A n \in S : key[n] \in Int
  BY LenProperties, ElementOfSeq
<1>3. IsFiniteSet(S)
  BY <1>2, FS_Interval
<1>4. \A s \in (SUBSET S) \ {{}} : Max(s) \in s
  <2> HIDE DEF S
  <2>1. QED
    BY <1>2, MaxOf
<1>5. \A s \in (SUBSET S) \ {{}}, sum \in 0 .. UIntMax : Next1(s, sum) \in 0 .. UIntMax
  BY <1>2, <1>4, SumWraps
<1>6. 0 \in 0 .. UIntMax
  BY SizeAssumption
<1>7. Chooses(ch, S)
  BY <1>4 DEF Chooses
<1> HIDE DEF S, Next1
<1> DEFINE Adds(g) == /\ g[{}] = 0
                      /\ \A s \in (SUBSET S) \ {{}} :
                            g[s \ {Max(s)}] \in 0 .. UIntMax
                               => g[s] = Next1(s, g[s \ {Max(s)}])
<1>8. ASSUME NEW g, Adds(g)
      PROVE  \A s \in SUBSET S : g[s] \in 0 .. UIntMax
  <2>1. StaysGood(g, S, ch, Good)
    BY <1>5, <1>6, <1>8 DEF StaysGood
  <2> HIDE DEF ch, Good
  <2>2. \A s \in SUBSET S : g[s] \in Good[s]
    BY <1>3, <1>7, <2>1, IterInduction
  <2>3. QED
    BY <2>2 DEF Good
<1>9. \E g : g = Iter(g)
  <2>1. \E g : Iterates(g, S, 0, ch, Op)
    <3> HIDE DEF ch, Op
    <3>1. QED
      BY <1>3, <1>7, IterExists
  <2>2. PICK g : g = [s \in SUBSET S |-> IF s = {} THEN 0 ELSE Op[s][g[s \ {ch[s]}]]]
    BY <2>1 DEF Iterates
  <2>3. Adds(g)
    BY <2>2
  <2>4. \A s \in (SUBSET S) \ {{}} : g[s] = Next1(s, g[s \ {Max(s)}])
    BY <1>8, <2>3
  <2>5. g = Iter(g)
    BY <2>2, <2>3, <2>4
  <2>6. QED
    BY <2>5
<1>10. iter = Iter(iter)
  <2> HIDE DEF Iter
  <2>1. QED
    BY <1>9
<1> HIDE DEF iter
<1>11. iter[S] \in 0 .. UIntMax
  <2>1. Adds(iter)
    BY <1>10
  <2>2. QED
    BY <1>8, <2>1
<1>12. QED
  <2>1. iter[S] \in Int /\ Size \in Nat \ {0}
    BY <1>11, SizeAssumption
  <2>2. iter[S] % Size \in Buckets
    BY <2>1, ModBounds DEF Buckets
  <2>3. QED
    BY <1>1, <2>2

LEMMA KeysAreSeqs == Keys \subseteq Seq(Int)
<1>1. CharMax \in Int /\ (-CharMax - 1 .. CharMax) \ {0} \subseteq Int
  BY SizeAssumption
<1>2. \A k \in Keys : k \in Seq((-CharMax - 1 .. CharMax) \ {0})
  BY KeysAssumption
<1>3. QED
  BY <1>1, <1>2, SeqMonotonic

LEMMA KeysHaveBuckets == \A k \in Keys : StdHashFunction(k) \in Buckets
BY KeysAreSeqs, HashInBuckets

-----------------------------------------------------------------------------
(* One chain *)

Sound(chain, b) ==
  \A m, n \in DOMAIN chain :
    /\ StdHashFunction(chain[n].key) = b
    /\ chain[m].key = chain[n].key => m = n

(* The chain gives k the value v. *)
Maps(chain, k, v) == \E n \in DOMAIN chain : chain[n].key = k /\ chain[n].value = v

LEMMA ChainsAreSound == ChainsSound <=> \A b \in Buckets : Sound(hash[b], b)
BY DEF ChainsSound, Sound

(* The search stops at the first entry with the key or behind the last.    *)
LEMMA GetHashEntryIs ==
  ASSUME NEW k, Chain(k) \in Seq(Entries)
  PROVE  /\ GetHashEntry(k) \in 1 .. Len(Chain(k)) + 1
         /\ \A m \in 1 .. GetHashEntry(k) - 1 : ~KeyAt(k, m)
         /\ KeyAt(k, GetHashEntry(k)) \/ GetHashEntry(k) = Len(Chain(k)) + 1
<1> DEFINE len == Len(Chain(k))
           P(n) == /\ \A m \in 1 .. n - 1 : ~KeyAt(k, m)
                   /\ KeyAt(k, n) \/ n = len + 1
           T == {n \in 1 .. len + 1 : KeyAt(k, n) \/ n = len + 1}
<1>1. len \in Nat /\ T \subseteq Nat /\ len + 1 \in T
  BY LenProperties
<1>2. PICK x \in T : \A y \in T : x <= y
  BY <1>1, LeastOf
<1>3. x \in 1 .. len + 1 /\ P(x)
  <2>1. ASSUME NEW m \in 1 .. x - 1, KeyAt(k, m)
        PROVE  FALSE
    BY <1>1, <1>2, <2>1
  <2>2. QED
    BY <1>2, <2>1
<1>4. GetHashEntry(k) = CHOOSE n \in 1 .. len + 1 : P(n)
  BY DEF GetHashEntry
<1> HIDE DEF len, P
<1>5. GetHashEntry(k) \in 1 .. len + 1 /\ P(GetHashEntry(k))
  BY <1>3, <1>4
<1>6. QED
  BY <1>5 DEF len, P

LEMMA SetFound ==
  ASSUME NEW chain \in Seq(Entries), NEW b, Sound(chain, b),
         NEW n \in DOMAIN chain, NEW v \in Values
  PROVE  LET new == [chain EXCEPT ![n].value = v]
         IN  /\ new \in Seq(Entries) /\ Sound(new, b)
             /\ \A k, w : Maps(new, k, w) <=> IF k = chain[n].key THEN w = v
                                              ELSE Maps(chain, k, w)
<1> DEFINE e == [chain[n] EXCEPT !.value = v]
           new == [chain EXCEPT ![n] = e]
<1>1. chain[n] \in Entries /\ n \in 1 .. Len(chain)
  BY LenProperties, ElementOfSeq
<1>2. e \in Entries /\ e.key = chain[n].key /\ e.value = v
  BY <1>1 DEF Entries
<1> HIDE DEF e
<1>3. /\ new \in Seq(Entries) /\ DOMAIN new = DOMAIN chain
      /\ \A m \in DOMAIN chain : new[m] = IF m = n THEN e ELSE chain[m]
  BY <1>1, <1>2, ExceptSeq
<1>4. \A m \in DOMAIN chain : new[m].key = chain[m].key
  BY <1>2, <1>3
<1>5. Sound(new, b)
  BY <1>3, <1>4 DEF Sound
<1>6. ASSUME NEW k, NEW w
      PROVE  Maps(new, k, w) <=> IF k = chain[n].key THEN w = v ELSE Maps(chain, k, w)
  <2>1. CASE k = chain[n].key
    <3>1. \A m \in DOMAIN chain : new[m].key = k => m = n
      BY <1>4, <2>1 DEF Sound
    <3>2. new[n].key = k /\ new[n].value = v
      BY <1>2, <1>3, <2>1
    <3> HIDE DEF new
    <3>3. QED
      BY <1>3, <2>1, <3>1, <3>2 DEF Maps
  <2>2. CASE k # chain[n].key
    <3>1. \A m \in DOMAIN chain : new[m].key = k => new[m] = chain[m]
      BY <1>3, <1>4, <2>2
    <3> HIDE DEF new
    <3>2. QED
      BY <1>3, <1>4, <2>2, <3>1 DEF Maps
  <2>3. QED
    BY <2>1, <2>2
<1>7. QED
  BY <1>3, <1>5, <1>6 DEF e

LEMMA SetNew ==
  ASSUME NEW chain \in Seq(Entries), NEW e \in Entries,
         Sound(chain, StdHashFunction(e.key)),
         \A n \in DOMAIN chain : chain[n].key # e.key
  PROVE  LET new == Append(chain, e)
         IN  /\ new \in Seq(Entries) /\ Sound(new, StdHashFunction(e.key))
             /\ \A k, w : Maps(new, k, w) <=> IF k = e.key THEN w = e.value
                                              ELSE Maps(chain, k, w)
<1> DEFINE new == Append(chain, e)
           len == Len(chain)
<1>1. /\ len \in Nat /\ DOMAIN chain = 1 .. len
      /\ new \in Seq(Entries) /\ DOMAIN new = 1 .. len + 1
      /\ \A n \in 1 .. len : new[n] = chain[n]
      /\ new[len + 1] = e
  BY LenProperties
<1> HIDE DEF new, len
<1>2. \A n \in 1 .. len + 1 : n \in 1 .. len \/ n = len + 1
  BY <1>1
<1>3. Sound(new, StdHashFunction(e.key))
  BY <1>1, <1>2 DEF Sound
<1>4. ASSUME NEW k, NEW w
      PROVE  Maps(new, k, w) <=> IF k = e.key THEN w = e.value ELSE Maps(chain, k, w)
  <2>1. DOMAIN chain \subseteq DOMAIN new /\ len + 1 \in DOMAIN new
    BY <1>1
  <2>2. \A n \in DOMAIN new : n \in DOMAIN chain \/ n = len + 1
    BY <1>1, <1>2
  <2>3. QED
    BY <1>1, <2>1, <2>2 DEF Maps
<1>5. QED
  BY <1>1, <1>3, <1>4 DEF new

LEMMA Removed ==
  ASSUME NEW chain \in Seq(Entries), NEW b, Sound(chain, b), NEW k \in DOMAIN chain
  PROVE  LET new == RemoveAt(chain, k)
         IN  /\ new \in Seq(Entries) /\ Sound(new, b)
             /\ \A x, w : Maps(new, x, w) <=> x # chain[k].key /\ Maps(chain, x, w)
<1> DEFINE left  == SubSeq(chain, 1, k - 1)
           right == SubSeq(chain, k + 1, Len(chain))
           rest  == RemoveAt(chain, k)
<1>1. Len(chain) \in Nat /\ DOMAIN chain = 1 .. Len(chain) /\ k \in 1 .. Len(chain)
      /\ \A n \in 1 .. Len(chain) : chain[n] \in Entries
  BY LenProperties, ElementOfSeq
<1>2. /\ left \in Seq(Entries) /\ Len(left) = k - 1
      /\ \A n \in 1 .. k - 1 : left[n] = chain[n]
  BY <1>1, SubSeqProperties
<1>3. /\ right \in Seq(Entries) /\ Len(right) = Len(chain) - k
      /\ \A n \in 1 .. Len(chain) - k : right[n] = chain[n + k]
  BY <1>1, SubSeqProperties
<1>4. rest = left \o right
  BY DEF RemoveAt
<1> HIDE DEF left, right, rest
<1>5. /\ rest \in Seq(Entries) /\ DOMAIN rest = 1 .. Len(chain) - 1
      /\ \A n \in 1 .. Len(chain) - 1 :
           rest[n] = IF n < k THEN chain[n] ELSE chain[n + 1]
  <2>1. /\ rest \in Seq(Entries) /\ Len(rest) = Len(chain) - 1
        /\ \A n \in 1 .. Len(chain) - 1 :
             rest[n] = IF n <= k - 1 THEN left[n] ELSE right[n - (k - 1)]
    <3>1. Len(left) + Len(right) = Len(chain) - 1
      BY <1>1, <1>2, <1>3
    <3>2. /\ left \o right \in Seq(Entries)
          /\ Len(left \o right) = Len(left) + Len(right)
          /\ \A n \in 1 .. Len(left) + Len(right) :
               (left \o right)[n] = IF n <= Len(left) THEN left[n] ELSE right[n - Len(left)]
      BY <1>2, <1>3, ConcatProperties
    <3>3. QED
      BY <1>2, <1>4, <3>1, <3>2
  <2>2. ASSUME NEW n \in 1 .. Len(chain) - 1
        PROVE  rest[n] = IF n < k THEN chain[n] ELSE chain[n + 1]
    <3>1. CASE n < k
      BY <1>1, <1>2, <2>1, <3>1
    <3>2. CASE ~(n < k)
      <4>1. n - (k - 1) \in 1 .. Len(chain) - k /\ (n - (k - 1)) + k = n + 1
        BY <1>1, <3>2
      <4>2. QED
        <5>1. rest[n] = right[n - (k - 1)]
          BY <1>1, <2>1, <3>2
        <5>2. QED
          BY <1>3, <3>2, <4>1, <5>1
    <3>3. QED
      BY <3>1, <3>2
  <2>3. QED
    BY <2>1, <2>2, LenProperties
<1>6. ASSUME NEW n \in 1 .. Len(chain) - 1
      PROVE  \E j \in DOMAIN chain : rest[n] = chain[j] /\ j = IF n < k THEN n ELSE n + 1
  BY <1>1, <1>5
<1>7. Sound(rest, b)
  <2>1. ASSUME NEW m \in 1 .. Len(chain) - 1, NEW n \in 1 .. Len(chain) - 1
        PROVE  /\ StdHashFunction(rest[n].key) = b
               /\ rest[m].key = rest[n].key => m = n
    <3>1. PICK i \in DOMAIN chain : rest[m] = chain[i] /\ i = IF m < k THEN m ELSE m + 1
      BY <1>6
    <3>2. PICK j \in DOMAIN chain : rest[n] = chain[j] /\ j = IF n < k THEN n ELSE n + 1
      BY <1>6
    <3>3. /\ StdHashFunction(chain[j].key) = b
          /\ chain[i].key = chain[j].key => i = j
      BY DEF Sound
    <3>4. i = j => m = n
      BY <1>1, <3>1, <3>2
    <3>5. QED
      BY <3>1, <3>2, <3>3, <3>4
  <2>2. QED
    BY <1>5, <2>1 DEF Sound
<1>8. ASSUME NEW x, NEW w
      PROVE  Maps(rest, x, w) <=> x # chain[k].key /\ Maps(chain, x, w)
  <2>1. ASSUME NEW n \in DOMAIN rest
        PROVE  \E j \in DOMAIN chain : rest[n] = chain[j] /\ chain[j].key # chain[k].key
    <3>1. n \in 1 .. Len(chain) - 1
      BY <1>5, <2>1
    <3>2. PICK j \in DOMAIN chain : rest[n] = chain[j] /\ j = IF n < k THEN n ELSE n + 1
      BY <1>6, <3>1
    <3>3. j # k
      BY <1>1, <3>1, <3>2
    <3>4. QED
      BY <3>2, <3>3 DEF Sound
  <2>2. ASSUME NEW j \in DOMAIN chain, chain[j].key # chain[k].key
        PROVE  \E n \in DOMAIN rest : rest[n] = chain[j]
    <3>1. j # k /\ j \in 1 .. Len(chain)
      BY <1>1, <2>2
    <3>2. CASE j < k
      <4>1. j \in 1 .. Len(chain) - 1
        BY <1>1, <3>1, <3>2
      <4>2. QED
        BY <1>5, <3>2, <4>1
    <3>3. CASE ~(j < k)
      <4>1. j - 1 \in 1 .. Len(chain) - 1 /\ ~(j - 1 < k) /\ (j - 1) + 1 = j
        BY <1>1, <3>1, <3>3
      <4>2. rest[j - 1] = chain[j]
        BY <1>5, <4>1
      <4>3. QED
        BY <1>5, <4>1, <4>2
    <3>4. QED
      BY <3>2, <3>3
  <2>3. QED
    BY <2>1, <2>2 DEF Maps
<1>9. QED
  BY <1>5, <1>7, <1>8 DEF rest

-----------------------------------------------------------------------------
(* The table *)

ChainsInv == hash \in [Buckets -> Seq(Entries)] /\ ChainsSound

(* A call changes the chain of its key and no other. *)
LEMMA ChangeOne ==
  ASSUME ChainsInv, NEW h, NEW chain, hash' = [hash EXCEPT ![h] = chain],
         h \in Buckets => chain \in Seq(Entries) /\ Sound(chain, h)
  PROVE  ChainsInv'
<1>1. hash' \in [Buckets -> Seq(Entries)]
  BY DEF ChainsInv
<1>2. \A b \in Buckets : \/ hash'[b] = hash[b] /\ Sound(hash[b], b)
                         \/ b = h /\ hash'[b] = chain
  BY ChainsAreSound DEF ChainsInv
<1>3. \A b \in Buckets : Sound(hash'[b], b)
  BY <1>2
<1>4. ChainsSound'
  BY <1>3 DEF ChainsSound, Sound
<1>5. QED
  BY <1>1, <1>4 DEF ChainsInv

(* What a call makes of the chain of its key.                              *)
SetChain(k, v) ==
  IF Found(k) THEN [Chain(k) EXCEPT ![GetHashEntry(k)].value = v]
              ELSE Append(Chain(k), [key |-> k, value |-> v])
DeletedChain(k) ==
  IF Found(k) THEN RemoveAt(Chain(k), GetHashEntry(k)) ELSE Chain(k)

LEMMA ChainIs ==
  ASSUME ChainsInv, NEW k \in Seq(Int)
  PROVE  /\ StdHashFunction(k) \in Buckets
         /\ Chain(k) \in Seq(Entries) /\ Sound(Chain(k), StdHashFunction(k))
         /\ Found(k) => /\ GetHashEntry(k) \in DOMAIN Chain(k)
                        /\ Chain(k)[GetHashEntry(k)].key = k
         /\ ~Found(k) => \A n \in DOMAIN Chain(k) : Chain(k)[n].key # k
<1> DEFINE g == GetHashEntry(k)
           len == Len(Chain(k))
<1>1. /\ StdHashFunction(k) \in Buckets
      /\ Chain(k) \in Seq(Entries) /\ Sound(Chain(k), StdHashFunction(k))
  BY HashInBuckets, ChainsAreSound DEF ChainsInv, Chain
<1>2. len \in Nat /\ DOMAIN Chain(k) = 1 .. len
  BY <1>1, LenProperties
<1>3. /\ g \in 1 .. len + 1 /\ \A m \in 1 .. g - 1 : ~KeyAt(k, m)
      /\ KeyAt(k, g) \/ g = len + 1
  BY <1>1, GetHashEntryIs
<1>4. Found(k) <=> g <= len
  BY DEF Found
<1> HIDE DEF g, len
<1>5. Found(k) => g \in DOMAIN Chain(k) /\ Chain(k)[g].key = k
  BY <1>2, <1>3, <1>4 DEF KeyAt
<1>6. ~Found(k) => \A n \in DOMAIN Chain(k) : Chain(k)[n].key # k
  <2>1. ~Found(k) => \A n \in DOMAIN Chain(k) : ~KeyAt(k, n)
    BY <1>2, <1>3, <1>4
  <2>2. QED
    BY <2>1 DEF KeyAt
<1>7. QED
  BY <1>1, <1>5, <1>6 DEF g

LEMMA SetChainIs ==
  ASSUME ChainsInv, NEW k \in Keys, NEW v \in Values
  PROVE  /\ SetChain(k, v) \in Seq(Entries)
         /\ Sound(SetChain(k, v), StdHashFunction(k))
         /\ \A x, w : Maps(SetChain(k, v), x, w) <=> IF x = k THEN w = v
                                                     ELSE Maps(Chain(k), x, w)
<1>1. CASE Found(k)
  <2> DEFINE g == GetHashEntry(k)
  <2>1. /\ Chain(k) \in Seq(Entries) /\ Sound(Chain(k), StdHashFunction(k))
        /\ g \in DOMAIN Chain(k) /\ Chain(k)[g].key = k
    BY <1>1, KeysAreSeqs, ChainIs
  <2>2. SetChain(k, v) = [Chain(k) EXCEPT ![g].value = v]
    BY <1>1 DEF SetChain
  <2> HIDE DEF g
  <2> DEFINE chain == Chain(k)
             new == [chain EXCEPT ![g].value = v]
  <2> HIDE DEF chain
  <2>3. /\ new \in Seq(Entries) /\ Sound(new, StdHashFunction(k))
        /\ \A x, w : Maps(new, x, w) <=> IF x = chain[g].key THEN w = v
                                         ELSE Maps(chain, x, w)
    BY <2>1, SetFound DEF chain
  <2> HIDE DEF new
  <2>4. SetChain(k, v) = new /\ chain[g].key = k
    BY <2>1, <2>2 DEF new, chain
  <2>5. QED
    BY <2>3, <2>4 DEF chain
<1>2. CASE ~Found(k)
  <2> DEFINE e == [key |-> k, value |-> v]
  <2>1. e \in Entries /\ e.key = k /\ e.value = v
    BY DEF Entries
  <2>2. SetChain(k, v) = Append(Chain(k), e)
    BY <1>2 DEF SetChain
  <2> HIDE DEF e
  <2>3. QED
    BY <1>2, <2>1, <2>2, KeysAreSeqs, ChainIs, SetNew
<1>3. QED
  BY <1>1, <1>2

LEMMA DeletedChainIs ==
  ASSUME ChainsInv, NEW k \in Keys
  PROVE  /\ DeletedChain(k) \in Seq(Entries)
         /\ Sound(DeletedChain(k), StdHashFunction(k))
         /\ \A x, w : Maps(DeletedChain(k), x, w) <=> x # k /\ Maps(Chain(k), x, w)
<1>1. CASE Found(k)
  <2> DEFINE g == GetHashEntry(k)
  <2>1. /\ Chain(k) \in Seq(Entries) /\ Sound(Chain(k), StdHashFunction(k))
        /\ g \in DOMAIN Chain(k) /\ Chain(k)[g].key = k
    BY <1>1, KeysAreSeqs, ChainIs
  <2>2. DeletedChain(k) = RemoveAt(Chain(k), g)
    BY <1>1 DEF DeletedChain
  <2> HIDE DEF g
  <2>3. QED
    BY <2>1, <2>2, Removed
<1>2. CASE ~Found(k)
  <2>1. \A w : ~Maps(Chain(k), k, w)
    BY <1>2, KeysAreSeqs, ChainIs DEF Maps
  <2>2. QED
    BY <1>2, <2>1, KeysAreSeqs, ChainIs DEF DeletedChain
<1>3. QED
  BY <1>1, <1>2

LEMMA SetInv ==
  ASSUME ChainsInv, NEW k \in Keys, NEW v \in Values, HashTableSet(k, v)
  PROVE  ChainsInv'
<1>1. hash' = [hash EXCEPT ![StdHashFunction(k)] = SetChain(k, v)]
  BY DEF HashTableSet, SetChain, Chain
<1>2. QED
  BY <1>1, SetChainIs, ChangeOne

LEMMA DeleteInv ==
  ASSUME ChainsInv, NEW k \in Keys, HashTableDelete(k)
  PROVE  ChainsInv'
<1>1. hash' = [hash EXCEPT ![StdHashFunction(k)] = DeletedChain(k)]
  BY DEF HashTableDelete, DeletedChain, Chain
<1>2. QED
  BY <1>1, DeletedChainIs, ChangeOne

LEMMA CreateInv == HashTableCreate => ChainsInv
BY EmptySeq DEF HashTableCreate, ChainsInv, ChainsSound

LEMMA TableNextInv ==
  ASSUME ChainsInv, [TableNext]_tableVars
  PROVE  ChainsInv'
<1>1. CASE UNCHANGED hash
  BY <1>1 DEF ChainsInv, ChainsSound
<1>2. CASE \E k \in Keys, v \in Values : HashTableSet(k, v)
  BY <1>2, SetInv
<1>3. CASE \E k \in Keys : HashTableDelete(k)
  BY <1>3, DeleteInv
<1>4. QED
  BY <1>1, <1>2, <1>3 DEF TableNext, tableVars, HashTableGet, HashTableKeys

(* Whatever is set and deleted, no chain has two entries for a key and     *)
(* none is in a bucket where hashTableGet() would not look for it.         *)
THEOREM ChainsStaySound == TableSpec => []ChainsSound
<1>1. TableSpec => []ChainsInv
  BY CreateInv, TableNextInv, PTL DEF TableSpec
<1>2. ChainsInv => ChainsSound
  BY DEF ChainsInv
<1>3. QED
  BY <1>1, <1>2, PTL

-----------------------------------------------------------------------------
(* What the search finds *)

(* What the chain of a key says of it is what the search finds.            *)
SearchSound ==
  \A k \in Keys :
    /\ StdHashFunction(k) \in Buckets /\ Chain(k) \in Seq(Entries)
    /\ k \in KeysIn <=> Found(k)
    /\ \A w : Maps(Chain(k), k, w) <=> k \in KeysIn /\ w = ValueOf(k)
    /\ k \in KeysIn => ValueOf(k) \in Values
    /\ k \notin KeysIn => ValueOf(k) = NULL

LEMMA SearchIsSound == ChainsInv => SearchSound
<1> SUFFICES ASSUME ChainsInv, NEW k \in Keys
             PROVE  /\ StdHashFunction(k) \in Buckets /\ Chain(k) \in Seq(Entries)
                    /\ k \in KeysIn <=> Found(k)
                    /\ \A w : Maps(Chain(k), k, w) <=> k \in KeysIn /\ w = ValueOf(k)
                    /\ k \in KeysIn => ValueOf(k) \in Values
                    /\ k \notin KeysIn => ValueOf(k) = NULL
  BY DEF SearchSound
<1> DEFINE g == GetHashEntry(k)
<1>1. /\ StdHashFunction(k) \in Buckets
      /\ Chain(k) \in Seq(Entries) /\ Sound(Chain(k), StdHashFunction(k))
  BY KeysAreSeqs, ChainIs
<1>2. Found(k) => g \in DOMAIN Chain(k) /\ Chain(k)[g].key = k
  BY KeysAreSeqs, ChainIs
<1>3. ~Found(k) => \A n \in DOMAIN Chain(k) : Chain(k)[n].key # k
  BY KeysAreSeqs, ChainIs
<1>4. ValueOf(k) = IF Found(k) THEN Chain(k)[g].value ELSE NULL
  BY DEF ValueOf
<1> HIDE DEF g
<1>5. CASE Found(k)
  <2>1. Chain(k)[g].value \in Values
    <3>1. Chain(k)[g] \in Entries
      BY <1>1, <1>2, <1>5, LenProperties, ElementOfSeq
    <3>2. QED
      BY <3>1 DEF Entries
  <2>2. k \in KeysIn
    BY <1>2, <1>5 DEF KeysIn, KeyAt
  <2>3. \A w : Maps(Chain(k), k, w) <=> w = Chain(k)[g].value
    BY <1>1, <1>2, <1>5 DEF Maps, Sound
  <2>4. QED
    BY <1>1, <1>4, <1>5, <2>1, <2>2, <2>3
<1>6. CASE ~Found(k)
  <2>1. k \notin KeysIn
    BY <1>3, <1>6 DEF KeysIn, KeyAt
  <2>2. \A w : ~Maps(Chain(k), k, w)
    BY <1>3, <1>6 DEF Maps
  <2>3. QED
    BY <1>1, <1>4, <1>6, <2>1, <2>2
<1>7. QED
  BY <1>5, <1>6

(* A string that is nobody's key is not found.                             *)
LEMMA SearchElsewhere ==
  ASSUME ChainsInv, NEW e \in Seq(Int), e \notin Keys
  PROVE  ~Found(e) /\ ValueOf(e) = NULL
<1>1. Chain(e) \in Seq(Entries)
  BY ChainIs
<1>2. \A n \in DOMAIN Chain(e) : Chain(e)[n] \in Entries
  BY <1>1, LenProperties, ElementOfSeq
<1>3. \A n \in DOMAIN Chain(e) : Chain(e)[n].key \in Keys
  BY <1>2 DEF Entries
<1>4. ~Found(e)
  BY <1>3, ChainIs
<1>5. QED
  BY <1>4 DEF ValueOf

-----------------------------------------------------------------------------
(* The dictionary *)

(* A call that leaves k to a new chain, in which other keys are as before. *)
LEMMA OthersStay ==
  ASSUME ChainsInv, NEW k \in Keys, NEW chain, NEW W,
         hash' = [hash EXCEPT ![StdHashFunction(k)] = chain],
         \A x, w : Maps(chain, x, w) <=> IF x = k THEN w \in W ELSE Maps(Chain(k), x, w)
  PROVE  \A x \in Keys : \A w : Maps(Chain(x)', x, w) <=> IF x = k THEN w \in W
                                                        ELSE Maps(Chain(x), x, w)
<1>1. ASSUME NEW x \in Keys, NEW w
      PROVE  Maps(Chain(x)', x, w) <=> IF x = k THEN w \in W ELSE Maps(Chain(x), x, w)
  <2>1. StdHashFunction(x) \in DOMAIN hash /\ StdHashFunction(k) \in DOMAIN hash
    BY KeysHaveBuckets DEF ChainsInv
  <2>2. CASE StdHashFunction(x) = StdHashFunction(k)
    <3>1. Chain(x)' = chain /\ Chain(x) = Chain(k)
      BY <2>1, <2>2 DEF Chain
    <3>2. QED
      BY <3>1
  <2>3. CASE StdHashFunction(x) # StdHashFunction(k)
    <3>1. Chain(x)' = Chain(x) /\ x # k
      BY <2>1, <2>3 DEF Chain
    <3>2. QED
      BY <3>1
  <2>4. QED
    BY <2>2, <2>3
<1>2. QED
  BY <1>1

LEMMA SetMaps ==
  ASSUME ChainsInv, NEW k \in Keys, NEW v \in Values, HashTableSet(k, v)
  PROVE  \A x \in Keys : \A w : Maps(Chain(x)', x, w) <=> IF x = k THEN w = v
                                                      ELSE Maps(Chain(x), x, w)
<1>1. hash' = [hash EXCEPT ![StdHashFunction(k)] = SetChain(k, v)]
  BY DEF HashTableSet, SetChain, Chain
<1>2. \A x, w : Maps(SetChain(k, v), x, w) <=> IF x = k THEN w \in {v}
                                               ELSE Maps(Chain(k), x, w)
  BY SetChainIs
<1>3. \A x \in Keys : \A w : Maps(Chain(x)', x, w) <=> IF x = k THEN w \in {v}
                                                    ELSE Maps(Chain(x), x, w)
  BY <1>1, <1>2, OthersStay
<1>4. QED
  BY <1>3

LEMMA DeleteMaps ==
  ASSUME ChainsInv, NEW k \in Keys, HashTableDelete(k)
  PROVE  \A x \in Keys : \A w : Maps(Chain(x)', x, w) <=> x # k /\ Maps(Chain(x), x, w)
<1> DEFINE W == {}
<1>1. hash' = [hash EXCEPT ![StdHashFunction(k)] = DeletedChain(k)]
  BY DEF HashTableDelete, DeletedChain, Chain
<1>2. \A x, w : Maps(DeletedChain(k), x, w) <=> IF x = k THEN w \in W
                                                ELSE Maps(Chain(k), x, w)
  BY DeletedChainIs
<1>3. \A x \in Keys : \A w : Maps(Chain(x)', x, w) <=> IF x = k THEN w \in W
                                                    ELSE Maps(Chain(x), x, w)
  <2> HIDE DEF W
  <2>1. QED
    BY <1>1, <1>2, OthersStay
<1>4. QED
  BY <1>3

Map == [k \in KeysIn |-> ValueOf(k)]

LEMMA MapValue ==
  ASSUME SearchSound, NEW k \in Keys
  PROVE  Dict!Value(k) = ValueOf(k)
BY DEF SearchSound, Dict!Value

LEMMA SetKeys ==
  ASSUME ChainsInv, SearchSound, SearchSound', NEW k \in Keys, NEW v \in Values,
         HashTableSet(k, v)
  PROVE  /\ KeysIn' = KeysIn \cup {k}
         /\ \A x \in KeysIn' : ValueOf(x)' = IF x = k THEN v ELSE ValueOf(x)
<1>1. \A x \in Keys : \A w : Maps(Chain(x)', x, w) <=> IF x = k THEN w = v
                                                    ELSE Maps(Chain(x), x, w)
  BY SetMaps
<1>2. \A x \in Keys : \A w : Maps(Chain(x), x, w) <=> x \in KeysIn /\ w = ValueOf(x)
  BY DEF SearchSound
<1>3. \A x \in Keys : \A w : Maps(Chain(x)', x, w) <=> x \in KeysIn' /\ w = ValueOf(x)'
  BY DEF SearchSound
<1>4. KeysIn' \subseteq Keys /\ KeysIn \subseteq Keys
  BY DEF KeysIn
<1>5. KeysIn' = KeysIn \cup {k}
  BY <1>1, <1>2, <1>3, <1>4
<1>6. \A x \in KeysIn' : ValueOf(x)' = IF x = k THEN v ELSE ValueOf(x)
  BY <1>1, <1>2, <1>3, <1>4
<1>7. QED
  BY <1>5, <1>6

LEMMA SetStep ==
  ASSUME ChainsInv, SearchSound, SearchSound', NEW k \in Keys, NEW v \in Values,
         HashTableSet(k, v)
  PROVE  Dict!Set(k, v)
<1>1. KeysIn' = KeysIn \cup {k}
  BY SetKeys
<1>2. \A x \in KeysIn' : ValueOf(x)' = IF x = k THEN v ELSE ValueOf(x)
  BY SetKeys
<1>3. Map' = [x \in DOMAIN Map \cup {k} |-> IF x = k THEN v ELSE Map[x]]
  <2>1. Map' = [x \in KeysIn \cup {k} |-> IF x = k THEN v ELSE ValueOf(x)]
    BY <1>1, <1>2 DEF Map
  <2>2. \A x \in KeysIn : Map[x] = ValueOf(x)
    BY DEF Map
  <2>3. DOMAIN Map = KeysIn
    BY DEF Map
  <2>4. QED
    BY <2>1, <2>2, <2>3
<1>4. returned' = Dict!Value(k)
  BY MapValue DEF HashTableSet
<1>5. QED
  BY <1>3, <1>4 DEF Dict!Set, Map

LEMMA DeleteStep ==
  ASSUME ChainsInv, SearchSound, SearchSound', NEW k \in Keys, HashTableDelete(k)
  PROVE  Dict!Delete(k)
<1>1. \A x \in Keys : \A w : Maps(Chain(x)', x, w) <=> x # k /\ Maps(Chain(x), x, w)
  BY DeleteMaps
<1>2. \A x \in Keys : \A w : Maps(Chain(x), x, w) <=> x \in KeysIn /\ w = ValueOf(x)
  BY DEF SearchSound
<1>3. \A x \in Keys : \A w : Maps(Chain(x)', x, w) <=> x \in KeysIn' /\ w = ValueOf(x)'
  BY DEF SearchSound
<1>4. KeysIn' \subseteq Keys /\ KeysIn \subseteq Keys
  BY DEF KeysIn
<1>5. KeysIn' = KeysIn \ {k}
  BY <1>1, <1>2, <1>3, <1>4
<1>6. \A x \in KeysIn' : ValueOf(x)' = ValueOf(x)
  BY <1>1, <1>2, <1>3, <1>4
<1>7. Map' = Restrict(Map, DOMAIN Map \ {k})
  <2>1. Map' = [x \in KeysIn \ {k} |-> ValueOf(x)]
    BY <1>5, <1>6 DEF Map
  <2>2. DOMAIN Map = KeysIn /\ \A x \in KeysIn : Map[x] = ValueOf(x)
    BY DEF Map
  <2>3. QED
    BY <2>1, <2>2 DEF Restrict
<1>8. returned' = Dict!Value(k)
  BY MapValue DEF HashTableDelete
<1>9. QED
  BY <1>7, <1>8 DEF Dict!Delete, Dict!Restrict, Restrict, Map

LEMMA TableKept ==
  ASSUME UNCHANGED hash
  PROVE  UNCHANGED Map
<1>1. \A k : Chain(k)' = Chain(k)
  BY DEF Chain
<1>2. \A k, n : KeyAt(k, n)' <=> KeyAt(k, n)
  BY <1>1 DEF KeyAt
<1>3. \A k : GetHashEntry(k)' = GetHashEntry(k)
  BY <1>1, <1>2 DEF GetHashEntry
<1>4. \A k : Found(k)' <=> Found(k)
  BY <1>1, <1>3 DEF Found
<1>5. \A k : ValueOf(k)' = ValueOf(k)
  BY <1>1, <1>3, <1>4 DEF ValueOf
<1>6. KeysIn' = KeysIn
  BY <1>1, <1>2 DEF KeysIn
<1>7. QED
  BY <1>5, <1>6 DEF Map

LEMMA GetStep ==
  ASSUME SearchSound, NEW k \in Keys, HashTableGet(k)
  PROVE  Dict!Get(k)
<1>1. returned' = Dict!Value(k)
  BY MapValue DEF HashTableGet
<1>2. UNCHANGED Map
  BY TableKept DEF HashTableGet
<1>3. QED
  BY <1>1, <1>2 DEF Dict!Get, Map

-----------------------------------------------------------------------------
(* The listing of the keys *)

(* What the entries of the buckets in s make when they stand in a row.     *)
Rows(s) ==
  {q \in Seq(Entries) :
     /\ \A n \in DOMAIN q : \E b \in s : \E m \in DOMAIN hash[b] : q[n] = hash[b][m]
     /\ \A b \in s : \A m \in DOMAIN hash[b] : \E n \in DOMAIN q : q[n] = hash[b][m]
     /\ \A m, n \in DOMAIN q : q[m].key = q[n].key => m = n}

LEMMA RowJoined ==
  ASSUME ChainsInv, NEW s \in SUBSET Buckets, NEW b \in s, NEW rest \in Rows(s \ {b})
  PROVE  hash[b] \o rest \in Rows(s)
<1> DEFINE chain == hash[b]
           q == chain \o rest
           c == Len(chain)
           r == Len(rest)
<1>1. /\ chain \in Seq(Entries) /\ Sound(chain, b) /\ rest \in Seq(Entries)
      /\ \A a \in s : Sound(hash[a], a)
  BY ChainsAreSound DEF ChainsInv, Rows
<1>2. /\ c \in Nat /\ r \in Nat /\ DOMAIN chain = 1 .. c /\ DOMAIN rest = 1 .. r
  BY <1>1, LenProperties
<1>3. /\ q \in Seq(Entries) /\ DOMAIN q = 1 .. c + r
      /\ \A n \in 1 .. c + r : q[n] = IF n <= c THEN chain[n] ELSE rest[n - c]
  BY <1>1, ConcatProperties, LenProperties
<1> HIDE DEF q, c, r
<1>4. /\ \A n \in DOMAIN chain : n \in DOMAIN q /\ q[n] = chain[n]
      /\ \A n \in DOMAIN rest : n + c \in DOMAIN q /\ q[n + c] = rest[n]
  BY <1>2, <1>3
<1>5. ASSUME NEW n \in DOMAIN q
      PROVE  \/ n \in DOMAIN chain /\ q[n] = chain[n] /\ n <= c
             \/ n - c \in DOMAIN rest /\ q[n] = rest[n - c] /\ ~(n <= c)
  BY <1>2, <1>3
<1>6. /\ \A n \in DOMAIN rest : \E a \in s \ {b} : \E m \in DOMAIN hash[a] : rest[n] = hash[a][m]
      /\ \A a \in s \ {b} : \A m \in DOMAIN hash[a] : \E n \in DOMAIN rest : rest[n] = hash[a][m]
      /\ \A m, n \in DOMAIN rest : rest[m].key = rest[n].key => m = n
  BY DEF Rows
<1>7. \A m \in DOMAIN chain, n \in DOMAIN rest : chain[m].key # rest[n].key
  BY <1>1, <1>6 DEF Sound
<1>8. \A n \in DOMAIN q : \E a \in s : \E m \in DOMAIN hash[a] : q[n] = hash[a][m]
  BY <1>5, <1>6
<1>9. \A a \in s : \A m \in DOMAIN hash[a] : \E n \in DOMAIN q : q[n] = hash[a][m]
  BY <1>4, <1>6
<1>10. ASSUME NEW m \in DOMAIN q, NEW n \in DOMAIN q, q[m].key = q[n].key
       PROVE  m = n
  <2>1. m \in Int /\ n \in Int /\ c \in Int
    BY <1>2, <1>3
  <2>2. CASE m <= c
    <3>1. n <= c
      BY <1>5, <1>7, <1>10, <2>2
    <3>2. QED
      BY <1>1, <1>5, <1>10, <2>2, <3>1 DEF Sound
  <2>3. CASE ~(m <= c)
    <3>1. ~(n <= c)
      BY <1>5, <1>7, <1>10, <2>3
    <3>2. m - c = n - c
      BY <1>5, <1>6, <1>10, <2>3, <3>1
    <3>3. QED
      BY <2>1, <3>2
  <2>4. QED
    BY <2>2, <2>3
<1>11. q \in Rows(s)
  BY <1>3, <1>8, <1>9, <1>10 DEF Rows
<1>12. QED
  BY <1>11 DEF q

LEMMA AllEntriesAre ==
  ASSUME ChainsInv
  PROVE  AllEntries \in Rows(Buckets)
<1> DEFINE Row(s, rest) == hash[CHOOSE b \in s : TRUE] \o rest
           ch == [s \in SUBSET Buckets |-> CHOOSE b \in s : TRUE]
           Op == [s \in SUBSET Buckets |-> [rest \in Seq(Entries) |-> Row(s, rest)]]
           Good == [s \in SUBSET Buckets |-> Rows(s)]
           Iter(g) == [s \in SUBSET Buckets |-> IF s = {} THEN <<>>
                          ELSE Row(s, g[s \ {CHOOSE b \in s : TRUE}])]
           iter == CHOOSE g : g = Iter(g)
<1>1. AllEntries = iter[Buckets]
  <2>1. DOMAIN hash = Buckets
    BY DEF ChainsInv
  <2>2. QED
    BY <2>1 DEF AllEntries, FoldFunction, FoldFunctionOnSet, MapThenFoldSet
<1>2. IsFiniteSet(Buckets)
  BY SizeAssumption, FS_Interval DEF Buckets
<1>3. \A s \in (SUBSET Buckets) \ {{}} : (CHOOSE b \in s : TRUE) \in s
  OBVIOUS
<1>4. Chooses(ch, Buckets)
  BY <1>3 DEF Chooses
<1>5. ASSUME NEW s \in (SUBSET Buckets) \ {{}},
             NEW rest \in Rows(s \ {CHOOSE b \in s : TRUE})
      PROVE  Row(s, rest) \in Rows(s)
  <2> DEFINE b == CHOOSE b \in s : TRUE
  <2>1. b \in s
    BY <1>3
  <2> HIDE DEF b
  <2>2. rest \in Rows(s \ {b})
    BY DEF b
  <2>3. hash[b] \o rest \in Rows(s)
    BY <2>1, <2>2, RowJoined
  <2>4. QED
    BY <2>3 DEF b
<1>6. <<>> \in Rows({})
  BY EmptySeq DEF Rows
<1> HIDE DEF Row
<1> DEFINE Joins(g) ==
             /\ g[{}] = <<>>
             /\ \A s \in (SUBSET Buckets) \ {{}} :
                  g[s \ {CHOOSE b \in s : TRUE}] \in Rows(s \ {CHOOSE b \in s : TRUE})
                     => g[s] = Row(s, g[s \ {CHOOSE b \in s : TRUE}])
<1>7. ASSUME NEW g, Joins(g)
      PROVE  \A s \in SUBSET Buckets : g[s] \in Rows(s)
  <2>1. StaysGood(g, Buckets, ch, Good)
    BY <1>5, <1>6, <1>7 DEF StaysGood
  <2> HIDE DEF ch, Good
  <2>2. \A s \in SUBSET Buckets : g[s] \in Good[s]
    BY <1>2, <1>4, <2>1, IterInduction
  <2>3. QED
    BY <2>2 DEF Good
<1>8. \E g : g = Iter(g)
  <2>1. \E g : Iterates(g, Buckets, <<>>, ch, Op)
    <3> HIDE DEF ch, Op
    <3>1. QED
      BY <1>2, <1>4, IterExists
  <2>2. PICK g : g = [s \in SUBSET Buckets |-> IF s = {} THEN <<>>
                                               ELSE Op[s][g[s \ {ch[s]}]]]
    BY <2>1 DEF Iterates
  <2>3. \A s : Rows(s) \subseteq Seq(Entries)
    BY DEF Rows
  <2>4. Joins(g)
    BY <2>2, <2>3
  <2>5. \A s \in (SUBSET Buckets) \ {{}} : g[s] = Row(s, g[s \ {CHOOSE b \in s : TRUE}])
    BY <1>7, <2>4
  <2>6. g = Iter(g)
    BY <2>2, <2>4, <2>5
  <2>7. QED
    BY <2>6
<1>9. iter = Iter(iter)
  <2> HIDE DEF Iter
  <2>1. QED
    BY <1>8
<1> HIDE DEF iter
<1>10. Joins(iter)
  BY <1>9
<1>11. QED
  BY <1>1, <1>7, <1>10

(* The list has each key once, and those of the dictionary. *)
LEMMA ListIs ==
  ASSUME ChainsInv, SearchSound
  PROVE  LET list == [n \in DOMAIN AllEntries |-> AllEntries[n].key]
         IN  /\ list \in Seq(Keys)
             /\ \A m, n \in DOMAIN list : list[m] = list[n] => m = n
             /\ {list[n] : n \in DOMAIN list} = KeysIn
<1> DEFINE q == AllEntries
           list == [n \in DOMAIN q |-> q[n].key]
<1>1. /\ q \in Seq(Entries)
      /\ \A n \in DOMAIN q : \E b \in Buckets : \E m \in DOMAIN hash[b] : q[n] = hash[b][m]
      /\ \A b \in Buckets : \A m \in DOMAIN hash[b] : \E n \in DOMAIN q : q[n] = hash[b][m]
      /\ \A m, n \in DOMAIN q : q[m].key = q[n].key => m = n
  BY AllEntriesAre DEF Rows
<1>2. Len(q) \in Nat /\ DOMAIN q = 1 .. Len(q) /\ \A n \in DOMAIN q : q[n] \in Entries
  BY <1>1, LenProperties, ElementOfSeq
<1> HIDE DEF q
<1>3. \A n \in DOMAIN q : q[n].key \in Keys
  BY <1>2 DEF Entries
<1>4. list \in Seq(Keys)
  BY <1>2, <1>3, IsASeq
<1>5. \A m, n \in DOMAIN list : list[m] = list[n] => m = n
  BY <1>1
<1>6. ASSUME NEW n \in DOMAIN q
      PROVE  q[n].key \in KeysIn
  <2>1. PICK b \in Buckets : \E m \in DOMAIN hash[b] : q[n] = hash[b][m]
    BY <1>1
  <2>2. PICK m \in DOMAIN hash[b] : q[n] = hash[b][m]
    BY <2>1
  <2>3. StdHashFunction(q[n].key) = b
    BY <2>2 DEF ChainsInv, ChainsSound
  <2>4. KeyAt(q[n].key, m)
    BY <2>2, <2>3 DEF KeyAt, Chain
  <2>5. m \in DOMAIN Chain(q[n].key)
    BY <2>2, <2>3 DEF Chain
  <2>6. QED
    BY <1>3, <2>4, <2>5 DEF KeysIn
<1>7. ASSUME NEW k \in KeysIn
      PROVE  \E n \in DOMAIN q : q[n].key = k
  <2>1. k \in Keys /\ StdHashFunction(k) \in Buckets
    BY KeysHaveBuckets DEF KeysIn
  <2>2. PICK m \in DOMAIN Chain(k) : KeyAt(k, m)
    BY DEF KeysIn
  <2>3. m \in DOMAIN hash[StdHashFunction(k)] /\ hash[StdHashFunction(k)][m].key = k
    BY <2>2 DEF KeyAt, Chain
  <2>4. QED
    BY <1>1, <2>1, <2>3
<1>8. {list[n] : n \in DOMAIN list} = KeysIn
  BY <1>6, <1>7
<1>9. QED
  BY <1>4, <1>5, <1>8 DEF q

LEMMA ListStep ==
  ASSUME ChainsInv, SearchSound, HashTableKeys
  PROVE  Dict!ListKeys
<1>1. UNCHANGED Map /\ DOMAIN Map = KeysIn
  BY TableKept DEF HashTableKeys, Map
<1>2. /\ \A m, n \in DOMAIN returned' : returned'[m] = returned'[n] => m = n
      /\ {returned'[n] : n \in DOMAIN returned'} = KeysIn
  BY ListIs DEF HashTableKeys
<1>3. Dict!IsInjective(returned')
  BY <1>2 DEF Dict!IsInjective
<1>4. Dict!Range(returned') = KeysIn
  BY <1>2 DEF Dict!Range
<1>5. QED
  BY <1>1, <1>3, <1>4 DEF Dict!ListKeys, Map

LEMMA DictInit == HashTableCreate => Dict!Init
<1> SUFFICES ASSUME HashTableCreate PROVE Dict!Init
  OBVIOUS
<1>1. \A k \in Keys : DOMAIN Chain(k) = {}
  BY KeysHaveBuckets DEF HashTableCreate, Chain
<1>2. KeysIn = {}
  BY <1>1 DEF KeysIn
<1>3. QED
  BY <1>2 DEF Dict!Init, HashTableCreate

LEMMA DictNext ==
  ASSUME ChainsInv, SearchSound, SearchSound', [TableNext]_tableVars
  PROVE  [Dict!Next]_<<Map, returned>>
<1>1. CASE UNCHANGED tableVars
  BY <1>1, TableKept DEF tableVars
<1>2. CASE \E k \in Keys, v \in Values : HashTableSet(k, v)
  BY <1>2, SetStep DEF Dict!Next
<1>3. CASE \E k \in Keys : HashTableDelete(k)
  BY <1>3, DeleteStep DEF Dict!Next
<1>4. CASE \E k \in Keys : HashTableGet(k)
  BY <1>4, GetStep DEF Dict!Next
<1>5. CASE HashTableKeys
  BY <1>5, ListStep DEF Dict!Next
<1>6. QED
  BY <1>1, <1>2, <1>3, <1>4, <1>5 DEF TableNext

(* For every number of buckets, every width of the sum and any keys, each  *)
(* call does to the table what it would do to a dictionary, and answers    *)
(* what the dictionary would: collisions cannot be told from outside.      *)
THEOREM TableIsADictionary == TableSpec => ImplementsDictionary
<1>1. TableSpec => []ChainsInv
  BY CreateInv, TableNextInv, PTL DEF TableSpec
<1>2. ChainsInv => SearchSound
  BY SearchIsSound
<1>3. ChainsInv /\ SearchSound /\ SearchSound' /\ [TableNext]_tableVars
         => [Dict!Next]_<<[k \in KeysIn |-> ValueOf(k)], returned>>
  BY DictNext DEF Map
<1>4. QED
  BY <1>1, <1>2, <1>3, DictInit, PTL DEF TableSpec, ImplementsDictionary, Dict!Spec

(* The chains hold entries, and every call answers a value, NULL or a list *)
(* of keys: no lookup leaves the array of buckets or the chain it is in.   *)
THEOREM TableTypeCorrect == TableSpec => []TableTypeOK
<1> DEFINE Answered == returned \in Values \cup {NULL} \/ returned \in Seq(Keys)
<1>1. TableSpec => []ChainsInv
  BY CreateInv, TableNextInv, PTL DEF TableSpec
<1>2. ChainsInv => SearchSound
  BY SearchIsSound
<1>3. HashTableCreate => Answered
  BY DEF HashTableCreate
<1>4. ChainsInv /\ SearchSound /\ Answered /\ [TableNext]_tableVars => Answered'
  <2> SUFFICES ASSUME ChainsInv, SearchSound, Answered, [TableNext]_tableVars PROVE Answered'
    OBVIOUS
  <2>1. CASE UNCHANGED tableVars
    BY <2>1 DEF tableVars
  <2>2. CASE \E k \in Keys : returned' = ValueOf(k)
    BY <2>2 DEF SearchSound
  <2>3. CASE HashTableKeys
    BY <2>3, ListIs DEF HashTableKeys
  <2>4. QED
    BY <2>1, <2>2, <2>3 DEF TableNext, HashTableSet, HashTableDelete, HashTableGet
<1>5. ChainsInv /\ Answered => TableTypeOK
  BY DEF ChainsInv, TableTypeOK
<1>6. QED
  BY <1>1, <1>2, <1>3, <1>4, <1>5, PTL DEF TableSpec
=============================================================================
