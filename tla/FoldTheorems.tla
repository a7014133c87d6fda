---------------------------- MODULE FoldTheorems ----------------------------
(***************************************************************************)
(* What can be said of a fold over a finite set S.  The folds of the       *)
(* community modules are iter[S] for a function iter on the subsets of S   *)
(* that satisfies                                                          *)
(*                                                                         *)
(*   iter[s] = IF s = {} THEN base ELSE Op[s][iter[s \ {ch[s]}]]           *)
(*                                                                         *)
(* where ch[s] is the element that s is entered with.  Here Op and ch are  *)
(* functions: facts about operators cannot be instantiated.  A recursive   *)
(* definition means nothing before somebody has shown that there is such a *)
(* function (IterExists); what it gives is then shown by induction over    *)
(* the sets it has come through (IterInduction).                           *)
(***************************************************************************)
EXTENDS Integers, FiniteSetsExt, FiniteSetTheorems, TLAPS

LEMMA LeastOf ==
  ASSUME NEW T, T \subseteq Nat, T # {}
  PROVE  \E x \in T : \A y \in T : x <= y
<1> DEFINE R == {p \in Nat \X Nat : p[1] < p[2]}
<1>1. IsWellFoundedOn(R, Nat)
  BY NatLessThanWellFounded DEF OpToRel
<1> HIDE DEF R
<1>2. PICK x \in T : \A y \in T : <<y, x>> \notin R
  BY <1>1, WFMin
<1>3. ASSUME NEW y \in T
      PROVE  x <= y
  <2>1. x \in Nat /\ y \in Nat /\ <<y, x>> \notin R
    BY <1>2, <1>3
  <2>2. y < x => <<y, x>> \in R
    BY <2>1 DEF R
  <2>3. QED
    BY <2>1, <2>2
<1>4. QED
  BY <1>3

Chooses(ch, S) == \A s \in (SUBSET S) \ {{}} : ch[s] \in s

StaysGood(iter, S, ch, Good) ==
  /\ iter[{}] \in Good[{}]
  /\ \A s \in (SUBSET S) \ {{}} :
       iter[s \ {ch[s]}] \in Good[s \ {ch[s]}] => iter[s] \in Good[s]

Iterates(iter, S, base, ch, Op) ==
  iter = [s \in SUBSET S |-> IF s = {} THEN base ELSE Op[s][iter[s \ {ch[s]}]]]

(* How many elements a subset has, and how many without one of them.       *)
LEMMA Sizes ==
  ASSUME NEW S, IsFiniteSet(S), NEW s \in SUBSET S
  PROVE  /\ Cardinality(s) \in Nat /\ Cardinality(s) <= Cardinality(S)
         /\ Cardinality(s) = 0 <=> s = {}
         /\ \A x \in s : Cardinality(s \ {x}) = Cardinality(s) - 1
<1>1. IsFiniteSet(s) /\ Cardinality(s) <= Cardinality(S)
  BY FS_Subset
<1>2. Cardinality(s) \in Nat
  BY <1>1, FS_CardinalityType
<1>3. Cardinality(s) = 0 <=> s = {}
  BY <1>1, FS_EmptySet
<1>4. \A x \in s : Cardinality(s \ {x}) = Cardinality(s) - 1
  BY <1>1, FS_RemoveElement
<1>5. QED
  BY <1>1, <1>2, <1>3, <1>4

(* Where what one element adds keeps the values good, they stay good.      *)
LEMMA IterInduction ==
  ASSUME NEW S, IsFiniteSet(S), NEW Good, NEW ch, NEW iter,
         Chooses(ch, S), StaysGood(iter, S, ch, Good)
  PROVE  \A s \in SUBSET S : iter[s] \in Good[s]
<1> DEFINE Bad == {s \in SUBSET S : iter[s] \notin Good[s]}
           Counts == {Cardinality(s) : s \in Bad}
<1>1. ASSUME Bad # {}
      PROVE  FALSE
  <2>1. Counts \subseteq Nat /\ Counts # {}
    BY <1>1, Sizes
  <2>2. PICK n \in Counts : \A m \in Counts : n <= m
    BY <2>1, LeastOf
  <2>3. PICK s \in Bad : n = Cardinality(s)
    BY <2>2
  <2>4. s \in (SUBSET S) \ {{}}
    BY <2>3 DEF StaysGood
  <2>5. Cardinality(s \ {ch[s]}) = n - 1 /\ n \in Nat
    BY <2>1, <2>3, <2>4, Sizes DEF Chooses
  <2>6. s \ {ch[s]} \notin Bad
    BY <2>2, <2>5
  <2>7. QED
    BY <2>1, <2>3, <2>4, <2>6 DEF StaysGood
<1>2. QED
  BY <1>1

(* There is a function for any values of Op: level by level.               *)
LEMMA IterExists ==
  ASSUME NEW S, IsFiniteSet(S), NEW base, NEW ch, NEW Op,
         Chooses(ch, S)
  PROVE  \E g : Iterates(g, S, base, ch, Op)
<1> DEFINE P(g, m) ==
             /\ g = [s \in SUBSET S |-> g[s]] /\ g[{}] = base
             /\ \A s \in (SUBSET S) \ {{}} :
                    Cardinality(s) <= m => g[s] = Op[s][g[s \ {ch[s]}]]
           size == Cardinality(S)
           Left == {m \in 0 .. size : ~ \E g : P(g, m)}
<1>1. \E g : P(g, 0)
  <2>1. P([s \in SUBSET S |-> base], 0)
    <3>1. \A s \in (SUBSET S) \ {{}} : Cardinality(s) \in Nat /\ Cardinality(s) # 0
      BY Sizes
    <3>2. QED
      BY <3>1
  <2>2. QED
    BY <2>1
<1>2. ASSUME NEW m \in Nat, NEW g, P(g, m)
      PROVE  \E h : P(h, m + 1)
  <2> DEFINE h == [s \in SUBSET S |-> IF Cardinality(s) = m + 1
                                      THEN Op[s][g[s \ {ch[s]}]] ELSE g[s]]
  <2>1. h = [s \in SUBSET S |-> h[s]]
    OBVIOUS
  <2>2. h[{}] = base
    <3>1. Cardinality({}) = 0
      BY FS_EmptySet
    <3>2. QED
      BY <1>2, <3>1
  <2>3. ASSUME NEW s \in (SUBSET S) \ {{}}, Cardinality(s) <= m + 1
        PROVE  h[s] = Op[s][h[s \ {ch[s]}]]
    <3>1. /\ Cardinality(s) \in Nat /\ s \ {ch[s]} \in SUBSET S
          /\ Cardinality(s \ {ch[s]}) = Cardinality(s) - 1
      BY Sizes DEF Chooses
    <3>2. Cardinality(s \ {ch[s]}) # m + 1
      BY <2>3, <3>1
    <3>3. h[s \ {ch[s]}] = g[s \ {ch[s]}]
      BY <3>1, <3>2
    <3>4. CASE Cardinality(s) = m + 1
      BY <3>3, <3>4
    <3>5. CASE Cardinality(s) # m + 1
      <4>1. Cardinality(s) <= m
        BY <2>3, <3>1, <3>5
      <4>2. h[s] = g[s]
        BY <3>5
      <4>3. QED
        BY <1>2, <3>3, <4>1, <4>2
    <3>6. QED
      BY <3>4, <3>5
  <2> HIDE DEF h
  <2>4. P(h, m + 1)
    BY <2>1, <2>2, <2>3
  <2>5. QED
    BY <2>4
<1>3. size \in Nat
  BY FS_CardinalityType
<1> HIDE DEF P, size
<1>4. ASSUME Left # {}
      PROVE  FALSE
  <2>1. PICK m \in Left : \A n \in Left : m <= n
    <3>1. Left \subseteq Nat
      BY <1>3
    <3> HIDE DEF Left
    <3>2. QED
      BY <1>4, <3>1, LeastOf
  <2>2. m \in Nat /\ m # 0 /\ m <= size
    BY <1>1, <1>3, <2>1
  <2>3. m - 1 \in Nat /\ m - 1 \in 0 .. size /\ m - 1 \notin Left
    BY <1>3, <2>1, <2>2
  <2>4. PICK g : P(g, m - 1)
    BY <2>3
  <2>5. \E h : P(h, (m - 1) + 1)
    BY <1>2, <2>3, <2>4
  <2>6. QED
    BY <2>1, <2>2, <2>5
<1>5. PICK g : P(g, size)
  BY <1>3, <1>4
<1>6. /\ g = [s \in SUBSET S |-> g[s]] /\ g[{}] = base
      /\ \A s \in (SUBSET S) \ {{}} : g[s] = Op[s][g[s \ {ch[s]}]]
  <2>1. \A s \in (SUBSET S) \ {{}} : Cardinality(s) <= size
    BY Sizes DEF size
  <2>2. QED
    BY <1>5, <2>1 DEF P
<1>7. Iterates(g, S, base, ch, Op)
  <2>1. [s \in SUBSET S |-> g[s]]
           = [s \in SUBSET S |-> IF s = {} THEN base ELSE Op[s][g[s \ {ch[s]}]]]
    BY <1>6
  <2>2. QED
    BY <1>6, <2>1 DEF Iterates
<1>8. QED
  BY <1>7

(* The greatest place of a sequence, where FoldLeft enters a set of them.  *)
LEMMA MaxOf ==
  ASSUME NEW n \in Nat, NEW s \in SUBSET (1 .. n), s # {}
  PROVE  Max(s) \in s /\ \A m \in s : m <= Max(s)
<1> DEFINE Mirrored == {n - m : m \in s}
<1>1. Mirrored \subseteq Nat /\ Mirrored # {}
  <2>1. \A m \in s : n - m \in Nat
    OBVIOUS
  <2>2. QED
    BY <2>1
<1>2. PICK d \in Mirrored : \A e \in Mirrored : d <= e
  BY <1>1, LeastOf
<1>3. PICK x \in s : d = n - x
  BY <1>2
<1>4. ASSUME NEW m \in s
      PROVE  x >= m
  <2>1. d <= n - m
    BY <1>2, <1>4
  <2>2. QED
    BY <1>3, <2>1
<1>5. QED
  BY <1>3, <1>4 DEF Max

(***************************************************************************)
(* FoldLeft: the places 1 .. n of a sequence are entered from the first to *)
(* the last.  What is at place m, and what is done with it, is in Op[m];   *)
(* outside of A nothing is known of it.                                    *)
(***************************************************************************)
FoldsLeft(iter, n, A, base, Op) ==
  /\ iter[{}] = base
  /\ \A s \in (SUBSET (1 .. n)) \ {{}} :
       iter[s \ {Max(s)}] \in A => iter[s] = Op[Max(s)][iter[s \ {Max(s)}]]

LEMMA FoldLeftIn ==
  ASSUME NEW n \in Nat, NEW A, NEW base \in A, NEW Op \in [1 .. n -> [A -> A]],
         NEW iter, FoldsLeft(iter, n, A, base, Op)
  PROVE  \A s \in SUBSET (1 .. n) : iter[s] \in A
<1> DEFINE S == 1 .. n
           ch == [s \in SUBSET S |-> Max(s)]
           Good == [s \in SUBSET S |-> A]
<1>1. IsFiniteSet(S)
  BY FS_Interval
<1>2. \A s \in (SUBSET S) \ {{}} : Max(s) \in s
  BY MaxOf
<1>3. Chooses(ch, S)
  BY <1>2 DEF Chooses
<1>4. StaysGood(iter, S, ch, Good)
  <2>1. iter[{}] \in Good[{}]
    BY DEF FoldsLeft
  <2>2. ASSUME NEW s \in (SUBSET S) \ {{}}, iter[s \ {ch[s]}] \in Good[s \ {ch[s]}]
        PROVE  iter[s] \in Good[s]
    <3>1. iter[s \ {Max(s)}] \in A /\ Max(s) \in 1 .. n
      BY <1>2, <2>2
    <3>2. iter[s] = Op[Max(s)][iter[s \ {Max(s)}]]
      BY <3>1 DEF FoldsLeft
    <3>3. QED
      BY <3>1, <3>2
  <2>3. QED
    BY <2>1, <2>2 DEF StaysGood
<1> HIDE DEF S, ch, Good
<1>5. \A s \in SUBSET S : iter[s] \in Good[s]
  BY <1>1, <1>3, <1>4, IterInduction
<1>6. QED
  BY <1>5 DEF S, Good

LEMMA FoldLeftExists ==
  ASSUME NEW n \in Nat, NEW A, NEW base \in A, NEW Op \in [1 .. n -> [A -> A]]
  PROVE  \E iter : /\ iter = [s \in SUBSET (1 .. n) |-> iter[s]]
                   /\ FoldsLeft(iter, n, A, base, Op)
<1> DEFINE S == 1 .. n
           ch == [s \in SUBSET S |-> Max(s)]
           OpOf == [s \in SUBSET S |-> Op[Max(s)]]
<1>1. IsFiniteSet(S)
  BY FS_Interval
<1>2. Chooses(ch, S)
  BY MaxOf DEF Chooses
<1>3. \E iter : Iterates(iter, S, base, ch, OpOf)
  <2> HIDE DEF S, ch, OpOf
  <2>1. QED
    BY <1>1, <1>2, IterExists
<1>4. PICK iter : iter = [s \in SUBSET S |-> IF s = {} THEN base
                                             ELSE OpOf[s][iter[s \ {ch[s]}]]]
  BY <1>3 DEF Iterates
<1>5. iter = [s \in SUBSET S |-> iter[s]] /\ iter[{}] = base
  BY <1>4
<1>6. \A s \in (SUBSET S) \ {{}} : iter[s] = Op[Max(s)][iter[s \ {Max(s)}]]
  BY <1>4
<1>7. QED
  BY <1>5, <1>6 DEF FoldsLeft

(* What has come out after the first places of the sequence.               *)
LEMMA FoldLeftRuns ==
  ASSUME NEW n \in Nat, NEW A, NEW base \in A, NEW Op \in [1 .. n -> [A -> A]],
         NEW iter, FoldsLeft(iter, n, A, base, Op)
  PROVE  /\ iter[1 .. 0] = base
         /\ \A m \in 0 .. n : iter[1 .. m] \in A
         /\ \A m \in 0 .. n - 1 : iter[1 .. m + 1] = Op[m + 1][iter[1 .. m]]
<1>1. 1 .. 0 = {}
  OBVIOUS
<1>2. \A m \in 0 .. n : 1 .. m \in SUBSET (1 .. n)
  OBVIOUS
<1>3. \A m \in 0 .. n : iter[1 .. m] \in A
  BY <1>2, FoldLeftIn
<1>4. ASSUME NEW m \in 0 .. n - 1
      PROVE  iter[1 .. m + 1] = Op[m + 1][iter[1 .. m]]
  <2> DEFINE s == 1 .. m + 1
  <2>1. s \in (SUBSET (1 .. n)) \ {{}} /\ m + 1 \in s
    OBVIOUS
  <2>2. Max(s) \in s /\ \A k \in s : k <= Max(s)
    BY <2>1, MaxOf
  <2>3. Max(s) = m + 1
    BY <2>1, <2>2
  <2>4. s \ {m + 1} = 1 .. m
    OBVIOUS
  <2> HIDE DEF s
  <2>5. iter[s \ {Max(s)}] \in A
    <3>1. m \in 0 .. n
      OBVIOUS
    <3>2. QED
      BY <1>3, <2>3, <2>4, <3>1
  <2>6. iter[s] = Op[Max(s)][iter[s \ {Max(s)}]]
    BY <2>1, <2>5 DEF FoldsLeft
  <2>7. iter[s] = Op[m + 1][iter[1 .. m]]
    BY <2>3, <2>4, <2>6
  <2>8. QED
    BY <2>7 DEF s
<1>5. QED
  BY <1>1, <1>3, <1>4 DEF FoldsLeft

(* run[m] has come out after the first m places.                           *)
RunsLeft(run, n, A, base, Op) ==
  /\ run[0] = base
  /\ \A m \in 0 .. n : run[m] \in A
  /\ \A m \in 0 .. n - 1 : run[m + 1] = Op[m + 1][run[m]]

LEMMA FoldLeftRun ==
  ASSUME NEW n \in Nat, NEW A, NEW base \in A, NEW Op \in [1 .. n -> [A -> A]],
         NEW iter, FoldsLeft(iter, n, A, base, Op)
  PROVE  \E run : RunsLeft(run, n, A, base, Op) /\ run[n] = iter[1 .. n]
<1> DEFINE run == [m \in 0 .. n |-> iter[1 .. m]]
<1>1. /\ iter[1 .. 0] = base
      /\ \A m \in 0 .. n : iter[1 .. m] \in A
      /\ \A m \in 0 .. n - 1 : iter[1 .. m + 1] = Op[m + 1][iter[1 .. m]]
  BY FoldLeftRuns
<1>2. run[0] = base /\ run[n] = iter[1 .. n] /\ \A m \in 0 .. n : run[m] \in A
  BY <1>1
<1>3. \A m \in 0 .. n - 1 : run[m + 1] = Op[m + 1][run[m]]
  <2> TAKE m \in 0 .. n - 1
  <2>1. m \in 0 .. n /\ m + 1 \in 0 .. n
    OBVIOUS
  <2>2. run[m] = iter[1 .. m] /\ run[m + 1] = iter[1 .. m + 1]
    BY <2>1
  <2>3. QED
    BY <1>1, <2>2
<1>4. RunsLeft(run, n, A, base, Op)
  <2> HIDE DEF run
  <2>1. QED
    BY <1>2, <1>3 DEF RunsLeft
<1>5. QED
  BY <1>2, <1>4

(* The same in two words, for proofs with many names in them.              *)
Folding(iter, n, A, base, Op) ==
  /\ n \in Nat /\ base \in A /\ Op \in [1 .. n -> [A -> A]]
  /\ FoldsLeft(iter, n, A, base, Op)

HasRun(iter, n, A, base, Op) ==
  \E run : RunsLeft(run, n, A, base, Op) /\ run[n] = iter[1 .. n]

LEMMA FoldingRuns ==
  ASSUME NEW iter, NEW n, NEW A, NEW base, NEW Op, Folding(iter, n, A, base, Op)
  PROVE  HasRun(iter, n, A, base, Op)
BY FoldLeftRun DEF Folding, HasRun

(* What holds at the start and is kept from place to place holds at every  *)
(* place.                                                                  *)
LEMMA RunInduction ==
  ASSUME NEW n \in Nat, NEW run, NEW Good,
         run[0] \in Good[0],
         \A m \in 0 .. n - 1 : run[m] \in Good[m] => run[m + 1] \in Good[m + 1]
  PROVE  \A m \in 0 .. n : run[m] \in Good[m]
<1> DEFINE Bad == {m \in 0 .. n : run[m] \notin Good[m]}
<1>1. ASSUME Bad # {}
      PROVE  FALSE
  <2>0. Bad \in SUBSET Nat
    OBVIOUS
  <2>1. PICK m \in Bad : \A k \in Bad : m <= k
    <3> HIDE DEF Bad
    <3>1. QED
      BY <1>1, <2>0, LeastOf
  <2>2. m # 0 /\ m \in 0 .. n
    BY <2>1
  <2>3. m - 1 \in 0 .. n - 1 /\ (m - 1) + 1 = m
    BY <2>2
  <2>4. m - 1 \in 0 .. n /\ ~(m <= m - 1)
    BY <2>2
  <2>5. m - 1 \notin Bad
    BY <2>1, <2>4
  <2>6. run[m - 1] \in Good[m - 1]
    BY <2>4, <2>5
  <2>7. QED
    BY <2>1, <2>3, <2>6
<1>2. QED
  BY <1>1
=============================================================================
