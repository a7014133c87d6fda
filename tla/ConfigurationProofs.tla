------------------------- MODULE ConfigurationProofs -------------------------
(***************************************************************************)
(* Proofs about the reader of the configuration file, for files of any     *)
(* length, words of any length and any size of the line buffer.            *)
(***************************************************************************)
EXTENDS Configuration, FoldTheorems, SequenceTheorems, TLAPS

(* What words and the blanks between them are made of, and what a file is. *)
Plain == (STRING \cup {Blank}) \ {Newline, Nul}
Cells == Plain \cup {Newline, Nul}
Texts == Seq(Plain)
Words == {w \in Seq(Plain) : w # <<>> /\ \A i \in 1 .. Len(w) : w[i] # Blank}

LEMMA CellsAre ==
  /\ Blank \in Plain /\ Newline \in Cells /\ Nul \in Cells
  /\ Blank # Newline /\ Blank # Nul /\ Newline # Nul
  /\ Newline \notin Plain /\ Nul \notin Plain /\ Plain \subseteq Cells
<1>1. Blank # Newline
  BY Zenon DEF Blank, Newline
<1>2. Blank # Nul
  BY Zenon DEF Blank, Nul
<1>3. Newline # Nul
  BY Zenon DEF Newline, Nul
<1>4. QED
  BY <1>1, <1>2, <1>3 DEF Plain, Cells

Edge(layout)   == IF layout = "wide" THEN <<Blank>> ELSE <<>>
Gap(s, layout) == IF s = <<>> THEN <<>> ELSE Edge(layout) \o <<Blank>>

LEMMA EdgeIs ==
  ASSUME NEW layout
  PROVE  /\ Edge(layout) \in Seq(Plain)
         /\ Len(Edge(layout)) = IF layout = "wide" THEN 1 ELSE 0
         /\ \A i \in 1 .. Len(Edge(layout)) : Edge(layout)[i] = Blank
BY EmptySeq, CellsAre DEF Edge

LEMMA GapIs ==
  ASSUME NEW s \in Seq(Plain), NEW layout
  PROVE  /\ Gap(s, layout) \in Seq(Plain)
         /\ Len(Gap(s, layout)) = IF s = <<>> THEN 0 ELSE Len(Edge(layout)) + 1
         /\ \A i \in 1 .. Len(Gap(s, layout)) : Gap(s, layout)[i] = Blank
<1>1. CASE s = <<>>
  BY <1>1, EmptySeq DEF Gap
<1>2. CASE s # <<>>
  <2> DEFINE e == Edge(layout)
             b == <<Blank>>
  <2>1. e \in Seq(Plain) /\ Len(e) \in Nat /\ \A i \in 1 .. Len(e) : e[i] = Blank
    BY EdgeIs, LenProperties
  <2>2. b \in Seq(Plain) /\ Len(b) = 1 /\ b[1] = Blank
    BY CellsAre
  <2>3. Gap(s, layout) = e \o b
    BY <1>2 DEF Gap
  <2> HIDE DEF e, b
  <2>4. /\ e \o b \in Seq(Plain) /\ Len(e \o b) = Len(e) + Len(b)
        /\ \A i \in 1 .. Len(e) + Len(b) :
             (e \o b)[i] = IF i <= Len(e) THEN e[i] ELSE b[i - Len(e)]
    BY <2>1, <2>2, ConcatProperties
  <2>5. \A i \in 1 .. Len(e) + 1 : (e \o b)[i] = Blank
    <3> TAKE i \in 1 .. Len(e) + 1
    <3>1. (e \o b)[i] = IF i <= Len(e) THEN e[i] ELSE b[i - Len(e)]
      BY <2>2, <2>4
    <3>2. i <= Len(e) => i \in 1 .. Len(e)
      BY <2>1
    <3>3. ~(i <= Len(e)) => i - Len(e) = 1
      BY <2>1
    <3>4. QED
      BY <2>1, <2>2, <3>1, <3>2, <3>3
  <2>6. QED
    BY <1>2, <2>2, <2>3, <2>4, <2>5 DEF e
<1>3. QED
  BY <1>1, <1>2

-----------------------------------------------------------------------------
(* One line as text: run[m] has its first m words.                         *)

TextRuns(run, line, layout) ==
  /\ run[0] = <<>>
  /\ \A m \in 0 .. Len(line) : run[m] \in Texts
  /\ \A m \in 0 .. Len(line) - 1 : run[m + 1] = (run[m] \o Gap(run[m], layout)) \o line[m + 1]

LEMMA TextRun ==
  ASSUME NEW line \in Seq(Seq(Plain)), NEW layout
  PROVE  \E run : /\ TextRuns(run, line, layout)
                  /\ Text(line, layout) = (Edge(layout) \o run[Len(line)]) \o Edge(layout)
<1> DEFINE n == Len(line)
           Joined(s, w) == (s \o Gap(s, layout)) \o w
           base == <<>>
           Op == [m \in 1 .. n |-> [s \in Texts |-> Joined(s, line[m])]]
           Iter(g) == [s \in SUBSET (DOMAIN line) |-> IF s = {} THEN base
                         ELSE Joined(g[s \ {Max(s)}], line[Max(s)])]
           iter == CHOOSE g : g = Iter(g)
<1>1. Text(line, layout) = (Edge(layout) \o iter[DOMAIN line]) \o Edge(layout)
  BY DEF Text, FoldLeft, MapThenFoldSet, Edge, Gap
<1>2. n \in Nat /\ DOMAIN line = 1 .. n /\ \A m \in 1 .. n : line[m] \in Texts
  BY LenProperties, ElementOfSeq DEF Texts
<1>3. base \in Texts
  BY EmptySeq DEF Texts
<1>4. Op \in [1 .. n -> [Texts -> Texts]]
  <2>1. ASSUME NEW m \in 1 .. n, NEW s \in Texts
        PROVE  Joined(s, line[m]) \in Texts
    BY <1>2, <2>1, GapIs, ConcatProperties DEF Texts
  <2> HIDE DEF Joined
  <2>2. QED
    BY <2>1
<1>5. \A s \in (SUBSET (1 .. n)) \ {{}} : Max(s) \in 1 .. n
  <2> HIDE DEF n
  <2>1. QED
    BY <1>2, MaxOf
<1> HIDE DEF n, base, Joined
<1>6. \A g : FoldsLeft(g, n, Texts, base, Op)
         <=> /\ g[{}] = base
             /\ \A s \in (SUBSET (1 .. n)) \ {{}} :
                  g[s \ {Max(s)}] \in Texts
                     => g[s] = Joined(g[s \ {Max(s)}], line[Max(s)])
  BY <1>5 DEF FoldsLeft
<1>7. \E g : g = Iter(g)
  <2> HIDE DEF Op
  <2>1. PICK g : g = [s \in SUBSET (1 .. n) |-> g[s]] /\ FoldsLeft(g, n, Texts, base, Op)
    BY <1>2, <1>3, <1>4, FoldLeftExists
  <2>2. \A s \in SUBSET (1 .. n) : g[s] \in Texts
    BY <1>2, <1>3, <1>4, <2>1, FoldLeftIn
  <2>3. \A s \in (SUBSET (1 .. n)) \ {{}} : g[s] = Joined(g[s \ {Max(s)}], line[Max(s)])
    BY <1>6, <2>1, <2>2
  <2>4. g[{}] = base
    BY <2>1 DEF FoldsLeft
  <2>5. g = Iter(g)
    BY <1>2, <2>1, <2>3, <2>4
  <2>6. QED
    BY <2>5
<1>8. iter = Iter(iter)
  <2> HIDE DEF Iter
  <2>1. QED
    BY <1>7
<1> HIDE DEF iter
<1>9. FoldsLeft(iter, n, Texts, base, Op)
  <2>1. iter[{}] = base
    BY <1>8
  <2>2. \A s \in (SUBSET (1 .. n)) \ {{}} : iter[s] = Joined(iter[s \ {Max(s)}], line[Max(s)])
    BY <1>2, <1>8
  <2>3. \A s \in (SUBSET (1 .. n)) \ {{}} :
          iter[s \ {Max(s)}] \in Texts
             => iter[s] = Joined(iter[s \ {Max(s)}], line[Max(s)])
    BY <2>2
  <2>4. QED
    BY <1>6, <2>1, <2>3
<1>10. PICK run : RunsLeft(run, n, Texts, base, Op) /\ run[n] = iter[1 .. n]
  <2>1. n \in Nat
    BY <1>2
  <2> HIDE DEF Op, Iter
  <2>2. QED
    BY <1>3, <1>4, <1>9, <2>1, FoldLeftRun
<1>11. \A m \in 0 .. n - 1 : run[m + 1] = Joined(run[m], line[m + 1])
  <2> TAKE m \in 0 .. n - 1
  <2>1. m + 1 \in 1 .. n /\ m \in 0 .. n
    BY <1>2
  <2>2. QED
    BY <1>10, <2>1 DEF RunsLeft
<1>12. TextRuns(run, line, layout)
  BY <1>10, <1>11 DEF RunsLeft, TextRuns, Texts, n, base, Joined
<1>13. Text(line, layout) = (Edge(layout) \o run[Len(line)]) \o Edge(layout)
  BY <1>1, <1>2, <1>10 DEF n
<1>14. QED
  BY <1>12, <1>13

(* t is s, then g, then w. *)
Joins(t, s, g, w) ==
  /\ Len(t) = Len(s) + Len(g) + Len(w)
  /\ \A i \in 1 .. Len(s) : t[i] = s[i]
  /\ \A i \in 1 .. Len(g) : t[Len(s) + i] = g[i]
  /\ \A i \in 1 .. Len(w) : t[Len(s) + Len(g) + i] = w[i]

LEMMA JoinIs ==
  ASSUME NEW S, NEW s \in Seq(S), NEW g \in Seq(S), NEW w \in Seq(S)
  PROVE  ((s \o g) \o w) \in Seq(S) /\ Joins((s \o g) \o w, s, g, w)
<1> DEFINE u == s \o g
           t == u \o w
<1>1. /\ u \in Seq(S) /\ Len(u) = Len(s) + Len(g)
      /\ \A i \in 1 .. Len(s) + Len(g) : u[i] = IF i <= Len(s) THEN s[i] ELSE g[i - Len(s)]
  BY ConcatProperties
<1> HIDE DEF u
<1>2. /\ t \in Seq(S) /\ Len(t) = Len(u) + Len(w)
      /\ \A i \in 1 .. Len(u) + Len(w) : t[i] = IF i <= Len(u) THEN u[i] ELSE w[i - Len(u)]
  <2>1. u \in Seq(S)
    BY <1>1
  <2>2. QED
    BY <2>1, ConcatProperties
<1> DEFINE a == Len(s)
           b == Len(g)
           c == Len(w)
<1>3. a \in Nat /\ b \in Nat /\ c \in Nat
  BY LenProperties
<1>4. /\ Len(u) = a + b /\ Len(t) = a + b + c
      /\ \A i \in 1 .. a + b : u[i] = IF i <= a THEN s[i] ELSE g[i - a]
      /\ \A i \in 1 .. a + b + c : t[i] = IF i <= a + b THEN u[i] ELSE w[i - (a + b)]
  BY <1>1, <1>2
<1> HIDE DEF t, a, b, c
<1>5. \A i \in 1 .. a : t[i] = s[i]
  <2> TAKE i \in 1 .. a
  <2>1. i \in 1 .. a + b /\ i \in 1 .. a + b + c /\ i <= a /\ i <= a + b
    BY <1>3
  <2>2. QED
    BY <1>4, <2>1
<1>6. \A i \in 1 .. b : t[a + i] = g[i]
  <2> TAKE i \in 1 .. b
  <2>1. /\ a + i \in 1 .. a + b /\ a + i \in 1 .. a + b + c /\ ~(a + i <= a)
        /\ a + i <= a + b /\ (a + i) - a = i
    BY <1>3
  <2>2. QED
    BY <1>4, <2>1
<1>7. \A i \in 1 .. c : t[a + b + i] = w[i]
  <2> TAKE i \in 1 .. c
  <2>1. /\ a + b + i \in 1 .. a + b + c /\ ~(a + b + i <= a + b)
        /\ (a + b + i) - (a + b) = i
    BY <1>3
  <2>2. QED
    BY <1>4, <2>1
<1>8. QED
  BY <1>2, <1>4, <1>5, <1>6, <1>7 DEF Joins, t, u, a, b, c

(* What one more word adds to the text.                                    *)
Adds(new, old, gap, word) ==
  /\ Len(new) = Len(old) + gap + Len(word)
  /\ \A i \in 1 .. Len(old) : new[i] = old[i]
  /\ \A i \in 1 .. gap : new[Len(old) + i] = Blank
  /\ \A i \in 1 .. Len(word) : new[Len(old) + gap + i] = word[i]

Between(m, layout) == IF m = 0 THEN 0 ELSE Len(Edge(layout)) + 1

LEMMA TextStep ==
  ASSUME NEW line \in Seq(Words), NEW layout, NEW run, TextRuns(run, line, layout),
         NEW m \in 0 .. Len(line) - 1
  PROVE  /\ Len(run[m]) \in Nat /\ line[m + 1] \in Words /\ Len(line[m + 1]) \in Nat \ {0}
         /\ Between(m, layout) \in Nat
         /\ Adds(run[m + 1], run[m], Between(m, layout), line[m + 1])
<1> DEFINE s == run[m]
           g == Gap(s, layout)
           w == line[m + 1]
           e == Len(Edge(layout))
<1>1. Len(line) \in Nat /\ m \in 0 .. Len(line) /\ m + 1 \in 1 .. Len(line)
  BY LenProperties
<1>2. s \in Texts /\ run[m + 1] = (s \o g) \o w
  BY <1>1 DEF TextRuns
<1>3. w \in Words /\ w \in Texts /\ Len(w) \in Nat \ {0}
  <2>1. w \in Words
    BY <1>1, ElementOfSeq
  <2>2. QED
    BY <2>1, EmptySeq DEF Words, Texts
<1>4. e \in Nat
  BY EdgeIs
<1>5. m = 0 <=> s = <<>>
  <2>1. m = 0 => s = <<>>
    BY DEF TextRuns
  <2>2. ASSUME m # 0
        PROVE  s # <<>>
    <3> DEFINE k == m - 1
    <3>1. k \in 0 .. Len(line) - 1 /\ k + 1 = m /\ k \in 0 .. Len(line) /\ m \in 1 .. Len(line)
      BY <1>1, <2>2
    <3> HIDE DEF k
    <3>2. run[k] \in Texts /\ run[k + 1] = (run[k] \o Gap(run[k], layout)) \o line[k + 1]
      BY <3>1 DEF TextRuns
    <3>3. line[k + 1] \in Words
      BY <3>1, ElementOfSeq
    <3>4. line[k + 1] \in Seq(Plain) /\ Len(line[k + 1]) \in Nat \ {0}
      BY <3>3, EmptySeq DEF Words
    <3>5. Gap(run[k], layout) \in Seq(Plain) /\ run[k] \in Seq(Plain)
      BY <3>2, GapIs DEF Texts
    <3>6. Len(run[k + 1]) = Len(run[k]) + Len(Gap(run[k], layout)) + Len(line[k + 1])
      BY <3>2, <3>4, <3>5, JoinIs DEF Joins
    <3>7. Len(run[k]) \in Nat /\ Len(Gap(run[k], layout)) \in Nat
      BY <3>5, LenProperties
    <3>8. \A a, b \in Nat, c \in Nat \ {0} : a + b + c # 0
      OBVIOUS
    <3>9. Len(run[k + 1]) # 0
      BY <3>4, <3>6, <3>7, <3>8
    <3>10. QED
      BY <3>1, <3>9, EmptySeq
  <2>3. QED
    BY <2>1, <2>2
<1>6. /\ g \in Seq(Plain) /\ Len(g) = IF m = 0 THEN 0 ELSE e + 1
      /\ \A i \in 1 .. Len(g) : g[i] = Blank
  BY <1>2, <1>5, GapIs DEF Texts
<1>7. s \in Seq(Plain) /\ w \in Seq(Plain) /\ Len(s) \in Nat
  BY <1>2, <1>3, LenProperties DEF Texts
<1>8. Between(m, layout) \in Nat /\ Len(g) = Between(m, layout)
  BY <1>4, <1>6 DEF Between
<1> HIDE DEF s, g, w, e
<1>9. Joins(run[m + 1], s, g, w)
  <2>1. s \in Seq(Plain) /\ g \in Seq(Plain) /\ w \in Seq(Plain)
    BY <1>6, <1>7
  <2>2. QED
    BY <1>2, <2>1, JoinIs
<1>10. Adds(run[m + 1], s, Between(m, layout), w)
  BY <1>6, <1>8, <1>9 DEF Joins, Adds
<1>11. QED
  BY <1>3, <1>7, <1>8, <1>10 DEF s, w

(* In the text, word m + 1 follows ends[m] and a few blanks, at least one  *)
(* behind another word, and goes up to ends[m + 1].                        *)
Placed(text, line, ends) ==
  /\ ends \in [0 .. Len(line) -> Nat] /\ ends[0] = 0
  /\ ends[Len(line)] <= Len(text)
  /\ \A i \in ends[Len(line)] + 1 .. Len(text) : text[i] = Blank
  /\ \A m \in 0 .. Len(line) - 1 :
       LET from == ends[m + 1] - Len(line[m + 1])
       IN /\ ends[m] <= from /\ (m > 0 => ends[m] < from) /\ ends[m + 1] <= Len(text)
          /\ \A i \in ends[m] + 1 .. from : text[i] = Blank
          /\ \A i \in 1 .. Len(line[m + 1]) : text[from + i] = line[m + 1][i]

LEMMA TextPrefix ==
  ASSUME NEW line \in Seq(Words), NEW layout, NEW run, TextRuns(run, line, layout),
         NEW m \in 0 .. Len(line), NEW k \in 0 .. m
  PROVE  /\ Len(run[k]) <= Len(run[m])
         /\ \A i \in 1 .. Len(run[k]) : run[m][i] = run[k][i]
<1> DEFINE n == Len(line)
           Holds(x, p) == \A q \in 0 .. p : /\ Len(run[q]) <= Len(x)
                                            /\ \A i \in 1 .. Len(run[q]) : x[i] = run[q][i]
           Good == [p \in 0 .. n |-> {x \in {run[p]} : Holds(x, p)}]
<1>1. n \in Nat
  BY LenProperties
<1>2. \A p \in 0 .. n : Len(run[p]) \in Nat
  BY LenProperties DEF TextRuns, Texts
<1>3. run[0] \in Good[0]
  BY <1>1, <1>2
<1>4. ASSUME NEW p \in 0 .. n - 1, run[p] \in Good[p]
      PROVE  run[p + 1] \in Good[p + 1]
  <2>1. p \in 0 .. n /\ p + 1 \in 0 .. n
    BY <1>1
  <2>2. Holds(run[p], p)
    BY <1>4, <2>1
  <2>3. /\ Len(run[p]) <= Len(run[p + 1])
        /\ \A i \in 1 .. Len(run[p]) : run[p + 1][i] = run[p][i]
    <3>1. p \in 0 .. Len(line) - 1
      OBVIOUS
    <3> HIDE DEF n, Good, Holds
    <3>2. /\ Adds(run[p + 1], run[p], Between(p, layout), line[p + 1])
          /\ Len(line[p + 1]) \in Nat /\ Len(run[p]) \in Nat /\ Between(p, layout) \in Nat
      BY <3>1, TextStep
    <3>3. \A a, b, c \in Nat : a <= a + b + c
      OBVIOUS
    <3>4. QED
      BY <3>2, <3>3 DEF Adds
  <2>4. ASSUME NEW q \in 0 .. p + 1
        PROVE  /\ Len(run[q]) <= Len(run[p + 1])
               /\ \A i \in 1 .. Len(run[q]) : run[p + 1][i] = run[q][i]
    <3>1. CASE q = p + 1
      BY <1>2, <2>1, <3>1
    <3>2. CASE q \in 0 .. p
      <4>1. /\ Len(run[q]) <= Len(run[p])
            /\ \A i \in 1 .. Len(run[q]) : run[p][i] = run[q][i]
        BY <2>2, <3>2
      <4>2. Len(run[q]) \in Nat /\ Len(run[p]) \in Nat /\ Len(run[p + 1]) \in Nat
        BY <1>2, <2>1, <3>2
      <4>3. QED
        BY <2>3, <4>1, <4>2
    <3>3. QED
      BY <3>1, <3>2
  <2>5. Holds(run[p + 1], p + 1)
    BY <2>4
  <2>6. QED
    BY <2>1, <2>5
<1>5. \A p \in 0 .. n : run[p] \in Good[p]
  <2> HIDE DEF Good
  <2>1. QED
    BY <1>1, <1>3, <1>4, RunInduction
<1>6. Holds(run[m], m)
  BY <1>5
<1>7. QED
  BY <1>6

LEMMA TextIs ==
  ASSUME NEW line \in Seq(Words), NEW layout
  PROVE  /\ Text(line, layout) \in Texts
         /\ \E ends : Placed(Text(line, layout), line, ends)
<1> DEFINE n == Len(line)
           T == Text(line, layout)
           E == Edge(layout)
           e == Len(E)
<1>1. line \in Seq(Texts) /\ n \in Nat
  <2>1. Words \subseteq Texts
    BY DEF Words, Texts
  <2>2. QED
    BY <2>1, SeqMonotonic, LenProperties
<1>2. PICK run : TextRuns(run, line, layout) /\ T = (E \o run[n]) \o E
  BY <1>1, TextRun DEF Texts
<1>3. \A m \in 0 .. n : run[m] \in Texts /\ Len(run[m]) \in Nat
  BY <1>2, LenProperties DEF TextRuns, Texts
<1>4. run[0] = <<>> /\ Len(run[0]) = 0
  BY <1>2, EmptySeq DEF TextRuns
<1>5. E \in Seq(Plain) /\ e \in Nat /\ \A i \in 1 .. e : E[i] = Blank
  BY EdgeIs
<1>6. run[n] \in Seq(Plain)
  BY <1>1, <1>3 DEF Texts
<1> DEFINE L == [m \in 0 .. n |-> Len(run[m])]
<1>7. /\ T \in Seq(Plain) /\ Len(T) = e + L[n] + e
      /\ \A i \in 1 .. e : T[i] = Blank
      /\ \A i \in 1 .. L[n] : T[e + i] = run[n][i]
      /\ \A i \in 1 .. e : T[e + L[n] + i] = Blank
  <2>1. L[n] = Len(run[n])
    <3>1. n \in 0 .. n
      BY <1>1
    <3>2. QED
      BY <3>1
  <2>2. E \in Seq(Plain) /\ run[n] \in Seq(Plain)
    BY <1>5, <1>6
  <2> HIDE DEF E, n, T, L
  <2>3. T \in Seq(Plain) /\ Joins(T, E, run[n], E)
    BY <1>2, <2>2, JoinIs
  <2>4. QED
    BY <1>5, <2>1, <2>3 DEF Joins
<1>8. \A m \in 0 .. n : L[m] \in Nat /\ L[m] <= L[n]
                        /\ \A i \in 1 .. L[m] : run[n][i] = run[m][i]
  <2> TAKE m \in 0 .. n
  <2>1. n \in 0 .. n /\ m \in 0 .. n
    BY <1>1
  <2>2. Len(run[m]) <= Len(run[n]) /\ \A i \in 1 .. Len(run[m]) : run[n][i] = run[m][i]
    BY <1>2, <2>1, TextPrefix
  <2>3. QED
    BY <1>3, <2>1, <2>2
<1> DEFINE ends == [m \in 0 .. n |-> IF m = 0 THEN 0 ELSE e + L[m]]
<1>9. ends \in [0 .. n -> Nat] /\ ends[0] = 0 /\ L[0] = 0
  BY <1>1, <1>4, <1>5, <1>8
<1>10. ends[n] <= Len(T) /\ \A i \in ends[n] + 1 .. Len(T) : T[i] = Blank
  <2> HIDE DEF T, E, e, L
  <2>1. n \in 0 .. n /\ L[n] \in Nat
    BY <1>1, <1>8
  <2>2. CASE n = 0
    <3>1. ends[n] = 0 /\ L[n] = 0
      BY <1>9, <2>2
    <3>2. ASSUME NEW i \in 1 .. e + e
          PROVE  T[i] = Blank
      <4>1. i \in 1 .. e \/ (i - e \in 1 .. e /\ e + 0 + (i - e) = i)
        BY <1>5
      <4>2. QED
        BY <1>7, <3>1, <4>1
    <3> HIDE DEF ends
    <3>3. Len(T) = e + e
      BY <1>5, <1>7, <3>1
    <3>4. QED
      BY <1>5, <3>1, <3>2, <3>3
  <2>3. CASE n # 0
    <3>1. ends[n] = e + L[n]
      BY <2>1, <2>3
    <3> HIDE DEF ends
    <3>2. ASSUME NEW i \in e + L[n] + 1 .. e + L[n] + e
          PROVE  T[i] = Blank
      <4>1. i - (e + L[n]) \in 1 .. e /\ e + L[n] + (i - (e + L[n])) = i
        BY <1>5, <2>1
      <4>2. QED
        BY <1>7, <4>1
    <3>3. QED
      BY <1>5, <1>7, <2>1, <3>1, <3>2
  <2>4. QED
    BY <2>2, <2>3
<1>11. ASSUME NEW m \in 0 .. n - 1, NEW from, from = ends[m + 1] - Len(line[m + 1])
       PROVE  /\ ends[m] <= from /\ (m > 0 => ends[m] < from) /\ ends[m + 1] <= Len(T)
              /\ \A i \in ends[m] + 1 .. from : T[i] = Blank
              /\ \A i \in 1 .. Len(line[m + 1]) : T[from + i] = line[m + 1][i]
  <2> DEFINE gap == Between(m, layout)
             w == line[m + 1]
             lw == Len(w)
             old == L[m]
             new == L[m + 1]
             all == L[n]
             size == Len(T)
             before == ends[m]
             upto == ends[m + 1]
  <2>1. m \in 0 .. n /\ m + 1 \in 0 .. n /\ n \in 0 .. n /\ m \in Nat /\ m + 1 # 0
    BY <1>1
  <2>2. /\ gap \in Nat /\ lw \in Nat /\ Adds(run[m + 1], run[m], gap, w)
    BY <1>2, <2>1, TextStep
  <2>3. (m = 0 => gap = 0) /\ (m > 0 => gap > 0)
    BY <1>5, <2>1 DEF Between
  <2>4. old = Len(run[m]) /\ new = Len(run[m + 1])
    BY <2>1
  <2>5. /\ new = old + gap + lw
        /\ \A i \in 1 .. gap : run[m + 1][old + i] = Blank
        /\ \A i \in 1 .. lw : run[m + 1][old + gap + i] = w[i]
    BY <2>2, <2>4 DEF Adds
  <2>6. /\ upto = e + new /\ (m > 0 => before = e + old)
        /\ (m = 0 => before = 0 /\ old = 0)
    BY <1>9, <2>1
  <2>7. /\ old \in Nat /\ new \in Nat /\ new <= all /\ all \in Nat
        /\ \A i \in 1 .. new : run[n][i] = run[m + 1][i]
    BY <1>8, <2>1
  <2>8. /\ e \in Nat /\ size = e + all + e
        /\ \A i \in 1 .. e : T[i] = Blank
        /\ \A i \in 1 .. all : T[e + i] = run[n][i]
    BY <1>5, <1>7
  <2>9. from = upto - lw
    BY <1>11
  <2> HIDE DEF gap, w, lw, old, new, all, size, before, upto, T, E, e, L, ends
  <2>10. from = e + old + gap
    BY <2>2, <2>5, <2>6, <2>7, <2>8, <2>9
  <2>11. before <= from /\ (m > 0 => before < from) /\ upto <= size
    <3>1. e \in Nat /\ gap \in Nat /\ old \in Nat /\ new \in Nat /\ all \in Nat /\ new <= all
      BY <2>2, <2>7, <2>8
    <3>2. /\ from = e + old + gap /\ upto = e + new /\ size = e + all + e
          /\ m > 0 => before = e + old /\ gap > 0
          /\ m = 0 => before = 0
      BY <2>3, <2>6, <2>8, <2>10
    <3>3. m = 0 \/ m > 0
      BY <2>1
    <3>4. CASE m = 0
      BY <3>1, <3>2, <3>4
    <3>5. CASE m > 0
      BY <3>1, <3>2, <3>5
    <3>6. QED
      BY <3>3, <3>4, <3>5
  <2>12. \A i \in 1 .. new : T[e + i] = run[m + 1][i]
    <3> TAKE i \in 1 .. new
    <3>1. i \in 1 .. all
      BY <2>7
    <3>2. QED
      BY <2>7, <2>8, <3>1
  <2>13. ASSUME NEW i \in before + 1 .. from
         PROVE  T[i] = Blank
    <3>1. CASE m = 0
      <4>1. i \in 1 .. e
        BY <2>3, <2>6, <2>8, <2>10, <3>1
      <4>2. QED
        BY <2>8, <4>1
    <3>2. CASE m > 0
      <4> DEFINE j == i - (e + old)
      <4>1. j \in 1 .. gap /\ old + j \in 1 .. new /\ e + (old + j) = i
        BY <2>2, <2>5, <2>6, <2>7, <2>8, <2>10, <3>2
      <4> HIDE DEF j
      <4>2. T[e + (old + j)] = run[m + 1][old + j]
        BY <2>12, <4>1
      <4>3. QED
        BY <2>5, <4>1, <4>2
    <3>3. QED
      BY <2>1, <3>1, <3>2
  <2>14. ASSUME NEW i \in 1 .. lw
         PROVE  T[from + i] = w[i]
    <3>1. \A x, y, z, u \in Nat : \A j \in 1 .. z :
            x + y + j \in 1 .. x + y + z /\ u + (x + y + j) = (u + x + y) + j
      OBVIOUS
    <3>2. old + gap + i \in 1 .. new /\ e + (old + gap + i) = from + i
      <4>1. new = old + gap + lw
        BY <2>5
      <4>2. old \in Nat /\ gap \in Nat /\ lw \in Nat /\ e \in Nat
        BY <2>2, <2>7, <2>8
      <4>3. QED
        BY <2>10, <3>1, <4>1, <4>2
    <3>3. T[e + (old + gap + i)] = run[m + 1][old + gap + i]
      BY <2>12, <3>2
    <3>4. QED
      BY <2>5, <3>2, <3>3
  <2>15. QED
    BY <2>11, <2>13, <2>14 DEF w, lw, size, before, upto
<1>12. Placed(T, line, ends)
  <2> HIDE DEF T, ends
  <2>1. QED
    BY <1>9, <1>10, <1>11 DEF Placed
<1>13. QED
  <2> HIDE DEF ends
  <2>1. QED
    BY <1>7, <1>12 DEF Texts

(* Room between the words only makes a line longer.                        *)
LEMMA PlainShorter ==
  ASSUME NEW line \in Seq(Words), NEW layout
  PROVE  /\ Len(Text(line, layout)) \in Nat /\ Len(Text(line, "wide")) \in Nat
         /\ Len(Text(line, layout)) <= Len(Text(line, "wide"))
<1> DEFINE n == Len(line)
           e == Len(Edge(layout))
           f == Len(Edge("wide"))
<1>1. line \in Seq(Seq(Plain)) /\ n \in Nat
  <2>1. Words \subseteq Seq(Plain)
    BY DEF Words
  <2>2. QED
    BY <2>1, SeqMonotonic, LenProperties
<1>2. PICK run : /\ TextRuns(run, line, layout)
                 /\ Text(line, layout) = (Edge(layout) \o run[n]) \o Edge(layout)
  BY <1>1, TextRun
<1>3. PICK wide : /\ TextRuns(wide, line, "wide")
                  /\ Text(line, "wide") = (Edge("wide") \o wide[n]) \o Edge("wide")
  BY <1>1, TextRun
<1>4. \A m \in 0 .. n : /\ run[m] \in Seq(Plain) /\ Len(run[m]) \in Nat
                        /\ wide[m] \in Seq(Plain) /\ Len(wide[m]) \in Nat
  BY <1>2, <1>3, LenProperties DEF TextRuns, Texts
<1>5. /\ Edge(layout) \in Seq(Plain) /\ Edge("wide") \in Seq(Plain)
      /\ e \in Nat /\ f \in Nat /\ e <= f
  BY EdgeIs
<1> DEFINE Good == [m \in 0 .. n |-> {x \in {run[m]} : Len(x) <= Len(wide[m])}]
<1>6. run[0] \in Good[0]
  BY <1>1, <1>2, <1>3, EmptySeq DEF TextRuns
<1>7. ASSUME NEW m \in 0 .. n - 1, run[m] \in Good[m]
      PROVE  run[m + 1] \in Good[m + 1]
  <2>1. /\ Adds(run[m + 1], run[m], Between(m, layout), line[m + 1])
        /\ Len(line[m + 1]) \in Nat /\ Between(m, layout) \in Nat
    <3> HIDE DEF Good
    <3>1. QED
      BY <1>2, TextStep
  <2>2. /\ Adds(wide[m + 1], wide[m], Between(m, "wide"), line[m + 1])
        /\ Between(m, "wide") \in Nat
    <3> HIDE DEF Good
    <3>1. QED
      BY <1>3, TextStep
  <2>3. Between(m, layout) <= Between(m, "wide")
    BY <1>5 DEF Between
  <2>4. m \in 0 .. n /\ m + 1 \in 0 .. n
    BY <1>1
  <2>5. Len(run[m]) <= Len(wide[m])
    BY <1>7, <2>4
  <2>6. \A a, b, c, g, h \in Nat : a <= b /\ g <= h => a + g + c <= b + h + c
    OBVIOUS
  <2>7. Len(run[m + 1]) <= Len(wide[m + 1])
    <3> HIDE DEF Good
    <3>1. /\ Len(run[m + 1]) = Len(run[m]) + Between(m, layout) + Len(line[m + 1])
          /\ Len(wide[m + 1]) = Len(wide[m]) + Between(m, "wide") + Len(line[m + 1])
      BY <2>1, <2>2 DEF Adds
    <3>2. Len(run[m]) \in Nat /\ Len(wide[m]) \in Nat
      BY <1>4, <2>4
    <3>3. /\ Between(m, layout) \in Nat /\ Between(m, "wide") \in Nat
          /\ Len(line[m + 1]) \in Nat
      BY <2>1, <2>2
    <3> DEFINE a == Len(run[m])
               b == Len(wide[m])
               c == Len(line[m + 1])
               g == Between(m, layout)
               h == Between(m, "wide")
    <3>4. a \in Nat /\ b \in Nat /\ c \in Nat /\ g \in Nat /\ h \in Nat /\ a <= b /\ g <= h
      BY <2>3, <2>5, <3>2, <3>3
    <3>5. Len(run[m + 1]) = a + g + c /\ Len(wide[m + 1]) = b + h + c
      BY <3>1
    <3> HIDE DEF a, b, c, g, h
    <3>6. a + g + c <= b + h + c
      BY <2>6, <3>4
    <3>7. QED
      BY <3>5, <3>6
  <2>8. QED
    BY <2>4, <2>7
<1>8. \A m \in 0 .. n : run[m] \in Good[m]
  <2> HIDE DEF Good
  <2>1. QED
    BY <1>1, <1>6, <1>7, RunInduction
<1>9. n \in 0 .. n
  BY <1>1
<1>10. Len(run[n]) <= Len(wide[n])
  BY <1>8, <1>9
<1>11. Len(Text(line, layout)) = e + Len(run[n]) + e
  BY <1>2, <1>4, <1>5, <1>9, JoinIs DEF Joins
<1>12. Len(Text(line, "wide")) = f + Len(wide[n]) + f
  BY <1>3, <1>4, <1>5, <1>9, JoinIs DEF Joins
<1>13. \A a, b, c, d \in Nat : a <= b /\ c <= d => /\ c + a + c \in Nat /\ d + b + d \in Nat
                                                   /\ c + a + c <= d + b + d
  OBVIOUS
<1>14. Len(run[n]) \in Nat /\ Len(wide[n]) \in Nat
  BY <1>4, <1>9
<1> HIDE DEF e, f, n
<1>15. QED
  BY <1>5, <1>10, <1>11, <1>12, <1>13, <1>14

-----------------------------------------------------------------------------
(* The file as text: one piece for each line.                              *)
Piece(f, n, layout, closed) ==
  Text(f[n], layout) \o (IF n < Len(f) \/ closed THEN <<Newline>> ELSE <<>>)

(* The text, and a newline or not. *)
Ends(piece, text, newline) ==
  /\ Len(text) \in Nat /\ Len(piece) \in Nat
  /\ Len(piece) = Len(text) + (IF newline THEN 1 ELSE 0)
  /\ \A i \in 1 .. Len(text) : piece[i] = text[i] /\ piece[i] \in Plain
  /\ newline => piece[Len(piece)] = Newline

LEMMA PieceIs ==
  ASSUME NEW f, NEW n, NEW layout, NEW closed, f[n] \in Seq(Words)
  PROVE  /\ Piece(f, n, layout, closed) \in Seq(Cells)
         /\ Ends(Piece(f, n, layout, closed), Text(f[n], layout), n < Len(f) \/ closed)
<1> DEFINE text == Text(f[n], layout)
           nl == IF n < Len(f) \/ closed THEN <<Newline>> ELSE <<>>
<1>1. text \in Seq(Plain)
  BY TextIs DEF Texts
<1>2. Len(text) \in Nat /\ \A i \in 1 .. Len(text) : text[i] \in Plain
  BY <1>1, LenProperties, ElementOfSeq
<1>3. text \in Seq(Cells)
  BY <1>1, CellsAre, SeqMonotonic
<1>4. nl \in Seq(Cells) /\ Len(nl) = (IF n < Len(f) \/ closed THEN 1 ELSE 0)
      /\ (n < Len(f) \/ closed => nl[1] = Newline)
  BY CellsAre, EmptySeq
<1>5. Piece(f, n, layout, closed) = text \o nl
  BY DEF Piece
<1> HIDE DEF text, nl
<1> DEFINE p == text \o nl
<1>6. /\ p \in Seq(Cells) /\ Len(p) = Len(text) + Len(nl)
      /\ \A i \in 1 .. Len(text) + Len(nl) :
           p[i] = IF i <= Len(text) THEN text[i] ELSE nl[i - Len(text)]
  BY <1>3, <1>4, ConcatProperties
<1> HIDE DEF p
<1>7. \A i \in 1 .. Len(text) : p[i] = text[i]
  <2> TAKE i \in 1 .. Len(text)
  <2>1. i \in 1 .. Len(text) + Len(nl) /\ i <= Len(text)
    BY <1>2, <1>4
  <2>2. QED
    BY <1>6, <2>1
<1>8. ASSUME n < Len(f) \/ closed
      PROVE  p[Len(text) + 1] = Newline
  <2>1. Len(nl) = 1
    BY <1>4, <1>8
  <2>2. /\ Len(text) + 1 \in 1 .. Len(text) + Len(nl) /\ ~(Len(text) + 1 <= Len(text))
        /\ (Len(text) + 1) - Len(text) = 1
    BY <1>2, <2>1
  <2>3. QED
    BY <1>4, <1>6, <1>8, <2>2
<1>9. Len(p) \in Nat
  BY <1>6, LenProperties
<1>10. n < Len(f) \/ closed => p[Len(p)] = Newline
  BY <1>4, <1>6, <1>8
<1>11. p \in Seq(Cells) /\ Ends(p, text, n < Len(f) \/ closed)
  BY <1>2, <1>4, <1>6, <1>7, <1>9, <1>10 DEF Ends
<1>12. QED
  BY <1>5, <1>11 DEF text, p

(* Line n of the file is what Written has from at[n - 1] to at[n].         *)
Laid(text, f, layout, closed, at) ==
  /\ at \in [0 .. Len(f) -> Nat] /\ at[0] = 0 /\ at[Len(f)] = Len(text)
  /\ \A n \in 1 .. Len(f) :
       LET piece == Piece(f, n, layout, closed)
       IN /\ at[n] = at[n - 1] + Len(piece) /\ at[n] <= Len(text)
          /\ \A i \in 1 .. Len(piece) : text[at[n - 1] + i] = piece[i]

WrittenRuns(run, f, layout, closed) ==
  /\ run[0] = <<>>
  /\ \A m \in 0 .. Len(f) : run[m] \in Seq(Cells)
  /\ \A m \in 0 .. Len(f) - 1 : run[m + 1] = run[m] \o Piece(f, m + 1, layout, closed)

LEMMA WrittenRun ==
  ASSUME NEW f \in Seq(Seq(Words)), NEW layout, NEW closed
  PROVE  \E run : WrittenRuns(run, f, layout, closed) /\ Written(f, layout, closed) = run[Len(f)]
<1> DEFINE n == Len(f)
           pieces == [m \in DOMAIN f |-> Piece(f, m, layout, closed)]
           base == <<>>
           A == Seq(Cells)
           Op == [m \in 1 .. n |-> [s \in A |-> s \o pieces[m]]]
           Iter(g) == [s \in SUBSET (DOMAIN pieces) |-> IF s = {} THEN base
                         ELSE g[s \ {Max(s)}] \o pieces[Max(s)]]
           iter == CHOOSE g : g = Iter(g)
<1>1. Written(f, layout, closed) = iter[DOMAIN pieces]
  BY DEF Written, Piece, FoldLeft, MapThenFoldSet
<1>2. n \in Nat /\ DOMAIN pieces = 1 .. n /\ \A m \in 1 .. n : f[m] \in Seq(Words)
  BY LenProperties, ElementOfSeq
<1>3. \A m \in 1 .. n : pieces[m] = Piece(f, m, layout, closed) /\ pieces[m] \in A
  <2> TAKE m \in 1 .. n
  <2>1. pieces[m] = Piece(f, m, layout, closed)
    BY <1>2
  <2>2. f[m] \in Seq(Words)
    BY <1>2
  <2> HIDE DEF pieces, n
  <2>3. Piece(f, m, layout, closed) \in A
    BY <2>2, PieceIs
  <2>4. QED
    BY <2>1, <2>3
<1>4. base \in A
  BY EmptySeq
<1> HIDE DEF pieces
<1>5. Op \in [1 .. n -> [A -> A]]
  <2>1. ASSUME NEW m \in 1 .. n, NEW s \in A
        PROVE  s \o pieces[m] \in A
    BY <1>3, ConcatProperties
  <2> HIDE DEF A
  <2>2. QED
    BY <2>1
<1>6. \A s \in (SUBSET (1 .. n)) \ {{}} : Max(s) \in 1 .. n
  <2> HIDE DEF n
  <2>1. QED
    BY <1>2, MaxOf
<1> HIDE DEF n, base, A
<1>7. \A g : FoldsLeft(g, n, A, base, Op)
         <=> /\ g[{}] = base
             /\ \A s \in (SUBSET (1 .. n)) \ {{}} :
                  g[s \ {Max(s)}] \in A => g[s] = g[s \ {Max(s)}] \o pieces[Max(s)]
  BY <1>6 DEF FoldsLeft
<1>8. \E g : g = Iter(g)
  <2> HIDE DEF Op
  <2>1. PICK g : g = [s \in SUBSET (1 .. n) |-> g[s]] /\ FoldsLeft(g, n, A, base, Op)
    BY <1>2, <1>4, <1>5, FoldLeftExists
  <2>2. \A s \in SUBSET (1 .. n) : g[s] \in A
    BY <1>2, <1>4, <1>5, <2>1, FoldLeftIn
  <2>3. \A s \in (SUBSET (1 .. n)) \ {{}} : g[s] = g[s \ {Max(s)}] \o pieces[Max(s)]
    BY <1>7, <2>1, <2>2
  <2>4. g[{}] = base
    BY <2>1 DEF FoldsLeft
  <2>5. g = Iter(g)
    BY <1>2, <2>1, <2>3, <2>4
  <2>6. QED
    BY <2>5
<1>9. iter = Iter(iter)
  <2> HIDE DEF Iter
  <2>1. QED
    BY <1>8
<1> HIDE DEF iter
<1>10. FoldsLeft(iter, n, A, base, Op)
  <2>1. iter[{}] = base
    BY <1>9
  <2>2. \A s \in (SUBSET (1 .. n)) \ {{}} : iter[s] = iter[s \ {Max(s)}] \o pieces[Max(s)]
    BY <1>2, <1>9
  <2>3. \A s \in (SUBSET (1 .. n)) \ {{}} :
          iter[s \ {Max(s)}] \in A => iter[s] = iter[s \ {Max(s)}] \o pieces[Max(s)]
    BY <2>2
  <2>4. QED
    BY <1>7, <2>1, <2>3
<1>11. PICK run : RunsLeft(run, n, A, base, Op) /\ run[n] = iter[1 .. n]
  <2>1. n \in Nat
    BY <1>2
  <2> HIDE DEF Op, Iter
  <2>2. Folding(iter, n, A, base, Op)
    BY <1>4, <1>5, <1>10, <2>1 DEF Folding
  <2>3. HasRun(iter, n, A, base, Op)
    BY <2>2, FoldingRuns
  <2>4. QED
    BY <2>3 DEF HasRun
<1>12. \A m \in 0 .. n - 1 : run[m + 1] = run[m] \o Piece(f, m + 1, layout, closed)
  <2> TAKE m \in 0 .. n - 1
  <2>1. m + 1 \in 1 .. n /\ m \in 0 .. n
    BY <1>2
  <2>2. run[m + 1] = Op[m + 1][run[m]] /\ run[m] \in A
    <3> HIDE DEF Op
    <3>1. QED
      BY <1>11, <2>1 DEF RunsLeft
  <2>3. run[m + 1] = run[m] \o pieces[m + 1]
    <3>1. Op[m + 1] = [s \in A |-> s \o pieces[m + 1]]
      BY <2>1
    <3> HIDE DEF Op
    <3>2. QED
      BY <2>2, <3>1
  <2>4. QED
    BY <1>3, <2>1, <2>3
<1>13. WrittenRuns(run, f, layout, closed)
  BY <1>11, <1>12 DEF RunsLeft, WrittenRuns, A, n, base
<1>14. Written(f, layout, closed) = run[Len(f)]
  BY <1>1, <1>2, <1>11 DEF n
<1>15. QED
  BY <1>13, <1>14

LEMMA WrittenIs ==
  ASSUME NEW f \in Seq(Seq(Words)), NEW layout, NEW closed
  PROVE  /\ Written(f, layout, closed) \in Seq(Cells)
         /\ \E at : Laid(Written(f, layout, closed), f, layout, closed, at)
<1> DEFINE n == Len(f)
           p(m) == Piece(f, m, layout, closed)
<1>1. n \in Nat /\ \A m \in 1 .. n : f[m] \in Seq(Words)
  BY LenProperties, ElementOfSeq
<1>2. PICK run : WrittenRuns(run, f, layout, closed) /\ Written(f, layout, closed) = run[n]
  BY WrittenRun
<1>3. \A m \in 1 .. n : p(m) \in Seq(Cells) /\ Len(p(m)) \in Nat
  <2> TAKE m \in 1 .. n
  <2>1. f[m] \in Seq(Words)
    BY <1>1
  <2>2. QED
    BY <2>1, PieceIs DEF Ends
<1> DEFINE W == run[n]
           at == [m \in 0 .. n |-> Len(run[m])]
<1>4. \A m \in 0 .. n : run[m] \in Seq(Cells) /\ at[m] \in Nat /\ at[m] = Len(run[m])
  BY <1>2, LenProperties DEF WrittenRuns
<1> HIDE DEF p
(* One more piece. *)
<1>5. ASSUME NEW m \in 0 .. n - 1
      PROVE  /\ at[m + 1] = at[m] + Len(p(m + 1))
             /\ \A i \in 1 .. at[m] : run[m + 1][i] = run[m][i]
             /\ \A i \in 1 .. Len(p(m + 1)) : run[m + 1][at[m] + i] = p(m + 1)[i]
  <2>1. m \in 0 .. n /\ m + 1 \in 0 .. n /\ m + 1 \in 1 .. n
    BY <1>1
  <2> DEFINE s == run[m]
             w == p(m + 1)
             t == run[m + 1]
             a == Len(s)
             b == Len(w)
  <2>2. t = s \o w
    BY <1>2, <2>1 DEF WrittenRuns, p
  <2>3. s \in Seq(Cells) /\ w \in Seq(Cells) /\ a \in Nat /\ b \in Nat
    BY <1>3, <1>4, <2>1
  <2>4. at[m] = a /\ at[m + 1] = Len(t)
    BY <1>4, <2>1
  <2> HIDE DEF s, w, t, at
  <2>5. Len(t) = a + b /\ \A i \in 1 .. a + b : t[i] = IF i <= a THEN s[i] ELSE w[i - a]
    BY <2>2, <2>3, ConcatProperties
  <2> HIDE DEF a, b
  <2>6. \A i \in 1 .. a : t[i] = s[i]
    <3> TAKE i \in 1 .. a
    <3>1. i \in 1 .. a + b /\ i <= a
      BY <2>3
    <3>2. QED
      BY <2>5, <3>1
  <2>7. \A i \in 1 .. b : t[a + i] = w[i]
    <3> TAKE i \in 1 .. b
    <3>1. a + i \in 1 .. a + b /\ ~(a + i <= a) /\ (a + i) - a = i
      BY <2>3
    <3>2. QED
      BY <2>5, <3>1
  <2>8. QED
    BY <2>4, <2>5, <2>6, <2>7 DEF s, w, t, a, b
<1> HIDE DEF at
(* What has been written stays. *)
<1> DEFINE Holds(x, q) == \A k \in 0 .. q : /\ at[k] <= Len(x)
                                            /\ \A i \in 1 .. at[k] : x[i] = run[k][i]
           Good == [q \in 0 .. n |-> {x \in {run[q]} : Holds(x, q)}]
<1>6. run[0] \in Good[0]
  <2>1. \A k \in 0 .. 0 : k = 0
    OBVIOUS
  <2>2. 0 \in 0 .. n
    BY <1>1
  <2>3. Holds(run[0], 0)
    BY <1>4, <2>1, <2>2
  <2>4. QED
    BY <2>2, <2>3
<1>7. ASSUME NEW q \in 0 .. n - 1, run[q] \in Good[q]
      PROVE  run[q + 1] \in Good[q + 1]
  <2>1. q \in 0 .. n /\ q + 1 \in 0 .. n /\ q + 1 \in 1 .. n
    BY <1>1
  <2>2. Holds(run[q], q)
    BY <1>7, <2>1
  <2>3. /\ at[q] \in Nat /\ at[q + 1] \in Nat /\ at[q] <= at[q + 1]
        /\ \A i \in 1 .. at[q] : run[q + 1][i] = run[q][i]
    <3>1. at[q] \in Nat /\ Len(p(q + 1)) \in Nat /\ at[q + 1] = at[q] + Len(p(q + 1))
      BY <1>3, <1>4, <1>5, <2>1
    <3>2. \A i \in 1 .. at[q] : run[q + 1][i] = run[q][i]
      BY <1>5
    <3>3. \A a, b \in Nat : a + b \in Nat /\ a <= a + b
      OBVIOUS
    <3>4. at[q + 1] \in Nat /\ at[q] <= at[q + 1]
      BY <3>1, <3>3
    <3>5. QED
      BY <3>1, <3>2, <3>4
  <2>4. ASSUME NEW k \in 0 .. q + 1
        PROVE  at[k] <= Len(run[q + 1]) /\ \A i \in 1 .. at[k] : run[q + 1][i] = run[k][i]
    <3>1. CASE k = q + 1
      BY <1>4, <2>1, <3>1
    <3>2. CASE k \in 0 .. q
      <4>1. at[k] <= at[q] /\ \A i \in 1 .. at[k] : run[q][i] = run[k][i]
        BY <1>4, <2>1, <2>2, <3>2
      <4>2. at[k] \in Nat /\ at[q + 1] = Len(run[q + 1])
        BY <1>4, <2>1, <3>2
      <4>3. \A i \in 1 .. at[k] : i \in 1 .. at[q]
        BY <2>3, <4>1, <4>2
      <4>4. QED
        BY <2>3, <4>1, <4>2, <4>3
    <3>3. QED
      BY <3>1, <3>2
  <2>5. Holds(run[q + 1], q + 1)
    BY <2>4
  <2>6. QED
    BY <2>1, <2>5
<1>8. \A k \in 0 .. n : at[k] <= Len(W) /\ \A i \in 1 .. at[k] : W[i] = run[k][i]
  <2>1. \A q \in 0 .. n : run[q] \in Good[q]
    <3> HIDE DEF Good
    <3>1. QED
      BY <1>1, <1>6, <1>7, RunInduction
  <2>2. n \in 0 .. n
    BY <1>1
  <2>3. QED
    BY <2>1, <2>2
<1>9. at \in [0 .. n -> Nat] /\ at[0] = 0 /\ at[n] = Len(W)
  <2>1. run[0] = <<>> /\ 0 \in 0 .. n /\ n \in 0 .. n
    BY <1>1, <1>2 DEF WrittenRuns
  <2>2. at = [m \in 0 .. n |-> Len(run[m])]
    BY DEF at
  <2>3. at[0] = 0 /\ at[n] = Len(W)
    BY <1>4, <2>1, EmptySeq
  <2>4. QED
    BY <1>4, <2>2, <2>3
<1>10. ASSUME NEW k \in 1 .. n
       PROVE  /\ at[k] = at[k - 1] + Len(p(k)) /\ at[k] <= Len(W)
              /\ \A i \in 1 .. Len(p(k)) : W[at[k - 1] + i] = p(k)[i]
  <2> DEFINE m == k - 1
  <2>1. m \in 0 .. n - 1 /\ m + 1 = k /\ k \in 0 .. n /\ m \in 0 .. n
    BY <1>1
  <2> HIDE DEF m, W
  <2>2. /\ at[k] = at[m] + Len(p(k))
        /\ \A i \in 1 .. Len(p(k)) : run[k][at[m] + i] = p(k)[i]
    BY <1>5, <2>1
  <2>3. at[m] \in Nat /\ Len(p(k)) \in Nat
    BY <1>3, <1>4, <2>1
  <2>4. at[k] <= Len(W) /\ \A i \in 1 .. at[k] : W[i] = run[k][i]
    BY <1>8, <2>1
  <2>5. ASSUME NEW i \in 1 .. Len(p(k))
        PROVE  W[at[m] + i] = p(k)[i]
    <3>1. \A a, b \in Nat : \A j \in 1 .. b : a + j \in 1 .. a + b
      OBVIOUS
    <3>2. at[m] + i \in 1 .. at[k]
      BY <2>2, <2>3, <3>1
    <3>3. QED
      BY <2>2, <2>4, <3>2
  <2>6. QED
    BY <2>2, <2>4, <2>5 DEF m
<1>11. Laid(W, f, layout, closed, at)
  <2> HIDE DEF W
  <2>1. QED
    BY <1>9, <1>10 DEF Laid, p
<1>12. W \in Seq(Cells)
  BY <1>1, <1>4
<1>13. QED
  <2> HIDE DEF at
  <2>1. QED
    BY <1>2, <1>11, <1>12

-----------------------------------------------------------------------------
(* Words cut out of the buffer.                                            *)

LEMMA MinIs ==
  ASSUME NEW T, T \subseteq Nat, NEW x \in T, \A y \in T : x <= y
  PROVE  Min(T) = x
<1>1. \A y \in T : (\A z \in T : y <= z) => y = x
  <2> TAKE y \in T
  <2>1. x \in Nat /\ y \in Nat
    OBVIOUS
  <2>2. QED
    BY <2>1
<1>2. QED
  BY <1>1 DEF Min

LEMMA MinIn ==
  ASSUME NEW T, T \subseteq Nat, T # {}
  PROVE  Min(T) \in T /\ \A y \in T : Min(T) <= y
BY LeastOf DEF Min

States(V) == [words : Seq(Seq(V)), buffer : [0 .. MAX_LINE_LENGTH -> V],
              next : Nat, lost : BOOLEAN]
Stops == {Blank, Nul, Newline}

LEMMA WordRange ==
  ASSUME NEW c, c.next \in Nat, NEW stops
  PROVE  LET s == StartOfWord(c)
             t == EndOfWord(c, stops)
         IN s \in Nat /\ t \in Nat /\ s <= t /\ t <= MAX_LINE_LENGTH + 1
<1> DEFINE M == MAX_LINE_LENGTH
           s == StartOfWord(c)
           t == EndOfWord(c, stops)
           S == {n \in c.next .. M : c.buffer[n] # Blank} \cup {M + 1}
           T == {n \in s .. M : c.buffer[n] \in stops} \cup {M + 1}
<1>1. M \in Nat
  BY LengthAssumption
<1>2. s = Min(S) /\ t = Min(T)
  BY DEF StartOfWord, EndOfWord
<1> HIDE DEF s, t, M
<1>3. s \in Nat /\ s <= M + 1
  <2>1. S \subseteq Nat /\ S # {} /\ \A n \in S : n <= M + 1
    BY <1>1
  <2> HIDE DEF S
  <2>2. QED
    BY <1>2, <2>1, MinIn
<1>4. t \in Nat /\ s <= t /\ t <= M + 1
  <2>1. T \subseteq Nat /\ T # {} /\ \A n \in T : s <= n /\ n <= M + 1
    BY <1>1, <1>3
  <2> HIDE DEF T
  <2>2. QED
    BY <1>2, <2>1, MinIn
<1>5. QED
  BY <1>3, <1>4 DEF s, t, M

LEMMA CutTyped ==
  ASSUME NEW V, Nul \in V, NEW c \in States(V), NEW stops
  PROVE  CutAt(c, stops) \in States(V)
<1> DEFINE M == MAX_LINE_LENGTH
           s == StartOfWord(c)
           t == EndOfWord(c, stops)
           w == [j \in 1 .. t - s |-> c.buffer[s + j - 1]]
           b == [c.buffer EXCEPT ![IF t > M THEN 0 ELSE t] = Nul]
<1>1. /\ c.words \in Seq(Seq(V)) /\ c.buffer \in [0 .. M -> V] /\ c.next \in Nat
      /\ c.lost \in BOOLEAN
  BY DEF States
<1>2. s \in Nat /\ t \in Nat /\ s <= t /\ t <= M + 1 /\ M \in Nat
  BY <1>1, WordRange, LengthAssumption
<1>3. CutAt(c, stops) = [words |-> Append(c.words, w), buffer |-> b, next |-> t + 1,
                         lost |-> c.lost \/ t > M]
  BY DEF CutAt
<1> HIDE DEF s, t, M
<1>4. w \in Seq(V)
  <2>1. ASSUME NEW j \in 1 .. t - s
        PROVE  s + j - 1 \in 0 .. M
    BY <1>2
  <2>2. w \in [1 .. t - s -> V] /\ t - s \in Nat
    BY <1>1, <1>2, <2>1
  <2> HIDE DEF w
  <2>3. QED
    BY <2>2
<1>5. b \in [0 .. M -> V]
  BY <1>1, <1>2
<1>6. Append(c.words, w) \in Seq(Seq(V))
  <2> HIDE DEF w
  <2>1. QED
    BY <1>1, <1>4, AppendProperties
<1>7. (c.lost \/ t > M) \in BOOLEAN
  OBVIOUS
<1> HIDE DEF w, b
<1>8. QED
  BY <1>2, <1>3, <1>5, <1>6, <1>7 DEF States, M

(* The word from s on that t ends.                                         *)
LEMMA WordIs ==
  ASSUME NEW c, c.next \in Nat, NEW stops,
         NEW s \in Nat, NEW t \in Nat, c.next <= s, s <= t, t <= MAX_LINE_LENGTH,
         \A i \in c.next .. s - 1 : c.buffer[i] = Blank, c.buffer[s] # Blank,
         \A i \in s .. t - 1 : c.buffer[i] \notin stops, c.buffer[t] \in stops
  PROVE  StartOfWord(c) = s /\ EndOfWord(c, stops) = t
<1> DEFINE M == MAX_LINE_LENGTH
           S == {n \in c.next .. M : c.buffer[n] # Blank} \cup {M + 1}
           T == {n \in s .. M : c.buffer[n] \in stops} \cup {M + 1}
<1>1. M \in Nat
  BY LengthAssumption
<1>2. StartOfWord(c) = Min(S)
  BY DEF StartOfWord
<1> HIDE DEF M
<1>3. t <= M
  BY DEF M
<1>4. S \subseteq Nat /\ s \in S
  BY <1>1, <1>3
<1>5. ASSUME NEW n \in S
      PROVE  s <= n
  <2>1. CASE n = M + 1
    BY <1>1, <1>3, <2>1
  <2>2. CASE n # M + 1
    <3>1. n \in c.next .. M /\ c.buffer[n] # Blank
      BY <2>2
    <3>2. n \notin c.next .. s - 1
      BY <3>1
    <3>3. QED
      BY <1>1, <3>1, <3>2
  <2>3. QED
    BY <2>1, <2>2
<1>6. Min(S) = s
  <2> HIDE DEF S
  <2>1. QED
    BY <1>4, <1>5, MinIs
<1>7. EndOfWord(c, stops) = Min(T)
  BY <1>2, <1>6 DEF EndOfWord, M
<1>8. T \subseteq Nat /\ t \in T
  BY <1>1, <1>3
<1>9. ASSUME NEW n \in T
      PROVE  t <= n
  <2>1. CASE n = M + 1
    BY <1>1, <1>3, <2>1
  <2>2. CASE n # M + 1
    <3>1. n \in s .. M /\ c.buffer[n] \in stops
      BY <2>2
    <3>2. n \notin s .. t - 1
      BY <3>1
    <3>3. QED
      BY <1>1, <3>1, <3>2
  <2>3. QED
    BY <2>1, <2>2
<1>10. Min(T) = t
  <2> HIDE DEF T
  <2>1. QED
    BY <1>8, <1>9, MinIs
<1>11. QED
  BY <1>2, <1>6, <1>7, <1>10

Fresh(b) == [words |-> <<>>, buffer |-> b, next |-> 0, lost |-> FALSE]

CutRuns(run, b, n, V) ==
  /\ run[0] = Fresh(b)
  /\ \A k \in 0 .. n : run[k] \in States(V)
  /\ \A k \in 0 .. n - 1 : run[k + 1] = CutNextToken(run[k])

LEMMA CutRun ==
  ASSUME NEW V, Nul \in V, NEW b \in [0 .. MAX_LINE_LENGTH -> V], NEW n \in Nat
  PROVE  \E run : CutRuns(run, b, n, V) /\ Cut(b, n) = run[n]
<1> DEFINE steps == [k \in 1 .. n |-> k]
           base == Fresh(b)
           A == States(V)
           Op == [k \in 1 .. n |-> [c \in A |-> CutNextToken(c)]]
           Iter(g) == [s \in SUBSET (DOMAIN steps) |-> IF s = {} THEN base
                         ELSE CutNextToken(g[s \ {Max(s)}])]
           iter == CHOOSE g : g = Iter(g)
<1>1. Cut(b, n) = iter[DOMAIN steps]
  BY DEF Cut, Fresh, FoldLeft, MapThenFoldSet
<1>2. DOMAIN steps = 1 .. n
  OBVIOUS
<1> HIDE DEF steps
<1>3. base \in A
  BY EmptySeq DEF Fresh, States
<1>4. Op \in [1 .. n -> [A -> A]]
  <2>1. ASSUME NEW c \in A
        PROVE  CutNextToken(c) \in A
    BY CutTyped DEF CutNextToken
  <2> HIDE DEF A
  <2>2. QED
    BY <2>1
<1>5. \A s \in (SUBSET (1 .. n)) \ {{}} : Max(s) \in 1 .. n
  BY MaxOf
<1> HIDE DEF base, A
<1>6. \A g : FoldsLeft(g, n, A, base, Op)
         <=> /\ g[{}] = base
             /\ \A s \in (SUBSET (1 .. n)) \ {{}} :
                  g[s \ {Max(s)}] \in A => g[s] = CutNextToken(g[s \ {Max(s)}])
  BY <1>5 DEF FoldsLeft
<1>7. \E g : g = Iter(g)
  <2> HIDE DEF Op
  <2>1. PICK g : g = [s \in SUBSET (1 .. n) |-> g[s]] /\ FoldsLeft(g, n, A, base, Op)
    BY <1>3, <1>4, FoldLeftExists
  <2>2. \A s \in SUBSET (1 .. n) : g[s] \in A
    BY <1>3, <1>4, <2>1, FoldLeftIn
  <2>3. \A s \in (SUBSET (1 .. n)) \ {{}} : g[s] = CutNextToken(g[s \ {Max(s)}])
    BY <1>6, <2>1, <2>2
  <2>4. g[{}] = base
    BY <2>1 DEF FoldsLeft
  <2>5. g = Iter(g)
    BY <1>2, <2>1, <2>3, <2>4
  <2>6. QED
    BY <2>5
<1>8. iter = Iter(iter)
  <2> HIDE DEF Iter
  <2>1. QED
    BY <1>7
<1> HIDE DEF iter
<1>9. FoldsLeft(iter, n, A, base, Op)
  <2>1. iter[{}] = base
    BY <1>8
  <2>2. \A s \in (SUBSET (1 .. n)) \ {{}} : iter[s] = CutNextToken(iter[s \ {Max(s)}])
    BY <1>2, <1>8
  <2>3. \A s \in (SUBSET (1 .. n)) \ {{}} :
          iter[s \ {Max(s)}] \in A => iter[s] = CutNextToken(iter[s \ {Max(s)}])
    BY <2>2
  <2>4. QED
    BY <1>6, <2>1, <2>3
<1>10. PICK run : RunsLeft(run, n, A, base, Op) /\ run[n] = iter[1 .. n]
  <2> HIDE DEF Op, Iter
  <2>1. QED
    BY <1>3, <1>4, <1>9, FoldLeftRun
<1>11. \A k \in 0 .. n - 1 : run[k + 1] = CutNextToken(run[k])
  <2> TAKE k \in 0 .. n - 1
  <2>1. k + 1 \in 1 .. n /\ k \in 0 .. n
    OBVIOUS
  <2>2. run[k + 1] = Op[k + 1][run[k]] /\ run[k] \in A
    BY <1>10, <2>1 DEF RunsLeft
  <2>3. QED
    BY <2>1, <2>2
<1>12. CutRuns(run, b, n, V)
  BY <1>10, <1>11 DEF RunsLeft, CutRuns, A, base
<1>13. QED
  BY <1>1, <1>2, <1>10, <1>12

(* The buffer holds a line's text from its start, and behind it what ends  *)
(* a word.                                                                 *)
Holding(b, text) ==
  /\ Len(text) <= MAX_LINE_LENGTH
  /\ \A i \in 1 .. Len(text) : b[i - 1] = text[i]
  /\ b[Len(text)] \in {Newline, Nul}

(* What is left behind k words: they are those of the line, and what lies  *)
(* ahead of them in the buffer b is untouched.                             *)
Ahead(c, b, line, ends, k) ==
  /\ ~c.lost
  /\ c.next = IF k = 0 THEN 0 ELSE ends[k] + 1
  /\ \A i \in c.next .. MAX_LINE_LENGTH : c.buffer[i] = b[i]
  /\ Len(c.words) = k /\ \A j \in 1 .. k : c.words[j] = line[j]

LEMMA CutOne ==
  ASSUME NEW V, Nul \in V, NEW b, NEW text \in Seq(Plain), Holding(b, text),
         NEW line \in Seq(Words), NEW ends, Placed(text, line, ends),
         NEW k \in 0 .. Len(line) - 1, NEW c \in States(V), Ahead(c, b, line, ends, k)
  PROVE  Ahead(CutNextToken(c), b, line, ends, k + 1)
<1> DEFINE M == MAX_LINE_LENGTH
           n == Len(line)
           L == Len(text)
           w == line[k + 1]
           lw == Len(w)
           t == ends[k + 1]
           s == t - lw
           d == CutNextToken(c)
<1>1. M \in Nat /\ n \in Nat /\ L \in Nat /\ L <= M
  BY LengthAssumption, LenProperties DEF Holding
<1>2. k \in 0 .. n /\ k + 1 \in 1 .. n /\ k + 1 \in 0 .. n /\ k \in Nat
  BY <1>1
<1>3. w \in Words /\ w \in Seq(Plain) /\ lw \in Nat /\ lw > 0
      /\ \A i \in 1 .. lw : w[i] \in Plain /\ w[i] # Blank
  <2>1. w \in Words
    BY <1>2, ElementOfSeq
  <2>2. w \in Seq(Plain) /\ w # <<>> /\ \A i \in 1 .. lw : w[i] # Blank
    BY <2>1 DEF Words
  <2>3. lw \in Nat /\ lw > 0
    BY <2>2, EmptySeq
  <2>4. \A i \in 1 .. lw : w[i] \in Plain
    BY <2>2, ElementOfSeq
  <2> HIDE DEF w, lw
  <2>5. QED
    BY <2>1, <2>2, <2>3, <2>4
<1>4. /\ ends \in [0 .. n -> Nat] /\ ends[0] = 0 /\ ends[n] <= L
      /\ \A i \in ends[n] + 1 .. L : text[i] = Blank
  BY DEF Placed
<1>5. /\ ends[k] <= s /\ (k > 0 => ends[k] < s) /\ t <= L
      /\ \A i \in ends[k] + 1 .. s : text[i] = Blank
      /\ \A i \in 1 .. lw : text[s + i] = w[i]
  BY DEF Placed
<1>6. /\ c.words \in Seq(Seq(V)) /\ c.buffer \in [0 .. M -> V] /\ c.next \in Nat
      /\ c.lost \in BOOLEAN
  BY DEF States
<1>7. /\ ~c.lost /\ c.next = (IF k = 0 THEN 0 ELSE ends[k] + 1)
      /\ \A i \in c.next .. M : c.buffer[i] = b[i]
      /\ Len(c.words) = k /\ \A j \in 1 .. k : c.words[j] = line[j]
  BY DEF Ahead
<1>8. b[L] \in {Newline, Nul} /\ \A i \in 1 .. L : b[i - 1] = text[i]
  BY DEF Holding
<1>9. ends[k] \in Nat /\ t \in Nat
  BY <1>2, <1>4
<1>10. s \in Int /\ s = t - lw
  BY <1>3, <1>9
<1>11. s \in Nat /\ s <= t /\ s < t /\ t <= M
  BY <1>1, <1>3, <1>5, <1>9, <1>10
<1>12. /\ c.next <= s
       /\ \A i \in c.next .. s - 1 : i + 1 \in ends[k] + 1 .. s /\ i + 1 \in 1 .. L /\ i \in 0 .. M
  <2> HIDE DEF s, t, L, M
  <2>1. CASE k = 0
    BY <1>1, <1>4, <1>5, <1>6, <1>7, <1>9, <1>11, <2>1
  <2>2. CASE k > 0
    <3>1. \A e, x, y, z, u \in Nat : e < x /\ x <= y /\ y <= z /\ z <= u
            => /\ e + 1 <= x
               /\ \A i \in e + 1 .. x - 1 : /\ i + 1 \in e + 1 .. x /\ i + 1 \in 1 .. z
                                            /\ i \in 0 .. u
      OBVIOUS
    <3>2. ends[k] < s /\ s <= t /\ t <= L /\ L <= M
      BY <1>1, <1>5, <1>11, <2>2
    <3>3. c.next = ends[k] + 1
      BY <1>2, <1>7, <2>2
    <3>4. QED
      BY <1>1, <1>9, <1>11, <3>1, <3>2, <3>3
  <2>3. QED
    BY <1>2, <2>1, <2>2
<1>13. \A i \in c.next .. M : i \in Nat
  BY <1>6
<1> HIDE DEF s, t, L, M, w, lw, n, d
<1>14. \A i \in c.next .. s - 1 : c.buffer[i] = Blank
  <2> TAKE i \in c.next .. s - 1
  <2>1. i + 1 \in ends[k] + 1 .. s /\ i + 1 \in 1 .. L
    BY <1>12
  <2>2. i \in c.next .. M /\ (i + 1) - 1 = i
    <3>1. \A x, y, z \in Nat : y <= z =>
            \A j \in x .. y - 1 : j \in x .. z /\ (j + 1) - 1 = j
      OBVIOUS
    <3>2. c.next \in Nat /\ s <= M
      BY <1>1, <1>6, <1>9, <1>11
    <3>3. QED
      BY <1>1, <1>11, <3>1, <3>2
  <2>3. b[(i + 1) - 1] = text[i + 1]
    BY <1>8, <2>1
  <2>4. text[i + 1] = Blank
    BY <1>5, <2>1
  <2>5. QED
    BY <1>7, <2>2, <2>3, <2>4
<1>15. \A j \in 1 .. lw : c.buffer[s + j - 1] = w[j]
  <2> TAKE j \in 1 .. lw
  <2>1. s + j \in 1 .. L /\ (s + j) - 1 = s + j - 1
    BY <1>1, <1>3, <1>5, <1>9, <1>10, <1>11
  <2>2. s + j - 1 \in c.next .. M
    BY <1>1, <1>3, <1>6, <1>9, <1>10, <1>11, <1>12
  <2>3. b[(s + j) - 1] = text[s + j]
    BY <1>8, <2>1
  <2>4. text[s + j] = w[j]
    BY <1>5
  <2>5. QED
    BY <1>7, <2>1, <2>2, <2>3, <2>4
<1>16. \A i \in s .. t - 1 : c.buffer[i] \notin Stops /\ c.buffer[i] # Blank
  <2> TAKE i \in s .. t - 1
  <2> DEFINE j == i - s + 1
  <2>1. j \in 1 .. lw /\ s + j - 1 = i
    BY <1>3, <1>9, <1>10, <1>11
  <2> HIDE DEF j
  <2>2. c.buffer[i] = w[j]
    BY <1>15, <2>1
  <2>3. w[j] \in Plain /\ w[j] # Blank
    BY <1>3, <2>1
  <2>4. QED
    BY <2>2, <2>3, CellsAre DEF Stops
<1>17. b[t] \in Stops
  <2>1. CASE t = L
    BY <1>8, <2>1 DEF Stops
  <2>2. CASE t # L
    <3>1. t + 1 \in 1 .. L /\ (t + 1) - 1 = t
      BY <1>1, <1>5, <1>9, <2>2
    <3>2. text[t + 1] = Blank
      <4>1. CASE k + 1 = n
        <5>1. t + 1 \in ends[n] + 1 .. L
          BY <1>1, <1>5, <1>9, <2>2, <4>1 DEF t
        <5>2. QED
          BY <1>4, <5>1
      <4>2. CASE k + 1 # n
        <5> DEFINE m == k + 1
        <5>1. m \in 0 .. n - 1 /\ m > 0 /\ m + 1 \in 1 .. n /\ m + 1 \in 0 .. n
          BY <1>1, <1>2, <4>2
        <5> DEFINE from == ends[m + 1] - Len(line[m + 1])
        <5>2. ends[m] < from /\ \A i \in ends[m] + 1 .. from : text[i] = Blank
          BY <5>1 DEF Placed, n
        <5>3. line[m + 1] \in Words
          BY <5>1, ElementOfSeq DEF n
        <5>4. Len(line[m + 1]) \in Nat
          BY <5>3, LenProperties DEF Words
        <5>5. ends[m + 1] \in Nat /\ ends[m] = t
          BY <1>4, <5>1 DEF t
        <5>6. from \in Int
          BY <5>4, <5>5
        <5> HIDE DEF from
        <5>7. t + 1 \in ends[m] + 1 .. from
          BY <1>9, <5>2, <5>5, <5>6
        <5>8. QED
          BY <5>2, <5>7
      <4>3. QED
        BY <4>1, <4>2
    <3>3. QED
      BY <1>8, <3>1, <3>2 DEF Stops
  <2>3. QED
    BY <2>1, <2>2
<1>18. t \in c.next .. M /\ s \in s .. t - 1
  BY <1>1, <1>6, <1>9, <1>11, <1>12
<1>19. StartOfWord(c) = s /\ EndOfWord(c, Stops) = t
  <2>1. c.buffer[t] \in Stops
    BY <1>7, <1>17, <1>18
  <2>2. /\ \A i \in s .. t - 1 : c.buffer[i] \notin Stops
        /\ c.buffer[s] # Blank
    BY <1>16, <1>18
  <2>3. QED
    BY <1>6, <1>9, <1>11, <1>12, <1>14, <2>1, <2>2, WordIs DEF M
<1> DEFINE word == [j \in 1 .. t - s |-> c.buffer[s + j - 1]]
           nb == [c.buffer EXCEPT ![IF t > M THEN 0 ELSE t] = Nul]
<1>20. d = [words |-> Append(c.words, word), buffer |-> nb, next |-> t + 1,
            lost |-> c.lost \/ t > M]
  BY <1>19 DEF d, CutNextToken, CutAt, Stops, M
<1>21. word = w
  <2>1. t - s = lw
    BY <1>3, <1>9, <1>10
  <2>2. w = [j \in 1 .. lw |-> w[j]]
    BY <1>3, LenProperties DEF lw
  <2>3. QED
    BY <1>15, <2>1, <2>2
<1>22. word \in Seq(V)
  <2>1. ASSUME NEW j \in 1 .. t - s
        PROVE  s + j - 1 \in 0 .. M
    BY <1>1, <1>9, <1>11
  <2>2. c.buffer \in [0 .. M -> V]
    BY <1>6
  <2>3. word \in [1 .. t - s -> V]
    BY <2>1, <2>2
  <2>4. t - s \in Nat
    BY <1>9, <1>11
  <2> HIDE DEF word
  <2>5. QED
    BY <2>3, <2>4
<1> HIDE DEF word
<1>23. /\ Len(Append(c.words, word)) = k + 1
       /\ \A j \in 1 .. k + 1 : Append(c.words, word)[j] = line[j]
  <2>1. /\ Len(Append(c.words, word)) = k + 1
        /\ \A j \in 1 .. k : Append(c.words, word)[j] = c.words[j]
        /\ Append(c.words, word)[k + 1] = word
    BY <1>6, <1>7, <1>22, AppendProperties
  <2>2. \A j \in 1 .. k + 1 : j \in 1 .. k \/ j = k + 1
    BY <1>2
  <2>3. QED
    BY <1>7, <1>21, <2>1, <2>2 DEF w
<1>24. \A i \in t + 1 .. M : nb[i] = b[i]
  <2> TAKE i \in t + 1 .. M
  <2>1. i \in c.next .. M /\ i # t /\ i \in 0 .. M /\ ~(t > M)
    BY <1>1, <1>6, <1>9, <1>11, <1>12
  <2>2. nb[i] = c.buffer[i]
    BY <1>6, <2>1
  <2>3. QED
    BY <1>7, <2>1, <2>2
<1> HIDE DEF nb
<1>25. /\ d.words = Append(c.words, word) /\ d.buffer = nb /\ d.next = t + 1 /\ ~d.lost
  <2>1. ~(t > M)
    BY <1>1, <1>9, <1>11
  <2>2. QED
    BY <1>7, <1>20, <2>1
<1>26. k + 1 # 0
  BY <1>2
<1>27. QED
  BY <1>23, <1>24, <1>25, <1>26 DEF Ahead, d, t, M

LEMMA CutIn ==
  ASSUME NEW V, Nul \in V, NEW b \in [0 .. MAX_LINE_LENGTH -> V], NEW n \in Nat
  PROVE  Cut(b, n) \in States(V)
<1>1. PICK run : CutRuns(run, b, n, V) /\ Cut(b, n) = run[n]
  BY CutRun
<1>2. QED
  BY <1>1 DEF CutRuns

(* The first n words of the line that the buffer holds, and no others.     *)
LEMMA WordsCut ==
  ASSUME NEW V, Nul \in V, NEW b \in [0 .. MAX_LINE_LENGTH -> V],
         NEW text \in Seq(Plain), Holding(b, text),
         NEW line \in Seq(Words), NEW ends, Placed(text, line, ends), NEW n \in 0 .. Len(line)
  PROVE  /\ ~Cut(b, n).lost /\ Len(Cut(b, n).words) = n
         /\ \A j \in 1 .. n : Cut(b, n).words[j] = line[j]
<1>1. n \in Nat /\ Len(line) \in Nat
  BY LenProperties
<1>2. PICK run : CutRuns(run, b, n, V) /\ Cut(b, n) = run[n]
  BY <1>1, CutRun
<1> DEFINE Good == [k \in 0 .. n |-> {c \in {run[k]} : Ahead(c, b, line, ends, k)}]
<1>3. run[0] \in Good[0]
  <2>1. Ahead(Fresh(b), b, line, ends, 0)
    BY EmptySeq DEF Ahead, Fresh
  <2>2. QED
    BY <1>1, <1>2, <2>1 DEF CutRuns
<1>4. ASSUME NEW k \in 0 .. n - 1, run[k] \in Good[k]
      PROVE  run[k + 1] \in Good[k + 1]
  <2>1. k \in 0 .. n /\ k + 1 \in 0 .. n /\ k \in 0 .. Len(line) - 1
    BY <1>1
  <2>2. run[k] \in States(V) /\ run[k + 1] = CutNextToken(run[k])
    BY <1>2, <2>1 DEF CutRuns
  <2>3. Ahead(run[k], b, line, ends, k)
    BY <1>4, <2>1
  <2>4. Ahead(run[k + 1], b, line, ends, k + 1)
    <3> HIDE DEF Good
    <3>1. QED
      BY <2>1, <2>2, <2>3, CutOne
  <2>5. QED
    BY <2>1, <2>4
<1>5. \A k \in 0 .. n : run[k] \in Good[k]
  <2> HIDE DEF Good
  <2>1. QED
    BY <1>1, <1>3, <1>4, RunInduction
<1>6. Ahead(run[n], b, line, ends, n)
  BY <1>1, <1>5
<1>7. QED
  BY <1>2, <1>6 DEF Ahead

(* No word is found where there is none.                                   *)
LEMMA NoWordCut ==
  ASSUME NEW V, Nul \in V, NEW b \in [0 .. MAX_LINE_LENGTH -> V],
         NEW text \in Seq(Plain), Holding(b, text), \A i \in 1 .. Len(text) : text[i] = Blank
  PROVE  ~Cut(b, 1).lost /\ Len(Cut(b, 1).words[1]) = 0
<1> DEFINE L == Len(text)
           M == MAX_LINE_LENGTH
           c == Fresh(b)
<1>1. L \in Nat /\ L <= M /\ M \in Nat
  BY LengthAssumption, LenProperties DEF Holding
<1>2. b[L] \in {Newline, Nul} /\ \A i \in 1 .. L : b[i - 1] = Blank
  BY DEF Holding
<1>3. c.words = <<>> /\ c.buffer = b /\ c.next = 0 /\ c.lost = FALSE
  BY DEF Fresh
<1>4. \A i \in 0 .. L - 1 : b[i] = Blank
  <2> TAKE i \in 0 .. L - 1
  <2>1. i + 1 \in 1 .. L /\ (i + 1) - 1 = i
    BY <1>1
  <2>2. QED
    BY <1>2, <2>1
<1> HIDE DEF c, L, M
<1>5. StartOfWord(c) = L /\ EndOfWord(c, Stops) = L
  <2>1. b[L] \in Stops /\ b[L] # Blank
    BY <1>2, CellsAre DEF Stops
  <2>2. \A i \in L .. L - 1 : b[i] \notin Stops
    BY <1>1
  <2>3. c.next \in Nat /\ c.next <= L /\ L <= L /\ L <= MAX_LINE_LENGTH
    BY <1>1, <1>3 DEF M
  <2>4. QED
    BY <1>1, <1>3, <1>4, <2>1, <2>2, <2>3, WordIs
<1>6. PICK run : CutRuns(run, b, 1, V) /\ Cut(b, 1) = run[1]
  BY CutRun
<1>7. Cut(b, 1) = CutNextToken(c)
  <2>1. 0 \in 0 .. 1 - 1
    OBVIOUS
  <2>2. run[0 + 1] = CutNextToken(run[0]) /\ run[0] = c
    BY <1>6, <2>1 DEF CutRuns, c
  <2>3. 0 + 1 = 1
    OBVIOUS
  <2>4. QED
    BY <1>6, <2>2, <2>3
<1> DEFINE word == [j \in 1 .. L - L |-> b[L + j - 1]]
<1>8. /\ Cut(b, 1).words = Append(<<>>, word)
      /\ Cut(b, 1).lost = (FALSE \/ L > M)
  <2>1. CutNextToken(c) = [words |-> Append(c.words, [j \in 1 .. L - L |-> c.buffer[L + j - 1]]),
                           buffer |-> [c.buffer EXCEPT ![IF L > M THEN 0 ELSE L] = Nul],
                           next |-> L + 1, lost |-> c.lost \/ L > M]
    BY <1>5 DEF CutNextToken, CutAt, Stops, M
  <2>2. /\ CutNextToken(c).words = Append(c.words, [j \in 1 .. L - L |-> c.buffer[L + j - 1]])
        /\ CutNextToken(c).lost = (c.lost \/ L > M)
    BY <2>1
  <2>3. QED
    BY <1>3, <1>7, <2>2
<1>9. word \in Seq(V) /\ Len(word) = 0
  <2>1. L - L = 0 /\ 1 .. 0 = {}
    BY <1>1
  <2>2. word \in [1 .. 0 -> V]
    BY <2>1
  <2> HIDE DEF word
  <2>3. QED
    BY <2>2
<1> HIDE DEF word
<1>10. Append(<<>>, word)[1] = word
  <2>1. <<>> \in Seq(Seq(V)) /\ Len(<<>>) = 0
    BY EmptySeq
  <2>2. Append(<<>>, word)[0 + 1] = word
    BY <1>9, <2>1, AppendProperties
  <2>3. 0 + 1 = 1
    OBVIOUS
  <2>4. QED
    BY <2>2, <2>3
<1>11. ~(L > M)
  BY <1>1
<1>12. QED
  BY <1>8, <1>9, <1>10, <1>11

-----------------------------------------------------------------------------
(* One call of fgets().                                                    *)

(* What is left of the text w behind its first p cells.                    *)
Rest(s, w, p) ==
  /\ s \in Seq(Cells) /\ p \in 0 .. Len(w) /\ Len(s) = Len(w) - p
  /\ \A i \in 1 .. Len(s) : s[i] = w[p + i]

LEMMA RestBehind ==
  ASSUME NEW w \in Seq(Cells), NEW s, NEW p, Rest(s, w, p), NEW n \in 0 .. Len(s)
  PROVE  Rest(SubSeq(s, n + 1, Len(s)), w, p + n)
<1> DEFINE L == Len(s)
           t == SubSeq(s, n + 1, L)
           a == Len(w)
<1>1. /\ s \in Seq(Cells) /\ p \in 0 .. a /\ L = a - p /\ L \in Nat /\ a \in Nat
      /\ \A i \in 1 .. L : s[i] = w[p + i] /\ s[i] \in Cells
  BY LenProperties, ElementOfSeq DEF Rest
<1> HIDE DEF L, a
<1>2. /\ n \in Nat /\ n <= L
  BY <1>1 DEF L
<1>3. \A i \in n + 1 .. L : s[i] \in Cells
  BY <1>1, <1>2
<1>4. /\ t \in Seq(Cells) /\ Len(t) = (IF n + 1 <= L THEN L - (n + 1) + 1 ELSE 0)
      /\ \A i \in 1 .. L - (n + 1) + 1 : t[i] = s[n + 1 + i - 1]
  <2>1. n + 1 \in Int /\ L \in Int
    BY <1>1, <1>2
  <2>2. QED
    BY <1>3, <2>1, SubSeqProperties
<1> HIDE DEF t
<1>5. Len(t) = L - n /\ Len(t) = a - (p + n) /\ p + n \in 0 .. a
  BY <1>1, <1>2, <1>4
<1>6. \A i \in 1 .. Len(t) : t[i] = w[(p + n) + i]
  <2> TAKE i \in 1 .. Len(t)
  <2>1. /\ i \in 1 .. L - (n + 1) + 1 /\ n + 1 + i - 1 \in 1 .. L
        /\ p + (n + 1 + i - 1) = (p + n) + i
    BY <1>1, <1>2, <1>5
  <2>2. t[i] = s[n + 1 + i - 1]
    BY <1>4, <2>1
  <2>3. s[n + 1 + i - 1] = w[p + (n + 1 + i - 1)]
    BY <1>1, <2>1
  <2>4. QED
    BY <2>1, <2>2, <2>3
<1>7. QED
  BY <1>4, <1>5, <1>6 DEF Rest, t, L, a

LEMMA TakenIs ==
  ASSUME stream \in Seq(Cells), stream # <<>>
  PROVE  /\ Taken \in 1 .. Limit /\ Taken <= Len(stream)
         /\ \A n \in 1 .. Len(stream) : stream[n] = Newline => Taken <= n
         /\ \/ Taken = Limit \/ Taken = Len(stream)
            \/ Taken \in 1 .. Len(stream) /\ stream[Taken] = Newline
<1> DEFINE L == Len(stream)
           T == {n \in DOMAIN stream : stream[n] = Newline} \cup {L, Limit}
<1>1. DOMAIN stream = 1 .. L /\ L \in Nat /\ L > 0
  BY LenProperties, EmptySeq
<1>2. Limit \in Nat /\ Limit > 0
  BY LengthAssumption DEF Limit
<1>3. Taken = Min(T)
  BY DEF Taken
<1> HIDE DEF L
<1>4. T \subseteq Nat /\ T # {} /\ \A n \in T : n > 0
  BY <1>1, <1>2
<1>5. /\ Taken \in T /\ \A n \in T : Taken <= n
  <2> HIDE DEF T
  <2>1. QED
    BY <1>3, <1>4, MinIn
<1>6. Taken \in Nat /\ Taken > 0 /\ Taken <= L /\ Taken <= Limit
  BY <1>4, <1>5
<1>7. \A n \in 1 .. L : stream[n] = Newline => Taken <= n
  BY <1>1, <1>5
<1>8. Taken = Limit \/ Taken = L \/ (Taken \in 1 .. L /\ stream[Taken] = Newline)
  BY <1>1, <1>5
<1>9. QED
  BY <1>2, <1>6, <1>7, <1>8 DEF L

LEMMA FilledIs ==
  ASSUME NEW V, Cells \subseteq V, buffer \in [0 .. MAX_LINE_LENGTH -> V],
         stream \in Seq(Cells), stream # <<>>
  PROVE  /\ Filled \in [0 .. MAX_LINE_LENGTH -> V]
         /\ \A i \in 1 .. Taken : Filled[i - 1] = stream[i]
         /\ Filled[Taken] = Nul
<1> DEFINE M == MAX_LINE_LENGTH
           F(n) == IF n < Taken THEN stream[n + 1] ELSE IF n = Taken THEN Nul ELSE buffer[n]
<1>1. Taken \in Nat /\ Taken <= Len(stream) /\ Taken < M /\ M \in Nat /\ Len(stream) \in Nat
  <2>1. Taken \in 1 .. Limit /\ Taken <= Len(stream) /\ Limit = M - 1 /\ M \in Nat
        /\ Len(stream) \in Nat
    BY TakenIs, LengthAssumption, LenProperties DEF Limit
  <2> HIDE DEF M
  <2>2. QED
    BY <2>1
<1>2. Filled = [n \in 0 .. M |-> F(n)]
  <2>1. DOMAIN buffer \cup 0 .. Taken = 0 .. M
    BY <1>1
  <2>2. QED
    BY <2>1 DEF Filled
<1> HIDE DEF M
<1>3. ASSUME NEW n \in 0 .. M
      PROVE  F(n) \in V
  <2>1. CASE n < Taken
    <3>1. n + 1 \in 1 .. Len(stream)
      BY <1>1, <2>1
    <3>2. stream[n + 1] \in Cells
      BY <3>1, ElementOfSeq
    <3>3. QED
      BY <2>1, <3>2
  <2>2. CASE n = Taken
    BY <1>1, <2>2, CellsAre
  <2>3. CASE n > Taken
    BY <1>1, <2>3 DEF M
  <2>4. QED
    BY <1>1, <2>1, <2>2, <2>3
<1>4. Filled \in [0 .. M -> V]
  <2> HIDE DEF F
  <2>1. QED
    BY <1>2, <1>3
<1>5. \A i \in 1 .. Taken : Filled[i - 1] = stream[i]
  <2> TAKE i \in 1 .. Taken
  <2>1. i - 1 \in 0 .. M /\ i - 1 < Taken /\ (i - 1) + 1 = i
    BY <1>1
  <2>2. QED
    BY <1>2, <2>1
<1>6. Filled[Taken] = Nul
  BY <1>1, <1>2
<1>7. QED
  BY <1>4, <1>5, <1>6 DEF M

(* No line is without a cell.                                              *)
LEMMA LineGrows ==
  ASSUME NEW f \in Seq(Seq(Words)), NEW layout, NEW closed, NEW text, NEW at,
         Laid(text, f, layout, closed, at), NEW m \in 1 .. Len(f),
         m < Len(f) \/ closed \/ f[m] # <<>>
  PROVE  /\ at[m - 1] \in Nat /\ at[m] \in Nat /\ Len(Piece(f, m, layout, closed)) \in Nat
         /\ at[m - 1] < at[m]
<1> DEFINE line == f[m]
           L == Len(Text(line, layout))
           P == Len(Piece(f, m, layout, closed))
<1>1. line \in Seq(Words) /\ Len(f) \in Nat
  BY LenProperties, ElementOfSeq
<1>2. at[m - 1] \in Nat /\ at[m] \in Nat /\ at[m] = at[m - 1] + P
  <2>1. m - 1 \in 0 .. Len(f) /\ m \in 0 .. Len(f)
    BY <1>1
  <2>2. QED
    BY <2>1 DEF Laid
<1>3. L \in Nat /\ P \in Nat /\ P = L + (IF m < Len(f) \/ closed THEN 1 ELSE 0)
  <2>1. f[m] \in Seq(Words)
    BY <1>1
  <2>2. QED
    BY <2>1, PieceIs DEF Ends
<1>4. ASSUME line # <<>>
      PROVE  L > 0
  <2>1. PICK ends : Placed(Text(line, layout), line, ends)
    BY <1>1, TextIs
  <2>2. Len(line) \in Nat \ {0}
    BY <1>1, <1>4, EmptySeq
  <2>3. 0 \in 0 .. Len(line) - 1 /\ 0 + 1 \in 1 .. Len(line) /\ 0 + 1 \in 0 .. Len(line)
        /\ 0 \in 0 .. Len(line)
    BY <2>2
  <2> DEFINE e == ends[0 + 1]
             lw == Len(line[0 + 1])
  <2>4. ends[0] = 0 /\ ends[0] <= e - lw /\ e <= L /\ e \in Nat
    BY <2>1, <2>3 DEF Placed
  <2>5. line[0 + 1] \in Words
    BY <1>1, <2>3, ElementOfSeq
  <2>6. lw \in Nat \ {0}
    BY <2>5, EmptySeq DEF Words
  <2> HIDE DEF e, lw, L
  <2>7. QED
    BY <1>3, <2>4, <2>6
<1> HIDE DEF line, L, P
<1>5. P > 0
  BY <1>3, <1>4 DEF line
<1>6. QED
  BY <1>2, <1>3, <1>5 DEF P

(* One call takes nothing of the line behind.                              *)
LEMMA Advance ==
  ASSUME NEW f \in Seq(Seq(Words)), NEW layout, NEW closed, NEW w \in Seq(Cells), NEW at,
         Laid(w, f, layout, closed, at), NEW p, Rest(stream, w, p),
         NEW m \in 1 .. Len(f), p < at[m]
  PROVE  /\ stream # <<>> /\ Taken \in 0 .. Len(stream) /\ Taken > 0
         /\ p + Taken <= at[m] /\ p + Taken \in 0 .. Len(w)
<1> DEFINE L == Len(stream)
           piece == Piece(f, m, layout, closed)
           P == Len(piece)
           a == at[m - 1]
           b == at[m]
           z == Len(w)
<1>1. /\ stream \in Seq(Cells) /\ p \in 0 .. z /\ L = z - p /\ z \in Nat /\ L \in Nat
      /\ \A i \in 1 .. L : stream[i] = w[p + i]
  BY LenProperties DEF Rest
<1>2. Len(f) \in Nat /\ m - 1 \in 0 .. Len(f) /\ m \in 0 .. Len(f)
  BY LenProperties
<1>3. /\ a \in Nat /\ b \in Nat /\ b = a + P /\ b <= z /\ at[Len(f)] = z
      /\ \A i \in 1 .. P : w[a + i] = piece[i]
  BY <1>2 DEF Laid
<1>4. f[m] \in Seq(Words)
  BY ElementOfSeq
<1>5. /\ P \in Nat /\ Len(Text(f[m], layout)) \in Nat
      /\ P = Len(Text(f[m], layout)) + (IF m < Len(f) \/ closed THEN 1 ELSE 0)
      /\ m < Len(f) \/ closed => piece[P] = Newline
  BY <1>4, PieceIs DEF Ends
<1>6. p < b
  OBVIOUS
<1> HIDE DEF L, P, a, b, z, piece
<1>7. L > 0
  BY <1>1, <1>3, <1>6
<1>8. stream # <<>>
  BY <1>7, EmptySeq DEF L
<1>9. /\ Taken \in Nat /\ Taken > 0 /\ Taken <= L
      /\ \A n \in 1 .. L : stream[n] = Newline => Taken <= n
  <2>1. Taken \in 1 .. Limit /\ Taken <= L
        /\ \A n \in 1 .. L : stream[n] = Newline => Taken <= n
    BY <1>1, <1>8, TakenIs DEF L
  <2>2. Limit \in Nat
    BY LengthAssumption DEF Limit
  <2>3. QED
    BY <2>1, <2>2
<1>10. CASE m < Len(f) \/ closed
  <2>1. P > 0 /\ piece[P] = Newline
    BY <1>5, <1>10
  <2>2. P \in 1 .. P /\ w[a + P] = Newline
    <3>1. P \in 1 .. P
      BY <1>5, <2>1
    <3>2. QED
      BY <1>3, <2>1, <3>1
  <2>3. b - p \in 1 .. L /\ p + (b - p) = a + P
    BY <1>1, <1>3, <1>6
  <2>4. stream[b - p] = Newline
    BY <1>1, <2>2, <2>3
  <2>5. Taken <= b - p
    BY <1>9, <2>3, <2>4
  <2>6. QED
    BY <1>1, <1>3, <1>8, <1>9, <2>5 DEF L, z, b
<1>11. CASE ~(m < Len(f) \/ closed)
  <2>1. m = Len(f)
    BY <1>2, <1>11
  <2>2. b = z
    BY <1>3, <2>1 DEF b
  <2>3. QED
    BY <1>1, <1>3, <1>8, <1>9, <2>2 DEF L, z, b
<1>12. QED
  BY <1>10, <1>11

(* What the buffer has in it. *)
Held == Cells \cup Stale

(* All before the line m has been read, and nothing of it. *)
Starts(at, m, p) == p = at[m - 1] /\ p < at[m]

TakenWhole(f, layout, at, m, p) ==
  p + Taken = at[m] /\ Holding(Filled, Text(f[m], layout))

(* A short line is taken at once.                                          *)
LEMMA AdvanceLine ==
  ASSUME NEW f \in Seq(Seq(Words)), NEW layout, NEW closed, NEW w \in Seq(Cells), NEW at,
         Laid(w, f, layout, closed, at), NEW p, Rest(stream, w, p),
         NEW m \in 1 .. Len(f), Starts(at, m, p), Short(f[m]),
         buffer \in [0 .. MAX_LINE_LENGTH -> Held]
  PROVE  TakenWhole(f, layout, at, m, p)
<1> DEFINE L == Len(stream)
           text == Text(f[m], layout)
           T == Len(text)
           piece == Piece(f, m, layout, closed)
           P == Len(piece)
           a == at[m - 1]
           b == at[m]
           z == Len(w)
           M == MAX_LINE_LENGTH
<1>1. /\ stream \in Seq(Cells) /\ p \in 0 .. z /\ L = z - p /\ z \in Nat /\ L \in Nat
      /\ \A i \in 1 .. L : stream[i] = w[p + i]
  BY LenProperties DEF Rest
<1>2. Len(f) \in Nat /\ m - 1 \in 0 .. Len(f) /\ m \in 0 .. Len(f) /\ f[m] \in Seq(Words)
  BY LenProperties, ElementOfSeq
<1>3. /\ a \in Nat /\ b \in Nat /\ b = a + P /\ b <= z /\ p = a /\ p < b
      /\ \A i \in 1 .. P : w[a + i] = piece[i]
  BY <1>2 DEF Laid, Starts
<1>4. /\ P \in Nat /\ T \in Nat
      /\ P = T + (IF m < Len(f) \/ closed THEN 1 ELSE 0)
      /\ \A i \in 1 .. T : piece[i] = text[i] /\ piece[i] \in Plain
      /\ m < Len(f) \/ closed => piece[P] = Newline
  <2>1. f[m] \in Seq(Words)
    BY <1>2
  <2>2. Ends(piece, text, m < Len(f) \/ closed)
    BY <2>1, PieceIs
  <2>3. QED
    BY <2>2 DEF Ends
<1>5. T < M - 1 /\ M \in Nat
  <2>1. Len(Text(f[m], "wide")) < M - 1 /\ Len(Text(f[m], "wide")) \in Nat /\ T \in Nat
        /\ T <= Len(Text(f[m], "wide")) /\ M \in Nat
    BY <1>2, PlainShorter, LengthAssumption DEF Short
  <2> HIDE DEF T, M
  <2>2. QED
    BY <2>1
<1>6. /\ stream # <<>> /\ Taken > 0 /\ p + Taken <= b
  <2>1. p < at[m]
    BY DEF Starts
  <2>2. QED
    BY <2>1, Advance
<1>7. /\ Taken \in Nat
      /\ Taken = Limit \/ Taken = L \/ (Taken \in 1 .. L /\ stream[Taken] = Newline)
      /\ Limit = M - 1
  <2>1. Taken \in 1 .. Limit
    BY <1>1, <1>6, TakenIs
  <2>2. Taken = Limit \/ Taken = L \/ (Taken \in 1 .. L /\ stream[Taken] = Newline)
    BY <1>1, <1>6, TakenIs
  <2>3. Limit = M - 1
    BY DEF Limit
  <2>4. Taken \in Nat
    <3> HIDE DEF M
    <3>1. QED
      BY <1>5, <2>1, <2>3
  <2>5. QED
    BY <2>2, <2>3, <2>4
<1>8. /\ Filled[Taken] = Nul
      /\ \A i \in 1 .. Taken : Filled[i - 1] = stream[i]
  <2>1. Cells \subseteq Held
    BY DEF Held
  <2>2. QED
    BY <1>1, <1>6, <2>1, FilledIs
<1> HIDE DEF L, P, a, b, z, piece, M, T, text
<1>9. \A i \in 1 .. P : stream[i] = piece[i] /\ i \in 1 .. L
  <2> TAKE i \in 1 .. P
  <2>1. i \in 1 .. L
    BY <1>1, <1>3, <1>4
  <2>2. QED
    BY <1>1, <1>3, <2>1
<1>10. \A i \in 1 .. T : stream[i] = text[i] /\ stream[i] # Newline /\ i \in 1 .. P
  <2> TAKE i \in 1 .. T
  <2>1. i \in 1 .. P
    BY <1>4
  <2>2. piece[i] = text[i] /\ piece[i] \in Plain
    BY <1>4
  <2>3. QED
    BY <1>9, <2>1, <2>2, CellsAre
<1>11. Taken = P
  <2>1. Taken <= P
    BY <1>3, <1>4, <1>6, <1>7
  <2>2. P <= L /\ P <= M - 1 /\ P <= T + 1
    BY <1>1, <1>3, <1>4, <1>5
  <2>3. CASE Taken \in 1 .. L /\ stream[Taken] = Newline
    <3>1. Taken \notin 1 .. T
      BY <1>10, <2>3
    <3>2. Taken > T
      BY <1>4, <1>6, <1>7, <3>1
    <3>3. QED
      BY <1>4, <1>7, <2>1, <2>2, <3>2
  <2>4. CASE Taken = L \/ Taken = Limit
    <3>1. P <= Taken
      BY <1>7, <2>2, <2>4
    <3>2. \A x, y \in Nat : x <= y /\ y <= x => x = y
      OBVIOUS
    <3>3. QED
      BY <1>4, <1>7, <2>1, <3>1, <3>2
  <2>5. QED
    BY <1>7, <2>3, <2>4
<1>12. p + Taken = b
  BY <1>3, <1>11
<1>13. \A i \in 1 .. T : Filled[i - 1] = text[i]
  BY <1>8, <1>10, <1>11
<1>14. Filled[T] \in {Newline, Nul}
  <2>1. CASE m < Len(f) \/ closed
    <3>1. \A x \in Nat : x + 1 \in 1 .. x + 1 /\ (x + 1) - 1 = x
      OBVIOUS
    <3>2. P = T + 1 /\ P \in 1 .. P /\ P - 1 = T
      BY <1>4, <2>1, <3>1
    <3>3. Filled[P - 1] = stream[P] /\ stream[P] = piece[P]
      BY <1>8, <1>9, <1>11, <3>2
    <3>4. QED
      BY <1>4, <2>1, <3>2, <3>3
  <2>2. CASE ~(m < Len(f) \/ closed)
    BY <1>4, <1>8, <1>11, <2>2
  <2>3. QED
    BY <2>1, <2>2
<1>15. T <= M
  BY <1>4, <1>5
<1>16. QED
  BY <1>12, <1>13, <1>14, <1>15 DEF TakenWhole, Holding, b, T, text, M

-----------------------------------------------------------------------------
(* What a file of complete lines means, line by line.                      *)

LEMMA KeywordsAre ==
  /\ Keywords = {"contenttype", "listen", "documentroot", "logfile"}
  /\ Arguments["contenttype"] = 2 /\ Arguments["listen"] = 2
  /\ Arguments["documentroot"] = 1 /\ Arguments["logfile"] = 1
BY DEF Keywords, Arguments

SetCases(c, key, words) ==
  /\ key = "listen" =>
       Set(c, key, words) = [c EXCEPT !.interface = words[1], !.port = words[2]]
  /\ key = "documentroot" => Set(c, key, words) = [c EXCEPT !.documentRoot = words[1]]
  /\ key = "logfile" => Set(c, key, words) = [c EXCEPT !.logFile = words[1]]
  /\ key = "contenttype" => Set(c, key, words) = c

LEMMA SetIs ==
  ASSUME NEW c, NEW key, NEW words
  PROVE  SetCases(c, key, words)
<1>1. ASSUME key = "listen"
      PROVE  Set(c, key, words) = [c EXCEPT !.interface = words[1], !.port = words[2]]
  BY <1>1, Zenon DEF Set
<1>2. ASSUME key = "documentroot"
      PROVE  Set(c, key, words) = [c EXCEPT !.documentRoot = words[1]]
  BY <1>2, Zenon DEF Set
<1>3. ASSUME key = "logfile"
      PROVE  Set(c, key, words) = [c EXCEPT !.logFile = words[1]]
  BY <1>3, Zenon DEF Set
<1>4. ASSUME key = "contenttype"
      PROVE  Set(c, key, words) = c
  BY <1>4, Zenon DEF Set
<1>5. QED
  BY <1>1, <1>2, <1>3, <1>4 DEF SetCases

Values  == Seq(STRING \cup Plain)
Configs == [Fields -> Values]

(* Only the words that the keyword asks for matter. *)
LEMMA SetWords ==
  ASSUME NEW c \in Configs, NEW key \in Keywords, NEW words, NEW others,
         \A i \in 1 .. Arguments[key] : words[i] \in Values /\ others[i] = words[i]
  PROVE  Set(c, key, words) \in Configs /\ Set(c, key, others) = Set(c, key, words)
<1>1. SetCases(c, key, words) /\ SetCases(c, key, others)
  BY SetIs
<1>2. 1 \in 1 .. 1 /\ 1 \in 1 .. 2 /\ 2 \in 1 .. 2
  OBVIOUS
<1>3. CASE key = "listen"
  <2>1. words[1] \in Values /\ words[2] \in Values /\ others[1] = words[1] /\ others[2] = words[2]
    BY <1>2, <1>3, KeywordsAre
  <2>2. /\ Set(c, key, words) = [c EXCEPT !.interface = words[1], !.port = words[2]]
        /\ Set(c, key, others) = [c EXCEPT !.interface = others[1], !.port = others[2]]
    BY <1>1, <1>3 DEF SetCases
  <2>3. [c EXCEPT !.interface = words[1], !.port = words[2]] \in Configs
    BY <2>1 DEF Configs, Fields
  <2>4. QED
    BY <2>1, <2>2, <2>3
<1>4. CASE key = "documentroot"
  <2>1. words[1] \in Values /\ others[1] = words[1]
    BY <1>2, <1>4, KeywordsAre
  <2>2. /\ Set(c, key, words) = [c EXCEPT !.documentRoot = words[1]]
        /\ Set(c, key, others) = [c EXCEPT !.documentRoot = others[1]]
    BY <1>1, <1>4 DEF SetCases
  <2>3. [c EXCEPT !.documentRoot = words[1]] \in Configs
    BY <2>1 DEF Configs, Fields
  <2>4. QED
    BY <2>1, <2>2, <2>3
<1>5. CASE key = "logfile"
  <2>1. words[1] \in Values /\ others[1] = words[1]
    BY <1>2, <1>5, KeywordsAre
  <2>2. /\ Set(c, key, words) = [c EXCEPT !.logFile = words[1]]
        /\ Set(c, key, others) = [c EXCEPT !.logFile = others[1]]
    BY <1>1, <1>5 DEF SetCases
  <2>3. [c EXCEPT !.logFile = words[1]] \in Configs
    BY <2>1 DEF Configs, Fields
  <2>4. QED
    BY <2>1, <2>2, <2>3
<1>6. CASE key = "contenttype"
  BY <1>1, <1>6 DEF SetCases
<1>7. QED
  BY <1>3, <1>4, <1>5, <1>6, KeywordsAre

LEMMA CompleteIs ==
  ASSUME NEW line \in Seq(Words), Complete(line)
  PROVE  /\ Key(line) \in Keywords /\ line[1] \in Words /\ Arguments[Key(line)] \in 1 .. 2
         /\ Arguments[Key(line)] < Len(line) /\ Len(line) \in Nat
         /\ \A i \in 1 .. Arguments[Key(line)] :
              Tail(line)[i] = line[i + 1] /\ line[i + 1] \in Words /\ Tail(line)[i] \in Values
<1> DEFINE a == Arguments[Key(line)]
<1>1. /\ line # <<>> /\ Key(line) \in Keywords /\ Len(line) > a /\ Len(line) \in Nat
  BY LenProperties DEF Complete
<1>2. a \in 1 .. 2
  BY <1>1, KeywordsAre
<1>3. Words \subseteq Values
  <2>1. ASSUME NEW w \in Seq(Plain)
        PROVE  w \in Values
    BY SeqMonotonic DEF Values
  <2>2. QED
    BY <2>1 DEF Words
<1> HIDE DEF a
<1>4. /\ Len(Tail(line)) = Len(line) - 1
      /\ \A i \in 1 .. Len(Tail(line)) : Tail(line)[i] = line[i + 1]
  BY <1>1, HeadTailProperties
<1>5. ASSUME NEW i \in 1 .. a
      PROVE  Tail(line)[i] = line[i + 1] /\ line[i + 1] \in Words
  <2>1. i \in 1 .. Len(Tail(line)) /\ i + 1 \in 1 .. Len(line)
    BY <1>1, <1>2, <1>4
  <2>2. QED
    BY <1>4, <2>1, ElementOfSeq
<1>6. line[1] \in Words
  <2>1. 1 \in 1 .. Len(line)
    BY <1>1, <1>2
  <2>2. QED
    BY <2>1, ElementOfSeq
<1>7. QED
  BY <1>1, <1>2, <1>3, <1>5, <1>6 DEF a

AllComplete(f) == \A m \in 1 .. Len(f) : Complete(f[m])

MeaningRuns(run, f) ==
  /\ run[0] = Defaults
  /\ \A m \in 0 .. Len(f) : run[m] \in Configs
  /\ \A m \in 0 .. Len(f) - 1 : run[m + 1] = Set(run[m], Key(f[m + 1]), Tail(f[m + 1]))

LEMMA MeaningRun ==
  ASSUME NEW f \in Seq(Seq(Words)), AllComplete(f)
  PROVE  \E run : MeaningRuns(run, f) /\ Meaning(f) = run[Len(f)]
<1> DEFINE n == Len(f)
           Step(c, line) == Set(c, Key(line), Tail(line))
           base == Defaults
           A == Configs
           Op == [m \in 1 .. n |-> [c \in A |-> Step(c, f[m])]]
           Iter(g) == [s \in SUBSET (DOMAIN f) |-> IF s = {} THEN base
                         ELSE Step(g[s \ {Max(s)}], f[Max(s)])]
           iter == CHOOSE g : g = Iter(g)
<1>1. Meaning(f) = iter[DOMAIN f]
  BY DEF Meaning, FoldLeft, MapThenFoldSet
<1>2. n \in Nat /\ DOMAIN f = 1 .. n
  BY LenProperties
<1>3. base \in A
  <2>1. ASSUME NEW w \in Seq(STRING)
        PROVE  w \in Values
    BY SeqMonotonic DEF Values
  <2>2. QED
    BY <2>1, DefaultsAssumption DEF Configs
<1>4. Op \in [1 .. n -> [A -> A]]
  <2>1. ASSUME NEW m \in 1 .. n, NEW c \in A
        PROVE  Step(c, f[m]) \in A
    <3>1. f[m] \in Seq(Words) /\ Complete(f[m])
      BY ElementOfSeq DEF AllComplete
    <3> DEFINE line == f[m]
               key == Key(line)
               words == Tail(line)
    <3>2. key \in Keywords /\ \A i \in 1 .. Arguments[key] : words[i] \in Values
      BY <3>1, CompleteIs
    <3> HIDE DEF key, words
    <3>3. Set(c, key, words) \in Configs
      BY <3>2, SetWords
    <3>4. QED
      BY <3>3 DEF key, words
  <2> HIDE DEF A, Step
  <2>2. QED
    BY <2>1
<1>5. \A s \in (SUBSET (1 .. n)) \ {{}} : Max(s) \in 1 .. n
  <2> HIDE DEF n
  <2>1. QED
    BY <1>2, MaxOf
<1> HIDE DEF n, base, A, Step
<1>6. \A g : FoldsLeft(g, n, A, base, Op)
         <=> /\ g[{}] = base
             /\ \A s \in (SUBSET (1 .. n)) \ {{}} :
                  g[s \ {Max(s)}] \in A => g[s] = Step(g[s \ {Max(s)}], f[Max(s)])
  BY <1>5 DEF FoldsLeft
<1>7. \E g : g = Iter(g)
  <2> HIDE DEF Op
  <2>1. PICK g : g = [s \in SUBSET (1 .. n) |-> g[s]] /\ FoldsLeft(g, n, A, base, Op)
    BY <1>2, <1>3, <1>4, FoldLeftExists
  <2>2. \A s \in SUBSET (1 .. n) : g[s] \in A
    BY <1>2, <1>3, <1>4, <2>1, FoldLeftIn
  <2>3. \A s \in (SUBSET (1 .. n)) \ {{}} : g[s] = Step(g[s \ {Max(s)}], f[Max(s)])
    BY <1>6, <2>1, <2>2
  <2>4. g[{}] = base
    BY <2>1 DEF FoldsLeft
  <2>5. g = Iter(g)
    BY <1>2, <2>1, <2>3, <2>4
  <2>6. QED
    BY <2>5
<1>8. iter = Iter(iter)
  <2> HIDE DEF Iter
  <2>1. QED
    BY <1>7
<1> HIDE DEF iter
<1>9. FoldsLeft(iter, n, A, base, Op)
  <2>1. iter[{}] = base
    BY <1>8
  <2>2. \A s \in (SUBSET (1 .. n)) \ {{}} : iter[s] = Step(iter[s \ {Max(s)}], f[Max(s)])
    BY <1>2, <1>8
  <2>3. \A s \in (SUBSET (1 .. n)) \ {{}} :
          iter[s \ {Max(s)}] \in A => iter[s] = Step(iter[s \ {Max(s)}], f[Max(s)])
    BY <2>2
  <2>4. QED
    BY <1>6, <2>1, <2>3
<1>10. PICK run : RunsLeft(run, n, A, base, Op) /\ run[n] = iter[1 .. n]
  <2>1. n \in Nat
    BY <1>2
  <2> HIDE DEF Op, Iter
  <2>2. QED
    BY <1>3, <1>4, <1>9, <2>1, FoldLeftRun
<1>11. \A m \in 0 .. n - 1 : run[m + 1] = Step(run[m], f[m + 1])
  <2> TAKE m \in 0 .. n - 1
  <2>1. m + 1 \in 1 .. n /\ m \in 0 .. n
    BY <1>2
  <2>2. run[m + 1] = Op[m + 1][run[m]] /\ run[m] \in A
    BY <1>10, <2>1 DEF RunsLeft
  <2>3. QED
    BY <2>1, <2>2
<1>12. MeaningRuns(run, f)
  BY <1>10, <1>11 DEF RunsLeft, MeaningRuns, A, n, base, Step
<1>13. Meaning(f) = run[Len(f)]
  BY <1>1, <1>2, <1>10 DEF n
<1>14. QED
  BY <1>12, <1>13

AddType(s, line) == IF Key(line) = "contenttype" THEN Append(s, SubSeq(line, 2, 3)) ELSE s

TypesRuns(run, f) ==
  /\ run[0] = <<>>
  /\ \A m \in 0 .. Len(f) : run[m] \in Seq(Seq(Words))
  /\ \A m \in 0 .. Len(f) - 1 : run[m + 1] = AddType(run[m], f[m + 1])

LEMMA TypesRun ==
  ASSUME NEW f \in Seq(Seq(Words)), AllComplete(f)
  PROVE  \E run : TypesRuns(run, f) /\ TypesIn(f) = run[Len(f)]
<1> DEFINE n == Len(f)
           Step(s, line) == AddType(s, line)
           base == <<>>
           A == Seq(Seq(Words))
           Op == [m \in 1 .. n |-> [c \in A |-> Step(c, f[m])]]
           Iter(g) == [s \in SUBSET (DOMAIN f) |-> IF s = {} THEN base
                         ELSE Step(g[s \ {Max(s)}], f[Max(s)])]
           iter == CHOOSE g : g = Iter(g)
<1>1. TypesIn(f) = iter[DOMAIN f]
  BY DEF TypesIn, AddType, FoldLeft, MapThenFoldSet
<1>2. n \in Nat /\ DOMAIN f = 1 .. n
  BY LenProperties
<1>3. base \in A
  BY EmptySeq
<1>4. Op \in [1 .. n -> [A -> A]]
  <2>1. ASSUME NEW m \in 1 .. n, NEW c \in A
        PROVE  Step(c, f[m]) \in A
    <3>1. f[m] \in Seq(Words) /\ Complete(f[m])
      BY ElementOfSeq DEF AllComplete
    <3>2. CASE Key(f[m]) = "contenttype"
      <4> DEFINE line == f[m]
      <4>1. line \in Seq(Words) /\ Len(line) \in Nat /\ Len(line) > 2
        BY <3>1, <3>2, CompleteIs, KeywordsAre
      <4> HIDE DEF line
      <4>2. \A i \in 2 .. 3 : i \in 1 .. Len(line)
        BY <4>1
      <4>3. \A i \in 2 .. 3 : line[i] \in Words
        BY <4>1, <4>2, ElementOfSeq
      <4>4. SubSeq(line, 2, 3) \in Seq(Words)
        <5>1. 2 \in Int /\ 3 \in Int
          OBVIOUS
        <5>2. QED
          BY <4>3, <5>1, SubSeqProperties
      <4>5. Append(c, SubSeq(line, 2, 3)) \in A
        BY <4>4, AppendProperties
      <4>6. QED
        BY <3>2, <4>5 DEF line, AddType
    <3>3. CASE Key(f[m]) # "contenttype"
      BY <3>3 DEF AddType
    <3>4. QED
      BY <3>2, <3>3
  <2> HIDE DEF A, Step
  <2>2. QED
    BY <2>1
<1>5. \A s \in (SUBSET (1 .. n)) \ {{}} : Max(s) \in 1 .. n
  <2> HIDE DEF n
  <2>1. QED
    BY <1>2, MaxOf
<1> HIDE DEF n, base, A, Step
<1>6. \A g : FoldsLeft(g, n, A, base, Op)
         <=> /\ g[{}] = base
             /\ \A s \in (SUBSET (1 .. n)) \ {{}} :
                  g[s \ {Max(s)}] \in A => g[s] = Step(g[s \ {Max(s)}], f[Max(s)])
  BY <1>5 DEF FoldsLeft
<1>7. \E g : g = Iter(g)
  <2> HIDE DEF Op
  <2>1. PICK g : g = [s \in SUBSET (1 .. n) |-> g[s]] /\ FoldsLeft(g, n, A, base, Op)
    BY <1>2, <1>3, <1>4, FoldLeftExists
  <2>2. \A s \in SUBSET (1 .. n) : g[s] \in A
    BY <1>2, <1>3, <1>4, <2>1, FoldLeftIn
  <2>3. \A s \in (SUBSET (1 .. n)) \ {{}} : g[s] = Step(g[s \ {Max(s)}], f[Max(s)])
    BY <1>6, <2>1, <2>2
  <2>4. g[{}] = base
    BY <2>1 DEF FoldsLeft
  <2>5. g = Iter(g)
    BY <1>2, <2>1, <2>3, <2>4
  <2>6. QED
    BY <2>5
<1>8. iter = Iter(iter)
  <2> HIDE DEF Iter
  <2>1. QED
    BY <1>7
<1> HIDE DEF iter
<1>9. FoldsLeft(iter, n, A, base, Op)
  <2>1. iter[{}] = base
    BY <1>8
  <2>2. \A s \in (SUBSET (1 .. n)) \ {{}} : iter[s] = Step(iter[s \ {Max(s)}], f[Max(s)])
    BY <1>2, <1>8
  <2>3. \A s \in (SUBSET (1 .. n)) \ {{}} :
          iter[s \ {Max(s)}] \in A => iter[s] = Step(iter[s \ {Max(s)}], f[Max(s)])
    BY <2>2
  <2>4. QED
    BY <1>6, <2>1, <2>3
<1>10. PICK run : RunsLeft(run, n, A, base, Op) /\ run[n] = iter[1 .. n]
  <2>1. n \in Nat
    BY <1>2
  <2> HIDE DEF Op, Iter
  <2>2. QED
    BY <1>3, <1>4, <1>9, <2>1, FoldLeftRun
<1>11. \A m \in 0 .. n - 1 : run[m + 1] = Step(run[m], f[m + 1])
  <2> TAKE m \in 0 .. n - 1
  <2>1. m + 1 \in 1 .. n /\ m \in 0 .. n
    BY <1>2
  <2>2. run[m + 1] = Op[m + 1][run[m]] /\ run[m] \in A
    BY <1>10, <2>1 DEF RunsLeft
  <2>3. QED
    BY <2>1, <2>2
<1>12. TypesRuns(run, f)
  BY <1>10, <1>11 DEF RunsLeft, TypesRuns, A, n, base, Step
<1>13. TypesIn(f) = run[Len(f)]
  BY <1>1, <1>2, <1>10 DEF n
<1>14. QED
  BY <1>12, <1>13

-----------------------------------------------------------------------------
(* The reader: what it has taken of the file when k lines have been begun. *)

LEMMA FileWords ==
  ASSUME NEW f \in Files
  PROVE  f \in Seq(Seq(Words)) /\ Len(f) \in Nat
<1>1. f \in Seq(Seq(Seq(STRING)))
  BY FilesAssumption
<1>2. ASSUME NEW n \in 1 .. Len(f)
      PROVE  f[n] \in Seq(Words)
  <2> DEFINE line == f[n]
  <2>1. line \in Seq(Seq(STRING)) /\ line \in Range(f)
    BY <1>1, ElementOfSeq, LenProperties DEF Range
  <2> HIDE DEF line
  <2>2. ASSUME NEW m \in 1 .. Len(line)
        PROVE  line[m] \in Words
    <3> DEFINE word == line[m]
    <3>1. word \in Seq(STRING) /\ word \in Range(line)
      BY <2>1, ElementOfSeq, LenProperties DEF Range
    <3>2. word # <<>> /\ Range(word) \cap {Blank, Newline, Nul} = {}
      BY <2>1, <3>1, FilesAssumption
    <3> HIDE DEF word
    <3>3. /\ Len(word) \in Nat /\ word \in [1 .. Len(word) -> STRING]
          /\ DOMAIN word = 1 .. Len(word)
      BY <3>1, LenProperties
    <3>4. \A i \in 1 .. Len(word) : word[i] \in Plain /\ word[i] # Blank
      BY <3>2, <3>3 DEF Range, Plain
    <3>5. word \in [1 .. Len(word) -> Plain]
      BY <3>3, <3>4
    <3>6. word \in Seq(Plain)
      BY <3>3, <3>5
    <3>7. QED
      BY <3>2, <3>4, <3>6 DEF Words, word
  <2>3. Len(line) \in Nat /\ line \in [1 .. Len(line) -> Seq(STRING)]
    BY <2>1, LenProperties
  <2>4. line \in [1 .. Len(line) -> Words]
    BY <2>2, <2>3
  <2>5. line \in Seq(Words)
    BY <2>3, <2>4
  <2>6. QED
    BY <2>5 DEF line
<1>3. Len(f) \in Nat /\ f \in [1 .. Len(f) -> Seq(Seq(STRING))]
  BY <1>1, LenProperties
<1>4. f \in [1 .. Len(f) -> Seq(Words)]
  BY <1>2, <1>3
<1>5. QED
  BY <1>3, <1>4

LEMMA MeantLines ==
  ASSUME NEW f \in Files, NEW n \in 1 .. Len(f)
  PROVE  /\ f[n] \in Range(f)
         /\ Meant(f) => Complete(f[n]) /\ Short(f[n])
<1>1. DOMAIN f = 1 .. Len(f)
  BY FileWords, LenProperties
<1>2. QED
  BY <1>1 DEF Meant, Range

Keyed(line) == line # <<>> /\ Len(line[1]) = 1 /\ Key(line) \in Keywords

Filed(f, layout, closed, at) ==
  /\ f \in Files /\ (f # <<>> /\ ~closed => Last(f) # <<>>)
  /\ Laid(Written(f, layout, closed), f, layout, closed, at)

Meanings(f, mean, kinds) ==
  Meant(f) => /\ MeaningRuns(mean, f) /\ Meaning(f) = mean[Len(f)]
              /\ TypesRuns(kinds, f) /\ TypesIn(f) = kinds[Len(f)]

Behind(w) == Len(w) - Len(stream)

Placing(f, w, at, k) ==
  /\ Rest(stream, w, Behind(w)) /\ Behind(w) <= at[k]
  /\ Behind(w) = at[k] \/ (k > 0 /\ ~Short(f[k]))

KeysFound(f, k) == \A m \in 1 .. k : Short(f[m]) => Keyed(f[m])

Gathered(f, k, mean, kinds) == Meant(f) => config = mean[k] /\ types = kinds[k]

Begun(f, layout, closed, at, k, mean, kinds) ==
  /\ Filed(f, layout, closed, at) /\ Meanings(f, mean, kinds)
  /\ k \in 0 .. Len(f) /\ Placing(f, Written(f, layout, closed), at, k)
  /\ KeysFound(f, k) /\ Gathered(f, k, mean, kinds)

Underway == \E layout, closed, at, k, mean, kinds : Begun(file, layout, closed, at, k, mean, kinds)

LEMMA MeaningsExist ==
  ASSUME NEW f \in Files
  PROVE  \E mean, kinds : Meanings(f, mean, kinds)
<1>1. f \in Seq(Seq(Words))
  BY FileWords
<1>2. CASE Meant(f)
  <2>1. AllComplete(f)
    BY <1>2, MeantLines DEF AllComplete
  <2>2. PICK mean : MeaningRuns(mean, f) /\ Meaning(f) = mean[Len(f)]
    BY <1>1, <2>1, MeaningRun
  <2>3. PICK kinds : TypesRuns(kinds, f) /\ TypesIn(f) = kinds[Len(f)]
    BY <1>1, <2>1, TypesRun
  <2>4. QED
    BY <2>2, <2>3 DEF Meanings
<1>3. QED
  BY <1>2 DEF Meanings

LEMMA OpenBegins ==
  ASSUME OpenFile, config = Defaults, types = <<>>
  PROVE  Underway' /\ buffer' \in [0 .. MAX_LINE_LENGTH -> Cells \cup Stale]
<1>1. PICK f \in Files, layout \in Layouts, closed \in BOOLEAN, cell \in Stale :
        /\ (f # <<>> /\ ~closed => Last(f) # <<>>)
        /\ file' = f /\ stream' = Written(f, layout, closed)
        /\ buffer' = [n \in 0 .. MAX_LINE_LENGTH |-> cell]
  BY DEF OpenFile
<1>2. config' = config /\ types' = types
  BY DEF OpenFile
<1> DEFINE w == Written(f, layout, closed)
<1>3. f \in Seq(Seq(Words)) /\ Len(f) \in Nat
  BY FileWords
<1>4. w \in Seq(Cells) /\ Len(w) \in Nat
  BY <1>3, WrittenIs, LenProperties
<1>5. PICK at : Laid(w, f, layout, closed, at)
  BY <1>3, WrittenIs
<1>6. PICK mean, kinds : Meanings(f, mean, kinds)
  BY MeaningsExist
<1>7. Filed(f, layout, closed, at)
  BY <1>1, <1>5 DEF Filed
<1> HIDE DEF w
<1>8. Placing(f, w, at, 0)'
  <2>1. stream' = w
    BY <1>1 DEF w
  <2>2. Len(w) - Len(stream') = 0
    BY <1>4, <2>1
  <2>3. at[0] = 0
    BY <1>5 DEF Laid
  <2>4. Rest(stream', w, 0)
    <3>1. \A i \in 1 .. Len(w) : 0 + i = i
      OBVIOUS
    <3>2. QED
      BY <1>4, <2>1, <3>1 DEF Rest
  <2>5. QED
    BY <2>2, <2>3, <2>4 DEF Placing, Behind
<1>9. Gathered(f, 0, mean, kinds)'
  BY <1>2, <1>6 DEF Gathered, Meanings, MeaningRuns, TypesRuns
<1>10. KeysFound(f, 0) /\ 0 \in 0 .. Len(f)
  BY <1>3 DEF KeysFound
<1>11. Begun(f, layout, closed, at, 0, mean, kinds)'
  BY <1>6, <1>7, <1>8, <1>9, <1>10 DEF Begun, w
<1>12. Underway'
  BY <1>1, <1>11 DEF Underway
<1>13. QED
  BY <1>1, <1>12

(* At the end of the file all lines have been begun. *)
LEMMA EndBegun ==
  ASSUME NEW f, NEW layout, NEW closed, NEW at, NEW k, NEW mean, NEW kinds,
         Begun(f, layout, closed, at, k, mean, kinds), stream = <<>>
  PROVE  k = Len(f)
<1> DEFINE w == Written(f, layout, closed)
           z == Len(w)
<1>1. f \in Files /\ Laid(w, f, layout, closed, at) /\ k \in 0 .. Len(f) /\ Placing(f, w, at, k)
      /\ (f # <<>> /\ ~closed => Last(f) # <<>>)
  BY DEF Begun, Filed
<1>2. f \in Seq(Seq(Words)) /\ Len(f) \in Nat
  BY <1>1, FileWords
<1>3. w \in Seq(Cells) /\ z \in Nat
  BY <1>2, WrittenIs, LenProperties
<1>4. Len(stream) = 0
  BY EmptySeq
<1> HIDE DEF w, z
<1>5. z <= at[k]
  BY <1>1, <1>3, <1>4 DEF Placing, Behind, z
<1>6. ASSUME k # Len(f)
      PROVE  FALSE
  <2> DEFINE m == k + 1
  <2>1. m \in 1 .. Len(f) /\ m - 1 = k
    BY <1>1, <1>2, <1>6
  <2>2. m < Len(f) \/ closed \/ f[m] # <<>>
    <3>1. m < Len(f) \/ m = Len(f)
      BY <1>2, <2>1
    <3>2. f # <<>>
      BY <1>2, <2>1, EmptySeq
    <3>3. QED
      BY <1>1, <3>1, <3>2 DEF Last
  <2> HIDE DEF m
  <2>3. at[m - 1] \in Nat /\ at[m] \in Nat /\ at[m - 1] < at[m]
    BY <1>1, <1>2, <2>1, <2>2, LineGrows
  <2>4. at[m] <= z
    BY <1>1, <2>1 DEF Laid, z
  <2>5. QED
    BY <1>3, <1>5, <2>1, <2>3, <2>4
<1>7. QED
  BY <1>6

(* What interpretLine() makes of the buffer. *)
FoundKey(b) == Cut(b, 1).words[1]
Known(b)    == Len(FoundKey(b)) = 1 /\ FoundKey(b)[1] \in Keywords
CutLine(b)  == Cut(b, 1 + IF Known(b) THEN Arguments[FoundKey(b)[1]] ELSE 0)

WordsOf(c, line, n) == /\ ~c.lost /\ Len(c.words) = n
                       /\ \A j \in 1 .. n : c.words[j] = line[j]

LEMMA LineRead ==
  ASSUME NEW V, Nul \in V, NEW b \in [0 .. MAX_LINE_LENGTH -> V],
         NEW line \in Seq(Words), NEW layout, Holding(b, Text(line, layout))
  PROVE  /\ Known(b) <=> Keyed(line)
         /\ ~Known(b) => ~CutLine(b).lost
         /\ Known(b) => FoundKey(b) = line[1]
         /\ Complete(line) => WordsOf(CutLine(b), line, 1 + Arguments[Key(line)])
<1> DEFINE text == Text(line, layout)
<1>1. text \in Seq(Plain)
  BY TextIs DEF Texts
<1>2. PICK ends : Placed(text, line, ends)
  BY TextIs
<1> HIDE DEF text
<1>3. Holding(b, text)
  BY DEF text
<1>4. ASSUME NEW n \in 0 .. Len(line)
      PROVE  WordsOf(Cut(b, n), line, n)
  BY <1>1, <1>2, <1>3, WordsCut DEF WordsOf
<1>5. ~Known(b) => CutLine(b) = Cut(b, 1)
  BY DEF CutLine
<1>6. CASE line = <<>>
  <2>1. \A i \in 1 .. Len(text) : text[i] = Blank
    <3>1. Len(line) = 0 /\ ends[0] = 0
      BY <1>2, <1>6, EmptySeq DEF Placed
    <3>2. \A i \in 0 + 1 .. Len(text) : text[i] = Blank
      BY <1>2, <3>1 DEF Placed
    <3>3. 0 + 1 = 1
      OBVIOUS
    <3>4. QED
      BY <3>2, <3>3
  <2>2. ~Cut(b, 1).lost /\ Len(FoundKey(b)) = 0
    BY <1>1, <1>3, <2>1, NoWordCut DEF FoundKey
  <2>3. ~Known(b)
    BY <2>2 DEF Known
  <2>4. QED
    BY <1>5, <1>6, <2>2, <2>3 DEF Keyed, Complete
<1>7. CASE line # <<>>
  <2>1. Len(line) \in Nat \ {0}
    BY <1>7, EmptySeq
  <2>2. 1 \in 0 .. Len(line) /\ 1 \in 1 .. 1
    BY <2>1
  <2>3. WordsOf(Cut(b, 1), line, 1)
    BY <1>4, <2>2
  <2>4. FoundKey(b) = line[1] /\ ~Cut(b, 1).lost
    BY <2>2, <2>3 DEF WordsOf, FoundKey
  <2>5. Known(b) <=> Keyed(line)
    BY <1>7, <2>4 DEF Known, Keyed, Key
  <2>6. ASSUME Complete(line)
        PROVE  WordsOf(CutLine(b), line, 1 + Arguments[Key(line)])
    <3> DEFINE a == Arguments[Key(line)]
    <3>1. a \in 1 .. 2 /\ a < Len(line)
      BY <2>6, CompleteIs
    <3>2. Keyed(line)
      BY <2>6 DEF Complete, Keyed
    <3>3. CutLine(b) = Cut(b, 1 + a)
      BY <2>4, <2>5, <3>2 DEF CutLine, Key
    <3> HIDE DEF a
    <3>4. 1 + a \in 0 .. Len(line)
      BY <2>1, <3>1
    <3>5. WordsOf(CutLine(b), line, 1 + a)
      BY <1>4, <3>3, <3>4
    <3>6. QED
      BY <3>5 DEF a
  <2>7. QED
    BY <1>5, <2>4, <2>5, <2>6
<1>8. QED
  BY <1>6, <1>7

(* The words cut out set what the words of the line set.                   *)
LEMMA WordsSet ==
  ASSUME NEW V, NEW c, c.words \in Seq(Seq(V)), NEW line \in Seq(Words), Complete(line),
         WordsOf(c, line, 1 + Arguments[Key(line)])
  PROVE  /\ \A g \in Configs : /\ Set(g, Key(line), Tail(line)) \in Configs
                               /\ Set(g, Key(line), Tail(c.words))
                                    = Set(g, Key(line), Tail(line))
         /\ Key(line) = "contenttype" => Tail(c.words) = SubSeq(line, 2, 3)
<1> DEFINE a == Arguments[Key(line)]
           t == Tail(c.words)
<1>1. /\ Key(line) \in Keywords /\ a \in 1 .. 2 /\ a < Len(line) /\ Len(line) \in Nat
      /\ \A i \in 1 .. a : Tail(line)[i] = line[i + 1] /\ line[i + 1] \in Words
                           /\ Tail(line)[i] \in Values
  BY CompleteIs
<1>2. Len(c.words) = 1 + a /\ \A j \in 1 .. 1 + a : c.words[j] = line[j]
  BY DEF WordsOf
<1> HIDE DEF a
<1>3. c.words # <<>>
  BY <1>1, <1>2, EmptySeq
<1>4. /\ t \in Seq(Seq(V)) /\ Len(t) = a
      /\ \A i \in 1 .. Len(t) : t[i] = c.words[i + 1]
  <2>1. /\ t \in Seq(Seq(V)) /\ Len(t) = Len(c.words) - 1
        /\ \A i \in 1 .. Len(t) : t[i] = c.words[i + 1]
    BY <1>3, HeadTailProperties
  <2>2. (1 + a) - 1 = a
    BY <1>1
  <2>3. QED
    BY <1>2, <2>1, <2>2
<1>5. \A i \in 1 .. a : t[i] = line[i + 1]
  <2> TAKE i \in 1 .. a
  <2>1. i + 1 \in 1 .. 1 + a /\ i \in 1 .. Len(t)
    BY <1>1, <1>4
  <2>2. QED
    BY <1>2, <1>4, <2>1
<1> HIDE DEF t
<1>6. \A g \in Configs : /\ Set(g, Key(line), Tail(line)) \in Configs
                         /\ Set(g, Key(line), t) = Set(g, Key(line), Tail(line))
  <2> TAKE g \in Configs
  <2> DEFINE key == Key(line)
             words == Tail(line)
  <2>1. \A i \in 1 .. Arguments[key] : words[i] \in Values /\ t[i] = words[i]
    BY <1>1, <1>5 DEF a
  <2>2. key \in Keywords
    BY <1>1
  <2> HIDE DEF key, words
  <2>3. Set(g, key, words) \in Configs /\ Set(g, key, t) = Set(g, key, words)
    BY <2>1, <2>2, SetWords
  <2>4. QED
    BY <2>3 DEF key, words
<1>7. ASSUME Key(line) = "contenttype"
      PROVE  t = SubSeq(line, 2, 3)
  <2>1. a = 2
    BY <1>7, KeywordsAre DEF a
  <2> DEFINE u == SubSeq(line, 2, 3)
             S == Seq(V) \cup Words
  <2>2. \A i \in 2 .. 3 : line[i] \in Words
    <3>1. \A i \in 2 .. 3 : i \in 1 .. Len(line)
      BY <1>1, <2>1
    <3>2. QED
      BY <3>1, ElementOfSeq
  <2>3. u \in Seq(Words) /\ Len(u) = 2 /\ \A i \in 1 .. 2 : u[i] = line[i + 1]
    <3>1. /\ u \in Seq(Words) /\ Len(u) = (IF 2 <= 3 THEN 3 - 2 + 1 ELSE 0)
          /\ \A i \in 1 .. 3 - 2 + 1 : u[i] = line[2 + i - 1]
      <4>1. 2 \in Int /\ 3 \in Int
        OBVIOUS
      <4>2. QED
        BY <2>2, <4>1, SubSeqProperties
    <3> HIDE DEF u
    <3>2. \A i \in 1 .. 2 : 2 + i - 1 = i + 1 /\ i \in 1 .. 3 - 2 + 1
      OBVIOUS
    <3>3. QED
      BY <3>1, <3>2
  <2> HIDE DEF u
  <2>4. u \in Seq(S) /\ t \in Seq(S)
    BY <1>4, <2>3, SeqMonotonic
  <2> HIDE DEF S
  <2>5. Len(t) = 2 /\ Len(u) = Len(t) /\ \A i \in 1 .. Len(t) : t[i] = u[i]
    BY <1>4, <1>5, <2>1, <2>3
  <2>6. t = u
    BY <2>4, <2>5, SeqEqual
  <2>7. QED
    BY <2>6 DEF u
<1>8. QED
  BY <1>6, <1>7 DEF t

LEMMA SetDomain ==
  ASSUME NEW c, NEW key \in Keywords, NEW words
  PROVE  DOMAIN Set(c, key, words) = DOMAIN c
<1>1. SetCases(c, key, words)
  BY SetIs
<1>2. CASE key = "listen"
  BY <1>1, <1>2 DEF SetCases
<1>3. CASE key = "documentroot"
  BY <1>1, <1>3 DEF SetCases
<1>4. CASE key = "logfile"
  BY <1>1, <1>4 DEF SetCases
<1>5. CASE key = "contenttype"
  BY <1>1, <1>5 DEF SetCases
<1>6. QED
  BY <1>2, <1>3, <1>4, <1>5, KeywordsAre

(* What a call of interpretLine() does, in the words from above. *)
LEMMA ReadLineIs ==
  ASSUME ReadLine
  PROVE  LET cut   == CutLine(Filled)
             key   == FoundKey(Filled)
             known == Known(Filled)
             reads == known /\ ~cut.lost
         IN /\ stream # <<>> /\ stream' = SubSeq(stream, Taken + 1, Len(stream))
            /\ buffer' = cut.buffer /\ file' = file
            /\ result' = IF cut.lost THEN "lost"
                         ELSE IF known THEN "reading" ELSE "malformed"
            /\ config' = IF reads THEN Set(config, key[1], Tail(cut.words)) ELSE config
            /\ types' = IF reads /\ key[1] = "contenttype"
                        THEN Append(types, Tail(cut.words)) ELSE types
BY DEF ReadLine, CutLine, Known, FoundKey

LEMMA ReadTyped ==
  ASSUME ReadLine, stream \in Seq(Cells), buffer \in [0 .. MAX_LINE_LENGTH -> Held]
  PROVE  /\ buffer' \in [0 .. MAX_LINE_LENGTH -> Held] /\ result' \in {"reading", "lost", "malformed"}
         /\ DOMAIN config' = DOMAIN config
         /\ Filled \in [0 .. MAX_LINE_LENGTH -> Held] /\ Nul \in Held
         /\ CutLine(Filled).words \in Seq(Seq(Held))
<1> DEFINE cut == CutLine(Filled)
<1>1. Cells \subseteq Held /\ Nul \in Held
  BY CellsAre DEF Held
<1>2. stream # <<>>
  BY DEF ReadLine
<1>3. Filled \in [0 .. MAX_LINE_LENGTH -> Held]
  BY <1>1, <1>2, FilledIs
<1>4. cut \in States(Held)
  <2> DEFINE n == 1 + IF Known(Filled) THEN Arguments[FoundKey(Filled)[1]] ELSE 0
  <2>1. n \in Nat
    BY KeywordsAre DEF Known
  <2> HIDE DEF n
  <2>2. Cut(Filled, n) \in States(Held)
    BY <1>1, <1>3, <2>1, CutIn
  <2>3. QED
    BY <2>2 DEF CutLine, n
<1>5. cut.buffer \in [0 .. MAX_LINE_LENGTH -> Held] /\ cut.words \in Seq(Seq(Held))
  BY <1>4 DEF States
<1> HIDE DEF cut
<1>6. /\ buffer' = cut.buffer /\ result' \in {"reading", "lost", "malformed"}
      /\ \/ config' = config
         \/ Known(Filled) /\ config' = Set(config, FoundKey(Filled)[1], Tail(cut.words))
  BY ReadLineIs DEF cut
<1>7. DOMAIN config' = DOMAIN config
  BY <1>6, SetDomain DEF Known
<1>8. QED
  BY <1>1, <1>3, <1>5, <1>6, <1>7 DEF cut

(* A step within a line that is too long, or into one. *)
LEMMA ReadPiece ==
  ASSUME NEW f, NEW layout, NEW closed, NEW at, NEW k, NEW mean, NEW kinds,
         Begun(f, layout, closed, at, k, mean, kinds), ReadLine,
         NEW m \in 1 .. Len(f), k <= m, m <= k + 1, ~Short(f[m]),
         Behind(Written(f, layout, closed)) < at[m]
  PROVE  Begun(f, layout, closed, at, m, mean, kinds)' /\ ~Meant(f)
<1> DEFINE w == Written(f, layout, closed)
           p == Behind(w)
<1>1. /\ f \in Files /\ Filed(f, layout, closed, at) /\ Laid(w, f, layout, closed, at)
      /\ Meanings(f, mean, kinds) /\ k \in 0 .. Len(f) /\ KeysFound(f, k)
      /\ Rest(stream, w, p)
  BY DEF Begun, Filed, Placing
<1>2. f \in Seq(Seq(Words)) /\ Len(f) \in Nat
  BY <1>1, FileWords
<1>3. w \in Seq(Cells) /\ Len(w) \in Nat
  BY <1>2, WrittenIs, LenProperties
<1>4. ~Meant(f)
  BY <1>1, MeantLines
<1>5. p < at[m]
  OBVIOUS
<1> HIDE DEF w, p
<1>6. /\ Taken \in 0 .. Len(stream) /\ p + Taken <= at[m] /\ p + Taken \in 0 .. Len(w)
  BY <1>1, <1>2, <1>3, <1>5, Advance
<1>7. stream' = SubSeq(stream, Taken + 1, Len(stream))
  BY ReadLineIs
<1>8. Rest(stream', w, p + Taken)
  BY <1>1, <1>3, <1>6, <1>7, RestBehind
<1>9. Len(w) - Len(stream') = p + Taken
  BY <1>3, <1>6, <1>8 DEF Rest
<1>10. Placing(f, w, at, m)'
  <2>1. m > 0 /\ ~Short(f[m])
    OBVIOUS
  <2>2. QED
    BY <1>6, <1>8, <1>9, <2>1 DEF Placing, Behind
<1>11. KeysFound(f, m)
  <2>1. \A i \in 1 .. m : i \in 1 .. k \/ i = m
    BY <1>1, <1>2
  <2>2. QED
    BY <1>1, <2>1 DEF KeysFound
<1>12. Gathered(f, m, mean, kinds)'
  BY <1>4 DEF Gathered
<1>13. m \in 0 .. Len(f)
  BY <1>2
<1>14. QED
  BY <1>1, <1>4, <1>10, <1>11, <1>12, <1>13 DEF Begun, w

(* A line that is short is taken as a whole. *)
LEMMA ReadShort ==
  ASSUME NEW f, NEW layout, NEW closed, NEW at, NEW k, NEW mean, NEW kinds,
         Begun(f, layout, closed, at, k, mean, kinds), ReadLine,
         buffer \in [0 .. MAX_LINE_LENGTH -> Held],
         NEW m \in 1 .. Len(f), m = k + 1, Short(f[m]),
         Behind(Written(f, layout, closed)) = at[k],
         Behind(Written(f, layout, closed)) < at[m]
  PROVE  /\ result' \in {"reading", "lost"} =>
              Begun(f, layout, closed, at, m, mean, kinds)'
         /\ Meant(f) => result' = "reading"
<1> DEFINE w == Written(f, layout, closed)
           p == Behind(w)
           line == f[m]
           cut == CutLine(Filled)
           key == FoundKey(Filled)
<1>1. /\ f \in Files /\ Filed(f, layout, closed, at) /\ Laid(w, f, layout, closed, at)
      /\ Meanings(f, mean, kinds) /\ k \in 0 .. Len(f) /\ KeysFound(f, k)
      /\ Rest(stream, w, p) /\ Gathered(f, k, mean, kinds)
  BY DEF Begun, Filed, Placing
<1>2. f \in Seq(Seq(Words)) /\ Len(f) \in Nat /\ line \in Seq(Words)
  BY <1>1, FileWords, ElementOfSeq
<1>3. w \in Seq(Cells) /\ Len(w) \in Nat
  BY <1>2, WrittenIs, LenProperties
<1>4. m - 1 = k /\ m \in 0 .. Len(f)
  BY <1>1, <1>2
<1>5. p = at[m - 1] /\ p < at[m] /\ Short(line)
  BY <1>4
<1>6. stream \in Seq(Cells)
  BY <1>1 DEF Rest
<1>7. /\ Filled \in [0 .. MAX_LINE_LENGTH -> Held] /\ Nul \in Held
      /\ cut.words \in Seq(Seq(Held))
  BY <1>6, ReadTyped
<1> HIDE DEF w, p, line, cut, key
<1>8. Taken \in 0 .. Len(stream) /\ p + Taken \in 0 .. Len(w)
  BY <1>1, <1>2, <1>3, <1>5, Advance
<1>9. p + Taken = at[m] /\ Holding(Filled, Text(line, layout))
  <2>1. /\ f \in Seq(Seq(Words)) /\ w \in Seq(Cells) /\ Laid(w, f, layout, closed, at)
        /\ Rest(stream, w, p) /\ Starts(at, m, p) /\ Short(f[m])
    BY <1>1, <1>2, <1>3, <1>5 DEF Starts, line
  <2>2. TakenWhole(f, layout, at, m, p)
    BY <2>1, AdvanceLine
  <2>3. QED
    BY <2>2 DEF TakenWhole, line
<1>10. stream' = SubSeq(stream, Taken + 1, Len(stream))
  BY ReadLineIs
<1>11. Rest(stream', w, p + Taken)
  BY <1>1, <1>3, <1>8, <1>10, RestBehind
<1>12. Len(w) - Len(stream') = p + Taken
  BY <1>3, <1>8, <1>11 DEF Rest
<1>13. Placing(f, w, at, m)'
  <2>1. at[m] \in Nat
    BY <1>1, <1>4 DEF Laid
  <2>2. QED
    BY <1>9, <1>11, <1>12, <2>1 DEF Placing, Behind
<1>14. /\ Known(Filled) <=> Keyed(line)
       /\ ~Known(Filled) => ~cut.lost
       /\ Known(Filled) => key = line[1]
       /\ Complete(line) => WordsOf(cut, line, 1 + Arguments[Key(line)])
  BY <1>2, <1>7, <1>9, LineRead DEF cut, key
<1>15. /\ result' = IF cut.lost THEN "lost"
                    ELSE IF Known(Filled) THEN "reading" ELSE "malformed"
       /\ config' = IF Known(Filled) /\ ~cut.lost
                    THEN Set(config, key[1], Tail(cut.words)) ELSE config
       /\ types' = IF (Known(Filled) /\ ~cut.lost) /\ key[1] = "contenttype"
                   THEN Append(types, Tail(cut.words)) ELSE types
  BY ReadLineIs DEF cut, key
<1>16. result' \in {"reading", "lost"} => KeysFound(f, m)
  <2>1. ASSUME result' \in {"reading", "lost"}
        PROVE  KeysFound(f, m)
    <3>1. Keyed(line)
      BY <1>14, <1>15, <2>1
    <3>2. \A i \in 1 .. m : i \in 1 .. k \/ i = m
      BY <1>1, <1>2
    <3>3. QED
      BY <1>1, <3>1, <3>2 DEF KeysFound, line
  <2>2. QED
    BY <2>1
<1>17. ASSUME Meant(f)
       PROVE  result' = "reading" /\ config' = mean[m] /\ types' = kinds[m]
  <2>1. Complete(line)
    BY <1>1, <1>17, MeantLines DEF line
  <2>2. /\ MeaningRuns(mean, f) /\ TypesRuns(kinds, f)
        /\ config = mean[k] /\ types = kinds[k]
    BY <1>1, <1>17 DEF Meanings, Gathered
  <2>3. k \in 0 .. Len(f) - 1 /\ k + 1 = m
    BY <1>1, <1>2
  <2>4. /\ mean[k] \in Configs /\ mean[m] = Set(mean[k], Key(line), Tail(line))
        /\ kinds[m] = AddType(kinds[k], line)
    BY <1>1, <2>2, <2>3 DEF MeaningRuns, TypesRuns, line
  <2>5. WordsOf(cut, line, 1 + Arguments[Key(line)]) /\ ~cut.lost
    BY <1>14, <2>1 DEF WordsOf
  <2>6. Known(Filled) /\ key[1] = Key(line)
    BY <1>14, <2>1 DEF Complete, Keyed, Key
  <2>7. /\ Set(config, Key(line), Tail(cut.words)) = Set(config, Key(line), Tail(line))
        /\ Key(line) = "contenttype" => Tail(cut.words) = SubSeq(line, 2, 3)
    BY <1>2, <1>7, <2>1, <2>2, <2>4, <2>5, WordsSet
  <2>8. result' = "reading" /\ config' = mean[m]
    BY <1>15, <2>2, <2>4, <2>5, <2>6, <2>7
  <2>9. types' = kinds[m]
    BY <1>15, <2>2, <2>4, <2>5, <2>6, <2>7 DEF AddType
  <2>10. QED
    BY <2>8, <2>9
<1>18. Gathered(f, m, mean, kinds)'
  BY <1>17 DEF Gathered
<1>19. QED
  BY <1>1, <1>4, <1>13, <1>16, <1>17, <1>18 DEF Begun, w

(* A call of interpretLine() keeps to the lines, wherever it is.           *)
LEMMA ReadBegun ==
  ASSUME NEW f, NEW layout, NEW closed, NEW at, NEW k, NEW mean, NEW kinds,
         Begun(f, layout, closed, at, k, mean, kinds), ReadLine,
         buffer \in [0 .. MAX_LINE_LENGTH -> Held]
  PROVE  /\ result' \in {"reading", "lost"} =>
              \E m \in 1 .. Len(f) : Begun(f, layout, closed, at, m, mean, kinds)'
         /\ Meant(f) => result' = "reading"
<1> DEFINE w == Written(f, layout, closed)
           p == Behind(w)
<1>1. /\ f \in Files /\ Laid(w, f, layout, closed, at) /\ k \in 0 .. Len(f)
      /\ (f # <<>> /\ ~closed => Last(f) # <<>>)
      /\ Rest(stream, w, p) /\ p <= at[k] /\ (p = at[k] \/ (k > 0 /\ ~Short(f[k])))
  BY DEF Begun, Filed, Placing
<1>2. f \in Seq(Seq(Words)) /\ Len(f) \in Nat
  BY <1>1, FileWords
<1>3. w \in Seq(Cells) /\ Len(w) \in Nat
  BY <1>2, WrittenIs, LenProperties
<1>4. stream # <<>> /\ stream \in Seq(Cells) /\ p \in 0 .. Len(w) /\ Len(stream) = Len(w) - p
  BY <1>1, ReadLineIs DEF Rest
<1>5. Len(stream) \in Nat /\ Len(stream) # 0
  BY <1>4, EmptySeq, LenProperties
<1> HIDE DEF w, p
<1>6. at[k] \in Nat /\ at[Len(f)] = Len(w)
  BY <1>1 DEF Laid
<1>7. CASE p = at[k]
  <2> DEFINE m == k + 1
  <2>1. k # Len(f)
    BY <1>4, <1>5, <1>6, <1>7
  <2>2. m \in 1 .. Len(f) /\ m - 1 = k
    BY <1>1, <1>2, <2>1
  <2>3. m < Len(f) \/ closed \/ f[m] # <<>>
    <3>1. m < Len(f) \/ m = Len(f)
      BY <1>2, <2>2
    <3>2. f # <<>>
      BY <1>2, <2>2, EmptySeq
    <3>3. QED
      BY <1>1, <3>1, <3>2 DEF Last
  <2>4. m = k + 1 /\ k <= m /\ m <= k + 1
    BY <1>1, <1>2
  <2> HIDE DEF m
  <2>5. at[m - 1] \in Nat /\ at[m] \in Nat /\ at[m - 1] < at[m]
    BY <1>1, <1>2, <2>2, <2>3, LineGrows
  <2>6. p < at[m]
    BY <1>7, <2>2, <2>5
  <2>7. CASE Short(f[m])
    BY <1>7, <2>2, <2>4, <2>6, <2>7, ReadShort DEF w, p
  <2>8. CASE ~Short(f[m])
    BY <2>2, <2>4, <2>6, <2>8, ReadPiece DEF w, p
  <2>9. QED
    BY <2>2, <2>7, <2>8
<1>8. CASE p # at[k]
  <2>1. p < at[k] /\ k > 0 /\ ~Short(f[k])
    BY <1>1, <1>3, <1>4, <1>6, <1>8
  <2>2. k \in 1 .. Len(f) /\ k <= k /\ k <= k + 1
    BY <1>1, <1>2, <2>1
  <2>3. Begun(f, layout, closed, at, k, mean, kinds)' /\ ~Meant(f)
    BY <2>1, <2>2, ReadPiece DEF w, p
  <2>4. QED
    BY <2>2, <2>3
<1>9. QED
  BY <1>7, <1>8

-----------------------------------------------------------------------------
(* The invariant of the reader.  While it reads, every line begun has been *)
(* read with its own words, or was too long to be read at once.            *)
Buffers == [0 .. MAX_LINE_LENGTH -> Held]

ReaderInv ==
  /\ result \in Results /\ DOMAIN config = Fields
  /\ buffer = <<>> \/ buffer \in Buffers
  /\ result = "unread" => file = <<>> /\ types = <<>>
  /\ result \in {"reading", "lost"} => Underway /\ buffer \in Buffers
  /\ Meant(file) => result \notin {"malformed", "lost"}
  /\ result = "ok" => /\ Meant(file) => types = TypesIn(file)
                      /\ \A line \in Range(file) : Short(line) => Keyed(line)

LEMMA NothingMeant ==
  Meant(<<>>) /\ Meaning(<<>>) = Defaults
<1>1. <<>> \in Seq(Seq(Words)) /\ Len(<<>>) = 0 /\ Range(<<>>) = {}
  <2>1. <<>> \in Seq(Seq(Words)) /\ Len(<<>>) = 0
    BY EmptySeq
  <2>2. DOMAIN <<>> = 1 .. 0
    BY LenProperties, EmptySeq
  <2>3. QED
    BY <2>1, <2>2 DEF Range
<1>2. AllComplete(<<>>)
  BY <1>1 DEF AllComplete
<1>3. PICK run : MeaningRuns(run, <<>>) /\ Meaning(<<>>) = run[Len(<<>>)]
  BY <1>1, <1>2, MeaningRun
<1>4. QED
  BY <1>1, <1>3 DEF Meant, MeaningRuns

LEMMA ReaderPrepares ==
  ASSUME Prepare
  PROVE  ReaderInv
<1>1. result = "unread" /\ file = <<>> /\ config = Defaults /\ types = <<>> /\ buffer = <<>>
  BY DEF Prepare
<1>2. DOMAIN config = Fields
  BY <1>1, DefaultsAssumption
<1>3. QED
  BY <1>1, <1>2 DEF ReaderInv, Results

LEMMA ReaderOpens ==
  ASSUME ReaderInv, OpenFile, config = Defaults
  PROVE  ReaderInv'
<1>1. result = "unread" /\ result' = "reading" /\ config' = config /\ types = <<>>
  BY DEF OpenFile, ReaderInv
<1>2. Underway' /\ buffer' \in Buffers
  BY <1>1, OpenBegins DEF Buffers, Held
<1>3. Buffers' = Buffers
  BY DEF Buffers, Held, Cells
<1>4. QED
  BY <1>1, <1>2, <1>3 DEF ReaderInv, Results

LEMMA ReaderReadsLine ==
  ASSUME ReaderInv, ReadLine
  PROVE  ReaderInv'
<1>1. result = "reading" /\ Underway /\ buffer \in Buffers /\ DOMAIN config = Fields
  BY DEF ReaderInv, ReadLine
<1>2. PICK layout, closed, at, k, mean, kinds : Begun(file, layout, closed, at, k, mean, kinds)
  BY <1>1 DEF Underway
<1>3. stream \in Seq(Cells)
  BY <1>2 DEF Begun, Placing, Rest
<1>4. /\ buffer' \in Buffers /\ result' \in {"reading", "lost", "malformed"}
      /\ DOMAIN config' = Fields
  BY <1>1, <1>3, ReadTyped DEF Buffers
<1>5. file' = file
  BY ReadLineIs
<1>6. PICK f : f = file
  OBVIOUS
<1>7. Begun(f, layout, closed, at, k, mean, kinds) /\ buffer \in [0 .. MAX_LINE_LENGTH -> Held]
  BY <1>1, <1>2, <1>6 DEF Buffers
<1>8. /\ result' \in {"reading", "lost"} =>
           \E m \in 1 .. Len(f) : Begun(f, layout, closed, at, m, mean, kinds)'
      /\ Meant(f) => result' = "reading"
  BY <1>7, ReadBegun
<1>9. result' \in {"reading", "lost"} => Underway'
  <2>1. ASSUME result' \in {"reading", "lost"}
        PROVE  Underway'
    <3>1. PICK m \in 1 .. Len(f) : Begun(f, layout, closed, at, m, mean, kinds)'
      BY <1>8, <2>1
    <3>2. f = file'
      BY <1>5, <1>6
    <3>3. QED
      BY <3>1, <3>2 DEF Underway
  <2>2. QED
    BY <2>1
<1>10. QED
  BY <1>4, <1>5, <1>6, <1>8, <1>9 DEF ReaderInv, Results

(* What is lost is lost only for a file that is not meant.                 *)
LEMMA ReaderReadsOn ==
  ASSUME ReaderInv, ReadOn
  PROVE  ReaderInv'
<1>1. result = "lost" /\ result' = "reading" /\ ~Meant(file) /\ Underway /\ buffer \in Buffers
  BY DEF ReaderInv, ReadOn
<1>2. /\ file' = file /\ stream' = stream /\ buffer' = buffer /\ types' = types
      /\ DOMAIN config' = Fields
  BY DEF ReadOn, readerVars
<1>3. PICK layout, closed, at, k, mean, kinds : Begun(file, layout, closed, at, k, mean, kinds)
  BY <1>1 DEF Underway
<1>4. Begun(file, layout, closed, at, k, mean, kinds)'
  <2>1. /\ Filed(file, layout, closed, at) /\ Meanings(file, mean, kinds)
        /\ k \in 0 .. Len(file) /\ Placing(file, Written(file, layout, closed), at, k)
        /\ KeysFound(file, k)
    BY <1>3 DEF Begun
  <2>2. Placing(file, Written(file, layout, closed), at, k)'
    BY <1>2, <2>1 DEF Placing, Behind
  <2>3. Gathered(file, k, mean, kinds)'
    BY <1>1, <1>2 DEF Gathered
  <2>4. QED
    BY <1>2, <2>1, <2>2, <2>3 DEF Begun
<1>5. Underway'
  BY <1>4 DEF Underway
<1>6. QED
  BY <1>1, <1>2, <1>5 DEF ReaderInv, Results

(* At the end all lines have been read, and nothing else.                  *)
LEMMA ReaderEnds ==
  ASSUME ReaderInv, EndOfFile
  PROVE  ReaderInv' /\ (Meant(file) => config = Meaning(file))
<1>1. /\ result = "reading" /\ stream = <<>> /\ result' = "ok" /\ Underway
      /\ UNCHANGED <<file, stream, buffer, config, types>>
  BY DEF ReaderInv, EndOfFile, readerVars
<1>2. PICK layout, closed, at, k, mean, kinds : Begun(file, layout, closed, at, k, mean, kinds)
  BY <1>1 DEF Underway
<1>3. k = Len(file)
  BY <1>1, <1>2, EndBegun
<1>4. /\ file \in Files /\ Meanings(file, mean, kinds) /\ KeysFound(file, k)
      /\ Gathered(file, k, mean, kinds)
  BY <1>2 DEF Begun, Filed
<1>5. Meant(file) => config = Meaning(file) /\ types = TypesIn(file)
  BY <1>3, <1>4 DEF Meanings, Gathered
<1>6. ASSUME NEW line \in Range(file), Short(line)
      PROVE  Keyed(line)
  <2>1. file \in Seq(Seq(Words)) /\ DOMAIN file = 1 .. Len(file)
    BY <1>4, FileWords, LenProperties
  <2>2. PICK n \in 1 .. Len(file) : line = file[n]
    BY <2>1 DEF Range
  <2>3. QED
    BY <1>3, <1>4, <1>6, <2>2 DEF KeysFound
<1>7. QED
  BY <1>1, <1>5, <1>6 DEF ReaderInv, Results

LEMMA ReaderFails ==
  ASSUME ReaderInv, FileFails
  PROVE  ReaderInv'
BY DEF ReaderInv, FileFails, readerVars, Results

(* Once the file is read, or there is none, the reader is done with what   *)
(* it has set.                                                             *)
LEMMA ReaderKeeps ==
  ASSUME ReaderInv, UNCHANGED <<result, file, stream, buffer, types>>,
         DOMAIN config' = DOMAIN config,
         config' = config \/ result \in {"ok", "unread"}
  PROVE  ReaderInv'
<1>1. CASE config' = config
  BY <1>1 DEF ReaderInv, Underway, Begun, Placing, Behind, Gathered
<1>2. CASE result \in {"ok", "unread"}
  BY <1>2 DEF ReaderInv
<1>3. QED
  BY <1>1, <1>2

LEMMA ReaderMeant == ReaderInv => ConfigurationMeant
<1> SUFFICES ASSUME ReaderInv
             PROVE  ConfigurationMeant
  OBVIOUS
<1>1. /\ Meant(file) => result \notin {"malformed", "lost"}
      /\ result = "ok" => /\ Meant(file) => types = TypesIn(file)
                          /\ \A line \in Range(file) : Short(line) => Keyed(line)
  BY DEF ReaderInv
<1>2. QED
  BY <1>1 DEF ConfigurationMeant, Keyed
=============================================================================
