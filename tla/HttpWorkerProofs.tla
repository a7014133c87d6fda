-------------------------- MODULE HttpWorkerProofs --------------------------
(***************************************************************************)
(* Proofs about a worker, for buffers, files and chunks of any size, any   *)
(* messages of the client and any faults.                                  *)
(***************************************************************************)
EXTENDS HttpWorker, SequenceTheorems, TLAPS

-----------------------------------------------------------------------------
(* The arithmetic of size_t *)

Word == 0 .. SizeMax

LEMMA Constants ==
  /\ SizeMax \in Nat \ {0} /\ SEND_CHUNK_SIZE_BYTES \in Nat \ {0}
  /\ MaxLength \in Nat \ {0} /\ MaxFailures \in Nat
  /\ LENGTH \in 1 .. MaxLength /\ MESSAGE_LENGTH \in 1 .. MaxLength
  /\ MaxMessages \in Nat /\ MaxChanges \in Nat /\ MaxOverrun \in Nat
  /\ MaxLength + MaxFailures < SizeMax - MaxFailures
  /\ BUF_SIZE \in Nat /\ BUF_SIZE > 3
  /\ Memory \subseteq Cells
<1>1. \A x, y \in Nat : Max({x, y}) \in {x, y} /\ x <= Max({x, y}) /\ y <= Max({x, y})
  BY DEF Max
<1>2. LENGTH \in Nat \ {0} /\ MESSAGE_LENGTH \in Nat \ {0}
  BY BoundsAssumption
<1>3. /\ MaxLength \in {LENGTH, MESSAGE_LENGTH}
      /\ LENGTH <= MaxLength /\ MESSAGE_LENGTH <= MaxLength
  BY <1>1, <1>2 DEF MaxLength
<1>4. QED
  BY <1>2, <1>3, BufferAssumption, BoundsAssumption

LEMMA WrapOnce ==
  ASSUME NEW x \in Int, NEW M \in Nat \ {0}, -M <= x, x < M + M
  PROVE  x % M = IF x < 0 THEN x + M ELSE IF x < M THEN x ELSE x - M
<1>1. CASE x < 0
  BY <1>1
<1>2. CASE 0 <= x /\ x < M
  BY <1>2
<1>3. CASE M <= x
  BY <1>3
<1>4. QED
  BY <1>1, <1>2, <1>3

LEMMA AddIs ==
  ASSUME NEW m \in Word, NEW n \in Word
  PROVE  /\ Body!Add(m, n) = IF m + n <= SizeMax THEN m + n ELSE m + n - (SizeMax + 1)
         /\ Body!Add(m, n) \in Word
<1> DEFINE x == m + n
           M == SizeMax + 1
<1>1. x \in Int /\ M \in Nat \ {0} /\ -M <= x /\ x < M + M
  BY Constants DEF Word
<1> HIDE DEF x, M
<1>2. x % M = IF x < 0 THEN x + M ELSE IF x < M THEN x ELSE x - M
  BY <1>1, WrapOnce
<1>3. QED
  BY <1>2, Constants DEF x, M, Word, Body!Add

LEMMA SubIs ==
  ASSUME NEW m \in Word, NEW n \in Word
  PROVE  /\ Body!Sub(m, n) = IF n <= m THEN m - n ELSE m - n + (SizeMax + 1)
         /\ Body!Sub(m, n) \in Word
<1> DEFINE x == m - n
           M == SizeMax + 1
<1>1. x \in Int /\ M \in Nat \ {0} /\ -M <= x /\ x < M + M
  BY Constants DEF Word
<1> HIDE DEF x, M
<1>2. x % M = IF x < 0 THEN x + M ELSE IF x < M THEN x ELSE x - M
  BY <1>1, WrapOnce
<1>3. QED
  BY <1>2, Constants DEF x, M, Word, Body!Sub

(* Pointer and counter that move by the same amount keep their sum. *)
LEMMA SumKept ==
  ASSUME NEW m \in Word, NEW n \in Word, NEW k \in Word
  PROVE  Body!Add(Body!Add(m, k), Body!Sub(n, k)) = Body!Add(m, n)
<1> DEFINE a == Body!Add(m, k)
           b == Body!Sub(n, k)
<1>1. /\ a = IF m + k <= SizeMax THEN m + k ELSE m + k - (SizeMax + 1)
      /\ b = IF k <= n THEN n - k ELSE n - k + (SizeMax + 1)
      /\ a \in Word /\ b \in Word
  BY AddIs, SubIs
<1>2. Body!Add(m, n) = IF m + n <= SizeMax THEN m + n ELSE m + n - (SizeMax + 1)
  BY AddIs
<1> HIDE DEF a, b
<1>3. Body!Add(a, b) = IF a + b <= SizeMax THEN a + b ELSE a + b - (SizeMax + 1)
  BY <1>1, AddIs
<1>4. Body!Add(a, b) = Body!Add(m, n)
  BY <1>1, <1>2, <1>3, Constants DEF Word
<1>5. QED
  BY <1>4 DEF a, b

LEMMA ChunkSize ==
  ASSUME bytesRemaining \in Nat, bytesRemaining > 0
  PROVE  Body!nextChunkSize \in 1 .. bytesRemaining
<1>1. \A x, y \in Nat : Body!Min({x, y}) \in {x, y} /\ Body!Min({x, y}) <= x
  BY DEF Body!Min
<1>2. QED
  BY <1>1, Constants DEF Body!nextChunkSize

-----------------------------------------------------------------------------
(* The automaton of http_readRequest *)

LEMMA HeaderEndIs ==
  ASSUME NEW st, NEW c
  PROVE  HeaderEnd(st, c) = IF c = "CR" THEN IF st = "Lf1" THEN "Cr2" ELSE "Cr1"
                            ELSE IF c = "LF" /\ st = "Cr1" THEN "Lf1"
                            ELSE IF c = "LF" /\ st = "Cr2" THEN "Lf2" ELSE "None"
BY Zenon DEF HeaderEnd

LEMMA RequestLineIs ==
  ASSUME NEW st, NEW c
  PROVE  RequestLine(st, c) = IF st = "before" /\ c \in {"CR", "LF"} THEN "before"
                              ELSE IF st = "before" /\ c \in Methods THEN "target"
                              ELSE IF st = "target" /\ c \in Targets THEN "cr"
                              ELSE IF st = "cr" /\ c = "CR" THEN "lf"
                              ELSE IF st = "lf" /\ c = "LF" THEN "Lf1" ELSE "error"
<1>1. c \in {"CR", "LF"} => c \notin Methods
  BY DEF Methods
<1>2. QED
  BY <1>1, Zenon DEF RequestLine

Parsers == {"before", "target", "cr", "lf"} \cup HeaderStates

LEMMA ConsumeIs ==
  ASSUME NEW c, Consume(c)
  PROVE  /\ parsed' = Append(parsed, c)
         /\ method' = (IF parser = "before" /\ c \in Methods THEN c ELSE method)
         /\ target' = (IF parser = "target" /\ c \in Targets THEN c ELSE target)
         /\ parser' = (IF Parse(parser, c) = "error" THEN parser ELSE Parse(parser, c))
         /\ pc' = (IF Parse(parser, c) = "error" THEN "exited"
                   ELSE IF Parse(parser, c) = "Lf2" THEN "lookup" ELSE "read")
         /\ offset' = offset
<1>1. Parse(parser, c) = "error" => Parse(parser, c) # "Lf2"
  OBVIOUS
<1>2. QED
  BY <1>1, Zenon DEF Consume

-----------------------------------------------------------------------------
(* The invariant *)

(* What is known of the body: counter and history agree, what remains is   *)
(* behind the pointer, and without a failure the bytes are those in front  *)
(* of it.                                                                  *)
BodyKnown ==
  /\ HasBody /\ retval = 0
  /\ Len(arrived) + bytesRemaining = Length + failures
  /\ Body!Add(nextChunk, bytesRemaining) = Length
  /\ failures = 0 => arrived = [n \in 1 .. Len(arrived) |-> n - 1]

BodyInv == (pc = "body" => BodyKnown) /\ BodyArrives

FileInv == pc \in {"start", "read", "lookup", "map"} => ~fileFd /\ mapped = "nothing"

Inv == TypeOK /\ BodyInv /\ FileInv

LEMMA LengthIs == Length \in 0 .. MaxLength
BY Constants DEF Length

LEMMA Init_Inv == Init => Inv
BY Constants DEF Init, Inv, TypeOK, BodyInv, BodyArrives, FileInv, Cells, Methods,
   Targets, FileStates

(* A step that takes a character, or does nothing to the parser. *)
LEMMA ConsumeType ==
  ASSUME TypeOK, NEW c \in Cells, Consume(c)
  PROVE  /\ parser' \in Parsers /\ method' \in Methods /\ target' \in Targets
         /\ parsed' \in Seq(Cells) /\ offset' = offset
         /\ pc' \in {"exited", "lookup", "read"}
<1>1. \A st, x : HeaderEnd(st, x) \in HeaderStates
  BY HeaderEndIs DEF HeaderStates
<1>2. \A st, x : RequestLine(st, x) \in {"before", "target", "cr", "lf", "Lf1", "error"}
  BY RequestLineIs
<1>3. Parse(parser, c) \in Parsers \cup {"error"}
  BY <1>1, <1>2 DEF Parse, Parsers, HeaderStates
<1>4. /\ parsed' = Append(parsed, c) /\ offset' = offset
      /\ method' = (IF parser = "before" /\ c \in Methods THEN c ELSE method)
      /\ target' = (IF parser = "target" /\ c \in Targets THEN c ELSE target)
      /\ parser' = (IF Parse(parser, c) = "error" THEN parser ELSE Parse(parser, c))
      /\ pc' = (IF Parse(parser, c) = "error" THEN "exited"
                ELSE IF Parse(parser, c) = "Lf2" THEN "lookup" ELSE "read")
  BY ConsumeIs, Zenon
<1>5. parsed' \in Seq(Cells)
  BY <1>4 DEF TypeOK
<1> HIDE DEF TypeOK
<1>6. parser \in Parsers /\ method \in Methods /\ target \in Targets
  BY DEF TypeOK, Parsers
<1>7. QED
  BY <1>3, <1>4, <1>5, <1>6

LEMMA PrintLineType ==
  ASSUME readBuffer \in [0 .. BUF_SIZE -> Cells], PrintLine
  PROVE  readBuffer' \in [0 .. BUF_SIZE -> Cells]
<1>1. Len(Line) = 4 /\ \A k \in 0 .. 3 : Line[k + 1] \in Cells
  BY DEF Line, Cells
<1>2. \A k \in 0 .. BUF_SIZE : k < Len(Line) => k \in 0 .. 3
  BY <1>1, Constants
<1>3. QED
  BY <1>1, <1>2 DEF PrintLine

(* Outside of the body no step touches what the invariant says of it. *)
LEMMA BodyFrame ==
  ASSUME BodyInv, pc' # "body", pc' = "sent" => pc = "sent",
         UNCHANGED <<bodyVars, mapped, retval, statusCode, statSize>>
  PROVE  BodyInv'
BY DEF BodyInv, BodyArrives, HasBody, Length, bodyVars

LEMMA BodyStutter ==
  ASSUME BodyInv, UNCHANGED <<pc, bodyVars, mapped, retval, statusCode, statSize>>
  PROVE  BodyInv'
BY DEF BodyInv, BodyKnown, BodyArrives, HasBody, Length, bodyVars, Body!Add

LEMMA ReadsType ==
  ASSUME Inv, NextBuffered \/ NextOverrun \/ NextRead \/ NextEndOfStream \/ NextFails
  PROVE  TypeOK'
<1> USE DEF fileVars, bodyVars, bufferVars, requestVars, outsideVars, clientVars,
            sentVars, diskVars
<1>0. TypeOK
  BY DEF Inv
<1>1. ASSUME NEW c \in Cells, Consume(c), UNCHANGED <<fileVars, outsideVars>>,
             readBuffer' \in [0 .. BUF_SIZE -> Cells], begin' \in 0 .. BUF_SIZE + 1 + MaxOverrun,
             end' \in 0 .. BUF_SIZE, wire' \in Seq(Cells)
      PROVE  TypeOK'
  <2>1. /\ parser' \in Parsers /\ method' \in Methods /\ target' \in Targets
        /\ parsed' \in Seq(Cells) /\ offset' = offset
        /\ pc' \in {"exited", "lookup", "read"}
    BY <1>0, <1>1, ConsumeType
  <2>2. QED
    BY <1>0, <1>1, <2>1 DEF TypeOK, Parsers
<1>2. CASE NextBuffered
  <2>1. begin \in 0 .. BUF_SIZE /\ readBuffer[begin] \in Cells
        /\ begin' \in 0 .. BUF_SIZE + 1 + MaxOverrun
    BY <1>0, <1>2, Constants DEF NextBuffered, TypeOK
  <2>2. readBuffer' \in [0 .. BUF_SIZE -> Cells] /\ end' \in 0 .. BUF_SIZE
        /\ wire' \in Seq(Cells) /\ UNCHANGED <<fileVars, outsideVars>>
    BY <1>0, <1>2 DEF NextBuffered, TypeOK
  <2>3. QED
    BY <1>1, <1>2, <2>1, <2>2 DEF NextBuffered
<1>3. CASE NextOverrun
  <2>1. readBuffer' \in [0 .. BUF_SIZE -> Cells] /\ end' \in 0 .. BUF_SIZE
        /\ wire' \in Seq(Cells) /\ UNCHANGED <<fileVars, outsideVars>>
    BY <1>0, <1>3 DEF NextOverrun, TypeOK
  <2>2. CASE /\ begin <= BUF_SIZE + MaxOverrun /\ (\E c \in Memory : Consume(c))
             /\ begin' = begin + 1
    <3>1. begin' \in 0 .. BUF_SIZE + 1 + MaxOverrun
      BY <1>0, <2>2, Constants DEF TypeOK
    <3>2. \E c \in Cells : Consume(c)
      BY <2>2, Constants
    <3>3. QED
      BY <1>1, <2>1, <3>1, <3>2
  <2>3. CASE pc' = "exited" /\ UNCHANGED <<requestVars, begin>>
    BY <1>0, <2>1, <2>3 DEF TypeOK
  <2>4. QED
    BY <1>3, <2>2, <2>3 DEF NextOverrun
<1>4. CASE NextRead
  <2>1. Consume(wire[1]) /\ begin' = 1 /\ UNCHANGED <<fileVars, outsideVars>>
    BY <1>4 DEF NextRead, ReadInto
  <2>2. PICK n \in 1 .. BUF_SIZE :
          /\ n <= Len(wire)
          /\ readBuffer' = [k \in 0 .. BUF_SIZE |->
                               IF k < n THEN wire[k + 1] ELSE readBuffer[k]]
          /\ end' = n
          /\ wire' = SubSeq(wire, n + 1, Len(wire))
    BY <1>4 DEF NextRead, ReadInto
  <2>3. wire \in Seq(Cells) /\ wire[1] \in Cells
    BY <1>0, <2>2, ElementOfSeq DEF TypeOK
  <2>4. wire' \in Seq(Cells)
    <3>1. \A j \in n + 1 .. Len(wire) : wire[j] \in Cells
      BY <2>3
    <3>2. QED
      BY <2>2, <2>3, <3>1, SubSeqProperties
  <2>5. \A k \in 0 .. BUF_SIZE : k < n => wire[k + 1] \in Cells
    BY <2>2, <2>3
  <2>6. readBuffer' \in [0 .. BUF_SIZE -> Cells]
    BY <1>0, <2>2, <2>5 DEF TypeOK
  <2>7. QED
    <3>1. 1 \in 0 .. BUF_SIZE + 1 + MaxOverrun /\ n \in 0 .. BUF_SIZE
      BY Constants
    <3>2. begin' \in 0 .. BUF_SIZE + 1 + MaxOverrun /\ end' \in 0 .. BUF_SIZE
      BY <2>1, <2>2, <3>1
    <3>3. QED
      BY <1>1, <2>1, <2>3, <2>4, <2>6, <3>2
<1>5. CASE NextEndOfStream
  <2>1. readBuffer[0] \in Cells
    BY <1>0, Constants DEF TypeOK
  <2>2. readBuffer' \in [0 .. BUF_SIZE -> Cells] /\ begin' \in 0 .. BUF_SIZE + 1 + MaxOverrun
        /\ end' \in 0 .. BUF_SIZE /\ wire' \in Seq(Cells)
        /\ Consume(readBuffer[0]) /\ UNCHANGED <<fileVars, outsideVars>>
    BY <1>0, <1>5, Constants DEF NextEndOfStream, TypeOK
  <2>3. QED
    BY <1>1, <2>1, <2>2
<1>6. CASE NextFails
  BY <1>0, <1>6 DEF NextFails, TypeOK
<1>7. QED
  BY <1>2, <1>3, <1>4, <1>5, <1>6

(* The body: what one turn of io_writeChunked() keeps. *)
LEMMA BodyTyped ==
  ASSUME Inv, pc = "body"
  PROVE  /\ nextChunk \in Word /\ bytesRemaining \in Word
         /\ Length + failures \in Word /\ Len(arrived) \in Nat
         /\ arrived \in Seq(Word) /\ failures \in Nat
BY Constants, LengthIs DEF Inv, TypeOK, Word

(* With the sum as it should be, the pointer is in the file or has moved   *)
(* below it.                                                               *)
LEMMA PointerType ==
  ASSUME NEW p \in Word, NEW r \in Word, NEW k \in Nat, k <= MaxFailures,
         r <= Length + k, Body!Add(p, r) = Length
  PROVE  p \in 0 .. MaxLength \cup SizeMax - MaxFailures .. SizeMax
<1>1. Body!Add(p, r) = IF p + r <= SizeMax THEN p + r ELSE p + r - (SizeMax + 1)
  BY AddIs
<1>2. QED
  BY <1>1, Constants, LengthIs DEF Word

(* Without failures the pointer is the number of bytes that have arrived. *)
LEMMA PointerCounts ==
  ASSUME Inv, pc = "body", failures = 0
  PROVE  nextChunk = Len(arrived) /\ nextChunk + bytesRemaining = Length
<1>1. Body!Add(nextChunk, bytesRemaining) =
         IF nextChunk + bytesRemaining <= SizeMax THEN nextChunk + bytesRemaining
         ELSE nextChunk + bytesRemaining - (SizeMax + 1)
  BY AddIs, BodyTyped
<1>2. Len(arrived) + bytesRemaining = Length
      /\ Body!Add(nextChunk, bytesRemaining) = Length
  BY BodyTyped, LengthIs DEF Inv, BodyInv, BodyKnown
<1>3. QED
  BY <1>1, <1>2, BodyTyped, Constants, LengthIs DEF Word

(* The bytes of a chunk, where it does not wrap. *)
LEMMA ChunkBytes ==
  ASSUME NEW p \in Nat, NEW k \in Nat, p + k <= SizeMax
  PROVE  [j \in 1 .. k |-> Body!Add(p, j - 1)] = [j \in 1 .. k |-> p + j - 1]
<1>1. ASSUME NEW j \in 1 .. k
      PROVE  Body!Add(p, j - 1) = p + j - 1
  BY AddIs, Constants DEF Word
<1>2. QED
  BY <1>1

LEMMA CountUp ==
  ASSUME NEW p \in Nat, NEW k \in Nat
  PROVE  [n \in 1 .. p |-> n - 1] \o [j \in 1 .. k |-> p + j - 1]
            = [n \in 1 .. p + k |-> n - 1]
<1> DEFINE s == [n \in 1 .. p |-> n - 1]
           t == [j \in 1 .. k |-> p + j - 1]
           u == [n \in 1 .. p + k |-> n - 1]
<1>1. s \in Seq(Int) /\ t \in Seq(Int) /\ u \in Seq(Int)
      /\ Len(s) = p /\ Len(t) = k /\ Len(u) = p + k
  OBVIOUS
<1>2. /\ s \o t \in Seq(Int) /\ Len(s \o t) = p + k
      /\ \A n \in 1 .. p + k : (s \o t)[n] = IF n <= p THEN s[n] ELSE t[n - p]
  BY <1>1, ConcatProperties
<1>3. \A n \in 1 .. p + k : (s \o t)[n] = u[n]
  BY <1>2
<1> HIDE DEF s, t, u
<1>4. s \o t = u
  BY <1>1, <1>2, <1>3, SeqEqual
<1>5. QED
  BY <1>4 DEF s, t, u

LEMMA SendStep ==
  ASSUME Inv, pc = "body", Body!Send, UNCHANGED <<pc, mapped, retval, statusCode, statSize>>
  PROVE  /\ BodyKnown'
         /\ bytesRemaining' \in 0 .. MaxLength + MaxFailures
         /\ nextChunk' \in 0 .. MaxLength \cup SizeMax - MaxFailures .. SizeMax
         /\ arrived' \in Seq(0 .. SizeMax) /\ failures' = failures
<1>1. PICK k \in 1 .. Body!nextChunkSize :
        /\ bytesRemaining' = Body!Sub(bytesRemaining, k)
        /\ nextChunk' = Body!Add(nextChunk, k)
        /\ arrived' = arrived \o [j \in 1 .. k |-> Body!Add(nextChunk, j - 1)]
  BY DEF Body!Send, Body!Advance
<1> DEFINE chunk == [j \in 1 .. k |-> Body!Add(nextChunk, j - 1)]
<1>2. bytesRemaining > 0 /\ failures' = failures /\ Length' = Length
  BY DEF Body!Send, Length
<1>3. /\ nextChunk \in Word /\ bytesRemaining \in Word /\ Len(arrived) \in Nat
      /\ arrived \in Seq(Word) /\ failures \in 0 .. MaxFailures
  BY BodyTyped DEF Inv, TypeOK
<1>4. k \in 1 .. bytesRemaining /\ k \in Word
  <2>1. Body!nextChunkSize \in 1 .. bytesRemaining
    BY <1>2, <1>3, ChunkSize, Constants DEF Word
  <2>2. QED
    BY <2>1, <1>3, Constants DEF Word
<1>5. bytesRemaining' = bytesRemaining - k
  BY <1>1, <1>3, <1>4, SubIs
<1>6. bytesRemaining' \in Word /\ nextChunk' \in Word
  BY <1>1, <1>3, <1>4, AddIs, SubIs
<1>7. Body!Add(nextChunk', bytesRemaining') = Length
  BY <1>1, <1>3, <1>4, SumKept DEF Inv, BodyInv, BodyKnown
<1>8. chunk \in Seq(Word) /\ Len(chunk) = k
  <2>1. \A j \in 1 .. k : Body!Add(nextChunk, j - 1) \in Word
    <3>1. \A j \in 1 .. k : j - 1 \in Word
      BY <1>4, Constants DEF Word
    <3>2. QED
      BY <3>1, <1>3, AddIs
  <2>2. QED
    BY <2>1, <1>4
<1> HIDE DEF chunk
<1>9. arrived' = arrived \o chunk
  BY <1>1 DEF chunk
<1>10. arrived' \in Seq(Word) /\ Len(arrived') = Len(arrived) + k
  BY <1>3, <1>8, <1>9, ConcatProperties
<1>11. Len(arrived') + bytesRemaining' = Length + failures
  BY <1>3, <1>4, <1>5, <1>10, LengthIs DEF Inv, BodyInv, BodyKnown, Word
<1>12. ASSUME failures = 0
       PROVE  arrived' = [n \in 1 .. Len(arrived') |-> n - 1]
  <2> DEFINE p == Len(arrived)
  <2>1. nextChunk = p /\ p + bytesRemaining = Length /\ p \in Nat /\ p + k <= SizeMax
    BY <1>3, <1>4, <1>12, PointerCounts, LengthIs, Constants DEF Word
  <2>2. arrived = [n \in 1 .. p |-> n - 1]
    BY <1>12 DEF Inv, BodyInv, BodyKnown
  <2> HIDE DEF p
  <2>3. chunk = [j \in 1 .. k |-> p + j - 1]
    BY <2>1, <1>4, ChunkBytes DEF chunk
  <2>4. [n \in 1 .. p |-> n - 1] \o [j \in 1 .. k |-> p + j - 1]
           = [n \in 1 .. p + k |-> n - 1]
    BY <2>1, <1>4, CountUp
  <2>5. Len(arrived') = p + k
    BY <1>10 DEF p
  <2>6. QED
    BY <1>9, <2>2, <2>3, <2>4, <2>5
<1>13. bytesRemaining' <= Length + failures
  BY <1>10, <1>11, <1>3, <1>6, LengthIs DEF Word
<1>14. nextChunk' \in 0 .. MaxLength \cup SizeMax - MaxFailures .. SizeMax
  BY <1>3, <1>6, <1>7, <1>13, PointerType
<1>15. bytesRemaining' \in 0 .. MaxLength + MaxFailures
  BY <1>13, <1>3, <1>6, LengthIs, Constants DEF Word
<1>16. Body!Add(nextChunk, bytesRemaining)' = Length'
  BY <1>7, <1>2 DEF Body!Add
<1>17. BodyKnown'
  <2>1. HasBody' /\ retval' = 0
    BY DEF Inv, BodyInv, BodyKnown, HasBody
  <2>2. QED
    BY <2>1, <1>2, <1>11, <1>12, <1>16 DEF BodyKnown
<1>18. QED
  BY <1>2, <1>10, <1>14, <1>15, <1>17 DEF Word

LEMMA SendFailsStep ==
  ASSUME Inv, pc = "body", Body!SendFails, UNCHANGED <<pc, mapped, retval, statusCode, statSize>>
  PROVE  /\ BodyKnown'
         /\ bytesRemaining' \in 0 .. MaxLength + MaxFailures
         /\ nextChunk' \in 0 .. MaxLength \cup SizeMax - MaxFailures .. SizeMax
         /\ arrived' = arrived /\ failures' \in 0 .. MaxFailures
<1>0. /\ nextChunk \in Word /\ bytesRemaining \in Word /\ bytesRemaining > 0
      /\ failures \in 0 .. MaxFailures /\ arrived' = arrived /\ Len(arrived) \in Nat
      /\ HasBody' /\ retval' = 0
      /\ Length' = Length
  BY BodyTyped DEF Inv, TypeOK, BodyInv, BodyKnown, HasBody, Body!SendFails, Length
<1>1. CASE failures < MaxFailures
  <2>1. /\ bytesRemaining' = Body!Sub(bytesRemaining, SizeMax)
        /\ nextChunk' = Body!Add(nextChunk, SizeMax)
        /\ failures' = failures + 1
    BY <1>1 DEF Body!SendFails, Body!Advance
  <2>2. SizeMax \in Word
    BY Constants DEF Word
  <2>3. Len(arrived) + bytesRemaining = Length + failures
        /\ Body!Add(nextChunk, bytesRemaining) = Length
    BY DEF Inv, BodyInv, BodyKnown
  <2>4. Body!Sub(bytesRemaining, SizeMax) =
          IF SizeMax <= bytesRemaining THEN bytesRemaining - SizeMax
          ELSE bytesRemaining - SizeMax + (SizeMax + 1)
    BY <1>0, <2>2, SubIs
  <2>5. bytesRemaining < SizeMax
    BY <1>0, <2>3, LengthIs, Constants DEF Word
  <2>6. bytesRemaining' = bytesRemaining + 1
    BY <1>0, <2>1, <2>4, <2>5, Constants DEF Word
  <2>7. bytesRemaining' \in Word /\ nextChunk' \in Word
    BY <1>0, <2>1, <2>2, AddIs, SubIs
  <2>8. Body!Add(nextChunk', bytesRemaining') = Length
    BY <1>0, <2>1, <2>2, <2>3, SumKept
  <2>9. Len(arrived) + bytesRemaining' = Length + failures'
    BY <1>0, <2>1, <2>3, <2>6, LengthIs DEF Word
  <2>10. failures' \in 0 .. MaxFailures /\ failures' # 0
    BY <1>0, <1>1, <2>1, Constants
  <2> DEFINE r == bytesRemaining'
             k == failures'
  <2>11. r \in Nat /\ k \in Nat /\ k <= MaxFailures
         /\ Len(arrived) + r = Length + k
    BY <2>7, <2>9, <2>10, Constants DEF Word
  <2> HIDE DEF r, k
  <2>12. r <= Length + k /\ r \in 0 .. MaxLength + MaxFailures
    BY <1>0, <2>11, LengthIs, Constants
  <2>13. nextChunk' \in 0 .. MaxLength \cup SizeMax - MaxFailures .. SizeMax
    BY <2>7, <2>8, <2>11, <2>12, PointerType DEF r, k
  <2>14. Body!Add(nextChunk, bytesRemaining)' = Length'
    BY <1>0, <2>8 DEF Body!Add
  <2>15. BodyKnown'
    BY <1>0, <2>9, <2>10, <2>14 DEF BodyKnown
  <2>16. QED
    BY <1>0, <2>10, <2>12, <2>13, <2>15 DEF r
<1>2. CASE ~(failures < MaxFailures)
  BY <1>0, <1>2 DEF Inv, TypeOK, BodyInv, BodyKnown, Body!SendFails, Body!Add
<1>3. QED
  BY <1>1, <1>2

LEMMA ReadsInv ==
  ASSUME Inv, NextBuffered \/ NextOverrun \/ NextRead \/ NextEndOfStream \/ NextFails
  PROVE  Inv'
<1>1. pc = "read" /\ UNCHANGED fileVars
  BY DEF NextBuffered, NextOverrun, NextRead, ReadInto, NextEndOfStream, NextFails
<1>2. TypeOK'
  BY ReadsType
<1>3. pc' \in {"read", "lookup", "exited"}
  <2>1. ASSUME NEW c, Consume(c)
        PROVE  pc' \in {"read", "lookup", "exited"}
    BY <2>1, ConsumeIs
  <2>2. QED
    BY <2>1, <1>1 DEF NextBuffered, NextOverrun, NextRead, ReadInto,
       NextEndOfStream, NextFails
<1>4. BodyInv'
  BY <1>1, <1>3, BodyFrame DEF Inv, fileVars
<1>5. FileInv'
  BY <1>1, <1>3 DEF Inv, FileInv, fileVars
<1>6. QED
  BY <1>2, <1>4, <1>5 DEF Inv

(* The steps of a response in front of the body and behind it *)
LEMMA LookupInv ==
  ASSUME Inv, SetSocketTimeout \/ Lookup
  PROVE  Inv'
<1>1. TypeOK /\ BodyInv /\ FileInv
  BY DEF Inv
<1> USE DEF fileVars, bodyVars, bufferVars, requestVars, outsideVars, clientVars,
            sentVars, diskVars
<1>2. /\ pc' \in {"read", "map", "head", "exited"} /\ pc \in {"start", "lookup"}
      /\ UNCHANGED <<requestVars, bufferVars, fileFd, mapped, retval, bodyVars, wire,
                     outsideVars>>
  BY DEF SetSocketTimeout, Lookup, SendDefaultResponse
<1>3. TypeOK'
  <2>1. statSize' \in {"zero", "some"} /\ statusCode' \in {200, 404}
    BY <1>1 DEF TypeOK, SetSocketTimeout, Lookup, SendDefaultResponse
  <2>2. QED
    BY <1>1, <1>2, <2>1 DEF TypeOK
<1>4. BodyInv'
  BY <1>1, <1>2 DEF BodyInv, BodyArrives
<1>5. FileInv'
  BY <1>1, <1>2 DEF FileInv
<1>6. QED
  BY <1>3, <1>4, <1>5 DEF Inv

LEMMA MapInv ==
  ASSUME Inv, MapFile
  PROVE  Inv'
<1>1. TypeOK /\ BodyInv /\ FileInv
  BY DEF Inv
<1> USE DEF fileVars, bodyVars, bufferVars, requestVars, outsideVars, clientVars,
            sentVars, diskVars
<1>2. pc' \in {"head", "exited"} /\ mapped' \in {"nothing", "file", "failed"}
      /\ fileFd' \in BOOLEAN
  BY <1>1 DEF MapFile, MmapFileRO, TypeOK
<1>3. TypeOK'
  BY <1>1, <1>2 DEF TypeOK, MapFile
<1>4. QED
  BY <1>2, <1>3 DEF Inv, BodyInv, BodyArrives, FileInv

LEMMA HeadInv ==
  ASSUME Inv, SendHead
  PROVE  Inv'
<1>1. TypeOK /\ BodyInv /\ FileInv
  BY DEF Inv
<1> USE DEF fileVars, bodyVars, bufferVars, requestVars, outsideVars, clientVars,
            sentVars, diskVars
<1>2. readBuffer' \in [0 .. BUF_SIZE -> Cells]
  BY <1>1, PrintLineType DEF TypeOK, SendHead
<1>3. pc' \in {"body", "sent", "exited"} /\ Length' = Length /\ HasBody' = HasBody
      /\ retval' \in {-1, 0}
  BY <1>1 DEF SendHead, HasBody, Length, TypeOK
<1>4. ASSUME pc' = "body"
      PROVE  /\ HasBody /\ retval' = 0 /\ bytesRemaining' = Length
             /\ nextChunk' = 0 /\ arrived' = <<>> /\ failures' = 0
  BY <1>4 DEF SendHead, Body!Start
<1>5. ASSUME pc' # "body"
      PROVE  UNCHANGED bodyVars /\ (~HasBody \/ retval' = -1 \/ pc' = "exited")
  BY <1>5 DEF SendHead
<1>6. TypeOK'
  <2>1. CASE pc' = "body"
    <3>1. /\ bytesRemaining' \in 0 .. MaxLength + MaxFailures
          /\ nextChunk' \in 0 .. MaxLength \cup SizeMax - MaxFailures .. SizeMax
          /\ arrived' \in Seq(0 .. SizeMax) /\ failures' \in 0 .. MaxFailures
      BY <2>1, <1>4, LengthIs, Constants
    <3>2. QED
      BY <3>1, <1>1, <1>2, <1>3 DEF TypeOK, SendHead
  <2>2. CASE pc' # "body"
    BY <2>2, <1>1, <1>2, <1>3, <1>5 DEF TypeOK, SendHead
  <2>3. QED
    BY <2>1, <2>2
<1>7. BodyInv'
  <2>1. CASE pc' = "body"
    <3>1. Body!Add(0, Length) = Length
      BY AddIs, LengthIs, Constants DEF Word
    <3>2. Body!Add(nextChunk, bytesRemaining)' = Length'
      BY <2>1, <1>3, <1>4, <3>1 DEF Body!Add
    <3>3. Len(arrived') = 0 /\ arrived' = [n \in 1 .. 0 |-> n - 1]
      BY <2>1, <1>4
    <3>4. QED
      BY <2>1, <1>3, <1>4, <3>2, <3>3, LengthIs DEF BodyInv, BodyKnown, BodyArrives
  <2>2. CASE pc' # "body"
    BY <2>2, <1>3, <1>5 DEF BodyInv, BodyArrives
  <2>3. QED
    BY <2>1, <2>2
<1>8. FileInv'
  BY <1>3 DEF FileInv
<1>9. QED
  BY <1>6, <1>7, <1>8 DEF Inv

LEMMA BodyStepInv ==
  ASSUME Inv, SendChunk({"open", "finished"}) \/ SendBuffered \/ ChunkFails
  PROVE  Inv'
<1>1. TypeOK /\ pc = "body" /\ pc' = "body"
  BY DEF Inv, SendChunk, SendBuffered, ChunkFails
<1> USE DEF fileVars, bodyVars, bufferVars, requestVars, outsideVars, clientVars,
            sentVars, diskVars
<1>2. /\ Body!Send \/ Body!SendFails
      /\ UNCHANGED <<pc, requestVars, bufferVars, statusCode, statSize, fileFd, mapped,
                     retval, wire, sentVars, diskVars>>
      /\ peer' \in {peer, "gone"}
  BY DEF SendChunk, SendBuffered, ChunkFails
<1>3. /\ BodyKnown'
      /\ bytesRemaining' \in 0 .. MaxLength + MaxFailures
      /\ nextChunk' \in 0 .. MaxLength \cup SizeMax - MaxFailures .. SizeMax
      /\ arrived' \in Seq(0 .. SizeMax) /\ failures' \in 0 .. MaxFailures
  <2>1. CASE Body!Send
    BY <1>1, <1>2, <2>1, SendStep DEF TypeOK
  <2>2. CASE Body!SendFails
    BY <1>1, <1>2, <2>2, SendFailsStep DEF TypeOK
  <2>3. QED
    BY <1>2, <2>1, <2>2
<1>4. TypeOK'
  BY <1>1, <1>2, <1>3 DEF TypeOK
<1>5. QED
  BY <1>1, <1>3, <1>4 DEF Inv, BodyInv, BodyArrives, FileInv

LEMMA EndInv ==
  ASSUME Inv, EndBody \/ ChunkKills
  PROVE  Inv'
<1>1. TypeOK /\ BodyInv /\ pc = "body" /\ pc' \in {"sent", "exited"}
  BY DEF Inv, EndBody, ChunkKills
<1> USE DEF fileVars, bodyVars, bufferVars, requestVars, outsideVars, clientVars,
            sentVars, diskVars
<1>2. TypeOK'
  <2>1. UNCHANGED <<requestVars, bufferVars, fileVars, wire, outsideVars>>
    BY DEF EndBody, ChunkKills
  <2>2. QED
    BY <1>1, <2>1 DEF TypeOK
<1>3. BodyInv'
  <2>1. CASE ChunkKills
    BY <2>1 DEF ChunkKills, BodyInv, BodyArrives
  <2>2. CASE EndBody
    <3>1. /\ UNCHANGED <<retval, arrived, failures>> /\ Length' = Length
          /\ bytesRemaining = 0 /\ pc' = "sent"
      BY <2>2 DEF EndBody, Body!Ended, Length
    <3>2. /\ Len(arrived) = Length + failures
          /\ failures = 0 => arrived = [n \in 1 .. Length |-> n - 1]
      BY <1>1, <3>1, LengthIs DEF BodyInv, BodyKnown, TypeOK
    <3>3. QED
      BY <3>1, <3>2 DEF BodyInv, BodyArrives
  <2>3. QED
    BY <2>1, <2>2
<1>4. QED
  BY <1>1, <1>2, <1>3 DEF Inv, FileInv

LEMMA UnmapInv ==
  ASSUME Inv, Unmap
  PROVE  Inv'
<1>1. TypeOK
  BY DEF Inv
<1> USE DEF fileVars, bodyVars, bufferVars, requestVars, outsideVars, clientVars,
            sentVars, diskVars
<1>2. /\ pc' \in {"exited", "read"} /\ parser' \in Parsers /\ parsed' \in Seq(Cells)
      /\ offset' \in Nat /\ UNCHANGED <<method, target>>
  <2>1. /\ parser \in Parsers /\ parsed \in Seq(Cells) /\ offset \in Nat
        /\ Len(parsed) \in Nat /\ <<>> \in Seq(Cells) /\ "before" \in Parsers
    BY <1>1, LenProperties, EmptySeq DEF TypeOK, Parsers
  <2>2. CASE mapped = "failed" \/ retval # 0
    BY <2>1, <2>2 DEF Unmap
  <2>3. CASE ~(mapped = "failed" \/ retval # 0)
    BY <2>1, <2>3 DEF Unmap
  <2>4. QED
    BY <2>2, <2>3
<1>3. /\ ~fileFd' /\ fileFd' \in BOOLEAN /\ mapped' = "nothing" /\ bytesRemaining' = 0
      /\ nextChunk' = 0 /\ arrived' = <<>> /\ failures' = 0
      /\ UNCHANGED <<bufferVars, statusCode, statSize, retval, wire, outsideVars>>
  BY DEF Unmap, UnmapFile, Body!Start
<1>4. /\ bytesRemaining' \in 0 .. MaxLength + MaxFailures
      /\ nextChunk' \in 0 .. MaxLength /\ failures' \in 0 .. MaxFailures
      /\ arrived' \in Seq(0 .. SizeMax)
  BY <1>3, Constants
<1>5. TypeOK'
  BY <1>1, <1>2, <1>3, <1>4 DEF TypeOK, Parsers
<1>6. QED
  BY <1>2, <1>3, <1>5 DEF Inv, BodyInv, BodyArrives, FileInv

LEMMA NotFoundInv ==
  ASSUME Inv, NotFound
  PROVE  Inv'
<1>1. pc' = "exited" /\ UNCHANGED <<requestVars, bufferVars, fileVars, wire, outsideVars>>
  BY DEF NotFound
<1>2. TypeOK'
  BY <1>1 DEF Inv, TypeOK, fileVars, bodyVars, bufferVars, requestVars, outsideVars,
     clientVars, sentVars, diskVars
<1>3. QED
  BY <1>1, <1>2 DEF Inv, BodyInv, BodyArrives, FileInv

LEMMA OutsideInv ==
  ASSUME Inv, Send \/ Finish \/ Stall \/ Resume \/ Reset \/ FileChanges \/ UNCHANGED vars
  PROVE  Inv'
<1>1. TypeOK /\ BodyInv /\ FileInv
  BY DEF Inv
<1> USE DEF fileVars, bodyVars, bufferVars, requestVars, outsideVars, clientVars,
            sentVars, diskVars, Becomes
<1>2. UNCHANGED <<pc, requestVars, bufferVars, fileVars>>
  BY DEF Send, Finish, Stall, Resume, Reset, FileChanges, vars
<1>3. TypeOK'
  <2>1. wire' \in Seq(Cells) /\ stream' \in Seq(Cells) /\ sends' \in 0 .. MaxMessages
    <3>1. CASE Send
      <4>1. PICK m \in Messages : wire' = wire \o m /\ stream' = stream \o m
        BY <3>1 DEF Send
      <4>2. m \in Seq(Cells)
        BY <4>1, MessageAssumption
      <4>3. wire' \in Seq(Cells) /\ stream' \in Seq(Cells)
        BY <1>1, <4>1, <4>2, ConcatProperties DEF TypeOK
      <4>4. sends' \in 0 .. MaxMessages
        BY <1>1, <3>1, Constants DEF TypeOK, Send
      <4>5. QED
        BY <4>3, <4>4
    <3>2. CASE ~Send
      BY <1>1, <3>2 DEF TypeOK, Finish, Stall, Resume, Reset, FileChanges, vars
    <3>3. QED
      BY <3>1, <3>2
  <2>2. peer' \in {"open", "finished", "stalled", "reset", "gone"}
    <3>1. \/ peer' = peer
          \/ peer' \in {"finished", "stalled", "open", "reset"}
      BY DEF Send, Finish, Stall, Resume, Reset, FileChanges, vars
    <3>2. QED
      BY <1>1, <3>1 DEF TypeOK
  <2>3. file' \in FileStates /\ changes' \in 0 .. MaxChanges
    <3>1. CASE FileChanges
      <4>1. file' \in FileStates /\ changes < MaxChanges /\ changes' = changes + 1
        BY <3>1 DEF FileChanges
      <4>2. changes \in 0 .. MaxChanges /\ MaxChanges \in Nat
        BY <1>1, Constants DEF TypeOK
      <4>3. QED
        BY <4>1, <4>2
    <3>2. CASE ~FileChanges
      <4>1. UNCHANGED <<file, changes>>
        BY <3>2 DEF Send, Finish, Stall, Resume, Reset, vars
      <4>2. QED
        BY <1>1, <4>1 DEF TypeOK
    <3>3. QED
      BY <3>1, <3>2
  <2>4. QED
    BY <1>1, <1>2, <2>1, <2>2, <2>3 DEF TypeOK
<1>4. BodyInv'
  BY <1>1, <1>2, BodyStutter
<1>5. FileInv'
  BY <1>1, <1>2 DEF FileInv
<1>6. QED
  BY <1>3, <1>4, <1>5 DEF Inv

LEMMA NextInv ==
  ASSUME Inv, [Next]_vars
  PROVE  Inv'
<1>1. CASE WorkerStep
  BY <1>1, ReadsInv, LookupInv, MapInv, HeadInv, BodyStepInv, EndInv, UnmapInv,
     NotFoundInv DEF WorkerStep
<1>2. CASE SendBuffered
  BY <1>2, BodyStepInv
<1>3. CASE Send \/ Finish \/ Stall \/ Resume \/ Reset \/ FileChanges \/ UNCHANGED vars
  BY <1>3, OutsideInv
<1>4. QED
  BY <1>1, <1>2, <1>3 DEF Next

LEMMA Invariance == Spec => []Inv
BY Init_Inv, NextInv, PTL DEF Spec

-----------------------------------------------------------------------------
(* What the automaton of http_readRequest knows of the cells it has taken *)

Blank(s, n) == \A j \in 1 .. n : s[j] \in {"CR", "LF"}

(* The request line begins at k. *)
LineAt(s, k) ==
  /\ Blank(s, k - 1)
  /\ s[k] \in Methods /\ s[k + 1] \in Targets /\ s[k + 2] = "CR" /\ s[k + 3] = "LF"

EmptyLineAt(s, n) == s[n - 3] = "CR" /\ s[n - 2] = "LF" /\ s[n - 1] = "CR" /\ s[n] = "LF"

(* Behind the request line the state is a function of the last four cells. *)
LastCells(st, s, n) ==
  /\ st \in {"Cr1", "Cr2"} <=> s[n] = "CR"
  /\ st \in {"Lf1", "Lf2"} <=> s[n - 1] = "CR" /\ s[n] = "LF"
  /\ st = "Cr2" <=> s[n - 2] = "CR" /\ s[n - 1] = "LF" /\ s[n] = "CR"
  /\ st = "Lf2" <=> EmptyLineAt(s, n)

Header(st, s, k) ==
  /\ LineAt(s, k) /\ LastCells(st, s, Len(s))
  /\ \A n \in k + 5 .. Len(s) - 1 : ~EmptyLineAt(s, n)

Taken(st, s) ==
  /\ st = "before" => Blank(s, Len(s))
  /\ st = "target" => /\ Len(s) > 0 /\ Blank(s, Len(s) - 1)
                      /\ s[Len(s)] \in Methods
  /\ st = "cr" => /\ Len(s) > 1 /\ Blank(s, Len(s) - 2)
                  /\ s[Len(s) - 1] \in Methods /\ s[Len(s)] \in Targets
  /\ st = "lf" => /\ Len(s) > 2 /\ Blank(s, Len(s) - 3)
                  /\ s[Len(s) - 2] \in Methods /\ s[Len(s) - 1] \in Targets
                  /\ s[Len(s)] = "CR"
  /\ st \in HeaderStates => \E k \in 1 .. Len(s) - 3 : Header(st, s, k)

LEMMA AppendIs ==
  ASSUME NEW s \in Seq(Cells), NEW c \in Cells
  PROVE  /\ Append(s, c) \in Seq(Cells) /\ Len(Append(s, c)) = Len(s) + 1
         /\ Len(s) \in Nat
         /\ \A j \in 1 .. Len(s) : Append(s, c)[j] = s[j]
         /\ Append(s, c)[Len(s) + 1] = c
OBVIOUS

LEMMA CellKinds ==
  /\ \A c \in Methods : c \notin {"CR", "LF"} /\ c \notin Targets
  /\ \A c \in Targets : c \notin {"CR", "LF"}
BY DEF Methods, Targets

LEMMA EmptyLineIs ==
  ASSUME NEW s \in Seq(Cells), NEW n \in 4 .. Len(s)
  PROVE  EmptyLineEnds(s, n) <=> EmptyLineAt(s, n)
<1> DEFINE t == SubSeq(s, n - 3, n)
           e == <<"CR", "LF", "CR", "LF">>
<1>1. \A j \in n - 3 .. n : s[j] \in Cells
  BY ElementOfSeq
<1>2. t \in Seq(Cells) /\ Len(t) = 4 /\ \A j \in 1 .. 4 : t[j] = s[n - 4 + j]
  <2> DEFINE m == n - 3
  <2>1. m \in Int /\ n \in Int /\ m <= n /\ n - m + 1 = 4
    OBVIOUS
  <2>2. \A j \in 1 .. 4 : m + j - 1 = n - 4 + j
    OBVIOUS
  <2> HIDE DEF m
  <2>3. /\ SubSeq(s, m, n) \in Seq(Cells) /\ Len(SubSeq(s, m, n)) = 4
        /\ \A j \in 1 .. 4 : SubSeq(s, m, n)[j] = s[m + j - 1]
    <3>1. \A j \in m .. n : s[j] \in Cells
      BY <1>1 DEF m
    <3> DEFINE u == SubSeq(s, m, n)
    <3>2. /\ u \in Seq(Cells)
          /\ Len(u) = IF m <= n THEN n - m + 1 ELSE 0
          /\ \A j \in 1 .. n - m + 1 : u[j] = s[m + j - 1]
      BY <2>1, <3>1, SubSeqProperties
    <3> HIDE DEF u
    <3>3. Len(u) = 4 /\ \A j \in 1 .. 4 : u[j] = s[m + j - 1]
      BY <2>1, <3>2
    <3>4. QED
      BY <3>2, <3>3 DEF u
  <2>4. t = SubSeq(s, m, n)
    BY DEF m
  <2> HIDE DEF t
  <2>5. QED
    BY <2>2, <2>3, <2>4
<1>3. t[1] = s[n - 3] /\ t[2] = s[n - 2] /\ t[3] = s[n - 1] /\ t[4] = s[n]
  <2>1. n - 4 + 1 = n - 3 /\ n - 4 + 2 = n - 2 /\ n - 4 + 3 = n - 1 /\ n - 4 + 4 = n
    OBVIOUS
  <2> HIDE DEF t
  <2>2. t[1] = s[n - 4 + 1] /\ t[2] = s[n - 4 + 2] /\ t[3] = s[n - 4 + 3] /\ t[4] = s[n - 4 + 4]
    BY <1>2
  <2>3. QED
    BY <2>1, <2>2
<1>4. /\ e \in Seq(Cells) /\ Len(e) = 4
      /\ e[1] = "CR" /\ e[2] = "LF" /\ e[3] = "CR" /\ e[4] = "LF"
  BY DEF Cells
<1> HIDE DEF t, e
<1>5. t = e <=> t[1] = e[1] /\ t[2] = e[2] /\ t[3] = e[3] /\ t[4] = e[4]
  <2>1. ASSUME t[1] = e[1], t[2] = e[2], t[3] = e[3], t[4] = e[4]
        PROVE  t = e
    <3>1. \A j \in 1 .. Len(t) : t[j] = e[j]
      <4>1. \A j \in 1 .. 4 : j = 1 \/ j = 2 \/ j = 3 \/ j = 4
        OBVIOUS
      <4>2. QED
        BY <1>2, <2>1, <4>1
    <3>2. QED
      BY <1>2, <1>4, <3>1, SeqEqual
  <2>2. QED
    BY <2>1
<1>6. EmptyLineEnds(s, n) <=> t = e
  BY DEF EmptyLineEnds, t, e
<1>7. QED
  BY <1>3, <1>4, <1>5, <1>6 DEF EmptyLineAt

(* At the end of the header the cells are a request. *)
LEMMA RequestTaken ==
  ASSUME NEW s \in Seq(Cells), Taken("Lf2", s)
  PROVE  IsRequest(s)
<1>1. Len(s) \in Nat
  OBVIOUS
<1>2. PICK k \in 1 .. Len(s) - 3 : Header("Lf2", s, k)
  BY DEF Taken, HeaderStates
<1>3. EmptyLineAt(s, Len(s)) /\ LineAt(s, k)
      /\ \A n \in k + 5 .. Len(s) - 1 : ~EmptyLineAt(s, n)
  BY <1>2 DEF Header, LastCells
<1>4. k # Len(s) - 3 /\ k + 1 # Len(s) - 3
  BY <1>1, <1>3, CellKinds DEF EmptyLineAt, LineAt
<1>5. k \in 1 .. Len(s) - 5
  <2>1. k + 1 # Len(s) - 2 \/ k # Len(s) - 3
    BY <1>4
  <2>2. QED
    BY <1>1, <1>4
<1>6. EmptyLineEnds(s, Len(s)) /\ \A n \in k + 5 .. Len(s) - 1 : ~EmptyLineEnds(s, n)
  <2>1. Len(s) \in 4 .. Len(s) /\ \A n \in k + 5 .. Len(s) - 1 : n \in 4 .. Len(s)
    BY <1>1, <1>5
  <2>2. QED
    BY <1>3, <2>1, EmptyLineIs
<1>7. QED
  BY <1>3, <1>5, <1>6 DEF IsRequest, LineAt, Blank

(* The parser takes one more cell of the request line... *)
LEMMA LineTaken ==
  ASSUME NEW s \in Seq(Cells), NEW c \in Cells, NEW st \in {"before", "target", "cr", "lf"},
         Taken(st, s), RequestLine(st, c) # "error"
  PROVE  Taken(RequestLine(st, c), Append(s, c))
<1> DEFINE t == Append(s, c)
           n == Len(s)
<1>1. /\ n \in Nat /\ Len(t) = n + 1 /\ t[n + 1] = c
      /\ \A j \in 1 .. n : t[j] = s[j]
  BY AppendIs
<1> HIDE DEF t
<1>2. CASE st = "before" /\ c \in {"CR", "LF"}
  <2>1. RequestLine(st, c) = "before"
    BY <1>2, RequestLineIs
  <2>2. Blank(t, n + 1)
    BY <1>1, <1>2 DEF Taken, Blank
  <2>3. QED
    BY <1>1, <2>1, <2>2 DEF Taken, HeaderStates, t
<1>3. CASE st = "before" /\ c \in Methods
  <2>1. RequestLine(st, c) = "target"
    BY <1>3, RequestLineIs, CellKinds
  <2>2. n + 1 > 0 /\ Blank(t, n) /\ t[n + 1] \in Methods
    BY <1>1, <1>3 DEF Taken, Blank
  <2>3. QED
    BY <1>1, <2>1, <2>2 DEF Taken, HeaderStates, t
<1>4. CASE st = "target" /\ c \in Targets
  <2>1. RequestLine(st, c) = "cr"
    BY <1>4, RequestLineIs
  <2>2. n + 1 > 1 /\ Blank(t, n - 1) /\ t[n] \in Methods /\ t[n + 1] \in Targets
    BY <1>1, <1>4 DEF Taken, Blank
  <2>3. QED
    BY <1>1, <2>1, <2>2 DEF Taken, HeaderStates, t
<1>5. CASE st = "cr" /\ c = "CR"
  <2>1. RequestLine(st, c) = "lf"
    BY <1>5, RequestLineIs
  <2>2. /\ n + 1 > 2 /\ Blank(t, n - 2) /\ t[n - 1] \in Methods /\ t[n] \in Targets
        /\ t[n + 1] = "CR"
    BY <1>1, <1>5 DEF Taken, Blank
  <2>3. QED
    BY <1>1, <2>1, <2>2 DEF Taken, HeaderStates, t
<1>6. CASE st = "lf" /\ c = "LF"
  <2>1. RequestLine(st, c) = "Lf1"
    BY <1>6, RequestLineIs
  <2>2. n > 2 /\ LineAt(t, n - 2)
    BY <1>1, <1>6 DEF Taken, Blank, LineAt
  <2>3. LastCells("Lf1", t, n + 1)
    BY <1>1, <2>2, CellKinds DEF LineAt, LastCells, EmptyLineAt
  <2>4. n - 2 \in 1 .. Len(t) - 3 /\ Header("Lf1", t, n - 2)
    BY <1>1, <2>2, <2>3 DEF Header
  <2>5. Taken("Lf1", t)
    BY <2>4 DEF Taken, HeaderStates
  <2>6. QED
    BY <2>1, <2>5 DEF t
<1>7. QED
  BY <1>2, <1>3, <1>4, <1>5, <1>6, RequestLineIs

(* ... or of the lines behind it. *)
LEMMA HeaderTaken ==
  ASSUME NEW s \in Seq(Cells), NEW c \in Cells, NEW st \in HeaderStates \ {"Lf2"},
         Taken(st, s)
  PROVE  Taken(HeaderEnd(st, c), Append(s, c))
<1> DEFINE t == Append(s, c)
           n == Len(s)
           next == HeaderEnd(st, c)
<1>1. /\ n \in Nat /\ Len(t) = n + 1 /\ t[n + 1] = c
      /\ \A j \in 1 .. n : t[j] = s[j]
  BY AppendIs
<1>2. PICK k \in 1 .. n - 3 : Header(st, s, k)
  BY DEF Taken
<1>3. next = IF c = "CR" THEN IF st = "Lf1" THEN "Cr2" ELSE "Cr1"
             ELSE IF c = "LF" /\ st = "Cr1" THEN "Lf1"
             ELSE IF c = "LF" /\ st = "Cr2" THEN "Lf2" ELSE "None"
  BY HeaderEndIs
<1> HIDE DEF t, n, next
<1>4. LineAt(t, k)
  BY <1>1, <1>2 DEF Header, LineAt, Blank, n
<1>5. LastCells(next, t, n + 1)
  <2>1. LastCells(st, s, n) /\ st \in {"None", "Cr1", "Lf1", "Cr2"}
    BY <1>2 DEF Header, HeaderStates, n
  <2>2. /\ t[n + 1] = c /\ t[n] = s[n] /\ t[n - 1] = s[n - 1] /\ t[n - 2] = s[n - 2]
        /\ t[(n + 1) - 1] = s[n] /\ t[(n + 1) - 2] = s[n - 1] /\ t[(n + 1) - 3] = s[n - 2]
    <3>1. n \in 1 .. n /\ n - 1 \in 1 .. n /\ n - 2 \in 1 .. n
      BY <1>1, <1>2
    <3>2. (n + 1) - 1 = n /\ (n + 1) - 2 = n - 1 /\ (n + 1) - 3 = n - 2
      BY <1>1
    <3>3. QED
      BY <1>1, <3>1, <3>2
  <2>3. QED
    BY <1>3, <2>1, <2>2 DEF LastCells, EmptyLineAt
<1>6. \A m \in k + 5 .. n : ~EmptyLineAt(t, m)
  <2>1. \A m \in k + 5 .. n : ~EmptyLineAt(s, m)
    BY <1>1, <1>2 DEF Header, LastCells, n
  <2>2. ASSUME NEW m \in k + 5 .. n
        PROVE  EmptyLineAt(t, m) <=> EmptyLineAt(s, m)
    BY <1>1, <1>2 DEF EmptyLineAt
  <2>3. QED
    BY <2>1, <2>2
<1>7. Header(next, t, k) /\ k \in 1 .. Len(t) - 3
  BY <1>1, <1>2, <1>4, <1>5, <1>6 DEF Header
<1>8. next \in HeaderStates
  BY <1>3 DEF HeaderStates
<1>9. Taken(next, t)
  BY <1>7, <1>8 DEF Taken, HeaderStates
<1>10. QED
  BY <1>9 DEF next, t

ParseInv ==
  /\ pc \in {"start", "read"} => Taken(parser, parsed) /\ parser # "Lf2"
  /\ RequestsWellFormed

LEMMA InitParseInv == Init => ParseInv
BY DEF Init, ParseInv, Taken, Blank, HeaderStates, RequestsWellFormed

LEMMA ReadsConsume ==
  ASSUME Inv, NextBuffered \/ NextOverrun \/ NextRead \/ NextEndOfStream \/ NextFails
  PROVE  pc = "read" /\ ((\E c \in Cells : Consume(c)) \/ pc' = "exited")
<1>1. TypeOK
  BY DEF Inv
<1>2. CASE NextBuffered
  <2>1. begin \in 0 .. BUF_SIZE
    BY <1>1, <1>2, Constants DEF TypeOK, NextBuffered
  <2>2. QED
    BY <1>1, <1>2, <2>1 DEF TypeOK, NextBuffered
<1>3. CASE NextRead
  <2>1. wire \in Seq(Cells) /\ wire # <<>> /\ Consume(wire[1]) /\ pc = "read"
    BY <1>1, <1>3 DEF TypeOK, NextRead, ReadInto
  <2>2. wire[1] \in Cells
    BY <2>1, EmptySeq, ElementOfSeq
  <2>3. QED
    BY <2>1, <2>2
<1>4. CASE NextEndOfStream
  <2>1. readBuffer[0] \in Cells
    BY <1>1, Constants DEF TypeOK
  <2>2. QED
    BY <1>4, <2>1 DEF NextEndOfStream
<1>5. QED
  BY <1>2, <1>3, <1>4, Constants DEF NextOverrun, NextFails

LEMMA NextParseInv ==
  ASSUME Inv, ParseInv, [Next]_vars
  PROVE  ParseInv'
<1>1. TypeOK
  BY DEF Inv
<1>2. ASSUME NEW c \in Cells, pc = "read", Consume(c)
      PROVE  ParseInv'
  <2>1. parsed \in Seq(Cells) /\ parser \in Parsers /\ Taken(parser, parsed)
        /\ parser # "Lf2"
    BY <1>1, <1>2 DEF TypeOK, ParseInv, Parsers
  <2>2. /\ parsed' = Append(parsed, c) /\ parsed' \in Seq(Cells)
        /\ parser' = (IF Parse(parser, c) = "error" THEN parser ELSE Parse(parser, c))
        /\ pc' = (IF Parse(parser, c) = "error" THEN "exited"
                  ELSE IF Parse(parser, c) = "Lf2" THEN "lookup" ELSE "read")
    BY <1>2, <2>1, ConsumeIs, AppendIs
  <2>3. CASE Parse(parser, c) = "error"
    BY <2>2, <2>3 DEF ParseInv, RequestsWellFormed
  <2>4. CASE Parse(parser, c) # "error"
    <3>1. Taken(parser', parsed')
      <4>1. CASE parser \in HeaderStates
        BY <2>1, <2>2, <2>4, <4>1, HeaderTaken DEF Parse
      <4>2. CASE parser \notin HeaderStates
        BY <2>1, <2>2, <2>4, <4>2, LineTaken DEF Parse, Parsers
      <4>3. QED
        BY <4>1, <4>2
    <3>2. parser' = "Lf2" => IsRequest(parsed')
      BY <2>2, <3>1, RequestTaken
    <3>3. IsRequest(parsed)' <=> IsRequest(parsed')
      BY DEF IsRequest, EmptyLineEnds
    <3>4. Taken(parser, parsed)' <=> Taken(parser', parsed')
      BY DEF Taken, Header, LineAt, Blank, LastCells, EmptyLineAt
    <3>5. QED
      BY <2>2, <2>4, <3>1, <3>2, <3>3, <3>4 DEF ParseInv, RequestsWellFormed
  <2>5. QED
    BY <2>3, <2>4
<1>3. CASE NextBuffered \/ NextOverrun \/ NextRead \/ NextEndOfStream \/ NextFails
  BY <1>2, <1>3, ReadsConsume DEF ParseInv, RequestsWellFormed
<1>4. CASE Unmap
  <2>1. pc' = "exited" \/ (pc' = "read" /\ parser' = "before" /\ parsed' = <<>>)
    <3>1. CASE mapped = "failed" \/ retval # 0
      BY <1>4, <3>1 DEF Unmap
    <3>2. CASE ~(mapped = "failed" \/ retval # 0)
      BY <1>4, <3>2 DEF Unmap
    <3>3. QED
      BY <3>1, <3>2
  <2>2. Taken("before", <<>>)
    BY DEF Taken, Blank, HeaderStates
  <2>3. QED
    BY <2>1, <2>2 DEF ParseInv, RequestsWellFormed, Taken, Header, LineAt, Blank,
       LastCells, EmptyLineAt
<1>5. CASE \/ Lookup \/ MapFile \/ SendHead \/ SendChunk({"open", "finished"})
           \/ SendBuffered \/ ChunkFails \/ ChunkKills \/ EndBody \/ NotFound
  <2>1. pc' \notin {"start", "read", "lookup"}
    BY <1>5 DEF Lookup, SendDefaultResponse, MapFile, MmapFileRO, SendHead,
       SendChunk, SendBuffered, ChunkFails, ChunkKills, EndBody, NotFound
  <2>2. QED
    BY <2>1 DEF ParseInv, RequestsWellFormed
<1>6. CASE \/ SetSocketTimeout \/ Send \/ Finish \/ Stall \/ Resume \/ Reset
           \/ FileChanges \/ UNCHANGED vars
  <2>1. UNCHANGED requestVars
        /\ (pc' = pc \/ pc' = "exited" \/ (pc = "start" /\ pc' = "read"))
    <3>1. CASE SetSocketTimeout
      BY <3>1 DEF SetSocketTimeout, requestVars
    <3>2. CASE ~SetSocketTimeout
      BY <1>6, <3>2 DEF Send, Finish, Stall, Resume, Reset, FileChanges, Becomes, vars,
         requestVars
    <3>3. QED
      BY <3>1, <3>2
  <2>2. parser' = parser /\ parsed' = parsed
    BY <2>1 DEF requestVars
  <2>3. pc' \in {"start", "read"} => pc \in {"start", "read"}
    BY <2>1
  <2>4. pc' = "lookup" => pc = "lookup"
    BY <2>1
  <2>5. QED
    BY <2>2, <2>3, <2>4 DEF ParseInv, RequestsWellFormed
<1>7. QED
  BY <1>3, <1>4, <1>5, <1>6 DEF Next, WorkerStep

LEMMA ParseInvariance == Spec => []ParseInv
BY InitParseInv, NextParseInv, Init_Inv, NextInv, PTL DEF Spec

-----------------------------------------------------------------------------
(* Where in the stream of the client the worker is *)

(* A client that waits for each response before it asks again, and sends   *)
(* nothing behind a request: what it sends in one go holds no request with *)
(* more behind it.                                                         *)
OneRequestEach ==
  \A m \in Messages : \A n \in 1 .. Len(m) - 1 : ~IsRequest(SubSeq(m, 1, n))

InStream(s, k) == \A n \in 1 .. Len(s) : s[n] = stream[k + n]

(* The parser has taken the stream up to here, the buffer goes on to there.*)
TakenTo == offset + Len(parsed)
ReadTo  == TakenTo + (end - begin)

(* The request that is being read is the last message, or part of it.      *)
LastMessage ==
  \/ offset = Len(stream)
  \/ \E m \in Messages : Len(stream) = offset + Len(m) /\ InStream(m, offset)

(* Cells taken, buffered and not yet read follow one another in the        *)
(* stream.  Once a request is complete nothing is buffered or unread, so   *)
(* that the response may be printed over the buffer.                       *)
SentInv ==
  begin <= end =>
    /\ ReadTo + Len(wire) = Len(stream)
    /\ InStream(parsed, offset)
    /\ pc \in {"start", "read"} =>
         \A n \in 0 .. end - begin - 1 : readBuffer[begin + n] = stream[TakenTo + n + 1]
    /\ InStream(wire, ReadTo)
    /\ pc \notin {"start", "read", "exited"} => begin = end /\ wire = <<>>
    /\ LastMessage

LEMMA InitSentInv == Init => SentInv
BY EmptySeq DEF Init, SentInv, TakenTo, ReadTo, InStream, LastMessage

LEMMA WholeMessage ==
  ASSUME OneRequestEach, LastMessage, offset \in Nat, stream \in Seq(Cells),
         NEW s \in Seq(Cells), InStream(s, offset), IsRequest(s), Len(s) > 0,
         offset + Len(s) <= Len(stream)
  PROVE  offset + Len(s) = Len(stream)
<1>1. Len(s) \in Nat /\ Len(stream) \in Nat
  BY LenProperties
<1>2. PICK m \in Messages : Len(stream) = offset + Len(m) /\ InStream(m, offset)
  BY <1>1 DEF LastMessage
<1>3. m \in Seq(Cells) /\ Len(m) \in Nat
  BY <1>2, MessageAssumption, LenProperties
<1>4. Len(s) <= Len(m)
  BY <1>1, <1>2, <1>3
<1>5. ASSUME Len(s) < Len(m)
      PROVE  FALSE
  <2> DEFINE t == SubSeq(m, 1, Len(s))
  <2>1. /\ t \in Seq(Cells) /\ Len(t) = Len(s)
        /\ \A n \in 1 .. Len(s) : t[n] = m[n]
    <3>1. \A n \in 1 .. Len(s) : m[n] \in Cells
      BY <1>1, <1>3, <1>5, ElementOfSeq
    <3>2. /\ t \in Seq(Cells)
          /\ Len(t) = IF 1 <= Len(s) THEN Len(s) - 1 + 1 ELSE 0
          /\ \A n \in 1 .. Len(s) - 1 + 1 : t[n] = m[1 + n - 1]
      BY <1>1, <3>1, SubSeqProperties
    <3> HIDE DEF t
    <3>3. Len(s) - 1 + 1 = Len(s) /\ \A n \in 1 .. Len(s) : 1 + n - 1 = n
      BY <1>1
    <3>4. QED
      BY <3>2, <3>3
  <2> HIDE DEF t
  <2>2. \A n \in 1 .. Len(s) : t[n] = s[n]
    <3>1. \A n \in 1 .. Len(s) : m[n] = stream[offset + n] /\ s[n] = stream[offset + n]
      BY <1>1, <1>2, <1>3, <1>4 DEF InStream
    <3>2. QED
      BY <2>1, <3>1
  <2>3. t = s
    BY <2>1, <2>2, SeqEqual
  <2>4. Len(s) \in 1 .. Len(m) - 1
    BY <1>1, <1>3, <1>5
  <2>5. QED
    BY <2>3, <2>4 DEF OneRequestEach, t
<1>6. Len(s) = Len(m)
  <2>1. ~(Len(s) < Len(m))
    BY <1>5
  <2>2. QED
    BY <1>1, <1>3, <1>4, <2>1
<1>7. QED
  BY <1>2, <1>6

(* The parser takes a cell of the buffer; a request that is complete now   *)
(* leaves nothing behind it.                                               *)
LEMMA BufferedSent ==
  ASSUME OneRequestEach, TypeOK, SentInv, (RequestsWellFormed)', NextBuffered
  PROVE  SentInv'
<1> DEFINE c == readBuffer[begin]
<1>1. /\ begin \in 0 .. BUF_SIZE /\ end \in 0 .. BUF_SIZE /\ BUF_SIZE \in Nat
      /\ parsed \in Seq(Cells) /\ wire \in Seq(Cells) /\ stream \in Seq(Cells)
      /\ Len(parsed) \in Nat /\ Len(wire) \in Nat /\ offset \in Nat
  BY Constants, LenProperties DEF TypeOK, NextBuffered
<1>2. /\ pc = "read" /\ begin # end /\ begin' = begin + 1
      /\ end' = end /\ readBuffer' = readBuffer /\ wire' = wire /\ stream' = stream
  BY DEF NextBuffered, outsideVars, clientVars, sentVars
<1>3. /\ parsed' = Append(parsed, c) /\ offset' = offset
      /\ pc' \in {"read", "lookup", "exited"}
  BY ConsumeIs DEF NextBuffered
<1>4. c \in Cells
  BY <1>1 DEF TypeOK
<1> HIDE DEF c
<1>5. /\ parsed' \in Seq(Cells) /\ Len(parsed') = Len(parsed) + 1
      /\ \A j \in 1 .. Len(parsed) : parsed'[j] = parsed[j]
      /\ parsed'[Len(parsed) + 1] = c
  BY <1>1, <1>3, <1>4, AppendIs
<1>6. CASE end < begin
  BY <1>1, <1>2, <1>6 DEF SentInv
<1>7. CASE begin < end
  <2>1. /\ ReadTo + Len(wire) = Len(stream) /\ InStream(parsed, offset)
        /\ \A n \in 0 .. end - begin - 1 : readBuffer[begin + n] = stream[TakenTo + n + 1]
        /\ InStream(wire, ReadTo) /\ LastMessage
    BY <1>1, <1>2, <1>7 DEF SentInv
  <2>2. TakenTo' = TakenTo + 1 /\ ReadTo' = ReadTo /\ TakenTo \in Nat
    <3>1. TakenTo' = offset + (Len(parsed) + 1)
      BY <1>3, <1>5 DEF TakenTo
    <3>2. TakenTo' = TakenTo + 1 /\ TakenTo \in Nat
      BY <1>1, <3>1 DEF TakenTo
    <3>3. ReadTo' = TakenTo' + (end - (begin + 1))
      BY <1>2 DEF ReadTo
    <3>4. QED
      BY <1>1, <3>2, <3>3 DEF ReadTo
  <2>3. c = stream[offset + (Len(parsed) + 1)]
    <3>1. 0 \in 0 .. end - begin - 1 /\ begin + 0 = begin
          /\ TakenTo + 0 + 1 = offset + (Len(parsed) + 1)
      BY <1>1, <1>7 DEF TakenTo
    <3>2. readBuffer[begin + 0] = stream[TakenTo + 0 + 1]
      BY <2>1, <3>1
    <3>3. QED
      BY <3>1, <3>2 DEF c
  <2>4. \A n \in 1 .. Len(parsed') : parsed'[n] = stream[offset + n]
    <3>1. \A n \in 1 .. Len(parsed') : n \in 1 .. Len(parsed) \/ n = Len(parsed) + 1
      BY <1>1, <1>5
    <3>2. QED
      BY <1>5, <2>1, <2>3, <3>1 DEF InStream
  <2>5. ASSUME NEW n \in 0 .. end - (begin + 1) - 1
        PROVE  readBuffer[begin + 1 + n] = stream[TakenTo + 1 + n + 1]
    <3>1. /\ n + 1 \in 0 .. end - begin - 1 /\ begin + (n + 1) = begin + 1 + n
          /\ TakenTo + (n + 1) + 1 = TakenTo + 1 + n + 1
      BY <1>1, <2>2
    <3>2. readBuffer[begin + (n + 1)] = stream[TakenTo + (n + 1) + 1]
      BY <2>1, <3>1
    <3>3. QED
      BY <3>1, <3>2
  <2>6. ASSUME pc' = "lookup"
        PROVE  begin' = end' /\ wire' = <<>>
    <3>1. IsRequest(parsed')
      BY <2>6 DEF RequestsWellFormed
    <3>2. offset + Len(parsed') <= Len(stream)
      BY <1>1, <1>5, <1>7, <2>1 DEF ReadTo, TakenTo
    <3>3. offset + Len(parsed') = Len(stream)
      <4>1. InStream(parsed', offset)
        BY <2>4 DEF InStream
      <4>2. QED
        BY <1>1, <1>5, <2>1, <3>1, <3>2, <4>1, WholeMessage
    <3>4. end - begin = 1 /\ Len(wire) = 0
      BY <1>1, <1>5, <1>7, <2>1, <3>3 DEF ReadTo, TakenTo
    <3>5. QED
      BY <1>1, <1>2, <3>4, EmptySeq
  <2>7. QED
    <3>1. InStream(parsed, offset)' /\ InStream(wire, ReadTo)'
      BY <1>2, <1>3, <2>1, <2>2, <2>4 DEF InStream
    <3>2. (ReadTo + Len(wire) = Len(stream))'
      BY <1>2, <2>1, <2>2
    <3>3. LastMessage'
      BY <1>2, <1>3, <2>1 DEF LastMessage, InStream
    <3>4. (\A n \in 0 .. end - begin - 1 : readBuffer[begin + n] = stream[TakenTo + n + 1])'
      BY <1>2, <2>2, <2>5
    <3>5. (pc \notin {"start", "read", "exited"} => begin = end /\ wire = <<>>)'
      BY <1>3, <2>6
    <3>6. QED
      BY <3>1, <3>2, <3>3, <3>4, <3>5 DEF SentInv
<1>8. QED
  BY <1>1, <1>2, <1>6, <1>7

LEMMA ReadSent ==
  ASSUME OneRequestEach, TypeOK, SentInv, (RequestsWellFormed)', NextRead
  PROVE  SentInv'
<1> DEFINE c == wire[1]
           p == Len(parsed)
           w == Len(wire)
           all == Len(stream)
<1>1. parsed \in Seq(Cells) /\ wire \in Seq(Cells) /\ stream \in Seq(Cells)
  BY DEF TypeOK
<1>2. /\ begin \in Nat /\ end \in 0 .. BUF_SIZE /\ BUF_SIZE \in Nat
      /\ p \in Nat /\ w \in Nat /\ all \in Nat /\ offset \in Nat
  BY <1>1, Constants, LenProperties DEF TypeOK
<1>3. /\ pc = "read" /\ begin = end /\ begin' = 1 /\ stream' = stream
  BY DEF NextRead, ReadInto, outsideVars, clientVars, sentVars
<1>4. PICK n \in 1 .. BUF_SIZE :
         /\ n <= w /\ end' = n
         /\ readBuffer' = [k \in 0 .. BUF_SIZE |->
                              IF k < n THEN wire[k + 1] ELSE readBuffer[k]]
         /\ wire' = SubSeq(wire, n + 1, w)
  BY DEF NextRead, ReadInto
<1>5. /\ parsed' = Append(parsed, c) /\ offset' = offset
      /\ pc' \in {"read", "lookup", "exited"}
  BY ConsumeIs DEF NextRead, ReadInto
<1>6. \A k \in 1 .. w : wire[k] \in Cells
  BY <1>1, ElementOfSeq
<1>7. c \in Cells
  <2> HIDE DEF w
  <2>1. 1 \in 1 .. w
    BY <1>2, <1>4
  <2>2. QED
    BY <1>6, <2>1
<1> HIDE DEF c, p, w, all
<1>8. /\ parsed' \in Seq(Cells) /\ Len(parsed') = p + 1
      /\ \A j \in 1 .. p : parsed'[j] = parsed[j]
      /\ parsed'[p + 1] = c
  BY <1>1, <1>5, <1>7, AppendIs DEF p
<1>9. /\ wire' \in Seq(Cells) /\ Len(wire') = w - n
      /\ \A k \in 1 .. w - n : wire'[k] = wire[n + k]
  <2> DEFINE t == SubSeq(wire, n + 1, w)
             l == Len(t)
  <2>1. /\ t \in Seq(Cells)
        /\ l = IF n + 1 <= w THEN w - (n + 1) + 1 ELSE 0
        /\ \A k \in 1 .. w - (n + 1) + 1 : t[k] = wire[n + 1 + k - 1]
    <3>1. n + 1 \in Int /\ w \in Int /\ \A k \in n + 1 .. w : wire[k] \in Cells
      BY <1>2, <1>4, <1>6
    <3>2. QED
      BY <3>1, SubSeqProperties
  <2>2. wire' = t /\ Len(wire') = l
    BY <1>4
  <2> HIDE DEF t, l
  <2>3. l = w - n
    BY <1>2, <1>4, <2>1
  <2>4. w - (n + 1) + 1 = w - n /\ \A k \in 1 .. w - n : n + 1 + k - 1 = n + k
    BY <1>2
  <2>5. QED
    BY <2>1, <2>2, <2>3, <2>4
<1>10. /\ TakenTo + w = all /\ InStream(parsed, offset)
       /\ \A k \in 1 .. w : wire[k] = stream[TakenTo + k]
       /\ LastMessage /\ TakenTo = offset + p
  <2>1. TakenTo = offset + p
    BY DEF TakenTo, p
  <2>2. ReadTo = TakenTo
    BY <1>2, <1>3, <2>1 DEF ReadTo
  <2>3. /\ ReadTo + w = all /\ InStream(parsed, offset)
        /\ InStream(wire, ReadTo) /\ LastMessage
    BY <1>2, <1>3 DEF SentInv, w, all
  <2>4. QED
    BY <2>1, <2>2, <2>3 DEF InStream, w
<1>11. TakenTo' = offset + (p + 1) /\ ReadTo' = offset + p + n
  <2>1. TakenTo' = offset + (p + 1)
    BY <1>5, <1>8 DEF TakenTo
  <2>2. ReadTo' = TakenTo' + (n - 1)
    BY <1>3, <1>4 DEF ReadTo
  <2>3. QED
    BY <1>2, <2>1, <2>2
<1>12. \A k \in 1 .. p + 1 : parsed'[k] = stream[offset + k]
  <2>1. 1 \in 1 .. w /\ offset + p + 1 = offset + (p + 1)
    BY <1>2, <1>4
  <2>2. c = stream[offset + (p + 1)]
    BY <1>10, <2>1 DEF c
  <2>3. \A k \in 1 .. p + 1 : k \in 1 .. p \/ k = p + 1
    BY <1>2
  <2>4. \A k \in 1 .. p : parsed[k] = stream[offset + k]
    BY <1>10 DEF InStream, p
  <2>5. QED
    BY <1>8, <2>2, <2>3, <2>4
<1>13. ASSUME NEW k \in 0 .. n - 1 - 1
       PROVE  readBuffer'[1 + k] = stream[offset + (p + 1) + k + 1]
  <2>1. /\ 1 + k \in 0 .. BUF_SIZE /\ 1 + k < n /\ 1 + k + 1 \in 1 .. w
        /\ offset + p + (1 + k + 1) = offset + (p + 1) + k + 1
    BY <1>2, <1>4
  <2>2. readBuffer'[1 + k] = wire[1 + k + 1]
    BY <1>4, <2>1
  <2>3. wire[1 + k + 1] = stream[offset + p + (1 + k + 1)]
    BY <1>10, <2>1
  <2>4. QED
    BY <2>1, <2>2, <2>3
<1>14. ASSUME NEW k \in 1 .. w - n
       PROVE  wire'[k] = stream[offset + p + n + k]
  <2>1. n + k \in 1 .. w /\ offset + p + (n + k) = offset + p + n + k
    BY <1>2, <1>4
  <2>2. wire'[k] = wire[n + k] /\ wire[n + k] = stream[offset + p + (n + k)]
    BY <1>9, <1>10, <2>1
  <2>3. QED
    BY <2>1, <2>2
<1>15. ASSUME pc' = "lookup"
       PROVE  begin' = end' /\ wire' = <<>>
  <2>1. IsRequest(parsed')
    BY <1>15 DEF RequestsWellFormed
  <2>2. offset + (p + 1) <= all /\ p + 1 > 0
    <3>1. offset + p + w = all /\ 1 <= w
      BY <1>2, <1>4, <1>10
    <3>2. QED
      BY <1>2, <3>1
  <2>3. offset + (p + 1) = all
    <3>1. InStream(parsed', offset)
      BY <1>8, <1>12 DEF InStream
    <3>2. LastMessage /\ stream \in Seq(Cells) /\ offset \in Nat /\ parsed' \in Seq(Cells)
      BY <1>1, <1>2, <1>8, <1>10
    <3>3. offset + Len(parsed') <= Len(stream) /\ Len(parsed') > 0
      BY <1>8, <2>2 DEF all
    <3>4. offset + Len(parsed') = Len(stream)
      BY <2>1, <3>1, <3>2, <3>3, WholeMessage
    <3>5. QED
      BY <1>8, <3>4 DEF all
  <2>4. n = 1 /\ w - n = 0
    <3>1. offset + p + w = all
      BY <1>10
    <3>2. w = 1
      BY <1>2, <2>3, <3>1
    <3>3. QED
      BY <1>4, <3>2
  <2>5. wire' = <<>>
    BY <1>9, <2>4, EmptySeq
  <2>6. QED
    BY <1>3, <1>4, <2>4, <2>5
<1>16. QED
  <2>1. InStream(parsed, offset)' /\ InStream(wire, ReadTo)'
    BY <1>3, <1>5, <1>8, <1>9, <1>11, <1>12, <1>14 DEF InStream
  <2>2. (ReadTo + Len(wire) = Len(stream))'
    <3>1. offset + p + n + (w - n) = all
      BY <1>2, <1>10
    <3>2. QED
      BY <1>3, <1>9, <1>11, <3>1 DEF all
  <2>3. LastMessage'
    BY <1>3, <1>5, <1>10 DEF LastMessage, InStream
  <2>4. (\A k \in 0 .. end - begin - 1 : readBuffer[begin + k] = stream[TakenTo + k + 1])'
    BY <1>3, <1>4, <1>11, <1>13
  <2>5. (pc \notin {"start", "read", "exited"} => begin = end /\ wire = <<>>)'
    BY <1>5, <1>15
  <2>6. QED
    BY <2>1, <2>2, <2>3, <2>4, <2>5 DEF SentInv

(* A response does not touch what is buffered: nothing is. *)
LEMMA ResponseSent ==
  ASSUME SentInv, \/ Lookup \/ MapFile \/ SendHead \/ SendChunk({"open", "finished"})
                  \/ SendBuffered \/ ChunkFails \/ ChunkKills \/ EndBody \/ NotFound
  PROVE  SentInv'
<1>1. /\ UNCHANGED <<parsed, offset, begin, end, wire, stream>>
      /\ pc \notin {"start", "read", "exited"} /\ pc' \notin {"start", "read"}
  BY DEF Lookup, SendDefaultResponse, MapFile, MmapFileRO, SendHead, SendChunk, SendBuffered,
     ChunkFails, ChunkKills, EndBody, NotFound, requestVars, bufferVars, outsideVars, clientVars,
     sentVars
<1>2. TakenTo' = TakenTo /\ ReadTo' = ReadTo
  BY <1>1 DEF TakenTo, ReadTo
<1>3. QED
  BY <1>1, <1>2 DEF SentInv, InStream, LastMessage

(* The next request begins where the last one has ended. *)
LEMMA UnmapSent ==
  ASSUME TypeOK, SentInv, Unmap
  PROVE  SentInv'
<1>1. pc = "sent" /\ UNCHANGED <<begin, end, wire, stream>>
  BY DEF Unmap, bufferVars, outsideVars, clientVars, sentVars
<1>2. CASE begin > end
  BY <1>1, <1>2, Constants DEF SentInv, TypeOK
<1>3. CASE begin <= end
  <2>1. /\ begin = end /\ wire = <<>> /\ LastMessage /\ InStream(parsed, offset)
        /\ ReadTo + Len(wire) = Len(stream) /\ InStream(wire, ReadTo)
    BY <1>1, <1>3 DEF SentInv
  <2>2. CASE mapped = "failed" \/ retval # 0
    <3>1. pc' = "exited" /\ UNCHANGED <<parsed, offset>>
      BY <2>2 DEF Unmap, requestVars
    <3>2. TakenTo' = TakenTo /\ ReadTo' = ReadTo
      BY <1>1, <3>1 DEF TakenTo, ReadTo
    <3>3. QED
      BY <1>1, <2>1, <3>1, <3>2 DEF SentInv, InStream, LastMessage
  <2>3. CASE ~(mapped = "failed" \/ retval # 0)
    <3>1. pc' = "read" /\ parsed' = <<>> /\ offset' = offset + Len(parsed)
      BY <2>3 DEF Unmap
    <3>2. /\ Len(parsed) \in Nat /\ offset \in Nat /\ Len(wire) = 0 /\ Len(stream) \in Nat
          /\ begin \in Nat
      BY <2>1, EmptySeq, LenProperties DEF TypeOK
    <3>3. offset' = Len(stream)
      BY <2>1, <3>1, <3>2 DEF ReadTo, TakenTo
    <3>4. Len(parsed') = 0
      BY <3>1, EmptySeq
    <3>5. TakenTo' = Len(stream) /\ ReadTo' = Len(stream)
      BY <1>1, <2>1, <3>2, <3>3, <3>4 DEF TakenTo, ReadTo
    <3>6. InStream(parsed, offset)' /\ InStream(wire, ReadTo)'
      BY <1>1, <3>2, <3>4 DEF InStream
    <3>7. (ReadTo + Len(wire) = Len(stream))'
      BY <1>1, <3>2, <3>5
    <3>8. (\A n \in 0 .. end - begin - 1 : readBuffer[begin + n] = stream[TakenTo + n + 1])'
      BY <1>1, <2>1, <3>2
    <3>9. LastMessage'
      BY <1>1, <3>3 DEF LastMessage
    <3>10. QED
      BY <3>1, <3>6, <3>7, <3>8, <3>9 DEF SentInv
  <2>4. QED
    BY <2>2, <2>3
<1>4. QED
  BY <1>2, <1>3, Constants DEF TypeOK

(* Only a client that has its response sends again. *)
LEMMA SendSent ==
  ASSUME ~Pipelined, TypeOK, SentInv, Send
  PROVE  SentInv'
<1>1. /\ wire = <<>> /\ pc = "read" /\ parsed = <<>> /\ begin = end
      /\ UNCHANGED <<pc, parsed, offset, begin, end>>
  BY DEF Send, Answered, requestVars, bufferVars
<1>2. PICK m \in Messages : wire' = wire \o m /\ stream' = stream \o m
  BY DEF Send
<1>3. /\ m \in Seq(Cells) /\ stream \in Seq(Cells) /\ offset \in Nat /\ begin \in Nat
  BY MessageAssumption, Constants DEF TypeOK
<1>4. wire' = m
  BY <1>1, <1>2, <1>3, ConcatEmptySeq
<1>5. /\ Len(m) \in Nat /\ Len(stream) \in Nat /\ Len(stream') = Len(stream) + Len(m)
      /\ \A n \in 1 .. Len(stream) + Len(m) :
           stream'[n] = IF n <= Len(stream) THEN stream[n] ELSE m[n - Len(stream)]
  BY <1>2, <1>3, LenProperties, ConcatProperties
<1>6. Len(parsed) = 0 /\ Len(wire) = 0 /\ offset = Len(stream)
  <2>1. Len(parsed) = 0 /\ Len(wire) = 0
    BY <1>1, EmptySeq
  <2>2. ReadTo + Len(wire) = Len(stream)
    BY <1>1, <1>3 DEF SentInv
  <2>3. ReadTo = offset
    BY <1>1, <1>3, <2>1 DEF ReadTo, TakenTo
  <2>4. QED
    BY <1>3, <2>1, <2>2, <2>3
<1>7. TakenTo' = offset /\ ReadTo' = offset
  BY <1>1, <1>3, <1>6 DEF TakenTo, ReadTo
<1> DEFINE k == Len(m)
<1>8. \A n \in 1 .. k : stream'[offset + n] = m[n]
  <2>0. offset \in Nat /\ k \in Nat
    BY <1>3, <1>5
  <2> HIDE DEF k
  <2>1. ASSUME NEW n \in 1 .. k
        PROVE  stream'[offset + n] = m[n]
    <3>1. /\ offset + n \in 1 .. offset + k /\ ~(offset + n <= offset)
          /\ offset + n - offset = n
      BY <2>0
    <3>2. stream'[offset + n] = IF offset + n <= offset THEN stream[offset + n]
                                                        ELSE m[offset + n - offset]
      BY <1>5, <1>6, <3>1 DEF k
    <3>3. QED
      BY <3>1, <3>2
  <2>2. QED
    BY <2>1
<1>9. InStream(m, offset)' /\ InStream(wire, ReadTo)' /\ InStream(parsed, offset)'
  BY <1>1, <1>4, <1>6, <1>7, <1>8 DEF InStream
<1>10. (ReadTo + Len(wire) = Len(stream))'
  BY <1>4, <1>5, <1>6, <1>7
<1>11. LastMessage'
  BY <1>1, <1>5, <1>6, <1>9 DEF LastMessage
<1>12. (\A n \in 0 .. end - begin - 1 : readBuffer[begin + n] = stream[TakenTo + n + 1])'
  BY <1>1, <1>3
<1>13. QED
  BY <1>1, <1>9, <1>10, <1>11, <1>12 DEF SentInv

LEMMA NextSentInv ==
  ASSUME ~Pipelined, OneRequestEach, Inv, SentInv, (RequestsWellFormed)', [Next]_vars
  PROVE  SentInv'
<1>1. TypeOK /\ begin \in Nat /\ end \in 0 .. BUF_SIZE /\ BUF_SIZE \in Nat
  BY Constants DEF Inv, TypeOK
<1>2. CASE NextOverrun
  BY <1>1, <1>2, Constants DEF NextOverrun, SentInv
<1>3. CASE NextEndOfStream
  BY <1>3 DEF NextEndOfStream, SentInv
<1>4. CASE SetSocketTimeout \/ NextFails \/ Finish \/ Stall \/ Resume \/ Reset \/ FileChanges
           \/ UNCHANGED vars
  <2>1. /\ UNCHANGED <<parsed, offset, readBuffer, begin, end, wire, stream>>
        /\ \/ pc' = pc
           \/ pc \in {"start", "read"} /\ pc' \in {"read", "exited"}
    BY <1>4 DEF SetSocketTimeout, NextFails, Finish, Stall, Resume, Reset, Becomes, FileChanges,
       vars, requestVars, bufferVars, outsideVars, clientVars, sentVars
  <2>2. TakenTo' = TakenTo /\ ReadTo' = ReadTo
    BY <2>1 DEF TakenTo, ReadTo
  <2>3. QED
    BY <2>1, <2>2 DEF SentInv, InStream, LastMessage
<1>5. CASE NextBuffered
  BY <1>1, <1>5, BufferedSent
<1>6. CASE NextRead
  BY <1>1, <1>6, ReadSent
<1>7. CASE Unmap
  BY <1>1, <1>7, UnmapSent
<1>8. CASE Send
  BY <1>1, <1>8, SendSent
<1>9. CASE \/ Lookup \/ MapFile \/ SendHead \/ SendChunk({"open", "finished"})
           \/ SendBuffered \/ ChunkFails \/ ChunkKills \/ EndBody \/ NotFound
  BY <1>9, ResponseSent
<1>10. QED
  BY <1>2, <1>3, <1>4, <1>5, <1>6, <1>7, <1>8, <1>9 DEF Next, WorkerStep

LEMMA SentAnswered ==
  ASSUME TypeOK, SentInv
  PROVE  OnlySentRequestsAnswered
<1> SUFFICES ASSUME pc = "lookup", begin <= end
             PROVE  TakenFromStream
  BY DEF OnlySentRequestsAnswered
<1> DEFINE p == Len(parsed)
           t == SubSeq(stream, offset + 1, offset + p)
<1>1. /\ parsed \in Seq(Cells) /\ stream \in Seq(Cells) /\ wire \in Seq(Cells)
      /\ p \in Nat /\ Len(stream) \in Nat /\ offset \in Nat /\ Len(wire) \in Nat
      /\ begin \in Nat
  BY Constants, LenProperties DEF TypeOK
<1>2. begin = end /\ ReadTo + Len(wire) = Len(stream) /\ Len(wire) = 0
      /\ \A n \in 1 .. p : parsed[n] = stream[offset + n]
  BY EmptySeq DEF SentInv, InStream
<1> HIDE DEF p, t
<1>3. offset + p = Len(stream)
  BY <1>1, <1>2 DEF ReadTo, TakenTo, p
<1>4. \A n \in offset + 1 .. offset + p : stream[n] \in Cells
  BY <1>1, <1>3, ElementOfSeq
<1>5. /\ t \in Seq(Cells)
      /\ Len(t) = IF offset + 1 <= offset + p THEN offset + p - (offset + 1) + 1 ELSE 0
      /\ \A n \in 1 .. offset + p - (offset + 1) + 1 : t[n] = stream[offset + 1 + n - 1]
  BY <1>1, <1>4, SubSeqProperties DEF t
<1>6. /\ offset + p - (offset + 1) + 1 = p /\ (offset + 1 <= offset + p <=> 1 <= p)
      /\ \A n \in 1 .. p : offset + 1 + n - 1 = offset + n
  BY <1>1
<1>7. Len(t) = p /\ \A n \in 1 .. p : t[n] = parsed[n]
  BY <1>1, <1>2, <1>5, <1>6
<1>8. parsed = t
  BY <1>1, <1>5, <1>7, SeqEqual DEF p
<1>9. QED
  BY <1>1, <1>3, <1>8 DEF TakenFromStream, p, t

-----------------------------------------------------------------------------
(* The theorems *)

(* Every variable of a worker keeps its type: the indices into readBuffer  *)
(* leave the array only as far as there is memory behind it, and the       *)
(* counters of io_writeChunked() stay near the length of the body or just  *)
(* below zero.                                                             *)
THEOREM WorkerTypeCorrect == Spec => []TypeOK
BY Invariance, PTL DEF Inv

(* Whatever send() takes, refuses or fails at, what remains to be sent is  *)
(* what the pointer of io_writeChunked() has not passed.                   *)
THEOREM RestIsBehindPointer == Spec => []RestBehindPointer
<1>1. Inv => RestBehindPointer
  BY DEF Inv, BodyInv, BodyKnown, RestBehindPointer
<1>2. QED
  BY <1>1, Invariance, PTL

(* A response without a failed send(), be it a file or the 404 page, has   *)
(* the bytes it announced as its body, and each failure makes it one byte  *)
(* longer.                                                                 *)
THEOREM BodyArrivesWhole == Spec => []BodyArrives
BY Invariance, PTL DEF Inv, BodyInv

(* http_processGetHead() leaves neither the file nor a mapping behind.     *)
THEOREM FileIsReleased == Spec => []FileReleased
<1>1. Inv => FileReleased
  BY DEF Inv, FileInv, FileReleased
<1>2. QED
  BY <1>1, Invariance, PTL

(* Whatever pieces read() delivers and whatever the buffer held, what the  *)
(* worker answers has the form http_readRequest documents, up to its first *)
(* empty line.                                                             *)
THEOREM RequestsAreWellFormed == Spec => []RequestsWellFormed
BY ParseInvariance, PTL DEF ParseInv

(* A client that asks for one thing at a time is answered what it has      *)
(* asked for, byte for byte, until read() reports the end of the stream:   *)
(* NEXT_CHAR skips and repeats nothing, whatever pieces read() delivers,   *)
(* and nothing that http_processGetHead() prints into the buffer is read.  *)
THEOREM AnswersWhatWasSent ==
  ~Pipelined /\ OneRequestEach => (Spec => []OnlySentRequestsAnswered)
<1> SUFFICES ASSUME ~Pipelined, OneRequestEach
             PROVE  Spec => []OnlySentRequestsAnswered
  OBVIOUS
<1>1. Inv /\ SentInv /\ RequestsWellFormed' /\ [Next]_vars => SentInv'
  BY NextSentInv
<1>2. Spec => []SentInv
  BY <1>1, InitSentInv, Invariance, RequestsAreWellFormed, PTL DEF Spec
<1>3. Inv /\ SentInv => OnlySentRequestsAnswered
  BY SentAnswered DEF Inv
<1>4. QED
  BY <1>2, <1>3, Invariance, PTL
=============================================================================
