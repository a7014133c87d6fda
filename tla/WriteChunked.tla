---------------------------- MODULE WriteChunked ----------------------------
(***************************************************************************)
(* The loop of io_writeChunked() (src/src/io.c): send() what remains of a  *)
(* buffer, a chunk at a time, and move on by what it returns.  The counter *)
(* is a size_t, and so is the variable the result of send() goes into: -1  *)
(* becomes the greatest size_t, the test 0 > sentBytes is never true, and  *)
(* the loop goes on.  The pause before a send() that follows a short one   *)
(* is time only and left out.                                              *)
(***************************************************************************)
EXTENDS Integers, SequencesExt, FiniteSetsExt

CONSTANTS
    SizeMax,                \* greatest value of a size_t
    SEND_CHUNK_SIZE_BYTES,
    MaxFailures             \* bound: failures of send() that are counted

VARIABLES
    bytesRemaining,
    nextChunk,              \* as an offset into the buffer, modulo 2^w
    arrived,                \* history: the offsets send() took bytes from
    failures                \* history: failures of send()

Add(m, n) == (m + n) % (SizeMax + 1)
Sub(m, n) == (m - n) % (SizeMax + 1)

Start(length) ==
    /\ bytesRemaining' = length /\ nextChunk' = 0
    /\ arrived' = <<>> /\ failures' = 0

nextChunkSize == Min({bytesRemaining, SEND_CHUNK_SIZE_BYTES})

(* Variants: the pointer, or pointer and counter, move by what send() was  *)
(* asked for.                                                              *)
AdvancePointerAsked(sentBytes) ==
    /\ bytesRemaining' = Sub(bytesRemaining, sentBytes)
    /\ nextChunk' = Add(nextChunk, nextChunkSize)
AdvanceAsked(sentBytes) ==
    /\ bytesRemaining' = Sub(bytesRemaining, nextChunkSize)
    /\ nextChunk' = Add(nextChunk, nextChunkSize)

Advance(sentBytes) ==
    /\ bytesRemaining' = Sub(bytesRemaining, sentBytes)
    /\ nextChunk' = Add(nextChunk, sentBytes)

(* send() takes as many bytes as fit into the kernel's buffer. *)
Send ==
    /\ bytesRemaining > 0
    /\ \E k \in 1 .. nextChunkSize :
          /\ Advance(k)
          /\ arrived' = arrived \o [j \in 1 .. k |-> Add(nextChunk, j - 1)]
    /\ UNCHANGED failures

(* send() returns -1. *)
SendFails ==
    /\ bytesRemaining > 0
    /\ IF failures < MaxFailures
       THEN Advance(SizeMax) /\ failures' = failures + 1
       ELSE UNCHANGED <<bytesRemaining, nextChunk, failures>>
    /\ UNCHANGED arrived

Ended == bytesRemaining = 0
=============================================================================
