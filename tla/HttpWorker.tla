----------------------------- MODULE HttpWorker -----------------------------
(***************************************************************************)
(* What a worker does with its connection (src/src/http.c): read a request *)
(* through a small buffer, answer it from a file, and start again until    *)
(* something ends the process.                                             *)
(*                                                                         *)
(* The connection is a stream of cells.  "GET" and "HEAD" stand for a      *)
(* method with its space, "url" and "badurl" for a target url_getPath      *)
(* takes or refuses together with " HTTP/1.1", "CR" and "LF" for           *)
(* themselves, "NUL" for a zero byte and "x" for every other byte.  The    *)
(* buffer holds cells too, because http.c prints its response lines into   *)
(* the buffer it reads requests from.                                      *)
(***************************************************************************)
EXTENDS Integers, SequencesExt

CONSTANTS
    BUF_SIZE,      \* cells read() may deliver at a time
    Messages,      \* what the client may send in one go
    MaxMessages,   \* bound: how often it does
    MaxChanges,    \* bound: how often the file changes
    MaxOverrun,    \* bound: cells there are behind the buffer
    Memory,        \* what they may hold
    Pipelined,     \* the client may send before it has the last response
    LENGTH,        \* size of the file when it is not empty
    MESSAGE_LENGTH,  \* messageLength: what the default response has for a body
    SizeMax, SEND_CHUNK_SIZE_BYTES, MaxFailures,   \* of WriteChunked
    Faults         \* what may go wrong outside the worker

Methods == {"GET", "HEAD"}
Targets == {"url", "badurl"}
Cells   == Methods \cup Targets \cup {"CR", "LF", "NUL", "x"}

MaxLength == Max({LENGTH, MESSAGE_LENGTH})

ASSUME BufferAssumption  == BUF_SIZE \in Nat /\ BUF_SIZE > 3
ASSUME MessageAssumption == \A m \in Messages : m \in Seq(Cells) /\ m # <<>>
ASSUME BoundsAssumption  ==
    /\ {MaxMessages, MaxChanges, MaxOverrun, MaxFailures} \subseteq Nat
    /\ {LENGTH, MESSAGE_LENGTH, SEND_CHUNK_SIZE_BYTES, SizeMax} \subseteq Nat \ {0}
    /\ MaxLength + MaxFailures < SizeMax - MaxFailures
    /\ Pipelined \in BOOLEAN /\ Memory \subseteq Cells
    /\ Faults \subseteq {"reset", "stall", "replace", "mmap", "timeout"}

VARIABLES
    pc,           \* start, read, lookup, map, head, body, sent, exited
    parser,       \* where http_readRequest is in the request
    method, target,
    readBuffer, begin, end,   \* readBufferDataBeginIndex and ...EndIndex
    statusCode,   \* of the response: 200 or 404
    statSize,     \* what stat() said: "zero" or "some"
    fileFd,       \* the requested file is open
    mapped,       \* 0, the file, or MAP_FAILED
    retval,       \* of http_sendBuffer
    bytesRemaining, nextChunk, arrived, failures,   \* of WriteChunked
    wire,         \* sent by the client and not yet read
    peer,         \* open, finished (no more to send), stalled (neither sends
                  \* nor reads), reset, or gone once that was reported
    file,         \* the file behind "url"
    stream,       \* history: everything the client has sent
    parsed,       \* history: the cells http_readRequest took for this request
    offset,       \* history: cells of stream before this request
    sends,        \* bound counter
    changes       \* bound counter

bodyVars    == <<bytesRemaining, nextChunk, arrived, failures>>
fileVars    == <<statusCode, statSize, fileFd, mapped, retval, bodyVars>>
requestVars == <<parser, method, target, parsed, offset>>
bufferVars  == <<readBuffer, begin, end>>
sentVars    == <<stream, sends>>
clientVars  == <<peer, sentVars>>
diskVars    == <<file, changes>>
outsideVars == <<clientVars, diskVars>>
vars == <<pc, requestVars, bufferVars, fileVars, wire, outsideVars>>

Body == INSTANCE WriteChunked

HeaderStates == {"None", "Cr1", "Lf1", "Cr2", "Lf2"}
FileStates   == {"absent", "special", "empty", "regular"}

TypeOK ==
    /\ pc \in {"start", "read", "lookup", "map", "head", "body", "sent",
               "exited"}
    /\ parser \in {"before", "target", "cr", "lf"} \cup HeaderStates
    /\ method \in Methods /\ target \in Targets
    /\ readBuffer \in [0 .. BUF_SIZE -> Cells]
    /\ begin \in 0 .. BUF_SIZE + 1 + MaxOverrun /\ end \in 0 .. BUF_SIZE
    /\ statusCode \in {200, 404} /\ statSize \in {"zero", "some"}
    /\ fileFd \in BOOLEAN
    /\ mapped \in {"nothing", "file", "failed"}
    /\ retval \in {-1, 0}
    /\ wire \in Seq(Cells) /\ stream \in Seq(Cells) /\ parsed \in Seq(Cells)
    /\ offset \in Nat
    /\ peer \in {"open", "finished", "stalled", "reset", "gone"}
    /\ bytesRemaining \in 0 .. MaxLength + MaxFailures
    /\ nextChunk \in 0 .. MaxLength \cup SizeMax - MaxFailures .. SizeMax
    /\ arrived \in Seq(0 .. SizeMax) /\ failures \in 0 .. MaxFailures
    /\ file \in FileStates
    /\ sends \in 0 .. MaxMessages /\ changes \in 0 .. MaxChanges

Init ==
    /\ pc = "start" /\ parser = "before" /\ method = "GET" /\ target = "url"
    /\ readBuffer = [n \in 0 .. BUF_SIZE |-> "NUL"] /\ begin = 0 /\ end = 0
    /\ statusCode = 200 /\ statSize = "zero" /\ fileFd = FALSE /\ mapped = "nothing" /\ retval = 0
    /\ bytesRemaining = 0 /\ nextChunk = 0 /\ arrived = <<>> /\ failures = 0
    /\ wire = <<>> /\ peer = "open"
    /\ file \in FileStates
    /\ stream = <<>> /\ parsed = <<>> /\ offset = 0
    /\ sends = 0 /\ changes = 0

-----------------------------------------------------------------------------
(* http_accept: a connection that can be given no timeout is not served. *)
SetSocketTimeout ==
    /\ pc = "start"
    /\ pc' \in {"read"} \cup IF "timeout" \in Faults THEN {"exited"} ELSE {}
    /\ UNCHANGED <<requestVars, bufferVars, fileVars, wire, outsideVars>>

-----------------------------------------------------------------------------
(* http_readRequest *)

(* The request line: CR and LF before the method are skipped. *)
RequestLine(st, c) ==
    CASE st = "before" /\ c \in {"CR", "LF"} -> "before"
      [] st = "before" /\ c \in Methods      -> "target"
      [] st = "target" /\ c \in Targets      -> "cr"
      [] st = "cr"     /\ c = "CR"           -> "lf"
      [] st = "lf"     /\ c = "LF"           -> "Lf1"
      [] OTHER                               -> "error"

(* Variant: the second CR of a line end is not distinguished from the first. *)
HeaderEndLoose(st, c) ==
    CASE c = "CR"                -> IF st \in {"Lf1", "Cr2"} THEN "Cr2" ELSE "Cr1"
      [] c = "LF" /\ st = "Cr1"  -> "Lf1"
      [] c = "LF" /\ st = "Cr2"  -> "Lf2"
      [] OTHER                   -> "None"

(* Read until end of header. *)
HeaderEnd(st, c) ==
    CASE c = "CR"                -> IF st = "Lf1" THEN "Cr2" ELSE "Cr1"
      [] c = "LF" /\ st = "Cr1"  -> "Lf1"
      [] c = "LF" /\ st = "Cr2"  -> "Lf2"
      [] OTHER                   -> "None"

Parse(st, c) == IF st \in HeaderStates THEN HeaderEnd(st, c)
                                       ELSE RequestLine(st, c)

(* The parser takes c.  An error makes http_accept close the socket and    *)
(* exit; the end of the header hands over to http_processGetHead.          *)
Consume(c) ==
    /\ parsed' = Append(parsed, c)
    /\ method' = IF parser = "before" /\ c \in Methods THEN c ELSE method
    /\ target' = IF parser = "target" /\ c \in Targets THEN c ELSE target
    /\ LET st == Parse(parser, c)
       IN /\ parser' = IF st = "error" THEN parser ELSE st
          /\ pc' = CASE st = "error" -> "exited"
                     [] st = "Lf2"   -> "lookup"
                     [] OTHER        -> "read"
    /\ UNCHANGED offset

(* NEXT_CHAR while the buffer has a cell that was read.  Once read() has   *)
(* returned 0 the indices never meet again and this goes on through        *)
(* whatever the buffer held before.                                        *)
NextBuffered ==
    /\ pc = "read" /\ begin # end /\ begin <= BUF_SIZE
    /\ Consume(readBuffer[begin])
    /\ begin' = begin + 1
    /\ UNCHANGED <<readBuffer, end, fileVars, wire, outsideVars>>

(* Past the end of the array there is some other memory, and none behind   *)
(* it: the header of a request may end there, and the next one begin.      *)
NextOverrun ==
    /\ pc = "read" /\ begin > BUF_SIZE
    /\ \/ /\ begin <= BUF_SIZE + MaxOverrun
          /\ \E c \in Memory : Consume(c)
          /\ begin' = begin + 1
       \/ pc' = "exited" /\ UNCHANGED <<requestVars, begin>>
    /\ UNCHANGED <<readBuffer, end, fileVars, wire, outsideVars>>

(* read() delivers up to limit cells, the first of which is taken at once. *)
ReadInto(limit, taken) ==
    /\ pc = "read" /\ begin = end /\ wire # <<>> /\ peer # "reset"
    /\ \E n \in 1 .. limit :
          /\ n <= Len(wire)
          /\ readBuffer' = [k \in 0 .. BUF_SIZE |->
                               IF k < n THEN wire[k + 1] ELSE readBuffer[k]]
          /\ end' = n
          /\ wire' = SubSeq(wire, n + 1, Len(wire))
    /\ Consume(wire[1])
    /\ begin' = taken
    /\ UNCHANGED <<fileVars, outsideVars>>

(* Variants: read() may fill one cell more, or the cell taken at once is   *)
(* taken again.                                                            *)
NextReadLong  == ReadInto(BUF_SIZE + 1, 1)
NextReadTwice == ReadInto(BUF_SIZE, 0)

NextRead == ReadInto(BUF_SIZE, 1)

(* Variant: the end of the stream is not told from an interrupted read. *)
NextEndRetry ==
    /\ pc = "read" /\ begin = end /\ wire = <<>> /\ peer = "finished"
    /\ UNCHANGED <<pc, requestVars, bufferVars, fileVars, wire, outsideVars>>

(* read() returns 0 at the end of the stream.  The code does not test for  *)
(* that: it takes the first cell of the buffer, whatever that is.          *)
NextEndOfStream ==
    /\ pc = "read" /\ begin = end /\ wire = <<>> /\ peer = "finished"
    /\ Consume(readBuffer[0])
    /\ begin' = 1 /\ end' = 0
    /\ UNCHANGED <<readBuffer, fileVars, wire, outsideVars>>

(* read() fails: the receive timeout of a silent client, or a reset. *)
NextFails ==
    /\ pc = "read" /\ begin = end
    /\ (wire = <<>> /\ peer \in {"open", "stalled"}) \/ peer = "reset"
    /\ pc' = "exited"
    /\ UNCHANGED <<requestVars, bufferVars, fileVars, wire, outsideVars>>

-----------------------------------------------------------------------------
(* http_processGetHead *)

(* snprintf into readBuffer: a line, its CRLF and the terminating zero.  *)
Line == <<"x", "CR", "LF", "NUL">>
PrintLine == readBuffer' = [k \in 0 .. BUF_SIZE |->
                               IF k < Len(Line) THEN Line[k + 1] ELSE readBuffer[k]]

(* What the response announces and io_writeChunked() is given: st_size, or *)
(* the length of the default response.                                     *)
Length == IF statusCode = 404 THEN MESSAGE_LENGTH
          ELSE IF statSize = "zero" THEN 0 ELSE LENGTH

(* http_sendDefaultResponse() calls http_sendBuffer() as a response with a *)
(* file does: what is missing is answered by a page in sendBuffer.         *)
SendDefaultResponse == statusCode' = 404 /\ pc' = "head"

(* Bad targets end the worker; a file that is not there or not a file is   *)
(* answered by 404.                                                        *)
Lookup ==
    /\ pc = "lookup"
    /\ \/ target = "badurl" /\ pc' = "exited" /\ UNCHANGED <<statusCode, statSize>>
       \/ /\ target = "url" /\ file \in {"absent", "special"}
          /\ SendDefaultResponse
          /\ UNCHANGED statSize
       \/ /\ target = "url" /\ file \in {"empty", "regular"}
          /\ statSize' = IF file = "empty" THEN "zero" ELSE "some"
          /\ statusCode' = 200 /\ pc' = "map"
    /\ UNCHANGED <<requestVars, bufferVars, fileFd, mapped, retval, bodyVars,
                   wire, outsideVars>>

(* open() may fail by now.  mmap() of nothing fails, as it may for other   *)
(* reasons, and returns MAP_FAILED, which is not taken for a failure.      *)
MmapFileRO ==
    \/ file = "absent" /\ pc' = "exited" /\ UNCHANGED <<fileFd, mapped>>
    \/ /\ file # "absent"
       /\ fileFd' = TRUE
       /\ LET unmappable == statSize = "zero" \/ file = "special"
          IN \/ ~unmappable /\ mapped' = "file"
             \/ (unmappable \/ "mmap" \in Faults) /\ mapped' = "failed"
       /\ pc' = "head"

(* HEAD needs no mapping. *)
MapFile ==
    /\ pc = "map"
    /\ \/ method = "HEAD" /\ pc' = "head" /\ UNCHANGED <<fileFd, mapped>>
       \/ method = "GET" /\ MmapFileRO
    /\ UNCHANGED <<requestVars, bufferVars, statusCode, statSize, retval, bodyVars,
                   wire, outsideVars>>

(* body # 0 in http_sendBuffer(): a mapping, or the default response,      *)
(* which is sent whatever the method is.                                   *)
HasBody == statusCode = 404 \/ mapped # "nothing"

(* http_sendBuffer(): status line, three header lines and the empty line,  *)
(* printed one after the other into readBuffer; then io_writeChunked()     *)
(* starts.  A send() fails after a reset, unless SIGPIPE ends the worker,  *)
(* and when the kernel's buffer stays full until the send timeout.  A      *)
(* failure of the empty line alone goes unnoticed.                         *)
SendHead ==
    /\ pc = "head"
    /\ PrintLine
    /\ \/ /\ ~HasBody /\ retval' = 0 /\ pc' = "sent"
          /\ UNCHANGED bodyVars
       \/ /\ HasBody /\ retval' = 0 /\ pc' = "body"
          /\ Body!Start(Length)
       \/ /\ peer \in {"reset", "stalled"}
          /\ retval' = -1 /\ pc' = "sent"
          /\ UNCHANGED bodyVars
       \/ /\ peer = "reset"
          /\ pc' = "exited" /\ UNCHANGED <<retval, bodyVars>>
    /\ UNCHANGED <<requestVars, begin, end, statusCode, statSize, fileFd, mapped,
                   wire, outsideVars>>

(* There is memory at the pointer: the pages of the file, or sendBuffer.   *)
Readable == statusCode = 404 \/ (mapped = "file" /\ file # "empty")
InFile   == nextChunk < Length

(* The loop of io_writeChunked().  Where the pointer has moved back below  *)
(* the body there may be some other memory.                                *)
SendChunk(peers) ==
    /\ pc = "body" /\ Readable /\ peer \in peers
    /\ Body!Send
    /\ UNCHANGED <<pc, requestVars, bufferVars, statusCode, statSize, fileFd, mapped, retval,
                   wire, outsideVars>>

(* send() fails where nothing is mapped, and when the client does not read *)
(* until the timeout; it reports a reset once.                             *)
ChunkFails ==
    /\ pc = "body"
    /\ Body!SendFails
    /\ \/ /\ peer \notin {"reset", "gone"}
          /\ ~Readable \/ ~InFile \/ peer = "stalled"
          /\ UNCHANGED peer
       \/ peer = "reset" /\ peer' = "gone"
    /\ UNCHANGED <<pc, requestVars, bufferVars, statusCode, statSize, fileFd, mapped, retval,
                   wire, sentVars, diskVars>>

(* SIGPIPE *)
ChunkKills ==
    /\ pc = "body" /\ ~Body!Ended /\ peer \in {"reset", "gone"}
    /\ pc' = "exited"
    /\ UNCHANGED <<requestVars, bufferVars, fileVars, wire,
                   outsideVars>>

(* Variant: an empty body is not taken for sent. *)
EndBodySome ==
    /\ pc = "body" /\ Body!Ended /\ Length # 0 /\ pc' = "sent"
    /\ UNCHANGED <<requestVars, bufferVars, fileVars, wire, outsideVars>>

EndBody ==
    /\ pc = "body" /\ Body!Ended /\ pc' = "sent"
    /\ UNCHANGED <<requestVars, bufferVars, fileVars, wire, outsideVars>>

(* Variant: the file is closed only if there was nothing to unmap. *)
UnmapKeepsFd == fileFd' = (fileFd /\ mapped # "nothing") /\ mapped' = "nothing"

(* io_unmapFile(): close() in any case. *)
UnmapFile == fileFd' = FALSE /\ mapped' = "nothing"

(* munmap(MAP_FAILED) fails and ends the worker, and so does a response    *)
(* that could not be sent.  Otherwise http_accept reads the next request.  *)
Unmap ==
    /\ pc = "sent" /\ statusCode = 200
    /\ UnmapFile
    /\ IF mapped = "failed" \/ retval # 0
       THEN pc' = "exited" /\ UNCHANGED requestVars
       ELSE /\ pc' = "read" /\ parser' = "before" /\ parsed' = <<>>
            /\ offset' = offset + Len(parsed)
            /\ UNCHANGED <<method, target>>
    /\ Body!Start(0)
    /\ UNCHANGED <<bufferVars, statusCode, statSize, retval, wire, outsideVars>>

(* The default response is the last: close() and PANIC(), sent or not.     *)
NotFound ==
    /\ pc = "sent" /\ statusCode = 404 /\ pc' = "exited"
    /\ UNCHANGED <<requestVars, bufferVars, fileVars, wire, outsideVars>>

-----------------------------------------------------------------------------
(* The client and the file system *)

(* Nothing the client sent is waiting to be read or answered. *)
Answered == wire = <<>> /\ pc = "read" /\ parsed = <<>> /\ begin = end

Send ==
    /\ sends < MaxMessages /\ peer = "open" /\ pc # "exited"
    /\ Pipelined \/ Answered
    /\ \E m \in Messages : wire' = wire \o m /\ stream' = stream \o m
    /\ sends' = sends + 1
    /\ UNCHANGED <<pc, requestVars, bufferVars, fileVars, peer, diskVars>>

Becomes(state) ==
    /\ pc # "exited" /\ peer' = state
    /\ UNCHANGED <<pc, requestVars, bufferVars, fileVars, wire,
                   sentVars, diskVars>>

Finish == peer = "open" /\ Becomes("finished")
Stall  == "stall" \in Faults /\ peer = "open" /\ Becomes("stalled")
Resume == peer = "stalled" /\ Becomes("open")
Reset  == "reset" \in Faults /\ peer \notin {"reset", "gone"} /\ Becomes("reset")

(* The client does not read, but some more fits into the kernel's buffer. *)
SendBuffered == SendChunk({"stalled"})

(* Somebody removes the file or makes one, or, as a fault, truncates it or *)
(* puts a directory in its place.                                          *)
FileChanges ==
    /\ changes < MaxChanges /\ pc # "exited"
    /\ \E f \in FileStates \ {file} :
          /\ f \in {"empty", "special"} => "replace" \in Faults
          /\ file' = f
    /\ changes' = changes + 1
    /\ UNCHANGED <<pc, requestVars, bufferVars, fileVars, wire, clientVars>>

-----------------------------------------------------------------------------
WorkerStep ==
    \/ SetSocketTimeout
    \/ NextBuffered \/ NextOverrun \/ NextRead \/ NextEndOfStream \/ NextFails
    \/ Lookup \/ MapFile \/ SendHead
    \/ SendChunk({"open", "finished"}) \/ ChunkFails \/ ChunkKills \/ EndBody
    \/ Unmap \/ NotFound

Next == WorkerStep \/ SendBuffered
        \/ Send \/ Finish \/ Stall \/ Resume \/ Reset \/ FileChanges

Spec == Init /\ [][Next]_vars

(* The kernel runs the worker and its timers; nobody makes the client act. *)
FairSpec == Spec /\ WF_vars(WorkerStep)

-----------------------------------------------------------------------------
(* Properties *)

(* The format http_readRequest documents: a request line, header lines and *)
(* an empty line, each ended by CR LF, with nothing after it; and before   *)
(* it the empty lines http.c tolerates.                                    *)
EmptyLineEnds(s, n) == SubSeq(s, n - 3, n) = <<"CR", "LF", "CR", "LF">>
IsRequest(s) ==
    \E k \in 1 .. Len(s) - 5 :
        /\ \A j \in 1 .. k - 1 : s[j] \in {"CR", "LF"}
        /\ s[k] \in Methods /\ s[k + 1] \in Targets
        /\ s[k + 2] = "CR" /\ s[k + 3] = "LF"
        /\ EmptyLineEnds(s, Len(s))
        /\ \A n \in k + 5 .. Len(s) - 1 : ~EmptyLineEnds(s, n)

(* The worker answers only what has the documented form: the automaton     *)
(* stops at the first empty line, neither earlier nor later.               *)
RequestsWellFormed == pc = "lookup" => IsRequest(parsed)

TakenFromStream ==
    /\ offset + Len(parsed) <= Len(stream)
    /\ parsed = SubSeq(stream, offset + 1, offset + Len(parsed))

(* Until read() reports the end of the stream, the worker answers only     *)
(* what the client sent, byte for byte and in order: nothing left over in  *)
(* the buffer, nothing skipped, whatever the pieces read() delivers.       *)
OnlySentRequestsAnswered == pc = "lookup" /\ begin <= end => TakenFromStream

(* The same of a client that closes in the middle of a request.  The code  *)
(* does not do that: it reads "until end of header" from what is left in   *)
(* the buffer.                                                             *)
NoRequestMadeUp == pc = "lookup" => TakenFromStream

(* Between two requests the worker has neither the file nor a mapping.     *)
FileReleased == pc \in {"read", "lookup"} => ~fileFd /\ mapped = "nothing"

(* io.h: a file that could not be mapped is reported as an error.  The     *)
(* code takes MAP_FAILED, which is not 0, for an address.                  *)
MapFailureReported == fileFd => mapped = "file"

(* Whatever send() takes and however often it fails, what remains is what *)
(* the pointer has not passed: io_writeChunked() stops at the end of the   *)
(* body, neither before nor behind it.                                     *)
RestBehindPointer ==
    pc = "body" => Body!Add(nextChunk, bytesRemaining) = Length

(* A response whose sends all succeed has the bytes of the file, or of the *)
(* default response, as its body, once and in order, as many as            *)
(* Content-Length announced; each failure makes it one byte longer.        *)
BodyArrives ==
    pc = "sent" /\ HasBody /\ retval = 0 =>
        /\ Len(arrived) = Length + failures
        /\ failures = 0 => arrived = [n \in 1 .. Length |-> n - 1]

(* What io_writeChunked() does not return from: a send() that fails and    *)
(* does not kill, again and again, be it of a file or of the 404 page.     *)
SendsForEver ==
    /\ pc = "body" /\ ~Body!Ended /\ peer \notin {"reset", "gone"}
    /\ ~Readable \/ ~InFile \/ peer = "stalled"

(* Once a request has been read its response comes to an end, and the      *)
(* worker reads on or exits, unless send() fails again and again.          *)
Responding   == pc \in {"lookup", "map", "head", "body", "sent"}
ResponseEnds == []<>SendsForEver \/ (Responding ~> pc \in {"read", "exited"})

(* A client that has closed, or says nothing more, does not keep a worker  *)
(* otherwise.                                                              *)
ClientGone == peer # "open" \/ sends = MaxMessages
WorkerEnds == []<>SendsForEver \/ (ClientGone ~> pc = "exited")
=============================================================================
