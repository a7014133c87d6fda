---------------------------- MODULE MCHttpWorker ----------------------------
(* Small instances of the worker for TLC: what the client may send. *)
EXTENDS HttpWorker

(* A request, one with headers and stray line ends, and what is refused. *)
Plain   == <<"GET", "url", "CR", "LF", "CR", "LF">>
Headers == <<"CR", "LF", "HEAD", "url", "CR", "LF", "x", "CR", "LF",
             "CR", "CR", "LF", "LF", "CR", "LF", "CR", "LF">>
BadUrl  == <<"GET", "badurl", "CR", "LF", "CR", "LF">>
Garbage == <<"GET", "LF", "x">>

(* The client closes in the middle of a request: before its header ends,  *)
(* and so that what is left in a buffer of seven completes it.             *)
CutHeader == <<"GET", "url", "CR", "LF", "x">>
CutLater  == <<"CR", "LF", "GET", "url", "CR", "LF">>

(* Behind the buffer: what ends a header, and what does not. *)
BehindBuffer == {"CR", "LF", "x"}

OneRequest   == {Plain}
ManyMessages == {Plain, Headers, BadUrl, Garbage, CutHeader}
CutMessages  == {CutLater, Plain}
=============================================================================
