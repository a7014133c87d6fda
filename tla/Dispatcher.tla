----------------------------- MODULE Dispatcher -----------------------------
(***************************************************************************)
(* What the dispatcher promises of every connection, without descriptors,  *)
(* processes or clocks.  A connection is queued by the kernel, waits among *)
(* at most Capacity others until it has something to say, is served by     *)
(* exactly one worker, and is closed; it may be dropped while it waits.    *)
(* It never goes back a step, is never served twice, and is refused only   *)
(* when Capacity others wait.                                              *)
(***************************************************************************)
EXTENDS Naturals, FiniteSets

CONSTANTS
    Conns,
    Capacity,       \* connections that may wait at a time
    QueueLength,    \* connections that may be queued at a time
    Lossy           \* TRUE if a queued connection may vanish for a reason
                    \* other than a full table

VARIABLES
    status,         \* where each connection is
    open            \* clients can connect

vars == <<status, open>>

In(s) == {c \in Conns : status[c] = s}
To(S, s) == [c \in Conns |-> IF c \in S THEN s ELSE status[c]]

(* A set of connections is let go; those in Kept stay open somewhere for a *)
(* while, although nobody answers for them.                                *)
LetGo(S, Kept) == [c \in Conns |-> IF c \notin S THEN status[c]
                                   ELSE IF c \in Kept THEN "closing"
                                   ELSE "absent"]

Init == status = [c \in Conns |-> "absent"] /\ open = TRUE

Connect(c) ==
    /\ open /\ status[c] = "absent" /\ Cardinality(In("queued")) < QueueLength
    /\ status' = To({c}, "queued")
    /\ open' = open

Accept(c) ==
    /\ status[c] = "queued" /\ Cardinality(In("waiting")) < Capacity
    /\ status' = To({c}, "waiting")
    /\ open' = open

Refuse(c) ==
    /\ status[c] = "queued"
    /\ Lossy \/ Cardinality(In("waiting")) = Capacity
    /\ status' = To({c}, "absent")
    /\ open' = open

Serve(c) ==
    /\ status[c] = "waiting"
    /\ status' = To({c}, "served")
    /\ open' = open

(* Timeouts, or a fork() that failed. *)
Drop ==
    /\ \E S \in SUBSET In("waiting") : \E Kept \in SUBSET S :
          status' = LetGo(S, Kept)
    /\ open' = open

Finish(c) ==
    /\ status[c] = "served"
    /\ status' \in {To({c}, "closing"), To({c}, "absent")}
    /\ open' = open

Release ==
    /\ \E S \in SUBSET In("closing") : status' = LetGo(S, {})
    /\ open' = open

(* The server ends, and with it the queue, unless a worker that has not    *)
(* yet closed its copy of the listener keeps that alive a little longer.   *)
Shutdown ==
    /\ open
    /\ \E Kept \in SUBSET In("waiting") : \E Left \in SUBSET In("closing") :
          \/ /\ open' = FALSE
             /\ status' = LetGo(In("queued") \cup In("waiting")
                                  \cup In("closing"), Kept \cup Left)
          \/ /\ open' = open
             /\ status' = LetGo(In("waiting") \cup In("closing"),
                                Kept \cup Left)

Next ==
    \/ \E c \in Conns : Connect(c) \/ Accept(c) \/ Refuse(c) \/ Serve(c)
                        \/ Finish(c)
    \/ Drop \/ Release \/ Shutdown

Spec == Init /\ [][Next]_vars
=============================================================================
