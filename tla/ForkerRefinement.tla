-------------------------- MODULE ForkerRefinement --------------------------
(* The dispatcher of forker.c implements Dispatcher. *)
EXTENDS Forker

Status(c) == IF Queued(c)            THEN "queued"
             ELSE IF Waiting(c)      THEN "waiting"
             ELSE IF worker[c] # "none" THEN "served"
             ELSE IF Orphaned(c)     THEN "closing"
             ELSE "absent"

Promise == INSTANCE Dispatcher WITH
    Capacity    <- MAX_DESCRIPTORS,
    QueueLength <- MAX_PENDING_REQUESTS,
    Lossy       <- AbortDrops \/ Faults \cap {"accept", "setsockopt"} # {},
    status      <- [c \in Conns |-> Status(c)],
    open        <- Listening

(* Whatever forker.c does to descriptors and processes, each connection    *)
(* goes through the steps of Dispatcher: served at most once, dropped only *)
(* while it waits, refused only by a full table, within the capacity.      *)
ImplementsDispatcher == Promise!Spec
=============================================================================
