------------------------------- MODULE Forker -------------------------------
(***************************************************************************)
(* The dispatcher of eldritchd (src/src/forker.c).  One server process     *)
(* select()s on the listening socket and on a table of accepted            *)
(* connections that have not sent anything yet.  A connection that turns   *)
(* readable is handed to a worker made by fork(); one that stays idle too  *)
(* long is closed.  The worker inherits copies of every open descriptor,   *)
(* closes those that are not its own and then serves one connection; what  *)
(* it does there is the subject of HttpWorker, here it serves until it     *)
(* exits.                                                                  *)
(*                                                                         *)
(* A process is its descriptor table (files), its copy of the connection   *)
(* table (descriptors) and its control state; fork() copies the first two. *)
(* A kernel socket lives as long as some process has it open.              *)
(***************************************************************************)
EXTENDS Integers, SequencesExt

CONSTANTS
    Conns,                 \* the connections clients make; also names the
                           \* worker forked for that connection
    Server,                \* the process that runs forker_loopRead
    Listen,                \* what the listening descriptor refers to
    None,                  \* a descriptor that is not open
    AcceptSocket,          \* number of the listening descriptor
    LastFd,                \* highest descriptor a process may have open
    MAX_DESCRIPTORS,       \* entries of the connection table
    MAX_PENDING_REQUESTS,  \* length of the queue given to listen()
    TimeoutSecs,           \* DEFAULT_TIMEOUT_SECS
    IntMax,                \* greatest value of an int
    MaxTime,               \* bound: the clock stops here
    Faults,                \* the calls that may fail
    AbortDrops             \* TRUE where the kernel removes a connection the
                           \* client resets from the queue of the listener

ASSUME ConnsAssumption  == /\ Server \notin Conns
                           /\ Listen \notin Conns
                           /\ None \notin Conns
                           /\ Listen # None
ASSUME FdsAssumption    == AcceptSocket \in Nat /\ LastFd \in Nat
                           /\ AcceptSocket <= LastFd
ASSUME LimitsAssumption == /\ MAX_DESCRIPTORS \in Nat \ {0}
                           /\ MAX_PENDING_REQUESTS \in Nat \ {0}
                           /\ TimeoutSecs \in Nat
                           /\ IntMax \in Nat
                           /\ MaxTime \in Nat
ASSUME FaultsAssumption ==
    /\ Faults \subseteq {"accept", "setsockopt", "fork", "select", "fdelt"}
    /\ AbortDrops \in BOOLEAN

Procs == Conns \cup {Server}
Fds   == AcceptSocket .. LastFd
Slots == 0 .. MAX_DESCRIPTORS - 1
Empty == -1                \* a free entry of descriptors[] or timeoutEpocs[]

VARIABLES
    pc,             \* where the server is in forker_loopRead
    i,              \* loop index of processFileDescriptors
    epoc,           \* the time processFileDescriptors sampled
    fdset,          \* fdToReadFrom
    readySocket,    \* the descriptor just handed over
    keepListening,
    timeoutEpocs,   \* of the server: no worker reads its copy
    descriptors,    \* per process
    files,          \* per process: what each descriptor refers to
    worker,         \* per connection: none, forked or serving
    backlog,        \* connections waiting for accept(), oldest first
    readable,       \* per connection: data, EOF or an error is waiting
    now,            \* time(NULL)
    acceptedAt      \* history: when accept() returned the connection

loopVars  == <<pc, i, epoc, fdset, readySocket>>
tableVars == <<descriptors, timeoutEpocs, files>>
kernelVars == <<backlog, readable>>
vars == <<loopVars, tableVars, kernelVars, keepListening, worker, now,
          acceptedAt>>

-----------------------------------------------------------------------------
(* The conversion of a time_t to the int of timeoutEpocs[]. *)
ToInt(t) == ((t + IntMax + 1) % (2 * (IntMax + 1))) - (IntMax + 1)

Holds(p, k)  == \E f \in Fds : files[p][f] = k
TableFds(p)  == {descriptors[p][s] : s \in Slots} \ {Empty}
(* Variant: the comparison the wrong way round. *)
ExpiresEarly(s, t) == descriptors[Server][s] # Empty /\ timeoutEpocs[s] > t
Expired(s, t) == descriptors[Server][s] # Empty /\ timeoutEpocs[s] < t
Closed(p, F) == [f \in Fds |-> IF f \in F THEN None ELSE files[p][f]]
Listening    == \E p \in Procs : Holds(p, Listen)

(* The queue disappears with the last descriptor of the listening socket. *)
KernelQueue(q) == backlog' = IF Listening' THEN q ELSE <<>>

(* What select() reports of the listener and of a connection. *)
Ready(f) == \/ files[Server][f] = Listen /\ backlog # <<>>
            \/ \E c \in Conns : files[Server][f] = c /\ readable[c]

TypeOK ==
    /\ pc \in {"loop", "select", "scan", "close", "accept",
               "stopped", "panic"}
    /\ i \in Slots
    /\ epoc \in Nat
    /\ fdset \subseteq Fds
    /\ readySocket \in Fds \cup {Empty}
    /\ keepListening \in BOOLEAN
    /\ timeoutEpocs \in [Slots -> Int]
    /\ descriptors \in [Procs -> [Slots -> Fds \cup {Empty}]]
    /\ files \in [Procs -> [Fds -> Conns \cup {Listen, None}]]
    /\ worker \in [Conns -> {"none", "forked", "serving"}]
    /\ backlog \in Seq(Conns)
    /\ readable \in [Conns -> BOOLEAN]
    /\ now \in Nat
    /\ acceptedAt \in [Conns -> Nat]

Init ==
    /\ pc = "loop" /\ i = 0 /\ epoc = 0 /\ fdset = {} /\ readySocket = Empty
    /\ keepListening = TRUE
    /\ timeoutEpocs = [s \in Slots |-> Empty]
    /\ descriptors = [p \in Procs |-> [s \in Slots |-> Empty]]
    /\ files = [p \in Procs |-> [f \in Fds |->
                  IF p = Server /\ f = AcceptSocket THEN Listen ELSE None]]
    /\ worker = [c \in Conns |-> "none"]
    /\ backlog = <<>>
    /\ readable = [c \in Conns |-> FALSE]
    /\ now = 0
    /\ acceptedAt = [c \in Conns |-> 0]

-----------------------------------------------------------------------------
(* The server *)

(* Variants: the listener, or the table, stays open. *)
TableOnly(p)    == TableFds(p)
ListenerOnly(p) == {AcceptSocket}

(* closeDescriptors(), in the server or in a worker. *)
ToClose(p) == {AcceptSocket} \cup TableFds(p)
CloseDescriptors(p) ==
    /\ files' = [files EXCEPT ![p] = Closed(p, ToClose(p))]
    /\ descriptors' = [descriptors EXCEPT ![p] = [s \in Slots |-> Empty]]
    /\ KernelQueue(backlog)

(* The end of a process: the kernel closes everything it had open. *)
Exit(p) ==
    /\ files' = [files EXCEPT ![p] = [f \in Fds |-> None]]
    /\ KernelQueue(backlog)

(* initDescriptorSet(): purge the expired entries, watch the others. *)
PurgeAndWatch ==
    /\ LET expired == {s \in Slots : Expired(s, now)}
           left    == [s \in Slots |-> IF s \in expired THEN Empty
                                       ELSE descriptors[Server][s]]
       IN /\ files' = [files EXCEPT ![Server] =
                Closed(Server, {descriptors[Server][s] : s \in expired})]
          /\ descriptors' = [descriptors EXCEPT ![Server] = left]
          /\ timeoutEpocs' = [s \in Slots |->
                IF s \in expired THEN Empty ELSE timeoutEpocs[s]]
          /\ fdset' = {AcceptSocket} \cup ({left[s] : s \in Slots} \ {Empty})
    /\ pc' = "select"
    /\ UNCHANGED <<i, epoc, readySocket, kernelVars, keepListening, worker,
                   now, acceptedAt>>

(* Variant: the loop never looks at keepListening. *)
InitDescriptorSetAlways == pc = "loop" /\ PurgeAndWatch

(* The loop test succeeds. *)
InitDescriptorSet == pc = "loop" /\ keepListening /\ PurgeAndWatch

(* The loop test fails: forker_loopRead closes everything and returns. *)
StopListening ==
    /\ pc = "loop" /\ ~keepListening
    /\ CloseDescriptors(Server)
    /\ timeoutEpocs' = [s \in Slots |-> Empty]
    /\ pc' = "stopped"
    /\ UNCHANGED <<i, epoc, fdset, readySocket, readable, keepListening,
                   worker, now, acceptedAt>>

BadDescriptor == \E f \in fdset : files[Server][f] = None

(* What select() leaves in the set.  Variant: all that was watched. *)
Watched  == fdset
Reported == {f \in fdset : Ready(f)}

(* select() blocks until something is ready; it leaves in the set exactly  *)
(* what is, and processFileDescriptors samples the clock.                  *)
SelectReady ==
    /\ pc = "select" /\ ~BadDescriptor
    /\ \E f \in fdset : Ready(f)
    /\ fdset' = Reported
    /\ epoc' = now
    /\ i' = 0
    /\ pc' = "scan"
    /\ UNCHANGED <<readySocket, tableVars, kernelVars, keepListening, worker,
                   now, acceptedAt>>

(* EBADF or ENOMEM: closeDescriptors() and PANIC, which exits. *)
SelectPanics ==
    /\ pc = "select"
    /\ BadDescriptor \/ "select" \in Faults
    /\ Exit(Server)
    /\ descriptors' = [descriptors EXCEPT ![Server] = [s \in Slots |-> Empty]]
    /\ timeoutEpocs' = [s \in Slots |-> Empty]
    /\ pc' = "panic"
    /\ UNCHANGED <<i, epoc, fdset, readySocket, readable, keepListening,
                   worker, now, acceptedAt>>

(* A signal caught while select() sleeps: forker_stop() runs and select()  *)
(* returns EINTR, which SA_RESTART does not change.                        *)
SelectInterrupted ==
    /\ pc = "select" /\ ~BadDescriptor
    /\ \A f \in fdset : ~Ready(f)
    /\ keepListening' = FALSE
    /\ pc' = "loop"
    /\ UNCHANGED <<i, epoc, fdset, readySocket, tableVars, kernelVars, worker,
                   now, acceptedAt>>

(* A signal caught anywhere else, or just before select() goes to sleep:   *)
(* only the flag changes.                                                  *)
ForkerStop ==
    /\ pc \notin {"stopped", "panic"}
    /\ keepListening
    /\ keepListening' = FALSE
    /\ UNCHANGED <<loopVars, tableVars, kernelVars, worker, now, acceptedAt>>

(* Variants: the loop runs one entry too far, stops after the first entry, *)
(* or is always followed by accept().                                      *)
MorePastEnd  == i + 1 \in 0 .. MAX_DESCRIPTORS
MoreNever    == FALSE
AcceptAlways == TRUE

MoreSlots     == i + 1 \in Slots
ListenerReady == AcceptSocket \in fdset

(* The loop of processFileDescriptors moves on to the next entry, and after *)
(* the last one to accept() if the listener is ready.                      *)
NextSlot ==
    IF MoreSlots
    THEN i' = i + 1 /\ pc' = "scan"
    ELSE i' = i /\ pc' = IF ListenerReady THEN "accept" ELSE "loop"

(* Variant: the number of the closed descriptor stays in the entry. *)
ClearSlotTime ==
    /\ timeoutEpocs' = [timeoutEpocs EXCEPT ![i] = Empty]
    /\ UNCHANGED descriptors

ClearSlot ==
    /\ descriptors' = [descriptors EXCEPT ![Server][i] = Empty]
    /\ timeoutEpocs' = [timeoutEpocs EXCEPT ![i] = Empty]

ScanExpired ==
    /\ pc = "scan" /\ Expired(i, epoc)
    /\ ClearSlot
    /\ files' = [files EXCEPT ![Server] =
                   Closed(Server, {descriptors[Server][i]})]
    /\ NextSlot
    /\ UNCHANGED <<epoc, fdset, readySocket, kernelVars, keepListening,
                   worker, now, acceptedAt>>

(* Variant: the entry of the connection that is handed over stays. *)
NotCleared == descriptors[Server]
Cleared    == [descriptors[Server] EXCEPT ![i] = Empty]

(* The entry is ready: clear it and fork.  The child inherits the files    *)
(* and the table.  If fork() fails nobody serves the connection.           *)
ScanReady ==
    /\ pc = "scan" /\ ~Expired(i, epoc)
    /\ descriptors[Server][i] \in fdset
    /\ readySocket' = descriptors[Server][i]
    /\ timeoutEpocs' = [timeoutEpocs EXCEPT ![i] = Empty]
    /\ \/ \E c \in Conns :
             /\ files[Server][readySocket'] = c
             /\ descriptors' = [descriptors EXCEPT ![Server] = Cleared, ![c] = Cleared]
             /\ files' = [files EXCEPT ![c] = files[Server]]
             /\ worker' = [worker EXCEPT ![c] = "forked"]
       \/ /\ "fork" \in Faults
          /\ descriptors' = [descriptors EXCEPT ![Server] = Cleared]
          /\ UNCHANGED <<files, worker>>
    /\ pc' = "close"
    /\ UNCHANGED <<i, epoc, fdset, kernelVars, keepListening, now, acceptedAt>>

(* Variant: the server forgets that it has the connection open, too. *)
Forgotten  == {}
HandedOver == {readySocket}

(* The server's close(readySocket) after fork(). *)
CloseReadySocket ==
    /\ pc = "close"
    /\ files' = [files EXCEPT ![Server] = Closed(Server, HandedOver)]
    /\ readySocket' = Empty
    /\ NextSlot
    /\ UNCHANGED <<epoc, fdset, descriptors, timeoutEpocs, kernelVars,
                   keepListening, worker, now, acceptedAt>>

(* Neither expired nor ready.  For a free entry the code evaluates         *)
(* FD_ISSET(-1, ...): the plain macro reads a bit no descriptor this small *)
(* can have set.                                                           *)
ScanIdle ==
    /\ pc = "scan" /\ ~Expired(i, epoc)
    /\ descriptors[Server][i] \notin fdset
    /\ NextSlot
    /\ UNCHANGED <<epoc, fdset, readySocket, tableVars, kernelVars,
                   keepListening, worker, now, acceptedAt>>

(* The same FD_ISSET(-1, ...) built with _FORTIFY_SOURCE aborts. *)
ScanAborts ==
    /\ pc = "scan" /\ "fdelt" \in Faults
    /\ descriptors[Server][i] = Empty
    /\ Exit(Server)
    /\ pc' = "panic"
    /\ UNCHANGED <<i, epoc, fdset, readySocket, descriptors, timeoutEpocs,
                   readable, keepListening, worker, now, acceptedAt>>

(* Variants: the last entry is never used, or every entry passes for free. *)
FreeSlotsShort ==
    {s \in Slots : descriptors[Server][s] = Empty /\ s + 1 \in Slots}
FreeSlotsAny   == Slots

FreeSlots == {s \in Slots : descriptors[Server][s] = Empty}
FreeFds   == {f \in Fds : files[Server][f] = None}
Lowest(S) == {x \in S : \A y \in S : x <= y}

(* Variant: the timeout runs from the time the iteration sampled. *)
DeadlineFromEpoc == ToInt(epoc + TimeoutSecs)
Deadline         == ToInt(now + TimeoutSecs)

(* insertDescriptor(): the first free entry. *)
InsertDescriptor(fd, s) ==
    /\ descriptors' = [descriptors EXCEPT ![Server][s] = fd]
    /\ timeoutEpocs' = [timeoutEpocs EXCEPT ![s] = Deadline]

(* accept() gives the oldest connection the lowest free descriptor.  It    *)
(* enters the table unless that is full, even if setsockopt() failed and   *)
(* the code has closed it.                                                 *)
Accept ==
    /\ pc = "accept" /\ backlog # <<>>
    /\ \E fd \in Lowest(FreeFds) :
         LET c == Head(backlog) IN
         /\ acceptedAt' = [acceptedAt EXCEPT ![c] = now]
         /\ \E kept \in BOOLEAN :
              /\ kept \/ "setsockopt" \in Faults
              /\ files' = [files EXCEPT ![Server][fd] =
                             IF kept /\ FreeSlots # {} THEN c ELSE None]
         /\ \/ \E s \in Lowest(FreeSlots) : InsertDescriptor(fd, s)
            \/ FreeSlots = {} /\ UNCHANGED <<descriptors, timeoutEpocs>>
    /\ KernelQueue(Tail(backlog))
    /\ pc' = "loop"
    /\ UNCHANGED <<i, epoc, fdset, readySocket, readable, keepListening,
                   worker, now>>

(* accept() fails: the connection was aborted and is gone, or it stays in  *)
(* the queue because no descriptor is free or memory is short.             *)
AcceptFails ==
    /\ pc = "accept" /\ backlog # <<>>
    /\ \/ FreeFds = {} /\ UNCHANGED backlog
       \/ "accept" \in Faults /\ backlog' \in {backlog, Tail(backlog)}
    /\ pc' = "loop"
    /\ UNCHANGED <<i, epoc, fdset, readySocket, tableVars, readable,
                   keepListening, worker, now, acceptedAt>>

-----------------------------------------------------------------------------
(* The workers *)

(* The child's closeDescriptors(): its own socket is not in its table. *)
CloseInherited(c) ==
    /\ worker[c] = "forked"
    /\ CloseDescriptors(c)
    /\ worker' = [worker EXCEPT ![c] = "serving"]
    /\ UNCHANGED <<loopVars, timeoutEpocs, readable, keepListening, now,
                   acceptedAt>>

(* acceptor() returned or panicked. *)
WorkerExit(c) ==
    /\ worker[c] = "serving"
    /\ Exit(c)
    /\ worker' = [worker EXCEPT ![c] = "none"]
    /\ UNCHANGED <<loopVars, descriptors, timeoutEpocs, readable,
                   keepListening, now, acceptedAt>>

-----------------------------------------------------------------------------
(* The clients and the clock *)

Queued(c) == \E n \in DOMAIN backlog : backlog[n] = c

Connect(c) ==
    /\ Listening
    /\ Len(backlog) < MAX_PENDING_REQUESTS
    /\ ~Queued(c) /\ \A p \in Procs : ~Holds(p, c)
    /\ backlog' = Append(backlog, c)
    /\ readable' = [readable EXCEPT ![c] = FALSE]
    /\ UNCHANGED <<loopVars, tableVars, keepListening, worker, now, acceptedAt>>

(* The client sends something, closes or resets the connection. *)
ClientActs(c) ==
    /\ ~readable[c]
    /\ Queued(c) \/ Holds(Server, c)
    /\ readable' = [readable EXCEPT ![c] = TRUE]
    /\ UNCHANGED <<loopVars, tableVars, backlog, keepListening, worker, now,
                   acceptedAt>>

(* The client resets a connection nobody has accepted. *)
Abort(c) ==
    /\ AbortDrops
    /\ \E n \in DOMAIN backlog :
          backlog[n] = c /\ backlog' = RemoveAt(backlog, n)
    /\ UNCHANGED <<loopVars, tableVars, readable, keepListening, worker, now,
                   acceptedAt>>

Tick ==
    /\ now < MaxTime
    /\ now' = now + 1
    /\ UNCHANGED <<loopVars, tableVars, kernelVars, keepListening, worker,
                   acceptedAt>>

-----------------------------------------------------------------------------
ServerStep ==
    \/ InitDescriptorSet \/ StopListening \/ SelectReady \/ SelectPanics
    \/ ScanExpired \/ ScanReady \/ CloseReadySocket \/ ScanIdle \/ ScanAborts
    \/ Accept \/ AcceptFails

Signal == SelectInterrupted \/ ForkerStop

Next ==
    \/ ServerStep
    \/ Signal
    \/ \E c \in Conns : CloseInherited(c) \/ WorkerExit(c)
    \/ \E c \in Conns : Connect(c) \/ ClientActs(c) \/ Abort(c)
    \/ Tick

Spec == Init /\ [][Next]_vars

(* The kernel schedules every process that can run.  Nothing is assumed of *)
(* clients, signals or the clock, nor of a worker once it serves: it may   *)
(* keep its connection for ever.                                           *)
Fairness ==
    /\ WF_vars(ServerStep)
    /\ \A c \in Conns : WF_vars(CloseInherited(c))

FairSpec == Spec /\ Fairness
-----------------------------------------------------------------------------
(* Properties *)

Waiting(c) ==
    \E s \in Slots : /\ descriptors[Server][s] # Empty
                     /\ files[Server][descriptors[Server][s]] = c

(* Every entry of the connection table is an open descriptor of an         *)
(* accepted connection, as the comment on descriptors[] says: nothing the  *)
(* server closes stays in the table for the next select().                 *)
EntriesOpen ==
    \A s \in Slots : descriptors[Server][s] # Empty =>
                       files[Server][descriptors[Server][s]] \in Conns
DescriptorsOpen == pc # "panic" => EntriesOpen

(* No two entries share a descriptor: a number that close() freed and      *)
(* accept() gave out again is never left behind in an older entry.         *)
OneSlotEach ==
    \A s, t \in Slots :
        descriptors[Server][s] # Empty /\ descriptors[Server][s] = descriptors[Server][t]
            => s = t

(* The server never loses track of a connection: each one it has open is   *)
(* in the table or is the one it is about to close after fork().  Once it  *)
(* stopped nothing is left open.                                           *)
NoLeak ==
    \A f \in Fds : files[Server][f] \in Conns =>
                     \/ f \in TableFds(Server)
                     \/ pc = "close" /\ f = readySocket

(* A worker that serves has its own connection open and nothing else:      *)
(* neither the listener nor a connection another process answers for.      *)
WorkerIsolation ==
    \A c \in Conns : worker[c] = "serving" =>
        /\ Holds(c, c)
        /\ \A f \in Fds : files[c][f] \in {c, None}

(* A connection that has a worker is no longer the server's to wait for,   *)
(* time out or hand over again, although it may still hold it for a while. *)
ExclusiveHandoff ==
    \A c \in Conns : worker[c] # "none" => ~Waiting(c)

(* A worker is forked only for a connection that has something to read:    *)
(* the set select() filled is never applied to a descriptor that was       *)
(* closed and reused in the meantime.                                      *)
HandoffOnlyReady ==
    \A c \in Conns : worker[c] # "none" => readable[c]

(* No client, no failed fork() and no failed accept() makes the server     *)
(* give up: select() never meets a descriptor that is not open.            *)
ServerSurvives == pc # "panic"

(* The strengthening of these invariants that every step preserves, with   *)
(* any of the calls failing.  The server's tables: the listener stays open *)
(* under its number and is never an entry; what select() watches is the    *)
(* table; entries are known to be open only once select() has accepted     *)
(* them, since a failed setsockopt() leaves a closed one.                  *)
TableInv ==
    /\ NoLeak
    /\ OneSlotEach
    /\ pc \notin {"stopped", "panic"} => files[Server][AcceptSocket] = Listen
    /\ \A p \in Procs : \A f \in Fds : files[p][f] = Listen => f = AcceptSocket
    /\ \A s \in Slots : descriptors[Server][s] # AcceptSocket
    /\ pc = "select" => fdset = {AcceptSocket} \cup TableFds(Server)
    /\ pc \in {"scan", "close", "accept"} => EntriesOpen
    /\ pc = "close" => readySocket \in Fds \ ({AcceptSocket} \cup TableFds(Server))

(* What a worker that has just been forked may have open besides its own   *)
(* connection is what its copy of the table lets closeDescriptors() find.  *)
Inherits(c) ==
    /\ \E f \in Fds : /\ files[c][f] = c
                      /\ f \notin {AcceptSocket} \cup TableFds(c)
    /\ \A f \in Fds : files[c][f] \in {c, None}
                         \/ f \in {AcceptSocket} \cup TableFds(c)

OneFdEach == \A f, g \in Fds :
    files[Server][f] \in Conns /\ files[Server][f] = files[Server][g] => f = g
QueuedOnce == IsInjective(backlog)
QueuedUnheld == \A c \in Conns : Queued(c) => \A p \in Procs : ~Holds(p, c)
NoWorkerNoFiles == \A c \in Conns :
    worker[c] = "none" => \A f \in Fds : files[c][f] = None
ForkedInherits == \A c \in Conns : worker[c] = "forked" => Inherits(c)

(* The connections: a queued one is nobody's yet and is queued once, the   *)
(* server has no connection open twice, and a worker has its own.          *)
ConnInv ==
    /\ OneFdEach /\ QueuedOnce /\ QueuedUnheld
    /\ NoWorkerNoFiles /\ ForkedInherits /\ WorkerIsolation
    /\ ExclusiveHandoff

ClosedByTimeout(c) ==
    /\ Holds(Server, c) /\ ~Holds(Server, c)'
    /\ pc \in {"loop", "scan"} /\ pc' \notin {"stopped", "panic"}

(* An idle connection is closed only after more than timeoutSecs seconds   *)
(* since it was accepted.                                                  *)
NoEarlyTimeout ==
    [][\A c \in Conns :
          ClosedByTimeout(c) => now > acceptedAt[c] + TimeoutSecs]_vars

(* accept() never gives the server a connection it closes at once unless   *)
(* every entry of the table holds one that had not expired when the        *)
(* iteration looked at the clock.                                          *)
RefusedOnlyIfFull ==
    [][\A c \in Conns :
          pc = "accept" /\ pc' = "loop" /\ Queued(c)
            /\ ~Queued(c)' /\ ~Holds(Server, c)'
          => \A s \in Slots : /\ descriptors[Server][s] # Empty
                               /\ epoc <= timeoutEpocs[s]]_vars

(* The server never waits in accept() for a client to come, although the   *)
(* descriptor is in fact blocking: fcntl(F_SETFD, O_NONBLOCK) does not do  *)
(* what its comment says.  select() reported a connection, nobody else     *)
(* accepts it, and the kernel keeps it.                                    *)
AcceptNeverBlocks == pc = "accept" => backlog # <<>>

(* A readable connection does not wait for ever in the table, whatever the *)
(* other connections do.                                                   *)
ReadyReleased ==
    \A c \in Conns : (Waiting(c) /\ readable[c]) ~> ~Waiting(c)

(* An idle connection whose time is over does not stay in the table: the   *)
(* server closes it in the pass that runs, or in the next one, which is    *)
(* started by whatever makes select() return and by nothing else.          *)
TimedOut(c) ==
    \E s \in Slots : /\ descriptors[Server][s] # Empty
                     /\ files[Server][descriptors[Server][s]] = c
                     /\ timeoutEpocs[s] < now
ExpiredReleased ==
    \A c \in Conns :
        TimedOut(c) /\ (pc = "select" => \E f \in fdset : Ready(f)) ~> ~Waiting(c)

(* Every queued connection leaves the queue: it is accepted, or the        *)
(* listener closes under it, even while workers still hold a copy of it.   *)
(* Only an accept() that fails again and again keeps it there: select()    *)
(* reports the listener at once, and the server goes round without rest.   *)
PendingResolved ==
    []<><<AcceptFails>>_vars \/ \A c \in Conns : Queued(c) ~> ~Queued(c)

(* A connection nobody answers for any more is really closed: the copies   *)
(* that workers inherited do not keep it open.                             *)
Orphaned(c) == /\ worker[c] = "none" /\ ~Waiting(c)
               /\ \E p \in Procs : Holds(p, c)
OrphansClosed == \A c \in Conns : Orphaned(c) ~> ~Orphaned(c)

Terminated == pc \in {"stopped", "panic"}

(* A stop request ends the server as soon as any connection gives select() *)
(* a reason to return.                                                     *)
StopsWithTraffic ==
    (~keepListening /\ \E f \in fdset : Ready(f)) ~> Terminated

(* A stop request ends the server. *)
StopRequestHonoured == ~keepListening ~> Terminated
=============================================================================
