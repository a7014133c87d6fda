-------------------------- MODULE ForkerImplements --------------------------
(***************************************************************************)
(* Proof that the dispatcher of forker.c implements Dispatcher, for any    *)
(* number of connections, entries and descriptors, whatever calls fail.    *)
(***************************************************************************)
EXTENDS ForkerRefinement, ForkerProofs, FiniteSetTheorems

Held(c) == \E p \in Procs : Holds(p, c)

-----------------------------------------------------------------------------
(* What the refinement needs beyond Inv: a queue needs its listener, and a *)
(* server that has ended has no connection.                                *)
EndInv ==
    /\ ~Listening => backlog = <<>>
    /\ pc \in {"stopped", "panic"} => \A c \in Conns : ~Holds(Server, c)

LEMMA InitEndInv == Init => EndInv
BY ConstantTypes DEF Init, EndInv

(* The server listens until it ends. *)
LEMMA ServerListens == TableInv /\ pc \notin {"stopped", "panic"} => Listening
BY ConstantTypes DEF TableInv, Listening, Holds

LEMMA ServerListensNext == TableInv' /\ pc' \notin {"stopped", "panic"} => Listening'
BY ConstantTypes DEF TableInv, Listening, Holds

LEMMA NextEndInv == Inv /\ EndInv /\ [Next]_vars => EndInv'
<1> SUFFICES ASSUME TypeOK, TableInv, ConnInv, EndInv, [Next]_vars
             PROVE  EndInv'
  BY DEF Inv
<1> USE ConstantTypes DEF loopVars, tableVars, kernelVars
<1>0. TableInv'
  BY NextTableInv
<1>a. ASSUME pc' \notin {"stopped", "panic"} PROVE EndInv'
  BY <1>0, <1>a DEF EndInv, TableInv, Listening, Holds
<1>1. CASE InitDescriptorSet \/ SelectReady \/ ScanExpired \/ ScanReady
           \/ CloseReadySocket \/ ScanIdle \/ Accept \/ AcceptFails \/ SelectInterrupted
  BY <1>1, <1>a DEF InitDescriptorSet, PurgeAndWatch, SelectReady, ScanExpired,
     ScanReady, CloseReadySocket, ScanIdle, NextSlot, Accept, AcceptFails,
     SelectInterrupted
<1>2. CASE StopListening
  BY <1>2 DEF StopListening, CloseDescriptors, ToClose, Closed, KernelQueue, Holds,
     TableFds, TableInv, NoLeak, EndInv, TypeOK
<1>3. CASE SelectPanics \/ ScanAborts
  BY <1>3 DEF SelectPanics, ScanAborts, Exit, KernelQueue, Holds, EndInv, TypeOK
<1>4. CASE ForkerStop
  BY <1>4, <1>a DEF ForkerStop
<1>5. ASSUME NEW c \in Conns, CloseInherited(c) \/ WorkerExit(c)
      PROVE  EndInv'
  BY <1>5 DEF CloseInherited, CloseDescriptors, WorkerExit, Exit, KernelQueue,
     Holds, EndInv, TypeOK
<1>6. ASSUME NEW c \in Conns, Connect(c) \/ ClientActs(c) \/ Abort(c)
      PROVE  EndInv'
  <2>1. files' = files /\ pc' = pc
    BY <1>6 DEF Connect, ClientActs, Abort
  <2>2. ~Listening => backlog' = <<>>
    BY <1>6, LenProperties DEF Connect, ClientActs, Abort, EndInv, TypeOK
  <2>3. QED
    BY <2>1, <2>2 DEF EndInv, Listening, Holds
<1>7. CASE Tick \/ UNCHANGED vars
  BY <1>7 DEF Tick, vars, EndInv, Listening, Holds
<1>8. QED
  BY <1>1, <1>2, <1>3, <1>4, <1>5, <1>6, <1>7 DEF Next, ServerStep, Signal

-----------------------------------------------------------------------------
(* Where a connection is *)

(* The cases of Status exclude each other. *)
LEMMA OnePlace ==
  ASSUME Inv, NEW c \in Conns
  PROVE  /\ Queued(c) => ~Waiting(c) /\ worker[c] = "none" /\ ~Held(c)
         /\ Waiting(c) => worker[c] = "none" /\ Holds(Server, c) /\ Held(c)
         /\ worker[c] # "none" => Held(c)
<1> USE ConstantTypes
<1>0. TypeOK /\ ConnInv
  BY DEF Inv
<1>1. Waiting(c) => Holds(Server, c) /\ worker[c] = "none"
  BY <1>0 DEF Waiting, Holds, ConnInv, ExclusiveHandoff, TypeOK
<1>2. Queued(c) => ~Held(c)
  BY <1>0 DEF ConnInv, QueuedUnheld, Held
<1>3. worker[c] # "none" => Held(c)
  BY <1>0, WorkerHolds DEF Held
<1>4. QED
  BY <1>1, <1>2, <1>3 DEF Held

Place(c) ==
    /\ Status(c) = "queued" <=> Queued(c)
    /\ Status(c) = "waiting" <=> Waiting(c)
    /\ Status(c) = "served" <=> worker[c] # "none"
    /\ Status(c) = "closing" <=> ~Waiting(c) /\ worker[c] = "none" /\ Held(c)
    /\ Status(c) = "absent" <=> ~Queued(c) /\ ~Held(c)
    /\ Status(c) \in {"queued", "waiting", "served", "closing", "absent"}
Places == \A c \in Conns : Place(c)

LEMMA StatusCases == Inv => Places
BY OnePlace DEF Places, Place, Status, Orphaned, Held

LEMMA StatusCasesNext == Inv' => Places'
BY StatusCases, PTL

-----------------------------------------------------------------------------
(* The steps of Dispatcher *)

SameQueue   == \A c \in Conns : Queued(c)' <=> Queued(c)
SameWorkers == \A c \in Conns : worker'[c] # "none" <=> worker[c] # "none"

(* Nothing is opened anew. *)
NoneOpened == \A c \in Conns : Held(c)' => Held(c)

(* Nothing but what waits is let go. *)
WaitersOnly == \A c \in Conns : ~Waiting(c) => (Held(c)' <=> Held(c))

LEMMA DropStep ==
  ASSUME Places, Places', SameQueue, SameWorkers, Listening' = Listening,
         NoneOpened, WaitersOnly,
         \A c \in Conns : Waiting(c)' => Waiting(c)
  PROVE  Promise!Drop
<1> DEFINE S    == {c \in Conns : Waiting(c) /\ ~Waiting(c)'}
           Kept == {c \in S : Held(c)'}
<1>1. S \in SUBSET Promise!In("waiting")
  BY DEF Promise!In, Places, Place
<1>2. \A c \in Conns : Status(c)' = IF c \notin S THEN Status(c)
                                    ELSE IF c \in Kept THEN "closing" ELSE "absent"
  BY DEF Places, Place, SameQueue, SameWorkers, WaitersOnly, NoneOpened
<1>3. [c \in Conns |-> Status(c)]' = Promise!LetGo(S, Kept)
  BY <1>2 DEF Promise!LetGo
<1>4. QED
  BY <1>1, <1>3 DEF Promise!Drop

LEMMA ReleaseStep ==
  ASSUME Places, Places', SameQueue, SameWorkers, Listening' = Listening,
         NoneOpened, \A c \in Conns : Waiting(c)' <=> Waiting(c)
  PROVE  Promise!Release
<1> DEFINE S == {c \in Conns : Status(c) = "closing" /\ ~Held(c)'}
<1>1. S \in SUBSET Promise!In("closing")
  BY DEF Promise!In
<1>2. \A c \in Conns : Status(c)' = IF c \notin S THEN Status(c) ELSE "absent"
  BY DEF Places, Place, SameQueue, SameWorkers, NoneOpened
<1>3. [c \in Conns |-> Status(c)]' = Promise!LetGo(S, {})
  BY <1>2 DEF Promise!LetGo
<1>4. QED
  BY <1>1, <1>3 DEF Promise!Release

LEMMA ShutdownStep ==
  ASSUME Places, Places', SameWorkers, NoneOpened, Listening, Listening' \in BOOLEAN,
         \A c \in Conns : ~Waiting(c)',
         Listening' => SameQueue,
         ~Listening' => \A c \in Conns : ~Queued(c)'
  PROVE  Promise!Shutdown
<1> DEFINE Kept == {c \in Promise!In("waiting") : Held(c)'}
           Left == {c \in Promise!In("closing") : Held(c)'}
<1>1. \A c \in Conns :
         /\ c \in Promise!In("queued") <=> Status(c) = "queued"
         /\ c \in Promise!In("waiting") <=> Status(c) = "waiting"
         /\ c \in Promise!In("closing") <=> Status(c) = "closing"
         /\ c \in Kept \cup Left <=> Status(c) \in {"waiting", "closing"} /\ Held(c)'
  BY DEF Promise!In
<1>2. Kept \in SUBSET Promise!In("waiting") /\ Left \in SUBSET Promise!In("closing")
  OBVIOUS
<1>3. CASE Listening'
  <2>1. \A c \in Conns : Status(c)' = IF Status(c) \notin {"waiting", "closing"}
                                      THEN Status(c)
                                      ELSE IF Held(c)' THEN "closing" ELSE "absent"
    BY <1>3 DEF Places, Place, SameQueue, SameWorkers, NoneOpened
  <2>2. [c \in Conns |-> Status(c)]'
           = Promise!LetGo(Promise!In("waiting") \cup Promise!In("closing"),
                           Kept \cup Left)
    BY <1>1, <2>1 DEF Promise!LetGo
  <2>3. QED
    BY <1>2, <1>3, <2>2 DEF Promise!Shutdown
<1>4. CASE ~Listening'
  <2>1. \A c \in Conns : Status(c)' = IF Status(c) \notin {"queued", "waiting", "closing"}
                                      THEN Status(c)
                                      ELSE IF Status(c) # "queued" /\ Held(c)'
                                      THEN "closing" ELSE "absent"
    BY <1>4 DEF Places, Place, SameWorkers, NoneOpened
  <2>2. [c \in Conns |-> Status(c)]'
           = Promise!LetGo(Promise!In("queued") \cup Promise!In("waiting")
                             \cup Promise!In("closing"), Kept \cup Left)
    BY <1>1, <2>1 DEF Promise!LetGo
  <2>3. Listening' = FALSE
    BY <1>4
  <2>4. QED
    BY <1>2, <2>2, <2>3 DEF Promise!Shutdown
<1>5. QED
  BY <1>3, <1>4

(* A single connection moves. *)
Moves(c, s) == Status(c)' = s /\ \A d \in Conns \ {c} : Status(d)' = Status(d)

LEMMA MoveStep ==
  ASSUME NEW c \in Conns, NEW s, Moves(c, s)
  PROVE  [d \in Conns |-> Status(d)]' = Promise!To({c}, s)
BY DEF Moves, Promise!To

(* A step that moves nothing. *)
LEMMA StutterStep ==
  ASSUME Places, Places', SameQueue, SameWorkers, Listening' = Listening,
         \A c \in Conns : (Waiting(c)' <=> Waiting(c)) /\ (Held(c)' <=> Held(c))
  PROVE  UNCHANGED Promise!vars
<1>1. \A c \in Conns : Status(c)' = Status(c)
  BY DEF Places, Place, SameQueue, SameWorkers
<1>2. [c \in Conns |-> Status(c)]' = [c \in Conns |-> Status(c)]
  BY <1>1
<1>3. QED
  BY <1>2 DEF Promise!vars

-----------------------------------------------------------------------------
(* Queues that lose one connection *)

Occurs(q, d) == \E n \in DOMAIN q : q[n] = d

LEMMA RemovedOnly ==
  ASSUME NEW q \in Seq(Conns), IsInjective(q), NEW k \in DOMAIN q, NEW d
  PROVE  Occurs(RemoveAt(q, k), d) <=> Occurs(q, d) /\ d # q[k]
<1>1. /\ Len(q) \in Nat /\ DOMAIN q = 1 .. Len(q) /\ k \in 1 .. Len(q)
      /\ DOMAIN RemoveAt(q, k) = 1 .. (Len(q) - 1)
      /\ \A n \in 1 .. (Len(q) - 1) :
            RemoveAt(q, k)[n] = IF n < k THEN q[n] ELSE q[n + 1]
  BY LenProperties, RemoveAtEntries
<1>2. \A n \in 1 .. Len(q) : n # k =>
         \E m \in 1 .. (Len(q) - 1) : q[n] = RemoveAt(q, k)[m]
  <2>1. TAKE n \in 1 .. Len(q)
  <2>2. CASE n < k
    BY <1>1, <2>2
  <2>3. CASE n > k
    <3>1. n - 1 \in 1 .. (Len(q) - 1) /\ ~(n - 1 < k) /\ (n - 1) + 1 = n
      BY <1>1, <2>3
    <3>2. QED
      BY <1>1, <3>1
  <2>4. QED
    BY <1>1, <2>2, <2>3
<1>3. \A n \in 1 .. (Len(q) - 1) : \E m \in 1 .. Len(q) :
         m # k /\ RemoveAt(q, k)[n] = q[m]
  BY <1>1
<1>4. \A m, n \in 1 .. Len(q) : q[m] = q[n] => m = n
  BY <1>1 DEF IsInjective
<1>5. ASSUME NEW n \in 1 .. (Len(q) - 1), RemoveAt(q, k)[n] = d
      PROVE  (\E m \in 1 .. Len(q) : q[m] = d) /\ d # q[k]
  BY <1>1, <1>3, <1>4, <1>5
<1>6. ASSUME NEW n \in 1 .. Len(q), q[n] = d, d # q[k]
      PROVE  \E m \in 1 .. (Len(q) - 1) : RemoveAt(q, k)[m] = d
  BY <1>2, <1>6
<1>7. QED
  BY <1>1, <1>5, <1>6 DEF Occurs

LEMMA TailOnly ==
  ASSUME NEW q \in Seq(Conns), q # <<>>, IsInjective(q), NEW d
  PROVE  Occurs(Tail(q), d) <=> Occurs(q, d) /\ d # Head(q)
<1>1. /\ Len(q) \in Nat \ {0} /\ DOMAIN q = 1 .. Len(q)
      /\ Head(q) = q[1]
      /\ DOMAIN Tail(q) = 1 .. (Len(q) - 1)
      /\ \A n \in 1 .. (Len(q) - 1) : Tail(q)[n] = q[n + 1]
  BY EmptySeq, LenProperties, HeadTailProperties
<1>2. \A n \in 1 .. Len(q) : n # 1 =>
         n - 1 \in 1 .. (Len(q) - 1) /\ Tail(q)[n - 1] = q[n]
  BY <1>1
<1>3. \A n \in 1 .. (Len(q) - 1) : n + 1 \in 1 .. Len(q) /\ n + 1 # 1
  BY <1>1
<1>4. \A m, n \in 1 .. Len(q) : q[m] = q[n] => m = n
  BY <1>1 DEF IsInjective
<1>5. ASSUME NEW n \in 1 .. (Len(q) - 1), Tail(q)[n] = d
      PROVE  (\E m \in 1 .. Len(q) : q[m] = d) /\ d # q[1]
  <2>1. 1 \in 1 .. Len(q) /\ q[n + 1] = d
    BY <1>1, <1>5
  <2>2. QED
    BY <1>3, <1>4, <2>1
<1>6. ASSUME NEW n \in 1 .. Len(q), q[n] = d, d # q[1]
      PROVE  \E m \in 1 .. (Len(q) - 1) : Tail(q)[m] = d
  BY <1>2, <1>6
<1>7. QED
  BY <1>1, <1>5, <1>6 DEF Occurs

LEMMA HeadQueued ==
  ASSUME backlog \in Seq(Conns), backlog # <<>>
  PROVE  Head(backlog) \in Conns /\ Queued(Head(backlog))
<1>1. 1 \in DOMAIN backlog /\ Head(backlog) = backlog[1] /\ Head(backlog) \in Conns
  BY EmptySeq, LenProperties, HeadTailProperties
<1>2. QED
  BY <1>1 DEF Queued

-----------------------------------------------------------------------------
(* How many queue and wait *)

(* The library's operator, as Dispatcher sees it. *)
LEMMA SameCardinality == \A S : Promise!Cardinality(S) = Cardinality(S)
BY DEF Promise!Cardinality, Cardinality

LEMMA QueueCount ==
  ASSUME Inv
  PROVE  /\ IsFiniteSet(Promise!In("queued"))
         /\ Cardinality(Promise!In("queued")) <= Len(backlog)
<1> DEFINE Q == Promise!In("queued")
           f == [n \in 1 .. Len(backlog) |-> backlog[n]]
<1>1. backlog \in Seq(Conns) /\ Len(backlog) \in Nat /\ DOMAIN backlog = 1 .. Len(backlog)
  BY LenProperties DEF Inv, TypeOK
<1>2. Q = {c \in Conns : Queued(c)}
  BY StatusCases DEF Promise!In, Places, Place
<1>3. f \in Surjection(1 .. Len(backlog), Q)
  BY <1>1, <1>2 DEF Queued, Surjection
<1>4. IsFiniteSet(1 .. Len(backlog)) /\ Cardinality(1 .. Len(backlog)) = Len(backlog)
  BY <1>1, FS_Interval
<1>5. QED
  BY <1>3, <1>4, FS_Surjection

LEMMA SlotsCount == IsFiniteSet(Slots) /\ Cardinality(Slots) = MAX_DESCRIPTORS
BY FS_Interval, LimitsAssumption DEF Slots

LEMMA WaitingCount ==
  ASSUME Inv, EntriesOpen
  PROVE  /\ FreeSlots = {} => Cardinality(Promise!In("waiting")) = MAX_DESCRIPTORS
         /\ FreeSlots # {} => Cardinality(Promise!In("waiting")) < MAX_DESCRIPTORS
<1> USE ConstantTypes
<1> DEFINE W    == Promise!In("waiting")
           Used == Slots \ FreeSlots
           f    == [s \in Used |-> files[Server][descriptors[Server][s]]]
<1>1. W = {c \in Conns : Waiting(c)}
  BY StatusCases DEF Promise!In, Places, Place
<1>2. \A s \in Used : descriptors[Server][s] \in Fds
  BY DEF FreeSlots, Inv, TypeOK
<1>3. f \in Surjection(Used, W)
  BY <1>1, <1>2 DEF FreeSlots, EntriesOpen, Waiting, Surjection
<1>4. f \in Injection(Used, W)
  <2>1. OneSlotEach /\ OneFdEach
    BY DEF Inv, TableInv, ConnInv
  <2>2. \A s \in Used : files[Server][descriptors[Server][s]] \in Conns
    BY <1>2 DEF FreeSlots, EntriesOpen
  <2>3. ASSUME NEW s \in Used, NEW t \in Used, f[s] = f[t]
        PROVE  s = t
    <3>1. descriptors[Server][s] = descriptors[Server][t]
      BY <1>2, <2>1, <2>2, <2>3 DEF OneFdEach
    <3>2. QED
      BY <2>1, <3>1 DEF OneSlotEach, FreeSlots
  <2>4. QED
    BY <1>3, <2>3 DEF Injection, IsInjective, Surjection
<1>5. IsFiniteSet(Used) /\ Used \in SUBSET Slots /\ Cardinality(Used) <= MAX_DESCRIPTORS
      /\ (Cardinality(Used) = MAX_DESCRIPTORS => Used = Slots)
      /\ Cardinality(Used) \in Nat
  BY SlotsCount, FS_Subset, FS_CardinalityType
<1>6. Cardinality(W) = Cardinality(Used)
  BY <1>3, <1>4, <1>5, FS_Surjection
<1>7. FreeSlots \subseteq Slots
  BY DEF FreeSlots
<1>8. CASE FreeSlots = {}
  BY <1>6, <1>8, SlotsCount
<1>9. CASE FreeSlots # {}
  BY <1>5, <1>6, <1>7, <1>9, LimitsAssumption
<1>10. QED
  BY <1>8, <1>9

-----------------------------------------------------------------------------
(* Every step of the dispatcher is one of Dispatcher, or none. *)

(* Outside of a handover all the server has open waits. *)
LEMMA ServerHoldsWaiting ==
  ASSUME Inv, NEW c \in Conns, Holds(Server, c), pc # "close"
  PROVE  Waiting(c)
BY DEF Inv, TableInv, NoLeak, Holds, TableFds, Waiting

(* What may change when the server alone closes something. *)
LEMMA ServerCloses ==
  ASSUME TypeOK, NEW g, files' = [files EXCEPT ![Server] = g],
         \A f \in Fds : g[f] = files[Server][f] \/ g[f] = None
  PROVE  /\ NoneOpened
         /\ \A c \in Conns : Held(c) /\ ~Held(c)' => Holds(Server, c)
<1> USE ConstantTypes
<1>1. \A p \in Procs : files'[p] = IF p = Server THEN g ELSE files[p]
  BY DEF TypeOK
<1>2. \A c \in Conns : \A p \in Procs : Holds(p, c)' => Holds(p, c)
  BY <1>1 DEF Holds
<1>3. \A c \in Conns : \A p \in Procs \ {Server} : Holds(p, c) => Holds(p, c)'
  BY <1>1 DEF Holds
<1>4. QED
  BY <1>2, <1>3 DEF NoneOpened, Held

LEMMA QueueStays == ASSUME backlog' = backlog PROVE SameQueue
BY DEF SameQueue, Queued

LEMMA WorkersStay == ASSUME worker' = worker PROVE SameWorkers
BY DEF SameWorkers

LEMMA StepDrops ==
  ASSUME Inv, Inv', InitDescriptorSet \/ ScanExpired
  PROVE  Promise!Drop
<1> USE ConstantTypes DEF loopVars, tableVars, kernelVars
<1>0. TypeOK /\ TableInv /\ TypeOK' /\ TableInv'
  BY DEF Inv
<1>1. Places /\ Places'
  BY StatusCases, StatusCasesNext
<1>2. /\ pc \in {"loop", "scan"} /\ pc' \notin {"stopped", "panic"}
      /\ backlog' = backlog /\ worker' = worker
      /\ \E F \in SUBSET Fds : files' = [files EXCEPT ![Server] = Closed(Server, F)]
  <2>1. CASE InitDescriptorSet
    <3>1. {descriptors[Server][s] : s \in {t \in Slots : Expired(t, now)}} \in SUBSET Fds
      BY <1>0 DEF Expired, TypeOK
    <3>2. QED
      BY <2>1, <3>1 DEF InitDescriptorSet, PurgeAndWatch
  <2>2. CASE ScanExpired
    <3>1. {descriptors[Server][i]} \in SUBSET Fds
      BY <1>0, <2>2 DEF ScanExpired, Expired, TypeOK
    <3>2. QED
      BY <2>2, <3>1 DEF ScanExpired, NextSlot
  <2>3. QED
    BY <2>1, <2>2
<1>3. Listening /\ Listening'
  BY <1>0, <1>2, ServerListens, ServerListensNext
<1>4. NoneOpened /\ \A c \in Conns : Held(c) /\ ~Held(c)' => Holds(Server, c)
  BY <1>0, <1>2, ServerCloses DEF Closed
<1>5. WaitersOnly
  BY <1>2, <1>4, ServerHoldsWaiting DEF WaitersOnly, NoneOpened
<1>6. \A s \in Slots : descriptors'[Server][s] \in {descriptors[Server][s], Empty}
  BY <1>0 DEF InitDescriptorSet, PurgeAndWatch, ScanExpired, ClearSlot, TypeOK
<1>7. \A f \in Fds : \A c \in Conns : files'[Server][f] = c => files[Server][f] = c
  BY <1>0, <1>2 DEF Closed, TypeOK
<1>8. \A c \in Conns : Waiting(c)' => Waiting(c)
  <2>1. \A s \in Slots : descriptors'[Server][s] \in Fds \cup {Empty}
    BY <1>0 DEF TypeOK
  <2>2. QED
    BY <1>6, <1>7, <2>1 DEF Waiting
<1>9. QED
  BY <1>1, <1>2, <1>3, <1>4, <1>5, <1>8, DropStep, QueueStays, WorkersStay

LEMMA StepEnds ==
  ASSUME Inv, Inv', EndInv, EndInv', StopListening \/ SelectPanics \/ ScanAborts
  PROVE  Promise!Shutdown
<1> USE ConstantTypes DEF loopVars, tableVars, kernelVars
<1>0. TypeOK /\ TableInv /\ TypeOK'
  BY DEF Inv
<1>1. Places /\ Places'
  BY StatusCases, StatusCasesNext
<1>2. /\ pc \in {"loop", "select", "scan"} /\ pc' \in {"stopped", "panic"}
      /\ KernelQueue(backlog) /\ worker' = worker
      /\ \E F \in SUBSET Fds : files' = [files EXCEPT ![Server] = Closed(Server, F)]
  <2>1. CASE StopListening
    <3>1. ToClose(Server) \in SUBSET Fds
      BY <1>0 DEF ToClose, TableFds, TypeOK
    <3>2. QED
      BY <2>1, <3>1 DEF StopListening, CloseDescriptors
  <2>2. CASE SelectPanics \/ ScanAborts
    <3>1. [f \in Fds |-> None] = Closed(Server, Fds)
      BY DEF Closed
    <3>2. QED
      BY <2>2, <3>1 DEF SelectPanics, ScanAborts, Exit
  <2>3. QED
    BY <2>1, <2>2
<1>3. Listening /\ Listening' \in BOOLEAN
  BY <1>0, <1>2, ServerListens DEF Listening
<1>4. NoneOpened
  BY <1>0, <1>2, ServerCloses DEF Closed
<1>5. \A c \in Conns : ~Waiting(c)'
  <2>1. \A s \in Slots : descriptors'[Server][s] \in Fds \cup {Empty}
    BY <1>0 DEF TypeOK
  <2>2. QED
    BY <1>2, <2>1 DEF EndInv, Waiting, Holds
<1>6. Listening' => SameQueue
  BY <1>2, QueueStays DEF KernelQueue
<1>7. ~Listening' => \A c \in Conns : ~Queued(c)'
  BY <1>2 DEF KernelQueue, Queued
<1>8. QED
  BY <1>1, <1>2, <1>3, <1>4, <1>5, <1>6, <1>7, ShutdownStep, WorkersStay

(* Steps of the server, the clients and the clock that move no connection. *)
LEMMA StepSilent ==
  ASSUME Inv, Inv', UNCHANGED <<files, descriptors, backlog, worker>>
  PROVE  UNCHANGED Promise!vars
<1>1. Places /\ Places'
  BY StatusCases, StatusCasesNext
<1>2. Listening' = Listening
  BY DEF Listening, Holds
<1>3. \A c \in Conns : (Waiting(c)' <=> Waiting(c)) /\ (Held(c)' <=> Held(c))
  BY DEF Waiting, Held, Holds
<1>4. QED
  BY <1>1, <1>2, <1>3, StutterStep, QueueStays, WorkersStay

(* A worker takes over what its entry let wait; if fork() failed nobody    *)
(* does, and the connection is about to be closed.                         *)
LEMMA StepHandsOver ==
  ASSUME Inv, Inv', ScanReady
  PROVE  (\E c \in Conns : Promise!Serve(c)) \/ Promise!Drop
<1> USE ConstantTypes DEF loopVars, tableVars, kernelVars
<1>0. TypeOK /\ TableInv /\ ConnInv /\ TypeOK' /\ TableInv'
  BY DEF Inv
<1>1. Places /\ Places'
  BY StatusCases, StatusCasesNext
<1>2. /\ pc = "scan" /\ pc' = "close" /\ backlog' = backlog
      /\ readySocket' = descriptors[Server][i] /\ i \in Slots
      /\ descriptors[Server][i] \in Fds
      /\ descriptors[Server] \in [Slots -> Fds \cup {Empty}]
  BY <1>0 DEF ScanReady, TypeOK
<1>3. Listening /\ Listening'
  BY <1>0, <1>2, ServerListens, ServerListensNext
<1>4. descriptors'[Server] = Cleared /\ files'[Server] = files[Server]
  BY <1>0, ScanReadyEffect DEF TypeOK
<1>5. \A c \in Conns : Waiting(c)' <=>
         \E s \in Slots \ {i} : /\ descriptors[Server][s] # Empty
                               /\ files[Server][descriptors[Server][s]] = c
  BY <1>2, <1>4 DEF Waiting, Cleared
<1>6. CASE files' = files /\ worker' = worker
  <2>1. \A c \in Conns : Held(c)' <=> Held(c)
    BY <1>6 DEF Held, Holds
  <2>2. NoneOpened /\ WaitersOnly
    BY <2>1 DEF NoneOpened, WaitersOnly
  <2>3. \A c \in Conns : Waiting(c)' => Waiting(c)
    BY <1>5 DEF Waiting
  <2>4. QED
    BY <1>1, <1>2, <1>3, <1>6, <2>2, <2>3, DropStep, QueueStays, WorkersStay
<1>7. ASSUME NEW c \in Conns, files[Server][readySocket'] = c,
             files' = [files EXCEPT ![c] = files[Server]],
             worker' = [worker EXCEPT ![c] = "forked"]
      PROVE  Promise!Serve(c)
  <2>1. Waiting(c)
    BY <1>2, <1>7 DEF Waiting
  <2>2. worker[c] = "none" /\ \A f \in Fds : files[c][f] = None
    BY <1>0, <2>1, OnePlace DEF ConnInv, NoWorkerNoFiles
  <2>3. Status(c) = "waiting" /\ Status(c)' = "served"
    BY <1>0, <1>1, <1>7, <2>1 DEF Places, Place, TypeOK
  <2>4. ASSUME NEW d \in Conns \ {c}
        PROVE  Status(d)' = Status(d)
    <3>1. Waiting(d)' <=> Waiting(d)
      BY <1>2, <1>5, <1>7 DEF Waiting
    <3>2. \A p \in Procs \ {c} : Holds(p, d)' <=> Holds(p, d)
      BY <1>0, <1>7 DEF Holds, TypeOK
    <3>3. ~Holds(c, d) /\ (Holds(c, d)' <=> Holds(Server, d))
      BY <1>0, <1>7, <2>2 DEF Holds, TypeOK
    <3>4. Held(d)' <=> Held(d)
      BY <3>2, <3>3 DEF Held
    <3>5. worker'[d] = worker[d] /\ (Queued(d)' <=> Queued(d))
      BY <1>0, <1>2, <1>7 DEF TypeOK, Queued
    <3>6. QED
      BY <1>1, <3>1, <3>4, <3>5 DEF Places, Place
  <2>5. [d \in Conns |-> Status(d)]' = Promise!To({c}, "served")
    BY <2>3, <2>4, MoveStep DEF Moves
  <2>6. Listening' = Listening
    BY <1>3 DEF Listening
  <2>7. QED
    BY <2>3, <2>5, <2>6 DEF Promise!Serve
<1>8. QED
  BY <1>6, <1>7, ScanReadyEffect, <1>0

LEMMA StepCloses ==
  ASSUME Inv, Inv', CloseReadySocket
  PROVE  Promise!Release
<1> USE ConstantTypes DEF loopVars, tableVars, kernelVars
<1>0. TypeOK /\ TableInv /\ TypeOK' /\ TableInv'
  BY DEF Inv
<1>1. Places /\ Places'
  BY StatusCases, StatusCasesNext
<1>2. /\ pc = "close" /\ pc' \notin {"stopped", "panic"}
      /\ files' = [files EXCEPT ![Server] = Closed(Server, {readySocket})]
      /\ UNCHANGED <<backlog, worker, descriptors>>
  BY DEF CloseReadySocket, HandedOver, NextSlot
<1>3. Listening /\ Listening'
  BY <1>0, <1>2, ServerListens, ServerListensNext
<1>4. NoneOpened
  BY <1>0, <1>2, ServerCloses DEF Closed
<1>5. \A s \in Slots : descriptors[Server][s] # Empty =>
         files'[Server][descriptors[Server][s]] = files[Server][descriptors[Server][s]]
  BY <1>0, <1>2 DEF TableInv, TableFds, Closed, TypeOK
<1>6. \A c \in Conns : Waiting(c)' <=> Waiting(c)
  BY <1>2, <1>5 DEF Waiting
<1>7. QED
  BY <1>1, <1>2, <1>3, <1>4, <1>6, ReleaseStep, QueueStays, WorkersStay

LEMMA StepFinishes ==
  ASSUME Inv, Inv', EndInv, NEW c \in Conns, WorkerExit(c)
  PROVE  Promise!Finish(c)
<1> USE ConstantTypes DEF loopVars, tableVars, kernelVars
<1>0. TypeOK /\ TableInv /\ ConnInv /\ TypeOK'
  BY DEF Inv
<1>1. Places /\ Places'
  BY StatusCases, StatusCasesNext
<1>2. /\ worker[c] = "serving" /\ worker' = [worker EXCEPT ![c] = "none"]
      /\ files' = [files EXCEPT ![c] = [f \in Fds |-> None]]
      /\ KernelQueue(backlog) /\ descriptors' = descriptors
  BY DEF WorkerExit, Exit
<1>3. \A f \in Fds : files[c][f] \in {c, None}
  BY <1>0, <1>2 DEF ConnInv, WorkerIsolation
<1>4. \A p \in Procs : \A k : k \notin {c, None} => (Holds(p, k)' <=> Holds(p, k))
  BY <1>0, <1>2, <1>3 DEF Holds, TypeOK
<1>5. Listening' = Listening
  BY <1>4 DEF Listening
<1>6. backlog' = backlog
  BY <1>2, <1>5 DEF KernelQueue, EndInv
<1>7. ~Waiting(c) /\ ~Queued(c)
  BY <1>2, OnePlace
<1>8. \A d \in Conns : Waiting(d)' <=> Waiting(d)
  BY <1>0, <1>2 DEF Waiting, TypeOK
<1>9. Status(c) = "served" /\ Status(c)' \in {"closing", "absent"}
  BY <1>0, <1>1, <1>2, <1>6, <1>7, <1>8, QueueStays DEF Places, Place, SameQueue, TypeOK
<1>10. ASSUME NEW d \in Conns \ {c}
       PROVE  Status(d)' = Status(d)
  <2>1. Held(d)' <=> Held(d)
    BY <1>4 DEF Held
  <2>2. worker'[d] = worker[d] /\ (Queued(d)' <=> Queued(d))
    BY <1>0, <1>2, <1>6 DEF TypeOK, Queued
  <2>3. QED
    BY <1>1, <1>8, <2>1, <2>2 DEF Places, Place
<1>11. [d \in Conns |-> Status(d)]' = Promise!To({c}, Status(c)')
  BY <1>10, MoveStep DEF Moves
<1>12. QED
  BY <1>5, <1>9, <1>11 DEF Promise!Finish

(* A worker closes its copies; with the last copy of the listener the queue *)
(* goes, which was all the server had left behind.                         *)
LEMMA StepClosesCopies ==
  ASSUME Inv, Inv', EndInv, EndInv', NEW c \in Conns, CloseInherited(c)
  PROVE  Promise!Release \/ Promise!Shutdown
<1> USE ConstantTypes DEF loopVars, tableVars, kernelVars
<1>0. TypeOK /\ TableInv /\ ConnInv /\ TypeOK'
  BY DEF Inv
<1>1. Places /\ Places'
  BY StatusCases, StatusCasesNext
<1>2. /\ worker[c] = "forked" /\ worker' = [worker EXCEPT ![c] = "serving"]
      /\ files' = [files EXCEPT ![c] = Closed(c, ToClose(c))]
      /\ KernelQueue(backlog) /\ pc' = pc
      /\ descriptors'[Server] = descriptors[Server]
  BY <1>0 DEF CloseInherited, CloseDescriptors, TypeOK
<1>3. \A p \in Procs : \A k : k # None => (Holds(p, k)' => Holds(p, k))
  BY <1>0, <1>2 DEF Holds, Closed, TypeOK
<1>4. NoneOpened
  BY <1>3 DEF NoneOpened, Held
<1>5. SameWorkers
  BY <1>0, <1>2 DEF SameWorkers, TypeOK
<1>6. \A d \in Conns : Waiting(d)' <=> Waiting(d)
  BY <1>0, <1>2 DEF Waiting, TypeOK
<1>7. CASE Listening' = Listening
  <2>1. backlog' = backlog
    BY <1>2, <1>7 DEF KernelQueue, EndInv
  <2>2. QED
    BY <1>1, <1>4, <1>5, <1>6, <1>7, <2>1, ReleaseStep, QueueStays
<1>8. CASE ~(Listening' = Listening)
  <2>1. Listening /\ ~Listening'
    BY <1>3, <1>8 DEF Listening
  <2>2. pc \in {"stopped", "panic"}
    BY <1>0, <1>2, <2>1 DEF TableInv, Listening, Holds, TypeOK
  <2>3. \A d \in Conns : ~Waiting(d)'
    BY <1>6, <2>2, OnePlace DEF EndInv
  <2>4. \A d \in Conns : ~Queued(d)'
    BY <1>2, <2>1 DEF KernelQueue, Queued
  <2>5. Listening' \in BOOLEAN
    BY DEF Listening
  <2>6. QED
    BY <1>1, <1>4, <1>5, <2>1, <2>3, <2>4, <2>5, ShutdownStep
<1>9. QED
  BY <1>7, <1>8

LEMMA StepConnects ==
  ASSUME Inv, Inv', NEW c \in Conns, Connect(c)
  PROVE  Promise!Connect(c)
<1> USE ConstantTypes DEF loopVars, tableVars, kernelVars
<1>0. TypeOK
  BY DEF Inv
<1>1. Places /\ Places'
  BY StatusCases, StatusCasesNext
<1>2. /\ Listening /\ Len(backlog) < MAX_PENDING_REQUESTS
      /\ ~Queued(c) /\ ~Held(c) /\ backlog' = Append(backlog, c)
      /\ UNCHANGED <<files, descriptors, worker>>
  BY DEF Connect, Held
<1>3. \A d \in Conns : Queued(d)' <=> Queued(d) \/ d = c
  <2>1. /\ Len(backlog) \in Nat /\ DOMAIN backlog = 1 .. Len(backlog)
        /\ DOMAIN Append(backlog, c) = 1 .. (Len(backlog) + 1)
        /\ \A n \in 1 .. Len(backlog) : Append(backlog, c)[n] = backlog[n]
        /\ Append(backlog, c)[Len(backlog) + 1] = c
    BY <1>0, LenProperties, AppendProperties DEF TypeOK
  <2>2. QED
    BY <1>2, <2>1 DEF Queued
<1>4. \A d \in Conns : (Waiting(d)' <=> Waiting(d)) /\ (Held(d)' <=> Held(d))
  BY <1>2 DEF Waiting, Held, Holds
<1>5. Status(c) = "absent" /\ Moves(c, "queued")
  BY <1>1, <1>2, <1>3, <1>4 DEF Places, Place, Moves
<1>6. Cardinality(Promise!In("queued")) < MAX_PENDING_REQUESTS
  <2>1. Cardinality(Promise!In("queued")) <= Len(backlog)
    BY QueueCount
  <2>2. Len(backlog) \in Nat /\ Cardinality(Promise!In("queued")) \in Nat
    BY <1>0, QueueCount, LenProperties, FS_CardinalityType DEF TypeOK
  <2>3. QED
    BY <1>2, <2>1, <2>2, LimitsAssumption
<1>7. Listening' = Listening
  BY <1>2 DEF Listening, Holds
<1>8. [d \in Conns |-> Status(d)]' = Promise!To({c}, "queued")
  BY <1>5, MoveStep
<1>9. QED
  BY <1>2, <1>5, <1>6, <1>7, <1>8, SameCardinality DEF Promise!Connect

(* A connection leaves the queue for nowhere. *)
LEMMA QueueLosesOne ==
  ASSUME Inv, Inv', NEW c \in Conns, Queued(c), UNCHANGED worker,
         \A d \in Conns : Queued(d)' <=> Queued(d) /\ d # c,
         \A d \in Conns : (Waiting(d)' <=> Waiting(d)) /\ (Held(d)' <=> Held(d))
  PROVE  Status(c) = "queued" /\ Moves(c, "absent")
<1>1. Places /\ Places'
  BY StatusCases, StatusCasesNext
<1>2. ~Held(c)
  BY OnePlace
<1>3. QED
  BY <1>1, <1>2 DEF Places, Place, Moves

LEMMA StepAborts ==
  ASSUME Inv, Inv', NEW c \in Conns, Abort(c)
  PROVE  Promise!Refuse(c)
<1> USE DEF loopVars, tableVars, kernelVars
<1>1. backlog \in Seq(Conns) /\ IsInjective(backlog)
  BY DEF Inv, TypeOK, ConnInv, QueuedOnce
<1>2. PICK k \in DOMAIN backlog : backlog[k] = c /\ backlog' = RemoveAt(backlog, k)
  BY DEF Abort
<1>3. Queued(c) /\ UNCHANGED <<files, descriptors, worker>> /\ AbortDrops
  BY <1>2 DEF Abort, Queued
<1>4. ASSUME NEW d \in Conns
      PROVE  Queued(d)' <=> Queued(d) /\ d # c
  <2>1. Occurs(RemoveAt(backlog, k), d) <=> Occurs(backlog, d) /\ d # backlog[k]
    BY <1>1, RemovedOnly
  <2>2. QED
    BY <1>2, <2>1 DEF Queued, Occurs
<1>5. \A d \in Conns : (Waiting(d)' <=> Waiting(d)) /\ (Held(d)' <=> Held(d))
  BY <1>3 DEF Waiting, Held, Holds
<1>6. Listening' = Listening
  BY <1>3 DEF Listening, Holds
<1>7. Status(c) = "queued" /\ Moves(c, "absent")
  BY <1>3, <1>4, <1>5, QueueLosesOne
<1>8. [d \in Conns |-> Status(d)]' = Promise!To({c}, "absent")
  BY <1>7, MoveStep
<1>9. QED
  BY <1>3, <1>6, <1>7, <1>8 DEF Promise!Refuse

LEMMA StepAcceptFails ==
  ASSUME Inv, Inv', AcceptFails
  PROVE  (\E c \in Conns : Promise!Refuse(c)) \/ UNCHANGED Promise!vars
<1> USE DEF loopVars, tableVars, kernelVars
<1>1. /\ backlog \in Seq(Conns) /\ IsInjective(backlog) /\ backlog # <<>>
      /\ UNCHANGED <<files, descriptors, worker>>
  BY DEF Inv, TypeOK, ConnInv, QueuedOnce, AcceptFails
<1>2. CASE backlog' = backlog
  BY <1>1, <1>2, StepSilent
<1>3. CASE backlog' # backlog
  <2>1. backlog' = Tail(backlog) /\ "accept" \in Faults
    BY <1>3 DEF AcceptFails
  <2>2. PICK c \in Conns : c = Head(backlog) /\ Queued(c)
    BY <1>1, HeadQueued
  <2>3. ASSUME NEW d \in Conns
        PROVE  Queued(d)' <=> Queued(d) /\ d # c
    <3>1. Occurs(Tail(backlog), d) <=> Occurs(backlog, d) /\ d # c
      BY <1>1, <2>2, TailOnly
    <3>2. QED
      BY <2>1, <3>1 DEF Queued, Occurs
  <2>4. \A d \in Conns : (Waiting(d)' <=> Waiting(d)) /\ (Held(d)' <=> Held(d))
    BY <1>1 DEF Waiting, Held, Holds
  <2>5. Listening' = Listening
    BY <1>1 DEF Listening, Holds
  <2>6. Status(c) = "queued" /\ Moves(c, "absent")
    BY <1>1, <2>2, <2>3, <2>4, QueueLosesOne
  <2>7. [d \in Conns |-> Status(d)]' = Promise!To({c}, "absent")
    BY <2>2, <2>6, MoveStep
  <2>8. QED
    BY <2>1, <2>2, <2>5, <2>6, <2>7 DEF Promise!Refuse
<1>4. QED
  BY <1>2, <1>3

(* The oldest connection of the queue waits from now on, or is closed at   *)
(* once.                                                                   *)
LEMMA StepAccepts ==
  ASSUME Inv, Inv', Accept
  PROVE  \E c \in Conns : Promise!Accept(c) \/ Promise!Refuse(c)
<1> USE ConstantTypes DEF loopVars, tableVars, kernelVars
<1>0. TypeOK /\ TableInv /\ ConnInv /\ TypeOK' /\ TableInv'
  BY DEF Inv
<1>1. Places /\ Places'
  BY StatusCases, StatusCasesNext
<1>2. /\ pc = "accept" /\ pc' = "loop" /\ backlog # <<>> /\ worker' = worker
      /\ backlog \in Seq(Conns) /\ IsInjective(backlog) /\ EntriesOpen
  BY <1>0 DEF Accept, TypeOK, ConnInv, QueuedOnce, TableInv
<1>3. Listening /\ Listening'
  BY <1>0, <1>2, ServerListens, ServerListensNext
<1>4. backlog' = Tail(backlog)
  BY <1>3 DEF Accept, KernelQueue
<1>5. PICK c \in Conns : c = Head(backlog) /\ Queued(c)
  BY <1>2, HeadQueued
<1>6. PICK fd \in FreeFds :
         \E kept \in BOOLEAN :
            /\ kept \/ "setsockopt" \in Faults
            /\ files' = [files EXCEPT ![Server][fd] =
                           IF kept /\ FreeSlots # {} THEN c ELSE None]
            /\ \/ \E s \in FreeSlots : InsertDescriptor(fd, s)
               \/ FreeSlots = {} /\ UNCHANGED <<descriptors, timeoutEpocs>>
  BY <1>5 DEF Accept, Lowest
<1>7. fd \in Fds /\ files[Server][fd] = None
  BY <1>6 DEF FreeFds
<1>8. \A s \in Slots : descriptors[Server][s] # Empty =>
         /\ descriptors[Server][s] \in Fds \ {fd}
         /\ files'[Server][descriptors[Server][s]] = files[Server][descriptors[Server][s]]
  <2>1. \A f \in Fds \ {fd} : files'[Server][f] = files[Server][f]
    BY <1>0, <1>6 DEF TypeOK
  <2>2. \A s \in Slots : descriptors[Server][s] # Empty =>
           /\ descriptors[Server][s] \in Fds
           /\ files[Server][descriptors[Server][s]] # None
    BY <1>0, <1>2 DEF EntriesOpen, TypeOK
  <2>3. QED
    BY <1>7, <2>1, <2>2
<1>9. ASSUME NEW d \in Conns
      PROVE  Queued(d)' <=> Queued(d) /\ d # c
  <2>1. Occurs(Tail(backlog), d) <=> Occurs(backlog, d) /\ d # c
    BY <1>2, <1>5, TailOnly
  <2>2. QED
    BY <1>4, <2>1 DEF Queued, Occurs
<1>10. ASSUME NEW d \in Conns \ {c}
       PROVE  Held(d)' <=> Held(d)
  <2>1. \A p \in Procs : Holds(p, d)' <=> Holds(p, d)
    BY <1>0, <1>6, <1>7 DEF Holds, TypeOK
  <2>2. QED
    BY <2>1 DEF Held
<1>11. Listening' = Listening
  BY <1>3 DEF Listening
<1>12. CASE files'[Server][fd] = c
  <2>1. FreeSlots # {}
    BY <1>0, <1>5, <1>6, <1>7, <1>12 DEF TypeOK
  <2>2. PICK s \in FreeSlots :
           descriptors'[Server] = [descriptors[Server] EXCEPT ![s] = fd]
    BY <1>0, <1>6, <2>1 DEF InsertDescriptor, TypeOK
  <2>3. descriptors[Server] \in [Slots -> Fds \cup {Empty}] /\ s \in Slots
        /\ descriptors[Server][s] = Empty
    BY <1>0 DEF TypeOK, FreeSlots
  <2>4. Waiting(c)'
    <3>1. descriptors'[Server][s] = fd /\ fd # Empty /\ s \in Slots
      BY <1>7, <2>2, <2>3
    <3>2. QED
      BY <1>12, <3>1 DEF Waiting
  <2>5. \A d \in Conns \ {c} : Waiting(d)' <=> Waiting(d)
    BY <1>7, <1>8, <1>12, <2>2, <2>3 DEF Waiting
  <2>6. Status(c) = "queued" /\ Moves(c, "waiting")
    BY <1>1, <1>2, <1>5, <1>9, <1>10, <2>4, <2>5 DEF Places, Place, Moves
  <2>7. [d \in Conns |-> Status(d)]' = Promise!To({c}, "waiting")
    BY <1>5, <2>6, MoveStep
  <2>8. Cardinality(Promise!In("waiting")) < MAX_DESCRIPTORS
    BY <1>2, <2>1, WaitingCount
  <2>9. QED
    BY <1>5, <1>11, <2>6, <2>7, <2>8, SameCardinality DEF Promise!Accept
<1>13. CASE files'[Server][fd] # c
  <2>1. files' = files
    BY <1>0, <1>6, <1>7, <1>13 DEF TypeOK
  <2>2. \A d \in Conns : Held(d)' <=> Held(d)
    BY <2>1 DEF Held, Holds
  <2>3. \A d \in Conns : Waiting(d)' <=> Waiting(d)
    <3>1. /\ descriptors[Server] \in [Slots -> Fds \cup {Empty}]
          /\ \/ descriptors'[Server] = descriptors[Server]
             \/ \E s \in FreeSlots :
                   descriptors'[Server] = [descriptors[Server] EXCEPT ![s] = fd]
      BY <1>0, <1>6 DEF InsertDescriptor, TypeOK
    <3>2. \A s \in Slots :
             \/ descriptors'[Server][s] = descriptors[Server][s]
             \/ descriptors[Server][s] = Empty /\ descriptors'[Server][s] = fd
      BY <3>1 DEF FreeSlots
    <3>3. QED
      BY <1>7, <2>1, <3>2 DEF Waiting
  <2>4. Status(c) = "queued" /\ Moves(c, "absent")
    BY <1>2, <1>5, <1>9, <2>2, <2>3, QueueLosesOne
  <2>5. [d \in Conns |-> Status(d)]' = Promise!To({c}, "absent")
    BY <1>5, <2>4, MoveStep
  <2>6. \/ "setsockopt" \in Faults
        \/ Cardinality(Promise!In("waiting")) = MAX_DESCRIPTORS
    <3>1. "setsockopt" \in Faults \/ FreeSlots = {}
      BY <1>0, <1>6, <1>7, <1>13 DEF TypeOK
    <3>2. QED
      BY <1>2, <3>1, WaitingCount
  <2>7. QED
    BY <1>5, <1>11, <2>4, <2>5, <2>6, SameCardinality DEF Promise!Refuse
<1>14. QED
  BY <1>12, <1>13

-----------------------------------------------------------------------------
(* The refinement *)

LEMMA InitImplements == Init => Promise!Init
<1> SUFFICES ASSUME Init PROVE Promise!Init
  OBVIOUS
<1>1. Listening = TRUE
  BY ConstantTypes DEF Init, Listening, Holds
<1>2. \A c \in Conns : Status(c) = "absent"
  <2>1. TAKE c \in Conns
  <2>2. ~Queued(c)
    BY EmptySeq, LenProperties DEF Init, Queued
  <2>3. ~Waiting(c)
    BY ConstantTypes DEF Init, Waiting
  <2>4. worker[c] = "none" /\ ~Orphaned(c)
    BY ConstantTypes DEF Init, Orphaned, Holds
  <2>5. QED
    BY <2>2, <2>3, <2>4 DEF Status
<1>3. QED
  BY <1>1, <1>2 DEF Promise!Init

LEMMA NextImplements ==
  Inv /\ Inv' /\ EndInv /\ EndInv' /\ [Next]_vars
     => [Promise!Next]_(Promise!vars)
<1> SUFFICES ASSUME Inv, Inv', EndInv, EndInv', [Next]_vars
             PROVE  Promise!Next \/ UNCHANGED Promise!vars
  OBVIOUS
<1> USE DEF loopVars, tableVars, kernelVars
<1>1. CASE InitDescriptorSet \/ ScanExpired
  BY <1>1, StepDrops DEF Promise!Next
<1>2. CASE StopListening \/ SelectPanics \/ ScanAborts
  BY <1>2, StepEnds DEF Promise!Next
<1>3. CASE SelectReady \/ ScanIdle \/ SelectInterrupted \/ ForkerStop \/ Tick
           \/ UNCHANGED vars
  BY <1>3, StepSilent DEF SelectReady, ScanIdle, NextSlot, SelectInterrupted,
     ForkerStop, Tick, vars
<1>4. CASE ScanReady
  BY <1>4, StepHandsOver DEF Promise!Next
<1>5. CASE CloseReadySocket
  BY <1>5, StepCloses DEF Promise!Next
<1>6. CASE Accept
  BY <1>6, StepAccepts DEF Promise!Next
<1>7. CASE AcceptFails
  BY <1>7, StepAcceptFails DEF Promise!Next
<1>8. ASSUME NEW c \in Conns, CloseInherited(c)
      PROVE  Promise!Next
  BY <1>8, StepClosesCopies DEF Promise!Next
<1>9. ASSUME NEW c \in Conns, WorkerExit(c)
      PROVE  Promise!Next
  BY <1>9, StepFinishes DEF Promise!Next
<1>10. ASSUME NEW c \in Conns, Connect(c)
       PROVE  Promise!Next
  BY <1>10, StepConnects DEF Promise!Next
<1>11. ASSUME NEW c \in Conns, ClientActs(c)
       PROVE  UNCHANGED Promise!vars
  BY <1>11, StepSilent DEF ClientActs
<1>12. ASSUME NEW c \in Conns, Abort(c)
       PROVE  Promise!Next
  BY <1>12, StepAborts DEF Promise!Next
<1>13. QED
  BY <1>1, <1>2, <1>3, <1>4, <1>5, <1>6, <1>7, <1>8, <1>9, <1>10, <1>11, <1>12
     DEF Next, ServerStep, Signal

(* Whatever clients and workers do and whatever calls fail, forker.c does  *)
(* to each connection only what Dispatcher allows: it is served by one     *)
(* worker at most, it is dropped only while it waits, it is refused only   *)
(* by a full table, and no more wait than the table has entries.           *)
THEOREM Implements == Spec => ImplementsDispatcher
<1>1. Inv /\ EndInv /\ [Next]_vars => EndInv'
  BY NextEndInv
<1>2. QED
  BY <1>1, Invariance, InitEndInv, InitImplements, NextImplements, PTL
     DEF Spec, ImplementsDispatcher, Promise!Spec
=============================================================================
