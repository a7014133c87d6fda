---------------------------- MODULE ForkerProofs ----------------------------
(***************************************************************************)
(* Proofs about the dispatcher, for every number of clients, every size of *)
(* the table and of the queue, every timeout and every set of faults: who  *)
(* holds a connection, and what the loop owes to select(), to itself and   *)
(* to its clock.                                                           *)
(***************************************************************************)
EXTENDS Forker, SequenceTheorems, TLAPS

-----------------------------------------------------------------------------
(* What the helpers return *)

(* A time stored in timeoutEpocs[] is an integer. *)
LEMMA ToIntType == ASSUME NEW t \in Nat PROVE ToInt(t) \in Int
<1>1. 2 * (IntMax + 1) \in Nat \ {0}
  BY LimitsAssumption
<1>2. (t + IntMax + 1) \in Nat
  BY LimitsAssumption
<1>3. (t + IntMax + 1) % (2 * (IntMax + 1)) \in Int
  BY <1>1, <1>2
<1>4. QED
  BY <1>3, LimitsAssumption DEF ToInt

(* Closing descriptors of a process leaves it a table of descriptors. *)
LEMMA ClosedType ==
  ASSUME TypeOK, NEW p \in Procs, NEW F
  PROVE  Closed(p, F) \in [Fds -> Conns \cup {Listen, None}]
BY DEF TypeOK, Closed

(* Losing its listener only shortens the queue. *)
LEMMA KernelQueueType ==
  ASSUME NEW q \in Seq(Conns), KernelQueue(q)
  PROVE  (backlog \in Seq(Conns))'
BY EmptySeq DEF KernelQueue

LEMMA RemoveAtType ==
  ASSUME NEW q \in Seq(Conns), NEW n \in DOMAIN q
  PROVE  RemoveAt(q, n) \in Seq(Conns)
BY LenProperties, SubSeqProperties, ConcatProperties DEF RemoveAt

-----------------------------------------------------------------------------
(* Type correctness *)

LEMMA InitTypeOK == Init => TypeOK
<1>1. AcceptSocket \in Fds /\ 0 \in Slots
  BY FdsAssumption, LimitsAssumption DEF Fds, Slots
<1>2. QED
  BY <1>1, EmptySeq DEF Init, TypeOK, Slots, Empty

LEMMA NextSlotType ==
  ASSUME TypeOK, NextSlot
  PROVE  i' \in Slots /\ pc' \in {"loop", "scan", "accept"}
BY DEF TypeOK, NextSlot, MoreSlots, ListenerReady

(* The entries of a table whose descriptors are cleared or set keep their type. *)
LEMMA SlotType ==
  ASSUME TypeOK, NEW s \in Slots
  PROVE  descriptors[Server][s] \in Fds \cup {Empty}
BY DEF TypeOK, Procs

LEMMA ClearSlotType ==
  ASSUME TypeOK, ClearSlot
  PROVE  /\ descriptors' \in [Procs -> [Slots -> Fds \cup {Empty}]]
         /\ timeoutEpocs' \in [Slots -> Int]
BY DEF TypeOK, ClearSlot, Empty, Procs

LEMMA CloseDescriptorsType ==
  ASSUME TypeOK, NEW p \in Procs, CloseDescriptors(p)
  PROVE  /\ files' \in [Procs -> [Fds -> Conns \cup {Listen, None}]]
         /\ descriptors' \in [Procs -> [Slots -> Fds \cup {Empty}]]
         /\ (backlog \in Seq(Conns))'
<1>1. Closed(p, {AcceptSocket} \cup TableFds(p))
        \in [Fds -> Conns \cup {Listen, None}]
  BY ClosedType
<1>2. QED
  BY <1>1, KernelQueueType DEF TypeOK, CloseDescriptors, ToClose

LEMMA ExitType ==
  ASSUME TypeOK, NEW p \in Procs, Exit(p)
  PROVE  /\ files' \in [Procs -> [Fds -> Conns \cup {Listen, None}]]
         /\ (backlog \in Seq(Conns))'
BY KernelQueueType DEF TypeOK, Exit

LEMMA NextTypeOK == TypeOK /\ [Next]_vars => TypeOK'
<1> SUFFICES ASSUME TypeOK, [Next]_vars
             PROVE  TypeOK'
  OBVIOUS
<1> USE DEF loopVars, tableVars, kernelVars
<1>1. CASE InitDescriptorSet
  <2> DEFINE expired == {s \in Slots : Expired(s, now)}
             left    == [s \in Slots |-> IF s \in expired THEN Empty
                                         ELSE descriptors[Server][s]]
  <2>1. left \in [Slots -> Fds \cup {Empty}]
    BY SlotType DEF Expired
  <2>2. files' \in [Procs -> [Fds -> Conns \cup {Listen, None}]]
    BY <1>1, ClosedType DEF InitDescriptorSet, PurgeAndWatch, TypeOK, Procs
  <2>3. descriptors' \in [Procs -> [Slots -> Fds \cup {Empty}]]
    BY <1>1, <2>1 DEF InitDescriptorSet, PurgeAndWatch, TypeOK
  <2>4. timeoutEpocs' \in [Slots -> Int]
    BY <1>1 DEF InitDescriptorSet, PurgeAndWatch, TypeOK, Empty
  <2>5. fdset' \subseteq Fds
    <3>1. AcceptSocket \in Fds
      BY FdsAssumption DEF Fds
    <3>2. fdset' = {AcceptSocket} \cup ({left[s] : s \in Slots} \ {Empty})
      BY <1>1 DEF InitDescriptorSet, PurgeAndWatch
    <3>3. QED
      BY <2>1, <3>1, <3>2
  <2>6. QED
    BY <1>1, <2>2, <2>3, <2>4, <2>5
       DEF InitDescriptorSet, PurgeAndWatch, TypeOK
<1>2. CASE StopListening
  <2>1. Server \in Procs
    BY DEF Procs
  <2>2. QED
    BY <1>2, <2>1, CloseDescriptorsType DEF StopListening, TypeOK, Empty
<1>3. CASE SelectReady
  <2>1. 0 \in Slots
    BY LimitsAssumption DEF Slots
  <2>2. QED
    BY <1>3, <2>1 DEF SelectReady, Reported, TypeOK
<1>4. CASE SelectPanics
  <2>1. Server \in Procs
    BY DEF Procs
  <2>2. descriptors' \in [Procs -> [Slots -> Fds \cup {Empty}]]
    BY <1>4 DEF SelectPanics, TypeOK
  <2>3. QED
    BY <1>4, <2>1, <2>2, ExitType DEF SelectPanics, TypeOK, Empty
<1>5. CASE ScanExpired
  <2>1. files' \in [Procs -> [Fds -> Conns \cup {Listen, None}]]
    BY <1>5, ClosedType DEF ScanExpired, TypeOK, Procs
  <2>2. QED
    BY <1>5, <2>1, ClearSlotType, NextSlotType DEF ScanExpired, TypeOK
<1>6. CASE ScanReady
  <2>1. readySocket' \in Fds
    BY <1>6 DEF ScanReady, Cleared, TypeOK
  <2>2. timeoutEpocs' \in [Slots -> Int]
    BY <1>6 DEF ScanReady, Cleared, TypeOK, Empty
  <2>3. [descriptors[Server] EXCEPT ![i] = Empty] \in [Slots -> Fds \cup {Empty}]
    BY DEF TypeOK, Procs
  <2>4. descriptors' \in [Procs -> [Slots -> Fds \cup {Empty}]]
    BY <1>6, <2>3 DEF ScanReady, Cleared, TypeOK, Procs
  <2>5. files' \in [Procs -> [Fds -> Conns \cup {Listen, None}]]
    BY <1>6 DEF ScanReady, Cleared, TypeOK, Procs
  <2>6. worker' \in [Conns -> {"none", "forked", "serving"}]
    BY <1>6 DEF ScanReady, Cleared, TypeOK
  <2>7. QED
    BY <1>6, <2>1, <2>2, <2>4, <2>5, <2>6 DEF ScanReady, Cleared, TypeOK
<1>7. CASE CloseReadySocket
  <2>1. files' \in [Procs -> [Fds -> Conns \cup {Listen, None}]]
    BY <1>7, ClosedType DEF CloseReadySocket, HandedOver, TypeOK, Procs
  <2>2. QED
    BY <1>7, <2>1, NextSlotType DEF CloseReadySocket, HandedOver, TypeOK
<1>8. CASE ScanIdle
  BY <1>8, NextSlotType DEF ScanIdle, TypeOK
<1>9. CASE ScanAborts
  <2>1. Server \in Procs
    BY DEF Procs
  <2>2. QED
    BY <1>9, <2>1, ExitType DEF ScanAborts, TypeOK
<1>10. CASE Accept
  <2>1. Head(backlog) \in Conns /\ Tail(backlog) \in Seq(Conns)
    BY <1>10, HeadTailProperties, LenProperties DEF Accept, TypeOK
  <2>2. files' \in [Procs -> [Fds -> Conns \cup {Listen, None}]]
    BY <1>10, <2>1 DEF Accept, TypeOK, Procs, Lowest, FreeFds
  <2>3. acceptedAt' \in [Conns -> Nat]
    BY <1>10, <2>1 DEF Accept, TypeOK
  <2>4. /\ descriptors' \in [Procs -> [Slots -> Fds \cup {Empty}]]
        /\ timeoutEpocs' \in [Slots -> Int]
    <3>1. ASSUME NEW fd \in Fds, NEW s \in Slots, InsertDescriptor(fd, s)
          PROVE  /\ descriptors' \in [Procs -> [Slots -> Fds \cup {Empty}]]
                 /\ timeoutEpocs' \in [Slots -> Int]
      <4>1. ToInt(now + TimeoutSecs) \in Int
        BY ToIntType, LimitsAssumption DEF TypeOK
      <4>2. QED
        BY <3>1, <4>1 DEF InsertDescriptor, Deadline, TypeOK, Procs
    <3>2. QED
      BY <1>10, <3>1 DEF Accept, TypeOK, Lowest, FreeFds, FreeSlots
  <2>5. (backlog \in Seq(Conns))'
    BY <1>10, <2>1, KernelQueueType DEF Accept
  <2>6. QED
    BY <1>10, <2>2, <2>3, <2>4, <2>5 DEF Accept, TypeOK
<1>11. CASE AcceptFails
  <2>1. Tail(backlog) \in Seq(Conns)
    BY <1>11, HeadTailProperties DEF AcceptFails, TypeOK
  <2>2. QED
    BY <1>11, <2>1 DEF AcceptFails, TypeOK
<1>12. CASE SelectInterrupted
  BY <1>12 DEF SelectInterrupted, TypeOK
<1>13. CASE ForkerStop
  BY <1>13 DEF ForkerStop, TypeOK
<1>14. ASSUME NEW c \in Conns, CloseInherited(c)
       PROVE  TypeOK'
  <2>1. c \in Procs
    BY DEF Procs
  <2>2. QED
    BY <1>14, <2>1, CloseDescriptorsType DEF CloseInherited, TypeOK
<1>15. ASSUME NEW c \in Conns, WorkerExit(c)
       PROVE  TypeOK'
  <2>1. c \in Procs
    BY DEF Procs
  <2>2. QED
    BY <1>15, <2>1, ExitType DEF WorkerExit, TypeOK
<1>16. ASSUME NEW c \in Conns, Connect(c)
       PROVE  TypeOK'
  <2>1. Append(backlog, c) \in Seq(Conns)
    BY AppendProperties DEF TypeOK
  <2>2. QED
    BY <1>16, <2>1 DEF Connect, TypeOK
<1>17. ASSUME NEW c \in Conns, ClientActs(c)
       PROVE  TypeOK'
  BY <1>17 DEF ClientActs, TypeOK
<1>18. ASSUME NEW c \in Conns, Abort(c)
       PROVE  TypeOK'
  BY <1>18, RemoveAtType DEF Abort, TypeOK
<1>19. CASE Tick
  BY <1>19 DEF Tick, TypeOK
<1>20. CASE UNCHANGED vars
  BY <1>20 DEF vars, TypeOK
<1>21. QED
  BY <1>1, <1>2, <1>3, <1>4, <1>5, <1>6, <1>7, <1>8, <1>9, <1>10, <1>11,
     <1>12, <1>13, <1>14, <1>15, <1>16, <1>17, <1>18, <1>19, <1>20
     DEF Next, ServerStep, Signal

(* Every reachable state of the dispatcher is of the expected shape: no    *)
(* loop index, descriptor or entry of its tables leaves its range.         *)
THEOREM TypeCorrect == Spec => []TypeOK
BY InitTypeOK, NextTypeOK, PTL DEF Spec

-----------------------------------------------------------------------------
(* The server's tables *)

LEMMA ConstantTypes ==
  /\ Server \in Procs /\ Conns \subseteq Procs
  /\ AcceptSocket \in Fds
  /\ Empty \notin Fds
  /\ 0 \in Slots
  /\ \A c \in Conns : c # Server /\ c # Listen /\ c # None
  /\ Listen # None
BY ConnsAssumption, FdsAssumption, LimitsAssumption
   DEF Procs, Fds, Empty, Slots

LEMMA ScanReadyEffect ==
  ASSUME TypeOK, ScanReady
  PROVE  /\ descriptors'[Server] = Cleared
         /\ \/ /\ files' = files /\ worker' = worker
               /\ \A c \in Conns : descriptors'[c] = descriptors[c]
            \/ \E c \in Conns :
                 /\ files[Server][readySocket'] = c
                 /\ files' = [files EXCEPT ![c] = files[Server]]
                 /\ worker' = [worker EXCEPT ![c] = "forked"]
                 /\ descriptors'[c] = Cleared
                 /\ \A d \in Conns \ {c} : descriptors'[d] = descriptors[d]
<1>1. \/ /\ files' = files /\ worker' = worker
         /\ descriptors' = [descriptors EXCEPT ![Server] = Cleared]
      \/ \E c \in Conns :
           /\ files[Server][readySocket'] = c
           /\ files' = [files EXCEPT ![c] = files[Server]]
           /\ worker' = [worker EXCEPT ![c] = "forked"]
           /\ descriptors' = [descriptors EXCEPT ![Server] = Cleared,
                                                 ![c] = Cleared]
  BY DEF ScanReady, Cleared
<1>2. descriptors \in [Procs -> [Slots -> Fds \cup {Empty}]]
  BY DEF TypeOK
<1>3. QED
  BY <1>1, <1>2, ConstantTypes

LEMMA InitTableInv == Init => TableInv
BY ConstantTypes
   DEF Init, TableInv, NoLeak, OneSlotEach, TableFds, EntriesOpen, Procs

(* A step that does not concern the server's tables. *)
LEMMA TableInvElsewhere ==
  ASSUME TableInv,
         files'[Server] = files[Server], descriptors'[Server] = descriptors[Server],
         \A p \in Procs : \A f \in Fds : files'[p][f] = Listen => f = AcceptSocket,
         pc' = pc, fdset' = fdset, readySocket' = readySocket
  PROVE  TableInv'
BY DEF TableInv, NoLeak, OneSlotEach, TableFds, EntriesOpen

LEMMA NextTableInv == TypeOK /\ TableInv /\ [Next]_vars => TableInv'
<1> SUFFICES ASSUME TypeOK, TableInv, [Next]_vars
             PROVE  TableInv'
  OBVIOUS
<1> USE ConstantTypes DEF loopVars, tableVars, kernelVars
<1>1. CASE InitDescriptorSet
  BY <1>1 DEF InitDescriptorSet, PurgeAndWatch, Closed, TableInv, NoLeak,
     OneSlotEach, TableFds, EntriesOpen, Expired, TypeOK
<1>2. CASE StopListening
  BY <1>2 DEF StopListening, CloseDescriptors, ToClose, Closed, TableInv, NoLeak,
     OneSlotEach, TableFds, EntriesOpen, TypeOK
<1>3. CASE SelectReady
  BY <1>3 DEF SelectReady, Reported, BadDescriptor, TableInv, NoLeak,
     OneSlotEach, TableFds, EntriesOpen, TypeOK
<1>4. CASE SelectPanics
  BY <1>4 DEF SelectPanics, Exit, TableInv, NoLeak,
     OneSlotEach, TableFds, EntriesOpen, TypeOK
<1>5. CASE ScanExpired
  BY <1>5 DEF ScanExpired, ClearSlot, NextSlot, MoreSlots, ListenerReady, Closed, Expired, TableInv,
     NoLeak, OneSlotEach, TableFds, EntriesOpen, TypeOK
<1>6. CASE ScanReady
  <2>1. /\ pc = "scan" /\ pc' = "close"
        /\ descriptors[Server][i] \in fdset
        /\ readySocket' = descriptors[Server][i]
    BY <1>6 DEF ScanReady, Cleared
  <2>2. files'[Server] = files[Server]
    BY <1>6 DEF ScanReady, Cleared, TypeOK
  <2>3. descriptors'[Server] = Cleared
    BY <1>6, ScanReadyEffect
  <2>4. \A p \in Procs : \A f \in Fds : files'[p][f] = Listen => f = AcceptSocket
    <3>1. CASE files' = files
      BY <3>1 DEF TableInv
    <3>2. ASSUME NEW c \in Conns, files' = [files EXCEPT ![c] = files[Server]]
          PROVE  \A p \in Procs : \A f \in Fds :
                    files'[p][f] = Listen => f = AcceptSocket
      BY <3>2 DEF TableInv, TypeOK
    <3>3. QED
      BY <1>6, <3>1, <3>2, ScanReadyEffect
  <2>5. /\ readySocket' \in Fds
        /\ descriptors[Server] \in [Slots -> Fds \cup {Empty}]
        /\ i \in Slots
    BY <2>1 DEF TypeOK
  <2>6. TableFds(Server)' = TableFds(Server) \ {readySocket'}
    BY <2>1, <2>3, <2>5 DEF Cleared, TableInv, OneSlotEach, TableFds
  <2>7. NoLeak'
    BY <2>1, <2>2, <2>6 DEF TableInv, NoLeak
  <2>8. OneSlotEach' /\ EntriesOpen'
    BY <2>1, <2>2, <2>3, <2>5 DEF Cleared, TableInv, OneSlotEach, EntriesOpen
  <2>9. \A s \in Slots : descriptors'[Server][s] # AcceptSocket
    BY <2>3, <2>5 DEF Cleared, TableInv
  <2>10. readySocket' \in Fds \ ({AcceptSocket} \cup TableFds(Server)')
    BY <2>1, <2>5, <2>6 DEF TableInv
  <2>11. QED
    BY <2>1, <2>2, <2>4, <2>7, <2>8, <2>9, <2>10 DEF TableInv
<1>7. CASE CloseReadySocket
  BY <1>7 DEF CloseReadySocket, HandedOver, NextSlot, MoreSlots, ListenerReady, Closed, TableInv,
     NoLeak, OneSlotEach, TableFds, EntriesOpen, TypeOK
<1>8. CASE ScanIdle
  BY <1>8 DEF ScanIdle, NextSlot, MoreSlots, ListenerReady, TableInv,
     NoLeak, OneSlotEach, TableFds, EntriesOpen, TypeOK
<1>9. CASE ScanAborts
  BY <1>9 DEF ScanAborts, Exit, TableInv,
     NoLeak, OneSlotEach, TableFds, EntriesOpen, TypeOK
<1>10. CASE Accept
  <2>1. PICK fd \in Fds, c \in Conns \cup {None} :
           /\ files[Server][fd] = None
           /\ files' = [files EXCEPT ![Server][fd] = c]
           /\ \/ \E s \in Slots : /\ descriptors[Server][s] = Empty
                                 /\ descriptors' = [descriptors EXCEPT ![Server][s] = fd]
              \/ c = None /\ descriptors' = descriptors
    <3>1. Head(backlog) \in Conns
      BY <1>10, HeadTailProperties DEF Accept, TypeOK
    <3>2. PICK fd \in Lowest(FreeFds) :
             /\ \E kept \in BOOLEAN :
                  files' = [files EXCEPT ![Server][fd] =
                              IF kept /\ FreeSlots # {} THEN Head(backlog) ELSE None]
             /\ \/ \E s \in Lowest(FreeSlots) :
                     descriptors' = [descriptors EXCEPT ![Server][s] = fd]
                \/ FreeSlots = {} /\ descriptors' = descriptors
      BY <1>10 DEF Accept, InsertDescriptor
    <3>3. fd \in Fds /\ files[Server][fd] = None
      BY DEF Lowest, FreeFds
    <3>4. \A s \in Lowest(FreeSlots) : s \in Slots /\ descriptors[Server][s] = Empty
      BY DEF Lowest, FreeSlots
    <3>5. QED
      BY <3>1, <3>2, <3>3, <3>4
  <2>2. /\ files \in [Procs -> [Fds -> {None, Listen} \cup Conns]]
        /\ descriptors \in [Procs -> [Slots -> Fds \cup {Empty}]]
    BY DEF TypeOK
  <2>3. pc' = "loop" /\ pc = "accept"
    BY <1>10 DEF Accept
  <2>4. \A p \in Procs : \A f \in Fds : files'[p][f] = Listen => files[p][f] = Listen
    BY <2>1, <2>2
  <2>5. files'[Server][AcceptSocket] = Listen
    BY <2>1, <2>2, <2>3 DEF TableInv
  <2>6. fd # AcceptSocket /\ \A s \in Slots : descriptors[Server][s] = fd => ~EntriesOpen
    BY <2>1, <2>3 DEF TableInv, EntriesOpen
  <2>7. QED
    BY <2>1, <2>2, <2>3, <2>4, <2>5, <2>6 DEF TableInv, NoLeak, OneSlotEach, TableFds
<1>11. CASE AcceptFails
  BY <1>11 DEF AcceptFails, TableInv,
     NoLeak, OneSlotEach, TableFds, EntriesOpen, TypeOK
<1>12. CASE SelectInterrupted
  BY <1>12 DEF SelectInterrupted, TableInv,
     NoLeak, OneSlotEach, TableFds, EntriesOpen, TypeOK
<1>13. CASE ForkerStop
  BY <1>13, TableInvElsewhere DEF ForkerStop, TableInv
<1>14. ASSUME NEW c \in Conns, CloseInherited(c)
       PROVE  TableInv'
  BY <1>14, TableInvElsewhere
     DEF CloseInherited, CloseDescriptors, ToClose, Closed, TableInv, TypeOK
<1>15. ASSUME NEW c \in Conns, WorkerExit(c)
       PROVE  TableInv'
  BY <1>15, TableInvElsewhere DEF WorkerExit, Exit, TableInv, TypeOK
<1>16. ASSUME NEW c \in Conns, Connect(c) \/ ClientActs(c) \/ Abort(c)
       PROVE  TableInv'
  BY <1>16, TableInvElsewhere DEF Connect, ClientActs, Abort, TableInv
<1>17. CASE Tick
  BY <1>17, TableInvElsewhere DEF Tick, TableInv
<1>18. CASE UNCHANGED vars
  BY <1>18, TableInvElsewhere DEF vars, TableInv
<1>19. QED
  BY <1>1, <1>2, <1>3, <1>4, <1>5, <1>6, <1>7, <1>8, <1>9, <1>10, <1>11,
     <1>12, <1>13, <1>14, <1>15, <1>16, <1>17, <1>18
     DEF Next, ServerStep, Signal

-----------------------------------------------------------------------------
(* Queues without duplicates *)

LEMMA TailOfDistinct ==
  ASSUME NEW q \in Seq(Conns), q # <<>>, IsInjective(q)
  PROVE  /\ IsInjective(Tail(q))
         /\ \A n \in DOMAIN Tail(q) : /\ Tail(q)[n] # Head(q)
                                      /\ \E m \in DOMAIN q : q[m] = Tail(q)[n]
<1>1. /\ Len(q) \in Nat \ {0} /\ DOMAIN q = 1 .. Len(q)
      /\ Head(q) = q[1]
      /\ Tail(q) \in Seq(Conns) /\ Len(Tail(q)) = Len(q) - 1
      /\ \A n \in 1 .. Len(Tail(q)) : Tail(q)[n] = q[n + 1]
  BY EmptySeq, LenProperties, HeadTailProperties
<1>2. DOMAIN Tail(q) = 1 .. (Len(q) - 1)
  BY <1>1, LenProperties
<1>3. \A n \in 1 .. (Len(q) - 1) : n + 1 \in DOMAIN q /\ 1 \in DOMAIN q /\ n + 1 # 1
  BY <1>1
<1>4. QED
  BY <1>1, <1>2, <1>3 DEF IsInjective

LEMMA AppendToDistinct ==
  ASSUME NEW q \in Seq(Conns), NEW c \in Conns, IsInjective(q),
         \A n \in DOMAIN q : q[n] # c
  PROVE  /\ IsInjective(Append(q, c))
         /\ \A n \in DOMAIN Append(q, c) :
               Append(q, c)[n] = c \/ \E m \in DOMAIN q : q[m] = Append(q, c)[n]
<1>1. /\ Len(q) \in Nat /\ DOMAIN q = 1 .. Len(q)
      /\ DOMAIN Append(q, c) = 1 .. (Len(q) + 1)
      /\ \A n \in 1 .. Len(q) : Append(q, c)[n] = q[n]
      /\ Append(q, c)[Len(q) + 1] = c
  BY LenProperties, AppendProperties
<1>2. QED
  BY <1>1 DEF IsInjective

LEMMA RemoveAtEntries ==
  ASSUME NEW q \in Seq(Conns), NEW k \in DOMAIN q
  PROVE  /\ DOMAIN RemoveAt(q, k) = 1 .. (Len(q) - 1)
         /\ \A n \in 1 .. (Len(q) - 1) :
               RemoveAt(q, k)[n] = IF n < k THEN q[n] ELSE q[n + 1]
<1> DEFINE left  == SubSeq(q, 1, k - 1)
           right == SubSeq(q, k + 1, Len(q))
<1>1. Len(q) \in Nat /\ DOMAIN q = 1 .. Len(q) /\ k \in 1 .. Len(q)
  BY LenProperties
<1>2. /\ left \in Seq(Conns) /\ Len(left) = k - 1
      /\ \A n \in 1 .. (k - 1) : left[n] = q[n]
  BY <1>1, SubSeqProperties
<1>3. /\ right \in Seq(Conns) /\ Len(right) = Len(q) - k
      /\ \A n \in 1 .. (Len(q) - k) : right[n] = q[n + k]
  BY <1>1, SubSeqProperties
<1>4. RemoveAt(q, k) = left \o right
  BY DEF RemoveAt
<1> HIDE DEF left, right
<1>5. /\ left \o right \in Seq(Conns)
      /\ Len(left \o right) = Len(left) + Len(right)
      /\ \A n \in 1 .. Len(left) + Len(right) :
            (left \o right)[n] = IF n <= Len(left) THEN left[n]
                                 ELSE right[n - Len(left)]
  BY <1>2, <1>3, ConcatProperties
<1>6. DOMAIN (left \o right) = 1 .. Len(left \o right)
  BY <1>5, LenProperties
<1>7. Len(left \o right) = Len(q) - 1
  BY <1>1, <1>2, <1>3, <1>5
<1>8. ASSUME NEW n \in 1 .. (Len(q) - 1)
      PROVE  (left \o right)[n] = IF n < k THEN q[n] ELSE q[n + 1]
  <2>1. CASE n < k
    BY <1>1, <1>2, <1>3, <1>5, <2>1
  <2>2. CASE ~(n < k)
    <3>1. /\ n - (k - 1) \in 1 .. (Len(q) - k)
          /\ n \in 1 .. Len(left) + Len(right) /\ ~(n <= Len(left))
          /\ (n - (k - 1)) + k = n + 1
      BY <1>1, <1>2, <1>3, <2>2
    <3>2. (left \o right)[n] = right[n - (k - 1)]
      BY <1>2, <1>5, <3>1
    <3>3. right[n - (k - 1)] = q[n + 1]
      BY <1>3, <3>1
    <3>4. QED
      BY <2>2, <3>2, <3>3
  <2>3. QED
    BY <2>1, <2>2
<1>9. QED
  BY <1>4, <1>6, <1>7, <1>8

LEMMA RemoveFromDistinct ==
  ASSUME NEW q \in Seq(Conns), NEW k \in DOMAIN q, IsInjective(q)
  PROVE  /\ IsInjective(RemoveAt(q, k))
         /\ \A n \in DOMAIN RemoveAt(q, k) :
               \E m \in DOMAIN q : q[m] = RemoveAt(q, k)[n]
<1>1. Len(q) \in Nat /\ DOMAIN q = 1 .. Len(q) /\ k \in 1 .. Len(q)
      /\ DOMAIN RemoveAt(q, k) = 1 .. (Len(q) - 1)
      /\ \A n \in 1 .. (Len(q) - 1) :
            RemoveAt(q, k)[n] = IF n < k THEN q[n] ELSE q[n + 1]
  BY LenProperties, RemoveAtEntries
<1> DEFINE r     == RemoveAt(q, k)
           at(n) == IF n < k THEN n ELSE n + 1
<1>2. \A n \in DOMAIN r : at(n) \in DOMAIN q /\ r[n] = q[at(n)]
  BY <1>1
<1>3. \A m, n \in DOMAIN r : at(m) = at(n) => m = n
  BY <1>1
<1> HIDE DEF r, at
<1>4. IsInjective(r) /\ \A n \in DOMAIN r : \E m \in DOMAIN q : q[m] = r[n]
  BY <1>2, <1>3 DEF IsInjective
<1>5. QED
  BY <1>4 DEF r

-----------------------------------------------------------------------------
(* Connections and their holders *)

LEMMA InitConnInv == Init => ConnInv
<1> SUFFICES ASSUME Init PROVE ConnInv
  OBVIOUS
<1>1. QueuedOnce /\ QueuedUnheld
  BY DEF Init, QueuedOnce, QueuedUnheld, Queued, IsInjective
<1>2. OneFdEach /\ NoWorkerNoFiles /\ ForkedInherits /\ WorkerIsolation
         /\ ExclusiveHandoff
  BY ConstantTypes DEF Init, OneFdEach, NoWorkerNoFiles, ForkedInherits,
     WorkerIsolation, ExclusiveHandoff, Waiting
<1>3. QED
  BY <1>1, <1>2 DEF ConnInv

(* A worker, in either phase, has its own connection open. *)
LEMMA WorkerHolds ==
  ASSUME TypeOK, ConnInv, NEW c \in Conns, worker[c] # "none"
  PROVE  Holds(c, c)
<1>1. worker[c] = "forked" \/ worker[c] = "serving"
  BY DEF TypeOK
<1>2. CASE worker[c] = "forked"
  <2>1. Inherits(c)
    BY <1>2 DEF ConnInv, ForkedInherits
  <2>2. QED
    BY <2>1 DEF Inherits, Holds
<1>3. CASE worker[c] = "serving"
  BY <1>3 DEF ConnInv, WorkerIsolation
<1>4. QED
  BY <1>1, <1>2, <1>3

(* The server only closes descriptors and clears entries of its table. *)
LEMMA ConnInvServerCloses ==
  ASSUME TypeOK, ConnInv,
         \A f \in Fds : files'[Server][f] \in {files[Server][f], None},
         \A c \in Conns : files'[c] = files[c],
         \A c \in Conns : descriptors'[c] = descriptors[c],
         \A s \in Slots : descriptors'[Server][s] \in {descriptors[Server][s], Empty},
         worker' = worker, backlog' \in {backlog, <<>>}
  PROVE  ConnInv'
<1> USE ConstantTypes
<1>1. \A f \in Fds : files'[Server][f] \in {files[Server][f], None}
  OBVIOUS
<1>2. OneFdEach'
  BY <1>1 DEF ConnInv, OneFdEach
<1>3. QueuedOnce' /\ \A c \in Conns : Queued(c)' => Queued(c)
  BY DEF ConnInv, QueuedOnce, Queued, IsInjective
<1>4. QueuedUnheld'
  BY <1>1, <1>3 DEF ConnInv, QueuedUnheld, Holds, Procs
<1>5. NoWorkerNoFiles' /\ ForkedInherits' /\ WorkerIsolation'
  BY <1>1 DEF ConnInv, NoWorkerNoFiles, ForkedInherits, Inherits, TableFds,
     WorkerIsolation, Holds
<1>6. ExclusiveHandoff'
  <2> SUFFICES ASSUME NEW c \in Conns, Waiting(c)'
               PROVE  Waiting(c)
    BY DEF ConnInv, ExclusiveHandoff
  <2>1. PICK s \in Slots : /\ descriptors'[Server][s] # Empty
                           /\ files'[Server][descriptors'[Server][s]] = c
    BY DEF Waiting
  <2>2. descriptors[Server][s] = descriptors'[Server][s]
    BY <2>1
  <2>3. descriptors[Server][s] \in Fds
    BY <2>1, <2>2 DEF TypeOK
  <2>4. files[Server][descriptors[Server][s]] = c
    BY <1>1, <2>1, <2>2, <2>3
  <2>5. QED
    BY <2>1, <2>2, <2>4 DEF Waiting
<1>7. QED
  BY <1>2, <1>3, <1>4, <1>5, <1>6 DEF ConnInv

(* Only the queue changes, and no connection enters it. *)
LEMMA ConnInvQueueShrinks ==
  ASSUME ConnInv, UNCHANGED <<files, descriptors, worker>>, QueuedOnce',
         \A c \in Conns : Queued(c)' => Queued(c)
  PROVE  ConnInv'
BY DEF ConnInv, OneFdEach, QueuedUnheld, NoWorkerNoFiles, ForkedInherits,
   Inherits, TableFds, WorkerIsolation, ExclusiveHandoff, Holds, Waiting

LEMMA ConnInvScanReady ==
  ASSUME TypeOK, TableInv, ConnInv, ScanReady
  PROVE  ConnInv'
<1> USE ConstantTypes
<1>1. /\ pc = "scan" /\ backlog' = backlog
      /\ descriptors[Server][i] \in fdset
      /\ readySocket' = descriptors[Server][i]
      /\ readySocket' \in Fds /\ i \in Slots
  BY DEF ScanReady, Cleared, TypeOK, kernelVars
<1>2. descriptors'[Server] = Cleared
  BY ScanReadyEffect
<1>3. \A c \in Conns : Waiting(c)' /\ files'[Server] = files[Server] => Waiting(c)
  BY <1>1, <1>2 DEF Waiting, Cleared, TypeOK
<1>4. CASE /\ files' = files /\ worker' = worker
           /\ \A c \in Conns : descriptors'[c] = descriptors[c]
  BY <1>1, <1>3, <1>4 DEF ConnInv, OneFdEach, QueuedOnce, QueuedUnheld, Queued,
     NoWorkerNoFiles, ForkedInherits, Inherits, TableFds, WorkerIsolation,
     ExclusiveHandoff, Holds
<1>5. ASSUME NEW c \in Conns,
             files[Server][readySocket'] = c,
             files' = [files EXCEPT ![c] = files[Server]],
             worker' = [worker EXCEPT ![c] = "forked"],
             descriptors'[c] = Cleared,
             \A d \in Conns \ {c} : descriptors'[d] = descriptors[d]
      PROVE  ConnInv'
  <2>1. /\ files'[Server] = files[Server] /\ files'[c] = files[Server]
        /\ \A d \in Conns \ {c} : files'[d] = files[d]
    BY <1>5 DEF TypeOK
  <2>2. /\ worker'[c] = "forked"
        /\ \A d \in Conns \ {c} : worker'[d] = worker[d]
    BY <1>5 DEF TypeOK
  <2>3. OneFdEach' /\ QueuedOnce'
    BY <1>1, <2>1 DEF ConnInv, OneFdEach, QueuedOnce
  <2>4. QueuedUnheld'
    BY <1>1, <2>1 DEF ConnInv, QueuedUnheld, Queued, Holds, Procs
  <2>5. NoWorkerNoFiles'
    BY <2>1, <2>2 DEF ConnInv, NoWorkerNoFiles
  <2>6. ForkedInherits'
    <3>1. TableFds(c)' = TableFds(Server) \ {readySocket'}
      BY <1>1, <1>5 DEF Cleared, TableInv, OneSlotEach, TableFds, TypeOK
    <3>2. Inherits(c)'
      <4>1. /\ files'[c][readySocket'] = c
            /\ readySocket' \notin {AcceptSocket} \cup TableFds(c)'
        BY <1>1, <1>5, <2>1, <3>1 DEF TableInv
      <4>2. ASSUME NEW f \in Fds, files'[c][f] \notin {c, None}
            PROVE  f \in {AcceptSocket} \cup TableFds(c)'
        <5>1. CASE files[Server][f] = Listen
          BY <5>1 DEF TableInv
        <5>2. CASE files[Server][f] \in Conns
          <6>1. f \in TableFds(Server)
            BY <1>1, <5>2 DEF TableInv, NoLeak
          <6>2. f # readySocket'
            BY <1>5, <2>1, <4>2
          <6>3. QED
            BY <3>1, <6>1, <6>2
        <5>3. QED
          BY <2>1, <4>2, <5>1, <5>2 DEF TypeOK
      <4>3. QED
        BY <1>1, <4>1, <4>2 DEF Inherits
    <3>3. ASSUME NEW d \in Conns \ {c}, worker'[d] = "forked"
          PROVE  Inherits(d)'
      BY <1>5, <2>1, <2>2, <3>3 DEF ConnInv, ForkedInherits, Inherits, TableFds
    <3>4. QED
      BY <3>2, <3>3 DEF ForkedInherits
  <2>7. WorkerIsolation'
    BY <2>1, <2>2 DEF ConnInv, WorkerIsolation, Holds
  <2>8. ExclusiveHandoff'
    <3>1. ~Waiting(c)'
      <4> SUFFICES ASSUME NEW s \in Slots, descriptors'[Server][s] # Empty,
                          files'[Server][descriptors'[Server][s]] = c
                   PROVE  FALSE
        BY DEF Waiting
      <4>1. s # i /\ descriptors'[Server][s] = descriptors[Server][s]
        BY <1>1, <1>2 DEF Cleared, TypeOK
      <4>2. descriptors[Server][s] \in Fds
        BY <4>1 DEF TypeOK
      <4>3. descriptors[Server][s] = descriptors[Server][i]
        BY <1>1, <1>5, <2>1, <4>1, <4>2 DEF ConnInv, OneFdEach
      <4>4. QED
        BY <1>1, <4>1, <4>3 DEF TableInv, OneSlotEach
    <3>2. QED
      BY <1>3, <2>1, <2>2, <3>1 DEF ConnInv, ExclusiveHandoff
  <2>9. QED
    BY <2>3, <2>4, <2>5, <2>6, <2>7, <2>8 DEF ConnInv
<1>6. QED
  BY <1>4, <1>5, ScanReadyEffect

LEMMA ConnInvAccept ==
  ASSUME TypeOK, TableInv, ConnInv, Accept
  PROVE  ConnInv'
<1> USE ConstantTypes
<1> DEFINE c == Head(backlog)
<1>1. /\ backlog # <<>> /\ c \in Conns /\ Tail(backlog) \in Seq(Conns)
      /\ c = backlog[1] /\ 1 \in DOMAIN backlog
  BY EmptySeq, LenProperties, HeadTailProperties DEF Accept, TypeOK
<1>2. Queued(c) /\ (\A p \in Procs : ~Holds(p, c)) /\ worker[c] = "none"
  BY <1>1, WorkerHolds DEF Queued, ConnInv, QueuedUnheld
<1>3. backlog' = Tail(backlog) \/ backlog' = <<>>
  BY DEF Accept, KernelQueue
<1>4. QueuedOnce' /\ \A d \in Conns : Queued(d)' => d # c /\ Queued(d)
  <2>1. CASE backlog' = Tail(backlog)
    BY <1>1, <2>1, TailOfDistinct DEF ConnInv, QueuedOnce, Queued, TypeOK
  <2>2. CASE backlog' = <<>>
    BY <2>2 DEF QueuedOnce, Queued, IsInjective
  <2>3. QED
    BY <1>3, <2>1, <2>2
<1>5. PICK fd \in Lowest(FreeFds) :
        /\ \/ files' = [files EXCEPT ![Server][fd] = c]
           \/ files' = [files EXCEPT ![Server][fd] = None]
        /\ \/ \E s \in Lowest(FreeSlots) : InsertDescriptor(fd, s)
           \/ UNCHANGED <<descriptors, timeoutEpocs>>
  BY DEF Accept
<1> HIDE DEF c
<1>6. fd \in Fds /\ files[Server][fd] = None
  BY DEF Lowest, FreeFds
<1>7. /\ files'[Server][fd] \in {c, None}
      /\ \A f \in Fds \ {fd} : files'[Server][f] = files[Server][f]
      /\ \A d \in Conns : files'[d] = files[d]
  BY <1>5, <1>6 DEF TypeOK
<1>8. /\ worker' = worker
      /\ \A d \in Conns : descriptors'[d] = descriptors[d]
  BY <1>5 DEF Accept, InsertDescriptor, Deadline, TypeOK
<1>9. \A s \in Slots : \/ descriptors'[Server][s] = descriptors[Server][s]
                        \/ descriptors'[Server][s] = fd
  BY <1>5 DEF InsertDescriptor, Deadline, TypeOK, Lowest, FreeSlots
<1>10. OneFdEach'
  BY <1>1, <1>2, <1>6, <1>7 DEF ConnInv, OneFdEach, Holds
<1>11. QueuedUnheld'
  BY <1>1, <1>4, <1>6, <1>7 DEF ConnInv, QueuedUnheld, Holds, Procs
<1>12. NoWorkerNoFiles' /\ ForkedInherits' /\ WorkerIsolation'
  BY <1>7, <1>8 DEF ConnInv, NoWorkerNoFiles, ForkedInherits, Inherits,
     TableFds, WorkerIsolation, Holds
<1>13. ExclusiveHandoff'
  <2> SUFFICES ASSUME NEW d \in Conns, worker[d] # "none", Waiting(d)'
               PROVE  Waiting(d)
    BY <1>8 DEF ConnInv, ExclusiveHandoff
  <2>1. d # c
    BY <1>2
  <2>2. PICK s \in Slots : /\ descriptors'[Server][s] # Empty
                           /\ files'[Server][descriptors'[Server][s]] = d
    BY DEF Waiting
  <2>3. descriptors'[Server][s] # fd
    BY <1>7, <2>1, <2>2
  <2>4. descriptors'[Server][s] = descriptors[Server][s]
    BY <1>9, <2>3
  <2>5. descriptors[Server][s] \in Fds
    BY <2>2, <2>4 DEF TypeOK
  <2>6. files[Server][descriptors[Server][s]] = d
    BY <1>7, <2>2, <2>3, <2>4, <2>5
  <2>7. QED
    BY <2>2, <2>4, <2>6 DEF Waiting
<1>14. QED
  BY <1>4, <1>10, <1>11, <1>12, <1>13 DEF ConnInv

(* The server's table and files do not change, nor what anybody but c has. *)
LEMMA ConnInvCloseInherited ==
  ASSUME TypeOK, ConnInv, NEW c \in Conns, CloseInherited(c)
  PROVE  ConnInv'
<1> USE ConstantTypes
<1>1. /\ files'[c] = Closed(c, {AcceptSocket} \cup TableFds(c))
      /\ \A p \in Procs \ {c} : /\ files'[p] = files[p]
                                /\ descriptors'[p] = descriptors[p]
      /\ worker[c] = "forked" /\ worker'[c] = "serving"
      /\ \A d \in Conns \ {c} : worker'[d] = worker[d]
      /\ backlog' \in {backlog, <<>>}
  BY DEF CloseInherited, CloseDescriptors, ToClose, KernelQueue, TypeOK
<1>2. \A f \in Fds : files'[c][f] \in {files[c][f], None}
  BY <1>1 DEF Closed
<1>3. OneFdEach'
  BY <1>1 DEF ConnInv, OneFdEach
<1>4. QueuedOnce' /\ \A d \in Conns : Queued(d)' => Queued(d)
  BY <1>1 DEF ConnInv, QueuedOnce, Queued, IsInjective
<1>5. QueuedUnheld'
  <2>1. \A p \in Procs : \A f \in Fds : files'[p][f] \in {files[p][f], None}
    BY <1>1, <1>2
  <2>2. \A p \in Procs : \A d \in Conns : Holds(p, d)' => Holds(p, d)
    BY <2>1 DEF Holds
  <2>3. QED
    BY <1>4, <2>2 DEF ConnInv, QueuedUnheld
<1>6. NoWorkerNoFiles' /\ ForkedInherits'
  BY <1>1 DEF ConnInv, NoWorkerNoFiles, ForkedInherits, Inherits, TableFds
<1>7. WorkerIsolation'
  <2>1. Holds(c, c)' /\ \A f \in Fds : files'[c][f] \in {c, None}
    BY <1>1 DEF ConnInv, ForkedInherits, Inherits, Closed, Holds
  <2>2. ASSUME NEW d \in Conns \ {c}, worker'[d] = "serving"
        PROVE  Holds(d, d)' /\ \A f \in Fds : files'[d][f] \in {d, None}
    <3>1. files'[d] = files[d] /\ worker[d] = "serving"
      BY <1>1, <2>2
    <3>2. QED
      BY <3>1 DEF ConnInv, WorkerIsolation, Holds
  <2>3. QED
    BY <2>1, <2>2 DEF WorkerIsolation
<1>8. ExclusiveHandoff'
  BY <1>1 DEF ConnInv, ExclusiveHandoff, Waiting
<1>9. QED
  BY <1>3, <1>4, <1>5, <1>6, <1>7, <1>8 DEF ConnInv

LEMMA ConnInvWorkerExit ==
  ASSUME TypeOK, ConnInv, NEW c \in Conns, WorkerExit(c)
  PROVE  ConnInv'
<1> USE ConstantTypes
<1>1. /\ files'[c] = [f \in Fds |-> None]
      /\ \A p \in Procs \ {c} : files'[p] = files[p]
      /\ descriptors' = descriptors
      /\ worker'[c] = "none"
      /\ \A d \in Conns \ {c} : worker'[d] = worker[d]
      /\ backlog' \in {backlog, <<>>}
  BY DEF WorkerExit, Exit, KernelQueue, TypeOK
<1>2. OneFdEach'
  BY <1>1 DEF ConnInv, OneFdEach
<1>3. QueuedOnce' /\ \A d \in Conns : Queued(d)' => Queued(d)
  BY <1>1 DEF ConnInv, QueuedOnce, Queued, IsInjective
<1>4. QueuedUnheld'
  BY <1>1, <1>3 DEF ConnInv, QueuedUnheld, Holds
<1>5. NoWorkerNoFiles' /\ ForkedInherits' /\ WorkerIsolation' /\ ExclusiveHandoff'
  BY <1>1 DEF ConnInv, NoWorkerNoFiles, ForkedInherits, Inherits, TableFds,
     WorkerIsolation, ExclusiveHandoff, Holds, Waiting
<1>6. QED
  BY <1>2, <1>3, <1>4, <1>5 DEF ConnInv

LEMMA ConnInvConnect ==
  ASSUME TypeOK, ConnInv, NEW c \in Conns, Connect(c)
  PROVE  ConnInv'
<1>1. /\ backlog \in Seq(Conns) /\ backlog' = Append(backlog, c)
      /\ \A n \in DOMAIN backlog : backlog[n] # c
      /\ \A p \in Procs : ~Holds(p, c)
      /\ UNCHANGED <<files, descriptors, worker>>
  BY DEF Connect, Queued, TypeOK, tableVars
<1>2. QueuedOnce' /\ \A d \in Conns : Queued(d)' => d = c \/ Queued(d)
  BY <1>1, AppendToDistinct DEF ConnInv, QueuedOnce, Queued
<1>3. QueuedUnheld'
  BY <1>1, <1>2 DEF ConnInv, QueuedUnheld, Holds
<1>4. QED
  BY <1>1, <1>2, <1>3 DEF ConnInv, OneFdEach, NoWorkerNoFiles, ForkedInherits,
     Inherits, TableFds, WorkerIsolation, ExclusiveHandoff, Holds, Waiting

LEMMA NextConnInv == TypeOK /\ TableInv /\ ConnInv /\ [Next]_vars => ConnInv'
<1> SUFFICES ASSUME TypeOK, TableInv, ConnInv, [Next]_vars
             PROVE  ConnInv'
  OBVIOUS
<1> USE ConstantTypes DEF loopVars, tableVars, kernelVars
<1>1. CASE InitDescriptorSet
  <2>1. /\ \A f \in Fds : files'[Server][f] \in {files[Server][f], None}
        /\ \A c \in Conns : files'[c] = files[c]
    BY <1>1 DEF InitDescriptorSet, PurgeAndWatch, Closed, TypeOK
  <2>2. /\ \A s \in Slots :
              descriptors'[Server][s] \in {descriptors[Server][s], Empty}
        /\ \A c \in Conns : descriptors'[c] = descriptors[c]
    BY <1>1 DEF InitDescriptorSet, PurgeAndWatch, TypeOK
  <2>3. worker' = worker /\ backlog' \in {backlog, <<>>}
    BY <1>1 DEF InitDescriptorSet, PurgeAndWatch
  <2>4. QED
    BY <2>1, <2>2, <2>3, ConnInvServerCloses
<1>2. CASE StopListening
  <2>1. /\ \A f \in Fds : files'[Server][f] \in {files[Server][f], None}
        /\ \A c \in Conns : files'[c] = files[c]
    BY <1>2 DEF StopListening, CloseDescriptors, ToClose, Closed, TypeOK
  <2>2. /\ \A s \in Slots :
              descriptors'[Server][s] \in {descriptors[Server][s], Empty}
        /\ \A c \in Conns : descriptors'[c] = descriptors[c]
    BY <1>2 DEF StopListening, CloseDescriptors, ToClose, TypeOK
  <2>3. worker' = worker /\ backlog' \in {backlog, <<>>}
    BY <1>2 DEF StopListening, CloseDescriptors, ToClose, KernelQueue
  <2>4. QED
    BY <2>1, <2>2, <2>3, ConnInvServerCloses
<1>3. CASE SelectPanics
  <2>1. /\ \A f \in Fds : files'[Server][f] \in {files[Server][f], None}
        /\ \A c \in Conns : files'[c] = files[c]
    BY <1>3 DEF SelectPanics, Exit, TypeOK
  <2>2. /\ \A s \in Slots :
              descriptors'[Server][s] \in {descriptors[Server][s], Empty}
        /\ \A c \in Conns : descriptors'[c] = descriptors[c]
    BY <1>3 DEF SelectPanics, TypeOK
  <2>3. worker' = worker /\ backlog' \in {backlog, <<>>}
    BY <1>3 DEF SelectPanics, Exit, KernelQueue
  <2>4. QED
    BY <2>1, <2>2, <2>3, ConnInvServerCloses
<1>4. CASE ScanExpired
  <2>1. /\ \A f \in Fds : files'[Server][f] \in {files[Server][f], None}
        /\ \A c \in Conns : files'[c] = files[c]
    BY <1>4 DEF ScanExpired, Closed, TypeOK
  <2>2. /\ \A s \in Slots :
              descriptors'[Server][s] \in {descriptors[Server][s], Empty}
        /\ \A c \in Conns : descriptors'[c] = descriptors[c]
    BY <1>4 DEF ScanExpired, ClearSlot, TypeOK
  <2>3. worker' = worker /\ backlog' \in {backlog, <<>>}
    BY <1>4 DEF ScanExpired
  <2>4. QED
    BY <2>1, <2>2, <2>3, ConnInvServerCloses
<1>5. CASE ScanReady
  BY <1>5, ConnInvScanReady
<1>6. CASE CloseReadySocket
  <2>1. /\ \A f \in Fds : files'[Server][f] \in {files[Server][f], None}
        /\ \A c \in Conns : files'[c] = files[c]
    BY <1>6 DEF CloseReadySocket, HandedOver, Closed, TypeOK
  <2>2. /\ \A s \in Slots :
              descriptors'[Server][s] \in {descriptors[Server][s], Empty}
        /\ \A c \in Conns : descriptors'[c] = descriptors[c]
    BY <1>6 DEF CloseReadySocket, HandedOver, TypeOK
  <2>3. worker' = worker /\ backlog' \in {backlog, <<>>}
    BY <1>6 DEF CloseReadySocket, HandedOver
  <2>4. QED
    BY <2>1, <2>2, <2>3, ConnInvServerCloses
<1>7. CASE ScanAborts
  <2>1. /\ \A f \in Fds : files'[Server][f] \in {files[Server][f], None}
        /\ \A c \in Conns : files'[c] = files[c]
    BY <1>7 DEF ScanAborts, Exit, TypeOK
  <2>2. /\ \A s \in Slots :
              descriptors'[Server][s] \in {descriptors[Server][s], Empty}
        /\ \A c \in Conns : descriptors'[c] = descriptors[c]
    BY <1>7 DEF ScanAborts, TypeOK
  <2>3. worker' = worker /\ backlog' \in {backlog, <<>>}
    BY <1>7 DEF ScanAborts, Exit, KernelQueue
  <2>4. QED
    BY <2>1, <2>2, <2>3, ConnInvServerCloses
<1>8. CASE Accept
  BY <1>8, ConnInvAccept
<1>9. CASE AcceptFails
  <2>1. backlog # <<>> /\ backlog' \in {backlog, Tail(backlog)}
    BY <1>9 DEF AcceptFails
  <2>2. QueuedOnce' /\ \A c \in Conns : Queued(c)' => Queued(c)
    <3>1. CASE backlog' = backlog
      BY <3>1 DEF ConnInv, QueuedOnce, Queued
    <3>2. CASE backlog' = Tail(backlog)
      <4>1. backlog \in Seq(Conns) /\ IsInjective(backlog)
        BY DEF TypeOK, ConnInv, QueuedOnce
      <4>2. QED
        BY <2>1, <3>2, <4>1, TailOfDistinct DEF QueuedOnce, Queued
    <3>3. QED
      BY <2>1, <3>1, <3>2
  <2>3. QED
    BY <1>9, <2>2, ConnInvQueueShrinks DEF AcceptFails
<1>10. ASSUME NEW c \in Conns, Abort(c)
       PROVE  ConnInv'
  <2>1. QueuedOnce' /\ \A d \in Conns : Queued(d)' => Queued(d)
    BY <1>10, RemoveFromDistinct DEF Abort, ConnInv, QueuedOnce, Queued, TypeOK
  <2>2. QED
    BY <1>10, <2>1, ConnInvQueueShrinks DEF Abort
<1>11. CASE UNCHANGED <<files, descriptors, worker, backlog>>
  BY <1>11, ConnInvQueueShrinks DEF ConnInv, QueuedOnce, Queued
<1>12. QED
  BY <1>1, <1>2, <1>3, <1>4, <1>5, <1>6, <1>7, <1>8, <1>9, <1>10, <1>11,
     ConnInvCloseInherited, ConnInvWorkerExit, ConnInvConnect
     DEF Next, ServerStep, Signal, SelectReady, Reported, ScanIdle, SelectInterrupted,
         ForkerStop, ClientActs, Tick, vars

-----------------------------------------------------------------------------
(* The theorems *)

Inv == TypeOK /\ TableInv /\ ConnInv

LEMMA Invariance == Spec => []Inv
<1>1. Init => Inv
  BY InitTypeOK, InitTableInv, InitConnInv DEF Inv
<1>2. Inv /\ [Next]_vars => Inv'
  BY NextTypeOK, NextTableInv, NextConnInv DEF Inv
<1>3. QED
  BY <1>1, <1>2, PTL DEF Spec

(* Whatever calls fail, the server knows every connection it has open, its *)
(* entries are distinct and the listener stays where it is.                *)
THEOREM TablesSound == Spec => []TableInv
BY Invariance, PTL DEF Inv

(* Whatever calls fail, no connection is in two hands it should not be in. *)
THEOREM HoldersSound == Spec => []ConnInv
BY Invariance, PTL DEF Inv

(* No connection leaks in the server, however often it accepts, hands over *)
(* and times out, for tables and queues of any size.                       *)
THEOREM NothingLeaks == Spec => []NoLeak
<1>1. Inv => NoLeak
  BY DEF Inv, TableInv
<1>2. QED
  BY <1>1, Invariance, PTL

(* A descriptor number that is used again is not in two entries.           *)
THEOREM EntriesDistinct == Spec => []OneSlotEach
<1>1. Inv => OneSlotEach
  BY DEF Inv, TableInv
<1>2. QED
  BY <1>1, Invariance, PTL

(* A worker that serves holds its own connection and nothing else.         *)
THEOREM WorkersIsolated == Spec => []WorkerIsolation
<1>1. Inv => WorkerIsolation
  BY DEF Inv, ConnInv
<1>2. QED
  BY <1>1, Invariance, PTL

(* A connection with a worker is not in the server's table any more.       *)
THEOREM HandoffExclusive == Spec => []ExclusiveHandoff
<1>1. Inv => ExclusiveHandoff
  BY DEF Inv, ConnInv
<1>2. QED
  BY <1>1, Invariance, PTL

-----------------------------------------------------------------------------
(* Readiness: the set that select() filled is used while other steps of    *)
(* the server, of its workers and of the clients change what it was about. *)

(* An entry that is reported and still to be looked at has its connection, *)
(* and something to read; the queue does not empty behind the report.      *)
ReportStillTrue ==
    /\ pc \in {"scan", "close"} =>
          \A s \in Slots : descriptors[Server][s] \in fdset =>
              \A c \in Conns : files[Server][descriptors[Server][s]] = c => readable[c]
    /\ pc = "accept" => AcceptSocket \in fdset
    /\ ~AbortDrops /\ pc \in {"scan", "close", "accept"} /\ AcceptSocket \in fdset
          => backlog # <<>>

ReadyInv == HandoffOnlyReady /\ ReportStillTrue

LEMMA InitReadyInv == Init => ReadyInv
BY DEF Init, ReadyInv, HandoffOnlyReady, ReportStillTrue

(* The queue lives as long as the server has the listener open. *)
LEMMA QueueKept ==
  ASSUME NEW q, KernelQueue(q), files'[Server][AcceptSocket] = Listen
  PROVE  backlog' = q
BY ConstantTypes DEF KernelQueue, Listening, Holds

(* A step by which nothing the server looks at changes. *)
LEMMA ReadyInvElsewhere ==
  ASSUME ReadyInv,
         worker' = worker \/ (\E c \in Conns : worker' = [worker EXCEPT ![c] = "none"])
             \/ (\E c \in Conns : worker[c] # "none"
                                  /\ worker' = [worker EXCEPT ![c] = "serving"]),
         worker \in [Conns -> {"none", "forked", "serving"}],
         files'[Server] = files[Server], descriptors'[Server] = descriptors[Server],
         pc' = pc, fdset' = fdset,
         \A c \in Conns : readable[c] => readable'[c],
         backlog # <<>> => backlog' # <<>>
  PROVE  ReadyInv'
BY DEF ReadyInv, HandoffOnlyReady, ReportStillTrue

LEMMA NextReadyInv == Inv /\ ReadyInv /\ [Next]_vars => ReadyInv'
<1> SUFFICES ASSUME TypeOK, TableInv, ConnInv, ReadyInv, [Next]_vars
             PROVE  ReadyInv'
  BY DEF Inv
<1> USE ConstantTypes DEF loopVars, tableVars, kernelVars
(* Outside of the scan the invariant is about the workers alone. *)
<1>a. ASSUME worker' = worker, readable' = readable,
             pc' \notin {"scan", "close", "accept"}
      PROVE  ReadyInv'
  BY <1>a DEF ReadyInv, HandoffOnlyReady, ReportStillTrue
<1>1. CASE InitDescriptorSet
  BY <1>1, <1>a DEF InitDescriptorSet, PurgeAndWatch
<1>2. CASE StopListening
  BY <1>2, <1>a DEF StopListening
<1>3. CASE SelectReady
  BY <1>3 DEF SelectReady, Reported, Ready, TableInv, ReadyInv, HandoffOnlyReady,
     ReportStillTrue
<1>4. CASE SelectPanics
  BY <1>4, <1>a DEF SelectPanics
<1>5. CASE ScanExpired
  BY <1>5 DEF ScanExpired, ClearSlot, NextSlot, MoreSlots, ListenerReady, Closed,
     ReadyInv, HandoffOnlyReady, ReportStillTrue, TypeOK
<1>6. CASE ScanReady
  <2>1. /\ pc = "scan" /\ pc' = "close" /\ fdset' = fdset
        /\ readable' = readable /\ backlog' = backlog
        /\ descriptors[Server][i] \in fdset
        /\ readySocket' = descriptors[Server][i]
        /\ i \in Slots
    BY <1>6 DEF ScanReady, TypeOK
  <2>2. files'[Server] = files[Server]
    BY <1>6 DEF ScanReady, TypeOK
  <2>3. descriptors'[Server] = Cleared
    BY <1>6, ScanReadyEffect
  <2>4. HandoffOnlyReady'
    BY <1>6, <2>1, ScanReadyEffect
       DEF ReadyInv, HandoffOnlyReady, ReportStillTrue, TypeOK
  <2>5. \A s \in Slots : descriptors'[Server][s] \in fdset =>
              \A c \in Conns : files[Server][descriptors'[Server][s]] = c => readable[c]
    <3>1. /\ descriptors[Server] \in [Slots -> Fds \cup {Empty}]
          /\ Empty \notin fdset
      BY DEF TypeOK
    <3>2. \A s \in Slots : descriptors'[Server][s] \in fdset =>
                              descriptors'[Server][s] = descriptors[Server][s]
      BY <2>1, <2>3, <3>1 DEF Cleared
    <3>3. QED
      BY <2>1, <3>2 DEF ReadyInv, ReportStillTrue
  <2>6. QED
    BY <2>1, <2>2, <2>4, <2>5 DEF ReadyInv, ReportStillTrue
<1>7. CASE CloseReadySocket
  BY <1>7 DEF CloseReadySocket, HandedOver, NextSlot, MoreSlots, ListenerReady, Closed,
     ReadyInv, HandoffOnlyReady, ReportStillTrue, TypeOK
<1>8. CASE ScanIdle
  BY <1>8 DEF ScanIdle, NextSlot, MoreSlots, ListenerReady,
     ReadyInv, HandoffOnlyReady, ReportStillTrue
<1>9. CASE ScanAborts
  BY <1>9, <1>a DEF ScanAborts
<1>10. CASE Accept
  BY <1>10, <1>a DEF Accept
<1>11. CASE AcceptFails
  BY <1>11, <1>a DEF AcceptFails
<1>12. CASE SelectInterrupted
  BY <1>12, <1>a DEF SelectInterrupted
<1>13. CASE ForkerStop
  BY <1>13, ReadyInvElsewhere DEF ForkerStop, TypeOK
<1>14. ASSUME NEW c \in Conns, CloseInherited(c) \/ WorkerExit(c)
       PROVE  ReadyInv'
  <2>1. /\ files'[Server] = files[Server] /\ descriptors'[Server] = descriptors[Server]
        /\ pc' = pc /\ fdset' = fdset /\ readable' = readable
        /\ KernelQueue(backlog)
        /\ \/ worker[c] # "none" /\ worker' = [worker EXCEPT ![c] = "serving"]
           \/ worker' = [worker EXCEPT ![c] = "none"]
    BY <1>14 DEF CloseInherited, CloseDescriptors, WorkerExit, Exit, TypeOK
  <2>2. CASE pc \in {"scan", "close", "accept"}
    <3>1. files'[Server][AcceptSocket] = Listen
      BY <2>1, <2>2 DEF TableInv
    <3>2. backlog' = backlog
      BY <2>1, <3>1, QueueKept
    <3>3. QED
      BY <2>1, <3>2, ReadyInvElsewhere DEF TypeOK
  <2>3. CASE pc \notin {"scan", "close", "accept"}
    BY <2>1, <2>3 DEF ReadyInv, HandoffOnlyReady, ReportStillTrue, TypeOK
  <2>4. QED
    BY <2>2, <2>3
<1>15. ASSUME NEW c \in Conns, Connect(c)
       PROVE  ReadyInv'
  <2>1. worker[c] = "none" /\ \A f \in Fds : files[Server][f] # c
    BY <1>15, WorkerHolds DEF Connect, Holds, TypeOK
  <2>2. \A d \in Conns \ {c} : readable'[d] = readable[d]
    BY <1>15 DEF Connect, TypeOK
  <2>3. backlog' # <<>>
    BY <1>15, AppendProperties DEF Connect, TypeOK
  <2>4. UNCHANGED <<pc, fdset, descriptors, files, worker>>
    BY <1>15 DEF Connect
  <2>5. HandoffOnlyReady'
    BY <2>1, <2>2, <2>4 DEF ReadyInv, HandoffOnlyReady
  <2>6. ASSUME pc \in {"scan", "close"}, NEW s \in Slots, descriptors[Server][s] \in fdset,
               NEW d \in Conns, files[Server][descriptors[Server][s]] = d
        PROVE  readable'[d]
    <3>1. descriptors[Server][s] \in Fds
      BY <2>6 DEF TypeOK
    <3>2. d # c
      BY <2>1, <2>6, <3>1
    <3>3. QED
      BY <2>2, <2>6, <3>2 DEF ReadyInv, ReportStillTrue
  <2>7. QED
    BY <2>3, <2>4, <2>5, <2>6 DEF ReadyInv, ReportStillTrue
<1>16. ASSUME NEW c \in Conns, ClientActs(c)
       PROVE  ReadyInv'
  BY <1>16, ReadyInvElsewhere DEF ClientActs, TypeOK
<1>17. ASSUME NEW c \in Conns, Abort(c)
       PROVE  ReadyInv'
  BY <1>17 DEF Abort, ReadyInv, HandoffOnlyReady, ReportStillTrue
<1>18. CASE Tick
  BY <1>18, ReadyInvElsewhere DEF Tick, TypeOK
<1>19. CASE UNCHANGED vars
  BY <1>19, ReadyInvElsewhere DEF vars, TypeOK
<1>20. QED
  BY <1>1, <1>2, <1>3, <1>4, <1>5, <1>6, <1>7, <1>8, <1>9, <1>10, <1>11,
     <1>12, <1>13, <1>14, <1>15, <1>16, <1>17, <1>18, <1>19
     DEF Next, ServerStep, Signal

LEMMA Readiness == Spec => []ReadyInv
BY Invariance, InitReadyInv, NextReadyInv, PTL DEF Spec

(* A worker is forked only for a connection with something to read, for    *)
(* tables of any size: no report of select() is applied to a descriptor    *)
(* that has been closed and given out again.                               *)
THEOREM HandoffReady == Spec => []HandoffOnlyReady
<1>1. ReadyInv => HandoffOnlyReady
  BY DEF ReadyInv
<1>2. QED
  BY <1>1, Readiness, PTL

(* Where the kernel keeps connections that are reset before accept(), the  *)
(* server does not wait in accept(), whatever happens since select() and   *)
(* whatever calls fail.                                                    *)
THEOREM AcceptReady == ~AbortDrops => (Spec => []AcceptNeverBlocks)
<1> SUFFICES ASSUME ~AbortDrops PROVE Spec => []AcceptNeverBlocks
  OBVIOUS
<1>1. ReadyInv => AcceptNeverBlocks
  BY DEF ReadyInv, ReportStillTrue, AcceptNeverBlocks
<1>2. QED
  BY <1>1, Readiness, PTL

-----------------------------------------------------------------------------
(* Survival *)

(* What ends the server: a setsockopt() after which a closed descriptor    *)
(* stays in the table, a select() that fails and FD_ISSET(-1) where that   *)
(* is checked.                                                             *)
Fatal == {"setsockopt", "select", "fdelt"}

SurvivalInv == ServerSurvives /\ EntriesOpen

LEMMA InitSurvivalInv == Init => SurvivalInv
BY DEF Init, SurvivalInv, ServerSurvives, EntriesOpen, Procs

LEMMA SurvivalInvElsewhere ==
  ASSUME SurvivalInv, files'[Server] = files[Server],
         descriptors'[Server] = descriptors[Server],
         pc' = pc \/ pc' # "panic"
  PROVE  SurvivalInv'
BY DEF SurvivalInv, ServerSurvives, EntriesOpen

LEMMA NextSurvivalInv ==
  ASSUME Faults \cap Fatal = {}, Inv, SurvivalInv, [Next]_vars
  PROVE  SurvivalInv'
<1> USE ConstantTypes DEF loopVars, tableVars, kernelVars, Fatal
<1>0. TypeOK /\ TableInv
  BY DEF Inv
<1>1. CASE InitDescriptorSet
  BY <1>0, <1>1 DEF InitDescriptorSet, PurgeAndWatch, Closed, Expired, SurvivalInv,
     ServerSurvives, EntriesOpen, TableInv, OneSlotEach, TypeOK
<1>2. CASE StopListening
  BY <1>0, <1>2 DEF StopListening, CloseDescriptors, SurvivalInv,
     ServerSurvives, EntriesOpen, TypeOK
<1>3. CASE SelectReady \/ SelectInterrupted \/ ScanIdle \/ AcceptFails
  BY <1>3, SurvivalInvElsewhere DEF SelectReady, SelectInterrupted, ScanIdle,
     NextSlot, AcceptFails
<1>4. CASE SelectPanics
  <2>1. fdset = {AcceptSocket} \cup TableFds(Server)
    BY <1>0, <1>4 DEF SelectPanics, TableInv
  <2>2. \A f \in fdset : files[Server][f] # None
    BY <1>0, <1>4, <2>1 DEF SelectPanics, TableInv, TableFds, SurvivalInv, EntriesOpen
  <2>3. QED
    BY <1>4, <2>2 DEF SelectPanics, BadDescriptor
<1>5. CASE ScanExpired
  BY <1>0, <1>5 DEF ScanExpired, ClearSlot, NextSlot, Closed, Expired, SurvivalInv,
     ServerSurvives, EntriesOpen, TableInv, OneSlotEach, TypeOK
<1>6. CASE ScanReady
  <2>1. descriptors'[Server] = Cleared /\ files'[Server] = files[Server]
    BY <1>0, <1>6, ScanReadyEffect DEF TypeOK
  <2>2. descriptors[Server] \in [Slots -> Fds \cup {Empty}] /\ pc' = "close"
    BY <1>0, <1>6 DEF TypeOK, ScanReady
  <2>3. QED
    BY <2>1, <2>2 DEF Cleared, SurvivalInv, ServerSurvives, EntriesOpen
<1>7. CASE CloseReadySocket
  BY <1>0, <1>7 DEF CloseReadySocket, HandedOver, NextSlot, Closed, SurvivalInv,
     ServerSurvives, EntriesOpen, TableInv, TableFds, TypeOK
<1>8. CASE ScanAborts
  BY <1>8 DEF ScanAborts
<1>9. CASE Accept
  BY <1>0, <1>9 DEF Accept, InsertDescriptor, Lowest, FreeFds, FreeSlots, SurvivalInv,
     ServerSurvives, EntriesOpen, TypeOK
<1>10. CASE ForkerStop
  BY <1>10, SurvivalInvElsewhere DEF ForkerStop
<1>11. ASSUME NEW c \in Conns, CloseInherited(c) \/ WorkerExit(c)
       PROVE  SurvivalInv'
  BY <1>0, <1>11, SurvivalInvElsewhere DEF CloseInherited, CloseDescriptors,
     WorkerExit, Exit, TypeOK
<1>12. ASSUME NEW c \in Conns, Connect(c) \/ ClientActs(c) \/ Abort(c)
       PROVE  SurvivalInv'
  BY <1>12, SurvivalInvElsewhere DEF Connect, ClientActs, Abort
<1>13. CASE Tick \/ UNCHANGED vars
  BY <1>13, SurvivalInvElsewhere DEF Tick, vars
<1>14. QED
  BY <1>1, <1>2, <1>3, <1>4, <1>5, <1>6, <1>7, <1>8, <1>9, <1>10, <1>11,
     <1>12, <1>13 DEF Next, ServerStep, Signal

LEMMA Survival == ASSUME Faults \cap Fatal = {} PROVE Spec => []SurvivalInv
<1>1. Inv /\ SurvivalInv /\ [Next]_vars => SurvivalInv'
  BY NextSurvivalInv
<1>2. QED
  BY <1>1, InitSurvivalInv, Invariance, PTL DEF Spec

(* A failing fork() or accept(), clients that come, go and reset, and the  *)
(* reuse of descriptor numbers never make the server give up, for tables   *)
(* of any size: select() does not meet a descriptor that is closed.        *)
THEOREM Survives == Faults \cap Fatal = {} => (Spec => []ServerSurvives)
<1> SUFFICES ASSUME Faults \cap Fatal = {} PROVE Spec => []ServerSurvives
  OBVIOUS
<1>1. SurvivalInv => ServerSurvives
  BY DEF SurvivalInv
<1>2. QED
  BY <1>1, Survival, PTL

(* Nothing the server closes stays in its table for the next select().     *)
THEOREM EntriesStayOpen == Faults \cap Fatal = {} => (Spec => []DescriptorsOpen)
<1> SUFFICES ASSUME Faults \cap Fatal = {} PROVE Spec => []DescriptorsOpen
  OBVIOUS
<1>1. SurvivalInv => DescriptorsOpen
  BY DEF SurvivalInv, DescriptorsOpen
<1>2. QED
  BY <1>1, Survival, PTL

-----------------------------------------------------------------------------
(* No early timeout *)

(* The times fit into an int. *)
ClockFits == MaxTime + TimeoutSecs <= IntMax

LEMMA ToIntIsIdentity ==
  ASSUME NEW t \in Nat, t <= IntMax
  PROVE  ToInt(t) = t
<1>1. IntMax \in Nat
  BY LimitsAssumption
<1>2. t + IntMax + 1 \in 0 .. 2 * (IntMax + 1) - 1
  BY <1>1
<1>3. \A m \in Nat, n \in Nat \ {0} : m < n => m % n = m
  OBVIOUS
<1>4. (t + IntMax + 1) % (2 * (IntMax + 1)) = t + IntMax + 1
  BY <1>1, <1>2, <1>3
<1>5. QED
  BY <1>1, <1>4 DEF ToInt

(* An entry expires no earlier than its connection may. *)
DeadlineInv ==
    /\ now <= MaxTime /\ epoc <= now
    /\ \A s \in Slots : \A c \in Conns :
          descriptors[Server][s] # Empty /\ files[Server][descriptors[Server][s]] = c
              => acceptedAt[c] + TimeoutSecs <= timeoutEpocs[s]

LEMMA InitDeadlineInv == Init => DeadlineInv
BY ConstantTypes, LimitsAssumption DEF Init, DeadlineInv

(* A step that leaves the server's files, clock and table alone, but for   *)
(* entries it clears or closes.                                            *)
LEMMA DeadlineInvElsewhere ==
  ASSUME DeadlineInv, now' = now, epoc' \in {epoc, now}, acceptedAt' = acceptedAt,
         TypeOK,
         \A f \in Fds : \A c \in Conns : files'[Server][f] = c => files[Server][f] = c,
         \A s \in Slots : descriptors'[Server][s] # Empty =>
             /\ descriptors'[Server][s] = descriptors[Server][s]
             /\ timeoutEpocs'[s] = timeoutEpocs[s]
  PROVE  DeadlineInv'
<1>1. \A s \in Slots : descriptors[Server][s] \in Fds \cup {Empty}
  BY ConstantTypes DEF TypeOK
<1>2. now' <= MaxTime /\ epoc' <= now'
  BY DEF DeadlineInv, TypeOK
<1>3. QED
  BY <1>1, <1>2 DEF DeadlineInv

LEMMA NextDeadlineInv ==
  ASSUME ClockFits, Inv, DeadlineInv, [Next]_vars
  PROVE  DeadlineInv'
<1> USE ConstantTypes DEF loopVars, tableVars, kernelVars
<1>0. TypeOK /\ TableInv /\ ConnInv
  BY DEF Inv
<1>1. CASE InitDescriptorSet
  BY <1>0, <1>1, DeadlineInvElsewhere
     DEF InitDescriptorSet, PurgeAndWatch, Closed, TypeOK
<1>2. CASE StopListening
  BY <1>0, <1>2, DeadlineInvElsewhere
     DEF StopListening, CloseDescriptors, Closed, TypeOK
<1>3. CASE SelectReady \/ SelectInterrupted \/ ScanIdle \/ AcceptFails
  BY <1>0, <1>3, DeadlineInvElsewhere
     DEF SelectReady, SelectInterrupted, ScanIdle, NextSlot, AcceptFails
<1>4. CASE SelectPanics \/ ScanAborts
  BY <1>0, <1>4, DeadlineInvElsewhere DEF SelectPanics, ScanAborts, Exit, TypeOK
<1>5. CASE ScanExpired
  BY <1>0, <1>5, DeadlineInvElsewhere
     DEF ScanExpired, ClearSlot, NextSlot, Closed, TypeOK
<1>6. CASE ScanReady
  <2>1. descriptors'[Server] = Cleared /\ files'[Server] = files[Server]
    BY <1>0, <1>6, ScanReadyEffect DEF TypeOK
  <2>2. /\ descriptors[Server] \in [Slots -> Fds \cup {Empty}]
        /\ timeoutEpocs' = [timeoutEpocs EXCEPT ![i] = Empty]
        /\ UNCHANGED <<now, epoc, acceptedAt>>
    BY <1>0, <1>6 DEF TypeOK, ScanReady
  <2>3. \A s \in Slots : descriptors'[Server][s] # Empty =>
             /\ descriptors'[Server][s] = descriptors[Server][s]
             /\ timeoutEpocs'[s] = timeoutEpocs[s]
    BY <1>0, <2>1, <2>2 DEF Cleared, TypeOK
  <2>4. QED
    BY <1>0, <2>1, <2>2, <2>3, DeadlineInvElsewhere
<1>7. CASE CloseReadySocket
  BY <1>0, <1>7, DeadlineInvElsewhere
     DEF CloseReadySocket, HandedOver, NextSlot, Closed, TypeOK
<1>8. CASE Accept
  <2>. DEFINE h == Head(backlog)
  <2>1. h \in Conns /\ Queued(h)
    BY <1>0, <1>8 DEF Accept, TypeOK, Queued
  <2>2. \A f \in Fds : files[Server][f] # h
    BY <1>0, <2>1 DEF ConnInv, QueuedUnheld, Holds
  <2>3. now + TimeoutSecs \in Nat /\ Deadline = now + TimeoutSecs
    BY <1>0, ToIntIsIdentity, LimitsAssumption
       DEF Deadline, ClockFits, DeadlineInv, TypeOK
  <2>4. /\ now' = now /\ epoc' = epoc
        /\ acceptedAt' = [acceptedAt EXCEPT ![h] = now]
    BY <1>8 DEF Accept
  <2>5. PICK fd \in FreeFds :
           /\ files' = [files EXCEPT ![Server][fd] = h]
                 \/ files' = [files EXCEPT ![Server][fd] = None]
           /\ \/ \E s \in FreeSlots : InsertDescriptor(fd, s)
              \/ UNCHANGED <<descriptors, timeoutEpocs>>
    BY <1>8 DEF Accept, Lowest
  <2>6. ASSUME NEW s \in Slots, NEW c \in Conns, descriptors'[Server][s] # Empty,
               files'[Server][descriptors'[Server][s]] = c
        PROVE  acceptedAt'[c] + TimeoutSecs <= timeoutEpocs'[s]
    <3>0. fd \in Fds /\ files[Server][fd] = None
      BY DEF FreeFds
    <3>1. CASE /\ descriptors'[Server][s] = descriptors[Server][s]
               /\ timeoutEpocs'[s] = timeoutEpocs[s]
      <4>1. descriptors[Server][s] \in Fds /\ descriptors[Server][s] # fd
        BY <1>0, <1>8, <2>6, <3>0, <3>1 DEF TypeOK, TableInv, EntriesOpen, Accept
      <4>2. files[Server][descriptors[Server][s]] = c
        BY <1>0, <2>5, <2>6, <3>0, <3>1, <4>1 DEF TypeOK
      <4>3. acceptedAt'[c] = acceptedAt[c]
        BY <1>0, <2>2, <2>4, <4>1, <4>2 DEF TypeOK
      <4>4. QED
        BY <2>6, <3>1, <4>2, <4>3 DEF DeadlineInv
    <3>2. CASE /\ descriptors'[Server][s] = fd
               /\ timeoutEpocs'[s] = Deadline
      <4>1. c = h
        BY <1>0, <2>5, <2>6, <3>0, <3>2 DEF TypeOK
      <4>2. acceptedAt'[c] = now
        BY <1>0, <2>1, <2>4, <4>1 DEF TypeOK
      <4>3. QED
        BY <1>0, <2>3, <3>2, <4>2, LimitsAssumption DEF TypeOK
    <3>3. QED
      BY <1>0, <2>5, <3>1, <3>2 DEF InsertDescriptor, FreeSlots, TypeOK
  <2>7. QED
    BY <2>4, <2>6 DEF DeadlineInv
<1>9. CASE ForkerStop
  BY <1>0, <1>9, DeadlineInvElsewhere DEF ForkerStop
<1>10. ASSUME NEW c \in Conns, CloseInherited(c) \/ WorkerExit(c)
       PROVE  DeadlineInv'
  BY <1>0, <1>10, DeadlineInvElsewhere DEF CloseInherited, CloseDescriptors,
     WorkerExit, Exit, TypeOK
<1>11. ASSUME NEW c \in Conns, Connect(c) \/ ClientActs(c) \/ Abort(c)
       PROVE  DeadlineInv'
  BY <1>0, <1>11, DeadlineInvElsewhere DEF Connect, ClientActs, Abort
<1>12. CASE Tick
  <2>1. now' = now + 1 /\ now' <= MaxTime /\ epoc' <= now'
    BY <1>0, <1>12, LimitsAssumption DEF Tick, DeadlineInv, TypeOK
  <2>2. QED
    BY <1>12, <2>1 DEF Tick, DeadlineInv
<1>13. CASE UNCHANGED vars
  BY <1>0, <1>13, DeadlineInvElsewhere DEF vars
<1>14. QED
  BY <1>1, <1>2, <1>3, <1>4, <1>5, <1>6, <1>7, <1>8, <1>9, <1>10, <1>11,
     <1>12, <1>13 DEF Next, ServerStep, Signal

LEMMA TimeoutStep ==
  ASSUME Inv, DeadlineInv, [Next]_vars, NEW c \in Conns, ClosedByTimeout(c)
  PROVE  now > acceptedAt[c] + TimeoutSecs
<1> USE ConstantTypes DEF loopVars, tableVars, kernelVars
<1>0. TypeOK
  BY DEF Inv
<1>1. PICK f \in Fds : files[Server][f] = c /\ files'[Server][f] # c
  BY DEF ClosedByTimeout, Holds
<1>2. ASSUME NEW s \in Slots, NEW t \in Nat, Expired(s, t), t <= now,
             descriptors[Server][s] = f
      PROVE  now > acceptedAt[c] + TimeoutSecs
  <2>1. acceptedAt[c] + TimeoutSecs <= timeoutEpocs[s] /\ timeoutEpocs[s] < t
    BY <1>1, <1>2 DEF DeadlineInv, Expired
  <2>2. acceptedAt[c] \in Nat /\ timeoutEpocs[s] \in Int /\ now \in Nat
        /\ TimeoutSecs \in Nat
    BY <1>0, LimitsAssumption DEF TypeOK
  <2>3. QED
    BY <1>2, <2>1, <2>2
<1>3. CASE InitDescriptorSet
  <2>1. PICK s \in Slots : Expired(s, now) /\ descriptors[Server][s] = f
    BY <1>0, <1>1, <1>3 DEF InitDescriptorSet, PurgeAndWatch, Closed, TypeOK
  <2>2. now \in Nat /\ now <= now
    BY <1>0 DEF TypeOK
  <2>3. QED
    BY <1>2, <2>1, <2>2
<1>4. CASE ScanExpired
  <2>1. i \in Slots /\ epoc \in Nat /\ epoc <= now
    BY <1>0 DEF TypeOK, DeadlineInv
  <2>2. Expired(i, epoc) /\ descriptors[Server][i] = f
    BY <1>0, <1>1, <1>4 DEF ScanExpired, Closed, TypeOK
  <2>3. QED
    BY <1>2, <2>1, <2>2
<1>5. CASE ScanReady
  BY <1>0, <1>1, <1>5, ScanReadyEffect DEF TypeOK
<1>6. CASE StopListening \/ SelectPanics \/ ScanAborts \/ SelectReady
           \/ CloseReadySocket \/ Accept \/ AcceptFails \/ SelectInterrupted
  BY <1>6 DEF StopListening, SelectPanics, ScanAborts, SelectReady,
     CloseReadySocket, Accept, AcceptFails, SelectInterrupted, ClosedByTimeout
<1>7. CASE ScanIdle \/ ForkerStop \/ Tick \/ UNCHANGED vars
  BY <1>1, <1>7 DEF ScanIdle, ForkerStop, Tick, vars
<1>8. ASSUME NEW d \in Conns, CloseInherited(d) \/ WorkerExit(d)
      PROVE  FALSE
  BY <1>0, <1>1, <1>8 DEF CloseInherited, CloseDescriptors, WorkerExit, Exit, TypeOK
<1>9. ASSUME NEW d \in Conns, Connect(d) \/ ClientActs(d) \/ Abort(d)
      PROVE  FALSE
  BY <1>1, <1>9 DEF Connect, ClientActs, Abort
<1>10. QED
  BY <1>3, <1>4, <1>5, <1>6, <1>7, <1>8, <1>9 DEF Next, ServerStep, Signal

(* As long as the clock fits into an int no connection is closed for being *)
(* idle before its time, whatever calls fail and however descriptor        *)
(* numbers and entries are reused.                                         *)
THEOREM NotTimedOutEarly == ClockFits => (Spec => NoEarlyTimeout)
<1> SUFFICES ASSUME ClockFits PROVE Spec => NoEarlyTimeout
  OBVIOUS
<1>1. Inv /\ DeadlineInv /\ [Next]_vars => DeadlineInv'
  BY NextDeadlineInv
<1>2. Inv /\ DeadlineInv /\ [Next]_vars =>
         [\A c \in Conns : ClosedByTimeout(c)
              => now > acceptedAt[c] + TimeoutSecs]_vars
  BY TimeoutStep
<1>3. QED
  BY <1>1, <1>2, InitDeadlineInv, Invariance, PTL DEF Spec, NoEarlyTimeout

-----------------------------------------------------------------------------
(* No refusal for an expired entry *)

(* What the scan has passed is free, or had not expired when the iteration *)
(* looked at the clock.                                                    *)
ScanInv ==
    /\ pc = "close" => descriptors[Server][i] = Empty
    /\ pc \in {"scan", "close", "accept"} =>
          \A s \in Slots : (pc = "accept" \/ s < i) /\ descriptors[Server][s] # Empty
                             => epoc <= timeoutEpocs[s]

LEMMA InitScanInv == Init => ScanInv
BY DEF Init, ScanInv

(* The loop moves on from an entry that is free or has not expired. *)
LEMMA ScanMovesOn ==
  ASSUME TypeOK, ScanInv, pc \in {"scan", "close"}, NextSlot, epoc' = epoc,
         \A s \in Slots : descriptors'[Server][s] # Empty =>
             /\ descriptors'[Server][s] = descriptors[Server][s]
             /\ timeoutEpocs'[s] = timeoutEpocs[s],
         descriptors'[Server][i] # Empty => epoc <= timeoutEpocs[i]
  PROVE  ScanInv'
<1>1. i \in Slots /\ Slots \subseteq Int
  BY DEF TypeOK, Slots
<1>2. \A s \in Slots : s <= i /\ descriptors'[Server][s] # Empty
                          => epoc' <= timeoutEpocs'[s]
  <2>1. TAKE s \in Slots
  <2>2. HAVE s <= i /\ descriptors'[Server][s] # Empty
  <2>3. descriptors[Server][s] # Empty /\ timeoutEpocs'[s] = timeoutEpocs[s]
    BY <2>2
  <2>4. CASE s = i
    BY <2>2, <2>3, <2>4
  <2>5. CASE s < i
    BY <2>3, <2>5 DEF ScanInv
  <2>6. QED
    BY <1>1, <2>2, <2>4, <2>5
<1>3. CASE MoreSlots
  <2>1. i' = i + 1 /\ pc' = "scan"
    BY <1>3 DEF NextSlot
  <2>2. \A s \in Slots : s < i' => s <= i
    BY <1>1, <2>1
  <2>3. QED
    BY <1>2, <2>1, <2>2 DEF ScanInv
<1>4. CASE ~MoreSlots
  <2>1. \A s \in Slots : s <= i
    BY <1>1, <1>4, LimitsAssumption DEF MoreSlots, Slots
  <2>2. pc' # "close"
    BY <1>4 DEF NextSlot
  <2>3. QED
    BY <1>2, <2>1, <2>2 DEF ScanInv
<1>5. QED
  BY <1>3, <1>4

LEMMA ScanInvElsewhere ==
  ASSUME ScanInv, descriptors'[Server] = descriptors[Server],
         UNCHANGED <<pc, i, epoc, timeoutEpocs>>
  PROVE  ScanInv'
BY DEF ScanInv

LEMMA NextScanInv == Inv /\ ScanInv /\ [Next]_vars => ScanInv'
<1> SUFFICES ASSUME Inv, ScanInv, [Next]_vars PROVE ScanInv'
  OBVIOUS
<1> USE ConstantTypes DEF loopVars, tableVars, kernelVars
<1>0. TypeOK
  BY DEF Inv
<1>1. CASE InitDescriptorSet \/ StopListening \/ SelectPanics \/ ScanAborts
           \/ Accept \/ AcceptFails \/ SelectInterrupted
  BY <1>1 DEF InitDescriptorSet, PurgeAndWatch, StopListening, SelectPanics,
     ScanAborts, Accept, AcceptFails, SelectInterrupted, ScanInv
<1>2. CASE SelectReady
  <2>1. \A s \in Slots : ~(s < 0)
    BY LimitsAssumption DEF Slots
  <2>2. QED
    BY <1>2, <2>1 DEF SelectReady, ScanInv
<1>3. CASE ScanExpired
  BY <1>0, <1>3, ScanMovesOn DEF ScanExpired, ClearSlot, TypeOK
<1>4. CASE ScanIdle
  <2>1. descriptors[Server][i] # Empty => epoc <= timeoutEpocs[i]
    BY <1>0, <1>4 DEF ScanIdle, Expired, TypeOK
  <2>2. QED
    BY <1>0, <1>4, <2>1, ScanMovesOn DEF ScanIdle
<1>5. CASE ScanReady
  <2>1. descriptors'[Server] = Cleared
    BY <1>0, <1>5, ScanReadyEffect
  <2>2. /\ descriptors[Server] \in [Slots -> Fds \cup {Empty}]
        /\ i \in Slots /\ timeoutEpocs \in [Slots -> Int]
        /\ pc = "scan" /\ pc' = "close" /\ i' = i /\ epoc' = epoc
        /\ timeoutEpocs' = [timeoutEpocs EXCEPT ![i] = Empty]
    BY <1>0, <1>5 DEF ScanReady, TypeOK
  <2>3. QED
    BY <2>1, <2>2 DEF Cleared, ScanInv
<1>6. CASE CloseReadySocket
  BY <1>0, <1>6, ScanMovesOn DEF CloseReadySocket, ScanInv
<1>7. CASE ForkerStop \/ Tick \/ UNCHANGED vars
  BY <1>7, ScanInvElsewhere DEF ForkerStop, Tick, vars
<1>8. ASSUME NEW c \in Conns, CloseInherited(c) \/ WorkerExit(c)
      PROVE  ScanInv'
  BY <1>0, <1>8, ScanInvElsewhere DEF CloseInherited, CloseDescriptors,
     WorkerExit, Exit, TypeOK
<1>9. ASSUME NEW c \in Conns, Connect(c) \/ ClientActs(c) \/ Abort(c)
      PROVE  ScanInv'
  BY <1>9, ScanInvElsewhere DEF Connect, ClientActs, Abort
<1>10. QED
  BY <1>1, <1>2, <1>3, <1>4, <1>5, <1>6, <1>7, <1>8, <1>9
     DEF Next, ServerStep, Signal

(* A connection leaves the queue at the end of an iteration and is not     *)
(* kept only if accept() finds every entry taken.                          *)
LEMMA RefusalStep ==
  ASSUME Faults \cap {"accept", "setsockopt"} = {}, Inv, ScanInv, [Next]_vars,
         NEW c \in Conns, pc = "accept", pc' = "loop",
         Queued(c), ~Queued(c)', ~Holds(Server, c)'
  PROVE  \A s \in Slots : descriptors[Server][s] # Empty /\ epoc <= timeoutEpocs[s]
<1> USE ConstantTypes DEF loopVars, tableVars, kernelVars
<1>0. TypeOK /\ TableInv
  BY DEF Inv
<1>1. Accept \/ AcceptFails
  BY DEF Next, ServerStep, Signal, InitDescriptorSet, StopListening, SelectReady,
     SelectPanics, ScanExpired, ScanReady, CloseReadySocket, ScanIdle, ScanAborts,
     SelectInterrupted, ForkerStop, CloseInherited, WorkerExit, Connect,
     ClientActs, Abort, Tick, vars
<1>2. ~AcceptFails
  BY DEF AcceptFails, Queued
<1>3. PICK fd \in FreeFds :
         /\ files' = [files EXCEPT ![Server][fd] =
                        IF FreeSlots # {} THEN Head(backlog) ELSE None]
         /\ KernelQueue(Tail(backlog))
         /\ backlog # <<>>
  BY <1>1, <1>2 DEF Accept, Lowest
<1>4. fd \in Fds /\ fd # AcceptSocket
  BY <1>0, <1>3 DEF FreeFds, TableInv
<1>5. Listening'
  BY <1>0, <1>3, <1>4 DEF Listening, Holds, TableInv, TypeOK
<1>6. backlog' = Tail(backlog)
  BY <1>3, <1>5 DEF KernelQueue
<1>7. c = Head(backlog)
  <2>1. PICK n \in 1 .. Len(backlog) : backlog[n] = c
    BY <1>0 DEF Queued, TypeOK
  <2>2. n = 1
    <3>1. SUFFICES ASSUME n # 1 PROVE FALSE
      OBVIOUS
    <3>2. n - 1 \in DOMAIN Tail(backlog) /\ Tail(backlog)[n - 1] = c
      BY <1>0, <1>3, <2>1, <3>1 DEF TypeOK
    <3>3. QED
      BY <1>6, <3>2 DEF Queued
  <2>3. QED
    BY <2>1, <2>2
<1>8. FreeSlots = {}
  BY <1>0, <1>3, <1>4, <1>7 DEF Holds, TypeOK
<1>9. QED
  BY <1>8 DEF FreeSlots, ScanInv

(* Unless accept() or setsockopt() fails, no client is sent away for the   *)
(* sake of an entry whose time is over.                                    *)
THEOREM RefusedForALiveEntry ==
    Faults \cap {"accept", "setsockopt"} = {} => (Spec => RefusedOnlyIfFull)
<1> SUFFICES ASSUME Faults \cap {"accept", "setsockopt"} = {}
             PROVE  Spec => RefusedOnlyIfFull
  OBVIOUS
<1>1. Inv /\ ScanInv /\ [Next]_vars => ScanInv'
  BY NextScanInv
<1>2. Inv /\ ScanInv /\ [Next]_vars =>
         [\A c \in Conns :
            pc = "accept" /\ pc' = "loop" /\ Queued(c)
              /\ ~Queued(c)' /\ ~Holds(Server, c)'
            => \A s \in Slots : /\ descriptors[Server][s] # Empty
                                 /\ epoc <= timeoutEpocs[s]]_vars
  BY RefusalStep
<1>3. QED
  BY <1>1, <1>2, InitScanInv, Invariance, PTL DEF Spec, RefusedOnlyIfFull
=============================================================================
