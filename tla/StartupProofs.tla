---------------------------- MODULE StartupProofs ---------------------------
(***************************************************************************)
(* Proofs about the start, for all configuration files, addresses and      *)
(* faults: the order of the calls, what becomes of the configuration, and  *)
(* the reasons why main() may give up.                                     *)
(***************************************************************************)
EXTENDS Startup, ConfigurationProofs, TLAPS

(* The calls of main() from each one on. *)
Behind6 == {"listen", "serve", "close", "done"}
Behind5 == {"SIGINT"} \cup Behind6
Behind4 == {"SIGHUP"} \cup Behind5
Behind3 == {"chroot", "resolve", "bind", "drop"} \cup Behind4
Behind2 == {"log", "daemonize"} \cup Behind3
Steps   == {"checkUid", "options", "read"} \cup Behind2

LEMMA OrderIs ==
  /\ DOMAIN Order = 1 .. 15
  /\ Order[1] = "checkUid" /\ Order[2] = "options" /\ Order[3] = "read"
  /\ Order[4] = "log" /\ Order[5] = "daemonize" /\ Order[6] = "chroot"
  /\ Order[7] = "resolve" /\ Order[8] = "bind" /\ Order[9] = "drop"
  /\ Order[10] = "SIGHUP" /\ Order[11] = "SIGINT" /\ Order[12] = "listen"
  /\ Order[13] = "serve" /\ Order[14] = "close" /\ Order[15] = "done"
BY DEF Order

LEMMA PlaceIs ==
  \A n \in 1 .. 15 : n = 1 \/ n = 2 \/ n = 3 \/ n = 4 \/ n = 5 \/ n = 6 \/ n = 7 \/ n = 8
                     \/ n = 9 \/ n = 10 \/ n = 11 \/ n = 12 \/ n = 13 \/ n = 14 \/ n = 15
OBVIOUS

LEMMA AfterAt ==
  ASSUME NEW m \in 1 .. 14
  PROVE  After(Order[m]) = Order[1 + m]
<1>1. \A n \in DOMAIN Order : Order[n] = Order[m] => n = m
  BY OrderIs, PlaceIs
<1>2. (CHOOSE n \in DOMAIN Order : Order[n] = Order[m]) = m
  BY <1>1, OrderIs
<1>3. QED
  BY <1>2 DEF After

LEMMA AfterIs ==
  /\ After("checkUid") = "options" /\ After("options") = "read"
  /\ After("read") = "log" /\ After("log") = "daemonize"
  /\ After("daemonize") = "chroot" /\ After("chroot") = "resolve"
  /\ After("resolve") = "bind" /\ After("bind") = "drop"
  /\ After("drop") = "SIGHUP" /\ After("SIGHUP") = "SIGINT"
  /\ After("SIGINT") = "listen" /\ After("listen") = "serve"
  /\ After("serve") = "close" /\ After("close") = "done"
<1>1. \A m \in 1 .. 14 : After(Order[m]) = Order[1 + m]
  BY AfterAt
<1>2. After(Order[1]) = Order[2] /\ After(Order[2]) = Order[3] /\ After(Order[3]) = Order[4]
      /\ After(Order[4]) = Order[5] /\ After(Order[5]) = Order[6]
      /\ After(Order[6]) = Order[7] /\ After(Order[7]) = Order[8]
      /\ After(Order[8]) = Order[9] /\ After(Order[9]) = Order[10]
      /\ After(Order[10]) = Order[11] /\ After(Order[11]) = Order[12]
      /\ After(Order[12]) = Order[13] /\ After(Order[13]) = Order[14]
      /\ After(Order[14]) = Order[15]
  BY <1>1
<1>3. QED
  BY <1>2, OrderIs

-----------------------------------------------------------------------------
(* What has been done when a call of main() is reached. *)
Dropped == \A who \in {"user", "group"} :
             /\ ids[who].real # "root" /\ ids[who].effective # "root"
             /\ ids[who].saved # "root"

OrderInv ==
  /\ pc \in Behind2 => result \in {"ok", "unread"}
  /\ pc \in Behind3 => detached = daemonize
  /\ pc \in Behind4 => Dropped
  /\ pc \in Behind5 => "SIGHUP" \in handled
  /\ pc \in Behind6 => handled = Signals

Typed ==
  /\ pc \in Steps \cup {"exited"}
  /\ ids \in [{"user", "group"} -> Ids]
  /\ handled \subseteq Signals

Inv == Typed /\ OrderInv

LEMMA InitInv == Init => Inv
BY OrderIs DEF Init, Inv, Typed, OrderInv, Steps, Behind2, Behind3, Behind4, Behind5, Behind6

(* A call that changes nothing the invariant speaks of, and is followed by *)
(* a step with the same demands. *)
LEMMA StepInv ==
  ASSUME Inv, UNCHANGED <<ids, daemonize, detached, handled, result>>,
         pc' \in Steps \cup {"exited"},
         pc' \in Behind2 => pc \in Behind2 \/ result \in {"ok", "unread"},
         pc' \in Behind3 => pc \in Behind3, pc' \in Behind4 => pc \in Behind4,
         pc' \in Behind5 => pc \in Behind5, pc' \in Behind6 => pc \in Behind6
  PROVE  Inv'
BY DEF Inv, Typed, OrderInv, Dropped

LEMMA DropInv ==
  ASSUME Inv, DropPriviledges
  PROVE  Inv'
<1> USE DEF Steps, Behind2, Behind3, Behind4, Behind5, Behind6
<1>1. pc = "drop" /\ ids \in [{"user", "group"} -> Ids]
      /\ (pc' = "exited" \/ pc' = "SIGHUP")
  BY AfterIs DEF Inv, Typed, DropPriviledges, Pass, Panic
<1>2. ids' = [who \in {"user", "group"} |-> SetRealAndEffective(ids[who])]
  BY <1>1 DEF DropPriviledges
<1>3. ASSUME NEW who \in {"user", "group"}
      PROVE  ids'[who] \in Ids /\ ids'[who].real = ids[who].real
             /\ ids'[who].effective = ids[who].real /\ ids'[who].saved = ids[who].real
  BY <1>1, <1>2 DEF SetRealAndEffective, Ids
<1>4. ids' \in [{"user", "group"} -> Ids]
  BY <1>2, <1>3
<1>5. ASSUME pc' = "SIGHUP"
      PROVE  \A who \in {"user", "group"} : ids'[who].real # "root"
  BY <1>1, <1>5, AfterIs DEF DropPriviledges, Panic
<1>6. pc' = "SIGHUP" => Dropped'
  BY <1>3, <1>5 DEF Dropped
<1>7. UNCHANGED <<daemonize, detached, handled, result>>
  BY DEF DropPriviledges, sigVars, readVars
<1>8. QED
  BY <1>1, <1>4, <1>6, <1>7 DEF Inv, Typed, OrderInv

LEMMA RegisterInv ==
  ASSUME Inv, NEW signal \in Signals, RegisterSignal(signal)
  PROVE  Inv'
<1> USE DEF Steps, Behind2, Behind3, Behind4, Behind5, Behind6
<1>1. /\ UNCHANGED <<ids, daemonize, detached, result>>
      /\ handled' = handled \cup {signal}
      /\ \/ signal = "SIGHUP" /\ pc = "SIGHUP" /\ pc' = "SIGINT"
         \/ signal = "SIGINT" /\ pc = "SIGINT" /\ pc' = "listen"
  BY AfterIs DEF RegisterSignal, Pass, Signals, procVars, readVars
<1>2. QED
  BY <1>1 DEF Inv, Typed, OrderInv, Dropped, Signals

LEMMA NextInv ==
  ASSUME Inv, [Next]_vars
  PROVE  Inv'
<1> USE DEF Steps, Behind2, Behind3, Behind4, Behind5, Behind6, procVars, sigVars,
            netVars, readVars, readerVars, Pass, Panic
<1>0. pc \in Steps \cup {"exited"}
  BY DEF Inv, Typed
<1>1. CASE CheckUid
  <2>1. /\ UNCHANGED <<ids, daemonize, detached, handled, result>>
        /\ pc = "checkUid" /\ (pc' = "options" \/ pc' = "exited")
    BY <1>1, AfterIs DEF CheckUid
  <2>2. QED
    BY <2>1, StepInv
<1>2. CASE ParseCmdLineOpts
  <2>1. /\ UNCHANGED <<ids, detached, handled, result>>
        /\ pc' = "read" \/ pc' = "exited"
    BY <1>2, AfterIs DEF ParseCmdLineOpts
  <2>2. QED
    BY <2>1 DEF Inv, Typed, OrderInv
<1>3. CASE ReadFile
  <2>1. /\ UNCHANGED <<ids, daemonize, detached, handled>> /\ pc = "read"
        /\ \/ pc' = "read" \/ pc' = "exited"
           \/ pc' = "log" /\ result' = result /\ result \in {"ok", "unread"}
    BY <1>3, AfterIs DEF ReadFile
  <2>2. QED
    BY <2>1 DEF Inv, Typed, OrderInv
<1>4. CASE LogOpen
  <2>1. /\ UNCHANGED <<ids, daemonize, detached, handled, result>>
        /\ pc = "log" /\ pc' = "daemonize"
    BY <1>4, AfterIs DEF LogOpen
  <2>2. QED
    BY <2>1, StepInv
<1>5. CASE Daemonize
  <2>1. /\ UNCHANGED <<ids, daemonize, handled, result>> /\ detached' = daemonize
        /\ pc = "daemonize" /\ pc' = "chroot"
    BY <1>5, AfterIs DEF Daemonize
  <2>2. QED
    BY <2>1 DEF Inv, Typed, OrderInv
<1>6. CASE ChangeRoot
  <2>1. /\ UNCHANGED <<ids, daemonize, detached, handled, result>>
        /\ pc = "chroot" /\ (pc' = "resolve" \/ pc' = "exited")
    BY <1>6, AfterIs DEF ChangeRoot
  <2>2. QED
    BY <2>1, StepInv
<1>7. CASE RetrieveAddrInfo
  <2>1. /\ UNCHANGED <<ids, daemonize, detached, handled, result>>
        /\ pc = "resolve" /\ (pc' = "bind" \/ pc' = "exited")
    BY <1>7, AfterIs DEF RetrieveAddrInfo
  <2>2. QED
    BY <2>1, StepInv
<1>8. CASE TryBindTo
  <2>1. /\ UNCHANGED <<ids, daemonize, detached, handled, result>>
        /\ pc = "bind" /\ (pc' = "drop" \/ pc' = "exited" \/ pc' = "bind")
    BY <1>8, AfterIs DEF TryBindTo, BindTo, PassOver
  <2>2. QED
    BY <2>1, StepInv
<1>9. CASE Listen
  <2>1. /\ UNCHANGED <<ids, daemonize, detached, handled, result>>
        /\ pc = "listen" /\ pc' = "serve"
    BY <1>9, AfterIs DEF Listen
  <2>2. QED
    BY <2>1, StepInv
<1>10. CASE Serve
  <2>1. /\ UNCHANGED <<ids, daemonize, detached, handled, result>>
        /\ pc = "serve" /\ pc' = "close"
    BY <1>10, AfterIs DEF Serve
  <2>2. QED
    BY <2>1, StepInv
<1>11. CASE Close
  <2>1. /\ UNCHANGED <<ids, daemonize, detached, handled, result>>
        /\ pc = "close" /\ pc' = "done"
    BY <1>11, AfterIs DEF Close
  <2>2. QED
    BY <2>1, StepInv
<1>12. CASE CallFails
  <2>1. UNCHANGED <<ids, daemonize, detached, handled, result>> /\ pc' = "exited"
    BY <1>12 DEF CallFails
  <2>2. QED
    BY <2>1, StepInv
<1>13. ASSUME NEW signal \in Signals, Signal(signal)
       PROVE  Inv'
  <2>1. UNCHANGED <<ids, daemonize, detached, handled, result>>
        /\ (pc' = pc \/ pc' = "exited")
    BY <1>13 DEF Signal
  <2>2. QED
    BY <1>0, <2>1, StepInv
<1>14. CASE UNCHANGED vars
  BY <1>0, <1>14, StepInv DEF vars
<1>15. QED
  BY <1>1, <1>2, <1>3, <1>4, <1>5, <1>6, <1>7, <1>8, <1>9, <1>10, <1>11, <1>12, <1>13,
     <1>14, DropInv, RegisterInv DEF Next

LEMMA InvSafe ==
  ASSUME Inv, pc = "serve"
  PROVE  SafeToServe
<1> USE DEF Behind2, Behind3, Behind4, Behind5, Behind6
<1>1. /\ Dropped /\ ids \in [{"user", "group"} -> Ids]
      /\ handled = Signals /\ detached = daemonize /\ result \in {"ok", "unread"}
  BY DEF Inv, Typed, OrderInv
<1>2. ASSUME NEW who \in {"user", "group"}
      PROVE  "root" \notin Range(ids[who])
  BY <1>1 DEF Dropped, Ids, Range
<1>3. QED
  BY <1>1, <1>2 DEF SafeToServe

(* Nothing is served before privileges are gone for good, both signals     *)
(* have their handlers, the process is detached if it was to be and the    *)
(* configuration has been read to its end; whatever fails on the way.      *)
THEOREM ServesSafely == Spec => [](pc = "serve" => SafeToServe)
<1>1. Inv => (pc = "serve" => SafeToServe)
  BY InvSafe
<1>2. QED
  BY <1>1, InitInv, NextInv, PTL DEF Spec

-----------------------------------------------------------------------------
(* What main() keeps beside the order: its ids are those it may start with *)
(* until it changes them, and nothing is bound before bindTo().            *)
Early   == {"checkUid", "options", "read"}
Dropping == {"options", "read", "log", "daemonize", "chroot", "resolve", "bind", "drop"}

Untried  == Early \cup {"log", "daemonize", "chroot", "resolve"}

Sockets == {None} \cup (Hosts \X {config.port})

Kept ==
  /\ daemonize \in BOOLEAN /\ detached \in BOOLEAN
  /\ keepListening \in BOOLEAN /\ excused \in BOOLEAN
  /\ DOMAIN held = {"root", "log", "socket"}
  /\ held.socket \in Sockets
  /\ pc \in Early => held.socket = None
  /\ pc = "bind" => addrInfo \in Seq(Hosts) /\ config.interface \in DOMAIN Resolve
  /\ failed \subseteq Int /\ (pc \in Untried => failed = {})
  /\ pc \in {"checkUid", "options"} => result = "unread"
  /\ result = "unreadable" => excused
  /\ pc \in Dropping => \A who \in {"user", "group"} : MayStart(ids[who])

StartInv == Inv /\ ReaderInv /\ Kept

LEMMA SmallSteps ==
  /\ Range(Order) = Steps
  /\ Early \subseteq Steps /\ Dropping \subseteq Steps
<1> USE DEF Steps, Behind2, Behind3, Behind4, Behind5, Behind6
<1>1. Early \subseteq Steps /\ Dropping \subseteq Steps
  BY DEF Early, Dropping
<1>2. Range(Order) = {Order[n] : n \in 1 .. 15}
  BY OrderIs DEF Range
<1>3. \A n \in 1 .. 15 : Order[n] \in Steps
  BY OrderIs, PlaceIs
<1>4. ASSUME NEW x \in Steps
      PROVE  \E n \in 1 .. 15 : Order[n] = x
  <2>1. /\ 1 \in 1 .. 15 /\ 2 \in 1 .. 15 /\ 3 \in 1 .. 15 /\ 4 \in 1 .. 15 /\ 5 \in 1 .. 15
        /\ 6 \in 1 .. 15 /\ 7 \in 1 .. 15 /\ 8 \in 1 .. 15 /\ 9 \in 1 .. 15 /\ 10 \in 1 .. 15
        /\ 11 \in 1 .. 15 /\ 12 \in 1 .. 15 /\ 13 \in 1 .. 15 /\ 14 \in 1 .. 15 /\ 15 \in 1 .. 15
    OBVIOUS
  <2>2. QED
    BY <2>1, OrderIs, SMTT(20)
<1> HIDE DEF Steps
<1>5. QED
  BY <1>1, <1>2, <1>3, <1>4

LEMMA InitKept == Init => StartInv
<1> SUFFICES ASSUME Init
             PROVE  StartInv
  OBVIOUS
<1>1. Inv /\ ReaderInv
  BY InitInv, ReaderPrepares DEF Init
<1>2. pc = "checkUid" /\ result = "unread"
  BY OrderIs DEF Init, Prepare
<1>3. /\ daemonize \in BOOLEAN /\ detached \in BOOLEAN
      /\ keepListening \in BOOLEAN /\ excused \in BOOLEAN /\ failed = {}
  BY DEF Init
<1>4. DOMAIN held = {"root", "log", "socket"} /\ held.socket = None
  BY DEF Init
<1>5. QED
  BY <1>1, <1>2, <1>3, <1>4 DEF StartInv, Kept, Sockets, Dropping, Early, Untried

LEMMA ReadKept ==
  ASSUME Kept, ReadFile
  PROVE  Kept'
<1> USE DEF Early, Dropping, Untried
<1>1. /\ pc = "read" /\ UNCHANGED <<ids, daemonize, detached, keepListening, held, failed>>
      /\ pc' = "read" \/ pc' = "exited" \/ pc' = "log"
  BY AfterIs DEF ReadFile, Pass, Panic, procVars, sigVars, netVars
<1>2. /\ excused' \in BOOLEAN
      /\ excused => excused'
      /\ result' = "unreadable" => excused'
  <2>1. CASE UNCHANGED excused /\ (OpenFile \/ ReadLine \/ ReadOn \/ EndOfFile)
    <3>1. result' # "unreadable"
      BY <2>1 DEF OpenFile, ReadLine, ReadOn, EndOfFile
    <3>2. QED
      BY <2>1, <3>1 DEF Kept
  <2>2. CASE excused' = TRUE
    BY <2>2
  <2>3. CASE UNCHANGED <<readVars, excused>>
    BY <2>3 DEF Kept, readVars
  <2>4. QED
    BY <2>1, <2>2, <2>3 DEF ReadFile
<1>3. held'.socket = None /\ None \in Sockets'
  BY <1>1 DEF Kept, Sockets
<1>4. QED
  BY <1>1, <1>2, <1>3 DEF Kept, MayStart

LEMMA HostsAre ==
  ASSUME NEW i \in DOMAIN Resolve
  PROVE  Resolve[i] \in Seq(Hosts) /\ Resolve[i] \in Seq(STRING)
<1> DEFINE s == Resolve[i]
<1>1. s \in Seq(STRING)
  BY ResolveAssumption
<1>2. Len(s) \in Nat /\ s \in [1 .. Len(s) -> STRING] /\ DOMAIN s = 1 .. Len(s)
  BY <1>1, LenProperties
<1>3. Range(s) \subseteq Hosts
  BY DEF Hosts
<1>4. \A n \in 1 .. Len(s) : s[n] \in Range(s)
  BY <1>2 DEF Range
<1> HIDE DEF s
<1>5. s \in [1 .. Len(s) -> Hosts]
  BY <1>2, <1>3, <1>4
<1>6. s \in Seq(Hosts)
  BY <1>2, <1>5
<1>7. QED
  BY <1>1, <1>6 DEF s

(* The calls that do not read the file leave the reader as it is, and set  *)
(* the configuration only once it is read or there is none.                *)
LEMMA ReaderStays ==
  ASSUME StartInv, UNCHANGED <<result, file, stream, buffer, types>>,
         config' = config \/ (pc \in Behind2 /\ DOMAIN config' = DOMAIN config)
  PROVE  ReaderInv'
<1>1. pc \in Behind2 => result \in {"ok", "unread"}
  BY DEF StartInv, Inv, OrderInv
<1>2. QED
  BY <1>1, ReaderKeeps DEF StartInv

(* The file is opened only if nothing has been set before.                 *)
DefaultsFirst == pc \in Early /\ result = "unread" => config = Defaults

LEMMA ReaderReads ==
  ASSUME StartInv, ReadFile, DefaultsFirst
  PROVE  ReaderInv'
<1>1. ReaderInv /\ (OpenFile => config = Defaults)
  BY DEF StartInv, DefaultsFirst, Early, ReadFile, OpenFile, Pass, Panic
<1>2. CASE UNCHANGED readVars
  BY <1>2, ReaderStays DEF readVars
<1>3. \/ OpenFile \/ ReadLine \/ ReadOn \/ EndOfFile \/ FileFails
      \/ UNCHANGED readVars
  BY DEF ReadFile
<1>4. QED
  BY <1>1, <1>2, <1>3, ReaderOpens, ReaderReadsLine, ReaderReadsOn, ReaderEnds, ReaderFails

LEMMA NextKept ==
  ASSUME StartInv, [Next]_vars, DefaultsFirst
  PROVE  StartInv'
<1> USE DEF Early, Dropping, Untried
<1>0. Inv /\ ReaderInv /\ Kept /\ Inv'
  BY NextInv DEF StartInv
<1> SUFFICES ReaderInv' /\ Kept'
  BY <1>0 DEF StartInv
<1>1. CASE CheckUid
  <2>1. /\ UNCHANGED <<daemonize, detached, keepListening, ids, held, result, config>>
        /\ UNCHANGED <<file, stream, buffer, types, failed>>
    BY <1>1 DEF CheckUid, procVars, sigVars, netVars, readVars
  <2>2. ReaderInv'
    BY <2>1, ReaderStays
  <2>3. /\ excused' = (\E who \in DOMAIN ids : ~MayStart(ids[who]))
        /\ pc = "checkUid"
        /\ pc' = "exited" \/ (pc' = "options" /\ ~excused')
    BY <1>1, AfterIs DEF CheckUid, Pass, Panic
  <2>4. DOMAIN ids = {"user", "group"}
    BY <1>0 DEF Inv, Typed
  <2>5. excused' \in BOOLEAN
    BY <2>3
  <2>6. pc' = "options" => \A who \in {"user", "group"} : MayStart(ids[who])
    BY <2>3, <2>4
  <2>7. result = "unread" /\ held.socket = None
    BY <1>0, <2>3 DEF Kept
  <2>8. QED
    BY <1>0, <2>1, <2>2, <2>3, <2>5, <2>6, <2>7 DEF Kept, Sockets, Hosts, MayStart
<1>2. CASE ParseCmdLineOpts
  <2>1. /\ UNCHANGED <<detached, keepListening, ids, held, result, config>>
        /\ UNCHANGED <<file, stream, buffer, types, failed>>
    BY <1>2 DEF ParseCmdLineOpts, procVars, sigVars, netVars, readVars
  <2>2. ReaderInv'
    BY <2>1, ReaderStays
  <2>3. /\ pc = "options" /\ (pc' = "read" \/ pc' = "exited")
        /\ excused' = excused \/ excused' = TRUE
        /\ daemonize' \in BOOLEAN \/ daemonize' = daemonize
    BY <1>2, AfterIs DEF ParseCmdLineOpts, Pass, Panic
  <2>4. QED
    BY <1>0, <2>1, <2>2, <2>3 DEF Kept, Sockets, Hosts, MayStart
<1>3. CASE ReadFile
  BY <1>0, <1>3, ReadKept, ReaderReads
<1>4. CASE LogOpen
  <2>1. /\ UNCHANGED <<daemonize, detached, keepListening, ids, result, config, excused>>
        /\ UNCHANGED <<file, stream, buffer, types, failed>>
        /\ pc = "log" /\ pc' = "daemonize" /\ held' = [held EXCEPT !.log = config.logFile]
    BY <1>4, AfterIs DEF LogOpen, procVars, sigVars, netVars, readVars, Pass
  <2>2. DOMAIN held' = {"root", "log", "socket"} /\ held'.socket = held.socket
    BY <1>0, <2>1 DEF Kept
  <2>3. ReaderInv'
    BY <2>1, ReaderStays
  <2>4. QED
    BY <1>0, <2>1, <2>2, <2>3 DEF Kept, Sockets, Hosts, MayStart
<1>5. CASE Daemonize
  <2>1. /\ UNCHANGED <<daemonize, keepListening, ids, held, result, config, excused>>
        /\ UNCHANGED <<file, stream, buffer, types, failed>>
        /\ pc = "daemonize" /\ pc' = "chroot" /\ detached' = daemonize
    BY <1>5, AfterIs DEF Daemonize, procVars, sigVars, netVars, readVars, Pass
  <2>2. ReaderInv'
    BY <2>1, ReaderStays
  <2>3. QED
    BY <1>0, <2>1, <2>2 DEF Kept, Sockets, Hosts, MayStart
<1>6. CASE ChangeRoot
  <2>1. /\ UNCHANGED <<daemonize, detached, keepListening, ids, result, excused>>
        /\ UNCHANGED <<file, stream, buffer, types, failed>>
        /\ pc = "chroot" /\ (pc' = "resolve" \/ pc' = "exited")
        /\ \/ held' = held /\ config' = config
           \/ /\ held' = [held EXCEPT !.root = config.documentRoot]
              /\ config' = [config EXCEPT !.documentRoot = <<>>]
    BY <1>6, AfterIs DEF ChangeRoot, procVars, sigVars, netVars, readerVars, Pass, Panic
  <2>2. /\ DOMAIN held' = {"root", "log", "socket"} /\ held'.socket = held.socket
        /\ DOMAIN config' = DOMAIN config /\ config'.port = config.port
    BY <1>0, <2>1 DEF Kept, ReaderInv, Fields
  <2>3. pc \in Behind2
    BY <2>1 DEF Behind2, Behind3
  <2>4. ReaderInv'
    BY <2>1, <2>2, <2>3, ReaderStays
  <2>5. QED
    BY <1>0, <2>1, <2>2, <2>4 DEF Kept, Sockets, Hosts, MayStart
<1>7. CASE RetrieveAddrInfo
  <2>1. /\ UNCHANGED <<daemonize, detached, keepListening, ids, held, result, config, excused>>
        /\ UNCHANGED <<file, stream, buffer, types, failed>>
        /\ pc = "resolve"
        /\ \/ /\ pc' = "bind" /\ config.interface \in DOMAIN Resolve
              /\ addrInfo' = Resolve[config.interface]
           \/ pc' = "exited"
    BY <1>7, AfterIs DEF RetrieveAddrInfo, procVars, sigVars, netVars, readVars, Pass, Panic
  <2>2. pc' = "bind" => addrInfo' \in Seq(Hosts) /\ config'.interface \in DOMAIN Resolve
    BY <2>1, HostsAre
  <2>3. ReaderInv'
    BY <2>1, ReaderStays
  <2>4. QED
    BY <1>0, <2>1, <2>2, <2>3 DEF Kept, Sockets, Hosts, MayStart
<1>8. CASE TryBindTo
  <2>1. /\ UNCHANGED <<daemonize, detached, keepListening, ids, result, excused>>
        /\ UNCHANGED <<file, stream, buffer, types>>
        /\ pc = "bind" /\ addrInfo \in Seq(Hosts) /\ config.interface \in DOMAIN Resolve
        /\ failed \subseteq Int /\ (failed' = failed \/ failed' = failed \cup {Place})
        /\ \/ pc' = "exited" /\ UNCHANGED <<addrInfo, held, config>>
           \/ /\ addrInfo # <<>> /\ pc' = "drop"
              /\ held' = [held EXCEPT !.socket = Address]
              /\ config' = [config EXCEPT !.interface = <<>>]
           \/ /\ addrInfo # <<>> /\ pc' = "bind" /\ addrInfo' = Tail(addrInfo)
              /\ UNCHANGED <<held, config>>
    BY <1>0, <1>8, AfterIs DEF TryBindTo, BindTo, PassOver, procVars, sigVars, readerVars,
                               Pass, Panic, Kept
  <2>2. DOMAIN config' = DOMAIN config /\ config'.port = config.port
    BY <1>0, <2>1 DEF ReaderInv, Fields
  <2>3. pc \in Behind2
    BY <2>1 DEF Behind2, Behind3
  <2>4. ReaderInv'
    BY <2>1, <2>2, <2>3, ReaderStays
  <2>5. addrInfo # <<>> => Head(addrInfo) \in Hosts /\ Tail(addrInfo) \in Seq(Hosts)
    BY <2>1
  <2>6. DOMAIN held' = {"root", "log", "socket"} /\ held'.socket \in Sockets
    BY <1>0, <2>1, <2>2, <2>5 DEF Kept, Sockets, Address
  <2>7. Sockets' = Sockets /\ Hosts' = Hosts
    BY <2>2 DEF Sockets, Hosts
  <2>8. pc' = "bind" => addrInfo' \in Seq(Hosts) /\ config'.interface \in DOMAIN Resolve
    BY <2>1, <2>5
  <2>9. failed' \subseteq Int
    <3>1. Len(addrInfo) \in Nat /\ Len(Resolve[config.interface]) \in Nat
      BY <2>1, HostsAre, LenProperties
    <3>2. Place \in Int
      BY <3>1 DEF Place
    <3>3. QED
      BY <2>1, <3>2
  <2>10. QED
    BY <1>0, <2>1, <2>4, <2>6, <2>7, <2>8, <2>9 DEF Kept, MayStart
<1>9. CASE DropPriviledges
  <2>1. /\ UNCHANGED <<daemonize, detached, keepListening, held, result, config, excused>>
        /\ UNCHANGED <<file, stream, buffer, types, failed>>
        /\ pc = "drop" /\ (pc' = "SIGHUP" \/ pc' = "exited")
    BY <1>9, AfterIs DEF DropPriviledges, sigVars, netVars, readVars, Pass, Panic
  <2>2. ReaderInv'
    BY <2>1, ReaderStays
  <2>3. QED
    BY <1>0, <2>1, <2>2 DEF Kept, Sockets, Hosts
<1>10. CASE Listen \/ Serve
  <2>1. /\ UNCHANGED <<daemonize, detached, keepListening, ids, held, result, config, excused>>
        /\ UNCHANGED <<file, stream, buffer, types, failed>> /\ (pc' = "serve" \/ pc' = "close")
    BY <1>10, AfterIs DEF Listen, Serve, procVars, sigVars, netVars, readVars, Pass
  <2>2. ReaderInv'
    BY <2>1, ReaderStays
  <2>3. QED
    BY <1>0, <2>1, <2>2 DEF Kept, Sockets, Hosts, MayStart
<1>11. CASE Close
  <2>1. /\ UNCHANGED <<daemonize, detached, keepListening, ids, result, config, excused>>
        /\ UNCHANGED <<file, stream, buffer, types, failed>> /\ pc' = "done"
        /\ held' = [held EXCEPT !.socket = None, !.log = None]
    BY <1>11, AfterIs DEF Close, procVars, sigVars, netVars, readVars, Pass
  <2>2. DOMAIN held' = {"root", "log", "socket"} /\ held'.socket = None
    BY <1>0, <2>1 DEF Kept
  <2>3. ReaderInv'
    BY <2>1, ReaderStays
  <2>4. QED
    BY <1>0, <2>1, <2>2, <2>3 DEF Kept, Sockets, Hosts, MayStart
<1>12. CASE CallFails
  <2>1. /\ UNCHANGED <<daemonize, detached, keepListening, ids, held, result, config>>
        /\ UNCHANGED <<file, stream, buffer, types, failed>> /\ pc' = "exited" /\ excused' = TRUE
    BY <1>12 DEF CallFails, procVars, sigVars, netVars, readVars, Panic
  <2>2. ReaderInv'
    BY <2>1, ReaderStays
  <2>3. QED
    BY <1>0, <2>1, <2>2 DEF Kept, Sockets, Hosts, MayStart
<1>13. ASSUME NEW signal \in Signals, RegisterSignal(signal)
       PROVE  ReaderInv' /\ Kept'
  <2>1. /\ UNCHANGED <<daemonize, detached, keepListening, ids, held, result, config, excused>>
        /\ UNCHANGED <<file, stream, buffer, types, failed>> /\ (pc' = "SIGINT" \/ pc' = "listen")
    BY <1>13, AfterIs DEF RegisterSignal, procVars, netVars, readVars, Pass, Signals
  <2>2. ReaderInv'
    BY <2>1, ReaderStays
  <2>3. QED
    BY <1>0, <2>1, <2>2 DEF Kept, Sockets, Hosts, MayStart
<1>14. ASSUME NEW signal \in Signals, Signal(signal)
       PROVE  ReaderInv' /\ Kept'
  <2>1. /\ UNCHANGED <<daemonize, detached, ids, held, addrInfo, result, config>>
        /\ UNCHANGED <<file, stream, buffer, types, failed>>
        /\ \/ pc' = pc /\ excused' = excused /\ keepListening' = FALSE
           \/ pc' = "exited" /\ excused' = TRUE /\ keepListening' = keepListening
    BY <1>14 DEF Signal, procVars, netVars, readVars
  <2>2. ReaderInv'
    BY <2>1, ReaderStays
  <2>3. QED
    BY <1>0, <2>1, <2>2 DEF Kept, Sockets, Hosts, MayStart
<1>15. CASE UNCHANGED vars
  <2>1. /\ UNCHANGED <<pc, daemonize, detached, keepListening, ids, held, addrInfo>>
        /\ UNCHANGED <<result, config, excused, file, stream, buffer, types, failed>>
    BY <1>15 DEF vars, procVars, sigVars, netVars, readVars
  <2>2. ReaderInv'
    BY <2>1, ReaderStays
  <2>3. QED
    BY <1>0, <2>1, <2>2 DEF Kept, Sockets, Hosts, MayStart
<1>16. QED
  BY <1>1, <1>2, <1>3, <1>4, <1>5, <1>6, <1>7, <1>8, <1>9, <1>10, <1>11, <1>12, <1>13,
     <1>14, <1>15 DEF Next

-----------------------------------------------------------------------------
(* What becomes of the meaning m of a file that is meant, call by call.    *)
Bound  == {"drop", "SIGHUP", "SIGINT", "listen", "serve"}
Rooted == {"resolve", "bind"} \cup Bound
Logged == {"daemonize", "chroot"} \cup Rooted

Resolvable(m) == m.interface \in DOMAIN Resolve

NoneUsable(hosts, port, n) == \A i \in 1 .. n : ~Usable(hosts, port, i)

(* The first n hosts have been tried in vain. *)
Tried(hosts, port) ==
  \E n \in 0 .. Len(hosts) :
    /\ Len(addrInfo) = Len(hosts) - n
    /\ \A i \in 1 .. Len(addrInfo) : addrInfo[i] = hosts[n + i]
    /\ failed \subseteq 1 .. n /\ NoneUsable(hosts, port, n)

(* The address is that of the first host that can be used. *)
BoundFirst(hosts, port) ==
  \E n \in 1 .. Len(hosts) :
    /\ held.socket = <<hosts[n], port>> /\ Usable(hosts, port, n)
    /\ NoneUsable(hosts, port, n - 1)

(* Why main() may have ended. *)
Reason(m) == \/ m.documentRoot \notin Directories
             \/ ~Resolvable(m)
             \/ LET hosts == Resolve[m.interface]
                IN  \A n \in DOMAIN hosts : ~Usable(hosts, m.port, n)

Promise(m) ==
  /\ pc \in Early /\ result \in {"unread", "ok"} => config = m
  /\ pc \in {"log", "daemonize", "chroot"} => config = m
  /\ pc \in {"resolve", "bind"} => config.interface = m.interface /\ config.port = m.port
  /\ pc \in Logged => held.log = m.logFile
  /\ pc \in Rooted => held.root = m.documentRoot
  /\ pc = "bind" => Resolvable(m) /\ Tried(Resolve[m.interface], m.port)
  /\ pc \in Bound => Resolvable(m) /\ BoundFirst(Resolve[m.interface], m.port)
  /\ pc = "exited" /\ ~excused => Reason(m)

PromiseInv == Meant(file) => Promise(Meaning(file))

(* Before a file is opened the defaults are what is meant. *)
LEMMA NothingRead ==
  ASSUME StartInv, PromiseInv
  PROVE  DefaultsFirst
<1> SUFFICES ASSUME pc \in Early, result = "unread"
             PROVE  config = Defaults
  BY DEF DefaultsFirst
<1>1. file = <<>>
  BY DEF StartInv, ReaderInv
<1>2. Promise(Meaning(file)) /\ Meaning(file) = Defaults
  BY <1>1, NothingMeant DEF PromiseInv
<1>3. QED
  BY <1>2 DEF Promise


LEMMA InitPromise == Init => PromiseInv
<1> SUFFICES ASSUME Init
             PROVE  PromiseInv
  OBVIOUS
<1>1. pc = "checkUid" /\ config = Defaults /\ file = <<>>
  BY OrderIs DEF Init, Prepare
<1>2. Meaning(file) = Defaults
  BY <1>1, NothingMeant
<1>3. QED
  BY <1>1, <1>2 DEF PromiseInv, Promise, Logged, Rooted, Bound

(* A call that sets nothing the promise speaks of, and is followed by one  *)
(* with the same demands.                                                  *)
LEMMA PromiseKeeps ==
  ASSUME NEW m, Promise(m), UNCHANGED <<config, held, addrInfo, busy, failed, result>>,
         pc' \in Early => pc \in Early,
         pc' \in {"log", "daemonize", "chroot"} => pc \in {"log", "daemonize", "chroot"},
         pc' \in {"resolve", "bind"} => pc \in {"resolve", "bind"},
         pc' \in Logged => pc \in Logged, pc' \in Rooted => pc \in Rooted,
         pc' = "bind" => pc = "bind", pc' \in Bound => pc \in Bound,
         pc' = "exited" /\ ~excused' => Reason(m)
  PROVE  Promise(m)'
<1>1. Reason(m)' = Reason(m)
  BY DEF Reason, Resolvable, Usable
<1>2. Tried(Resolve[m.interface], m.port)' = Tried(Resolve[m.interface], m.port)
  BY DEF Tried, NoneUsable, Usable
<1>3. BoundFirst(Resolve[m.interface], m.port)' = BoundFirst(Resolve[m.interface], m.port)
  BY DEF BoundFirst, NoneUsable, Usable
<1>4. QED
  BY <1>1, <1>2, <1>3 DEF Promise, Resolvable

(* Whoever ends excused has kept its promise.                              *)
LEMMA PromiseExcused ==
  ASSUME NEW m, pc' = "exited", excused'
  PROVE  Promise(m)'
BY DEF Promise, Early, Logged, Rooted, Bound

LEMMA ReadPromise ==
  ASSUME StartInv, PromiseInv, ReadFile
  PROVE  PromiseInv'
<1> USE DEF Early, Logged, Rooted, Bound
<1>1. pc = "read" /\ ReaderInv /\ (result = "unreadable" => excused)
  BY DEF StartInv, Kept, ReadFile, Pass, Panic
<1>2. CASE pc' = pc /\ (OpenFile \/ ReadLine \/ ReadOn \/ FileFails)
  <2>1. result' \notin {"unread", "ok"}
    BY <1>2 DEF OpenFile, ReadLine, ReadOn, FileFails
  <2>2. QED
    BY <1>1, <1>2, <2>1 DEF PromiseInv, Promise
<1>3. CASE pc' = pc /\ EndOfFile
  <2>1. Meant(file) => config = Meaning(file)
    BY <1>1, <1>3, ReaderEnds
  <2>2. file' = file /\ config' = config
    BY <1>3 DEF EndOfFile, readerVars
  <2>3. Meant(file)' => config' = Meaning(file)'
    BY <2>1, <2>2
  <2>4. QED
    BY <1>1, <1>3, <2>3 DEF PromiseInv, Promise
<1>4. CASE result \in {"ok", "unread"} /\ Pass("read") /\ UNCHANGED <<readVars, excused>>
  <2>1. pc' = "log" /\ file' = file /\ config' = config
    BY <1>4, AfterIs DEF Pass, readVars
  <2>2. Meant(file) => config = Meaning(file)
    BY <1>1, <1>4 DEF PromiseInv, Promise
  <2>3. Meant(file)' => config' = Meaning(file)'
    BY <2>1, <2>2
  <2>4. QED
    BY <2>1, <2>3 DEF PromiseInv, Promise
<1>5. CASE /\ result \in {"malformed", "unreadable", "lost"} /\ Panic("read")
           /\ UNCHANGED <<readVars, excused>>
  <2>1. pc' = "exited" /\ file' = file /\ excused' = excused
    BY <1>5 DEF Panic, readVars
  <2>2. Meant(file) => excused
    BY <1>1, <1>5 DEF ReaderInv
  <2>3. Meant(file)' => excused'
    BY <2>1, <2>2
  <2>4. QED
    BY <2>1, <2>3, PromiseExcused DEF PromiseInv
<1>6. QED
  BY <1>2, <1>3, <1>4, <1>5 DEF ReadFile

(* The document root, the hosts of the interface and the first usable one. *)
LEMMA RootPromise ==
  ASSUME StartInv, NEW m, Promise(m), ChangeRoot
  PROVE  Promise(m)'
<1> USE DEF Early, Logged, Rooted, Bound
<1>1. /\ pc = "chroot" /\ config = m /\ held.log = m.logFile /\ DOMAIN config = Fields
      /\ DOMAIN held = {"root", "log", "socket"} /\ ids["user"].effective = "root"
  BY DEF StartInv, Kept, ReaderInv, Promise, ChangeRoot, Pass, Panic, MayStart, Dropping
<1>2. \/ /\ pc' = "resolve" /\ held' = [held EXCEPT !.root = config.documentRoot]
         /\ config' = [config EXCEPT !.documentRoot = <<>>]
      \/ pc' = "exited" /\ config.documentRoot \notin Directories
  BY <1>1, AfterIs DEF ChangeRoot, Pass, Panic
<1>3. CASE pc' = "resolve"
  <2>1. held'.root = m.documentRoot /\ held'.log = m.logFile
    BY <1>1, <1>2, <1>3
  <2>2. config'.interface = m.interface /\ config'.port = m.port
    BY <1>1, <1>2, <1>3 DEF Fields
  <2>3. QED
    BY <1>3, <2>1, <2>2 DEF Promise
<1>4. CASE pc' = "exited"
  BY <1>1, <1>2, <1>4 DEF Promise, Reason
<1>5. QED
  BY <1>2, <1>3, <1>4

LEMMA ResolvePromise ==
  ASSUME StartInv, NEW m, Promise(m), RetrieveAddrInfo
  PROVE  Promise(m)'
<1> USE DEF Early, Logged, Rooted, Bound
<1>1. /\ pc = "resolve" /\ config.interface = m.interface /\ config.port = m.port
      /\ held.log = m.logFile /\ held.root = m.documentRoot
      /\ UNCHANGED <<config, held, busy, failed>> /\ failed = {}
  BY DEF Promise, RetrieveAddrInfo, Pass, Panic, readVars, StartInv, Kept, Untried
<1>2. \/ pc' = "bind" /\ Resolvable(m) /\ addrInfo' = Resolve[m.interface]
      \/ pc' = "exited" /\ ~Resolvable(m)
  BY <1>1, AfterIs DEF RetrieveAddrInfo, Pass, Panic, Resolvable
<1>3. CASE pc' = "bind" /\ Resolvable(m) /\ addrInfo' = Resolve[m.interface]
  <2> DEFINE hosts == Resolve[m.interface]
  <2>1. hosts \in Seq(STRING) /\ Len(hosts) \in Nat
    BY <1>3, HostsAre, LenProperties DEF Resolvable
  <2> HIDE DEF hosts
  <2>2. addrInfo' = hosts
    BY <1>3 DEF hosts
  <2>3. /\ 0 \in 0 .. Len(hosts) /\ Len(hosts) = Len(hosts) - 0
        /\ \A i \in 1 .. Len(hosts) : hosts[i] = hosts[0 + i]
        /\ failed' \subseteq 1 .. 0
        /\ \A i \in 1 .. 0 : ~Usable(hosts, m.port, i)'
    <3>1. \A i \in 1 .. Len(hosts) : 0 + i = i
      OBVIOUS
    <3>2. QED
      BY <1>1, <2>1, <3>1
  <2>4. Tried(hosts, m.port)'
    BY <2>2, <2>3 DEF Tried, NoneUsable
  <2>5. QED
    BY <1>1, <1>3, <2>4 DEF Promise, Resolvable, hosts
<1>4. CASE pc' = "exited" /\ ~Resolvable(m)
  BY <1>4 DEF Promise, Reason, Resolvable
<1>5. QED
  BY <1>2, <1>3, <1>4

LEMMA BindPromise ==
  ASSUME StartInv, NEW m, Promise(m), TryBindTo
  PROVE  Promise(m)'
<1> USE DEF Early, Logged, Rooted, Bound
<1> DEFINE hosts == Resolve[m.interface]
           port  == m.port
<1>1. /\ pc = "bind" /\ addrInfo \in Seq(Hosts) /\ config.port = port
      /\ config.interface = m.interface
      /\ held.log = m.logFile /\ held.root = m.documentRoot
      /\ Resolvable(m) /\ Tried(hosts, port) /\ busy' = busy
      /\ DOMAIN held = {"root", "log", "socket"} /\ ids["user"].effective = "root"
  BY DEF StartInv, Kept, Promise, TryBindTo, BindTo, PassOver, Pass, Panic, MayStart, Dropping
<1>2. hosts \in Seq(STRING) /\ Len(hosts) \in Nat
  BY <1>1, HostsAre, LenProperties DEF Resolvable
<1> HIDE DEF hosts, port
<1>3. PICK n \in 0 .. Len(hosts) :
        /\ Len(addrInfo) = Len(hosts) - n
        /\ \A i \in 1 .. Len(addrInfo) : addrInfo[i] = hosts[n + i]
        /\ failed \subseteq 1 .. n /\ NoneUsable(hosts, port, n)
  BY <1>1 DEF Tried
<1>4. CASE addrInfo = <<>>
  <2>1. pc' = "exited" /\ n = Len(hosts)
    BY <1>1, <1>2, <1>3, <1>4, EmptySeq DEF TryBindTo, BindTo, PassOver, Panic
  <2>2. failed' = failed
    BY <1>4 DEF TryBindTo
  <2>3. \A i \in DOMAIN hosts : ~Usable(hosts, port, i)'
    BY <1>1, <1>2, <1>3, <2>1, <2>2, LenProperties DEF NoneUsable, Usable
  <2>4. Reason(m)'
    BY <2>3 DEF Reason, hosts, port
  <2>5. QED
    BY <2>1, <2>4 DEF Promise
<1>5. CASE addrInfo # <<>>
  <2> DEFINE k == n + 1
  <2>1. /\ Len(addrInfo) \in Nat \ {0} /\ Head(addrInfo) = addrInfo[1]
        /\ Tail(addrInfo) \in Seq(Hosts) /\ Len(Tail(addrInfo)) = Len(addrInfo) - 1
        /\ \A i \in 1 .. Len(Tail(addrInfo)) : Tail(addrInfo)[i] = addrInfo[i + 1]
    BY <1>1, <1>5, HeadTailProperties, EmptySeq, LenProperties
  <2>2. /\ k \in 1 .. Len(hosts) /\ k - 1 = n /\ k \notin 1 .. n
        /\ Len(Tail(addrInfo)) = Len(hosts) - k
    BY <1>2, <1>3, <2>1
  <2>3. Head(addrInfo) = hosts[k]
    BY <1>3, <2>1
  <2>4. /\ Address = <<hosts[k], port>>
        /\ Bindable(Address) <=> Usable(hosts, port, k)
    BY <1>1, <1>3, <2>2, <2>3 DEF Bindable, Usable, Address
  <2>5. Place = k
    <3>1. Resolve[config.interface] = hosts
      BY <1>1 DEF hosts
    <3>2. \A x \in Nat : \A y \in 0 .. x : x - (x - y) + 1 = y + 1
      OBVIOUS
    <3>3. Place = Len(hosts) - (Len(hosts) - n) + 1
      BY <1>3, <3>1 DEF Place
    <3>4. QED
      BY <1>2, <3>2, <3>3
  <2>6. \/ /\ Bindable(Address) /\ pc' = "drop" /\ failed' = failed
           /\ held' = [held EXCEPT !.socket = Address]
        \/ /\ pc' = "bind" /\ addrInfo' = Tail(addrInfo)
           /\ held' = held /\ config' = config
           /\ \/ ~Bindable(Address) /\ failed' = failed
              \/ failed' = failed \cup {Place}
    BY <1>5, AfterIs DEF TryBindTo, BindTo, PassOver, Pass
  <2> HIDE DEF k
  <2>7. CASE /\ Bindable(Address) /\ pc' = "drop" /\ failed' = failed
             /\ held' = [held EXCEPT !.socket = Address]
    <3>1. /\ held'.socket = <<hosts[k], port>>
          /\ held'.log = m.logFile /\ held'.root = m.documentRoot
      BY <1>1, <2>4, <2>7
    <3>2. Usable(hosts, port, k)' /\ NoneUsable(hosts, port, k - 1)'
      BY <1>1, <1>3, <2>2, <2>4, <2>7 DEF NoneUsable, Usable
    <3>3. BoundFirst(hosts, port)'
      BY <2>2, <3>1, <3>2 DEF BoundFirst
    <3>4. QED
      BY <1>1, <2>7, <3>1, <3>3 DEF Promise, Resolvable, hosts, port
  <2>8. CASE /\ pc' = "bind" /\ addrInfo' = Tail(addrInfo)
             /\ held' = held /\ config' = config
             /\ \/ ~Bindable(Address) /\ failed' = failed
                \/ failed' = failed \cup {Place}
    <3>1. ~Usable(hosts, port, k)'
      BY <1>1, <2>4, <2>5, <2>8 DEF Usable
    <3>2. \A i \in 1 .. k : i \in 1 .. n \/ i = k
      BY <1>2, <1>3, <2>2
    <3>3. NoneUsable(hosts, port, k)'
      <4>1. failed \subseteq failed'
        BY <2>8
      <4>2. \A i \in 1 .. n : ~Usable(hosts, port, i)'
        BY <1>1, <1>3, <4>1 DEF NoneUsable, Usable
      <4>3. QED
        BY <3>1, <3>2, <4>2 DEF NoneUsable
    <3>4. failed' \subseteq 1 .. k
      <4>1. 1 .. n \subseteq 1 .. k /\ k \in 1 .. k
        BY <1>2, <2>2
      <4>2. QED
        BY <1>3, <2>5, <2>8, <4>1
    <3>5. \A i \in 1 .. Len(Tail(addrInfo)) :
            i + 1 \in 1 .. Len(addrInfo) /\ n + (i + 1) = k + i
      <4>1. \A a \in Nat : \A i \in 1 .. a - 1 : i + 1 \in 1 .. a
        OBVIOUS
      <4>2. \A i \in Nat : n + (i + 1) = n + 1 + i
        BY <1>2
      <4>3. \A i \in 1 .. Len(Tail(addrInfo)) : i \in Nat
        BY <2>1
      <4>4. Len(addrInfo) \in Nat /\ Len(Tail(addrInfo)) = Len(addrInfo) - 1
        BY <2>1
      <4>5. QED
        BY <4>1, <4>2, <4>3, <4>4 DEF k
    <3>6. \A i \in 1 .. Len(Tail(addrInfo)) : Tail(addrInfo)[i] = hosts[k + i]
      BY <1>3, <2>1, <3>5
    <3>7. k \in 0 .. Len(hosts)
      BY <1>2, <2>2
    <3>8. Tried(hosts, port)'
      <4>1. Len(addrInfo') = Len(hosts) - k
        BY <2>2, <2>8
      <4>2. \A i \in 1 .. Len(addrInfo') : addrInfo'[i] = hosts[k + i]
        BY <2>8, <3>6
      <4>3. QED
        BY <3>3, <3>7, <3>4, <4>1, <4>2 DEF Tried
    <3>9. QED
      BY <1>1, <2>8, <3>8 DEF Promise, Resolvable, hosts, port
  <2>9. QED
    BY <2>6, <2>7, <2>8
<1>6. QED
  BY <1>4, <1>5

LEMMA NextPromise ==
  ASSUME StartInv, PromiseInv, [Next]_vars
  PROVE  PromiseInv'
<1> USE DEF Early, Logged, Rooted, Bound
<1>1. CASE ReadFile
  BY <1>1, ReadPromise
<1>2. ASSUME ~ReadFile, Meant(file), NEW m, m = Meaning(file)
      PROVE  file' = file /\ Promise(m)'
  <2>0. Promise(m) /\ pc \in Steps \cup {"exited"} /\ (pc = "exited" /\ ~excused => Reason(m))
    BY <1>2 DEF PromiseInv, Promise, StartInv, Inv, Typed
  <2> DEFINE Same == UNCHANGED <<config, held, addrInfo, busy, failed, result, file>>
  <2>1. CASE CheckUid
    <3>1. Same /\ (pc' = "options" \/ (pc' = "exited" /\ excused')) /\ pc = "checkUid"
      BY <2>1, AfterIs DEF CheckUid, Pass, Panic, netVars, readVars
    <3>2. QED
      BY <2>0, <3>1, PromiseKeeps
  <2>2. CASE ParseCmdLineOpts
    <3>1. Same /\ (pc' = "read" \/ (pc' = "exited" /\ excused')) /\ pc = "options"
      BY <2>2, AfterIs DEF ParseCmdLineOpts, Pass, Panic, netVars, readVars
    <3>2. QED
      BY <2>0, <3>1, PromiseKeeps
  <2>3. CASE LogOpen
    <3>1. /\ pc = "log" /\ pc' = "daemonize" /\ held' = [held EXCEPT !.log = config.logFile]
          /\ UNCHANGED <<config, file>>
      BY <2>3, AfterIs DEF LogOpen, Pass, readVars
    <3>2. config = m /\ DOMAIN held = {"root", "log", "socket"}
      BY <2>0, <3>1 DEF Promise, StartInv, Kept
    <3>3. held'.log = m.logFile
      BY <3>1, <3>2
    <3>4. QED
      BY <3>1, <3>2, <3>3 DEF Promise
  <2>4. CASE Daemonize
    <3>1. Same /\ pc = "daemonize" /\ pc' = "chroot"
      BY <2>4, AfterIs DEF Daemonize, Pass, netVars, readVars
    <3>2. QED
      BY <2>0, <3>1, PromiseKeeps
  <2>5. CASE ChangeRoot
    BY <2>0, <2>5, RootPromise DEF ChangeRoot, readerVars
  <2>6. CASE RetrieveAddrInfo
    BY <2>0, <2>6, ResolvePromise DEF RetrieveAddrInfo, readVars
  <2>7. CASE TryBindTo
    BY <2>0, <2>7, BindPromise DEF TryBindTo, readerVars
  <2>8. CASE DropPriviledges
    <3>1. /\ pc = "drop" /\ ids \in [{"user", "group"} -> Ids]
          /\ \A who \in {"user", "group"} : ids[who].real # "root"
      BY <2>8 DEF DropPriviledges, Pass, Panic, StartInv, Inv, Typed, Kept, MayStart, Dropping
    <3>2. ids' = [who \in {"user", "group"} |-> SetRealAndEffective(ids[who])]
      BY <2>8, <3>1 DEF DropPriviledges
    <3>3. \A who \in {"user", "group"} :
            "root" \notin {ids'[who].real, ids'[who].effective}
      BY <3>1, <3>2 DEF SetRealAndEffective, Ids
    <3>4. Same /\ pc' = "SIGHUP"
      BY <2>8, <3>1, <3>3, AfterIs DEF DropPriviledges, Pass, netVars, readVars
    <3>5. QED
      BY <2>0, <3>1, <3>4, PromiseKeeps
  <2>9. CASE Listen
    <3>1. Same /\ pc = "listen" /\ pc' = "serve"
      BY <2>9, AfterIs DEF Listen, Pass, netVars, readVars
    <3>2. QED
      BY <2>0, <3>1, PromiseKeeps
  <2>10. CASE Serve
    <3>1. Same /\ pc' = "close"
      BY <2>10, AfterIs DEF Serve, Pass, netVars, readVars
    <3>2. QED
      BY <2>0, <3>1, PromiseKeeps
  <2>11. CASE Close
    <3>1. pc' = "done" /\ file' = file
      BY <2>11, AfterIs DEF Close, Pass, readVars
    <3>2. QED
      BY <3>1 DEF Promise
  <2>12. CASE CallFails
    <3>1. pc' = "exited" /\ excused' /\ file' = file
      BY <2>12 DEF CallFails, Panic, readVars
    <3>2. QED
      BY <3>1, PromiseExcused
  <2>13. ASSUME NEW signal \in Signals, RegisterSignal(signal)
         PROVE  file' = file /\ Promise(m)'
    <3>1. /\ Same
          /\ (pc = "SIGHUP" /\ pc' = "SIGINT") \/ (pc = "SIGINT" /\ pc' = "listen")
      BY <2>13, AfterIs DEF RegisterSignal, Pass, Signals, netVars, readVars
    <3>2. QED
      BY <2>0, <3>1, PromiseKeeps
  <2>14. ASSUME NEW signal \in Signals, Signal(signal)
         PROVE  file' = file /\ Promise(m)'
    <3>1. /\ Same /\ pc # "exited"
          /\ pc' = pc \/ (pc' = "exited" /\ excused')
      BY <2>14 DEF Signal, netVars, readVars
    <3>2. QED
      BY <2>0, <3>1, PromiseKeeps
  <2>15. CASE UNCHANGED vars
    <3>1. Same /\ pc' = pc /\ excused' = excused
      BY <2>15 DEF vars, netVars, readVars
    <3>2. QED
      BY <2>0, <3>1, PromiseKeeps
  <2>16. QED
    BY <1>2, <2>1, <2>2, <2>3, <2>4, <2>5, <2>6, <2>7, <2>8, <2>9, <2>10, <2>11, <2>12,
       <2>13, <2>14, <2>15 DEF Next
<1>3. QED
  <2>1. CASE ~ReadFile /\ Meant(file)
    <3>1. PICK m : m = Meaning(file)
      OBVIOUS
    <3>2. file' = file /\ Promise(m)'
      BY <1>2, <2>1, <3>1
    <3>3. m = Meaning(file)'
      BY <3>1, <3>2
    <3>4. QED
      BY <3>2, <3>3 DEF PromiseInv
  <2>2. CASE ~ReadFile /\ ~Meant(file)
    <3>1. file' = file
      BY <2>2 DEF Next, CheckUid, ParseCmdLineOpts, LogOpen, Daemonize, ChangeRoot,
                  RetrieveAddrInfo, TryBindTo, DropPriviledges, Listen, Serve, Close,
                  CallFails, RegisterSignal, Signal, vars, readVars, readerVars
    <3>2. QED
      BY <2>2, <3>1 DEF PromiseInv
  <2>3. QED
    BY <1>1, <2>1, <2>2

-----------------------------------------------------------------------------
LEMMA StartAlways == Spec => [](StartInv /\ PromiseInv)
<1>1. Init => StartInv /\ PromiseInv
  BY InitKept, InitPromise
<1>2. StartInv /\ PromiseInv /\ [Next]_vars => StartInv' /\ PromiseInv'
  BY NothingRead, NextKept, NextPromise
<1>3. QED
  BY <1>1, <1>2, PTL DEF Spec

(* Every variable keeps its type; the socket is none, or one of the port   *)
(* that is configured at an address getaddrinfo() knows.                   *)
THEOREM StartupTypeCorrect == Spec => []TypeOK
<1>1. StartInv => TypeOK
  <2> SUFFICES ASSUME StartInv
               PROVE  TypeOK
    OBVIOUS
  <2>1. Typed /\ ReaderInv /\ Kept
    BY DEF StartInv, Inv
  <2>2. buffer # <<>> => DOMAIN buffer = 0 .. MAX_LINE_LENGTH
    BY <2>1 DEF ReaderInv, Buffers
  <2>3. QED
    BY <2>1, <2>2, SmallSteps DEF TypeOK, Typed, ReaderInv, Kept, Sockets
<1>2. QED
  BY <1>1, StartAlways, PTL

(* A file of complete lines that fit into the buffer means what its words  *)
(* say, wherever the lines and the words lie in it, and no file of short   *)
(* lines is accepted with one that begins with no keyword.                 *)
THEOREM ConfigurationAsMeant == Spec => []ConfigurationMeant
<1>1. StartInv => ConfigurationMeant
  BY ReaderMeant DEF StartInv
<1>2. QED
  BY <1>1, StartAlways, PTL

LEMMA FirstUsableIs ==
  ASSUME NEW hosts \in Seq(STRING), NEW port, BoundFirst(hosts, port)
  PROVE  held.socket = <<FirstUsable(hosts, port), port>>
<1> DEFINE Places == {n \in DOMAIN hosts : Usable(hosts, port, n)}
<1>1. PICK n \in 1 .. Len(hosts) :
        /\ held.socket = <<hosts[n], port>> /\ Usable(hosts, port, n)
        /\ \A i \in 1 .. n - 1 : ~Usable(hosts, port, i)
  BY DEF BoundFirst, NoneUsable
<1>2. DOMAIN hosts = 1 .. Len(hosts) /\ Len(hosts) \in Nat
  BY LenProperties
<1>3. n \in Places /\ Places \subseteq Nat
  BY <1>1, <1>2
<1>4. \A i \in Places : n <= i
  <2>1. ASSUME NEW i \in Places, i < n
        PROVE  FALSE
    <3>1. i \in 1 .. n - 1
      BY <1>2, <1>1, <2>1
    <3>2. QED
      BY <1>1, <2>1, <3>1
  <2>2. QED
    BY <1>2, <1>1, <2>1
<1>5. Min(Places) = n
  <2> HIDE DEF Places
  <2>1. QED
    BY <1>3, <1>4, MinIs
<1>6. QED
  BY <1>1, <1>5 DEF FirstUsable

(* Who serves has no way back to root, has both handlers, is detached if   *)
(* it was to be, and has done what its file means: it is in the document   *)
(* root, writes to the log file and has bound the first address that is    *)
(* free and whose socket() and bind() have not failed.                     *)
THEOREM ServesWhatIsMeant == Spec => []ServesAsConfigured
<1>1. StartInv /\ PromiseInv => ServesAsConfigured
  <2> SUFFICES ASSUME StartInv, PromiseInv, pc = "serve"
               PROVE  /\ SafeToServe
                      /\ Meant(file) =>
                           LET meaning == Meaning(file)
                               hosts   == Resolve[meaning.interface]
                           IN  /\ held.root = meaning.documentRoot
                               /\ held.log = meaning.logFile
                               /\ held.socket = <<FirstUsable(hosts, meaning.port), meaning.port>>
    BY DEF ServesAsConfigured
  <2>1. SafeToServe
    BY InvSafe DEF StartInv
  <2>2. ASSUME Meant(file)
        PROVE  LET meaning == Meaning(file)
                   hosts   == Resolve[meaning.interface]
               IN  /\ held.root = meaning.documentRoot
                   /\ held.log = meaning.logFile
                   /\ held.socket = <<FirstUsable(hosts, meaning.port), meaning.port>>
    <3> DEFINE m == Meaning(file)
    <3>1. /\ held.root = m.documentRoot /\ held.log = m.logFile
          /\ Resolvable(m) /\ BoundFirst(Resolve[m.interface], m.port)
      BY <2>2 DEF PromiseInv, Promise, Logged, Rooted, Bound
    <3> HIDE DEF m
    <3>2. Resolve[m.interface] \in Seq(STRING)
      BY <3>1, HostsAre DEF Resolvable
    <3>3. held.socket = <<FirstUsable(Resolve[m.interface], m.port), m.port>>
      BY <3>1, <3>2, FirstUsableIs
    <3>4. QED
      BY <3>1, <3>3 DEF m
  <2>3. QED
    BY <2>1, <2>2
<1>2. QED
  BY <1>1, StartAlways, PTL

(* main() gives up on a file that is meant only if a call, a signal, an    *)
(* option or its ids are the reason, or its directory, its interface or an *)
(* address that can be used is not there.                                  *)
THEOREM StartsUnlessItCannot == Spec => []StartsIfItCan
<1>1. PromiseInv => StartsIfItCan
  BY DEF PromiseInv, Promise, StartsIfItCan, Reason, Resolvable
<1>2. QED
  BY <1>1, StartAlways, PTL
=============================================================================
