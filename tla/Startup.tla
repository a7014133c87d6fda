------------------------------ MODULE Startup -------------------------------
(***************************************************************************)
(* main() of eldritchd (src/src/eldritch.c): what the process does before  *)
(* it serves and after it has served, and the signals that meet it.  The   *)
(* process modelled is the one that will serve: behind daemonize() it is   *)
(* the child.  Files, users, signals and addresses are the kernel's.       *)
(***************************************************************************)
EXTENDS Configuration

CONSTANTS
    Faults,        \* the steps of main() whose system calls may fail
    Resolve,       \* what getaddrinfo() knows: interface to hosts, in order
    Busy,          \* addresses that bind() may find in use
    Privileged,    \* ports that only root may bind
    Directories    \* directories that exist

Signals == {"SIGHUP", "SIGINT"}
Users   == {"root", "httpd"}
Ids     == [real : Users, effective : Users, saved : Users]
Hosts   == UNION {Range(Resolve[i]) : i \in DOMAIN Resolve}
None    == <<>>

(* Variant: the change of uid is made before it is in nobody's way. *)
OrderDropFirst == <<"checkUid", "options", "read", "log", "daemonize", "drop",
                    "chroot", "resolve", "bind", "SIGHUP", "SIGINT", "listen", "serve",
                    "close", "done">>

(* The calls of main() in their order. *)
Order == <<"checkUid", "options", "read", "log", "daemonize", "chroot", "resolve",
           "bind", "drop", "SIGHUP", "SIGINT", "listen", "serve", "close", "done">>

ASSUME ResolveAssumption == \A i \in DOMAIN Resolve : Resolve[i] \in Seq(STRING)
ASSUME FaultsAssumption  == Faults \subseteq Range(Order)

VARIABLES
    pc,          \* the call that comes next, or "exited"
    ids,         \* of the user and of the group
    daemonize,   \* opts.daemonize
    detached,    \* fork() and setsid() are done
    addrInfo,    \* the addresses that remain to be tried
    busy,        \* the addresses in use
    failed,      \* history: the places in the list of addresses whose
                 \* socket() or bind() failed although they are free
    held,        \* what the process has: root directory, log file, socket
    handled,     \* signals with a handler
    keepListening,
    excused      \* history: the ids, an option, a system call or a signal is
                 \* the reason why the process has ended

procVars == <<ids, daemonize, detached>>
sigVars  == <<handled, keepListening>>
netVars  == <<addrInfo, busy, failed>>
readVars == <<result, file, stream, buffer, config, types>>
vars == <<pc, procVars, sigVars, netVars, readVars, held, excused>>

TypeOK ==
    /\ pc \in Range(Order) \cup {"exited"}
    /\ ids \in [{"user", "group"} -> Ids]
    /\ daemonize \in BOOLEAN /\ detached \in BOOLEAN
    /\ keepListening \in BOOLEAN /\ excused \in BOOLEAN
    /\ handled \subseteq Signals
    /\ result \in Results /\ DOMAIN config = Fields
    /\ buffer # <<>> => DOMAIN buffer = 0 .. MAX_LINE_LENGTH
    /\ DOMAIN held = {"root", "log", "socket"}
    /\ held.socket \in {None} \cup (Hosts \X {config.port})
    /\ failed \subseteq Int

-----------------------------------------------------------------------------
After(step) == Order[1 + CHOOSE n \in DOMAIN Order : Order[n] = step]
Pass(step)  == pc = step /\ pc' = After(step)
Panic(step) == pc = step /\ pc' = "exited"

(* A set-uid program keeps the user that started it as its real user. *)
Init ==
    /\ pc = Order[1] /\ Prepare
    /\ ids \in [{"user", "group"} -> {i \in Ids : i.saved = i.effective}]
    /\ daemonize = TRUE /\ detached = FALSE
    /\ addrInfo = <<>> /\ busy \in SUBSET Busy /\ failed = {}
    /\ held = [root |-> <<"/">>, log |-> <<"stderr">>, socket |-> None]
    /\ handled = {} /\ keepListening = TRUE /\ excused = FALSE

MayStart(i) == i.real # "root" /\ i.effective = "root"
CheckUid ==
    /\ excused' = \E who \in DOMAIN ids : ~MayStart(ids[who])
    /\ IF excused' THEN Panic("checkUid") ELSE Pass("checkUid")
    /\ UNCHANGED <<procVars, sigVars, netVars, readVars, held>>

(* -n, -f and an option that does not exist; the file of -f "" is not read. *)
ParseCmdLineOpts ==
    /\ \/ Pass("options") /\ daemonize' \in BOOLEAN /\ UNCHANGED excused
       \/ Panic("options") /\ UNCHANGED daemonize /\ excused' = TRUE
    /\ UNCHANGED <<ids, detached, sigVars, netVars, readVars, held>>

ReadFile ==
    /\ pc = "read"
    /\ \/ UNCHANGED <<pc, excused>> /\ (OpenFile \/ ReadLine \/ ReadOn \/ EndOfFile)
       \/ UNCHANGED pc /\ "read" \in Faults /\ FileFails /\ excused' = TRUE
       \/ result \in {"ok", "unread"} /\ Pass("read") /\ UNCHANGED <<readVars, excused>>
       \/ /\ result \in {"malformed", "unreadable", "lost"} /\ Panic("read")
          /\ UNCHANGED <<readVars, excused>>
    /\ UNCHANGED <<procVars, sigVars, netVars, held>>

LogOpen ==
    /\ Pass("log") /\ held' = [held EXCEPT !.log = config.logFile]
    /\ UNCHANGED <<procVars, sigVars, netVars, readVars, excused>>

Daemonize ==
    /\ Pass("daemonize") /\ detached' = daemonize
    /\ UNCHANGED <<ids, daemonize, sigVars, netVars, readVars, held, excused>>

ChangeRoot ==
    /\ IF ids["user"].effective = "root" /\ config.documentRoot \in Directories
       THEN /\ Pass("chroot")
            /\ held' = [held EXCEPT !.root = config.documentRoot]
            /\ config' = [config EXCEPT !.documentRoot = <<>>]
       ELSE Panic("chroot") /\ UNCHANGED <<held, config>>
    /\ UNCHANGED <<procVars, sigVars, netVars, result, readerVars, types, excused>>

RetrieveAddrInfo ==
    /\ IF config.interface \in DOMAIN Resolve
       THEN Pass("resolve") /\ addrInfo' = Resolve[config.interface]
       ELSE Panic("resolve") /\ UNCHANGED addrInfo
    /\ UNCHANGED <<procVars, sigVars, busy, failed, readVars, held, excused>>

(* One turn of the loop of bindTo(): an address whose socket() or bind()   *)
(* fails is passed over, and the next one is tried.                        *)
Bindable(address) ==
    /\ address \notin busy
    /\ address[2] \in Privileged => ids["user"].effective = "root"

Address == <<Head(addrInfo), config.port>>
Place   == Len(Resolve[config.interface]) - Len(addrInfo) + 1

BindTo ==
    /\ Pass("bind") /\ addrInfo' = <<>>
    /\ held' = [held EXCEPT !.socket = Address]
    /\ config' = [config EXCEPT !.interface = <<>>]
    /\ UNCHANGED failed
PassOver ==
    /\ pc = "bind" /\ addrInfo' = Tail(addrInfo)
    /\ UNCHANGED <<pc, held, config>>

TryBindTo ==
    /\ \/ addrInfo = <<>> /\ Panic("bind") /\ UNCHANGED <<addrInfo, failed, held, config>>
       \/ addrInfo # <<>> /\ Bindable(Address) /\ BindTo
       \/ addrInfo # <<>> /\ ~Bindable(Address) /\ PassOver /\ UNCHANGED failed
       \/ /\ addrInfo # <<>> /\ Bindable(Address) /\ "bind" \in Faults
          /\ PassOver /\ failed' = failed \cup {Place}
    /\ UNCHANGED <<procVars, sigVars, busy, result, readerVars, types, excused>>

(* setreuid(id, id) and setregid(id, id) of a privileged process set the   *)
(* saved id, too.  Variant: the effective one alone.                       *)
SetEffective(i) == [i EXCEPT !.effective = i.real]
SetRealAndEffective(i) == [i EXCEPT !.effective = i.real, !.saved = i.real]

DropPriviledges ==
    /\ ids' = [who \in DOMAIN ids |-> SetRealAndEffective(ids[who])]
    /\ IF \E who \in DOMAIN ids : "root" \in {ids'[who].real, ids'[who].effective}
       THEN Panic("drop") ELSE Pass("drop")
    /\ UNCHANGED <<daemonize, detached, sigVars, netVars, readVars, held, excused>>

RegisterSignal(signal) ==
    /\ Pass(signal) /\ handled' = handled \cup {signal}
    /\ UNCHANGED <<procVars, keepListening, netVars, readVars, held, excused>>

Listen ==
    /\ Pass("listen")
    /\ UNCHANGED <<procVars, sigVars, netVars, readVars, held, excused>>

(* forker_loopRead() is left once keepListening is 0. *)
Serve ==
    /\ Pass("serve") /\ ~keepListening
    /\ UNCHANGED <<procVars, sigVars, netVars, readVars, held, excused>>

Close ==
    /\ Pass("close") /\ held' = [held EXCEPT !.socket = None, !.log = None]
    /\ UNCHANGED <<procVars, sigVars, netVars, readVars, excused>>

(* A system call of this step fails, and main() or what it calls exits.    *)
(* Of reading and binding the actions above say what a failure does.       *)
CallFails ==
    /\ pc \in Faults \ {"read", "bind"} /\ Panic(pc) /\ excused' = TRUE
    /\ pc = "daemonize" => daemonize
    /\ UNCHANGED <<procVars, sigVars, netVars, readVars, held>>

(* forker_stop(), or the end of a process that has not registered it. *)
Signal(signal) ==
    /\ pc \notin {"exited", "done"}
    /\ IF signal \in handled THEN keepListening' = FALSE /\ UNCHANGED <<pc, excused>>
       ELSE pc' = "exited" /\ excused' = TRUE /\ UNCHANGED keepListening
    /\ UNCHANGED <<procVars, handled, netVars, readVars, held>>

Next ==
    \/ CheckUid \/ ParseCmdLineOpts \/ ReadFile \/ LogOpen \/ Daemonize
    \/ ChangeRoot \/ RetrieveAddrInfo \/ TryBindTo \/ DropPriviledges
    \/ Listen \/ Serve \/ Close \/ CallFails
    \/ \E signal \in Signals : RegisterSignal(signal) \/ Signal(signal)

Spec == Init /\ [][Next]_vars

-----------------------------------------------------------------------------
(* What must be done before the first client. *)
SafeToServe ==
    /\ \A who \in DOMAIN ids : "root" \notin Range(ids[who])
    /\ handled = Signals /\ detached = daemonize
    /\ result \in {"ok", "unread"}

(* The address of a host can be used: it is free, and nothing failed.      *)
Usable(hosts, port, n) == <<hosts[n], port>> \notin busy /\ n \notin failed

(* The first of the hosts whose address can be used.                       *)
FirstUsable(hosts, port) == hosts[Min({n \in DOMAIN hosts : Usable(hosts, port, n)})]

(* Who serves has no way back to root, in its user and in its group, ends  *)
(* at both signals, is detached if it was to be, and has read its file to  *)
(* the end.  What that sets holds: the process is in the document root,    *)
(* writes to the log file and has bound the port at the first address of   *)
(* the interface that is free and whose socket() and bind() did not fail.  *)
ServesAsConfigured ==
    pc = "serve" =>
        /\ SafeToServe
        /\ Meant(file) =>
              LET meaning == Meaning(file)
                  hosts   == Resolve[meaning.interface]
              IN  /\ held.root = meaning.documentRoot
                  /\ held.log = meaning.logFile
                  /\ held.socket = <<FirstUsable(hosts, meaning.port), meaning.port>>

(* main() gives up only for a reason outside of it: the ids it is started  *)
(* with, a call or a signal, a file that does not say what it means, a     *)
(* directory or an interface that is not there, or an interface none of    *)
(* whose addresses can be used.  One that can is enough.                   *)
StartsIfItCan ==
    pc = "exited" /\ ~excused /\ Meant(file) =>
        LET meaning == Meaning(file)
        IN  \/ meaning.documentRoot \notin Directories
            \/ meaning.interface \notin DOMAIN Resolve
            \/ LET hosts == Resolve[meaning.interface]
               IN  \A n \in DOMAIN hosts : ~Usable(hosts, meaning.port, n)
=============================================================================
