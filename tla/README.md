# eldritchd, modelled and proved about

eldritchd is a small HTTP server in C: one process accepts connections and waits
with `select()` until one of them says something, then forks a worker that
serves this connection until it ends. This directory holds TLA+ modules of it,
TLC configurations that check them on small instances, and theorems that TLAPS
proves for every instance.

    tlc -config Forker_safety.cfg MCForker.tla      # any run of PROJECT.json
    tlapm ForkerProofs.tla                          # any of the eight modules under Proofs

## The system

| Component | State | Operations | What makes it correct |
|---|---|---|---|
| Dispatcher, `forker.c` | connection table `descriptors[]`, `timeoutEpocs[]`; `keepListening`; the descriptors of each process; the kernel's accept queue | purge, `select()`, scan, `fork()`, `accept()`, stop | no connection is leaked, served twice, served before it has something to read, closed early or refused without need; workers keep nothing they inherited; readable connections and stop requests are attended to |
| HTTP worker, `http.c` | `readBuffer` with two indices, parser state, open file and mapping | read a request, look the file up, map, send, unmap | only well-formed requests the client sent are answered; nothing is kept between two of them; response and worker come to an end |
| Files and sending, `io.c` | mapping; what remains to be sent | map, unmap, send in chunks | each byte is sent once and in order, an error ends the loop |
| Hash table, `hash.c` | an array of chains | create, set, delete, get, keys | a dictionary, whatever the hash function collides |
| Content types, `contenttype.c` | a hash table of allocated types and a default | initialize, set, get, close | each type has one owner; a path gets the type configured for its extension |
| URL parser, `url.c` | none (a function) | `url_getPath` | the path, its length, termination |
| Configuration, `configuration.c` | a line buffer, the configuration | read lines and words | no word from another line; each key sets its own field |
| Startup, `eldritch.c` | uid, root, listening socket, signal handlers | `main` | privileges are dropped before the first client; every failure ends the process |
| Logging and helpers, `utils.c` | log file, main process | `logMsg`, `log_open`, `setSocketTimeout` | the log survives; timeouts are set |
| Authentication, `authenticate.h` | none | declarations only | |

They interact so. `main` fills the content types through a callback of the
configuration reader, binds, drops privileges, registers `forker_stop()` for
SIGHUP and SIGINT and calls `forker_listen(socket, http_accept)`. The dispatcher
loops until the flag is cleared. `fork()` copies its memory and descriptors; the
child closes what it inherited and calls `http_accept()`, which never returns
while connections are kept alive: it ends by `exit(1)` in one of many places.
Server and workers share sockets (by inheritance), the kernel's queue and the
log file, nothing else.

What is hard to test here: the order in which parent and child close their
copies; a signal at any point of the loop; descriptor numbers that the kernel
gives out again; a table that is full; failing system calls in the middle of a
step; requests that arrive in pieces or end in the middle; files that change
between `stat()` and `open()`; integer widths (`size_t` loops that test for a
negative value, an `int` holding a time). `PROJECT.json` lists each hazard at
its line with the properties that cover it.

## Modules

| Module | What it is |
|---|---|
| `Forker` | `forker.c`: the server, its workers' descriptor tables, clients, clock, signals |
| `Dispatcher` | what the dispatcher promises of each connection, without descriptors or processes |
| `ForkerRefinement` | `Forker` implements `Dispatcher` |
| `ForkerProofs` | types, tables and holders of `Forker`: the inductive invariant; on top of it what `select()` reported, what keeps the server alive, and time |
| `ForkerImplements` | the proof of the refinement |
| `HttpWorker` | `http.c`: one worker, its client and the file system |
| `WriteChunked` | the loop of `io_writeChunked()`; `HttpWorker` instantiates it |
| `HttpWorkerProofs` | the theorems about a worker |
| `HashTable`, `Dictionary` | `hash.c`, and what it promises |
| `FoldTheorems` | what can be said of a fold over a finite set or a sequence: the lemmas by which the modules below do induction |
| `HashTableProofs` | hash function, chains and the dictionary they implement, for every number of buckets |
| `ContentTypes` | `contenttype.c`, on top of `HashTable` |
| `Url` | `url.c`: the automaton as a function, and what a URL means |
| `Request` | the way of `http_processGetHead()` from a URL to a file and its type: `Url` composed with `ContentTypes` |
| `RequestProofs` | owners and answers of the content types, and the path of a URL of any length |
| `Configuration` | `configuration.c`: the file, the line buffer, the words |
| `Startup` | `main()` of `eldritch.c` and what it calls, on top of `Configuration` |
| `ConfigurationProofs` | the inductive invariant of the reader, for files, lines, words and buffers of any length |
| `StartupProofs` | what is done before the first client, what becomes of the configuration, and why the start may fail |
| `MCForker`, `MCHttpWorker`, `MCHashTable`, `MCContentTypes`, `MCStartup` | small instances for TLC |

Definitions that end up next to another of almost the same name, under a comment
that begins with "Variant", are that definition with a mistake in it. They are
not part of any specification. Put in the place of the right one, each makes
one of the properties fail; `PROJECT.json` says which under "mutants".

### Forker

`pc` is the place in `forker_loopRead()` and `processFileDescriptors()`, `i` the
loop index of the latter. A process p has `files[p]`, which says what each of
its descriptors refers to, and `descriptors[p]`, its copy of the table; both are
copied by `ScanReady`, the action of `fork()`. A worker is named after its
connection. `timeoutEpocs` is kept for the server only, because no worker reads
its copy.

| Action | Code |
|---|---|
| `InitDescriptorSet`, `StopListening` | the loop test, with `initDescriptorSet()` or the final `closeDescriptors()` |
| `SelectReady`, `SelectPanics`, `SelectInterrupted` | the outcomes of `select()` |
| `ForkerStop` | the signal handler, anywhere but in the sleep of `select()` |
| `ScanExpired`, `ScanReady`, `CloseReadySocket`, `ScanIdle`, `ScanAborts` | one round of the loop over the table; `fork()` and the `close()` after it are separate steps |
| `Accept`, `AcceptFails` | the part from `accept()` to `insertDescriptor()` |
| `CloseInherited`, `WorkerExit` | the child |
| `Connect`, `ClientActs`, `Abort`, `Tick` | clients, kernel and clock |

The server's calls between two of its system calls that others can observe are
one step. The kernel's rules are these: the lowest free descriptor is given out;
a socket lives as long as somebody has it open; the accept queue dies with the
last copy of the listener; `select()` reports a nonempty queue and connections
with data, an end of file or an error. `Faults` is the set of calls that may
fail; `"fdelt"` is the abort that `FD_ISSET(-1, ...)` causes in a build with
`_FORTIFY_SOURCE`. `AbortDrops` is for kernels that take a reset connection out
of the queue (Linux does not).

`Dispatcher` knows of each connection only whether it is absent, queued,
waiting, served or closing. `ForkerRefinement` reads that status off the state
of `Forker`; that `Forker` implements it says in one formula that connections are
served at most once, are dropped only while they wait, are never more than the
table holds, and are refused only by a full one.

### HttpWorker

The connection is a stream of cells: a method, a target, CR, LF, a zero byte, any
other byte. `SetSocketTimeout` is
the start of `http_accept()`. `Next...` are the branches of the macro `NEXT_CHAR`; each delivers
one cell to `Consume`, which is `http_readRequest()` one character at a time and
the error exit of `http_accept()`. `Lookup`, `MapFile`, `SendHead`, the loop over
the body and `Unmap` are `http_processGetHead()` in order, split where the file
system or the client can act in between. Response lines are printed into `readBuffer`, as
in the code, and that matters: they are what the parser meets when it reads on
past the end of the stream (`NextEndOfStream`). When it has passed the whole buffer it
reads other memory (`NextOverrun`): any cells of `Memory`, as many as `MaxOverrun`,
or none, and the worker dies. A request may well end there and the next begin.

The answer to a file that is missing goes the same way: `SendDefaultResponse` sets
`statusCode` to 404, and head and body, which is then the page in `sendBuffer`, are sent by
the same `http_sendBuffer()`; it is the last of the worker, sent or not (`NotFound`). With a
page to send there is a body even for HEAD (`HasBody`).

The body is sent by an instance of `WriteChunked`, `Body`: `SendHead` starts it,
`SendChunk` and `ChunkFails` are one turn of its loop with a `send()` that takes
some bytes or fails, `EndBody` its end. `sentBytes` is a `size_t`, so the test
`0 > sentBytes` never holds: a failure adds one to what remains and takes one from
the pointer, and the loop goes on. Numbers are modulo `SizeMax + 1`. When
`send()` can fail is the environment's part: nothing is mapped at the pointer,
the client does not read until the timeout (`Stall`; it may read on, `Resume`), or
it has reset the connection, which `send()` reports once before SIGPIPE ends the
worker. `arrived` is the history of the offsets the kernel took bytes from.
`RestBehindPointer` is the loop's invariant, which failures do not break;
`BodyArrives` says what the client gets, failures included: each that is followed
by success costs one byte that comes twice, and pushes the next response behind
what Content-Length announced.

Left out: the growing buffer of `getToken()` (a target is one cell), the text of
responses, the 405 answer (`http_readRequest()` never returns a type that asks
for it), and the pauses of `io_writeChunked()`.

### HashTable and ContentTypes

A chain is a sequence without the empty entry at its head; `getHashEntry()` is
the first position with the key, or the one behind the last. The hash function
is the code's, with signed chars added to an unsigned int that wraps. It is not
abstracted to an arbitrary function, because that a bucket exists for bytes above
127 is one of the questions.

`ContentTypes` extends `HashTable`, whose values are addresses here, and adds the
heap: an address holds a type string or is free. `GetBelowStart` is the lookup of
a path in which the search finds no dot: the index, a `size_t`, passes below zero
and the search goes on in front of the path; what it finds there is any
extension, or the process dies.

### Url and Request

`Url` has the automaton of `url_getPath()` as a fold over the characters, of which
it distinguishes `:`, `/`, the two that end a path and the others. What the
function should find is said without an automaton, by the first colon, the first
slash behind the server and the first end (`PathMeant`). `UrlPathsFound` compares
the two for every string up to a length. Every colon before the end is taken for
that of a scheme or a port: behind a port the path begins after the next slash, and
without one there is none (`Pathless`). So `/a:b` is refused and `/a:b/c` asks for `c`;
no document of the program rules that in or out, and the property has it as the code does.

`url.h` promises more: a `pathLength` "thus that path[pathLength] == 0". As `http.c`
calls the function, it keeps this for the empty URL only. It counts the
terminating zero as a part of a path that goes on to the end of the URL, so that
`path[pathLength]` is the byte behind it, and before a query it is the `?`. `BehindPath` is the
number as the code has it, and `UrlPathsFound` says that it is that, exactly, for every URL
with a path; `PROJECT.json` lists the disagreement as a finding. The server lives with
it: `http_processGetHead()` writes a zero there, and the byte behind the URL's own zero is
one that `getToken()` has reserved, which is the other bound in `UrlPathsFound`.

`Request` adds the default page and hands path and length to the `Get` of
`ContentTypes`. The length is that of the path in the URL even when the default
page takes its place.

### Configuration and Startup

A configuration file is given as lines of words, written out with narrow or wide
spacing, with or without the last newline, and read back as the code does: `Taken`
and `Filled` are `fgets()`, `CutNextToken` is the function of that name together
with the zero and the step behind it that each caller adds, `ReadLine` is
`interpretLine()` with the function it selects. What has been read before stays
in the buffer behind the zero, and what `malloc()` gave is one of `Stale`. A line
that lacks words takes them from there: that is what the code does, and no
property forbids it. A word that leaves the buffer is `"lost"`, and `ReadOn` lets
anything come of it. `Meaning` and `TypesIn` say what a file of complete lines
means.

`Startup` walks through `main()` by `Order`, one action per call. `held` is what
the process has of the world outside: root directory, log file, socket. `ids`
has the real, effective and saved id of user and group. The fields `main()` zeroes
(`documentRoot` behind `chroot()`, `interface` behind `bind()`) are zeroed. `Faults`
names the steps whose system calls may fail. `CallFails` is the exit most of them end
in. Two do not: a read that fails is seen by the reader of the file, and a `socket()` or
`bind()` that fails costs one address (`TryBindTo`): `failed` remembers it, the loop goes on
with the next one, and only if none is left does the process end. A signal ends the process until its handler is registered; from then on it
clears `keepListening`, which nothing sets again, so that a signal between
`registerSignals()` and the loop is honoured, too. `excused` remembers that ids,
an option, a call or a signal are to blame for an exit.

`readme.md` tells the order of the start differently ("bind to the interfaces
specified in the config, chroot to its document root, drop root priviledges and
deamonize"). The code detaches first and resolves and binds inside the new root,
as the model does. The log file cannot be opened again: `resetLogFile()` is behind
a test for a negative descriptor that no caller of `logMsg()` meets.

## Runs

| Run | Shows | Instance |
|---|---|---|
| `forker_safety` | table, descriptors and workers are consistent, no early timeout, no needless refusal, refinement | 3 clients, 2 entries, `fork()` may fail |
| `forker_faults` | the inductive invariants of the proofs and the refinement, with everything failing | 3 clients, 2 entries, 3 descriptors, all faults |
| `forker_live` | readable connections leave the table, expired ones with the next pass, queued ones the queue unless `accept()` fails for ever, orphans are closed, a stop request is honoured once there is traffic | 2 clients, 2 entries, `accept()` and `fork()` may fail, fairness |
| `forker_stop` | **violated**: a stop request is honoured | 1 client |
| `forker_setsockopt` | **violated**: the table holds open descriptors | `setsockopt()` fails |
| `http_worker` | only well-formed requests are answered, and before the end of the stream only what was sent; the body of a file or of a 404 arrives in order; responses and workers end | buffer of 5 cells, 2 messages of 5 kinds, a file of 3 bytes sent 2 at a time, a page of 2 for a 404, 4 cells behind the buffer, one change of the file, 2 failures of `send()` counted, all faults, fairness |
| `http_cut` | **violated**: the same for a client that closes within a request | buffer of 7 cells, 1 message |
| `http_mmap` | **violated**: a file that cannot be mapped is an error | the same, 1 request |
| `hash_table` | the chains are a dictionary | 4 keys, 3 of them in one of 2 buckets, 2 values |
| `types_served` | paths are found in URLs, types have one owner, a URL gets the configured one | strings of up to 7 of 4 characters; 3 extensions, 3 lines of configuration, the paths of a handful of URLs |
| `types_dotless` | **violated**: text/html is the default | the same, 1 line |
| `startup` | files are read as they are meant; who serves has no privileges and serves what the file says; who gives up has a reason | all files of at most 2 of 11 lines, a buffer of 12 cells, 3 addresses of which 2 may be in use and any may fail, all faults, signals at any time |

Why these bounds are enough for the cases that matter. Three clients and two
entries give a full table with a third client to refuse, two entries of the same
iteration, and a descriptor that is freed and given out again while an older
entry exists. `LastFd = 2` leaves the server one descriptor short of a full table
and an accepted connection. The clock goes past the timeout. In `http_worker`
the buffer is shorter than a request, so that `read()` cuts one anywhere, and
the messages hold stray line ends, CR CR LF, headers, a refused target, garbage
and a request whose header is not finished. Four keys put an entry in front of
and behind one that is deleted. Five addresses suffice for the default, three
keys and one that is being replaced. A file of three bytes and chunks of two make
a whole chunk, a short one and a short `send()`; with 15 for the greatest
`size_t` the pointer wraps below zero when the first `send()` fails, as it does
with 64 bits; from the third failure on nothing new happens, so `MaxFailures`
stops the count at two (a loop that fails on is `SendsForEver`). Four cells of
memory behind the buffer, each a CR, an LF or garbage, let the header of a request end
there, and lead from it to a lookup, a 404 and its body. Seven characters
are a scheme, a server and a path with an end; the automaton has seven states
and no counter. The longest line of `startup` fills the buffer to the last
cell, one is longer, and a second line follows each, shorter or longer than what
the first left behind.

`CHECK_DEADLOCK FALSE` stands in every other configuration: the system may
really stop: the server stops on request, a worker exits, the content types are
closed, `main()` returns; and in between clients need not act and the clock has
its bound. In
`Hash_table.cfg` every call is always possible, and deadlock is checked.

Bounds: `MaxTime` (the clock stops), `MaxMessages`, `MaxChanges`, `MaxOverrun`
(cells there are behind the buffer), `MaxFailures`, `MaxSets`. `IntMax` is above
the clock in all runs: an `int` that wraps in 2038 breaks `NoEarlyTimeout`, as
one sees by giving `IntMax` the value 1.

### What the violations say

- `forker_stop`: `forker_stop()` between the loop test and `select()` only sets
  the flag; `select()` has no timeout and no signal is left to interrupt it.
  `forker_live` shows the remedy the code relies on: any connection that acts.
- `forker_setsockopt`: the branch that closes the socket falls through to
  `insertDescriptor()`. The next `select()` fails with EBADF and the server
  panics (`ServerSurvives` holds in `forker_safety`, without that fault). The
  kernel refuses this call rarely, if ever.
- `http_cut`: when `read()` returns 0, `NEXT_CHAR` takes the first byte of what
  the buffer held before, and never calls `read()` again. A client that sends the
  request line and closes can be answered.
- `http_mmap`: `mmap()` fails with `MAP_FAILED`, which is not 0, and it does so
  for the length of an empty file. The header has been sent by the time
  `io_unmapFile()` fails, and the connection dies although it was promised to be
  kept alive. Should the mapping of a file with content fail, the worker would
  send for ever (`SendsForEver`).
- `types_dotless`: `index >= 0` is true of every `size_t`. `/` is served as
  `/index.html` with the length of the path in the URL (2 with its zero, 1 before a
  query), so the most common request is of this kind.

`PROJECT.json` has a sixth finding that takes no counterexample to see: what `url.h`
says of `path[pathLength]` (see Url and Request). `types_served` checks what holds
in its place.

Some hazards have no property, and `PROJECT.json` says why: the `int` that wraps, the abort
in `FD_ISSET()`, clients that send ahead, lines of the configuration that lack
words, and the log that a signal handler writes to. The code does go wrong there, or may, and no document, comment or test promises the
contrary. That `accept()` fails without end keeps the server busy; `ReadyReleased`
and `StopsWithTraffic` show that it still serves and stops.

### Fairness

`Startup` and `ContentTypes` state none: nothing about them is a liveness property.

`Forker`: weak fairness of the server's own steps as one action, since it is one
process the kernel schedules, and of each worker's `CloseInherited`, which calls
nothing that blocks. None for clients, signals and the clock, and none for
`WorkerExit`: a worker may keep its connection for ever. That readable
connections are attended to, and expired ones closed, needs no more than this
because each iteration scans the whole table. `ExpiredReleased` and
`StopsWithTraffic` say "once something is ready" for a reason: `select()` has no
timeout, and no fairness makes a client act.

`HttpWorker`: weak fairness of the worker's steps as one action. This includes
`NextFails`, by which `read()` gives up on a silent client: `setSocketTimeout()`
has set a timeout and the kernel keeps it. Clients and the file system owe
nothing, nor does the kernel's buffer (`SendBuffered`). `ResponseEnds` and
`WorkerEnds` name their exception, `SendsForEver`: the loop of `io_writeChunked()`
takes no failure of `send()` for one, so a mapping without pages, or a client
that does not read the file or the 404 it gets, keeps a worker. `PendingResolved` has
the exception that `accept()` fails again and again.

## Proofs

The theorems hold for all values of the constants that satisfy the named
assumptions: finite or infinite sets of clients, every size of table, queue,
buffer and descriptor range, every set of faults.

| Module | Theorem | Property |
|---|---|---|
| `ForkerProofs` | `TypeCorrect` | `TypeOK` |
| | `TablesSound` | `TableInv` |
| | `HoldersSound` | `ConnInv` |
| | `EntriesDistinct` | `OneSlotEach` |
| | `NothingLeaks` | `NoLeak` |
| | `WorkersIsolated` | `WorkerIsolation` |
| | `HandoffExclusive` | `ExclusiveHandoff` |
| | `HandoffReady` | `HandoffOnlyReady` |
| | `AcceptReady` | `AcceptNeverBlocks`, if `~AbortDrops` |
| | `Survives` | `ServerSurvives`, if neither `setsockopt()` nor `select()` fails and `FD_ISSET()` is unchecked |
| | `EntriesStayOpen` | `DescriptorsOpen`, likewise |
| | `NotTimedOutEarly` | `NoEarlyTimeout`, if clock and timeout fit an `int` |
| | `RefusedForALiveEntry` | `RefusedOnlyIfFull`, if neither `accept()` nor `setsockopt()` fails |
| `ForkerImplements` | `Implements` | `ImplementsDispatcher` |
| `HttpWorkerProofs` | `WorkerTypeCorrect` | `TypeOK` |
| | `RequestsAreWellFormed` | `RequestsWellFormed` |
| | `FileIsReleased` | `FileReleased` |
| | `RestIsBehindPointer` | `RestBehindPointer` |
| | `BodyArrivesWhole` | `BodyArrives` |
| | `AnswersWhatWasSent` | `OnlySentRequestsAnswered`, if a client sends one request at a time |
| `HashTableProofs` | `ChainsStaySound` | `ChainsSound` |
| | `TableTypeCorrect` | `TableTypeOK` |
| | `TableIsADictionary` | `ImplementsDictionary` |
| `RequestProofs` | `TypesTypeCorrect` | `TypeOK` |
| | `OwnersAreUnique` | `OneOwnerEach` |
| | `ServesConfiguredTypes` | `ConfiguredTypeServed`, if the search sees names to their end |
| | `PathsFound` | `UrlPathsFound` |
| | `RequestsLabelled` | `RequestLabelled` |
| `StartupProofs` | `ServesSafely` | `SafeToServe`, a part of `ServesAsConfigured` |
| | `StartupTypeCorrect` | `TypeOK` |
| | `ConfigurationAsMeant` | `ConfigurationMeant` |
| | `ServesWhatIsMeant` | `ServesAsConfigured` |
| | `StartsUnlessItCannot` | `StartsIfItCan` |

`FoldTheorems` and `ConfigurationProofs` hold the lemmas of the last three. Every
invariant and every action property that a passing run checks is a theorem of the table.

The assumptions in the table name what the property does not survive: a failure
of one of these calls (`forker_setsockopt` shows one), a kernel that forgets
connections, a clock beyond an `int`, a client that sends ahead. Every other theorem
holds with everything failing. `ServesConfiguredTypes` is for any caller of
`contenttype_get()`; that `http.c` calls it as it demands is proved (lemma
`RequestsAnnounced`), so that `RequestsLabelled` is not conditional.

### The dispatcher

The inductive invariant is `TypeOK /\ TableInv /\ ConnInv` (lemma `Invariance`).
`NoLeak` alone is not inductive: `initDescriptorSet()` closes what its entries
name, and unless no two entries name the same descriptor (`OneSlotEach`), and none
names the listener, a close could hit something else. Nor may entries be assumed
open: a failed `setsockopt()` leaves a closed one, so `TableInv` claims this
only between `select()`, which refuses such a table, and the next `accept()`.
`WorkerIsolation` needs to know, from `fork()` on, that whatever the child
inherited can be found through its copy of the table (`ForkedInherits`), which in
turn is `NoLeak` of the server at the moment of the fork. `ExclusiveHandoff`
needs that the server has no connection open twice (`OneFdEach`), that it is
queued at most once (`QueuedOnce`) and not while somebody has it open
(`QueuedUnheld`), for otherwise `accept()` could give it out again. The proofs take
the actions one by one; the sequence lemmas about the queue come first. TLC
checked `TableInv` and `ConnInv` before, in `forker_faults`.

The later parts of `ForkerProofs`, and `ForkerImplements`, add to this invariant,
which they cite as `Inv`:

- `ReadyInv`: an entry in the set that `select()` filled and the
  scan has still to look at has its connection, and that is readable. This must
  survive what the scan itself closes in between, and it does because the entries
  are distinct and readable connections stay so. The same of the listener gives
  `AcceptNeverBlocks`: only the server takes connections off the queue.
- `SurvivalInv`: without the failures of `setsockopt()`, entries
  are open everywhere, not only behind `select()`.
- `DeadlineInv` and `ScanInv`: an entry's time is not before that of
  its connection (here `ToInt` is the identity); what the scan has passed is free
  or had not expired when the iteration looked at the clock, so a table that is
  full behind the scan is full of such entries.
- `EndInv` (`ForkerImplements`): no queue without a listener, and no connections of
  a server that has ended. The proof reads off where each connection is
  (`Places`) and has one lemma per kind of move: everything stays, one connection
  moves on, or all of the server's are dropped at once (`StutterStep`, `MoveStep`,
  `ReleaseStep`, `DropStep`, `ShutdownStep`). The two counts of `Dispatcher`, of queued and of
  waiting connections, come from the entries of the queue and from a
  bijection between the entries of the table in use and the waiting ones.

### The worker

`HttpWorkerProofs` begins with the arithmetic of `size_t`: two numbers that move by
the same amount, one up and one down, keep their sum modulo the width (`SumKept`),
whether that amount is what `send()` took or -1. `BodyInv` says the rest: arrived
and remaining bytes make the length plus the failures, and as long as there are
none the bytes are 0, 1, 2, ... in order. `FileInv` says when nothing is open or
mapped. For `RequestsWellFormed` the state of the automaton is shown to be a function of the
last four cells (`LastCells`), of which no earlier four were an empty line. This
holds of whatever cells come, and so behind the end of the stream, too.

That the cells are those the client sent takes `SentInv`: what the parser has
taken, what is buffered and what is not yet read follow one another in the
stream. The delicate place is the response, which is printed over the buffer.
Nothing to be read may lie there, and that depends on the client: it has sent no
more than the request (`~Pipelined`), and no message contains a request with more
behind it (`OneRequestEach`). The invariant claims nothing once the buffer has
been left (`begin > end`), which is the case `http_cut` is about.

### Folds

Hash sums, chains listed one after another, the automaton of `url_getPath()`, the
words of a line, the lines of a file and what they mean are folds. The folds of
the community modules are `iter[S]` for a function `iter` that is *chosen* to satisfy
a recursive equation, and so mean nothing before a function that satisfies it is
shown to exist. `FoldTheorems` does this once, for an operation given as a function:
`IterExists` takes functions that satisfy the equation on all sets up to a size, and there
is no least size without one; `IterInduction` carries a property from set to set by
a counterexample of the least size; and `FoldLeftRun` turns a fold over a sequence into
a *run*, `run[0]`, ..., `run[n]`, in which each value comes from the one before it.
What follows is then an induction along the run (`RunInduction`, which takes the
property as a family of sets: no operator is passed to a lemma). Each fold of the
model has a lemma that says which run it is (`TextRun`, `WrittenRun`, `CutRun`,
`MeaningRun`, `TypesRun`, `LoopRuns`), and only that lemma opens the definition of the fold.

### The hash table and the content types

`HashTableProofs` shows that the hash function, whose sum wraps at every character,
ends in a bucket for every key, and of each chain that a change in it keeps keys
distinct: an entry is appended only where the search found none. `SearchSound` says
that the search and the set of entries agree; from there on a call is a step of
`Dictionary`: `HashTableSet` and `HashTableDelete` change the map at one key
(`SetStep`, `DeleteStep`), `HashTableKeys` lists each key once, because the chains
have no key in common and none twice (`ListStep`).

`OwnersInv` (`RequestProofs`) says that the allocated addresses are the default's and
those in the table, each once: a new type gets a free address, and the one it replaces
is disposed of in the same call. `ServedInv` relates the table to the last
line of the configuration for each extension, which is what `ConfiguredTypeServed`
asks of an answer.

### The path of a URL

The automaton is followed through a URL in phases: up to the first colon, slash or end
(`RelativeLoop`), and, behind a scheme, over the slashes and the server to the
path (`AbsoluteLoop`), or behind another colon to the slash that ends the port, if there is one
(`PortLoop`). The phases are read off the definition of what is meant
(`PathMeant`), and the loop is shown to be in the state that belongs to each;
`HasPathLoop` puts together where it stops. `LoopTyped` is the bound for all URLs, with a path
or without: the zero behind it stays within the reserved bytes.

### The configuration

The text of a file is first taken to pieces: `Placed` gives, for each word of a line,
the place where it ends, with blanks in between; `Laid` gives the same for the lines of a
file. Neither spacing nor a missing last newline matters behind this. The words come
out of the buffer by induction over `Ahead`: k words have been cut, they are the first k
words of the line, and *ahead of the last zero the buffer is as it was*. This is
what cutting in place must not break. A line without words gives an empty word and is
refused, not read beyond its end (`NoWordCut`).

`ReaderInv` is the invariant of the reader. While it reads there is a k (`Begun`): what is
left of the file begins behind line k, or inside it if it was too long to be
read at once; every short line up to k begins with a keyword; and if the file is meant,
the configuration is what its first k lines mean. `Advance` and `AdvanceLine` say that
`fgets()` never goes past the end of a line and takes a short one as a whole. A
line that is too long, or incomplete, costs the last of these claims only, because then the
file is not meant; so `ReadOn`, by which anything may come of a word that left
the buffer, needs no more.

### The start

`OrderInv` reads the order of calls off `Order` and says what must have been done when each is
reached. `Kept` adds types, the ids until they are changed, and who is to blame for an
unreadable file. `Promise` follows the meaning m of the file through `main()`: it is
the configuration until `chroot()`, which consumes the document root, and `bind()`, which
consumes the interface; what they leave behind is in `held`. In the loop of `bindTo()` the
hosts that have been tried are a prefix of the list, each in use or in `failed` (`Tried`), since
root may bind every port and privileges are still there. So who has bound has the first
address that is free and did not fail (`BoundFirst`), and who runs out of them finds none
usable (`NoneUsable`). Each exit that is not excused
leads to one of the three reasons of `StartsIfItCan`.

### Assumptions

Constants are assumed to be what the code or the kernel make them: the types named in
each module, buffers of more than a cell or two, chars that fit the integers, `Size` above
zero, words in a configuration file that are not empty and hold no blank, newline
or zero (`FilesAssumption`: anything else is no word), a default page without a dot in its first two characters
(`PageAssumption`; it is `/index.html`). TLC evaluates them in the runs.

### Model-checked only

Liveness under fairness: `ReadyReleased`, `ExpiredReleased`, `PendingResolved`,
`OrphansClosed` and `StopsWithTraffic` of `Forker`, `ResponseEnds` and `WorkerEnds` of
`HttpWorker`. The prover has no rules for fairness and ENABLED.

## Plan

Done: `Forker` with its refinement, `HttpWorker` with `WriteChunked`, `HashTable` with
`Dictionary`, `ContentTypes`, `Url` and `Request`, `Configuration` and `Startup`, and the
proofs of all their safety properties and of both refinements.

Left, in this order:

1. Properties worth a theorem that no run checks yet, such as that an incomplete line of the
   configuration does not disturb the complete ones behind it.
2. `getToken()` with the buffer it lets grow, as a module that `HttpWorker` uses
   for its targets.

Not planned: the text of responses and log lines, `authenticate.h` (it has no
implementation), build and installation scripts, and the tests, which were read
for what they say of the code.
