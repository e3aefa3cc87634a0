# Specifications of dotten

dotten is a C99 library (`src/Code/dotten/core`) with Rust bindings: memory,
strings, containers, JSON, files, paths, encodings, sockets, HTTP, threads,
synchronisation and a worker pool. The modules here are TLA+ models of the parts
of it that have logic of their own, with TLC configurations that check them on
small instances, and TLAPS proofs about the pool, the HTTP server and its messages, the
hash map, the list, JSON objects and the parser, files, the synchronisation objects,
the handles of the system, paths, encodings and command lines, and the room that texts and
blocks need.

Paths below are relative to `src/Code/dotten/core` unless they start otherwise;
`PROJECT.json` maps every definition to the lines it stands for.

    tlc -workers 2 -config ThreadPool.cfg MCThreadPool     # a run
    tlapm ThreadPoolProofs.tla                             # a proof

## 1. The system

| component | state | operations | used by |
|---|---|---|---|
| thread pool (`src/thread_pool`) | queue of tasks, `shutting_down`, one mutex, one condition variable, the workers | create, submit, destroy; the workers' loop | callers, tasks themselves |
| HTTP (`src/http`) | server: listening socket, `stopping` and its mutex; messages: first line, headers, body | server create, run, stop, destroy; client send; setters; writing and parsing of messages | callers, from several threads; a handler callback |
| sockets (`src/platform/*/socket_*.c`) | descriptors; on Windows whether Winsock is started | TCP and UDP calls | HTTP |
| hash map (`src/map`) | buckets, chains of entries, count | create, set, get, contains, remove, destroy | JSON |
| list (`src/list`) | block, count, capacity | add, insert, remove, get, reserve | JSON |
| JSON (`src/json`) | trees of values; an object is a map and a list of its keys | create, set, add, get, parse, stringify, destroy | callers |
| string, buffer | block, length, capacity | append, write, substring | JSON, HTTP |
| files (`src/platform/*/file_*.c`) | a descriptor per file | open, read, write, seek, close, copy, move, delete | callers; other programs change the same directory |
| encodings, paths | none | Base64, Hex, UTF-8, UTF-16; join, directory, file name, extension | callers |
| mutex, semaphore, condition (`src/platform/*/sync_*.c`) | holder, permits, waiters with deadlines | create, lock, try, wait with and without a timeout, wake, destroy | pool, HTTP, callers |
| thread, plugin, process, log file | an object of the system each, and for most of them a structure on the heap | create or open, use, join or close | pool, callers |
| error | a code and a message per thread | set by every call that fails or succeeds | everything |
| memory, time, core | a table of functions, clocks, a flag | wrappers | everything |

How they interact. HTTP, JSON and the pool call the containers and the system
wrappers; nothing calls upwards but through callbacks (the pool's tasks, the
server's handler, the log callback). Only the pool, the HTTP server and the
synchronisation objects are used by several threads at once; containers, JSON values and messages belong to one
thread at a time by their headers' contract. The server shares a flag with the
thread that stops it, and connections with its clients, which the network cuts
into pieces. Files are shared with everybody on the machine. Every allocation
goes through `ten_malloc` and may fail.

Where the behaviour is hard, and what makes each part correct:

* **pool**: the signal is sent after the unlock, a waiting thread may wake for no
  reason, tasks submit tasks, also during destroy, and create may fail when some
  workers already run. Correct means: every accepted task runs once, in order;
  no wakeup is lost; destroy returns, drops nothing, and nobody uses a freed pool.
* **HTTP exchange**: reads end anywhere, peers leave at any time, memory runs out
  between any two steps, stop comes at any time. Correct means: the handler sees
  the client's body, the client gets the answer, no connection stays open, run
  returns after stop.
* **HTTP messages**: names without case, owners who set the library's own headers,
  setters that fail half-way. Correct means: the other end reads what was set.
* **map and list**: growth with failures in the middle, arithmetic of sizes.
  Correct means: they are a dictionary and a sequence, keep to their blocks and
  leak nothing.
* **JSON**: values and key strings change hands between the parser, the map and the
  key list, and any step may fail. Correct means: one owner for everything, always.
* **files**: others act between the system calls of one operation. Correct means:
  no descriptor leaks, appended data survives, a copy that succeeds is exact.
* **synchronisation**: two platforms of different habits (recursive and plain mutexes,
  absolute and relative timeouts), signals that interrupt, clocks that are set.
  Correct means: who is told it has the mutex or a permit has it, timeouts come
  neither early nor never.
* **handles**: an object and a block per structure, either of which may fail, loops
  over addresses, numbers that are given out again at once. Correct means: every
  object and block has one owner, what runs is held, the last error is the call's.
* **encodings, texts and paths**: boundaries of ranges and lengths, quoting. Correct
  means: inverse functions, output within the block, the standards' UTF-8 and JSON,
  arguments that arrive, paths that agree.

## 2. The modules

### Pool: `ThreadPool`, `TaskExecutor`, `ThreadPoolRefinement`

A step is what a thread does between two points where another one can interfere:
acquiring the mutex, a critical section to its unlock, the signal or broadcast
after it, a join, the release of memory. `pc` says where each worker and client is
in `ten__thread_pool_worker` or `ten_thread_pool_submit`, `owner` where the thread
is that creates and destroys the pool. `WorkerWait` is the atomic unlock-and-sleep
of `pthread_cond_wait`, `SpuriousWakeup` its return without a signal. `CreateFail`
is `ten__thread_pool_cleanup_partial` with any number of workers already running.
`accepted`, `started` and `finished` are history. `Next` keeps to the pool's
contract (clients are done when destroy is called, tasks may still submit);
`RacingNext` has callers that submit whenever they please.

`TaskExecutor` is what `thread_pool.h` promises, without mutex, condition variable
or workers: tasks are accepted or refused, accepted ones start in order, at most
`Capacity` at a time, run once, and the pool closes when all have finished.
`ThreadPoolRefinement` maps the pool to it: acceptance is the enqueue, refusal the
answer, closing the moment destroy has set the flag.

### HTTP exchange: `HttpServer`, `HttpExchange`, `HttpServerRefinement`

One thread runs the server's loop (`srv`), the owner creates, stops and destroys it,
and each client is one call of `ten_http_client_send` (`cli`). A step is one system
call. Messages are counted in units, the pieces TCP may deliver separately: head
units, of which the last completes the blank line, then numbered body units.
`link` is the state of a connection, `up` and `down` what is on its way, `torn` the
connections closed with something unread, which resets them. Allocations fail on
the exchanges of the clients in `Unlucky`, at either end. Any send or receive of either
side may also fail with the peer still there (`HeadError`, `BodyError`, `SendError`,
`ClientSendError`, `ClientReceiveError`): the code repeats none, whether it was
interrupted, timed out or reset, and goes on as at the connection's end. `broken` is
history: the connections on which that happened. The listening queue and
the kernel's part (`Unqueue`, resets, SIGPIPE) are modelled from how the code uses
them and are external to it.

`HttpExchange` is what `http.h` promises, without sockets, pieces and buffers: callers
wait in the order they came, one at a time is served, by one call of the handler or
one refusal, and is answered or not; after stop at most one more is served before run
returns. `HttpServerRefinement` maps the server to it: a caller waits from its connect to
its accept and is the current one until its connection is closed; reading, sending and
polling are stutters. What memory may spoil is in the abstract steps too, for callers in
`Unlucky` only, and what a failing socket call may spoil for callers that are `disturbed`,
which `broken` implements: a caller on a line where nothing failed gets all of it.

### HTTP messages: `HttpMessage`

One message: filled by its owner (headers, body, status, each of which may run out
of memory), written out as lines and a body (`Lines`, with the library's Host,
Content-Length and Connection) and parsed at the other end (`ParsedHeaders`,
`ParsedLength`, `ReadBody`), where any header may be left out for want of memory, and
any piece of the body (`Stored`), as the code does not look at whether it could be written.
A name is a spelling, `Folded` what it stands for. `wanted` and `given` are history:
what the owner last asked for.

### Containers: `HashMap` and `Dictionary`, `List` and `ListSpec`

A caller serialises its calls, so a call is a step, failures included. A bucket is
the set of the nodes on its chain, and `live` the blocks allocated, three for a
node. The list's sizes are numbers modulo `Width`, its block `MaxBlock` bytes at
most, and what was never written is `Junk`. `Reserve` takes any number, also one whose
product with the element's size wraps; `beyond` is history and says that one did. `Dictionary` and `ListSpec` are what
`map.h` and `list.h` promise; both detailed modules are shown to implement them.

### JSON: `JsonObject`, `JsonParser`, `JsonDocument`, `JsonText`

`JsonObject` is the map and the key list of one object. The map stores pointers to
key strings the list owns and compares what they point to, so a chain is a sequence
here and the search goes along it; comparing with a freed string may say anything.
Keys may have the same hash; `twins` is history: an object with two such keys was destroyed.
`DestroyKey` is one round of the loop of `ten_json_destroy`. `JsonParser` is the
recursive descent: the stack holds a frame for each container under construction,
the text is whatever comes next, every allocation may fail, and what is modelled
is who owns the values and key strings. `ten_json_destroy` frees everything below a
value, `Below`: the least set of values that contains it and, with a container, what the
container holds (`Whole`). `JsonDocument` is which texts the parser
accepts and `JsonStringify` what stringify writes for a value, both on tokens; `JsonText`
is what stands between two quotes.

### Both platforms: `Platform`, `File`, `Sync`, `Handles`

The library has one header and two bodies, for POSIX and for Windows. `Platform` is a
variable that the initial state chooses and no step changes, so that one module has
both bodies and the properties are those of the header.

`File`: a step is one system call on a directory shared by threads. `dir` maps paths
to files (several paths may name one), `content` is a sequence of pieces, `fd` the
descriptors. `ten_file_copy` is a sequence of steps on POSIX (`at`), with others
acting between them, and one call on Windows. There `Shared` and `NotHeld` are what
the sharing mode of `CreateFile` forbids, and append mode is a seek at the opening.
`kept`, `source` and `quiet` are history.

`Sync`: one mutex, one semaphore, one condition variable and the threads that use
them as the header asks. Time has no absolute value: a waiter has `left`, the time
until the system wakes it, and `due`, until the milliseconds of its caller are over;
`Tick` counts both down, `ClockSet` moves the wall clock that POSIX deadlines are
measured on. `Deadline` is the timespec arithmetic of `ten_cond_wait_timeout`,
`SleepTicks` the `(DWORD)` cast of Windows.

`Handles`: the structures made for objects of the system, by the steps that can fail:
the loop over the addresses of a name, wrapping a socket or a library in a block,
making a block and then a thread or a semaphore in it, giving either back, children,
the log file, and the start of Winsock, whose flag has no lock. Numbers and addresses
are given out lowest first, so that one given back is the next one's. `call` has what
each call has in its hands, `error` and `answer` what `ten_last_error` and the call
itself said. Which function made what is in `op`, and one set of actions serves all
functions that take the same steps.

### Encodings, paths, command lines, blocks: `Encoding`, `Path`, `CommandLine`, `Bytes`, `Text`, `Documents`

The functions are operators on sequences of numbers and characters, written as the
code computes them (which byte forms are accepted, what is counted before a block
is allocated, what is written into it). `CommandLine` is the line made of the arguments
of a child on Windows, and the arguments the child's runtime makes of it. `Bytes` is
the length and capacity of a string or buffer after a sequence of calls, with sizes
modulo `Width` and memory that may be refused. `Text` grows an input, a text, the
arguments or a sequence of calls, by one element a step, so that a run visits every
input over an alphabet up to a length, and compares the functions with one another
and with the tables of the standards, and what was encoded or quoted with what is read of
it. `Documents` has the same of JSON documents, above `Text`, because the recursion of
stringify is one over trees that only TLC can follow; the modules below it have recursive
functions over the length of a text, which can be proved about.

The `MC*` modules give the constants their values; `MCContainers`, `MCJson` and `MCPlatform` extend two
independent models and put them side by side, as either one or the other, without their
interleavings. The `*Proofs` modules hold proofs.

## 3. What the runs check

| run | instance | what it shows |
|---|---|---|
| `pool` | 2 workers, 1 client, 3 tasks, any of which may submit another | FIFO and exactly once, nothing dropped by destroy, no use after free, no lost wakeup; accepted tasks finish and calls return; the pool implements `TaskExecutor` with its fairness |
| `pool_late_submit` | 2 workers, 1 client, 2 tasks, `RacingSpec` | *violation*: a submit during destroy uses freed memory (section 5) |
| `http_safety` | 2 clients, every mix of 3 kinds of requests, memory that fails on the exchange of one, sends and receives that fail on the connection of the other, clients that die, SIGPIPE fatal | one open connection at most and none after run; the handler sees the body, the client the answer, but where its own connection failed; the server implements `HttpExchange`, so that calls are served in order, once, and one at most after stop |
| `http_liveness` | 2 clients, 2 kinds of requests, fair | run returns after stop, client calls return |
| `http_sigpipe` | 1 client, 1 kind of request, SIGPIPE fatal | *violation*: a client that leaves ends the server's process (section 5) |
| `http_message` | requests and responses, 7 spellings of 4 names, up to 2 headers, bodies of 0 to 2 bytes | a message holds what was set, and arrives without a change or an addition, less what there was no memory for |
| `containers` | a map of 4 keys, 2 of equal hash and a third in their bucket until the table has grown twice, initially 2 buckets; or a list of elements of 2 bytes, sizes modulo 32, blocks up to 15 bytes, reservations that fit, that do not and that wrap | map: count and load, no leak, pointers to other keys' values valid between rehashes, implements `Dictionary`; list: until a reservation wraps, the block is as large as the capacity says and nothing unwritten is read, implements `ListSpec` |
| `json` | an object of 3 keys, 2 of one hash and all on one chain, in a table that grows with the third; or a parse with nesting of 3, 5 values, 4 key strings of 2 contents | map and key list agree and own their parts, order is kept; in a parse, one owner for everything at every step and nothing left after a failure |
| `json_destroy` | the same | *violation*: destroy compares a key string it has freed (section 5) |
| `platform` | both platforms. Files: 1 thread that opens ("r+", "a"), 1 that copies, both delete and move; 2 paths, 2 files, 3 descriptors. Handles: 2 threads, 2 blocks, 2 numbers, names of 1 or 2 addresses | no descriptor leaks, appends survive, an undisturbed copy is exact; one owner for every block, object and list, what runs is held, Winsock is started before it is used, errors are the call's own |
| `sync` | both platforms, plain and recursive mutex; 2 threads, 1 permit; seconds of 2 milliseconds, timeouts of 0, 1, 3 and 4, a DWORD of 4 values, the clock set once | answers are true; a timeout comes neither before its time nor never |
| `text_functions` | all inputs over the boundary characters of each encoding, up to 3 to 8 of them; paths and arguments up to 6 characters; JSON strings and literals up to 4, documents up to 7 tokens; 3 appends or 4 writes and clears, sizes modulo 32 | round trips, output within blocks, UTF-8 is Unicode's but for surrogates, documents of the JSON grammar are accepted and read back, path functions agree |

Why the bounds are enough. *Pool*: two workers are the fewest for one to sleep while
another runs; three tasks let one be queued while two run or submit, and the client
and two running tasks can be in submit at once. One client suffices because a
running task is a submitter too. *HTTP*: the server serves one connection at a time,
so two clients give one in service and one queued, or one after another with what
the first left behind; a body of two units can be cut at its start and within, and a
head of three, with a limit of one, comes whole, or in pieces of which the last does or does not
arrive before the limit is looked at. That memory fails with one client and sockets
with the other (`BreaksElsewhere`, a bound) has either failure meet an exchange that
has neither and one that has the other; on one exchange both lead to the same places. *Messages*: two headers let a new one meet an
existing one and the library's lines; a third adds nothing the table distinguishes.
*Map*: four keys grow the table from 2 to 4 to 8 buckets; the code starts at 16
(`TEN_MAP_INITIAL_BUCKETS`), which only needs more keys for the same steps, and the
proofs do not depend on it. *List*: capacities go 2, 4 and, in vain, 8, which no
block of 15 bytes holds; reservations of 3 and 6 make odd ones, 15 asks for a block that
cannot be had, 16 for one of size 0 and 17 for one of 2 bytes. *JSON*: `InitialBuckets` is 3 so that the
third key grows the table, which turns the chain of the first and the third round; 4 strings and 4 values leave one of each in the caller's
hands; nesting of three has a container whose parent has a parent.
*Files*: a copy and one other thread; contents are at most 2 pieces, of which
the buffer takes 2, and a read or write may take fewer, so that copies take one
round or several. *Handles*: two threads are one in a call and one that gets what it
gave back; two numbers and blocks let each have one or one thread both, and make
both run out; two addresses are one that fails and one after it. *Sync*: two threads
are one that waits and one that wakes, holds or posts; of the timeouts 0 has passed, 1
and 3 do or do not carry into the next second depending on the clock, 3 is the largest
DWORD and 4 is cut off to 0; one set of the clock, forwards or back by a second, falls
before, within or after any wait. *Text*: 8 Base64 characters are two groups, 4 bytes the
longest UTF-8 form, 3 units a pair and its neighbour, 7 tokens a list in a list with a
comma, and 6 characters two arguments that need quotes; the alphabets have every
value the code compares with and its neighbours; four items of a JSON literal are two
surrogate pairs. Strings and buffers start with capacity 2 (16 in the code) or what
`ten_string_create` was given, and double to 15, to more than a block can have, and
past 32 to 0.

Deadlock is checked in every run but `http_safety` and `http_sigpipe` (the process may
have been killed), `text_functions` (inputs end at their bound) and `sync` (two threads
may wait for each other, or for a wakeup nobody sends: that is their callers' doing). `pool` and
`http_liveness` have an explicit `Terminated` step, so any other state without a successor is an error.

Symmetry is used in `http_message` (the values of headers), `containers` (the map's
nodes, the list's elements), `json` and `json_destroy` (the nodes of the parser) and
`platform` (threads, paths, files), which check invariants and action properties or
refinements without fairness, never liveness.

### Fairness

*Pool* (`FairSpec`): a worker that has the mutex or a task goes on, every task's
function returns, the owner goes on inside destroy (weak fairness); the mutex is
not withheld for ever from a thread that keeps asking for it (strong fairness on
acquiring it, which the pool's short critical sections and a real scheduler give;
`pthread_mutex` does not promise it). Nobody has to submit, or to destroy.
*HTTP* (`FairSpec`): the server's thread and connected clients go on when they can,
the handler returns, `select` and `accept` do not report errors for ever while
connections wait (strong), and the owner destroys a stopped server. Nobody has to
connect, or to stop the server, and no send or receive has to fail (the actions named
`...Error` have no fairness). Clients do not die *silently*: a client that dies has
its connection closed by its system; one that stays and says nothing for ever is
excluded by weak fairness on `ClientStep` (see section 6).
*Sync*: time passes (`Tick`), and a wait whose time has come returns or is woken
(`Expires`), both weak. Nobody has to unlock, post or wake.

## 4. What is proved

For every value of the constants allowed by the modules' named assumptions: any
finite set of workers and clients, any set of tasks; any requests, head limit and answer;
any keys, hash function and initial bucket count of at least two; any element size,
width and block limit; any users, paths, files of any length and buffer sizes; any permits,
timeouts and lengths of a second; any memory and numbers of the system's objects; any JSON
keys, and texts of any length and depth; any header names, values, bodies and number of
headers; paths, encoded texts, arguments and sequences of calls of any length. What a theorem
needs beyond the modules' assumptions it states itself.

| module | theorems |
|---|---|
| `ThreadPoolProofs` | `TypeCorrect`, `Mutex`, `FifoOrder`, `TruthfulAnswer`, `NothingDropped`, `PoolOutlivesItsUsers`, `NoWakeupIsLost`, `BroadcastReachesAll`; `PoolImplementsExecutor`: `Spec` implements `Executor!Spec` |
| `HttpServerProofs` | `OneOpenConnectionAlways`, `HandlerAlwaysSeesTheBody`, `AnswersArrive`, `ShortHeadsAreAlwaysServed`, `StopIsBounded`; `ServerImplementsExchange`: `Spec` implements `Exchange!Spec` |
| `HashMapProofs` | `TypeCorrect`, `AlwaysWellPlaced`, `AlwaysCounted`, `NothingLeaks`, `PointersAlwaysStay`, `MapImplementsDictionary` |
| `ListProofs` | `TypeCorrect`, `CapacityAlwaysReal`, `WrappedNeverReal`, `NeverJunk`, `ListImplementsSequence` |
| `HttpMessageProofs` | `MessageHolds`, `MessageDelivered`, `MessageTypes` |
| `JsonProofs` | objects: `ObjectIndex`, `ObjectParts`, `ObjectSearches`, `ObjectOrder`, `ObjectTypes`; parser: `ParserOwnership`, `ParserTypes` |
| `PlatformProofs` | files: `NoDescriptorEverLeaks`, `AppendsAlwaysSurvive`, `CopiesAreFaithful`; handles: `EachAlwaysHasOneOwner`, `WhatRunsIsHeld`, `AlwaysStartedFirst`, `ErrorsAreOfTheCall`; synchronisation: `AnswersAreAlwaysTrue`, `DeadlineIsAlwaysKept` |
| `TextProofs` | `WhatIsReadBack`, `StandardsAccepted`, `RoomEnough`, and, with the separator of POSIX (`Separator = "/"`), `PathParts` |

**Pool.** `TypeOK` is not inductive: a take needs to know that what is running is a
task. `Shape` adds that a thread has a task or an argument exactly at the points
where it uses one. `ControlInv` adds mutual exclusion and `LifeInv`, how far the owner
is against where workers can be: after the flag no client is in submit, after the
broadcast none sleeps, after the joins all have exited. `DataInv` adds that
`accepted` is `started` followed by the queue, without repetitions; that an argument
is in the queue's history exactly while its signal is due; and that what is started
and not finished is some worker's `task`. Together (`Inv`) they are inductive; mutual
exclusion, use after free, FIFO and truthful answers are consequences.
`DestroyDropsNothing` follows because an exited worker saw an empty queue and no
submit can enqueue after the flag. `NoLostWakeup` is then inductive relative to
`Inv`, with cardinalities: an enqueue adds a task and a pending signal; a signal
with a sleeper turns one into an awake worker; without a sleeper the bound is void;
a worker only goes to sleep when the queue is empty. The refinement maps each step
to one of the executor's or a stutter; that a take respects `Capacity` is a counting
argument over the other workers' tasks.

**HTTP.** What a client reads at the end depends on what was sent, cut up and stored by
two programs before, so `IInv` says at each point of both where every unit is. `QueueInv`
and `LinkInv`: the queue has each waiting client once, and a connection not yet served
has no answer. `StreamInv`: what the server has read and what is on its way is what the
client has sent. `BodyInv`: the stored units are the request's own up to there. `AnswerInv`:
of an answer, the unsent, the travelling and the stored units add up to all of it, until the client leaves. `StopInv`: only the accept after the last look at the flag is late.
Clients in `Unlucky` are excepted exactly where an allocation can fail, those in `broken`
where a call on their own connection has failed: the code tells neither its handler nor
its caller that a body or an answer is only the beginning of one.

For the refinement `ExchangeInv` adds what the abstract state has to know: `PlaceInv`, at
which points of the loop there is a connection and that run only returns when it was
stopped; `ToldInv`, that no unit of an answer exists before something was said; `PieceInv`,
that even without memory the stored units are the client's own and in their order. Then
every step is one of the exchange's or a stutter (`NextRefines`); a failing socket call is
`Disturb`. The case that needs most is a client that is told its call failed: with memory, and
undisturbed, it must be neither waiting nor in service, nor must the handler have seen its request.

**Messages.** `HoldsWhatWasSet` is inductive beside the ranges (`MessageInv`): setting a
header is setting an entry of a dictionary, whatever the spelling (`WithHeaderFacts`). What
is parsed is a recursive function over the lines, so `ParsedFacts` goes up the lines: after
each of them the headers are again a dictionary, each value is some line's for its name,
and, when no line is left out, the last line of a name counts (`Lossless`). `LinesFacts` says
which line is where. The library's length comes after the owner's, so it is the one the
body is read by (`LengthArrives`); the Host line comes before, so the owner's counts
(`HeadersArrive`). What is stored of a body is its pieces at increasing places (`Increasing`),
all of them exactly when memory held (`whole`).

**Map.** `TypeOK`, `WellPlaced`, `NoLeak`, `CountAndLoad` and finiteness of the linked
nodes are inductive together. The main lemma is that the search of one chain finds
exactly the linked nodes of a key (`FoundIsComplete`), which needs every node on the
chain of its hash, which growth must keep (`Growth`). `PointersStay` is what `map.h:57-58`
leaves to callers of `ten_map_get`: while the buckets are the same, a step touches one linked
entry at most. The code does more (entries keep their place through growth and overwriting
too), which the header does not promise and no property here asks for.

**List.** The point is arithmetic: a block exists only up to `MaxBlock`, less than half
of `Width`, so doubling a capacity that has a block cannot wrap, neither the doubling
nor the product (`GrowthDoesNotWrap`). A reservation is a caller's number and may wrap: the
theorems hold until one has (`beyond`), and `WrappedNeverReal` shows that the exception is no
wider than the fault: whenever such a call answers `TEN_OK`, the capacity is not real.

**JSON objects.** `ObjectInv` holds for any hashes: the map's entries are in the chains of their
hashes, they and the list have the same strings, a string is allocated until destroy has
come to it, and no two entries have the same key or value. The searches along a chain
(`Hits`, `CanMiss`) are exact while every string in it is allocated, that is while the object
is in use; so the order and the agreement of map and list (`ObjectOrder`, `ObjectIndex`)
need nothing of the hashes. In destroy the searches go past freed strings when hashes
collide (section 5): there the model lets a comparison say anything, and the value of another
key may be freed in place of the key's own. `OwnerInv` says that the object owns the values of
the keys destroy has not come to, as long as no object was destroyed with two keys of one hash
(`twins`); so `ObjectParts` holds for any hashes, and `ObjectSearches` says that a freed string
can be compared nowhere else. `RehashTable` is the lemma on growth: the table filled anew from all the
chains has every entry once, in the chain of its hash.

**JSON parser.** `OneOwner` is a statement about all that is allocated and needs that a
parse gives things from hand to hand only: `ValueInv`, a value is in the hands of a call or in one
container, never both; `KeyInv`, the same of key strings; `StackInv`, no two calls have the same;
`MemberInv`, an object has a key once. That what is freed with a value is all that
hangs from it needs in addition that there are no cycles. `Grounded` says so without
paths: a set of values that has all roots and, with a container, its members, has every
value. Attaching keeps it because the new member is a root before; freeing does
because `Below` is the least such set and, values having one owner, takes nothing from
others (`BelowApart`).

**Files.** `OwnInv` has three slots per user, the handle and the two ends of a copy: what is
open is in one slot, and no two hold the same descriptor, which is what an open must
keep when it is given the number a close has just freed. `AppendInv` says that the kept
pieces are the end of the content (`EndOf`), which a write at the end extends and any
other write takes back. For copies, `Faithful` says that while nobody disturbs it the
destination followed by the buffer is what was read of the source so far (`Progress`);
reads and writes that take fewer pieces than asked keep it.

**Synchronisation.** `LockInv` relates holder, depth and what each thread was told, `PermitInv`
the permits in the semaphore and in threads' hands, `TimeInv` what is left until the
system wakes a waiter and what is due until its caller's milliseconds are over. The
lemmas on division and carry (`DeadlineIsRight`) show that the timespec computed by
`ten_cond_wait_timeout` is a valid one and exactly that far away, for every length of a
second and every timeout.

**Handles.** `OwnInv` is about places rather than kinds of structures: a place is a structure,
a call, a child nobody waits for, or the log file, and has at most one object and one
block. What is in use is at exactly one place. Every step either takes something new to
an empty place, empties one, or moves from one to another (`TakesOwned`, `GivesOwned`,
`HandsOwned`). `GoodCall` says which of its two hands a call has full at which point, so that
nothing is in a hand that is forgotten. The other three are inductive beside it.

**Paths.** Every path function looks for the first or last character of a kind, so the
proof is an algebra of what is left of a path without its separators at the end
(`TrailOfConcat`) or at the start (`LeadOfConcat`). A join is the two with a separator
between them when neither is empty (`Between`), which is associative by itself; what joining
strips of a join is what it strips of its outer part, unless nothing of that is left (`JoinAssociates`).
File name, directory and extension are what stands on the sides of one last character
(`FilenameOfConcat`, `PartsOfPath`, `ExtensionEnds`). On Windows `PathParts` is false
(section 5).

**Room.** What a converter writes is the concatenation of one piece for each code point, what
it has counted a sum over the same code points, so both go along one recursion
(`FlattenLength`, `TotalBound`) and each piece is compared with its summand (`Utf16Fits`,
`Utf8Fits`, `Base64Fits`, `LineFits`). That a function which calls itself further on in the text has a
value everywhere is a lemma of its own (`RecursionExists`, `LinksExist`). For strings and buffers the point is
the doubling modulo `Width` (`DoubledFacts`): below half of all values it does not wrap and
grows each time, so that it reaches what is needed in fewer steps than there are values; above that
it may end for ever at 0, which `Fits` leaves to `TooMuch`. `ExtendedFacts` carries `length <= capacity`
through one call, `CallsFacts` through any number.

**Round trips.** Every encoding writes a text piece by piece and reads it by a loop that goes
on where the last piece ended, so a round trip has two parts. *What a piece is*: the bytes of a
code point are those it is decoded from (`OctetsDecode`, `DecodeOctets`), a pair of units is
its scalar (`PairFacts`), a group of Base64 digits with its padding is its one to three bytes
(`EncodedFacts`, `GroupBack`), what stringify writes for a byte is read as that byte
(`EscapeIs`); these are facts of arithmetic over all values, not over an alphabet. *Where it
is*: pieces of different lengths have their places in the text (`FlattenPlaces`), groups of one
length have them at its multiples (`Laid`). The loops are recursive functions from the end of the
text on, whose steps are lemmas (`ValidLoop`, `PointsLoop`, `GoodLoop`, `UnitsLoop`,
`ValueLoop`). `ReadBack` and `WrittenBack` join the two parts for any code: a reader that takes
every piece for what it stands for reads back what was written, and what it accepts is
what would be written of what it reads. UTF-8 and UTF-16 are two instances, each in both
directions, and a conversion is one read and the other written. For the command line the
state of the splitter is related to what of which argument has been read (`ReadsOn`): the
backslashes that wait are part of it, and none waits where a quote comes, which is where
`Unquotable` is needed (`QuoteRead`); `ShownRead` is one argument and `ArgumentsBack` all of them.

**Standards.** `ValidIsWellFormed` goes down from the end of a text: at every place the decoder and
the table of the standard accept the same and take the same number of bytes (`WellLoop`), a
row for surrogates counted in or not. Decoding is
first turned into bounds on the second byte alone (`DecodesIff`), which are then compared with the
rows (`RowIsDecoded`, `DecodedHasRow`). For literals the letters that mask the
escapes keep the rest in place (`MaskedIs`), and the value is UTF-8 because each
item appends the bytes of a code point or goes on inside one (`LiteralInUtf8`).

Only model-checked: `DocumentsReadBack`, over trees of any depth, an induction over data the
provers do not reach, with the parser followed along a grammar; all liveness
(`AcceptedTaskFinishes`, the two `CallsReturn`, `TimedWaitEnds`, the fairness part of
`ImplementsExecutor`), which is beyond the prover. Where an induction over a number or the
length of a sequence is a step of a proof above, it is one over the set of the
numbers for which the step holds (`FromBelow`, `Downward`). `TypeOK` of the modules without
proofs states the ranges of their variables.

## 5. Disagreements between code and documentation

Three have a run of their own:

* `pool_late_submit`: `thread_pool.h:33` and `:40-42` answer a late submit with
  `TEN_ERROR_INVALID_STATE`; `ten_thread_pool_destroy` frees the pool, and with it
  the flag that answer is read from, without waiting for submitters.
* `http_sigpipe`: `socket.h:48-50` answers a failed send with -1; on POSIX a send
  after the peer's reset raises SIGPIPE instead (`socket_posix.c:317`).
* `json_destroy`: `json.h:47-48` has `ten_json_destroy` free every child element, and
  `map.h:18-20` has string keys compared by their contents. `json.c:181-186` looks for a key of
  the map after earlier keys were freed: when two keys have one hash (`k1` and `k3`) and a
  growth has turned their chain round, the search for the second reads the freed string of the
  first (`map.c:75`); it may find the first one's entry, whose value was destroyed before.
  How likely two keys of one hash are is a matter of the 64 bits of the code's hash.

The next show up when a constant or a condition of a passing run is changed as
stated; the passing run has them excluded by the constant or condition named.

* `http.c:261-273` ignores what `ten_buffer_write` answers: with a client in `Unlucky`
  in `HttpServerLive.cfg`, `CallsReturn` fails (a body piece is lost, the server waits
  for it for ever and does not look at stop), against `http.h:104-105`.
* `http.c:1053` accepts on a blocking socket: with `QueueDrops = TRUE` there,
  `CallsReturn` fails (the connection `select` saw has gone and accept waits), against
  `http.h:109-112`. Linux keeps such a connection queued, so the run has `FALSE`.
* `list.c:73` multiplies sizes without a check, so a reservation whose size wraps answers
  `TEN_OK` for a block that is too small, against `list.h:84-89`. Such reservations are in the run;
  without `beyond` in `CapacityIsReal` it fails, and `WrappedNeverReal` is the proof that it must.
* `http.c:228`, `:269` and `:771` take an error of a send or receive for the end of the connection,
  also one that a second call would overcome (`socket_posix.c` does not repeat an interrupted
  call): without `broken` in `HandlerSeesTheBody` and `AnswerArrives` they fail. The
  handler is given the beginning of a body as the whole (`http.h:41-45` has no way to tell
  it), and `ten_http_client_send` may succeed with the beginning of an answer.
* `http.c:260` and `:273` ignore a piece of a body that could not be stored: `MessageArrives` has
  `whole` for this.
* `file_posix.c:255` opens the destination of a copy with truncation: source and
  destination that are one file (by path or hard link) lose their contents and the
  answer is `TEN_OK`. `CopyIsFaithful` has `FileAt(src[u]) # FileAt(dst[u])` for this.
* `process_posix.c:48` does not repeat a `waitpid` that a signal interrupts: the call fails and
  nobody can wait for the child any more. `EachHasOneOwner` counts `abandoned`
  children for this.
* `path.c:66` strips the root too: joining "/" and "etc" gives "etc", against the
  comment at `path.c:64-65`. `PathsAgree` excepts the root. With `Separator` a backslash, as on Windows, the
  directory of `a:\` is `a:`, a relative path, and `PathsAgree` fails.
* `encoding.c:231` accepts surrogates written in UTF-8, against `encoding.h:45` and
  `:63`. `AcceptsTheStandards` requires neither that they are accepted nor that they are
  refused (`SurrogateRow`); with `Rows` in place of `LooseRows` it fails. `RoundTrips` has
  `NoSurrogates`. The JSON parser writes surrogates that are escaped one by one the same way.
* `process_windows.c:19-22` says what is quoted: a quote inside an argument, a tab, or a backslash
  before the closing quote reach the child changed. `RoundTrips` excepts such arguments.
* `http.c:805` formats the request line into 256 bytes: a longer one loses its line end
  and takes the Host line with it. `MessageArrives` excepts `LongPaths`.
* `json.c:863` writes `inf` for a number that was too large (`1e400`), which the parser refuses;
  `DocumentsReadBack` has `Infinite` for it.
  The parser takes more than JSON: `strtod` accepts hexadecimal numbers, `-inf`, `-nan`, `1.` and leading
  zeros, and follows the locale. Numbers are one token here.
* `json.c:500` ignores a failed append while it reads a string, so a parse without
  memory may succeed with characters missing, against `docs/Guide.md:206`, and so may
  stringify (`json.c:804-925`); `JsonText` has memory for every append.
* `string.c:136` and `buffer.c:65` double until it fits: without `TooMuch` in `Fits`,
  `OutputFits` fails, because the doubling wraps to 0 and the call never answers
  `TEN_ERROR_OUT_OF_MEMORY` (`string.h:49`). It takes two blocks of half the addresses.

These were met while modelling; the properties are stated so that they are allowed:

* The two bodies of one header differ. `ten_mutex_try_lock` by the holder fails on POSIX and
  succeeds on Windows, whose mutex is recursive. A timed wait that the clock's owner sets back
  lasts longer on POSIX (`CLOCK_REALTIME`); `DeadlineIsKept` is about a clock not set. On
  Windows a timeout is cut to 32 bits and its largest value means for ever
  (`sync_windows.c:227`). Append mode on Windows seeks once, when the file is opened
  (`file.h:21-23` takes the modes of fopen, where every write goes to the end), and sizes of sends and receives are cut to `int` and `DWORD`.
* A permit of the semaphore in `Sync` is posted by a thread that has taken one, so that permits
  can be counted; `sync.h` does not ask that, and the code does not look at who posts.
* A condition's wait that wakes for no reason answers `TEN_OK`, which `sync.h:60` says of a signal or
  broadcast. The properties do not take `TEN_OK` for a signal.
* A short write leaves `TEN_OK` as the last error (`file_posix.c:147`);
  `ten_plugin_call_shutdown` without such a function leaves `TEN_ERROR_NOT_FOUND`
  though nothing failed.
* `WSAStartup`'s result is not looked at: `StartedFirst` says that it was called, not that it
  succeeded. `ten_udp_send_to` tries the first address of a name only.

## 6. What is not modelled, and why

* `ten_http_server_run` with a client that connects and stays silent does not
  return (`http.c:221`); the code has no timeout and `http.h` documents that the
  connection in progress is finished first. The liveness run assumes clients that go on.
* Characters: header lines, numbers, JSON's white space, URLs, method names. Values are
  abstracted to what the properties tell apart.
* The last errors of files, texts, containers and the pool: the answers are modelled instead.
* A task that destroys the pool it runs on: its worker would join itself
  (`thread_pool.c:206`; `thread_pool.h:38-44` does not exclude it). The owner is no worker
  in the model, nor does a thread join itself in `Handles`, where a join does not fail.
* Recursion depth: the parser, destroy and stringify use the C stack once per level
  (`json.c:655`); `Depth` is the model's bound, the code has none.
* A value to insert that points into the list itself (`list.c:118`): growth frees it before it is
  copied. The list's elements are values here, not addresses.
* Races that the headers leave to callers: the log's file, level and callback
  (`log.c:119`), `ten_init` (its comment says so, `init.c:6-7`), and the one buffer in
  which Windows returns values of the environment (`process_windows.c:112`).
* The table of allocator functions, `time.c`, `version.c`: nothing is kept, or nothing reads
  what is kept. The environment is the system's.
* The Rust bindings: declarations and wrappers. Who owns a closure is decided by Rust's types; what C
  asks of its callers is the contract the modules here assume.

## 7. Plan

Done, in the order of importance: pool with its abstract executor and proofs; HTTP
exchange with its abstract exchange and proofs; map and list with abstract specifications and
proofs; JSON object, parser, documents and strings; files on both platforms and their proofs;
synchronisation objects and handles on both platforms and their proofs; encodings, paths,
command lines, strings and buffers, and proofs of the paths, the room, the round trips and the
standards; HTTP messages and their proofs; proofs of the JSON object and parser.

What is left, in the order of what it would add:

1. an abstract ordered dictionary for `JsonObject` to implement;
2. of `DocumentsReadBack` the part that needs no tree: that a text the parser accepts has its
   brackets in pairs;
3. the log with several writers, and the numbers of JSON as strings of digits;
4. the closure that the Rust thread pool boxes, from submit to its call or drop.
