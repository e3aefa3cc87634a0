------------------------------- MODULE Handles -------------------------------
(***************************************************************************)
(* The structures the library hands out for things of the operating        *)
(* system, on both platforms: ten_socket, ten_plugin, ten_thread, the      *)
(* mutex, semaphore and condition variable; and what has no structure, the *)
(* log file and the child of ten_process_execute.  A call needs memory and *)
(* an object of the system, either can fail, and other threads are between *)
(* the steps of calls of their own: a number or an address given back may  *)
(* be somebody else's at once.                                             *)
(*                                                                         *)
(* The callers do as the headers say: a structure is given to one call     *)
(* that ends it, and one thread at a time sets the log file.               *)
(***************************************************************************)
EXTENDS Platform, Integers, FiniteSets

CONSTANTS
    Threads,
    Nothing,           \* no block, no object
    Blocks,         \* bound: the addresses of memory
    Numbers,        \* bound: descriptors and handles of the system
    MaxAddresses    \* bound: how many addresses a name has

ASSUME HandlesAssumption ==
    /\ Blocks \subseteq Nat /\ Numbers \subseteq Nat
    /\ Nothing \notin Blocks \cup Numbers
    /\ MaxAddresses \in Nat \ {0}
    /\ IsFiniteSet(Threads)

VARIABLES
    blocks,     \* the memory in use
    os,         \* the objects in use
    lists,      \* how many lists of getaddrinfo are not freed yet
    handles,    \* the structures in the hands of the program
    running,    \* threads and children that have not ended
    abandoned,  \* children whose wait was interrupted
    logFile,    \* g_ten_log_file
    wsa,        \* g_wsa_initialized, and what WSAStartup did
    call,       \* the call each thread is in
    error,      \* the last error of each thread
    answer      \* what the last call of each thread answered

handleVars == <<blocks, os, lists, handles, running, abandoned, logFile, wsa, call, error, answer>>

Addressed == {"connect", "listen", "udp_bind", "send_to"}

Network == Addressed \cup {"udp_socket"}

\* The structures made before the object they are for
HeapFirst == {"thread", "mutex", "semaphore", "cond"}

Quiet == [op |-> "none", at |-> "idle", block |-> Nothing, obj |-> Nothing, left |-> 0]

HandlesInit ==
    /\ platform \in Platforms
    /\ blocks = {} /\ os = {} /\ lists = 0
    /\ handles = {} /\ running = {} /\ abandoned = {}
    /\ logFile = Nothing
    /\ wsa = [flag |-> FALSE, library |-> "down"]
    /\ call = [t \in Threads |-> Quiet]
    /\ error = [t \in Threads |-> "ok"]
    /\ answer = [t \in Threads |-> "none"]

At(t, point) == call[t].at = point

Calls(t) == At(t, "idle")

Lowest(S) == CHOOSE n \in S : \A m \in S : n <= m

\* The system, or the heap, has one more to give and gives the first.
Gives(used, all, new) == all \ used # {} /\ new = Lowest(all \ used)

\* A call that answers reports its own result; until it does, the last error
\* is what an earlier call left.
Begins(t, rec) ==
    /\ call' = [call EXCEPT ![t] = rec]
    /\ error' = [error EXCEPT ![t] = "stale"]
    /\ answer' = [answer EXCEPT ![t] = "none"]

Goes(t, point) ==
    /\ call' = [call EXCEPT ![t].at = point]
    /\ UNCHANGED <<error, answer>>

Answers(t, what, code) ==
    /\ call' = [call EXCEPT ![t] = Quiet]
    /\ error' = [error EXCEPT ![t] = code]
    /\ answer' = [answer EXCEPT ![t] = what]

Fails(t, code) == Answers(t, "failed", code)

Succeeds(t) == Answers(t, "ok", "ok")

\* A call without a result leaves the last error alone.
Ends(t) ==
    /\ call' = [call EXCEPT ![t] = Quiet]
    /\ UNCHANGED <<error, answer>>

Handle(kind, block, obj) == [kind |-> kind, block |-> block, obj |-> obj]

-----------------------------------------------------------------------------
(* Sockets: WSAStartup, once and for all *)

FirstPoint(op) == IF op \in Addressed THEN "resolve" ELSE "socket"

NetworkCall(t, op) ==
    /\ Calls(t)
    /\ op = "send_to" => \E h \in handles : h.kind = "socket"
    /\ Begins(t, [Quiet EXCEPT !.op = op, !.at = IF Windows THEN "ensure" ELSE FirstPoint(op)])
    /\ UNCHANGED <<platform, blocks, os, lists, handles, running, abandoned, logFile, wsa>>

\* Mutant: the flag is set before the library is started.
EnsureInit_MarksFirst(t) ==
    /\ At(t, "ensure")
    /\ Goes(t, IF wsa.flag THEN FirstPoint(call[t].op) ELSE "startup")
    /\ wsa' = [wsa EXCEPT !.flag = TRUE]
    /\ UNCHANGED <<platform, blocks, os, lists, handles, running, abandoned, logFile>>

EnsureInit(t) ==
    /\ At(t, "ensure")
    /\ Goes(t, IF wsa.flag THEN FirstPoint(call[t].op) ELSE "startup")
    /\ UNCHANGED <<platform, blocks, os, lists, handles, running, abandoned, logFile, wsa>>

\* Its result is not looked at.
Startup(t) ==
    /\ At(t, "startup")
    /\ \E result \in {"up", "failed"} :
        wsa' = [wsa EXCEPT !.library = IF @ = "up" THEN "up" ELSE result]
    /\ Goes(t, "mark")
    /\ UNCHANGED <<platform, blocks, os, lists, handles, running, abandoned, logFile>>

MarkStarted(t) ==
    /\ At(t, "mark")
    /\ wsa' = [wsa EXCEPT !.flag = TRUE]
    /\ Goes(t, FirstPoint(call[t].op))
    /\ UNCHANGED <<platform, blocks, os, lists, handles, running, abandoned, logFile>>

-----------------------------------------------------------------------------
(* Sockets: one address after the other *)

NetworkIsUp == Posix \/ wsa.library = "up"

ResolveFails(t) ==
    /\ At(t, "resolve")
    /\ Fails(t, "network")
    /\ UNCHANGED <<platform, blocks, os, lists, handles, running, abandoned, logFile, wsa>>

Resolve(t) ==
    /\ At(t, "resolve")
    /\ NetworkIsUp
    /\ lists' = lists + 1
    /\ \E n \in 1..MaxAddresses :
        call' = [call EXCEPT ![t].left = n,
                             ![t].at = IF call[t].op = "send_to" THEN "send" ELSE "address"]
    /\ UNCHANGED <<platform, blocks, os, handles, running, abandoned, logFile, wsa, error, answer>>

\* sendto goes to the first address.
SendTo(t) ==
    /\ At(t, "send")
    /\ lists' = lists - 1
    /\ Succeeds(t) \/ Fails(t, "network")
    /\ UNCHANGED <<platform, blocks, os, handles, running, abandoned, logFile, wsa>>

\* No socket for this address: the next one
NoSocketHere(t) ==
    /\ At(t, "address")
    /\ call[t].left > 0
    /\ call' = [call EXCEPT ![t].left = @ - 1]
    /\ UNCHANGED <<platform, blocks, os, lists, handles, running, abandoned, logFile, wsa, error, answer>>

SocketHere(t) ==
    /\ At(t, "address")
    /\ call[t].left > 0
    /\ \E n \in Numbers :
        /\ Gives(os, Numbers, n)
        /\ os' = os \cup {n}
        /\ call' = [call EXCEPT ![t].obj = n, ![t].at = "attach"]
    /\ UNCHANGED <<platform, blocks, lists, handles, running, abandoned, logFile, wsa, error, answer>>

\* connect or bind works: the loop ends with the socket.
Attaches(t) ==
    /\ At(t, "attach")
    /\ Goes(t, "free_list")
    /\ UNCHANGED <<platform, blocks, os, lists, handles, running, abandoned, logFile, wsa>>

\* Mutant: the number of the closed socket is kept.
AttachFails_KeepsNumber(t) ==
    /\ At(t, "attach")
    /\ os' = os \ {call[t].obj}
    /\ call' = [call EXCEPT ![t].left = @ - 1, ![t].at = "address"]
    /\ UNCHANGED <<platform, blocks, lists, handles, running, abandoned, logFile, wsa, error, answer>>

\* Closed, and forgotten: the next address, or none
AttachFails(t) ==
    /\ At(t, "attach")
    /\ os' = os \ {call[t].obj}
    /\ call' = [call EXCEPT ![t].obj = Nothing, ![t].left = @ - 1, ![t].at = "address"]
    /\ UNCHANGED <<platform, blocks, lists, handles, running, abandoned, logFile, wsa, error, answer>>

FreeList(t) ==
    /\ At(t, "free_list") \/ (At(t, "address") /\ call[t].left = 0)
    /\ lists' = lists - 1
    /\ IF call[t].obj = Nothing
       THEN Fails(t, "network")
       ELSE Goes(t, IF call[t].op = "listen" THEN "listen" ELSE "wrap")
    /\ UNCHANGED <<platform, blocks, os, handles, running, abandoned, logFile, wsa>>

Listens(t) ==
    /\ At(t, "listen")
    /\ Goes(t, "wrap")
    /\ UNCHANGED <<platform, blocks, os, lists, handles, running, abandoned, logFile, wsa>>

ListenFails(t) ==
    /\ At(t, "listen")
    /\ os' = os \ {call[t].obj}
    /\ Fails(t, "network")
    /\ UNCHANGED <<platform, blocks, lists, handles, running, abandoned, logFile, wsa>>

-----------------------------------------------------------------------------
(* The object first, then memory: ten__socket_wrap and ten_plugin_load *)

\* socket, accept, dlopen, LoadLibrary
MayOpen(t) ==
    \/ At(t, "socket") /\ NetworkIsUp
    \/ At(t, "accept")
    \/ At(t, "library")

OpenFails(t) ==
    /\ At(t, "socket") \/ At(t, "accept") \/ At(t, "library")
    /\ Fails(t, IF At(t, "library") THEN "io" ELSE "network")
    /\ UNCHANGED <<platform, blocks, os, lists, handles, running, abandoned, logFile, wsa>>

Opens(t) ==
    /\ MayOpen(t)
    /\ \E n \in Numbers :
        /\ Gives(os, Numbers, n)
        /\ os' = os \cup {n}
        /\ call' = [call EXCEPT ![t].obj = n, ![t].at = "wrap"]
    /\ UNCHANGED <<platform, blocks, lists, handles, running, abandoned, logFile, wsa, error, answer>>

TcpAccept(t) ==
    /\ Calls(t)
    /\ \E h \in handles : h.kind = "socket"
    /\ Begins(t, [Quiet EXCEPT !.op = "accept", !.at = "accept"])
    /\ UNCHANGED <<platform, blocks, os, lists, handles, running, abandoned, logFile, wsa>>

PluginLoad(t) ==
    /\ Calls(t)
    /\ Begins(t, [Quiet EXCEPT !.op = "load", !.at = "library"])
    /\ UNCHANGED <<platform, blocks, os, lists, handles, running, abandoned, logFile, wsa>>

\* ten_malloc reports its own result last.
Wraps(t) ==
    /\ At(t, "wrap")
    /\ \E b \in Blocks :
        /\ Gives(blocks, Blocks, b)
        /\ blocks' = blocks \cup {b}
        /\ handles' = handles \cup
              {Handle(IF call[t].op = "load" THEN "library" ELSE "socket", b, call[t].obj)}
    /\ Succeeds(t)
    /\ UNCHANGED <<platform, os, lists, running, abandoned, logFile, wsa>>

\* Mutant: the code of the network call is set after the wrapping.
WrapFails_SaysOk(t) ==
    /\ At(t, "wrap")
    /\ os' = os \ {call[t].obj}
    /\ Fails(t, "ok")
    /\ UNCHANGED <<platform, blocks, lists, handles, running, abandoned, logFile, wsa>>

WrapFails(t) ==
    /\ At(t, "wrap")
    /\ os' = os \ {call[t].obj}
    /\ Fails(t, "out_of_memory")
    /\ UNCHANGED <<platform, blocks, lists, handles, running, abandoned, logFile, wsa>>

-----------------------------------------------------------------------------
(* Memory first, then the object: threads, mutexes, semaphores, conditions *)

\* A mutex and a condition live in their block; so does a sem_t.
HasObject(kind) == kind = "thread" \/ (kind = "semaphore" /\ Windows)

MayFail(kind) == Posix \/ kind \in {"thread", "semaphore"}

Create(t, kind) ==
    /\ Calls(t)
    /\ \E b \in Blocks :
        /\ Gives(blocks, Blocks, b)
        /\ blocks' = blocks \cup {b}
        /\ Begins(t, [Quiet EXCEPT !.op = kind, !.at = "init", !.block = b])
    /\ UNCHANGED <<platform, os, lists, handles, running, abandoned, logFile, wsa>>

\* No memory for the structure, or for the command line of a child on Windows
CreateOutOfMemory(t) ==
    /\ Calls(t)
    /\ Fails(t, "out_of_memory")
    /\ UNCHANGED <<platform, blocks, os, lists, handles, running, abandoned, logFile, wsa>>

InitFails(t) ==
    /\ At(t, "init")
    /\ MayFail(call[t].op)
    /\ blocks' = blocks \ {call[t].block}
    /\ Fails(t, "system")
    /\ UNCHANGED <<platform, os, lists, handles, running, abandoned, logFile, wsa>>

Inits(t) ==
    /\ At(t, "init")
    /\ IF HasObject(call[t].op)
       THEN \E n \in Numbers :
              /\ Gives(os, Numbers, n)
              /\ os' = os \cup {n}
              /\ handles' = handles \cup {Handle(call[t].op, call[t].block, n)}
              /\ running' = IF call[t].op = "thread"
                            THEN running \cup {[obj |-> n, block |-> call[t].block]}
                            ELSE running
       ELSE /\ handles' = handles \cup {Handle(call[t].op, call[t].block, Nothing)}
            /\ UNCHANGED <<os, running>>
    /\ Succeeds(t)
    /\ UNCHANGED <<platform, blocks, lists, abandoned, logFile, wsa>>

\* The function returns; on Windows its result goes into the ten_thread.
Finishes(r) ==
    /\ r \in running
    /\ running' = running \ {r}
    /\ UNCHANGED <<platform, blocks, os, lists, handles, abandoned, logFile, wsa, call, error, answer>>

-----------------------------------------------------------------------------
(* Use and end of a structure *)

\* ten_socket_send, ten_socket_receive, ten_udp_receive_from,
\* ten_socket_poll_readable: one call of the system
Transfer(t, h) ==
    /\ Calls(t)
    /\ h \in handles /\ h.kind = "socket"
    /\ Succeeds(t) \/ Fails(t, "network")
    /\ UNCHANGED <<platform, blocks, os, lists, handles, running, abandoned, logFile, wsa>>

Symbol(t, h) ==
    /\ Calls(t)
    /\ h \in handles /\ h.kind = "library"
    /\ Succeeds(t) \/ Fails(t, "not_found")
    /\ UNCHANGED <<platform, blocks, os, lists, handles, running, abandoned, logFile, wsa>>

\* ten_plugin_call_init answers what the plugin's function does, when there is
\* one.
PluginInit(t, h) ==
    /\ Calls(t)
    /\ h \in handles /\ h.kind = "library"
    /\ Answers(t, "plugin", "ok") \/ Fails(t, "not_supported")
    /\ UNCHANGED <<platform, blocks, os, lists, handles, running, abandoned, logFile, wsa>>

\* ten_plugin_call_shutdown has no result, and leaves the error of the search.
PluginShutdown(t, h) ==
    /\ Calls(t)
    /\ h \in handles /\ h.kind = "library"
    /\ Answers(t, "none", "ok") \/ Answers(t, "none", "not_found")
    /\ UNCHANGED <<platform, blocks, os, lists, handles, running, abandoned, logFile, wsa>>

\* The caller gives the structure away: close, unload, destroy.
GiveAway(t, h) ==
    /\ Calls(t)
    /\ h \in handles /\ h.kind # "thread"
    /\ handles' = handles \ {h}
    /\ call' = [call EXCEPT ![t] = [Quiet EXCEPT !.op = "close", !.at = "close",
                                                 !.block = h.block, !.obj = h.obj]]
    /\ UNCHANGED <<platform, blocks, os, lists, running, abandoned, logFile, wsa, error, answer>>

Join(t, h) ==
    /\ Calls(t)
    /\ h \in handles /\ h.kind = "thread"
    /\ handles' = handles \ {h}
    /\ Begins(t, [Quiet EXCEPT !.op = "join", !.at = "join", !.block = h.block, !.obj = h.obj])
    /\ UNCHANGED <<platform, blocks, os, lists, running, abandoned, logFile, wsa>>

Ended(obj) == \A r \in running : r.obj # obj

\* Mutant: the thread is not waited for.
Joined_AtOnce(t) ==
    /\ At(t, "join")
    /\ Goes(t, "close")
    /\ UNCHANGED <<platform, blocks, os, lists, handles, running, abandoned, logFile, wsa>>

Joined(t) ==
    /\ At(t, "join")
    /\ Ended(call[t].obj)
    /\ Goes(t, "close")
    /\ UNCHANGED <<platform, blocks, os, lists, handles, running, abandoned, logFile, wsa>>

CloseObject(t) ==
    /\ At(t, "close")
    /\ os' = os \ {call[t].obj}
    /\ call' = [call EXCEPT ![t].obj = Nothing, ![t].at = "free"]
    /\ UNCHANGED <<platform, blocks, lists, handles, running, abandoned, logFile, wsa, error, answer>>

FreeBlock(t) ==
    /\ At(t, "free")
    /\ blocks' = blocks \ {call[t].block}
    /\ IF call[t].op = "join" THEN Succeeds(t) ELSE Ends(t)
    /\ UNCHANGED <<platform, os, lists, handles, running, abandoned, logFile, wsa>>

-----------------------------------------------------------------------------
(* ten_process_execute *)

\* Windows makes a command line first.
Execute(t) ==
    /\ Calls(t)
    /\ IF Posix
       THEN /\ Begins(t, [Quiet EXCEPT !.op = "execute", !.at = "spawn"])
            /\ UNCHANGED blocks
       ELSE \E b \in Blocks :
              /\ Gives(blocks, Blocks, b)
              /\ blocks' = blocks \cup {b}
              /\ Begins(t, [Quiet EXCEPT !.op = "execute", !.at = "spawn", !.block = b])
    /\ UNCHANGED <<platform, os, lists, handles, running, abandoned, logFile, wsa>>

SpawnFails(t) ==
    /\ At(t, "spawn")
    /\ blocks' = blocks \ {call[t].block}
    /\ Fails(t, "system")
    /\ UNCHANGED <<platform, os, lists, handles, running, abandoned, logFile, wsa>>

Spawns(t) ==
    /\ At(t, "spawn")
    /\ \E n \in Numbers :
        /\ Gives(os, Numbers, n)
        /\ os' = os \cup {n}
        /\ running' = running \cup {[obj |-> n, block |-> Nothing]}
        /\ call' = [call EXCEPT ![t].obj = n, ![t].block = Nothing, ![t].at = "wait"]
    /\ blocks' = blocks \ {call[t].block}
    /\ UNCHANGED <<platform, lists, handles, abandoned, logFile, wsa, error, answer>>

ChildReaped(t) ==
    /\ At(t, "wait")
    /\ Ended(call[t].obj)
    /\ os' = os \ {call[t].obj}
    /\ Succeeds(t)
    /\ UNCHANGED <<platform, blocks, lists, handles, running, abandoned, logFile, wsa>>

\* A signal interrupts waitpid: the call fails, and nobody has the number of
\* the child any more.
WaitInterrupted(t) ==
    /\ Posix
    /\ At(t, "wait")
    /\ abandoned' = abandoned \cup {call[t].obj}
    /\ Fails(t, "system")
    /\ UNCHANGED <<platform, blocks, os, lists, handles, running, logFile, wsa>>

-----------------------------------------------------------------------------
(* The log file *)

SettingLog == \E t \in Threads : call[t].op = "set_file"

LogSetFile(t) ==
    /\ Calls(t)
    /\ ~SettingLog
    /\ os' = os \ {logFile}
    /\ logFile' = Nothing
    /\ Begins(t, [Quiet EXCEPT !.op = "set_file", !.at = "open_log"])
    /\ UNCHANGED <<platform, blocks, lists, handles, running, abandoned, wsa>>

\* No path: the file stays closed.
LogNoFile(t) ==
    /\ At(t, "open_log")
    /\ Succeeds(t)
    /\ UNCHANGED <<platform, blocks, os, lists, handles, running, abandoned, logFile, wsa>>

LogOpens(t) ==
    /\ At(t, "open_log")
    /\ \E n \in Numbers :
        /\ Gives(os, Numbers, n)
        /\ os' = os \cup {n}
        /\ logFile' = n
    /\ Succeeds(t)
    /\ UNCHANGED <<platform, blocks, lists, handles, running, abandoned, wsa>>

LogOpenFails(t) ==
    /\ At(t, "open_log")
    /\ Fails(t, "io")
    /\ UNCHANGED <<platform, blocks, os, lists, handles, running, abandoned, logFile, wsa>>

\* ten_log answers TEN_OK whatever the console, the file and the callback did.
Log(t) ==
    /\ Calls(t)
    /\ ~SettingLog
    /\ Succeeds(t)
    /\ UNCHANGED <<platform, blocks, os, lists, handles, running, abandoned, logFile, wsa>>

HandlesNext ==
    \/ \E t \in Threads :
        \/ \E op \in Network : NetworkCall(t, op)
        \/ EnsureInit(t) \/ Startup(t) \/ MarkStarted(t)
        \/ ResolveFails(t) \/ Resolve(t) \/ SendTo(t)
        \/ NoSocketHere(t) \/ SocketHere(t) \/ Attaches(t) \/ AttachFails(t)
        \/ FreeList(t) \/ Listens(t) \/ ListenFails(t)
        \/ TcpAccept(t) \/ PluginLoad(t)
        \/ OpenFails(t) \/ Opens(t) \/ Wraps(t) \/ WrapFails(t)
        \/ \E kind \in HeapFirst : Create(t, kind)
        \/ CreateOutOfMemory(t) \/ InitFails(t) \/ Inits(t)
        \/ \E h \in handles : Transfer(t, h) \/ Symbol(t, h) \/ PluginInit(t, h) \/ PluginShutdown(t, h)
                              \/ GiveAway(t, h) \/ Join(t, h)
        \/ Joined(t) \/ CloseObject(t) \/ FreeBlock(t)
        \/ Execute(t) \/ SpawnFails(t) \/ Spawns(t) \/ ChildReaped(t) \/ WaitInterrupted(t)
        \/ LogSetFile(t) \/ LogNoFile(t) \/ LogOpens(t) \/ LogOpenFails(t) \/ Log(t)
    \/ \E r \in running : Finishes(r)

-----------------------------------------------------------------------------
(* Properties *)

Holders(b) ==
    Cardinality({h \in handles : h.block = b}) + Cardinality({t \in Threads : call[t].block = b})

Owners(n) ==
    Cardinality({h \in handles : h.obj = n}) + Cardinality({t \in Threads : call[t].obj = n})
    + Cardinality({x \in {logFile} : x = n}) + Cardinality({x \in abandoned : x = n})

\* Every descriptor, handle, block and address list in use has exactly one
\* structure or call that will give it back, and nothing given back is held
\* by one: no way out of a call, with or without memory, at any address of a
\* loop, loses an object, closes it twice, or closes what another thread has
\* got under the same number in between.  Only the child of an interrupted
\* wait is left to nobody.
EachHasOneOwner ==
    /\ \A b \in Blocks : Holders(b) = IF b \in blocks THEN 1 ELSE 0
    /\ \A n \in Numbers : Owners(n) = IF n \in os THEN 1 ELSE 0
    /\ lists = Cardinality({t \in Threads : call[t].at \in {"address", "attach", "free_list", "send"}})

\* What runs is still held: a thread by its ten_thread, in whose block the
\* Windows trampoline stores the result, until a join that waited for it; a
\* child by the call that waits for it.
RunningIsHeld ==
    \A r \in running :
        \/ \E h \in handles : h.obj = r.obj /\ h.block = r.block
        \/ \E t \in Threads : call[t].obj = r.obj /\ call[t].block = r.block /\ call[t].at \in {"join", "wait"}
        \/ r.obj \in abandoned

\* No thread makes a network call before some WSAStartup has returned, though
\* g_wsa_initialized is read and set without a lock and two threads may both
\* start the library.
StartedFirst ==
    \A t \in Threads :
        /\ Windows
        /\ call[t].op \in Network
        /\ call[t].at \notin {"ensure", "startup"}
        => wsa.library # "down"

\* The last error of a thread is the result of its own last call: no error
\* after one that answered, an error after one that failed, never what was
\* there before, even when the failure is in the last step of many.
ErrorIsOfTheCall ==
    \A t \in Threads : Calls(t) =>
        /\ answer[t] = "ok" => error[t] = "ok"
        /\ answer[t] = "failed" => error[t] \notin {"ok", "stale"}

=============================================================================
