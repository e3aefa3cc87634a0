----------------------------- MODULE ThreadPool -----------------------------
(***************************************************************************)
(* The fixed-size worker pool of src/thread_pool/thread_pool.c: a FIFO of  *)
(* tasks and a shutting_down flag, both guarded by one mutex, and one      *)
(* condition variable on which idle workers sleep.                         *)
(*                                                                         *)
(* Three kinds of threads take steps.  A worker runs                       *)
(* ten__thread_pool_worker.  A client calls ten_thread_pool_submit; so may *)
(* a worker, from inside the task it is running.  The owner calls          *)
(* ten_thread_pool_create and later ten_thread_pool_destroy.  A step is    *)
(* what a thread does between two points where another one can interfere:  *)
(* acquiring the mutex, a critical section up to its unlock, a signal or a *)
(* broadcast (both sent after the unlock), a join, the release of memory.  *)
(***************************************************************************)
EXTENDS Naturals, Sequences, FiniteSets

CONSTANTS
  Workers,  \* the threads ten_thread_pool_create starts
  Clients,  \* other threads that hold the pool and may submit to it
  Tasks,    \* the (function, userdata) pairs, each submitted at most once
  Owner,    \* the thread that creates and destroys the pool
  None      \* no thread, no task

(* worker_count = 0 is rejected at line 92; the rest only says that names  *)
(* denote distinct things.                                                 *)
ASSUME ThreadsAssumption ==
  /\ IsFiniteSet(Workers) /\ Workers # {}
  /\ IsFiniteSet(Clients)
  /\ Workers \cap Clients = {}
  /\ Owner \notin Workers \cup Clients
  /\ None \notin Workers \cup Clients \cup Tasks \cup {Owner}

VARIABLES
  lock,           \* pool->lock: the thread holding it, or None
  queue,          \* pool->queue_head ... queue_tail
  shutting_down,  \* pool->shutting_down
  created,        \* the workers already started by ten_thread_pool_create
  owner,          \* where the owner is: see OwnerPoints
  pc,             \* where each worker and client is: see WorkerPoints, SubmitPoints
  task,           \* the task each worker is running, or None
  arg,            \* the task each thread is submitting, or None
  result,         \* what ten_thread_pool_submit returned for each task
  accepted,       \* history: tasks in the order they entered the queue
  started,        \* history: tasks in the order workers dequeued them
  finished        \* history: tasks whose function returned

poolVars == <<lock, queue, shutting_down>>
history  == <<accepted, started, finished>>
vars == <<poolVars, created, owner, pc, task, arg, result, history>>

Threads == Workers \cup Clients

OwnerPoints == {"create", "open", "mark", "marking", "broadcast", "join",
                "drain", "release", "freed"}
SubmitPoints == {"submit_lock", "submit_locked", "signal"}
WorkerPoints == {"unborn", "lock", "locked", "waiting", "reacquire",
                 "running", "exited"}
Results == {"new", "pending", "ok", "invalid_state", "out_of_memory"}

Waiting == {w \in Workers : pc[w] = "waiting"}

(* Where a submit returns to: a worker is inside the task it runs.         *)
Base(t) == IF t \in Workers THEN "running" ELSE "idle"

Init ==
  /\ lock = None /\ queue = <<>> /\ shutting_down = FALSE
  /\ created = {} /\ owner = "create"
  /\ pc = [t \in Threads |-> IF t \in Workers THEN "unborn" ELSE "idle"]
  /\ task = [w \in Workers |-> None]
  /\ arg = [t \in Threads |-> None]
  /\ result = [k \in Tasks |-> "new"]
  /\ accepted = <<>> /\ started = <<>> /\ finished = {}

-----------------------------------------------------------------------------
(* ten__thread_pool_worker                                                 *)

Move(t, from, to) ==
  /\ pc[t] = from
  /\ pc' = [pc EXCEPT ![t] = to]
  /\ UNCHANGED <<queue, shutting_down, created, owner, task, arg, result, history>>

Acquire(t, from, to) == lock = None /\ lock' = t /\ Move(t, from, to)
Release(t, from, to) == lock' = None /\ Move(t, from, to)

WorkerLock(w) == Acquire(w, "lock", "locked")

\* Mutant: the while test looks at the queue only.
WorkerWait_IgnoresFlag(w) == queue = <<>> /\ Release(w, "locked", "waiting")

(* The wait condition holds: ten_cond_wait gives the mutex up and sleeps,  *)
(* in one step.                                                            *)
WorkerWait(w) ==
  queue = <<>> /\ ~shutting_down /\ Release(w, "locked", "waiting")

(* pthread_cond_wait may return without a signal.                          *)
SpuriousWakeup(w) == UNCHANGED lock /\ Move(w, "waiting", "reacquire")

(* A woken worker holds the mutex again and goes back to the while test.   *)
WorkerReacquire(w) == Acquire(w, "reacquire", "locked")

\* Mutant: the exit test looks at the flag only.
WorkerExit_WithoutDraining(w) == shutting_down /\ Release(w, "locked", "exited")

WorkerExit(w) == queue = <<>> /\ shutting_down /\ Release(w, "locked", "exited")

\* Mutant: the head is run but not unlinked.
WorkerTake_NoUnlink(w) ==
  /\ pc[w] = "locked"
  /\ queue # <<>>
  /\ task' = [task EXCEPT ![w] = Head(queue)]
  /\ started' = Append(started, Head(queue))
  /\ lock' = None
  /\ pc' = [pc EXCEPT ![w] = "running"]
  /\ UNCHANGED <<queue, shutting_down, created, owner, arg, result, accepted, finished>>

\* Mutant: takes the newest task.
WorkerTake_Newest(w) ==
  /\ pc[w] = "locked"
  /\ queue # <<>>
  /\ task' = [task EXCEPT ![w] = queue[Len(queue)]]
  /\ queue' = SubSeq(queue, 1, Len(queue) - 1)
  /\ started' = Append(started, queue[Len(queue)])
  /\ lock' = None
  /\ pc' = [pc EXCEPT ![w] = "running"]
  /\ UNCHANGED <<shutting_down, created, owner, arg, result, accepted, finished>>

WorkerTake(w) ==
  /\ pc[w] = "locked"
  /\ queue # <<>>
  /\ task' = [task EXCEPT ![w] = Head(queue)]
  /\ queue' = Tail(queue)
  /\ started' = Append(started, Head(queue))
  /\ lock' = None
  /\ pc' = [pc EXCEPT ![w] = "running"]
  /\ UNCHANGED <<shutting_down, created, owner, arg, result, accepted, finished>>

(* The task's function returns, its node is freed, the loop starts over.   *)
TaskReturn(w) ==
  /\ pc[w] = "running"
  /\ finished' = finished \cup {task[w]}
  /\ task' = [task EXCEPT ![w] = None]
  /\ pc' = [pc EXCEPT ![w] = "lock"]
  /\ UNCHANGED <<poolVars, created, owner, arg, result, accepted, started>>

-----------------------------------------------------------------------------
(* ten_thread_pool_submit                                                  *)

SubmitCall(t, k) ==
  /\ pc[t] = Base(t)
  /\ result[k] = "new"
  /\ result' = [result EXCEPT ![k] = "pending"]
  /\ arg' = [arg EXCEPT ![t] = k]
  /\ pc' = [pc EXCEPT ![t] = "submit_lock"]
  /\ UNCHANGED <<poolVars, created, owner, task, history>>

SubmitOutOfMemory(t, k) ==
  /\ pc[t] = Base(t)
  /\ result[k] = "new"
  /\ result' = [result EXCEPT ![k] = "out_of_memory"]
  /\ UNCHANGED <<poolVars, created, owner, pc, task, arg, history>>

SubmitLock(t) == Acquire(t, "submit_lock", "submit_locked")

SubmitReject(t) ==
  /\ pc[t] = "submit_locked"
  /\ shutting_down
  /\ lock' = None
  /\ result' = [result EXCEPT ![arg[t]] = "invalid_state"]
  /\ arg' = [arg EXCEPT ![t] = None]
  /\ pc' = [pc EXCEPT ![t] = Base(t)]
  /\ UNCHANGED <<queue, shutting_down, created, owner, task, history>>

\* Mutant: signals only when the queue was empty.
SubmitEnqueue_SignalFirstOnly(t) ==
  /\ pc[t] = "submit_locked"
  /\ ~shutting_down
  /\ queue' = Append(queue, arg[t])
  /\ accepted' = Append(accepted, arg[t])
  /\ lock' = None
  /\ IF queue = <<>>
     THEN pc' = [pc EXCEPT ![t] = "signal"] /\ UNCHANGED <<arg, result>>
     ELSE /\ pc' = [pc EXCEPT ![t] = Base(t)]
          /\ result' = [result EXCEPT ![arg[t]] = "ok"]
          /\ arg' = [arg EXCEPT ![t] = None]
  /\ UNCHANGED <<shutting_down, created, owner, task, started, finished>>

SubmitEnqueue(t) ==
  /\ pc[t] = "submit_locked"
  /\ ~shutting_down
  /\ queue' = Append(queue, arg[t])
  /\ accepted' = Append(accepted, arg[t])
  /\ lock' = None
  /\ pc' = [pc EXCEPT ![t] = "signal"]
  /\ UNCHANGED <<shutting_down, created, owner, task, arg, result, started, finished>>

\* Mutant: returns without the signal.
SubmitSignal_Forgotten(t) ==
  /\ pc[t] = "signal"
  /\ pc' = [pc EXCEPT ![t] = Base(t)]
  /\ result' = [result EXCEPT ![arg[t]] = "ok"]
  /\ arg' = [arg EXCEPT ![t] = None]
  /\ UNCHANGED <<poolVars, created, owner, task, history>>

(* ten_cond_signal wakes one sleeping worker when there is one.            *)
SubmitSignal(t) ==
  /\ pc[t] = "signal"
  /\ \/ /\ Waiting = {}
        /\ pc' = [pc EXCEPT ![t] = Base(t)]
     \/ \E w \in Waiting : pc' = [pc EXCEPT ![t] = Base(t), ![w] = "reacquire"]
  /\ result' = [result EXCEPT ![arg[t]] = "ok"]
  /\ arg' = [arg EXCEPT ![t] = None]
  /\ UNCHANGED <<poolVars, created, owner, task, history>>

-----------------------------------------------------------------------------
(* ten_thread_pool_create, ten__thread_pool_cleanup_partial and            *)
(* ten_thread_pool_destroy                                                 *)

OwnerGoes(from, to) ==
  /\ owner = from
  /\ owner' = to
  /\ UNCHANGED <<poolVars, created, pc, task, arg, result, history>>

CreateWorker(w) ==
  /\ owner = "create"
  /\ w \notin created
  /\ created' = created \cup {w}
  /\ pc' = [pc EXCEPT ![w] = "lock"]
  /\ owner' = IF created' = Workers THEN "open" ELSE "create"
  /\ UNCHANGED <<poolVars, task, arg, result, history>>

(* An allocation or a ten_thread_create fails: cleanup_partial stops and   *)
(* joins the workers already started, if any, and frees the pool.          *)
CreateFail == OwnerGoes("create", IF created = {} THEN "release" ELSE "mark")

DestroyCall == OwnerGoes("open", "mark")

DestroyLock ==
  /\ owner = "mark" /\ lock = None
  /\ lock' = Owner
  /\ owner' = "marking"
  /\ UNCHANGED <<queue, shutting_down, created, pc, task, arg, result, history>>

DestroyMark ==
  /\ owner = "marking"
  /\ shutting_down' = TRUE
  /\ lock' = None
  /\ owner' = "broadcast"
  /\ UNCHANGED <<queue, created, pc, task, arg, result, history>>

DestroyBroadcast ==
  /\ owner = "broadcast"
  /\ pc' = [t \in Threads |-> IF t \in Waiting THEN "reacquire" ELSE pc[t]]
  /\ owner' = "join"
  /\ UNCHANGED <<poolVars, created, task, arg, result, history>>

\* Mutant: the join loop stops one worker early.
DestroyJoin_OneTooFew ==
  /\ \E v \in created : \A w \in created \ {v} : pc[w] = "exited"
  /\ OwnerGoes("join", IF created = Workers THEN "drain" ELSE "release")

(* The joins only wait: the order in which they do does not matter.        *)
DestroyJoin ==
  /\ \A w \in created : pc[w] = "exited"
  /\ OwnerGoes("join", IF created = Workers THEN "drain" ELSE "release")

(* The leftover loop frees what is still queued without running it.        *)
DestroyDrain ==
  /\ owner = "drain"
  /\ queue' = <<>>
  /\ owner' = "release"
  /\ UNCHANGED <<lock, shutting_down, created, pc, task, arg, result, history>>

DestroyRelease == OwnerGoes("release", "freed")

-----------------------------------------------------------------------------
(* What the callers may do.  A task is a caller like any other, and a task *)
(* that runs during destroy may still submit.  Other threads get the pool  *)
(* when create has returned, and under the pool's contract they are done   *)
(* with it before destroy is called.                                       *)

MaySubmit(t) == t \in Clients => owner = "open"

MayDestroy == \A c \in Clients : pc[c] = "idle"

Terminated ==
  /\ owner = "freed" /\ \A t \in Threads : pc[t] \in {"unborn", "idle", "exited"}
  /\ UNCHANGED vars

WorkerAcquire(w) == WorkerLock(w) \/ WorkerReacquire(w)
WorkerStep(w) == WorkerWait(w) \/ WorkerExit(w) \/ WorkerTake(w) \/ TaskReturn(w)
SubmitStep(t) == SubmitReject(t) \/ SubmitEnqueue(t) \/ SubmitSignal(t)
Submission(t) == \E k \in Tasks : SubmitCall(t, k) \/ SubmitOutOfMemory(t, k)
OwnerStep == \/ DestroyMark \/ DestroyBroadcast \/ DestroyJoin
             \/ DestroyDrain \/ DestroyRelease

Internal ==
  \/ \E w \in Workers : \/ WorkerAcquire(w) \/ WorkerStep(w)
                        \/ SpuriousWakeup(w) \/ CreateWorker(w)
  \/ \E t \in Threads : SubmitLock(t) \/ SubmitStep(t)
  \/ CreateFail \/ DestroyLock \/ OwnerStep

Next ==
  \/ Internal
  \/ \E t \in Threads : MaySubmit(t) /\ Submission(t)
  \/ MayDestroy /\ DestroyCall
  \/ Terminated

Spec == Init /\ [][Next]_vars

(* Every thread that can go on does, a mutex is not withheld forever from  *)
(* a thread that keeps asking for it, and every task's function returns.   *)
(* Nobody has to submit, or to call destroy.                               *)
Fairness ==
  /\ \A w \in Workers : SF_vars(WorkerAcquire(w)) /\ WF_vars(WorkerStep(w))
  /\ \A t \in Threads : SF_vars(SubmitLock(t)) /\ WF_vars(SubmitStep(t))
  /\ SF_vars(DestroyLock) /\ WF_vars(OwnerStep)

FairSpec == Spec /\ Fairness

(* Callers that submit whenever they please, as thread_pool.h:33 and       *)
(* thread_pool.h:40-42 allow them to.                                      *)
RacingNext ==
  \/ Internal
  \/ \E t \in Threads : created = Workers /\ Submission(t)
  \/ DestroyCall
  \/ Terminated

RacingSpec == Init /\ [][RacingNext]_vars

-----------------------------------------------------------------------------
(* Properties                                                              *)

Elems(s) == {s[i] : i \in DOMAIN s}

TypeOK ==
  /\ lock \in Threads \cup {Owner, None}
  /\ queue \in Seq(Tasks) /\ accepted \in Seq(Tasks) /\ started \in Seq(Tasks)
  /\ finished \subseteq Tasks
  /\ shutting_down \in BOOLEAN
  /\ created \subseteq Workers
  /\ owner \in OwnerPoints
  /\ pc \in [Threads -> WorkerPoints \cup SubmitPoints \cup {"idle"}]
  /\ task \in [Workers -> Tasks \cup {None}]
  /\ arg \in [Threads -> Tasks \cup {None}]
  /\ result \in [Tasks -> Results]

(* A thread is between a lock and its unlock exactly when it holds the     *)
(* mutex, so the queue and the flag are only touched by one thread.        *)
Holding(t) == pc[t] \in {"locked", "submit_locked"}
MutualExclusion ==
  /\ \A t \in Threads : Holding(t) <=> lock = t
  /\ owner = "marking" <=> lock = Owner

(* Every accepted task is either still queued or was dequeued exactly      *)
(* once, and tasks are dequeued in the order they were accepted: the       *)
(* linked list at lines 42-47 and 171-180 loses, repeats and reorders      *)
(* nothing whatever the workers and submitters do.                         *)
FifoExactlyOnce ==
  /\ accepted = started \o queue
  /\ \A i, j \in DOMAIN accepted : accepted[i] = accepted[j] => i = j

(* What submit answers is what happens: a task whose submit failed is      *)
(* never queued, so the caller still owns its userdata (the Rust binding   *)
(* takes its closure back on every error), and TEN_OK means the task was   *)
(* queued.                                                                 *)
AnswerIsTruthful ==
  \A k \in Tasks :
    /\ result[k] \in {"new", "invalid_state", "out_of_memory"} => k \notin Elems(accepted)
    /\ result[k] = "ok" => k \in Elems(accepted)

(* When the workers are joined nothing accepted is left unfinished: the    *)
(* leftover loop at lines 209-215 never frees a task it should have run.   *)
DestroyDropsNothing ==
  owner \in {"drain", "release", "freed"} => finished = Elems(accepted)

(* Once destroy or cleanup_partial has freed the pool no thread is at a    *)
(* point from which it goes on to use the pool's mutex, condition variable *)
(* or queue.                                                               *)
UsesPool(t) == pc[t] \in SubmitPoints \cup
                 {"lock", "locked", "waiting", "reacquire", "running"}
NoUseAfterFree == owner = "freed" => \A t \in Threads : ~UsesPool(t)

(* A sleeping worker never sits beside work nobody is coming for: while    *)
(* one sleeps, every queued task is matched by a worker that is awake and  *)
(* about to look at the queue or by a signal still to be sent, although    *)
(* the signal at line 183 is sent after the unlock.                        *)
Awake == {w \in Workers : pc[w] \in {"lock", "reacquire", "locked"}}
PendingSignals == {t \in Threads : pc[t] = "signal"}
NoLostWakeup ==
  Waiting # {} => Len(queue) <= Cardinality(Awake) + Cardinality(PendingSignals)

(* After the broadcast no worker sleeps, or goes back to sleep, so the     *)
(* joins cannot wait for a worker that nobody will wake.                   *)
NoSleeperAfterBroadcast ==
  owner \in {"join", "drain", "release", "freed"} => Waiting = {}

(* Every accepted task is run to completion, also when destroy is called   *)
(* right after it was submitted.                                           *)
AcceptedTaskFinishes ==
  \A k \in Tasks : (k \in Elems(accepted)) ~> (k \in finished)

(* Calls return: destroy, create when it fails half-way, and submit,       *)
(* whichever of them wait for the mutex or for one another.                *)
CallsReturn ==
  /\ (owner = "mark") ~> (owner = "freed")
  /\ \A k \in Tasks : (result[k] = "pending") ~> (result[k] # "pending")

(* thread_pool.h:33 and 40-42: a submit that arrives while the pool is     *)
(* being destroyed, or after, is answered TEN_ERROR_INVALID_STATE.  It can *)
(* only be answered from a pool that still exists.                         *)
LateSubmitIsAnswered ==
  \A c \in Clients : pc[c] \in SubmitPoints => owner # "freed"
=============================================================================
