---------------------------- MODULE TaskExecutor ----------------------------
(***************************************************************************)
(* What thread_pool.h promises the callers of a pool, without the mutex,   *)
(* the condition variable, the workers' loops or the pool's memory: tasks  *)
(* are accepted or refused, accepted ones are started in order by at most  *)
(* Capacity threads and run once, and the pool is only gone when all of    *)
(* them have finished.                                                     *)
(***************************************************************************)
EXTENDS Naturals, Sequences, FiniteSets

CONSTANTS Tasks, Capacity

VARIABLES
  phase,     \* "open", then "closing" once destroy has taken effect, then "closed"
  accepted,  \* tasks in the order they were accepted
  started,   \* tasks in the order they were started
  finished,  \* tasks that have returned
  refused    \* tasks whose submission was refused

vars == <<phase, accepted, started, finished, refused>>

AcceptedSet == {accepted[i] : i \in DOMAIN accepted}
StartedSet == {started[i] : i \in DOMAIN started}
Running == StartedSet \ finished

Init ==
  /\ phase = "open"
  /\ accepted = <<>> /\ started = <<>>
  /\ finished = {} /\ refused = {}

Accept(k) ==
  /\ phase = "open"
  /\ k \notin AcceptedSet \cup refused
  /\ accepted' = Append(accepted, k)
  /\ UNCHANGED <<phase, started, finished, refused>>

(* Refused because the pool is being destroyed, or for lack of memory.     *)
Refuse(k) ==
  /\ phase # "closed"
  /\ k \notin AcceptedSet \cup refused
  /\ refused' = refused \cup {k}
  /\ UNCHANGED <<phase, accepted, started, finished>>

Start ==
  /\ Len(started) < Len(accepted)
  /\ Cardinality(Running) < Capacity
  /\ started' = Append(started, accepted[Len(started) + 1])
  /\ UNCHANGED <<phase, accepted, finished, refused>>

Finish(k) ==
  /\ k \in Running
  /\ finished' = finished \cup {k}
  /\ UNCHANGED <<phase, accepted, started, refused>>

Close ==
  /\ phase = "open"
  /\ phase' = "closing"
  /\ UNCHANGED <<accepted, started, finished, refused>>

Terminate ==
  /\ phase = "closing"
  /\ finished = AcceptedSet
  /\ phase' = "closed"
  /\ UNCHANGED <<accepted, started, finished, refused>>

Next ==
  \/ \E k \in Tasks : Accept(k) \/ Refuse(k) \/ Finish(k)
  \/ Start \/ Close \/ Terminate

Spec == Init /\ [][Next]_vars

(* A pool with a free thread and a backlog starts the next task, a task    *)
(* returns, and a pool with nothing left to do closes.                     *)
FairSpec ==
  /\ Spec
  /\ WF_vars(Start) /\ WF_vars(Terminate)
  /\ \A k \in Tasks : WF_vars(Finish(k))
=============================================================================
