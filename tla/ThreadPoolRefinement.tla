------------------------ MODULE ThreadPoolRefinement ------------------------
(***************************************************************************)
(* The worker pool implements the abstract executor.  A task is accepted   *)
(* at the enqueue and not when submit returns, and the executor closes     *)
(* when destroy sets shutting_down and not when it is called.              *)
(***************************************************************************)
EXTENDS ThreadPool

Refused == {k \in Tasks : result[k] \in {"invalid_state", "out_of_memory"}}

Phase ==
  CASE owner = "freed" -> "closed"
    [] owner # "freed" /\ (shutting_down \/ owner = "release") -> "closing"
    [] OTHER -> "open"

Executor == INSTANCE TaskExecutor WITH
              Capacity <- Cardinality(Workers),
              phase <- Phase,
              refused <- Refused

(* Every behaviour of the pool's threads, with the fairness of ThreadPool, *)
(* is one of the executor's, safety and liveness.                          *)
ImplementsExecutor == Executor!FairSpec
=============================================================================
