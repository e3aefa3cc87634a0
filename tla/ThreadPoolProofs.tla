-------------------------- MODULE ThreadPoolProofs --------------------------
(***************************************************************************)
(* Proofs about ThreadPool, for any finite sets of workers and clients and *)
(* any set of tasks: its invariants, and that every behaviour of the pool  *)
(* is one of the abstract executor (the safety part; the fairness part of  *)
(* ImplementsExecutor is TLC's).                                           *)
(***************************************************************************)
EXTENDS ThreadPoolRefinement, SequenceTheorems, FiniteSetTheorems, TLAPS

-----------------------------------------------------------------------------
(* Sequences                                                               *)

(* Appending adds one element.                                             *)
LEMMA ElemsAppend ==
  ASSUME NEW S, NEW s \in Seq(S), NEW x \in S
  PROVE  Elems(Append(s, x)) = Elems(s) \cup {x}
<1>1. /\ Len(Append(s, x)) = Len(s) + 1
      /\ \A i \in 1 .. Len(s) : Append(s, x)[i] = s[i]
      /\ Append(s, x)[Len(s) + 1] = x
      /\ DOMAIN Append(s, x) = 1 .. Len(s) + 1
  OBVIOUS
<1>2. DOMAIN s = 1 .. Len(s) /\ Len(s) \in Nat
  OBVIOUS
<1>3. ASSUME NEW e \in Elems(Append(s, x)) PROVE e \in Elems(s) \cup {x}
  BY <1>1, <1>2 DEF Elems
<1>4. ASSUME NEW e \in Elems(s) \cup {x} PROVE e \in Elems(Append(s, x))
  BY <1>1, <1>2 DEF Elems
<1>. QED  BY <1>3, <1>4

(* Moving the head of the second part to the end of the first one leaves   *)
(* the concatenation as it is.                                             *)
LEMMA ConcatMoveHead ==
  ASSUME NEW S, NEW s \in Seq(S), NEW q \in Seq(S), q # <<>>
  PROVE  Append(s, Head(q)) \o Tail(q) = s \o q
<1> DEFINE a == Append(s, Head(q)) \o Tail(q)
<1>1. Head(q) \in S /\ Tail(q) \in Seq(S) /\ Len(q) > 0
  BY HeadTailProperties, EmptySeq
<1>2. a \in Seq(S) /\ s \o q \in Seq(S)
  BY <1>1, AppendProperties, ConcatProperties
<1>3. Len(a) = Len(s \o q)
  BY <1>1, AppendProperties, ConcatProperties, HeadTailProperties
<1>4. ASSUME NEW i \in 1 .. Len(a) PROVE a[i] = (s \o q)[i]
  BY <1>1, <1>3, <1>4
<1>. QED  BY <1>2, <1>3, <1>4, SeqEqual

(* Appending to the second part appends to the concatenation.              *)
LEMMA ConcatAppend ==
  ASSUME NEW S, NEW s \in Seq(S), NEW q \in Seq(S), NEW x \in S
  PROVE  s \o Append(q, x) = Append(s \o q, x)
<1>1. <<x>> \in Seq(S) /\ s \o q \in Seq(S)
  BY ConcatProperties
<1>2. Append(q, x) = q \o <<x>> /\ Append(s \o q, x) = (s \o q) \o <<x>>
  BY <1>1, AppendIsConcat
<1>. QED  BY <1>1, <1>2, ConcatAssociative

(* A sequence without repetitions has none after a new element.            *)
NoRepeats(s) == \A i, j \in DOMAIN s : s[i] = s[j] => i = j
LEMMA NoRepeatsAppend ==
  ASSUME NEW S, NEW s \in Seq(S), NEW x \in S, NoRepeats(s), x \notin Elems(s)
  PROVE  NoRepeats(Append(s, x))
<1>1. /\ \A i \in 1 .. Len(s) : Append(s, x)[i] = s[i]
      /\ Append(s, x)[Len(s) + 1] = x
      /\ DOMAIN Append(s, x) = 1 .. Len(s) + 1
      /\ DOMAIN s = 1 .. Len(s) /\ Len(s) \in Nat
  OBVIOUS
<1>2. \A i \in 1 .. Len(s) : s[i] # x
  BY <1>1 DEF Elems
<1>. QED  BY <1>1, <1>2 DEF NoRepeats

-----------------------------------------------------------------------------
(* Types.  TypeOK is inductive once it is known that a thread has a task   *)
(* or an argument exactly at the points where it uses it.                  *)

Shape ==
  /\ \A c \in Clients : pc[c] \in SubmitPoints \cup {"idle"}
  /\ \A w \in Workers : pc[w] \in WorkerPoints \cup SubmitPoints
  /\ \A w \in Workers : task[w] # None <=> pc[w] \in SubmitPoints \cup {"running"}
  /\ \A t \in Threads : arg[t] # None <=> pc[t] \in SubmitPoints
  /\ \A w \in Workers : pc[w] = "unborn" <=> w \notin created

TypeInv == TypeOK /\ Shape

LEMMA InitType == Init => TypeInv
<1> SUFFICES ASSUME Init PROVE TypeInv
  OBVIOUS
<1>1. TypeOK
  <2>1. queue \in Seq(Tasks) /\ accepted \in Seq(Tasks) /\ started \in Seq(Tasks)
    BY EmptySeq DEF Init
  <2>2. pc \in [Threads -> WorkerPoints \cup SubmitPoints \cup {"idle"}]
    BY DEF Init, WorkerPoints
  <2>. QED  BY <2>1, <2>2 DEF Init, TypeOK, OwnerPoints, Results
<1>2. Shape
  BY ThreadsAssumption DEF Init, Shape, Threads, WorkerPoints, SubmitPoints
<1>. QED  BY <1>1, <1>2 DEF TypeInv

LEMMA NextType == TypeInv /\ [Next]_vars => TypeInv'
<1> SUFFICES ASSUME TypeInv, [Next]_vars PROVE TypeInv'
  OBVIOUS
<1> USE ThreadsAssumption
    DEF TypeInv, TypeOK, Shape, Threads, OwnerPoints, WorkerPoints, SubmitPoints,
        Results, poolVars, history
<1>1. ASSUME NEW w \in Workers, WorkerAcquire(w) PROVE TypeInv'
  <2>1. CASE WorkerLock(w)
    BY <2>1 DEF WorkerLock, Acquire, Move
  <2>2. CASE WorkerReacquire(w)
    BY <2>2 DEF WorkerReacquire, Acquire, Move
  <2>. QED  BY <1>1, <2>1, <2>2 DEF WorkerAcquire
<1>2. ASSUME NEW w \in Workers, WorkerWait(w) \/ WorkerExit(w) \/ SpuriousWakeup(w)
      PROVE TypeInv'
  BY <1>2 DEF WorkerWait, WorkerExit, SpuriousWakeup, Release, Move
<1>3. ASSUME NEW w \in Workers, WorkerTake(w) PROVE TypeInv'
  <2>1. Head(queue) \in Tasks /\ Tail(queue) \in Seq(Tasks)
    BY <1>3, HeadTailProperties DEF WorkerTake
  <2>2. started' \in Seq(Tasks)
    BY <1>3, <2>1, AppendProperties DEF WorkerTake
  <2>. QED  BY <1>3, <2>1, <2>2 DEF WorkerTake
<1>4. ASSUME NEW w \in Workers, TaskReturn(w) PROVE TypeInv'
  BY <1>4 DEF TaskReturn
<1>5. ASSUME NEW t \in Threads, NEW k \in Tasks, SubmitCall(t, k) PROVE TypeInv'
  BY <1>5 DEF SubmitCall, Base
<1>6. ASSUME NEW t \in Threads, NEW k \in Tasks, SubmitOutOfMemory(t, k) PROVE TypeInv'
  BY <1>6 DEF SubmitOutOfMemory
<1>7. ASSUME NEW t \in Threads, SubmitLock(t) PROVE TypeInv'
  BY <1>7 DEF SubmitLock, Acquire, Move
<1>8. ASSUME NEW t \in Threads, SubmitReject(t) PROVE TypeInv'
  BY <1>8 DEF SubmitReject, Base
<1>9. ASSUME NEW t \in Threads, SubmitEnqueue(t) PROVE TypeInv'
  <2>1. arg[t] \in Tasks
    BY <1>9 DEF SubmitEnqueue
  <2>2. queue' \in Seq(Tasks) /\ accepted' \in Seq(Tasks)
    BY <1>9, <2>1, AppendProperties DEF SubmitEnqueue
  <2>. QED  BY <1>9, <2>1, <2>2 DEF SubmitEnqueue
<1>10. ASSUME NEW t \in Threads, SubmitSignal(t) PROVE TypeInv'
  <2>1. CASE pc' = [pc EXCEPT ![t] = Base(t)]
    BY <1>10, <2>1 DEF SubmitSignal, Base
  <2>2. ASSUME NEW w \in Waiting, pc' = [pc EXCEPT ![t] = Base(t), ![w] = "reacquire"]
        PROVE TypeInv'
    <3>1. w \in Workers /\ pc[w] = "waiting" /\ w # t
      BY <1>10, <2>2 DEF SubmitSignal, Waiting
    <3>2. /\ pc' \in [Threads -> WorkerPoints \cup SubmitPoints \cup {"idle"}]
          /\ pc'[w] = "reacquire" /\ pc'[t] = Base(t)
          /\ \A u \in Threads : u # w /\ u # t => pc'[u] = pc[u]
      BY <2>2, <3>1 DEF Base
    <3>3. TypeOK'
      BY <1>10, <3>2 DEF SubmitSignal
    <3>4. /\ task' = task /\ created' = created
          /\ arg'[t] = None /\ \A u \in Threads : u # t => arg'[u] = arg[u]
          /\ pc[t] = "signal"
      BY <1>10 DEF SubmitSignal
    <3>5. pc'[t] \in {"running", "idle"} /\ (t \in Workers <=> pc'[t] = "running")
      BY <3>2 DEF Base
    <3>6. \A u \in Threads : arg'[u] # None <=> pc'[u] \in SubmitPoints
      <4>1. \A u \in {t, w} : arg'[u] = None
        BY <3>1, <3>4
      <4>2. \A u \in {t, w} : pc'[u] \notin SubmitPoints
        BY <3>2, <3>5
      <4>3. ASSUME NEW u \in Threads, u # t, u # w
            PROVE  arg'[u] = arg[u] /\ pc'[u] = pc[u]
        BY <3>2, <3>4, <4>3
      <4>4. \A u \in Threads : arg[u] # None <=> pc[u] \in SubmitPoints
        OBVIOUS
      <4>. QED  BY ONLY <4>1, <4>2, <4>3, <4>4
    <3>7. ASSUME NEW v \in Workers
          PROVE  /\ task[v] # None <=> pc'[v] \in SubmitPoints \cup {"running"}
                 /\ pc'[v] \in WorkerPoints \cup SubmitPoints
                 /\ pc'[v] = "unborn" <=> v \notin created
      <4>1. CASE v = w
        BY <3>1, <3>2, <4>1
      <4>2. CASE v = t
        <5>1. task[t] # None /\ t \in created
          BY <3>4, <4>2
        <5>. QED  BY <3>5, <4>2, <5>1
      <4>3. CASE v # w /\ v # t
        <5>1. pc'[v] = pc[v]
          BY <3>2, <4>3
        <5>. QED  BY <5>1
      <4>. QED  BY <4>1, <4>2, <4>3
    <3>8. ASSUME NEW c \in Clients PROVE pc'[c] \in SubmitPoints \cup {"idle"}
      <4>1. c # w /\ c \in Threads
        BY <3>1
      <4>2. CASE c = t
        BY <3>5, <4>2
      <4>3. CASE c # t
        BY <3>2, <4>1, <4>3
      <4>. QED  BY <4>2, <4>3
    <3>9. Shape'
      BY <3>4, <3>6, <3>7, <3>8
    <3>. QED  BY <3>3, <3>9
  <2>. QED  BY <1>10, <2>1, <2>2 DEF SubmitSignal
<1>11. ASSUME NEW w \in Workers, CreateWorker(w) PROVE TypeInv'
  BY <1>11 DEF CreateWorker
<1>12. CASE CreateFail \/ DestroyCall \/ DestroyLock
  BY <1>12 DEF CreateFail, DestroyCall, DestroyLock, OwnerGoes
<1>13. CASE OwnerStep
  <2>1. CASE DestroyMark
    BY <2>1 DEF DestroyMark
  <2>2. CASE DestroyBroadcast
    BY <2>2 DEF DestroyBroadcast, Waiting
  <2>3. CASE DestroyDrain
    BY <2>3, EmptySeq DEF DestroyDrain
  <2>4. CASE DestroyJoin
    BY <2>4 DEF DestroyJoin, OwnerGoes
  <2>5. CASE DestroyRelease
    BY <2>5 DEF DestroyRelease, OwnerGoes
  <2>. QED  BY ONLY <1>13, <2>1, <2>2, <2>3, <2>4, <2>5 DEF OwnerStep
<1>14. CASE UNCHANGED vars
  BY <1>14 DEF vars
<1>. QED
  BY <1>1, <1>2, <1>3, <1>4, <1>5, <1>6, <1>7, <1>8, <1>9, <1>10, <1>11, <1>12,
     <1>13, <1>14
  DEF Next, Internal, WorkerStep, SubmitStep, Submission, Terminated

(* The variables of the pool keep their types.                             *)
THEOREM TypeCorrect == Spec => []TypeOK
<1>1. TypeInv => TypeOK
  BY DEF TypeInv
<1>. QED  BY InitType, NextType, <1>1, PTL DEF Spec

-----------------------------------------------------------------------------
(* Control: who holds the mutex, what each phase of the pool's life allows *)
(* the threads to be doing, and what an exited worker has seen.            *)

LifeInv ==
  /\ owner # "open" => \A c \in Clients : pc[c] = "idle"
  /\ owner \in {"open", "drain"} => created = Workers
  /\ created # Workers =>
       /\ queue = <<>> /\ accepted = <<>>
       /\ \A w \in Workers : pc[w] \notin SubmitPoints \cup {"running"}
  /\ shutting_down => owner \in {"broadcast", "join", "drain", "release", "freed"}
  /\ owner \in {"broadcast", "join", "drain"} => shutting_down
  /\ owner \in {"drain", "release", "freed"} => \A w \in created : pc[w] = "exited"
  /\ \A w \in Workers : pc[w] = "exited" => shutting_down /\ queue = <<>>
  /\ owner \in {"join", "drain", "release", "freed"} =>
       \A w \in Workers : pc[w] # "waiting"

ControlInv == TypeInv /\ MutualExclusion /\ LifeInv

(* A submitter's signal moves it out of submit and wakes one sleeper, or   *)
(* nobody if nobody sleeps.                                                *)
Woken(t, W) == [u \in Threads |-> IF u = t THEN Base(t)
                                  ELSE IF u \in W THEN "reacquire" ELSE pc[u]]
LEMMA SignalEffect ==
  ASSUME TypeInv, NEW t \in Threads, SubmitSignal(t)
  PROVE  /\ t \notin Waiting
         /\ \/ Waiting = {} /\ pc' = Woken(t, {})
            \/ \E w \in Waiting : pc' = Woken(t, {w})
<1>1. pc = [u \in Threads |-> pc[u]] /\ pc[t] = "signal"
  BY DEF SubmitSignal, TypeInv, TypeOK
<1>2. ASSUME pc' = [pc EXCEPT ![t] = Base(t)] PROVE pc' = Woken(t, {})
  BY <1>1, <1>2 DEF Woken
<1>3. ASSUME NEW w \in Waiting, pc' = [pc EXCEPT ![t] = Base(t), ![w] = "reacquire"]
      PROVE  pc' = Woken(t, {w})
  <2>1. w # t /\ w \in Threads
    BY <1>1 DEF Waiting, Threads
  <2>. QED  BY <1>1, <1>3, <2>1 DEF Woken
<1>4. t \notin Waiting
  BY <1>1 DEF Waiting
<1>. QED  BY ONLY <1>2, <1>3, <1>4, SubmitSignal(t) DEF SubmitSignal

LEMMA InitControl == Init => ControlInv
<1> SUFFICES ASSUME Init PROVE ControlInv
  OBVIOUS
<1>1. MutualExclusion
  BY ThreadsAssumption DEF Init, MutualExclusion, Holding, Threads
<1>2. LifeInv
  BY ThreadsAssumption DEF Init, LifeInv, Threads, SubmitPoints
<1>. QED  BY <1>1, <1>2, InitType DEF ControlInv

LEMMA NextMutualExclusion == ControlInv /\ [Next]_vars => MutualExclusion'
<1> SUFFICES ASSUME ControlInv, [Next]_vars PROVE MutualExclusion'
  OBVIOUS
<1> USE ThreadsAssumption
    DEF ControlInv, TypeInv, TypeOK, MutualExclusion, Holding, Threads, poolVars
<1>1. ASSUME NEW w \in Workers, WorkerLock(w) PROVE MutualExclusion'
  BY <1>1 DEF WorkerLock, Acquire, Move
<1>2. ASSUME NEW w \in Workers, WorkerReacquire(w) PROVE MutualExclusion'
  BY <1>2 DEF WorkerReacquire, Acquire, Move
<1>3. ASSUME NEW w \in Workers, WorkerWait(w) \/ WorkerExit(w) PROVE MutualExclusion'
  BY <1>3 DEF WorkerWait, WorkerExit, Release, Move
<1>4. ASSUME NEW w \in Workers, WorkerTake(w) PROVE MutualExclusion'
  BY <1>4 DEF WorkerTake
<1>5. ASSUME NEW w \in Workers, TaskReturn(w) \/ SpuriousWakeup(w) PROVE MutualExclusion'
  BY <1>5 DEF TaskReturn, SpuriousWakeup, Move
<1>6. ASSUME NEW t \in Threads, NEW k \in Tasks, SubmitCall(t, k) PROVE MutualExclusion'
  BY <1>6 DEF SubmitCall, Base
<1>7. ASSUME NEW t \in Threads, NEW k \in Tasks, SubmitOutOfMemory(t, k)
      PROVE MutualExclusion'
  BY <1>7 DEF SubmitOutOfMemory
<1>8. ASSUME NEW t \in Threads, SubmitLock(t) PROVE MutualExclusion'
  BY <1>8 DEF SubmitLock, Acquire, Move
<1>9. ASSUME NEW t \in Threads, SubmitReject(t) \/ SubmitEnqueue(t) PROVE MutualExclusion'
  <2>1. /\ lock = t /\ lock' = None /\ owner' = owner
        /\ \/ pc' = [pc EXCEPT ![t] = Base(t)]
           \/ pc' = [pc EXCEPT ![t] = "signal"]
    BY <1>9 DEF SubmitReject, SubmitEnqueue
  <2>2. CASE pc' = [pc EXCEPT ![t] = Base(t)]
    BY <2>1, <2>2 DEF Base
  <2>3. CASE pc' = [pc EXCEPT ![t] = "signal"]
    BY <2>1, <2>3
  <2>. QED  BY ONLY <2>1, <2>2, <2>3
<1>10. ASSUME NEW t \in Threads, SubmitSignal(t) PROVE MutualExclusion'
  <2>0. \/ pc' = Woken(t, {})
        \/ \E w \in Waiting : pc' = Woken(t, {w})
    BY ONLY <1>10, SignalEffect, TypeInv
  <2>1. PICK W \in SUBSET Waiting : pc' = Woken(t, W)
    BY ONLY <2>0
  <2>2. lock' = lock /\ owner' = owner /\ pc[t] = "signal"
    BY <1>10 DEF SubmitSignal
  <2>3. \A u \in W : pc[u] = "waiting"
    BY DEF Waiting
  <2>. QED  BY <2>1, <2>2, <2>3 DEF Woken, Base
<1>11. ASSUME NEW w \in Workers, CreateWorker(w) PROVE MutualExclusion'
  BY <1>11 DEF CreateWorker, Shape
<1>12. CASE CreateFail \/ DestroyCall \/ DestroyLock
  BY <1>12 DEF CreateFail, DestroyCall, DestroyLock, OwnerGoes
<1>13. CASE DestroyBroadcast
  BY <1>13 DEF DestroyBroadcast, Waiting
<1>14. CASE DestroyMark \/ DestroyJoin \/ DestroyDrain \/ DestroyRelease
  BY <1>14 DEF DestroyMark, DestroyJoin, DestroyDrain, DestroyRelease, OwnerGoes
<1>15. CASE UNCHANGED vars
  BY <1>15 DEF vars
<1>. QED
  BY ONLY <1>1, <1>2, <1>3, <1>4, <1>5, <1>6, <1>7, <1>8, <1>9, <1>10, <1>11,
     <1>12, <1>13, <1>14, <1>15, [Next]_vars
  DEF Next, Internal, WorkerAcquire, WorkerStep, SubmitStep, Submission, OwnerStep,
      Terminated

LEMMA NextLife == ControlInv /\ [Next]_vars => LifeInv'
<1> SUFFICES ASSUME ControlInv, [Next]_vars PROVE LifeInv'
  OBVIOUS
<1> USE ThreadsAssumption
    DEF ControlInv, TypeInv, TypeOK, Shape, LifeInv, Threads, OwnerPoints,
        WorkerPoints, SubmitPoints, poolVars, history
<1>1. ASSUME NEW w \in Workers, WorkerLock(w) PROVE LifeInv'
  BY <1>1 DEF WorkerLock, Acquire, Move
<1>2. ASSUME NEW w \in Workers, WorkerReacquire(w) PROVE LifeInv'
  BY <1>2 DEF WorkerReacquire, Acquire, Move
<1>3. ASSUME NEW w \in Workers, WorkerWait(w) PROVE LifeInv'
  BY <1>3 DEF WorkerWait, Release, Move
<1>4. ASSUME NEW w \in Workers, WorkerExit(w) PROVE LifeInv'
  BY <1>4 DEF WorkerExit, Release, Move
<1>5. ASSUME NEW w \in Workers, SpuriousWakeup(w) PROVE LifeInv'
  BY <1>5 DEF SpuriousWakeup, Move
<1>6. ASSUME NEW w \in Workers, WorkerTake(w) PROVE LifeInv'
  BY <1>6 DEF WorkerTake
<1>7. ASSUME NEW w \in Workers, TaskReturn(w) PROVE LifeInv'
  BY <1>7 DEF TaskReturn
<1>8. ASSUME NEW t \in Threads, NEW k \in Tasks, SubmitCall(t, k), MaySubmit(t)
      PROVE LifeInv'
  BY <1>8 DEF SubmitCall, MaySubmit, Base
<1>9. ASSUME NEW t \in Threads, NEW k \in Tasks, SubmitOutOfMemory(t, k)
      PROVE LifeInv'
  BY <1>9 DEF SubmitOutOfMemory
<1>10. ASSUME NEW t \in Threads, SubmitLock(t) PROVE LifeInv'
  BY <1>10 DEF SubmitLock, Acquire, Move
<1>11. ASSUME NEW t \in Threads, SubmitReject(t) PROVE LifeInv'
  BY <1>11 DEF SubmitReject, Base
<1>12. ASSUME NEW t \in Threads, SubmitEnqueue(t) PROVE LifeInv'
  BY <1>12 DEF SubmitEnqueue
<1>13. ASSUME NEW t \in Threads, SubmitSignal(t) PROVE LifeInv'
  <2>1. \/ pc' = Woken(t, {})
        \/ \E w \in Waiting : pc' = Woken(t, {w})
    BY ONLY <1>13, SignalEffect, TypeInv
  <2>2. PICK W \in SUBSET Waiting : pc' = Woken(t, W)
    BY ONLY <2>1
  <2>3. /\ pc[t] = "signal"
        /\ UNCHANGED <<lock, queue, shutting_down, created, owner, accepted>>
    BY <1>13 DEF SubmitSignal
  <2>4. \A u \in W : u \in Workers /\ pc[u] = "waiting"
    BY DEF Waiting
  <2>. QED  BY <2>2, <2>3, <2>4 DEF Woken, Base
<1>14. ASSUME NEW w \in Workers, CreateWorker(w) PROVE LifeInv'
  BY <1>14 DEF CreateWorker
<1>15. CASE CreateFail
  BY <1>15 DEF CreateFail, OwnerGoes
<1>16. CASE MayDestroy /\ DestroyCall
  BY <1>16 DEF DestroyCall, MayDestroy, OwnerGoes
<1>17. CASE DestroyLock
  BY <1>17 DEF DestroyLock
<1>18. CASE DestroyMark
  BY <1>18 DEF DestroyMark
<1>19. CASE DestroyBroadcast
  BY <1>19 DEF DestroyBroadcast, Waiting
<1>20. CASE DestroyJoin
  BY <1>20 DEF DestroyJoin, OwnerGoes
<1>21. CASE DestroyDrain
  BY <1>21 DEF DestroyDrain
<1>22. CASE DestroyRelease
  BY <1>22 DEF DestroyRelease, OwnerGoes
<1>23. CASE UNCHANGED vars
  BY <1>23 DEF vars
<1>. QED
  BY ONLY <1>1, <1>2, <1>3, <1>4, <1>5, <1>6, <1>7, <1>8, <1>9, <1>10, <1>11,
     <1>12, <1>13, <1>14, <1>15, <1>16, <1>17, <1>18, <1>19, <1>20, <1>21, <1>22,
     <1>23, [Next]_vars
  DEF Next, Internal, WorkerAcquire, WorkerStep, SubmitStep, Submission, OwnerStep,
      Terminated

LEMMA ControlInvariant == Spec => []ControlInv
<1>1. ControlInv /\ [Next]_vars => ControlInv'
  BY NextType, NextMutualExclusion, NextLife DEF ControlInv
<1>. QED  BY InitControl, <1>1, PTL DEF Spec

(* Only one thread is ever between a lock and its unlock.                  *)
THEOREM Mutex == Spec => []MutualExclusion
<1>1. ControlInv => MutualExclusion
  BY DEF ControlInv
<1>. QED  BY ControlInvariant, <1>1, PTL

(* A freed pool is used by nobody, whatever the tasks that ran during      *)
(* destroy submitted.                                                      *)
THEOREM PoolOutlivesItsUsers == Spec => []NoUseAfterFree
<1>1. ControlInv => NoUseAfterFree
  BY ThreadsAssumption
  DEF ControlInv, TypeInv, Shape, LifeInv, NoUseAfterFree, UsesPool, Threads,
      SubmitPoints, WorkerPoints
<1>. QED  BY ControlInvariant, <1>1, PTL

(* No worker is asleep once the broadcast is out.                          *)
THEOREM BroadcastReachesAll == Spec => []NoSleeperAfterBroadcast
<1>1. ControlInv => NoSleeperAfterBroadcast
  BY DEF ControlInv, LifeInv, NoSleeperAfterBroadcast, Waiting
<1>. QED  BY ControlInvariant, <1>1, PTL

-----------------------------------------------------------------------------
(* Data: where each task is.  A task that is being submitted has exactly   *)
(* one submitter, which has not linked it before its critical section and  *)
(* has linked it after; a dequeued task is finished or some worker runs it.*)

QueueInv ==
  /\ accepted = started \o queue
  /\ NoRepeats(accepted)

ArgInv ==
  /\ \A t \in Threads : arg[t] # None => result[arg[t]] = "pending"
  /\ \A t, u \in Threads : arg[t] # None /\ arg[t] = arg[u] => t = u
  /\ \A t \in Threads :
       pc[t] \in {"submit_lock", "submit_locked"} => arg[t] \notin Elems(accepted)
  /\ \A t \in Threads : pc[t] = "signal" => arg[t] \in Elems(accepted)

RunInv ==
  /\ finished \subseteq Elems(started)
  /\ \A k \in Elems(started) : k \in finished \/ \E w \in Workers : task[w] = k
  /\ \A w \in Workers : task[w] # None => task[w] \in Elems(started)

DataInv == QueueInv /\ ArgInv /\ AnswerIsTruthful /\ RunInv

Inv == ControlInv /\ DataInv

LEMMA InitData == Init => DataInv
<1> SUFFICES ASSUME Init PROVE DataInv
  OBVIOUS
<1>1. Elems(accepted) = {} /\ Elems(started) = {}
  BY DEF Init, Elems
<1>2. accepted = started \o queue
  BY DEF Init
<1>3. NoRepeats(accepted)
  BY DEF Init, NoRepeats
<1>. QED
  BY <1>1, <1>2, <1>3, ThreadsAssumption
  DEF Init, DataInv, QueueInv, ArgInv, AnswerIsTruthful, RunInv, Threads, SubmitPoints

(* The steps that leave the three histories and the queue as they are.     *)
LEMMA QuietStep ==
  ASSUME DataInv, UNCHANGED <<queue, history>>
  PROVE  QueueInv' /\ (UNCHANGED task => RunInv')
  BY DEF DataInv, QueueInv, RunInv, NoRepeats, Elems, history

(* Dequeuing moves the head from the queue to the started tasks.           *)
LEMMA TakeData ==
  ASSUME Inv, NEW w \in Workers, WorkerTake(w)
  PROVE  DataInv'
<1> USE DEF Inv, ControlInv, TypeInv, TypeOK
<1>1. /\ queue # <<>> /\ queue' = Tail(queue) /\ started' = Append(started, Head(queue))
      /\ task' = [task EXCEPT ![w] = Head(queue)] /\ pc' = [pc EXCEPT ![w] = "running"]
      /\ pc[w] = "locked"
      /\ UNCHANGED <<accepted, finished, arg, result>>
  BY DEF WorkerTake
<1>2. Head(queue) \in Tasks
  BY <1>1, HeadTailProperties
<1>3. Elems(started') = Elems(started) \cup {Head(queue)}
  BY <1>1, <1>2, ElemsAppend
<1>4. QueueInv'
  BY <1>1, ConcatMoveHead DEF DataInv, QueueInv, NoRepeats
<1>5. ArgInv'
  BY <1>1 DEF DataInv, ArgInv, Elems, Threads
<1>6. RunInv'
  <2>1. task[w] = None
    BY <1>1, ThreadsAssumption DEF Shape, SubmitPoints
  <2>2. Elems(started) \subseteq Tasks /\ None \notin Tasks
    BY ThreadsAssumption DEF Elems
  <2>3. /\ task'[w] = Head(queue)
        /\ \A v \in Workers : v # w => task'[v] = task[v]
    BY <1>1
  <2>4. ASSUME NEW k \in Elems(started')
        PROVE  k \in finished \/ \E v \in Workers : task'[v] = k
    BY <1>3, <2>1, <2>2, <2>3, <2>4 DEF DataInv, RunInv
  <2>5. ASSUME NEW v \in Workers, task'[v] # None PROVE task'[v] \in Elems(started')
    BY <1>3, <2>3, <2>5 DEF DataInv, RunInv
  <2>. QED  BY <1>1, <1>3, <2>4, <2>5 DEF DataInv, RunInv
<1>7. AnswerIsTruthful'
  BY <1>1 DEF DataInv, AnswerIsTruthful, Elems
<1>. QED  BY <1>4, <1>5, <1>6, <1>7 DEF DataInv

(* The node the submitter links is new to the queue.                       *)
LEMMA EnqueueData ==
  ASSUME Inv, NEW t \in Threads, SubmitEnqueue(t)
  PROVE  DataInv'
<1> USE DEF Inv, ControlInv, TypeInv, TypeOK
<1>1. /\ pc[t] = "submit_locked"
      /\ queue' = Append(queue, arg[t]) /\ accepted' = Append(accepted, arg[t])
      /\ pc' = [pc EXCEPT ![t] = "signal"]
      /\ UNCHANGED <<started, finished, arg, result, task>>
  BY DEF SubmitEnqueue
<1>2. arg[t] \in Tasks /\ arg[t] # None
  BY <1>1 DEF Shape, SubmitPoints
<1>3. arg[t] \notin Elems(accepted)
  BY <1>1 DEF DataInv, ArgInv
<1>4. Elems(accepted') = Elems(accepted) \cup {arg[t]}
  BY <1>1, <1>2, ElemsAppend
<1>5. QueueInv'
  <2>1. NoRepeats(accepted')
    BY <1>1, <1>2, <1>3, NoRepeatsAppend DEF DataInv, QueueInv
  <2>2. accepted' = started \o Append(queue, arg[t])
    BY <1>1, <1>2, ConcatAppend DEF DataInv, QueueInv
  <2>. QED  BY <1>1, <2>1, <2>2 DEF QueueInv, NoRepeats
<1>6. ArgInv'
  BY <1>1, <1>2, <1>4, ThreadsAssumption DEF DataInv, ArgInv, Shape, SubmitPoints
<1>7. RunInv'
  BY <1>1 DEF DataInv, RunInv, Elems
<1>8. AnswerIsTruthful'
  BY <1>1, <1>2, <1>4 DEF DataInv, AnswerIsTruthful, ArgInv
<1>. QED  BY <1>5, <1>6, <1>7, <1>8 DEF DataInv

LEMMA NextData == Inv /\ [Next]_vars => DataInv'
<1> SUFFICES ASSUME Inv, [Next]_vars PROVE DataInv'
  OBVIOUS
<1> USE DEF Inv, ControlInv, TypeInv, TypeOK
<1>1. ASSUME UNCHANGED <<queue, history, task, arg, result>>,
             \A t \in Threads : pc'[t] # pc[t] =>
               pc'[t] \notin {"submit_lock", "signal"} /\
               (pc'[t] = "submit_locked" => pc[t] = "submit_lock")
      PROVE DataInv'
  BY <1>1, QuietStep DEF DataInv, ArgInv, AnswerIsTruthful, Elems, history
<1>2. ASSUME NEW w \in Workers,
             WorkerAcquire(w) \/ WorkerWait(w) \/ WorkerExit(w) \/ SpuriousWakeup(w)
      PROVE DataInv'
  BY <1>1, <1>2
  DEF WorkerAcquire, WorkerLock, WorkerReacquire, WorkerWait, WorkerExit,
      SpuriousWakeup, poolVars, history, Acquire, Release,
      Move
<1>3. ASSUME NEW w \in Workers, TaskReturn(w) PROVE DataInv'
  <2>1. /\ finished' = finished \cup {task[w]} /\ task' = [task EXCEPT ![w] = None]
        /\ pc' = [pc EXCEPT ![w] = "lock"]
        /\ UNCHANGED <<queue, accepted, started, arg, result>>
        /\ task[w] # None
    BY <1>3 DEF TaskReturn, poolVars, Shape
  <2>2. QueueInv' /\ AnswerIsTruthful'
    BY <2>1 DEF DataInv, QueueInv, AnswerIsTruthful, NoRepeats, Elems
  <2>3. ArgInv'
    BY <2>1 DEF DataInv, ArgInv, Elems
  <2>4. RunInv'
    <3>1. Elems(started') = Elems(started)
      BY <2>1 DEF Elems
    <3>. QED  BY <2>1, <3>1 DEF DataInv, RunInv
  <2>. QED  BY <2>2, <2>3, <2>4 DEF DataInv
<1>4. ASSUME NEW t \in Threads, NEW k \in Tasks, SubmitCall(t, k) PROVE DataInv'
  <2>1. /\ result[k] = "new" /\ result' = [result EXCEPT ![k] = "pending"]
        /\ arg' = [arg EXCEPT ![t] = k] /\ pc' = [pc EXCEPT ![t] = "submit_lock"]
        /\ UNCHANGED <<queue, history, task>>
    BY <1>4 DEF SubmitCall, poolVars
  <2>2. k \notin Elems(accepted) /\ Elems(accepted') = Elems(accepted)
    BY <2>1 DEF DataInv, AnswerIsTruthful, history, Elems
  <2>3. ArgInv'
    BY <2>1, <2>2 DEF DataInv, ArgInv
  <2>4. AnswerIsTruthful'
    BY <2>1, <2>2 DEF DataInv, AnswerIsTruthful
  <2>. QED  BY <2>1, <2>3, <2>4, QuietStep DEF DataInv
<1>5. ASSUME NEW t \in Threads, NEW k \in Tasks, SubmitOutOfMemory(t, k) PROVE DataInv'
  <2>1. /\ result[k] = "new" /\ result' = [result EXCEPT ![k] = "out_of_memory"]
        /\ UNCHANGED <<queue, history, task, arg, pc>>
    BY <1>5 DEF SubmitOutOfMemory, poolVars
  <2>2. Elems(accepted') = Elems(accepted)
    BY <2>1 DEF history, Elems
  <2>3. ArgInv' /\ AnswerIsTruthful'
    BY <2>1, <2>2 DEF DataInv, ArgInv, AnswerIsTruthful
  <2>. QED  BY <2>1, <2>3, QuietStep DEF DataInv
<1>6. ASSUME NEW t \in Threads, SubmitLock(t) PROVE DataInv'
  BY <1>1, <1>6 DEF SubmitLock, history, Acquire, Move
<1>7. ASSUME NEW t \in Threads, SubmitReject(t) PROVE DataInv'
  <2>1. /\ pc[t] = "submit_locked" /\ result' = [result EXCEPT ![arg[t]] = "invalid_state"]
        /\ arg' = [arg EXCEPT ![t] = None] /\ pc' = [pc EXCEPT ![t] = Base(t)]
        /\ UNCHANGED <<queue, history, task>>
    BY <1>7 DEF SubmitReject
  <2>2. /\ arg[t] \in Tasks /\ arg[t] # None /\ arg[t] \notin Elems(accepted)
        /\ Elems(accepted') = Elems(accepted)
    BY <2>1 DEF Shape, SubmitPoints, DataInv, ArgInv, history, Elems
  <2>3. ArgInv'
    BY <2>1, <2>2 DEF DataInv, ArgInv, Base
  <2>4. AnswerIsTruthful'
    BY <2>1, <2>2 DEF DataInv, AnswerIsTruthful
  <2>. QED  BY <2>1, <2>3, <2>4, QuietStep DEF DataInv
<1>8. ASSUME NEW t \in Threads, SubmitEnqueue(t) PROVE DataInv'
  BY ONLY <1>8, EnqueueData, Inv
<1>9. ASSUME NEW t \in Threads, SubmitSignal(t) PROVE DataInv'
  <2>1. /\ pc[t] = "signal" /\ result' = [result EXCEPT ![arg[t]] = "ok"]
        /\ arg' = [arg EXCEPT ![t] = None]
        /\ UNCHANGED <<queue, history, task>>
    BY <1>9 DEF SubmitSignal, poolVars
  <2>2. /\ arg[t] \in Tasks /\ arg[t] # None /\ arg[t] \in Elems(accepted)
        /\ Elems(accepted') = Elems(accepted)
    BY <2>1 DEF Shape, SubmitPoints, DataInv, ArgInv, history, Elems
  <2>3. pc' = Woken(t, {}) \/ \E w \in Waiting : pc' = Woken(t, {w})
    BY ONLY <1>9, SignalEffect, TypeInv
  <2>4. PICK W : pc' = Woken(t, W)
    BY ONLY <2>3
  <2>5. ArgInv'
    BY <2>1, <2>2, <2>4 DEF DataInv, ArgInv, Woken, Base
  <2>6. AnswerIsTruthful'
    BY <2>1, <2>2 DEF DataInv, AnswerIsTruthful
  <2>. QED  BY <2>1, <2>5, <2>6, QuietStep DEF DataInv
<1>10. ASSUME NEW w \in Workers, WorkerTake(w) PROVE DataInv'
  BY ONLY <1>10, TakeData, Inv
<1>11. ASSUME NEW w \in Workers, CreateWorker(w) PROVE DataInv'
  BY <1>1, <1>11 DEF CreateWorker, poolVars
<1>12. CASE CreateFail \/ DestroyCall \/ DestroyLock \/ DestroyMark \/ DestroyJoin
            \/ DestroyRelease
  BY <1>1, <1>12
  DEF CreateFail, DestroyCall, DestroyLock, DestroyMark, DestroyJoin, DestroyRelease, OwnerGoes,
      poolVars
<1>13. CASE DestroyBroadcast
  BY <1>1, <1>13 DEF DestroyBroadcast, poolVars
<1>14. CASE DestroyDrain
  <2>1. queue = <<>>
    <3>1. PICK w \in Workers : TRUE
      BY ThreadsAssumption
    <3>2. pc[w] = "exited"
      BY <1>14, <3>1 DEF DestroyDrain, LifeInv
    <3>. QED  BY <3>2 DEF LifeInv
  <2>. QED  BY <1>1, <1>14, <2>1 DEF DestroyDrain
<1>15. CASE UNCHANGED vars
  BY <1>1, <1>15 DEF vars, poolVars
<1>. QED
  BY ONLY <1>2, <1>3, <1>4, <1>5, <1>6, <1>7, <1>8, <1>9, <1>10, <1>11,
     <1>12, <1>13, <1>14, <1>15, [Next]_vars
  DEF Next, Internal, WorkerStep, SubmitStep, Submission, OwnerStep, Terminated

LEMMA Invariant == Spec => []Inv
<1>1. Init => Inv
  BY InitControl, InitData DEF Inv
<1>2. Inv /\ [Next]_vars => Inv'
  BY NextType, NextMutualExclusion, NextLife, NextData DEF Inv, ControlInv
<1>. QED  BY <1>1, <1>2, PTL DEF Spec

(* No accepted task is lost, started twice or overtaken.                   *)
THEOREM FifoOrder == Spec => []FifoExactlyOnce
<1>1. Inv => FifoExactlyOnce
  BY DEF Inv, DataInv, QueueInv, NoRepeats, FifoExactlyOnce
<1>. QED  BY Invariant, <1>1, PTL

(* The answer of submit tells whether the task entered the queue.          *)
THEOREM TruthfulAnswer == Spec => []AnswerIsTruthful
<1>1. Inv => AnswerIsTruthful
  BY DEF Inv, DataInv
<1>. QED  BY Invariant, <1>1, PTL

(* When the workers are joined everything accepted has been run.           *)
LEMMA AllRun == Inv => DestroyDropsNothing
<1> SUFFICES ASSUME Inv, owner \in {"drain", "release", "freed"}
             PROVE  finished = Elems(accepted)
  BY DEF DestroyDropsNothing
<1> USE DEF Inv, ControlInv, DataInv, TypeInv, TypeOK
<1>1. queue = <<>>
  <2>1. CASE created # Workers
    BY <2>1 DEF LifeInv
  <2>2. CASE created = Workers
    BY <2>2, ThreadsAssumption DEF LifeInv
  <2>. QED  BY <2>1, <2>2
<1>2. accepted = started
  BY <1>1 DEF QueueInv
<1>3. \A w \in Workers : task[w] = None
  BY DEF LifeInv, Shape, SubmitPoints
<1>4. \A k \in Elems(started) : k # None
  BY ThreadsAssumption DEF Elems
<1>5. /\ finished \subseteq Elems(started)
      /\ \A k \in Elems(started) : k \in finished \/ \E w \in Workers : task[w] = k
  BY DEF RunInv
<1>6. Elems(started) \subseteq finished
  BY ONLY <1>3, <1>4, <1>5
<1>. QED  BY ONLY <1>2, <1>5, <1>6

(* destroy finishes every accepted task before it frees anything.          *)
THEOREM NothingDropped == Spec => []DestroyDropsNothing
BY Invariant, AllRun, PTL

-----------------------------------------------------------------------------
(* Wakeups.  NoLostWakeup counts: an enqueue brings its own pending signal,*)
(* a signal becomes an awake worker, an awake worker removes a task before *)
(* it stops being awake, and a worker only falls asleep beside an empty    *)
(* queue.                                                                  *)

Counted ==
  /\ IsFiniteSet(Awake) /\ Cardinality(Awake) \in Nat
  /\ IsFiniteSet(PendingSignals) /\ Cardinality(PendingSignals) \in Nat
  /\ Len(queue) \in Nat

LEMMA Counts == TypeInv => Counted
<1> SUFFICES ASSUME TypeInv PROVE Counted
  OBVIOUS
<1>1. IsFiniteSet(Threads)
  BY ThreadsAssumption, FS_Union DEF Threads
<1>2. Awake \in SUBSET Workers /\ PendingSignals \in SUBSET Threads
  BY DEF Awake, PendingSignals
<1>3. IsFiniteSet(Awake) /\ IsFiniteSet(PendingSignals)
  BY <1>1, <1>2, FS_Subset, ThreadsAssumption
<1>. QED  BY <1>3, FS_CardinalityType, LenProperties DEF Counted, TypeInv, TypeOK

(* Without new work or new sleepers, and with no wakeup used up.           *)
LEMMA WakeupsKept ==
  ASSUME TypeInv, TypeInv', NoLostWakeup,
         \/ Waiting' = {}
         \/ queue' = <<>>
         \/ /\ Waiting' \subseteq Waiting
            /\ Awake \subseteq Awake'
            /\ PendingSignals \subseteq PendingSignals'
            /\ queue' = queue
  PROVE  NoLostWakeup'
<1>1. Counted /\ Counted'
  BY Counts, PTL
<1> USE DEF Counted
<1>2. CASE Waiting' = {}
  BY <1>2 DEF NoLostWakeup
<1>3. CASE queue' = <<>>
  BY <1>1, <1>3 DEF NoLostWakeup
<1>4. CASE /\ Waiting' \subseteq Waiting
           /\ Awake \subseteq Awake'
           /\ PendingSignals \subseteq PendingSignals'
           /\ queue' = queue
  <2>1. /\ Cardinality(Awake) <= Cardinality(Awake')
        /\ Cardinality(PendingSignals) <= Cardinality(PendingSignals')
    BY <1>1, <1>4, FS_Subset
  <2>. QED  BY <1>1, <1>4, <2>1 DEF NoLostWakeup
<1>. QED  BY <1>2, <1>3, <1>4

LEMMA TakeWakeups ==
  ASSUME TypeInv, TypeInv', NoLostWakeup, NEW w \in Workers, WorkerTake(w)
  PROVE  NoLostWakeup'
<1>1. Counted /\ Counted'
  BY Counts, PTL
<1>2. /\ pc[w] = "locked" /\ pc' = [pc EXCEPT ![w] = "running"]
      /\ pc \in [Threads -> WorkerPoints \cup SubmitPoints \cup {"idle"}]
      /\ queue # <<>> /\ queue' = Tail(queue) /\ queue \in Seq(Tasks)
  BY DEF WorkerTake, TypeInv, TypeOK
<1>3. w \in Awake /\ Awake' = Awake \ {w}
  BY <1>2 DEF Awake, Threads
<1>4. PendingSignals' = PendingSignals /\ Waiting' = Waiting
  BY <1>2 DEF PendingSignals, Waiting, Threads
<1>5. Cardinality(Awake') = Cardinality(Awake) - 1
  BY <1>1, <1>3, FS_RemoveElement DEF Counted
<1>6. Len(queue') = Len(queue) - 1
  BY <1>2, HeadTailProperties
<1>. QED  BY <1>1, <1>4, <1>5, <1>6 DEF NoLostWakeup, Counted

LEMMA EnqueueWakeups ==
  ASSUME TypeInv, TypeInv', NoLostWakeup, NEW t \in Threads, SubmitEnqueue(t)
  PROVE  NoLostWakeup'
<1>1. Counted /\ Counted'
  BY Counts, PTL
<1>2. /\ pc[t] = "submit_locked" /\ pc' = [pc EXCEPT ![t] = "signal"]
      /\ pc \in [Threads -> WorkerPoints \cup SubmitPoints \cup {"idle"}]
      /\ queue' = Append(queue, arg[t]) /\ queue \in Seq(Tasks) /\ arg[t] \in Tasks
  BY DEF SubmitEnqueue, TypeInv, TypeOK, Shape, SubmitPoints
<1>3. t \notin PendingSignals /\ PendingSignals' = PendingSignals \cup {t}
  BY <1>2 DEF PendingSignals
<1>4. Awake' = Awake /\ Waiting' = Waiting
  BY <1>2 DEF Awake, Waiting, Threads
<1>5. Cardinality(PendingSignals') = Cardinality(PendingSignals) + 1
  BY <1>1, <1>3, FS_AddElement DEF Counted
<1>6. Len(queue') = Len(queue) + 1
  BY <1>2, AppendProperties
<1>. QED  BY <1>1, <1>4, <1>5, <1>6 DEF NoLostWakeup, Counted

LEMMA SignalWakeups ==
  ASSUME TypeInv, TypeInv', NoLostWakeup, NEW t \in Threads, SubmitSignal(t)
  PROVE  NoLostWakeup'
<1>1. Counted /\ Counted'
  BY Counts, PTL
<1>2. /\ pc[t] = "signal" /\ queue' = queue
      /\ pc \in [Threads -> WorkerPoints \cup SubmitPoints \cup {"idle"}]
  BY DEF SubmitSignal, TypeInv, TypeOK, poolVars
<1>3. CASE Waiting = {} /\ pc' = Woken(t, {})
  <2>1. Waiting' = {}
    BY <1>3 DEF Waiting, Woken, Base, Threads
  <2>. QED  BY <2>1 DEF NoLostWakeup
<1>4. ASSUME NEW w \in Waiting, pc' = Woken(t, {w}) PROVE NoLostWakeup'
  <2>1. w \in Workers /\ pc[w] = "waiting" /\ w # t /\ w \in Threads
    BY <1>2 DEF Waiting, Threads
  <2>2. Awake' = Awake \cup {w} /\ w \notin Awake
    BY <1>2, <1>4, <2>1 DEF Awake, Woken, Base, Threads
  <2>3. PendingSignals' = PendingSignals \ {t} /\ t \in PendingSignals
    BY <1>2, <1>4, <2>1 DEF PendingSignals, Woken, Base
  <2>4. /\ Cardinality(Awake') = Cardinality(Awake) + 1
        /\ Cardinality(PendingSignals') = Cardinality(PendingSignals) - 1
    BY <1>1, <2>2, <2>3, FS_AddElement, FS_RemoveElement DEF Counted
  <2>. QED  BY <1>1, <1>2, <1>4, <2>4 DEF NoLostWakeup, Counted
<1>. QED  BY <1>3, <1>4, SignalEffect

LEMMA NextWakeups == Inv /\ Inv' /\ NoLostWakeup /\ [Next]_vars => NoLostWakeup'
<1> SUFFICES ASSUME Inv, Inv', NoLostWakeup, [Next]_vars PROVE NoLostWakeup'
  OBVIOUS
<1>1. TypeInv /\ TypeInv' /\ LifeInv /\ LifeInv' /\ Shape
      /\ pc \in [Threads -> WorkerPoints \cup SubmitPoints \cup {"idle"}]
  BY DEF Inv, ControlInv, TypeInv, TypeOK
<1>2. ASSUME queue' = queue, UNCHANGED pc PROVE NoLostWakeup'
  BY <1>1, <1>2, WakeupsKept DEF Waiting, Awake, PendingSignals
<1>3. ASSUME queue' = queue, NEW t \in Threads, NEW p,
             pc' = [pc EXCEPT ![t] = p],
             \/ pc[t] \in {"lock", "reacquire", "locked"}
                  /\ p \in {"lock", "reacquire", "locked"}
             \/ pc[t] \notin {"lock", "reacquire", "locked", "signal"} /\ p # "waiting"
      PROVE NoLostWakeup'
  <2>1. Waiting' \subseteq Waiting
    BY <1>1, <1>3 DEF Waiting, Threads
  <2>2. Awake \subseteq Awake' /\ PendingSignals \subseteq PendingSignals'
    BY <1>1, <1>3 DEF Awake, PendingSignals, Threads
  <2>. QED  BY <1>1, <1>3, <2>1, <2>2, WakeupsKept
<1>4. ASSUME NEW w \in Workers, WorkerLock(w) \/ WorkerReacquire(w) PROVE NoLostWakeup'
  <2>1. queue' = queue /\ pc' = [pc EXCEPT ![w] = "locked"] /\ pc[w] \in {"lock", "reacquire"}
    BY <1>4 DEF WorkerLock, WorkerReacquire, Acquire, Move
  <2>. QED  BY <1>3, <2>1 DEF Threads
<1>5. ASSUME NEW w \in Workers, WorkerWait(w) \/ WorkerExit(w) PROVE NoLostWakeup'
  <2>1. queue' = <<>>
    BY <1>5 DEF WorkerWait, WorkerExit, Release, Move
  <2>. QED  BY <1>1, <2>1, WakeupsKept
<1>6. ASSUME NEW w \in Workers, SpuriousWakeup(w) \/ TaskReturn(w) \/ CreateWorker(w)
      PROVE NoLostWakeup'
  <2>1. PICK p \in {"reacquire", "lock"} : pc' = [pc EXCEPT ![w] = p]
    BY <1>6 DEF SpuriousWakeup, TaskReturn, CreateWorker, Move
  <2>2. queue' = queue /\ pc[w] \in {"waiting", "running", "unborn"}
    BY <1>1, <1>6 DEF SpuriousWakeup, TaskReturn, CreateWorker, poolVars, Shape, Move
  <2>. QED  BY <1>3, <2>1, <2>2 DEF Threads
<1>7. ASSUME NEW w \in Workers, WorkerTake(w) PROVE NoLostWakeup'
  BY <1>1, <1>7, TakeWakeups
<1>8. ASSUME NEW t \in Threads, NEW k \in Tasks, SubmitCall(t, k) PROVE NoLostWakeup'
  <2>1. queue' = queue /\ pc' = [pc EXCEPT ![t] = "submit_lock"] /\ pc[t] = Base(t)
    BY <1>8 DEF SubmitCall, poolVars
  <2>. QED  BY <1>3, <2>1 DEF Base
<1>9. ASSUME NEW t \in Threads, NEW k \in Tasks, SubmitOutOfMemory(t, k)
      PROVE NoLostWakeup'
  BY <1>2, <1>9 DEF SubmitOutOfMemory, poolVars
<1>10. ASSUME NEW t \in Threads, SubmitLock(t) PROVE NoLostWakeup'
  BY <1>3, <1>10 DEF SubmitLock, Acquire, Move
<1>11. ASSUME NEW t \in Threads, SubmitReject(t) PROVE NoLostWakeup'
  <2>1. queue' = queue /\ pc' = [pc EXCEPT ![t] = Base(t)] /\ pc[t] = "submit_locked"
    BY <1>11 DEF SubmitReject
  <2>2. Base(t) # "waiting"
    BY DEF Base
  <2>. QED  BY <1>3, <2>1, <2>2
<1>12. ASSUME NEW t \in Threads, SubmitEnqueue(t) PROVE NoLostWakeup'
  BY <1>1, <1>12, EnqueueWakeups
<1>13. ASSUME NEW t \in Threads, SubmitSignal(t) PROVE NoLostWakeup'
  BY <1>1, <1>13, SignalWakeups
<1>14. CASE CreateFail \/ DestroyCall \/ DestroyLock \/ DestroyMark \/ DestroyJoin
            \/ DestroyRelease
  BY <1>2, <1>14
  DEF CreateFail, DestroyCall, DestroyLock, DestroyMark, DestroyJoin, DestroyRelease, OwnerGoes,
      poolVars
<1>15. CASE DestroyBroadcast
  <2>1. Waiting' = {}
    BY <1>1, <1>15 DEF DestroyBroadcast, Waiting, LifeInv
  <2>. QED  BY <1>1, <2>1, WakeupsKept
<1>16. CASE DestroyDrain
  BY <1>1, <1>16, WakeupsKept DEF DestroyDrain
<1>17. CASE UNCHANGED vars
  BY <1>2, <1>17 DEF vars, poolVars
<1>. QED
  BY ONLY <1>4, <1>5, <1>6, <1>7, <1>8, <1>9, <1>10, <1>11,
     <1>12, <1>13, <1>14, <1>15, <1>16, <1>17, [Next]_vars
  DEF Next, Internal, WorkerAcquire, WorkerStep, SubmitStep, Submission, OwnerStep,
      Terminated

(* No worker sleeps beside a task that nobody is coming for.               *)
THEOREM NoWakeupIsLost == Spec => []NoLostWakeup
<1>1. Init => NoLostWakeup
  BY DEF Init, NoLostWakeup, Waiting, Threads
<1>. QED  BY Invariant, NextWakeups, <1>1, PTL DEF Spec

-----------------------------------------------------------------------------
(* The refinement                                                          *)

(* A worker that has just dequeued a task was free: the tasks that run are *)
(* run by the others.                                                      *)
LEMMA WorkerIsFree ==
  ASSUME Inv, NEW w \in Workers, task[w] = None
  PROVE  Cardinality(Executor!Running) < Cardinality(Workers)
<1> DEFINE R == Elems(started) \ finished
           B == {v \in Workers : task[v] \in R}
           f == [v \in B |-> task[v]]
<1>1. Executor!Running = R
  BY DEF Executor!Running, Executor!StartedSet, Elems
<1>2. None \notin R
  BY ThreadsAssumption DEF Inv, ControlInv, TypeInv, TypeOK, Elems
<1>3. B \in SUBSET (Workers \ {w})
  BY <1>2
<1>4. /\ IsFiniteSet(Workers \ {w})
      /\ Cardinality(Workers \ {w}) = Cardinality(Workers) - 1
      /\ Cardinality(Workers) \in Nat
  BY ThreadsAssumption, FS_RemoveElement, FS_CardinalityType
<1>5. IsFiniteSet(B) /\ Cardinality(B) <= Cardinality(Workers) - 1
  BY <1>3, <1>4, FS_Subset
<1>6. f \in Surjection(B, R)
  BY DEF Surjection, Inv, DataInv, RunInv
<1>7. IsFiniteSet(R) /\ Cardinality(R) <= Cardinality(B)
  BY <1>5, <1>6, FS_Surjection
<1>. QED  BY <1>1, <1>4, <1>5, <1>7, FS_CardinalityType

LEMMA TakeIsStart ==
  ASSUME Inv, NEW w \in Workers, WorkerTake(w)
  PROVE  Executor!Start
<1> USE DEF Inv, ControlInv, TypeInv, TypeOK
<1>1. /\ pc[w] = "locked" /\ queue # <<>>
      /\ started' = Append(started, Head(queue))
      /\ UNCHANGED <<owner, shutting_down, result, accepted, finished>>
  BY DEF WorkerTake
<1>2. /\ accepted = started \o queue
      /\ Len(queue) \in Nat /\ Len(queue) > 0 /\ Len(started) \in Nat
  BY <1>1, EmptySeq, LenProperties DEF DataInv, QueueInv
<1>3. Len(started) < Len(accepted) /\ accepted[Len(started) + 1] = Head(queue)
  BY <1>2, ConcatProperties
<1>4. task[w] = None
  BY <1>1 DEF Shape, SubmitPoints
<1>5. Cardinality(Executor!Running) < Cardinality(Workers)
  BY <1>4, WorkerIsFree
<1>6. UNCHANGED <<Phase, accepted, finished, Refused>>
  BY <1>1 DEF Phase, Refused
<1>7. Executor!Cardinality(Executor!Running) = Cardinality(Executor!Running)
  BY DEF Executor!Cardinality, Cardinality
<1>. QED  BY ONLY <1>1, <1>3, <1>5, <1>6, <1>7 DEF Executor!Start

LEMMA ReturnIsFinish ==
  ASSUME Inv, NEW w \in Workers, TaskReturn(w)
  PROVE  Executor!Finish(task[w]) \/ UNCHANGED Executor!vars
<1>1. /\ pc[w] = "running" /\ finished' = finished \cup {task[w]}
      /\ UNCHANGED <<owner, shutting_down, result, accepted, started>>
  BY DEF TaskReturn, poolVars
<1>2. UNCHANGED <<Phase, Refused>>
  BY <1>1 DEF Phase, Refused
<1>3. task[w] \in Elems(started)
  BY <1>1 DEF Inv, ControlInv, DataInv, TypeInv, Shape, RunInv
<1>4. CASE task[w] \in finished
  BY <1>1, <1>2, <1>4 DEF Executor!vars
<1>5. CASE task[w] \notin finished
  BY <1>1, <1>2, <1>3, <1>5
  DEF Executor!Finish, Executor!Running, Executor!StartedSet, Elems
<1>. QED  BY <1>4, <1>5

(* A thread inside submit, or inside a task, has a pool around it.         *)
LEMMA PoolIsOpen ==
  ASSUME Inv, NEW t \in Threads, pc[t] \in SubmitPoints \cup {"running"}
  PROVE  /\ Phase # "closed"
         /\ ~shutting_down => Phase = "open"
  BY ThreadsAssumption
  DEF Inv, ControlInv, TypeInv, Shape, LifeInv, Phase, Threads, SubmitPoints,
      WorkerPoints

LEMMA EnqueueIsAccept ==
  ASSUME Inv, NEW t \in Threads, SubmitEnqueue(t)
  PROVE  arg[t] \in Tasks /\ Executor!Accept(arg[t])
<1>1. /\ pc[t] = "submit_locked" /\ ~shutting_down
      /\ accepted' = Append(accepted, arg[t])
      /\ UNCHANGED <<owner, shutting_down, result, started, finished>>
  BY DEF SubmitEnqueue
<1>2. Phase = "open"
  BY <1>1, PoolIsOpen DEF SubmitPoints
<1>3. /\ arg[t] # None /\ arg[t] \in Tasks /\ arg[t] \notin Elems(accepted)
      /\ result[arg[t]] = "pending"
  BY <1>1 DEF Inv, ControlInv, DataInv, TypeInv, TypeOK, Shape, ArgInv, SubmitPoints
<1>. QED
  BY <1>1, <1>2, <1>3 DEF Executor!Accept, Executor!AcceptedSet, Elems, Phase, Refused

(* A submit that fails refuses its task, which was not accepted and had    *)
(* not been refused before.                                                *)
LEMMA FailureIsRefuse ==
  ASSUME Inv, NEW k \in Tasks, NEW r \in {"invalid_state", "out_of_memory"},
         result' = [result EXCEPT ![k] = r], result[k] \in {"new", "pending"},
         k \notin Elems(accepted), Phase # "closed",
         UNCHANGED <<owner, shutting_down, history>>
  PROVE  Executor!Refuse(k)
<1>1. result \in [Tasks -> Results]
  BY DEF Inv, ControlInv, TypeInv, TypeOK
<1>2. Refused' = Refused \cup {k} /\ k \notin Refused
  BY <1>1 DEF Refused
<1>3. UNCHANGED <<Phase, accepted, started, finished>>
  BY DEF Phase, history
<1>. QED  BY <1>2, <1>3 DEF Executor!Refuse, Executor!AcceptedSet, Elems

LEMMA OutOfMemoryIsRefuse ==
  ASSUME Inv, NEW t \in Threads, MaySubmit(t), NEW k \in Tasks, SubmitOutOfMemory(t, k)
  PROVE  Executor!Refuse(k)
<1>1. /\ result[k] = "new" /\ pc[t] = Base(t)
      /\ result' = [result EXCEPT ![k] = "out_of_memory"]
      /\ UNCHANGED <<owner, shutting_down, history>>
  BY DEF SubmitOutOfMemory, poolVars
<1>2. k \notin Elems(accepted)
  BY <1>1 DEF Inv, DataInv, AnswerIsTruthful
<1>3. Phase # "closed"
  <2>1. CASE t \in Workers
    BY <1>1, <2>1, PoolIsOpen DEF Base
  <2>2. CASE t \in Clients
    BY <2>2 DEF MaySubmit, Phase
  <2>. QED  BY <2>1, <2>2 DEF Threads
<1>. QED  BY <1>1, <1>2, <1>3, FailureIsRefuse

LEMMA RejectIsRefuse ==
  ASSUME Inv, NEW t \in Threads, SubmitReject(t)
  PROVE  arg[t] \in Tasks /\ Executor!Refuse(arg[t])
<1>1. /\ pc[t] = "submit_locked"
      /\ result' = [result EXCEPT ![arg[t]] = "invalid_state"]
      /\ UNCHANGED <<owner, shutting_down, history>>
  BY DEF SubmitReject
<1>2. Phase # "closed"
  BY <1>1, PoolIsOpen DEF SubmitPoints
<1>3. /\ arg[t] # None /\ arg[t] \in Tasks /\ arg[t] \notin Elems(accepted)
      /\ result[arg[t]] = "pending"
  BY <1>1 DEF Inv, ControlInv, DataInv, TypeInv, TypeOK, Shape, ArgInv, SubmitPoints
<1>. QED  BY <1>1, <1>2, <1>3, FailureIsRefuse

(* Neither the start of a submission nor its end is visible.               *)
LEMMA SubmitStutters ==
  ASSUME Inv, NEW t \in Threads,
         SubmitSignal(t) \/ \E k \in Tasks : SubmitCall(t, k)
  PROVE  UNCHANGED Executor!vars
<1> USE DEF Inv, ControlInv, TypeInv, TypeOK
<1>1. /\ UNCHANGED <<owner, shutting_down, history>>
      /\ \E k \in Tasks, r \in {"pending", "ok"} :
           result[k] \in {"new", "pending"} /\ result' = [result EXCEPT ![k] = r]
  <2>1. CASE SubmitSignal(t)
    <3>1. arg[t] \in Tasks /\ result[arg[t]] = "pending"
      BY <2>1 DEF SubmitSignal, DataInv, ArgInv, Shape, SubmitPoints
    <3>. QED  BY <2>1, <3>1 DEF SubmitSignal, poolVars
  <2>2. CASE \E k \in Tasks : SubmitCall(t, k)
    BY <2>2 DEF SubmitCall, poolVars
  <2>. QED  BY <2>1, <2>2
<1>2. UNCHANGED <<Phase, Refused>>
  BY <1>1 DEF Phase, Refused
<1>. QED  BY <1>1, <1>2 DEF Executor!vars, history

(* The owner: setting the flag closes the executor, and so does a create   *)
(* that fails before its first worker; releasing the pool ends it.         *)
LEMMA OwnerRefines ==
  ASSUME Inv, CreateFail \/ DestroyCall \/ DestroyLock \/ OwnerStep
  PROVE  Executor!Close \/ Executor!Terminate \/ UNCHANGED Executor!vars
<1> USE DEF Phase, Executor!vars, history
<1>1. CASE CreateFail
  BY <1>1 DEF CreateFail, OwnerGoes, Refused, Executor!Close, poolVars, Inv, ControlInv, LifeInv
<1>2. CASE DestroyCall
  BY <1>2 DEF DestroyCall, OwnerGoes, Refused, poolVars
<1>3. CASE DestroyLock
  BY <1>3 DEF DestroyLock, Refused
<1>4. CASE DestroyMark
  BY <1>4 DEF DestroyMark, Refused, Executor!Close, Inv, ControlInv, LifeInv
<1>5. CASE DestroyBroadcast
  BY <1>5 DEF DestroyBroadcast, Refused, poolVars
<1>6. CASE DestroyJoin
  BY <1>6 DEF DestroyJoin, OwnerGoes, Refused, poolVars, Inv, ControlInv, LifeInv
<1>7. CASE DestroyDrain
  BY <1>7 DEF DestroyDrain, Refused, Inv, ControlInv, LifeInv
<1>8. CASE DestroyRelease
  <2>1. finished = Elems(accepted)
    BY <1>8, AllRun DEF DestroyRelease, OwnerGoes, DestroyDropsNothing
  <2>. QED
    BY <1>8, <2>1
    DEF DestroyRelease, OwnerGoes, Refused, poolVars, Executor!Terminate,
        Executor!AcceptedSet, Elems
<1>. QED
  BY ONLY <1>1, <1>2, <1>3, <1>4, <1>5, <1>6, <1>7, <1>8,
     CreateFail \/ DestroyCall \/ DestroyLock \/ OwnerStep
  DEF OwnerStep

(* The steps that take or give up the mutex, sleep, wake, exit or start a  *)
(* worker are not visible.                                                 *)
LEMMA WorkerStutters ==
  ASSUME NEW t \in Threads,
         \/ SubmitLock(t) \/ WorkerAcquire(t) \/ WorkerWait(t) \/ WorkerExit(t)
         \/ SpuriousWakeup(t) \/ CreateWorker(t)
  PROVE  UNCHANGED Executor!vars
<1>1. UNCHANGED <<owner, shutting_down, result, history>> \/ CreateWorker(t)
  BY DEF SubmitLock, WorkerAcquire, WorkerLock, WorkerReacquire, WorkerWait, WorkerExit,
         SpuriousWakeup, Acquire, Release, Move
<1>2. CASE UNCHANGED <<owner, shutting_down, result, history>>
  BY <1>2 DEF Executor!vars, Phase, Refused, history
<1>3. CASE CreateWorker(t)
  BY <1>3 DEF CreateWorker, Executor!vars, Phase, Refused, history, poolVars
<1>. QED  BY <1>1, <1>2, <1>3

LEMMA NextRefines == Inv /\ [Next]_vars => [Executor!Next]_(Executor!vars)
<1> SUFFICES ASSUME Inv, [Next]_vars
             PROVE  Executor!Next \/ UNCHANGED Executor!vars
  OBVIOUS
<1> DEFINE Refined == Executor!Next \/ UNCHANGED Executor!vars
<1> HIDE DEF Refined
<1>1. ASSUME NEW w \in Workers, WorkerTake(w) PROVE Refined
  BY <1>1, TakeIsStart DEF Executor!Next, Refined
<1>2. ASSUME NEW w \in Workers, TaskReturn(w) PROVE Refined
  <2>1. task[w] \in Tasks
    BY <1>2 DEF TaskReturn, Inv, ControlInv, TypeInv, TypeOK, Shape
  <2>. QED  BY <1>2, <2>1, ReturnIsFinish DEF Executor!Next, Refined
<1>3. ASSUME NEW w \in Workers,
             \/ WorkerAcquire(w) \/ WorkerWait(w) \/ WorkerExit(w)
             \/ SpuriousWakeup(w) \/ CreateWorker(w)
      PROVE  Refined
  BY <1>3, WorkerStutters DEF Refined, Threads
<1>10. ASSUME NEW t \in Threads, SubmitLock(t) PROVE Refined
  BY <1>10, WorkerStutters DEF Refined
<1>4. ASSUME NEW t \in Threads, SubmitEnqueue(t) PROVE Refined
  BY <1>4, EnqueueIsAccept DEF Executor!Next, Refined
<1>5. ASSUME NEW t \in Threads, SubmitReject(t) PROVE Refined
  BY <1>5, RejectIsRefuse DEF Executor!Next, Refined
<1>6. ASSUME NEW t \in Threads, SubmitSignal(t) PROVE Refined
  BY <1>6, SubmitStutters DEF Refined
<1>7. ASSUME NEW t \in Threads, MaySubmit(t), Submission(t) PROVE Refined
  <2>1. PICK k \in Tasks : SubmitCall(t, k) \/ SubmitOutOfMemory(t, k)
    BY <1>7 DEF Submission
  <2>2. CASE SubmitCall(t, k)
    BY <2>2, SubmitStutters DEF Refined
  <2>3. CASE SubmitOutOfMemory(t, k)
    BY <1>7, <2>3, OutOfMemoryIsRefuse DEF Executor!Next, Refined
  <2>. QED  BY <2>1, <2>2, <2>3
<1>8. ASSUME CreateFail \/ DestroyCall \/ DestroyLock \/ OwnerStep PROVE Refined
  BY <1>8, OwnerRefines DEF Executor!Next, Refined
<1>9. ASSUME UNCHANGED vars PROVE Refined
  <2>1. UNCHANGED <<owner, shutting_down, result, history>>
    BY <1>9 DEF vars, poolVars
  <2>. QED  BY <2>1 DEF history, Executor!vars, Phase, Refused, Refined
<1>11. Refined
  BY ONLY <1>1, <1>2, <1>3, <1>4, <1>5, <1>6, <1>7, <1>8, <1>9, <1>10, [Next]_vars
  DEF Next, Internal, WorkerStep, SubmitStep, Terminated
<1>. QED  BY <1>11 DEF Refined

LEMMA InitRefines == Init => Executor!Init
BY DEF Init, Executor!Init, Phase, Refused

(* The pool implements the executor's Init and Next, with a task accepted  *)
(* at its enqueue, started at its dequeue, and at most one running per     *)
(* worker.                                                                 *)
THEOREM PoolImplementsExecutor == Spec => Executor!Spec
BY InitRefines, NextRefines, Invariant, PTL DEF Spec, Executor!Spec
=============================================================================
