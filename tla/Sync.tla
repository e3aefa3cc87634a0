-------------------------------- MODULE Sync --------------------------------
(***************************************************************************)
(* The mutex, the semaphore and the condition variable of sync.h, on both  *)
(* platforms.  Users call them as the header asks: a mutex is unlocked by  *)
(* its holder, a plain mutex is not locked again by its holder, a wait on  *)
(* the condition is entered holding the mutex once, and a permit of the    *)
(* semaphore is posted by a user that took one.                            *)
(*                                                                         *)
(* A wait with a timeout is measured in nanoseconds of the model: a        *)
(* millisecond has MsNanos of them and a second SecondMs milliseconds.  No *)
(* absolute time is kept.  nanos is the tv_nsec of the wall clock, and a   *)
(* waiter has left, the time until the system wakes it up, and due, the    *)
(* time until the milliseconds its caller asked for are over.              *)
(***************************************************************************)
EXTENDS Platform, Integers, FiniteSets

CONSTANTS
    Callers,      \* the threads
    Nobody,     \* the holder of a free mutex
    Permits,    \* what the semaphore is created with
    MaxDepth,   \* bound: how often a holder locks a recursive mutex
    Timeouts,   \* the milliseconds given to ten_cond_wait_timeout
    SecondMs,   \* milliseconds in a second
    MsNanos,    \* nanoseconds in a millisecond
    Dword,      \* the number of values of a DWORD
    MaxSteps    \* bound: how often the wall clock is set

ASSUME SyncAssumption ==
    /\ Nobody \notin Callers
    /\ Permits \in Nat
    /\ MaxDepth \in Nat \ {0}
    /\ Timeouts \subseteq Nat
    /\ {SecondMs, MsNanos, Dword} \subseteq Nat \ {0}
    /\ MaxSteps \in Nat

VARIABLES
    recursive,  \* which of the two constructors made the mutex
    owner,      \* the holder of the mutex
    depth,      \* how often the holder has locked it
    inside,     \* how often each user was told it holds the mutex
    value,      \* the semaphore
    permits,    \* how many permits each user was told it has
    wait,       \* the call each user is blocked in
    nanos,      \* tv_nsec of the wall clock
    steps       \* how often the wall clock was set

syncVars == <<recursive, owner, depth, inside, value, permits, wait, nanos, steps>>

SecondNanos == SecondMs * MsNanos

Forever == -1

Idle == [at |-> "idle", left |-> Forever, due |-> 0, ms |-> Forever, stepped |-> FALSE]

SyncInit ==
    /\ platform \in Platforms
    /\ recursive \in BOOLEAN
    /\ owner = Nobody
    /\ depth = 0
    /\ inside = [u \in Callers |-> 0]
    /\ value = Permits
    /\ permits = [u \in Callers |-> 0]
    /\ wait = [u \in Callers |-> Idle]
    /\ nanos \in 0..SecondNanos - 1
    /\ steps = 0

AtRest(u) == wait[u].at = "idle"

Enters(u, point) == wait' = [wait EXCEPT ![u].at = point]

Returns(u) == wait' = [wait EXCEPT ![u] = Idle]

-----------------------------------------------------------------------------
(* The mutex *)

\* A CRITICAL_SECTION always is recursive.
Reentrant == recursive \/ Windows

Free(u) == owner = Nobody \/ (owner = u /\ Reentrant)

Enter(u) ==
    /\ owner' = u
    /\ depth' = depth + 1
    /\ inside' = [inside EXCEPT ![u] = @ + 1]

Lock(u) ==
    /\ AtRest(u)
    /\ owner = u => recursive /\ depth < MaxDepth
    /\ Enters(u, "lock")
    /\ UNCHANGED <<platform, recursive, owner, depth, inside, value, permits, nanos, steps>>

Locked(u) ==
    /\ wait[u].at = "lock"
    /\ Free(u)
    /\ Enter(u)
    /\ Returns(u)
    /\ UNCHANGED <<platform, recursive, value, permits, nanos, steps>>

\* TEN_OK with the mutex.  The holder of a plain mutex may ask too.
TryLockTakes(u) ==
    /\ AtRest(u)
    /\ Free(u)
    /\ owner = u => depth < MaxDepth
    /\ Enter(u)
    /\ UNCHANGED <<platform, recursive, value, permits, wait, nanos, steps>>

\* TEN_ERROR_TIMEOUT, without it
TryLockBusy(u) ==
    /\ AtRest(u)
    /\ ~Free(u)
    /\ UNCHANGED <<platform, syncVars>>

Unlock(u) ==
    /\ AtRest(u)
    /\ owner = u
    /\ owner' = IF depth = 1 THEN Nobody ELSE u
    /\ depth' = depth - 1
    /\ inside' = [inside EXCEPT ![u] = @ - 1]
    /\ UNCHANGED <<platform, recursive, value, permits, wait, nanos, steps>>

-----------------------------------------------------------------------------
(* The semaphore *)

SemaphoreWait(u) ==
    /\ AtRest(u)
    /\ permits[u] = 0
    /\ Enters(u, "semaphore")
    /\ UNCHANGED <<platform, recursive, owner, depth, inside, value, permits, nanos, steps>>

SemaphoreTaken(u) ==
    /\ wait[u].at = "semaphore"
    /\ value > 0
    /\ value' = value - 1
    /\ permits' = [permits EXCEPT ![u] = @ + 1]
    /\ Returns(u)
    /\ UNCHANGED <<platform, recursive, owner, depth, inside, nanos, steps>>

\* Mutant: the result of sem_wait is not looked at.
SemaphoreInterrupted_SaysOk(u) ==
    /\ Posix
    /\ wait[u].at = "semaphore"
    /\ permits' = [permits EXCEPT ![u] = @ + 1]
    /\ Returns(u)
    /\ UNCHANGED <<platform, recursive, owner, depth, inside, value, nanos, steps>>

\* A handler of a signal ran: sem_wait fails with EINTR and the caller is
\* told TEN_ERROR_SYSTEM.  WaitForSingleObject is not interrupted.
SemaphoreInterrupted(u) ==
    /\ Posix
    /\ wait[u].at = "semaphore"
    /\ Returns(u)
    /\ UNCHANGED <<platform, recursive, owner, depth, inside, value, permits, nanos, steps>>

SemaphorePost(u) ==
    /\ AtRest(u)
    /\ permits[u] > 0
    /\ value' = value + 1
    /\ permits' = [permits EXCEPT ![u] = @ - 1]
    /\ UNCHANGED <<platform, recursive, owner, depth, inside, wait, nanos, steps>>

-----------------------------------------------------------------------------
(* The condition variable *)

\* tv_nsec of the deadline before and after it is brought below a second
DeadlineNanos(ms) == nanos + (ms % SecondMs) * MsNanos

Carries(ms) == DeadlineNanos(ms) >= SecondNanos

\* Mutant: tv_nsec is brought below a second, tv_sec stays.
Deadline_NoCarry(ms) ==
    [sec  |-> ms \div SecondMs,
     nsec |-> DeadlineNanos(ms) - (IF Carries(ms) THEN SecondNanos ELSE 0)]

\* The timespec handed to pthread_cond_timedwait, its seconds relative to now
Deadline(ms) ==
    [sec  |-> ms \div SecondMs + (IF Carries(ms) THEN 1 ELSE 0),
     nsec |-> DeadlineNanos(ms) - (IF Carries(ms) THEN SecondNanos ELSE 0)]

Valid(timespec) == timespec.nsec \in 0..SecondNanos - 1

\* What SleepConditionVariableCS is given, and what it makes of it
SleepMs(ms) == ms % Dword

\* Mutant: no milliseconds mean no timeout.
SleepTicks_ZeroIsInfinite(ms) == IF SleepMs(ms) = 0 THEN Forever ELSE SleepMs(ms) * MsNanos

SleepTicks(ms) == IF SleepMs(ms) = Dword - 1 THEN Forever ELSE SleepMs(ms) * MsNanos

TicksUntil(timespec) == timespec.sec * SecondNanos + timespec.nsec - nanos

Ticks(ms) == IF Posix THEN TicksUntil(Deadline(ms)) ELSE SleepTicks(ms)

\* The caller may wait: it holds the mutex once, so that waiting frees it.
MayWait(u) == AtRest(u) /\ owner = u /\ depth = 1

Sleeps(u, left, ms) ==
    /\ owner' = Nobody
    /\ depth' = 0
    /\ wait' = [wait EXCEPT ![u] =
           [at |-> "waiting", left |-> left, due |-> IF ms = Forever THEN 0 ELSE ms * MsNanos,
            ms |-> ms, stepped |-> FALSE]]
    /\ UNCHANGED <<platform, recursive, inside, value, permits, nanos, steps>>

CondWait(u) == MayWait(u) /\ Sleeps(u, Forever, Forever)

\* A deadline that is not valid would be refused at once; DeadlineIsKept
\* says there is none.
CondWaitTimeout(u, ms) ==
    /\ MayWait(u)
    /\ Posix => Valid(Deadline(ms))
    /\ Sleeps(u, Ticks(ms), ms)

\* ten_cond_signal wakes one of the waiters, ten_cond_broadcast all, and
\* either may be called with or without the mutex.
Wakes(waiters) ==
    /\ wait' = [u \in Callers |-> IF u \in waiters THEN [wait[u] EXCEPT !.at = "woken"] ELSE wait[u]]
    /\ UNCHANGED <<platform, recursive, owner, depth, inside, value, permits, nanos, steps>>

Waiting == {u \in Callers : wait[u].at = "waiting"}

CondSignal(u) == AtRest(u) /\ \E w \in Waiting : Wakes({w})

CondBroadcast(u) == AtRest(u) /\ Waiting # {} /\ Wakes(Waiting)

\* Both systems may wake a waiter for no reason.
Spurious(u) == u \in Waiting /\ Wakes({u})

Expires(u) ==
    /\ wait[u].at = "waiting"
    /\ wait[u].left # Forever
    /\ wait[u].left <= 0
    /\ Enters(u, "timed_out")
    /\ UNCHANGED <<platform, recursive, owner, depth, inside, value, permits, nanos, steps>>

\* The call returns, TEN_OK or TEN_ERROR_TIMEOUT, once it has the mutex back.
CondReturns(u) ==
    /\ wait[u].at \in {"woken", "timed_out"}
    /\ owner = Nobody
    /\ owner' = u
    /\ depth' = 1
    /\ Returns(u)
    /\ UNCHANGED <<platform, recursive, inside, value, permits, nanos, steps>>

-----------------------------------------------------------------------------
(* Time *)

Passed(n, by) == IF n = Forever THEN Forever ELSE IF n < by THEN 0 ELSE n - by

Tick ==
    /\ \E u \in Waiting : wait[u].left > 0
    /\ nanos' = (nanos + 1) % SecondNanos
    /\ wait' = [u \in Callers |-> IF u \in Waiting
                                THEN [wait[u] EXCEPT !.left = Passed(@, 1), !.due = Passed(@, 1)]
                                ELSE wait[u]]
    /\ UNCHANGED <<platform, recursive, owner, depth, inside, value, permits, steps>>

\* Somebody sets the wall clock a second forward or back: a deadline of
\* CLOCK_REALTIME comes nearer or goes away.
Stepped(u, by) ==
    IF u \in Waiting /\ Posix
    THEN [wait[u] EXCEPT !.stepped = TRUE,
                         !.left = IF @ = Forever THEN Forever ELSE IF by > 0 THEN Passed(@, by) ELSE @ - by]
    ELSE wait[u]

ClockSet ==
    /\ steps < MaxSteps
    /\ steps' = steps + 1
    /\ \E by \in {SecondNanos, -SecondNanos} : wait' = [u \in Callers |-> Stepped(u, by)]
    /\ UNCHANGED <<platform, recursive, owner, depth, inside, value, permits, nanos>>

SyncNext ==
    \/ \E u \in Callers :
        \/ Lock(u) \/ Locked(u) \/ TryLockTakes(u) \/ TryLockBusy(u) \/ Unlock(u)
        \/ SemaphoreWait(u) \/ SemaphoreTaken(u) \/ SemaphoreInterrupted(u) \/ SemaphorePost(u)
        \/ CondWait(u)
        \/ \E ms \in Timeouts : CondWaitTimeout(u, ms)
        \/ CondSignal(u) \/ CondBroadcast(u) \/ Spurious(u) \/ Expires(u) \/ CondReturns(u)
    \/ Tick
    \/ ClockSet

SyncFairness ==
    /\ WF_<<platform, syncVars>>(Tick)
    /\ \A u \in Callers : WF_<<platform, syncVars>>(Expires(u))

-----------------------------------------------------------------------------
(* Properties *)

Blocked(u) == wait[u].at \in {"waiting", "woken", "timed_out"}

\* What the calls answered is what is the case.  Outside a wait on the
\* condition, a user that was told TEN_OK by ten_mutex_lock, by
\* ten_mutex_try_lock or by a wait, signalled, woken for no reason or timed
\* out, is the holder, once for every answer and every unlock; nobody else is
\* told so.  A user has a permit only when ten_semaphore_wait answered TEN_OK,
\* and a wait that a signal interrupted took none: permits are neither made
\* up nor lost.
AnswersAreTrue ==
    /\ \A u \in Callers : ~Blocked(u) => inside[u] = IF owner = u THEN depth ELSE 0
    /\ value + Cardinality({u \in Callers : permits[u] > 0}) = Permits

\* ten_cond_wait_timeout asks for a deadline that exists, and answers
\* TEN_ERROR_TIMEOUT no earlier than its milliseconds after the call, as long
\* as nobody sets the clock the deadline is read from and the milliseconds
\* are not cut off by the DWORD they are passed in.
DeadlineIsKept ==
    /\ Posix => \A ms \in Timeouts : Valid(Deadline(ms))
    /\ \A u \in Callers :
        /\ wait[u].at = "timed_out"
        /\ ~wait[u].stepped
        /\ Windows => wait[u].ms < Dword - 1
        => wait[u].due = 0

Timed(u) ==
    /\ wait[u].at = "waiting"
    /\ wait[u].ms # Forever
    /\ Windows => SleepMs(wait[u].ms) # Dword - 1

\* A wait with a timeout ends even if nobody signals and somebody sets the
\* clock now and then, except for the one value that Windows reads as INFINITE.
TimedWaitEnds ==
    \A u \in Callers : Timed(u) ~> ~Timed(u)

=============================================================================
