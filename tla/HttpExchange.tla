---------------------------- MODULE HttpExchange ----------------------------
(***************************************************************************)
(* What http.h promises the callers of ten_http_client_send, the handler   *)
(* and the owner of a server, without sockets, pieces and buffers: calls   *)
(* are served one at a time in the order they came, each by one call of    *)
(* the handler or by none, a call is answered with what was said to it,    *)
(* and after stop at most one more is served before run returns.  A        *)
(* caller whose line is disturbed, or on whose exchange memory runs out,   *)
(* may get less; the others do not notice.                                 *)
(***************************************************************************)
EXTENDS Naturals, SequencesExt

CONSTANTS
  Clients,   \* callers of ten_http_client_send
  Requests,  \* what they may ask: [head, body, wellFormed]
  MaxHead,   \* the longest head that is served in any case
  Unlucky,   \* callers on whose exchange memory may run out
  None

VARIABLES
  phase,     \* "new", "open", "failed", "over" when run has returned, "destroyed"
  stopped,   \* stop was called
  request,   \* what each caller asks
  call,      \* of each caller: "none", "pending", "ok", "failed" or "dead"
  waiting,   \* connected callers that are not served yet
  current,   \* the caller being served, or None
  overtime,  \* a caller was served although stop was called before
  handled,   \* the body the handler was called with, for each caller, or None
  answer,    \* what the server said to each caller, or "none"
  disturbed  \* callers on whose line something failed

vars == <<phase, stopped, request, call, waiting, current, overtime, handled, answer, disturbed>>

Init ==
  /\ phase = "new" /\ stopped = FALSE /\ overtime = FALSE
  /\ request \in [Clients -> Requests]
  /\ call = [c \in Clients |-> "none"]
  /\ waiting = <<>> /\ current = None
  /\ handled = [c \in Clients |-> None] /\ answer = [c \in Clients |-> "none"]
  /\ disturbed = {}

-----------------------------------------------------------------------------
(* The owner and the loop of run                                           *)

Create ==
  /\ phase = "new" /\ phase' \in {"open", "failed"}
  /\ UNCHANGED <<stopped, request, call, waiting, current, overtime, handled, answer, disturbed>>

Stop ==
  /\ phase = "open" /\ ~stopped /\ stopped' = TRUE
  /\ UNCHANGED <<phase, request, call, waiting, current, overtime, handled, answer, disturbed>>

\* run returns when it was stopped, between two callers.
RunReturns ==
  /\ phase = "open" /\ stopped /\ current = None
  /\ phase' = "over"
  /\ UNCHANGED <<stopped, request, call, waiting, current, overtime, handled, answer, disturbed>>

Destroy ==
  /\ phase = "over" /\ phase' = "destroyed"
  /\ waiting' = <<>>
  /\ UNCHANGED <<stopped, request, call, current, overtime, handled, answer, disturbed>>

-----------------------------------------------------------------------------
(* Service                                                                 *)

Take ==
  /\ phase = "open" /\ current = None /\ waiting # <<>>
  /\ stopped => ~overtime
  /\ current' = Head(waiting) /\ waiting' = Tail(waiting)
  /\ overtime' = stopped
  /\ UNCHANGED <<phase, stopped, request, call, handled, answer, disturbed>>

\* There was no memory for the connection.
TurnAway ==
  /\ phase = "open" /\ current = None /\ waiting # <<>> /\ Head(waiting) \in Unlucky
  /\ waiting' = Tail(waiting)
  /\ UNCHANGED <<phase, stopped, request, call, current, overtime, handled, answer, disturbed>>

Silent(c) == handled[c] = None /\ answer[c] = "none"

\* Pieces of a body of n, in their order.
Pieces(n) ==
  {b \in UNION {[1 .. m -> 1 .. n] : m \in 0 .. n} : \A i, j \in DOMAIN b : i < j => b[i] < b[j]}

\* What is said to a caller: without memory perhaps something else, or nothing.
Says(s) ==
  \E t \in IF current \in Unlucky THEN {s, "damaged", "none"} ELSE {s} :
    answer' = [answer EXCEPT ![current] = t]

(* The handler is called once at most, with the whole body of a caller     *)
(* that waits, with the beginning of a dead or a disturbed one's; without  *)
(* memory pieces may be missing.                                           *)
Handle ==
  /\ current # None /\ Silent(current)
  /\ \E b \in Pieces(request[current].body) :
       /\ handled' = [handled EXCEPT ![current] = b]
       /\ current \notin Unlucky =>
            /\ b = [i \in 1 .. Len(b) |-> i]
            /\ \/ call[current] = "dead" \/ current \in disturbed
               \/ call[current] = "pending" /\ Len(b) = request[current].body
  /\ request[current].wellFormed
  /\ Says("200")
  /\ UNCHANGED <<phase, stopped, request, call, waiting, current, overtime, disturbed>>

Reject ==
  /\ current # None /\ Silent(current)
  /\ ~request[current].wellFormed \/ current \in Unlucky
  /\ Says("400")
  /\ UNCHANGED <<phase, stopped, request, call, waiting, current, overtime, handled, disturbed>>

\* A caller that waits undisturbed, and whose head is not too long, has been answered.
Finish ==
  /\ current # None
  /\ call[current] = "pending" /\ request[current].head <= MaxHead
       /\ current \notin Unlucky \cup disturbed => answer[current] # "none"
  /\ current' = None
  /\ UNCHANGED <<phase, stopped, request, call, waiting, overtime, handled, answer, disturbed>>

-----------------------------------------------------------------------------
(* The callers                                                             *)

Connect(c) ==
  /\ phase \in {"open", "over"} /\ call[c] = "none"
  /\ call' = [call EXCEPT ![c] = "pending"]
  /\ waiting' = Append(waiting, c)
  /\ UNCHANGED <<phase, stopped, request, current, overtime, handled, answer, disturbed>>

Becomes(c, what) ==
  /\ call' = [call EXCEPT ![c] = what]
  /\ UNCHANGED <<phase, stopped, request, waiting, current, overtime, handled, answer, disturbed>>

(* Something fails on the line of a caller that waits, perhaps at the      *)
(* caller's end: then the call returns, well when it was answered.         *)
Disturb(c) ==
  /\ call[c] = "pending"
  /\ disturbed' = disturbed \cup {c}
  /\ \/ UNCHANGED call
     \/ call' = [call EXCEPT ![c] = "failed"]
     \/ answer[c] # "none" /\ call' = [call EXCEPT ![c] = "ok"]
  /\ UNCHANGED <<phase, stopped, request, waiting, current, overtime, handled, answer>>

NoConnection(c) == call[c] = "none" /\ Becomes(c, "failed")
Dies(c) == call[c] = "pending" /\ Becomes(c, "dead")

(* Who is told that the call went well has been answered.  Who is told     *)
(* otherwise is neither waiting nor in service, and the handler has not    *)
(* seen the request, unless memory ran out or the line was disturbed.      *)
Returns(c) ==
  /\ call[c] = "pending"
  /\ \/ answer[c] # "none" /\ Becomes(c, "ok")
     \/ c \in Unlucky \cup disturbed /\ Becomes(c, "failed")
     \/ c # current /\ c \notin Range(waiting) /\ handled[c] = None /\ Becomes(c, "failed")

\* A connection whose caller has closed it need not be served.
Leaves(c) ==
  /\ call[c] # "pending"
  /\ \E i \in DOMAIN waiting : waiting[i] = c /\ waiting' = RemoveAt(waiting, i)
  /\ UNCHANGED <<phase, stopped, request, call, current, overtime, handled, answer, disturbed>>

Next ==
  \/ Create \/ Stop \/ RunReturns \/ Destroy
  \/ Take \/ TurnAway \/ Handle \/ Reject \/ Finish
  \/ \E c \in Clients : Connect(c) \/ NoConnection(c) \/ Disturb(c) \/ Dies(c) \/ Returns(c) \/ Leaves(c)

Spec == Init /\ [][Next]_vars
=============================================================================
