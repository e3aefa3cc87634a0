--------------------------- MODULE HttpServerProofs ---------------------------
(***************************************************************************)
(* For any clients, requests, head limit, queue and answer, and whichever  *)
(* allocations and socket calls fail: the invariants the runs check of HttpServer.          *)
(***************************************************************************)
EXTENDS HttpServerRefinement, SequenceTheorems, TLAPS

USE RequestsAssumption

-----------------------------------------------------------------------------
(* The inductive invariant                                                 *)

(* The queue holds each client that waits in it once.                      *)
QueueInv ==
  /\ \A i \in 1 .. Len(backlog) : link[backlog[i]] = "queued"
  /\ \A i, j \in 1 .. Len(backlog) : i # j => backlog[i] # backlog[j]

Unserved == {"none", "queued", "reset"}

(* What holds of a connection before, at, and after its service.           *)
LinkInv ==
  /\ OneOpenConnection
  /\ srv \in Serving => conn \in Clients
  /\ \A c \in Clients :
       /\ cli[c] = "start" => link[c] = "none"
       /\ link[c] \in Unserved => status[c] = "none" /\ seen[c] = None /\ c \notin torn
       /\ link[c] \in {"none", "queued"} => up[c] = sent[c]

(* A client's request is sent, in flight, or received.                     *)
StreamInv ==
  /\ \A c \in Clients :
       /\ up[c] <= sent[c] /\ sent[c] <= Length(req[c])
       /\ cli[c] = "start" => sent[c] = 0
       /\ cli[c] = "sending" => sent[c] # Length(req[c])
       /\ cli[c] = "receiving" => sent[c] = Length(req[c])
  /\ srv \in {"head", "parse"} => raw + up[conn] = sent[conn]
  /\ srv = "parse" => HeadComplete
  /\ srv = "body" => up[conn] + req[conn].head <= sent[conn]
  /\ srv \in {"head", "parse", "body", "handler", "respond"} =>
       status[conn] = "none" /\ seen[conn] = None /\ conn \notin torn

(* The body units stored are the request's own, in order.                  *)
BodyInv ==
  conn \notin Unlucky =>
    /\ srv \in {"body", "handler"} =>
         /\ Len(body) <= req[conn].body
         /\ body = [i \in 1 .. Len(body) |-> i]
         /\ up[conn] + req[conn].head + Len(body) = sent[conn]
    /\ srv = "handler" => Missing = 0 \/ Left(conn) \/ conn \in broken

Unsent(c) == IF c = conn /\ srv \in Serving THEN out ELSE 0

(* A response is unsent, in flight, or stored, and its client is not told  *)
(* that the call has ended before that is so, until a socket call fails.   *)
AnswerInv ==
  /\ srv \notin {"send", "close", "killed"} => out = 0
  /\ \A c \in Clients \ (Unlucky \cup broken) :
       /\ status[c] \in {"none", "200", "400"}
       /\ ~Left(c) => got[c] + down[c] + Unsent(c) = AnswerLength(status[c])
       /\ srv = "close" /\ c = conn => out = 0 \/ Left(c)
       /\ srv = "send" /\ c = conn => status[c] # "none"
       /\ cli[c] = "done" /\ link[c] \in {"queued", "open"} => status[c] # "none"
       /\ seen[c] # None => status[c] = "200"
       /\ seen[c] # None /\ ~Left(c) => cli[c] = "receiving" /\ up[c] = 0 /\ c \notin torn
       /\ (link[c] = "closed" \/ (srv = "close" /\ c = conn)) /\ req[c].head <= MaxHead
            => status[c] # "none" \/ cli[c] = "gone"

(* A head of up to MaxHead units is always read on: a well-formed request  *)
(* with such a head, whose client stays, is not closed without an answer   *)
(* unless a socket call failed.                                            *)
ShortHeadsAreServed ==
  \A c \in Clients \ (Unlucky \cup broken) :
    cli[c] = "done" /\ link[c] = "closed" /\ req[c].head <= MaxHead => status[c] # "none"

(* After stop at most one more connection is accepted: the one that was    *)
(* polled when the flag was set.                                           *)
StopBound == late <= 1

(* The flag is looked at before every poll.                                *)
StopInv ==
  /\ ~stopping => late = 0
  /\ srv \in {"poll", "accept"} => late = 0
  /\ StopBound

IInv ==
  /\ TypeOK /\ QueueInv /\ LinkInv /\ StreamInv /\ BodyInv /\ AnswerInv /\ StopInv
  /\ HandlerSeesTheBody /\ AnswerArrives /\ ShortHeadsAreServed

-----------------------------------------------------------------------------
(* The values of a few operators                                           *)

LEMMA RequestFacts ==
  ASSUME NEW r \in Requests
  PROVE  r.head \in Nat \ {0} /\ r.body \in Nat /\ r.wellFormed \in BOOLEAN /\ Length(r) = r.head + r.body
BY DEF Length

LEMMA AnswerFacts ==
  /\ AnswerLength("none") = 0 /\ AnswerLength("400") = 1 /\ AnswerLength("200") = 1 + AnswerBody
  /\ AnswerLength("damaged") = 1 + AnswerBody
BY DEF AnswerLength

-----------------------------------------------------------------------------
(* The initial state                                                       *)

THEOREM InitIInv == Init => IInv
<1> SUFFICES ASSUME Init PROVE IInv
  OBVIOUS
<1>1. TypeOK
  BY EmptySeq DEF Init, TypeOK, ServerPoints, Links, ClientPoints, Statuses
<1>2. QueueInv
  BY EmptySeq DEF Init, QueueInv
<1>3. LinkInv
  BY DEF Init, LinkInv, OneOpenConnection, Serving
<1>4. StreamInv
  BY RequestFacts DEF Init, StreamInv
<1>5. BodyInv
  BY DEF Init, BodyInv
<1>6. AnswerInv
  BY AnswerFacts DEF Init, AnswerInv, Unsent, Left
<1>7. StopInv
  BY DEF Init, StopInv, StopBound
<1>8. HandlerSeesTheBody /\ AnswerArrives /\ ShortHeadsAreServed
  BY DEF Init, HandlerSeesTheBody, AnswerArrives, ShortHeadsAreServed
<1> QED
  BY <1>1, <1>2, <1>3, <1>4, <1>5, <1>6, <1>7, <1>8 DEF IInv

-----------------------------------------------------------------------------
(* The owner                                                               *)

LEMMA CreateStep ==
  ASSUME IInv, Create \/ Stop
  PROVE  IInv'
<1> USE DEF IInv, Create, Stop, server, net, client, hist
<1>1. TypeOK'
  BY DEF TypeOK
<1>2. QueueInv'
  BY DEF QueueInv
<1>3. LinkInv'
  BY DEF LinkInv, OneOpenConnection
<1>4. StreamInv'
  BY DEF StreamInv, HeadComplete
<1>5. BodyInv'
  BY DEF BodyInv, Missing, Left
<1>6. AnswerInv'
  BY DEF AnswerInv, Unsent, Left
<1>7. StopInv'
  BY DEF StopInv, StopBound
<1>8. (HandlerSeesTheBody /\ AnswerArrives /\ ShortHeadsAreServed)'
  BY DEF HandlerSeesTheBody, AnswerArrives, ShortHeadsAreServed, Left, FullBody
<1> QED
  BY <1>1, <1>2, <1>3, <1>4, <1>5, <1>6, <1>7, <1>8

-----------------------------------------------------------------------------
(* Steps that only change where ten_http_server_run is                     *)

LEMMA GoesFrame ==
  ASSUME IInv, NEW from \in ServerPoints, NEW to \in ServerPoints, Goes(from, to),
         from \in Serving <=> to \in Serving
  PROVE  /\ TypeOK' /\ QueueInv' /\ LinkInv'
         /\ (HandlerSeesTheBody /\ AnswerArrives /\ ShortHeadsAreServed)'
<1> USE DEF IInv, Goes, owners, net, client, hist
<1>1. TypeOK'
  BY DEF TypeOK
<1>2. QueueInv'
  BY DEF QueueInv
<1>3. LinkInv'
  BY DEF LinkInv, OneOpenConnection
<1>4. (HandlerSeesTheBody /\ AnswerArrives /\ ShortHeadsAreServed)'
  BY DEF HandlerSeesTheBody, AnswerArrives, ShortHeadsAreServed, Left, FullBody
<1> QED
  BY <1>1, <1>2, <1>3, <1>4

(* Between connections                                                     *)
LEMMA LoopStepKeeps ==
  ASSUME IInv, RunStart \/ RunCheck \/ PollReady \/ PollIdle \/ PollError \/ AcceptError
  PROVE  IInv'
<1> DEFINE Loop == {"off", "check", "poll", "accept", "returned"}
<1>1. PICK from \in Loop, to \in Loop :
         Goes(from, to) /\ (to = "poll" => ~stopping) /\ (to = "accept" => from = "poll")
  BY DEF RunStart, RunCheck, PollReady, PollIdle, PollError, AcceptError
<1> USE DEF Goes, owners, net, client, hist
<1>2. /\ TypeOK' /\ QueueInv' /\ LinkInv'
      /\ (HandlerSeesTheBody /\ AnswerArrives /\ ShortHeadsAreServed)'
  BY <1>1, GoesFrame DEF ServerPoints, Serving
<1>3. StreamInv'
  BY <1>1 DEF IInv, StreamInv, HeadComplete
<1>4. BodyInv'
  BY <1>1 DEF BodyInv
<1>5. AnswerInv'
  BY <1>1 DEF IInv, AnswerInv, Unsent, Left, Serving
<1>6. StopInv'
  BY <1>1 DEF IInv, StopInv, StopBound
<1> QED
  BY <1>2, <1>3, <1>4, <1>5, <1>6 DEF IInv

(* With a connection                                                       *)
LEMMA HeadDoneStep ==
  ASSUME IInv, HeadDone
  PROVE  IInv'
<1> USE DEF HeadDone, Goes, owners, net, client, hist
<1>1. /\ TypeOK' /\ QueueInv' /\ LinkInv'
      /\ (HandlerSeesTheBody /\ AnswerArrives /\ ShortHeadsAreServed)'
  BY GoesFrame DEF ServerPoints, Serving
<1>2. StreamInv'
  BY DEF IInv, StreamInv, HeadComplete
<1>3. BodyInv'
  BY DEF BodyInv
<1>4. AnswerInv'
  BY DEF IInv, AnswerInv, Unsent, Left, Serving
<1>5. StopInv'
  BY DEF IInv, StopInv, StopBound
<1> QED
  BY <1>1, <1>2, <1>3, <1>4, <1>5 DEF IInv

(* A head of up to MaxHead units is complete before raw passes MaxHead, so *)
(* that only a client that has left is turned away; one that stays until   *)
(* its call returns has not, for the connection is open.                   *)
LEMMA HeadFailsStep ==
  ASSUME IInv, HeadFails
  PROVE  IInv'
<1> USE DEF HeadFails, Goes, owners, net, client, hist
<1>1. /\ TypeOK' /\ QueueInv' /\ LinkInv'
      /\ (HandlerSeesTheBody /\ AnswerArrives /\ ShortHeadsAreServed)'
  BY GoesFrame DEF ServerPoints, Serving
<1>2. StreamInv'
  BY DEF IInv, StreamInv
<1>3. BodyInv'
  BY DEF BodyInv
<1>4. conn \in Clients /\ link[conn] = "open" /\ out = 0
  BY DEF IInv, LinkInv, OneOpenConnection, Serving, AnswerInv
<1>5. conn \notin Unlucky \cup broken /\ req[conn].head <= MaxHead => cli[conn] = "gone"
  <2> SUFFICES ASSUME conn \notin Unlucky \cup broken, req[conn].head <= MaxHead
               PROVE  cli[conn] = "gone"
    OBVIOUS
  <2>1. req[conn].head \in Nat /\ raw \in Nat
    BY <1>4, RequestFacts DEF IInv, TypeOK
  <2>2. Left(conn)
    BY <2>1 DEF HeadComplete
  <2>3. cli[conn] # "done"
    BY <1>4 DEF IInv, AnswerInv, StreamInv
  <2> QED
    BY <2>2, <2>3 DEF Left
<1>6. AnswerInv'
  BY <1>4, <1>5 DEF IInv, AnswerInv, Unsent, Left, Serving
<1>7. StopInv'
  BY DEF IInv, StopInv, StopBound
<1> QED
  BY <1>1, <1>2, <1>3, <1>6, <1>7 DEF IInv

LEMMA ParseFailsStep ==
  ASSUME IInv, ParseFails
  PROVE  IInv'
<1> USE DEF ParseFails, Goes, owners, net, client, hist
<1>1. /\ TypeOK' /\ QueueInv' /\ LinkInv'
      /\ (HandlerSeesTheBody /\ AnswerArrives /\ ShortHeadsAreServed)'
  BY GoesFrame DEF ServerPoints, Serving
<1>2. StreamInv'
  BY DEF IInv, StreamInv
<1>3. BodyInv'
  BY DEF BodyInv
<1>4. AnswerInv'
  BY DEF IInv, AnswerInv, Unsent, Left, Serving
<1>5. StopInv'
  BY DEF IInv, StopInv, StopBound
<1> QED
  BY <1>1, <1>2, <1>3, <1>4, <1>5 DEF IInv

LEMMA BodyDoneStep ==
  ASSUME IInv, BodyDone
  PROVE  IInv'
<1> USE DEF BodyDone, Goes, owners, net, client, hist
<1>1. /\ TypeOK' /\ QueueInv' /\ LinkInv'
      /\ (HandlerSeesTheBody /\ AnswerArrives /\ ShortHeadsAreServed)'
  BY GoesFrame DEF ServerPoints, Serving
<1>2. StreamInv'
  BY DEF IInv, StreamInv
<1>3. BodyInv'
  BY DEF IInv, BodyInv, Missing, Left
<1>4. AnswerInv'
  BY DEF IInv, AnswerInv, Unsent, Left, Serving
<1>5. StopInv'
  BY DEF IInv, StopInv, StopBound
<1> QED
  BY <1>1, <1>2, <1>3, <1>4, <1>5 DEF IInv

LEMMA ResponseOutOfMemoryStep ==
  ASSUME IInv, ResponseOutOfMemory
  PROVE  IInv'
<1> USE DEF ResponseOutOfMemory, Goes, owners, net, client, hist
<1>1. /\ TypeOK' /\ QueueInv' /\ LinkInv'
      /\ (HandlerSeesTheBody /\ AnswerArrives /\ ShortHeadsAreServed)'
  BY GoesFrame DEF ServerPoints, Serving
<1>2. StreamInv'
  BY DEF IInv, StreamInv
<1>3. BodyInv'
  BY DEF BodyInv
<1>4. AnswerInv'
  BY DEF IInv, AnswerInv, Unsent, Left, Serving
<1>5. StopInv'
  BY DEF IInv, StopInv, StopBound
<1> QED
  BY <1>1, <1>2, <1>3, <1>4, <1>5 DEF IInv

(* The response is sent to its end, or the client has left; the process    *)
(* may end.                                                                *)
LEMMA SendEndsStep ==
  ASSUME IInv, SendFails \/ SendKilled \/ SendDone
  PROVE  IInv'
<1> USE DEF SendFails, SendKilled, SendDone, Goes, owners, net, client, hist
<1>0. /\ Goes("send", "close") \/ Goes("send", "killed")
      /\ srv' = "close" => out = 0 \/ Left(conn)
  BY DEF Goes
<1>1. /\ TypeOK' /\ QueueInv' /\ LinkInv'
      /\ (HandlerSeesTheBody /\ AnswerArrives /\ ShortHeadsAreServed)'
  BY GoesFrame DEF ServerPoints, Serving
<1>2. StreamInv'
  BY DEF IInv, StreamInv
<1>3. BodyInv'
  BY DEF BodyInv
<1>4. AnswerInv'
  BY <1>0 DEF IInv, AnswerInv, Unsent, Left, Serving
<1>5. StopInv'
  BY DEF IInv, StopInv, StopBound
<1> QED
  BY <1>1, <1>2, <1>3, <1>4, <1>5 DEF IInv

-----------------------------------------------------------------------------
(* Accepting a connection                                                  *)

LEMMA FirstInQueue ==
  ASSUME IInv, backlog # << >>
  PROVE  /\ Head(backlog) \in Clients /\ link[Head(backlog)] = "queued"
         /\ Tail(backlog) \in Seq(Clients) /\ Len(Tail(backlog)) = Len(backlog) - 1
         /\ \A i \in 1 .. Len(Tail(backlog)) :
              /\ i + 1 \in 1 .. Len(backlog)
              /\ Tail(backlog)[i] = backlog[i + 1]
              /\ Tail(backlog)[i] \in Clients \ {Head(backlog)}
<1>1. /\ Len(backlog) \in Nat \ {0} /\ Head(backlog) = backlog[1]
      /\ link[backlog[1]] = "queued"
      /\ \A i, j \in 1 .. Len(backlog) : i # j => backlog[i] # backlog[j]
  BY EmptySeq DEF IInv, TypeOK, QueueInv
<1>2. /\ Head(backlog) \in Clients
      /\ Tail(backlog) \in Seq(Clients) /\ Len(Tail(backlog)) = Len(backlog) - 1
      /\ \A i \in 1 .. Len(Tail(backlog)) : Tail(backlog)[i] = backlog[i + 1]
  BY HeadTailProperties DEF IInv, TypeOK
<1>3. \A i \in 1 .. Len(Tail(backlog)) : i + 1 \in 1 .. Len(backlog) /\ i + 1 # 1
  BY <1>1, <1>2
<1>4. \A i \in 1 .. Len(Tail(backlog)) : Tail(backlog)[i] \in Clients
  BY <1>2, ElementOfSeq
<1>5. \A i \in 1 .. Len(Tail(backlog)) : Tail(backlog)[i] # Head(backlog)
  BY <1>1, <1>2, <1>3
<1> QED
  BY <1>1, <1>2, <1>3, <1>4, <1>5

(* The rest of the queue still waits when its first is taken.              *)
LEMMA QueueMoves ==
  ASSUME IInv, backlog # << >>, backlog' = Tail(backlog),
         NEW l, link' = [link EXCEPT ![Head(backlog)] = l]
  PROVE  QueueInv'
<1>1. \A i \in 1 .. Len(backlog') :
         /\ i + 1 \in 1 .. Len(backlog)
         /\ backlog'[i] = backlog[i + 1]
         /\ backlog'[i] \in Clients \ {Head(backlog)}
  BY FirstInQueue
<1>2. \A c \in Clients \ {Head(backlog)} : link'[c] = link[c]
  BY DEF IInv, TypeOK
<1>3. \A i \in 1 .. Len(backlog') : link'[backlog'[i]] = "queued"
  BY <1>1, <1>2 DEF IInv, QueueInv
<1>4. \A i, j \in 1 .. Len(backlog') : i # j => backlog'[i] # backlog'[j]
  <2> SUFFICES ASSUME NEW i \in 1 .. Len(backlog'), NEW j \in 1 .. Len(backlog'), i # j
               PROVE  backlog'[i] # backlog'[j]
    OBVIOUS
  <2>1. i \in Nat /\ j \in Nat
    BY FirstInQueue DEF IInv, TypeOK
  <2>2. i + 1 # j + 1
    BY <2>1
  <2> QED
    BY <1>1, <2>2 DEF IInv, QueueInv
<1> QED
  BY <1>3, <1>4 DEF QueueInv

LEMMA AcceptStep ==
  ASSUME IInv, Accept
  PROVE  IInv'
<1> DEFINE c == Head(backlog)
<1>1. /\ c \in Clients /\ link[c] = "queued" /\ Tail(backlog) \in Seq(Clients)
      /\ srv = "accept" /\ srv' = "head" /\ conn' = c /\ backlog # << >> /\ backlog' = Tail(backlog)
      /\ link' = [link EXCEPT ![c] = "open"]
      /\ raw' = 0 /\ body' = << >> /\ late' = IF stopping THEN late + 1 ELSE late
      /\ UNCHANGED <<owner, stopping, out, up, down, torn, cli, req, sent, got, result, status, seen, broken>>
  BY FirstInQueue DEF Accept, owners, client
<1> HIDE DEF c
<1>2. TypeOK'
  <2>1. late' \in Nat /\ body' \in Seq(Nat) /\ raw' \in Nat
    BY <1>1, EmptySeq DEF IInv, TypeOK
  <2> QED
    BY <1>1, <2>1 DEF IInv, TypeOK, ServerPoints, Links
<1>3. QueueInv'
  BY <1>1, QueueMoves DEF c
<1>4. LinkInv'
  BY <1>1 DEF IInv, TypeOK, LinkInv, OneOpenConnection, Serving, Unserved
<1>5. StreamInv'
  <2>1. raw' + up[c] = sent[c] /\ status[c] = "none" /\ seen[c] = None /\ c \notin torn
    BY <1>1 DEF IInv, TypeOK, LinkInv, Unserved
  <2> QED
    BY <1>1, <2>1 DEF IInv, StreamInv
<1>6. BodyInv'
  BY <1>1 DEF BodyInv
<1>7. AnswerInv'
  <2>1. out' = 0 /\ \A d \in Clients : Unsent(d) = 0 /\ Unsent(d)' = 0
    BY <1>1 DEF IInv, AnswerInv, Unsent, Serving
  <2>2. \A d \in Clients : /\ link'[d] \in {"queued", "open"} => link[d] \in {"queued", "open"}
                          /\ link'[d] = "closed" => link[d] = "closed"
    BY <1>1 DEF IInv, TypeOK
  <2> QED
    BY <1>1, <2>1, <2>2 DEF IInv, AnswerInv, Left
<1>8. StopInv'
  BY <1>1 DEF IInv, TypeOK, StopInv, StopBound
<1>9. (HandlerSeesTheBody /\ AnswerArrives /\ ShortHeadsAreServed)'
  BY <1>1 DEF IInv, TypeOK, HandlerSeesTheBody, AnswerArrives, ShortHeadsAreServed, Left, FullBody
<1> QED
  BY <1>2, <1>3, <1>4, <1>5, <1>6, <1>7, <1>8, <1>9 DEF IInv

LEMMA AcceptOutOfMemoryStep ==
  ASSUME IInv, AcceptOutOfMemory
  PROVE  IInv'
<1> DEFINE c == Head(backlog)
<1>1. /\ c \in Clients \cap Unlucky /\ link[c] = "queued" /\ Tail(backlog) \in Seq(Clients)
      /\ srv = "accept" /\ srv' = "check" /\ backlog # << >> /\ backlog' = Tail(backlog)
      /\ link' = [link EXCEPT ![c] = "closed"] /\ torn' \in {torn, torn \cup {c}}
      /\ UNCHANGED <<owner, stopping, conn, raw, body, out, up, down, cli, req, sent, got, result, status, seen, late, broken>>
  BY FirstInQueue DEF AcceptOutOfMemory, owners, client, hist
<1> HIDE DEF c
<1>2. TypeOK'
  BY <1>1 DEF IInv, TypeOK, ServerPoints, Links
<1>3. QueueInv'
  BY <1>1, QueueMoves DEF c
<1>4. LinkInv'
  BY <1>1 DEF IInv, TypeOK, LinkInv, OneOpenConnection, Serving, Unserved
<1>5. StreamInv'
  BY <1>1 DEF IInv, StreamInv
<1>6. BodyInv'
  BY <1>1 DEF BodyInv
<1>7. AnswerInv'
  <2>1. out' = 0 /\ \A d \in Clients : Unsent(d) = 0 /\ Unsent(d)' = 0
    BY <1>1 DEF IInv, AnswerInv, Unsent, Serving
  <2>2. \A d \in Clients \ {c} : link'[d] = link[d] /\ (d \in torn' => d \in torn)
    BY <1>1 DEF IInv, TypeOK
  <2> QED
    BY <1>1, <2>1, <2>2 DEF IInv, AnswerInv, Left
<1>8. StopInv'
  BY <1>1 DEF IInv, StopInv, StopBound
<1>9. (HandlerSeesTheBody /\ AnswerArrives /\ ShortHeadsAreServed)'
  BY <1>1 DEF IInv, TypeOK, HandlerSeesTheBody, AnswerArrives, ShortHeadsAreServed, Left, FullBody
<1> QED
  BY <1>2, <1>3, <1>4, <1>5, <1>6, <1>7, <1>8, <1>9 DEF IInv

-----------------------------------------------------------------------------
(* Reading the request                                                     *)

LEMMA ReceiveHeadStep ==
  ASSUME IInv, ReceiveHead
  PROVE  IInv'
<1>0. PICK n \in 1 .. up[conn] : Receive(n) /\ raw' = raw + n
  BY DEF ReceiveHead
<1> USE DEF ReceiveHead, Receive, owners, client, hist
<1>1. conn \in Clients /\ up[conn] \in Nat /\ n \in Nat /\ n <= up[conn]
  BY <1>0 DEF IInv, LinkInv, Serving, TypeOK
<1>2. up' = [up EXCEPT ![conn] = up[conn] - n]
  BY <1>0
<1>3. TypeOK'
  BY SMTT(30), <1>0, <1>1, <1>2 DEF IInv, TypeOK
<1>4. QueueInv'
  BY <1>0 DEF IInv, QueueInv
<1>5. LinkInv'
  BY <1>0, <1>1, <1>2 DEF IInv, TypeOK, LinkInv, OneOpenConnection, Serving, Unserved
<1>6. StreamInv'
  BY <1>0, <1>1, <1>2 DEF IInv, TypeOK, StreamInv
<1>7. BodyInv'
  BY DEF BodyInv
<1>8. AnswerInv'
  BY <1>0, <1>1, <1>2 DEF IInv, TypeOK, AnswerInv, Unsent, Left
<1>9. StopInv'
  BY <1>0 DEF IInv, StopInv, StopBound
<1>10. (HandlerSeesTheBody /\ AnswerArrives /\ ShortHeadsAreServed)'
  BY <1>0 DEF IInv, HandlerSeesTheBody, AnswerArrives, ShortHeadsAreServed, Left, FullBody
<1> QED
  BY <1>3, <1>4, <1>5, <1>6, <1>7, <1>8, <1>9, <1>10 DEF IInv

LEMMA Counting ==
  ASSUME NEW n \in Nat
  PROVE  /\ [i \in 1 .. n |-> i] \in Seq(Nat)
         /\ Len([i \in 1 .. n |-> i]) = n
BY IsASeq

(* What is behind the head is the beginning of the body: no more of it can *)
(* have been sent.                                                         *)
LEMMA ParseRequestStep ==
  ASSUME IInv, ParseRequest
  PROVE  IInv'
<1> USE DEF ParseRequest, owners, net, client, hist
<1> DEFINE take == Least(raw - req[conn].head, req[conn].body)
<1>1. /\ conn \in Clients /\ req[conn].head \in Nat /\ req[conn].body \in Nat
      /\ raw \in Nat /\ up[conn] \in Nat /\ sent[conn] \in Nat /\ srv = "parse"
  BY RequestFacts DEF IInv, LinkInv, Serving, TypeOK
<1>2. raw >= req[conn].head /\ raw + up[conn] = sent[conn] /\ sent[conn] <= req[conn].head + req[conn].body
  BY <1>1, RequestFacts DEF IInv, StreamInv, TypeOK, HeadComplete
<1>3. take \in Nat /\ take <= req[conn].body /\ take = raw - req[conn].head
  BY SMTT(20), <1>1, <1>2 DEF Least
<1>4. /\ body' = [i \in 1 .. take |-> i] \/ (conn \in Unlucky /\ body' = << >>)
      /\ UNCHANGED <<owners, conn, raw, out, net, client, hist>> /\ srv' = "body"
  BY DEF ParseRequest
<1> HIDE DEF take, ParseRequest
<1>5. TypeOK'
  <2>1. body' \in Seq(Nat)
    <3>1. CASE body' = [i \in 1 .. take |-> i]
      BY <1>3, <3>1, Counting
    <3>2. CASE body' = << >>
      BY <3>2, EmptySeq
    <3> QED
      BY <1>4, <3>1, <3>2
  <2> QED
    BY <1>4, <2>1 DEF IInv, TypeOK, ServerPoints
<1>6. QueueInv'
  BY <1>4 DEF IInv, QueueInv
<1>7. LinkInv'
  BY <1>1, <1>4 DEF IInv, LinkInv, OneOpenConnection, Serving
<1>8. StreamInv'
  BY <1>1, <1>2, <1>4 DEF IInv, StreamInv
<1>9. BodyInv'
  <2> SUFFICES ASSUME conn \notin Unlucky
               PROVE  /\ Len(body') <= req[conn].body
                      /\ body' = [i \in 1 .. Len(body') |-> i]
                      /\ up[conn] + req[conn].head + Len(body') = sent[conn]
    BY <1>4 DEF BodyInv, net, client
  <2>1. body' = [i \in 1 .. take |-> i]
    BY <1>4
  <2>2. Len(body') = take
    BY <1>3, <2>1, Counting
  <2>3. body' = [i \in 1 .. Len(body') |-> i]
    BY <2>1, <2>2
  <2> QED
    BY <1>1, <1>2, <1>3, <2>2, <2>3
<1>10. AnswerInv'
  BY <1>1, <1>4 DEF IInv, AnswerInv, Unsent, Left, Serving
<1>11. StopInv'
  BY <1>1, <1>4 DEF IInv, StopInv, StopBound
<1>12. (HandlerSeesTheBody /\ AnswerArrives /\ ShortHeadsAreServed)'
  BY <1>4 DEF IInv, HandlerSeesTheBody, AnswerArrives, ShortHeadsAreServed, Left, FullBody
<1> QED
  BY <1>5, <1>6, <1>7, <1>8, <1>9, <1>10, <1>11, <1>12 DEF IInv

(* Consecutive units after consecutive ones                                *)
LEMMA CountingOn ==
  ASSUME NEW m \in Nat, NEW n \in Nat, NEW s, s = [i \in 1 .. m |-> i]
  PROVE  s \o [i \in 1 .. n |-> m + 1 + i - 1] = [i \in 1 .. m + n |-> i]
<1> DEFINE t == [i \in 1 .. n |-> m + 1 + i - 1]
           u == [i \in 1 .. m + n |-> i]
<1>1. s \in Seq(Nat) /\ Len(s) = m
  BY Counting
<1>2. t \in Seq(Nat) /\ Len(t) = n
  <2>1. \A i \in 1 .. n : m + 1 + i - 1 \in Nat
    OBVIOUS
  <2> QED
    BY <2>1, IsASeq
<1>3. u \in Seq(Nat) /\ Len(u) = m + n
  BY m + n \in Nat, Counting
<1>4. /\ s \o t \in Seq(Nat) /\ Len(s \o t) = m + n
      /\ \A i \in 1 .. m + n : (s \o t)[i] = IF i <= m THEN s[i] ELSE t[i - m]
  BY <1>1, <1>2, ConcatProperties
<1>5. \A i \in 1 .. m + n : (s \o t)[i] = u[i]
  <2> SUFFICES ASSUME NEW i \in 1 .. m + n PROVE (s \o t)[i] = i
    OBVIOUS
  <2>1. i <= m => s[i] = i
    OBVIOUS
  <2>2. ~(i <= m) => i - m \in 1 .. n /\ t[i - m] = i
    OBVIOUS
  <2> QED
    BY <1>4, <2>1, <2>2
<1> QED
  BY <1>3, <1>4, <1>5, SeqEqual

LEMMA ReceiveBodyStep ==
  ASSUME IInv, ReceiveBody
  PROVE  IInv'
<1>0. PICK n \in 1 .. Missing :
         /\ Receive(n)
         /\ \/ body' = body \o [i \in 1 .. n |-> Arriving + i - 1]
            \/ conn \in Unlucky /\ body' = body
  BY DEF ReceiveBody
<1> DEFINE more == [i \in 1 .. n |-> Arriving + i - 1]
<1>1. /\ srv = "body" /\ conn \in Clients /\ Len(body) \in Nat /\ n \in 1 .. up[conn]
      /\ req[conn].head \in Nat /\ req[conn].body \in Nat
      /\ up[conn] \in Nat /\ sent[conn] \in Nat /\ n \in Nat /\ n <= Missing
  BY <1>0, RequestFacts, LenProperties
  DEF ReceiveBody, Receive, IInv, LinkInv, Serving, TypeOK, Missing
<1>2. /\ up' = [up EXCEPT ![conn] = up[conn] - n] /\ up[conn] - n \in Nat
      /\ UNCHANGED <<owner, stopping, srv, conn, raw, out, backlog, link, down, torn, cli, req, sent, got, result,
                     status, seen, late, broken>>
  <2>1. UNCHANGED <<srv, raw>>
    BY DEF ReceiveBody
  <2> QED
    BY <1>0, <1>1, <2>1 DEF Receive, owners, client, hist
<1>3. body' \in Seq(Nat)
  <2>1. body \in Seq(Nat)
    BY DEF IInv, TypeOK
  <2>2. more \in Seq(Nat)
    <3>1. Arriving - 1 \in Nat
      BY <1>1 DEF Arriving, IInv, StreamInv
    <3>2. \A i \in 1 .. n : Arriving + i - 1 \in Nat
      BY <3>1, <1>1 DEF Arriving
    <3> QED
      BY <1>1, <3>2, IsASeq
  <2> QED
    <3>1. body \o more \in Seq(Nat)
      BY <2>1, <2>2, ConcatProperties
    <3>2. body' = body \o more \/ body' = body
      BY <1>0
    <3> QED
      BY <2>1, <3>1, <3>2
<1>4. TypeOK'
  BY <1>1, <1>2, <1>3 DEF IInv, TypeOK
<1>5. QueueInv'
  BY <1>2 DEF IInv, QueueInv
<1>6. LinkInv'
  BY <1>1, <1>2 DEF IInv, TypeOK, LinkInv, OneOpenConnection, Serving, Unserved
<1>7. StreamInv'
  BY <1>1, <1>2 DEF IInv, TypeOK, StreamInv
<1>8. BodyInv'
  <2> SUFFICES ASSUME conn \notin Unlucky
               PROVE  /\ Len(body') <= req[conn].body
                      /\ body' = [i \in 1 .. Len(body') |-> i]
                      /\ up'[conn] + req[conn].head + Len(body') = sent[conn]
    BY <1>1, <1>2 DEF BodyInv
  <2>1. /\ body = [i \in 1 .. Len(body) |-> i]
        /\ up[conn] + req[conn].head + Len(body) = sent[conn]
    BY <1>1 DEF IInv, BodyInv
  <2>2. Arriving = Len(body) + 1
    BY <1>1, <2>1 DEF Arriving
  <2>3. body' = [i \in 1 .. Len(body) + n |-> i]
    <3>1. body' = body \o [i \in 1 .. n |-> Len(body) + 1 + i - 1]
      BY <1>0, <2>2
    <3>2. Len(body) \in Nat /\ n \in Nat
      BY <1>1
    <3> QED
      BY ONLY <2>1, <3>1, <3>2, CountingOn
  <2>4. Len(body') = Len(body) + n
    BY <1>1, <2>3, Len(body) + n \in Nat, Counting
  <2>5. Len(body) + n <= req[conn].body
    BY <1>1 DEF Missing
  <2>6. up'[conn] = up[conn] - n
    BY <1>1, <1>2 DEF IInv, TypeOK
  <2>7. body' = [i \in 1 .. Len(body') |-> i]
    BY <2>3, <2>4
  <2>8. up'[conn] + req[conn].head + Len(body') = sent[conn]
    BY <1>1, <2>1, <2>4, <2>6
  <2> QED
    BY <2>4, <2>5, <2>7, <2>8
<1>9. AnswerInv'
  BY <1>1, <1>2 DEF IInv, TypeOK, AnswerInv, Unsent, Left
<1>10. StopInv'
  BY <1>2 DEF IInv, StopInv, StopBound
<1>11. (HandlerSeesTheBody /\ AnswerArrives /\ ShortHeadsAreServed)'
  BY <1>2 DEF IInv, HandlerSeesTheBody, AnswerArrives, ShortHeadsAreServed, Left, FullBody
<1> QED
  BY <1>4, <1>5, <1>6, <1>7, <1>8, <1>9, <1>10, <1>11 DEF IInv

-----------------------------------------------------------------------------
(* Answering                                                               *)

(* A client that stays, and whose connection has not failed, has sent all  *)
(* of what the handler saw, so nothing is on its way to the server any     *)
(* more.                                                                   *)
LEMMA HandlerHasIt ==
  ASSUME IInv, srv = "handler", conn \notin Unlucky
  PROVE  /\ \/ body = FullBody(conn)
            \/ (Left(conn) \/ conn \in broken) /\ body = SubSeq(FullBody(conn), 1, Len(body))
         /\ ~Left(conn) /\ conn \notin broken => cli[conn] = "receiving" /\ up[conn] = 0
<1> DEFINE n == Len(body)
<1>1. /\ conn \in Clients /\ req[conn].head \in Nat \ {0} /\ req[conn].body \in Nat
      /\ up[conn] \in Nat /\ sent[conn] \in Nat /\ n \in Nat
      /\ sent[conn] <= req[conn].head + req[conn].body
  BY RequestFacts, LenProperties DEF IInv, LinkInv, Serving, TypeOK, StreamInv
<1>2. /\ n <= req[conn].body /\ body = [i \in 1 .. n |-> i]
      /\ up[conn] + req[conn].head + n = sent[conn]
      /\ n = req[conn].body \/ Left(conn) \/ conn \in broken
  <2>1. Missing = 0 => n = req[conn].body
    BY <1>1 DEF Missing
  <2> QED
    BY <2>1 DEF IInv, BodyInv
<1> HIDE DEF n
<1>3. n = req[conn].body => body = FullBody(conn)
  BY <1>2 DEF FullBody
<1>4. body = SubSeq(FullBody(conn), 1, n)
  <2> DEFINE full == FullBody(conn)
  <2>1. \A i \in 1 .. n : full[i] = i
    BY <1>1, <1>2 DEF FullBody
  <2> HIDE DEF full
  <2>2. /\ SubSeq(full, 1, n) \in Seq(Nat)
        /\ Len(SubSeq(full, 1, n)) = n
        /\ \A i \in 1 .. n : SubSeq(full, 1, n)[i] = full[i]
    BY <1>1, <2>1, SubSeqProperties
  <2>3. body \in Seq(Nat) /\ Len(body) = n /\ \A i \in 1 .. n : body[i] = i
    BY <1>1, <1>2, Counting
  <2> QED
    BY <2>1, <2>2, <2>3, SeqEqual DEF full
<1>5. ~Left(conn) /\ conn \notin broken => cli[conn] = "receiving" /\ up[conn] = 0
  <2> SUFFICES ASSUME ~Left(conn), conn \notin broken
               PROVE  cli[conn] = "receiving" /\ up[conn] = 0
    OBVIOUS
  <2>1. up[conn] + req[conn].head + req[conn].body = sent[conn]
    BY <1>1, <1>2
  <2>2. up[conn] = 0 /\ sent[conn] = req[conn].head + req[conn].body
    BY <1>1, <2>1
  <2>3. link[conn] = "open"
    BY <1>1 DEF IInv, LinkInv, OneOpenConnection, Serving
  <2> QED
    BY <1>1, <2>2, <2>3, RequestFacts DEF IInv, LinkInv, StreamInv, TypeOK, ClientPoints, Left
<1> QED
  BY <1>2, <1>3, <1>4, <1>5 DEF n

LEMMA HandleStep ==
  ASSUME IInv, Handle
  PROVE  IInv'
<1>0. PICK s \in Written("200") : Answers(s)
  BY DEF Handle
<1>1. /\ conn \in Clients /\ srv = "handler" /\ srv' = "send"
      /\ s \in Statuses /\ (conn \notin Unlucky => s = "200")
      /\ seen' = [seen EXCEPT ![conn] = body] /\ status' = [status EXCEPT ![conn] = s]
      /\ out' = AnswerLength(s) /\ out' \in Nat
      /\ UNCHANGED <<owner, stopping, conn, raw, body, backlog, link, up, down, torn, cli, req, sent, got, result, late, broken>>
  <2>1. conn \in Clients /\ srv = "handler" /\ seen' = [seen EXCEPT ![conn] = body]
    BY DEF Handle, IInv, LinkInv, Serving
  <2>2. s \in Statuses /\ AnswerLength(s) \in Nat
    BY AnswerFacts DEF Written, Statuses
  <2> QED
    BY <1>0, <2>1, <2>2 DEF Answers, Written, owners, net, client
<1>2. TypeOK'
  BY <1>1 DEF IInv, TypeOK, ServerPoints
<1>3. QueueInv'
  BY <1>1 DEF IInv, QueueInv
<1>4. LinkInv'
  BY <1>1 DEF IInv, TypeOK, LinkInv, OneOpenConnection, Serving, Unserved
<1>5. StreamInv'
  BY <1>1 DEF IInv, StreamInv
<1>6. BodyInv'
  BY <1>1 DEF BodyInv
<1>7. conn \notin Unlucky \cup broken /\ ~Left(conn) => cli[conn] = "receiving" /\ up[conn] = 0 /\ conn \notin torn
  BY <1>1, HandlerHasIt DEF IInv, StreamInv
<1>8. AnswerInv'
  <2>1. \A c \in Clients \ {conn} : status'[c] = status[c] /\ seen'[c] = seen[c] /\ Unsent(c)' = Unsent(c)
    BY <1>1 DEF IInv, TypeOK, Unsent
  <2>2. status'[conn] = s /\ seen'[conn] = body
    BY <1>1 DEF IInv, TypeOK
  <2>3. /\ Unsent(conn) = 0 /\ Unsent(conn)' = AnswerLength(s) /\ AnswerLength(s) \in Nat
        /\ got[conn] \in Nat /\ down[conn] \in Nat /\ AnswerLength("none") = 0 /\ status[conn] = "none"
    BY <1>1, AnswerFacts DEF IInv, TypeOK, AnswerInv, StreamInv, Unsent, Serving
  <2>4. conn \notin Unlucky \cup broken /\ ~Left(conn) => got[conn] + down[conn] + Unsent(conn)' = AnswerLength(s)
    BY <1>1, <2>3 DEF IInv, AnswerInv
  <2> QED
    BY <1>1, <1>7, <2>1, <2>2, <2>4 DEF IInv, AnswerInv, Left
<1>9. StopInv'
  BY <1>1 DEF IInv, StopInv, StopBound
<1>10. HandlerSeesTheBody'
  BY <1>1, HandlerHasIt DEF IInv, TypeOK, HandlerSeesTheBody, Left, FullBody
<1>11. AnswerArrives'
  BY <1>1, <1>7 DEF IInv, TypeOK, LinkInv, OneOpenConnection, Serving, StreamInv, AnswerInv, AnswerArrives, Left
<1>12. ShortHeadsAreServed'
  BY <1>1 DEF IInv, TypeOK, LinkInv, OneOpenConnection, Serving, ShortHeadsAreServed
<1> QED
  BY <1>2, <1>3, <1>4, <1>5, <1>6, <1>8, <1>9, <1>10, <1>11, <1>12 DEF IInv

LEMMA Respond400Step ==
  ASSUME IInv, Respond400
  PROVE  IInv'
<1>0. PICK s \in Written("400") : Answers(s)
  BY DEF Respond400
<1>1. /\ conn \in Clients /\ srv = "respond" /\ srv' = "send"
      /\ s \in Statuses /\ (conn \notin Unlucky => s = "400")
      /\ status' = [status EXCEPT ![conn] = s]
      /\ out' = AnswerLength(s) /\ out' \in Nat
      /\ UNCHANGED <<owner, stopping, conn, raw, body, backlog, link, up, down, torn, cli, req, sent, got, result,
                     seen, late, broken>>
  <2>1. conn \in Clients /\ srv = "respond" /\ seen' = seen
    BY DEF Respond400, IInv, LinkInv, Serving
  <2>2. s \in Statuses /\ AnswerLength(s) \in Nat
    BY AnswerFacts DEF Written, Statuses
  <2> QED
    BY <1>0, <2>1, <2>2 DEF Answers, Written, owners, net, client
<1>2. TypeOK'
  BY <1>1 DEF IInv, TypeOK, ServerPoints
<1>3. QueueInv'
  BY <1>1 DEF IInv, QueueInv
<1>4. LinkInv'
  BY <1>1 DEF IInv, TypeOK, LinkInv, OneOpenConnection, Serving, Unserved
<1>5. StreamInv'
  BY <1>1 DEF IInv, StreamInv
<1>6. BodyInv'
  BY <1>1 DEF BodyInv
<1>7. AnswerInv'
  BY <1>1, AnswerFacts DEF IInv, TypeOK, StreamInv, AnswerInv, Unsent, Left, Serving
<1>8. StopInv'
  BY <1>1 DEF IInv, StopInv, StopBound
<1>9. (HandlerSeesTheBody /\ AnswerArrives)'
  BY <1>1 DEF IInv, HandlerSeesTheBody, AnswerArrives, Left, FullBody
<1>10. ShortHeadsAreServed'
  BY <1>1 DEF IInv, TypeOK, LinkInv, OneOpenConnection, Serving, ShortHeadsAreServed
<1> QED
  BY <1>2, <1>3, <1>4, <1>5, <1>6, <1>7, <1>8, <1>9, <1>10 DEF IInv

LEMMA SendStep ==
  ASSUME IInv, Send
  PROVE  IInv'
<1>0. PICK n \in 1 .. out : out' = out - n /\ down' = IF Left(conn) THEN down ELSE [down EXCEPT ![conn] = @ + n]
  BY DEF Send
<1>1. /\ conn \in Clients /\ srv = "send" /\ out \in Nat /\ n \in Nat /\ out' \in Nat /\ down[conn] + n \in Nat
      /\ UNCHANGED <<owner, stopping, srv, conn, raw, body, backlog, link, up, torn, cli, req, sent, got, result,
                     status, seen, late, broken>>
  <2>1. conn \in Clients /\ srv = "send" /\ out \in Nat /\ down[conn] \in Nat
    BY DEF Send, IInv, LinkInv, Serving, TypeOK
  <2>2. UNCHANGED <<owners, srv, conn, raw, body, backlog, link, up, torn, client, hist>>
    BY DEF Send
  <2> QED
    BY <1>0, <2>1, <2>2 DEF owners, client, hist
<1>2. TypeOK'
  BY <1>0, <1>1 DEF IInv, TypeOK
<1>3. QueueInv'
  BY <1>1 DEF IInv, QueueInv
<1>4. LinkInv'
  BY <1>1 DEF IInv, LinkInv, OneOpenConnection, Serving
<1>5. StreamInv'
  BY <1>1 DEF IInv, StreamInv
<1>6. BodyInv'
  BY <1>1 DEF BodyInv
<1>7. AnswerInv'
  <2>1. \A c \in Clients : ~Left(c) => got[c] + down'[c] + Unsent(c)' = got[c] + down[c] + Unsent(c)
    BY SMTT(30), <1>0, <1>1 DEF IInv, TypeOK, Unsent, Serving
  <2> QED
    BY <1>1, <2>1 DEF IInv, AnswerInv, Left
<1>8. StopInv'
  BY <1>1 DEF IInv, StopInv, StopBound
<1>9. (HandlerSeesTheBody /\ AnswerArrives /\ ShortHeadsAreServed)'
  BY <1>1 DEF IInv, HandlerSeesTheBody, AnswerArrives, ShortHeadsAreServed, Left, FullBody
<1> QED
  BY <1>2, <1>3, <1>4, <1>5, <1>6, <1>7, <1>8, <1>9 DEF IInv

LEMMA CloseStep ==
  ASSUME IInv, Close
  PROVE  IInv'
<1>1. /\ conn \in Clients /\ srv = "close" /\ srv' = "check" /\ conn' = None /\ out' = 0
      /\ link' = [link EXCEPT ![conn] = "closed"]
      /\ torn' = IF up[conn] > 0 THEN torn \cup {conn} ELSE torn
      /\ UNCHANGED <<owner, stopping, raw, body, backlog, up, down, cli, req, sent, got, result, status, seen, late, broken>>
  BY DEF Close, IInv, LinkInv, Serving, owners, client, hist
<1>2. TypeOK'
  BY <1>1 DEF IInv, TypeOK, ServerPoints, Links
<1>3. QueueInv'
  <2>1. link[conn] = "open"
    BY <1>1 DEF IInv, LinkInv, OneOpenConnection, Serving
  <2>2. \A i \in 1 .. Len(backlog) : backlog[i] \in Clients
    BY ElementOfSeq DEF IInv, TypeOK
  <2> QED
    BY <1>1, <2>1, <2>2 DEF IInv, TypeOK, QueueInv
<1>4. LinkInv'
  BY <1>1 DEF IInv, TypeOK, LinkInv, OneOpenConnection, Serving, Unserved
<1>5. StreamInv'
  BY <1>1 DEF IInv, StreamInv
<1>6. BodyInv'
  BY <1>1 DEF BodyInv
<1>7. \A c \in Clients \ (Unlucky \cup broken) : seen[c] # None /\ ~Left(c) => up[c] = 0
  BY DEF IInv, AnswerInv
<1>8. AnswerInv'
  BY <1>1, <1>7 DEF IInv, TypeOK, LinkInv, AnswerInv, Unsent, Left, Serving
<1>9. StopInv'
  BY <1>1 DEF IInv, StopInv, StopBound
<1>10. (HandlerSeesTheBody /\ AnswerArrives)'
  BY <1>1 DEF IInv, HandlerSeesTheBody, AnswerArrives, Left, FullBody
<1>11. ShortHeadsAreServed'
  BY <1>1 DEF IInv, TypeOK, AnswerInv, ShortHeadsAreServed
<1> QED
  BY <1>2, <1>3, <1>4, <1>5, <1>6, <1>8, <1>9, <1>10, <1>11 DEF IInv

-----------------------------------------------------------------------------
(* The client's calls                                                      *)

LEMMA ConnectStep ==
  ASSUME IInv, NEW c \in Clients, Connect(c)
  PROVE  IInv'
<1>1. /\ cli[c] = "start" /\ cli' = [cli EXCEPT ![c] = "sending"]
      /\ backlog' = Append(backlog, c) /\ link' = [link EXCEPT ![c] = "queued"]
      /\ UNCHANGED <<owner, stopping, srv, conn, raw, body, out, up, down, torn, req, sent, got, result,
                     status, seen, late, broken>>
  BY DEF Connect, owners, server, hist
<1>2. link[c] = "none" /\ ~(srv \in Serving /\ c = conn)
  BY <1>1 DEF IInv, LinkInv, OneOpenConnection
<1>3. /\ backlog' \in Seq(Clients) /\ Len(backlog) \in Nat /\ Len(backlog') = Len(backlog) + 1
      /\ \A i \in 1 .. Len(backlog) : backlog'[i] = backlog[i] /\ backlog[i] \in Clients
      /\ backlog'[Len(backlog')] = c
  BY <1>1, AppendProperties, ElementOfSeq, LenProperties DEF IInv, TypeOK
<1>4. TypeOK'
  BY <1>1, <1>3 DEF IInv, TypeOK, ClientPoints, Links
<1>5. QueueInv'
  <2>1. \A i \in 1 .. Len(backlog) : link[backlog[i]] = "queued" /\ backlog[i] # c
    BY <1>2 DEF IInv, QueueInv
  <2>2. \A i \in 1 .. Len(backlog') : i \in 1 .. Len(backlog) \/ i = Len(backlog')
    BY <1>3
  <2>3. \A i \in 1 .. Len(backlog') : link'[backlog'[i]] = "queued"
    BY <1>1, <1>3, <2>1, <2>2 DEF IInv, TypeOK
  <2>4. \A i, j \in 1 .. Len(backlog') : i # j => backlog'[i] # backlog'[j]
    BY <1>3, <2>1, <2>2 DEF IInv, QueueInv
  <2> QED
    BY <2>3, <2>4 DEF QueueInv
<1>6. LinkInv'
  BY <1>1, <1>2 DEF IInv, TypeOK, LinkInv, OneOpenConnection, Serving, Unserved
<1>7. StreamInv'
  <2>1. sent[c] = 0 /\ Length(req[c]) # 0
    BY <1>1, RequestFacts DEF IInv, TypeOK, StreamInv
  <2> QED
    BY <1>1, <2>1 DEF IInv, TypeOK, StreamInv, HeadComplete
<1>8. BodyInv'
  BY SMTT(20), <1>1 DEF IInv, TypeOK, BodyInv, Missing, Left
<1>9. AnswerInv'
  BY SMTT(30), <1>1, <1>2 DEF IInv, TypeOK, LinkInv, Unserved, AnswerInv, Unsent, Left
<1>10. StopInv'
  BY <1>1 DEF IInv, StopInv, StopBound
<1>11. (HandlerSeesTheBody /\ AnswerArrives /\ ShortHeadsAreServed)'
  BY <1>1 DEF IInv, TypeOK, HandlerSeesTheBody, AnswerArrives, ShortHeadsAreServed, Left, FullBody
<1> QED
  BY <1>4, <1>5, <1>6, <1>7, <1>8, <1>9, <1>10, <1>11 DEF IInv

(* A call returns that got no connection, no answer, or the whole answer.  *)
LEMMA ReturnsFrame ==
  ASSUME IInv, NEW c \in Clients, NEW r \in {"ok", "failed"}, Returns(c, r),
         c \notin Unlucky \cup broken =>
           /\ link[c] \in {"none", "closed", "reset"} \/ status[c] # "none"
           /\ seen[c] # None => r = "ok" /\ got[c] = AnswerLength("200")
           /\ link[c] = "closed" /\ req[c].head <= MaxHead => status[c] # "none"
  PROVE  IInv'
<1>1. /\ cli' = [cli EXCEPT ![c] = "done"] /\ result' = [result EXCEPT ![c] = r]
      /\ UNCHANGED <<owner, stopping, srv, conn, raw, body, out, backlog, link, up, down, torn, req, sent, got,
                     status, seen, late, broken>>
  BY DEF Returns, owners, server, net, hist
<1>2. TypeOK'
  BY <1>1 DEF IInv, TypeOK, ClientPoints
<1>3. QueueInv'
  BY <1>1 DEF IInv, QueueInv
<1>4. LinkInv'
  BY <1>1 DEF IInv, TypeOK, LinkInv, OneOpenConnection
<1>5. StreamInv'
  BY <1>1 DEF IInv, TypeOK, StreamInv, HeadComplete
<1>6. BodyInv'
  BY <1>1 DEF IInv, TypeOK, BodyInv, Missing, Left
<1>7. AnswerInv'
  <2>1. srv = "close" /\ c = conn => link[c] = "open"
    BY DEF IInv, LinkInv, OneOpenConnection, Serving
  <2> QED
    <3>1. \A d \in Clients \ {c} : cli'[d] = cli[d]
      BY <1>1 DEF IInv, TypeOK
    <3>2. cli'[c] = "done" /\ \A d \in Clients : Left(d) => Left(d)'
      BY <1>1, <3>1 DEF IInv, TypeOK, Left
    <3>3. \A d \in Clients : Unsent(d)' = Unsent(d)
      BY <1>1 DEF Unsent
    <3> SUFFICES ASSUME NEW d \in Clients \ (Unlucky \cup broken)
                 PROVE  /\ status'[d] \in {"none", "200", "400"}
                        /\ ~Left(d)' => got'[d] + down'[d] + Unsent(d)' = AnswerLength(status'[d])
                        /\ srv' = "close" /\ d = conn' => out' = 0 \/ Left(d)'
                        /\ srv' = "send" /\ d = conn' => status'[d] # "none"
                        /\ cli'[d] = "done" /\ link'[d] \in {"queued", "open"} => status'[d] # "none"
                        /\ seen'[d] # None => status'[d] = "200"
                        /\ seen'[d] # None /\ ~Left(d)' => cli'[d] = "receiving" /\ up'[d] = 0 /\ d \notin torn'
                        /\ (link'[d] = "closed" \/ (srv' = "close" /\ d = conn')) /\ req'[d].head <= MaxHead
                             => status'[d] # "none" \/ cli'[d] = "gone"
      BY <1>1 DEF IInv, AnswerInv
    <3>4. CASE d = c
      BY <1>1, <2>1, <3>2, <3>4 DEF IInv, AnswerInv, Left
    <3>5. CASE d # c
      <4>1. (Left(d)' <=> Left(d)) /\ cli'[d] = cli[d]
        BY <3>1, <3>5 DEF Left
      <4> QED
        BY <1>1, <3>3, <4>1 DEF IInv, AnswerInv
    <3> QED
      BY ONLY <3>4, <3>5
<1>8. StopInv'
  BY <1>1 DEF IInv, StopInv, StopBound
<1>9. HandlerSeesTheBody'
  BY <1>1 DEF IInv, TypeOK, HandlerSeesTheBody, Left, FullBody
<1>10. AnswerArrives'
  BY <1>1 DEF IInv, TypeOK, AnswerArrives
<1>11. ShortHeadsAreServed'
  BY <1>1 DEF IInv, TypeOK, ShortHeadsAreServed
<1> QED
  BY <1>2, <1>3, <1>4, <1>5, <1>6, <1>7, <1>8, <1>9, <1>10, <1>11 DEF IInv

LEMMA ConnectFailsStep ==
  ASSUME IInv, NEW c \in Clients, ConnectFails(c)
  PROVE  IInv'
<1>1. link[c] = "none" /\ seen[c] = None
  BY DEF ConnectFails, IInv, LinkInv, Unserved
<1> QED
  BY <1>1, ReturnsFrame DEF ConnectFails

LEMMA ClientSendStep ==
  ASSUME IInv, NEW c \in Clients, ClientSend(c)
  PROVE  IInv'
<1>0. PICK n \in 1 .. Length(req[c]) - sent[c] :
         sent' = [sent EXCEPT ![c] = @ + n] /\ up' = [up EXCEPT ![c] = @ + n]
  BY DEF ClientSend
<1>1. /\ cli[c] = "sending" /\ link[c] \in {"queued", "open"}
      /\ cli' = [cli EXCEPT ![c] = IF sent'[c] = Length(req[c]) THEN "receiving" ELSE "sending"]
      /\ UNCHANGED <<owner, stopping, srv, conn, raw, body, out, backlog, link, down, torn, req, got, result,
                     status, seen, late, broken>>
  BY DEF ClientSend, owners, server, hist
<1>2. /\ n \in Nat /\ sent[c] \in Nat /\ up[c] \in Nat /\ Length(req[c]) \in Nat
      /\ sent[c] + n <= Length(req[c])
      /\ sent' = [sent EXCEPT ![c] = sent[c] + n] /\ up' = [up EXCEPT ![c] = up[c] + n]
      /\ sent[c] + n \in Nat /\ up[c] + n \in Nat
  <2>1. req[c] \in Requests /\ sent[c] \in Nat /\ up[c] \in Nat
    BY DEF IInv, TypeOK
  <2>2. Length(req[c]) \in Nat
    BY <2>1, RequestFacts
  <2> QED
    BY <1>0, <2>1, <2>2
<1>3. /\ sent'[c] = sent[c] + n /\ up'[c] = up[c] + n
      /\ \A d \in Clients \ {c} : sent'[d] = sent[d] /\ up'[d] = up[d] /\ cli'[d] = cli[d]
      /\ cli'[c] = IF sent'[c] = Length(req[c]) THEN "receiving" ELSE "sending"
  BY <1>1, <1>2 DEF IInv, TypeOK
<1>4. TypeOK'
  <2>1. cli' \in [Clients -> ClientPoints]
    BY <1>1 DEF IInv, TypeOK, ClientPoints
  <2> QED
    BY <1>1, <1>2, <2>1 DEF IInv, TypeOK
<1>5. QueueInv'
  BY <1>1 DEF IInv, QueueInv
<1>6. LinkInv'
  <2>1. OneOpenConnection' /\ (srv' \in Serving => conn' \in Clients)
    BY <1>1 DEF IInv, LinkInv, OneOpenConnection
  <2>2. ASSUME NEW d \in Clients
        PROVE  /\ cli'[d] = "start" => link'[d] = "none"
               /\ link'[d] \in Unserved => status'[d] = "none" /\ seen'[d] = None /\ d \notin torn'
               /\ link'[d] \in {"none", "queued"} => up'[d] = sent'[d]
    <3>1. CASE d = c
      <4>1. link[c] \in {"none", "queued"} => up'[c] = sent'[c]
        BY <1>3 DEF IInv, LinkInv
      <4> QED
        BY <1>1, <1>3, <3>1, <4>1 DEF IInv, LinkInv
    <3>2. CASE d # c
      BY <1>1, <1>3, <3>2 DEF IInv, LinkInv
    <3> QED
      BY <3>1, <3>2
  <2> QED
    BY <2>1, <2>2 DEF LinkInv
<1>7. StreamInv'
  <2>1. \A d \in Clients : up[d] \in Nat /\ sent[d] \in Nat
    BY DEF IInv, TypeOK
  <2>2. srv \in {"head", "parse", "body"} => conn \in Clients /\ req[conn].head \in Nat /\ raw \in Nat
    BY RequestFacts DEF IInv, TypeOK, LinkInv, Serving
  <2>3. \A d \in Clients :
          /\ up'[d] <= sent'[d] /\ sent'[d] <= Length(req[d])
          /\ cli'[d] = "start" => sent'[d] = 0
          /\ cli'[d] = "sending" => sent'[d] # Length(req[d])
          /\ cli'[d] = "receiving" => sent'[d] = Length(req[d])
    <3> SUFFICES ASSUME NEW d \in Clients
                 PROVE  /\ up'[d] <= sent'[d] /\ sent'[d] <= Length(req[d])
                        /\ cli'[d] = "start" => sent'[d] = 0
                        /\ cli'[d] = "sending" => sent'[d] # Length(req[d])
                        /\ cli'[d] = "receiving" => sent'[d] = Length(req[d])
      OBVIOUS
    <3>1. CASE d = c
      <4>1. up[c] <= sent[c]
        BY DEF IInv, StreamInv
      <4>2. up'[c] <= sent'[c] /\ sent'[c] <= Length(req[c])
        BY <1>2, <1>3, <4>1
      <4>3. cli'[c] = IF sent'[c] = Length(req[c]) THEN "receiving" ELSE "sending"
        BY <1>3
      <4> QED
        BY <3>1, <4>2, <4>3
    <3>2. CASE d # c
      BY <1>3, <3>2 DEF IInv, StreamInv
    <3> QED
      BY <3>1, <3>2
  <2>4. /\ srv \in {"head", "parse"} => raw + up'[conn] = sent'[conn]
        /\ srv = "body" => up'[conn] + req[conn].head <= sent'[conn]
    BY <1>2, <1>3, <2>1, <2>2 DEF IInv, StreamInv
  <2> QED
    BY <1>1, <2>3, <2>4 DEF IInv, StreamInv, HeadComplete
<1>8. BodyInv'
  <2>1. srv \in {"body", "handler"} => conn \in Clients /\ req[conn].head \in Nat /\ Len(body) \in Nat
    BY RequestFacts, LenProperties DEF IInv, TypeOK, LinkInv, Serving
  <2>2. Left(conn) => Left(conn)'
    BY <1>1 DEF IInv, TypeOK, Left
  <2>3. srv \in {"body", "handler"} => up[conn] \in Nat /\ sent[conn] \in Nat
    BY <2>1 DEF IInv, TypeOK
  <2>4. ASSUME conn \notin Unlucky, srv \in {"body", "handler"}
        PROVE  up'[conn] + req[conn].head + Len(body) = sent'[conn]
    <3>1. up[conn] + req[conn].head + Len(body) = sent[conn]
      BY <2>4 DEF IInv, BodyInv
    <3> QED
      <4>1. conn \in Clients /\ req[conn].head \in Nat /\ Len(body) \in Nat
            /\ up[conn] \in Nat /\ sent[conn] \in Nat
        BY <2>1, <2>3, <2>4
      <4>2. \/ up'[conn] = up[conn] /\ sent'[conn] = sent[conn]
            \/ up'[conn] = up[conn] + n /\ sent'[conn] = sent[conn] + n
        BY <1>3, <4>1
      <4> QED
        BY <1>2, <3>1, <4>1, <4>2
  <2>5. Missing' = Missing
    BY <1>1 DEF Missing
  <2> QED
    BY <1>1, <2>2, <2>4, <2>5 DEF IInv, BodyInv
<1>9. AnswerInv'
  <2>1. \A d \in Clients : Left(d)' <=> Left(d)
    BY <1>1, <1>3 DEF Left
  <2>2. seen[c] # None => c \in Unlucky \cup broken
    BY <1>1 DEF IInv, AnswerInv, Left
  <2> QED
    BY <1>1, <1>3, <2>1, <2>2 DEF IInv, AnswerInv, Unsent, Left
<1>10. StopInv'
  BY <1>1 DEF IInv, StopInv, StopBound
<1>11. (HandlerSeesTheBody /\ AnswerArrives /\ ShortHeadsAreServed)'
  BY <1>1 DEF IInv, TypeOK, HandlerSeesTheBody, AnswerArrives, ShortHeadsAreServed, Left, FullBody
<1> QED
  BY <1>4, <1>5, <1>6, <1>7, <1>8, <1>9, <1>10, <1>11 DEF IInv

LEMMA ClientSendFailsStep ==
  ASSUME IInv, NEW c \in Clients, ClientSendFails(c)
  PROVE  IInv'
<1>1. c \notin Unlucky \cup broken =>
        /\ link[c] \in {"closed", "reset"} /\ seen[c] = None
        /\ link[c] = "closed" /\ req[c].head <= MaxHead => status[c] # "none"
  BY DEF ClientSendFails, IInv, AnswerInv, Left
<1>2. Returns(c, "failed")
  BY DEF ClientSendFails
<1> QED
  BY <1>1, <1>2, ReturnsFrame

LEMMA ClientReceiveStep ==
  ASSUME IInv, NEW c \in Clients, ClientReceive(c)
  PROVE  IInv'
<1>0. PICK n \in 1 .. down[c] :
         /\ down' = [down EXCEPT ![c] = @ - n]
         /\ \/ got' = [got EXCEPT ![c] = @ + n]
            \/ c \in Unlucky /\ got[c] > 0 /\ UNCHANGED got
  BY DEF ClientReceive
<1>1. /\ cli[c] = "receiving" /\ n \in Nat /\ down[c] \in Nat /\ got[c] \in Nat /\ down[c] - n \in Nat
      /\ UNCHANGED <<owner, stopping, srv, conn, raw, body, out, backlog, link, up, torn, cli, req, sent, result,
                     status, seen, late, broken>>
  <2>1. cli[c] = "receiving" /\ UNCHANGED <<owners, server, backlog, link, up, torn, cli, req, sent, result, hist>>
    BY DEF ClientReceive
  <2>2. n \in Nat /\ down[c] \in Nat /\ got[c] \in Nat /\ down[c] - n \in Nat
    BY <1>0 DEF IInv, TypeOK
  <2> QED
    BY <2>1, <2>2 DEF owners, server, hist
<1>2. TypeOK'
  <2>1. down' \in [Clients -> Nat]
    BY <1>0, <1>1 DEF IInv, TypeOK
  <2>2. got[c] + n \in Nat
    BY <1>1
  <2>3. got' \in [Clients -> Nat]
    BY <1>0, <2>2 DEF IInv, TypeOK
  <2> QED
    BY <1>1, <2>1, <2>3 DEF IInv, TypeOK
<1>3. QueueInv'
  BY <1>1 DEF IInv, QueueInv
<1>4. LinkInv'
  BY <1>1 DEF IInv, LinkInv, OneOpenConnection
<1>5. StreamInv'
  BY <1>1 DEF IInv, StreamInv, HeadComplete
<1>6. BodyInv'
  BY <1>1 DEF IInv, BodyInv, Missing, Left
<1>7. AnswerInv'
  <2>1. \A d \in Clients \ Unlucky : got'[d] + down'[d] + Unsent(d)' = got[d] + down[d] + Unsent(d)
    <3> SUFFICES ASSUME NEW d \in Clients \ Unlucky
                 PROVE  got'[d] + down'[d] + Unsent(d)' = got[d] + down[d] + Unsent(d)
      OBVIOUS
    <3>1. got[d] \in Nat /\ down[d] \in Nat /\ Unsent(d)' = Unsent(d) /\ Unsent(d) \in Nat
      BY <1>1 DEF IInv, TypeOK, Unsent
    <3>2. CASE d = c
      <4>1. got'[c] = got[c] + n /\ down'[c] = down[c] - n
        BY <1>0, <3>2 DEF IInv, TypeOK
      <4> QED
        BY <1>1, <3>1, <3>2, <4>1
    <3>3. CASE d # c
      <4>1. got'[d] = got[d] /\ down'[d] = down[d]
        BY <1>0, <3>3 DEF IInv, TypeOK
      <4> QED
        BY <3>1, <4>1
    <3> QED
      BY <3>2, <3>3
  <2> QED
    BY <1>1, <2>1 DEF IInv, AnswerInv, Left
<1>8. StopInv'
  BY <1>1 DEF IInv, StopInv, StopBound
<1>9. HandlerSeesTheBody' /\ ShortHeadsAreServed'
  BY <1>1 DEF IInv, HandlerSeesTheBody, ShortHeadsAreServed, Left, FullBody
<1>10. AnswerArrives'
  <2>1. \A d \in Clients \ {c} : got'[d] = got[d]
    BY <1>0 DEF IInv, TypeOK
  <2>2. cli[c] # "done"
    BY <1>1
  <2> QED
    BY <1>1, <2>1, <2>2 DEF IInv, AnswerArrives
<1> QED
  BY <1>2, <1>3, <1>4, <1>5, <1>6, <1>7, <1>8, <1>9, <1>10 DEF IInv

(* What a client that stayed has and has not, of the answer to what the    *)
(* handler saw.                                                            *)
LEMMA WholeAnswer ==
  ASSUME IInv, NEW c \in Clients \ (Unlucky \cup broken), cli[c] = "receiving", seen[c] # None
  PROVE  /\ status[c] = "200" /\ c \notin torn /\ got[c] \in Nat /\ down[c] \in Nat
         /\ AnswerLength("200") \in Nat /\ got[c] <= AnswerLength("200")
         /\ link[c] \notin Unserved
         /\ link[c] = "closed" /\ down[c] = 0 => got[c] = AnswerLength("200")
<1>1. /\ got[c] \in Nat /\ down[c] \in Nat /\ out \in Nat /\ AnswerLength("200") \in Nat
      /\ Unsent(c) \in Nat
  BY SMTT(30), AnswerFacts DEF IInv, TypeOK, Unsent
<1>2. /\ got[c] + down[c] + Unsent(c) = AnswerLength(status[c])
      /\ status[c] = "200" /\ c \notin torn /\ link[c] \notin Unserved
  BY DEF IInv, AnswerInv, LinkInv, Left
<1>3. link[c] = "closed" => Unsent(c) = 0
  BY DEF IInv, LinkInv, OneOpenConnection, Unsent
<1> QED
  BY <1>1, <1>2, <1>3

LEMMA ClientEndsStep ==
  ASSUME IInv, NEW c \in Clients, ClientComplete(c) \/ ClientEnd(c) \/ ClientOutOfMemory(c)
  PROVE  IInv'
<1>1. CASE ClientComplete(c)
  <2>1. cli[c] = "receiving" /\ status[c] # "none" /\ got[c] >= AnswerLength(status[c])
    BY <1>1 DEF ClientComplete, Complete
  <2>2. c \notin Unlucky \cup broken => status[c] # "damaged"
    BY DEF IInv, AnswerInv
  <2>3. c \notin Unlucky \cup broken /\ seen[c] # None => got[c] = AnswerLength("200")
    BY <2>1, WholeAnswer
  <2>4. c \notin Unlucky \cup broken => Returns(c, "ok")
    BY <1>1, <2>2 DEF ClientComplete
  <2>5. Returns(c, "ok") \/ Returns(c, "failed")
    BY <1>1 DEF ClientComplete
  <2>6. CASE c \in Unlucky \cup broken
    BY <2>5, <2>6, ReturnsFrame
  <2>7. CASE c \notin Unlucky \cup broken
    BY <2>1, <2>3, <2>4, <2>7, ReturnsFrame
  <2> QED
    BY <2>6, <2>7
<1>2. CASE ClientEnd(c)
  <2>1. /\ cli[c] = "receiving" /\ ~Complete(c)
        /\ link[c] \in {"closed", "reset"} /\ (down[c] = 0 \/ c \in torn)
        /\ Returns(c, "ok") \/ Returns(c, "failed")
    BY <1>2 DEF ClientEnd
  <2>2. c \notin Unlucky \cup broken => seen[c] = None
    BY <2>1, WholeAnswer DEF Complete, Unserved
  <2>3. c \notin Unlucky \cup broken /\ link[c] = "closed" /\ req[c].head <= MaxHead => status[c] # "none"
    BY <2>1 DEF IInv, AnswerInv
  <2> QED
    BY <2>1, <2>2, <2>3, ReturnsFrame
<1>3. CASE ClientOutOfMemory(c)
  BY <1>3, ReturnsFrame DEF ClientOutOfMemory
<1> QED
  BY <1>1, <1>2, <1>3

-----------------------------------------------------------------------------
(* The world outside                                                       *)

LEMMA ClientDiesStep ==
  ASSUME IInv, NEW c \in Clients, ClientDies(c)
  PROVE  IInv'
<1>1. /\ cli[c] \in {"sending", "receiving"} /\ cli' = [cli EXCEPT ![c] = "gone"]
      /\ UNCHANGED <<owner, stopping, srv, conn, raw, body, out, backlog, link, up, down, torn, req, sent, got, result,
                     status, seen, late, broken>>
  BY DEF ClientDies, owners, server, net, hist
<1>2. TypeOK'
  BY <1>1 DEF IInv, TypeOK, ClientPoints
<1>3. QueueInv'
  BY <1>1 DEF IInv, QueueInv
<1>4. LinkInv'
  BY <1>1 DEF IInv, TypeOK, LinkInv, OneOpenConnection
<1>5. StreamInv'
  BY <1>1 DEF IInv, TypeOK, StreamInv, HeadComplete
<1>6. BodyInv'
  BY <1>1 DEF IInv, TypeOK, BodyInv, Missing, Left
<1>7. AnswerInv'
  BY <1>1 DEF IInv, TypeOK, AnswerInv, Unsent, Left
<1>8. StopInv'
  BY <1>1 DEF IInv, StopInv, StopBound
<1>9. (HandlerSeesTheBody /\ AnswerArrives /\ ShortHeadsAreServed)'
  BY <1>1 DEF IInv, TypeOK, HandlerSeesTheBody, AnswerArrives, ShortHeadsAreServed, Left, FullBody
<1> QED
  BY <1>2, <1>3, <1>4, <1>5, <1>6, <1>7, <1>8, <1>9 DEF IInv

(* Connections that nobody serves are reset: all of the queue, or one.     *)
LEMMA ResetFrame ==
  ASSUME IInv, NEW R \in SUBSET Clients, \A c \in R : link[c] = "queued",
         link' = [c \in Clients |-> IF c \in R THEN "reset" ELSE link[c]],
         backlog' \in Seq(Clients), QueueInv',
         owner' \in {owner, "destroyed"},
         UNCHANGED <<stopping, server, up, down, torn, client, hist>>
  PROVE  IInv'
<1> USE DEF server, client, hist
<1>1. TypeOK'
  BY DEF IInv, TypeOK, Links
<1>2. LinkInv'
  BY DEF IInv, LinkInv, OneOpenConnection, Unserved
<1>3. StreamInv'
  BY DEF IInv, StreamInv, HeadComplete
<1>4. BodyInv'
  BY DEF IInv, BodyInv, Missing, Left
<1>5. AnswerInv'
  BY DEF IInv, AnswerInv, Unsent, Left
<1>6. StopInv'
  BY DEF IInv, StopInv, StopBound
<1>7. (HandlerSeesTheBody /\ AnswerArrives /\ ShortHeadsAreServed)'
  BY DEF IInv, HandlerSeesTheBody, AnswerArrives, ShortHeadsAreServed, Left, FullBody
<1> QED
  BY <1>1, <1>2, <1>3, <1>4, <1>5, <1>6, <1>7 DEF IInv

LEMMA DestroyStep ==
  ASSUME IInv, Destroy
  PROVE  IInv'
<1> DEFINE R == {c \in Clients : link[c] = "queued"}
<1>1. /\ link' = [c \in Clients |-> IF c \in R THEN "reset" ELSE link[c]]
      /\ backlog' = << >> /\ owner' = "destroyed"
      /\ UNCHANGED <<stopping, server, up, down, torn, client, hist>>
  BY DEF Destroy
<1>2. backlog' \in Seq(Clients) /\ QueueInv'
  BY <1>1, EmptySeq DEF QueueInv
<1>3. R \in SUBSET Clients /\ \A c \in R : link[c] = "queued"
  OBVIOUS
<1> HIDE DEF R
<1> QED
  BY <1>1, <1>2, <1>3, ResetFrame

LEMMA UnqueueStep ==
  ASSUME IInv, NEW c \in Clients, Unqueue(c)
  PROVE  IInv'
<1>1. PICK k \in DOMAIN backlog : backlog[k] = c /\ backlog' = RemoveAt(backlog, k)
  BY DEF Unqueue
<1> DEFINE s == SubSeq(backlog, 1, k - 1)
           t == SubSeq(backlog, k + 1, Len(backlog))
           n == Len(backlog)
<1>2. /\ link[c] = "queued" /\ link' = [link EXCEPT ![c] = "reset"]
      /\ UNCHANGED <<owners, server, up, down, torn, client, hist>>
  BY DEF Unqueue
<1>3. /\ n \in Nat /\ k \in 1 .. n /\ backlog' = s \o t
      /\ \A i \in 1 .. n : backlog[i] \in Clients
  BY <1>1, LenProperties, ElementOfSeq DEF IInv, TypeOK, RemoveAt
<1>4. /\ s \in Seq(Clients) /\ Len(s) = k - 1
      /\ \A i \in 1 .. k - 1 : s[i] = backlog[i]
  <2> HIDE DEF n
  <2>1. k - 1 \in Int /\ 1 \in Int /\ \A i \in 1 .. k - 1 : backlog[i] \in Clients
    BY <1>3
  <2> QED
    BY <1>3, <2>1, SubSeqProperties
<1>5. /\ t \in Seq(Clients) /\ Len(t) = n - k
      /\ \A i \in 1 .. n - k : t[i] = backlog[k + i]
  <2>1. k + 1 \in Int /\ n \in Int /\ \A i \in k + 1 .. n : backlog[i] \in Clients
    BY <1>3
  <2> QED
    BY <1>3, <2>1, SubSeqProperties
<1> HIDE DEF s, t, n
<1>6. /\ backlog' \in Seq(Clients) /\ Len(backlog') = n - 1
      /\ \A i \in 1 .. n - 1 : backlog'[i] = backlog[IF i < k THEN i ELSE i + 1]
  <2>1. /\ s \o t \in Seq(Clients) /\ Len(s \o t) = n - 1
        /\ \A i \in 1 .. n - 1 : (s \o t)[i] = IF i <= k - 1 THEN s[i] ELSE t[i - (k - 1)]
    BY SMTT(20), <1>3, <1>4, <1>5, ConcatProperties
  <2>2. \A i \in 1 .. n - 1 : IF i < k THEN i <= k - 1 /\ i \in 1 .. k - 1
                              ELSE ~(i <= k - 1) /\ i - (k - 1) \in 1 .. n - k /\ k + (i - (k - 1)) = i + 1
    BY <1>3
  <2> QED
    BY <1>3, <1>4, <1>5, <2>1, <2>2
<1>7. QueueInv'
  <2> DEFINE old(i) == IF i < k THEN i ELSE i + 1
  <2>1. \A i \in 1 .. n - 1 : old(i) \in 1 .. n /\ old(i) # k /\ backlog'[i] = backlog[old(i)]
    BY <1>3, <1>6
  <2>2. \A i, j \in 1 .. n - 1 : i # j => old(i) # old(j)
    BY <1>3
  <2> HIDE DEF old
  <2>3. \A i \in 1 .. n - 1 : link'[backlog'[i]] = "queued"
    <3> SUFFICES ASSUME NEW i \in 1 .. n - 1
                 PROVE  link'[backlog'[i]] = "queued"
      OBVIOUS
    <3>1. link[backlog'[i]] = "queued" /\ backlog'[i] # c /\ backlog'[i] \in Clients
      <4>1. old(i) \in 1 .. Len(backlog) /\ old(i) # k /\ backlog'[i] = backlog[old(i)]
        BY <2>1 DEF n
      <4>2. /\ \A j \in 1 .. Len(backlog) : link[backlog[j]] = "queued"
            /\ \A j, m \in 1 .. Len(backlog) : j # m => backlog[j] # backlog[m]
        BY DEF IInv, QueueInv
      <4>3. k \in 1 .. Len(backlog) /\ backlog[k] = c
        BY <1>1, <1>3 DEF n
      <4> QED
        BY <1>3, <4>1, <4>2, <4>3 DEF n
    <3> QED
      BY <1>2, <3>1 DEF IInv, TypeOK
  <2>4. \A i, j \in 1 .. n - 1 : i # j => backlog'[i] # backlog'[j]
    BY <2>1, <2>2 DEF IInv, QueueInv, n
  <2> QED
    BY <1>6, <2>3, <2>4 DEF QueueInv
<1>8. link' = [d \in Clients |-> IF d \in {c} THEN "reset" ELSE link[d]]
  BY <1>2 DEF IInv, TypeOK
<1> QED
  BY <1>2, <1>6, <1>7, <1>8, ResetFrame DEF owners

-----------------------------------------------------------------------------
(* Socket calls that fail                                                  *)

(* An error on the server's side: the connection served is one of those    *)
(* that have failed from then on.                                          *)
LEMMA ServerErrorStep ==
  ASSUME IInv, ServerError
  PROVE  IInv'
<1>1. /\ \/ srv = "head" /\ srv' = "close"
         \/ srv = "body" /\ srv' = "handler"
         \/ srv = "send" /\ srv' = "close"
      /\ broken' = broken \cup {conn} /\ conn \in Clients
      /\ UNCHANGED <<owner, stopping, conn, raw, body, out, backlog, link, up, down, torn, cli, req, sent, got, result,
                     status, seen, late>>
  BY DEF ServerError, HeadError, BodyError, SendError, Breaks, IInv, LinkInv, Serving, owners, net, client
<1>2. TypeOK'
  BY <1>1 DEF IInv, TypeOK, ServerPoints
<1>3. QueueInv'
  BY <1>1 DEF IInv, QueueInv
<1>4. LinkInv'
  BY <1>1 DEF IInv, LinkInv, OneOpenConnection, Serving
<1>5. StreamInv'
  BY <1>1 DEF IInv, StreamInv
<1>6. BodyInv'
  BY <1>1 DEF IInv, BodyInv
<1>7. AnswerInv'
  <2>1. \A c \in Clients \ (Unlucky \cup broken') : c \in Clients \ (Unlucky \cup broken) /\ c # conn
    BY <1>1
  <2>2. \A c \in Clients : c # conn => Unsent(c)' = Unsent(c)
    BY <1>1 DEF Unsent
  <2> QED
    BY <1>1, <2>1, <2>2 DEF IInv, AnswerInv, Left
<1>8. StopInv'
  BY <1>1 DEF IInv, StopInv, StopBound
<1>9. (HandlerSeesTheBody /\ AnswerArrives /\ ShortHeadsAreServed)'
  BY <1>1 DEF IInv, HandlerSeesTheBody, AnswerArrives, ShortHeadsAreServed, Left, FullBody
<1> QED
  BY <1>2, <1>3, <1>4, <1>5, <1>6, <1>7, <1>8, <1>9 DEF IInv

(* An error on a client's side: its call returns.                          *)
LEMMA ClientErrorStep ==
  ASSUME IInv, NEW c \in Clients, ClientError(c)
  PROVE  IInv'
<1>1. /\ cli[c] \in {"sending", "receiving"} /\ cli' = [cli EXCEPT ![c] = "done"]
      /\ \E r \in {"ok", "failed"} : result' = [result EXCEPT ![c] = r]
      /\ broken' = broken \cup {c}
      /\ UNCHANGED <<owner, stopping, srv, conn, raw, body, out, backlog, link, up, down, torn, req, sent, got,
                     status, seen, late>>
  BY DEF ClientError, ClientSendError, ClientReceiveError, ClientBreaks, owners, server, net
<1>2. TypeOK'
  BY <1>1 DEF IInv, TypeOK, ClientPoints
<1>3. QueueInv'
  BY <1>1 DEF IInv, QueueInv
<1>4. LinkInv'
  BY <1>1 DEF IInv, TypeOK, LinkInv, OneOpenConnection
<1>5. StreamInv'
  BY <1>1 DEF IInv, TypeOK, StreamInv, HeadComplete
<1>6. BodyInv'
  BY <1>1 DEF IInv, TypeOK, BodyInv, Missing, Left
<1>7. \A d \in Clients \ {c} : cli'[d] = cli[d] /\ result'[d] = result[d]
  BY <1>1 DEF IInv, TypeOK
<1>8. \A d \in Clients \ (Unlucky \cup broken') : d \in Clients \ (Unlucky \cup broken) /\ d # c
  BY <1>1
<1>9. AnswerInv'
  <2>1. \A d \in Clients : Unsent(d)' = Unsent(d)
    BY <1>1 DEF Unsent
  <2> QED
    BY <1>1, <1>7, <1>8, <2>1 DEF IInv, AnswerInv, Left
<1>10. StopInv'
  BY <1>1 DEF IInv, StopInv, StopBound
<1>11. HandlerSeesTheBody'
  BY <1>1 DEF IInv, TypeOK, HandlerSeesTheBody, Left, FullBody
<1>12. AnswerArrives' /\ ShortHeadsAreServed'
  BY <1>1, <1>7, <1>8 DEF IInv, AnswerArrives, ShortHeadsAreServed
<1> QED
  BY <1>2, <1>3, <1>4, <1>5, <1>6, <1>9, <1>10, <1>11, <1>12 DEF IInv

-----------------------------------------------------------------------------
(* Every step, and what follows for every behaviour                        *)

THEOREM NextIInv == IInv /\ [Next]_vars => IInv'
<1> SUFFICES ASSUME IInv, [Next]_vars
             PROVE  IInv'
  OBVIOUS
<1>1. CASE Create \/ Stop \/ Destroy
  BY <1>1, CreateStep, DestroyStep
<1>2. CASE LoopStep \/ PollReady \/ PollError \/ Accept \/ AcceptError
  BY <1>2, LoopStepKeeps, AcceptStep, AcceptOutOfMemoryStep DEF LoopStep
<1>3. CASE ReadStep
  BY <1>3, ReceiveHeadStep, HeadDoneStep, HeadFailsStep, ParseFailsStep, ParseRequestStep, ReceiveBodyStep,
     BodyDoneStep, ResponseOutOfMemoryStep DEF ReadStep
<1>4. CASE AnswerStep
  BY <1>4, HandleStep, Respond400Step, SendStep, SendEndsStep, CloseStep DEF AnswerStep
<1>5. ASSUME NEW c \in Clients,
             \/ Connect(c) \/ ConnectFails(c) \/ ClientStep(c) \/ ClientOutOfMemory(c)
             \/ ClientError(c) \/ ClientDies(c) \/ Unqueue(c)
      PROVE  IInv'
  BY <1>5, ConnectStep, ConnectFailsStep, ClientSendStep, ClientSendFailsStep, ClientReceiveStep, ClientEndsStep,
     ClientErrorStep, ClientDiesStep, UnqueueStep DEF ClientStep
<1>6. CASE UNCHANGED vars
  <2>1. UNCHANGED <<owner, stopping, srv, conn, raw, body, out, backlog, link, up, down, torn, cli, req, sent, got,
                    result, status, seen, late, broken>>
    BY <1>6 DEF vars, owners, server, net, client, hist
  <2> QED
    <3>1. TypeOK' /\ QueueInv'
      BY <2>1 DEF IInv, TypeOK, QueueInv
    <3>2. LinkInv' /\ StreamInv' /\ StopInv'
      BY <2>1 DEF IInv, LinkInv, StreamInv, StopInv, StopBound, OneOpenConnection, HeadComplete
    <3>3. BodyInv' /\ AnswerInv'
      BY <2>1 DEF IInv, BodyInv, AnswerInv, Missing, Left, Unsent
    <3>4. (HandlerSeesTheBody /\ AnswerArrives /\ ShortHeadsAreServed)'
      BY <2>1 DEF IInv, HandlerSeesTheBody, AnswerArrives, ShortHeadsAreServed, Left, FullBody
    <3> QED
      BY <3>1, <3>2, <3>3, <3>4 DEF IInv
<1>7. CASE Terminated
  BY <1>6, <1>7 DEF Terminated
<1>8. CASE ServerError
  BY <1>8, ServerErrorStep
<1> QED
  BY <1>1, <1>2, <1>3, <1>4, <1>5, <1>6, <1>7, <1>8 DEF Next

THEOREM AlwaysIInv == Spec => []IInv
BY InitIInv, NextIInv, PTL DEF Spec

(* The server has one connection open at a time, and closes every one it   *)
(* accepts (http.c, ten_http_server_run).                                  *)
THEOREM OneOpenConnectionAlways == Spec => []OneOpenConnection
<1>1. IInv => OneOpenConnection
  BY DEF IInv, LinkInv
<1> QED
  BY <1>1, AlwaysIInv, PTL

(* What the handler is given is the client's body, or its beginning when   *)
(* the client has left or a receive on its connection failed.              *)
THEOREM HandlerAlwaysSeesTheBody == Spec => []HandlerSeesTheBody
<1>1. IInv => HandlerSeesTheBody
  BY DEF IInv
<1> QED
  BY <1>1, AlwaysIInv, PTL

(* A client that waits, and whose connection did not fail, has the whole   *)
(* answer to what the handler saw.                                         *)
THEOREM AnswersArrive == Spec => []AnswerArrives
<1>1. IInv => AnswerArrives
  BY DEF IInv
<1> QED
  BY <1>1, AlwaysIInv, PTL

(* No head of up to MaxHead units is turned away while the socket calls    *)
(* succeed.                                                                *)
THEOREM ShortHeadsAreAlwaysServed == Spec => []ShortHeadsAreServed
<1>1. IInv => ShortHeadsAreServed
  BY DEF IInv
<1> QED
  BY <1>1, AlwaysIInv, PTL

(* ten_http_server_stop is followed by at most one accept.                 *)
THEOREM StopIsBounded == Spec => []StopBound
<1>1. IInv => StopBound
  BY DEF IInv, StopInv
<1> QED
  BY <1>1, AlwaysIInv, PTL
-----------------------------------------------------------------------------
(* What the refinement needs besides                                       *)

(* Where run is, and what it has therefore seen of the flag, the owner and *)
(* the request.                                                            *)
PlaceInv ==
  /\ srv \notin Serving => conn = None
  /\ srv # "off" => owner \in {"open", "destroyed"}
  /\ srv \notin {"off", "returned"} => owner = "open"
  /\ srv = "returned" => stopping
  /\ srv = "respond" => ~req[conn].wellFormed \/ conn \in Unlucky
  /\ srv \in {"body", "handler"} => req[conn].wellFormed

(* No unit of a response is anywhere before something was answered.        *)
ToldInv ==
  /\ \A c \in Clients : got[c] > 0 \/ down[c] > 0 => status[c] # "none"
  /\ srv \in Serving /\ out > 0 => status[conn] # "none"

(* With memory or without, the units stored are the client's own, in their *)
(* order, and have been received.                                          *)
Received(c) == sent[c] - up[c] - req[c].head
PieceInv ==
  srv \in {"body", "handler"} =>
    /\ Len(body) <= req[conn].body
    /\ \A i \in 1 .. Len(body) : body[i] \in 1 .. Received(conn)
    /\ \A i, j \in 1 .. Len(body) : i < j => body[i] < body[j]

ExchangeInv == PlaceInv /\ ToldInv /\ PieceInv

LEMMA InitExchangeInv == Init => ExchangeInv
BY DEF Init, ExchangeInv, PlaceInv, ToldInv, PieceInv, Serving

(* Steps between two connections, and of the owner                         *)
LEMMA LoopKeepsExchange ==
  ASSUME IInv, ExchangeInv,
         \/ Create \/ Stop \/ Destroy
         \/ RunStart \/ RunCheck \/ PollReady \/ PollIdle \/ PollError \/ AcceptError
         \/ Accept \/ AcceptOutOfMemory
  PROVE  ExchangeInv'
<1> USE DEF ExchangeInv
<1>1. CASE Create \/ Stop \/ Destroy
  <2>1. UNCHANGED <<server, up, down, client, hist>>
    BY <1>1 DEF Create, Stop, Destroy, net
  <2>2. PlaceInv'
    BY <1>1, <2>1 DEF PlaceInv, Create, Stop, Destroy, server, client, Serving
  <2> QED
    BY <2>1, <2>2 DEF ToldInv, PieceInv, Received, server, client, hist
<1>2. CASE RunStart \/ RunCheck \/ PollReady \/ PollIdle \/ PollError \/ AcceptError
  BY <1>2 DEF RunStart, RunCheck, PollReady, PollIdle, PollError, AcceptError, Goes, owners, net, client, hist,
              PlaceInv, ToldInv, PieceInv, Serving
<1>3. CASE AcceptOutOfMemory
  BY <1>3 DEF AcceptOutOfMemory, owners, client, hist, PlaceInv, ToldInv, PieceInv, Serving
<1>4. CASE Accept
  BY <1>4 DEF Accept, owners, client, IInv, AnswerInv, PlaceInv, ToldInv, PieceInv, Serving
<1> QED
  BY <1>1, <1>2, <1>3, <1>4

(* Steps with a connection that leave the stored units alone               *)
LEMMA ServiceKeepsExchange ==
  ASSUME IInv, ExchangeInv,
         \/ HeadDone \/ HeadFails \/ ParseFails \/ BodyDone \/ ResponseOutOfMemory
         \/ SendFails \/ SendKilled \/ SendDone \/ Close \/ ServerError
  PROVE  ExchangeInv'
<1> USE DEF ExchangeInv
<1>1. CASE Close
  BY <1>1 DEF Close, owners, client, hist, PlaceInv, ToldInv, PieceInv, Serving
<1>2. CASE ServerError
  BY <1>2 DEF ServerError, HeadError, BodyError, SendError, Breaks, owners, net, client, PlaceInv, ToldInv, PieceInv,
              Received, Serving
<1>3. CASE ~Close /\ ~ServerError
  BY <1>3
  DEF HeadDone, HeadFails, ParseFails, BodyDone, ResponseOutOfMemory, SendFails, SendKilled, SendDone,
      Goes, owners, net, client, hist, PlaceInv, ToldInv, PieceInv, Received, Serving
<1> QED
  BY <1>1, <1>2, <1>3

LEMMA ReceiveHeadKeepsExchange ==
  ASSUME IInv, ExchangeInv, ReceiveHead
  PROVE  ExchangeInv'
BY DEF ReceiveHead, Receive, owners, client, hist, ExchangeInv, PlaceInv, ToldInv, PieceInv, Serving

LEMMA AnswerKeepsExchange ==
  ASSUME IInv, ExchangeInv, Handle \/ Respond400 \/ Send
  PROVE  ExchangeInv'
<1> USE DEF ExchangeInv
<1>1. conn \in Clients
  BY DEF Handle, Respond400, Send, IInv, LinkInv, Serving
<1>2. CASE Handle \/ Respond400
  <2>1. PICK s \in Statuses : Answers(s)
    BY <1>2 DEF Handle, Respond400, Written, Statuses
  <2>2. status[conn] = "none"
    BY <1>2 DEF Handle, Respond400, IInv, StreamInv
  <2>3. /\ status' = [status EXCEPT ![conn] = s] /\ status' [conn] = s
        /\ \A c \in Clients \ {conn} : status'[c] = status[c]
    BY <1>1, <2>1 DEF Answers, IInv, TypeOK
  <2>4. out' > 0 => s # "none"
    BY <2>1, AnswerFacts DEF Answers
  <2>5. PlaceInv' /\ PieceInv'
    <3>1. /\ srv' = "send" /\ srv \in Serving /\ conn \in Clients
          /\ UNCHANGED <<owner, stopping, conn>>
      BY <1>1, <1>2, <2>1 DEF Answers, owners, Serving, Handle, Respond400
    <3> QED
      BY <3>1 DEF PlaceInv, PieceInv, Serving
  <2>6. ToldInv'
    BY <1>1, <2>1, <2>2, <2>3, <2>4 DEF Answers, net, client, ToldInv
  <2> QED
    BY <2>5, <2>6
<1>3. CASE Send
  <2>1. PICK n \in 1 .. out :
          /\ out' = out - n
          /\ down' = IF Left(conn) THEN down ELSE [down EXCEPT ![conn] = @ + n]
    BY <1>3 DEF Send
  <2>2. /\ srv = "send" /\ out > 0
        /\ UNCHANGED <<owners, srv, conn, body, up, client, hist>>
    BY <1>3 DEF Send
  <2>3. PlaceInv' /\ PieceInv'
    BY <2>2 DEF owners, client, PlaceInv, PieceInv, Received, Serving
  <2>4. status[conn] # "none"
    BY <2>2 DEF ToldInv, Serving
  <2>5. \A c \in Clients \ {conn} : down'[c] = down[c]
    BY <2>1 DEF IInv, TypeOK
  <2>6. ToldInv'
    BY <2>2, <2>4, <2>5 DEF ToldInv, client, hist
  <2> QED
    BY <2>3, <2>6
<1> QED
  BY <1>2, <1>3

LEMMA ParseRequestKeepsExchange ==
  ASSUME IInv, ExchangeInv, ParseRequest
  PROVE  ExchangeInv'
<1> DEFINE take == Least(raw - req[conn].head, req[conn].body)
<1>1. /\ conn \in Clients /\ req[conn].head \in Nat /\ req[conn].body \in Nat
      /\ raw \in Nat /\ up[conn] \in Nat /\ sent[conn] \in Nat
      /\ raw >= req[conn].head /\ raw + up[conn] = sent[conn] /\ sent[conn] <= req[conn].head + req[conn].body
  BY RequestFacts DEF ParseRequest, IInv, LinkInv, Serving, TypeOK, StreamInv, HeadComplete
<1>2. take \in Nat /\ take <= req[conn].body /\ take = Received(conn)
  BY <1>1 DEF Least, Received
<1>3. /\ body' = [i \in 1 .. take |-> i] \/ body' = << >>
      /\ UNCHANGED <<owners, conn, raw, out, net, client, hist>>
      /\ srv = "parse" /\ srv' = "body" /\ req[conn].wellFormed
  BY DEF ParseRequest
<1>4. PlaceInv'
  BY <1>3 DEF owners, client, ExchangeInv, PlaceInv, Serving
<1>5. ToldInv'
  BY <1>3 DEF net, client, hist, ExchangeInv, ToldInv, Serving
<1> HIDE DEF take
<1>6. PieceInv'
  <2> SUFFICES /\ Len(body') <= req[conn].body
               /\ \A i \in 1 .. Len(body') : body'[i] \in 1 .. Received(conn)
               /\ \A i, j \in 1 .. Len(body') : i < j => body'[i] < body'[j]
    BY <1>3 DEF PieceInv, Received, net, client
  <2>1. CASE body' = << >>
    BY <1>1, <2>1, EmptySeq
  <2>2. CASE body' = [i \in 1 .. take |-> i]
    <3>1. Len(body') = take
      BY <1>2, <2>2, Counting
    <3> QED
      BY <1>2, <2>2, <3>1
  <2> QED
    BY <1>3, <2>1, <2>2
<1> QED
  BY <1>4, <1>5, <1>6 DEF ExchangeInv

LEMMA Shifted ==
  ASSUME NEW n \in Nat, NEW k \in Nat
  PROVE  /\ [i \in 1 .. n |-> k + i] \in Seq(Nat)
         /\ Len([i \in 1 .. n |-> k + i]) = n
<1>1. \A i \in 1 .. n : k + i \in Nat
  OBVIOUS
<1> QED
  BY <1>1, IsASeq

LEMMA ReceiveBodyKeepsExchange ==
  ASSUME IInv, ExchangeInv, ReceiveBody
  PROVE  ExchangeInv'
<1>0. PICK n \in 1 .. Missing :
         /\ Receive(n)
         /\ \/ body' = body \o [i \in 1 .. n |-> Arriving + i - 1]
            \/ conn \in Unlucky /\ body' = body
  BY DEF ReceiveBody
<1> DEFINE more == [i \in 1 .. n |-> Arriving + i - 1]
           m == Len(body)
<1>1. /\ srv = "body" /\ conn \in Clients /\ body \in Seq(Nat) /\ m \in Nat
      /\ req[conn].head \in Nat /\ req[conn].body \in Nat
      /\ up[conn] \in Nat /\ sent[conn] \in Nat /\ n \in Nat \ {0} /\ n <= req[conn].body - m
      /\ up[conn] + req[conn].head <= sent[conn]
  BY <1>0, RequestFacts, LenProperties
  DEF ReceiveBody, IInv, LinkInv, Serving, TypeOK, Missing, StreamInv
<1>2. /\ up' = [up EXCEPT ![conn] = up[conn] - n]
      /\ UNCHANGED <<owner, stopping, srv, conn, raw, out, backlog, link, down, torn, cli, req, sent, got, result,
                     status, seen, late, broken>>
  BY <1>0 DEF ReceiveBody, Receive, owners, client, hist
<1>3. PlaceInv' /\ ToldInv'
  BY <1>2 DEF ExchangeInv, PlaceInv, ToldInv
<1> DEFINE r == Received(conn)
<1>4. r \in Nat /\ r' = r + n /\ Arriving = r + 1
  <2>1. up'[conn] = up[conn] - n
    BY <1>1, <1>2 DEF IInv, TypeOK
  <2>2. r = sent[conn] - up[conn] - req[conn].head
    BY DEF Received
  <2>3. r' = sent[conn] - up'[conn] - req[conn].head
    BY <1>2 DEF Received
  <2> QED
    BY <1>1, <2>1, <2>2, <2>3 DEF Arriving
<1>5. /\ m <= req[conn].body
      /\ \A i \in 1 .. m : body[i] \in 1 .. r
      /\ \A i, j \in 1 .. m : i < j => body[i] < body[j]
  BY <1>1 DEF ExchangeInv, PieceInv
<1>6. PieceInv'
  <2> SUFFICES /\ Len(body') <= req[conn].body
               /\ \A i \in 1 .. Len(body') : body'[i] \in 1 .. r + n
               /\ \A i, j \in 1 .. Len(body') : i < j => body'[i] < body'[j]
    BY <1>1, <1>2, <1>4 DEF PieceInv
  <2> HIDE DEF r
  <2>1. CASE body' = body
    <3>1. Len(body') = m
      BY <2>1
    <3>2. \A i \in 1 .. m : body'[i] \in 1 .. r + n
      BY <1>1, <1>4, <1>5, <2>1
    <3> HIDE DEF m
    <3> QED
      BY <1>1, <1>5, <2>1, <3>1, <3>2
  <2>2. CASE body' = body \o more
    <3>1. more \in Seq(Nat) /\ Len(more) = n /\ \A i \in 1 .. n : more[i] = r + i
      <4>1. \A i \in 1 .. n : Arriving + i - 1 = r + i /\ r + i \in Nat
        BY <1>1, <1>4
      <4> HIDE DEF r
      <4>2. more = [i \in 1 .. n |-> r + i]
        BY <4>1
      <4> QED
        BY <1>1, <1>4, <4>2, Shifted
    <3> HIDE DEF more, m
    <3>2. /\ Len(body') = m + n
          /\ \A i \in 1 .. m + n : body'[i] = IF i <= m THEN body[i] ELSE more[i - m]
      <4>1. /\ Len(body \o more) = Len(body) + Len(more)
            /\ \A i \in 1 .. Len(body) + Len(more) :
                 (body \o more)[i] = IF i <= Len(body) THEN body[i] ELSE more[i - Len(body)]
        BY <1>1, <3>1, ConcatProperties
      <4> QED
        BY <2>2, <3>1, <4>1 DEF m
    <3>3. \A i \in 1 .. m + n : /\ i <= m => body'[i] = body[i] /\ body'[i] \in 1 .. r
                                /\ i > m => body'[i] = r + (i - m)
      BY <1>1, <1>5, <3>1, <3>2 DEF m
    <3>4. r \in Nat
      BY <1>4
    <3>5. \A i \in 1 .. m + n : body'[i] \in 1 .. r + n
      <4> SUFFICES ASSUME NEW i \in 1 .. m + n PROVE body'[i] \in 1 .. r + n
        OBVIOUS
      <4>1. CASE i <= m
        BY <1>1, <3>3, <3>4, <4>1
      <4>2. CASE i > m
        BY SMTT(20), <1>1, <3>3, <3>4, <4>2
      <4> QED
        BY <1>1, <4>1, <4>2
    <3>6. \A i, j \in 1 .. m + n : i < j => body'[i] < body'[j]
      <4> SUFFICES ASSUME NEW i \in 1 .. m + n, NEW j \in 1 .. m + n, i < j
                   PROVE  body'[i] < body'[j]
        OBVIOUS
      <4>1. CASE j <= m
        <5>1. i \in 1 .. m /\ j \in 1 .. m
          BY <1>1, <4>1
        <5>2. body'[i] = body[i] /\ body'[j] = body[j]
          BY <1>1, <3>3, <4>1, <5>1
        <5> QED
          BY <1>5, <5>1, <5>2
      <4>2. CASE i <= m /\ j > m
        BY <1>1, <3>3, <3>4, <4>2
      <4>3. CASE i > m
        <5>1. j > m
          BY <1>1, <4>3
        <5>2. body'[i] = r + (i - m) /\ body'[j] = r + (j - m)
          BY <3>3, <4>3, <5>1
        <5> QED
          BY <1>1, <3>4, <5>2
      <4> QED
        BY <1>1, <4>1, <4>2, <4>3
    <3> QED
      BY <1>1, <3>2, <3>5, <3>6
  <2> QED
    BY <1>0, <2>1, <2>2
<1> QED
  BY <1>3, <1>6 DEF ExchangeInv

(* A client's steps do not touch what the server has received.             *)
LEMMA ClientKeepsExchange ==
  ASSUME IInv, ExchangeInv, NEW c \in Clients,
         \/ Connect(c) \/ ConnectFails(c) \/ ClientStep(c) \/ ClientOutOfMemory(c)
         \/ ClientError(c) \/ ClientDies(c) \/ Unqueue(c)
  PROVE  ExchangeInv'
<1>1. CASE ClientSend(c)
  <2>1. PICK n \in 1 .. Length(req[c]) - sent[c] :
          /\ sent' = [sent EXCEPT ![c] = @ + n]
          /\ up' = [up EXCEPT ![c] = @ + n]
    BY <1>1 DEF ClientSend
  <2>2. UNCHANGED <<owners, server, down, req, got, hist>>
    BY <1>1 DEF ClientSend
  <2>3. sent[c] \in Nat /\ up[c] \in Nat /\ Length(req[c]) \in Nat /\ n \in Nat
    <3>1. sent[c] \in Nat /\ up[c] \in Nat /\ req[c] \in Requests
      BY DEF IInv, TypeOK
    <3>2. Length(req[c]) \in Nat
      BY <3>1, RequestFacts
    <3> QED
      BY <2>1, <3>1, <3>2
  <2>4. \A d \in Clients : sent'[d] - up'[d] = sent[d] - up[d]
    BY <2>1, <2>3 DEF IInv, TypeOK
  <2>5. conn \in Clients => Received(conn)' = Received(conn)
    BY <2>2, <2>4 DEF Received, server
  <2>6. srv \in {"body", "handler"} => conn \in Clients
    BY DEF IInv, LinkInv, Serving
  <2>7. PlaceInv' /\ ToldInv'
    BY <2>2 DEF ExchangeInv, PlaceInv, ToldInv, owners, server, hist
  <2>8. PieceInv'
    BY <2>2, <2>5, <2>6 DEF ExchangeInv, PieceInv, server
  <2> QED
    BY <2>7, <2>8 DEF ExchangeInv
<1>2. CASE ClientReceive(c)
  <2>1. PICK n \in 1 .. down[c] :
          /\ down' = [down EXCEPT ![c] = @ - n]
          /\ got' = [got EXCEPT ![c] = @ + n] \/ got' = got
    BY <1>2 DEF ClientReceive
  <2>2. UNCHANGED <<owners, server, up, req, sent, hist>>
    BY <1>2 DEF ClientReceive
  <2>3. down[c] > 0
    BY <2>1 DEF IInv, TypeOK
  <2>4. \A d \in Clients \ {c} : down'[d] = down[d] /\ got'[d] = got[d]
    BY <2>1 DEF IInv, TypeOK
  <2>5. PlaceInv' /\ PieceInv'
    BY <2>2 DEF ExchangeInv, PlaceInv, PieceInv, Received, owners, server, hist
  <2>6. ToldInv'
    BY <2>2, <2>3, <2>4 DEF ExchangeInv, ToldInv, server, hist
  <2> QED
    BY <2>5, <2>6 DEF ExchangeInv
<1>3. CASE ~ClientSend(c) /\ ~ClientReceive(c)
  <2>1. UNCHANGED <<owners, server, up, down, req, sent, got, status>>
    BY <1>3
    DEF Connect, ConnectFails, ClientStep, ClientSendFails, ClientComplete, ClientEnd, ClientOutOfMemory, ClientDies,
        ClientError, ClientSendError, ClientReceiveError, ClientBreaks, Unqueue, Returns, net, client, hist
  <2> QED
    BY <2>1 DEF ExchangeInv, PlaceInv, ToldInv, PieceInv, Received, owners, server
<1> QED
  BY <1>1, <1>2, <1>3

LEMMA NextExchangeInv == IInv /\ ExchangeInv /\ [Next]_vars => ExchangeInv'
<1> SUFFICES ASSUME IInv, ExchangeInv, [Next]_vars
             PROVE  ExchangeInv'
  OBVIOUS
<1>1. CASE UNCHANGED vars
  BY <1>1 DEF vars, owners, server, net, client, hist, ExchangeInv, PlaceInv, ToldInv, PieceInv, Received
<1>2. CASE LoopStep \/ ReadStep \/ AnswerStep \/ ServerError
  BY <1>2, LoopKeepsExchange, ServiceKeepsExchange, ReceiveHeadKeepsExchange, AnswerKeepsExchange,
     ParseRequestKeepsExchange, ReceiveBodyKeepsExchange
  DEF LoopStep, ReadStep, AnswerStep
<1> QED
  BY <1>1, <1>2, LoopKeepsExchange, ClientKeepsExchange DEF Next, Terminated

-----------------------------------------------------------------------------
(* The refinement                                                          *)

LEMMA Invisible ==
  ASSUME UNCHANGED <<owner, stopping, req, cli, result, backlog, conn, late, seen, status, broken>>,
         srv = "returned" <=> srv' = "returned"
  PROVE  UNCHANGED Exchange!vars
BY DEF Exchange!vars, Phase, Call

LEMMA OwnerRefines ==
  ASSUME IInv, ExchangeInv, Create \/ Stop \/ Destroy
  PROVE  Exchange!Next
<1> USE DEF ExchangeInv, PlaceInv, server, net, client, hist
<1>1. CASE Create
  <2>1. srv = "off"
    BY <1>1 DEF Create, IInv, TypeOK
  <2> QED
    BY <1>1, <2>1 DEF Create, Phase, Call, Exchange!Next, Exchange!Create
<1>2. CASE Stop
  BY <1>2 DEF Stop, Phase, Call, Exchange!Next, Exchange!Stop
<1>3. CASE Destroy
  BY <1>3 DEF Destroy, Phase, Call, Exchange!Next, Exchange!Destroy
<1> QED
  BY <1>1, <1>2, <1>3

(* Run returns when it finds the flag; the rest of its loop is invisible.  *)
LEMMA LoopRefines ==
  ASSUME IInv, ExchangeInv,
         RunStart \/ RunCheck \/ PollReady \/ PollIdle \/ PollError \/ AcceptError
  PROVE  Exchange!Next \/ UNCHANGED Exchange!vars
<1> USE DEF Goes, owners, net, client, hist
<1>1. CASE RunCheck /\ stopping
  <2>1. owner = "open" /\ conn = None
    BY <1>1 DEF RunCheck, ExchangeInv, PlaceInv, Serving
  <2> QED
    BY <1>1, <2>1 DEF RunCheck, Phase, Call, Exchange!Next, Exchange!RunReturns
<1>2. CASE ~(RunCheck /\ stopping)
  <2>1. /\ UNCHANGED <<owner, stopping, req, cli, result, backlog, conn, late, seen, status, broken>>
        /\ srv = "returned" <=> srv' = "returned"
    BY <1>2 DEF RunStart, RunCheck, PollReady, PollIdle, PollError, AcceptError
  <2> QED
    BY <2>1, Invisible
<1> QED
  BY <1>1, <1>2

LEMMA AcceptRefines ==
  ASSUME IInv, ExchangeInv, Accept \/ AcceptOutOfMemory
  PROVE  Exchange!Next
<1>1. /\ owner = "open" /\ srv = "accept" /\ conn = None /\ backlog # << >> /\ late = 0
      /\ srv' # "returned" /\ backlog' = Tail(backlog)
      /\ UNCHANGED <<owner, stopping, req, cli, result, seen, status, broken>>
  BY DEF Accept, AcceptOutOfMemory, ExchangeInv, PlaceInv, Serving, IInv, StopInv, owners, client, hist
<1>2. Phase = "open" /\ UNCHANGED <<Phase, Call>>
  BY <1>1 DEF Phase, Call
<1>3. CASE Accept
  <2>1. conn' = Head(backlog) /\ late' = IF stopping THEN late + 1 ELSE late
    BY <1>3 DEF Accept
  <2>2. stopping \in BOOLEAN
    BY DEF IInv, TypeOK
  <2>3. ~(late > 0) /\ (late' > 0) = stopping
    BY <1>1, <2>1, <2>2
  <2>4. Exchange!Take
    BY ONLY <1>1, <1>2, <2>1, <2>3 DEF Exchange!Take
  <2> QED
    BY <2>4 DEF Exchange!Next
<1>4. CASE AcceptOutOfMemory
  BY <1>1, <1>2, <1>4 DEF AcceptOutOfMemory, hist, Exchange!Next, Exchange!TurnAway
<1> QED
  BY <1>3, <1>4

LEMMA ServiceStutters ==
  ASSUME IInv,
         \/ ReadStep
         \/ Send \/ SendFails \/ SendKilled \/ SendDone
  PROVE  UNCHANGED Exchange!vars
<1>1. /\ UNCHANGED <<owner, stopping, req, cli, result, backlog, conn, late, seen, status, broken>>
      /\ srv = "returned" <=> srv' = "returned"
  BY DEF ReadStep, ReceiveHead, HeadDone, HeadFails, ParseFails, ParseRequest, ReceiveBody, BodyDone,
         ResponseOutOfMemory, Send, SendFails, SendKilled, SendDone, Receive, Goes, owners, net, client, hist
<1> QED
  BY <1>1, Invisible

LEMMA HandlerIsSilent ==
  ASSUME IInv, ExchangeInv, srv \in {"handler", "respond"}
  PROVE  /\ conn \in Clients /\ conn # None /\ Exchange!Silent(conn)
         /\ cli[conn] \in {"sending", "receiving", "done", "gone"}
         /\ conn \notin Unlucky \cup broken => cli[conn] # "done"
<1>1. conn \in Clients /\ link[conn] = "open" /\ status[conn] = "none" /\ seen[conn] = None
  BY DEF IInv, LinkInv, OneOpenConnection, Serving, StreamInv
<1>2. cli[conn] # "start"
  BY <1>1 DEF IInv, LinkInv
<1>3. conn \notin Unlucky \cup broken => cli[conn] # "done"
  BY <1>1 DEF IInv, AnswerInv
<1>4. cli[conn] \in ClientPoints /\ conn # None
  BY <1>1 DEF IInv, TypeOK
<1> QED
  BY <1>1, <1>2, <1>3, <1>4 DEF Exchange!Silent, ClientPoints

LEMMA HandleRefines ==
  ASSUME IInv, ExchangeInv, Handle
  PROVE  Exchange!Next
<1> DEFINE n == Len(body)
           size == req[conn].body
<1>1. /\ srv = "handler" /\ srv' = "send" /\ seen' = [seen EXCEPT ![conn] = body]
      /\ UNCHANGED <<owner, stopping, conn, backlog, cli, req, result, late, broken>>
      /\ \E s \in Written("200") : status' = [status EXCEPT ![conn] = s]
  BY DEF Handle, Answers, owners, net, client
<1>2. UNCHANGED <<Phase, Call>>
  BY <1>1 DEF Phase, Call
<1>3. /\ conn \in Clients /\ conn # None /\ Exchange!Silent(conn)
      /\ cli[conn] \in {"sending", "receiving", "done", "gone"}
      /\ conn \notin Unlucky \cup broken => cli[conn] # "done"
  BY <1>1, HandlerIsSilent
<1>4. /\ size \in Nat /\ n \in Nat /\ n <= size /\ body = [i \in 1 .. n |-> body[i]]
      /\ \A i \in 1 .. n : body[i] \in 1 .. size
      /\ \A i, j \in 1 .. n : i < j => body[i] < body[j]
  <2>1. /\ size \in Nat /\ req[conn].head \in Nat /\ Length(req[conn]) = req[conn].head + size
        /\ sent[conn] \in Nat /\ up[conn] \in Nat /\ sent[conn] <= Length(req[conn])
        /\ body \in Seq(Nat)
    BY <1>3, RequestFacts DEF IInv, TypeOK, StreamInv
  <2>2. Received(conn) \in Int /\ Received(conn) <= size
    BY <2>1 DEF Received
  <2>3. /\ n <= size
        /\ \A i \in 1 .. n : body[i] \in 1 .. Received(conn)
        /\ \A i, j \in 1 .. n : i < j => body[i] < body[j]
    BY <1>1 DEF ExchangeInv, PieceInv
  <2>4. n \in Nat /\ body = [i \in 1 .. n |-> body[i]]
    BY <2>1, LenProperties
  <2> QED
    BY <2>1, <2>2, <2>3, <2>4
<1>5. body \in Exchange!Pieces(size)
  <2>1. body \in [1 .. n -> 1 .. size] /\ n \in 0 .. size /\ DOMAIN body = 1 .. n
    BY <1>4
  <2> QED
    BY <1>4, <2>1 DEF Exchange!Pieces
<1>6. conn \notin Unlucky =>
        /\ body = [i \in 1 .. n |-> i]
        /\ Call[conn] = "dead" \/ conn \in broken \/ (Call[conn] = "pending" /\ n = size)
  <2> SUFFICES ASSUME conn \notin Unlucky
               PROVE  /\ body = [i \in 1 .. n |-> i]
                      /\ Call[conn] = "dead" \/ conn \in broken \/ (Call[conn] = "pending" /\ n = size)
    OBVIOUS
  <2>1. body = [i \in 1 .. n |-> i] /\ (Missing = 0 \/ Left(conn) \/ conn \in broken)
    BY <1>1 DEF IInv, BodyInv
  <2>2. cli[conn] = "gone" => Call[conn] = "dead"
    BY <1>3 DEF Call
  <2>3. cli[conn] \in {"sending", "receiving"} /\ conn \notin broken => Call[conn] = "pending" /\ n = size
    BY <1>3, <1>4, <2>1 DEF Call, Left, Missing
  <2> QED
    BY <1>3, <2>1, <2>2, <2>3
<1>7. req[conn].wellFormed
  BY <1>1 DEF ExchangeInv, PlaceInv
<1>8. Exchange!Says("200")
  BY <1>1 DEF Exchange!Says, Written
<1> HIDE DEF n, size
<1>9. \E b \in Exchange!Pieces(req[conn].body) :
        /\ seen' = [seen EXCEPT ![conn] = b]
        /\ conn \notin Unlucky =>
             /\ b = [i \in 1 .. Len(b) |-> i]
             /\ \/ Call[conn] = "dead" \/ conn \in broken
                \/ Call[conn] = "pending" /\ Len(b) = req[conn].body
  BY <1>1, <1>5, <1>6 DEF n, size
<1>10. UNCHANGED <<Phase, stopping, req, Call, backlog, conn, late > 0, broken>>
  BY <1>1, <1>2
<1>11. Exchange!Handle
  BY ONLY <1>3, <1>7, <1>8, <1>9, <1>10 DEF Exchange!Handle
<1> QED
  BY <1>11 DEF Exchange!Next

LEMMA RejectRefines ==
  ASSUME IInv, ExchangeInv, Respond400
  PROVE  Exchange!Next
<1>1. /\ srv = "respond" /\ srv' = "send" /\ conn \in Clients
      /\ UNCHANGED <<owner, stopping, conn, backlog, cli, req, result, late, seen, broken>>
      /\ \E s \in Written("400") : status' = [status EXCEPT ![conn] = s]
  BY HandlerIsSilent DEF Respond400, Answers, owners, net, client
<1>2. UNCHANGED <<Phase, Call>>
  BY <1>1 DEF Phase, Call
<1>3. conn # None /\ Exchange!Silent(conn) /\ (~req[conn].wellFormed \/ conn \in Unlucky)
  BY <1>1, HandlerIsSilent DEF ExchangeInv, PlaceInv
<1>4. Exchange!Says("400")
  BY <1>1 DEF Exchange!Says, Written
<1> QED
  BY <1>1, <1>2, <1>3, <1>4 DEF Exchange!Next, Exchange!Reject

(* A client that stays, and whose head is not too long, has been answered  *)
(* when its connection is closed.                                          *)
LEMMA CloseRefines ==
  ASSUME IInv, ExchangeInv, Close
  PROVE  Exchange!Next
<1>1. /\ srv = "close" /\ srv' = "check" /\ conn \in Clients /\ conn # None /\ conn' = None
      /\ UNCHANGED <<owner, stopping, backlog, cli, req, result, late, seen, status, broken>>
  <2>1. conn \in Clients
    BY DEF Close, IInv, LinkInv, Serving
  <2> QED
    BY <2>1 DEF Close, owners, client, hist
<1>2. UNCHANGED <<Phase, Call>>
  BY <1>1 DEF Phase, Call
<1>3. Call[conn] = "pending" /\ req[conn].head <= MaxHead /\ conn \notin Unlucky \cup broken => status[conn] # "none"
  <2>1. cli[conn] = "gone" => Call[conn] = "dead"
    BY <1>1 DEF Call
  <2> QED
    BY <1>1, <2>1 DEF IInv, AnswerInv
<1> QED
  BY <1>1, <1>2, <1>3 DEF Exchange!Next, Exchange!Finish

LEMMA CallFacts ==
  ASSUME NEW c \in Clients
  PROVE  /\ cli[c] = "start" => Call[c] = "none"
         /\ cli[c] \in {"sending", "receiving"} => Call[c] = "pending"
         /\ cli[c] = "done" => Call[c] = result[c]
         /\ cli[c] = "gone" => Call[c] = "dead"
BY DEF Call

LEMMA CallMoves ==
  ASSUME IInv, NEW c \in Clients, NEW p \in ClientPoints, cli' = [cli EXCEPT ![c] = p],
         NEW r, result' = [result EXCEPT ![c] = r]
  PROVE  Call' = [Call EXCEPT ![c] = CASE p = "start" -> "none"
                                       [] p \in {"sending", "receiving"} -> "pending"
                                       [] p = "done" -> r
                                       [] OTHER -> "dead"]
<1>1. cli'[c] = p /\ result'[c] = r
  BY DEF IInv, TypeOK
<1>2. \A d \in Clients \ {c} : cli'[d] = cli[d] /\ result'[d] = result[d]
  BY DEF IInv, TypeOK
<1> DEFINE next == CASE p = "start" -> "none"
                     [] p \in {"sending", "receiving"} -> "pending"
                     [] p = "done" -> r
                     [] OTHER -> "dead"
<1>3. Call'[c] = next
  BY <1>1 DEF Call
<1>4. \A d \in Clients \ {c} : Call'[d] = Call[d]
  BY <1>2 DEF Call
<1>5. DOMAIN Call = Clients /\ Call' = [d \in Clients |-> Call'[d]]
  BY DEF Call
<1> HIDE DEF next
<1>6. Call' = [Call EXCEPT ![c] = next]
  BY <1>3, <1>4, <1>5
<1> QED
  BY <1>6 DEF next

LEMMA SameResult ==
  ASSUME IInv, NEW c \in Clients, UNCHANGED result
  PROVE  result' = [result EXCEPT ![c] = result[c]]
BY DEF IInv, TypeOK

(* A call returns: who is told "ok" was answered, who is told "failed" is  *)
(* out of the server's reach.                                              *)
LEMMA ReturnRefines ==
  ASSUME IInv, ExchangeInv, IInv', NEW c \in Clients,
         ClientSendFails(c) \/ ClientComplete(c) \/ ClientEnd(c) \/ ClientOutOfMemory(c)
  PROVE  Exchange!Next
<1>1. PICK r \in {"ok", "failed"} : Returns(c, r) /\ (r = "ok" => status[c] # "none")
  <2>1. got[c] > 0 => status[c] # "none"
    BY DEF ExchangeInv, ToldInv
  <2>2. CASE ClientSendFails(c) \/ ClientOutOfMemory(c)
    BY <2>2 DEF ClientSendFails, ClientOutOfMemory
  <2>3. CASE ClientComplete(c)
    BY <2>3 DEF ClientComplete, Complete
  <2>4. CASE ClientEnd(c)
    BY <2>1, <2>4 DEF ClientEnd
  <2> QED
    BY <2>2, <2>3, <2>4
<1>2. /\ cli[c] \in {"sending", "receiving"} /\ Call[c] = "pending"
      /\ cli' = [cli EXCEPT ![c] = "done"] /\ result' = [result EXCEPT ![c] = r]
      /\ UNCHANGED <<owner, stopping, srv, conn, backlog, link, req, seen, status, late, broken>>
  <2>1. cli[c] \in {"sending", "receiving"}
    BY DEF ClientSendFails, ClientComplete, ClientEnd, ClientOutOfMemory
  <2> QED
    BY <1>1, <2>1, CallFacts DEF Returns, owners, server, net, hist
<1>3. Call' = [Call EXCEPT ![c] = r]
  BY <1>2, CallMoves DEF ClientPoints
<1>4. UNCHANGED <<Phase, stopping, req, backlog, conn, late > 0, seen, status, broken>>
  BY <1>2 DEF Phase
<1>5. CASE r = "ok"
  BY <1>1, <1>2, <1>3, <1>4, <1>5 DEF Exchange!Next, Exchange!Returns, Exchange!Becomes
<1>6. CASE r = "failed" /\ c \in Unlucky \cup broken
  BY <1>2, <1>3, <1>4, <1>6 DEF Exchange!Next, Exchange!Returns, Exchange!Becomes
<1>7. CASE r = "failed" /\ c \notin Unlucky \cup broken
  <2>1. link[c] \in {"closed", "reset"}
    <3>1. status[c] # "damaged"
      BY <1>7 DEF IInv, AnswerInv
    <3>2. ~ClientComplete(c)
      <4> SUFFICES ASSUME ClientComplete(c) PROVE FALSE
        OBVIOUS
      <4>1. result' = [result EXCEPT ![c] = "ok"]
        BY <1>7, <3>1 DEF ClientComplete, Returns
      <4> QED
        BY <1>2, <1>7, <4>1 DEF IInv, TypeOK
    <3> QED
      BY <1>7, <3>2 DEF ClientSendFails, ClientEnd, ClientOutOfMemory
  <2>2. c # conn
    <3>1. srv \in Serving => link[conn] = "open"
      BY DEF IInv, LinkInv, OneOpenConnection
    <3>2. srv \notin Serving => conn = None
      BY DEF ExchangeInv, PlaceInv
    <3> QED
      BY <2>1, <3>1, <3>2
  <2>3. c \notin Exchange!Range(backlog)
    <3>1. \A i \in DOMAIN backlog : backlog[i] # c
      <4>1. DOMAIN backlog = 1 .. Len(backlog)
        BY LenProperties DEF IInv, TypeOK
      <4> QED
        BY <2>1, <4>1 DEF IInv, QueueInv
    <3> QED
      BY <3>1 DEF Exchange!Range
  <2>4. seen[c] = None
    <3>1. cli'[c] = "done" /\ result'[c] = "failed"
      BY <1>2, <1>7 DEF IInv, TypeOK
    <3> QED
      BY <1>2, <1>7, <3>1 DEF IInv, AnswerArrives
  <2> QED
    BY <1>2, <1>3, <1>4, <1>7, <2>2, <2>3, <2>4 DEF Exchange!Next, Exchange!Returns, Exchange!Becomes
<1> QED
  BY <1>5, <1>6, <1>7

(* A socket call that fails disturbs the exchange of the client it belongs *)
(* to, who is waiting.                                                     *)
LEMMA ServerErrorRefines ==
  ASSUME IInv, ServerError
  PROVE  Exchange!Next
<1>1. /\ srv \in Serving /\ srv # "returned" /\ srv' # "returned" /\ ~Left(conn) /\ conn \in Clients
      /\ broken' = broken \cup {conn}
      /\ UNCHANGED <<owner, stopping, req, cli, result, backlog, conn, late, seen, status>>
  BY DEF ServerError, HeadError, BodyError, SendError, Breaks, IInv, LinkInv, Serving, owners, net, client
<1>2. cli[conn] \in {"sending", "receiving"}
  <2>1. link[conn] = "open"
    BY <1>1 DEF IInv, LinkInv, OneOpenConnection
  <2>2. cli[conn] # "start" /\ cli[conn] \in ClientPoints
    BY <1>1, <2>1 DEF IInv, LinkInv, TypeOK
  <2> QED
    BY <1>1, <2>2 DEF ClientPoints, Left
<1>3. Call[conn] = "pending" /\ UNCHANGED <<Phase, Call>>
  BY <1>1, <1>2, CallFacts DEF Phase, Call
<1>4. Exchange!Disturb(conn)
  BY <1>1, <1>3 DEF Exchange!Disturb
<1> QED
  BY <1>1, <1>4 DEF Exchange!Next

LEMMA ClientErrorRefines ==
  ASSUME IInv, ExchangeInv, NEW c \in Clients, ClientError(c)
  PROVE  Exchange!Next
<1>1. PICK r \in {"ok", "failed"} : ClientBreaks(c, r) /\ (r = "ok" => status[c] # "none")
  <2>1. got[c] > 0 => status[c] # "none"
    BY DEF ExchangeInv, ToldInv
  <2> QED
    BY <2>1 DEF ClientError, ClientSendError, ClientReceiveError
<1>2. /\ cli[c] \in {"sending", "receiving"} /\ Call[c] = "pending"
      /\ cli' = [cli EXCEPT ![c] = "done"] /\ result' = [result EXCEPT ![c] = r]
      /\ broken' = broken \cup {c}
      /\ UNCHANGED <<owner, stopping, srv, conn, backlog, req, seen, status, late>>
  <2>1. cli[c] \in {"sending", "receiving"}
    BY DEF ClientError, ClientSendError, ClientReceiveError
  <2> QED
    BY <1>1, <2>1, CallFacts DEF ClientBreaks, owners, server, net
<1>3. Call' = [Call EXCEPT ![c] = r]
  BY <1>2, CallMoves DEF ClientPoints
<1>4. UNCHANGED <<Phase, stopping, req, backlog, conn, late > 0, seen, status>>
  BY <1>2 DEF Phase
<1>5. Exchange!Disturb(c)
  BY <1>1, <1>2, <1>3, <1>4 DEF Exchange!Disturb
<1> QED
  BY <1>5 DEF Exchange!Next

LEMMA ClientRefines ==
  ASSUME IInv, ExchangeInv, IInv', NEW c \in Clients,
         \/ Connect(c) \/ ConnectFails(c) \/ ClientStep(c) \/ ClientOutOfMemory(c)
         \/ ClientError(c) \/ ClientDies(c) \/ Unqueue(c)
  PROVE  Exchange!Next \/ UNCHANGED Exchange!vars
<1>1. CASE Connect(c)
  <2>1. /\ cli[c] = "start" /\ owner = "open" /\ cli' = [cli EXCEPT ![c] = "sending"]
        /\ backlog' = Append(backlog, c)
        /\ UNCHANGED <<owner, stopping, srv, conn, req, result, seen, status, late, broken>>
    BY <1>1 DEF Connect, owners, server, hist
  <2>2. Call[c] = "none" /\ Call' = [Call EXCEPT ![c] = "pending"]
    BY <2>1, CallFacts, CallMoves, SameResult DEF ClientPoints
  <2>3. Phase \in {"open", "over"} /\ UNCHANGED Phase
    BY <2>1 DEF Phase
  <2> QED
    BY <2>1, <2>2, <2>3 DEF Exchange!Next, Exchange!Connect
<1>2. CASE ConnectFails(c)
  <2>1. /\ cli[c] = "start" /\ cli' = [cli EXCEPT ![c] = "done"] /\ result' = [result EXCEPT ![c] = "failed"]
        /\ UNCHANGED <<owner, stopping, srv, conn, backlog, req, seen, status, late, broken>>
    BY <1>2 DEF ConnectFails, Returns, owners, server, net, hist
  <2>2. Call[c] = "none" /\ Call' = [Call EXCEPT ![c] = "failed"] /\ UNCHANGED Phase
    BY <2>1, CallFacts, CallMoves DEF ClientPoints, Phase
  <2> QED
    BY <2>1, <2>2 DEF Exchange!Next, Exchange!NoConnection, Exchange!Becomes
<1>3. CASE ClientDies(c)
  <2>1. /\ cli[c] \in {"sending", "receiving"} /\ cli' = [cli EXCEPT ![c] = "gone"]
        /\ UNCHANGED <<owner, stopping, srv, conn, backlog, req, result, seen, status, late, broken>>
    BY <1>3 DEF ClientDies, owners, server, net, hist
  <2>2. Call[c] = "pending" /\ Call' = [Call EXCEPT ![c] = "dead"] /\ UNCHANGED Phase
    BY <2>1, CallFacts, CallMoves, SameResult DEF ClientPoints, Phase
  <2> QED
    BY <2>1, <2>2 DEF Exchange!Next, Exchange!Dies, Exchange!Becomes
<1>4. CASE Unqueue(c)
  <2>1. /\ Left(c) /\ \E i \in DOMAIN backlog : backlog[i] = c /\ backlog' = RemoveAt(backlog, i)
        /\ UNCHANGED <<owner, stopping, srv, conn, cli, req, result, seen, status, late, broken>>
    BY <1>4 DEF Unqueue, owners, server, client, hist
  <2>2. Call[c] # "pending" /\ UNCHANGED <<Phase, Call>>
    <3>1. result[c] # "pending"
      BY DEF IInv, TypeOK
    <3> QED
      BY <2>1, <3>1, CallFacts DEF Left, Phase, Call
  <2>3. \E i \in DOMAIN backlog : backlog[i] = c /\ backlog' = Exchange!RemoveAt(backlog, i)
    BY <2>1 DEF RemoveAt, Exchange!RemoveAt
  <2> QED
    BY <2>1, <2>2, <2>3 DEF Exchange!Next, Exchange!Leaves
<1>5. CASE ClientSend(c)
  <2>1. /\ cli[c] = "sending"
        /\ \E p \in {"sending", "receiving"} : cli' = [cli EXCEPT ![c] = p]
        /\ UNCHANGED <<owner, stopping, srv, conn, backlog, req, result, seen, status, late, broken>>
    BY <1>5 DEF ClientSend, owners, server, hist
  <2>2. Call[c] = "pending" /\ Call' = [Call EXCEPT ![c] = "pending"] /\ UNCHANGED Phase
    BY <2>1, CallFacts, CallMoves, SameResult DEF ClientPoints, Phase
  <2>3. UNCHANGED Call
    BY <2>2 DEF Call
  <2> QED
    BY <2>1, <2>2, <2>3 DEF Exchange!vars
<1>6. CASE ClientReceive(c)
  BY <1>6, Invisible DEF ClientReceive, owners, server, hist
<1> QED
  BY <1>1, <1>2, <1>3, <1>4, <1>5, <1>6, ReturnRefines, ClientErrorRefines DEF ClientStep

LEMMA NextRefines == IInv /\ ExchangeInv /\ IInv' /\ [Next]_vars => [Exchange!Next]_(Exchange!vars)
<1> SUFFICES ASSUME IInv, ExchangeInv, IInv', [Next]_vars
             PROVE  Exchange!Next \/ UNCHANGED Exchange!vars
  OBVIOUS
<1> DEFINE Refined == Exchange!Next \/ UNCHANGED Exchange!vars
<1> HIDE DEF Refined
<1>1. ASSUME UNCHANGED vars PROVE Refined
  BY <1>1, Invisible DEF vars, owners, server, net, client, hist, Refined
<1>2. ASSUME Create \/ Stop \/ Destroy PROVE Refined
  BY <1>2, OwnerRefines DEF Refined
<1>3. ASSUME LoopStep \/ PollReady \/ PollError \/ Accept \/ AcceptError PROVE Refined
  BY <1>3, LoopRefines, AcceptRefines DEF LoopStep, Refined
<1>4. ASSUME ReadStep PROVE Refined
  BY <1>4, ServiceStutters DEF Refined
<1>5. ASSUME AnswerStep PROVE Refined
  BY <1>5, ServiceStutters, HandleRefines, RejectRefines, CloseRefines DEF AnswerStep, Refined
<1>6. ASSUME NEW c \in Clients,
             \/ Connect(c) \/ ConnectFails(c) \/ ClientStep(c) \/ ClientOutOfMemory(c)
             \/ ClientError(c) \/ ClientDies(c) \/ Unqueue(c)
      PROVE  Refined
  BY <1>6, ClientRefines DEF Refined
<1>7. ASSUME ServerError PROVE Refined
  BY <1>7, ServerErrorRefines DEF Refined
<1>8. Refined
  BY ONLY <1>1, <1>2, <1>3, <1>4, <1>5, <1>6, <1>7, [Next]_vars DEF Next, Terminated
<1> QED
  BY <1>8 DEF Refined

LEMMA InitRefines == Init => Exchange!Init
BY DEF Init, Exchange!Init, Phase, Call

(* Every behaviour of the server, its clients and the network is one that  *)
(* http.h:85-112 promises: calls served in their order, one at a time, a   *)
(* whole body for the handler, an answer for who stays, and one more at    *)
(* most after stop; a failing socket call spoils only its own exchange.    *)
THEOREM ServerImplementsExchange == Spec => ImplementsExchange
<1>1. IInv /\ ExchangeInv /\ [Next]_vars => (IInv /\ ExchangeInv)'
  BY NextIInv, NextExchangeInv
<1>2. Spec => [](IInv /\ ExchangeInv)
  BY InitIInv, InitExchangeInv, <1>1, PTL DEF Spec
<1>3. Spec => Exchange!Spec
  BY <1>2, InitRefines, NextRefines, PTL DEF Spec, Exchange!Spec
<1> QED
  BY <1>3 DEF ImplementsExchange
===============================================================================
