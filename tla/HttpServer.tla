------------------------------ MODULE HttpServer ------------------------------
(***************************************************************************)
(* The HTTP server of src/http/http.c, the clients that talk to it with    *)
(* ten_http_client_send, and the connections between them.                 *)
(*                                                                         *)
(* One thread runs ten_http_server_run: it polls the listening socket,     *)
(* accepts one connection, serves it to its end, closes it, and looks at   *)
(* the stopping flag again.  The owner, another thread, creates the server,*)
(* may stop it, and destroys it when run has returned.  A step is one      *)
(* system call, or what a thread does without one.                         *)
(*                                                                         *)
(* A connection carries units, the pieces TCP may deliver separately: a    *)
(* request has head units, of which the last completes the blank line, and *)
(* then body units, numbered from 1; a response has one head unit.         *)
(***************************************************************************)
EXTENDS Naturals, SequencesExt

CONSTANTS
  Clients,         \* callers of ten_http_client_send, one connection each
  Requests,        \* the requests they may send: see RequestsAssumption
  MaxHead,         \* TEN_HTTP_MAX_HEADER_SIZE, in units
  AnswerBody,      \* units of the body the handler puts into its response
  Backlog,         \* connections the listening socket queues
  Unlucky,         \* clients on whose exchange allocations may fail, at either end
  QueueDrops,      \* whether the system unqueues a connection its client left
  SigpipeIgnored,  \* whether the host program ignores SIGPIPE
  None

(* Content-Length is what the sender computed from its body, so it is the  *)
(* number of body units; a malformed request has no usable request line.   *)
ASSUME RequestsAssumption ==
  /\ Requests \subseteq [head : Nat \ {0}, body : Nat, wellFormed : BOOLEAN]
  /\ MaxHead \in Nat /\ AnswerBody \in Nat /\ Backlog \in Nat \ {0}
  /\ Unlucky \subseteq Clients /\ QueueDrops \in BOOLEAN /\ SigpipeIgnored \in BOOLEAN
  /\ None \notin Clients

VARIABLES
  owner,      \* "new", "open", "failed" or "destroyed": the server's life
  stopping,   \* server->stopping; its mutex makes each access one step
  srv,        \* where ten_http_server_run is: see ServerPoints
  conn,       \* the connection it serves, or None
  raw,        \* units in the raw buffer of ten__http_read_until_headers_end
  body,       \* the body units of the request, as ten__http_read_body stored them
  out,        \* response units ten__http_send_all has still to send
  backlog,    \* connections queued on the listening socket
  link,       \* what became of each client's connection: see Links
  up, down,   \* units in flight to the server, to the client
  torn,       \* connections the server closed with request units unread
  cli,        \* where ten_http_client_send is: see ClientPoints
  req,        \* the request each client sends
  sent,       \* units of it already sent
  got,        \* response units the client has stored
  result,     \* "ok" or "failed" once ten_http_client_send has returned
  status,     \* history: the response sent on each connection
  seen,       \* history: the body each client's handler call saw, or None
  late,       \* history: connections accepted although stopping was set
  broken      \* history: connections on which a receive or a send failed, the
              \* client being there

owners == <<owner, stopping>>
server == <<srv, conn, raw, body, out>>
net    == <<backlog, link, up, down, torn>>
client == <<cli, req, sent, got, result>>
hist   == <<status, seen, late, broken>>
vars   == <<owners, server, net, client, hist>>

ServerPoints == {"off", "check", "poll", "accept", "head", "parse", "body",
                 "handler", "respond", "send", "close", "returned", "killed"}
Links == {"none", "queued", "open", "closed", "reset"}
ClientPoints == {"start", "sending", "receiving", "done", "gone"}
Statuses == {"none", "200", "400", "damaged"}

Least(m, n) == IF m < n THEN m ELSE n
Left(c) == cli[c] \in {"done", "gone"}  \* the client has closed its socket
Length(r) == r.head + r.body
AnswerLength(s) == CASE s = "none" -> 0 [] s = "400" -> 1 [] OTHER -> 1 + AnswerBody

Init ==
  /\ owner = "new" /\ stopping = FALSE
  /\ srv = "off" /\ conn = None /\ raw = 0 /\ body = <<>> /\ out = 0
  /\ backlog = <<>>
  /\ link = [c \in Clients |-> "none"]
  /\ up = [c \in Clients |-> 0] /\ down = [c \in Clients |-> 0]
  /\ torn = {}
  /\ cli = [c \in Clients |-> "start"]
  /\ req \in [Clients -> Requests]
  /\ sent = [c \in Clients |-> 0] /\ got = [c \in Clients |-> 0]
  /\ result = [c \in Clients |-> "none"]
  /\ status = [c \in Clients |-> "none"]
  /\ seen = [c \in Clients |-> None]
  /\ late = 0 /\ broken = {}

-----------------------------------------------------------------------------
(* The owner                                                               *)

(* A create that fails closes the listening socket it opened.              *)
Create ==
  /\ owner = "new"
  /\ owner' \in {"open", "failed"}
  /\ UNCHANGED <<stopping, server, net, client, hist>>

Stop ==
  /\ owner = "open" /\ ~stopping
  /\ stopping' = TRUE
  /\ UNCHANGED <<owner, server, net, client, hist>>

(* Called after run has returned; closing the listening socket resets the  *)
(* connections still queued on it.                                         *)
Destroy ==
  /\ owner = "open" /\ srv = "returned"
  /\ owner' = "destroyed"
  /\ backlog' = <<>>
  /\ link' = [c \in Clients |-> IF link[c] = "queued" THEN "reset" ELSE link[c]]
  /\ UNCHANGED <<stopping, server, up, down, torn, client, hist>>

-----------------------------------------------------------------------------
(* ten_http_server_run                                                     *)

Goes(from, to) ==
  /\ srv = from
  /\ srv' = to
  /\ UNCHANGED <<owners, conn, raw, body, out, net, client, hist>>

RunStart == owner = "open" /\ Goes("off", "check")

RunCheck == Goes("check", IF stopping THEN "returned" ELSE "poll")

PollReady == backlog # <<>> /\ Goes("poll", "accept")

\* Mutant: the flag is only looked at when the poll found a connection.
PollIdle_KeepsPolling == backlog = <<>> /\ Goes("poll", "poll")

(* The 200 ms are over.                                                    *)
PollIdle == backlog = <<>> /\ Goes("poll", "check")

(* select was interrupted.                                                 *)
PollError == Goes("poll", "check")

(* accept blocks while the queue is empty.                                 *)
Accept ==
  /\ srv = "accept" /\ backlog # <<>>
  /\ srv' = "head"
  /\ conn' = Head(backlog)
  /\ backlog' = Tail(backlog)
  /\ link' = [link EXCEPT ![conn'] = "open"]
  /\ raw' = 0 /\ body' = <<>>
  /\ late' = IF stopping THEN late + 1 ELSE late
  /\ UNCHANGED <<owners, out, up, down, torn, client, status, seen, broken>>

(* No memory for the ten_socket_t: the connection is closed at once.       *)
AcceptOutOfMemory ==
  /\ srv = "accept" /\ backlog # <<>> /\ Head(backlog) \in Unlucky
  /\ srv' = "check"
  /\ backlog' = Tail(backlog)
  /\ link' = [link EXCEPT ![Head(backlog)] = "closed"]
  /\ torn' = IF up[Head(backlog)] > 0 THEN torn \cup {Head(backlog)} ELSE torn
  /\ UNCHANGED <<owners, conn, raw, body, out, up, down, client, hist>>

AcceptError == Goes("accept", "check")

(* One recv of up to n units; they are stored unless the buffer could not  *)
(* grow.                                                                   *)
Receive(n) ==
  /\ n \in 1 .. up[conn]
  /\ up' = [up EXCEPT ![conn] = @ - n]
  /\ UNCHANGED <<owners, conn, out, backlog, link, down, torn, client, hist>>

HeadComplete == raw >= req[conn].head

ReceiveHead ==
  /\ srv = "head" /\ ~HeadComplete /\ raw <= MaxHead
  /\ \E n \in 1 .. up[conn] : Receive(n) /\ raw' = raw + n
  /\ UNCHANGED <<srv, body>>

HeadDone == Goes("head", "parse") /\ HeadComplete

\* Mutant: returns to the loop without closing the connection.
HeadFails_LeavesOpen ==
  /\ Goes("head", "check")
  /\ ~HeadComplete /\ (raw > MaxHead \/ Left(conn) \/ conn \in Unlucky)

\* Mutant: the size is tested before the blank line is looked for.
HeadFails_SizeFirst ==
  /\ Goes("head", "close")
  /\ raw > MaxHead \/ Left(conn) \/ conn \in Unlucky

(* The head is too long, the connection has ended, or there is no memory.  *)
HeadFails ==
  /\ Goes("head", "close")
  /\ ~HeadComplete /\ (raw > MaxHead \/ Left(conn) \/ conn \in Unlucky)

(* A socket call fails although the client is there: it was interrupted,   *)
(* timed out or found the connection reset on the way.  No call is         *)
(* repeated, and what follows is what follows the connection's end.  An    *)
(* error may come at any time and need not come: the actions named ...Error*)
(* are under no fairness condition.                                        *)
Breaks(from, to) ==
  /\ srv = from /\ ~Left(conn)
  /\ srv' = to
  /\ broken' = broken \cup {conn}
  /\ UNCHANGED <<owners, conn, raw, body, out, net, client, status, seen, late>>

HeadError == Breaks("head", "close") /\ ~HeadComplete /\ raw <= MaxHead

(* No request line, or no memory, the body buffer's included.              *)
ParseFails ==
  /\ Goes("parse", "respond")
  /\ ~req[conn].wellFormed \/ conn \in Unlucky

\* Mutant: what was read behind the head is dropped.
ParseRequest_NoPrefix ==
  /\ srv = "parse" /\ req[conn].wellFormed
  /\ srv' = "body"
  /\ body' = <<>>
  /\ UNCHANGED <<owners, conn, raw, out, net, client, hist>>

(* The body units read behind the head are taken first.  A failed write is *)
(* not noticed.                                                            *)
ParseRequest ==
  /\ srv = "parse" /\ req[conn].wellFormed
  /\ srv' = "body"
  /\ LET take == Least(raw - req[conn].head, req[conn].body)
     IN  \/ body' = [i \in 1 .. take |-> i]
         \/ conn \in Unlucky /\ body' = <<>>
  /\ UNCHANGED <<owners, conn, raw, out, net, client, hist>>

Missing == req[conn].body - Len(body)

\* The number of the body unit that arrives next.
Arriving == sent[conn] - up[conn] - req[conn].head + 1

ReceiveBody ==
  /\ srv = "body" /\ Missing > 0
  /\ \E n \in 1 .. Missing :
       /\ Receive(n)
       /\ \/ body' = body \o [i \in 1 .. n |-> Arriving + i - 1]
          \/ conn \in Unlucky /\ body' = body
  /\ UNCHANGED <<srv, raw>>

\* Mutant: one unit is left unread.
BodyDone_OneShort == Goes("body", "handler") /\ (Missing <= 1 \/ Left(conn))

(* The body is complete, or the connection has ended: either way the       *)
(* handler gets what there is.                                             *)
BodyDone == Goes("body", "handler") /\ (Missing = 0 \/ Left(conn))

\* An error ends the body too, and is not told from its end.
BodyError == Breaks("body", "handler") /\ Missing > 0

(* No memory for the response: the handler is not called.                  *)
ResponseOutOfMemory ==
  /\ conn \in Unlucky /\ srv \in {"handler", "respond"}
  /\ Goes(srv, "close")

(* The response the server now starts to send.                             *)
Answers(s) ==
  /\ srv' = "send"
  /\ status' = [status EXCEPT ![conn] = s]
  /\ out' = AnswerLength(s)
  /\ UNCHANGED <<owners, conn, raw, body, net, client, late, broken>>

(* Without an output buffer nothing is sent; the writes into it are not    *)
(* checked.                                                                *)
Written(s) == IF conn \in Unlucky THEN {s, "damaged", "none"} ELSE {s}

Handle ==
  /\ srv = "handler"
  /\ seen' = [seen EXCEPT ![conn] = body]
  /\ \E s \in Written("200") : Answers(s)

Respond400 ==
  /\ srv = "respond"
  /\ \E s \in Written("400") : Answers(s)
  /\ UNCHANGED seen

(* send takes what it can; the kernel takes and discards what is sent to a *)
(* client that has left, until it knows.                                   *)
Send ==
  /\ srv = "send" /\ out > 0
  /\ \E n \in 1 .. out :
       /\ out' = out - n
       /\ down' = IF Left(conn) THEN down ELSE [down EXCEPT ![conn] = @ + n]
  /\ UNCHANGED <<owners, srv, conn, raw, body, backlog, link, up, torn, client, hist>>

SendFails == Goes("send", "close") /\ Left(conn)

SendError == Breaks("send", "close") /\ out > 0

(* What was sent to a client that has left comes back as a reset; the next *)
(* send(..., 0) raises SIGPIPE, which ends the process unless the host     *)
(* program ignores it.                                                     *)
SendKilled ==
  /\ Goes("send", "killed")
  /\ ~SigpipeIgnored /\ Left(conn) /\ out < AnswerLength(status[conn])

SendDone == out = 0 /\ Goes("send", "close")

(* Closing a socket with units unread resets the connection.               *)
Close ==
  /\ srv = "close"
  /\ srv' = "check"
  /\ conn' = None
  /\ out' = 0
  /\ link' = [link EXCEPT ![conn] = "closed"]
  /\ torn' = IF up[conn] > 0 THEN torn \cup {conn} ELSE torn
  /\ UNCHANGED <<owners, raw, body, backlog, up, down, client, hist>>

-----------------------------------------------------------------------------
(* ten_http_client_send                                                    *)

Connect(c) ==
  /\ cli[c] = "start"
  /\ owner = "open" /\ Len(backlog) < Backlog
  /\ cli' = [cli EXCEPT ![c] = "sending"]
  /\ backlog' = Append(backlog, c)
  /\ link' = [link EXCEPT ![c] = "queued"]
  /\ UNCHANGED <<owners, server, up, down, torn, req, sent, got, result, hist>>

Returns(c, r) ==
  /\ cli' = [cli EXCEPT ![c] = "done"]
  /\ result' = [result EXCEPT ![c] = r]
  /\ UNCHANGED <<owners, server, net, req, sent, got, hist>>

ConnectFails(c) == cli[c] = "start" /\ Returns(c, "failed")

ClientSend(c) ==
  /\ cli[c] = "sending" /\ link[c] \in {"queued", "open"}
  /\ \E n \in 1 .. Length(req[c]) - sent[c] :
       /\ sent' = [sent EXCEPT ![c] = @ + n]
       /\ up' = [up EXCEPT ![c] = @ + n]
  /\ cli' = [cli EXCEPT ![c] = IF sent'[c] = Length(req[c]) THEN "receiving" ELSE "sending"]
  /\ UNCHANGED <<owners, server, backlog, link, down, torn, req, got, result, hist>>

(* The server is gone, or there is no memory for the request.              *)
ClientSendFails(c) ==
  /\ cli[c] = "sending" /\ (link[c] \in {"closed", "reset"} \/ c \in Unlucky)
  /\ Returns(c, "failed")

(* A socket call of the client fails; the call returns r.                  *)
ClientBreaks(c, r) ==
  /\ cli' = [cli EXCEPT ![c] = "done"]
  /\ result' = [result EXCEPT ![c] = r]
  /\ broken' = broken \cup {c}
  /\ UNCHANGED <<owners, server, net, req, sent, got, status, seen, late>>

ClientSendError(c) == cli[c] = "sending" /\ ClientBreaks(c, "failed")

Complete(c) == status[c] # "none" /\ got[c] >= AnswerLength(status[c])

ClientReceive(c) ==
  /\ cli[c] = "receiving" /\ ~Complete(c)
  /\ \E n \in 1 .. down[c] :
       /\ down' = [down EXCEPT ![c] = @ - n]
       /\ \/ got' = [got EXCEPT ![c] = @ + n]
          \/ c \in Unlucky /\ got[c] > 0 /\ UNCHANGED got
  /\ UNCHANGED <<owners, server, backlog, link, up, torn, cli, req, sent, result, hist>>

(* What a damaged response parses as is anybody's guess.                   *)
ClientComplete(c) ==
  /\ cli[c] = "receiving" /\ Complete(c)
  /\ \/ status[c] # "damaged" /\ Returns(c, "ok")
     \/ (status[c] = "damaged" \/ c \in Unlucky) /\ Returns(c, "failed")

(* The connection ended, in order or by a reset that discards what was in  *)
(* flight.  With the head at hand the call succeeds, whatever is missing   *)
(* from the body.                                                          *)
ClientEnd(c) ==
  /\ cli[c] = "receiving" /\ ~Complete(c)
  /\ link[c] \in {"closed", "reset"} /\ (down[c] = 0 \/ c \in torn)
  /\ Returns(c, IF got[c] > 0 THEN "ok" ELSE "failed")

\* As at the end of the connection: the head is enough for the call to succeed.
ClientReceiveError(c) ==
  /\ cli[c] = "receiving" /\ ~Complete(c)
  /\ ClientBreaks(c, IF got[c] > 0 THEN "ok" ELSE "failed")

ClientOutOfMemory(c) ==
  /\ c \in Unlucky /\ cli[c] = "receiving"
  /\ Returns(c, "failed")

-----------------------------------------------------------------------------
(* The world outside: a client's process ends, a queued connection whose   *)
(* client is gone leaves the queue.                                        *)

ClientDies(c) ==
  /\ cli[c] \in {"sending", "receiving"}
  /\ cli' = [cli EXCEPT ![c] = "gone"]
  /\ UNCHANGED <<owners, server, net, req, sent, got, result, hist>>

Unqueue(c) ==
  /\ QueueDrops
  /\ link[c] = "queued" /\ Left(c)
  /\ \E i \in DOMAIN backlog : backlog[i] = c /\ backlog' = RemoveAt(backlog, i)
  /\ link' = [link EXCEPT ![c] = "reset"]
  /\ UNCHANGED <<owners, server, up, down, torn, client, hist>>

Terminated ==
  /\ owner \in {"failed", "destroyed"} /\ \A c \in Clients : Left(c)
  /\ UNCHANGED vars

LoopStep ==
  \/ RunStart \/ RunCheck \/ PollIdle \/ AcceptOutOfMemory
ReadStep ==
  \/ ReceiveHead \/ HeadDone \/ HeadFails \/ ParseFails \/ ParseRequest
  \/ ReceiveBody \/ BodyDone \/ ResponseOutOfMemory
AnswerStep ==
  \/ Handle \/ Respond400 \/ Send \/ SendFails \/ SendKilled \/ SendDone \/ Close
ClientStep(c) ==
  \/ ClientSend(c) \/ ClientSendFails(c) \/ ClientReceive(c)
  \/ ClientComplete(c) \/ ClientEnd(c)

ServerError == HeadError \/ BodyError \/ SendError
ClientError(c) == ClientSendError(c) \/ ClientReceiveError(c)

Next ==
  \/ Create \/ Stop \/ Destroy
  \/ LoopStep \/ PollReady \/ PollError \/ Accept \/ AcceptError
  \/ ReadStep \/ AnswerStep \/ ServerError
  \/ \E c \in Clients :
       \/ Connect(c) \/ ConnectFails(c) \/ ClientStep(c) \/ ClientOutOfMemory(c)
       \/ ClientError(c) \/ ClientDies(c) \/ Unqueue(c)
  \/ Terminated

Spec == Init /\ [][Next]_vars

(* The server's thread and every connected client go on when they can, the *)
(* handler returns, select and accept do not fail forever when connections *)
(* wait, and the owner destroys a server that has stopped.  Nobody has to  *)
(* connect, or to stop the server.                                         *)
Fairness ==
  /\ WF_vars(LoopStep) /\ SF_vars(PollReady) /\ SF_vars(Accept)
  /\ WF_vars(ReadStep) /\ WF_vars(AnswerStep)
  /\ WF_vars(Destroy)
  /\ \A c \in Clients : WF_vars(ClientStep(c))

FairSpec == Spec /\ Fairness

-----------------------------------------------------------------------------
(* Properties                                                              *)

TypeOK ==
  /\ owner \in {"new", "open", "failed", "destroyed"} /\ stopping \in BOOLEAN
  /\ srv \in ServerPoints /\ conn \in Clients \cup {None}
  /\ raw \in Nat /\ body \in Seq(Nat) /\ out \in Nat
  /\ backlog \in Seq(Clients) /\ link \in [Clients -> Links] /\ torn \subseteq Clients
  /\ up \in [Clients -> Nat] /\ down \in [Clients -> Nat]
  /\ cli \in [Clients -> ClientPoints] /\ req \in [Clients -> Requests]
  /\ sent \in [Clients -> Nat] /\ got \in [Clients -> Nat]
  /\ result \in [Clients -> {"none", "ok", "failed"}]
  /\ status \in [Clients -> Statuses] /\ late \in Nat /\ broken \subseteq Clients
  /\ seen \in [Clients -> {None} \cup Seq(Nat)]

(* The only connection the server has open is the one it is serving, and   *)
(* it has none when run returns: every path through the handling of a      *)
(* connection ends in its close (line 1058).                               *)
Serving == {"head", "parse", "body", "handler", "respond", "send", "close", "killed"}
OneOpenConnection ==
  \A c \in Clients : link[c] = "open" <=> (c = conn /\ srv \in Serving)

(* The handler sees the client's own body, complete and in order, or its   *)
(* beginning when the client went away or a receive failed; allocations    *)
(* and socket calls that fail on other connections make no difference.     *)
FullBody(c) == [i \in 1 .. req[c].body |-> i]
HandlerSeesTheBody ==
  \A c \in Clients \ Unlucky : seen[c] # None =>
    \/ seen[c] = FullBody(c)
    \/ (Left(c) \/ c \in broken) /\ seen[c] = SubSeq(FullBody(c), 1, Len(seen[c]))

(* A client that stays until its call returns, and whose request the       *)
(* handler saw, has the whole response unless a socket call failed on its  *)
(* connection: the server has read the request to its end when it closes,  *)
(* so the close does not discard the answer.                               *)
AnswerArrives ==
  \A c \in Clients \ (Unlucky \cup broken) : cli[c] = "done" /\ seen[c] # None =>
    result[c] = "ok" /\ got[c] = AnswerLength("200")

(* run returns once stop has been called (http.h:104-105 and 109-112), and *)
(* so does every call of ten_http_client_send that got a connection, also  *)
(* one that is still queued when the server is destroyed.                  *)
CallsReturn ==
  /\ (stopping /\ srv # "off") ~> (srv = "returned")
  /\ \A c \in Clients : (cli[c] = "sending") ~> Left(c)

(* socket.h:48-50: a send that fails answers -1; the caller lives on.      *)
SendAnswers == srv # "killed"
=============================================================================
