------------------------ MODULE HttpServerRefinement ------------------------
(***************************************************************************)
(* The server, the clients and their connections implement the exchange    *)
(* that http.h promises.  A caller waits from its connect to its accept,   *)
(* is current until its connection is closed, and run is over when it has  *)
(* returned; reading, sending and polling are invisible.                   *)
(***************************************************************************)
EXTENDS HttpServer

Phase == IF owner = "open" /\ srv = "returned" THEN "over" ELSE owner

Call ==
  [c \in Clients |->
     CASE cli[c] = "start" -> "none"
       [] cli[c] \in {"sending", "receiving"} -> "pending"
       [] cli[c] = "done" -> result[c]
       [] OTHER -> "dead"]

Exchange == INSTANCE HttpExchange WITH
              phase <- Phase,
              stopped <- stopping,
              request <- req,
              call <- Call,
              waiting <- backlog,
              current <- conn,
              overtime <- late > 0,
              handled <- seen,
              answer <- status,
              disturbed <- broken

(* Every behaviour of the server's loop, its clients and the network       *)
(* between them is one of the exchange of http.h:85-112: calls are served  *)
(* in the order of their connects, one at a time and once at most, a whole *)
(* body reaches the handler, a call that went well was answered, and run   *)
(* returns between two calls, when stop was called, after one more at most;*)
(* a failing socket call spoils the exchange it comes in and no other.     *)
ImplementsExchange == Exchange!Spec
=============================================================================
