---------------------------- MODULE MCHttpServer ----------------------------
(* Small instances of HttpServer: requests with and without a body, with a *)
(* head of one piece or one that is too long, and malformed ones.          *)
EXTENDS HttpServerRefinement, TLC

Request(h, b, w) == [head |-> h, body |-> b, wellFormed |-> w]

SomeRequests == {Request(1, 2, TRUE), Request(1, 0, FALSE), Request(3, 0, TRUE)}
TwoRequests == {Request(2, 1, TRUE), Request(1, 0, FALSE)}
OneRequest == {Request(1, 1, TRUE)}

(* A bound: memory fails on the exchange of the one client, socket calls   *)
(* fail on the connection of the other.                                    *)
BreaksElsewhere == broken \cap Unlucky = {}
=============================================================================
