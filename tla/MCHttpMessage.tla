---------------------------- MODULE MCHttpMessage ----------------------------
(* Two spellings of the name of a header, of the Host line and of the      *)
(* length.                                                                 *)
EXTENDS HttpMessage, TLC

CONSTANTS x, X, host, HOST, length, LENGTH, connection, b1, b2

Spellings ==
  (x :> "x") @@ (X :> "x") @@ (host :> "host") @@ (HOST :> "host")
    @@ (length :> "length") @@ (LENGTH :> "length") @@ (connection :> "connection")

SomeBodies == {<<>>, <<b1>>, <<b2, b1>>}
SomeStatuses == {0, 200}

\* No value is the library's, and none is compared with another.
Interchangeable == Permutations(Values)
=============================================================================
