------------------------------- MODULE MCJson -------------------------------
(* One program that has either a JSON object or a parse under way.  The    *)
(* two share nothing, so that the interleavings of both would show nothing *)
(* more.                                                                   *)
(*                                                                         *)
(* The object: three keys in a table that grows with the third.  k1 and k3 *)
(* have the same hash, k2 is on their chain until the table has grown.     *)
EXTENDS JsonObject, JsonParser, TLC

CONSTANTS k1, k2, k3

VARIABLE program

SomeHash == (k1 :> 1) @@ (k2 :> 4) @@ (k3 :> 1)

Symmetry == Permutations(Nodes)

JsonInit == program \in {"object", "parser"} /\ Init /\ ParserInit

JsonNext ==
  \/ program = "object" /\ Next /\ UNCHANGED <<program, parserVars>>
  \/ program = "parser" /\ ParserNext /\ UNCHANGED <<program, vars>>

JsonSpec == JsonInit /\ [][JsonNext]_<<program, vars, parserVars>>
=============================================================================
