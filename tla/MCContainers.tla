---------------------------- MODULE MCContainers ----------------------------
(* One program that uses either a map or a list.  The two share nothing,   *)
(* so that the interleavings of both would show nothing more.              *)
(*                                                                         *)
(* The map: four keys, two with the same hash, one that shares their       *)
(* bucket until the table has grown twice, one elsewhere.  The list:       *)
(* sizes modulo 32, so that reserving 16 elements of 2 bytes asks for a    *)
(* block of none and reserving 17 for one of 2 bytes.                      *)
EXTENDS HashMap, List, TLC

CONSTANTS k1, k2, k3, k4

VARIABLE program

SomeHash == (k1 :> 1) @@ (k2 :> 1) @@ (k3 :> 5) @@ (k4 :> 6)

Symmetry == Permutations(Nodes) \cup Permutations(Elements)

ContainersInit == program \in {"map", "list"} /\ Init /\ ListInit

ContainersNext ==
  \/ program = "map" /\ Next /\ UNCHANGED <<program, listVars>>
  \/ program = "list" /\ ListNext /\ UNCHANGED <<program, vars>>

ContainersSpec == ContainersInit /\ [][ContainersNext]_<<program, vars, listVars>>
=============================================================================
