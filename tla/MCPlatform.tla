----------------------------- MODULE MCPlatform -----------------------------
(* Two programs on either platform: one that works on files, one that has  *)
(* the system's other objects.  They share nothing but the platform, so    *)
(* that the interleavings of both would show nothing more.                 *)
EXTENDS File, Handles, TLC

VARIABLE program

PlatformInit ==
  /\ program \in {"files", "handles"} /\ Init /\ HandlesInit
  /\ program = "handles" => \A p \in Paths : dir[p] = None

PlatformNext ==
  \/ program = "files" /\ Next /\ UNCHANGED <<program, handleVars>>
  \/ program = "handles" /\ HandlesNext /\ UNCHANGED <<program, vars>>

PlatformSpec == PlatformInit /\ [][PlatformNext]_<<program, vars, handleVars>>

Symmetry == Permutations(Threads) \cup Permutations(Paths) \cup Permutations(Files)
=============================================================================
