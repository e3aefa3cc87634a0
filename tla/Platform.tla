------------------------------ MODULE Platform ------------------------------
(***************************************************************************)
(* The library has one header and two bodies of every system call it makes *)
(* (src/platform/posix and src/platform/windows).  The build picks one; so *)
(* does the initial state, and no step changes it.                         *)
(***************************************************************************)

VARIABLE platform

Platforms == {"posix", "windows"}

Posix == platform = "posix"

Windows == platform = "windows"

=============================================================================
