---------------------------- MODULE MCThreadPool ----------------------------
(* Instances of ThreadPool and of its refinement for TLC.                  *)
EXTENDS ThreadPoolRefinement
=============================================================================
