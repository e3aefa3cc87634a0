------------------------------- MODULE MCSync -------------------------------
(* Seconds of two milliseconds, with deadlines that carry and deadlines    *)
(* that do not; a DWORD of four values, with a timeout that fits, one that *)
(* is INFINITE and one that is cut off.                                    *)
EXTENDS Sync

SyncSpec == SyncInit /\ [][SyncNext]_<<platform, syncVars>> /\ SyncFairness
=============================================================================
