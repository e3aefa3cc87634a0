------------------------------ MODULE Dictionary ------------------------------
(***************************************************************************)
(* What map.h promises the caller of a map: a partial function from keys   *)
(* to values.  answer is what the last call returned.  A create or a set   *)
(* may fail for lack of memory, and then it has changed nothing.           *)
(***************************************************************************)
CONSTANTS Keys, Values, None

VARIABLES exists, value, answer

vars == <<exists, value, answer>>

Empty == [k \in Keys |-> None]

Init == exists = FALSE /\ value = Empty /\ answer = "ok"

Create ==
  /\ ~exists
  /\ \/ exists' = TRUE /\ answer' = "ok"
     \/ exists' = FALSE /\ answer' = "out_of_memory"
  /\ UNCHANGED value

Destroy == exists /\ exists' = FALSE /\ value' = Empty /\ UNCHANGED answer

Set(k, v) ==
  exists /\ value' = [value EXCEPT ![k] = v] /\ answer' = "ok" /\ UNCHANGED exists

SetFails(k) ==
  exists /\ value[k] = None /\ answer' = "out_of_memory" /\ UNCHANGED <<exists, value>>

Get(k) ==
  /\ exists
  /\ answer' = IF value[k] = None THEN "not_found" ELSE value[k]
  /\ UNCHANGED <<exists, value>>

Remove(k) ==
  /\ exists
  /\ answer' = IF value[k] = None THEN "not_found" ELSE "ok"
  /\ value' = [value EXCEPT ![k] = None]
  /\ UNCHANGED exists

Next ==
  \/ Create \/ Destroy
  \/ \E k \in Keys, v \in Values : Set(k, v)
  \/ \E k \in Keys : SetFails(k) \/ Get(k) \/ Remove(k)

Spec == Init /\ [][Next]_vars
=============================================================================
