------------------------------ MODULE ListSpec ------------------------------
(***************************************************************************)
(* What list.h promises: a sequence of elements.  A call that fails leaves *)
(* it as it is.  Once a call has asked for more elements than there are    *)
(* addresses for, list.c keeps none of it: from then on anything may       *)
(* happen.                                                                 *)
(***************************************************************************)
EXTENDS Naturals, Sequences

CONSTANT Elements

VARIABLES items, answer, undefined

vars == <<items, answer, undefined>>

Init == items = <<>> /\ answer = "ok" /\ undefined = FALSE

Insert(i, x) ==
  /\ i \in 0 .. Len(items)
  /\ items' = [j \in 1 .. Len(items) + 1 |->
                 IF j <= i THEN items[j] ELSE IF j = i + 1 THEN x ELSE items[j - 1]]
  /\ answer' = "ok"

RemoveAt(i) ==
  /\ i \in 0 .. Len(items) - 1
  /\ items' = [j \in 1 .. Len(items) - 1 |-> IF j <= i THEN items[j] ELSE items[j + 1]]
  /\ answer' = "ok"

Answers(a) == answer' = a /\ UNCHANGED items

Next ==
  \/ /\ \/ \E i \in 0 .. Len(items) : RemoveAt(i) \/ \E x \in Elements : Insert(i, x)
        \/ \E a \in {"ok", "out_of_range", "out_of_memory"} : Answers(a)
     /\ UNCHANGED undefined
  \/ undefined' = TRUE

Spec == Init /\ [][Next]_vars
=============================================================================
