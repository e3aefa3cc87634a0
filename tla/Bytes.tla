-------------------------------- MODULE Bytes --------------------------------
(***************************************************************************)
(* The growing blocks of src/string/string.c and src/buffer/buffer.c, as   *)
(* functions of the calls made on them.  Sizes are size_t, numbers modulo  *)
(* Width; what the block holds is not modelled, only how much.             *)
(***************************************************************************)
EXTENDS Naturals, SequencesExt

CONSTANTS
  Width,           \* the number of values of a size_t
  MaxBlock,        \* the largest block there can be
  InitialCapacity  \* TEN_STRING_INITIAL_CAPACITY, TEN_BUFFER_INITIAL_CAPACITY

ASSUME BytesAssumption ==
  /\ Width \in Nat /\ MaxBlock \in Nat /\ 2 * MaxBlock < Width
  /\ InitialCapacity \in 1 .. MaxBlock

\* returns is FALSE once a call on the block never ends.
Block(length, capacity) == [length |-> length, capacity |-> capacity, returns |-> TRUE]

(* ten_string_create and ten_string_substring of n characters, and         *)
(* ten_string_empty of none, when there is memory.                         *)
StringOf(n) == Block(n, Max({InitialCapacity, n + 1}))

EmptyBuffer == Block(0, 0)

-----------------------------------------------------------------------------
(* Growth                                                                  *)

Never == Width

(* The capacity is doubled until it holds what is needed; from 0, which    *)
(* the doubling wraps to, it does not get any further, and in no case does *)
(* it have more than Width values.                                         *)
Doubled(capacity, needed) ==
  LET after[k \in 0 .. Width] ==
        CASE k > 0 -> (2 * after[k - 1]) % Width
          [] k = 0 /\ capacity = 0 -> InitialCapacity
          [] OTHER -> (2 * capacity) % Width
      enough == {k \in 0 .. Width : after[k] >= needed}
  IN  IF enough = {} THEN Never ELSE after[Min(enough)]

(* n bytes and nul more (the string's final NUL, which is not counted in   *)
(* its length), with or without memory for a larger block.                 *)
Extended(b, n, nul, memory) ==
  LET needed == (b.length + n + nul) % Width
      larger == Doubled(b.capacity, needed)
      longer == [b EXCEPT !.length = (@ + n) % Width]
  IN  CASE needed <= b.capacity -> longer
        [] needed > b.capacity /\ larger = Never -> [b EXCEPT !.returns = FALSE]
        [] needed > b.capacity /\ larger <= MaxBlock /\ memory -> [longer EXCEPT !.capacity = larger]
        [] OTHER -> b

StringAppend(b, n, memory) == Extended(b, n, 1, memory)
BufferWrite(b, n, memory) == Extended(b, n, 0, memory)
BufferClear(b) == [b EXCEPT !.length = 0]

(* ten_string_substring does not answer TEN_ERROR_OUT_OF_RANGE.            *)
InString(b, start, n) ==
  start <= b.length /\ n <= (b.length - start) % Width

-----------------------------------------------------------------------------
(* A sequence of calls: nothing follows one that does not return           *)

Called(b, call) ==
  CASE ~b.returns -> b
    [] b.returns /\ call.op = "append" -> StringAppend(b, call.size, call.memory)
    [] b.returns /\ call.op = "write" -> BufferWrite(b, call.size, call.memory)
    [] b.returns /\ call.op = "clear" -> BufferClear(b)

Calls(b, calls) ==
  LET after[i \in 0 .. Len(calls)] == IF i = 0 THEN b ELSE Called(after[i - 1], calls[i])
  IN  after[Len(calls)]
=============================================================================
