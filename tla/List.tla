-------------------------------- MODULE List --------------------------------
(***************************************************************************)
(* The dynamic array of src/list/list.c: a block of memory, a count and a  *)
(* capacity, with the sizes of blocks in integers of a limited width.  The *)
(* caller serialises its calls, so a call is one step; the value of an     *)
(* insertion is not a pointer into the list itself.                        *)
(***************************************************************************)
EXTENDS Integers

CONSTANTS
  Elements,         \* values of an element
  Junk,             \* what memory holds before it is written
  ElementSize,      \* list->element_size
  Width,            \* size_t counts modulo Width
  MaxBlock,         \* no larger block can be allocated (PTRDIFF_MAX)
  InitialCapacity,  \* TEN_LIST_INITIAL_CAPACITY
  Reservations      \* the capacities callers ask ten_list_reserve for

ASSUME ListAssumption ==
  /\ ElementSize \in Nat \ {0} /\ InitialCapacity \in Nat \ {0}
  /\ Width \in Nat /\ MaxBlock \in Nat
  /\ 2 * MaxBlock < Width /\ InitialCapacity * ElementSize < Width
  /\ Reservations \subseteq 0 .. Width - 1
  /\ Junk \notin Elements

VARIABLES
  block,       \* how many bytes list->data points to
  data,        \* what they hold, element by element
  listCount,   \* list->count
  capacity,    \* list->capacity
  beyond,      \* a capacity was asked for that no address space has room for
  listAnswer   \* what the last call returned

listVars == <<block, data, listCount, capacity, beyond, listAnswer>>

Slots == 0 .. MaxBlock - 1   \* no block holds more

ListInit ==
  /\ block = 0 /\ listCount = 0 /\ capacity = 0
  /\ data = [i \in Slots |-> Junk]
  /\ beyond = FALSE /\ listAnswer = "ok"

-----------------------------------------------------------------------------
(* ten__list_grow                                                          *)

NewCapacity(min) ==
  LET doubled == IF capacity = 0 THEN InitialCapacity ELSE (2 * capacity) % Width
  IN  IF doubled < min THEN min ELSE doubled

Bytes(n) == (n * ElementSize) % Width

\* Mutant: the block has the size asked for, the capacity the doubled one.
Room_TightBlock(min) ==
  \/ min <= capacity /\ UNCHANGED <<block, capacity>>
  \/ /\ min > capacity
     /\ Bytes(min) <= MaxBlock
     /\ block' = Bytes(min)
     /\ capacity' = NewCapacity(min)

(* There is room for min elements, or realloc makes some: a block of the   *)
(* size the product comes to in a size_t, which may be less than the old   *)
(* one or nothing when the product has wrapped.                            *)
Room(min) ==
  \/ min <= capacity /\ UNCHANGED <<block, capacity>>
  \/ /\ min > capacity
     /\ Bytes(NewCapacity(min)) <= MaxBlock
     /\ block' = Bytes(NewCapacity(min))
     /\ capacity' = NewCapacity(min)

(* What is written to or read from the block; what is beyond it is anyone's.*)
Within(elements, size) ==
  [j \in Slots |-> IF (j + 1) * ElementSize <= size THEN elements[j] ELSE Junk]

(* No memory: nothing has changed, but for a realloc to a block of size 0, *)
(* which frees the old block before it returns NULL.                       *)
NoRoom(min) ==
  /\ min > capacity
  /\ block' = IF Bytes(NewCapacity(min)) = 0 THEN 0 ELSE block
  /\ data' = Within(data, block')
  /\ listAnswer' = "out_of_memory"
  /\ UNCHANGED <<listCount, capacity>>

-----------------------------------------------------------------------------

\* Mutant: one element too few is moved out of the way.
Shifted_OneShort(i) ==
  [j \in Slots |-> IF i < j /\ j < listCount THEN data[j - 1] ELSE data[j]]

(* The memmove of ten_list_insert at index i.                              *)
Shifted(i) ==
  [j \in Slots |-> IF i < j /\ j <= listCount THEN data[j - 1] ELSE data[j]]

(* ten_list_insert, and ten_list_add at the end.  No block has room for    *)
(* more than MaxBlock elements: only a list whose capacity has wrapped     *)
(* could take more, and is not followed further.                           *)
ListInsert(i, x) ==
  /\ i <= listCount /\ listCount < MaxBlock
  /\ Room(listCount + 1)
  /\ data' = Within([Shifted(i) EXCEPT ![i] = x], block')
  /\ listCount' = listCount + 1
  /\ listAnswer' = "ok"
  /\ UNCHANGED beyond

InsertFails == NoRoom(listCount + 1) /\ UNCHANGED beyond

\* Mutant: the last element is not moved down.
RemoveAt_OneShort(i) ==
  /\ i < listCount
  /\ data' = [j \in Slots |->
                IF i <= j /\ j + 2 < listCount THEN data[j + 1] ELSE data[j]]
  /\ listCount' = listCount - 1
  /\ listAnswer' = "ok"
  /\ UNCHANGED <<block, capacity, beyond>>

(* ten_list_remove_at: the last slot keeps what it held.                   *)
RemoveAt(i) ==
  /\ i < listCount
  /\ data' = [j \in Slots |->
                IF i <= j /\ j + 1 < listCount THEN data[j + 1] ELSE data[j]]
  /\ listCount' = listCount - 1
  /\ listAnswer' = "ok"
  /\ UNCHANGED <<block, capacity, beyond>>

OutOfRange ==
  /\ listAnswer' = "out_of_range"
  /\ UNCHANGED <<block, data, listCount, capacity, beyond>>

Exceeds(c) == beyond' = (beyond \/ c * ElementSize >= Width)

Reserve(c) ==
  /\ Room(c) /\ Exceeds(c)
  /\ data' = Within(data, block')
  /\ listAnswer' = "ok"
  /\ UNCHANGED listCount

ReserveFails(c) == NoRoom(c) /\ Exceeds(c)

ListNext ==
  \/ \E i \in Slots : RemoveAt(i) \/ \E x \in Elements : ListInsert(i, x)
  \/ \E c \in Reservations : Reserve(c) \/ ReserveFails(c)
  \/ InsertFails \/ OutOfRange

ListBehaviour == ListInit /\ [][ListNext]_listVars

-----------------------------------------------------------------------------
(* Properties                                                              *)

(* The variables keep their ranges.                                        *)
ListTypeOK ==
  /\ block \in 0 .. MaxBlock
  /\ data \in [Slots -> Elements \cup {Junk}]
  /\ listCount \in 0 .. MaxBlock /\ capacity \in Nat /\ beyond \in BOOLEAN
  /\ listAnswer \in {"ok", "out_of_range", "out_of_memory"}

(* The elements are within the capacity, and the block has the bytes the   *)
(* capacity stands for: no insertion writes beyond the block.  However     *)
(* large a list grows by insertion, and whatever is reserved that there    *)
(* are addresses for, no capacity is doubled past what a block can have;   *)
(* what ten__list_grow does not see is a reservation whose own size wraps. *)
CapacityIsReal ==
  listCount <= capacity /\ (beyond \/ capacity * ElementSize <= block)

(* No element that can be read was never written: growing, moving up and   *)
(* moving down take every element along, unless a size has wrapped.        *)
NoJunk == beyond \/ \A i \in 0 .. listCount - 1 : data[i] \in Elements

(* A caller sees the sequence of list.h, as long as no one has asked for   *)
(* more than there are addresses for.                                      *)
Items == [i \in 1 .. listCount |-> data[i - 1]]
Sequence == INSTANCE ListSpec
  WITH items <- Items, answer <- listAnswer, undefined <- beyond
ImplementsListSpec == Sequence!Spec
=============================================================================
