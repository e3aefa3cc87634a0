----------------------------- MODULE ListProofs -----------------------------
(***************************************************************************)
(* For every element size, width of size_t and initial capacity, and       *)
(* whatever callers reserve: until a call asks for more elements than      *)
(* there are addresses for, the list stays within its block and is the     *)
(* sequence of list.h.  Growing by insertion never comes to such a size: a *)
(* capacity whose block exists can be doubled without overflow.            *)
(***************************************************************************)
EXTENDS List, Sequences, TLAPS

USE ListAssumption

Inv == ListTypeOK /\ CapacityIsReal /\ NoJunk

-----------------------------------------------------------------------------
(* Arithmetic                                                              *)

(* Products by the element size: they grow with the other factor.          *)
LEMMA TimesMonotone ==
  \A m, n \in Nat : m <= n => m * ElementSize <= n * ElementSize /\ n <= n * ElementSize
<1> SUFFICES ASSUME NEW m \in Nat, NEW n \in Nat, m <= n
             PROVE  m * ElementSize <= n * ElementSize /\ n <= n * ElementSize
  OBVIOUS
<1>1. PICK e \in Nat : ElementSize = e + 1
  <2>1. ElementSize - 1 \in Nat /\ ElementSize = (ElementSize - 1) + 1
    OBVIOUS
  <2> QED
    BY <2>1
<1>2. PICK d \in Nat : n = m + d
  <2>1. n - m \in Nat /\ n = m + (n - m)
    OBVIOUS
  <2> QED
    BY <2>1
<1>3. n * ElementSize = n * e + n /\ n * e \in Nat
  BY <1>1
<1>4. n * ElementSize = m * ElementSize + d * ElementSize /\ d * ElementSize \in Nat
      /\ m * ElementSize \in Nat
  BY <1>2
<1> QED
  BY <1>3, <1>4

LEMMA NoWrap == \A n \in Nat : n < Width => n % Width = n
OBVIOUS

(* A growth makes room for at least what it was asked for, in elements.    *)
LEMMA GrowthIsEnough ==
  ASSUME ListTypeOK, NEW min \in Nat
  PROVE  /\ NewCapacity(min) \in Nat /\ min <= NewCapacity(min)
         /\ Bytes(NewCapacity(min)) \in Nat
<1> DEFINE doubled == IF capacity = 0 THEN InitialCapacity ELSE (2 * capacity) % Width
<1>1. doubled \in Nat
  BY DEF ListTypeOK
<1>2. NewCapacity(min) = IF doubled < min THEN min ELSE doubled
  BY DEF NewCapacity
<1> HIDE DEF doubled
<1>3. NewCapacity(min) \in Nat /\ min <= NewCapacity(min)
  BY <1>1, <1>2
<1>4. NewCapacity(min) * ElementSize \in Nat
  BY <1>3
<1> QED
  BY <1>3, <1>4 DEF Bytes

(* No size has wrapped so far, and none is asked for that would.           *)
Fits(min) ==
  /\ ~beyond
  /\ min * ElementSize < Width \/ min = listCount + 1

(* The capacity ten__list_grow comes to has a size that does not wrap.     *)
LEMMA GrowthDoesNotWrap ==
  ASSUME ListTypeOK, CapacityIsReal, NEW min \in Nat, min > capacity, Fits(min)
  PROVE  Bytes(NewCapacity(min)) = NewCapacity(min) * ElementSize
<1> DEFINE doubled == IF capacity = 0 THEN InitialCapacity ELSE (2 * capacity) % Width
<1>1. capacity \in Nat /\ capacity <= MaxBlock /\ listCount <= capacity /\ listCount \in Nat
  <2>1. capacity <= capacity * ElementSize
    BY TimesMonotone DEF ListTypeOK
  <2> QED
    BY <2>1 DEF ListTypeOK, CapacityIsReal, Fits
<1>2. capacity # 0 => (2 * capacity) % Width = 2 * capacity
  BY <1>1, NoWrap
<1>3. /\ doubled \in Nat /\ doubled >= 1
      /\ capacity # 0 => doubled = 2 * capacity
      /\ capacity = 0 => doubled = InitialCapacity
  BY <1>1, <1>2
<1>4. doubled * ElementSize < Width
  <2> HIDE DEF doubled
  <2>1. CASE capacity = 0
    BY <2>1, <1>3
  <2>2. CASE capacity # 0
    <3>1. capacity * ElementSize <= MaxBlock /\ capacity * ElementSize \in Nat
      BY <1>1 DEF ListTypeOK, CapacityIsReal, Fits
    <3>2. doubled * ElementSize = 2 * (capacity * ElementSize)
      BY <2>2, <1>1, <1>3
    <3> QED
      BY <3>1, <3>2
  <2> QED
    BY <2>1, <2>2
<1>5. NewCapacity(min) = IF doubled < min THEN min ELSE doubled
  BY DEF NewCapacity
<1> HIDE DEF doubled
<1>6. min = listCount + 1 => ~(doubled < min)
  BY <1>1, <1>3
<1>7. NewCapacity(min) \in Nat /\ NewCapacity(min) * ElementSize < Width
  <2>1. CASE doubled < min
    BY <2>1, <1>5, <1>6 DEF Fits
  <2>2. CASE ~(doubled < min)
    BY <2>2, <1>3, <1>4, <1>5
  <2> QED
    BY <2>1, <2>2
<1>8. NewCapacity(min) * ElementSize \in Nat
  BY <1>7
<1> QED
  BY <1>7, <1>8, NoWrap DEF Bytes

(* After Room(min), the block holds min elements.                          *)
LEMMA RoomIsReal ==
  ASSUME ListTypeOK, CapacityIsReal, NEW min \in Nat, Room(min)
  PROVE  /\ block' \in 0 .. MaxBlock /\ capacity' \in Nat
         /\ min <= capacity' /\ listCount <= capacity'
         /\ Fits(min) => capacity' * ElementSize <= block'
<1>1. CASE min <= capacity /\ UNCHANGED <<block, capacity>>
  BY <1>1 DEF ListTypeOK, CapacityIsReal, Fits
<1>2. CASE /\ min > capacity
           /\ Bytes(NewCapacity(min)) <= MaxBlock
           /\ block' = Bytes(NewCapacity(min))
           /\ capacity' = NewCapacity(min)
  <2>1. /\ NewCapacity(min) \in Nat /\ min <= NewCapacity(min)
        /\ Bytes(NewCapacity(min)) \in Nat
    BY GrowthIsEnough
  <2>2. listCount <= capacity /\ listCount \in Nat /\ capacity \in Nat
    BY DEF ListTypeOK, CapacityIsReal
  <2>3. Fits(min) => block' = capacity' * ElementSize
    BY <1>2, GrowthDoesNotWrap
  <2>4. /\ block' \in 0 .. MaxBlock /\ capacity' \in Nat
        /\ min <= capacity' /\ listCount <= capacity'
    BY <1>2, <2>1, <2>2
  <2>5. ASSUME Fits(min)  PROVE capacity' * ElementSize <= block'
    <3>1. block' = capacity' * ElementSize
      BY ONLY <2>3, <2>5
    <3>2. block' \in Nat /\ block' <= block'
      BY ONLY <2>4, ListAssumption
    <3> QED
      BY ONLY <3>1, <3>2, Zenon
  <2> QED
    BY <2>4, <2>5
<1> QED
  BY <1>1, <1>2 DEF Room

(* What is within the block stays as it is.                                *)
LEMMA WithinIsElements ==
  ASSUME NEW d \in [Slots -> Elements \cup {Junk}], NEW size
  PROVE  Within(d, size) \in [Slots -> Elements \cup {Junk}]
BY DEF Within

LEMMA WithinKeeps ==
  ASSUME NEW d, NEW size \in Nat, NEW n \in Nat, n * ElementSize <= size,
         NEW j \in Slots, j < n
  PROVE  Within(d, size)[j] = d[j]
<1>1. j + 1 \in Nat /\ j + 1 <= n
  BY DEF Slots
<1>2. (j + 1) * ElementSize <= n * ElementSize
  BY <1>1, TimesMonotone
<1>3. (j + 1) * ElementSize \in Nat /\ n * ElementSize \in Nat
  BY <1>1
<1>4. (j + 1) * ElementSize <= size
  BY <1>2, <1>3
<1> QED
  BY <1>4 DEF Within

(* A growth that fails leaves the types alone, and the elements too unless *)
(* a size has wrapped.                                                     *)
LEMMA NoRoomKeepsElements ==
  ASSUME Inv, NEW min \in Nat, NoRoom(min)
  PROVE  /\ block' \in 0 .. MaxBlock /\ data' \in [Slots -> Elements \cup {Junk}]
         /\ UNCHANGED <<listCount, capacity>> /\ listAnswer' = "out_of_memory"
         /\ Fits(min) => block' = block /\ \A j \in 0 .. listCount - 1 : data'[j] = data[j]
<1>1. /\ ListTypeOK /\ CapacityIsReal /\ min > capacity /\ capacity \in Nat
      /\ block \in 0 .. MaxBlock /\ data \in [Slots -> Elements \cup {Junk}]
      /\ listCount \in 0 .. MaxBlock
  BY DEF NoRoom, Inv, ListTypeOK
<1>2. block' \in 0 .. MaxBlock
  BY <1>1 DEF NoRoom
<1>3. block' \in Nat /\ data' = Within(data, block')
  BY <1>2 DEF NoRoom
<1>4. data' \in [Slots -> Elements \cup {Junk}]
  BY <1>1, <1>3, WithinIsElements
<1>5. ASSUME Fits(min)
      PROVE  block' = block /\ \A j \in 0 .. listCount - 1 : data'[j] = data[j]
  <2>1. /\ NewCapacity(min) \in Nat /\ min <= NewCapacity(min)
        /\ Bytes(NewCapacity(min)) = NewCapacity(min) * ElementSize
    BY <1>1, <1>5, GrowthIsEnough, GrowthDoesNotWrap
  <2>2. NewCapacity(min) <= NewCapacity(min) * ElementSize
    BY <2>1, TimesMonotone
  <2>3. Bytes(NewCapacity(min)) # 0
    BY <1>1, <2>1, <2>2
  <2>4. block' = block
    BY <2>3 DEF NoRoom
  <2>5. capacity * ElementSize <= block' /\ listCount <= capacity
    BY <1>1, <1>5, <2>4 DEF CapacityIsReal, Fits
  <2>6. ASSUME NEW j \in 0 .. listCount - 1  PROVE data'[j] = data[j]
    <3>1. j \in Slots /\ j < capacity
      BY <1>1, <2>5 DEF Slots
    <3>2. Within(data, block')[j] = data[j]
      BY ONLY <3>1, <1>1, <1>3, <2>5, WithinKeeps
    <3> QED
      BY <3>2, <1>3
  <2> QED
    BY <2>4, <2>6
<1> QED
  BY <1>2, <1>4, <1>5 DEF NoRoom

-----------------------------------------------------------------------------
(* The invariant, operation by operation                                   *)

(* What an insertion leaves in the slots of the list.                      *)
LEMMA InsertEffect ==
  ASSUME Inv, NEW i \in Slots, NEW x \in Elements, ListInsert(i, x)
  PROVE  /\ listCount \in Nat /\ i \in 0 .. listCount /\ listCount + 1 <= MaxBlock
         /\ listCount' = listCount + 1 /\ listAnswer' = "ok" /\ UNCHANGED beyond
         /\ block' \in 0 .. MaxBlock /\ capacity' \in Nat /\ listCount + 1 <= capacity'
         /\ data' \in [Slots -> Elements \cup {Junk}]
         /\ ~beyond => /\ capacity' * ElementSize <= block'
                       /\ \A j \in 0 .. listCount :
                            data'[j] = IF j = i THEN x ELSE IF i < j THEN data[j - 1] ELSE data[j]
<1> DEFINE moved == [Shifted(i) EXCEPT ![i] = x]
<1>1. /\ ListTypeOK /\ CapacityIsReal /\ i \in Nat /\ i <= listCount /\ listCount \in Nat
      /\ listCount + 1 \in Nat /\ listCount + 1 <= MaxBlock
      /\ Room(listCount + 1) /\ listCount' = listCount + 1 /\ listAnswer' = "ok"
      /\ data' = Within(moved, block') /\ beyond' = beyond
  BY DEF Inv, ListInsert, ListTypeOK, Slots
<1>2. /\ block' \in 0 .. MaxBlock /\ capacity' \in Nat /\ listCount + 1 <= capacity'
      /\ ~beyond => capacity' * ElementSize <= block'
  BY <1>1, RoomIsReal DEF Fits
<1>3. Shifted(i) \in [Slots -> Elements \cup {Junk}]
  <2>1. ASSUME NEW j \in Slots, i < j  PROVE data[j - 1] \in Elements \cup {Junk}
    BY <2>1, <1>1 DEF ListTypeOK, Slots
  <2> QED
    BY <2>1, <1>1 DEF Shifted, ListTypeOK
<1>4. moved \in [Slots -> Elements \cup {Junk}] /\ block' \in Nat
  BY <1>2, <1>3
<1>5. data' \in [Slots -> Elements \cup {Junk}]
  <2> HIDE DEF moved
  <2> QED
    BY <1>1, <1>4, WithinIsElements
<1>6. ASSUME ~beyond
      PROVE  capacity' * ElementSize <= block'
  BY <1>2, <1>6
<1>7. ASSUME ~beyond, NEW j \in 0 .. listCount
      PROVE  data'[j] = IF j = i THEN x ELSE IF i < j THEN data[j - 1] ELSE data[j]
  <2>1. j \in Slots /\ j < capacity'
    BY <1>1, <1>2 DEF Slots
  <2>2. data'[j] = moved[j]
    <3> HIDE DEF moved
    <3>1. capacity' \in Nat /\ capacity' * ElementSize <= block'
      BY <1>2, <1>7
    <3>2. Within(moved, block')[j] = moved[j]
      BY ONLY <3>1, <2>1, <1>4, WithinKeeps
    <3> QED
      BY <3>2, <1>1
  <2>3. moved[j] = IF j = i THEN x ELSE IF i < j THEN data[j - 1] ELSE data[j]
    BY <2>1, <1>1, <1>7 DEF Shifted
  <2> QED
    BY <2>2, <2>3
<1> QED
  <2>1. ~beyond => \A j \in 0 .. listCount :
          data'[j] = IF j = i THEN x ELSE IF i < j THEN data[j - 1] ELSE data[j]
    BY <1>7
  <2>2. ~beyond => /\ capacity' * ElementSize <= block'
                   /\ \A j \in 0 .. listCount :
                        data'[j] = IF j = i THEN x ELSE IF i < j THEN data[j - 1] ELSE data[j]
    BY ONLY <1>6, <2>1
  <2>3. listCount \in Nat /\ i \in 0 .. listCount
    BY <1>1
  <2> HIDE DEF moved
  <2> QED
    BY ONLY <1>1, <1>2, <1>5, <2>2, <2>3

LEMMA InsertKeepsInv ==
  ASSUME Inv, NEW i \in Slots, NEW x \in Elements, ListInsert(i, x)
  PROVE  Inv'
<1>1. /\ listCount \in Nat /\ i \in 0 .. listCount /\ listCount + 1 <= MaxBlock
      /\ listCount' = listCount + 1 /\ listAnswer' = "ok" /\ UNCHANGED beyond
      /\ block' \in 0 .. MaxBlock /\ capacity' \in Nat /\ listCount + 1 <= capacity'
      /\ data' \in [Slots -> Elements \cup {Junk}]
      /\ ~beyond => capacity' * ElementSize <= block'
  BY InsertEffect
<1>2. ASSUME ~beyond  PROVE \A j \in 0 .. listCount : data'[j] \in Elements
  <2>1. ASSUME NEW j \in 0 .. listCount  PROVE data'[j] \in Elements
    <3>1. data'[j] = IF j = i THEN x ELSE IF i < j THEN data[j - 1] ELSE data[j]
      BY <1>2, InsertEffect
    <3>2. \A l \in 0 .. listCount - 1 : data[l] \in Elements
      BY <1>2 DEF Inv, NoJunk
    <3> QED
      BY <3>1, <3>2, <1>1
  <2> QED
    BY <2>1
<1>3. NoJunk'
  <2>1. listCount' - 1 = listCount
    BY <1>1
  <2> QED
    BY <1>1, <1>2, <2>1 DEF NoJunk
<1>4. beyond' \in BOOLEAN
  BY <1>1, Zenon DEF Inv, ListTypeOK
<1>5. listCount' \in 0 .. MaxBlock /\ listCount' <= capacity'
  BY <1>1
<1>6. ListTypeOK'
  BY <1>1, <1>4, <1>5 DEF ListTypeOK
<1>7. CapacityIsReal'
  BY <1>1, <1>5 DEF CapacityIsReal
<1> QED
  BY ONLY <1>3, <1>6, <1>7 DEF Inv

LEMMA RemoveKeepsInv ==
  ASSUME Inv, NEW i \in Slots, RemoveAt(i)
  PROVE  Inv'
<1>1. /\ ListTypeOK /\ CapacityIsReal /\ i \in Nat /\ i < listCount /\ listCount \in Nat
      /\ listCount <= MaxBlock
      /\ listCount' = listCount - 1 /\ listAnswer' = "ok" /\ UNCHANGED <<block, capacity, beyond>>
      /\ data' = [j \in Slots |->
                    IF i <= j /\ j + 1 < listCount THEN data[j + 1] ELSE data[j]]
  BY DEF Inv, RemoveAt, ListTypeOK, Slots
<1>2. data' \in [Slots -> Elements \cup {Junk}]
  <2>1. ASSUME NEW j \in Slots, j + 1 < listCount  PROVE data[j + 1] \in Elements \cup {Junk}
    BY <2>1, <1>1 DEF ListTypeOK, Slots
  <2> QED
    BY <2>1, <1>1 DEF ListTypeOK
<1>3. ASSUME ~beyond  PROVE NoJunk'
  <2>1. ASSUME NEW j \in 0 .. listCount' - 1  PROVE data'[j] \in Elements
    <3>1. j \in Slots
      BY <1>1 DEF Slots
    <3>2. data'[j] = IF i <= j THEN data[j + 1] ELSE data[j]
      BY <3>1, <1>1
    <3> QED
      BY <3>2, <1>1, <1>3 DEF Inv, NoJunk
  <2> QED
    BY <2>1 DEF NoJunk
<1>4. NoJunk'
  BY <1>1, <1>3 DEF NoJunk
<1>5. ListTypeOK' /\ CapacityIsReal'
  BY <1>1, <1>2 DEF ListTypeOK, CapacityIsReal
<1> QED
  BY <1>4, <1>5 DEF Inv

LEMMA ReserveKeepsInv ==
  ASSUME Inv, NEW c \in Reservations, Reserve(c)
  PROVE  /\ Inv' /\ UNCHANGED listCount /\ listAnswer' = "ok" /\ beyond' \in BOOLEAN
         /\ ~beyond' => ~beyond /\ \A j \in 0 .. listCount - 1 : data'[j] = data[j]
<1>1. /\ ListTypeOK /\ CapacityIsReal /\ c \in Nat /\ Room(c) /\ beyond \in BOOLEAN
      /\ beyond' = (beyond \/ c * ElementSize >= Width)
      /\ data' = Within(data, block') /\ listAnswer' = "ok" /\ listCount' = listCount
      /\ data \in [Slots -> Elements \cup {Junk}] /\ listCount \in 0 .. MaxBlock
  BY DEF Inv, Reserve, Exceeds, ListTypeOK
<1>2. ~beyond' => ~beyond /\ ~(c * ElementSize >= Width)
  BY <1>1, Zenon
<1>3. ASSUME ~beyond'  PROVE Fits(c)
  <2>1. c * ElementSize \in Nat
    BY <1>1
  <2> QED
    BY <1>2, <1>3, <2>1 DEF Fits
<1>4. /\ block' \in 0 .. MaxBlock /\ capacity' \in Nat /\ listCount <= capacity'
      /\ ~beyond' => capacity' * ElementSize <= block'
  BY <1>1, <1>3, RoomIsReal
<1>5. block' \in Nat
  BY <1>4
<1>6. data' \in [Slots -> Elements \cup {Junk}]
  BY <1>1, <1>5, WithinIsElements
<1>7. ASSUME ~beyond', NEW j \in 0 .. listCount - 1  PROVE data'[j] = data[j]
  <2>1. j \in Slots /\ j < capacity'
    BY <1>1, <1>4 DEF Slots
  <2>2. capacity' * ElementSize <= block'
    BY <1>4, <1>7
  <2>3. Within(data, block')[j] = data[j]
    BY ONLY <2>1, <2>2, <1>4, <1>5, WithinKeeps
  <2> QED
    BY <2>3, <1>1
<1>8. ListTypeOK' /\ CapacityIsReal'
  BY <1>1, <1>4, <1>6 DEF ListTypeOK, CapacityIsReal
<1>9. NoJunk'
  BY <1>1, <1>7 DEF Inv, NoJunk
<1> QED
  BY <1>1, <1>7, <1>8, <1>9 DEF Inv

(* Both failures of a growth.                                              *)
LEMMA FailureKeepsInv ==
  ASSUME Inv, NEW min \in Nat, NoRoom(min), beyond' \in BOOLEAN, ~beyond' => Fits(min)
  PROVE  /\ Inv' /\ UNCHANGED listCount /\ listAnswer' = "out_of_memory"
         /\ ~beyond' => \A j \in 0 .. listCount - 1 : data'[j] = data[j]
<1>1. /\ block' \in 0 .. MaxBlock /\ data' \in [Slots -> Elements \cup {Junk}]
      /\ listCount' = listCount /\ capacity' = capacity /\ listAnswer' = "out_of_memory"
      /\ ~beyond' => block' = block /\ \A j \in 0 .. listCount - 1 : data'[j] = data[j]
  BY NoRoomKeepsElements
<1>2. ListTypeOK'
  BY <1>1 DEF Inv, ListTypeOK
<1>3. CapacityIsReal'
  BY <1>1 DEF Inv, CapacityIsReal, Fits
<1>4. NoJunk'
  BY <1>1 DEF Inv, NoJunk, Fits
<1> QED
  BY <1>1, <1>2, <1>3, <1>4 DEF Inv

LEMMA ReserveFailsKeepsInv ==
  ASSUME Inv, NEW c \in Reservations, ReserveFails(c)
  PROVE  /\ Inv' /\ UNCHANGED listCount /\ listAnswer' = "out_of_memory" /\ beyond' \in BOOLEAN
         /\ ~beyond' => \A j \in 0 .. listCount - 1 : data'[j] = data[j]
<1>1. /\ c \in Nat /\ NoRoom(c) /\ beyond \in BOOLEAN
      /\ beyond' = (beyond \/ c * ElementSize >= Width)
  BY DEF ReserveFails, Exceeds, Inv, ListTypeOK
<1>2. ~beyond' => ~beyond /\ ~(c * ElementSize >= Width)
  BY <1>1, Zenon
<1>3. ASSUME ~beyond'  PROVE Fits(c)
  <2>1. c * ElementSize \in Nat
    BY <1>1
  <2> QED
    BY <1>2, <1>3, <2>1 DEF Fits
<1>4. beyond' \in BOOLEAN
  BY <1>1, Zenon
<1> QED
  BY <1>1, <1>3, <1>4, FailureKeepsInv

LEMMA InsertFailsKeepsInv ==
  ASSUME Inv, InsertFails
  PROVE  /\ Inv' /\ UNCHANGED <<listCount, beyond>> /\ listAnswer' = "out_of_memory"
         /\ ~beyond' => \A j \in 0 .. listCount - 1 : data'[j] = data[j]
<1>1. /\ listCount + 1 \in Nat /\ NoRoom(listCount + 1) /\ beyond' = beyond
      /\ beyond' \in BOOLEAN
  BY DEF InsertFails, Inv, ListTypeOK
<1>2. ~beyond' => Fits(listCount + 1)
  BY <1>1 DEF Fits
<1> QED
  BY <1>1, <1>2, FailureKeepsInv

LEMMA Inductive ==
  ASSUME Inv, [ListNext]_listVars
  PROVE  Inv'
<1>1. ASSUME UNCHANGED <<block, data, listCount, capacity, beyond>>,
             listAnswer' \in {"ok", "out_of_range", "out_of_memory"}
      PROVE  Inv'
  BY <1>1 DEF Inv, ListTypeOK, CapacityIsReal, NoJunk
<1>2. ASSUME NEW i \in Slots, RemoveAt(i)  PROVE Inv'
  BY <1>2, RemoveKeepsInv
<1>3. ASSUME NEW i \in Slots, NEW x \in Elements, ListInsert(i, x)  PROVE Inv'
  BY <1>3, InsertKeepsInv
<1>4. ASSUME NEW c \in Reservations, Reserve(c)  PROVE Inv'
  BY <1>4, ReserveKeepsInv
<1>5. ASSUME NEW c \in Reservations, ReserveFails(c)  PROVE Inv'
  BY <1>5, ReserveFailsKeepsInv
<1>6. CASE InsertFails
  BY <1>6, InsertFailsKeepsInv
<1>7. CASE OutOfRange
  BY <1>7, <1>1 DEF OutOfRange
<1>8. CASE UNCHANGED listVars
  BY <1>8, <1>1 DEF listVars, Inv, ListTypeOK
<1> QED
  BY <1>2, <1>3, <1>4, <1>5, <1>6, <1>7, <1>8 DEF ListNext

(* The three invariants together.                                          *)
THEOREM AlwaysInv == ListBehaviour => []Inv
<1>1. ListInit => Inv
  <2> SUFFICES ASSUME ListInit  PROVE Inv
    OBVIOUS
  <2>1. beyond \in BOOLEAN
    BY Zenon DEF ListInit
  <2>2. ListTypeOK
    <3>1. block = 0 /\ listCount = 0 /\ capacity = 0 /\ listAnswer = "ok"
          /\ data = [i \in Slots |-> Junk]
      BY DEF ListInit
    <3> QED
      BY <2>1, <3>1 DEF ListTypeOK
  <2>3. NoJunk
    <3>1. listCount = 0
      BY DEF ListInit
    <3>2. \A i \in 0 .. listCount - 1 : data[i] \in Elements
      BY <3>1
    <3> QED
      BY <3>2 DEF NoJunk
  <2>4. CapacityIsReal
    <3>1. block = 0 /\ listCount = 0 /\ capacity = 0
      BY DEF ListInit
    <3>2. capacity * ElementSize = 0
      BY <3>1
    <3> QED
      BY <3>1, <3>2 DEF CapacityIsReal
  <2> QED
    BY <2>2, <2>3, <2>4 DEF Inv
<1>2. Inv /\ [ListNext]_listVars => Inv'
  BY Inductive
<1> QED
  BY <1>1, <1>2, PTL DEF ListBehaviour

(* The variables keep their ranges.                                        *)
THEOREM TypeCorrect == ListBehaviour => []ListTypeOK
<1>1. Inv => ListTypeOK
  BY DEF Inv
<1> QED
  BY <1>1, AlwaysInv, PTL

(* No insertion writes beyond the block: ten__list_grow makes the block as *)
(* large as the capacity says, unless a reservation's size has wrapped.    *)
THEOREM CapacityAlwaysReal == ListBehaviour => []CapacityIsReal
<1>1. Inv => CapacityIsReal
  BY DEF Inv
<1> QED
  BY <1>1, AlwaysInv, PTL

(* The exception is no larger than what the code gets wrong: whenever a    *)
(* reservation beyond the capacity has a size that wraps and answers       *)
(* TEN_OK, the capacity it leaves is more than the block holds.            *)
THEOREM WrappedNeverReal ==
  ListBehaviour =>
    [][\A c \in Reservations :
         Reserve(c) /\ capacity < c /\ c * ElementSize >= Width => block' < capacity' * ElementSize]_listVars
<1>1. ASSUME Inv, NEW c \in Reservations, Reserve(c), capacity < c, c * ElementSize >= Width
      PROVE  block' < capacity' * ElementSize
  <2>1. c \in Nat /\ NewCapacity(c) \in Nat /\ c <= NewCapacity(c)
    BY <1>1, GrowthIsEnough DEF Inv
  <2>2. block' = Bytes(NewCapacity(c)) /\ capacity' = NewCapacity(c)
    BY <1>1, <2>1 DEF Reserve, Room, Inv, ListTypeOK
  <2>3. Bytes(NewCapacity(c)) < Width
    <3> DEFINE size == NewCapacity(c) * ElementSize
    <3>1. size \in Nat
      BY <2>1
    <3> HIDE DEF size
    <3>2. size % Width < Width
      BY <3>1
    <3> QED
      BY <3>2 DEF size, Bytes
  <2>4. c * ElementSize <= NewCapacity(c) * ElementSize
    BY <2>1, TimesMonotone
  <2>5. c * ElementSize \in Nat /\ NewCapacity(c) * ElementSize \in Nat /\ Bytes(NewCapacity(c)) \in Nat
    BY <1>1, <2>1, GrowthIsEnough DEF Inv
  <2> HIDE DEF NewCapacity
  <2> QED
    BY <1>1, <2>2, <2>3, <2>4, <2>5
<1>2. Inv => \A c \in Reservations :
        Reserve(c) /\ capacity < c /\ c * ElementSize >= Width => block' < capacity' * ElementSize
  BY <1>1
<1> QED
  BY <1>2, AlwaysInv, PTL

(* No element is read that was never written, unless a size has wrapped.   *)
THEOREM NeverJunk == ListBehaviour => []NoJunk
<1>1. Inv => NoJunk
  BY DEF Inv
<1> QED
  BY <1>1, AlwaysInv, PTL

-----------------------------------------------------------------------------
(* The list is the sequence of list.h                                      *)

LEMMA ItemsLength ==
  ASSUME ListTypeOK
  PROVE  Len(Items) = listCount
BY DEF ListTypeOK, Items

LEMMA InsertMaps ==
  ASSUME Inv, ~beyond, NEW i \in Slots, NEW x \in Elements, ListInsert(i, x)
  PROVE  Sequence!Next
<1>1. /\ i \in 0 .. listCount /\ listCount \in Nat /\ listCount' = listCount + 1
      /\ listAnswer' = "ok" /\ beyond' = beyond /\ Len(Items) = listCount
      /\ \A j \in 0 .. listCount :
           data'[j] = IF j = i THEN x ELSE IF i < j THEN data[j - 1] ELSE data[j]
  BY InsertEffect, ItemsLength DEF Inv
<1>2. Items' = [j \in 1 .. listCount + 1 |->
                  IF j <= i THEN Items[j] ELSE IF j = i + 1 THEN x ELSE Items[j - 1]]
  <2>1. Items' = [j \in 1 .. listCount + 1 |-> data'[j - 1]]
    BY <1>1 DEF Items
  <2>2. ASSUME NEW j \in 1 .. listCount + 1
        PROVE  data'[j - 1] = IF j <= i THEN Items[j] ELSE IF j = i + 1 THEN x ELSE Items[j - 1]
    <3>1. j - 1 \in 0 .. listCount
      BY <1>1
    <3>2. data'[j - 1] = IF j - 1 = i THEN x ELSE IF i < j - 1 THEN data[j - 1 - 1] ELSE data[j - 1]
      BY <3>1, <1>1
    <3>3. CASE j <= i
      BY <3>2, <3>3, <1>1 DEF Items
    <3>4. CASE j = i + 1
      BY <3>2, <3>4, <1>1
    <3>5. CASE j > i + 1
      <4>1. j - 1 \in 1 .. listCount
        BY <3>5, <1>1
      <4> QED
        BY <4>1, <3>2, <3>5, <1>1 DEF Items
    <3> QED
      BY <3>3, <3>4, <3>5, <1>1
  <2> HIDE DEF Items
  <2> QED
    BY <2>1, <2>2
<1>3. Sequence!Insert(i, x)
  BY <1>1, <1>2 DEF Sequence!Insert
<1> QED
  BY <1>1, <1>3 DEF Sequence!Next

LEMMA RemoveMaps ==
  ASSUME Inv, NEW i \in Slots, RemoveAt(i)
  PROVE  Sequence!Next
<1>1. /\ i \in 0 .. listCount - 1 /\ listCount \in Nat /\ listCount' = listCount - 1
      /\ data' = [j \in Slots |->
                    IF i <= j /\ j + 1 < listCount THEN data[j + 1] ELSE data[j]]
      /\ listAnswer' = "ok" /\ Len(Items) = listCount /\ listCount <= MaxBlock
      /\ beyond' = beyond
  BY ItemsLength DEF Inv, RemoveAt, Slots, ListTypeOK
<1>2. Items' = [j \in 1 .. listCount - 1 |-> IF j <= i THEN Items[j] ELSE Items[j + 1]]
  <2>1. Items' = [j \in 1 .. listCount - 1 |-> data'[j - 1]]
    BY <1>1 DEF Items
  <2>2. ASSUME NEW j \in 1 .. listCount - 1
        PROVE  data'[j - 1] = IF j <= i THEN Items[j] ELSE Items[j + 1]
    <3>1. j - 1 \in Slots
      BY <1>1 DEF Slots
    <3>2. data'[j - 1] = IF i <= j - 1 THEN data[j - 1 + 1] ELSE data[j - 1]
      BY <3>1, <1>1
    <3>3. Items[j] = data[j - 1] /\ Items[j + 1] = data[j - 1 + 1]
      BY <1>1 DEF Items
    <3> QED
      BY <3>2, <3>3, <1>1
  <2> HIDE DEF Items
  <2> QED
    BY <2>1, <2>2
<1>3. Sequence!RemoveAt(i)
  BY <1>1, <1>2 DEF Sequence!RemoveAt
<1> QED
  BY <1>1, <1>3 DEF Sequence!Next

LEMMA StepMaps ==
  ASSUME Inv, [ListNext]_listVars
  PROVE  [Sequence!Next]_Sequence!vars
<1>1. CASE beyond' = TRUE
  BY <1>1 DEF Sequence!Next
<1>2. ASSUME UNCHANGED <<listCount, beyond>>, \A j \in 0 .. listCount - 1 : data'[j] = data[j],
             listAnswer' \in {"ok", "out_of_range", "out_of_memory"}
      PROVE  Sequence!Next
  <2>1. Items' = Items
    BY <1>2 DEF Items, Inv, ListTypeOK
  <2> QED
    BY <1>2, <2>1 DEF Sequence!Next, Sequence!Answers
<1>3. ASSUME beyond' # TRUE, beyond' \in BOOLEAN  PROVE [Sequence!Next]_Sequence!vars
  <2>1. ~beyond'
    BY <1>3
  <2>2. ASSUME NEW i \in Slots, RemoveAt(i)  PROVE Sequence!Next
    BY <2>2, RemoveMaps
  <2>3. ASSUME NEW i \in Slots, NEW x \in Elements, ListInsert(i, x)  PROVE Sequence!Next
    BY <2>1, <2>3, InsertMaps DEF ListInsert
  <2>4. ASSUME NEW c \in Reservations, Reserve(c)  PROVE Sequence!Next
    <3>1. ~beyond /\ UNCHANGED listCount /\ listAnswer' = "ok"
          /\ \A j \in 0 .. listCount - 1 : data'[j] = data[j]
      BY <2>1, <2>4, ReserveKeepsInv
    <3>2. beyond' = beyond
      BY <2>1, <3>1, <1>3 DEF Inv, ListTypeOK
    <3> QED
      BY <3>1, <3>2, <1>2
  <2>5. ASSUME NEW c \in Reservations, ReserveFails(c)  PROVE Sequence!Next
    <3>1. UNCHANGED listCount /\ listAnswer' = "out_of_memory"
          /\ \A j \in 0 .. listCount - 1 : data'[j] = data[j]
      BY <2>1, <2>5, ReserveFailsKeepsInv
    <3>2. beyond' = beyond
      BY <2>1, <2>5, <1>3 DEF ReserveFails, Exceeds, Inv, ListTypeOK
    <3> QED
      BY <3>1, <3>2, <1>2
  <2>6. CASE InsertFails
    <3>1. UNCHANGED <<listCount, beyond>> /\ listAnswer' = "out_of_memory"
          /\ \A j \in 0 .. listCount - 1 : data'[j] = data[j]
      BY <2>1, <2>6, InsertFailsKeepsInv
    <3> QED
      BY <3>1, <1>2
  <2>7. CASE OutOfRange
    BY <2>7, <1>2 DEF OutOfRange
  <2>8. CASE UNCHANGED listVars
    BY <2>8 DEF listVars, Sequence!vars, Items
  <2> QED
    BY <2>2, <2>3, <2>4, <2>5, <2>6, <2>7, <2>8 DEF ListNext
<1>4. beyond' \in BOOLEAN
  BY Inductive DEF Inv, ListTypeOK
<1> QED
  BY <1>1, <1>3, <1>4

(* The array with its block, count and capacity implements the sequence of *)
(* list.h: every call is one step of the sequence or leaves it alone, until*)
(* one asks for more than there are addresses for.                         *)
THEOREM ListImplementsSequence == ListBehaviour => ImplementsListSpec
<1>1. ListInit => Sequence!Init
  BY DEF ListInit, Sequence!Init, Items
<1>2. Inv /\ [ListNext]_listVars => [Sequence!Next]_Sequence!vars
  BY StepMaps
<1> QED
  BY <1>1, <1>2, AlwaysInv, PTL DEF ListBehaviour, ImplementsListSpec, Sequence!Spec
=============================================================================
