---------------------------- MODULE HashMapProofs ----------------------------
(***************************************************************************)
(* For every set of keys, hash function and number of initial buckets: the *)
(* table keeps its entries on the right chains, its count and load, and    *)
(* its blocks; and it is a dictionary.                                     *)
(***************************************************************************)
EXTENDS HashMap, FiniteSetTheorems, TLAPS

USE MapAssumption

Inv ==
  /\ TypeOK /\ WellPlaced /\ NoLeak /\ CountAndLoad
  /\ IsFiniteSet(Linked)

-----------------------------------------------------------------------------
(* Buckets and chains                                                      *)

(* The slot of a hash is one of the buckets.                               *)
LEMMA SlotInRange == \A h, b \in Nat : b > 0 => Slot(h, b) \in 0 .. b - 1
BY DEF Slot

(* The hash of a key belongs to a bucket, and what is found is linked.     *)
LEMMA FoundIsLinked ==
  ASSUME TypeOK, buckets > 0, NEW k \in Keys
  PROVE  /\ Slot(Hash[k], buckets) \in 0 .. buckets - 1
         /\ Found(k) = {n \in chain[Slot(Hash[k], buckets)] : Matches(k, n)}
         /\ \A n \in Found(k) : n \in Linked /\ n \in Nodes
<1>1. Slot(Hash[k], buckets) \in 0 .. buckets - 1
  BY SlotInRange DEF TypeOK
<1> QED
  BY <1>1 DEF Found, Linked, TypeOK

(* The search goes to the one chain where the key's entry can be: it finds *)
(* exactly the linked nodes of the key.                                    *)
LEMMA FoundIsComplete ==
  ASSUME TypeOK, WellPlaced, buckets > 0, NEW k \in Keys
  PROVE  Found(k) = {n \in Linked : entry[n].key = k}
<1>1. ASSUME NEW n \in Linked, entry[n].key = k  PROVE n \in Found(k)
  <2>1. PICK b \in 0 .. buckets - 1 : n \in chain[b]
    BY DEF Linked
  <2>2. entry[n].hash = Hash[k] /\ Slot(entry[n].hash, buckets) = b
    BY <2>1, <1>1 DEF WellPlaced
  <2> QED
    BY <2>1, <2>2, <1>1 DEF Found, Matches
<1>2. ASSUME NEW n \in Found(k)  PROVE n \in Linked /\ entry[n].key = k
  BY FoundIsLinked DEF Found, Matches
<1> QED
  BY <1>1, <1>2

(* Growing keeps the nodes and puts each on the chain of its hash.         *)
LEMMA Growth ==
  ASSUME TypeOK, WellPlaced, buckets > 0
  PROVE  /\ NewBuckets \in Nat /\ NewBuckets >= buckets
         /\ NewChain \in [0 .. NewBuckets - 1 -> SUBSET Nodes]
         /\ \A b \in 0 .. NewBuckets - 1 : \A n \in NewChain[b] :
              n \in Linked /\ Slot(entry[n].hash, NewBuckets) = b
         /\ \A n \in Linked : \E b \in 0 .. NewBuckets - 1 : n \in NewChain[b]
<1>1. \A n \in Linked : n \in Nodes /\ entry[n] \in Entries
  BY DEF TypeOK, WellPlaced, Linked
<1>2. CASE Crowded
  <2>1. NewBuckets = 2 * buckets /\ NewBuckets \in Nat /\ NewBuckets >= buckets /\ NewBuckets > 0
    BY <1>2 DEF NewBuckets, TypeOK
  <2>2. NewChain = [b \in 0 .. NewBuckets - 1 |-> {n \in Linked : Slot(entry[n].hash, NewBuckets) = b}]
    BY <1>2, <2>1 DEF NewChain, Rehashed
  <2>3. \A n \in Linked : entry[n].hash \in Nat
    BY <1>1 DEF Entries
  <2>4. \A n \in Linked : Slot(entry[n].hash, NewBuckets) \in 0 .. NewBuckets - 1
    BY <2>1, <2>3, SlotInRange
  <2> QED
    BY <2>1, <2>2, <2>4, <1>1
<1>3. CASE ~Crowded
  BY <1>3, <1>1 DEF NewBuckets, NewChain, TypeOK, WellPlaced, Linked
<1> QED
  BY <1>2, <1>3

-----------------------------------------------------------------------------
(* One lemma for each operation                                            *)

LEMMA InsertKeepsInv ==
  ASSUME Inv, NEW k \in Keys, NEW v \in Values, NEW n \in Nodes, Insert(k, v, n)
  PROVE  /\ Inv'
         /\ n \notin Linked /\ Linked' = Linked \cup {n}
         /\ entry'[n] = [key |-> k, hash |-> Hash[k], value |-> v]
         /\ \A m \in Linked : entry'[m] = entry[m] /\ entry[m].key # k
<1> DEFINE new == [key |-> k, hash |-> Hash[k], value |-> v]
           slot == Slot(Hash[k], NewBuckets)
<1>1. buckets > 0 /\ TypeOK /\ WellPlaced
  BY DEF Inv, Insert
<1>2. /\ buckets' = NewBuckets
      /\ chain' = [NewChain EXCEPT ![slot] = @ \cup {n}]
      /\ entry' = [entry EXCEPT ![n] = new]
      /\ live' = live \cup Blocks(n)
      /\ tables' = NewTables /\ count' = count + 1 /\ answer' = "ok"
      /\ Free(n) /\ Found(k) = {}
  BY DEF Insert
<1>3. /\ NewBuckets \in Nat /\ NewBuckets >= buckets
      /\ NewChain \in [0 .. NewBuckets - 1 -> SUBSET Nodes]
      /\ \A b \in 0 .. NewBuckets - 1 : \A m \in NewChain[b] :
           m \in Linked /\ Slot(entry[m].hash, NewBuckets) = b
      /\ \A m \in Linked : \E b \in 0 .. NewBuckets - 1 : m \in NewChain[b]
  BY <1>1, Growth
<1>4. slot \in 0 .. NewBuckets - 1 /\ Hash[k] \in Nat
  <2>1. Hash[k] \in Nat
    OBVIOUS
  <2>2. NewBuckets \in Nat /\ NewBuckets > 0
    BY <1>1, <1>3 DEF TypeOK
  <2> QED
    BY <2>1, <2>2, SlotInRange
<1>5. n \notin Linked
  <2>1. live = UNION {Blocks(m) : m \in Linked}
    BY DEF Inv, NoLeak
  <2> QED
    BY <1>2, <2>1 DEF Free, Blocks, Parts
<1>6. Linked' = Linked \cup {n}
  <2> HIDE DEF slot
  <2>1. Linked' = UNION {chain'[b] : b \in 0 .. NewBuckets - 1}
    BY <1>2 DEF Linked
  <2>2. \A b \in 0 .. NewBuckets - 1 : chain'[b] = IF b = slot THEN NewChain[b] \cup {n} ELSE NewChain[b]
    BY <1>2, <1>3
  <2>3. ASSUME NEW m \in Linked', m # n  PROVE m \in Linked
    <3>1. PICK b \in 0 .. NewBuckets - 1 : m \in chain'[b]
      BY <2>1
    <3>2. m \in NewChain[b]
      BY <3>1, <2>2, <2>3
    <3> QED
      BY <3>2, <1>3
  <2>4. n \in Linked'
    BY <2>1, <2>2, <1>4
  <2>5. Linked \subseteq Linked'
    BY <2>1, <2>2, <1>3
  <2> QED
    BY <2>3, <2>4, <2>5
<1>7. Linked \subseteq Nodes
  BY <1>1 DEF TypeOK, Linked
<1>8. /\ \A m \in Linked : entry'[m] = entry[m] /\ entry[m] \in Entries
      /\ entry'[n] = new /\ new \in Entries
  BY <1>1, <1>2, <1>4, <1>5, <1>7 DEF TypeOK, WellPlaced, Entries, Linked
<1>9. \A m \in Linked : entry[m].key # k
  BY <1>1, <1>2, FoundIsComplete
<1>10. TypeOK'
  <2>1. chain' \in [0 .. NewBuckets - 1 -> SUBSET Nodes]
    BY <1>2, <1>3, <1>4
  <2>2. entry' \in [Nodes -> Entries \cup {None}]
    BY <1>1, <1>2, <1>8 DEF TypeOK
  <2>3. live' \subseteq Nodes \X Parts
    BY <1>1, <1>2 DEF TypeOK, Blocks
  <2>4. tables' \subseteq Nat /\ count' \in Nat /\ answer' \in Values \cup {"ok"}
    BY <1>1, <1>2, <1>3 DEF TypeOK, NewTables
  <2> QED
    BY <1>1, <1>2, <1>3, <2>1, <2>2, <2>3, <2>4 DEF TypeOK
<1>11. WellPlaced'
  <2>1. ASSUME NEW b \in 0 .. buckets' - 1, NEW m \in chain'[b]
        PROVE  /\ entry'[m] \in Entries /\ entry'[m].hash = Hash[entry'[m].key]
               /\ Slot(entry'[m].hash, buckets') = b
    <3>1. CASE m = n
      <4>1. n \notin NewChain[b]
        BY <1>2, <1>3, <1>5
      <4>2. b = slot
        BY <4>1, <3>1, <2>1, <1>2, <1>3
      <4> QED
        BY <4>2, <3>1, <1>8, <1>2
    <3>2. CASE m # n
      <4>1. m \in NewChain[b]
        BY <3>2, <2>1, <1>2, <1>3
      <4>2. m \in Linked /\ Slot(entry[m].hash, NewBuckets) = b
        BY <4>1, <1>3, <1>2
      <4>3. entry[m].hash = Hash[entry[m].key]
        BY <4>2, <1>1 DEF WellPlaced, Linked
      <4> QED
        BY <4>2, <4>3, <1>8, <1>2
    <3> QED
      BY <3>1, <3>2
  <2>2. ASSUME NEW l \in Linked', NEW m \in Linked', entry'[l].key = entry'[m].key
        PROVE  l = m
    <3>1. \A i \in Linked : entry[i].key # k
      BY <1>9
    <3>2. \A i, j \in Linked : entry[i].key = entry[j].key => i = j
      BY <1>1 DEF WellPlaced
    <3>3. entry'[n].key = k
      BY <1>8
    <3> QED
      BY <2>2, <3>1, <3>2, <3>3, <1>6, <1>8
  <2> QED
    BY <2>1, <2>2 DEF WellPlaced
<1>12. NoLeak'
  BY <1>1, <1>2, <1>3, <1>6 DEF Inv, NoLeak, NewTables, TypeOK
<1>13. CountAndLoad' /\ IsFiniteSet(Linked')
  <2>1. IsFiniteSet(Linked') /\ Cardinality(Linked') = Cardinality(Linked) + 1
    BY <1>5, <1>6, FS_AddElement DEF Inv
  <2>2. count' = Cardinality(Linked')
    BY <2>1, <1>2 DEF Inv, CountAndLoad
  <2>3. count + 1 <= (NewBuckets * 3) \div 4
    BY <1>1 DEF Inv, CountAndLoad, TypeOK, NewBuckets, Crowded
  <2> QED
    BY <2>1, <2>2, <2>3, <1>2 DEF CountAndLoad
<1> QED
  BY <1>5, <1>6, <1>8, <1>10, <1>11, <1>12, <1>13, <1>9 DEF Inv

LEMMA NodeFailsKeepsInv ==
  ASSUME Inv, NEW k \in Keys, NodeFails(k)
  PROVE  Inv' /\ Linked' = Linked
<1>1. buckets > 0 /\ TypeOK /\ WellPlaced
  BY DEF Inv, NodeFails
<1>2. /\ buckets' = NewBuckets /\ chain' = NewChain /\ tables' = NewTables
      /\ answer' = "out_of_memory" /\ UNCHANGED <<entry, count, live>>
  BY DEF NodeFails
<1>3. /\ NewBuckets \in Nat /\ NewBuckets >= buckets
      /\ NewChain \in [0 .. NewBuckets - 1 -> SUBSET Nodes]
      /\ \A b \in 0 .. NewBuckets - 1 : \A m \in NewChain[b] :
           m \in Linked /\ Slot(entry[m].hash, NewBuckets) = b
      /\ \A m \in Linked : \E b \in 0 .. NewBuckets - 1 : m \in NewChain[b]
  BY <1>1, Growth
<1>4. Linked' = Linked
  BY <1>2, <1>3 DEF Linked
<1>5. TypeOK'
  BY <1>1, <1>2, <1>3 DEF TypeOK, NewTables
<1>6. WellPlaced'
  <2>1. \A m \in Linked : entry[m] \in Entries /\ entry[m].hash = Hash[entry[m].key]
    BY <1>1 DEF WellPlaced, Linked
  <2>2. \A l, m \in Linked : entry[l].key = entry[m].key => l = m
    BY <1>1 DEF WellPlaced
  <2> QED
    BY <2>1, <2>2, <1>2, <1>3, <1>4 DEF WellPlaced
<1>7. NoLeak'
  BY <1>1, <1>2, <1>3, <1>4 DEF Inv, NoLeak, NewTables, TypeOK
<1>8. CountAndLoad' /\ IsFiniteSet(Linked')
  <2>1. (buckets * 3) \div 4 <= (NewBuckets * 3) \div 4
    BY <1>1 DEF TypeOK, NewBuckets
  <2> QED
    BY <2>1, <1>1, <1>2, <1>3, <1>4 DEF Inv, CountAndLoad, TypeOK
<1> QED
  BY <1>4, <1>5, <1>6, <1>7, <1>8 DEF Inv

(* A node is on one chain only, so that unlinking it there is enough.      *)
LEMMA UnlinkEffect ==
  ASSUME Inv, buckets > 0, buckets' = buckets,
         NEW k \in Keys, NEW n \in Nodes, Unlink(k, n)
  PROVE  /\ n \in Linked /\ entry[n].key = k
         /\ Linked' = Linked \ {n}
         /\ \A m \in Linked' : entry'[m] = entry[m]
<1> DEFINE slot == Slot(Hash[k], buckets)
<1>1. /\ TypeOK /\ WellPlaced
      /\ n \in Found(k)
      /\ chain' = [chain EXCEPT ![slot] = @ \ {n}]
      /\ entry' = [entry EXCEPT ![n] = None]
  BY DEF Inv, Unlink
<1>2. /\ n \in Linked /\ entry[n].key = k
      /\ slot \in 0 .. buckets - 1 /\ n \in chain[slot]
  BY <1>1, FoundIsLinked, FoundIsComplete DEF Found
<1>3. \A b \in 0 .. buckets - 1 : n \in chain[b] => b = slot
  BY <1>1, <1>2 DEF WellPlaced
<1>4. \A b \in 0 .. buckets - 1 : chain'[b] = chain[b] \ {n}
  <2> HIDE DEF slot
  <2>1. chain \in [0 .. buckets - 1 -> SUBSET Nodes]
    BY <1>1 DEF TypeOK
  <2>2. ASSUME NEW b \in 0 .. buckets - 1
        PROVE  chain'[b] = IF b = slot THEN chain[b] \ {n} ELSE chain[b]
    BY <2>1, <1>1
  <2> QED
    BY <2>2, <1>3
<1>5. Linked' = UNION {chain'[b] : b \in 0 .. buckets - 1}
  BY DEF Linked
<1>6. Linked' = Linked \ {n}
  <2>1. ASSUME NEW m \in Linked'  PROVE m \in Linked \ {n}
    <3>1. PICK b \in 0 .. buckets - 1 : m \in chain'[b]
      BY <1>5
    <3> QED
      BY <3>1, <1>4 DEF Linked
  <2>2. ASSUME NEW m \in Linked \ {n}  PROVE m \in Linked'
    <3>1. PICK b \in 0 .. buckets - 1 : m \in chain[b]
      BY DEF Linked
    <3> QED
      BY <3>1, <1>4, <1>5
  <2> QED
    BY <2>1, <2>2
<1>7. Linked \subseteq Nodes
  BY <1>1 DEF TypeOK, Linked
<1> QED
  BY <1>1, <1>2, <1>6, <1>7 DEF TypeOK

LEMMA RemoveKeepsInv ==
  ASSUME Inv, NEW k \in Keys, Remove(k)
  PROVE  Inv'
<1>1. buckets > 0 /\ TypeOK /\ WellPlaced /\ UNCHANGED <<buckets, tables>>
  BY DEF Inv, Remove
<1>2. CASE Found(k) = {} /\ answer' = "not_found" /\ UNCHANGED <<chain, entry, count, live>>
  <2>1. UNCHANGED Linked /\ UNCHANGED <<buckets, tables, chain, entry, count, live>>
    BY <1>1, <1>2 DEF Linked
  <2> QED
    BY <2>1, <1>2 DEF Inv, TypeOK, WellPlaced, NoLeak, CountAndLoad
<1>3. ASSUME NEW n \in Nodes, Unlink(k, n), answer' = "ok"  PROVE Inv'
  <2>1. /\ n \in Linked /\ Linked' = Linked \ {n}
        /\ \A m \in Linked' : entry'[m] = entry[m]
    BY <1>1, <1>3, UnlinkEffect
  <2>2. /\ chain' = [chain EXCEPT ![Slot(Hash[k], buckets)] = @ \ {n}]
        /\ live' = live \ Blocks(n)
        /\ entry' = [entry EXCEPT ![n] = None]
        /\ count' = count - 1
    BY <1>3 DEF Unlink
  <2>3. IsFiniteSet(Linked') /\ Cardinality(Linked') = Cardinality(Linked) - 1
    BY <2>1, FS_RemoveElement DEF Inv
  <2>4. count' = Cardinality(Linked') /\ count' \in Nat /\ count' <= count
    BY <2>2, <2>3, FS_CardinalityType DEF Inv, CountAndLoad, TypeOK
  <2>5. TypeOK'
    <3>1. chain' \in [0 .. buckets - 1 -> SUBSET Nodes]
      BY <2>2, <1>1 DEF TypeOK
    <3>2. entry' \in [Nodes -> Entries \cup {None}]
      BY <2>2, <1>1 DEF TypeOK
    <3> QED
      BY <3>1, <3>2, <2>2, <2>4, <1>1, <1>3 DEF TypeOK
  <2>6. WellPlaced'
    <3>1. \A b \in 0 .. buckets - 1 : chain'[b] \subseteq chain[b]
      BY <2>2, <1>1 DEF TypeOK
    <3>2. \A b \in 0 .. buckets - 1 : chain'[b] \subseteq Linked'
      BY <1>1 DEF Linked
    <3>3. ASSUME NEW b \in 0 .. buckets' - 1, NEW m \in chain'[b]
          PROVE  /\ entry'[m] \in Entries /\ entry'[m].hash = Hash[entry'[m].key]
                 /\ Slot(entry'[m].hash, buckets') = b
      BY <3>1, <3>2, <2>1, <1>1 DEF WellPlaced
    <3>4. \A l, m \in Linked' : entry'[l].key = entry'[m].key => l = m
      BY <2>1, <1>1 DEF WellPlaced
    <3> QED
      BY <3>3, <3>4 DEF WellPlaced
  <2>7. NoLeak'
    BY <2>1, <2>2, <1>1 DEF Inv, NoLeak, Blocks
  <2>8. CountAndLoad'
    BY <2>4, <1>1 DEF Inv, CountAndLoad, TypeOK
  <2> QED
    BY <2>3, <2>5, <2>6, <2>7, <2>8 DEF Inv
<1> QED
  BY <1>2, <1>3 DEF Remove

LEMMA OverwriteKeepsInv ==
  ASSUME Inv, NEW k \in Keys, NEW v \in Values, Overwrite(k, v)
  PROVE  Inv'
<1>1. PICK n \in Found(k) : entry' = [entry EXCEPT ![n].value = v]
  BY DEF Overwrite
<1>2. /\ buckets > 0 /\ answer' = "ok" /\ TypeOK /\ WellPlaced
      /\ UNCHANGED <<buckets, chain, count, live, tables>>
  BY DEF Inv, Overwrite
<1>3. n \in Linked /\ n \in Nodes /\ UNCHANGED Linked /\ Linked \subseteq Nodes
  BY <1>2, FoundIsLinked DEF Linked, TypeOK
<1>4. \A m \in Linked : entry[m] \in Entries
  BY <1>2 DEF WellPlaced, Linked
<1>5. /\ entry' \in [Nodes -> Entries \cup {None}]
      /\ \A m \in Linked : /\ entry'[m] \in Entries
                           /\ entry'[m].key = entry[m].key
                           /\ entry'[m].hash = entry[m].hash
  BY <1>1, <1>2, <1>3, <1>4 DEF TypeOK, Entries
<1>6. WellPlaced'
  BY <1>2, <1>3, <1>5 DEF WellPlaced, Linked
<1> QED
  BY <1>2, <1>3, <1>5, <1>6 DEF Inv, TypeOK, NoLeak, CountAndLoad

LEMMA DestroyKeepsInv ==
  ASSUME Inv, Destroy
  PROVE  Inv'
<1>1. /\ buckets' = 0 /\ chain' = [b \in {} |-> {}] /\ count' = 0
      /\ live' = live \ UNION {Blocks(n) : n \in Linked}
      /\ entry' = [n \in Nodes |-> IF n \in Linked THEN None ELSE entry[n]]
      /\ tables' = tables \ {buckets} /\ answer' = answer /\ buckets > 0
  BY DEF Destroy
<1>2. 0 .. buckets' - 1 = {} /\ Linked' = {}
  BY <1>1 DEF Linked
<1>3. TypeOK'
  BY <1>1, <1>2 DEF Inv, TypeOK
<1>4. NoLeak'
  BY <1>1, <1>2 DEF Inv, NoLeak, TypeOK
<1>5. CountAndLoad' /\ IsFiniteSet(Linked')
  BY <1>1, <1>2, FS_EmptySet DEF CountAndLoad
<1>6. WellPlaced'
  BY <1>2 DEF WellPlaced
<1> QED
  BY <1>3, <1>4, <1>5, <1>6 DEF Inv

LEMMA CreateKeepsInv ==
  ASSUME Inv, Create
  PROVE  Inv'
<1>1. /\ buckets = 0 /\ buckets' = InitialBuckets /\ count' = 0
      /\ chain' = [b \in 0 .. InitialBuckets - 1 |-> {}]
      /\ tables' = tables \cup {InitialBuckets} /\ answer' = "ok"
      /\ UNCHANGED <<entry, live>>
  BY DEF Create
<1>2. Linked = {} /\ Linked' = {}
  BY <1>1 DEF Linked
<1>3. TypeOK'
  BY <1>1 DEF Inv, TypeOK
<1>4. NoLeak'
  BY <1>1, <1>2 DEF Inv, NoLeak
<1>5. CountAndLoad' /\ IsFiniteSet(Linked')
  BY <1>1, <1>2, FS_EmptySet DEF CountAndLoad
<1>6. WellPlaced'
  BY <1>1, <1>2 DEF WellPlaced
<1> QED
  BY <1>3, <1>4, <1>5, <1>6 DEF Inv

LEMMA Inductive == Inv /\ [Next]_vars => Inv'
<1> SUFFICES ASSUME Inv, [Next]_vars  PROVE Inv'
  OBVIOUS
<1>1. ASSUME UNCHANGED <<buckets, chain, entry, count, live, tables>>,
             answer' \in Values \cup {"ok", "out_of_memory", "not_found"}
      PROVE  Inv'
  <2>1. UNCHANGED Linked
    BY <1>1 DEF Linked
  <2> QED
    BY <1>1, <2>1 DEF Inv, TypeOK, WellPlaced, NoLeak, CountAndLoad
<1>2. CASE Create
  BY <1>2, CreateKeepsInv
<1>3. CASE CreateFails
  BY <1>1, <1>3 DEF CreateFails
<1>4. CASE Destroy
  BY <1>4, DestroyKeepsInv
<1>5. ASSUME NEW k \in Keys, NEW v \in Values, Overwrite(k, v)  PROVE Inv'
  BY <1>5, OverwriteKeepsInv
<1>6. ASSUME NEW k \in Keys, NEW v \in Values, NEW n \in Nodes, Insert(k, v, n)
      PROVE  Inv'
  BY <1>6, InsertKeepsInv
<1>7. ASSUME NEW k \in Keys, RehashFails(k)  PROVE Inv'
  BY <1>1, <1>7 DEF RehashFails
<1>8. ASSUME NEW k \in Keys, NodeFails(k)  PROVE Inv'
  BY <1>8, NodeFailsKeepsInv
<1>9. ASSUME NEW k \in Keys, Get(k)  PROVE Inv'
  <2>1. \A n \in Found(k) : entry[n].value \in Values
    BY <1>9, FoundIsLinked DEF Inv, WellPlaced, Linked, Entries, Get
  <2> QED
    BY <2>1, <1>1, <1>9 DEF Get
<1>10. ASSUME NEW k \in Keys, Remove(k)  PROVE Inv'
  BY <1>10, RemoveKeepsInv
<1>11. CASE UNCHANGED vars
  BY <1>1, <1>11 DEF vars, Inv, TypeOK
<1> QED
  BY <1>2, <1>3, <1>4, <1>5, <1>6, <1>7, <1>8, <1>9, <1>10, <1>11 DEF Next

(* Every reachable state satisfies the inductive invariant.                *)
THEOREM AlwaysInv == Spec => []Inv
<1>1. Init => Inv
  <2> SUFFICES ASSUME Init  PROVE Inv
    OBVIOUS
  <2>1. Linked = {} /\ 0 .. buckets - 1 = {}
    BY DEF Init, Linked
  <2> QED
    BY <2>1, FS_EmptySet DEF Init, Inv, TypeOK, WellPlaced, NoLeak, CountAndLoad
<1> QED
  BY <1>1, Inductive, PTL DEF Spec

(* The variables keep their ranges.                                        *)
THEOREM TypeCorrect == Spec => []TypeOK
<1>1. Inv => TypeOK
  BY DEF Inv
<1> QED
  BY <1>1, AlwaysInv, PTL

(* Every entry is on the chain of its hash, and is its key's only one.     *)
THEOREM AlwaysWellPlaced == Spec => []WellPlaced
<1>1. Inv => WellPlaced
  BY DEF Inv
<1> QED
  BY <1>1, AlwaysInv, PTL

(* ten_map_count counts the entries, and the load stays within bounds.     *)
THEOREM AlwaysCounted == Spec => []CountAndLoad
<1>1. Inv => CountAndLoad
  BY DEF Inv
<1> QED
  BY <1>1, AlwaysInv, PTL

(* Whatever allocation fails, no block is lost, none is freed too early.   *)
THEOREM NothingLeaks == Spec => []NoLeak
<1>1. Inv => NoLeak
  BY DEF Inv
<1> QED
  BY <1>1, AlwaysInv, PTL

-----------------------------------------------------------------------------
(* Entries stay where they are                                             *)

EntriesStay == buckets' = buckets => \A m, n \in Touched : m = n

LEMMA OverwriteEffect ==
  ASSUME Inv, NEW k \in Keys, NEW v \in Values, Overwrite(k, v)
  PROVE  /\ Linked' = Linked
         /\ \A m \in Linked : /\ entry'[m].key = entry[m].key
                              /\ entry'[m].value = IF entry[m].key = k THEN v ELSE entry[m].value
         /\ \E n \in Linked : entry[n].key = k
<1>1. buckets > 0 /\ TypeOK /\ WellPlaced /\ UNCHANGED <<buckets, chain>>
  BY DEF Inv, Overwrite
<1>2. PICK n \in Found(k) : entry' = [entry EXCEPT ![n].value = v]
  BY DEF Overwrite
<1>3. n \in Linked /\ n \in Nodes /\ entry[n].key = k /\ Linked \subseteq Nodes
  BY <1>1, FoundIsLinked, FoundIsComplete DEF Linked, TypeOK
<1>4. \A m \in Linked : entry[m] \in Entries /\ (entry[m].key = k => m = n)
  BY <1>1, <1>3 DEF WellPlaced, Linked
<1>5. Linked' = Linked
  BY <1>1 DEF Linked
<1> QED
  BY <1>1, <1>2, <1>3, <1>4, <1>5 DEF TypeOK, Entries

LEMMA EntriesStayStep == Inv /\ [Next]_vars => EntriesStay
<1> SUFFICES ASSUME Inv, [Next]_vars  PROVE EntriesStay
  OBVIOUS
<1>1. ASSUME NEW n, \A m \in Linked : m # n => m \in Linked' /\ entry'[m] = entry[m]
      PROVE  EntriesStay
  BY <1>1 DEF EntriesStay, Touched
<1>2. ASSUME Linked' = Linked, entry' = entry  PROVE EntriesStay
  BY <1>2 DEF EntriesStay, Touched
<1>3. ASSUME UNCHANGED <<buckets, chain, entry>>  PROVE EntriesStay
  BY <1>2, <1>3 DEF Linked
<1>4. CASE Create
  <2>1. Linked = {}
    BY <1>4 DEF Create, Linked
  <2> QED
    BY <2>1 DEF EntriesStay, Touched
<1>5. CASE Destroy
  <2>1. buckets > 0 /\ buckets' = 0
    BY <1>5 DEF Destroy
  <2> QED
    BY <2>1 DEF EntriesStay
<1>6. ASSUME NEW k \in Keys, NEW v \in Values, Overwrite(k, v)  PROVE EntriesStay
  <2>1. PICK n \in Found(k) : entry' = [entry EXCEPT ![n].value = v]
    BY <1>6 DEF Overwrite
  <2>2. Linked' = Linked /\ Linked \subseteq Nodes
    BY <1>6 DEF Overwrite, Linked, Inv, TypeOK
  <2>3. \A m \in Linked : m # n => entry'[m] = entry[m]
    BY <2>1, <2>2 DEF Inv, TypeOK
  <2> QED
    BY <2>2, <2>3, <1>1
<1>7. ASSUME NEW k \in Keys, NEW v \in Values, NEW n \in Nodes, Insert(k, v, n)
      PROVE  EntriesStay
  <2>1. /\ Linked' = Linked \cup {n}
        /\ \A m \in Linked : entry'[m] = entry[m]
    BY <1>7, InsertKeepsInv
  <2> QED
    BY <2>1, <1>1
<1>8. ASSUME NEW k \in Keys, NodeFails(k)  PROVE EntriesStay
  <2>1. Linked' = Linked /\ entry' = entry
    BY <1>8, NodeFailsKeepsInv DEF NodeFails
  <2> QED
    BY <2>1, <1>2
<1>9. ASSUME NEW k \in Keys, Remove(k)  PROVE EntriesStay
  <2>1. ASSUME NEW n \in Nodes, Unlink(k, n)  PROVE EntriesStay
    <3>1. Linked' = Linked \ {n} /\ \A m \in Linked' : entry'[m] = entry[m]
      BY <1>9, <2>1, UnlinkEffect DEF Remove
    <3> QED
      BY <3>1, <1>1
  <2> QED
    BY <2>1, <1>3, <1>9 DEF Remove
<1> QED
  BY <1>3, <1>4, <1>5, <1>6, <1>7, <1>8, <1>9
     DEF Next, vars, CreateFails, RehashFails, Get

(* Between two rehashes the entry of a key stays where it is and as it is, *)
(* whatever is done to other keys (what map.h:57-58 leaves valid).         *)
THEOREM PointersAlwaysStay == Spec => PointersStay
<1>1. Inv /\ [Next]_vars => [buckets' = buckets => \A m, n \in Touched : m = n]_vars
  BY EntriesStayStep DEF EntriesStay
<1> QED
  BY <1>1, AlwaysInv, PTL DEF Spec, PointersStay

-----------------------------------------------------------------------------
(* The dictionary                                                          *)

(* What a caller finds for each key, in terms of the linked nodes.         *)
LookupRight ==
  \A k \in Keys :
    /\ \A n \in Linked : entry[n].key = k => Lookup(k) = entry[n].value
    /\ (\A n \in Linked : entry[n].key # k) => Lookup(k) = None

LEMMA LookupIsRight == Inv => LookupRight
<1> SUFFICES ASSUME Inv, NEW k \in Keys
             PROVE  /\ \A n \in Linked : entry[n].key = k => Lookup(k) = entry[n].value
                    /\ (\A n \in Linked : entry[n].key # k) => Lookup(k) = None
  BY DEF LookupRight
<1>1. CASE buckets = 0
  <2>1. Linked = {}
    BY <1>1 DEF Linked
  <2> QED
    BY <2>1, <1>1 DEF Lookup
<1>2. CASE buckets # 0
  <2>1. Found(k) = {n \in Linked : entry[n].key = k}
    BY <1>2, FoundIsComplete DEF Inv, TypeOK
  <2>2. ASSUME NEW n \in Linked, entry[n].key = k  PROVE Lookup(k) = entry[n].value
    <3>1. \A m \in Found(k) : m = n
      BY <2>1, <2>2 DEF Inv, WellPlaced
    <3>2. (CHOOSE m \in Found(k) : TRUE) = n
      BY <3>1, <2>1, <2>2
    <3> QED
      BY <3>2, <2>1, <2>2, <1>2 DEF Lookup
  <2>3. ASSUME \A n \in Linked : entry[n].key # k  PROVE Lookup(k) = None
    <3>1. Found(k) = {}
      BY <2>1, <2>3
    <3> QED
      BY <3>1 DEF Lookup
  <2> QED
    BY <2>2, <2>3
<1> QED
  BY <1>1, <1>2

(* What a step does to the linked nodes, it does to the dictionary.        *)
LEMMA SameContents ==
  ASSUME LookupRight, LookupRight', Linked' = Linked,
         \A n \in Linked : entry'[n] = entry[n]
  PROVE  Contents' = Contents
<1>1. ASSUME NEW k \in Keys  PROVE Lookup(k)' = Lookup(k)
  <2>1. CASE \E n \in Linked : entry[n].key = k
    BY <2>1 DEF LookupRight
  <2>2. CASE \A n \in Linked : entry[n].key # k
    BY <2>2 DEF LookupRight
  <2> QED
    BY <2>1, <2>2
<1> QED
  BY <1>1 DEF Contents

(* For every map, map.h's dictionary is what a caller sees.               *)
THEOREM MapImplementsDictionary == Spec => ImplementsDictionary
<1>1. Init => Dict!Init
  <2> SUFFICES ASSUME Init  PROVE Dict!Init
    OBVIOUS
  <2>1. buckets = 0 /\ answer = "ok"
    BY DEF Init
  <2>2. Contents = [k \in Keys |-> None]
    BY <2>1 DEF Contents, Lookup
  <2> QED
    BY <2>1, <2>2 DEF Dict!Init, Dict!Empty
<1>2. Inv /\ Inv' /\ LookupRight /\ LookupRight' /\ [Next]_vars => [Dict!Next]_Dict!vars
  <2> SUFFICES ASSUME Inv, Inv', LookupRight, LookupRight', [Next]_vars
               PROVE  [Dict!Next]_Dict!vars
    OBVIOUS
  <2>0. Contents \in [Keys -> Values \cup {None}] /\ buckets \in Nat
    <3>1. \A n \in Linked : entry[n].value \in Values
      BY DEF Inv, WellPlaced, Linked, Entries
    <3>2. ASSUME NEW k \in Keys  PROVE Lookup(k) \in Values \cup {None}
      BY <3>1 DEF LookupRight
    <3> QED
      BY <3>2 DEF Contents, Inv, TypeOK
  <2>1. ASSUME NEW k \in Keys
        PROVE  /\ \A n \in Linked : entry[n].key = k => Contents[k] = entry[n].value /\ Contents[k] \in Values
               /\ (\A n \in Linked : entry[n].key # k) => Contents[k] = None
    BY DEF LookupRight, Contents, Inv, WellPlaced, Linked, Entries
  <2>2. CASE Create
    <3>1. Linked = {} /\ Linked' = {}
      BY <2>2 DEF Create, Linked
    <3>2. Contents' = Contents
      BY <3>1, SameContents
    <3>3. buckets = 0 /\ buckets' # 0 /\ answer' = "ok"
      BY <2>2 DEF Create
    <3> QED
      BY <3>2, <3>3 DEF Dict!Next, Dict!Create
  <2>3. CASE CreateFails
    <3>1. Linked' = Linked /\ buckets = 0 /\ buckets' = 0 /\ answer' = "out_of_memory" /\ entry' = entry
      BY <2>3 DEF CreateFails, Linked
    <3>2. Contents' = Contents
      BY <3>1, SameContents
    <3> QED
      BY <3>1, <3>2 DEF Dict!Next, Dict!Create
  <2>4. CASE Destroy
    <3>1. buckets # 0 /\ buckets' = 0 /\ answer' = answer
      BY <2>4 DEF Destroy
    <3>2. Contents' = [k \in Keys |-> None]
      BY <3>1 DEF Contents, Lookup
    <3> QED
      BY <3>1, <3>2 DEF Dict!Next, Dict!Destroy, Dict!Empty
  <2>5. ASSUME NEW k \in Keys, NEW v \in Values, Overwrite(k, v)  PROVE Dict!Next
    <3>1. /\ Linked' = Linked
          /\ \A m \in Linked : /\ entry'[m].key = entry[m].key
                               /\ entry'[m].value = IF entry[m].key = k THEN v ELSE entry[m].value
          /\ \E n \in Linked : entry[n].key = k
      BY <2>5, OverwriteEffect
    <3>2. ASSUME NEW j \in Keys  PROVE Lookup(j)' = IF j = k THEN v ELSE Lookup(j)
      BY <3>1 DEF LookupRight
    <3>3. Contents' = [Contents EXCEPT ![k] = v]
      BY <3>2 DEF Contents
    <3>4. buckets # 0 /\ buckets' = buckets /\ answer' = "ok"
      BY <2>5 DEF Overwrite
    <3> QED
      BY <3>3, <3>4 DEF Dict!Next, Dict!Set
  <2>6. ASSUME NEW k \in Keys, NEW v \in Values, NEW n \in Nodes, Insert(k, v, n)
        PROVE  Dict!Next
    <3>1. /\ Linked' = Linked \cup {n} /\ n \notin Linked
          /\ entry'[n] = [key |-> k, hash |-> Hash[k], value |-> v]
          /\ \A m \in Linked : entry'[m] = entry[m] /\ entry[m].key # k
      BY <2>6, InsertKeepsInv
    <3>2. entry'[n].key = k /\ entry'[n].value = v
      BY <3>1
    <3>3. ASSUME NEW j \in Keys  PROVE Lookup(j)' = IF j = k THEN v ELSE Lookup(j)
      BY <3>1, <3>2 DEF LookupRight
    <3>4. Contents' = [Contents EXCEPT ![k] = v]
      BY <3>3 DEF Contents
    <3>5. buckets # 0 /\ buckets' # 0 /\ answer' = "ok"
      BY <2>6, Growth DEF Insert, Inv, TypeOK
    <3> QED
      BY <3>4, <3>5 DEF Dict!Next, Dict!Set
  <2>7. ASSUME NEW k \in Keys, RehashFails(k) \/ NodeFails(k)  PROVE Dict!Next
    <3>1. buckets > 0 /\ buckets' # 0 /\ answer' = "out_of_memory" /\ entry' = entry /\ Found(k) = {}
      BY <2>7, Growth DEF RehashFails, NodeFails, Inv, TypeOK
    <3>2. Linked' = Linked
      BY <2>7, NodeFailsKeepsInv DEF RehashFails, Linked
    <3>3. Contents' = Contents
      BY <3>1, <3>2, SameContents
    <3>4. Contents[k] = None
      BY <3>1 DEF Contents, Lookup
    <3> QED
      BY <3>1, <3>3, <3>4 DEF Dict!Next, Dict!SetFails
  <2>8. ASSUME NEW k \in Keys, Get(k)  PROVE Dict!Next
    <3>1. buckets > 0 /\ buckets' = buckets /\ entry' = entry /\ Linked' = Linked
      BY <2>8 DEF Get, Linked
    <3>2. Contents' = Contents
      BY <3>1, SameContents
    <3>3. Found(k) = {n \in Linked : entry[n].key = k}
      BY <3>1, FoundIsComplete DEF Inv
    <3>4. answer' = IF Contents[k] = None THEN "not_found" ELSE Contents[k]
      BY <2>8, <2>1, <3>3 DEF Get
    <3> QED
      BY <3>1, <3>2, <3>4 DEF Dict!Next, Dict!Get
  <2>9. ASSUME NEW k \in Keys, Remove(k)  PROVE Dict!Next
    <3>1. buckets > 0 /\ buckets' = buckets
      BY <2>9 DEF Remove
    <3>2. CASE Found(k) = {} /\ answer' = "not_found" /\ UNCHANGED <<chain, entry, count, live>>
      <4>1. Linked' = Linked /\ entry' = entry
        BY <3>1, <3>2 DEF Linked
      <4>2. Contents' = Contents /\ Contents[k] = None
        BY <3>2, <4>1, SameContents DEF Contents, Lookup
      <4>3. Contents' = [Contents EXCEPT ![k] = None]
        BY <4>2, <2>0
      <4>4. Dict!Remove(k)
        <5>1. answer' = "not_found" /\ buckets # 0 /\ (buckets # 0)' = (buckets # 0)
          BY <3>1, <3>2
        <5> QED
          BY <4>2, <4>3, <5>1 DEF Dict!Remove
      <4> QED
        BY <4>4 DEF Dict!Next
    <3>3. ASSUME NEW n \in Nodes, Unlink(k, n), answer' = "ok"  PROVE Dict!Next
      <4>1. /\ n \in Linked /\ entry[n].key = k
            /\ Linked' = Linked \ {n} /\ \A m \in Linked' : entry'[m] = entry[m]
        BY <3>1, <3>3, UnlinkEffect
      <4>2. \A m \in Linked : entry[m].key = k => m = n
        BY <4>1 DEF Inv, WellPlaced
      <4>3. ASSUME NEW j \in Keys  PROVE Lookup(j)' = IF j = k THEN None ELSE Lookup(j)
        <5>1. CASE \E m \in Linked' : entry[m].key = j
          BY <5>1, <4>1, <4>2 DEF LookupRight
        <5>2. CASE \A m \in Linked' : entry[m].key # j
          BY <5>2, <4>1, <4>2 DEF LookupRight
        <5> QED
          BY <5>1, <5>2
      <4>4. Contents' = [Contents EXCEPT ![k] = None]
        BY <4>3 DEF Contents
      <4>5. Contents[k] # None
        BY <4>1, <2>1
      <4>6. Dict!Remove(k)
        <5>1. answer' = "ok" /\ buckets # 0 /\ (buckets # 0)' = (buckets # 0)
          BY <3>1, <3>3
        <5> QED
          BY <4>4, <4>5, <5>1 DEF Dict!Remove
      <4> QED
        BY <4>6 DEF Dict!Next
    <3> QED
      BY <3>2, <3>3, <2>9 DEF Remove
  <2>10. CASE UNCHANGED vars
    <3>1. Linked' = Linked /\ entry' = entry /\ buckets' = buckets /\ answer' = answer
      BY <2>10 DEF vars, Linked
    <3>2. Contents' = Contents
      BY <3>1, SameContents
    <3> QED
      BY <3>1, <3>2 DEF Dict!vars
  <2> QED
    BY <2>2, <2>3, <2>4, <2>5, <2>6, <2>7, <2>8, <2>9, <2>10 DEF Next
<1>3. Inv => LookupRight
  BY LookupIsRight
<1> QED
  BY <1>1, <1>2, <1>3, AlwaysInv, PTL DEF Spec, ImplementsDictionary, Dict!Spec
=============================================================================
