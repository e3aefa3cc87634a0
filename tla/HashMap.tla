------------------------------- MODULE HashMap -------------------------------
(***************************************************************************)
(* The chained hash table of src/map/map.c.  A bucket is the set of the    *)
(* nodes on its chain; a node is the three blocks ten_map_set allocates,   *)
(* the entry and its copies of key and value.  The caller serialises its   *)
(* calls, so a call is one step.  buckets = 0 stands for "no map".         *)
(***************************************************************************)
EXTENDS Naturals, FiniteSets

CONSTANTS
  Keys,            \* by content for strings, by raw bytes otherwise
  Values,
  Hash,            \* ten__map_hash of each key, before the reduction
  Nodes,           \* addresses at which entries are allocated
  InitialBuckets,  \* TEN_MAP_INITIAL_BUCKETS
  None

ASSUME MapAssumption ==
  /\ Hash \in [Keys -> Nat]
  /\ InitialBuckets \in Nat /\ InitialBuckets >= 2
  /\ None \notin Values
  /\ {"ok", "out_of_memory", "not_found"} \cap Values = {}

VARIABLES
  buckets,  \* map->bucket_count
  chain,    \* map->buckets: the nodes of each bucket
  entry,    \* what each node holds
  count,    \* map->count
  live,     \* the blocks allocated for nodes
  tables,   \* the bucket arrays that are allocated, by their lengths
  answer    \* what the last call returned

vars == <<buckets, chain, entry, count, live, tables, answer>>

Parts == {"entry", "key", "value"}
Blocks(n) == {n} \X Parts
Free(n) == \A p \in Parts : <<n, p>> \notin live

Slot(h, n) == h % n   \* the bucket of hash h among n

Init ==
  /\ buckets = 0 /\ chain = [b \in {} |-> {}] /\ count = 0
  /\ entry = [n \in Nodes |-> None]
  /\ live = {} /\ tables = {} /\ answer = "ok"

Create ==
  /\ buckets = 0
  /\ buckets' = InitialBuckets
  /\ chain' = [b \in 0 .. InitialBuckets - 1 |-> {}]
  /\ count' = 0
  /\ tables' = tables \cup {InitialBuckets}
  /\ answer' = "ok"
  /\ UNCHANGED <<entry, live>>

CreateFails ==
  /\ buckets = 0
  /\ answer' = "out_of_memory"
  /\ UNCHANGED <<buckets, chain, entry, count, live, tables>>

Linked == UNION {chain[b] : b \in 0 .. buckets - 1}

(* Every node of every chain, the bucket array and the map are freed.      *)
Destroy ==
  /\ buckets > 0
  /\ live' = live \ UNION {Blocks(n) : n \in Linked}
  /\ entry' = [n \in Nodes |-> IF n \in Linked THEN None ELSE entry[n]]
  /\ buckets' = 0 /\ chain' = [b \in {} |-> {}] /\ count' = 0
  /\ tables' = tables \ {buckets}
  /\ UNCHANGED answer

\* Mutant: equal hashes are taken for equal keys.
Matches_HashOnly(k, n) == entry[n].hash = Hash[k]

(* ten__map_find: the entry with the key's hash and the key itself, in the *)
(* key's bucket.                                                           *)
Matches(k, n) == entry[n].hash = Hash[k] /\ entry[n].key = k
Found(k) == {n \in chain[Slot(Hash[k], buckets)] : Matches(k, n)}

-----------------------------------------------------------------------------
(* ten_map_set                                                             *)

Overwrite(k, v) ==
  /\ buckets > 0
  /\ \E n \in Found(k) : entry' = [entry EXCEPT ![n].value = v]
  /\ answer' = "ok"
  /\ UNCHANGED <<buckets, chain, count, live, tables>>

\* Mutant: grows only when the table is already over its load.
Crowded_TooLate == count > (buckets * 3) \div 4

Crowded == count + 1 > (buckets * 3) \div 4

(* ten__map_rehash to twice as many buckets: the nodes are relinked, none  *)
(* is copied.                                                              *)
Rehashed ==
  [b \in 0 .. 2 * buckets - 1 |->
     {n \in Linked : Slot(entry[n].hash, 2 * buckets) = b}]

(* What is left of the table once rehashing, if it is due, has succeeded.  *)
NewBuckets == IF Crowded THEN 2 * buckets ELSE buckets
NewChain == IF Crowded THEN Rehashed ELSE chain

NewTables == (tables \ {buckets}) \cup {NewBuckets}

Insert(k, v, n) ==
  /\ buckets > 0 /\ Found(k) = {} /\ Free(n)
  /\ live' = live \cup Blocks(n)
  /\ entry' = [entry EXCEPT ![n] = [key |-> k, hash |-> Hash[k], value |-> v]]
  /\ buckets' = NewBuckets /\ tables' = NewTables
  /\ chain' = [NewChain EXCEPT ![Slot(Hash[k], NewBuckets)] = @ \cup {n}]
  /\ count' = count + 1
  /\ answer' = "ok"

RehashFails(k) ==
  /\ buckets > 0 /\ Found(k) = {} /\ Crowded
  /\ answer' = "out_of_memory"
  /\ UNCHANGED <<buckets, chain, entry, count, live, tables>>

\* Mutant: the entry is not freed when there is no memory for the value.
NodeFails_Leaks(k) ==
  /\ buckets > 0 /\ Found(k) = {}
  /\ buckets' = NewBuckets /\ chain' = NewChain /\ tables' = NewTables
  /\ \E n \in Nodes : Free(n) /\ live' = live \cup {<<n, "entry">>}
  /\ answer' = "out_of_memory"
  /\ UNCHANGED <<entry, count>>

(* The allocation of the entry, of the key or of the value fails: what was *)
(* allocated for the node is freed again, the grown table stays.           *)
NodeFails(k) ==
  /\ buckets > 0 /\ Found(k) = {}
  /\ buckets' = NewBuckets /\ chain' = NewChain /\ tables' = NewTables
  /\ answer' = "out_of_memory"
  /\ UNCHANGED <<entry, count, live>>

-----------------------------------------------------------------------------

(* ten_map_get and, as far as finding goes, ten_map_contains.              *)
Get(k) ==
  /\ buckets > 0
  /\ \/ Found(k) = {} /\ answer' = "not_found"
     \/ \E n \in Found(k) : answer' = entry[n].value
  /\ UNCHANGED <<buckets, chain, entry, count, live, tables>>

\* Mutant: what hangs on the node is cut off with it.
Unlink_CutsChain(k, n) ==
  /\ n \in Found(k)
  /\ chain' = [chain EXCEPT ![Slot(Hash[k], buckets)] = {}]
  /\ live' = live \ Blocks(n)
  /\ entry' = [entry EXCEPT ![n] = None]
  /\ count' = count - 1

(* The found node is unlinked and its three blocks are freed.              *)
Unlink(k, n) ==
  /\ n \in Found(k)
  /\ chain' = [chain EXCEPT ![Slot(Hash[k], buckets)] = @ \ {n}]
  /\ live' = live \ Blocks(n)
  /\ entry' = [entry EXCEPT ![n] = None]
  /\ count' = count - 1

Remove(k) ==
  /\ buckets > 0
  /\ \/ /\ Found(k) = {} /\ answer' = "not_found"
        /\ UNCHANGED <<chain, entry, count, live>>
     \/ (\E n \in Nodes : Unlink(k, n)) /\ answer' = "ok"
  /\ UNCHANGED <<buckets, tables>>

Next ==
  \/ Create \/ CreateFails \/ Destroy
  \/ \E k \in Keys :
       \/ \E v \in Values : Overwrite(k, v) \/ \E n \in Nodes : Insert(k, v, n)
       \/ RehashFails(k) \/ NodeFails(k) \/ Get(k) \/ Remove(k)

Spec == Init /\ [][Next]_vars

-----------------------------------------------------------------------------
(* Properties                                                              *)

Entries == [key : Keys, hash : Nat, value : Values]

(* The variables keep their ranges, and the table has no or enough buckets.*)
TypeOK ==
  /\ buckets \in Nat /\ (buckets = 0 \/ buckets >= InitialBuckets)
  /\ chain \in [0 .. buckets - 1 -> SUBSET Nodes]
  /\ entry \in [Nodes -> Entries \cup {None}]
  /\ count \in Nat
  /\ live \subseteq Nodes \X Parts
  /\ tables \subseteq Nat
  /\ answer \in Values \cup {"ok", "out_of_memory", "not_found"}

(* Every entry is on the chain its hash belongs to, also after the table   *)
(* has grown, and there is one entry for a key at most: a key that was set *)
(* can be found, and one that was removed is gone (ten__map_find,          *)
(* ten__map_rehash).                                                       *)
WellPlaced ==
  /\ \A b \in 0 .. buckets - 1 : \A n \in chain[b] :
       entry[n] \in Entries /\ entry[n].hash = Hash[entry[n].key]
                            /\ Slot(entry[n].hash, buckets) = b
  /\ \A m, n \in Linked : entry[m].key = entry[n].key => m = n

(* map->count is the number of entries and stays within three quarters of  *)
(* the buckets: ten_map_count is right, and finding O(1) on average.       *)
CountAndLoad == count = Cardinality(Linked) /\ count <= (buckets * 3) \div 4

(* The blocks allocated for nodes are those of the linked nodes, and the   *)
(* one bucket array is the current one: a set that runs out of memory      *)
(* half-way, a remove, a rehash and a destroy leave nothing behind, and no *)
(* linked node has been freed.                                             *)
NoLeak ==
  /\ live = UNION {Blocks(n) : n \in Linked}
  /\ tables = IF buckets = 0 THEN {} ELSE {buckets}

(* The entries a step changes or takes out of the map.                     *)
Touched == {n \in Linked : n \notin Linked' \/ entry'[n] # entry[n]}

(* What ten_map_get returned for a key holds its value at the same place   *)
(* until the key itself is set or removed or the table is rehashed         *)
(* (map.h:57-58): a call that does not rehash touches the entry of one key *)
(* at most, the others on its chain stay linked and as they are.           *)
PointersStay == [][buckets' = buckets => \A m, n \in Touched : m = n]_vars

(* A caller sees a dictionary whose failed sets change nothing.            *)
Lookup(k) == LET n == CHOOSE n \in Found(k) : TRUE
             IN  IF buckets = 0 \/ Found(k) = {} THEN None ELSE entry[n].value
Contents == [k \in Keys |-> Lookup(k)]
Dict == INSTANCE Dictionary WITH value <- Contents, exists <- buckets # 0
ImplementsDictionary == Dict!Spec
=============================================================================
