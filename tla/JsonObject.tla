----------------------------- MODULE JsonObject -----------------------------
(***************************************************************************)
(* A JSON object of src/json/json.c: a map from key strings to values, and *)
(* a list that keeps the key strings in the order they came in.  The map   *)
(* stores a pointer to a string, and compares what the pointer points to   *)
(* whenever it searches (src/map/map.c); the string itself belongs to the  *)
(* list.  So the order of a map's chains matters here, and a chain is a    *)
(* sequence.  A set is one step; destroy takes one step for each key.      *)
(***************************************************************************)
EXTENDS Naturals, SequencesExt

CONSTANTS
  Keys,            \* contents of keys
  Hash,            \* ten__map_hash of each
  Strings,         \* addresses of key strings
  Values,          \* addresses of values
  InitialBuckets,  \* TEN_MAP_INITIAL_BUCKETS
  None

ASSUME JsonObjectAssumption ==
  /\ Hash \in [Keys -> Nat]
  /\ InitialBuckets \in Nat /\ InitialBuckets >= 2
  /\ None \notin Keys

VARIABLES
  pc,     \* what the object is: "none", "open" or "destroying"
  next,   \* the next key of the loop in ten_json_destroy
  text,   \* what each string holds, None if it is not allocated
  chain,  \* the chains of the map, entry by entry
  order,  \* key_order
  owner,  \* who has to destroy each value: "nobody" if it is not allocated
  twins   \* an object has been destroyed two of whose keys had the same hash

vars == <<pc, next, text, chain, order, owner, twins>>

Init ==
  /\ pc = "none" /\ next = 1
  /\ text = [s \in Strings |-> None]
  /\ chain = <<>> /\ order = <<>>
  /\ owner = [v \in Values |-> "nobody"]
  /\ twins = FALSE

Buckets == Len(chain)
SlotIn(n, h) == (h % n) + 1
Slot(k) == SlotIn(Buckets, Hash[k])

-----------------------------------------------------------------------------
(* Searching a chain                                                       *)

(* strcmp with the key of an entry may say anything once the string has    *)
(* been freed.                                                             *)
MayEqual(e, k) == text[e.key] \in {k, None}
MayDiffer(e, k) == text[e.key] # k

(* The entries of key k's chain that ten__map_find compares.               *)
Compared(k) ==
  LET c == chain[Slot(k)]
  IN  {i \in DOMAIN c : /\ c[i].hash = Hash[k]
                        /\ \A j \in 1 .. i - 1 : c[j].hash = Hash[k] => MayDiffer(c[j], k)}

Hits(k) == {i \in Compared(k) : MayEqual(chain[Slot(k)][i], k)}
CanMiss(k) == \A i \in Compared(k) : MayDiffer(chain[Slot(k)][i], k)

-----------------------------------------------------------------------------
(* ten_json_create_object; a failed one leaves nothing.                    *)

Create ==
  /\ pc = "none" /\ pc' = "open"
  /\ chain' = [b \in 1 .. InitialBuckets |-> <<>>] /\ order' = <<>>
  /\ UNCHANGED <<next, text, owner, twins>>

(* A caller makes a value and owns it.                                     *)
CreateValue(v) ==
  /\ owner[v] = "nobody" /\ owner' = [owner EXCEPT ![v] = "caller"]
  /\ UNCHANGED <<pc, next, text, chain, order, twins>>

-----------------------------------------------------------------------------
(* ten_json_object_set of a value the caller owns                          *)

\* Mutant: the new key, not the old one, takes its place in the order.
Replace_NewPlace(k, v) ==
  /\ pc = "open" /\ owner[v] = "caller"
  /\ \E i \in Hits(k) :
       LET e == chain[Slot(k)][i]
       IN  /\ chain' = [chain EXCEPT ![Slot(k)][i].value = v]
           /\ owner' = [owner EXCEPT ![e.value] = "nobody", ![v] = "object"]
           /\ order' = Append(Remove(order, e.key), e.key)
  /\ UNCHANGED <<pc, next, text, twins>>

(* The key is there: the value is replaced, the old value and the new copy *)
(* of the key are destroyed.                                               *)
Replace(k, v) ==
  /\ pc = "open" /\ owner[v] = "caller"
  /\ \E i \in Hits(k) :
       LET old == chain[Slot(k)][i].value
       IN  /\ chain' = [chain EXCEPT ![Slot(k)][i].value = v]
           /\ owner' = [owner EXCEPT ![old] = "nobody", ![v] = "object"]
  /\ UNCHANGED <<pc, next, text, order, twins>>

Count == Len(FlattenSeq(chain))
Crowded == Count + 1 > (Buckets * 3) \div 4

(* ten__map_rehash takes the entries from the old chains in order and puts *)
(* each at the head of its new one.                                        *)
Rehashed ==
  LET entries == FlattenSeq(chain)
      table[i \in 0 .. Len(entries)] ==
        IF i = 0 THEN [b \in 1 .. 2 * Buckets |-> <<>>]
        ELSE [table[i - 1] EXCEPT ![SlotIn(2 * Buckets, entries[i].hash)] = <<entries[i]>> \o @]
  IN  table[Len(entries)]

Grown == IF Crowded THEN Rehashed ELSE chain

(* ten_map_set of a new key puts its entry at the head of a chain.         *)
WithEntry(k, v, s) ==
  [Grown EXCEPT ![SlotIn(Len(Grown), Hash[k])] =
     <<[key |-> s, hash |-> Hash[k], value |-> v]>> \o @]

Add(k, v, s) ==
  /\ pc = "open" /\ owner[v] = "caller" /\ CanMiss(k) /\ text[s] = None
  /\ text' = [text EXCEPT ![s] = k]
  /\ chain' = WithEntry(k, v, s)
  /\ order' = Append(order, s)
  /\ owner' = [owner EXCEPT ![v] = "object"]
  /\ UNCHANGED <<pc, next, twins>>

(* No memory for the entry: the copy of the key is destroyed, the table    *)
(* may have grown.  (Without memory for the copy or for the larger table   *)
(* nothing changes at all.)                                                *)
AddFails(k, v) ==
  /\ pc = "open" /\ owner[v] = "caller" /\ CanMiss(k)
  /\ chain' = Grown
  /\ UNCHANGED <<pc, next, text, order, owner, twins>>

\* Mutant: the entry is left in the map.
OrderFails_KeepsEntry(k, v, s) ==
  /\ pc = "open" /\ owner[v] = "caller" /\ CanMiss(k) /\ text[s] = None
  /\ chain' = WithEntry(k, v, s)
  /\ UNCHANGED <<pc, next, text, order, owner, twins>>

(* ten_map_remove takes the first entry with the string s out of chain c.  *)
Without(c, s) == RemoveFirstMatch(c, LAMBDA e : e.key = s)

(* The map has the entry, but ten_list_add has no memory: ten_map_remove   *)
(* takes it out again and the copy of the key is destroyed.                *)
OrderFails(k, v, s) ==
  /\ pc = "open" /\ owner[v] = "caller" /\ CanMiss(k) /\ text[s] = None
  /\ chain' = [WithEntry(k, v, s) EXCEPT ![SlotIn(Len(Grown), Hash[k])] = Without(@, s)]
  /\ UNCHANGED <<pc, next, text, order, owner, twins>>

-----------------------------------------------------------------------------
(* ten_json_destroy                                                        *)

Entries == Range(FlattenSeq(chain))
SomeHashTwice == \E e, f \in Entries : e # f /\ e.hash = f.hash

Destroy ==
  /\ pc = "open" /\ pc' = "destroying" /\ next' = 1
  /\ twins' = IF SomeHashTwice THEN TRUE ELSE twins
  /\ UNCHANGED <<text, chain, order, owner>>

(* The value the map has for the next key is destroyed, then the key.      *)
DestroyKey ==
  /\ pc = "destroying" /\ next <= Len(order)
  /\ LET s == order[next]
         k == text[s]
     IN  /\ \/ CanMiss(k) /\ UNCHANGED owner
            \/ \E i \in Hits(k) :
                 owner' = [owner EXCEPT ![chain[Slot(k)][i].value] = "nobody"]
         /\ text' = [text EXCEPT ![s] = None]
  /\ next' = next + 1
  /\ UNCHANGED <<pc, chain, order, twins>>

(* The map and the list are freed, then the object.                        *)
DestroyEnd ==
  /\ pc = "destroying" /\ next > Len(order)
  /\ pc' = "none" /\ chain' = <<>> /\ order' = <<>> /\ next' = 1
  /\ UNCHANGED <<text, owner, twins>>

Next ==
  \/ Create \/ Destroy \/ DestroyKey \/ DestroyEnd
  \/ \E v \in Values :
       \/ CreateValue(v)
       \/ \E k \in Keys :
            \/ Replace(k, v) \/ AddFails(k, v)
            \/ \E s \in Strings : Add(k, v, s) \/ OrderFails(k, v, s)

Spec == Init /\ [][Next]_vars

-----------------------------------------------------------------------------
(* Properties                                                              *)

(* The keys in their order, as ten_json_object_key_at and stringify see    *)
(* them, and the value of each.                                            *)
KeyOrder == [i \in DOMAIN order |-> text[order[i]]]
Lookup(k) == {e.value : e \in {x \in Entries : text[x.key] = k}}

TypeOK ==
  /\ pc \in {"none", "open", "destroying"}
  /\ next \in 1 .. Len(order) + 1
  /\ text \in [Strings -> Keys \cup {None}]
  /\ Entries \subseteq [key : Strings, hash : Range(Hash), value : Values]
  /\ order \in Seq(Strings)
  /\ owner \in [Values -> {"nobody", "caller", "object"}]
  /\ twins \in BOOLEAN

(* While an object is in use, the map and the list hold the same strings,  *)
(* each of them allocated and each key once, whichever of the two failed   *)
(* to take a key: what is listed can be found, what is found is destroyed; *)
(* and the object has to destroy the values of its keys.  No key string    *)
(* outlives the object.  It destroys the values it owns and no others: a   *)
(* value belongs to it exactly if it is some key's value, to the caller    *)
(* still if the set failed, and to no one when the object is gone.  This   *)
(* last part ends with the first object that is destroyed with two keys of *)
(* one hash, see ComparesLiveKeys; the rest holds for any hashes.          *)
PartsAgree ==
  LET owned == {v \in Values : owner[v] = "object"}
      used == {e.value : e \in Entries}
  IN  /\ pc = "open" =>
           /\ {e.key : e \in Entries} = Range(order) /\ IsInjective(order)
           /\ IsInjective(KeyOrder) /\ None \notin Range(KeyOrder)
           /\ Len(order) = Count
           /\ used \subseteq owned
      /\ pc = "none" => \A s \in Strings : text[s] = None
      /\ pc # "destroying" => twins \/ owned = used

(* A search compares the contents of allocated strings only, as map.h      *)
(* says of string keys (map.h:18-20), the searches of destroy included: it *)
(* has freed the keys before the one it searches, but leaves them in the   *)
(* map.                                                                    *)
ComparesLiveKeys ==
  \A k \in (IF pc = "open" THEN Keys ELSE IF next \in DOMAIN order THEN {KeyOrder[next]} ELSE {}) :
    \A i \in Compared(k) : text[chain[Slot(k)][i].key] # None

(* A set keeps the keys in the order they first came in and adds one at    *)
(* most, and a key's value changes to what the caller handed over, never   *)
(* otherwise: a failed set shows in nothing a caller can see.              *)
OrderIsKept ==
  [][pc = "open" /\ pc' = "open" =>
       /\ IsPrefix(KeyOrder, KeyOrder') /\ Len(order') <= Len(order) + 1
       /\ \A k \in Keys : Lookup(k)' # Lookup(k) =>
            \E v \in Values : Lookup(k)' = {v} /\ owner[v] = "caller" /\ owner'[v] = "object"]_vars
=============================================================================
