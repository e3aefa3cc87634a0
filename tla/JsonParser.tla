----------------------------- MODULE JsonParser -----------------------------
(***************************************************************************)
(* ten_json_parse (src/json/json.c): the recursive descent over a text,    *)
(* and who owns the values and key strings made so far.  The text is       *)
(* whatever comes next at each point; a frame of the stack is a call of    *)
(* ten__json_parse_value that has made a container and is in its loop.     *)
(* Any allocation may fail.                                                *)
(***************************************************************************)
EXTENDS Naturals, SequencesExt

CONSTANTS
  Nodes,          \* addresses of values
  ParsedStrings,  \* addresses of key strings
  ParsedKeys,     \* what a key string may hold
  Depth,          \* bound on the nesting of the text
  Null

ASSUME ParserAssumption == Null \notin Nodes \cup ParsedStrings \cup ParsedKeys

VARIABLES
  at,      \* where the innermost call is
  stack,   \* the containers under construction: node, kind, pending key
  ret,     \* what the last call of ten__json_parse_value returned
  holder,  \* the container of each value in one, Null for the others
  keyOf,   \* the key string of each value in an object
  live,    \* the values that are allocated
  held,    \* what each key string holds, Null if it is not allocated
  result   \* what ten_json_parse gave the caller

parserVars == <<at, stack, ret, holder, keyOf, live, held, result>>

ParserInit ==
  /\ at = "idle" /\ stack = <<>> /\ ret = Null /\ result = Null
  /\ holder = [n \in Nodes |-> Null] /\ keyOf = [n \in Nodes |-> Null]
  /\ live = {} /\ held = [s \in ParsedStrings |-> Null]

Top == Last(stack)
Pop == Front(stack)

Push(n, k) == Append(stack, [node |-> n, kind |-> k, key |-> Null])
InFrame(k) == Len(stack) > 0 /\ Top.kind = k

-----------------------------------------------------------------------------
(* ten_json_destroy of a value that is in no container: everything below   *)
(* goes with it, and so do the keys.                                       *)

\* S has with a container what is in it.
Whole(S) == \A m \in live : holder[m] \in S => m \in S

(* The least such set with n in it.                                        *)
Below(n) == {m \in live : \A S \in SUBSET live : n \in S /\ Whole(S) => m \in S}

KeysOf(S) == {keyOf[m] : m \in S} \ {Null}

(* The values S and the keys K are freed.                                  *)
FreeAll(S, K) ==
  /\ live' = live \ S
  /\ holder' = [m \in Nodes |-> IF m \in S THEN Null ELSE holder[m]]
  /\ keyOf' = [m \in Nodes |-> IF m \in S THEN Null ELSE keyOf[m]]
  /\ held' = [s \in ParsedStrings |-> IF s \in K \cup KeysOf(S) THEN Null ELSE held[s]]

(* The innermost call frees its container, the values S and the keys K and *)
(* returns NULL.                                                           *)
GiveUp(S, K) ==
  /\ FreeAll(S \cup Below(Top.node), K)
  /\ ret' = Null /\ stack' = Pop /\ at' = "returned"

-----------------------------------------------------------------------------
(* ten__json_parse_value                                                   *)

Parse ==
  /\ at = "idle" /\ result = Null
  /\ at' = "value"
  /\ UNCHANGED <<stack, ret, holder, keyOf, live, held, result>>

(* Not a value, or no memory for it.                                       *)
NoValue ==
  /\ at = "value"
  /\ at' = "returned" /\ ret' = Null
  /\ UNCHANGED <<stack, holder, keyOf, live, held, result>>

(* A null, boolean, number or string, or an empty container.  Of a string, *)
(* a character is missing when ten_string_append had no memory for it:     *)
(* ten__json_parse_string does not look at what it returns.                *)
Leaf(n) ==
  /\ at = "value" /\ n \notin live
  /\ live' = live \cup {n} /\ ret' = n /\ at' = "returned"
  /\ UNCHANGED <<stack, holder, keyOf, held, result>>

OpenContainer(n) ==
  /\ at = "value" /\ n \notin live /\ Len(stack) < Depth
  /\ live' = live \cup {n}
  /\ \/ stack' = Push(n, "array") /\ at' = "value"
     \/ stack' = Push(n, "object") /\ at' = "key"
  /\ UNCHANGED <<ret, holder, keyOf, held, result>>

(* A key, whose characters may be missing too, and its colon.              *)
Key(s) ==
  /\ at = "key" /\ held[s] = Null
  /\ \E k \in ParsedKeys : held' = [held EXCEPT ![s] = k]
  /\ stack' = [stack EXCEPT ![Len(stack)].key = s]
  /\ at' = "value"
  /\ UNCHANGED <<ret, holder, keyOf, live, result>>

(* No key, no memory for one, or a key without its colon.                  *)
NoKey ==
  /\ at = "key"
  /\ GiveUp({}, {})
  /\ UNCHANGED result

-----------------------------------------------------------------------------
(* Back in the loop of a container                                         *)

ElementMissing ==
  /\ at = "returned" /\ Len(stack) > 0 /\ ret = Null
  /\ GiveUp({}, {Top.key} \ {Null})
  /\ UNCHANGED result

Attach(n, c, s) ==
  /\ holder' = [holder EXCEPT ![n] = c]
  /\ keyOf' = [keyOf EXCEPT ![n] = s]

ArrayAdd ==
  /\ at = "returned" /\ InFrame("array") /\ ret # Null
  /\ Attach(ret, Top.node, Null)
  /\ ret' = Null /\ at' = "loop"
  /\ UNCHANGED <<stack, live, held, result>>

(* The value the object under construction has for key k.                  *)
Same(k) == {m \in live : holder[m] = Top.node /\ held[keyOf[m]] = k}

\* Mutant: the element that was not added is forgotten.
ElementNotAdded_KeepsElement ==
  /\ at = "returned" /\ Len(stack) > 0 /\ ret # Null
  /\ GiveUp({}, {Top.key} \ {Null})
  /\ UNCHANGED result

(* No memory to add an element, or an entry for a new key to the map or to *)
(* the order of an object, which has destroyed the key by then: the        *)
(* element is destroyed, then the container.                               *)
ElementNotAdded ==
  /\ at = "returned" /\ Len(stack) > 0 /\ ret # Null
  /\ Top.key # Null => Same(held[Top.key]) = {}
  /\ GiveUp(Below(ret), {Top.key} \ {Null})
  /\ UNCHANGED result

(* ten__json_object_set_owned: a new key is stored with its value; for a   *)
(* known one the old value and the new copy of the key are destroyed.      *)
ObjectSet ==
  /\ at = "returned" /\ InFrame("object") /\ ret # Null
  /\ \/ /\ Same(held[Top.key]) = {}
        /\ Attach(ret, Top.node, Top.key)
        /\ UNCHANGED <<live, held>>
     \/ \E old \in Same(held[Top.key]) :
          LET S == Below(old)
          IN  /\ live' = live \ S
              /\ holder' = [m \in Nodes |-> IF m = ret THEN Top.node ELSE IF m \in S THEN Null ELSE holder[m]]
              /\ keyOf' = [m \in Nodes |-> IF m = ret THEN keyOf[old] ELSE IF m \in S THEN Null ELSE keyOf[m]]
              /\ held' = [s \in ParsedStrings |->
                            IF s = Top.key \/ s \in KeysOf(S \ {old}) THEN Null ELSE held[s]]
  /\ stack' = [stack EXCEPT ![Len(stack)].key = Null]
  /\ ret' = Null /\ at' = "loop"
  /\ UNCHANGED result

(* A comma, the closing bracket, or neither.                               *)
More ==
  /\ at = "loop"
  /\ at' = IF Top.kind = "array" THEN "value" ELSE "key"
  /\ UNCHANGED <<stack, ret, holder, keyOf, live, held, result>>

CloseContainer ==
  /\ at = "loop"
  /\ ret' = Top.node /\ stack' = Pop /\ at' = "returned"
  /\ UNCHANGED <<holder, keyOf, live, held, result>>

NeitherMoreNorClose ==
  /\ at = "loop"
  /\ GiveUp({}, {})
  /\ UNCHANGED result

-----------------------------------------------------------------------------
(* Back in ten_json_parse                                                  *)

Return ==
  /\ at = "returned" /\ stack = <<>>
  /\ result' = ret /\ ret' = Null /\ at' = "idle"
  /\ UNCHANGED <<stack, holder, keyOf, live, held>>

(* Something follows the value.                                            *)
Trailing ==
  /\ at = "returned" /\ stack = <<>> /\ ret # Null
  /\ FreeAll(Below(ret), {})
  /\ ret' = Null /\ at' = "idle"
  /\ UNCHANGED <<stack, result>>

(* The caller is done with what it was given.                              *)
CallerDestroys ==
  /\ at = "idle" /\ result # Null
  /\ FreeAll(Below(result), {})
  /\ result' = Null
  /\ UNCHANGED <<at, stack, ret>>

ParserNext ==
  \/ Parse \/ NoValue \/ NoKey \/ ElementMissing \/ ArrayAdd \/ ElementNotAdded
  \/ ObjectSet \/ More \/ CloseContainer \/ NeitherMoreNorClose
  \/ Return \/ Trailing \/ CallerDestroys
  \/ \E n \in Nodes : Leaf(n) \/ OpenContainer(n)
  \/ \E s \in ParsedStrings : Key(s)

ParserSpec == ParserInit /\ [][ParserNext]_parserVars

-----------------------------------------------------------------------------
(* Properties                                                              *)

ParserTypeOK ==
  /\ at \in {"idle", "value", "key", "returned", "loop"}
  /\ stack \in Seq([node : Nodes, kind : {"array", "object"}, key : ParsedStrings \cup {Null}])
  /\ {ret, result} \subseteq Nodes \cup {Null}
  /\ holder \in [Nodes -> Nodes \cup {Null}]
  /\ keyOf \in [Nodes -> ParsedStrings \cup {Null}]
  /\ live \subseteq Nodes
  /\ held \in [ParsedStrings -> ParsedKeys \cup {Null}]

(* The values nobody holds in a container: those the calls under way have  *)
(* in their hands, and the caller's.                                       *)
Roots == {f.node : f \in Range(stack)} \cup ({ret, result} \ {Null})
PendingKeys == {f.key : f \in Range(stack)} \ {Null}

(* At every moment, on every way out of the parser, each value that is     *)
(* allocated has one owner, which is allocated too, and so has each key    *)
(* string: nothing is lost when a part of a text or of memory is missing,  *)
(* nothing is freed twice, and a parse that fails leaves nothing behind.   *)
(* An object has one value for a key, with a key string of its own.        *)
OneOwner ==
  /\ live = Roots \cup {n \in Nodes : holder[n] # Null}
  /\ \A n \in Nodes : holder[n] # Null => holder[n] \in live /\ n \notin Roots
  /\ {s \in ParsedStrings : held[s] # Null} = PendingKeys \cup KeysOf(Nodes)
  /\ PendingKeys \cap KeysOf(Nodes) = {}
  /\ Len(stack) = Cardinality({f.node : f \in Range(stack)})
  /\ at = "idle" /\ result = Null => live = {}
  /\ \A m, n \in live : m # n /\ holder[m] = holder[n] /\ keyOf[m] # Null /\ keyOf[n] # Null
                          => keyOf[m] # keyOf[n] /\ held[keyOf[m]] # held[keyOf[n]]
=============================================================================
