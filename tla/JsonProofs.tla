------------------------------ MODULE JsonProofs ------------------------------
(***************************************************************************)
(* Proofs about the two modules of JSON.                                   *)
(*                                                                         *)
(* JsonParser, for texts of any shape and depth, any values and any key    *)
(* strings: every value and every key string has one owner.                *)
(*                                                                         *)
(* JsonObject, for any keys, hashes, strings and values: the map and the   *)
(* list of the keys agree whatever fails, and what destroy frees is what   *)
(* the object owned, unless two of its keys had the same hash.             *)
(***************************************************************************)
EXTENDS JsonObject, JsonParser, SequenceTheorems, FiniteSetTheorems, WellFoundedInduction, TLAPS

-----------------------------------------------------------------------------
(* The parser: its inductive invariant                                     *)

Frames == [node : Nodes, kind : {"array", "object"}, key : ParsedStrings \cup {Null}]

Depths == 1 .. Len(stack)

(* Where the innermost call is, and what it has in its hands there.  A     *)
(* call that waits for the value of a key has the key.                     *)
ControlInv ==
  /\ result # Null => at = "idle"
  /\ ret # Null => at = "returned"
  /\ at = "idle" => stack = << >>
  /\ at \in {"key", "loop"} => Len(stack) > 0 /\ stack[Len(stack)].key = Null
  /\ at = "key" => stack[Len(stack)].kind = "object"
  /\ \A i \in Depths : stack[i].kind = "array" => stack[i].key = Null
  /\ \A i \in Depths : stack[i].kind = "object" /\ stack[i].key = Null
                         => i = Len(stack) /\ at \in {"key", "loop"}

(* No two calls have the same container or the same key, and none has what *)
(* the last call returned.                                                 *)
StackInv ==
  /\ \A i, j \in Depths : stack[i].node = stack[j].node => i = j
  /\ \A i, j \in Depths : stack[i].key = stack[j].key /\ stack[i].key # Null => i = j
  /\ \A i \in Depths : stack[i].node # ret

Held == {n \in Nodes : holder[n] # Null}

(* A value is in one pair of hands or in one container, never in both.     *)
ValueInv ==
  /\ live = Roots \cup Held
  /\ \A n \in Held : holder[n] \in live /\ n \notin Roots

(* So is a key string.                                                     *)
KeyInv ==
  /\ {s \in ParsedStrings : held[s] # Null} = PendingKeys \cup KeysOf(Nodes)
  /\ PendingKeys \cap KeysOf(Nodes) = {}
  /\ \A m, n \in Nodes : keyOf[m] = keyOf[n] /\ keyOf[m] # Null => m = n
  /\ \A n \in Nodes : keyOf[n] # Null => n \in Held

(* An object has one value for a key.                                      *)
MemberInv ==
  \A m, n \in Nodes : m # n /\ holder[m] = holder[n] /\ keyOf[m] # Null /\ keyOf[n] # Null
                        => held[keyOf[m]] # held[keyOf[n]]

(* Every value is in somebody's hands or somewhere below one that is:      *)
(* there are no cycles.                                                    *)
Grounded == \A S \in SUBSET live : Roots \subseteq S /\ Whole(S) => S = live

ParserInv ==
  /\ ParserTypeOK /\ ControlInv /\ StackInv
  /\ ValueInv /\ KeyInv /\ MemberInv /\ Grounded

-----------------------------------------------------------------------------
(* What is freed with a value                                              *)

LEMMA BelowFacts ==
  ASSUME NEW n \in live
  PROVE  Below(n) \in SUBSET live /\ n \in Below(n) /\ Whole(Below(n))
BY DEF Below, Whole

(* Of the values in somebody's hands it is only the one itself.            *)
LEMMA BelowApart ==
  ASSUME ParserTypeOK, ValueInv, NEW n \in live
  PROVE  Below(n) \cap Roots \subseteq {n}
<1> DEFINE S == {n} \cup Held
<1>1. S \in SUBSET live
  BY DEF ValueInv
<1>2. Whole(S)
  BY ParserAssumption DEF Whole, Held, ValueInv, ParserTypeOK
<1>3. Below(n) \subseteq S
  BY <1>1, <1>2 DEF Below
<1> QED
  BY <1>3 DEF ValueInv

(* Of a value in a container it is no value in anybody's hands.            *)
LEMMA BelowHeld ==
  ASSUME ParserTypeOK, ValueInv, NEW n \in Held
  PROVE  n \in live /\ Below(n) \cap Roots = {}
BY BelowApart DEF ValueInv

(* The values D and the keys K are freed: the roots T with what is below.  *)
LEMMA FreeStep ==
  ASSUME ParserInv,
         NEW T \in SUBSET Roots, NEW D \in SUBSET live, NEW K \in SUBSET PendingKeys,
         T \subseteq D, Whole(D), D \cap Roots \subseteq T,
         FreeAll(D, K), Roots' = Roots \ T, PendingKeys' = PendingKeys \ K
  PROVE  ValueInv' /\ KeyInv' /\ MemberInv' /\ Grounded'
<1>0. /\ live \subseteq Nodes /\ holder \in [Nodes -> Nodes \cup {Null}]
      /\ keyOf \in [Nodes -> ParsedStrings \cup {Null}] /\ held \in [ParsedStrings -> ParsedKeys \cup {Null}]
      /\ Null \notin Nodes
  BY ParserAssumption DEF ParserInv, ParserTypeOK
<1>1. /\ live' = live \ D
      /\ \A n \in Nodes : holder'[n] = IF n \in D THEN Null ELSE holder[n]
      /\ \A n \in Nodes : keyOf'[n] = IF n \in D THEN Null ELSE keyOf[n]
      /\ \A s \in ParsedStrings : held'[s] = IF s \in K \cup KeysOf(D) THEN Null ELSE held[s]
  BY DEF FreeAll
<1>2. Held' = Held \ D
  BY <1>1 DEF Held
<1>3. live = Roots \cup Held /\ \A n \in Held : holder[n] \in live /\ n \notin Roots
  BY DEF ParserInv, ValueInv
<1>4. \A m \in live : holder[m] \in D => m \in D
  BY DEF Whole
<1>5. ValueInv'
  <2>1. live' = Roots' \cup Held'
    BY <1>1, <1>2, <1>3
  <2>2. ASSUME NEW n \in Held' PROVE holder'[n] \in live' /\ n \notin Roots'
    <3>1. n \in Held /\ n \notin D /\ n \in Nodes /\ n \in live
      BY <1>2, <1>3, <2>2 DEF Held
    <3> QED
      BY <1>1, <1>3, <1>4, <3>1
  <2> QED
    BY <2>1, <2>2 DEF ValueInv
<1>6. /\ {s \in ParsedStrings : held[s] # Null} = PendingKeys \cup KeysOf(Nodes)
      /\ PendingKeys \cap KeysOf(Nodes) = {}
      /\ \A m, n \in Nodes : keyOf[m] = keyOf[n] /\ keyOf[m] # Null => m = n
      /\ \A n \in Nodes : keyOf[n] # Null => n \in Held
  BY DEF ParserInv, KeyInv
<1>7. KeysOf(Nodes)' = KeysOf(Nodes) \ KeysOf(D)
  <2>1. KeysOf(Nodes)' = {keyOf'[m] : m \in Nodes} \ {Null}
    BY DEF KeysOf
  <2>2. ASSUME NEW s, s # Null
        PROVE  (\E m \in Nodes : keyOf'[m] = s) <=> (\E m \in Nodes : keyOf[m] = s) /\ ~\E m \in D : keyOf[m] = s
    BY <1>0, <1>1, <1>6, <2>2
  <2> QED
    BY <2>1, <2>2 DEF KeysOf
<1>8. PendingKeys \cap KeysOf(D) = {}
  BY <1>0, <1>6 DEF KeysOf
<1>9. KeyInv'
  <2>1. {s \in ParsedStrings : held'[s] # Null} = PendingKeys' \cup KeysOf(Nodes)'
    BY <1>1, <1>6, <1>7, <1>8
  <2>2. PendingKeys' \cap KeysOf(Nodes)' = {}
    BY <1>6, <1>7
  <2>3. \A m, n \in Nodes : keyOf'[m] = keyOf'[n] /\ keyOf'[m] # Null => m = n
    BY <1>1, <1>6
  <2>4. \A n \in Nodes : keyOf'[n] # Null => n \in Held'
    BY <1>1, <1>2, <1>6
  <2> QED
    BY <2>1, <2>2, <2>3, <2>4 DEF KeyInv
<1>10. MemberInv'
  <2> SUFFICES ASSUME NEW m \in Nodes, NEW n \in Nodes, m # n, holder'[m] = holder'[n],
                      keyOf'[m] # Null, keyOf'[n] # Null
               PROVE  held'[keyOf'[m]] # held'[keyOf'[n]]
    BY DEF MemberInv
  <2>1. m \notin D /\ n \notin D /\ keyOf'[m] = keyOf[m] /\ keyOf'[n] = keyOf[n]
    BY <1>1
  <2>2. ASSUME NEW x \in Nodes \ D, keyOf[x] # Null
        PROVE  held'[keyOf[x]] = held[keyOf[x]]
    <3>1. keyOf[x] \in KeysOf(Nodes) /\ keyOf[x] \notin KeysOf(D) /\ keyOf[x] \in ParsedStrings
      BY <1>0, <1>6, <2>2 DEF KeysOf
    <3> QED
      BY <1>1, <1>6, <3>1
  <2>3. held[keyOf[m]] # held[keyOf[n]]
    BY <1>1, <2>1 DEF ParserInv, MemberInv
  <2> QED
    BY <2>1, <2>2, <2>3
<1>11. Grounded'
  <2> SUFFICES ASSUME NEW S \in SUBSET live', Roots' \subseteq S, Whole(S)'
               PROVE  S = live'
    BY DEF Grounded
  <2>1. \A m \in live' : holder'[m] \in S => m \in S
    BY DEF Whole
  <2>2. Roots \subseteq S \cup D /\ S \cup D \in SUBSET live
    BY <1>1
  <2>3. Whole(S \cup D)
    <3> SUFFICES ASSUME NEW m \in live, holder[m] \in S \cup D, m \notin D
                 PROVE  m \in S
      BY DEF Whole
    <3>1. m \in live' /\ holder'[m] = holder[m] /\ holder[m] \in S
      BY <1>0, <1>1, <1>4
    <3> QED
      BY <2>1, <3>1
  <2>4. S \cup D = live
    BY <2>2, <2>3 DEF ParserInv, Grounded
  <2> QED
    BY <1>1, <2>4
<1> QED
  BY <1>5, <1>9, <1>10, <1>11

(* A value is made: it is in somebody's hands, and nothing is below it.    *)
LEMMA NewStep ==
  ASSUME ParserInv, NEW n \in Nodes, n \notin live, live' = live \cup {n},
         UNCHANGED <<holder, keyOf, held>>, Roots' = Roots \cup {n}, PendingKeys' = PendingKeys
  PROVE  ValueInv' /\ KeyInv' /\ MemberInv' /\ Grounded'
<1>1. /\ live = Roots \cup Held /\ Held' = Held
      /\ \A m \in Held : holder[m] \in live /\ m \notin Roots
      /\ \A m \in Nodes : holder[m] # n
      /\ live \subseteq Nodes
  BY ParserAssumption DEF ParserInv, ParserTypeOK, ValueInv, Held
<1>2. ValueInv'
  BY <1>1 DEF ValueInv
<1>3. KeyInv'
  BY <1>1 DEF ParserInv, KeyInv, KeysOf
<1>4. MemberInv'
  BY DEF ParserInv, MemberInv
<1>5. Grounded'
  <2> SUFFICES ASSUME NEW S \in SUBSET live', Roots' \subseteq S, Whole(S)'
               PROVE  S = live'
    BY DEF Grounded
  <2>1. \A m \in live' : holder[m] \in S => m \in S
    BY DEF Whole
  <2>2. Whole(S \ {n}) /\ S \ {n} \in SUBSET live /\ Roots \subseteq S \ {n}
    BY <1>1, <2>1 DEF Whole
  <2>3. S \ {n} = live
    BY <2>2 DEF ParserInv, Grounded
  <2> QED
    BY <2>3
<1> QED
  BY <1>2, <1>3, <1>4, <1>5

(* Nothing is made, freed or moved but from hand to hand.                  *)
LEMMA SameStep ==
  ASSUME ParserInv, UNCHANGED <<holder, keyOf, live, held>>, Roots' = Roots, PendingKeys' = PendingKeys
  PROVE  ValueInv' /\ KeyInv' /\ MemberInv' /\ Grounded'
BY DEF ParserInv, ValueInv, KeyInv, MemberInv, Grounded, Whole, Held, KeysOf

(* The value n moves from somebody's hands into the container c, and the   *)
(* values D, which are in containers, are freed.                           *)
LEMMA MoveStep ==
  ASSUME ParserInv, NEW n \in Roots, NEW c \in Roots \ {n},
         NEW D \in SUBSET live, Whole(D), D \cap Roots = {},
         live' = live \ D, Roots' = Roots \ {n},
         \A m \in Nodes : holder'[m] = IF m = n THEN c ELSE IF m \in D THEN Null ELSE holder[m]
  PROVE  ValueInv' /\ Grounded' /\ Held' = (Held \ D) \cup {n} /\ n \in Nodes \ (D \cup Held)
<1>1. /\ live = Roots \cup Held /\ \A m \in Held : holder[m] \in live /\ m \notin Roots
      /\ \A m \in live : holder[m] \in D => m \in D
      /\ live \subseteq Nodes /\ Null \notin Nodes
  BY ParserAssumption DEF ParserInv, ParserTypeOK, ValueInv, Whole
<1>2. n \in live /\ c \in live /\ n \in Nodes \ (D \cup Held) /\ c \notin D /\ c # Null /\ holder[n] = Null
  BY <1>1 DEF Held
<1>3. Held' = (Held \ D) \cup {n}
  BY <1>2 DEF Held
<1>4. ValueInv'
  <2>1. live' = Roots' \cup Held'
    BY <1>1, <1>2, <1>3
  <2>2. ASSUME NEW m \in Held' PROVE holder'[m] \in live' /\ m \notin Roots'
    <3>1. CASE m = n
      BY <1>1, <1>2, <3>1
    <3>2. CASE m # n
      <4>1. m \in Held /\ m \notin D /\ m \in live /\ m \in Nodes
        BY <1>1, <1>3, <2>2, <3>2
      <4>2. holder'[m] = holder[m] /\ holder[m] \in live /\ holder[m] \notin D
        BY <1>1, <3>2, <4>1
      <4> QED
        BY <1>1, <4>1, <4>2
    <3> QED
      BY <3>1, <3>2
  <2> QED
    BY <2>1, <2>2 DEF ValueInv
<1>5. Grounded'
  <2> SUFFICES ASSUME NEW S \in SUBSET live', Roots' \subseteq S, Whole(S)'
               PROVE  S = live'
    BY DEF Grounded
  <2>1. \A m \in live' : holder'[m] \in S => m \in S
    BY DEF Whole
  <2>2. n \in S
    BY <1>2, <2>1
  <2>3. Whole(S \cup D)
    <3> SUFFICES ASSUME NEW m \in live, holder[m] \in S \cup D, m \notin D
                 PROVE  m \in S
      BY DEF Whole
    <3>1. holder[m] \in S /\ holder[m] # Null /\ m \in Nodes
      BY <1>1
    <3>2. m # n /\ holder'[m] = holder[m] /\ m \in live'
      BY <1>2, <3>1
    <3> QED
      BY <2>1, <3>1, <3>2
  <2>4. S \cup D = live
    BY <2>2, <2>3 DEF ParserInv, Grounded
  <2> QED
    BY <2>4
<1> QED
  BY <1>2, <1>3, <1>4, <1>5

(* With a key the container has not got, or without one.                   *)
LEMMA AttachStep ==
  ASSUME ParserInv, NEW n \in Roots, NEW c \in Roots \ {n}, NEW k \in PendingKeys \cup {Null},
         Attach(n, c, k), UNCHANGED <<live, held>>,
         Roots' = Roots \ {n}, PendingKeys' = PendingKeys \ {k},
         k # Null => \A m \in Nodes : holder[m] = c /\ keyOf[m] # Null => held[keyOf[m]] # held[k]
  PROVE  ValueInv' /\ KeyInv' /\ MemberInv' /\ Grounded'
<1>0. /\ live \subseteq Nodes /\ holder \in [Nodes -> Nodes \cup {Null}]
      /\ keyOf \in [Nodes -> ParsedStrings \cup {Null}] /\ n \in Nodes
  BY DEF ParserInv, ParserTypeOK, ValueInv
<1>1. /\ \A m \in Nodes : holder'[m] = IF m = n THEN c ELSE holder[m]
      /\ \A m \in Nodes : keyOf'[m] = IF m = n THEN k ELSE keyOf[m]
  BY <1>0 DEF Attach
<1>2. ValueInv' /\ Grounded' /\ Held' = Held \cup {n} /\ n \notin Held
  <2>1. Whole({})
    BY DEF Whole
  <2> QED
    BY <1>1, <2>1, MoveStep, {} \in SUBSET live
<1>3. /\ {s \in ParsedStrings : held[s] # Null} = PendingKeys \cup KeysOf(Nodes)
      /\ PendingKeys \cap KeysOf(Nodes) = {}
      /\ \A l, m \in Nodes : keyOf[l] = keyOf[m] /\ keyOf[l] # Null => l = m
      /\ \A m \in Nodes : keyOf[m] # Null => m \in Held
  BY DEF ParserInv, KeyInv
<1>4. keyOf[n] = Null /\ Null \notin PendingKeys
  BY <1>0, <1>2, <1>3 DEF PendingKeys
<1>5. KeysOf(Nodes)' = KeysOf(Nodes) \cup ({k} \ {Null})
  <2>1. KeysOf(Nodes)' = {keyOf'[m] : m \in Nodes} \ {Null}
    BY DEF KeysOf
  <2>2. ASSUME NEW s, s # Null
        PROVE  (\E m \in Nodes : keyOf'[m] = s) <=> (\E m \in Nodes : keyOf[m] = s) \/ s = k
    BY <1>0, <1>1, <1>4, <2>2
  <2> QED
    BY <2>1, <2>2 DEF KeysOf
<1>6. \A m \in Nodes : keyOf[m] # Null => keyOf[m] # k
  BY <1>3, <1>4 DEF KeysOf
<1>7. KeyInv'
  <2>1. {s \in ParsedStrings : held'[s] # Null} = PendingKeys' \cup KeysOf(Nodes)'
    BY <1>3, <1>4, <1>5
  <2>2. PendingKeys' \cap KeysOf(Nodes)' = {}
    BY <1>3, <1>4, <1>5
  <2>3. \A l, m \in Nodes : keyOf'[l] = keyOf'[m] /\ keyOf'[l] # Null => l = m
    BY <1>1, <1>3, <1>6
  <2>4. \A m \in Nodes : keyOf'[m] # Null => m \in Held'
    BY <1>1, <1>2, <1>3
  <2> QED
    BY <2>1, <2>2, <2>3, <2>4 DEF KeyInv
<1>8. MemberInv'
  <2> SUFFICES ASSUME NEW l \in Nodes, NEW m \in Nodes, l # m, holder'[l] = holder'[m],
                      keyOf'[l] # Null, keyOf'[m] # Null
               PROVE  held[keyOf'[l]] # held[keyOf'[m]]
    BY DEF MemberInv
  <2>1. CASE l = n
    BY <1>1, <2>1
  <2>2. CASE m = n
    BY <1>1, <2>2
  <2>3. CASE l # n /\ m # n
    BY <1>1, <2>3 DEF ParserInv, MemberInv
  <2> QED
    BY <2>1, <2>2, <2>3
<1> QED
  BY <1>2, <1>7, <1>8

(* In the place of the value the container has for the key, which is freed *)
(* with what is below it; its key string stays and the new one is freed.   *)
LEMMA ReplaceStep ==
  ASSUME ParserInv, NEW n \in Roots, NEW c \in Roots \ {n}, NEW k \in PendingKeys,
         NEW old \in live, holder[old] = c, held[keyOf[old]] = held[k],
         live' = live \ Below(old),
         holder' = [m \in Nodes |-> IF m = n THEN c ELSE IF m \in Below(old) THEN Null ELSE holder[m]],
         keyOf' = [m \in Nodes |-> IF m = n THEN keyOf[old] ELSE IF m \in Below(old) THEN Null ELSE keyOf[m]],
         held' = [s \in ParsedStrings |->
                    IF s = k \/ s \in KeysOf(Below(old) \ {old}) THEN Null ELSE held[s]],
         Roots' = Roots \ {n}, PendingKeys' = PendingKeys \ {k}
  PROVE  ValueInv' /\ KeyInv' /\ MemberInv' /\ Grounded'
<1> DEFINE D == Below(old)
           F == {k} \cup KeysOf(D \ {old})
<1>0. /\ live \subseteq Nodes /\ holder \in [Nodes -> Nodes \cup {Null}] /\ Null \notin Nodes
      /\ keyOf \in [Nodes -> ParsedStrings \cup {Null}] /\ n \in Nodes /\ c \in Nodes
      /\ Roots \subseteq live /\ old \in Held
  BY ParserAssumption DEF ParserInv, ParserTypeOK, ValueInv, Held
<1>1. D \in SUBSET live /\ old \in D /\ Whole(D) /\ D \cap Roots = {}
  BY <1>0, BelowFacts, BelowHeld DEF ParserInv
<1>2. /\ live' = live \ D
      /\ \A m \in Nodes : holder'[m] = IF m = n THEN c ELSE IF m \in D THEN Null ELSE holder[m]
      /\ \A m \in Nodes : keyOf'[m] = IF m = n THEN keyOf[old] ELSE IF m \in D THEN Null ELSE keyOf[m]
      /\ \A s \in ParsedStrings : held'[s] = IF s \in F THEN Null ELSE held[s]
  OBVIOUS
<1> HIDE DEF D
<1>3. ValueInv' /\ Grounded' /\ Held' = (Held \ D) \cup {n} /\ n \notin D \cup Held
  BY <1>1, <1>2, MoveStep
<1>4. /\ {s \in ParsedStrings : held[s] # Null} = PendingKeys \cup KeysOf(Nodes)
      /\ PendingKeys \cap KeysOf(Nodes) = {}
      /\ \A l, m \in Nodes : keyOf[l] = keyOf[m] /\ keyOf[l] # Null => l = m
      /\ \A m \in Nodes : keyOf[m] # Null => m \in Held
      /\ Null \notin PendingKeys /\ D \subseteq Nodes /\ old \in Nodes
  BY <1>0, <1>1 DEF ParserInv, KeyInv, PendingKeys
<1>5. KeysOf(Nodes)' = KeysOf(Nodes) \ KeysOf(D \ {old})
  <2>1. KeysOf(Nodes)' = {keyOf'[m] : m \in Nodes} \ {Null}
    BY DEF KeysOf
  <2>2. keyOf[n] = Null
    BY <1>0, <1>3, <1>4
  <2>3. ASSUME NEW s, s # Null
        PROVE  (\E m \in Nodes : keyOf'[m] = s)
                 <=> (\E m \in Nodes : keyOf[m] = s) /\ ~\E m \in D \ {old} : keyOf[m] = s
    <3>1. CASE s = keyOf[old]
      BY <1>0, <1>2, <1>4, <2>3, <3>1
    <3>2. CASE s # keyOf[old]
      BY <1>0, <1>1, <1>2, <1>4, <2>2, <2>3, <3>2
    <3> QED
      BY <3>1, <3>2
  <2> QED
    BY <2>1, <2>3 DEF KeysOf
<1>6. PendingKeys \cap KeysOf(D \ {old}) = {} /\ k \notin KeysOf(Nodes)
  BY <1>4 DEF KeysOf
<1>7. KeyInv'
  <2>1. {s \in ParsedStrings : held'[s] # Null} = PendingKeys' \cup KeysOf(Nodes)'
    BY <1>2, <1>4, <1>5, <1>6
  <2>2. PendingKeys' \cap KeysOf(Nodes)' = {}
    BY <1>4, <1>5
  <2>3. \A l, m \in Nodes : keyOf'[l] = keyOf'[m] /\ keyOf'[l] # Null => l = m
    BY <1>1, <1>2, <1>4
  <2>4. \A m \in Nodes : keyOf'[m] # Null => m \in Held'
    BY <1>2, <1>3, <1>4
  <2> QED
    BY <2>1, <2>2, <2>3, <2>4 DEF KeyInv
<1>8. MemberInv'
  <2> SUFFICES ASSUME NEW l \in Nodes, NEW m \in Nodes, l # m, holder'[l] = holder'[m],
                      keyOf'[l] # Null, keyOf'[m] # Null
               PROVE  held'[keyOf'[l]] # held'[keyOf'[m]]
    BY DEF MemberInv
  <2> DEFINE was(x) == IF x = n THEN old ELSE x
  <2>1. ASSUME NEW x \in Nodes, keyOf'[x] # Null
        PROVE  /\ was(x) \in Nodes /\ keyOf'[x] = keyOf[was(x)] /\ holder'[x] = holder[was(x)]
               /\ held'[keyOf'[x]] = held[keyOf[was(x)]]
    <3>1. /\ was(x) \in Nodes /\ keyOf'[x] = keyOf[was(x)] /\ holder'[x] = holder[was(x)]
          /\ was(x) \notin D \ {old}
      BY <1>1, <1>2, <1>4, <2>1
    <3>2. keyOf[was(x)] \in KeysOf(Nodes) /\ keyOf[was(x)] \notin KeysOf(D \ {old})
      BY <1>4, <2>1, <3>1 DEF KeysOf
    <3>3. keyOf[was(x)] \in ParsedStrings
      BY <1>0, <2>1, <3>1
    <3> QED
      BY <1>2, <1>6, <3>1, <3>2, <3>3
  <2>2. was(l) # was(m)
    <3>1. l # old /\ m # old
      BY <1>1, <1>2, <1>3, <1>4
    <3> QED
      BY <3>1
  <2> HIDE DEF was
  <2>3. /\ was(l) \in Nodes /\ was(m) \in Nodes /\ holder[was(l)] = holder[was(m)]
        /\ keyOf[was(l)] # Null /\ keyOf[was(m)] # Null
    BY <2>1
  <2>4. held[keyOf[was(l)]] # held[keyOf[was(m)]]
    BY <2>2, <2>3 DEF ParserInv, MemberInv
  <2> QED
    BY <2>1, <2>4
<1> QED
  BY <1>3, <1>7, <1>8

-----------------------------------------------------------------------------
(* The stack                                                               *)

NodesIn(st) == {st[i].node : i \in 1 .. Len(st)}
KeysIn(st) == {st[i].key : i \in 1 .. Len(st)} \ {Null}

LEMMA StackSets ==
  ASSUME NEW st \in Seq(Frames)
  PROVE  /\ {f.node : f \in Range(st)} = NodesIn(st)
         /\ {f.key : f \in Range(st)} \ {Null} = KeysIn(st)
         /\ Len(st) \in Nat /\ \A i \in 1 .. Len(st) : st[i] \in Frames
<1>1. Len(st) \in Nat /\ DOMAIN st = 1 .. Len(st) /\ \A i \in 1 .. Len(st) : st[i] \in Frames
  BY LenProperties, ElementOfSeq
<1> QED
  BY <1>1 DEF Range, NodesIn, KeysIn

LEMMA Hands ==
  ASSUME ParserTypeOK
  PROVE  /\ Roots = NodesIn(stack) \cup ({ret, result} \ {Null})
         /\ PendingKeys = KeysIn(stack)
         /\ stack \in Seq(Frames) /\ Len(stack) \in Nat /\ \A i \in Depths : stack[i] \in Frames
BY StackSets DEF ParserTypeOK, Frames, Roots, PendingKeys, Depths

LEMMA NextHands ==
  ASSUME stack' \in Seq(Frames)
  PROVE  /\ Roots' = NodesIn(stack') \cup ({ret', result'} \ {Null})
         /\ PendingKeys' = KeysIn(stack')
BY StackSets DEF Roots, PendingKeys

LEMMA PopFacts ==
  ASSUME NEW st \in Seq(Frames), Len(st) > 0
  PROVE  /\ Front(st) \in Seq(Frames) /\ Len(Front(st)) = Len(st) - 1
         /\ \A i \in 1 .. Len(st) - 1 : Front(st)[i] = st[i]
<1>1. Len(st) \in Nat /\ \A i \in 1 .. Len(st) : st[i] \in Frames
  BY StackSets
<1>2. \A i \in 1 .. Len(st) - 1 : st[i] \in Frames
  BY <1>1
<1>3. /\ SubSeq(st, 1, Len(st) - 1) \in Seq(Frames)
      /\ Len(SubSeq(st, 1, Len(st) - 1)) = IF 1 <= Len(st) - 1 THEN Len(st) - 1 - 1 + 1 ELSE 0
      /\ \A i \in 1 .. Len(st) - 1 - 1 + 1 : SubSeq(st, 1, Len(st) - 1)[i] = st[1 + i - 1]
  BY <1>1, <1>2, SubSeqProperties
<1>4. Len(st) - 1 \in Nat /\ Len(st) - 1 - 1 + 1 = Len(st) - 1 /\ \A i \in 1 .. Len(st) - 1 : 1 + i - 1 = i
  BY <1>1
<1> QED
  BY <1>3, <1>4 DEF Front

(* The innermost call returns.                                             *)
LEMMA PopStep ==
  ASSUME ParserInv, Len(stack) > 0, stack' = Pop, ret' \in Nodes \cup {Null}, at' = "returned", result' = result,
         ret' # Null => ret' \notin NodesIn(stack')
  PROVE  /\ stack' \in Seq(Frames) /\ ControlInv' /\ StackInv'
         /\ NodesIn(stack') = NodesIn(stack) \ {Top.node} /\ KeysIn(stack') = KeysIn(stack) \ {Top.key}
         /\ Top \in Frames /\ Top.node \in NodesIn(stack)
<1>1. /\ stack \in Seq(Frames) /\ Len(stack) \in Nat /\ \A i \in Depths : stack[i] \in Frames
      /\ Null \notin Nodes
  BY Hands, ParserAssumption DEF ParserInv
<1>2. /\ stack' \in Seq(Frames) /\ Len(stack') = Len(stack) - 1
      /\ \A i \in 1 .. Len(stack) - 1 : stack'[i] = stack[i]
  BY <1>1, PopFacts DEF Pop
<1>3. Depths = 1 .. Len(stack) /\ Depths' = 1 .. Len(stack) - 1 /\ Depths' \subseteq Depths
      /\ Len(stack) \in Depths /\ (\A i \in Depths : i \in Depths' \/ i = Len(stack))
      /\ Len(stack) \notin Depths'
  BY <1>1, <1>2 DEF Depths
<1>4. Top = stack[Len(stack)]
  BY DEF Top, Last
<1>5. result = Null
  BY <1>1, EmptySeq DEF ParserInv, ControlInv
<1>6. ControlInv'
  <2>1. \A i \in Depths' : stack'[i].kind = "array" => stack'[i].key = Null
    BY <1>2, <1>3 DEF ParserInv, ControlInv
  <2>2. \A i \in Depths' : stack'[i].kind = "object" => stack'[i].key # Null
    BY <1>2, <1>3 DEF ParserInv, ControlInv
  <2> QED
    BY <1>5, <2>1, <2>2 DEF ControlInv
<1>7. StackInv'
  <2>1. \A i, j \in Depths' : stack'[i].node = stack'[j].node => i = j
    BY <1>2, <1>3 DEF ParserInv, StackInv
  <2>2. \A i, j \in Depths' : stack'[i].key = stack'[j].key /\ stack'[i].key # Null => i = j
    BY SMTT(30), <1>2, <1>3 DEF ParserInv, StackInv
  <2>3. \A i \in Depths' : stack'[i].node # ret'
    <3>1. \A i \in Depths' : stack'[i].node \in Nodes /\ stack'[i].node \in NodesIn(stack')
      BY <1>1, <1>2, <1>3 DEF Frames, NodesIn
    <3> QED
      BY <1>1, <3>1
  <2> QED
    BY <2>1, <2>2, <2>3 DEF StackInv
<1>8. NodesIn(stack') = NodesIn(stack) \ {Top.node}
  <2>1. \A i \in Depths' : stack[i].node # Top.node
    BY <1>3, <1>4 DEF ParserInv, StackInv
  <2>2. NodesIn(stack) = {stack[i].node : i \in Depths} /\ NodesIn(stack') = {stack'[i].node : i \in Depths'}
    BY DEF NodesIn, Depths
  <2>3. \A i \in Depths' : stack'[i] = stack[i]
    BY <1>2, <1>3
  <2>4. ASSUME NEW x
        PROVE  (\E i \in Depths' : stack'[i].node = x) <=> (\E i \in Depths : stack[i].node = x) /\ x # Top.node
    BY <1>3, <1>4, <2>1, <2>3
  <2> QED
    BY <2>2, <2>4
<1>9. KeysIn(stack') = KeysIn(stack) \ {Top.key}
  <2>1. \A i \in Depths' : stack'[i] = stack[i]
    BY <1>2, <1>3
  <2>2. \A i \in Depths' : stack[i].key # Null => stack[i].key # Top.key
    BY <1>3, <1>4 DEF ParserInv, StackInv
  <2>3. ASSUME NEW s, s # Null
        PROVE  (\E i \in Depths' : stack'[i].key = s) <=> (\E i \in Depths : stack[i].key = s) /\ s # Top.key
    <3>1. (\E i \in Depths : stack[i].key = s) /\ s # Top.key => \E i \in Depths' : stack[i].key = s
      BY <1>3, <1>4
    <3> QED
      BY <1>3, <2>1, <2>2, <2>3, <3>1
  <2>4. /\ KeysIn(stack) = {stack[i].key : i \in Depths} \ {Null}
        /\ KeysIn(stack') = {stack'[i].key : i \in Depths'} \ {Null}
    BY DEF KeysIn, Depths
  <2> QED
    BY <2>3, <2>4
<1> QED
  BY <1>1, <1>2, <1>3, <1>4, <1>6, <1>7, <1>8, <1>9 DEF NodesIn

LEMMA FreeTypes ==
  ASSUME ParserTypeOK, NEW D, NEW K, FreeAll(D, K)
  PROVE  /\ live' \subseteq Nodes /\ holder' \in [Nodes -> Nodes \cup {Null}]
         /\ keyOf' \in [Nodes -> ParsedStrings \cup {Null}]
         /\ held' \in [ParsedStrings -> ParsedKeys \cup {Null}]
BY DEF ParserTypeOK, FreeAll

-----------------------------------------------------------------------------
(* The steps                                                               *)

(* The innermost call frees its container, its key and, with G, what it    *)
(* was given.                                                              *)
LEMMA GiveUpStep ==
  ASSUME ParserInv, Len(stack) > 0, UNCHANGED result,
         NEW G \in SUBSET ({ret} \ {Null}), G = {ret} \ {Null},
         GiveUp(UNION {Below(g) : g \in G}, {Top.key} \ {Null})
  PROVE  ParserInv'
<1> DEFINE D == (UNION {Below(g) : g \in G}) \cup Below(Top.node)
           T == G \cup {Top.node}
           K == {Top.key} \ {Null}
<1>1. FreeAll(D, K) /\ ret' = Null /\ stack' = Pop /\ at' = "returned"
  BY DEF GiveUp
<1>2. /\ stack' \in Seq(Frames) /\ ControlInv' /\ StackInv'
      /\ NodesIn(stack') = NodesIn(stack) \ {Top.node} /\ KeysIn(stack') = KeysIn(stack) \ {Top.key}
      /\ Top \in Frames /\ Top.node \in NodesIn(stack)
  BY <1>1, PopStep
<1>3. /\ Roots = NodesIn(stack) \cup ({ret, result} \ {Null}) /\ PendingKeys = KeysIn(stack)
      /\ Roots' = NodesIn(stack') \cup ({result} \ {Null}) /\ PendingKeys' = KeysIn(stack')
      /\ Null \notin Nodes /\ Roots \subseteq live
  BY <1>1, <1>2, Hands, NextHands, ParserAssumption DEF ParserInv, ValueInv
<1>4. Top.key \in KeysIn(stack) \cup {Null} /\ result = Null
  <2>1. Len(stack) \in Nat /\ Top = stack[Len(stack)]
    BY Hands DEF ParserInv, Top, Last
  <2> QED
    BY <2>1, EmptySeq DEF KeysIn, ParserInv, ControlInv
<1>5. G \cap NodesIn(stack) = {}
  BY DEF ParserInv, StackInv, NodesIn, Depths
<1>6. T \in SUBSET Roots /\ K \in SUBSET PendingKeys /\ Roots' = Roots \ T /\ PendingKeys' = PendingKeys \ K
  <2>1. Null \notin KeysIn(stack)
    BY DEF KeysIn
  <2>2. K \subseteq KeysIn(stack) /\ KeysIn(stack) \ {Top.key} = KeysIn(stack) \ K
    BY <1>4, <2>1
  <2>3. Roots = NodesIn(stack) \cup G /\ Roots' = NodesIn(stack) \ {Top.node}
    BY <1>2, <1>3, <1>4
  <2> QED
    BY <1>2, <1>3, <1>5, <2>2, <2>3
<1>7. ASSUME NEW r \in T
      PROVE  Below(r) \in SUBSET live /\ r \in Below(r) /\ Whole(Below(r)) /\ Below(r) \cap Roots \subseteq {r}
  BY <1>3, <1>6, BelowFacts, BelowApart DEF ParserInv
<1>8. D \in SUBSET live /\ T \subseteq D /\ D \cap Roots \subseteq T
  BY <1>7
<1>9. Whole(D)
  BY <1>7 DEF Whole
<1>10. ValueInv' /\ KeyInv' /\ MemberInv' /\ Grounded'
  <2> HIDE DEF D, T, K
  <2> QED
    BY <1>1, <1>6, <1>8, <1>9, FreeStep
<1>11. ParserTypeOK'
  <2>1. result' \in Nodes \cup {Null}
    BY DEF ParserInv, ParserTypeOK
  <2> HIDE DEF D, T, K
  <2> QED
    BY <1>1, <1>2, <2>1, FreeTypes DEF ParserInv, ParserTypeOK, Frames
<1> QED
  BY <1>2, <1>10, <1>11 DEF ParserInv

(* The caller, or ten_json_parse itself, destroys a whole value.           *)
LEMMA DestroyStep ==
  ASSUME ParserInv, NEW n \in {ret, result} \ {Null}, FreeAll(Below(n), {}), stack = << >>,
         UNCHANGED stack, ret' = Null, result' = Null, at' = "idle", n = ret => result = Null
  PROVE  ParserInv'
<1>1. stack' \in Seq(Frames) /\ NodesIn(stack') = NodesIn(stack) /\ KeysIn(stack') = KeysIn(stack) /\ Depths' = {}
  BY Hands DEF ParserInv, NodesIn, KeysIn, Depths
<1>2. /\ Roots = {n} /\ PendingKeys = KeysIn(stack) /\ Roots' = {} /\ PendingKeys' = KeysIn(stack')
      /\ Roots \subseteq live
  <2>1. ret = Null \/ result = Null
    BY DEF ParserInv, ControlInv
  <2>2. NodesIn(stack) = {}
    BY DEF NodesIn
  <2>3. {ret, result} \ {Null} = {n}
    BY <2>1
  <2>4. Roots = {n} /\ PendingKeys = KeysIn(stack)
    BY <2>2, <2>3, Hands DEF ParserInv
  <2>5. Roots' = NodesIn(stack') \cup ({Null, Null} \ {Null}) /\ PendingKeys' = KeysIn(stack')
    BY <1>1, NextHands
  <2> QED
    BY <1>1, <2>2, <2>4, <2>5 DEF ParserInv, ValueInv
<1>3. Below(n) \in SUBSET live /\ n \in Below(n) /\ Whole(Below(n)) /\ Below(n) \cap Roots \subseteq {n}
  BY <1>2, BelowFacts, BelowApart DEF ParserInv
<1>4. ValueInv' /\ KeyInv' /\ MemberInv' /\ Grounded'
  BY <1>1, <1>2, <1>3, FreeStep, {n} \in SUBSET Roots, {} \in SUBSET PendingKeys
<1>5. ParserTypeOK'
  BY <1>1, FreeTypes DEF ParserInv, ParserTypeOK, Frames
<1>6. ControlInv' /\ StackInv'
  BY <1>1 DEF ControlInv, StackInv
<1> QED
  BY <1>4, <1>5, <1>6 DEF ParserInv

LEMMA LeafStep ==
  ASSUME ParserInv, NEW n \in Nodes, Leaf(n)
  PROVE  ParserInv'
<1>1. /\ n \notin live /\ live' = live \cup {n} /\ ret' = n /\ at = "value" /\ at' = "returned"
      /\ UNCHANGED <<stack, holder, keyOf, held, result>>
  BY DEF Leaf
<1>2. ret = Null /\ result = Null /\ n # Null
  BY <1>1, ParserAssumption DEF ParserInv, ControlInv
<1>3. /\ Roots = NodesIn(stack) /\ PendingKeys = KeysIn(stack)
      /\ Roots' = NodesIn(stack) \cup {n} /\ PendingKeys' = KeysIn(stack) /\ Roots \subseteq live
  <2>1. /\ Roots = NodesIn(stack) \cup ({Null, Null} \ {Null}) /\ PendingKeys = KeysIn(stack)
        /\ stack' \in Seq(Frames) /\ Roots \subseteq live
    BY <1>1, <1>2, Hands DEF ParserInv, ValueInv
  <2>2. Roots' = NodesIn(stack) \cup ({n, Null} \ {Null}) /\ PendingKeys' = KeysIn(stack)
    BY <1>1, <1>2, <2>1, NextHands
  <2> QED
    BY <1>2, <2>1, <2>2
<1>4. ValueInv' /\ KeyInv' /\ MemberInv' /\ Grounded'
  BY <1>1, <1>3, NewStep
<1>5. ParserTypeOK'
  BY <1>1 DEF ParserInv, ParserTypeOK
<1>6. ControlInv'
  BY <1>1, <1>2 DEF ParserInv, ControlInv, Depths
<1>7. StackInv'
  BY <1>1, <1>3 DEF ParserInv, StackInv, Depths, NodesIn
<1> QED
  BY <1>4, <1>5, <1>6, <1>7 DEF ParserInv

LEMMA OpenContainerStep ==
  ASSUME ParserInv, NEW n \in Nodes, OpenContainer(n)
  PROVE  ParserInv'
<1>1. PICK k \in {"array", "object"} :
        stack' = Push(n, k) /\ at' = IF k = "array" THEN "value" ELSE "key"
  BY DEF OpenContainer
<1>2. /\ n \notin live /\ live' = live \cup {n} /\ at = "value"
      /\ UNCHANGED <<ret, holder, keyOf, held, result>>
  BY DEF OpenContainer
<1> DEFINE f == [node |-> n, kind |-> k, key |-> Null]
           l == Len(stack)
<1>3. f \in Frames /\ stack \in Seq(Frames) /\ l \in Nat /\ \A i \in Depths : stack[i] \in Frames
  BY Hands DEF ParserInv, Frames
<1>4. /\ stack' \in Seq(Frames) /\ Len(stack') = l + 1
      /\ \A i \in 1 .. l : stack'[i] = stack[i]
      /\ stack'[l + 1] = f
  BY <1>1, <1>3, AppendProperties DEF Push
<1>5. f.node = n /\ f.kind = k /\ f.key = Null
  OBVIOUS
<1> HIDE DEF f, l
<1>6. /\ Depths = 1 .. l /\ Depths' = 1 .. l + 1
      /\ \A i \in Depths' : (i \in Depths /\ stack'[i] = stack[i]) \/ (i = l + 1 /\ stack'[i] = f)
      /\ \A i \in Depths : i \in Depths' /\ i # l + 1 /\ stack'[i] = stack[i]
      /\ l + 1 \in Depths'
  BY <1>3, <1>4 DEF Depths, l
<1>7. ret = Null /\ result = Null /\ n # Null
  BY <1>2, ParserAssumption DEF ParserInv, ControlInv
<1>8. NodesIn(stack') = NodesIn(stack) \cup {n} /\ KeysIn(stack') = KeysIn(stack)
  <2>1. /\ NodesIn(stack) = {stack[i].node : i \in Depths} /\ NodesIn(stack') = {stack'[i].node : i \in Depths'}
        /\ KeysIn(stack) = {stack[i].key : i \in Depths} \ {Null}
        /\ KeysIn(stack') = {stack'[i].key : i \in Depths'} \ {Null}
    BY DEF NodesIn, KeysIn, Depths
  <2>2. \A x : (\E i \in Depths' : stack'[i].node = x) <=> (\E i \in Depths : stack[i].node = x) \/ x = n
    BY <1>5, <1>6
  <2>3. \A x : x # Null => ((\E i \in Depths' : stack'[i].key = x) <=> (\E i \in Depths : stack[i].key = x))
    BY <1>5, <1>6
  <2> QED
    BY <2>1, <2>2, <2>3
<1>9. /\ Roots = NodesIn(stack) /\ PendingKeys = KeysIn(stack)
      /\ Roots' = NodesIn(stack') /\ PendingKeys' = KeysIn(stack') /\ Roots \subseteq live
  BY <1>2, <1>4, <1>7, Hands, NextHands DEF ParserInv, ValueInv
<1>10. ValueInv' /\ KeyInv' /\ MemberInv' /\ Grounded'
  BY <1>2, <1>8, <1>9, NewStep
<1>11. ParserTypeOK'
  BY <1>1, <1>2, <1>4 DEF ParserInv, ParserTypeOK, Frames
<1>12. ControlInv'
  <2>1. \A i \in Depths : stack[i].kind = "object" => stack[i].key # Null
    BY <1>2 DEF ParserInv, ControlInv
  <2>2. \A i \in Depths' : stack'[i].kind = "array" => stack'[i].key = Null
    BY <1>5, <1>6 DEF ParserInv, ControlInv
  <2>3. \A i \in Depths' : stack'[i].kind = "object" /\ stack'[i].key = Null => i = l + 1 /\ k = "object"
    BY <1>5, <1>6, <2>1
  <2> QED
    BY <1>1, <1>2, <1>3, <1>4, <1>5, <1>7, <2>2, <2>3 DEF ControlInv
<1>13. StackInv'
  <2>1. \A i \in Depths : stack[i].node # n
    BY <1>2, <1>9 DEF NodesIn, Depths
  <2>2. \A i, j \in Depths' : stack'[i].node = stack'[j].node => i = j
    BY <1>5, <1>6, <2>1 DEF ParserInv, StackInv
  <2>3. \A i, j \in Depths' : stack'[i].key = stack'[j].key /\ stack'[i].key # Null => i = j
    BY <1>5, <1>6 DEF ParserInv, StackInv
  <2>4. \A i \in Depths' : stack'[i].node # ret'
    <3>1. \A i \in Depths : stack[i].node # ret
      BY DEF ParserInv, StackInv
    <3> QED
      BY <1>2, <1>5, <1>6, <1>7, <3>1
  <2> QED
    BY <2>2, <2>3, <2>4 DEF StackInv
<1> QED
  BY <1>10, <1>11, <1>12, <1>13 DEF ParserInv

(* The key of the innermost frame is set or taken.                         *)
LEMMA SetTopKey ==
  ASSUME ParserTypeOK, Len(stack) > 0, NEW k \in ParsedStrings \cup {Null},
         stack' = [stack EXCEPT ![Len(stack)].key = k]
  PROVE  /\ stack' \in Seq(Frames) /\ Depths' = Depths /\ Len(stack) \in Depths /\ Len(stack') = Len(stack)
         /\ \A i \in Depths : stack'[i].node = stack[i].node /\ stack'[i].kind = stack[i].kind
         /\ \A i \in Depths : stack'[i].key = IF i = Len(stack) THEN k ELSE stack[i].key
         /\ NodesIn(stack') = NodesIn(stack)
         /\ Top = stack[Len(stack)] /\ Top \in Frames
<1>1. stack \in Seq(Frames) /\ Len(stack) \in Nat /\ \A i \in Depths : stack[i] \in Frames
  BY Hands
<1> DEFINE l == Len(stack)
           f == [stack[l] EXCEPT !.key = k]
<1>2. l \in Depths /\ Depths = 1 .. l
  BY <1>1 DEF Depths
<1>3. f \in Frames /\ f.node = stack[l].node /\ f.kind = stack[l].kind /\ f.key = k
  BY <1>1, <1>2 DEF Frames
<1>4. stack' = [stack EXCEPT ![l] = f]
  OBVIOUS
<1> HIDE DEF f
<1>5. stack' \in Seq(Frames) /\ Len(stack') = l /\ \A i \in 1 .. l : stack'[i] = IF i = l THEN f ELSE stack[i]
  BY <1>1, <1>2, <1>3, <1>4, ExceptSeq
<1>6. Depths' = Depths
  BY <1>5 DEF Depths
<1>7. \A i \in Depths : stack'[i].node = stack[i].node /\ stack'[i].kind = stack[i].kind
  BY <1>2, <1>3, <1>5
<1>8. NodesIn(stack') = NodesIn(stack)
  <2>1. NodesIn(stack) = {stack[i].node : i \in Depths} /\ NodesIn(stack') = {stack'[i].node : i \in Depths}
    BY <1>2, <1>5 DEF NodesIn
  <2>2. \A x : (\E i \in Depths : stack'[i].node = x) <=> (\E i \in Depths : stack[i].node = x)
    BY <1>7
  <2>3. {stack[i].node : i \in Depths} = {stack'[i].node : i \in Depths}
    BY ONLY <2>2
  <2> QED
    BY <2>1, <2>3
<1>9. Top = stack[l]
  BY DEF Top, Last
<1>10. \A i \in Depths : stack'[i].key = IF i = l THEN k ELSE stack[i].key
  BY <1>2, <1>3, <1>5
<1> QED
  BY <1>1, <1>2, <1>5, <1>6, <1>7, <1>8, <1>9, <1>10

LEMMA KeyStep ==
  ASSUME ParserInv, NEW s \in ParsedStrings, Key(s)
  PROVE  ParserInv'
<1>1. /\ at = "key" /\ held[s] = Null /\ at' = "value"
      /\ stack' = [stack EXCEPT ![Len(stack)].key = s]
      /\ UNCHANGED <<ret, holder, keyOf, live, result>>
  BY DEF Key
<1>2. PICK k \in ParsedKeys : held' = [held EXCEPT ![s] = k]
  BY DEF Key
<1>3. /\ Len(stack) > 0 /\ stack[Len(stack)].key = Null /\ stack[Len(stack)].kind = "object"
      /\ ret = Null /\ result = Null /\ s # Null /\ k # Null
  BY <1>1, ParserAssumption DEF ParserInv, ControlInv
<1>4. /\ stack' \in Seq(Frames) /\ Depths' = Depths /\ Len(stack) \in Depths /\ Len(stack') = Len(stack)
      /\ \A i \in Depths : stack'[i].node = stack[i].node /\ stack'[i].kind = stack[i].kind
      /\ \A i \in Depths : stack'[i].key = IF i = Len(stack) THEN s ELSE stack[i].key
      /\ NodesIn(stack') = NodesIn(stack)
  BY <1>1, <1>3, SetTopKey DEF ParserInv
<1>5. /\ Roots = NodesIn(stack) \cup ({ret, result} \ {Null}) /\ PendingKeys = KeysIn(stack)
      /\ Roots' = NodesIn(stack') \cup ({ret', result'} \ {Null}) /\ PendingKeys' = KeysIn(stack')
  BY <1>4, Hands, NextHands DEF ParserInv
<1>6. Roots' = Roots
  BY <1>1, <1>4, <1>5
<1>7. PendingKeys' = PendingKeys \cup {s}
  <2>1. KeysIn(stack) = {stack[i].key : i \in Depths} \ {Null} /\ KeysIn(stack') = {stack'[i].key : i \in Depths} \ {Null}
    BY <1>4 DEF KeysIn, Depths
  <2>2. \A x : x # Null => ((\E i \in Depths : stack'[i].key = x) <=> (\E i \in Depths : stack[i].key = x) \/ x = s)
    BY <1>3, <1>4
  <2>3. KeysIn(stack') = KeysIn(stack) \cup {s}
    BY <1>3, <2>1, <2>2
  <2> QED
    BY <1>5, <2>3
<1>8. /\ {x \in ParsedStrings : held[x] # Null} = PendingKeys \cup KeysOf(Nodes)
      /\ PendingKeys \cap KeysOf(Nodes) = {}
      /\ \A m, n \in Nodes : keyOf[m] = keyOf[n] /\ keyOf[m] # Null => m = n
      /\ \A n \in Nodes : keyOf[n] # Null => n \in Held
  BY DEF ParserInv, KeyInv
<1>9. s \notin PendingKeys /\ s \notin KeysOf(Nodes)
  BY <1>1, <1>8
<1>10. /\ held' \in [ParsedStrings -> ParsedKeys \cup {Null}]
       /\ \A x \in ParsedStrings : held'[x] = IF x = s THEN k ELSE held[x]
  BY <1>2 DEF ParserInv, ParserTypeOK
<1>11. ParserTypeOK'
  BY <1>1, <1>4, <1>10 DEF ParserInv, ParserTypeOK, Frames
<1>12. ControlInv'
  <2>1. \A i \in Depths' : stack'[i].kind = "array" => stack'[i].key = Null
    BY <1>3, <1>4 DEF ParserInv, ControlInv
  <2>2. \A i \in Depths' : stack'[i].kind = "object" => stack'[i].key # Null
    BY <1>3, <1>4 DEF ParserInv, ControlInv
  <2> QED
    BY <1>1, <1>3, <2>1, <2>2 DEF ControlInv
<1>13. StackInv'
  <2>1. \A i, j \in Depths : stack'[i].node = stack'[j].node => i = j
    BY <1>4 DEF ParserInv, StackInv
  <2>2. \A i \in Depths : stack[i].key # s
    BY <1>3, <1>5, <1>9 DEF KeysIn, Depths
  <2>3. \A i, j \in Depths : stack'[i].key = stack'[j].key /\ stack'[i].key # Null => i = j
    BY <1>4, <2>2 DEF ParserInv, StackInv
  <2>4. \A i \in Depths : stack'[i].node # ret'
    BY <1>1, <1>4 DEF ParserInv, StackInv
  <2> QED
    BY <1>4, <2>1, <2>3, <2>4 DEF StackInv
<1>14. ValueInv' /\ Grounded'
  BY <1>1, <1>6 DEF ParserInv, ValueInv, Grounded, Whole, Held
<1>15. KeysOf(Nodes)' = KeysOf(Nodes) /\ Held' = Held
  BY <1>1 DEF KeysOf, Held
<1>16. KeyInv'
  <2>1. {x \in ParsedStrings : held'[x] # Null} = PendingKeys' \cup KeysOf(Nodes)'
    BY <1>3, <1>7, <1>8, <1>10, <1>15
  <2>2. PendingKeys' \cap KeysOf(Nodes)' = {}
    BY <1>7, <1>8, <1>9, <1>15
  <2> QED
    BY <1>1, <1>8, <1>15, <2>1, <2>2 DEF KeyInv
<1>17. MemberInv'
  <2>1. \A m \in Nodes : keyOf[m] # Null => held'[keyOf[m]] = held[keyOf[m]]
    <3>1. \A m \in Nodes : keyOf[m] # Null => keyOf[m] \in KeysOf(Nodes)
      BY DEF KeysOf
    <3> QED
      BY <1>8, <1>9, <1>10, <3>1
  <2> QED
    BY <1>1, <2>1 DEF ParserInv, MemberInv
<1> QED
  BY <1>11, <1>12, <1>13, <1>14, <1>16, <1>17 DEF ParserInv


(* What was returned is in the innermost container now.                    *)
LEMMA PlacedStep ==
  ASSUME ParserInv, at = "returned", Len(stack) > 0, ret # Null, ret' = Null, at' = "loop", UNCHANGED result,
         \/ stack' = [stack EXCEPT ![Len(stack)].key = Null]
         \/ stack' = stack /\ Top.key = Null
  PROVE  /\ stack' \in Seq(Frames) /\ ControlInv' /\ StackInv'
         /\ Roots' = Roots \ {ret} /\ PendingKeys' = PendingKeys \ {Top.key}
         /\ ret \in Roots /\ Top.node \in Roots \ {ret} /\ Top.key \in PendingKeys \cup {Null}
         /\ Top.kind = "object" => Top.key # Null
         /\ Top.kind = "array" => Top.key = Null
<1>1. /\ stack \in Seq(Frames) /\ Len(stack) \in Nat /\ \A i \in Depths : stack[i] \in Frames
      /\ Null \notin Nodes /\ ret \in Nodes
      /\ Roots = NodesIn(stack) \cup ({ret, result} \ {Null}) /\ PendingKeys = KeysIn(stack)
  BY Hands, ParserAssumption DEF ParserInv, ParserTypeOK
<1>2. Len(stack) \in Depths /\ Top = stack[Len(stack)]
  BY <1>1 DEF Depths, Top, Last
<1>3. /\ stack' \in Seq(Frames) /\ Depths' = Depths /\ Len(stack') = Len(stack)
      /\ \A i \in Depths : stack'[i].node = stack[i].node /\ stack'[i].kind = stack[i].kind
      /\ \A i \in Depths : stack'[i].key = IF i = Len(stack) THEN Null ELSE stack[i].key
      /\ NodesIn(stack') = NodesIn(stack)
  <2>1. CASE stack' = [stack EXCEPT ![Len(stack)].key = Null]
    BY <2>1, SetTopKey, Null \in ParsedStrings \cup {Null} DEF ParserInv
  <2>2. CASE stack' = stack /\ Top.key = Null
    BY <1>1, <1>2, <2>2 DEF Depths
  <2> QED
    BY <2>1, <2>2
<1>4. result = Null
  BY DEF ParserInv, ControlInv
<1>5. Roots' = NodesIn(stack') \cup ({ret', result'} \ {Null}) /\ PendingKeys' = KeysIn(stack')
  BY <1>3, NextHands
<1>6. ret \notin NodesIn(stack)
  BY DEF ParserInv, StackInv, NodesIn, Depths
<1>7. Roots = NodesIn(stack) \cup {ret} /\ Roots' = NodesIn(stack)
  BY <1>1, <1>3, <1>4, <1>5
<1>8. KeysIn(stack') = KeysIn(stack) \ {Top.key}
  <2>1. KeysIn(stack) = {stack[i].key : i \in Depths} \ {Null} /\ KeysIn(stack') = {stack'[i].key : i \in Depths} \ {Null}
    BY <1>3 DEF KeysIn, Depths
  <2>2. ASSUME NEW x, x # Null
        PROVE  (\E i \in Depths : stack'[i].key = x) <=> (\E i \in Depths : stack[i].key = x) /\ x # Top.key
    <3>1. \A i \in Depths : stack[i].key = x /\ x = Top.key => i = Len(stack)
      BY <1>2, <2>2 DEF ParserInv, StackInv
    <3> QED
      BY <1>2, <1>3, <2>2, <3>1
  <2> QED
    BY <2>1, <2>2
<1>9. ControlInv'
  <2>1. \A i \in Depths' : stack'[i].kind = "array" => stack'[i].key = Null
    BY <1>3 DEF ParserInv, ControlInv
  <2>2. \A i \in Depths' : stack'[i].kind = "object" /\ stack'[i].key = Null => i = Len(stack)
    BY <1>3 DEF ParserInv, ControlInv
  <2> QED
    BY <1>2, <1>3, <1>4, <2>1, <2>2 DEF ControlInv
<1>10. StackInv'
  <2>1. \A i, j \in Depths : stack'[i].node = stack'[j].node => i = j
    BY <1>3 DEF ParserInv, StackInv
  <2>2. \A i, j \in Depths : stack'[i].key = stack'[j].key /\ stack'[i].key # Null => i = j
    BY <1>3 DEF ParserInv, StackInv
  <2>3. \A i \in Depths : stack'[i].node # Null
    BY <1>1, <1>3 DEF Frames
  <2> QED
    BY <1>3, <2>1, <2>2, <2>3 DEF StackInv
<1>11. Top.node \in NodesIn(stack) /\ Top.key \in KeysIn(stack) \cup {Null}
  BY <1>1, <1>2 DEF NodesIn, KeysIn, Depths
<1>12. (Top.kind = "object" => Top.key # Null) /\ (Top.kind = "array" => Top.key = Null)
  BY <1>2 DEF ParserInv, ControlInv
<1> QED
  BY <1>1, <1>3, <1>5, <1>6, <1>7, <1>8, <1>9, <1>10, <1>11, <1>12

LEMMA ArrayAddStep ==
  ASSUME ParserInv, ArrayAdd
  PROVE  ParserInv'
<1>1. /\ at = "returned" /\ Len(stack) > 0 /\ Top.kind = "array" /\ ret # Null /\ ret' = Null /\ at' = "loop"
      /\ Attach(ret, Top.node, Null)
      /\ UNCHANGED <<stack, live, held, result>>
  BY DEF ArrayAdd, InFrame
<1>2. Top.key = Null
  <2>1. Len(stack) \in Depths /\ Top = stack[Len(stack)]
    BY <1>1, Hands DEF ParserInv, Depths, Top, Last
  <2> QED
    BY <1>1, <2>1 DEF ParserInv, ControlInv
<1>3. /\ stack' \in Seq(Frames) /\ ControlInv' /\ StackInv'
      /\ Roots' = Roots \ {ret} /\ PendingKeys' = PendingKeys \ {Null}
      /\ ret \in Roots /\ Top.node \in Roots \ {ret}
  BY <1>1, <1>2, PlacedStep
<1>4. ValueInv' /\ KeyInv' /\ MemberInv' /\ Grounded'
  BY <1>1, <1>3, AttachStep, Null \in PendingKeys \cup {Null}
<1>5. Roots \subseteq Nodes
  BY DEF ParserInv, ValueInv, ParserTypeOK
<1>6. ParserTypeOK'
  BY <1>1, <1>3, <1>5 DEF ParserInv, ParserTypeOK, Attach, Frames
<1> QED
  BY <1>3, <1>4, <1>6 DEF ParserInv

LEMMA ObjectSetStep ==
  ASSUME ParserInv, ObjectSet
  PROVE  ParserInv'
<1>1. /\ at = "returned" /\ Len(stack) > 0 /\ Top.kind = "object" /\ ret # Null /\ ret' = Null /\ at' = "loop"
      /\ stack' = [stack EXCEPT ![Len(stack)].key = Null]
      /\ UNCHANGED result
  BY DEF ObjectSet, InFrame
<1>2. /\ stack' \in Seq(Frames) /\ ControlInv' /\ StackInv'
      /\ Roots' = Roots \ {ret} /\ PendingKeys' = PendingKeys \ {Top.key}
      /\ ret \in Roots /\ Top.node \in Roots \ {ret} /\ Top.key \in PendingKeys /\ Top.key # Null
  BY <1>1, PlacedStep
<1>3. /\ live = Roots \cup Held /\ live \subseteq Nodes /\ Roots \subseteq Nodes
      /\ \A n \in Nodes : keyOf[n] # Null => n \in Held
      /\ Top.key \in ParsedStrings
      /\ holder \in [Nodes -> Nodes \cup {Null}] /\ keyOf \in [Nodes -> ParsedStrings \cup {Null}]
      /\ held \in [ParsedStrings -> ParsedKeys \cup {Null}]
  <2>1. PendingKeys \subseteq ParsedStrings
    BY DEF ParserInv, KeyInv
  <2> QED
    BY <1>2, <2>1 DEF ParserInv, ValueInv, KeyInv, ParserTypeOK
<1>4. CASE /\ Same(held[Top.key]) = {}
           /\ Attach(ret, Top.node, Top.key)
           /\ UNCHANGED <<live, held>>
  <2>1. \A m \in Nodes : holder[m] = Top.node /\ keyOf[m] # Null => held[keyOf[m]] # held[Top.key]
    BY <1>3, <1>4 DEF Same
  <2>2. ValueInv' /\ KeyInv' /\ MemberInv' /\ Grounded'
    BY <1>2, <1>4, <2>1, AttachStep, Top.key \in PendingKeys \cup {Null}
  <2>3. ParserTypeOK'
    BY <1>1, <1>2, <1>3, <1>4 DEF ParserInv, ParserTypeOK, Attach, Frames
  <2> QED
    BY <1>2, <2>2, <2>3 DEF ParserInv
<1>5. ASSUME NEW old \in Same(held[Top.key]),
             live' = live \ Below(old),
             holder' = [m \in Nodes |-> IF m = ret THEN Top.node ELSE IF m \in Below(old) THEN Null ELSE holder[m]],
             keyOf' = [m \in Nodes |-> IF m = ret THEN keyOf[old] ELSE IF m \in Below(old) THEN Null ELSE keyOf[m]],
             held' = [s \in ParsedStrings |->
                        IF s = Top.key \/ s \in KeysOf(Below(old) \ {old}) THEN Null ELSE held[s]]
      PROVE  ParserInv'
  <2>1. old \in live /\ holder[old] = Top.node /\ held[keyOf[old]] = held[Top.key]
    BY DEF Same
  <2>2. ValueInv' /\ KeyInv' /\ MemberInv' /\ Grounded'
    BY <1>2, <1>5, <2>1, ReplaceStep
  <2>3. live' \subseteq Nodes
    BY <1>3, <1>5
  <2>4. holder' \in [Nodes -> Nodes \cup {Null}]
    BY <1>2, <1>3, <1>5
  <2>5. keyOf' \in [Nodes -> ParsedStrings \cup {Null}]
    BY <1>3, <1>5, <2>1
  <2>6. held' \in [ParsedStrings -> ParsedKeys \cup {Null}]
    BY <1>3, <1>5
  <2>7. ParserTypeOK'
    BY <1>1, <1>2, <2>3, <2>4, <2>5, <2>6 DEF ParserInv, ParserTypeOK, Frames
  <2> QED
    BY <1>2, <2>2, <2>7 DEF ParserInv
<1> QED
  BY <1>4, <1>5 DEF ObjectSet

LEMMA CloseContainerStep ==
  ASSUME ParserInv, CloseContainer
  PROVE  ParserInv'
<1>1. /\ at = "loop" /\ ret' = Top.node /\ stack' = Pop /\ at' = "returned"
      /\ UNCHANGED <<holder, keyOf, live, held, result>>
  BY DEF CloseContainer
<1>2. Len(stack) > 0 /\ ret = Null /\ result = Null /\ Len(stack) \in Nat
  BY <1>1, Hands DEF ParserInv, ControlInv
<1>3. Len(stack) \in Depths /\ Top = stack[Len(stack)] /\ Top \in Frames /\ Top.key = Null
  BY <1>1, <1>2, Hands DEF ParserInv, Depths, Top, Last, ControlInv
<1>4. Top.node \in Nodes /\ Top.node # Null
  BY <1>3, ParserAssumption DEF Frames
<1>5. Top.node \notin NodesIn(stack')
  <2>1. Len(stack') = Len(stack) - 1 /\ \A i \in 1 .. Len(stack) - 1 : stack'[i] = stack[i]
    BY <1>1, <1>2, PopFacts, Hands DEF ParserInv, Pop
  <2>2. \A i \in 1 .. Len(stack) - 1 : i \in Depths /\ i # Len(stack)
    BY <1>2 DEF Depths
  <2> QED
    BY <1>3, <2>1, <2>2 DEF NodesIn, ParserInv, StackInv
<1>6. /\ stack' \in Seq(Frames) /\ ControlInv' /\ StackInv'
      /\ NodesIn(stack') = NodesIn(stack) \ {Top.node} /\ KeysIn(stack') = KeysIn(stack) \ {Null}
      /\ Top.node \in NodesIn(stack)
  BY <1>1, <1>2, <1>3, <1>4, <1>5, PopStep
<1>7. /\ Roots = NodesIn(stack) \cup ({ret, result} \ {Null}) /\ PendingKeys = KeysIn(stack)
      /\ Roots' = NodesIn(stack') \cup ({ret', result'} \ {Null}) /\ PendingKeys' = KeysIn(stack')
  BY <1>6, Hands, NextHands DEF ParserInv
<1>8. Roots' = Roots /\ PendingKeys' = PendingKeys
  <2>1. Null \notin KeysIn(stack)
    BY DEF KeysIn
  <2>2. {ret', result'} \ {Null} = {Top.node} /\ {ret, result} \ {Null} = {}
    BY <1>1, <1>2, <1>4
  <2> QED
    BY <1>6, <1>7, <2>1, <2>2
<1>9. ValueInv' /\ KeyInv' /\ MemberInv' /\ Grounded'
  BY <1>1, <1>8, SameStep
<1>10. ParserTypeOK'
  BY <1>1, <1>4, <1>6 DEF ParserInv, ParserTypeOK, Frames
<1> QED
  BY <1>6, <1>9, <1>10 DEF ParserInv

(* The steps that neither make, free nor move a value in the stack.        *)
LEMMA QuietStep ==
  ASSUME ParserInv, Parse \/ NoValue \/ More \/ Return \/ UNCHANGED parserVars
  PROVE  ParserInv'
<1>1. UNCHANGED <<stack, holder, keyOf, live, held>>
  BY DEF Parse, NoValue, More, Return, parserVars
<1>2. {ret', result'} = {ret, result} /\ ret' \in {ret, result} /\ result' \in {ret, result} /\ (ret' # ret => ret' = Null)
  <2>1. CASE Parse \/ More \/ UNCHANGED parserVars
    BY <2>1 DEF Parse, More, parserVars
  <2>2. CASE NoValue
    BY <2>2 DEF NoValue, ParserInv, ControlInv
  <2>3. CASE Return
    <3>1. result = Null /\ result' = ret /\ ret' = Null
      BY <2>3 DEF Return, ParserInv, ControlInv
    <3> QED
      BY <3>1
  <2> QED
    BY <2>1, <2>2, <2>3
<1>3. stack' \in Seq(Frames)
  BY <1>1, Hands DEF ParserInv
<1>4. Roots' = Roots /\ PendingKeys' = PendingKeys
  BY <1>1, <1>2, <1>3, Hands, NextHands DEF ParserInv
<1>5. ValueInv' /\ KeyInv' /\ MemberInv' /\ Grounded'
  BY <1>1, <1>4, SameStep
<1>6. at' \in {"idle", "value", "key", "returned", "loop"}
  BY DEF Parse, NoValue, More, Return, parserVars, ParserInv, ParserTypeOK
<1>7. ParserTypeOK'
  BY <1>1, <1>2, <1>6 DEF ParserInv, ParserTypeOK
<1>8. StackInv'
  <2>1. \A i \in Depths : stack[i].node # ret'
    <3>1. \A i \in Depths : stack[i].node # Null
      BY Hands, ParserAssumption DEF ParserInv, Frames
    <3> QED
      BY <1>2, <3>1 DEF ParserInv, StackInv
  <2> QED
    BY <1>1, <2>1 DEF ParserInv, StackInv, Depths
<1>9. ControlInv'
  <2>1. CASE Parse
    BY <1>1, <2>1, EmptySeq DEF Parse, ParserInv, ControlInv, Depths
  <2>2. CASE NoValue
    BY <1>1, <2>2 DEF NoValue, ParserInv, ControlInv, Depths
  <2>3. CASE More
    <3>1. Len(stack) \in Nat /\ Top = stack[Len(stack)] /\ Len(stack) > 0
      BY <2>3, Hands DEF More, Top, Last, ParserInv, ControlInv
    <3>2. Len(stack) \in Depths /\ Top \in Frames /\ Top.kind \in {"array", "object"}
      BY <3>1, Hands DEF ParserInv, Depths, Frames
    <3>3. /\ at = "loop" /\ at' = IF Top.kind = "array" THEN "value" ELSE "key"
          /\ ret' = ret /\ result' = result /\ ret = Null /\ result = Null
      BY <2>3 DEF More, ParserInv, ControlInv
    <3>4. CASE Top.kind = "array"
      BY <1>1, <3>1, <3>2, <3>3, <3>4 DEF ParserInv, ControlInv, Depths
    <3>5. CASE Top.kind = "object"
      BY <1>1, <3>1, <3>2, <3>3, <3>5 DEF ParserInv, ControlInv, Depths
    <3> QED
      BY <3>2, <3>4, <3>5
  <2>4. CASE Return
    BY <1>1, <2>4 DEF Return, ParserInv, ControlInv, Depths
  <2>5. CASE UNCHANGED parserVars
    BY <2>5 DEF parserVars, ParserInv, ControlInv, Depths
  <2> QED
    BY <2>1, <2>2, <2>3, <2>4, <2>5
<1> QED
  BY <1>5, <1>7, <1>8, <1>9 DEF ParserInv

LEMMA ParserInitInv ==
  ParserInit => ParserInv
<1> SUFFICES ASSUME ParserInit PROVE ParserInv
  OBVIOUS
<1>1. stack = << >> /\ ret = Null /\ result = Null /\ at = "idle" /\ live = {} /\ Depths = {}
  BY DEF ParserInit, Depths
<1>2. ParserTypeOK
  BY DEF ParserInit, ParserTypeOK
<1>3. Roots = {} /\ PendingKeys = {}
  <2>1. NodesIn(stack) = {} /\ KeysIn(stack) = {}
    BY <1>1 DEF NodesIn, KeysIn
  <2> QED
    BY <1>1, <1>2, <2>1, Hands
<1>4. ControlInv /\ StackInv
  BY <1>1 DEF ControlInv, StackInv
<1>5. Held = {} /\ KeysOf(Nodes) = {}
  BY DEF ParserInit, Held, KeysOf
<1>6. ValueInv /\ KeyInv /\ MemberInv
  BY <1>1, <1>3, <1>5 DEF ValueInv, KeyInv, MemberInv, ParserInit
<1>7. Grounded
  BY <1>1 DEF Grounded
<1> QED
  BY <1>2, <1>4, <1>6, <1>7 DEF ParserInv

LEMMA ParserNextInv ==
  ParserInv /\ [ParserNext]_parserVars => ParserInv'
<1> SUFFICES ASSUME ParserInv, [ParserNext]_parserVars PROVE ParserInv'
  OBVIOUS
<1>1. (UNION {Below(g) : g \in {}}) = {}
  OBVIOUS
<1>2. CASE NoKey \/ NeitherMoreNorClose
  <2>1. at \in {"key", "loop"} /\ GiveUp({}, {}) /\ UNCHANGED result
    BY <1>2 DEF NoKey, NeitherMoreNorClose
  <2>2. Len(stack) > 0 /\ ret = Null /\ Top.key = Null
    BY <2>1 DEF ParserInv, ControlInv, Top, Last
  <2>3. {} = {ret} \ {Null} /\ {} \in SUBSET ({ret} \ {Null}) /\ {Top.key} \ {Null} = {}
    BY <2>2
  <2>4. GiveUp(UNION {Below(g) : g \in {}}, {Top.key} \ {Null})
    BY <1>1, <2>1, <2>3
  <2> QED
    BY <2>1, <2>2, <2>3, <2>4, GiveUpStep
<1>3. CASE ElementMissing
  <2>1. Len(stack) > 0 /\ ret = Null /\ GiveUp({}, {Top.key} \ {Null}) /\ UNCHANGED result
    BY <1>3 DEF ElementMissing
  <2>2. {} = {ret} \ {Null} /\ {} \in SUBSET ({ret} \ {Null})
    BY <2>1
  <2>3. GiveUp(UNION {Below(g) : g \in {}}, {Top.key} \ {Null})
    BY <1>1, <2>1
  <2> QED
    BY <2>1, <2>2, <2>3, GiveUpStep
<1>4. CASE ElementNotAdded
  <2>1. Len(stack) > 0 /\ ret # Null /\ GiveUp(Below(ret), {Top.key} \ {Null}) /\ UNCHANGED result
    BY <1>4 DEF ElementNotAdded
  <2>2. {ret} = {ret} \ {Null} /\ {ret} \in SUBSET ({ret} \ {Null})
    BY <2>1
  <2>3. (UNION {Below(g) : g \in {ret}}) = Below(ret)
    OBVIOUS
  <2>4. GiveUp(UNION {Below(g) : g \in {ret}}, {Top.key} \ {Null})
    BY <2>1, <2>3
  <2> QED
    BY <2>1, <2>2, <2>4, GiveUpStep
<1>5. CASE Trailing
  <2>1. /\ stack = << >> /\ ret # Null /\ FreeAll(Below(ret), {}) /\ ret' = Null /\ at' = "idle" /\ at = "returned"
        /\ UNCHANGED <<stack, result>>
    BY <1>5 DEF Trailing
  <2>2. result = Null
    BY <2>1 DEF ParserInv, ControlInv
  <2>3. ret \in {ret, result} \ {Null}
    BY <2>1
  <2> QED
    BY <2>1, <2>2, <2>3, DestroyStep
<1>6. CASE CallerDestroys
  <2>1. /\ at = "idle" /\ result # Null /\ FreeAll(Below(result), {}) /\ result' = Null
        /\ UNCHANGED <<at, stack, ret>>
    BY <1>6 DEF CallerDestroys
  <2>2. ret = Null /\ stack = << >>
    BY <2>1 DEF ParserInv, ControlInv
  <2>3. result \in {ret, result} \ {Null} /\ (result = ret => result = Null)
    BY <2>1, <2>2
  <2> QED
    BY <2>1, <2>2, <2>3, DestroyStep
<1>7. CASE \E n \in Nodes : Leaf(n) \/ OpenContainer(n)
  BY <1>7, LeafStep, OpenContainerStep
<1>8. CASE \E s \in ParsedStrings : Key(s)
  BY <1>8, KeyStep
<1> QED
  BY <1>2, <1>3, <1>4, <1>5, <1>6, <1>7, <1>8, QuietStep, ArrayAddStep, ObjectSetStep, CloseContainerStep
     DEF ParserNext

-----------------------------------------------------------------------------
(* The parser: what follows                                                *)

LEMMA ParserAlwaysInv ==
  ParserSpec => []ParserInv
BY ParserInitInv, ParserNextInv, PTL DEF ParserSpec

(* Where the parser is, what it holds and what the caller has are as they  *)
(* should be: values and key strings, or NULL.                             *)
THEOREM ParserTypes ==
  ParserSpec => []ParserTypeOK
<1>1. ParserInv => ParserTypeOK
  BY DEF ParserInv
<1> QED
  BY <1>1, ParserAlwaysInv, PTL

LEMMA OneOwnerInv ==
  ParserInv => OneOwner
<1> SUFFICES ASSUME ParserInv PROVE OneOwner
  OBVIOUS
<1>1. /\ live = Roots \cup Held /\ live \subseteq Nodes
      /\ \A n \in Held : holder[n] \in live /\ n \notin Roots
  BY DEF ParserInv, ValueInv, ParserTypeOK
<1>2. live = Roots \cup {n \in Nodes : holder[n] # Null}
  BY <1>1 DEF Held
<1>3. \A n \in Nodes : holder[n] # Null => holder[n] \in live /\ n \notin Roots
  BY <1>1 DEF Held
<1>4. /\ {s \in ParsedStrings : held[s] # Null} = PendingKeys \cup KeysOf(Nodes)
      /\ PendingKeys \cap KeysOf(Nodes) = {}
  BY DEF ParserInv, KeyInv
<1>5. Len(stack) = Cardinality({f.node : f \in Range(stack)})
  <2> DEFINE g == [i \in Depths |-> stack[i].node]
  <2>1. {f.node : f \in Range(stack)} = NodesIn(stack) /\ Len(stack) \in Nat
    BY StackSets, Hands DEF ParserInv
  <2>2. g \in Bijection(Depths, NodesIn(stack))
    <3>1. g \in Surjection(Depths, NodesIn(stack))
      BY DEF Surjection, NodesIn, Depths
    <3>2. g \in Injection(Depths, NodesIn(stack))
      BY <3>1 DEF Injection, IsInjective, Surjection, ParserInv, StackInv
    <3> QED
      BY <3>1, <3>2 DEF Bijection
  <2>3. IsFiniteSet(Depths) /\ Cardinality(Depths) = Len(stack)
    <3>1. 1 \in Int /\ Len(stack) \in Int
      BY <2>1
    <3>2. /\ IsFiniteSet(1 .. Len(stack))
          /\ Cardinality(1 .. Len(stack)) = IF 1 > Len(stack) THEN 0 ELSE Len(stack) - 1 + 1
      BY <3>1, FS_Interval
    <3> QED
      BY <2>1, <3>2 DEF Depths
  <2>4. Cardinality(NodesIn(stack)) = Cardinality(Depths)
    <3> HIDE DEF g
    <3> QED
      BY <2>2, <2>3, FS_Bijection DEF ExistsBijection
  <2> QED
    BY <2>1, <2>3, <2>4
<1>6. at = "idle" /\ result = Null => live = {}
  <2> SUFFICES ASSUME at = "idle", result = Null PROVE live = {}
    OBVIOUS
  <2>1. stack = << >> /\ ret = Null
    BY DEF ParserInv, ControlInv
  <2>2. NodesIn(stack) = {}
    BY <2>1 DEF NodesIn
  <2>3. Roots = {}
    BY <2>1, <2>2, Hands DEF ParserInv
  <2>4. Whole({})
    BY DEF Whole
  <2> QED
    BY <2>3, <2>4, {} \in SUBSET live DEF ParserInv, Grounded
<1>7. \A m, n \in live : m # n /\ holder[m] = holder[n] /\ keyOf[m] # Null /\ keyOf[n] # Null
                           => keyOf[m] # keyOf[n] /\ held[keyOf[m]] # held[keyOf[n]]
  BY <1>1 DEF ParserInv, MemberInv, KeyInv
<1> QED
  BY <1>2, <1>3, <1>4, <1>5, <1>6, <1>7 DEF OneOwner

(* Whatever the text and whichever allocation fails, each value and each   *)
(* key string the parser has allocated has one owner until it is freed,    *)
(* and a parse that fails leaves nothing behind.                           *)
THEOREM ParserOwnership ==
  ParserSpec => []OneOwner
BY ParserAlwaysInv, OneOwnerInv, PTL


-----------------------------------------------------------------------------
(* The object: its inductive invariant                                     *)

EntryRecords == [key : Strings, hash : Range(Hash), value : Values]

(* The chains cc of a table hold the entries es, each once and in its      *)
(* bucket.                                                                 *)
TableOf(cc, es) ==
  /\ cc \in Seq(Seq(EntryRecords)) /\ Len(cc) >= 2 /\ es \subseteq EntryRecords
  /\ \A b \in 1 .. Len(cc) :
       /\ Range(cc[b]) = {e \in es : SlotIn(Len(cc), e.hash) = b}
       /\ IsInjective(cc[b])

Live(e) == text[e.key] # None

(* What holds whatever the hashes are.  The string of a key is allocated   *)
(* from the set that adds the key until destroy has come to it.            *)
ObjectInv ==
  /\ TypeOK
  /\ pc = "none" => chain = << >> /\ order = << >>
  /\ pc # "none" => TableOf(chain, Entries)
  /\ pc # "destroying" => next = 1
  /\ IsInjective(order) /\ Range(order) = {e.key : e \in Entries}
  /\ \A e, f \in Entries : e.key = f.key => e = f
  /\ \A s \in Strings : text[s] # None <=> \E i \in next .. Len(order) : order[i] = s
  /\ \A e \in Entries : Live(e) => e.hash = Hash[text[e.key]]
  /\ \A e, f \in Entries : Live(e) /\ text[e.key] = text[f.key] => e = f
  /\ \A e, f \in Entries : e.value = f.value => e = f
  /\ pc = "open" => \A e \in Entries : owner[e.value] = "object"

(* What holds until an object is destroyed two of whose keys have the same *)
(* hash.  The object owns the values of the keys that destroy has not come *)
(* to.                                                                     *)
OneHashEach == \A e, f \in Entries : e.hash = f.hash => e = f
OwnsItsValues ==
  \A v \in Values : owner[v] = "object" <=> \E e \in Entries : e.value = v /\ Live(e)

OwnerInv ==
  /\ ~twins => OwnsItsValues
  /\ ~twins /\ pc = "destroying" => OneHashEach

-----------------------------------------------------------------------------
(* Sequences of sequences                                                  *)

LEMMA NaturalNumbers ==
  ASSUME NEW S, 0 \in S, \A n \in Nat : n \in S => n + 1 \in S
  PROVE  Nat \subseteq S
<1> DEFINE T == Nat \ S
<1> SUFFICES ASSUME T # {} PROVE FALSE
  OBVIOUS
<1>1. PICK n \in T : \A m \in T : ~ (<<m, n>> \in OpToRel(<, Nat))
  BY NatLessThanWellFounded, WFMin
<1>2. n # 0 /\ n - 1 \in Nat /\ n - 1 < n
  OBVIOUS
<1>3. n - 1 \notin T
  BY <1>1, <1>2 DEF OpToRel
<1> QED
  BY <1>2, <1>3

LEMMA FromBelow ==
  ASSUME NEW S, 0 \in S, \A n \in Nat \ {0} : n - 1 \in S => n \in S
  PROVE  Nat \subseteq S
<1>1. \A n \in Nat : n \in S => n + 1 \in S
  <2>1. \A n \in Nat : n + 1 \in Nat \ {0} /\ n + 1 - 1 = n
    OBVIOUS
  <2> QED
    BY <2>1
<1> QED
  BY <1>1, NaturalNumbers

LEMMA JoinInjective ==
  ASSUME NEW E, NEW s \in Seq(E), NEW t \in Seq(E), IsInjective(s), IsInjective(t), Range(s) \cap Range(t) = {}
  PROVE  s \o t \in Seq(E) /\ Range(s \o t) = Range(s) \cup Range(t) /\ IsInjective(s \o t)
<1> DEFINE l == Len(s)
           m == Len(t)
           u == s \o t
<1>1. l \in Nat /\ m \in Nat /\ DOMAIN s = 1 .. l /\ DOMAIN t = 1 .. m
  BY LenProperties
<1>2. u \in Seq(E) /\ Len(u) = l + m /\ \A i \in 1 .. l + m : u[i] = IF i <= l THEN s[i] ELSE t[i - l]
  BY ConcatProperties
<1>3. DOMAIN u = 1 .. l + m
  BY <1>2, LenProperties
<1> HIDE DEF l, m, u
<1>4. ASSUME NEW i \in 1 .. l + m
      PROVE  \/ i \in 1 .. l /\ u[i] = s[i] /\ u[i] \in Range(s)
             \/ i - l \in 1 .. m /\ u[i] = t[i - l] /\ u[i] \in Range(t)
  <2>1. CASE i <= l
    <3>1. i \in 1 .. l /\ u[i] = s[i]
      BY <1>1, <1>2, <2>1
    <3> QED
      BY <1>1, <3>1 DEF Range
  <2>2. CASE ~(i <= l)
    <3>1. i - l \in 1 .. m /\ u[i] = t[i - l]
      BY <1>1, <1>2, <2>2
    <3> QED
      BY <1>1, <3>1 DEF Range
  <2> QED
    BY <2>1, <2>2
<1>5. IsInjective(u)
  <2> SUFFICES ASSUME NEW i \in 1 .. l + m, NEW j \in 1 .. l + m, u[i] = u[j] PROVE i = j
    BY <1>3 DEF IsInjective
  <2>1. CASE i \in 1 .. l /\ u[i] = s[i] /\ u[i] \in Range(s)
    BY <1>1, <1>4, <2>1 DEF IsInjective
  <2>2. CASE i - l \in 1 .. m /\ u[i] = t[i - l] /\ u[i] \in Range(t)
    <3>1. j - l \in 1 .. m /\ u[j] = t[j - l]
      BY <1>4, <2>2
    <3>2. i - l = j - l
      BY <1>1, <2>2, <3>1 DEF IsInjective
    <3> QED
      BY <1>1, <3>2
  <2> QED
    BY <1>4, <2>1, <2>2
<1>6. Range(u) = Range(s) \cup Range(t)
  <2>1. ASSUME NEW i \in 1 .. l PROVE i \in 1 .. l + m /\ u[i] = s[i]
    BY <1>1, <1>2
  <2>2. ASSUME NEW i \in 1 .. m PROVE i + l \in 1 .. l + m /\ u[i + l] = t[i]
    BY <1>1, <1>2
  <2>3. Range(s) \subseteq Range(u) /\ Range(t) \subseteq Range(u)
    BY <1>1, <1>3, <2>1, <2>2 DEF Range
  <2>4. Range(u) = {u[i] : i \in 1 .. l + m}
    BY <1>3 DEF Range
  <2> QED
    BY <1>4, <2>3, <2>4
<1> QED
  BY <1>2, <1>5, <1>6 DEF u

(* The function in the definition of FlattenSeq.                           *)
Flattens(cc, n, f) ==
  f = [i \in 1 .. n |-> IF i = 1 THEN cc[i] ELSE f[i - 1] \o cc[i]]

LEMMA FlattensExists ==
  ASSUME NEW cc, NEW n \in Nat
  PROVE  \E f : Flattens(cc, n, f)
<1> DEFINE S == {m \in Nat : \E f : Flattens(cc, m, f)}
<1>1. 0 \in S
  <2>1. Flattens(cc, 0, [i \in 1 .. 0 |-> 0])
    BY DEF Flattens
  <2> QED
    BY <2>1
<1>2. ASSUME NEW m \in Nat, m \in S PROVE m + 1 \in S
  <2>1. PICK f : Flattens(cc, m, f)
    BY <1>2
  <2> DEFINE g == [i \in 1 .. m + 1 |-> IF i <= m THEN f[i] ELSE IF i = 1 THEN cc[i] ELSE f[m] \o cc[i]]
  <2>2. ASSUME NEW i \in 1 .. m + 1 PROVE g[i] = IF i = 1 THEN cc[i] ELSE g[i - 1] \o cc[i]
    <3>1. CASE i <= m
      <4>1. f[i] = IF i = 1 THEN cc[i] ELSE f[i - 1] \o cc[i]
        <5> DEFINE h(j) == IF j = 1 THEN cc[j] ELSE f[j - 1] \o cc[j]
        <5>1. f = [j \in 1 .. m |-> h(j)]
          BY <2>1 DEF Flattens
        <5> HIDE DEF h
        <5>2. f[i] = h(i)
          BY <3>1, <5>1
        <5> QED
          BY <5>2 DEF h
      <4> QED
        BY <3>1, <4>1
    <3>2. CASE i = m + 1
      BY <3>2
    <3> QED
      BY <3>1, <3>2
  <2>3. Flattens(cc, m + 1, g)
    <3>1. g = [i \in 1 .. m + 1 |-> g[i]]
      OBVIOUS
    <3> HIDE DEF g
    <3> QED
      BY <2>2, <3>1 DEF Flattens
  <2> QED
    BY <2>3
<1> QED
  <2> HIDE DEF S
  <2>1. Nat \subseteq S
    BY <1>1, <1>2, NaturalNumbers
  <2> QED
    BY <2>1 DEF S

LEMMA FlattenTable ==
  ASSUME NEW cc, NEW es, TableOf(cc, es)
  PROVE  FlattenSeq(cc) \in Seq(EntryRecords) /\ Range(FlattenSeq(cc)) = es /\ IsInjective(FlattenSeq(cc))
<1> DEFINE l == Len(cc)
           f == CHOOSE f : Flattens(cc, l, f)
           upto(n) == {e \in es : SlotIn(l, e.hash) \in 1 .. n}
           S == {n \in Nat : n \in 1 .. l => /\ f[n] \in Seq(EntryRecords) /\ Range(f[n]) = upto(n)
                                             /\ IsInjective(f[n])}
<1>1. l \in Nat /\ l >= 2 /\ \A b \in 1 .. l : cc[b] \in Seq(EntryRecords)
  BY LenProperties, ElementOfSeq DEF TableOf
<1>2. FlattenSeq(cc) = f[l]
  BY <1>1 DEF FlattenSeq, Flattens
<1>3. Flattens(cc, l, f)
  BY <1>1, FlattensExists
<1> HIDE DEF f
<1>4. \A i \in 1 .. l : f[i] = IF i = 1 THEN cc[i] ELSE f[i - 1] \o cc[i]
  BY <1>3 DEF Flattens
<1>5. \A b \in 1 .. l : Range(cc[b]) = {e \in es : SlotIn(l, e.hash) = b} /\ IsInjective(cc[b])
  BY DEF TableOf
<1> HIDE DEF l
<1>6. 0 \in S
  OBVIOUS
<1>7. ASSUME NEW n \in Nat \ {0}, n - 1 \in S PROVE n \in S
  <2> SUFFICES ASSUME n \in 1 .. l
               PROVE  f[n] \in Seq(EntryRecords) /\ Range(f[n]) = upto(n) /\ IsInjective(f[n])
    OBVIOUS
  <2>1. cc[n] \in Seq(EntryRecords) /\ IsInjective(cc[n]) /\ Range(cc[n]) = {e \in es : SlotIn(l, e.hash) = n}
    BY <1>1, <1>5
  <2>2. CASE n = 1
    <3>1. f[n] = cc[n] /\ upto(n) = {e \in es : SlotIn(l, e.hash) = n}
      BY <1>4, <2>2
    <3> QED
      BY <2>1, <3>1
  <2>3. CASE n # 1
    <3>1. f[n] = f[n - 1] \o cc[n]
      BY <1>4, <2>3
    <3>2. f[n - 1] \in Seq(EntryRecords) /\ Range(f[n - 1]) = upto(n - 1) /\ IsInjective(f[n - 1])
      BY <1>1, <1>7, <2>3
    <3>3. Range(f[n - 1]) \cap Range(cc[n]) = {}
      BY <2>1, <3>2
    <3>4. /\ f[n - 1] \o cc[n] \in Seq(EntryRecords) /\ IsInjective(f[n - 1] \o cc[n])
          /\ Range(f[n - 1] \o cc[n]) = Range(f[n - 1]) \cup Range(cc[n])
      BY <2>1, <3>2, <3>3, JoinInjective
    <3>5. upto(n - 1) \cup {e \in es : SlotIn(l, e.hash) = n} = upto(n)
      OBVIOUS
    <3> HIDE DEF upto
    <3> QED
      BY <2>1, <3>1, <3>2, <3>4, <3>5
  <2> QED
    BY <2>2, <2>3
<1>8. l \in S
  <2> HIDE DEF S
  <2>1. Nat \subseteq S
    BY <1>6, <1>7, FromBelow
  <2> QED
    BY <1>1, <2>1
<1>9. upto(l) = es
  <2>1. \A e \in es : e.hash \in Nat
    BY JsonObjectAssumption DEF TableOf, EntryRecords, Range
  <2> QED
    BY <1>1, <2>1 DEF SlotIn
<1> QED
  <2>1. l \in 1 .. l
    BY <1>1
  <2>2. f[l] \in Seq(EntryRecords) /\ Range(f[l]) = upto(l) /\ IsInjective(f[l])
    BY <1>8, <2>1
  <2> QED
    BY <1>2, <1>9, <2>2

LEMMA Cons1 ==
  ASSUME NEW E, NEW e \in E, NEW s \in Seq(E), IsInjective(s), e \notin Range(s)
  PROVE  <<e>> \o s \in Seq(E) /\ Range(<<e>> \o s) = Range(s) \cup {e} /\ IsInjective(<<e>> \o s)
<1>1. <<e>> \in Seq(E) /\ Range(<<e>>) = {e} /\ IsInjective(<<e>>)
  BY DEF Range, IsInjective
<1>2. Range(<<e>>) \cap Range(s) = {}
  BY <1>1
<1> HIDE DEF Range
<1>3. <<e>> \o s \in Seq(E) /\ Range(<<e>> \o s) = Range(<<e>>) \cup Range(s) /\ IsInjective(<<e>> \o s)
  BY ONLY <1>1, <1>2, JoinInjective, s \in Seq(E), IsInjective(s)
<1> QED
  BY <1>1, <1>3

LEMMA SlotInTable ==
  ASSUME NEW n \in Nat, n >= 2, NEW h \in Nat
  PROVE  SlotIn(n, h) \in 1 .. n
BY DEF SlotIn

LEMMA EmptyTable ==
  ASSUME NEW n \in Nat, n >= 2
  PROVE  TableOf([b \in 1 .. n |-> << >>], {})
<1> DEFINE cc == [b \in 1 .. n |-> << >>]
<1>1. << >> \in Seq(EntryRecords) /\ Range(<< >>) = {} /\ IsInjective(<< >>)
  BY EmptySeq DEF Range, IsInjective
<1>2. cc \in Seq(Seq(EntryRecords)) /\ Len(cc) = n
  BY <1>1, IsASeq, LenProperties
<1> QED
  BY <1>1, <1>2 DEF TableOf

(* One chain is replaced.                                                  *)
LEMMA ChainSet ==
  ASSUME NEW cc, NEW es, TableOf(cc, es), NEW b \in 1 .. Len(cc), NEW c \in Seq(EntryRecords), NEW fs,
         fs \subseteq EntryRecords, IsInjective(c), Range(c) = {e \in fs : SlotIn(Len(cc), e.hash) = b},
         \A e : SlotIn(Len(cc), e.hash) # b => (e \in fs <=> e \in es)
  PROVE  TableOf([cc EXCEPT ![b] = c], fs) /\ Len([cc EXCEPT ![b] = c]) = Len(cc)
<1> DEFINE dd == [cc EXCEPT ![b] = c]
           l == Len(cc)
<1>1. cc \in Seq(Seq(EntryRecords)) /\ l >= 2
  BY DEF TableOf
<1>2. dd \in Seq(Seq(EntryRecords)) /\ Len(dd) = l /\ \A a \in 1 .. l : dd[a] = IF a = b THEN c ELSE cc[a]
  BY <1>1, ExceptSeq
<1>3. ASSUME NEW a \in 1 .. l
      PROVE  Range(dd[a]) = {e \in fs : SlotIn(l, e.hash) = a} /\ IsInjective(dd[a])
  <2>1. CASE a = b
    BY <1>2, <2>1
  <2>2. CASE a # b
    <3>1. dd[a] = cc[a] /\ Range(cc[a]) = {e \in es : SlotIn(l, e.hash) = a} /\ IsInjective(cc[a])
      BY <1>2, <2>2 DEF TableOf
    <3>2. {e \in es : SlotIn(l, e.hash) = a} = {e \in fs : SlotIn(l, e.hash) = a}
      BY <2>2
    <3> QED
      BY <3>1, <3>2
  <2> QED
    BY <2>1, <2>2
<1> QED
  <2> HIDE DEF dd
  <2>1. TableOf(dd, fs)
    BY <1>1, <1>2, <1>3 DEF TableOf
  <2> QED
    BY <1>2, <2>1 DEF dd

LEMMA InsertTable ==
  ASSUME NEW cc, NEW es, TableOf(cc, es), NEW e \in EntryRecords \ es
  PROVE  /\ TableOf([cc EXCEPT ![SlotIn(Len(cc), e.hash)] = <<e>> \o @], es \cup {e})
         /\ Len([cc EXCEPT ![SlotIn(Len(cc), e.hash)] = <<e>> \o @]) = Len(cc)
<1> DEFINE l == Len(cc)
           b == SlotIn(l, e.hash)
           c == <<e>> \o cc[b]
<1>1. cc \in Seq(Seq(EntryRecords)) /\ l \in Nat /\ l >= 2
  BY LenProperties DEF TableOf
<1>2. e.hash \in Nat
  BY JsonObjectAssumption DEF EntryRecords, Range
<1>3. b \in 1 .. l
  BY <1>1, <1>2, SlotInTable
<1>4. cc[b] \in Seq(EntryRecords) /\ Range(cc[b]) = {x \in es : SlotIn(l, x.hash) = b} /\ IsInjective(cc[b])
  BY <1>1, <1>3, ElementOfSeq DEF TableOf
<1>5. c \in Seq(EntryRecords) /\ IsInjective(c) /\ Range(c) = Range(cc[b]) \cup {e}
  BY <1>4, Cons1
<1>6. Range(c) = {x \in es \cup {e} : SlotIn(l, x.hash) = b}
  BY <1>4, <1>5
<1>7. es \cup {e} \subseteq EntryRecords
  BY DEF TableOf
<1>8. \A x : SlotIn(l, x.hash) # b => (x \in es \cup {e} <=> x \in es)
  OBVIOUS
<1>9. TableOf([cc EXCEPT ![b] = c], es \cup {e}) /\ Len([cc EXCEPT ![b] = c]) = l
  <2> HIDE DEF b, c
  <2> QED
    BY <1>3, <1>5, <1>6, <1>7, <1>8, ChainSet
<1>10. [cc EXCEPT ![b] = c] = [cc EXCEPT ![SlotIn(Len(cc), e.hash)] = <<e>> \o @]
  OBVIOUS
<1> QED
  BY <1>9, <1>10

(* An entry gets another value.                                            *)
LEMMA ReplaceTable ==
  ASSUME NEW cc, NEW es, TableOf(cc, es), NEW b \in 1 .. Len(cc), NEW i \in DOMAIN cc[b], NEW v \in Values,
         [cc[b][i] EXCEPT !.value = v] \notin es
  PROVE  /\ cc[b][i] \in es
         /\ TableOf([cc EXCEPT ![b][i].value = v], (es \ {cc[b][i]}) \cup {[cc[b][i] EXCEPT !.value = v]})
<1> DEFINE l == Len(cc)
           e == cc[b][i]
           f == [e EXCEPT !.value = v]
           c == [cc[b] EXCEPT ![i] = f]
           fs == (es \ {e}) \cup {f}
<1>1. cc \in Seq(Seq(EntryRecords)) /\ l \in Nat /\ l >= 2 /\ es \subseteq EntryRecords
  BY LenProperties DEF TableOf
<1>2. cc[b] \in Seq(EntryRecords) /\ Range(cc[b]) = {x \in es : SlotIn(l, x.hash) = b} /\ IsInjective(cc[b])
  BY <1>1, ElementOfSeq DEF TableOf
<1>3. DOMAIN cc[b] = 1 .. Len(cc[b])
  BY <1>2, LenProperties
<1>4. e \in es /\ e \in EntryRecords /\ SlotIn(l, e.hash) = b
  BY <1>1, <1>2 DEF Range
<1>5. f \in EntryRecords /\ f.hash = e.hash
  BY <1>4 DEF EntryRecords
<1>6. /\ c \in Seq(EntryRecords) /\ Len(c) = Len(cc[b])
      /\ \A j \in 1 .. Len(cc[b]) : c[j] = IF j = i THEN f ELSE cc[b][j]
  <2> HIDE DEF f
  <2> QED
    BY <1>2, <1>3, <1>5, ExceptSeq
<1>7. DOMAIN c = DOMAIN cc[b]
  BY <1>3, <1>6, LenProperties
<1>8. \A j \in DOMAIN cc[b] : c[j] = IF j = i THEN f ELSE cc[b][j]
  BY <1>3, <1>6
<1>9. \A j \in DOMAIN cc[b] : cc[b][j] # f
  BY <1>2 DEF Range
<1> HIDE DEF c, f, e
<1>10. IsInjective(c)
  BY <1>2, <1>7, <1>8, <1>9 DEF IsInjective
<1>11. Range(c) = (Range(cc[b]) \ {e}) \cup {f}
  <2>1. \A j \in DOMAIN cc[b] : cc[b][j] = e => j = i
    BY <1>2 DEF IsInjective, e
  <2>2. \A x : (\E j \in DOMAIN c : c[j] = x) <=> (((\E j \in DOMAIN cc[b] : cc[b][j] = x) /\ x # e) \/ x = f)
    BY <1>7, <1>8, <2>1 DEF e
  <2>3. Range(c) = {c[j] : j \in DOMAIN c} /\ Range(cc[b]) = {cc[b][j] : j \in DOMAIN cc[b]}
    BY DEF Range
  <2>4. {c[j] : j \in DOMAIN c} = ({cc[b][j] : j \in DOMAIN cc[b]} \ {e}) \cup {f}
    BY ONLY <2>2
  <2> QED
    BY <2>3, <2>4
<1>12. Range(c) = {x \in fs : SlotIn(l, x.hash) = b}
  BY <1>2, <1>4, <1>5, <1>11
<1>13. \A x : SlotIn(l, x.hash) # b => (x \in fs <=> x \in es)
  BY <1>4, <1>5
<1>14. fs \subseteq EntryRecords
  BY <1>1, <1>5
<1>15. TableOf([cc EXCEPT ![b] = c], fs)
  <2> HIDE DEF fs
  <2> QED
    BY <1>6, <1>10, <1>12, <1>13, <1>14, ChainSet
<1>16. [cc EXCEPT ![b] = c] = [cc EXCEPT ![b][i].value = v]
  BY DEF c, f, e
<1> QED
  BY <1>4, <1>15, <1>16 DEF f, e

(* The function in the definition of Rehashed.                             *)
Fills(entries, m, n, t) ==
  t = [i \in 0 .. n |->
         IF i = 0 THEN [b \in 1 .. m |-> << >>]
         ELSE [t[i - 1] EXCEPT ![SlotIn(m, entries[i].hash)] = <<entries[i]>> \o @]]

LEMMA FillsExists ==
  ASSUME NEW entries, NEW m, NEW n \in Nat
  PROVE  \E t : Fills(entries, m, n, t)
<1> DEFINE first == [b \in 1 .. m |-> << >>]
           with(x, i) == [x EXCEPT ![SlotIn(m, entries[i].hash)] = <<entries[i]>> \o @]
           S == {l \in Nat : \E t : t = [i \in 0 .. l |-> IF i = 0 THEN first ELSE with(t[i - 1], i)]}
<1>1. S = {l \in Nat : \E t : Fills(entries, m, l, t)}
  BY DEF Fills
<1> HIDE DEF first, with
<1>2. 0 \in S
  <2> DEFINE t == [i \in 0 .. 0 |-> first]
  <2>1. t = [i \in 0 .. 0 |-> IF i = 0 THEN first ELSE with(t[i - 1], i)]
    OBVIOUS
  <2> QED
    BY <2>1
<1>3. ASSUME NEW l \in Nat, l \in S PROVE l + 1 \in S
  <2>1. PICK t : t = [i \in 0 .. l |-> IF i = 0 THEN first ELSE with(t[i - 1], i)]
    BY <1>3
  <2> DEFINE g == [i \in 0 .. l + 1 |-> IF i <= l THEN t[i] ELSE with(t[l], i)]
  <2>2. ASSUME NEW i \in 0 .. l + 1 PROVE g[i] = IF i = 0 THEN first ELSE with(g[i - 1], i)
    <3>1. CASE i <= l
      <4>1. t[i] = IF i = 0 THEN first ELSE with(t[i - 1], i)
        <5> DEFINE h(j) == IF j = 0 THEN first ELSE with(t[j - 1], j)
        <5>1. t = [j \in 0 .. l |-> h(j)]
          BY <2>1
        <5> HIDE DEF h
        <5>2. t[i] = h(i)
          BY <3>1, <5>1
        <5> QED
          BY <5>2 DEF h
      <4>2. g[i] = t[i]
        BY <3>1
      <4>3. i # 0 => g[i - 1] = t[i - 1]
        BY <3>1
      <4> QED
        BY <4>1, <4>2, <4>3
    <3>2. CASE i = l + 1
      <4>1. g[i] = with(t[l], i) /\ g[i - 1] = t[l] /\ i # 0
        BY <3>2
      <4> QED
        BY <4>1
    <3> QED
      BY <3>1, <3>2
  <2>3. g = [i \in 0 .. l + 1 |-> IF i = 0 THEN first ELSE with(g[i - 1], i)]
    <3>1. g = [i \in 0 .. l + 1 |-> g[i]]
      OBVIOUS
    <3> HIDE DEF g
    <3> QED
      BY <2>2, <3>1
  <2> HIDE DEF g
  <2> QED
    BY <2>3
<1> HIDE DEF S
<1>4. Nat \subseteq S
  BY <1>2, <1>3, NaturalNumbers
<1> QED
  BY <1>1, <1>4

LEMMA RehashTable ==
  ASSUME TableOf(chain, Entries)
  PROVE  TableOf(Rehashed, Entries)
<1> DEFINE en == FlattenSeq(chain)
           n == Len(en)
           m == 2 * Buckets
           t == CHOOSE t : Fills(en, m, n, t)
           first(i) == {en[j] : j \in 1 .. i}
           S == {i \in Nat : i <= n => TableOf(t[i], first(i)) /\ Len(t[i]) = m}
<1>1. en \in Seq(EntryRecords) /\ Range(en) = Entries /\ IsInjective(en)
  BY FlattenTable DEF Entries
<1>2. n \in Nat /\ DOMAIN en = 1 .. n /\ \A i \in 1 .. n : en[i] \in EntryRecords
  BY <1>1, LenProperties, ElementOfSeq
<1>3. m \in Nat /\ m >= 2
  BY LenProperties DEF TableOf, Buckets
<1>4. Rehashed = t[n]
  BY DEF Rehashed, Fills
<1>5. Fills(en, m, n, t)
  BY <1>2, FillsExists
<1> HIDE DEF t, m, en, n
<1>6. t[0] = [b \in 1 .. m |-> << >>]
  BY <1>2, <1>5 DEF Fills
<1>7. ASSUME NEW i \in 1 .. n
      PROVE  t[i] = [t[i - 1] EXCEPT ![SlotIn(m, en[i].hash)] = <<en[i]>> \o @]
  <2> DEFINE h(j) == IF j = 0 THEN [b \in 1 .. m |-> << >>]
                     ELSE [t[j - 1] EXCEPT ![SlotIn(m, en[j].hash)] = <<en[j]>> \o @]
  <2>1. t = [j \in 0 .. n |-> h(j)]
    BY <1>5 DEF Fills
  <2> HIDE DEF h
  <2>2. t[i] = h(i)
    BY <1>2, <2>1
  <2>3. i # 0
    BY <1>2
  <2> QED
    BY <2>2, <2>3 DEF h
<1>8. 0 \in S
  <2>1. first(0) = {}
    OBVIOUS
  <2>2. Len(t[0]) = m
    <3>1. t[0] \in Seq({<< >>}) /\ DOMAIN t[0] = 1 .. m
      BY <1>3, <1>6, IsASeq
    <3> QED
      BY <1>3, <3>1, LenProperties
  <2> QED
    BY <1>3, <1>6, <2>1, <2>2, EmptyTable
<1>9. ASSUME NEW i \in Nat, i \in S PROVE i + 1 \in S
  <2> SUFFICES ASSUME i + 1 <= n PROVE TableOf(t[i + 1], first(i + 1)) /\ Len(t[i + 1]) = m
    OBVIOUS
  <2> DEFINE e == en[i + 1]
  <2>1. TableOf(t[i], first(i)) /\ Len(t[i]) = m
    BY <1>2, <1>9
  <2>2. i + 1 \in 1 .. n /\ i + 1 - 1 = i
    BY <1>2
  <2>3. e \in EntryRecords \ first(i)
    <3>1. \A j \in 1 .. i : j \in 1 .. n /\ j # i + 1
      BY <1>2
    <3>2. \A j \in 1 .. i : en[j] # en[i + 1]
      BY <1>1, <1>2, <2>2, <3>1 DEF IsInjective
    <3> QED
      BY <1>2, <2>2, <3>2
  <2>4. t[i + 1] = [t[i] EXCEPT ![SlotIn(m, e.hash)] = <<e>> \o @]
    <3>1. ASSUME NEW k \in 1 .. n, k - 1 = i, NEW x, x = en[k]
          PROVE  t[k] = [t[i] EXCEPT ![SlotIn(m, x.hash)] = <<x>> \o @]
      BY <1>7, <3>1
    <3> QED
      BY <2>2, <3>1
  <2>5. first(i + 1) = first(i) \cup {e}
    BY <1>2
  <2> HIDE DEF e, first
  <2> QED
    BY SMTT(30), <2>1, <2>3, <2>4, <2>5, InsertTable
<1>10. n \in S
  <2> HIDE DEF S
  <2>1. Nat \subseteq S
    BY <1>8, <1>9, NaturalNumbers
  <2> QED
    BY <1>2, <2>1
<1>11. first(n) = Entries
  BY <1>1, <1>2 DEF Range
<1>12. n <= n
  BY <1>2
<1> HIDE DEF first
<1> QED
  BY <1>4, <1>10, <1>11, <1>12

LEMMA GrownTable ==
  ASSUME TableOf(chain, Entries)
  PROVE  TableOf(Grown, Entries)
BY RehashTable DEF Grown

(* The entry ten_map_set has put at the head of a chain is the one that    *)
(* ten_map_remove takes out again.                                         *)
LEMMA Removed ==
  ASSUME NEW e, NEW c \in Seq(EntryRecords), e \in EntryRecords
  PROVE  Without(<<e>> \o c, e.key) = c
<1> DEFINE d == <<e>> \o c
           l == Len(c)
           I == {i \in 1 .. Len(d) : d[i].key = e.key}
<1>1. l \in Nat /\ c \in Seq(EntryRecords) /\ <<e>> \in Seq(EntryRecords) /\ Len(<<e>>) = 1 /\ <<e>>[1] = e
  BY LenProperties
<1>2. d \in Seq(EntryRecords) /\ Len(d) = 1 + l /\ \A i \in 1 .. 1 + l : d[i] = IF i <= 1 THEN <<e>>[i] ELSE c[i - 1]
  BY <1>1, ConcatProperties
<1> HIDE DEF d, l
<1>3. d[1] = e /\ \A i \in 1 .. l : d[i + 1] = c[i]
  BY <1>1, <1>2
<1>4. 1 \in I /\ \A i \in I : 1 <= i /\ i \in Nat
  BY <1>1, <1>2, <1>3
<1>5. Min(I) = 1
  <2> HIDE DEF I
  <2> QED
    BY <1>4 DEF Min
<1>6. Without(d, e.key) = SubSeq(d, 1, 1 - 1) \o SubSeq(d, 1 + 1, Len(d))
  <2>1. \E i \in 1 .. Len(d) : d[i].key = e.key
    BY <1>4
  <2> QED
    BY <1>4, <1>5, <2>1 DEF SelectInSeq, Without, RemoveFirstMatch, RemoveAt
<1>8. SubSeq(d, 1, 1 - 1) = << >>
  BY <1>2, SubSeqProperties, EmptySeq
<1>9. SubSeq(d, 2, 1 + l) = c
  <2>1. \A i \in 2 .. 1 + l : d[i] \in EntryRecords
    BY <1>1, <1>2, ElementOfSeq
  <2>2. /\ SubSeq(d, 2, 1 + l) \in Seq(EntryRecords)
        /\ Len(SubSeq(d, 2, 1 + l)) = IF 2 <= 1 + l THEN 1 + l - 2 + 1 ELSE 0
        /\ \A i \in 1 .. 1 + l - 2 + 1 : SubSeq(d, 2, 1 + l)[i] = d[2 + i - 1]
    BY <1>1, <1>2, <2>1, SubSeqProperties
  <2>3. Len(SubSeq(d, 2, 1 + l)) = l
    BY <1>1, <2>2
  <2>4. \A i \in 1 .. l : SubSeq(d, 2, 1 + l)[i] = c[i]
    <3>1. \A i \in 1 .. l : i \in 1 .. 1 + l - 2 + 1 /\ 2 + i - 1 = i + 1
      BY <1>1
    <3> QED
      BY <1>3, <2>2, <3>1
  <2> QED
    BY <1>1, <2>2, <2>3, <2>4, SeqEqual DEF l
<1>10. << >> \o c = c
  BY ConcatEmptySeq
<1>11. Len(d) = 1 + l /\ 1 + 1 = 2
  BY <1>2
<1>12. SubSeq(d, 1, 1 - 1) \o SubSeq(d, 1 + 1, Len(d)) = c
  BY <1>8, <1>9, <1>10, <1>11
<1> QED
  BY <1>6, <1>12 DEF d

-----------------------------------------------------------------------------
(* The object: what a search finds                                         *)

LEMMA EntriesOf ==
  ASSUME NEW es, TableOf(chain', es)
  PROVE  Entries' = es
BY FlattenTable DEF Entries

LEMMA TableFacts ==
  ASSUME ObjectInv, pc # "none", NEW k \in Keys
  PROVE  /\ Slot(k) \in 1 .. Len(chain) /\ Hash[k] \in Nat
         /\ Slot(k) \in DOMAIN chain
         /\ Range(chain[Slot(k)]) = {e \in Entries : SlotIn(Len(chain), e.hash) = Slot(k)}
         /\ IsInjective(chain[Slot(k)])
         /\ chain[Slot(k)] \in Seq(EntryRecords)
         /\ Entries \subseteq EntryRecords
<1>1. TableOf(chain, Entries)
  BY DEF ObjectInv
<1>2. chain \in Seq(Seq(EntryRecords)) /\ Len(chain) \in Nat /\ Len(chain) >= 2 /\ DOMAIN chain = 1 .. Len(chain)
  BY <1>1, LenProperties DEF TableOf
<1>3. Hash[k] \in Nat
  BY JsonObjectAssumption
<1>4. Slot(k) \in 1 .. Len(chain)
  BY <1>2, <1>3, SlotInTable DEF Slot, Buckets
<1> QED
  BY <1>1, <1>2, <1>3, <1>4, ElementOfSeq DEF TableOf

(* What is found is an entry of that hash, and if its key is still there   *)
(* it is the key that was searched.                                        *)
LEMMA FoundFacts ==
  ASSUME ObjectInv, pc # "none", NEW k \in Keys, NEW i \in Compared(k)
  PROVE  /\ i \in DOMAIN chain[Slot(k)]
         /\ chain[Slot(k)][i] \in Entries
         /\ chain[Slot(k)][i].hash = Hash[k]
BY TableFacts DEF Compared, Range

(* A key that is there cannot be missed.                                   *)
LEMMA NotMissed ==
  ASSUME ObjectInv, pc # "none", NEW k \in Keys, NEW e \in Entries, text[e.key] = k
  PROVE  ~ CanMiss(k)
<1> DEFINE c == chain[Slot(k)]
<1>1. Live(e)
  BY JsonObjectAssumption DEF Live
<1>2. e.hash = Hash[k]
  BY <1>1 DEF ObjectInv
<1>3. e \in Range(c)
  BY <1>2, TableFacts DEF Slot, Buckets
<1>4. PICK i \in DOMAIN c : c[i] = e
  BY <1>3 DEF Range
<1>5. c \in Seq(EntryRecords) /\ DOMAIN c = 1 .. Len(c) /\ Len(c) \in Nat
  BY TableFacts, LenProperties
<1>6. ASSUME NEW j \in 1 .. i - 1, c[j].hash = Hash[k] PROVE MayDiffer(c[j], k)
  <2>1. j \in DOMAIN c /\ j # i
    BY <1>4, <1>5
  <2>2. c[j] \in Entries /\ c[j] # e
    BY <1>4, <2>1, TableFacts DEF Range, IsInjective
  <2>3. text[e.key] # text[c[j].key]
    BY <1>1, <2>2 DEF ObjectInv
  <2> QED
    BY <2>3 DEF MayDiffer
<1>7. i \in Compared(k)
  BY <1>2, <1>4, <1>6 DEF Compared
<1>8. ~ MayDiffer(c[i], k)
  BY <1>4 DEF MayDiffer
<1> QED
  BY <1>7, <1>8 DEF CanMiss

(* While the object is in use, the strings that are allocated are those of *)
(* the entries.                                                            *)
LEMMA OpenFacts ==
  ASSUME ObjectInv, pc = "open"
  PROVE  /\ next = 1 /\ TableOf(chain, Entries) /\ Entries \subseteq EntryRecords
         /\ \A e \in Entries : Live(e) /\ e.key \in Strings /\ text[e.key] \in Keys
         /\ \A s \in Strings : text[s] # None <=> \E e \in Entries : e.key = s
         /\ \A s \in Strings : text[s] # None <=> s \in Range(order)
         /\ Len(order) \in Nat /\ DOMAIN order = 1 .. Len(order) /\ order \in Seq(Strings)
<1>1. next = 1 /\ order \in Seq(Strings) /\ TableOf(chain, Entries)
  BY DEF ObjectInv, TypeOK
<1>2. Len(order) \in Nat /\ DOMAIN order = 1 .. Len(order)
  BY <1>1, LenProperties
<1>3. \A s \in Strings : text[s] # None <=> s \in Range(order)
  BY <1>1, <1>2 DEF ObjectInv, Range
<1>4. Range(order) = {e.key : e \in Entries}
  BY DEF ObjectInv
<1>5. \A e \in Entries : e \in EntryRecords /\ e.key \in Strings
  BY <1>1 DEF TableOf, EntryRecords
<1> QED
  BY <1>1, <1>2, <1>3, <1>4, <1>5 DEF ObjectInv, TypeOK, Live, TableOf

LEMMA ReplaceHits ==
  ASSUME ObjectInv, pc = "open", NEW k \in Keys, NEW i \in Hits(k)
  PROVE  /\ chain[Slot(k)][i] \in Entries /\ i \in DOMAIN chain[Slot(k)]
         /\ text[chain[Slot(k)][i].key] = k
<1>1. i \in Compared(k) /\ MayEqual(chain[Slot(k)][i], k)
  BY DEF Hits
<1>2. chain[Slot(k)][i] \in Entries /\ i \in DOMAIN chain[Slot(k)]
  BY <1>1, FoundFacts
<1> QED
  BY <1>1, <1>2, OpenFacts DEF MayEqual, Live

-----------------------------------------------------------------------------
(* The object: the steps                                                   *)

(* The entries do not change: the table may have grown.                    *)
LEMMA SameEntriesStep ==
  ASSUME ObjectInv, Entries' = Entries, UNCHANGED <<pc, next, text, order, twins>>,
         pc = "none" => chain' = chain, pc # "none" => TableOf(chain', Entries),
         owner' \in [Values -> {"nobody", "caller", "object"}],
         \A v \in Values : owner'[v] = "object" <=> owner[v] = "object"
  PROVE  ObjectInv' /\ (OwnerInv => OwnerInv')
<1>1. TypeOK'
  BY DEF ObjectInv, TypeOK
<1>2. \A e \in Entries : e.value \in Values
  BY DEF ObjectInv, TypeOK
<1>3. ObjectInv'
  BY <1>1, <1>2 DEF ObjectInv, Live
<1>4. OwnsItsValues => OwnsItsValues'
  BY DEF OwnsItsValues, Live
<1>5. OneHashEach => OneHashEach'
  BY DEF OneHashEach
<1>6. OwnerInv => OwnerInv'
  BY <1>4, <1>5 DEF OwnerInv
<1> QED
  BY <1>3, <1>6

LEMMA CreateStep ==
  ASSUME ObjectInv, Create
  PROVE  ObjectInv' /\ (OwnerInv => OwnerInv')
<1>1. /\ pc = "none" /\ pc' = "open" /\ order' = << >> /\ chain' = [b \in 1 .. InitialBuckets |-> << >>]
      /\ UNCHANGED <<next, text, owner, twins>>
  BY DEF Create
<1>2. TableOf(chain', {})
  BY <1>1, EmptyTable, JsonObjectAssumption
<1>3. Entries' = {}
  BY <1>2, EntriesOf
<1>4. order = << >> /\ next = 1 /\ Len(order) = 0 /\ Range(order) = {} /\ IsInjective(order)
  BY <1>1, EmptySeq DEF ObjectInv, Range, IsInjective
<1>5. Entries = {}
  BY <1>4 DEF ObjectInv
<1>6. TypeOK'
  BY <1>1, <1>3, <1>4, EmptySeq DEF ObjectInv, TypeOK
<1>7. ObjectInv'
  BY <1>1, <1>2, <1>3, <1>4, <1>6 DEF ObjectInv
<1>8. OwnerInv => OwnerInv'
  <2>1. OwnsItsValues => OwnsItsValues'
    BY <1>1, <1>3, <1>5 DEF OwnsItsValues
  <2> QED
    BY <1>1, <2>1 DEF OwnerInv
<1> QED
  BY <1>7, <1>8

LEMMA CreateValueStep ==
  ASSUME ObjectInv, NEW v \in Values, CreateValue(v)
  PROVE  ObjectInv' /\ (OwnerInv => OwnerInv')
<1>1. /\ owner[v] = "nobody" /\ owner' = [owner EXCEPT ![v] = "caller"]
      /\ UNCHANGED <<pc, next, text, chain, order, twins>>
  BY DEF CreateValue
<1>2. Entries' = Entries
  BY <1>1 DEF Entries
<1>3. owner \in [Values -> {"nobody", "caller", "object"}]
  BY DEF ObjectInv, TypeOK
<1>4. owner' \in [Values -> {"nobody", "caller", "object"}] /\ \A w \in Values : owner'[w] = "object" <=> owner[w] = "object"
  BY <1>1, <1>3
<1>5. pc # "none" => TableOf(chain', Entries)
  BY <1>1 DEF ObjectInv
<1> QED
  BY <1>1, <1>2, <1>4, <1>5, SameEntriesStep

LEMMA OrderFailsGrows ==
  ASSUME ObjectInv, NEW k \in Keys, NEW v \in Values, NEW s \in Strings, OrderFails(k, v, s)
  PROVE  chain' = Grown
<1> DEFINE b == SlotIn(Len(Grown), Hash[k])
           e == [key |-> s, hash |-> Hash[k], value |-> v]
<1>1. TableOf(Grown, Entries)
  BY GrownTable DEF OrderFails, ObjectInv
<1>2. e \in EntryRecords /\ Hash[k] \in Nat /\ e.key = s
  BY JsonObjectAssumption DEF EntryRecords, Range
<1>3. Grown \in Seq(Seq(EntryRecords)) /\ Len(Grown) \in Nat /\ Len(Grown) >= 2 /\ DOMAIN Grown = 1 .. Len(Grown)
  BY <1>1, LenProperties DEF TableOf
<1>4. b \in DOMAIN Grown /\ Grown[b] \in Seq(EntryRecords)
  BY <1>2, <1>3, SlotInTable, ElementOfSeq
<1>5. WithEntry(k, v, s) = [Grown EXCEPT ![b] = <<e>> \o @]
  BY DEF WithEntry
<1>6. chain' = [WithEntry(k, v, s) EXCEPT ![b] = Without(@, s)]
  BY DEF OrderFails
<1> HIDE DEF e, b
<1>7. WithEntry(k, v, s)[b] = <<e>> \o Grown[b]
  BY <1>4, <1>5
<1>8. Without(<<e>> \o Grown[b], e.key) = Grown[b]
  BY <1>2, <1>4, Removed
<1>9. Without(<<e>> \o Grown[b], s) = Grown[b]
  BY <1>2, <1>8
<1>10. chain' = [WithEntry(k, v, s) EXCEPT ![b] = Grown[b]]
  BY <1>6, <1>7, <1>9
<1>11. chain' = [Grown EXCEPT ![b] = Grown[b]]
  BY <1>5, <1>10
<1> QED
  BY <1>3, <1>4, <1>11

LEMMA SetFailsStep ==
  ASSUME ObjectInv, NEW k \in Keys, NEW v \in Values,
         AddFails(k, v) \/ \E s \in Strings : OrderFails(k, v, s)
  PROVE  /\ pc = "open" /\ Entries' = Entries /\ UNCHANGED <<pc, next, text, order, owner, twins>>
         /\ ObjectInv' /\ (OwnerInv => OwnerInv')
<1>1. pc = "open" /\ UNCHANGED <<pc, next, text, order, owner, twins>>
  BY DEF AddFails, OrderFails
<1>2. chain' = Grown
  BY OrderFailsGrows DEF AddFails
<1>3. TableOf(chain', Entries)
  BY <1>1, <1>2, GrownTable DEF ObjectInv
<1>4. Entries' = Entries
  BY <1>3, EntriesOf
<1>5. owner' \in [Values -> {"nobody", "caller", "object"}]
  BY <1>1 DEF ObjectInv, TypeOK
<1> QED
  BY <1>1, <1>3, <1>4, <1>5, SameEntriesStep

LEMMA ReplaceFacts ==
  ASSUME ObjectInv, NEW k \in Keys, NEW v \in Values, Replace(k, v)
  PROVE  \E e \in Entries, f \in EntryRecords :
           /\ f.key = e.key /\ f.hash = e.hash /\ f.value = v /\ text[e.key] = k
           /\ TableOf(chain', Entries') /\ Entries' = (Entries \ {e}) \cup {f} /\ f \notin Entries
           /\ owner[v] = "caller" /\ owner' = [owner EXCEPT ![e.value] = "nobody", ![v] = "object"]
<1>1. pc = "open" /\ owner[v] = "caller"
  BY DEF Replace
<1>2. PICK i \in Hits(k) :
        /\ chain' = [chain EXCEPT ![Slot(k)][i].value = v]
        /\ owner' = [owner EXCEPT ![chain[Slot(k)][i].value] = "nobody", ![v] = "object"]
  BY DEF Replace
<1> DEFINE e == chain[Slot(k)][i]
           f == [e EXCEPT !.value = v]
           fs == (Entries \ {e}) \cup {f}
<1>3. e \in Entries /\ i \in DOMAIN chain[Slot(k)] /\ text[e.key] = k
  BY <1>1, ReplaceHits
<1>4. /\ TableOf(chain, Entries) /\ Slot(k) \in 1 .. Len(chain) /\ Entries \subseteq EntryRecords
      /\ \A x \in Entries : owner[x.value] = "object"
  BY <1>1, TableFacts DEF ObjectInv
<1>5. f \in EntryRecords /\ f.key = e.key /\ f.hash = e.hash /\ f.value = v
  BY <1>3, <1>4 DEF EntryRecords
<1>6. f \notin Entries
  BY <1>1, <1>4, <1>5
<1>7. TableOf(chain', fs)
  BY <1>2, <1>3, <1>4, <1>6, ReplaceTable
<1> HIDE DEF f, e
<1>8. Entries' = fs
  BY <1>7, EntriesOf
<1> QED
  BY <1>1, <1>2, <1>3, <1>5, <1>6, <1>7, <1>8 DEF e

LEMMA ObjectReplaceStep ==
  ASSUME ObjectInv, NEW k \in Keys, NEW v \in Values, Replace(k, v)
  PROVE  ObjectInv' /\ (OwnerInv => OwnerInv')
<1>1. /\ pc = "open" /\ owner[v] = "caller" /\ UNCHANGED <<pc, next, text, order, twins>>
  BY DEF Replace
<1>2. PICK e \in Entries, f \in EntryRecords :
           /\ f.key = e.key /\ f.hash = e.hash /\ f.value = v /\ text[e.key] = k
           /\ TableOf(chain', Entries') /\ Entries' = (Entries \ {e}) \cup {f} /\ f \notin Entries
           /\ owner' = [owner EXCEPT ![e.value] = "nobody", ![v] = "object"]
  BY ReplaceFacts
<1>3. /\ Entries \subseteq EntryRecords /\ owner \in [Values -> {"nobody", "caller", "object"}]
      /\ \A x \in Entries : owner[x.value] = "object" /\ x.value \in Values
      /\ \A x, y \in Entries : x.key = y.key => x = y
      /\ \A x, y \in Entries : x.value = y.value => x = y
  <2>1. Entries \subseteq EntryRecords /\ owner \in [Values -> {"nobody", "caller", "object"}]
    BY DEF ObjectInv, TypeOK, EntryRecords
  <2>2. \A x \in Entries : x.value \in Values
    BY <2>1 DEF EntryRecords
  <2> QED
    BY <1>1, <2>1, <2>2 DEF ObjectInv
<1>4. ASSUME NEW x \in Entries'
      PROVE  \/ x \in Entries /\ x # e /\ x.key # f.key /\ x.value # v /\ x.value # e.value
             \/ x = f
  <2>1. CASE x = f
    BY <2>1
  <2>2. CASE x # f
    <3>1. x \in Entries /\ x # e
      BY <1>2, <2>2
    <3> QED
      BY <1>1, <1>2, <1>3, <3>1
  <2> QED
    BY <2>1, <2>2
<1>5. \A w \in Values : owner'[w] = IF w = v THEN "object" ELSE IF w = e.value THEN "nobody" ELSE owner[w]
  BY <1>2, <1>3
<1>6. TypeOK'
  <2>1. Entries' \subseteq EntryRecords
    BY <1>2, <1>3
  <2>2. owner' \in [Values -> {"nobody", "caller", "object"}]
    BY <1>2, <1>3
  <2> QED
    BY <1>1, <2>1, <2>2 DEF ObjectInv, TypeOK, EntryRecords
<1>7. {x.key : x \in Entries'} = {x.key : x \in Entries}
  <2>1. \A s : (\E x \in Entries' : x.key = s) <=> (\E x \in Entries : x.key = s)
    <3>1. f \in Entries' /\ \A x \in Entries : x = e \/ x \in Entries'
      BY <1>2
    <3> QED
      BY <1>2, <1>4, <3>1
  <2> QED
    BY <2>1
<1>8. IsInjective(order') /\ Range(order') = {x.key : x \in Entries'}
  BY <1>1, <1>7 DEF ObjectInv
<1>9. \A x, y \in Entries' : x.key = y.key => x = y
  BY <1>3, <1>4
<1>10. \A x, y \in Entries' : x.value = y.value => x = y
  BY <1>2, <1>3, <1>4
<1>11. \A x \in Entries' : \E y \in Entries : y.key = x.key /\ y.hash = x.hash /\ (x # f => y = x) /\ (x = f => y = e)
  BY <1>2, <1>4
<1>12. \A x \in Entries' : Live(x)' => x.hash = Hash[text'[x.key]]
  BY <1>1, <1>11 DEF ObjectInv, Live
<1>13. \A x, y \in Entries' : Live(x)' /\ text'[x.key] = text'[y.key] => x = y
  BY <1>1, <1>9, <1>11 DEF ObjectInv, Live
<1>14. \A x \in Entries' : owner'[x.value] = "object"
  BY <1>2, <1>3, <1>4, <1>5
<1>15. ObjectInv'
  <2>1. \A s \in Strings : text'[s] # None <=> \E i \in next' .. Len(order') : order'[i] = s
    BY <1>1 DEF ObjectInv
  <2> QED
    BY <1>1, <1>2, <1>6, <1>8, <1>9, <1>10, <1>12, <1>13, <1>14, <2>1 DEF ObjectInv
<1>16. OwnsItsValues => OwnsItsValues'
  <2> SUFFICES ASSUME OwnsItsValues PROVE OwnsItsValues'
    OBVIOUS
  <2>2. \A x \in Entries' : Live(x)'
    <3>1. \A x \in Entries : Live(x)
      BY <1>1, OpenFacts
    <3> QED
      BY <1>1, <1>11, <3>1 DEF Live
  <2>3. ASSUME NEW w \in Values, owner'[w] = "object" PROVE \E x \in Entries' : x.value = w
    <3>1. CASE w = v
      BY <1>2, <3>1
    <3>2. CASE w # v
      <4>1. owner[w] = "object" /\ w # e.value
        BY <1>5, <2>3, <3>2
      <4>2. PICK x \in Entries : x.value = w
        BY <4>1 DEF OwnsItsValues
      <4> QED
        BY <1>2, <4>1, <4>2
    <3> QED
      BY <3>1, <3>2
  <2> QED
    BY <1>14, <2>2, <2>3 DEF OwnsItsValues
<1>17. OwnerInv => OwnerInv'
  BY <1>1, <1>16 DEF OwnerInv
<1> QED
  BY <1>15, <1>17

LEMMA AddFacts ==
  ASSUME ObjectInv, NEW k \in Keys, NEW v \in Values, NEW s \in Strings, Add(k, v, s)
  PROVE  \E e \in EntryRecords \ Entries :
           /\ e.key = s /\ e.hash = Hash[k] /\ e.value = v
           /\ TableOf(chain', Entries') /\ Entries' = Entries \cup {e}
           /\ \A x \in Entries : x.key # s /\ text[x.key] # k /\ x.value # v
<1>1. /\ pc = "open" /\ owner[v] = "caller" /\ CanMiss(k) /\ text[s] = None /\ chain' = WithEntry(k, v, s)
  BY DEF Add
<1> DEFINE e == [key |-> s, hash |-> Hash[k], value |-> v]
<1>2. TableOf(Grown, Entries)
  BY <1>1, GrownTable DEF ObjectInv
<1>3. e \in EntryRecords /\ e.key = s /\ e.hash = Hash[k] /\ e.value = v
  BY JsonObjectAssumption DEF EntryRecords, Range
<1>4. \A x \in Entries : x.key # s /\ x.value # v
  BY <1>1, OpenFacts DEF Live, ObjectInv
<1>5. \A x \in Entries : text[x.key] # k
  BY <1>1, NotMissed
<1>6. chain' = [Grown EXCEPT ![SlotIn(Len(Grown), e.hash)] = <<e>> \o @]
  BY <1>1 DEF WithEntry
<1> HIDE DEF e
<1>7. e \in EntryRecords \ Entries
  BY <1>3, <1>4
<1>8. TableOf(chain', Entries \cup {e})
  BY <1>2, <1>6, <1>7, InsertTable
<1>9. Entries' = Entries \cup {e}
  BY <1>8, EntriesOf
<1> QED
  BY <1>3, <1>4, <1>5, <1>7, <1>8, <1>9

LEMMA AddStep ==
  ASSUME ObjectInv, NEW k \in Keys, NEW v \in Values, NEW s \in Strings, Add(k, v, s)
  PROVE  ObjectInv' /\ (OwnerInv => OwnerInv')
<1>1. /\ pc = "open" /\ owner[v] = "caller" /\ text[s] = None
      /\ text' = [text EXCEPT ![s] = k] /\ order' = Append(order, s) /\ owner' = [owner EXCEPT ![v] = "object"]
      /\ UNCHANGED <<pc, next, twins>>
  BY DEF Add
<1>2. PICK e \in EntryRecords \ Entries :
           /\ e.key = s /\ e.hash = Hash[k] /\ e.value = v
           /\ TableOf(chain', Entries') /\ Entries' = Entries \cup {e}
           /\ \A x \in Entries : x.key # s /\ text[x.key] # k /\ x.value # v
  BY AddFacts
<1> DEFINE l == Len(order)
<1>3. /\ next = 1 /\ Entries \subseteq EntryRecords /\ l \in Nat /\ DOMAIN order = 1 .. l /\ order \in Seq(Strings)
      /\ \A x \in Entries : Live(x) /\ x.key \in Strings /\ text[x.key] \in Keys
      /\ \A t \in Strings : text[t] # None <=> t \in Range(order)
  BY <1>1, OpenFacts
<1>4. /\ order' \in Seq(Strings) /\ Len(order') = l + 1 /\ DOMAIN order' = 1 .. l + 1
      /\ \A i \in 1 .. l : order'[i] = order[i]
      /\ order'[l + 1] = s
  BY <1>1, <1>3, AppendProperties, LenProperties
<1> HIDE DEF l
<1>5. /\ text \in [Strings -> Keys \cup {None}] /\ owner \in [Values -> {"nobody", "caller", "object"}]
      /\ k # None
  BY JsonObjectAssumption DEF ObjectInv, TypeOK
<1>6. \A t \in Strings : text'[t] = IF t = s THEN k ELSE text[t]
  BY <1>1, <1>5
<1>7. TypeOK'
  <2>1. Entries' \subseteq EntryRecords
    BY <1>2, <1>3
  <2>2. next' \in 1 .. Len(order') + 1
    BY <1>1, <1>3, <1>4
  <2>3. text' \in [Strings -> Keys \cup {None}] /\ owner' \in [Values -> {"nobody", "caller", "object"}]
    BY <1>1, <1>5
  <2> QED
    BY <1>1, <1>4, <2>1, <2>2, <2>3 DEF ObjectInv, TypeOK, EntryRecords
<1>8. ASSUME NEW i \in 1 .. l + 1
      PROVE  (i \in 1 .. l /\ order'[i] = order[i] /\ order'[i] \in Range(order)) \/ (i = l + 1 /\ order'[i] = s)
  <2>1. CASE i = l + 1
    BY <1>4, <2>1
  <2>2. CASE i # l + 1
    <3>1. i \in 1 .. l
      BY <1>3, <2>2
    <3> QED
      BY <1>3, <1>4, <3>1 DEF Range
  <2> QED
    BY <2>1, <2>2
<1>9. s \notin Range(order)
  BY <1>1, <1>3
<1>10. IsInjective(order')
  <2> SUFFICES ASSUME NEW i \in 1 .. l + 1, NEW j \in 1 .. l + 1, order'[i] = order'[j] PROVE i = j
    BY <1>4 DEF IsInjective
  <2>1. IsInjective(order)
    BY DEF ObjectInv
  <2> QED
    BY <1>3, <1>8, <1>9, <2>1 DEF IsInjective
<1>11. Range(order') = Range(order) \cup {s}
  <2>1. \A i \in 1 .. l : i \in 1 .. l + 1
    BY <1>3
  <2>2. l + 1 \in 1 .. l + 1
    BY <1>3
  <2>3. Range(order) = {order[i] : i \in 1 .. l} /\ Range(order') = {order'[i] : i \in 1 .. l + 1}
    BY <1>3, <1>4 DEF Range
  <2> QED
    BY <1>4, <1>8, <2>1, <2>2, <2>3
<1>12. Range(order') = {x.key : x \in Entries'}
  <2>1. Range(order) = {x.key : x \in Entries}
    BY DEF ObjectInv
  <2>2. {x.key : x \in Entries'} = {x.key : x \in Entries} \cup {s}
    BY <1>2
  <2> QED
    BY <1>11, <2>1, <2>2
<1>13. ASSUME NEW t \in Strings PROVE text'[t] # None <=> \E i \in next' .. Len(order') : order'[i] = t
  <2>1. text'[t] # None <=> t \in Range(order')
    BY <1>3, <1>5, <1>6, <1>11
  <2>2. Range(order') = {order'[i] : i \in next' .. Len(order')}
    BY <1>1, <1>3, <1>4 DEF Range
  <2> QED
    BY <2>1, <2>2
<1>14. \A x \in Entries' : (x \in Entries /\ x # e /\ text'[x.key] = text[x.key]) \/ (x = e /\ text'[x.key] = k)
  BY <1>2, <1>3, <1>6
<1>15. \A x, y \in Entries' : x.key = y.key => x = y
  BY <1>2, <1>14 DEF ObjectInv
<1>16. \A x, y \in Entries' : x.value = y.value => x = y
  BY <1>2, <1>14 DEF ObjectInv
<1>17. \A x \in Entries' : Live(x)' /\ x.hash = Hash[text'[x.key]]
  BY <1>2, <1>3, <1>5, <1>14 DEF ObjectInv, Live
<1>18. \A x, y \in Entries' : text'[x.key] = text'[y.key] => x = y
  BY <1>2, <1>3, <1>14 DEF ObjectInv
<1>19. \A w \in Values : owner'[w] = IF w = v THEN "object" ELSE owner[w]
  BY <1>1, <1>5
<1>20. \A x \in Entries' : owner'[x.value] = "object" /\ x.value \in Values
  <2>1. \A x \in Entries : owner[x.value] = "object" /\ x.value \in Values
    BY <1>1 DEF ObjectInv, TypeOK
  <2> QED
    BY <1>2, <1>14, <1>19, <2>1
<1>21. ObjectInv'
  BY <1>1, <1>2, <1>3, <1>7, <1>10, <1>12, <1>13, <1>15, <1>16, <1>17, <1>18, <1>20 DEF ObjectInv
<1>22. OwnsItsValues => OwnsItsValues'
  <2> SUFFICES ASSUME OwnsItsValues PROVE OwnsItsValues'
    OBVIOUS
  <2>1. ASSUME NEW w \in Values, owner'[w] = "object" PROVE \E x \in Entries' : x.value = w
    BY <1>2, <1>19, <2>1 DEF OwnsItsValues
  <2> QED
    BY <1>17, <1>20, <2>1 DEF OwnsItsValues
<1>23. OwnerInv => OwnerInv'
  BY <1>1, <1>22 DEF OwnerInv
<1> QED
  BY <1>21, <1>23

LEMMA DestroyKeyFacts ==
  ASSUME ObjectInv, DestroyKey
  PROVE  /\ pc = "destroying" /\ next \in 1 .. Len(order) /\ order[next] \in Strings
         /\ text[order[next]] \in Keys
         /\ \E e \in Entries : e.key = order[next] /\ text[e.key] = text[order[next]]
<1>1. pc = "destroying" /\ next <= Len(order)
  BY DEF DestroyKey
<1>2. order \in Seq(Strings) /\ next \in 1 .. Len(order) + 1
  BY DEF ObjectInv, TypeOK
<1>3. Len(order) \in Nat /\ DOMAIN order = 1 .. Len(order) /\ \A i \in 1 .. Len(order) : order[i] \in Strings
  BY <1>2, LenProperties, ElementOfSeq
<1>4. next \in 1 .. Len(order) /\ next \in next .. Len(order) /\ order[next] \in Strings
  BY <1>1, <1>2, <1>3
<1>5. text[order[next]] # None
  BY <1>4 DEF ObjectInv
<1>6. text[order[next]] \in Keys
  BY <1>4, <1>5 DEF ObjectInv, TypeOK
<1>7. order[next] \in {e.key : e \in Entries}
  BY <1>3, <1>4 DEF ObjectInv, Range
<1> QED
  BY <1>1, <1>4, <1>6, <1>7

LEMMA DestroyKeyStep ==
  ASSUME ObjectInv, DestroyKey
  PROVE  ObjectInv' /\ (OwnerInv => OwnerInv')
<1> DEFINE s == order[next]
           k == text[s]
<1>1. /\ pc = "destroying" /\ next \in 1 .. Len(order) /\ s \in Strings /\ k \in Keys
  BY DestroyKeyFacts
<1>2. PICK e \in Entries : e.key = s /\ text[e.key] = k
  BY DestroyKeyFacts
<1>3. /\ text' = [text EXCEPT ![s] = None] /\ next' = next + 1 /\ UNCHANGED <<pc, chain, order, twins>>
  BY DEF DestroyKey
<1>4. ~ CanMiss(k)
  BY <1>1, <1>2, NotMissed
<1>5. PICK i \in Hits(k) : owner' = [owner EXCEPT ![chain[Slot(k)][i].value] = "nobody"]
  BY <1>4 DEF DestroyKey
<1> DEFINE x == chain[Slot(k)][i]
<1>6. x \in Entries /\ x.hash = Hash[k]
  BY <1>1, FoundFacts DEF Hits
<1>7. /\ text \in [Strings -> Keys \cup {None}] /\ owner \in [Values -> {"nobody", "caller", "object"}]
      /\ order \in Seq(Strings) /\ Entries \subseteq EntryRecords /\ Len(order) \in Nat /\ DOMAIN order = 1 .. Len(order)
      /\ None \notin Keys
  <2>1. order \in Seq(Strings)
    BY DEF ObjectInv, TypeOK
  <2> QED
    BY <2>1, LenProperties, JsonObjectAssumption DEF ObjectInv, TypeOK, EntryRecords
<1>8. Entries' = Entries
  BY <1>3 DEF Entries
<1> HIDE DEF s, k, x
<1>9. \A t \in Strings : text'[t] = IF t = s THEN None ELSE text[t]
  BY <1>3, <1>7
<1>10. TypeOK'
  <2>1. next' \in 1 .. Len(order') + 1
    BY <1>1, <1>3, <1>7
  <2>2. text' \in [Strings -> Keys \cup {None}]
    BY <1>3, <1>7
  <2>3. owner' \in [Values -> {"nobody", "caller", "object"}]
    BY <1>5, <1>7
  <2> QED
    BY <1>3, <1>7, <1>8, <2>1, <2>2, <2>3 DEF TypeOK, ObjectInv
<1>11. ASSUME NEW t \in Strings
       PROVE  text'[t] # None <=> \E j \in next' .. Len(order') : order'[j] = t
  <2>1. text[t] # None <=> \E j \in next .. Len(order) : order[j] = t
    BY DEF ObjectInv
  <2>2. \A j \in next .. Len(order) : order[j] = s <=> j = next
    BY <1>1, <1>7 DEF ObjectInv, IsInjective, s
  <2>3. \A j \in next .. Len(order) : j = next \/ j \in next + 1 .. Len(order)
    BY <1>1, <1>7
  <2>4. \A j \in next + 1 .. Len(order) : j \in next .. Len(order) /\ j # next
    BY <1>1, <1>7
  <2>5. (t # s /\ \E j \in next .. Len(order) : order[j] = t) <=> \E j \in next + 1 .. Len(order) : order[j] = t
    <3>1. order[next] = s
      BY DEF s
    <3> QED
      BY <2>2, <2>3, <2>4, <3>1
  <2> QED
    BY <1>3, <1>9, <2>1, <2>5
<1>12. \A y \in Entries : y.key \in Strings /\ (Live(y)' <=> Live(y) /\ y.key # s)
  BY <1>7, <1>9 DEF EntryRecords, Live
<1>13. \A y \in Entries : Live(y)' => text'[y.key] = text[y.key]
  BY <1>9, <1>12
<1>14. \A y \in Entries : Live(y)' => y.hash = Hash[text'[y.key]]
  BY <1>12, <1>13 DEF ObjectInv
<1>15. ASSUME NEW y \in Entries, NEW z \in Entries, Live(y)', text'[y.key] = text'[z.key]
       PROVE  y = z
  <2>1. Live(z)'
    BY <1>15 DEF Live
  <2> QED
    BY <1>12, <1>13, <1>15, <2>1 DEF ObjectInv
<1>16. ObjectInv'
  BY <1>1, <1>3, <1>8, <1>10, <1>11, <1>14, <1>15 DEF ObjectInv
<1>17. OneHashEach /\ OwnsItsValues => OwnsItsValues'
  <2> SUFFICES ASSUME OneHashEach, OwnsItsValues PROVE OwnsItsValues'
    OBVIOUS
  <2>1. Live(e) /\ e.hash = Hash[k]
    BY <1>1, <1>2, <1>7 DEF Live, ObjectInv
  <2>2. x = e
    BY <1>6, <2>1 DEF OneHashEach
  <2>3. \A w \in Values : owner'[w] = IF w = e.value THEN "nobody" ELSE owner[w]
    BY <1>5, <1>7, <2>2 DEF x
  <2>4. \A y \in Entries : y.key = s => y = e
    BY <1>2 DEF ObjectInv
  <2>5. \A y \in Entries : y.value = e.value => y = e
    BY DEF ObjectInv
  <2>6. \A w \in Values : owner'[w] = "object" <=> \E y \in Entries : y.value = w /\ Live(y)'
    BY <1>2, <1>12, <2>3, <2>4, <2>5 DEF OwnsItsValues
  <2> QED
    BY <1>8, <2>6 DEF OwnsItsValues
<1>18. OneHashEach' <=> OneHashEach
  BY <1>8 DEF OneHashEach
<1>19. OwnerInv => OwnerInv'
  BY <1>1, <1>3, <1>17, <1>18 DEF OwnerInv
<1> QED
  BY <1>16, <1>19

LEMMA DestroyEndStep ==
  ASSUME ObjectInv, DestroyEnd
  PROVE  ObjectInv' /\ (OwnerInv => OwnerInv')
<1>1. /\ pc = "destroying" /\ next > Len(order)
      /\ pc' = "none" /\ chain' = << >> /\ order' = << >> /\ next' = 1 /\ UNCHANGED <<text, owner, twins>>
  BY DEF DestroyEnd
<1>2. Len(order) \in Nat /\ next \in Nat
  BY LenProperties DEF ObjectInv, TypeOK
<1>3. \A s \in Strings : text[s] = None
  BY <1>1, <1>2 DEF ObjectInv
<1>4. Len(<< >>) = 0 /\ Range(<< >>) = {} /\ IsInjective(<< >>) /\ << >> \in Seq(Strings)
  BY EmptySeq DEF Range, IsInjective
<1>5. Entries' = {}
  BY <1>1, <1>4 DEF Entries, FlattenSeq
<1>6. TypeOK'
  BY <1>1, <1>4, <1>5 DEF ObjectInv, TypeOK
<1>7. ObjectInv'
  BY <1>1, <1>3, <1>4, <1>5, <1>6 DEF ObjectInv
<1>8. OwnerInv => OwnerInv'
  <2>1. \A e \in Entries : e.key \in Strings
    BY DEF ObjectInv, TypeOK
  <2>2. OwnsItsValues => OwnsItsValues'
    BY <1>1, <1>3, <1>5, <2>1 DEF OwnsItsValues, Live
  <2> QED
    BY <1>1, <2>2 DEF OwnerInv
<1> QED
  BY <1>7, <1>8

LEMMA DestroyStart ==
  ASSUME ObjectInv, Destroy
  PROVE  ObjectInv' /\ (OwnerInv => OwnerInv')
<1>1. pc = "open" /\ pc' = "destroying" /\ next' = 1 /\ next = 1 /\ UNCHANGED <<text, chain, order, owner>>
  BY DEF Destroy, ObjectInv
<1>2. Entries' = Entries
  BY <1>1 DEF Entries
<1>3. ObjectInv'
  <2>1. twins' \in BOOLEAN
    <3>1. twins \in BOOLEAN /\ twins' = IF SomeHashTwice THEN TRUE ELSE twins
      BY DEF ObjectInv, TypeOK, Destroy
    <3> QED
      BY <3>1, Zenon
  <2>2. TypeOK'
    BY <1>1, <1>2, <2>1 DEF ObjectInv, TypeOK
  <2> QED
    BY <1>1, <1>2, <2>2 DEF ObjectInv, Live
<1>4. OwnsItsValues => OwnsItsValues'
  BY <1>1, <1>2 DEF OwnsItsValues, Live
<1>5. ~twins' => ~twins /\ OneHashEach'
  <2>1. twins' = IF SomeHashTwice THEN TRUE ELSE twins
    BY DEF Destroy
  <2>2. ~SomeHashTwice => OneHashEach'
    BY <1>2 DEF SomeHashTwice, OneHashEach
  <2> QED
    BY <2>1, <2>2
<1>6. OwnerInv => OwnerInv'
  BY <1>4, <1>5 DEF OwnerInv
<1> QED
  BY <1>3, <1>6

LEMMA StutterStep ==
  ASSUME ObjectInv, UNCHANGED vars
  PROVE  ObjectInv' /\ (OwnerInv => OwnerInv') /\ Entries' = Entries
<1>1. Entries' = Entries
  BY DEF Entries, vars
<1>2. ObjectInv'
  BY <1>1 DEF ObjectInv, TypeOK, Live, vars
<1>3. OwnerInv => OwnerInv'
  <2>1. OwnsItsValues => OwnsItsValues'
    BY <1>1 DEF OwnsItsValues, Live, vars
  <2>2. OneHashEach => OneHashEach'
    BY <1>1 DEF OneHashEach
  <2> QED
    BY <2>1, <2>2 DEF OwnerInv, vars
<1> QED
  BY <1>1, <1>2, <1>3

LEMMA ObjectInitInv ==
  Init => ObjectInv /\ OwnerInv
<1> SUFFICES ASSUME Init PROVE ObjectInv /\ OwnerInv
  OBVIOUS
<1>1. Len(<< >>) = 0 /\ Range(<< >>) = {} /\ IsInjective(<< >>) /\ << >> \in Seq(Strings)
  BY EmptySeq DEF Range, IsInjective
<1>2. /\ pc = "none" /\ next = 1 /\ chain = << >> /\ order = << >>
      /\ \A s \in Strings : text[s] = None
      /\ \A v \in Values : owner[v] # "object"
  BY DEF Init
<1>3. Entries = {}
  BY <1>1, <1>2 DEF Entries, FlattenSeq
<1>4. TypeOK
  <2>1. twins \in BOOLEAN
    BY Zenon DEF Init
  <2>2. text \in [Strings -> Keys \cup {None}] /\ owner \in [Values -> {"nobody", "caller", "object"}]
    BY DEF Init
  <2> QED
    BY <1>1, <1>2, <1>3, <2>1, <2>2 DEF TypeOK
<1> QED
  BY <1>1, <1>2, <1>3, <1>4 DEF ObjectInv, OwnerInv, OwnsItsValues

LEMMA ObjectNextInv ==
  ObjectInv /\ [Next]_vars => ObjectInv' /\ (OwnerInv => OwnerInv')
<1> SUFFICES ASSUME ObjectInv, [Next]_vars PROVE ObjectInv' /\ (OwnerInv => OwnerInv')
  OBVIOUS
<1>1. CASE Create
  BY <1>1, CreateStep
<1>2. CASE Destroy
  BY <1>2, DestroyStart
<1>3. CASE DestroyKey
  BY <1>3, DestroyKeyStep
<1>4. CASE DestroyEnd
  BY <1>4, DestroyEndStep
<1>5. CASE UNCHANGED vars
  BY <1>5, StutterStep
<1>6. ASSUME NEW v \in Values, CreateValue(v)
      PROVE  ObjectInv' /\ (OwnerInv => OwnerInv')
  BY <1>6, CreateValueStep
<1>7. ASSUME NEW v \in Values, NEW k \in Keys,
             \/ Replace(k, v) \/ AddFails(k, v)
             \/ \E s \in Strings : Add(k, v, s) \/ OrderFails(k, v, s)
      PROVE  ObjectInv' /\ (OwnerInv => OwnerInv')
  <2>1. CASE Replace(k, v)
    BY <2>1, ObjectReplaceStep
  <2>2. CASE \E s \in Strings : Add(k, v, s)
    BY <2>2, AddStep
  <2>3. CASE AddFails(k, v) \/ \E s \in Strings : OrderFails(k, v, s)
    BY <2>3, SetFailsStep
  <2> QED
    BY <1>7, <2>1, <2>2, <2>3
<1> QED
  BY <1>1, <1>2, <1>3, <1>4, <1>5, <1>6, <1>7 DEF Next

-----------------------------------------------------------------------------
(* The object: what follows                                                *)

LEMMA ObjectAlwaysInv ==
  Spec => []ObjectInv
BY ObjectInitInv, ObjectNextInv, PTL DEF Spec

LEMMA OwnerAlwaysInv ==
  Spec => [](ObjectInv /\ OwnerInv)
<1>1. Init => ObjectInv /\ OwnerInv
  BY ObjectInitInv
<1>2. ObjectInv /\ OwnerInv /\ [Next]_vars => (ObjectInv /\ OwnerInv)'
  BY ObjectNextInv
<1> QED
  BY <1>1, <1>2, PTL DEF Spec

(* The parts of an object hold what they should, entries, strings and      *)
(* values, and the loop of destroy stays within the list of the keys.      *)
THEOREM ObjectTypes ==
  Spec => []TypeOK
<1>1. ObjectInv => TypeOK
  BY DEF ObjectInv
<1> QED
  BY <1>1, ObjectAlwaysInv, PTL

LEMMA CountInv ==
  ASSUME ObjectInv, pc = "open"
  PROVE  Len(order) = Count
<1> DEFINE en == FlattenSeq(chain)
           n == Len(en)
           at1(i) == CHOOSE j \in 1 .. Len(order) : order[j] = en[i].key
           g == [i \in 1 .. n |-> at1(i)]
<1>1. TableOf(chain, Entries) /\ Len(order) \in Nat /\ DOMAIN order = 1 .. Len(order)
  BY OpenFacts
<1>2. en \in Seq(EntryRecords) /\ Range(en) = Entries /\ IsInjective(en)
  BY <1>1, FlattenTable
<1>3. n \in Nat /\ DOMAIN en = 1 .. n
  BY <1>2, LenProperties
<1>4. Range(order) = {e.key : e \in Entries} /\ IsInjective(order) /\ \A e, f \in Entries : e.key = f.key => e = f
  BY DEF ObjectInv
<1> HIDE DEF en, n
<1>5. ASSUME NEW i \in 1 .. n
      PROVE  g[i] \in 1 .. Len(order) /\ order[g[i]] = en[i].key
  <2>1. en[i].key \in Range(order)
    <3>1. en[i] \in Entries
      BY <1>2, <1>3 DEF Range
    <3> QED
      BY <1>4, <3>1
  <2>2. \E j \in 1 .. Len(order) : order[j] = en[i].key
    BY <1>1, <2>1 DEF Range
  <2> QED
    BY <2>2
<1>6. g \in [1 .. n -> 1 .. Len(order)]
  BY <1>5
<1> HIDE DEF g
<1>7. g \in Bijection(1 .. n, 1 .. Len(order))
  <2>1. ASSUME NEW i \in 1 .. n, NEW j \in 1 .. n, g[i] = g[j] PROVE i = j
    <3>1. en[i].key = en[j].key /\ en[i] \in Entries /\ en[j] \in Entries
      BY <1>2, <1>3, <1>5, <2>1 DEF Range
    <3> QED
      BY <1>2, <1>3, <1>4, <3>1 DEF IsInjective
  <2>2. ASSUME NEW j \in 1 .. Len(order) PROVE \E i \in 1 .. n : g[i] = j
    <3>1. order[j] \in Range(order)
      BY <1>1 DEF Range
    <3>2. PICK e \in Entries : e.key = order[j]
      BY <1>4, <3>1
    <3>3. PICK i \in 1 .. n : en[i] = e
      BY <1>2, <1>3, <3>2 DEF Range
    <3>4. order[g[i]] = order[j] /\ g[i] \in 1 .. Len(order)
      BY <1>5, <3>2, <3>3
    <3> QED
      BY <1>1, <1>4, <3>4 DEF IsInjective
  <2>3. g \in Injection(1 .. n, 1 .. Len(order))
    BY <1>6, <2>1 DEF Injection, IsInjective
  <2>4. g \in Surjection(1 .. n, 1 .. Len(order))
    BY <1>6, <2>2 DEF Surjection
  <2> QED
    BY <2>3, <2>4 DEF Bijection
<1>8. ASSUME NEW m \in Nat PROVE IsFiniteSet(1 .. m) /\ Cardinality(1 .. m) = m
  <2>1. 1 \in Int /\ m \in Int
    OBVIOUS
  <2>2. IsFiniteSet(1 .. m) /\ Cardinality(1 .. m) = IF 1 > m THEN 0 ELSE m - 1 + 1
    BY <2>1, FS_Interval
  <2> QED
    BY <2>2
<1>9. Cardinality(1 .. n) = Cardinality(1 .. Len(order))
  BY <1>3, <1>7, <1>8, FS_Bijection DEF ExistsBijection
<1> QED
  BY <1>1, <1>3, <1>8, <1>9 DEF Count, en, n

(* Whatever the hashes, while an object is in use the map and the list     *)
(* have the same keys, each string allocated and each key once, and every  *)
(* value in the map is the object's, in one entry.                         *)
IndexAgrees ==
  pc = "open" =>
    /\ {e.key : e \in Entries} = Range(order) /\ IsInjective(order)
    /\ IsInjective(KeyOrder) /\ None \notin Range(KeyOrder)
    /\ Len(order) = Count
    /\ \A e, f \in Entries : e.value = f.value => e = f
    /\ {e.value : e \in Entries} \subseteq {v \in Values : owner[v] = "object"}

LEMMA IndexInv ==
  ObjectInv => IndexAgrees
<1> SUFFICES ASSUME ObjectInv, pc = "open"
             PROVE  /\ {e.key : e \in Entries} = Range(order) /\ IsInjective(order)
                    /\ IsInjective(KeyOrder) /\ None \notin Range(KeyOrder)
                    /\ Len(order) = Count
                    /\ \A e, f \in Entries : e.value = f.value => e = f
                    /\ {e.value : e \in Entries} \subseteq {v \in Values : owner[v] = "object"}
  BY DEF IndexAgrees
<1>1. /\ \A e \in Entries : Live(e) /\ e.key \in Strings /\ text[e.key] \in Keys
      /\ Entries \subseteq EntryRecords
  BY OpenFacts
<1>2. \A i \in DOMAIN order : \E e \in Entries : e.key = order[i]
  <2>1. Range(order) = {e.key : e \in Entries}
    BY DEF ObjectInv
  <2> QED
    BY <2>1 DEF Range
<1>3. \A e \in Entries : e.value \in Values
  BY <1>1 DEF EntryRecords
<1>4. None \notin Range(KeyOrder)
  BY <1>1, <1>2, JsonObjectAssumption DEF KeyOrder, Range
<1>5. IsInjective(KeyOrder)
  <2> SUFFICES ASSUME NEW i \in DOMAIN order, NEW j \in DOMAIN order, text[order[i]] = text[order[j]]
               PROVE  i = j
    BY DEF IsInjective, KeyOrder
  <2>1. order[i] = order[j]
    BY <1>1, <1>2 DEF ObjectInv
  <2> QED
    BY <2>1 DEF ObjectInv, IsInjective
<1> QED
  BY <1>3, <1>4, <1>5, CountInv DEF ObjectInv

(* Whatever the hashes and whichever allocation fails, what is listed can  *)
(* be found and what is found is listed, once, and no two keys share a     *)
(* value.                                                                  *)
THEOREM ObjectIndex ==
  Spec => []IndexAgrees
BY ObjectAlwaysInv, IndexInv, PTL

(* Whatever the hashes, the parts of an object agree as the run checks it, *)
(* up to the last string that destroy frees; up to the last value too,     *)
(* until an object with two keys of one hash is destroyed.                 *)
THEOREM ObjectParts ==
  Spec => []PartsAgree
<1>1. ObjectInv /\ OwnerInv => PartsAgree
  <2> SUFFICES ASSUME ObjectInv, OwnerInv PROVE PartsAgree
    OBVIOUS
  <2> DEFINE owned == {v \in Values : owner[v] = "object"}
             used == {e.value : e \in Entries}
  <2>1. CASE pc = "open"
    <3>1. ~twins => owned = used
      <4>1. \A e \in Entries : Live(e) /\ e.value \in Values
        BY <2>1, OpenFacts DEF EntryRecords
      <4> QED
        BY <4>1 DEF OwnerInv, OwnsItsValues
    <3>2. IndexAgrees
      BY IndexInv
    <3> QED
      BY <2>1, <3>1, <3>2 DEF PartsAgree, IndexAgrees
  <2>2. CASE pc = "none"
    <3>1. order = << >> /\ Range(<< >>) = {} /\ Len(<< >>) = 0 /\ next = 1
      BY <2>2, EmptySeq DEF ObjectInv, Range
    <3>2. Entries = {}
      BY <3>1 DEF ObjectInv
    <3>3. \A s \in Strings : text[s] = None
      BY <3>1 DEF ObjectInv
    <3>4. ~twins => owned = used
      BY <3>2 DEF OwnerInv, OwnsItsValues
    <3> QED
      BY <2>2, <3>3, <3>4 DEF PartsAgree
  <2>3. CASE pc # "open" /\ pc # "none"
    <3>1. pc = "destroying"
      BY <2>3 DEF ObjectInv, TypeOK
    <3> QED
      BY <3>1 DEF PartsAgree
  <2> QED
    BY <2>1, <2>2, <2>3
<1> QED
  BY <1>1, OwnerAlwaysInv, PTL

(* Where a search can come upon a freed key string, whatever the hashes:   *)
(* never in an object that is in use, and in destroy only on the chain of  *)
(* two keys of one hash.                                                   *)
THEOREM ObjectSearches ==
  Spec => [](pc = "open" \/ ~twins => ComparesLiveKeys)
<1>1. ObjectInv /\ OwnerInv => (pc = "open" \/ ~twins => ComparesLiveKeys)
  <2> SUFFICES ASSUME ObjectInv, OwnerInv, pc = "open" \/ ~twins PROVE ComparesLiveKeys
    OBVIOUS
  <2>1. CASE pc = "open"
    <3>1. \A k \in Keys : \A i \in Compared(k) : chain[Slot(k)][i] \in Entries
      BY <2>1, FoundFacts
    <3>2. \A e \in Entries : Live(e)
      BY <2>1, OpenFacts
    <3> QED
      BY <2>1, <3>1, <3>2 DEF ComparesLiveKeys, Live
  <2>2. CASE pc # "open" /\ next \in DOMAIN order
    <3>1. Len(order) \in Nat /\ DOMAIN order = 1 .. Len(order) /\ next \in next .. Len(order) /\ order[next] \in Strings
      <4>1. order \in Seq(Strings)
        BY DEF ObjectInv, TypeOK
      <4> QED
        BY <2>2, <4>1, LenProperties, ElementOfSeq
    <3>2. text[order[next]] # None /\ text[order[next]] \in Keys /\ KeyOrder[next] = text[order[next]]
      BY <2>2, <3>1 DEF ObjectInv, TypeOK, KeyOrder
    <3>3. PICK e \in Entries : e.key = order[next]
      <4>1. order[next] \in Range(order) /\ Range(order) = {e.key : e \in Entries}
        BY <2>2 DEF Range, ObjectInv
      <4> QED
        BY <4>1
    <3>4. Live(e) /\ e.hash = Hash[KeyOrder[next]]
      BY <3>2, <3>3 DEF Live, ObjectInv
    <3>5. pc # "none" /\ pc = "destroying"
      <4>1. pc = "none" => order = << >>
        BY DEF ObjectInv
      <4>2. pc # "none"
        BY <2>2, <4>1
      <4> QED
        BY <2>2, <4>2 DEF ObjectInv, TypeOK
    <3>6. OneHashEach
      BY <2>2, <3>5 DEF OwnerInv
    <3>7. \A i \in Compared(KeyOrder[next]) : chain[Slot(KeyOrder[next])][i] = e
      BY <3>2, <3>4, <3>5, <3>6, FoundFacts DEF OneHashEach
    <3> QED
      BY <2>2, <3>4, <3>7 DEF ComparesLiveKeys, Live
  <2>3. CASE pc # "open" /\ next \notin DOMAIN order
    BY <2>3 DEF ComparesLiveKeys
  <2> QED
    BY <2>1, <2>2, <2>3
<1> QED
  BY <1>1, OwnerAlwaysInv, PTL

LEMMA PrefixFacts ==
  ASSUME NEW E, NEW s \in Seq(E), NEW t \in Seq(E), Len(s) <= Len(t), \A i \in 1 .. Len(s) : t[i] = s[i]
  PROVE  IsPrefix(s, t)
<1> DEFINE l == Len(s)
<1>1. /\ l \in Nat /\ Len(t) \in Nat
      /\ \A i \in 1 .. l : s[i] \in E
  BY LenProperties, ElementOfSeq
<1> HIDE DEF l
<1>2. \A i \in 1 .. l : t[i] \in E
  BY <1>1 DEF l
<1>3. /\ SubSeq(s, 1, l) \in Seq(E) /\ Len(SubSeq(s, 1, l)) = IF 1 <= l THEN l - 1 + 1 ELSE 0
      /\ \A i \in 1 .. l - 1 + 1 : SubSeq(s, 1, l)[i] = s[1 + i - 1]
  BY <1>1, SubSeqProperties
<1>4. /\ SubSeq(t, 1, l) \in Seq(E) /\ Len(SubSeq(t, 1, l)) = IF 1 <= l THEN l - 1 + 1 ELSE 0
      /\ \A i \in 1 .. l - 1 + 1 : SubSeq(t, 1, l)[i] = t[1 + i - 1]
  BY <1>1, <1>2, SubSeqProperties
<1>5. l - 1 + 1 = l /\ \A i \in 1 .. l : 1 + i - 1 = i
  BY <1>1
<1>6. Len(SubSeq(s, 1, l)) = l /\ Len(SubSeq(t, 1, l)) = l
  BY <1>1, <1>3, <1>4, <1>5
<1>7. \A i \in 1 .. l : SubSeq(s, 1, l)[i] = SubSeq(t, 1, l)[i]
  BY <1>3, <1>4, <1>5 DEF l
<1>8. SubSeq(s, 1, l) = SubSeq(t, 1, l)
  BY <1>3, <1>4, <1>6, <1>7, SeqEqual
<1> QED
  BY <1>8 DEF IsPrefix, l

LEMMA KeyOrderFacts ==
  ASSUME ObjectInv, pc = "open"
  PROVE  KeyOrder \in Seq(Keys) /\ Len(KeyOrder) = Len(order) /\ \A i \in 1 .. Len(order) : KeyOrder[i] = text[order[i]]
<1>1. /\ Len(order) \in Nat /\ DOMAIN order = 1 .. Len(order)
      /\ order \in Seq(Strings)
      /\ \A s \in Strings : text[s] # None <=> s \in Range(order)
  BY OpenFacts
<1>2. \A i \in 1 .. Len(order) : text[order[i]] \in Keys
  <2>1. \A i \in 1 .. Len(order) : order[i] \in Strings /\ order[i] \in Range(order)
    BY <1>1, ElementOfSeq DEF Range
  <2> QED
    BY <1>1, <2>1 DEF ObjectInv, TypeOK
<1>3. KeyOrder = [i \in 1 .. Len(order) |-> text[order[i]]]
  BY <1>1 DEF KeyOrder
<1>4. KeyOrder \in Seq(Keys)
  BY <1>1, <1>2, <1>3, IsASeq
<1>5. DOMAIN KeyOrder = 1 .. Len(order) /\ DOMAIN KeyOrder = 1 .. Len(KeyOrder) /\ Len(KeyOrder) \in Nat
  BY <1>3, <1>4, LenProperties
<1>6. Len(KeyOrder) = Len(order)
  BY <1>1, <1>5
<1> QED
  BY <1>3, <1>4, <1>6

KeysInOrder ==
  pc = "open" =>
    KeyOrder \in Seq(Keys) /\ Len(KeyOrder) = Len(order) /\ \A i \in 1 .. Len(order) : KeyOrder[i] = text[order[i]]

LEMMA NextKeyOrder ==
  ObjectInv' => KeysInOrder'
<1>1. ObjectInv => KeysInOrder
  BY KeyOrderFacts DEF KeysInOrder
<1> QED
  BY <1>1, PTL

(* What the action property says of one step.                              *)
OrderStep ==
  /\ IsPrefix(KeyOrder, KeyOrder') /\ Len(order') <= Len(order) + 1
  /\ \A k \in Keys : Lookup(k)' # Lookup(k) =>
       \E v \in Values : Lookup(k)' = {v} /\ owner[v] = "caller" /\ owner'[v] = "object"

LEMMA OrderSameStep ==
  ASSUME ObjectInv, ObjectInv', pc = "open", pc' = "open", UNCHANGED <<text, order>>
  PROVE  IsPrefix(KeyOrder, KeyOrder') /\ Len(order') <= Len(order) + 1
<1>1. KeyOrder \in Seq(Keys) /\ KeyOrder' = KeyOrder /\ Len(KeyOrder) \in Nat /\ Len(order) \in Nat
  BY KeyOrderFacts, LenProperties, OpenFacts DEF KeyOrder
<1> QED
  BY <1>1, PrefixFacts

LEMMA OrderAddStep ==
  ASSUME ObjectInv, ObjectInv', NEW k \in Keys, NEW v \in Values, NEW s \in Strings, Add(k, v, s)
  PROVE  OrderStep
<1>1. /\ pc = "open" /\ pc' = "open" /\ owner[v] = "caller" /\ text[s] = None
      /\ text' = [text EXCEPT ![s] = k] /\ order' = Append(order, s) /\ owner' = [owner EXCEPT ![v] = "object"]
  BY DEF Add
<1>2. PICK e \in EntryRecords \ Entries :
           /\ e.key = s /\ e.hash = Hash[k] /\ e.value = v
           /\ TableOf(chain', Entries') /\ Entries' = Entries \cup {e}
           /\ \A x \in Entries : x.key # s /\ text[x.key] # k /\ x.value # v
  BY AddFacts
<1> DEFINE l == Len(order)
<1>3. /\ l \in Nat /\ DOMAIN order = 1 .. l /\ order \in Seq(Strings)
      /\ \A x \in Entries : x.key \in Strings
      /\ \A t \in Strings : text[t] # None <=> t \in Range(order)
  BY <1>1, OpenFacts
<1>4. Len(order') = l + 1 /\ \A i \in 1 .. l : order'[i] = order[i]
  BY <1>1, <1>3, AppendProperties
<1>5. \A t \in Strings : t # s => text'[t] = text[t]
  BY <1>1 DEF ObjectInv, TypeOK
<1>6. text'[s] = k
  BY <1>1 DEF ObjectInv, TypeOK
<1>7. IsPrefix(KeyOrder, KeyOrder')
  <2>1. /\ KeyOrder \in Seq(Keys) /\ Len(KeyOrder) = l
        /\ \A i \in 1 .. l : KeyOrder[i] = text[order[i]]
    BY <1>1, KeyOrderFacts
  <2>2. /\ KeyOrder' \in Seq(Keys) /\ Len(KeyOrder') = l + 1
        /\ \A i \in 1 .. l + 1 : KeyOrder'[i] = text'[order'[i]]
    BY <1>1, <1>4, NextKeyOrder DEF KeysInOrder
  <2>3. \A i \in 1 .. l : order[i] \in Strings /\ order[i] # s /\ i \in 1 .. l + 1
    <3>1. s \notin Range(order)
      BY <1>1, <1>3
    <3> QED
      BY <1>3, <3>1, ElementOfSeq DEF Range
  <2>4. \A i \in 1 .. l : KeyOrder'[i] = KeyOrder[i]
    BY <1>4, <1>5, <2>1, <2>2, <2>3
  <2> QED
    BY <1>3, <2>1, <2>2, <2>4, PrefixFacts
<1>8. ASSUME NEW j \in Keys, j # k PROVE Lookup(j)' = Lookup(j)
  <2>1. {x \in Entries' : text'[x.key] = j} = {x \in Entries : text[x.key] = j}
    BY <1>2, <1>3, <1>5, <1>6, <1>8
  <2> QED
    BY <2>1 DEF Lookup
<1>9. Lookup(k)' = {v}
  <2>1. {x \in Entries' : text'[x.key] = k} = {e}
    BY <1>2, <1>3, <1>5, <1>6
  <2> QED
    BY <1>2, <2>1 DEF Lookup
<1>10. owner'[v] = "object"
  BY <1>1 DEF ObjectInv, TypeOK
<1> QED
  BY <1>1, <1>3, <1>4, <1>7, <1>8, <1>9, <1>10 DEF OrderStep

LEMMA OrderReplaceStep ==
  ASSUME ObjectInv, ObjectInv', NEW k \in Keys, NEW v \in Values, Replace(k, v)
  PROVE  OrderStep
<1>1. pc = "open" /\ pc' = "open" /\ UNCHANGED <<text, order>>
  BY DEF Replace
<1>2. PICK e \in Entries, f \in EntryRecords :
           /\ f.key = e.key /\ f.hash = e.hash /\ f.value = v /\ text[e.key] = k
           /\ TableOf(chain', Entries') /\ Entries' = (Entries \ {e}) \cup {f} /\ f \notin Entries
           /\ owner[v] = "caller" /\ owner' = [owner EXCEPT ![e.value] = "nobody", ![v] = "object"]
  BY ReplaceFacts
<1>3. IsPrefix(KeyOrder, KeyOrder') /\ Len(order') <= Len(order) + 1
  BY <1>1, OrderSameStep
<1>4. \A x \in Entries : text[x.key] = k => x = e
  BY <1>1, <1>2, OpenFacts DEF ObjectInv
<1>5. ASSUME NEW j \in Keys, j # k PROVE Lookup(j)' = Lookup(j)
  <2>1. {x \in Entries' : text'[x.key] = j} = {x \in Entries : text[x.key] = j}
    BY <1>1, <1>2, <1>5
  <2> QED
    BY <2>1 DEF Lookup
<1>6. Lookup(k)' = {v}
  <2>1. {x \in Entries' : text'[x.key] = k} = {f}
    BY <1>1, <1>2, <1>4
  <2> QED
    BY <1>2, <2>1 DEF Lookup
<1>7. owner'[v] = "object"
  BY <1>2 DEF ObjectInv, TypeOK
<1> QED
  BY <1>2, <1>3, <1>5, <1>6, <1>7 DEF OrderStep

LEMMA OrderOtherStep ==
  ASSUME ObjectInv, ObjectInv', pc = "open", pc' = "open", Entries' = Entries, UNCHANGED <<text, order>>
  PROVE  OrderStep
<1>1. \A k \in Keys : Lookup(k)' = Lookup(k)
  BY DEF Lookup
<1> QED
  BY <1>1, OrderSameStep DEF OrderStep

(* Whatever the hashes, a set keeps the order of the keys and changes one  *)
(* key's value at most, to what the caller handed over.                    *)
THEOREM ObjectOrder ==
  Spec => OrderIsKept
<1>1. ASSUME ObjectInv, ObjectInv', [Next]_vars, pc = "open", pc' = "open"
      PROVE  OrderStep
  <2>1. CASE Create \/ Destroy \/ DestroyKey \/ DestroyEnd
    BY <1>1, <2>1 DEF Create, Destroy, DestroyKey, DestroyEnd
  <2>2. CASE UNCHANGED vars
    <3>1. Entries' = Entries /\ UNCHANGED <<text, order>>
      BY <2>2 DEF Entries, vars
    <3> QED
      BY <1>1, <3>1, OrderOtherStep
  <2>3. ASSUME NEW v \in Values, CreateValue(v) PROVE OrderStep
    <3>1. Entries' = Entries /\ UNCHANGED <<text, order>>
      BY <2>3 DEF Entries, CreateValue
    <3> QED
      BY <1>1, <3>1, OrderOtherStep
  <2>4. ASSUME NEW v \in Values, NEW k \in Keys,
               \/ Replace(k, v) \/ AddFails(k, v)
               \/ \E s \in Strings : Add(k, v, s) \/ OrderFails(k, v, s)
        PROVE  OrderStep
    <3>1. CASE Replace(k, v)
      BY <1>1, <3>1, OrderReplaceStep
    <3>2. CASE \E s \in Strings : Add(k, v, s)
      BY <1>1, <3>2, OrderAddStep
    <3>3. CASE AddFails(k, v) \/ \E s \in Strings : OrderFails(k, v, s)
      <4>1. Entries' = Entries /\ UNCHANGED <<text, order>>
        BY <1>1, <3>3, SetFailsStep
      <4> QED
        BY <1>1, <4>1, OrderOtherStep
    <3> QED
      BY <2>4, <3>1, <3>2, <3>3
  <2> QED
    BY <1>1, <2>1, <2>2, <2>3, <2>4 DEF Next
<1>2. ObjectInv /\ ObjectInv' /\ [Next]_vars =>
        [pc = "open" /\ pc' = "open" =>
           /\ IsPrefix(KeyOrder, KeyOrder') /\ Len(order') <= Len(order) + 1
           /\ \A k \in Keys : Lookup(k)' # Lookup(k) =>
                \E v \in Values : Lookup(k)' = {v} /\ owner[v] = "caller" /\ owner'[v] = "object"]_vars
  BY <1>1 DEF OrderStep
<1> QED
  BY <1>2, ObjectAlwaysInv, PTL DEF Spec, OrderIsKept
=============================================================================
