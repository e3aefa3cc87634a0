---------------------------- MODULE JsonDocument ----------------------------
(***************************************************************************)
(* Whole texts in src/json/json.c, as sequences of tokens: the brackets,   *)
(* the comma and the colon, white space, null for the three names, strings *)
(* (JsonText has what is between their quotes) and the digits of numbers,  *)
(* which are "near" for one of them and "far" for four hundred: strtod     *)
(* then reads a number beyond the largest double.                          *)
(***************************************************************************)
EXTENDS Naturals, SequencesExt

Space == "space"
Strings == {"a", "b"}
Digits == {"near", "far"}

Is(t, i, c) == i <= Len(t) /\ t[i] = c

(* ten__json_skip_ws                                                       *)
SkipSpace(t, i) == Min({j \in i .. Len(t) + 1 : ~Is(t, j, Space)})

(* strtod takes all the digits there are.                                  *)
NumberEnd(t, i) == Min({j \in i .. Len(t) + 1 : j > Len(t) \/ t[j] \notin Digits})
Number(t, i) == IF "far" \in Range(SubSeq(t, i, NumberEnd(t, i) - 1)) THEN "infinite" ELSE "finite"

Leaf(v) == [type |-> "leaf", value |-> v]
ArrayOf(elements) == [type |-> "array", value |-> elements]

(* ten__json_object_set_owned: a key keeps its place and has the value     *)
(* that was set last.                                                      *)
WithMember(members, m) ==
  LET same == {i \in DOMAIN members : members[i].key = m.key}
  IN  IF same = {} THEN Append(members, m) ELSE [members EXCEPT ![Min(same)].value = m.value]

ObjectOf(members) == [type |-> "object", value |-> FoldLeft(WithMember, <<>>, members)]

-----------------------------------------------------------------------------
(* The parser: what it makes of the text from a place on, and where it     *)
(* stands then; or where the text is not what it must be.                  *)

Stands(v, i) == [ok |-> TRUE, value |-> v, at |-> i]
Fails(i) == [ok |-> FALSE, at |-> i]

\* The rest of a list of elements or members, when the first one is read.
Rest(t, first, i, after, close) ==
  LET j == SkipSpace(t, i)
  IN  CASE Is(t, j, close) -> Stands(<<first>>, j + 1)
        [] Is(t, j, ",") -> LET rest == after[j + 1]
                            IN  IF rest.ok THEN Stands(<<first>> \o rest.value, rest.at) ELSE rest
        [] OTHER -> Fails(j)

\* A container: empty, or with the list between its brackets.
Container(t, i, close, list) ==
  LET j == SkipSpace(t, i + 1)
      Made(items) == IF close = "]" THEN ArrayOf(items) ELSE ObjectOf(items)
  IN  IF Is(t, j, close) THEN Stands(Made(<<>>), j + 1)
      ELSE IF list.ok THEN Stands(Made(list.value), list.at) ELSE list

(* ten__json_parse_value, and the loops of an array and of an object.      *)
Parsed(t) ==
  LET from[what \in {"value", "elements", "members"}, k \in 1 .. Len(t) + 1] ==
        LET i == SkipSpace(t, k)
        IN  CASE what = "elements" ->
                   LET e == from["value", i]
                   IN  IF e.ok THEN Rest(t, e.value, e.at, [j \in i + 1 .. Len(t) + 1 |-> from["elements", j]], "]") ELSE e
              [] what = "members" ->
                   LET colon == SkipSpace(t, i + 1)
                       m == from["value", colon + 1]
                   IN  IF i > Len(t) \/ t[i] \notin Strings THEN Fails(i)
                       ELSE IF ~Is(t, colon, ":") THEN Fails(colon)
                       ELSE IF ~m.ok THEN m
                       ELSE Rest(t, [key |-> t[i], value |-> m.value], m.at,
                                 [j \in i + 1 .. Len(t) + 1 |-> from["members", j]], "}")
              [] what = "value" /\ i > Len(t) -> Fails(i)
              [] what = "value" /\ Is(t, i, "[") -> Container(t, i, "]", from["elements", i + 1])
              [] what = "value" /\ Is(t, i, "{") -> Container(t, i, "}", from["members", i + 1])
              [] what = "value" /\ i <= Len(t) /\ t[i] \in {"null"} \cup Strings -> Stands(Leaf(t[i]), i + 1)
              [] what = "value" /\ i <= Len(t) /\ t[i] \in Digits -> Stands(Leaf(Number(t, i)), NumberEnd(t, i))
              [] OTHER -> Fails(i)
  IN  from["value", 1]

\* Mutant: whatever follows the value is not looked at.
DocumentParsed_AnyRest(t) == Parsed(t)

(* ten_json_parse: nothing but white space may follow.                     *)
DocumentParsed(t) ==
  LET p == Parsed(t)
  IN  IF p.ok /\ SkipSpace(t, p.at) <= Len(t) THEN Fails(SkipSpace(t, p.at)) ELSE p

DocumentAccepts(t) == DocumentParsed(t).ok
=============================================================================
