---------------------------- MODULE JsonStringify ----------------------------
(***************************************************************************)
(* The text that ten_json_stringify makes of a value of JsonDocument.      *)
(***************************************************************************)
EXTENDS Naturals, SequencesExt

(* ten__json_stringify_value: no white space; an infinite number is        *)
(* printed as a name that is none of the three.                            *)

NumberText(v) == IF v = "finite" THEN "near" ELSE "inf"

Commas(texts) == FoldLeft(LAMBDA all, x : IF all = <<>> THEN x ELSE all \o <<",">> \o x, <<>>, texts)

RECURSIVE DocumentText(_)
DocumentText(v) ==
  CASE v.type = "leaf" -> <<IF v.value \in {"finite", "infinite"} THEN NumberText(v.value) ELSE v.value>>
    [] v.type = "array" ->
         <<"[">> \o Commas([i \in DOMAIN v.value |-> DocumentText(v.value[i])]) \o <<"]">>
    [] v.type = "object" ->
         <<"{">> \o Commas([i \in DOMAIN v.value |->
                              <<v.value[i].key, ":">> \o DocumentText(v.value[i].value)]) \o <<"}">>
=============================================================================
