------------------------------ MODULE Documents ------------------------------
(***************************************************************************)
(* JSON texts of the kind "document" of Text: the parser compared with the *)
(* grammar of the standard and with what stringify writes.                 *)
(***************************************************************************)
EXTENDS Text, JsonStringify

(* The grammar of JSON values (RFC 8259), over texts in which null stands  *)
(* for every name and number, "a" for every string, and no space is left.  *)
Derives(t) ==
  LET from[what \in {"value", "values", "member", "members"}, i, j \in 1 .. Len(t)] ==
        CASE what = "value" ->
               \/ i = j /\ t[i] \in {"null", "a"}
               \/ i < j /\ t[i] = "[" /\ t[j] = "]" /\ (j = i + 1 \/ from["values", i + 1, j - 1])
               \/ i < j /\ t[i] = "{" /\ t[j] = "}" /\ (j = i + 1 \/ from["members", i + 1, j - 1])
          [] what = "member" -> i + 2 <= j /\ t[i] = "a" /\ t[i + 1] = ":" /\ from["value", i + 2, j]
          [] OTHER ->
               LET one == IF what = "values" THEN "value" ELSE "member"
               IN  \/ from[one, i, j]
                   \/ \E k \in i + 1 .. j - 1 : t[k] = "," /\ from[one, i, k - 1] /\ from[what, k + 1, j]
  IN  t # <<>> /\ from["value", 1, Len(t)]

\* The token in the place of each one; a digit after a digit has none.
Simple(t) ==
  LET one(i) == CASE t[i] \in Digits /\ i > 1 /\ t[i - 1] \in Digits -> Space
                  [] t[i] \in Digits -> "null"
                  [] t[i] \in Strings -> "a"
                  [] OTHER -> t[i]
  IN  SelectSeq([i \in DOMAIN t |-> one(i)], LAMBDA c : c # Space)

\* Texts of numbers stringify prints as something else: parse has read more
\* than the largest double.
Infinite(tokens) == "far" \in Range(tokens)

(* The texts ten_json_parse accepts are those of the JSON grammar, and     *)
(* what stringify writes of a value that was read from one without an      *)
(* infinite number is read as the same value.                              *)
DocumentsReadBack ==
  kind = "document" =>
    LET tokens == Tokens(text)
        value == DocumentParsed(tokens).value
    IN  /\ DocumentAccepts(tokens) <=> Derives(Simple(tokens))
        /\ DocumentAccepts(tokens) /\ ~Infinite(tokens) =>
             DocumentAccepts(DocumentText(value)) /\ DocumentParsed(DocumentText(value)).value = value
=============================================================================
