------------------------------ MODULE JsonText ------------------------------
(***************************************************************************)
(* Strings between quotes in src/json/json.c: how stringify writes one and *)
(* how the parser reads it.  What stands between the quotes is a sequence  *)
(* of items: a byte as it is (neither quote nor backslash), a backslash    *)
(* with a letter, or \u with four hexadecimal digits, of which Unicode     *)
(* keeps the number.  There is memory for every append.                    *)
(***************************************************************************)
EXTENDS Encoding

Plain(byte) == [form |-> "plain", value |-> byte]
Letter(c) == [form |-> "letter", value |-> c]
Unicode(unit) == [form |-> "unicode", value |-> unit]

Quote == 34
Backslash == 92

\* What may stand there in a C string.
Items ==
  {Plain(c) : c \in 1 .. 255 \ {Quote, Backslash}} \cup {Letter(c) : c \in 1 .. 255}
    \cup {Unicode(u) : u \in CodeUnits \cup {0}}

EscapeOne(c) ==
  CASE c \in {Quote, Backslash} -> Letter(c)
    [] c = 10 -> Letter(110)
    [] c = 13 -> Letter(114)
    [] c = 9 -> Letter(116)
    [] c < 32 /\ c \notin {9, 10, 13} -> Unicode(c)
    [] OTHER -> Plain(c)

(* ten__json_stringify_escape_string, the quotes left away.                *)
Escaped(s) == [i \in DOMAIN s |-> EscapeOne(s[i])]

(* The letters a backslash may stand before, and what they mean.           *)
Meaning ==
  [c \in {Quote, Backslash, 47, 98, 102, 110, 114, 116} |->
     CASE c = 98 -> 8 [] c = 102 -> 12 [] c = 110 -> 10 [] c = 114 -> 13 [] c = 116 -> 9
       [] OTHER -> c]

IsUnit(t, i) == i <= Len(t) /\ t[i].form = "unicode"

\* A high surrogate at i, with the low one that must come after it.
PairAt(t, i) == IsUnit(t, i) /\ High(t[i].value) /\ IsUnit(t, i + 1) /\ Low(t[i + 1].value)

(* The loop of ten__json_parse_string gets to the closing quote: a low     *)
(* surrogate may come alone, a high one may not.                           *)
LiteralAccepts(t) ==
  LET good[i \in 1 .. Len(t) + 1] ==
        \/ i > Len(t)
        \/ t[i].form = "plain" /\ good[i + 1]
        \/ t[i].form = "letter" /\ t[i].value \in DOMAIN Meaning /\ good[i + 1]
        \/ PairAt(t, i) /\ good[i + 2]
        \/ IsUnit(t, i) /\ ~High(t[i].value) /\ good[i + 1]
  IN  good[1]

(* ten__json_append_codepoint: its bytes are appended as a C string, so    *)
(* that there are none for a NUL.                                          *)
AppendedBytes(cp) == IF cp = 0 THEN <<>> ELSE Octets(cp)

\* What the parser makes of an accepted literal.
LiteralValue(t) ==
  LET from[i \in 1 .. Len(t) + 1] ==
        CASE i > Len(t) -> <<>>
          [] i <= Len(t) /\ PairAt(t, i) ->
               AppendedBytes(Utf16Points(<<t[i].value, t[i + 1].value>>)[1]) \o from[i + 2]
          [] IsUnit(t, i) /\ ~PairAt(t, i) -> AppendedBytes(t[i].value) \o from[i + 1]
          [] i <= Len(t) /\ t[i].form = "letter" -> <<Meaning[t[i].value]>> \o from[i + 1]
          [] OTHER -> <<t[i].value>> \o from[i + 1]
  IN  from[1]
=============================================================================
