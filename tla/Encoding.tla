------------------------------ MODULE Encoding ------------------------------
(***************************************************************************)
(* The pure functions of src/encoding/encoding.c.  A C string or a block   *)
(* of bytes is a sequence of numbers; a character of a Base64 or Hex text  *)
(* is the value of its digit, with numbers beyond the digits for the rest. *)
(* What a function answers, TEN_ERROR_ENCODING or not, is a predicate of   *)
(* its own; when it allocates, so is the size of the block.                *)
(***************************************************************************)
EXTENDS Naturals, SequencesExt

At(s, i) == IF i <= Len(s) THEN s[i] ELSE 0

\* What a loop over n counts.
Total(n) ==
  LET sum[i \in 0 .. Len(n)] == IF i = 0 THEN 0 ELSE sum[i - 1] + n[i]
  IN  sum[Len(n)]

\* The groups of n of a sequence, each mapped by op.
Grouped(s, n, op(_, _)) ==
  FlattenSeq([g \in 1 .. (Len(s) + n - 1) \div n |-> op(s, n * (g - 1) + 1)])

-----------------------------------------------------------------------------
(* Base64                                                                  *)

Padding == 64
OtherCharacter == 65

EncodeThree(s, i) ==
  LET triple == 65536 * At(s, i) + 256 * At(s, i + 1) + At(s, i + 2)
  IN  << triple \div 262144, (triple \div 4096) % 64,
         IF i + 1 <= Len(s) THEN (triple \div 64) % 64 ELSE Padding,
         IF i + 2 <= Len(s) THEN triple % 64 ELSE Padding >>

Base64Encode(s) == Grouped(s, 3, EncodeThree)

(* Padding may end any group of four, not the last only.                   *)
Base64Accepts(t) ==
  /\ Len(t) % 4 = 0
  /\ \A i \in DOMAIN t :
       \/ t[i] < 64
       \/ t[i] = Padding /\ i % 4 = 3 /\ t[i + 1] = Padding
       \/ t[i] = Padding /\ i % 4 = 0

DecodeFour(t, i) ==
  <<4 * t[i] + (t[i + 1] \div 16)>>
  \o (IF t[i + 2] = Padding THEN <<>> ELSE <<16 * (t[i + 1] % 16) + (t[i + 2] \div 4)>>)
  \o (IF t[i + 3] = Padding THEN <<>> ELSE <<64 * (t[i + 2] % 4) + t[i + 3]>>)

Base64Decode(t) == Grouped(t, 4, DecodeFour)
Base64Room(t) == 3 * (Len(t) \div 4)

-----------------------------------------------------------------------------
(* Hex: 16 to 21 are the upper-case digits                                 *)

HexValue(c) == IF c < 16 THEN c ELSE c - 6

HexEncode(s) == Grouped(s, 1, LAMBDA x, i : <<x[i] \div 16, x[i] % 16>>)

HexAccepts(t) == Len(t) % 2 = 0 /\ \A i \in DOMAIN t : t[i] < 22

HexDecode(t) == Grouped(t, 2, LAMBDA x, i : <<16 * HexValue(x[i]) + HexValue(x[i + 1])>>)

-----------------------------------------------------------------------------
(* UTF-8: ten__utf8_decode_one                                             *)

\* How many bytes the first one announces: 0 if it cannot be first.
Announced(b) ==
  CASE b < 128 -> 1
    [] b \div 32 = 6 -> 2
    [] b \div 16 = 14 -> 3
    [] b \div 8 = 30 -> 4
    [] OTHER -> 0

\* The bits of the code point in the first of n bytes.
Payload(b, n) ==
  CASE n = 1 -> b [] n = 2 -> b % 32 [] n = 3 -> b % 16 [] n = 4 -> b % 8

Least == <<0, 128, 2048, 65536>>

\* The code point of the n bytes from i on.
CodePoint(s, i, n) ==
  LET value[k \in 1 .. n] ==
        IF k = 1 THEN Payload(s[i], n) ELSE 64 * value[k - 1] + (s[i + k - 1] % 64)
  IN  value[n]

\* Mutant: longer forms than needed are accepted.
Decodes_Overlong(s, i) ==
  LET n == Announced(s[i])
  IN  /\ n > 0 /\ i + n - 1 <= Len(s)
      /\ \A k \in i + 1 .. i + n - 1 : s[k] \div 64 = 2
      /\ CodePoint(s, i, n) <= 1114111

(* It takes the bytes at i, and returns 1.                                 *)
Decodes(s, i) ==
  LET n == Announced(s[i])
  IN  /\ n > 0 /\ i + n - 1 <= Len(s)
      /\ \A k \in i + 1 .. i + n - 1 : s[k] \div 64 = 2
      /\ CodePoint(s, i, n) \in Least[n] .. 1114111

(* The loop of ten_utf8_validate, and the first of ten_utf8_to_utf16.      *)
Utf8Valid(s) ==
  LET valid[i \in 1 .. Len(s) + 1] ==
        i > Len(s) \/ (Decodes(s, i) /\ valid[i + Announced(s[i])])
  IN  valid[1]

AsciiValid(s) == \A i \in DOMAIN s : s[i] <= 127

(* The loop that follows, as far as it gets.                               *)
CodePoints(s) ==
  LET from[i \in 1 .. Len(s) + 1] ==
        IF i <= Len(s) /\ Decodes(s, i)
        THEN <<CodePoint(s, i, Announced(s[i]))>> \o from[i + Announced(s[i])]
        ELSE <<>>
  IN  from[1]

-----------------------------------------------------------------------------
(* UTF-8 <-> UTF-16                                                        *)

\* Mutant: the offset of the supplementary planes is forgotten.
Units_NoOffset(cp) ==
  IF cp > 65535 THEN <<55296 + (cp \div 1024), 56320 + (cp % 1024)>> ELSE <<cp>>

Units(cp) ==
  IF cp > 65535
  THEN <<55296 + ((cp - 65536) \div 1024), 56320 + ((cp - 65536) % 1024)>>
  ELSE <<cp>>

Utf8ToUtf16(s) == FlattenSeq([i \in DOMAIN CodePoints(s) |-> Units(CodePoints(s)[i])])

(* What the first loop counts.                                             *)
Utf16Room(s) ==
  Total([i \in DOMAIN CodePoints(s) |-> IF CodePoints(s)[i] > 65535 THEN 2 ELSE 1])

\* The units of a text that is to become a C string.
CodeUnits == 1 .. 65535

High(u) == u \in 55296 .. 56319
Low(u) == u \in 56320 .. 57343

(* The first loop of ten_utf16_to_utf8: a high unit takes the next one     *)
(* with it.                                                                *)
Utf16Accepts(u) ==
  LET good[i \in 1 .. Len(u) + 1] ==
        \/ i > Len(u)
        \/ High(u[i]) /\ i < Len(u) /\ Low(u[i + 1]) /\ good[i + 2]
        \/ ~High(u[i]) /\ ~Low(u[i]) /\ good[i + 1]
  IN  good[1]

Utf16Points(u) ==
  LET from[i \in 1 .. Len(u) + 1] ==
        CASE i < Len(u) /\ High(u[i]) ->
               <<65536 + 1024 * (u[i] - 55296) + (u[i + 1] - 56320)>> \o from[i + 2]
          [] i <= Len(u) /\ ~High(u[i]) -> <<u[i]>> \o from[i + 1]
          [] OTHER -> <<>>
  IN  from[1]

Size(cp) == IF cp < 128 THEN 1 ELSE IF cp < 2048 THEN 2 ELSE IF cp < 65536 THEN 3 ELSE 4

Octets(cp) ==
  CASE Size(cp) = 1 -> <<cp>>
    [] Size(cp) = 2 -> <<192 + (cp \div 64), 128 + (cp % 64)>>
    [] Size(cp) = 3 -> <<224 + (cp \div 4096), 128 + ((cp \div 64) % 64), 128 + (cp % 64)>>
    [] Size(cp) = 4 -> <<240 + (cp \div 262144), 128 + ((cp \div 4096) % 64),
                         128 + ((cp \div 64) % 64), 128 + (cp % 64)>>

Utf16ToUtf8(u) == FlattenSeq([i \in DOMAIN Utf16Points(u) |-> Octets(Utf16Points(u)[i])])

\* Mutant: a pair of surrogates counts like one unit.
Utf8Room_Pairs(u) ==
  Total([i \in DOMAIN Utf16Points(u) |->
           IF Utf16Points(u)[i] < 128 THEN 1 ELSE IF Utf16Points(u)[i] < 2048 THEN 2 ELSE 3])

Utf8Room(u) == Total([i \in DOMAIN Utf16Points(u) |-> Size(Utf16Points(u)[i])])
=============================================================================
