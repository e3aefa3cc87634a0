-------------------------- MODULE HttpMessageProofs --------------------------
(***************************************************************************)
(* Proofs about the messages of src/http/http.c, for any names, values,    *)
(* bodies and any number of headers: the headers are a dictionary of names *)
(* without case, and what the other end parses is what was sent.           *)
(***************************************************************************)
EXTENDS HttpMessage, SequenceTheorems, WellFoundedInduction, TLAPS

-----------------------------------------------------------------------------
(* Natural numbers                                                         *)

LEMMA Least ==
  ASSUME NEW T \in SUBSET Nat, T # {}
  PROVE  Min(T) \in T /\ \A m \in T : Min(T) <= m
<1>1. PICK n \in T : \A m \in T : ~ (<<m, n>> \in OpToRel(<, Nat))
  BY NatLessThanWellFounded, WFMin
<1>2. ASSUME NEW m \in T PROVE n <= m
  <2>1. m \in Nat /\ n \in Nat
    OBVIOUS
  <2>2. ~ (m < n)
    BY <1>1, <2>1 DEF OpToRel
  <2> QED
    BY <2>1, <2>2
<1> QED
  BY <1>2 DEF Min

LEMMA FromBelow ==
  ASSUME NEW S, 0 \in S, \A n \in Nat \ {0} : n - 1 \in S => n \in S
  PROVE  Nat \subseteq S
<1> DEFINE T == Nat \ S
<1> SUFFICES ASSUME T # {} PROVE FALSE
  OBVIOUS
<1>1. PICK n \in T : \A m \in T : ~ (<<m, n>> \in OpToRel(<, Nat))
  BY NatLessThanWellFounded, WFMin
<1>2. n \in Nat \ {0} /\ n - 1 \in Nat /\ n - 1 < n
  OBVIOUS
<1>3. n - 1 \notin T
  BY <1>1, <1>2 DEF OpToRel
<1> QED
  BY <1>2, <1>3

-----------------------------------------------------------------------------
(* Headers                                                                 *)

HeadersOf(V) == Seq([name : Names, value : V])

Named(h, n) == Folded[h.name] = Folded[n]

(* No name is there twice.                                                 *)
Unique(hs) == \A i, j \in DOMAIN hs : Folded[hs[i].name] = Folded[hs[j].name] => i = j

LEMMA PositionFacts ==
  ASSUME NEW V, NEW hs \in HeadersOf(V), NEW n
  PROVE  \/ Position(hs, n) = 0 /\ \A i \in DOMAIN hs : ~ Named(hs[i], n)
         \/ Position(hs, n) \in DOMAIN hs /\ Position(hs, n) > 0 /\ Named(hs[Position(hs, n)], n)
<1> DEFINE I == {i \in 1 .. Len(hs) : Named(hs[i], n)}
<1>1. Len(hs) \in Nat /\ DOMAIN hs = 1 .. Len(hs)
  BY LenProperties DEF HeadersOf
<1>2. Position(hs, n) = IF I # {} THEN Min(I) ELSE 0
  BY DEF Position, SelectInSeq, Named
<1>3. CASE I = {}
  BY <1>1, <1>2, <1>3
<1>4. CASE I # {}
  <2>1. I \in SUBSET Nat
    BY <1>1
  <2> HIDE DEF I
  <2>2. Min(I) \in I
    BY <1>4, <2>1, Least
  <2> QED
    BY <1>1, <1>2, <1>4, <2>2 DEF I
<1> QED
  BY <1>3, <1>4

(* What a name reads.                                                      *)
LEMMA HeaderFacts ==
  ASSUME NEW V, NEW hs \in HeadersOf(V), Unique(hs), NEW n
  PROVE  /\ \A i \in DOMAIN hs : Named(hs[i], n) => Position(hs, n) = i /\ Header(hs, n) = hs[i].value
         /\ (\A i \in DOMAIN hs : ~ Named(hs[i], n)) => Header(hs, n) = None
<1>1. /\ Len(hs) \in Nat /\ DOMAIN hs = 1 .. Len(hs)
  BY LenProperties DEF HeadersOf
<1>2. ASSUME NEW i \in DOMAIN hs, Named(hs[i], n)
      PROVE  Position(hs, n) = i /\ Header(hs, n) = hs[i].value
  <2>1. Position(hs, n) \in DOMAIN hs /\ Position(hs, n) > 0 /\ Named(hs[Position(hs, n)], n)
    BY <1>2, PositionFacts
  <2>2. Position(hs, n) = i
    BY <1>2, <2>1 DEF Unique, Named
  <2> QED
    BY <2>1, <2>2 DEF Header
<1>3. ASSUME \A i \in DOMAIN hs : ~ Named(hs[i], n)
      PROVE  Header(hs, n) = None
  <2>1. Position(hs, n) = 0
    BY <1>3, PositionFacts
  <2> QED
    BY <2>1 DEF Header
<1> QED
  BY <1>2, <1>3

(* Setting a header is setting an entry of a dictionary.                   *)
LEMMA WithHeaderFacts ==
  ASSUME NEW V, NEW hs \in HeadersOf(V), Unique(hs), NEW n \in Names, NEW v \in V
  PROVE  /\ WithHeader(hs, n, v) \in HeadersOf(V) /\ Unique(WithHeader(hs, n, v))
         /\ 2 * Len(WithHeader(hs, n, v)) = 2 * Len(hs) + Copied(hs, n)
         /\ \A m : Header(WithHeader(hs, n, v), m) = IF Folded[m] = Folded[n] THEN v ELSE Header(hs, m)
         /\ \A h \in Range(WithHeader(hs, n, v)) : h \in Range(hs) \/ (Named(h, n) /\ h.value = v)
<1> DEFINE p == Position(hs, n)
           w == WithHeader(hs, n, v)
           l == Len(hs)
<1>1. l \in Nat /\ DOMAIN hs = 1 .. l /\ \A i \in 1 .. l : hs[i] \in [name : Names, value : V]
  BY LenProperties, ElementOfSeq DEF HeadersOf
<1>2. CASE p = 0 /\ \A i \in DOMAIN hs : ~ Named(hs[i], n)
  <2> DEFINE h == [name |-> n, value |-> v]
  <2>1. w = Append(hs, h) /\ Copied(hs, n) = 2
    BY <1>2 DEF WithHeader, Copied
  <2>2. h \in [name : Names, value : V] /\ Named(h, n) /\ h.value = v /\ h.name = n
    BY DEF Named
  <2> HIDE DEF h, w, p
  <2>3. w \in HeadersOf(V) /\ Len(w) = l + 1 /\ (\A i \in 1 .. l : w[i] = hs[i]) /\ w[l + 1] = h
    BY <2>1, <2>2, AppendProperties DEF HeadersOf
  <2>4. DOMAIN w = 1 .. l + 1
    BY <2>3, LenProperties DEF HeadersOf
  <2>5. \A i \in DOMAIN w : (i \in DOMAIN hs /\ w[i] = hs[i] /\ ~ Named(w[i], n)) \/ (i = l + 1 /\ w[i] = h)
    <3>1. \A i \in DOMAIN w : i \in DOMAIN hs \/ i = l + 1
      BY <1>1, <2>4
    <3> QED
      BY <1>1, <1>2, <2>3, <3>1
  <2>6. Unique(w)
    BY <2>2, <2>5 DEF Unique, Named
  <2>7. ASSUME NEW m PROVE Header(w, m) = IF Folded[m] = Folded[n] THEN v ELSE Header(hs, m)
    <3>1. CASE Folded[m] = Folded[n]
      <4>1. l + 1 \in DOMAIN w /\ Named(w[l + 1], m) /\ w[l + 1].value = v
        BY <1>1, <2>2, <2>3, <2>4, <3>1 DEF Named
      <4> QED
        BY <2>3, <2>6, <3>1, <4>1, HeaderFacts
    <3>2. CASE Folded[m] # Folded[n] /\ \E i \in DOMAIN hs : Named(hs[i], m)
      <4>1. PICK i \in DOMAIN hs : Named(hs[i], m)
        BY <3>2
      <4>2. i \in DOMAIN w /\ w[i] = hs[i]
        BY <1>1, <2>3, <2>4
      <4>3. Header(w, m) = w[i].value
        BY <2>3, <2>6, <4>1, <4>2, HeaderFacts
      <4>4. Header(hs, m) = hs[i].value
        BY <4>1, HeaderFacts
      <4> QED
        BY <3>2, <4>2, <4>3, <4>4
    <3>3. CASE Folded[m] # Folded[n] /\ \A i \in DOMAIN hs : ~ Named(hs[i], m)
      <4>1. \A i \in DOMAIN w : ~ Named(w[i], m)
        BY <2>2, <2>5, <3>3 DEF Named
      <4>2. Header(w, m) = None
        BY <2>3, <2>6, <4>1, HeaderFacts
      <4>3. Header(hs, m) = None
        BY <3>3, HeaderFacts
      <4> QED
        BY <3>3, <4>2, <4>3
    <3> QED
      BY <3>1, <3>2, <3>3
  <2>8. \A x \in Range(w) : x \in Range(hs) \/ (Named(x, n) /\ x.value = v)
    BY <2>2, <2>5 DEF Range
  <2>9. 2 * Len(w) = 2 * l + Copied(hs, n)
    BY <1>1, <2>1, <2>3
  <2> QED
    BY <2>3, <2>6, <2>7, <2>8, <2>9 DEF w
<1>3. CASE p \in DOMAIN hs /\ p > 0 /\ Named(hs[p], n)
  <2> DEFINE h == [hs[p] EXCEPT !.value = v]
  <2>1. w = [hs EXCEPT ![p] = h] /\ Copied(hs, n) = 0
    BY <1>3 DEF WithHeader, Copied
  <2>2. h \in [name : Names, value : V] /\ Named(h, n) /\ h.value = v /\ h.name = hs[p].name
    BY <1>1, <1>3 DEF Named
  <2> HIDE DEF h, w, p
  <2>3. w \in HeadersOf(V) /\ Len(w) = l /\ \A i \in 1 .. l : w[i] = IF i = p THEN h ELSE hs[i]
    BY <1>1, <1>3, <2>1, <2>2, ExceptSeq DEF HeadersOf
  <2>4. DOMAIN w = DOMAIN hs
    BY <1>1, <2>3, LenProperties DEF HeadersOf
  <2>5. \A i \in DOMAIN hs : w[i].name = hs[i].name /\ w[i].value = IF i = p THEN v ELSE hs[i].value
    BY <1>1, <2>2, <2>3
  <2>6. Unique(w)
    BY <2>4, <2>5 DEF Unique
  <2>7. ASSUME NEW m PROVE Header(w, m) = IF Folded[m] = Folded[n] THEN v ELSE Header(hs, m)
    <3>1. CASE \E i \in DOMAIN hs : Named(hs[i], m)
      <4>1. PICK i \in DOMAIN hs : Named(hs[i], m)
        BY <3>1
      <4>2. Named(w[i], m) /\ i \in DOMAIN w
        BY <2>4, <2>5, <4>1 DEF Named
      <4>3. Header(w, m) = w[i].value
        BY <2>3, <2>6, <4>2, HeaderFacts
      <4>4. Header(hs, m) = hs[i].value
        BY <4>1, HeaderFacts
      <4>5. i = p <=> Folded[m] = Folded[n]
        BY <1>3, <4>1 DEF Unique, Named
      <4> QED
        BY <2>5, <4>3, <4>4, <4>5
    <3>2. CASE \A i \in DOMAIN hs : ~ Named(hs[i], m)
      <4>1. \A i \in DOMAIN w : ~ Named(w[i], m)
        BY <2>4, <2>5, <3>2 DEF Named
      <4>2. Header(w, m) = None
        BY <2>3, <2>6, <4>1, HeaderFacts
      <4>3. Header(hs, m) = None
        BY <3>2, HeaderFacts
      <4>4. Folded[m] # Folded[n]
        BY <1>3, <3>2 DEF Named
      <4> QED
        BY <4>2, <4>3, <4>4
    <3> QED
      BY <3>1, <3>2
  <2>8. \A x \in Range(w) : x \in Range(hs) \/ (Named(x, n) /\ x.value = v)
    BY <1>1, <2>2, <2>3, <2>4 DEF Range
  <2>9. 2 * Len(w) = 2 * l + Copied(hs, n)
    BY <1>1, <2>1, <2>3
  <2> QED
    BY <2>3, <2>6, <2>7, <2>8, <2>9 DEF w
<1> QED
  BY <1>2, <1>3, PositionFacts

-----------------------------------------------------------------------------
(* What a message holds                                                    *)

MessageInv ==
  /\ TypeOK
  /\ HoldsWhatWasSet

LEMMA InitMessage ==
  Init => MessageInv
<1> SUFFICES ASSUME Init PROVE MessageInv
  OBVIOUS
<1> USE DEF Init
<1>1. TypeOK
  BY DEF TypeOK, Classes
<1>2. headers \in HeadersOf(Values) /\ Unique(headers) /\ DOMAIN headers = {}
  BY DEF HeadersOf, Unique
<1>3. \A n : Header(headers, n) = None
  BY <1>2, HeaderFacts
<1>4. \A n \in Names : wanted[Folded[n]] = None
  BY DEF Classes
<1> QED
  BY <1>1, <1>2, <1>3, <1>4 DEF MessageInv, HoldsWhatWasSet, Unique

LEMMA NextMessage ==
  MessageInv /\ [Next]_vars => MessageInv'
<1> SUFFICES ASSUME MessageInv, [Next]_vars PROVE MessageInv'
  OBVIOUS
<1>1. /\ headers \in HeadersOf(Values) /\ Unique(headers)
      /\ \A n \in Names : Header(headers, n) = wanted[Folded[n]]
      /\ copies = 2 * Len(headers) /\ body \in {None, <<>>, given}
      /\ Len(headers) \in Nat
  BY LenProperties DEF MessageInv, TypeOK, HoldsWhatWasSet, HeadersOf, Unique
<1>2. ASSUME UNCHANGED <<headers, copies, wanted>>, TypeOK', (body \in {None, <<>>, given})'
      PROVE  MessageInv'
  BY <1>2 DEF MessageInv, HoldsWhatWasSet
<1>3. ASSUME NEW p \in Paths, CreateRequest(p) PROVE MessageInv'
  BY <1>1, <1>2, <1>3 DEF CreateRequest, MessageInv, TypeOK
<1>4. CASE CreateResponse
  BY <1>1, <1>2, <1>4 DEF CreateResponse, MessageInv, TypeOK
<1>5. ASSUME NEW s \in Statuses, SetStatus(s) PROVE MessageInv'
  BY <1>1, <1>2, <1>5, MessageAssumption DEF SetStatus, MessageInv, TypeOK
<1>6. ASSUME NEW n \in Names, NEW v \in Values, SetHeader(n, v) PROVE MessageInv'
  <2>1. /\ headers' = WithHeader(headers, n, v) /\ copies' = copies + Copied(headers, n)
        /\ wanted' = [wanted EXCEPT ![Folded[n]] = v] /\ UNCHANGED <<kind, start, body, given>>
    BY <1>6 DEF SetHeader
  <2>2. /\ headers' \in HeadersOf(Values) /\ Unique(headers')
        /\ 2 * Len(headers') = 2 * Len(headers) + Copied(headers, n)
        /\ \A m : Header(headers', m) = IF Folded[m] = Folded[n] THEN v ELSE Header(headers, m)
    BY <1>1, <2>1, WithHeaderFacts
  <2>3. wanted \in [Classes -> Values \cup {None}] /\ \A m \in Names : Folded[m] \in Classes
    BY DEF MessageInv, TypeOK, Classes
  <2>4. wanted' \in [Classes -> Values \cup {None}]
    BY <2>1, <2>3
  <2>5. \A m \in Names : Header(headers', m) = wanted'[Folded[m]]
    BY <1>1, <2>1, <2>2, <2>3
  <2>6. copies' = 2 * Len(headers') /\ copies' \in Nat
    <3>1. copies' = 2 * Len(headers')
      BY <1>1, <2>1, <2>2
    <3>2. Len(headers') \in Nat
      BY <2>2, LenProperties DEF HeadersOf
    <3> QED
      BY <3>1, <3>2
  <2>7. TypeOK'
    BY <2>1, <2>2, <2>4, <2>6 DEF MessageInv, TypeOK, HeadersOf
  <2>8. (body \in {None, <<>>, given})'
    BY <1>1, <2>1
  <2> QED
    BY <2>2, <2>5, <2>6, <2>7, <2>8 DEF MessageInv, HoldsWhatWasSet, Unique
<1>7. ASSUME NEW x \in Bodies PROVE x \in Seq(UNION {Range(y) : y \in Bodies})
  <2>1. x \in Seq(Range(x)) /\ Range(x) \subseteq UNION {Range(y) : y \in Bodies}
    BY MessageAssumption
  <2> QED
    BY <2>1, SeqMonotonic
<1>8. ASSUME NEW x \in Bodies, SetBody(x) PROVE MessageInv'
  BY <1>1, <1>2, <1>7, <1>8 DEF SetBody, MessageInv, TypeOK
<1>9. ASSUME NEW x \in Bodies, SetBodyFails(x) PROVE MessageInv'
  <2>1. body' \in {None, <<>>} /\ given' = x /\ UNCHANGED <<kind, start, headers, copies, wanted>>
    BY <1>9 DEF SetBodyFails
  <2>2. body' = None \/ body' \in Seq(UNION {Range(y) : y \in Bodies})
    BY <2>1, EmptySeq
  <2>3. TypeOK'
    BY <2>1, <2>2 DEF MessageInv, TypeOK
  <2> QED
    BY <1>2, <2>1, <2>3
<1>10. CASE SetHeaderFails \/ DeliverFails \/ UNCHANGED vars
  BY <1>1, <1>2, <1>10 DEF SetHeaderFails, DeliverFails, vars, message, MessageInv, TypeOK
<1>11. ASSUME NEW kept, Deliver(kept) PROVE MessageInv'
  BY <1>1, <1>2, <1>11 DEF Deliver, message, MessageInv, TypeOK
<1>12. CASE Destroy
  <2>1. Init'
    BY <1>1, <1>12 DEF Destroy, Init
  <2>2. Init' => MessageInv'
    BY InitMessage, PTL
  <2> QED
    BY <2>1, <2>2
<1> QED
  BY <1>3, <1>4, <1>5, <1>6, <1>8, <1>9, <1>10, <1>11, <1>12 DEF Next

(* The headers of a message are a dictionary: each name is there once and  *)
(* reads the value last set for it; the body is the last one set, or empty *)
(* when there was no memory for it.                                        *)
THEOREM MessageHolds ==
  Spec => []HoldsWhatWasSet
<1>1. MessageInv => HoldsWhatWasSet
  BY DEF MessageInv
<1> QED
  BY <1>1, InitMessage, NextMessage, PTL DEF Spec

(* The variables of a message keep their ranges.                           *)
THEOREM MessageTypes ==
  Spec => []TypeOK
<1>1. MessageInv => TypeOK
  BY DEF MessageInv
<1> QED
  BY <1>1, InitMessage, NextMessage, PTL DEF Spec

-----------------------------------------------------------------------------
(* What the other end parses                                               *)

(* The headers after each of the first lines.                              *)
Parses(lines, kept, l, f) ==
  f = [i \in 0 .. l |->
         IF i = 0 THEN <<>>
         ELSE IF i \in kept THEN WithHeader(f[i - 1], lines[i].name, lines[i].value)
         ELSE f[i - 1]]

LEMMA ParsesExists ==
  ASSUME NEW lines, NEW kept, NEW n \in Nat
  PROVE  \E f : Parses(lines, kept, n, f)
<1> DEFINE with(hs, i) ==
             IF i \in kept THEN WithHeader(hs, lines[i].name, lines[i].value) ELSE hs
           S == {l \in Nat : \E f : f = [i \in 0 .. l |-> IF i = 0 THEN <<>> ELSE with(f[i - 1], i)]}
<1>1. S = {l \in Nat : \E f : Parses(lines, kept, l, f)}
  BY DEF Parses
<1> HIDE DEF with
<1>2. 0 \in S
  <2> DEFINE f == [i \in 0 .. 0 |-> <<>>]
  <2>1. f = [i \in 0 .. 0 |-> IF i = 0 THEN <<>> ELSE with(f[i - 1], i)]
    OBVIOUS
  <2> QED
    BY <2>1
<1>3. ASSUME NEW l \in Nat \ {0}, l - 1 \in S PROVE l \in S
  <2>1. PICK f : f = [i \in 0 .. l - 1 |-> IF i = 0 THEN <<>> ELSE with(f[i - 1], i)]
    BY <1>3
  <2> DEFINE g == [i \in 0 .. l |-> IF i < l THEN f[i] ELSE with(f[l - 1], i)]
  <2>2. ASSUME NEW i \in 0 .. l PROVE g[i] = IF i = 0 THEN <<>> ELSE with(g[i - 1], i)
    <3>1. CASE i < l
      <4>1. f[i] = IF i = 0 THEN <<>> ELSE with(f[i - 1], i)
        <5> DEFINE h(j) == IF j = 0 THEN <<>> ELSE with(f[j - 1], j)
        <5>1. f = [j \in 0 .. l - 1 |-> h(j)]
          BY <2>1
        <5> HIDE DEF h
        <5>2. f[i] = h(i)
          BY <3>1, <5>1
        <5> QED
          BY <5>2 DEF h
      <4>2. g[i] = f[i]
        BY <3>1
      <4>3. i # 0 => g[i - 1] = f[i - 1]
        BY <3>1
      <4> QED
        BY <4>1, <4>2, <4>3
    <3>2. CASE i = l
      <4>1. g[i] = with(f[l - 1], i) /\ g[i - 1] = f[l - 1] /\ i # 0
        BY <3>2
      <4> QED
        BY <4>1
    <3> QED
      BY <3>1, <3>2
  <2>3. g = [i \in 0 .. l |-> IF i = 0 THEN <<>> ELSE with(g[i - 1], i)]
    <3>1. g = [i \in 0 .. l |-> g[i]]
      OBVIOUS
    <3> HIDE DEF g
    <3> QED
      BY <2>2, <3>1
  <2> HIDE DEF g
  <2> QED
    BY <2>3
<1> HIDE DEF S
<1>4. Nat \subseteq S
  BY <1>2, <1>3, FromBelow
<1> QED
  BY <1>1, <1>4

(* The last of the first i lines named n, if there is one.                 *)
IsLast(lines, i, n, j) ==
  /\ j \in 1 .. i /\ Named(lines[j], n)
  /\ \A k \in 1 .. i : k > j => ~ Named(lines[k], n)

Written(lines, i, hs) ==
  \A h \in Range(hs) : \E j \in 1 .. i : Named(lines[j], h.name) /\ lines[j].value = h.value

Lossless(lines, i, hs) ==
  \A n : /\ \A j : IsLast(lines, i, n, j) => Header(hs, n) = lines[j].value
         /\ (\A j \in 1 .. i : ~ Named(lines[j], n)) => Header(hs, n) = None

(* Parsed headers are names without case, each with a value some line has  *)
(* for it: the last line's, when no line was left out.                     *)
LEMMA ParsedFacts ==
  ASSUME NEW V, NEW lines \in HeadersOf(V), NEW kept
  PROVE  LET hs == ParsedHeaders(lines, kept)
         IN  /\ hs \in HeadersOf(V) /\ Unique(hs)
             /\ Written(lines, Len(lines), hs)
             /\ kept = DOMAIN lines => Lossless(lines, Len(lines), hs)
<1> DEFINE l == Len(lines)
           f == CHOOSE f : Parses(lines, kept, l, f)
           Good(i, hs) == /\ hs \in HeadersOf(V) /\ Unique(hs)
                          /\ Written(lines, i, hs)
                          /\ kept = DOMAIN lines => Lossless(lines, i, hs)
           S == {i \in Nat : i <= l => Good(i, f[i])}
<1>1. l \in Nat /\ DOMAIN lines = 1 .. l /\ \A i \in 1 .. l : lines[i] \in [name : Names, value : V]
  BY LenProperties, ElementOfSeq DEF HeadersOf
<1>2. ParsedHeaders(lines, kept) = f[l]
  BY DEF ParsedHeaders, Parses
<1>3. Parses(lines, kept, l, f)
  BY <1>1, ParsesExists
<1> HIDE DEF f, Good
<1>4. /\ f[0] = <<>>
      /\ \A i \in 1 .. l :
           f[i] = IF i \in kept THEN WithHeader(f[i - 1], lines[i].name, lines[i].value) ELSE f[i - 1]
  <2> DEFINE h(i) == IF i = 0 THEN <<>>
                     ELSE IF i \in kept THEN WithHeader(f[i - 1], lines[i].name, lines[i].value)
                     ELSE f[i - 1]
  <2>1. f = [i \in 0 .. l |-> h(i)]
    BY <1>3 DEF Parses
  <2> HIDE DEF h
  <2>2. \A i \in 0 .. l : f[i] = h(i)
    BY <2>1
  <2> QED
    BY <1>1, <2>2 DEF h
<1>5. 0 \in S
  <2>1. <<>> \in HeadersOf(V) /\ Unique(<<>>) /\ Range(<<>>) = {} /\ DOMAIN <<>> = {}
    BY DEF HeadersOf, Unique, Range
  <2>2. \A n : Header(<<>>, n) = None
    BY <2>1, HeaderFacts
  <2>3. Good(0, <<>>)
    BY <2>1, <2>2 DEF Good, Written, Lossless, IsLast
  <2> QED
    BY <1>4, <2>3
<1>6. ASSUME NEW i \in Nat \ {0}, i - 1 \in S PROVE i \in S
  <2> SUFFICES ASSUME i <= l PROVE Good(i, f[i])
    OBVIOUS
  <2> DEFINE before == f[i - 1]
             line == lines[i]
  <2>1. /\ before \in HeadersOf(V) /\ Unique(before)
        /\ Written(lines, i - 1, before)
        /\ kept = DOMAIN lines => Lossless(lines, i - 1, before)
    BY <1>6 DEF Good
  <2>2. i \in 1 .. l /\ i \in DOMAIN lines /\ line.name \in Names /\ line.value \in V
    BY <1>1
  <2>3. f[i] = IF i \in kept THEN WithHeader(before, line.name, line.value) ELSE before
    BY <1>4, <2>2
  <2>4. \A j : j \in 1 .. i <=> j \in 1 .. i - 1 \/ j = i
    BY <2>2
  <2> HIDE DEF before
  <2>5. CASE i \notin kept
    <3>1. Written(lines, i, before)
      BY <2>1, <2>4 DEF Written
    <3> QED
      BY <2>1, <2>2, <2>3, <2>5, <3>1 DEF Good
  <2>6. CASE i \in kept
    <3> DEFINE w == WithHeader(before, line.name, line.value)
    <3>1. /\ w \in HeadersOf(V) /\ Unique(w)
          /\ \A m : Header(w, m) = IF Folded[m] = Folded[line.name] THEN line.value ELSE Header(before, m)
          /\ \A h \in Range(w) : h \in Range(before) \/ (Named(h, line.name) /\ h.value = line.value)
      BY <2>1, <2>2, WithHeaderFacts
    <3> HIDE DEF w
    <3>2. Written(lines, i, w)
      BY <2>1, <2>4, <3>1 DEF Written, Named
    <3>3. ASSUME kept = DOMAIN lines PROVE Lossless(lines, i, w)
      <4> SUFFICES ASSUME NEW n
                   PROVE  /\ \A j : IsLast(lines, i, n, j) => Header(w, n) = lines[j].value
                          /\ (\A j \in 1 .. i : ~ Named(lines[j], n)) => Header(w, n) = None
        BY DEF Lossless
      <4>1. /\ \A j : IsLast(lines, i - 1, n, j) => Header(before, n) = lines[j].value
            /\ (\A j \in 1 .. i - 1 : ~ Named(lines[j], n)) => Header(before, n) = None
        BY <2>1, <3>3 DEF Lossless
      <4>2. CASE Named(line, n)
        <5>1. Header(w, n) = line.value
          BY <3>1, <4>2 DEF Named
        <5>2. ASSUME NEW j, IsLast(lines, i, n, j) PROVE j = i
          <6>1. j \in 1 .. i /\ (i > j => ~ Named(line, n)) /\ i \in 1 .. i
            BY <2>2, <5>2 DEF IsLast
          <6> QED
            BY <4>2, <6>1
        <5> QED
          BY <2>4, <4>2, <5>1, <5>2
      <4>3. CASE ~ Named(line, n)
        <5>1. Header(w, n) = Header(before, n)
          BY <3>1, <4>3 DEF Named
        <5>2. ASSUME NEW j, IsLast(lines, i, n, j) PROVE IsLast(lines, i - 1, n, j)
          BY <2>4, <4>3, <5>2 DEF IsLast
        <5> QED
          BY <2>4, <4>1, <5>1, <5>2
      <4> QED
        BY <4>2, <4>3
    <3> QED
      BY <2>3, <2>6, <3>1, <3>2, <3>3 DEF Good, w
  <2> QED
    BY <2>5, <2>6
<1>7. l \in S
  <2> HIDE DEF S
  <2>1. Nat \subseteq S
    BY <1>5, <1>6, FromBelow
  <2> QED
    BY <1>1, <2>1
<1>8. Good(l, f[l])
  BY <1>1, <1>7
<1> QED
  BY <1>2, <1>8 DEF Good

-----------------------------------------------------------------------------
(* What was sent                                                           *)

LineValues == Values \cup {TheHost, Close} \cup Nat

HostLines == IF kind = "request" /\ start \notin LongPaths THEN <<Line(Host, TheHost)>> ELSE <<>>

LEMMA ContentsFacts ==
  ASSUME MessageInv
  PROVE  /\ \E S : Contents \in Seq(S)
         /\ Len(Contents) \in Nat
<1>1. \E S : Contents \in Seq(S)
  <2>1. Contents \in Seq(UNION {Range(x) : x \in Bodies})
    BY EmptySeq DEF MessageInv, TypeOK, Contents
  <2> QED
    BY <2>1
<1> QED
  BY <1>1, LenProperties

(* The lines, one by one.                                                  *)
LEMMA LinesFacts ==
  ASSUME MessageInv
  PROVE  LET k == Len(HostLines)
             l == Len(headers)
         IN  /\ k \in {0, 1} /\ l \in Nat
             /\ k = 1 <=> kind = "request" /\ start \notin LongPaths
             /\ Lines \in HeadersOf(LineValues)
             /\ Len(Lines) = k + l + 2
             /\ k = 1 => Lines[1] = Line(Host, TheHost)
             /\ \A i \in 1 .. l : Lines[k + i] = headers[i]
             /\ Lines[k + l + 1] = Line(ContentLength, Len(Contents))
             /\ Lines[k + l + 2] = Line(Connection, Close)
<1> DEFINE k == Len(HostLines)
           l == Len(headers)
           R == [name : Names, value : LineValues]
           last == <<Line(ContentLength, Len(Contents)), Line(Connection, Close)>>
<1>1. headers \in Seq(R) /\ l \in Nat
  <2>1. headers \in Seq([name : Names, value : Values])
    BY DEF MessageInv, TypeOK
  <2>2. [name : Names, value : Values] \subseteq R
    BY DEF LineValues
  <2> QED
    BY <2>1, <2>2, SeqMonotonic, LenProperties
<1>2. /\ Line(Host, TheHost) \in R /\ Line(ContentLength, Len(Contents)) \in R
      /\ Line(Connection, Close) \in R
  BY ContentsFacts, MessageAssumption DEF Line, LineValues
<1>3. /\ HostLines \in Seq(R) /\ k \in {0, 1}
      /\ k = 1 <=> kind = "request" /\ start \notin LongPaths
      /\ k = 1 => HostLines[1] = Line(Host, TheHost)
  <2>1. CASE kind = "request" /\ start \notin LongPaths
    <3>1. HostLines = <<Line(Host, TheHost)>>
      BY <2>1 DEF HostLines
    <3> HIDE DEF R
    <3> QED
      BY <1>2, <2>1, <3>1
  <2>2. CASE ~ (kind = "request" /\ start \notin LongPaths)
    <3>1. HostLines = <<>>
      BY <2>2 DEF HostLines
    <3> HIDE DEF R
    <3> QED
      BY <2>2, <3>1, EmptySeq
  <2> QED
    BY <2>1, <2>2
<1> HIDE DEF R
<1>4. last \in Seq(R) /\ Len(last) = 2
  BY <1>2
<1>5. last[1] = Line(ContentLength, Len(Contents)) /\ last[2] = Line(Connection, Close)
  OBVIOUS
<1>6. Lines = (HostLines \o headers) \o last
  BY DEF Lines, HostLines
<1> HIDE DEF last, k, l
<1>7. /\ HostLines \o headers \in Seq(R) /\ Len(HostLines \o headers) = k + l
      /\ k = 1 => (HostLines \o headers)[1] = HostLines[1]
      /\ \A i \in 1 .. l : (HostLines \o headers)[k + i] = headers[i]
  <2>1. HostLines \o headers \in Seq(R) /\ Len(HostLines \o headers) = k + l
    BY <1>1, <1>3, ConcatProperties DEF k, l
  <2>2. \A i \in 1 .. k + l :
          (HostLines \o headers)[i] = IF i <= k THEN HostLines[i] ELSE headers[i - k]
    BY <1>1, <1>3, ConcatProperties DEF k, l
  <2>3. ASSUME NEW i \in 1 .. l PROVE (HostLines \o headers)[k + i] = headers[i]
    <3>1. k + i \in 1 .. k + l /\ ~ (k + i <= k) /\ k + i - k = i
      BY <1>1, <1>3 DEF k, l
    <3> DEFINE j == k + i
               both == HostLines \o headers
    <3>2. both[j] = IF j <= k THEN HostLines[j] ELSE headers[j - k]
      BY <2>2, <3>1
    <3>3. j - k = i /\ ~ (j <= k)
      BY <1>1, <1>3 DEF k, l
    <3> HIDE DEF both, j
    <3>4. both[j] = headers[i]
      BY ONLY <3>2, <3>3
    <3> QED
      BY <3>4 DEF both, j
  <2>4. k = 1 => 1 \in 1 .. k + l /\ 1 <= k
    BY <1>1, <1>3 DEF k, l
  <2>5. k = 1 => (HostLines \o headers)[1] = HostLines[1]
    BY <2>2, <2>4
  <2> QED
    BY <2>1, <2>3, <2>5
<1> DEFINE front == HostLines \o headers
<1> HIDE DEF front
<1>8. /\ Lines \in Seq(R) /\ Len(Lines) = k + l + 2
      /\ \A i \in 1 .. k + l : Lines[i] = front[i]
      /\ Lines[k + l + 1] = last[1] /\ Lines[k + l + 2] = last[2]
  <2>1. front \in Seq(R) /\ Len(front) = k + l
    BY <1>7 DEF front
  <2>2. Lines = front \o last
    BY <1>6 DEF front
  <2>3. /\ Lines \in Seq(R) /\ Len(Lines) = Len(front) + Len(last)
        /\ \A i \in 1 .. Len(front) + Len(last) :
             Lines[i] = IF i <= Len(front) THEN front[i] ELSE last[i - Len(front)]
    BY <1>4, <2>1, <2>2, ConcatProperties
  <2>4. /\ Lines \in Seq(R) /\ Len(Lines) = k + l + 2
        /\ \A i \in 1 .. k + l + 2 : Lines[i] = IF i <= k + l THEN front[i] ELSE last[i - (k + l)]
    BY ONLY <1>4, <2>1, <2>3
  <2>5. /\ k + l + 1 \in 1 .. k + l + 2 /\ ~ (k + l + 1 <= k + l) /\ k + l + 1 - (k + l) = 1
        /\ k + l + 2 \in 1 .. k + l + 2 /\ ~ (k + l + 2 <= k + l) /\ k + l + 2 - (k + l) = 2
        /\ \A i \in 1 .. k + l : i \in 1 .. k + l + 2 /\ i <= k + l
    BY <1>1, <1>3 DEF k, l
  <2>6. \A i \in 1 .. k + l : Lines[i] = front[i]
    BY <2>4, <2>5
  <2>7. ASSUME NEW j \in {1, 2} PROVE Lines[k + l + j] = last[j]
    <3> DEFINE m == k + l + j
    <3>1. m \in 1 .. k + l + 2 /\ ~ (m <= k + l) /\ m - (k + l) = j
      BY <1>1, <1>3 DEF k, l
    <3>2. Lines[m] = IF m <= k + l THEN front[m] ELSE last[m - (k + l)]
      BY <2>4, <3>1
    <3> QED
      BY <3>1, <3>2
  <2>8. Lines[k + l + 1] = last[1] /\ Lines[k + l + 2] = last[2]
    BY <2>7
  <2> QED
    BY <2>4, <2>6, <2>8
<1>9. /\ k = 1 => 1 \in 1 .. k + l
      /\ \A i \in 1 .. l : k + i \in 1 .. k + l
  BY <1>1, <1>3 DEF k, l
<1> QED
  BY <1>1, <1>3, <1>5, <1>7, <1>8, <1>9 DEF front, R, k, l, HeadersOf

(* Whatever lengths the owner's headers give, the library's is the last.   *)
LEMMA LengthArrives ==
  ASSUME MessageInv
  PROVE  ReadBody(ParsedLength(Lines)) = Contents
<1> DEFINE c == Len(HostLines) + Len(headers) + 1
           I == {i \in 1 .. Len(Lines) : Folded[Lines[i].name] = Folded[ContentLength]}
<1>1. /\ Len(HostLines) \in {0, 1} /\ Len(headers) \in Nat /\ Len(Lines) = c + 1
      /\ Lines[c] = Line(ContentLength, Len(Contents)) /\ Lines[c + 1] = Line(Connection, Close)
  BY LinesFacts
<1>2. c \in Nat \ {0} /\ c \in I /\ c + 1 \notin I
  BY <1>1, MessageAssumption DEF Line
<1>3. \A i \in I : i \in Int /\ i <= c
  BY <1>1, <1>2
<1>4. SelectLastInSeq(Lines, LAMBDA x : Folded[x.name] = Folded[ContentLength]) = Max(I)
  BY <1>2 DEF SelectLastInSeq
<1> HIDE DEF I, c
<1>5. Max(I) = c
  <2>1. \E m \in I : \A i \in I : m >= i
    BY <1>2, <1>3
  <2>2. Max(I) \in I /\ \A i \in I : Max(I) >= i
    BY <2>1 DEF Max
  <2> QED
    BY <1>2, <1>3, <2>2 DEF c
<1>6. ParsedLength(Lines) = Len(Contents)
  BY <1>1, <1>4, <1>5, ContentsFacts DEF ParsedLength, Line
<1>7. Min({Len(Contents), Len(Contents)}) = Len(Contents)
  BY ContentsFacts DEF Min
<1>8. SubSeq(Contents, 1, Len(Contents)) = Contents
  BY ContentsFacts, SubSeqFull
<1> QED
  BY <1>6, <1>7, <1>8 DEF ReadBody

(* With every line parsed, a name the library does not write reads what    *)
(* the owner has set for it.                                               *)
LEMMA HeadersArrive ==
  ASSUME MessageInv, start \notin LongPaths,
         NEW hs, Lossless(Lines, Len(Lines), hs),
         NEW n \in Names, Folded[n] \notin Reserved
  PROVE  Header(hs, n) = Expected(Folded[n])
<1> DEFINE k == Len(HostLines)
           l == Len(headers)
<1>1. /\ k \in {0, 1} /\ l \in Nat /\ Len(Lines) = k + l + 2
      /\ k = 1 <=> kind = "request"
      /\ k = 1 => Lines[1] = Line(Host, TheHost)
      /\ \A i \in 1 .. l : Lines[k + i] = headers[i]
      /\ Lines[k + l + 1] = Line(ContentLength, Len(Contents))
      /\ Lines[k + l + 2] = Line(Connection, Close)
  BY LinesFacts
<1>2. /\ headers \in HeadersOf(Values) /\ Unique(headers) /\ DOMAIN headers = 1 .. l
      /\ Header(headers, n) = wanted[Folded[n]]
      /\ \A i \in 1 .. l : headers[i].value \in Values
  <2>1. headers \in HeadersOf(Values) /\ Unique(headers) /\ Header(headers, n) = wanted[Folded[n]]
    BY DEF MessageInv, TypeOK, HoldsWhatWasSet, HeadersOf, Unique
  <2>2. DOMAIN headers = 1 .. l /\ \A i \in 1 .. l : headers[i] \in [name : Names, value : Values]
    BY <2>1, LenProperties, ElementOfSeq DEF HeadersOf
  <2> QED
    BY <2>1, <2>2
<1>3. /\ \A j : IsLast(Lines, k + l + 2, n, j) => Header(hs, n) = Lines[j].value
      /\ (\A j \in 1 .. k + l + 2 : ~ Named(Lines[j], n)) => Header(hs, n) = None
  BY <1>1 DEF Lossless
<1> HIDE DEF k, l
<1>4. ~ Named(Lines[k + l + 1], n) /\ ~ Named(Lines[k + l + 2], n)
  BY <1>1 DEF Named, Line, Reserved
<1>5. \A j \in 1 .. k + l + 2 :
        \/ j = k + l + 1 \/ j = k + l + 2
        \/ j = 1 /\ k = 1
        \/ \E i \in 1 .. l : j = k + i
  <2> SUFFICES ASSUME NEW j \in 1 .. k + l + 2, j <= k + l, ~ (j = 1 /\ k = 1)
               PROVE  \E i \in 1 .. l : j = k + i
    BY <1>1
  <2>1. j - k \in 1 .. l /\ j = k + (j - k)
    BY <1>1
  <2> QED
    BY <2>1
<1>6. CASE \E i \in 1 .. l : Named(headers[i], n)
  <2>1. PICK i \in 1 .. l : Named(headers[i], n)
    BY <1>6
  <2>2. Header(headers, n) = headers[i].value
    BY <1>2, <2>1, HeaderFacts
  <2>3. wanted[Folded[n]] = headers[i].value /\ wanted[Folded[n]] # None
    BY <1>2, <2>1, <2>2, MessageAssumption
  <2>4. \A m \in 1 .. l : Named(headers[m], n) => m = i
    BY <1>2, <2>1 DEF Unique, Named
  <2>5. IsLast(Lines, k + l + 2, n, k + i)
    <3>1. k + i \in 1 .. k + l + 2 /\ Named(Lines[k + i], n)
      BY <1>1, <2>1
    <3>2. ASSUME NEW j \in 1 .. k + l + 2, j > k + i PROVE ~ Named(Lines[j], n)
      <4>1. CASE \E m \in 1 .. l : j = k + m
        <5>1. PICK m \in 1 .. l : j = k + m
          BY <4>1
        <5>2. m # i
          BY <1>1, <2>1, <3>2, <5>1
        <5> QED
          BY <1>1, <2>4, <5>1, <5>2
      <4>2. ~ (j = 1 /\ k = 1)
        BY <1>1, <2>1, <3>2
      <4> QED
        BY <1>4, <1>5, <4>1, <4>2
    <3> QED
      BY <3>1, <3>2 DEF IsLast
  <2>6. Header(hs, n) = headers[i].value
    BY <1>1, <1>3, <2>1, <2>5
  <2> QED
    BY <2>3, <2>6 DEF Expected
<1>7. CASE \A i \in 1 .. l : ~ Named(headers[i], n)
  <2>1. wanted[Folded[n]] = None
    BY <1>2, <1>7, HeaderFacts
  <2>2. \A i \in 1 .. l : ~ Named(Lines[k + i], n)
    BY <1>1, <1>7
  <2>3. CASE k = 1 /\ Folded[n] = Folded[Host]
    <3>1. Lines[1] = Line(Host, TheHost) /\ Named(Lines[1], n)
      BY <1>1, <2>3 DEF Named, Line
    <3>2. 1 \in 1 .. k + l + 2
      BY <1>1
    <3>3. \A j \in 1 .. k + l + 2 : j > 1 => ~ Named(Lines[j], n)
      BY <1>4, <1>5, <2>2
    <3>4. IsLast(Lines, k + l + 2, n, 1)
      BY <3>1, <3>2, <3>3 DEF IsLast
    <3>5. Header(hs, n) = TheHost
      BY <1>3, <3>1, <3>4 DEF Line
    <3>6. Expected(Folded[n]) = TheHost
      BY <1>1, <2>1, <2>3 DEF Expected
    <3> QED
      BY <3>5, <3>6
  <2>4. CASE ~ (k = 1 /\ Folded[n] = Folded[Host])
    <3>1. k = 1 => ~ Named(Lines[1], n)
      BY <1>1, <2>4 DEF Named, Line
    <3>2. \A j \in 1 .. k + l + 2 : ~ Named(Lines[j], n)
      BY <1>4, <1>5, <2>2, <3>1
    <3>3. Header(hs, n) = None
      BY <1>3, <3>2
    <3>4. Expected(Folded[n]) = None
      BY <1>1, <2>1, <2>4 DEF Expected
    <3> QED
      BY <3>3, <3>4
  <2> QED
    BY <2>3, <2>4
<1> QED
  BY <1>6, <1>7

LEMMA DeliverArrives ==
  ASSUME MessageInv, NEW kept, Deliver(kept)
  PROVE  MessageArrives'
<1> DEFINE hs == ParsedHeaders(Lines, kept)
           size == Len(Contents)
<1>0. PICK places \in Increasing(size) :
        received' = [start |-> IF start \in LongPaths THEN None ELSE start,
                     headers |-> hs, body |-> Stored(Contents, places),
                     lossless |-> kept = DOMAIN Lines, whole |-> places = [i \in 1 .. size |-> i]]
  BY LengthArrives DEF Deliver
<1> DEFINE whole == places = [i \in 1 .. size |-> i]
<1>1. /\ places \in Increasing(size)
      /\ received' = [start |-> IF start \in LongPaths THEN None ELSE start,
                      headers |-> hs, body |-> Stored(Contents, places),
                      lossless |-> kept = DOMAIN Lines, whole |-> whole]
      /\ UNCHANGED <<kind, start, headers, body, wanted>>
  BY <1>0 DEF Deliver, message
<1>2. Lines' = Lines /\ Contents' = Contents /\ \A c : Expected(c)' = Expected(c)
  BY <1>1 DEF Lines, Contents, Expected
<1>3. Lines \in HeadersOf(LineValues) /\ DOMAIN Lines = 1 .. Len(Lines)
  BY LinesFacts, LenProperties DEF HeadersOf
<1>4. /\ Written(Lines, Len(Lines), hs)
      /\ kept = DOMAIN Lines => Lossless(Lines, Len(Lines), hs)
  BY <1>3, ParsedFacts
<1> HIDE DEF hs
<1>5. /\ received'.whole => received'.body = Contents'
      /\ \E p \in Increasing(Len(Contents')) : received'.body = Stored(Contents', p)
  <2>1. whole => Stored(Contents, places) = Contents
    <3> SUFFICES ASSUME whole PROVE Stored(Contents, places) = Contents
      OBVIOUS
    <3>1. PICK S : Contents \in Seq(S)
      BY ContentsFacts
    <3>2. DOMAIN places = 1 .. size /\ \A i \in 1 .. size : places[i] = i
      OBVIOUS
    <3>3. Stored(Contents, places) = [i \in 1 .. size |-> Contents[i]]
      BY <3>2 DEF Stored
    <3> QED
      BY <3>1, <3>3, LenProperties
  <2> HIDE DEF size, whole
  <2>2. received'.whole = whole /\ received'.body = Stored(Contents, places)
    BY <1>1
  <2> QED
    BY <1>1, <1>2, <2>1, <2>2 DEF size
<1>6. received'.lossless /\ start' \notin LongPaths =>
        \A n \in Names : Folded[n] \notin Reserved => Header(received'.headers, n) = Expected(Folded[n])'
  <2> SUFFICES ASSUME kept = DOMAIN Lines, start \notin LongPaths,
                      NEW n \in Names, Folded[n] \notin Reserved
               PROVE  Header(hs, n) = Expected(Folded[n])
    BY <1>1, <1>2
  <2> QED
    BY <1>4, HeadersArrive
<1>7. \A h \in Range(received'.headers) :
        \E l \in Range(Lines') : Folded[l.name] = Folded[h.name] /\ l.value = h.value
  <2>1. \A j \in 1 .. Len(Lines) : Lines[j] \in Range(Lines)
    BY <1>3 DEF Range
  <2>2. \A h \in Range(hs) : \E l \in Range(Lines) : Folded[l.name] = Folded[h.name] /\ l.value = h.value
    BY <1>4, <2>1 DEF Written, Named
  <2> QED
    BY <1>1, <1>2, <2>2
<1> QED
  BY <1>5, <1>6, <1>7 DEF MessageArrives

(* What the other end parses has the body that was sent, whatever lengths  *)
(* the headers give, or, when pieces of it found no memory, the others in  *)
(* their order; with memory for the lines, it reads every header the owner *)
(* has set, the Host line among them; without, none reads a value that was *)
(* not written for its name.                                               *)
THEOREM MessageDelivered ==
  Spec => []MessageArrives
<1>1. Init => MessageArrives
  BY DEF Init, MessageArrives
<1>2. MessageInv /\ MessageArrives /\ [Next]_vars => MessageArrives'
  <2> SUFFICES ASSUME MessageInv, MessageArrives, [Next]_vars PROVE MessageArrives'
    OBVIOUS
  <2>1. ASSUME received' = None PROVE MessageArrives'
    BY <2>1 DEF MessageArrives
  <2>2. ASSUME NEW kept, Deliver(kept) PROVE MessageArrives'
    BY <2>2, DeliverArrives
  <2>3. CASE UNCHANGED vars
    BY <2>3 DEF vars, message, MessageArrives, Contents, Lines, Expected
  <2>4. CASE \/ \E p \in Paths : CreateRequest(p)
             \/ CreateResponse \/ SetHeaderFails \/ DeliverFails \/ Destroy
             \/ \E s \in Statuses : SetStatus(s)
             \/ \E n \in Names, v \in Values : SetHeader(n, v)
             \/ \E x \in Bodies : SetBody(x) \/ SetBodyFails(x)
    BY <2>1, <2>4 DEF CreateRequest, CreateResponse, SetHeaderFails, DeliverFails, Destroy,
                      SetStatus, SetHeader, SetBody, SetBodyFails
  <2> QED
    BY <2>2, <2>3, <2>4 DEF Next
<1> QED
  BY <1>1, <1>2, InitMessage, NextMessage, PTL DEF Spec

=============================================================================
