----------------------------- MODULE TextProofs -----------------------------
(***************************************************************************)
(* The path functions agree with one another on every path, and what the   *)
(* converters and the growing blocks write fits the room they have, for    *)
(* every alphabet, every length and every width of a size_t.  The          *)
(* validator of UTF-8 accepts what the table of the standard does, and     *)
(* what is written in Base64, Hex, UTF-8, UTF-16, a JSON literal or a      *)
(* command line is read back, for texts of every length.                   *)
(***************************************************************************)
EXTENDS Text, SequenceTheorems, WellFoundedInduction, TLAPS

-----------------------------------------------------------------------------
(* Numbers                                                                 *)

LEMMA LeastOf ==
  ASSUME NEW T \in SUBSET Nat, T # {}
  PROVE  Min(T) \in T /\ \A m \in T : Min(T) <= m
<1>1. PICK n \in T : \A m \in T : ~ (<<m, n>> \in OpToRel(<, Nat))
  BY NatLessThanWellFounded, WFMin
<1>2. ASSUME NEW m \in T PROVE n <= m
  <2>1. m \in Nat /\ n \in Nat
    OBVIOUS
  <2>2. ~ (m < n)
    BY <1>1, <2>1 DEF OpToRel
  <2> QED
    BY <2>1, <2>2
<1> QED
  BY <1>2 DEF Min

LEMMA GreatestOf ==
  ASSUME NEW n \in Nat, NEW T \in SUBSET (0 .. n), T # {}
  PROVE  Max(T) \in T /\ \A m \in T : m <= Max(T)
<1> DEFINE U == {n - k : k \in T}
<1>1. U \in SUBSET Nat /\ U # {}
  <2>1. \A k \in T : n - k \in Nat
    OBVIOUS
  <2> QED
    BY <2>1
<1>2. Min(U) \in U /\ \A u \in U : Min(U) <= u
  BY <1>1, LeastOf
<1>3. PICK m \in T : Min(U) = n - m
  BY <1>2
<1>4. ASSUME NEW k \in T PROVE k <= m
  <2>1. n - m <= n - k
    BY <1>2, <1>3
  <2> QED
    BY <2>1
<1>5. \A k \in T : m >= k
  BY <1>4
<1>6. Max(T) \in T /\ \A k \in T : Max(T) >= k
  BY <1>5 DEF Max
<1>7. T \subseteq Nat
  OBVIOUS
<1> QED
  BY <1>6, <1>7

LEMMA FromBelow ==
  ASSUME NEW S, 0 \in S, \A n \in Nat \ {0} : n - 1 \in S => n \in S
  PROVE  Nat \subseteq S
<1> DEFINE T == Nat \ S
<1> SUFFICES ASSUME T # {} PROVE FALSE
  OBVIOUS
<1>1. PICK n \in T : \A m \in T : ~ (<<m, n>> \in OpToRel(<, Nat))
  BY NatLessThanWellFounded, WFMin
<1>2. n \in Nat \ {0} /\ n - 1 \in Nat /\ n - 1 < n
  OBVIOUS
<1>3. n - 1 \notin T
  BY <1>1, <1>2 DEF OpToRel
<1> QED
  BY <1>2, <1>3

-----------------------------------------------------------------------------
(* The input                                                               *)

\* The input is a sequence of the characters of its kind.
Typed == kind \in Kinds /\ text \in Seq(Alphabet[kind])

LEMMA InputTyped == Spec => []Typed
<1>1. Init => Typed
  BY EmptySeq DEF Init, Typed
<1>2. Typed /\ [Next]_vars => Typed'
  <2> SUFFICES ASSUME Typed, [Next]_vars PROVE Typed'
    OBVIOUS
  <2>1. CASE Grow
    <3>1. PICK c \in Alphabet[kind] : text' = Append(text, c)
      BY <2>1 DEF Grow
    <3>2. Append(text, c) \in Seq(Alphabet[kind])
      BY AppendProperties DEF Typed
    <3> QED
      BY <2>1, <3>1, <3>2 DEF Grow, Typed
  <2>2. CASE UNCHANGED vars
    BY <2>2 DEF vars, Typed
  <2> QED
    BY <2>1, <2>2 DEF Next
<1> QED
  BY <1>1, <1>2, PTL DEF Spec

LEMMA Alphabets ==
  /\ "bytes" \in Kinds => Alphabet["bytes"] \subseteq 0 .. 255
  /\ "utf8" \in Kinds => Alphabet["utf8"] \subseteq 1 .. 255
  /\ "utf16" \in Kinds => Alphabet["utf16"] \subseteq CodeUnits
  /\ "string" \in Kinds => Alphabet["string"] \subseteq 1 .. 255
  /\ "literal" \in Kinds => Alphabet["literal"] \subseteq Items
  /\ "appends" \in Kinds =>
       Alphabet["appends"] \subseteq [op : {"append"}, size : 0 .. MaxBlock - 1, memory : BOOLEAN]
  /\ "writes" \in Kinds =>
       Alphabet["writes"] \subseteq [op : {"write", "clear"}, size : 0 .. MaxBlock, memory : BOOLEAN]
BY TextAssumption, Zenon

-----------------------------------------------------------------------------
(* Where a path's separators are                                           *)

\* Where the last character that is no separator is, and the first one.
EndOf(a) == Max({i \in DOMAIN a : ~IsSep(a[i])} \cup {0})
StartOf(b) == Min({i \in DOMAIN b : ~IsSep(b[i])} \cup {Len(b) + 1})

LEMMA EndFacts ==
  ASSUME NEW S, NEW a \in Seq(S)
  PROVE  /\ EndOf(a) \in 0 .. Len(a)
         /\ EndOf(a) > 0 => ~IsSep(a[EndOf(a)])
         /\ \A i \in EndOf(a) + 1 .. Len(a) : IsSep(a[i])
<1> DEFINE T == {i \in DOMAIN a : ~IsSep(a[i])} \cup {0}
<1>1. Len(a) \in Nat /\ DOMAIN a = 1 .. Len(a)
  BY LenProperties
<1>2. T \in SUBSET (0 .. Len(a)) /\ T # {}
  BY <1>1
<1>3. Max(T) \in T /\ \A m \in T : m <= Max(T)
  BY <1>1, <1>2, GreatestOf
<1>4. EndOf(a) = Max(T)
  BY DEF EndOf
<1>5. EndOf(a) \in 0 .. Len(a)
  BY <1>2, <1>3, <1>4
<1>6. EndOf(a) > 0 => ~IsSep(a[EndOf(a)])
  BY <1>3, <1>4, <1>5
<1>7. ASSUME NEW i \in EndOf(a) + 1 .. Len(a) PROVE IsSep(a[i])
  <2>1. i \in DOMAIN a /\ ~(i <= EndOf(a))
    BY <1>1, <1>5
  <2> QED
    BY <1>3, <1>4, <2>1
<1> QED
  BY <1>5, <1>6, <1>7

LEMMA EndIs ==
  ASSUME NEW S, NEW a \in Seq(S), NEW n \in 0 .. Len(a), n > 0 => ~IsSep(a[n]),
         \A i \in n + 1 .. Len(a) : IsSep(a[i])
  PROVE  EndOf(a) = n
<1>1. Len(a) \in Nat
  BY LenProperties
<1>2. /\ EndOf(a) \in 0 .. Len(a) /\ (EndOf(a) > 0 => ~IsSep(a[EndOf(a)]))
      /\ \A i \in EndOf(a) + 1 .. Len(a) : IsSep(a[i])
  BY EndFacts
<1> DEFINE e == EndOf(a)
<1> HIDE DEF e
<1>3. ~ (n > e)
  BY <1>1, <1>2 DEF e
<1>4. ~ (n < e)
  BY <1>1, <1>2 DEF e
<1> QED
  BY <1>1, <1>2, <1>3, <1>4 DEF e

LEMMA StartFacts ==
  ASSUME NEW S, NEW b \in Seq(S)
  PROVE  /\ StartOf(b) \in 1 .. Len(b) + 1
         /\ StartOf(b) <= Len(b) => ~IsSep(b[StartOf(b)])
         /\ \A i \in 1 .. StartOf(b) - 1 : IsSep(b[i])
<1> DEFINE T == {i \in DOMAIN b : ~IsSep(b[i])} \cup {Len(b) + 1}
<1>1. Len(b) \in Nat /\ DOMAIN b = 1 .. Len(b)
  BY LenProperties
<1>2. T \in SUBSET (1 .. Len(b) + 1) /\ T # {} /\ T \in SUBSET Nat
  BY <1>1
<1>3. Min(T) \in T /\ \A m \in T : Min(T) <= m
  BY <1>2, LeastOf
<1>4. StartOf(b) = Min(T)
  BY DEF StartOf
<1>5. StartOf(b) \in 1 .. Len(b) + 1
  BY <1>2, <1>3, <1>4
<1>6. StartOf(b) <= Len(b) => ~IsSep(b[StartOf(b)])
  BY <1>1, <1>3, <1>4, <1>5
<1>7. ASSUME NEW i \in 1 .. StartOf(b) - 1 PROVE IsSep(b[i])
  <2>1. i \in DOMAIN b /\ ~(StartOf(b) <= i)
    BY <1>1, <1>5
  <2> QED
    BY <1>3, <1>4, <2>1
<1> QED
  BY <1>5, <1>6, <1>7

LEMMA StartIs ==
  ASSUME NEW S, NEW b \in Seq(S), NEW n \in 1 .. Len(b) + 1, n <= Len(b) => ~IsSep(b[n]),
         \A i \in 1 .. n - 1 : IsSep(b[i])
  PROVE  StartOf(b) = n
<1>1. Len(b) \in Nat
  BY LenProperties
<1>2. /\ StartOf(b) \in 1 .. Len(b) + 1 /\ (StartOf(b) <= Len(b) => ~IsSep(b[StartOf(b)]))
      /\ \A i \in 1 .. StartOf(b) - 1 : IsSep(b[i])
  BY StartFacts
<1> DEFINE e == StartOf(b)
<1> HIDE DEF e
<1>3. ~ (n > e)
  BY <1>1, <1>2 DEF e
<1>4. ~ (n < e)
  BY <1>1, <1>2 DEF e
<1> QED
  BY <1>1, <1>2, <1>3, <1>4 DEF e

LEMMA LastSepFacts ==
  ASSUME NEW S, NEW p \in Seq(S)
  PROVE  /\ LastSep(p) \in 0 .. Len(p)
         /\ LastSep(p) > 0 => IsSep(p[LastSep(p)])
         /\ \A i \in LastSep(p) + 1 .. Len(p) : ~IsSep(p[i])
<1> DEFINE T == {i \in DOMAIN p : IsSep(p[i])} \cup {0}
<1>1. Len(p) \in Nat /\ DOMAIN p = 1 .. Len(p)
  BY LenProperties
<1>2. T \in SUBSET (0 .. Len(p)) /\ T # {}
  BY <1>1
<1>3. Max(T) \in T /\ \A m \in T : m <= Max(T)
  BY <1>1, <1>2, GreatestOf
<1>4. LastSep(p) = Max(T)
  BY DEF LastSep
<1>5. LastSep(p) \in 0 .. Len(p)
  BY <1>2, <1>3, <1>4
<1>6. LastSep(p) > 0 => IsSep(p[LastSep(p)])
  BY <1>3, <1>4, <1>5
<1>7. ASSUME NEW i \in LastSep(p) + 1 .. Len(p) PROVE ~IsSep(p[i])
  <2>1. i \in DOMAIN p /\ ~(i <= LastSep(p))
    BY <1>1, <1>5
  <2> QED
    BY <1>3, <1>4, <2>1
<1> QED
  BY <1>5, <1>6, <1>7

LEMMA LastSepIs ==
  ASSUME NEW S, NEW p \in Seq(S), NEW n \in 0 .. Len(p), n > 0 => IsSep(p[n]),
         \A i \in n + 1 .. Len(p) : ~IsSep(p[i])
  PROVE  LastSep(p) = n
<1>1. Len(p) \in Nat
  BY LenProperties
<1>2. /\ LastSep(p) \in 0 .. Len(p) /\ (LastSep(p) > 0 => IsSep(p[LastSep(p)]))
      /\ \A i \in LastSep(p) + 1 .. Len(p) : ~IsSep(p[i])
  BY LastSepFacts
<1> DEFINE e == LastSep(p)
<1> HIDE DEF e
<1>3. ~ (n > e)
  BY <1>1, <1>2 DEF e
<1>4. ~ (n < e)
  BY <1>1, <1>2 DEF e
<1> QED
  BY <1>1, <1>2, <1>3, <1>4 DEF e

-----------------------------------------------------------------------------
(* What is left without them                                               *)

LEMMA TrailFacts ==
  ASSUME NEW S, NEW a \in Seq(S)
  PROVE  /\ WithoutTrailing(a) \in Seq(S) /\ Len(WithoutTrailing(a)) = EndOf(a)
         /\ \A i \in 1 .. EndOf(a) : WithoutTrailing(a)[i] = a[i]
         /\ WithoutTrailing(a) = <<>> <=> EndOf(a) = 0
<1>1. Len(a) \in Nat /\ \A i \in 1 .. Len(a) : a[i] \in S
  BY LenProperties, ElementOfSeq
<1>2. EndOf(a) \in 0 .. Len(a)
  BY EndFacts
<1> DEFINE e == EndOf(a)
<1>3. WithoutTrailing(a) = SubSeq(a, 1, e)
  BY DEF WithoutTrailing, EndOf
<1> HIDE DEF e
<1>4. \A i \in 1 .. e : a[i] \in S
  BY <1>1, <1>2 DEF e
<1>5. /\ SubSeq(a, 1, e) \in Seq(S) /\ Len(SubSeq(a, 1, e)) = (IF 1 <= e THEN e - 1 + 1 ELSE 0)
      /\ \A i \in 1 .. e - 1 + 1 : SubSeq(a, 1, e)[i] = a[1 + i - 1]
  BY <1>2, <1>4, SubSeqProperties DEF e
<1>6. e \in Nat /\ Len(SubSeq(a, 1, e)) = e
  BY <1>1, <1>2, <1>5 DEF e
<1>7. ASSUME NEW i \in 1 .. e PROVE SubSeq(a, 1, e)[i] = a[i]
  <2>1. 1 + i - 1 = i /\ i \in 1 .. e - 1 + 1
    BY <1>6
  <2> QED
    BY <1>5, <2>1
<1>8. SubSeq(a, 1, e) = <<>> <=> e = 0
  BY <1>5, <1>6, EmptySeq
<1> QED
  BY <1>3, <1>5, <1>6, <1>7, <1>8 DEF e

LEMMA LeadFacts ==
  ASSUME NEW S, NEW b \in Seq(S)
  PROVE  /\ WithoutLeading(b) \in Seq(S) /\ Len(WithoutLeading(b)) = Len(b) - StartOf(b) + 1
         /\ \A i \in 1 .. Len(b) - StartOf(b) + 1 : WithoutLeading(b)[i] = b[i + StartOf(b) - 1]
         /\ WithoutLeading(b) = <<>> <=> StartOf(b) = Len(b) + 1
<1>1. Len(b) \in Nat /\ \A i \in 1 .. Len(b) : b[i] \in S
  BY LenProperties, ElementOfSeq
<1>2. StartOf(b) \in 1 .. Len(b) + 1
  BY StartFacts
<1> DEFINE l == Len(b)
           e == StartOf(b)
           w == SubSeq(b, e, l)
<1>3. WithoutLeading(b) = w
  BY DEF WithoutLeading, StartOf
<1> HIDE DEF e, l
<1>4. l \in Nat /\ e \in 1 .. l + 1 /\ \A i \in e .. l : b[i] \in S
  BY <1>1, <1>2 DEF e, l
<1>5. /\ w \in Seq(S) /\ Len(w) = (IF e <= l THEN l - e + 1 ELSE 0)
      /\ \A i \in 1 .. l - e + 1 : w[i] = b[e + i - 1]
  BY <1>4, SubSeqProperties
<1> HIDE DEF w
<1>6. Len(w) = l - e + 1
  BY <1>4, <1>5
<1>7. ASSUME NEW i \in 1 .. l - e + 1 PROVE w[i] = b[i + e - 1]
  <2>1. e + i - 1 = i + e - 1
    BY <1>4
  <2> QED
    BY <1>5, <2>1
<1>8. w = <<>> <=> e = l + 1
  BY <1>4, <1>5, <1>6, EmptySeq
<1> QED
  BY <1>3, <1>5, <1>6, <1>7, <1>8 DEF e, l

\* The last name of two paths, written one after the other, is the second's.
LEMMA TrailOfConcat ==
  ASSUME NEW S, NEW x \in Seq(S), NEW y \in Seq(S), WithoutTrailing(y) # <<>>
  PROVE  WithoutTrailing(x \o y) = x \o WithoutTrailing(y)
<1> DEFINE z == x \o y
           w == WithoutTrailing(y)
           n == EndOf(y)
           l == Len(x)
<1>1. /\ z \in Seq(S) /\ Len(z) = l + Len(y) /\ l \in Nat /\ Len(y) \in Nat
      /\ \A i \in 1 .. l + Len(y) : z[i] = IF i <= l THEN x[i] ELSE y[i - l]
  BY ConcatProperties, LenProperties
<1>2. /\ w \in Seq(S) /\ Len(w) = n /\ n # 0 /\ \A i \in 1 .. n : w[i] = y[i]
  BY TrailFacts
<1>3. n \in 0 .. Len(y) /\ ~IsSep(y[n]) /\ \A i \in n + 1 .. Len(y) : IsSep(y[i])
  BY <1>1, <1>2, EndFacts
<1> HIDE DEF z, w, n, l
<1>4. EndOf(z) = l + n
  <2>1. l + n \in 0 .. Len(z)
    BY <1>1, <1>3
  <2>2. ~IsSep(z[l + n])
    <3>1. z[l + n] = y[n]
      <4> DEFINE j == l + n
      <4>1. j \in 1 .. l + Len(y) /\ ~ (j <= l) /\ j - l = n
        BY <1>1, <1>2, <1>3
      <4> HIDE DEF j
      <4>2. z[j] = y[n]
        BY <1>1, <4>1
      <4> QED
        BY <4>2 DEF j
    <3> QED
      BY <1>3, <3>1
  <2>3. ASSUME NEW i \in l + n + 1 .. Len(z) PROVE IsSep(z[i])
    <3>1. i \in 1 .. l + Len(y) /\ ~ (i <= l) /\ i - l \in n + 1 .. Len(y)
      BY <1>1, <1>3
    <3> QED
      BY <1>1, <1>3, <3>1
  <2> QED
    BY <1>1, <2>1, <2>2, <2>3, EndIs
<1>5. /\ WithoutTrailing(z) \in Seq(S) /\ Len(WithoutTrailing(z)) = l + n
      /\ \A i \in 1 .. l + n : WithoutTrailing(z)[i] = z[i]
  BY <1>1, <1>4, TrailFacts
<1>6. /\ x \o w \in Seq(S) /\ Len(x \o w) = l + n
      /\ \A i \in 1 .. l + n : (x \o w)[i] = IF i <= l THEN x[i] ELSE w[i - l]
  BY <1>2, ConcatProperties DEF l
<1>7. ASSUME NEW i \in 1 .. l + n PROVE WithoutTrailing(z)[i] = (x \o w)[i]
  <2>1. CASE i <= l
    BY <1>1, <1>3, <1>5, <1>6, <2>1
  <2>2. CASE ~ (i <= l)
    <3>1. i - l \in 1 .. n /\ i \in 1 .. l + Len(y)
      BY <1>1, <1>3, <2>2
    <3> QED
      BY <1>1, <1>2, <1>5, <1>6, <2>2, <3>1
  <2> QED
    BY <2>1, <2>2
<1>8. WithoutTrailing(z) = x \o w
  BY <1>5, <1>6, <1>7, SeqEqual
<1> QED
  BY <1>8 DEF z, w

LEMMA LeadOfConcat ==
  ASSUME NEW S, NEW x \in Seq(S), NEW y \in Seq(S), WithoutLeading(x) # <<>>
  PROVE  WithoutLeading(x \o y) = WithoutLeading(x) \o y
<1> DEFINE z == x \o y
           w == WithoutLeading(x)
           n == StartOf(x)
           l == Len(x)
           m == Len(y)
<1>1. /\ z \in Seq(S) /\ Len(z) = l + m /\ l \in Nat /\ m \in Nat
      /\ \A i \in 1 .. l + m : z[i] = IF i <= l THEN x[i] ELSE y[i - l]
  BY ConcatProperties, LenProperties
<1>2. /\ w \in Seq(S) /\ Len(w) = l - n + 1 /\ n # l + 1
      /\ \A i \in 1 .. l - n + 1 : w[i] = x[i + n - 1]
  BY LeadFacts
<1>3. n \in 1 .. l /\ ~IsSep(x[n]) /\ \A i \in 1 .. n - 1 : IsSep(x[i])
  BY <1>1, <1>2, StartFacts
<1> HIDE DEF z, w, n, l, m
<1>4. StartOf(z) = n
  <2>1. n \in 1 .. Len(z) + 1 /\ ~IsSep(z[n]) /\ \A i \in 1 .. n - 1 : IsSep(z[i])
    BY <1>1, <1>3
  <2> QED
    BY <1>1, <2>1, StartIs
<1> DEFINE v == WithoutLeading(z)
<1>5. /\ v \in Seq(S) /\ Len(v) = l + m - n + 1
      /\ \A i \in 1 .. l + m - n + 1 : v[i] = z[i + n - 1]
  <2>1. /\ v \in Seq(S) /\ Len(v) = Len(z) - StartOf(z) + 1
        /\ \A i \in 1 .. Len(z) - StartOf(z) + 1 : v[i] = z[i + StartOf(z) - 1]
    BY <1>1, LeadFacts
  <2>2. Len(z) - StartOf(z) + 1 = l + m - n + 1
    BY <1>1, <1>3, <1>4
  <2> HIDE DEF v
  <2> DEFINE top == l + m - n + 1
  <2> HIDE DEF top
  <2>3. v \in Seq(S) /\ Len(v) = top /\ \A i \in 1 .. top : v[i] = z[i + n - 1]
    BY <1>4, <2>1, <2>2 DEF top
  <2> QED
    BY <2>3 DEF top
<1> DEFINE k == l - n + 1
<1>6. k \in Nat /\ k + m = l + m - n + 1 /\ k = l - n + 1
  BY <1>1, <1>3
<1> HIDE DEF k, v
<1>7. /\ w \o y \in Seq(S) /\ Len(w \o y) = k + m
      /\ \A i \in 1 .. k + m : (w \o y)[i] = IF i <= k THEN w[i] ELSE y[i - k]
  <2>1. /\ w \o y \in Seq(S) /\ Len(w \o y) = Len(w) + Len(y)
        /\ \A i \in 1 .. Len(w) + Len(y) : (w \o y)[i] = IF i <= Len(w) THEN w[i] ELSE y[i - Len(w)]
    BY <1>2, ConcatProperties
  <2>2. Len(w) = k /\ Len(y) = m
    BY <1>2, <1>6 DEF m
  <2> QED
    BY <2>1, <2>2
<1>8. ASSUME NEW i \in 1 .. k + m PROVE v[i] = (w \o y)[i]
  <2> DEFINE j == i + n - 1
  <2>1. j \in 1 .. l + m /\ v[i] = z[j]
    BY <1>1, <1>3, <1>5, <1>6
  <2>2. CASE i <= k
    <3>1. j <= l /\ w[i] = x[j]
      BY <1>1, <1>2, <1>3, <1>6, <2>2
    <3> QED
      BY <1>1, <1>7, <2>1, <2>2, <3>1
  <2>3. CASE ~ (i <= k)
    <3>1. ~ (j <= l) /\ j - l = i - k
      BY <1>1, <1>3, <1>6, <2>3
    <3> QED
      BY <1>1, <1>7, <2>1, <2>3, <3>1
  <2> QED
    BY <2>2, <2>3
<1>9. v = w \o y
  BY <1>5, <1>6, <1>7, <1>8, SeqEqual
<1> QED
  BY <1>9 DEF z, w, v

\* Only separators: nothing is left on either side.
LEMMA NothingLeft ==
  ASSUME NEW S, NEW a \in Seq(S)
  PROVE  WithoutTrailing(a) = <<>> <=> WithoutLeading(a) = <<>>
<1> DEFINE e == EndOf(a)
           s == StartOf(a)
           l == Len(a)
<1>1. /\ e \in 0 .. l /\ (e > 0 => ~IsSep(a[e])) /\ \A i \in e + 1 .. l : IsSep(a[i])
  BY EndFacts
<1>2. /\ s \in 1 .. l + 1 /\ (s <= l => ~IsSep(a[s])) /\ \A i \in 1 .. s - 1 : IsSep(a[i])
  BY StartFacts
<1>3. l \in Nat
  BY LenProperties
<1>4. WithoutTrailing(a) = <<>> <=> e = 0
  BY TrailFacts
<1>5. WithoutLeading(a) = <<>> <=> s = l + 1
  BY LeadFacts
<1> HIDE DEF e, s, l
<1>6. e = 0 => ~ (s <= l)
  BY <1>1, <1>2, <1>3
<1>7. s = l + 1 => ~ (e > 0)
  BY <1>1, <1>2, <1>3
<1> QED
  BY <1>1, <1>2, <1>3, <1>4, <1>5, <1>6, <1>7

LEMMA NothingStays == WithoutTrailing(<<>>) = <<>> /\ WithoutLeading(<<>>) = <<>>
<1>1. <<>> \in Seq(Nat) /\ Len(<<>>) = 0
  BY EmptySeq
<1>2. EndOf(<<>>) \in 0 .. Len(<<>>)
  BY <1>1, EndFacts
<1>3. EndOf(<<>>) = 0
  BY <1>1, <1>2
<1> QED
  BY <1>1, <1>3, TrailFacts, NothingLeft

\* The two commute, and taking one again takes nothing.
LEMMA BothSides ==
  ASSUME NEW S, NEW a \in Seq(S)
  PROVE  /\ WithoutTrailing(WithoutLeading(a)) = WithoutLeading(WithoutTrailing(a))
         /\ WithoutTrailing(WithoutTrailing(a)) = WithoutTrailing(a)
         /\ WithoutLeading(WithoutLeading(a)) = WithoutLeading(a)
         /\ WithoutTrailing(a) # <<>> => WithoutTrailing(WithoutLeading(a)) # <<>>
<1> DEFINE e == EndOf(a)
           s == StartOf(a)
           l == Len(a)
           x == WithoutTrailing(a)
           y == WithoutLeading(a)
<1>1. /\ e \in 0 .. l /\ (e > 0 => ~IsSep(a[e])) /\ \A i \in e + 1 .. l : IsSep(a[i])
  BY EndFacts
<1>2. /\ s \in 1 .. l + 1 /\ (s <= l => ~IsSep(a[s])) /\ \A i \in 1 .. s - 1 : IsSep(a[i])
  BY StartFacts
<1>3. l \in Nat
  BY LenProperties
<1>4. x \in Seq(S) /\ Len(x) = e /\ (\A i \in 1 .. e : x[i] = a[i]) /\ (x = <<>> <=> e = 0)
  BY TrailFacts
<1>5. /\ y \in Seq(S) /\ Len(y) = l - s + 1 /\ (\A i \in 1 .. l - s + 1 : y[i] = a[i + s - 1])
      /\ y = <<>> <=> s = l + 1
  BY LeadFacts
<1>6. x = <<>> <=> y = <<>>
  BY NothingLeft
<1> HIDE DEF e, s, l, x, y
<1>7. WithoutTrailing(x) = x
  <2>1. EndOf(x) = e
    <3>1. e \in 0 .. Len(x) /\ (e > 0 => ~IsSep(x[e])) /\ \A i \in e + 1 .. Len(x) : IsSep(x[i])
      BY <1>1, <1>3, <1>4
    <3> QED
      BY <1>4, <3>1, EndIs
  <2>2. /\ WithoutTrailing(x) \in Seq(S) /\ Len(WithoutTrailing(x)) = e
        /\ \A i \in 1 .. e : WithoutTrailing(x)[i] = x[i]
    BY <1>4, <2>1, TrailFacts
  <2> QED
    BY <1>4, <2>2, SeqEqual
<1>8. WithoutLeading(y) = y
  <2>1. StartOf(y) = 1
    <3>1. Len(y) \in Nat /\ (1 <= Len(y) => y[1] = a[s])
      <4>1. Len(y) \in Nat /\ (1 <= Len(y) => 1 \in 1 .. l - s + 1 /\ 1 + s - 1 = s)
        BY <1>2, <1>3, <1>5
      <4> QED
        BY <1>5, <4>1
    <3>2. 1 \in 1 .. Len(y) + 1 /\ (1 <= Len(y) => ~IsSep(y[1])) /\ \A i \in 1 .. 1 - 1 : IsSep(y[i])
      BY <1>2, <1>3, <1>5, <3>1
    <3> QED
      BY <1>5, <3>2, StartIs
  <2>2. /\ WithoutLeading(y) \in Seq(S) /\ Len(WithoutLeading(y)) = Len(y) - 1 + 1
        /\ \A i \in 1 .. Len(y) - 1 + 1 : WithoutLeading(y)[i] = y[i + 1 - 1]
    BY <1>5, <2>1, LeadFacts
  <2>3. Len(y) \in Nat
    BY <1>5, LenProperties
  <2>4. Len(WithoutLeading(y)) = Len(y) /\ \A i \in 1 .. Len(y) : WithoutLeading(y)[i] = y[i]
    <3>1. Len(y) - 1 + 1 = Len(y)
      BY <2>3
    <3>2. ASSUME NEW i \in 1 .. Len(y) PROVE WithoutLeading(y)[i] = y[i]
      <4>1. i + 1 - 1 = i /\ i \in 1 .. Len(y) - 1 + 1
        BY <2>3
      <4> QED
        BY <2>2, <4>1
    <3> QED
      BY <2>2, <3>1, <3>2
  <2> QED
    BY <1>5, <2>2, <2>4, SeqEqual
<1>9. CASE x = <<>>
  <2>1. WithoutTrailing(y) = x /\ WithoutLeading(x) = y
    BY <1>6, <1>7, <1>8, <1>9
  <2> QED
    BY <1>6, <1>7, <1>8, <1>9, <2>1 DEF x, y
<1>10. CASE x # <<>>
  <2>1. e \in 1 .. l /\ s \in 1 .. l /\ s <= e
    BY <1>1, <1>2, <1>3, <1>4, <1>5, <1>6, <1>10
  <2> DEFINE k == e - s + 1
             u == WithoutLeading(x)
             v == WithoutTrailing(y)
  <2>2. k \in 1 .. l - s + 1 /\ k + s - 1 = e
    BY <1>3, <2>1
  <2> HIDE DEF k, u, v
  <2>3. StartOf(x) = s
    <3>1. s \in 1 .. Len(x) + 1 /\ ~IsSep(x[s]) /\ \A i \in 1 .. s - 1 : IsSep(x[i])
      BY <1>2, <1>3, <1>4, <2>1
    <3> QED
      BY <1>4, <3>1, StartIs
  <2>4. u \in Seq(S) /\ Len(u) = k /\ \A i \in 1 .. k : u[i] = a[i + s - 1]
    <3>1. /\ u \in Seq(S) /\ Len(u) = e - s + 1
          /\ \A i \in 1 .. e - s + 1 : u[i] = x[i + s - 1]
      BY <1>4, <2>3, LeadFacts DEF u
    <3>2. ASSUME NEW i \in 1 .. k PROVE u[i] = a[i + s - 1]
      <4> DEFINE j == i + s - 1
      <4>1. j \in 1 .. e
        BY <1>3, <2>1 DEF k
      <4>2. u[i] = x[j]
        BY <3>1 DEF k
      <4> HIDE DEF j
      <4>3. u[i] = a[j]
        BY <1>4, <4>1, <4>2
      <4> QED
        BY <4>3 DEF j
    <3> QED
      BY <3>1, <3>2 DEF k
  <2>5. EndOf(y) = k
    <3>1. k \in 0 .. Len(y)
      BY <1>3, <1>5, <2>1, <2>2
    <3>2. ~IsSep(y[k])
      <4>1. y[k] = a[k + s - 1]
        BY <1>5, <2>2
      <4> QED
        BY <1>1, <2>1, <2>2, <4>1
    <3>3. ASSUME NEW i \in k + 1 .. Len(y) PROVE IsSep(y[i])
      <4> DEFINE j == i + s - 1
      <4>1. j \in e + 1 .. l /\ i \in 1 .. l - s + 1
        BY <1>3, <1>5, <2>1 DEF k
      <4>2. y[i] = a[j]
        BY <1>5, <4>1
      <4> HIDE DEF j
      <4> QED
        BY <1>1, <4>1, <4>2
    <3> QED
      BY <1>5, <3>1, <3>2, <3>3, EndIs
  <2>6. v \in Seq(S) /\ Len(v) = k /\ \A i \in 1 .. k : v[i] = y[i]
    BY <1>5, <2>5, TrailFacts DEF v
  <2>7. ASSUME NEW i \in 1 .. k PROVE v[i] = u[i]
    <3>1. i \in 1 .. l - s + 1
      BY <1>3, <2>1, <2>2
    <3> QED
      BY <1>5, <2>4, <2>6, <3>1
  <2>8. v = u
    BY <2>4, <2>6, <2>7, SeqEqual
  <2>9. v # <<>>
    BY <2>2, <2>6, EmptySeq
  <2> QED
    BY <1>7, <1>8, <2>8, <2>9 DEF u, v, x, y
<1> QED
  BY <1>9, <1>10

-----------------------------------------------------------------------------
(* Joining                                                                 *)

\* Two names with a separator between them, when there are two.
Between(x, y) == IF x # <<>> /\ y # <<>> THEN x \o <<Separator>> \o y ELSE x \o y

LEMMA BetweenTyped ==
  ASSUME NEW S, Separator \in S, NEW x \in Seq(S), NEW y \in Seq(S)
  PROVE  /\ Between(x, y) \in Seq(S) /\ (Between(x, y) = <<>> <=> x = <<>> /\ y = <<>>)
         /\ Between(<<>>, y) = y /\ Between(x, <<>>) = x
<1>1. <<Separator>> \in Seq(S) /\ <<Separator>> # <<>> /\ <<>> \in Seq(S)
  BY EmptySeq
<1>2. x \o <<Separator>> \in Seq(S) /\ x \o y \in Seq(S)
  BY <1>1, ConcatProperties
<1>3. x \o <<Separator>> \o y \in Seq(S)
  BY <1>2, ConcatProperties
<1>4. (x \o y = <<>> <=> x = <<>> /\ y = <<>>) /\ x \o <<Separator>> # <<>>
  BY <1>1, ConcatEqualIffEmpty
<1>5. x \o <<Separator>> \o y # <<>>
  BY <1>2, <1>4, ConcatEqualIffEmpty
<1>6. <<>> \o y = y /\ x \o <<>> = x
  BY ConcatEmptySeq
<1> QED
  BY <1>2, <1>3, <1>4, <1>5, <1>6 DEF Between

Concat(x, y) == x \o y

LEMMA ConcatFacts ==
  ASSUME NEW S, NEW a \in Seq(S), NEW b \in Seq(S), NEW c \in Seq(S)
  PROVE  Concat(a, b) \in Seq(S) /\ Concat(Concat(a, b), c) = Concat(a, Concat(b, c))
<1>1. a \o b \in Seq(S)
  BY ConcatProperties
<1>2. (a \o b) \o c = a \o (b \o c)
  BY ConcatAssociative
<1> QED
  BY <1>1, <1>2 DEF Concat

LEMMA BetweenAssociates ==
  ASSUME NEW S, Separator \in S, NEW x \in Seq(S), NEW y \in Seq(S), NEW z \in Seq(S), y # <<>>
  PROVE  Between(Between(x, y), z) = Between(x, Between(y, z))
<1> DEFINE sep == <<Separator>>
<1>1. sep \in Seq(S) /\ <<>> \in Seq(S)
  BY EmptySeq
<1> HIDE DEF sep
<1>2. Between(x, y) # <<>> /\ Between(y, z) # <<>>
  BY BetweenTyped
<1>3. CASE x = <<>>
  <2>1. Between(x, y) = y
    BY <1>3, BetweenTyped
  <2>2. Between(y, z) \in Seq(S)
    BY BetweenTyped
  <2>3. Between(x, Between(y, z)) = Between(y, z)
    BY <1>3, <2>2, BetweenTyped
  <2> QED
    BY <2>1, <2>3
<1>4. CASE z = <<>>
  <2>1. Between(y, z) = y
    BY <1>4, BetweenTyped
  <2>2. Between(x, y) \in Seq(S)
    BY BetweenTyped
  <2>3. Between(Between(x, y), z) = Between(x, y)
    BY <1>4, <2>2, BetweenTyped
  <2> QED
    BY <2>1, <2>3
<1>5. CASE x # <<>> /\ z # <<>>
  <2>1. Between(x, y) = Concat(Concat(x, sep), y) /\ Between(y, z) = Concat(Concat(y, sep), z)
    BY <1>5 DEF Between, Concat, sep
  <2>2. /\ Between(Between(x, y), z) = Concat(Concat(Between(x, y), sep), z)
        /\ Between(x, Between(y, z)) = Concat(Concat(x, sep), Between(y, z))
    BY <1>2, <1>5 DEF Between, Concat, sep
  <2>3. PICK p \in Seq(S) : p = Concat(x, sep)
    BY <1>1, ConcatFacts
  <2>4. PICK q \in Seq(S) : q = Concat(sep, z)
    BY <1>1, ConcatFacts
  <2>5. PICK r \in Seq(S) : r = Concat(p, y)
    BY ConcatFacts
  <2>6. Concat(Concat(y, sep), z) = Concat(y, q)
    BY <1>1, <2>4, ConcatFacts
  <2>7. Concat(p, Concat(y, q)) = Concat(r, q)
    BY <2>5, ConcatFacts
  <2>8. Concat(Concat(r, sep), z) = Concat(r, q)
    BY <1>1, <2>4, ConcatFacts
  <2> QED
    BY <2>1, <2>2, <2>3, <2>5, <2>6, <2>7, <2>8
<1> QED
  BY <1>3, <1>4, <1>5

\* Trailing separators are taken from the second of two names only.
LEMMA TrailOfBetween ==
  ASSUME NEW S, Separator \in S, NEW x \in Seq(S), NEW y \in Seq(S), WithoutTrailing(y) # <<>>
  PROVE  WithoutTrailing(Between(x, y)) = Between(x, WithoutTrailing(y))
<1>1. y # <<>>
  BY NothingStays
<1>2. CASE x = <<>>
  <2>1. WithoutTrailing(y) \in Seq(S)
    BY TrailFacts
  <2> QED
    BY <1>2, <2>1, BetweenTyped
<1>3. CASE x # <<>>
  <2>1. <<Separator>> \in Seq(S)
    OBVIOUS
  <2>2. x \o <<Separator>> \in Seq(S)
    BY <2>1, ConcatProperties
  <2>3. WithoutTrailing(x \o <<Separator>> \o y) = x \o <<Separator>> \o WithoutTrailing(y)
    BY <2>2, TrailOfConcat
  <2> QED
    BY <1>1, <1>3, <2>3 DEF Between
<1> QED
  BY <1>2, <1>3

LEMMA LeadOfBetween ==
  ASSUME NEW S, Separator \in S, NEW x \in Seq(S), NEW y \in Seq(S), WithoutLeading(x) # <<>>
  PROVE  WithoutLeading(Between(x, y)) = Between(WithoutLeading(x), y)
<1>1. x # <<>>
  BY NothingStays
<1>2. CASE y = <<>>
  <2>1. WithoutLeading(x) \in Seq(S)
    BY LeadFacts
  <2>2. Between(WithoutLeading(x), <<>>) = WithoutLeading(x) /\ Between(x, <<>>) = x
    <3>1. <<>> \in Seq(S)
      BY EmptySeq
    <3> QED
      BY <2>1, <3>1, BetweenTyped
  <2> QED
    BY <1>2, <2>2
<1>3. CASE y # <<>>
  <2>1. <<Separator>> \in Seq(S)
    OBVIOUS
  <2>2. x \o <<Separator>> \in Seq(S)
    BY <2>1, ConcatProperties
  <2>3. WithoutLeading(x \o <<Separator>>) = WithoutLeading(x) \o <<Separator>>
    BY <2>1, LeadOfConcat
  <2>4. WithoutLeading(x) \o <<Separator>> # <<>>
    <3>1. WithoutLeading(x) \in Seq(S)
      BY LeadFacts
    <3> QED
      BY <2>1, <3>1, ConcatEqualIffEmpty
  <2>5. WithoutLeading(x \o <<Separator>> \o y) = WithoutLeading(x) \o <<Separator>> \o y
    BY <2>2, <2>3, <2>4, LeadOfConcat
  <2> QED
    BY <1>1, <1>3, <2>5 DEF Between
<1> QED
  BY <1>2, <1>3

\* Three paths may be joined in either order.
LEMMA JoinAssociates ==
  ASSUME NEW S, Separator \in S, NEW a \in Seq(S), NEW b \in Seq(S), NEW c \in Seq(S)
  PROVE  Join(Join(a, b), c) = Join(a, Join(b, c))
<1> DEFINE x == WithoutTrailing(a)
           z == WithoutLeading(c)
           lead == WithoutLeading(b)
           trail == WithoutTrailing(b)
<1>1. x \in Seq(S) /\ z \in Seq(S) /\ lead \in Seq(S) /\ trail \in Seq(S) /\ <<>> \in Seq(S)
  BY TrailFacts, LeadFacts, EmptySeq
<1>2. /\ WithoutTrailing(x) = x /\ WithoutLeading(z) = z
      /\ WithoutTrailing(lead) = WithoutLeading(trail)
      /\ WithoutTrailing(trail) = trail /\ WithoutLeading(lead) = lead
      /\ trail # <<>> => WithoutTrailing(lead) # <<>>
  BY BothSides
<1>3. trail = <<>> <=> lead = <<>>
  BY NothingLeft
<1>4. Join(a, b) = Between(x, lead) /\ Join(b, c) = Between(trail, z)
  BY DEF Join, Between
<1>5. /\ Join(Join(a, b), c) = Between(WithoutTrailing(Between(x, lead)), z)
      /\ Join(a, Join(b, c)) = Between(x, WithoutLeading(Between(trail, z)))
  BY <1>4 DEF Join, Between
<1> HIDE DEF x, z, lead, trail
<1>6. CASE trail = <<>>
  <2>1. Between(x, <<>>) = x /\ Between(<<>>, z) = z
    BY <1>1, BetweenTyped
  <2> QED
    BY <1>2, <1>3, <1>5, <1>6, <2>1
<1>7. CASE trail # <<>>
  <2>1. WithoutTrailing(Between(x, lead)) = Between(x, WithoutTrailing(lead))
    BY <1>1, <1>2, <1>7, TrailOfBetween
  <2>2. WithoutLeading(Between(trail, z)) = Between(WithoutLeading(trail), z)
    BY <1>1, <1>2, <1>7, LeadOfBetween
  <2> DEFINE core == WithoutTrailing(lead)
  <2>3. core \in Seq(S) /\ core # <<>> /\ WithoutLeading(trail) = core
    BY <1>1, <1>2, <1>7, TrailFacts
  <2> HIDE DEF core
  <2>4. Between(Between(x, core), z) = Between(x, Between(core, z))
    BY <1>1, <2>3, BetweenAssociates
  <2> QED
    BY <1>5, <2>1, <2>2, <2>3, <2>4 DEF core
<1> QED
  BY <1>6, <1>7

-----------------------------------------------------------------------------
(* Names and directories                                                   *)

LEMMA FilenameFacts ==
  ASSUME NEW S, NEW p \in Seq(S)
  PROVE  /\ Filename(p) \in Seq(S) /\ Len(Filename(p)) = Len(p) - LastSep(p)
         /\ \A i \in 1 .. Len(p) - LastSep(p) : Filename(p)[i] = p[LastSep(p) + i]
<1> DEFINE l == Len(p)
           e == LastSep(p) + 1
           w == SubSeq(p, e, l)
<1>1. l \in Nat /\ e \in 1 .. l + 1 /\ LastSep(p) = e - 1 /\ \A i \in 1 .. l : p[i] \in S
  <2>1. Len(p) \in Nat /\ \A i \in 1 .. Len(p) : p[i] \in S
    BY LenProperties, ElementOfSeq
  <2>2. LastSep(p) \in 0 .. Len(p)
    BY LastSepFacts
  <2> QED
    BY <2>1, <2>2
<1>2. Filename(p) = w
  BY DEF Filename
<1> HIDE DEF l, e
<1>3. \A i \in e .. l : p[i] \in S
  BY <1>1
<1>4. /\ w \in Seq(S) /\ Len(w) = (IF e <= l THEN l - e + 1 ELSE 0)
      /\ \A i \in 1 .. l - e + 1 : w[i] = p[e + i - 1]
  BY <1>1, <1>3, SubSeqProperties
<1> HIDE DEF w
<1>5. Len(w) = l - LastSep(p)
  BY <1>1, <1>4
<1>6. ASSUME NEW i \in 1 .. l - LastSep(p) PROVE w[i] = p[LastSep(p) + i]
  <2>1. i \in 1 .. l - e + 1 /\ e + i - 1 = LastSep(p) + i
    BY <1>1
  <2> QED
    BY <1>4, <2>1
<1> QED
  BY <1>2, <1>4, <1>5, <1>6 DEF l

\* What comes before a path, up to a separator, is not in its file name.
LEMMA FilenameOfConcat ==
  ASSUME NEW S, NEW x \in Seq(S), NEW y \in Seq(S), x = <<>> \/ IsSep(x[Len(x)])
  PROVE  Filename(x \o y) = Filename(y)
<1> DEFINE z == x \o y
           l == Len(x)
           m == Len(y)
           n == LastSep(y)
<1>1. /\ z \in Seq(S) /\ Len(z) = l + m /\ l \in Nat /\ m \in Nat
      /\ \A i \in 1 .. l + m : z[i] = IF i <= l THEN x[i] ELSE y[i - l]
  BY ConcatProperties, LenProperties
<1>2. n \in 0 .. m /\ (n > 0 => IsSep(y[n])) /\ \A i \in n + 1 .. m : ~IsSep(y[i])
  BY LastSepFacts
<1>3. l > 0 => IsSep(x[l])
  BY EmptySeq
<1> HIDE DEF z, l, m, n
<1>4. LastSep(z) = l + n
  <2> DEFINE k == l + n
  <2>1. k \in 0 .. Len(z) /\ k - l = n /\ (k > 0 /\ k <= l => n = 0 /\ k = l /\ l > 0)
    BY <1>1, <1>2
  <2> HIDE DEF k
  <2>2. k > 0 => IsSep(z[k])
    <3>1. CASE k > 0 /\ k <= l
      <4>1. k \in 1 .. l + m /\ k = l
        BY <1>1, <2>1, <3>1
      <4>2. z[k] = x[l]
        BY <1>1, <3>1, <4>1
      <4> QED
        BY <1>3, <2>1, <3>1, <4>2
    <3>2. CASE k > 0 /\ ~ (k <= l)
      <4>1. k \in 1 .. l + m /\ n > 0
        BY <1>1, <1>2, <2>1, <3>2
      <4>2. z[k] = y[n]
        BY <1>1, <2>1, <3>2, <4>1
      <4> QED
        BY <1>2, <4>1, <4>2
    <3> QED
      BY <3>1, <3>2
  <2>3. ASSUME NEW i \in k + 1 .. Len(z) PROVE ~IsSep(z[i])
    <3>1. i \in 1 .. l + m /\ ~ (i <= l) /\ i - l \in n + 1 .. m
      BY <1>1, <1>2, <2>1
    <3>2. z[i] = y[i - l]
      BY <1>1, <3>1
    <3> QED
      BY <1>2, <3>1, <3>2
  <2>4. LastSep(z) = k
    BY <1>1, <2>1, <2>2, <2>3, LastSepIs
  <2> QED
    BY <2>4 DEF k
<1> DEFINE v == Filename(z)
           w == Filename(y)
           o == m - n
<1>5. o \in Nat /\ l + m - (l + n) = o
  BY <1>1, <1>2
<1>6. /\ v \in Seq(S) /\ Len(v) = Len(z) - LastSep(z)
      /\ \A i \in 1 .. Len(z) - LastSep(z) : v[i] = z[LastSep(z) + i]
  BY <1>1, FilenameFacts
<1>7. w \in Seq(S) /\ Len(w) = o /\ \A i \in 1 .. o : w[i] = y[n + i]
  BY FilenameFacts DEF m, n
<1> HIDE DEF v, w, o
<1>8. Len(z) - LastSep(z) = o
  BY <1>1, <1>2, <1>4, <1>5
<1>9. ASSUME NEW i \in 1 .. o PROVE v[i] = w[i]
  <2> DEFINE j == l + n + i
  <2>1. v[i] = z[j]
    BY <1>4, <1>6, <1>8
  <2>2. j \in 1 .. l + m /\ ~ (j <= l) /\ j - l = n + i
    BY <1>1, <1>2, <1>5 DEF o
  <2> HIDE DEF j
  <2>3. z[j] = y[n + i]
    BY <1>1, <2>2
  <2> QED
    BY <1>7, <2>1, <2>3
<1>10. v = w
  BY <1>5, <1>6, <1>7, <1>8, <1>9, SeqEqual
<1> QED
  BY <1>10 DEF v, w, z

LEMMA FilenameOfLead ==
  ASSUME NEW S, NEW b \in Seq(S)
  PROVE  Filename(WithoutLeading(b)) = Filename(b)
<1> DEFINE s == StartOf(b)
           l == Len(b)
           x == SubSeq(b, 1, s - 1)
           y == SubSeq(b, s, l)
<1>1. l \in Nat /\ \A i \in 1 .. l : b[i] \in S
  BY LenProperties, ElementOfSeq
<1>2. s \in 1 .. l + 1 /\ \A i \in 1 .. s - 1 : IsSep(b[i])
  BY StartFacts
<1>3. y \in Seq(S) /\ WithoutLeading(b) = y
  BY LeadFacts DEF WithoutLeading, StartOf
<1> HIDE DEF s, y
<1> DEFINE k == s - 1
<1>4. k \in 0 .. l /\ k + 1 = s
  BY <1>1, <1>2
<1>5. x \o y = b
  <2>1. SubSeq(b, 1, k) \o SubSeq(b, k + 1, l) = SubSeq(b, 1, l)
    <3>1. 1 \in 1 .. Len(b) + 1 /\ k \in 1 - 1 .. Len(b) /\ l \in k .. Len(b)
      BY <1>1, <1>4
    <3> HIDE DEF k
    <3> QED
      BY <3>1, ConcatAdjacentSubSeq
  <2>2. SubSeq(b, 1, l) = b
    BY SubSeqFull
  <2> QED
    BY <1>4, <2>1, <2>2 DEF y
<1>6. x \in Seq(S) /\ Len(x) = k /\ \A i \in 1 .. k : x[i] = b[i]
  <2> HIDE DEF k
  <2>1. \A i \in 1 .. k : b[i] \in S
    BY <1>1, <1>4
  <2>2. /\ SubSeq(b, 1, k) \in Seq(S) /\ Len(SubSeq(b, 1, k)) = (IF 1 <= k THEN k - 1 + 1 ELSE 0)
        /\ \A i \in 1 .. k - 1 + 1 : SubSeq(b, 1, k)[i] = b[1 + i - 1]
    BY <1>4, <2>1, SubSeqProperties
  <2>3. Len(SubSeq(b, 1, k)) = k
    BY <1>1, <1>4, <2>2
  <2>4. ASSUME NEW i \in 1 .. k PROVE SubSeq(b, 1, k)[i] = b[i]
    <3>1. i \in 1 .. k - 1 + 1 /\ 1 + i - 1 = i
      BY <1>1, <1>4
    <3> QED
      BY <2>2, <3>1
  <2> QED
    BY <2>2, <2>3, <2>4 DEF k
<1>7. x = <<>> \/ IsSep(x[Len(x)])
  <2> HIDE DEF x, k
  <2>1. k = 0 => x = <<>>
    BY <1>6, EmptySeq
  <2>2. k > 0 => k \in 1 .. s - 1
    BY <1>1, <1>2, <1>4
  <2> QED
    BY <1>2, <1>4, <1>6, <2>1, <2>2
<1> HIDE DEF x
<1>8. Filename(x \o y) = Filename(y)
  BY <1>3, <1>6, <1>7, FilenameOfConcat
<1> QED
  BY <1>3, <1>5, <1>8

\* Joined to a directory, a path keeps the name of its file.
LEMMA JoinKeepsName ==
  ASSUME NEW S, Separator \in S, NEW a \in Seq(S), NEW b \in Seq(S), WithoutLeading(b) # <<>>
  PROVE  Filename(Join(a, b)) = Filename(b)
<1> DEFINE x == WithoutTrailing(a)
           y == WithoutLeading(b)
           s == <<Separator>>
<1>1. x \in Seq(S) /\ y \in Seq(S) /\ Filename(y) = Filename(b)
  BY TrailFacts, LeadFacts, FilenameOfLead
<1>2. Join(a, b) = IF x # <<>> THEN x \o s \o y ELSE x \o y
  BY DEF Join
<1>3. s \in Seq(S) /\ Len(s) = 1 /\ s[1] = Separator /\ IsSep(Separator)
  BY PathAssumption DEF IsSep
<1> HIDE DEF x, y, s
<1>4. CASE x # <<>>
  <2> DEFINE z == x \o s
  <2>1. /\ z \in Seq(S) /\ Len(z) = Len(x) + 1
        /\ \A i \in 1 .. Len(x) + 1 : z[i] = IF i <= Len(x) THEN x[i] ELSE s[i - Len(x)]
    <3>1. /\ z \in Seq(S) /\ Len(z) = Len(x) + Len(s)
          /\ \A i \in 1 .. Len(x) + Len(s) : z[i] = IF i <= Len(x) THEN x[i] ELSE s[i - Len(x)]
      BY <1>1, <1>3, ConcatProperties
    <3> HIDE DEF z
    <3> QED
      BY <1>3, <3>1
  <2> HIDE DEF z
  <2>2. IsSep(z[Len(z)])
    <3>1. Len(x) \in Nat
      BY <1>1, LenProperties
    <3>2. Len(z) \in 1 .. Len(x) + 1 /\ ~ (Len(z) <= Len(x)) /\ Len(z) - Len(x) = 1
      BY <2>1, <3>1
    <3> QED
      BY <1>3, <2>1, <3>2
  <2>3. Filename(z \o y) = Filename(y)
    BY <1>1, <2>1, <2>2, FilenameOfConcat
  <2> QED
    BY <1>1, <1>2, <1>4, <2>3 DEF z
<1>5. CASE x = <<>>
  <2>1. Filename(x \o y) = Filename(y)
    BY <1>1, <1>5, FilenameOfConcat
  <2> QED
    BY <1>1, <1>2, <1>5, <2>1
<1> QED
  BY <1>4, <1>5

\* Joined to a directory, a path is absolute when that is.
LEMMA JoinKeepsRoot ==
  ASSUME Separator = "/", NEW S, Separator \in S, NEW a \in Seq(S), NEW b \in Seq(S),
         WithoutTrailing(a) # <<>>
  PROVE  IsAbsolute(Join(a, b)) <=> IsAbsolute(a)
<1> DEFINE x == WithoutTrailing(a)
           y == WithoutLeading(b)
           s == <<Separator>>
<1>1. x \in Seq(S) /\ y \in Seq(S) /\ Len(x) = EndOf(a) /\ (\A i \in 1 .. EndOf(a) : x[i] = a[i]) /\ x # <<>>
  BY TrailFacts, LeadFacts
<1>2. EndOf(a) \in 0 .. Len(a) /\ Len(a) \in Nat
  BY EndFacts, LenProperties
<1>3. Join(a, b) = IF y # <<>> THEN x \o s \o y ELSE x \o y
  BY <1>1 DEF Join
<1>4. s \in Seq(S)
  OBVIOUS
<1> HIDE DEF x, y, s
<1>5. Len(x) \in Nat \ {0} /\ Len(a) > 0 /\ x[1] = a[1]
  <2>1. Len(x) \in Nat \ {0}
    BY <1>1, EmptySeq
  <2>2. 1 \in 1 .. EndOf(a) /\ Len(a) > 0
    BY <1>1, <1>2, <2>1
  <2> QED
    BY <1>1, <2>1, <2>2
<1>6. PICK c \in Seq(S) : Join(a, b) = x \o c
  <2>1. s \o y \in Seq(S)
    BY <1>1, <1>4, ConcatProperties
  <2>2. x \o s \o y = x \o (s \o y)
    <3>1. Concat(Concat(x, s), y) = Concat(x, Concat(s, y))
      BY <1>1, <1>4, ConcatFacts
    <3> QED
      BY <3>1 DEF Concat
  <2> QED
    BY <1>1, <1>3, <2>1, <2>2
<1>7. Len(x \o c) > 0 /\ (x \o c)[1] = x[1]
  <2>1. /\ Len(x \o c) = Len(x) + Len(c)
        /\ \A i \in 1 .. Len(x) + Len(c) : (x \o c)[i] = IF i <= Len(x) THEN x[i] ELSE c[i - Len(x)]
    BY <1>1, ConcatProperties
  <2>2. Len(c) \in Nat
    BY LenProperties
  <2>3. 1 \in 1 .. Len(x) + Len(c) /\ 1 <= Len(x) /\ Len(x) + Len(c) > 0
    BY <1>5, <2>2
  <2> QED
    BY <2>1, <2>3
<1> QED
  BY <1>5, <1>6, <1>7 DEF IsAbsolute

\* Directory, separator and file name.
LEMMA PartsOfPath ==
  ASSUME Separator = "/", NEW S, NEW p \in Seq(S), LastSep(p) > 0
  PROVE  /\ IsAbsolute(Directory(p)) <=> IsAbsolute(p)
         /\ Directory(p) \o <<p[LastSep(p)]>> \o Filename(p) \in {p, <<p[1]>> \o p}
<1> DEFINE n == LastSep(p)
           l == Len(p)
           f == Filename(p)
<1>1. l \in Nat /\ n \in 1 .. l /\ \A i \in 1 .. l : p[i] \in S
  BY LenProperties, LastSepFacts, ElementOfSeq
<1>2. f \in Seq(S) /\ f = SubSeq(p, n + 1, l)
  BY FilenameFacts DEF Filename
<1> HIDE DEF n, l, f
<1>3. SubSeq(p, 1, n) \o f = p
  <2>1. 1 \in 1 .. Len(p) + 1 /\ n \in 1 - 1 .. Len(p) /\ l \in n .. Len(p)
    BY <1>1 DEF l
  <2>2. SubSeq(p, 1, n) \o SubSeq(p, n + 1, l) = SubSeq(p, 1, l)
    BY <2>1, ConcatAdjacentSubSeq
  <2> QED
    BY <1>2, <2>2, SubSeqFull DEF l
<1>4. SubSeq(p, 1, n) = SubSeq(p, 1, n - 1) \o <<p[n]>>
  <2>1. 1 \in 1 .. Len(p) /\ n \in 1 .. Len(p)
    BY <1>1 DEF l
  <2> QED
    BY <2>1, SubSeqRecursiveSecond
<1>5. \A k \in 0 .. l : /\ SubSeq(p, 1, k) \in Seq(S) /\ Len(SubSeq(p, 1, k)) = k
                        /\ k > 0 => SubSeq(p, 1, k)[1] = p[1]
  <2> TAKE k \in 0 .. l
  <2>1. \A i \in 1 .. k : p[i] \in S
    BY <1>1
  <2>2. /\ SubSeq(p, 1, k) \in Seq(S) /\ Len(SubSeq(p, 1, k)) = (IF 1 <= k THEN k - 1 + 1 ELSE 0)
        /\ \A i \in 1 .. k - 1 + 1 : SubSeq(p, 1, k)[i] = p[1 + i - 1]
    BY <2>1, SubSeqProperties
  <2>3. k > 0 => 1 \in 1 .. k - 1 + 1 /\ 1 + 1 - 1 = 1
    BY <1>1
  <2> QED
    BY <1>1, <2>2, <2>3
<1>6. Directory(p) = IF n = 1 THEN SubSeq(p, 1, 1) ELSE SubSeq(p, 1, n - 1)
  BY <1>1 DEF Directory, n
<1>7. IsAbsolute(Directory(p)) <=> IsAbsolute(p)
  <2>1. PICK k \in 1 .. l : Directory(p) = SubSeq(p, 1, k)
    <3>1. CASE n = 1
      BY <1>1, <1>6, <3>1
    <3>2. CASE n # 1
      <4>1. n - 1 \in 1 .. l
        BY <1>1, <3>2
      <4> QED
        BY <1>6, <3>2, <4>1
    <3> QED
      BY <3>1, <3>2
  <2>2. Len(Directory(p)) > 0 /\ Directory(p)[1] = p[1]
    BY <1>1, <1>5, <2>1
  <2>3. Len(p) > 0
    BY <1>1 DEF l
  <2> QED
    BY <2>2, <2>3 DEF IsAbsolute
<1>8. CASE n # 1
  <2>1. Directory(p) \o <<p[n]>> \o f = p
    BY <1>3, <1>4, <1>6, <1>8
  <2> QED
    BY <1>7, <2>1 DEF n, f
<1>9. CASE n = 1
  <2>1. SubSeq(p, 1, 0) = <<>>
    BY SubSeqEmpty
  <2>2. <<p[1]>> \in Seq(S)
    BY <1>1
  <2>3. SubSeq(p, 1, 1) = <<p[1]>>
    <3>1. SubSeq(p, 1, 1) = <<>> \o <<p[1]>>
      <4>1. n - 1 = 0
        BY <1>9
      <4> QED
        BY <1>4, <1>9, <2>1, <4>1
    <3>2. <<>> \o <<p[1]>> = <<p[1]>>
      BY <2>2, ConcatEmptySeq
    <3> QED
      BY <3>1, <3>2
  <2> DEFINE c == <<p[1]>>
  <2> HIDE DEF c
  <2>4. c \o c \o f = c \o (c \o f)
    <3>1. Concat(Concat(c, c), f) = Concat(c, Concat(c, f))
      <4>1. c \in Seq(S)
        BY <2>2 DEF c
      <4>2. f \in Seq(S)
        BY <1>2
      <4> QED
        BY <4>1, <4>2, ConcatFacts
    <3> QED
      BY <3>1 DEF Concat
  <2>5. c \o f = p
    BY <1>3, <1>9, <2>3 DEF c
  <2>6. Directory(p) \o <<p[n]>> \o f = <<p[1]>> \o p
    BY <1>6, <1>9, <2>3, <2>4, <2>5 DEF c
  <2> QED
    BY <1>7, <2>6 DEF n, f
<1> QED
  BY <1>8, <1>9

\* The end of a file name from its last dot on, which is not its first.
LEMMA ExtensionEnds ==
  ASSUME NEW S, NEW p \in Seq(S), Extension(p) # <<>>
  PROVE  /\ IsStrictSuffix(Extension(p), Filename(p))
         /\ Extension(p)[1] = "." /\ "." \notin Range(Tail(Extension(p)))
<1> DEFINE name == Filename(p)
           n == Len(name)
           dots == {i \in DOMAIN name : name[i] = "." /\ i > 1}
           d == Max(dots)
           e == SubSeq(name, d, n)
<1>1. name \in Seq(S) /\ n \in Nat /\ DOMAIN name = 1 .. n /\ \A i \in 1 .. n : name[i] \in S
  <2>1. name \in Seq(S)
    BY FilenameFacts
  <2> HIDE DEF name
  <2> QED
    BY <2>1, LenProperties, ElementOfSeq
<1>2. dots # {} /\ Extension(p) = e
  BY DEF Extension
<1> HIDE DEF name, n
<1>3. d \in dots /\ \A i \in dots : i <= d
  <2>1. dots \in SUBSET (0 .. n)
    BY <1>1
  <2> QED
    BY <1>1, <1>2, <2>1, GreatestOf
<1>4. d \in 2 .. n /\ name[d] = "." /\ \A i \in d + 1 .. n : name[i] # "."
  <2>1. d \in 2 .. n /\ name[d] = "."
    BY <1>1, <1>3
  <2>2. ASSUME NEW i \in d + 1 .. n PROVE name[i] # "."
    <3>1. i \in DOMAIN name /\ i > 1 /\ ~ (i <= d)
      BY <1>1, <2>1
    <3> QED
      BY <1>3, <3>1
  <2> QED
    BY <2>1, <2>2
<1> HIDE DEF d, dots
<1> DEFINE k == n - d + 1
<1>5. k \in 1 .. n - 1 /\ k = n - d + 1
  BY <1>1, <1>4
<1>6. e \in Seq(S) /\ Len(e) = k /\ \A i \in 1 .. k : e[i] = name[d + i - 1]
  <2>1. \A i \in d .. n : name[i] \in S
    BY <1>1, <1>4
  <2>2. /\ e \in Seq(S) /\ Len(e) = (IF d <= n THEN n - d + 1 ELSE 0)
        /\ \A i \in 1 .. n - d + 1 : e[i] = name[d + i - 1]
    BY <1>1, <1>4, <2>1, SubSeqProperties
  <2> QED
    BY <1>4, <2>2
<1> HIDE DEF e, k
<1>7. e[1] = "."
  <2>1. 1 \in 1 .. k /\ d + 1 - 1 = d
    BY <1>1, <1>4, <1>5
  <2> QED
    BY <1>4, <1>6, <2>1
<1>8. "." \notin Range(Tail(e))
  <2>1. e # <<>>
    BY <1>5, <1>6, EmptySeq
  <2>2. /\ Tail(e) \in Seq(S) /\ Len(Tail(e)) = Len(e) - 1
        /\ \A i \in 1 .. Len(Tail(e)) : Tail(e)[i] = e[i + 1]
    BY <1>6, <2>1, HeadTailProperties
  <2>3. DOMAIN Tail(e) = 1 .. k - 1
    BY <1>6, <2>2, LenProperties
  <2>4. ASSUME NEW i \in 1 .. k - 1 PROVE Tail(e)[i] # "."
    <3> DEFINE j == d + (i + 1) - 1
    <3>1. j \in d + 1 .. n /\ i + 1 \in 1 .. k
      BY <1>1, <1>4, <1>5
    <3>2. Tail(e)[i] = e[i + 1] /\ e[i + 1] = name[j]
      BY <1>6, <2>2, <3>1
    <3> HIDE DEF j
    <3> QED
      BY <1>4, <3>1, <3>2
  <2> QED
    BY <2>3, <2>4 DEF Range
<1>9. IsStrictSuffix(e, name)
  <2> DEFINE r == Reverse(e)
             s == Reverse(name)
  <2>1. r = [i \in 1 .. k |-> e[k - i + 1]] /\ s = [i \in 1 .. n |-> name[n - i + 1]]
    BY <1>6 DEF Reverse, n
  <2>2. \A i \in 1 .. k : k - i + 1 \in 1 .. k
    BY <1>5
  <2>3. \A i \in 1 .. n : n - i + 1 \in 1 .. n
    BY <1>1
  <2>4. /\ r \in Seq(S) /\ Len(r) = k /\ \A i \in 1 .. k : r[i] = e[k - i + 1]
    <3>1. \A i \in 1 .. k : e[k - i + 1] \in S
      BY <1>6, <2>2, ElementOfSeq
    <3> HIDE DEF r
    <3>2. r \in [1 .. k -> S]
      BY <2>1, <3>1
    <3>3. r \in Seq(S) /\ Len(r) = k
      BY <1>1, <1>5, <3>2
    <3> QED
      BY <2>1, <3>3
  <2>5. /\ s \in Seq(S) /\ Len(s) = n /\ \A i \in 1 .. n : s[i] = name[n - i + 1]
    <3>1. \A i \in 1 .. n : name[n - i + 1] \in S
      BY <1>1, <2>3
    <3> HIDE DEF s
    <3>2. s \in [1 .. n -> S]
      BY <2>1, <3>1
    <3>3. s \in Seq(S) /\ Len(s) = n
      BY <1>1, <3>2
    <3> QED
      BY <2>1, <3>3
  <2> HIDE DEF r, s
  <2>6. SubSeq(r, 1, k) = r
    BY <2>4, SubSeqFull
  <2>7. /\ SubSeq(s, 1, k) \in Seq(S) /\ Len(SubSeq(s, 1, k)) = k
        /\ \A i \in 1 .. k : SubSeq(s, 1, k)[i] = s[i]
    <3>1. \A i \in 1 .. k : s[i] \in S
      BY <1>1, <1>5, <2>5, ElementOfSeq
    <3>2. /\ SubSeq(s, 1, k) \in Seq(S) /\ Len(SubSeq(s, 1, k)) = (IF 1 <= k THEN k - 1 + 1 ELSE 0)
          /\ \A i \in 1 .. k - 1 + 1 : SubSeq(s, 1, k)[i] = s[1 + i - 1]
      BY <1>5, <3>1, SubSeqProperties
    <3>3. ASSUME NEW i \in 1 .. k PROVE SubSeq(s, 1, k)[i] = s[i]
      <4>1. i \in 1 .. k - 1 + 1 /\ 1 + i - 1 = i
        BY <1>5
      <4> QED
        BY <3>2, <4>1
    <3> QED
      BY <1>5, <3>2, <3>3
  <2>8. ASSUME NEW i \in 1 .. k PROVE r[i] = s[i]
    <3> DEFINE j == d + (k - i + 1) - 1
    <3>1. k - i + 1 \in 1 .. k /\ i \in 1 .. n /\ j = n - i + 1
      BY <1>1, <1>4, <1>5
    <3>2. r[i] = name[j]
      BY <1>6, <2>4, <3>1
    <3> QED
      BY <2>5, <3>1, <3>2
  <2>9. SubSeq(r, 1, k) = SubSeq(s, 1, k)
    BY <2>4, <2>6, <2>7, <2>8, SeqEqual
  <2>10. k <= n /\ e # name
    BY <1>1, <1>5, <1>6 DEF n
  <2> QED
    BY <2>4, <2>5, <2>9, <2>10 DEF IsStrictSuffix, IsSuffix, IsPrefix, r, s
<1> QED
  BY <1>2, <1>7, <1>8, <1>9 DEF name

(* On POSIX, whatever the characters and the length of the path: paths may *)
(* be joined in either order, a joined path keeps the name of its file and *)
(* the root of its directory, the parts make the path, and an extension    *)
(* leaves a name in front of it.                                           *)
THEOREM PathParts ==
  ASSUME Separator = "/"
  PROVE  Spec => []PathsAgree
<1>1. Typed => PathsAgree
  <2> SUFFICES ASSUME Typed, kind = "path" PROVE Associates /\ KeepsNames /\ PartsMakeThePath /\ ExtensionLeavesAName
    BY DEF PathsAgree
  <2> DEFINE S == Alphabet["path"] \cup {Separator}
             l == Len(text)
  <2>1. text \in Seq(S) /\ Separator \in S
    <3>1. text \in Seq(Alphabet["path"]) /\ Alphabet["path"] \subseteq S
      BY DEF Typed
    <3> QED
      BY <3>1, SeqMonotonic
  <2> HIDE DEF S
  <2>2. l \in Nat /\ \A i \in 1 .. l : text[i] \in S
    BY <2>1, LenProperties, ElementOfSeq
  <2>3. ASSUME NEW i \in 1 .. l + 1, NEW j \in 0 .. l PROVE SubSeq(text, i, j) \in Seq(S)
    <3>1. \A k \in i .. j : text[k] \in S
      BY <2>2
    <3> QED
      BY <3>1, SubSeqProperties
  <2>4. Associates
    <3> SUFFICES ASSUME NEW j \in 0 .. l, NEW i \in 0 .. j
                 PROVE  Join(Join(Prefix(i), Middle(i, j)), Suffix(j)) = Join(Prefix(i), Join(Middle(i, j), Suffix(j)))
      BY DEF Associates
    <3>1. i + 1 \in 1 .. l + 1 /\ j + 1 \in 1 .. l + 1 /\ i \in 0 .. l /\ l \in 0 .. l /\ 1 \in 1 .. l + 1
      BY <2>2
    <3>2. Prefix(i) \in Seq(S) /\ Middle(i, j) \in Seq(S) /\ Suffix(j) \in Seq(S)
      BY <2>3, <3>1 DEF Prefix, Middle, Suffix
    <3> QED
      BY <2>1, <3>2, JoinAssociates
  <2>5. KeepsNames
    <3> SUFFICES ASSUME NEW i \in 0 .. l
                 PROVE  /\ WithoutLeading(Suffix(i)) # <<>> =>
                             Filename(Join(Prefix(i), Suffix(i))) = Filename(Suffix(i))
                        /\ WithoutTrailing(Prefix(i)) # <<>> =>
                             (IsAbsolute(Join(Prefix(i), Suffix(i))) <=> IsAbsolute(Prefix(i)))
      BY DEF KeepsNames
    <3>1. i + 1 \in 1 .. l + 1 /\ l \in 0 .. l /\ 1 \in 1 .. l + 1
      BY <2>2
    <3>2. Prefix(i) \in Seq(S) /\ Suffix(i) \in Seq(S)
      BY <2>3, <3>1 DEF Prefix, Suffix
    <3> QED
      BY <2>1, <3>2, JoinKeepsName, JoinKeepsRoot
  <2>6. PartsMakeThePath
    BY <2>1, PartsOfPath DEF PartsMakeThePath
  <2>7. ExtensionLeavesAName
    BY <2>1, ExtensionEnds DEF ExtensionLeavesAName
  <2> QED
    BY <2>4, <2>5, <2>6, <2>7
<1> QED
  BY <1>1, InputTyped, PTL

-----------------------------------------------------------------------------
(* Recursive functions                                                     *)

\* From a first value on, each one from the one before.
Recurs(n, base, step, f) == f = [i \in 0 .. n |-> IF i = 0 THEN base ELSE step[i][f[i - 1]]]

LEMMA RecursionExists ==
  ASSUME NEW n \in Nat, NEW V, NEW base \in V, NEW step, \A i \in 1 .. n : \A v \in V : step[i][v] \in V
  PROVE  \E f \in [0 .. n -> V] : Recurs(n, base, step, f)
<1> DEFINE with(v, i) == step[i][v]
           S == {l \in Nat : l <= n => \E f \in [0 .. l -> V] :
                                          f = [i \in 0 .. l |-> IF i = 0 THEN base ELSE with(f[i - 1], i)]}
<1>1. \A i \in 1 .. n : \A v \in V : with(v, i) \in V
  OBVIOUS
<1>2. n \in S => \E f \in [0 .. n -> V] : Recurs(n, base, step, f)
  BY DEF Recurs
<1> HIDE DEF with
<1>3. 0 \in S
  <2> DEFINE f == [i \in 0 .. 0 |-> base]
  <2>1. f \in [0 .. 0 -> V] /\ f = [i \in 0 .. 0 |-> IF i = 0 THEN base ELSE with(f[i - 1], i)]
    OBVIOUS
  <2> QED
    BY <2>1
<1>4. ASSUME NEW l \in Nat \ {0}, l - 1 \in S PROVE l \in S
  <2> SUFFICES ASSUME l <= n
               PROVE  \E f \in [0 .. l -> V] : f = [i \in 0 .. l |-> IF i = 0 THEN base ELSE with(f[i - 1], i)]
    OBVIOUS
  <2>1. PICK f \in [0 .. l - 1 -> V] : f = [i \in 0 .. l - 1 |-> IF i = 0 THEN base ELSE with(f[i - 1], i)]
    BY <1>4
  <2> DEFINE g == [i \in 0 .. l |-> IF i < l THEN f[i] ELSE with(f[l - 1], i)]
  <2>2. with(f[l - 1], l) \in V
    <3>1. l \in 1 .. n /\ l - 1 \in 0 .. l - 1
      OBVIOUS
    <3> QED
      BY <1>1, <3>1
  <2>3. g \in [0 .. l -> V]
    <3>1. ASSUME NEW i \in 0 .. l PROVE (IF i < l THEN f[i] ELSE with(f[l - 1], i)) \in V
      <4>1. i < l => i \in 0 .. l - 1
        OBVIOUS
      <4>2. ~ (i < l) => i = l
        OBVIOUS
      <4> QED
        BY <2>2, <4>1, <4>2
    <3> QED
      BY <3>1
  <2>4. ASSUME NEW i \in 0 .. l PROVE g[i] = IF i = 0 THEN base ELSE with(g[i - 1], i)
    <3>1. CASE i < l
      <4>1. f[i] = IF i = 0 THEN base ELSE with(f[i - 1], i)
        <5> DEFINE h(j) == IF j = 0 THEN base ELSE with(f[j - 1], j)
        <5>1. f = [j \in 0 .. l - 1 |-> h(j)]
          BY <2>1
        <5> HIDE DEF h
        <5>2. f[i] = h(i)
          BY <3>1, <5>1
        <5> QED
          BY <5>2 DEF h
      <4>2. g[i] = f[i] /\ (i # 0 => g[i - 1] = f[i - 1])
        BY <3>1
      <4> QED
        BY <4>1, <4>2
    <3>2. CASE i = l
      BY <3>2
    <3> QED
      BY <3>1, <3>2
  <2>5. g = [i \in 0 .. l |-> g[i]]
    OBVIOUS
  <2> HIDE DEF g
  <2> QED
    BY <2>3, <2>4, <2>5
<1> QED
  <2> HIDE DEF S
  <2>1. Nat \subseteq S
    BY <1>3, <1>4, FromBelow
  <2> QED
    BY <1>2, <2>1

\* Sums, and how they are bounded.
Sums(a, n, f) == f = [i \in 0 .. n |-> IF i = 0 THEN 0 ELSE f[i - 1] + a[i]]

LEMMA TotalFacts ==
  ASSUME NEW n \in Nat, NEW a \in [1 .. n -> Nat]
  PROVE  \E f \in [0 .. n -> Nat] : /\ Total(a) = f[n] /\ f[0] = 0
                                    /\ \A i \in 1 .. n : f[i] = f[i - 1] + a[i]
<1> DEFINE f == CHOOSE f : Sums(a, n, f)
           step == [i \in 1 .. n |-> [v \in Nat |-> v + a[i]]]
<1>1. a \in Seq(Nat) /\ Len(a) = n
  OBVIOUS
<1>2. Total(a) = f[n]
  BY <1>1 DEF Total, Sums
<1>3. \E g : Sums(a, n, g)
  <2>1. \A i \in 1 .. n : \A v \in Nat : step[i][v] = v + a[i] /\ step[i][v] \in Nat
    OBVIOUS
  <2> HIDE DEF step
  <2>2. PICK g \in [0 .. n -> Nat] : Recurs(n, 0, step, g)
    BY <2>1, RecursionExists
  <2>3. ASSUME NEW i \in 0 .. n
        PROVE  (IF i = 0 THEN 0 ELSE step[i][g[i - 1]]) = (IF i = 0 THEN 0 ELSE g[i - 1] + a[i])
    <3>1. i # 0 => i \in 1 .. n /\ g[i - 1] \in Nat
      OBVIOUS
    <3> QED
      BY <2>1, <3>1
  <2>4. Sums(a, n, g)
    BY <2>2, <2>3 DEF Recurs, Sums
  <2> QED
    BY <2>4
<1>4. Sums(a, n, f)
  BY <1>3
<1> HIDE DEF f
<1>5. f[0] = 0 /\ \A i \in 1 .. n : f[i] = f[i - 1] + a[i]
  <2> DEFINE h(i) == IF i = 0 THEN 0 ELSE f[i - 1] + a[i]
  <2>1. f = [i \in 0 .. n |-> h(i)]
    BY <1>4 DEF Sums
  <2> HIDE DEF h
  <2>2. \A i \in 0 .. n : f[i] = h(i)
    BY <2>1
  <2> QED
    BY <2>2 DEF h
<1> DEFINE S == {i \in Nat : i <= n => f[i] \in Nat}
<1>6. 0 \in S
  BY <1>5
<1>7. ASSUME NEW i \in Nat \ {0}, i - 1 \in S PROVE i \in S
  <2> SUFFICES ASSUME i <= n PROVE f[i] \in Nat
    OBVIOUS
  <2>1. i \in 1 .. n /\ f[i - 1] \in Nat
    BY <1>7
  <2> QED
    BY <1>5, <2>1
<1>8. Nat \subseteq S
  <2> HIDE DEF S
  <2> QED
    BY <1>6, <1>7, FromBelow
<1>9. f \in [0 .. n -> Nat]
  <2>1. f = [i \in 0 .. n |-> f[i]]
    <3> DEFINE h(i) == IF i = 0 THEN 0 ELSE f[i - 1] + a[i]
    <3>1. f = [i \in 0 .. n |-> h(i)]
      BY <1>4 DEF Sums
    <3> HIDE DEF h
    <3>2. DOMAIN f = 0 .. n
      BY <3>1
    <3> QED
      BY <3>1, <3>2
  <2>2. \A i \in 0 .. n : f[i] \in Nat
    BY <1>8
  <2> QED
    BY <2>1, <2>2
<1> QED
  BY <1>2, <1>5, <1>9

LEMMA TotalBound ==
  ASSUME NEW n \in Nat, NEW a \in [1 .. n -> Nat], NEW b \in [1 .. n -> Nat],
         \A i \in 1 .. n : a[i] <= b[i] + 3
  PROVE  Total(a) <= Total(b) + 3 * n
<1>1. PICK f \in [0 .. n -> Nat] :
        Total(a) = f[n] /\ f[0] = 0 /\ \A i \in 1 .. n : f[i] = f[i - 1] + a[i]
  BY TotalFacts
<1>2. PICK g \in [0 .. n -> Nat] :
        Total(b) = g[n] /\ g[0] = 0 /\ \A i \in 1 .. n : g[i] = g[i - 1] + b[i]
  BY TotalFacts
<1> DEFINE S == {i \in Nat : i <= n => f[i] <= g[i] + 3 * i}
<1>3. 0 \in S
  BY <1>1, <1>2
<1>4. ASSUME NEW i \in Nat \ {0}, i - 1 \in S PROVE i \in S
  <2> SUFFICES ASSUME i <= n PROVE f[i] <= g[i] + 3 * i
    OBVIOUS
  <2>1. i \in 1 .. n /\ i - 1 \in 0 .. n /\ f[i - 1] <= g[i - 1] + 3 * (i - 1)
    BY <1>4
  <2>2. f[i] = f[i - 1] + a[i] /\ g[i] = g[i - 1] + b[i] /\ a[i] <= b[i] + 3
    BY <1>1, <1>2, <2>1
  <2>3. f[i - 1] \in Nat /\ g[i - 1] \in Nat /\ a[i] \in Nat /\ b[i] \in Nat
    BY <2>1
  <2>4. PICK t \in Nat : t = 3 * (i - 1) /\ 3 * i = t + 3
    <3>1. 3 * (i - 1) \in Nat /\ 3 * i = 3 * (i - 1) + 3
      OBVIOUS
    <3> QED
      BY <3>1
  <2>5. f[i - 1] <= g[i - 1] + t
    BY <2>1, <2>4
  <2>6. \A p, q, x, y \in Nat : p <= q + t /\ x <= y + 3 => p + x <= q + y + (t + 3)
    OBVIOUS
  <2>7. f[i - 1] + a[i] <= g[i - 1] + b[i] + (t + 3)
    BY ONLY <2>2, <2>3, <2>5, <2>6
  <2> QED
    BY <2>2, <2>4, <2>7
<1>5. n \in S
  <2> HIDE DEF S
  <2>1. Nat \subseteq S
    BY <1>3, <1>4, FromBelow
  <2> QED
    BY <2>1
<1> QED
  BY <1>1, <1>2, <1>5

LEMMA TotalOfThrees ==
  ASSUME NEW n \in Nat, NEW a \in [1 .. n -> Nat], \A i \in 1 .. n : a[i] <= 3
  PROVE  Total(a) <= 3 * n
<1> DEFINE zero == [i \in 1 .. n |-> 0]
<1>1. zero \in [1 .. n -> Nat] /\ \A i \in 1 .. n : zero[i] = 0 /\ a[i] <= zero[i] + 3
  OBVIOUS
<1> HIDE DEF zero
<1>2. Total(a) <= Total(zero) + 3 * n
  BY <1>1, TotalBound
<1>3. PICK g \in [0 .. n -> Nat] :
        Total(zero) = g[n] /\ g[0] = 0 /\ \A i \in 1 .. n : g[i] = g[i - 1] + zero[i]
  BY <1>1, TotalFacts
<1> DEFINE S == {i \in Nat : i <= n => g[i] = 0}
<1>4. 0 \in S
  BY <1>3
<1>5. ASSUME NEW i \in Nat \ {0}, i - 1 \in S PROVE i \in S
  <2> SUFFICES ASSUME i <= n PROVE g[i] = 0
    OBVIOUS
  <2>1. i \in 1 .. n /\ g[i - 1] = 0
    BY <1>5
  <2> QED
    BY <1>1, <1>3, <2>1
<1>6. n \in S
  <2> HIDE DEF S
  <2>1. Nat \subseteq S
    BY <1>4, <1>5, FromBelow
  <2> QED
    BY <2>1
<1>7. Total(zero) = 0
  BY <1>3, <1>6
<1>8. PICK f \in [0 .. n -> Nat] :
        Total(a) = f[n] /\ f[0] = 0 /\ \A i \in 1 .. n : f[i] = f[i - 1] + a[i]
  BY TotalFacts
<1> QED
  BY <1>2, <1>7, <1>8

-----------------------------------------------------------------------------
(* Sequences of sequences                                                  *)

\* A sequence, whatever of.
IsSequence(s) == s \in Seq(Range(s))

LEMMA Sequence ==
  ASSUME NEW S, NEW s \in Seq(S)
  PROVE  IsSequence(s)
BY SeqOfRange DEF IsSequence

LEMMA SequenceConcat ==
  ASSUME NEW x, NEW y, IsSequence(x), IsSequence(y)
  PROVE  IsSequence(x \o y) /\ Len(x \o y) = Len(x) + Len(y) /\ Len(x) \in Nat /\ Len(y) \in Nat
<1> DEFINE S == Range(x) \cup Range(y)
<1>1. x \in Seq(S) /\ y \in Seq(S)
  BY SeqMonotonic DEF IsSequence
<1> HIDE DEF S
<1>2. x \o y \in Seq(S) /\ Len(x \o y) = Len(x) + Len(y) /\ Len(x) \in Nat /\ Len(y) \in Nat
  BY <1>1, ConcatProperties, LenProperties
<1> QED
  BY <1>2, Sequence

Flattens(ss, n, f) == f = [i \in 1 .. n |-> IF i = 1 THEN ss[i] ELSE f[i - 1] \o ss[i]]

LEMMA FlattensExists ==
  ASSUME NEW n \in Nat \ {0}, NEW ss, \A i \in 1 .. n : IsSequence(ss[i])
  PROVE  \E f : Flattens(ss, n, f)
<1> DEFINE S == UNION {Range(ss[i]) : i \in 1 .. n}
           V == Seq(S)
           step == [i \in 1 .. n |-> [v \in V |-> v \o ss[i]]]
<1>1. \A i \in 1 .. n : ss[i] \in V
  <2> TAKE i \in 1 .. n
  <2>1. Range(ss[i]) \subseteq S
    OBVIOUS
  <2> HIDE DEF S
  <2> QED
    BY <2>1, SeqMonotonic DEF IsSequence
<1>2. <<>> \in V
  BY EmptySeq
<1>3. \A i \in 1 .. n : \A v \in V : step[i][v] = v \o ss[i] /\ step[i][v] \in V
  <2> TAKE i \in 1 .. n
  <2> TAKE v \in V
  <2>1. v \o ss[i] \in V
    BY <1>1, ConcatProperties
  <2> QED
    BY <2>1
<1> HIDE DEF V, step
<1>4. PICK g \in [0 .. n -> V] : Recurs(n, <<>>, step, g)
  BY <1>2, <1>3, RecursionExists
<1>5. g[0] = <<>> /\ \A i \in 1 .. n : g[i] = g[i - 1] \o ss[i]
  <2> DEFINE h(i) == IF i = 0 THEN <<>> ELSE step[i][g[i - 1]]
  <2>1. g = [i \in 0 .. n |-> h(i)]
    BY <1>4 DEF Recurs
  <2> HIDE DEF h
  <2>2. \A i \in 0 .. n : g[i] = h(i)
    BY <2>1
  <2>3. \A i \in 1 .. n : i \in 0 .. n /\ i - 1 \in 0 .. n /\ i # 0
    OBVIOUS
  <2>4. \A i \in 1 .. n : g[i] = step[i][g[i - 1]]
    BY <2>2, <2>3 DEF h
  <2>5. g[0] = <<>>
    BY <2>2 DEF h
  <2> QED
    BY <1>3, <2>3, <2>4, <2>5
<1> DEFINE f == [i \in 1 .. n |-> g[i]]
<1>6. ASSUME NEW i \in 1 .. n PROVE f[i] = IF i = 1 THEN ss[i] ELSE f[i - 1] \o ss[i]
  <2>1. CASE i = 1
    <3>1. g[i] = <<>> \o ss[i]
      <4>1. i - 1 = 0
        BY <2>1
      <4> QED
        BY <1>5, <4>1
    <3>2. <<>> \o ss[i] = ss[i]
      BY <1>1, ConcatEmptySeq DEF V
    <3> QED
      BY <2>1, <3>1, <3>2
  <2>2. CASE i # 1
    BY <1>5, <2>2
  <2> QED
    BY <2>1, <2>2
<1>7. f = [i \in 1 .. n |-> f[i]]
  OBVIOUS
<1> HIDE DEF f
<1>8. f = [i \in 1 .. n |-> IF i = 1 THEN ss[i] ELSE f[i - 1] \o ss[i]]
  BY <1>6, <1>7
<1> QED
  BY <1>8 DEF Flattens

\* Flattened, the sequences have the sum of their lengths.
LEMMA FlattenLength ==
  ASSUME NEW n \in Nat, NEW ss, ss = [i \in 1 .. n |-> ss[i]], \A i \in 1 .. n : IsSequence(ss[i])
  PROVE  Len(FlattenSeq(ss)) = Total([i \in 1 .. n |-> Len(ss[i])])
<1> DEFINE lens == [i \in 1 .. n |-> Len(ss[i])]
<1>1. lens \in [1 .. n -> Nat]
  BY LenProperties DEF IsSequence
<1>2. \A i \in 1 .. n : lens[i] = Len(ss[i])
  OBVIOUS
<1>3. Len(ss) = n /\ DOMAIN ss = 1 .. n
  <2> DEFINE h(i) == ss[i]
             T == {ss[i] : i \in 1 .. n}
  <2>1. ss = [i \in 1 .. n |-> h(i)]
    OBVIOUS
  <2>2. \A i \in 1 .. n : h(i) \in T
    OBVIOUS
  <2> HIDE DEF h, T
  <2>3. DOMAIN ss = 1 .. n
    BY <2>1
  <2>4. ss \in [1 .. n -> T]
    BY <2>1, <2>2
  <2>5. ss \in Seq(T)
    BY <2>4
  <2> QED
    BY <2>3, <2>5, LenProperties
<1> HIDE DEF lens
<1>4. PICK sum \in [0 .. n -> Nat] :
        Total(lens) = sum[n] /\ sum[0] = 0 /\ \A i \in 1 .. n : sum[i] = sum[i - 1] + lens[i]
  BY <1>1, TotalFacts
<1>5. CASE n = 0
  BY <1>3, <1>4, <1>5 DEF FlattenSeq, lens
<1>6. CASE n # 0
  <2> DEFINE f == CHOOSE f : Flattens(ss, n, f)
             S == {i \in Nat : i \in 1 .. n => IsSequence(f[i]) /\ Len(f[i]) = sum[i]}
  <2>1. FlattenSeq(ss) = f[n]
    BY <1>3, <1>6 DEF FlattenSeq, Flattens
  <2>2. Flattens(ss, n, f)
    BY <1>6, FlattensExists
  <2> HIDE DEF f
  <2>3. \A i \in 1 .. n : f[i] = IF i = 1 THEN ss[i] ELSE f[i - 1] \o ss[i]
    <3> DEFINE h(i) == IF i = 1 THEN ss[i] ELSE f[i - 1] \o ss[i]
    <3>1. f = [i \in 1 .. n |-> h(i)]
      BY <2>2 DEF Flattens
    <3> HIDE DEF h
    <3>2. \A i \in 1 .. n : f[i] = h(i)
      BY <3>1
    <3> QED
      BY <3>2 DEF h
  <2>4. 0 \in S
    OBVIOUS
  <2>5. ASSUME NEW i \in Nat \ {0}, i - 1 \in S PROVE i \in S
    <3> SUFFICES ASSUME i \in 1 .. n PROVE IsSequence(f[i]) /\ Len(f[i]) = sum[i]
      OBVIOUS
    <3>1. sum[i] = sum[i - 1] + lens[i] /\ lens[i] = Len(ss[i]) /\ IsSequence(ss[i])
      BY <1>2, <1>4
    <3>2. CASE i = 1
      <4>1. f[i] = ss[i] /\ sum[i - 1] = 0 /\ Len(ss[i]) \in Nat
        BY <1>1, <1>2, <1>4, <2>3, <3>2
      <4> QED
        BY <3>1, <4>1
    <3>3. CASE i # 1
      <4>1. f[i] = f[i - 1] \o ss[i]
        BY <2>3, <3>3
      <4>2. IsSequence(f[i - 1]) /\ Len(f[i - 1]) = sum[i - 1]
        BY <2>5, <3>3
      <4> DEFINE before == f[i - 1]
                 this == ss[i]
      <4> HIDE DEF before, this
      <4>3. IsSequence(before \o this) /\ Len(before \o this) = Len(before) + Len(this)
        BY <3>1, <4>2, SequenceConcat DEF before, this
      <4> QED
        BY <3>1, <4>1, <4>2, <4>3 DEF before, this
    <3> QED
      BY <3>2, <3>3
  <2>6. n \in S
    <3> HIDE DEF S
    <3>1. Nat \subseteq S
      BY <2>4, <2>5, FromBelow
    <3> QED
      BY <3>1
  <2> QED
    BY <1>4, <1>6, <2>1, <2>6 DEF lens
<1> QED
  BY <1>5, <1>6

\* Each sequence and no more than three for it.
LEMMA FlattenThrees ==
  ASSUME NEW n \in Nat, NEW ss, ss = [i \in 1 .. n |-> ss[i]],
         \A i \in 1 .. n : IsSequence(ss[i]) /\ Len(ss[i]) <= 3
  PROVE  Len(FlattenSeq(ss)) <= 3 * n
<1> DEFINE lens == [i \in 1 .. n |-> Len(ss[i])]
<1>1. lens \in [1 .. n -> Nat] /\ \A i \in 1 .. n : lens[i] <= 3
  BY LenProperties DEF IsSequence
<1>2. Len(FlattenSeq(ss)) = Total(lens)
  BY FlattenLength
<1> HIDE DEF lens
<1> QED
  BY <1>1, <1>2, TotalOfThrees

-----------------------------------------------------------------------------
(* The decoders and the converters                                         *)

LEMMA Base64Fits ==
  ASSUME NEW S, NEW t \in Seq(S), Base64Accepts(t)
  PROVE  Len(Base64Decode(t)) <= Base64Room(t)
<1> DEFINE n == (Len(t) + 4 - 1) \div 4
           ss == [g \in 1 .. n |-> DecodeFour(t, 4 * (g - 1) + 1)]
<1>1. Len(t) \in Nat /\ Len(t) % 4 = 0
  BY LenProperties DEF Base64Accepts
<1>2. n \in Nat /\ n = Len(t) \div 4
  BY <1>1
<1>3. \A i : IsSequence(DecodeFour(t, i)) /\ Len(DecodeFour(t, i)) <= 3
  <2> TAKE i
  <2> DEFINE x == <<4 * t[i] + (t[i + 1] \div 16)>>
             y == IF t[i + 2] = Padding THEN <<>> ELSE <<16 * (t[i + 1] % 16) + (t[i + 2] \div 4)>>
             z == IF t[i + 3] = Padding THEN <<>> ELSE <<64 * (t[i + 2] % 4) + t[i + 3]>>
  <2>1. \A v : IsSequence(<<v>>) /\ Len(<<v>>) = 1
    <3> TAKE v
    <3>1. <<v>> \in Seq({v})
      OBVIOUS
    <3> QED
      BY <3>1, Sequence
  <2>2. IsSequence(<<>>) /\ Len(<<>>) = 0
    <3>1. <<>> \in Seq({}) /\ Len(<<>>) = 0
      BY EmptySeq
    <3> QED
      BY <3>1, Sequence
  <2>3. IsSequence(x) /\ Len(x) = 1
    BY <2>1
  <2>4. IsSequence(y) /\ Len(y) \in 0 .. 1
    BY <2>1, <2>2
  <2>5. IsSequence(z) /\ Len(z) \in 0 .. 1
    BY <2>1, <2>2
  <2>6. DecodeFour(t, i) = x \o y \o z
    BY DEF DecodeFour
  <2> HIDE DEF x, y, z
  <2>7. IsSequence(x \o y) /\ Len(x \o y) = Len(x) + Len(y)
    BY <2>3, <2>4, SequenceConcat
  <2>8. IsSequence(x \o y \o z) /\ Len(x \o y \o z) = Len(x \o y) + Len(z)
    BY <2>5, <2>7, SequenceConcat
  <2> QED
    BY <2>3, <2>4, <2>5, <2>6, <2>7, <2>8
<1>4. Base64Decode(t) = FlattenSeq(ss)
  BY DEF Base64Decode, Grouped
<1> HIDE DEF n
<1>5. ss = [g \in 1 .. n |-> ss[g]] /\ \A g \in 1 .. n : IsSequence(ss[g]) /\ Len(ss[g]) <= 3
  BY <1>3
<1> HIDE DEF ss
<1>6. Len(FlattenSeq(ss)) <= 3 * n
  BY <1>2, <1>5, FlattenThrees
<1> QED
  BY <1>2, <1>4, <1>6 DEF Base64Room

\* What a loop writes that has somewhere to go on to, or nothing.
Links(n, stop, first, next, f) ==
  f = [i \in 1 .. n + 1 |-> IF i \in stop THEN <<>> ELSE <<first[i]>> \o f[next[i]]]

LEMMA LinksExist ==
  ASSUME NEW n \in Nat, NEW stop, NEW first, NEW next,
         \A i \in 1 .. n + 1 : i \notin stop => next[i] \in i + 1 .. n + 1
  PROVE  \E f : Links(n, stop, first, next, f)
<1> DEFINE with(f, i) == IF i \in stop THEN <<>> ELSE <<first[i]>> \o f[next[i]]
           from(k) == {i \in 1 .. n + 1 : i > n - k}
           S == {k \in Nat : \E f : f = [i \in from(k) |-> with(f, i)]}
<1>1. \A i \in 1 .. n + 1 : \A f, g : (i \notin stop => f[next[i]] = g[next[i]]) => with(f, i) = with(g, i)
  OBVIOUS
<1>2. (\E f : f = [i \in from(n) |-> with(f, i)]) => \E f : Links(n, stop, first, next, f)
  <2>1. from(n) = 1 .. n + 1
    OBVIOUS
  <2> HIDE DEF from
  <2> QED
    BY <2>1 DEF Links
<1> HIDE DEF with
<1>3. 0 \in S
  <2> DEFINE f == [i \in from(0) |-> with(<<>>, i)]
  <2>1. ASSUME NEW i \in from(0) PROVE f[i] = with(f, i)
    <3>1. i = n + 1 /\ i \in 1 .. n + 1
      OBVIOUS
    <3>2. i \in stop
      BY <3>1
    <3>3. with(<<>>, i) = with(f, i)
      BY <1>1, <3>1, <3>2
    <3> QED
      BY <3>3
  <2>2. f = [i \in from(0) |-> f[i]]
    OBVIOUS
  <2> HIDE DEF f, from
  <2>3. f = [i \in from(0) |-> with(f, i)]
    BY <2>1, <2>2
  <2> QED
    BY <2>3
<1>4. ASSUME NEW k \in Nat \ {0}, k - 1 \in S PROVE k \in S
  <2>1. PICK f : f = [i \in from(k - 1) |-> with(f, i)]
    BY <1>4
  <2>2. \A i \in from(k - 1) : f[i] = with(f, i)
    <3> DEFINE h(i) == with(f, i)
    <3>1. f = [i \in from(k - 1) |-> h(i)]
      BY <2>1
    <3> HIDE DEF h, from
    <3>2. \A i \in from(k - 1) : f[i] = h(i)
      BY <3>1
    <3> QED
      BY <3>2 DEF h
  <2> DEFINE g == [i \in from(k) |-> with(f, i)]
  <2>3. ASSUME NEW i \in from(k) PROVE g[i] = with(g, i)
    <3>1. i \in 1 .. n + 1 /\ g[i] = with(f, i)
      OBVIOUS
    <3>2. ASSUME i \notin stop PROVE f[next[i]] = g[next[i]]
      <4> DEFINE j == next[i]
      <4>1. j \in i + 1 .. n + 1
        BY <3>1, <3>2
      <4> HIDE DEF j
      <4>2. j \in from(k - 1) /\ j \in from(k)
        BY <4>1
      <4>3. f[j] = with(f, j) /\ g[j] = with(f, j)
        BY <2>2, <4>2
      <4> QED
        BY <4>3 DEF j
    <3> HIDE DEF g
    <3> QED
      BY <1>1, <3>1, <3>2
  <2>4. g = [i \in from(k) |-> g[i]]
    OBVIOUS
  <2> HIDE DEF g, from
  <2>5. g = [i \in from(k) |-> with(g, i)]
    BY <2>3, <2>4
  <2> QED
    BY <2>5
<1> QED
  <2> HIDE DEF S
  <2>1. Nat \subseteq S
    BY <1>3, <1>4, FromBelow
  <2> QED
    BY <1>2, <2>1 DEF S

LEMMA LinksTyped ==
  ASSUME NEW n \in Nat, NEW stop, NEW first, NEW next, NEW f, Links(n, stop, first, next, f),
         \A i \in 1 .. n + 1 : i \notin stop => next[i] \in i + 1 .. n + 1
  PROVE  IsSequence(f[1])
<1> DEFINE S == {first[i] : i \in 1 .. n + 1}
           T == {k \in Nat : \A i \in 1 .. n + 1 : i > n - k => f[i] \in Seq(S)}
<1>1. \A i \in 1 .. n + 1 : f[i] = IF i \in stop THEN <<>> ELSE <<first[i]>> \o f[next[i]]
  <2> DEFINE h(i) == IF i \in stop THEN <<>> ELSE <<first[i]>> \o f[next[i]]
  <2>1. f = [i \in 1 .. n + 1 |-> h(i)]
    BY DEF Links
  <2> HIDE DEF h
  <2>2. \A i \in 1 .. n + 1 : f[i] = h(i)
    BY <2>1
  <2> QED
    BY <2>2 DEF h
<1>2. <<>> \in Seq(S) /\ \A i \in 1 .. n + 1 : <<first[i]>> \in Seq(S)
  <2>1. \A i \in 1 .. n + 1 : first[i] \in S
    OBVIOUS
  <2> HIDE DEF S
  <2> QED
    BY <2>1, EmptySeq
<1> HIDE DEF S
<1>3. 0 \in T
  <2> SUFFICES ASSUME NEW i \in 1 .. n + 1, i > n - 0 PROVE f[i] \in Seq(S)
    OBVIOUS
  <2>1. i = n + 1
    OBVIOUS
  <2>2. i \in stop
    <3>1. ~ (next[i] \in i + 1 .. n + 1)
      BY <2>1
    <3> QED
      BY <3>1
  <2> QED
    BY <1>1, <1>2, <2>2
<1>4. ASSUME NEW k \in Nat \ {0}, k - 1 \in T PROVE k \in T
  <2> SUFFICES ASSUME NEW i \in 1 .. n + 1, i > n - k PROVE f[i] \in Seq(S)
    OBVIOUS
  <2>1. CASE i \in stop
    BY <1>1, <1>2, <2>1
  <2>2. CASE i \notin stop
    <3> DEFINE j == next[i]
    <3>1. j \in i + 1 .. n + 1 /\ f[i] = <<first[i]>> \o f[j]
      BY <1>1, <2>2
    <3> HIDE DEF j
    <3>2. f[j] \in Seq(S)
      BY <1>4, <3>1
    <3> QED
      BY <1>2, <3>1, <3>2, ConcatProperties
  <2> QED
    BY <2>1, <2>2
<1>5. n \in T
  <2> HIDE DEF T
  <2>1. Nat \subseteq T
    BY <1>3, <1>4, FromBelow
  <2> QED
    BY <2>1
<1>6. f[1] \in Seq(S)
  BY <1>5
<1> QED
  BY <1>6, Sequence

LEMMA CodePointsSequence ==
  ASSUME NEW S, NEW s \in Seq(S)
  PROVE  IsSequence(CodePoints(s))
<1> DEFINE n == Len(s)
           stop == {i \in 1 .. n + 1 : ~ (i <= n /\ Decodes(s, i))}
           first == [i \in 1 .. n + 1 |-> CodePoint(s, i, Announced(s[i]))]
           next == [i \in 1 .. n + 1 |-> i + Announced(s[i])]
           Loop(f) == f = [i \in 1 .. n + 1 |-> IF i <= n /\ Decodes(s, i)
                                                THEN <<CodePoint(s, i, Announced(s[i]))>> \o f[i + Announced(s[i])]
                                                ELSE <<>>]
           f == CHOOSE f : Loop(f)
<1>1. n \in Nat
  BY LenProperties
<1>2. ASSUME NEW i \in 1 .. n + 1, i \notin stop PROVE next[i] \in i + 1 .. n + 1
  <2> DEFINE a == Announced(s[i])
  <2>1. a > 0 /\ i + a - 1 <= n
    BY <1>2 DEF Decodes
  <2>2. a \in 0 .. 4
    BY DEF Announced
  <2>3. next[i] = i + a
    OBVIOUS
  <2> HIDE DEF a, n, next
  <2> QED
    BY <1>1, <2>1, <2>2, <2>3
<1>3. \A g : Loop(g) <=> Links(n, stop, first, next, g)
  <2> TAKE g
  <2> DEFINE u(i) == IF i <= n /\ Decodes(s, i)
                     THEN <<CodePoint(s, i, Announced(s[i]))>> \o g[i + Announced(s[i])]
                     ELSE <<>>
             v(i) == IF i \in stop THEN <<>> ELSE <<first[i]>> \o g[next[i]]
  <2>1. \A i \in 1 .. n + 1 : u(i) = v(i)
    OBVIOUS
  <2>2. Loop(g) <=> g = [i \in 1 .. n + 1 |-> u(i)]
    OBVIOUS
  <2>3. Links(n, stop, first, next, g) <=> g = [i \in 1 .. n + 1 |-> v(i)]
    BY DEF Links
  <2> HIDE DEF u, v, Loop
  <2>4. [i \in 1 .. n + 1 |-> u(i)] = [i \in 1 .. n + 1 |-> v(i)]
    BY <2>1
  <2> QED
    BY <2>2, <2>3, <2>4
<1>4. CodePoints(s) = f[1]
  BY DEF CodePoints
<1> HIDE DEF n, stop, first, next, Loop
<1>5. \E g : Links(n, stop, first, next, g)
  BY <1>1, <1>2, LinksExist
<1>6. Links(n, stop, first, next, f)
  BY <1>3, <1>5
<1> HIDE DEF f
<1>7. IsSequence(f[1])
  BY <1>1, <1>2, <1>6, LinksTyped
<1> QED
  BY <1>4, <1>7

LEMMA Utf16PointsSequence ==
  ASSUME NEW S, NEW s \in Seq(S)
  PROVE  IsSequence(Utf16Points(s))
<1> DEFINE n == Len(s)
           pair(i) == i < n /\ High(s[i])
           one(i) == i <= n /\ ~High(s[i])
           stop == {i \in 1 .. n + 1 : ~ pair(i) /\ ~ one(i)}
           both(i) == 65536 + 1024 * (s[i] - 55296) + (s[i + 1] - 56320)
           first == [i \in 1 .. n + 1 |-> IF pair(i) THEN both(i) ELSE s[i]]
           next == [i \in 1 .. n + 1 |-> IF pair(i) THEN i + 2 ELSE i + 1]
           Loop(f) == f = [i \in 1 .. n + 1 |-> CASE pair(i) -> <<both(i)>> \o f[i + 2]
                                                  [] one(i) -> <<s[i]>> \o f[i + 1]
                                                  [] OTHER -> <<>>]
           f == CHOOSE f : Loop(f)
<1>1. n \in Nat
  BY LenProperties
<1>2. ASSUME NEW i \in 1 .. n + 1, i \notin stop PROVE next[i] \in i + 1 .. n + 1
  BY <1>1, <1>2
<1>3. Utf16Points(s) = f[1]
  BY DEF Utf16Points
<1> HIDE DEF pair, one, both
<1>4. \A g : Loop(g) <=> Links(n, stop, first, next, g)
  <2> TAKE g
  <2> DEFINE u(i) == CASE pair(i) -> <<both(i)>> \o g[i + 2]
                       [] one(i) -> <<s[i]>> \o g[i + 1]
                       [] OTHER -> <<>>
             v(i) == IF i \in stop THEN <<>> ELSE <<first[i]>> \o g[next[i]]
  <2>1. \A i \in 1 .. n + 1 : u(i) = v(i)
    <3>1. \A i : pair(i) => ~ one(i)
      BY DEF pair, one
    <3> QED
      BY <3>1
  <2>2. Loop(g) <=> g = [i \in 1 .. n + 1 |-> u(i)]
    OBVIOUS
  <2>3. Links(n, stop, first, next, g) <=> g = [i \in 1 .. n + 1 |-> v(i)]
    BY DEF Links
  <2> HIDE DEF u, v, Loop
  <2>4. [i \in 1 .. n + 1 |-> u(i)] = [i \in 1 .. n + 1 |-> v(i)]
    BY <2>1
  <2> QED
    BY <2>2, <2>3, <2>4
<1> HIDE DEF n, stop, first, next, Loop
<1>5. \E g : Links(n, stop, first, next, g)
  BY <1>1, <1>2, LinksExist
<1>6. Links(n, stop, first, next, f)
  BY <1>4, <1>5
<1> HIDE DEF f
<1>7. IsSequence(f[1])
  BY <1>1, <1>2, <1>6, LinksTyped
<1> QED
  BY <1>3, <1>7

LEMMA Tuples ==
  /\ \A a : IsSequence(<<a>>) /\ Len(<<a>>) = 1
  /\ \A a, b : IsSequence(<<a, b>>) /\ Len(<<a, b>>) = 2
  /\ \A a, b, c : IsSequence(<<a, b, c>>) /\ Len(<<a, b, c>>) = 3
  /\ \A a, b, c, d : IsSequence(<<a, b, c, d>>) /\ Len(<<a, b, c, d>>) = 4
<1>1. ASSUME NEW a PROVE IsSequence(<<a>>) /\ Len(<<a>>) = 1
  <2>1. <<a>> \in Seq({a})
    OBVIOUS
  <2> QED
    BY <2>1, Sequence
<1>2. ASSUME NEW a, NEW b PROVE IsSequence(<<a, b>>) /\ Len(<<a, b>>) = 2
  <2>1. <<a, b>> \in Seq({a, b})
    OBVIOUS
  <2> QED
    BY <2>1, Sequence
<1>3. ASSUME NEW a, NEW b, NEW c PROVE IsSequence(<<a, b, c>>) /\ Len(<<a, b, c>>) = 3
  <2>1. <<a, b, c>> \in Seq({a, b, c})
    OBVIOUS
  <2> QED
    BY <2>1, Sequence
<1>4. ASSUME NEW a, NEW b, NEW c, NEW d PROVE IsSequence(<<a, b, c, d>>) /\ Len(<<a, b, c, d>>) = 4
  <2>1. <<a, b, c, d>> \in Seq({a, b, c, d})
    OBVIOUS
  <2> QED
    BY <2>1, Sequence
<1> QED
  BY <1>1, <1>2, <1>3, <1>4

\* The room the first loop counts is what the second one takes.
LEMMA Utf16Fits ==
  ASSUME NEW S, NEW s \in Seq(S)
  PROVE  Len(Utf8ToUtf16(s)) = Utf16Room(s)
<1> DEFINE cps == CodePoints(s)
           n == Len(cps)
           ss == [i \in 1 .. n |-> Units(cps[i])]
           count(cp) == IF cp > 65535 THEN 2 ELSE 1
           counts == [i \in 1 .. n |-> count(cps[i])]
<1>1. n \in Nat /\ DOMAIN cps = 1 .. n
  BY CodePointsSequence, LenProperties DEF IsSequence
<1>2. Utf8ToUtf16(s) = FlattenSeq(ss) /\ Utf16Room(s) = Total(counts)
  BY <1>1 DEF Utf8ToUtf16, Utf16Room
<1>3. ASSUME NEW cp PROVE IsSequence(Units(cp)) /\ Len(Units(cp)) = count(cp)
  BY Tuples DEF Units
<1> HIDE DEF cps, n, count
<1>4. ASSUME NEW i \in 1 .. n PROVE IsSequence(ss[i]) /\ Len(ss[i]) = counts[i]
  <2>1. ss[i] = Units(cps[i]) /\ counts[i] = count(cps[i])
    OBVIOUS
  <2>2. IsSequence(Units(cps[i])) /\ Len(Units(cps[i])) = count(cps[i])
    BY <1>3
  <2> HIDE DEF ss, counts
  <2> QED
    BY <2>1, <2>2
<1>5. ss = [i \in 1 .. n |-> ss[i]] /\ counts = [i \in 1 .. n |-> counts[i]]
  OBVIOUS
<1> HIDE DEF ss, counts
<1>6. Len(FlattenSeq(ss)) = Total([i \in 1 .. n |-> Len(ss[i])])
  BY <1>1, <1>4, <1>5, FlattenLength
<1>7. [i \in 1 .. n |-> Len(ss[i])] = counts
  BY <1>4, <1>5
<1> QED
  BY <1>2, <1>6, <1>7

LEMMA Utf8Fits ==
  ASSUME NEW S, NEW s \in Seq(S)
  PROVE  Len(Utf16ToUtf8(s)) = Utf8Room(s)
<1> DEFINE cps == Utf16Points(s)
           n == Len(cps)
           ss == [i \in 1 .. n |-> Octets(cps[i])]
           counts == [i \in 1 .. n |-> Size(cps[i])]
<1>1. n \in Nat /\ DOMAIN cps = 1 .. n
  BY Utf16PointsSequence, LenProperties DEF IsSequence
<1>2. Utf16ToUtf8(s) = FlattenSeq(ss) /\ Utf8Room(s) = Total(counts)
  BY <1>1 DEF Utf16ToUtf8, Utf8Room
<1>3. ASSUME NEW cp PROVE IsSequence(Octets(cp)) /\ Len(Octets(cp)) = Size(cp)
  <2>1. Size(cp) \in 1 .. 4
    BY DEF Size
  <2>2. CASE Size(cp) = 1
    BY <2>2, Tuples DEF Octets
  <2>3. CASE Size(cp) = 2
    BY <2>3, Tuples DEF Octets
  <2>4. CASE Size(cp) = 3
    BY <2>4, Tuples DEF Octets
  <2>5. CASE Size(cp) = 4
    BY <2>5, Tuples DEF Octets
  <2> QED
    BY <2>1, <2>2, <2>3, <2>4, <2>5
<1> HIDE DEF cps, n
<1>4. ASSUME NEW i \in 1 .. n PROVE IsSequence(ss[i]) /\ Len(ss[i]) = counts[i]
  <2>1. ss[i] = Octets(cps[i]) /\ counts[i] = Size(cps[i])
    OBVIOUS
  <2>2. IsSequence(Octets(cps[i])) /\ Len(Octets(cps[i])) = Size(cps[i])
    BY <1>3
  <2> HIDE DEF ss, counts
  <2> QED
    BY <2>1, <2>2
<1>5. ss = [i \in 1 .. n |-> ss[i]] /\ counts = [i \in 1 .. n |-> counts[i]]
  OBVIOUS
<1> HIDE DEF ss, counts
<1>6. Len(FlattenSeq(ss)) = Total([i \in 1 .. n |-> Len(ss[i])])
  BY <1>1, <1>4, <1>5, FlattenLength
<1>7. [i \in 1 .. n |-> Len(ss[i])] = counts
  BY <1>4, <1>5
<1> QED
  BY <1>2, <1>6, <1>7

-----------------------------------------------------------------------------
(* The command line                                                        *)

Divides(s, n, f) ==
  f = [i \in 0 .. n |->
         CASE i = 0 -> << <<>> >>
           [] i > 0 /\ s[i] = "next" -> Append(f[i - 1], <<>>)
           [] OTHER -> Append(Front(f[i - 1]), Append(Last(f[i - 1]), s[i]))]

\* There is an argument at least, and all are texts of the same characters.
LEMMA ArgvTyped ==
  ASSUME NEW S, NEW s \in Seq(S)
  PROVE  Argv(s) \in Seq(Seq(S)) /\ Argv(s) # <<>>
<1> DEFINE n == Len(s)
           V == Seq(Seq(S)) \ {<<>>}
           with(v, i) == IF s[i] = "next" THEN Append(v, <<>>) ELSE Append(Front(v), Append(Last(v), s[i]))
           step == [i \in 1 .. n |-> [v \in V |-> with(v, i)]]
           f == CHOOSE f : Divides(s, n, f)
<1>1. n \in Nat /\ \A i \in 1 .. n : s[i] \in S
  BY LenProperties, ElementOfSeq
<1>2. Argv(s) = f[n]
  BY DEF Argv, Divides
<1>3. << <<>> >> \in V
  <2>1. <<>> \in Seq(S)
    BY EmptySeq
  <2> QED
    BY <2>1
<1>4. ASSUME NEW i \in 1 .. n, NEW v \in V PROVE with(v, i) \in V
  <2>1. v \in Seq(Seq(S)) /\ v # <<>> /\ Len(v) \in Nat \ {0}
    BY EmptySeq
  <2>2. <<>> \in Seq(S)
    BY EmptySeq
  <2>3. Append(v, <<>>) \in V
    BY <2>1, <2>2, AppendProperties
  <2>4. Front(v) \in Seq(Seq(S))
    <3>1. \A k \in 1 .. Len(v) - 1 : v[k] \in Seq(S)
      BY <2>1, ElementOfSeq
    <3>2. Len(v) - 1 \in Int /\ 1 \in Int
      BY <2>1
    <3> QED
      BY <3>1, <3>2, SubSeqProperties DEF Front
  <2>5. Last(v) \in Seq(S)
    <3>1. Len(v) \in 1 .. Len(v)
      BY <2>1
    <3> QED
      BY <2>1, <3>1, ElementOfSeq DEF Last
  <2>6. Append(Last(v), s[i]) \in Seq(S)
    BY <1>1, <2>5, AppendProperties
  <2>7. Append(Front(v), Append(Last(v), s[i])) \in V
    <3>1. ASSUME NEW x \in Seq(Seq(S)), NEW y \in Seq(S) PROVE Append(x, y) \in V
      BY AppendProperties
    <3> QED
      BY <2>4, <2>6, <3>1
  <2> QED
    BY <2>3, <2>7
<1> HIDE DEF V, n
<1>5. \A i \in 1 .. n : \A v \in V : step[i][v] = with(v, i) /\ step[i][v] \in V
  BY <1>4
<1> HIDE DEF step
<1>6. \A g : Divides(s, n, g) <=> g = [i \in 0 .. n |-> IF i = 0 THEN << <<>> >> ELSE with(g[i - 1], i)]
  <2> TAKE g
  <2> DEFINE u(i) == CASE i = 0 -> << <<>> >>
                       [] i > 0 /\ s[i] = "next" -> Append(g[i - 1], <<>>)
                       [] OTHER -> Append(Front(g[i - 1]), Append(Last(g[i - 1]), s[i]))
             v(i) == IF i = 0 THEN << <<>> >> ELSE with(g[i - 1], i)
  <2>1. \A i \in 0 .. n : u(i) = v(i)
    OBVIOUS
  <2>2. Divides(s, n, g) <=> g = [i \in 0 .. n |-> u(i)]
    BY DEF Divides
  <2>3. [i \in 0 .. n |-> v(i)] = [i \in 0 .. n |-> IF i = 0 THEN << <<>> >> ELSE with(g[i - 1], i)]
    OBVIOUS
  <2> HIDE DEF u, v, with
  <2>4. [i \in 0 .. n |-> u(i)] = [i \in 0 .. n |-> v(i)]
    BY <2>1
  <2> QED
    BY <2>2, <2>3, <2>4
<1> HIDE DEF with
<1>7. \E g : Divides(s, n, g)
  <2>1. PICK g \in [0 .. n -> V] : Recurs(n, << <<>> >>, step, g)
    BY <1>1, <1>3, <1>5, RecursionExists
  <2> DEFINE u(i) == IF i = 0 THEN << <<>> >> ELSE step[i][g[i - 1]]
             v(i) == IF i = 0 THEN << <<>> >> ELSE with(g[i - 1], i)
  <2>2. ASSUME NEW i \in 0 .. n PROVE u(i) = v(i)
    <3>1. i # 0 => i \in 1 .. n /\ g[i - 1] \in V
      BY <1>1
    <3> QED
      BY <1>5, <3>1
  <2>3. g = [i \in 0 .. n |-> u(i)]
    BY <2>1 DEF Recurs
  <2>4. [i \in 0 .. n |-> u(i)] = [i \in 0 .. n |-> v(i)]
    <3> HIDE DEF u, v
    <3> QED
      BY <2>2
  <2>5. g = [i \in 0 .. n |-> v(i)]
    BY <2>3, <2>4
  <2>6. Divides(s, n, g)
    BY <1>6, <2>5
  <2> QED
    BY <2>6
<1>8. Divides(s, n, f)
  BY <1>7
<1> HIDE DEF f
<1>9. f[0] = << <<>> >> /\ \A i \in 1 .. n : f[i] = with(f[i - 1], i)
  <2> DEFINE v(i) == IF i = 0 THEN << <<>> >> ELSE with(f[i - 1], i)
  <2>1. f = [i \in 0 .. n |-> v(i)]
    BY <1>6, <1>8
  <2> HIDE DEF v
  <2>2. \A i \in 0 .. n : f[i] = v(i)
    BY <2>1
  <2>3. 0 \in 0 .. n /\ \A i \in 1 .. n : i \in 0 .. n /\ i # 0
    BY <1>1
  <2> QED
    BY <2>2, <2>3 DEF v
<1> DEFINE T == {i \in Nat : i <= n => f[i] \in V}
<1>10. 0 \in T
  BY <1>3, <1>9
<1>11. ASSUME NEW i \in Nat \ {0}, i - 1 \in T PROVE i \in T
  <2> SUFFICES ASSUME i <= n PROVE f[i] \in V
    OBVIOUS
  <2>1. i \in 1 .. n /\ f[i - 1] \in V
    BY <1>1, <1>11
  <2> QED
    BY <1>5, <1>9, <2>1
<1>12. n \in T
  <2> HIDE DEF T
  <2>1. Nat \subseteq T
    BY <1>10, <1>11, FromBelow
  <2> QED
    BY <1>1, <2>1
<1> QED
  BY <1>2, <1>12 DEF V

\* An argument takes a blank and two quotes at the most.
LEMMA LineFits ==
  ASSUME NEW S, NEW argv \in Seq(Seq(S))
  PROVE  Len(CommandLine(argv)) + 1 <= LineRoom(argv)
<1> DEFINE n == Len(argv)
           ss == [i \in 1 .. n |-> (IF i > 1 THEN <<Blank>> ELSE <<>>) \o Shown(argv[i])]
           written == [i \in 1 .. n |-> Len(ss[i])]
           lens == [i \in 1 .. n |-> Len(argv[i])]
<1>1. n \in Nat /\ DOMAIN argv = 1 .. n /\ argv \in [1 .. n -> Seq(S)] /\ \A i \in 1 .. n : argv[i] \in Seq(S)
  BY LenProperties, ElementOfSeq
<1>2. CommandLine(argv) = FlattenSeq(ss) /\ LineRoom(argv) = Len(FlattenSeq(argv)) + 3 * n + 1
  BY <1>1 DEF CommandLine, LineRoom
<1> HIDE DEF n
<1>3. ASSUME NEW i \in 1 .. n
      PROVE  /\ IsSequence(ss[i]) /\ Len(ss[i]) \in Nat /\ Len(ss[i]) <= Len(argv[i]) + 3
             /\ IsSequence(argv[i]) /\ Len(argv[i]) \in Nat
  <2> DEFINE a == argv[i]
             x == IF i > 1 THEN <<Blank>> ELSE <<>>
             y == Shown(a)
             q == <<QuoteMark>>
  <2>1. IsSequence(a) /\ Len(a) \in Nat
    BY <1>1, Sequence, LenProperties
  <2>2. IsSequence(x) /\ Len(x) \in 0 .. 1
    <3>1. <<>> \in Seq({}) /\ Len(<<>>) = 0
      BY EmptySeq
    <3>2. IsSequence(<<>>)
      BY <3>1, Sequence
    <3> QED
      BY <3>1, <3>2, Tuples
  <2>3. IsSequence(q) /\ Len(q) = 1
    BY Tuples
  <2> HIDE DEF q
  <2>4. IsSequence(q \o a) /\ Len(q \o a) = 1 + Len(a)
    BY <2>1, <2>3, SequenceConcat
  <2>5. IsSequence(q \o a \o q) /\ Len(q \o a \o q) = Len(q \o a) + 1
    BY <2>3, <2>4, SequenceConcat
  <2>6. IsSequence(y) /\ Len(y) \in Nat /\ Len(y) <= Len(a) + 2
    BY <2>1, <2>4, <2>5 DEF Shown, q
  <2>7. ss[i] = x \o y
    OBVIOUS
  <2> HIDE DEF a, x, y, ss
  <2>8. IsSequence(x \o y) /\ Len(x \o y) = Len(x) + Len(y)
    BY <2>2, <2>6, SequenceConcat
  <2>9. Len(x \o y) \in Nat /\ Len(x \o y) <= Len(a) + 3
    <3>1. Len(x) + Len(y) \in Nat /\ Len(x) + Len(y) <= Len(a) + 3
      <4>1. \A k \in 0 .. 1, l, m \in Nat : l <= m + 2 => k + l \in Nat /\ k + l <= m + 3
        OBVIOUS
      <4> QED
        BY ONLY <2>1, <2>2, <2>6, <4>1
    <3> DEFINE z == x \o y
    <3>2. Len(z) = Len(x) + Len(y)
      BY <2>8
    <3> HIDE DEF z
    <3>3. Len(z) \in Nat /\ Len(z) <= Len(a) + 3
      BY <3>1, <3>2
    <3> QED
      BY <3>3 DEF z
  <2> QED
    BY <2>1, <2>7, <2>8, <2>9 DEF a
<1>4. ss = [i \in 1 .. n |-> ss[i]] /\ argv = [i \in 1 .. n |-> argv[i]]
  BY <1>1
<1> HIDE DEF ss
<1>5. /\ written \in [1 .. n -> Nat] /\ lens \in [1 .. n -> Nat]
      /\ \A i \in 1 .. n : written[i] <= lens[i] + 3
  BY <1>3
<1>6. Len(FlattenSeq(ss)) = Total(written) /\ Len(FlattenSeq(argv)) = Total(lens)
  BY <1>1, <1>3, <1>4, FlattenLength DEF n
<1> HIDE DEF written, lens
<1>7. Total(written) <= Total(lens) + 3 * n
  BY <1>1, <1>5, TotalBound
<1>8. Total(written) \in Nat /\ Total(lens) \in Nat
  <2>1. n \in 0 .. n
    BY <1>1
  <2>2. PICK f \in [0 .. n -> Nat] : Total(written) = f[n]
    BY <1>1, <1>5, TotalFacts
  <2>3. PICK g \in [0 .. n -> Nat] : Total(lens) = g[n]
    BY <1>1, <1>5, TotalFacts
  <2> QED
    BY <2>1, <2>2, <2>3
<1>9. Total(written) + 1 <= Total(lens) + 3 * n + 1
  BY <1>1, <1>7, <1>8
<1> QED
  BY <1>2, <1>6, <1>9

-----------------------------------------------------------------------------
(* The growing blocks                                                      *)

LEMMA WidthFacts ==
  /\ Width \in Nat /\ MaxBlock \in Nat \ {0} /\ 2 * MaxBlock < Width
  /\ Width \div 2 \in Nat /\ 2 * (Width \div 2) <= Width /\ Width \div 2 <= Width
  /\ InitialCapacity \in 1 .. MaxBlock
BY BytesAssumption

Grows(first, f) ==
  f = [k \in 0 .. Width |-> IF k = 0 THEN first ELSE (2 * f[k - 1]) % Width]

LEMMA GrowsExists ==
  ASSUME NEW first \in 0 .. Width - 1
  PROVE  \E f : Grows(first, f)
<1> DEFINE V == 0 .. Width - 1
           step == [k \in 1 .. Width |-> [v \in V |-> (2 * v) % Width]]
<1>1. \A k \in 1 .. Width : \A v \in V : step[k][v] = (2 * v) % Width /\ step[k][v] \in V
  <2>1. \A v \in V : (2 * v) % Width \in V
    BY WidthFacts
  <2> QED
    BY <2>1
<1> HIDE DEF step
<1>2. Width \in Nat /\ first \in V
  BY WidthFacts
<1> HIDE DEF V
<1>3. PICK g \in [0 .. Width -> V] : Recurs(Width, first, step, g)
  BY <1>1, <1>2, RecursionExists
<1> DEFINE u(k) == IF k = 0 THEN first ELSE step[k][g[k - 1]]
           v(k) == IF k = 0 THEN first ELSE (2 * g[k - 1]) % Width
<1>4. ASSUME NEW k \in 0 .. Width PROVE u(k) = v(k)
  <2>1. k # 0 => k \in 1 .. Width /\ g[k - 1] \in V
    BY <1>2
  <2> QED
    BY <1>1, <2>1
<1>5. g = [k \in 0 .. Width |-> u(k)]
  BY <1>3 DEF Recurs
<1>6. [k \in 0 .. Width |-> u(k)] = [k \in 0 .. Width |-> v(k)]
  <2> HIDE DEF u, v
  <2> QED
    BY <1>4
<1>7. g = [k \in 0 .. Width |-> v(k)]
  BY <1>5, <1>6
<1> QED
  BY <1>7 DEF Grows

LEMMA DoubledFacts ==
  ASSUME NEW capacity \in 0 .. MaxBlock, NEW needed \in Nat
  PROVE  /\ Doubled(capacity, needed) \in Nat
         /\ Doubled(capacity, needed) = Never => needed > Width \div 2
         /\ Doubled(capacity, needed) # Never => Doubled(capacity, needed) >= needed
<1> DEFINE W == Width
           half == Width \div 2
           first == IF capacity = 0 THEN InitialCapacity ELSE (2 * capacity) % Width
           Loop(f) == f = [k \in 0 .. Width |-> CASE k > 0 -> (2 * f[k - 1]) % Width
                                                  [] k = 0 /\ capacity = 0 -> InitialCapacity
                                                  [] OTHER -> (2 * capacity) % Width]
           f == CHOOSE f : Loop(f)
           enough == {k \in 0 .. Width : f[k] >= needed}
<1>1. W \in Nat \ {0} /\ half \in Nat /\ half < W /\ 2 * half <= W
  BY WidthFacts
<1>2. first \in 1 .. W - 1
  BY WidthFacts
<1>3. Doubled(capacity, needed) = IF enough = {} THEN Never ELSE f[Min(enough)]
  BY DEF Doubled
<1>4. \A g : Loop(g) <=> Grows(first, g)
  <2> TAKE g
  <2> DEFINE u(k) == CASE k > 0 -> (2 * g[k - 1]) % Width
                       [] k = 0 /\ capacity = 0 -> InitialCapacity
                       [] OTHER -> (2 * capacity) % Width
             v(k) == IF k = 0 THEN first ELSE (2 * g[k - 1]) % Width
  <2>1. \A k \in 0 .. Width : u(k) = v(k)
    OBVIOUS
  <2>2. Loop(g) <=> g = [k \in 0 .. Width |-> u(k)]
    OBVIOUS
  <2>3. Grows(first, g) <=> g = [k \in 0 .. Width |-> v(k)]
    BY DEF Grows
  <2> HIDE DEF u, v, Loop
  <2>4. [k \in 0 .. Width |-> u(k)] = [k \in 0 .. Width |-> v(k)]
    BY <2>1
  <2> QED
    BY <2>2, <2>3, <2>4
<1> HIDE DEF Loop, first
<1>5. Grows(first, f)
  <2>1. first \in 0 .. Width - 1
    BY <1>1, <1>2
  <2>2. \E g : Loop(g)
    BY <1>4, <2>1, GrowsExists
  <2> QED
    BY <1>4, <2>2
<1> HIDE DEF f
<1>6. f[0] = first /\ \A k \in 1 .. W : f[k] = (2 * f[k - 1]) % W
  <2> DEFINE v(k) == IF k = 0 THEN first ELSE (2 * f[k - 1]) % Width
  <2>1. f = [k \in 0 .. Width |-> v(k)]
    BY <1>5 DEF Grows
  <2> HIDE DEF v
  <2>2. \A k \in 0 .. Width : f[k] = v(k)
    BY <2>1
  <2>3. 0 \in 0 .. Width /\ \A k \in 1 .. W : k \in 0 .. Width /\ k # 0
    BY <1>1
  <2> QED
    BY <2>2, <2>3 DEF v
<1> HIDE DEF W, half
<1>7. \A k \in 0 .. W : f[k] \in 0 .. W - 1
  <2> DEFINE S == {k \in Nat : k <= W => f[k] \in 0 .. W - 1}
  <2>1. 0 \in S
    BY <1>1, <1>2, <1>6
  <2>2. ASSUME NEW k \in Nat \ {0}, k - 1 \in S PROVE k \in S
    <3> SUFFICES ASSUME k <= W PROVE f[k] \in 0 .. W - 1
      OBVIOUS
    <3>1. k \in 1 .. W /\ f[k - 1] \in 0 .. W - 1
      BY <1>1, <2>2
    <3> DEFINE v == f[k - 1]
    <3>2. f[k] = (2 * v) % W /\ v \in Nat
      BY <1>1, <1>6, <3>1
    <3> HIDE DEF v
    <3>3. (2 * v) % W \in 0 .. W - 1
      BY <1>1, <3>2
    <3> QED
      BY <3>2, <3>3
  <2> HIDE DEF S
  <2>3. Nat \subseteq S
    BY <2>1, <2>2, FromBelow
  <2> QED
    BY <1>1, <2>3 DEF S
<1>8. ASSUME enough = {}, needed <= half PROVE FALSE
  <2> DEFINE S == {k \in Nat : k <= W => f[k] >= k + 1}
  <2>1. \A k \in 0 .. W : f[k] < half
    <3> TAKE k \in 0 .. W
    <3>1. ~ (f[k] >= needed)
      BY <1>8 DEF W
    <3>2. f[k] \in Nat
      BY <1>1, <1>7
    <3> QED
      BY <1>1, <1>8, <3>1, <3>2
  <2>2. 0 \in S
    BY <1>1, <1>2, <1>6
  <2>3. ASSUME NEW k \in Nat \ {0}, k - 1 \in S PROVE k \in S
    <3> SUFFICES ASSUME k <= W PROVE f[k] >= k + 1
      OBVIOUS
    <3> DEFINE v == f[k - 1]
    <3>1. k \in 1 .. W /\ k - 1 \in 0 .. W /\ v >= k
      BY <1>1, <2>3
    <3>2. f[k] = (2 * v) % W /\ v \in Nat /\ v < half
      BY <1>1, <1>6, <1>7, <2>1, <3>1
    <3> HIDE DEF v
    <3>3. (2 * v) % W = 2 * v
      BY <1>1, <3>2
    <3> QED
      BY <3>1, <3>2, <3>3
  <2>4. W \in S
    <3> HIDE DEF S
    <3>1. Nat \subseteq S
      BY <2>2, <2>3, FromBelow
    <3> QED
      BY <1>1, <3>1
  <2>5. f[W] >= W + 1 /\ f[W] \in 0 .. W - 1
    BY <1>1, <1>7, <2>4
  <2> QED
    BY <1>1, <2>5
<1>9. CASE enough = {}
  <2>1. Doubled(capacity, needed) = W
    BY <1>3, <1>9 DEF Never, W
  <2>2. ~ (needed <= half)
    BY <1>8, <1>9
  <2> QED
    BY <1>1, <2>1, <2>2 DEF Never, W, half
<1>10. CASE enough # {}
  <2>1. enough \in SUBSET Nat
    OBVIOUS
  <2>2. Min(enough) \in enough
    BY <1>10, <2>1, LeastOf
  <2> DEFINE k == Min(enough)
  <2>3. k \in 0 .. W /\ f[k] >= needed
    BY <2>2 DEF W
  <2>4. Doubled(capacity, needed) = f[k]
    BY <1>3, <1>10
  <2> HIDE DEF k, enough
  <2>5. f[k] \in 0 .. W - 1
    BY <1>7, <2>3
  <2> QED
    BY <1>1, <2>3, <2>4, <2>5 DEF Never, W
<1> QED
  BY <1>9, <1>10

\* What is in a block, with its NUL, is no more than the block holds.
Sound(b, nul) ==
  /\ b \in [length : 0 .. MaxBlock, capacity : 0 .. MaxBlock, returns : BOOLEAN]
  /\ b.length + nul <= b.capacity

LEMMA ExtendedFacts ==
  ASSUME NEW nul \in {0, 1}, NEW b, Sound(b, nul), b.returns, NEW n \in 0 .. MaxBlock - nul, NEW memory \in BOOLEAN
  PROVE  LET e == Extended(b, n, nul, memory)
         IN  Sound(e, nul) /\ (e.returns \/ (e.length = b.length /\ b.length + n + nul > Width \div 2))
<1> DEFINE W == Width
           l == b.length
           c == b.capacity
           needed == (l + n + nul) % W
           larger == Doubled(c, needed)
           longer == [b EXCEPT !.length = (l + n) % W]
           e == Extended(b, n, nul, memory)
<1>1. /\ W \in Nat /\ MaxBlock \in Nat /\ 2 * MaxBlock < W /\ n \in Nat /\ nul \in Nat /\ n + nul <= MaxBlock
      /\ l \in 0 .. MaxBlock /\ c \in 0 .. MaxBlock /\ l + nul <= c
      /\ b \in [length : 0 .. MaxBlock, capacity : 0 .. MaxBlock, returns : BOOLEAN]
  BY WidthFacts DEF Sound
<1>2. needed = l + n + nul /\ (l + n) % W = l + n
  <2> HIDE DEF W, l, c
  <2>1. l + n + nul \in 0 .. W - 1 /\ l + n \in 0 .. W - 1
    BY <1>1
  <2> QED
    BY <1>1, <2>1
<1>3. e = CASE needed <= c -> longer
            [] needed > c /\ larger = Never -> [b EXCEPT !.returns = FALSE]
            [] needed > c /\ larger <= MaxBlock /\ memory -> [longer EXCEPT !.capacity = larger]
            [] OTHER -> b
  BY DEF Extended
<1>4. needed \in Nat
  BY <1>1, <1>2
<1> HIDE DEF needed
<1>5. /\ larger \in Nat /\ (larger = Never => needed > Width \div 2)
      /\ larger # Never => larger >= needed
  BY <1>1, <1>4, DoubledFacts
<1> HIDE DEF larger, W, e
<1>6. CASE needed <= c
  <2>1. e = longer
    <3>1. ~ (needed > c)
      BY <1>1, <1>4, <1>6
    <3> HIDE DEF longer, c
    <3> QED
      BY <1>3, <1>6, <3>1
  <2>2. l + n \in 0 .. MaxBlock /\ l + n + nul <= c
    BY <1>1, <1>2, <1>6
  <2>3. longer = [b EXCEPT !.length = l + n]
    BY <1>2
  <2>4. Sound(longer, nul) /\ longer.returns
    BY <1>1, <2>2, <2>3 DEF Sound
  <2> QED
    BY <2>1, <2>4 DEF e
<1>7. CASE needed > c /\ larger = Never
  <2>1. ~ (needed <= c)
    BY <1>1, <1>4, <1>7
  <2>2. e = [b EXCEPT !.returns = FALSE]
    <3>1. ~ (larger <= MaxBlock)
      BY <1>1, <1>7 DEF Never, W
    <3> HIDE DEF longer, c
    <3> QED
      BY <1>3, <1>7, <2>1, <3>1
  <2>3. Sound(e, nul) /\ e.length = l
    BY <1>1, <2>2 DEF Sound
  <2>4. l + n + nul > Width \div 2
    BY <1>2, <1>5, <1>7
  <2> QED
    BY <2>3, <2>4 DEF e
<1>8. CASE needed > c /\ larger # Never
  <2>1. ~ (needed <= c)
    BY <1>1, <1>4, <1>8
  <2>2. CASE larger <= MaxBlock /\ memory
    <3>1. e = [longer EXCEPT !.capacity = larger]
      BY <1>3, <1>8, <2>1, <2>2
    <3>2. e = [b EXCEPT !.length = l + n, !.capacity = larger]
      BY <1>1, <1>2, <3>1
    <3>3. l + n \in 0 .. MaxBlock /\ larger \in 0 .. MaxBlock /\ l + n + nul <= larger
      BY <1>1, <1>2, <1>4, <1>5, <1>8, <2>2
    <3>4. Sound(e, nul) /\ e.returns
      BY <1>1, <3>2, <3>3 DEF Sound
    <3> QED
      BY <3>4 DEF e
  <2>3. CASE ~ (larger <= MaxBlock /\ memory)
    <3>1. e = b
      BY <1>3, <1>8, <2>1, <2>3
    <3> QED
      BY <3>1 DEF e
  <2> QED
    BY <2>2, <2>3
<1>9. needed <= c \/ needed > c
  BY <1>1, <1>4
<1> QED
  BY <1>6, <1>7, <1>8, <1>9

\* The calls there are on a string, and on a buffer.
Call(nul) ==
  IF nul = 1 THEN [op : {"append"}, size : 0 .. MaxBlock - 1, memory : BOOLEAN]
  ELSE [op : {"write", "clear"}, size : 0 .. MaxBlock, memory : BOOLEAN]

Done(b, calls, nul) ==
  /\ Sound(b, nul)
  /\ b.returns \/ \E i \in DOMAIN calls : b.length + calls[i].size + nul > Width \div 2

LEMMA CalledFacts ==
  ASSUME NEW nul \in {0, 1}, NEW calls \in Seq(Call(nul)), NEW i \in 1 .. Len(calls), NEW b, Done(b, calls, nul)
  PROVE  Done(Called(b, calls[i]), calls, nul)
<1> DEFINE c == calls[i]
           e == Extended(b, c.size, nul, c.memory)
<1>1. c \in Call(nul) /\ i \in DOMAIN calls
  BY ElementOfSeq, LenProperties
<1>2. CASE ~ b.returns
  BY <1>2 DEF Called
<1>3. CASE b.returns
  <2>1. c.size \in 0 .. MaxBlock - nul /\ c.memory \in BOOLEAN
    BY <1>1, WidthFacts DEF Call
  <2>2. Sound(b, nul)
    BY DEF Done
  <2>3. Sound(e, nul) /\ (e.returns \/ (e.length = b.length /\ b.length + c.size + nul > Width \div 2))
    BY <1>3, <2>1, <2>2, ExtendedFacts
  <2>4. Done(e, calls, nul)
    BY <1>1, <2>3 DEF Done
  <2>5. CASE c.op = "clear"
    <3>1. nul = 0
      BY <1>1, <2>5 DEF Call
    <3>2. Called(b, c) = [b EXCEPT !.length = 0]
      BY <1>3, <2>5 DEF Called, BufferClear
    <3>3. Sound([b EXCEPT !.length = 0], nul) /\ [b EXCEPT !.length = 0].returns
      BY <1>3, <2>2, <3>1, WidthFacts DEF Sound
    <3> QED
      BY <3>2, <3>3 DEF Done
  <2>6. CASE c.op # "clear"
    <3>1. (nul = 1 /\ c.op = "append") \/ (nul = 0 /\ c.op = "write")
      BY <1>1, <2>6 DEF Call
    <3>2. Called(b, c) = e
      BY <1>3, <3>1 DEF Called, StringAppend, BufferWrite
    <3> QED
      BY <2>4, <3>2
  <2> QED
    BY <2>5, <2>6
<1> QED
  BY <1>2, <1>3

Runs(b, calls, n, f) == f = [i \in 0 .. n |-> IF i = 0 THEN b ELSE Called(f[i - 1], calls[i])]

LEMMA CallsFacts ==
  ASSUME NEW nul \in {0, 1}, NEW calls \in Seq(Call(nul)), NEW b, Sound(b, nul), b.returns
  PROVE  Done(Calls(b, calls), calls, nul)
<1> DEFINE n == Len(calls)
           V == {v \in [length : 0 .. MaxBlock, capacity : 0 .. MaxBlock, returns : BOOLEAN] : Done(v, calls, nul)}
           step == [i \in 1 .. n |-> [v \in V |-> Called(v, calls[i])]]
           f == CHOOSE f : Runs(b, calls, n, f)
<1>1. n \in Nat
  BY LenProperties
<1>2. b \in V
  BY DEF Done, Sound
<1>3. \A v : v \in V <=> Done(v, calls, nul)
  BY DEF Done, Sound
<1>4. Calls(b, calls) = f[n]
  BY DEF Calls, Runs
<1> HIDE DEF V
<1>5. \A i \in 1 .. n : \A v \in V : step[i][v] = Called(v, calls[i]) /\ step[i][v] \in V
  <2> TAKE i \in 1 .. n
  <2> TAKE v \in V
  <2>1. Done(Called(v, calls[i]), calls, nul)
    BY <1>3, CalledFacts
  <2>2. Called(v, calls[i]) \in V
    BY <1>3, <2>1
  <2> QED
    BY <2>2
<1> HIDE DEF n, step
<1>6. \E g : Runs(b, calls, n, g)
  <2>1. PICK g \in [0 .. n -> V] : Recurs(n, b, step, g)
    BY <1>1, <1>2, <1>5, RecursionExists
  <2> DEFINE u(i) == IF i = 0 THEN b ELSE step[i][g[i - 1]]
             v(i) == IF i = 0 THEN b ELSE Called(g[i - 1], calls[i])
  <2>2. ASSUME NEW i \in 0 .. n PROVE u(i) = v(i)
    <3>1. i # 0 => i \in 1 .. n /\ g[i - 1] \in V
      BY <1>1
    <3> QED
      BY <1>5, <3>1
  <2>3. g = [i \in 0 .. n |-> u(i)]
    BY <2>1 DEF Recurs
  <2>4. [i \in 0 .. n |-> u(i)] = [i \in 0 .. n |-> v(i)]
    <3> HIDE DEF u, v
    <3> QED
      BY <2>2
  <2>5. g = [i \in 0 .. n |-> v(i)]
    BY <2>3, <2>4
  <2> QED
    BY <2>5 DEF Runs
<1>7. Runs(b, calls, n, f)
  BY <1>6
<1> HIDE DEF f
<1>8. f[0] = b /\ \A i \in 1 .. n : f[i] = Called(f[i - 1], calls[i])
  <2> DEFINE v(i) == IF i = 0 THEN b ELSE Called(f[i - 1], calls[i])
  <2>1. f = [i \in 0 .. n |-> v(i)]
    BY <1>7 DEF Runs
  <2> HIDE DEF v
  <2>2. \A i \in 0 .. n : f[i] = v(i)
    BY <2>1
  <2>3. 0 \in 0 .. n /\ \A i \in 1 .. n : i \in 0 .. n /\ i # 0
    BY <1>1
  <2> QED
    BY <2>2, <2>3 DEF v
<1> DEFINE T == {i \in Nat : i <= n => f[i] \in V}
<1>9. 0 \in T
  BY <1>2, <1>8
<1>10. ASSUME NEW i \in Nat \ {0}, i - 1 \in T PROVE i \in T
  <2> SUFFICES ASSUME i <= n PROVE f[i] \in V
    OBVIOUS
  <2>1. i \in 1 .. n /\ f[i - 1] \in V
    BY <1>1, <1>10
  <2>2. f[i] = step[i][f[i - 1]] /\ step[i][f[i - 1]] \in V
    BY <1>5, <1>8, <2>1
  <2> QED
    BY <2>2
<1>11. n \in T
  <2> HIDE DEF T
  <2>1. Nat \subseteq T
    BY <1>9, <1>10, FromBelow
  <2> QED
    BY <1>1, <2>1
<1> QED
  BY <1>1, <1>3, <1>4, <1>11

(* Whatever the input and however wide a size_t is: the decoders and the   *)
(* converters write no more than the room they have made, a string and a   *)
(* buffer hold no more than their blocks, calls return unless two blocks   *)
(* take more than half of all addresses, and a substring ends within its   *)
(* string.                                                                 *)
THEOREM RoomEnough == Spec => []OutputFits
<1>1. Typed => OutputFits
  <2> SUFFICES ASSUME Typed PROVE OutputFits
    OBVIOUS
  <2>1. text \in Seq(Alphabet[kind])
    BY DEF Typed
  <2>2. Base64Accepts(text) => Len(Base64Decode(text)) <= Base64Room(text)
    BY <2>1, Base64Fits
  <2>3. Len(Utf8ToUtf16(text)) = Utf16Room(text) /\ Len(Utf8ToUtf16(text)) \in Nat
    BY <2>1, Utf16Fits
  <2>4. Len(Utf16ToUtf8(text)) = Utf8Room(text) /\ Len(Utf16ToUtf8(text)) \in Nat
    BY <2>1, Utf8Fits
  <2>5. Len(CommandLine(Argv(text))) + 1 <= LineRoom(Argv(text))
    <3>1. Argv(text) \in Seq(Seq(Alphabet[kind]))
      BY <2>1, ArgvTyped
    <3> QED
      BY <3>1, LineFits
  <2>6. kind = "appends" => \A n \in 0 .. MaxBlock - 1 : Done(Calls(StringOf(n), text), text, 1)
    <3> SUFFICES ASSUME kind = "appends", NEW n \in 0 .. MaxBlock - 1
                 PROVE  Done(Calls(StringOf(n), text), text, 1)
      OBVIOUS
    <3>1. text \in Seq(Call(1))
      <4>1. Alphabet["appends"] \subseteq Call(1)
        BY Alphabets DEF Typed, Call
      <4> QED
        BY <2>1, <4>1, SeqMonotonic
    <3> DEFINE T == {InitialCapacity, n + 1}
               c == Max(T)
    <3>2. c \in T /\ \A m \in T : m <= c
      <4>1. T \in SUBSET (0 .. MaxBlock) /\ T # {} /\ MaxBlock \in Nat
        BY WidthFacts
      <4> HIDE DEF T
      <4> QED
        BY <4>1, GreatestOf
    <3>3. c \in 0 .. MaxBlock /\ n + 1 <= c
      <4> HIDE DEF c
      <4> QED
        BY <3>2, WidthFacts
    <3> HIDE DEF c, T
    <3>4. Block(n, c).returns /\ Sound(Block(n, c), 1)
      BY <3>3, WidthFacts DEF Block, Sound
    <3>5. StringOf(n) = Block(n, c)
      BY DEF StringOf, c, T
    <3> QED
      BY <3>1, <3>4, <3>5, CallsFacts
  <2>7. kind = "writes" => Done(Calls(EmptyBuffer, text), text, 0)
    <3> SUFFICES ASSUME kind = "writes" PROVE Done(Calls(EmptyBuffer, text), text, 0)
      OBVIOUS
    <3>1. text \in Seq(Call(0))
      <4>1. Alphabet["writes"] \subseteq Call(0)
        BY Alphabets DEF Typed, Call
      <4> QED
        BY <2>1, <4>1, SeqMonotonic
    <3>2. EmptyBuffer.returns /\ Sound(EmptyBuffer, 0)
      BY WidthFacts DEF EmptyBuffer, Block, Sound
    <3> QED
      BY <3>1, <3>2, CallsFacts
  <2>8. ASSUME NEW b, NEW nul \in {0, 1}, Done(b, text, nul) PROVE Fits(b, nul)
    BY <2>8 DEF Done, Sound, Fits, TooMuch
  <2>9. ASSUME NEW b, Done(b, text, 1), NEW start \in 0 .. Width - 1, NEW n \in 0 .. Width - 1
        PROVE  InString(b, start, n) <=> start + n <= b.length
    <3>1. b.length \in 0 .. Width - 1 /\ Width \in Nat
      BY <2>9, WidthFacts DEF Done, Sound
    <3> DEFINE l == b.length
    <3> HIDE DEF l
    <3>2. start <= l => (l - start) % Width = l - start
      BY <3>1 DEF l
    <3>3. (start <= l /\ n <= (l - start) % Width) <=> start + n <= l
      <4>1. CASE start <= l
        BY <3>1, <3>2, <4>1 DEF l
      <4>2. CASE ~ (start <= l)
        BY <3>1, <4>2 DEF l
      <4> QED
        BY <4>1, <4>2
    <3> QED
      BY <3>3 DEF InString, l
  <2>10. kind = "appends" => Done(Calls(StringOf(0), text), text, 1)
    <3>1. 0 \in 0 .. MaxBlock - 1
      BY WidthFacts
    <3> QED
      BY <2>6, <3>1
  <2>11. kind = "appends" => \A n \in 0 .. MaxBlock - 1 : Fits(Calls(StringOf(n), text), 1)
    BY <2>6, <2>8
  <2>12. kind = "appends" =>
           \A start, n \in 0 .. Width - 1 :
             InString(Calls(StringOf(0), text), start, n) <=> start + n <= Calls(StringOf(0), text).length
    BY <2>9, <2>10
  <2>13. kind = "writes" => Fits(Calls(EmptyBuffer, text), 0)
    BY <2>7, <2>8
  <2> QED
    BY <2>2, <2>3, <2>4, <2>5, <2>11, <2>12, <2>13 DEF OutputFits
<1> QED
  BY <1>1, InputTyped, PTL

-----------------------------------------------------------------------------
(* What a sequence of sequences is flattened to, piece by piece            *)

\* A text is the pieces appended one by one.
LEMMA FlattenSteps ==
  ASSUME NEW S, NEW ss \in Seq(Seq(S))
  PROVE  \E f \in [0 .. Len(ss) -> Seq(S)] :
           /\ f[0] = <<>> /\ FlattenSeq(ss) = f[Len(ss)]
           /\ \A k \in 1 .. Len(ss) : f[k] = f[k - 1] \o ss[k]
<1> DEFINE n == Len(ss)
           V == Seq(S)
           step == [k \in 1 .. n |-> [v \in V |-> v \o ss[k]]]
<1>1. n \in Nat /\ \A k \in 1 .. n : ss[k] \in V
  BY LenProperties, ElementOfSeq
<1>2. \A k \in 1 .. n : \A v \in V : step[k][v] = v \o ss[k] /\ step[k][v] \in V
  <2> TAKE k \in 1 .. n
  <2> TAKE v \in V
  <2>1. v \o ss[k] \in V
    BY <1>1, ConcatProperties
  <2> QED
    BY <2>1
<1>3. <<>> \in V
  BY EmptySeq
<1> HIDE DEF n, V, step
<1>4. PICK f \in [0 .. n -> V] : Recurs(n, <<>>, step, f)
  BY <1>1, <1>2, <1>3, RecursionExists
<1>5. f[0] = <<>> /\ \A k \in 1 .. n : f[k] = f[k - 1] \o ss[k]
  <2> DEFINE u(k) == IF k = 0 THEN <<>> ELSE step[k][f[k - 1]]
  <2>1. f = [k \in 0 .. n |-> u(k)]
    BY <1>4 DEF Recurs
  <2> HIDE DEF u
  <2>2. \A k \in 0 .. n : f[k] = u(k)
    BY <2>1
  <2>3. \A k \in 1 .. n : k \in 0 .. n /\ k - 1 \in 0 .. n /\ k # 0
    BY <1>1
  <2>4. \A k \in 1 .. n : f[k] = step[k][f[k - 1]]
    BY <2>2, <2>3 DEF u
  <2>5. 0 \in 0 .. n
    BY <1>1
  <2>6. f[0] = <<>>
    BY <2>2, <2>5 DEF u
  <2> QED
    BY <1>2, <2>3, <2>4, <2>6
<1>6. FlattenSeq(ss) = f[n]
  <2>1. CASE n = 0
    <3>1. ss = <<>>
      BY <2>1, EmptySeq DEF n
    <3> QED
      BY <1>5, <2>1, <3>1 DEF FlattenSeq, n
  <2>2. CASE n # 0
    <3> DEFINE g == CHOOSE g : Flattens(ss, n, g)
    <3>1. FlattenSeq(ss) = g[n]
      BY <2>2 DEF FlattenSeq, Flattens, n
    <3>2. \E h : Flattens(ss, n, h)
      <4>1. \A k \in 1 .. n : IsSequence(ss[k])
        BY <1>1, Sequence DEF V
      <4>2. n \in Nat \ {0}
        BY <1>1, <2>2
      <4> QED
        BY <4>1, <4>2, FlattensExists
    <3>3. Flattens(ss, n, g)
      BY <3>2
    <3> HIDE DEF g
    <3>4. \A k \in 1 .. n : g[k] = IF k = 1 THEN ss[k] ELSE g[k - 1] \o ss[k]
      <4> DEFINE u(k) == IF k = 1 THEN ss[k] ELSE g[k - 1] \o ss[k]
      <4>1. g = [k \in 1 .. n |-> u(k)]
        BY <3>3 DEF Flattens
      <4> HIDE DEF u
      <4>2. \A k \in 1 .. n : g[k] = u(k)
        BY <4>1
      <4> QED
        BY <4>2 DEF u
    <3> DEFINE T == {k \in Nat : k \in 1 .. n => g[k] = f[k]}
    <3>5. 0 \in T
      OBVIOUS
    <3>6. ASSUME NEW k \in Nat \ {0}, k - 1 \in T PROVE k \in T
      <4> SUFFICES ASSUME k \in 1 .. n PROVE g[k] = f[k]
        OBVIOUS
      <4>1. CASE k = 1
        <5>1. f[k] = <<>> \o ss[k]
          <6>1. k - 1 = 0
            BY <4>1
          <6> QED
            BY <1>5, <6>1
        <5>2. ss[k] \in Seq(S)
          BY <1>1 DEF V
        <5>3. f[k] = ss[k]
          BY <5>1, <5>2, ConcatEmptySeq
        <5> QED
          BY <3>4, <4>1, <5>3
      <4>2. CASE k # 1
        <5>1. g[k - 1] = f[k - 1]
          BY <1>1, <3>6, <4>2
        <5> QED
          BY <1>5, <3>4, <4>2, <5>1
      <4> QED
        BY <4>1, <4>2
    <3>7. n \in T
      <4> HIDE DEF T
      <4>1. Nat \subseteq T
        BY <3>5, <3>6, FromBelow
      <4> QED
        BY <1>1, <4>1
    <3> QED
      BY <1>1, <2>2, <3>1, <3>7
  <2> QED
    BY <2>1, <2>2
<1> QED
  BY <1>5, <1>6 DEF n, V

\* The first piece comes first.
LEMMA FlattenCons ==
  ASSUME NEW S, NEW x \in Seq(S), NEW ss \in Seq(Seq(S))
  PROVE  FlattenSeq(<<x>> \o ss) = x \o FlattenSeq(ss) /\ FlattenSeq(ss) \in Seq(S)
<1> DEFINE tt == <<x>> \o ss
           n == Len(ss)
<1>1. /\ tt \in Seq(Seq(S)) /\ Len(tt) = n + 1 /\ n \in Nat /\ tt[1] = x
      /\ \A k \in 1 .. n : tt[k + 1] = ss[k] /\ ss[k] \in Seq(S)
  <2>1. <<x>> \in Seq(Seq(S)) /\ Len(<<x>>) = 1 /\ <<x>>[1] = x
    OBVIOUS
  <2>2. n \in Nat /\ \A k \in 1 .. n : ss[k] \in Seq(S)
    BY LenProperties, ElementOfSeq
  <2> HIDE DEF n
  <2>3. /\ tt \in Seq(Seq(S)) /\ Len(tt) = 1 + n
        /\ \A k \in 1 .. 1 + n : tt[k] = IF k <= 1 THEN <<x>>[k] ELSE ss[k - 1]
    BY <2>1, ConcatProperties DEF n
  <2> HIDE DEF tt
  <2>4. \A k \in 1 .. n : tt[k + 1] = ss[k]
    <3> TAKE k \in 1 .. n
    <3>1. k + 1 \in 1 .. 1 + n /\ ~ (k + 1 <= 1) /\ (k + 1) - 1 = k
      BY <2>2
    <3> QED
      BY <2>3, <3>1
  <2>5. 1 \in 1 .. 1 + n
    BY <2>2
  <2> QED
    BY <2>1, <2>2, <2>3, <2>4, <2>5
<1> HIDE DEF tt
<1>2. PICK f \in [0 .. n -> Seq(S)] :
        f[0] = <<>> /\ FlattenSeq(ss) = f[n] /\ \A k \in 1 .. n : f[k] = f[k - 1] \o ss[k]
  BY FlattenSteps
<1> HIDE DEF n
<1>3. PICK g \in [0 .. n + 1 -> Seq(S)] :
        g[0] = <<>> /\ FlattenSeq(tt) = g[n + 1] /\ \A k \in 1 .. n + 1 : g[k] = g[k - 1] \o tt[k]
  <2>1. \E g \in [0 .. Len(tt) -> Seq(S)] :
          g[0] = <<>> /\ FlattenSeq(tt) = g[Len(tt)] /\ \A k \in 1 .. Len(tt) : g[k] = g[k - 1] \o tt[k]
    BY <1>1, FlattenSteps
  <2> QED
    BY <1>1, <2>1
<1> DEFINE T == {k \in Nat : k <= n => g[k + 1] = x \o f[k]}
<1>4. 0 \in T
  <2>1. 1 \in 1 .. n + 1 /\ 1 - 1 = 0 /\ 0 + 1 = 1
    BY <1>1
  <2>2. g[1] = <<>> \o x
    BY <1>1, <1>3, <2>1
  <2>3. <<>> \o x = x /\ x \o <<>> = x
    BY ConcatEmptySeq
  <2> QED
    BY <1>2, <2>1, <2>2, <2>3
<1>5. ASSUME NEW k \in Nat \ {0}, k - 1 \in T PROVE k \in T
  <2> SUFFICES ASSUME k <= n PROVE g[k + 1] = x \o f[k]
    OBVIOUS
  <2>1. k \in 1 .. n /\ k - 1 \in 0 .. n /\ k + 1 \in 1 .. n + 1 /\ (k + 1) - 1 = k /\ (k - 1) + 1 = k
    BY <1>1
  <2>2. g[k] = x \o f[k - 1]
    BY <1>5, <2>1
  <2>3. g[k + 1] = g[k] \o ss[k]
    BY <1>1, <1>3, <2>1
  <2>4. f[k] = f[k - 1] \o ss[k]
    BY <1>2, <2>1
  <2>5. (x \o f[k - 1]) \o ss[k] = x \o (f[k - 1] \o ss[k])
    <3> DEFINE y == f[k - 1]
               z == ss[k]
    <3>1. x \in Seq(S) /\ y \in Seq(S) /\ z \in Seq(S)
      BY <1>1, <2>1
    <3> HIDE DEF y, z
    <3>2. (x \o y) \o z = x \o (y \o z)
      BY ONLY <3>1, ConcatAssociative
    <3> QED
      BY <3>2 DEF y, z
  <2> QED
    BY <2>2, <2>3, <2>4, <2>5
<1>6. n \in T
  <2> HIDE DEF T
  <2>1. Nat \subseteq T
    BY <1>4, <1>5, FromBelow
  <2> QED
    BY <1>1, <2>1
<1>7. f[n] \in Seq(S)
  BY <1>1, <1>2
<1>8. g[n + 1] = x \o f[n]
  BY <1>1, <1>6
<1> QED
  BY <1>2, <1>3, <1>7, <1>8 DEF tt

\* Where the pieces are.
Places(ss, pos) ==
  /\ pos[0] = 0 /\ Len(FlattenSeq(ss)) = pos[Len(ss)]
  /\ \A k \in 1 .. Len(ss) :
       /\ pos[k] = pos[k - 1] + Len(ss[k]) /\ pos[k] <= pos[Len(ss)]
       /\ \A j \in 1 .. Len(ss[k]) : FlattenSeq(ss)[pos[k - 1] + j] = ss[k][j]

\* Every piece has its place in the text they make.
LEMMA FlattenPlaces ==
  ASSUME NEW S, NEW ss \in Seq(Seq(S))
  PROVE  \E pos \in [0 .. Len(ss) -> Nat] : Places(ss, pos)
<1> DEFINE n == Len(ss)
<1>1. n \in Nat /\ \A k \in 1 .. n : ss[k] \in Seq(S) /\ Len(ss[k]) \in Nat
  BY LenProperties, ElementOfSeq
<1>2. PICK f \in [0 .. n -> Seq(S)] :
        f[0] = <<>> /\ FlattenSeq(ss) = f[n] /\ \A k \in 1 .. n : f[k] = f[k - 1] \o ss[k]
  BY FlattenSteps
<1> DEFINE pos == [k \in 0 .. n |-> Len(f[k])]
<1>3. /\ pos \in [0 .. n -> Nat]
      /\ \A k \in 0 .. n : pos[k] = Len(f[k]) /\ f[k] \in Seq(S) /\ pos[k] \in Nat
  BY <1>2, LenProperties
<1> HIDE DEF n, pos
<1>4. pos[0] = 0
  <2>1. 0 \in 0 .. n /\ Len(<<>>) = 0
    BY <1>1, EmptySeq
  <2> QED
    BY <1>2, <1>3, <2>1
<1>5. ASSUME NEW k \in 1 .. n
      PROVE  /\ pos[k] = pos[k - 1] + Len(ss[k])
             /\ \A j \in 1 .. pos[k - 1] : f[k][j] = f[k - 1][j]
             /\ \A j \in 1 .. Len(ss[k]) : f[k][pos[k - 1] + j] = ss[k][j]
  <2> DEFINE before == f[k - 1]
             this == ss[k]
  <2>1. k \in 0 .. n /\ k - 1 \in 0 .. n
    BY <1>1
  <2>2. before \in Seq(S) /\ this \in Seq(S) /\ f[k] = before \o this
    BY <1>1, <1>2, <2>1
  <2>3. Len(before) = pos[k - 1] /\ Len(f[k]) = pos[k] /\ pos[k - 1] \in Nat /\ Len(this) \in Nat
    BY <1>1, <1>3, <2>1
  <2> HIDE DEF before, this
  <2>4. /\ Len(before \o this) = Len(before) + Len(this)
        /\ \A j \in 1 .. Len(before) + Len(this) :
             (before \o this)[j] = IF j <= Len(before) THEN before[j] ELSE this[j - Len(before)]
    BY <2>2, ConcatProperties
  <2>5. ASSUME NEW j \in 1 .. pos[k - 1] PROVE f[k][j] = before[j]
    BY <2>2, <2>3, <2>4
  <2>6. ASSUME NEW j \in 1 .. Len(this) PROVE f[k][pos[k - 1] + j] = this[j]
    <3> DEFINE i == pos[k - 1] + j
    <3>1. i \in 1 .. Len(before) + Len(this) /\ ~ (i <= Len(before)) /\ i - Len(before) = j
      BY <2>3
    <3> HIDE DEF i
    <3>2. f[k][i] = this[j]
      BY <2>2, <2>4, <3>1
    <3> QED
      BY <3>2 DEF i
  <2> QED
    BY <2>2, <2>3, <2>4, <2>5, <2>6 DEF before, this
\* What is written stays.
<1> DEFINE T(k) == {m \in Nat : k <= m /\ m <= n => /\ pos[k] <= pos[m]
                                                 /\ \A j \in 1 .. pos[k] : f[m][j] = f[k][j]}
<1>6. ASSUME NEW k \in 0 .. n PROVE pos[k] <= pos[n] /\ \A j \in 1 .. pos[k] : f[n][j] = f[k][j]
  <2>1. 0 \in T(k)
    <3> SUFFICES ASSUME k <= 0 PROVE pos[k] <= pos[0] /\ \A j \in 1 .. pos[k] : f[0][j] = f[k][j]
      OBVIOUS
    <3>1. k = 0
      BY <1>1
    <3> QED
      BY <1>3, <3>1
  <2>2. ASSUME NEW m \in Nat \ {0}, m - 1 \in T(k) PROVE m \in T(k)
    <3> SUFFICES ASSUME k <= m, m <= n PROVE pos[k] <= pos[m] /\ \A j \in 1 .. pos[k] : f[m][j] = f[k][j]
      OBVIOUS
    <3>1. CASE k = m
      BY <1>3, <3>1
    <3>2. CASE k # m
      <4>1. m \in 1 .. n /\ m - 1 \in 0 .. n /\ k <= m - 1
        BY <1>1, <3>2
      <4>2. pos[k] <= pos[m - 1] /\ \A j \in 1 .. pos[k] : f[m - 1][j] = f[k][j]
        BY <2>2, <4>1
      <4>3. pos[k] \in Nat /\ pos[m - 1] \in Nat /\ pos[m] \in Nat /\ Len(ss[m]) \in Nat
        <5>1. m \in 0 .. n
          BY <4>1
        <5> QED
          BY <1>1, <1>3, <4>1, <5>1
      <4>4. pos[m] = pos[m - 1] + Len(ss[m]) /\ \A j \in 1 .. pos[m - 1] : f[m][j] = f[m - 1][j]
        BY <1>5, <4>1
      <4> QED
        BY <4>2, <4>3, <4>4
    <3> QED
      BY <3>1, <3>2
  <2>3. n \in T(k)
    <3> HIDE DEF T
    <3>1. Nat \subseteq T(k)
      BY <2>1, <2>2, FromBelow
    <3> QED
      BY <1>1, <3>1
  <2> QED
    BY <1>1, <2>3
<1>7. ASSUME NEW k \in 1 .. n, NEW j \in 1 .. Len(ss[k])
      PROVE  f[n][pos[k - 1] + j] = ss[k][j]
  <2> DEFINE i == pos[k - 1] + j
  <2>1. k - 1 \in 0 .. n /\ k \in 0 .. n
    BY <1>1
  <2>2. i \in 1 .. pos[k]
    <3>1. pos[k] = pos[k - 1] + Len(ss[k]) /\ pos[k - 1] \in Nat /\ Len(ss[k]) \in Nat
      BY <1>1, <1>3, <1>5, <2>1
    <3> QED
      BY <3>1
  <2>3. f[k][i] = ss[k][j]
    BY <1>5
  <2> HIDE DEF i
  <2>4. f[n][i] = f[k][i]
    BY <1>6, <2>1, <2>2
  <2> QED
    BY <2>3, <2>4 DEF i
<1>8. n \in 0 .. n /\ \A k \in 1 .. n : k \in 0 .. n
  BY <1>1
<1>9. \A k \in 1 .. n : /\ pos[k] = pos[k - 1] + Len(ss[k]) /\ pos[k] <= pos[n]
                       /\ \A j \in 1 .. Len(ss[k]) : FlattenSeq(ss)[pos[k - 1] + j] = ss[k][j]
  BY <1>2, <1>5, <1>6, <1>7, <1>8
<1>10. Len(FlattenSeq(ss)) = pos[n]
  BY <1>2, <1>3, <1>8
<1> QED
  BY <1>3, <1>4, <1>9, <1>10 DEF n, Places

\* From the last value back, each one from a later one.
Backs(n, stop, base, next, step, f) ==
  \A i \in 1 .. n + 1 : f[i] = IF i \in stop THEN base[i] ELSE step[i][f[next[i]]]

\* The functions that the loops define exist, from the end of the text on.
LEMMA BackExists ==
  ASSUME NEW n \in Nat, NEW V, NEW stop, NEW base, NEW next, NEW step,
         \A i \in 1 .. n + 1 : i \in stop => base[i] \in V,
         \A i \in 1 .. n + 1 : i \notin stop => next[i] \in i + 1 .. n + 1 /\ \A v \in V : step[i][v] \in V
  PROVE  \E f \in [1 .. n + 1 -> V] : Backs(n, stop, base, next, step, f)
<1> DEFINE from(k) == {i \in 1 .. n + 1 : i > n + 1 - k}
           Good(f, i) == f[i] = IF i \in stop THEN base[i] ELSE step[i][f[next[i]]]
           T == {k \in Nat : k <= n + 1 => \E f \in [from(k) -> V] : \A i \in from(k) : Good(f, i)}
<1>1. 0 \in T
  <2>1. from(0) = {}
    OBVIOUS
  <2> DEFINE f == [i \in from(0) |-> base[i]]
  <2>2. f \in [from(0) -> V] /\ \A i \in from(0) : Good(f, i)
    BY <2>1
  <2> QED
    BY <2>2
<1>2. ASSUME NEW k \in Nat \ {0}, k - 1 \in T PROVE k \in T
  <2> SUFFICES ASSUME k <= n + 1 PROVE \E f \in [from(k) -> V] : \A i \in from(k) : Good(f, i)
    OBVIOUS
  <2>1. PICK f \in [from(k - 1) -> V] : \A i \in from(k - 1) : Good(f, i)
    <3> HIDE DEF from, Good
    <3> QED
      BY <1>2
  <2> DEFINE m == n + 2 - k
             new == IF m \in stop THEN base[m] ELSE step[m][f[next[m]]]
             g == [i \in from(k) |-> IF i = m THEN new ELSE f[i]]
  <2>2. m \in 1 .. n + 1 /\ m \notin from(k - 1)
    OBVIOUS
  <2>3. \A i \in from(k) : i = m \/ i \in from(k - 1)
    OBVIOUS
  <2>4. m \in from(k) /\ \A i \in from(k - 1) : i \in from(k) /\ i # m
    OBVIOUS
  <2>5. \A i \in from(k) : i \in 1 .. n + 1 /\ (i \notin stop => next[i] \in from(k - 1))
    <3> TAKE i \in from(k)
    <3>1. i \notin stop => next[i] \in i + 1 .. n + 1
      OBVIOUS
    <3>2. ASSUME NEW j \in i + 1 .. n + 1 PROVE j \in from(k - 1)
      OBVIOUS
    <3> QED
      BY <3>1, <3>2
  <2> HIDE DEF m, from
  <2>6. new \in V
    <3>1. m \in stop => base[m] \in V
      BY <2>2
    <3>2. m \notin stop => next[m] \in from(k - 1) /\ \A v \in V : step[m][v] \in V
      BY <2>2, <2>4, <2>5
    <3>3. m \notin stop => f[next[m]] \in V
      BY <3>2
    <3> QED
      BY <3>1, <3>2, <3>3
  <2> HIDE DEF new
  <2>7. g \in [from(k) -> V]
    BY <2>3, <2>6
  <2>8. g[m] = new /\ \A i \in from(k - 1) : g[i] = f[i]
    BY <2>4
  <2> HIDE DEF g
  <2>9. ASSUME NEW i \in from(k) PROVE Good(g, i)
    <3>1. i \notin stop => g[next[i]] = f[next[i]]
      BY <2>5, <2>8
    <3>2. CASE i = m
      BY <2>8, <3>1, <3>2 DEF new
    <3>3. CASE i \in from(k - 1)
      BY <2>1, <2>8, <3>1, <3>3
    <3> QED
      BY <2>3, <3>2, <3>3
  <2> QED
    BY <2>7, <2>9
<1>3. n + 1 \in T
  <2> HIDE DEF T
  <2>1. Nat \subseteq T
    BY <1>1, <1>2, FromBelow
  <2> QED
    BY <2>1
<1>4. from(n + 1) = 1 .. n + 1
  OBVIOUS
<1>5. \E f \in [1 .. n + 1 -> V] : \A i \in 1 .. n + 1 : Good(f, i)
  <2> HIDE DEF from, Good
  <2> QED
    BY <1>3, <1>4
<1> QED
  BY <1>5 DEF Backs

\* A loop that ends well or not.
LEMMA TruthExists ==
  ASSUME NEW n \in Nat, NEW go, NEW next,
         \A i \in 1 .. n : i \in go => next[i] \in i + 1 .. n + 1
  PROVE  \E f \in [1 .. n + 1 -> BOOLEAN] :
           \A i \in 1 .. n + 1 : f[i] <=> (i > n \/ (i \in go /\ f[next[i]]))
<1> DEFINE V == BOOLEAN
           stop == {i \in 1 .. n + 1 : i > n \/ i \notin go}
           base == [i \in 1 .. n + 1 |-> IF i > n THEN TRUE ELSE FALSE]
           step == [i \in 1 .. n + 1 |-> [v \in V |-> v]]
<1>1. \A i \in 1 .. n + 1 : base[i] \in V /\ base[i] = IF i > n THEN TRUE ELSE FALSE
  OBVIOUS
<1>2. \A i \in 1 .. n + 1 : i \notin stop => next[i] \in i + 1 .. n + 1
  OBVIOUS
<1>3. \A i \in 1 .. n + 1 : \A v \in V : step[i][v] = v
  OBVIOUS
<1>4. \A i \in 1 .. n + 1 : (i \in stop <=> i > n \/ i \notin go) /\ (i \notin stop => next[i] \in 1 .. n + 1)
  <2> TAKE i \in 1 .. n + 1
  <2>1. i \in stop <=> i > n \/ i \notin go
    OBVIOUS
  <2>2. i \notin stop => next[i] \in i + 1 .. n + 1
    BY <1>2
  <2> HIDE DEF stop
  <2>3. \A j \in i + 1 .. n + 1 : j \in 1 .. n + 1
    OBVIOUS
  <2> QED
    BY <2>1, <2>2, <2>3
<1> HIDE DEF V, stop, base, step
<1>5. PICK f \in [1 .. n + 1 -> V] : Backs(n, stop, base, next, step, f)
  <2>1. \A i \in 1 .. n + 1 : i \in stop => base[i] \in V
    BY <1>1
  <2>2. \A i \in 1 .. n + 1 :
          i \notin stop => next[i] \in i + 1 .. n + 1 /\ \A v \in V : step[i][v] \in V
    BY <1>2, <1>3
  <2> QED
    BY <2>1, <2>2, BackExists
<1>6. ASSUME NEW i \in 1 .. n + 1 PROVE f[i] <=> (i > n \/ (i \in go /\ f[next[i]]))
  <2>1. CASE i \in stop
    <3>1. f[i] = IF i > n THEN TRUE ELSE FALSE
      BY <1>1, <1>5, <2>1 DEF Backs
    <3> QED
      BY <1>4, <2>1, <3>1
  <2>2. CASE i \notin stop
    <3>1. f[next[i]] \in V
      BY <1>4, <2>2
    <3>2. f[i] = f[next[i]]
      BY <1>3, <1>5, <2>2, <3>1 DEF Backs
    <3> QED
      BY <1>4, <2>2, <3>2
  <2> QED
    BY <2>1, <2>2
<1> QED
  BY <1>6 DEF V

-----------------------------------------------------------------------------
(* Numbers in digits of six bits                                           *)

SixDigits(x) ==
  LET a == x \div 262144
      b == (x \div 4096) % 64
      c == (x \div 64) % 64
      d == x % 64
  IN  /\ a \in Nat /\ b \in 0 .. 63 /\ c \in 0 .. 63 /\ d \in 0 .. 63
      /\ x = 262144 * a + 4096 * b + 64 * c + d
      /\ x \div 4096 = 64 * a + b /\ x \div 64 = 4096 * a + 64 * b + c

\* A code point in groups of six bits.
LEMMA Sixes == ASSUME NEW x \in Nat PROVE SixDigits(x)
<1> DEFINE y == x \div 64
           d == x % 64
           z == y \div 64
           c == y % 64
           a == z \div 64
           b == z % 64
<1>1. y \in Nat /\ d \in 0 .. 63 /\ x = 64 * y + d
  BY SMT
<1> HIDE DEF y, d
<1>2. z \in Nat /\ c \in 0 .. 63 /\ y = 64 * z + c
  BY <1>1, SMT
<1> HIDE DEF z, c
<1>3. a \in Nat /\ b \in 0 .. 63 /\ z = 64 * a + b
  BY <1>2, SMT
<1> HIDE DEF a, b
<1>4. x = 262144 * a + 4096 * b + 64 * c + d
  BY <1>1, <1>2, <1>3, SMT
<1>5. x \div 262144 = a
  BY <1>1, <1>2, <1>3, <1>4, SMT
<1>6. x \div 4096 = z
  BY <1>1, <1>2, <1>3, <1>4, SMT
<1>7. (x \div 4096) % 64 = b /\ (x \div 64) % 64 = c /\ x % 64 = d
  BY ONLY <1>6, SMT DEF y, b, c, d
<1>8. x \div 4096 = 64 * a + b /\ x \div 64 = 4096 * a + 64 * b + c
  <2>1. y = 4096 * a + 64 * b + c
    BY ONLY <1>2, <1>3, SMT
  <2> QED
    BY ONLY <1>3, <1>6, <2>1, SMT DEF y
<1> QED
  BY ONLY <1>1, <1>2, <1>3, <1>4, <1>5, <1>7, <1>8, SMT DEF SixDigits

\* The bytes that begin a code point of one, two, three or four.
LEMMA AnnouncedOf ==
  /\ \A b \in 0 .. 127 : Announced(b) = 1
  /\ \A b \in 192 .. 223 : Announced(b) = 2 /\ b % 32 = b - 192
  /\ \A b \in 224 .. 239 : Announced(b) = 3 /\ b % 16 = b - 224
  /\ \A b \in 240 .. 247 : Announced(b) = 4 /\ b % 8 = b - 240
  /\ \A b \in 128 .. 191 : Announced(b) = 0 /\ b \div 64 = 2 /\ b % 64 = b - 128
  /\ \A b \in 248 .. 255 : Announced(b) = 0
<1>1. \A b \in 0 .. 127 : Announced(b) = 1
  BY SMT DEF Announced
<1>2. \A b \in 192 .. 223 : Announced(b) = 2 /\ b % 32 = b - 192
  <2> TAKE b \in 192 .. 223
  <2>1. b \div 32 = 6 /\ b % 32 = b - 192
    BY SMT
  <2> QED
    BY <2>1, SMT DEF Announced
<1>3. \A b \in 224 .. 239 : Announced(b) = 3 /\ b % 16 = b - 224
  <2> TAKE b \in 224 .. 239
  <2>1. b \div 32 = 7 /\ b \div 16 = 14 /\ b % 16 = b - 224
    BY SMT
  <2> QED
    BY <2>1, SMT DEF Announced
<1>4. \A b \in 240 .. 247 : Announced(b) = 4 /\ b % 8 = b - 240
  <2> TAKE b \in 240 .. 247
  <2>1. b \div 32 = 7 /\ b \div 16 = 15 /\ b \div 8 = 30 /\ b % 8 = b - 240
    BY SMT
  <2> QED
    BY <2>1, SMT DEF Announced
<1>5. \A b \in 128 .. 191 : Announced(b) = 0 /\ b \div 64 = 2 /\ b % 64 = b - 128
  <2> TAKE b \in 128 .. 191
  <2>1. b \div 32 \in 4 .. 5 /\ b \div 16 \in 8 .. 11 /\ b \div 8 \in 16 .. 23 /\ b \div 64 = 2 /\ b % 64 = b - 128
    BY SMT
  <2> QED
    BY <2>1, SMT DEF Announced
<1>6. \A b \in 248 .. 255 : Announced(b) = 0
  <2> TAKE b \in 248 .. 255
  <2>1. b \div 32 = 7 /\ b \div 16 = 15 /\ b \div 8 = 31
    BY SMT
  <2> QED
    BY <2>1, SMT DEF Announced
<1> QED
  BY <1>1, <1>2, <1>3, <1>4, <1>5, <1>6

\* What a byte is that announces so many.
Lead(b) ==
  /\ Announced(b) \in 0 .. 4
  /\ Announced(b) = 1 => b \in 0 .. 127
  /\ Announced(b) = 2 => b \in 192 .. 223 /\ b % 32 = b - 192
  /\ Announced(b) = 3 => b \in 224 .. 239 /\ b % 16 = b - 224
  /\ Announced(b) = 4 => b \in 240 .. 247 /\ b % 8 = b - 240
  /\ b \div 64 = 2 => b \in 128 .. 191 /\ b % 64 = b - 128

\* The bits of a first byte.
LEMMA Leads == ASSUME NEW b \in 0 .. 255 PROVE Lead(b)
<1>1. \/ b \in 0 .. 127 \/ b \in 128 .. 191 \/ b \in 192 .. 223 \/ b \in 224 .. 239
      \/ b \in 240 .. 247 \/ b \in 248 .. 255
  OBVIOUS
<1>2. b \div 64 = 2 => b \in 128 .. 191 /\ b % 64 = b - 128
  BY SMT
<1> QED
  BY <1>1, <1>2, AnnouncedOf DEF Lead

-----------------------------------------------------------------------------
(* The code point of some bytes                                            *)

\* The bits of a code point, byte by byte.
LEMMA CodePointIs ==
  ASSUME NEW s, NEW i \in Nat, NEW n \in 1 .. 4
  PROVE  LET p == Payload(s[i], n)
         IN  CodePoint(s, i, n) =
               CASE n = 1 -> p
                 [] n = 2 -> 64 * p + (s[i + 1] % 64)
                 [] n = 3 -> 64 * (64 * p + (s[i + 1] % 64)) + (s[i + 2] % 64)
                 [] n = 4 -> 64 * (64 * (64 * p + (s[i + 1] % 64)) + (s[i + 2] % 64)) + (s[i + 3] % 64)
<1> DEFINE p == Payload(s[i], n)
           bits(k) == s[i + k - 1] % 64
           v1 == p
           v2 == 64 * v1 + (s[i + 1] % 64)
           v3 == 64 * v2 + (s[i + 2] % 64)
           v4 == 64 * v3 + (s[i + 3] % 64)
           Value(f) == f = [k \in 1 .. n |-> IF k = 1 THEN p ELSE 64 * f[k - 1] + bits(k)]
           f == CHOOSE f : Value(f)
           g == [k \in 1 .. n |-> CASE k = 1 -> v1 [] k = 2 -> v2 [] k = 3 -> v3 [] k = 4 -> v4]
<1>1. CodePoint(s, i, n) = f[n]
  BY DEF CodePoint
<1>2. bits(2) = s[i + 1] % 64 /\ bits(3) = s[i + 2] % 64 /\ bits(4) = s[i + 3] % 64
  <2>1. i + 2 - 1 = i + 1 /\ i + 3 - 1 = i + 2 /\ i + 4 - 1 = i + 3
    OBVIOUS
  <2> QED
    BY <2>1
<1> HIDE DEF bits, p
<1>3. Value(g)
  <2>1. v1 = p /\ v2 = 64 * v1 + bits(2) /\ v3 = 64 * v2 + bits(3) /\ v4 = 64 * v3 + bits(4)
    BY <1>2
  <2> HIDE DEF v1, v2, v3, v4
  <2>2. /\ 1 \in 1 .. n => g[1] = v1
        /\ 2 \in 1 .. n => g[2] = v2
        /\ 3 \in 1 .. n => g[3] = v3
        /\ 4 \in 1 .. n => g[4] = v4
    OBVIOUS
  <2>3. g = [k \in 1 .. n |-> g[k]]
    OBVIOUS
  <2> HIDE DEF g
  <2>4. ASSUME NEW k \in 1 .. n PROVE g[k] = IF k = 1 THEN p ELSE 64 * g[k - 1] + bits(k)
    <3>1. CASE k = 1
      BY <2>1, <2>2, <3>1
    <3>2. CASE k = 2
      <4>1. 1 \in 1 .. n /\ k - 1 = 1
        BY <3>2
      <4> QED
        BY <2>1, <2>2, <3>2, <4>1
    <3>3. CASE k = 3
      <4>1. 2 \in 1 .. n /\ k - 1 = 2
        BY <3>3
      <4> QED
        BY <2>1, <2>2, <3>3, <4>1
    <3>4. CASE k = 4
      <4>1. 3 \in 1 .. n /\ k - 1 = 3
        BY <3>4
      <4> QED
        BY <2>1, <2>2, <3>4, <4>1
    <3> QED
      BY <3>1, <3>2, <3>3, <3>4
  <2> QED
    BY <2>3, <2>4
<1>4. Value(f)
  <2> HIDE DEF Value, g
  <2> QED
    BY <1>3
<1> HIDE DEF f, g
<1>5. ASSUME NEW k \in 1 .. n PROVE f[k] = IF k = 1 THEN p ELSE 64 * f[k - 1] + bits(k)
  <2> DEFINE u(j) == IF j = 1 THEN p ELSE 64 * f[j - 1] + bits(j)
  <2>1. f = [j \in 1 .. n |-> u(j)]
    BY <1>4
  <2> HIDE DEF u
  <2>2. f[k] = u(k)
    BY <2>1
  <2> QED
    BY <2>2 DEF u
<1> HIDE DEF Value
<1>6. f[1] = v1
  BY <1>5
<1>7. n >= 2 => f[2] = v2
  <2> SUFFICES ASSUME n >= 2 PROVE f[2] = v2
    OBVIOUS
  <2>1. 2 \in 1 .. n /\ 2 - 1 = 1
    OBVIOUS
  <2> QED
    BY <1>2, <1>5, <1>6, <2>1
<1>8. n >= 3 => f[3] = v3
  <2> SUFFICES ASSUME n >= 3 PROVE f[3] = v3
    OBVIOUS
  <2>1. 3 \in 1 .. n /\ 3 - 1 = 2 /\ n >= 2
    OBVIOUS
  <2> QED
    BY <1>2, <1>5, <1>7, <2>1
<1>9. n >= 4 => f[4] = v4
  <2> SUFFICES ASSUME n >= 4 PROVE f[4] = v4
    OBVIOUS
  <2>1. 4 \in 1 .. n /\ 4 - 1 = 3 /\ n >= 3
    OBVIOUS
  <2> QED
    BY <1>2, <1>5, <1>8, <2>1
<1>10. n = 1 \/ n = 2 \/ n = 3 \/ n = 4
  OBVIOUS
<1> QED
  BY <1>1, <1>6, <1>7, <1>8, <1>9, <1>10 DEF p

\* A byte by the bits that stand in it.
LEMMA BytesOf ==
  ASSUME NEW b, NEW x \in Nat
  PROVE  /\ b = 128 + x /\ x \in 0 .. 63 => b \div 64 = 2 /\ b % 64 = x
         /\ b = x /\ x \in 0 .. 127 => Announced(b) = 1
         /\ b = 192 + x /\ x \in 0 .. 31 => Announced(b) = 2 /\ b % 32 = x
         /\ b = 224 + x /\ x \in 0 .. 15 => Announced(b) = 3 /\ b % 16 = x
         /\ b = 240 + x /\ x \in 0 .. 7 => Announced(b) = 4 /\ b % 8 = x
<1>1. ASSUME b = 128 + x, x \in 0 .. 63 PROVE b \div 64 = 2 /\ b % 64 = x
  BY <1>1, SMT
<1>2. ASSUME b = x, x \in 0 .. 127 PROVE Announced(b) = 1
  BY <1>2, AnnouncedOf
<1>3. ASSUME b = 192 + x, x \in 0 .. 31 PROVE Announced(b) = 2 /\ b % 32 = x
  <2>1. b \in 192 .. 223 /\ b - 192 = x
    BY <1>3, SMT
  <2> QED
    BY <2>1, AnnouncedOf
<1>4. ASSUME b = 224 + x, x \in 0 .. 15 PROVE Announced(b) = 3 /\ b % 16 = x
  <2>1. b \in 224 .. 239 /\ b - 224 = x
    BY <1>4, SMT
  <2> QED
    BY <2>1, AnnouncedOf
<1>5. ASSUME b = 240 + x, x \in 0 .. 7 PROVE Announced(b) = 4 /\ b % 8 = x
  <2>1. b \in 240 .. 247 /\ b - 240 = x
    BY <1>5, SMT
  <2> QED
    BY <2>1, AnnouncedOf
<1> QED
  BY ONLY <1>1, <1>2, <1>3, <1>4, <1>5

\* How many bytes a code point takes.
LEMMA PointSizes ==
  ASSUME NEW cp \in Nat
  PROVE  /\ Size(cp) \in 1 .. 4
         /\ Size(cp) = 1 <=> cp < 128
         /\ Size(cp) = 2 <=> cp >= 128 /\ cp < 2048
         /\ Size(cp) = 3 <=> cp >= 2048 /\ cp < 65536
         /\ Size(cp) = 4 <=> cp >= 65536
BY SMT DEF Size

\* A code point in bytes is read as what it was.
LEMMA OctetsDecode ==
  ASSUME NEW cp \in Nat, cp <= 1114111, NEW s, Len(s) \in Nat, NEW i \in 1 .. Len(s),
         i + Size(cp) - 1 <= Len(s), \A j \in 1 .. Size(cp) : s[i + j - 1] = Octets(cp)[j]
  PROVE  Decodes(s, i) /\ Announced(s[i]) = Size(cp) /\ CodePoint(s, i, Size(cp)) = cp
<1> DEFINE n == Size(cp)
           a == cp \div 262144
           b == (cp \div 4096) % 64
           c == (cp \div 64) % 64
           d == cp % 64
<1>1. /\ cp \in Nat /\ n \in 1 .. 4 /\ Len(s) \in Nat /\ i \in Nat /\ i + 1 - 1 = i
      /\ i + 2 - 1 = i + 1 /\ i + 3 - 1 = i + 2 /\ i + 4 - 1 = i + 3
  BY PointSizes, SMT
<1>2. SixDigits(cp)
  BY ONLY cp \in Nat, Sixes
<1>3. /\ a \in Nat /\ b \in 0 .. 63 /\ c \in 0 .. 63 /\ d \in 0 .. 63
      /\ cp = 262144 * a + 4096 * b + 64 * c + d
      /\ cp \div 4096 = 64 * a + b /\ cp \div 64 = 4096 * a + 64 * b + c
  BY <1>1, <1>2, SMT DEF SixDigits
<1>4. Least[1] = 0 /\ Least[2] = 128 /\ Least[3] = 2048 /\ Least[4] = 65536 /\ cp <= 1114111
  BY SMT DEF Least
<1>5. CASE n = 1
  <2>1. cp < 128 /\ s[i] = cp
    BY <1>1, <1>5, PointSizes DEF Octets
  <2>2. Announced(s[i]) = 1
    BY ONLY <1>1, <2>1, BytesOf, SMT
  <2>3. CodePoint(s, i, 1) = cp
    BY <1>1, <2>1, CodePointIs DEF Payload
  <2>4. \A k \in i + 1 .. i + 1 - 1 : s[k] \div 64 = 2
    BY <1>1
  <2> QED
    BY <1>1, <1>4, <1>5, <2>2, <2>3, <2>4, SMT DEF Decodes
<1>6. CASE n = 2
  <2>1. /\ s[i] = 192 + (cp \div 64) /\ s[i + 1] = 128 + d
    <3>1. Octets(cp) = <<192 + (cp \div 64), 128 + (cp % 64)>> /\ 1 \in 1 .. n /\ 2 \in 1 .. n
      BY <1>6, SMT DEF Octets
    <3> HIDE DEF n
    <3> QED
      BY <1>1, <3>1, SMT DEF n
  <2> HIDE DEF a, b, c, d
  <2>2. a = 0 /\ b = 0 /\ c \in 2 .. 31 /\ cp >= 128 /\ cp < 2048
    <3>1. cp >= 128 /\ cp < 2048
      BY <1>6, PointSizes, SMT
    <3> QED
      BY ONLY <1>3, <3>1, SMT
  <2>3. s[i] = 192 + c /\ c \in Nat /\ c \in 0 .. 31
    BY ONLY <1>3, <2>1, <2>2, SMT
  <2>4. Announced(s[i]) = 2 /\ s[i] % 32 = c
    BY ONLY <2>3, BytesOf
  <2>5. s[i + 1] \div 64 = 2 /\ s[i + 1] % 64 = d
    BY <1>3, <2>1, BytesOf, SMT
  <2>6. CodePoint(s, i, 2) = cp
    <3>1. CodePoint(s, i, 2) = 64 * c + d
      BY <1>1, <2>4, <2>5, CodePointIs DEF Payload
    <3> QED
      BY ONLY <1>3, <2>2, <3>1, SMT
  <2>7. \A k \in i + 1 .. i + 2 - 1 : s[k] \div 64 = 2
    BY <1>1, <2>5, SMT
  <2> QED
    BY <1>1, <1>4, <1>6, <2>2, <2>4, <2>6, <2>7, SMT DEF Decodes
<1>7. CASE n = 3
  <2>1. /\ s[i] = 224 + (cp \div 4096) /\ s[i + 1] = 128 + c /\ s[i + 2] = 128 + d
    <3>1. /\ Octets(cp) = <<224 + (cp \div 4096), 128 + ((cp \div 64) % 64), 128 + (cp % 64)>>
          /\ 1 \in 1 .. n /\ 2 \in 1 .. n /\ 3 \in 1 .. n
      BY <1>7, SMT DEF Octets
    <3> HIDE DEF n
    <3> QED
      BY <1>1, <3>1, SMT DEF n
  <2> HIDE DEF a, b, c, d
  <2>2. a = 0 /\ b \in 0 .. 15 /\ cp >= 2048
    <3>1. cp >= 2048 /\ cp < 65536
      BY <1>7, PointSizes, SMT
    <3> QED
      BY ONLY <1>3, <3>1, SMT
  <2>3. s[i] = 224 + b /\ b \in Nat /\ b \in 0 .. 15
    BY ONLY <1>3, <2>1, <2>2, SMT
  <2>4. Announced(s[i]) = 3 /\ s[i] % 16 = b
    BY ONLY <2>3, BytesOf
  <2>5. /\ s[i + 1] \div 64 = 2 /\ s[i + 1] % 64 = c
        /\ s[i + 2] \div 64 = 2 /\ s[i + 2] % 64 = d
    BY <1>3, <2>1, BytesOf, SMT
  <2>6. CodePoint(s, i, 3) = cp
    <3>1. CodePoint(s, i, 3) = 64 * (64 * b + c) + d
      BY <1>1, <2>4, <2>5, CodePointIs DEF Payload
    <3> QED
      BY ONLY <1>3, <2>2, <3>1, SMT
  <2>7. \A k \in i + 1 .. i + 3 - 1 : s[k] \div 64 = 2
    BY <1>1, <2>5, SMT
  <2> QED
    BY <1>1, <1>4, <1>7, <2>2, <2>4, <2>6, <2>7, SMT DEF Decodes
<1>8. CASE n = 4
  <2>1. /\ s[i] = 240 + a /\ s[i + 1] = 128 + b /\ s[i + 2] = 128 + c /\ s[i + 3] = 128 + d
    <3>1. /\ Octets(cp) = <<240 + (cp \div 262144), 128 + ((cp \div 4096) % 64),
                            128 + ((cp \div 64) % 64), 128 + (cp % 64)>>
          /\ 1 \in 1 .. n /\ 2 \in 1 .. n /\ 3 \in 1 .. n /\ 4 \in 1 .. n
      BY <1>8, SMT DEF Octets
    <3> HIDE DEF n
    <3> QED
      BY <1>1, <3>1, SMT DEF n
  <2> HIDE DEF a, b, c, d
  <2>2. a \in 0 .. 4 /\ cp >= 65536
    <3>1. cp >= 65536
      BY <1>8, PointSizes, SMT
    <3> QED
      BY ONLY <1>3, <1>4, <3>1, SMT
  <2>3. s[i] = 240 + a /\ a \in Nat /\ a \in 0 .. 7
    BY ONLY <1>3, <2>1, <2>2, SMT
  <2>4. Announced(s[i]) = 4 /\ s[i] % 8 = a
    BY ONLY <2>3, BytesOf
  <2>5. /\ s[i + 1] \div 64 = 2 /\ s[i + 1] % 64 = b
        /\ s[i + 2] \div 64 = 2 /\ s[i + 2] % 64 = c
        /\ s[i + 3] \div 64 = 2 /\ s[i + 3] % 64 = d
    BY <1>3, <2>1, BytesOf, SMT
  <2>6. CodePoint(s, i, 4) = cp
    <3>1. CodePoint(s, i, 4) = 64 * (64 * (64 * a + b) + c) + d
      BY <1>1, <2>4, <2>5, CodePointIs DEF Payload
    <3> QED
      BY ONLY <1>3, <2>2, <3>1, SMT
  <2>7. \A k \in i + 1 .. i + 4 - 1 : s[k] \div 64 = 2
    BY <1>1, <2>5, SMT
  <2> QED
    BY <1>1, <1>4, <1>8, <2>2, <2>4, <2>6, <2>7, SMT DEF Decodes
<1> QED
  BY <1>1, <1>5, <1>6, <1>7, <1>8

\* The bytes of a code point are bytes, and none is NUL but for the NUL.
LEMMA OctetsFacts ==
  ASSUME NEW cp \in Nat, cp <= 1114111
  PROVE  /\ Octets(cp) \in Seq(0 .. 255) /\ Len(Octets(cp)) = Size(cp)
         /\ \A k \in 1 .. Len(Octets(cp)) : Octets(cp)[k] = 0 => cp = 0
<1> DEFINE a == cp \div 262144
           b == (cp \div 4096) % 64
           c == (cp \div 64) % 64
           d == cp % 64
<1>1. Size(cp) \in 1 .. 4
  BY PointSizes, SMT
<1>2. /\ a \in Nat /\ b \in 0 .. 63 /\ c \in 0 .. 63 /\ d \in 0 .. 63
      /\ cp = 262144 * a + 4096 * b + 64 * c + d
      /\ cp \div 4096 = 64 * a + b /\ cp \div 64 = 4096 * a + 64 * b + c
  <2>1. SixDigits(cp)
    BY ONLY cp \in Nat, Sixes
  <2> QED
    BY ONLY <2>1, SMT DEF SixDigits
<1>3. CASE Size(cp) = 1
  <2>1. Octets(cp) = <<cp>> /\ cp \in 0 .. 255
    BY <1>3, PointSizes, SMT DEF Octets
  <2> QED
    BY ONLY <1>3, <2>1, SMT
<1>4. CASE Size(cp) = 2
  <2>1. Octets(cp) = <<192 + (cp \div 64), 128 + d>> /\ cp < 2048
    BY <1>4, PointSizes, SMT DEF Octets
  <2> HIDE DEF a, b, c, d
  <2>2. 192 + (cp \div 64) \in 1 .. 255 /\ 128 + d \in 1 .. 255
    BY ONLY <1>2, <2>1, SMT
  <2> QED
    BY ONLY <1>4, <2>1, <2>2, SMT
<1>5. CASE Size(cp) = 3
  <2>1. Octets(cp) = <<224 + (cp \div 4096), 128 + c, 128 + d>> /\ cp < 65536
    BY <1>5, PointSizes, SMT DEF Octets
  <2> HIDE DEF a, b, c, d
  <2>2. 224 + (cp \div 4096) \in 1 .. 255 /\ 128 + c \in 1 .. 255 /\ 128 + d \in 1 .. 255
    BY ONLY <1>2, <2>1, SMT
  <2> QED
    BY ONLY <1>5, <2>1, <2>2, SMT
<1>6. CASE Size(cp) = 4
  <2>1. Octets(cp) = <<240 + a, 128 + b, 128 + c, 128 + d>>
    BY <1>6, SMT DEF Octets
  <2> HIDE DEF a, b, c, d
  <2>2. /\ 240 + a \in 1 .. 255 /\ 128 + b \in 1 .. 255 /\ 128 + c \in 1 .. 255
        /\ 128 + d \in 1 .. 255
    BY <1>2, SMT
  <2> QED
    BY ONLY <1>6, <2>1, <2>2, SMT
<1> QED
  BY ONLY <1>1, <1>3, <1>4, <1>5, <1>6, SMT

OfTwo(cp, p, x) ==
  p \in 0 .. 31 /\ x \in 0 .. 63 /\ cp = 64 * p + x /\ cp >= 128

InTwo(cp, p, x) ==
  cp \in Nat /\ Size(cp) = 2 /\ Octets(cp) = <<192 + p, 128 + x>>

\* The bytes of a code point that is put together from its digits.
LEMMA TwoOctets ==
  ASSUME NEW p, NEW x, NEW cp, OfTwo(cp, p, x)
  PROVE  InTwo(cp, p, x)
<1>1. p \in 0 .. 31 /\ x \in 0 .. 63 /\ cp = 64 * p + x /\ cp >= 128
  BY SMT DEF OfTwo
<1>2. cp \in Nat /\ cp < 2048 /\ cp >= 128 /\ cp \div 64 = p /\ cp % 64 = x
  BY ONLY <1>1, SMT
<1>3. Size(cp) = 2
  BY <1>2, PointSizes, SMT
<1>4. Octets(cp) = <<192 + (cp \div 64), 128 + (cp % 64)>>
  BY ONLY <1>3, SMT DEF Octets
<1> QED
  BY ONLY <1>2, <1>3, <1>4, SMT DEF InTwo

OfThree(cp, p, x, y) ==
  /\ p \in 0 .. 15 /\ x \in 0 .. 63 /\ y \in 0 .. 63
  /\ cp = 64 * (64 * p + x) + y /\ cp >= 2048

InThree(cp, p, x, y) ==
  cp \in Nat /\ Size(cp) = 3 /\ Octets(cp) = <<224 + p, 128 + x, 128 + y>>

\* Three bytes are those of the code point that is read from them.
LEMMA ThreeOctets ==
  ASSUME NEW p, NEW x, NEW y, NEW cp, OfThree(cp, p, x, y)
  PROVE  InThree(cp, p, x, y)
<1>1. /\ p \in 0 .. 15 /\ x \in 0 .. 63 /\ y \in 0 .. 63
      /\ cp = 64 * (64 * p + x) + y /\ cp >= 2048
  BY SMT DEF OfThree
<1>2. cp \in Nat /\ cp < 65536 /\ cp >= 2048 /\ cp = 4096 * p + 64 * x + y
  BY ONLY <1>1, SMT
<1>3. SixDigits(cp)
  <2>1. cp \in Nat
    BY ONLY <1>2, SMT
  <2> QED
    BY ONLY <2>1, Sixes
<1>4. (cp \div 64) % 64 = x /\ cp % 64 = y /\ cp \div 4096 = p
  <2> DEFINE a == cp \div 262144
             b == (cp \div 4096) % 64
             c == (cp \div 64) % 64
             d == cp % 64
             e == cp \div 4096
  <2>1. /\ a \in Nat /\ b \in 0 .. 63 /\ c \in 0 .. 63 /\ d \in 0 .. 63
        /\ cp = 262144 * a + 4096 * b + 64 * c + d /\ e = 64 * a + b
    BY ONLY <1>3, SMT DEF SixDigits
  <2> HIDE DEF a, b, c, d, e
  <2>2. a = 0 /\ b = p /\ c = x /\ d = y /\ e = p
    BY ONLY <1>1, <1>2, <2>1, SMT
  <2> QED
    BY ONLY <2>2, SMT DEF c, d, e
<1>5. Size(cp) = 3
  BY <1>2, PointSizes, SMT
<1>6. Octets(cp) = <<224 + (cp \div 4096), 128 + ((cp \div 64) % 64), 128 + (cp % 64)>>
  BY ONLY <1>5, SMT DEF Octets
<1> QED
  BY ONLY <1>2, <1>4, <1>5, <1>6, SMT DEF InThree

OfFour(cp, p, x, y, z) ==
  /\ p \in 0 .. 7 /\ x \in 0 .. 63 /\ y \in 0 .. 63 /\ z \in 0 .. 63
  /\ cp = 64 * (64 * (64 * p + x) + y) + z /\ cp >= 65536

InFour(cp, p, x, y, z) ==
  cp \in Nat /\ Size(cp) = 4 /\ Octets(cp) = <<240 + p, 128 + x, 128 + y, 128 + z>>

\* And four bytes are.
LEMMA FourOctets ==
  ASSUME NEW p, NEW x, NEW y, NEW z, NEW cp, OfFour(cp, p, x, y, z)
  PROVE  InFour(cp, p, x, y, z)
<1>1. /\ p \in 0 .. 7 /\ x \in 0 .. 63 /\ y \in 0 .. 63 /\ z \in 0 .. 63
      /\ cp = 64 * (64 * (64 * p + x) + y) + z /\ cp >= 65536
  BY SMT DEF OfFour
<1>2. cp = 262144 * p + 4096 * x + 64 * y + z /\ cp \in Nat /\ cp >= 65536
  BY ONLY <1>1, SMT
<1>3. SixDigits(cp)
  <2>1. cp \in Nat
    BY ONLY <1>2, SMT
  <2> QED
    BY ONLY <2>1, Sixes
<1>4. cp \div 262144 = p /\ (cp \div 4096) % 64 = x /\ (cp \div 64) % 64 = y /\ cp % 64 = z
  <2> DEFINE a == cp \div 262144
             b == (cp \div 4096) % 64
             c == (cp \div 64) % 64
             d == cp % 64
  <2>1. /\ a \in Nat /\ b \in 0 .. 63 /\ c \in 0 .. 63 /\ d \in 0 .. 63
        /\ cp = 262144 * a + 4096 * b + 64 * c + d
    BY ONLY <1>3, SMT DEF SixDigits
  <2> HIDE DEF a, b, c, d
  <2>2. a = p /\ b = x /\ c = y /\ d = z
    BY ONLY <1>1, <1>2, <2>1, SMT
  <2> QED
    BY ONLY <2>2, SMT DEF a, b, c, d
<1>5. Size(cp) = 4
  BY <1>2, PointSizes, SMT
<1>6. Octets(cp) = <<240 + (cp \div 262144), 128 + ((cp \div 4096) % 64),
                     128 + ((cp \div 64) % 64), 128 + (cp % 64)>>
  BY ONLY <1>5, SMT DEF Octets
<1> QED
  BY ONLY <1>2, <1>4, <1>5, <1>6, SMT DEF InFour

\* The bytes an announcement asks for are there.
Complete(s, i) ==
  LET n == Announced(s[i])
  IN  n > 0 /\ i + n - 1 <= Len(s) /\ \A k \in i + 1 .. i + n - 1 : s[k] \div 64 = 2

\* What each of them brings to the code point.
DigitsRead(s, i) ==
  LET b == s[i]
      n == Announced(b)
      p == Payload(b, n)
      x == s[i + 1] % 64
      y == s[i + 2] % 64
      z == s[i + 3] % 64
      cp == CodePoint(s, i, n)
  IN  /\ n \in 1 .. 4
      /\ n = 1 => b \in 0 .. 127 /\ p = b /\ cp = p
      /\ n = 2 => p \in 0 .. 31 /\ b = 192 + p /\ cp = 64 * p + x
      /\ n = 3 => p \in 0 .. 15 /\ b = 224 + p /\ cp = 64 * (64 * p + x) + y
      /\ n = 4 => p \in 0 .. 7 /\ b = 240 + p /\ cp = 64 * (64 * (64 * p + x) + y) + z
      /\ n > 1 => x \in 0 .. 63 /\ s[i + 1] = 128 + x
      /\ n > 2 => y \in 0 .. 63 /\ s[i + 2] = 128 + y
      /\ n > 3 => z \in 0 .. 63 /\ s[i + 3] = 128 + z

\* What is read of a complete sequence.
LEMMA DigitsOf ==
  ASSUME NEW s, Len(s) \in Nat, \A k \in 1 .. Len(s) : s[k] \in 0 .. 255,
         NEW i \in 1 .. Len(s), Complete(s, i)
  PROVE  DigitsRead(s, i)
<1> DEFINE b == s[i]
           n == Announced(b)
           cp == CodePoint(s, i, n)
           x == s[i + 1] % 64
           y == s[i + 2] % 64
           z == s[i + 3] % 64
           p == Payload(b, n)
<1>1. /\ b \in 0 .. 255 /\ n > 0 /\ i + n - 1 <= Len(s)
      /\ \A k \in i + 1 .. i + n - 1 : s[k] \div 64 = 2
  BY SMT DEF Complete
<1>2. /\ n \in 1 .. 4
      /\ n = 1 => b \in 0 .. 127
      /\ n = 2 => b \in 192 .. 223 /\ b % 32 = b - 192
      /\ n = 3 => b \in 224 .. 239 /\ b % 16 = b - 224
      /\ n = 4 => b \in 240 .. 247 /\ b % 8 = b - 240
  <2>1. b \in 0 .. 255
    BY <1>1, SMT
  <2>2. Lead(b)
    BY ONLY <2>1, Leads
  <2> QED
    BY <1>1, <2>2, SMT DEF Lead
<1>3. /\ i \in Nat /\ i + 1 - 1 = i /\ i + 2 - 1 = i + 1 /\ i + 3 - 1 = i + 2 /\ i + 4 - 1 = i + 3
  BY SMT
<1>4. /\ n = 1 => cp = p
      /\ n = 2 => cp = 64 * p + x
      /\ n = 3 => cp = 64 * (64 * p + x) + y
      /\ n = 4 => cp = 64 * (64 * (64 * p + x) + y) + z
  <2> HIDE DEF n
  <2>1. CodePoint(s, i, n) =
         CASE n = 1 -> p
           [] n = 2 -> 64 * p + x
           [] n = 3 -> 64 * (64 * p + x) + y
           [] n = 4 -> 64 * (64 * (64 * p + x) + y) + z
    BY ONLY <1>2, <1>3, CodePointIs
  <2> HIDE DEF p, x, y, z
  <2> QED
    BY ONLY <2>1, SMT
<1>5. \A m \in 1 .. 3 : m < n =>
         s[i + m] % 64 \in 0 .. 63 /\ s[i + m] = 128 + (s[i + m] % 64)
  <2> TAKE m \in 1 .. 3
  <2> HAVE m < n
  <2> DEFINE c == s[i + m]
  <2>1. c \in 0 .. 255 /\ c \div 64 = 2
    <3>1. i + m \in i + 1 .. i + n - 1 /\ i + m \in 1 .. Len(s)
      <4> HIDE DEF n
      <4> QED
        BY <1>1, <1>2, <1>3, SMT
    <3> QED
      BY <1>1, <3>1, SMT
  <2> HIDE DEF c
  <2>2. Lead(c)
    BY ONLY <2>1, Leads
  <2>3. c \in 128 .. 191 /\ c % 64 = c - 128
    BY ONLY <2>1, <2>2 DEF Lead
  <2>4. c % 64 \in 0 .. 63 /\ c = 128 + (c % 64)
    BY ONLY <2>3, SMT
  <2> QED
    BY <2>4, SMT DEF c
<1>6. /\ n > 1 => x \in 0 .. 63 /\ s[i + 1] = 128 + x
      /\ n > 2 => y \in 0 .. 63 /\ s[i + 2] = 128 + y
      /\ n > 3 => z \in 0 .. 63 /\ s[i + 3] = 128 + z
  <2>1. 1 \in 1 .. 3 /\ 2 \in 1 .. 3 /\ 3 \in 1 .. 3 /\ (n > 1 <=> 1 < n) /\ (n > 2 <=> 2 < n) /\ (n > 3 <=> 3 < n)
    BY <1>2, SMT
  <2> QED
    BY ONLY <1>5, <2>1
<1>7. /\ n = 1 => p = b
      /\ n = 2 => p \in 0 .. 31 /\ b = 192 + p
      /\ n = 3 => p \in 0 .. 15 /\ b = 224 + p
      /\ n = 4 => p \in 0 .. 7 /\ b = 240 + p
  <2>1. /\ n = 1 => p = b
        /\ n = 2 => p = b % 32
        /\ n = 3 => p = b % 16
        /\ n = 4 => p = b % 8
    BY <1>2, SMT DEF Payload
  <2> HIDE DEF b, n, p
  <2> QED
    <3>1. ASSUME n = 1 PROVE p = b
      BY ONLY <2>1, <3>1
    <3>2. ASSUME n = 2 PROVE p \in 0 .. 31 /\ b = 192 + p
      <4>1. b \in 192 .. 223 /\ p = b - 192
        BY ONLY <1>2, <2>1, <3>2
      <4> QED
        BY ONLY <4>1, SMT
    <3>3. ASSUME n = 3 PROVE p \in 0 .. 15 /\ b = 224 + p
      BY ONLY <1>2, <2>1, <3>3, SMT
    <3>4. ASSUME n = 4 PROVE p \in 0 .. 7 /\ b = 240 + p
      BY ONLY <1>2, <2>1, <3>4, SMT
    <3> QED
      BY ONLY <3>1, <3>2, <3>3, <3>4
<1> HIDE DEF b, n, cp, x, y, z, p
<1> QED
  BY ONLY <1>2, <1>4, <1>6, <1>7, SMT DEF DigitsRead, b, n, cp, x, y, z, p

\* What is read is written as the bytes it was read from.
LEMMA DecodeOctets ==
  ASSUME NEW s, Len(s) \in Nat, \A k \in 1 .. Len(s) : s[k] \in 0 .. 255,
         NEW i \in 1 .. Len(s), Decodes(s, i)
  PROVE  LET n == Announced(s[i])
             cp == CodePoint(s, i, n)
         IN  /\ n \in 1 .. 4 /\ i + n - 1 <= Len(s) /\ cp \in Nat /\ cp <= 1114111 /\ Size(cp) = n
             /\ \A j \in 1 .. n : Octets(cp)[j] = s[i + j - 1]
<1> DEFINE b == s[i]
           n == Announced(b)
           cp == CodePoint(s, i, n)
           Same == \A j \in 1 .. n : Octets(cp)[j] = s[i + j - 1]
           x == s[i + 1] % 64
           y == s[i + 2] % 64
           z == s[i + 3] % 64
           p == Payload(b, n)
<1>1. /\ n > 0 /\ i + n - 1 <= Len(s) /\ cp \in Least[n] .. 1114111
      /\ Complete(s, i)
  BY SMT DEF Decodes, Complete
<1>2. /\ i \in Nat /\ i + 1 - 1 = i /\ i + 2 - 1 = i + 1 /\ i + 3 - 1 = i + 2 /\ i + 4 - 1 = i + 3
      /\ Least[1] = 0 /\ Least[2] = 128 /\ Least[3] = 2048 /\ Least[4] = 65536
  BY SMT DEF Least
<1>3. DigitsRead(s, i)
  <2>1. Complete(s, i)
    BY ONLY <1>1, SMT
  <2> QED
    BY <2>1, DigitsOf, SMT
<1>4. /\ n \in 1 .. 4
      /\ n = 1 => b \in 0 .. 127 /\ cp = p
      /\ n = 2 => cp = 64 * p + x
      /\ n = 3 => cp = 64 * (64 * p + x) + y
      /\ n = 4 => cp = 64 * (64 * (64 * p + x) + y) + z
  BY ONLY <1>3, SMT DEF DigitsRead
<1>5. /\ n > 1 => x \in 0 .. 63 /\ s[i + 1] = 128 + x
      /\ n > 2 => y \in 0 .. 63 /\ s[i + 2] = 128 + y
      /\ n > 3 => z \in 0 .. 63 /\ s[i + 3] = 128 + z
  BY ONLY <1>3, SMT DEF DigitsRead
<1>6. /\ n = 1 => p = b
      /\ n = 2 => p \in 0 .. 31 /\ b = 192 + p
      /\ n = 3 => p \in 0 .. 15 /\ b = 224 + p
      /\ n = 4 => p \in 0 .. 7 /\ b = 240 + p
  BY ONLY <1>3, SMT DEF DigitsRead
<1>7. cp >= Least[n] /\ cp <= 1114111
  <2>1. Least[n] \in Nat
    <3> HIDE DEF n
    <3> QED
      BY <1>4, <1>2, SMT
  <2> HIDE DEF n, cp
  <2> QED
    BY <1>1, <2>1, SMT
<1>8. b = s[i]
  OBVIOUS
<1> HIDE DEF n, cp, b, x, y, z, p, Same
<1>9. ASSUME n = 1 PROVE cp \in Nat /\ cp <= 1114111 /\ Size(cp) = n /\ Same
  <2>1. cp = b /\ cp \in 0 .. 127
    BY <1>4, <1>6, <1>9, SMT
  <2>2. cp \in Nat /\ cp <= 1114111 /\ cp < 128
    BY ONLY <2>1, SMT
  <2>3. Size(cp) = 1
    BY ONLY <2>2, PointSizes, SMT
  <2>4. Octets(cp)[1] = cp
    BY ONLY <2>3, SMT DEF Octets
  <2>5. Same
    BY <1>2, <1>8, <1>9, <2>1, <2>4, SMT DEF Same
  <2> QED
    BY ONLY <1>9, <2>2, <2>3, <2>5, SMT
<1>10. ASSUME n = 2 PROVE cp \in Nat /\ cp <= 1114111 /\ Size(cp) = n /\ Same
  <2>1. OfTwo(cp, p, x)
    BY <1>4, <1>2, <1>5, <1>6, <1>7, <1>10, SMT DEF OfTwo
  <2>2. cp \in Nat /\ Size(cp) = 2 /\ Octets(cp) = <<192 + p, 128 + x>>
    <3>1. InTwo(cp, p, x)
      BY ONLY <2>1, TwoOctets
    <3> QED
      BY ONLY <3>1, SMT DEF InTwo
  <2>3. b = 192 + p /\ s[i + 1] = 128 + x
    BY <1>5, <1>6, <1>10, SMT
  <2>4. Same
    <3>1. Octets(cp)[1] = b /\ Octets(cp)[2] = s[i + 1]
      BY ONLY <2>2, <2>3, SMT
    <3>2. \A j \in 1 .. n : j = 1 \/ j = 2
      BY ONLY <1>10, SMT
    <3> QED
      BY ONLY <1>2, <1>8, <3>1, <3>2 DEF Same
  <2> QED
    BY ONLY <1>7, <1>10, <2>2, <2>4, SMT
<1>11. ASSUME n = 3 PROVE cp \in Nat /\ cp <= 1114111 /\ Size(cp) = n /\ Same
  <2>1. OfThree(cp, p, x, y)
    BY <1>4, <1>2, <1>5, <1>6, <1>7, <1>11, SMT DEF OfThree
  <2>2. cp \in Nat /\ Size(cp) = 3 /\ Octets(cp) = <<224 + p, 128 + x, 128 + y>>
    <3>1. InThree(cp, p, x, y)
      BY ONLY <2>1, ThreeOctets
    <3> QED
      BY ONLY <3>1, SMT DEF InThree
  <2>3. b = 224 + p /\ s[i + 1] = 128 + x /\ s[i + 2] = 128 + y
    BY <1>5, <1>6, <1>11, SMT
  <2>4. Same
    <3>1. Octets(cp)[1] = b /\ Octets(cp)[2] = s[i + 1] /\ Octets(cp)[3] = s[i + 2]
      BY ONLY <2>2, <2>3, SMT
    <3>2. \A j \in 1 .. n : j = 1 \/ j = 2 \/ j = 3
      BY ONLY <1>11, SMT
    <3> QED
      BY ONLY <1>2, <1>8, <3>1, <3>2 DEF Same
  <2> QED
    BY ONLY <1>7, <1>11, <2>2, <2>4, SMT
<1>12. ASSUME n = 4 PROVE cp \in Nat /\ cp <= 1114111 /\ Size(cp) = n /\ Same
  <2>1. OfFour(cp, p, x, y, z)
    BY <1>4, <1>2, <1>5, <1>6, <1>7, <1>12, SMT DEF OfFour
  <2>2. cp \in Nat /\ Size(cp) = 4 /\ Octets(cp) = <<240 + p, 128 + x, 128 + y, 128 + z>>
    <3>1. InFour(cp, p, x, y, z)
      BY ONLY <2>1, FourOctets
    <3> QED
      BY ONLY <3>1, SMT DEF InFour
  <2>3. b = 240 + p /\ s[i + 1] = 128 + x /\ s[i + 2] = 128 + y /\ s[i + 3] = 128 + z
    BY <1>5, <1>6, <1>12, SMT
  <2>4. Same
    <3>1. /\ Octets(cp)[1] = b /\ Octets(cp)[2] = s[i + 1] /\ Octets(cp)[3] = s[i + 2]
          /\ Octets(cp)[4] = s[i + 3]
      BY ONLY <2>2, <2>3, SMT
    <3>2. \A j \in 1 .. n : j = 1 \/ j = 2 \/ j = 3 \/ j = 4
      BY ONLY <1>12, SMT
    <3>3. ASSUME NEW j \in 1 .. n PROVE Octets(cp)[j] = s[i + j - 1]
      <4>1. CASE j = 1
        BY ONLY <1>2, <1>8, <3>1, <4>1
      <4>2. CASE j = 2
        BY ONLY <1>2, <3>1, <4>2
      <4>3. CASE j = 3
        BY ONLY <1>2, <3>1, <4>3
      <4>4. CASE j = 4
        BY ONLY <1>2, <3>1, <4>4
      <4> QED
        BY ONLY <3>2, <4>1, <4>2, <4>3, <4>4
    <3> QED
      BY ONLY <3>3 DEF Same
  <2> QED
    BY ONLY <1>7, <1>12, <2>2, <2>4, SMT
<1>13. n \in 1 .. 4 /\ i + n - 1 <= Len(s) /\ (n = 1 \/ n = 2 \/ n = 3 \/ n = 4)
  BY <1>1, <1>4, SMT
<1>14. cp \in Nat /\ cp <= 1114111 /\ Size(cp) = n /\ Same
  BY ONLY <1>9, <1>10, <1>11, <1>12, <1>13, SMT
<1> QED
  BY ONLY <1>13, <1>14, SMT DEF n, cp, b, Same

-----------------------------------------------------------------------------
(* What the loops over a text find from each place on                      *)

ValidFrom(s) ==
  CHOOSE valid : valid = [i \in 1 .. Len(s) + 1 |->
                            i > Len(s) \/ (Decodes(s, i) /\ valid[i + Announced(s[i])])]

PointsFrom(s) ==
  CHOOSE from : from = [i \in 1 .. Len(s) + 1 |->
                          IF i <= Len(s) /\ Decodes(s, i)
                          THEN <<CodePoint(s, i, Announced(s[i]))>> \o from[i + Announced(s[i])]
                          ELSE <<>>]

\* The loop of the decoder goes on, and not past the end.
LEMMA DecodesOn ==
  ASSUME NEW s, Len(s) \in Nat, NEW i \in 1 .. Len(s), Decodes(s, i)
  PROVE  i + Announced(s[i]) \in i + 1 .. Len(s) + 1
<1> DEFINE a == Announced(s[i])
<1>1. a > 0 /\ i + a - 1 <= Len(s)
  BY SMT DEF Decodes
<1>2. a \in 0 .. 4
  BY SMT DEF Announced
<1> HIDE DEF a
<1>3. i + a \in i + 1 .. Len(s) + 1
  BY <1>1, <1>2, SMT
<1> QED
  BY <1>3 DEF a

\* The loop of ten_utf8_validate, step by step.
LEMMA ValidLoop ==
  ASSUME NEW s, Len(s) \in Nat
  PROVE  /\ Utf8Valid(s) <=> ValidFrom(s)[1]
         /\ \A i \in 1 .. Len(s) + 1 :
              ValidFrom(s)[i] <=> (i > Len(s) \/ (Decodes(s, i) /\ ValidFrom(s)[i + Announced(s[i])]))
<1> DEFINE n == Len(s)
           u(f, i) == i > n \/ (Decodes(s, i) /\ f[i + Announced(s[i])])
           Loop(f) == f = [i \in 1 .. n + 1 |-> u(f, i)]
           g == ValidFrom(s)
           go == {i \in 1 .. n : Decodes(s, i)}
           next == [i \in 1 .. n |-> i + Announced(s[i])]
<1>1. \A i \in 1 .. n : i \in go => next[i] \in i + 1 .. n + 1
  BY DecodesOn
<1>2. \A i \in 1 .. n + 1 : (i \in go <=> ~ (i > n) /\ Decodes(s, i)) /\ (~ (i > n) => next[i] = i + Announced(s[i]))
  OBVIOUS
<1>3. g = CHOOSE f : Loop(f)
  BY DEF ValidFrom
<1>4. Utf8Valid(s) = g[1]
  BY DEF Utf8Valid, ValidFrom
<1>5. \E f : Loop(f)
  <2> HIDE DEF go, next
  <2>1. PICK f \in [1 .. n + 1 -> BOOLEAN] :
          \A i \in 1 .. n + 1 : f[i] <=> (i > n \/ (i \in go /\ f[next[i]]))
    BY <1>1, TruthExists
  <2>2. \A i \in 1 .. n + 1 : f[i] <=> u(f, i)
    BY <1>2, <2>1
  <2>3. \A i \in 1 .. n + 1 : u(f, i) \in BOOLEAN
    <3>1. \A i \in 1 .. n + 1 : ~ (i > n) /\ Decodes(s, i) => i + Announced(s[i]) \in 1 .. n + 1
      <4> TAKE i \in 1 .. n + 1
      <4> HAVE ~ (i > n) /\ Decodes(s, i)
      <4>1. i \in 1 .. n
        OBVIOUS
      <4>2. i + Announced(s[i]) \in i + 1 .. n + 1
        BY <4>1, DecodesOn
      <4> QED
        BY <4>2, SMT
    <3> QED
      BY <3>1
  <2>4. \A i \in 1 .. n + 1 : f[i] = u(f, i)
    <3> TAKE i \in 1 .. n + 1
    <3>1. f[i] \in BOOLEAN /\ u(f, i) \in BOOLEAN /\ (f[i] <=> u(f, i))
      BY <2>1, <2>2, <2>3
    <3> HIDE DEF u
    <3> QED
      BY <3>1
  <2> HIDE DEF u
  <2>5. f = [i \in 1 .. n + 1 |-> f[i]]
    OBVIOUS
  <2> QED
    BY <2>4, <2>5
<1> HIDE DEF Loop, g
<1>6. Loop(g)
  BY <1>3, <1>5
<1>7. \A i \in 1 .. n + 1 : g[i] = u(g, i)
  <2> DEFINE h(i) == u(g, i)
  <2>1. g = [i \in 1 .. n + 1 |-> h(i)]
    BY <1>6 DEF Loop
  <2> HIDE DEF h
  <2>2. \A i \in 1 .. n + 1 : g[i] = h(i)
    BY <2>1
  <2> QED
    BY <2>2 DEF h
<1>8. \A i \in 1 .. n + 1 : g[i] <=> u(g, i)
  BY <1>7
<1> QED
  BY <1>4, <1>8 DEF g

\* The code points that are read, step by step.
LEMMA PointsLoop ==
  ASSUME NEW s, Len(s) \in Nat
  PROVE  /\ CodePoints(s) = PointsFrom(s)[1]
         /\ \A i \in 1 .. Len(s) + 1 :
              PointsFrom(s)[i] = IF i <= Len(s) /\ Decodes(s, i)
                                 THEN <<CodePoint(s, i, Announced(s[i]))>> \o PointsFrom(s)[i + Announced(s[i])]
                                 ELSE <<>>
<1> DEFINE n == Len(s)
           stop == {i \in 1 .. n + 1 : ~ (i <= n /\ Decodes(s, i))}
           first == [i \in 1 .. n + 1 |-> CodePoint(s, i, Announced(s[i]))]
           next == [i \in 1 .. n + 1 |-> i + Announced(s[i])]
           u(f, i) == IF i <= n /\ Decodes(s, i)
                      THEN <<CodePoint(s, i, Announced(s[i]))>> \o f[i + Announced(s[i])]
                      ELSE <<>>
           v(f, i) == IF i \in stop THEN <<>> ELSE <<first[i]>> \o f[next[i]]
           Loop(f) == f = [i \in 1 .. n + 1 |-> u(f, i)]
           g == PointsFrom(s)
<1>1. ASSUME NEW i \in 1 .. n + 1, i \notin stop PROVE next[i] \in i + 1 .. n + 1
  BY <1>1, DecodesOn
<1>2. \A f : \A i \in 1 .. n + 1 : u(f, i) = v(f, i)
  OBVIOUS
<1>3. g = CHOOSE f : Loop(f)
  BY DEF PointsFrom
<1>4. CodePoints(s) = g[1]
  BY DEF CodePoints, PointsFrom
<1>5. \E f : Loop(f)
  <2>1. PICK f : Links(n, stop, first, next, f)
    <3> HIDE DEF stop, first, next
    <3> QED
      BY <1>1, LinksExist
  <2>2. f = [i \in 1 .. n + 1 |-> v(f, i)]
    BY <2>1 DEF Links
  <2> HIDE DEF u, v
  <2>3. f = [i \in 1 .. n + 1 |-> u(f, i)]
    BY <1>2, <2>2
  <2> QED
    BY <2>3
<1> HIDE DEF Loop, g
<1>6. Loop(g)
  BY <1>3, <1>5
<1>7. \A i \in 1 .. n + 1 : g[i] = u(g, i)
  <2> DEFINE h(i) == u(g, i)
  <2>1. g = [i \in 1 .. n + 1 |-> h(i)]
    BY <1>6 DEF Loop
  <2> HIDE DEF h
  <2>2. \A i \in 1 .. n + 1 : g[i] = h(i)
    BY <2>1
  <2> QED
    BY <2>2 DEF h
<1> QED
  BY <1>4, <1>7 DEF g

GoodFrom(u) ==
  CHOOSE good : good = [i \in 1 .. Len(u) + 1 |->
                          \/ i > Len(u)
                          \/ High(u[i]) /\ i < Len(u) /\ Low(u[i + 1]) /\ good[i + 2]
                          \/ ~High(u[i]) /\ ~Low(u[i]) /\ good[i + 1]]

UnitsFrom(u) ==
  CHOOSE from : from = [i \in 1 .. Len(u) + 1 |->
                          CASE i < Len(u) /\ High(u[i]) ->
                                 <<65536 + 1024 * (u[i] - 55296) + (u[i + 1] - 56320)>> \o from[i + 2]
                            [] i <= Len(u) /\ ~High(u[i]) -> <<u[i]>> \o from[i + 1]
                            [] OTHER -> <<>>]

\* The test of the units, step by step.
LEMMA GoodLoop ==
  ASSUME NEW u, Len(u) \in Nat
  PROVE  /\ Utf16Accepts(u) <=> GoodFrom(u)[1]
         /\ \A i \in 1 .. Len(u) + 1 :
              GoodFrom(u)[i] <=>
                \/ i > Len(u)
                \/ High(u[i]) /\ i < Len(u) /\ Low(u[i + 1]) /\ GoodFrom(u)[i + 2]
                \/ ~High(u[i]) /\ ~Low(u[i]) /\ GoodFrom(u)[i + 1]
<1> DEFINE n == Len(u)
           v(f, i) == \/ i > n
                      \/ High(u[i]) /\ i < n /\ Low(u[i + 1]) /\ f[i + 2]
                      \/ ~High(u[i]) /\ ~Low(u[i]) /\ f[i + 1]
           Loop(f) == f = [i \in 1 .. n + 1 |-> v(f, i)]
           g == GoodFrom(u)
           go == {i \in 1 .. n : (High(u[i]) /\ i < n /\ Low(u[i + 1])) \/ (~High(u[i]) /\ ~Low(u[i]))}
           next == [i \in 1 .. n |-> IF High(u[i]) THEN i + 2 ELSE i + 1]
<1>1. \A i \in 1 .. n : i \in go => next[i] \in i + 1 .. n + 1
  OBVIOUS
<1>2. \A i \in 1 .. n + 1 :
        /\ i \in go <=> ~ (i > n) /\ ((High(u[i]) /\ i < n /\ Low(u[i + 1])) \/ (~High(u[i]) /\ ~Low(u[i])))
        /\ ~ (i > n) => next[i] = IF High(u[i]) THEN i + 2 ELSE i + 1
  OBVIOUS
<1>3. g = CHOOSE f : Loop(f)
  BY DEF GoodFrom
<1>4. Utf16Accepts(u) = g[1]
  BY DEF Utf16Accepts, GoodFrom
<1>5. \E f : Loop(f)
  <2> HIDE DEF go, next
  <2>1. PICK f \in [1 .. n + 1 -> BOOLEAN] :
          \A i \in 1 .. n + 1 : f[i] <=> (i > n \/ (i \in go /\ f[next[i]]))
    BY <1>1, TruthExists
  <2>2. \A i \in 1 .. n + 1 : f[i] <=> v(f, i)
    <3> TAKE i \in 1 .. n + 1
    <3>1. f[i] <=> (i > n \/ (i \in go /\ f[next[i]]))
      BY <2>1
    <3>2. CASE i > n
      BY <3>1, <3>2
    <3>3. CASE ~ (i > n) /\ High(u[i])
      <4>1. i \in go <=> i < n /\ Low(u[i + 1])
        BY <1>2, <3>3
      <4>2. next[i] = i + 2
        BY <1>2, <3>3
      <4> QED
        BY <3>1, <3>3, <4>1, <4>2
    <3>4. CASE ~ (i > n) /\ ~High(u[i])
      <4>1. i \in go <=> ~Low(u[i])
        BY <1>2, <3>4
      <4>2. next[i] = i + 1
        BY <1>2, <3>4
      <4> QED
        BY <3>1, <3>4, <4>1, <4>2
    <3> QED
      BY <3>2, <3>3, <3>4
  <2>3. \A i \in 1 .. n + 1 : v(f, i) \in BOOLEAN
    <3>1. \A i \in 1 .. n + 1 : (i < n => i + 2 \in 1 .. n + 1) /\ (~ (i > n) => i + 1 \in 1 .. n + 1)
      OBVIOUS
    <3> QED
      BY <3>1
  <2>4. \A i \in 1 .. n + 1 : f[i] = v(f, i)
    <3> TAKE i \in 1 .. n + 1
    <3>1. f[i] \in BOOLEAN /\ v(f, i) \in BOOLEAN /\ (f[i] <=> v(f, i))
      BY <2>1, <2>2, <2>3
    <3> HIDE DEF v
    <3> QED
      BY <3>1
  <2> HIDE DEF v
  <2>5. f = [i \in 1 .. n + 1 |-> f[i]]
    OBVIOUS
  <2> QED
    BY <2>4, <2>5
<1> HIDE DEF Loop, g
<1>6. Loop(g)
  BY <1>3, <1>5
<1>7. \A i \in 1 .. n + 1 : g[i] = v(g, i)
  <2> DEFINE h(i) == v(g, i)
  <2>1. g = [i \in 1 .. n + 1 |-> h(i)]
    BY <1>6 DEF Loop
  <2> HIDE DEF h
  <2>2. \A i \in 1 .. n + 1 : g[i] = h(i)
    BY <2>1
  <2> QED
    BY <2>2 DEF h
<1>8. \A i \in 1 .. n + 1 : g[i] <=> v(g, i)
  BY <1>7
<1> QED
  BY <1>4, <1>8 DEF g

BothUnits(a, b) == 65536 + 1024 * (a - 55296) + (b - 56320)

UnitsRead(u) ==
  /\ Utf16Points(u) = UnitsFrom(u)[1]
  /\ \A i \in 1 .. Len(u) + 1 :
       /\ i < Len(u) /\ High(u[i]) => UnitsFrom(u)[i] = <<BothUnits(u[i], u[i + 1])>> \o UnitsFrom(u)[i + 2]
       /\ i <= Len(u) /\ ~High(u[i]) => UnitsFrom(u)[i] = <<u[i]>> \o UnitsFrom(u)[i + 1]
       /\ i > Len(u) => UnitsFrom(u)[i] = <<>>

\* The code points of the units, step by step.
LEMMA UnitsLoop == ASSUME NEW u, Len(u) \in Nat PROVE UnitsRead(u)
<1> DEFINE n == Len(u)
           pair(i) == i < n /\ High(u[i])
           one(i) == i <= n /\ ~High(u[i])
           stop == {i \in 1 .. n + 1 : ~ pair(i) /\ ~ one(i)}
           both(i) == BothUnits(u[i], u[i + 1])
           first == [i \in 1 .. n + 1 |-> IF pair(i) THEN both(i) ELSE u[i]]
           next == [i \in 1 .. n + 1 |-> IF pair(i) THEN i + 2 ELSE i + 1]
           v(f, i) == CASE pair(i) -> <<both(i)>> \o f[i + 2]
                        [] one(i) -> <<u[i]>> \o f[i + 1]
                        [] OTHER -> <<>>
           w(f, i) == IF i \in stop THEN <<>> ELSE <<first[i]>> \o f[next[i]]
           Loop(f) == f = [i \in 1 .. n + 1 |-> v(f, i)]
           g == UnitsFrom(u)
<1>1. ASSUME NEW i \in 1 .. n + 1, i \notin stop PROVE next[i] \in i + 1 .. n + 1
  BY <1>1, SMT
<1>2. g = CHOOSE f : Loop(f)
  BY SMT DEF UnitsFrom, BothUnits
<1>3. Utf16Points(u) = g[1]
  BY SMT DEF Utf16Points, UnitsFrom, BothUnits
<1> HIDE DEF both
<1>4. \A f : \A i \in 1 .. n + 1 : v(f, i) = w(f, i)
  <2>1. \A i : pair(i) => ~ one(i)
    OBVIOUS
  <2> HIDE DEF pair, one
  <2> QED
    BY <2>1
<1>5. \E f : Loop(f)
  <2>1. PICK f : Links(n, stop, first, next, f)
    <3> HIDE DEF stop, first, next
    <3> QED
      BY <1>1, LinksExist
  <2>2. f = [i \in 1 .. n + 1 |-> w(f, i)]
    BY <2>1 DEF Links
  <2> HIDE DEF v, w
  <2>3. f = [i \in 1 .. n + 1 |-> v(f, i)]
    BY <1>4, <2>2
  <2> QED
    BY <2>3
<1> HIDE DEF Loop, g
<1>6. Loop(g)
  BY <1>2, <1>5
<1>7. \A i \in 1 .. n + 1 : g[i] = v(g, i)
  <2> DEFINE h(i) == v(g, i)
  <2>1. g = [i \in 1 .. n + 1 |-> h(i)]
    BY <1>6 DEF Loop
  <2> HIDE DEF h
  <2>2. \A i \in 1 .. n + 1 : g[i] = h(i)
    BY <2>1
  <2> QED
    BY <2>2 DEF h
<1>8. ASSUME NEW i \in 1 .. n + 1
      PROVE  /\ i < n /\ High(u[i]) => g[i] = <<both(i)>> \o g[i + 2]
             /\ i <= n /\ ~High(u[i]) => g[i] = <<u[i]>> \o g[i + 1]
             /\ i > n => g[i] = <<>>
  <2>1. pair(i) => ~ one(i)
    OBVIOUS
  <2>2. g[i] = v(g, i)
    BY <1>7
  <2>3. (pair(i) => v(g, i) = <<both(i)>> \o g[i + 2]) /\ (one(i) => v(g, i) = <<u[i]>> \o g[i + 1])
    <3> HIDE DEF pair, one
    <3> QED
      BY <2>1
  <2>4. i > n => v(g, i) = <<>>
    <3>1. i > n => ~ pair(i) /\ ~ one(i)
      OBVIOUS
    <3> HIDE DEF pair, one
    <3> QED
      BY <3>1
  <2> HIDE DEF v
  <2> QED
    BY <2>2, <2>3, <2>4
<1> QED
  BY <1>3, <1>8 DEF g, both, UnitsRead

-----------------------------------------------------------------------------
(* Codes: what is written piece by piece, and read from the first place on *)

\* A piece stands in a text from a place on.
StandsAt(w, i, x) == i + Len(x) - 1 <= Len(w) /\ \A j \in 1 .. Len(x) : w[i + j - 1] = x[j]

Coded(E, cs) == [k \in 1 .. Len(cs) |-> E[cs[k]]]

CodedOf(P, S, E, cs) ==
  /\ Coded(E, cs) \in Seq(Seq(S)) /\ Len(Coded(E, cs)) = Len(cs)
  /\ \A k \in 1 .. Len(cs) : Coded(E, cs)[k] = E[cs[k]] /\ cs[k] \in P

\* The code of code points, as a sequence of pieces.
LEMMA CodedTyped ==
  ASSUME NEW P, NEW S, NEW E \in [P -> Seq(S)], NEW cs \in Seq(P)
  PROVE  CodedOf(P, S, E, cs)
<1>1. Len(cs) \in Nat /\ \A k \in 1 .. Len(cs) : cs[k] \in P
  BY LenProperties, ElementOfSeq
<1>2. \A k \in 1 .. Len(cs) : E[cs[k]] \in Seq(S)
  BY <1>1
<1> DEFINE n == Len(cs)
           t == [k \in 1 .. n |-> E[cs[k]]]
<1>3. n \in Nat /\ t \in [1 .. n -> Seq(S)]
  BY <1>1, <1>2
<1>4. t \in Seq(Seq(S)) /\ Len(t) = n
  <2> HIDE DEF t, n
  <2>1. t \in Seq(Seq(S))
    BY <1>3, IsASeq
  <2>2. t \in [1 .. Len(t) -> Seq(S)] /\ Len(t) \in Nat
    BY <2>1, LenProperties
  <2>3. DOMAIN t = 1 .. n /\ DOMAIN t = 1 .. Len(t)
    BY <1>3, <2>2
  <2> QED
    BY <1>3, <2>1, <2>2, <2>3, SMT
<1> QED
  BY <1>1, <1>4 DEF Coded, CodedOf

ConsOf(P, E, c, cs) == <<c>> \o cs \in Seq(P) /\ Coded(E, <<c>> \o cs) = <<E[c]>> \o Coded(E, cs)

\* The code of one code point more.
LEMMA CodedCons ==
  ASSUME NEW P, NEW S, NEW E \in [P -> Seq(S)], NEW c \in P, NEW cs \in Seq(P)
  PROVE  ConsOf(P, E, c, cs)
<1> DEFINE ds == <<c>> \o cs
           x == E[c]
<1>1. /\ <<c>> \in Seq(P) /\ Len(<<c>>) = 1 /\ <<c>>[1] = c /\ x \in Seq(S)
      /\ <<x>> \in Seq(Seq(S)) /\ Len(<<x>>) = 1 /\ <<x>>[1] = x
  OBVIOUS
<1>2. /\ ds \in Seq(P) /\ Len(ds) = 1 + Len(cs) /\ Len(cs) \in Nat
      /\ \A k \in 1 .. 1 + Len(cs) : ds[k] = IF k <= 1 THEN <<c>>[k] ELSE cs[k - 1]
  BY <1>1, ConcatProperties, LenProperties
<1> HIDE DEF ds
<1>3. /\ Coded(E, ds) \in Seq(Seq(S)) /\ Len(Coded(E, ds)) = Len(ds)
      /\ \A k \in 1 .. Len(ds) : Coded(E, ds)[k] = E[ds[k]]
  <2>1. CodedOf(P, S, E, ds)
    BY ONLY E \in [P -> Seq(S)], <1>2, CodedTyped
  <2> QED
    BY <2>1 DEF CodedOf
<1>4. /\ Coded(E, cs) \in Seq(Seq(S)) /\ Len(Coded(E, cs)) = Len(cs)
      /\ \A k \in 1 .. Len(cs) : Coded(E, cs)[k] = E[cs[k]]
  <2>1. CodedOf(P, S, E, cs)
    BY ONLY E \in [P -> Seq(S)], cs \in Seq(P), CodedTyped
  <2> QED
    BY <2>1 DEF CodedOf
<1> HIDE DEF x
<1> DEFINE t == <<x>> \o Coded(E, cs)
<1>5. /\ t \in Seq(Seq(S)) /\ Len(t) = 1 + Len(cs)
      /\ \A k \in 1 .. 1 + Len(cs) : t[k] = IF k <= 1 THEN <<x>>[k] ELSE Coded(E, cs)[k - 1]
  BY <1>1, <1>4, ConcatProperties
<1> HIDE DEF t
<1>6. ASSUME NEW k \in 1 .. 1 + Len(cs) PROVE Coded(E, ds)[k] = t[k]
  <2>1. CASE k = 1
    <3>1. ds[1] = c /\ t[1] = x
      BY <1>1, <1>2, <1>5, <2>1
    <3> QED
      BY <1>2, <1>3, <2>1, <3>1 DEF x
  <2>2. CASE k # 1
    <3>1. ~ (k <= 1) /\ k - 1 \in 1 .. Len(cs)
      BY <1>2, <2>2
    <3>2. ds[k] = cs[k - 1] /\ t[k] = Coded(E, cs)[k - 1]
      BY <1>2, <1>5, <3>1
    <3> QED
      BY <1>2, <1>3, <1>4, <3>1, <3>2
  <2> QED
    BY <2>1, <2>2
<1>7. Coded(E, ds) = t
  BY <1>2, <1>3, <1>5, <1>6, SeqEqual
<1> QED
  BY <1>2, <1>7 DEF ds, t, x, ConsOf

\* A reader that takes each piece for what it stands for reads all of it.
Reads(P, E, w, f, v) ==
  /\ \A c \in P : Len(E[c]) > 0
  /\ f[Len(w) + 1] = <<>> /\ v[Len(w) + 1]
  /\ \A i \in 1 .. Len(w) : \A c \in P : StandsAt(w, i, E[c]) =>
       f[i] = <<c>> \o f[i + Len(E[c])] /\ (v[i] <=> v[i + Len(E[c])])

\* A reader that takes every piece for its code point reads the code points.
LEMMA ReadBack ==
  ASSUME NEW P, NEW S, NEW E \in [P -> Seq(S)], NEW cs \in Seq(P), NEW f, NEW v,
         NEW w, w = FlattenSeq(Coded(E, cs)), Reads(P, E, w, f, v)
  PROVE  f[1] = cs /\ v[1]
<1> DEFINE n == Len(cs)
           ss == Coded(E, cs)
<1>1. /\ \A c \in P : Len(E[c]) > 0
      /\ f[Len(w) + 1] = <<>> /\ v[Len(w) + 1]
      /\ \A i \in 1 .. Len(w) : \A c \in P : StandsAt(w, i, E[c]) =>
           f[i] = <<c>> \o f[i + Len(E[c])] /\ (v[i] <=> v[i + Len(E[c])])
  BY DEF Reads
<1>2. /\ n \in Nat /\ ss \in Seq(Seq(S)) /\ Len(ss) = n
      /\ \A k \in 1 .. n : ss[k] = E[cs[k]] /\ cs[k] \in P /\ Len(ss[k]) \in Nat
  <2>1. n \in Nat
    BY LenProperties
  <2>2. \A c \in P : Len(E[c]) \in Nat
    BY LenProperties
  <2>3. CodedOf(P, S, E, cs)
    BY ONLY E \in [P -> Seq(S)], cs \in Seq(P), CodedTyped
  <2> QED
    BY <2>1, <2>2, <2>3 DEF CodedOf
<1> HIDE DEF ss
<1>3. PICK pos \in [0 .. n -> Nat] :
        /\ pos[0] = 0 /\ Len(w) = pos[n]
        /\ \A k \in 1 .. n :
             /\ pos[k] = pos[k - 1] + Len(ss[k]) /\ pos[k] <= pos[n]
             /\ \A j \in 1 .. Len(ss[k]) : w[pos[k - 1] + j] = ss[k][j]
  <2>1. w = FlattenSeq(ss)
    BY DEF ss
  <2>2. PICK pos \in [0 .. Len(ss) -> Nat] : Places(ss, pos)
    BY ONLY <1>2, FlattenPlaces
  <2> HIDE DEF n
  <2>3. pos \in [0 .. n -> Nat]
    BY <1>2, <2>2
  <2>4. pos[0] = 0 /\ Len(w) = pos[n]
    BY <1>2, <2>1, <2>2 DEF Places
  <2>5. \A k \in 1 .. n :
          /\ pos[k] = pos[k - 1] + Len(ss[k]) /\ pos[k] <= pos[n]
          /\ \A j \in 1 .. Len(ss[k]) : w[pos[k - 1] + j] = ss[k][j]
    BY ONLY <1>2, <2>1, <2>2 DEF Places
  <2> QED
    BY ONLY <2>3, <2>4, <2>5
<1> HIDE DEF n
<1> DEFINE T == {k \in Nat : k <= n => f[pos[n - k] + 1] = SubSeq(cs, n - k + 1, n) /\ v[pos[n - k] + 1]}
<1>4. 0 \in T
  <2>1. SubSeq(cs, n + 1, n) = <<>>
    BY <1>2, SubSeqEmpty
  <2>2. n - 0 = n
    BY <1>2
  <2> QED
    BY <1>1, <1>3, <2>1, <2>2
<1>5. ASSUME NEW k \in Nat \ {0}, k - 1 \in T PROVE k \in T
  <2> SUFFICES ASSUME k <= n PROVE f[pos[n - k] + 1] = SubSeq(cs, n - k + 1, n) /\ v[pos[n - k] + 1]
    OBVIOUS
  <2> DEFINE m == n - k + 1
  <2>1. /\ m \in 1 .. n /\ n - (k - 1) = m /\ n - k = m - 1 /\ k - 1 <= n /\ m - 1 \in 0 .. n /\ m \in 0 .. n
        /\ n \in m .. n
    BY <1>2
  <2>2. f[pos[m] + 1] = SubSeq(cs, m + 1, n) /\ v[pos[m] + 1]
    BY <1>5, <2>1
  <2> HIDE DEF m
  <2> DEFINE c == cs[m]
             i == pos[m - 1] + 1
  <2>3. /\ c \in P /\ ss[m] = E[c] /\ pos[m - 1] \in Nat /\ pos[m] \in Nat /\ Len(E[c]) \in Nat
        /\ pos[m] = pos[m - 1] + Len(E[c]) /\ pos[m] <= Len(w)
    BY <1>2, <1>3, <2>1
  <2>4. Len(E[c]) > 0 /\ Len(w) \in Nat
    BY <1>1, <1>2, <1>3, <2>3
  <2>5. i \in 1 .. Len(w) /\ i + Len(E[c]) - 1 <= Len(w) /\ i + Len(E[c]) = pos[m] + 1
    <3> DEFINE p == pos[m - 1]
               q == pos[m]
               l == Len(E[c])
               r == Len(w)
    <3>1. p \in Nat /\ q \in Nat /\ l \in Nat /\ q = p + l /\ q <= r /\ l > 0 /\ r \in Nat
      BY <2>3, <2>4
    <3> HIDE DEF p, q, l, r
    <3>2. p + 1 \in 1 .. r /\ (p + 1) + l - 1 <= r /\ (p + 1) + l = q + 1
      BY ONLY <3>1
    <3> QED
      BY ONLY <3>2 DEF p, q, l, r
  <2>6. \A j \in 1 .. Len(E[c]) : w[i + j - 1] = E[c][j]
    <3> TAKE j \in 1 .. Len(E[c])
    <3>1. w[pos[m - 1] + j] = ss[m][j]
      <4>1. \A h \in 1 .. Len(ss[m]) : w[pos[m - 1] + h] = ss[m][h]
        BY ONLY <1>3, <2>1
      <4> QED
        BY <2>3, <4>1
    <3>2. i + j - 1 = pos[m - 1] + j
      BY <2>3
    <3> QED
      BY <2>3, <3>1, <3>2
  <2>7. StandsAt(w, i, E[c])
    BY <2>5, <2>6 DEF StandsAt
  <2> HIDE DEF i
  <2>8. f[i] = <<c>> \o f[i + Len(E[c])] /\ (v[i] <=> v[i + Len(E[c])])
    BY <1>1, <2>3, <2>5, <2>7
  <2>9. f[i] = <<c>> \o SubSeq(cs, m + 1, n) /\ v[i]
    BY <2>2, <2>5, <2>8
  <2>10. SubSeq(cs, m, n) = <<c>> \o SubSeq(cs, m + 1, n)
    BY <2>1, SubSeqRecursiveFirst DEF n
  <2> QED
    BY <2>1, <2>9, <2>10 DEF i, m
<1>6. n \in T
  <2> HIDE DEF T
  <2>1. Nat \subseteq T
    BY <1>4, <1>5, FromBelow
  <2> QED
    BY <1>2, <2>1
<1>7. f[pos[0] + 1] = SubSeq(cs, 1, n) /\ v[pos[0] + 1]
  <2>1. n - n = 0 /\ n <= n /\ n - n + 1 = 1
    BY <1>2
  <2> QED
    BY <1>6, <2>1
<1>8. SubSeq(cs, 1, n) = cs
  BY SubSeqFull DEF n
<1>9. pos[0] + 1 = 1
  BY <1>3
<1> QED
  BY <1>7, <1>8, <1>9

\* What stands at a place is the beginning of the text from there on.
LEMMA StandsFirst ==
  ASSUME NEW S, NEW w \in Seq(S), NEW x \in Seq(S), NEW i \in 1 .. Len(w), StandsAt(w, i, x)
  PROVE  SubSeq(w, i, Len(w)) = x \o SubSeq(w, i + Len(x), Len(w))
<1> DEFINE n == Len(w)
           m == Len(x)
           a == SubSeq(w, i, n)
           b == SubSeq(w, i + m, n)
<1>1. n \in Nat /\ m \in Nat /\ i \in 1 .. n /\ i + m - 1 <= n /\ \A k \in 1 .. n : w[k] \in S
  BY LenProperties, ElementOfSeq DEF StandsAt
<1>2. \A j \in 1 .. m : w[i + j - 1] = x[j]
  BY DEF StandsAt
<1> HIDE DEF n, m
<1>3. a \in Seq(S) /\ Len(a) = n - i + 1 /\ \A j \in 1 .. n - i + 1 : a[j] = w[i + j - 1]
  <2>1. \A k \in i .. n : w[k] \in S
    BY <1>1
  <2>2. i \in Int /\ n \in Int /\ i <= n
    BY <1>1
  <2> QED
    BY <2>1, <2>2, SubSeqProperties
<1>4. b \in Seq(S) /\ Len(b) = n - i - m + 1 /\ \A j \in 1 .. n - i - m + 1 : b[j] = w[i + m + j - 1]
  <2>1. \A k \in i + m .. n : w[k] \in S
    BY <1>1
  <2>2. i + m \in Int /\ n \in Int /\ (n - (i + m) + 1 = n - i - m + 1)
    BY <1>1
  <2>3. /\ b \in Seq(S) /\ Len(b) = (IF i + m <= n THEN n - (i + m) + 1 ELSE 0)
        /\ \A j \in 1 .. n - (i + m) + 1 : b[j] = w[(i + m) + j - 1]
    BY <2>1, <2>2, SubSeqProperties
  <2>4. Len(b) = n - i - m + 1
    <3>1. CASE i + m <= n
      BY <2>2, <2>3, <3>1
    <3>2. CASE ~ (i + m <= n)
      BY <1>1, <2>2, <2>3, <3>2
    <3> QED
      BY <3>1, <3>2
  <2> QED
    BY <2>2, <2>3, <2>4
<1> DEFINE t == x \o b
<1>5. /\ t \in Seq(S) /\ Len(t) = m + Len(b)
      /\ \A j \in 1 .. m + Len(b) : t[j] = IF j <= m THEN x[j] ELSE b[j - m]
  BY <1>4, ConcatProperties DEF m
<1> HIDE DEF a, b, t
<1>6. Len(t) = Len(a)
  BY <1>1, <1>3, <1>4, <1>5
<1>7. ASSUME NEW j \in 1 .. Len(a) PROVE a[j] = t[j]
  <2>1. j \in 1 .. n - i + 1 /\ j \in 1 .. m + Len(b) /\ a[j] = w[i + j - 1]
    BY <1>1, <1>3, <1>4
  <2>2. CASE j <= m
    <3>1. j \in 1 .. m
      BY <1>1, <2>1, <2>2
    <3> QED
      BY <1>2, <1>5, <2>1, <2>2, <3>1
  <2>3. CASE ~ (j <= m)
    <3>1. j - m \in 1 .. n - i - m + 1 /\ i + m + (j - m) - 1 = i + j - 1
      BY <1>1, <2>1, <2>3
    <3> QED
      BY <1>4, <1>5, <2>1, <2>3, <3>1
  <2> QED
    BY <2>2, <2>3
<1>8. a = t
  BY <1>3, <1>5, <1>6, <1>7, SeqEqual
<1> QED
  BY <1>8 DEF a, b, t, n, m

\* A reader that takes each piece for something of which it is the piece
\* leaves nothing out.
Writes(P, E, w, f, v) ==
  /\ \A c \in P : Len(E[c]) > 0
  /\ f[Len(w) + 1] = <<>> /\ v[1]
  /\ \A i \in 1 .. Len(w) : v[i] =>
       \E c \in P : StandsAt(w, i, E[c]) /\ f[i] = <<c>> \o f[i + Len(E[c])] /\ v[i + Len(E[c])]

\* The code points that a reader takes from a text have that text as their code.
LEMMA WrittenBack ==
  ASSUME NEW P, NEW S, NEW E \in [P -> Seq(S)], NEW w \in Seq(S), NEW f, NEW v,
         Writes(P, E, w, f, v)
  PROVE  f[1] \in Seq(P) /\ FlattenSeq(Coded(E, f[1])) = w
<1> DEFINE n == Len(w)
           Good(i) == f[i] \in Seq(P) /\ FlattenSeq(Coded(E, f[i])) = SubSeq(w, i, n)
           T == {k \in Nat : \A i \in 1 .. n + 1 : i + k >= n + 1 /\ v[i] => Good(i)}
<1>1. /\ \A c \in P : Len(E[c]) > 0
      /\ f[Len(w) + 1] = <<>> /\ v[1]
      /\ \A i \in 1 .. Len(w) : v[i] =>
           \E c \in P : StandsAt(w, i, E[c]) /\ f[i] = <<c>> \o f[i + Len(E[c])] /\ v[i + Len(E[c])]
  BY DEF Writes
<1>2. n \in Nat
  BY LenProperties
<1>3. Good(n + 1)
  <2>1. <<>> \in Seq(P) /\ SubSeq(w, n + 1, n) = <<>>
    BY <1>2, EmptySeq, SubSeqEmpty
  <2>2. Coded(E, <<>>) = <<>>
    BY DEF Coded
  <2>3. FlattenSeq(<<>>) = <<>>
    BY DEF FlattenSeq
  <2> QED
    BY <1>1, <2>1, <2>2, <2>3
<1>4. 0 \in T
  <2>1. \A i \in 1 .. n + 1 : i + 0 >= n + 1 => i = n + 1
    BY <1>2
  <2> HIDE DEF Good
  <2> QED
    BY <1>3, <2>1
<1>5. ASSUME NEW k \in Nat \ {0}, k - 1 \in T PROVE k \in T
  <2> SUFFICES ASSUME NEW i \in 1 .. n + 1, i + k >= n + 1, v[i] PROVE Good(i)
    OBVIOUS
  <2>1. CASE i = n + 1
    BY <1>3, <2>1
  <2>2. CASE i # n + 1
    <3>1. i \in 1 .. n
      BY <1>2, <2>2
    <3>2. PICK c \in P : StandsAt(w, i, E[c]) /\ f[i] = <<c>> \o f[i + Len(E[c])] /\ v[i + Len(E[c])]
      BY <1>1, <3>1
    <3> DEFINE l == i + Len(E[c])
    <3>3. E[c] \in Seq(S) /\ Len(E[c]) \in Nat /\ Len(E[c]) > 0 /\ i + Len(E[c]) - 1 <= n
      BY <1>1, <3>2, LenProperties DEF StandsAt
    <3>4. l \in 1 .. n + 1 /\ l + (k - 1) >= n + 1
      BY <1>2, <3>1, <3>3
    <3>5. Good(l)
      <4> HIDE DEF l, Good, n
      <4>1. v[l]
        BY <3>2 DEF l
      <4> QED
        BY <1>5, <3>4, <4>1
    <3> HIDE DEF l
    <3>6. f[i] = <<c>> \o f[l] /\ f[l] \in Seq(P) /\ FlattenSeq(Coded(E, f[l])) = SubSeq(w, l, n)
      BY <3>2, <3>5 DEF l
    <3>7. f[i] \in Seq(P) /\ Coded(E, f[i]) = <<E[c]>> \o Coded(E, f[l])
      <4>1. f[l] \in Seq(P)
        BY <3>6
      <4>2. <<c>> \o f[l] \in Seq(P) /\ Coded(E, <<c>> \o f[l]) = <<E[c]>> \o Coded(E, f[l])
        <5>1. ConsOf(P, E, c, f[l])
          BY ONLY E \in [P -> Seq(S)], c \in P, <4>1, CodedCons
        <5> QED
          BY ONLY <5>1 DEF ConsOf
      <4> QED
        BY <3>6, <4>2
    <3>8. Coded(E, f[l]) \in Seq(Seq(S))
      <4>1. f[l] \in Seq(P)
        BY <3>6
      <4>2. CodedOf(P, S, E, f[l])
        BY ONLY E \in [P -> Seq(S)], <4>1, CodedTyped
      <4> QED
        BY <4>2 DEF CodedOf
    <3>9. FlattenSeq(Coded(E, f[i])) = E[c] \o FlattenSeq(Coded(E, f[l]))
      <4>1. FlattenSeq(<<E[c]>> \o Coded(E, f[l])) = E[c] \o FlattenSeq(Coded(E, f[l]))
        BY ONLY <3>3, <3>8, FlattenCons
      <4> QED
        BY <3>7, <4>1
    <3>10. SubSeq(w, i, n) = E[c] \o SubSeq(w, l, n)
      BY <3>1, <3>2, <3>3, StandsFirst DEF l
    <3> QED
      BY <3>6, <3>7, <3>9, <3>10
  <2> QED
    BY <2>1, <2>2
<1>6. n \in T
  <2> HIDE DEF T
  <2>1. Nat \subseteq T
    BY <1>4, <1>5, FromBelow
  <2> QED
    BY <1>2, <2>1
<1>7. Good(1)
  <2>1. 1 \in 1 .. n + 1 /\ 1 + n >= n + 1
    BY <1>2
  <2> HIDE DEF Good, n
  <2> QED
    BY <1>1, <1>6, <2>1
<1>8. SubSeq(w, 1, n) = w
  BY SubSeqFull
<1> QED
  BY <1>7, <1>8

-----------------------------------------------------------------------------
(* UTF-8 as a code                                                         *)

Points == {cp \in Nat : cp <= 1114111}

Bytes8 == 0 .. 255

OctetCode == [cp \in Points |-> Octets(cp)]

\* Points and scalars, by their bounds.
LEMMA PointIs ==
  ASSUME NEW cp
  PROVE  cp \in Points <=> cp \in Nat /\ cp <= 1114111
BY SMT DEF Points

\* UTF-8 is a code of the code points.
LEMMA OctetCodeTyped ==
  /\ OctetCode \in [Points -> Seq(Bytes8)]
  /\ \A c \in Points : /\ OctetCode[c] = Octets(c) /\ Octets(c) \in Seq(Bytes8) /\ Len(Octets(c)) = Size(c)
                       /\ Size(c) \in 1 .. 4
<1>1. ASSUME NEW c \in Points
      PROVE  Octets(c) \in Seq(Bytes8) /\ Len(Octets(c)) = Size(c) /\ Size(c) \in 1 .. 4
  <2>1. c \in Nat /\ c <= 1114111
    BY ONLY c \in Points, PointIs
  <2>2. Size(c) \in 1 .. 4
    BY ONLY <2>1, PointSizes, SMT
  <2>3. Octets(c) \in Seq(Bytes8) /\ Len(Octets(c)) = Size(c)
    BY ONLY <2>1, OctetsFacts, SMT DEF Bytes8
  <2> QED
    BY ONLY <2>2, <2>3
<1> QED
  BY <1>1 DEF OctetCode

\* The decoder of UTF-8 reads that code.
LEMMA ReadsOctets ==
  ASSUME NEW cs \in Seq(Points)
  PROVE  LET w == FlattenSeq(Coded(OctetCode, cs))
         IN  w \in Seq(Bytes8) /\ Utf8Valid(w) /\ CodePoints(w) = cs
<1> DEFINE w == FlattenSeq(Coded(OctetCode, cs))
           f == PointsFrom(w)
           v == ValidFrom(w)
<1>1. w \in Seq(Bytes8)
  <2>1. CodedOf(Points, Bytes8, OctetCode, cs)
    BY ONLY cs \in Seq(Points), OctetCodeTyped, CodedTyped
  <2>2. Coded(OctetCode, cs) \in Seq(Seq(Bytes8))
    BY ONLY <2>1 DEF CodedOf
  <2>3. <<>> \in Seq(Bytes8)
    BY EmptySeq
  <2> QED
    BY ONLY <2>2, <2>3, FlattenCons
<1>2. Len(w) \in Nat
  BY <1>1, LenProperties
<1>3. f[Len(w) + 1] = <<>> /\ v[Len(w) + 1]
  <2> HIDE DEF w
  <2>1. Len(w) + 1 \in 1 .. Len(w) + 1 /\ ~ (Len(w) + 1 <= Len(w)) /\ Len(w) + 1 > Len(w)
    BY <1>2
  <2> QED
    BY <1>2, <2>1, PointsLoop, ValidLoop
<1>4. ASSUME NEW i \in 1 .. Len(w), NEW c \in Points, StandsAt(w, i, OctetCode[c])
      PROVE  /\ f[i] = <<c>> \o f[i + Len(OctetCode[c])]
             /\ v[i] <=> v[i + Len(OctetCode[c])]
  <2> HIDE DEF w
  <2>1. OctetCode[c] = Octets(c) /\ Len(Octets(c)) = Size(c)
    BY OctetCodeTyped
  <2>2. i + Size(c) - 1 <= Len(w) /\ \A j \in 1 .. Size(c) : w[i + j - 1] = Octets(c)[j]
    BY <1>4, <2>1 DEF StandsAt
  <2>3. c \in Nat /\ c <= 1114111
    BY ONLY c \in Points, PointIs
  <2>4. Decodes(w, i) /\ Announced(w[i]) = Size(c) /\ CodePoint(w, i, Size(c)) = c
    BY ONLY <1>2, <2>2, <2>3, i \in 1 .. Len(w), OctetsDecode, SMT
  <2>5. i \in 1 .. Len(w) + 1 /\ i <= Len(w) /\ ~ (i > Len(w))
    BY <1>2
  <2>6. f[i] = <<c>> \o f[i + Size(c)]
    <3>1. f[i] = <<CodePoint(w, i, Announced(w[i]))>> \o f[i + Announced(w[i])]
      BY ONLY <1>2, <2>4, <2>5, PointsLoop
    <3> QED
      BY ONLY <2>4, <3>1
  <2>7. v[i] <=> v[i + Size(c)]
    <3>1. v[i] <=> v[i + Announced(w[i])]
      BY ONLY <1>2, <2>4, <2>5, ValidLoop
    <3> QED
      BY ONLY <2>4, <3>1
  <2> QED
    BY ONLY <2>1, <2>6, <2>7
<1>5. \A c \in Points : Len(OctetCode[c]) > 0
  BY OctetCodeTyped
<1>6. f[1] = cs /\ v[1]
  <2> HIDE DEF w, f, v
  <2>1. w = FlattenSeq(Coded(OctetCode, cs))
    BY DEF w
  <2>2. OctetCode \in [Points -> Seq(Bytes8)]
    BY OctetCodeTyped
  <2>3. Reads(Points, OctetCode, w, f, v)
    BY ONLY <1>3, <1>4, <1>5 DEF Reads
  <2> QED
    BY ONLY cs \in Seq(Points), <2>1, <2>2, <2>3, ReadBack
<1>7. CodePoints(w) = f[1] /\ (Utf8Valid(w) <=> v[1])
  <2> HIDE DEF w
  <2> QED
    BY ONLY <1>2, PointsLoop, ValidLoop
<1> QED
  BY <1>1, <1>6, <1>7

\* What it accepts is the code of what it reads.
LEMMA WritesOctets ==
  ASSUME NEW w \in Seq(Bytes8), Utf8Valid(w)
  PROVE  CodePoints(w) \in Seq(Points) /\ FlattenSeq(Coded(OctetCode, CodePoints(w))) = w
<1> DEFINE f == PointsFrom(w)
           v == ValidFrom(w)
<1>1. Len(w) \in Nat /\ \A k \in 1 .. Len(w) : w[k] \in 0 .. 255
  BY LenProperties, ElementOfSeq DEF Bytes8
<1>2. f[Len(w) + 1] = <<>>
  <2>1. Len(w) + 1 \in 1 .. Len(w) + 1 /\ ~ (Len(w) + 1 <= Len(w))
    BY <1>1
  <2> QED
    BY <1>1, <2>1, PointsLoop
<1>3. ASSUME NEW i \in 1 .. Len(w), v[i]
      PROVE  \E c \in Points : /\ StandsAt(w, i, OctetCode[c]) /\ f[i] = <<c>> \o f[i + Len(OctetCode[c])]
                               /\ v[i + Len(OctetCode[c])]
  <2>1. i \in 1 .. Len(w) + 1 /\ i <= Len(w) /\ ~ (i > Len(w))
    BY <1>1
  <2>2. Decodes(w, i) /\ v[i + Announced(w[i])]
    BY ONLY <1>1, <1>3, <2>1, ValidLoop
  <2> DEFINE n == Announced(w[i])
             c == CodePoint(w, i, n)
  <2>3. f[i] = <<c>> \o f[i + n]
    BY ONLY <1>1, <2>1, <2>2, PointsLoop
  <2>4. /\ i + n - 1 <= Len(w) /\ c \in Nat /\ c <= 1114111 /\ Size(c) = n
        /\ \A j \in 1 .. n : Octets(c)[j] = w[i + j - 1]
    BY ONLY <1>1, <2>2, i \in 1 .. Len(w), DecodeOctets, SMT
  <2> HIDE DEF c, n
  <2>5. c \in Points
    BY ONLY <2>4, PointIs, SMT
  <2>6. OctetCode[c] = Octets(c) /\ Len(Octets(c)) = n
    BY <2>4, <2>5, OctetCodeTyped, SMT
  <2>7. StandsAt(w, i, OctetCode[c])
    BY ONLY <2>4, <2>6, SMT DEF StandsAt
  <2>8. v[i + n]
    BY <2>2 DEF n
  <2> QED
    BY ONLY <2>3, <2>5, <2>6, <2>7, <2>8
<1>4. \A c \in Points : Len(OctetCode[c]) > 0
  BY OctetCodeTyped
<1>5. CodePoints(w) = f[1] /\ v[1]
  BY ONLY <1>1, Utf8Valid(w), PointsLoop, ValidLoop
<1>6. f[1] \in Seq(Points) /\ FlattenSeq(Coded(OctetCode, f[1])) = w
  <2> HIDE DEF f, v
  <2>1. OctetCode \in [Points -> Seq(Bytes8)]
    BY OctetCodeTyped
  <2>2. Writes(Points, OctetCode, w, f, v)
    BY ONLY <1>2, <1>3, <1>4, <1>5 DEF Writes
  <2> QED
    BY ONLY w \in Seq(Bytes8), <2>1, <2>2, WrittenBack
<1> QED
  BY <1>5, <1>6

-----------------------------------------------------------------------------
(* UTF-16 as a code                                                        *)

Scalars == {cp \in Points : ~High(cp) /\ ~Low(cp)}

UnitCode == [cp \in Scalars |-> Units(cp)]

\* A scalar is no surrogate.
LEMMA ScalarIs ==
  ASSUME NEW cp
  PROVE  cp \in Scalars <=> cp \in Nat /\ cp <= 1114111 /\ ~High(cp) /\ ~Low(cp)
BY PointIs, SMT DEF Scalars

\* A pair of units for what does not fit one.
LEMMA PairFacts ==
  ASSUME NEW c \in Nat, c <= 1114111, c > 65535
  PROVE  /\ Units(c) = <<55296 + ((c - 65536) \div 1024), 56320 + ((c - 65536) % 1024)>>
         /\ High(55296 + ((c - 65536) \div 1024)) /\ Low(56320 + ((c - 65536) % 1024))
         /\ (c - 65536) \div 1024 \in 0 .. 1023 /\ (c - 65536) % 1024 \in 0 .. 1023
         /\ c = 65536 + 1024 * ((c - 65536) \div 1024) + ((c - 65536) % 1024)
<1> DEFINE d == c - 65536
           q == d \div 1024
           r == d % 1024
<1>1. Units(c) = <<55296 + q, 56320 + r>>
  BY SMT DEF Units
<1>2. d \in Nat /\ d < 1048576 /\ c = 65536 + d
  BY SMT
<1> HIDE DEF d
<1>3. q \in Nat /\ r \in 0 .. 1023 /\ d = 1024 * q + r
  BY ONLY <1>2, SMT
<1> HIDE DEF q, r
<1>4. q \in 0 .. 1023
  BY ONLY <1>2, <1>3, SMT
<1>5. High(55296 + q) /\ Low(56320 + r)
  BY ONLY <1>3, <1>4, SMT DEF High, Low
<1>6. c = 65536 + 1024 * q + r
  BY ONLY <1>2, <1>3, SMT
<1> QED
  BY ONLY <1>1, <1>3, <1>4, <1>5, <1>6, SMT DEF q, r, d

\* UTF-16 is a code of the scalars.
LEMMA UnitCodeTyped ==
  /\ UnitCode \in [Scalars -> Seq(Nat)]
  /\ \A c \in Scalars : /\ UnitCode[c] = Units(c) /\ Len(UnitCode[c]) > 0
                        /\ c > 65535 => Len(Units(c)) = 2
                        /\ ~ (c > 65535) => Units(c) = <<c>>
<1>1. ASSUME NEW c \in Scalars
      PROVE  /\ Units(c) \in Seq(Nat) /\ Len(Units(c)) > 0
             /\ c > 65535 => Len(Units(c)) = 2
             /\ ~ (c > 65535) => Units(c) = <<c>>
  <2>1. c \in Nat /\ c <= 1114111
    BY ONLY c \in Scalars, ScalarIs
  <2>2. CASE c > 65535
    <3> DEFINE a == 55296 + ((c - 65536) \div 1024)
               b == 56320 + ((c - 65536) % 1024)
    <3>1. Units(c) = <<a, b>> /\ a \in Nat /\ b \in Nat
      BY <2>1, <2>2, SMT DEF Units
    <3> HIDE DEF a, b
    <3> QED
      BY ONLY <2>2, <3>1, SMT
  <2>3. CASE ~ (c > 65535)
    <3>1. Units(c) = <<c>>
      BY <2>3, SMT DEF Units
    <3> QED
      BY ONLY <2>1, <2>3, <3>1, SMT
  <2> QED
    BY ONLY <2>2, <2>3, SMT
<1>2. \A c \in Scalars : Units(c) \in Seq(Nat) /\ UnitCode[c] = Units(c)
  BY ONLY <1>1, SMT DEF UnitCode
<1>3. UnitCode \in [Scalars -> Seq(Nat)]
  BY ONLY <1>2, SMT DEF UnitCode
<1> QED
  BY ONLY <1>1, <1>2, <1>3, SMT

\* The decoder of UTF-16 reads that code.
LEMMA ReadsUnits ==
  ASSUME NEW cs \in Seq(Scalars)
  PROVE  LET w == FlattenSeq(Coded(UnitCode, cs))
         IN  Utf16Accepts(w) /\ Utf16Points(w) = cs
<1> DEFINE w == FlattenSeq(Coded(UnitCode, cs))
           f == UnitsFrom(w)
           v == GoodFrom(w)
<1>1. w \in Seq(Nat)
  <2>1. UnitCode \in [Scalars -> Seq(Nat)]
    BY UnitCodeTyped, SMT
  <2>2. CodedOf(Scalars, Nat, UnitCode, cs)
    BY ONLY cs \in Seq(Scalars), <2>1, CodedTyped
  <2>3. Coded(UnitCode, cs) \in Seq(Seq(Nat))
    BY ONLY <2>2 DEF CodedOf
  <2>4. <<>> \in Seq(Nat)
    BY EmptySeq
  <2> QED
    BY ONLY <2>3, <2>4, FlattenCons
<1>2. Len(w) \in Nat
  BY <1>1, LenProperties
<1>3. UnitsRead(w)
  <2> HIDE DEF w
  <2> QED
    BY ONLY <1>2, UnitsLoop
<1>4. f[Len(w) + 1] = <<>> /\ v[Len(w) + 1]
  <2> HIDE DEF w
  <2>1. /\ Len(w) + 1 \in 1 .. Len(w) + 1 /\ ~ (Len(w) + 1 <= Len(w)) /\ ~ (Len(w) + 1 < Len(w))
        /\ Len(w) + 1 > Len(w)
    BY <1>2
  <2>2. f[Len(w) + 1] = <<>>
    BY ONLY <1>2, <2>1, <1>3 DEF UnitsRead
  <2> QED
    BY ONLY <1>2, <2>1, <2>2, GoodLoop
<1>5. ASSUME NEW i \in 1 .. Len(w), NEW c \in Scalars, StandsAt(w, i, UnitCode[c])
      PROVE  /\ f[i] = <<c>> \o f[i + Len(UnitCode[c])]
             /\ v[i] <=> v[i + Len(UnitCode[c])]
  <2> HIDE DEF w
  <2>1. c \in Nat /\ c <= 1114111 /\ ~High(c) /\ ~Low(c)
    BY ONLY c \in Scalars, ScalarIs
  <2>2. i \in 1 .. Len(w) + 1 /\ i <= Len(w) /\ ~ (i > Len(w)) /\ i + 1 - 1 = i /\ i + 2 - 1 = i + 1
    BY <1>2
  <2> DEFINE x == Units(c)
  <2>3. UnitCode[c] = x /\ (c > 65535 => Len(x) = 2) /\ (~ (c > 65535) => x = <<c>>)
    BY UnitCodeTyped, SMT
  <2>4. i + Len(x) - 1 <= Len(w) /\ \A j \in 1 .. Len(x) : w[i + j - 1] = x[j]
    BY <1>5, <2>3 DEF StandsAt
  <2>5. CASE c > 65535
    <3> DEFINE q == (c - 65536) \div 1024
               r == (c - 65536) % 1024
               a == 55296 + q
               b == 56320 + r
    <3>1. /\ x = <<a, b>> /\ High(a) /\ Low(b) /\ q \in 0 .. 1023 /\ r \in 0 .. 1023
          /\ c = 65536 + 1024 * q + r
      BY ONLY <2>1, <2>5, PairFacts, SMT
    <3>2. Len(x) = 2 /\ x[1] = a /\ x[2] = b
      BY ONLY <2>3, <2>5, <3>1, SMT
    <3>3. c = 65536 + 1024 * (a - 55296) + (b - 56320)
      <4> HIDE DEF q, r
      <4> QED
        BY ONLY <3>1, SMT
    <3> HIDE DEF x, a, b
    <3>4. w[i] = a /\ w[i + 1] = b /\ i < Len(w)
      <4>1. 1 \in 1 .. 2 /\ 2 \in 1 .. 2
        OBVIOUS
      <4>2. w[i] = a /\ w[i + 1] = b
        BY ONLY <2>2, <2>4, <3>2, <4>1
      <4>3. i < Len(w)
        BY <1>2, <2>4, <3>2
      <4> QED
        BY ONLY <4>2, <4>3
    <3>5. f[i] = <<c>> \o f[i + 2]
      <4>1. f[i] = <<BothUnits(a, b)>> \o f[i + 2]
        <5>1. High(a) /\ Low(b)
          BY ONLY <3>1, SMT
        <5> QED
          BY ONLY <1>2, <2>2, <3>4, <5>1, <1>3 DEF UnitsRead
      <4>2. BothUnits(a, b) = c
        BY ONLY <3>3, SMT DEF BothUnits
      <4> QED
        BY ONLY <4>1, <4>2
    <3>6. v[i] <=> v[i + 2]
      BY ONLY <1>2, <2>2, <3>1, <3>4, GoodLoop, SMT
    <3> QED
      BY ONLY <2>3, <3>2, <3>5, <3>6
  <2>6. CASE ~ (c > 65535)
    <3>1. Len(x) = 1 /\ x[1] = c
      BY ONLY <2>3, <2>6, SMT
    <3> HIDE DEF x
    <3>2. w[i] = c
      <4>1. 1 \in 1 .. 1
        OBVIOUS
      <4> QED
        BY ONLY <2>2, <2>4, <3>1, <4>1
    <3>3. f[i] = <<c>> \o f[i + 1]
      <4>1. ~High(c)
        BY ONLY <2>1, SMT
      <4> QED
        BY ONLY <1>2, <4>1, <2>2, <3>2, <1>3 DEF UnitsRead
    <3>4. v[i] <=> v[i + 1]
      BY ONLY <1>2, <2>1, <2>2, <3>2, GoodLoop, SMT
    <3> QED
      BY ONLY <2>3, <3>1, <3>3, <3>4
  <2> QED
    BY <2>5, <2>6, SMT
<1>6. \A c \in Scalars : Len(UnitCode[c]) > 0
  BY UnitCodeTyped, SMT
<1>7. f[1] = cs /\ v[1]
  <2> HIDE DEF w, f, v
  <2>1. w = FlattenSeq(Coded(UnitCode, cs))
    BY DEF w
  <2>2. UnitCode \in [Scalars -> Seq(Nat)]
    BY UnitCodeTyped, SMT
  <2>3. Reads(Scalars, UnitCode, w, f, v)
    BY ONLY <1>4, <1>5, <1>6 DEF Reads
  <2> QED
    BY ONLY cs \in Seq(Scalars), <2>1, <2>2, <2>3, ReadBack
<1>8. Utf16Points(w) = f[1] /\ (Utf16Accepts(w) <=> v[1])
  <2> HIDE DEF w
  <2>1. Utf16Points(w) = f[1]
    BY ONLY <1>2, <1>3 DEF UnitsRead
  <2> QED
    BY ONLY <1>2, <2>1, GoodLoop
<1> QED
  BY <1>7, <1>8, SMT

Units16 == {x \in Nat : x <= 65535}

\* What it accepts is the code of what it reads.
LEMMA WritesUnits ==
  ASSUME NEW w \in Seq(Units16), Utf16Accepts(w)
  PROVE  Utf16Points(w) \in Seq(Scalars) /\ FlattenSeq(Coded(UnitCode, Utf16Points(w))) = w
<1> DEFINE f == UnitsFrom(w)
           v == GoodFrom(w)
<1>1. Len(w) \in Nat /\ \A k \in 1 .. Len(w) : w[k] \in Nat /\ w[k] <= 65535
  <2>1. \A k \in 1 .. Len(w) : w[k] \in Units16
    BY ElementOfSeq
  <2> QED
    BY <2>1, LenProperties, SMT DEF Units16
<1>2. UnitsRead(w)
  <2>1. Len(w) \in Nat
    BY <1>1, SMT
  <2> QED
    BY ONLY <2>1, UnitsLoop
<1>3. f[Len(w) + 1] = <<>>
  <2>1. Len(w) + 1 \in 1 .. Len(w) + 1 /\ Len(w) + 1 > Len(w)
    BY <1>1, SMT
  <2>2. Len(w) \in Nat
    BY <1>1, SMT
  <2> QED
    BY ONLY <2>1, <2>2, <1>2 DEF UnitsRead
<1>4. ASSUME NEW i \in 1 .. Len(w), v[i]
      PROVE  \E c \in Scalars : /\ StandsAt(w, i, UnitCode[c]) /\ f[i] = <<c>> \o f[i + Len(UnitCode[c])]
                                /\ v[i + Len(UnitCode[c])]
  <2>1. i \in 1 .. Len(w) + 1 /\ i <= Len(w) /\ ~ (i > Len(w)) /\ Len(w) \in Nat /\ w[i] \in Nat /\ w[i] <= 65535
    BY <1>1, SMT
  <2>2. \/ High(w[i]) /\ i < Len(w) /\ Low(w[i + 1]) /\ v[i + 2]
        \/ ~High(w[i]) /\ ~Low(w[i]) /\ v[i + 1]
    BY ONLY <1>4, <2>1, GoodLoop, SMT
  <2>3. CASE High(w[i]) /\ i < Len(w) /\ Low(w[i + 1]) /\ v[i + 2]
    <3> DEFINE a == w[i]
               b == w[i + 1]
               q == a - 55296
               r == b - 56320
               c == 65536 + 1024 * q + r
    <3>1. f[i] = <<c>> \o f[i + 2]
      <4>1. f[i] = <<BothUnits(a, b)>> \o f[i + 2]
        <5>1. i \in 1 .. Len(w) + 1
          BY ONLY <2>1, SMT
        <5> QED
          BY ONLY <5>1, <2>3, <1>2 DEF UnitsRead
      <4>2. BothUnits(a, b) = c
        BY ONLY SMT DEF BothUnits
      <4> QED
        BY ONLY <4>1, <4>2, SMT
    <3>2. b \in Nat /\ High(a) /\ Low(b)
      <4>1. i + 1 \in 1 .. Len(w)
        BY <2>1, <2>3, SMT
      <4> QED
        BY <1>1, <2>3, <4>1, SMT
    <3> HIDE DEF a, b
    <3>3. q \in 0 .. 1023 /\ r \in 0 .. 1023 /\ a = 55296 + q /\ b = 56320 + r
      BY ONLY <3>2, SMT DEF High, Low
    <3> HIDE DEF q, r
    <3>4. c \in Nat /\ c <= 1114111 /\ c > 65535 /\ ~High(c) /\ ~Low(c) /\ c - 65536 = 1024 * q + r
      BY ONLY <3>3, SMT DEF High, Low
    <3> HIDE DEF c
    <3>5. (c - 65536) \div 1024 = q /\ (c - 65536) % 1024 = r
      <4> DEFINE d == c - 65536
                 g == d \div 1024
                 h == d % 1024
      <4>1. d \in Nat /\ d = 1024 * q + r
        BY ONLY <3>3, <3>4, SMT
      <4> HIDE DEF d
      <4>2. d \in Nat
        BY ONLY <4>1
      <4>3. g \in Nat /\ h \in 0 .. 1023 /\ d = 1024 * g + h
        BY ONLY <4>2, SMT
      <4> HIDE DEF g, h
      <4>4. q \in Nat /\ r \in 0 .. 1023 /\ 1024 * g + h = 1024 * q + r
        BY ONLY <3>3, <4>1, <4>3, SMT
      <4>5. ~ (g < q)
        <5>1. ASSUME g + 1 <= q PROVE FALSE
          <6>1. 1024 * g + 1024 <= 1024 * q
            BY ONLY <4>3, <4>4, <5>1, SMTT(30)
          <6>2. 1024 * g + h < 1024 * g + 1024 /\ 1024 * q + r >= 1024 * q
            BY ONLY <4>3, <4>4, SMTT(30)
          <6> QED
            BY ONLY <4>3, <4>4, <6>1, <6>2, SMTT(30)
        <5> QED
          BY ONLY <4>3, <4>4, <5>1, SMT
      <4>6. ~ (q < g)
        <5>1. ASSUME q + 1 <= g PROVE FALSE
          <6>1. 1024 * q + 1024 <= 1024 * g
            BY ONLY <4>3, <4>4, <5>1, SMTT(30)
          <6>2. 1024 * q + r < 1024 * q + 1024 /\ 1024 * g + h >= 1024 * g
            BY ONLY <4>3, <4>4, SMTT(30)
          <6> QED
            BY ONLY <4>3, <4>4, <6>1, <6>2, SMTT(30)
        <5> QED
          BY ONLY <4>3, <4>4, <5>1, SMT
      <4>7. g = q
        BY ONLY <4>3, <4>4, <4>5, <4>6, SMT
      <4>8. h = r
        BY ONLY <4>3, <4>4, <4>7, SMT
      <4> QED
        BY ONLY <4>7, <4>8, SMT DEF g, h, d
    <3>6. Units(c) = <<a, b>>
      <4>1. Units(c) = <<55296 + ((c - 65536) \div 1024), 56320 + ((c - 65536) % 1024)>>
        BY ONLY <3>4, SMT DEF Units
      <4> QED
        BY ONLY <3>3, <3>5, <4>1, SMT
    <3>7. c \in Scalars
      BY ONLY <3>4, ScalarIs, SMT
    <3>8. UnitCode[c] = <<a, b>>
      <4>1. UnitCode[c] = Units(c)
        BY <3>7, UnitCodeTyped, SMT
      <4> QED
        BY ONLY <3>6, <4>1, SMT
    <3>9. Len(<<a, b>>) = 2 /\ <<a, b>>[1] = a /\ <<a, b>>[2] = b
      BY ONLY SMT
    <3> DEFINE x == <<a, b>>
    <3>10. Len(x) = 2 /\ x[1] = a /\ x[2] = b /\ UnitCode[c] = x
      BY ONLY <3>8, <3>9
    <3> HIDE DEF x
    <3>11. StandsAt(w, i, x)
      <4>1. i + 2 - 1 <= Len(w) /\ i + 1 - 1 = i /\ i + 2 - 1 = i + 1
        BY ONLY <2>1, <2>3, SMT
      <4>2. \A j \in 1 .. 2 : j = 1 \/ j = 2
        BY ONLY SMT
      <4>3. w[i] = a /\ w[i + 1] = b
        BY DEF a, b
      <4> QED
        BY ONLY <3>10, <4>1, <4>2, <4>3 DEF StandsAt
    <3> QED
      BY ONLY <2>3, <3>1, <3>7, <3>10, <3>11
  <2>4. CASE ~High(w[i]) /\ ~Low(w[i]) /\ v[i + 1]
    <3> DEFINE c == w[i]
    <3>1. f[i] = <<c>> \o f[i + 1]
      <4>1. i \in 1 .. Len(w) + 1 /\ i <= Len(w)
        BY ONLY <2>1, SMT
      <4> QED
        BY ONLY <4>1, <2>4, <1>2 DEF UnitsRead
    <3>2. c \in Nat /\ c <= 1114111 /\ ~ (c > 65535) /\ ~High(c) /\ ~Low(c)
      BY ONLY <2>1, <2>4, SMT
    <3> HIDE DEF c
    <3>3. c \in Scalars
      BY ONLY <3>2, ScalarIs, SMT
    <3>4. UnitCode[c] = <<c>>
      BY <3>2, <3>3, UnitCodeTyped, SMT
    <3> DEFINE x == <<c>>
    <3>5. Len(x) = 1 /\ x[1] = c /\ UnitCode[c] = x
      BY ONLY <3>4, SMT
    <3> HIDE DEF x
    <3>6. StandsAt(w, i, x)
      <4>1. i + 1 - 1 <= Len(w) /\ i + 1 - 1 = i
        BY ONLY <2>1, SMT
      <4>2. \A j \in 1 .. 1 : j = 1
        BY ONLY SMT
      <4>3. w[i] = c
        BY DEF c
      <4> QED
        BY ONLY <3>5, <4>1, <4>2, <4>3 DEF StandsAt
    <3> QED
      BY ONLY <2>4, <3>1, <3>3, <3>5, <3>6
  <2> QED
    BY ONLY <2>2, <2>3, <2>4
<1>5. \A c \in Scalars : Len(UnitCode[c]) > 0
  BY UnitCodeTyped, SMT
<1>6. Utf16Points(w) = f[1] /\ v[1]
  <2>1. Len(w) \in Nat
    BY <1>1, SMT
  <2>2. Utf16Points(w) = f[1]
    BY ONLY <2>1, <1>2 DEF UnitsRead
  <2> QED
    BY ONLY <2>1, <2>2, Utf16Accepts(w), GoodLoop
<1>7. f[1] \in Seq(Scalars) /\ FlattenSeq(Coded(UnitCode, f[1])) = w
  <2> HIDE DEF f, v
  <2>1. UnitCode \in [Scalars -> Seq(Nat)]
    BY UnitCodeTyped, SMT
  <2>2. Writes(Scalars, UnitCode, w, f, v)
    BY ONLY <1>3, <1>4, <1>5, <1>6 DEF Writes
  <2>3. w \in Seq(Nat)
    <3>1. Units16 \subseteq Nat
      BY DEF Units16
    <3> QED
      BY <3>1, SeqMonotonic
  <2> QED
    BY ONLY <2>1, <2>2, <2>3, WrittenBack
<1> QED
  BY <1>6, <1>7

-----------------------------------------------------------------------------
(* There and back                                                          *)

\* What the converters write is the code of what they read.
LEMMA OctetsWritten ==
  ASSUME NEW u, Utf16Points(u) \in Seq(Points)
  PROVE  Utf16ToUtf8(u) = FlattenSeq(Coded(OctetCode, Utf16Points(u)))
<1> DEFINE cs == Utf16Points(u)
<1>1. DOMAIN cs = 1 .. Len(cs) /\ \A k \in 1 .. Len(cs) : cs[k] \in Points
  <2> HIDE DEF cs
  <2>1. cs \in Seq(Points)
    BY DEF cs
  <2> QED
    BY <2>1, LenProperties, ElementOfSeq
<1>2. [i \in DOMAIN cs |-> Octets(cs[i])] = Coded(OctetCode, cs)
  <2> HIDE DEF cs
  <2>1. \A k \in 1 .. Len(cs) : Octets(cs[k]) = OctetCode[cs[k]]
    BY <1>1, OctetCodeTyped
  <2> QED
    BY <1>1, <2>1 DEF Coded
<1> QED
  BY <1>2 DEF Utf16ToUtf8

\* From UTF-8 to UTF-16 as well.
LEMMA UnitsWritten ==
  ASSUME NEW s, CodePoints(s) \in Seq(Scalars)
  PROVE  Utf8ToUtf16(s) = FlattenSeq(Coded(UnitCode, CodePoints(s)))
<1> DEFINE cs == CodePoints(s)
<1>1. DOMAIN cs = 1 .. Len(cs) /\ \A k \in 1 .. Len(cs) : cs[k] \in Scalars
  <2> HIDE DEF cs
  <2>1. cs \in Seq(Scalars)
    BY DEF cs
  <2> QED
    BY <2>1, LenProperties, ElementOfSeq
<1>2. [i \in DOMAIN cs |-> Units(cs[i])] = Coded(UnitCode, cs)
  <2> HIDE DEF cs
  <2>1. \A k \in 1 .. Len(cs) : Units(cs[k]) = UnitCode[cs[k]]
    BY <1>1 DEF UnitCode
  <2> QED
    BY <1>1, <2>1 DEF Coded
<1> QED
  BY <1>2 DEF Utf8ToUtf16

\* Scalars are code points.
LEMMA ScalarsArePoints == \A cs \in Seq(Scalars) : cs \in Seq(Points)
<1>1. Scalars \subseteq Points
  BY DEF Scalars
<1> QED
  BY <1>1, SeqMonotonic

\* From UTF-16 to UTF-8 and back.
LEMMA ThroughUtf8 ==
  ASSUME NEW u \in Seq(Units16), Utf16Accepts(u)
  PROVE  Utf8Valid(Utf16ToUtf8(u)) /\ Utf8ToUtf16(Utf16ToUtf8(u)) = u
<1> DEFINE cs == Utf16Points(u)
           s == Utf16ToUtf8(u)
<1>1. cs \in Seq(Scalars) /\ FlattenSeq(Coded(UnitCode, cs)) = u
  BY WritesUnits
<1>2. cs \in Seq(Points)
  BY <1>1, ScalarsArePoints
<1>3. s = FlattenSeq(Coded(OctetCode, cs))
  BY <1>2, OctetsWritten
<1>4. Utf8Valid(s) /\ CodePoints(s) = cs
  <2>1. Utf8Valid(FlattenSeq(Coded(OctetCode, cs))) /\ CodePoints(FlattenSeq(Coded(OctetCode, cs))) = cs
    BY ONLY <1>2, ReadsOctets
  <2> QED
    BY ONLY <1>3, <2>1
<1> HIDE DEF s, cs
<1>5. Utf8ToUtf16(s) = FlattenSeq(Coded(UnitCode, CodePoints(s)))
  <2>1. CodePoints(s) \in Seq(Scalars)
    BY ONLY <1>1, <1>4
  <2> QED
    BY ONLY <2>1, UnitsWritten
<1> QED
  BY <1>1, <1>4, <1>5 DEF s

\* From UTF-8 to UTF-16 and back.
LEMMA ThroughUtf16 ==
  ASSUME NEW s \in Seq(Bytes8), Utf8Valid(s), NoSurrogates(s)
  PROVE  Utf16Accepts(Utf8ToUtf16(s)) /\ Utf16ToUtf8(Utf8ToUtf16(s)) = s
<1> DEFINE cs == CodePoints(s)
           u == Utf8ToUtf16(s)
<1>1. cs \in Seq(Points) /\ FlattenSeq(Coded(OctetCode, cs)) = s
  BY WritesOctets
<1>2. cs \in Seq(Scalars)
  <2>1. \A cp \in Range(cs) : ~High(cp) /\ ~Low(cp)
    BY DEF NoSurrogates
  <2> HIDE DEF cs
  <2>2. Len(cs) \in Nat /\ DOMAIN cs = 1 .. Len(cs) /\ cs = [k \in 1 .. Len(cs) |-> cs[k]]
    BY <1>1, LenProperties
  <2>3. \A k \in 1 .. Len(cs) : cs[k] \in Scalars
    <3> TAKE k \in 1 .. Len(cs)
    <3>1. cs[k] \in Points
      BY <1>1, ElementOfSeq
    <3>2. cs[k] \in Range(cs)
      BY <2>2 DEF Range
    <3> QED
      BY <2>1, <3>1, <3>2 DEF Scalars
  <2> QED
    BY <2>2, <2>3, IsASeq
<1>3. u = FlattenSeq(Coded(UnitCode, cs))
  BY <1>2, UnitsWritten
<1>4. Utf16Accepts(u) /\ Utf16Points(u) = cs
  <2>1. Utf16Accepts(FlattenSeq(Coded(UnitCode, cs))) /\ Utf16Points(FlattenSeq(Coded(UnitCode, cs))) = cs
    BY ONLY <1>2, ReadsUnits
  <2> QED
    BY ONLY <1>3, <2>1
<1> HIDE DEF u, cs
<1>5. Utf16ToUtf8(u) = FlattenSeq(Coded(OctetCode, Utf16Points(u)))
  <2>1. Utf16Points(u) \in Seq(Points)
    BY ONLY <1>1, <1>4
  <2> QED
    BY ONLY <2>1, OctetsWritten
<1> QED
  BY <1>1, <1>4, <1>5 DEF u

-----------------------------------------------------------------------------
(* The table of the Unicode standard                                       *)

\* Whether first and second byte keep the code point within its bounds.
Bounded(b, c) ==
  LET n == Announced(b)
  IN  /\ n = 2 => b >= 194
      /\ n = 3 => b > 224 \/ c >= 160
      /\ n = 4 => (b > 240 \/ c >= 144) /\ (b < 244 \/ (b = 244 /\ c <= 143))

\* A code point of two, three or four bytes that is not too small for them
\* nor too large.
LEMMA BoundTwo ==
  ASSUME NEW b, NEW c, NEW p \in 0 .. 31, NEW x \in 0 .. 63, b = 192 + p, Announced(b) = 2
  PROVE  Bounded(b, c) <=> 64 * p + x >= 128 /\ 64 * p + x <= 1114111
BY SMT DEF Bounded

\* The same of three bytes.
LEMMA BoundThree ==
  ASSUME NEW b, NEW c, NEW p \in 0 .. 15, NEW x \in 0 .. 63, b = 224 + p, c = 128 + x, Announced(b) = 3
  PROVE  Bounded(b, c) <=> p > 0 \/ x >= 32
BY SMT DEF Bounded

\* The same of four bytes.
LEMMA BoundFour ==
  ASSUME NEW b, NEW c, NEW p \in 0 .. 7, NEW x \in 0 .. 63, b = 240 + p, c = 128 + x, Announced(b) = 4
  PROVE  Bounded(b, c) <=> (p > 0 \/ x >= 16) /\ (p < 4 \/ (p = 4 /\ x <= 15))
BY SMT DEF Bounded

\* A range by its bounds.
LEMMA RangeIs ==
  ASSUME NEW c \in Nat, NEW l \in Nat, NEW m \in Nat
  PROVE  c \in l .. m <=> l <= c /\ c <= m
BY SMT

\* A complete sequence is decoded when its second byte is within the bounds.
LEMMA DecodesIff ==
  ASSUME NEW s, Len(s) \in Nat, \A k \in 1 .. Len(s) : s[k] \in 0 .. 255,
         NEW i \in 1 .. Len(s), Complete(s, i)
  PROVE  Decodes(s, i) <=> Bounded(s[i], s[i + 1])
<1> DEFINE b == s[i]
           c == s[i + 1]
           n == Announced(b)
           p == Payload(b, n)
           x == s[i + 1] % 64
           y == s[i + 2] % 64
           z == s[i + 3] % 64
           cp == CodePoint(s, i, n)
           l == Least[n]
           m == 1114111
           InBounds == l <= cp /\ cp <= m
<1>1. DigitsRead(s, i)
  BY DigitsOf, SMT
<1>2. n \in 1 .. 4
  BY ONLY <1>1, SMT DEF DigitsRead
<1>3. ASSUME n = 1 PROVE cp = b /\ b \in 0 .. 127
  BY ONLY <1>1, <1>3, SMT DEF DigitsRead
<1>4. ASSUME n = 2 PROVE p \in 0 .. 31 /\ b = 192 + p /\ cp = 64 * p + x
  BY ONLY <1>1, <1>4, SMT DEF DigitsRead
<1>5. ASSUME n = 3 PROVE p \in 0 .. 15 /\ b = 224 + p /\ cp = 64 * (64 * p + x) + y
  BY ONLY <1>1, <1>5, SMT DEF DigitsRead
<1>6. ASSUME n = 4 PROVE p \in 0 .. 7 /\ b = 240 + p /\ cp = 64 * (64 * (64 * p + x) + y) + z
  BY ONLY <1>1, <1>6, SMT DEF DigitsRead
<1>7. ASSUME n = 2 \/ n = 3 \/ n = 4 PROVE x \in 0 .. 63 /\ c = 128 + x
  <2>1. n > 1 => x \in 0 .. 63 /\ c = 128 + x
    BY ONLY <1>1, SMT DEF DigitsRead
  <2> HIDE DEF n
  <2>2. n > 1
    BY ONLY <1>7, SMT
  <2> QED
    BY ONLY <2>1, <2>2
<1>8. ASSUME n = 3 \/ n = 4 PROVE y \in 0 .. 63
  <2>1. n > 2 => y \in 0 .. 63
    BY ONLY <1>1, SMT DEF DigitsRead
  <2> HIDE DEF n
  <2>2. n > 2
    BY ONLY <1>8, SMT
  <2> QED
    BY ONLY <2>1, <2>2
<1>9. ASSUME n = 4 PROVE z \in 0 .. 63
  <2>1. n > 3 => z \in 0 .. 63
    BY ONLY <1>1, SMT DEF DigitsRead
  <2> HIDE DEF n
  <2>2. n > 3
    BY ONLY <1>9, SMT
  <2> QED
    BY ONLY <2>1, <2>2
<1>10. Decodes(s, i) <=> cp \in l .. m
  BY SMT DEF Decodes, Complete
<1>11. /\ n = 1 => l = 0
       /\ n = 2 => l = 128
       /\ n = 3 => l = 2048
       /\ n = 4 => l = 65536
  <2> HIDE DEF n
  <2> QED
    BY SMT DEF Least
<1>12. m \in Nat /\ m = 1114111
  BY SMT
<1> HIDE DEF b, c, n, p, x, y, z, cp, l, m
<1>13. cp \in Nat /\ l \in Nat /\ (Bounded(b, c) <=> InBounds)
  <2>1. ASSUME n = 1 PROVE cp \in Nat /\ l \in Nat /\ (Bounded(b, c) <=> InBounds)
    <3>1. Bounded(b, c)
      BY ONLY <2>1, SMT DEF Bounded, n
    <3>2. cp = b /\ b \in 0 .. 127
      BY ONLY <1>3, <2>1
    <3>3. l = 0
      BY ONLY <1>11, <2>1, SMT
    <3> QED
      BY ONLY <1>12, <3>1, <3>2, <3>3, SMT
  <2>2. ASSUME n = 2 PROVE cp \in Nat /\ l \in Nat /\ (Bounded(b, c) <=> InBounds)
    <3>1. p \in 0 .. 31 /\ b = 192 + p /\ cp = 64 * p + x /\ x \in 0 .. 63
      BY ONLY <1>4, <1>7, <2>2
    <3>2. Announced(b) = 2
      BY ONLY <2>2 DEF n
    <3>3. Bounded(b, c) <=> 64 * p + x >= 128 /\ 64 * p + x <= 1114111
      BY ONLY <3>1, <3>2, BoundTwo, SMT
    <3>4. l = 128
      BY ONLY <1>11, <2>2, SMT
    <3> QED
      BY ONLY <1>12, <3>1, <3>3, <3>4, SMT
  <2>3. ASSUME n = 3 PROVE cp \in Nat /\ l \in Nat /\ (Bounded(b, c) <=> InBounds)
    <3>1. /\ p \in 0 .. 15 /\ b = 224 + p /\ cp = 64 * (64 * p + x) + y
          /\ x \in 0 .. 63 /\ c = 128 + x /\ y \in 0 .. 63
      BY ONLY <1>5, <1>7, <1>8, <2>3
    <3>2. Announced(b) = 3
      BY ONLY <2>3 DEF n
    <3>3. Bounded(b, c) <=> p > 0 \/ x >= 32
      <4>1. p \in 0 .. 15 /\ x \in 0 .. 63 /\ b = 224 + p /\ c = 128 + x
        BY ONLY <3>1
      <4> QED
        BY ONLY <3>2, <4>1, BoundThree
    <3>4. l = 2048
      BY ONLY <1>11, <2>3, SMT
    <3> QED
      BY ONLY <1>12, <3>1, <3>3, <3>4, SMT
  <2>4. ASSUME n = 4 PROVE cp \in Nat /\ l \in Nat /\ (Bounded(b, c) <=> InBounds)
    <3>1. /\ p \in 0 .. 7 /\ b = 240 + p /\ cp = 64 * (64 * (64 * p + x) + y) + z
          /\ x \in 0 .. 63 /\ c = 128 + x /\ y \in 0 .. 63 /\ z \in 0 .. 63
      BY ONLY <1>6, <1>7, <1>8, <1>9, <2>4
    <3>2. Announced(b) = 4
      BY ONLY <2>4 DEF n
    <3>3. Bounded(b, c) <=> (p > 0 \/ x >= 16) /\ (p < 4 \/ (p = 4 /\ x <= 15))
      <4>1. p \in 0 .. 7 /\ x \in 0 .. 63 /\ b = 240 + p /\ c = 128 + x
        BY ONLY <3>1
      <4> QED
        BY ONLY <3>2, <4>1, BoundFour
    <3>4. l = 65536
      BY ONLY <1>11, <2>4, SMT
    <3> QED
      BY ONLY <1>12, <3>1, <3>3, <3>4, SMT
  <2>5. n = 1 \/ n = 2 \/ n = 3 \/ n = 4
    BY ONLY <1>2, SMT
  <2> QED
    BY ONLY <2>1, <2>2, <2>3, <2>4, <2>5
<1>14. cp \in l .. m <=> InBounds
  BY ONLY <1>12, <1>13, RangeIs, SMT
<1> QED
  BY ONLY <1>10, <1>13, <1>14, SMT DEF b, c

InRow(s, i, r) ==
  /\ s[i] \in r[1] /\ i + r[3] - 1 <= Len(s)
  /\ r[3] > 1 => s[i + 1] \in r[2]
  /\ \A k \in i + 2 .. i + r[3] - 1 : s[k] \in 128 .. 191

\* What the bytes of a row are.
RowOf(R, C, n) ==
  /\ n > 1 => C \subseteq 128 .. 191
  /\ \A b \in R : Announced(b) = n
  /\ \A b \in R : \A c : (n > 1 => c \in C) => Bounded(b, c)

\* What the rows of the table say of bytes.
LEMMA RowsOf ==
  ASSUME NEW r \in LooseRows
  PROVE  r[3] \in 1 .. 4 /\ RowOf(r[1], r[2], r[3])
<1>1. RowOf(0 .. 127, {}, 1)
  <2>1. \A b \in 0 .. 127 : Announced(b) = 1
    <3> TAKE b \in 0 .. 127
    <3>1. b \in 0 .. 127
      BY SMT
    <3> QED
      BY ONLY <3>1, AnnouncedOf, SMT
  <2>2. ASSUME NEW b \in 0 .. 127, NEW c, 1 > 1 => c \in {} PROVE Bounded(b, c)
    BY <2>1, <2>2, SMT DEF Bounded
  <2>3. 1 > 1 => {} \subseteq 128 .. 191
    BY SMT
  <2> QED
    BY ONLY <2>1, <2>2, <2>3 DEF RowOf
<1>2. RowOf(194 .. 223, 128 .. 191, 2)
  <2>1. \A b \in 194 .. 223 : Announced(b) = 2
    <3> TAKE b \in 194 .. 223
    <3>1. b \in 192 .. 223
      BY SMT
    <3> QED
      BY ONLY <3>1, AnnouncedOf, SMT
  <2>2. ASSUME NEW b \in 194 .. 223, NEW c, 2 > 1 => c \in 128 .. 191 PROVE Bounded(b, c)
    BY <2>1, <2>2, SMT DEF Bounded
  <2>3. 2 > 1 => 128 .. 191 \subseteq 128 .. 191
    BY SMT
  <2> QED
    BY ONLY <2>1, <2>2, <2>3 DEF RowOf
<1>3. RowOf({224}, 160 .. 191, 3)
  <2>1. \A b \in {224} : Announced(b) = 3
    <3> TAKE b \in {224}
    <3>1. b \in 224 .. 239
      BY SMT
    <3> QED
      BY ONLY <3>1, AnnouncedOf, SMT
  <2>2. ASSUME NEW b \in {224}, NEW c, 3 > 1 => c \in 160 .. 191 PROVE Bounded(b, c)
    BY <2>1, <2>2, SMT DEF Bounded
  <2>3. 3 > 1 => 160 .. 191 \subseteq 128 .. 191
    BY SMT
  <2> QED
    BY ONLY <2>1, <2>2, <2>3 DEF RowOf
<1>4. RowOf(225 .. 236, 128 .. 191, 3)
  <2>1. \A b \in 225 .. 236 : Announced(b) = 3
    <3> TAKE b \in 225 .. 236
    <3>1. b \in 224 .. 239
      BY SMT
    <3> QED
      BY ONLY <3>1, AnnouncedOf, SMT
  <2>2. ASSUME NEW b \in 225 .. 236, NEW c, 3 > 1 => c \in 128 .. 191 PROVE Bounded(b, c)
    BY <2>1, <2>2, SMT DEF Bounded
  <2>3. 3 > 1 => 128 .. 191 \subseteq 128 .. 191
    BY SMT
  <2> QED
    BY ONLY <2>1, <2>2, <2>3 DEF RowOf
<1>4a. RowOf({237}, 128 .. 159, 3)
  <2>1. \A b \in {237} : Announced(b) = 3
    <3> TAKE b \in {237}
    <3>1. b \in 224 .. 239
      BY SMT
    <3> QED
      BY ONLY <3>1, AnnouncedOf, SMT
  <2>2. ASSUME NEW b \in {237}, NEW c, 3 > 1 => c \in 128 .. 159 PROVE Bounded(b, c)
    BY <2>1, <2>2, SMT DEF Bounded
  <2>3. 3 > 1 => 128 .. 159 \subseteq 128 .. 191
    BY SMT
  <2> QED
    BY ONLY <2>1, <2>2, <2>3 DEF RowOf
<1>4b. RowOf({237}, 160 .. 191, 3)
  <2>1. \A b \in {237} : Announced(b) = 3
    <3> TAKE b \in {237}
    <3>1. b \in 224 .. 239
      BY SMT
    <3> QED
      BY ONLY <3>1, AnnouncedOf, SMT
  <2>2. ASSUME NEW b \in {237}, NEW c, 3 > 1 => c \in 160 .. 191 PROVE Bounded(b, c)
    BY <2>1, <2>2, SMT DEF Bounded
  <2>3. 3 > 1 => 160 .. 191 \subseteq 128 .. 191
    BY SMT
  <2> QED
    BY ONLY <2>1, <2>2, <2>3 DEF RowOf
<1>4c. RowOf(238 .. 239, 128 .. 191, 3)
  <2>1. \A b \in 238 .. 239 : Announced(b) = 3
    <3> TAKE b \in 238 .. 239
    <3>1. b \in 224 .. 239
      BY SMT
    <3> QED
      BY ONLY <3>1, AnnouncedOf, SMT
  <2>2. ASSUME NEW b \in 238 .. 239, NEW c, 3 > 1 => c \in 128 .. 191 PROVE Bounded(b, c)
    BY <2>1, <2>2, SMT DEF Bounded
  <2>3. 3 > 1 => 128 .. 191 \subseteq 128 .. 191
    BY SMT
  <2> QED
    BY ONLY <2>1, <2>2, <2>3 DEF RowOf
<1>5. RowOf({240}, 144 .. 191, 4)
  <2>1. \A b \in {240} : Announced(b) = 4
    <3> TAKE b \in {240}
    <3>1. b \in 240 .. 247
      BY SMT
    <3> QED
      BY ONLY <3>1, AnnouncedOf, SMT
  <2>2. ASSUME NEW b \in {240}, NEW c, 4 > 1 => c \in 144 .. 191 PROVE Bounded(b, c)
    BY <2>1, <2>2, SMT DEF Bounded
  <2>3. 4 > 1 => 144 .. 191 \subseteq 128 .. 191
    BY SMT
  <2> QED
    BY ONLY <2>1, <2>2, <2>3 DEF RowOf
<1>6. RowOf(241 .. 243, 128 .. 191, 4)
  <2>1. \A b \in 241 .. 243 : Announced(b) = 4
    <3> TAKE b \in 241 .. 243
    <3>1. b \in 240 .. 247
      BY SMT
    <3> QED
      BY ONLY <3>1, AnnouncedOf, SMT
  <2>2. ASSUME NEW b \in 241 .. 243, NEW c, 4 > 1 => c \in 128 .. 191 PROVE Bounded(b, c)
    BY <2>1, <2>2, SMT DEF Bounded
  <2>3. 4 > 1 => 128 .. 191 \subseteq 128 .. 191
    BY SMT
  <2> QED
    BY ONLY <2>1, <2>2, <2>3 DEF RowOf
<1>7. RowOf({244}, 128 .. 143, 4)
  <2>1. \A b \in {244} : Announced(b) = 4
    <3> TAKE b \in {244}
    <3>1. b \in 240 .. 247
      BY SMT
    <3> QED
      BY ONLY <3>1, AnnouncedOf, SMT
  <2>2. ASSUME NEW b \in {244}, NEW c, 4 > 1 => c \in 128 .. 143 PROVE Bounded(b, c)
    BY <2>1, <2>2, SMT DEF Bounded
  <2>3. 4 > 1 => 128 .. 143 \subseteq 128 .. 191
    BY SMT
  <2> QED
    BY ONLY <2>1, <2>2, <2>3 DEF RowOf
<1>8. \/ r = <<0 .. 127, {}, 1>>
      \/ r = <<194 .. 223, 128 .. 191, 2>>
      \/ r = <<{224}, 160 .. 191, 3>>
      \/ r = <<225 .. 236, 128 .. 191, 3>>
      \/ r = <<{237}, 128 .. 159, 3>>
      \/ r = <<{237}, 160 .. 191, 3>>
      \/ r = <<238 .. 239, 128 .. 191, 3>>
      \/ r = <<{240}, 144 .. 191, 4>>
      \/ r = <<241 .. 243, 128 .. 191, 4>>
      \/ r = <<{244}, 128 .. 143, 4>>
  BY DEF Rows, SurrogateRow, LooseRows
<1>9. ASSUME NEW R, NEW C, NEW n \in 1 .. 4, RowOf(R, C, n), r = <<R, C, n>>
      PROVE  r[3] \in 1 .. 4 /\ RowOf(r[1], r[2], r[3])
  BY <1>9
<1>10. 1 \in 1 .. 4 /\ 2 \in 1 .. 4 /\ 3 \in 1 .. 4 /\ 4 \in 1 .. 4
  BY SMT
<1>11. CASE r = <<0 .. 127, {}, 1>>
  BY ONLY <1>1, <1>9, <1>10, <1>11
<1>12. CASE r = <<194 .. 223, 128 .. 191, 2>>
  BY ONLY <1>2, <1>9, <1>10, <1>12
<1>13. CASE r = <<{224}, 160 .. 191, 3>>
  BY ONLY <1>3, <1>9, <1>10, <1>13
<1>14. CASE r = <<225 .. 236, 128 .. 191, 3>>
  BY ONLY <1>4, <1>9, <1>10, <1>14
<1>18. CASE r = <<{237}, 128 .. 159, 3>>
  BY ONLY <1>4a, <1>9, <1>10, <1>18
<1>19. CASE r = <<{237}, 160 .. 191, 3>>
  BY ONLY <1>4b, <1>9, <1>10, <1>19
<1>20. CASE r = <<238 .. 239, 128 .. 191, 3>>
  BY ONLY <1>4c, <1>9, <1>10, <1>20
<1>15. CASE r = <<{240}, 144 .. 191, 4>>
  BY ONLY <1>5, <1>9, <1>10, <1>15
<1>16. CASE r = <<241 .. 243, 128 .. 191, 4>>
  BY ONLY <1>6, <1>9, <1>10, <1>16
<1>17. CASE r = <<{244}, 128 .. 143, 4>>
  BY ONLY <1>7, <1>9, <1>10, <1>17
<1> QED
  BY ONLY <1>8, <1>11, <1>12, <1>13, <1>14, <1>15, <1>16, <1>17, <1>18, <1>19, <1>20

\* A sequence of the table is decoded.
LEMMA RowIsDecoded ==
  ASSUME NEW s, Len(s) \in Nat, \A k \in 1 .. Len(s) : s[k] \in 0 .. 255,
         NEW i \in 1 .. Len(s), NEW r \in LooseRows, InRow(s, i, r)
  PROVE  Decodes(s, i) /\ Announced(s[i]) = r[3]
<1> DEFINE b == s[i]
           c == s[i + 1]
           n == r[3]
<1>1. n \in 1 .. 4 /\ RowOf(r[1], r[2], n)
  BY RowsOf
<1>2. b \in r[1] /\ i + n - 1 <= Len(s) /\ (n > 1 => c \in r[2]) /\ \A k \in i + 2 .. i + n - 1 : s[k] \in 128 .. 191
  BY DEF InRow
<1> HIDE DEF n
<1>3. Announced(b) = n /\ Bounded(b, c) /\ (n > 1 => c \in 128 .. 191)
  BY ONLY <1>1, <1>2 DEF RowOf
<1>4. Complete(s, i)
  <2>1. ASSUME NEW k \in i + 1 .. i + n - 1 PROVE s[k] \div 64 = 2
    <3> DEFINE d == s[k]
    <3>1. d \in 128 .. 191
      <4>1. CASE k = i + 1
        <5>1. n > 1
          BY <1>1, <4>1, SMT
        <5> QED
          BY ONLY <1>3, <4>1, <5>1
      <4>2. CASE k # i + 1
        <5>1. k \in i + 2 .. i + n - 1
          BY <1>1, <4>2, SMT
        <5> QED
          BY <1>2, <5>1
      <4> QED
        BY <4>1, <4>2
    <3> HIDE DEF d
    <3>2. d \div 64 = 2
      BY ONLY <3>1, SMT
    <3> QED
      BY <3>2 DEF d
  <2>2. n > 0
    BY ONLY <1>1, SMT
  <2> HIDE DEF b
  <2>3. Announced(b) > 0 /\ i + Announced(b) - 1 <= Len(s) /\ \A k \in i + 1 .. i + Announced(b) - 1 : s[k] \div 64 = 2
    BY ONLY <1>2, <1>3, <2>1, <2>2
  <2> QED
    BY ONLY <2>3 DEF Complete, b
<1> QED
  BY <1>3, <1>4, DecodesIff DEF n

\* What is decoded is in the table.
LEMMA DecodedHasRow ==
  ASSUME NEW s, Len(s) \in Nat, \A k \in 1 .. Len(s) : s[k] \in 0 .. 255,
         NEW i \in 1 .. Len(s), Decodes(s, i)
  PROVE  \E r \in LooseRows : InRow(s, i, r) /\ r[3] = Announced(s[i])
<1> DEFINE b == s[i]
           c == s[i + 1]
           n == Announced(b)
<1>1. Complete(s, i)
  BY SMT DEF Decodes, Complete
<1>2. Bounded(b, c)
  BY <1>1, DecodesIff
<1>3. n > 0 /\ i + n - 1 <= Len(s) /\ \A k \in i + 1 .. i + n - 1 : s[k] \div 64 = 2
  BY <1>1 DEF Complete
<1>4. Lead(b)
  <2>1. b \in 0 .. 255
    OBVIOUS
  <2> QED
    BY ONLY <2>1, Leads
<1>5. n \in 1 .. 4 /\ (n = 1 => b \in 0 .. 127)
  <2>1. n \in 0 .. 4 /\ (n = 1 => b \in 0 .. 127)
    BY ONLY <1>4 DEF Lead
  <2> HIDE DEF n
  <2> QED
    BY <1>3, <2>1, SMT
<1>6. ASSUME n = 2 PROVE b \in 194 .. 223
  <2>1. b \in 192 .. 223
    BY ONLY <1>4, <1>6 DEF Lead
  <2>2. b >= 194
    BY ONLY <1>2, <1>6 DEF Bounded
  <2> HIDE DEF b
  <2> QED
    BY ONLY <2>1, <2>2, SMT
<1>7. ASSUME n = 3 PROVE b \in 225 .. 239 \/ (b = 224 /\ c >= 160)
  <2>1. b \in 224 .. 239
    BY ONLY <1>4, <1>7 DEF Lead
  <2>2. b > 224 \/ c >= 160
    BY ONLY <1>2, <1>7 DEF Bounded
  <2>3. b > 224 => b \in 225 .. 239
    <3> HIDE DEF b
    <3> QED
      BY ONLY <2>1, SMT
  <2>4. ~ (b > 224) => b = 224
    <3> HIDE DEF b
    <3> QED
      BY ONLY <2>1, SMT
  <2> QED
    BY ONLY <2>2, <2>3, <2>4
<1>8. ASSUME n = 4 PROVE b \in 241 .. 243 \/ (b = 240 /\ c >= 144) \/ (b = 244 /\ c <= 143)
  <2>1. b \in 240 .. 247
    BY ONLY <1>4, <1>8 DEF Lead
  <2>2. (b > 240 \/ c >= 144) /\ (b < 244 \/ (b = 244 /\ c <= 143))
    BY ONLY <1>2, <1>8 DEF Bounded
  <2>3. b > 240 /\ b < 244 => b \in 241 .. 243
    <3> HIDE DEF b
    <3> QED
      BY ONLY <2>1, SMT
  <2>4. ~ (b > 240) => b = 240
    <3> HIDE DEF b
    <3> QED
      BY ONLY <2>1, SMT
  <2> QED
    BY ONLY <2>2, <2>3, <2>4
<1>9. \A k \in i + 1 .. i + n - 1 : s[k] \in 128 .. 191
  <2> TAKE k \in i + 1 .. i + n - 1
  <2> DEFINE d == s[k]
  <2>1. d \in 0 .. 255 /\ d \div 64 = 2
    <3> HIDE DEF n
    <3>1. k \in 1 .. Len(s)
      BY <1>3, <1>5
    <3> QED
      BY <1>3, <3>1
  <2> HIDE DEF d
  <2>2. Lead(d)
    BY ONLY <2>1, Leads
  <2>3. d \in 128 .. 191
    BY ONLY <2>1, <2>2 DEF Lead
  <2> QED
    BY <2>3 DEF d
<1> HIDE DEF n
<1>10. (n > 1 => c \in 128 .. 191) /\ \A k \in i + 2 .. i + n - 1 : s[k] \in 128 .. 191
  <2>1. n > 1 => i + 1 \in i + 1 .. i + n - 1
    BY <1>5
  <2>2. \A k \in i + 2 .. i + n - 1 : k \in i + 1 .. i + n - 1
    BY <1>5
  <2> QED
    BY <1>9, <2>1, <2>2
<1>11. ASSUME NEW R, NEW C, <<R, C, n>> \in LooseRows, b \in R, n > 1 => c \in C
       PROVE  \E r \in LooseRows : InRow(s, i, r) /\ r[3] = n
  <2> DEFINE r == <<R, C, n>>
  <2>1. r[1] = R /\ r[2] = C /\ r[3] = n /\ r \in LooseRows
    BY <1>11
  <2> HIDE DEF r
  <2>2. InRow(s, i, r)
    BY <1>3, <1>10, <1>11, <2>1 DEF InRow
  <2> QED
    BY <2>1, <2>2
<1>12. \E R, C : <<R, C, n>> \in LooseRows /\ b \in R /\ (n > 1 => c \in C)
  <2> HIDE DEF b, c
  <2>1. ASSUME n = 1 PROVE \E R, C : <<R, C, n>> \in LooseRows /\ b \in R /\ (n > 1 => c \in C)
    <3>1. <<0 .. 127, {}, 1>> \in LooseRows
      BY DEF Rows, LooseRows
    <3>2. ~ (n > 1) /\ b \in 0 .. 127
      BY <1>5, <2>1, SMT
    <3> QED
      BY ONLY <2>1, <3>1, <3>2
  <2>2. ASSUME n > 1 PROVE c \in 128 .. 191
    BY ONLY <1>10, <2>2
  <2>3. ASSUME n = 2 PROVE \E R, C : <<R, C, n>> \in LooseRows /\ b \in R /\ (n > 1 => c \in C)
    <3>1. <<194 .. 223, 128 .. 191, n>> \in LooseRows
      BY <2>3 DEF Rows, LooseRows
    <3>2. b \in 194 .. 223
      BY ONLY <1>6, <2>3
    <3> QED
      BY ONLY <2>2, <3>1, <3>2, Zenon
  <2>4. ASSUME n = 3 PROVE \E R, C : <<R, C, n>> \in LooseRows /\ b \in R /\ (n > 1 => c \in C)
    <3>1. /\ <<{224}, 160 .. 191, 3>> \in LooseRows /\ <<225 .. 236, 128 .. 191, 3>> \in LooseRows
          /\ <<{237}, 128 .. 159, 3>> \in LooseRows /\ <<{237}, 160 .. 191, 3>> \in LooseRows
          /\ <<238 .. 239, 128 .. 191, 3>> \in LooseRows
      BY DEF Rows, SurrogateRow, LooseRows
    <3>2. n > 1
      BY ONLY <2>4, SMT
    <3>3. c \in 128 .. 191
      BY ONLY <2>2, <3>2
    <3>4. c >= 160 => c \in 160 .. 191
      BY ONLY <3>3, SMT
    <3>5. b = 224 => b \in {224}
      OBVIOUS
    <3>6. ASSUME b = 224, c >= 160 PROVE \E R, C : <<R, C, n>> \in LooseRows /\ b \in R /\ (n > 1 => c \in C)
      <4>1. <<{224}, 160 .. 191, n>> \in LooseRows
        BY ONLY <2>4, <3>1
      <4>2. b \in {224} /\ c \in 160 .. 191
        BY ONLY <3>4, <3>5, <3>6
      <4> QED
        BY ONLY <4>1, <4>2, Zenon
    <3>7. ASSUME b \in 225 .. 239 PROVE \E R, C : <<R, C, n>> \in LooseRows /\ b \in R /\ (n > 1 => c \in C)
      <4>1. b \in 225 .. 236 \/ b \in {237} \/ b \in 238 .. 239
        BY ONLY <3>7, SMT
      <4>2. c \in 128 .. 159 \/ c \in 160 .. 191
        BY ONLY <3>3, SMT
      <4>3. CASE b \in 225 .. 236
        <5>1. <<225 .. 236, 128 .. 191, n>> \in LooseRows
          BY ONLY <2>4, <3>1
        <5> QED
          BY ONLY <3>3, <4>3, <5>1, Zenon
      <4>4. CASE b \in {237} /\ c \in 128 .. 159
        <5>1. <<{237}, 128 .. 159, n>> \in LooseRows
          BY ONLY <2>4, <3>1
        <5> QED
          BY ONLY <4>4, <5>1, Zenon
      <4>5. CASE b \in {237} /\ c \in 160 .. 191
        <5>1. <<{237}, 160 .. 191, n>> \in LooseRows
          BY ONLY <2>4, <3>1
        <5> QED
          BY ONLY <4>5, <5>1, Zenon
      <4>6. CASE b \in 238 .. 239
        <5>1. <<238 .. 239, 128 .. 191, n>> \in LooseRows
          BY ONLY <2>4, <3>1
        <5> QED
          BY ONLY <3>3, <4>6, <5>1, Zenon
      <4> QED
        BY ONLY <4>1, <4>2, <4>3, <4>4, <4>5, <4>6
    <3> QED
      BY ONLY <1>7, <2>4, <3>6, <3>7
  <2>5. ASSUME n = 4 PROVE \E R, C : <<R, C, n>> \in LooseRows /\ b \in R /\ (n > 1 => c \in C)
    <3>1. /\ <<{240}, 144 .. 191, 4>> \in LooseRows /\ <<241 .. 243, 128 .. 191, 4>> \in LooseRows
          /\ <<{244}, 128 .. 143, 4>> \in LooseRows
      BY DEF Rows, LooseRows
    <3>2. n > 1
      BY ONLY <2>5, SMT
    <3>3. c \in 128 .. 191
      BY ONLY <2>2, <3>2
    <3>4. (c >= 144 => c \in 144 .. 191) /\ (c <= 143 => c \in 128 .. 143)
      BY ONLY <3>3, SMT
    <3>5. (b = 240 => b \in {240}) /\ (b = 244 => b \in {244})
      OBVIOUS
    <3>6. ASSUME b = 240, c >= 144 PROVE \E R, C : <<R, C, n>> \in LooseRows /\ b \in R /\ (n > 1 => c \in C)
      <4>1. <<{240}, 144 .. 191, n>> \in LooseRows
        BY ONLY <2>5, <3>1
      <4>2. b \in {240} /\ c \in 144 .. 191
        BY ONLY <3>4, <3>5, <3>6
      <4> QED
        BY ONLY <4>1, <4>2, Zenon
    <3>7. ASSUME b \in 241 .. 243 PROVE \E R, C : <<R, C, n>> \in LooseRows /\ b \in R /\ (n > 1 => c \in C)
      <4>1. <<241 .. 243, 128 .. 191, n>> \in LooseRows
        BY ONLY <2>5, <3>1
      <4> QED
        BY ONLY <3>3, <3>7, <4>1, Zenon
    <3>8. ASSUME b = 244, c <= 143 PROVE \E R, C : <<R, C, n>> \in LooseRows /\ b \in R /\ (n > 1 => c \in C)
      <4>1. <<{244}, 128 .. 143, n>> \in LooseRows
        BY ONLY <2>5, <3>1
      <4>2. b \in {244} /\ c \in 128 .. 143
        BY ONLY <3>4, <3>5, <3>8
      <4> QED
        BY ONLY <4>1, <4>2, Zenon
    <3> QED
      BY ONLY <1>8, <2>5, <3>6, <3>7, <3>8
  <2>6. n = 1 \/ n = 2 \/ n = 3 \/ n = 4
    BY ONLY <1>5, SMT
  <2> QED
    BY ONLY <2>1, <2>3, <2>4, <2>5, <2>6
<1> QED
  BY <1>11, <1>12 DEF n

-----------------------------------------------------------------------------
(* ten_utf8_validate and the table                                         *)

\* What holds at the end, and at a place when it holds at all later ones.
LEMMA Downward ==
  ASSUME NEW n \in Nat, NEW S, n + 1 \in S,
         \A i \in 1 .. n : (\A j \in i + 1 .. n + 1 : j \in S) => i \in S
  PROVE  1 .. n + 1 \subseteq S
<1> DEFINE K == {k \in Nat : \A j \in 1 .. n + 1 : n + 1 - k <= j => j \in S}
<1>1. 0 \in K
  <2>1. ASSUME NEW j \in 1 .. n + 1, n + 1 - 0 <= j PROVE j \in S
    <3>1. j = n + 1
      BY <2>1, SMT
    <3> QED
      BY <3>1
  <2> QED
    BY <2>1
<1>2. ASSUME NEW k \in Nat \ {0}, k - 1 \in K PROVE k \in K
  <2>1. ASSUME NEW j \in 1 .. n + 1, n + 1 - k <= j PROVE j \in S
    <3>1. \A m \in 1 .. n + 1 : n + 1 - (k - 1) <= m => m \in S
      BY <1>2
    <3>2. CASE j = n + 1
      BY <3>2
    <3>3. CASE j # n + 1
      <4>1. j \in 1 .. n
        BY <3>3
      <4>2. ASSUME NEW m \in j + 1 .. n + 1 PROVE m \in S
        <5>1. m \in 1 .. n + 1 /\ n + 1 - (k - 1) <= m
          BY <2>1, <4>1
        <5> QED
          BY <3>1, <5>1
      <4> QED
        BY <4>1, <4>2
    <3> QED
      BY <3>2, <3>3
  <2> QED
    BY <1>2, <2>1
<1> HIDE DEF K
<1>3. Nat \subseteq K
  BY <1>1, <1>2, FromBelow
<1>4. n \in K
  BY <1>3
<1>5. ASSUME NEW j \in 1 .. n + 1 PROVE j \in S
  <2>1. n + 1 - n <= j
    BY SMT
  <2> QED
    BY <1>4, <2>1 DEF K
<1> QED
  BY <1>5

WellFrom(s, rows) ==
  CHOOSE well : well = [i \in 1 .. Len(s) + 1 |->
    \/ i > Len(s)
    \/ \E r \in rows :
         /\ s[i] \in r[1] /\ i + r[3] - 1 <= Len(s)
         /\ r[3] > 1 => s[i + 1] \in r[2]
         /\ \A k \in i + 2 .. i + r[3] - 1 : s[k] \in 128 .. 191
         /\ well[i + r[3]]]

\* A sequence of a table stands at a place.
InTable(s, i, rows) == \E r \in rows : InRow(s, i, r)

\* A table takes the steps of the decoder, at the places where it has a row.
LEMMA WellLoop ==
  ASSUME NEW s, Len(s) \in Nat, \A k \in 1 .. Len(s) : s[k] \in 0 .. 255,
         NEW rows, rows \subseteq LooseRows
  PROVE  /\ WellFormed(s, rows) <=> WellFrom(s, rows)[1]
         /\ \A i \in 1 .. Len(s) + 1 :
              WellFrom(s, rows)[i] <=> (i > Len(s) \/ (InTable(s, i, rows) /\ WellFrom(s, rows)[i + Announced(s[i])]))
<1> DEFINE n == Len(s)
           u(f, i) == i > n \/ (InTable(s, i, rows) /\ f[i + Announced(s[i])])
           w(f, i) == \/ i > n
                      \/ \E r \in rows :
                           /\ s[i] \in r[1] /\ i + r[3] - 1 <= n
                           /\ r[3] > 1 => s[i + 1] \in r[2]
                           /\ \A k \in i + 2 .. i + r[3] - 1 : s[k] \in 128 .. 191
                           /\ f[i + r[3]]
           v(f, i) == i > n \/ \E r \in rows : InRow(s, i, r) /\ f[i + r[3]]
           Loop(f) == f = [i \in 1 .. n + 1 |-> w(f, i)]
           g == WellFrom(s, rows)
           go == {i \in 1 .. n : InTable(s, i, rows)}
           next == [i \in 1 .. n |-> i + Announced(s[i])]
<1>1. \A i \in 1 .. n : i \in go => next[i] \in i + 1 .. n + 1
  <2> SUFFICES ASSUME NEW i \in 1 .. n, i \in go PROVE i + Announced(s[i]) \in i + 1 .. n + 1
    OBVIOUS
  <2>1. PICK r \in rows : InRow(s, i, r)
    BY DEF InTable
  <2>2. Decodes(s, i)
    BY <2>1, RowIsDecoded
  <2> QED
    BY <2>2, DecodesOn
<1>2. \A i \in 1 .. n + 1 : (i \in go <=> ~ (i > n) /\ InTable(s, i, rows)) /\ (~ (i > n) => next[i] = i + Announced(s[i]))
  OBVIOUS
<1>3. g = CHOOSE f : Loop(f)
  BY DEF WellFrom
<1>4. WellFormed(s, rows) = g[1]
  BY DEF WellFormed, WellFrom
<1>5. ASSUME NEW f, NEW i \in 1 .. n + 1 PROVE w(f, i) <=> u(f, i)
  <2>1. w(f, i) <=> v(f, i)
    BY Zenon DEF InRow
  <2>2. CASE i > n
    BY <2>2
  <2>3. CASE ~ (i > n)
    <3>1. i \in 1 .. n
      BY <2>3
    <3>2. ASSUME NEW r \in rows, InRow(s, i, r) PROVE Announced(s[i]) = r[3]
      BY <3>1, <3>2, RowIsDecoded
    <3>3. v(f, i) <=> u(f, i)
      BY ONLY <2>3, <3>2 DEF InTable
    <3> HIDE DEF u, v, w
    <3> QED
      BY <2>1, <3>3
  <2> QED
    BY <2>2, <2>3
<1>6. \E f : Loop(f)
  <2> HIDE DEF go, next
  <2>1. PICK f \in [1 .. n + 1 -> BOOLEAN] :
          \A i \in 1 .. n + 1 : f[i] <=> (i > n \/ (i \in go /\ f[next[i]]))
    BY <1>1, TruthExists
  <2>2. \A i \in 1 .. n + 1 : f[i] <=> u(f, i)
    BY <1>2, <2>1
  <2>3. \A i \in 1 .. n + 1 : w(f, i) \in BOOLEAN
    OBVIOUS
  <2>4. \A i \in 1 .. n + 1 : f[i] = w(f, i)
    <3> HIDE DEF u, w
    <3> TAKE i \in 1 .. n + 1
    <3>1. f[i] \in BOOLEAN /\ w(f, i) \in BOOLEAN /\ (f[i] <=> w(f, i))
      BY <1>5, <2>1, <2>2, <2>3
    <3> QED
      BY <3>1
  <2> HIDE DEF u, w
  <2>5. f = [i \in 1 .. n + 1 |-> f[i]]
    OBVIOUS
  <2> QED
    BY <2>4, <2>5
<1> HIDE DEF Loop, g
<1>7. Loop(g)
  BY <1>3, <1>6
<1>8. \A i \in 1 .. n + 1 : g[i] = w(g, i)
  <2> DEFINE h(i) == w(g, i)
  <2>1. g = [i \in 1 .. n + 1 |-> h(i)]
    BY <1>7 DEF Loop
  <2> HIDE DEF h
  <2>2. \A i \in 1 .. n + 1 : g[i] = h(i)
    BY <2>1
  <2> QED
    BY <2>2 DEF h
<1>9. \A i \in 1 .. n + 1 : g[i] <=> u(g, i)
  <2> HIDE DEF u, w
  <2> QED
    BY <1>5, <1>8
<1> QED
  BY <1>4, <1>9 DEF g

\* The validator takes every text of the standard's table, and the texts it
\* takes are those of the table with the surrogates.
LEMMA ValidIsWellFormed ==
  ASSUME NEW s \in Seq(Bytes8)
  PROVE  /\ WellFormed(s, Rows) => Utf8Valid(s)
         /\ Utf8Valid(s) => WellFormed(s, LooseRows)
<1> DEFINE n == Len(s)
           valid == ValidFrom(s)
           strict == WellFrom(s, Rows)
           loose == WellFrom(s, LooseRows)
           S == {i \in 1 .. n + 1 : (strict[i] => valid[i]) /\ (valid[i] => loose[i])}
<1>1. n \in Nat /\ \A k \in 1 .. n : s[k] \in 0 .. 255
  BY LenProperties, ElementOfSeq DEF Bytes8
<1>2. /\ Utf8Valid(s) <=> valid[1]
      /\ \A i \in 1 .. n + 1 : valid[i] <=> (i > n \/ (Decodes(s, i) /\ valid[i + Announced(s[i])]))
  BY <1>1, ValidLoop
<1>3. /\ WellFormed(s, Rows) <=> strict[1]
      /\ \A i \in 1 .. n + 1 :
           strict[i] <=> (i > n \/ (InTable(s, i, Rows) /\ strict[i + Announced(s[i])]))
  <2>1. Rows \subseteq LooseRows
    BY DEF LooseRows
  <2> QED
    BY <1>1, <2>1, WellLoop
<1>4. /\ WellFormed(s, LooseRows) <=> loose[1]
      /\ \A i \in 1 .. n + 1 :
           loose[i] <=> (i > n \/ (InTable(s, i, LooseRows) /\ loose[i + Announced(s[i])]))
  BY <1>1, WellLoop
<1>5. ASSUME NEW i \in 1 .. n
      PROVE  (InTable(s, i, Rows) => Decodes(s, i)) /\ (Decodes(s, i) => InTable(s, i, LooseRows))
  <2>1. ASSUME NEW r \in Rows, InRow(s, i, r) PROVE Decodes(s, i)
    <3>1. r \in LooseRows
      BY DEF LooseRows
    <3> QED
      BY <1>1, <2>1, <3>1, RowIsDecoded
  <2>2. ASSUME Decodes(s, i) PROVE \E r \in LooseRows : InRow(s, i, r)
    BY <1>1, <2>2, DecodedHasRow
  <2> QED
    BY ONLY <2>1, <2>2 DEF InTable
<1> HIDE DEF n, valid, strict, loose
<1>6. n + 1 \in S
  BY <1>1, <1>2, <1>4
<1>7. ASSUME NEW i \in 1 .. n, \A j \in i + 1 .. n + 1 : j \in S PROVE i \in S
  <2>1. i \in 1 .. n + 1 /\ ~ (i > n)
    BY <1>1
  <2>2. CASE Decodes(s, i)
    <3>1. i + Announced(s[i]) \in i + 1 .. n + 1
      BY <1>1, <2>2, DecodesOn DEF n
    <3>2. i + Announced(s[i]) \in S
      BY <1>7, <3>1
    <3> QED
      BY <1>2, <1>3, <1>4, <1>5, <2>1, <2>2, <3>2
  <2>3. CASE ~ Decodes(s, i)
    <3>1. ~ valid[i] /\ ~ strict[i]
      BY <1>2, <1>3, <1>5, <2>1, <2>3
    <3> QED
      BY <2>1, <3>1
  <2> QED
    BY <2>2, <2>3
<1> HIDE DEF S
<1>8. 1 .. n + 1 \subseteq S
  BY <1>1, <1>6, <1>7, Downward
<1>9. 1 \in 1 .. n + 1
  BY <1>1
<1> QED
  BY <1>2, <1>3, <1>4, <1>8, <1>9 DEF S

-----------------------------------------------------------------------------
(* The items of a literal                                                  *)

\* The letters after a backslash, and what they mean.
LEMMA Meanings ==
  /\ DOMAIN Meaning = {34, 92, 47, 98, 102, 110, 114, 116}
  /\ Meaning[34] = 34 /\ Meaning[92] = 92 /\ Meaning[47] = 47 /\ Meaning[98] = 8
  /\ Meaning[102] = 12 /\ Meaning[110] = 10 /\ Meaning[114] = 13 /\ Meaning[116] = 9
BY SMT DEF Meaning, Quote, Backslash

\* No escape means NUL.
LEMMA MeaningTyped == \A c \in DOMAIN Meaning : Meaning[c] \in 1 .. 127
BY Meanings, SMT

\* An item in a C string.
ItemOf(x) ==
  \/ x.form = "plain" /\ x.value \in 1 .. 255
  \/ x.form = "letter" /\ x.value \in 1 .. 255
  \/ x.form = "unicode" /\ x.value \in Units16

\* The items of a literal, by form.
LEMMA ItemIs == ASSUME NEW x \in Items PROVE ItemOf(x)
<1>1. CASE x \in {Plain(c) : c \in 1 .. 255 \ {Quote, Backslash}}
  <2>1. PICK c \in 1 .. 255 : x = [form |-> "plain", value |-> c]
    BY <1>1 DEF Plain
  <2>2. x.form = "plain" /\ x.value = c
    BY <2>1
  <2> QED
    BY ONLY <2>2, c \in 1 .. 255 DEF ItemOf
<1>2. CASE x \in {Letter(c) : c \in 1 .. 255}
  <2>1. PICK c \in 1 .. 255 : x = [form |-> "letter", value |-> c]
    BY <1>2 DEF Letter
  <2>2. x.form = "letter" /\ x.value = c
    BY <2>1
  <2> QED
    BY ONLY <2>2, c \in 1 .. 255 DEF ItemOf
<1>3. CodeUnits \cup {0} \subseteq Units16
  BY SMT DEF CodeUnits, Units16
<1>4. CASE x \in {Unicode(u) : u \in CodeUnits \cup {0}}
  <2>1. PICK u \in CodeUnits \cup {0} : x = [form |-> "unicode", value |-> u]
    BY <1>4 DEF Unicode
  <2>2. x.form = "unicode" /\ x.value = u
    BY <2>1
  <2>3. u \in Units16
    BY <1>3
  <2> QED
    BY ONLY <2>2, <2>3 DEF ItemOf
<1> QED
  BY <1>1, <1>2, <1>4 DEF Items

\* How many items the parser takes at once, and whether it does.
Takes(t, i) == IF PairAt(t, i) THEN 2 ELSE 1
Taken(t, i) ==
  \/ t[i].form = "plain"
  \/ t[i].form = "letter" /\ t[i].value \in DOMAIN Meaning
  \/ PairAt(t, i)
  \/ t[i].form = "unicode" /\ ~High(t[i].value)

GoesOn(t, f, i) ==
  \/ i > Len(t)
  \/ t[i].form = "plain" /\ f[i + 1]
  \/ t[i].form = "letter" /\ t[i].value \in DOMAIN Meaning /\ f[i + 1]
  \/ PairAt(t, i) /\ f[i + 2]
  \/ IsUnit(t, i) /\ ~High(t[i].value) /\ f[i + 1]

\* The parser goes on after what it takes.
LEMMA TakenOn ==
  ASSUME NEW t, Len(t) \in Nat, NEW i \in 1 .. Len(t)
  PROVE  /\ i + Takes(t, i) \in i + 1 .. Len(t) + 1
         /\ \A f : GoesOn(t, f, i) <=> Taken(t, i) /\ f[i + Takes(t, i)]
<1>1. i <= Len(t) /\ ~ (i > Len(t))
  BY SMT
<1>2. CASE PairAt(t, i)
  <2>1. t[i].form = "unicode" /\ High(t[i].value) /\ i + 1 <= Len(t)
    BY <1>2 DEF PairAt, IsUnit
  <2>2. Takes(t, i) = 2
    BY <1>2 DEF Takes
  <2>3. i + 2 \in i + 1 .. Len(t) + 1
    BY ONLY Len(t) \in Nat, i \in 1 .. Len(t), <2>1, SMT
  <2>4. "plain" # "unicode" /\ "letter" # "unicode"
    OBVIOUS
  <2>5. ASSUME NEW f PROVE GoesOn(t, f, i) <=> Taken(t, i) /\ f[i + 2]
    BY ONLY <1>1, <1>2, <2>1, <2>4 DEF GoesOn, Taken
  <2> QED
    BY ONLY <2>2, <2>3, <2>5
<1>3. CASE ~PairAt(t, i)
  <2>1. Takes(t, i) = 1
    BY <1>3 DEF Takes
  <2>2. i + 1 \in i + 1 .. Len(t) + 1
    BY ONLY Len(t) \in Nat, i \in 1 .. Len(t), SMT
  <2>3. ASSUME NEW f PROVE GoesOn(t, f, i) <=> Taken(t, i) /\ f[i + 1]
    BY ONLY <1>1, <1>3 DEF GoesOn, Taken, IsUnit
  <2> QED
    BY ONLY <2>1, <2>2, <2>3
<1> QED
  BY <1>2, <1>3

GoodItems(t) ==
  CHOOSE good : good = [i \in 1 .. Len(t) + 1 |->
                          \/ i > Len(t)
                          \/ t[i].form = "plain" /\ good[i + 1]
                          \/ t[i].form = "letter" /\ t[i].value \in DOMAIN Meaning /\ good[i + 1]
                          \/ PairAt(t, i) /\ good[i + 2]
                          \/ IsUnit(t, i) /\ ~High(t[i].value) /\ good[i + 1]]

\* What the loop finds of the items from each place on.
ItemsTaken(t) ==
  /\ LiteralAccepts(t) <=> GoodItems(t)[1]
  /\ GoodItems(t)[Len(t) + 1]
  /\ \A i \in 1 .. Len(t) : GoodItems(t)[i] <=> Taken(t, i) /\ GoodItems(t)[i + Takes(t, i)]

\* The test of a literal, step by step.
LEMMA GoodItemsLoop == ASSUME NEW t, Len(t) \in Nat PROVE ItemsTaken(t)
<1> DEFINE n == Len(t)
           w(f, i) == \/ i > n
                      \/ t[i].form = "plain" /\ f[i + 1]
                      \/ t[i].form = "letter" /\ t[i].value \in DOMAIN Meaning /\ f[i + 1]
                      \/ PairAt(t, i) /\ f[i + 2]
                      \/ IsUnit(t, i) /\ ~High(t[i].value) /\ f[i + 1]
           Loop(f) == f = [i \in 1 .. n + 1 |-> w(f, i)]
           g == GoodItems(t)
           go == {i \in 1 .. n : Taken(t, i)}
           next == [i \in 1 .. n |-> i + Takes(t, i)]
<1>1. \A i \in 1 .. n : i \in go => next[i] \in i + 1 .. n + 1
  BY TakenOn
<1>2. \A i \in 1 .. n : (i \in go <=> Taken(t, i)) /\ next[i] = i + Takes(t, i)
  OBVIOUS
<1>3. g = CHOOSE f : Loop(f)
  BY Zenon DEF GoodItems
<1>4. LiteralAccepts(t) = g[1]
  BY Zenon DEF LiteralAccepts, GoodItems
<1>5. ASSUME NEW f PROVE /\ \A i \in 1 .. n : w(f, i) <=> Taken(t, i) /\ f[i + Takes(t, i)]
                         /\ \A i \in 1 .. n + 1 : i > n => w(f, i)
  <2>1. ASSUME NEW i \in 1 .. n PROVE w(f, i) <=> Taken(t, i) /\ f[i + Takes(t, i)]
    <3>1. w(f, i) <=> GoesOn(t, f, i)
      BY Zenon DEF GoesOn
    <3> HIDE DEF w
    <3> QED
      BY <3>1, TakenOn
  <2> QED
    BY <2>1
<1>6. \E f : Loop(f)
  <2> HIDE DEF go, next
  <2>1. PICK f \in [1 .. n + 1 -> BOOLEAN] :
          \A i \in 1 .. n + 1 : f[i] <=> (i > n \/ (i \in go /\ f[next[i]]))
    BY <1>1, TruthExists
  <2>2. \A i \in 1 .. n + 1 : f[i] <=> w(f, i)
    <3> HIDE DEF w
    <3> TAKE i \in 1 .. n + 1
    <3>1. CASE i > n
      BY <1>5, <2>1, <3>1
    <3>2. CASE ~ (i > n)
      <4>1. i \in 1 .. n
        BY <3>2
      <4>2. w(f, i) <=> Taken(t, i) /\ f[i + Takes(t, i)]
        BY <1>5, <4>1
      <4>3. f[i] <=> i \in go /\ f[next[i]]
        BY <2>1, <3>2
      <4> QED
        BY ONLY <1>2, <4>1, <4>2, <4>3
    <3> QED
      BY <3>1, <3>2
  <2>3. \A i \in 1 .. n + 1 : w(f, i) \in BOOLEAN
    BY SMT
  <2>4. \A i \in 1 .. n + 1 : f[i] = w(f, i)
    <3> HIDE DEF w
    <3> TAKE i \in 1 .. n + 1
    <3>1. f[i] \in BOOLEAN /\ w(f, i) \in BOOLEAN /\ (f[i] <=> w(f, i))
      BY <2>1, <2>2, <2>3
    <3> QED
      BY <3>1
  <2> HIDE DEF w
  <2>5. f = [i \in 1 .. n + 1 |-> f[i]]
    OBVIOUS
  <2> QED
    BY <2>4, <2>5
<1> HIDE DEF Loop, g
<1>7. Loop(g)
  BY <1>3, <1>6
<1>8. \A i \in 1 .. n + 1 : g[i] = w(g, i)
  <2> DEFINE h(i) == w(g, i)
  <2>1. g = [i \in 1 .. n + 1 |-> h(i)]
    BY <1>7 DEF Loop
  <2> HIDE DEF h
  <2>2. \A i \in 1 .. n + 1 : g[i] = h(i)
    BY <2>1
  <2> QED
    BY <2>2 DEF h
<1> HIDE DEF w
<1>9. g[n + 1]
  <2>1. n + 1 \in 1 .. n + 1 /\ n + 1 > n
    BY SMT
  <2> QED
    BY <1>5, <1>8, <2>1
<1>10. \A i \in 1 .. n : g[i] <=> Taken(t, i) /\ g[i + Takes(t, i)]
  <2> TAKE i \in 1 .. n
  <2>1. i \in 1 .. n + 1
    BY SMT
  <2>2. g[i] = w(g, i)
    BY <1>8, <2>1
  <2> QED
    BY <1>5, <2>2
<1> QED
  BY <1>4, <1>9, <1>10 DEF g, ItemsTaken

-----------------------------------------------------------------------------
(* What the parser makes of a literal                                      *)

\* A pair of surrogates stands for a code point.
LEMMA PairPoint ==
  ASSUME NEW a, NEW b, High(a), Low(b)
  PROVE  BothUnits(a, b) \in Points /\ Utf16Points(<<a, b>>)[1] = BothUnits(a, b)
<1>1. BothUnits(a, b) \in Points
  BY SMT DEF BothUnits, High, Low, Points
<1> DEFINE u == <<a, b>>
<1>2. Len(u) = 2 /\ u[1] = a /\ u[2] = b
  OBVIOUS
<1> HIDE DEF u
<1>3. Len(u) \in Nat /\ 1 \in 1 .. Len(u) + 1 /\ 3 \in 1 .. Len(u) + 1 /\ 1 < Len(u) /\ 3 > Len(u)
  BY <1>2, SMT
<1>4. UnitsRead(u)
  BY <1>3, UnitsLoop
<1>5. Utf16Points(u) = <<BothUnits(a, b)>> \o UnitsFrom(u)[1 + 2]
  BY <1>2, <1>3, <1>4 DEF UnitsRead
<1>6. UnitsFrom(u)[3] = <<>>
  BY <1>3, <1>4 DEF UnitsRead
<1>7. Utf16Points(u) = <<BothUnits(a, b)>> \o <<>>
  <2>1. 1 + 2 = 3
    OBVIOUS
  <2> QED
    BY ONLY <1>5, <1>6, <2>1
<1> DEFINE c == BothUnits(a, b)
<1>8. Utf16Points(u)[1] = c
  <2> HIDE DEF c
  <2>1. Utf16Points(u) = <<c>> \o <<>>
    BY <1>7 DEF c
  <2>2. (<<c>> \o <<>>)[1] = c
    OBVIOUS
  <2> QED
    BY <2>1, <2>2
<1> QED
  BY ONLY <1>1, <1>8 DEF u, c

\* A sequence with all its elements in a set.
LEMMA ElementsMakeSeq ==
  ASSUME NEW S, NEW T, NEW q \in Seq(T), \A k \in 1 .. Len(q) : q[k] \in S
  PROVE  q \in Seq(S)
<1>1. Len(q) \in Nat /\ q = [k \in 1 .. Len(q) |-> q[k]]
  BY LenProperties
<1>2. [k \in 1 .. Len(q) |-> q[k]] \in Seq(S)
  BY <1>1, IsASeq
<1> QED
  BY <1>1, <1>2

\* A code point is appended as its bytes, but for a NUL.
LEMMA AppendedTyped ==
  ASSUME NEW cp \in Points
  PROVE  /\ AppendedBytes(cp) \in Seq(1 .. 255)
         /\ cp = 0 => AppendedBytes(cp) = <<>>
         /\ cp # 0 => AppendedBytes(cp) = Octets(cp)
<1>1. CASE cp = 0
  <2>1. AppendedBytes(cp) = <<>>
    BY <1>1 DEF AppendedBytes
  <2> QED
    BY <1>1, <2>1, EmptySeq
<1>2. CASE cp # 0
  <2> DEFINE o == Octets(cp)
  <2>1. AppendedBytes(cp) = o
    BY <1>2 DEF AppendedBytes
  <2>2. o \in Seq(0 .. 255) /\ \A k \in 1 .. Len(o) : o[k] = 0 => cp = 0
    BY OctetsFacts, PointIs, SMT
  <2> HIDE DEF o
  <2>3. \A k \in 1 .. Len(o) : o[k] \in 1 .. 255
    <3> TAKE k \in 1 .. Len(o)
    <3>1. o[k] \in 0 .. 255 /\ o[k] # 0
      BY <1>2, <2>2, ElementOfSeq
    <3> QED
      BY <3>1
  <2>4. o \in Seq(1 .. 255)
    <3>1. o \in Seq(0 .. 255)
      BY <2>2
    <3> QED
      <4> DEFINE S == 1 .. 255
                 T == 0 .. 255
      <4>1. o \in Seq(T) /\ \A k \in 1 .. Len(o) : o[k] \in S
        BY ONLY <2>3, <3>1
      <4> HIDE DEF S, T
      <4>2. o \in Seq(S)
        BY ONLY <4>1, ElementsMakeSeq
      <4> QED
        BY ONLY <4>2 DEF S
  <2> QED
    BY <1>2, <2>1, <2>4 DEF o
<1> QED
  BY <1>1, <1>2

\* What is appended for the items taken at a place.
Piece(t, i) ==
  IF PairAt(t, i) THEN AppendedBytes(BothUnits(t[i].value, t[i + 1].value))
  ELSE IF t[i].form = "unicode" THEN AppendedBytes(t[i].value)
  ELSE IF t[i].form = "letter" THEN <<Meaning[t[i].value]>>
  ELSE <<t[i].value>>

Written == (1 .. 255) \cup {Meaning[c] : c \in 1 .. 255}

\* What an item of a literal writes.
LEMMA PieceTyped ==
  ASSUME NEW t \in Seq(Items), NEW i \in 1 .. Len(t)
  PROVE  /\ Piece(t, i) \in Seq(Written)
         /\ Taken(t, i) => Piece(t, i) \in Seq(1 .. 255)
<1>1. ItemOf(t[i])
  <2>1. t[i] \in Items
    BY ElementOfSeq
  <2> QED
    BY <2>1, ItemIs
<1>2. Seq(1 .. 255) \subseteq Seq(Written)
  BY SeqMonotonic DEF Written
<1>3. CASE PairAt(t, i)
  <2>1. High(t[i].value) /\ Low(t[i + 1].value)
    BY <1>3 DEF PairAt
  <2>2. BothUnits(t[i].value, t[i + 1].value) \in Points
    BY <2>1, PairPoint
  <2>3. Piece(t, i) \in Seq(1 .. 255)
    BY <1>3, <2>2, AppendedTyped DEF Piece
  <2> QED
    BY <1>2, <2>3
<1>4. CASE ~PairAt(t, i) /\ t[i].form = "unicode"
  <2>1. t[i].value \in Units16
    BY <1>1, <1>4 DEF ItemOf
  <2>2. t[i].value \in Points
    BY <2>1, SMT DEF Units16, Points
  <2>3. Piece(t, i) \in Seq(1 .. 255)
    BY <1>4, <2>2, AppendedTyped DEF Piece
  <2> QED
    BY <1>2, <2>3
<1>5. CASE ~PairAt(t, i) /\ t[i].form = "letter"
  <2>1. Piece(t, i) = <<Meaning[t[i].value]>>
    BY <1>5 DEF Piece
  <2>2. t[i].value \in 1 .. 255
    BY <1>1, <1>5 DEF ItemOf
  <2> DEFINE m == Meaning[t[i].value]
  <2>3. m \in Written
    BY <2>2 DEF Written
  <2>4. ASSUME Taken(t, i) PROVE m \in 1 .. 255
    <3>1. t[i].value \in DOMAIN Meaning
      BY <1>5, <2>4 DEF Taken
    <3>2. m \in 1 .. 127
      BY <3>1, MeaningTyped
    <3> HIDE DEF m
    <3> QED
      BY <3>2
  <2> HIDE DEF m
  <2> QED
    BY <2>1, <2>3, <2>4 DEF m
<1>6. CASE ~PairAt(t, i) /\ t[i].form = "plain"
  <2>1. Piece(t, i) = <<t[i].value>>
    BY <1>6 DEF Piece
  <2>2. t[i].value \in 1 .. 255
    BY <1>1, <1>6 DEF ItemOf
  <2> DEFINE v == t[i].value
  <2>3. v \in 1 .. 255
    BY <2>2
  <2> HIDE DEF v
  <2>4. <<v>> \in Seq(1 .. 255)
    BY <2>3
  <2> QED
    BY <1>2, <2>1, <2>4 DEF v
<1>7. t[i].form = "plain" \/ t[i].form = "letter" \/ t[i].form = "unicode"
  BY <1>1 DEF ItemOf
<1> QED
  BY <1>3, <1>4, <1>5, <1>6, <1>7

-----------------------------------------------------------------------------
(* The loop over a literal                                                 *)

ValueFrom(t) ==
  CHOOSE from : from = [i \in 1 .. Len(t) + 1 |->
    CASE i > Len(t) -> <<>>
      [] i <= Len(t) /\ PairAt(t, i) ->
           AppendedBytes(Utf16Points(<<t[i].value, t[i + 1].value>>)[1]) \o from[i + 2]
      [] IsUnit(t, i) /\ ~PairAt(t, i) -> AppendedBytes(t[i].value) \o from[i + 1]
      [] i <= Len(t) /\ t[i].form = "letter" -> <<Meaning[t[i].value]>> \o from[i + 1]
      [] OTHER -> <<t[i].value>> \o from[i + 1]]

\* What is written for the items from each place on.
ValueRead(t) ==
  /\ LiteralValue(t) = ValueFrom(t)[1]
  /\ ValueFrom(t)[Len(t) + 1] = <<>>
  /\ \A i \in 1 .. Len(t) : ValueFrom(t)[i] = Piece(t, i) \o ValueFrom(t)[i + Takes(t, i)]

\* The value of a literal, step by step.
LEMMA ValueLoop == ASSUME NEW t \in Seq(Items) PROVE ValueRead(t)
<1> DEFINE n == Len(t)
           w(f, i) ==
             CASE i > n -> <<>>
               [] i <= n /\ PairAt(t, i) ->
                    AppendedBytes(Utf16Points(<<t[i].value, t[i + 1].value>>)[1]) \o f[i + 2]
               [] IsUnit(t, i) /\ ~PairAt(t, i) -> AppendedBytes(t[i].value) \o f[i + 1]
               [] i <= n /\ t[i].form = "letter" -> <<Meaning[t[i].value]>> \o f[i + 1]
               [] OTHER -> <<t[i].value>> \o f[i + 1]
           Loop(f) == f = [i \in 1 .. n + 1 |-> w(f, i)]
           g == ValueFrom(t)
           V == Seq(Written)
           stop == {n + 1}
           base == [i \in 1 .. n + 1 |-> <<>>]
           next == [i \in 1 .. n + 1 |-> i + Takes(t, i)]
           step == [i \in 1 .. n + 1 |-> [v \in V |-> Piece(t, i) \o v]]
<1>1. n \in Nat
  BY LenProperties
<1>2. g = CHOOSE f : Loop(f)
  BY SMT DEF ValueFrom
<1>3. LiteralValue(t) = g[1]
  BY SMT DEF LiteralValue, ValueFrom
<1>4. ASSUME NEW f PROVE w(f, n + 1) = <<>>
  <2>1. n + 1 > n /\ ~ (n + 1 <= n)
    BY <1>1
  <2>2. ~ IsUnit(t, n + 1)
    BY <2>1 DEF IsUnit
  <2> QED
    BY ONLY <2>1, <2>2, SMT
<1>5. ASSUME NEW f, NEW i \in 1 .. n PROVE w(f, i) = Piece(t, i) \o f[i + Takes(t, i)]
  <2>1. ~ (i > n) /\ i <= n
    BY <1>1
  <2>2. CASE PairAt(t, i)
    <3>1. High(t[i].value) /\ Low(t[i + 1].value) /\ t[i].form = "unicode"
      BY <2>2 DEF PairAt, IsUnit
    <3>2. Utf16Points(<<t[i].value, t[i + 1].value>>)[1] = BothUnits(t[i].value, t[i + 1].value)
      BY <3>1, PairPoint
    <3>3. Piece(t, i) = AppendedBytes(BothUnits(t[i].value, t[i + 1].value)) /\ Takes(t, i) = 2
      BY <2>2 DEF Piece, Takes
    <3>4. w(f, i) = AppendedBytes(Utf16Points(<<t[i].value, t[i + 1].value>>)[1]) \o f[i + 2]
      BY ONLY <2>1, <2>2, <3>1, Zenon
    <3> HIDE DEF w
    <3> QED
      BY <3>2, <3>3, <3>4
  <2>3. CASE ~PairAt(t, i) /\ t[i].form = "unicode"
    <3>1. IsUnit(t, i)
      BY <2>1, <2>3 DEF IsUnit
    <3>2. Piece(t, i) = AppendedBytes(t[i].value) /\ Takes(t, i) = 1
      BY <2>3 DEF Piece, Takes
    <3>3. w(f, i) = AppendedBytes(t[i].value) \o f[i + 1]
      BY ONLY <2>1, <2>3, <3>1, Zenon
    <3> HIDE DEF w
    <3> QED
      BY <3>2, <3>3
  <2>4. CASE ~PairAt(t, i) /\ t[i].form = "letter"
    <3>1. ~ IsUnit(t, i)
      BY <2>4 DEF IsUnit
    <3>2. Piece(t, i) = <<Meaning[t[i].value]>> /\ Takes(t, i) = 1
      BY <2>4 DEF Piece, Takes
    <3>3. w(f, i) = <<Meaning[t[i].value]>> \o f[i + 1]
      BY ONLY <2>1, <2>4, <3>1, SMT
    <3> HIDE DEF w
    <3> QED
      BY <3>2, <3>3
  <2>5. CASE ~PairAt(t, i) /\ t[i].form = "plain"
    <3>1. ~ IsUnit(t, i)
      BY <2>5 DEF IsUnit
    <3>2. Piece(t, i) = <<t[i].value>> /\ Takes(t, i) = 1
      BY <2>5 DEF Piece, Takes
    <3>3. w(f, i) = <<t[i].value>> \o f[i + 1]
      BY ONLY <2>1, <2>5, <3>1, SMT
    <3> HIDE DEF w
    <3> QED
      BY <3>2, <3>3
  <2>6. t[i].form = "plain" \/ t[i].form = "letter" \/ t[i].form = "unicode"
    <3>1. t[i] \in Items
      BY ElementOfSeq
    <3> QED
      BY <3>1, ItemIs DEF ItemOf
  <2>7. PairAt(t, i) => t[i].form = "unicode"
    BY DEF PairAt, IsUnit
  <2> HIDE DEF w
  <2> QED
    BY <2>2, <2>3, <2>4, <2>5, <2>6
<1>6. \E f : Loop(f)
  <2>1. \A i \in 1 .. n + 1 : i \in stop => base[i] \in V
    BY EmptySeq
  <2>2. ASSUME NEW i \in 1 .. n + 1, i \notin stop
        PROVE  next[i] \in i + 1 .. n + 1 /\ \A v \in V : step[i][v] \in V
    <3>1. i \in 1 .. n
      BY <1>1, <2>2
    <3>2. i + Takes(t, i) \in i + 1 .. n + 1
      BY <1>1, <3>1, TakenOn
    <3>3. Piece(t, i) \in V
      BY <3>1, PieceTyped
    <3>4. ASSUME NEW v \in V PROVE step[i][v] \in V
      <4>1. step[i][v] = Piece(t, i) \o v
        OBVIOUS
      <4>2. Piece(t, i) \o v \in V
        BY <3>3, ConcatProperties
      <4> QED
        BY <4>1, <4>2
    <3> QED
      BY <3>2, <3>4
  <2>3. PICK f \in [1 .. n + 1 -> V] : Backs(n, stop, base, next, step, f)
    <3> HIDE DEF n, V, stop, base, next, step
    <3> QED
      BY <1>1, <2>1, <2>2, BackExists
  <2>4. ASSUME NEW i \in 1 .. n + 1 PROVE f[i] = w(f, i)
    <3>1. f[i] = IF i \in stop THEN base[i] ELSE step[i][f[next[i]]]
      BY <2>3 DEF Backs
    <3>2. CASE i \in stop
      <4>1. i = n + 1 /\ f[i] = <<>>
        BY <3>1, <3>2
      <4> HIDE DEF w
      <4> QED
        BY <1>4, <4>1
    <3>3. CASE i \notin stop
      <4>1. i \in 1 .. n
        BY <1>1, <3>3
      <4>2. next[i] = i + Takes(t, i) /\ i + Takes(t, i) \in 1 .. n + 1
        BY <2>2, <3>3
      <4>3. f[i + Takes(t, i)] \in V
        BY <4>2
      <4>4. f[i] = Piece(t, i) \o f[i + Takes(t, i)]
        <5> DEFINE v == f[i + Takes(t, i)]
        <5>1. f[i] = step[i][v]
          BY <3>1, <3>3, <4>2
        <5>2. v \in V
          BY <4>3
        <5> HIDE DEF v
        <5>3. step[i][v] = Piece(t, i) \o v
          BY <5>2
        <5> QED
          BY <5>1, <5>3 DEF v
      <4> HIDE DEF w
      <4> QED
        BY <1>5, <4>1, <4>4
    <3> QED
      BY <3>2, <3>3
  <2> HIDE DEF w
  <2>5. f = [i \in 1 .. n + 1 |-> f[i]]
    OBVIOUS
  <2> QED
    BY <2>4, <2>5
<1> HIDE DEF Loop, g
<1>7. Loop(g)
  BY <1>2, <1>6
<1>8. \A i \in 1 .. n + 1 : g[i] = w(g, i)
  <2> DEFINE h(i) == w(g, i)
  <2>1. g = [i \in 1 .. n + 1 |-> h(i)]
    BY <1>7 DEF Loop
  <2> HIDE DEF h
  <2>2. \A i \in 1 .. n + 1 : g[i] = h(i)
    BY <2>1
  <2> QED
    BY <2>2 DEF h
<1> HIDE DEF w
<1>9. g[n + 1] = <<>>
  BY <1>1, <1>4, <1>8
<1>10. ASSUME NEW i \in 1 .. n PROVE g[i] = Piece(t, i) \o g[i + Takes(t, i)]
  <2>1. i \in 1 .. n + 1
    BY ONLY <1>1, SMT
  <2>2. g[i] = w(g, i)
    BY ONLY <1>8, <2>1, Zenon
  <2>3. w(g, i) = Piece(t, i) \o g[i + Takes(t, i)]
    BY ONLY <1>5, Zenon
  <2> QED
    BY ONLY <2>2, <2>3, Zenon
<1> QED
  BY <1>3, <1>9, <1>10 DEF g, ValueRead

-----------------------------------------------------------------------------
(* Literals that were read and written                                     *)

\* A literal that is accepted makes a C string.
LEMMA LiteralTyped ==
  ASSUME NEW t \in Seq(Items), LiteralAccepts(t)
  PROVE  LiteralValue(t) \in Seq(1 .. 255)
<1> DEFINE n == Len(t)
           B == Seq(1 .. 255)
           good == GoodItems(t)
           from == ValueFrom(t)
           S == {i \in 1 .. n + 1 : good[i] => from[i] \in B}
<1>1. n \in Nat
  BY LenProperties
<1>2. /\ LiteralAccepts(t) <=> good[1]
      /\ \A i \in 1 .. n : good[i] <=> Taken(t, i) /\ good[i + Takes(t, i)]
  BY <1>1, GoodItemsLoop DEF ItemsTaken
<1>3. /\ LiteralValue(t) = from[1] /\ from[n + 1] = <<>>
      /\ \A i \in 1 .. n : from[i] = Piece(t, i) \o from[i + Takes(t, i)]
  BY ValueLoop DEF ValueRead
<1> HIDE DEF good, from
<1>4. n + 1 \in S
  <2>1. n + 1 \in 1 .. n + 1 /\ from[n + 1] \in B
    BY <1>1, <1>3, EmptySeq
  <2> QED
    BY <2>1
<1>5. ASSUME NEW i \in 1 .. n, \A j \in i + 1 .. n + 1 : j \in S PROVE i \in S
  <2>1. i + Takes(t, i) \in i + 1 .. n + 1
    BY <1>1, TakenOn
  <2>2. ASSUME good[i] PROVE from[i] \in B
    <3>1. Taken(t, i) /\ good[i + Takes(t, i)]
      BY <1>2, <2>2
    <3>2. from[i + Takes(t, i)] \in B
      BY <1>5, <2>1, <3>1
    <3>3. Piece(t, i) \in B
      BY <3>1, PieceTyped
    <3>4. Piece(t, i) \o from[i + Takes(t, i)] \in B
      BY ONLY <3>2, <3>3, ConcatProperties
    <3> QED
      BY <1>3, <3>4
  <2>3. i \in 1 .. n + 1
    BY <1>1
  <2> QED
    BY <2>2, <2>3
<1> HIDE DEF S
<1>6. 1 .. n + 1 \subseteq S
  BY <1>1, <1>4, <1>5, Downward
<1>7. 1 \in 1 .. n + 1
  BY <1>1
<1> QED
  BY <1>2, <1>3, <1>6, <1>7 DEF S

\* How stringify writes a byte.
EscapeFacts(c, x) ==
  /\ x \in Items
  /\ \/ x.form = "plain" /\ x.value = c
     \/ x.form = "letter" /\ x.value \in DOMAIN Meaning /\ Meaning[x.value] = c
     \/ x.form = "unicode" /\ x.value = c /\ c < 32

\* What stringify writes for a byte, and what is read from it.
LEMMA EscapeIs ==
  ASSUME NEW c \in 1 .. 255
  PROVE  EscapeFacts(c, EscapeOne(c))
<1>1. ASSUME NEW k \in 1 .. 255 PROVE Letter(k) \in Items /\ Letter(k).form = "letter" /\ Letter(k).value = k
  BY DEF Letter, Items
<1>2. ASSUME NEW d, NEW k \in 1 .. 255, k \in DOMAIN Meaning, Meaning[k] = d PROVE EscapeFacts(d, Letter(k))
  BY <1>1, <1>2 DEF EscapeFacts
<1>3. CASE c \in {Quote, Backslash}
  <2>1. EscapeOne(c) = Letter(c)
    BY <1>3 DEF EscapeOne, Quote, Backslash
  <2>2. c \in DOMAIN Meaning /\ Meaning[c] = c
    BY <1>3, Meanings DEF Quote, Backslash
  <2> QED
    BY <1>2, <2>1, <2>2
<1>4. CASE c = 10
  <2>1. EscapeOne(c) = Letter(110)
    BY <1>4 DEF EscapeOne, Quote, Backslash
  <2>2. 110 \in 1 .. 255 /\ 110 \in DOMAIN Meaning /\ Meaning[110] = c
    BY <1>4, Meanings
  <2> QED
    BY <1>2, <2>1, <2>2
<1>5. CASE c = 13
  <2>1. EscapeOne(c) = Letter(114)
    BY <1>5 DEF EscapeOne, Quote, Backslash
  <2>2. 114 \in 1 .. 255 /\ 114 \in DOMAIN Meaning /\ Meaning[114] = c
    BY <1>5, Meanings
  <2> QED
    BY <1>2, <2>1, <2>2
<1>6. CASE c = 9
  <2>1. EscapeOne(c) = Letter(116)
    BY <1>6 DEF EscapeOne, Quote, Backslash
  <2>2. 116 \in 1 .. 255 /\ 116 \in DOMAIN Meaning /\ Meaning[116] = c
    BY <1>6, Meanings
  <2> QED
    BY <1>2, <2>1, <2>2
<1>7. CASE c < 32 /\ c \notin {9, 10, 13}
  <2>1. EscapeOne(c) = Unicode(c)
    BY <1>7, SMT DEF EscapeOne, Quote, Backslash
  <2>2. c \in CodeUnits
    <3> DEFINE top == 65535
    <3>1. top \in Nat /\ top >= 255
      OBVIOUS
    <3>2. CodeUnits = 1 .. top
      BY ONLY SMT DEF CodeUnits
    <3> HIDE DEF top
    <3>3. c \in 1 .. top
      BY ONLY <3>1, SMT
    <3> QED
      BY ONLY <3>2, <3>3, Zenon
  <2>3. Unicode(c) \in Items
    BY <2>2, Zenon DEF Items
  <2>4. Unicode(c).form = "unicode" /\ Unicode(c).value = c
    BY DEF Unicode
  <2> QED
    BY <1>7, <2>1, <2>3, <2>4 DEF EscapeFacts
<1>8. CASE c \notin {Quote, Backslash} /\ c \notin {9, 10, 13} /\ ~ (c < 32)
  <2>1. EscapeOne(c) = Plain(c)
    BY <1>8, SMT DEF EscapeOne, Quote, Backslash
  <2>2. Plain(c) \in Items
    BY <1>8, Zenon DEF Items
  <2>3. Plain(c).form = "plain" /\ Plain(c).value = c
    BY DEF Plain
  <2> QED
    BY <2>1, <2>2, <2>3 DEF EscapeFacts
<1> QED
  BY <1>3, <1>4, <1>5, <1>6, <1>7, <1>8

\* A string is read as it was written.
LEMMA EscapedBack ==
  ASSUME NEW s \in Seq(1 .. 255)
  PROVE  LiteralAccepts(Escaped(s)) /\ LiteralValue(Escaped(s)) = s
<1> DEFINE n == Len(s)
           t == Escaped(s)
           good == GoodItems(t)
           from == ValueFrom(t)
           S == {i \in 1 .. n + 1 : good[i] /\ from[i] = SubSeq(s, i, n)}
<1>1. n \in Nat /\ DOMAIN s = 1 .. n /\ \A i \in 1 .. n : s[i] \in 1 .. 255
  BY LenProperties, ElementOfSeq
<1>2. t = [i \in 1 .. n |-> EscapeOne(s[i])]
  BY <1>1 DEF Escaped
<1>3. \A i \in 1 .. n : t[i] = EscapeOne(s[i]) /\ EscapeFacts(s[i], t[i])
  <2> HIDE DEF n, t
  <2> TAKE i \in 1 .. n
  <2>1. t[i] = EscapeOne(s[i])
    BY <1>2
  <2> QED
    BY <1>1, <2>1, EscapeIs
<1>4. t \in Seq(Items) /\ Len(t) = n
  <2> HIDE DEF n, t
  <2> DEFINE e(i) == EscapeOne(s[i])
  <2>1. \A i \in 1 .. n : e(i) \in Items
    BY <1>3 DEF EscapeFacts
  <2> HIDE DEF e
  <2>2. [i \in 1 .. n |-> e(i)] \in Seq(Items)
    BY <1>1, <2>1, IsASeq
  <2>3. t \in Seq(Items)
    BY <1>2, <2>2 DEF e
  <2>4. DOMAIN t = 1 .. n /\ DOMAIN t = 1 .. Len(t) /\ Len(t) \in Nat
    BY <1>2, <2>3, LenProperties
  <2> QED
    BY <1>1, <2>3, <2>4
<1> HIDE DEF t
<1>5. /\ LiteralAccepts(t) <=> good[1]
      /\ good[n + 1] /\ \A i \in 1 .. n : good[i] <=> Taken(t, i) /\ good[i + Takes(t, i)]
  BY <1>1, <1>4, GoodItemsLoop DEF ItemsTaken
<1>6. /\ LiteralValue(t) = from[1] /\ from[n + 1] = <<>>
      /\ \A i \in 1 .. n : from[i] = Piece(t, i) \o from[i + Takes(t, i)]
  BY <1>4, ValueLoop DEF ValueRead
<1> HIDE DEF good, from
<1>7. ASSUME NEW i \in 1 .. n PROVE Takes(t, i) = 1 /\ Taken(t, i) /\ Piece(t, i) = <<s[i]>>
  <2> DEFINE c == s[i]
             x == t[i]
  <2>1. EscapeFacts(c, x) /\ c \in 1 .. 255
    BY <1>1, <1>3
  <2>2. ~ PairAt(t, i)
    <3>1. ASSUME High(x.value) PROVE x.form # "unicode"
      <4> DEFINE v == x.value
      <4>1. High(v)
        BY <3>1
      <4> HIDE DEF v
      <4>2. ~ (v < 32)
        BY ONLY <4>1, SMT DEF High
      <4> QED
        BY <2>1, <4>2 DEF EscapeFacts, v
    <3> QED
      BY <3>1 DEF PairAt, IsUnit
  <2>3. ASSUME x.form = "plain", x.value = c PROVE Taken(t, i) /\ Piece(t, i) = <<c>>
    BY <2>2, <2>3 DEF Taken, Piece
  <2>4. ASSUME x.form = "letter", x.value \in DOMAIN Meaning, Meaning[x.value] = c
        PROVE  Taken(t, i) /\ Piece(t, i) = <<c>>
    BY <2>2, <2>4 DEF Taken, Piece
  <2>5. ASSUME x.form = "unicode", x.value = c, c < 32 PROVE Taken(t, i) /\ Piece(t, i) = <<c>>
    <3> HIDE DEF c
    <3>1. ~ High(x.value)
      BY ONLY <2>1, <2>5, SMT DEF High
    <3>2. c \in Points /\ c # 0
      BY ONLY <2>1, SMT DEF Points
    <3>3. Octets(c) = <<c>>
      <4>1. Size(c) = 1
        BY ONLY <2>1, <2>5, SMT DEF Size
      <4> QED
        BY ONLY <4>1, SMT DEF Octets
    <3>4. AppendedBytes(c) = <<c>>
      BY ONLY <3>2, <3>3, AppendedTyped
    <3> QED
      BY <2>2, <2>5, <3>1, <3>4 DEF Taken, Piece
  <2>6. Takes(t, i) = 1
    BY <2>2 DEF Takes
  <2> HIDE DEF x
  <2> QED
    BY <2>1, <2>3, <2>4, <2>5, <2>6 DEF EscapeFacts
<1>8. n + 1 \in S
  <2>1. SubSeq(s, n + 1, n) = <<>> /\ n + 1 \in 1 .. n + 1
    BY <1>1
  <2> HIDE DEF n
  <2> QED
    BY <1>5, <1>6, <2>1
<1>9. ASSUME NEW i \in 1 .. n, \A j \in i + 1 .. n + 1 : j \in S PROVE i \in S
  <2>1. i + 1 \in i + 1 .. n + 1 /\ i \in 1 .. n + 1
    BY <1>1
  <2>2. good[i + 1] /\ from[i + 1] = SubSeq(s, i + 1, n)
    BY <1>9, <2>1
  <2>3. good[i] /\ from[i] = <<s[i]>> \o SubSeq(s, i + 1, n)
    BY <1>5, <1>6, <1>7, <2>2
  <2>4. SubSeq(s, i, n) = <<s[i]>> \o SubSeq(s, i + 1, n)
    <3> DEFINE x == <<s[i]>>
    <3>1. x \in Seq(1 .. 255) /\ Len(x) = 1 /\ x[1] = s[i]
      <4> DEFINE c == s[i]
      <4>1. c \in 1 .. 255
        BY <1>1
      <4> HIDE DEF c
      <4>2. <<c>> \in Seq(1 .. 255) /\ Len(<<c>>) = 1 /\ <<c>>[1] = c
        BY <4>1
      <4> QED
        BY <4>2 DEF c
    <3> HIDE DEF x
    <3>2. StandsAt(s, i, x)
      BY <1>1, <3>1, SMT DEF StandsAt
    <3>3. SubSeq(s, i, n) = x \o SubSeq(s, i + Len(x), n)
      BY <3>1, <3>2, StandsFirst
    <3> QED
      BY <3>1, <3>3 DEF x
  <2> QED
    BY <2>1, <2>3, <2>4
<1> HIDE DEF S
<1>10. 1 .. n + 1 \subseteq S
  BY <1>1, <1>8, <1>9, Downward
<1>11. 1 \in 1 .. n + 1
  BY <1>1
<1>12. SubSeq(s, 1, n) = s
  BY <1>1
<1> QED
  BY <1>5, <1>6, <1>10, <1>11, <1>12 DEF S, t

-----------------------------------------------------------------------------
(* Literals in UTF-8                                                       *)

\* A text that is put together from code points.
InUtf8(x) == \E cps \in Seq(Points) : x = FlattenSeq(Coded(OctetCode, cps))

\* Texts in UTF-8: the empty one, one with a code point more, two of them.
LEMMA Utf8Empty == InUtf8(<<>>)
<1> DEFINE cps == <<>>
           ss == Coded(OctetCode, cps)
<1>1. cps \in Seq(Points) /\ Len(cps) = 0
  BY EmptySeq
<1>2. CodedOf(Points, Bytes8, OctetCode, cps)
  BY ONLY <1>1, OctetCodeTyped, CodedTyped
<1>3. ss \in Seq(Seq(Bytes8)) /\ Len(ss) = 0
  BY ONLY <1>1, <1>2 DEF CodedOf
<1> HIDE DEF ss
<1>4. FlattenSeq(ss) = <<>>
  <2>1. PICK f \in [0 .. Len(ss) -> Seq(Bytes8)] : f[0] = <<>> /\ FlattenSeq(ss) = f[Len(ss)]
    BY <1>3, FlattenSteps
  <2> QED
    BY <1>3, <2>1
<1> HIDE DEF cps
<1> QED
  BY ONLY <1>1, <1>4 DEF InUtf8, ss

\* One with a code point more.
LEMMA Utf8Cons ==
  ASSUME NEW c \in Points, NEW x, InUtf8(x)
  PROVE  InUtf8(Octets(c) \o x) /\ x \in Seq(Bytes8)
<1>1. PICK cps \in Seq(Points) : x = FlattenSeq(Coded(OctetCode, cps))
  BY DEF InUtf8
<1>2. ConsOf(Points, OctetCode, c, cps)
  BY ONLY c \in Points, OctetCodeTyped, CodedCons
<1> DEFINE ds == <<c>> \o cps
           o == OctetCode[c]
           ss == Coded(OctetCode, cps)
<1>3. ds \in Seq(Points) /\ Coded(OctetCode, ds) = <<o>> \o ss
  BY ONLY <1>2 DEF ConsOf
<1>4. o \in Seq(Bytes8) /\ o = Octets(c)
  BY OctetCodeTyped
<1>5. ss \in Seq(Seq(Bytes8))
  BY ONLY OctetCodeTyped, CodedTyped DEF CodedOf
<1> HIDE DEF ds, o, ss
<1>6. FlattenSeq(<<o>> \o ss) = o \o FlattenSeq(ss) /\ FlattenSeq(ss) \in Seq(Bytes8)
  BY ONLY <1>4, <1>5, FlattenCons
<1>7. x = FlattenSeq(ss)
  BY ONLY <1>1 DEF ss
<1> QED
  BY ONLY <1>3, <1>4, <1>6, <1>7 DEF InUtf8

\* One after the other.
LEMMA Utf8Appended ==
  ASSUME NEW c \in Points, NEW x, InUtf8(x)
  PROVE  InUtf8(AppendedBytes(c) \o x)
<1>1. CASE c # 0
  BY <1>1, AppendedTyped, Utf8Cons
<1>2. CASE c = 0
  <2>1. AppendedBytes(c) = <<>>
    BY <1>2, AppendedTyped
  <2>2. x \in Seq(Bytes8)
    BY Utf8Cons
  <2>3. <<>> \o x = x
    BY <2>2
  <2> QED
    BY <2>1, <2>3
<1> QED
  BY <1>1, <1>2

\* They are well-formed, but for surrogates.
LEMMA Utf8WellFormed == ASSUME NEW x, InUtf8(x) PROVE WellFormed(x, LooseRows)
<1>1. PICK cps \in Seq(Points) : x = FlattenSeq(Coded(OctetCode, cps))
  BY DEF InUtf8
<1>2. x \in Seq(Bytes8) /\ Utf8Valid(x)
  BY <1>1, ReadsOctets
<1> QED
  BY <1>2, ValidIsWellFormed

\* The end of a sequence, from a place on.
LEMMA TailStep ==
  ASSUME NEW S, NEW s \in Seq(S), NEW i \in 1 .. Len(s)
  PROVE  /\ SubSeq(s, i, Len(s)) = <<s[i]>> \o SubSeq(s, i + 1, Len(s))
         /\ <<s[i]>> \in Seq(S) /\ SubSeq(s, i + 1, Len(s)) \in Seq(S)
<1> DEFINE x == <<s[i]>>
           n == Len(s)
<1>1. n \in Nat /\ \A k \in 1 .. n : s[k] \in S
  BY LenProperties, ElementOfSeq
<1>2. x \in Seq(S) /\ Len(x) = 1 /\ x[1] = s[i]
  <2> DEFINE c == s[i]
  <2>1. c \in S
    BY <1>1
  <2> HIDE DEF c
  <2>2. <<c>> \in Seq(S) /\ Len(<<c>>) = 1 /\ <<c>>[1] = c
    BY <2>1
  <2> QED
    BY <2>2 DEF c
<1> HIDE DEF x
<1>3. StandsAt(s, i, x)
  BY <1>1, <1>2, SMT DEF StandsAt
<1>4. SubSeq(s, i, n) = x \o SubSeq(s, i + Len(x), n)
  BY <1>2, <1>3, StandsFirst
<1>5. SubSeq(s, i + 1, n) \in Seq(S)
  BY <1>1
<1> QED
  BY <1>2, <1>4, <1>5 DEF x

\* What holds at a place and goes on from there.
LEMMA StepByStep ==
  ASSUME NEW l \in Nat, NEW i \in Nat, NEW v, \A j \in 1 .. l : v[i + j - 1] => v[i + j], v[i]
  PROVE  v[i + l]
<1> DEFINE S == {k \in Nat : k <= l => v[i + k]}
<1>1. 0 \in S
  BY i + 0 = i
<1>2. ASSUME NEW k \in Nat \ {0}, k - 1 \in S PROVE k \in S
  <2>1. ASSUME k <= l PROVE v[i + k]
    <3>1. k \in 1 .. l /\ i + k - 1 = i + (k - 1)
      BY <2>1
    <3>2. v[i + (k - 1)]
      BY <1>2, <3>1
    <3> QED
      BY <3>1, <3>2
  <2> QED
    BY <2>1
<1> HIDE DEF S
<1>3. l \in S
  BY <1>1, <1>2, FromBelow
<1> QED
  BY <1>3 DEF S

\* Bytes that are read one by one are read as the piece they make.
LEMMA OneByOne ==
  ASSUME NEW B, NEW o \in Seq(B), NEW i \in Nat, NEW f, f[i + Len(o)] \in Seq(B),
         \A j \in 1 .. Len(o) : f[i + j - 1] = <<o[j]>> \o f[i + j]
  PROVE  f[i] = o \o f[i + Len(o)]
<1> DEFINE l == Len(o)
           y == f[i + l]
           S == {j \in 1 .. l + 1 : f[i + j - 1] = SubSeq(o, j, l) \o y}
<1>1. l \in Nat
  BY LenProperties
<1>2. l + 1 \in S
  <2>1. SubSeq(o, l + 1, l) = <<>> /\ <<>> \o y = y
    <3> HIDE DEF y
    <3>1. y \in Seq(B)
      BY DEF y
    <3> QED
      BY <1>1, <3>1
  <2>2. i + (l + 1) - 1 = i + l /\ l + 1 \in 1 .. l + 1
    BY <1>1
  <2> QED
    BY <2>1, <2>2
<1>3. ASSUME NEW j \in 1 .. l, \A k \in j + 1 .. l + 1 : k \in S PROVE j \in S
  <2>1. j + 1 \in j + 1 .. l + 1 /\ j \in 1 .. l + 1 /\ i + (j + 1) - 1 = i + j
    BY <1>1
  <2>2. f[i + j] = SubSeq(o, j + 1, l) \o y
    BY <1>3, <2>1
  <2> DEFINE h == <<o[j]>>
             r == SubSeq(o, j + 1, l)
  <2>3. SubSeq(o, j, l) = h \o r /\ h \in Seq(B) /\ r \in Seq(B)
    BY TailStep
  <2>4. f[i + j - 1] = h \o f[i + j]
    OBVIOUS
  <2>5. y \in Seq(B)
    OBVIOUS
  <2> HIDE DEF h, r, y
  <2>6. (h \o r) \o y = h \o (r \o y)
    <3>1. Concat(Concat(h, r), y) = Concat(h, Concat(r, y))
      BY <2>3, <2>5, ConcatFacts
    <3> QED
      BY <3>1 DEF Concat
  <2>7. f[i + j - 1] = SubSeq(o, j, l) \o y
    BY <2>2, <2>3, <2>4, <2>6 DEF r
  <2> HIDE DEF l
  <2> QED
    BY <2>1, <2>7
<1> HIDE DEF S
<1>4. 1 .. l + 1 \subseteq S
  BY <1>1, <1>2, <1>3, Downward
<1>5. 1 \in S /\ i + 1 - 1 = i
  BY <1>1, <1>4
<1>6. SubSeq(o, 1, l) = o
  BY <1>1
<1> QED
  BY <1>5, <1>6 DEF S

\* A masked literal, place by place.
LEMMA MaskedIs ==
  ASSUME NEW t \in Seq(Items)
  PROVE  /\ Masked(t) \in Seq(Bytes8) /\ Len(Masked(t)) = Len(t)
         /\ \A i \in 1 .. Len(t) : Masked(t)[i] = IF t[i].form = "plain" THEN t[i].value ELSE 97
<1> DEFINE n == Len(t)
           m == Masked(t)
           e(i) == IF t[i].form = "plain" THEN t[i].value ELSE 97
<1>1. n \in Nat /\ DOMAIN t = 1 .. n
  BY LenProperties
<1>2. m = [i \in 1 .. n |-> e(i)]
  BY <1>1 DEF Masked
<1>3. ASSUME NEW i \in 1 .. n PROVE e(i) \in Bytes8
  <2>1. ItemOf(t[i])
    <3>1. t[i] \in Items
      BY ElementOfSeq
    <3> QED
      BY <3>1, ItemIs
  <2>2. CASE t[i].form = "plain"
    <3> DEFINE v == t[i].value
    <3>1. v \in 1 .. 255
      BY <2>1, <2>2 DEF ItemOf
    <3> HIDE DEF v
    <3>2. v \in Bytes8
      BY <3>1, SMT DEF Bytes8
    <3> QED
      BY <2>2, <3>2 DEF v
  <2>3. CASE t[i].form # "plain"
    BY <2>3 DEF Bytes8
  <2> QED
    BY <2>2, <2>3
<1>4. \A i \in 1 .. n : m[i] = e(i)
  BY <1>2
<1> HIDE DEF m, e
<1>5. m \in Seq(Bytes8)
  <2>1. [i \in 1 .. n |-> e(i)] \in Seq(Bytes8)
    BY <1>1, <1>3, IsASeq
  <2> QED
    BY <1>2, <2>1
<1>6. Len(m) = n
  <2>1. DOMAIN m = 1 .. n /\ DOMAIN m = 1 .. Len(m) /\ Len(m) \in Nat
    BY <1>2, <1>5, LenProperties
  <2> QED
    BY <1>1, <2>1
<1> QED
  BY <1>4, <1>5, <1>6 DEF m, e

\* A literal whose bytes are in UTF-8 makes a string in UTF-8.
LEMMA LiteralInUtf8 ==
  ASSUME NEW t \in Seq(Items), LiteralAccepts(t), Utf8Valid(Masked(t))
  PROVE  WellFormed(LiteralValue(t), LooseRows)
<1> DEFINE n == Len(t)
           m == Masked(t)
           good == GoodItems(t)
           from == ValueFrom(t)
           valid == ValidFrom(m)
           S == {i \in 1 .. n + 1 : good[i] /\ valid[i] => InUtf8(from[i])}
<1>1. n \in Nat
  BY LenProperties
<1>2. /\ LiteralAccepts(t) <=> good[1]
      /\ \A i \in 1 .. n : good[i] <=> Taken(t, i) /\ good[i + Takes(t, i)]
  BY <1>1, GoodItemsLoop DEF ItemsTaken
<1>3. /\ LiteralValue(t) = from[1] /\ from[n + 1] = <<>>
      /\ \A i \in 1 .. n : from[i] = Piece(t, i) \o from[i + Takes(t, i)]
  BY ValueLoop DEF ValueRead
<1>4. /\ m \in Seq(Bytes8) /\ Len(m) = n
      /\ \A i \in 1 .. n : /\ m[i] = IF t[i].form = "plain" THEN t[i].value ELSE 97
                           /\ m[i] \in 0 .. 255
  <2>1. /\ m \in Seq(Bytes8) /\ Len(m) = n
        /\ \A i \in 1 .. n : m[i] = IF t[i].form = "plain" THEN t[i].value ELSE 97
    BY MaskedIs
  <2> HIDE DEF m
  <2>2. ASSUME NEW i \in 1 .. n PROVE m[i] \in 0 .. 255
    <3>1. i \in 1 .. Len(m)
      BY ONLY <2>1
    <3>2. m \in Seq(Bytes8)
      BY ONLY <2>1
    <3>3. m[i] \in Bytes8
      BY ONLY <3>1, <3>2, ElementOfSeq
    <3> QED
      BY ONLY <3>3, Zenon DEF Bytes8
  <2> QED
    BY <2>1, <2>2
<1> HIDE DEF m
<1>5. /\ Utf8Valid(m) <=> valid[1]
      /\ \A i \in 1 .. n : valid[i] <=> Decodes(m, i) /\ valid[i + Announced(m[i])]
  <2>1. /\ Utf8Valid(m) <=> valid[1]
        /\ \A i \in 1 .. n + 1 : valid[i] <=> (i > n \/ (Decodes(m, i) /\ valid[i + Announced(m[i])]))
    BY <1>1, <1>4, ValidLoop
  <2> HIDE DEF valid
  <2>2. \A i \in 1 .. n : i \in 1 .. n + 1 /\ ~ (i > n)
    BY <1>1
  <2> QED
    BY ONLY <2>1, <2>2
<1> HIDE DEF good, from, valid
<1>6. n + 1 \in S
  <2>1. n + 1 \in 1 .. n + 1 /\ InUtf8(from[n + 1])
    BY <1>1, <1>3, Utf8Empty
  <2> QED
    BY <2>1
<1>7. Announced(97) = 1
  BY AnnouncedOf
<1>8. ASSUME NEW i \in 1 .. n, \A j \in i + 1 .. n + 1 : j \in S, good[i], valid[i]
      PROVE  InUtf8(from[i])
  <2>1. Decodes(m, i) /\ valid[i + Announced(m[i])]
    BY <1>5, <1>8
  <2>2. Taken(t, i) /\ good[i + Takes(t, i)] /\ i + Takes(t, i) \in i + 1 .. n + 1
    BY <1>1, <1>2, <1>8, TakenOn
  <2>3. from[i] = Piece(t, i) \o from[i + Takes(t, i)]
    BY <1>3
  <2>4. ASSUME NEW j \in i + 1 .. n + 1, good[j], valid[j] PROVE InUtf8(from[j])
    BY <1>8, <2>4
  <2>5. CASE PairAt(t, i)
    <3>1. /\ t[i].form = "unicode" /\ High(t[i].value) /\ i + 1 <= n
          /\ t[i + 1].form = "unicode" /\ Low(t[i + 1].value)
      BY <2>5 DEF PairAt, IsUnit
    <3>2. Takes(t, i) = 2 /\ Piece(t, i) = AppendedBytes(BothUnits(t[i].value, t[i + 1].value))
      BY <2>5 DEF Takes, Piece
    <3>3. i + 1 \in 1 .. n /\ i + 1 + 1 = i + 2
      BY <1>1, <3>1
    <3>4. m[i] = 97 /\ m[i + 1] = 97
      BY <1>4, <3>1, <3>3
    <3>5. valid[i + 1]
      BY <1>7, <2>1, <3>4
    <3>6. valid[i + 2]
      BY <1>5, <1>7, <3>3, <3>4, <3>5
    <3>7. InUtf8(from[i + 2])
      BY <2>2, <2>4, <3>2, <3>6
    <3>8. BothUnits(t[i].value, t[i + 1].value) \in Points
      BY <3>1, PairPoint
    <3> QED
      BY <2>3, <3>2, <3>7, <3>8, Utf8Appended
  <2>6. CASE ~PairAt(t, i) /\ t[i].form # "plain"
    <3>1. Takes(t, i) = 1
      BY <2>6 DEF Takes
    <3>2. m[i] = 97
      BY <1>4, <2>6
    <3>3. valid[i + 1]
      BY <1>7, <2>1, <3>2
    <3>4. InUtf8(from[i + 1])
      BY <2>2, <2>4, <3>1, <3>3
    <3>5. ItemOf(t[i])
      <4>1. t[i] \in Items
        BY ElementOfSeq
      <4> QED
        BY <4>1, ItemIs
    <3>6. CASE t[i].form = "unicode"
      <4>1. t[i].value \in Points
        <5>1. t[i].value \in Units16
          BY <3>5, <3>6 DEF ItemOf
        <5> QED
          BY <5>1, SMT DEF Units16, Points
      <4>2. Piece(t, i) = AppendedBytes(t[i].value)
        BY <2>6, <3>6 DEF Piece
      <4> QED
        BY <2>3, <3>1, <3>4, <4>1, <4>2, Utf8Appended
    <3>7. CASE t[i].form = "letter"
      <4> DEFINE c == Meaning[t[i].value]
      <4>1. Piece(t, i) = <<c>>
        BY <2>6, <3>7 DEF Piece
      <4>2. c \in 1 .. 127
        <5>1. t[i].value \in DOMAIN Meaning
          BY <2>2, <2>6, <3>7 DEF Taken
        <5> QED
          BY <5>1, MeaningTyped
      <4> HIDE DEF c
      <4>3. c \in Points
        BY ONLY <4>2, SMT DEF Points
      <4>4. Size(c) = 1
        BY ONLY <4>2, SMT DEF Size
      <4>5. Octets(c) = <<c>>
        BY ONLY <4>4, SMT DEF Octets
      <4> QED
        BY <2>3, <3>1, <3>4, <4>1, <4>3, <4>5, Utf8Cons
    <3> QED
      BY <2>6, <3>5, <3>6, <3>7 DEF ItemOf
  <2>7. CASE t[i].form = "plain"
    <3> DEFINE b == m[i]
               l == Announced(b)
               cp == CodePoint(m, i, l)
               o == Octets(cp)
    <3>1. /\ l \in 1 .. 4 /\ i + l - 1 <= n /\ cp \in Nat /\ cp <= 1114111 /\ Size(cp) = l
          /\ \A j \in 1 .. l : o[j] = m[i + j - 1]
      BY <1>1, <1>4, <2>1, DecodeOctets, SMT
    <3>2. cp \in Points
      BY ONLY <3>1, SMT DEF Points
    <3>3. o \in Seq(Bytes8) /\ Len(o) = l
      <4>1. Octets(cp) \in Seq(Bytes8) /\ Len(Octets(cp)) = Size(cp)
        BY ONLY <3>2, OctetCodeTyped
      <4> QED
        BY ONLY <3>1, <4>1, SMT
    <3>4. \A k \in i + 1 .. i + l - 1 : m[k] \div 64 = 2
      BY <2>1, SMT DEF Decodes
    <3>5. valid[i + l]
      BY <2>1
    <3>6. l \in 1 .. 4 /\ i + l - 1 <= n /\ \A j \in 1 .. l : o[j] = m[i + j - 1]
      BY ONLY <3>1, SMT
    <3> HIDE DEF l, o, cp
    <3>7. ASSUME NEW k \in i .. i + l - 1 PROVE k \in 1 .. n /\ t[k].form = "plain"
      <4>1. k \in 1 .. n
        BY <1>1, <3>6, <3>7
      <4>2. CASE k = i
        BY <2>7, <4>1, <4>2
      <4>3. CASE k # i
        <5>1. k \in i + 1 .. i + l - 1
          BY <3>6, <3>7, <4>3
        <5>2. m[k] # 97
          <6>1. 97 \div 64 # 2
            BY SMT
          <6> QED
            BY ONLY <3>4, <5>1, <6>1
        <5> QED
          BY ONLY <1>4, <4>1, <5>2
      <4> QED
        BY <4>2, <4>3
    <3>8. ASSUME NEW k \in i .. i + l - 1
          PROVE  from[k] = <<m[k]>> \o from[k + 1] /\ (good[k] => good[k + 1])
      <4>1. k \in 1 .. n /\ t[k].form = "plain"
        BY <3>7
      <4>2. ~ PairAt(t, k)
        BY <4>1 DEF PairAt, IsUnit
      <4>3. Takes(t, k) = 1 /\ Piece(t, k) = <<t[k].value>> /\ m[k] = t[k].value
        BY <1>4, <4>1, <4>2 DEF Takes, Piece
      <4> QED
        BY <1>2, <1>3, <4>1, <4>3
    <3>9. ASSUME NEW j \in 1 .. Len(o)
          PROVE  from[i + j - 1] = <<o[j]>> \o from[i + j] /\ (good[i + j - 1] => good[i + j])
      <4> DEFINE k == i + j - 1
      <4>1. k \in i .. i + l - 1 /\ k + 1 = i + j /\ j \in 1 .. l
        BY <3>3, <3>6
      <4> HIDE DEF k
      <4>2. o[j] = m[k]
        BY <3>6, <4>1 DEF k
      <4>3. from[k] = <<m[k]>> \o from[k + 1] /\ (good[k] => good[k + 1])
        BY <3>8, <4>1
      <4>4. from[k] = <<o[j]>> \o from[i + j] /\ (good[k] => good[i + j])
        BY ONLY <4>1, <4>2, <4>3
      <4> QED
        BY <4>4 DEF k
    <3>10. good[i + l]
      <4>1. \A j \in 1 .. l : good[i + j - 1] => good[i + j]
        BY <3>3, <3>9
      <4>2. l \in Nat /\ i \in Nat /\ good[i]
        BY <1>1, <1>8, <3>6
      <4> QED
        BY ONLY <4>1, <4>2, StepByStep
    <3>11. InUtf8(from[i + l])
      <4>1. i + l \in i + 1 .. n + 1
        BY <1>1, <3>6
      <4> QED
        BY <2>4, <3>5, <3>10, <4>1 DEF l
    <3>12. from[i + l] \in Seq(Bytes8)
      BY <3>11, Utf8WellFormed, ReadsOctets DEF InUtf8
    <3>13. from[i] = o \o from[i + l]
      <4>1. i \in Nat
        BY <1>1
      <4>2. from[i + Len(o)] \in Seq(Bytes8)
        BY <3>3, <3>12
      <4>3. from[i] = o \o from[i + Len(o)]
        BY <3>3, <3>9, <4>1, <4>2, OneByOne
      <4> QED
        BY <3>3, <4>3
    <3> QED
      BY <3>2, <3>11, <3>13, Utf8Cons DEF o
  <2> QED
    BY <2>5, <2>6, <2>7
<1>9. ASSUME NEW i \in 1 .. n, \A j \in i + 1 .. n + 1 : j \in S PROVE i \in S
  <2>1. i \in 1 .. n + 1
    BY <1>1
  <2>2. good[i] /\ valid[i] => InUtf8(from[i])
    BY <1>8, <1>9
  <2> QED
    BY <2>1, <2>2
<1> HIDE DEF S
<1>10. 1 .. n + 1 \subseteq S
  BY <1>1, <1>6, <1>9, Downward
<1>11. 1 \in 1 .. n + 1
  BY <1>1
<1>12. InUtf8(from[1])
  BY <1>2, <1>5, <1>10, <1>11 DEF S, m
<1> QED
  BY <1>3, <1>12, Utf8WellFormed

(* ten_utf8_validate answers 1 for every text that is well-formed by the   *)
(* Unicode standard, and for none that is ill-formed (encoding.h:63) by    *)
(* more than surrogates; the escapes of a JSON literal in UTF-8 make a     *)
(* string in UTF-8, but for surrogates that were escaped one by one.       *)
THEOREM StandardsAccepted == Spec => []AcceptsTheStandards
<1>1. Typed => AcceptsTheStandards
  <2> SUFFICES ASSUME Typed PROVE AcceptsTheStandards
    OBVIOUS
  <2>1. ASSUME kind = "utf8"
        PROVE  /\ WellFormed(text, Rows) => Utf8Valid(text)
               /\ Utf8Valid(text) => WellFormed(text, LooseRows)
    <3>1. Alphabet["utf8"] \subseteq Bytes8
      <4>1. Alphabet["utf8"] \subseteq 1 .. 255
        BY <2>1, Alphabets DEF Typed
      <4> QED
        BY <4>1 DEF Bytes8
    <3>2. text \in Seq(Bytes8)
      BY <2>1, <3>1, SeqMonotonic DEF Typed
    <3> QED
      BY <3>2, ValidIsWellFormed
  <2>2. ASSUME kind = "literal", LiteralAccepts(text), Utf8Valid(Masked(text))
        PROVE  WellFormed(LiteralValue(text), LooseRows)
    <3>1. text \in Seq(Items)
      BY <2>2, Alphabets, SeqMonotonic DEF Typed
    <3> QED
      BY <2>2, <3>1, LiteralInUtf8
  <2> QED
    BY <2>1, <2>2 DEF AcceptsTheStandards
<1> QED
  BY <1>1, InputTyped, PTL

-----------------------------------------------------------------------------
(* Groups of the same length, but for the last one                         *)

Laid(ss, c) ==
  /\ Len(ss) = 0 => FlattenSeq(ss) = <<>>
  /\ Len(ss) > 0 => Len(FlattenSeq(ss)) = c * (Len(ss) - 1) + Len(ss[Len(ss)])
  /\ \A k \in 1 .. Len(ss) : \A j \in 1 .. Len(ss[k]) : FlattenSeq(ss)[c * (k - 1) + j] = ss[k][j]

\* One group more.
LEMMA OnceMore ==
  ASSUME NEW c \in Nat, NEW k \in Nat
  PROVE  c * (k + 1) = c * k + c /\ c * k \in Nat
OBVIOUS

\* Where the elements of the groups are.
LEMMA EvenPieces ==
  ASSUME NEW S, NEW ss \in Seq(Seq(S)), NEW c \in Nat, \A k \in 1 .. Len(ss) - 1 : Len(ss[k]) = c
  PROVE  Laid(ss, c) /\ FlattenSeq(ss) \in Seq(S)
<1> DEFINE n == Len(ss)
           w == FlattenSeq(ss)
<1>1. n \in Nat /\ \A k \in 1 .. n : Len(ss[k]) \in Nat
  <2>1. \A k \in 1 .. n : ss[k] \in Seq(S)
    BY ElementOfSeq
  <2> QED
    BY <2>1, LenProperties
<1>2. PICK pos \in [0 .. n -> Nat] : Places(ss, pos)
  BY FlattenPlaces
<1>3. /\ pos[0] = 0 /\ Len(w) = pos[n]
      /\ \A k \in 1 .. n : /\ pos[k] = pos[k - 1] + Len(ss[k])
                           /\ \A j \in 1 .. Len(ss[k]) : w[pos[k - 1] + j] = ss[k][j]
  BY <1>2 DEF Places
<1>4. w \in Seq(S)
  <2>1. PICK f \in [0 .. n -> Seq(S)] : w = f[n]
    BY FlattenSteps
  <2>2. n \in 0 .. n
    BY <1>1
  <2> QED
    BY ONLY <2>1, <2>2
<1> HIDE DEF w, n
<1> DEFINE K == {k \in Nat : k < n => pos[k] = c * k}
<1>5. 0 \in K
  BY <1>3
<1>6. ASSUME NEW k \in Nat \ {0}, k - 1 \in K PROVE k \in K
  <2>1. ASSUME k < n PROVE pos[k] = c * k
    <3>1. k \in 1 .. n - 1 /\ k \in 1 .. n /\ k - 1 \in Nat /\ k - 1 < n /\ k - 1 + 1 = k
      BY <1>1, <2>1
    <3>2. pos[k - 1] = c * (k - 1)
      BY <1>6, <3>1
    <3>3. Len(ss[k]) = c
      BY <3>1 DEF n
    <3>4. pos[k] = c * (k - 1) + c
      BY <1>3, <3>1, <3>2, <3>3
    <3>5. c * (k - 1 + 1) = c * (k - 1) + c
      BY ONLY <3>1, c \in Nat, OnceMore
    <3> QED
      BY ONLY <3>1, <3>4, <3>5
  <2> QED
    BY <2>1
<1> HIDE DEF K
<1>7. \A k \in Nat : k \in K
  BY <1>5, <1>6, FromBelow
<1>8. ASSUME NEW k \in 1 .. n PROVE pos[k - 1] = c * (k - 1)
  <2>1. k - 1 \in Nat /\ k - 1 < n
    BY <1>1
  <2> QED
    BY <1>7, <2>1 DEF K
<1>9. n = 0 => w = <<>>
  BY <1>3, <1>4, EmptySeq
<1>10. ASSUME n > 0 PROVE Len(w) = c * (n - 1) + Len(ss[n])
  <2>1. n \in 1 .. n
    BY <1>1, <1>10
  <2>2. pos[n - 1] = c * (n - 1) /\ pos[n] = pos[n - 1] + Len(ss[n])
    BY <1>3, <1>8, <2>1
  <2> QED
    BY ONLY <1>3, <2>2
<1>11. ASSUME NEW k \in 1 .. n, NEW j \in 1 .. Len(ss[k]) PROVE w[c * (k - 1) + j] = ss[k][j]
  <2>1. w[pos[k - 1] + j] = ss[k][j] /\ pos[k - 1] = c * (k - 1)
    BY <1>3, <1>8
  <2> QED
    BY ONLY <2>1
<1> QED
  BY <1>4, <1>9, <1>10, <1>11 DEF Laid, w, n

\* Groups made of a text.
LEMMA GroupsOf ==
  ASSUME NEW S, NEW n \in Nat, NEW c \in Nat, NEW ss, ss = [g \in 1 .. n |-> ss[g]],
         \A g \in 1 .. n : ss[g] \in Seq(S), \A g \in 1 .. n - 1 : Len(ss[g]) = c
  PROVE  Laid(ss, c) /\ FlattenSeq(ss) \in Seq(S) /\ Len(ss) = n
<1>1. [g \in 1 .. n |-> ss[g]] \in Seq(Seq(S))
  BY IsASeq
<1>2. ss \in Seq(Seq(S))
  BY <1>1
<1>3. DOMAIN ss = 1 .. n /\ DOMAIN ss = 1 .. Len(ss) /\ Len(ss) \in Nat
  BY <1>2, LenProperties
<1>4. Len(ss) = n
  BY ONLY <1>3, n \in Nat, SMT
<1> QED
  BY <1>2, <1>4, EvenPieces

-----------------------------------------------------------------------------
(* Hex and back                                                            *)

HexPairs(s) == [g \in 1 .. (Len(s) + 1 - 1) \div 1 |-> <<s[1 * (g - 1) + 1] \div 16, s[1 * (g - 1) + 1] % 16>>]
HexBytes(t) ==
  [g \in 1 .. (Len(t) + 2 - 1) \div 2 |->
     <<16 * HexValue(t[2 * (g - 1) + 1]) + HexValue(t[2 * (g - 1) + 1 + 1])>>]

\* Hex, as groups of two digits and of one byte.
LEMMA HexGroups ==
  /\ \A s : HexEncode(s) = FlattenSeq(HexPairs(s))
  /\ \A t : HexDecode(t) = FlattenSeq(HexBytes(t))
BY DEF HexEncode, HexDecode, Grouped, HexPairs, HexBytes

\* Digits of a byte.
LEMMA HexDigits ==
  ASSUME NEW b \in 0 .. 255
  PROVE  /\ b \div 16 \in 0 .. 15 /\ b % 16 \in 0 .. 15
         /\ 16 * HexValue(b \div 16) + HexValue(b % 16) = b
BY SMT DEF HexValue

\* A sequence of two, and of one.
LEMMA PairOf ==
  ASSUME NEW S, NEW a \in S, NEW b \in S
  PROVE  <<a, b>> \in Seq(S) /\ Len(<<a, b>>) = 2 /\ <<a, b>>[1] = a /\ <<a, b>>[2] = b
OBVIOUS

\* A sequence of one.
LEMMA OneOf ==
  ASSUME NEW S, NEW a \in S
  PROVE  <<a>> \in Seq(S) /\ Len(<<a>>) = 1 /\ <<a>>[1] = a
OBVIOUS

\* Sequences of the same elements are the same.
LEMMA SameSeq ==
  ASSUME NEW S, NEW a \in Seq(S), NEW b \in Seq(S), Len(a) = Len(b), \A i \in 1 .. Len(b) : a[i] = b[i]
  PROVE  a = b
<1>1. a = [i \in 1 .. Len(a) |-> a[i]] /\ b = [i \in 1 .. Len(b) |-> b[i]]
  BY LenProperties
<1> QED
  BY <1>1

\* Every text in Hex is decoded to the bytes it was made of.
LEMMA HexBack ==
  ASSUME NEW s \in Seq(Bytes8)
  PROVE  HexAccepts(HexEncode(s)) /\ HexDecode(HexEncode(s)) = s
<1> DEFINE n == Len(s)
           t == HexEncode(s)
           ss == HexPairs(s)
           D == 0 .. 15
<1>1. n \in Nat /\ \A i \in 1 .. n : s[i] \in 0 .. 255
  BY LenProperties, ElementOfSeq DEF Bytes8
<1>2. ss = [g \in 1 .. n |-> <<s[g] \div 16, s[g] % 16>>]
  <2>1. (n + 1 - 1) \div 1 = n /\ \A g \in 1 .. n : 1 * (g - 1) + 1 = g
    BY <1>1
  <2> QED
    BY <2>1 DEF HexPairs
<1>3. ASSUME NEW g \in 1 .. n
      PROVE  /\ ss[g] \in Seq(D) /\ Len(ss[g]) = 2
             /\ ss[g][1] = s[g] \div 16 /\ ss[g][2] = s[g] % 16
             /\ ss[g][1] \in D /\ ss[g][2] \in D /\ 16 * HexValue(ss[g][1]) + HexValue(ss[g][2]) = s[g]
  <2> DEFINE a == s[g] \div 16
             b == s[g] % 16
  <2>1. ss[g] = <<a, b>>
    BY <1>2
  <2>2. a \in D /\ b \in D /\ 16 * HexValue(a) + HexValue(b) = s[g]
    BY <1>1, HexDigits
  <2> HIDE DEF a, b, ss
  <2>3. <<a, b>> \in Seq(D) /\ Len(<<a, b>>) = 2 /\ <<a, b>>[1] = a /\ <<a, b>>[2] = b
    BY <2>2, PairOf
  <2> QED
    BY <2>1, <2>2, <2>3 DEF a, b
<1>4. ss = [g \in 1 .. n |-> ss[g]]
  BY <1>2
<1>5. t = FlattenSeq(ss)
  BY HexGroups
<1> HIDE DEF ss
<1>6. Laid(ss, 2) /\ t \in Seq(D) /\ Len(ss) = n
  <2>1. \A g \in 1 .. n - 1 : g \in 1 .. n
    BY <1>1
  <2>2. 2 \in Nat /\ n \in Nat
    BY <1>1
  <2>3. \A g \in 1 .. n : ss[g] \in Seq(D)
    BY <1>3
  <2>4. \A g \in 1 .. n - 1 : Len(ss[g]) = 2
    BY <1>3, <2>1
  <2> HIDE DEF n, D, t
  <2>5. Laid(ss, 2) /\ FlattenSeq(ss) \in Seq(D) /\ Len(ss) = n
    BY ONLY <1>4, <2>2, <2>3, <2>4, GroupsOf
  <2> QED
    BY ONLY <1>5, <2>5
<1> HIDE DEF t, n
<1>7. Len(t) = 2 * n
  <2>1. CASE n = 0
    <3>1. t = <<>>
      BY <1>5, <1>6, <2>1 DEF Laid
    <3> QED
      BY <2>1, <3>1
  <2>2. CASE n > 0
    <3>1. n \in 1 .. n
      BY <1>1, <2>2
    <3>2. Len(t) = 2 * (n - 1) + Len(ss[n]) /\ Len(ss[n]) = 2
      BY <1>3, <1>5, <1>6, <2>2, <3>1 DEF Laid
    <3> QED
      BY <1>1, <3>2
  <2> QED
    BY <1>1, <2>1, <2>2
<1>8. ASSUME NEW g \in 1 .. n PROVE t[2 * (g - 1) + 1] = ss[g][1] /\ t[2 * (g - 1) + 2] = ss[g][2]
  <2>1. 1 \in 1 .. Len(ss[g]) /\ 2 \in 1 .. Len(ss[g])
    BY <1>3
  <2> QED
    BY <1>5, <1>6, <2>1 DEF Laid
<1>9. HexAccepts(t)
  <2>1. \A i \in DOMAIN t : t[i] \in D
    BY <1>6, ElementOfSeq, LenProperties
  <2>2. Len(t) % 2 = 0
    BY <1>1, <1>7
  <2> QED
    BY <2>1, <2>2 DEF HexAccepts
<1> DEFINE bb == HexBytes(t)
<1>10. bb = [g \in 1 .. n |-> <<s[g]>>]
  <2>1. (Len(t) + 2 - 1) \div 2 = n
    BY <1>1, <1>7
  <2>2. ASSUME NEW g \in 1 .. n
        PROVE  16 * HexValue(t[2 * (g - 1) + 1]) + HexValue(t[2 * (g - 1) + 1 + 1]) = s[g]
    <3>1. 2 * (g - 1) + 1 + 1 = 2 * (g - 1) + 2
      BY <1>1
    <3>2. t[2 * (g - 1) + 1 + 1] = ss[g][2]
      BY ONLY <1>8, <3>1
    <3> QED
      BY <1>3, <1>8, <3>2
  <2> QED
    BY <2>1, <2>2 DEF HexBytes
<1>11. HexDecode(t) = FlattenSeq(bb)
  BY HexGroups
<1>12. ASSUME NEW g \in 1 .. n PROVE bb[g] \in Seq(Bytes8) /\ Len(bb[g]) = 1 /\ bb[g][1] = s[g]
  <2> DEFINE a == s[g]
  <2>1. bb[g] = <<a>> /\ a \in Bytes8
    BY <1>1, <1>10 DEF Bytes8
  <2> HIDE DEF a, bb
  <2> QED
    BY <2>1, OneOf DEF a
<1>13. bb = [g \in 1 .. n |-> bb[g]]
  BY <1>10
<1> HIDE DEF bb
<1>14. Laid(bb, 1) /\ FlattenSeq(bb) \in Seq(Bytes8) /\ Len(bb) = n
  <2>1. \A g \in 1 .. n - 1 : g \in 1 .. n
    BY <1>1
  <2>2. 1 \in Nat /\ n \in Nat
    BY <1>1
  <2>3. \A g \in 1 .. n : bb[g] \in Seq(Bytes8)
    BY <1>12
  <2>4. \A g \in 1 .. n - 1 : Len(bb[g]) = 1
    BY <1>12, <2>1
  <2> QED
    BY <1>13, <2>2, <2>3, <2>4, GroupsOf
<1> DEFINE r == FlattenSeq(bb)
<1>15. Len(r) = n
  <2>1. CASE n = 0
    <3>1. r = <<>>
      BY <1>14, <2>1 DEF Laid
    <3> QED
      BY <2>1, <3>1
  <2>2. CASE n > 0
    <3>1. n \in 1 .. n
      BY <1>1, <2>2
    <3>2. Len(r) = 1 * (n - 1) + Len(bb[n]) /\ Len(bb[n]) = 1
      BY <1>12, <1>14, <2>2, <3>1 DEF Laid
    <3> QED
      BY <1>1, <3>2
  <2> QED
    BY <1>1, <2>1, <2>2
<1>16. ASSUME NEW g \in 1 .. n PROVE r[g] = s[g]
  <2>1. 1 \in 1 .. Len(bb[g]) /\ 1 * (g - 1) + 1 = g
    BY <1>1, <1>12
  <2>2. r[1 * (g - 1) + 1] = bb[g][1]
    BY <1>14, <2>1 DEF Laid
  <2> QED
    BY <1>12, <2>1, <2>2
<1> HIDE DEF r
<1>17. r = s
  <2>1. r \in Seq(Bytes8)
    BY <1>14 DEF r
  <2> QED
    BY <1>15, <1>16, <2>1, SameSeq DEF n
<1> QED
  BY <1>9, <1>11, <1>17 DEF r, t

-----------------------------------------------------------------------------
(* Base64 and back                                                         *)

\* The digits p, q, r and s that three bytes are written in, and the bytes
\* that are read from them.
InDigits(a, b, c, p, q, r, s) ==
  /\ p = (65536 * a + 256 * b + c) \div 262144
  /\ q = ((65536 * a + 256 * b + c) \div 4096) % 64
  /\ r = ((65536 * a + 256 * b + c) \div 64) % 64
  /\ s = (65536 * a + 256 * b + c) % 64

FromDigits(a, b, c, p, q, r, s) ==
  /\ p \in 0 .. 63 /\ q \in 0 .. 63 /\ r \in 0 .. 63 /\ s \in 0 .. 63
  /\ 4 * p + (q \div 16) = a /\ 16 * (q % 16) + (r \div 4) = b /\ 64 * (r % 4) + s = c

\* Three bytes in four digits, and the bytes from the digits.
LEMMA FourDigits ==
  ASSUME NEW a \in 0 .. 255, NEW b \in 0 .. 255, NEW c \in 0 .. 255,
         NEW p, NEW q, NEW r, NEW s, InDigits(a, b, c, p, q, r, s)
  PROVE  FromDigits(a, b, c, p, q, r, s)
<1> DEFINE x == 65536 * a + 256 * b + c
           a1 == a \div 4
           a0 == a % 4
           b1 == b \div 16
           b0 == b % 16
           c1 == c \div 64
           c0 == c % 64
<1>1. x \in Nat
  BY SMT
<1>2. SixDigits(x)
  BY ONLY <1>1, Sixes
<1>3. /\ p \in Nat /\ q \in 0 .. 63 /\ r \in 0 .. 63 /\ s \in 0 .. 63
      /\ x = 262144 * p + 4096 * q + 64 * r + s
  <2>1. p = x \div 262144 /\ q = (x \div 4096) % 64 /\ r = (x \div 64) % 64 /\ s = x % 64
    BY SMT DEF InDigits
  <2> QED
    BY ONLY <1>2, <2>1, SMT DEF SixDigits
<1>4. /\ a = 4 * a1 + a0 /\ b = 16 * b1 + b0 /\ c = 64 * c1 + c0
      /\ a1 \in 0 .. 63 /\ a0 \in 0 .. 3 /\ b1 \in 0 .. 15 /\ b0 \in 0 .. 15 /\ c1 \in 0 .. 3 /\ c0 \in 0 .. 63
  BY SMT
<1>5. x = 65536 * a + 256 * b + c
  BY SMT
<1> HIDE DEF x, a1, a0, b1, b0, c1, c0
<1>6. p = a1 /\ q = 16 * a0 + b1 /\ r = 4 * b0 + c1 /\ s = c0
  BY ONLY <1>3, <1>4, <1>5, SMT
<1>7. q \div 16 = a0 /\ q % 16 = b1 /\ r \div 4 = b0 /\ r % 4 = c1
  BY ONLY <1>4, <1>6, SMT
<1> QED
  BY ONLY <1>3, <1>4, <1>6, <1>7, SMT DEF FromDigits

\* Up to three elements, appended to one another.
LEMMA ThreeInARow ==
  ASSUME NEW S, NEW a \in S, NEW b \in S, NEW c \in S
  PROVE  /\ (<<a>> \o <<b>>) \o <<c>> = <<a, b, c>>
         /\ (<<a>> \o <<b>>) \o <<>> = <<a, b>>
         /\ (<<a>> \o <<>>) \o <<>> = <<a>>
<1>1. /\ <<a>> \in Seq(S) /\ Len(<<a>>) = 1 /\ <<a>>[1] = a
      /\ <<b>> \in Seq(S) /\ Len(<<b>>) = 1 /\ <<b>>[1] = b
      /\ <<c>> \in Seq(S) /\ Len(<<c>>) = 1 /\ <<c>>[1] = c
  BY OneOf
<1>2. \A t \in Seq(S) : t \o <<>> = t
  BY EmptySeq, ConcatEmptySeq
<1>3. <<a>> \o <<b>> = <<a, b>>
  <2> DEFINE u == <<a>> \o <<b>>
  <2>1. u \in Seq(S) /\ Len(u) = 2 /\ u[1] = a /\ u[2] = b
    <3>1. \A i \in 1 .. 2 : u[i] = IF i <= 1 THEN <<a>>[i] ELSE <<b>>[i - 1]
      BY <1>1, ConcatProperties
    <3>2. u[1] = a /\ u[2] = b
      BY <1>1, <3>1
    <3> QED
      BY <1>1, <3>2, ConcatProperties
  <2>2. <<a, b>> \in Seq(S) /\ Len(<<a, b>>) = 2 /\ <<a, b>>[1] = a /\ <<a, b>>[2] = b
    BY PairOf
  <2> HIDE DEF u
  <2>3. u = <<a, b>>
    BY <2>1, <2>2, SeqEqual
  <2> QED
    BY <2>3 DEF u
<1>4. <<a, b>> \o <<c>> = <<a, b, c>>
  <2> DEFINE v == <<a, b>>
             u == v \o <<c>>
  <2>1. v \in Seq(S) /\ Len(v) = 2 /\ v[1] = a /\ v[2] = b
    BY PairOf
  <2>2. u \in Seq(S) /\ Len(u) = 3 /\ u[1] = a /\ u[2] = b /\ u[3] = c
    <3> HIDE DEF v
    <3> DEFINE w == <<c>>
    <3>1. w \in Seq(S) /\ Len(w) = 1 /\ w[1] = c
      BY <1>1
    <3> HIDE DEF w
    <3>2. /\ v \o w \in Seq(S) /\ Len(v \o w) = Len(v) + Len(w)
          /\ \A i \in 1 .. Len(v) + Len(w) : (v \o w)[i] = IF i <= Len(v) THEN v[i] ELSE w[i - Len(v)]
      BY <2>1, <3>1, ConcatProperties
    <3> DEFINE z == v \o w
    <3> HIDE DEF z
    <3>3. z \in Seq(S) /\ Len(z) = 3 /\ \A i \in 1 .. 3 : z[i] = IF i <= 2 THEN v[i] ELSE w[i - 2]
      BY <2>1, <3>1, <3>2 DEF z
    <3>4. z[1] = a /\ z[2] = b /\ z[3] = c
      BY <2>1, <3>1, <3>3
    <3> QED
      BY <3>3, <3>4 DEF z, w
  <2>3. <<a, b, c>> \in Seq(S) /\ Len(<<a, b, c>>) = 3 /\ <<a, b, c>>[1] = a /\ <<a, b, c>>[2] = b /\ <<a, b, c>>[3] = c
    OBVIOUS
  <2> HIDE DEF u
  <2>4. u = <<a, b, c>>
    BY <2>2, <2>3, SeqEqual
  <2> QED
    BY <2>4 DEF u
<1> QED
  BY <1>1, <1>2, <1>3, <1>4, PairOf

EncodedAt(s, i, t, k) ==
  \A j \in 1 .. 4 : t[k + j - 1] = EncodeThree(s, i)[j]

\* How many bytes a group has.
Group(s, i) == IF i + 2 <= Len(s) THEN 3 ELSE IF i + 1 <= Len(s) THEN 2 ELSE 1

\* The digits of a group, with the padding of the last one.
LEMMA EncodedFacts ==
  ASSUME NEW s, Len(s) \in Nat, \A k \in 1 .. Len(s) : s[k] \in 0 .. 255, NEW i \in 1 .. Len(s)
  PROVE  LET e == EncodeThree(s, i)
         IN  /\ e \in Seq(0 .. 64) /\ Len(e) = 4
             /\ e[1] < 64 /\ e[2] < 64
             /\ e[3] < 64 \/ (e[3] = Padding /\ e[4] = Padding)
             /\ e[4] < 64 \/ e[4] = Padding
             /\ i + 1 <= Len(s) => e[3] < 64
             /\ ~ (i + 1 <= Len(s)) => e[3] = Padding
             /\ i + 2 <= Len(s) => e[4] < 64
             /\ ~ (i + 2 <= Len(s)) => e[4] = Padding
             /\ 4 * e[1] + (e[2] \div 16) = s[i]
             /\ i + 1 <= Len(s) => 16 * (e[2] % 16) + (e[3] \div 4) = s[i + 1]
             /\ i + 2 <= Len(s) => 64 * (e[3] % 4) + e[4] = s[i + 2]
<1> DEFINE a == At(s, i)
           b == At(s, i + 1)
           c == At(s, i + 2)
           x == 65536 * a + 256 * b + c
           p == x \div 262144
           q == (x \div 4096) % 64
           r == (x \div 64) % 64
           d == x % 64
           two == i + 1 <= Len(s)
           all == i + 2 <= Len(s)
           e3 == IF two THEN r ELSE Padding
           e4 == IF all THEN d ELSE Padding
           e == EncodeThree(s, i)
<1>1. /\ a = s[i] /\ (two => b = s[i + 1]) /\ (all => c = s[i + 2])
      /\ a \in 0 .. 255 /\ b \in 0 .. 255 /\ c \in 0 .. 255
  <2>1. i <= Len(s) /\ (two => i + 1 \in 1 .. Len(s)) /\ (all => i + 2 \in 1 .. Len(s))
    BY SMT
  <2>2. a = s[i] /\ (two => b = s[i + 1]) /\ (all => c = s[i + 2])
    BY <2>1 DEF At
  <2>3. a \in 0 .. 255
    BY <2>2
  <2>4. b \in 0 .. 255
    <3>1. CASE two
      BY <2>1, <2>2, <3>1
    <3>2. CASE ~ two
      BY <3>2 DEF At
    <3> QED
      BY <3>1, <3>2
  <2>5. c \in 0 .. 255
    <3>1. CASE all
      BY <2>1, <2>2, <3>1
    <3>2. CASE ~ all
      BY <3>2 DEF At
    <3> QED
      BY <3>1, <3>2
  <2> QED
    BY <2>2, <2>3, <2>4, <2>5
<1>2. e = <<p, q, e3, e4>>
  BY SMT DEF EncodeThree
<1>3. all => two
  BY SMT
<1> HIDE DEF a, b, c
<1>4. InDigits(a, b, c, p, q, r, d)
  BY ONLY SMT DEF InDigits
<1> HIDE DEF p, q, r, d, x
<1>5. /\ p \in 0 .. 63 /\ q \in 0 .. 63 /\ r \in 0 .. 63 /\ d \in 0 .. 63
      /\ 4 * p + (q \div 16) = a /\ 16 * (q % 16) + (r \div 4) = b /\ 64 * (r % 4) + d = c
  <2>1. a \in 0 .. 255 /\ b \in 0 .. 255 /\ c \in 0 .. 255
    BY <1>1
  <2>2. FromDigits(a, b, c, p, q, r, d)
    BY ONLY <1>4, <2>1, FourDigits
  <2> QED
    BY ONLY <2>2 DEF FromDigits
<1> HIDE DEF e, two, all
<1>6. /\ e3 \in 0 .. 64 /\ (two => e3 = r) /\ (~ two => e3 = Padding)
      /\ e4 \in 0 .. 64 /\ (all => e4 = d) /\ (~ all => e4 = Padding) /\ Padding = 64
  BY ONLY <1>5, SMT DEF Padding
<1> HIDE DEF e3, e4
<1>7. e \in Seq(0 .. 64) /\ Len(e) = 4 /\ e[1] = p /\ e[2] = q /\ e[3] = e3 /\ e[4] = e4
  <2>1. p \in 0 .. 64 /\ q \in 0 .. 64
    BY ONLY <1>5, SMT
  <2> QED
    BY ONLY <1>2, <1>6, <2>1, SMT
<1>8. p < 64 /\ q < 64 /\ r < 64 /\ d < 64
  BY ONLY <1>5, SMT
<1> QED
  BY ONLY <1>1, <1>3, <1>5, <1>6, <1>7, <1>8 DEF e, two, all

\* What is decoded from the digits of a group.
LEMMA GroupBack ==
  ASSUME NEW s, Len(s) \in Nat, \A k \in 1 .. Len(s) : s[k] \in 0 .. 255, NEW i \in 1 .. Len(s),
         NEW t, NEW k \in Nat, EncodedAt(s, i, t, k)
  PROVE  /\ DecodeFour(t, k) \in Seq(Bytes8) /\ Len(DecodeFour(t, k)) = Group(s, i)
         /\ \A j \in 1 .. Group(s, i) : DecodeFour(t, k)[j] = s[i + j - 1]
<1> DEFINE e == EncodeThree(s, i)
           two == i + 1 <= Len(s)
           all == i + 2 <= Len(s)
           x == 4 * e[1] + (e[2] \div 16)
           y == 16 * (e[2] % 16) + (e[3] \div 4)
           z == 64 * (e[3] % 4) + e[4]
           r == DecodeFour(t, k)
<1>1. t[k] = e[1] /\ t[k + 1] = e[2] /\ t[k + 2] = e[3] /\ t[k + 3] = e[4]
  <2>1. k + 1 - 1 = k /\ k + 2 - 1 = k + 1 /\ k + 3 - 1 = k + 2 /\ k + 4 - 1 = k + 3
    OBVIOUS
  <2>2. t[k + 1 - 1] = e[1] /\ t[k + 2 - 1] = e[2] /\ t[k + 3 - 1] = e[3] /\ t[k + 4 - 1] = e[4]
    <3> HIDE DEF e
    <3>1. \A j \in 1 .. 4 : t[k + j - 1] = e[j]
      BY DEF EncodedAt, e
    <3> QED
      BY ONLY <3>1, SMT
  <2> QED
    BY ONLY <2>1, <2>2
<1>2. /\ two => e[3] < 64
      /\ ~ two => e[3] = Padding
      /\ all => e[4] < 64
      /\ ~ all => e[4] = Padding
      /\ x = s[i] /\ (two => y = s[i + 1]) /\ (all => z = s[i + 2])
  BY EncodedFacts
<1>3. all => two
  BY SMT
<1>4. s[i] \in Bytes8 /\ (two => s[i + 1] \in Bytes8) /\ (all => s[i + 2] \in Bytes8)
  <2>1. i \in 1 .. Len(s) /\ (two => i + 1 \in 1 .. Len(s)) /\ (all => i + 2 \in 1 .. Len(s))
    BY SMT
  <2> QED
    BY <2>1 DEF Bytes8
<1>5. r = <<x>> \o (IF e[3] = Padding THEN <<>> ELSE <<y>>) \o (IF e[4] = Padding THEN <<>> ELSE <<z>>)
  BY ONLY <1>1 DEF DecodeFour
<1>6. i + 1 - 1 = i /\ i + 2 - 1 = i + 1 /\ i + 3 - 1 = i + 2
  BY SMT
<1>7. \A v : v < 64 => v # Padding
  BY SMT DEF Padding
<1> HIDE DEF e, x, y, z, r
<1>8. CASE all
  <2>1. r = <<s[i], s[i + 1], s[i + 2]>>
    <3>1. e[3] # Padding /\ e[4] # Padding
      BY ONLY <1>2, <1>3, <1>7, <1>8
    <3>2. r = (<<x>> \o <<y>>) \o <<z>>
      BY ONLY <1>5, <3>1
    <3>3. x \in Bytes8 /\ y \in Bytes8 /\ z \in Bytes8
      BY ONLY <1>2, <1>3, <1>4, <1>8
    <3>4. r = <<x, y, z>>
      BY ONLY <3>2, <3>3, ThreeInARow
    <3> QED
      BY ONLY <1>2, <1>3, <1>8, <3>4
  <2>2. Group(s, i) = 3
    BY <1>8 DEF Group
  <2> DEFINE u == s[i]
             v == s[i + 1]
             w == s[i + 2]
  <2>3. u \in Bytes8 /\ v \in Bytes8 /\ w \in Bytes8
    BY ONLY <1>3, <1>4, <1>8
  <2> HIDE DEF u, v, w
  <2>4. <<u, v, w>> \in Seq(Bytes8) /\ Len(<<u, v, w>>) = 3 /\ <<u, v, w>>[1] = u /\ <<u, v, w>>[2] = v /\ <<u, v, w>>[3] = w
    BY ONLY <2>3, SMT
  <2>5. r \in Seq(Bytes8) /\ Len(r) = 3 /\ r[1] = s[i + 1 - 1] /\ r[2] = s[i + 2 - 1] /\ r[3] = s[i + 3 - 1]
    BY ONLY <1>6, <2>1, <2>4 DEF u, v, w
  <2>6. \A j \in 1 .. 3 : j = 1 \/ j = 2 \/ j = 3
    BY SMT
  <2>7. \A j \in 1 .. 3 : r[j] = s[i + j - 1]
    BY ONLY <2>5, <2>6
  <2> QED
    BY ONLY <2>2, <2>5, <2>7 DEF r
<1>9. CASE two /\ ~ all
  <2>1. r = <<s[i], s[i + 1]>>
    <3>1. e[3] # Padding /\ e[4] = Padding
      BY ONLY <1>2, <1>7, <1>9
    <3>2. r = (<<x>> \o <<y>>) \o <<>>
      BY ONLY <1>5, <3>1
    <3>3. x \in Bytes8 /\ y \in Bytes8
      BY ONLY <1>2, <1>4, <1>9
    <3>4. r = <<x, y>>
      BY ONLY <3>2, <3>3, ThreeInARow
    <3> QED
      BY ONLY <1>2, <1>9, <3>4
  <2>2. Group(s, i) = 2
    BY <1>9 DEF Group
  <2> DEFINE u == s[i]
             v == s[i + 1]
  <2>3. u \in Bytes8 /\ v \in Bytes8
    BY ONLY <1>4, <1>9
  <2> HIDE DEF u, v
  <2>4. <<u, v>> \in Seq(Bytes8) /\ Len(<<u, v>>) = 2 /\ <<u, v>>[1] = u /\ <<u, v>>[2] = v
    BY ONLY <2>3, PairOf
  <2>5. r \in Seq(Bytes8) /\ Len(r) = 2 /\ r[1] = s[i + 1 - 1] /\ r[2] = s[i + 2 - 1]
    BY ONLY <1>6, <2>1, <2>4 DEF u, v
  <2>6. \A j \in 1 .. 2 : j = 1 \/ j = 2
    BY SMT
  <2>7. \A j \in 1 .. 2 : r[j] = s[i + j - 1]
    BY ONLY <2>5, <2>6
  <2> QED
    BY ONLY <2>2, <2>5, <2>7 DEF r
<1>10. CASE ~ two
  <2>1. r = <<s[i]>>
    <3>1. e[3] = Padding /\ e[4] = Padding
      BY ONLY <1>2, <1>3, <1>10
    <3>2. r = (<<x>> \o <<>>) \o <<>>
      BY ONLY <1>5, <3>1
    <3>3. x \in Bytes8
      BY ONLY <1>2, <1>4
    <3>4. r = <<x>>
      BY ONLY <3>2, <3>3, ThreeInARow
    <3> QED
      BY ONLY <1>2, <3>4
  <2>2. Group(s, i) = 1
    BY <1>3, <1>10 DEF Group
  <2> DEFINE u == s[i]
  <2>3. u \in Bytes8
    BY ONLY <1>4
  <2> HIDE DEF u
  <2>4. <<u>> \in Seq(Bytes8) /\ Len(<<u>>) = 1 /\ <<u>>[1] = u
    BY ONLY <2>3, OneOf
  <2>5. r \in Seq(Bytes8) /\ Len(r) = 1 /\ r[1] = s[i + 1 - 1]
    BY ONLY <1>6, <2>1, <2>4 DEF u
  <2>6. \A j \in 1 .. 1 : j = 1
    BY SMT
  <2>7. \A j \in 1 .. 1 : r[j] = s[i + j - 1]
    BY ONLY <2>5, <2>6
  <2> QED
    BY ONLY <2>2, <2>5, <2>7 DEF r
<1> QED
  BY <1>8, <1>9, <1>10

-----------------------------------------------------------------------------

Fours(s) == [g \in 1 .. (Len(s) + 3 - 1) \div 3 |-> EncodeThree(s, 3 * (g - 1) + 1)]
Threes(t) == [g \in 1 .. (Len(t) + 4 - 1) \div 4 |-> DecodeFour(t, 4 * (g - 1) + 1)]

\* Base64, as groups of four digits and of three bytes.
LEMMA Base64Groups ==
  /\ \A s : Base64Encode(s) = FlattenSeq(Fours(s))
  /\ \A t : Base64Decode(t) = FlattenSeq(Threes(t))
BY DEF Base64Encode, Base64Decode, Grouped, Fours, Threes

\* Where the groups of three of n bytes, and of four of their digits, begin.
LEMMA ThreesOf ==
  ASSUME NEW n \in Nat, NEW m, m = (n + 3 - 1) \div 3
  PROVE  /\ m \in Nat /\ (n = 0 <=> m = 0)
         /\ \A g \in 1 .. m : 3 * (g - 1) + 1 \in 1 .. n
         /\ \A g \in 1 .. m - 1 : g \in 1 .. m /\ 3 * (g - 1) + 3 <= n
         /\ m > 0 => 3 * (m - 1) < n /\ n <= 3 * m
OBVIOUS

\* Every place is in a group.
LEMMA PlaceInThrees ==
  ASSUME NEW n \in Nat, NEW m \in Nat, m > 0 => 3 * (m - 1) < n /\ n <= 3 * m, m = 0 => n = 0,
         NEW i \in 1 .. n
  PROVE  \E g \in 1 .. m : \E j \in 1 .. 3 : i = 3 * (g - 1) + j
<1>1. (i + 2) \div 3 \in 1 .. m /\ i - 3 * ((i + 2) \div 3 - 1) \in 1 .. 3
  OBVIOUS
<1> QED
  BY <1>1

\* Every digit is in a group.
LEMMA PlaceInFours ==
  ASSUME NEW m \in Nat, NEW i \in 1 .. 4 * m
  PROVE  \E g \in 1 .. m : \E j \in 1 .. 4 : i = 4 * (g - 1) + j
<1>1. (i + 3) \div 4 \in 1 .. m /\ i - 4 * ((i + 3) \div 4 - 1) \in 1 .. 4
  OBVIOUS
<1> QED
  BY <1>1

\* What may stand at a place of a text in Base64.
MayStand(t, i) ==
  \/ t[i] < 64
  \/ t[i] = Padding /\ i % 4 = 3 /\ t[i + 1] = Padding
  \/ t[i] = Padding /\ i % 4 = 0

\* The digits of a group are accepted where they stand.
LEMMA EncodedAccepted ==
  ASSUME NEW s, Len(s) \in Nat, \A k \in 1 .. Len(s) : s[k] \in 0 .. 255, NEW i \in 1 .. Len(s),
         NEW t, NEW g \in Nat \ {0}, EncodedAt(s, i, t, 4 * (g - 1) + 1), NEW j \in 1 .. 4
  PROVE  MayStand(t, 4 * (g - 1) + j)
<1> DEFINE e == EncodeThree(s, i)
           k == 4 * (g - 1)
<1>1. /\ e[1] < 64 /\ e[2] < 64
      /\ e[3] < 64 \/ (e[3] = Padding /\ e[4] = Padding)
      /\ e[4] < 64 \/ e[4] = Padding
  BY EncodedFacts
<1>2. /\ k \in Nat /\ (k + 3) % 4 = 3 /\ (k + 4) % 4 = 0 /\ (k + 3) + 1 = k + 4
      /\ \A h \in 1 .. 4 : (k + 1) + h - 1 = k + h
  OBVIOUS
<1>3. \A h \in 1 .. 4 : t[(k + 1) + h - 1] = e[h]
  BY DEF EncodedAt
<1> HIDE DEF e, k
<1>4. t[k + 1] = e[1] /\ t[k + 2] = e[2] /\ t[k + 3] = e[3] /\ t[k + 4] = e[4]
  <2>1. \A h \in 1 .. 4 : t[k + h] = e[h]
    BY ONLY <1>2, <1>3
  <2>2. 1 \in 1 .. 4 /\ 2 \in 1 .. 4 /\ 3 \in 1 .. 4 /\ 4 \in 1 .. 4
    OBVIOUS
  <2> QED
    BY ONLY <2>1, <2>2
<1>5. MayStand(t, k + 1) /\ MayStand(t, k + 2)
  BY ONLY <1>1, <1>4 DEF MayStand
<1>6. MayStand(t, k + 3)
  BY ONLY <1>1, <1>2, <1>4 DEF MayStand
<1>7. MayStand(t, k + 4)
  BY ONLY <1>1, <1>2, <1>4 DEF MayStand
<1>8. j = 1 \/ j = 2 \/ j = 3 \/ j = 4
  OBVIOUS
<1> QED
  BY ONLY <1>5, <1>6, <1>7, <1>8 DEF k

\* Every text in Base64 is decoded to the bytes it was made of.
LEMMA Base64Back ==
  ASSUME NEW s \in Seq(Bytes8)
  PROVE  Base64Accepts(Base64Encode(s)) /\ Base64Decode(Base64Encode(s)) = s
<1> DEFINE n == Len(s)
           m == (n + 3 - 1) \div 3
           t == Base64Encode(s)
           ss == Fours(s)
           D == 0 .. 64
           from(g) == 3 * (g - 1) + 1
<1>1. n \in Nat /\ \A i \in 1 .. n : s[i] \in 0 .. 255
  BY LenProperties, ElementOfSeq DEF Bytes8
<1>2. ss = [g \in 1 .. m |-> EncodeThree(s, from(g))]
  BY DEF Fours
<1>3. t = FlattenSeq(ss)
  BY Base64Groups
<1> HIDE DEF m
<1>4. /\ m \in Nat /\ (n = 0 <=> m = 0)
      /\ \A g \in 1 .. m : from(g) \in 1 .. n
      /\ \A g \in 1 .. m - 1 : g \in 1 .. m /\ 3 * (g - 1) + 3 <= n
      /\ m > 0 => 3 * (m - 1) < n /\ n <= 3 * m
  <2>1. m = (n + 3 - 1) \div 3
    BY DEF m
  <2> HIDE DEF n
  <2> QED
    BY ONLY <1>1, <2>1, ThreesOf
<1>5. ASSUME NEW g \in 1 .. m PROVE ss[g] = EncodeThree(s, from(g)) /\ ss[g] \in Seq(D) /\ Len(ss[g]) = 4
  <2>1. ss[g] = EncodeThree(s, from(g))
    BY <1>2
  <2>2. EncodeThree(s, from(g)) \in Seq(D) /\ Len(EncodeThree(s, from(g))) = 4
    <3>1. from(g) \in 1 .. n
      BY ONLY <1>4, Zenon
    <3> DEFINE e == EncodeThree(s, from(g))
    <3> HIDE DEF from
    <3>2. e \in Seq(0 .. 64) /\ Len(e) = 4
      BY ONLY <1>1, <3>1, EncodedFacts
    <3> QED
      BY ONLY <3>2
  <2> QED
    BY <2>1, <2>2
<1>6. ss = [g \in 1 .. m |-> ss[g]]
  BY <1>2
<1> HIDE DEF ss, t, n, from
<1>7. Laid(ss, 4) /\ t \in Seq(D) /\ Len(ss) = m
  <2> DEFINE four == 4
  <2>1. four \in Nat
    OBVIOUS
  <2>2. \A g \in 1 .. m : ss[g] \in Seq(D)
    BY ONLY <1>5
  <2>3. \A g \in 1 .. m - 1 : Len(ss[g]) = four
    BY ONLY <1>4, <1>5
  <2>4. m \in Nat
    BY ONLY <1>4
  <2> HIDE DEF D, four
  <2>5. Laid(ss, four) /\ FlattenSeq(ss) \in Seq(D) /\ Len(ss) = m
    BY ONLY <1>6, <2>1, <2>2, <2>3, <2>4, GroupsOf
  <2> QED
    BY ONLY <1>3, <2>5 DEF four
<1>8. Len(t) = 4 * m
  <2>1. CASE m = 0
    <3>1. t = <<>>
      BY <1>3, <1>7, <2>1 DEF Laid
    <3> QED
      BY <2>1, <3>1
  <2>2. CASE m > 0
    <3>1. m \in 1 .. m
      BY <1>4, <2>2
    <3>2. Len(t) = 4 * (m - 1) + Len(ss[m]) /\ Len(ss[m]) = 4
      BY <1>3, <1>5, <1>7, <2>2, <3>1 DEF Laid
    <3> QED
      BY <1>4, <3>2
  <2> QED
    BY <1>4, <2>1, <2>2
<1>9. ASSUME NEW g \in 1 .. m PROVE EncodedAt(s, from(g), t, 4 * (g - 1) + 1)
  <2>1. ASSUME NEW j \in 1 .. 4 PROVE t[4 * (g - 1) + 1 + j - 1] = EncodeThree(s, from(g))[j]
    <3>1. 4 * (g - 1) + 1 + j - 1 = 4 * (g - 1) + j
      OBVIOUS
    <3>2. j \in 1 .. Len(ss[g])
      BY <1>5
    <3>3. t[4 * (g - 1) + j] = ss[g][j]
      BY <1>3, <1>7, <3>2 DEF Laid
    <3> QED
      BY ONLY <1>5, <3>1, <3>3
  <2> QED
    BY <2>1 DEF EncodedAt
<1>10. Base64Accepts(t)
  <2>1. ASSUME NEW i \in DOMAIN t PROVE MayStand(t, i)
    <3>1. i \in 1 .. 4 * m
      BY <1>7, <1>8, LenProperties
    <3>2. PICK g \in 1 .. m : \E j \in 1 .. 4 : i = 4 * (g - 1) + j
      BY ONLY <1>4, <3>1, PlaceInFours
    <3>3. PICK j \in 1 .. 4 : i = 4 * (g - 1) + j
      BY ONLY <3>2
    <3>4. from(g) \in 1 .. Len(s) /\ g \in Nat \ {0} /\ Len(s) \in Nat /\ \A k \in 1 .. Len(s) : s[k] \in 0 .. 255
      BY <1>1, <1>4 DEF n
    <3>5. EncodedAt(s, from(g), t, 4 * (g - 1) + 1)
      BY ONLY <1>9
    <3>6. MayStand(t, 4 * (g - 1) + j)
      BY ONLY <3>4, <3>5, EncodedAccepted
    <3> QED
      BY ONLY <3>3, <3>6
  <2>2. Len(t) % 4 = 0
    BY <1>4, <1>8
  <2> QED
    BY <2>1, <2>2 DEF Base64Accepts, MayStand
<1> DEFINE dd == Threes(t)
           size(g) == Group(s, from(g))
<1>11. dd = [g \in 1 .. m |-> DecodeFour(t, 4 * (g - 1) + 1)]
  <2>1. (Len(t) + 4 - 1) \div 4 = m
    BY <1>4, <1>8
  <2> QED
    BY <2>1 DEF Threes
<1>12. Base64Decode(t) = FlattenSeq(dd)
  BY Base64Groups
<1>13. ASSUME NEW g \in 1 .. m
       PROVE  /\ dd[g] \in Seq(Bytes8) /\ Len(dd[g]) = size(g)
              /\ \A j \in 1 .. size(g) : dd[g][j] = s[from(g) + j - 1]
  <2> DEFINE k == 4 * (g - 1) + 1
  <2>1. dd[g] = DecodeFour(t, k)
    BY <1>11
  <2>2. from(g) \in 1 .. Len(s) /\ k \in Nat /\ Len(s) \in Nat /\ \A i \in 1 .. Len(s) : s[i] \in 0 .. 255
    BY <1>1, <1>4 DEF n
  <2>3. EncodedAt(s, from(g), t, k)
    BY ONLY <1>9
  <2> HIDE DEF k, dd
  <2> QED
    BY ONLY <2>1, <2>2, <2>3, GroupBack
<1>14. /\ \A g \in 1 .. m - 1 : size(g) = 3
       /\ m > 0 => size(m) = n - 3 * (m - 1)
  <2>1. ASSUME NEW g \in 1 .. m - 1 PROVE size(g) = 3
    <3>1. from(g) + 2 <= Len(s)
      BY <1>1, <1>4 DEF from, n
    <3> QED
      BY <3>1 DEF Group
  <2>2. ASSUME m > 0 PROVE size(m) = n - 3 * (m - 1)
    <3>1. size(m) = IF 3 * (m - 1) + 1 + 2 <= n THEN 3 ELSE IF 3 * (m - 1) + 1 + 1 <= n THEN 2 ELSE 1
      BY DEF Group, from, n
    <3> HIDE DEF size
    <3> QED
      BY ONLY <1>1, <1>4, <2>2, <3>1
  <2> QED
    BY <2>1, <2>2
<1>15. dd = [g \in 1 .. m |-> dd[g]]
  BY <1>11
<1> HIDE DEF dd, size
<1> DEFINE r == FlattenSeq(dd)
<1>16. Laid(dd, 3) /\ r \in Seq(Bytes8) /\ Len(dd) = m
  <2>1. 3 \in Nat
    OBVIOUS
  <2>2. \A g \in 1 .. m : dd[g] \in Seq(Bytes8)
    BY ONLY <1>13
  <2>3. \A g \in 1 .. m - 1 : Len(dd[g]) = 3
    BY ONLY <1>4, <1>13, <1>14
  <2>4. m \in Nat
    BY ONLY <1>4
  <2>5. Laid(dd, 3) /\ FlattenSeq(dd) \in Seq(Bytes8) /\ Len(dd) = m
    BY ONLY <1>15, <2>1, <2>2, <2>3, <2>4, GroupsOf
  <2> QED
    BY ONLY <2>5
<1>17. Len(r) = n
  <2>1. CASE m = 0
    <3>1. r = <<>>
      BY <1>16, <2>1 DEF Laid
    <3> QED
      BY <1>4, <2>1, <3>1
  <2>2. CASE m > 0
    <3>1. m \in 1 .. m
      BY <1>4, <2>2
    <3>2. Len(r) = 3 * (m - 1) + Len(dd[m]) /\ Len(dd[m]) = n - 3 * (m - 1)
      BY <1>13, <1>14, <1>16, <2>2, <3>1 DEF Laid
    <3> HIDE DEF r
    <3> QED
      BY <1>1, <1>4, <3>2
  <2> QED
    BY <1>4, <2>1, <2>2
<1>18. ASSUME NEW i \in 1 .. n PROVE r[i] = s[i]
  <2>1. PICK g \in 1 .. m : \E j \in 1 .. 3 : i = 3 * (g - 1) + j
    BY ONLY <1>1, <1>4, PlaceInThrees
  <2>2. PICK j \in 1 .. 3 : i = 3 * (g - 1) + j
    BY ONLY <2>1
  <2>3. j \in 1 .. size(g)
    <3>1. CASE g = m
      <4>1. size(m) = n - 3 * (m - 1)
        BY <1>4, <1>14, <3>1
      <4> QED
        BY ONLY <1>1, <1>4, <2>2, <3>1, <4>1, i \in 1 .. n, j \in 1 .. 3
    <3>2. CASE g # m
      <4>1. g \in 1 .. m - 1
        BY ONLY <1>4, <3>2, g \in 1 .. m
      <4> QED
        BY ONLY <1>14, <4>1, j \in 1 .. 3
    <3> QED
      BY <3>1, <3>2
  <2>4. j \in 1 .. Len(dd[g])
    BY ONLY <1>13, <2>3
  <2>5. r[3 * (g - 1) + j] = dd[g][j]
    BY ONLY <1>16, <2>4 DEF Laid, r
  <2>6. dd[g][j] = s[from(g) + j - 1]
    BY ONLY <1>13, <2>3
  <2>7. from(g) + j - 1 = i
    BY ONLY <2>2, g \in 1 .. m, <1>4, j \in 1 .. 3 DEF from
  <2> QED
    BY ONLY <2>2, <2>5, <2>6, <2>7
<1> HIDE DEF r
<1>19. r = s
  BY ONLY <1>16, <1>17, <1>18, s \in Seq(Bytes8), SameSeq DEF n
<1> QED
  BY <1>10, <1>12, <1>19 DEF r, t

-----------------------------------------------------------------------------
(* The command line and back                                               *)

\* States of the splitter of a line of characters of C.
Splits(C) == [done : Seq(Seq(C)), arg : Seq(C), reading : BOOLEAN, quoted : BOOLEAN, slashes : Nat]

\* The characters that mean something on a line are different ones.
LEMMA Marks ==
  /\ Blank # Tab /\ Blank # QuoteMark /\ Blank # Slash
  /\ Tab # QuoteMark /\ Tab # Slash /\ QuoteMark # Slash
BY DEF Blank, Tab, QuoteMark, Slash

\* Backslashes, one by one.
LEMMA SlashesFacts ==
  /\ Slashes(0) = <<>>
  /\ \A C : Slash \in C => \A n \in Nat : /\ Slashes(n) \in Seq(C)
                                          /\ Slashes(n + 1) = Append(Slashes(n), Slash)
<1>1. ASSUME NEW C, Slash \in C, NEW n \in Nat
      PROVE  Slashes(n) \in Seq(C) /\ Len(Slashes(n)) = n /\ \A i \in 1 .. n : Slashes(n)[i] = Slash
  <2>1. Slashes(n) = [i \in 1 .. n |-> Slash]
    BY DEF Slashes
  <2>2. Slashes(n) \in Seq(C)
    BY <1>1, <2>1, IsASeq
  <2>3. DOMAIN Slashes(n) = 1 .. n /\ DOMAIN Slashes(n) = 1 .. Len(Slashes(n)) /\ Len(Slashes(n)) \in Nat
    BY <2>1, <2>2, LenProperties
  <2>4. Len(Slashes(n)) = n
    BY ONLY <2>3, n \in Nat, SMT
  <2> QED
    BY <2>1, <2>2, <2>4
<1>2. Slashes(0) = <<>>
  <2>1. Slashes(0) \in Seq({Slash}) /\ Len(Slashes(0)) = 0
    BY <1>1
  <2> QED
    BY <2>1, EmptySeq
<1>3. ASSUME NEW C, Slash \in C, NEW n \in Nat PROVE Slashes(n + 1) = Append(Slashes(n), Slash)
  <2> DEFINE x == Slashes(n + 1)
             y == Slashes(n)
  <2>1. x \in Seq(C) /\ Len(x) = n + 1 /\ \A i \in 1 .. n + 1 : x[i] = Slash
    BY <1>1, <1>3
  <2>2. y \in Seq(C) /\ Len(y) = n /\ \A i \in 1 .. n : y[i] = Slash
    BY <1>1, <1>3
  <2> HIDE DEF x, y
  <2>3. /\ Append(y, Slash) \in Seq(C) /\ Len(Append(y, Slash)) = n + 1
        /\ \A i \in 1 .. n : Append(y, Slash)[i] = y[i]
        /\ Append(y, Slash)[n + 1] = Slash
    BY <1>3, <2>2, AppendProperties
  <2>4. \A i \in 1 .. n + 1 : Append(y, Slash)[i] = Slash
    BY <2>2, <2>3
  <2>5. x = Append(y, Slash)
    BY ONLY <2>1, <2>3, <2>4, SeqEqual
  <2> QED
    BY <2>5 DEF x, y
<1> QED
  BY <1>1, <1>2, <1>3

\* A step of the splitter, guard by guard.
LEMMA SplitCases ==
  ASSUME NEW C, NEW s \in Splits(C), NEW c
  PROVE  /\ c = Slash =>
              SplitAt(s, c) = [done |-> s.done, arg |-> s.arg, reading |-> TRUE, quoted |-> s.quoted, slashes |-> s.slashes + 1]
         /\ c = QuoteMark /\ s.slashes % 2 = 0 =>
              SplitAt(s, c) = [done |-> s.done, arg |-> s.arg \o Slashes(s.slashes \div 2), reading |-> TRUE,
                               quoted |-> ~ s.quoted, slashes |-> 0]
         /\ c = QuoteMark /\ s.slashes % 2 = 1 =>
              SplitAt(s, c) = [done |-> s.done, arg |-> Append(s.arg \o Slashes(s.slashes \div 2), c), reading |-> TRUE,
                               quoted |-> s.quoted, slashes |-> 0]
         /\ c \in {Blank, Tab} /\ ~ s.quoted =>
              SplitAt(s, c) = [done |-> IF s.reading THEN Append(s.done, s.arg \o Slashes(s.slashes)) ELSE s.done,
                               arg |-> <<>>, reading |-> FALSE, quoted |-> FALSE, slashes |-> 0]
         /\ c \notin {Slash, QuoteMark} /\ (c \in {Blank, Tab} => s.quoted) =>
              SplitAt(s, c) = [done |-> s.done, arg |-> Append(s.arg \o Slashes(s.slashes), c), reading |-> TRUE,
                               quoted |-> s.quoted, slashes |-> 0]
<1>1. s = [done |-> s.done, arg |-> s.arg, reading |-> s.reading, quoted |-> s.quoted, slashes |-> s.slashes]
  BY DEF Splits
<1>2. CASE c = Slash
  BY <1>1, <1>2, Marks DEF SplitAt
<1> DEFINE half == s.slashes \div 2
           x == [s EXCEPT !.arg = @ \o Slashes(half), !.slashes = 0, !.reading = TRUE]
           part == s.arg \o Slashes(half)
<1>3. x = [done |-> s.done, arg |-> part, reading |-> TRUE, quoted |-> s.quoted, slashes |-> 0]
  <2>1. x = [s EXCEPT !.arg = part, !.slashes = 0, !.reading = TRUE]
    OBVIOUS
  <2> HIDE DEF x, part, half
  <2> QED
    BY <1>1, <2>1
<1>4. CASE c = QuoteMark /\ s.slashes % 2 = 0
  <2>1. SplitAt(s, c) = [x EXCEPT !.quoted = ~ @]
    BY <1>4, Marks DEF SplitAt
  <2>2. c = QuoteMark /\ c # Slash /\ c \notin {Blank, Tab}
    BY <1>4, Marks
  <2> HIDE DEF x, part, half
  <2>3. [x EXCEPT !.quoted = ~ @] =
          [done |-> s.done, arg |-> part, reading |-> TRUE, quoted |-> ~ s.quoted, slashes |-> 0]
    <3> DEFINE rest == ~ x.quoted
    <3>1. [x EXCEPT !.quoted = ~ @] = [x EXCEPT !.quoted = rest]
      OBVIOUS
    <3>2. x.quoted = s.quoted
      BY <1>3
    <3>3. rest = ~ s.quoted
      BY ONLY <3>2
    <3> DEFINE yes == TRUE
    <3>4. x = [done |-> s.done, arg |-> part, reading |-> yes, quoted |-> s.quoted, slashes |-> 0]
      BY ONLY <1>3
    <3> HIDE DEF rest, yes
    <3>5. [x EXCEPT !.quoted = rest] = [done |-> s.done, arg |-> part, reading |-> yes, quoted |-> rest, slashes |-> 0]
      BY ONLY <3>4
    <3> QED
      BY ONLY <3>1, <3>3, <3>5 DEF yes
  <2>4. ~ (s.slashes % 2 = 1)
    BY ONLY <1>4
  <2> QED
    BY ONLY <1>4, <2>1, <2>2, <2>3, <2>4 DEF half, part
<1>5. CASE c = QuoteMark /\ s.slashes % 2 = 1
  <2>1. ~ (s.slashes % 2 = 0)
    BY ONLY <1>5
  <2>2. SplitAt(s, c) = [x EXCEPT !.arg = Append(@, c)]
    BY <1>5, <2>1, Marks DEF SplitAt
  <2>3. c = QuoteMark /\ c # Slash /\ c \notin {Blank, Tab}
    BY <1>5, Marks
  <2> HIDE DEF x, part, half
  <2>4. [x EXCEPT !.arg = Append(@, c)] =
          [done |-> s.done, arg |-> Append(part, c), reading |-> TRUE, quoted |-> s.quoted, slashes |-> 0]
    <3> DEFINE longer == Append(x.arg, c)
    <3>1. [x EXCEPT !.arg = Append(@, c)] = [x EXCEPT !.arg = longer]
      OBVIOUS
    <3>2. longer = Append(part, c)
      BY <1>3
    <3> DEFINE yes == TRUE
    <3>3. x = [done |-> s.done, arg |-> part, reading |-> yes, quoted |-> s.quoted, slashes |-> 0]
      BY ONLY <1>3
    <3> HIDE DEF longer, yes
    <3>4. [x EXCEPT !.arg = longer] = [done |-> s.done, arg |-> longer, reading |-> yes, quoted |-> s.quoted, slashes |-> 0]
      BY ONLY <3>3
    <3> QED
      BY ONLY <3>1, <3>2, <3>4 DEF yes
  <2> QED
    BY ONLY <1>5, <2>1, <2>2, <2>3, <2>4 DEF half, part
<1>6. CASE c \in {Blank, Tab} /\ ~ s.quoted
  BY <1>1, <1>6, Marks DEF SplitAt, Start
<1>7. CASE c \notin {Slash, QuoteMark} /\ (c \in {Blank, Tab} => s.quoted)
  BY <1>1, <1>7, Marks DEF SplitAt
<1> QED
  BY <1>2, <1>4, <1>5, <1>6, <1>7, Marks

\* A step leads to a state of the splitter.
LEMMA SplitTyped ==
  ASSUME NEW C, {Slash, QuoteMark} \subseteq C, NEW s \in Splits(C), NEW c \in C
  PROVE  SplitAt(s, c) \in Splits(C)
<1>1. /\ s.done \in Seq(Seq(C)) /\ s.arg \in Seq(C) /\ s.reading \in BOOLEAN /\ s.quoted \in BOOLEAN
      /\ s.slashes \in Nat /\ s.slashes \div 2 \in Nat /\ (s.slashes % 2 = 0 \/ s.slashes % 2 = 1)
  BY DEF Splits
<1>2. \A n \in Nat : s.arg \o Slashes(n) \in Seq(C)
  <2>1. \A n \in Nat : Slashes(n) \in Seq(C)
    BY SlashesFacts
  <2> QED
    BY <1>1, <2>1, ConcatProperties
<1>3. /\ \A x \in Seq(C) : Append(x, c) \in Seq(C) /\ Append(s.done, x) \in Seq(Seq(C))
      /\ <<>> \in Seq(C)
  BY <1>1, AppendProperties, EmptySeq
<1>4. \A d \in Seq(Seq(C)), a \in Seq(C), r, q \in BOOLEAN, n \in Nat :
        [done |-> d, arg |-> a, reading |-> r, quoted |-> q, slashes |-> n] \in Splits(C)
  BY DEF Splits
<1> DEFINE made(d, a, r, q, n) == [done |-> d, arg |-> a, reading |-> r, quoted |-> q, slashes |-> n]
           half == s.slashes \div 2
           all == s.arg \o Slashes(s.slashes)
           some == s.arg \o Slashes(half)
<1>5. /\ c = Slash => SplitAt(s, c) = made(s.done, s.arg, TRUE, s.quoted, s.slashes + 1)
      /\ c = QuoteMark /\ s.slashes % 2 = 0 => SplitAt(s, c) = made(s.done, some, TRUE, ~ s.quoted, 0)
      /\ c = QuoteMark /\ s.slashes % 2 = 1 => SplitAt(s, c) = made(s.done, Append(some, c), TRUE, s.quoted, 0)
      /\ c \in {Blank, Tab} /\ ~ s.quoted =>
           SplitAt(s, c) = made(IF s.reading THEN Append(s.done, all) ELSE s.done, <<>>, FALSE, FALSE, 0)
      /\ c \notin {Slash, QuoteMark} /\ (c \in {Blank, Tab} => s.quoted) =>
           SplitAt(s, c) = made(s.done, Append(all, c), TRUE, s.quoted, 0)
  BY SplitCases
<1>6. /\ all \in Seq(C) /\ some \in Seq(C) /\ Append(all, c) \in Seq(C) /\ Append(some, c) \in Seq(C)
      /\ Append(s.done, all) \in Seq(Seq(C)) /\ (IF s.reading THEN Append(s.done, all) ELSE s.done) \in Seq(Seq(C))
      /\ s.slashes + 1 \in Nat /\ 0 \in Nat /\ TRUE \in BOOLEAN /\ FALSE \in BOOLEAN /\ (~ s.quoted) \in BOOLEAN
  <2>1. all \in Seq(C) /\ some \in Seq(C)
    BY <1>1, <1>2
  <2> HIDE DEF all, some
  <2> QED
    BY <1>1, <1>3, <2>1
<1>7. \A d \in Seq(Seq(C)), a \in Seq(C), r, q \in BOOLEAN, n \in Nat : made(d, a, r, q, n) \in Splits(C)
  BY <1>4
<1> DEFINE more == IF s.reading THEN Append(s.done, all) ELSE s.done
           rest == ~ s.quoted
<1>8. more \in Seq(Seq(C)) /\ rest \in BOOLEAN
  BY <1>6
<1> HIDE DEF made, all, some, more, rest
<1>9. /\ made(s.done, s.arg, TRUE, s.quoted, s.slashes + 1) \in Splits(C)
      /\ made(s.done, some, TRUE, rest, 0) \in Splits(C)
      /\ made(s.done, Append(some, c), TRUE, s.quoted, 0) \in Splits(C)
      /\ made(more, <<>>, FALSE, FALSE, 0) \in Splits(C)
      /\ made(s.done, Append(all, c), TRUE, s.quoted, 0) \in Splits(C)
  BY ONLY <1>1, <1>3, <1>6, <1>7, <1>8
<1>10. \/ c = Slash
       \/ c = QuoteMark /\ s.slashes % 2 = 0
       \/ c = QuoteMark /\ s.slashes % 2 = 1
       \/ c \in {Blank, Tab} /\ ~ s.quoted
       \/ c \notin {Slash, QuoteMark} /\ (c \in {Blank, Tab} => s.quoted)
  BY <1>1
<1> QED
  BY ONLY <1>5, <1>9, <1>10 DEF more, rest

-----------------------------------------------------------------------------

\* The splitter has done the arguments d, and read x of the next one, in
\* quotes or not; backslashes wait for the next character.
ReadsOn(C, s, d, x, q) ==
  /\ s \in Splits(C) /\ s.done = d /\ s.quoted = q
  /\ s.arg \o Slashes(s.slashes) = x
  /\ x = <<>> \/ x[Len(x)] # Slash => s.slashes = 0

\* A character of an argument, when it is no quote, and no blank outside quotes.
LEMMA CharRead ==
  ASSUME NEW C, {Slash, QuoteMark} \subseteq C, NEW s, NEW d, NEW x \in Seq(C), NEW q \in BOOLEAN,
         ReadsOn(C, s, d, x, q), NEW c \in C, c # QuoteMark, c \in {Blank, Tab} => q
  PROVE  ReadsOn(C, SplitAt(s, c), d, Append(x, c), q) /\ SplitAt(s, c).reading
<1> DEFINE n == s.slashes
           a == s.arg
           t == SplitAt(s, c)
           y == Append(x, c)
<1>1. /\ s \in Splits(C) /\ s.done = d /\ s.quoted = q /\ a \o Slashes(n) = x
      /\ a \in Seq(C) /\ n \in Nat
  BY DEF ReadsOn, Splits
<1>2. t \in Splits(C)
  BY <1>1, SplitTyped
<1>3. y \in Seq(C) /\ y # <<>> /\ y[Len(y)] = c
  <2>1. y \in Seq(C) /\ y # <<>> /\ Len(y) = Len(x) + 1 /\ y[Len(x) + 1] = c
    BY AppendProperties
  <2> HIDE DEF y
  <2> QED
    BY <2>1
<1>4. CASE c = Slash
  <2>1. t = [done |-> d, arg |-> a, reading |-> TRUE, quoted |-> q, slashes |-> n + 1]
    BY <1>1, <1>4, SplitCases
  <2>2. t.done = d /\ t.arg = a /\ t.reading = TRUE /\ t.quoted = q /\ t.slashes = n + 1
    BY ONLY <2>1
  <2>3. a \o Slashes(n + 1) = y
    <3>1. Slashes(n) \in Seq(C) /\ Slashes(n + 1) = Append(Slashes(n), Slash)
      BY <1>1, SlashesFacts
    <3>2. Append(Slashes(n), Slash) = Slashes(n) \o <<Slash>> /\ Append(x, Slash) = x \o <<Slash>>
      BY <3>1, AppendIsConcat
    <3>3. <<Slash>> \in Seq(C)
      BY OneOf
    <3>4. (a \o Slashes(n)) \o <<Slash>> = a \o (Slashes(n) \o <<Slash>>)
      <4> DEFINE u == Slashes(n)
                 v == <<Slash>>
      <4>1. a \in Seq(C) /\ u \in Seq(C) /\ v \in Seq(C)
        BY <1>1, <3>1, <3>3
      <4> HIDE DEF a, u, v
      <4>2. (a \o u) \o v = a \o (u \o v)
        BY ONLY <4>1, ConcatAssociative
      <4> QED
        BY ONLY <4>2 DEF u, v
    <3> QED
      BY ONLY <1>1, <1>4, <3>1, <3>2, <3>4
  <2> HIDE DEF t, y
  <2> QED
    BY ONLY <1>2, <1>3, <1>4, <2>2, <2>3 DEF ReadsOn, t, y
<1>5. CASE c # Slash
  <2>1. c \notin {Slash, QuoteMark} /\ (c \in {Blank, Tab} => s.quoted)
    BY <1>1, <1>5
  <2>2. t = [done |-> s.done, arg |-> Append(s.arg \o Slashes(s.slashes), c), reading |-> TRUE, quoted |-> s.quoted, slashes |-> 0]
    BY <1>1, <2>1, SplitCases
  <2>3. t = [done |-> d, arg |-> y, reading |-> TRUE, quoted |-> q, slashes |-> 0]
    BY ONLY <1>1, <2>2 DEF y
  <2>4. t.done = d /\ t.arg = y /\ t.reading = TRUE /\ t.quoted = q /\ t.slashes = 0
    BY ONLY <2>3
  <2>5. y \o Slashes(0) = y
    BY <1>3, SlashesFacts, ConcatEmptySeq
  <2> HIDE DEF t, y
  <2> QED
    BY ONLY <1>2, <2>4, <2>5 DEF ReadsOn, t, y
<1> QED
  BY <1>4, <1>5

\* The first characters of a text, with one more.
LEMMA OneLonger ==
  ASSUME NEW C, NEW x \in Seq(C), NEW k \in 1 .. Len(x)
  PROVE  /\ SubSeq(x, 1, k - 1) \in Seq(C)
         /\ SubSeq(x, 1, k) = Append(SubSeq(x, 1, k - 1), x[k])
<1>1. \A i \in 1 .. Len(x) : x[i] \in C
  BY ElementOfSeq
<1>2. Len(x) \in Nat
  BY LenProperties
<1>3. SubSeq(x, 1, k - 1) \in Seq(C)
  BY <1>1, <1>2, SubSeqProperties
<1>4. SubSeq(x, 1, k) = Append(SubSeq(x, 1, k - 1), x[k])
  BY <1>1, <1>2, SubSeqRecursiveSecond
<1> QED
  BY <1>3, <1>4

\* The characters of a text, one after the other.
LEMMA TextRead ==
  ASSUME NEW C, {Slash, QuoteMark} \subseteq C, NEW f, NEW p \in Nat, NEW d, NEW q \in BOOLEAN, NEW x \in Seq(C),
         \A i \in 1 .. Len(x) : f[p + i] = SplitAt(f[p + i - 1], x[i]),
         \A i \in 1 .. Len(x) : x[i] # QuoteMark /\ (x[i] \in {Blank, Tab} => q),
         ReadsOn(C, f[p], d, <<>>, q), x = <<>> => f[p].reading
  PROVE  ReadsOn(C, f[p + Len(x)], d, x, q) /\ f[p + Len(x)].reading
<1> DEFINE n == Len(x)
           part(k) == SubSeq(x, 1, k)
           Good(k) == ReadsOn(C, f[p + k], d, part(k), q) /\ (k = 0 \/ f[p + k].reading)
           K == {k \in Nat : k <= n => Good(k)}
<1>1. n \in Nat /\ p + 0 = p /\ \A i \in 1 .. n : x[i] \in C
  BY LenProperties, ElementOfSeq
<1>2. 0 \in K
  <2>1. part(0) = <<>>
    BY SubSeqEmpty
  <2>2. Good(0)
    BY <1>1, <2>1
  <2> QED
    BY <2>2
<1>3. ASSUME NEW k \in Nat \ {0}, k - 1 \in K PROVE k \in K
  <2> SUFFICES ASSUME k <= n PROVE Good(k)
    OBVIOUS
  <2>1. k \in 1 .. n /\ k - 1 \in Nat /\ k - 1 <= n /\ p + k - 1 = p + (k - 1) /\ k # 0
    BY <1>1
  <2>2. ReadsOn(C, f[p + (k - 1)], d, part(k - 1), q)
    BY <1>3, <2>1
  <2>3. part(k - 1) \in Seq(C) /\ part(k) = Append(part(k - 1), x[k])
    BY <2>1, OneLonger
  <2>4. f[p + k] = SplitAt(f[p + (k - 1)], x[k]) /\ x[k] \in C /\ x[k] # QuoteMark /\ (x[k] \in {Blank, Tab} => q)
    BY <1>1, <2>1
  <2> DEFINE s == f[p + (k - 1)]
             y == part(k - 1)
             c == x[k]
  <2> HIDE DEF s, y, c
  <2>5. ReadsOn(C, SplitAt(s, c), d, Append(y, c), q) /\ SplitAt(s, c).reading
    <3>1. ReadsOn(C, s, d, y, q) /\ y \in Seq(C) /\ c \in C /\ c # QuoteMark /\ (c \in {Blank, Tab} => q)
      BY ONLY <2>2, <2>3, <2>4 DEF s, y, c
    <3> QED
      BY <3>1, CharRead
  <2> QED
    BY ONLY <2>3, <2>4, <2>5 DEF s, y, c
<1> HIDE DEF K
<1>4. n \in K
  BY <1>1, <1>2, <1>3, FromBelow
<1>5. Good(n)
  BY <1>1, <1>4 DEF K
<1>6. part(n) = x
  BY SubSeqFull
<1>7. n = 0 => x = <<>>
  BY EmptySeq
<1> QED
  BY <1>1, <1>5, <1>6, <1>7

-----------------------------------------------------------------------------

\* What the characters of a text are, by place.
LEMMA Quotable ==
  ASSUME NEW C, NEW a \in Seq(C), ~ Unquotable(a)
  PROVE  /\ \A i \in 1 .. Len(a) : a[i] # QuoteMark /\ a[i] # Tab
         /\ ~ NeedsQuotes(a) => a # <<>> /\ \A i \in 1 .. Len(a) : a[i] # Blank
         /\ NeedsQuotes(a) => a = <<>> \/ a[Len(a)] # Slash
<1>1. DOMAIN a = 1 .. Len(a)
  BY LenProperties
<1>2. \A i \in 1 .. Len(a) : a[i] \in Range(a)
  BY <1>1 DEF Range
<1> QED
  BY <1>2 DEF Unquotable, NeedsQuotes, Last

\* After an argument the splitter starts again.
Again(d) == [done |-> d, arg |-> <<>>, reading |-> FALSE, quoted |-> FALSE, slashes |-> 0]

\* The next argument is empty so far.
LEMMA AgainReads ==
  ASSUME NEW C, NEW d \in Seq(Seq(C))
  PROVE  ReadsOn(C, Again(d), d, <<>>, FALSE) /\ Again(d) \in Splits(C) /\ ~ Again(d).reading
<1>1. <<>> \in Seq(C) /\ <<>> \o <<>> = <<>>
  BY EmptySeq, ConcatEmptySeq
<1>2. Again(d) \in Splits(C)
  BY <1>1 DEF Again, Splits
<1>3. Again(d).done = d /\ Again(d).arg = <<>> /\ ~ Again(d).reading /\ Again(d).quoted = FALSE /\ Again(d).slashes = 0
  BY DEF Again
<1> QED
  BY ONLY <1>1, <1>2, <1>3, SlashesFacts DEF ReadsOn

\* A quote, when no backslash is before it.
LEMMA QuoteRead ==
  ASSUME NEW C, {Slash, QuoteMark} \subseteq C, NEW s, NEW d, NEW x \in Seq(C), NEW q \in BOOLEAN,
         ReadsOn(C, s, d, x, q), x = <<>> \/ x[Len(x)] # Slash
  PROVE  ReadsOn(C, SplitAt(s, QuoteMark), d, x, ~ q) /\ SplitAt(s, QuoteMark).reading
<1> DEFINE t == SplitAt(s, QuoteMark)
           r == ~ q
<1>1. s \in Splits(C) /\ s.done = d /\ s.quoted = q /\ s.arg \o Slashes(s.slashes) = x /\ s.slashes = 0
  BY DEF ReadsOn
<1>2. 0 % 2 = 0 /\ 0 \div 2 = 0
  OBVIOUS
<1>3. t = [done |-> s.done, arg |-> s.arg \o Slashes(s.slashes \div 2), reading |-> TRUE, quoted |-> ~ s.quoted, slashes |-> 0]
  BY <1>1, <1>2, SplitCases
<1>4. t = [done |-> d, arg |-> x, reading |-> TRUE, quoted |-> r, slashes |-> 0]
  BY ONLY <1>1, <1>2, <1>3
<1>5. t.done = d /\ t.arg = x /\ t.reading = TRUE /\ t.quoted = r /\ t.slashes = 0
  BY ONLY <1>4
<1>6. t \in Splits(C)
  BY <1>1, SplitTyped
<1>7. x \o Slashes(0) = x
  BY SlashesFacts, ConcatEmptySeq
<1> HIDE DEF t
<1> QED
  BY ONLY <1>5, <1>6, <1>7 DEF ReadsOn, t

\* The places of a text in quotes.
LEMMA InQuotes ==
  ASSUME NEW C, NEW b \in C, NEW a \in Seq(C), NEW x, x = <<b>> \o a \o <<b>>
  PROVE  /\ x \in Seq(C) /\ Len(x) = Len(a) + 2 /\ x[1] = b /\ x[Len(a) + 2] = b
         /\ \A i \in 1 .. Len(a) : x[i + 1] = a[i]
<1> DEFINE q == <<b>>
           y == q \o a
           n == Len(a)
<1>1. q \in Seq(C) /\ Len(q) = 1 /\ q[1] = b /\ n \in Nat
  BY OneOf, LenProperties
<1>2. x = y \o q
  OBVIOUS
<1> HIDE DEF q
<1>3. y \in Seq(C) /\ Len(y) = 1 + n /\ \A i \in 1 .. 1 + n : y[i] = IF i <= 1 THEN q[i] ELSE a[i - 1]
  <2>1. y \in Seq(C) /\ Len(y) = Len(q) + n /\ \A i \in 1 .. Len(q) + n : y[i] = IF i <= Len(q) THEN q[i] ELSE a[i - Len(q)]
    BY <1>1, ConcatProperties
  <2> QED
    BY <1>1, <2>1
<1> HIDE DEF y
<1>4. x \in Seq(C) /\ Len(x) = (1 + n) + 1 /\ \A i \in 1 .. (1 + n) + 1 : x[i] = IF i <= 1 + n THEN y[i] ELSE q[i - (1 + n)]
  <2> DEFINE z == y \o q
  <2>1. z \in Seq(C) /\ Len(z) = Len(y) + Len(q) /\ \A i \in 1 .. Len(y) + Len(q) : z[i] = IF i <= Len(y) THEN y[i] ELSE q[i - Len(y)]
    BY <1>1, <1>3, ConcatProperties
  <2> HIDE DEF z
  <2>2. x = z
    BY <1>2 DEF z
  <2> QED
    BY ONLY <1>1, <1>3, <2>1, <2>2
<1> HIDE DEF n
<1>5. x[1] = b
  <2>1. 1 \in 1 .. (1 + n) + 1 /\ 1 \in 1 .. 1 + n /\ 1 <= 1 + n
    BY <1>1
  <2> QED
    BY <1>1, <1>3, <1>4, <2>1
<1>6. x[n + 2] = b
  <2>1. n + 2 \in 1 .. (1 + n) + 1 /\ ~ (n + 2 <= 1 + n) /\ n + 2 - (1 + n) = 1
    BY <1>1
  <2> QED
    BY ONLY <1>1, <1>4, <2>1
<1>7. ASSUME NEW i \in 1 .. n PROVE x[i + 1] = a[i]
  <2>1. i + 1 \in 1 .. (1 + n) + 1 /\ i + 1 \in 1 .. 1 + n /\ i + 1 <= 1 + n /\ ~ (i + 1 <= 1) /\ i + 1 - 1 = i
    BY <1>1
  <2> QED
    BY ONLY <1>3, <1>4, <2>1
<1>8. Len(x) = n + 2
  BY <1>1, <1>4
<1> QED
  BY <1>4, <1>5, <1>6, <1>7, <1>8 DEF n

\* An argument as it is shown is read as it was.
LEMMA ShownRead ==
  ASSUME NEW C, {Slash, QuoteMark} \subseteq C, NEW f, NEW p \in Nat, NEW d \in Seq(Seq(C)), NEW a \in Seq(C),
         ~ Unquotable(a), f[p] = Again(d),
         \A i \in 1 .. Len(Shown(a)) : f[p + i] = SplitAt(f[p + i - 1], Shown(a)[i])
  PROVE  ReadsOn(C, f[p + Len(Shown(a))], d, a, FALSE) /\ f[p + Len(Shown(a))].reading
<1> DEFINE n == Len(a)
<1>1. /\ \A i \in 1 .. n : a[i] # QuoteMark /\ a[i] # Tab
      /\ ~ NeedsQuotes(a) => a # <<>> /\ \A i \in 1 .. n : a[i] # Blank
      /\ NeedsQuotes(a) => a = <<>> \/ a[n] # Slash
  BY Quotable
<1>2. ReadsOn(C, f[p], d, <<>>, FALSE)
  BY AgainReads
<1>3. n \in Nat
  BY LenProperties
<1>4. CASE ~ NeedsQuotes(a)
  <2>1. Shown(a) = a
    BY <1>4 DEF Shown
  <2>2. \A i \in 1 .. n : f[p + i] = SplitAt(f[p + i - 1], a[i])
    BY <2>1
  <2>3. \A i \in 1 .. n : a[i] # QuoteMark /\ (a[i] \in {Blank, Tab} => FALSE)
    BY <1>1, <1>4
  <2>4. FALSE \in BOOLEAN /\ (a = <<>> => f[p].reading)
    BY <1>1, <1>4
  <2>5. ReadsOn(C, f[p + Len(a)], d, a, FALSE) /\ f[p + Len(a)].reading
    BY <1>2, <2>2, <2>3, <2>4, TextRead
  <2> QED
    BY ONLY <2>1, <2>5
<1>5. CASE NeedsQuotes(a)
  <2> DEFINE x == Shown(a)
             o == p + 1
             e == p + 1 + n
  <2>1. /\ Len(x) = n + 2 /\ x[1] = QuoteMark /\ x[n + 2] = QuoteMark
        /\ \A i \in 1 .. n : x[i + 1] = a[i]
    <3>1. x = <<QuoteMark>> \o a \o <<QuoteMark>>
      BY <1>5 DEF Shown
    <3> HIDE DEF x
    <3> QED
      BY <3>1, InQuotes
  <2>2. \A i \in 1 .. n + 2 : f[p + i] = SplitAt(f[p + i - 1], x[i])
    BY <2>1
  <2> HIDE DEF x
  <2>3. f[o] = SplitAt(f[p], QuoteMark)
    <3>1. 1 \in 1 .. n + 2 /\ p + 1 - 1 = p
      BY <1>3
    <3> QED
      BY ONLY <2>1, <2>2, <3>1
  <2>4. ReadsOn(C, f[o], d, <<>>, TRUE) /\ f[o].reading
    <3>1. <<>> \in Seq(C) /\ FALSE \in BOOLEAN /\ ~ FALSE = TRUE
      BY EmptySeq
    <3>2. ReadsOn(C, SplitAt(f[p], QuoteMark), d, <<>>, ~ FALSE) /\ SplitAt(f[p], QuoteMark).reading
      BY <1>2, <3>1, QuoteRead
    <3> QED
      BY ONLY <2>3, <3>1, <3>2
  <2>5. ReadsOn(C, f[o + n], d, a, TRUE) /\ f[o + n].reading
    <3>1. ASSUME NEW i \in 1 .. n PROVE f[o + i] = SplitAt(f[o + i - 1], a[i])
      <4>1. i + 1 \in 1 .. n + 2 /\ p + (i + 1) = o + i /\ p + (i + 1) - 1 = o + i - 1
        BY <1>3
      <4> QED
        BY ONLY <2>1, <2>2, <4>1
    <3>2. \A i \in 1 .. n : a[i] # QuoteMark /\ (a[i] \in {Blank, Tab} => TRUE)
      BY <1>1
    <3>3. o \in Nat /\ TRUE \in BOOLEAN
      OBVIOUS
    <3> HIDE DEF o
    <3> QED
      BY <2>4, <3>1, <3>2, <3>3, TextRead
  <2>6. f[p + (n + 2)] = SplitAt(f[o + n], QuoteMark)
    <3>1. n + 2 \in 1 .. n + 2 /\ p + (n + 2) - 1 = o + n
      BY <1>3
    <3> QED
      BY ONLY <2>1, <2>2, <3>1
  <2>7. ReadsOn(C, f[p + (n + 2)], d, a, FALSE) /\ f[p + (n + 2)].reading
    <3>1. a = <<>> \/ a[Len(a)] # Slash
      BY <1>1, <1>5
    <3>2. TRUE \in BOOLEAN /\ (~ TRUE) = FALSE
      OBVIOUS
    <3> DEFINE s == f[o + n]
    <3>3. ReadsOn(C, s, d, a, TRUE)
      BY <2>5
    <3> HIDE DEF s
    <3>4. ReadsOn(C, SplitAt(s, QuoteMark), d, a, ~ TRUE) /\ SplitAt(s, QuoteMark).reading
      BY <3>1, <3>2, <3>3, QuoteRead
    <3> QED
      BY ONLY <2>6, <3>2, <3>4 DEF s
  <2> QED
    BY ONLY <2>1, <2>7 DEF x
<1> QED
  BY <1>4, <1>5

-----------------------------------------------------------------------------

\* The states of the splitter along a line.
SplitsAlong(line, f) == f = [i \in 0 .. Len(line) |-> IF i = 0 THEN Start ELSE SplitAt(f[i - 1], line[i])]

\* The states of the splitter along a line exist.
LEMMA LineSplits ==
  ASSUME NEW C, {Slash, QuoteMark} \subseteq C, NEW line \in Seq(C)
  PROVE  \E f \in [0 .. Len(line) -> Splits(C)] :
           /\ f[0] = Again(<<>>)
           /\ \A i \in 1 .. Len(line) : f[i] = SplitAt(f[i - 1], line[i])
           /\ Arguments(line) = SplitAt([f[Len(line)] EXCEPT !.quoted = FALSE], Blank).done
<1> DEFINE n == Len(line)
           V == Splits(C)
           step == [i \in 1 .. n |-> [s \in V |-> SplitAt(s, line[i])]]
           f == CHOOSE f : SplitsAlong(line, f)
<1>1. n \in Nat /\ \A i \in 1 .. n : line[i] \in C
  BY LenProperties, ElementOfSeq
<1>2. Arguments(line) = SplitAt([f[n] EXCEPT !.quoted = FALSE], Blank).done
  BY DEF Arguments, SplitsAlong
<1>3. Start = Again(<<>>) /\ Start \in V
  <2>1. <<>> \in Seq(Seq(C))
    BY EmptySeq
  <2>2. Start = Again(<<>>)
    BY DEF Start, Again
  <2> QED
    BY <2>1, <2>2, AgainReads
<1>4. \A i \in 1 .. n : \A s \in V : SplitAt(s, line[i]) \in V
  BY <1>1, SplitTyped
<1> HIDE DEF V, n
<1>5. \A i \in 1 .. n : \A s \in V : step[i][s] = SplitAt(s, line[i]) /\ step[i][s] \in V
  BY <1>4
<1> HIDE DEF step
<1>6. ASSUME NEW g \in [0 .. n -> V], Recurs(n, Start, step, g) PROVE SplitsAlong(line, g)
  <2> DEFINE u(i) == IF i = 0 THEN Start ELSE step[i][g[i - 1]]
             v(i) == IF i = 0 THEN Start ELSE SplitAt(g[i - 1], line[i])
  <2>1. ASSUME NEW i \in 0 .. n PROVE u(i) = v(i)
    <3>1. i # 0 => i \in 1 .. n /\ g[i - 1] \in V
      BY <1>1
    <3> QED
      BY <1>5, <3>1
  <2>2. g = [i \in 0 .. n |-> u(i)]
    BY <1>6 DEF Recurs
  <2>3. [i \in 0 .. n |-> u(i)] = [i \in 0 .. n |-> v(i)]
    <3> HIDE DEF u, v
    <3> QED
      BY <2>1
  <2>4. g = [i \in 0 .. n |-> v(i)]
    BY <2>2, <2>3
  <2> QED
    BY <2>4 DEF SplitsAlong, n
<1>7. \E g : SplitsAlong(line, g)
  <2>1. \A i \in 1 .. n : \A s \in V : step[i][s] \in V
    BY <1>5
  <2>2. PICK g \in [0 .. n -> V] : Recurs(n, Start, step, g)
    BY <1>1, <1>3, <2>1, RecursionExists
  <2> QED
    BY <1>6, <2>2
<1>8. SplitsAlong(line, f)
  BY <1>7
<1> HIDE DEF f
<1> DEFINE v(i) == IF i = 0 THEN Start ELSE SplitAt(f[i - 1], line[i])
<1>9. f = [i \in 0 .. n |-> v(i)]
  BY <1>8 DEF SplitsAlong, n
<1>10. f[0] = Start /\ \A i \in 1 .. n : f[i] = SplitAt(f[i - 1], line[i])
  <2> HIDE DEF v
  <2>1. \A i \in 0 .. n : f[i] = v(i)
    BY <1>9
  <2>2. 0 \in 0 .. n /\ \A i \in 1 .. n : i \in 0 .. n /\ i # 0
    BY <1>1
  <2> QED
    BY <2>1, <2>2 DEF v
<1> DEFINE T == {i \in Nat : i <= n => f[i] \in V}
<1>11. 0 \in T
  BY <1>3, <1>10
<1>12. ASSUME NEW i \in Nat \ {0}, i - 1 \in T PROVE i \in T
  <2> SUFFICES ASSUME i <= n PROVE f[i] \in V
    OBVIOUS
  <2>1. i \in 1 .. n /\ f[i - 1] \in V
    BY <1>1, <1>12
  <2> QED
    BY <1>4, <1>10, <2>1
<1>13. \A i \in 0 .. n : f[i] \in V
  <2> HIDE DEF T
  <2>1. Nat \subseteq T
    BY <1>11, <1>12, FromBelow
  <2> QED
    BY <1>1, <2>1 DEF T
<1>14. f \in [0 .. n -> V]
  <2> HIDE DEF v
  <2> QED
    BY <1>9, <1>13
<1> QED
  BY <1>2, <1>3, <1>10, <1>14 DEF n, V

\* The piece of the line that an argument makes.
Shows(argv, k) == (IF k > 1 THEN <<Blank>> ELSE <<>>) \o Shown(argv[k])

\* An argument on the line, with the blank before it.
LEMMA PieceOfLine ==
  ASSUME NEW C, {Blank, Slash, QuoteMark} \subseteq C, NEW argv \in Seq(Seq(C)), NEW k \in 1 .. Len(argv)
  PROVE  LET x == Shown(argv[k])
             y == Shows(argv, k)
         IN  /\ x \in Seq(C) /\ Len(x) \in Nat
             /\ y \in Seq(C)
             /\ k = 1 => y = x
             /\ k > 1 => /\ Len(y) = 1 + Len(x) /\ y[1] = Blank
                         /\ \A j \in 1 .. Len(x) : y[1 + j] = x[j]
<1> DEFINE x == Shown(argv[k])
           y == Shows(argv, k)
           b == <<Blank>>
<1>1. argv[k] \in Seq(C)
  BY ElementOfSeq
<1>2. x \in Seq(C) /\ Len(x) \in Nat
  <2>1. CASE NeedsQuotes(argv[k])
    <3>1. x = <<QuoteMark>> \o argv[k] \o <<QuoteMark>>
      BY <2>1 DEF Shown
    <3> HIDE DEF x
    <3>2. x \in Seq(C)
      BY <1>1, <3>1, InQuotes
    <3> QED
      BY <3>2, LenProperties
  <2>2. CASE ~ NeedsQuotes(argv[k])
    BY <1>1, <2>2, LenProperties DEF Shown
  <2> QED
    BY <2>1, <2>2
<1>3. b \in Seq(C) /\ Len(b) = 1 /\ b[1] = Blank
  BY OneOf
<1> HIDE DEF x
<1>4. CASE k > 1
  <2>1. y = b \o x
    BY <1>4 DEF Shows, x
  <2> DEFINE z == b \o x
  <2> HIDE DEF b
  <2>2. z \in Seq(C) /\ Len(z) = Len(b) + Len(x) /\ \A i \in 1 .. Len(b) + Len(x) : z[i] = IF i <= Len(b) THEN b[i] ELSE x[i - Len(b)]
    BY <1>2, <1>3, ConcatProperties
  <2> HIDE DEF z, y
  <2>3. Len(z) = 1 + Len(x) /\ \A i \in 1 .. 1 + Len(x) : z[i] = IF i <= 1 THEN b[i] ELSE x[i - 1]
    BY <1>2, <1>3, <2>2
  <2>4. z[1] = Blank
    <3>1. 1 \in 1 .. 1 + Len(x)
      BY <1>2
    <3> QED
      BY <1>3, <2>3, <3>1
  <2>5. ASSUME NEW j \in 1 .. Len(x) PROVE z[1 + j] = x[j]
    <3>1. 1 + j \in 1 .. 1 + Len(x) /\ ~ (1 + j <= 1) /\ 1 + j - 1 = j
      BY <1>2
    <3> QED
      BY ONLY <2>3, <3>1
  <2>6. y = z /\ k # 1
    BY <1>4, <2>1 DEF z
  <2> QED
    BY ONLY <1>2, <2>2, <2>3, <2>4, <2>5, <2>6 DEF x, y
<1>5. CASE ~ (k > 1)
  <2>1. y = <<>> \o x
    BY <1>5 DEF Shows, x
  <2>2. y = x
    BY <1>2, <2>1, ConcatEmptySeq
  <2> HIDE DEF y
  <2> QED
    BY ONLY <1>2, <1>5, <2>2 DEF x, y
<1> QED
  BY <1>4, <1>5

-----------------------------------------------------------------------------

\* A blank ends an argument that is not in quotes.
LEMMA ArgumentEnds ==
  ASSUME NEW C, NEW s, NEW d, NEW x, ReadsOn(C, s, d, x, FALSE), s.reading
  PROVE  SplitAt(s, Blank) = Again(Append(d, x))
<1>1. s \in Splits(C) /\ s.done = d /\ ~ s.quoted /\ s.arg \o Slashes(s.slashes) = x
  BY DEF ReadsOn
<1>2. SplitAt(s, Blank) = [done |-> IF s.reading THEN Append(s.done, s.arg \o Slashes(s.slashes)) ELSE s.done,
                           arg |-> <<>>, reading |-> FALSE, quoted |-> FALSE, slashes |-> 0]
  BY <1>1, SplitCases
<1> QED
  BY ONLY s.reading, <1>1, <1>2 DEF Again

\* The end of the line leaves an argument outside quotes as it is.
LEMMA QuoteClosed ==
  ASSUME NEW C, NEW s, NEW d, NEW x, ReadsOn(C, s, d, x, FALSE), s.reading
  PROVE  ReadsOn(C, [s EXCEPT !.quoted = FALSE], d, x, FALSE) /\ [s EXCEPT !.quoted = FALSE].reading
<1> DEFINE t == [s EXCEPT !.quoted = FALSE]
<1>1. s \in Splits(C) /\ s.quoted = FALSE
  BY DEF ReadsOn
<1>2. /\ t \in Splits(C) /\ t.quoted = FALSE /\ t.done = s.done /\ t.arg = s.arg
      /\ t.reading = s.reading /\ t.slashes = s.slashes
  BY <1>1 DEF Splits
<1> HIDE DEF t
<1> QED
  BY <1>2 DEF ReadsOn, t

\* The line of arguments that it can hold is split into them again.
LEMMA ArgumentsBack ==
  ASSUME NEW S, NEW argv \in Seq(Seq(S)), argv # <<>>, \A k \in 1 .. Len(argv) : ~ Unquotable(argv[k])
  PROVE  Arguments(CommandLine(argv)) = argv
<1> DEFINE C == S \cup {Blank, Slash, QuoteMark}
           n == Len(argv)
           ss == [k \in 1 .. n |-> Shows(argv, k)]
           line == CommandLine(argv)
           d(k) == SubSeq(argv, 1, k)
<1>1. {Blank, Slash, QuoteMark} \subseteq C /\ {Slash, QuoteMark} \subseteq C
  OBVIOUS
<1>2. argv \in Seq(Seq(C))
  <2>1. Seq(S) \subseteq Seq(C)
    <3>1. S \subseteq C
      OBVIOUS
    <3> QED
      BY <3>1, SeqMonotonic
  <2> HIDE DEF C
  <2> QED
    BY <2>1, SeqMonotonic
<1> HIDE DEF C
<1>3. n \in Nat /\ n > 0 /\ DOMAIN argv = 1 .. n /\ \A k \in 1 .. n : argv[k] \in Seq(C) /\ ~ Unquotable(argv[k])
  <2>1. n \in Nat /\ DOMAIN argv = 1 .. n
    BY LenProperties
  <2>2. n # 0
    BY EmptySeq
  <2>3. \A k \in 1 .. n : argv[k] \in Seq(C)
    BY <1>2, ElementOfSeq
  <2> QED
    BY <2>1, <2>2, <2>3
<1>4. line = FlattenSeq(ss)
  BY <1>3 DEF CommandLine, Shows
<1>5. ASSUME NEW k \in 1 .. n
      PROVE  /\ Shown(argv[k]) \in Seq(C) /\ Len(Shown(argv[k])) \in Nat
             /\ ss[k] \in Seq(C)
             /\ k = 1 => ss[k] = Shown(argv[k])
             /\ k > 1 => /\ Len(ss[k]) = 1 + Len(Shown(argv[k])) /\ ss[k][1] = Blank
                         /\ \A j \in 1 .. Len(Shown(argv[k])) : ss[k][1 + j] = Shown(argv[k])[j]
  <2>1. ss[k] = Shows(argv, k)
    OBVIOUS
  <2> HIDE DEF ss
  <2> QED
    BY <1>1, <1>2, <2>1, PieceOfLine
<1>6. ss \in Seq(Seq(C)) /\ Len(ss) = n
  <2>1. \A k \in 1 .. n : Shows(argv, k) \in Seq(C)
    BY <1>5
  <2>2. ss \in Seq(Seq(C))
    BY <1>3, <2>1, IsASeq
  <2>3. DOMAIN ss = 1 .. n
    OBVIOUS
  <2> HIDE DEF ss
  <2>4. DOMAIN ss = 1 .. Len(ss) /\ Len(ss) \in Nat
    BY <2>2, LenProperties
  <2>5. Len(ss) = n
    BY ONLY <1>3, <2>3, <2>4, SMT
  <2> QED
    BY <2>2, <2>5
<1> HIDE DEF ss, n
<1>7. PICK pos \in [0 .. n -> Nat] : Places(ss, pos)
  BY <1>6, FlattenPlaces
<1> DEFINE m == Len(line)
<1>8. /\ pos[0] = 0 /\ m = pos[n]
      /\ \A k \in 1 .. n : /\ pos[k] = pos[k - 1] + Len(ss[k]) /\ pos[k] <= m
                           /\ \A j \in 1 .. Len(ss[k]) : line[pos[k - 1] + j] = ss[k][j]
  BY <1>4, <1>6, <1>7 DEF Places
<1>9. line \in Seq(C)
  <2>1. PICK g \in [0 .. n -> Seq(C)] : line = g[n]
    BY <1>4, <1>6, FlattenSteps
  <2>2. n \in 0 .. n
    BY <1>3
  <2> QED
    BY ONLY <2>1, <2>2
<1> HIDE DEF line
<1>10. PICK f \in [0 .. m -> Splits(C)] :
         /\ f[0] = Again(<<>>)
         /\ \A i \in 1 .. m : f[i] = SplitAt(f[i - 1], line[i])
         /\ Arguments(line) = SplitAt([f[m] EXCEPT !.quoted = FALSE], Blank).done
  BY <1>1, <1>9, LineSplits
<1> HIDE DEF m
<1>11. ASSUME NEW k \in 1 .. n
       PROVE  /\ k - 1 \in 0 .. n /\ pos[k - 1] \in Nat /\ Len(ss[k]) \in Nat
              /\ \A j \in 1 .. Len(ss[k]) : f[pos[k - 1] + j] = SplitAt(f[pos[k - 1] + j - 1], ss[k][j])
  <2>1. k - 1 \in 0 .. n /\ pos[k - 1] \in Nat /\ Len(ss[k]) \in Nat
    <3>1. k - 1 \in 0 .. n
      BY <1>3
    <3> QED
      BY <1>5, <3>1, LenProperties
  <2>2. ASSUME NEW j \in 1 .. Len(ss[k]) PROVE f[pos[k - 1] + j] = SplitAt(f[pos[k - 1] + j - 1], ss[k][j])
    <3>1. m \in Nat
      BY <1>9, LenProperties DEF m
    <3>2. pos[k] = pos[k - 1] + Len(ss[k]) /\ pos[k] <= m
      BY <1>8
    <3>3. pos[k - 1] + j \in 1 .. m
      BY <2>1, <3>1, <3>2
    <3>4. line[pos[k - 1] + j] = ss[k][j]
      BY <1>8
    <3>5. \A i \in 1 .. m : f[i] = SplitAt(f[i - 1], line[i])
      BY ONLY <1>10
    <3> DEFINE i == pos[k - 1] + j
    <3>6. i \in 1 .. m /\ line[i] = ss[k][j]
      BY ONLY <3>3, <3>4
    <3> HIDE DEF i
    <3>7. f[i] = SplitAt(f[i - 1], ss[k][j])
      BY ONLY <3>5, <3>6
    <3>8. i = pos[k - 1] + j /\ i - 1 = pos[k - 1] + j - 1
      BY <2>1 DEF i
    <3> QED
      BY ONLY <3>7, <3>8
  <2> QED
    BY <2>1, <2>2
<1>12. ASSUME NEW k \in 1 .. n
       PROVE  d(k - 1) \in Seq(Seq(C)) /\ d(k) = Append(d(k - 1), argv[k])
  BY <1>2, OneLonger DEF n
<1> DEFINE Good(k) == ReadsOn(C, f[pos[k]], d(k - 1), argv[k], FALSE) /\ f[pos[k]].reading
           K == {k \in Nat : k = 0 \/ (k <= n => Good(k))}
<1> HIDE DEF d
<1>13. ASSUME NEW k \in Nat \ {0}, k - 1 \in K PROVE k \in K
  <2> SUFFICES ASSUME k <= n PROVE Good(k)
    OBVIOUS
  <2>1. k \in 1 .. n
    OBVIOUS
  <2> DEFINE a == argv[k]
             x == Shown(a)
             p == pos[k - 1]
             e == d(k - 1)
  <2>2. a \in Seq(C) /\ ~ Unquotable(a) /\ x \in Seq(C) /\ Len(x) \in Nat /\ e \in Seq(Seq(C))
    BY <1>3, <1>5, <1>12, <2>1
  <2>3. CASE k = 1
    <3>1. p = 0 /\ e = <<>> /\ ss[k] = x
      <4>1. k - 1 = 0
        BY <2>3
      <4>2. d(0) = <<>>
        BY SubSeqEmpty DEF d
      <4> QED
        BY ONLY <1>5, <1>8, <2>1, <2>3, <4>1, <4>2
    <3>2. f[p] = Again(e)
      BY ONLY <1>10, <3>1
    <3>3. \A i \in 1 .. Len(x) : f[p + i] = SplitAt(f[p + i - 1], x[i])
      BY ONLY <1>11, <2>1, <3>1
    <3>4. p \in Nat
      BY <1>11, <2>1
    <3>5. pos[k] = p + Len(x)
      BY ONLY <1>8, <2>1, <3>1
    <3> HIDE DEF a, p, e
    <3>6. ReadsOn(C, f[p + Len(Shown(a))], e, a, FALSE) /\ f[p + Len(Shown(a))].reading
      BY <1>1, <2>2, <3>2, <3>3, <3>4, ShownRead
    <3> QED
      BY ONLY <3>5, <3>6 DEF a, p, e
  <2>4. CASE k # 1
    <3>1. k > 1 /\ k - 1 \in 1 .. n /\ k - 1 # 0
      BY <1>3, <2>1, <2>4
    <3>2. /\ Len(ss[k]) = 1 + Len(x) /\ ss[k][1] = Blank
          /\ \A j \in 1 .. Len(x) : ss[k][1 + j] = x[j]
      BY <1>5, <2>1, <3>1
    <3>3. /\ p \in Nat
          /\ \A j \in 1 .. Len(ss[k]) : f[p + j] = SplitAt(f[p + j - 1], ss[k][j])
      BY ONLY <1>11, <2>1
    <3>4. pos[k] = p + Len(ss[k])
      BY ONLY <1>8, <2>1
    <3>5. Good(k - 1)
      <4>1. k - 1 <= n
        BY <1>3, <3>1
      <4>2. k - 1 = 0 \/ (k - 1 <= n => Good(k - 1))
        BY <1>13
      <4> HIDE DEF Good
      <4> QED
        BY ONLY <3>1, <4>1, <4>2
    <3>6. SplitAt(f[p], Blank) = Again(e)
      <4>1. ReadsOn(C, f[p], d(k - 1 - 1), argv[k - 1], FALSE) /\ f[p].reading
        BY <3>5
      <4>2. SplitAt(f[p], Blank) = Again(Append(d(k - 1 - 1), argv[k - 1]))
        BY <4>1, ArgumentEnds
      <4>3. d(k - 1) = Append(d(k - 1 - 1), argv[k - 1])
        BY <1>12, <3>1
      <4> QED
        BY <4>2, <4>3
    <3> DEFINE o == p + 1
    <3> HIDE DEF p, e, x
    <3>7. f[o] = Again(e)
      <4>1. 1 \in 1 .. Len(ss[k]) /\ p + 1 - 1 = p
        BY <2>2, <3>2, <3>3
      <4> QED
        BY ONLY <3>2, <3>3, <3>6, <4>1
    <3>8. ASSUME NEW i \in 1 .. Len(x) PROVE f[o + i] = SplitAt(f[o + i - 1], x[i])
      <4>1. 1 + i \in 1 .. Len(ss[k]) /\ p + (1 + i) = o + i /\ p + (1 + i) - 1 = o + i - 1
        BY <2>2, <3>2, <3>3
      <4>2. ss[k][1 + i] = x[i]
        BY <3>2
      <4> QED
        BY ONLY <3>3, <4>1, <4>2
    <3>9. o \in Nat /\ pos[k] = o + Len(x)
      BY <2>2, <3>2, <3>3, <3>4
    <3> HIDE DEF o, a
    <3>10. ReadsOn(C, f[o + Len(Shown(a))], e, a, FALSE) /\ f[o + Len(Shown(a))].reading
      BY <1>1, <2>2, <3>7, <3>8, <3>9, ShownRead DEF x
    <3> QED
      BY ONLY <3>9, <3>10 DEF a, e, x
  <2> QED
    BY <2>3, <2>4
<1>14. 0 \in K
  OBVIOUS
<1> HIDE DEF K
<1>15. n \in K
  BY <1>3, <1>13, <1>14, FromBelow
<1>16. Good(n)
  <2>1. n # 0 /\ n <= n
    BY <1>3
  <2> HIDE DEF Good
  <2> QED
    BY <1>15, <2>1 DEF K
<1>17. Arguments(line) = Append(d(n - 1), argv[n])
  <2> DEFINE s == f[m]
             t == [s EXCEPT !.quoted = FALSE]
             e == d(n - 1)
             a == argv[n]
  <2>1. ReadsOn(C, s, e, a, FALSE) /\ s.reading
    BY ONLY <1>8, <1>16
  <2>2. Arguments(line) = SplitAt(t, Blank).done
    BY ONLY <1>10
  <2> HIDE DEF s, e, a
  <2>3. ReadsOn(C, t, e, a, FALSE) /\ t.reading
    BY <2>1, QuoteClosed
  <2> HIDE DEF t
  <2>4. SplitAt(t, Blank) = Again(Append(e, a))
    BY <2>3, ArgumentEnds
  <2>5. SplitAt(t, Blank).done = Append(e, a)
    BY ONLY <2>4 DEF Again
  <2> QED
    BY ONLY <2>2, <2>5 DEF e, a
<1>18. n \in 1 .. n
  BY <1>3
<1>19. d(n) = Append(d(n - 1), argv[n])
  BY <1>12, <1>18
<1>20. d(n) = argv
  BY SubSeqFull DEF d, n
<1> QED
  BY ONLY <1>17, <1>19, <1>20 DEF line

-----------------------------------------------------------------------------

(* What was encoded is accepted and decoded to the same, for texts of any  *)
(* length: Base64 and Hex, UTF-16 to UTF-8 and back, UTF-8 without         *)
(* surrogates to UTF-16 and back, a JSON string that stringify writes, and *)
(* one that was read from a literal; and the command line of a process on  *)
(* Windows is split into the arguments it was made of, but for those it    *)
(* cannot hold (process_windows.c:19-22).                                  *)
THEOREM WhatIsReadBack == Spec => []RoundTrips
<1>1. Typed => RoundTrips
  <2> SUFFICES ASSUME Typed PROVE RoundTrips
    OBVIOUS
  <2>1. text \in Seq(Alphabet[kind]) /\ kind \in Kinds
    BY DEF Typed
  <2>2. \A S, T : S \subseteq T => Seq(S) \subseteq Seq(T)
    BY SeqMonotonic
  <2>3. ASSUME kind = "bytes"
        PROVE  /\ Base64Accepts(Base64Encode(text)) /\ Base64Decode(Base64Encode(text)) = text
               /\ HexAccepts(HexEncode(text)) /\ HexDecode(HexEncode(text)) = text
    <3>1. text \in Seq(Bytes8)
      BY <2>1, <2>2, <2>3, Alphabets DEF Bytes8
    <3> QED
      BY <3>1, Base64Back, HexBack
  <2>4. ASSUME kind = "utf16", Utf16Accepts(text)
        PROVE  Utf8Valid(Utf16ToUtf8(text)) /\ Utf8ToUtf16(Utf16ToUtf8(text)) = text
    <3>1. CodeUnits \subseteq Units16
      BY SMT DEF CodeUnits, Units16
    <3>2. text \in Seq(CodeUnits)
      BY <2>1, <2>2, <2>4, Alphabets
    <3>3. text \in Seq(Units16)
      BY <2>2, <3>1, <3>2
    <3> QED
      BY <2>4, <3>3, ThroughUtf8
  <2>5. ASSUME kind = "utf8", Utf8Valid(text), NoSurrogates(text)
        PROVE  Utf16Accepts(Utf8ToUtf16(text)) /\ Utf16ToUtf8(Utf8ToUtf16(text)) = text
    <3>1. Alphabet["utf8"] \subseteq Bytes8
      <4>1. Alphabet["utf8"] \subseteq 1 .. 255
        BY <2>1, <2>5, Alphabets
      <4> QED
        BY <4>1 DEF Bytes8
    <3>2. text \in Seq(Bytes8)
      BY <2>1, <2>2, <2>5, <3>1
    <3> QED
      BY <2>5, <3>2, ThroughUtf16
  <2>6. ASSUME kind = "string" PROVE LiteralAccepts(Escaped(text)) /\ LiteralValue(Escaped(text)) = text
    <3>1. text \in Seq(1 .. 255)
      BY <2>1, <2>2, <2>6, Alphabets
    <3> QED
      BY <3>1, EscapedBack
  <2>7. ASSUME kind = "literal", LiteralAccepts(text)
        PROVE  LiteralValue(Escaped(LiteralValue(text))) = LiteralValue(text)
    <3>1. text \in Seq(Items)
      BY <2>1, <2>2, <2>7, Alphabets
    <3>2. LiteralValue(text) \in Seq(1 .. 255)
      BY <2>7, <3>1, LiteralTyped
    <3> QED
      BY <3>2, EscapedBack
  <2>8. ASSUME kind = "arguments", ~ (\E a \in Range(Argv(text)) : Unquotable(a))
        PROVE  Arguments(CommandLine(Argv(text))) = Argv(text)
    <3> DEFINE argv == Argv(text)
               S == Alphabet[kind]
    <3>1. argv \in Seq(Seq(S)) /\ argv # <<>>
      BY <2>1, ArgvTyped
    <3>2. \A k \in 1 .. Len(argv) : ~ Unquotable(argv[k])
      <4> HIDE DEF argv
      <4>1. \A k \in 1 .. Len(argv) : argv[k] \in Range(argv)
        BY <3>1, LenProperties DEF Range
      <4>2. ~ (\E a \in Range(argv) : Unquotable(a))
        BY <2>8 DEF argv
      <4> QED
        BY ONLY <4>1, <4>2
    <3> HIDE DEF argv, S
    <3>3. Arguments(CommandLine(argv)) = argv
      BY <3>1, <3>2, ArgumentsBack
    <3> QED
      BY ONLY <3>3 DEF argv
  <2> QED
    BY ONLY <2>3, <2>4, <2>5, <2>6, <2>7, <2>8 DEF RoundTrips
<1> QED
  BY <1>1, InputTyped, PTL
=============================================================================
