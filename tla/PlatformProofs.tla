---------------------------- MODULE PlatformProofs ----------------------------
(***************************************************************************)
(* Proofs about the modules of the platform, on POSIX and on Windows.      *)
(*                                                                         *)
(* File, for any users, files and descriptors: no descriptor leaks,        *)
(* appended pieces stay, and a copy that answers TEN_OK is one.            *)
(*                                                                         *)
(* Handles, for any threads, memory and numbers of the system's objects:   *)
(* every object has one owner, what runs is held, the network library is   *)
(* started before it is used, and a call's error is its own.               *)
(*                                                                         *)
(* Sync, for any threads, permits, timeouts and lengths of a second: what  *)
(* the calls on the mutex, the semaphore and the condition variable answer *)
(* is so, and no timed wait answers too early.                             *)
(***************************************************************************)
EXTENDS File, Handles, Sync, SequenceTheorems, FiniteSetTheorems, WellFoundedInduction, TLAPS

-----------------------------------------------------------------------------
(* The inductive invariant                                                 *)

(* What can hold a descriptor: the ten_file of a user, and the two files   *)
(* of its copy.                                                            *)
Kinds == {"handle", "src", "dst"}
Slot(k, u) == CASE k = "handle" -> handle[u] [] k = "src" -> src[u] [] k = "dst" -> dst[u]

OwnInv ==
  /\ \A k \in Kinds, u \in Users : Slot(k, u) # None => fd[Slot(k, u)] # None
  /\ \A k, l \in Kinds, u, v \in Users : Slot(k, u) = Slot(l, v) /\ Slot(k, u) # None => k = l /\ u = v
  /\ \A d \in Fds : fd[d] # None => \E k \in Kinds, u \in Users : Slot(k, u) = d

(* s is the end of t.                                                      *)
EndOf(s, t) == Len(s) <= Len(t) /\ \A i \in 1 .. Len(s) : s[i] = t[Len(t) - Len(s) + i]

AppendInv == \A f \in Files : EndOf(kept[f], content[f])

CopyOf(u) ==
  /\ at[u] = "idle" => src[u] = None /\ dst[u] = None
  /\ at[u] = "open" => src[u] # None /\ dst[u] = None
  /\ at[u] \in {"read", "write"} => src[u] # None /\ dst[u] # None /\ ~fd[dst[u]].append
  /\ at[u] # "write" => buf[u] = << >>
  /\ at[u] # "idle" => target[u] \in Paths

(* n pieces of s were read; d and b, what was written and what was not yet, *)
(* are these n.                                                            *)
Progress(s, n, d, b) ==
  /\ n <= Len(s) /\ Len(d) + Len(b) = n
  /\ \A i \in 1 .. Len(d) : d[i] = s[i]
  /\ \A i \in 1 .. Len(b) : b[i] = s[Len(d) + i]

Faithful(u) ==
  quiet[u] =>
    /\ at[u] = "open" => content[FileAt(src[u])] = source[u] /\ fd[src[u]].pos = 0
    /\ at[u] \in {"read", "write"} /\ FileAt(src[u]) # FileAt(dst[u]) =>
         /\ content[FileAt(src[u])] = source[u]
         /\ fd[dst[u]].pos = Len(content[FileAt(dst[u])])
         /\ Progress(source[u], fd[src[u]].pos, content[FileAt(dst[u])], buf[u])

CopyInv == \A u \in Users : CopyOf(u) /\ Faithful(u)

Inv == TypeOK /\ OwnInv /\ AppendInv /\ CopyInv

-----------------------------------------------------------------------------
(* Sequences                                                               *)

LEMMA MaxOfTwo ==
  ASSUME NEW m \in Nat, NEW n \in Nat
  PROVE  Max({m, n}) = IF m >= n THEN m ELSE n
BY DEF Max

LEMMA MinOfTwo ==
  ASSUME NEW m \in Nat, NEW n \in Nat
  PROVE  Min({m, n}) = IF m <= n THEN m ELSE n
BY DEF Min

(* y is s followed by x.                                                   *)
Concatenated(y, s, x) ==
  /\ Len(y) = Len(s) + Len(x)
  /\ \A i \in 1 .. Len(s) : y[i] = s[i]
  /\ \A i \in 1 .. Len(x) : y[Len(s) + i] = x[i]

(* A write at the end of a file joins what was there and what is written.  *)
LEMMA OverwrittenFacts ==
  ASSUME NEW S, Hole \in S, NEW s \in Seq(S), NEW p \in Nat, NEW x \in Seq(S)
  PROVE  /\ Overwritten(s, p, x) \in Seq(S)
         /\ p = Len(s) => Concatenated(Overwritten(s, p, x), s, x)
<1> DEFINE y == Overwritten(s, p, x)
           m == Len(s)
           n == Len(x)
           l == Max({m, p + n})
           e(i) == IF i \in p + 1 .. p + n THEN x[i - p] ELSE IF i <= m THEN s[i] ELSE Hole
<1>1. /\ m \in Nat /\ n \in Nat /\ (\A i \in 1 .. m : s[i] \in S) /\ (\A i \in 1 .. n : x[i] \in S)
  BY LenProperties, ElementOfSeq
<1>2. y = [i \in 1 .. l |-> e(i)]
  BY DEF Overwritten
<1> HIDE DEF y, m, n
<1>3. l = (IF m >= p + n THEN m ELSE p + n) /\ l \in Nat
  BY <1>1, MaxOfTwo
<1> HIDE DEF l
<1>4. \A i \in 1 .. l : e(i) \in S
  <2> SUFFICES ASSUME NEW i \in 1 .. l PROVE e(i) \in S
    OBVIOUS
  <2>1. CASE i \in p + 1 .. p + n
    <3>1. i - p \in 1 .. n
      BY <1>1, <2>1
    <3> QED
      BY <1>1, <2>1, <3>1
  <2>2. CASE i \notin p + 1 .. p + n
    BY <1>1, <1>3, <2>2
  <2> QED
    BY <2>1, <2>2
<1> HIDE DEF e
<1>5. y \in Seq(S) /\ Len(y) = l
  <2>1. [i \in 1 .. l |-> e(i)] \in Seq(S)
    BY <1>3, <1>4, IsASeq
  <2>2. DOMAIN y = 1 .. l
    BY <1>2
  <2>3. DOMAIN y = 1 .. Len(y) /\ Len(y) \in Nat
    BY <1>2, <2>1, LenProperties
  <2>4. Len(y) = l
    BY <1>3, <2>2, <2>3
  <2> QED
    BY <1>2, <2>1, <2>4
<1>6. ASSUME p = m
      PROVE  /\ Len(y) = m + n
             /\ \A i \in 1 .. m : y[i] = s[i]
             /\ \A i \in 1 .. n : y[m + i] = x[i]
  <2>1. l = m + n
    BY <1>1, <1>3, <1>6
  <2>2. ASSUME NEW i \in 1 .. m PROVE y[i] = s[i]
    BY <1>1, <1>2, <1>6, <2>1, <2>2 DEF e
  <2>3. ASSUME NEW i \in 1 .. n PROVE y[m + i] = x[i]
    <3>1. PICK k \in 1 .. l : k = m + i /\ k \in p + 1 .. p + n /\ k - p = i
      BY <1>1, <1>6, <2>1
    <3>2. y[k] = e(k)
      BY <1>2, <3>1
    <3>3. \A j : j \in p + 1 .. p + n => e(j) = x[j - p]
      BY DEF e
    <3> QED
      BY <3>1, <3>2, <3>3
  <2> QED
    BY <1>5, <2>1, <2>2, <2>3
<1> QED
  BY <1>5, <1>6 DEF y, m, n, Concatenated

(* What is appended to the end of a file makes the end longer.             *)
LEMMA EndGrows ==
  ASSUME NEW S, Hole \in S, NEW s \in Seq(S), NEW t \in Seq(S), NEW x \in Seq(S), EndOf(s, t)
  PROVE  EndOf(s \o x, Overwritten(t, Len(t), x))
<1> DEFINE y == Overwritten(t, Len(t), x)
<1>1. /\ Len(s) \in Nat /\ Len(t) \in Nat /\ Len(x) \in Nat
  BY LenProperties
<1>2. /\ Len(y) = Len(t) + Len(x)
      /\ \A i \in 1 .. Len(t) : y[i] = t[i]
      /\ \A i \in 1 .. Len(x) : y[Len(t) + i] = x[i]
  <2>1. Concatenated(y, t, x)
    BY <1>1, OverwrittenFacts
  <2> QED
    BY <2>1 DEF Concatenated
<1>3. /\ Len(s \o x) = Len(s) + Len(x)
      /\ \A i \in 1 .. Len(s) + Len(x) : (s \o x)[i] = IF i <= Len(s) THEN s[i] ELSE x[i - Len(s)]
  BY ConcatProperties
<1> HIDE DEF y
<1>4. ASSUME NEW i \in 1 .. Len(s) + Len(x)
      PROVE  (s \o x)[i] = y[Len(t) - Len(s) + i]
  <2>1. CASE i <= Len(s)
    <3>1. i \in 1 .. Len(s) /\ Len(t) - Len(s) + i \in 1 .. Len(t)
      BY <1>1, <2>1 DEF EndOf
    <3> QED
      BY <1>2, <1>3, <2>1, <3>1 DEF EndOf
  <2>2. CASE ~(i <= Len(s))
    <3>1. i - Len(s) \in 1 .. Len(x) /\ Len(t) - Len(s) + i = Len(t) + (i - Len(s))
      BY <1>1, <2>2
    <3> QED
      BY <1>2, <1>3, <2>2, <3>1
  <2> QED
    BY <2>1, <2>2
<1>5. Len(y) - Len(s \o x) = Len(t) - Len(s)
  BY <1>1, <1>2, <1>3
<1>6. Len(s \o x) <= Len(y)
  BY <1>1, <1>2, <1>3 DEF EndOf
<1>7. \A i \in 1 .. Len(s \o x) : (s \o x)[i] = y[Len(y) - Len(s \o x) + i]
  BY <1>3, <1>4, <1>5
<1> QED
  BY <1>6, <1>7 DEF EndOf, y

LEMMA EndIsSuffix ==
  ASSUME NEW S, NEW s \in Seq(S), NEW t \in Seq(S), EndOf(s, t)
  PROVE  IsSuffix(s, t)
<1> DEFINE m == Len(s)
           n == Len(t)
<1>1. m \in Nat /\ n \in Nat /\ m <= n
  BY LenProperties DEF EndOf
<1>2. /\ Reverse(s) \in Seq(S) /\ Len(Reverse(s)) = m
      /\ \A i \in 1 .. m : Reverse(s)[i] = s[m - i + 1]
  <2>1. Reverse(s) = [i \in 1 .. m |-> s[m - i + 1]]
    BY DEF Reverse
  <2> HIDE DEF m
  <2>2. \A i \in 1 .. m : s[m - i + 1] \in S
    BY <1>1, ElementOfSeq DEF m
  <2> QED
    BY <1>1, <2>1, <2>2, IsASeq
<1>3. /\ Reverse(t) \in Seq(S) /\ Len(Reverse(t)) = n
      /\ \A i \in 1 .. n : Reverse(t)[i] = t[n - i + 1]
  <2>1. Reverse(t) = [i \in 1 .. n |-> t[n - i + 1]]
    BY DEF Reverse
  <2> HIDE DEF n
  <2>2. \A i \in 1 .. n : t[n - i + 1] \in S
    BY <1>1, ElementOfSeq DEF n
  <2> QED
    BY <1>1, <2>1, <2>2, IsASeq
<1>4. \A i \in 1 .. m : Reverse(s)[i] = Reverse(t)[i]
  <2> SUFFICES ASSUME NEW i \in 1 .. m PROVE Reverse(s)[i] = Reverse(t)[i]
    OBVIOUS
  <2>1. m - i + 1 \in 1 .. m /\ n - m + (m - i + 1) = n - i + 1 /\ i \in 1 .. n
    BY <1>1
  <2>2. s[m - i + 1] = t[n - i + 1]
    BY <2>1 DEF EndOf
  <2> QED
    BY <1>2, <1>3, <2>1, <2>2
<1> DEFINE a == Reverse(s)
           b == Reverse(t)
<1>5. /\ SubSeq(a, 1, m) \in Seq(S) /\ Len(SubSeq(a, 1, m)) = m
      /\ \A i \in 1 .. m : SubSeq(a, 1, m)[i] = a[i]
  <2> HIDE DEF a, m
  <2>1. \A i \in 1 .. m : a[i] \in S
    BY <1>1, <1>2, ElementOfSeq DEF a
  <2> QED
    BY <1>1, <2>1, SubSeqProperties
<1>6. /\ SubSeq(b, 1, m) \in Seq(S) /\ Len(SubSeq(b, 1, m)) = m
      /\ \A i \in 1 .. m : SubSeq(b, 1, m)[i] = b[i]
  <2> HIDE DEF b, m
  <2>1. \A i \in 1 .. m : b[i] \in S
    BY <1>1, <1>3, ElementOfSeq DEF b, m
  <2> QED
    BY <1>1, <2>1, SubSeqProperties
<1>7. SubSeq(a, 1, m) = SubSeq(b, 1, m)
  <2> HIDE DEF a, b, m
  <2> QED
    BY <1>4, <1>5, <1>6, SeqEqual DEF a, b
<1> QED
  BY <1>1, <1>2, <1>3, <1>7 DEF IsSuffix, IsPrefix

-----------------------------------------------------------------------------
(* Descriptors                                                             *)

(* What a step of user u does to the others: nothing.                      *)
Undisturbed(u) ==
  \A k \in Kinds, v \in Users \ {u} :
    /\ Slot(k, v)' = Slot(k, v)
    /\ Slot(k, v) # None => fd'[Slot(k, v)] = fd[Slot(k, v)]

FdStep(u) == fd' \in [Fds -> {None} \cup Descriptors] /\ OwnInv' /\ Undisturbed(u)

LEMMA SlotType ==
  ASSUME TypeOK, NEW k \in Kinds, NEW u \in Users
  PROVE  Slot(k, u) \in Fds \cup {None}
BY DEF TypeOK, Slot, Kinds

LEMMA NoneIsNoFd == None \notin Fds /\ None \notin Descriptors /\ None \notin Files
BY FileAssumption DEF FileAssumption

LEMMA NewFdIsClosed ==
  ASSUME Closed # {}
  PROVE  NewFd \in Fds /\ fd[NewFd] = None
<1>1. Closed \subseteq Nat
  BY FileAssumption DEF FileAssumption, Closed
<1>2. \E d \in Closed : \A e \in Closed : <<e, d>> \notin OpToRel(<, Nat)
  BY <1>1, NatLessThanWellFounded, WFMin
<1>3. \A d, e \in Nat : <<e, d>> \notin OpToRel(<, Nat) => d <= e
  <2> SUFFICES ASSUME NEW d \in Nat, NEW e \in Nat, e < d
               PROVE  <<e, d>> \in {p \in Nat \X Nat : p[1] < p[2]}
    BY DEF OpToRel
  <2> QED
    OBVIOUS
<1>4. \E d \in Closed : \A e \in Closed : d <= e
  BY <1>1, <1>2, <1>3
<1> QED
  BY <1>4 DEF NewFd, Closed

(* A holder k of user u that had none gets the descriptor r.               *)
LEMMA Takes ==
  ASSUME TypeOK, OwnInv, Closed # {}, NEW k \in Kinds, NEW u \in Users, Slot(k, u) = None,
         NEW r \in Descriptors, fd' = [fd EXCEPT ![NewFd] = r],
         \A l \in Kinds, v \in Users : Slot(l, v)' = IF l = k /\ v = u THEN NewFd ELSE Slot(l, v)
  PROVE  FdStep(u) /\ fd'[NewFd] = r /\ \A d \in Fds : fd[d] # None => fd'[d] = fd[d]
<1> DEFINE n == NewFd
<1>1. n \in Fds /\ fd[n] = None /\ n # None /\ r # None
  BY NewFdIsClosed, NoneIsNoFd
<1> HIDE DEF n
<1>2. /\ fd' \in [Fds -> {None} \cup Descriptors]
      /\ \A d \in Fds : fd'[d] = IF d = n THEN r ELSE fd[d]
  BY <1>1 DEF TypeOK, n
<1>3. \A l \in Kinds, v \in Users : Slot(l, v)' = IF l = k /\ v = u THEN n ELSE Slot(l, v)
  BY DEF n
<1>4. \A l \in Kinds, v \in Users : Slot(l, v) # None => Slot(l, v) \in Fds /\ Slot(l, v) # n
  BY <1>1, SlotType DEF OwnInv
<1>5. \A l \in Kinds, v \in Users : Slot(l, v)' # None => fd'[Slot(l, v)'] # None
  BY <1>1, <1>2, <1>3, <1>4 DEF OwnInv
<1>6. \A l, m \in Kinds, v, w \in Users :
        Slot(l, v)' = Slot(m, w)' /\ Slot(l, v)' # None => l = m /\ v = w
  BY <1>1, <1>3, <1>4 DEF OwnInv
<1>7. ASSUME NEW d \in Fds, fd'[d] # None
      PROVE  \E l \in Kinds, v \in Users : Slot(l, v)' = d
  <2>1. CASE d = n
    BY <1>3, <2>1
  <2>2. CASE d # n
    <3>1. PICK l \in Kinds, v \in Users : Slot(l, v) = d
      BY <1>2, <1>7, <2>2 DEF OwnInv
    <3>2. d # None
      BY NoneIsNoFd
    <3>3. Slot(l, v)' = d
      BY <1>3, <3>1, <3>2
    <3> QED
      BY <3>3
  <2> QED
    BY <2>1, <2>2
<1>8. OwnInv'
  BY <1>5, <1>6, <1>7 DEF OwnInv
<1>9. Undisturbed(u)
  BY <1>1, <1>2, <1>3, <1>4 DEF Undisturbed
<1> QED
  BY <1>1, <1>2, <1>8, <1>9 DEF FdStep, n

(* The position of the descriptor of a holder of user u changes.           *)
LEMMA Moves ==
  ASSUME TypeOK, OwnInv, NEW k \in Kinds, NEW u \in Users, Slot(k, u) # None,
         NEW n \in Nat, fd' = [fd EXCEPT ![Slot(k, u)].pos = n], UNCHANGED <<handle, src, dst>>
  PROVE  /\ FdStep(u)
         /\ fd'[Slot(k, u)] = [fd[Slot(k, u)] EXCEPT !.pos = n]
         /\ \A d \in Fds \ {Slot(k, u)} : fd'[d] = fd[d]
<1> DEFINE s == Slot(k, u)
<1>1. s \in Fds /\ fd[s] # None /\ fd[s] \in Descriptors
  BY SlotType DEF TypeOK, OwnInv
<1>2. [fd[s] EXCEPT !.pos = n] \in Descriptors
  BY <1>1 DEF Descriptors
<1>3. \A l \in Kinds, v \in Users : Slot(l, v)' = Slot(l, v)
  BY DEF Slot, Kinds
<1>4. \A l \in Kinds, v \in Users : Slot(l, v) # None => Slot(l, v) \in Fds
  BY SlotType
<1>5. \A v \in Users \ {u}, l \in Kinds : Slot(l, v) # None => Slot(l, v) # s
  BY DEF OwnInv
<1> HIDE DEF s
<1>6. fd' = [fd EXCEPT ![s] = [fd[s] EXCEPT !.pos = n]]
  BY DEF s
<1>7. /\ fd' \in [Fds -> {None} \cup Descriptors]
      /\ fd'[s] = [fd[s] EXCEPT !.pos = n] /\ fd'[s] # None
      /\ \A d \in Fds : d # s => fd'[d] = fd[d]
  BY <1>1, <1>2, <1>6, NoneIsNoFd DEF TypeOK
<1>8. OwnInv'
  BY <1>1, <1>3, <1>4, <1>7 DEF OwnInv
<1>9. Undisturbed(u)
  BY <1>3, <1>4, <1>5, <1>7 DEF Undisturbed
<1> QED
  BY <1>7, <1>8, <1>9 DEF FdStep, s

(* The holder of u is what it holds of the kind: a ten_file, or a copy's.  *)
LEMMA SlotsOf ==
  ASSUME NEW u \in Users
  PROVE  Slot("handle", u) = handle[u] /\ Slot("src", u) = src[u] /\ Slot("dst", u) = dst[u]
         /\ "handle" \in Kinds /\ "src" \in Kinds /\ "dst" \in Kinds
BY DEF Slot, Kinds

LEMMA HolderMoves ==
  ASSUME TypeOK, OwnInv, NEW u \in Users, NEW d \in {handle[u], src[u], dst[u]}, d # None,
         NEW n \in Nat, fd' = [fd EXCEPT ![d].pos = n], UNCHANGED <<handle, src, dst>>
  PROVE  /\ FdStep(u) /\ fd'[d] = [fd[d] EXCEPT !.pos = n]
         /\ \A e \in Fds \ {d} : fd'[e] = fd[e]
<1>1. PICK k \in Kinds : Slot(k, u) = d
  BY SlotsOf
<1>2. FdStep(u) /\ fd'[Slot(k, u)] = [fd[Slot(k, u)] EXCEPT !.pos = n]
      /\ \A e \in Fds \ {Slot(k, u)} : fd'[e] = fd[e]
  BY <1>1, Moves
<1> QED
  BY <1>1, <1>2

(* The holders K of user u give up what they hold.                         *)
LEMMA Frees ==
  ASSUME TypeOK, OwnInv, NEW K \in SUBSET Kinds, NEW u \in Users,
         fd' = [d \in Fds |-> IF d \in {Slot(k, u) : k \in K} THEN None ELSE fd[d]],
         \A l \in Kinds, v \in Users : Slot(l, v)' = IF l \in K /\ v = u THEN None ELSE Slot(l, v)
  PROVE  FdStep(u)
<1>1. fd' \in [Fds -> {None} \cup Descriptors]
  BY DEF TypeOK
<1>2. \A d \in Fds : fd'[d] = IF \E k \in K : d = Slot(k, u) THEN None ELSE fd[d]
  OBVIOUS
<1>3. \A l \in Kinds, v \in Users : Slot(l, v) # None => Slot(l, v) \in Fds
  BY SlotType
<1>4. \A l \in Kinds, v \in Users :
        Slot(l, v) # None /\ ~(l \in K /\ v = u) => fd'[Slot(l, v)] = fd[Slot(l, v)]
  BY <1>2, <1>3 DEF OwnInv
<1>5. \A l \in Kinds, v \in Users : Slot(l, v)' # None => fd'[Slot(l, v)'] # None
  BY <1>4 DEF OwnInv
<1>6. \A l, m \in Kinds, v, w \in Users :
        Slot(l, v)' = Slot(m, w)' /\ Slot(l, v)' # None => l = m /\ v = w
  BY DEF OwnInv
<1>7. \A d \in Fds : fd'[d] # None => \E l \in Kinds, v \in Users : Slot(l, v)' = d
  BY <1>2 DEF OwnInv
<1>8. OwnInv'
  BY <1>5, <1>6, <1>7 DEF OwnInv
<1>9. Undisturbed(u)
  BY <1>4 DEF Undisturbed
<1> QED
  BY <1>1, <1>8, <1>9 DEF FdStep

LEMMA Keeps ==
  ASSUME TypeOK, OwnInv, NEW u \in Users, UNCHANGED <<fd, handle, src, dst>>
  PROVE  FdStep(u)
<1>1. \A l \in Kinds, v \in Users : Slot(l, v)' = Slot(l, v)
  BY DEF Slot, Kinds
<1> QED
  BY <1>1 DEF FdStep, OwnInv, Undisturbed, TypeOK

-----------------------------------------------------------------------------
(* Files                                                                   *)

DiskStep ==
  /\ dir' \in [Paths -> Files \cup {None}]
  /\ content' \in [Files -> Seq(Pieces)] /\ kept' \in [Files -> Seq(Pieces)]
  /\ AppendInv'

LEMMA NothingIsTheEnd ==
  ASSUME NEW S, NEW t \in Seq(S)
  PROVE  << >> \in Seq(S) /\ EndOf(<< >>, t)
<1>1. Len(t) \in Nat
  BY LenProperties
<1> QED
  BY <1>1, EmptySeq DEF EndOf

LEMMA OnDisk ==
  ASSUME TypeOK, UNCHANGED disk, AppendInv
  PROVE  DiskStep
BY DEF TypeOK, disk, DiskStep, AppendInv

(* What keeps the end of every file but f, and that of f or nothing of it. *)
LEMMA OneFile ==
  ASSUME TypeOK, AppendInv, NEW f \in Files, NEW c \in Seq(Pieces), NEW k \in Seq(Pieces), EndOf(k, c),
         content' = [content EXCEPT ![f] = c], kept' = [kept EXCEPT ![f] = k],
         dir' \in [Paths -> Files \cup {None}]
  PROVE  DiskStep /\ content'[f] = c /\ \A g \in Files \ {f} : content'[g] = content[g]
<1>1. /\ content' \in [Files -> Seq(Pieces)] /\ kept' \in [Files -> Seq(Pieces)]
      /\ content'[f] = c /\ kept'[f] = k
      /\ \A g \in Files \ {f} : content'[g] = content[g] /\ kept'[g] = kept[g]
  BY DEF TypeOK
<1>2. \A g \in Files : EndOf(kept'[g], content'[g])
  BY <1>1 DEF AppendInv
<1> QED
  BY <1>1, <1>2 DEF DiskStep, AppendInv

LEMMA NamesOnDisk ==
  ASSUME TypeOK, AppendInv, NEW path \in Paths, NEW m, NEW f \in Files, Names(path, m, f)
  PROVE  /\ DiskStep
         /\ \A g \in Files \ {f} : content'[g] = content[g]
         /\ Flags(m).truncate => content'[f] = << >>
         /\ ~Flags(m).truncate /\ ~Flags(m).create => content'[f] = content[f]
<1> USE DEF Names
<1>1. dir' \in [Paths -> Files \cup {None}]
  BY DEF TypeOK
<1>2. CASE dir[path] = None \/ Flags(m).truncate
  <2>1. << >> \in Seq(Pieces) /\ EndOf(<< >>, << >>)
    BY EmptySeq, NothingIsTheEnd
  <2>2. DiskStep /\ content'[f] = << >> /\ \A g \in Files \ {f} : content'[g] = content[g]
    BY <1>1, <1>2, <2>1, OneFile
  <2>3. ~Flags(m).create => dir[path] = f
    OBVIOUS
  <2> QED
    BY <1>2, <2>2, <2>3, NoneIsNoFd
<1>3. CASE ~(dir[path] = None \/ Flags(m).truncate)
  BY <1>1, <1>3 DEF TypeOK, DiskStep, AppendInv
<1> QED
  BY <1>2, <1>3

LEMMA OverwrittenIsSeq ==
  ASSUME NEW t \in Seq(Pieces), NEW p \in Nat, NEW x \in Seq(Pieces)
  PROVE  Overwritten(t, p, x) \in Seq(Pieces)
BY OverwrittenFacts DEF Pieces

LEMMA WritesOnDisk ==
  ASSUME TypeOK, AppendInv, NEW d \in Fds, fd[d] # None, NEW x \in Seq(Pieces), Writes(d, x)
  PROVE  /\ DiskStep
         /\ \A g \in Files \ {FileAt(d)} : content'[g] = content[g]
         /\ \E n \in Nat : fd' = [fd EXCEPT ![d].pos = n]
         /\ ~fd[d].append =>
              /\ content'[FileAt(d)] = Overwritten(content[FileAt(d)], fd[d].pos, x)
              /\ fd' = [fd EXCEPT ![d].pos = fd[d].pos + Len(x)]
<1> DEFINE f == FileAt(d)
           c == content[f]
           p == IF fd[d].append THEN AppendPosition(d) ELSE fd[d].pos
           appends == fd[d].append /\ (Windows => p = Len(c))
           k == IF appends THEN kept[f] \o x ELSE << >>
<1>1. fd[d] \in Descriptors /\ f \in Files /\ c \in Seq(Pieces) /\ kept[f] \in Seq(Pieces)
  BY DEF TypeOK, Descriptors, FileAt
<1>2. Len(c) \in Nat /\ Len(x) \in Nat /\ fd[d].pos \in Nat
  BY <1>1, LenProperties DEF Descriptors
<1>3. p \in Nat /\ (appends => p = Len(c))
  BY <1>2 DEF AppendPosition, TypeOK, Platforms, Posix, Windows
<1>4. /\ content' = [content EXCEPT ![f] = Overwritten(c, p, x)]
      /\ kept' = [kept EXCEPT ![f] = k]
      /\ fd' = [fd EXCEPT ![d].pos = p + Len(x)]
      /\ dir' = dir
  BY DEF Writes
<1>5. Overwritten(c, p, x) \in Seq(Pieces)
  BY <1>1, <1>3, OverwrittenIsSeq
<1>6. k \in Seq(Pieces) /\ EndOf(k, Overwritten(c, p, x))
  <2>1. CASE appends
    <3>1. EndOf(kept[f], c)
      BY <1>1 DEF AppendInv
    <3>2. EndOf(kept[f] \o x, Overwritten(c, Len(c), x))
      BY <1>1, <3>1, EndGrows DEF Pieces
    <3> QED
      BY <1>1, <1>3, <2>1, <3>2, ConcatProperties
  <2>2. CASE ~appends
    BY <1>5, <2>2, NothingIsTheEnd
  <2> QED
    BY <2>1, <2>2
<1>7. dir' \in [Paths -> Files \cup {None}]
  BY <1>4 DEF TypeOK
<1> HIDE DEF k
<1>8. /\ DiskStep /\ content'[f] = Overwritten(c, p, x)
      /\ \A g \in Files \ {f} : content'[g] = content[g]
  BY <1>1, <1>4, <1>5, <1>6, <1>7, OneFile
<1>9. \E n \in Nat : fd' = [fd EXCEPT ![d].pos = n]
  <2> HIDE DEF p
  <2>1. p + Len(x) \in Nat
    BY <1>2, <1>3
  <2> QED
    BY <1>4, <2>1
<1> QED
  BY <1>4, <1>8, <1>9

(* What a read returns: nothing, at the end, or the pieces that follow.    *)
LEMMA ReadableFacts ==
  ASSUME TypeOK, NEW d \in Fds, fd[d] # None, NEW n \in Nat \ {0}, NEW x \in Readable(d, n)
  PROVE  LET s == content[FileAt(d)]
             p == fd[d].pos
         IN  /\ x \in Seq(Pieces)
             /\ x = << >> => Len(s) <= p
             /\ x # << >> => /\ p + Len(x) <= Len(s)
                             /\ \A i \in 1 .. Len(x) : x[i] = s[p + i]
<1> DEFINE s == content[FileAt(d)]
           p == fd[d].pos
           l == Len(s)
           rest == SubSeq(s, p + 1, l)
<1>1. s \in Seq(Pieces) /\ p \in Nat /\ l \in Nat /\ \A i \in 1 .. l : s[i] \in Pieces
  <2>1. fd[d] \in Descriptors
    BY DEF TypeOK
  <2>2. s \in Seq(Pieces) /\ p \in Nat
    BY <2>1 DEF TypeOK, Descriptors, FileAt
  <2> QED
    BY <2>2, LenProperties, ElementOfSeq
<1> HIDE DEF s, p, l
<1>2. /\ rest \in Seq(Pieces)
      /\ Len(rest) = IF p + 1 <= l THEN l - p ELSE 0
      /\ \A i \in 1 .. l - p : rest[i] = s[p + i]
  <2>1. \A i \in p + 1 .. l : s[i] \in Pieces
    BY <1>1
  <2>2. /\ rest \in Seq(Pieces)
        /\ Len(rest) = IF p + 1 <= l THEN l - (p + 1) + 1 ELSE 0
        /\ \A i \in 1 .. l - (p + 1) + 1 : rest[i] = s[p + 1 + i - 1]
    BY <1>1, <2>1, SubSeqProperties
  <2> HIDE DEF rest
  <2>3. p \in Int /\ l \in Int
    BY <1>1
  <2>4. l - (p + 1) + 1 = l - p /\ \A i \in 1 .. l - p : p + 1 + i - 1 = p + i
    BY ONLY <2>3
  <2> QED
    BY ONLY <2>2, <2>3, <2>4
<1>3. x \in IF rest = << >> THEN {<< >>} ELSE {SubSeq(rest, 1, k) : k \in 1 .. Min({n, Len(rest)})}
  BY DEF Readable, s, p, l
<1> HIDE DEF rest
<1>4. CASE rest = << >>
  <2>1. x = << >> /\ Len(rest) = 0
    BY <1>3, <1>4, EmptySeq
  <2> QED
    BY <1>1, <1>2, <2>1, EmptySeq DEF s, p, l
<1>5. CASE rest # << >>
  <2>1. Len(rest) \in Nat /\ \A i \in 1 .. Len(rest) : rest[i] \in Pieces
    BY <1>2, LenProperties, ElementOfSeq
  <2>2. PICK k \in 1 .. Min({n, Len(rest)}) : x = SubSeq(rest, 1, k)
    BY <1>3, <1>5
  <2>3. k \in 1 .. Len(rest)
    BY <2>1, MinOfTwo
  <2>4. \A i \in 1 .. k : rest[i] \in Pieces
    BY <2>1, <2>3
  <2>5. x \in Seq(Pieces) /\ Len(x) = k /\ \A i \in 1 .. k : x[i] = rest[i]
    <3>1. /\ x \in Seq(Pieces)
          /\ Len(x) = IF 1 <= k THEN k - 1 + 1 ELSE 0
          /\ \A i \in 1 .. k - 1 + 1 : x[i] = rest[1 + i - 1]
      BY <2>2, <2>3, <2>4, SubSeqProperties
    <3> QED
      BY <2>3, <3>1
  <2>6. x # << >>
    BY <2>3, <2>5, EmptySeq
  <2>7. Len(rest) = l - p
    BY <1>1, <1>2, <2>1, <2>3
  <2>8. p + Len(x) <= l /\ \A i \in 1 .. Len(x) : x[i] = s[p + i]
    BY SMTT(30), <1>1, <1>2, <2>3, <2>5, <2>7
  <2> QED
    BY <2>5, <2>6, <2>8 DEF s, p, l
<1> QED
  BY <1>4, <1>5

-----------------------------------------------------------------------------
(* The calls                                                               *)

(* What a step of user u leaves of the copies of the others.               *)
OthersCopy(u) ==
  \A v \in Users \ {u} :
    /\ at'[v] = at[v] /\ target'[v] = target[v] /\ buf'[v] = buf[v] /\ source'[v] = source[v]

CopyTypes ==
  /\ {handle, src, dst} \subseteq [Users -> Fds \cup {None}]
  /\ at \in [Users -> CopyPoints]
  /\ target \in [Users -> Paths \cup {None}]
  /\ buf \in [Users -> Seq(Pieces)] /\ source \in [Users -> Seq(Pieces)]

CopyStep(u) == CopyTypes' /\ OthersCopy(u) /\ CopyOf(u)' /\ Faithful(u)'

StepOK(u) == DiskStep /\ FdStep(u) /\ CopyStep(u)

(* A step of u that is right for it is right for all.                      *)
LEMMA StepKeepsInv ==
  ASSUME Inv, NEW u \in Users, StepOK(u), Observed(u), UNCHANGED platform
  PROVE  Inv'
<1>1. TypeOK'
  <2>1. quiet' \in [Users -> BOOLEAN]
    <3>1. \A v \in Users : (\/ at'[v] = "idle" \/ at[v] = "idle"
                            \/ quiet[v] /\ (v = u \/ ~Touched(v))) \in BOOLEAN
      BY DEF Inv, TypeOK
    <3> QED
      BY <3>1 DEF Observed
  <2> QED
    BY <2>1 DEF Inv, TypeOK, StepOK, DiskStep, FdStep, CopyStep, CopyTypes
<1>2. OwnInv' /\ AppendInv'
  BY DEF StepOK, FdStep, DiskStep
<1>3. ASSUME NEW v \in Users \ {u} PROVE CopyOf(v)' /\ Faithful(v)'
  <2>1. /\ at'[v] = at[v] /\ target'[v] = target[v] /\ buf'[v] = buf[v] /\ source'[v] = source[v]
    BY DEF StepOK, CopyStep, OthersCopy
  <2>2. /\ src'[v] = src[v] /\ (src[v] # None => fd'[src[v]] = fd[src[v]])
        /\ dst'[v] = dst[v] /\ (dst[v] # None => fd'[dst[v]] = fd[dst[v]])
    BY DEF StepOK, FdStep, Undisturbed, Slot, Kinds
  <2>3. CopyOf(v) /\ Faithful(v)
    BY DEF Inv, CopyInv
  <2>4. CopyOf(v)'
    BY <2>1, <2>2, <2>3 DEF CopyOf
  <2>5. CASE at[v] = "idle"
    BY <2>1, <2>4, <2>5 DEF Faithful
  <2>6. CASE at[v] # "idle"
    <3>1. quiet'[v] => quiet[v] /\ ~Touched(v)
      BY <2>1, <2>6 DEF Observed
    <3>2. ~Touched(v) => /\ src[v] # None => content'[FileAt(src[v])] = content[FileAt(src[v])]
                         /\ dst[v] # None => content'[FileAt(dst[v])] = content[FileAt(dst[v])]
      BY DEF Touched
    <3>3. /\ src[v] # None => FileAt(src[v])' = FileAt(src[v])
          /\ dst[v] # None => FileAt(dst[v])' = FileAt(dst[v])
      BY <2>2 DEF FileAt
    <3> QED
      BY <2>1, <2>2, <2>3, <3>1, <3>2, <3>3 DEF Faithful, CopyOf
  <2> QED
    BY <2>4, <2>5, <2>6
<1>4. CopyOf(u)' /\ Faithful(u)'
  BY DEF StepOK, CopyStep
<1> QED
  BY <1>1, <1>2, <1>3, <1>4 DEF Inv, CopyInv

(* A user that is not copying, and does not start to.                      *)
LEMMA IdleStep ==
  ASSUME Inv, NEW u \in Users, at[u] = "idle", UNCHANGED copies,
         handle' \in [Users -> Fds \cup {None}]
  PROVE  CopyStep(u)
<1>1. CopyTypes'
  BY DEF Inv, TypeOK, CopyTypes, copies
<1>2. OthersCopy(u) /\ CopyOf(u)' /\ Faithful(u)'
  BY DEF Inv, CopyInv, copies, OthersCopy, CopyOf, Faithful
<1> QED
  BY <1>1, <1>2 DEF CopyStep

(* What open makes of a free descriptor.                                   *)
LEMMA GetsDescriptor ==
  ASSUME NEW d \in Fds, NEW f \in Files, NEW m, content'[f] \in Seq(Pieces), Gets(d, f, m)
  PROVE  \E r \in Descriptors :
           /\ fd' = [fd EXCEPT ![d] = r]
           /\ r.file = f /\ (m \in {"r", "w"} => r.pos = 0 /\ ~r.append)
<1> DEFINE r == [file |-> f,
                 pos |-> IF Windows /\ Flags(m).append THEN Len(content'[f]) ELSE 0,
                 read |-> Flags(m).read,
                 write |-> Flags(m).write, append |-> Flags(m).append]
<1>1. Len(content'[f]) \in Nat
  BY LenProperties
<1>2. Flags(m).read \in BOOLEAN /\ Flags(m).write \in BOOLEAN /\ Flags(m).append \in BOOLEAN
  BY DEF Flags
<1>3. r \in Descriptors
  BY <1>1, <1>2 DEF Descriptors
<1>4. m \in {"r", "w"} => ~Flags(m).append
  BY DEF Flags
<1>5. r.file = f /\ (m \in {"r", "w"} => r.pos = 0 /\ ~r.append)
  BY <1>4
<1>6. fd' = [fd EXCEPT ![d] = r]
  BY DEF Gets
<1> QED
  BY <1>3, <1>5, <1>6

LEMMA HoldsADescriptor ==
  ASSUME TypeOK, OwnInv, NEW k \in Kinds, NEW u \in Users, Slot(k, u) # None
  PROVE  Slot(k, u) \in Fds /\ fd[Slot(k, u)] # None /\ fd[Slot(k, u)] \in Descriptors
         /\ FileAt(Slot(k, u)) \in Files /\ fd[Slot(k, u)].pos \in Nat
<1>1. Slot(k, u) \in Fds /\ fd[Slot(k, u)] # None
  BY SlotType DEF OwnInv
<1>2. fd[Slot(k, u)] \in Descriptors
  BY <1>1 DEF TypeOK
<1> QED
  BY <1>1, <1>2 DEF Descriptors, FileAt

LEMMA OpenStep ==
  ASSUME Inv, NEW u \in Users, NEW path \in Paths, NEW m, Open(u, path, m)
  PROVE  StepOK(u)
<1>1. PICK f \in Files : Names(path, m, f) /\ Gets(NewFd, f, m)
  BY DEF Open
<1>2. DiskStep /\ content'[f] \in Seq(Pieces)
  BY <1>1, NamesOnDisk DEF Inv, DiskStep
<1>3. NewFd \in Fds
  BY NewFdIsClosed DEF Open
<1>4. PICK r \in Descriptors : fd' = [fd EXCEPT ![NewFd] = r]
  BY <1>1, <1>2, <1>3, GetsDescriptor
<1>5. \A l \in Kinds, v \in Users :
        Slot(l, v)' = IF l = "handle" /\ v = u THEN NewFd ELSE Slot(l, v)
  BY DEF Open, copies, Slot, Kinds, Inv, TypeOK
<1>6. FdStep(u)
  BY <1>4, <1>5, Takes, SlotsOf DEF Open, Inv
<1>7. CopyStep(u)
  BY <1>3, IdleStep DEF Open, Inv, TypeOK
<1> QED
  BY <1>2, <1>6, <1>7 DEF StepOK

(* The calls that leave fd and the holders as they are.                    *)
LEMMA NoDescriptorStep ==
  ASSUME Inv, NEW u \in Users, at[u] = "idle", UNCHANGED <<fd, handle, copies>>, DiskStep
  PROVE  StepOK(u)
<1>1. FdStep(u)
  BY Keeps DEF Inv, copies
<1>2. CopyStep(u)
  BY IdleStep DEF Inv, TypeOK
<1> QED
  BY <1>1, <1>2 DEF StepOK

LEMMA DirectoryStep ==
  ASSUME Inv, NEW u \in Users, at[u] = "idle", UNCHANGED <<content, kept, fd, handle, copies>>,
         dir' \in [Paths -> Files \cup {None}]
  PROVE  StepOK(u)
<1>1. DiskStep
  BY DEF Inv, TypeOK, DiskStep, AppendInv
<1> QED
  BY <1>1, NoDescriptorStep

LEMMA OpenOutOfMemoryStep ==
  ASSUME Inv, NEW u \in Users, NEW path \in Paths, NEW m, OpenOutOfMemory(u, path, m)
  PROVE  StepOK(u)
<1>1. DiskStep
  BY NamesOnDisk DEF OpenOutOfMemory, Inv
<1> QED
  BY <1>1, NoDescriptorStep DEF OpenOutOfMemory

LEMMA DeleteStep ==
  ASSUME Inv, NEW u \in Users, NEW path \in Paths, Delete(u, path)
  PROVE  StepOK(u)
BY DirectoryStep DEF Delete, Inv, TypeOK

LEMMA MoveStep ==
  ASSUME Inv, NEW u \in Users, NEW from \in Paths, NEW to \in Paths, Move(u, from, to)
  PROVE  StepOK(u)
BY DirectoryStep DEF Move, Inv, TypeOK

LEMMA CopyFileStep ==
  ASSUME Inv, NEW u \in Users, NEW from \in Paths, NEW to \in Paths, CopyFile(u, from, to)
  PROVE  StepOK(u)
<1>1. PICK f \in Files : /\ dir' = [dir EXCEPT ![to] = f]
                         /\ content' = [content EXCEPT ![f] = content[dir[from]]]
                         /\ kept' = [kept EXCEPT ![f] = << >>]
  BY DEF CopyFile
<1>2. content[dir[from]] \in Seq(Pieces)
  BY DEF CopyFile, Inv, TypeOK
<1>3. << >> \in Seq(Pieces) /\ EndOf(<< >>, content[dir[from]])
  BY <1>2, NothingIsTheEnd
<1>4. dir' \in [Paths -> Files \cup {None}]
  BY <1>1 DEF Inv, TypeOK
<1>5. DiskStep
  BY <1>1, <1>2, <1>3, <1>4, OneFile DEF Inv
<1> QED
  BY <1>5, NoDescriptorStep DEF CopyFile

LEMMA RefusedStep ==
  ASSUME Inv, NEW u \in Users, Refused(u)
  PROVE  StepOK(u)
<1>1. DiskStep
  BY OnDisk DEF Refused, Inv
<1> QED
  BY <1>1, NoDescriptorStep DEF Refused

(* Read, Seek and Write move the position of the user's ten_file.          *)
LEMMA HandleMoves ==
  ASSUME Inv, NEW u \in Users, at[u] = "idle", handle[u] # None, NEW n \in Nat,
         fd' = [fd EXCEPT ![handle[u]].pos = n], UNCHANGED <<handle, copies>>, DiskStep
  PROVE  StepOK(u)
<1>1. FdStep(u)
  BY HolderMoves DEF Inv, copies
<1>2. CopyStep(u)
  BY IdleStep DEF Inv, TypeOK
<1> QED
  BY <1>1, <1>2 DEF StepOK

LEMMA ReadStep ==
  ASSUME Inv, NEW u \in Users, Read(u)
  PROVE  StepOK(u)
<1>1. handle[u] \in Fds /\ fd[handle[u]] # None /\ fd[handle[u]].pos \in Nat
  BY HoldsADescriptor, SlotsOf DEF Inv, Read
<1>2. PICK x \in Readable(handle[u], 1) : fd' = [fd EXCEPT ![handle[u]].pos = fd[handle[u]].pos + Len(x)]
  BY DEF Read
<1>3. Len(x) \in Nat
  BY <1>1, <1>2, ReadableFacts, LenProperties DEF Inv
<1>4. DiskStep
  BY OnDisk DEF Read, Inv
<1>5. fd[handle[u]].pos + Len(x) \in Nat
  BY <1>1, <1>3
<1> QED
  BY <1>2, <1>4, <1>5, HandleMoves DEF Read

LEMMA SeekStep ==
  ASSUME Inv, NEW u \in Users, NEW p \in 0 .. MaxLength, Seek(u, p)
  PROVE  StepOK(u)
<1>1. p \in Nat
  BY FileAssumption DEF FileAssumption
<1>2. DiskStep
  BY OnDisk DEF Seek, Inv
<1> QED
  BY <1>1, <1>2, HandleMoves DEF Seek

LEMMA WriteStep ==
  ASSUME Inv, NEW u \in Users, Write(u)
  PROVE  StepOK(u)
<1>1. handle[u] \in Fds /\ fd[handle[u]] # None
  BY HoldsADescriptor, SlotsOf DEF Inv, Write
<1>2. PICK x \in Data : Writes(handle[u], <<x>>)
  BY DEF Write
<1>3. <<x>> \in Seq(Pieces)
  BY DEF Pieces
<1>4. DiskStep /\ \E n \in Nat : fd' = [fd EXCEPT ![handle[u]].pos = n]
  BY <1>1, <1>2, <1>3, WritesOnDisk DEF Inv
<1> QED
  BY <1>4, HandleMoves DEF Write

LEMMA CloseStep ==
  ASSUME Inv, NEW u \in Users, Close(u)
  PROVE  StepOK(u)
<1>1. fd' = [d \in Fds |-> IF d \in {Slot(k, u) : k \in {"handle"}} THEN None ELSE fd[d]]
  BY DEF Close, Slot, Inv, TypeOK
<1>2. \A l \in Kinds, v \in Users :
        Slot(l, v)' = IF l \in {"handle"} /\ v = u THEN None ELSE Slot(l, v)
  BY DEF Close, copies, Slot, Kinds, Inv, TypeOK
<1>3. FdStep(u)
  BY <1>1, <1>2, Frees, {"handle"} \in SUBSET Kinds DEF Inv, Kinds
<1>4. CopyStep(u)
  BY IdleStep DEF Close, Inv, TypeOK
<1>5. DiskStep
  BY OnDisk DEF Close, Inv
<1> QED
  BY <1>3, <1>4, <1>5 DEF StepOK

LEMMA CopySourceStep ==
  ASSUME Inv, NEW u \in Users, NEW from \in Paths, NEW to \in Paths, CopySource(u, from, to)
  PROVE  StepOK(u)
<1> DEFINE n == NewFd
<1>1. PICK f \in Files : /\ Names(from, "r", f) /\ Gets(n, f, "r")
                         /\ source' = [source EXCEPT ![u] = content[f]]
  BY DEF CopySource
<1>2. DiskStep /\ content'[f] = content[f] /\ content[f] \in Seq(Pieces)
  BY <1>1, NamesOnDisk DEF Inv, TypeOK, Flags
<1>3. n \in Fds /\ n # None
  BY NewFdIsClosed, NoneIsNoFd DEF CopySource
<1>4. PICK r \in Descriptors : /\ fd' = [fd EXCEPT ![n] = r]
                               /\ r.file = f /\ r.pos = 0 /\ ~r.append
  BY <1>1, <1>2, <1>3, GetsDescriptor
<1> HIDE DEF n
<1>5. /\ src' = [src EXCEPT ![u] = n] /\ target' = [target EXCEPT ![u] = to]
      /\ at' = [at EXCEPT ![u] = "open"] /\ UNCHANGED <<handle, dst, buf>>
      /\ at[u] = "idle" /\ Closed # {}
  BY DEF CopySource, n
<1>6. src[u] = None /\ dst[u] = None /\ buf[u] = << >>
  BY <1>5 DEF Inv, CopyInv, CopyOf
<1>7. FdStep(u) /\ fd'[n] = r
  <2>1. \A l \in Kinds, v \in Users :
          Slot(l, v)' = IF l = "src" /\ v = u THEN n ELSE Slot(l, v)
    BY <1>5 DEF Slot, Kinds, Inv, TypeOK
  <2>2. TypeOK /\ OwnInv /\ Closed # {} /\ Slot("src", u) = None /\ "src" \in Kinds
    BY <1>5, <1>6, SlotsOf DEF Inv
  <2> QED
    BY <1>4, <2>1, <2>2, Takes DEF n
<1>8. CopyTypes' /\ OthersCopy(u)
  BY <1>1, <1>2, <1>3, <1>5 DEF Inv, TypeOK, CopyTypes, CopyPoints, OthersCopy
<1>9. src'[u] = n /\ dst'[u] = None /\ buf'[u] = << >> /\ at'[u] = "open" /\ target'[u] = to
      /\ source'[u] = content[f]
  BY <1>1, <1>5, <1>6 DEF Inv, TypeOK
<1>10. CopyOf(u)'
  BY <1>3, <1>9 DEF CopyOf
<1>11. Faithful(u)'
  BY <1>2, <1>4, <1>7, <1>9 DEF Faithful, FileAt
<1> QED
  BY <1>2, <1>7, <1>8, <1>10, <1>11 DEF StepOK, CopyStep

LEMMA CopyDestinationStep ==
  ASSUME Inv, NEW u \in Users, CopyDestination(u), Observed(u)
  PROVE  StepOK(u)
<1> DEFINE n == NewFd
           s == src[u]
<1>1. PICK f \in Files : Names(target[u], "w", f) /\ Gets(n, f, "w")
  BY DEF CopyDestination
<1>2. target[u] \in Paths /\ s # None /\ dst[u] = None /\ buf[u] = << >>
  BY DEF Inv, CopyInv, CopyOf, CopyDestination
<1>3. /\ DiskStep /\ content'[f] = << >>
      /\ \A g \in Files \ {f} : content'[g] = content[g]
  <2>1. TypeOK /\ AppendInv /\ Flags("w").truncate
    BY DEF Inv, Flags
  <2> QED
    BY <1>1, <1>2, <2>1, NamesOnDisk
<1>4. n \in Fds /\ n # None /\ fd[n] = None
  BY NewFdIsClosed, NoneIsNoFd DEF CopyDestination
<1>5. content'[f] \in Seq(Pieces)
  BY <1>3, EmptySeq
<1>6. PICK r \in Descriptors : /\ fd' = [fd EXCEPT ![n] = r]
                               /\ r.file = f /\ r.pos = 0 /\ ~r.append
  BY <1>1, <1>4, <1>5, GetsDescriptor
<1>7. s \in Fds /\ fd[s] # None /\ FileAt(s) \in Files
  BY <1>2, HoldsADescriptor, SlotsOf DEF Inv
<1> HIDE DEF n, s
<1>8. /\ dst' = [dst EXCEPT ![u] = n] /\ at' = [at EXCEPT ![u] = "read"]
      /\ UNCHANGED <<handle, src, target, buf, source>>
      /\ at[u] = "open" /\ Closed # {}
  BY DEF CopyDestination, n
<1>9. FdStep(u) /\ fd'[n] = r /\ fd'[s] = fd[s]
  <2>1. \A l \in Kinds, v \in Users :
          Slot(l, v)' = IF l = "dst" /\ v = u THEN n ELSE Slot(l, v)
    BY <1>8 DEF Slot, Kinds, Inv, TypeOK
  <2>2. TypeOK /\ OwnInv /\ Closed # {} /\ Slot("dst", u) = None /\ "dst" \in Kinds
    BY <1>2, <1>8, SlotsOf DEF Inv
  <2> QED
    BY <1>6, <1>7, <2>1, <2>2, Takes DEF n
<1>10. CopyTypes' /\ OthersCopy(u)
  BY <1>4, <1>8 DEF Inv, TypeOK, CopyTypes, CopyPoints, OthersCopy
<1>11. src'[u] = s /\ dst'[u] = n /\ buf'[u] = << >> /\ at'[u] = "read" /\ target'[u] = target[u]
       /\ source'[u] = source[u]
  BY <1>2, <1>8 DEF Inv, TypeOK, s
<1>12. CopyOf(u)'
  BY <1>2, <1>4, <1>6, <1>9, <1>11 DEF CopyOf
<1>13. Faithful(u)'
  <2> SUFFICES ASSUME quiet'[u], FileAt(src[u])' # FileAt(dst[u])'
               PROVE  /\ content'[FileAt(src[u])'] = source'[u]
                      /\ fd'[dst'[u]].pos = Len(content'[FileAt(dst[u])'])
                      /\ Progress(source'[u], fd'[src'[u]].pos, content'[FileAt(dst[u])'], buf'[u])
    BY <1>11 DEF Faithful
  <2>1. FileAt(src[u])' = FileAt(s) /\ FileAt(dst[u])' = f
    BY <1>6, <1>9, <1>11 DEF FileAt
  <2>2. quiet[u]
    BY <1>8, <1>11 DEF Observed
  <2>3. content[FileAt(s)] = source[u] /\ fd[s].pos = 0
    BY <1>8, <2>2 DEF Inv, CopyInv, Faithful, s
  <2>4. content'[FileAt(s)] = source[u]
    BY <1>3, <1>7, <2>1, <2>3
  <2>5. source[u] \in Seq(Pieces)
    BY DEF Inv, TypeOK
  <2>6. Len(source[u]) \in Nat /\ Len(<< >>) = 0
    BY <2>5, LenProperties, EmptySeq
  <2>7. Progress(source[u], 0, << >>, << >>)
    BY <2>6 DEF Progress
  <2> QED
    BY <1>3, <1>6, <1>9, <1>11, <2>1, <2>3, <2>4, <2>6, <2>7
<1> QED
  BY <1>3, <1>9, <1>10, <1>12, <1>13 DEF StepOK, CopyStep

LEMMA ReturnsStep ==
  ASSUME Inv, NEW u \in Users, NEW K \in SUBSET {"src", "dst"},
         CopyReturns(u, {Slot(k, u) : k \in K}), "src" \notin K => src[u] = None,
         "dst" \notin K => dst[u] = None, DiskStep
  PROVE  StepOK(u)
<1>1. K \in SUBSET Kinds
  BY DEF Kinds
<1>2. \A l \in Kinds, v \in Users : Slot(l, v)' = IF l \in K /\ v = u THEN None ELSE Slot(l, v)
  BY DEF CopyReturns, Slot, Kinds, Inv, TypeOK
<1>3. FdStep(u)
  BY <1>1, <1>2, Frees DEF CopyReturns, Inv
<1>4. << >> \in Seq(Pieces)
  BY EmptySeq
<1>5. CopyTypes' /\ OthersCopy(u)
  BY <1>4 DEF CopyReturns, Inv, TypeOK, CopyTypes, CopyPoints, OthersCopy
<1>6. src'[u] = None /\ dst'[u] = None /\ buf'[u] = << >> /\ at'[u] = "idle"
  BY DEF CopyReturns, Inv, TypeOK
<1>7. CopyOf(u)' /\ Faithful(u)'
  BY <1>6 DEF CopyOf, Faithful
<1> QED
  BY <1>3, <1>5, <1>7 DEF StepOK, CopyStep

LEMMA CopyDestinationFailsStep ==
  ASSUME Inv, NEW u \in Users, CopyDestinationFails(u)
  PROVE  StepOK(u)
<1>1. dst[u] = None /\ target[u] \in Paths /\ TypeOK /\ AppendInv
  BY DEF CopyDestinationFails, Inv, CopyInv, CopyOf
<1>2. DiskStep
  <2>1. CASE UNCHANGED disk
    BY <1>1, <2>1, OnDisk
  <2>2. CASE \E f \in Files : Names(target[u], "w", f)
    BY <1>1, <2>2, NamesOnDisk
  <2> QED
    BY <2>1, <2>2 DEF CopyDestinationFails
<1>3. {Slot(k, u) : k \in {"src"}} = {src[u]}
  BY SlotsOf
<1> QED
  BY <1>1, <1>2, <1>3, ReturnsStep, {"src"} \in SUBSET {"src", "dst"} DEF CopyDestinationFails

LEMMA BothReturn ==
  ASSUME Inv, NEW u \in Users, CopyReturns(u, {src[u], dst[u]}), DiskStep
  PROVE  StepOK(u)
<1>1. {Slot(k, u) : k \in {"src", "dst"}} = {src[u], dst[u]}
  BY SlotsOf
<1>2. {"src", "dst"} \in SUBSET {"src", "dst"}
  OBVIOUS
<1> QED
  BY <1>1, <1>2, ReturnsStep

LEMMA CopyReadFailsStep ==
  ASSUME Inv, NEW u \in Users, CopyReadFails(u)
  PROVE  StepOK(u)
<1>1. DiskStep
  BY OnDisk DEF CopyReadFails, Inv, disk
<1> QED
  BY <1>1, BothReturn DEF CopyReadFails

LEMMA CopyDoneStep ==
  ASSUME Inv, NEW u \in Users, CopyDone(u)
  PROVE  StepOK(u)
<1>1. DiskStep
  BY OnDisk DEF CopyDone, Inv
<1> QED
  BY <1>1, BothReturn DEF CopyDone

(* A copy between its reads and writes holds both its files.               *)
LEMMA CopyHolds ==
  ASSUME Inv, NEW u \in Users, at[u] \in {"read", "write"}
  PROVE  /\ src[u] \in Fds /\ fd[src[u]] # None /\ FileAt(src[u]) \in Files /\ fd[src[u]].pos \in Nat
         /\ dst[u] \in Fds /\ fd[dst[u]] # None /\ FileAt(dst[u]) \in Files /\ fd[dst[u]].pos \in Nat
         /\ src[u] # None /\ dst[u] # None /\ src[u] # dst[u] /\ ~fd[dst[u]].append
         /\ fd[src[u]] \in Descriptors /\ fd[dst[u]] \in Descriptors
<1>1. src[u] # None /\ dst[u] # None /\ ~fd[dst[u]].append
  BY DEF Inv, CopyInv, CopyOf
<1>2. src[u] # dst[u]
  BY <1>1, SlotsOf DEF Inv, OwnInv
<1> QED
  BY <1>1, <1>2, HoldsADescriptor, SlotsOf DEF Inv

LEMMA CopyWriteFailsStep ==
  ASSUME Inv, NEW u \in Users, CopyWriteFails(u)
  PROVE  StepOK(u)
<1> DEFINE f == FileAt(dst[u])
           p == fd[dst[u]].pos
<1>1. at[u] = "write" /\ TypeOK /\ AppendInv
  BY DEF CopyWriteFails, Inv
<1>2. f \in Files /\ p \in Nat
  BY <1>1, CopyHolds
<1>3. DiskStep
  <2>1. CASE UNCHANGED disk
    BY <1>1, <2>1, OnDisk
  <2>2. ASSUME NEW k \in 1 .. Len(buf[u]) - 1,
               content' = [content EXCEPT ![f] = Overwritten(content[f], p, SubSeq(buf[u], 1, k))],
               kept' = [kept EXCEPT ![f] = << >>], UNCHANGED dir
        PROVE  DiskStep
    <3> DEFINE x == SubSeq(buf[u], 1, k)
    <3>1. buf[u] \in Seq(Pieces) /\ content[f] \in Seq(Pieces)
      BY <1>1, <1>2 DEF TypeOK
    <3>2. Len(buf[u]) \in Nat /\ \A i \in 1 .. Len(buf[u]) : buf[u][i] \in Pieces
      BY <3>1, LenProperties, ElementOfSeq
    <3>3. x \in Seq(Pieces)
      BY <3>2, SubSeqProperties
    <3> HIDE DEF x
    <3>4. Overwritten(content[f], p, x) \in Seq(Pieces)
      BY <1>2, <3>1, <3>3, OverwrittenIsSeq
    <3>5. << >> \in Seq(Pieces) /\ EndOf(<< >>, Overwritten(content[f], p, x))
      BY <3>4, NothingIsTheEnd
    <3>6. dir' \in [Paths -> Files \cup {None}]
      BY <1>1, <2>2 DEF TypeOK
    <3>7. content' = [content EXCEPT ![f] = Overwritten(content[f], p, x)]
      BY <2>2 DEF x
    <3> QED
      BY <1>1, <1>2, <2>2, <3>4, <3>5, <3>6, <3>7, OneFile
  <2> QED
    BY <2>1, <2>2 DEF CopyWriteFails
<1> QED
  BY <1>3, BothReturn DEF CopyWriteFails

LEMMA CopyReadStep ==
  ASSUME Inv, NEW u \in Users, CopyRead(u), Observed(u)
  PROVE  StepOK(u)
<1> DEFINE s == src[u]
           d == dst[u]
<1>1. /\ at[u] = "read" /\ at' = [at EXCEPT ![u] = "write"]
      /\ UNCHANGED <<disk, handle, src, dst, target, source>>
  BY DEF CopyRead
<1>2. PICK x \in Readable(s, BufferSize) \ {<< >>} :
        buf' = [buf EXCEPT ![u] = x] /\ fd' = [fd EXCEPT ![s].pos = fd[s].pos + Len(x)]
  BY DEF CopyRead
<1>3. /\ s \in Fds /\ fd[s] # None /\ FileAt(s) \in Files /\ fd[s].pos \in Nat /\ fd[s] \in Descriptors
      /\ d \in Fds /\ fd[d] # None /\ FileAt(d) \in Files /\ s # d /\ s # None /\ d # None
      /\ ~fd[d].append /\ TypeOK /\ OwnInv /\ AppendInv
  BY <1>1, CopyHolds DEF Inv
<1>4. /\ x \in Seq(Pieces) /\ fd[s].pos + Len(x) <= Len(content[FileAt(s)])
      /\ \A i \in 1 .. Len(x) : x[i] = content[FileAt(s)][fd[s].pos + i]
  BY <1>2, <1>3, ReadableFacts, FileAssumption DEF FileAssumption
<1>5. Len(x) \in Nat
  BY <1>4, LenProperties
<1>6. DiskStep
  BY <1>1, <1>3, OnDisk
<1>7. /\ FdStep(u) /\ fd'[d] = fd[d] /\ fd'[s] = [fd[s] EXCEPT !.pos = fd[s].pos + Len(x)]
  <2>1. fd[s].pos + Len(x) \in Nat
    BY <1>3, <1>5
  <2> QED
    BY <1>1, <1>2, <1>3, <2>1, HolderMoves
<1>8. CopyTypes' /\ OthersCopy(u)
  BY <1>1, <1>2, <1>3, <1>4 DEF TypeOK, CopyTypes, CopyPoints, OthersCopy
<1>9. /\ src'[u] = s /\ dst'[u] = d /\ buf'[u] = x /\ at'[u] = "write" /\ target'[u] = target[u]
      /\ source'[u] = source[u] /\ content' = content
  BY <1>1, <1>2, <1>3 DEF TypeOK, disk
<1>10. fd'[s].pos = fd[s].pos + Len(x) /\ fd'[s].file = fd[s].file
  BY <1>3, <1>7 DEF Descriptors
<1>11. CopyOf(u)'
  BY <1>1, <1>3, <1>7, <1>9 DEF Inv, CopyInv, CopyOf
<1>12. Faithful(u)'
  <2> SUFFICES ASSUME quiet'[u], FileAt(src[u])' # FileAt(dst[u])'
               PROVE  /\ content'[FileAt(src[u])'] = source'[u]
                      /\ fd'[dst'[u]].pos = Len(content'[FileAt(dst[u])'])
                      /\ Progress(source'[u], fd'[src'[u]].pos, content'[FileAt(dst[u])'], buf'[u])
    BY <1>9 DEF Faithful
  <2>1. FileAt(src[u])' = FileAt(s) /\ FileAt(dst[u])' = FileAt(d)
    BY <1>7, <1>9, <1>10 DEF FileAt
  <2>2. quiet[u]
    BY <1>1, <1>9 DEF Observed
  <2>3. /\ content[FileAt(s)] = source[u]
        /\ fd[d].pos = Len(content[FileAt(d)])
        /\ Progress(source[u], fd[s].pos, content[FileAt(d)], buf[u])
        /\ buf[u] = << >>
    BY <1>1, <2>1, <2>2 DEF Inv, CopyInv, CopyOf, Faithful
  <2>4. Len(source[u]) \in Nat /\ Len(content[FileAt(d)]) \in Nat /\ Len(<< >>) = 0
    BY <1>3, LenProperties, EmptySeq DEF TypeOK
  <2>5. Progress(source[u], fd[s].pos + Len(x), content[FileAt(d)], x)
    <3>1. Len(content[FileAt(d)]) = fd[s].pos
      BY <1>3, <2>3, <2>4 DEF Progress
    <3>2. \A i \in 1 .. Len(content[FileAt(d)]) : content[FileAt(d)][i] = source[u][i]
      BY <2>3 DEF Progress
    <3>3. \A i \in 1 .. Len(x) : x[i] = source[u][Len(content[FileAt(d)]) + i]
      BY <1>4, <2>3, <3>1
    <3> QED
      BY <1>4, <2>3, <3>1, <3>2, <3>3 DEF Progress
  <2> QED
    BY <1>7, <1>9, <1>10, <2>1, <2>3, <2>5
<1> QED
  BY <1>6, <1>7, <1>8, <1>11, <1>12 DEF StepOK, CopyStep

LEMMA CopyWriteStep ==
  ASSUME Inv, NEW u \in Users, CopyWrite(u), Observed(u)
  PROVE  StepOK(u)
<1> DEFINE s == src[u]
           d == dst[u]
           f == FileAt(d)
           c == content[f]
           p == fd[d].pos
           b == buf[u]
           n == p + Len(b)
<1>1. /\ at[u] = "write" /\ at' = [at EXCEPT ![u] = "read"] /\ Writes(d, b)
      /\ buf' = [buf EXCEPT ![u] = << >>]
      /\ UNCHANGED <<handle, src, dst, target, source>>
  BY DEF CopyWrite
<1>2. /\ s \in Fds /\ fd[s] # None /\ FileAt(s) \in Files /\ fd[s].pos \in Nat
      /\ d \in Fds /\ fd[d] # None /\ f \in Files /\ s # d /\ d # None /\ s # None /\ p \in Nat
      /\ ~fd[d].append /\ fd[d] \in Descriptors /\ TypeOK /\ OwnInv /\ AppendInv
  BY <1>1, CopyHolds DEF Inv
<1>3. b \in Seq(Pieces) /\ c \in Seq(Pieces) /\ Len(b) \in Nat /\ Len(c) \in Nat /\ Len(<< >>) = 0
  BY <1>2, LenProperties, EmptySeq DEF TypeOK
<1>4. /\ DiskStep /\ content'[f] = Overwritten(c, p, b)
      /\ \A g \in Files \ {f} : content'[g] = content[g]
      /\ fd' = [fd EXCEPT ![d].pos = n]
  BY <1>1, <1>2, <1>3, WritesOnDisk
<1>5. FdStep(u) /\ fd'[d] = [fd[d] EXCEPT !.pos = n] /\ fd'[s] = fd[s]
  <2>1. n \in Nat
    BY <1>2, <1>3
  <2> QED
    BY <1>1, <1>2, <1>4, <2>1, HolderMoves
<1>6. CopyTypes' /\ OthersCopy(u)
  <2>1. << >> \in Seq(Pieces)
    BY EmptySeq
  <2> QED
    BY <1>1, <1>2, <2>1 DEF TypeOK, CopyTypes, CopyPoints, OthersCopy
<1>7. /\ src'[u] = s /\ dst'[u] = d /\ buf'[u] = << >> /\ at'[u] = "read" /\ target'[u] = target[u]
      /\ source'[u] = source[u]
  BY <1>1, <1>2 DEF TypeOK
<1>8. fd'[d].pos = n /\ fd'[d].file = fd[d].file /\ fd'[d].append = fd[d].append
  BY <1>2, <1>5 DEF Descriptors
<1>9. CopyOf(u)'
  BY <1>1, <1>2, <1>7, <1>8 DEF Inv, CopyInv, CopyOf
<1>10. Faithful(u)'
  <2> SUFFICES ASSUME quiet'[u], FileAt(src[u])' # FileAt(dst[u])'
               PROVE  /\ content'[FileAt(src[u])'] = source'[u]
                      /\ fd'[dst'[u]].pos = Len(content'[FileAt(dst[u])'])
                      /\ Progress(source'[u], fd'[src'[u]].pos, content'[FileAt(dst[u])'], buf'[u])
    BY <1>7 DEF Faithful
  <2>1. FileAt(src[u])' = FileAt(s) /\ FileAt(dst[u])' = f
    BY <1>5, <1>7, <1>8 DEF FileAt
  <2>2. quiet[u]
    BY <1>1, <1>7 DEF Observed
  <2>3. content[FileAt(s)] = source[u] /\ p = Len(c) /\ Progress(source[u], fd[s].pos, c, b)
    BY <1>1, <2>1, <2>2 DEF Inv, CopyInv, Faithful
  <2>4. content'[FileAt(s)] = source[u]
    BY <1>2, <1>4, <2>1, <2>3
  <2> DEFINE e == Overwritten(c, p, b)
  <2>5. Concatenated(e, c, b)
    BY <1>2, <1>3, <2>3, OverwrittenFacts DEF Pieces
  <2> HIDE DEF e, b, c
  <2>6. Len(e) = Len(c) + Len(b)
    BY <2>5 DEF Concatenated
  <2>7. \A i \in 1 .. Len(c) + Len(b) : e[i] = source[u][i]
    <3> SUFFICES ASSUME NEW i \in 1 .. Len(c) + Len(b) PROVE e[i] = source[u][i]
      OBVIOUS
    <3>1. CASE i <= Len(c)
      <4>1. i \in 1 .. Len(c)
        BY <1>3, <3>1
      <4> QED
        BY <2>3, <2>5, <4>1 DEF Concatenated, Progress
    <3>2. CASE ~(i <= Len(c))
      <4>1. PICK j \in 1 .. Len(b) : i = Len(c) + j
        <5>1. i - Len(c) \in 1 .. Len(b) /\ i = Len(c) + (i - Len(c))
          BY <1>3, <3>2
        <5> QED
          BY <5>1
      <4>2. e[Len(c) + j] = b[j] /\ b[j] = source[u][Len(c) + j]
        BY <2>3, <2>5 DEF Concatenated, Progress
      <4> QED
        BY <4>1, <4>2
    <3> QED
      BY <3>1, <3>2
  <2>8. Progress(source[u], fd[s].pos, e, << >>)
    BY <1>2, <1>3, <2>3, <2>6, <2>7 DEF Progress
  <2>9. content'[f] = e /\ fd'[d].pos = Len(e)
    BY <1>4, <1>8, <2>3, <2>6 DEF e
  <2> QED
    BY <1>5, <1>7, <2>1, <2>4, <2>8, <2>9
<1> QED
  BY <1>4, <1>5, <1>6, <1>9, <1>10 DEF StepOK, CopyStep

-----------------------------------------------------------------------------
(* The theorems                                                            *)

LEMMA InitInv == Init => Inv
<1> SUFFICES ASSUME Init PROVE Inv
  OBVIOUS
<1>1. << >> \in Seq(Pieces) /\ <<Old>> \in Seq(Pieces)
  BY EmptySeq DEF Pieces
<1>2. TypeOK
  BY <1>1 DEF Init, TypeOK, CopyPoints
<1>3. OwnInv
  BY DEF Init, OwnInv, Slot, Kinds
<1>4. \A f \in Files : content[f] \in Seq(Pieces) /\ kept[f] = << >>
  BY <1>1 DEF Init
<1>5. AppendInv
  BY <1>4, NothingIsTheEnd DEF AppendInv
<1>6. CopyInv
  BY DEF Init, CopyInv, CopyOf, Faithful
<1> QED
  BY <1>2, <1>3, <1>5, <1>6 DEF Inv

LEMMA NextInv == Inv /\ [Next]_vars => Inv'
<1> SUFFICES ASSUME Inv, [Next]_vars PROVE Inv'
  OBVIOUS
<1>1. CASE UNCHANGED vars
  <2> USE DEF vars, disk, copies
  <2>1. TypeOK' /\ AppendInv'
    BY <1>1 DEF Inv, TypeOK, AppendInv
  <2>2. \A k \in Kinds, u \in Users : Slot(k, u)' = Slot(k, u)
    BY <1>1 DEF Slot, Kinds
  <2>3. OwnInv'
    BY <1>1, <2>2 DEF Inv, OwnInv
  <2>4. ASSUME NEW u \in Users PROVE CopyOf(u)' /\ Faithful(u)'
    <3>1. CopyOf(u) /\ Faithful(u)
      BY DEF Inv, CopyInv
    <3> QED
      BY <1>1, <3>1 DEF CopyOf, Faithful, FileAt
  <2> QED
    BY <2>1, <2>3, <2>4 DEF Inv, CopyInv
<1>2. ASSUME NEW u \in Users, Step(u), Observed(u), UNCHANGED platform
      PROVE  Inv'
  <2>1. ASSUME NEW x \in Paths, NEW m \in OpenModes, Open(u, x, m) PROVE StepOK(u)
    BY <2>1, OpenStep
  <2>2. ASSUME NEW x \in Paths, NEW m \in OpenModes, OpenOutOfMemory(u, x, m) PROVE StepOK(u)
    BY <2>2, OpenOutOfMemoryStep
  <2>3. ASSUME NEW x \in Paths, Delete(u, x) PROVE StepOK(u)
    BY <2>3, DeleteStep
  <2>4. ASSUME NEW x \in Paths, NEW y \in Paths, Move(u, x, y) PROVE StepOK(u)
    BY <2>4, MoveStep
  <2>5. ASSUME NEW x \in Paths, NEW y \in Paths, CopySource(u, x, y) PROVE StepOK(u)
    BY <2>5, CopySourceStep
  <2>6. ASSUME NEW x \in Paths, NEW y \in Paths, CopyFile(u, x, y) PROVE StepOK(u)
    BY <2>6, CopyFileStep
  <2>7. ASSUME Read(u) PROVE StepOK(u)
    BY <2>7, ReadStep
  <2>8. ASSUME Write(u) PROVE StepOK(u)
    BY <2>8, WriteStep
  <2>9. ASSUME Close(u) PROVE StepOK(u)
    BY <2>9, CloseStep
  <2>10. ASSUME Refused(u) PROVE StepOK(u)
    BY <2>10, RefusedStep
  <2>11. ASSUME NEW p \in 0 .. MaxLength, Seek(u, p) PROVE StepOK(u)
    BY <2>11, SeekStep
  <2>12. ASSUME CopyDestination(u) PROVE StepOK(u)
    BY <1>2, <2>12, CopyDestinationStep
  <2>13. ASSUME CopyDestinationFails(u) PROVE StepOK(u)
    BY <2>13, CopyDestinationFailsStep
  <2>14. ASSUME CopyRead(u) PROVE StepOK(u)
    BY <1>2, <2>14, CopyReadStep
  <2>15. ASSUME CopyReadFails(u) PROVE StepOK(u)
    BY <2>15, CopyReadFailsStep
  <2>16. ASSUME CopyWrite(u) PROVE StepOK(u)
    BY <1>2, <2>16, CopyWriteStep
  <2>17. ASSUME CopyWriteFails(u) PROVE StepOK(u)
    BY <2>17, CopyWriteFailsStep
  <2>18. ASSUME CopyDone(u) PROVE StepOK(u)
    BY <2>18, CopyDoneStep
  <2>19. StepOK(u)
    BY <1>2, <2>1, <2>2, <2>3, <2>4, <2>5, <2>6, <2>7, <2>8, <2>9, <2>10, <2>11, <2>12,
       <2>13, <2>14, <2>15, <2>16, <2>17, <2>18 DEF Step
  <2> QED
    BY <1>2, <2>19, StepKeepsInv
<1> QED
  BY <1>1, <1>2 DEF Next

(* The inductive invariant holds in every state.                           *)
THEOREM AlwaysInv == Spec => []Inv
BY InitInv, NextInv, PTL DEF Spec

(* An open descriptor has one holder, by OwnInv: one of the three sets of  *)
(* NoDescriptorLeak has one member and the others none.                    *)
THEOREM NoDescriptorEverLeaks == Spec => []NoDescriptorLeak
<1>1. Inv => NoDescriptorLeak
  <2> SUFFICES ASSUME Inv, NEW d \in Fds, fd[d] # None
               PROVE  Cardinality({u \in Users : handle[u] = d}) + Cardinality({u \in Users : src[u] = d})
                        + Cardinality({u \in Users : dst[u] = d}) = 1
    BY DEF NoDescriptorLeak, Closed
  <2> DEFINE Of(k) == {u \in Users : Slot(k, u) = d}
  <2>1. PICK k \in Kinds, u \in Users : Slot(k, u) = d
    BY DEF Inv, OwnInv
  <2>2. d # None
    BY NoneIsNoFd
  <2>3. Of(k) = {u} /\ \A l \in Kinds \ {k} : Of(l) = {}
    BY <2>1, <2>2 DEF Inv, OwnInv
  <2>4. /\ Of("handle") = {v \in Users : handle[v] = d}
        /\ Of("src") = {v \in Users : src[v] = d}
        /\ Of("dst") = {v \in Users : dst[v] = d}
    BY DEF Slot
  <2> HIDE DEF Of
  <2>5. Cardinality(Of(k)) = 1 /\ \A l \in Kinds \ {k} : Cardinality(Of(l)) = 0
    BY <2>3, FS_Singleton, FS_EmptySet
  <2>6. Cardinality(Of("handle")) + Cardinality(Of("src")) + Cardinality(Of("dst")) = 1
    BY <2>5 DEF Kinds
  <2> QED
    BY <2>4, <2>6
<1> QED
  BY <1>1, AlwaysInv, PTL

(* What appending handles wrote is the end of the file, of any length.     *)
THEOREM AppendsAlwaysSurvive == Spec => []AppendsSurvive
<1>1. Inv => AppendsSurvive
  <2> SUFFICES ASSUME Inv, NEW f \in Files PROVE IsSuffix(kept[f], content[f])
    BY DEF AppendsSurvive
  <2>1. kept[f] \in Seq(Pieces) /\ content[f] \in Seq(Pieces) /\ EndOf(kept[f], content[f])
    BY DEF Inv, TypeOK, AppendInv
  <2> QED
    BY <2>1, EndIsSuffix
<1> QED
  BY <1>1, AlwaysInv, PTL

(* A copy nobody has touched is complete when it answers, whatever the     *)
(* lengths of the file and of the buffer: what was read is all there was.  *)
THEOREM CopiesAreFaithful == Spec => CopyIsFaithful
<1>1. ASSUME Inv, NEW u \in Users, CopyDone(u), quiet[u], FileAt(src[u]) # FileAt(dst[u])
      PROVE  Copied(u) /\ content[FileAt(src[u])] = source[u]
  <2> DEFINE s == src[u]
             c == content[FileAt(dst[u])]
  <2>1. at[u] = "read" /\ << >> \in Readable(s, BufferSize)
    BY <1>1 DEF CopyDone
  <2>2. s \in Fds /\ fd[s] # None /\ FileAt(s) \in Files /\ fd[s].pos \in Nat
        /\ FileAt(dst[u]) \in Files
    BY <1>1, <2>1, CopyHolds
  <2>3. /\ content[FileAt(s)] = source[u] /\ buf[u] = << >>
        /\ Progress(source[u], fd[s].pos, c, buf[u])
    BY <1>1, <2>1 DEF Inv, CopyInv, CopyOf, Faithful
  <2>4. Len(content[FileAt(s)]) <= fd[s].pos
    BY <1>1, <2>1, <2>2, ReadableFacts, FileAssumption DEF Inv, FileAssumption
  <2>5. c \in Seq(Pieces) /\ source[u] \in Seq(Pieces)
    BY <1>1, <2>2 DEF Inv, TypeOK
  <2>6. Len(c) \in Nat /\ Len(source[u]) \in Nat /\ Len(<< >>) = 0
    BY <2>5, LenProperties, EmptySeq
  <2>7. Len(c) = Len(source[u]) /\ \A i \in 1 .. Len(c) : c[i] = source[u][i]
    BY <2>2, <2>3, <2>4, <2>6 DEF Progress
  <2>8. c = source[u]
    BY <2>5, <2>7, SeqEqual
  <2> QED
    BY <2>3, <2>8 DEF Copied
<1>2. Inv /\ [Next]_vars =>
        [\A u \in Users :
           CopyDone(u) /\ quiet[u] /\ FileAt(src[u]) # FileAt(dst[u])
           => Copied(u) /\ content[FileAt(src[u])] = source[u]]_vars
  BY <1>1
<1> QED
  BY <1>2, AlwaysInv, PTL DEF Spec, CopyIsFaithful

-----------------------------------------------------------------------------
-----------------------------------------------------------------------------
(* The other objects of the system                                         *)

HandlesSpec == HandlesInit /\ [][HandlesNext]_<<platform, handleVars>>

-----------------------------------------------------------------------------
(* The inductive invariant                                                 *)

Points ==
    {"idle", "ensure", "startup", "mark", "resolve", "send", "address", "attach", "free_list",
     "listen", "wrap", "socket", "accept", "library", "init", "join", "close", "free",
     "spawn", "wait", "open_log"}

Operations ==
    Network \cup HeapFirst \cup {"none", "accept", "load", "close", "join", "execute", "set_file"}

Objects == Numbers \cup {Nothing}

Structures == [kind : HeapFirst \cup {"socket", "library"}, block : Blocks, obj : Objects]

CallRecords ==
    [op : Operations, at : Points, block : Blocks \cup {Nothing}, obj : Objects, left : Int]

TypeInv ==
    /\ platform \in Platforms
    /\ blocks \subseteq Blocks /\ os \subseteq Numbers /\ lists \in Int
    /\ handles \subseteq Structures
    /\ abandoned \subseteq Numbers /\ logFile \in Objects
    /\ call \in [Threads -> CallRecords]

(* What a call has in its hands at each of its points.                     *)
GoodCall(c) ==
    /\ c.at = "idle" => c.op = "none"
    /\ c.at \in {"idle", "ensure", "startup", "mark", "resolve", "send", "socket", "accept",
                 "library", "address", "open_log"} => c.block = Nothing /\ c.obj = Nothing
    /\ c.at \in {"attach", "free_list", "listen", "wrap", "wait"} => c.block = Nothing /\ c.obj # Nothing
    /\ c.at = "init" => c.block # Nothing /\ c.obj = Nothing /\ c.op \in HeapFirst
    /\ c.at \in {"join", "close"} => c.block # Nothing
    /\ c.at = "free" => c.block # Nothing /\ c.obj = Nothing
    /\ c.at = "spawn" => c.obj = Nothing
    /\ c.op = "set_file" <=> c.at = "open_log"

(* Where a block or an object can be.                                      *)
Places ==
    ({"handle"} \X Structures) \cup ({"call"} \X Threads) \cup ({"abandoned"} \X Numbers)
    \cup {<<"log", Nothing>>}

ObjAt ==
    [p \in Places |->
        IF p[1] = "handle" THEN (IF p[2] \in handles THEN p[2].obj ELSE Nothing)
        ELSE IF p[1] = "call" THEN call[p[2]].obj
        ELSE IF p[1] = "abandoned" THEN (IF p[2] \in abandoned THEN p[2] ELSE Nothing)
        ELSE logFile]

BlockAt ==
    [p \in Places |->
        IF p[1] = "handle" THEN (IF p[2] \in handles THEN p[2].block ELSE Nothing)
        ELSE IF p[1] = "call" THEN call[p[2]].block
        ELSE Nothing]

(* g[p] is what is at place p, of the things R in use.                     *)
Owned(R, g) ==
    /\ \A p \in Places : g[p] # Nothing => g[p] \in R
    /\ \A p, q \in Places : g[p] = g[q] /\ g[p] # Nothing => p = q
    /\ \A r \in R : \E p \in Places : g[p] = r

HandlesOwnInv == Owned(os, ObjAt) /\ Owned(blocks, BlockAt)

ListPoints == {"address", "attach", "free_list", "send"}
Listing == {t \in Threads : call[t].at \in ListPoints}

(* One thread at a time sets the log file, and it has none meanwhile.      *)
LogInv ==
    \A t \in Threads : call[t].at = "open_log" =>
        /\ logFile = Nothing
        /\ \A s \in Threads : call[s].at = "open_log" => s = t

(* A running thread is held by a ten_thread, which only a join ends.       *)
RunHeld(r) ==
    \/ \E h \in handles : h.kind = "thread" /\ h.obj = r.obj /\ h.block = r.block
    \/ \E t \in Threads : call[t].obj = r.obj /\ call[t].block = r.block /\ call[t].at \in {"join", "wait"}
    \/ r.obj \in abandoned

RunInv ==
    /\ running \subseteq [obj : Numbers, block : Blocks \cup {Nothing}]
    /\ \A r \in running : RunHeld(r)

(* Nobody gets past the start of the network library before it is started. *)
WsaInv ==
    /\ wsa \in [flag : BOOLEAN, library : {"down", "up", "failed"}]
    /\ Windows /\ wsa.flag => wsa.library # "down"
    /\ \A t \in Threads : Windows /\ call[t].at = "mark" => wsa.library # "down"
    /\ StartedFirst

Codes ==
    {"ok", "stale", "network", "io", "out_of_memory", "system", "not_found", "not_supported"}

(* An answer and its code are given together.                              *)
ErrorInv ==
    /\ error \in [Threads -> Codes] /\ answer \in [Threads -> {"none", "ok", "failed", "plugin"}]
    /\ \A t \in Threads :
         /\ answer[t] = "ok" => error[t] = "ok"
         /\ answer[t] = "failed" => error[t] \notin {"ok", "stale"}

CallInv == \A t \in Threads : GoodCall(call[t])

ListInv == lists = Cardinality(Listing)

(* What a step does to what is in use, and to who has it.                  *)
HeldInv == TypeInv /\ CallInv /\ HandlesOwnInv /\ ListInv /\ LogInv

HandlesInv == HeldInv /\ RunInv /\ WsaInv /\ ErrorInv

-----------------------------------------------------------------------------
(* Owners                                                                  *)

LEMMA TakesOwned ==
    ASSUME NEW R, NEW g, NEW h, Owned(R, g), NEW p \in Places, g[p] = Nothing,
           NEW r, r \notin R, r # Nothing, Nothing \notin R,
           \A q \in Places : h[q] = IF q = p THEN r ELSE g[q]
    PROVE  Owned(R \cup {r}, h)
<1>1. \A q \in Places : h[q] # Nothing => h[q] \in R \cup {r}
    BY DEF Owned
<1>2. ASSUME NEW q \in Places, NEW o \in Places, h[q] = h[o], h[q] # Nothing
      PROVE  q = o
    BY <1>2 DEF Owned
<1>3. ASSUME NEW s \in R \cup {r}
      PROVE  \E q \in Places : h[q] = s
    <2>1. CASE s = r
        BY <2>1
    <2>2. CASE s \in R
        <3>1. PICK q \in Places : g[q] = s
            BY <2>2 DEF Owned
        <3> QED
            BY <2>2, <3>1
    <2> QED
        BY <1>3, <2>1, <2>2
<1> QED
    BY <1>1, <1>2, <1>3 DEF Owned

LEMMA GivesOwned ==
    ASSUME NEW R, NEW g, NEW h, Owned(R, g), NEW p \in Places,
           \A q \in Places : h[q] = IF q = p THEN Nothing ELSE g[q],
           Nothing \notin R
    PROVE  Owned(R \ {g[p]}, h)
BY DEF Owned

LEMMA HandsOwned ==
    ASSUME NEW R, NEW g, NEW h, Owned(R, g), NEW p \in Places, NEW o \in Places, g[o] = Nothing, p # o,
           \A q \in Places : h[q] = IF q = o THEN g[p] ELSE IF q = p THEN Nothing ELSE g[q]
    PROVE  Owned(R, h)
BY DEF Owned

LEMMA SameOwned ==
    ASSUME NEW R, NEW g, NEW h, Owned(R, g), \A q \in Places : h[q] = g[q]
    PROVE  Owned(R, h)
BY DEF Owned

LEMMA PlacesAre ==
    /\ \A h \in Structures : <<"handle", h>> \in Places
    /\ \A t \in Threads : <<"call", t>> \in Places
    /\ \A n \in Numbers : <<"abandoned", n>> \in Places
    /\ <<"log", Nothing>> \in Places
    /\ \A p \in Places : \/ \E h \in Structures : p = <<"handle", h>>
                         \/ \E t \in Threads : p = <<"call", t>>
                         \/ \E n \in Numbers : p = <<"abandoned", n>>
                         \/ p = <<"log", Nothing>>
BY DEF Places

LEMMA PlacesDiffer ==
    ASSUME NEW x, NEW y
    PROVE  /\ <<"handle", x>> # <<"call", y>> /\ <<"handle", x>> # <<"abandoned", y>>
           /\ <<"handle", x>> # <<"log", y>> /\ <<"call", x>> # <<"abandoned", y>>
           /\ <<"call", x>> # <<"log", y>> /\ <<"abandoned", x>> # <<"log", y>>
           /\ <<"handle", x>> = <<"handle", y>> => x = y
           /\ <<"call", x>> = <<"call", y>> => x = y
           /\ <<"abandoned", x>> = <<"abandoned", y>> => x = y
OBVIOUS

LEMMA AtPlaces ==
    /\ \A h \in Structures : /\ ObjAt[<<"handle", h>>] = IF h \in handles THEN h.obj ELSE Nothing
                             /\ BlockAt[<<"handle", h>>] = IF h \in handles THEN h.block ELSE Nothing
    /\ \A t \in Threads : ObjAt[<<"call", t>>] = call[t].obj /\ BlockAt[<<"call", t>>] = call[t].block
    /\ \A n \in Numbers : /\ ObjAt[<<"abandoned", n>>] = IF n \in abandoned THEN n ELSE Nothing
                          /\ BlockAt[<<"abandoned", n>>] = Nothing
    /\ ObjAt[<<"log", Nothing>>] = logFile /\ BlockAt[<<"log", Nothing>>] = Nothing
BY PlacesAre DEF ObjAt, BlockAt

LEMMA AtPlacesNext ==
    /\ \A h \in Structures : /\ ObjAt'[<<"handle", h>>] = IF h \in handles' THEN h.obj ELSE Nothing
                             /\ BlockAt'[<<"handle", h>>] = IF h \in handles' THEN h.block ELSE Nothing
    /\ \A t \in Threads : ObjAt'[<<"call", t>>] = call'[t].obj /\ BlockAt'[<<"call", t>>] = call'[t].block
    /\ \A n \in Numbers : /\ ObjAt'[<<"abandoned", n>>] = IF n \in abandoned' THEN n ELSE Nothing
                          /\ BlockAt'[<<"abandoned", n>>] = Nothing
    /\ ObjAt'[<<"log", Nothing>>] = logFile' /\ BlockAt'[<<"log", Nothing>>] = Nothing
BY PlacesAre DEF ObjAt, BlockAt

(* What one thread's step leaves of the calls of the others.               *)
OnlyCall(t) ==
    /\ call' \in [Threads -> CallRecords]
    /\ \A s \in Threads \ {t} : call'[s] = call[s]

LEMMA CallChanges ==
    ASSUME NEW t \in Threads, OnlyCall(t), UNCHANGED <<handles, abandoned, logFile>>
    PROVE  \A q \in Places :
             /\ ObjAt'[q] = IF q = <<"call", t>> THEN call'[t].obj ELSE ObjAt[q]
             /\ BlockAt'[q] = IF q = <<"call", t>> THEN call'[t].block ELSE BlockAt[q]
<1> SUFFICES ASSUME NEW q \in Places
             PROVE  /\ ObjAt'[q] = IF q = <<"call", t>> THEN call'[t].obj ELSE ObjAt[q]
                    /\ BlockAt'[q] = IF q = <<"call", t>> THEN call'[t].block ELSE BlockAt[q]
    OBVIOUS
<1>1. ASSUME NEW h \in Structures, q = <<"handle", h>>
      PROVE  q # <<"call", t>> /\ ObjAt'[q] = ObjAt[q] /\ BlockAt'[q] = BlockAt[q]
    BY <1>1, AtPlaces, AtPlacesNext, PlacesDiffer
<1>2. ASSUME NEW n \in Numbers, q = <<"abandoned", n>>
      PROVE  q # <<"call", t>> /\ ObjAt'[q] = ObjAt[q] /\ BlockAt'[q] = BlockAt[q]
    BY <1>2, AtPlaces, AtPlacesNext, PlacesDiffer
<1>3. ASSUME q = <<"log", Nothing>>
      PROVE  q # <<"call", t>> /\ ObjAt'[q] = ObjAt[q] /\ BlockAt'[q] = BlockAt[q]
    BY <1>3, AtPlaces, AtPlacesNext, PlacesDiffer
<1>4. ASSUME NEW s \in Threads, s # t, q = <<"call", s>>
      PROVE  q # <<"call", t>> /\ ObjAt'[q] = ObjAt[q] /\ BlockAt'[q] = BlockAt[q]
    BY <1>4, AtPlaces, AtPlacesNext, PlacesDiffer DEF OnlyCall
<1>5. CASE q = <<"call", t>>
    BY <1>5, AtPlacesNext
<1> QED
    BY <1>1, <1>2, <1>3, <1>4, <1>5, PlacesAre

(* The structure h is given out, or taken back.                            *)
LEMMA HandleChanges ==
    ASSUME NEW t \in Threads, OnlyCall(t), UNCHANGED <<abandoned, logFile>>, NEW h \in Structures,
           \A g \in Structures \ {h} : g \in handles' <=> g \in handles
    PROVE  \A q \in Places :
             /\ ObjAt'[q] = IF q = <<"handle", h>> THEN (IF h \in handles' THEN h.obj ELSE Nothing)
                            ELSE IF q = <<"call", t>> THEN call'[t].obj ELSE ObjAt[q]
             /\ BlockAt'[q] = IF q = <<"handle", h>> THEN (IF h \in handles' THEN h.block ELSE Nothing)
                              ELSE IF q = <<"call", t>> THEN call'[t].block ELSE BlockAt[q]
<1> SUFFICES ASSUME NEW q \in Places
             PROVE  /\ ObjAt'[q] = IF q = <<"handle", h>> THEN (IF h \in handles' THEN h.obj ELSE Nothing)
                                   ELSE IF q = <<"call", t>> THEN call'[t].obj ELSE ObjAt[q]
                    /\ BlockAt'[q] = IF q = <<"handle", h>> THEN (IF h \in handles' THEN h.block ELSE Nothing)
                                     ELSE IF q = <<"call", t>> THEN call'[t].block ELSE BlockAt[q]
    OBVIOUS
<1>1. CASE q = <<"handle", h>>
    BY <1>1, AtPlacesNext
<1>2. ASSUME NEW g \in Structures, g # h, q = <<"handle", g>>
      PROVE  q # <<"handle", h>> /\ q # <<"call", t>> /\ ObjAt'[q] = ObjAt[q] /\ BlockAt'[q] = BlockAt[q]
    BY <1>2, AtPlaces, AtPlacesNext, PlacesDiffer
<1>3. ASSUME NEW n \in Numbers, q = <<"abandoned", n>>
      PROVE  q # <<"handle", h>> /\ q # <<"call", t>> /\ ObjAt'[q] = ObjAt[q] /\ BlockAt'[q] = BlockAt[q]
    BY <1>3, AtPlaces, AtPlacesNext, PlacesDiffer
<1>4. ASSUME q = <<"log", Nothing>>
      PROVE  q # <<"handle", h>> /\ q # <<"call", t>> /\ ObjAt'[q] = ObjAt[q] /\ BlockAt'[q] = BlockAt[q]
    BY <1>4, AtPlaces, AtPlacesNext, PlacesDiffer
<1>5. ASSUME NEW s \in Threads, s # t, q = <<"call", s>>
      PROVE  q # <<"handle", h>> /\ q # <<"call", t>> /\ ObjAt'[q] = ObjAt[q] /\ BlockAt'[q] = BlockAt[q]
    BY <1>5, AtPlaces, AtPlacesNext, PlacesDiffer DEF OnlyCall
<1>6. CASE q = <<"call", t>>
    BY <1>6, AtPlacesNext, PlacesDiffer
<1> QED
    BY <1>1, <1>2, <1>3, <1>4, <1>5, <1>6, PlacesAre

-----------------------------------------------------------------------------
(* Steps that change what one call has in its hands                        *)

ObjStep(c, d) ==
    \/ d.obj = c.obj /\ os' = os
    \/ c.obj = Nothing /\ d.obj \in Numbers \ os /\ os' = os \cup {d.obj}
    \/ d.obj = Nothing /\ os' = os \ {c.obj}

BlockStep(c, d) ==
    \/ d.block = c.block /\ blocks' = blocks
    \/ c.block = Nothing /\ d.block \in Blocks \ blocks /\ blocks' = blocks \cup {d.block}
    \/ d.block = Nothing /\ blocks' = blocks \ {c.block}

ListStep(c, d) ==
    \/ lists' = lists /\ (c.at \in ListPoints <=> d.at \in ListPoints)
    \/ lists' = lists + 1 /\ c.at \notin ListPoints /\ d.at \in ListPoints
    \/ lists' = lists - 1 /\ c.at \in ListPoints /\ d.at \notin ListPoints

LEMMA Moved ==
    ASSUME TypeInv, NEW t \in Threads, NEW d \in CallRecords, call' = [call EXCEPT ![t] = d]
    PROVE  OnlyCall(t) /\ call'[t] = d
BY DEF TypeInv, OnlyCall

LEMMA ListStepKeeps ==
    ASSUME TypeInv, ListInv, NEW t \in Threads, NEW d \in CallRecords, call' = [call EXCEPT ![t] = d],
           ListStep(call[t], d)
    PROVE  ListInv' /\ lists' \in Int
<1> USE HandlesAssumption
<1>1. OnlyCall(t) /\ call'[t] = d
    BY Moved
<1>2. IsFiniteSet(Listing) /\ Listing \subseteq Threads
    BY FS_Subset DEF Listing
<1>3. CASE lists' = lists /\ (call[t].at \in ListPoints <=> d.at \in ListPoints)
    <2>1. Listing' = Listing
        BY <1>1, <1>3 DEF Listing, OnlyCall
    <2> QED
        BY <1>3, <2>1 DEF ListInv, TypeInv
<1>4. CASE lists' = lists + 1 /\ call[t].at \notin ListPoints /\ d.at \in ListPoints
    <2>1. Listing' = Listing \cup {t} /\ t \notin Listing
        BY <1>1, <1>4 DEF Listing, OnlyCall
    <2>2. Cardinality(Listing') = Cardinality(Listing) + 1
        BY <1>2, <2>1, FS_AddElement
    <2> QED
        BY <1>4, <2>2 DEF ListInv, TypeInv
<1>5. CASE lists' = lists - 1 /\ call[t].at \in ListPoints /\ d.at \notin ListPoints
    <2>1. Listing' = Listing \ {t} /\ t \in Listing
        BY <1>1, <1>5 DEF Listing, OnlyCall
    <2>2. Cardinality(Listing') = Cardinality(Listing) - 1
        BY <1>2, <2>1, FS_RemoveElement
    <2> QED
        BY <1>5, <2>2 DEF ListInv, TypeInv
<1> QED
    BY <1>3, <1>4, <1>5 DEF ListStep

LEMMA OwnStepKeeps ==
    ASSUME TypeInv, HandlesOwnInv, NEW t \in Threads, NEW d \in CallRecords, call' = [call EXCEPT ![t] = d],
           UNCHANGED <<handles, abandoned, logFile>>,
           ObjStep(call[t], d), BlockStep(call[t], d)
    PROVE  HandlesOwnInv'
<1> USE HandlesAssumption
<1> DEFINE p == <<"call", t>>
<1>1. OnlyCall(t) /\ call'[t] = d
    BY Moved
<1>2. p \in Places /\ ObjAt[p] = call[t].obj /\ BlockAt[p] = call[t].block
    BY PlacesAre, AtPlaces
<1>3. \A q \in Places : /\ ObjAt'[q] = IF q = p THEN d.obj ELSE ObjAt[q]
                        /\ BlockAt'[q] = IF q = p THEN d.block ELSE BlockAt[q]
    BY <1>1, CallChanges
<1> HIDE DEF p
<1>4. Owned(os', ObjAt')
    <2>0. Owned(os, ObjAt) /\ Nothing \notin os
        BY DEF HandlesOwnInv, TypeInv
    <2>1. CASE d.obj = call[t].obj /\ os' = os
        <3>1. \A q \in Places : ObjAt'[q] = ObjAt[q]
            BY <1>2, <1>3, <2>1
        <3> QED
            BY <2>0, <2>1, <3>1, SameOwned
    <2>2. CASE call[t].obj = Nothing /\ d.obj \in Numbers \ os /\ os' = os \cup {d.obj}
        <3>1. d.obj # Nothing /\ d.obj \notin os
            BY <2>2
        <3> QED
            BY <1>2, <1>3, <2>0, <2>2, <3>1, TakesOwned
    <2>3. CASE d.obj = Nothing /\ os' = os \ {call[t].obj}
        BY <1>2, <1>3, <2>0, <2>3, GivesOwned
    <2> QED
        BY <2>1, <2>2, <2>3 DEF ObjStep
<1>5. Owned(blocks', BlockAt')
    <2>0. Owned(blocks, BlockAt) /\ Nothing \notin blocks
        BY DEF HandlesOwnInv, TypeInv
    <2>1. CASE d.block = call[t].block /\ blocks' = blocks
        <3>1. \A q \in Places : BlockAt'[q] = BlockAt[q]
            BY <1>2, <1>3, <2>1
        <3> QED
            BY <2>0, <2>1, <3>1, SameOwned
    <2>2. CASE call[t].block = Nothing /\ d.block \in Blocks \ blocks /\ blocks' = blocks \cup {d.block}
        <3>1. d.block # Nothing /\ d.block \notin blocks
            BY <2>2
        <3> QED
            BY <1>2, <1>3, <2>0, <2>2, <3>1, TakesOwned
    <2>3. CASE d.block = Nothing /\ blocks' = blocks \ {call[t].block}
        BY <1>2, <1>3, <2>0, <2>3, GivesOwned
    <2> QED
        BY <2>1, <2>2, <2>3 DEF BlockStep
<1> QED
    BY <1>4, <1>5 DEF HandlesOwnInv

LEMMA CallStepKeeps ==
    ASSUME HeldInv, NEW t \in Threads, NEW d \in CallRecords, call' = [call EXCEPT ![t] = d],
           UNCHANGED <<platform, handles, abandoned, logFile>>, GoodCall(d), d.at # "open_log",
           ObjStep(call[t], d), BlockStep(call[t], d), ListStep(call[t], d)
    PROVE  HeldInv'
<1> USE DEF HeldInv
<1>1. OnlyCall(t) /\ call'[t] = d
    BY Moved
<1>2. HandlesOwnInv'
    BY OwnStepKeeps
<1>3. ListInv' /\ lists' \in Int
    BY ListStepKeeps
<1>4. TypeInv'
    <2>1. os' \subseteq Numbers /\ blocks' \subseteq Blocks
        BY DEF ObjStep, BlockStep, TypeInv, CallRecords, Objects
    <2> QED
        BY <1>1, <1>3, <2>1 DEF TypeInv, OnlyCall
<1>5. CallInv'
    BY <1>1 DEF CallInv, OnlyCall
<1>6. LogInv'
    BY <1>1 DEF LogInv, OnlyCall
<1> QED
    BY <1>2, <1>3, <1>4, <1>5, <1>6

(* The calls after a step that writes one field, or all of them.           *)
StepOf(t) ==
    /\ OnlyCall(t)
    /\ UNCHANGED <<platform, handles, abandoned, logFile>>
    /\ GoodCall(call'[t]) /\ call'[t].at # "open_log"
    /\ ObjStep(call[t], call'[t]) /\ BlockStep(call[t], call'[t]) /\ ListStep(call[t], call'[t])

LEMMA StepKeeps ==
    ASSUME HeldInv, NEW t \in Threads, StepOf(t)
    PROVE  HeldInv'
<1>1. call'[t] \in CallRecords /\ call' = [call EXCEPT ![t] = call'[t]]
    BY DEF HeldInv, TypeInv, StepOf, OnlyCall
<1> QED
    BY <1>1, CallStepKeeps DEF StepOf

LEMMA CallFacts ==
    ASSUME HeldInv, NEW t \in Threads
    PROVE  /\ call[t] \in CallRecords /\ GoodCall(call[t])
           /\ call[t].op \in Operations /\ call[t].at \in Points /\ call[t].left \in Int
           /\ call[t].block \in Blocks \cup {Nothing} /\ call[t].obj \in Objects
BY DEF HeldInv, TypeInv, CallInv, CallRecords

LEMMA PointFacts ==
    ASSUME HeldInv, NEW t \in Threads, NEW point \in Points, call' = [call EXCEPT ![t].at = point]
    PROVE  /\ OnlyCall(t) /\ call'[t].at = point /\ call'[t].op = call[t].op
           /\ call'[t].block = call[t].block /\ call'[t].obj = call[t].obj
BY CallFacts DEF HeldInv, TypeInv, CallRecords, OnlyCall

LEMMA QuietFacts ==
    ASSUME HeldInv, NEW t \in Threads, call' = [call EXCEPT ![t] = Quiet]
    PROVE  /\ OnlyCall(t) /\ call'[t].at = "idle" /\ call'[t].op = "none"
           /\ call'[t].block = Nothing /\ call'[t].obj = Nothing
           /\ GoodCall(call'[t])
BY CallFacts DEF HeldInv, TypeInv, CallRecords, OnlyCall, Quiet, Operations, Points, Objects, GoodCall

LEMMA QuietIsOne ==
    Quiet \in CallRecords /\ Quiet.block = Nothing /\ Quiet.obj = Nothing /\ Quiet.at = "idle"
BY DEF CallRecords, Quiet, Operations, Points, Objects

LEMMA RecordFacts ==
    ASSUME HeldInv, NEW t \in Threads, NEW d \in CallRecords, call' = [call EXCEPT ![t] = d]
    PROVE  OnlyCall(t) /\ call'[t] = d
BY Moved DEF HeldInv

(* The heap and the system give what is not in use.                        *)
LEMMA GivesNew ==
    ASSUME NEW all, all \subseteq Nat, NEW used, NEW n, Gives(used, all, n)
    PROVE  n \in all \ used
<1>1. all \ used \subseteq Nat /\ all \ used # {}
    BY DEF Gives
<1>2. \E d \in all \ used : \A e \in all \ used : <<e, d>> \notin OpToRel(<, Nat)
    BY <1>1, NatLessThanWellFounded, WFMin
<1>3. \A d, e \in Nat : <<e, d>> \notin OpToRel(<, Nat) => d <= e
    <2> SUFFICES ASSUME NEW d \in Nat, NEW e \in Nat, e < d
                 PROVE  <<e, d>> \in {p \in Nat \X Nat : p[1] < p[2]}
        BY DEF OpToRel
    <2> QED
        OBVIOUS
<1>4. \E d \in all \ used : \A e \in all \ used : d <= e
    BY <1>1, <1>2, <1>3
<1> QED
    BY <1>4 DEF Gives, Lowest

LEMMA NewNumber ==
    ASSUME NEW n \in Numbers, Gives(os, Numbers, n)
    PROVE  n \notin os /\ n # Nothing
BY GivesNew, HandlesAssumption

LEMMA NewBlock ==
    ASSUME NEW b \in Blocks, Gives(blocks, Blocks, b)
    PROVE  b \notin blocks /\ b # Nothing
BY GivesNew, HandlesAssumption

-----------------------------------------------------------------------------
(* Steps of a call: nothing but its own hands                              *)

LEMMA NetworkCallKeeps ==
    ASSUME HeldInv, NEW t \in Threads, NEW op \in Network, NetworkCall(t, op)
    PROVE  StepOf(t)
<1> DEFINE point == IF Windows THEN "ensure" ELSE FirstPoint(op)
           d == [Quiet EXCEPT !.op = op, !.at = point]
<1>0. point \in {"ensure", "resolve", "socket"}
    BY DEF FirstPoint
<1> HIDE DEF point
<1>1. d \in CallRecords /\ d.op = op /\ d.at \in {"ensure", "resolve", "socket"}
      /\ d.block = Nothing /\ d.obj = Nothing
    <2>1. op \in Operations /\ point \in Points
        BY <1>0 DEF Operations, Points
    <2> QED
        BY <1>0, <2>1, QuietIsOne DEF CallRecords
<1>2. OnlyCall(t) /\ call'[t] = d
    <2>1. call' = [call EXCEPT ![t] = d]
        BY DEF NetworkCall, Begins, point
    <2> HIDE DEF d
    <2> QED
        BY <1>1, <2>1, RecordFacts
<1> HIDE DEF d
<1>3. GoodCall(d)
    BY <1>1 DEF GoodCall, Network, Addressed
<1>4. call[t].at = "idle" /\ call[t].block = Nothing /\ call[t].obj = Nothing
    BY CallFacts DEF NetworkCall, Calls, At, GoodCall
<1> QED
    BY <1>1, <1>2, <1>3, <1>4 DEF NetworkCall, StepOf, ObjStep, BlockStep, ListStep, ListPoints

LEMMA StartSteps ==
    ASSUME HeldInv, NEW t \in Threads, EnsureInit(t) \/ Startup(t) \/ MarkStarted(t)
    PROVE  StepOf(t)
<1>1. PICK point \in {"startup", "mark", "resolve", "socket"} : Goes(t, point)
    BY DEF EnsureInit, Startup, MarkStarted, FirstPoint
<1>2. OnlyCall(t) /\ call'[t].at = point /\ call'[t].op = call[t].op
      /\ call'[t].block = call[t].block /\ call'[t].obj = call[t].obj
    BY <1>1, PointFacts DEF Goes, Points
<1>3. call[t].at \in {"ensure", "startup", "mark"} /\ GoodCall(call[t])
      /\ UNCHANGED <<platform, blocks, os, lists, handles, abandoned, logFile>>
    BY CallFacts DEF EnsureInit, Startup, MarkStarted, At
<1>4. GoodCall(call'[t])
    BY <1>2, <1>3 DEF GoodCall
<1> QED
    BY <1>2, <1>3, <1>4 DEF StepOf, ObjStep, BlockStep, ListStep, ListPoints

(* A call that ends, with nothing in its hands or with what it gives back. *)
LEMMA EndSteps ==
    ASSUME HeldInv, NEW t \in Threads, call' = [call EXCEPT ![t] = Quiet],
           UNCHANGED <<platform, handles, abandoned, logFile>>,
           (os' = os /\ call[t].obj = Nothing) \/ os' = os \ {call[t].obj},
           (blocks' = blocks /\ call[t].block = Nothing) \/ blocks' = blocks \ {call[t].block},
           \/ lists' = lists /\ call[t].at \notin ListPoints
           \/ lists' = lists - 1 /\ call[t].at \in ListPoints
    PROVE  StepOf(t)
<1>1. OnlyCall(t) /\ call'[t].at = "idle" /\ call'[t].block = Nothing /\ call'[t].obj = Nothing
      /\ GoodCall(call'[t])
    BY QuietFacts
<1> QED
    BY <1>1 DEF StepOf, ObjStep, BlockStep, ListStep, ListPoints

LEMMA AddressSteps ==
    ASSUME HeldInv, NEW t \in Threads,
           Resolve(t) \/ NoSocketHere(t) \/ SocketHere(t) \/ Attaches(t) \/ AttachFails(t)
    PROVE  StepOf(t)
<1>0. GoodCall(call[t]) /\ call[t].left \in Int /\ call[t].obj \in Objects
      /\ call[t].block \in Blocks \cup {Nothing} /\ call[t].op \in Operations /\ call \in [Threads -> CallRecords]
    BY CallFacts DEF HeldInv, TypeInv
<1>1. CASE Resolve(t)
    <2>1. PICK n \in 1..MaxAddresses :
            call' = [call EXCEPT ![t].left = n,
                                 ![t].at = IF call[t].op = "send_to" THEN "send" ELSE "address"]
        BY <1>1 DEF Resolve
    <2>2. OnlyCall(t) /\ call'[t].at \in {"send", "address"} /\ call'[t].op = call[t].op
          /\ call'[t].block = call[t].block /\ call'[t].obj = call[t].obj
        <3>1. n \in Int
            BY HandlesAssumption
        <3>2. call' \in [Threads -> CallRecords]
            <4>1. call[t] \in CallRecords /\ n \in Int
                BY <1>0, <3>1
            <4>2. \A p \in {"send", "address"} : [call[t] EXCEPT !.left = n, !.at = p] \in CallRecords
                BY ONLY <4>1 DEF CallRecords, Points
            <4> QED
                BY <1>0, <2>1, <4>2
        <3>3. \A s \in Threads \ {t} : call'[s] = call[s]
            BY <1>0, <2>1
        <3>4. call'[t].at \in {"send", "address"} /\ call'[t].op = call[t].op
              /\ call'[t].block = call[t].block /\ call'[t].obj = call[t].obj
            BY <1>0, <2>1 DEF CallRecords
        <3> QED
            BY <3>2, <3>3, <3>4 DEF OnlyCall
    <2> QED
        BY <1>0, <1>1, <2>2 DEF Resolve, At, GoodCall, StepOf, ObjStep, BlockStep, ListStep, ListPoints
<1>2. CASE NoSocketHere(t)
    <2>1. OnlyCall(t) /\ call'[t].at = call[t].at /\ call'[t].op = call[t].op
          /\ call'[t].block = call[t].block /\ call'[t].obj = call[t].obj
        BY <1>0, <1>2 DEF NoSocketHere, OnlyCall, CallRecords
    <2> QED
        BY <1>0, <1>2, <2>1 DEF NoSocketHere, At, GoodCall, StepOf, ObjStep, BlockStep, ListStep, ListPoints
<1>3. CASE SocketHere(t)
    <2>1. PICK n \in Numbers :
            /\ n \notin os /\ n # Nothing /\ os' = os \cup {n}
            /\ call' = [call EXCEPT ![t].obj = n, ![t].at = "attach"]
        BY <1>3, NewNumber DEF SocketHere
    <2>2. OnlyCall(t) /\ call'[t].at = "attach" /\ call'[t].op = call[t].op
          /\ call'[t].block = call[t].block /\ call'[t].obj = n
        <3>1. call' \in [Threads -> CallRecords]
            <4>1. call[t] \in CallRecords /\ n \in Objects
                BY <1>0 DEF Objects
            <4>2. [call[t] EXCEPT !.obj = n, !.at = "attach"] \in CallRecords
                BY ONLY <4>1 DEF CallRecords, Points
            <4> QED
                BY <1>0, <2>1, <4>2
        <3>2. \A s \in Threads \ {t} : call'[s] = call[s]
            BY <1>0, <2>1
        <3>3. call'[t].at = "attach" /\ call'[t].op = call[t].op
              /\ call'[t].block = call[t].block /\ call'[t].obj = n
            BY <1>0, <2>1 DEF CallRecords
        <3> QED
            BY <3>1, <3>2, <3>3 DEF OnlyCall
    <2> QED
        BY <1>0, <1>3, <2>1, <2>2 DEF SocketHere, At, GoodCall, StepOf, ObjStep, BlockStep, ListStep, ListPoints
<1>4. CASE Attaches(t)
    <2>1. OnlyCall(t) /\ call'[t].at = "free_list" /\ call'[t].op = call[t].op
          /\ call'[t].block = call[t].block /\ call'[t].obj = call[t].obj
        BY <1>4, PointFacts DEF Attaches, Goes, Points
    <2> QED
        BY <1>0, <1>4, <2>1 DEF Attaches, At, GoodCall, StepOf, ObjStep, BlockStep, ListStep, ListPoints
<1>5. CASE AttachFails(t)
    <2>1. OnlyCall(t) /\ call'[t].at = "address" /\ call'[t].op = call[t].op
          /\ call'[t].block = call[t].block /\ call'[t].obj = Nothing
        BY <1>0, <1>5 DEF AttachFails, OnlyCall, CallRecords, Points, Objects
    <2> QED
        BY <1>0, <1>5, <2>1 DEF AttachFails, At, GoodCall, StepOf, ObjStep, BlockStep, ListStep, ListPoints
<1> QED
    BY <1>1, <1>2, <1>3, <1>4, <1>5

LEMMA ListSteps ==
    ASSUME HeldInv, NEW t \in Threads, FreeList(t) \/ Listens(t)
    PROVE  StepOf(t)
<1>0. GoodCall(call[t])
    BY CallFacts
<1>1. CASE FreeList(t) /\ call[t].obj = Nothing
    <2>1. call' = [call EXCEPT ![t] = Quiet] /\ lists' = lists - 1
          /\ UNCHANGED <<platform, blocks, os, handles, abandoned, logFile>>
          /\ call[t].at \in {"free_list", "address"}
        BY <1>1 DEF FreeList, At, Fails, Answers
    <2>2. call[t].block = Nothing
        BY <1>0, <2>1 DEF GoodCall
    <2> QED
        BY <1>1, <2>1, <2>2, EndSteps DEF ListPoints
<1>2. CASE FreeList(t) /\ call[t].obj # Nothing
    <2>1. PICK point \in {"listen", "wrap"} : Goes(t, point)
        BY <1>2 DEF FreeList
    <2>2. OnlyCall(t) /\ call'[t].at = point /\ call'[t].op = call[t].op
          /\ call'[t].block = call[t].block /\ call'[t].obj = call[t].obj
        BY <2>1, PointFacts DEF Goes, Points
    <2> QED
        BY <1>0, <1>2, <2>2 DEF FreeList, At, GoodCall, StepOf, ObjStep, BlockStep, ListStep, ListPoints
<1>3. CASE Listens(t)
    <2>1. OnlyCall(t) /\ call'[t].at = "wrap" /\ call'[t].op = call[t].op
          /\ call'[t].block = call[t].block /\ call'[t].obj = call[t].obj
        BY <1>3, PointFacts DEF Listens, Goes, Points
    <2> QED
        BY <1>0, <1>3, <2>1 DEF Listens, At, GoodCall, StepOf, ObjStep, BlockStep, ListStep, ListPoints
<1> QED
    BY <1>1, <1>2, <1>3

(* The call fails, or ends, at a point where it has nothing in its hands   *)
(* that it does not give back.                                             *)
LEMMA FailSteps ==
    ASSUME HeldInv, NEW t \in Threads,
           \/ ResolveFails(t) \/ SendTo(t) \/ ListenFails(t) \/ OpenFails(t) \/ WrapFails(t)
           \/ CreateOutOfMemory(t) \/ InitFails(t) \/ FreeBlock(t) \/ SpawnFails(t) \/ ChildReaped(t)
           \/ LogNoFile(t) \/ LogOpenFails(t) \/ Log(t)
           \/ \E h \in handles : \/ Transfer(t, h) \/ Symbol(t, h) \/ PluginInit(t, h)
                                 \/ PluginShutdown(t, h)
    PROVE  StepOf(t)
<1>0. GoodCall(call[t]) /\ call[t].at \in Points
    BY CallFacts
<1>1. call' = [call EXCEPT ![t] = Quiet] /\ UNCHANGED <<platform, handles, abandoned, logFile>>
    BY DEF ResolveFails, SendTo, ListenFails, OpenFails, WrapFails, CreateOutOfMemory, InitFails, FreeBlock,
           SpawnFails, ChildReaped, LogNoFile, LogOpenFails, Log, Transfer, Symbol, PluginInit,
           PluginShutdown, Fails, Succeeds, Answers, Ends
<1>2. CASE SendTo(t)
    BY <1>0, <1>1, <1>2, EndSteps DEF SendTo, At, GoodCall, ListPoints
<1>3. CASE ListenFails(t) \/ WrapFails(t) \/ ChildReaped(t)
    BY <1>0, <1>1, <1>3, EndSteps DEF ListenFails, WrapFails, ChildReaped, At, GoodCall, ListPoints
<1>4. CASE InitFails(t) \/ FreeBlock(t) \/ SpawnFails(t)
    BY <1>0, <1>1, <1>4, EndSteps DEF InitFails, FreeBlock, SpawnFails, At, GoodCall, ListPoints
<1>5. CASE ResolveFails(t) \/ OpenFails(t) \/ LogNoFile(t) \/ LogOpenFails(t)
    BY <1>0, <1>1, <1>5, EndSteps DEF ResolveFails, OpenFails, LogNoFile, LogOpenFails, At, GoodCall, ListPoints
<1>6. CASE CreateOutOfMemory(t) \/ Log(t)
    BY <1>0, <1>1, <1>6, EndSteps DEF CreateOutOfMemory, Log, Calls, At, GoodCall, ListPoints
<1>7. ASSUME NEW h \in handles,
             Transfer(t, h) \/ Symbol(t, h) \/ PluginInit(t, h) \/ PluginShutdown(t, h)
      PROVE  StepOf(t)
    BY <1>0, <1>1, <1>7, EndSteps
       DEF Transfer, Symbol, PluginInit, PluginShutdown, Calls, At, GoodCall, ListPoints
<1> QED
    BY <1>2, <1>3, <1>4, <1>5, <1>6, <1>7

(* A call that begins with nothing in its hands.                           *)
LEMMA BeginSteps ==
    ASSUME HeldInv, NEW t \in Threads, NEW op \in Operations \ {"set_file"},
           NEW point \in {"accept", "library", "spawn"},
           Calls(t), Begins(t, [Quiet EXCEPT !.op = op, !.at = point]),
           UNCHANGED <<platform, blocks, os, lists, handles, abandoned, logFile>>
    PROVE  StepOf(t)
<1> DEFINE d == [Quiet EXCEPT !.op = op, !.at = point]
<1>1. d \in CallRecords /\ d.op = op /\ d.at = point /\ d.block = Nothing /\ d.obj = Nothing
    <2>1. point \in Points
        BY DEF Points
    <2> QED
        BY <2>1, QuietIsOne DEF CallRecords
<1>2. OnlyCall(t) /\ call'[t] = d
    <2>1. call' = [call EXCEPT ![t] = d]
        BY DEF Begins
    <2> HIDE DEF d
    <2> QED
        BY <1>1, <2>1, RecordFacts
<1> HIDE DEF d
<1>3. GoodCall(d)
    BY <1>1 DEF GoodCall
<1>4. call[t].at = "idle" /\ call[t].block = Nothing /\ call[t].obj = Nothing
    BY CallFacts DEF Calls, At, GoodCall
<1> QED
    BY <1>1, <1>2, <1>3, <1>4 DEF StepOf, ObjStep, BlockStep, ListStep, ListPoints

(* A call that begins with a new block.                                    *)
LEMMA BlockSteps ==
    ASSUME HeldInv, NEW t \in Threads, NEW b \in Blocks, Gives(blocks, Blocks, b), blocks' = blocks \cup {b},
           NEW op \in Operations \ {"set_file"}, NEW point \in {"init", "spawn"},
           point = "init" => op \in HeapFirst,
           Calls(t), Begins(t, [Quiet EXCEPT !.op = op, !.at = point, !.block = b]),
           UNCHANGED <<platform, os, lists, handles, abandoned, logFile>>
    PROVE  StepOf(t)
<1> DEFINE d == [Quiet EXCEPT !.op = op, !.at = point, !.block = b]
<1>0. b \notin blocks /\ b # Nothing
    BY NewBlock
<1>1. d \in CallRecords /\ d.op = op /\ d.at = point /\ d.block = b /\ d.obj = Nothing
    <2>1. point \in Points
        BY DEF Points
    <2> QED
        BY <2>1, QuietIsOne DEF CallRecords
<1>2. OnlyCall(t) /\ call'[t] = d
    <2>1. call' = [call EXCEPT ![t] = d]
        BY DEF Begins
    <2> HIDE DEF d
    <2> QED
        BY <1>1, <2>1, RecordFacts
<1> HIDE DEF d
<1>3. GoodCall(d)
    BY <1>0, <1>1 DEF GoodCall
<1>4. call[t].at = "idle" /\ call[t].block = Nothing /\ call[t].obj = Nothing
    BY CallFacts DEF Calls, At, GoodCall
<1> QED
    BY <1>0, <1>1, <1>2, <1>3, <1>4 DEF StepOf, ObjStep, BlockStep, ListStep, ListPoints

LEMMA OpenSteps ==
    ASSUME HeldInv, NEW t \in Threads,
           \/ Opens(t) \/ TcpAccept(t) \/ PluginLoad(t) \/ Execute(t)
           \/ \E kind \in HeapFirst : Create(t, kind)
    PROVE  StepOf(t)
<1>0. GoodCall(call[t]) /\ call[t].obj \in Objects /\ call[t].at \in Points
      /\ call[t].block \in Blocks \cup {Nothing} /\ call[t].op \in Operations /\ call \in [Threads -> CallRecords]
    BY CallFacts DEF HeldInv, TypeInv
<1>1. CASE Opens(t)
    <2>1. PICK n \in Numbers :
            /\ n \notin os /\ n # Nothing /\ os' = os \cup {n}
            /\ call' = [call EXCEPT ![t].obj = n, ![t].at = "wrap"]
        BY <1>1, NewNumber DEF Opens
    <2>2. OnlyCall(t) /\ call'[t].at = "wrap" /\ call'[t].op = call[t].op
          /\ call'[t].block = call[t].block /\ call'[t].obj = n
        <3>1. call' \in [Threads -> CallRecords]
            <4>1. call[t] \in CallRecords /\ n \in Objects
                BY <1>0 DEF Objects
            <4>2. [call[t] EXCEPT !.obj = n, !.at = "wrap"] \in CallRecords
                BY ONLY <4>1 DEF CallRecords, Points
            <4> QED
                BY <1>0, <2>1, <4>2
        <3>2. \A s \in Threads \ {t} : call'[s] = call[s]
            BY <1>0, <2>1
        <3>3. call'[t].at = "wrap" /\ call'[t].op = call[t].op
              /\ call'[t].block = call[t].block /\ call'[t].obj = n
            BY <1>0, <2>1 DEF CallRecords
        <3> QED
            BY <3>1, <3>2, <3>3 DEF OnlyCall
    <2>3. call[t].at \in {"socket", "accept", "library"}
        BY <1>1 DEF Opens, MayOpen, At
    <2> QED
        BY <1>0, <1>1, <2>1, <2>2, <2>3 DEF Opens, GoodCall, StepOf, ObjStep, BlockStep, ListStep, ListPoints
<1>2. CASE TcpAccept(t)
    <2>1. "accept" \in Operations \ {"set_file"}
        BY DEF Operations
    <2> QED
        BY <1>2, <2>1, BeginSteps DEF TcpAccept
<1>3. CASE PluginLoad(t)
    <2>1. "load" \in Operations \ {"set_file"}
        BY DEF Operations
    <2> QED
        BY <1>3, <2>1, BeginSteps DEF PluginLoad
<1>4. CASE Execute(t)
    <2>1. "execute" \in Operations \ {"set_file"}
        BY DEF Operations
    <2>2. CASE Posix
        BY <1>4, <2>1, <2>2, BeginSteps DEF Execute
    <2>3. CASE ~Posix
        BY <1>4, <2>1, <2>3, BlockSteps DEF Execute
    <2> QED
        BY <2>2, <2>3
<1>5. ASSUME NEW kind \in HeapFirst, Create(t, kind)
      PROVE  StepOf(t)
    <2>1. kind \in Operations \ {"set_file"}
        BY DEF Operations, HeapFirst
    <2> QED
        BY <1>5, <2>1, BlockSteps DEF Create
<1> QED
    BY <1>1, <1>2, <1>3, <1>4, <1>5

LEMMA CloseSteps ==
    ASSUME HeldInv, NEW t \in Threads, Joined(t) \/ CloseObject(t) \/ Spawns(t)
    PROVE  StepOf(t)
<1>0. GoodCall(call[t]) /\ call[t].obj \in Objects /\ call[t].at \in Points
      /\ call[t].block \in Blocks \cup {Nothing} /\ call[t].op \in Operations /\ call \in [Threads -> CallRecords]
    BY CallFacts DEF HeldInv, TypeInv
<1>1. CASE Joined(t)
    <2>1. OnlyCall(t) /\ call'[t].at = "close" /\ call'[t].op = call[t].op
          /\ call'[t].block = call[t].block /\ call'[t].obj = call[t].obj
        BY <1>1, PointFacts DEF Joined, Goes, Points
    <2> QED
        BY <1>0, <1>1, <2>1 DEF Joined, At, GoodCall, StepOf, ObjStep, BlockStep, ListStep, ListPoints
<1>2. CASE CloseObject(t)
    <2>1. OnlyCall(t) /\ call'[t].at = "free" /\ call'[t].op = call[t].op
          /\ call'[t].block = call[t].block /\ call'[t].obj = Nothing
        <3>1. call' = [call EXCEPT ![t].obj = Nothing, ![t].at = "free"]
            BY <1>2 DEF CloseObject
        <3>2. call' \in [Threads -> CallRecords]
            <4>1. call[t] \in CallRecords /\ Nothing \in Objects
                BY <1>0 DEF Objects
            <4>2. [call[t] EXCEPT !.obj = Nothing, !.at = "free"] \in CallRecords
                BY ONLY <4>1 DEF CallRecords, Points
            <4> QED
                BY <1>0, <3>1, <4>2
        <3>3. \A s \in Threads \ {t} : call'[s] = call[s]
            BY <1>0, <3>1
        <3>4. call'[t].at = "free" /\ call'[t].op = call[t].op
              /\ call'[t].block = call[t].block /\ call'[t].obj = Nothing
            BY <1>0, <3>1 DEF CallRecords
        <3> QED
            BY <3>2, <3>3, <3>4 DEF OnlyCall
    <2> QED
        BY <1>0, <1>2, <2>1 DEF CloseObject, At, GoodCall, StepOf, ObjStep, BlockStep, ListStep, ListPoints
<1>3. CASE Spawns(t)
    <2>1. PICK n \in Numbers :
            /\ n \notin os /\ n # Nothing /\ os' = os \cup {n}
            /\ call' = [call EXCEPT ![t].obj = n, ![t].block = Nothing, ![t].at = "wait"]
        BY <1>3, NewNumber DEF Spawns
    <2>2. OnlyCall(t) /\ call'[t].at = "wait" /\ call'[t].op = call[t].op
          /\ call'[t].block = Nothing /\ call'[t].obj = n
        <3>1. call' \in [Threads -> CallRecords]
            <4>1. call[t] \in CallRecords /\ n \in Objects /\ Nothing \in Blocks \cup {Nothing}
                BY <1>0 DEF Objects
            <4>2. [call[t] EXCEPT !.obj = n, !.block = Nothing, !.at = "wait"] \in CallRecords
                BY ONLY <4>1 DEF CallRecords, Points
            <4> QED
                BY <1>0, <2>1, <4>2
        <3>2. \A s \in Threads \ {t} : call'[s] = call[s]
            BY <1>0, <2>1
        <3>3. call'[t].at = "wait" /\ call'[t].op = call[t].op
              /\ call'[t].block = Nothing /\ call'[t].obj = n
            BY <1>0, <2>1 DEF CallRecords
        <3> QED
            BY <3>1, <3>2, <3>3 DEF OnlyCall
    <2> QED
        BY <1>0, <1>3, <2>1, <2>2 DEF Spawns, At, GoodCall, StepOf, ObjStep, BlockStep, ListStep, ListPoints
<1> QED
    BY <1>1, <1>2, <1>3

-----------------------------------------------------------------------------
(* Steps that give a structure out, or take one back                       *)

(* HeldInv but for what is in use.                                         *)
LEMMA RestKeeps ==
    ASSUME HeldInv, NEW t \in Threads, OnlyCall(t), GoodCall(call'[t]), UNCHANGED <<platform, lists>>,
           call[t].at \notin ListPoints, call'[t].at \notin ListPoints, call'[t].at # "open_log",
           UNCHANGED logFile,
           blocks' \subseteq Blocks, os' \subseteq Numbers, handles' \subseteq Structures, abandoned' \subseteq Numbers,
           HandlesOwnInv'
    PROVE  HeldInv'
<1>1. TypeInv'
    BY DEF HeldInv, TypeInv, OnlyCall
<1>2. CallInv'
    BY DEF HeldInv, CallInv, OnlyCall
<1>3. ListInv'
    <2>1. Listing' = Listing
        BY DEF Listing, OnlyCall
    <2> QED
        BY <2>1 DEF HeldInv, ListInv
<1>4. LogInv'
    BY DEF HeldInv, LogInv, OnlyCall
<1> QED
    BY <1>1, <1>2, <1>3, <1>4 DEF HeldInv

LEMMA WrapsKeeps ==
    ASSUME HeldInv, NEW t \in Threads, Wraps(t)
    PROVE  HeldInv'
<1> USE HandlesAssumption
<1>1. call[t].at = "wrap" /\ call[t].block = Nothing /\ call[t].obj \in Objects
    BY CallFacts DEF Wraps, At, GoodCall
<1>2. OnlyCall(t) /\ call'[t].at = "idle" /\ call'[t].op = "none" /\ call'[t].block = Nothing
      /\ call'[t].obj = Nothing /\ GoodCall(call'[t])
    BY QuietFacts DEF Wraps, Succeeds, Answers
<1>3. PICK b \in Blocks :
        /\ b \notin blocks /\ b # Nothing /\ blocks' = blocks \cup {b}
        /\ handles' = handles \cup
              {Handle(IF call[t].op = "load" THEN "library" ELSE "socket", b, call[t].obj)}
    BY NewBlock DEF Wraps
<1> DEFINE h == Handle(IF call[t].op = "load" THEN "library" ELSE "socket", b, call[t].obj)
           p == <<"call", t>>
           o == <<"handle", h>>
<1>4. h \in Structures /\ h.block = b /\ h.obj = call[t].obj
    BY <1>1 DEF Handle, Structures
<1>5. handles' = handles \cup {h}
    BY <1>3
<1> HIDE DEF h
<1>6. p \in Places /\ o \in Places /\ p # o
    BY <1>4, PlacesAre, PlacesDiffer
<1>7. ObjAt[p] = call[t].obj /\ BlockAt[p] = Nothing
    BY <1>1, AtPlaces
<1>8. h \notin handles
    BY <1>3, <1>4, <1>6, AtPlaces DEF HeldInv, HandlesOwnInv, Owned
<1>9. ObjAt[o] = Nothing /\ BlockAt[o] = Nothing
    BY <1>4, <1>8, AtPlaces
<1>10. \A q \in Places :
         /\ ObjAt'[q] = IF q = o THEN h.obj ELSE IF q = p THEN Nothing ELSE ObjAt[q]
         /\ BlockAt'[q] = IF q = o THEN h.block ELSE IF q = p THEN Nothing ELSE BlockAt[q]
    BY <1>2, <1>4, <1>5, HandleChanges DEF Wraps
<1> HIDE DEF p, o
<1>11. Owned(os', ObjAt')
    <2>1. Owned(os, ObjAt) /\ os' = os
        BY DEF HeldInv, HandlesOwnInv, Wraps
    <2> QED
        BY <1>4, <1>6, <1>7, <1>9, <1>10, <2>1, HandsOwned
<1>12. Owned(blocks', BlockAt')
    <2>1. Owned(blocks, BlockAt) /\ Nothing \notin blocks
        BY DEF HeldInv, HandlesOwnInv, TypeInv
    <2>2. \A q \in Places : BlockAt'[q] = IF q = o THEN b ELSE BlockAt[q]
        BY <1>4, <1>6, <1>7, <1>10
    <2> QED
        BY <1>3, <1>6, <1>9, <2>1, <2>2, TakesOwned
<1>13. blocks' \subseteq Blocks /\ os' \subseteq Numbers /\ handles' \subseteq Structures /\ abandoned' \subseteq Numbers
    BY <1>3, <1>4, <1>5 DEF HeldInv, TypeInv, Wraps
<1> QED
    BY <1>1, <1>2, <1>11, <1>12, <1>13, RestKeeps DEF HandlesOwnInv, Wraps, ListPoints

LEMMA InitsKeeps ==
    ASSUME HeldInv, NEW t \in Threads, Inits(t)
    PROVE  HeldInv'
<1> USE HandlesAssumption
<1> DEFINE b == call[t].block
           p == <<"call", t>>
<1>1. /\ call[t].at = "init" /\ b \in Blocks /\ b # Nothing
      /\ call[t].obj = Nothing /\ call[t].op \in HeapFirst
    BY CallFacts DEF Inits, At, GoodCall
<1>2. OnlyCall(t) /\ call'[t].at = "idle" /\ call'[t].op = "none" /\ call'[t].block = Nothing
      /\ call'[t].obj = Nothing /\ GoodCall(call'[t])
    BY QuietFacts DEF Inits, Succeeds, Answers
<1>3. p \in Places /\ ObjAt[p] = Nothing /\ BlockAt[p] = b
    BY <1>1, PlacesAre, AtPlaces
<1>4. /\ Owned(os, ObjAt) /\ Owned(blocks, BlockAt) /\ blocks' = blocks
      /\ Nothing \notin os /\ UNCHANGED <<platform, lists, abandoned, logFile>>
    BY DEF HeldInv, HandlesOwnInv, TypeInv, Inits
<1>5. ASSUME NEW n \in Objects, handles' = handles \cup {Handle(call[t].op, b, n)},
             \/ n = Nothing /\ os' = os
             \/ n # Nothing /\ n \notin os /\ os' = os \cup {n}
      PROVE  HeldInv'
    <2> DEFINE h == Handle(call[t].op, b, n)
               o == <<"handle", h>>
    <2>1. h \in Structures /\ h.block = b /\ h.obj = n
        BY <1>1, <1>5 DEF Handle, Structures
    <2>2. handles' = handles \cup {h}
        BY <1>5
    <2> HIDE DEF h
    <2>3. o \in Places /\ p # o
        BY <2>1, PlacesAre, PlacesDiffer
    <2>4. h \notin handles
        BY <1>1, <1>3, <1>4, <2>1, <2>3, AtPlaces DEF Owned
    <2>5. ObjAt[o] = Nothing /\ BlockAt[o] = Nothing
        BY <2>1, <2>4, AtPlaces
    <2>6. \A q \in Places :
             /\ ObjAt'[q] = IF q = o THEN n ELSE IF q = p THEN Nothing ELSE ObjAt[q]
             /\ BlockAt'[q] = IF q = o THEN b ELSE IF q = p THEN Nothing ELSE BlockAt[q]
        BY <1>2, <1>4, <2>1, <2>2, HandleChanges
    <2> HIDE DEF p, o, b
    <2>7. Owned(os', ObjAt')
        <3>1. \A q \in Places : ObjAt'[q] = IF q = o THEN n ELSE ObjAt[q]
            BY <1>3, <2>3, <2>6
        <3>2. CASE n = Nothing /\ os' = os
            BY <1>4, <2>5, <3>1, <3>2, SameOwned
        <3>3. CASE n # Nothing /\ n \notin os /\ os' = os \cup {n}
            BY <1>4, <2>3, <2>5, <3>1, <3>3, TakesOwned
        <3> QED
            BY <1>5, <3>2, <3>3
    <2>8. Owned(blocks', BlockAt')
        <3>1. \A q \in Places : BlockAt'[q] = IF q = o THEN BlockAt[p] ELSE IF q = p THEN Nothing ELSE BlockAt[q]
            BY <1>3, <2>6
        <3> QED
            BY <1>3, <1>4, <2>3, <2>5, <3>1, HandsOwned
    <2>9. blocks' \subseteq Blocks /\ os' \subseteq Numbers /\ handles' \subseteq Structures /\ abandoned' \subseteq Numbers
        BY <1>4, <1>5, <2>1, <2>2 DEF HeldInv, TypeInv, Objects
    <2> QED
        BY <1>1, <1>2, <1>4, <2>7, <2>8, <2>9, RestKeeps DEF HandlesOwnInv, ListPoints
<1>6. CASE HasObject(call[t].op)
    <2>1. PICK n \in Numbers :
            /\ n \notin os /\ n # Nothing /\ os' = os \cup {n}
            /\ handles' = handles \cup {Handle(call[t].op, b, n)}
        BY <1>6, NewNumber DEF Inits
    <2> QED
        BY <1>5, <2>1 DEF Objects
<1>7. CASE ~HasObject(call[t].op)
    <2>1. handles' = handles \cup {Handle(call[t].op, b, Nothing)} /\ os' = os
        BY <1>7 DEF Inits
    <2> QED
        BY <1>5, <2>1 DEF Objects
<1> QED
    BY <1>6, <1>7

(* A structure is taken apart by a call.                                   *)
LEMMA TakenApart ==
    ASSUME HeldInv, NEW t \in Threads, NEW h \in handles, Calls(t), handles' = handles \ {h},
           OnlyCall(t), GoodCall(call'[t]), call'[t].at \in {"join", "close"},
           call'[t].block = h.block, call'[t].obj = h.obj,
           UNCHANGED <<platform, blocks, os, lists, abandoned, logFile>>
    PROVE  HeldInv'
<1> DEFINE p == <<"handle", h>>
           o == <<"call", t>>
<1>1. call[t].at = "idle" /\ call[t].block = Nothing /\ call[t].obj = Nothing
    BY CallFacts DEF Calls, At, GoodCall
<1>2. h \in Structures
    BY DEF HeldInv, TypeInv
<1>3. p \in Places /\ o \in Places /\ p # o
    BY <1>2, PlacesAre, PlacesDiffer
<1>4. /\ ObjAt[p] = h.obj /\ BlockAt[p] = h.block
      /\ ObjAt[o] = Nothing /\ BlockAt[o] = Nothing
    BY <1>1, <1>2, AtPlaces
<1>5. \A q \in Places :
         /\ ObjAt'[q] = IF q = o THEN h.obj ELSE IF q = p THEN Nothing ELSE ObjAt[q]
         /\ BlockAt'[q] = IF q = o THEN h.block ELSE IF q = p THEN Nothing ELSE BlockAt[q]
    BY <1>2, <1>3, HandleChanges
<1> HIDE DEF p, o
<1>6. HandlesOwnInv'
    BY <1>3, <1>4, <1>5, HandsOwned DEF HeldInv, HandlesOwnInv
<1>7. blocks' \subseteq Blocks /\ os' \subseteq Numbers /\ handles' \subseteq Structures /\ abandoned' \subseteq Numbers
    BY DEF HeldInv, TypeInv
<1> QED
    BY <1>1, <1>6, <1>7, RestKeeps DEF ListPoints

LEMMA ApartSteps ==
    ASSUME HeldInv, NEW t \in Threads, NEW h \in handles, GiveAway(t, h) \/ Join(t, h)
    PROVE  HeldInv' /\ call'[t].block = h.block /\ call'[t].obj = h.obj
           /\ call'[t].at = IF Join(t, h) THEN "join" ELSE "close"
<1>0. h.block \in Blocks /\ h.obj \in Objects /\ h.block # Nothing
    BY HandlesAssumption DEF HeldInv, TypeInv, Structures
<1>1. ASSUME NEW op \in {"close", "join"},
             call' = [call EXCEPT ![t] = [Quiet EXCEPT !.op = op, !.at = op, !.block = h.block, !.obj = h.obj]]
      PROVE  OnlyCall(t) /\ GoodCall(call'[t]) /\ call'[t].at = op
             /\ call'[t].block = h.block /\ call'[t].obj = h.obj
    <2> DEFINE d == [Quiet EXCEPT !.op = op, !.at = op, !.block = h.block, !.obj = h.obj]
    <2>1. d \in CallRecords /\ d.op = op /\ d.at = op /\ d.block = h.block /\ d.obj = h.obj
        <3>1. op \in Operations /\ op \in Points
            BY DEF Operations, Points
        <3> QED
            BY <1>0, <3>1, QuietIsOne DEF CallRecords
    <2>2. call' = [call EXCEPT ![t] = d]
        BY <1>1
    <2> HIDE DEF d
    <2>3. OnlyCall(t) /\ call'[t] = d
        BY <2>1, <2>2, RecordFacts
    <2>4. GoodCall(d)
        BY <1>0, <2>1 DEF GoodCall
    <2> QED
        BY <2>1, <2>3, <2>4
<1>2. CASE GiveAway(t, h)
    <2>1. OnlyCall(t) /\ GoodCall(call'[t]) /\ call'[t].at = "close"
          /\ call'[t].block = h.block /\ call'[t].obj = h.obj
        BY <1>1, <1>2 DEF GiveAway
    <2>2. ~Join(t, h)
        BY <1>2 DEF GiveAway, Join
    <2> QED
        BY <1>2, <2>1, <2>2, TakenApart DEF GiveAway
<1>3. CASE Join(t, h)
    <2>1. OnlyCall(t) /\ GoodCall(call'[t]) /\ call'[t].at = "join"
          /\ call'[t].block = h.block /\ call'[t].obj = h.obj
        BY <1>1, <1>3 DEF Join, Begins
    <2> QED
        BY <1>3, <2>1, TakenApart DEF Join
<1> QED
    BY <1>2, <1>3

-----------------------------------------------------------------------------
(* The child that nobody waits for, and the log file                       *)

LEMMA InterruptKeeps ==
    ASSUME HeldInv, NEW t \in Threads, WaitInterrupted(t)
    PROVE  HeldInv'
<1> USE HandlesAssumption
<1> DEFINE n == call[t].obj
           p == <<"call", t>>
           o == <<"abandoned", n>>
<1>1. call[t].at = "wait" /\ call[t].block = Nothing /\ n \in Numbers /\ n # Nothing
    BY CallFacts DEF WaitInterrupted, At, GoodCall, Objects
<1>2. OnlyCall(t) /\ call'[t].at = "idle" /\ call'[t].op = "none" /\ call'[t].block = Nothing
      /\ call'[t].obj = Nothing /\ GoodCall(call'[t])
    BY QuietFacts DEF WaitInterrupted, Fails, Answers
<1>3. p \in Places /\ o \in Places /\ p # o
    BY <1>1, PlacesAre, PlacesDiffer
<1>4. ObjAt[p] = n /\ BlockAt[p] = Nothing /\ BlockAt[o] = Nothing
    BY <1>1, AtPlaces
<1>5. ObjAt[o] = Nothing
    <2>1. ObjAt[o] \in {n, Nothing}
        BY <1>1, AtPlaces
    <2> HIDE DEF p, o
    <2> QED
        BY <1>1, <1>3, <1>4, <2>1 DEF HeldInv, HandlesOwnInv, Owned
<1>6. \A q \in Places :
         /\ ObjAt'[q] = IF q = o THEN n ELSE IF q = p THEN Nothing ELSE ObjAt[q]
         /\ BlockAt'[q] = BlockAt[q]
    <2> SUFFICES ASSUME NEW q \in Places
                 PROVE  /\ ObjAt'[q] = IF q = o THEN n ELSE IF q = p THEN Nothing ELSE ObjAt[q]
                        /\ BlockAt'[q] = BlockAt[q]
        OBVIOUS
    <2>0. UNCHANGED <<handles, logFile>> /\ abandoned' = abandoned \cup {n}
        BY DEF WaitInterrupted
    <2>1. CASE q = o
        BY <1>1, <1>4, <2>0, <2>1, AtPlacesNext
    <2>2. CASE q = p
        BY <1>2, <1>3, <1>4, <2>2, AtPlacesNext
    <2>3. ASSUME NEW m \in Numbers, m # n, q = <<"abandoned", m>>
          PROVE  q # o /\ q # p /\ ObjAt'[q] = ObjAt[q] /\ BlockAt'[q] = BlockAt[q]
        BY <2>0, <2>3, AtPlaces, AtPlacesNext, PlacesDiffer
    <2>4. ASSUME NEW s \in Threads, s # t, q = <<"call", s>>
          PROVE  q # o /\ q # p /\ ObjAt'[q] = ObjAt[q] /\ BlockAt'[q] = BlockAt[q]
        BY <1>2, <2>4, AtPlaces, AtPlacesNext, PlacesDiffer DEF OnlyCall
    <2>5. ASSUME NEW h \in Structures, q = <<"handle", h>>
          PROVE  q # o /\ q # p /\ ObjAt'[q] = ObjAt[q] /\ BlockAt'[q] = BlockAt[q]
        BY <2>0, <2>5, AtPlaces, AtPlacesNext, PlacesDiffer
    <2>6. ASSUME q = <<"log", Nothing>>
          PROVE  q # o /\ q # p /\ ObjAt'[q] = ObjAt[q] /\ BlockAt'[q] = BlockAt[q]
        BY <2>0, <2>6, AtPlaces, AtPlacesNext, PlacesDiffer
    <2> QED
        BY <2>1, <2>2, <2>3, <2>4, <2>5, <2>6, PlacesAre
<1> HIDE DEF p, o
<1>7. HandlesOwnInv'
    <2>1. Owned(os', ObjAt')
        BY <1>3, <1>4, <1>5, <1>6, HandsOwned DEF HeldInv, HandlesOwnInv, WaitInterrupted
    <2>2. Owned(blocks', BlockAt')
        BY <1>6, SameOwned DEF HeldInv, HandlesOwnInv, WaitInterrupted
    <2> QED
        BY <2>1, <2>2 DEF HandlesOwnInv
<1>8. blocks' \subseteq Blocks /\ os' \subseteq Numbers /\ handles' \subseteq Structures /\ abandoned' \subseteq Numbers
    BY <1>1 DEF HeldInv, TypeInv, WaitInterrupted
<1> QED
    BY <1>1, <1>2, <1>7, <1>8, RestKeeps DEF WaitInterrupted, ListPoints

(* The log file alone changes what is held.                                *)
LEMMA LogChanges ==
    ASSUME NEW t \in Threads, OnlyCall(t), UNCHANGED <<handles, abandoned>>,
           call'[t].block = call[t].block, call'[t].obj = call[t].obj
    PROVE  \A q \in Places :
             /\ ObjAt'[q] = IF q = <<"log", Nothing>> THEN logFile' ELSE ObjAt[q]
             /\ BlockAt'[q] = BlockAt[q]
<1> SUFFICES ASSUME NEW q \in Places
             PROVE  /\ ObjAt'[q] = IF q = <<"log", Nothing>> THEN logFile' ELSE ObjAt[q]
                    /\ BlockAt'[q] = BlockAt[q]
    OBVIOUS
<1>1. CASE q = <<"log", Nothing>>
    BY <1>1, AtPlaces, AtPlacesNext
<1>2. ASSUME NEW m \in Numbers, q = <<"abandoned", m>>
      PROVE  q # <<"log", Nothing>> /\ ObjAt'[q] = ObjAt[q] /\ BlockAt'[q] = BlockAt[q]
    BY <1>2, AtPlaces, AtPlacesNext, PlacesDiffer
<1>3. ASSUME NEW s \in Threads, q = <<"call", s>>
      PROVE  q # <<"log", Nothing>> /\ ObjAt'[q] = ObjAt[q] /\ BlockAt'[q] = BlockAt[q]
    <2>1. call'[s].block = call[s].block /\ call'[s].obj = call[s].obj
        BY DEF OnlyCall
    <2> QED
        BY <1>3, <2>1, AtPlaces, AtPlacesNext, PlacesDiffer
<1>4. ASSUME NEW h \in Structures, q = <<"handle", h>>
      PROVE  q # <<"log", Nothing>> /\ ObjAt'[q] = ObjAt[q] /\ BlockAt'[q] = BlockAt[q]
    BY <1>4, AtPlaces, AtPlacesNext, PlacesDiffer
<1> QED
    BY <1>1, <1>2, <1>3, <1>4, PlacesAre

LEMMA LogKeeps ==
    ASSUME HeldInv, NEW t \in Threads, LogSetFile(t) \/ LogOpens(t)
    PROVE  HeldInv'
<1> USE HandlesAssumption
<1> DEFINE l == <<"log", Nothing>>
<1>0. /\ l \in Places /\ ObjAt[l] = logFile /\ Owned(os, ObjAt) /\ Owned(blocks, BlockAt) /\ Nothing \notin os
      /\ UNCHANGED <<platform, blocks, lists, handles, abandoned>>
    BY PlacesAre, AtPlaces DEF HeldInv, HandlesOwnInv, TypeInv, LogSetFile, LogOpens
<1>1. CASE LogSetFile(t)
    <2> DEFINE d == [Quiet EXCEPT !.op = "set_file", !.at = "open_log"]
    <2>1. d \in CallRecords /\ d.op = "set_file" /\ d.at = "open_log" /\ d.block = Nothing /\ d.obj = Nothing
        <3>1. "set_file" \in Operations /\ "open_log" \in Points
            BY DEF Operations, Points
        <3> QED
            BY <3>1, QuietIsOne DEF CallRecords
    <2>2. call' = [call EXCEPT ![t] = d]
        BY <1>1 DEF LogSetFile, Begins
    <2> HIDE DEF d
    <2>3. OnlyCall(t) /\ call'[t] = d
        BY <2>1, <2>2, RecordFacts
    <2>4. GoodCall(d)
        BY <2>1 DEF GoodCall
    <2>5. call[t].at = "idle" /\ call[t].block = Nothing /\ call[t].obj = Nothing
        BY <1>1, CallFacts DEF LogSetFile, Calls, At, GoodCall
    <2>6. \A q \in Places : /\ ObjAt'[q] = IF q = l THEN Nothing ELSE ObjAt[q]
                            /\ BlockAt'[q] = BlockAt[q]
        BY <1>0, <1>1, <2>1, <2>3, <2>5, LogChanges DEF LogSetFile
    <2> HIDE DEF l
    <2>7. HandlesOwnInv'
        <3>1. Owned(os', ObjAt')
            BY <1>0, <1>1, <2>6, GivesOwned DEF LogSetFile
        <3>2. Owned(blocks', BlockAt')
            BY <1>0, <2>6, SameOwned
        <3> QED
            BY <3>1, <3>2 DEF HandlesOwnInv
    <2>8. TypeInv'
        BY <1>0, <1>1, <2>3 DEF HeldInv, TypeInv, OnlyCall, LogSetFile, Objects
    <2>9. CallInv'
        BY <2>3, <2>4 DEF HeldInv, CallInv, OnlyCall
    <2>10. ListInv'
        <3>1. Listing' = Listing
            BY <2>1, <2>3, <2>5 DEF Listing, OnlyCall, ListPoints
        <3> QED
            BY <1>0, <3>1 DEF HeldInv, ListInv
    <2>11. LogInv'
        <3>1. \A s \in Threads : call[s].at # "open_log"
            BY <1>1 DEF HeldInv, CallInv, GoodCall, LogSetFile, SettingLog
        <3> QED
            BY <1>1, <2>3, <3>1 DEF LogInv, OnlyCall, LogSetFile
    <2> QED
        BY <2>7, <2>8, <2>9, <2>10, <2>11 DEF HeldInv
<1>2. CASE LogOpens(t)
    <2>1. PICK n \in Numbers : n \notin os /\ n # Nothing /\ os' = os \cup {n} /\ logFile' = n
        BY <1>2, NewNumber DEF LogOpens
    <2>2. OnlyCall(t) /\ call'[t].at = "idle" /\ call'[t].op = "none" /\ call'[t].block = Nothing
          /\ call'[t].obj = Nothing /\ GoodCall(call'[t])
        BY <1>2, QuietFacts DEF LogOpens, Succeeds, Answers
    <2>3. call[t].at = "open_log" /\ call[t].block = Nothing /\ call[t].obj = Nothing /\ logFile = Nothing
          /\ \A s \in Threads : call[s].at = "open_log" => s = t
        BY <1>2, CallFacts DEF LogOpens, At, GoodCall, HeldInv, LogInv
    <2>4. \A q \in Places : /\ ObjAt'[q] = IF q = l THEN n ELSE ObjAt[q]
                            /\ BlockAt'[q] = BlockAt[q]
        BY <1>0, <2>1, <2>2, <2>3, LogChanges
    <2> HIDE DEF l
    <2>5. HandlesOwnInv'
        <3>1. Owned(os', ObjAt')
            BY <1>0, <2>1, <2>3, <2>4, TakesOwned
        <3>2. Owned(blocks', BlockAt')
            BY <1>0, <2>4, SameOwned
        <3> QED
            BY <3>1, <3>2 DEF HandlesOwnInv
    <2>6. TypeInv'
        BY <1>0, <2>1, <2>2 DEF HeldInv, TypeInv, OnlyCall, Objects
    <2>7. CallInv'
        BY <2>2 DEF HeldInv, CallInv, OnlyCall
    <2>8. ListInv'
        <3>1. Listing' = Listing
            BY <2>2, <2>3 DEF Listing, OnlyCall, ListPoints
        <3> QED
            BY <1>0, <3>1 DEF HeldInv, ListInv
    <2>9. LogInv'
        BY <2>2, <2>3 DEF LogInv, OnlyCall
    <2> QED
        BY <2>5, <2>6, <2>7, <2>8, <2>9 DEF HeldInv
<1> QED
    BY <1>1, <1>2

-----------------------------------------------------------------------------
(* What every step of a call keeps                                         *)

\* The steps of thread t that change nothing but what its call has
Simple(t) ==
    \/ \E op \in Network : NetworkCall(t, op)
    \/ EnsureInit(t) \/ Startup(t) \/ MarkStarted(t)
    \/ ResolveFails(t) \/ Resolve(t) \/ SendTo(t)
    \/ NoSocketHere(t) \/ SocketHere(t) \/ Attaches(t) \/ AttachFails(t)
    \/ FreeList(t) \/ Listens(t) \/ ListenFails(t)
    \/ TcpAccept(t) \/ PluginLoad(t)
    \/ OpenFails(t) \/ Opens(t) \/ WrapFails(t)
    \/ \E kind \in HeapFirst : Create(t, kind)
    \/ CreateOutOfMemory(t) \/ InitFails(t)
    \/ \E h \in handles : Transfer(t, h) \/ Symbol(t, h) \/ PluginInit(t, h) \/ PluginShutdown(t, h)
    \/ Joined(t) \/ CloseObject(t) \/ FreeBlock(t)
    \/ Execute(t) \/ SpawnFails(t) \/ Spawns(t) \/ ChildReaped(t)
    \/ LogNoFile(t) \/ LogOpenFails(t) \/ Log(t)

LEMMA NextIs ==
    ASSUME HandlesNext
    PROVE  \/ \E t \in Threads :
                \/ Simple(t) \/ Wraps(t) \/ Inits(t) \/ WaitInterrupted(t) \/ LogSetFile(t) \/ LogOpens(t)
                \/ \E h \in handles : GiveAway(t, h) \/ Join(t, h)
           \/ \E r \in running : Finishes(r)
<1>1. CASE \E r \in running : Finishes(r)
    BY <1>1
<1>2. CASE ~\E r \in running : Finishes(r)
    BY <1>2 DEF HandlesNext, Simple
<1> QED
    BY <1>1, <1>2

LEMMA SimpleSteps ==
    ASSUME HeldInv, NEW t \in Threads, Simple(t)
    PROVE  StepOf(t)
<1>1. CASE \/ \E op \in Network : NetworkCall(t, op)
           \/ EnsureInit(t) \/ Startup(t) \/ MarkStarted(t)
    BY <1>1, NetworkCallKeeps, StartSteps
<1>2. CASE \/ Resolve(t) \/ NoSocketHere(t) \/ SocketHere(t) \/ Attaches(t) \/ AttachFails(t)
           \/ FreeList(t) \/ Listens(t)
    BY <1>2, AddressSteps, ListSteps
<1>3. CASE \/ Opens(t) \/ TcpAccept(t) \/ PluginLoad(t) \/ Execute(t)
           \/ \E kind \in HeapFirst : Create(t, kind)
    BY <1>3, OpenSteps
<1>4. CASE Joined(t) \/ CloseObject(t) \/ Spawns(t)
    BY <1>4, CloseSteps
<1>5. CASE \/ ResolveFails(t) \/ SendTo(t) \/ ListenFails(t) \/ OpenFails(t) \/ WrapFails(t)
           \/ CreateOutOfMemory(t) \/ InitFails(t) \/ FreeBlock(t) \/ SpawnFails(t) \/ ChildReaped(t)
           \/ LogNoFile(t) \/ LogOpenFails(t) \/ Log(t)
           \/ \E h \in handles : \/ Transfer(t, h) \/ Symbol(t, h) \/ PluginInit(t, h)
                                 \/ PluginShutdown(t, h)
    BY <1>5, FailSteps
<1> QED
    BY <1>1, <1>2, <1>3, <1>4, <1>5 DEF Simple

LEMMA NextHeldInv ==
    ASSUME HeldInv, HandlesNext
    PROVE  HeldInv'
<1>1. ASSUME NEW t \in Threads, Simple(t)
      PROVE  HeldInv'
    BY <1>1, SimpleSteps, StepKeeps
<1>2. ASSUME NEW t \in Threads, Wraps(t) \/ Inits(t) \/ WaitInterrupted(t) \/ LogSetFile(t) \/ LogOpens(t)
      PROVE  HeldInv'
    BY <1>2, WrapsKeeps, InitsKeeps, InterruptKeeps, LogKeeps
<1>3. ASSUME NEW t \in Threads, NEW h \in handles, GiveAway(t, h) \/ Join(t, h)
      PROVE  HeldInv'
    BY <1>3, ApartSteps
<1>4. ASSUME NEW r \in running, Finishes(r)
      PROVE  HeldInv'
    <2>1. UNCHANGED <<platform, blocks, os, lists, handles, abandoned, logFile, call>>
        BY <1>4 DEF Finishes
    <2>2. \A q \in Places : ObjAt'[q] = ObjAt[q] /\ BlockAt'[q] = BlockAt[q]
        BY <2>1 DEF ObjAt, BlockAt
    <2>3. HandlesOwnInv'
        BY <2>1, <2>2, SameOwned DEF HeldInv, HandlesOwnInv
    <2>4. Listing' = Listing
        BY <2>1 DEF Listing
    <2> QED
        BY <2>1, <2>3, <2>4 DEF HeldInv, TypeInv, CallInv, ListInv, LogInv
<1> QED
    BY <1>1, <1>2, <1>3, <1>4, NextIs

-----------------------------------------------------------------------------
(* What runs                                                               *)

(* A call that lets go of what it held only after that has ended.          *)
LEMMA RunKeeps ==
    ASSUME HeldInv, RunInv, NEW t \in Threads, OnlyCall(t), running' \subseteq running,
           UNCHANGED handles, abandoned \subseteq abandoned',
           \/ call[t].at \notin {"join", "wait"}
           \/ Ended(call[t].obj)
           \/ call[t].obj \in abandoned'
    PROVE  RunInv'
<1> SUFFICES ASSUME NEW r \in running' PROVE RunHeld(r)'
    BY DEF RunInv
<1>1. r \in running /\ RunHeld(r)
    BY DEF RunInv
<1>2. CASE \E h \in handles : h.kind = "thread" /\ h.obj = r.obj /\ h.block = r.block
    BY <1>2 DEF RunHeld
<1>3. CASE r.obj \in abandoned
    BY <1>3 DEF RunHeld
<1>4. ASSUME NEW s \in Threads, call[s].obj = r.obj, call[s].block = r.block, call[s].at \in {"join", "wait"}
      PROVE  RunHeld(r)'
    <2>1. CASE s # t
        <3>1. call'[s] = call[s]
            BY <2>1 DEF OnlyCall
        <3> QED
            BY <1>4, <3>1 DEF RunHeld
    <2>2. CASE s = t
        BY <1>1, <1>4, <2>2 DEF RunHeld, Ended
    <2> QED
        BY <2>1, <2>2
<1> QED
    BY <1>1, <1>2, <1>3, <1>4 DEF RunHeld

LEMMA NextRunInv ==
    ASSUME HeldInv, RunInv, HandlesNext
    PROVE  RunInv'
<1>1. ASSUME NEW t \in Threads, Simple(t), ~Spawns(t)
      PROVE  RunInv'
    <2>1. StepOf(t)
        BY <1>1, SimpleSteps
    <2>2. running' = running
        BY <1>1 DEF Simple, NetworkCall, EnsureInit, Startup, MarkStarted, ResolveFails, Resolve, SendTo,
                    NoSocketHere, SocketHere, Attaches, AttachFails, FreeList, Listens, ListenFails,
                    TcpAccept, PluginLoad, OpenFails, Opens, WrapFails, Create, CreateOutOfMemory, InitFails,
                    Transfer, Symbol, PluginInit, PluginShutdown, Joined, CloseObject, FreeBlock, Execute,
                    SpawnFails, ChildReaped, LogNoFile, LogOpenFails, Log
    <2>3. call[t].at \notin {"join", "wait"} \/ Ended(call[t].obj)
        BY <1>1 DEF Simple, NetworkCall, EnsureInit, Startup, MarkStarted, ResolveFails, Resolve, SendTo,
                    NoSocketHere, SocketHere, Attaches, AttachFails, FreeList, Listens, ListenFails,
                    TcpAccept, PluginLoad, OpenFails, Opens, MayOpen, WrapFails, Create, CreateOutOfMemory,
                    InitFails, Transfer, Symbol, PluginInit, PluginShutdown, Joined, CloseObject, FreeBlock,
                    Execute, SpawnFails, ChildReaped, LogNoFile, LogOpenFails, Log, Calls, At
    <2> QED
        BY <2>1, <2>2, <2>3, RunKeeps DEF StepOf
<1>2. ASSUME NEW t \in Threads, Spawns(t)
      PROVE  RunInv'
    <2>1. StepOf(t)
        BY <1>2, SimpleSteps DEF Simple
    <2>2. PICK n \in Numbers :
            /\ running' = running \cup {[obj |-> n, block |-> Nothing]}
            /\ call' = [call EXCEPT ![t].obj = n, ![t].block = Nothing, ![t].at = "wait"]
        BY <1>2 DEF Spawns
    <2>3. call'[t].obj = n /\ call'[t].block = Nothing /\ call'[t].at = "wait"
        BY <2>2, CallFacts DEF HeldInv, TypeInv, CallRecords
    <2>4. \A r \in running : RunHeld(r)'
        <3> SUFFICES ASSUME NEW r \in running PROVE RunHeld(r)'
            OBVIOUS
        <3>1. call[t].at = "spawn"
            BY <1>2 DEF Spawns, At
        <3>2. RunHeld(r)
            BY DEF RunInv
        <3> QED
            BY <2>1, <3>1, <3>2 DEF RunHeld, StepOf, OnlyCall
    <2> DEFINE r == [obj |-> n, block |-> Nothing]
    <2>5. RunHeld(r)'
        BY <2>3 DEF RunHeld
    <2>6. r \in [obj : Numbers, block : Blocks \cup {Nothing}]
        OBVIOUS
    <2> HIDE DEF r
    <2>7. running' = running \cup {r}
        BY <2>2 DEF r
    <2> QED
        BY <2>4, <2>5, <2>6, <2>7 DEF RunInv
<1>3. ASSUME NEW t \in Threads, Wraps(t) \/ WaitInterrupted(t) \/ LogSetFile(t) \/ LogOpens(t)
      PROVE  RunInv'
    <2>1. CASE Wraps(t)
        <3>1. OnlyCall(t) /\ call[t].at = "wrap" /\ UNCHANGED <<running, abandoned>> /\ handles \subseteq handles'
            BY <2>1, QuietFacts DEF Wraps, Succeeds, Answers, At
        <3> SUFFICES ASSUME NEW r \in running PROVE RunHeld(r)'
            BY <3>1 DEF RunInv
        <3>2. RunHeld(r)
            BY DEF RunInv
        <3> QED
            BY <3>1, <3>2 DEF RunHeld, OnlyCall
    <2>2. CASE WaitInterrupted(t)
        <3>1. OnlyCall(t)
            BY <2>2, QuietFacts DEF WaitInterrupted, Fails, Answers
        <3>2. UNCHANGED <<handles, running>> /\ abandoned' = abandoned \cup {call[t].obj}
            BY <2>2 DEF WaitInterrupted
        <3> QED
            BY <3>1, <3>2, RunKeeps
    <2>3. CASE LogSetFile(t)
        <3>1. /\ call[t].at = "idle" /\ UNCHANGED <<handles, running, abandoned>>
              /\ \A s \in Threads \ {t} : call'[s] = call[s]
            BY <2>3 DEF LogSetFile, Calls, At, Begins, HeldInv, TypeInv
        <3> SUFFICES ASSUME NEW r \in running PROVE RunHeld(r)'
            BY <3>1 DEF RunInv
        <3>2. RunHeld(r)
            BY DEF RunInv
        <3> QED
            BY <3>1, <3>2 DEF RunHeld
    <2>4. CASE LogOpens(t)
        <3>1. OnlyCall(t) /\ call[t].at = "open_log" /\ UNCHANGED <<handles, running, abandoned>>
            BY <2>4, QuietFacts DEF LogOpens, Succeeds, Answers, At
        <3> QED
            BY <3>1, RunKeeps
    <2> QED
        BY <1>3, <2>1, <2>2, <2>3, <2>4
<1>4. ASSUME NEW t \in Threads, Inits(t)
      PROVE  RunInv'
    <2>1. /\ OnlyCall(t) /\ call[t].at = "init" /\ abandoned' = abandoned
          /\ handles \subseteq handles'
        BY <1>4, QuietFacts DEF Inits, Succeeds, Answers, At
    <2>2. \A r \in running : RunHeld(r)'
        <3> SUFFICES ASSUME NEW r \in running PROVE RunHeld(r)'
            OBVIOUS
        <3>1. RunHeld(r)
            BY DEF RunInv
        <3> QED
            BY <2>1, <3>1 DEF RunHeld, OnlyCall
    <2>3. CASE running' = running
        BY <2>2, <2>3 DEF RunInv
    <2>4. CASE running' # running
        <3>1. PICK n \in Numbers :
                /\ handles' = handles \cup {Handle(call[t].op, call[t].block, n)}
                /\ call[t].op = "thread"
                /\ running' = running \cup {[obj |-> n, block |-> call[t].block]}
            BY <1>4, <2>4 DEF Inits
        <3>0. PICK b \in Blocks \cup {Nothing} : b = call[t].block
            BY CallFacts
        <3> DEFINE r == [obj |-> n, block |-> b]
                   h == Handle("thread", b, n)
        <3>2. r \in [obj : Numbers, block : Blocks \cup {Nothing}]
            OBVIOUS
        <3>3. h.kind = "thread" /\ h.obj = r.obj /\ h.block = r.block /\ h \in handles'
            BY <3>0, <3>1 DEF Handle
        <3>4. running' = running \cup {r}
            BY <3>0, <3>1
        <3> HIDE DEF r, h
        <3>5. RunHeld(r)'
            BY <3>3 DEF RunHeld
        <3> QED
            BY <2>2, <3>2, <3>4, <3>5 DEF RunInv
    <2> QED
        BY <2>3, <2>4
<1>5. ASSUME NEW t \in Threads, NEW h \in handles, GiveAway(t, h) \/ Join(t, h)
      PROVE  RunInv'
    <2>1. /\ call[t].at = "idle" /\ UNCHANGED <<running, abandoned>> /\ handles' = handles \ {h}
          /\ \A s \in Threads \ {t} : call'[s] = call[s]
        BY <1>5 DEF GiveAway, Join, Begins, Calls, At, HeldInv, TypeInv
    <2>2. h.kind = "thread" => call'[t].at = "join" /\ call'[t].block = h.block /\ call'[t].obj = h.obj
        BY <1>5, ApartSteps DEF GiveAway
    <2> SUFFICES ASSUME NEW r \in running PROVE RunHeld(r)'
        BY <2>1 DEF RunInv
    <2>3. RunHeld(r)
        BY DEF RunInv
    <2> QED
        BY <2>1, <2>2, <2>3 DEF RunHeld
<1>6. ASSUME NEW r \in running, Finishes(r)
      PROVE  RunInv'
    <2>1. UNCHANGED <<handles, abandoned, call>> /\ running' = running \ {r}
        BY <1>6 DEF Finishes
    <2> QED
        BY <2>1 DEF RunInv, RunHeld
<1> QED
    BY <1>1, <1>2, <1>3, <1>4, <1>5, <1>6, NextIs

-----------------------------------------------------------------------------
(* The start of the network library                                        *)

LEMMA NextWsaInv ==
    ASSUME HeldInv, WsaInv, HandlesNext
    PROVE  WsaInv'
<1>0. platform' = platform
    <2>1. ASSUME NEW t \in Threads, Simple(t)
          PROVE  platform' = platform
        BY <2>1, SimpleSteps DEF StepOf
    <2>2. ASSUME NEW t \in Threads, \/ Wraps(t) \/ Inits(t) \/ WaitInterrupted(t) \/ LogSetFile(t) \/ LogOpens(t)
                                    \/ \E h \in handles : GiveAway(t, h) \/ Join(t, h)
          PROVE  platform' = platform
        BY <2>2 DEF Wraps, Inits, WaitInterrupted, LogSetFile, LogOpens, GiveAway, Join
    <2>3. ASSUME NEW r \in running, Finishes(r)
          PROVE  platform' = platform
        BY <2>3 DEF Finishes
    <2> QED
        BY <2>1, <2>2, <2>3, NextIs
<1> DEFINE Others(t) == \A s \in Threads \ {t} : call'[s] = call[s]
<1>1. ASSUME NEW t \in Threads, Others(t), wsa' = wsa,
             Windows /\ call'[t].at = "mark" => wsa.library # "down",
             Windows /\ call'[t].op \in Network /\ call'[t].at \notin {"ensure", "startup"} => wsa.library # "down"
      PROVE  WsaInv'
    BY <1>0, <1>1 DEF WsaInv, StartedFirst, Windows
(* The call is not one of the network, or was past the start before.       *)
<1>2. ASSUME NEW t \in Threads, Others(t), wsa' = wsa, call'[t].at # "mark",
             call'[t].op \in Network => call[t].op = call'[t].op /\ call[t].at \notin {"ensure", "startup"}
      PROVE  WsaInv'
    <2>1. Windows /\ call'[t].op \in Network => wsa.library # "down"
        BY <1>2 DEF WsaInv, StartedFirst
    <2> QED
        BY <1>1, <1>2, <2>1
<1>3. call \in [Threads -> CallRecords]
    BY DEF HeldInv, TypeInv
<1> HIDE DEF Others
<1>4. ASSUME NEW t \in Threads, StepOf(t)
      PROVE  Others(t)
    BY <1>4 DEF StepOf, OnlyCall, Others
<1>5. ASSUME NEW t \in Threads, NEW op \in Network, NetworkCall(t, op)
      PROVE  WsaInv'
    <2>1. Others(t) /\ wsa' = wsa
        BY <1>4, <1>5, SimpleSteps DEF Simple, NetworkCall
    <2>2. Windows => call'[t].at = "ensure"
        BY <1>3, <1>5 DEF NetworkCall, Begins, Quiet
    <2> QED
        BY <1>1, <2>1, <2>2
<1>6. ASSUME NEW t \in Threads, EnsureInit(t)
      PROVE  WsaInv'
    <2>1. Others(t) /\ wsa' = wsa
        BY <1>4, <1>6, SimpleSteps DEF Simple, EnsureInit
    <2>2. CASE wsa.flag
        <3>1. Windows => wsa.library # "down"
            BY <2>2 DEF WsaInv
        <3> QED
            BY <1>1, <2>1, <3>1
    <2>3. CASE ~wsa.flag
        <3>1. call'[t].at = "startup"
            BY <1>3, <1>6, <2>3 DEF EnsureInit, Goes, CallRecords
        <3> QED
            BY <1>1, <2>1, <3>1
    <2> QED
        BY <2>2, <2>3
<1>7. ASSUME NEW t \in Threads, Startup(t)
      PROVE  WsaInv'
    <2>1. wsa' \in [flag : BOOLEAN, library : {"down", "up", "failed"}] /\ wsa'.library # "down"
        BY <1>7 DEF Startup, WsaInv
    <2> QED
        BY <2>1 DEF WsaInv, StartedFirst
<1>8. ASSUME NEW t \in Threads, MarkStarted(t)
      PROVE  WsaInv'
    <2>1. /\ wsa' \in [flag : BOOLEAN, library : {"down", "up", "failed"}]
          /\ wsa'.library = wsa.library
        BY <1>8 DEF MarkStarted, WsaInv
    <2>2. Windows => wsa.library # "down"
        BY <1>8 DEF MarkStarted, At, WsaInv
    <2> QED
        BY <1>0, <2>1, <2>2 DEF WsaInv, StartedFirst, Windows
<1>9. ASSUME NEW t \in Threads,
             \/ Resolve(t) \/ NoSocketHere(t) \/ SocketHere(t) \/ Attaches(t) \/ AttachFails(t)
             \/ FreeList(t) /\ call[t].obj # Nothing
             \/ Listens(t) \/ Opens(t) \/ Joined(t) \/ CloseObject(t) \/ Spawns(t)
      PROVE  WsaInv'
    <2>1. Others(t)
        BY <1>4, <1>9, SimpleSteps DEF Simple
    <2>2. wsa' = wsa /\ call[t].at \notin {"ensure", "startup"}
        BY <1>9 DEF Resolve, NoSocketHere, SocketHere, Attaches, AttachFails, FreeList, Listens, Opens,
                    MayOpen, Joined, CloseObject, Spawns, At
    <2>3. CASE Resolve(t)
        <3>1. PICK n \in 1..MaxAddresses :
                call' = [call EXCEPT ![t].left = n,
                                     ![t].at = IF call[t].op = "send_to" THEN "send" ELSE "address"]
            BY <2>3 DEF Resolve
        <3>2. call'[t].op = call[t].op /\ call'[t].at \in {"send", "address"}
            BY <1>3, <3>1 DEF CallRecords
        <3> QED
            BY <1>2, <2>1, <2>2, <3>2
    <2>4. CASE (FreeList(t) /\ call[t].obj # Nothing) \/ Listens(t) \/ Attaches(t) \/ Joined(t)
        <3>1. PICK point \in Points \ {"mark"} : Goes(t, point)
            BY <2>4 DEF FreeList, Listens, Attaches, Joined, Points
        <3>2. call'[t].op = call[t].op /\ call'[t].at # "mark"
            BY <1>3, <3>1 DEF Goes, CallRecords
        <3> QED
            BY <1>2, <2>1, <2>2, <3>2
    <2>5. CASE NoSocketHere(t)
        <3>1. call'[t].op = call[t].op /\ call'[t].at = "address"
            BY <1>3, <2>5 DEF NoSocketHere, At, CallRecords
        <3> QED
            BY <1>2, <2>1, <2>2, <3>1
    <2>6. CASE SocketHere(t)
        <3>1. call'[t].op = call[t].op /\ call'[t].at = "attach"
            BY <1>3, <2>6 DEF SocketHere, CallRecords
        <3> QED
            BY <1>2, <2>1, <2>2, <3>1
    <2>7. CASE AttachFails(t)
        <3>1. call'[t].op = call[t].op /\ call'[t].at = "address"
            BY <1>3, <2>7 DEF AttachFails, CallRecords
        <3> QED
            BY <1>2, <2>1, <2>2, <3>1
    <2>8. CASE CloseObject(t)
        <3>1. call'[t].op = call[t].op /\ call'[t].at = "free"
            BY <1>3, <2>8 DEF CloseObject, CallRecords
        <3> QED
            BY <1>2, <2>1, <2>2, <3>1
    <2>9. CASE Opens(t)
        <3>1. call'[t].op = call[t].op /\ call'[t].at = "wrap"
            BY <1>3, <2>9 DEF Opens, CallRecords
        <3> QED
            BY <1>2, <2>1, <2>2, <3>1
    <2>10. CASE Spawns(t)
        <3>1. call'[t].op = call[t].op /\ call'[t].at = "wait"
            BY <1>3, <2>10 DEF Spawns, CallRecords
        <3> QED
            BY <1>2, <2>1, <2>2, <3>1
    <2> QED
        BY <1>9, <2>3, <2>4, <2>5, <2>6, <2>7, <2>8, <2>9, <2>10
<1>10. ASSUME NEW t \in Threads, wsa' = wsa, call' = [call EXCEPT ![t] = Quiet]
       PROVE  WsaInv'
    <2>1. Others(t) /\ call'[t].op = "none" /\ call'[t].at = "idle"
        BY <1>3, <1>10 DEF Others, Quiet
    <2> QED
        BY <1>2, <1>10, <2>1 DEF Network, Addressed
<1>11. ASSUME NEW t \in Threads,
              \/ ResolveFails(t) \/ SendTo(t) \/ ListenFails(t) \/ OpenFails(t) \/ WrapFails(t)
              \/ FreeList(t) /\ call[t].obj = Nothing
              \/ CreateOutOfMemory(t) \/ InitFails(t) \/ FreeBlock(t) \/ SpawnFails(t) \/ ChildReaped(t)
              \/ LogNoFile(t) \/ LogOpenFails(t) \/ Log(t)
              \/ \E h \in handles : \/ Transfer(t, h) \/ Symbol(t, h) \/ PluginInit(t, h)
                                    \/ PluginShutdown(t, h)
              \/ Wraps(t) \/ Inits(t) \/ WaitInterrupted(t) \/ LogOpens(t)
       PROVE  WsaInv'
    BY <1>10, <1>11
       DEF ResolveFails, SendTo, ListenFails, OpenFails, WrapFails, FreeList, CreateOutOfMemory, InitFails,
           FreeBlock, SpawnFails, ChildReaped, LogNoFile, LogOpenFails, Log, Transfer, Symbol, PluginInit,
           PluginShutdown, Wraps, Inits, WaitInterrupted, LogOpens, Fails, Succeeds, Answers, Ends
(* A call that begins.                                                     *)
<1>12. ASSUME NEW t \in Threads, wsa' = wsa, Others(t), call'[t].op \notin Network, call'[t].at # "mark"
       PROVE  WsaInv'
    BY <1>2, <1>12
<1>13. ASSUME NEW t \in Threads, \/ TcpAccept(t) \/ PluginLoad(t) \/ Execute(t) \/ LogSetFile(t)
                                 \/ \E kind \in HeapFirst : Create(t, kind)
                                 \/ \E h \in handles : GiveAway(t, h) \/ Join(t, h)
       PROVE  WsaInv'
    <2>1. CASE TcpAccept(t)
        <3>1. Others(t) /\ call'[t].op = "accept" /\ call'[t].at = "accept" /\ wsa' = wsa
            BY <1>3, <2>1 DEF TcpAccept, Begins, Quiet, Others
        <3> QED
            BY <1>12, <3>1 DEF Network, Addressed, HeapFirst
    <2>2. CASE PluginLoad(t)
        <3>1. Others(t) /\ call'[t].op = "load" /\ call'[t].at = "library" /\ wsa' = wsa
            BY <1>3, <2>2 DEF PluginLoad, Begins, Quiet, Others
        <3> QED
            BY <1>12, <3>1 DEF Network, Addressed, HeapFirst
    <2>3. CASE Execute(t)
        <3>1. Others(t) /\ call'[t].op = "execute" /\ call'[t].at = "spawn" /\ wsa' = wsa
            <4>1. CASE Posix
                BY <1>3, <2>3, <4>1 DEF Execute, Begins, Quiet, Others
            <4>2. CASE ~Posix
                BY <1>3, <2>3, <4>2 DEF Execute, Begins, Quiet, Others
            <4> QED
                BY ONLY <4>1, <4>2
        <3> QED
            BY <1>12, <3>1 DEF Network, Addressed, HeapFirst
    <2>4. CASE LogSetFile(t)
        <3>1. Others(t) /\ call'[t].op = "set_file" /\ call'[t].at = "open_log" /\ wsa' = wsa
            BY <1>3, <2>4 DEF LogSetFile, Begins, Quiet, Others
        <3> QED
            BY <1>12, <3>1 DEF Network, Addressed, HeapFirst
    <2>5. ASSUME NEW kind \in HeapFirst, Create(t, kind) PROVE WsaInv'
        <3>1. Others(t) /\ call'[t].op = kind /\ call'[t].at = "init" /\ wsa' = wsa
            BY <1>3, <2>5 DEF Create, Begins, Quiet, Others
        <3> QED
            BY <1>12, <3>1 DEF Network, Addressed, HeapFirst
    <2>6. ASSUME NEW h \in handles, GiveAway(t, h) PROVE WsaInv'
        <3>1. Others(t) /\ call'[t].op = "close" /\ call'[t].at = "close" /\ wsa' = wsa
            BY <1>3, <2>6 DEF GiveAway, Quiet, Others
        <3> QED
            BY <1>12, <3>1 DEF Network, Addressed, HeapFirst
    <2>7. ASSUME NEW h \in handles, Join(t, h) PROVE WsaInv'
        <3>1. Others(t) /\ call'[t].op = "join" /\ call'[t].at = "join" /\ wsa' = wsa
            BY <1>3, <2>7 DEF Join, Begins, Quiet, Others
        <3> QED
            BY <1>12, <3>1 DEF Network, Addressed, HeapFirst
    <2> QED
        BY <1>13, <2>1, <2>2, <2>3, <2>4, <2>5, <2>6, <2>7
<1>14. ASSUME NEW r \in running, Finishes(r)
       PROVE  WsaInv'
    BY <1>0, <1>14 DEF Finishes, WsaInv, StartedFirst, Windows
<1>15. ASSUME NEW t \in Threads, Simple(t)
       PROVE  WsaInv'
    BY <1>5, <1>6, <1>7, <1>8, <1>9, <1>11, <1>13, <1>15 DEF Simple
<1> QED
    BY <1>11, <1>13, <1>14, <1>15, NextIs

-----------------------------------------------------------------------------
(* Answers and errors                                                      *)

LEMMA NextErrorInv ==
    ASSUME ErrorInv, HandlesNext
    PROVE  ErrorInv'
<1>1. CASE UNCHANGED <<error, answer>>
    BY <1>1 DEF ErrorInv
<1>2. ASSUME NEW t \in Threads, NEW what \in {"none", "ok", "failed", "plugin"}, NEW code \in Codes,
             Answers(t, what, code),
             what = "ok" => code = "ok", what = "failed" => code \notin {"ok", "stale"}
      PROVE  ErrorInv'
    BY <1>2 DEF Answers, ErrorInv
<1>3. ASSUME NEW t \in Threads, NEW rec, Begins(t, rec)
      PROVE  ErrorInv'
    BY <1>3 DEF Begins, ErrorInv, Codes
<1>4. ASSUME NEW t \in Threads, NEW code \in Codes \ {"ok", "stale"}, Fails(t, code)
      PROVE  ErrorInv'
    BY <1>2, <1>4 DEF Fails
<1>5. ASSUME NEW t \in Threads, Succeeds(t)
      PROVE  ErrorInv'
    BY <1>2, <1>5 DEF Succeeds, Codes
<1>6. ASSUME NEW t \in Threads,
             \/ \E op \in Network : NetworkCall(t, op)
             \/ TcpAccept(t) \/ PluginLoad(t) \/ Execute(t) \/ LogSetFile(t)
             \/ \E kind \in HeapFirst : Create(t, kind)
             \/ \E h \in handles : Join(t, h)
      PROVE  ErrorInv'
    BY <1>3, <1>6 DEF NetworkCall, TcpAccept, PluginLoad, Execute, LogSetFile, Create, Join
<1>7. ASSUME NEW t \in Threads,
             \/ EnsureInit(t) \/ Startup(t) \/ MarkStarted(t)
             \/ Resolve(t) \/ NoSocketHere(t) \/ SocketHere(t) \/ Attaches(t) \/ AttachFails(t)
             \/ Listens(t) \/ Opens(t) \/ Joined(t) \/ CloseObject(t) \/ Spawns(t)
             \/ \E h \in handles : GiveAway(t, h)
      PROVE  ErrorInv'
    BY <1>1, <1>7 DEF EnsureInit, Startup, MarkStarted, Resolve, NoSocketHere, SocketHere, Attaches, AttachFails,
                      Listens, Opens, Joined, CloseObject, Spawns, GiveAway, Goes
<1>8. ASSUME NEW t \in Threads,
             \/ ResolveFails(t) \/ SendTo(t) \/ FreeList(t) \/ ListenFails(t)
             \/ OpenFails(t) \/ Wraps(t) \/ WrapFails(t)
             \/ CreateOutOfMemory(t) \/ InitFails(t) \/ Inits(t) \/ FreeBlock(t)
      PROVE  ErrorInv'
    BY <1>1, <1>4, <1>5, <1>8 DEF ResolveFails, SendTo, FreeList, Goes, ListenFails, OpenFails, Wraps, WrapFails,
                                  CreateOutOfMemory, InitFails, Inits, FreeBlock, Ends, Codes
<1>9. ASSUME NEW t \in Threads,
             \/ SpawnFails(t) \/ ChildReaped(t) \/ WaitInterrupted(t)
             \/ LogNoFile(t) \/ LogOpens(t) \/ LogOpenFails(t) \/ Log(t)
             \/ \E h \in handles : Transfer(t, h) \/ Symbol(t, h)
      PROVE  ErrorInv'
    BY <1>4, <1>5, <1>9 DEF SpawnFails, ChildReaped, WaitInterrupted, LogNoFile, LogOpens, LogOpenFails, Log,
                            Transfer, Symbol, Codes
<1>10. ASSUME NEW t \in Threads, NEW h \in handles, PluginInit(t, h) \/ PluginShutdown(t, h)
       PROVE  ErrorInv'
    BY <1>2, <1>4, <1>10 DEF PluginInit, PluginShutdown, Codes
<1>11. ASSUME NEW r \in running, Finishes(r)
       PROVE  ErrorInv'
    BY <1>1, <1>11 DEF Finishes
<1> QED
    BY <1>6, <1>7, <1>8, <1>9, <1>10, <1>11, NextIs DEF Simple

-----------------------------------------------------------------------------
(* The theorems                                                            *)

LEMMA HandlesInitInv == HandlesInit => HandlesInv
<1> USE HandlesAssumption
<1> SUFFICES ASSUME HandlesInit PROVE HandlesInv
    OBVIOUS
<1>1. \A t \in Threads : call[t] = Quiet
    BY DEF HandlesInit
<1>2. TypeInv
    BY QuietIsOne DEF HandlesInit, TypeInv, Objects
<1>3. CallInv
    BY <1>1 DEF CallInv, GoodCall, Quiet
<1>4. HandlesOwnInv
    <2>1. \A q \in Places : ObjAt[q] = Nothing /\ BlockAt[q] = Nothing
        BY <1>1, QuietIsOne, PlacesAre, AtPlaces DEF HandlesInit
    <2> QED
        BY <2>1 DEF HandlesOwnInv, Owned, HandlesInit
<1>5. ListInv
    <2>1. Listing = {}
        BY <1>1 DEF Listing, ListPoints, Quiet
    <2> QED
        BY <2>1, FS_EmptySet DEF ListInv, HandlesInit
<1>6. LogInv
    BY <1>1 DEF LogInv, Quiet
<1>7. RunInv
    BY DEF RunInv, HandlesInit
<1>8. WsaInv
    BY <1>1 DEF WsaInv, StartedFirst, HandlesInit, Quiet, Network, Addressed
<1>9. ErrorInv
    BY DEF ErrorInv, HandlesInit, Codes
<1> QED
    BY <1>2, <1>3, <1>4, <1>5, <1>6, <1>7, <1>8, <1>9 DEF HandlesInv, HeldInv

LEMMA HandlesNextInv == HandlesInv /\ [HandlesNext]_<<platform, handleVars>> => HandlesInv'
<1> SUFFICES ASSUME HandlesInv, [HandlesNext]_<<platform, handleVars>> PROVE HandlesInv'
    OBVIOUS
<1>1. CASE HandlesNext
    BY <1>1, NextHeldInv, NextRunInv, NextWsaInv, NextErrorInv DEF HandlesInv
<1>2. CASE UNCHANGED <<platform, handleVars>>
    <2>1. UNCHANGED <<platform, blocks, os, lists, handles, running, abandoned, logFile, wsa, call, error, answer>>
        BY <1>2 DEF handleVars
    <2>2. \A q \in Places : ObjAt'[q] = ObjAt[q] /\ BlockAt'[q] = BlockAt[q]
        BY <2>1 DEF ObjAt, BlockAt
    <2>3. HandlesOwnInv'
        BY <2>1, <2>2, SameOwned DEF HandlesInv, HeldInv, HandlesOwnInv
    <2>4. Listing' = Listing
        BY <2>1 DEF Listing
    <2>5. HeldInv'
        BY <2>1, <2>3, <2>4 DEF HandlesInv, HeldInv, TypeInv, CallInv, ListInv, LogInv
    <2>6. RunInv'
        BY <2>1 DEF HandlesInv, RunInv, RunHeld
    <2>7. WsaInv' /\ ErrorInv'
        BY <2>1 DEF HandlesInv, WsaInv, StartedFirst, Windows, ErrorInv
    <2> QED
        BY <2>5, <2>6, <2>7 DEF HandlesInv
<1> QED
    BY <1>1, <1>2

(* The inductive invariant holds of every behaviour of the calls.          *)
THEOREM AlwaysHandlesInv == HandlesSpec => []HandlesInv
BY HandlesInitInv, HandlesNextInv, PTL DEF HandlesSpec

(* How many of the members of a set have what only one can have.           *)
LEMMA CountsOne ==
    ASSUME NEW S, NEW P \in SUBSET S, \A x, y \in P : x = y
    PROVE  Cardinality(P) = IF P = {} THEN 0 ELSE 1
<1>1. CASE P = {}
    BY <1>1, FS_EmptySet
<1>2. CASE P # {}
    <2>1. PICK x \in P : P = {x}
        BY <1>2
    <2> QED
        BY <1>2, <2>1, FS_Singleton
<1> QED
    BY <1>1, <1>2

LEMMA OneOwner ==
    ASSUME HeldInv, NEW n \in Numbers
    PROVE  Owners(n) = IF n \in os THEN 1 ELSE 0
<1> USE HandlesAssumption
<1> DEFINE H == {h \in handles : h.obj = n}
           C == {t \in Threads : call[t].obj = n}
           L == {x \in {logFile} : x = n}
           A == {x \in abandoned : x = n}
<1>1. /\ Owners(n) = Cardinality(H) + Cardinality(C) + Cardinality(L) + Cardinality(A)
      /\ handles \subseteq Structures /\ abandoned \subseteq Numbers /\ n # Nothing
    BY DEF Owners, HeldInv, TypeInv
<1>2. /\ \A h \in H : <<"handle", h>> \in Places /\ ObjAt[<<"handle", h>>] = n
      /\ \A t \in C : <<"call", t>> \in Places /\ ObjAt[<<"call", t>>] = n
      /\ \A x \in L : <<"log", Nothing>> \in Places /\ ObjAt[<<"log", Nothing>>] = n
      /\ \A x \in A : <<"abandoned", n>> \in Places /\ ObjAt[<<"abandoned", n>>] = n
    BY <1>1, PlacesAre, AtPlaces
<1>3. /\ \A p, q \in Places : ObjAt[p] = n /\ ObjAt[q] = n => p = q
      /\ \A p \in Places : ObjAt[p] = n => n \in os
      /\ n \in os => \E p \in Places : ObjAt[p] = n
    BY <1>1 DEF HeldInv, HandlesOwnInv, Owned
<1>4. /\ \A x, y \in H : x = y
      /\ \A x, y \in C : x = y
    <2>1. ASSUME NEW x \in H, NEW y \in H PROVE x = y
        <3>1. <<"handle", x>> = <<"handle", y>>
            BY <1>2, <1>3
        <3> QED
            BY <3>1, PlacesDiffer
    <2>2. ASSUME NEW x \in C, NEW y \in C PROVE x = y
        <3>1. <<"call", x>> = <<"call", y>>
            BY <1>2, <1>3
        <3> QED
            BY <3>1, PlacesDiffer
    <2> QED
        BY <2>1, <2>2
<1>5. /\ \A x, y \in L : x = y
      /\ \A x, y \in A : x = y
    OBVIOUS
<1>6. /\ Cardinality(H) = IF H = {} THEN 0 ELSE 1
      /\ Cardinality(C) = IF C = {} THEN 0 ELSE 1
    BY <1>4, CountsOne
<1>7. /\ Cardinality(L) = IF L = {} THEN 0 ELSE 1
      /\ Cardinality(A) = IF A = {} THEN 0 ELSE 1
    BY <1>5, CountsOne
<1>8. /\ H # {} => C = {} /\ L = {} /\ A = {}
      /\ C # {} => L = {} /\ A = {}
      /\ L # {} => A = {}
    <2>1. \A h \in H, t \in C : FALSE
        BY <1>2, <1>3, PlacesDiffer
    <2>2. \A h \in H, x \in L : FALSE
        BY <1>2, <1>3, PlacesDiffer
    <2>3. \A h \in H, x \in A : FALSE
        BY <1>2, <1>3, PlacesDiffer
    <2>4. \A t \in C, x \in L : FALSE
        BY <1>2, <1>3, PlacesDiffer
    <2>5. \A t \in C, x \in A : FALSE
        BY <1>2, <1>3, PlacesDiffer
    <2>6. \A x \in L, y \in A : FALSE
        BY <1>2, <1>3, PlacesDiffer
    <2> HIDE DEF H, C, L, A
    <2> QED
        BY <2>1, <2>2, <2>3, <2>4, <2>5, <2>6
<1>9. n \in os <=> H # {} \/ C # {} \/ L # {} \/ A # {}
    <2>1. H # {} \/ C # {} \/ L # {} \/ A # {} => n \in os
        BY <1>2, <1>3
    <2>2. ASSUME n \in os
          PROVE  H # {} \/ C # {} \/ L # {} \/ A # {}
        <3>1. PICK p \in Places : ObjAt[p] = n
            BY <1>3, <2>2
        <3>2. ASSUME NEW h \in Structures, p = <<"handle", h>> PROVE h \in H
            BY <1>1, <3>1, <3>2, AtPlaces
        <3>3. ASSUME NEW t \in Threads, p = <<"call", t>> PROVE t \in C
            BY <3>1, <3>3, AtPlaces
        <3>4. ASSUME NEW m \in Numbers, p = <<"abandoned", m>> PROVE n \in A
            BY <1>1, <3>1, <3>4, AtPlaces
        <3>5. ASSUME p = <<"log", Nothing>> PROVE n \in L
            BY <3>1, <3>5, AtPlaces
        <3> QED
            BY <3>2, <3>3, <3>4, <3>5, PlacesAre
    <2> QED
        BY <2>1, <2>2
<1> HIDE DEF H, C, L, A
<1> QED
    BY <1>1, <1>6, <1>7, <1>8, <1>9

LEMMA OneHolder ==
    ASSUME HeldInv, NEW b \in Blocks
    PROVE  Holders(b) = IF b \in blocks THEN 1 ELSE 0
<1> USE HandlesAssumption
<1> DEFINE H == {h \in handles : h.block = b}
           C == {t \in Threads : call[t].block = b}
<1>1. Holders(b) = Cardinality(H) + Cardinality(C) /\ handles \subseteq Structures /\ b # Nothing
    BY DEF Holders, HeldInv, TypeInv
<1>2. /\ \A h \in H : <<"handle", h>> \in Places /\ BlockAt[<<"handle", h>>] = b
      /\ \A t \in C : <<"call", t>> \in Places /\ BlockAt[<<"call", t>>] = b
    BY <1>1, PlacesAre, AtPlaces
<1>3. /\ \A p, q \in Places : BlockAt[p] = b /\ BlockAt[q] = b => p = q
      /\ \A p \in Places : BlockAt[p] = b => b \in blocks
      /\ b \in blocks => \E p \in Places : BlockAt[p] = b
    BY <1>1 DEF HeldInv, HandlesOwnInv, Owned
<1>4. /\ \A x, y \in H : x = y
      /\ \A x, y \in C : x = y
    <2>1. ASSUME NEW x \in H, NEW y \in H PROVE x = y
        <3>1. <<"handle", x>> = <<"handle", y>>
            BY <1>2, <1>3
        <3> QED
            BY <3>1, PlacesDiffer
    <2>2. ASSUME NEW x \in C, NEW y \in C PROVE x = y
        <3>1. <<"call", x>> = <<"call", y>>
            BY <1>2, <1>3
        <3> QED
            BY <3>1, PlacesDiffer
    <2> QED
        BY <2>1, <2>2
<1>5. /\ Cardinality(H) = IF H = {} THEN 0 ELSE 1
      /\ Cardinality(C) = IF C = {} THEN 0 ELSE 1
    BY <1>4, CountsOne
<1>6. H # {} => C = {}
    <2>1. \A h \in H, t \in C : FALSE
        BY <1>2, <1>3, PlacesDiffer
    <2> HIDE DEF H, C
    <2> QED
        BY <2>1
<1>7. b \in blocks <=> H # {} \/ C # {}
    <2>1. H # {} \/ C # {} => b \in blocks
        BY <1>2, <1>3
    <2>2. ASSUME b \in blocks
          PROVE  H # {} \/ C # {}
        <3>1. PICK p \in Places : BlockAt[p] = b
            BY <1>3, <2>2
        <3>2. ASSUME NEW h \in Structures, p = <<"handle", h>> PROVE h \in H
            BY <1>1, <3>1, <3>2, AtPlaces
        <3>3. ASSUME NEW t \in Threads, p = <<"call", t>> PROVE t \in C
            BY <3>1, <3>3, AtPlaces
        <3>4. ASSUME NEW m \in Numbers PROVE p # <<"abandoned", m>>
            BY <1>1, <3>1, AtPlaces
        <3>5. p # <<"log", Nothing>>
            BY <1>1, <3>1, AtPlaces
        <3> QED
            BY <3>2, <3>3, <3>4, <3>5, PlacesAre
    <2> QED
        BY <2>1, <2>2
<1> HIDE DEF H, C
<1> QED
    BY <1>1, <1>5, <1>6, <1>7

(* Whatever fails and whoever gets the same number or address next, every  *)
(* object, block and address list in use has one structure or call that    *)
(* gives it back (socket_*.c, plugin_*.c, thread_*.c, sync_*.c,            *)
(* process_*.c, log.c).                                                    *)
THEOREM EachAlwaysHasOneOwner == HandlesSpec => []EachHasOneOwner
<1>1. HandlesInv => EachHasOneOwner
    BY OneOwner, OneHolder DEF HandlesInv, HeldInv, ListInv, Listing, ListPoints, EachHasOneOwner
<1> QED
    BY <1>1, AlwaysHandlesInv, PTL

(* A thread that has not ended has its ten_thread, which the Windows       *)
(* trampoline writes to, until a join waited for it; a child, its call.    *)
THEOREM WhatRunsIsHeld == HandlesSpec => []RunningIsHeld
<1>1. HandlesInv => RunningIsHeld
    BY DEF HandlesInv, RunInv, RunHeld, RunningIsHeld
<1> QED
    BY <1>1, AlwaysHandlesInv, PTL

(* However the threads that find the flag unset interleave, none makes a   *)
(* network call before a WSAStartup has returned (socket_windows.c).       *)
THEOREM AlwaysStartedFirst == HandlesSpec => []StartedFirst
<1>1. HandlesInv => StartedFirst
    BY DEF HandlesInv, WsaInv
<1> QED
    BY <1>1, AlwaysHandlesInv, PTL

(* What ten_last_error says after a call is what that call did.            *)
THEOREM ErrorsAreOfTheCall == HandlesSpec => []ErrorIsOfTheCall
<1>1. HandlesInv => ErrorIsOfTheCall
    BY DEF HandlesInv, ErrorInv, ErrorIsOfTheCall
<1> QED
    BY <1>1, AlwaysHandlesInv, PTL

-----------------------------------------------------------------------------
(* Sync: what all proofs below use                                         *)

USE SyncAssumption

allVars == <<platform, syncVars>>

SafetySpec == SyncInit /\ [][SyncNext]_allVars

-----------------------------------------------------------------------------
(* Arithmetic of deadlines                                                 *)

LEMMA TimesMonotone ==
  ASSUME NEW k \in Nat \ {0}, NEW m \in Nat, NEW n \in Nat, m <= n
  PROVE  m * k \in Nat /\ m * k <= n * k
<1>1. PICK d \in Nat : n = m + d
  <2>1. n - m \in Nat /\ n = m + (n - m)
    OBVIOUS
  <2> QED
    BY <2>1
<1>2. m * k \in Nat /\ d * k \in Nat
  OBVIOUS
<1>3. n * k = m * k + d * k
  BY <1>1
<1> QED
  BY <1>2, <1>3

LEMMA SecondIsPositive == SecondNanos \in Nat /\ SecondNanos > 0 /\ SecondNanos = SecondMs * MsNanos
<1>1. SecondMs \in Nat \ {0} /\ MsNanos \in Nat \ {0}
  OBVIOUS
<1>2. MsNanos * 1 <= MsNanos * SecondMs
  BY <1>1, TimesMonotone, 1 <= SecondMs
<1> QED
  BY <1>1, <1>2 DEF SecondNanos

(* The milliseconds of a timeout are its seconds and what is left of them. *)
LEMMA Division ==
  ASSUME NEW ms \in Nat
  PROVE  /\ ms \div SecondMs \in Nat /\ ms % SecondMs \in Nat /\ ms % SecondMs < SecondMs
         /\ ms = SecondMs * (ms \div SecondMs) + (ms % SecondMs)
<1>1. SecondMs \in Nat /\ SecondMs > 0
  OBVIOUS
<1>2. ms % SecondMs \in 0 .. SecondMs - 1
  BY <1>1
<1>3. ms = SecondMs * (ms \div SecondMs) + (ms % SecondMs)
  BY <1>1
<1>4. ms \div SecondMs \in Nat
  BY <1>1
<1> QED
  BY <1>1, <1>2, <1>3, <1>4

LEMMA RestIsShort ==
  ASSUME NEW ms \in Nat
  PROVE  (ms % SecondMs) * MsNanos \in 0 .. SecondNanos - 1
<1> DEFINE r == ms % SecondMs
<1>0. SecondMs \in Nat /\ SecondMs > 0
  OBVIOUS
<1>1. r \in Nat /\ r + 1 \in Nat /\ r + 1 <= SecondMs
  <2>1. r \in Nat /\ r < SecondMs
    BY Division
  <2> HIDE DEF r
  <2> QED
    BY <1>0, <2>1
<1> HIDE DEF r
<1>2. (r + 1) * MsNanos <= SecondMs * MsNanos /\ r * MsNanos \in Nat
  BY <1>1, TimesMonotone
<1>3. (r + 1) * MsNanos = r * MsNanos + MsNanos
  BY <1>1
<1>4. r * MsNanos \in 0 .. SecondNanos - 1
  BY <1>1, <1>2, <1>3, SecondIsPositive
<1> QED
  BY <1>4 DEF r

(* The deadline is one, and as far away as the milliseconds say.           *)
LEMMA DeadlineIsRight ==
  ASSUME nanos \in 0 .. SecondNanos - 1, NEW ms \in Nat
  PROVE  Valid(Deadline(ms)) /\ TicksUntil(Deadline(ms)) = ms * MsNanos
<1> DEFINE q == ms \div SecondMs
           r == (ms % SecondMs) * MsNanos
<1>1. r \in 0 .. SecondNanos - 1 /\ q \in Nat
  BY RestIsShort, Division
<1>2. DeadlineNanos(ms) = nanos + r
  BY DEF DeadlineNanos
<1>3. ms * MsNanos = q * SecondNanos + r
  <2>1. ms = SecondMs * q + (ms % SecondMs) /\ ms % SecondMs \in Nat
    BY Division
  <2>2. ms * MsNanos = (SecondMs * q) * MsNanos + (ms % SecondMs) * MsNanos
    BY <2>1, <1>1
  <2>3. (SecondMs * q) * MsNanos = q * (SecondMs * MsNanos)
    BY <1>1
  <2> QED
    BY <2>2, <2>3, SecondIsPositive
<1> HIDE DEF q
<1>4. CASE nanos + r >= SecondNanos
  <2>1. Deadline(ms) = [sec |-> q + 1, nsec |-> nanos + r - SecondNanos]
    <3> HIDE DEF r
    <3> QED
      BY <1>1, <1>2, <1>4, SecondIsPositive DEF Deadline, Carries, q
  <2>2. nanos + r - SecondNanos \in 0 .. SecondNanos - 1
    <3> HIDE DEF r
    <3> QED
      BY <1>1, <1>4, SecondIsPositive
  <2>3. (q + 1) * SecondNanos = q * SecondNanos + SecondNanos
    BY <1>1, SecondIsPositive
  <2>4. q * SecondNanos \in Nat
    BY <1>1, SecondIsPositive
  <2>5. TicksUntil(Deadline(ms)) = q * SecondNanos + r
    <3> HIDE DEF r
    <3> QED
      BY <2>1, <2>3, <2>4, <1>1, SecondIsPositive DEF TicksUntil
  <2> QED
    BY <2>1, <2>2, <2>5, <1>3 DEF Valid
<1>5. CASE ~(nanos + r >= SecondNanos)
  <2>1. Deadline(ms) = [sec |-> q, nsec |-> nanos + r]
    <3> HIDE DEF r
    <3> QED
      BY <1>1, <1>2, <1>5, SecondIsPositive DEF Deadline, Carries, q
  <2>2. nanos + r \in 0 .. SecondNanos - 1
    <3> HIDE DEF r
    <3> QED
      BY <1>1, <1>5, SecondIsPositive
  <2>3. q * SecondNanos \in Nat
    BY <1>1, SecondIsPositive
  <2>4. TicksUntil(Deadline(ms)) = q * SecondNanos + r
    <3> HIDE DEF r
    <3> QED
      BY <2>1, <2>3, <1>1, SecondIsPositive DEF TicksUntil
  <2> QED
    BY <2>1, <2>2, <2>4, <1>3 DEF Valid
<1> QED
  BY <1>4, <1>5

(* A timeout that fits a DWORD is not cut off.                             *)
LEMMA SleepIsRight ==
  ASSUME NEW ms \in Nat, ms < Dword - 1
  PROVE  SleepTicks(ms) = ms * MsNanos
<1>1. Dword \in Nat
  OBVIOUS
<1>2. ms % Dword = ms
  BY <1>1
<1> QED
  BY <1>1, <1>2 DEF SleepTicks, SleepMs

-----------------------------------------------------------------------------
(* The inductive invariant                                                 *)

WaitPoints == {"idle", "lock", "semaphore", "waiting", "woken", "timed_out"}

Waits == [at : WaitPoints, left : Int, due : Nat, ms : Timeouts \cup {Forever}, stepped : BOOLEAN]

SyncTypeOK ==
  /\ platform \in Platforms /\ recursive \in BOOLEAN
  /\ owner \in Callers \cup {Nobody} /\ depth \in Nat
  /\ inside \in [Callers -> Nat] /\ permits \in [Callers -> {0, 1}]
  /\ value \in Nat
  /\ wait \in [Callers -> Waits]
  /\ nanos \in 0 .. SecondNanos - 1

(* A wait gives the mutex back that its caller held once.                  *)
LockInv ==
  /\ owner = Nobody <=> depth = 0
  /\ \A u \in Callers : inside[u] = IF Blocked(u) THEN 1 ELSE IF owner = u THEN depth ELSE 0
  /\ \A u \in Callers : Blocked(u) => owner # u

Takers == {u \in Callers : permits[u] > 0}

PermitInv ==
  /\ IsFiniteSet(Takers) /\ value + Cardinality(Takers) = Permits
  /\ \A u \in Callers : wait[u].at = "semaphore" => permits[u] = 0

(* What a wait is worth whose clock nobody has set and whose milliseconds  *)
(* fit.                                                                    *)
Unstepped(w) == ~w.stepped /\ (Windows => w.ms < Dword - 1)

TimeInv ==
  \A u \in Callers :
    /\ wait[u].ms = Forever => wait[u].left = Forever /\ wait[u].due = 0
    /\ wait[u].at = "waiting" /\ wait[u].ms # Forever /\ Unstepped(wait[u]) => wait[u].left = wait[u].due
    /\ wait[u].at = "timed_out" /\ Unstepped(wait[u]) => wait[u].due = 0

SyncInv == SyncTypeOK /\ LockInv /\ PermitInv /\ TimeInv

LEMMA IdleIsAWait == Idle \in Waits
BY DEF Idle, Waits, WaitPoints, Forever

THEOREM SyncInitInv == SyncInit => SyncInv
<1> SUFFICES ASSUME SyncInit PROVE SyncInv
  OBVIOUS
<1>1. SyncTypeOK
  BY IdleIsAWait, SecondIsPositive DEF SyncInit, SyncTypeOK
<1>2. LockInv
  BY DEF SyncInit, LockInv, Blocked, Idle
<1>3. PermitInv
  <2>1. Takers = {}
    BY DEF SyncInit, Takers
  <2> QED
    BY <2>1, FS_EmptySet DEF SyncInit, PermitInv, Idle
<1>4. TimeInv
  BY DEF SyncInit, TimeInv, Idle, Forever
<1> QED
  BY <1>1, <1>2, <1>3, <1>4 DEF SyncInv

-----------------------------------------------------------------------------
(* The mutex                                                               *)

LEMMA PermitsUntouched ==
  ASSUME PermitInv, UNCHANGED <<value, permits>>,
         \A u \in Callers : wait'[u].at = "semaphore" => wait[u].at = "semaphore" \/ permits[u] = 0
  PROVE  PermitInv'
<1>1. Takers' = Takers
  BY DEF Takers
<1> QED
  BY <1>1 DEF PermitInv

LEMMA MutexStep ==
  ASSUME SyncInv, NEW u \in Callers, Lock(u) \/ Locked(u) \/ TryLockTakes(u) \/ TryLockBusy(u) \/ Unlock(u)
  PROVE  SyncInv'
<1> USE DEF SyncInv
<1>1. CASE Lock(u)
  <2>1. wait' = [wait EXCEPT ![u].at = "lock"]
        /\ UNCHANGED <<platform, recursive, owner, depth, inside, value, permits, nanos, steps>> /\ AtRest(u)
    BY <1>1 DEF Lock, Enters
  <2>2. SyncTypeOK'
    BY <2>1 DEF SyncTypeOK, Waits, WaitPoints
  <2>3. \A v \in Callers : Blocked(v)' = Blocked(v)
    BY <2>1 DEF Blocked, AtRest, SyncTypeOK
  <2>4. LockInv'
    BY <2>1, <2>3 DEF LockInv
  <2>5. PermitInv'
    BY <2>1, PermitsUntouched DEF SyncTypeOK
  <2>6. TimeInv'
    BY <2>1 DEF TimeInv, Unstepped, Windows, SyncTypeOK, Waits
  <2> QED
    BY <2>2, <2>4, <2>5, <2>6
<1>2. ASSUME Enter(u), Free(u), ~Blocked(u), wait' = wait \/ Returns(u),
             UNCHANGED <<platform, recursive, value, permits, nanos, steps>>
      PROVE  SyncInv'
  <2>1. SyncTypeOK'
    BY <1>2, IdleIsAWait DEF SyncTypeOK, Enter, Returns
  <2>2. \A v \in Callers : Blocked(v)' = Blocked(v)
    BY <1>2 DEF Blocked, Returns, Idle, SyncTypeOK
  <2>3. owner \in {u, Nobody}
    BY <1>2 DEF Free
  <2>4. LockInv'
    BY <1>2, <2>2, <2>3 DEF LockInv, Enter, SyncTypeOK
  <2>5. PermitInv'
    BY <1>2, PermitsUntouched DEF Returns, Idle, SyncTypeOK
  <2>6. TimeInv'
    BY <1>2 DEF TimeInv, Unstepped, Windows, Returns, Idle, SyncTypeOK, Waits, Forever
  <2> QED
    BY <2>1, <2>4, <2>5, <2>6
<1>3. CASE Locked(u)
  BY <1>2, <1>3 DEF Locked, Blocked
<1>4. CASE TryLockTakes(u)
  BY <1>2, <1>4 DEF TryLockTakes, Blocked, AtRest
<1>5. CASE TryLockBusy(u)
  <2>1. PermitInv'
    BY <1>5, PermitsUntouched DEF TryLockBusy, syncVars
  <2> QED
    BY <1>5, <2>1 DEF TryLockBusy, syncVars, SyncTypeOK, LockInv, Blocked, TimeInv, Unstepped, Windows
<1>6. CASE Unlock(u)
  <2>1. SyncTypeOK'
    BY <1>6 DEF Unlock, SyncTypeOK, LockInv
  <2>2. depth > 0 /\ inside[u] = depth /\ ~Blocked(u)
    BY <1>6 DEF Unlock, SyncTypeOK, LockInv, AtRest, Blocked
  <2>3. LockInv'
    BY <1>6, <2>2 DEF Unlock, SyncTypeOK, LockInv, Blocked
  <2>4. PermitInv'
    BY <1>6, PermitsUntouched DEF Unlock
  <2>5. TimeInv'
    BY <1>6 DEF Unlock, TimeInv, Unstepped, Windows
  <2> QED
    BY <2>1, <2>3, <2>4, <2>5
<1> QED
  BY <1>1, <1>3, <1>4, <1>5, <1>6

-----------------------------------------------------------------------------
(* The semaphore                                                           *)

(* A user goes to or comes back from a place where it waits for no mutex.  *)
LEMMA SemaphoreFrame ==
  ASSUME SyncInv, NEW u \in Callers, ~Blocked(u),
         Enters(u, "semaphore") \/ Returns(u) \/ wait' = wait,
         UNCHANGED <<platform, recursive, owner, depth, inside, nanos, steps>>,
         value' \in Nat, permits' \in [Callers -> {0, 1}]
  PROVE  SyncTypeOK' /\ LockInv' /\ TimeInv'
<1> USE DEF SyncInv
<1>1. SyncTypeOK'
  BY IdleIsAWait DEF SyncTypeOK, Enters, Returns, Waits, WaitPoints
<1>2. \A v \in Callers : Blocked(v)' = Blocked(v)
  <2> SUFFICES ASSUME NEW v \in Callers PROVE Blocked(v)' = Blocked(v)
    OBVIOUS
  <2>1. v # u => wait'[v] = wait[v]
    BY DEF Enters, Returns, SyncTypeOK
  <2>2. wait'[u].at \in {wait[u].at, "semaphore", "idle"}
    BY DEF Enters, Returns, Idle, SyncTypeOK, Waits
  <2> QED
    BY <2>1, <2>2 DEF Blocked
<1>3. LockInv'
  BY <1>2 DEF LockInv
<1>4. TimeInv'
  BY DEF TimeInv, Unstepped, Windows, Enters, Returns, Idle, SyncTypeOK, Waits, Forever
<1> QED
  BY <1>1, <1>3, <1>4

LEMMA SemaphoreStep ==
  ASSUME SyncInv, NEW u \in Callers,
         SemaphoreWait(u) \/ SemaphoreTaken(u) \/ SemaphoreInterrupted(u) \/ SemaphorePost(u)
  PROVE  SyncInv'
<1> USE DEF SyncInv
<1>1. CASE SemaphoreWait(u)
  <2>1. SyncTypeOK' /\ LockInv' /\ TimeInv'
    BY <1>1, SemaphoreFrame DEF SemaphoreWait, AtRest, Blocked, SyncTypeOK
  <2>2. PermitInv'
    BY <1>1, PermitsUntouched DEF SemaphoreWait, Enters, SyncTypeOK
  <2> QED
    BY <2>1, <2>2
<1>2. CASE SemaphoreTaken(u)
  <2>1. permits[u] = 0 /\ permits' = [permits EXCEPT ![u] = 1]
    <3>1. permits[u] = 0
      BY <1>2 DEF SemaphoreTaken, PermitInv
    <3>2. permits' = [permits EXCEPT ![u] = permits[u] + 1]
      BY <1>2 DEF SemaphoreTaken
    <3>3. permits[u] + 1 = 1
      BY <3>1
    <3> QED
      BY <3>1, <3>2, <3>3
  <2>2. value > 0 /\ value' = value - 1 /\ Returns(u)
    BY <1>2 DEF SemaphoreTaken
  <2>3. SyncTypeOK' /\ LockInv' /\ TimeInv'
    BY <1>2, <2>1, <2>2, SemaphoreFrame DEF SemaphoreTaken, Blocked, SyncTypeOK
  <2>4. Takers' = Takers \cup {u} /\ u \notin Takers
    BY <2>1 DEF Takers, SyncTypeOK
  <2>5. IsFiniteSet(Takers') /\ Cardinality(Takers') = Cardinality(Takers) + 1
    BY <2>4, FS_AddElement DEF PermitInv
  <2>6. Cardinality(Takers) \in Nat
    BY FS_CardinalityType DEF PermitInv
  <2>7. \A v \in Callers : wait'[v].at = "semaphore" => permits'[v] = 0
    BY <2>1, <2>2 DEF Returns, Idle, PermitInv, SyncTypeOK
  <2> QED
    BY <2>2, <2>3, <2>5, <2>6, <2>7 DEF PermitInv, SyncTypeOK
<1>3. CASE SemaphoreInterrupted(u)
  <2>1. SyncTypeOK' /\ LockInv' /\ TimeInv'
    BY <1>3, SemaphoreFrame DEF SemaphoreInterrupted, Blocked, SyncTypeOK
  <2>2. PermitInv'
    BY <1>3, PermitsUntouched DEF SemaphoreInterrupted, Returns, Idle, SyncTypeOK
  <2> QED
    BY <2>1, <2>2
<1>4. CASE SemaphorePost(u)
  <2>1. permits[u] = 1 /\ permits' = [permits EXCEPT ![u] = 0]
    <3>1. permits[u] = 1
      BY <1>4 DEF SemaphorePost, SyncTypeOK
    <3>2. permits' = [permits EXCEPT ![u] = permits[u] - 1]
      BY <1>4 DEF SemaphorePost
    <3>3. permits[u] - 1 = 0
      BY <3>1
    <3> QED
      BY <3>1, <3>2, <3>3
  <2>2. value' = value + 1 /\ wait' = wait
    BY <1>4 DEF SemaphorePost
  <2>3. SyncTypeOK' /\ LockInv' /\ TimeInv'
    BY <1>4, <2>1, <2>2, SemaphoreFrame DEF SemaphorePost, AtRest, Blocked, SyncTypeOK
  <2>4. Takers' = Takers \ {u} /\ u \in Takers
    BY <2>1 DEF Takers, SyncTypeOK
  <2>5. IsFiniteSet(Takers') /\ Cardinality(Takers') = Cardinality(Takers) - 1
    BY <2>4, FS_RemoveElement DEF PermitInv
  <2>6. Cardinality(Takers) \in Nat
    BY FS_CardinalityType DEF PermitInv
  <2>7. \A v \in Callers : wait'[v].at = "semaphore" => permits'[v] = 0
    BY <2>1, <2>2 DEF PermitInv, SyncTypeOK
  <2> QED
    BY <2>2, <2>3, <2>5, <2>6, <2>7 DEF PermitInv, SyncTypeOK
<1> QED
  BY <1>1, <1>2, <1>3, <1>4

-----------------------------------------------------------------------------
(* The condition variable                                                  *)

LEMMA SleepsStep ==
  ASSUME SyncInv, NEW u \in Callers, NEW left \in Int, NEW ms \in Timeouts \cup {Forever},
         MayWait(u), Sleeps(u, left, ms),
         ms = Forever => left = Forever,
         ms # Forever /\ (Windows => ms < Dword - 1) => left = ms * MsNanos
  PROVE  SyncInv'
<1> USE DEF SyncInv
<1> DEFINE due == IF ms = Forever THEN 0 ELSE ms * MsNanos
           w == [at |-> "waiting", left |-> left, due |-> due, ms |-> ms, stepped |-> FALSE]
<1>1. due \in Nat
  BY DEF Forever
<1> HIDE DEF due
<1>2. w \in Waits
  BY <1>1 DEF Waits, WaitPoints
<1>3. wait' = [wait EXCEPT ![u] = w]
  BY DEF Sleeps, due
<1>4. owner' = Nobody /\ depth' = 0 /\ owner = u /\ depth = 1
      /\ UNCHANGED <<platform, recursive, inside, value, permits, nanos, steps>>
  BY DEF Sleeps, MayWait
<1>5. SyncTypeOK'
  BY <1>2, <1>3, <1>4 DEF SyncTypeOK
<1>6. inside[u] = 1
  BY <1>4 DEF LockInv, MayWait, AtRest, Blocked
<1>7. LockInv'
  <2>1. \A v \in Callers \ {u} : Blocked(v)' = Blocked(v)
    BY <1>3 DEF Blocked, SyncTypeOK
  <2>2. Blocked(u)'
    BY <1>3 DEF Blocked, SyncTypeOK
  <2> QED
    BY <2>1, <2>2, <1>4, <1>6 DEF LockInv
<1>8. PermitInv'
  BY <1>3, <1>4, PermitsUntouched DEF SyncTypeOK
<1>9. TimeInv'
  <2>1. ms = Forever => left = Forever /\ due = 0
    BY DEF due
  <2>2. ms # Forever /\ (Windows => ms < Dword - 1) => left = due
    BY DEF due
  <2>3. \A v \in Callers \ {u} : wait'[v] = wait[v]
    BY <1>3 DEF SyncTypeOK
  <2>4. wait'[u] = w
    BY <1>3 DEF SyncTypeOK
  <2> QED
    BY <1>4, <2>1, <2>2, <2>3, <2>4 DEF TimeInv, Unstepped, Windows
<1> QED
  BY <1>5, <1>7, <1>8, <1>9

LEMMA WaitStep ==
  ASSUME SyncInv, NEW u \in Callers, CondWait(u) \/ \E ms \in Timeouts : CondWaitTimeout(u, ms)
  PROVE  SyncInv'
<1>1. CASE CondWait(u)
  BY <1>1, SleepsStep DEF CondWait, Forever
<1>2. ASSUME NEW ms \in Timeouts, CondWaitTimeout(u, ms)
      PROVE  SyncInv'
  <2>1. ms \in Nat /\ MsNanos \in Nat /\ Dword \in Nat \ {0}
    OBVIOUS
  <2>2. CASE Posix
    <3>1. Ticks(ms) = ms * MsNanos
      BY <2>1, <2>2, DeadlineIsRight DEF Ticks, SyncInv, SyncTypeOK
    <3>2. Ticks(ms) \in Int /\ ms # Forever
      BY <2>1, <3>1 DEF Forever
    <3> QED
      BY <1>2, <3>1, <3>2, SleepsStep DEF CondWaitTimeout
  <2>3. CASE ~Posix
    <3>1. Ticks(ms) = SleepTicks(ms)
      BY <2>3 DEF Ticks
    <3>2. SleepTicks(ms) \in Int
      <4>1. ms % Dword \in Nat
        BY <2>1
      <4>2. (ms % Dword) * MsNanos \in Nat
        BY <4>1, <2>1
      <4> QED
        BY <4>2 DEF SleepTicks, SleepMs, Forever
    <3>3. Windows
      BY <2>3 DEF SyncInv, SyncTypeOK, Platforms, Posix, Windows
    <3> QED
      BY <1>2, <2>1, <3>1, <3>2, <3>3, SleepIsRight, SleepsStep DEF CondWaitTimeout, Forever
  <2> QED
    BY <2>2, <2>3
<1> QED
  BY <1>1, <1>2

LEMMA WakesStep ==
  ASSUME SyncInv, NEW W \in SUBSET Waiting, Wakes(W)
  PROVE  SyncInv'
<1> USE DEF SyncInv
<1>1. \A u \in Callers : wait'[u] = IF u \in W THEN [wait[u] EXCEPT !.at = "woken"] ELSE wait[u]
  BY DEF Wakes
<1>2. wait' \in [Callers -> Waits]
  BY DEF Wakes, SyncTypeOK, Waits, WaitPoints
<1>3. UNCHANGED <<platform, recursive, owner, depth, inside, value, permits, nanos, steps>>
  BY DEF Wakes
<1>4. SyncTypeOK'
  BY <1>2, <1>3 DEF SyncTypeOK
<1>5. \A u \in Callers : Blocked(u)' = Blocked(u)
  <2> SUFFICES ASSUME NEW u \in Callers
               PROVE  Blocked(u)' = Blocked(u)
    OBVIOUS
  <2>1. CASE u \in W
    <3>1. wait[u].at = "waiting" /\ wait[u] \in Waits
      BY <2>1 DEF Waiting, SyncTypeOK
    <3>2. wait'[u].at = "woken"
      BY <1>1, <2>1, <3>1 DEF Waits
    <3> QED
      BY <3>1, <3>2 DEF Blocked
  <2>2. CASE u \notin W
    BY <1>1, <2>2 DEF Blocked
  <2> QED
    BY <2>1, <2>2
<1>6. LockInv'
  BY <1>3, <1>5 DEF LockInv
<1>7. PermitInv'
  BY <1>1, <1>3, PermitsUntouched DEF SyncTypeOK, Waits
<1>8. TimeInv'
  <2> SUFFICES ASSUME NEW u \in Callers
               PROVE  /\ wait'[u].ms = Forever => wait'[u].left = Forever /\ wait'[u].due = 0
                      /\ wait'[u].at = "waiting" /\ wait'[u].ms # Forever /\ Unstepped(wait[u])'
                           => wait'[u].left = wait'[u].due
                      /\ wait'[u].at = "timed_out" /\ Unstepped(wait[u])' => wait'[u].due = 0
    BY DEF TimeInv
  <2>1. CASE u \notin W
    BY <1>1, <1>3, <2>1 DEF TimeInv, Unstepped, Windows
  <2>2. CASE u \in W
    <3>1. /\ wait'[u].at = "woken" /\ wait'[u].ms = wait[u].ms
          /\ wait'[u].left = wait[u].left /\ wait'[u].due = wait[u].due
      BY <1>1, <2>2 DEF SyncTypeOK, Waits
    <3> QED
      BY <3>1 DEF TimeInv
  <2> QED
    BY ONLY <2>1, <2>2
<1> QED
  BY <1>4, <1>6, <1>7, <1>8

LEMMA ReturnStep ==
  ASSUME SyncInv, NEW u \in Callers, Expires(u) \/ CondReturns(u)
  PROVE  SyncInv'
<1> USE DEF SyncInv
<1>1. CASE Expires(u)
  <2>1. /\ wait' = [wait EXCEPT ![u].at = "timed_out"]
        /\ wait[u].at = "waiting" /\ wait[u].left # Forever /\ wait[u].left <= 0
        /\ UNCHANGED <<platform, recursive, owner, depth, inside, value, permits, nanos, steps>>
    BY <1>1 DEF Expires, Enters
  <2>2. SyncTypeOK'
    BY <2>1 DEF SyncTypeOK, Waits, WaitPoints
  <2>3. \A v \in Callers : Blocked(v)' = Blocked(v)
    BY <2>1 DEF Blocked, SyncTypeOK, Waits
  <2>4. LockInv'
    BY <2>1, <2>3 DEF LockInv
  <2>5. PermitInv'
    BY <2>1, PermitsUntouched DEF SyncTypeOK, Waits
  <2>6. TimeInv'
    BY <2>1 DEF TimeInv, Unstepped, Windows, SyncTypeOK, Waits
  <2> QED
    BY <2>2, <2>4, <2>5, <2>6
<1>2. CASE CondReturns(u)
  <2>1. /\ wait' = [wait EXCEPT ![u] = Idle] /\ Blocked(u)
        /\ owner = Nobody /\ owner' = u /\ depth' = 1
        /\ UNCHANGED <<platform, recursive, inside, value, permits, nanos, steps>>
    BY <1>2 DEF CondReturns, Returns, Blocked
  <2>2. SyncTypeOK'
    BY <2>1, IdleIsAWait DEF SyncTypeOK
  <2>3. (\A v \in Callers \ {u} : Blocked(v)' = Blocked(v)) /\ ~Blocked(u)'
    BY <2>1 DEF Blocked, Idle, SyncTypeOK
  <2>4. LockInv'
    BY <2>1, <2>3 DEF LockInv, SyncTypeOK
  <2>5. PermitInv'
    BY <2>1, PermitsUntouched DEF Idle, SyncTypeOK
  <2>6. TimeInv'
    BY <2>1 DEF TimeInv, Unstepped, Windows, Idle, Forever, SyncTypeOK
  <2> QED
    BY <2>2, <2>4, <2>5, <2>6
<1> QED
  BY <1>1, <1>2

-----------------------------------------------------------------------------
(* Time                                                                    *)

LEMMA PassedFacts ==
  ASSUME NEW n \in Int, NEW m \in Nat, NEW by \in Nat \ {0}
  PROVE  /\ Passed(n, by) \in Int /\ Passed(m, by) \in Nat
         /\ Passed(Forever, by) = Forever /\ Passed(0, by) = 0
BY DEF Passed, Forever

LEMMA TickStep ==
  ASSUME SyncInv, Tick
  PROVE  SyncInv'
<1> USE DEF SyncInv
<1>1. \A u \in Callers : wait'[u] = IF u \in Waiting
                                  THEN [wait[u] EXCEPT !.left = Passed(@, 1), !.due = Passed(@, 1)]
                                  ELSE wait[u]
  BY DEF Tick
<1>2. wait' \in [Callers -> Waits]
  <2>1. ASSUME NEW u \in Callers
        PROVE  wait'[u] \in Waits
    <3> DEFINE left == Passed(wait[u].left, 1)
               due == Passed(wait[u].due, 1)
    <3>1. wait[u] \in Waits /\ wait[u].left \in Int /\ wait[u].due \in Nat
      BY DEF SyncTypeOK, Waits
    <3>2. left \in Int /\ due \in Nat
      BY <3>1, PassedFacts
    <3>3. wait'[u] = IF u \in Waiting THEN [wait[u] EXCEPT !.left = left, !.due = due] ELSE wait[u]
      BY <1>1, <3>1 DEF Waits
    <3> HIDE DEF left, due
    <3> QED
      BY <3>1, <3>2, <3>3 DEF Waits
  <2>2. wait' = [u \in Callers |-> wait'[u]]
    BY DEF Tick
  <2> QED
    BY <2>1, <2>2
<1>3. UNCHANGED <<platform, recursive, owner, depth, inside, value, permits, steps>>
  BY DEF Tick
<1>4. nanos' \in 0 .. SecondNanos - 1
  <2>1. nanos + 1 \in Nat /\ SecondNanos \in Nat \ {0}
    BY SecondIsPositive DEF SyncTypeOK
  <2>2. nanos' = (nanos + 1) % SecondNanos
    BY DEF Tick
  <2> HIDE DEF SyncInv
  <2> QED
    BY <2>1, <2>2
<1>5. SyncTypeOK'
  BY <1>2, <1>3, <1>4 DEF SyncTypeOK
<1>6. \A u \in Callers : wait'[u].at = wait[u].at /\ wait'[u].ms = wait[u].ms /\ wait'[u].stepped = wait[u].stepped
  BY <1>1 DEF SyncTypeOK, Waits
<1>7. LockInv'
  BY <1>3, <1>6 DEF LockInv, Blocked
<1>8. PermitInv'
  BY <1>3, <1>6, PermitsUntouched
<1>9. TimeInv'
  <2>1. ASSUME NEW u \in Callers, u \notin Waiting
        PROVE  wait'[u] = wait[u]
    BY <1>1, <2>1
  <2>2. ASSUME NEW u \in Callers, u \in Waiting
        PROVE  /\ wait'[u].at = "waiting"
               /\ wait'[u].left = Passed(wait[u].left, 1) /\ wait'[u].due = Passed(wait[u].due, 1)
               /\ wait[u].left = Forever => wait'[u].left = Forever
               /\ wait[u].due = 0 => wait'[u].due = 0
               /\ wait[u].left = wait[u].due => wait'[u].left = wait'[u].due
    <3>1. /\ wait'[u].at = "waiting"
          /\ wait'[u].left = Passed(wait[u].left, 1) /\ wait'[u].due = Passed(wait[u].due, 1)
      BY <1>1, <2>2 DEF SyncTypeOK, Waits, Waiting
    <3> QED
      BY <3>1, PassedFacts
  <2>3. \A u \in Callers : wait[u].at = "waiting" <=> u \in Waiting
    BY DEF Waiting
  <2> QED
    BY <1>3, <1>6, <2>1, <2>2, <2>3 DEF TimeInv, Unstepped, Windows
<1> QED
  BY <1>5, <1>7, <1>8, <1>9

LEMMA ClockSetStep ==
  ASSUME SyncInv, ClockSet
  PROVE  SyncInv'
<1> USE DEF SyncInv
<1>1. PICK by \in {SecondNanos, -SecondNanos} : wait' = [u \in Callers |-> Stepped(u, by)]
  BY DEF ClockSet
<1>2. by \in Int /\ (by > 0 => by \in Nat \ {0})
  BY <1>1, SecondIsPositive
<1>3. UNCHANGED <<platform, recursive, owner, depth, inside, value, permits, nanos>>
  BY DEF ClockSet
<1>4. \A u \in Callers :
        \/ wait'[u] = wait[u]
        \/ /\ wait'[u].at = wait[u].at /\ wait'[u].ms = wait[u].ms /\ wait'[u].due = wait[u].due
           /\ wait'[u].stepped /\ wait'[u].left \in Int
           /\ wait[u].left = Forever => wait'[u].left = Forever
           /\ wait'[u] \in Waits
  <2> SUFFICES ASSUME NEW u \in Callers, u \in Waiting /\ Posix
               PROVE  /\ wait'[u].at = wait[u].at /\ wait'[u].ms = wait[u].ms /\ wait'[u].due = wait[u].due
                      /\ wait'[u].stepped /\ wait'[u].left \in Int
                      /\ wait[u].left = Forever => wait'[u].left = Forever
                      /\ wait'[u] \in Waits
    BY <1>1 DEF Stepped
  <2>1. PICK l \in Int : /\ wait'[u] = [wait[u] EXCEPT !.stepped = TRUE, !.left = l]
                         /\ wait[u].left = Forever => l = Forever
    <3> DEFINE l == IF wait[u].left = Forever THEN Forever
                    ELSE IF by > 0 THEN Passed(wait[u].left, by) ELSE wait[u].left - by
    <3>1. wait'[u] = [wait[u] EXCEPT !.stepped = TRUE, !.left = l]
      BY <1>1 DEF Stepped
    <3>2. wait[u].left \in Int
      BY DEF SyncTypeOK, Waits
    <3>3. l \in Int
      BY <1>2, <3>2, PassedFacts DEF Forever
    <3>4. wait[u].left = Forever => l = Forever
      OBVIOUS
    <3> HIDE DEF l
    <3> QED
      BY <3>1, <3>3, <3>4
  <2>2. wait[u] \in Waits
    BY DEF SyncTypeOK
  <2> QED
    BY <2>1, <2>2 DEF Waits
<1>5. wait' \in [Callers -> Waits]
  <2>1. \A u \in Callers : wait'[u] \in Waits
    BY <1>4 DEF SyncTypeOK
  <2> QED
    BY <1>1, <2>1
<1>6. SyncTypeOK'
  BY <1>3, <1>5 DEF SyncTypeOK
<1>7. \A u \in Callers : wait'[u].at = wait[u].at
  BY <1>4
<1>8. LockInv'
  BY <1>3, <1>7 DEF LockInv, Blocked
<1>9. PermitInv'
  BY <1>3, <1>7, PermitsUntouched
<1>10. TimeInv'
  BY <1>3, <1>4 DEF TimeInv, Unstepped, Windows
<1> QED
  BY <1>6, <1>8, <1>9, <1>10

-----------------------------------------------------------------------------
(* Together                                                                *)

THEOREM SyncNextInv == SyncInv /\ [SyncNext]_allVars => SyncInv'
<1> SUFFICES ASSUME SyncInv, [SyncNext]_allVars PROVE SyncInv'
  OBVIOUS
<1>1. CASE UNCHANGED allVars
  <2>1. PermitInv'
    BY <1>1, PermitsUntouched DEF SyncInv, allVars, syncVars
  <2> QED
    BY <1>1, <2>1 DEF SyncInv, allVars, syncVars, SyncTypeOK, LockInv, Blocked, TimeInv, Unstepped, Windows
<1>2. ASSUME NEW u \in Callers, Lock(u) \/ Locked(u) \/ TryLockTakes(u) \/ TryLockBusy(u) \/ Unlock(u)
      PROVE  SyncInv'
  BY <1>2, MutexStep
<1>3. ASSUME NEW u \in Callers,
             SemaphoreWait(u) \/ SemaphoreTaken(u) \/ SemaphoreInterrupted(u) \/ SemaphorePost(u)
      PROVE  SyncInv'
  BY <1>3, SemaphoreStep
<1>4. ASSUME NEW u \in Callers, CondWait(u) \/ \E ms \in Timeouts : CondWaitTimeout(u, ms)
      PROVE  SyncInv'
  BY <1>4, WaitStep
<1>5. ASSUME NEW u \in Callers, CondSignal(u) \/ CondBroadcast(u) \/ Spurious(u)
      PROVE  SyncInv'
  <2>1. PICK W \in SUBSET Waiting : Wakes(W)
    BY <1>5 DEF CondSignal, CondBroadcast, Spurious
  <2> QED
    BY <2>1, WakesStep
<1>6. ASSUME NEW u \in Callers, Expires(u) \/ CondReturns(u)
      PROVE  SyncInv'
  BY <1>6, ReturnStep
<1> QED
  BY <1>1, <1>2, <1>3, <1>4, <1>5, <1>6, TickStep, ClockSetStep DEF SyncNext

THEOREM SyncAlwaysInv == SafetySpec => []SyncInv
BY SyncInitInv, SyncNextInv, PTL DEF SafetySpec

(* Outside a wait, whoever was told it has the mutex has it, as often as   *)
(* it was told, on both platforms and for both kinds of mutex; and permits *)
(* are neither made up nor lost, whatever interrupts a wait.               *)
THEOREM AnswersAreAlwaysTrue == SafetySpec => []AnswersAreTrue
<1>1. SyncInv => AnswersAreTrue
  BY DEF SyncInv, LockInv, PermitInv, Takers, AnswersAreTrue
<1> QED
  BY <1>1, SyncAlwaysInv, PTL

(* For seconds and milliseconds of any length: the deadline is a valid     *)
(* timespec, and TEN_ERROR_TIMEOUT is answered no earlier than asked for,  *)
(* as long as nobody sets the clock and the milliseconds fit a DWORD.      *)
THEOREM DeadlineIsAlwaysKept == SafetySpec => []DeadlineIsKept
<1>1. SyncInv => DeadlineIsKept
  BY DeadlineIsRight DEF SyncInv, SyncTypeOK, TimeInv, Unstepped, DeadlineIsKept
<1> QED
  BY <1>1, SyncAlwaysInv, PTL
=============================================================================
