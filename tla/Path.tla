-------------------------------- MODULE Path --------------------------------
(***************************************************************************)
(* The path functions of src/path/path.c, on sequences of characters.      *)
(***************************************************************************)
EXTENDS Naturals, SequencesExt

CONSTANTS Separator,  \* TEN_PATH_SEPARATOR
          Letters     \* the characters a drive may be named by

ASSUME PathAssumption == Separator \in {"/", "\\"}

IsSep(c) == c \in {"/", "\\"}

(* ten__find_last_sep, 0 for NULL.                                         *)
LastSep(p) == Max({i \in DOMAIN p : IsSep(p[i])} \cup {0})

WithoutTrailing(a) == SubSeq(a, 1, Max({i \in DOMAIN a : ~IsSep(a[i])} \cup {0}))
WithoutLeading(b) == SubSeq(b, Min({i \in DOMAIN b : ~IsSep(b[i])} \cup {Len(b) + 1}), Len(b))

(* Separators at the seam make way for one, or for none when there is      *)
(* nothing else on either side.                                            *)
Join(a, b) ==
  LET x == WithoutTrailing(a)
      y == WithoutLeading(b)
  IN  IF x # <<>> /\ y # <<>> THEN x \o <<Separator>> \o y ELSE x \o y

\* Mutant: the separator in front of the name is left out for the root too.
Directory_NoRoot(p) ==
  IF LastSep(p) = 0 THEN <<".">> ELSE SubSeq(p, 1, LastSep(p) - 1)

Directory(p) ==
  CASE LastSep(p) = 0 -> <<".">>
    [] LastSep(p) = 1 -> SubSeq(p, 1, 1)
    [] OTHER -> SubSeq(p, 1, LastSep(p) - 1)

Filename(p) == SubSeq(p, LastSep(p) + 1, Len(p))

(* The last dot, but for the one a hidden file begins with.                *)
Extension(p) ==
  LET name == Filename(p)
      dots == {i \in DOMAIN name : name[i] = "." /\ i > 1}
  IN  IF dots = {} THEN <<>> ELSE SubSeq(name, Max(dots), Len(name))

IsAbsolute(p) ==
  IF Separator = "/" THEN Len(p) > 0 /\ p[1] = "/"
  ELSE \/ Len(p) > 0 /\ IsSep(p[1])
       \/ Len(p) > 2 /\ p[1] \in Letters /\ p[2] = ":" /\ IsSep(p[3])
=============================================================================
