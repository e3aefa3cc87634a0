-------------------------------- MODULE Text --------------------------------
(***************************************************************************)
(* Calls of the functions of Encoding, JsonText, JsonDocument, Path, Bytes *)
(* and CommandLine: an input of some kind (a text, the arguments of a      *)
(* process, or a sequence of calls on one block) grows by a character,     *)
(* some tokens or a call a step, and the functions are compared with one   *)
(* another and with the tables of the standards on every input.            *)
(***************************************************************************)
EXTENDS JsonText, JsonDocument, Path, Bytes, CommandLine

CONSTANTS
  Kinds,      \* kinds of input
  Alphabet,   \* the characters of each kind
  MaxLength   \* bound on the length of each kind

(* A C string has no NUL in it, and what becomes one none among its units; *)
(* what is appended and written is in memory, a text with its NUL.         *)
ASSUME TextAssumption ==
  /\ "bytes" \in Kinds => Alphabet["bytes"] \subseteq 0 .. 255
  /\ "utf8" \in Kinds => Alphabet["utf8"] \subseteq 1 .. 255
  /\ "utf16" \in Kinds => Alphabet["utf16"] \subseteq CodeUnits
  /\ "string" \in Kinds => Alphabet["string"] \subseteq 1 .. 255
  /\ "literal" \in Kinds => Alphabet["literal"] \subseteq Items
  /\ "appends" \in Kinds =>
       Alphabet["appends"] \subseteq [op : {"append"}, size : 0 .. MaxBlock - 1, memory : BOOLEAN]
  /\ "writes" \in Kinds =>
       Alphabet["writes"] \subseteq [op : {"write", "clear"}, size : 0 .. MaxBlock, memory : BOOLEAN]

VARIABLES kind, text
vars == <<kind, text>>

Init == kind \in Kinds /\ text = <<>>

\* The tokens of a document.
Tokens(chunks) == FlattenSeq(chunks)

\* A document may go on when the parser has not met a token it refuses.
Promising(tokens) ==
  LET p == DocumentParsed(tokens)
  IN  p.ok \/ p.at > Len(tokens)

Grow ==
  /\ Len(text) < MaxLength[kind]
  /\ kind = "document" => Promising(Tokens(text))
  /\ \E c \in Alphabet[kind] : text' = Append(text, c)
  /\ UNCHANGED kind

Next == Grow

Spec == Init /\ [][Next]_vars

-----------------------------------------------------------------------------
(* Properties                                                              *)

\* The arguments of a process, which "next" divides.
Argv(s) ==
  LET argv[i \in 0 .. Len(s)] ==
        CASE i = 0 -> << <<>> >>
          [] i > 0 /\ s[i] = "next" -> Append(argv[i - 1], <<>>)
          [] OTHER -> Append(Front(argv[i - 1]), Append(Last(argv[i - 1]), s[i]))
  IN  argv[Len(s)]

\* A call that had to find room for more than half of all addresses.
TooMuch(b, nul) ==
  \E i \in DOMAIN text : b.length + text[i].size + nul > Width \div 2

\* What follows a sequence of calls on a string or a buffer.
Fits(b, nul) ==
  /\ b.length + nul <= b.capacity /\ b.capacity <= MaxBlock
  /\ b.returns \/ TooMuch(b, nul)

(* The decoders and converters write no more than the block they have      *)
(* allocated holds, whatever they accept.  No sequence of calls, with or   *)
(* without memory, makes a string (with its NUL) or a buffer larger than   *)
(* its block; calls return unless two blocks together take more than half  *)
(* of all addresses; and a substring ends within its string (string.h:69). *)
OutputFits ==
  /\ kind = "base64" /\ Base64Accepts(text) => Len(Base64Decode(text)) <= Base64Room(text)
  /\ kind = "utf8" /\ Utf8Valid(text) => Len(Utf8ToUtf16(text)) <= Utf16Room(text)
  /\ kind = "utf16" /\ Utf16Accepts(text) => Len(Utf16ToUtf8(text)) <= Utf8Room(text)
  /\ kind = "arguments" => Len(CommandLine(Argv(text))) + 1 <= LineRoom(Argv(text))
  /\ kind = "appends" => \A n \in 0 .. MaxBlock - 1 : Fits(Calls(StringOf(n), text), 1)
  /\ kind = "appends" =>
       LET b == Calls(StringOf(0), text)
       IN  \A start, n \in 0 .. Width - 1 : InString(b, start, n) <=> start + n <= b.length
  /\ kind = "writes" => Fits(Calls(EmptyBuffer, text), 0)

\* The rows of table 3-7 of the Unicode standard: first bytes, second
\* bytes and length.
Rows ==
  { <<0 .. 127, {}, 1>>, <<194 .. 223, 128 .. 191, 2>>, <<{224}, 160 .. 191, 3>>,
    <<225 .. 236, 128 .. 191, 3>>, <<{237}, 128 .. 159, 3>>, <<238 .. 239, 128 .. 191, 3>>,
    <<{240}, 144 .. 191, 4>>, <<241 .. 243, 128 .. 191, 4>>, <<{244}, 128 .. 143, 4>> }

\* The row of the surrogates, which the standard does not have.
SurrogateRow == <<{237}, 160 .. 191, 3>>
LooseRows == Rows \cup {SurrogateRow}

WellFormed(s, rows) ==
  LET well[i \in 1 .. Len(s) + 1] ==
        \/ i > Len(s)
        \/ \E r \in rows :
             /\ s[i] \in r[1] /\ i + r[3] - 1 <= Len(s)
             /\ r[3] > 1 => s[i + 1] \in r[2]
             /\ \A k \in i + 2 .. i + r[3] - 1 : s[k] \in 128 .. 191
             /\ well[i + r[3]]
  IN  well[1]

\* A literal with a letter in the place of each escape.
Masked(t) == [i \in DOMAIN t |-> IF t[i].form = "plain" THEN t[i].value ELSE 97]

(* ten_utf8_validate answers 1 for every text that is well-formed by the   *)
(* Unicode standard, and for none that is ill-formed (encoding.h:63) by    *)
(* more than surrogates, of which nothing is said here; the escapes of a   *)
(* JSON literal in UTF-8 make a string in UTF-8, but for surrogates that   *)
(* were escaped one by one.                                                *)
AcceptsTheStandards ==
  /\ kind = "utf8" =>
       /\ WellFormed(text, Rows) => Utf8Valid(text)
       /\ Utf8Valid(text) => WellFormed(text, LooseRows)
  /\ kind = "literal" /\ LiteralAccepts(text) /\ Utf8Valid(Masked(text)) =>
       WellFormed(LiteralValue(text), LooseRows)

\* What ten__build_command_line leaves to its callers: quotes and tabs, and
\* a backslash at the end of an argument that needs quotes.
Unquotable(a) ==
  \/ {QuoteMark, Tab} \cap Range(a) # {}
  \/ NeedsQuotes(a) /\ a # <<>> /\ Last(a) = Slash

\* Surrogates, which the library takes for code points in UTF-8.
NoSurrogates(s) == \A cp \in Range(CodePoints(s)) : ~High(cp) /\ ~Low(cp)

(* What was encoded is accepted and decoded to the same: Base64 and Hex,   *)
(* whatever the number of bytes leaves of the last group, UTF-16 to UTF-8  *)
(* and back unit by unit, and, without surrogates, UTF-8 to UTF-16 and     *)
(* back; a JSON string written by stringify, whatever its bytes, and one   *)
(* that was read from any literal; the arguments of a process on Windows,  *)
(* but for those its command line cannot hold (process_windows.c:19-22).   *)
RoundTrips ==
  /\ kind = "bytes" =>
       /\ Base64Accepts(Base64Encode(text)) /\ Base64Decode(Base64Encode(text)) = text
       /\ HexAccepts(HexEncode(text)) /\ HexDecode(HexEncode(text)) = text
  /\ kind = "utf16" /\ Utf16Accepts(text) =>
       Utf8Valid(Utf16ToUtf8(text)) /\ Utf8ToUtf16(Utf16ToUtf8(text)) = text
  /\ kind = "utf8" /\ Utf8Valid(text) /\ NoSurrogates(text) =>
       Utf16Accepts(Utf8ToUtf16(text)) /\ Utf16ToUtf8(Utf8ToUtf16(text)) = text
  /\ kind = "string" => LiteralAccepts(Escaped(text)) /\ LiteralValue(Escaped(text)) = text
  /\ kind = "literal" /\ LiteralAccepts(text) =>
       LiteralValue(Escaped(LiteralValue(text))) = LiteralValue(text)
  /\ kind = "arguments" /\ ~(\E a \in Range(Argv(text)) : Unquotable(a)) =>
       Arguments(CommandLine(Argv(text))) = Argv(text)

Prefix(i) == SubSeq(text, 1, i)
Suffix(i) == SubSeq(text, i + 1, Len(text))
Middle(i, j) == SubSeq(text, i + 1, j)

\* Paths may be joined in either order of the calls.
Associates ==
  \A j \in 0 .. Len(text) : \A i \in 0 .. j :
    Join(Join(Prefix(i), Middle(i, j)), Suffix(j)) = Join(Prefix(i), Join(Middle(i, j), Suffix(j)))

\* A path joined to a directory names the same file, and is absolute when
\* the directory is, unless that is the root.
KeepsNames ==
  \A i \in 0 .. Len(text) :
    /\ WithoutLeading(Suffix(i)) # <<>> => Filename(Join(Prefix(i), Suffix(i))) = Filename(Suffix(i))
    /\ WithoutTrailing(Prefix(i)) # <<>> => (IsAbsolute(Join(Prefix(i), Suffix(i))) <=> IsAbsolute(Prefix(i)))

\* Directory and file name with the separator between them are the path
\* (the root's comes twice), and the path is absolute when its directory is.
PartsMakeThePath ==
  LastSep(text) > 0 =>
    /\ IsAbsolute(Directory(text)) <=> IsAbsolute(text)
    /\ Directory(text) \o <<text[LastSep(text)]>> \o Filename(text) \in {text, <<text[1]>> \o text}

\* The extension is the end of the file name, begins with its last dot and
\* leaves a name in front of it (path.c:162-163).
ExtensionLeavesAName ==
  Extension(text) # <<>> =>
    /\ IsStrictSuffix(Extension(text), Filename(text))
    /\ Extension(text)[1] = "." /\ "." \notin Range(Tail(Extension(text)))

(* The functions on paths agree with one another on every path: joining,   *)
(* taking apart, the file name, its extension and what is absolute.        *)
PathsAgree ==
  kind = "path" => Associates /\ KeepsNames /\ PartsMakeThePath /\ ExtensionLeavesAName
=============================================================================
