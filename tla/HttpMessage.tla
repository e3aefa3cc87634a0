----------------------------- MODULE HttpMessage -----------------------------
(***************************************************************************)
(* The messages of src/http/http.c: a request or a response is filled by   *)
(* its owner, written out as lines and a body, and parsed at the other     *)
(* end.  Names and values have no colon, no line end and no space at their *)
(* ends, paths no space.  There is memory to write a message out; to fill  *)
(* or to read it there may not be.                                         *)
(***************************************************************************)
EXTENDS Integers, SequencesExt

CONSTANTS
  Names,       \* spellings of header names
  Folded,      \* the name a spelling stands for (ten__ci_strcmp)
  Host, ContentLength, Connection,  \* the spellings the library writes
  Values,      \* of headers, but for the library's own
  TheHost,     \* the value of the Host line of a request
  Close,       \* the value of the Connection line
  Paths,
  LongPaths,   \* those that make the request line longer than TEN_HTTP_LINE_BUF
  Statuses,    \* of responses
  Bodies,      \* what set_body is given: sequences of bytes
  MaxHeaders,  \* bound on the headers of a message
  None

ASSUME MessageAssumption ==
  /\ {Host, ContentLength, Connection} \subseteq Names /\ Names \subseteq DOMAIN Folded
  /\ LongPaths \subseteq Paths /\ Statuses \subseteq Int
  /\ {TheHost, Close} \cap Values = {} /\ None \notin Values \cup Paths
  /\ Folded[ContentLength] # Folded[Connection]
  /\ \A x \in Bodies : x \in Seq(Range(x))

Classes == {Folded[n] : n \in Names}
Reserved == {Folded[ContentLength], Folded[Connection]}

VARIABLES
  kind,      \* "request", "response", or None before either is created
  start,     \* its path or status
  headers,   \* its headers: name and value
  body,      \* the contents of its body, None for NULL
  copies,    \* how many copies of names and values are allocated for it
  wanted,    \* history: the value last set for each name
  given,     \* history: what set_body was last called with
  received   \* what the other end has parsed of this message, or None

message == <<kind, start, headers, body, copies>>
vars == <<message, wanted, given, received>>

Init ==
  /\ kind = None /\ start = None /\ headers = <<>> /\ body = None /\ copies = 0
  /\ wanted = [c \in Classes |-> None] /\ given = <<>> /\ received = None

-----------------------------------------------------------------------------
(* Headers                                                                 *)

\* Mutant: names are compared with their case.
Position_ExactCase(hs, n) ==
  SelectInSeq(hs, LAMBDA h : h.name = n)

(* The first header of that name, or 0.                                    *)
Position(hs, n) ==
  SelectInSeq(hs, LAMBDA h : Folded[h.name] = Folded[n])

(* ten__http_headers_set: the first spelling stays.                        *)
WithHeader(hs, n, v) ==
  IF Position(hs, n) > 0
  THEN [hs EXCEPT ![Position(hs, n)].value = v]
  ELSE Append(hs, [name |-> n, value |-> v])

(* ten__http_headers_get                                                   *)
Header(hs, n) == IF Position(hs, n) > 0 THEN hs[Position(hs, n)].value ELSE None

\* How many more copies there are when a header is set.
Copied(hs, n) == IF Position(hs, n) > 0 THEN 0 ELSE 2

SetHeader(n, v) ==
  /\ kind # None
  /\ headers' = WithHeader(headers, n, v)
  /\ Len(headers') <= MaxHeaders
  /\ copies' = copies + Copied(headers, n)
  /\ wanted' = [wanted EXCEPT ![Folded[n]] = v]
  /\ received' = None
  /\ UNCHANGED <<kind, start, body, given>>

(* No memory for the value, the table or the name: every header is as it   *)
(* was.                                                                    *)
SetHeaderFails ==
  /\ kind # None
  /\ received' = None
  /\ UNCHANGED <<message, wanted, given>>

-----------------------------------------------------------------------------
(* Bodies                                                                  *)

SetBody(x) ==
  /\ kind # None
  /\ body' = x
  /\ given' = x
  /\ received' = None
  /\ UNCHANGED <<kind, start, headers, copies, wanted>>

(* No memory for the buffer, or for more than it has held: it is empty.    *)
SetBodyFails(x) ==
  /\ kind # None
  /\ \/ body = None /\ UNCHANGED body
     \/ x # <<>> /\ body' = <<>>
  /\ given' = x
  /\ received' = None
  /\ UNCHANGED <<kind, start, headers, copies, wanted>>

-----------------------------------------------------------------------------

CreateRequest(p) ==
  /\ kind = None
  /\ kind' = "request" /\ start' = p
  /\ received' = None
  /\ UNCHANGED <<headers, body, copies, wanted, given>>

CreateResponse ==
  /\ kind = None
  /\ kind' = "response" /\ start' = 200
  /\ received' = None
  /\ UNCHANGED <<headers, body, copies, wanted, given>>

SetStatus(s) ==
  /\ kind = "response"
  /\ start' = s
  /\ received' = None
  /\ UNCHANGED <<kind, headers, body, copies, wanted, given>>

(* The message and, as far as it is the other end's, its parse are freed.  *)
Destroy ==
  /\ kind # None
  /\ kind' = None /\ start' = None /\ headers' = <<>> /\ body' = None
  /\ copies' = copies - 2 * Len(headers)
  /\ wanted' = [c \in Classes |-> None] /\ given' = <<>> /\ received' = None

-----------------------------------------------------------------------------
(* The message on its way                                                  *)

Line(n, v) == [name |-> n, value |-> v]
Contents == IF body = None THEN <<>> ELSE body

\* Mutant: the length is written before the owner's headers.
Lines_LengthFirst ==
  (IF kind = "request" /\ start \notin LongPaths THEN <<Line(Host, TheHost)>> ELSE <<>>)
  \o <<Line(ContentLength, Len(Contents)), Line(Connection, Close)>> \o headers

(* The lines below the first.  A request line that is cut off loses its    *)
(* line end and takes the Host line with it.                               *)
Lines ==
  (IF kind = "request" /\ start \notin LongPaths THEN <<Line(Host, TheHost)>> ELSE <<>>)
  \o headers \o <<Line(ContentLength, Len(Contents)), Line(Connection, Close)>>

(* ten__http_parse_headers_text: the header of a line for which there is   *)
(* no memory, one not in kept, is left out; its length counts all the      *)
(* same, and the last one does.                                            *)
ParsedHeaders(lines, kept) ==
  LET parsed[i \in 0 .. Len(lines)] ==
        IF i = 0 THEN <<>>
        ELSE IF i \in kept THEN WithHeader(parsed[i - 1], lines[i].name, lines[i].value)
        ELSE parsed[i - 1]
  IN  parsed[Len(lines)]

(* Values that are no number have the length 0 (atol).                     *)
ParsedLength(lines) ==
  LET l == lines[SelectLastInSeq(lines, LAMBDA x : Folded[x.name] = Folded[ContentLength])]
  IN  IF l.value \in Nat THEN l.value ELSE 0

\* What is received of the body, with all of it on the connection.
ReadBody(n) == SubSeq(Contents, 1, Min({n, Len(Contents)}))

\* The places of a body of n that may be left of it, in their order.
Increasing(n) ==
  {p \in UNION {[1 .. m -> 1 .. n] : m \in 0 .. n} : \A i, j \in DOMAIN p : i < j => p[i] < p[j]}

\* What is stored of it: a write for which there is no memory is not noticed.
Stored(b, places) == [i \in DOMAIN places |-> b[places[i]]]

(* A status that is not positive is refused at the other end.              *)
StartAccepted == kind = "response" => start > 0

(* The header lines in kept found memory, and so did the body units at     *)
(* places, before which the connection did not end; who has less is told   *)
(* nothing.                                                                *)
Deliver(kept) ==
  /\ kind # None /\ StartAccepted
  /\ LET arriving == ReadBody(ParsedLength(Lines)) IN
     \E places \in Increasing(Len(arriving)) :
       received' = [start |-> IF start \in LongPaths THEN None ELSE start,
                    headers |-> ParsedHeaders(Lines, kept),
                    body |-> Stored(arriving, places),
                    lossless |-> kept = DOMAIN Lines,
                    whole |-> places = [i \in 1 .. Len(arriving) |-> i]]
  /\ UNCHANGED <<message, wanted, given>>

(* The first line is refused, or there is no memory for the message.       *)
DeliverFails ==
  /\ kind # None
  /\ received' = None
  /\ UNCHANGED <<message, wanted, given>>

Next ==
  \/ \E p \in Paths : CreateRequest(p)
  \/ CreateResponse
  \/ \E s \in Statuses : SetStatus(s)
  \/ \E n \in Names, v \in Values : SetHeader(n, v)
  \/ \E x \in Bodies : SetBody(x) \/ SetBodyFails(x)
  \/ SetHeaderFails
  \/ \E kept \in SUBSET DOMAIN Lines : Deliver(kept)
  \/ DeliverFails
  \/ Destroy

Spec == Init /\ [][Next]_vars

-----------------------------------------------------------------------------
(* Properties                                                              *)

(* The variables keep their ranges.                                        *)
TypeOK ==
  /\ kind \in {"request", "response", None}
  /\ start \in Paths \cup Int \cup {None}
  /\ headers \in Seq([name : Names, value : Values])
  /\ body = None \/ body \in Seq(UNION {Range(x) : x \in Bodies})
  /\ wanted \in [Classes -> Values \cup {None}] /\ given \in Bodies \cup {<<>>}
  /\ copies \in Nat

(* The headers are a dictionary of names without case (http.h:55): each is *)
(* there once, reads the value last set under any spelling and, with every *)
(* set that failed half-way, has its two copies and no more.  The body is  *)
(* what set_body was last called with or, when there was no memory for it, *)
(* empty: no rest of an older one.                                         *)
HoldsWhatWasSet ==
  /\ \A i, j \in DOMAIN headers : Folded[headers[i].name] = Folded[headers[j].name] => i = j
  /\ \A n \in Names : Header(headers, n) = wanted[Folded[n]]
  /\ copies = 2 * Len(headers)
  /\ body \in {None, <<>>, given}

\* The library's Host line counts when the owner has set none.
Expected(c) ==
  IF c = Folded[Host] /\ wanted[c] = None /\ kind = "request" THEN TheHost ELSE wanted[c]

(* What the other end parses has the body that was sent, even if the owner *)
(* has set a Content-Length of its own, unless a piece of the body found   *)
(* no memory there: then it has the other pieces in their order, and       *)
(* nothing else.  With memory for the lines, every header the owner has    *)
(* set reads the same under every spelling, the Host of a request among    *)
(* them.  Without, a header may be missing or be the library's, but none   *)
(* has a value that was not written for its name.                          *)
MessageArrives ==
  received # None =>
    /\ received.whole => received.body = Contents
    /\ \E p \in Increasing(Len(Contents)) : received.body = Stored(Contents, p)
    /\ received.lossless /\ start \notin LongPaths =>
         \A n \in Names :
           Folded[n] \notin Reserved => Header(received.headers, n) = Expected(Folded[n])
    /\ \A h \in Range(received.headers) :
         \E l \in Range(Lines) : Folded[l.name] = Folded[h.name] /\ l.value = h.value
=============================================================================
