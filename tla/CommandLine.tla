----------------------------- MODULE CommandLine -----------------------------
(***************************************************************************)
(* The command line that src/platform/windows/process_windows.c makes of   *)
(* the arguments of a process, and what the process makes of it.           *)
(***************************************************************************)
EXTENDS Naturals, SequencesExt

Blank == " "
Tab == "\t"
QuoteMark == "\""
Slash == "\\"

NeedsQuotes(a) == Blank \in Range(a) \/ a = <<>>

Shown(a) == IF NeedsQuotes(a) THEN <<QuoteMark>> \o a \o <<QuoteMark>> ELSE a

(* ten__build_command_line: what it writes, and the block it has for that. *)
CommandLine(argv) ==
  FlattenSeq([i \in DOMAIN argv |-> (IF i > 1 THEN <<Blank>> ELSE <<>>) \o Shown(argv[i])])

LineRoom(argv) == Len(FlattenSeq(argv)) + 3 * Len(argv) + 1

-----------------------------------------------------------------------------
(* The C runtime of the process splits the line at blanks outside quotes.  *)
(* A quote after an odd number of backslashes is one of the argument; of   *)
(* the backslashes before a quote every second one is left.                *)

Start == [done |-> <<>>, arg |-> <<>>, reading |-> FALSE, quoted |-> FALSE, slashes |-> 0]

Slashes(n) == [i \in 1 .. n |-> Slash]

SplitAt(s, c) ==
  LET flushed == [s EXCEPT !.arg = @ \o Slashes(s.slashes), !.slashes = 0]
      halved == [s EXCEPT !.arg = @ \o Slashes(s.slashes \div 2), !.slashes = 0, !.reading = TRUE]
  IN  CASE c = Slash -> [s EXCEPT !.slashes = @ + 1, !.reading = TRUE]
        [] c = QuoteMark /\ s.slashes % 2 = 0 -> [halved EXCEPT !.quoted = ~@]
        [] c = QuoteMark /\ s.slashes % 2 = 1 -> [halved EXCEPT !.arg = Append(@, c)]
        [] c \in {Blank, Tab} /\ ~s.quoted ->
             [Start EXCEPT !.done = IF s.reading THEN Append(s.done, flushed.arg) ELSE s.done]
        [] OTHER -> [flushed EXCEPT !.arg = Append(@, c), !.reading = TRUE]

\* A blank more ends the last argument; an open quote would end with the line.
Arguments(line) ==
  LET after[i \in 0 .. Len(line)] == IF i = 0 THEN Start ELSE SplitAt(after[i - 1], line[i])
      s == after[Len(line)]
  IN  SplitAt([s EXCEPT !.quoted = FALSE], Blank).done
=============================================================================
