-------------------------------- MODULE File --------------------------------
(***************************************************************************)
(* The files of src/platform/posix/file_posix.c and windows/file_windows.c: *)
(* threads of a program, its users, that work on one directory.  A user    *)
(* has at most one ten_file of its own, and, on POSIX, the two of a        *)
(* ten_file_copy while one is under way; a step is one system call.        *)
(* Contents are sequences of pieces, of which a write by a user adds one.  *)
(* On Windows every file is opened with FILE_SHARE_READ and nothing else,  *)
(* and copying is one system call.                                         *)
(***************************************************************************)
EXTENDS Platform, Naturals, SequencesExt

CONSTANTS
  Users,
  Openers, Copiers,  \* the users that open files, and that copy them
  Paths,
  Files,       \* the files the disk has room for, linked or not
  Fds,         \* file descriptors
  Data,        \* the pieces users write
  Old, Hole,   \* pieces: there at the start, and read where nothing was written
  OpenModes,   \* the modes users open files with, some of Modes
  BufferSize,  \* pieces in the buffer of ten_file_copy
  MaxLength,   \* bound on the length of a file
  None

Modes == {"r", "r+", "w", "w+", "a", "a+"}

Descriptors == [file : Files, pos : Nat, read : BOOLEAN, write : BOOLEAN, append : BOOLEAN]

ASSUME FileAssumption ==
  /\ Fds \subseteq Nat /\ BufferSize \in Nat \ {0} /\ MaxLength \in Nat
  /\ Openers \cup Copiers \subseteq Users /\ OpenModes \subseteq Modes
  /\ Hole \notin Data /\ None \notin Files \cup Fds \cup Descriptors

VARIABLES
  dir,      \* the file of each path, or None
  content,  \* the pieces of each file
  fd,       \* the open descriptors: file, position and flags
  handle,   \* the descriptor of each user's ten_file, or None
  at,       \* where each user is in ten_file_copy: see CopyPoints
  src, dst, \* the descriptors of its two files
  target,   \* its destination
  buf,      \* its buffer
  kept,     \* history: what appending handles wrote to a file since anything else did
  source,   \* history: what the source held when the copy opened it
  quiet     \* history: nobody else has changed the copy's open files

disk == <<dir, content, kept>>
copies == <<at, src, dst, target, buf, source>>
vars == <<platform, disk, fd, handle, copies, quiet>>

CopyPoints == {"idle", "open", "read", "write"}

(* ten__parse_file_mode                                                    *)
Flags(m) ==
  [read |-> m \in {"r", "r+", "w+", "a+"}, write |-> m # "r", append |-> m \in {"a", "a+"},
   truncate |-> m \in {"w", "w+"}, create |-> m \notin {"r", "r+"}]

(* Some files, each with one path or several.                              *)
Init ==
  /\ platform \in Platforms
  /\ dir \in [Paths -> Files \cup {None}]
  /\ content = [f \in Files |-> IF \E p \in Paths : dir[p] = f THEN <<Old>> ELSE <<>>]
  /\ fd = [d \in Fds |-> None]
  /\ handle = [u \in Users |-> None]
  /\ at = [u \in Users |-> "idle"]
  /\ src = [u \in Users |-> None] /\ dst = [u \in Users |-> None]
  /\ target = [u \in Users |-> None]
  /\ buf = [u \in Users |-> <<>>]
  /\ kept = [f \in Files |-> <<>>]
  /\ source = [u \in Users |-> <<>>]
  /\ quiet = [u \in Users |-> TRUE]

-----------------------------------------------------------------------------
(* The system calls                                                        *)

Closed == {d \in Fds : fd[d] = None}
NewFd == CHOOSE d \in Closed : \A e \in Closed : d <= e
FileAt(d) == fd[d].file
Unused == {f \in Files : (\A p \in Paths : dir[p] # f) /\ (\A d \in Fds \ Closed : FileAt(d) # f)}

(* CreateFile: who has f open for writing has it alone.                    *)
Shared(f, m) ==
  Posix \/ \A d \in Fds \ Closed : FileAt(d) = f => ~fd[d].write /\ ~Flags(m).write

(* What is open on Windows is neither deleted, moved nor replaced.         *)
NotHeld(path) == Posix \/ \A d \in Fds \ Closed : FileAt(d) # dir[path]

(* open: the path names file f from now on, empty if it is new or          *)
(* truncated.                                                              *)
Names(path, m, f) ==
  /\ \/ dir[path] = f /\ Shared(f, m)
     \/ dir[path] = None /\ Flags(m).create /\ f \in Unused
  /\ dir' = [dir EXCEPT ![path] = f]
  /\ IF dir[path] = None \/ Flags(m).truncate
     THEN content' = [content EXCEPT ![f] = <<>>] /\ kept' = [kept EXCEPT ![f] = <<>>]
     ELSE UNCHANGED <<content, kept>>

(* O_APPEND stays with the descriptor; Windows seeks to the end, once.     *)
Gets(d, f, m) ==
  fd' = [fd EXCEPT ![d] = [file |-> f,
                           pos |-> IF Windows /\ Flags(m).append THEN Len(content'[f]) ELSE 0,
                           read |-> Flags(m).read,
                           write |-> Flags(m).write, append |-> Flags(m).append]]

\* What a write of x at position p makes of the content s.
Overwritten(s, p, x) ==
  [i \in 1 .. Max({Len(s), p + Len(x)}) |->
     IF i \in p + 1 .. p + Len(x) THEN x[i - p] ELSE IF i <= Len(s) THEN s[i] ELSE Hole]

\* Mutant: append mode is a seek to the end when the file is opened.
AppendPosition_SeekOnce(d) == fd[d].pos

AppendPosition(d) == IF Posix THEN Len(content[FileAt(d)]) ELSE fd[d].pos

(* write: the pieces x, at least one, reach the file of descriptor d.      *)
Writes(d, x) ==
  LET f == FileAt(d)
      p == IF fd[d].append THEN AppendPosition(d) ELSE fd[d].pos
      appends == fd[d].append /\ (Windows => p = Len(content[f]))
  IN  /\ p + Len(x) <= MaxLength
      /\ content' = [content EXCEPT ![f] = Overwritten(@, p, x)]
      /\ kept' = [kept EXCEPT ![f] = IF appends THEN @ \o x ELSE <<>>]
      /\ fd' = [fd EXCEPT ![d].pos = p + Len(x)]
      /\ UNCHANGED dir

(* What a read of up to n pieces may return: nothing at the end only.      *)
Readable(d, n) ==
  LET rest == SubSeq(content[FileAt(d)], fd[d].pos + 1, Len(content[FileAt(d)]))
  IN  IF rest = <<>> THEN {<<>>} ELSE {SubSeq(rest, 1, k) : k \in 1 .. Min({n, Len(rest)})}

-----------------------------------------------------------------------------
(* ten_file_open, _read, _write, _seek and _close                          *)

Open(u, path, m) ==
  /\ at[u] = "idle" /\ handle[u] = None /\ Closed # {}
  /\ \E f \in Files : Names(path, m, f) /\ Gets(NewFd, f, m)
  /\ handle' = [handle EXCEPT ![u] = NewFd]
  /\ UNCHANGED copies

\* Mutant: the descriptor is not closed again.
OpenOutOfMemory_KeepsFd(u, path, m) ==
  /\ at[u] = "idle" /\ handle[u] = None /\ Closed # {}
  /\ \E f \in Files : Names(path, m, f) /\ Gets(NewFd, f, m)
  /\ UNCHANGED <<handle, copies>>

(* No memory for the ten_file_t: the descriptor is closed again; what open *)
(* has done to the file stays.  ten_file_copy may stop like this at its    *)
(* source.                                                                 *)
OpenOutOfMemory(u, path, m) ==
  /\ at[u] = "idle" /\ handle[u] = None /\ Closed # {}
  /\ \E f \in Files : Names(path, m, f)
  /\ UNCHANGED <<fd, handle, copies>>

Read(u) ==
  /\ at[u] = "idle" /\ handle[u] # None /\ fd[handle[u]].read
  /\ \E x \in Readable(handle[u], 1) : fd' = [fd EXCEPT ![handle[u]].pos = @ + Len(x)]
  /\ UNCHANGED <<disk, handle, copies>>

Write(u) ==
  /\ at[u] = "idle" /\ handle[u] # None /\ fd[handle[u]].write
  /\ \E x \in Data : Writes(handle[u], <<x>>)
  /\ UNCHANGED <<handle, copies>>

(* lseek, which refuses to go below 0.                                     *)
Seek(u, p) ==
  /\ at[u] = "idle" /\ handle[u] # None
  /\ fd' = [fd EXCEPT ![handle[u]].pos = p]
  /\ UNCHANGED <<disk, handle, copies>>

Close(u) ==
  /\ at[u] = "idle" /\ handle[u] # None
  /\ fd' = [fd EXCEPT ![handle[u]] = None]
  /\ handle' = [handle EXCEPT ![u] = None]
  /\ UNCHANGED <<disk, copies>>

(* ten_file_delete                                                         *)
Delete(u, path) ==
  /\ at[u] = "idle" /\ dir[path] # None /\ NotHeld(path)
  /\ dir' = [dir EXCEPT ![path] = None]
  /\ UNCHANGED <<content, kept, fd, handle, copies>>

(* ten_file_move: rename does nothing when both paths name one file;       *)
(* MoveFileEx may or may not.                                              *)
Move(u, from, to) ==
  /\ at[u] = "idle" /\ dir[from] # None
  /\ IF Posix THEN dir[from] # dir[to] ELSE from # to
  /\ NotHeld(from) /\ NotHeld(to)
  /\ dir' = [dir EXCEPT ![to] = dir[from], ![from] = None]
  /\ UNCHANGED <<content, kept, fd, handle, copies>>

(* ten_file_copy on Windows is CopyFileA, which opens both files and finds *)
(* one that is both already open.                                          *)
CopyFile(u, from, to) ==
  /\ Windows
  /\ at[u] = "idle" /\ dir[from] # None /\ dir[from] # dir[to] /\ NotHeld(to)
  /\ \E f \in Files :
       /\ dir[to] = f \/ (dir[to] = None /\ f \in Unused)
       /\ dir' = [dir EXCEPT ![to] = f]
       /\ content' = [content EXCEPT ![f] = content[dir[from]]]
       /\ kept' = [kept EXCEPT ![f] = <<>>]
  /\ UNCHANGED <<fd, handle, copies>>

(* A call that fails and has done nothing.                                 *)
Refused(u) ==
  /\ at[u] = "idle"
  /\ UNCHANGED <<disk, fd, handle, copies>>

-----------------------------------------------------------------------------
(* ten_file_copy on POSIX                                                  *)

CopySource(u, from, to) ==
  /\ Posix
  /\ at[u] = "idle" /\ Closed # {}
  /\ \E f \in Files :
       /\ Names(from, "r", f) /\ Gets(NewFd, f, "r")
       /\ source' = [source EXCEPT ![u] = content[f]]
  /\ src' = [src EXCEPT ![u] = NewFd]
  /\ target' = [target EXCEPT ![u] = to]
  /\ at' = [at EXCEPT ![u] = "open"]
  /\ UNCHANGED <<handle, dst, buf>>

CopyDestination(u) ==
  /\ at[u] = "open" /\ Closed # {}
  /\ \E f \in Files : Names(target[u], "w", f) /\ Gets(NewFd, f, "w")
  /\ dst' = [dst EXCEPT ![u] = NewFd]
  /\ at' = [at EXCEPT ![u] = "read"]
  /\ UNCHANGED <<handle, src, target, buf, source>>

(* The call returns, its descriptors F are closed.                         *)
CopyReturns(u, F) ==
  /\ fd' = [d \in Fds |-> IF d \in F THEN None ELSE fd[d]]
  /\ at' = [at EXCEPT ![u] = "idle"]
  /\ src' = [src EXCEPT ![u] = None] /\ dst' = [dst EXCEPT ![u] = None]
  /\ target' = [target EXCEPT ![u] = None]
  /\ buf' = [buf EXCEPT ![u] = <<>>]
  /\ source' = [source EXCEPT ![u] = <<>>]
  /\ UNCHANGED handle

(* The destination is not opened, or it is and there is no memory for the  *)
(* ten_file_t.                                                             *)
CopyDestinationFails(u) ==
  /\ at[u] = "open"
  /\ UNCHANGED disk \/ \E f \in Files : Names(target[u], "w", f)
  /\ CopyReturns(u, {src[u]})

CopyRead(u) ==
  /\ at[u] = "read"
  /\ \E x \in Readable(src[u], BufferSize) \ {<<>>} :
       /\ buf' = [buf EXCEPT ![u] = x]
       /\ fd' = [fd EXCEPT ![src[u]].pos = @ + Len(x)]
  /\ at' = [at EXCEPT ![u] = "write"]
  /\ UNCHANGED <<disk, handle, src, dst, target, source>>

(* Fewer pieces than there are in the buffer, or none, are written.        *)
CopyWriteFails(u) ==
  /\ at[u] = "write"
  /\ \/ UNCHANGED disk
     \/ \E k \in 1 .. Len(buf[u]) - 1 :
          LET f == FileAt(dst[u])
          IN  /\ content' = [content EXCEPT ![f] = Overwritten(@, fd[dst[u]].pos, SubSeq(buf[u], 1, k))]
              /\ kept' = [kept EXCEPT ![f] = <<>>]
              /\ UNCHANGED dir
  /\ CopyReturns(u, {src[u], dst[u]})

\* Mutant: what write returns is not looked at.
CopyWrite_Unchecked(u) ==
  /\ at[u] = "write"
  /\ UNCHANGED <<disk, fd>> \/ Writes(dst[u], buf[u])
  /\ buf' = [buf EXCEPT ![u] = <<>>]
  /\ at' = [at EXCEPT ![u] = "read"]
  /\ UNCHANGED <<handle, src, dst, target, source>>

CopyWrite(u) ==
  /\ at[u] = "write"
  /\ Writes(dst[u], buf[u])
  /\ buf' = [buf EXCEPT ![u] = <<>>]
  /\ at' = [at EXCEPT ![u] = "read"]
  /\ UNCHANGED <<handle, src, dst, target, source>>

CopyReadFails(u) ==
  /\ at[u] = "read"
  /\ CopyReturns(u, {src[u], dst[u]})
  /\ UNCHANGED disk

(* A read of nothing, without an error, is the end: TEN_OK.                *)
CopyDone(u) ==
  /\ at[u] = "read"
  /\ <<>> \in Readable(src[u], BufferSize)
  /\ CopyReturns(u, {src[u], dst[u]})
  /\ UNCHANGED disk

-----------------------------------------------------------------------------

\* This step changes a file user u is copying from or to.
Touched(u) ==
  \E d \in {src[u], dst[u]} \ {None} : content'[FileAt(d)] # content[FileAt(d)]

Observed(actor) ==
  quiet' = [u \in Users |-> \/ at'[u] = "idle" \/ at[u] = "idle"
                            \/ quiet[u] /\ (u = actor \/ ~Touched(u))]

Step(u) ==
  \/ \E x \in Paths :
       \/ u \in Openers /\ \E m \in OpenModes : Open(u, x, m) \/ OpenOutOfMemory(u, x, m)
       \/ Delete(u, x)
       \/ \E y \in Paths : Move(u, x, y) \/ (u \in Copiers /\ (CopySource(u, x, y) \/ CopyFile(u, x, y)))
  \/ Read(u) \/ Write(u) \/ Close(u) \/ Refused(u)
  \/ \E p \in 0 .. MaxLength : Seek(u, p)
  \/ CopyDestination(u) \/ CopyDestinationFails(u) \/ CopyRead(u) \/ CopyReadFails(u)
  \/ CopyWrite(u) \/ CopyWriteFails(u) \/ CopyDone(u)

Next == \E u \in Users : Step(u) /\ Observed(u) /\ UNCHANGED platform

Spec == Init /\ [][Next]_vars

-----------------------------------------------------------------------------
(* Properties                                                              *)

Pieces == Data \cup {Old, Hole}

(* The variables keep their ranges.                                        *)
TypeOK ==
  /\ platform \in Platforms /\ dir \in [Paths -> Files \cup {None}]
  /\ content \in [Files -> Seq(Pieces)] /\ kept \in [Files -> Seq(Pieces)]
  /\ fd \in [Fds -> {None} \cup Descriptors]
  /\ {handle, src, dst} \subseteq [Users -> Fds \cup {None}]
  /\ at \in [Users -> CopyPoints]
  /\ target \in [Users -> Paths \cup {None}]
  /\ buf \in [Users -> Seq(Pieces)] /\ source \in [Users -> Seq(Pieces)]
  /\ quiet \in [Users -> BOOLEAN]

(* Every open descriptor is in the hands of one ten_file, or of one copy   *)
(* under way: no way out of ten_file_open or ten_file_copy leaks one.      *)
NoDescriptorLeak ==
  \A d \in Fds \ Closed :
    Cardinality({u \in Users : handle[u] = d}) + Cardinality({u \in Users : src[u] = d})
      + Cardinality({u \in Users : dst[u] = d}) = 1

(* A file opened with "a" or "a+" (file.h:21-23): what was appended stays  *)
(* at the end of the file until something else truncates or overwrites it, *)
(* on POSIX by whichever handle and wherever its position is, on Windows   *)
(* by a handle that has not moved from the end since it was opened, which  *)
(* nobody else can write beside.                                           *)
AppendsSurvive == \A f \in Files : IsSuffix(kept[f], content[f])

Copied(u) == content[FileAt(dst[u])] = source[u]

(* A copy of one file to another that answers TEN_OK has made the          *)
(* destination what the source was, and the source is still that, unless   *)
(* somebody else changed either meanwhile.                                 *)
CopyIsFaithful ==
  [][\A u \in Users :
       CopyDone(u) /\ quiet[u] /\ FileAt(src[u]) # FileAt(dst[u])
       => Copied(u) /\ content[FileAt(src[u])] = source[u]]_vars
=============================================================================
