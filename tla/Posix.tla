-------------------------------- MODULE Posix --------------------------------
(****************************************************************************)
(* The C library's descriptors over the file servers                        *)
(* (lib/racccoon-libc/src/rc_posix.c, rc_fs.c).  A descriptor is an entry   *)
(* {kind, offset, path} of a table in the process; every call is a series   *)
(* of requests to the file server, which serves one request at a time, so   *)
(* a step of this module is one request with the local code around it.      *)
(* Between two requests of a call other processes run, the server may die   *)
(* and come back (the supervisor restarts it), and the caller may be        *)
(* killed.                                                                  *)
(****************************************************************************)
EXTENDS Integers, Sequences, SequencesExt, FiniteSets

CONSTANTS
  Proc,        \* processes that use the library
  Path,        \* normalised absolute paths
  Node,        \* files of the servers: what a path resolves to
  Lookup,      \* path -> node of union member 0
  Create,      \* path -> node of the union's create member
  TmpPath,     \* paths that a template of mkstemp or mkdtemp may become
  Flags,       \* the sets of flags that programs open files with
  Counts,      \* lengths that programs read, write and truncate to
  Program,     \* Program[p]: the functions that p calls
  InitFile,    \* what the servers hold at the start
  FdMax,       \* FD_MAX
  NStd,        \* descriptors of the console (0, 1 and 2 in the code)
  Chunk,       \* RC_FS_WRITE_AT_MAXCHUNK, and the size of `zeros`
  ReadMax,     \* most bytes in one reply to FS_READ_AT
  PageMax,     \* RC_FS_LIST_PAGE_MAX
  DirListMax,  \* DIR_LIST_MAX
  Tries,       \* attempts of mkstemp and mkdtemp (100 in the code)
  Disk,        \* bytes a file can have before the disk is full
  MaxCalls,    \* calls that each process makes
  MaxFaults,   \* deaths of the file server
  Mortal       \* processes that may be killed

ASSUME ConstantsOK ==
  /\ Lookup \in [Path -> Node] /\ Create \in [Path -> Node] /\ TmpPath \subseteq Path
  /\ {FdMax, NStd, Chunk, ReadMax, PageMax, DirListMax, Tries, Disk} \subseteq Nat \ {0}
  /\ IsFiniteSet(Node) /\ InitFile \in [Node -> [kind : {"none", "file", "dir"}, data : Seq(Nat)]]
  /\ \A n \in Node : Len(InitFile[n].data) <= Disk /\ (InitFile[n].kind # "file" => InitFile[n].data = <<>>)
  /\ Counts \subseteq Nat /\ NStd < FdMax /\ MaxCalls \in [Proc -> Nat] /\ MaxFaults \in Nat /\ Mortal \subseteq Proc

VARIABLES
  file,    \* file[n]: kind and data of node n, on its server
  dir,     \* the order in which FS_LIST enumerates the nodes
  up,      \* the file server answers
  fdtab,   \* fdtab[p]: descriptor table of process p
  call,    \* call[p]: the library call p is in, or the result of its last one
  calls,   \* calls[p]: calls that p has begun
  faults,  \* deaths of the server so far
  alone,   \* alone[p]: nobody disturbed the call p is in           (history)
  before,  \* before[p]: files and table when that call began       (history)
  made,    \* nodes that were made and nobody asked to remove       (history)
  cut      \* nodes whose truncation was cut short                  (history)

vars == <<file, dir, up, fdtab, call, calls, faults, alone, before, made, cut>>

Fd == 0 .. FdMax - 1
Missing == [kind |-> "none", data |-> <<>>]
FileOf(d) == [kind |-> "file", data |-> d]
FreeFd == [kind |-> "free", off |-> 0, path |-> ""]
Console == [kind |-> "console", off |-> 0, path |-> ""]
\* fd_init: the console descriptors and nothing else.
NewTable == [i \in Fd |-> IF i < NStd THEN Console ELSE FreeFd]
Existing(f) == {n \in Node : f[n].kind # "none"}
Smaller(a, b) == IF a < b THEN a ELSE b
\* Byte i of the buffer that a program writes is i.
Buffer(from, n) == [i \in 1 .. n |-> from + i]
\* The first n elements of s after `off`, or those there are.
Slice(s, off, n) == SubSeq(s, off + 1, Smaller(off + n, Len(s)))
Zeros(n) == [i \in 1 .. n |-> 0]

Val(v) == [val |-> v]
Err(e) == [err |-> e]
Bytes(d) == [bytes |-> d]
Entries(d) == [entries |-> d]
Done(r) == [fn |-> "none", ret |-> r]
Idle(p) == call[p].fn = "none"
At(p, pc) == ~Idle(p) /\ call[p].pc = pc
Goes(p, c) == call' = [call EXCEPT ![p] = c]
Return(p, r) == Goes(p, Done(r))

Init ==
  /\ file = InitFile
  /\ dir = SetToSeq(Existing(InitFile))
  /\ up = TRUE
  /\ fdtab = [p \in Proc |-> NewTable]
  /\ call = [p \in Proc |-> Done(Val(0))]
  /\ calls = [p \in Proc |-> 0]
  /\ faults = 0
  /\ alone = [p \in Proc |-> TRUE]
  /\ before = [p \in Proc |-> [file |-> InitFile, tab |-> NewTable]]
  /\ made = Existing(InitFile)
  /\ cut = {}
-----------------------------------------------------------------------------
(* The server's verbs, and what a request finds when no server answers: the *)
(* library takes a failed FS_STAT for a missing file.                       *)

Size(n) == Len(file[n].data)
StatKind(n) == IF up THEN file[n].kind ELSE "none"

\* FS_WRITE_AT refuses a hole and a directory, creates a missing file, and
\* stores fewer bytes than asked when the disk is full.
WriteAtFails(n, off) == ~up \/ file[n].kind = "dir" \/ off > Size(n)
Written(off, d) == Smaller(Len(d), IF off < Disk THEN Disk - off ELSE 0)
Splice(old, off, d) ==
  SubSeq(old, 1, off) \o d \o SubSeq(old, off + Len(d) + 1, Len(old))
WriteAt(n, off, d) ==
  file' = [file EXCEPT ![n] = FileOf(Splice(@.data, off, SubSeq(d, 1, Written(off, d))))]

\* FS_READ_AT: at most one message of bytes, none at the end of the file.
ReadAtFails(n) == ~up \/ file[n].kind # "file"
BytesAt(n, off, len) == Slice(file[n].data, off, Smaller(len, ReadMax))

\* FS_DELETE, of a file or an (empty) directory.
Delete(n) == file' = IF up THEN [file EXCEPT ![n] = Missing] ELSE file
-----------------------------------------------------------------------------
(* Calls.  A call on a descriptor that is not open returns EBADF and changes *)
(* nothing; the guards leave it out.                                         *)

FreeFds(t) == {i \in NStd .. FdMax - 1 : t[i].kind = "free"}
\* fd_alloc: the lowest free descriptor that is not a console one.
FdAlloc(t) == IF FreeFds(t) = {} THEN -1
              ELSE CHOOSE i \in FreeFds(t) : \A j \in FreeFds(t) : i <= j
IsFile(p, fd) == fdtab[p][fd].kind = "file"

Begin(p, c) ==
  /\ Idle(p)
  /\ calls[p] < MaxCalls[p]
  /\ Goes(p, c)
  /\ UNCHANGED <<file, fdtab>>

\* A call that is over after its only request: r is its result.
Single(p, r) ==
  /\ Idle(p)
  /\ calls[p] < MaxCalls[p]
  /\ Return(p, r)
-----------------------------------------------------------------------------
(* open, and mkstemp, mkdtemp and truncate, which go through it or mkdir.    *)

\* The end of open(): the descriptor is taken last, so a full table is found
\* out after the file was created or truncated.
OpenDone(p, c, size) ==
  LET fd == FdAlloc(fdtab[p]) IN
  IF fd < 0 THEN Return(p, Err("EMFILE")) /\ UNCHANGED fdtab
  ELSE /\ fdtab' = [fdtab EXCEPT ![p][fd] =
                      [kind |-> "file", path |-> c.path,
                       off |-> IF "append" \in c.flags THEN size ELSE 0]]
       /\ IF c.fn = "truncate"
          THEN Goes(p, [fn |-> "truncate", pc |-> "tstat", path |-> c.path, fd |-> fd, want |-> c.want])
          ELSE Return(p, Val(fd))

\* Mutant of Taken: the number of attempts is not bounded.
TakenForever(p, c) ==
  IF c.fn \in {"mkstemp", "mkdtemp"}
  THEN Goes(p, [fn |-> c.fn, pc |-> "pick", tries |-> Smaller(c.tries, Tries - 1)]) ELSE Return(p, Err("EEXIST"))

\* open() or mkdir() found the name taken: mkstemp and mkdtemp try another.
Taken(p, c) ==
  IF c.fn \in {"mkstemp", "mkdtemp"} /\ c.tries < Tries
  THEN Goes(p, [fn |-> c.fn, pc |-> "pick", tries |-> c.tries]) ELSE Return(p, Err("EEXIST"))

Open(p, path, flags) ==
  Begin(p, [fn |-> "open", pc |-> "stat", path |-> path, flags |-> flags])

Truncate(p, path, want) ==
  Begin(p, [fn |-> "truncate", pc |-> "stat", path |-> path, flags |-> {"write"}, want |-> want])

Mktemp(p, fn) == Begin(p, [fn |-> fn, pc |-> "pick", tries |-> 0])

\* rc_fill_template: a name out of the clock, the pid and a counter.
PickName(p) ==
  /\ At(p, "pick")
  /\ LET c == call[p] IN \E path \in TmpPath :
       Goes(p, [fn |-> c.fn, pc |-> IF c.fn = "mkstemp" THEN "stat" ELSE "mstat", tries |-> c.tries + 1,
                path |-> path, flags |-> {"create", "excl", "write"}])
  /\ UNCHANGED <<file, fdtab>>

OpenStat(p) ==
  /\ At(p, "stat")
  /\ LET c == call[p]
         kind == StatKind(Lookup[c.path])
         notdir == "directory" \in c.flags /\ kind # "dir"
         excl == {"create", "excl"} \subseteq c.flags
         trunc == {"trunc", "write"} \subseteq c.flags
     IN \/ notdir /\ Return(p, Err("ENOTDIR")) /\ UNCHANGED fdtab
        \/ /\ ~notdir /\ kind = "none"
           /\ IF "create" \in c.flags THEN Goes(p, [c EXCEPT !.pc = "create"]) ELSE Return(p, Err("ENOENT"))
           /\ UNCHANGED fdtab
        \/ ~notdir /\ kind # "none" /\ excl /\ Taken(p, c) /\ UNCHANGED fdtab
        \/ ~notdir /\ kind # "none" /\ ~excl /\ trunc /\ Goes(p, [c EXCEPT !.pc = "delete"]) /\ UNCHANGED fdtab
        \/ ~notdir /\ kind # "none" /\ ~excl /\ ~trunc /\ OpenDone(p, c, Size(Lookup[c.path]))
  /\ UNCHANGED file

\* O_TRUNC is a delete, whose result is not looked at, and a create.
OpenDelete(p) ==
  /\ At(p, "delete")
  /\ Delete(Lookup[call[p].path])
  /\ Goes(p, [call[p] EXCEPT !.pc = "create"])
  /\ UNCHANGED fdtab

\* Mutant of OpenCreate: the table is looked at before the file is made again.
OpenCreateLate(p) ==
  /\ At(p, "create")
  /\ LET c == call[p]
         n == Create[c.path]
     IN IF FdAlloc(fdtab[p]) < 0 THEN Return(p, Err("EMFILE")) /\ UNCHANGED <<file, fdtab>>
        ELSE IF WriteAtFails(n, 0) THEN Return(p, Err("EIO")) /\ UNCHANGED <<file, fdtab>>
        ELSE WriteAt(n, 0, <<>>) /\ OpenDone(p, c, 0)

OpenCreate(p) ==
  /\ At(p, "create")
  /\ LET c == call[p]
         n == Create[c.path]
     IN IF WriteAtFails(n, 0) THEN Return(p, Err("EIO")) /\ UNCHANGED <<file, fdtab>>
        ELSE WriteAt(n, 0, <<>>) /\ OpenDone(p, c, 0)
-----------------------------------------------------------------------------
(* read and write, pread and pwrite.                                         *)

\* pread and pwrite (at >= 0) lend the descriptor their offset and take it back.
Transfer(p, fn, fd, count, at) ==
  /\ IsFile(p, fd)
  /\ Idle(p) /\ calls[p] < MaxCalls[p]
  /\ Goes(p, [fn |-> fn, pc |-> fn, fd |-> fd, count |-> count, done |-> 0, buf |-> <<>>,
              at |-> at, save |-> fdtab[p][fd].off])
  /\ fdtab' = [fdtab EXCEPT ![p][fd].off = IF at < 0 THEN @ ELSE at]
  /\ UNCHANGED file

\* Mutant of TransferDone: pread and pwrite keep their own offset.
TransferDoneMoved(p, c, off, r) ==
  /\ Return(p, r)
  /\ fdtab' = [fdtab EXCEPT ![p][c.fd].off = off]

\* The end of a transfer that leaves the descriptor at `off`.
TransferDone(p, c, off, r) ==
  /\ Return(p, r)
  /\ fdtab' = [fdtab EXCEPT ![p][c.fd].off = IF c.at < 0 THEN off ELSE c.save]

\* The transfer failed: an error only if no byte was transferred before.
TransferFails(p, c, r) ==
  TransferDone(p, c, fdtab[p][c.fd].off, IF c.done > 0 THEN r ELSE Err("EIO"))

ReadStep(p) ==
  /\ At(p, "read")
  /\ LET c == call[p]
         e == fdtab[p][c.fd]
         n == Lookup[e.path]
         got == BytesAt(n, e.off, c.count - c.done)
         more == [c EXCEPT !.done = @ + Len(got), !.buf = @ \o got]
     IN \/ ReadAtFails(n) /\ TransferFails(p, c, Bytes(c.buf))
        \/ /\ ~ReadAtFails(n)
           /\ IF got = <<>> \/ more.done = c.count
              THEN TransferDone(p, c, e.off + Len(got), Bytes(more.buf))
              ELSE /\ Goes(p, more)
                   /\ fdtab' = [fdtab EXCEPT ![p][c.fd].off = @ + Len(got)]
  /\ UNCHANGED file

WriteStep(p) ==
  /\ At(p, "write")
  /\ LET c == call[p]
         e == fdtab[p][c.fd]
         n == Create[e.path]
         d == Buffer(c.done, Smaller(c.count - c.done, Chunk))
         w == Written(e.off, d)
     IN \/ WriteAtFails(n, e.off) /\ TransferFails(p, c, Val(c.done)) /\ UNCHANGED file
        \/ /\ ~WriteAtFails(n, e.off)
           /\ WriteAt(n, e.off, d)
           /\ IF w < Len(d) \/ c.done + w = c.count
              THEN TransferDone(p, c, e.off + w, Val(c.done + w))
              ELSE /\ Goes(p, [c EXCEPT !.done = @ + w])
                   /\ fdtab' = [fdtab EXCEPT ![p][c.fd].off = @ + w]
-----------------------------------------------------------------------------
(* ftruncate: there is no such verb, so it writes zeros, or reads what is to *)
(* stay, deletes the file and writes it back in one request.                 *)

Ftruncate(p, fd, want) ==
  /\ IsFile(p, fd)
  /\ Begin(p, [fn |-> "ftruncate", pc |-> "tstat", path |-> fdtab[p][fd].path, fd |-> fd, want |-> want])

\* The end of ftruncate(); truncate() then closes its descriptor.
TruncDone(p, c, r) ==
  /\ Return(p, r)
  /\ fdtab' = IF c.fn = "truncate" THEN [fdtab EXCEPT ![p][c.fd] = FreeFd] ELSE fdtab

TruncStat(p) ==
  /\ At(p, "tstat")
  /\ LET c == call[p]
         n == Lookup[c.path]
         Into(pc) == /\ Goes(p, [fn |-> c.fn, pc |-> pc, path |-> c.path, fd |-> c.fd, want |-> c.want,
                                 size |-> Size(n), keep |-> <<>>])
                     /\ UNCHANGED fdtab
     IN \/ StatKind(n) = "none" /\ TruncDone(p, c, Err("EIO"))
        \/ StatKind(n) # "none" /\ c.want = Size(n) /\ TruncDone(p, c, Val(0))
        \/ StatKind(n) # "none" /\ c.want > Size(n) /\ Into("grow")
        \/ StatKind(n) # "none" /\ c.want < Size(n) /\ Into(IF c.want = 0 THEN "tdelete" ELSE "keep")
  /\ UNCHANGED file

TruncGrow(p) ==
  /\ At(p, "grow")
  /\ LET c == call[p]
         n == Create[c.path]
         d == Zeros(Smaller(c.want - c.size, Chunk))
     IN \/ WriteAtFails(n, c.size) /\ TruncDone(p, c, Err("EIO")) /\ UNCHANGED file
        \/ /\ ~WriteAtFails(n, c.size)
           /\ WriteAt(n, c.size, d)
           /\ IF Written(c.size, d) # Len(d) THEN TruncDone(p, c, Err("EIO"))
              ELSE IF c.size + Len(d) = c.want THEN TruncDone(p, c, Val(0))
              ELSE Goes(p, [c EXCEPT !.size = @ + Len(d)]) /\ UNCHANGED fdtab

TruncKeep(p) ==
  /\ At(p, "keep")
  /\ LET c == call[p]
         n == Lookup[c.path]
         got == BytesAt(n, Len(c.keep), c.want - Len(c.keep))
     IN IF ReadAtFails(n) \/ got = <<>> THEN TruncDone(p, c, Err("EIO"))
        ELSE /\ Goes(p, [c EXCEPT !.keep = @ \o got,
                                  !.pc = IF Len(c.keep) + Len(got) = c.want THEN "tdelete" ELSE "keep"])
             /\ UNCHANGED fdtab
  /\ UNCHANGED file

TruncDelete(p) ==
  /\ At(p, "tdelete")
  /\ Delete(Lookup[call[p].path])
  /\ Goes(p, [call[p] EXCEPT !.pc = "twrite"])
  /\ UNCHANGED fdtab

\* One request carries at most Chunk bytes of what was to stay.
TruncWrite(p) ==
  /\ At(p, "twrite")
  /\ LET c == call[p]
         n == Create[c.path]
         d == SubSeq(c.keep, 1, Smaller(c.want, Chunk))
     IN IF WriteAtFails(n, 0) THEN TruncDone(p, c, Err("EIO")) /\ UNCHANGED file
        ELSE WriteAt(n, 0, d) /\ TruncDone(p, c, IF Written(0, d) = c.want THEN Val(0) ELSE Err("EIO"))
-----------------------------------------------------------------------------
(* mkdir, and mkdtemp through it; opendir of the root.                       *)

Mkdir(p, path) == Begin(p, [fn |-> "mkdir", pc |-> "mstat", path |-> path])

MkdirStat(p) ==
  /\ At(p, "mstat")
  /\ LET c == call[p] IN
     IF StatKind(Lookup[c.path]) # "none" THEN Taken(p, c) ELSE Goes(p, [c EXCEPT !.pc = "mkdir"])
  /\ UNCHANGED <<file, fdtab>>

\* FS_MKDIR refuses a name that exists.
MkdirMake(p) ==
  /\ At(p, "mkdir")
  /\ LET n == Create[call[p].path]
     IN IF up /\ file[n].kind = "none"
        THEN file' = [file EXCEPT ![n] = [kind |-> "dir", data |-> <<>>]] /\ Return(p, Val(0))
        ELSE Return(p, Err("EIO")) /\ UNCHANGED file
  /\ UNCHANGED fdtab

Opendir(p) == Begin(p, [fn |-> "opendir", pc |-> "dstat", ents |-> <<>>])

\* opendir asks first whether there is such a directory.
DirStat(p) ==
  /\ At(p, "dstat")
  /\ IF up THEN Goes(p, [call[p] EXCEPT !.pc = "list"]) ELSE Return(p, Err("ENOENT"))
  /\ UNCHANGED <<file, fdtab>>

\* A page of the listing, from the number of entries already there, as far as
\* the caller has room.
ListPage(p) ==
  /\ At(p, "list")
  /\ LET c == call[p]
         page == Slice(dir, Len(c.ents), PageMax)
         ents == Slice(c.ents \o page, 0, DirListMax)
         over == Len(page) < PageMax \/ Len(ents) >= DirListMax
     IN \/ ~up /\ Return(p, IF c.ents = <<>> THEN Err("EIO") ELSE Entries(c.ents))
        \/ up /\ over /\ Return(p, Entries(ents))
        \/ up /\ ~over /\ Goes(p, [c EXCEPT !.ents = ents])
  /\ UNCHANGED <<file, fdtab>>
-----------------------------------------------------------------------------
(* Calls of one request, or of none.                                         *)

\* unlink and rmdir: the same verb.
Unlink(p, path) ==
  /\ Single(p, IF StatKind(Lookup[path]) = "none" THEN Err("ENOENT") ELSE Val(0))
  /\ Delete(Lookup[path])
  /\ made' = made \ {Lookup[path]}
  /\ UNCHANGED fdtab

\* FS_RENAME does not overwrite.  (All nodes are on one server.)
Rename(p, old, new) ==
  LET o == Lookup[old]
      n == Create[new]
      fails == ~up \/ file[o].kind = "none" \/ file[n].kind # "none"
  IN /\ Single(p, IF fails THEN Err("EIO") ELSE Val(0))
     /\ file' = IF fails THEN file ELSE [file EXCEPT ![n] = file[o], ![o] = Missing]
     /\ made' = IF fails THEN made ELSE (made \ {o}) \cup {n}
     /\ UNCHANGED fdtab

\* lseek: relative to the start, to the descriptor's offset or to the size.
Lseek(p, fd, offset, whence) ==
  LET e == fdtab[p][fd]
      n == Lookup[e.path]
      base == CASE whence = "set" -> 0 [] whence = "cur" -> e.off [] whence = "end" -> Size(n)
      fails == (whence = "end" /\ StatKind(n) = "none") \/ base + offset < 0
  IN /\ IsFile(p, fd)
     /\ Single(p, IF fails THEN Err("EINVAL") ELSE Val(base + offset))
     /\ fdtab' = IF fails THEN fdtab ELSE [fdtab EXCEPT ![p][fd].off = base + offset]
     /\ UNCHANGED file

\* dup and F_DUPFD copy the entry, its offset too.
Dup(p, fd) ==
  LET nf == FdAlloc(fdtab[p])
  IN /\ fdtab[p][fd].kind # "free"
     /\ Single(p, IF nf < 0 THEN Err("EMFILE") ELSE Val(nf))
     /\ fdtab' = IF nf < 0 THEN fdtab ELSE [fdtab EXCEPT ![p][nf] = fdtab[p][fd]]
     /\ UNCHANGED file

Dup2(p, oldfd, newfd) ==
  /\ fdtab[p][oldfd].kind # "free"
  /\ Single(p, Val(newfd))
  /\ fdtab' = [fdtab EXCEPT ![p][newfd] = fdtab[p][oldfd]]
  /\ UNCHANGED file

\* close: the console descriptors stay open, whatever dup2 put there.
Close(p, fd) ==
  /\ fdtab[p][fd].kind # "free"
  /\ Single(p, Val(0))
  /\ fdtab' = IF fd < NStd THEN fdtab ELSE [fdtab EXCEPT ![p][fd] = FreeFd]
  /\ UNCHANGED file
-----------------------------------------------------------------------------
(* Faults, and the steps of the whole.                                       *)

\* p is killed inside a call; a new process with a new table takes its place.
Killed(p) ==
  /\ p \in Mortal
  /\ ~Idle(p)
  /\ Return(p, Err("killed"))
  /\ fdtab' = [fdtab EXCEPT ![p] = NewTable]
  /\ UNCHANGED file

\* A request removes one entry at most, and the others keep their order; a new
\* entry takes any place in its directory.
DirFollows ==
  LET gone == {i \in DOMAIN dir : dir[i] \notin Existing(file')}
      kept == IF gone = {} THEN dir ELSE RemoveAt(dir, CHOOSE i \in gone : TRUE)
      new == Existing(file') \ ToSet(dir)
  IN IF new = {} THEN dir' = kept
     ELSE \E i \in 1 .. Len(kept) + 1 : dir' = InsertAt(kept, i, CHOOSE n \in new : TRUE)

\* A truncation by p has deleted the file and not written it back.
InWindow(p) == ~Idle(p) /\ call[p].pc \in {"create", "twrite"}

\* The history of a step of p.
Record(p) ==
  /\ calls' = [calls EXCEPT ![p] = IF Idle(p) THEN @ + 1 ELSE @]
  /\ alone' = [q \in Proc |-> IF q = p THEN (Idle(p) \/ alone[p]) /\ up
                              ELSE alone[q] /\ (Idle(q) \/ file' = file)]
  /\ before' = [before EXCEPT ![p] = IF call'[p].fn = "none" THEN [file |-> InitFile, tab |-> NewTable]
                                     ELSE IF Idle(p) THEN [file |-> file, tab |-> fdtab[p]] ELSE @]
  /\ cut' = (IF InWindow(p) /\ call'[p].fn = "none" /\ call'[p].ret \in {Err("EIO"), Err("killed")}
             THEN cut \cup {Lookup[call[p].path]} ELSE cut) \ Existing(file')
  /\ DirFollows
  /\ UNCHANGED <<up, faults>>

ServerDies ==
  /\ up /\ faults < MaxFaults
  /\ up' = FALSE
  /\ faults' = faults + 1
  /\ UNCHANGED <<file, dir, fdtab, call, calls, alone, before, made, cut>>

ServerReturns ==
  /\ ~up
  /\ up' = TRUE
  /\ UNCHANGED <<file, dir, fdtab, call, calls, faults, alone, before, made, cut>>

\* The calls that a program may make, other than unlink and rename.
Calls(p) ==
  \/ "open" \in Program[p] /\ \E path \in Path, flags \in Flags : Open(p, path, flags)
  \/ "truncate" \in Program[p] /\ \E path \in Path, want \in Counts : Truncate(p, path, want)
  \/ \E fn \in {"mkstemp", "mkdtemp"} \cap Program[p] : Mktemp(p, fn)
  \/ "mkdir" \in Program[p] /\ \E path \in Path : Mkdir(p, path)
  \/ "opendir" \in Program[p] /\ Opendir(p)
  \/ \E fn \in {"read", "write"} \cap Program[p], fd \in Fd, count \in Counts \ {0}, at \in {-1, 1} :
        Transfer(p, fn, fd, count, at)
  \/ "ftruncate" \in Program[p] /\ \E fd \in Fd, want \in Counts : Ftruncate(p, fd, want)
  \/ "lseek" \in Program[p] /\ \E fd \in Fd, whence \in {"set", "cur", "end"}, offset \in {-1, 1} :
        Lseek(p, fd, offset, whence)
  \/ "dup" \in Program[p] /\ \E fd \in Fd : Dup(p, fd) \/ Close(p, fd) \/ \E new \in Fd : Dup2(p, fd, new)

Steps(p) ==
  \/ PickName(p) \/ OpenStat(p) \/ OpenDelete(p) \/ OpenCreate(p)
  \/ ReadStep(p) \/ WriteStep(p)
  \/ TruncStat(p) \/ TruncGrow(p) \/ TruncKeep(p) \/ TruncDelete(p) \/ TruncWrite(p)
  \/ MkdirStat(p) \/ MkdirMake(p) \/ DirStat(p) \/ ListPage(p)

Removals(p) ==
  /\ "unlink" \in Program[p]
  /\ \/ \E path \in Path : Unlink(p, path)
     \/ \E old, new \in Path : Rename(p, old, new)

Makes(p) == made' = made \cup Existing(file')

Next ==
  \/ \E p \in Proc : (Calls(p) \/ Steps(p) \/ Killed(p)) /\ Makes(p) /\ Record(p)
  \/ \E p \in Proc : Removals(p) /\ Record(p)
  \/ ServerDies \/ ServerReturns

Spec == Init /\ [][Next]_vars

-----------------------------------------------------------------------------
(* Properties.                                                               *)

TypeOK ==
  /\ \A n \in Node : /\ file[n].kind \in {"none", "file", "dir"}
                     /\ file[n].data \in Seq(Nat) /\ Len(file[n].data) <= Disk
                     /\ file[n].kind # "file" => file[n].data = <<>>
  /\ up \in BOOLEAN /\ faults \in 0 .. MaxFaults
  /\ \A p \in Proc : /\ calls[p] \in 0 .. MaxCalls[p]
                     /\ \A i \in Fd : /\ fdtab[p][i].kind \in {"free", "console", "file"}
                                      /\ fdtab[p][i].off \in Nat
                                      /\ fdtab[p][i].kind = "file" => fdtab[p][i].path \in Path
  /\ made \subseteq Node /\ cut \subseteq Node
  /\ ToSet(dir) = Existing(file) /\ Len(dir) = Cardinality(Existing(file))

\* What each call does when it is one step: f and t are the files and the
\* caller's table before it, f1 and t1 after it, r its result.
IsOpen(c, f, t, f1, t1, r) ==
  LET n == Lookup[c.path]
      kind == f[n].kind
      fd == FdAlloc(t)
      fresh == kind = "none" \/ {"trunc", "write"} \subseteq c.flags
      fails == (f1 = f /\ t1 = t)
  IN \/ r = Err("ENOTDIR") /\ "directory" \in c.flags /\ kind # "dir" /\ fails
     \/ r = Err("ENOENT") /\ kind = "none" /\ "create" \notin c.flags /\ fails
     \/ r = Err("EEXIST") /\ kind # "none" /\ {"create", "excl"} \subseteq c.flags /\ fails
     \/ /\ r \in {Val(fd), Err("EMFILE")} /\ (kind = "none" => "create" \in c.flags)
        /\ kind # "none" => ~({"create", "excl"} \subseteq c.flags)
        /\ f1 = IF fresh THEN [f EXCEPT ![n] = FileOf(<<>>)] ELSE f
        /\ r = Err("EMFILE") <=> fd = -1
        /\ t1 = IF fd = -1 THEN t
                ELSE [t EXCEPT ![fd] = [kind |-> "file", path |-> c.path,
                                        off |-> IF "append" \in c.flags THEN Len(f1[n].data) ELSE 0]]

\* A read returns the bytes at the offset, all that were asked for or all that
\* there are, and moves the descriptor behind them; pread moves nothing.
IsRead(c, f, t, f1, t1, r) ==
  LET off == IF c.at < 0 THEN t[c.fd].off ELSE c.at
      n == Lookup[t[c.fd].path]
      bytes == Slice(f[n].data, off, c.count)
  IN /\ f1 = f
     /\ IF f[n].kind = "file" THEN r = Bytes(bytes) /\ t1 = (IF c.at < 0 THEN [t EXCEPT ![c.fd].off = off + Len(bytes)] ELSE t)
        ELSE r = Err("EIO") /\ t1 = t

\* A write stores the caller's bytes at the offset, as many as the disk takes.
IsWrite(c, f, t, f1, t1, r) ==
  LET off == IF c.at < 0 THEN t[c.fd].off ELSE c.at
      n == Create[t[c.fd].path]
      w == Written(off, Zeros(c.count))
  IN IF f[n].kind = "dir" \/ off > Len(f[n].data) THEN r = Err("EIO") /\ f1 = f /\ t1 = t
     ELSE /\ r = Val(w)
          /\ f1 = [f EXCEPT ![n] = FileOf(Splice(@.data, off, Buffer(0, w)))]
          /\ t1 = IF c.at < 0 THEN [t EXCEPT ![c.fd].off = off + w] ELSE t

\* A truncation keeps the first bytes or adds zeros, and no offset moves.
IsTruncate(c, f, t, f1, t1, r) ==
  LET n == Lookup[c.path]
      old == f[n].data
  IN \/ /\ r = Val(0) /\ f[n].kind # "none"
        /\ f1[n].data = IF c.want <= Len(old) THEN SubSeq(old, 1, c.want) ELSE old \o Zeros(c.want - Len(old))
        /\ f1 = [f EXCEPT ![n].data = f1[n].data] /\ t1 = t
     \/ /\ r = Err("EIO") /\ f[n].kind = "file" /\ c.want > Disk
        /\ f1 = [f EXCEPT ![n].data = old \o Zeros(Disk - Len(old))] /\ t1 = t
     \/ r \in {Err("EIO"), Err("ENOENT"), Err("EMFILE")} /\ (f[n].kind # "file" \/ r = Err("EMFILE")) /\ f1 = f /\ t1 = t

\* mkstemp and mkdtemp make a name that was free, and fail if they found none.
IsMktemp(c, f, t, f1, t1, r) ==
  \/ r = Err("EEXIST") /\ (\E path \in TmpPath : f[Lookup[path]].kind # "none") /\ f1 = f /\ t1 = t
  \/ /\ r # Err("EEXIST") /\ f[Lookup[c.path]].kind = "none"
     /\ IF c.fn = "mkstemp" THEN IsOpen(c, f, t, f1, t1, r)
        ELSE r = Val(0) /\ t1 = t /\ f1 = [f EXCEPT ![Create[c.path]] = [kind |-> "dir", data |-> <<>>]]

IsMkdir(c, f, t, f1, t1, r) ==
  IF f[Lookup[c.path]].kind # "none" THEN r = Err("EEXIST") /\ f1 = f /\ t1 = t
  ELSE r = Val(0) /\ t1 = t /\ f1 = [f EXCEPT ![Lookup[c.path]] = [kind |-> "dir", data |-> <<>>]]

\* A listing names every entry once, or as many entries as it has room for.
IsListing(c, f, t, f1, t1, r) ==
  /\ f1 = f /\ t1 = t /\ ToSet(r.entries) \subseteq Existing(f)
  /\ Len(r.entries) = Cardinality(ToSet(r.entries))
  /\ Len(r.entries) = Smaller(Cardinality(Existing(f)), DirListMax)

\* Path of the file that the call is about; a union path reads one member and
\* writes another, and is left out.
PlainCall(c, t) ==
  LET Plain(path) == Lookup[path] = Create[path] IN
  CASE c.fn \in {"read", "write"} -> Plain(t[c.fd].path)
    [] c.fn = "opendir" -> TRUE
    [] OTHER -> c.pc # "pick" /\ Plain(c.path)
\* A truncation that keeps more than one message of bytes is TruncateKeeps's.
ShortKeep(c, f) == c.fn \in {"ftruncate", "truncate"} => c.want <= Chunk \/ c.want >= Len(f[Lookup[c.path]].data)

DoesCall(p) ==
  LET c == call[p]
      f == before[p].file
      t == before[p].tab
      Is(Op(_, _, _, _, _, _)) == Op(c, f, t, file', fdtab'[p], call'[p].ret)
  IN CASE c.fn = "open" -> Is(IsOpen)
       [] c.fn = "read" -> Is(IsRead)
       [] c.fn = "write" -> Is(IsWrite)
       [] c.fn \in {"ftruncate", "truncate"} -> Is(IsTruncate)
       [] c.fn \in {"mkstemp", "mkdtemp"} -> Is(IsMktemp)
       [] c.fn = "mkdir" -> Is(IsMkdir)
       [] c.fn = "opendir" -> Is(IsListing)

Returns(p) == ~Idle(p) /\ call'[p].fn = "none" /\ call'[p].ret # Err("killed")

\* The loops of requests behind a call add up to the call: whenever nobody
\* else changed a file and the server answered while the call ran, its result,
\* the files and the caller's table are those of the call done in one step,
\* across message, page and disk limits (rc_posix.c's open, read, write,
\* ftruncate, truncate, mkstemp, mkdtemp, mkdir, opendir).
CallIsAtomic ==
  [][\A p \in Proc : /\ Returns(p) /\ alone[p] /\ up
                     /\ PlainCall(call[p], before[p].tab) /\ ShortKeep(call[p], before[p].file)
                     => DoesCall(p)]_vars

\* rc_posix.c:454: "shrinking keeps the first `length` bytes by reading them,
\* recreating the file empty and writing them back".
TruncateKeeps ==
  [][\A p \in Proc : /\ Returns(p) /\ alone[p] /\ up
                     /\ call[p].fn = "ftruncate" /\ PlainCall(call[p], before[p].tab)
                     => DoesCall(p)]_vars

\* A file that was made and that nobody asked to remove is there, or a process
\* is between the delete and the write of a truncation of it, or such a
\* process was killed or refused there: two truncations at a time, or one and
\* any other call, never lose a file (rc_posix.c's open and ftruncate).  Not
\* claimed of the first member of a union, which the delete goes to and the
\* write does not.
FilesSurvive ==
  \A n \in made \ Existing(file) :
     \/ \E path \in Path : n = Lookup[path] /\ n # Create[path]
     \/ \E p \in Proc : InWindow(p) /\ Lookup[call[p].path] = n
     \/ n \in cut

\* Requests that a call can still make.
WorkLeft(c) ==
  CASE c.fn \in {"mkstemp", "mkdtemp"} ->
         4 * (Tries - c.tries) + (CASE c.pc = "pick" -> 0 [] c.pc \in {"stat", "mstat"} -> 3 [] OTHER -> 2)
    [] c.fn \in {"open", "mkdir"} -> CASE c.pc \in {"stat", "mstat"} -> 3 [] c.pc = "delete" -> 2 [] OTHER -> 1
    [] c.fn \in {"read", "write"} -> c.count - c.done
    [] c.fn = "opendir" -> IF c.pc = "dstat" THEN Cardinality(Node) + 2 ELSE Cardinality(Node) + 1 - Len(c.ents)
    [] c.fn \in {"truncate", "ftruncate"} ->
         CASE c.pc = "stat" -> c.want + 4
           [] c.pc = "tstat" -> c.want + 3
           [] c.pc = "grow" -> c.want - c.size
           [] c.pc = "keep" -> c.want - Len(c.keep) + 2
           [] c.pc = "tdelete" -> 2
           [] c.pc = "twrite" -> 1

\* Every call returns, whatever the other processes and the server do to the
\* file meanwhile: each request leaves the call fewer requests to make (the
\* loops of read, write, ftruncate, opendir, mkstemp and mkdtemp).
CallsProgress ==
  [][\A p \in Proc : ~Idle(p) /\ call'[p] # call[p] =>
        call'[p].fn = "none" \/ (WorkLeft(call'[p]) < WorkLeft(call[p]) /\ WorkLeft(call'[p]) > 0)]_vars

\* The descriptor tables and offsets stay in their ranges, and no file is lost.
FilesKept == TypeOK /\ FilesSurvive
=============================================================================
