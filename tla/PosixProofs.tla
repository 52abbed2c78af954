----------------------------- MODULE PosixProofs -----------------------------
(****************************************************************************)
(* Proofs about Posix for any number of processes, paths, files,            *)
(* descriptors and calls, and for all sizes of messages, pages and disks.   *)
(****************************************************************************)
EXTENDS Posix, SequenceTheorems, FiniteSetTheorems, WellFoundedInduction, TLAPS

FileRec == [kind : {"none", "file", "dir"}, data : Seq(Nat)]
FileOK(x) == x \in FileRec /\ Len(x.data) <= Disk /\ (x.kind # "file" => x.data = <<>>)
FilesOK(f) == f \in [Node -> FileRec] /\ \A n \in Node : FileOK(f[n])

Entry == [kind : {"free", "console", "file"}, off : Nat, path : Path \cup {""}]
TableOK(t) == t \in [Fd -> Entry] /\ \A i \in Fd : t[i].kind = "file" => t[i].path \in Path

\* The calls in progress, by the requests they are at.
Temp == {"mkstemp", "mkdtemp"}
TempFlags == {"create", "excl", "write"}
PickRec == [fn : Temp, pc : {"pick"}, tries : Nat]
OpenRec == [fn : {"open"}, pc : {"stat", "delete", "create"}, path : Path, flags : Flags]
MkstempRec == [fn : {"mkstemp"}, pc : {"stat", "create"}, tries : Nat, path : Path, flags : {TempFlags}]
MkdtempRec == [fn : {"mkdtemp"}, pc : {"mstat", "mkdir"}, tries : Nat, path : Path, flags : {TempFlags}]
LookRec == [fn : {"truncate"}, pc : {"stat"}, path : Path, flags : {{"write"}}, want : Nat]
MkdirRec == [fn : {"mkdir"}, pc : {"mstat", "mkdir"}, path : Path]
ListRec == [fn : {"opendir"}, pc : {"dstat", "list"}, ents : Seq(Node)]
ReadRec == [fn : {"read"}, pc : {"read"}, fd : Fd, count : Nat, done : Nat, buf : Seq(Nat), at : {-1, 1}, save : Nat]
WriteRec == [fn : {"write"}, pc : {"write"}, fd : Fd, count : Nat, done : Nat, buf : Seq(Nat), at : {-1, 1}, save : Nat]
SizeRec == [fn : {"truncate", "ftruncate"}, pc : {"tstat"}, path : Path, fd : Fd, want : Nat]
CutRec == [fn : {"truncate", "ftruncate"}, pc : {"grow", "keep", "tdelete", "twrite"}, path : Path, fd : Fd,
           want : Nat, size : Nat, keep : Seq(Nat)]
Busy == PickRec \cup OpenRec \cup MkstempRec \cup MkdtempRec \cup LookRec \cup MkdirRec \cup ListRec
          \cup ReadRec \cup WriteRec \cup SizeRec \cup CutRec
Fault == {"ENOTDIR", "ENOENT", "EEXIST", "EMFILE", "EIO", "EINVAL", "killed"}
Reply == [val : Int] \cup [err : Fault] \cup [bytes : Seq(Nat)] \cup [entries : Seq(Node)]
Rest == [fn : {"none"}, ret : Reply]

\* What a truncation has read or added so far.
CutOK(c) ==
  /\ c.pc = "grow" => c.size < c.want
  /\ c.pc = "keep" => Len(c.keep) < c.want
  /\ c.pc \in {"tdelete", "twrite"} => Len(c.keep) = c.want

\* How far the loop of a call has come.
Within(c) ==
  /\ c \in PickRec => c.tries < Tries
  /\ c \in MkstempRec \cup MkdtempRec => c.tries \in 1 .. Tries
  /\ c \in ListRec => Len(c.ents) <= Cardinality(Node)
  /\ c \in ReadRec \cup WriteRec => c.done < c.count
  /\ c \in CutRec => CutOK(c)

\* A call is where its loops can be, and its descriptor is open.
CallOK(c, t) ==
  /\ c \in Rest \cup Busy
  /\ Within(c)
  /\ c \in ReadRec \cup WriteRec => t[c.fd].kind = "file"

DirOK(d, f) ==
  /\ d \in Seq(Node)
  /\ \A i, j \in 1 .. Len(d) : d[i] = d[j] => i = j
  /\ \A n \in Node : f[n].kind # "none" <=> \E i \in 1 .. Len(d) : d[i] = n

StateOK ==
  /\ FilesOK(file) /\ DirOK(dir, file)
  /\ up \in BOOLEAN /\ faults \in 0 .. MaxFaults
  /\ fdtab \in [Proc -> [Fd -> Entry]] /\ call \in [Proc -> Rest \cup Busy]
  /\ calls \in [Proc -> Nat] /\ \A p \in Proc : calls[p] <= MaxCalls[p]
  /\ \A p \in Proc : TableOK(fdtab[p]) /\ CallOK(call[p], fdtab[p])
  /\ made \subseteq Node /\ cut \subseteq Node

PosixInv == StateOK /\ FilesSurvive
-----------------------------------------------------------------------------
(* Sequences and numbers.                                                    *)

LEMMA LeastOf ==
  ASSUME NEW S, S \subseteq Nat, S # {}
  PROVE  \E m \in S : \A k \in S : m <= k
<1>1. PICK m \in S : \A k \in S : <<k, m>> \notin OpToRel(<, Nat)
  BY NatLessThanWellFounded, WFMin, Zenon
<1>2. \A k \in S : ~(k \in Nat /\ m \in Nat /\ k < m)
  BY <1>1, Zenon DEF OpToRel
<1>. QED
  BY <1>2

LEMMA Bounds ==
  /\ FdMax \in Nat /\ NStd \in Nat /\ NStd > 0 /\ NStd < FdMax
  /\ Chunk \in Nat /\ Chunk > 0 /\ ReadMax \in Nat /\ ReadMax > 0 /\ PageMax \in Nat /\ PageMax > 0
  /\ DirListMax \in Nat /\ DirListMax > 0
  /\ Tries \in Nat /\ Tries > 0 /\ Disk \in Nat /\ Disk > 0 /\ Counts \subseteq Nat /\ MaxFaults \in Nat
  /\ MaxCalls \in [Proc -> Nat]
  /\ Lookup \in [Path -> Node] /\ Create \in [Path -> Node] /\ TmpPath \subseteq Path
BY ConstantsOK

\* The part of a sequence between two indices.
LEMMA PartOf ==
  ASSUME NEW S, NEW s \in Seq(S), NEW i \in Nat, NEW j \in Nat, i >= 1, j <= Len(s)
  PROVE  /\ SubSeq(s, i, j) \in Seq(S)
         /\ Len(SubSeq(s, i, j)) = IF i <= j THEN j - i + 1 ELSE 0
         /\ \A k \in 1 .. Len(SubSeq(s, i, j)) : SubSeq(s, i, j)[k] = s[i + k - 1]
<1>1. Len(s) \in Nat /\ \A k \in 1 .. Len(s) : s[k] \in S
  BY LenProperties, ElementOfSeq
<1>2. i \in Int /\ j \in Int /\ \A k \in i .. j : s[k] \in S
  BY <1>1
<1> DEFINE u == SubSeq(s, i, j)
<1>3. /\ u \in Seq(S) /\ Len(u) = IF i <= j THEN j - i + 1 ELSE 0
      /\ \A k \in 1 .. j - i + 1 : u[k] = s[i + k - 1]
  BY <1>2, SubSeqProperties
<1> HIDE DEF u
<1>4. ASSUME NEW k \in 1 .. Len(u)
      PROVE  u[k] = s[i + k - 1]
  <2>1. Len(u) \in Nat /\ i <= j /\ Len(u) = j - i + 1
    BY <1>3
  <2>2. k \in 1 .. j - i + 1
    BY <2>1
  <2>. QED
    BY <1>3, <2>2
<1>. QED
  BY <1>3, <1>4 DEF u

LEMMA JoinOf ==
  ASSUME NEW S, NEW s \in Seq(S), NEW t \in Seq(S)
  PROVE  /\ s \o t \in Seq(S) /\ Len(s \o t) = Len(s) + Len(t)
         /\ \A k \in 1 .. Len(s) : (s \o t)[k] = s[k]
         /\ \A k \in 1 .. Len(t) : (s \o t)[Len(s) + k] = t[k]
BY LenProperties, ConcatProperties

LEMMA SmallerOf ==
  ASSUME NEW a \in Int, NEW b \in Int
  PROVE  /\ Smaller(a, b) \in Int /\ Smaller(a, b) <= a /\ Smaller(a, b) <= b
         /\ Smaller(a, b) \in {a, b}
BY DEF Smaller

\* What a message or a page brings of a sequence.
LEMMA SliceOf ==
  ASSUME NEW S, NEW s \in Seq(S), NEW off \in Nat, NEW n \in Nat
  PROVE  /\ Slice(s, off, n) \in Seq(S)
         /\ Len(Slice(s, off, n)) \in Nat /\ Len(Slice(s, off, n)) <= n
         /\ Len(Slice(s, off, n)) > 0 => off + Len(Slice(s, off, n)) <= Len(s)
<1> DEFINE m == Smaller(off + n, Len(s))
<1>1. Len(s) \in Nat /\ m \in Nat /\ m <= off + n /\ m <= Len(s) /\ off + 1 \in Nat /\ off + 1 >= 1
  BY LenProperties DEF Smaller
<1>2. Slice(s, off, n) = SubSeq(s, off + 1, m)
  BY DEF Slice
<1> HIDE DEF m
<1> DEFINE u == SubSeq(s, off + 1, m)
<1>3. u \in Seq(S) /\ Len(u) = IF off + 1 <= m THEN m - (off + 1) + 1 ELSE 0
  BY <1>1, PartOf
<1> HIDE DEF u
<1>4. Len(u) \in Nat /\ Len(u) <= n /\ (Len(u) > 0 => off + Len(u) <= Len(s))
  BY <1>1, <1>3
<1>. QED
  BY <1>2, <1>3, <1>4 DEF u

\* What a write leaves of a file fits the disk.
LEMMA SpliceFits ==
  ASSUME NEW old \in Seq(Nat), NEW d \in Seq(Nat), NEW off \in Nat, off <= Len(old), Len(old) <= Disk
  PROVE  LET new == Splice(old, off, SubSeq(d, 1, Written(off, d)))
         IN new \in Seq(Nat) /\ Len(new) <= Disk
<1>1. Len(old) \in Nat /\ Len(d) \in Nat /\ Disk \in Nat
  BY LenProperties, Bounds
<1> DEFINE w == Written(off, d)
           e == SubSeq(d, 1, w)
           a == SubSeq(old, 1, off)
           b == SubSeq(old, off + Len(e) + 1, Len(old))
<1>2. w \in Nat /\ w <= Len(d) /\ off + w <= Disk
  BY <1>1 DEF Written, Smaller
<1> HIDE DEF w
<1>3. e \in Seq(Nat) /\ Len(e) = w
  <2>1. e \in Seq(Nat) /\ Len(e) = IF 1 <= w THEN w - 1 + 1 ELSE 0
    BY <1>2, PartOf
  <2>. QED
    BY <1>2, <2>1
<1>4. a \in Seq(Nat) /\ Len(a) = off
  <2>1. a \in Seq(Nat) /\ Len(a) = IF 1 <= off THEN off - 1 + 1 ELSE 0
    BY <1>1, PartOf
  <2>. QED
    BY <2>1
<1> HIDE DEF e, a
<1>5. b \in Seq(Nat) /\ Len(b) = IF off + w + 1 <= Len(old) THEN Len(old) - (off + w + 1) + 1 ELSE 0
  <2>1. off + Len(e) + 1 \in Nat /\ off + Len(e) + 1 >= 1 /\ Len(e) = w
    BY <1>2, <1>3
  <2>2. b \in Seq(Nat) /\ Len(b) = IF off + Len(e) + 1 <= Len(old) THEN Len(old) - (off + Len(e) + 1) + 1 ELSE 0
    BY SMTT(30), <1>1, <2>1, PartOf
  <2>. QED
    BY <2>1, <2>2
<1> HIDE DEF b
<1>6. a \o e \in Seq(Nat) /\ Len(a \o e) = Len(a) + Len(e)
  BY <1>3, <1>4, JoinOf
<1>7. (a \o e) \o b \in Seq(Nat) /\ Len((a \o e) \o b) = Len(a \o e) + Len(b)
  BY <1>5, <1>6, JoinOf
<1>8. Len((a \o e) \o b) <= Disk
  <2>1. Len((a \o e) \o b) = off + w + Len(b)
    BY <1>3, <1>4, <1>6, <1>7
  <2> DEFINE n == Len(old)
             m == Len(b)
  <2>2. /\ n \in Nat /\ Disk \in Nat /\ off <= n /\ n <= Disk
        /\ m = IF off + w + 1 <= n THEN n - (off + w + 1) + 1 ELSE 0
    BY <1>1, <1>5
  <2> HIDE DEF n, m
  <2>3. off + w + m <= Disk
    BY <1>2, <2>2
  <2>. QED
    BY <2>1, <2>3 DEF m
<1>9. Splice(old, off, e) = (a \o e) \o b
  BY DEF Splice, a, b
<1>. QED
  BY <1>7, <1>8, <1>9 DEF e, w
-----------------------------------------------------------------------------
(* Descriptors, files and calls.                                             *)

LEMMA FdAllocOf ==
  ASSUME NEW t
  PROVE  FdAlloc(t) = -1 \/ FdAlloc(t) \in Fd
<1>1. CASE FreeFds(t) = {}
  BY <1>1 DEF FdAlloc
<1>2. CASE FreeFds(t) # {}
  <2>1. FreeFds(t) \subseteq Nat /\ FreeFds(t) \subseteq Fd
    BY Bounds DEF FreeFds, Fd
  <2>2. PICK m \in FreeFds(t) : \A k \in FreeFds(t) : m <= k
    BY <1>2, <2>1, LeastOf
  <2>3. FdAlloc(t) \in FreeFds(t)
    BY <1>2, <2>2 DEF FdAlloc
  <2>. QED
    BY <2>1, <2>3
<1>. QED
  BY <1>1, <1>2

LEMMA EntrySet ==
  ASSUME NEW t, TableOK(t), NEW i \in Fd, NEW e \in Entry, e.kind = "file" => e.path \in Path
  PROVE  TableOK([t EXCEPT ![i] = e])
BY DEF TableOK

LEMMA OffsetSet ==
  ASSUME NEW t, TableOK(t), NEW i \in Fd, NEW o \in Nat
  PROVE  /\ TableOK([t EXCEPT ![i].off = o])
         /\ [t EXCEPT ![i].off = o][i].kind = t[i].kind
BY DEF TableOK, Entry

LEMMA FreshTable == TableOK(NewTable) /\ FreeFd \in Entry /\ FreeFd.kind # "file"
BY DEF TableOK, NewTable, Entry, Console, FreeFd, Fd

LEMMA WriteKeeps ==
  ASSUME FilesOK(file), NEW n \in Node, NEW d \in Seq(Nat), NEW off \in Nat,
         ~WriteAtFails(n, off), WriteAt(n, off, d)
  PROVE  FilesOK(file') /\ Existing(file') = Existing(file) \cup {n}
<1>1. /\ file \in [Node -> FileRec] /\ file[n].data \in Seq(Nat) /\ Len(file[n].data) <= Disk
      /\ off <= Len(file[n].data)
  BY LenProperties DEF FilesOK, FileOK, FileRec, WriteAtFails, Size
<1> DEFINE new == Splice(file[n].data, off, SubSeq(d, 1, Written(off, d)))
<1>2. new \in Seq(Nat) /\ Len(new) <= Disk
  BY <1>1, SpliceFits
<1>3. file' = [file EXCEPT ![n] = FileOf(new)]
  BY DEF WriteAt
<1> HIDE DEF new
<1>4. FileOf(new) \in FileRec /\ FileOK(FileOf(new)) /\ FileOf(new).kind = "file"
  BY <1>2 DEF FileOf, FileRec, FileOK
<1> HIDE DEF FileOf
<1>5. FilesOK(file')
  BY <1>1, <1>3, <1>4 DEF FilesOK
<1>6. Existing(file') = Existing(file) \cup {n}
  BY <1>1, <1>3, <1>4 DEF Existing
<1>. QED
  BY <1>5, <1>6

LEMMA DeleteKeeps ==
  ASSUME FilesOK(file), NEW n \in Node, Delete(n)
  PROVE  /\ FilesOK(file')
         /\ Existing(file') \subseteq Existing(file) /\ Existing(file) \ Existing(file') \subseteq {n}
<1>1. Missing \in FileRec /\ FileOK(Missing) /\ Missing.kind = "none"
  BY Bounds, EmptySeq DEF Missing, FileRec, FileOK
<1> HIDE DEF Missing
<1>2. file' = file \/ file' = [file EXCEPT ![n] = Missing]
  BY DEF Delete
<1>3. FilesOK(file')
  BY <1>1, <1>2 DEF FilesOK
<1>. QED
  BY <1>1, <1>2, <1>3 DEF FilesOK, Existing

\* Which record a call at a request has.
LEMMA Phase ==
  ASSUME NEW c \in Rest \cup Busy
  PROVE  /\ c.fn = "none" <=> c \in Rest
         /\ c \in Busy =>
              /\ c.pc = "pick" => c \in PickRec
              /\ c.pc = "stat" => c \in OpenRec \cup MkstempRec \cup LookRec
              /\ c.pc = "delete" => c \in OpenRec
              /\ c.pc = "create" => c \in OpenRec \cup MkstempRec
              /\ c.pc = "read" => c \in ReadRec
              /\ c.pc = "write" => c \in WriteRec
              /\ c.pc = "tstat" => c \in SizeRec
              /\ c.pc \in {"grow", "keep", "tdelete", "twrite"} => c \in CutRec
              /\ c.pc \in {"mstat", "mkdir"} => c \in MkdirRec \cup MkdtempRec
              /\ c.pc \in {"dstat", "list"} => c \in ListRec
BY DEF Rest, Busy, Temp, PickRec, OpenRec, MkstempRec, MkdtempRec, LookRec, MkdirRec, ListRec, ReadRec, WriteRec,
       SizeRec, CutRec

\* No call has the record of another one.
LEMMA Apart ==
  ASSUME NEW c
  PROVE  /\ c \in Rest \cup OpenRec \cup LookRec \cup MkdirRec \cup SizeRec => Within(c)
         /\ c \in PickRec => (Within(c) <=> c.tries < Tries)
         /\ c \in MkstempRec \cup MkdtempRec => (Within(c) <=> c.tries \in 1 .. Tries)
         /\ c \in ListRec => (Within(c) <=> Len(c.ents) <= Cardinality(Node))
         /\ c \in ReadRec \cup WriteRec => (Within(c) <=> c.done < c.count)
         /\ c \in CutRec => (Within(c) <=> CutOK(c))
         /\ c \in Rest \cup PickRec \cup OpenRec \cup MkstempRec \cup MkdtempRec \cup LookRec \cup MkdirRec \cup ListRec
                  \cup SizeRec \cup CutRec => c \notin ReadRec \cup WriteRec
<1>1. /\ c \in Rest => c.fn = "none"
      /\ c \in PickRec => c.fn \in Temp /\ c.pc = "pick"
      /\ c \in OpenRec => c.fn = "open"
      /\ c \in MkstempRec \cup MkdtempRec => c.fn \in Temp /\ c.pc # "pick"
      /\ c \in LookRec => c.fn = "truncate" /\ c.pc = "stat"
      /\ c \in MkdirRec => c.fn = "mkdir"
      /\ c \in ListRec => c.fn = "opendir"
      /\ c \in ReadRec \cup WriteRec => c.fn \in {"read", "write"}
      /\ c \in SizeRec => c.fn \in {"truncate", "ftruncate"} /\ c.pc = "tstat"
      /\ c \in CutRec => c.fn \in {"truncate", "ftruncate"} /\ c.pc \notin {"stat", "tstat"}
  BY DEF Rest, Temp, PickRec, OpenRec, MkstempRec, MkdtempRec, LookRec, MkdirRec, ListRec, ReadRec, WriteRec,
         SizeRec, CutRec
<1>. QED
  BY <1>1 DEF Within, Temp

\* The measure, record by record.
LEMMA Work ==
  ASSUME NEW c
  PROVE  /\ c \in PickRec => WorkLeft(c) = 4 * (Tries - c.tries)
         /\ c \in MkstempRec \cup MkdtempRec =>
              WorkLeft(c) = 4 * (Tries - c.tries) + (IF c.pc \in {"stat", "mstat"} THEN 3 ELSE 2)
         /\ c \in OpenRec \cup MkdirRec =>
              WorkLeft(c) = IF c.pc \in {"stat", "mstat"} THEN 3 ELSE IF c.pc = "delete" THEN 2 ELSE 1
         /\ c \in ReadRec \cup WriteRec => WorkLeft(c) = c.count - c.done
         /\ c \in ListRec => WorkLeft(c) = IF c.pc = "dstat" THEN Cardinality(Node) + 2 ELSE Cardinality(Node) + 1 - Len(c.ents)
         /\ c \in LookRec => WorkLeft(c) = c.want + 4
         /\ c \in SizeRec => WorkLeft(c) = c.want + 3
         /\ c \in CutRec => WorkLeft(c) = IF c.pc = "grow" THEN c.want - c.size
                                          ELSE IF c.pc = "keep" THEN c.want - Len(c.keep) + 2
                                          ELSE IF c.pc = "tdelete" THEN 2 ELSE 1
<1>1. ASSUME c \in PickRec
      PROVE  WorkLeft(c) = 4 * (Tries - c.tries)
  BY <1>1, Bounds DEF WorkLeft, PickRec, Temp
<1>2. ASSUME c \in MkstempRec \cup MkdtempRec
      PROVE  WorkLeft(c) = 4 * (Tries - c.tries) + (IF c.pc \in {"stat", "mstat"} THEN 3 ELSE 2)
  BY <1>2 DEF WorkLeft, MkstempRec, MkdtempRec
<1>3. ASSUME c \in OpenRec \cup MkdirRec
      PROVE  WorkLeft(c) = IF c.pc \in {"stat", "mstat"} THEN 3 ELSE IF c.pc = "delete" THEN 2 ELSE 1
  BY <1>3 DEF WorkLeft, OpenRec, MkdirRec
<1>4. ASSUME c \in ReadRec \cup WriteRec
      PROVE  WorkLeft(c) = c.count - c.done
  BY <1>4 DEF WorkLeft, ReadRec, WriteRec
<1>5. ASSUME c \in ListRec
      PROVE  WorkLeft(c) = IF c.pc = "dstat" THEN Cardinality(Node) + 2 ELSE Cardinality(Node) + 1 - Len(c.ents)
  BY <1>5 DEF WorkLeft, ListRec
<1>6. ASSUME c \in LookRec
      PROVE  WorkLeft(c) = c.want + 4
  BY <1>6 DEF WorkLeft, LookRec
<1>7. ASSUME c \in SizeRec
      PROVE  WorkLeft(c) = c.want + 3
  BY <1>7 DEF WorkLeft, SizeRec
<1>8. ASSUME c \in CutRec
      PROVE  WorkLeft(c) = IF c.pc = "grow" THEN c.want - c.size
                           ELSE IF c.pc = "keep" THEN c.want - Len(c.keep) + 2
                           ELSE IF c.pc = "tdelete" THEN 2 ELSE 1
  BY <1>8 DEF WorkLeft, CutRec
<1>. QED
  BY <1>1, <1>2, <1>3, <1>4, <1>5, <1>6, <1>7, <1>8
-----------------------------------------------------------------------------
(* What a step of p does to its call and its table, and to the files.        *)

Progress(a, c) == a.fn = "none" \/ c.fn = "none" \/ (WorkLeft(c) < WorkLeft(a) /\ WorkLeft(c) > 0)

Moves(p) ==
  /\ Idle(p) => calls[p] < MaxCalls[p]
  /\ \E c \in Rest \cup Busy, t \in [Fd -> Entry] :
       /\ call' = [call EXCEPT ![p] = c] /\ fdtab' = [fdtab EXCEPT ![p] = t]
       /\ CallOK(c, t) /\ TableOK(t) /\ Progress(call[p], c)

\* One file at most goes, and one comes.
FilesMove ==
  /\ FilesOK(file')
  /\ \A m, n \in Existing(file) \ Existing(file') : m = n
  /\ \A m, n \in Existing(file') \ Existing(file) : m = n

\* A file goes only into the window of a truncation, which ends with the file made
\* again or with an error.
Guarded(p) ==
  /\ \A n \in Existing(file) \ Existing(file') : InWindow(p)' /\ Lookup[call'[p].path] = n
  /\ InWindow(p) => \/ Create[call[p].path] \in Existing(file')
                    \/ call'[p] \in {Done(Err("EIO")), Done(Err("killed"))}

LEMMA TableKept ==
  ASSUME StateOK, NEW p \in Proc, UNCHANGED fdtab
  PROVE  fdtab' = [fdtab EXCEPT ![p] = fdtab[p]]
BY DEF StateOK

LEMMA Returning ==
  ASSUME StateOK, NEW p \in Proc, NEW r \in Reply, Return(p, r), NEW t, TableOK(t),
         fdtab' = [fdtab EXCEPT ![p] = t], Idle(p) => calls[p] < MaxCalls[p]
  PROVE  Moves(p) /\ call'[p] = Done(r)
<1>1. Done(r) \in Rest /\ Done(r).fn = "none"
  BY DEF Done, Rest
<1>2. CallOK(Done(r), t)
  BY <1>1, Apart DEF CallOK
<1>3. call' = [call EXCEPT ![p] = Done(r)] /\ call'[p] = Done(r)
  BY DEF Return, Goes, StateOK
<1>4. t \in [Fd -> Entry]
  BY DEF TableOK
<1> HIDE DEF Done
<1>. QED
  BY <1>1, <1>2, <1>3, <1>4 DEF Moves, Progress

LEMMA Going ==
  ASSUME StateOK, NEW p \in Proc, NEW c \in Busy, Goes(p, c), NEW t, TableOK(t), CallOK(c, t),
         fdtab' = [fdtab EXCEPT ![p] = t], Progress(call[p], c), Idle(p) => calls[p] < MaxCalls[p]
  PROVE  Moves(p) /\ call'[p] = c
<1>1. t \in [Fd -> Entry]
  BY DEF TableOK
<1>2. call' = [call EXCEPT ![p] = c] /\ call'[p] = c
  BY DEF Goes, StateOK
<1>. QED
  BY <1>1, <1>2 DEF Moves

\* Files that stay as they are.
LEMMA FilesStay ==
  ASSUME StateOK, UNCHANGED file, NEW p \in Proc
  PROVE  FilesMove /\ (~InWindow(p) => Guarded(p))
<1>1. Existing(file') = Existing(file) /\ FilesOK(file')
  BY DEF StateOK
<1>. QED
  BY <1>1 DEF FilesMove, Guarded

\* The state of a call that is under way.
LEMMA UnderWay ==
  ASSUME StateOK, NEW p \in Proc, ~Idle(p)
  PROVE  /\ call[p] \in Busy /\ Within(call[p]) /\ TableOK(fdtab[p])
         /\ call[p] \in ReadRec \cup WriteRec => fdtab[p][call[p].fd].kind = "file"
BY Phase DEF StateOK, CallOK, Idle

LEMMA Replies ==
  /\ \A s \in Fault : Err(s) \in Reply
  /\ \A v \in Int : Val(v) \in Reply
  /\ \A d \in Seq(Nat) : Bytes(d) \in Reply
  /\ \A d \in Seq(Node) : Entries(d) \in Reply
BY DEF Reply, Err, Val, Bytes, Entries
-----------------------------------------------------------------------------
(* open, mkstemp, mkdtemp and truncate.                                      *)

\* A call that begins with the record c.
LEMMA Beginning ==
  ASSUME StateOK, NEW p \in Proc, NEW c \in Busy, Within(c), c \notin ReadRec \cup WriteRec, Begin(p, c)
  PROVE  Moves(p) /\ FilesMove /\ Guarded(p)
<1>1. Idle(p) /\ calls[p] < MaxCalls[p] /\ Goes(p, c) /\ UNCHANGED file /\ UNCHANGED fdtab
  BY DEF Begin
<1>2. TableOK(fdtab[p]) /\ fdtab' = [fdtab EXCEPT ![p] = fdtab[p]]
  BY <1>1, TableKept DEF StateOK
<1>3. CallOK(c, fdtab[p]) /\ Progress(call[p], c)
  BY <1>1 DEF CallOK, Progress, Idle
<1>4. Moves(p)
  BY <1>1, <1>2, <1>3, Going
<1>5. ~InWindow(p)
  BY <1>1 DEF InWindow
<1>. QED
  BY <1>1, <1>4, <1>5, FilesStay

LEMMA CallsBegin ==
  ASSUME StateOK, NEW p \in Proc,
         \/ \E path \in Path, flags \in Flags : Open(p, path, flags)
         \/ \E path \in Path, want \in Counts : Truncate(p, path, want)
         \/ \E fn \in Temp : Mktemp(p, fn)
         \/ \E path \in Path : Mkdir(p, path)
         \/ Opendir(p)
         \/ \E fd \in Fd, want \in Counts : Ftruncate(p, fd, want)
  PROVE  Moves(p) /\ FilesMove /\ Guarded(p)
<1>1. ASSUME NEW path \in Path, NEW flags \in Flags, Open(p, path, flags)
      PROVE  Moves(p) /\ FilesMove /\ Guarded(p)
  <2> DEFINE c == [fn |-> "open", pc |-> "stat", path |-> path, flags |-> flags]
  <2>1. c \in OpenRec /\ Begin(p, c)
    BY <1>1 DEF OpenRec, Open
  <2> HIDE DEF c
  <2>2. c \in Busy /\ Within(c) /\ c \notin ReadRec \cup WriteRec
    BY <2>1, Apart DEF Busy
  <2>. QED
    BY <2>1, <2>2, Beginning
<1>2. ASSUME NEW path \in Path, NEW want \in Counts, Truncate(p, path, want)
      PROVE  Moves(p) /\ FilesMove /\ Guarded(p)
  <2> DEFINE c == [fn |-> "truncate", pc |-> "stat", path |-> path, flags |-> {"write"}, want |-> want]
  <2>1. c \in LookRec /\ Begin(p, c)
    BY <1>2, Bounds DEF LookRec, Truncate
  <2> HIDE DEF c
  <2>2. c \in Busy /\ Within(c) /\ c \notin ReadRec \cup WriteRec
    BY <2>1, Apart DEF Busy
  <2>. QED
    BY <2>1, <2>2, Beginning
<1>3. ASSUME NEW fn \in Temp, Mktemp(p, fn)
      PROVE  Moves(p) /\ FilesMove /\ Guarded(p)
  <2> DEFINE c == [fn |-> fn, pc |-> "pick", tries |-> 0]
  <2>1. c \in PickRec /\ Begin(p, c) /\ c.tries < Tries
    BY <1>3, Bounds DEF PickRec, Mktemp
  <2> HIDE DEF c
  <2>2. c \in Busy /\ Within(c) /\ c \notin ReadRec \cup WriteRec
    BY <2>1, Apart DEF Busy
  <2>. QED
    BY <2>1, <2>2, Beginning
<1>4. ASSUME NEW path \in Path, Mkdir(p, path)
      PROVE  Moves(p) /\ FilesMove /\ Guarded(p)
  <2> DEFINE c == [fn |-> "mkdir", pc |-> "mstat", path |-> path]
  <2>1. c \in MkdirRec /\ Begin(p, c)
    BY <1>4 DEF MkdirRec, Mkdir
  <2> HIDE DEF c
  <2>2. c \in Busy /\ Within(c) /\ c \notin ReadRec \cup WriteRec
    BY <2>1, Apart DEF Busy
  <2>. QED
    BY <2>1, <2>2, Beginning
<1>5. ASSUME Opendir(p)
      PROVE  Moves(p) /\ FilesMove /\ Guarded(p)
  <2> DEFINE c == [fn |-> "opendir", pc |-> "dstat", ents |-> <<>>]
  <2>1. c \in ListRec /\ Begin(p, c) /\ Len(c.ents) = 0
    BY <1>5, EmptySeq DEF ListRec, Opendir
  <2>2. Cardinality(Node) \in Nat
    BY ConstantsOK, FS_CardinalityType
  <2> HIDE DEF c
  <2>3. c \in Busy /\ Within(c) /\ c \notin ReadRec \cup WriteRec
    BY <2>1, <2>2, Apart DEF Busy
  <2>. QED
    BY <2>1, <2>3, Beginning
<1>6. ASSUME NEW fd \in Fd, NEW want \in Counts, Ftruncate(p, fd, want)
      PROVE  Moves(p) /\ FilesMove /\ Guarded(p)
  <2> DEFINE c == [fn |-> "ftruncate", pc |-> "tstat", path |-> fdtab[p][fd].path, fd |-> fd, want |-> want]
  <2>1. fdtab[p][fd].path \in Path
    BY <1>6 DEF Ftruncate, IsFile, StateOK, TableOK
  <2>2. c \in SizeRec /\ Begin(p, c)
    BY <1>6, <2>1, Bounds DEF SizeRec, Ftruncate
  <2> HIDE DEF c
  <2>3. c \in Busy /\ Within(c) /\ c \notin ReadRec \cup WriteRec
    BY <2>2, Apart DEF Busy
  <2>. QED
    BY <2>2, <2>3, Beginning
<1>. QED
  BY <1>1, <1>2, <1>3, <1>4, <1>5, <1>6

LEMMA PickNameMoves ==
  ASSUME StateOK, NEW p \in Proc, PickName(p)
  PROVE  Moves(p) /\ FilesMove /\ Guarded(p)
<1> DEFINE c == call[p]
<1>1. ~Idle(p) /\ c.pc = "pick" /\ UNCHANGED file /\ UNCHANGED fdtab
  BY DEF PickName, At
<1>2. c \in PickRec /\ c.tries < Tries /\ c.tries \in Nat /\ c.fn \in Temp /\ TableOK(fdtab[p])
  BY <1>1, UnderWay, Phase, Apart DEF PickRec
<1>3. PICK path \in TmpPath :
        Goes(p, [fn |-> c.fn, pc |-> IF c.fn = "mkstemp" THEN "stat" ELSE "mstat", tries |-> c.tries + 1,
                 path |-> path, flags |-> {"create", "excl", "write"}])
  BY DEF PickName
<1> DEFINE d == [fn |-> c.fn, pc |-> IF c.fn = "mkstemp" THEN "stat" ELSE "mstat", tries |-> c.tries + 1,
                 path |-> path, flags |-> {"create", "excl", "write"}]
<1>4. /\ d \in MkstempRec \cup MkdtempRec /\ d.tries \in 1 .. Tries /\ d.tries = c.tries + 1
      /\ d.pc \in {"stat", "mstat"}
  BY <1>2, Bounds DEF MkstempRec, MkdtempRec, Temp, TempFlags
<1>5. Goes(p, d)
  BY <1>3
<1> HIDE DEF d
<1>6. WorkLeft(d) = 4 * (Tries - d.tries) + 3 /\ WorkLeft(c) = 4 * (Tries - c.tries)
  BY <1>2, <1>4, Work
<1>7. WorkLeft(d) < WorkLeft(c) /\ WorkLeft(d) > 0
  BY <1>2, <1>4, <1>6, Bounds
<1>8. d \in Busy /\ CallOK(d, fdtab[p])
  BY <1>4, Apart DEF Busy, CallOK
<1>9. Moves(p)
  BY <1>1, <1>2, <1>5, <1>7, <1>8, TableKept, Going DEF Progress
<1>10. ~InWindow(p)
  BY <1>1 DEF InWindow
<1>. QED
  BY <1>1, <1>9, <1>10, FilesStay

LEMMA Failing ==
  ASSUME StateOK, NEW p \in Proc, ~Idle(p), NEW s \in Fault, Return(p, Err(s)), UNCHANGED fdtab
  PROVE  Moves(p) /\ call'[p] = Done(Err(s))
<1>1. TableOK(fdtab[p]) /\ fdtab' = [fdtab EXCEPT ![p] = fdtab[p]]
  BY TableKept DEF StateOK
<1> DEFINE r == Err(s)
<1>2. r \in Reply /\ Return(p, r)
  BY Replies
<1> HIDE DEF r
<1>3. Moves(p) /\ call'[p] = Done(r)
  BY <1>1, <1>2, Returning
<1>. QED
  BY <1>3 DEF r

LEMMA OpenDoneMoves ==
  ASSUME StateOK, NEW p \in Proc, ~Idle(p), NEW c, c = call[p], c \in OpenRec \cup MkstempRec \cup LookRec,
         NEW size \in Nat, OpenDone(p, c, size)
  PROVE  Moves(p)
<1> DEFINE fd == FdAlloc(fdtab[p])
<1>1. c.path \in Path /\ TableOK(fdtab[p]) /\ (c.fn = "truncate" <=> c \in LookRec)
  BY UnderWay DEF OpenRec, MkstempRec, LookRec
<1>2. fd = -1 \/ fd \in Fd
  BY FdAllocOf
<1> HIDE DEF fd
<1>3. CASE fd < 0
  <2>1. Return(p, Err("EMFILE")) /\ UNCHANGED fdtab
    BY <1>3 DEF OpenDone, fd
  <2>. QED
    BY <2>1, Failing DEF Fault
<1>4. CASE ~(fd < 0)
  <2> DEFINE e == [kind |-> "file", path |-> c.path, off |-> IF "append" \in c.flags THEN size ELSE 0]
             t == [fdtab[p] EXCEPT ![fd] = e]
  <2>0. fd \in Fd
    BY <1>2, <1>4
  <2>1. fd \in Fd /\ e \in Entry /\ e.path \in Path
    BY <1>1, <2>0 DEF Entry
  <2>2. fdtab' = [fdtab EXCEPT ![p] = t]
    BY <1>4 DEF OpenDone, fd
  <2> HIDE DEF e
  <2>3. TableOK(t)
    BY <1>1, <2>1, EntrySet
  <2> HIDE DEF t
  <2>4. CASE c.fn # "truncate"
    <3>1. Return(p, Val(fd))
      BY <1>4, <2>4 DEF OpenDone, fd
    <3>2. Val(fd) \in Reply
      BY <2>1, Replies, Bounds DEF Fd
    <3>. QED
      BY <2>2, <2>3, <3>1, <3>2, Returning
  <2>5. CASE c.fn = "truncate"
    <3> DEFINE d == [fn |-> "truncate", pc |-> "tstat", path |-> c.path, fd |-> fd, want |-> c.want]
    <3>1. Goes(p, d)
      BY <1>4, <2>5 DEF OpenDone, fd
    <3>2. d \in SizeRec /\ d.want = c.want /\ c \in LookRec /\ c.want \in Nat
      BY <1>1, <2>1, <2>5 DEF SizeRec, LookRec
    <3> HIDE DEF d
    <3>3. WorkLeft(d) = c.want + 3 /\ WorkLeft(c) = c.want + 4
      BY <3>2, Work
    <3>4. Progress(call[p], d)
      BY <3>2, <3>3 DEF Progress
    <3>5. d \in Busy /\ CallOK(d, t)
      BY <3>2, Apart DEF Busy, CallOK
    <3>. QED
      BY <2>2, <2>3, <3>1, <3>4, <3>5, Going
  <2>. QED
    BY <2>4, <2>5
<1>. QED
  BY <1>3, <1>4

LEMMA TakenMoves ==
  ASSUME StateOK, NEW p \in Proc, ~Idle(p), NEW c, c = call[p],
         c \in OpenRec \cup MkstempRec \cup LookRec \cup MkdirRec \cup MkdtempRec, UNCHANGED fdtab, Taken(p, c)
  PROVE  Moves(p)
<1>1. TableOK(fdtab[p]) /\ Within(c) /\ fdtab' = [fdtab EXCEPT ![p] = fdtab[p]]
  BY UnderWay, TableKept
<1>2. CASE c.fn \in Temp /\ c.tries < Tries
  <2> DEFINE d == [fn |-> c.fn, pc |-> "pick", tries |-> c.tries]
  <2>1. Goes(p, d)
    BY <1>2 DEF Taken, Temp
  <2>2. c \in MkstempRec \cup MkdtempRec
    BY <1>2 DEF OpenRec, MkstempRec, LookRec, MkdirRec, MkdtempRec, Temp
  <2>3. d \in PickRec /\ d.tries = c.tries /\ c.tries \in Nat
    BY <1>2, <2>2 DEF PickRec, MkstempRec, MkdtempRec, Temp
  <2> HIDE DEF d
  <2>4. WorkLeft(d) = 4 * (Tries - c.tries) /\ WorkLeft(c) \in {WorkLeft(d) + 2, WorkLeft(d) + 3}
    <3>1. WorkLeft(d) = 4 * (Tries - d.tries)
      BY <2>3, Work
    <3>2. WorkLeft(c) = 4 * (Tries - c.tries) + (IF c.pc \in {"stat", "mstat"} THEN 3 ELSE 2)
      BY <2>2, Work
    <3>. QED
      BY <2>3, <3>1, <3>2, Bounds
  <2>5. WorkLeft(d) < WorkLeft(c) /\ WorkLeft(d) > 0
    BY <1>2, <2>3, <2>4, Bounds
  <2>6. d \in Busy /\ CallOK(d, fdtab[p])
    BY <1>2, <2>3, Apart DEF Busy, CallOK
  <2>. QED
    BY <1>1, <2>1, <2>5, <2>6, Going DEF Progress
<1>3. CASE ~(c.fn \in Temp /\ c.tries < Tries)
  <2>1. Return(p, Err("EEXIST"))
    BY <1>3 DEF Taken, Temp
  <2>. QED
    BY <2>1, Failing DEF Fault
<1>. QED
  BY <1>2, <1>3

\* The next request of an open: its record with another pc.
LEMMA OpenGoesOn ==
  ASSUME StateOK, NEW p \in Proc, ~Idle(p), NEW c, c = call[p], UNCHANGED fdtab,
         NEW pc \in {"delete", "create"}, Goes(p, [c EXCEPT !.pc = pc]),
         \/ c \in OpenRec /\ (c.pc = "stat" \/ (c.pc = "delete" /\ pc = "create"))
         \/ c \in MkstempRec /\ c.pc = "stat" /\ pc = "create"
  PROVE  Moves(p) /\ call'[p].fn # "none" /\ call'[p].pc = pc /\ call'[p].path = c.path
<1> DEFINE d == [c EXCEPT !.pc = pc]
<1>1. TableOK(fdtab[p]) /\ Within(c) /\ fdtab' = [fdtab EXCEPT ![p] = fdtab[p]]
  BY UnderWay, TableKept
<1>2. CASE c \in OpenRec /\ (c.pc = "stat" \/ (c.pc = "delete" /\ pc = "create"))
  <2>1. d \in OpenRec /\ d.pc = pc /\ d.path = c.path /\ d.fn # "none" /\ Goes(p, d)
    BY <1>2 DEF OpenRec
  <2> HIDE DEF d
  <2>2. WorkLeft(d) < WorkLeft(c) /\ WorkLeft(d) > 0
    BY <1>2, <2>1, Work
  <2>3. d \in Busy /\ CallOK(d, fdtab[p])
    BY <2>1, Apart DEF Busy, CallOK
  <2>. QED
    BY <1>1, <2>1, <2>2, <2>3, Going DEF Progress
<1>3. CASE c \in MkstempRec /\ c.pc = "stat" /\ pc = "create"
  <2>1. d \in MkstempRec /\ d.pc = pc /\ d.path = c.path /\ d.fn # "none" /\ Goes(p, d) /\ d.tries = c.tries
    BY <1>3 DEF MkstempRec
  <2> HIDE DEF d
  <2>2. c.tries \in 1 .. Tries
    BY <1>1, <1>3, Apart
  <2>3. WorkLeft(d) = 4 * (Tries - c.tries) + 2 /\ WorkLeft(c) = 4 * (Tries - c.tries) + 3
    BY <1>3, <2>1, Work
  <2>4. WorkLeft(d) < WorkLeft(c) /\ WorkLeft(d) > 0
    BY <2>2, <2>3, Bounds
  <2>5. d \in Busy /\ CallOK(d, fdtab[p])
    BY <2>1, <2>2, Apart DEF Busy, CallOK
  <2>. QED
    BY <1>1, <2>1, <2>4, <2>5, Going DEF Progress
<1>. QED
  BY <1>2, <1>3

LEMMA OpenStatMoves ==
  ASSUME StateOK, NEW p \in Proc, OpenStat(p)
  PROVE  Moves(p) /\ FilesMove /\ Guarded(p)
<1> DEFINE c == call[p]
           kind == StatKind(Lookup[c.path])
           notdir == "directory" \in c.flags /\ kind # "dir"
           excl == {"create", "excl"} \subseteq c.flags
           trunc == {"trunc", "write"} \subseteq c.flags
<1>1. ~Idle(p) /\ c.pc = "stat" /\ UNCHANGED file
  BY DEF OpenStat, At
<1>2. c \in OpenRec \cup MkstempRec \cup LookRec /\ TableOK(fdtab[p])
  BY <1>1, UnderWay, Phase
<1>3. FilesMove /\ Guarded(p)
  BY <1>1, FilesStay DEF InWindow
<1>4. c \in MkstempRec => excl
  BY DEF MkstempRec, TempFlags
<1>5. c \in LookRec => "create" \notin c.flags /\ ~trunc
  BY DEF LookRec
<1>6. Size(Lookup[c.path]) \in Nat
  <2>1. c.path \in Path
    BY <1>2 DEF OpenRec, MkstempRec, LookRec
  <2>2. Lookup[c.path] \in Node
    BY <2>1, Bounds
  <2>. QED
    BY <2>2, LenProperties DEF Size, StateOK, FilesOK, FileRec
<1>7. CASE notdir /\ Return(p, Err("ENOTDIR")) /\ UNCHANGED fdtab
  BY <1>1, <1>3, <1>7, Failing DEF Fault
<1>8. CASE /\ ~notdir /\ kind = "none"
           /\ IF "create" \in c.flags THEN Goes(p, [c EXCEPT !.pc = "create"]) ELSE Return(p, Err("ENOENT"))
           /\ UNCHANGED fdtab
  <2>1. CASE "create" \in c.flags
    <3>1. c \in OpenRec \cup MkstempRec
      BY <1>2, <1>5, <2>1
    <3>2. Goes(p, [c EXCEPT !.pc = "create"]) /\ UNCHANGED fdtab
      BY <1>8, <2>1
    <3>. QED
      BY <1>1, <1>3, <3>1, <3>2, OpenGoesOn
  <2>2. CASE "create" \notin c.flags
    <3>1. Return(p, Err("ENOENT")) /\ UNCHANGED fdtab
      BY <1>8, <2>2
    <3>. QED
      BY <1>1, <1>3, <3>1, Failing DEF Fault
  <2>. QED
    BY <2>1, <2>2
<1>9. CASE ~notdir /\ kind # "none" /\ excl /\ Taken(p, c) /\ UNCHANGED fdtab
  <2>1. Taken(p, c) /\ UNCHANGED fdtab
    BY <1>9
  <2>. QED
    BY <1>1, <1>3, <1>2, <2>1, TakenMoves
<1>10. CASE ~notdir /\ kind # "none" /\ ~excl /\ trunc /\ Goes(p, [c EXCEPT !.pc = "delete"]) /\ UNCHANGED fdtab
  <2>1. c \in OpenRec
    BY <1>2, <1>4, <1>5, <1>10
  <2>2. Goes(p, [c EXCEPT !.pc = "delete"]) /\ UNCHANGED fdtab
    BY <1>10
  <2>. QED
    BY <1>1, <1>3, <2>1, <2>2, OpenGoesOn
<1>11. CASE ~notdir /\ kind # "none" /\ ~excl /\ ~trunc /\ OpenDone(p, c, Size(Lookup[c.path]))
  <2> DEFINE size == Size(Lookup[c.path])
  <2>1. size \in Nat /\ OpenDone(p, c, size)
    BY <1>6, <1>11
  <2> HIDE DEF size
  <2>. QED
    BY <1>1, <1>3, <1>2, <2>1, OpenDoneMoves
<1>. QED
  BY <1>7, <1>8, <1>9, <1>10, <1>11 DEF OpenStat

LEMMA OpenDeleteMoves ==
  ASSUME StateOK, NEW p \in Proc, OpenDelete(p)
  PROVE  Moves(p) /\ FilesMove /\ Guarded(p)
<1> DEFINE c == call[p]
           n == Lookup[c.path]
<1>1. ~Idle(p) /\ c.pc = "delete" /\ Delete(n) /\ Goes(p, [c EXCEPT !.pc = "create"]) /\ UNCHANGED fdtab
  BY DEF OpenDelete, At
<1>2. c \in OpenRec
  BY <1>1, UnderWay, Phase
<1>3. n \in Node
  BY <1>2, Bounds DEF OpenRec
<1>4. Moves(p) /\ call'[p].fn # "none" /\ call'[p].pc = "create" /\ call'[p].path = c.path
  BY <1>1, <1>2, OpenGoesOn
<1>5. InWindow(p)'
  BY <1>4 DEF InWindow, Idle
<1>6. Lookup[call'[p].path] = n
  BY <1>4
<1>7. ~InWindow(p)
  BY <1>1 DEF InWindow
<1>8. FilesOK(file)
  BY DEF StateOK
<1> HIDE DEF n
<1>9. FilesOK(file') /\ Existing(file') \subseteq Existing(file) /\ Existing(file) \ Existing(file') \subseteq {n}
  BY <1>1, <1>3, <1>8, DeleteKeeps
<1>. QED
  BY <1>4, <1>5, <1>6, <1>7, <1>9 DEF FilesMove, Guarded

LEMMA OpenCreateMoves ==
  ASSUME StateOK, NEW p \in Proc, OpenCreate(p)
  PROVE  Moves(p) /\ FilesMove /\ Guarded(p)
<1> DEFINE c == call[p]
           n == Create[c.path]
<1>1. ~Idle(p) /\ c.pc = "create"
  BY DEF OpenCreate, At
<1>2. c \in OpenRec \cup MkstempRec /\ TableOK(fdtab[p]) /\ FilesOK(file)
  BY <1>1, UnderWay, Phase DEF StateOK
<1>3. n \in Node
  BY <1>2, Bounds DEF OpenRec, MkstempRec
<1>4. CASE WriteAtFails(n, 0)
  <2>1. Return(p, Err("EIO")) /\ UNCHANGED file /\ UNCHANGED fdtab
    BY <1>4 DEF OpenCreate
  <2>2. Moves(p) /\ call'[p] = Done(Err("EIO"))
    BY <1>1, <2>1, Failing DEF Fault
  <2>3. Existing(file') = Existing(file)
    BY <2>1
  <2>. QED
    BY <2>1, <2>2, <2>3, FilesStay DEF Guarded
<1>5. CASE ~WriteAtFails(n, 0)
  <2>1. WriteAt(n, 0, <<>>) /\ OpenDone(p, c, 0)
    BY <1>5 DEF OpenCreate
  <2>2. FilesOK(file') /\ Existing(file') = Existing(file) \cup {n}
    BY <1>2, <1>3, <1>5, <2>1, WriteKeeps, EmptySeq
  <2>3. Moves(p)
    BY <1>1, <1>2, <2>1, OpenDoneMoves
  <2>. QED
    BY <2>2, <2>3 DEF FilesMove, Guarded
<1>. QED
  BY <1>4, <1>5
-----------------------------------------------------------------------------
(* read and write.                                                           *)

LEMMA TransferMoves ==
  ASSUME StateOK, NEW p \in Proc, NEW fn \in {"read", "write"}, NEW fd \in Fd, NEW count \in Counts \ {0},
         NEW at \in {-1, 1}, Transfer(p, fn, fd, count, at)
  PROVE  Moves(p) /\ FilesMove /\ Guarded(p)
<1> DEFINE c == [fn |-> fn, pc |-> fn, fd |-> fd, count |-> count, done |-> 0, buf |-> <<>>,
                 at |-> at, save |-> fdtab[p][fd].off]
           off == IF at < 0 THEN fdtab[p][fd].off ELSE at
           t == [fdtab[p] EXCEPT ![fd].off = off]
<1>1. IsFile(p, fd) /\ Idle(p) /\ calls[p] < MaxCalls[p] /\ Goes(p, c) /\ UNCHANGED file
  BY DEF Transfer
<1>2. fdtab' = [fdtab EXCEPT ![p] = t]
  BY DEF Transfer
<1>3. TableOK(fdtab[p]) /\ fdtab[p][fd].off \in Nat
  BY DEF StateOK, TableOK, Entry
<1>4. off \in Nat
  BY <1>3
<1>5. c \in ReadRec \cup WriteRec /\ c.done < c.count /\ c.fd = fd
  BY <1>3, Bounds, EmptySeq DEF ReadRec, WriteRec
<1> HIDE DEF off, c
<1>6. TableOK(t) /\ t[fd].kind = "file"
  BY <1>1, <1>3, <1>4, OffsetSet DEF IsFile
<1> HIDE DEF t
<1>7. c \in Busy /\ CallOK(c, t) /\ Progress(call[p], c)
  BY <1>1, <1>5, <1>6, Apart DEF Busy, CallOK, Progress, Idle
\* The record as a value of this state.
<1>8. PICK c0, t0 : c0 = c /\ t0 = t
  OBVIOUS
<1>9. Moves(p)
  BY <1>1, <1>2, <1>6, <1>7, <1>8, Going
<1>. QED
  BY <1>1, <1>9, FilesStay DEF InWindow

\* The end of a transfer.
LEMMA TransferEnds ==
  ASSUME StateOK, NEW p \in Proc, ~Idle(p), NEW c \in ReadRec \cup WriteRec, c = call[p], NEW off \in Nat,
         NEW r \in Reply, TransferDone(p, c, off, r)
  PROVE  Moves(p)
<1> DEFINE o == IF c.at < 0 THEN off ELSE c.save
           t == [fdtab[p] EXCEPT ![c.fd].off = o]
<1>1. Return(p, r) /\ fdtab' = [fdtab EXCEPT ![p] = t]
  BY DEF TransferDone
<1>2. o \in Nat /\ c.fd \in Fd /\ TableOK(fdtab[p])
  BY UnderWay DEF ReadRec, WriteRec
<1> HIDE DEF o
<1>3. TableOK(t)
  BY <1>2, OffsetSet
<1>4. PICK t0 : t0 = t
  OBVIOUS
<1> HIDE DEF t
<1>. QED
  BY <1>1, <1>3, <1>4, Returning

\* A transfer with more to do moves the descriptor behind what was transferred.
LEMMA TransferGoesOn ==
  ASSUME StateOK, NEW p \in Proc, ~Idle(p), NEW c \in ReadRec \cup WriteRec, c = call[p], NEW d,
         NEW k \in Nat, k > 0, d \in ReadRec \cup WriteRec, d.fd = c.fd, d.count = c.count, d.done = c.done + k,
         d.done < d.count, Goes(p, d), fdtab' = [fdtab EXCEPT ![p][c.fd].off = @ + k]
  PROVE  Moves(p)
<1> DEFINE o == fdtab[p][c.fd].off + k
           t == [fdtab[p] EXCEPT ![c.fd].off = o]
<1>1. c.fd \in Fd /\ TableOK(fdtab[p]) /\ fdtab[p][c.fd].kind = "file" /\ c.done \in Nat /\ c.count \in Nat
  BY UnderWay DEF ReadRec, WriteRec
<1>2. o \in Nat
  <2>1. fdtab[p][c.fd] \in Entry
    BY <1>1 DEF TableOK
  <2>2. PICK v \in Nat : v = fdtab[p][c.fd].off
    BY <2>1 DEF Entry
  <2>. QED
    BY <2>2
<1>3. fdtab' = [fdtab EXCEPT ![p] = t]
  OBVIOUS
<1> HIDE DEF o
<1>4. TableOK(t) /\ t[c.fd].kind = "file"
  BY <1>1, <1>2, OffsetSet
<1>5. PICK t0 : t0 = t
  OBVIOUS
<1> HIDE DEF t
<1>6. d \in Busy /\ CallOK(d, t)
  BY <1>4, Apart DEF Busy, CallOK
<1>7. WorkLeft(d) = d.count - d.done /\ WorkLeft(c) = c.count - c.done
  BY Work
<1>8. WorkLeft(d) < WorkLeft(c) /\ WorkLeft(d) > 0
  BY SMTT(30), <1>1, <1>7
<1>. QED
  BY <1>3, <1>4, <1>5, <1>6, <1>8, Going DEF Progress

LEMMA ReadStepMoves ==
  ASSUME StateOK, NEW p \in Proc, ReadStep(p)
  PROVE  Moves(p) /\ FilesMove /\ Guarded(p)
<1>0. PICK c : c = call[p]
  OBVIOUS
<1> DEFINE e == fdtab[p][c.fd]
           n == Lookup[e.path]
           got == BytesAt(n, e.off, c.count - c.done)
           more == [c EXCEPT !.done = @ + Len(got), !.buf = @ \o got]
<1>1. ~Idle(p) /\ c.pc = "read" /\ UNCHANGED file
  BY <1>0 DEF ReadStep, At
<1>2. c \in ReadRec /\ c.done < c.count /\ e.kind = "file" /\ TableOK(fdtab[p])
  BY <1>0, <1>1, UnderWay, Phase, Apart
<1>3. /\ c.fd \in Fd /\ c.count \in Nat /\ c.done \in Nat /\ c.buf \in Seq(Nat)
      /\ e.off \in Nat /\ e.path \in Path
  BY <1>2 DEF ReadRec, TableOK, Entry
<1>4. n \in Node /\ file[n].data \in Seq(Nat)
  BY <1>3, Bounds DEF StateOK, FilesOK, FileRec
<1>5. FilesMove /\ Guarded(p)
  BY <1>0, <1>1, FilesStay DEF InWindow
<1>6. CASE ReadAtFails(n) /\ TransferFails(p, c, Bytes(c.buf))
  <2>1. PICK off, r : off = e.off /\ r = (IF c.done > 0 THEN Bytes(c.buf) ELSE Err("EIO"))
    OBVIOUS
  <2>2. TransferDone(p, c, off, r)
    BY <1>6, <2>1 DEF TransferFails
  <2>3. off \in Nat /\ r \in Reply
    BY <1>3, <2>1, Replies DEF Fault
  <2>. QED
    BY <1>0, <1>1, <1>2, <1>5, <2>2, <2>3, TransferEnds
<1>7. CASE /\ ~ReadAtFails(n)
           /\ IF got = <<>> \/ more.done = c.count
              THEN TransferDone(p, c, e.off + Len(got), Bytes(more.buf))
              ELSE /\ Goes(p, more)
                   /\ fdtab' = [fdtab EXCEPT ![p][c.fd].off = @ + Len(got)]
  <2>1. PICK g : g = got
    OBVIOUS
  <2>2. g \in Seq(Nat) /\ Len(g) \in Nat /\ Len(g) <= c.count - c.done
    <3> DEFINE m == Smaller(c.count - c.done, ReadMax)
    <3>1. m \in Nat /\ m <= c.count - c.done
      BY <1>2, <1>3, Bounds DEF Smaller
    <3> HIDE DEF m
    <3>2. Slice(file[n].data, e.off, m) \in Seq(Nat) /\ Len(Slice(file[n].data, e.off, m)) \in Nat
          /\ Len(Slice(file[n].data, e.off, m)) <= m
      BY <1>3, <1>4, <3>1, SliceOf
    <3>3. g = Slice(file[n].data, e.off, m)
      BY <2>1 DEF BytesAt, m
    <3>4. g \in Seq(Nat) /\ Len(g) \in Nat /\ Len(g) <= m
      BY <3>2, <3>3, Zenon
    <3>. QED
      BY <1>3, <3>1, <3>4
  <2>3. PICK d : d = more
    OBVIOUS
  <2>4. d \in ReadRec /\ d.fd = c.fd /\ d.count = c.count /\ d.done = c.done + Len(g) /\ d.buf \in Seq(Nat)
    <3> DEFINE b == c.buf \o g
    <3>1. b \in Seq(Nat)
      BY <1>3, <2>2, JoinOf
    <3>2. PICK k \in Nat : k = c.done + Len(g)
      BY <1>3, <2>2
    <3>3. d = [c EXCEPT !.done = k, !.buf = b]
      BY <2>1, <2>3, <3>2
    <3> HIDE DEF b
    <3>4. d \in ReadRec /\ d.fd = c.fd /\ d.count = c.count /\ d.done = k /\ d.buf = b
      BY <1>2, <3>1, <3>3 DEF ReadRec
    <3>. QED
      BY <3>1, <3>2, <3>4
  <2>5. CASE g = <<>> \/ d.done = c.count
    <3>1. TransferDone(p, c, e.off + Len(g), Bytes(d.buf))
      BY <1>7, <2>1, <2>3, <2>5
    <3>2. PICK off, r : off = e.off + Len(g) /\ r = Bytes(d.buf)
      OBVIOUS
    <3>3. off \in Nat /\ r \in Reply /\ TransferDone(p, c, off, r)
      BY <1>3, <2>2, <2>4, <3>1, <3>2, Replies, SMTT(30)
    <3>. QED
      BY <1>0, <1>1, <1>2, <1>5, <3>3, TransferEnds
  <2>6. CASE ~(g = <<>> \/ d.done = c.count)
    <3>1. Goes(p, d) /\ fdtab' = [fdtab EXCEPT ![p][c.fd].off = @ + Len(g)]
      BY <1>7, <2>1, <2>3, <2>6
    <3>2. Len(g) > 0
      BY <2>2, <2>6, EmptySeq
    <3>3. PICK k : k = Len(g)
      OBVIOUS
    <3>4. k \in Nat /\ k > 0 /\ d.done = c.done + k /\ d.done < d.count
      <4>1. k \in Nat /\ k > 0 /\ k <= c.count - c.done /\ d.done = c.done + k /\ d.count = c.count /\ d.done # c.count
        BY <2>2, <2>4, <2>6, <3>2, <3>3
      <4>2. PICK x \in Nat, y \in Nat : x = c.done /\ y = c.count
        BY <1>3
      <4>3. d.done = x + k /\ d.count = y /\ k <= y - x /\ x + k # y
        BY <4>1, <4>2
      <4>4. x + k < y
        BY <4>1, <4>3
      <4>. QED
        BY <4>1, <4>3, <4>4
    <3>5. fdtab' = [fdtab EXCEPT ![p][c.fd].off = @ + k]
      BY SMTT(30), <3>1, <3>3
    <3>. QED
      BY <1>0, <1>1, <1>2, <1>5, <2>4, <3>1, <3>4, <3>5, TransferGoesOn
  <2>. QED
    BY <2>5, <2>6
<1>. QED
  BY ZenonT(40), <1>0, <1>6, <1>7 DEF ReadStep

LEMMA WriteStepMoves ==
  ASSUME StateOK, NEW p \in Proc, WriteStep(p)
  PROVE  Moves(p) /\ FilesMove /\ Guarded(p)
<1>0. PICK c : c = call[p]
  OBVIOUS
<1>1. ~Idle(p) /\ c.pc = "write" /\ ~InWindow(p)
  BY <1>0 DEF WriteStep, At, InWindow
<1> DEFINE e == fdtab[p][c.fd]
           n == Create[e.path]
           len == Smaller(c.count - c.done, Chunk)
           d == Buffer(c.done, len)
           w == Written(e.off, d)
<1>2. c \in WriteRec /\ c.done < c.count /\ e.kind = "file" /\ TableOK(fdtab[p])
  BY <1>0, <1>1, UnderWay, Phase, Apart
<1>3. c.fd \in Fd /\ c.count \in Nat /\ c.done \in Nat /\ e.off \in Nat /\ e.path \in Path
  BY <1>2 DEF WriteRec, TableOK, Entry
<1>4. n \in Node /\ FilesOK(file)
  BY <1>3, Bounds DEF StateOK
<1>5. len \in Nat /\ len > 0 /\ len <= c.count - c.done
  BY <1>2, <1>3, Bounds DEF Smaller
<1>6. d \in Seq(Nat) /\ Len(d) = len
  <2> HIDE DEF len
  <2>1. \A i \in 1 .. len : c.done + i \in Nat
    BY <1>3, <1>5
  <2>2. d = [i \in 1 .. len |-> c.done + i]
    BY DEF Buffer
  <2>. QED
    BY <1>5, <2>1, <2>2, SeqDef, LenProperties
<1>7. w \in Nat /\ w <= len
  <2>1. PICK o, l : o = e.off /\ l = len
    OBVIOUS
  <2>2. o \in Nat /\ l \in Nat /\ Disk \in Nat /\ Len(d) = l
    BY <1>3, <1>5, <1>6, <2>1, Bounds
  <2>3. w = Smaller(l, IF o < Disk THEN Disk - o ELSE 0)
    BY <2>1, <2>2 DEF Written
  <2> HIDE DEF d, len, w
  <2>4. w \in Nat /\ w <= l
    BY <2>2, <2>3 DEF Smaller
  <2>. QED
    BY <2>1, <2>4
<1>8. PICK off, bytes, k : off = e.off /\ bytes = d /\ k = w
  OBVIOUS
<1>9. CASE WriteAtFails(n, off) /\ TransferFails(p, c, Val(c.done)) /\ UNCHANGED file
  <2>1. PICK r : r = (IF c.done > 0 THEN Val(c.done) ELSE Err("EIO"))
    OBVIOUS
  <2>2. TransferDone(p, c, off, r)
    BY <1>8, <1>9, <2>1 DEF TransferFails
  <2>3. off \in Nat /\ r \in Reply
    BY <1>3, <1>8, <2>1, Replies DEF Fault
  <2>. QED
    BY <1>0, <1>1, <1>2, <1>9, <2>2, <2>3, TransferEnds, FilesStay
<1>10. CASE /\ ~WriteAtFails(n, off)
            /\ WriteAt(n, off, bytes)
            /\ IF k < Len(bytes) \/ c.done + k = c.count
               THEN TransferDone(p, c, off + k, Val(c.done + k))
               ELSE /\ Goes(p, [c EXCEPT !.done = @ + k])
                    /\ fdtab' = [fdtab EXCEPT ![p][c.fd].off = @ + k]
  <2>0. PICK m : m = n
    OBVIOUS
  <2>1. off \in Nat /\ bytes \in Seq(Nat) /\ m \in Node
    BY <1>3, <1>4, <1>6, <1>8, <2>0
  <2>2. FilesOK(file') /\ Existing(file') = Existing(file) \cup {m}
    BY <1>4, <1>10, <2>0, <2>1, WriteKeeps
  <2>3. FilesMove /\ Guarded(p)
    BY <1>1, <2>2 DEF FilesMove, Guarded
  <2>4. k \in Nat /\ k <= len /\ Len(bytes) = len /\ len > 0 /\ len \in Nat /\ len <= c.count - c.done
    BY <1>5, <1>6, <1>7, <1>8
  <2>5. CASE k < Len(bytes) \/ c.done + k = c.count
    <3>1. TransferDone(p, c, off + k, Val(c.done + k))
      BY <1>10, <2>5
    <3>2. off + k \in Nat /\ Val(c.done + k) \in Reply
      BY <1>3, <2>1, <2>4, Replies
    <3>3. PICK o, r : o = off + k /\ r = Val(c.done + k)
      OBVIOUS
    <3>. QED
      BY <1>0, <1>1, <1>2, <2>3, <3>1, <3>2, <3>3, TransferEnds
  <2>6. CASE ~(k < Len(bytes) \/ c.done + k = c.count)
    <3> DEFINE x == [c EXCEPT !.done = @ + k]
    <3>1. Goes(p, x) /\ fdtab' = [fdtab EXCEPT ![p][c.fd].off = @ + k]
      BY <1>10, <2>6
    <3>2. x \in WriteRec /\ x.fd = c.fd /\ x.count = c.count /\ x.done = c.done + k
      BY <1>2, <1>3, <2>4, SMTT(30) DEF WriteRec
    <3>3. k > 0 /\ x.done < x.count
      <4> HIDE DEF len, x
      <4>. QED
        BY <1>3, <2>4, <2>6, <3>2
    <3> HIDE DEF x
    <3>. QED
      BY <1>0, <1>1, <1>2, <2>3, <2>4, <3>1, <3>2, <3>3, TransferGoesOn
  <2>. QED
    BY <2>5, <2>6
<1>. QED
  BY <1>0, <1>8, <1>9, <1>10 DEF WriteStep
-----------------------------------------------------------------------------
(* ftruncate and truncate.                                                   *)

\* The end of a truncation.
LEMMA TruncEnds ==
  ASSUME StateOK, NEW p \in Proc, ~Idle(p), NEW c \in SizeRec \cup CutRec, c = call[p],
         NEW r \in Reply, TruncDone(p, c, r)
  PROVE  Moves(p) /\ call'[p] = Done(r)
<1>1. Return(p, r) /\ c.fd \in Fd /\ TableOK(fdtab[p])
  BY UnderWay DEF TruncDone, SizeRec, CutRec
<1>2. CASE c.fn = "truncate"
  <2> DEFINE t == [fdtab[p] EXCEPT ![c.fd] = FreeFd]
  <2>1. fdtab' = [fdtab EXCEPT ![p] = t]
    BY <1>2 DEF TruncDone
  <2>2. TableOK(t)
    BY <1>1, FreshTable, EntrySet
  <2>3. PICK t0 : t0 = t
    OBVIOUS
  <2> HIDE DEF t
  <2>. QED
    BY <1>1, <2>1, <2>2, <2>3, Returning
<1>3. CASE c.fn # "truncate"
  <2>1. UNCHANGED fdtab
    BY <1>3 DEF TruncDone
  <2>2. PICK t0 : t0 = fdtab[p]
    OBVIOUS
  <2>. QED
    BY <1>1, <2>1, <2>2, TableKept, Returning
<1>. QED
  BY <1>2, <1>3

\* The next request of a truncation.
LEMMA TruncGoesOn ==
  ASSUME StateOK, NEW p \in Proc, ~Idle(p), NEW c \in SizeRec \cup CutRec, c = call[p], NEW d \in CutRec, Goes(p, d),
         Within(d), WorkLeft(d) < WorkLeft(c), WorkLeft(d) > 0, UNCHANGED fdtab
  PROVE  Moves(p) /\ call'[p] = d
<1>1. PICK t0 : t0 = fdtab[p]
  OBVIOUS
<1>2. TableOK(t0) /\ fdtab' = [fdtab EXCEPT ![p] = t0]
  BY <1>1, TableKept DEF StateOK
<1>3. d \in Busy /\ CallOK(d, t0)
  BY Apart DEF Busy, CallOK
<1>. QED
  BY <1>2, <1>3, Going DEF Progress

LEMMA TruncStatMoves ==
  ASSUME StateOK, NEW p \in Proc, TruncStat(p)
  PROVE  Moves(p) /\ FilesMove /\ Guarded(p)
<1>0. PICK c : c = call[p]
  OBVIOUS
<1> DEFINE n == Lookup[c.path]
           In(pc) == [fn |-> c.fn, pc |-> pc, path |-> c.path, fd |-> c.fd, want |-> c.want,
                      size |-> Size(n), keep |-> <<>>]
<1>1. ~Idle(p) /\ c.pc = "tstat" /\ UNCHANGED file
  BY <1>0 DEF TruncStat, At
<1>2. c \in SizeRec
  BY <1>0, <1>1, UnderWay, Phase
<1>3. c.path \in Path /\ c.want \in Nat
  BY <1>2 DEF SizeRec
<1>4. n \in Node
  BY <1>3, Bounds
<1>5. Size(n) \in Nat
  BY <1>4, LenProperties DEF Size, StateOK, FilesOK, FileRec
<1>6. FilesMove /\ Guarded(p)
  BY <1>0, <1>1, FilesStay DEF InWindow
<1>7. ASSUME NEW r \in Reply, TruncDone(p, c, r)
      PROVE  Moves(p)
  BY <1>0, <1>1, <1>2, <1>7, TruncEnds
<1>8. ASSUME NEW pc \in {"grow", "keep", "tdelete"}, Goes(p, In(pc)), UNCHANGED fdtab,
             pc = "grow" => c.want > Size(n), pc = "keep" => c.want # 0,
             pc = "tdelete" => c.want = 0
      PROVE  Moves(p)
  <2>1. PICK d, s : d = In(pc) /\ s = Size(n)
    OBVIOUS
  <2>2. d \in CutRec /\ d.pc = pc /\ d.want = c.want /\ d.size = s /\ d.keep = <<>> /\ s \in Nat /\ Len(<<>>) = 0
    BY <1>2, <1>5, <2>1, EmptySeq DEF CutRec, SizeRec
  <2>3. WorkLeft(c) = c.want + 3
    BY <1>2, Work
  <2>4. WorkLeft(d) = IF pc = "grow" THEN c.want - s ELSE IF pc = "keep" THEN c.want - 0 + 2 ELSE 2
    BY <2>2, Work
  <2>5. WorkLeft(d) < WorkLeft(c) /\ WorkLeft(d) > 0
    BY <1>3, <1>8, <2>1, <2>2, <2>3, <2>4
  <2>6. Within(d)
    BY <1>3, <1>8, <2>1, <2>2, Apart DEF CutOK
  <2>7. Goes(p, d)
    BY <1>8, <2>1
  <2>. QED
    BY <1>0, <1>1, <1>2, <1>8, <2>2, <2>5, <2>6, <2>7, TruncGoesOn
<1>9. CASE StatKind(n) = "none" /\ TruncDone(p, c, Err("EIO"))
  BY <1>6, <1>7, <1>9, Replies DEF Fault
<1>10. CASE StatKind(n) # "none" /\ c.want = Size(n) /\ TruncDone(p, c, Val(0))
  BY <1>6, <1>7, <1>10, Replies
<1>11. CASE StatKind(n) # "none" /\ c.want > Size(n) /\ Goes(p, In("grow")) /\ UNCHANGED fdtab
  BY <1>6, <1>8, <1>11
<1>12. CASE StatKind(n) # "none" /\ c.want < Size(n) /\ Goes(p, In(IF c.want = 0 THEN "tdelete" ELSE "keep")) /\ UNCHANGED fdtab
  BY <1>6, <1>8, <1>12
<1>. QED
  BY <1>0, <1>9, <1>10, <1>11, <1>12 DEF TruncStat

LEMMA TruncGrowMoves ==
  ASSUME StateOK, NEW p \in Proc, TruncGrow(p)
  PROVE  Moves(p) /\ FilesMove /\ Guarded(p)
<1>0. PICK c : c = call[p]
  OBVIOUS
<1>1. ~Idle(p) /\ c.pc = "grow" /\ ~InWindow(p)
  BY <1>0 DEF TruncGrow, At, InWindow
<1>2. c \in CutRec /\ c.size < c.want
  BY <1>0, <1>1, UnderWay, Phase, Apart DEF CutOK
<1>3. c.path \in Path /\ c.want \in Nat /\ c.size \in Nat
  BY <1>2 DEF CutRec
<1> DEFINE n == Create[c.path]
<1>4. n \in Node /\ FilesOK(file)
  BY <1>3, Bounds DEF StateOK
<1>5. PICK k : k = Smaller(c.want - c.size, Chunk)
  OBVIOUS
<1>6. k \in Nat /\ k > 0 /\ k <= c.want - c.size
  BY <1>2, <1>3, <1>5, Bounds DEF Smaller
<1>7. PICK d : d = Zeros(k)
  OBVIOUS
<1>8. d \in Seq(Nat) /\ Len(d) = k
  BY <1>6, <1>7, SeqDef, LenProperties DEF Zeros
<1>9. ASSUME NEW r \in Reply, TruncDone(p, c, r)
      PROVE  Moves(p)
  BY <1>0, <1>1, <1>2, <1>9, TruncEnds
<1>10. CASE WriteAtFails(n, c.size) /\ TruncDone(p, c, Err("EIO")) /\ UNCHANGED file
  BY <1>1, <1>9, <1>10, Replies, FilesStay DEF Fault
<1>11. CASE /\ ~WriteAtFails(n, c.size)
            /\ WriteAt(n, c.size, d)
            /\ IF Written(c.size, d) # Len(d) THEN TruncDone(p, c, Err("EIO"))
               ELSE IF c.size + Len(d) = c.want THEN TruncDone(p, c, Val(0))
               ELSE Goes(p, [c EXCEPT !.size = @ + Len(d)]) /\ UNCHANGED fdtab
  <2>1. FilesOK(file') /\ Existing(file') = Existing(file) \cup {n}
    BY <1>3, <1>4, <1>8, <1>11, WriteKeeps
  <2>2. FilesMove /\ Guarded(p)
    BY <1>1, <2>1 DEF FilesMove, Guarded
  <2>3. CASE TruncDone(p, c, Err("EIO")) \/ TruncDone(p, c, Val(0))
    BY <1>9, <2>2, <2>3, Replies DEF Fault
  <2>4. CASE c.size + Len(d) # c.want /\ Goes(p, [c EXCEPT !.size = @ + Len(d)]) /\ UNCHANGED fdtab
    <3>1. PICK s \in Nat : s = c.size + k
      BY <1>3, <1>6
    <3>2. PICK x : x = [c EXCEPT !.size = s]
      OBVIOUS
    <3>3. Goes(p, x) /\ s # c.want
      BY <1>8, <2>4, <3>1, <3>2
    <3>4. x \in CutRec /\ x.pc = "grow" /\ x.size = s /\ x.want = c.want
      BY <1>1, <1>2, <3>2 DEF CutRec
    <3>5. WorkLeft(x) = c.want - s /\ WorkLeft(c) = c.want - c.size
      BY <1>1, <1>2, <3>4, Work
    <3>6. c.size < s /\ s < c.want
      <4>1. PICK a \in Nat, b \in Nat : a = c.size /\ b = c.want
        BY <1>3
      <4>2. s = a + k /\ k <= b - a /\ s # b
        BY <1>6, <3>1, <3>3, <4>1
      <4>3. a < s /\ s < b
        BY <1>6, <4>2
      <4>. QED
        BY <4>1, <4>3
    <3>7. WorkLeft(x) < WorkLeft(c) /\ WorkLeft(x) > 0
      BY <1>3, <3>5, <3>6
    <3>8. Within(x)
      BY <3>4, <3>6, Apart DEF CutOK
    <3>. QED
      BY <1>0, <1>1, <1>2, <2>2, <2>4, <3>3, <3>4, <3>7, <3>8, TruncGoesOn
  <2>. QED
    BY <1>11, <2>3, <2>4
<1>. QED
  BY <1>0, <1>5, <1>7, <1>10, <1>11 DEF TruncGrow

LEMMA TruncKeepMoves ==
  ASSUME StateOK, NEW p \in Proc, TruncKeep(p)
  PROVE  Moves(p) /\ FilesMove /\ Guarded(p)
<1>0. PICK c : c = call[p]
  OBVIOUS
<1>1. ~Idle(p) /\ c.pc = "keep" /\ UNCHANGED file
  BY <1>0 DEF TruncKeep, At
<1>2. c \in CutRec /\ Len(c.keep) < c.want
  BY <1>0, <1>1, UnderWay, Phase, Apart DEF CutOK
<1>3. c.path \in Path /\ c.want \in Nat /\ c.keep \in Seq(Nat) /\ Len(c.keep) \in Nat
  BY <1>2, LenProperties DEF CutRec
<1> DEFINE n == Lookup[c.path]
<1>4. n \in Node /\ file[n].data \in Seq(Nat)
  BY <1>3, Bounds DEF StateOK, FilesOK, FileRec
<1>5. FilesMove /\ Guarded(p)
  BY <1>0, <1>1, FilesStay DEF InWindow
<1>6. PICK got : got = BytesAt(n, Len(c.keep), c.want - Len(c.keep))
  OBVIOUS
<1>7. got \in Seq(Nat) /\ Len(got) \in Nat /\ Len(got) <= c.want - Len(c.keep)
  <2> DEFINE m == Smaller(c.want - Len(c.keep), ReadMax)
  <2>1. m \in Nat /\ m <= c.want - Len(c.keep)
    BY <1>2, <1>3, Bounds DEF Smaller
  <2> HIDE DEF m
  <2>2. PICK s, k : s = file[n].data /\ k = Len(c.keep)
    OBVIOUS
  <2>3. Slice(s, k, m) \in Seq(Nat) /\ Len(Slice(s, k, m)) \in Nat /\ Len(Slice(s, k, m)) <= m
    BY <1>3, <1>4, <2>1, <2>2, SliceOf
  <2>4. got = Slice(s, k, m)
    BY <1>6, <2>2 DEF BytesAt, m
  <2>5. got \in Seq(Nat) /\ Len(got) \in Nat /\ Len(got) <= m
    BY <2>3, <2>4, Zenon
  <2>. QED
    BY <1>3, <2>1, <2>5
<1>8. CASE TruncDone(p, c, Err("EIO"))
  BY <1>0, <1>1, <1>2, <1>5, <1>8, TruncEnds, Replies DEF Fault
<1>9. CASE /\ got # <<>>
           /\ Goes(p, [c EXCEPT !.keep = @ \o got,
                                !.pc = IF Len(c.keep) + Len(got) = c.want THEN "tdelete" ELSE "keep"])
           /\ UNCHANGED fdtab
  <2>1. PICK b, pc, k, m : /\ b = c.keep \o got /\ k = Len(c.keep) /\ m = Len(got)
                           /\ pc = IF k + m = c.want THEN "tdelete" ELSE "keep"
    OBVIOUS
  <2>2. b \in Seq(Nat) /\ Len(b) = k + m /\ k \in Nat /\ m \in Nat /\ m > 0 /\ m <= c.want - k
    BY <1>3, <1>7, <1>9, <2>1, JoinOf, EmptySeq
  <2>3. PICK d : d = [c EXCEPT !.keep = b, !.pc = pc]
    OBVIOUS
  <2>4. Goes(p, d)
    BY <1>9, <2>1, <2>3
  <2>5. d \in CutRec /\ d.pc = pc /\ d.want = c.want /\ d.keep = b /\ pc \in {"tdelete", "keep"}
    BY <1>2, <2>1, <2>2, <2>3 DEF CutRec
  <2>6. WorkLeft(c) = c.want - k + 2 /\ WorkLeft(d) = IF pc = "keep" THEN c.want - (k + m) + 2 ELSE 2
    BY <1>1, <1>2, <2>1, <2>2, <2>5, Work
  <2>7. PICK w \in Nat : w = c.want /\ k < w
    BY <1>2, <1>3, <2>1
  <2>8. k + m <= w /\ (pc = "keep" <=> k + m # w) /\ (pc = "tdelete" <=> k + m = w)
    <3>1. m <= w - k
      BY <2>2, <2>7
    <3>. QED
      BY <2>1, <2>2, <2>7, <3>1
  <2>9. WorkLeft(d) < WorkLeft(c) /\ WorkLeft(d) > 0
    <3>1. WorkLeft(c) = w - k + 2 /\ WorkLeft(d) = IF pc = "keep" THEN w - (k + m) + 2 ELSE 2
      BY <2>6, <2>7
    <3>2. CASE pc = "keep"
      <4>1. WorkLeft(d) = w - (k + m) + 2 /\ k + m <= w /\ k \in Nat /\ m \in Nat /\ m > 0
        BY <2>2, <2>8, <3>1, <3>2
      <4>. QED
        BY <2>7, <3>1, <4>1
    <3>3. CASE pc # "keep"
      BY SMTT(30), <2>2, <2>7, <3>1, <3>3
    <3>. QED
      BY <3>2, <3>3
  <2>10. Within(d)
    <3>1. Len(d.keep) = k + m /\ d.want = w /\ d.pc \in {"tdelete", "keep"}
      BY <2>2, <2>5, <2>7
    <3>2. d.pc = "keep" => Len(d.keep) < d.want
      BY SMTT(30), <2>2, <2>5, <2>7, <2>8, <3>1
    <3>3. d.pc = "tdelete" => Len(d.keep) = d.want
      BY <2>5, <2>8, <3>1
    <3>. QED
      BY <2>5, <3>1, <3>2, <3>3, Apart DEF CutOK
  <2>. QED
    BY <1>0, <1>1, <1>2, <1>5, <1>9, <2>4, <2>5, <2>9, <2>10, TruncGoesOn
<1>. QED
  BY <1>0, <1>6, <1>8, <1>9 DEF TruncKeep

LEMMA TruncDeleteMoves ==
  ASSUME StateOK, NEW p \in Proc, TruncDelete(p)
  PROVE  Moves(p) /\ FilesMove /\ Guarded(p)
<1>0. PICK c : c = call[p]
  OBVIOUS
<1>1. PICK n : n = Lookup[c.path]
  OBVIOUS
<1>2. ~Idle(p) /\ c.pc = "tdelete" /\ Delete(n) /\ Goes(p, [c EXCEPT !.pc = "twrite"]) /\ UNCHANGED fdtab
  BY <1>0, <1>1 DEF TruncDelete, At
<1>3. c \in CutRec /\ Len(c.keep) = c.want
  BY <1>0, <1>2, UnderWay, Phase, Apart DEF CutOK
<1>4. n \in Node
  BY <1>1, <1>3, Bounds DEF CutRec
<1>5. PICK d : d = [c EXCEPT !.pc = "twrite"]
  OBVIOUS
<1>6. d \in CutRec /\ d.pc = "twrite" /\ d.path = c.path /\ d.fn # "none" /\ d.keep = c.keep /\ d.want = c.want
  BY <1>3, <1>5 DEF CutRec
<1>7. WorkLeft(d) = 1 /\ WorkLeft(c) = 2 /\ Within(d)
  BY <1>2, <1>3, <1>6, Work, Apart DEF CutOK
<1>8. Moves(p) /\ call'[p] = d
  BY <1>0, <1>2, <1>3, <1>5, <1>6, <1>7, TruncGoesOn
<1>9. InWindow(p)' /\ Lookup[call'[p].path] = n
  BY <1>1, <1>6, <1>8 DEF InWindow, Idle
<1>10. ~InWindow(p) /\ FilesOK(file)
  BY <1>0, <1>2 DEF InWindow, StateOK
<1>11. FilesOK(file') /\ Existing(file') \subseteq Existing(file) /\ Existing(file) \ Existing(file') \subseteq {n}
  BY <1>2, <1>4, <1>10, DeleteKeeps
<1>. QED
  BY <1>8, <1>9, <1>10, <1>11 DEF FilesMove, Guarded

LEMMA TruncWriteMoves ==
  ASSUME StateOK, NEW p \in Proc, TruncWrite(p)
  PROVE  Moves(p) /\ FilesMove /\ Guarded(p)
<1>0. PICK c : c = call[p]
  OBVIOUS
<1>1. ~Idle(p) /\ c.pc = "twrite"
  BY <1>0 DEF TruncWrite, At
<1>2. c \in CutRec /\ Len(c.keep) = c.want
  BY <1>0, <1>1, UnderWay, Phase, Apart DEF CutOK
<1>3. c.path \in Path /\ c.want \in Nat /\ c.keep \in Seq(Nat)
  BY <1>2 DEF CutRec
<1> DEFINE n == Create[c.path]
<1>4. n \in Node /\ FilesOK(file)
  BY <1>3, Bounds DEF StateOK
<1>5. PICK d : d = SubSeq(c.keep, 1, Smaller(c.want, Chunk))
  OBVIOUS
<1>6. d \in Seq(Nat)
  <2>1. PICK m \in Nat : m = Smaller(c.want, Chunk) /\ m <= Len(c.keep)
    BY <1>2, <1>3, Bounds DEF Smaller
  <2>. QED
    BY <1>3, <1>5, <2>1, PartOf
<1>7. CASE WriteAtFails(n, 0) /\ TruncDone(p, c, Err("EIO")) /\ UNCHANGED file
  <2>1. Moves(p) /\ call'[p] = Done(Err("EIO"))
    BY <1>0, <1>1, <1>2, <1>7, TruncEnds, Replies DEF Fault
  <2>2. Existing(file') = Existing(file)
    BY <1>7
  <2>. QED
    BY <1>7, <2>1, <2>2, FilesStay DEF Guarded
<1>8. CASE /\ ~WriteAtFails(n, 0) /\ WriteAt(n, 0, d)
           /\ TruncDone(p, c, IF Written(0, d) = c.want THEN Val(0) ELSE Err("EIO"))
  <2>1. Moves(p)
    <3>1. PICK r : r = IF Written(0, d) = c.want THEN Val(0) ELSE Err("EIO")
      OBVIOUS
    <3>2. r \in Reply
      BY <3>1, Replies DEF Fault
    <3>. QED
      BY <1>0, <1>1, <1>2, <1>8, <3>1, <3>2, TruncEnds
  <2>2. FilesOK(file') /\ Existing(file') = Existing(file) \cup {n}
    BY <1>4, <1>8, <1>6, WriteKeeps
  <2>. QED
    BY <1>0, <2>1, <2>2 DEF FilesMove, Guarded
<1>. QED
  BY <1>0, <1>5, <1>7, <1>8 DEF TruncWrite
-----------------------------------------------------------------------------
(* mkdir and opendir.                                                        *)

LEMMA MkdirStatMoves ==
  ASSUME StateOK, NEW p \in Proc, MkdirStat(p)
  PROVE  Moves(p) /\ FilesMove /\ Guarded(p)
<1>0. PICK c : c = call[p]
  OBVIOUS
<1>1. ~Idle(p) /\ c.pc = "mstat" /\ UNCHANGED file /\ UNCHANGED fdtab
  BY <1>0 DEF MkdirStat, At
<1>2. c \in MkdirRec \cup MkdtempRec /\ Within(c)
  BY <1>0, <1>1, UnderWay, Phase
<1>3. FilesMove /\ Guarded(p)
  BY <1>0, <1>1, FilesStay DEF InWindow
<1>4. CASE Taken(p, c)
  BY <1>0, <1>1, <1>2, <1>3, <1>4, TakenMoves
<1>5. CASE Goes(p, [c EXCEPT !.pc = "mkdir"])
  <2>1. PICK d, t0 : d = [c EXCEPT !.pc = "mkdir"] /\ t0 = fdtab[p]
    OBVIOUS
  <2>2. TableOK(t0) /\ fdtab' = [fdtab EXCEPT ![p] = t0]
    BY <1>1, <2>1, TableKept DEF StateOK
  <2>3. CASE c \in MkdirRec
    <3>1. d \in MkdirRec /\ d.pc = "mkdir"
      BY <2>1, <2>3 DEF MkdirRec
    <3>2. WorkLeft(d) = 1 /\ WorkLeft(c) = 3
      BY <1>1, <2>3, <3>1, Work
    <3>3. d \in Busy /\ CallOK(d, t0)
      BY <3>1, Apart DEF Busy, CallOK
    <3>4. Progress(call[p], d) /\ Goes(p, d)
      BY <1>0, <1>5, <2>1, <3>2 DEF Progress
    <3>. QED
      BY <1>1, <1>3, <2>2, <3>3, <3>4, Going
  <2>4. CASE c \in MkdtempRec
    <3>1. d \in MkdtempRec /\ d.pc = "mkdir" /\ d.tries = c.tries
      BY <2>1, <2>4 DEF MkdtempRec
    <3>2. c.tries \in 1 .. Tries
      BY <1>2, <2>4, Apart
    <3>3. WorkLeft(d) = 4 * (Tries - c.tries) + 2 /\ WorkLeft(c) = 4 * (Tries - c.tries) + 3
      BY <1>1, <2>4, <3>1, Work
    <3>4. WorkLeft(d) < WorkLeft(c) /\ WorkLeft(d) > 0
      BY <3>2, <3>3, Bounds
    <3>5. d \in Busy /\ CallOK(d, t0)
      BY <3>1, <3>2, Apart DEF Busy, CallOK
    <3>. QED
      BY <1>0, <1>1, <1>3, <1>5, <2>1, <2>2, <3>4, <3>5, Going DEF Progress
  <2>. QED
    BY <1>2, <2>3, <2>4
<1>. QED
  BY <1>0, <1>4, <1>5 DEF MkdirStat

LEMMA MkdirMakeMoves ==
  ASSUME StateOK, NEW p \in Proc, MkdirMake(p)
  PROVE  Moves(p) /\ FilesMove /\ Guarded(p)
<1>0. PICK c : c = call[p]
  OBVIOUS
<1>1. ~Idle(p) /\ c.pc = "mkdir" /\ UNCHANGED fdtab /\ ~InWindow(p)
  BY <1>0 DEF MkdirMake, At, InWindow
<1>2. c \in MkdirRec \cup MkdtempRec
  BY <1>0, <1>1, UnderWay, Phase
<1>3. PICK n \in Node : n = Create[c.path]
  BY <1>2, Bounds DEF MkdirRec, MkdtempRec
<1>4. CASE Return(p, Err("EIO")) /\ UNCHANGED file
  BY <1>1, <1>4, Failing, FilesStay DEF Fault
<1>5. CASE file' = [file EXCEPT ![n] = [kind |-> "dir", data |-> <<>>]] /\ Return(p, Val(0))
  <2>1. PICK x : x = [kind |-> "dir", data |-> <<>>]
    OBVIOUS
  <2>2. x \in FileRec /\ FileOK(x) /\ x.kind = "dir"
    BY <2>1, Bounds, EmptySeq DEF FileRec, FileOK
  <2>3. file' = [file EXCEPT ![n] = x] /\ FilesOK(file)
    BY <1>5, <2>1 DEF StateOK
  <2>4. FilesOK(file')
    BY <2>2, <2>3 DEF FilesOK
  <2>5. Existing(file') = Existing(file) \cup {n}
    BY <2>2, <2>3 DEF FilesOK, Existing
  <2>6. PICK t0, r : t0 = fdtab[p] /\ r = Val(0)
    OBVIOUS
  <2>7. TableOK(t0) /\ fdtab' = [fdtab EXCEPT ![p] = t0] /\ r \in Reply
    BY <1>1, <2>6, TableKept, Replies DEF StateOK
  <2>8. Moves(p)
    BY <1>1, <1>5, <2>6, <2>7, Returning
  <2>. QED
    BY <1>1, <2>4, <2>5, <2>8 DEF FilesMove, Guarded
<1>. QED
  BY <1>0, <1>3, <1>4, <1>5 DEF MkdirMake

\* A listing is as long as there are files.
LEMMA DirSize ==
  ASSUME NEW d, NEW f, DirOK(d, f)
  PROVE  /\ Len(d) \in Nat /\ Len(d) = Cardinality(Existing(f)) /\ Len(d) <= Cardinality(Node)
         /\ Cardinality(Node) \in Nat /\ ToSet(d) = Existing(f)
<1>1. d \in Seq(Node) /\ Len(d) \in Nat /\ DOMAIN d = 1 .. Len(d) /\ \A i \in 1 .. Len(d) : d[i] \in Node
  BY LenProperties, ElementOfSeq DEF DirOK
<1> DEFINE E == Existing(f)
<1>2. /\ \A i \in 1 .. Len(d) : d[i] \in E
      /\ \A n \in E : \E i \in 1 .. Len(d) : d[i] = n
  BY <1>1 DEF DirOK, Existing
<1>3. E \in SUBSET Node
  BY DEF Existing
<1>4. ToSet(d) = E
  BY <1>1, <1>2 DEF ToSet
<1> HIDE DEF E
<1>5. d \in [1 .. Len(d) -> E]
  BY <1>1, <1>2
<1>6. \A i, j \in 1 .. Len(d) : d[i] = d[j] => i = j
  BY DEF DirOK
<1>7. d \in Bijection(1 .. Len(d), E)
  BY <1>2, <1>5, <1>6 DEF Bijection, Injection, Surjection, IsInjective
<1>8. ExistsBijection(1 .. Len(d), E)
  BY <1>7 DEF ExistsBijection
<1>9. IsFiniteSet(1 .. Len(d)) /\ Cardinality(1 .. Len(d)) = Len(d)
  <2>1. PICK n \in Nat : n = Len(d)
    BY <1>1
  <2>2. IsFiniteSet(1 .. n) /\ Cardinality(1 .. n) = IF 1 > n THEN 0 ELSE n - 1 + 1
    BY FS_Interval
  <2>3. Cardinality(1 .. n) = n
    BY <2>2
  <2>. QED
    BY SMTT(30), <2>1, <2>2, <2>3
<1>10. Cardinality(E) = Len(d)
  BY <1>8, <1>9, FS_Bijection
<1>11. IsFiniteSet(Node)
  BY ConstantsOK
<1>12. Cardinality(E) <= Cardinality(Node) /\ Cardinality(Node) \in Nat
  BY <1>3, <1>11, FS_Subset, FS_CardinalityType
<1>. QED
  BY <1>1, <1>4, <1>10, <1>12 DEF E

LEMMA DirStatMoves ==
  ASSUME StateOK, NEW p \in Proc, DirStat(p)
  PROVE  Moves(p) /\ FilesMove /\ Guarded(p)
<1>0. PICK c : c = call[p]
  OBVIOUS
<1>1. ~Idle(p) /\ c.pc = "dstat" /\ UNCHANGED file /\ UNCHANGED fdtab
  BY <1>0 DEF DirStat, At
<1>2. c \in ListRec /\ Len(c.ents) <= Cardinality(Node)
  BY <1>0, <1>1, UnderWay, Phase, Apart
<1>3. FilesMove /\ Guarded(p)
  BY <1>0, <1>1, FilesStay DEF InWindow
<1>4. PICK t0 : t0 = fdtab[p]
  OBVIOUS
<1>5. TableOK(t0) /\ fdtab' = [fdtab EXCEPT ![p] = t0]
  BY <1>1, <1>4, TableKept DEF StateOK
<1>6. CASE Return(p, Err("ENOENT"))
  <2>1. Err("ENOENT") \in Reply
    BY Replies DEF Fault
  <2>. QED
    BY <1>1, <1>3, <1>5, <1>6, <2>1, Returning
<1>7. CASE Goes(p, [c EXCEPT !.pc = "list"])
  <2>1. PICK d : d = [c EXCEPT !.pc = "list"]
    OBVIOUS
  <2>2. d \in ListRec /\ d.pc = "list" /\ d.ents = c.ents /\ Goes(p, d)
    BY <1>2, <1>7, <2>1 DEF ListRec
  <2>3. PICK k \in Nat, z \in Nat : k = Len(c.ents) /\ z = Cardinality(Node)
    BY <1>2, LenProperties, FS_CardinalityType, ConstantsOK DEF ListRec
  <2>4. WorkLeft(c) = z + 2 /\ WorkLeft(d) = z + 1 - k /\ k <= z
    BY <1>1, <1>2, <2>2, <2>3, Work
  <2>5. WorkLeft(d) < WorkLeft(c) /\ WorkLeft(d) > 0
    BY <2>3, <2>4
  <2>6. d \in Busy /\ CallOK(d, t0)
    BY <1>2, <2>2, Apart DEF Busy, CallOK
  <2>. QED
    BY <1>0, <1>1, <1>3, <1>5, <2>2, <2>5, <2>6, Going DEF Progress
<1>. QED
  BY <1>0, <1>6, <1>7 DEF DirStat

LEMMA ListPageMoves ==
  ASSUME StateOK, NEW p \in Proc, ListPage(p)
  PROVE  Moves(p) /\ FilesMove /\ Guarded(p)
<1>0. PICK c, page : c = call[p] /\ page = Slice(dir, Len(c.ents), PageMax)
  OBVIOUS
<1>1. ~Idle(p) /\ c.pc = "list" /\ UNCHANGED file /\ UNCHANGED fdtab
  BY <1>0 DEF ListPage, At
<1>2. c \in ListRec /\ Len(c.ents) <= Cardinality(Node)
  BY <1>0, <1>1, UnderWay, Phase, Apart
<1>3. c.ents \in Seq(Node) /\ Len(c.ents) \in Nat
  BY <1>2, LenProperties DEF ListRec
<1>4. FilesMove /\ Guarded(p)
  BY <1>0, <1>1, FilesStay DEF InWindow
<1>5. dir \in Seq(Node) /\ Len(dir) \in Nat /\ Len(dir) <= Cardinality(Node) /\ Cardinality(Node) \in Nat
  BY DirSize DEF StateOK, DirOK
<1>6. /\ page \in Seq(Node) /\ Len(page) \in Nat
      /\ Len(page) > 0 => Len(c.ents) + Len(page) <= Len(dir)
  <2>1. PICK d, k : d = dir /\ k = Len(c.ents)
    OBVIOUS
  <2>2. d \in Seq(Node) /\ k \in Nat /\ PageMax \in Nat /\ page = Slice(d, k, PageMax)
    BY <1>0, <1>3, <1>5, <2>1, Bounds
  <2>3. /\ page \in Seq(Node) /\ Len(page) \in Nat
        /\ Len(page) > 0 => k + Len(page) <= Len(d)
    BY <2>2, SliceOf
  <2>. QED
    BY <2>1, <2>3
<1>7. PICK e0, e : e0 = c.ents \o page /\ e = Slice(e0, 0, DirListMax)
  OBVIOUS
<1>8. /\ e \in Seq(Node) /\ Len(e) \in Nat
      /\ Len(e) < DirListMax => Len(e) = Len(c.ents) + Len(page)
  <2>1. e0 \in Seq(Node) /\ Len(e0) = Len(c.ents) + Len(page) /\ Len(e0) \in Nat
    BY <1>3, <1>6, <1>7, JoinOf
  <2>2. PICK j \in Nat : j = Smaller(0 + DirListMax, Len(e0)) /\ j <= Len(e0) /\ (j = DirListMax \/ j = Len(e0))
    BY <2>1, Bounds DEF Smaller
  <2>3. e = SubSeq(e0, 0 + 1, j)
    BY <1>7, <2>2 DEF Slice
  <2>4. e = SubSeq(e0, 1, j)
    BY <2>3
  <2>5. e \in Seq(Node) /\ Len(e) = IF 1 <= j THEN j - 1 + 1 ELSE 0
    BY <2>1, <2>2, <2>4, PartOf
  <2>. QED
    BY <2>1, <2>2, <2>5, Bounds
<1>9. PICK t0 : t0 = fdtab[p]
  OBVIOUS
<1>10. TableOK(t0) /\ fdtab' = [fdtab EXCEPT ![p] = t0]
  BY <1>1, <1>9, TableKept DEF StateOK
<1>11. CASE \E r \in Reply : Return(p, r)
  BY <1>1, <1>4, <1>10, <1>11, Returning
<1>12. CASE ~(Len(page) < PageMax \/ Len(e) >= DirListMax) /\ Goes(p, [c EXCEPT !.ents = e])
  <2>1. PICK d : d = [c EXCEPT !.ents = e]
    OBVIOUS
  <2>2. d \in ListRec /\ d.pc = c.pc /\ d.ents = e /\ Goes(p, d)
    BY <1>2, <1>8, <1>12, <2>1 DEF ListRec
  <2>3. PICK k \in Nat, m \in Nat, l \in Nat, z \in Nat :
          k = Len(c.ents) /\ m = Len(page) /\ l = Len(dir) /\ z = Cardinality(Node)
    BY <1>3, <1>5, <1>6
  <2>4. m > 0 /\ k + m <= l /\ l <= z /\ Len(e) = k + m
    BY SMTT(30), <1>5, <1>6, <1>8, <1>12, <2>3, Bounds
  <2>5. WorkLeft(c) = z + 1 - k /\ WorkLeft(d) = z + 1 - (k + m)
    BY <1>1, <1>2, <2>2, <2>3, <2>4, Work
  <2>6. WorkLeft(d) < WorkLeft(c) /\ WorkLeft(d) > 0
    BY <2>4, <2>5
  <2>7. Len(d.ents) <= Cardinality(Node)
    BY <2>2, <2>3, <2>4
  <2>8. d \in Busy /\ CallOK(d, t0)
    BY <2>2, <2>7, Apart DEF Busy, CallOK
  <2>. QED
    BY <1>0, <1>1, <1>4, <1>10, <2>2, <2>6, <2>8, Going DEF Progress
<1>13. Err("EIO") \in Reply /\ Entries(c.ents) \in Reply /\ Entries(e) \in Reply
  BY <1>3, <1>8, Replies DEF Fault
<1>. QED
  BY <1>0, <1>7, <1>11, <1>12, <1>13 DEF ListPage
-----------------------------------------------------------------------------
(* Calls of one request, and the end of a process.                           *)

LEMMA SingleMoves ==
  ASSUME StateOK, NEW p \in Proc, NEW r \in Reply, Single(p, r), NEW t, TableOK(t), fdtab' = [fdtab EXCEPT ![p] = t]
  PROVE  Moves(p) /\ ~InWindow(p)
<1>1. Idle(p) /\ calls[p] < MaxCalls[p] /\ Return(p, r)
  BY DEF Single
<1>. QED
  BY <1>1, Returning DEF InWindow

LEMMA LseekMoves ==
  ASSUME StateOK, NEW p \in Proc, NEW fd \in Fd, NEW whence \in {"set", "cur", "end"}, NEW offset \in {-1, 1},
         Lseek(p, fd, offset, whence)
  PROVE  Moves(p) /\ FilesMove /\ Guarded(p)
<1> DEFINE e == fdtab[p][fd]
           n == Lookup[e.path]
           base == CASE whence = "set" -> 0 [] whence = "cur" -> e.off [] whence = "end" -> Size(n)
           fails == (whence = "end" /\ StatKind(n) = "none") \/ base + offset < 0
<1>1. /\ IsFile(p, fd) /\ Single(p, IF fails THEN Err("EINVAL") ELSE Val(base + offset))
      /\ fdtab' = IF fails THEN fdtab ELSE [fdtab EXCEPT ![p][fd].off = base + offset]
      /\ UNCHANGED file
  BY DEF Lseek
<1>2. TableOK(fdtab[p]) /\ e \in Entry /\ e.off \in Nat /\ e.path \in Path
  BY <1>1 DEF StateOK, TableOK, Entry, IsFile
<1>3. n \in Node
  BY <1>2, Bounds
<1>4. Size(n) \in Nat
  BY <1>3, LenProperties DEF Size, StateOK, FilesOK, FileRec
<1>5. base \in Nat
  BY <1>2, <1>4
<1> HIDE DEF base, n
<1>6. CASE fails
  <2>1. Single(p, Err("EINVAL")) /\ UNCHANGED fdtab
    BY <1>1, <1>6
  <2>2. PICK t, r : t = fdtab[p] /\ r = Err("EINVAL")
    OBVIOUS
  <2>3. TableOK(t) /\ fdtab' = [fdtab EXCEPT ![p] = t] /\ r \in Reply /\ Single(p, r)
    BY <1>2, <2>1, <2>2, TableKept, Replies DEF Fault
  <2>. QED
    BY <1>1, <2>3, SingleMoves, FilesStay
<1>7. CASE ~fails
  <2>1. PICK o \in Nat : o = base + offset
    BY <1>5, <1>7
  <2>2. Single(p, Val(o)) /\ fdtab' = [fdtab EXCEPT ![p][fd].off = o]
    BY <1>1, <1>7, <2>1
  <2>3. PICK t, r : t = [fdtab[p] EXCEPT ![fd].off = o] /\ r = Val(o)
    OBVIOUS
  <2>4. TableOK(t) /\ r \in Reply
    BY <1>2, <2>3, OffsetSet, Replies
  <2>5. fdtab' = [fdtab EXCEPT ![p] = t] /\ Single(p, r)
    BY <2>2, <2>3
  <2>. QED
    BY <1>1, <2>4, <2>5, SingleMoves, FilesStay
<1>. QED
  BY <1>6, <1>7

LEMMA DupMoves ==
  ASSUME StateOK, NEW p \in Proc, NEW fd \in Fd,
         Dup(p, fd) \/ Close(p, fd) \/ \E new \in Fd : Dup2(p, fd, new)
  PROVE  Moves(p) /\ FilesMove /\ Guarded(p)
<1>1. TableOK(fdtab[p]) /\ fdtab[p][fd] \in Entry /\ (fdtab[p][fd].kind = "file" => fdtab[p][fd].path \in Path)
  BY DEF StateOK, TableOK
<1>2. PICK e : e = fdtab[p][fd]
  OBVIOUS
<1>3. \A i \in Fd : i \in Int
  BY Bounds DEF Fd
<1>4. ASSUME NEW i \in Fd, NEW v \in Int, NEW x \in Entry, x.kind = "file" => x.path \in Path,
             fdtab' = [fdtab EXCEPT ![p][i] = x], Single(p, Val(v)), UNCHANGED file
      PROVE  Moves(p) /\ FilesMove /\ Guarded(p)
  <2>1. PICK t, r : t = [fdtab[p] EXCEPT ![i] = x] /\ r = Val(v)
    OBVIOUS
  <2>2. TableOK(t) /\ r \in Reply
    BY <1>1, <1>4, <2>1, EntrySet, Replies
  <2>3. fdtab' = [fdtab EXCEPT ![p] = t] /\ Single(p, r)
    BY <1>4, <2>1
  <2>. QED
    BY <1>4, <2>2, <2>3, SingleMoves, FilesStay
<1>5. ASSUME NEW r \in Reply, UNCHANGED fdtab, Single(p, r), UNCHANGED file
      PROVE  Moves(p) /\ FilesMove /\ Guarded(p)
  <2>1. PICK t : t = fdtab[p]
    OBVIOUS
  <2>2. TableOK(t) /\ fdtab' = [fdtab EXCEPT ![p] = t]
    BY <1>1, <1>5, <2>1, TableKept
  <2>. QED
    BY <1>5, <2>2, SingleMoves, FilesStay
<1>6. CASE Dup(p, fd)
  <2>1. PICK nf : nf = FdAlloc(fdtab[p])
    OBVIOUS
  <2>2. nf = -1 \/ nf \in Fd
    BY <2>1, FdAllocOf
  <2>3. CASE nf < 0
    <3>1. UNCHANGED fdtab /\ Single(p, Err("EMFILE")) /\ UNCHANGED file
      BY <1>6, <2>1, <2>3 DEF Dup
    <3>. QED
      BY <1>5, <3>1, Replies DEF Fault
  <2>4. CASE ~(nf < 0)
    <3>1. nf \in Fd /\ nf \in Int
      BY <1>3, <2>2, <2>4
    <3>2. fdtab' = [fdtab EXCEPT ![p][nf] = e] /\ Single(p, Val(nf)) /\ UNCHANGED file
      BY <1>2, <1>6, <2>1, <2>4 DEF Dup
    <3>. QED
      BY <1>1, <1>2, <1>4, <3>1, <3>2
  <2>. QED
    BY <2>3, <2>4
<1>7. CASE Close(p, fd)
  <2>1. CASE fd < NStd
    <3>1. UNCHANGED fdtab /\ Single(p, Val(0)) /\ UNCHANGED file
      BY <1>7, <2>1 DEF Close
    <3>. QED
      BY <1>5, <3>1, Replies
  <2>2. CASE ~(fd < NStd)
    <3>1. fdtab' = [fdtab EXCEPT ![p][fd] = FreeFd] /\ Single(p, Val(0)) /\ UNCHANGED file
      BY <1>7, <2>2 DEF Close
    <3>2. PICK x \in Entry : x = FreeFd /\ x.kind # "file"
      BY FreshTable
    <3>3. PICK v \in Int : v = 0
      OBVIOUS
    <3>4. fdtab' = [fdtab EXCEPT ![p][fd] = x] /\ Single(p, Val(v)) /\ UNCHANGED file
      BY <3>1, <3>2, <3>3
    <3>5. x.kind = "file" => x.path \in Path
      BY <3>2
    <3>. QED
      BY <1>4, <3>4, <3>5
  <2>. QED
    BY <2>1, <2>2
<1>8. ASSUME NEW new \in Fd, Dup2(p, fd, new)
      PROVE  Moves(p) /\ FilesMove /\ Guarded(p)
  <2>1. fdtab' = [fdtab EXCEPT ![p][new] = e] /\ Single(p, Val(new)) /\ UNCHANGED file
    BY <1>2, <1>8 DEF Dup2
  <2>. QED
    BY <1>1, <1>2, <1>3, <1>4, <2>1
<1>. QED
  BY <1>6, <1>7, <1>8

LEMMA KilledMoves ==
  ASSUME StateOK, NEW p \in Proc, Killed(p)
  PROVE  Moves(p) /\ FilesMove /\ Guarded(p)
<1>1. ~Idle(p) /\ Return(p, Err("killed")) /\ fdtab' = [fdtab EXCEPT ![p] = NewTable] /\ UNCHANGED file
  BY DEF Killed
<1>2. PICK r, t : r = Err("killed") /\ t = NewTable
  OBVIOUS
<1>3. r \in Reply /\ TableOK(t)
  BY <1>2, Replies, FreshTable DEF Fault
<1>4. Moves(p) /\ call'[p] = Done(r)
  BY <1>1, <1>2, <1>3, Returning
<1>5. Existing(file') = Existing(file) /\ FilesMove
  BY <1>1, FilesStay
<1>. QED
  BY <1>2, <1>4, <1>5 DEF Guarded
-----------------------------------------------------------------------------
(* The directory follows its files.                                          *)

LEMMA RemovedOf ==
  ASSUME NEW S, NEW s \in Seq(S), NEW i \in 1 .. Len(s)
  PROVE  /\ RemoveAt(s, i) \in Seq(S) /\ Len(RemoveAt(s, i)) = Len(s) - 1
         /\ \A j \in 1 .. Len(s) - 1 : RemoveAt(s, i)[j] = IF j < i THEN s[j] ELSE s[j + 1]
<1> DEFINE u == SubSeq(s, 1, i - 1)
           v == SubSeq(s, i + 1, Len(s))
<1>0. Len(s) \in Nat /\ i \in Int /\ 1 <= i /\ i <= Len(s) /\ \A j \in 1 .. Len(s) : s[j] \in S
  BY LenProperties, ElementOfSeq
<1>1. u \in Seq(S) /\ Len(u) = i - 1 /\ \A j \in 1 .. i - 1 : u[j] = s[j]
  <2>1. 1 \in Int /\ i - 1 \in Int /\ \A j \in 1 .. i - 1 : s[j] \in S
    BY <1>0
  <2>2. /\ u \in Seq(S) /\ Len(u) = IF 1 <= i - 1 THEN i - 1 - 1 + 1 ELSE 0
        /\ \A j \in 1 .. i - 1 - 1 + 1 : u[j] = s[1 + j - 1]
    BY <2>1, SubSeqProperties
  <2> HIDE DEF u
  <2>3. Len(u) = i - 1
    BY <1>0, <2>2
  <2>4. ASSUME NEW j \in 1 .. i - 1
        PROVE  u[j] = s[j]
    <3>1. j \in 1 .. i - 1 - 1 + 1 /\ 1 + j - 1 = j
      BY <1>0
    <3>2. u[j] = s[1 + j - 1]
      BY <2>2, <3>1
    <3>. QED
      BY <3>1, <3>2
  <2>. QED
    BY <2>2, <2>3, <2>4
<1>2. v \in Seq(S) /\ Len(v) = Len(s) - i /\ \A j \in 1 .. Len(s) - i : v[j] = s[i + j]
  <2>1. i + 1 \in Int /\ Len(s) \in Int /\ \A j \in i + 1 .. Len(s) : s[j] \in S
    BY <1>0
  <2>2. /\ v \in Seq(S) /\ Len(v) = IF i + 1 <= Len(s) THEN Len(s) - (i + 1) + 1 ELSE 0
        /\ \A j \in 1 .. Len(s) - (i + 1) + 1 : v[j] = s[(i + 1) + j - 1]
    BY <2>1, SubSeqProperties
  <2> HIDE DEF v
  <2>3. Len(v) = Len(s) - i
    BY <1>0, <2>2
  <2>4. ASSUME NEW j \in 1 .. Len(s) - i
        PROVE  v[j] = s[i + j]
    <3>1. j \in 1 .. Len(s) - (i + 1) + 1 /\ (i + 1) + j - 1 = i + j
      BY <1>0
    <3>2. v[j] = s[(i + 1) + j - 1]
      BY <2>2, <3>1
    <3>. QED
      BY <3>1, <3>2
  <2>. QED
    BY <2>2, <2>3, <2>4
<1> HIDE DEF u, v
<1>3. /\ u \o v \in Seq(S) /\ Len(u \o v) = Len(u) + Len(v)
      /\ \A j \in 1 .. Len(u) + Len(v) : (u \o v)[j] = IF j <= Len(u) THEN u[j] ELSE v[j - Len(u)]
  BY <1>1, <1>2, ConcatProperties
<1>5. RemoveAt(s, i) = u \o v
  BY DEF RemoveAt, u, v
<1>6. Len(u) + Len(v) = Len(s) - 1
  BY <1>0, <1>1, <1>2
<1>7. ASSUME NEW j \in 1 .. Len(s) - 1
      PROVE  (u \o v)[j] = IF j < i THEN s[j] ELSE s[j + 1]
  <2>1. CASE j < i
    BY <1>0, <1>1, <1>3, <1>6, <2>1
  <2>2. CASE ~(j < i)
    <3>1. j - (i - 1) \in 1 .. Len(s) - i /\ i + (j - (i - 1)) = j + 1 /\ ~(j <= i - 1)
      BY <1>0, <2>2
    <3>2. (u \o v)[j] = v[j - (i - 1)]
      BY <1>1, <1>3, <1>6, <3>1
    <3>3. v[j - (i - 1)] = s[i + (j - (i - 1))]
      BY <1>2, <3>1
    <3>. QED
      BY <2>2, <3>1, <3>2, <3>3
  <2>. QED
    BY <2>1, <2>2
<1>. QED
  BY <1>3, <1>5, <1>6, <1>7

LEMMA InsertedOf ==
  ASSUME NEW S, NEW s \in Seq(S), NEW i \in 1 .. Len(s) + 1, NEW e \in S
  PROVE  /\ InsertAt(s, i, e) \in Seq(S) /\ Len(InsertAt(s, i, e)) = Len(s) + 1
         /\ \A j \in 1 .. Len(s) + 1 : InsertAt(s, i, e)[j] = IF j < i THEN s[j] ELSE IF j = i THEN e ELSE s[j - 1]
<1>1. PICK n \in Nat, h \in Nat : n = Len(s) /\ h = i - 1 /\ h <= n /\ i = h + 1
  BY LenProperties
<1> DEFINE u == SubSeq(s, 1, h)
           v == SubSeq(s, i, n)
           w == u \o <<e>>
<1>2. u \in Seq(S) /\ Len(u) = h /\ \A k \in 1 .. h : u[k] = s[k]
  <2>1. /\ u \in Seq(S) /\ Len(u) = IF 1 <= h THEN h - 1 + 1 ELSE 0
        /\ \A k \in 1 .. Len(u) : u[k] = s[1 + k - 1]
    BY <1>1, PartOf
  <2> HIDE DEF u
  <2>2. Len(u) = h
    BY <2>1
  <2>3. ASSUME NEW k \in 1 .. h
        PROVE  u[k] = s[k]
    <3>1. k \in 1 .. Len(u) /\ 1 + k - 1 = k
      BY <2>2
    <3>2. u[k] = s[1 + k - 1]
      BY <2>1, <3>1
    <3>. QED
      BY <3>1, <3>2
  <2>. QED
    BY <2>1, <2>2, <2>3
<1>3. v \in Seq(S) /\ Len(v) = n - h /\ \A k \in 1 .. n - h : v[k] = s[h + k]
  <2>1. /\ v \in Seq(S) /\ Len(v) = IF i <= n THEN n - i + 1 ELSE 0
        /\ \A k \in 1 .. Len(v) : v[k] = s[i + k - 1]
    BY <1>1, PartOf
  <2> HIDE DEF v
  <2>2. Len(v) = n - h
    BY <1>1, <2>1
  <2>3. ASSUME NEW k \in 1 .. n - h
        PROVE  v[k] = s[h + k]
    <3>1. k \in 1 .. Len(v) /\ i + k - 1 = h + k
      BY <1>1, <2>2
    <3>2. v[k] = s[i + k - 1]
      BY <2>1, <3>1
    <3>. QED
      BY <3>1, <3>2
  <2>. QED
    BY <2>1, <2>2, <2>3
<1>4. <<e>> \in Seq(S) /\ Len(<<e>>) = 1 /\ <<e>>[1] = e
  OBVIOUS
<1>5. InsertAt(s, i, e) = w \o v
  BY <1>1 DEF InsertAt
<1> HIDE DEF u, v
<1>6. w \in Seq(S) /\ Len(w) = h + 1 /\ (\A k \in 1 .. h : w[k] = s[k]) /\ w[h + 1] = e
  <2>1. PICK one : one = <<e>>
    OBVIOUS
  <2>2. /\ u \o one \in Seq(S) /\ Len(u \o one) = Len(u) + Len(one)
        /\ \A k \in 1 .. Len(u) : (u \o one)[k] = u[k]
        /\ \A k \in 1 .. Len(one) : (u \o one)[Len(u) + k] = one[k]
    <3>1. u \in Seq(S) /\ one \in Seq(S)
      BY <1>2, <1>4, <2>1
    <3>. QED
      BY <3>1, JoinOf
  <2>3. (u \o one)[Len(u) + 1] = one[1]
    BY <1>4, <2>1, <2>2
  <2>. QED
    BY <1>2, <1>4, <2>1, <2>2, <2>3
<1> HIDE DEF w
<1>7. /\ w \o v \in Seq(S) /\ Len(w \o v) = Len(w) + Len(v)
      /\ \A k \in 1 .. Len(w) : (w \o v)[k] = w[k]
      /\ \A k \in 1 .. Len(v) : (w \o v)[Len(w) + k] = v[k]
  <2>1. w \in Seq(S) /\ v \in Seq(S)
    BY <1>3, <1>6
  <2>. QED
    BY <2>1, JoinOf
<1>8. Len(w \o v) = n + 1
  BY <1>1, <1>3, <1>6, <1>7
<1>9. ASSUME NEW j \in 1 .. n + 1
      PROVE  (w \o v)[j] = IF j < i THEN s[j] ELSE IF j = i THEN e ELSE s[j - 1]
  <2>1. CASE j < i
    <3>1. j \in 1 .. h /\ j \in 1 .. Len(w)
      BY <1>1, <1>6, <2>1
    <3>. QED
      BY <1>6, <1>7, <2>1, <3>1
  <2>2. CASE j = i
    <3>1. j = h + 1 /\ j \in 1 .. Len(w)
      BY <1>1, <1>6, <2>2
    <3>. QED
      BY <1>1, <1>6, <1>7, <2>2, <3>1
  <2>3. CASE j > i
    <3>1. PICK k \in Nat : k = j - (h + 1)
      BY <1>1, <2>3
    <3>2. k \in 1 .. n - h /\ j = (h + 1) + k /\ j - 1 = h + k
      BY <1>1, <2>3, <3>1
    <3>4. k \in 1 .. Len(v) /\ j = Len(w) + k
      BY <1>3, <1>6, <3>2
    <3>3. (w \o v)[Len(w) + k] = v[k] /\ v[k] = s[h + k]
      BY <1>3, <1>7, <3>2, <3>4
    <3>5. (w \o v)[j] = s[j - 1]
      BY <3>2, <3>3, <3>4, Zenon
    <3>6. ~(j < i) /\ j # i
      BY <1>1, <2>3
    <3>. QED
      BY <3>5, <3>6, Zenon
  <2>4. j < i \/ j = i \/ j > i
    BY <1>1
  <2>. QED
    BY <2>1, <2>2, <2>3, <2>4
<1>. QED
  BY <1>1, <1>5, <1>7, <1>8, <1>9

Lists(d, E) ==
  /\ d \in Seq(Node)
  /\ \A i, j \in 1 .. Len(d) : d[i] = d[j] => i = j
  /\ \A n \in Node : n \in E <=> \E i \in 1 .. Len(d) : d[i] = n

LEMMA RemoveLists ==
  ASSUME NEW d, NEW E, Lists(d, E), NEW i \in 1 .. Len(d)
  PROVE  Lists(RemoveAt(d, i), E \ {d[i]})
<1>1. PICK l \in Nat : l = Len(d)
  BY LenProperties DEF Lists
<1>2. PICK r : r = RemoveAt(d, i)
  OBVIOUS
<1>3. /\ r \in Seq(Node) /\ Len(r) = l - 1
      /\ \A j \in 1 .. l - 1 : r[j] = IF j < i THEN d[j] ELSE d[j + 1]
  <2>1. d \in Seq(Node)
    BY Zenon DEF Lists
  <2>2. /\ RemoveAt(d, i) \in Seq(Node) /\ Len(RemoveAt(d, i)) = Len(d) - 1
        /\ \A j \in 1 .. Len(d) - 1 : RemoveAt(d, i)[j] = IF j < i THEN d[j] ELSE d[j + 1]
    BY <2>1, RemovedOf, Zenon
  <2>. QED
    BY <1>1, <1>2, <2>2, Zenon
<1>4. /\ \A j, k \in 1 .. l : d[j] = d[k] => j = k
      /\ \A n \in Node : n \in E <=> \E k \in 1 .. l : d[k] = n
  BY <1>1 DEF Lists
<1>5. ASSUME NEW j \in 1 .. l - 1
      PROVE  \E k \in 1 .. l : k # i /\ r[j] = d[k] /\ k = IF j < i THEN j ELSE j + 1
  <2>1. CASE j < i
    <3>1. j \in 1 .. l /\ j # i /\ r[j] = d[j]
      BY <1>1, <1>3, <2>1
    <3>. QED
      BY <2>1, <3>1
  <2>2. CASE ~(j < i)
    <3>1. j + 1 \in 1 .. l /\ j + 1 # i /\ r[j] = d[j + 1]
      BY <1>1, <1>3, <2>2
    <3>. QED
      BY <2>2, <3>1
  <2>. QED
    BY <2>1, <2>2
<1>6. ASSUME NEW j \in 1 .. l - 1, NEW k \in 1 .. l - 1, r[j] = r[k]
      PROVE  j = k
  <2>1. PICK x \in 1 .. l : r[j] = d[x] /\ x = IF j < i THEN j ELSE j + 1
    BY <1>5
  <2>2. PICK y \in 1 .. l : r[k] = d[y] /\ y = IF k < i THEN k ELSE k + 1
    BY <1>5
  <2>3. x = y
    BY <1>4, <1>6, <2>1, <2>2
  <2>. QED
    BY <1>1, <2>1, <2>2, <2>3
<1>7. ASSUME NEW n \in Node
      PROVE  n \in E \ {d[i]} <=> \E j \in 1 .. l - 1 : r[j] = n
  <2>1. ASSUME n \in E, n # d[i]
        PROVE  \E j \in 1 .. l - 1 : r[j] = n
    <3>1. PICK k \in 1 .. l : d[k] = n
      BY <1>4, <2>1
    <3>2. k # i
      BY <2>1, <3>1
    <3>3. CASE k < i
      <4>1. k \in 1 .. l - 1 /\ r[k] = d[k]
        BY <1>1, <1>3, <3>3
      <4>. QED
        BY <3>1, <4>1
    <3>4. CASE k > i
      <4>1. PICK j \in 1 .. l - 1 : j + 1 = k /\ ~(j < i)
        BY <1>1, <3>4
      <4>2. r[j] = d[k]
        BY <1>3, <4>1
      <4>. QED
        BY <3>1, <4>2
    <3>. QED
      BY <1>1, <3>2, <3>3, <3>4
  <2>2. ASSUME NEW j \in 1 .. l - 1, r[j] = n
        PROVE  n \in E /\ n # d[i]
    <3>1. PICK k \in 1 .. l : k # i /\ r[j] = d[k]
      BY <1>5
    <3>2. i \in 1 .. l
      BY <1>1
    <3>. QED
      BY <1>4, <2>2, <3>1, <3>2
  <2>. QED
    BY <2>1, <2>2
<1>. QED
  BY <1>2, <1>3, <1>6, <1>7 DEF Lists

LEMMA InsertLists ==
  ASSUME NEW d, NEW E, Lists(d, E), NEW i \in 1 .. Len(d) + 1, NEW x \in Node, x \notin E
  PROVE  Lists(InsertAt(d, i, x), E \cup {x})
<1>1. PICK l \in Nat : l = Len(d)
  BY LenProperties DEF Lists
<1>2. PICK r : r = InsertAt(d, i, x)
  OBVIOUS
<1>3. /\ r \in Seq(Node) /\ Len(r) = l + 1
      /\ \A j \in 1 .. l + 1 : r[j] = IF j < i THEN d[j] ELSE IF j = i THEN x ELSE d[j - 1]
  <2>1. d \in Seq(Node)
    BY DEF Lists
  <2>2. /\ r \in Seq(Node) /\ Len(r) = Len(d) + 1
        /\ \A j \in 1 .. Len(d) + 1 : r[j] = IF j < i THEN d[j] ELSE IF j = i THEN x ELSE d[j - 1]
    <3>1. InsertAt(d, i, x) \in Seq(Node)
      BY <2>1, InsertedOf
    <3>2. Len(InsertAt(d, i, x)) = Len(d) + 1
      BY <2>1, InsertedOf
    <3>3. \A j \in 1 .. Len(d) + 1 : InsertAt(d, i, x)[j] = IF j < i THEN d[j] ELSE IF j = i THEN x ELSE d[j - 1]
      BY <2>1, InsertedOf
    <3>. QED
      BY <1>2, <3>1, <3>2, <3>3, Zenon
  <2>. QED
    BY <1>1, <2>2
<1>4. /\ \A j, k \in 1 .. l : d[j] = d[k] => j = k
      /\ \A n \in Node : n \in E <=> \E k \in 1 .. l : d[k] = n
      /\ \A k \in 1 .. l : d[k] # x
  BY <1>1 DEF Lists
<1>5. ASSUME NEW j \in 1 .. l + 1, j # i
      PROVE  \E k \in 1 .. l : r[j] = d[k] /\ k = IF j < i THEN j ELSE j - 1
  <2>1. CASE j < i
    <3>1. j \in 1 .. l /\ r[j] = d[j]
      BY <1>1, <1>3, <2>1
    <3>. QED
      BY <2>1, <3>1
  <2>2. CASE j > i
    <3>1. j - 1 \in 1 .. l /\ r[j] = d[j - 1] /\ ~(j < i)
      BY <1>1, <1>3, <2>2
    <3>. QED
      BY <2>2, <3>1
  <2>. QED
    BY <1>1, <1>5, <2>1, <2>2
<1>6. i \in 1 .. l + 1 /\ r[i] = x
  BY <1>1, <1>3
<1>7. ASSUME NEW j \in 1 .. l + 1, NEW k \in 1 .. l + 1, r[j] = r[k]
      PROVE  j = k
  <2>1. CASE j = i \/ k = i
    BY <1>4, <1>5, <1>6, <1>7, <2>1
  <2>2. CASE j # i /\ k # i
    <3>1. PICK y \in 1 .. l : r[j] = d[y] /\ y = IF j < i THEN j ELSE j - 1
      BY <1>5, <2>2
    <3>2. PICK z \in 1 .. l : r[k] = d[z] /\ z = IF k < i THEN k ELSE k - 1
      BY <1>5, <2>2
    <3>3. y = z
      BY <1>4, <1>7, <3>1, <3>2
    <3>. QED
      BY <1>1, <2>2, <3>1, <3>2, <3>3
  <2>. QED
    BY <2>1, <2>2
<1>8. ASSUME NEW n \in Node
      PROVE  n \in E \cup {x} <=> \E j \in 1 .. l + 1 : r[j] = n
  <2>1. ASSUME n \in E
        PROVE  \E j \in 1 .. l + 1 : r[j] = n
    <3>1. PICK k \in 1 .. l : d[k] = n
      BY <1>4, <2>1
    <3>2. CASE k < i
      <4>1. k \in 1 .. l + 1 /\ r[k] = d[k]
        BY <1>1, <1>3, <3>2
      <4>. QED
        BY <3>1, <4>1
    <3>3. CASE ~(k < i)
      <4>1. PICK j \in 1 .. l + 1 : j - 1 = k /\ ~(j < i) /\ j # i
        BY <1>1, <3>3
      <4>2. r[j] = d[k]
        BY <1>3, <4>1
      <4>. QED
        BY <3>1, <4>2
    <3>. QED
      BY <3>2, <3>3
  <2>2. ASSUME NEW j \in 1 .. l + 1, r[j] = n
        PROVE  n \in E \cup {x}
    <3>1. CASE j = i
      BY <1>6, <2>2, <3>1
    <3>2. CASE j # i
      <4>1. PICK k \in 1 .. l : r[j] = d[k]
        BY <1>5, <3>2
      <4>. QED
        BY <1>4, <2>2, <4>1
    <3>. QED
      BY <3>1, <3>2
  <2>. QED
    BY <1>6, <2>1, <2>2
<1>. QED
  BY <1>2, <1>3, <1>7, <1>8 DEF Lists

LEMMA DirKeeps ==
  ASSUME DirOK(dir, file), FilesMove, DirFollows
  PROVE  DirOK(dir', file')
<1>1. PICK d, d1, E, F : d = dir /\ d1 = dir' /\ E = Existing(file) /\ F = Existing(file')
  OBVIOUS
<1>2. Lists(d, E) /\ F \subseteq Node /\ E \subseteq Node
  BY <1>1 DEF Lists, DirOK, Existing
<1>3. (\A m, n \in E \ F : m = n) /\ (\A m, n \in F \ E : m = n)
  BY <1>1 DEF FilesMove
<1>4. DOMAIN d = 1 .. Len(d) /\ Len(d) \in Nat /\ \A i \in 1 .. Len(d) : d[i] \in E
  BY <1>2, LenProperties, ElementOfSeq DEF Lists
<1>5. ToSet(d) = E
  BY <1>2, <1>4 DEF ToSet, Lists
<1>6. PICK gone : gone = {i \in DOMAIN d : d[i] \notin F}
  OBVIOUS
<1>7. PICK kept : kept = IF gone = {} THEN d ELSE RemoveAt(d, CHOOSE i \in gone : TRUE)
  OBVIOUS
<1>8. Lists(kept, E \cap F)
  <2>1. CASE gone = {}
    <3>1. \A n \in E : n \in F
      BY <1>2, <1>4, <1>6, <2>1 DEF Lists
    <3>2. E \cap F = E
      BY <3>1
    <3>. QED
      BY <1>2, <1>7, <2>1, <3>2
  <2>2. CASE gone # {}
    <3>1. PICK i : i = CHOOSE k \in gone : TRUE
      OBVIOUS
    <3>2. i \in gone
      BY <2>2, <3>1
    <3>3. i \in 1 .. Len(d) /\ d[i] \in E \ F
      BY <1>4, <1>6, <3>2
    <3>4. E \ {d[i]} = E \cap F
      BY <1>3, <3>3
    <3>5. kept = RemoveAt(d, i)
      BY <1>7, <2>2, <3>1
    <3>. QED
      BY <1>2, <3>3, <3>4, <3>5, RemoveLists
  <2>. QED
    BY <2>1, <2>2
<1>9. PICK new : new = F \ E
  OBVIOUS
<1>10. IF new = {} THEN d1 = kept
       ELSE \E i \in 1 .. Len(kept) + 1 : d1 = InsertAt(kept, i, CHOOSE n \in new : TRUE)
  BY <1>1, <1>5, <1>6, <1>7, <1>9 DEF DirFollows
<1>11. Lists(d1, F)
  <2>1. CASE new = {}
    <3>1. E \cap F = F
      BY <1>9, <2>1
    <3>. QED
      BY <1>8, <1>10, <2>1, <3>1
  <2>2. CASE new # {}
    <3>1. PICK x : x = CHOOSE n \in new : TRUE
      OBVIOUS
    <3>2. x \in F \ E
      BY <1>9, <2>2, <3>1
    <3>3. PICK i \in 1 .. Len(kept) + 1 : d1 = InsertAt(kept, i, x)
      BY <1>10, <2>2, <3>1
    <3>4. (E \cap F) \cup {x} = F /\ x \in Node /\ x \notin E \cap F
      BY <1>2, <1>3, <3>2
    <3>. QED
      BY <1>8, <3>3, <3>4, InsertLists
  <2>. QED
    BY <2>1, <2>2
<1>. QED
  BY <1>1, <1>11 DEF Lists, DirOK, Existing
-----------------------------------------------------------------------------
(* The invariant.                                                            *)

LEMMA FirstListing ==
  ASSUME NEW E \in SUBSET Node
  PROVE  Lists(SetToSeq(E), E)
<1>1. IsFiniteSet(E)
  BY ConstantsOK, FS_Subset
<1>2. PICK n \in Nat : n = Cardinality(E) /\ ExistsBijection(1 .. n, E)
  BY <1>1, FS_CardinalityType
<1>3. PICK g : g \in Bijection(1 .. n, E)
  BY <1>2 DEF ExistsBijection
<1>4. g \in [1 .. n -> E] /\ IsInjective(g)
  BY <1>3 DEF Bijection, Injection, IsInjective
<1>5. PICK f : f = SetToSeq(E)
  OBVIOUS
<1>6. f \in [1 .. n -> E] /\ IsInjective(f)
  BY <1>2, <1>4, <1>5 DEF SetToSeq
<1>7. DOMAIN f = 1 .. n /\ \A i, j \in 1 .. n : f[i] = f[j] => i = j
  BY <1>6 DEF IsInjective
<1>8. f \in Injection(1 .. n, E)
  BY <1>6, <1>7 DEF Injection, IsInjective
<1>9. IsFiniteSet(1 .. n) /\ Cardinality(1 .. n) = n
  <2>1. IsFiniteSet(1 .. n) /\ Cardinality(1 .. n) = IF 1 > n THEN 0 ELSE n - 1 + 1
    BY FS_Interval
  <2>2. Cardinality(1 .. n) = n
    BY <2>1
  <2>. QED
    BY <2>1, <2>2
<1>10. f \in Surjection(1 .. n, E)
  BY <1>1, <1>2, <1>8, <1>9, FS_Injection
<1>11. \A x \in E : \E i \in 1 .. n : f[i] = x
  BY <1>10 DEF Surjection
<1>12. f \in Seq(Node) /\ Len(f) = n
  <2>1. f \in [1 .. n -> Node]
    BY <1>6
  <2>. QED
    BY <2>1, SeqDef, LenProperties
<1>13. \A i \in 1 .. n : f[i] \in E
  BY <1>6
<1>. QED
  BY <1>5, <1>7, <1>11, <1>12, <1>13 DEF Lists

LEMMA InitHolds ==
  ASSUME Init
  PROVE  PosixInv
<1>1. FilesOK(file)
  BY ConstantsOK DEF Init, FilesOK, FileOK, FileRec
<1>2. DirOK(dir, file)
  <2>1. PICK E : E = Existing(InitFile)
    OBVIOUS
  <2>2. E \in SUBSET Node
    BY <2>1 DEF Existing
  <2>3. Lists(SetToSeq(E), E)
    BY <2>2, FirstListing
  <2>4. dir = SetToSeq(E) /\ E = Existing(file)
    BY <2>1 DEF Init
  <2>5. Lists(dir, Existing(file))
    BY <2>3, <2>4
  <2>. QED
    BY <2>5 DEF Lists, DirOK, Existing
<1>3. ASSUME NEW p \in Proc
      PROVE  /\ fdtab[p] = NewTable /\ call[p] = Done(Val(0)) /\ calls[p] = 0
             /\ TableOK(fdtab[p]) /\ CallOK(call[p], fdtab[p]) /\ call[p] \in Rest
  <2>1. fdtab[p] = NewTable /\ call[p] = Done(Val(0)) /\ calls[p] = 0
    BY DEF Init
  <2>2. Done(Val(0)) \in Rest
    BY Replies DEF Rest, Done
  <2>. QED
    BY <2>1, <2>2, FreshTable, Apart DEF CallOK
<1>4. /\ fdtab \in [Proc -> [Fd -> Entry]] /\ call \in [Proc -> Rest \cup Busy]
      /\ calls \in [Proc -> Nat] /\ \A p \in Proc : calls[p] <= MaxCalls[p]
  <2>1. /\ fdtab = [p \in Proc |-> fdtab[p]] /\ call = [p \in Proc |-> call[p]] /\ calls = [p \in Proc |-> 0]
    BY DEF Init
  <2>2. \A p \in Proc : fdtab[p] \in [Fd -> Entry] /\ call[p] \in Rest \cup Busy
    BY <1>3 DEF TableOK
  <2>. QED
    BY <1>3, <2>1, <2>2, Bounds
<1>5. up \in BOOLEAN /\ faults \in 0 .. MaxFaults /\ made \subseteq Node /\ cut \subseteq Node
  BY Bounds DEF Init, Existing
<1>6. FilesSurvive
  BY DEF Init, FilesSurvive
<1>. QED
  BY <1>1, <1>2, <1>3, <1>4, <1>5, <1>6 DEF PosixInv, StateOK

\* A truncation in its window is of a path.
LEMMA WindowPath ==
  ASSUME StateOK, NEW q \in Proc, InWindow(q)
  PROVE  call[q].path \in Path /\ Lookup[call[q].path] \in Node
<1>1. ~Idle(q) /\ call[q].pc \in {"create", "twrite"}
  BY DEF InWindow
<1>2. call[q] \in OpenRec \cup MkstempRec \cup CutRec
  BY <1>1, UnderWay, Phase
<1>3. call[q].path \in Path
  BY <1>2 DEF OpenRec, MkstempRec, CutRec
<1>. QED
  BY <1>3, Bounds

\* A step of p that moves its call, its table and the files as allowed.
LEMMA StepKeeps ==
  ASSUME PosixInv, NEW p \in Proc, Moves(p), FilesMove, Record(p),
         made' \subseteq made \cup Existing(file'),
         \A n \in made' : n \in Existing(file) \ Existing(file') => InWindow(p)' /\ Lookup[call'[p].path] = n,
         InWindow(p) => \/ Create[call[p].path] \in Existing(file')
                        \/ call'[p] \in {Done(Err("EIO")), Done(Err("killed"))}
  PROVE  PosixInv'
<1>1. StateOK /\ FilesSurvive
  BY DEF PosixInv
<1>2. PICK c \in Rest \cup Busy, t \in [Fd -> Entry] :
        /\ call' = [call EXCEPT ![p] = c] /\ fdtab' = [fdtab EXCEPT ![p] = t]
        /\ CallOK(c, t) /\ TableOK(t)
  BY DEF Moves
<1>3. FilesOK(file') /\ DirOK(dir, file)'
  BY <1>1, DirKeeps DEF FilesMove, StateOK, Record
<1>4. up' = up /\ faults' = faults
  BY DEF Record
<1>5. calls' \in [Proc -> Nat] /\ \A q \in Proc : calls'[q] <= MaxCalls[q]
  <2>1. calls' = [calls EXCEPT ![p] = IF Idle(p) THEN @ + 1 ELSE @] /\ (Idle(p) => calls[p] < MaxCalls[p])
    BY DEF Record, Moves
  <2>2. calls \in [Proc -> Nat] /\ \A q \in Proc : calls[q] <= MaxCalls[q] /\ MaxCalls[q] \in Nat
    BY <1>1, Bounds DEF StateOK
  <2>. QED
    BY <2>1, <2>2
<1>6. fdtab' \in [Proc -> [Fd -> Entry]] /\ call' \in [Proc -> Rest \cup Busy]
  BY <1>1, <1>2 DEF StateOK
<1>7. ASSUME NEW q \in Proc
      PROVE  TableOK(fdtab[q])' /\ CallOK(call[q], fdtab[q])'
  <2>1. CASE q = p
    <3>1. fdtab'[q] = t /\ call'[q] = c
      BY <1>1, <1>2, <2>1 DEF StateOK
    <3>. QED
      BY <1>2, <3>1
  <2>2. CASE q # p
    <3>1. fdtab'[q] = fdtab[q] /\ call'[q] = call[q]
      BY <1>1, <1>2, <2>2 DEF StateOK
    <3>2. TableOK(fdtab[q]) /\ CallOK(call[q], fdtab[q])
      BY <1>1 DEF StateOK
    <3>. QED
      BY <3>1, <3>2
  <2>. QED
    BY <2>1, <2>2
<1>8. made' \subseteq Node /\ cut' \subseteq Node
  <2>1. made \subseteq Node /\ cut \subseteq Node /\ Existing(file') \subseteq Node
    BY <1>1 DEF StateOK, Existing
  <2>2. InWindow(p) => Lookup[call[p].path] \in Node
    BY <1>1, WindowPath
  <2>3. cut' \subseteq cut \cup (IF InWindow(p) THEN {Lookup[call[p].path]} ELSE {})
    BY DEF Record
  <2>. QED
    BY <2>1, <2>2, <2>3
<1>9. StateOK'
  BY <1>1, <1>3, <1>4, <1>5, <1>6, <1>7, <1>8 DEF StateOK
<1>10. ASSUME NEW n \in made', n \notin Existing(file')
       PROVE  \/ \E path \in Path : n = Lookup[path] /\ n # Create[path]
              \/ \E q \in Proc : InWindow(q)' /\ Lookup[call'[q].path] = n
              \/ n \in cut'
  <2>1. n \in made
    BY <1>10
  <2>2. CASE n \in Existing(file)
    BY <1>10, <2>2
  <2>3. CASE n \notin Existing(file)
    <3>1. \/ \E path \in Path : n = Lookup[path] /\ n # Create[path]
          \/ \E q \in Proc : InWindow(q) /\ Lookup[call[q].path] = n
          \/ n \in cut
      BY <1>1, <2>1, <2>3 DEF FilesSurvive
    <3>2. ASSUME NEW q \in Proc, InWindow(q), Lookup[call[q].path] = n, q # p
          PROVE  InWindow(q)' /\ Lookup[call'[q].path] = n
      <4>1. call'[q] = call[q]
        BY <1>1, <1>2, <3>2 DEF StateOK
      <4>. QED
        BY <3>2, <4>1 DEF InWindow, Idle
    <3>3. ASSUME InWindow(p), Lookup[call[p].path] = n
          PROVE  (\E path \in Path : n = Lookup[path] /\ n # Create[path]) \/ n \in cut'
      <4>1. call[p].path \in Path
        BY <1>1, <3>3, WindowPath
      <4>2. CASE Create[call[p].path] \in Existing(file')
        BY <1>10, <3>3, <4>1, <4>2
      <4>3. CASE call'[p] \in {Done(Err("EIO")), Done(Err("killed"))}
        <5>1. call'[p].fn = "none" /\ call'[p].ret \in {Err("EIO"), Err("killed")}
          BY <4>3 DEF Done
        <5>2. cut' = (cut \cup {Lookup[call[p].path]}) \ Existing(file')
          BY <3>3, <5>1 DEF Record
        <5>. QED
          BY <1>10, <3>3, <5>2
      <4>. QED
        BY <3>3, <4>2, <4>3
    <3>4. CASE n \in cut
      BY <1>10, <3>4 DEF Record
    <3>. QED
      BY <3>1, <3>2, <3>3, <3>4
  <2>. QED
    BY <2>2, <2>3
<1>11. FilesSurvive'
  BY <1>10 DEF FilesSurvive
<1>. QED
  BY <1>9, <1>11 DEF PosixInv

LEMMA StepMoves ==
  ASSUME StateOK, NEW p \in Proc, Calls(p) \/ Steps(p) \/ Killed(p)
  PROVE  Moves(p) /\ FilesMove /\ Guarded(p)
<1>1. CASE Killed(p)
  BY <1>1, KilledMoves
<1>2. CASE Steps(p)
  BY <1>2, PickNameMoves, OpenStatMoves, OpenDeleteMoves, OpenCreateMoves, ReadStepMoves, WriteStepMoves,
     TruncStatMoves, TruncGrowMoves, TruncKeepMoves, TruncDeleteMoves, TruncWriteMoves, MkdirStatMoves,
     MkdirMakeMoves, DirStatMoves, ListPageMoves DEF Steps
<1>3. CASE Calls(p)
  <2>1. CASE \/ \E path \in Path, flags \in Flags : Open(p, path, flags)
             \/ \E path \in Path, want \in Counts : Truncate(p, path, want)
             \/ \E fn \in Temp : Mktemp(p, fn)
             \/ \E path \in Path : Mkdir(p, path)
             \/ Opendir(p)
             \/ \E fd \in Fd, want \in Counts : Ftruncate(p, fd, want)
    BY <2>1, CallsBegin
  <2>2. CASE \E fn \in {"read", "write"}, fd \in Fd, count \in Counts \ {0}, at \in {-1, 1} :
               Transfer(p, fn, fd, count, at)
    BY <2>2, TransferMoves
  <2>3. CASE \E fd \in Fd, whence \in {"set", "cur", "end"}, offset \in {-1, 1} : Lseek(p, fd, offset, whence)
    BY <2>3, LseekMoves
  <2>4. CASE \E fd \in Fd : Dup(p, fd) \/ Close(p, fd) \/ \E new \in Fd : Dup2(p, fd, new)
    BY <2>4, DupMoves
  <2>. QED
    BY <1>3, <2>1, <2>2, <2>3, <2>4 DEF Calls, Temp
<1>. QED
  BY <1>1, <1>2, <1>3

LEMMA RemovalMoves ==
  ASSUME StateOK, NEW p \in Proc, Removals(p)
  PROVE  /\ Moves(p) /\ FilesMove /\ ~InWindow(p)
         /\ made' \subseteq made \cup Existing(file')
         /\ \A n \in made' : n \notin Existing(file) \ Existing(file')
<1>1. FilesOK(file) /\ TableOK(fdtab[p])
  BY DEF StateOK
<1>2. ASSUME NEW r \in Reply, Single(p, r), UNCHANGED fdtab
      PROVE  Moves(p) /\ ~InWindow(p)
  <2>1. PICK t : t = fdtab[p]
    OBVIOUS
  <2>2. TableOK(t) /\ fdtab' = [fdtab EXCEPT ![p] = t]
    BY <1>1, <1>2, <2>1, TableKept
  <2>. QED
    BY <1>2, <2>2, SingleMoves
<1>3. ASSUME NEW path \in Path, Unlink(p, path)
      PROVE  /\ Moves(p) /\ FilesMove /\ ~InWindow(p)
             /\ made' \subseteq made \cup Existing(file')
             /\ \A n \in made' : n \notin Existing(file) \ Existing(file')
  <2>1. PICK n \in Node : n = Lookup[path]
    BY Bounds
  <2>2. PICK r : r = IF StatKind(n) = "none" THEN Err("ENOENT") ELSE Val(0)
    OBVIOUS
  <2>3. r \in Reply /\ Single(p, r) /\ UNCHANGED fdtab /\ Delete(n) /\ made' = made \ {n}
    BY <1>3, <2>1, <2>2, Replies DEF Unlink, Fault
  <2>4. /\ FilesOK(file')
        /\ Existing(file') \subseteq Existing(file) /\ Existing(file) \ Existing(file') \subseteq {n}
    BY <1>1, <2>3, DeleteKeeps
  <2>5. FilesMove
    BY <2>4 DEF FilesMove
  <2>. QED
    BY <1>2, <2>3, <2>4, <2>5
<1>4. ASSUME NEW old \in Path, NEW new \in Path, Rename(p, old, new)
      PROVE  /\ Moves(p) /\ FilesMove /\ ~InWindow(p)
             /\ made' \subseteq made \cup Existing(file')
             /\ \A n \in made' : n \notin Existing(file) \ Existing(file')
  <2>1. PICK o \in Node, n \in Node : o = Lookup[old] /\ n = Create[new]
    BY Bounds
  <2> DEFINE fails == ~up \/ file[o].kind = "none" \/ file[n].kind # "none"
  <2>2. /\ Single(p, IF fails THEN Err("EIO") ELSE Val(0)) /\ UNCHANGED fdtab
        /\ file' = IF fails THEN file ELSE [file EXCEPT ![n] = file[o], ![o] = Missing]
        /\ made' = IF fails THEN made ELSE (made \ {o}) \cup {n}
    BY <1>4, <2>1 DEF Rename
  <2>3. CASE fails
    <3>1. PICK r : r = Err("EIO")
      OBVIOUS
    <3>2. r \in Reply /\ Single(p, r) /\ UNCHANGED fdtab /\ UNCHANGED file /\ made' = made
      BY <2>2, <2>3, <3>1, Replies DEF Fault
    <3>3. Existing(file') = Existing(file) /\ FilesMove
      BY <3>2, FilesStay
    <3>. QED
      BY <1>2, <3>2, <3>3
  <2>4. CASE ~fails
    <3>1. PICK r, x, y : r = Val(0) /\ x = file[o] /\ y = Missing
      OBVIOUS
    <3>2. /\ r \in Reply /\ Single(p, r) /\ UNCHANGED fdtab /\ made' = (made \ {o}) \cup {n}
          /\ file' = [file EXCEPT ![n] = x, ![o] = y]
      BY <2>2, <2>4, <3>1, Replies
    <3>3. n # o /\ file[o].kind # "none" /\ file[n].kind = "none"
      BY <2>4
    <3>4. x \in FileRec /\ FileOK(x) /\ x.kind # "none" /\ y \in FileRec /\ FileOK(y) /\ y.kind = "none"
      BY <1>1, <3>1, <3>3, Bounds, EmptySeq DEF FilesOK, Missing, FileRec, FileOK
    <3>5. file \in [Node -> FileRec] /\ \A m \in Node : FileOK(file[m])
      BY <1>1 DEF FilesOK
    <3>6. FilesOK(file')
      BY <3>2, <3>4, <3>5 DEF FilesOK
    <3>7. Existing(file') = (Existing(file) \ {o}) \cup {n}
      BY <3>2, <3>3, <3>4, <3>5 DEF Existing
    <3>8. o \in Existing(file) /\ n \notin Existing(file)
      BY <3>3 DEF Existing
    <3>9. FilesMove
      BY <3>6, <3>7, <3>8 DEF FilesMove
    <3>. QED
      BY <1>2, <3>2, <3>3, <3>7, <3>8, <3>9
  <2>. QED
    BY <2>3, <2>4
<1>. QED
  BY <1>3, <1>4 DEF Removals

LEMMA NextKeeps ==
  ASSUME PosixInv, [Next]_vars
  PROVE  PosixInv'
<1>1. StateOK
  BY DEF PosixInv
<1>2. ASSUME NEW p \in Proc, Calls(p) \/ Steps(p) \/ Killed(p), Makes(p), Record(p)
      PROVE  PosixInv'
  <2>1. Moves(p) /\ FilesMove /\ Guarded(p)
    BY <1>1, <1>2, StepMoves
  <2>. QED
    BY <1>2, <2>1, StepKeeps DEF Guarded, Makes
<1>3. ASSUME NEW p \in Proc, Removals(p), Record(p)
      PROVE  PosixInv'
  BY <1>1, <1>3, RemovalMoves, StepKeeps
<1>4. ASSUME ServerDies \/ ServerReturns \/ UNCHANGED vars
      PROVE  PosixInv'
  <2>1. /\ UNCHANGED <<file, dir, fdtab, call, calls, made, cut>>
        /\ up' \in BOOLEAN /\ faults' \in 0 .. MaxFaults
    <3>1. up \in BOOLEAN /\ faults \in 0 .. MaxFaults /\ MaxFaults \in Nat
      BY <1>1, Bounds DEF StateOK
    <3>2. CASE ServerDies
      <4>1. /\ UNCHANGED <<file, dir, fdtab, call, calls, made, cut>>
            /\ up' = FALSE /\ faults < MaxFaults /\ faults' = faults + 1
        BY <3>2 DEF ServerDies
      <4>2. faults' \in 0 .. MaxFaults
        BY <3>1, <4>1
      <4>. QED
        BY <4>1, <4>2, Zenon
    <3>3. CASE ServerReturns
      <4>1. UNCHANGED <<file, dir, fdtab, call, calls, made, cut, faults>> /\ up' = TRUE
        BY <3>3 DEF ServerReturns
      <4>. QED
        BY <3>1, <4>1, Zenon
    <3>4. CASE UNCHANGED vars
      <4>1. UNCHANGED <<file, dir, fdtab, call, calls, made, cut, faults, up>>
        BY <3>4, Zenon DEF vars
      <4>. QED
        BY <3>1, <4>1, Zenon
    <3>. QED
      BY <1>4, <3>2, <3>3, <3>4
  <2>2. StateOK'
    BY <1>1, <2>1 DEF StateOK
  <2>3. FilesSurvive'
    BY <2>1 DEF PosixInv, FilesSurvive, InWindow, Idle
  <2>. QED
    BY <2>2, <2>3 DEF PosixInv
<1>. QED
  BY <1>2, <1>3, <1>4 DEF Next

LEMMA InvGives ==
  ASSUME PosixInv
  PROVE  FilesKept
<1>1. StateOK /\ FilesSurvive
  BY DEF PosixInv
<1>2. \A n \in Node : /\ file[n].kind \in {"none", "file", "dir"}
                      /\ file[n].data \in Seq(Nat) /\ Len(file[n].data) <= Disk
                      /\ file[n].kind # "file" => file[n].data = <<>>
  BY <1>1 DEF StateOK, FilesOK, FileOK, FileRec
<1>3. up \in BOOLEAN /\ faults \in 0 .. MaxFaults /\ made \subseteq Node /\ cut \subseteq Node
  BY <1>1 DEF StateOK
<1>4. ToSet(dir) = Existing(file) /\ Len(dir) = Cardinality(Existing(file))
  BY <1>1, DirSize DEF StateOK
<1>5. ASSUME NEW p \in Proc
      PROVE  calls[p] \in 0 .. MaxCalls[p]
  BY <1>1, Bounds DEF StateOK
<1>6. ASSUME NEW p \in Proc, NEW i \in Fd
      PROVE  /\ fdtab[p][i].kind \in {"free", "console", "file"} /\ fdtab[p][i].off \in Nat
             /\ fdtab[p][i].kind = "file" => fdtab[p][i].path \in Path
  BY <1>1 DEF StateOK, TableOK, Entry
<1>7. TypeOK
  BY <1>2, <1>3, <1>4, <1>5, <1>6 DEF TypeOK
<1>. QED
  BY <1>1, <1>7 DEF FilesKept

\* The calls of a step that is one of Next, or none.
LEMMA NextProgress ==
  ASSUME StateOK, [Next]_vars, NEW q \in Proc, ~Idle(q), call'[q] # call[q]
  PROVE  call'[q].fn = "none" \/ (WorkLeft(call'[q]) < WorkLeft(call[q]) /\ WorkLeft(call'[q]) > 0)
<1>1. ASSUME NEW p \in Proc, Moves(p)
      PROVE  call'[q].fn = "none" \/ (WorkLeft(call'[q]) < WorkLeft(call[q]) /\ WorkLeft(call'[q]) > 0)
  <2>1. PICK c \in Rest \cup Busy : call' = [call EXCEPT ![p] = c] /\ Progress(call[p], c)
    BY <1>1 DEF Moves
  <2>2. q = p /\ call'[q] = c
    BY <2>1 DEF StateOK
  <2>. QED
    BY <2>1, <2>2 DEF Progress, Idle
<1>2. CASE \E p \in Proc : (Calls(p) \/ Steps(p) \/ Killed(p)) /\ Makes(p) /\ Record(p)
  BY <1>1, <1>2, StepMoves
<1>3. CASE \E p \in Proc : Removals(p) /\ Record(p)
  BY <1>1, <1>3, RemovalMoves
<1>4. CASE ServerDies \/ ServerReturns \/ UNCHANGED vars
  BY <1>4 DEF ServerDies, ServerReturns, vars
<1>. QED
  BY <1>2, <1>3, <1>4 DEF Next
-----------------------------------------------------------------------------
\* The invariant holds in every reachable state: files, directory, tables and
\* the calls in progress are where the loops of rc_posix.c can have brought
\* them, whatever the others and the server do in between.
THEOREM FilesHold == Spec => []PosixInv
<1>1. Init => PosixInv
  BY InitHolds
<1>2. PosixInv /\ [Next]_vars => PosixInv'
  BY NextKeeps
<1>. QED
  BY <1>1, <1>2, PTL DEF Spec

\* Descriptor tables stay in their ranges, and a file that nobody asked to remove
\* is there, in the window of a truncation, or was cut short in one (open and
\* ftruncate of rc_posix.c).
THEOREM NoFileLost == Spec => []FilesKept
<1>1. PosixInv => FilesKept
  BY InvGives
<1>. QED
  BY <1>1, FilesHold, PTL

\* Every request of a call leaves it fewer requests to make, so that the loops of
\* read, write, ftruncate, opendir, mkstemp and mkdtemp end, for all lengths
\* and whatever the other processes do to the files.
THEOREM LoopsEnd == Spec => CallsProgress
<1>1. PosixInv /\ [Next]_vars =>
        [\A p \in Proc : ~Idle(p) /\ call'[p] # call[p] =>
           call'[p].fn = "none" \/ (WorkLeft(call'[p]) < WorkLeft(call[p]) /\ WorkLeft(call'[p]) > 0)]_vars
  BY NextProgress DEF PosixInv
<1>. QED
  BY <1>1, FilesHold, PTL DEF Spec, CallsProgress
=============================================================================
