-------------------------------- MODULE Stdio --------------------------------
(****************************************************************************)
(* Buffered streams (lib/racccoon-libc/src/stdio.c, exit.c).  A stream has  *)
(* one buffer, which holds bytes read ahead or bytes not yet written, and   *)
(* keeps its own idea of the file position.  A program calls one function   *)
(* at a time; the file server, the disk and the heap fail under it.  The    *)
(* functions that loop over fgetc and fputc take a step for every byte.     *)
(****************************************************************************)
EXTENDS Integers, Sequences, SequencesExt, FiniteSets

CONSTANTS
  Bufsiz,    \* BUFSIZ
  Sizes,     \* sizes of the buffers that programs hand to setvbuf
  Largest,   \* the largest of all these buffers
  Disk,      \* bytes that the disk has room for
  LineCap,   \* the first size of getdelim's line (128 in the code)
  Text,      \* what programs hand to fwrite and fputs
  Byte, NL,  \* bytes, and the newline among them
  InitData,  \* the file at the start
  Modes,     \* subset of {"r", "w", "a"}: modes of fopen, each with "+"
  Counts,    \* what programs ask of fread and fgets (less returns at once)
  Offsets,   \* where programs seek
  MaxOps,    \* calls that the program makes
  MaxFaults  \* failures of the environment

ASSUME ConstantsOK ==
  /\ {Bufsiz, LineCap, Largest} \subseteq Nat \ {0} /\ {Disk, MaxOps, MaxFaults} \subseteq Nat
  /\ Bufsiz <= Largest /\ Sizes \subseteq 1 .. Largest
  /\ Byte \subseteq Nat /\ NL \in Byte /\ Text \subseteq Seq(Byte) \ {<<>>} /\ InitData \in Seq(Nat)
  /\ Counts \subseteq Nat \ {0, 1} /\ Offsets \subseteq Int

VARIABLES
  using,   \* the stream that the program uses
  st,      \* st[s]: the FILE, and the file or memory behind it
  down,    \* what fails at present: "fs", "heap"
  call,    \* the function in the middle of its loop
  ops,     \* calls so far
  faults,  \* failures so far
  exited,  \* exit() has run
  hist     \* hist[s]: what the abstract stream remembers     (history)

vars == <<using, st, down, call, ops, faults, exited, hist>>

\* Streams of the program: of fopen, of open_memstream, and stdout.
Stream == {"file", "mem", "console"}

None == -1
EOF == -1
NoCall == [fn |-> "none"]
Smaller(a, b) == IF a < b THEN a ELSE b
Zeros(n) == [i \in 1 .. n |-> 0]
\* s with d over it from position n on.
Splice(s, n, d) == SubSeq(s, 1, n) \o d \o SubSeq(s, n + Len(d) + 1, Len(s))

\* struct __FILE, and its backing: data and the descriptor's offset, or the
\* memory of open_memstream and its capacity.
File(open, mode, data, off) ==
  [open |-> open, err |-> FALSE, eof |-> FALSE, bufmode |-> mode, buf |-> <<>>, bufcap |-> 0,
   rpos |-> 0, rlen |-> 0, wlen |-> 0, pos |-> 0, ungot |-> None,
   data |-> data, off |-> off, mscap |-> 1]

Init ==
  /\ using \in Stream
  /\ st = [s \in Stream |-> CASE s = "console" -> File(TRUE, "LBF", <<>>, 0)
                              [] s = "mem" -> File(FALSE, "FBF", <<>>, 0)
                              [] s = "file" -> File(FALSE, "FBF", InitData, Len(InitData))]
  /\ down = {} /\ call = NoCall /\ ops = 0 /\ faults = 0 /\ exited = FALSE
  /\ hist = [s \in Stream |-> [exact |-> TRUE, last |-> "none", broken |-> FALSE, res |-> [fn |-> "none", val |-> 0]]]
-----------------------------------------------------------------------------
(* The buffer.  x is a stream; each operator gives the stream it becomes.    *)

Pending(x) == SubSeq(x.buf, 1, Smaller(x.wlen, Len(x.buf)))

\* ensure_buf: the buffer is taken from the heap when it is first needed.
NoBuffer(x) == x.buf = <<>> /\ "heap" \in down
EnsureBuf(x) == IF x.buf # <<>> THEN x ELSE [x EXCEPT !.buf = Zeros(Bufsiz), !.bufcap = Bufsiz]

\* What k turns of a loop that doubles multiply by.
Turns[k \in Nat] == IF k = 0 THEN 1 ELSE 2 * Turns[k - 1]
\* Mutant of Doubled: no room for the final zero.
DoubledShort(cap, need) ==
  LET Fits(k) == cap * Turns[k] >= need - 1
  IN IF cap >= need - 1 THEN cap ELSE cap * Turns[CHOOSE k \in 1 .. need : Fits(k) /\ ~Fits(k - 1)]
\* ms_append: the memory doubles until it holds the bytes and a final zero.
Doubled(cap, need) ==
  LET Fits(k) == cap * Turns[k] >= need
  IN IF cap >= need THEN cap ELSE cap * Turns[CHOOSE k \in 1 .. need : Fits(k) /\ ~Fits(k - 1)]
MsAppend(x, d) ==
  LET cap == Doubled(x.mscap, Len(x.data) + Len(d) + 1) IN
  IF cap # x.mscap /\ "heap" \in down THEN [x EXCEPT !.err = TRUE]
  ELSE [x EXCEPT !.data = @ \o d, !.off = @ + Len(d), !.mscap = cap, !.pos = @ + Len(d), !.wlen = 0]

\* write() by way of the descriptor: how many of n bytes it takes.
Accepted(s, x, n) ==
  CASE s = "console" -> n
    [] s = "mem" -> 0
    [] s = "file" /\ ("fs" \in down \/ x.off > Len(x.data)) -> 0
    [] OTHER -> IF x.off >= Disk THEN 0 ELSE Smaller(n, Disk - x.off)
Stored(x, d) == IF d = <<>> THEN x ELSE [x EXCEPT !.data = Splice(@, x.off, d), !.off = @ + Len(d)]

\* flush_write: it fails when bytes are left pending.  A write cut short is
\* repeated, so it fails after having stored what the disk took.
FlushWrite(s, x) ==
  LET d == Pending(x)
      w == Accepted(s, x, Len(d))
  IN CASE x.wlen = 0 -> x
       [] x.wlen > 0 /\ s = "mem" -> MsAppend(x, d)
       [] x.wlen > 0 /\ s # "mem" /\ w = Len(d) -> [Stored(x, d) EXCEPT !.pos = @ + x.wlen, !.wlen = 0]
       [] OTHER -> [Stored(x, SubSeq(d, 1, w)) EXCEPT !.err = TRUE]

\* Mutant of DropRead: the descriptor stays where the last read left it.
DropReadStays(x) == [x EXCEPT !.rpos = 0, !.rlen = 0]
\* drop_read: the descriptor goes back to the next byte to read, pos does not.
DropRead(x) ==
  [x EXCEPT !.off = IF x.rlen > x.rpos THEN x.pos + x.rpos ELSE @, !.rpos = 0, !.rlen = 0]

\* refill, whether or not what is pending could be written.
Refill(s, x) ==
  LET f == FlushWrite(s, x)
      y == [EnsureBuf(f) EXCEPT !.pos = @ + f.rlen, !.rpos = 0, !.rlen = 0]
      got == SubSeq(y.data, y.off + 1, Smaller(y.off + y.bufcap, Len(y.data)))
  IN CASE NoBuffer(f) -> [f EXCEPT !.err = TRUE]
       [] ~NoBuffer(f) /\ "fs" \in down -> [y EXCEPT !.err = TRUE]
       [] ~NoBuffer(f) /\ "fs" \notin down /\ got = <<>> -> [y EXCEPT !.eof = TRUE]
       [] OTHER -> [y EXCEPT !.buf = got \o SubSeq(y.buf, Len(got) + 1, Len(y.buf)), !.rlen = Len(got), !.off = @ + Len(got)]

\* fgetc: the stream and the byte.
Fgetc(s, x) ==
  LET y == IF x.rpos >= x.rlen THEN Refill(s, x) ELSE x IN
  CASE x.ungot # None -> [x |-> [x EXCEPT !.ungot = None], c |-> x.ungot]
    [] x.ungot = None /\ y.rpos >= y.rlen -> [x |-> y, c |-> EOF]
    [] OTHER -> [x |-> [y EXCEPT !.rpos = @ + 1], c |-> y.buf[y.rpos + 1]]

FlushDue(x, c) == x.wlen = x.bufcap \/ (x.bufmode = "LBF" /\ c = NL)

\* fputc: the stream and the byte, or EOF.  A byte put behind the end of the
\* buffer is in no field of the stream.
Fputc(s, x, c) ==
  LET y == IF x.rlen > x.rpos \/ x.ungot # None THEN [DropRead(x) EXCEPT !.ungot = None] ELSE x
      b == EnsureBuf(y)
      put == [b EXCEPT !.wlen = @ + 1, !.buf = IF b.wlen < Len(b.buf) THEN [@ EXCEPT ![b.wlen + 1] = c] ELSE @]
      full == FlushDue(put, c)
      z == IF full THEN FlushWrite(s, put) ELSE put
  IN CASE y.bufmode = "NBF" /\ Accepted(s, y, 1) = 1 -> [x |-> [Stored(y, <<c>>) EXCEPT !.pos = @ + 1], c |-> c]
       [] y.bufmode = "NBF" /\ Accepted(s, y, 1) = 0 -> [x |-> [y EXCEPT !.err = TRUE], c |-> EOF]
       [] y.bufmode # "NBF" /\ NoBuffer(y) -> [x |-> [y EXCEPT !.err = TRUE], c |-> EOF]
       [] OTHER -> [x |-> z, c |-> IF full /\ z.wlen > 0 THEN EOF ELSE c]
-----------------------------------------------------------------------------
(* Steps.  A program calls one function after the other.                     *)

Content(x) == IF x.open THEN Splice(x.data, Smaller(x.off, Len(x.data)), Pending(x)) ELSE x.data
Position(x) == x.off + x.wlen - (x.rlen - x.rpos)

Free(s) == call = NoCall /\ ops < MaxOps /\ ~exited /\ using = s /\ st[s].open
Counted == ops' = ops + 1 /\ call' = NoCall /\ UNCHANGED <<down, faults, exited>>

\* Stream s becomes x; the abstract stream remembers h of it.
Becomes(s, x, h) == st' = [st EXCEPT ![s] = x] /\ hist' = [hist EXCEPT ![s] = h]
Res(f, v) == [fn |-> f, val |-> v]
\* The call f returned v, and the promise lasts unless a flush failed.
After(s, x, f, v, exact, last) ==
  Becomes(s, x, [exact |-> exact, last |-> last, res |-> Res(f, v), broken |-> hist[s].broken \/ (f \in {"fseek", "fflush", "fclose"} /\ x.wlen > 0)])

Putc(s, c) ==
  LET r == Fputc(s, st[s], c)
      h == hist[s]
      lost == \/ h.last = "get" /\ ~h.exact
              \/ Position(st[s]) > Len(Content(st[s]))
  IN Becomes(s, r.x, [exact |-> h.exact /\ h.last # "get", last |-> "put", res |-> Res("fputc", r.c),
                      broken |-> h.broken \/ lost \/ r.c = EOF])

Getc(s) ==
  LET r == Fgetc(s, st[s])
      h == hist[s]
  IN Becomes(s, r.x, [exact |-> h.exact, last |-> "get", res |-> Res("fgetc", r.c),
                      broken |-> h.broken \/ (st[s].ungot = None /\ r.x.wlen > 0)])

CallFputc(s, c) == Free(s) /\ Putc(s, c) /\ Counted
CallFgetc(s) == Free(s) /\ s = "file" /\ Getc(s) /\ Counted

Ungetc(s, c) ==
  LET x == st[s] IN
  /\ Free(s) /\ s = "file"
  /\ IF x.ungot # None THEN After(s, x, "ungetc", EOF, hist[s].exact, hist[s].last)
     ELSE After(s, [x EXCEPT !.ungot = c, !.eof = FALSE], "ungetc", c, hist[s].exact, hist[s].last)
  /\ Counted

\* fwrite, fputs, puts: the bytes one by one until one fails.
Fwrite(s, text) ==
  /\ Free(s)
  /\ call' = [fn |-> "fwrite", s |-> s, text |-> text]
  /\ ops' = ops + 1
  /\ UNCHANGED <<st, hist, down, faults, exited>>
FwriteStep ==
  /\ call.fn = "fwrite"
  /\ Putc(call.s, Head(call.text))
  /\ call' = IF hist'[call.s].res.val = EOF \/ Len(call.text) = 1 THEN NoCall ELSE [call EXCEPT !.text = Tail(@)]
  /\ UNCHANGED <<ops, down, faults, exited>>

\* fread, fgets and getdelim: n bytes, n - 1 bytes or a line, or a line.
\* `rest` is what there is to read at the start.
Rest(s) ==
  LET x == st[s] IN
  (IF x.ungot = None THEN <<>> ELSE <<x.ungot>>)
  \o SubSeq(Content(x), Position(x) + 1, Len(Content(x)))
Reading(fn, s, n, limit) ==
  /\ Free(s) /\ s = "file" /\ ~hist[s].broken
  /\ call' = [fn |-> fn, s |-> s, n |-> n, limit |-> limit, acc |-> <<>>, cap |-> LineCap, rest |-> Rest(s)]
  /\ ops' = ops + 1
  /\ UNCHANGED <<st, hist, down, faults, exited>>
Fread(s, n) == Reading("fread", s, n, n)
\* Mutant of Fgets: no room is kept for the final zero.
FgetsWhole(s, n) == Reading("fgets", s, n, n)
Fgets(s, n) == Reading("fgets", s, n, n - 1)
Getdelim(s) == Reading("getdelim", s, Disk + 2, Disk + 2)

\* The loop is over with what it has read, and the line it has room for:
\* nothing read is no result.
ReadOver(c, got) == call' = [fn |-> "read", of |-> c, got |-> got]
ReadStep ==
  /\ call.fn \in {"fread", "fgets", "getdelim"}
  /\ Getc(call.s)
  /\ LET c == hist'[call.s].res.val
         acc == Append(call.acc, c)
         grow == call.fn = "getdelim" /\ Len(acc) + 1 > call.cap
         over == Len(acc) = call.limit \/ (c = NL /\ call.fn # "fread")
     IN CASE c = EOF -> ReadOver(call, call.acc)
          [] c # EOF /\ grow /\ "heap" \in down -> ReadOver(call, <<>>)
          [] c # EOF /\ ~(grow /\ "heap" \in down) /\ over -> ReadOver([call EXCEPT !.cap = IF grow THEN 2 * @ ELSE @], acc)
          [] OTHER -> call' = [call EXCEPT !.acc = acc, !.cap = IF grow THEN 2 * @ ELSE @]
  /\ UNCHANGED <<ops, down, faults, exited>>
ReadReturns ==
  /\ call.fn = "read"
  /\ call' = NoCall
  /\ UNCHANGED <<st, hist, ops, down, faults, exited>>

\* fseek and rewind: relative to the descriptor's offset, which is behind
\* what was read ahead.
Fseek(s, offset, whence) ==
  LET x == FlushWrite(s, st[s])
      y == [x EXCEPT !.ungot = None, !.rpos = 0, !.rlen = 0]
      np == offset + (CASE whence = "set" -> 0 [] whence = "cur" -> y.off [] whence = "end" -> Len(y.data))
  IN /\ Free(s)
     /\ IF x.wlen > 0 THEN After(s, x, "fseek", EOF, FALSE, "none")
        ELSE IF np < 0 \/ s # "file" \/ (whence = "end" /\ "fs" \in down)
        THEN After(s, y, "fseek", EOF, FALSE, "none")
        ELSE After(s, [y EXCEPT !.off = np, !.pos = np, !.eof = FALSE],
                   CASE whence = "set" -> "fseek_set" [] whence = "cur" -> "fseek_cur" [] whence = "end" -> "fseek_end",
                   offset, TRUE, "none")
     /\ Counted

Ftell(s) ==
  LET x == st[s] IN
  /\ Free(s)
  /\ After(s, x, "ftell", x.pos + (IF x.wlen > 0 THEN x.wlen ELSE x.rpos), hist[s].exact, hist[s].last)
  /\ Counted

Fflush(s) ==
  /\ Free(s)
  /\ LET x == FlushWrite(s, st[s]) IN After(s, x, "fflush", IF x.wlen > 0 THEN EOF ELSE 0, hist[s].exact, hist[s].last)
  /\ Counted

Clearerr(s) ==
  /\ Free(s)
  /\ After(s, [st[s] EXCEPT !.err = FALSE, !.eof = FALSE], "clearerr", 0, hist[s].exact, hist[s].last)
  /\ Counted

\* Mutant of Setvbuf: the buffering changes with the bytes still pending.
SetvbufKeeps(s, mode, size, own) ==
  /\ Free(s) /\ st[s].rlen = 0
  /\ After(s, [st[s] EXCEPT !.bufmode = mode], "setvbuf", 0, hist[s].exact, hist[s].last)
  /\ Counted
\* setvbuf writes what is pending, then changes the buffer: to the program's own
\* of that size, or (own = FALSE) to one that ensure_buf takes later.  Programs
\* that read before lose what was read ahead, and those whose flush fails keep
\* the count of bytes that are in no buffer: neither is here.
Setvbuf(s, mode, size, own) ==
  LET x == FlushWrite(s, st[s]) IN
  /\ Free(s) /\ st[s].rlen = 0 /\ x.wlen = 0
  /\ After(s, [x EXCEPT !.buf = IF own THEN Zeros(size) ELSE <<>>, !.bufcap = size, !.bufmode = mode],
           "setvbuf", 0, hist[s].exact, hist[s].last)
  /\ Counted

\* fclose: the standard streams keep their descriptor; programs leave them open.
Fclose(s) ==
  /\ Free(s) /\ s # "console"
  /\ LET x == FlushWrite(s, st[s])
     IN After(s, [x EXCEPT !.open = FALSE, !.buf = <<>>], "fclose", IF x.wlen > 0 THEN EOF ELSE 0, hist[s].exact, hist[s].last)
  /\ Counted

\* fopen: what open() and fdopen() make of the mode.  open() has cut the file
\* short by the time that fdopen() finds no memory.
Opened(x, m) ==
  LET d == IF m = "w" THEN <<>> ELSE x.data IN
  [open |-> TRUE, data |-> d, off |-> IF m = "a" THEN Len(d) ELSE 0]
FreshHist(m) == [exact |-> m # "a", last |-> "none", broken |-> FALSE, res |-> Res("open", 0)]
Fopen(s, m) ==
  LET o == Opened(st[s], m) IN
  /\ call = NoCall /\ ops < MaxOps /\ ~exited /\ using = s /\ s = "file" /\ ~st[s].open
  /\ IF "fs" \in down THEN UNCHANGED <<st, hist>>
     ELSE IF "heap" \in down
     THEN Becomes(s, [st[s] EXCEPT !.data = o.data], [hist[s] EXCEPT !.res = Res("open", EOF)])
     ELSE Becomes(s, File(TRUE, "FBF", o.data, o.off), FreshHist(m))
  /\ Counted

OpenMemstream(s) ==
  /\ call = NoCall /\ ops < MaxOps /\ ~exited /\ using = s /\ s = "mem" /\ ~st[s].open
  /\ IF "heap" \in down THEN UNCHANGED <<st, hist>>
     ELSE Becomes(s, File(TRUE, "FBF", <<>>, 0), FreshHist("w"))
  /\ Counted

\* freopen: whether or not what is pending could be written.  When the open
\* fails the stream is gone, as C has it.
Freopen(s, m) ==
  LET x == FlushWrite(s, st[s])
      o == Opened(x, m)
      lost == x.wlen > 0
      y == [x EXCEPT !.data = o.data, !.off = o.off, !.err = FALSE, !.eof = FALSE,
                     !.rpos = 0, !.rlen = 0, !.wlen = 0, !.pos = 0, !.ungot = None]
  IN /\ Free(s) /\ s = "file"
     /\ IF "fs" \in down
        THEN Becomes(s, [x EXCEPT !.open = FALSE], [hist[s] EXCEPT !.broken = TRUE, !.res = Res("freopen", EOF)])
        ELSE Becomes(s, y, IF lost THEN [FreshHist(m) EXCEPT !.broken = TRUE, !.res = Res("freopen", 0)] ELSE FreshHist(m))
     /\ Counted

Gone(x) == [x EXCEPT !.open = FALSE, !.buf = <<>>, !.wlen = 0]
\* exit: the handlers, which are the program's own calls, are over; the
\* standard streams are flushed, and the process is gone with its buffers.
Exit ==
  /\ call = NoCall /\ ~exited
  /\ st' = [s \in Stream |-> Gone(IF s = "console" THEN FlushWrite(s, st[s]) ELSE st[s])]
  /\ hist' = [s \in Stream |-> [hist[s] EXCEPT !.res = Res("exit", 0), !.broken = @ \/ s # "console"]]
  /\ exited' = TRUE
  /\ UNCHANGED <<call, ops, down, faults>>

\* A service starts or stops to fail.
Fails(d) ==
  /\ ~exited /\ faults < MaxFaults /\ d \notin down
  /\ down' = down \cup {d} /\ faults' = faults + 1
  /\ UNCHANGED <<st, call, ops, exited, hist>>
Recovers(d) ==
  /\ ~exited /\ d \in down
  /\ down' = down \ {d}
  /\ UNCHANGED <<st, call, ops, faults, exited, hist>>

Steps ==
  \/ \E s \in Stream :
       \/ \E c \in Byte : CallFputc(s, c) \/ Ungetc(s, c)
       \/ CallFgetc(s) \/ Ftell(s) \/ Fflush(s) \/ Clearerr(s) \/ Fclose(s) \/ OpenMemstream(s) \/ Getdelim(s)
       \/ \E text \in Text : Fwrite(s, text)
       \/ \E n \in Counts : Fread(s, n) \/ Fgets(s, n)
       \/ \E offset \in Offsets, whence \in {"set", "cur", "end"} : Fseek(s, offset, whence)
       \/ \E mode \in {"FBF", "LBF", "NBF"}, size \in Sizes, own \in BOOLEAN : Setvbuf(s, mode, size, own)
       \/ \E m \in Modes : Fopen(s, m) \/ Freopen(s, m)
  \/ FwriteStep \/ ReadStep \/ ReadReturns \/ Exit
  \/ \E d \in {"fs", "heap"} : Fails(d) \/ Recovers(d)

Next == Steps /\ UNCHANGED using

Spec == Init /\ [][Next]_vars
-----------------------------------------------------------------------------
(* Properties.                                                               *)

TypeOK ==
  /\ \A s \in Stream : LET x == st[s] IN
       /\ {x.open, x.err, x.eof} \subseteq BOOLEAN /\ x.bufmode \in {"FBF", "LBF", "NBF"}
       /\ {x.rpos, x.rlen, x.wlen, x.pos, x.off} \subseteq Nat /\ x.ungot \in Byte \cup {None}
       /\ x.buf \in Seq(Nat) /\ x.data \in Seq(Nat)
  /\ down \subseteq {"fs", "heap"} /\ ops \in 0 .. MaxOps /\ faults \in 0 .. MaxFaults
  /\ exited \in BOOLEAN

\* The one buffer of a stream holds bytes read ahead or bytes to be written,
\* never both, and no index leaves it: until a write fails, whatever the order
\* of calls, and for a memory stream the bytes and their final zero fit the
\* memory (refill, fputc, ms_append).
OneUse ==
  \A s \in Stream : LET x == st[s] IN
     x.open /\ ~hist[s].broken =>
       /\ x.rpos <= x.rlen /\ x.rlen <= Len(x.buf)
       /\ x.buf # <<>> => x.bufcap = Len(x.buf) /\ x.wlen < x.bufcap
       /\ x.buf = <<>> => x.wlen = 0
       /\ x.wlen > 0 => x.rpos = x.rlen
       /\ s = "mem" => Len(x.data) < x.mscap

\* A line is on the console as soon as its newline was put, whatever comes
\* between (fputc's line buffering, also after a change by setvbuf).
PromptLines ==
  \A s \in Stream : LET x == st[s] IN
     ~hist[s].broken /\ x.bufmode = "LBF" => ~Contains(Pending(x), NL)

\* What a line or a block read returns.
UpToLine(d) == LET ends == {i \in 1 .. Len(d) : d[i] = NL} IN
  IF ends = {} THEN d ELSE SubSeq(d, 1, CHOOSE i \in ends : \A j \in ends : i <= j)
Expected(c) ==
  LET d == SubSeq(c.rest, 1, Smaller(IF c.fn = "fgets" THEN c.n - 1 ELSE c.n, Len(c.rest))) IN IF c.fn = "fread" THEN d ELSE UpToLine(d)

\* How many bytes of the result the caller has memory for, the final zero of a
\* string among them.
Room(c, got) ==
  CASE c.fn = "fread" -> Len(got) <= c.n
    [] c.fn = "fgets" -> Len(got) + 1 <= c.n
    [] c.fn = "getdelim" -> Len(got) + 1 <= c.cap

\* fread, fgets and getdelim return the next bytes of the file, pushed-back
\* and not yet written ones included, up to their limit: across refills, and
\* unless a read or an allocation failed.  Whatever failed, what they return
\* and its final zero fit the caller's buffer, or the line as it has grown.
ReadsWhatIsThere ==
  call.fn = "read" =>
    /\ Room(call.of, call.got)
    /\ ~hist[call.of.s].broken /\ ~st[call.of.s].err /\ faults = 0 => call.got = Expected(call.of)

\* The streams as their program sees them.
FileBytes == INSTANCE ByteStream WITH
  Ahead <- Largest, Standard <- FALSE, data <- Content(st["file"]), at <- Position(st["file"]),
  back <- st["file"].ungot, last <- hist["file"].last, exact <- hist["file"].exact,
  err <- st["file"].err, broken <- hist["file"].broken, res <- hist["file"].res
ConsoleBytes == INSTANCE ByteStream WITH
  Ahead <- Largest, Standard <- TRUE, data <- Content(st["console"]), at <- Position(st["console"]),
  back <- st["console"].ungot, last <- hist["console"].last, exact <- hist["console"].exact,
  err <- st["console"].err, broken <- hist["console"].broken, res <- hist["console"].res
MemoryBytes == INSTANCE ByteStream WITH
  Ahead <- Largest, Standard <- FALSE, data <- Content(st["mem"]), at <- Position(st["mem"]),
  back <- st["mem"].ungot, last <- hist["mem"].last, exact <- hist["mem"].exact,
  err <- st["mem"].err, broken <- hist["mem"].broken, res <- hist["mem"].res

\* A stream is a sequence of bytes with a position: what fputc put is what
\* fgetc gets and what the file holds after fclose, whatever the buffering and
\* the order of reads, writes, seeks and push-backs, and ftell tells where; the
\* exceptions are those of ByteStream (all of stdio.c).
FileIsBytes == FileBytes!Spec
\* The same of stdout, whose bytes survive exit.
ConsoleIsBytes == ConsoleBytes!Spec
\* The same of open_memstream, whose bytes are in the program's memory.
MemoryIsBytes == MemoryBytes!Spec
\* All three, as a refinement of ByteStream: file, console and memory stream.
StreamsAreBytes == FileIsBytes /\ ConsoleIsBytes /\ MemoryIsBytes

\* The indices of every stream stay in its one buffer, which has one use at a time.
BuffersHold == TypeOK /\ OneUse
=============================================================================
