----------------------------- MODULE ByteStream -----------------------------
(****************************************************************************)
(* What a stdio stream promises its program: a sequence of bytes and one    *)
(* position, with no buffer in sight.  Stdio is shown to implement it.      *)
(* The promise ends (broken) when the stream's error indicator is set; and  *)
(* it names the three things the library does not promise although a C      *)
(* program might expect them: how far a seek relative to the position goes  *)
(* after reading, where a second change from reading to writing without a   *)
(* seek between lands, and that bytes not flushed outlive exit or freopen.  *)
(****************************************************************************)
EXTENDS Integers, Sequences

CONSTANTS
  Byte,      \* what a stream carries
  Ahead,     \* bytes that a stream may have read ahead: its buffer's size
  Standard   \* one of the streams that exit() flushes

VARIABLES
  data,      \* the bytes of the file, as the program wrote them
  at,        \* the stream's position
  back,      \* the byte pushed back, or None
  last,      \* "get" or "put": the last transfer since the last seek
  exact,     \* the library knows the position (ftell reports it)
  err,       \* the error indicator
  broken,    \* no promise any more
  res        \* result of the last call: [fn, val]

vars == <<data, at, back, last, exact, err, broken, res>>

None == -1
EOF == -1
\* s with d over it from position n on.
Overlay(s, n, d) == SubSeq(s, 1, n) \o d \o SubSeq(s, n + Len(d) + 1, Len(s))

Init ==
  /\ at = Len(data) /\ back = None /\ last = "none" /\ res = [fn |-> "none", val |-> 0]
  /\ exact = TRUE /\ err = FALSE /\ broken = FALSE

\* fopen, open_memstream, freopen: at the start, or at the end to append.
Open ==
  /\ res'.fn = "open" /\ res'.val = 0
  /\ data' \in {data, <<>>}
  /\ at' \in {0, Len(data')} /\ back' = None /\ last' = "none"
  /\ exact' => at' = 0
  /\ ~err' /\ ~broken'

\* fopen finds no memory, and may have cut the file short before.
OpenFails ==
  /\ res' = [fn |-> "open", val |-> EOF]
  /\ data' \in {data, <<>>}
  /\ UNCHANGED <<at, back, last, exact, err, broken>>

\* A byte is written at the position.  Past the end no promise is made.
Put ==
  /\ res'.fn = "fputc" /\ res'.val # EOF
  /\ at <= Len(data)
  /\ data' = Overlay(data, at, <<res'.val>>)
  /\ at' = at + 1 /\ back' = None /\ last' = "put"
  /\ exact' = (exact /\ last # "get")
  /\ UNCHANGED <<err, broken>>

\* A byte is read: the one pushed back, or the one at the position.
Get ==
  /\ res'.fn = "fgetc" /\ res'.val # EOF
  /\ IF back # None THEN res'.val = back /\ at' = at
     ELSE at < Len(data) /\ res'.val = data[at + 1] /\ at' = at + 1
  /\ back' = None /\ last' = "get"
  /\ UNCHANGED <<data, exact, err, broken>>

\* Nothing is read: at the end, or because of an error.
GetNothing ==
  /\ res' = [fn |-> "fgetc", val |-> EOF]
  /\ back = None /\ (at >= Len(data) \/ err')
  /\ err => err'
  /\ UNCHANGED <<data, at, back, exact, broken>>
  /\ last' = "get"

Unget ==
  /\ res'.fn = "ungetc"
  /\ back' = IF res'.val = EOF THEN back ELSE res'.val
  /\ res'.val = EOF <=> back # None
  /\ UNCHANGED <<data, at, last, exact, err, broken>>

\* Seek to an absolute position, or to one relative to the end; relative to
\* the position only to within what was read ahead.
Seek ==
  /\ res'.fn \in {"fseek_set", "fseek_end", "fseek_cur"}
  /\ CASE res'.fn = "fseek_set" -> at' = res'.val
       [] res'.fn = "fseek_end" -> at' = Len(data) + res'.val
       [] res'.fn = "fseek_cur" -> at' - res'.val \in at .. at + Ahead
  /\ back' = None /\ last' = "none" /\ exact' = TRUE
  /\ UNCHANGED <<data, err, broken>>

\* A seek that fails still forgets what was read ahead.
SeekFails ==
  /\ res'.fn = "fseek" /\ res'.val = EOF
  /\ at' \in at .. at + Ahead
  /\ back' = None /\ last' = "none" /\ exact' = FALSE
  /\ UNCHANGED <<data, err, broken>>

Tell ==
  /\ res'.fn = "ftell"
  /\ exact => res'.val = at
  /\ UNCHANGED <<data, at, back, last, exact, err, broken>>

\* fflush, fclose, setvbuf, clearerr: the program sees no change.
Quiet ==
  /\ res'.fn \in {"fflush", "fclose", "setvbuf", "clearerr"} /\ res'.val = 0
  /\ err' => err
  /\ UNCHANGED <<data, at, back, last, exact, broken>>

Exit == Standard /\ res'.fn = "exit" /\ UNCHANGED <<data, broken>>

\* The promise ends: with the error indicator set;
Fault == broken' /\ err'
\* with a write after a read, when the position is not known;
Blind == broken' /\ res'.fn = "fputc" /\ last = "get" /\ ~exact
\* with a write past the end of the file;
Hole == broken' /\ res'.fn = "fputc" /\ at > Len(data)
\* or with exit or freopen.
Abandon == broken' /\ (res'.fn = "freopen" \/ (res'.fn = "exit" /\ ~Standard))

Next ==
  \/ Open \/ OpenFails \/ Put \/ Get \/ GetNothing \/ Unget \/ Seek \/ SeekFails \/ Tell \/ Quiet \/ Exit
  \/ Fault \/ Blind \/ Hole \/ Abandon
  \/ broken

Spec == Init /\ [][Next]_vars
=============================================================================
