-------------------------------- MODULE Text --------------------------------
(****************************************************************************)
(* The C library's loops over strings and memory: string.c, the conversions *)
(* of wchar.c, and the paths of rc_fs.c and rc_proc.c.  A character is its  *)
(* code; a string is the sequence of its characters without the terminating *)
(* 0, and positions in it count from 0, as in the code.                     *)
(****************************************************************************)
EXTENDS Integers, Sequences, SequencesExt

CONSTANTS
  Word,      \* bytes in a word (8)
  PathMax    \* characters in a path (127)

Dot == 46
Slash == 47
Colon == 58

\* What is found at position i of string s.
Ch(s, i) == IF i < Len(s) THEN s[i + 1] ELSE 0
\* The characters of s from position i up to, and without, position j.
Part(s, i, j) == SubSeq(s, i + 1, IF j < Len(s) THEN j ELSE Len(s))
-----------------------------------------------------------------------------
(* Memory: a function from addresses to bytes.                               *)

RECURSIVE Bytes(_, _, _, _)
Bytes(m, d, s, n) == IF n = 0 THEN m ELSE Bytes([m EXCEPT ![d] = m[s]], d + 1, s + 1, n - 1)
RECURSIVE Words(_, _, _, _)
Words(m, d, s, n) ==
  IF n < Word THEN Bytes(m, d, s, n)
  ELSE Words([a \in DOMAIN m |-> IF a \in d .. d + Word - 1 THEN m[s + a - d] ELSE m[a]], d + Word, s + Word, n - Word)
RECURSIVE Backwards(_, _, _, _)
Backwards(m, d, s, n) ==
  IF n = 0 THEN m ELSE Backwards([m EXCEPT ![d + n - 1] = m[s + n - 1]], d, s, n - 1)

\* memcpy: bytes up to a word's boundary, words if the source is aligned then,
\* and bytes again.
Memcpy(m, d, s, n) ==
  LET gap == (Word - (d % Word)) % Word
      k == IF gap < n THEN gap ELSE n
      m1 == Bytes(m, d, s, k)
  IN IF (s + k) % Word = 0 THEN Words(m1, d + k, s + k, n - k) ELSE Bytes(m1, d + k, s + k, n - k)
\* Mutant of Memmove: always forwards.
MemmoveForward(m, d, s, n) == IF d = s \/ n = 0 THEN m ELSE Memcpy(m, d, s, n)
Memmove(m, d, s, n) ==
  IF d = s \/ n = 0 THEN m ELSE IF d < s THEN Memcpy(m, d, s, n) ELSE Backwards(m, d, s, n)
-----------------------------------------------------------------------------
(* Strings.                                                                  *)

\* strchr(set, c) finds c, the terminator too.
Strchr(set, c) == c = 0 \/ Contains(set, c)
RECURSIVE StrspnAt(_, _, _)
StrspnAt(s, set, n) == IF Ch(s, n) # 0 /\ Strchr(set, Ch(s, n)) THEN StrspnAt(s, set, n + 1) ELSE n
RECURSIVE StrcspnAt(_, _, _)
StrcspnAt(s, set, n) == IF Ch(s, n) # 0 /\ ~Strchr(set, Ch(s, n)) THEN StrcspnAt(s, set, n + 1) ELSE n

NoPtr == -1
RECURSIVE MemcmpAt(_, _, _, _, _)
\* Are the n characters at position a of s those at b of t?
MemcmpAt(s, a, t, b, n) == n = 0 \/ (Ch(s, a) = Ch(t, b) /\ MemcmpAt(s, a + 1, t, b + 1, n - 1))
RECURSIVE StrstrAt(_, _, _)
StrstrAt(hay, needle, i) ==
  IF Ch(hay, i) = 0 THEN NoPtr
  ELSE IF Ch(hay, i) = Ch(needle, 0) /\ MemcmpAt(hay, i, needle, 0, Len(needle)) THEN i
  ELSE StrstrAt(hay, needle, i + 1)
\* strstr, and wcsstr, which is the same loop.
Strstr(hay, needle) == IF needle = <<>> THEN 0 ELSE StrstrAt(hay, needle, 0)
RECURSIVE MemmemAt(_, _, _)
MemmemAt(hay, needle, i) ==
  IF i + Len(needle) > Len(hay) THEN NoPtr
  ELSE IF MemcmpAt(hay, i, needle, 0, Len(needle)) THEN i ELSE MemmemAt(hay, needle, i + 1)
Memmem(hay, needle) ==
  IF needle = <<>> THEN 0 ELSE IF Len(needle) > Len(hay) THEN NoPtr ELSE MemmemAt(hay, needle, 0)

\* One call of strtok_r with the saved position: the token and where to go on.
\* The separator after the token is overwritten, which later calls, starting
\* behind it, do not see.
StrtokR(s, sep, save) ==
  LET from == StrspnAt(s, sep, save)
      end == StrcspnAt(s, sep, from)
  IN CASE save = NoPtr \/ Ch(s, from) = 0 -> [tok |-> NoPtr, end |-> NoPtr, save |-> NoPtr]
       [] save # NoPtr /\ Ch(s, from) # 0 ->
            [tok |-> from, end |-> end, save |-> IF Ch(s, end) # 0 THEN end + 1 ELSE NoPtr]
\* wcstok saves the end of the string where strtok_r saves nothing.
Wcstok(s, sep, save) ==
  LET from == StrspnAt(s, sep, save)
      end == StrcspnAt(s, sep, from)
  IN IF Ch(s, from) = 0 THEN [tok |-> NoPtr, end |-> NoPtr, save |-> from]
     ELSE [tok |-> from, end |-> end, save |-> IF Ch(s, end) # 0 THEN end + 1 ELSE end]
Strsep(s, sep, at) ==
  LET end == StrcspnAt(s, sep, at) IN
  [tok |-> at, end |-> end, save |-> IF Ch(s, end) # 0 THEN end + 1 ELSE NoPtr]

\* All the tokens of s, as a program gets them with one call after another.
RECURSIVE TokensFrom(_, _, _, _)
TokensFrom(fn, s, sep, save) ==
  LET r == CASE fn = "strtok" -> StrtokR(s, sep, save)
             [] fn = "wcstok" -> Wcstok(s, sep, save)
             [] fn = "strsep" -> Strsep(s, sep, save)
  IN
  IF r.tok = NoPtr THEN <<>>
  ELSE <<Part(s, r.tok, r.end)>> \o (IF r.save = NoPtr THEN <<>> ELSE TokensFrom(fn, s, sep, r.save))
-----------------------------------------------------------------------------
(* Bytes and wide characters: one each; wide ones above 255 have no byte.    *)

RECURSIVE ConvertAt(_, _, _, _)
\* The loop of mbsnrtowcs and wcsnrtombs over s from `at`, room for n: what is
\* stored, and where the source pointer is left (NoPtr: the end was met).
ConvertAt(s, at, n, i) ==
  IF i = n THEN [out |-> <<>>, src |-> at + i, ok |-> TRUE]
  ELSE IF Ch(s, at + i) > 255 THEN [out |-> <<>>, src |-> at + i, ok |-> FALSE]
  ELSE IF Ch(s, at + i) = 0 THEN [out |-> <<>>, src |-> NoPtr, ok |-> TRUE]
  ELSE LET rest == ConvertAt(s, at, n, i + 1) IN [rest EXCEPT !.out = <<Ch(s, at + i)>> \o @]
Wcsnrtombs(s, at, n) == ConvertAt(s, at, n, 0)
RECURSIVE Pieces(_, _, _)
\* A program converts with a buffer of n until the source pointer is null.
Pieces(s, at, n) ==
  LET r == Wcsnrtombs(s, at, n) IN
  IF ~r.ok \/ r.src = NoPtr THEN r
  ELSE LET rest == Pieces(s, r.src, n) IN [rest EXCEPT !.out = r.out \o @]
-----------------------------------------------------------------------------
(* Paths.                                                                    *)

RECURSIVE BackTo(_, _)
\* tmp is cut back to the last '/' before its position o, but not below 1.
BackTo(tmp, o) == IF o > 1 /\ Ch(tmp, o - 1) # Slash THEN BackTo(tmp, o - 1) ELSE Part(tmp, 0, o)
\* One name of the path is put behind tmp.
Step(tmp, name) ==
  CASE name = <<Dot>> -> tmp
    [] name = <<Dot, Dot>> -> IF Len(tmp) > 1 THEN BackTo(tmp, Len(tmp) - 1) ELSE tmp
    [] OTHER -> LET t == IF Len(tmp) > 1 /\ Last(tmp) # Slash THEN Append(tmp, Slash) ELSE tmp
                    room == IF Len(t) < PathMax THEN PathMax - Len(t) ELSE 0
                IN t \o Part(name, 0, IF Len(name) < room THEN Len(name) ELSE room)
RECURSIVE NormalizeAt(_, _, _)
NormalizeAt(p, i, tmp) ==
  LET s == StrspnAt(p, <<Slash>>, i)
      e == StrcspnAt(p, <<Slash>>, s)
  IN IF Ch(p, s) = 0 THEN (IF Len(tmp) > 1 /\ Last(tmp) = Slash THEN Front(tmp) ELSE tmp)
     ELSE NormalizeAt(p, e, Step(tmp, Part(p, s, e)))
\* rc_normalize.
Normalize(p) == NormalizeAt(p, 0, <<Slash>>)

Cut(s) == IF Len(s) > PathMax THEN Part(s, 0, PathMax) ELSE s
\* __rc_abspath in directory cwd, <<>> if none is set.
Abspath(rel, cwd) ==
  LET cw == IF cwd = <<>> THEN <<Slash>> ELSE cwd
      dir == IF Last(Cut(cw)) = Slash \/ Len(Cut(cw)) = PathMax THEN Cut(cw) ELSE Append(cw, Slash)
  IN IF Ch(rel, 0) = Slash THEN Normalize(Cut(rel))
     ELSE IF rel = <<>> THEN Normalize(Cut(cw))
     ELSE Normalize(Cut(dir \o rel))

\* join_path into cap bytes; <<>> if the result does not fit.
JoinPath(cap, dir, name) ==
  LET d == IF Last(dir) = Slash THEN dir ELSE Append(dir, Slash)
  IN IF Len(d \o name) > cap - 1 THEN <<>> ELSE d \o name
RECURSIVE CandidatesFrom(_, _, _, _)
CandidatesFrom(search, file, cap, start) ==
  LET i == StrcspnAt(search, <<Colon>>, start)
      c == IF i > start THEN JoinPath(cap, Part(search, start, i), file) ELSE <<>>
  IN (IF c = <<>> THEN <<>> ELSE <<c>>)
       \o (IF Ch(search, i) = 0 THEN <<>> ELSE CandidatesFrom(search, file, cap, i + 1))
\* What execvp tries to execute, in order.
Candidates(search, file, cap) ==
  IF Contains(file, Slash) THEN <<file>> ELSE CandidatesFrom(search, file, cap, 0)
=============================================================================
