------------------------------ MODULE Strings -------------------------------
(****************************************************************************)
(* The functions of string.c and wchar.c that write into a buffer, compare  *)
(* and search.  A buffer b is a function from positions, counted from 0, to *)
(* characters; a string in it ends with a 0.  Narrow and wide functions of  *)
(* the same loop have one definition.                                       *)
(****************************************************************************)
EXTENDS Text

Least(a, b) == IF a < b THEN a ELSE b
-----------------------------------------------------------------------------
(* Writing.                                                                  *)

RECURSIVE Fill(_, _, _, _)
Fill(b, p, c, n) == IF n = 0 THEN b ELSE Fill([b EXCEPT ![p] = c], p + 1, c, n - 1)
RECURSIVE FillWords(_, _, _, _)
FillWords(b, p, c, n) ==
  IF n < Word THEN Fill(b, p, c, n)
  ELSE FillWords([a \in DOMAIN b |-> IF a \in p .. p + Word - 1 THEN c ELSE b[a]], p + Word, c, n - Word)
\* memset: bytes up to a word's boundary, words, and bytes.
Memset(b, p, c, n) ==
  LET k == Least((Word - (p % Word)) % Word, n) IN FillWords(Fill(b, p, c, k), p + k, c, n - k)

RECURSIVE EndOf(_, _)
\* strlen: where the string at d ends.
EndOf(b, d) == IF b[d] = 0 THEN d ELSE EndOf(b, d + 1)
RECURSIVE CopyAt(_, _, _, _, _)
\* The loop of strncpy and strncat: up to n characters of s, without its end.
CopyAt(b, d, s, n, i) ==
  IF i < n /\ Ch(s, i) # 0 THEN CopyAt([b EXCEPT ![d + i] = Ch(s, i)], d, s, n, i + 1) ELSE [b |-> b, i |-> i]
RECURSIVE Strcpy(_, _, _, _)
\* strcpy to d from position i of s on, the end included.
Strcpy(b, d, s, i) ==
  LET b1 == [b EXCEPT ![d] = Ch(s, i)] IN IF Ch(s, i) = 0 THEN b1 ELSE Strcpy(b1, d + 1, s, i + 1)
Strncpy(b, s, n) == LET r == CopyAt(b, 0, s, n, 0) IN Fill(r.b, r.i, 0, n - r.i)
Strcat(b, s) == Strcpy(b, EndOf(b, 0), s, 0)
Strncat(b, s, n) ==
  LET d == EndOf(b, 0)
      r == CopyAt(b, d, s, n, 0)
  IN [r.b EXCEPT ![d + r.i] = 0]
\* strxfrm: as much as fits, the end included if it does; the length is returned.
Strxfrm(b, s, n) == [a \in DOMAIN b |-> IF a < Least(Len(s) + 1, n) THEN Ch(s, a) ELSE b[a]]
\* wcsxfrm goes through wcsncpy.
Wcsxfrm(b, s, n) == IF n = 0 THEN b ELSE Strncpy(b, s, IF Len(s) < n THEN Len(s) + 1 ELSE n)

RECURSIVE StrnlenAt(_, _, _)
StrnlenAt(s, max, n) == IF n < max /\ Ch(s, n) # 0 THEN StrnlenAt(s, max, n + 1) ELSE n
\* strndup: the new block, its end included.
Strndup(s, max) == Append(Part(s, 0, StrnlenAt(s, max, 0)), 0)
-----------------------------------------------------------------------------
(* Comparing.                                                                *)

Sign(n) == IF n < 0 THEN -1 ELSE IF n > 0 THEN 1 ELSE 0
RECURSIVE StrcmpAt(_, _, _)
StrcmpAt(a, b, i) == IF Ch(a, i) # 0 /\ Ch(a, i) = Ch(b, i) THEN StrcmpAt(a, b, i + 1) ELSE Ch(a, i) - Ch(b, i)
RECURSIVE StrncmpAt(_, _, _, _)
StrncmpAt(a, b, n, i) ==
  IF i = n THEN 0
  ELSE IF Ch(a, i) # Ch(b, i) THEN Ch(a, i) - Ch(b, i)
  ELSE IF Ch(a, i) = 0 THEN 0 ELSE StrncmpAt(a, b, n, i + 1)
RECURSIVE WcscmpAt(_, _, _)
WcscmpAt(a, b, i) ==
  IF Ch(a, i) # 0 /\ Ch(a, i) = Ch(b, i) THEN WcscmpAt(a, b, i + 1) ELSE Sign(Ch(a, i) - Ch(b, i))
RECURSIVE WcsncmpAt(_, _, _, _)
WcsncmpAt(a, b, n, i) ==
  IF n = 0 THEN 0
  ELSE IF Ch(a, i) # Ch(b, i) THEN (IF Ch(a, i) < Ch(b, i) THEN -1 ELSE 1)
  ELSE IF Ch(a, i) = 0 THEN 0 ELSE WcsncmpAt(a, b, n - 1, i + 1)
Lc(c) == IF c \in 65 .. 90 THEN c + 32 ELSE c
RECURSIVE StrcasecmpAt(_, _, _)
StrcasecmpAt(a, b, i) ==
  IF Ch(a, i) # 0 /\ Lc(Ch(a, i)) = Lc(Ch(b, i)) THEN StrcasecmpAt(a, b, i + 1) ELSE Lc(Ch(a, i)) - Lc(Ch(b, i))
RECURSIVE StrncasecmpAt(_, _, _, _)
StrncasecmpAt(a, b, n, i) ==
  IF n # 0 /\ Ch(a, i) # 0 /\ Lc(Ch(a, i)) = Lc(Ch(b, i)) THEN StrncasecmpAt(a, b, n - 1, i + 1)
  ELSE IF n = 0 THEN 0 ELSE Lc(Ch(a, i)) - Lc(Ch(b, i))
-----------------------------------------------------------------------------
(* Searching.                                                                *)

RECURSIVE MemchrAt(_, _, _, _)
MemchrAt(s, c, n, i) == IF i = n THEN NoPtr ELSE IF Ch(s, i) = c THEN i ELSE MemchrAt(s, c, n, i + 1)
RECURSIVE MemrchrAt(_, _, _)
MemrchrAt(s, c, n) == IF n = 0 THEN NoPtr ELSE IF Ch(s, n - 1) = c THEN n - 1 ELSE MemrchrAt(s, c, n - 1)
RECURSIVE StrrchrAt(_, _, _, _)
StrrchrAt(s, c, i, last) ==
  LET l == IF Ch(s, i) = c THEN i ELSE last IN IF Ch(s, i) = 0 THEN l ELSE StrrchrAt(s, c, i + 1, l)
RECURSIVE WcschrAt(_, _, _)
WcschrAt(s, c, i) == IF Ch(s, i) = c THEN i ELSE IF Ch(s, i) = 0 THEN NoPtr ELSE WcschrAt(s, c, i + 1)
RECURSIVE StrpbrkAt(_, _, _)
StrpbrkAt(s, set, i) ==
  IF Ch(s, i) = 0 THEN NoPtr ELSE IF Strchr(set, Ch(s, i)) THEN i ELSE StrpbrkAt(s, set, i + 1)
Wcspbrk(s, set) == LET i == StrcspnAt(s, set, 0) IN IF Ch(s, i) = 0 THEN NoPtr ELSE i
RECURSIVE FfsFrom(_, _)
FfsFrom(v, i) == IF v % 2 = 1 THEN i ELSE FfsFrom(v \div 2, i + 1)
Ffs(v) == IF v = 0 THEN 0 ELSE FfsFrom(v, 1)
-----------------------------------------------------------------------------
(* Paths of the *at calls.                                                   *)

\* rc_at_path in a buffer of cap bytes, dir being the descriptor's path or
\* <<>> for AT_FDCWD; NoPtr if the path is too long.
AtPath(dir, path, cap) ==
  LET p == IF Ch(path, 0) = Slash \/ dir = <<>> THEN path ELSE Append(dir, Slash) \o path
  IN IF Len(p) >= cap THEN <<NoPtr>> ELSE p
=============================================================================
