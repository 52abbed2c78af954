------------------------------- MODULE Format -------------------------------
(****************************************************************************)
(* The C library's conversions between numbers and text: strtoull           *)
(* (stdlib.c), the printf family (printf.c) and sscanf (scanf.c).  int,     *)
(* long and long long are not told apart: all have Width bits.  Floating    *)
(* point is not modelled.                                                   *)
(****************************************************************************)
EXTENDS Text

CONSTANT
  Width      \* bits in an integer

Minus == 45
Plus == 43
Space == 32
Zero == 48
Percent == 37
Hash == 35
Star == 42
LowerX == 120

Wrap(n) == n % (2 ^ Width)
Signed(n) == IF Wrap(n) < 2 ^ (Width - 1) THEN Wrap(n) ELSE Wrap(n) - 2 ^ Width
IsSpace(c) == c = Space \/ c \in 9 .. 13
IsDigit(c) == c \in 48 .. 57
RECURSIVE SpacesEnd(_, _)
SpacesEnd(s, i) == IF IsSpace(Ch(s, i)) THEN SpacesEnd(s, i + 1) ELSE i
-----------------------------------------------------------------------------
(* strtoull.                                                                 *)

DigitVal(c) ==
  CASE c \in 48 .. 57 -> c - 48 [] c \in 97 .. 122 -> c - 87 [] c \in 65 .. 90 -> c - 55 [] OTHER -> 99
RECURSIVE Digits(_, _, _, _)
\* The digits at position i: the value, and where they end.
Digits(s, i, base, acc) ==
  LET d == DigitVal(Ch(s, i)) IN
  IF d >= base THEN [v |-> acc, end |-> i] ELSE Digits(s, i + 1, base, Wrap(acc * base + d))
\* strtoull: nothing is used if there is no digit.
Strtoull(s, base) ==
  LET b == SpacesEnd(s, 0)
      neg == Ch(s, b) = Minus
      p == IF Ch(s, b) \in {Plus, Minus} THEN b + 1 ELSE b
      hex == base \in {0, 16} /\ Ch(s, p) = Zero /\ Ch(s, p + 1) \in {LowerX, 88} /\ DigitVal(Ch(s, p + 2)) < 16
      from == IF hex THEN p + 2 ELSE p
      r == Digits(s, from, IF hex THEN 16 ELSE IF base # 0 THEN base ELSE IF Ch(s, p) = Zero THEN 8 ELSE 10, 0)
  IN [v |-> Wrap(IF neg THEN -r.v ELSE r.v), end |-> IF r.end = from THEN 0 ELSE r.end]
-----------------------------------------------------------------------------
(* printf.                                                                   *)

Repeat(c, n) == [i \in 1 .. (IF n > 0 THEN n ELSE 0) |-> c]
RECURSIVE UtoaOf(_, _, _)
\* The digits of v, those above 9 as letters from `ten` on.
UtoaOf(v, base, ten) ==
  IF v = 0 THEN <<>>
  ELSE LET d == v % base IN Append(UtoaOf(v \div base, base, ten), IF d < 10 THEN 48 + d ELSE ten + d - 10)
Utoa(v, base, ten) == IF v = 0 THEN <<Zero>> ELSE UtoaOf(v, base, ten)

\* put_number: fl is the set of the flags' characters, prec -1 if not given.
PutNumber(digits, neg, prefix, fl, width, prec) ==
  LET sign == IF neg THEN <<Minus>> ELSE IF Plus \in fl THEN <<Plus>> ELSE IF Space \in fl THEN <<Space>> ELSE <<>>
      least == IF prec >= 0 /\ Len(digits) < prec THEN prec - Len(digits) ELSE 0
      room == width - Len(digits) - Len(prefix) - Len(sign)
      zeros == IF Zero \in fl /\ prec < 0 /\ Minus \notin fl /\ room > least THEN room ELSE least
      body == sign \o prefix \o Repeat(Zero, zeros) \o digits
      space == Repeat(Space, width - Len(body))
  IN IF Minus \in fl THEN body \o space ELSE space \o body
PutStr(s, fl, width, prec) ==
  LET t == IF prec >= 0 /\ prec < Len(s) THEN Part(s, 0, prec) ELSE s
      space == Repeat(Space, width - Len(t))
  IN IF Minus \in fl THEN t \o space ELSE space \o t

RECURSIVE FlagsAt(_, _, _)
FlagsAt(f, i, fl) ==
  IF Ch(f, i) \in {Minus, Plus, Space, Hash, Zero} THEN FlagsAt(f, i + 1, fl \cup {Ch(f, i)})
  ELSE [fl |-> fl, i |-> i]
RECURSIVE NumAt(_, _, _)
NumAt(f, i, n) == IF IsDigit(Ch(f, i)) THEN NumAt(f, i + 1, n * 10 + Ch(f, i) - 48) ELSE [n |-> n, i |-> i]
RECURSIVE LengthEnd(_, _)
\* Behind the letters h, l, z, t, j and L.
LengthEnd(f, i) == IF Ch(f, i) \in {104, 108, 122, 116, 106, 76} THEN LengthEnd(f, i + 1) ELSE i

\* A number, or '*' for the next argument: its value, the arguments left, and
\* the position behind it.
StarOr(f, i, args) ==
  IF Ch(f, i) = Star THEN [n |-> Head(args), args |-> Tail(args), i |-> i + 1]
  ELSE LET r == NumAt(f, i, 0) IN [n |-> r.n, args |-> args, i |-> r.i]
\* The directive behind the '%' at position i - 1.
Directive(f, i, args) ==
  LET a == FlagsAt(f, i, {})
      w == StarOr(f, a.i, args)
      dot == Ch(f, w.i) = Dot
      p == IF dot THEN StarOr(f, w.i + 1, w.args) ELSE [n |-> -1, args |-> w.args, i |-> w.i]
      e == LengthEnd(f, p.i)
  IN [fl |-> IF w.n < 0 THEN a.fl \cup {Minus} ELSE a.fl, width |-> IF w.n < 0 THEN -w.n ELSE w.n,
      prec |-> IF p.n < 0 THEN -1 ELSE p.n, args |-> p.args, conv |-> Ch(f, e), i |-> e]
\* What a directive puts out for argument v.
Put(d, v) ==
  CASE d.conv \in {100, 105} ->                                         \* d i
         PutNumber(Utoa(Wrap(IF v < 0 THEN -v ELSE v), 10, 97), v < 0, <<>>, d.fl, d.width, d.prec)
    [] d.conv \in {117, 111, LowerX, 88} ->                             \* u o x X
         LET base == CASE d.conv = 111 -> 8 [] d.conv = 117 -> 10 [] OTHER -> 16
             pre == IF Hash \notin d.fl \/ Wrap(v) = 0 \/ d.conv = 117 THEN <<>>
                    ELSE IF d.conv = 111 THEN <<Zero>> ELSE <<Zero, d.conv>>
         IN PutNumber(Utoa(Wrap(v), base, IF d.conv = 88 THEN 65 ELSE 97), FALSE, pre, d.fl, d.width, d.prec)
    [] d.conv = 112 -> PutNumber(Utoa(Wrap(v), 16, 97), FALSE, <<Zero, LowerX>>, d.fl, d.width, d.prec)    \* p
    [] d.conv = 99 -> PutStr(<<v>>, d.fl, d.width, -1)                  \* c
    [] d.conv = 115 -> PutStr(v, d.fl, d.width, d.prec)                 \* s
Takes(c) == c \in {100, 105, 117, 111, LowerX, 88, 112, 99, 115}
RECURSIVE VformatAt(_, _, _)
\* vformat from position i on: all that is emitted.
VformatAt(f, i, args) ==
  IF Ch(f, i) = 0 THEN <<>>
  ELSE IF Ch(f, i) # Percent THEN <<Ch(f, i)>> \o VformatAt(f, i + 1, args)
  ELSE LET d == Directive(f, i + 1, args) IN
       CASE Takes(d.conv) -> Put(d, Head(d.args)) \o VformatAt(f, d.i + 1, Tail(d.args))
         [] d.conv = Percent -> <<Percent>> \o VformatAt(f, d.i + 1, d.args)
         [] d.conv = 0 -> <<>>
         [] d.conv = 110 -> VformatAt(f, d.i + 1, Tail(d.args))           \* n
         [] OTHER -> <<Percent, d.conv>> \o VformatAt(f, d.i + 1, d.args)

RECURSIVE EmitStr(_, _, _, _)
\* emit_str: character after character into dst while there is room.
EmitStr(dst, cap, len, s) ==
  IF s = <<>> THEN dst
  ELSE EmitStr(IF len + 1 < cap THEN [dst EXCEPT ![len] = Head(s)] ELSE dst, cap, len + 1, Tail(s))
\* vsnprintf of the text s into dst, a function from positions to characters.
Vsnprintf(dst, n, s) ==
  LET d == EmitStr(dst, n, 0, s) IN IF n = 0 THEN d ELSE [d EXCEPT ![IF Len(s) < n THEN Len(s) ELSE n - 1] = 0]
\* vsprintf: no limit.
Vsprintf(dst, s) == [EmitStr(dst, Len(s) + 2, 0, s) EXCEPT ![Len(s)] = 0]
\* vasprintf: once to count, once into a block of that size and one.
Vasprintf(s) == Vsnprintf([i \in 0 .. Len(s) |-> -1], Len(s) + 1, s)
-----------------------------------------------------------------------------
(* Wide numbers and texts.                                                   *)

RECURSIVE NarrowAt(_, _, _)
\* NARROW into a buffer of cap bytes: the ASCII characters in front.
NarrowAt(s, cap, i) == IF i < cap - 1 /\ Ch(s, i) \in 1 .. 127 THEN NarrowAt(s, cap, i + 1) ELSE Part(s, 0, i)
\* wcstoull and its kin; the end is as far into s as into the buffer.
Wcstoull(s, base, cap) == Strtoull(NarrowAt(s, cap, 0), base)
\* vswprintf with buffers of fcap and ocap bytes: the text, NoPtr if it fails.
Vswprintf(n, f, args, fcap, ocap) ==
  LET text == VformatAt(f, 0, args) IN
  IF (\E i \in DOMAIN f : i < fcap /\ f[i] > 255) \/ Len(f) >= fcap \/ Len(text) >= ocap \/ Len(text) >= n
  THEN <<NoPtr>> ELSE text
-----------------------------------------------------------------------------
(* sscanf.                                                                   *)

\* A scan set behind '[': its characters, whether it is negated, and its end.
RECURSIVE SetAt(_, _, _)
SetAt(f, i, set) ==
  IF Ch(f, i) \in {0, 93} THEN [set |-> set, i |-> IF Ch(f, i) = 0 THEN i ELSE i + 1]
  ELSE IF Ch(f, i + 1) = Minus /\ Ch(f, i + 2) \notin {0, 93}
       THEN SetAt(f, i + 3, set \cup (Ch(f, i) .. Ch(f, i + 2)))
       ELSE SetAt(f, i + 1, set \cup {Ch(f, i)})
ScanSet(f, i) ==
  LET neg == Ch(f, i) = 94
      j == IF neg THEN i + 1 ELSE i
      r == IF Ch(f, j) = 93 THEN SetAt(f, j + 1, {93}) ELSE SetAt(f, j, {})
  IN [word |-> FALSE, set |-> r.set, neg |-> neg, i |-> r.i]
RECURSIVE FieldEnd(_, _, _, _)
\* The end of the characters at position i, at most w of them (0: any number),
\* that belong to set x, or to a word of %s, which a space ends.
FieldEnd(s, i, w, x) ==
  LET c == Ch(s, i)
      in == IF x.word THEN ~IsSpace(c) ELSE (c \in x.set) # x.neg
  IN IF c # 0 /\ in /\ w # 1 THEN FieldEnd(s, i + 1, IF w = 0 THEN 0 ELSE w - 1, x)
     ELSE IF c # 0 /\ in THEN i + 1 ELSE i

\* Behind one length modifier: hh, h, ll, l, j, z, t or L.
ScanLengthEnd(f, i) ==
  IF Ch(f, i) \in {104, 108} THEN (IF Ch(f, i + 1) = Ch(f, i) THEN i + 2 ELSE i + 1)
  ELSE IF Ch(f, i) \in {106, 122, 116, 76} THEN i + 1 ELSE i

\* Mutant of CharsEnd: the end of the string is not looked for.
CharsEndBlind(s, i, n) == i + n
\* %c: n characters, if there are so many.
CharsEnd(s, i, n) == IF i + n <= Len(s) THEN i + n ELSE NoPtr

\* Number of conversion c in the first characters of s from i on.
ScanNumber(s, i, width, c) ==
  LET base == CASE c \in {100, 117} -> 10 [] c = 111 -> 8 [] c \in {LowerX, 88, 112} -> 16 [] OTHER -> 0
      end == IF width > 0 /\ i + width < Len(s) THEN i + width ELSE Len(s)
  IN Strtoull(Part(s, i, end), base)

RECURSIVE ScanAt(_, _, _, _, _)
\* vsscanf with the format at position i, the string at j, the values stored
\* so far, and how many count.
ScanAt(str, f, i, j, r) ==
  LET c == Ch(f, i)
      skip == Ch(f, i + 1) = Star
      w == NumAt(f, IF skip THEN i + 2 ELSE i + 1, 0)
      e == ScanLengthEnd(f, w.i)
      conv == Ch(f, e)
      at == IF conv \in {99, 91} THEN j ELSE SpacesEnd(str, j)
      x == IF conv = 91 THEN ScanSet(f, e + 1) ELSE [word |-> TRUE, set |-> {}, neg |-> FALSE, i |-> e + 1]
      Over(k, n) == [r EXCEPT !.ret = n, !.at = k]
      Stored(v) == IF skip THEN r ELSE [r EXCEPT !.vals = Append(@, v), !.ret = @ + 1]
  IN CASE c = 0 -> Over(j, r.ret)
       [] c # 0 /\ IsSpace(c) -> ScanAt(str, f, i + 1, SpacesEnd(str, j), r)
       [] c # Percent /\ c # 0 /\ ~IsSpace(c) ->
            IF Ch(str, j) = c THEN ScanAt(str, f, i + 1, j + 1, r) ELSE Over(j, r.ret)
       [] c = Percent /\ Ch(f, i + 1) = Percent ->
            IF Ch(str, j) = Percent THEN ScanAt(str, f, i + 2, j + 1, r) ELSE Over(j, r.ret)
       [] OTHER ->
         CASE conv = 0 -> Over(j, r.ret)
           [] conv = 110 -> ScanAt(str, f, e + 1, j, IF skip THEN r ELSE [r EXCEPT !.vals = Append(@, j)])
           [] conv \notin {0, 110} /\ Ch(str, at) = 0 -> Over(at, IF r.ret = 0 THEN -1 ELSE r.ret)
           [] conv = 99 /\ Ch(str, at) # 0 ->
                LET end == CharsEnd(str, at, IF w.n = 0 THEN 1 ELSE w.n) IN
                IF end = NoPtr THEN Over(at, r.ret)
                ELSE ScanAt(str, f, e + 1, end, Stored(Part(str, at, end)))
           [] conv \in {115, 91} /\ Ch(str, at) # 0 ->
                LET end == FieldEnd(str, at, w.n, x) IN
                IF end = at THEN Over(at, r.ret) ELSE ScanAt(str, f, x.i, end, Stored(Part(str, at, end)))
           [] conv \in {100, 105, 117, 111, LowerX, 88, 112} /\ Ch(str, at) # 0 ->
                LET n == ScanNumber(str, at, w.n, conv) IN
                IF n.end = 0 THEN Over(at, r.ret) ELSE ScanAt(str, f, e + 1, at + n.end, Stored(Signed(n.v)))
           [] OTHER -> Over(at, r.ret)
Sscanf(str, f) == ScanAt(str, f, 0, 0, [vals |-> <<>>, ret |-> 0, at |-> 0])
=============================================================================
