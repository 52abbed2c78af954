---------------------------- MODULE StdioProofs ----------------------------
(****************************************************************************)
(* Proofs about Stdio for all sizes of buffers, files and disks, all texts, *)
(* and any number of calls and failures: the buffered streams implement     *)
(* ByteStream.                                                              *)
(****************************************************************************)
EXTENDS Stdio, SequenceTheorems, WellFoundedInduction, TLAPS

BufMode == {"FBF", "LBF", "NBF"}
FileRec ==
  [open : BOOLEAN, err : BOOLEAN, eof : BOOLEAN, bufmode : BufMode, buf : Seq(Nat), bufcap : Nat,
   rpos : Nat, rlen : Nat, wlen : Nat, pos : Nat, ungot : Byte \cup {None},
   data : Seq(Nat), off : Nat, mscap : Nat]
Outcome ==
  [fn : {"none", "fputc", "fgetc", "ungetc", "fseek", "fseek_set", "fseek_cur", "fseek_end", "ftell",
         "fflush", "clearerr", "setvbuf", "fclose", "open", "freopen", "exit"}, val : Int]
HistRec == [exact : BOOLEAN, last : {"none", "get", "put"}, broken : BOOLEAN, res : Outcome]

\* What holds of every open stream, failures or not.
Held(s, x) ==
  /\ x.rpos <= x.rlen /\ x.rlen <= Len(x.buf)
  /\ x.buf # <<>> => x.bufcap = Len(x.buf) /\ x.bufcap <= Largest
  /\ x.buf = <<>> => x.wlen = 0
  /\ x.bufmode = "NBF" => x.wlen = 0
  /\ s # "file" => x.rlen = 0 /\ x.off = Len(x.data)
  /\ s = "mem" => Len(x.data) < x.mscap

\* The bytes read ahead and not taken yet are those before the descriptor's offset.
ReadAhead(x) ==
  /\ x.rlen <= x.off /\ x.off <= Len(x.data)
  /\ \A i \in x.rpos + 1 .. x.rlen : x.buf[i] = x.data[x.off - x.rlen + i]

\* What holds of an open stream as long as its promise lasts.
Sound(x, h) ==
  /\ x.wlen > 0 => x.wlen < x.bufcap /\ x.rpos = x.rlen /\ x.off <= Len(x.data)
  /\ x.rlen > x.rpos => h.last = "get" /\ ReadAhead(x)
  /\ h.exact => x.pos + x.rlen = x.off /\ (x.wlen > 0 \/ h.last # "get" => x.rlen = 0)
  /\ x.bufmode = "LBF" => \A i \in 1 .. x.wlen : x.buf[i] # NL

StreamOK(s, x, h) ==
  /\ x \in FileRec /\ h \in HistRec
  /\ x.open => Held(s, x)
  /\ x.open /\ ~h.broken => Sound(x, h)
  /\ ~x.open /\ ~h.broken => x.buf = <<>>

\* The calls in the middle of their loops.
ReadFn == {"fread", "fgets", "getdelim"}
WriteCall == [fn : {"fwrite"}, s : Stream, text : Seq(Byte) \ {<<>>}]
ReadCall == [fn : ReadFn, s : {"file"}, n : Nat, limit : Nat, acc : Seq(Nat), cap : Nat, rest : Seq(Nat)]
OverCall == [fn : {"read"}, of : ReadCall, got : Seq(Nat)]

Limited(c) == c.limit > 0 /\ c.limit = IF c.fn = "fgets" THEN c.n - 1 ELSE c.n
Trusted(s) == ~hist[s].broken /\ ~st[s].err /\ faults = 0

\* A reading loop has the first bytes of what there was, and goes on in the rest;
\* the line of getdelim has room for them and for a final zero.
HalfRead(c) ==
  /\ Len(c.acc) < c.limit
  /\ c.fn = "getdelim" => Len(c.acc) < c.cap
  /\ Trusted(c.s) => /\ c.acc \o Rest(c.s) = c.rest
                     /\ c.fn # "fread" => \A i \in 1 .. Len(c.acc) : c.acc[i] # NL

CallOK ==
  \/ call = NoCall
  \/ call \in WriteCall /\ st[call.s].open
  \/ call \in ReadCall /\ st[call.s].open /\ Limited(call) /\ HalfRead(call)
  \/ call \in OverCall /\ Room(call.of, call.got) /\ (Trusted(call.of.s) => call.got = Expected(call.of))

StdioInv ==
  /\ st \in [Stream -> FileRec] /\ hist \in [Stream -> HistRec]
  /\ \A s \in Stream : StreamOK(s, st[s], hist[s])
  /\ CallOK
  /\ down \subseteq {"fs", "heap"} /\ ops \in 0 .. MaxOps /\ faults \in 0 .. MaxFaults
  /\ exited \in BOOLEAN /\ (faults = 0 => down = {})
  /\ exited \/ st["console"].open
-----------------------------------------------------------------------------
(* Numbers and sequences.                                                    *)

LEMMA Bounds ==
  /\ Bufsiz \in Nat /\ Bufsiz > 0 /\ Largest \in Nat /\ Bufsiz <= Largest /\ LineCap \in Nat /\ LineCap > 0
  /\ Disk \in Nat /\ MaxOps \in Nat /\ MaxFaults \in Nat /\ Sizes \subseteq 1 .. Largest
  /\ Byte \subseteq Nat /\ NL \in Byte /\ Text \subseteq Seq(Byte) \ {<<>>} /\ InitData \in Seq(Nat)
  /\ Counts \subseteq Nat \ {0, 1} /\ Offsets \subseteq Int
BY ConstantsOK

LEMMA LeastOf ==
  ASSUME NEW S, S \subseteq Nat, S # {}
  PROVE  \E m \in S : \A k \in S : m <= k
<1>1. PICK m \in S : \A k \in S : <<k, m>> \notin OpToRel(<, Nat)
  BY NatLessThanWellFounded, WFMin, Zenon
<1>2. \A k \in S : ~(k \in Nat /\ m \in Nat /\ k < m)
  BY <1>1, Zenon DEF OpToRel
<1>. QED
  BY <1>2

\* The function that doubles with every step exists, so Turns is it.
LEMMA TurnsDef == Turns = [k \in Nat |-> IF k = 0 THEN 1 ELSE 2 * Turns[k - 1]]
<1> DEFINE Row(n) == {g \in [0 .. n -> Nat] : g[0] = 1 /\ \A i \in 1 .. n : g[i] = 2 * g[i - 1]}
           S == {n \in Nat : Row(n) = {}}
           F == [n \in Nat |-> (CHOOSE g \in Row(n) : TRUE)[n]]
<1>1. S = {}
  <2> SUFFICES ASSUME S # {}
               PROVE  FALSE
    OBVIOUS
  <2>1. PICK m \in S : \A k \in S : m <= k
    BY LeastOf
  <2>2. CASE m = 0
    <3>1. [i \in 0 .. 0 |-> 1] \in Row(0)
      OBVIOUS
    <3>. QED
      BY <2>1, <2>2, <3>1
  <2>3. CASE m # 0
    <3>1. m - 1 \in Nat /\ m - 1 \notin S
      <4>1. m \in Nat /\ (m - 1 \in S => m <= m - 1)
        BY <2>1
      <4> HIDE DEF S
      <4>. QED
        BY <2>3, <4>1
    <3>2. PICK g \in [0 .. m - 1 -> Nat] : g[0] = 1 /\ \A i \in 1 .. m - 1 : g[i] = 2 * g[i - 1]
      BY <3>1
    <3> DEFINE h == [i \in 0 .. m |-> IF i = m THEN 2 * g[m - 1] ELSE g[i]]
    <3>3. h \in [0 .. m -> Nat]
      BY <2>1, <2>3, <3>1, <3>2
    <3>4. h[0] = 1 /\ h[m] = 2 * h[m - 1]
      BY <2>1, <2>3, <3>1, <3>2
    <3>5. ASSUME NEW i \in 1 .. m
          PROVE  h[i] = 2 * h[i - 1]
      <4>1. CASE i = m
        BY <3>4, <4>1
      <4>2. CASE i # m
        <5>1. i \in 1 .. m - 1 /\ i - 1 \in 0 .. m /\ i - 1 # m
          BY <2>1, <4>2
        <5>. QED
          BY <3>2, <4>2, <5>1
      <4>. QED
        BY <4>1, <4>2
    <3> HIDE DEF h
    <3>6. h \in Row(m)
      BY <3>3, <3>4, <3>5
    <3>. QED
      BY <2>1, <3>6
  <2>. QED
    BY <2>2, <2>3
<1>2. ASSUME NEW n \in Nat, NEW m \in Nat, NEW g \in Row(n), NEW h \in Row(m), NEW k \in Nat, k <= n, k <= m
      PROVE  g[k] = h[k]
  <2> DEFINE D == {i \in Nat : i <= n /\ i <= m /\ g[i] # h[i]}
  <2> SUFFICES ASSUME D # {}
               PROVE  FALSE
    BY <1>2
  <2>1. PICK i \in D : \A j \in D : i <= j
    BY LeastOf
  <2>2. i # 0
    BY <2>1
  <2>3. i - 1 \in Nat /\ i - 1 \notin D /\ i \in 1 .. n /\ i \in 1 .. m
    BY <2>1, <2>2
  <2>. QED
    BY <2>1, <2>3
<1>3. \A n \in Nat : Row(n) # {}
  BY <1>1
<1>4. \A n \in Nat : \E g \in Row(n) : F[n] = g[n]
  <2> HIDE DEF Row
  <2>. QED
    BY <1>3
<1> HIDE DEF F, S
<1>5. ASSUME NEW n \in Nat
      PROVE  F[n] = IF n = 0 THEN 1 ELSE 2 * F[n - 1]
  <2>1. PICK g \in Row(n) : F[n] = g[n]
    BY <1>4
  <2>2. CASE n = 0
    BY <2>1, <2>2
  <2>3. CASE n # 0
    <3>1. n - 1 \in Nat /\ n \in 1 .. n
      BY <2>3
    <3>2. PICK h \in Row(n - 1) : F[n - 1] = h[n - 1]
      BY <1>4, <3>1
    <3>3. g[n - 1] = h[n - 1]
      <4>1. n - 1 <= n /\ n - 1 <= n - 1
        BY <3>1
      <4> HIDE DEF Row
      <4>. QED
        BY <1>2, <2>1, <3>1, <3>2, <4>1
    <3>4. g[n] = 2 * g[n - 1]
      BY <2>1, <3>1
    <3>. QED
      BY <2>1, <2>3, <3>2, <3>3, <3>4
  <2>. QED
    BY <2>2, <2>3
<1>6. F = [k \in Nat |-> IF k = 0 THEN 1 ELSE 2 * F[k - 1]]
  <2>1. F = [k \in Nat |-> F[k]]
    BY DEF F
  <2>. QED
    BY <1>5, <2>1
<1>. QED
  BY <1>6 DEF Turns

LEMMA TurnsGrow ==
  /\ Turns[0] = 1
  /\ \A k \in Nat : Turns[k] \in Nat /\ Turns[k] > k
<1>1. \A k \in Nat : Turns[k] = IF k = 0 THEN 1 ELSE 2 * Turns[k - 1]
  BY TurnsDef
<1> DEFINE S == {k \in Nat : ~(Turns[k] \in Nat /\ Turns[k] > k)}
<1>2. S = {}
  <2> SUFFICES ASSUME S # {}
               PROVE  FALSE
    OBVIOUS
  <2>1. PICK m \in S : \A k \in S : m <= k
    BY LeastOf
  <2>2. m # 0
    BY <1>1, <2>1
  <2>3. m - 1 \in Nat /\ m - 1 \notin S
    BY <2>1, <2>2
  <2>4. Turns[m - 1] \in Nat /\ Turns[m - 1] > m - 1 /\ Turns[m] = 2 * Turns[m - 1]
    BY <1>1, <2>2, <2>3
  <2>. QED
    BY <2>1, <2>3, <2>4
<1>. QED
  BY <1>1, <1>2

\* What the memory has grown to holds what it is for.
LEMMA DoubledFits ==
  ASSUME NEW cap \in Nat, cap > 0, NEW need \in Nat
  PROVE  Doubled(cap, need) \in Nat /\ Doubled(cap, need) >= need
<1> DEFINE Fits(k) == cap * Turns[k] >= need
           S == {k \in Nat : Fits(k)}
<1>1. CASE cap >= need
  BY <1>1 DEF Doubled
<1>2. CASE ~(cap >= need)
  <2>1. need \in S
    <3>1. Turns[need] \in Nat /\ Turns[need] > need
      BY TurnsGrow
    <3>2. cap * Turns[need] >= Turns[need]
      BY <3>1
    <3>. QED
      BY <3>1, <3>2
  <2>2. PICK m \in S : \A k \in S : m <= k
    BY <2>1, LeastOf
  <2>3. m # 0
    BY <1>2, <2>2, TurnsGrow
  <2>4. m \in 1 .. need /\ m - 1 \in Nat /\ m - 1 \notin S
    BY <2>1, <2>2, <2>3
  <2> DEFINE c == CHOOSE k \in 1 .. need : Fits(k) /\ ~Fits(k - 1)
  <2>5. c \in 1 .. need /\ Fits(c)
    BY <2>2, <2>4
  <2>6. Doubled(cap, need) = cap * Turns[c]
    BY <1>2 DEF Doubled
  <2> HIDE DEF c
  <2>7. Turns[c] \in Nat
    BY <2>5, TurnsGrow
  <2>. QED
    BY <2>5, <2>6, <2>7
<1>. QED
  BY <1>1, <1>2

\* The part of a sequence between two indices.
LEMMA PartOf ==
  ASSUME NEW s \in Seq(Nat), NEW i \in Nat, NEW j \in Nat, i >= 1, j <= Len(s)
  PROVE  /\ SubSeq(s, i, j) \in Seq(Nat)
         /\ Len(SubSeq(s, i, j)) = IF i <= j THEN j - i + 1 ELSE 0
         /\ \A k \in 1 .. Len(SubSeq(s, i, j)) : SubSeq(s, i, j)[k] = s[i + k - 1]
<1>1. Len(s) \in Nat /\ \A k \in 1 .. Len(s) : s[k] \in Nat
  BY LenProperties, ElementOfSeq
<1>2. i \in Int /\ j \in Int /\ \A k \in i .. j : s[k] \in Nat
  BY <1>1
<1> DEFINE u == SubSeq(s, i, j)
<1>3. /\ u \in Seq(Nat) /\ Len(u) = IF i <= j THEN j - i + 1 ELSE 0
      /\ \A k \in 1 .. j - i + 1 : u[k] = s[i + k - 1]
  BY <1>2, SubSeqProperties
<1> HIDE DEF u
<1>4. ASSUME NEW k \in 1 .. Len(u)
      PROVE  u[k] = s[i + k - 1]
  <2>1. Len(u) \in Nat /\ i <= j /\ Len(u) = j - i + 1
    BY <1>3
  <2>2. k \in 1 .. j - i + 1
    BY <2>1
  <2>. QED
    BY <1>3, <2>2
<1>. QED
  BY <1>3, <1>4 DEF u

\* The first n elements.
LEMMA HeadOf ==
  ASSUME NEW s \in Seq(Nat), NEW n \in Nat, n <= Len(s)
  PROVE  /\ SubSeq(s, 1, n) \in Seq(Nat) /\ Len(SubSeq(s, 1, n)) = n
         /\ \A k \in 1 .. n : SubSeq(s, 1, n)[k] = s[k]
<1>1. Len(s) \in Nat
  BY LenProperties
<1> DEFINE u == SubSeq(s, 1, n)
<1>2. /\ u \in Seq(Nat) /\ Len(u) = IF 1 <= n THEN n - 1 + 1 ELSE 0
      /\ \A k \in 1 .. Len(u) : u[k] = s[1 + k - 1]
  BY PartOf
<1> HIDE DEF u
<1>3. Len(u) = n
  BY <1>2
<1>4. \A k \in 1 .. n : u[k] = s[k]
  BY <1>2, <1>3
<1>. QED
  BY <1>2, <1>3, <1>4 DEF u

\* The elements behind the first n.
LEMMA RestOf ==
  ASSUME NEW s \in Seq(Nat), NEW n \in Nat
  PROVE  /\ SubSeq(s, n + 1, Len(s)) \in Seq(Nat)
         /\ Len(SubSeq(s, n + 1, Len(s))) = IF n <= Len(s) THEN Len(s) - n ELSE 0
         /\ \A k \in 1 .. Len(s) - n : SubSeq(s, n + 1, Len(s))[k] = s[n + k]
<1>1. PICK l \in Nat : l = Len(s)
  BY LenProperties
<1> DEFINE u == SubSeq(s, n + 1, Len(s))
<1>2. /\ u \in Seq(Nat) /\ Len(u) = IF n + 1 <= l THEN l - (n + 1) + 1 ELSE 0
      /\ \A k \in 1 .. Len(u) : u[k] = s[(n + 1) + k - 1]
  <2>1. n + 1 \in Nat /\ n + 1 >= 1 /\ l <= Len(s)
    BY <1>1
  <2>. QED
    BY <1>1, <2>1, PartOf
<1> HIDE DEF u
<1>3. Len(u) = IF n <= l THEN l - n ELSE 0
  BY <1>2
<1>4. ASSUME NEW k \in 1 .. l - n
      PROVE  u[k] = s[n + k]
  <2>1. k \in 1 .. Len(u) /\ (n + 1) + k - 1 = n + k
    BY <1>3
  <2>. QED
    BY <1>2, <2>1
<1>. QED
  BY <1>1, <1>2, <1>3, <1>4 DEF u

LEMMA JoinOf ==
  ASSUME NEW s \in Seq(Nat), NEW t \in Seq(Nat)
  PROVE  /\ s \o t \in Seq(Nat) /\ Len(s \o t) = Len(s) + Len(t)
         /\ \A k \in 1 .. Len(s) : (s \o t)[k] = s[k]
         /\ \A k \in 1 .. Len(t) : (s \o t)[Len(s) + k] = t[k]
BY LenProperties, ConcatProperties

\* A sequence with another laid over it.
LEMMA SpliceOf ==
  ASSUME NEW old \in Seq(Nat), NEW d \in Seq(Nat), NEW n \in Nat, n <= Len(old)
  PROVE  /\ Splice(old, n, d) \in Seq(Nat)
         /\ Len(Splice(old, n, d)) = IF n + Len(d) <= Len(old) THEN Len(old) ELSE n + Len(d)
         /\ \A i \in 1 .. Len(Splice(old, n, d)) :
              Splice(old, n, d)[i] = IF i <= n THEN old[i] ELSE IF i <= n + Len(d) THEN d[i - n] ELSE old[i]
<1>1. PICK l \in Nat, m \in Nat : l = Len(old) /\ m = Len(d) /\ n <= l
  BY LenProperties
<1>2. PICK a : a = SubSeq(old, 1, n)
  OBVIOUS
<1>3. PICK b : b = SubSeq(old, (n + m) + 1, Len(old))
  OBVIOUS
<1>4. a \in Seq(Nat) /\ Len(a) = n /\ \A k \in 1 .. n : a[k] = old[k]
  BY <1>2, HeadOf
<1>5. /\ b \in Seq(Nat) /\ Len(b) = IF n + m <= l THEN l - (n + m) ELSE 0
      /\ \A k \in 1 .. l - (n + m) : b[k] = old[(n + m) + k]
  <2>1. n + m \in Nat
    BY <1>1
  <2>. QED
    BY <1>1, <1>3, <2>1, RestOf
<1>6. PICK e : e = a \o d
  OBVIOUS
<1>7. /\ e \in Seq(Nat) /\ Len(e) = n + m
      /\ \A k \in 1 .. n : e[k] = a[k]
      /\ \A k \in 1 .. m : e[n + k] = d[k]
  <2>1. /\ a \o d \in Seq(Nat) /\ Len(a \o d) = Len(a) + Len(d)
        /\ \A k \in 1 .. Len(a) : (a \o d)[k] = a[k]
        /\ \A k \in 1 .. Len(d) : (a \o d)[Len(a) + k] = d[k]
    BY <1>4, JoinOf
  <2>. QED
    BY <1>1, <1>4, <1>6, <2>1, Zenon
<1>8. PICK w : w = e \o b
  OBVIOUS
<1>9. /\ w \in Seq(Nat) /\ Len(w) = (n + m) + Len(b)
      /\ \A k \in 1 .. n + m : w[k] = e[k]
      /\ \A k \in 1 .. Len(b) : w[(n + m) + k] = b[k]
  <2>1. /\ e \o b \in Seq(Nat) /\ Len(e \o b) = Len(e) + Len(b)
        /\ \A k \in 1 .. Len(e) : (e \o b)[k] = e[k]
        /\ \A k \in 1 .. Len(b) : (e \o b)[Len(e) + k] = b[k]
    BY <1>5, <1>7, JoinOf
  <2>. QED
    BY <1>7, <1>8, <2>1, Zenon
<1>10. Splice(old, n, d) = w
  BY <1>1, <1>2, <1>3, <1>6, <1>8 DEF Splice
<1>11. Len(w) = IF n + m <= l THEN l ELSE n + m
  BY <1>5, <1>9
<1>12. ASSUME NEW i \in 1 .. Len(w)
       PROVE  w[i] = IF i <= n THEN old[i] ELSE IF i <= n + m THEN d[i - n] ELSE old[i]
  <2>1. CASE i <= n
    <3>1. i \in 1 .. n /\ i \in 1 .. n + m
      BY <1>11, <2>1
    <3>. QED
      BY <1>4, <1>7, <1>9, <2>1, <3>1
  <2>2. CASE ~(i <= n) /\ i <= n + m
    <3>1. PICK k \in Nat : k = i - n
      BY <2>2
    <3>2. k \in 1 .. m /\ n + k = i /\ i \in 1 .. n + m
      BY <2>2, <3>1
    <3>3. e[n + k] = d[k] /\ w[i] = e[i]
      BY <1>7, <1>9, <3>2
    <3>. QED
      BY <2>2, <3>1, <3>2, <3>3
  <2>3. CASE ~(i <= n) /\ ~(i <= n + m)
    <3>1. PICK k \in Nat : k = i - (n + m)
      BY <2>3
    <3>2. k \in 1 .. Len(b) /\ k \in 1 .. l - (n + m) /\ (n + m) + k = i
      BY <1>5, <1>11, <2>3, <3>1
    <3>3. w[(n + m) + k] = b[k] /\ b[k] = old[(n + m) + k]
      BY <1>5, <1>9, <3>2
    <3>. QED
      BY <2>3, <3>2, <3>3
  <2>. QED
    BY <2>1, <2>2, <2>3
<1>. QED
  BY <1>1, <1>9, <1>10, <1>11, <1>12

LEMMA SpliceLen ==
  ASSUME NEW old \in Seq(Nat), NEW d \in Seq(Nat), NEW n \in Nat, n <= Len(old)
  PROVE  Len(Splice(old, n, d)) = IF n + Len(d) <= Len(old) THEN Len(old) ELSE n + Len(d)
BY SpliceOf

\* Nothing laid over a sequence leaves it as it is.
LEMMA SpliceNothing ==
  ASSUME NEW old \in Seq(Nat), NEW n \in Nat, n <= Len(old)
  PROVE  Splice(old, n, <<>>) = old
<1>1. PICK w : w = Splice(old, n, <<>>)
  OBVIOUS
<1>2. <<>> \in Seq(Nat) /\ Len(<<>>) = 0 /\ Len(old) \in Nat
  BY LenProperties
<1>3. /\ w \in Seq(Nat) /\ Len(w) = IF n + 0 <= Len(old) THEN Len(old) ELSE n + 0
      /\ \A i \in 1 .. Len(w) : w[i] = IF i <= n THEN old[i] ELSE IF i <= n + 0 THEN <<>>[i - n] ELSE old[i]
  <2>1. /\ Splice(old, n, <<>>) \in Seq(Nat)
        /\ Len(Splice(old, n, <<>>)) = IF n + Len(<<>>) <= Len(old) THEN Len(old) ELSE n + Len(<<>>)
        /\ \A i \in 1 .. Len(Splice(old, n, <<>>)) :
             Splice(old, n, <<>>)[i] = IF i <= n THEN old[i] ELSE IF i <= n + Len(<<>>) THEN <<>>[i - n] ELSE old[i]
    BY <1>2, SpliceOf, Zenon
  <2>. QED
    BY <1>1, <1>2, <2>1, Zenon
<1>4. Len(w) = Len(old) /\ \A i \in 1 .. Len(w) : w[i] = old[i]
  BY <1>2, <1>3
<1>. QED
  BY <1>1, <1>3, <1>4, SeqEqual

\* Laid over from its end, a sequence continues it.
LEMMA SpliceEnd ==
  ASSUME NEW old \in Seq(Nat), NEW d \in Seq(Nat)
  PROVE  Splice(old, Len(old), d) = old \o d
<1>1. PICK w : w = Splice(old, Len(old), d)
  OBVIOUS
<1>2. PICK v : v = old \o d
  OBVIOUS
<1>3. PICK l \in Nat, m \in Nat : l = Len(old) /\ m = Len(d)
  BY LenProperties
<1>4. /\ w \in Seq(Nat) /\ Len(w) = IF l + m <= l THEN l ELSE l + m
      /\ \A i \in 1 .. Len(w) : w[i] = IF i <= l THEN old[i] ELSE IF i <= l + m THEN d[i - l] ELSE old[i]
  <2>1. l \in Nat /\ l <= Len(old)
    BY <1>3
  <2>2. /\ Splice(old, l, d) \in Seq(Nat)
        /\ Len(Splice(old, l, d)) = IF l + Len(d) <= Len(old) THEN Len(old) ELSE l + Len(d)
        /\ \A i \in 1 .. Len(Splice(old, l, d)) :
             Splice(old, l, d)[i] = IF i <= l THEN old[i] ELSE IF i <= l + Len(d) THEN d[i - l] ELSE old[i]
    BY <2>1, SpliceOf, Zenon
  <2>. QED
    BY <1>1, <1>3, <2>2, Zenon
<1>5. /\ v \in Seq(Nat) /\ Len(v) = l + m
      /\ \A k \in 1 .. l : v[k] = old[k]
      /\ \A k \in 1 .. m : v[l + k] = d[k]
  BY <1>2, <1>3, JoinOf
<1>6. Len(w) = l + m
  BY <1>3, <1>4, SMTT(40)
<1>7. ASSUME NEW i \in 1 .. Len(w)
      PROVE  w[i] = v[i]
  <2>1. CASE i <= l
    <3>1. i \in 1 .. l
      BY <1>3, <2>1
    <3>. QED
      BY <1>4, <1>5, <2>1, <3>1
  <2>2. CASE ~(i <= l)
    <3>1. PICK k \in Nat : k = i - l
      BY <1>3, <2>2
    <3>2. k \in 1 .. m /\ l + k = i /\ i <= l + m
      BY <1>3, <1>6, <2>2, <3>1
    <3>3. v[l + k] = d[k]
      BY <1>5, <3>2
    <3>4. w[i] = d[i - l]
      BY <1>4, <2>2, <3>2
    <3>. QED
      BY <3>1, <3>2, <3>3, <3>4
  <2>. QED
    BY <2>1, <2>2
<1>. QED
  BY <1>1, <1>2, <1>4, <1>5, <1>6, <1>7, SeqEqual

\* One more byte over what was laid over.
LEMMA SpliceMore ==
  ASSUME NEW old \in Seq(Nat), NEW d \in Seq(Nat), NEW n \in Nat, n <= Len(old), NEW c \in Nat
  PROVE  Splice(Splice(old, n, d), n + Len(d), <<c>>) = Splice(old, n, d \o <<c>>)
<1>1. PICK l \in Nat, m \in Nat : l = Len(old) /\ m = Len(d) /\ n <= l
  BY LenProperties
<1>2. PICK w : w = Splice(old, n, d)
  OBVIOUS
<1>3. /\ w \in Seq(Nat) /\ Len(w) = IF n + m <= l THEN l ELSE n + m
      /\ \A i \in 1 .. Len(w) : w[i] = IF i <= n THEN old[i] ELSE IF i <= n + m THEN d[i - n] ELSE old[i]
  BY <1>1, <1>2, SpliceOf, SMTT(40)
<1>4. PICK e : e = d \o <<c>>
  OBVIOUS
<1>5. <<c>> \in Seq(Nat) /\ Len(<<c>>) = 1 /\ <<c>>[1] = c
  OBVIOUS
<1>6. e \in Seq(Nat) /\ Len(e) = m + 1 /\ (\A k \in 1 .. m : e[k] = d[k]) /\ e[m + 1] = c
  BY <1>1, <1>4, <1>5, JoinOf
<1>7. PICK u : u = Splice(w, n + m, <<c>>)
  OBVIOUS
<1>8. n + m \in Nat /\ n + m <= Len(w) /\ Len(w) \in Nat
  BY <1>1, <1>3
<1>9. /\ u \in Seq(Nat) /\ Len(u) = IF (n + m) + 1 <= Len(w) THEN Len(w) ELSE (n + m) + 1
      /\ \A i \in 1 .. Len(u) : u[i] = IF i <= n + m THEN w[i] ELSE IF i <= (n + m) + 1 THEN <<c>>[i - (n + m)] ELSE w[i]
  <2>1. /\ Splice(w, (n + m), <<c>>) \in Seq(Nat)
        /\ Len(Splice(w, (n + m), <<c>>)) = IF (n + m) + Len(<<c>>) <= Len(w) THEN Len(w) ELSE (n + m) + Len(<<c>>)
        /\ \A i \in 1 .. Len(Splice(w, (n + m), <<c>>)) :
             Splice(w, (n + m), <<c>>)[i] = IF i <= (n + m) THEN w[i] ELSE IF i <= (n + m) + Len(<<c>>) THEN <<c>>[i - (n + m)] ELSE w[i]
    <3>1. w \in Seq(Nat) /\ <<c>> \in Seq(Nat) /\ n + m \in Nat /\ n + m <= Len(w)
      BY <1>3, <1>5, <1>8
    <3>. QED
      BY <3>1, SpliceOf, ZenonT(60)
  <2>. QED
    BY <1>5, <1>7, <2>1, Zenon
<1>10. PICK v : v = Splice(old, n, e)
  OBVIOUS
<1>11. /\ v \in Seq(Nat) /\ Len(v) = IF n + (m + 1) <= l THEN l ELSE n + (m + 1)
       /\ \A i \in 1 .. Len(v) : v[i] = IF i <= n THEN old[i] ELSE IF i <= n + (m + 1) THEN e[i - n] ELSE old[i]
  <2>1. /\ Splice(old, n, e) \in Seq(Nat)
        /\ Len(Splice(old, n, e)) = IF n + Len(e) <= Len(old) THEN Len(old) ELSE n + Len(e)
        /\ \A i \in 1 .. Len(Splice(old, n, e)) :
             Splice(old, n, e)[i] = IF i <= n THEN old[i] ELSE IF i <= n + Len(e) THEN e[i - n] ELSE old[i]
    BY <1>1, <1>6, SpliceOf, ZenonT(60)
  <2>. QED
    BY <1>1, <1>6, <1>10, <2>1, Zenon
<1>12. Len(u) = Len(v) /\ Len(u) \in Nat
  BY <1>1, <1>3, <1>9, <1>11, SMTT(40)
<1>13. ASSUME NEW i \in 1 .. Len(u)
       PROVE  u[i] = v[i]
  <2>1. CASE i <= n
    <3>1. i \in 1 .. Len(w) /\ i <= n + m
      BY SMTT(30), <1>1, <1>3, <2>1
    <3>. QED
      BY <1>3, <1>9, <1>11, <1>12, <2>1, <3>1
  <2>2. CASE ~(i <= n) /\ i <= n + m
    <3>1. i \in 1 .. Len(w) /\ i - n \in 1 .. m /\ i <= n + (m + 1)
      BY SMTT(30), <1>1, <1>3, <2>2
    <3>2. u[i] = w[i] /\ w[i] = d[i - n]
      BY <1>3, <1>9, <2>2, <3>1
    <3>3. v[i] = e[i - n] /\ e[i - n] = d[i - n]
      BY <1>6, <1>11, <1>12, <2>2, <3>1
    <3>. QED
      BY <3>2, <3>3
  <2>3. CASE i = (n + m) + 1
    <3>1. i - (n + m) = 1 /\ i - n = m + 1 /\ ~(i <= n + m) /\ ~(i <= n) /\ i <= n + (m + 1) /\ i <= (n + m) + 1
      BY <1>1, <2>3
    <3>2. u[i] = <<c>>[1]
      BY <1>9, <3>1
    <3>3. v[i] = e[m + 1]
      BY <1>11, <1>12, <3>1
    <3>. QED
      BY <1>5, <1>6, <3>2, <3>3
  <2>4. CASE i > (n + m) + 1
    <3>1. /\ ~(i <= n + m) /\ ~(i <= n) /\ ~(i <= n + (m + 1)) /\ ~(i <= (n + m) + 1)
          /\ i \in 1 .. Len(w)
      BY <1>1, <1>3, <1>9, <2>4
    <3>2. u[i] = w[i] /\ w[i] = old[i]
      BY <1>3, <1>9, <3>1
    <3>3. v[i] = old[i]
      BY <1>11, <1>12, <3>1
    <3>. QED
      BY <3>2, <3>3
  <2>5. i <= n \/ (~(i <= n) /\ i <= n + m) \/ i = (n + m) + 1 \/ i > (n + m) + 1
    BY <1>1, <1>12
  <2>. QED
    BY <2>1, <2>2, <2>3, <2>4, <2>5, Zenon
<1>. QED
  BY <1>1, <1>2, <1>4, <1>7, <1>9, <1>10, <1>11, <1>12, <1>13, SeqEqual
-----------------------------------------------------------------------------
(* The operators on a stream.                                                *)

LEMMA SmallerOf ==
  ASSUME NEW a \in Nat, NEW b \in Nat
  PROVE  Smaller(a, b) \in Nat /\ Smaller(a, b) <= a /\ Smaller(a, b) <= b /\ Smaller(a, b) \in {a, b}
BY DEF Smaller

LEMMA ZerosOf ==
  ASSUME NEW n \in Nat
  PROVE  Zeros(n) \in Seq(Nat) /\ Len(Zeros(n)) = n
BY DEF Zeros

LEMMA FieldsOf ==
  ASSUME NEW x \in FileRec
  PROVE  /\ x.open \in BOOLEAN /\ x.err \in BOOLEAN /\ x.eof \in BOOLEAN /\ x.bufmode \in BufMode
         /\ x.buf \in Seq(Nat) /\ x.bufcap \in Nat /\ x.rpos \in Nat /\ x.rlen \in Nat /\ x.wlen \in Nat
         /\ x.pos \in Nat /\ x.ungot \in Byte \cup {None} /\ x.data \in Seq(Nat) /\ x.off \in Nat /\ x.mscap \in Nat
         /\ Len(x.buf) \in Nat /\ Len(x.data) \in Nat
<1>1. /\ x.open \in BOOLEAN /\ x.err \in BOOLEAN /\ x.eof \in BOOLEAN /\ x.bufmode \in BufMode
      /\ x.buf \in Seq(Nat) /\ x.bufcap \in Nat /\ x.rpos \in Nat /\ x.rlen \in Nat /\ x.wlen \in Nat
      /\ x.pos \in Nat /\ x.ungot \in Byte \cup {None} /\ x.data \in Seq(Nat) /\ x.off \in Nat /\ x.mscap \in Nat
  BY DEF FileRec
<1>. QED
  BY <1>1, LenProperties

LEMMA PendingOf ==
  ASSUME NEW x \in FileRec
  PROVE  /\ Pending(x) \in Seq(Nat) /\ Len(Pending(x)) = Smaller(x.wlen, Len(x.buf)) /\ Len(Pending(x)) \in Nat
         /\ \A i \in 1 .. Len(Pending(x)) : Pending(x)[i] = x.buf[i]
         /\ x.wlen = 0 => Pending(x) = <<>>
<1>1. x.buf \in Seq(Nat) /\ x.wlen \in Nat /\ Len(x.buf) \in Nat
  BY FieldsOf
<1>2. PICK n \in Nat : n = Smaller(x.wlen, Len(x.buf)) /\ n <= Len(x.buf)
  BY <1>1, SmallerOf
<1>3. PICK p : p = Pending(x) /\ p = SubSeq(x.buf, 1, n)
  BY <1>2 DEF Pending
<1>4. p \in Seq(Nat) /\ Len(p) = n /\ \A k \in 1 .. n : p[k] = x.buf[k]
  BY <1>1, <1>2, <1>3, HeadOf
<1>5. x.wlen = 0 => n = 0
  BY <1>1, <1>2 DEF Smaller
<1>6. n = 0 => p = <<>>
  BY <1>4, EmptySeq
<1>. QED
  BY <1>2, <1>3, <1>4, <1>5, <1>6

\* What a stream with nothing pending holds is what is behind it.
LEMMA ContentOf ==
  ASSUME NEW x \in FileRec
  PROVE  /\ Content(x) \in Seq(Nat) /\ Len(Content(x)) \in Nat
         /\ x.wlen = 0 \/ ~x.open => Content(x) = x.data
         /\ x.open /\ x.off <= Len(x.data) => Content(x) = Splice(x.data, x.off, Pending(x))
<1>1. x.data \in Seq(Nat) /\ x.off \in Nat /\ Len(x.data) \in Nat
  BY FieldsOf
<1>2. PICK n \in Nat : n = Smaller(x.off, Len(x.data)) /\ n <= Len(x.data)
  BY <1>1, SmallerOf
<1>3. PICK p \in Seq(Nat) : p = Pending(x) /\ (x.wlen = 0 => p = <<>>)
  BY PendingOf
<1>4. Splice(x.data, n, p) \in Seq(Nat)
  BY <1>1, <1>2, SpliceOf
<1>5. p = <<>> => Splice(x.data, n, p) = x.data
  BY <1>1, <1>2, SpliceNothing
<1>6. Content(x) = IF x.open THEN Splice(x.data, n, p) ELSE x.data
  BY <1>2, <1>3 DEF Content
<1>7. x.off <= Len(x.data) => n = x.off
  BY <1>1, <1>2 DEF Smaller
<1>8. Content(x) \in Seq(Nat)
  BY <1>1, <1>4, <1>6
<1>. QED
  BY <1>3, <1>5, <1>6, <1>7, <1>8, LenProperties

LEMMA AcceptedOf ==
  ASSUME NEW s \in Stream, NEW x \in FileRec, NEW n \in Nat
  PROVE  /\ Accepted(s, x, n) \in Nat /\ Accepted(s, x, n) <= n
         /\ s = "console" => Accepted(s, x, n) = n
         /\ s = "mem" => Accepted(s, x, n) = 0
         /\ s = "file" /\ Accepted(s, x, n) > 0 => x.off <= Len(x.data)
<1>1. x.off \in Nat /\ Len(x.data) \in Nat /\ Disk \in Nat
  BY FieldsOf, Bounds
<1>2. s \in {"file", "mem", "console"}
  BY DEF Stream
<1>3. CASE s = "console"
  BY <1>3 DEF Accepted
<1>4. CASE s = "mem"
  BY <1>4 DEF Accepted
<1>5. CASE s = "file"
  <2>1. CASE "fs" \in down \/ x.off > Len(x.data)
    BY <1>5, <2>1 DEF Accepted
  <2>2. CASE ~("fs" \in down \/ x.off > Len(x.data))
    <3>1. Accepted(s, x, n) = IF x.off >= Disk THEN 0 ELSE Smaller(n, Disk - x.off)
      BY <1>5, <2>2 DEF Accepted
    <3>2. x.off >= Disk \/ Disk - x.off \in Nat
      BY <1>1
    <3>3. Accepted(s, x, n) \in Nat /\ Accepted(s, x, n) <= n
      BY <3>1, <3>2 DEF Smaller
    <3>. QED
      BY <1>1, <1>5, <2>2, <3>3
  <2>. QED
    BY <2>1, <2>2
<1>. QED
  BY <1>2, <1>3, <1>4, <1>5

\* The two streams differ at most in what a write changes.
Alike(x, y) ==
  /\ y.open = x.open /\ y.eof = x.eof /\ y.bufmode = x.bufmode /\ y.buf = x.buf /\ y.bufcap = x.bufcap
  /\ y.rpos = x.rpos /\ y.rlen = x.rlen /\ y.ungot = x.ungot

\* Bytes stored at the offset.
LEMMA StoredOf ==
  ASSUME NEW x \in FileRec, NEW d \in Seq(Nat), d # <<>> => x.off <= Len(x.data)
  PROVE  /\ Stored(x, d) \in FileRec /\ Alike(x, Stored(x, d))
         /\ Stored(x, d).err = x.err /\ Stored(x, d).wlen = x.wlen /\ Stored(x, d).pos = x.pos
         /\ Stored(x, d).mscap = x.mscap /\ Stored(x, d).off = x.off + Len(d)
         /\ x.off <= Len(x.data) => Stored(x, d).data = Splice(x.data, x.off, d)
         /\ x.off = Len(x.data) => Len(Stored(x, d).data) = x.off + Len(d)
<1>1. x.data \in Seq(Nat) /\ x.off \in Nat /\ Len(x.data) \in Nat /\ Len(d) \in Nat
  BY FieldsOf, LenProperties
<1>2. CASE d = <<>>
  <2>1. Stored(x, d) = x /\ Len(d) = 0
    BY <1>2 DEF Stored
  <2>2. x.off <= Len(x.data) => x.data = Splice(x.data, x.off, d)
    BY <1>1, <1>2, SpliceNothing
  <2>. QED
    BY <1>1, <2>1, <2>2 DEF Alike
<1>3. CASE d # <<>>
  <2>1. PICK w : w = Splice(x.data, x.off, d)
    OBVIOUS
  <2>2. Stored(x, d) = [x EXCEPT !.data = w, !.off = x.off + Len(d)]
    BY <1>3, <2>1 DEF Stored
  <2>3. w \in Seq(Nat) /\ Len(w) = IF x.off + Len(d) <= Len(x.data) THEN Len(x.data) ELSE x.off + Len(d)
    BY <1>1, <1>3, <2>1, SpliceOf
  <2>4. x.off + Len(d) \in Nat
    BY <1>1
  <2>5. Stored(x, d) \in FileRec
    BY <2>2, <2>3, <2>4 DEF FileRec
  <2>6. /\ Alike(x, Stored(x, d)) /\ Stored(x, d).data = w /\ Stored(x, d).off = x.off + Len(d)
        /\ Stored(x, d).err = x.err /\ Stored(x, d).wlen = x.wlen /\ Stored(x, d).pos = x.pos /\ Stored(x, d).mscap = x.mscap
    BY <2>2 DEF FileRec, Alike
  <2>. QED
    BY <1>1, <2>1, <2>3, <2>5, <2>6
<1>. QED
  BY <1>2, <1>3
LEMMA MsAppendOf ==
  ASSUME NEW x \in FileRec, NEW d \in Seq(Nat), Len(x.data) < x.mscap, x.off = Len(x.data),
         NEW f, f = MsAppend(x, d)
  PROVE  /\ f \in FileRec /\ Alike(x, f) /\ f.off = Len(f.data) /\ Len(f.data) < f.mscap
         /\ \/ f.wlen = x.wlen /\ f.err
            \/ /\ f.wlen = 0 /\ f.err = x.err /\ f.data = Splice(x.data, x.off, d)
               /\ f.off = x.off + Len(d) /\ f.pos = x.pos + Len(d)
<1>1. /\ x.data \in Seq(Nat) /\ x.off \in Nat /\ x.pos \in Nat /\ x.mscap \in Nat
      /\ Len(x.data) \in Nat /\ Len(d) \in Nat
  BY FieldsOf, LenProperties
<1>2. PICK cap : cap = Doubled(x.mscap, Len(x.data) + Len(d) + 1)
  OBVIOUS
<1>3. cap \in Nat /\ cap >= Len(x.data) + Len(d) + 1
  <2>1. x.mscap > 0 /\ Len(x.data) + Len(d) + 1 \in Nat
    BY <1>1
  <2>. QED
    BY <1>1, <1>2, <2>1, DoubledFits
<1>4. CASE cap # x.mscap /\ "heap" \in down
  <2>1. f = [x EXCEPT !.err = TRUE]
    BY <1>2, <1>4 DEF MsAppend
  <2>. QED
    BY <1>1, <2>1 DEF FileRec, Alike
<1>5. CASE ~(cap # x.mscap /\ "heap" \in down)
  <2>1. PICK w : w = x.data \o d
    OBVIOUS
  <2>2. w \in Seq(Nat) /\ Len(w) = Len(x.data) + Len(d) /\ w = Splice(x.data, x.off, d)
    BY <1>1, <2>1, JoinOf, SpliceEnd
  <2>3. PICK o \in Nat, q \in Nat : o = x.off + Len(d) /\ q = x.pos + Len(d)
    BY <1>1, SMTT(40)
  <2>4. o = Len(w) /\ Len(w) < cap
    BY <1>1, <1>3, <2>2, <2>3
  <2>5. f = [x EXCEPT !.data = w, !.off = o, !.mscap = cap, !.pos = q, !.wlen = 0]
    BY <1>2, <1>5, <2>1, <2>3 DEF MsAppend
  <2>6. f \in FileRec
    <3>1. w \in Seq(Nat) /\ cap \in Nat /\ 0 \in Nat
      BY <1>3, <2>2
    <3>. QED
      BY <2>5, <3>1, ZenonT(60) DEF FileRec
  <2>7. /\ Alike(x, f) /\ f.off = o /\ f.pos = q /\ f.data = w /\ f.mscap = cap
        /\ f.wlen = 0 /\ f.err = x.err
    BY <2>5 DEF FileRec, Alike
  <2>. QED
    BY <1>1, <2>2, <2>3, <2>6, <2>7, <2>4
<1>. QED
  BY <1>4, <1>5

\* flush_write stores all that is pending, or fails with the error indicator set.
LEMMA FlushOf ==
  ASSUME NEW s \in Stream, NEW x \in FileRec, x.open, Held(s, x), NEW f, f = FlushWrite(s, x)
  PROVE  /\ f \in FileRec /\ Alike(x, f) /\ Held(s, f)
         /\ f.wlen \in {0, x.wlen} /\ (x.err => f.err) /\ (f.wlen > 0 => f.err)
         /\ s = "console" => f.wlen = 0
         /\ x.wlen = 0 => f = x
         /\ f.wlen = 0 /\ (x.wlen > 0 => x.off <= Len(x.data) /\ x.wlen <= Len(x.buf)) =>
              f.data = Content(x) /\ f.off = x.off + x.wlen /\ f.pos = x.pos + x.wlen /\ f.err = x.err
<1>1. /\ x.data \in Seq(Nat) /\ x.off \in Nat /\ x.pos \in Nat /\ x.mscap \in Nat /\ x.wlen \in Nat
      /\ Len(x.data) \in Nat /\ Len(x.buf) \in Nat /\ x.rpos \in Nat /\ x.rlen \in Nat /\ x.bufcap \in Nat
      /\ x.err \in BOOLEAN
  BY FieldsOf
<1>2. PICK d \in Seq(Nat) : d = Pending(x) /\ Len(d) = Smaller(x.wlen, Len(x.buf)) /\ Len(d) \in Nat
  BY PendingOf
<1>3. x.wlen <= Len(x.buf) => Len(d) = x.wlen
  BY <1>1, <1>2 DEF Smaller
<1>4. x.off <= Len(x.data) => Content(x) = Splice(x.data, x.off, d)
  BY <1>2, ContentOf
<1>5. CASE x.wlen = 0
  <2>1. f = x
    BY <1>5 DEF FlushWrite
  <2>2. Content(x) = x.data
    BY <1>5, ContentOf
  <2>. QED
    <3>1. Alike(x, f) /\ Held(s, f) /\ f \in FileRec
      BY <2>1 DEF Alike
    <3>2. f.wlen = 0 /\ f.err = x.err /\ f.data = Content(x) /\ f.off = x.off + x.wlen /\ f.pos = x.pos + x.wlen
      BY <1>1, <1>5, <2>1, <2>2
    <3>. QED
      BY <2>1, <3>1, <3>2
<1>6. CASE x.wlen > 0 /\ s = "mem"
  <2>1. f = MsAppend(x, d)
    BY <1>1, <1>2, <1>6 DEF FlushWrite
  <2>2. Len(x.data) < x.mscap /\ x.off = Len(x.data)
    BY <1>6 DEF Held
  <2>3. /\ f \in FileRec /\ Alike(x, f) /\ f.off = Len(f.data) /\ Len(f.data) < f.mscap
        /\ \/ f.wlen = x.wlen /\ f.err
           \/ /\ f.wlen = 0 /\ f.err = x.err /\ f.data = Splice(x.data, x.off, d)
              /\ f.off = x.off + Len(d) /\ f.pos = x.pos + Len(d)
    BY <2>1, <2>2, MsAppendOf
  <2>4. Held(s, f)
    BY <1>1, <1>6, <2>3 DEF Held, Alike
  <2>. QED
    <3>1. CASE f.wlen = x.wlen /\ f.err
      BY <1>1, <1>6, <2>3, <2>4, <3>1
    <3>2. CASE /\ f.wlen = 0 /\ f.err = x.err /\ f.data = Splice(x.data, x.off, d)
               /\ f.off = x.off + Len(d) /\ f.pos = x.pos + Len(d)
      <4>1. x.off <= Len(x.data)
        BY <1>1, <2>2
      <4>2. x.wlen <= Len(x.buf) =>
              f.data = Content(x) /\ f.off = x.off + x.wlen /\ f.pos = x.pos + x.wlen /\ f.err = x.err
        BY <1>3, <1>4, <3>2, <4>1
      <4>. QED
        BY <1>6, <2>3, <2>4, <3>2, <4>2
    <3>. QED
      BY <2>3, <3>1, <3>2
<1>7. CASE x.wlen > 0 /\ s # "mem"
  <2>1. PICK w \in Nat : w = Accepted(s, x, Len(d)) /\ w <= Len(d) /\ (s = "console" => w = Len(d))
                         /\ (s = "file" /\ w > 0 => x.off <= Len(x.data))
    BY <1>2, AcceptedOf
  <2>2. w > 0 => x.off <= Len(x.data)
    BY <1>1, <1>7, <2>1 DEF Held, Stream
  <2>3. CASE w = Len(d)
    <3>1. PICK y : y = Stored(x, d)
      OBVIOUS
    <3>2. d # <<>> => x.off <= Len(x.data)
      BY <1>2, <2>2, <2>3, EmptySeq
    <3>3. /\ y \in FileRec /\ Alike(x, y) /\ y.err = x.err /\ y.wlen = x.wlen /\ y.pos = x.pos /\ y.mscap = x.mscap
          /\ y.off = x.off + Len(d) /\ (x.off <= Len(x.data) => y.data = Splice(x.data, x.off, d))
          /\ (x.off = Len(x.data) => Len(y.data) = x.off + Len(d))
      BY <3>1, <3>2, StoredOf
    <3>4. PICK q \in Nat : q = x.pos + x.wlen
      BY <1>1
    <3>5. f = [y EXCEPT !.pos = q, !.wlen = 0]
      <4>1. f = [Stored(x, d) EXCEPT !.pos = @ + x.wlen, !.wlen = 0]
        BY <1>1, <1>2, <1>7, <2>1, <2>3 DEF FlushWrite
      <4>. QED
        BY <3>1, <3>3, <3>4, <4>1
    <3>6. f \in FileRec
      <4>1. y \in FileRec /\ 0 \in Nat
        BY <3>3
      <4>. QED
        BY <3>5, <4>1, Zenon DEF FileRec
    <3>7. /\ Alike(x, f) /\ f.err = x.err /\ f.wlen = 0 /\ f.pos = q /\ f.mscap = x.mscap
          /\ f.off = y.off /\ f.data = y.data
      <4>1. y \in FileRec /\ Alike(x, y) /\ y.err = x.err /\ y.mscap = x.mscap
        BY <3>3
      <4>2. /\ f.open = y.open /\ f.eof = y.eof /\ f.bufmode = y.bufmode /\ f.buf = y.buf /\ f.bufcap = y.bufcap
            /\ f.rpos = y.rpos /\ f.rlen = y.rlen /\ f.ungot = y.ungot /\ f.err = y.err /\ f.wlen = 0 /\ f.pos = q
            /\ f.mscap = y.mscap /\ f.off = y.off /\ f.data = y.data
        BY <3>5, <4>1, SMTT(40) DEF FileRec
      <4>. QED
        BY <4>1, <4>2 DEF Alike
    <3>8. Held(s, f)
      BY <1>1, <1>7, <3>3, <3>7 DEF Held, Alike
    <3>. QED
      BY <1>1, <1>3, <1>4, <1>7, <3>3, <3>4, <3>6, <3>7, <3>8, SMTT(40)
  <2>4. CASE w # Len(d)
    <3>1. PICK e : e = SubSeq(d, 1, w)
      OBVIOUS
    <3>2. e \in Seq(Nat) /\ Len(e) = w
      BY <1>2, <2>1, <3>1, HeadOf
    <3>3. PICK y : y = Stored(x, e)
      OBVIOUS
    <3>4. e # <<>> => x.off <= Len(x.data)
      BY <2>1, <2>2, <3>2, EmptySeq
    <3>5. /\ y \in FileRec /\ Alike(x, y) /\ y.err = x.err /\ y.wlen = x.wlen /\ y.pos = x.pos /\ y.mscap = x.mscap
          /\ y.off = x.off + Len(e)
          /\ (x.off = Len(x.data) => Len(y.data) = x.off + Len(e))
      BY <3>2, <3>3, <3>4, StoredOf
    <3>6. f = [y EXCEPT !.err = TRUE]
      BY <1>1, <1>2, <1>7, <2>1, <2>4, <3>1, <3>3 DEF FlushWrite
    <3>7. f \in FileRec
      BY <3>5, <3>6 DEF FileRec
    <3>8. Alike(x, f) /\ f.err /\ f.wlen = x.wlen /\ f.mscap = x.mscap /\ f.off = y.off /\ f.data = y.data
      BY ZenonT(40), <3>5, <3>6 DEF FileRec, Alike
    <3>9. Held(s, f)
      BY <1>1, <1>7, <3>5, <3>8 DEF Held, Alike
    <3>. QED
      <4>1. s # "console" /\ ~(f.wlen = 0) /\ ~(x.wlen = 0)
        BY <1>1, <1>7, <2>1, <2>4, <3>8
      <4>. QED
        BY <3>7, <3>8, <3>9, <4>1
  <2>. QED
    BY <2>3, <2>4
<1>. QED
  BY <1>1, <1>5, <1>6, <1>7
\* What ensure_buf and drop_read leave alone.
Kept(x, y) ==
  /\ y.open = x.open /\ y.err = x.err /\ y.bufmode = x.bufmode /\ y.wlen = x.wlen /\ y.pos = x.pos
  /\ y.data = x.data /\ y.mscap = x.mscap

LEMMA EnsureOf ==
  ASSUME NEW s \in Stream, NEW x \in FileRec, Held(s, x), NEW e, e = EnsureBuf(x)
  PROVE  /\ e \in FileRec /\ Held(s, e) /\ Kept(x, e)
         /\ e.buf # <<>> /\ e.bufcap = Len(e.buf) /\ e.bufcap > 0
         /\ e.rpos = x.rpos /\ e.rlen = x.rlen /\ e.ungot = x.ungot /\ e.off = x.off /\ e.eof = x.eof
         /\ x.buf # <<>> => e = x
         /\ x.buf = <<>> => x.wlen = 0 /\ x.rlen = 0 /\ x.rpos = 0
<1>1. /\ x.buf \in Seq(Nat) /\ Len(x.buf) \in Nat /\ x.rpos \in Nat /\ x.rlen \in Nat /\ x.wlen \in Nat
      /\ x.bufcap \in Nat
  BY FieldsOf
<1>2. CASE x.buf # <<>>
  <2>1. e = x
    BY <1>2 DEF EnsureBuf
  <2>2. x.bufcap = Len(x.buf) /\ x.bufcap > 0
    BY <1>1, <1>2, EmptySeq DEF Held
  <2>. QED
    BY <1>2, <2>1, <2>2 DEF Kept
<1>3. CASE x.buf = <<>>
  <2>1. PICK z : z = Zeros(Bufsiz)
    OBVIOUS
  <2>2. e = [x EXCEPT !.buf = z, !.bufcap = Bufsiz]
    BY <1>3, <2>1 DEF EnsureBuf
  <2>3. z \in Seq(Nat) /\ Len(z) = Bufsiz /\ Bufsiz \in Nat /\ Bufsiz > 0 /\ Bufsiz <= Largest
    BY <2>1, Bounds, ZerosOf
  <2>4. z # <<>>
    BY <2>3
  <2>5. z \in Seq(Nat) /\ Bufsiz \in Nat
    BY <2>3
  <2>6. e \in FileRec
    BY <2>2, <2>5, Zenon DEF FileRec
  <2>7. /\ Kept(x, e) /\ e.buf = z /\ e.bufcap = Bufsiz
        /\ e.rpos = x.rpos /\ e.rlen = x.rlen /\ e.ungot = x.ungot /\ e.off = x.off /\ e.eof = x.eof
    BY <2>2 DEF FileRec, Kept
  <2>8. x.wlen = 0 /\ x.rlen = 0 /\ x.rpos = 0
    BY <1>1, <1>3 DEF Held
  <2>9. Held(s, e)
    BY <2>3, <2>4, <2>7, <2>8 DEF Held, Kept
  <2>. QED
    BY <1>3, <2>3, <2>4, <2>6, <2>7, <2>8, <2>9
<1>. QED
  BY <1>2, <1>3

Dropped(x) == IF x.rlen > x.rpos \/ x.ungot # None THEN [DropRead(x) EXCEPT !.ungot = None] ELSE x

LEMMA DropOf ==
  ASSUME NEW s \in Stream, NEW x \in FileRec, Held(s, x), NEW y, y = Dropped(x)
  PROVE  /\ y \in FileRec /\ Held(s, y) /\ Kept(x, y) /\ y.buf = x.buf /\ y.bufcap = x.bufcap
         /\ y.ungot = None /\ y.rpos = y.rlen /\ y.rlen \in {0, x.rlen}
         /\ y.off = IF x.rlen > x.rpos THEN x.pos + x.rpos ELSE x.off
<1>1. x.rpos \in Nat /\ x.rlen \in Nat /\ x.pos \in Nat /\ x.off \in Nat /\ x.wlen \in Nat /\ Len(x.buf) \in Nat
  BY FieldsOf
<1>2. CASE x.rlen > x.rpos \/ x.ungot # None
  <2>1. PICK o \in Nat : o = IF x.rlen > x.rpos THEN x.pos + x.rpos ELSE x.off
    BY <1>1
  <2>2. PICK d : d = [x EXCEPT !.off = o, !.rpos = 0, !.rlen = 0]
    OBVIOUS
  <2>3. y = [d EXCEPT !.ungot = None]
    <3>1. DropRead(x) = d
      BY <2>1, <2>2 DEF DropRead
    <3>. QED
      BY <1>2, <3>1 DEF Dropped
  <2>4. 0 \in Nat /\ None \in Byte \cup {None}
    OBVIOUS
  <2>5. d \in FileRec
    BY <2>2, <2>4, Zenon DEF FileRec
  <2>6. y \in FileRec
    BY <2>3, <2>4, <2>5, Zenon DEF FileRec
  <2>7. /\ Kept(x, y) /\ y.buf = x.buf /\ y.bufcap = x.bufcap /\ y.ungot = None /\ y.rpos = 0 /\ y.rlen = 0
        /\ y.off = o
    BY <2>2, <2>3 DEF FileRec, Kept
  <2>8. Held(s, y)
    BY <1>1, <2>1, <2>7 DEF Held, Kept
  <2>. QED
    BY <2>1, <2>6, <2>7, <2>8
<1>3. CASE ~(x.rlen > x.rpos \/ x.ungot # None)
  <2>1. y = x
    BY <1>3 DEF Dropped
  <2>2. x.rpos = x.rlen
    BY <1>1, <1>3 DEF Held
  <2>. QED
    BY <1>1, <1>3, <2>1, <2>2 DEF Kept
<1>. QED
  BY <1>2, <1>3

\* A stream about to take a byte.
Ready(x, exact) ==
  /\ x.rpos = x.rlen /\ x.ungot = None /\ x.off <= Len(x.data)
  /\ x.wlen > 0 => x.wlen < x.bufcap
  /\ exact => x.pos = x.off /\ x.rlen = 0
  /\ x.bufmode = "LBF" => \A i \in 1 .. x.wlen : x.buf[i] # NL

\* The stream that a change of direction makes ready is where the program thinks.
LEMMA DropReady ==
  ASSUME NEW s \in Stream, NEW x \in FileRec, NEW h \in HistRec, x.open, Held(s, x), Sound(x, h),
         ~(h.last = "get" /\ ~h.exact), Position(x) <= Len(Content(x)), NEW y, y = Dropped(x)
  PROVE  /\ Ready(y, h.exact /\ h.last # "get")
         /\ y.off + y.wlen = Position(x) /\ Content(y) = Content(x)
<1>1. /\ x.rpos \in Nat /\ x.rlen \in Nat /\ x.pos \in Nat /\ x.off \in Nat /\ x.wlen \in Nat /\ Len(x.buf) \in Nat
      /\ Len(x.data) \in Nat /\ h.exact \in BOOLEAN
  BY FieldsOf DEF HistRec
<1>2. /\ y \in FileRec /\ Held(s, y) /\ Kept(x, y) /\ y.buf = x.buf /\ y.bufcap = x.bufcap
      /\ y.ungot = None /\ y.rpos = y.rlen /\ y.rlen \in {0, x.rlen}
      /\ y.off = IF x.rlen > x.rpos THEN x.pos + x.rpos ELSE x.off
  BY DropOf
<1>3. y.off + y.wlen = Position(x)
  <2>1. CASE x.rlen > x.rpos
    <3>1. h.exact /\ x.wlen = 0
      BY <1>1, <2>1 DEF Sound
    <3>2. x.pos + x.rlen = x.off
      BY <3>1 DEF Sound
    <3>3. y.off = x.pos + x.rpos /\ y.wlen = 0
      BY <1>2, <2>1, <3>1 DEF Kept
    <3>. QED
      BY <1>1, <3>1, <3>2, <3>3 DEF Position
  <2>2. CASE ~(x.rlen > x.rpos)
    <3>1. x.rlen = x.rpos
      BY <1>1, <2>2 DEF Held
    <3>2. y.off = x.off /\ y.wlen = x.wlen
      BY <1>2, <2>2 DEF Kept
    <3>. QED
      BY <1>1, <3>1, <3>2 DEF Position
  <2>. QED
    BY <2>1, <2>2
<1>4. x.wlen > 0 => y.off = x.off /\ x.off <= Len(x.data) /\ x.wlen < x.bufcap
  BY <1>1, <1>2 DEF Sound
<1>5. y.off <= Len(y.data)
  <2>1. CASE x.wlen > 0
    BY <1>2, <1>4, <2>1 DEF Kept
  <2>2. CASE ~(x.wlen > 0)
    <3>1. x.wlen = 0 /\ y.wlen = 0 /\ y.data = x.data
      BY <1>1, <1>2, <2>2 DEF Kept
    <3>2. Content(x) = x.data
      BY <3>1, ContentOf
    <3>3. y.off \in Nat
      BY <1>2, FieldsOf
    <3>. QED
      BY <1>3, <3>1, <3>2, <3>3
  <2>. QED
    BY <2>1, <2>2
<1>6. Content(y) = Content(x)
  <2>1. CASE x.wlen > 0
    <3>1. Pending(y) = Pending(x) /\ y.off = x.off
      BY <1>2, <1>4, <2>1 DEF Pending, Kept
    <3>. QED
      BY <1>2, <3>1 DEF Content, Kept
  <2>2. CASE ~(x.wlen > 0)
    <3>1. x.wlen = 0 /\ y.wlen = 0 /\ y.data = x.data
      BY <1>1, <1>2, <2>2 DEF Kept
    <3>. QED
      BY <1>2, <3>1, ContentOf
  <2>. QED
    BY <2>1, <2>2
<1>7. h.exact /\ h.last # "get" => y.pos = y.off /\ y.rlen = 0
  <2> SUFFICES ASSUME h.exact, h.last # "get"
               PROVE  y.pos = y.off /\ y.rlen = 0
    OBVIOUS
  <2>1. x.pos + x.rlen = x.off /\ x.rlen = 0
    BY DEF Sound
  <2>. QED
    BY <1>1, <1>2, <2>1 DEF Kept
<1>8. Ready(y, h.exact /\ h.last # "get")
  BY <1>2, <1>4, <1>5, <1>7 DEF Ready, Kept, Sound
<1>. QED
  BY <1>3, <1>6, <1>8
\* A byte put into the buffer.
Filled(b, c) == [b EXCEPT !.wlen = @ + 1, !.buf = IF b.wlen < Len(b.buf) THEN [@ EXCEPT ![b.wlen + 1] = c] ELSE @]

FilledLike(s, b, c, p) ==
  /\ p \in FileRec /\ Held(s, p) /\ p.wlen = b.wlen + 1 /\ Len(p.buf) = Len(b.buf)
  /\ p.open = b.open /\ p.err = b.err /\ p.bufmode = b.bufmode /\ p.bufcap = b.bufcap /\ p.rpos = b.rpos /\ p.rlen = b.rlen
  /\ p.pos = b.pos /\ p.ungot = b.ungot /\ p.data = b.data /\ p.off = b.off
  /\ b.wlen < Len(b.buf) =>
       /\ p.buf[b.wlen + 1] = c /\ \A i \in 1 .. b.wlen : p.buf[i] = b.buf[i]
       /\ b.off <= Len(b.data) => Content(p) = Splice(Content(b), b.off + b.wlen, <<c>>)

LEMMA FilledOf ==
  ASSUME NEW s \in Stream, NEW b \in FileRec, b.open, Held(s, b), b.buf # <<>>, b.bufcap = Len(b.buf), b.bufmode # "NBF",
         NEW c \in Nat, NEW p, p = Filled(b, c)
  PROVE  FilledLike(s, b, c, p)
<1>1. /\ b.buf \in Seq(Nat) /\ Len(b.buf) \in Nat /\ b.wlen \in Nat /\ b.off \in Nat /\ b.data \in Seq(Nat)
      /\ Len(b.data) \in Nat /\ b.rpos \in Nat /\ b.rlen \in Nat
  BY FieldsOf
<1>2. PICK m \in Nat : m = b.wlen + 1
  BY <1>1
<1>3. PICK u : u = IF b.wlen < Len(b.buf) THEN [b.buf EXCEPT ![m] = c] ELSE b.buf
  OBVIOUS
<1>4. /\ u \in Seq(Nat) /\ Len(u) = Len(b.buf)
      /\ b.wlen < Len(b.buf) => u[m] = c /\ \A i \in 1 .. b.wlen : u[i] = b.buf[i]
  <2>1. CASE b.wlen < Len(b.buf)
    <3>1. m \in 1 .. Len(b.buf) /\ u = [b.buf EXCEPT ![m] = c]
      BY <1>1, <1>2, <1>3, <2>1
    <3>2. u \in Seq(Nat) /\ Len(u) = Len(b.buf) /\ u[m] = c /\ \A i \in 1 .. Len(b.buf) : i # m => u[i] = b.buf[i]
      BY <1>1, <3>1, ExceptSeq
    <3>3. \A i \in 1 .. b.wlen : i \in 1 .. Len(b.buf) /\ i # m
      BY <1>1, <1>2, <2>1, SMTT(40)
    <3>. QED
      BY <3>2, <3>3
  <2>2. CASE ~(b.wlen < Len(b.buf))
    BY <1>1, <1>3, <2>2
  <2>. QED
    BY <2>1, <2>2
<1>5. p = [b EXCEPT !.wlen = m, !.buf = u]
  BY <1>2, <1>3 DEF Filled, FileRec
<1>6. p \in FileRec
  <2>1. u \in Seq(Nat)
    BY <1>4
  <2>. QED
    BY <1>5, <2>1, Zenon DEF FileRec
<1>7. /\ p.wlen = m /\ p.buf = u /\ p.mscap = b.mscap
      /\ p.open = b.open /\ p.err = b.err /\ p.bufmode = b.bufmode /\ p.bufcap = b.bufcap /\ p.rpos = b.rpos /\ p.rlen = b.rlen
      /\ p.pos = b.pos /\ p.ungot = b.ungot /\ p.data = b.data /\ p.off = b.off
  BY <1>5 DEF FileRec
<1>8. u # <<>>
  BY <1>1, <1>4, EmptySeq
<1>9. Held(s, p)
  BY <1>4, <1>7, <1>8 DEF Held
<1>10. ASSUME b.wlen < Len(b.buf), b.off <= Len(b.data)
       PROVE  Content(p) = Splice(Content(b), b.off + b.wlen, <<c>>)
  <2>1. PICK d \in Seq(Nat) : d = Pending(b) /\ Len(d) = b.wlen /\ \A i \in 1 .. Len(d) : d[i] = b.buf[i]
    <3>1. Smaller(b.wlen, Len(b.buf)) = b.wlen
      BY <1>1, <1>10 DEF Smaller
    <3>. QED
      BY <3>1, PendingOf
  <2>2. PICK e \in Seq(Nat) : e = Pending(p) /\ Len(e) = m /\ \A i \in 1 .. Len(e) : e[i] = u[i]
    <3>1. Smaller(p.wlen, Len(p.buf)) = m
      BY <1>1, <1>2, <1>4, <1>7, <1>10 DEF Smaller
    <3>. QED
      BY <1>6, <1>7, <3>1, PendingOf
  <2>3. PICK t : t = d \o <<c>>
    OBVIOUS
  <2>4. <<c>> \in Seq(Nat) /\ Len(<<c>>) = 1 /\ <<c>>[1] = c
    OBVIOUS
  <2>5. t \in Seq(Nat) /\ Len(t) = b.wlen + 1 /\ (\A k \in 1 .. b.wlen : t[k] = d[k]) /\ t[b.wlen + 1] = c
    BY <2>1, <2>3, <2>4, JoinOf, SMTT(40)
  <2>6. ASSUME NEW i \in 1 .. Len(e)
        PROVE  e[i] = t[i]
    <3>1. e[i] = u[i] /\ i \in 1 .. m
      BY <2>2
    <3>2. CASE i = m
      BY <1>2, <1>4, <1>10, <2>5, <3>1, <3>2
    <3>3. CASE i # m
      <4>1. i \in 1 .. b.wlen /\ i \in 1 .. Len(d)
        BY <1>1, <1>2, <2>1, <3>1, <3>3
      <4>2. u[i] = b.buf[i]
        BY <1>4, <1>10, <4>1
      <4>3. d[i] = b.buf[i] /\ t[i] = d[i]
        BY <2>1, <2>5, <4>1
      <4>. QED
        BY <3>1, <4>2, <4>3
    <3>. QED
      BY <3>2, <3>3
  <2>7. e = t
    <3>1. e \in Seq(Nat) /\ t \in Seq(Nat) /\ Len(e) = Len(t)
      BY <1>2, <2>2, <2>5
    <3>. QED
      BY <2>6, <3>1, SeqEqual
  <2>8. Content(b) = Splice(b.data, b.off, d) /\ Content(p) = Splice(b.data, b.off, e)
    BY ZenonT(40), <1>6, <1>7, <1>10, <2>1, <2>2, ContentOf
  <2>9. Splice(Splice(b.data, b.off, d), b.off + Len(d), <<c>>) = Splice(b.data, b.off, d \o <<c>>)
    BY <1>1, <1>10, SpliceMore
  <2>. QED
    BY <2>1, <2>3, <2>7, <2>8, <2>9
<1>. QED
  BY <1>2, <1>4, <1>6, <1>7, <1>9, <1>10 DEF FilledLike

\* fputc: the byte is in the stream, or the error indicator is set.
Taken(s, x, y, c, r, exact) ==
  /\ y \in FileRec /\ y.open /\ Held(s, y) /\ r \in {c, EOF} /\ (r = EOF => y.err)
  /\ Ready(x, exact) /\ r # EOF =>
       /\ Ready(y, exact) /\ y.err = x.err
       /\ y.off + y.wlen = x.off + x.wlen + 1
       /\ Content(y) = Splice(Content(x), x.off + x.wlen, <<c>>)

LEMMA PutBuffered ==
  ASSUME NEW s \in Stream, NEW x \in FileRec, x.open, Held(s, x), x.bufmode # "NBF", NEW c \in Byte, NEW exact \in BOOLEAN,
         NEW b, b = EnsureBuf(x), NEW p, p = Filled(b, c), NEW z, z = IF FlushDue(p, c) THEN FlushWrite(s, p) ELSE p,
         NEW r, r = IF FlushDue(p, c) /\ z.wlen > 0 THEN EOF ELSE c
  PROVE  Taken(s, x, z, c, r, exact)
<1>1. c \in Nat /\ c # EOF
  BY Bounds DEF EOF
<1>2. /\ x.wlen \in Nat /\ Len(x.buf) \in Nat /\ x.off \in Nat /\ Len(x.data) \in Nat /\ x.rpos \in Nat /\ x.rlen \in Nat
      /\ x.bufcap \in Nat /\ x.pos \in Nat /\ x.err \in BOOLEAN
  BY FieldsOf
<1>3. /\ b \in FileRec /\ Held(s, b) /\ Kept(x, b)
      /\ b.buf # <<>> /\ b.bufcap = Len(b.buf) /\ b.bufcap > 0
      /\ b.rpos = x.rpos /\ b.rlen = x.rlen /\ b.ungot = x.ungot /\ b.off = x.off
      /\ x.buf # <<>> => b = x
      /\ x.buf = <<>> => x.wlen = 0
  BY EnsureOf
<1>4. Content(b) = Content(x)
  <2>1. CASE x.buf # <<>>
    BY <1>3, <2>1
  <2>2. CASE x.buf = <<>>
    <3>1. x.wlen = 0 /\ b.wlen = 0 /\ b.data = x.data
      BY <1>3, <2>2 DEF Kept
    <3>. QED
      BY <1>3, <3>1, ContentOf
  <2>. QED
    BY <2>1, <2>2
<1>5. b.open /\ b.bufmode # "NBF" /\ b.wlen = x.wlen /\ b.err = x.err /\ b.pos = x.pos /\ b.data = x.data /\ b.bufmode = x.bufmode
  BY <1>3 DEF Kept
<1>6. /\ p \in FileRec /\ Held(s, p) /\ p.wlen = b.wlen + 1 /\ Len(p.buf) = Len(b.buf)
      /\ p.open = b.open /\ p.err = b.err /\ p.bufmode = b.bufmode /\ p.bufcap = b.bufcap /\ p.rpos = b.rpos /\ p.rlen = b.rlen
      /\ p.pos = b.pos /\ p.ungot = b.ungot /\ p.data = b.data /\ p.off = b.off
      /\ b.wlen < Len(b.buf) =>
           /\ p.buf[b.wlen + 1] = c /\ \A i \in 1 .. b.wlen : p.buf[i] = b.buf[i]
           /\ b.off <= Len(b.data) => Content(p) = Splice(Content(b), b.off + b.wlen, <<c>>)
  <2>1. /\ b \in FileRec /\ b.open /\ Held(s, b) /\ b.buf # <<>> /\ b.bufcap = Len(b.buf) /\ b.bufmode # "NBF"
        /\ c \in Nat
    BY <1>1, <1>3, <1>5
  <2>2. FilledLike(s, b, c, p)
    BY <2>1, FilledOf, Zenon
  <2>. QED
    BY <2>2 DEF FilledLike
<1>7. Ready(x, exact) => b.wlen < Len(b.buf) /\ (x.wlen > 0 => b = x)
  BY <1>2, <1>3, <1>5 DEF Ready
<1>8. CASE ~FlushDue(p, c)
  <2>1. z = p /\ r = c
    BY <1>8
  <2>2. p.wlen # p.bufcap /\ (p.bufmode = "LBF" => c # NL)
    BY <1>8 DEF FlushDue
  <2>3. ASSUME Ready(x, exact)
        PROVE  /\ Ready(p, exact) /\ p.err = x.err
               /\ p.off + p.wlen = x.off + x.wlen + 1
               /\ Content(p) = Splice(Content(x), x.off + x.wlen, <<c>>)
    <3>1. p.wlen < p.bufcap
      BY <1>2, <1>3, <1>5, <1>6, <1>7, <2>2, <2>3
    <3>2. /\ p.rpos = p.rlen /\ p.ungot = None /\ p.off <= Len(p.data)
          /\ exact => p.pos = p.off /\ p.rlen = 0
      BY <1>3, <1>5, <1>6, <2>3 DEF Ready
    <3>3. ASSUME p.bufmode = "LBF", NEW i \in 1 .. p.wlen
          PROVE  p.buf[i] # NL
      <4>1. x.wlen > 0 => b = x
        BY <1>7, <2>3
      <4>2. CASE i = b.wlen + 1
        BY <1>6, <1>7, <2>2, <2>3, <3>3, <4>2
      <4>3. CASE i # b.wlen + 1
        <5>1. i \in 1 .. b.wlen /\ x.wlen > 0
          BY <1>2, <1>5, <1>6, <4>3, SMTT(40)
        <5>2. b = x /\ b.buf[i] # NL
          BY <1>5, <1>6, <2>3, <3>3, <4>1, <5>1 DEF Ready
        <5>. QED
          BY <1>6, <1>7, <2>3, <5>1, <5>2
      <4>. QED
        BY <4>2, <4>3
    <3>4. Ready(p, exact)
      BY <3>1, <3>2, <3>3 DEF Ready
    <3>5. Content(p) = Splice(Content(x), x.off + x.wlen, <<c>>)
      BY <1>3, <1>4, <1>5, <1>6, <1>7, <2>3 DEF Ready
    <3>6. p.off + p.wlen = x.off + x.wlen + 1 /\ p.err = x.err
      BY <1>2, <1>3, <1>5, <1>6
    <3>. QED
      BY <3>4, <3>5, <3>6
  <2>. QED
    BY <1>1, <1>5, <1>6, <2>1, <2>3 DEF Taken
<1>9. CASE FlushDue(p, c)
  <2>1. z = FlushWrite(s, p)
    BY <1>9
  <2>2. p.open
    BY <1>5, <1>6
  <2>3. /\ z \in FileRec /\ Alike(p, z) /\ Held(s, z)
        /\ z.wlen \in {0, p.wlen} /\ (p.err => z.err) /\ (z.wlen > 0 => z.err)
        /\ z.wlen = 0 /\ (p.wlen > 0 => p.off <= Len(p.data) /\ p.wlen <= Len(p.buf)) =>
             z.data = Content(p) /\ z.off = p.off + p.wlen /\ z.pos = p.pos + p.wlen /\ z.err = p.err
    BY <1>6, <2>1, <2>2, FlushOf
  <2>4. z.wlen \in Nat /\ p.wlen \in Nat /\ z.off \in Nat
    BY <1>6, <2>3, FieldsOf
  <2>5. (z.wlen > 0 => r = EOF) /\ (z.wlen = 0 => r = c)
    BY <1>9
  <2>6. ASSUME Ready(x, exact), z.wlen = 0
        PROVE  /\ Ready(z, exact) /\ z.err = x.err
               /\ z.off + z.wlen = x.off + x.wlen + 1
               /\ Content(z) = Splice(Content(x), x.off + x.wlen, <<c>>)
    <3>1. p.off <= Len(p.data) /\ p.wlen <= Len(p.buf)
      BY <1>2, <1>3, <1>5, <1>6, <1>7, <2>6 DEF Ready
    <3>2. z.data = Content(p) /\ z.off = p.off + p.wlen /\ z.pos = p.pos + p.wlen /\ z.err = p.err
      BY <2>3, <2>6, <3>1
    <3>3. Content(p) = Splice(Content(x), x.off + x.wlen, <<c>>)
      BY <1>3, <1>4, <1>5, <1>6, <1>7, <2>6 DEF Ready
    <3>4. Content(z) = z.data
      BY <2>3, <2>6, ContentOf
    <3>5. z.off + z.wlen = x.off + x.wlen + 1 /\ z.err = x.err
      BY <1>2, <1>3, <1>5, <1>6, <2>6, <3>2
    <3>6. z.off <= Len(z.data)
      <4>1. PICK w : w = Content(x)
        OBVIOUS
      <4>2. w \in Seq(Nat) /\ Len(w) \in Nat
        BY <4>1, ContentOf
      <4>3. PICK n \in Nat : n = x.off + x.wlen
        BY <1>2
      <4>4. n <= Len(w)
        <5>1. Smaller(x.wlen, Len(x.buf)) = x.wlen
          BY <1>2, <1>3, <1>7, <2>6 DEF Smaller, Ready
        <5>2. PICK d \in Seq(Nat) : d = Pending(x) /\ Len(d) = x.wlen
          BY <5>1, PendingOf
        <5>3. x.off <= Len(x.data) /\ x.data \in Seq(Nat)
          BY <2>6, FieldsOf DEF Ready
        <5>4. w = Splice(x.data, x.off, d)
          BY <4>1, <5>2, <5>3, ContentOf
        <5>5. Len(w) = IF x.off + Len(d) <= Len(x.data) THEN Len(x.data) ELSE x.off + Len(d)
          BY <1>2, <5>2, <5>3, <5>4, SpliceLen
        <5>. QED
          BY <1>2, <4>3, <5>2, <5>5
      <4>5. <<c>> \in Seq(Nat) /\ Len(<<c>>) = 1
        BY <1>1
      <4>6. Len(Splice(w, n, <<c>>)) = IF n + Len(<<c>>) <= Len(w) THEN Len(w) ELSE n + Len(<<c>>)
        BY <4>2, <4>4, <4>5, SpliceLen
      <4>7. z.data = Splice(w, n, <<c>>)
        BY <3>2, <3>3, <4>1, <4>3
      <4>. QED
        BY SMTT(30), <2>4, <2>6, <3>5, <4>2, <4>3, <4>5, <4>6, <4>7
    <3>7. z.rpos = z.rlen /\ z.ungot = None /\ (exact => z.rlen = 0)
      BY <1>3, <1>6, <2>3, <2>6 DEF Alike, Ready
    <3>8. exact => z.pos = z.off
      <4>1. exact => p.pos = p.off
        BY <1>3, <1>5, <1>6, <2>6 DEF Ready
      <4>. QED
        BY <3>2, <4>1
    <3>9. Ready(z, exact)
      BY <2>6, <3>6, <3>7, <3>8 DEF Ready
    <3>. QED
      BY <3>2, <3>3, <3>4, <3>5, <3>9
  <2>7. z.open
    BY <2>2, <2>3 DEF Alike
  <2>8. CASE z.wlen = 0
    BY <1>1, <2>3, <2>5, <2>6, <2>7, <2>8 DEF Taken
  <2>9. CASE z.wlen > 0
    BY <2>3, <2>5, <2>7, <2>9 DEF Taken
  <2>. QED
    BY <2>4, <2>8, <2>9
<1>. QED
  BY <1>8, <1>9
\* The error indicator set and nothing else.
LEMMA ErrOf ==
  ASSUME NEW s \in Stream, NEW x \in FileRec, NEW y, y = [x EXCEPT !.err = TRUE]
  PROVE  /\ y \in FileRec /\ y.err /\ y.open = x.open /\ (Held(s, x) => Held(s, y))
         /\ y.wlen = x.wlen /\ y.rpos = x.rpos /\ y.rlen = x.rlen /\ y.off = x.off /\ y.pos = x.pos /\ y.data = x.data
         /\ y.ungot = x.ungot /\ y.buf = x.buf /\ y.bufcap = x.bufcap /\ y.bufmode = x.bufmode
<1>1. y \in FileRec
  BY Zenon DEF FileRec
<1>2. /\ y.err = TRUE /\ y.open = x.open /\ y.mscap = x.mscap
      /\ y.wlen = x.wlen /\ y.rpos = x.rpos /\ y.rlen = x.rlen /\ y.off = x.off /\ y.pos = x.pos /\ y.data = x.data
      /\ y.ungot = x.ungot /\ y.buf = x.buf /\ y.bufcap = x.bufcap /\ y.bufmode = x.bufmode
  BY DEF FileRec
<1>. QED
  BY <1>1, <1>2 DEF Held

LEMMA PutFails ==
  ASSUME NEW s \in Stream, NEW x \in FileRec, x.open, Held(s, x), NEW c, NEW exact,
         NEW y, y = [x EXCEPT !.err = TRUE]
  PROVE  Taken(s, x, y, c, EOF, exact)
BY ErrOf DEF Taken

LEMMA PutUnbuffered ==
  ASSUME NEW s \in Stream, NEW x \in FileRec, x.open, Held(s, x), x.bufmode = "NBF", NEW c \in Byte, NEW exact \in BOOLEAN,
         Accepted(s, x, 1) = 1, NEW z, z = [Stored(x, <<c>>) EXCEPT !.pos = @ + 1]
  PROVE  Taken(s, x, z, c, c, exact)
<1>1. c \in Nat /\ c # EOF /\ <<c>> \in Seq(Nat) /\ Len(<<c>>) = 1 /\ <<c>> # <<>>
  BY Bounds DEF EOF
<1>2. /\ x.data \in Seq(Nat) /\ x.off \in Nat /\ Len(x.data) \in Nat /\ x.rpos \in Nat /\ x.rlen \in Nat
      /\ x.pos \in Nat /\ Len(x.buf) \in Nat
  BY FieldsOf
<1>3. x.wlen = 0
  BY DEF Held
<1>4. s # "mem" /\ x.off <= Len(x.data)
  <2>1. /\ s = "mem" => Accepted(s, x, 1) = 0
        /\ s = "file" /\ Accepted(s, x, 1) > 0 => x.off <= Len(x.data)
    BY AcceptedOf
  <2>. QED
    BY <1>2, <2>1 DEF Stream, Held
<1>5. PICK y : y = Stored(x, <<c>>)
  OBVIOUS
<1>6. /\ y \in FileRec /\ Alike(x, y) /\ y.err = x.err /\ y.wlen = x.wlen /\ y.pos = x.pos
      /\ y.off = x.off + Len(<<c>>) /\ y.data = Splice(x.data, x.off, <<c>>)
      /\ (x.off = Len(x.data) => Len(y.data) = x.off + Len(<<c>>))
  BY <1>1, <1>4, <1>5, StoredOf
<1>7. PICK q \in Nat : q = x.pos + 1
  BY <1>2
<1>8. z = [y EXCEPT !.pos = q]
  BY <1>5, <1>6, <1>7
<1>9. z \in FileRec
  <2>1. y \in FileRec
    BY <1>6
  <2>. QED
    BY <1>8, <2>1, Zenon DEF FileRec
<1>10. /\ z.open = y.open /\ z.err = y.err /\ z.bufmode = y.bufmode /\ z.buf = y.buf /\ z.bufcap = y.bufcap
       /\ z.rpos = y.rpos /\ z.rlen = y.rlen /\ z.wlen = y.wlen /\ z.ungot = y.ungot /\ z.data = y.data /\ z.off = y.off
       /\ z.pos = q
  BY <1>6, <1>8 DEF FileRec
<1>11. Held(s, z)
  BY <1>1, <1>2, <1>3, <1>4, <1>6, <1>10 DEF Held, Alike
<1>12. Len(z.data) = IF x.off + 1 <= Len(x.data) THEN Len(x.data) ELSE x.off + 1
  <2>1. Len(Splice(x.data, x.off, <<c>>)) = IF x.off + Len(<<c>>) <= Len(x.data) THEN Len(x.data) ELSE x.off + Len(<<c>>)
    BY <1>1, <1>2, <1>4, SpliceLen
  <2>. QED
    BY <1>1, <1>6, <1>10, <2>1
<1>13. Content(x) = x.data /\ Content(z) = z.data
  BY <1>3, <1>6, <1>9, <1>10, ContentOf
<1>14. z.off <= Len(z.data) /\ z.off + z.wlen = x.off + x.wlen + 1 /\ z.wlen = 0 /\ z.off = x.off + 1
  BY <1>1, <1>2, <1>3, <1>6, <1>10, <1>12
<1>15. Content(z) = Splice(Content(x), x.off + x.wlen, <<c>>)
  BY <1>2, <1>3, <1>6, <1>10, <1>13
<1>16. Ready(x, exact) => Ready(z, exact)
  BY <1>6, <1>7, <1>10, <1>14 DEF Ready, Alike
<1>. QED
  BY <1>1, <1>6, <1>9, <1>10, <1>11, <1>14, <1>15, <1>16 DEF Taken, Alike

LEMMA PutOf ==
  ASSUME NEW s \in Stream, NEW x \in FileRec, x.open, Held(s, x), NEW c \in Byte, NEW exact \in BOOLEAN,
         NEW y, y = Dropped(x), NEW r, r = Fputc(s, x, c)
  PROVE  Taken(s, y, r.x, c, r.c, exact)
<1>1. y \in FileRec /\ y.open /\ Held(s, y)
  BY DropOf DEF Kept
<1>2. PICK b, p, z, e : /\ b = EnsureBuf(y) /\ p = Filled(b, c) /\ z = IF FlushDue(p, c) THEN FlushWrite(s, p) ELSE p
                        /\ e = IF FlushDue(p, c) /\ z.wlen > 0 THEN EOF ELSE c
  OBVIOUS
<1>3. r = CASE y.bufmode = "NBF" /\ Accepted(s, y, 1) = 1 -> [x |-> [Stored(y, <<c>>) EXCEPT !.pos = @ + 1], c |-> c]
            [] y.bufmode = "NBF" /\ Accepted(s, y, 1) = 0 -> [x |-> [y EXCEPT !.err = TRUE], c |-> EOF]
            [] y.bufmode # "NBF" /\ NoBuffer(y) -> [x |-> [y EXCEPT !.err = TRUE], c |-> EOF]
            [] OTHER -> [x |-> z, c |-> e]
  BY <1>2, Zenon DEF Fputc, Filled, Dropped
<1>4. Accepted(s, y, 1) \in {0, 1}
  BY SMTT(30), <1>1, AcceptedOf
<1>5. CASE y.bufmode = "NBF" /\ Accepted(s, y, 1) = 1
  <2>1. r.x = [Stored(y, <<c>>) EXCEPT !.pos = @ + 1] /\ r.c = c
    BY <1>3, <1>5
  <2>. QED
    BY <1>1, <1>5, <2>1, PutUnbuffered
<1>6. CASE (y.bufmode = "NBF" /\ Accepted(s, y, 1) = 0) \/ (y.bufmode # "NBF" /\ NoBuffer(y))
  <2>1. r.x = [y EXCEPT !.err = TRUE] /\ r.c = EOF
    BY <1>3, <1>6
  <2>. QED
    BY <1>1, <2>1, PutFails
<1>7. CASE y.bufmode # "NBF" /\ ~NoBuffer(y)
  <2>1. r.x = z /\ r.c = e
    BY <1>3, <1>7
  <2>2. Taken(s, y, z, c, e, exact)
    BY <1>1, <1>2, <1>7, PutBuffered
  <2>. QED
    BY <2>1, <2>2
<1>. QED
  BY <1>4, <1>5, <1>6, <1>7

\* What putc makes of a stream, and what its program sees of it.
LEMMA PutStream ==
  ASSUME NEW s \in Stream, NEW x, NEW h, StreamOK(s, x, h), x.open, NEW c \in Byte,
         NEW r, r = Fputc(s, x, c), NEW k \in HistRec,
         k.exact = (h.exact /\ h.last # "get"), k.last = "put",
         k.broken = (h.broken \/ (h.last = "get" /\ ~h.exact) \/ Position(x) > Len(Content(x)) \/ r.c = EOF)
  PROVE  /\ StreamOK(s, r.x, k) /\ r.x.open /\ r.c \in {c, EOF} /\ (r.c = EOF => r.x.err)
         /\ ~k.broken => /\ Position(x) <= Len(Content(x)) /\ Content(r.x) = Splice(Content(x), Position(x), <<c>>)
                         /\ Position(r.x) = Position(x) + 1 /\ r.x.ungot = None /\ r.x.err = x.err
<1>1. x \in FileRec /\ h \in HistRec /\ Held(s, x) /\ (~h.broken => Sound(x, h))
  BY DEF StreamOK
<1>2. PICK y : y = Dropped(x)
  OBVIOUS
<1>3. PICK e \in BOOLEAN : e = (h.exact /\ h.last # "get")
  OBVIOUS
<1>4. Taken(s, y, r.x, c, r.c, e)
  BY <1>1, <1>2, <1>3, PutOf
<1>5. y \in FileRec /\ y.err = x.err
  BY <1>1, <1>2, DropOf DEF Kept
<1>6. r.x \in FileRec /\ r.x.open /\ Held(s, r.x) /\ r.c \in {c, EOF} /\ (r.c = EOF => r.x.err)
  BY <1>4 DEF Taken
<1>7. /\ x.off \in Nat /\ x.wlen \in Nat /\ x.rlen \in Nat /\ x.rpos \in Nat /\ Len(Content(x)) \in Nat
      /\ r.x.off \in Nat /\ r.x.wlen \in Nat /\ r.x.rlen \in Nat /\ r.x.rpos \in Nat /\ r.x.pos \in Nat
      /\ Position(x) \in Int
  BY <1>1, <1>6, FieldsOf, ContentOf, SMTT(40) DEF Position
<1>8. ASSUME ~k.broken
      PROVE  /\ Position(x) <= Len(Content(x)) /\ Content(r.x) = Splice(Content(x), Position(x), <<c>>)
             /\ Position(r.x) = Position(x) + 1 /\ r.x.ungot = None /\ r.x.err = x.err
             /\ Sound(r.x, k)
  <2>1. ~h.broken /\ ~(h.last = "get" /\ ~h.exact) /\ ~(Position(x) > Len(Content(x))) /\ r.c # EOF
    BY <1>8
  <2>2. Position(x) <= Len(Content(x))
    BY <1>7, <2>1
  <2>3. Sound(x, h)
    BY <1>1, <2>1
  <2>4. /\ Ready(y, e)
        /\ y.off + y.wlen = Position(x) /\ Content(y) = Content(x)
    BY <1>1, <1>2, <1>3, <2>1, <2>2, <2>3, DropReady
  <2>5. /\ Ready(r.x, e) /\ r.x.err = x.err
        /\ r.x.off + r.x.wlen = Position(x) + 1
        /\ Content(r.x) = Splice(Content(x), Position(x), <<c>>)
    BY <1>4, <1>5, <2>1, <2>4 DEF Taken
  <2>6. Position(r.x) = Position(x) + 1
    BY <1>7, <2>5, SMTT(40) DEF Ready, Position
  <2>7. Sound(r.x, k)
    BY <1>3, <1>7, <2>5 DEF Ready, Sound
  <2>. QED
    BY <2>2, <2>5, <2>6, <2>7 DEF Ready
<1>. QED
  BY <1>6, <1>8 DEF StreamOK
\* What a refill makes of a stream whose buffer is read.
Settled(x) == x.wlen > 0 => x.off <= Len(x.data) /\ x.wlen <= Len(x.buf)
Refilled(s, x, y) ==
  /\ y \in FileRec /\ y.open /\ Held(s, y) /\ y.ungot = x.ungot /\ y.bufmode = x.bufmode
  /\ (x.err => y.err) /\ (y.wlen > 0 => y.err)
  /\ y.wlen = 0 /\ Settled(x) =>
       /\ y.data = Content(x) /\ y.off = x.off + x.wlen + (y.rlen - y.rpos)
       /\ y.rlen > y.rpos => ReadAhead(y) /\ y.err = x.err
       /\ y.rpos >= y.rlen => y.err \/ y.off >= Len(y.data)
       /\ x.pos + x.rlen = x.off => y.pos + y.rlen = y.off

GotLike(data, off, cap, got) ==
  /\ got \in Seq(Nat) /\ Len(got) \in Nat /\ Len(got) <= cap
  /\ \A i \in 1 .. Len(got) : got[i] = data[off + i]
  /\ IF got = <<>> THEN off >= Len(data) ELSE Len(got) > 0 /\ off + Len(got) <= Len(data)

\* The bytes that a read takes from the offset on.
LEMMA GotOf ==
  ASSUME NEW data \in Seq(Nat), NEW off \in Nat, NEW cap \in Nat, cap > 0,
         NEW got, got = SubSeq(data, off + 1, Smaller(off + cap, Len(data)))
  PROVE  GotLike(data, off, cap, got)
<1>1. PICK l \in Nat : l = Len(data)
  BY LenProperties
<1>2. PICK e \in Nat : e = Smaller(off + cap, Len(data)) /\ e <= l /\ e <= off + cap /\ e \in {off + cap, l}
  BY <1>1 DEF Smaller
<1>3. PICK o \in Nat : o = off + 1 /\ o >= 1
  OBVIOUS
<1>4. got = SubSeq(data, o, e) /\ e <= Len(data)
  BY <1>1, <1>2, <1>3
<1>5. /\ got \in Seq(Nat) /\ Len(got) = IF o <= e THEN e - o + 1 ELSE 0
      /\ \A k \in 1 .. Len(got) : got[k] = data[o + k - 1]
  <2>1. o \in Nat /\ e \in Nat /\ o >= 1 /\ e <= Len(data)
    BY <1>3, <1>4
  <2>2. /\ SubSeq(data, o, e) \in Seq(Nat) /\ Len(SubSeq(data, o, e)) = IF o <= e THEN e - o + 1 ELSE 0
        /\ \A k \in 1 .. Len(SubSeq(data, o, e)) : SubSeq(data, o, e)[k] = data[o + k - 1]
    BY ZenonT(40), <2>1, PartOf
  <2>. QED
    BY <1>4, <2>2, Zenon
<1>6. Len(got) \in Nat /\ Len(got) <= cap /\ (Len(got) = 0 => off >= l) /\ (Len(got) > 0 => off + Len(got) <= l)
  <2>1. PICK g : g = Len(got)
    OBVIOUS
  <2>2. g = IF o <= e THEN e - o + 1 ELSE 0
    BY <1>5, <2>1
  <2>3. g \in Nat /\ g <= cap /\ (g = 0 => off >= l) /\ (g > 0 => off + g <= l)
    BY <1>2, <1>3, <2>2, SMTT(40)
  <2>. QED
    BY <2>1, <2>3
<1>7. ASSUME NEW i \in 1 .. Len(got)
      PROVE  got[i] = data[off + i]
  <2>1. o + i - 1 = off + i
    BY <1>3, <1>6
  <2>. QED
    BY <1>5, <2>1
<1>8. (got = <<>> => Len(got) = 0) /\ (got # <<>> => Len(got) > 0)
  <2>1. got \in Seq(Nat) /\ Len(got) \in Nat
    BY <1>5, <1>6
  <2>2. got # <<>> => Len(got) \in Nat \ {0}
    BY <2>1, EmptySeq, Zenon
  <2>3. got = <<>> => Len(got) = 0
    BY EmptySeq, Zenon
  <2>4. Len(got) \in Nat \ {0} => Len(got) > 0
    BY <2>1
  <2>. QED
    BY <2>2, <2>3, <2>4, Zenon
<1>. QED
  BY <1>1, <1>5, <1>6, <1>7, <1>8 DEF GotLike

LEMMA RefillOf ==
  ASSUME NEW s \in Stream, s = "file", NEW x \in FileRec, x.open, Held(s, x), x.rpos = x.rlen, NEW y, y = Refill(s, x)
  PROVE  Refilled(s, x, y)
<1>1. /\ x.rpos \in Nat /\ x.rlen \in Nat /\ x.pos \in Nat /\ x.off \in Nat /\ x.wlen \in Nat /\ Len(x.buf) \in Nat
      /\ Len(x.data) \in Nat /\ x.err \in BOOLEAN
  BY FieldsOf
<1>2. PICK f : f = FlushWrite(s, x)
  OBVIOUS
<1>3. /\ f \in FileRec /\ Alike(x, f) /\ Held(s, f)
      /\ f.wlen \in {0, x.wlen} /\ (x.err => f.err) /\ (f.wlen > 0 => f.err)
      /\ f.wlen = 0 /\ Settled(x) =>
           f.data = Content(x) /\ f.off = x.off + x.wlen /\ f.pos = x.pos + x.wlen /\ f.err = x.err
  BY <1>2, FlushOf DEF Settled
<1>4. f.open /\ f.ungot = x.ungot /\ f.bufmode = x.bufmode /\ f.rpos = f.rlen /\ f.rlen = x.rlen
  BY <1>3 DEF Alike
<1>5. PICK e : e = EnsureBuf(f)
  OBVIOUS
<1>6. /\ e \in FileRec /\ Held(s, e) /\ Kept(f, e)
      /\ e.buf # <<>> /\ e.bufcap = Len(e.buf) /\ e.bufcap > 0
      /\ e.ungot = f.ungot /\ e.off = f.off /\ e.eof = f.eof /\ e.rlen = f.rlen
  BY <1>3, <1>5, EnsureOf
<1>7. /\ f.rpos \in Nat /\ f.rlen \in Nat /\ f.pos \in Nat /\ f.off \in Nat /\ f.wlen \in Nat
      /\ e.bufcap \in Nat /\ e.buf \in Seq(Nat) /\ Len(e.buf) \in Nat /\ e.data \in Seq(Nat) /\ Len(e.data) \in Nat
      /\ f.err \in BOOLEAN
  BY <1>3, <1>6, FieldsOf
<1>8. PICK q \in Nat : q = f.pos + f.rlen
  BY <1>7
<1>9. PICK z : z = [e EXCEPT !.pos = q, !.rpos = 0, !.rlen = 0]
  OBVIOUS
<1>10. z = [EnsureBuf(f) EXCEPT !.pos = @ + f.rlen, !.rpos = 0, !.rlen = 0]
  BY <1>5, <1>6, <1>8, <1>9 DEF Kept
<1>11. z \in FileRec
  <2>1. e \in FileRec /\ 0 \in Nat
    BY <1>6
  <2>. QED
    BY <1>9, <2>1, Zenon DEF FileRec
<1>12. /\ z.open = e.open /\ z.err = e.err /\ z.eof = e.eof /\ z.bufmode = e.bufmode /\ z.buf = e.buf /\ z.bufcap = e.bufcap
       /\ z.rpos = 0 /\ z.rlen = 0 /\ z.wlen = e.wlen /\ z.pos = q /\ z.ungot = e.ungot /\ z.data = e.data /\ z.off = e.off
       /\ z.mscap = e.mscap
  BY <1>6, <1>9 DEF FileRec
<1>13. Held(s, z)
  BY <1>6, <1>7, <1>12 DEF Held
<1>14. PICK got : got = SubSeq(z.data, z.off + 1, Smaller(z.off + z.bufcap, Len(z.data)))
  OBVIOUS
<1>15. /\ got \in Seq(Nat) /\ Len(got) \in Nat /\ Len(got) <= z.bufcap
       /\ \A i \in 1 .. Len(got) : got[i] = z.data[z.off + i]
       /\ IF got = <<>> THEN z.off >= Len(z.data) ELSE Len(got) > 0 /\ z.off + Len(got) <= Len(z.data)
  <2>1. PICK data \in Seq(Nat), off \in Nat, cap \in Nat : data = z.data /\ off = z.off /\ cap = z.bufcap /\ cap > 0
    BY <1>6, <1>7, <1>12
  <2>2. got = SubSeq(data, off + 1, Smaller(off + cap, Len(data)))
    BY <1>14, <2>1
  <2>3. GotLike(data, off, cap, got)
    BY <2>1, <2>2, GotOf
  <2>. QED
    BY <2>1, <2>3, Zenon DEF GotLike
<1>16. y = CASE NoBuffer(f) -> [f EXCEPT !.err = TRUE]
             [] ~NoBuffer(f) /\ "fs" \in down -> [z EXCEPT !.err = TRUE]
             [] ~NoBuffer(f) /\ "fs" \notin down /\ got = <<>> -> [z EXCEPT !.eof = TRUE]
             [] OTHER -> [z EXCEPT !.buf = got \o SubSeq(z.buf, Len(got) + 1, Len(z.buf)), !.rlen = Len(got), !.off = @ + Len(got)]
  BY <1>2, <1>10, <1>14, Zenon DEF Refill
<1>17. /\ z.open /\ z.ungot = x.ungot /\ z.bufmode = x.bufmode /\ z.wlen = f.wlen /\ z.err = f.err /\ z.data = f.data /\ z.off = f.off
  BY <1>4, <1>6, <1>12 DEF Kept
<1>18. CASE NoBuffer(f)
  <2>1. y = [f EXCEPT !.err = TRUE]
    BY <1>16, <1>18
  <2>2. /\ y \in FileRec /\ y.err /\ y.open = f.open /\ Held(s, y)
        /\ y.wlen = f.wlen /\ y.rpos = f.rpos /\ y.rlen = f.rlen /\ y.off = f.off /\ y.pos = f.pos /\ y.data = f.data
        /\ y.ungot = f.ungot /\ y.bufmode = f.bufmode
    BY <1>3, <2>1, ErrOf
  <2>3. ASSUME y.wlen = 0, Settled(x)
        PROVE  /\ y.data = Content(x) /\ y.off = x.off + x.wlen + (y.rlen - y.rpos)
               /\ x.pos + x.rlen = x.off => y.pos + y.rlen = y.off
    <3>1. f.data = Content(x) /\ f.off = x.off + x.wlen /\ f.pos = x.pos + x.wlen
      BY <1>3, <2>2, <2>3
    <3>. QED
      BY <1>1, <1>4, <2>2, <3>1
  <2>4. ~(y.rlen > y.rpos)
    BY <1>4, <1>7, <2>2
  <2>. QED
    BY <1>4, <2>2, <2>3, <2>4 DEF Refilled
<1>19. CASE ~NoBuffer(f) /\ ("fs" \in down \/ got = <<>>)
  <2>1. /\ y \in FileRec /\ Held(s, y) /\ y.open = z.open /\ y.ungot = z.ungot /\ y.bufmode = z.bufmode
        /\ y.wlen = z.wlen /\ y.rpos = z.rpos /\ y.rlen = z.rlen /\ y.off = z.off /\ y.pos = z.pos /\ y.data = z.data
        /\ (z.err => y.err) /\ (y.err \/ z.off >= Len(z.data))
    <3>1. CASE "fs" \in down
      <4>1. y = [z EXCEPT !.err = TRUE]
        BY <1>16, <1>19, <3>1
      <4>. QED
        BY <1>11, <1>13, <4>1, ErrOf
    <3>2. CASE ~("fs" \in down)
      <4>1. y = [z EXCEPT !.eof = TRUE] /\ got = <<>>
        BY <1>16, <1>19, <3>2
      <4>2. y \in FileRec
        BY <1>11, <4>1, Zenon DEF FileRec
      <4>3. /\ y.open = z.open /\ y.err = z.err /\ y.bufmode = z.bufmode /\ y.buf = z.buf /\ y.bufcap = z.bufcap
            /\ y.rpos = z.rpos /\ y.rlen = z.rlen /\ y.wlen = z.wlen /\ y.pos = z.pos /\ y.ungot = z.ungot
            /\ y.data = z.data /\ y.off = z.off /\ y.mscap = z.mscap
        BY <1>11, <4>1 DEF FileRec
      <4>4. Held(s, y)
        BY <1>13, <4>3 DEF Held
      <4>. QED
        BY <1>15, <4>1, <4>2, <4>3, <4>4
    <3>. QED
      BY <3>1, <3>2
  <2>2. ASSUME y.wlen = 0, Settled(x)
        PROVE  /\ y.data = Content(x) /\ y.off = x.off + x.wlen + (y.rlen - y.rpos)
               /\ y.err \/ y.off >= Len(y.data)
               /\ x.pos + x.rlen = x.off => y.pos + y.rlen = y.off
    <3>1. f.data = Content(x) /\ f.off = x.off + x.wlen /\ f.pos = x.pos + x.wlen
      BY <1>3, <1>17, <2>1, <2>2
    <3>2. y.data = f.data /\ y.off = f.off /\ y.pos = f.pos + x.rlen /\ y.rlen = 0 /\ y.rpos = 0
      BY <1>4, <1>8, <1>12, <1>17, <2>1
    <3>3. y.err \/ y.off >= Len(y.data)
      BY <2>1
    <3>. QED
      BY <1>1, <3>1, <3>2, <3>3
  <2>3. ~(y.rlen > y.rpos)
    BY <1>12, <2>1
  <2>4. (x.err => y.err) /\ (y.wlen > 0 => y.err)
    BY <1>3, <1>17, <2>1
  <2>. QED
    BY <1>17, <2>1, <2>2, <2>3, <2>4 DEF Refilled
<1>20. CASE ~NoBuffer(f) /\ "fs" \notin down /\ got # <<>>
  <2>1. PICK n \in Nat : n = Len(got) /\ n > 0 /\ n <= z.bufcap /\ z.off + n <= Len(z.data)
    BY <1>15, <1>20
  <2>2. PICK v : v = SubSeq(z.buf, n + 1, Len(z.buf))
    OBVIOUS
  <2>3. v \in Seq(Nat) /\ Len(v) = IF n <= Len(z.buf) THEN Len(z.buf) - n ELSE 0
    BY <1>7, <1>12, <2>2, RestOf
  <2>4. PICK u : u = got \o v
    OBVIOUS
  <2>5. u \in Seq(Nat) /\ Len(u) = Len(got) + Len(v) /\ \A i \in 1 .. Len(got) : u[i] = got[i]
    BY <1>15, <2>3, <2>4, JoinOf
  <2>6. Len(u) = Len(z.buf)
    BY <1>6, <1>7, <1>12, <2>1, <2>3, <2>5
  <2>7. PICK o \in Nat : o = z.off + n
    BY <1>6, <1>7, <1>12
  <2>8. y = [z EXCEPT !.buf = u, !.rlen = n, !.off = o]
    BY <1>16, <1>20, <2>1, <2>2, <2>4, <2>7
  <2>9. y \in FileRec
    <3>1. u \in Seq(Nat)
      BY <2>5
    <3>. QED
      BY <1>11, <2>8, <3>1, Zenon DEF FileRec
  <2>10. /\ y.open = z.open /\ y.err = z.err /\ y.bufmode = z.bufmode /\ y.buf = u /\ y.bufcap = z.bufcap
         /\ y.rpos = z.rpos /\ y.rlen = n /\ y.wlen = z.wlen /\ y.pos = z.pos /\ y.ungot = z.ungot
         /\ y.data = z.data /\ y.off = o /\ y.mscap = z.mscap
    BY <1>11, <2>8 DEF FileRec
  <2>11. u # <<>>
    BY <1>7, <1>6, <1>12, <2>6
  <2>12. Held(s, y)
    <3>1. z.bufcap = Len(u) /\ z.bufcap <= Largest /\ (z.bufmode = "NBF" => z.wlen = 0)
      BY <1>6, <1>12, <1>13, <2>6 DEF Held
    <3>2. y.rpos <= y.rlen /\ y.rlen <= Len(y.buf)
      BY <1>7, <1>12, <2>1, <2>10, <3>1
    <3>. QED
      BY <2>10, <2>11, <3>1, <3>2 DEF Held
  <2>13. ReadAhead(y)
    <3>1. y.rlen <= y.off /\ y.off <= Len(y.data)
      BY <1>6, <1>7, <1>12, <2>1, <2>7, <2>10, SMTT(40)
    <3>2. ASSUME NEW i \in y.rpos + 1 .. y.rlen
          PROVE  y.buf[i] = y.data[y.off - y.rlen + i]
      <4>1. i \in 1 .. Len(got) /\ y.off - y.rlen + i = z.off + i
        BY <1>6, <1>7, <1>12, <2>1, <2>7, <2>10
      <4>2. u[i] = z.data[z.off + i]
        BY <1>15, <2>5, <4>1
      <4>. QED
        BY <2>10, <4>1, <4>2
    <3>. QED
      BY <3>1, <3>2 DEF ReadAhead
  <2>14. ASSUME y.wlen = 0, Settled(x)
         PROVE  /\ y.data = Content(x) /\ y.off = x.off + x.wlen + (y.rlen - y.rpos) /\ y.err = x.err
                /\ x.pos + x.rlen = x.off => y.pos + y.rlen = y.off
    <3>1. f.data = Content(x) /\ f.off = x.off + x.wlen /\ f.pos = x.pos + x.wlen /\ f.err = x.err
      BY <1>3, <1>17, <2>10, <2>14
    <3>2. y.data = Content(x) /\ y.err = x.err
      BY <1>17, <2>10, <3>1
    <3>. QED
      BY <1>1, <1>4, <1>8, <1>12, <1>17, <2>7, <2>10, <3>1, <3>2, SMTT(40)
  <2>15. (x.err => y.err) /\ (y.wlen > 0 => y.err)
    BY <1>3, <1>17, <2>10
  <2>16. ~(y.rpos >= y.rlen)
    BY <1>12, <2>1, <2>10
  <2>. QED
    BY <1>17, <2>9, <2>10, <2>12, <2>13, <2>14, <2>15, <2>16 DEF Refilled
<1>. QED
  BY <1>18, <1>19, <1>20
\* One byte taken from the buffer.
TakeLike(s, y, z, c) ==
  /\ z \in FileRec /\ Held(s, z) /\ c \in Nat
  /\ z.open = y.open /\ z.err = y.err /\ z.bufmode = y.bufmode /\ z.buf = y.buf /\ z.bufcap = y.bufcap
  /\ z.rpos = y.rpos + 1 /\ z.rlen = y.rlen /\ z.wlen = y.wlen /\ z.pos = y.pos /\ z.ungot = y.ungot
  /\ z.data = y.data /\ z.off = y.off
  /\ ReadAhead(y) => ReadAhead(z) /\ c = y.data[y.off - (y.rlen - y.rpos) + 1]

LEMMA TakeOf ==
  ASSUME NEW s \in Stream, NEW y \in FileRec, Held(s, y), y.rpos < y.rlen,
         NEW z, z = [y EXCEPT !.rpos = @ + 1], NEW c, c = y.buf[y.rpos + 1]
  PROVE  TakeLike(s, y, z, c)
<1>1. /\ y.rpos \in Nat /\ y.rlen \in Nat /\ y.off \in Nat /\ y.buf \in Seq(Nat) /\ Len(y.buf) \in Nat
      /\ Len(y.data) \in Nat
  BY FieldsOf
<1>2. PICK n \in Nat : n = y.rpos + 1
  BY <1>1
<1>3. z = [y EXCEPT !.rpos = n]
  BY <1>2
<1>4. z \in FileRec
  BY <1>3, Zenon DEF FileRec
<1>5. /\ z.open = y.open /\ z.err = y.err /\ z.bufmode = y.bufmode /\ z.buf = y.buf /\ z.bufcap = y.bufcap
      /\ z.rpos = n /\ z.rlen = y.rlen /\ z.wlen = y.wlen /\ z.pos = y.pos /\ z.ungot = y.ungot
      /\ z.data = y.data /\ z.off = y.off /\ z.mscap = y.mscap
  BY <1>3 DEF FileRec
<1>6. n \in 1 .. Len(y.buf) /\ n <= y.rlen /\ n \in y.rpos + 1 .. y.rlen
  BY <1>1, <1>2 DEF Held
<1>7. c \in Nat
  BY <1>1, <1>2, <1>6, ElementOfSeq
<1>8. Held(s, z)
  BY <1>5, <1>6 DEF Held
<1>9. ASSUME ReadAhead(y)
      PROVE  ReadAhead(z) /\ c = y.data[y.off - (y.rlen - y.rpos) + 1]
  <2>1. y.rlen <= y.off /\ y.off <= Len(y.data) /\ \A i \in y.rpos + 1 .. y.rlen : y.buf[i] = y.data[y.off - y.rlen + i]
    BY <1>9 DEF ReadAhead
  <2>2. c = y.data[y.off - y.rlen + n]
    BY <1>2, <1>6, <2>1
  <2>3. y.off - y.rlen + n = y.off - (y.rlen - y.rpos) + 1
    BY <1>1, <1>2
  <2>4. \A i \in n + 1 .. y.rlen : i \in y.rpos + 1 .. y.rlen
    BY <1>1, <1>2
  <2>5. ReadAhead(z)
    BY <1>5, <2>1, <2>4 DEF ReadAhead
  <2>. QED
    BY <2>2, <2>3, <2>5
<1>. QED
  BY <1>2, <1>4, <1>5, <1>7, <1>8, <1>9 DEF TakeLike

LEMMA PositionOf ==
  ASSUME NEW s \in Stream, NEW x \in FileRec, Held(s, x)
  PROVE  Position(x) \in Int /\ (\A h : Sound(x, h) => Position(x) \in Nat)
<1>1. x.rpos \in Nat /\ x.rlen \in Nat /\ x.off \in Nat /\ x.wlen \in Nat /\ x.rpos <= x.rlen
  BY FieldsOf DEF Held
<1>2. Position(x) \in Int
  BY <1>1 DEF Position
<1>3. ASSUME NEW h, Sound(x, h)
      PROVE  Position(x) \in Nat
  <2>1. x.rlen > x.rpos => x.rlen <= x.off
    BY <1>3 DEF Sound, ReadAhead
  <2>. QED
    BY <1>1, <2>1 DEF Position
<1>. QED
  BY <1>2, <1>3

\* What a program sees of fgetc.
GotByte(x, y, c) ==
  /\ Content(y) = Content(x) /\ y.ungot = None
  /\ \/ /\ c # EOF /\ y.err = x.err
        /\ IF x.ungot # None THEN c = x.ungot /\ Position(y) = Position(x)
           ELSE Position(x) < Len(Content(x)) /\ c = Content(x)[Position(x) + 1] /\ Position(y) = Position(x) + 1
     \/ /\ c = EOF /\ x.ungot = None /\ Position(y) = Position(x)
        /\ Position(x) >= Len(Content(x)) \/ y.err
        /\ x.err => y.err

LEMMA GetUngot ==
  ASSUME NEW s \in Stream, NEW x, NEW h, StreamOK(s, x, h), x.open, x.ungot # None,
         NEW y, y = [x EXCEPT !.ungot = None], NEW k \in HistRec,
         k.exact = h.exact, k.last = "get", k.broken = h.broken
  PROVE  StreamOK(s, y, k) /\ y.open /\ GotByte(x, y, x.ungot) /\ x.ungot \in Nat
<1>1. x \in FileRec /\ h \in HistRec /\ Held(s, x) /\ (~h.broken => Sound(x, h))
  BY DEF StreamOK
<1>2. y \in FileRec
  <2>1. None \in Byte \cup {None}
    OBVIOUS
  <2>. QED
    BY <1>1, <2>1, Zenon DEF FileRec
<1>3. /\ y.open = x.open /\ y.err = x.err /\ y.bufmode = x.bufmode /\ y.buf = x.buf /\ y.bufcap = x.bufcap
      /\ y.rpos = x.rpos /\ y.rlen = x.rlen /\ y.wlen = x.wlen /\ y.pos = x.pos /\ y.ungot = None
      /\ y.data = x.data /\ y.off = x.off /\ y.mscap = x.mscap
  BY <1>1 DEF FileRec
<1>4. Held(s, y)
  BY <1>1, <1>3 DEF Held
<1>5. ~h.broken => Sound(y, k)
  BY <1>1, <1>3 DEF Sound, ReadAhead
<1>6. Content(y) = Content(x) /\ Position(y) = Position(x)
  BY <1>3 DEF Content, Pending, Position
<1>7. x.ungot \in Nat /\ x.ungot # EOF
  BY <1>1, FieldsOf, Bounds DEF None, EOF
<1>. QED
  BY <1>2, <1>3, <1>4, <1>5, <1>6, <1>7 DEF StreamOK, GotByte

LEMMA GetAhead ==
  ASSUME NEW s \in Stream, NEW x, NEW h, StreamOK(s, x, h), x.open, x.ungot = None, x.rpos < x.rlen,
         NEW y, y = [x EXCEPT !.rpos = @ + 1], NEW c, c = x.buf[x.rpos + 1], NEW k \in HistRec,
         k.exact = h.exact, k.last = "get", k.broken = (h.broken \/ y.wlen > 0)
  PROVE  /\ StreamOK(s, y, k) /\ y.open /\ c \in Nat /\ (~h.broken => ~k.broken)
         /\ ~k.broken => GotByte(x, y, c)
<1>1. x \in FileRec /\ h \in HistRec /\ Held(s, x) /\ (~h.broken => Sound(x, h))
  BY DEF StreamOK
<1>2. /\ y \in FileRec /\ Held(s, y) /\ c \in Nat
      /\ y.open = x.open /\ y.err = x.err /\ y.bufmode = x.bufmode /\ y.buf = x.buf /\ y.bufcap = x.bufcap
      /\ y.rpos = x.rpos + 1 /\ y.rlen = x.rlen /\ y.wlen = x.wlen /\ y.pos = x.pos /\ y.ungot = x.ungot
      /\ y.data = x.data /\ y.off = x.off
      /\ ReadAhead(x) => ReadAhead(y) /\ c = x.data[x.off - (x.rlen - x.rpos) + 1]
  <2>1. TakeLike(s, x, y, c)
    BY <1>1, TakeOf
  <2>. QED
    BY <2>1 DEF TakeLike
<1>3. x.rpos \in Nat /\ x.rlen \in Nat /\ x.off \in Nat /\ x.wlen \in Nat /\ Len(x.data) \in Nat
  BY <1>1, FieldsOf
<1>4. ASSUME ~h.broken
      PROVE  Sound(y, k) /\ GotByte(x, y, c) /\ y.wlen = 0
  <2>1. Sound(x, h)
    BY <1>1, <1>4
  <2>2. x.wlen = 0 /\ ReadAhead(x)
    BY <1>3, <2>1 DEF Sound
  <2>3. c = x.data[x.off - (x.rlen - x.rpos) + 1] /\ ReadAhead(y)
    BY <1>2, <2>2
  <2>4. Content(x) = x.data /\ Content(y) = x.data
    BY <1>1, <1>2, <2>2, ContentOf
  <2>5. Position(x) = x.off - (x.rlen - x.rpos) /\ Position(y) = Position(x) + 1
    <3>1. y.off = x.off /\ y.wlen = 0 /\ y.rlen = x.rlen /\ y.rpos = x.rpos + 1
      BY <1>2, <2>2
    <3>2. Position(x) = x.off + x.wlen - (x.rlen - x.rpos)
      BY DEF Position
    <3>3. Position(y) = x.off + 0 - (x.rlen - (x.rpos + 1))
      BY <3>1 DEF Position
    <3> HIDE DEF Position
    <3>. QED
      BY <1>3, <2>2, <3>2, <3>3
  <2>6. Position(x) < Len(x.data)
    BY <1>3, <2>2, <2>5 DEF ReadAhead
  <2>7. c # EOF
    BY <1>2 DEF EOF
  <2>8. Sound(y, k)
    BY <1>2, <2>1, <2>2, <2>3 DEF Sound
  <2>9. GotByte(x, y, c)
    BY <1>2, <2>3, <2>4, <2>5, <2>6, <2>7 DEF GotByte
  <2>. QED
    BY <1>2, <2>2, <2>8, <2>9
<1>5. ~h.broken => ~k.broken
  <2>1. ~h.broken => ~(y.wlen > 0)
    BY <1>4
  <2>. QED
    BY <2>1, Zenon
<1>. QED
  BY <1>2, <1>4, <1>5 DEF StreamOK

LEMMA GetRefilled ==
  ASSUME NEW s \in Stream, NEW x, NEW h, StreamOK(s, x, h), x.open, x.ungot = None, x.rpos = x.rlen,
         NEW y, Refilled(s, x, y), NEW z, NEW c,
         \/ y.rpos >= y.rlen /\ z = y /\ c = EOF
         \/ y.rpos < y.rlen /\ z = [y EXCEPT !.rpos = @ + 1] /\ c = y.buf[y.rpos + 1],
         NEW k \in HistRec, k.exact = h.exact, k.last = "get", k.broken = (h.broken \/ z.wlen > 0)
  PROVE  /\ StreamOK(s, z, k) /\ z.open /\ c \in Nat \cup {EOF} /\ (~h.broken /\ k.broken => z.err)
         /\ ~k.broken => GotByte(x, z, c)
<1>1. x \in FileRec /\ h \in HistRec /\ Held(s, x) /\ (~h.broken => Sound(x, h))
  BY DEF StreamOK
<1>2. /\ x.rpos \in Nat /\ x.rlen \in Nat /\ x.off \in Nat /\ x.wlen \in Nat /\ x.pos \in Nat
      /\ x.bufcap \in Nat /\ Len(x.buf) \in Nat
  BY <1>1, FieldsOf
<1>3. /\ y \in FileRec /\ y.open /\ Held(s, y) /\ y.ungot = x.ungot /\ y.bufmode = x.bufmode
      /\ (x.err => y.err) /\ (y.wlen > 0 => y.err)
  BY DEF Refilled
<1>4. y.rpos \in Nat /\ y.rlen \in Nat /\ y.off \in Nat /\ y.wlen \in Nat /\ y.pos \in Nat /\ Len(y.data) \in Nat
  BY <1>3, FieldsOf
<1>5. ASSUME ~h.broken, y.wlen = 0
      PROVE  /\ y.data = Content(x) /\ y.off = x.off + x.wlen + (y.rlen - y.rpos)
             /\ y.rlen > y.rpos => ReadAhead(y) /\ y.err = x.err
             /\ y.rpos >= y.rlen => y.err \/ y.off >= Len(y.data)
             /\ h.exact => y.pos + y.rlen = y.off
             /\ Position(x) = x.off + x.wlen
  <2>1. Sound(x, h)
    BY <1>1, <1>5
  <2>2. Settled(x)
    BY <1>1, <1>2, <2>1 DEF Sound, Settled, Held
  <2>3. h.exact => x.pos + x.rlen = x.off
    BY <2>1 DEF Sound
  <2>4. Position(x) = x.off + x.wlen
    BY <1>2 DEF Position
  <2>. QED
    BY <1>5, <2>2, <2>3, <2>4 DEF Refilled
<1>6. CASE y.rpos >= y.rlen
  <2>1. z = y /\ c = EOF /\ y.rpos = y.rlen
    BY <1>3, <1>4, <1>6 DEF Held
  <2>2. ASSUME ~h.broken, y.wlen = 0
        PROVE  Sound(y, k) /\ GotByte(x, y, EOF)
    <3>1. Sound(y, k)
      BY <1>4, <1>5, <2>1, <2>2 DEF Sound
    <3>2. Content(y) = Content(x)
      BY <1>3, <1>5, <2>2, ContentOf
    <3>3. Position(y) = Position(x) /\ (Position(x) >= Len(Content(x)) \/ y.err)
      BY <1>2, <1>4, <1>5, <1>6, <2>1, <2>2 DEF Position
    <3>. QED
      BY <1>3, <3>1, <3>2, <3>3 DEF GotByte
  <2>3. y.wlen = 0 \/ y.wlen > 0
    BY <1>4
  <2>. QED
    BY <1>3, <2>1, <2>2, <2>3 DEF StreamOK
<1>7. CASE y.rpos < y.rlen
  <2>1. z = [y EXCEPT !.rpos = @ + 1] /\ c = y.buf[y.rpos + 1]
    BY <1>4, <1>7
  <2>2. /\ z \in FileRec /\ Held(s, z) /\ c \in Nat
        /\ z.open = y.open /\ z.err = y.err /\ z.bufmode = y.bufmode /\ z.buf = y.buf /\ z.bufcap = y.bufcap
        /\ z.rpos = y.rpos + 1 /\ z.rlen = y.rlen /\ z.wlen = y.wlen /\ z.pos = y.pos /\ z.ungot = y.ungot
        /\ z.data = y.data /\ z.off = y.off
        /\ ReadAhead(y) => ReadAhead(z) /\ c = y.data[y.off - (y.rlen - y.rpos) + 1]
    <3>1. TakeLike(s, y, z, c)
      BY <1>3, <1>7, <2>1, TakeOf
    <3>. QED
      BY <3>1 DEF TakeLike
  <2>3. ASSUME ~h.broken, y.wlen = 0
        PROVE  Sound(z, k) /\ GotByte(x, z, c)
    <3>1. ReadAhead(y) /\ y.err = x.err /\ y.data = Content(x) /\ Position(x) = y.off - (y.rlen - y.rpos)
      BY <1>2, <1>4, <1>5, <1>7, <2>3, SMTT(40)
    <3>2. ReadAhead(z) /\ c = y.data[Position(x) + 1]
      BY <2>2, <3>1
    <3>3. Sound(z, k)
      BY <1>4, <1>5, <2>2, <2>3, <3>2 DEF Sound
    <3>4. Content(z) = Content(x)
      BY <1>3, <2>2, <2>3, <3>1, ContentOf
    <3>5. Position(z) = Position(x) + 1
      BY <1>4, <2>2, <2>3, <3>1, SMTT(40) DEF Position
    <3>6. Position(x) < Len(Content(x))
      BY <1>4, <1>7, <3>1 DEF ReadAhead
    <3>7. c # EOF
      BY <2>2 DEF EOF
    <3>. QED
      BY <1>3, <2>2, <3>1, <3>2, <3>3, <3>4, <3>5, <3>6, <3>7 DEF GotByte
  <2>4. y.wlen = 0 \/ y.wlen > 0
    BY <1>4
  <2>. QED
    BY <1>3, <2>2, <2>3, <2>4 DEF StreamOK
<1>. QED
  BY <1>4, <1>6, <1>7

\* What getc makes of a stream, and what its program sees of it.
LEMMA GetStream ==
  ASSUME NEW s \in Stream, s = "file", NEW x, NEW h, StreamOK(s, x, h), x.open,
         NEW r, r = Fgetc(s, x), NEW k \in HistRec,
         k.exact = h.exact, k.last = "get", k.broken = (h.broken \/ (x.ungot = None /\ r.x.wlen > 0))
  PROVE  /\ StreamOK(s, r.x, k) /\ r.x.open /\ r.c \in Nat \cup {EOF} /\ (~h.broken /\ k.broken => r.x.err)
         /\ ~k.broken => GotByte(x, r.x, r.c)
<1>1. x \in FileRec /\ Held(s, x) /\ x.rpos \in Nat /\ x.rlen \in Nat
  BY FieldsOf DEF StreamOK
<1>2. PICK y : y = IF x.rpos >= x.rlen THEN Refill(s, x) ELSE x
  OBVIOUS
<1>3. r = CASE x.ungot # None -> [x |-> [x EXCEPT !.ungot = None], c |-> x.ungot]
            [] x.ungot = None /\ y.rpos >= y.rlen -> [x |-> y, c |-> EOF]
            [] OTHER -> [x |-> [y EXCEPT !.rpos = @ + 1], c |-> y.buf[y.rpos + 1]]
  BY <1>2, Zenon DEF Fgetc
<1>4. CASE x.ungot # None
  <2>1. r.x = [x EXCEPT !.ungot = None] /\ r.c = x.ungot
    BY <1>3, <1>4
  <2>2. k.broken = h.broken
    <3>1. h.broken \in BOOLEAN
      BY DEF StreamOK, HistRec
    <3>. QED
      BY <1>4, <3>1, Zenon
  <2>3. StreamOK(s, r.x, k) /\ r.x.open /\ GotByte(x, r.x, x.ungot) /\ x.ungot \in Nat
    BY <1>4, <2>1, <2>2, GetUngot
  <2>. QED
    BY <2>1, <2>2, <2>3
<1>5. CASE x.ungot = None /\ x.rpos < x.rlen
  <2>1. y = x /\ ~(x.rpos >= x.rlen)
    BY <1>1, <1>2, <1>5
  <2>2. r.x = [x EXCEPT !.rpos = @ + 1] /\ r.c = x.buf[x.rpos + 1]
    BY <1>3, <1>5, <2>1
  <2>3. k.broken = (h.broken \/ r.x.wlen > 0)
    BY <1>5
  <2>4. /\ StreamOK(s, r.x, k) /\ r.x.open /\ r.c \in Nat /\ (~h.broken => ~k.broken)
        /\ ~k.broken => GotByte(x, r.x, r.c)
    BY <1>5, <2>2, <2>3, GetAhead
  <2>. QED
    BY <2>4
<1>6. CASE x.ungot = None /\ ~(x.rpos < x.rlen)
  <2>1. x.rpos = x.rlen
    BY <1>1, <1>6 DEF Held
  <2>2. y = Refill(s, x)
    BY <1>1, <1>2, <2>1
  <2>3. Refilled(s, x, y)
    BY <1>1, <2>1, <2>2, RefillOf
  <2>4. y.rpos \in Nat /\ y.rlen \in Nat
    BY <2>3, FieldsOf DEF Refilled
  <2>5. \/ y.rpos >= y.rlen /\ r.x = y /\ r.c = EOF
        \/ y.rpos < y.rlen /\ r.x = [y EXCEPT !.rpos = @ + 1] /\ r.c = y.buf[y.rpos + 1]
    <3>1. CASE y.rpos >= y.rlen
      BY <1>3, <1>6, <3>1
    <3>2. CASE ~(y.rpos >= y.rlen)
      <4>1. r = [x |-> [y EXCEPT !.rpos = @ + 1], c |-> y.buf[y.rpos + 1]]
        BY <1>3, <1>6, <3>2
      <4>. QED
        BY <2>4, <3>2, <4>1
    <3>. QED
      BY <3>1, <3>2
  <2>6. k.broken = (h.broken \/ r.x.wlen > 0)
    BY <1>6
  <2>. QED
    BY <1>6, <2>1, <2>3, <2>5, <2>6, GetRefilled
<1>. QED
  BY <1>4, <1>5, <1>6

LEMMA FgetcInt ==
  ASSUME NEW s \in Stream, s = "file", NEW x, NEW h, StreamOK(s, x, h), x.open, NEW r, r = Fgetc(s, x)
  PROVE  r.c \in Nat \cup {EOF}
<1>1. PICK b \in BOOLEAN : b = (h.broken \/ (x.ungot = None /\ r.x.wlen > 0))
  OBVIOUS
<1>2. h.exact \in BOOLEAN
  BY DEF StreamOK, HistRec
<1>3. PICK k : k = [exact |-> h.exact, last |-> "get", res |-> [fn |-> "fgetc", val |-> 0], broken |-> b]
  OBVIOUS
<1>4. k \in HistRec /\ k.exact = h.exact /\ k.last = "get" /\ k.broken = b
  <2>1. k.res \in Outcome
    BY <1>3 DEF Outcome
  <2>2. k.exact \in BOOLEAN /\ k.broken \in BOOLEAN
    BY <1>2, <1>3
  <2>. QED
    BY <1>3, <2>1, <2>2 DEF HistRec
<1>5. k.broken = (h.broken \/ (x.ungot = None /\ r.x.wlen > 0))
  BY <1>1, <1>4, Zenon
<1>. QED
  BY <1>4, <1>5, GetStream
\* What flush_write makes of a stream, and what its program sees of it.
FlushSeen(s, x, h, f) ==
  /\ f \in FileRec /\ Held(s, f) /\ Alike(x, f) /\ f.open /\ f.wlen \in Nat /\ (f.wlen > 0 => f.err)
  /\ s = "console" => f.wlen = 0
  /\ ~h.broken /\ f.wlen = 0 =>
       /\ f.data = Content(x) /\ f.off = x.off + x.wlen /\ f.err = x.err
       /\ Content(f) = Content(x) /\ Position(f) = Position(x)
       /\ Sound(f, h)

LEMMA FlushStream ==
  ASSUME NEW s \in Stream, NEW x, NEW h, StreamOK(s, x, h), x.open, NEW f, f = FlushWrite(s, x)
  PROVE  FlushSeen(s, x, h, f)
<1>1. x \in FileRec /\ h \in HistRec /\ Held(s, x) /\ (~h.broken => Sound(x, h))
  BY DEF StreamOK
<1>2. /\ x.rpos \in Nat /\ x.rlen \in Nat /\ x.off \in Nat /\ x.wlen \in Nat /\ x.pos \in Nat
      /\ x.bufcap \in Nat /\ Len(x.buf) \in Nat
  BY <1>1, FieldsOf
<1>3. /\ f \in FileRec /\ Alike(x, f) /\ Held(s, f)
      /\ f.wlen \in {0, x.wlen} /\ (f.wlen > 0 => f.err)
      /\ s = "console" => f.wlen = 0
      /\ x.wlen = 0 => f = x
      /\ f.wlen = 0 /\ Settled(x) =>
           f.data = Content(x) /\ f.off = x.off + x.wlen /\ f.pos = x.pos + x.wlen /\ f.err = x.err
  BY <1>1, FlushOf DEF Settled
<1>4. f.open /\ f.rpos = x.rpos /\ f.rlen = x.rlen /\ f.bufmode = x.bufmode /\ f.buf = x.buf /\ f.bufcap = x.bufcap
  BY <1>3 DEF Alike
<1>5. ASSUME ~h.broken, f.wlen = 0
      PROVE  /\ f.data = Content(x) /\ f.off = x.off + x.wlen /\ f.err = x.err
             /\ Content(f) = Content(x) /\ Position(f) = Position(x)
             /\ Sound(f, h)
  <2>1. Sound(x, h)
    BY <1>1, <1>5
  <2>2. Settled(x)
    BY <1>1, <1>2, <2>1 DEF Sound, Settled, Held
  <2>3. f.data = Content(x) /\ f.off = x.off + x.wlen /\ f.pos = x.pos + x.wlen /\ f.err = x.err
    BY <1>3, <1>5, <2>2
  <2>4. Content(f) = f.data
    BY <1>3, <1>5, ContentOf
  <2>5. Position(f) = Position(x)
    BY <1>2, <1>4, <1>5, <2>3 DEF Position
  <2>6. Sound(f, h)
    <3>1. CASE x.wlen = 0
      BY <1>3, <2>1, <3>1
    <3>2. CASE x.wlen # 0
      <4>1. x.wlen > 0 /\ x.rpos = x.rlen
        BY <1>2, <2>1, <3>2 DEF Sound
      <4>2. h.exact => x.rlen = 0 /\ x.pos + x.rlen = x.off
        BY <2>1, <4>1 DEF Sound
      <4>3. h.exact => f.rlen = 0 /\ f.pos + f.rlen = f.off
        BY <1>2, <1>4, <2>3, <4>2
      <4>. QED
        BY <1>2, <1>4, <1>5, <4>1, <4>3 DEF Sound
    <3>. QED
      BY <3>1, <3>2
  <2>. QED
    BY <2>3, <2>4, <2>5, <2>6
<1>6. f.wlen \in Nat
  BY <1>2, <1>3
<1>. QED
  BY <1>3, <1>4, <1>5, <1>6 DEF FlushSeen

\* Sound is about what the history says of the position, and of the last transfer.
LEMMA SameHistory ==
  ASSUME NEW x, NEW h, NEW k, k.exact = h.exact, k.last = h.last, Sound(x, h)
  PROVE  Sound(x, k)
BY DEF Sound

\* How far the descriptor is ahead of the program.
LEMMA AheadOf ==
  ASSUME NEW s \in Stream, NEW x \in FileRec, Held(s, x)
  PROVE  /\ x.rlen - x.rpos \in 0 .. Largest
         /\ Position(x) = x.off + x.wlen - (x.rlen - x.rpos)
<1>1. /\ x.rpos \in Nat /\ x.rlen \in Nat /\ x.bufcap \in Nat /\ x.buf \in Seq(Nat) /\ Len(x.buf) \in Nat
  BY FieldsOf
<1>2. x.rlen <= Largest
  <2>1. CASE x.buf = <<>>
    <3>1. x.rlen = 0
      BY <1>1, <2>1 DEF Held
    <3>. QED
      BY <3>1, Bounds
  <2>2. CASE x.buf # <<>>
    <3>1. x.rlen <= x.bufcap /\ x.bufcap <= Largest
      BY <2>2 DEF Held
    <3>. QED
      BY <1>1, <3>1, Bounds
  <2>. QED
    BY <2>1, <2>2
<1>. QED
  BY <1>1, <1>2, Bounds DEF Held, Position
-----------------------------------------------------------------------------
(* Steps of the program, as the stream's program sees them.                  *)

Bytes(s) == INSTANCE ByteStream WITH
  Ahead <- Largest, Standard <- s = "console", data <- Content(st[s]), at <- Position(st[s]),
  back <- st[s].ungot, last <- hist[s].last, exact <- hist[s].exact,
  err <- st[s].err, broken <- hist[s].broken, res <- hist[s].res

Sees(s) == Bytes(s)!Next \/ UNCHANGED Bytes(s)!vars

LEMMA StreamsKnown ==
  ASSUME StdioInv, NEW s \in Stream
  PROVE  StreamOK(s, st[s], hist[s]) /\ st[s] \in FileRec /\ hist[s] \in HistRec
BY DEF StdioInv, StreamOK

LEMMA Becoming ==
  ASSUME StdioInv, NEW s \in Stream, NEW y, NEW k, Becomes(s, y, k)
  PROVE  /\ st'[s] = y /\ hist'[s] = k
         /\ \A t \in Stream : t # s => st'[t] = st[t] /\ hist'[t] = hist[t]
BY DEF StdioInv, Becomes

LEMMA NotSeen ==
  ASSUME NEW s \in Stream, st'[s] = st[s], hist'[s] = hist[s]
  PROVE  Sees(s)
<1>1. /\ Content(st[s])' = Content(st[s]) /\ Position(st[s])' = Position(st[s])
  OBVIOUS
<1>. QED
  BY <1>1 DEF Sees, Bytes!vars

\* One stream changes, and the call is over or in its loop.
LEMMA Focus ==
  ASSUME StdioInv, NEW s \in Stream, NEW y, NEW k, Becomes(s, y, k), StreamOK(s, y, k),
         s = "console" => y.open, CallOK', ops' \in 0 .. MaxOps, UNCHANGED <<down, faults, exited>>, Sees(s)
  PROVE  StdioInv' /\ \A t \in Stream : Sees(t)
<1>1. /\ st'[s] = y /\ hist'[s] = k
      /\ \A t \in Stream : t # s => st'[t] = st[t] /\ hist'[t] = hist[t]
  BY Becoming
<1>2. y \in FileRec /\ k \in HistRec
  BY DEF StreamOK
<1>3. st' \in [Stream -> FileRec] /\ hist' \in [Stream -> HistRec]
  BY <1>2 DEF StdioInv, Becomes
<1>4. \A t \in Stream : StreamOK(t, st'[t], hist'[t])
  BY <1>1 DEF StdioInv
<1>5. exited' \/ st'["console"].open
  <2>1. "console" \in Stream /\ (exited \/ st["console"].open)
    BY DEF Stream, StdioInv
  <2>. QED
    BY <1>1, <2>1
<1>6. StdioInv'
  BY <1>3, <1>4, <1>5 DEF StdioInv
<1>7. \A t \in Stream : Sees(t)
  BY <1>1, NotSeen
<1>. QED
  BY <1>6, <1>7

LEMMA CountedOf ==
  ASSUME StdioInv, ops < MaxOps, Counted
  PROVE  CallOK' /\ ops' \in 0 .. MaxOps /\ UNCHANGED <<down, faults, exited>>
BY Bounds DEF StdioInv, Counted, CallOK

\* fputc, whoever calls it.
LEMMA PutcStep ==
  ASSUME StdioInv, NEW s \in Stream, st[s].open, NEW c \in Byte, Putc(s, c),
         CallOK', ops' \in 0 .. MaxOps, UNCHANGED <<down, faults, exited>>
  PROVE  StdioInv' /\ \A t \in Stream : Sees(t)
<1>1. PICK x, h : x = st[s] /\ h = hist[s]
  OBVIOUS
<1>2. StreamOK(s, x, h) /\ x.open /\ x \in FileRec /\ h \in HistRec
  BY <1>1, StreamsKnown
<1>3. PICK r : r = Fputc(s, x, c)
  OBVIOUS
<1>4. PICK k : k = [exact |-> h.exact /\ h.last # "get", last |-> "put", res |-> Res("fputc", r.c),
                    broken |-> h.broken \/ ((h.last = "get" /\ ~h.exact) \/ Position(x) > Len(Content(x))) \/ r.c = EOF]
  OBVIOUS
<1>5. Becomes(s, r.x, k)
  BY <1>1, <1>3, <1>4, Zenon DEF Putc
<1>6. /\ k.exact = (h.exact /\ h.last # "get") /\ k.last = "put"
      /\ k.broken = (h.broken \/ (h.last = "get" /\ ~h.exact) \/ Position(x) > Len(Content(x)) \/ r.c = EOF)
      /\ k.res = Res("fputc", r.c)
  BY <1>4
<1>7. r.c \in {c, EOF} /\ c \in Nat
  <2>1. PICK e \in BOOLEAN : e = (h.exact /\ h.last # "get")
    OBVIOUS
  <2>2. PICK y : y = Dropped(x)
    OBVIOUS
  <2>3. Held(s, x)
    BY <1>2 DEF StreamOK
  <2>4. Taken(s, y, r.x, c, r.c, e)
    BY <1>2, <1>3, <2>1, <2>3, <2>2, PutOf
  <2>. QED
    BY <2>4, Bounds DEF Taken
<1>8. k \in HistRec
  <2>1. PICK o : o = Res("fputc", r.c)
    OBVIOUS
  <2>2. PICK e \in BOOLEAN, b \in BOOLEAN : k = [exact |-> e, last |-> "put", res |-> o, broken |-> b]
    BY <1>4, <2>1
  <2>3. o \in Outcome
    BY <1>7, <2>1 DEF Outcome, Res, EOF
  <2>. QED
    BY <2>2, <2>3 DEF HistRec
<1>9. k.res.fn = "fputc" /\ k.res.val = r.c
  BY <1>6 DEF Res
<1>10. /\ StreamOK(s, r.x, k) /\ r.x.open /\ (r.c = EOF => r.x.err)
       /\ ~k.broken => /\ Position(x) <= Len(Content(x)) /\ Content(r.x) = Splice(Content(x), Position(x), <<c>>)
                       /\ Position(r.x) = Position(x) + 1 /\ r.x.ungot = None /\ r.x.err = x.err
  BY <1>2, <1>3, <1>6, <1>8, PutStream
<1>11. st'[s] = r.x /\ hist'[s] = k
  BY <1>5, Becoming
<1>12. Sees(s)
  <2>1. CASE ~k.broken
    <3>1. r.c # EOF /\ ~h.broken
      BY <1>6, <2>1
    <3>2. Bytes(s)!Put
      <4>1. Bytes(s)!Overlay(Content(x), Position(x), <<c>>) = Splice(Content(x), Position(x), <<c>>)
        BY DEF Bytes!Overlay, Splice
      <4>2. k.broken = h.broken
        BY <1>2, <1>8, <2>1, <3>1 DEF HistRec
      <4>3. /\ Content(st[s])' = Bytes(s)!Overlay(Content(st[s]), Position(st[s]), <<c>>)
            /\ Position(st[s])' = Position(st[s]) + 1 /\ Position(st[s]) <= Len(Content(st[s]))
            /\ st'[s].ungot = None /\ st'[s].err = st[s].err
        BY <1>1, <1>10, <1>11, <2>1, <4>1
      <4>4. /\ hist'[s].res.fn = "fputc" /\ hist'[s].res.val = c /\ c # EOF
            /\ hist'[s].last = "put" /\ hist'[s].exact = (hist[s].exact /\ hist[s].last # "get")
            /\ hist'[s].broken = hist[s].broken
        BY <1>1, <1>6, <1>7, <1>11, <1>9, <3>1, <4>2
      <4>. QED
        BY <4>3, <4>4 DEF Bytes!Put, Bytes!None, Bytes!EOF, None, EOF
    <3>. QED
      BY <3>2 DEF Sees, Bytes!Next
  <2>2. CASE h.broken
    BY <1>1, <2>2 DEF Sees, Bytes!Next
  <2>3. CASE h.last = "get" /\ ~h.exact
    <3>1. Bytes(s)!Blind
      <4>1. k.broken
        BY <1>6, <2>3, Zenon
      <4>. QED
        BY <1>1, <1>11, <1>9, <2>3, <4>1 DEF Bytes!Blind
    <3>. QED
      BY <3>1 DEF Sees, Bytes!Next
  <2>4. CASE Position(x) > Len(Content(x))
    <3>1. Bytes(s)!Hole
      <4>1. k.broken
        BY <1>6, <2>4, Zenon
      <4>. QED
        BY <1>1, <1>11, <1>9, <2>4, <4>1 DEF Bytes!Hole
    <3>. QED
      BY <3>1 DEF Sees, Bytes!Next
  <2>5. CASE r.c = EOF
    <3>1. Bytes(s)!Fault
      <4>1. k.broken
        BY <1>6, <2>5, Zenon
      <4>. QED
        BY <1>10, <1>11, <2>5, <4>1 DEF Bytes!Fault
    <3>. QED
      BY <3>1 DEF Sees, Bytes!Next
  <2>. QED
    BY <1>6, <2>1, <2>2, <2>3, <2>4, <2>5
<1>. QED
  BY <1>5, <1>10, <1>12, Focus

\* fgetc, whoever calls it: what comes out of it is what there was to read.
LEMMA GetcFacts ==
  ASSUME StdioInv, NEW s \in Stream, s = "file", st[s].open, Getc(s)
  PROVE  /\ Becomes(s, st'[s], hist'[s]) /\ StreamOK(s, st'[s], hist'[s]) /\ st'[s].open
         /\ hist'[s].exact = hist[s].exact /\ hist'[s].last = "get"
         /\ \E c \in Nat \cup {EOF} : /\ hist'[s].res = [fn |-> "fgetc", val |-> c]
                                      /\ ~hist'[s].broken => GotByte(st[s], st'[s], c)
         /\ ~hist'[s].broken => ~hist[s].broken
         /\ ~hist[s].broken /\ hist'[s].broken => st'[s].err
<1>1. PICK x, h : x = st[s] /\ h = hist[s]
  OBVIOUS
<1>2. StreamOK(s, x, h) /\ x.open /\ x \in FileRec /\ h \in HistRec
  BY <1>1, StreamsKnown
<1>3. PICK r : r = Fgetc(s, x)
  OBVIOUS
<1>4. PICK b \in BOOLEAN : b = (h.broken \/ (x.ungot = None /\ r.x.wlen > 0))
  OBVIOUS
<1>5. PICK k : k = [exact |-> h.exact, last |-> "get", res |-> Res("fgetc", r.c), broken |-> b]
  OBVIOUS
<1>6. Becomes(s, r.x, k)
  BY <1>1, <1>3, <1>4, <1>5, Zenon DEF Getc
<1>7. k.exact = h.exact /\ k.last = "get" /\ k.broken = b /\ k.res = [fn |-> "fgetc", val |-> r.c]
  BY <1>5 DEF Res
<1>8. r.c \in Nat \cup {EOF}
  BY <1>1, <1>2, <1>3, FgetcInt
<1>9. k \in HistRec
  <2>1. Res("fgetc", r.c) \in Outcome
    BY <1>8 DEF Outcome, Res, EOF
  <2>. QED
    BY <1>2, <1>5, <2>1 DEF HistRec
<1>10. /\ StreamOK(s, r.x, k) /\ r.x.open /\ (~h.broken /\ k.broken => r.x.err)
       /\ ~k.broken => GotByte(x, r.x, r.c)
  <2>1. k.broken = (h.broken \/ (x.ungot = None /\ r.x.wlen > 0))
    BY <1>4, <1>7, Zenon
  <2>. QED
    BY <1>2, <1>3, <1>7, <1>9, <2>1, GetStream
<1>11. st'[s] = r.x /\ hist'[s] = k
  BY <1>6, Becoming
<1>12. ~k.broken => ~h.broken
  BY <1>4, <1>7, Zenon
<1>. QED
  BY <1>1, <1>6, <1>7, <1>8, <1>10, <1>11, <1>12

LEMMA GetcStep ==
  ASSUME StdioInv, NEW s \in Stream, s = "file", st[s].open, Getc(s),
         CallOK', ops' \in 0 .. MaxOps, UNCHANGED <<down, faults, exited>>
  PROVE  StdioInv' /\ \A t \in Stream : Sees(t)
<1>1. PICK x, h, y, k : x = st[s] /\ h = hist[s] /\ y = st'[s] /\ k = hist'[s]
  OBVIOUS
<1>2. h \in HistRec
  BY <1>1, StreamsKnown
<1>3. /\ Becomes(s, y, k) /\ StreamOK(s, y, k) /\ y.open /\ k.exact = h.exact /\ k.last = "get"
      /\ ~k.broken => ~h.broken
      /\ ~h.broken /\ k.broken => y.err
  BY <1>1, GetcFacts
<1>4. PICK c \in Nat \cup {EOF} : k.res = [fn |-> "fgetc", val |-> c] /\ (~k.broken => GotByte(x, y, c))
  BY <1>1, GetcFacts
<1>5. k \in HistRec
  BY <1>3 DEF StreamOK
<1>6. Sees(s)
  <2>1. CASE ~k.broken /\ c # EOF
    <3>1. GotByte(x, y, c)
      BY <1>4, <2>1
    <3>2. Bytes(s)!Get
      <4>1. k.broken = h.broken
        BY <1>2, <1>3, <1>5, <2>1 DEF HistRec
      <4>2. /\ Content(st[s])' = Content(st[s]) /\ st'[s].ungot = None
            /\ st'[s].err = st[s].err
            /\ IF st[s].ungot # None THEN c = st[s].ungot /\ Position(st[s])' = Position(st[s])
               ELSE /\ Position(st[s]) < Len(Content(st[s])) /\ c = Content(st[s])[Position(st[s]) + 1]
                    /\ Position(st[s])' = Position(st[s]) + 1
        BY <1>1, <2>1, <3>1 DEF GotByte
      <4>3. /\ hist'[s].res = [fn |-> "fgetc", val |-> c] /\ hist'[s].last = "get"
            /\ hist'[s].exact = hist[s].exact /\ hist'[s].broken = hist[s].broken
        BY <1>1, <1>3, <1>4, <4>1
      <4>. QED
        BY <2>1, <4>2, <4>3 DEF Bytes!Get, Bytes!None, Bytes!EOF, None, EOF
    <3>. QED
      BY <3>2 DEF Sees, Bytes!Next
  <2>2. CASE ~k.broken /\ c = EOF
    <3>1. GotByte(x, y, c)
      BY <1>4, <2>2
    <3>2. Bytes(s)!GetNothing
      <4>1. k.broken = h.broken
        BY <1>2, <1>3, <1>5, <2>2 DEF HistRec
      <4>2. /\ Content(st[s])' = Content(st[s]) /\ st'[s].ungot = None
            /\ st[s].ungot = None /\ Position(st[s])' = Position(st[s])
            /\ Position(st[s]) >= Len(Content(st[s])) \/ st'[s].err
            /\ st[s].err => st'[s].err
        BY <1>1, <2>2, <3>1 DEF GotByte
      <4>3. /\ hist'[s].res = [fn |-> "fgetc", val |-> c] /\ hist'[s].last = "get"
            /\ hist'[s].exact = hist[s].exact /\ hist'[s].broken = hist[s].broken
        BY <1>1, <1>3, <1>4, <4>1
      <4>. QED
        BY <2>2, <4>2, <4>3 DEF Bytes!GetNothing, Bytes!None, Bytes!EOF, None, EOF
    <3>. QED
      BY <3>2 DEF Sees, Bytes!Next
  <2>3. CASE h.broken
    BY <1>1, <2>3 DEF Sees, Bytes!Next
  <2>4. CASE k.broken /\ ~h.broken
    <3>1. Bytes(s)!Fault
      BY <1>1, <1>3, <2>4 DEF Bytes!Fault
    <3>. QED
      BY <3>1 DEF Sees, Bytes!Next
  <2>. QED
    BY <2>1, <2>2, <2>3, <2>4
<1>. QED
  BY <1>3, <1>6, Focus
\* A call that leaves stream y, its result and what the history says of the position.
Flushing == {"fseek", "fflush", "fclose"}

LEMMA AfterIs ==
  ASSUME StdioInv, NEW s \in Stream, NEW y, NEW f, NEW v, NEW e, NEW l, After(s, y, f, v, e, l)
  PROVE  /\ st'[s] = y /\ hist'[s].exact = e /\ hist'[s].last = l /\ hist'[s].res = [fn |-> f, val |-> v]
         /\ hist'[s].broken = (hist[s].broken \/ (f \in Flushing /\ y.wlen > 0))
<1>1. PICK b : b = (hist[s].broken \/ (f \in Flushing /\ y.wlen > 0))
  OBVIOUS
<1>2. PICK k : k = [exact |-> e, last |-> l, res |-> [fn |-> f, val |-> v], broken |-> b]
  OBVIOUS
<1>3. Becomes(s, y, k)
  BY <1>1, <1>2, Zenon DEF After, Res, Flushing
<1>4. st'[s] = y /\ hist'[s] = k
  BY <1>3, Becoming
<1>. QED
  BY <1>1, <1>2, <1>4

LEMMA AfterStep ==
  ASSUME StdioInv, NEW s \in Stream, NEW y \in FileRec, NEW f, NEW v \in Int, NEW e \in BOOLEAN,
         NEW l \in {"none", "get", "put"}, [fn |-> f, val |-> v] \in Outcome,
         After(s, y, f, v, e, l), ops < MaxOps, Counted, Sees(s),
         y.open => Held(s, y), s = "console" => y.open,
         NEW g, g.exact = e, g.last = l,
         ~hist[s].broken /\ ~(f \in Flushing /\ y.wlen > 0) => IF y.open THEN Sound(y, g) ELSE y.buf = <<>>
  PROVE  StdioInv' /\ \A t \in Stream : Sees(t)
<1>1. PICK b \in BOOLEAN : b = (hist[s].broken \/ (f \in Flushing /\ y.wlen > 0))
  <2>1. hist[s].broken \in BOOLEAN
    BY StreamsKnown DEF HistRec
  <2>. QED
    OBVIOUS
<1>2. PICK k : k = [exact |-> e, last |-> l, res |-> [fn |-> f, val |-> v], broken |-> b]
  OBVIOUS
<1>3. Becomes(s, y, k)
  BY <1>1, <1>2, Zenon DEF After, Res, Flushing
<1>4. k \in HistRec /\ k.exact = e /\ k.last = l /\ k.broken = b
  BY <1>2 DEF HistRec
<1>5. y.open /\ Sound(y, g) => Sound(y, k)
  BY <1>4, SameHistory
<1>6. ~k.broken => IF y.open THEN Sound(y, k) ELSE y.buf = <<>>
  <2>1. ~k.broken => ~hist[s].broken /\ ~(f \in Flushing /\ y.wlen > 0)
    BY <1>1, <1>4, Zenon
  <2>. QED
    BY <1>5, <2>1, Zenon
<1>7. StreamOK(s, y, k)
  BY <1>4, <1>6 DEF StreamOK
<1>8. CallOK' /\ ops' \in 0 .. MaxOps /\ UNCHANGED <<down, faults, exited>>
  BY CountedOf
<1>. QED
  BY <1>3, <1>7, <1>8, Focus

LEMMA CallFputcStep ==
  ASSUME StdioInv, NEW s \in Stream, NEW c \in Byte, CallFputc(s, c)
  PROVE  StdioInv' /\ \A t \in Stream : Sees(t)
<1>1. st[s].open /\ ops < MaxOps /\ Putc(s, c) /\ Counted
  BY DEF CallFputc, Free
<1>2. CallOK' /\ ops' \in 0 .. MaxOps /\ UNCHANGED <<down, faults, exited>>
  BY <1>1, CountedOf
<1>. QED
  BY <1>1, <1>2, PutcStep

LEMMA CallFgetcStep ==
  ASSUME StdioInv, NEW s \in Stream, CallFgetc(s)
  PROVE  StdioInv' /\ \A t \in Stream : Sees(t)
<1>1. st[s].open /\ ops < MaxOps /\ s = "file" /\ Getc(s) /\ Counted
  BY DEF CallFgetc, Free
<1>2. CallOK' /\ ops' \in 0 .. MaxOps /\ UNCHANGED <<down, faults, exited>>
  BY <1>1, CountedOf
<1>. QED
  BY <1>1, <1>2, GetcStep

LEMMA UngetcStep ==
  ASSUME StdioInv, NEW s \in Stream, NEW c \in Byte, Ungetc(s, c)
  PROVE  StdioInv' /\ \A t \in Stream : Sees(t)
<1>1. PICK x, h : x = st[s] /\ h = hist[s]
  OBVIOUS
<1>2. x.open /\ ops < MaxOps /\ Counted
  BY <1>1 DEF Ungetc, Free
<1>3. StreamOK(s, x, h) /\ x \in FileRec /\ h \in HistRec /\ Held(s, x) /\ (~h.broken => Sound(x, h))
  BY <1>1, <1>2, StreamsKnown DEF StreamOK
<1>4. h.exact \in BOOLEAN /\ h.last \in {"none", "get", "put"} /\ c \in Nat /\ c # EOF /\ EOF \in Int
  BY <1>3, Bounds DEF HistRec, EOF
<1>5. CASE x.ungot # None
  <2>1. After(s, x, "ungetc", EOF, h.exact, h.last)
    BY <1>1, <1>5, Zenon DEF Ungetc
  <2>2. /\ st'[s] = x /\ hist'[s].exact = h.exact /\ hist'[s].last = h.last /\ hist'[s].res = [fn |-> "ungetc", val |-> EOF]
        /\ hist'[s].broken = (hist[s].broken \/ ("ungetc" \in Flushing /\ x.wlen > 0))
    BY <2>1, AfterIs, Zenon
  <2>3. hist'[s].broken = h.broken
    BY <1>1, <1>3, <2>2 DEF Flushing, HistRec
  <2>4. Bytes(s)!Unget
    BY <1>1, <1>5, <2>2, <2>3 DEF Bytes!Unget, Bytes!None, Bytes!EOF, None, EOF
  <2>5. Sees(s)
    BY <2>4 DEF Sees, Bytes!Next
  <2>6. [fn |-> "ungetc", val |-> EOF] \in Outcome
    BY <1>4 DEF Outcome
  <2>. QED
    BY <1>1, <1>2, <1>3, <1>4, <2>1, <2>5, <2>6, AfterStep
<1>6. CASE x.ungot = None
  <2>1. PICK y : y = [x EXCEPT !.ungot = c, !.eof = FALSE]
    OBVIOUS
  <2>2. After(s, y, "ungetc", c, h.exact, h.last)
    BY <1>1, <1>6, <2>1, Zenon DEF Ungetc
  <2>3. y \in FileRec
    <3>1. c \in Byte \cup {None} /\ FALSE \in BOOLEAN
      OBVIOUS
    <3>. QED
      BY <1>3, <2>1, <3>1, Zenon DEF FileRec
  <2>4. /\ y.open = x.open /\ y.err = x.err /\ y.bufmode = x.bufmode /\ y.buf = x.buf /\ y.bufcap = x.bufcap
        /\ y.rpos = x.rpos /\ y.rlen = x.rlen /\ y.wlen = x.wlen /\ y.pos = x.pos /\ y.ungot = c
        /\ y.data = x.data /\ y.off = x.off /\ y.mscap = x.mscap
    BY <1>3, <2>1 DEF FileRec
  <2>5. Content(y) = Content(x) /\ Position(y) = Position(x)
    BY <2>4 DEF Content, Pending, Position
  <2>6. Held(s, y) /\ (~h.broken => Sound(y, h))
    BY <1>3, <2>4 DEF Held, Sound, ReadAhead
  <2>7. /\ st'[s] = y /\ hist'[s].exact = h.exact /\ hist'[s].last = h.last /\ hist'[s].res = [fn |-> "ungetc", val |-> c]
        /\ hist'[s].broken = (h.broken \/ ("ungetc" \in Flushing /\ y.wlen > 0))
    BY <1>1, <2>2, AfterIs
  <2>8. hist'[s].broken = h.broken
    BY <1>3, <2>7 DEF Flushing, HistRec
  <2>9. Bytes(s)!Unget
    <3>1. /\ Content(st[s])' = Content(st[s]) /\ Position(st[s])' = Position(st[s])
          /\ st'[s].ungot = c /\ st'[s].err = st[s].err /\ st[s].ungot = None
      BY <1>1, <1>6, <2>4, <2>5, <2>7
    <3>. QED
      BY <1>1, <1>4, <2>7, <2>8, <3>1 DEF Bytes!Unget, Bytes!None, Bytes!EOF, None, EOF
  <2>10. Sees(s)
    BY <2>9 DEF Sees, Bytes!Next
  <2>11. [fn |-> "ungetc", val |-> c] \in Outcome /\ c \in Int /\ y.open
    BY <1>2, <1>4, <2>4 DEF Outcome
  <2>. QED
    BY <1>1, <1>2, <1>3, <1>4, <2>2, <2>3, <2>6, <2>10, <2>11, AfterStep
<1>. QED
  BY <1>5, <1>6

LEMMA FtellStep ==
  ASSUME StdioInv, NEW s \in Stream, Ftell(s)
  PROVE  StdioInv' /\ \A t \in Stream : Sees(t)
<1>1. PICK x, h, v : x = st[s] /\ h = hist[s] /\ v = x.pos + (IF x.wlen > 0 THEN x.wlen ELSE x.rpos)
  OBVIOUS
<1>2. x.open /\ ops < MaxOps /\ Counted
  BY <1>1 DEF Ftell, Free
<1>3. StreamOK(s, x, h) /\ x \in FileRec /\ h \in HistRec /\ Held(s, x) /\ (~h.broken => Sound(x, h))
  BY <1>1, <1>2, StreamsKnown DEF StreamOK
<1>4. /\ x.pos \in Nat /\ x.wlen \in Nat /\ x.rpos \in Nat /\ x.rlen \in Nat /\ x.off \in Nat
  BY <1>3, FieldsOf
<1>5. h.exact \in BOOLEAN /\ h.last \in {"none", "get", "put"} /\ v \in Int
  BY <1>1, <1>3, <1>4 DEF HistRec
<1>6. After(s, x, "ftell", v, h.exact, h.last)
  BY <1>1, Zenon DEF Ftell
<1>7. /\ st'[s] = x /\ hist'[s].exact = h.exact /\ hist'[s].last = h.last /\ hist'[s].res = [fn |-> "ftell", val |-> v]
      /\ hist'[s].broken = (h.broken \/ ("ftell" \in Flushing /\ x.wlen > 0))
  BY <1>1, <1>6, AfterIs
<1>8. hist'[s].broken = h.broken
  BY <1>3, <1>7 DEF Flushing, HistRec
<1>9. ~h.broken /\ h.exact => v = Position(x)
  <2> SUFFICES ASSUME ~h.broken, h.exact
               PROVE  v = Position(x)
    OBVIOUS
  <2>1. x.pos + x.rlen = x.off /\ (x.wlen > 0 => x.rlen = 0)
    BY <1>3 DEF Sound
  <2>2. x.rpos <= x.rlen
    BY <1>3 DEF Held
  <2>. QED
    BY <1>1, <1>4, <2>1, <2>2 DEF Position
<1>10. Sees(s)
  <2>1. CASE h.broken
    BY <1>1, <2>1 DEF Sees, Bytes!Next
  <2>2. CASE ~h.broken
    <3>1. Bytes(s)!Tell
      BY <1>1, <1>7, <1>8, <1>9, <2>2 DEF Bytes!Tell
    <3>. QED
      BY <3>1 DEF Sees, Bytes!Next
  <2>. QED
    BY <2>1, <2>2
<1>11. [fn |-> "ftell", val |-> v] \in Outcome
  BY <1>5 DEF Outcome
<1>. QED
  BY <1>1, <1>2, <1>3, <1>5, <1>6, <1>10, <1>11, AfterStep
LEMMA ClearerrStep ==
  ASSUME StdioInv, NEW s \in Stream, Clearerr(s)
  PROVE  StdioInv' /\ \A t \in Stream : Sees(t)
<1>1. PICK x, h, y : x = st[s] /\ h = hist[s] /\ y = [x EXCEPT !.err = FALSE, !.eof = FALSE]
  OBVIOUS
<1>2. x.open /\ ops < MaxOps /\ Counted
  BY <1>1 DEF Clearerr, Free
<1>3. StreamOK(s, x, h) /\ x \in FileRec /\ h \in HistRec /\ Held(s, x) /\ (~h.broken => Sound(x, h))
  BY <1>1, <1>2, StreamsKnown DEF StreamOK
<1>4. h.exact \in BOOLEAN /\ h.last \in {"none", "get", "put"}
  BY <1>3 DEF HistRec
<1>5. After(s, y, "clearerr", 0, h.exact, h.last)
  BY <1>1, Zenon DEF Clearerr
<1>6. y \in FileRec
  BY <1>1, <1>3, Zenon DEF FileRec
<1>7. /\ y.open = x.open /\ y.err = FALSE /\ y.bufmode = x.bufmode /\ y.buf = x.buf /\ y.bufcap = x.bufcap
      /\ y.rpos = x.rpos /\ y.rlen = x.rlen /\ y.wlen = x.wlen /\ y.pos = x.pos /\ y.ungot = x.ungot
      /\ y.data = x.data /\ y.off = x.off /\ y.mscap = x.mscap
  BY <1>1, <1>3 DEF FileRec
<1>8. Content(y) = Content(x) /\ Position(y) = Position(x)
  BY <1>7 DEF Content, Pending, Position
<1>9. Held(s, y) /\ (~h.broken => Sound(y, h)) /\ y.open
  BY <1>2, <1>3, <1>7 DEF Held, Sound, ReadAhead
<1>10. /\ st'[s] = y /\ hist'[s].exact = h.exact /\ hist'[s].last = h.last /\ hist'[s].res = [fn |-> "clearerr", val |-> 0]
       /\ hist'[s].broken = (hist[s].broken \/ ("clearerr" \in Flushing /\ y.wlen > 0))
  BY <1>5, AfterIs, Zenon
<1>11. hist'[s].broken = h.broken
  BY <1>1, <1>3, <1>10 DEF Flushing, HistRec
<1>12. Bytes(s)!Quiet
  BY <1>1, <1>7, <1>8, <1>10, <1>11 DEF Bytes!Quiet
<1>13. Sees(s)
  BY <1>12 DEF Sees, Bytes!Next
<1>14. [fn |-> "clearerr", val |-> 0] \in Outcome
  BY DEF Outcome
<1>15. ~hist[s].broken /\ ~("clearerr" \in Flushing /\ y.wlen > 0) => IF y.open THEN Sound(y, h) ELSE y.buf = <<>>
  BY <1>1, <1>9
<1>16. 0 \in Int
  OBVIOUS
<1>. QED
  BY <1>2, <1>4, <1>5, <1>6, <1>9, <1>13, <1>14, <1>15, <1>16, AfterStep, Zenon

LEMMA FflushStep ==
  ASSUME StdioInv, NEW s \in Stream, Fflush(s)
  PROVE  StdioInv' /\ \A t \in Stream : Sees(t)
<1>1. PICK x, h, y, v : x = st[s] /\ h = hist[s] /\ y = FlushWrite(s, x) /\ v = IF y.wlen > 0 THEN EOF ELSE 0
  OBVIOUS
<1>2. x.open /\ ops < MaxOps /\ Counted
  BY <1>1 DEF Fflush, Free
<1>3. StreamOK(s, x, h) /\ h \in HistRec /\ FlushSeen(s, x, h, y)
  BY <1>1, <1>2, StreamsKnown, FlushStream
<1>4. h.exact \in BOOLEAN /\ h.last \in {"none", "get", "put"} /\ v \in Int
  BY <1>1, <1>3 DEF HistRec, EOF
<1>5. After(s, y, "fflush", v, h.exact, h.last)
  BY <1>1, Zenon DEF Fflush
<1>6. /\ y \in FileRec /\ Held(s, y) /\ Alike(x, y) /\ y.open /\ y.wlen \in Nat /\ (y.wlen > 0 => y.err)
      /\ ~h.broken /\ y.wlen = 0 =>
           /\ y.err = x.err /\ Content(y) = Content(x) /\ Position(y) = Position(x) /\ Sound(y, h)
  BY <1>3 DEF FlushSeen
<1>7. /\ st'[s] = y /\ hist'[s].exact = h.exact /\ hist'[s].last = h.last /\ hist'[s].res = [fn |-> "fflush", val |-> v]
      /\ hist'[s].broken = (hist[s].broken \/ ("fflush" \in Flushing /\ y.wlen > 0))
  BY <1>5, AfterIs, Zenon
<1>8. hist'[s].broken <=> h.broken \/ y.wlen > 0
  BY <1>1, <1>7 DEF Flushing
<1>9. Sees(s)
  <2>1. CASE h.broken
    BY <1>1, <2>1 DEF Sees, Bytes!Next
  <2>2. CASE y.wlen > 0
    <3>1. Bytes(s)!Fault
      BY <1>6, <1>7, <1>8, <2>2 DEF Bytes!Fault
    <3>. QED
      BY <3>1 DEF Sees, Bytes!Next
  <2>3. CASE ~h.broken /\ y.wlen = 0
    <3>1. hist'[s].broken = hist[s].broken
      <4>1. hist'[s].broken \in BOOLEAN /\ ~(y.wlen > 0)
        BY <1>7, <2>3
      <4>. QED
        BY <1>1, <1>3, <1>8, <2>3, <4>1 DEF HistRec
    <3>2. y.ungot = x.ungot /\ v = 0
      BY <1>1, <1>6, <2>3 DEF Alike
    <3>3. Bytes(s)!Quiet
      BY <1>1, <1>6, <1>7, <2>3, <3>1, <3>2 DEF Bytes!Quiet
    <3>. QED
      BY <3>3 DEF Sees, Bytes!Next
  <2>. QED
    BY <1>6, <2>1, <2>2, <2>3
<1>10. [fn |-> "fflush", val |-> v] \in Outcome
  BY <1>4 DEF Outcome
<1>11. ~hist[s].broken /\ ~("fflush" \in Flushing /\ y.wlen > 0) => IF y.open THEN Sound(y, h) ELSE y.buf = <<>>
  BY <1>1, <1>6 DEF Flushing
<1>. QED
  BY <1>1, <1>2, <1>4, <1>5, <1>6, <1>9, <1>10, <1>11, AfterStep

LEMMA FcloseStep ==
  ASSUME StdioInv, NEW s \in Stream, Fclose(s)
  PROVE  StdioInv' /\ \A t \in Stream : Sees(t)
<1>1. PICK x, h, f, y, v : /\ x = st[s] /\ h = hist[s] /\ f = FlushWrite(s, x) /\ y = [f EXCEPT !.open = FALSE, !.buf = <<>>]
                           /\ v = IF f.wlen > 0 THEN EOF ELSE 0
  OBVIOUS
<1>2. x.open /\ ops < MaxOps /\ Counted /\ s # "console"
  BY <1>1 DEF Fclose, Free
<1>3. StreamOK(s, x, h) /\ h \in HistRec /\ FlushSeen(s, x, h, f)
  BY <1>1, <1>2, StreamsKnown, FlushStream
<1>4. h.exact \in BOOLEAN /\ h.last \in {"none", "get", "put"} /\ v \in Int
  BY <1>1, <1>3 DEF HistRec, EOF
<1>5. After(s, y, "fclose", v, h.exact, h.last)
  BY <1>1, Zenon DEF Fclose
<1>6. /\ f \in FileRec /\ Alike(x, f) /\ f.wlen \in Nat /\ (f.wlen > 0 => f.err)
      /\ ~h.broken /\ f.wlen = 0 =>
           /\ f.data = Content(x) /\ f.err = x.err /\ Position(f) = Position(x)
  BY <1>3 DEF FlushSeen
<1>7. y \in FileRec
  <2>1. <<>> \in Seq(Nat)
    OBVIOUS
  <2>. QED
    BY <1>1, <1>6, <2>1, Zenon DEF FileRec
<1>8. /\ y.open = FALSE /\ y.err = f.err /\ y.buf = <<>>
      /\ y.rpos = f.rpos /\ y.rlen = f.rlen /\ y.wlen = f.wlen /\ y.ungot = f.ungot
      /\ y.data = f.data /\ y.off = f.off
  BY <1>1, <1>6 DEF FileRec
<1>9. Content(y) = f.data /\ Position(y) = Position(f)
  BY <1>8 DEF Content, Position
<1>10. /\ st'[s] = y /\ hist'[s].exact = h.exact /\ hist'[s].last = h.last /\ hist'[s].res = [fn |-> "fclose", val |-> v]
       /\ hist'[s].broken = (hist[s].broken \/ ("fclose" \in Flushing /\ y.wlen > 0))
  BY <1>5, AfterIs, Zenon
<1>11. hist'[s].broken <=> h.broken \/ f.wlen > 0
  BY <1>1, <1>8, <1>10 DEF Flushing
<1>12. Sees(s)
  <2>1. CASE h.broken
    BY <1>1, <2>1 DEF Sees, Bytes!Next
  <2>2. CASE f.wlen > 0
    <3>1. Bytes(s)!Fault
      BY <1>6, <1>8, <1>10, <1>11, <2>2 DEF Bytes!Fault
    <3>. QED
      BY <3>1 DEF Sees, Bytes!Next
  <2>3. CASE ~h.broken /\ f.wlen = 0
    <3>1. hist'[s].broken = hist[s].broken
      <4>1. hist'[s].broken \in BOOLEAN /\ ~(f.wlen > 0)
        BY <1>10, <2>3
      <4>. QED
        BY <1>1, <1>3, <1>11, <2>3, <4>1 DEF HistRec
    <3>2. y.ungot = x.ungot /\ v = 0
      BY <1>1, <1>6, <1>8, <2>3 DEF Alike
    <3>3. Content(y) = Content(x) /\ Position(y) = Position(x) /\ y.err = x.err
      BY <1>6, <1>8, <1>9, <2>3
    <3>4. Bytes(s)!Quiet
      BY <1>1, <1>10, <3>1, <3>2, <3>3 DEF Bytes!Quiet
    <3>. QED
      BY <3>4 DEF Sees, Bytes!Next
  <2>. QED
    BY <1>6, <2>1, <2>2, <2>3
<1>13. [fn |-> "fclose", val |-> v] \in Outcome
  BY <1>4 DEF Outcome
<1>14. ~hist[s].broken /\ ~("fclose" \in Flushing /\ y.wlen > 0) => IF y.open THEN Sound(y, h) ELSE y.buf = <<>>
  BY <1>8
<1>15. (y.open => Held(s, y)) /\ (s = "console" => y.open)
  BY <1>2, <1>8
<1>. QED
  BY <1>2, <1>4, <1>5, <1>7, <1>12, <1>13, <1>14, <1>15, AfterStep, Zenon

LEMMA SetvbufStep ==
  ASSUME StdioInv, NEW s \in Stream, NEW mode \in BufMode, NEW size \in Sizes, NEW own \in BOOLEAN, Setvbuf(s, mode, size, own)
  PROVE  StdioInv' /\ \A t \in Stream : Sees(t)
<1>1. PICK x, h, f, b, y : /\ x = st[s] /\ h = hist[s] /\ f = FlushWrite(s, x) /\ b = IF own THEN Zeros(size) ELSE <<>>
                           /\ y = [f EXCEPT !.buf = b, !.bufcap = size, !.bufmode = mode]
  OBVIOUS
<1>2. x.open /\ ops < MaxOps /\ Counted /\ x.rlen = 0 /\ f.wlen = 0
  BY <1>1, Zenon DEF Setvbuf, Free
<1>3. StreamOK(s, x, h) /\ h \in HistRec /\ FlushSeen(s, x, h, f)
  BY <1>1, <1>2, StreamsKnown, FlushStream
<1>4. h.exact \in BOOLEAN /\ h.last \in {"none", "get", "put"}
  BY <1>3 DEF HistRec
<1>5. size \in Nat /\ size > 0 /\ size <= Largest
  BY Bounds
<1>6. b \in Seq(Nat) /\ (b # <<>> => size = Len(b))
  BY <1>1, <1>5, ZerosOf
<1>7. After(s, y, "setvbuf", 0, h.exact, h.last)
  <2>1. After(s, [FlushWrite(s, st[s]) EXCEPT !.buf = IF own THEN Zeros(size) ELSE <<>>, !.bufcap = size, !.bufmode = mode],
              "setvbuf", 0, hist[s].exact, hist[s].last)
    BY Zenon DEF Setvbuf
  <2>. QED
    BY <1>1, <2>1, Zenon
<1>8. /\ f \in FileRec /\ Held(s, f) /\ Alike(x, f) /\ f.open
      /\ ~h.broken => /\ f.err = x.err /\ Content(f) = Content(x) /\ Position(f) = Position(x) /\ Sound(f, h)
  BY <1>2, <1>3 DEF FlushSeen
<1>9. y \in FileRec
  BY ZenonT(40), <1>1, <1>5, <1>6, <1>8 DEF FileRec
<1>10. /\ y.open = f.open /\ y.err = f.err /\ y.bufmode = mode /\ y.buf = b /\ y.bufcap = size
       /\ y.rpos = f.rpos /\ y.rlen = f.rlen /\ y.wlen = f.wlen /\ y.pos = f.pos /\ y.ungot = f.ungot
       /\ y.data = f.data /\ y.off = f.off /\ y.mscap = f.mscap
  BY <1>1, <1>8 DEF FileRec
<1>11. f.rlen = 0 /\ f.rpos = 0 /\ f.ungot = x.ungot /\ Len(b) \in Nat
  <2>1. f.rlen = 0 /\ f.ungot = x.ungot
    BY <1>2, <1>8 DEF Alike
  <2>2. f.rpos \in Nat /\ f.rpos <= 0
    BY <1>8, <2>1, FieldsOf DEF Held
  <2>. QED
    BY <1>6, <2>1, <2>2
<1>12. Content(y) = Content(f) /\ Position(y) = Position(f)
  <2>1. Content(f) = f.data /\ Content(y) = y.data
    BY <1>2, <1>8, <1>9, <1>10, ContentOf
  <2>. QED
    BY <1>10, <2>1 DEF Position
<1>13. Held(s, y) /\ y.open
  BY <1>2, <1>5, <1>6, <1>8, <1>10, <1>11 DEF Held
<1>14. ~h.broken => Sound(y, h)
  BY <1>2, <1>8, <1>10, <1>11 DEF Sound
<1>15. /\ st'[s] = y /\ hist'[s].exact = h.exact /\ hist'[s].last = h.last /\ hist'[s].res = [fn |-> "setvbuf", val |-> 0]
       /\ hist'[s].broken = (hist[s].broken \/ ("setvbuf" \in Flushing /\ y.wlen > 0))
  BY <1>7, AfterIs, Zenon
<1>16. hist'[s].broken = h.broken
  BY <1>1, <1>3, <1>15 DEF Flushing, HistRec
<1>17. Sees(s)
  <2>1. CASE h.broken
    BY <1>1, <2>1 DEF Sees, Bytes!Next
  <2>2. CASE ~h.broken
    <3>1. Bytes(s)!Quiet
      BY <1>1, <1>8, <1>10, <1>11, <1>12, <1>15, <1>16, <2>2 DEF Bytes!Quiet
    <3>. QED
      BY <3>1 DEF Sees, Bytes!Next
  <2>. QED
    BY <2>1, <2>2
<1>18. [fn |-> "setvbuf", val |-> 0] \in Outcome
  BY DEF Outcome
<1>19. ~hist[s].broken /\ ~("setvbuf" \in Flushing /\ y.wlen > 0) => IF y.open THEN Sound(y, h) ELSE y.buf = <<>>
  BY <1>1, <1>13, <1>14
<1>20. 0 \in Int
  OBVIOUS
<1>. QED
  BY <1>2, <1>4, <1>7, <1>9, <1>13, <1>17, <1>18, <1>19, <1>20, AfterStep, Zenon
\* A flushed stream that forgets what it read ahead.
Forgot(s, f, y) ==
  /\ y \in FileRec /\ Held(s, y) /\ y.open /\ y.err = f.err /\ y.bufmode = f.bufmode /\ y.buf = f.buf
  /\ y.bufcap = f.bufcap /\ y.rpos = 0 /\ y.rlen = 0 /\ y.wlen = 0 /\ y.ungot = None /\ y.data = f.data /\ y.off = f.off
  /\ Content(y) = f.data /\ Position(y) = f.off /\ y.off \in Nat

LEMMA ForgetOf ==
  ASSUME NEW s \in Stream, NEW f \in FileRec, Held(s, f), f.open, f.wlen = 0,
         NEW y, y = [f EXCEPT !.ungot = None, !.rpos = 0, !.rlen = 0]
  PROVE  Forgot(s, f, y)
<1>1. y \in FileRec
  <2>1. None \in Byte \cup {None} /\ 0 \in Nat
    OBVIOUS
  <2>. QED
    BY <2>1, Zenon DEF FileRec
<1>2. /\ y.open /\ y.err = f.err /\ y.bufmode = f.bufmode /\ y.buf = f.buf /\ y.mscap = f.mscap
      /\ y.bufcap = f.bufcap /\ y.rpos = 0 /\ y.rlen = 0 /\ y.wlen = 0 /\ y.ungot = None /\ y.data = f.data /\ y.off = f.off
  BY DEF FileRec
<1>3. y.off \in Nat /\ Len(f.buf) \in Nat
  BY <1>1, FieldsOf
<1>4. Held(s, y)
  BY <1>2, <1>3 DEF Held
<1>5. Content(y) = f.data
  BY <1>1, <1>2, ContentOf
<1>6. Position(y) = f.off
  BY <1>2, <1>3 DEF Position
<1>. QED
  BY <1>1, <1>2, <1>3, <1>4, <1>5, <1>6 DEF Forgot

SeekName(whence) == CASE whence = "set" -> "fseek_set" [] whence = "cur" -> "fseek_cur" [] whence = "end" -> "fseek_end"

LEMMA FseekStep ==
  ASSUME StdioInv, NEW s \in Stream, NEW offset \in Offsets, NEW whence \in {"set", "cur", "end"}, Fseek(s, offset, whence)
  PROVE  StdioInv' /\ \A t \in Stream : Sees(t)
<1>1. PICK x, h, f, y : x = st[s] /\ h = hist[s] /\ f = FlushWrite(s, x) /\ y = [f EXCEPT !.ungot = None, !.rpos = 0, !.rlen = 0]
  OBVIOUS
<1>2. PICK np : np = offset + (CASE whence = "set" -> 0 [] whence = "cur" -> y.off [] whence = "end" -> Len(y.data))
  OBVIOUS
<1>3. PICK z : z = [y EXCEPT !.off = np, !.pos = np, !.eof = FALSE]
  OBVIOUS
<1>4. x.open /\ ops < MaxOps /\ Counted
  BY <1>1 DEF Fseek, Free
<1>5. IF f.wlen > 0 THEN After(s, f, "fseek", EOF, FALSE, "none")
      ELSE IF np < 0 \/ s # "file" \/ (whence = "end" /\ "fs" \in down) THEN After(s, y, "fseek", EOF, FALSE, "none")
      ELSE After(s, z, SeekName(whence), offset, TRUE, "none")
  BY <1>1, <1>2, <1>3, Zenon DEF Fseek, SeekName
<1>6. StreamOK(s, x, h) /\ h \in HistRec /\ x \in FileRec /\ Held(s, x) /\ FlushSeen(s, x, h, f)
  BY <1>1, <1>4, StreamsKnown, FlushStream DEF StreamOK
<1>7. /\ f \in FileRec /\ Held(s, f) /\ f.open /\ f.wlen \in Nat /\ (f.wlen > 0 => f.err)
      /\ ~h.broken /\ f.wlen = 0 => f.data = Content(x) /\ f.off = x.off + x.wlen /\ f.err = x.err
  BY <1>6 DEF FlushSeen
<1>8. EOF \in Int /\ offset \in Int /\ [fn |-> "fseek", val |-> EOF] \in Outcome /\ TRUE \in BOOLEAN /\ FALSE \in BOOLEAN
      /\ "none" \in {"none", "get", "put"}
  BY Bounds DEF EOF, Outcome
<1>9. PICK g : g.exact = FALSE /\ g.last = "none"
  <2>1. [exact |-> FALSE, last |-> "none"].exact = FALSE /\ [exact |-> FALSE, last |-> "none"].last = "none"
    OBVIOUS
  <2>. QED
    BY <2>1
<1>10. CASE f.wlen > 0
  <2>1. After(s, f, "fseek", EOF, FALSE, "none")
    BY <1>5, <1>10
  <2>2. /\ st'[s] = f
        /\ hist'[s].broken = (hist[s].broken \/ ("fseek" \in Flushing /\ f.wlen > 0))
    BY <2>1, AfterIs, Zenon
  <2>3. Bytes(s)!Fault
    BY <1>7, <1>10, <2>2 DEF Bytes!Fault, Flushing
  <2>4. Sees(s)
    BY <2>3 DEF Sees, Bytes!Next
  <2>5. ~hist[s].broken /\ ~("fseek" \in Flushing /\ f.wlen > 0) => IF f.open THEN Sound(f, g) ELSE f.buf = <<>>
    BY <1>10 DEF Flushing
  <2>. QED
    BY <1>4, <1>7, <1>8, <1>9, <2>1, <2>4, <2>5, AfterStep, Zenon
<1>11. ASSUME f.wlen = 0
       PROVE  /\ y \in FileRec /\ Held(s, y) /\ y.open /\ y.err = f.err /\ y.bufmode = f.bufmode /\ y.buf = f.buf
              /\ y.bufcap = f.bufcap /\ y.rpos = 0 /\ y.rlen = 0 /\ y.wlen = 0 /\ y.ungot = None /\ y.data = f.data /\ y.off = f.off
              /\ Content(y) = f.data /\ Position(y) = f.off /\ y.off \in Nat
  <2>1. f \in FileRec /\ Held(s, f) /\ f.open /\ f.wlen = 0
    BY <1>7, <1>11
  <2>2. Forgot(s, f, y)
    BY <1>1, <2>1, ForgetOf
  <2>. QED
    BY <2>2 DEF Forgot
<1>12. ASSUME f.wlen = 0, ~h.broken
       PROVE  f.off - Position(x) \in 0 .. Largest /\ Position(x) \in Int
  <2>1. x.rlen - x.rpos \in 0 .. Largest /\ Position(x) = x.off + x.wlen - (x.rlen - x.rpos)
    BY <1>6, AheadOf
  <2>2. x.off \in Nat /\ x.wlen \in Nat /\ f.off = x.off + x.wlen /\ x.rlen \in Nat /\ x.rpos \in Nat
    BY <1>6, <1>7, <1>12, FieldsOf
  <2>. QED
    BY <2>1, <2>2, Bounds, SMTT(40)
<1>13. CASE f.wlen = 0 /\ (np < 0 \/ s # "file" \/ (whence = "end" /\ "fs" \in down))
  <2>1. After(s, y, "fseek", EOF, FALSE, "none")
    <3>1. ~(f.wlen > 0)
      BY <1>13
    <3>. QED
      BY <1>5, <1>13, <3>1, Zenon
  <2>2. /\ st'[s] = y /\ hist'[s].exact = FALSE /\ hist'[s].last = "none" /\ hist'[s].res = [fn |-> "fseek", val |-> EOF]
        /\ hist'[s].broken = (hist[s].broken \/ ("fseek" \in Flushing /\ y.wlen > 0))
    BY <2>1, AfterIs, Zenon
  <2>3. hist'[s].broken = h.broken
    <3>1. ~(y.wlen > 0) /\ h.broken \in BOOLEAN
      BY <1>6, <1>11, <1>13 DEF HistRec
    <3>. QED
      BY <1>1, <2>2, <3>1, Zenon
  <2>4. Sees(s)
    <3>1. CASE h.broken
      BY <1>1, <3>1 DEF Sees, Bytes!Next
    <3>2. CASE ~h.broken
      <4>1. /\ Content(y) = Content(x) /\ Position(y) \in Position(x) .. Position(x) + Largest
            /\ y.err = x.err /\ y.ungot = None
        BY <1>7, <1>11, <1>12, <1>13, <3>2, Bounds
      <4>2. Bytes(s)!SeekFails
        BY <1>1, <2>2, <2>3, <4>1 DEF Bytes!SeekFails, Bytes!None, Bytes!EOF, None, EOF
      <4>. QED
        BY <4>2 DEF Sees, Bytes!Next
    <3>. QED
      BY <3>1, <3>2
  <2>5. ~hist[s].broken /\ ~("fseek" \in Flushing /\ y.wlen > 0) => IF y.open THEN Sound(y, g) ELSE y.buf = <<>>
    BY <1>9, <1>11, <1>13 DEF Sound
  <2>6. y \in FileRec /\ (y.open => Held(s, y)) /\ (s = "console" => y.open)
    BY <1>11, <1>13
  <2>. QED
    BY <1>4, <1>8, <1>9, <2>1, <2>4, <2>5, <2>6, AfterStep, Zenon
<1>14. CASE f.wlen = 0 /\ ~(np < 0 \/ s # "file" \/ (whence = "end" /\ "fs" \in down))
  <2>1. PICK n : n = SeekName(whence)
    OBVIOUS
  <2>2. After(s, z, n, offset, TRUE, "none")
    <3>1. ~(f.wlen > 0)
      BY <1>14
    <3>. QED
      BY <1>5, <1>14, <2>1, <3>1, Zenon
  <2>3. /\ st'[s] = z /\ hist'[s].exact = TRUE /\ hist'[s].last = "none" /\ hist'[s].res = [fn |-> n, val |-> offset]
        /\ hist'[s].broken = (hist[s].broken \/ (n \in Flushing /\ z.wlen > 0))
    BY <2>2, AfterIs, Zenon
  <2>4. n \in {"fseek_set", "fseek_cur", "fseek_end"} /\ (whence = "set" => n = "fseek_set")
        /\ (whence = "cur" => n = "fseek_cur") /\ (whence = "end" => n = "fseek_end")
    BY <2>1 DEF SeekName
  <2>5. n \notin Flushing /\ [fn |-> n, val |-> offset] \in Outcome
    BY <1>8, <2>4 DEF Flushing, Outcome
  <2>6. hist'[s].broken = h.broken
    <3>1. h.broken \in BOOLEAN
      BY <1>6 DEF HistRec
    <3>. QED
      BY <1>1, <2>3, <2>5, <3>1, Zenon
  <2>7. np \in Nat /\ np = offset + (IF whence = "set" THEN 0 ELSE IF whence = "cur" THEN f.off ELSE Len(f.data))
    <3>1. y.off \in Nat /\ y.off = f.off /\ y.data = f.data /\ Len(f.data) \in Nat
      BY <1>7, <1>11, <1>14, FieldsOf
    <3>2. np = offset + (IF whence = "set" THEN 0 ELSE IF whence = "cur" THEN f.off ELSE Len(f.data))
      BY <1>2, <3>1
    <3>. QED
      BY <1>8, <1>14, <3>1, <3>2
  <2>8. z \in FileRec
    <3>1. y \in FileRec /\ FALSE \in BOOLEAN
      BY <1>11, <1>14
    <3>2. np \in Nat
      BY <2>7
    <3>. QED
      BY <1>3, <3>1, <3>2, Zenon DEF FileRec
  <2>9. /\ z.open = y.open /\ z.err = y.err /\ z.bufmode = y.bufmode /\ z.buf = y.buf /\ z.bufcap = y.bufcap
        /\ z.rpos = y.rpos /\ z.rlen = y.rlen /\ z.wlen = y.wlen /\ z.pos = np /\ z.ungot = y.ungot
        /\ z.data = y.data /\ z.off = np /\ z.mscap = y.mscap
    <3>1. y \in FileRec
      BY <1>11, <1>14
    <3>. QED
      BY <1>3, <3>1 DEF FileRec
  <2>10. z.open /\ Held(s, z)
    BY <1>11, <1>14, <2>9 DEF Held
  <2>11. Content(z) = f.data /\ Position(z) = np
    <3>1. z.wlen = 0 /\ z.rlen = 0 /\ z.rpos = 0 /\ z.data = f.data
      BY <1>11, <1>14, <2>9
    <3>2. Content(z) = f.data
      BY <2>8, <3>1, ContentOf
    <3>. QED
      BY <2>7, <2>9, <3>1, <3>2 DEF Position
  <2>12. Sees(s)
    <3>1. CASE h.broken
      BY <1>1, <3>1 DEF Sees, Bytes!Next
    <3>2. CASE ~h.broken
      <4>1. /\ Content(z) = Content(x) /\ z.err = x.err /\ z.ungot = None /\ f.data = Content(x)
        BY <1>7, <1>11, <1>14, <2>9, <2>11, <3>2
      <4>2. CASE whence = "set"
        <5>1. n = "fseek_set" /\ Position(z) = offset
          BY <1>8, <2>4, <2>7, <2>11, <4>2
        <5>2. Bytes(s)!Seek
          BY <1>1, <2>3, <2>6, <4>1, <5>1 DEF Bytes!Seek, Bytes!None, None
        <5>. QED
          BY <5>2 DEF Sees, Bytes!Next
      <4>3. CASE whence = "cur"
        <5>1. n = "fseek_cur" /\ Position(z) = offset + f.off
          BY <2>4, <2>7, <2>11, <4>3
        <5>2. Position(z) - offset \in Position(x) .. Position(x) + Largest
          <6>1. f.off \in Nat
            BY <1>7, FieldsOf
          <6>. QED
            BY <1>8, <1>12, <1>14, <3>2, <5>1, <6>1, Bounds
        <5>3. Bytes(s)!Seek
          BY <1>1, <2>3, <2>6, <4>1, <5>1, <5>2 DEF Bytes!Seek, Bytes!None, None
        <5>. QED
          BY <5>3 DEF Sees, Bytes!Next
      <4>4. CASE whence = "end"
        <5>1. n = "fseek_end" /\ Position(z) = Len(Content(x)) + offset
          <6>1. Len(f.data) \in Nat /\ np = offset + Len(f.data)
            BY <1>7, <2>7, <4>4, FieldsOf
          <6>. QED
            BY <1>8, <2>4, <2>11, <4>1, <4>4, <6>1
        <5>2. Bytes(s)!Seek
          BY <1>1, <2>3, <2>6, <4>1, <5>1 DEF Bytes!Seek, Bytes!None, None
        <5>. QED
          BY <5>2 DEF Sees, Bytes!Next
      <4>. QED
        BY <4>2, <4>3, <4>4
    <3>. QED
      BY <3>1, <3>2
  <2>13. PICK e : e.exact = TRUE /\ e.last = "none"
    <3>1. [exact |-> TRUE, last |-> "none"].exact = TRUE /\ [exact |-> TRUE, last |-> "none"].last = "none"
      OBVIOUS
    <3>. QED
      BY <3>1
  <2>14. ~hist[s].broken /\ ~(n \in Flushing /\ z.wlen > 0) => IF z.open THEN Sound(z, e) ELSE z.buf = <<>>
    BY <1>11, <1>14, <2>7, <2>9, <2>10, <2>13 DEF Sound
  <2>. QED
    BY <1>4, <1>8, <2>2, <2>5, <2>8, <2>10, <2>12, <2>13, <2>14, AfterStep, Zenon
<1>. QED
  BY <1>7, <1>10, <1>13, <1>14
FreshLike(mode, d, o, y) ==
  /\ y \in FileRec /\ y.open /\ y.err = FALSE /\ y.buf = <<>> /\ y.bufmode = mode /\ y.rpos = 0 /\ y.rlen = 0
  /\ y.wlen = 0 /\ y.pos = 0 /\ y.ungot = None /\ y.data = d /\ y.off = o /\ y.mscap = 1
  /\ Content(y) = d /\ Position(y) = o

LEMMA FreshOf ==
  ASSUME NEW mode \in BufMode, NEW d \in Seq(Nat), NEW o \in Nat, NEW y, y = File(TRUE, mode, d, o)
  PROVE  FreshLike(mode, d, o, y)
<1>1. /\ y.open /\ y.err = FALSE /\ y.buf = <<>> /\ y.bufmode = mode /\ y.rpos = 0 /\ y.rlen = 0
      /\ y.wlen = 0 /\ y.pos = 0 /\ y.ungot = None /\ y.data = d /\ y.off = o /\ y.mscap = 1
  BY DEF File
<1>2. y \in FileRec
  <2>1. <<>> \in Seq(Nat) /\ None \in Byte \cup {None} /\ 0 \in Nat /\ 1 \in Nat /\ TRUE \in BOOLEAN /\ FALSE \in BOOLEAN
    OBVIOUS
  <2>. QED
    BY <2>1, Zenon DEF File, FileRec
<1>3. Content(y) = d
  BY <1>1, <1>2, ContentOf
<1>4. Position(y) = o
  <2>1. y.off = o /\ y.wlen = 0 /\ y.rlen = 0 /\ y.rpos = 0
    BY <1>1
  <2>2. Position(y) = o + 0 - (0 - 0)
    BY <2>1, Zenon DEF Position
  <2>3. o + 0 - (0 - 0) = o
    OBVIOUS
  <2>. QED
    BY <2>2, <2>3, Zenon
<1>. QED
  BY <1>1, <1>2, <1>3, <1>4 DEF FreshLike

LEMMA OpenedOf ==
  ASSUME NEW x \in FileRec, NEW m, NEW d, d = Opened(x, m).data, NEW o, o = Opened(x, m).off
  PROVE  d \in {x.data, <<>>} /\ d \in Seq(Nat) /\ o \in Nat /\ o \in {0, Len(d)} /\ (m # "a" => o = 0)
<1>1. x.data \in Seq(Nat) /\ <<>> \in Seq(Nat)
  BY FieldsOf
<1>2. d = (IF m = "w" THEN <<>> ELSE x.data) /\ o = IF m = "a" THEN Len(d) ELSE 0
  BY DEF Opened
<1>3. d \in Seq(Nat)
  BY <1>1, <1>2
<1>4. Len(d) \in Nat
  BY <1>3, LenProperties
<1>. QED
  BY <1>2, <1>3, <1>4

\* A stream that was opened, by whatever call.
LEMMA OpenStep ==
  ASSUME StdioInv, NEW s \in Stream, NEW y \in FileRec, NEW m, NEW k, k = FreshHist(m), Becomes(s, y, k),
         y.open, Held(s, y), y.err = FALSE, y.rlen = 0, y.rpos = 0, y.wlen = 0, y.pos = 0, y.ungot = None,
         m # "a" => y.off = 0, y.off \in {0, Len(y.data)}, y.data \in {Content(st[s]), <<>>} \/ hist[s].broken,
         CallOK', ops' \in 0 .. MaxOps, UNCHANGED <<down, faults, exited>>
  PROVE  StdioInv' /\ \A t \in Stream : Sees(t)
<1>1. PICK e \in BOOLEAN : e = (m # "a")
  OBVIOUS
<1>2. k = [exact |-> e, last |-> "none", broken |-> FALSE, res |-> [fn |-> "open", val |-> 0]]
  BY <1>1, Zenon DEF FreshHist, Res
<1>3. k \in HistRec
  <2>1. [fn |-> "open", val |-> 0] \in Outcome
    BY DEF Outcome
  <2>. QED
    BY <1>2, <2>1 DEF HistRec
<1>4. k.exact = e /\ k.last = "none" /\ k.broken = FALSE /\ k.res.fn = "open" /\ k.res.val = 0
  BY <1>2
<1>5. y.off \in Nat /\ Content(y) = y.data
  BY FieldsOf, ContentOf
<1>6. Position(y) = y.off
  BY <1>5 DEF Position
<1>7. Sound(y, k)
  <2>1. e => y.off = 0
    BY <1>1
  <2>. QED
    BY <1>4, <1>5, <2>1 DEF Sound
<1>8. st'[s] = y /\ hist'[s] = k
  BY Becoming
<1>9. Sees(s)
  <2>1. CASE hist[s].broken
    BY <2>1 DEF Sees, Bytes!Next
  <2>2. CASE ~hist[s].broken
    <3>1. e => y.off = 0
      BY <1>1
    <3>2. /\ Content(st[s])' \in {Content(st[s]), <<>>} /\ Position(st[s])' \in {0, Len(Content(st[s])')}
          /\ (e => Position(st[s])' = 0) /\ st'[s].ungot = None /\ st'[s].err = FALSE
      BY <1>5, <1>6, <1>8, <2>2, <3>1
    <3>3. Bytes(s)!Open
      BY <1>4, <1>8, <3>2 DEF Bytes!Open, Bytes!None, None
    <3>. QED
      BY <3>3 DEF Sees, Bytes!Next
  <2>. QED
    BY <2>1, <2>2
<1>10. StreamOK(s, y, k)
  BY <1>3, <1>7 DEF StreamOK
<1>. QED
  BY <1>9, <1>10, Focus

\* Nothing but the calls made and the failures counted changes.
LEMMA SameStreams ==
  ASSUME StdioInv, UNCHANGED <<st, hist>>, CallOK', ops' \in 0 .. MaxOps, faults' \in 0 .. MaxFaults,
         down' \subseteq {"fs", "heap"}, faults' = 0 => down' = {}, UNCHANGED exited
  PROVE  StdioInv' /\ \A t \in Stream : Sees(t)
<1>1. StdioInv'
  BY DEF StdioInv
<1>. QED
  BY <1>1, NotSeen

LEMMA FopenStep ==
  ASSUME StdioInv, NEW s \in Stream, NEW m \in Modes, Fopen(s, m)
  PROVE  StdioInv' /\ \A t \in Stream : Sees(t)
<1>1. PICK x, d, o, y : x = st[s] /\ d = Opened(x, m).data /\ o = Opened(x, m).off /\ y = File(TRUE, "FBF", d, o)
  OBVIOUS
<1>2. ops < MaxOps /\ s = "file" /\ ~x.open /\ Counted
  BY <1>1 DEF Fopen
<1>3. CallOK' /\ ops' \in 0 .. MaxOps /\ UNCHANGED <<down, faults, exited>>
  BY <1>2, CountedOf
<1>4. x \in FileRec
  BY <1>1, StreamsKnown
<1>5. d \in {x.data, <<>>} /\ d \in Seq(Nat) /\ o \in Nat /\ o \in {0, Len(d)} /\ (m # "a" => o = 0)
  BY <1>1, <1>4, OpenedOf
<1>6. /\ y \in FileRec /\ y.open /\ y.err = FALSE /\ y.buf = <<>> /\ y.bufmode = "FBF" /\ y.rpos = 0 /\ y.rlen = 0
      /\ y.wlen = 0 /\ y.pos = 0 /\ y.ungot = None /\ y.data = d /\ y.off = o
  <2>1. "FBF" \in BufMode
    BY DEF BufMode
  <2>2. FreshLike("FBF", d, o, y)
    BY <1>1, <1>5, <2>1, FreshOf
  <2>. QED
    BY <2>2 DEF FreshLike
<1>7. Held(s, y)
  <2>1. Len(y.buf) = 0
    BY <1>6
  <2>. QED
    BY <1>2, <1>6, <2>1 DEF Held
<1>8. Content(x) = x.data
  BY <1>2, <1>4, ContentOf
<1>9. CASE UNCHANGED <<st, hist>>
  BY <1>3, <1>9, SameStreams DEF StdioInv
<1>10. CASE Becomes(s, y, FreshHist(m))
  <2>1. PICK k : k = FreshHist(m)
    OBVIOUS
  <2>2. y.data \in {Content(st[s]), <<>>} /\ (m # "a" => y.off = 0) /\ y.off \in {0, Len(y.data)}
    BY <1>1, <1>5, <1>6, <1>8
  <2>. QED
    BY <1>3, <1>6, <1>7, <1>10, <2>1, <2>2, OpenStep
<1>11. PICK h, z, k : /\ h = hist[s] /\ z = [x EXCEPT !.data = d] /\ k = [h EXCEPT !.res = Res("open", EOF)]
  OBVIOUS
<1>12. CASE Becomes(s, z, k)
  <2>1. h \in HistRec /\ StreamOK(s, x, h)
    BY <1>1, <1>11, StreamsKnown
  <2>2. z \in FileRec
    BY <1>4, <1>5, <1>11, Zenon DEF FileRec
  <2>3. /\ z.open = x.open /\ z.err = x.err /\ z.buf = x.buf /\ z.data = d /\ z.off = x.off
        /\ z.wlen = x.wlen /\ z.rlen = x.rlen /\ z.rpos = x.rpos /\ z.ungot = x.ungot
    BY <1>4, <1>11 DEF FileRec
  <2>4. k \in HistRec /\ k.exact = h.exact /\ k.last = h.last /\ k.broken = h.broken /\ k.res = [fn |-> "open", val |-> EOF]
    <3>1. Res("open", EOF) = [fn |-> "open", val |-> EOF] /\ Res("open", EOF) \in Outcome
      BY DEF Res, Outcome, EOF
    <3>. QED
      BY <1>11, <2>1, <3>1 DEF HistRec
  <2>5. StreamOK(s, z, k)
    BY <1>2, <2>1, <2>2, <2>3, <2>4 DEF StreamOK
  <2>6. Content(z) = d /\ Position(z) = Position(x)
    BY <1>2, <2>3 DEF Content, Position
  <2>7. st'[s] = z /\ hist'[s] = k
    BY <1>12, Becoming
  <2>8. Bytes(s)!OpenFails
    BY <1>1, <1>5, <1>8, <1>11, <2>3, <2>4, <2>6, <2>7 DEF Bytes!OpenFails, Bytes!EOF, EOF
  <2>9. Sees(s)
    BY <2>8 DEF Sees, Bytes!Next
  <2>. QED
    BY <1>2, <1>3, <1>12, <2>5, <2>9, Focus
<1>13. UNCHANGED <<st, hist>> \/ Becomes(s, y, FreshHist(m)) \/ Becomes(s, z, k)
  BY <1>1, <1>11, Zenon DEF Fopen
<1>. QED
  BY <1>9, <1>10, <1>12, <1>13

LEMMA OpenMemstreamStep ==
  ASSUME StdioInv, NEW s \in Stream, OpenMemstream(s)
  PROVE  StdioInv' /\ \A t \in Stream : Sees(t)
<1>1. PICK d, y : d = <<>> /\ y = File(TRUE, "FBF", d, 0)
  OBVIOUS
<1>2. ops < MaxOps /\ s = "mem" /\ Counted
  BY DEF OpenMemstream
<1>3. CallOK' /\ ops' \in 0 .. MaxOps /\ UNCHANGED <<down, faults, exited>>
  BY <1>2, CountedOf
<1>4. d \in Seq(Nat) /\ Len(d) = 0
  BY <1>1
<1>5. /\ y \in FileRec /\ y.open /\ y.err = FALSE /\ y.buf = <<>> /\ y.bufmode = "FBF" /\ y.rpos = 0 /\ y.rlen = 0
      /\ y.wlen = 0 /\ y.pos = 0 /\ y.ungot = None /\ y.data = d /\ y.off = 0 /\ y.mscap = 1
  <2>1. "FBF" \in BufMode /\ 0 \in Nat
    BY DEF BufMode
  <2>2. FreshLike("FBF", d, 0, y)
    BY <1>1, <1>4, <2>1, FreshOf
  <2>. QED
    BY <2>2 DEF FreshLike
<1>6. Held(s, y)
  <2>1. Len(y.buf) = 0 /\ Len(y.data) = 0
    BY <1>1, <1>4, <1>5
  <2>. QED
    BY <1>2, <1>5, <2>1 DEF Held
<1>7. CASE UNCHANGED <<st, hist>>
  BY <1>3, <1>7, SameStreams DEF StdioInv
<1>8. CASE Becomes(s, y, FreshHist("w"))
  <2>1. PICK k, m : k = FreshHist(m) /\ m = "w"
    OBVIOUS
  <2>2. y.data \in {Content(st[s]), <<>>} /\ y.off \in {0, Len(y.data)}
    BY <1>1, <1>5
  <2>. QED
    BY <1>3, <1>5, <1>6, <1>8, <2>1, <2>2, OpenStep
<1>9. UNCHANGED <<st, hist>> \/ Becomes(s, y, FreshHist("w"))
  BY <1>1 DEF OpenMemstream
<1>. QED
  BY <1>7, <1>8, <1>9

\* freopen, whether or not the file can be opened.
LEMMA FreopenStep ==
  ASSUME StdioInv, NEW s \in Stream, NEW m \in Modes, Freopen(s, m)
  PROVE  StdioInv' /\ \A t \in Stream : Sees(t)
<1>1. PICK x, h, f, d, o : /\ x = st[s] /\ h = hist[s] /\ f = FlushWrite(s, x)
                           /\ d = Opened(f, m).data /\ o = Opened(f, m).off
  OBVIOUS
<1>2. PICK y : y = [f EXCEPT !.data = d, !.off = o, !.err = FALSE, !.eof = FALSE,
                             !.rpos = 0, !.rlen = 0, !.wlen = 0, !.pos = 0, !.ungot = None]
  OBVIOUS
<1>3. x.open /\ ops < MaxOps /\ s = "file" /\ Counted
  BY <1>1 DEF Freopen, Free
<1>4. IF "fs" \in down
      THEN Becomes(s, [f EXCEPT !.open = FALSE], [h EXCEPT !.broken = TRUE, !.res = Res("freopen", EOF)])
      ELSE Becomes(s, y, IF f.wlen > 0 THEN [FreshHist(m) EXCEPT !.broken = TRUE, !.res = Res("freopen", 0)] ELSE FreshHist(m))
  BY <1>1, <1>2, Zenon DEF Freopen
<1>5. StreamOK(s, x, h) /\ h \in HistRec /\ FlushSeen(s, x, h, f)
  BY <1>1, <1>3, StreamsKnown, FlushStream
<1>6. /\ f \in FileRec /\ Held(s, f) /\ f.open /\ f.wlen \in Nat
      /\ ~h.broken /\ f.wlen = 0 => f.data = Content(x)
  BY <1>5 DEF FlushSeen
<1>7. CallOK' /\ ops' \in 0 .. MaxOps /\ UNCHANGED <<down, faults, exited>>
  BY <1>3, CountedOf
<1>8. d \in {f.data, <<>>} /\ d \in Seq(Nat) /\ o \in Nat /\ o \in {0, Len(d)} /\ (m # "a" => o = 0)
  BY <1>1, <1>6, OpenedOf
<1>9. y \in FileRec
  <2>1. None \in Byte \cup {None} /\ 0 \in Nat /\ FALSE \in BOOLEAN
    OBVIOUS
  <2>. QED
    BY <1>2, <1>6, <1>8, <2>1, Zenon DEF FileRec
<1>10. /\ y.open /\ y.err = FALSE /\ y.bufmode = f.bufmode /\ y.buf = f.buf /\ y.bufcap = f.bufcap
       /\ y.rpos = 0 /\ y.rlen = 0 /\ y.wlen = 0 /\ y.pos = 0 /\ y.ungot = None /\ y.data = d /\ y.off = o
  BY <1>2, <1>6 DEF FileRec
<1>11. Held(s, y)
  <2>1. Len(f.buf) \in Nat /\ s # "mem"
    BY <1>3, <1>6, FieldsOf
  <2>. QED
    BY <1>3, <1>6, <1>10, <2>1 DEF Held
<1>12. Res("freopen", EOF) \in Outcome /\ Res("freopen", 0) \in Outcome /\ EOF \in Int
  BY DEF Outcome, Res, EOF
<1>13. CASE "fs" \in down
  <2>1. PICK z, k : /\ z = [f EXCEPT !.open = FALSE]
                    /\ k = [h EXCEPT !.broken = TRUE, !.res = Res("freopen", EOF)]
    OBVIOUS
  <2>2. Becomes(s, z, k)
    BY <1>4, <1>13, <2>1
  <2>3. z \in FileRec /\ z.open = FALSE
    BY <1>6, <2>1 DEF FileRec
  <2>4. k \in HistRec /\ k.broken = TRUE /\ k.res.fn = "freopen"
    <3>1. k.res.fn = "freopen"
      BY <1>5, <2>1 DEF HistRec, Res
    <3>. QED
      BY <1>5, <1>12, <2>1, <3>1 DEF HistRec
  <2>5. StreamOK(s, z, k)
    BY <2>3, <2>4 DEF StreamOK
  <2>6. Bytes(s)!Abandon
    BY <2>2, <2>4, Becoming DEF Bytes!Abandon
  <2>7. Sees(s)
    BY <2>6 DEF Sees, Bytes!Next
  <2>. QED
    BY <1>3, <1>7, <2>2, <2>5, <2>7, Focus
<1>14. CASE "fs" \notin down /\ f.wlen > 0
  <2>1. PICK e \in BOOLEAN : e = (m # "a")
    OBVIOUS
  <2>2. PICK k : k = [FreshHist(m) EXCEPT !.broken = TRUE, !.res = Res("freopen", 0)]
    OBVIOUS
  <2>3. Becomes(s, y, k)
    BY <1>4, <1>14, <2>2
  <2>4. FreshHist(m) \in HistRec
    <3>1. FreshHist(m) = [exact |-> e, last |-> "none", broken |-> FALSE, res |-> Res("open", 0)]
      BY <2>1, Zenon DEF FreshHist
    <3>2. Res("open", 0) \in Outcome
      BY DEF Outcome, Res
    <3>. QED
      BY <3>1, <3>2 DEF HistRec
  <2>5. k \in HistRec /\ k.broken = TRUE /\ k.res.fn = "freopen"
    <3>1. Res("freopen", 0) \in Outcome /\ Res("freopen", 0).fn = "freopen"
      BY DEF Outcome, Res
    <3>. QED
      BY <2>2, <2>4, <3>1 DEF HistRec
  <2>6. StreamOK(s, y, k)
    BY <1>9, <1>11, <2>5 DEF StreamOK
  <2>7. Bytes(s)!Abandon
    BY <2>3, <2>5, Becoming DEF Bytes!Abandon
  <2>8. Sees(s)
    BY <2>7 DEF Sees, Bytes!Next
  <2>. QED
    BY <1>3, <1>7, <2>3, <2>6, <2>8, Focus
<1>15. CASE "fs" \notin down /\ ~(f.wlen > 0)
  <2>1. PICK k : k = FreshHist(m)
    OBVIOUS
  <2>2. Becomes(s, y, k)
    BY <1>4, <1>15, <2>1, Zenon
  <2>3. y.data \in {Content(st[s]), <<>>} \/ hist[s].broken
    BY <1>1, <1>6, <1>8, <1>10, <1>15
  <2>4. (m # "a" => y.off = 0) /\ y.off \in {0, Len(y.data)}
    BY <1>8, <1>10
  <2>. QED
    BY <1>7, <1>9, <1>10, <1>11, <2>1, <2>2, <2>3, <2>4, OpenStep
<1>. QED
  BY <1>13, <1>14, <1>15

\* What exit leaves of a stream.
LEMMA GoneOf ==
  ASSUME NEW f \in FileRec, NEW y, y = Gone(f)
  PROVE  y \in FileRec /\ y.open = FALSE /\ y.buf = <<>> /\ Content(y) = f.data
<1>1. <<>> \in Seq(Nat) /\ 0 \in Nat /\ FALSE \in BOOLEAN
  OBVIOUS
<1>2. y \in FileRec
  BY <1>1, Zenon DEF Gone, FileRec
<1>3. y.open = FALSE /\ y.buf = <<>> /\ y.data = f.data
  BY DEF Gone, FileRec
<1>. QED
  BY <1>2, <1>3 DEF Content

\* exit: the console is flushed, the other streams are gone with their buffers.
LEMMA ExitStep ==
  ASSUME StdioInv, Exit
  PROVE  StdioInv' /\ \A t \in Stream : Sees(t)
<1>1. call = NoCall /\ ~exited /\ exited' = TRUE /\ UNCHANGED <<call, ops, down, faults>>
  BY DEF Exit
<1>2. ASSUME NEW s \in Stream
      PROVE  StreamOK(s, st'[s], hist'[s]) /\ Sees(s) /\ st'[s] \in FileRec /\ hist'[s] \in HistRec
  <2>1. PICK x, h, f : x = st[s] /\ h = hist[s] /\ f = IF s = "console" THEN FlushWrite(s, x) ELSE x
    OBVIOUS
  <2>2. StreamOK(s, x, h) /\ x \in FileRec /\ h \in HistRec
    BY <2>1, StreamsKnown
  <2>3. PICK y : y = Gone(f)
    OBVIOUS
  <2>4. PICK b \in BOOLEAN : b = (h.broken \/ s # "console")
    OBVIOUS
  <2>5. PICK k : k = [h EXCEPT !.res = Res("exit", 0), !.broken = b]
    OBVIOUS
  <2>6. st'[s] = y
    BY <2>1, <2>3, Zenon DEF Exit
  <2>7. hist'[s] = k
    <3>1. hist'[s] = [hist[s] EXCEPT !.res = Res("exit", 0), !.broken = @ \/ s # "console"]
      BY Zenon DEF Exit
    <3>. QED
      BY <2>1, <2>4, <2>5, <3>1
  <2>8. s = "console" => x.open
    BY <1>1, <2>1 DEF StdioInv
  <2>9. s = "console" => FlushSeen(s, x, h, f)
    BY <2>1, <2>2, <2>8, FlushStream
  <2>10. f \in FileRec /\ (s = "console" => f.wlen = 0 /\ (~h.broken => f.data = Content(x)))
    BY <2>1, <2>2, <2>9 DEF FlushSeen
  <2>11. y \in FileRec /\ y.open = FALSE /\ y.buf = <<>> /\ Content(y) = f.data
    BY <2>3, <2>10, GoneOf
  <2>12. k \in HistRec /\ k.broken = b /\ k.res.fn = "exit"
    <3>1. Res("exit", 0) \in Outcome /\ Res("exit", 0).fn = "exit"
      BY DEF Outcome, Res
    <3>. QED
      BY <2>2, <2>5, <3>1 DEF HistRec
  <2>13. StreamOK(s, y, k)
    BY <2>11, <2>12 DEF StreamOK
  <2>14. Sees(s)
    <3>1. CASE h.broken
      BY <2>1, <3>1 DEF Sees, Bytes!Next
    <3>2. CASE s # "console"
      <4>1. Bytes(s)!Abandon
        <5>1. k.broken
          BY <2>4, <2>12, <3>2, Zenon
        <5>. QED
          BY <2>7, <2>12, <3>2, <5>1 DEF Bytes!Abandon
      <4>. QED
        BY <4>1 DEF Sees, Bytes!Next
    <3>3. CASE s = "console" /\ ~h.broken
      <4>1. k.broken = h.broken
        BY <2>2, <2>4, <2>12, <3>3 DEF HistRec
      <4>2. Content(st[s])' = Content(st[s])
        BY <2>1, <2>6, <2>10, <2>11, <3>3
      <4>3. Bytes(s)!Exit
        BY <2>1, <2>7, <2>12, <3>3, <4>1, <4>2 DEF Bytes!Exit
      <4>. QED
        BY <4>3 DEF Sees, Bytes!Next
    <3>. QED
      BY <3>1, <3>2, <3>3
  <2>. QED
    BY <2>6, <2>7, <2>11, <2>12, <2>13, <2>14
<1>3. st' \in [Stream -> FileRec] /\ hist' \in [Stream -> HistRec]
  <2>1. DOMAIN st' = Stream /\ DOMAIN hist' = Stream
    BY DEF Exit
  <2>2. st' = [s \in Stream |-> st'[s]] /\ hist' = [s \in Stream |-> hist'[s]]
    BY DEF Exit
  <2>. QED
    BY <1>2, <2>2
<1>4. CallOK'
  BY <1>1 DEF CallOK
<1>5. StdioInv'
  BY <1>1, <1>2, <1>3, <1>4 DEF StdioInv
<1>. QED
  BY <1>2, <1>5

\* What is left to read of a stream: Rest, of a stream.
Left(x) ==
  (IF x.ungot = None THEN <<>> ELSE <<x.ungot>>) \o SubSeq(Content(x), Position(x) + 1, Len(Content(x)))

LEMMA LeftOf ==
  ASSUME NEW x \in FileRec, Position(x) \in Nat
  PROVE  Left(x) \in Seq(Nat)
<1>1. PICK c \in Seq(Nat), p \in Nat : c = Content(x) /\ p = Position(x)
  BY ContentOf
<1>2. PICK t \in Seq(Nat) : t = SubSeq(c, p + 1, Len(c))
  BY RestOf
<1>3. x.ungot \in Byte \cup {None} /\ Byte \subseteq Nat
  BY FieldsOf, Bounds
<1>4. PICK u \in Seq(Nat) : u = IF x.ungot = None THEN <<>> ELSE <<x.ungot>>
  <2>1. CASE x.ungot = None
    <3>1. <<>> \in Seq(Nat)
      OBVIOUS
    <3>. QED
      BY <2>1, <3>1, Zenon
  <2>2. CASE x.ungot # None
    <3>1. x.ungot \in Nat
      BY <1>3, <2>2
    <3>2. <<x.ungot>> \in Seq(Nat)
      BY <3>1
    <3>. QED
      BY <2>2, <3>2, Zenon
  <2>. QED
    BY <2>1, <2>2
<1>5. Left(x) = u \o t
  BY <1>1, <1>2, <1>4 DEF Left
<1>. QED
  BY <1>5, JoinOf

\* A byte that fgetc gives is the first of what was left.
LEMMA LeftStep ==
  ASSUME NEW x \in FileRec, NEW y \in FileRec, Position(x) \in Nat, NEW b \in Nat, GotByte(x, y, b)
  PROVE  Left(x) = <<b>> \o Left(y)
<1>1. PICK c \in Seq(Nat), p \in Nat, l \in Nat : c = Content(x) /\ p = Position(x) /\ l = Len(c)
  BY ContentOf
<1>2. b # EOF
  BY DEF EOF
<1>3. y.ungot = None /\ Content(y) = c
  BY <1>1 DEF GotByte
<1>4. CASE x.ungot # None
  <2>1. b = x.ungot /\ Position(y) = p
    BY <1>1, <1>2, <1>4 DEF GotByte
  <2>2. PICK t \in Seq(Nat) : t = SubSeq(c, p + 1, Len(c))
    BY RestOf
  <2>3. Left(y) = <<>> \o t /\ Left(x) = <<b>> \o t
    BY <1>1, <1>3, <1>4, <2>1, <2>2 DEF Left
  <2>. QED
    BY <2>2, <2>3, ConcatEmptySeq
<1>5. CASE x.ungot = None
  <2>1. p < l /\ b = c[p + 1] /\ Position(y) = p + 1
    BY <1>1, <1>2, <1>5 DEF GotByte
  <2>2. PICK q \in Nat : q = p + 1
    OBVIOUS
  <2>3. PICK t : t = SubSeq(c, p + 1, Len(c))
    OBVIOUS
  <2>4. t \in Seq(Nat) /\ Len(t) = l - p /\ \A k \in 1 .. l - p : t[k] = c[p + k]
    <3>1. /\ t \in Seq(Nat) /\ Len(t) = IF p <= Len(c) THEN Len(c) - p ELSE 0
          /\ \A k \in 1 .. Len(c) - p : t[k] = c[p + k]
      BY <2>3, RestOf
    <3>. QED
      BY <1>1, <2>1, <3>1
  <2>5. PICK u : u = SubSeq(c, q + 1, Len(c))
    OBVIOUS
  <2>6. u \in Seq(Nat) /\ Len(u) = l - q /\ \A k \in 1 .. l - q : u[k] = c[q + k]
    <3>1. /\ u \in Seq(Nat) /\ Len(u) = IF q <= Len(c) THEN Len(c) - q ELSE 0
          /\ \A k \in 1 .. Len(c) - q : u[k] = c[q + k]
      BY <2>5, RestOf
    <3>. QED
      BY <1>1, <2>1, <2>2, <3>1
  <2>7. PICK v : v = <<b>> \o u
    OBVIOUS
  <2>8. <<b>> \in Seq(Nat) /\ Len(<<b>>) = 1 /\ <<b>>[1] = b
    OBVIOUS
  <2>9. /\ v \in Seq(Nat) /\ Len(v) = 1 + Len(u) /\ (\A k \in 1 .. 1 : v[k] = <<b>>[k])
        /\ \A k \in 1 .. Len(u) : v[1 + k] = u[k]
    BY <2>6, <2>7, <2>8, JoinOf
  <2>10. \A k \in 1 .. Len(t) : t[k] = v[k]
    <3>1. TAKE k \in 1 .. Len(t)
    <3>2. CASE k = 1
      BY <2>1, <2>4, <2>8, <2>9, <3>2
    <3>3. CASE k # 1
      <4>1. PICK i \in Nat : k = 1 + i /\ i \in 1 .. l - q
        BY <1>1, <2>1, <2>2, <2>4, <3>3
      <4>2. v[1 + i] = u[i] /\ u[i] = c[q + i] /\ t[k] = c[p + k]
        BY <2>4, <2>6, <2>9, <4>1
      <4>3. q + i = p + k
        BY <2>2, <4>1
      <4>. QED
        BY <4>1, <4>2, <4>3
    <3>. QED
      BY <3>2, <3>3
  <2>11. t = v
    <3>1. Len(t) = Len(v)
      BY <1>1, <2>1, <2>2, <2>4, <2>6, <2>9, SMTT(40)
    <3>. QED
      BY <2>4, <2>9, <2>10, <3>1, SeqEqual
  <2>12. Left(x) = <<>> \o t /\ Left(y) = <<>> \o u
    BY <1>1, <1>3, <1>5, <2>1, <2>2, <2>3, <2>5 DEF Left
  <2>. QED
    BY <2>4, <2>6, <2>7, <2>11, <2>12, ConcatEmptySeq
<1>. QED
  BY <1>4, <1>5

LEMMA JoinAssociative ==
  ASSUME NEW a \in Seq(Nat), NEW b \in Seq(Nat), NEW c \in Seq(Nat)
  PROVE  (a \o b) \o c = a \o (b \o c)
BY ConcatAssociative, SMTT(40)

\* At the end nothing is left.
LEMMA LeftNothing ==
  ASSUME NEW x \in FileRec, Position(x) \in Nat, x.ungot = None, Position(x) >= Len(Content(x))
  PROVE  Left(x) = <<>>
<1>1. PICK c \in Seq(Nat), p \in Nat : c = Content(x) /\ p = Position(x) /\ Len(c) \in Nat
  BY ContentOf
<1>2. PICK t : t = SubSeq(c, p + 1, Len(c))
  OBVIOUS
<1>3. t \in Seq(Nat) /\ Len(t) = IF p <= Len(c) THEN Len(c) - p ELSE 0
  BY <1>1, <1>2, RestOf
<1>4. Len(t) = 0
  BY <1>1, <1>3
<1>5. t = <<>>
  BY <1>3, <1>4, EmptySeq
<1>6. Left(x) = <<>> \o t
  BY <1>1, <1>2 DEF Left
<1>. QED
  BY <1>5, <1>6

\* The first bytes of s \o t that s covers are those of s.
LEMMA HeadOfJoin ==
  ASSUME NEW s \in Seq(Nat), NEW t \in Seq(Nat), NEW n \in Nat, Len(s) <= n, n <= Len(s \o t)
  PROVE  /\ SubSeq(s \o t, 1, n) \in Seq(Nat) /\ Len(SubSeq(s \o t, 1, n)) = n
         /\ \A k \in 1 .. Len(s) : SubSeq(s \o t, 1, n)[k] = s[k]
<1>1. PICK w : w = s \o t
  OBVIOUS
<1>2. w \in Seq(Nat) /\ Len(s) \in Nat /\ \A k \in 1 .. Len(s) : w[k] = s[k]
  BY <1>1, JoinOf, LenProperties
<1>3. /\ SubSeq(w, 1, n) \in Seq(Nat) /\ Len(SubSeq(w, 1, n)) = n
      /\ \A k \in 1 .. n : SubSeq(w, 1, n)[k] = w[k]
  BY <1>1, <1>2, HeadOf
<1>. QED
  BY <1>1, <1>2, <1>3

\* A line is the bytes up to the first newline.
LEMMA LineOf ==
  ASSUME NEW d \in Seq(Nat), NEW g \in Seq(Nat), Len(g) > 0, Len(g) <= Len(d), \A k \in 1 .. Len(g) : d[k] = g[k],
         g[Len(g)] = NL, \A i \in 1 .. Len(g) - 1 : g[i] # NL
  PROVE  UpToLine(d) = g
<1>1. PICK m \in Nat : m = Len(g)
  BY LenProperties
<1>2. Len(d) \in Nat
  BY LenProperties
<1> DEFINE ends == {i \in 1 .. Len(d) : d[i] = NL}
<1>3. m \in ends
  BY <1>1, <1>2
<1>4. \A j \in ends : m <= j
  <2> SUFFICES ASSUME NEW j \in 1 .. Len(d), d[j] = NL, ~(m <= j)
               PROVE  FALSE
    BY <1>1
  <2>1. j \in 1 .. Len(g) - 1 /\ j \in 1 .. Len(g)
    BY <1>1, <1>2
  <2>2. d[j] = g[j] /\ g[j] # NL
    BY <2>1
  <2>. QED
    BY <2>2
<1>5. PICK i : i = CHOOSE k \in ends : \A j \in ends : k <= j
  OBVIOUS
<1>6. i \in ends /\ \A j \in ends : i <= j
  BY <1>3, <1>4, <1>5
<1>7. i = m
  BY SMTT(30), <1>1, <1>2, <1>3, <1>4, <1>6
<1>8. UpToLine(d) = SubSeq(d, 1, m)
  <2>1. ends # {}
    BY <1>3
  <2>. QED
    BY <1>5, <1>7, <2>1 DEF UpToLine
<1>9. PICK w : w = SubSeq(d, 1, m)
  OBVIOUS
<1>10. w \in Seq(Nat) /\ Len(w) = m /\ \A k \in 1 .. m : w[k] = d[k]
  BY <1>1, <1>9, HeadOf
<1>11. w = g
  BY <1>1, <1>10, SeqEqual
<1>. QED
  BY <1>8, <1>9, <1>11

\* What a loop returns is what it was to read, when it stopped for a reason.
LEMMA ExpectedOf ==
  ASSUME NEW c \in ReadCall, Limited(c), NEW g \in Seq(Nat), NEW r \in Seq(Nat), c.rest = g \o r,
         Len(g) <= c.limit, c.fn # "fread" => \A i \in 1 .. Len(g) - 1 : g[i] # NL,
         NEW line, line = (c.fn # "fread" /\ Len(g) > 0 /\ g[Len(g)] = NL),
         Len(g) = c.limit \/ line \/ r = <<>>
  PROVE  g = Expected(c)
<1>1. PICK m \in Nat, n \in Nat, a \in Nat : m = Len(g) /\ n = c.limit /\ a = Len(c.rest)
  <2>1. c.limit \in Nat /\ c.rest \in Seq(Nat)
    BY DEF ReadCall
  <2>. QED
    BY <2>1, LenProperties
<1>2. n = IF c.fn = "fgets" THEN c.n - 1 ELSE c.n
  BY <1>1 DEF Limited
<1>3. PICK e \in Nat : e = Smaller(n, a) /\ e <= n /\ e <= a /\ e \in {n, a}
  BY <1>1, SmallerOf
<1>4. PICK d : d = SubSeq(c.rest, 1, e)
  OBVIOUS
<1>5. Expected(c) = IF c.fn = "fread" THEN d ELSE UpToLine(d)
  BY <1>1, <1>2, <1>3, <1>4 DEF Expected
<1>6. Len(r) \in Nat /\ a = m + Len(r)
  BY <1>1, JoinOf, LenProperties
<1>7. m <= e
  BY <1>1, <1>3, <1>6
<1>8. d \in Seq(Nat) /\ Len(d) = e /\ \A k \in 1 .. m : d[k] = g[k]
  BY <1>1, <1>3, <1>4, <1>7, HeadOfJoin, SMTT(40)
<1>9. CASE line
  <2>1. c.fn # "fread" /\ Len(g) > 0 /\ g[Len(g)] = NL
    BY <1>9, Zenon
  <2>2. UpToLine(d) = g
    BY <1>1, <1>7, <1>8, <2>1, LineOf
  <2>. QED
    BY <1>5, <2>1, <2>2
<1>10. CASE ~line
  <2>1. e = m
    <3>1. CASE m = n
      BY <1>1, <1>3, <1>7, <3>1
    <3>2. CASE r = <<>>
      BY <1>3, <1>6, <1>7, <3>2
    <3>. QED
      BY <1>1, <1>10, <3>1, <3>2
  <2>2. d = g
    BY <1>1, <1>8, <2>1, SeqEqual
  <2>3. c.fn # "fread" => UpToLine(d) = d
    <3> SUFFICES ASSUME c.fn # "fread"
                 PROVE  UpToLine(d) = d
      OBVIOUS
    <3>1. ~(Len(g) > 0 /\ g[Len(g)] = NL)
      BY <1>10, Zenon
    <3>2. \A i \in 1 .. Len(g) : g[i] # NL
      <4>1. \A i \in 1 .. Len(g) - 1 : g[i] # NL
        OBVIOUS
      <4>. QED
        BY <1>1, <3>1, <4>1
    <3>3. {i \in 1 .. Len(d) : d[i] = NL} = {}
      BY <2>2, <3>2
    <3>. QED
      BY <3>3 DEF UpToLine
  <2>. QED
    BY <1>5, <2>2, <2>3
<1>. QED
  BY <1>9, <1>10

\* fwrite and its like: the call begins, and the bytes follow one by one.
LEMMA FwriteStart ==
  ASSUME StdioInv, NEW s \in Stream, NEW text \in Text, Fwrite(s, text)
  PROVE  StdioInv' /\ \A t \in Stream : Sees(t)
<1>1. st[s].open /\ ops < MaxOps /\ UNCHANGED <<st, hist, down, faults, exited>> /\ ops' = ops + 1
  BY DEF Fwrite, Free
<1>2. call' = [fn |-> "fwrite", s |-> s, text |-> text]
  BY DEF Fwrite
<1>3. text \in Seq(Byte) \ {<<>>}
  BY Bounds
<1>4. call' \in WriteCall /\ call'.s = s
  BY <1>2, <1>3 DEF WriteCall
<1>5. CallOK'
  <2>1. st'[call'.s].open
    BY <1>1, <1>4
  <2>. QED
    BY <1>4, <2>1 DEF CallOK
<1>6. ops' \in 0 .. MaxOps
  BY <1>1, Bounds DEF StdioInv
<1>. QED
  BY <1>1, <1>5, <1>6, SameStreams DEF StdioInv

LEMMA PutcOpen ==
  ASSUME StdioInv, NEW s \in Stream, st[s].open, NEW c \in Byte, Putc(s, c)
  PROVE  st'[s].open
<1>1. PICK x, h : x = st[s] /\ h = hist[s]
  OBVIOUS
<1>2. x \in FileRec /\ Held(s, x)
  BY <1>1, StreamsKnown DEF StreamOK
<1>3. PICK r, y : r = Fputc(s, x, c) /\ y = Dropped(x)
  OBVIOUS
<1>4. Taken(s, y, r.x, c, r.c, TRUE)
  <2>1. TRUE \in BOOLEAN /\ x.open
    BY <1>1
  <2>. QED
    BY <1>2, <1>3, <2>1, PutOf
<1>5. st'[s] = r.x
  <2>1. PICK k : Becomes(s, r.x, k)
    BY <1>1, <1>3, Zenon DEF Putc
  <2>. QED
    BY <2>1, Becoming
<1>. QED
  BY <1>4, <1>5 DEF Taken

LEMMA FwriteGoesOn ==
  ASSUME StdioInv, FwriteStep
  PROVE  StdioInv' /\ \A t \in Stream : Sees(t)
<1>1. call.fn = "fwrite" /\ Putc(call.s, Head(call.text)) /\ UNCHANGED <<ops, down, faults, exited>>
  BY DEF FwriteStep
<1>2. call \in WriteCall /\ st[call.s].open
  BY <1>1 DEF StdioInv, CallOK, NoCall, ReadCall, ReadFn, OverCall
<1>3. PICK s \in Stream, text \in Seq(Byte), c \in Byte :
        call = [fn |-> "fwrite", s |-> s, text |-> text] /\ text # <<>> /\ c = Head(text)
  <2>1. PICK s \in Stream, text \in Seq(Byte) : call = [fn |-> "fwrite", s |-> s, text |-> text] /\ text # <<>>
    BY <1>2 DEF WriteCall
  <2>2. Head(text) \in Byte
    BY <2>1, HeadTailProperties
  <2>. QED
    BY <2>1, <2>2
<1>4. call.s = s /\ call.text = text
  BY <1>3
<1>5. Putc(s, c) /\ st[s].open
  BY <1>1, <1>2, <1>3, <1>4
<1>6. st'[s].open
  BY <1>5, PutcOpen
<1>7. call' = NoCall \/ (call' = [call EXCEPT !.text = Tail(@)] /\ Len(text) # 1)
  BY <1>4 DEF FwriteStep
<1>8. CallOK'
  <2>1. CASE call' = NoCall
    BY <2>1 DEF CallOK
  <2>2. CASE call' = [call EXCEPT !.text = Tail(@)] /\ Len(text) # 1
    <3>1. PICK u : u = Tail(text)
      OBVIOUS
    <3>2. u \in Seq(Byte) /\ u # <<>>
      <4>1. u \in Seq(Byte) /\ Len(u) = Len(text) - 1
        BY <1>3, <3>1, HeadTailProperties
      <4>2. Len(text) \in Nat /\ Len(text) # 0
        BY <1>3, LenProperties, EmptySeq
      <4>3. Len(u) # 0
        BY <2>2, <4>1, <4>2
      <4>. QED
        BY <4>1, <4>3, EmptySeq
    <3>3. call' = [fn |-> "fwrite", s |-> s, text |-> u]
      BY <1>3, <2>2, <3>1
    <3>4. call' \in WriteCall /\ call'.s = s
      BY <3>2, <3>3 DEF WriteCall
    <3>5. st'[call'.s].open
      BY <1>6, <3>4
    <3>. QED
      BY <3>4, <3>5 DEF CallOK
  <2>. QED
    BY <1>7, <2>1, <2>2
<1>9. ops' \in 0 .. MaxOps
  BY <1>1 DEF StdioInv
<1>. QED
  BY <1>1, <1>5, <1>8, <1>9, PutcStep

LEMMA RestIsLeft == ASSUME NEW s PROVE Rest(s) = Left(st[s])
BY DEF Rest, Left

\* fread, fgets and getdelim begin, with everything left to read.
LEMMA ReadStart ==
  ASSUME StdioInv, NEW s \in Stream, NEW fn \in ReadFn, NEW n \in Nat, NEW limit \in Nat, limit > 0,
         limit = IF fn = "fgets" THEN n - 1 ELSE n, Reading(fn, s, n, limit)
  PROVE  StdioInv' /\ \A t \in Stream : Sees(t)
<1>1. /\ st[s].open /\ ops < MaxOps /\ s = "file" /\ ~hist[s].broken
      /\ UNCHANGED <<st, hist, down, faults, exited>> /\ ops' = ops + 1
  BY DEF Reading, Free
<1>2. PICK x, h : x = st[s] /\ h = hist[s]
  OBVIOUS
<1>3. x \in FileRec /\ Held(s, x) /\ Sound(x, h)
  BY <1>1, <1>2, StreamsKnown DEF StreamOK
<1>4. Position(x) \in Nat
  BY <1>3, PositionOf
<1>5. PICK rest : rest = Left(x)
  OBVIOUS
<1>6. rest \in Seq(Nat) /\ <<>> \in Seq(Nat)
  BY <1>3, <1>4, <1>5, LeftOf
<1>7. call' = [fn |-> fn, s |-> s, n |-> n, limit |-> limit, acc |-> <<>>, cap |-> LineCap, rest |-> rest]
  BY <1>2, <1>5, RestIsLeft, Zenon DEF Reading
<1>8. /\ call'.fn = fn /\ call'.s = s /\ call'.n = n /\ call'.limit = limit /\ call'.acc = <<>> /\ call'.rest = rest
      /\ call'.cap = LineCap /\ LineCap > 0
  BY <1>7, Bounds
<1>9. call' \in ReadCall
  BY <1>1, <1>6, <1>7, Bounds DEF ReadCall
<1>10. Limited(call')
  BY <1>8 DEF Limited
<1>11. HalfRead(call)'
  <2>1. Rest(s)' = rest
    BY <1>1, <1>2, <1>5 DEF Rest, Left
  <2>2. <<>> \o rest = rest
    BY <1>6, ConcatEmptySeq
  <2>3. call'.acc \o Rest(call.s)' = call'.rest
    BY <1>8, <2>1, <2>2
  <2>4. Len(call'.acc) = 0 /\ \A i \in 1 .. Len(call'.acc) : call'.acc[i] # NL
    BY <1>8
  <2>. QED
    BY <1>8, <2>3, <2>4 DEF HalfRead
<1>12. CallOK'
  <2>1. st'[call'.s].open
    BY <1>1, <1>8
  <2>. QED
    BY <1>9, <1>10, <1>11, <2>1 DEF CallOK
<1>13. ops' \in 0 .. MaxOps
  BY <1>1, Bounds DEF StdioInv
<1>. QED
  BY <1>1, <1>12, <1>13, SameStreams DEF StdioInv

LEMMA ReadingStarts ==
  ASSUME StdioInv, NEW s \in Stream, NEW n \in Counts, Fread(s, n) \/ Fgets(s, n)
  PROVE  StdioInv' /\ \A t \in Stream : Sees(t)
<1>1. n \in Nat /\ n > 1 /\ n - 1 \in Nat /\ n - 1 > 0
  BY Bounds
<1>2. {"fread", "fgets"} \subseteq ReadFn
  BY DEF ReadFn
<1>3. CASE Fread(s, n)
  BY <1>1, <1>2, <1>3, ReadStart DEF Fread
<1>4. CASE Fgets(s, n)
  BY <1>1, <1>2, <1>4, ReadStart DEF Fgets
<1>. QED
  BY <1>3, <1>4

LEMMA GetdelimStarts ==
  ASSUME StdioInv, NEW s \in Stream, Getdelim(s)
  PROVE  StdioInv' /\ \A t \in Stream : Sees(t)
<1>1. "getdelim" \in ReadFn /\ Disk + 2 \in Nat /\ Disk + 2 > 0
  BY Bounds DEF ReadFn
<1>. QED
  BY <1>1, ReadStart DEF Getdelim

\* A reading loop is over when what it has is what it was to read.
LEMMA ReadIsOver ==
  ASSUME NEW c \in ReadCall, NEW g \in Seq(Nat), ReadOver(c, g), Room(c, g), Trusted(c.s)' => g = Expected(c)
  PROVE  CallOK'
<1>1. call' = [fn |-> "read", of |-> c, got |-> g]
  BY DEF ReadOver
<1>2. call' \in OverCall /\ call'.of = c /\ call'.got = g
  BY <1>1 DEF OverCall
<1>3. Trusted(call.of.s)' => call'.got = Expected(call'.of)
  BY <1>2 DEF Trusted
<1>4. Room(call.of, call.got)'
  BY <1>2 DEF Room
<1>. QED
  BY <1>2, <1>3, <1>4 DEF CallOK

\* What a loop has fits when it did so before its last byte.
LEMMA RoomOf ==
  ASSUME NEW c \in ReadCall, Limited(c), NEW g \in Seq(Nat), Len(g) <= c.limit, c.fn = "getdelim" => Len(g) + 1 <= c.cap
  PROVE  Room(c, g)
<1>1. c.fn \in ReadFn /\ c.n \in Nat /\ c.limit \in Nat /\ Len(g) \in Nat
  BY LenProperties DEF ReadCall
<1>2. c.limit = IF c.fn = "fgets" THEN c.n - 1 ELSE c.n
  BY DEF Limited
<1>3. CASE c.fn = "fread"
  BY <1>1, <1>2, <1>3 DEF Room
<1>4. CASE c.fn = "fgets"
  BY <1>1, <1>2, <1>4 DEF Room
<1>5. CASE c.fn = "getdelim"
  BY <1>5 DEF Room
<1>. QED
  BY <1>1, <1>3, <1>4, <1>5 DEF ReadFn

\* One turn of a reading loop.
LEMMA ReadGoesOn ==
  ASSUME StdioInv, ReadStep
  PROVE  StdioInv' /\ \A t \in Stream : Sees(t)
<1>1. call.fn \in ReadFn /\ Getc(call.s) /\ UNCHANGED <<ops, down, faults, exited>>
  BY DEF ReadStep, ReadFn
<1>2. call \in ReadCall /\ st[call.s].open /\ Limited(call) /\ HalfRead(call)
  BY <1>1 DEF StdioInv, CallOK, NoCall, WriteCall, ReadFn, OverCall
<1>3. PICK k, s, acc, n, limit, cap : k = call /\ s = call.s /\ acc = call.acc /\ n = call.n /\ limit = call.limit /\ cap = call.cap
  OBVIOUS
<1>4. /\ k \in ReadCall /\ s \in Stream /\ s = "file" /\ acc \in Seq(Nat) /\ n \in Nat /\ limit \in Nat /\ limit > 0
      /\ k.s = s /\ k.acc = acc /\ k.limit = limit /\ k.cap = cap /\ cap \in Nat /\ k.rest \in Seq(Nat) /\ Limited(k)
  BY <1>2, <1>3 DEF ReadCall, Stream, Limited
<1>5. st[s].open /\ Getc(s)
  BY <1>1, <1>2, <1>3
<1>6. PICK x, h, y, g : x = st[s] /\ h = hist[s] /\ y = st'[s] /\ g = hist'[s]
  OBVIOUS
<1>7. /\ Becomes(s, y, g) /\ StreamOK(s, y, g) /\ y.open /\ (~g.broken => ~h.broken)
  BY <1>4, <1>5, <1>6, GetcFacts
<1>8. PICK c \in Nat \cup {EOF} : g.res = [fn |-> "fgetc", val |-> c] /\ (~g.broken => GotByte(x, y, c))
  BY <1>4, <1>5, <1>6, GetcFacts
<1>9. hist'[call.s].res.val = c
  BY <1>3, <1>6, <1>8
<1>10. PICK more : more = Append(acc, c)
  OBVIOUS
<1>11. /\ Len(acc) < limit
       /\ k.fn = "getdelim" => Len(acc) < cap
       /\ Trusted(s) => acc \o Left(x) = k.rest /\ (k.fn # "fread" => \A i \in 1 .. Len(acc) : acc[i] # NL)
  BY <1>2, <1>3, <1>4, <1>6, RestIsLeft DEF HalfRead
<1>12. Trusted(s)' => Trusted(s) /\ down = {} /\ GotByte(x, y, c) /\ ~y.err
  <2> SUFFICES ASSUME Trusted(s)'
               PROVE  Trusted(s) /\ down = {} /\ GotByte(x, y, c) /\ ~y.err
    OBVIOUS
  <2>1. ~g.broken /\ ~y.err /\ faults = 0
    BY <1>1, <1>6 DEF Trusted
  <2>2. GotByte(x, y, c) /\ ~h.broken
    BY <1>7, <1>8, <2>1
  <2>3. ~x.err
    BY <2>1, <2>2 DEF GotByte
  <2>. QED
    BY <1>6, <2>1, <2>2, <2>3 DEF Trusted, StdioInv
<1>13. ~h.broken => Position(x) \in Nat
  <2>1. x \in FileRec /\ (~h.broken => Held(s, x) /\ Sound(x, h))
    BY <1>4, <1>5, <1>6, StreamsKnown DEF StreamOK
  <2>. QED
    BY <1>4, <2>1, PositionOf
<1>14. x \in FileRec /\ y \in FileRec /\ (Trusted(s) => ~h.broken)
  BY <1>4, <1>6, <1>7, StreamsKnown DEF StreamOK, Trusted
<1>15. Len(acc) \in Nat
  BY <1>4, LenProperties
<1>16. CASE c = EOF
  <2>1. ReadOver(k, acc)
    BY <1>3, <1>9, <1>16 DEF ReadStep
  <2>2. Trusted(s)' => acc = Expected(k)
    <3> SUFFICES ASSUME Trusted(s)'
                 PROVE  acc = Expected(k)
      OBVIOUS
    <3>1. x.ungot = None /\ Position(x) >= Len(Content(x))
      BY <1>12, <1>16 DEF GotByte
    <3>2. Left(x) = <<>>
      BY <1>12, <1>13, <1>14, <3>1, LeftNothing
    <3>3. k.rest = acc \o <<>> /\ <<>> \in Seq(Nat)
      BY <1>11, <1>12, <3>2
    <3>4. Len(acc) <= k.limit
      BY <1>4, <1>11, <1>15
    <3>5. k.fn # "fread" => \A i \in 1 .. Len(acc) - 1 : acc[i] # NL
      BY <1>11, <1>12, <1>15
    <3>6. PICK line : line = (k.fn # "fread" /\ Len(acc) > 0 /\ acc[Len(acc)] = NL)
      OBVIOUS
    <3>. QED
      BY <1>4, <3>3, <3>4, <3>5, <3>6, ExpectedOf
  <2>3. Room(k, acc)
    BY <1>4, <1>11, <1>15, RoomOf
  <2>4. CallOK'
    BY <1>4, <2>1, <2>2, <2>3, ReadIsOver
  <2>. QED
    BY <1>1, <1>4, <1>5, <2>4, GetcStep DEF StdioInv
<1>17. ASSUME c # EOF
       PROVE  /\ c \in Nat /\ more \in Seq(Nat) /\ Len(more) = Len(acc) + 1 /\ more[Len(more)] = c
              /\ \A i \in 1 .. Len(acc) : more[i] = acc[i]
              /\ Trusted(s)' => /\ Left(y) \in Seq(Nat) /\ k.rest = more \o Left(y)
                                /\ k.fn # "fread" => \A i \in 1 .. Len(more) - 1 : more[i] # NL
  <2>1. c \in Nat /\ <<c>> \in Seq(Nat)
    BY <1>17
  <2>2. more = acc \o <<c>>
    BY <1>4, <1>10, <2>1
  <2>3. /\ more \in Seq(Nat) /\ Len(more) = Len(acc) + 1 /\ more[Len(more)] = c
        /\ \A i \in 1 .. Len(acc) : more[i] = acc[i]
    BY <1>4, <1>10, <1>15, <2>1
  <2>4. ASSUME Trusted(s)'
        PROVE  /\ Left(y) \in Seq(Nat) /\ k.rest = more \o Left(y)
               /\ k.fn # "fread" => \A i \in 1 .. Len(more) - 1 : more[i] # NL
    <3>1. GotByte(x, y, c) /\ Position(x) \in Nat
      BY <1>12, <1>13, <1>14, <2>4
    <3>2. Position(y) \in Nat
      BY <2>1, <1>17, <3>1 DEF GotByte
    <3>3. Left(y) \in Seq(Nat)
      BY <1>14, <3>2, LeftOf
    <3>4. Left(x) = <<c>> \o Left(y)
      BY <1>14, <2>1, <3>1, LeftStep
    <3>5. k.rest = acc \o (<<c>> \o Left(y))
      BY <1>11, <1>12, <2>4, <3>4
    <3>6. k.rest = more \o Left(y)
      <4>1. PICK d \in Seq(Nat), e \in Seq(Nat) : d = <<c>> /\ e = Left(y)
        BY <2>1, <3>3
      <4>2. (acc \o d) \o e = acc \o (d \o e)
        BY SMTT(30), <1>4, JoinAssociative
      <4>. QED
        BY <2>2, <3>5, <4>1, <4>2
    <3>7. k.fn # "fread" => \A i \in 1 .. Len(acc) : acc[i] # NL
      BY <1>11, <1>12, <2>4
    <3>8. Len(more) - 1 = Len(acc)
      BY <1>15, <2>3
    <3>. QED
      BY <2>3, <3>3, <3>6, <3>7, <3>8
  <2>. QED
    BY <2>1, <2>3, <2>4
<1>18. PICK grow \in BOOLEAN, over \in BOOLEAN :
         /\ grow = (k.fn = "getdelim" /\ Len(more) + 1 > cap)
         /\ over = (Len(more) = limit \/ (c = NL /\ k.fn # "fread"))
  OBVIOUS
<1>19. CASE c # EOF /\ grow /\ "heap" \in down
  <2>1. ReadOver(k, <<>>)
    <3>1. /\ c # EOF /\ (k.fn = "getdelim" /\ Len(more) + 1 > cap) /\ "heap" \in down
      BY <1>18, <1>19
    <3>. QED
      BY <1>3, <1>9, <1>10, <3>1 DEF ReadStep
  <2>2. ~(Trusted(s)') /\ <<>> \in Seq(Nat)
    BY <1>12, <1>19
  <2>3. Room(k, <<>>)
    <3>1. Len(<<>>) = 0 /\ <<>> \in Seq(Nat)
      OBVIOUS
    <3>2. PICK none \in Seq(Nat) : none = <<>> /\ Len(none) = 0
      BY <3>1
    <3>3. Len(none) <= k.limit /\ (k.fn = "getdelim" => Len(none) + 1 <= k.cap)
      BY <1>4, <1>11, <1>15, <3>2
    <3>4. Room(k, none)
      BY <1>4, <3>2, <3>3, RoomOf
    <3>. QED
      BY <3>2, <3>4
  <2>4. CallOK'
    BY <1>4, <2>1, <2>2, <2>3, ReadIsOver
  <2>. QED
    BY <1>1, <1>4, <1>5, <2>4, GetcStep DEF StdioInv
<1>20. PICK room \in Nat : room = IF grow THEN 2 * cap ELSE cap
  BY <1>4
<1>21. c # EOF /\ k.fn = "getdelim" => Len(more) + 1 <= room
  <2> SUFFICES ASSUME c # EOF, k.fn = "getdelim"
               PROVE  Len(more) + 1 <= room
    OBVIOUS
  <2>1. Len(acc) + 1 <= cap /\ Len(more) = Len(acc) + 1
    BY <1>4, <1>11, <1>15, <1>17
  <2>2. CASE grow
    BY <1>4, <1>15, <1>20, <2>1, <2>2
  <2>3. CASE ~grow
    <3>1. ~(Len(more) + 1 > cap)
      BY <1>18, <2>3, Zenon
    <3>. QED
      BY <1>4, <1>15, <1>20, <2>1, <2>3, <3>1
  <2>. QED
    BY <2>2, <2>3
<1>22. CASE c # EOF /\ ~(grow /\ "heap" \in down) /\ over
  <2>1. PICK q : q = [k EXCEPT !.cap = room]
    OBVIOUS
  <2>2. /\ q \in ReadCall /\ q.fn = k.fn /\ q.s = s /\ q.n = k.n /\ q.limit = k.limit /\ q.rest = k.rest /\ q.cap = room
    BY <1>4, <2>1 DEF ReadCall
  <2>3. ReadOver(q, more)
    <3>1. /\ c # EOF /\ ~((k.fn = "getdelim" /\ Len(more) + 1 > cap) /\ "heap" \in down)
          /\ Len(more) = limit \/ (c = NL /\ k.fn # "fread")
      BY <1>18, <1>22
    <3>2. ReadOver([k EXCEPT !.cap = IF k.fn = "getdelim" /\ Len(more) + 1 > cap THEN 2 * @ ELSE @], more)
      BY <1>3, <1>9, <1>10, <3>1 DEF ReadStep
    <3>3. q = [k EXCEPT !.cap = IF k.fn = "getdelim" /\ Len(more) + 1 > cap THEN 2 * @ ELSE @]
      BY <1>4, <1>18, <1>20, <2>1
    <3>. QED
      BY <3>2, <3>3
  <2>4. Trusted(s)' => more = Expected(k)
    <3> SUFFICES ASSUME Trusted(s)'
                 PROVE  more = Expected(k)
      OBVIOUS
    <3>1. /\ more \in Seq(Nat) /\ Left(y) \in Seq(Nat) /\ k.rest = more \o Left(y) /\ Len(more) = Len(acc) + 1
          /\ k.fn # "fread" => \A i \in 1 .. Len(more) - 1 : more[i] # NL
          /\ more[Len(more)] = c
      BY <1>17, <1>22
    <3>2. Len(more) <= k.limit /\ Len(more) > 0
      BY <1>4, <1>11, <1>15, <3>1
    <3>3. PICK line : line = (k.fn # "fread" /\ Len(more) > 0 /\ more[Len(more)] = NL)
      OBVIOUS
    <3>4. Len(more) = k.limit \/ line
      <4>1. Len(more) = limit \/ (c = NL /\ k.fn # "fread")
        BY <1>18, <1>22
      <4>2. CASE Len(more) = limit
        BY <1>4, <4>2
      <4>3. CASE c = NL /\ k.fn # "fread"
        <5>1. k.fn # "fread" /\ Len(more) > 0 /\ more[Len(more)] = NL
          BY <3>1, <3>2, <4>3
        <5>. QED
          BY <3>3, <5>1, Zenon
      <4>. QED
        BY <4>1, <4>2, <4>3
    <3>. QED
      BY <1>4, <3>1, <3>2, <3>3, <3>4, ExpectedOf
  <2>5. more \in Seq(Nat) /\ Len(more) <= limit
    BY <1>4, <1>11, <1>15, <1>17, <1>22
  <2>6. Limited(q)
    BY <1>4, <2>2 DEF Limited
  <2>7. Expected(q) = Expected(k)
    BY <2>2 DEF Expected
  <2>8. Room(q, more)
    BY <1>4, <1>22, <1>21, <2>5, <2>2, <2>6, RoomOf
  <2>9. CallOK'
    BY <2>3, <2>4, <2>5, <2>8, <2>2, <2>7, ReadIsOver
  <2>. QED
    BY <1>1, <1>4, <1>5, <2>9, GetcStep DEF StdioInv
<1>23. CASE c # EOF /\ ~(grow /\ "heap" \in down) /\ ~over
  <2>1. call' = [k EXCEPT !.acc = more, !.cap = IF grow THEN 2 * @ ELSE @]
    <3>1. /\ c # EOF /\ ~((k.fn = "getdelim" /\ Len(more) + 1 > cap) /\ "heap" \in down)
          /\ ~(Len(more) = limit \/ (c = NL /\ k.fn # "fread"))
      BY <1>18, <1>23
    <3>2. call' = [k EXCEPT !.acc = more, !.cap = IF k.fn = "getdelim" /\ Len(more) + 1 > cap THEN 2 * @ ELSE @]
      BY <1>3, <1>9, <1>10, <3>1 DEF ReadStep
    <3>. QED
      BY <1>18, <3>2
  <2>2. call' = [k EXCEPT !.acc = more, !.cap = room]
    BY <1>4, <1>20, <2>1
  <2>3. more \in Seq(Nat) /\ Len(more) = Len(acc) + 1 /\ more[Len(more)] = c
    BY <1>17, <1>23
  <2>4. call' \in ReadCall
    BY <1>4, <1>20, <2>2, <2>3 DEF ReadCall
  <2>5. /\ call'.fn = k.fn /\ call'.s = s /\ call'.n = k.n /\ call'.limit = limit /\ call'.acc = more /\ call'.rest = k.rest
        /\ call'.cap = room
    BY <1>4, <2>2 DEF ReadCall
  <2>6. Limited(call')
    BY <1>4, <2>5 DEF Limited
  <2>7. Len(more) < limit /\ (k.fn # "fread" => c # NL)
    <3>1. ~(Len(more) = limit \/ (c = NL /\ k.fn # "fread"))
      BY <1>18, <1>23
    <3>. QED
      BY <1>4, <1>11, <1>15, <2>3, <3>1
  <2>8. HalfRead(call)'
    <3>1. Rest(call.s)' = Left(y)
      BY <1>6, <2>5 DEF Rest, Left
    <3>2. Trusted(call.s)' <=> Trusted(s)'
      BY <2>5 DEF Trusted
    <3>3. ASSUME Trusted(s)'
          PROVE  more \o Left(y) = k.rest /\ (k.fn # "fread" => \A i \in 1 .. Len(more) : more[i] # NL)
      <4>1. k.rest = more \o Left(y) /\ (k.fn # "fread" => \A i \in 1 .. Len(more) - 1 : more[i] # NL)
        BY <1>17, <1>23, <3>3
      <4>2. Len(more) \in Nat
        BY <1>15, <2>3
      <4>. QED
        BY <2>3, <2>7, <4>1, <4>2
    <3>4. k.fn = "getdelim" => Len(more) < room
      <4>1. Len(more) \in Nat
        BY <1>15, <2>3
      <4>. QED
        BY <1>23, <1>20, <1>21, <4>1
    <3>. QED
      BY <2>5, <2>7, <3>1, <3>2, <3>3, <3>4 DEF HalfRead
  <2>9. st'[call'.s].open
    BY <1>6, <1>7, <2>5
  <2>10. CallOK'
    BY <2>4, <2>6, <2>8, <2>9 DEF CallOK
  <2>. QED
    BY <1>1, <1>4, <1>5, <2>10, GetcStep DEF StdioInv
<1>. QED
  BY <1>16, <1>19, <1>22, <1>23

LEMMA ReadReturnsStep ==
  ASSUME StdioInv, ReadReturns
  PROVE  StdioInv' /\ \A t \in Stream : Sees(t)
BY SameStreams DEF StdioInv, ReadReturns, CallOK

\* A loop that is held up does not see that a service starts to fail or stops to.
LEMMA CallHolds ==
  ASSUME StdioInv, UNCHANGED <<st, call, hist>>, faults' = 0 => faults = 0
  PROVE  CallOK'
<1>1. CASE call = NoCall
  BY <1>1 DEF CallOK
<1>2. CASE call \in WriteCall /\ st[call.s].open
  BY <1>2 DEF CallOK
<1>3. CASE call \in ReadCall /\ st[call.s].open /\ Limited(call) /\ HalfRead(call)
  <2>1. Trusted(call.s)' => Trusted(call.s)
    BY DEF Trusted
  <2>2. Rest(call.s)' = Rest(call.s)
    BY DEF Rest
  <2>3. HalfRead(call)'
    BY <1>3, <2>1, <2>2 DEF HalfRead
  <2>. QED
    BY <1>3, <2>3 DEF CallOK
<1>4. CASE call \in OverCall /\ Room(call.of, call.got) /\ (Trusted(call.of.s) => call.got = Expected(call.of))
  <2>1. Trusted(call.of.s)' => Trusted(call.of.s)
    BY DEF Trusted
  <2>2. Room(call.of, call.got)'
    BY <1>4 DEF Room
  <2>. QED
    BY <1>4, <2>1, <2>2 DEF CallOK
<1>. QED
  BY <1>1, <1>2, <1>3, <1>4 DEF StdioInv, CallOK

LEMMA FailsStep ==
  ASSUME StdioInv, NEW d \in {"fs", "heap"}, Fails(d) \/ Recovers(d)
  PROVE  StdioInv' /\ \A t \in Stream : Sees(t)
<1>1. /\ UNCHANGED <<st, call, ops, exited, hist>> /\ faults \in 0 .. MaxFaults /\ ops \in 0 .. MaxOps
      /\ down \subseteq {"fs", "heap"} /\ MaxFaults \in Nat /\ (faults = 0 => down = {})
  BY Bounds DEF Fails, Recovers, StdioInv
<1>2. faults' \in 0 .. MaxFaults /\ down' \subseteq {"fs", "heap"} /\ faults' # 0
  <2>1. CASE Fails(d)
    BY <1>1, <2>1 DEF Fails
  <2>2. CASE Recovers(d)
    BY <1>1, <2>2 DEF Recovers
  <2>. QED
    BY <2>1, <2>2
<1>3. CallOK'
  BY <1>1, <1>2, CallHolds
<1>. QED
  BY <1>1, <1>2, <1>3, SameStreams

LEMMA NextStep ==
  ASSUME StdioInv, [Next]_vars
  PROVE  StdioInv' /\ \A t \in Stream : Sees(t)
<1>1. ASSUME NEW s \in Stream, NEW c \in Byte, CallFputc(s, c) \/ Ungetc(s, c)
      PROVE  StdioInv' /\ \A t \in Stream : Sees(t)
  BY <1>1, CallFputcStep, UngetcStep
<1>2. ASSUME NEW s \in Stream, CallFgetc(s) \/ Ftell(s) \/ Fflush(s) \/ Clearerr(s)
      PROVE  StdioInv' /\ \A t \in Stream : Sees(t)
  BY <1>2, CallFgetcStep, FtellStep, FflushStep, ClearerrStep
<1>3. ASSUME NEW s \in Stream, Fclose(s) \/ OpenMemstream(s) \/ Getdelim(s)
      PROVE  StdioInv' /\ \A t \in Stream : Sees(t)
  BY <1>3, FcloseStep, OpenMemstreamStep, GetdelimStarts
<1>4. ASSUME NEW s \in Stream, NEW text \in Text, Fwrite(s, text)
      PROVE  StdioInv' /\ \A t \in Stream : Sees(t)
  BY <1>4, FwriteStart
<1>5. ASSUME NEW s \in Stream, NEW n \in Counts, Fread(s, n) \/ Fgets(s, n)
      PROVE  StdioInv' /\ \A t \in Stream : Sees(t)
  BY <1>5, ReadingStarts
<1>6. ASSUME NEW s \in Stream, NEW offset \in Offsets, NEW whence \in {"set", "cur", "end"}, Fseek(s, offset, whence)
      PROVE  StdioInv' /\ \A t \in Stream : Sees(t)
  BY <1>6, FseekStep
<1>7. ASSUME NEW s \in Stream, NEW mode \in {"FBF", "LBF", "NBF"}, NEW size \in Sizes, NEW own \in BOOLEAN,
             Setvbuf(s, mode, size, own)
      PROVE  StdioInv' /\ \A t \in Stream : Sees(t)
  BY <1>7, SetvbufStep DEF BufMode
<1>8. ASSUME NEW s \in Stream, NEW m \in Modes, Fopen(s, m) \/ Freopen(s, m)
      PROVE  StdioInv' /\ \A t \in Stream : Sees(t)
  BY <1>8, FopenStep, FreopenStep
<1>9. CASE FwriteStep \/ ReadStep \/ ReadReturns \/ Exit
  BY <1>9, FwriteGoesOn, ReadGoesOn, ReadReturnsStep, ExitStep
<1>10. ASSUME NEW d \in {"fs", "heap"}, Fails(d) \/ Recovers(d)
       PROVE  StdioInv' /\ \A t \in Stream : Sees(t)
  BY <1>10, FailsStep
<1>11. CASE UNCHANGED vars
  <2>1. UNCHANGED <<st, down, call, ops, faults, exited, hist>>
    BY <1>11 DEF vars
  <2>2. CallOK'
    BY <2>1, CallHolds
  <2>. QED
    BY <2>1, <2>2, SameStreams DEF StdioInv
<1>. QED
  BY <1>1, <1>2, <1>3, <1>4, <1>5, <1>6, <1>7, <1>8, <1>9, <1>10, <1>11 DEF Next, Steps
-----------------------------------------------------------------------------
LEMMA InitHolds ==
  ASSUME Init
  PROVE  StdioInv /\ \A s \in Stream : Bytes(s)!Init
<1>1. PICK i \in Seq(Nat) : i = InitData /\ Len(i) \in Nat
  BY Bounds, LenProperties
<1>2. PICK k : k = [exact |-> TRUE, last |-> "none", broken |-> FALSE, res |-> [fn |-> "none", val |-> 0]]
  OBVIOUS
<1>3. k \in HistRec /\ k.exact = TRUE /\ k.last = "none" /\ k.broken = FALSE /\ k.res = [fn |-> "none", val |-> 0]
  <2>1. [fn |-> "none", val |-> 0] \in Outcome
    BY DEF Outcome
  <2>. QED
    BY <1>2, <2>1 DEF HistRec
<1>4. PICK a, b, c : a = File(TRUE, "LBF", <<>>, 0) /\ b = File(FALSE, "FBF", <<>>, 0) /\ c = File(FALSE, "FBF", i, Len(i))
  OBVIOUS
<1>5. "LBF" \in BufMode /\ "FBF" \in BufMode /\ <<>> \in Seq(Nat) /\ 0 \in Nat /\ TRUE \in BOOLEAN /\ FALSE \in BOOLEAN
  BY DEF BufMode
<1>6. ASSUME NEW s \in Stream
      PROVE  /\ st[s] \in FileRec /\ hist[s] \in HistRec /\ StreamOK(s, st[s], hist[s]) /\ Bytes(s)!Init
             /\ s = "console" => st[s].open
  <2>1. hist[s] = k
    BY <1>2 DEF Init
  <2>2. PICK open \in BOOLEAN, mode \in BufMode, d \in Seq(Nat), o \in Nat :
          /\ st[s] = File(open, mode, d, o) /\ o = Len(d) /\ (s = "console" <=> open) /\ (open => Len(d) = 0)
    <3>1. CASE s = "console"
      <4>1. st[s] = a /\ Len(<<>>) = 0
        BY <1>4, <3>1 DEF Init
      <4>. QED
        BY <1>4, <1>5, <3>1, <4>1
    <3>2. CASE s = "mem"
      <4>1. st[s] = b /\ Len(<<>>) = 0
        BY <1>4, <3>2 DEF Init
      <4>. QED
        BY <1>4, <1>5, <3>2, <4>1
    <3>3. CASE s = "file"
      <4>1. st[s] = c
        BY <1>1, <1>4, <3>3 DEF Init
      <4>. QED
        BY <1>1, <1>4, <1>5, <3>3, <4>1
    <3>. QED
      BY <3>1, <3>2, <3>3 DEF Stream
  <2>3. PICK x : x = st[s] /\ x = File(open, mode, d, o)
    BY <2>2
  <2>4. /\ x \in FileRec /\ x.open = open /\ x.err = FALSE /\ x.buf = <<>> /\ x.bufmode = mode /\ x.rpos = 0 /\ x.rlen = 0
        /\ x.wlen = 0 /\ x.pos = 0 /\ x.ungot = None /\ x.data = d /\ x.off = o /\ x.mscap = 1
    <3>1. <<>> \in Seq(Nat) /\ None \in Byte \cup {None} /\ 0 \in Nat /\ 1 \in Nat /\ FALSE \in BOOLEAN
      OBVIOUS
    <3>2. x \in FileRec
      <4>1. x = File(open, mode, d, o) /\ open \in BOOLEAN /\ mode \in BufMode /\ d \in Seq(Nat) /\ o \in Nat
        BY <2>2, <2>3
      <4>. QED
        BY <3>1, <4>1, Zenon DEF File, FileRec
    <3>. QED
      BY <2>3, <3>2 DEF File
  <2>5. x.open => Held(s, x) /\ Sound(x, k)
    <3>1. Len(x.buf) = 0
      BY <2>4
    <3>. QED
      BY <1>3, <2>2, <2>4, <3>1 DEF Held, Sound
  <2>6. StreamOK(s, x, k)
    BY <1>3, <2>4, <2>5 DEF StreamOK
  <2>7. Content(x) = d
    BY <2>4, ContentOf
  <2>8. Position(x) = o
    <3>1. x.off = o /\ x.wlen = 0 /\ x.rlen = 0 /\ x.rpos = 0
      BY <2>4
    <3>2. Position(x) = o + 0 - (0 - 0)
      BY <3>1, Zenon DEF Position
    <3>3. o + 0 - (0 - 0) = o
      BY <2>2
    <3>. QED
      BY <3>2, <3>3, Zenon
  <2>9. Bytes(s)!Init
    BY <1>3, <2>1, <2>2, <2>4, <2>7, <2>8, <2>3 DEF Bytes!Init, Bytes!None, None
  <2>. QED
    BY <1>3, <2>1, <2>2, <2>4, <2>6, <2>9, <2>3
<1>7. /\ DOMAIN st = Stream /\ DOMAIN hist = Stream /\ st = [s \in Stream |-> st[s]] /\ hist = [s \in Stream |-> hist[s]]
      /\ down = {} /\ call = NoCall /\ ops = 0 /\ faults = 0 /\ exited = FALSE
  <2>1. /\ DOMAIN st = Stream /\ DOMAIN hist = Stream
        /\ down = {} /\ call = NoCall /\ ops = 0 /\ faults = 0 /\ exited = FALSE
    BY DEF Init
  <2> DEFINE F(s) == CASE s = "console" -> File(TRUE, "LBF", <<>>, 0)
                       [] s = "mem" -> File(FALSE, "FBF", <<>>, 0)
                       [] s = "file" -> File(FALSE, "FBF", InitData, Len(InitData))
  <2>2. st = [s \in Stream |-> F(s)]
    BY Zenon DEF Init
  <2> HIDE DEF F
  <2>3. st = [s \in Stream |-> st[s]]
    BY <2>2, Zenon
  <2>4. hist = [s \in Stream |-> hist[s]]
    BY Zenon DEF Init
  <2>. QED
    BY <2>1, <2>3, <2>4
<1>8. st \in [Stream -> FileRec] /\ hist \in [Stream -> HistRec]
  BY <1>6, <1>7
<1>9. CallOK
  BY <1>7 DEF CallOK
<1>10. "console" \in Stream
  BY DEF Stream
<1>11. ops \in 0 .. MaxOps /\ faults \in 0 .. MaxFaults
  BY <1>7, Bounds
<1>. QED
  BY <1>6, <1>7, <1>8, <1>9, <1>10, <1>11 DEF StdioInv
-----------------------------------------------------------------------------
(* What holds of the streams.                                                *)

\* StdioInv holds in every reachable state, whatever the order of the calls
\* and of the failures: what fgetc, fputc, refill, flush_write and drop_read
\* keep to is enough for the calls built on them, fread and getdelim included.
THEOREM StreamsHold == Spec => []StdioInv
<1>1. Init => StdioInv
  BY InitHolds
<1>2. StdioInv /\ [Next]_vars => StdioInv'
  BY NextStep
<1>. QED
  BY <1>1, <1>2, PTL DEF Spec

\* BuffersHold: the indices into a stream's one buffer (rpos, rlen, wlen) never
\* leave it, and it is never used for reading and for writing at once, for
\* every size of buffer (refill, fputc, setvbuf), and what open_memstream's
\* memory holds fits it, with the final zero (ms_append).
THEOREM BuffersAlwaysHold == Spec => []BuffersHold
<1>1. ASSUME StdioInv
      PROVE  BuffersHold
  <2>1. ASSUME NEW s \in Stream, NEW x, NEW h, x = st[s], h = hist[s]
        PROVE  /\ {x.open, x.err, x.eof} \subseteq BOOLEAN /\ x.bufmode \in {"FBF", "LBF", "NBF"}
               /\ {x.rpos, x.rlen, x.wlen, x.pos, x.off} \subseteq Nat /\ x.ungot \in Byte \cup {None}
               /\ x.buf \in Seq(Nat) /\ x.data \in Seq(Nat)
               /\ x.open /\ ~h.broken =>
                    /\ x.rpos <= x.rlen /\ x.rlen <= Len(x.buf)
                    /\ x.buf # <<>> => x.bufcap = Len(x.buf) /\ x.wlen < x.bufcap
                    /\ x.buf = <<>> => x.wlen = 0
                    /\ x.wlen > 0 => x.rpos = x.rlen
                    /\ s = "mem" => Len(x.data) < x.mscap
    <3>1. x \in FileRec /\ (x.open => Held(s, x)) /\ (x.open /\ ~h.broken => Sound(x, h))
      BY <1>1, <2>1, StreamsKnown DEF StreamOK
    <3>2. /\ x.open \in BOOLEAN /\ x.err \in BOOLEAN /\ x.eof \in BOOLEAN /\ x.bufmode \in BufMode
          /\ x.buf \in Seq(Nat) /\ x.bufcap \in Nat /\ x.rpos \in Nat /\ x.rlen \in Nat /\ x.wlen \in Nat
          /\ x.pos \in Nat /\ x.ungot \in Byte \cup {None} /\ x.data \in Seq(Nat) /\ x.off \in Nat
          /\ Len(x.buf) \in Nat
      BY <3>1, FieldsOf
    <3>3. x.buf # <<>> => Len(x.buf) > 0
      BY <3>2, EmptySeq
    <3>4. x.open /\ ~h.broken =>
            /\ x.rpos <= x.rlen /\ x.rlen <= Len(x.buf)
            /\ x.buf # <<>> => x.bufcap = Len(x.buf) /\ x.wlen < x.bufcap
            /\ x.buf = <<>> => x.wlen = 0
            /\ x.wlen > 0 => x.rpos = x.rlen
            /\ s = "mem" => Len(x.data) < x.mscap
      BY <3>1, <3>2, <3>3 DEF Held, Sound
    <3>. QED
      BY <3>2, <3>4 DEF BufMode
  <2>2. /\ down \subseteq {"fs", "heap"} /\ ops \in 0 .. MaxOps /\ faults \in 0 .. MaxFaults /\ exited \in BOOLEAN
    BY <1>1 DEF StdioInv
  <2>3. TypeOK
    BY ZenonT(40), <2>1, <2>2 DEF TypeOK
  <2>4. OneUse
    BY <2>1 DEF OneUse
  <2>. QED
    BY <2>3, <2>4 DEF BuffersHold
<1>. QED
  BY <1>1, StreamsHold, PTL

\* PromptLines: no newline waits in the buffer of a line-buffered stream, so
\* what a program prints to the console is there line by line (fputc), also
\* after setvbuf, a seek, a read in between or a flush that failed before.
THEOREM LinesArePrompt == Spec => []PromptLines
<1>1. ASSUME StdioInv
      PROVE  PromptLines
  <2> SUFFICES ASSUME NEW s \in Stream, ~hist[s].broken, st[s].bufmode = "LBF"
               PROVE  ~Contains(Pending(st[s]), NL)
    BY DEF PromptLines
  <2>1. PICK x, h, d : x = st[s] /\ h = hist[s] /\ d = Pending(x)
    OBVIOUS
  <2>2. x \in FileRec /\ (x.open => Held(s, x) /\ Sound(x, h)) /\ (~x.open => x.buf = <<>>)
    BY <1>1, <2>1, StreamsKnown DEF StreamOK
  <2>3. x.wlen \in Nat /\ x.buf \in Seq(Nat) /\ Len(x.buf) \in Nat
    BY <2>2, FieldsOf
  <2>4. Len(d) = Smaller(x.wlen, Len(x.buf)) /\ \A i \in 1 .. Len(d) : d[i] = x.buf[i]
    BY <2>1, <2>2, PendingOf
  <2>5. \A i \in 1 .. Len(d) : d[i] # NL
    <3>1. CASE x.open
      <4>1. \A i \in 1 .. x.wlen : x.buf[i] # NL
        BY <2>1, <2>2, <3>1 DEF Sound
      <4>2. Len(d) \in Nat /\ Len(d) <= x.wlen
        BY <2>3, <2>4, SmallerOf
      <4>. QED
        BY <2>3, <2>4, <4>1, <4>2
    <3>2. CASE ~x.open
      <4>1. Len(x.buf) = 0
        BY <2>2, <3>2
      <4>2. Len(d) = 0
        BY <2>3, <2>4, <4>1 DEF Smaller
      <4>. QED
        BY <4>2
    <3>. QED
      BY <3>1, <3>2
  <2>. QED
    BY <2>1, <2>5 DEF Contains
<1>. QED
  BY <1>1, StreamsHold, PTL

\* ReadsWhatIsThere: a loop over fgetc returns the next bytes of the file, up
\* to its limit or the end of a line, whatever was pushed back, read ahead or
\* not yet written when it began (fread, fgets, getdelim), for every file; and
\* what it returns has room for its final zero, whatever fails.
THEOREM LoopsReadWhatIsThere == Spec => []ReadsWhatIsThere
<1>1. ASSUME StdioInv
      PROVE  ReadsWhatIsThere
  <2> SUFFICES ASSUME call.fn = "read"
               PROVE  Room(call.of, call.got) /\ (Trusted(call.of.s) => call.got = Expected(call.of))
    BY DEF ReadsWhatIsThere, Trusted
  <2>. QED
    BY <1>1 DEF StdioInv, CallOK, NoCall, WriteCall, ReadCall, ReadFn
<1>. QED
  BY <1>1, StreamsHold, PTL

\* The streams that Stdio names are those of the instance with a parameter.
LEMMA FileBytesSame ==
  /\ Bytes("file")!Init => FileBytes!Init
  /\ [Bytes("file")!Next]_(Bytes("file")!vars) => [FileBytes!Next]_(FileBytes!vars)
<1>1. Bytes("file")!Next => FileBytes!Next
  BY DEF Bytes!OpenFails, Bytes!Open, Bytes!Put, Bytes!Get, Bytes!GetNothing, Bytes!Unget, Bytes!Seek,
         Bytes!SeekFails, Bytes!Tell, Bytes!Quiet, Bytes!Exit, Bytes!Fault, Bytes!Blind,
         Bytes!Hole, Bytes!Abandon, Bytes!Next, Bytes!None, Bytes!EOF, Bytes!Overlay,
         FileBytes!OpenFails, FileBytes!Open, FileBytes!Put, FileBytes!Get, FileBytes!GetNothing, FileBytes!Unget,
         FileBytes!Seek, FileBytes!SeekFails, FileBytes!Tell, FileBytes!Quiet, FileBytes!Exit,
         FileBytes!Fault, FileBytes!Blind, FileBytes!Hole, FileBytes!Abandon, FileBytes!Next,
         FileBytes!None, FileBytes!EOF, FileBytes!Overlay
<1>2. (Bytes("file")!Init => FileBytes!Init) /\ (UNCHANGED Bytes("file")!vars => UNCHANGED FileBytes!vars)
  BY DEF Bytes!Init, FileBytes!Init, Bytes!vars, FileBytes!vars, Bytes!None, FileBytes!None
<1>. QED
  BY SMTT(30), <1>1, <1>2

LEMMA ConsoleBytesSame ==
  /\ Bytes("console")!Init => ConsoleBytes!Init
  /\ [Bytes("console")!Next]_(Bytes("console")!vars) => [ConsoleBytes!Next]_(ConsoleBytes!vars)
<1>1. Bytes("console")!Next => ConsoleBytes!Next
  BY DEF Bytes!OpenFails, Bytes!Open, Bytes!Put, Bytes!Get, Bytes!GetNothing, Bytes!Unget, Bytes!Seek,
         Bytes!SeekFails, Bytes!Tell, Bytes!Quiet, Bytes!Exit, Bytes!Fault, Bytes!Blind,
         Bytes!Hole, Bytes!Abandon, Bytes!Next, Bytes!None, Bytes!EOF, Bytes!Overlay,
         ConsoleBytes!OpenFails, ConsoleBytes!Open, ConsoleBytes!Put, ConsoleBytes!Get, ConsoleBytes!GetNothing,
         ConsoleBytes!Unget, ConsoleBytes!Seek, ConsoleBytes!SeekFails, ConsoleBytes!Tell,
         ConsoleBytes!Quiet, ConsoleBytes!Exit, ConsoleBytes!Fault, ConsoleBytes!Blind,
         ConsoleBytes!Hole, ConsoleBytes!Abandon, ConsoleBytes!Next, ConsoleBytes!None,
         ConsoleBytes!EOF, ConsoleBytes!Overlay
<1>2. (Bytes("console")!Init => ConsoleBytes!Init) /\ (UNCHANGED Bytes("console")!vars => UNCHANGED ConsoleBytes!vars)
  BY DEF Bytes!Init, ConsoleBytes!Init, Bytes!vars, ConsoleBytes!vars, Bytes!None, ConsoleBytes!None
<1>. QED
  BY SMTT(30), <1>1, <1>2

LEMMA MemoryBytesSame ==
  /\ Bytes("mem")!Init => MemoryBytes!Init
  /\ [Bytes("mem")!Next]_(Bytes("mem")!vars) => [MemoryBytes!Next]_(MemoryBytes!vars)
<1>1. Bytes("mem")!Next => MemoryBytes!Next
  BY DEF Bytes!OpenFails, Bytes!Open, Bytes!Put, Bytes!Get, Bytes!GetNothing, Bytes!Unget, Bytes!Seek,
         Bytes!SeekFails, Bytes!Tell, Bytes!Quiet, Bytes!Exit, Bytes!Fault, Bytes!Blind,
         Bytes!Hole, Bytes!Abandon, Bytes!Next, Bytes!None, Bytes!EOF, Bytes!Overlay,
         MemoryBytes!OpenFails, MemoryBytes!Open, MemoryBytes!Put, MemoryBytes!Get, MemoryBytes!GetNothing,
         MemoryBytes!Unget, MemoryBytes!Seek, MemoryBytes!SeekFails, MemoryBytes!Tell,
         MemoryBytes!Quiet, MemoryBytes!Exit, MemoryBytes!Fault, MemoryBytes!Blind,
         MemoryBytes!Hole, MemoryBytes!Abandon, MemoryBytes!Next, MemoryBytes!None,
         MemoryBytes!EOF, MemoryBytes!Overlay
<1>2. (Bytes("mem")!Init => MemoryBytes!Init) /\ (UNCHANGED Bytes("mem")!vars => UNCHANGED MemoryBytes!vars)
  BY DEF Bytes!Init, MemoryBytes!Init, Bytes!vars, MemoryBytes!vars, Bytes!None, MemoryBytes!None
<1>. QED
  BY SMTT(30), <1>1, <1>2

\* StreamsAreBytes: the stream that fopen gives, the console and the memory
\* stream are each a sequence of bytes with a position (ByteStream), whatever
\* buffering, order of calls, push-backs, seeks, reopening and failures: every
\* step of stdio.c is a step of the abstract stream or none that it sees.
THEOREM StreamsImplementBytes == Spec => StreamsAreBytes
<1>1. "file" \in Stream /\ "console" \in Stream /\ "mem" \in Stream
  BY DEF Stream
<1>2. Init => Bytes("file")!Init /\ Bytes("console")!Init /\ Bytes("mem")!Init
  BY <1>1, InitHolds
<1>3. Init => FileBytes!Init /\ ConsoleBytes!Init /\ MemoryBytes!Init
  BY <1>2, FileBytesSame, ConsoleBytesSame, MemoryBytesSame
<1>4. ASSUME StdioInv, [Next]_vars
      PROVE  /\ [Bytes("file")!Next]_(Bytes("file")!vars) /\ [Bytes("console")!Next]_(Bytes("console")!vars)
             /\ [Bytes("mem")!Next]_(Bytes("mem")!vars)
  BY <1>1, <1>4, NextStep DEF Sees
<1>5. StdioInv /\ [Next]_vars => [FileBytes!Next]_(FileBytes!vars)
  BY <1>4, FileBytesSame
<1>6. StdioInv /\ [Next]_vars => [ConsoleBytes!Next]_(ConsoleBytes!vars)
  BY <1>4, ConsoleBytesSame
<1>7. StdioInv /\ [Next]_vars => [MemoryBytes!Next]_(MemoryBytes!vars)
  BY <1>4, MemoryBytesSame
<1>8. Spec => FileBytes!Spec
  BY <1>3, <1>5, StreamsHold, PTL DEF Spec, FileBytes!Spec
<1>9. Spec => ConsoleBytes!Spec
  BY <1>3, <1>6, StreamsHold, PTL DEF Spec, ConsoleBytes!Spec
<1>10. Spec => MemoryBytes!Spec
  BY <1>3, <1>7, StreamsHold, PTL DEF Spec, MemoryBytes!Spec
<1>. QED
  BY <1>8, <1>9, <1>10 DEF StreamsAreBytes, FileIsBytes, ConsoleIsBytes, MemoryIsBytes
=============================================================================
