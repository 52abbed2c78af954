--------------------------- MODULE ProcessProofs ----------------------------
(****************************************************************************)
(* The process layer of the C library for any number of processes,          *)
(* children, handlers and calls.                                            *)
(****************************************************************************)
EXTENDS Process, SequenceTheorems, FiniteSetTheorems, WellFoundedInduction, TLAPS

Ident == [pid : Pid, gen : Nat]
Note == {"interrupt", "kill", "terminate"}
Action == [h : {"dfl", "ign", "fn"}, reset : BOOLEAN, runs : Nat]
HookRec == [n : Nat, k : {"plain", "adds", "exits"}]
RanRec == [n : Nat, of : Nat]
LibRec ==
  [kids : Seq(Ident), sa : [Sig -> Action], notify : BOOLEAN, hooks : Seq(HookRec), made : Nat, ran : Seq(RanRec)]

\* Whom system waits for; waitpid waits for nobody in particular.
Own == Ident \cup {NoRec}
InSystem == [fn : {"system"}, id : Ident]
InJoin == [fn : {"join"}, for : {"waitpid", "system"}, i : Nat, own : Own]
InExit == [fn : {"exit"}, code : Int]
Place == {Nothing} \cup InSystem \cup InJoin \cup InExit

Failed == [fn : {"waitpid", "system"}, err : {"ECHILD"}]
Waited == [fn : {"waitpid", "system"}, id : Ident, status : 0 .. 255, intr : BOOLEAN, own : Own]
Result == {Nothing} \cup Failed \cup Waited

ProcRec ==
  [live : BOOLEAN, gen : Nat, parent : Nat, notes : Seq(Note), handler : BOOLEAN, insig : Sig \cup {"none"},
   lib : LibRec, pc : Place, ret : Result]

\* The handlers of exit: numbered as they came, all of them still in the table
\* or run; those in the table in order; none was run before a later one that
\* was there then.
HooksOK(l) ==
  /\ Len(l.hooks) + Len(l.ran) = l.made
  /\ \A i \in 1 .. Len(l.hooks) : l.hooks[i].n \in 1 .. l.made
  /\ \A i \in 1 .. Len(l.ran) : l.ran[i].n \in 1 .. l.made /\ l.ran[i].of <= l.made
  /\ \A i, j \in 1 .. Len(l.hooks) : i < j => l.hooks[i].n < l.hooks[j].n
  /\ \A k \in 1 .. l.made : \/ \E i \in 1 .. Len(l.hooks) : l.hooks[i].n = k
                            \/ \E i \in 1 .. Len(l.ran) : l.ran[i].n = k
  /\ \A i, j \in 1 .. Len(l.ran) : i < j => l.ran[j].n < l.ran[i].n \/ l.ran[j].n > l.ran[i].of
  /\ \A i \in 1 .. Len(l.hooks), j \in 1 .. Len(l.ran) :
       l.hooks[i].n < l.ran[j].n \/ l.hooks[i].n > l.ran[j].of

\* A one-shot handler that is installed has not run, unless it runs now.
OneShotOK(x) ==
  \A s \in Sig : x.lib.sa[s].reset =>
    x.lib.sa[s].runs <= 1 /\ (x.lib.sa[s].h = "fn" /\ x.insig # s => x.lib.sa[s].runs = 0)

BoundsOK(x) ==
  /\ x.gen <= MaxGen /\ Len(x.notes) <= NNote /\ Len(x.lib.kids) <= ChildMax /\ Len(x.lib.hooks) <= AtexitMax
  /\ x.pc.fn = "join" => x.pc.i \in 1 .. Len(x.lib.kids)

\* What holds of every process, from what it has itself.
ProcOK(x) ==
  x \in ProcRec /\ BoundsOK(x) /\ (x.lib.notify <=> x.handler) /\ OneShotOK(x) /\ HooksOK(x.lib)

EndRec == [id : Ident, code : Int, how : {"exit", "note"}, ran : Seq(RanRec), made : Nat]

TableInv ==
  /\ DOMAIN proc = Pid /\ proc \in [Pid -> ProcRec]
  /\ \A i \in Pid : ProcOK(proc[i])
  /\ ring \in [0 .. Records - 1 -> [pid : Nat, gen : Nat, code : Int]] /\ next \in 0 .. Records - 1
  /\ ops \in 0 .. MaxOps /\ ended \in Seq(EndRec)
  /\ HandlersRunOnce
-----------------------------------------------------------------------------
(* The least of a set of numbers; sequences that lose an element.            *)

LEMMA LeastOf ==
  ASSUME NEW S, S \subseteq Nat, S # {}
  PROVE  \E m \in S : \A k \in S : m <= k
<1>1. PICK m \in S : \A k \in S : <<k, m>> \notin OpToRel(<, Nat)
  BY NatLessThanWellFounded, WFMin, Zenon
<1>2. \A k \in S : ~(k \in Nat /\ m \in Nat /\ k < m)
  BY <1>1, Zenon DEF OpToRel
<1>. QED
  BY <1>2

LEMMA FrontOf ==
  ASSUME NEW S, NEW s \in Seq(S), s # <<>>
  PROVE  /\ Front(s) \in Seq(S) /\ Len(Front(s)) = Len(s) - 1
         /\ \A i \in 1 .. Len(s) - 1 : Front(s)[i] = s[i]
         /\ Last(s) = s[Len(s)] /\ Last(s) \in S /\ Len(s) \in Nat /\ Len(s) > 0
<1>1. /\ Len(s) \in Nat /\ Len(s) > 0
      /\ 1 \in Int /\ Len(s) - 1 \in Int /\ \A i \in 1 .. Len(s) - 1 : s[i] \in S
  BY EmptySeq, LenProperties, ElementOfSeq
<1>2. /\ Front(s) \in Seq(S)
      /\ Len(Front(s)) = IF 1 <= Len(s) - 1 THEN Len(s) - 1 - 1 + 1 ELSE 0
      /\ \A i \in 1 .. Len(s) - 1 - 1 + 1 : Front(s)[i] = s[1 + i - 1]
  BY <1>1, SubSeqProperties DEF Front
<1>3. Last(s) = s[Len(s)] /\ Last(s) \in S
  BY <1>1, ElementOfSeq DEF Last
<1>4. Len(Front(s)) = Len(s) - 1
  <2> DEFINE n == Len(s)
             k == Len(Front(s))
  <2>1. n \in Nat /\ n > 0 /\ k = IF 1 <= n - 1 THEN n - 1 - 1 + 1 ELSE 0
    BY <1>1, <1>2
  <2> HIDE DEF n, k
  <2>2. k = n - 1
    BY <2>1
  <2>. QED
    BY <2>2 DEF n, k
<1>5. ASSUME NEW i \in 1 .. Len(s) - 1
      PROVE  Front(s)[i] = s[i]
  <2>1. i \in 1 .. Len(s) - 1 - 1 + 1 /\ 1 + i - 1 = i
    BY <1>1
  <2>2. Front(s)[i] = s[1 + i - 1]
    BY <1>2, <2>1
  <2>. QED
    BY <2>1, <2>2
<1>. QED
  BY <1>1, <1>2, <1>3, <1>4, <1>5

LEMMA RemovedOf ==
  ASSUME NEW S, NEW s \in Seq(S), NEW i \in 1 .. Len(s)
  PROVE  /\ RemoveAt(s, i) \in Seq(S) /\ Len(RemoveAt(s, i)) = Len(s) - 1
         /\ \A j \in 1 .. Len(s) - 1 : RemoveAt(s, i)[j] = IF j < i THEN s[j] ELSE s[j + 1]
<1> DEFINE u == SubSeq(s, 1, i - 1)
           v == SubSeq(s, i + 1, Len(s))
<1>0. Len(s) \in Nat /\ i \in Int /\ 1 <= i /\ i <= Len(s) /\ \A j \in 1 .. Len(s) : s[j] \in S
  BY LenProperties, ElementOfSeq
<1>1. u \in Seq(S) /\ Len(u) = i - 1 /\ \A j \in 1 .. i - 1 : u[j] = s[j]
  <2>1. 1 \in Int /\ i - 1 \in Int /\ \A j \in 1 .. i - 1 : s[j] \in S
    BY <1>0
  <2>2. /\ u \in Seq(S) /\ Len(u) = IF 1 <= i - 1 THEN i - 1 - 1 + 1 ELSE 0
        /\ \A j \in 1 .. i - 1 - 1 + 1 : u[j] = s[1 + j - 1]
    BY <2>1, SubSeqProperties
  <2> HIDE DEF u
  <2>3. Len(u) = i - 1
    BY <1>0, <2>2
  <2>4. ASSUME NEW j \in 1 .. i - 1
        PROVE  u[j] = s[j]
    <3>1. j \in 1 .. i - 1 - 1 + 1 /\ 1 + j - 1 = j
      BY <1>0
    <3>2. u[j] = s[1 + j - 1]
      BY <2>2, <3>1
    <3>. QED
      BY <3>1, <3>2
  <2>. QED
    BY <2>2, <2>3, <2>4
<1>2. v \in Seq(S) /\ Len(v) = Len(s) - i /\ \A j \in 1 .. Len(s) - i : v[j] = s[i + j]
  <2>1. i + 1 \in Int /\ Len(s) \in Int /\ \A j \in i + 1 .. Len(s) : s[j] \in S
    BY <1>0
  <2>2. /\ v \in Seq(S) /\ Len(v) = IF i + 1 <= Len(s) THEN Len(s) - (i + 1) + 1 ELSE 0
        /\ \A j \in 1 .. Len(s) - (i + 1) + 1 : v[j] = s[(i + 1) + j - 1]
    BY <2>1, SubSeqProperties
  <2> HIDE DEF v
  <2>3. Len(v) = Len(s) - i
    BY <1>0, <2>2
  <2>4. ASSUME NEW j \in 1 .. Len(s) - i
        PROVE  v[j] = s[i + j]
    <3>1. j \in 1 .. Len(s) - (i + 1) + 1 /\ (i + 1) + j - 1 = i + j
      BY <1>0
    <3>2. v[j] = s[(i + 1) + j - 1]
      BY <2>2, <3>1
    <3>. QED
      BY <3>1, <3>2
  <2>. QED
    BY <2>2, <2>3, <2>4
<1> HIDE DEF u, v
<1>3. /\ u \o v \in Seq(S) /\ Len(u \o v) = Len(u) + Len(v)
      /\ \A j \in 1 .. Len(u) + Len(v) : (u \o v)[j] = IF j <= Len(u) THEN u[j] ELSE v[j - Len(u)]
  BY <1>1, <1>2, ConcatProperties
<1>5. RemoveAt(s, i) = u \o v
  BY DEF RemoveAt, u, v
<1>6. Len(u) + Len(v) = Len(s) - 1
  BY <1>0, <1>1, <1>2
<1>7. ASSUME NEW j \in 1 .. Len(s) - 1
      PROVE  (u \o v)[j] = IF j < i THEN s[j] ELSE s[j + 1]
  <2>1. CASE j < i
    BY <1>0, <1>1, <1>3, <1>6, <2>1
  <2>2. CASE ~(j < i)
    <3>1. j - (i - 1) \in 1 .. Len(s) - i /\ i + (j - (i - 1)) = j + 1 /\ ~(j <= i - 1)
      BY <1>0, <2>2
    <3>2. (u \o v)[j] = v[j - (i - 1)]
      BY <1>1, <1>3, <1>6, <3>1
    <3>3. v[j - (i - 1)] = s[i + (j - (i - 1))]
      BY <1>2, <3>1
    <3>. QED
      BY <2>2, <3>1, <3>2, <3>3
  <2>. QED
    BY <2>1, <2>2
<1>. QED
  BY <1>3, <1>5, <1>6, <1>7
-----------------------------------------------------------------------------
(* One process's record, as the calls change it.                             *)

LEMMA Constants ==
  /\ Pid \subseteq Nat /\ 1 \in Pid /\ 0 \notin Pid
  /\ ChildMax \in Nat /\ AtexitMax \in Nat /\ Records \in Nat /\ Records > 0 /\ NNote \in Nat
  /\ MaxGen \in Nat /\ MaxGen > 0 /\ MaxOps \in Nat /\ Code \subseteq Int
<1>1. \A i \in 1 .. Cardinality(Pid) : i \in Nat /\ i # 0
  OBVIOUS
<1>2. Pid \subseteq Nat /\ 0 \notin Pid
  BY <1>1, ConstantsOK, Zenon
<1>. QED
  BY <1>2, ConstantsOK

LEMMA Nowhere == Nothing \in Place /\ Nothing \in Result /\ Nothing.fn = "none"
BY DEF Nothing, Place, Result

LEMMA SameHooks ==
  ASSUME NEW l, NEW m, HooksOK(m), l.hooks = m.hooks, l.ran = m.ran, l.made = m.made
  PROVE  HooksOK(l)
BY DEF HooksOK

LEMMA FreshIsOK ==
  /\ FreshLib \in LibRec /\ HooksOK(FreshLib)
  /\ FreshLib.kids = <<>> /\ FreshLib.hooks = <<>> /\ FreshLib.ran = <<>> /\ FreshLib.made = 0
  /\ FreshLib.notify = FALSE /\ \A s \in Sig : FreshLib.sa[s] = Default
<1>1. /\ FreshLib.kids = <<>> /\ FreshLib.hooks = <<>> /\ FreshLib.ran = <<>> /\ FreshLib.made = 0
      /\ FreshLib.notify = FALSE /\ FreshLib.sa = [s \in Sig |-> Default]
  BY DEF FreshLib
<1>2. Default \in Action
  BY DEF Default, Action
<1>3. FreshLib \in LibRec
  BY <1>2 DEF FreshLib, LibRec
<1>4. HooksOK(FreshLib)
  BY <1>1 DEF HooksOK
<1>. QED
  BY <1>1, <1>3, <1>4

\* The process goes on in another function of the library, or returns.
LEMMA PutPlace ==
  ASSUME NEW x, ProcOK(x), NEW v \in Place, NEW w \in Result,
         v.fn = "join" => v.i \in 1 .. Len(x.lib.kids)
  PROVE  ProcOK([x EXCEPT !.pc = v, !.ret = w])
<1> DEFINE y == [x EXCEPT !.pc = v, !.ret = w]
<1>1. y \in ProcRec
  BY DEF ProcOK, ProcRec
<1>2. /\ y.pc = v /\ y.lib = x.lib /\ y.gen = x.gen /\ y.notes = x.notes /\ y.handler = x.handler
      /\ y.insig = x.insig
  BY DEF ProcOK, ProcRec
<1> HIDE DEF y
<1>3. ProcOK(y)
  BY <1>1, <1>2 DEF ProcOK, BoundsOK, OneShotOK
<1>. QED
  BY <1>3 DEF y

\* The table of children changes as well.
LEMMA PutKids ==
  ASSUME NEW x, ProcOK(x), NEW y \in ProcRec, y.pc.fn # "join", Len(y.lib.kids) <= ChildMax,
         y.gen = x.gen, y.notes = x.notes, y.handler = x.handler, y.insig = x.insig,
         y.lib.sa = x.lib.sa, y.lib.notify = x.lib.notify, y.lib.hooks = x.lib.hooks,
         y.lib.made = x.lib.made, y.lib.ran = x.lib.ran
  PROVE  ProcOK(y)
<1>1. BoundsOK(y) /\ OneShotOK(y) /\ (y.lib.notify <=> y.handler)
  BY DEF ProcOK, BoundsOK, OneShotOK
<1>2. HooksOK(y.lib)
  BY SameHooks DEF ProcOK
<1>. QED
  BY <1>1, <1>2 DEF ProcOK

\* The library's state changes, but for children and signals.
LEMMA PutLib ==
  ASSUME NEW x, ProcOK(x), NEW l \in LibRec, l.sa = x.lib.sa, l.notify = x.lib.notify, l.kids = x.lib.kids,
         HooksOK(l), Len(l.hooks) <= AtexitMax, NEW w \in Result
  PROVE  ProcOK([x EXCEPT !.lib = l, !.ret = w]) /\ ProcOK([x EXCEPT !.lib = l])
<1> DEFINE y == [x EXCEPT !.lib = l, !.ret = w]
           z == [x EXCEPT !.lib = l]
<1>1. y \in ProcRec /\ z \in ProcRec
  BY DEF ProcOK, ProcRec
<1>2. /\ y.pc = x.pc /\ y.lib = l /\ y.gen = x.gen /\ y.notes = x.notes /\ y.handler = x.handler
      /\ y.insig = x.insig
  BY DEF ProcOK, ProcRec
<1>3. /\ z.pc = x.pc /\ z.lib = l /\ z.gen = x.gen /\ z.notes = x.notes /\ z.handler = x.handler
      /\ z.insig = x.insig
  BY DEF ProcOK, ProcRec
<1> HIDE DEF y, z
<1>4. ProcOK(y)
  BY <1>1, <1>2 DEF ProcOK, BoundsOK, OneShotOK
<1>5. ProcOK(z)
  BY <1>1, <1>3 DEF ProcOK, BoundsOK, OneShotOK
<1>. QED
  BY <1>4, <1>5 DEF y, z

\* exec and the end of a process: the library starts anew.
LEMMA Anew ==
  ASSUME NEW x, ProcOK(x), x.pc.fn # "join",
         NEW y \in ProcRec, y.lib = FreshLib, y.handler = FALSE, y.gen = x.gen, y.pc \in {x.pc, Nothing},
         y.notes \in {x.notes, <<>>}
  PROVE  ProcOK(y)
<1>1. BoundsOK(y)
  BY FreshIsOK, Constants, Nowhere DEF ProcOK, BoundsOK
<1>2. OneShotOK(y)
  BY FreshIsOK DEF OneShotOK, Default
<1>. QED
  BY <1>1, <1>2, FreshIsOK DEF ProcOK

LEMMA Numbered ==
  ASSUME NEW l \in LibRec
  PROVE  /\ l.made \in Nat /\ Len(l.hooks) \in Nat /\ Len(l.ran) \in Nat
         /\ \A i \in 1 .. Len(l.hooks) : l.hooks[i].n \in Nat
         /\ \A i \in 1 .. Len(l.ran) : l.ran[i].n \in Nat /\ l.ran[i].of \in Nat
<1>1. l.hooks \in Seq(HookRec) /\ l.made \in Nat /\ l.ran \in Seq(RanRec)
  BY DEF LibRec
<1>2. /\ Len(l.hooks) \in Nat /\ Len(l.ran) \in Nat
      /\ \A i \in 1 .. Len(l.hooks) : l.hooks[i] \in HookRec
      /\ \A i \in 1 .. Len(l.ran) : l.ran[i] \in RanRec
  BY <1>1, LenProperties, ElementOfSeq
<1>3. /\ \A x \in HookRec : x.n \in Nat
      /\ \A x \in RanRec : x.n \in Nat /\ x.of \in Nat
  BY DEF HookRec, RanRec
<1>. QED
  BY <1>1, <1>2, <1>3

LEMMA PutHooks ==
  ASSUME NEW l \in LibRec, NEW a \in Seq(HookRec), NEW n \in Nat, NEW b \in Seq(RanRec)
  PROVE  /\ [l EXCEPT !.hooks = a, !.made = n] \in LibRec
         /\ [l EXCEPT !.hooks = a, !.ran = b] \in LibRec
BY DEF LibRec

\* A handler of exit is registered.
LEMMA RegisteredIsOK ==
  ASSUME NEW l \in LibRec, HooksOK(l), Len(l.hooks) <= AtexitMax, NEW k \in {"plain", "adds", "exits"}
  PROVE  LET m == Registered(l, k) IN
         /\ m \in LibRec /\ HooksOK(m) /\ Len(m.hooks) <= AtexitMax
         /\ m.sa = l.sa /\ m.notify = l.notify /\ m.kids = l.kids
<1> DEFINE m == Registered(l, k)
           e == [n |-> l.made + 1, k |-> k]
<1>1. CASE Len(l.hooks) = AtexitMax
  BY <1>1 DEF Registered
<1>2. CASE Len(l.hooks) # AtexitMax
  <2>1. m = [l EXCEPT !.hooks = Append(@, e), !.made = @ + 1]
    BY <1>2 DEF Registered
  <2>2. l.hooks \in Seq(HookRec) /\ l.made \in Nat /\ l.ran \in Seq(RanRec)
    BY DEF LibRec
  <2>3. e \in HookRec /\ e.n = l.made + 1
    BY <2>2 DEF HookRec
  <2> HIDE DEF e
  <2>4. /\ Append(l.hooks, e) \in Seq(HookRec) /\ Len(Append(l.hooks, e)) = Len(l.hooks) + 1
        /\ \A i \in 1 .. Len(l.hooks) : Append(l.hooks, e)[i] = l.hooks[i]
        /\ Append(l.hooks, e)[Len(l.hooks) + 1] = e
    BY <2>2, <2>3
  <2>5. m \in LibRec
    <3>1. l.made + 1 \in Nat
      BY <2>2
    <3>. QED
      <4>1. [l EXCEPT !.hooks = Append(l.hooks, e), !.made = l.made + 1] \in LibRec
        BY <2>2, <2>4, <3>1, PutHooks, Zenon
      <4>. QED
        BY <2>1, <4>1, Zenon
  <2>6. /\ m.sa = l.sa /\ m.notify = l.notify /\ m.kids = l.kids
        /\ m.hooks = Append(l.hooks, e) /\ m.made = l.made + 1 /\ m.ran = l.ran
    BY <2>1 DEF LibRec
  <2> HIDE DEF m
  <2>7. /\ Len(l.hooks) \in Nat /\ Len(l.ran) \in Nat
        /\ \A i \in 1 .. Len(l.hooks) : l.hooks[i].n \in Nat
        /\ \A i \in 1 .. Len(l.ran) : l.ran[i].n \in Nat /\ l.ran[i].of \in Nat
    BY Numbered
  <2>8. \A i \in 1 .. Len(m.hooks) :
          \/ i \in 1 .. Len(l.hooks) /\ m.hooks[i] = l.hooks[i]
          \/ i = Len(l.hooks) + 1 /\ m.hooks[i].n = l.made + 1
    BY <2>3, <2>4, <2>6, <2>7
  <2>9. HooksOK(m)
    <3>1. /\ Len(m.hooks) = Len(l.hooks) + 1 /\ Len(m.ran) = Len(l.ran)
          /\ Len(m.hooks) + Len(m.ran) = m.made
      <4>1. Len(l.hooks) + Len(l.ran) = l.made
        BY DEF HooksOK
      <4>2. Len(m.hooks) = Len(l.hooks) + 1
        BY <2>4, <2>6
      <4>3. Len(m.ran) = Len(l.ran) /\ m.made = l.made + 1
        BY <2>6
      <4>4. Len(l.hooks) \in Nat /\ Len(l.ran) \in Nat /\ l.made \in Nat
        BY <2>2, <2>7
      <4>. QED
        <5>1. (Len(l.hooks) + 1) + Len(l.ran) = l.made + 1
          <6> DEFINE a == Len(l.hooks)
                     b == Len(l.ran)
                     c == l.made
          <6>1. a \in Nat /\ b \in Nat /\ c \in Nat /\ a + b = c
            BY <4>1, <4>4
          <6> HIDE DEF a, b, c
          <6>2. (a + 1) + b = c + 1
            BY <6>1
          <6>. QED
            BY <6>2 DEF a, b, c
        <5>. QED
          BY <4>2, <4>3, <5>1, Zenon
    <3>2. \A i \in 1 .. Len(m.hooks) : m.hooks[i].n \in 1 .. m.made
      <4>1. \A i \in 1 .. Len(l.hooks) : l.hooks[i].n \in 1 .. l.made
        BY DEF HooksOK
      <4>2. m.made = l.made + 1 /\ l.made \in Nat
        BY <2>2, <2>6
      <4> TAKE i \in 1 .. Len(m.hooks)
      <4>3. CASE i \in 1 .. Len(l.hooks) /\ m.hooks[i] = l.hooks[i]
        <5>1. m.hooks[i].n \in 1 .. l.made
          BY <4>1, <4>3, Zenon
        <5>. QED
          BY <4>2, <5>1
      <4>4. CASE m.hooks[i].n = l.made + 1
        BY <4>2, <4>4
      <4>. QED
        BY <2>8, <4>3, <4>4, Zenon
    <3>3. \A i \in 1 .. Len(m.ran) : m.ran[i].n \in 1 .. m.made /\ m.ran[i].of <= m.made
      <4>1. \A i \in 1 .. Len(l.ran) : l.ran[i].n \in 1 .. l.made /\ l.ran[i].of <= l.made /\ l.ran[i].of \in Nat
        BY <2>7 DEF HooksOK
      <4>2. m.made = l.made + 1 /\ l.made \in Nat /\ m.ran = l.ran
        BY <2>2, <2>6
      <4> TAKE i \in 1 .. Len(m.ran)
      <4>3. m.ran[i].n \in 1 .. l.made /\ m.ran[i].of <= l.made /\ m.ran[i].of \in Nat
        BY <4>1, <4>2, Zenon
      <4>. QED
        BY <4>2, <4>3
    <3>4. \A i, j \in 1 .. Len(m.hooks) : i < j => m.hooks[i].n < m.hooks[j].n
      <4>1. /\ \A i, j \in 1 .. Len(l.hooks) : i < j => l.hooks[i].n < l.hooks[j].n
            /\ \A i \in 1 .. Len(l.hooks) : l.hooks[i].n <= l.made
        BY DEF HooksOK
      <4> TAKE i \in 1 .. Len(m.hooks), j \in 1 .. Len(m.hooks)
      <4>2. CASE j \in 1 .. Len(l.hooks) /\ m.hooks[j] = l.hooks[j]
        BY <2>7, <2>8, <4>1, <4>2, SMTT(30)
      <4>3. CASE j = Len(l.hooks) + 1 /\ m.hooks[j].n = l.made + 1
        <5>1. CASE i \in 1 .. Len(l.hooks) /\ m.hooks[i] = l.hooks[i]
          <6>1. l.hooks[i].n <= l.made /\ l.hooks[i].n \in Nat
            BY <2>7, <4>1, <5>1
          <6>. QED
            BY <2>2, <4>3, <5>1, <6>1
        <5>2. CASE i = Len(l.hooks) + 1
          BY <2>7, <4>3, <5>2
        <5>. QED
          BY <2>8, <5>1, <5>2
      <4>. QED
        BY <2>8, <4>2, <4>3
    <3>5. \A i \in 1 .. Len(l.hooks) : i \in 1 .. Len(m.hooks) /\ m.hooks[i] = l.hooks[i]
      BY <2>4, <2>6, <2>7, <3>1
    <3>6. Len(m.hooks) \in 1 .. Len(m.hooks) /\ m.hooks[Len(m.hooks)].n = m.made
      BY <2>3, <2>4, <2>6, <2>7, <3>1
    <3>7. \A j \in 1 .. m.made : \/ \E i \in 1 .. Len(m.hooks) : m.hooks[i].n = j
                                 \/ \E i \in 1 .. Len(m.ran) : m.ran[i].n = j
      <4> TAKE j \in 1 .. m.made
      <4>1. CASE j = m.made
        BY <3>6, <4>1
      <4>2. CASE j # m.made
        <5>1. j \in 1 .. l.made
          BY <2>2, <2>6, <4>2
        <5>. QED
          BY <2>6, <3>5, <5>1 DEF HooksOK
      <4>. QED
        BY <4>1, <4>2
    <3>8. \A i \in 1 .. Len(m.hooks), j \in 1 .. Len(m.ran) :
            m.hooks[i].n < m.ran[j].n \/ m.hooks[i].n > m.ran[j].of
      BY SMTT(30), <2>2, <2>6, <2>7, <2>8 DEF HooksOK
    <3>9. \A i, j \in 1 .. Len(m.ran) : i < j => m.ran[j].n < m.ran[i].n \/ m.ran[j].n > m.ran[i].of
      BY <2>6 DEF HooksOK
    <3>. QED
      BY <3>1, <3>2, <3>3, <3>4, <3>7, <3>8, <3>9 DEF HooksOK
  <2>10. Len(m.hooks) <= AtexitMax
    BY <1>2, <2>4, <2>6, <2>7, Constants
  <2>. QED
    BY <2>5, <2>6, <2>9, <2>10 DEF m
<1>. QED
  BY <1>1, <1>2

\* exit takes the last handler off the table and calls it.
LEMMA TakenOffIsOK ==
  ASSUME NEW l \in LibRec, HooksOK(l), Len(l.hooks) <= AtexitMax, l.hooks # <<>>
  PROVE  LET m == [l EXCEPT !.hooks = Front(@), !.ran = Append(@, [n |-> Last(l.hooks).n, of |-> l.made])] IN
         /\ m \in LibRec /\ HooksOK(m) /\ Len(m.hooks) <= AtexitMax
         /\ m.sa = l.sa /\ m.notify = l.notify /\ m.kids = l.kids
<1> DEFINE h == Last(l.hooks)
           e == [n |-> h.n, of |-> l.made]
           m == [l EXCEPT !.hooks = Front(@), !.ran = Append(@, e)]
           k == Len(l.hooks)
<1>1. l.hooks \in Seq(HookRec) /\ l.made \in Nat /\ l.ran \in Seq(RanRec)
  BY DEF LibRec
<1>2. /\ Front(l.hooks) \in Seq(HookRec) /\ Len(Front(l.hooks)) = k - 1 /\ k \in Nat /\ k > 0
      /\ \A i \in 1 .. k - 1 : Front(l.hooks)[i] = l.hooks[i]
      /\ h = l.hooks[k] /\ h \in HookRec
  BY <1>1, FrontOf
<1> HIDE DEF h
<1>3. e \in RanRec /\ e.n = h.n /\ e.of = l.made /\ h.n \in Nat
  BY <1>1, <1>2 DEF RanRec, HookRec
<1> HIDE DEF e
<1>4. /\ Append(l.ran, e) \in Seq(RanRec) /\ Len(Append(l.ran, e)) = Len(l.ran) + 1
      /\ \A i \in 1 .. Len(l.ran) : Append(l.ran, e)[i] = l.ran[i]
      /\ Append(l.ran, e)[Len(l.ran) + 1] = e
  BY <1>1, <1>3
<1>5. m \in LibRec
  BY <1>1, <1>2, <1>4, PutHooks
<1>6. /\ m.sa = l.sa /\ m.notify = l.notify /\ m.kids = l.kids
      /\ m.hooks = Front(l.hooks) /\ m.made = l.made /\ m.ran = Append(l.ran, e)
  BY DEF LibRec
<1> HIDE DEF m
<1>7. /\ Len(l.ran) \in Nat
      /\ \A i \in 1 .. k : l.hooks[i].n \in Nat
      /\ \A i \in 1 .. Len(l.ran) : l.ran[i].n \in Nat /\ l.ran[i].of \in Nat
  BY Numbered
<1>8. \A i \in 1 .. Len(m.hooks) : i \in 1 .. k /\ i < k /\ m.hooks[i] = l.hooks[i]
  BY <1>2, <1>6
<1>9. \A i \in 1 .. Len(m.ran) :
        \/ i \in 1 .. Len(l.ran) /\ m.ran[i] = l.ran[i]
        \/ i = Len(l.ran) + 1 /\ m.ran[i].n = l.hooks[k].n /\ m.ran[i].of = l.made
  BY <1>2, <1>3, <1>4, <1>6, <1>7
<1>10. k \in 1 .. k
  BY <1>2
<1>11. HooksOK(m)
  <2>1. /\ Len(m.hooks) = k - 1 /\ Len(m.ran) = Len(l.ran) + 1 /\ Len(m.hooks) + Len(m.ran) = m.made
    <3>1. k + Len(l.ran) = l.made
      BY DEF HooksOK
    <3>2. Len(m.hooks) = k - 1 /\ k \in Nat
      BY <1>2, <1>6
    <3>3. Len(m.ran) = Len(l.ran) + 1 /\ Len(l.ran) \in Nat /\ m.made = l.made /\ l.made \in Nat
      BY <1>1, <1>4, <1>6, <1>7
    <3> HIDE DEF k
    <3>. QED
      BY <3>1, <3>2, <3>3
  <2>2. \A i \in 1 .. Len(m.hooks) : m.hooks[i].n \in 1 .. m.made
    BY <1>6, <1>8 DEF HooksOK
  <2>3. \A i \in 1 .. Len(m.ran) : m.ran[i].n \in 1 .. m.made /\ m.ran[i].of <= m.made
    BY SMTT(30), <1>1, <1>6, <1>9, <1>10 DEF HooksOK
  <2>4. \A i, j \in 1 .. Len(m.hooks) : i < j => m.hooks[i].n < m.hooks[j].n
    BY <1>8 DEF HooksOK
  <2>5. \A i \in 1 .. k : i = k \/ (i \in 1 .. Len(m.hooks) /\ m.hooks[i] = l.hooks[i])
    BY <1>2, <1>6, <2>1
  <2>6. /\ \A i \in 1 .. Len(l.ran) : i \in 1 .. Len(m.ran) /\ m.ran[i] = l.ran[i]
        /\ Len(m.ran) \in 1 .. Len(m.ran) /\ m.ran[Len(m.ran)].n = l.hooks[k].n
    BY <1>2, <1>3, <1>4, <1>6, <1>7, <2>1
  <2>7. \A j \in 1 .. m.made : \/ \E i \in 1 .. Len(m.hooks) : m.hooks[i].n = j
                               \/ \E i \in 1 .. Len(m.ran) : m.ran[i].n = j
    <3> TAKE j \in 1 .. m.made
    <3>1. \/ \E i \in 1 .. k : l.hooks[i].n = j
          \/ \E i \in 1 .. Len(l.ran) : l.ran[i].n = j
      BY <1>6 DEF HooksOK
    <3>. QED
      BY <2>5, <2>6, <3>1
  <2>8. \A i \in 1 .. Len(m.hooks) : m.hooks[i].n < l.hooks[k].n
    BY <1>8, <1>10 DEF HooksOK
  <2>9. \A i \in 1 .. Len(m.hooks), j \in 1 .. Len(m.ran) :
          m.hooks[i].n < m.ran[j].n \/ m.hooks[i].n > m.ran[j].of
    BY <1>8, <1>9, <2>8 DEF HooksOK
  <2>10. \A i, j \in 1 .. Len(m.ran) : i < j => m.ran[j].n < m.ran[i].n \/ m.ran[j].n > m.ran[i].of
    <3> TAKE i \in 1 .. Len(m.ran), j \in 1 .. Len(m.ran)
    <3> SUFFICES ASSUME i < j
                 PROVE  m.ran[j].n < m.ran[i].n \/ m.ran[j].n > m.ran[i].of
      OBVIOUS
    <3>1. i \in 1 .. Len(l.ran) /\ m.ran[i] = l.ran[i]
      BY <1>7, <1>9
    <3>2. CASE j \in 1 .. Len(l.ran) /\ m.ran[j] = l.ran[j]
      BY <3>1, <3>2 DEF HooksOK
    <3>3. CASE m.ran[j].n = l.hooks[k].n
      BY <1>10, <3>1, <3>3 DEF HooksOK
    <3>. QED
      BY <1>9, <3>2, <3>3
  <2>. QED
    BY <2>1, <2>2, <2>3, <2>4, <2>7, <2>9, <2>10 DEF HooksOK
<1>12. Len(m.hooks) <= AtexitMax
  BY <1>2, <1>6, Constants
<1>. QED
  BY <1>5, <1>6, <1>11, <1>12 DEF m, e, h

\* Signals leave children and handlers of exit alone.
LEMMA OnlySignals ==
  ASSUME NEW x, ProcOK(x), NEW y \in ProcRec, y.gen = x.gen, y.pc = x.pc, Len(y.notes) <= NNote,
         y.lib.kids = x.lib.kids, y.lib.hooks = x.lib.hooks, y.lib.made = x.lib.made, y.lib.ran = x.lib.ran,
         y.lib.notify <=> y.handler, OneShotOK(y)
  PROVE  ProcOK(y)
<1>1. HooksOK(y.lib)
  BY SameHooks DEF ProcOK
<1>. QED
  BY <1>1 DEF ProcOK, BoundsOK

LEMMA ActionOf ==
  ASSUME NEW x \in ProcRec, NEW s \in Sig
  PROVE  x.lib.sa[s] \in Action /\ x.lib \in LibRec
BY DEF ProcRec, LibRec

LEMMA InstalledIsOK ==
  ASSUME NEW x, ProcOK(x), NEW sig \in Sig, NEW h \in {"dfl", "ign", "fn"}, NEW reset \in BOOLEAN
  PROVE  LET y == Installed(x, sig, h, reset) IN
         ProcOK(y) /\ y.live = x.live /\ y.gen = x.gen /\ y.lib.kids = x.lib.kids /\ y.insig = x.insig
<1> DEFINE a == [h |-> h, reset |-> reset, runs |-> 0]
           y == Installed(x, sig, h, reset)
<1>0. a \in Action /\ a.runs = 0
  BY DEF Action
<1> HIDE DEF a
<1>1. y = [x EXCEPT !.lib.sa[sig] = a, !.lib.notify = TRUE, !.handler = x.handler \/ ~x.lib.notify]
  BY DEF Installed, a
<1> HIDE DEF y
<1>2. x \in ProcRec /\ (x.lib.notify <=> x.handler) /\ x.lib \in LibRec
  BY DEF ProcOK, ProcRec
<1>3. (x.handler \/ ~x.lib.notify) = TRUE
  BY <1>2
<1>4. y = [x EXCEPT !.lib.sa[sig] = a, !.lib.notify = TRUE, !.handler = TRUE]
  BY <1>1, <1>3
<1>5. y \in ProcRec
  BY <1>0, <1>2, <1>4 DEF ProcRec, LibRec
<1>6. /\ y.live = x.live /\ y.gen = x.gen /\ y.pc = x.pc /\ y.notes = x.notes /\ y.insig = x.insig
      /\ y.handler = TRUE /\ y.lib.notify = TRUE /\ y.lib.kids = x.lib.kids /\ y.lib.hooks = x.lib.hooks
      /\ y.lib.made = x.lib.made /\ y.lib.ran = x.lib.ran
  BY <1>2, <1>4 DEF ProcRec, LibRec
<1>7. \A s \in Sig : y.lib.sa[s] = IF s = sig THEN a ELSE x.lib.sa[s]
  BY <1>2, <1>4 DEF ProcRec, LibRec
<1>8. OneShotOK(y)
  BY <1>0, <1>6, <1>7 DEF OneShotOK, ProcOK
<1>9. ProcOK(y)
  BY <1>5, <1>6, <1>8, OnlySignals DEF ProcOK, BoundsOK
<1>. QED
  BY <1>6, <1>9 DEF y

\* A note is taken off the queue, and its handler begins.
LEMMA NotedIsOK ==
  ASSUME NEW x, ProcOK(x), x.insig = "none", x.notes # <<>>, NEW sig \in Sig
  PROVE  LET y == [x EXCEPT !.notes = Tail(@), !.insig = sig] IN
         /\ ProcOK(y) /\ y.live = x.live /\ y.gen = x.gen /\ y.lib = x.lib /\ y.insig = sig
<1> DEFINE y == [x EXCEPT !.notes = Tail(@), !.insig = sig]
<1>1. x \in ProcRec /\ x.notes \in Seq(Note)
  BY DEF ProcOK, ProcRec
<1>2. Tail(x.notes) \in Seq(Note) /\ Len(Tail(x.notes)) = Len(x.notes) - 1 /\ Len(x.notes) \in Nat
  BY <1>1
<1>3. y \in ProcRec
  BY <1>1, <1>2 DEF ProcRec
<1>4. /\ y.live = x.live /\ y.gen = x.gen /\ y.pc = x.pc /\ y.notes = Tail(x.notes) /\ y.insig = sig
      /\ y.handler = x.handler /\ y.lib = x.lib
  BY <1>1 DEF ProcRec
<1> HIDE DEF y
<1>5. "none" \notin Sig
  BY DEF Sig
<1>6. OneShotOK(y)
  BY <1>4, <1>5 DEF OneShotOK, ProcOK
<1>7. Len(y.notes) <= NNote
  BY <1>2, <1>4, Constants DEF ProcOK, BoundsOK
<1>8. ProcOK(y)
  BY <1>3, <1>4, <1>6, <1>7, OnlySignals DEF ProcOK
<1>. QED
  BY <1>4, <1>8 DEF y

\* It runs.
LEMMA RunsIsOK ==
  ASSUME NEW x, ProcOK(x), NEW sig \in Sig, x.insig = sig,
         x.lib.sa[sig].reset => x.lib.sa[sig].runs = 0
  PROVE  LET y == [x EXCEPT !.lib.sa[sig].runs = @ + 1] IN
         /\ ProcOK(y) /\ y.live = x.live /\ y.gen = x.gen /\ y.lib.kids = x.lib.kids
<1> DEFINE y == [x EXCEPT !.lib.sa[sig].runs = @ + 1]
           b == x.lib.sa[sig]
           a == [b EXCEPT !.runs = @ + 1]
<1>1. x \in ProcRec /\ b \in Action /\ x.lib \in LibRec
  BY ActionOf DEF ProcOK
<1> HIDE DEF b
<1>2. a \in Action /\ a.reset = b.reset /\ a.h = b.h /\ a.runs = b.runs + 1 /\ b.runs \in Nat
  BY <1>1 DEF Action
<1> HIDE DEF a
<1>3. y = [x EXCEPT !.lib.sa[sig] = a]
  BY <1>1 DEF a, b, ProcRec, LibRec
<1> HIDE DEF y
<1>4. y \in ProcRec
  BY <1>1, <1>2, <1>3 DEF ProcRec, LibRec
<1>5. /\ y.live = x.live /\ y.gen = x.gen /\ y.pc = x.pc /\ y.notes = x.notes /\ y.insig = x.insig
      /\ y.handler = x.handler /\ y.lib.notify = x.lib.notify /\ y.lib.kids = x.lib.kids
      /\ y.lib.hooks = x.lib.hooks /\ y.lib.made = x.lib.made /\ y.lib.ran = x.lib.ran
  BY <1>1, <1>3 DEF ProcRec, LibRec
<1>6. \A s \in Sig : y.lib.sa[s] = IF s = sig THEN a ELSE x.lib.sa[s]
  BY <1>1, <1>3 DEF ProcRec, LibRec
<1>7. OneShotOK(y)
  BY <1>2, <1>5, <1>6 DEF OneShotOK, ProcOK, b
<1>8. ProcOK(y)
  BY <1>4, <1>5, <1>7, OnlySignals DEF ProcOK, BoundsOK
<1>. QED
  BY <1>5, <1>8 DEF y

\* It is over: SA_RESETHAND takes it away.
LEMMA OverIsOK ==
  ASSUME NEW x, ProcOK(x), NEW sig \in Sig, x.insig = sig
  PROVE  LET y == HandlerOver(x, sig) IN
         /\ ProcOK(y) /\ y.live = x.live /\ y.gen = x.gen /\ y.lib.kids = x.lib.kids
<1> DEFINE y == HandlerOver(x, sig)
           b == x.lib.sa[sig]
           a == IF b.reset THEN [b EXCEPT !.h = "dfl"] ELSE b
<1>1. x \in ProcRec /\ b \in Action /\ x.lib \in LibRec
  BY ActionOf DEF ProcOK
<1>2. y = [x EXCEPT !.lib.sa[sig] = a, !.insig = "none"]
  BY DEF HandlerOver
<1> HIDE DEF b, y
<1>3. a \in Action /\ a.reset = b.reset /\ a.runs = b.runs /\ (b.reset => a.h = "dfl")
  BY <1>1 DEF Action
<1> HIDE DEF a
<1>4. y \in ProcRec
  BY <1>1, <1>2, <1>3 DEF ProcRec, LibRec
<1>5. /\ y.live = x.live /\ y.gen = x.gen /\ y.pc = x.pc /\ y.notes = x.notes /\ y.insig = "none"
      /\ y.handler = x.handler /\ y.lib.notify = x.lib.notify /\ y.lib.kids = x.lib.kids
      /\ y.lib.hooks = x.lib.hooks /\ y.lib.made = x.lib.made /\ y.lib.ran = x.lib.ran
  BY <1>1, <1>2 DEF ProcRec, LibRec
<1>6. \A s \in Sig : y.lib.sa[s] = IF s = sig THEN a ELSE x.lib.sa[s]
  BY <1>1, <1>2 DEF ProcRec, LibRec
<1>7. OneShotOK(y)
  BY <1>3, <1>5, <1>6 DEF OneShotOK, ProcOK, b
<1>8. ProcOK(y)
  BY <1>4, <1>5, <1>7, OnlySignals DEF ProcOK, BoundsOK
<1>. QED
  BY <1>5, <1>8 DEF y

\* A note is queued.
LEMMA QueuedIsOK ==
  ASSUME NEW x, ProcOK(x), Len(x.notes) < NNote, NEW n \in Note
  PROVE  LET y == [x EXCEPT !.notes = Append(@, n)] IN
         /\ ProcOK(y) /\ y.live = x.live /\ y.gen = x.gen /\ y.lib = x.lib
<1> DEFINE y == [x EXCEPT !.notes = Append(@, n)]
<1>1. x \in ProcRec /\ x.notes \in Seq(Note)
  BY DEF ProcOK, ProcRec
<1>2. Append(x.notes, n) \in Seq(Note) /\ Len(Append(x.notes, n)) = Len(x.notes) + 1 /\ Len(x.notes) \in Nat
  BY <1>1
<1>3. y \in ProcRec
  BY <1>1, <1>2 DEF ProcRec
<1>4. /\ y.live = x.live /\ y.gen = x.gen /\ y.pc = x.pc /\ y.notes = Append(x.notes, n) /\ y.insig = x.insig
      /\ y.handler = x.handler /\ y.lib = x.lib
  BY <1>1 DEF ProcRec
<1> HIDE DEF y
<1>5. OneShotOK(y)
  BY <1>4 DEF OneShotOK, ProcOK
<1>6. Len(y.notes) <= NNote
  BY <1>2, <1>4, Constants
<1>7. ProcOK(y)
  BY <1>3, <1>4, <1>5, <1>6, OnlySignals DEF ProcOK
<1>. QED
  BY <1>4, <1>7 DEF y

\* rfork: the child's copy, in another slot.
LEMMA ChildIsOK ==
  ASSUME TableInv, NEW p \in Pid, NEW c \in Pid, proc[p].pc.fn # "join", proc[c].gen < MaxGen
  PROVE  LET y == Child(p, c) IN
         ProcOK(y) /\ y.live = proc[p].live /\ y.gen = proc[c].gen + 1 /\ y.lib.kids = <<>>
<1> DEFINE x == proc[p]
           n == proc[c].gen + 1
           y == [x EXCEPT !.gen = n, !.parent = p, !.notes = <<>>, !.lib.kids = <<>>, !.ret = Nothing]
<1>1. /\ x \in ProcRec /\ ProcOK(x) /\ x.lib \in LibRec
      /\ n \in Nat /\ n <= MaxGen /\ p \in Nat /\ Nothing \in Result
  <2>1. x \in ProcRec /\ ProcOK(x) /\ p \in Nat /\ Nothing \in Result
    BY Constants, Nowhere DEF TableInv
  <2>2. proc[c] \in ProcRec
    BY DEF TableInv
  <2>3. proc[c].gen \in Nat
    BY <2>2 DEF ProcRec
  <2>4. n \in Nat /\ n <= MaxGen
    BY <2>3, Constants
  <2>5. x.lib \in LibRec
    BY <2>1 DEF ProcRec
  <2>. QED
    BY <2>1, <2>4, <2>5
<1>2. y = Child(p, c)
  BY DEF Child
<1> HIDE DEF x, n
<1>3. /\ <<>> \in Seq(Note) /\ <<>> \in Seq(Ident) /\ Len(<<>>) = 0
  OBVIOUS
<1>4. y \in ProcRec
  BY <1>1, <1>3 DEF ProcRec, LibRec
<1>5. /\ y.live = x.live /\ y.gen = n /\ y.pc = x.pc /\ y.notes = <<>> /\ y.insig = x.insig
      /\ y.handler = x.handler /\ y.lib.notify = x.lib.notify /\ y.lib.kids = <<>> /\ y.lib.sa = x.lib.sa
      /\ y.lib.hooks = x.lib.hooks /\ y.lib.made = x.lib.made /\ y.lib.ran = x.lib.ran
  BY <1>1 DEF ProcRec, LibRec
<1> HIDE DEF y
<1>6. BoundsOK(y)
  BY <1>1, <1>3, <1>5, Constants DEF BoundsOK, ProcOK, x
<1>7. OneShotOK(y) /\ HooksOK(y.lib) /\ (y.lib.notify <=> y.handler)
  BY <1>1, <1>5, SameHooks DEF OneShotOK, ProcOK
<1>8. ProcOK(y)
  BY <1>4, <1>6, <1>7 DEF ProcOK
<1>. QED
  BY <1>2, <1>5, <1>8 DEF x, n
-----------------------------------------------------------------------------
(* The system, step by step.                                                 *)

LEMMA TablesBegin == Init => TableInv
<1> SUFFICES ASSUME Init PROVE TableInv
  OBVIOUS
<1> DEFINE z(i) == [live |-> i = 1, gen |-> IF i = 1 THEN 1 ELSE 0, parent |-> 0, notes |-> <<>>, handler |-> FALSE,
                    insig |-> "none", lib |-> FreshLib, pc |-> Nothing, ret |-> Nothing]
<1>1. proc = [i \in Pid |-> z(i)]
  BY DEF Init
<1>2. ASSUME NEW i \in Pid
      PROVE  z(i) \in ProcRec /\ ProcOK(z(i))
  <2>1. z(i) \in ProcRec
    <3>1. (i = 1) \in BOOLEAN /\ (IF i = 1 THEN 1 ELSE 0) \in Nat /\ <<>> \in Seq(Note)
      OBVIOUS
    <3>. QED
      BY <3>1, FreshIsOK, Nowhere DEF ProcRec
  <2>2. /\ z(i).gen \in {0, 1} /\ z(i).notes = <<>> /\ z(i).lib = FreshLib /\ z(i).pc = Nothing
        /\ z(i).handler = FALSE /\ z(i).insig = "none"
    OBVIOUS
  <2>3. BoundsOK(z(i))
    BY <2>2, FreshIsOK, Nowhere, Constants DEF BoundsOK
  <2>4. OneShotOK(z(i))
    BY <2>2, FreshIsOK DEF OneShotOK, Default
  <2>5. z(i).lib.notify <=> z(i).handler
    BY <2>2, FreshIsOK
  <2>6. HooksOK(z(i).lib)
    BY <2>2, FreshIsOK
  <2> HIDE DEF z
  <2>. QED
    BY <2>1, <2>3, <2>4, <2>5, <2>6 DEF ProcOK
<1> HIDE DEF z
<1>3. DOMAIN proc = Pid /\ proc \in [Pid -> ProcRec] /\ \A i \in Pid : ProcOK(proc[i])
  BY <1>1, <1>2
<1>4. ring \in [0 .. Records - 1 -> [pid : Nat, gen : Nat, code : Int]] /\ next \in 0 .. Records - 1
  BY Constants DEF Init, NoRec
<1>5. ops \in 0 .. MaxOps /\ ended \in Seq(EndRec) /\ HandlersRunOnce
  BY Constants DEF Init, HandlersRunOnce
<1>. QED
  BY <1>3, <1>4, <1>5 DEF TableInv

LEMMA Become ==
  ASSUME TableInv, NEW p \in Pid, NEW y, ProcOK(y), Becomes(p, y),
         UNCHANGED <<kernel, ended>>, ops' \in 0 .. MaxOps
  PROVE  TableInv' /\ \A i \in Pid : proc'[i] = IF i = p THEN y ELSE proc[i]
<1>1. \A i \in Pid : proc'[i] = IF i = p THEN y ELSE proc[i]
  BY DEF Becomes, TableInv
<1>2. DOMAIN proc' = Pid /\ proc' \in [Pid -> ProcRec]
  BY DEF Becomes, TableInv, ProcOK
<1>3. \A i \in Pid : ProcOK(proc'[i])
  BY <1>1 DEF TableInv
<1>. QED
  BY <1>1, <1>2, <1>3 DEF TableInv, kernel, HandlersRunOnce

LEMMA Called ==
  ASSUME TableInv, NEW p \in Pid, Calls(p)
  PROVE  /\ ops' \in 0 .. MaxOps /\ proc[p].live /\ proc[p].pc.fn = "none" /\ proc[p].insig = "none"
         /\ proc[p] \in ProcRec /\ ProcOK(proc[p])
BY Constants DEF Calls, Inside, TableInv

\* Nobody is born, no table of children changes.
Quiet ==
  /\ UNCHANGED <<born, forgot>>
  /\ \A i \in Pid : /\ proc'[i].gen = proc[i].gen
                    /\ proc'[i].live => proc[i].live /\ proc'[i].lib.kids = proc[i].lib.kids

LEMMA EntryOf ==
  ASSUME NEW ks \in Seq(Ident), NEW pid
  PROVE  Entry(ks, pid) \in 0 .. Len(ks)
<1> DEFINE found == {i \in DOMAIN ks : pid = -1 \/ ks[i].pid = pid}
<1>1. found \subseteq 1 .. Len(ks) /\ found \subseteq Nat /\ Len(ks) \in Nat
  OBVIOUS
<1>2. Entry(ks, pid) = IF found = {} THEN 0 ELSE CHOOSE i \in found : \A j \in found : i <= j
  BY DEF Entry
<1> HIDE DEF found
<1>3. CASE found # {}
  <2>1. \E i \in found : \A j \in found : i <= j
    BY <1>1, <1>3, LeastOf
  <2>2. (CHOOSE i \in found : \A j \in found : i <= j) \in found
    BY <2>1
  <2>3. Entry(ks, pid) \in found
    BY <1>2, <1>3, <2>2
  <2>4. Entry(ks, pid) \in 1 .. Len(ks)
    BY <1>1, <2>3, Zenon
  <2>. QED
    BY <2>4
<1>. QED
  BY <1>1, <1>2, <1>3

\* waitpid, up to its wait.
LEMMA WaitForIsOK ==
  ASSUME TableInv, NEW p \in Pid, NEW pid, NEW fn \in {"waitpid", "system"}, NEW own \in Own
  PROVE  LET y == WaitFor(p, pid, fn, own) IN
         ProcOK(y) /\ y.live = proc[p].live /\ y.gen = proc[p].gen /\ y.lib.kids = proc[p].lib.kids
<1> DEFINE x == proc[p]
           i == Entry(x.lib.kids, pid)
           v == IF i = 0 THEN Nothing ELSE [fn |-> "join", for |-> fn, i |-> i, own |-> own]
           w == IF i = 0 THEN [fn |-> fn, err |-> "ECHILD"] ELSE Nothing
<1>1. x \in ProcRec /\ ProcOK(x) /\ x.lib.kids \in Seq(Ident)
  BY DEF TableInv, ProcRec, LibRec
<1>2. i \in 0 .. Len(x.lib.kids) /\ Len(x.lib.kids) \in Nat
  BY <1>1, EntryOf
<1>3. WaitFor(p, pid, fn, own) = [x EXCEPT !.pc = v, !.ret = w]
  BY DEF WaitFor
<1> HIDE DEF i, x
<1>4. i # 0 => [fn |-> "join", for |-> fn, i |-> i, own |-> own] \in InJoin
  BY <1>2 DEF InJoin
<1>5. [fn |-> fn, err |-> "ECHILD"] \in Failed
  BY DEF Failed
<1>6. v \in Place /\ w \in Result /\ (v.fn = "join" => v.i \in 1 .. Len(x.lib.kids))
  BY <1>2, <1>4, <1>5, Nowhere DEF Place, Result
<1> HIDE DEF v, w
<1>7. ProcOK([x EXCEPT !.pc = v, !.ret = w])
  BY <1>1, <1>6, PutPlace
<1>8. LET y == [x EXCEPT !.pc = v, !.ret = w] IN y.live = x.live /\ y.gen = x.gen /\ y.lib.kids = x.lib.kids
  BY <1>1 DEF ProcRec
<1>. QED
  BY <1>3, <1>7, <1>8 DEF x

LEMMA PlaceOf ==
  ASSUME NEW v \in Place
  PROVE  /\ v.fn = "system" => v.id \in Ident
         /\ v.fn = "join" => v.for \in {"waitpid", "system"} /\ v.own \in Own
         /\ v.fn = "exit" => v.code \in Int
<1>1. CASE v = Nothing
  BY <1>1 DEF Nothing
<1>2. CASE v \in InSystem
  BY <1>2 DEF InSystem
<1>3. CASE v \in InJoin
  BY <1>3 DEF InJoin
<1>4. CASE v \in InExit
  BY <1>4 DEF InExit
<1>. QED
  BY <1>1, <1>2, <1>3, <1>4 DEF Place

LEMMA InPlace ==
  ASSUME TableInv, NEW p \in Pid
  PROVE  proc[p] \in ProcRec /\ ProcOK(proc[p]) /\ proc[p].pc \in Place /\ proc[p].lib \in LibRec
BY DEF TableInv, ProcRec

LEMMA WaitpidKeeps ==
  ASSUME TableInv, NEW p \in Pid, NEW pid, Waitpid(p, pid)
  PROVE  TableInv' /\ Quiet
<1> DEFINE y == WaitFor(p, pid, "waitpid", NoRec)
<1>1. ProcOK(y) /\ y.live = proc[p].live /\ y.gen = proc[p].gen /\ y.lib.kids = proc[p].lib.kids
  <2>1. NoRec \in Own
    BY DEF Own
  <2>. QED
    BY <2>1, WaitForIsOK
<1>2. Becomes(p, y) /\ UNCHANGED <<kernel, history>>
  BY DEF Waitpid
<1>3. ops' \in 0 .. MaxOps
  BY Called DEF Waitpid
<1> HIDE DEF y
<1>4. TableInv' /\ \A i \in Pid : proc'[i] = IF i = p THEN y ELSE proc[i]
  BY <1>1, <1>2, <1>3, Become DEF history
<1>. QED
  BY <1>1, <1>2, <1>4 DEF Quiet, history

LEMMA SystemWaitsKeeps ==
  ASSUME TableInv, NEW p \in Pid, SystemWaits(p)
  PROVE  TableInv' /\ Quiet
<1> DEFINE id == proc[p].pc.id
           y == WaitFor(p, id.pid, "system", id)
<1>1. ProcOK(y) /\ y.live = proc[p].live /\ y.gen = proc[p].gen /\ y.lib.kids = proc[p].lib.kids
  <2>1. id \in Own
    BY InPlace, PlaceOf DEF Own, SystemWaits, Inside
  <2>. QED
    BY <2>1, WaitForIsOK
<1>2. Becomes(p, y) /\ UNCHANGED <<kernel, history>>
  BY DEF SystemWaits
<1>3. ops' \in 0 .. MaxOps
  BY DEF SystemWaits, TableInv
<1> HIDE DEF y
<1>4. TableInv' /\ \A i \in Pid : proc'[i] = IF i = p THEN y ELSE proc[i]
  BY <1>1, <1>2, <1>3, Become DEF history
<1>. QED
  BY <1>1, <1>2, <1>4 DEF Quiet, history

LEMMA ExitKeeps ==
  ASSUME TableInv, NEW p \in Pid, NEW code \in Code, Exit(p, code)
  PROVE  TableInv' /\ Quiet
<1> DEFINE x == proc[p]
           v == [fn |-> "exit", code |-> code]
           y == [x EXCEPT !.pc = v, !.ret = Nothing]
<1>1. v \in Place /\ v.fn = "exit"
  BY Constants DEF Place, InExit
<1>2. x \in ProcRec /\ ProcOK(x)
  BY InPlace
<1>3. Becomes(p, y) /\ UNCHANGED <<kernel, history>>
  BY DEF Exit
<1> HIDE DEF v, x
<1>4. ProcOK(y) /\ y.live = x.live /\ y.gen = x.gen /\ y.lib = x.lib
  <2>1. ProcOK(y)
    BY <1>1, <1>2, Nowhere, PutPlace
  <2>. QED
    BY <1>2, <2>1 DEF ProcRec
<1>5. ops' \in 0 .. MaxOps
  BY Called DEF Exit
<1> HIDE DEF y
<1>6. TableInv' /\ \A i \in Pid : proc'[i] = IF i = p THEN y ELSE proc[i]
  BY <1>3, <1>4, <1>5, Become DEF history
<1>. QED
  BY <1>3, <1>4, <1>6 DEF Quiet, history, x

LEMMA AtexitKeeps ==
  ASSUME TableInv, NEW p \in Pid, NEW k \in Hook, Atexit(p, k)
  PROVE  TableInv' /\ Quiet
<1> DEFINE x == proc[p]
           l == Registered(x.lib, k)
           y == [x EXCEPT !.lib = l, !.ret = Nothing]
<1>1. x \in ProcRec /\ ProcOK(x) /\ x.lib \in LibRec /\ HooksOK(x.lib) /\ Len(x.lib.hooks) <= AtexitMax
  BY InPlace DEF ProcOK, BoundsOK
<1>2. Becomes(p, y) /\ UNCHANGED <<kernel, history>>
  BY DEF Atexit
<1> HIDE DEF x
<1>3. /\ l \in LibRec /\ HooksOK(l) /\ Len(l.hooks) <= AtexitMax
      /\ l.sa = x.lib.sa /\ l.notify = x.lib.notify /\ l.kids = x.lib.kids
  BY <1>1, RegisteredIsOK, ConstantsOK
<1> HIDE DEF l
<1>4. ProcOK(y) /\ y.live = x.live /\ y.gen = x.gen /\ y.lib.kids = x.lib.kids
  <2>1. ProcOK(y)
    BY <1>1, <1>3, Nowhere, PutLib
  <2>. QED
    BY <1>1, <1>3, <2>1 DEF ProcRec
<1>5. ops' \in 0 .. MaxOps
  BY Called DEF Atexit
<1> HIDE DEF y
<1>6. TableInv' /\ \A i \in Pid : proc'[i] = IF i = p THEN y ELSE proc[i]
  BY <1>2, <1>4, <1>5, Become DEF history
<1>. QED
  BY <1>2, <1>4, <1>6 DEF Quiet, history, x

LEMMA RunHookKeeps ==
  ASSUME TableInv, NEW p \in Pid, RunHook(p)
  PROVE  TableInv' /\ Quiet
<1> DEFINE x == proc[p]
           b == x.lib
           off == [b EXCEPT !.hooks = Front(@), !.ran = Append(@, [n |-> Last(b.hooks).n, of |-> b.made])]
           l == IF Last(b.hooks).k = "adds" THEN Registered(off, "plain") ELSE off
           y == [x EXCEPT !.lib = l]
<1>1. x \in ProcRec /\ ProcOK(x) /\ b \in LibRec /\ HooksOK(b) /\ Len(b.hooks) <= AtexitMax /\ b.hooks # <<>>
  BY InPlace DEF ProcOK, BoundsOK, RunHook
<1>2. Becomes(p, y) /\ UNCHANGED <<kernel, history, ops>>
  BY DEF RunHook
<1> HIDE DEF b
<1>3. /\ off \in LibRec /\ HooksOK(off) /\ Len(off.hooks) <= AtexitMax
      /\ off.sa = b.sa /\ off.notify = b.notify /\ off.kids = b.kids
  BY <1>1, TakenOffIsOK
<1> HIDE DEF off
<1>4. LET m == Registered(off, "plain") IN
      /\ m \in LibRec /\ HooksOK(m) /\ Len(m.hooks) <= AtexitMax
      /\ m.sa = off.sa /\ m.notify = off.notify /\ m.kids = off.kids
  BY <1>3, RegisteredIsOK
<1>5. /\ l \in LibRec /\ HooksOK(l) /\ Len(l.hooks) <= AtexitMax
      /\ l.sa = b.sa /\ l.notify = b.notify /\ l.kids = b.kids
  BY <1>3, <1>4
<1> HIDE DEF l, x
<1>6. ProcOK(y) /\ y.live = x.live /\ y.gen = x.gen /\ y.lib.kids = x.lib.kids
  <2>1. ProcOK(y)
    BY <1>1, <1>5, Nowhere, PutLib DEF b
  <2>. QED
    BY <1>1, <1>5, <2>1 DEF ProcRec, b
<1>7. ops' \in 0 .. MaxOps
  BY <1>2 DEF TableInv
<1> HIDE DEF y
<1>8. TableInv' /\ \A i \in Pid : proc'[i] = IF i = p THEN y ELSE proc[i]
  BY <1>2, <1>6, <1>7, Become DEF history
<1>. QED
  BY <1>2, <1>6, <1>8 DEF Quiet, history, x

LEMMA SigactionKeeps ==
  ASSUME TableInv, NEW p \in Pid, NEW h \in {"dfl", "ign", "fn"}, NEW reset \in BOOLEAN,
         Sigaction(p, "TERM", h, reset)
  PROVE  TableInv' /\ Quiet
<1> DEFINE x == proc[p]
           z == Installed(x, "TERM", h, reset)
           y == [z EXCEPT !.ret = Nothing]
<1>1. x \in ProcRec /\ ProcOK(x) /\ "TERM" \in Sig
  BY InPlace DEF Sig
<1>2. Becomes(p, y) /\ UNCHANGED <<kernel, history>>
  BY DEF Sigaction
<1>3. ProcOK(z) /\ z.live = x.live /\ z.gen = x.gen /\ z.lib.kids = x.lib.kids
  BY <1>1, InstalledIsOK
<1> HIDE DEF z
<1>4. z \in ProcRec /\ z.lib \in LibRec /\ z.pc \in Place
  BY <1>3 DEF ProcOK, ProcRec
<1>5. y = [z EXCEPT !.pc = z.pc, !.ret = Nothing]
  BY <1>4 DEF ProcRec
<1>6. ProcOK(y)
  <2>1. z.pc.fn = "join" => z.pc.i \in 1 .. Len(z.lib.kids)
    BY <1>3 DEF ProcOK, BoundsOK
  <2>. QED
    BY <1>3, <1>4, <1>5, <2>1, Nowhere, PutPlace
<1>7. y.live = z.live /\ y.gen = z.gen /\ y.lib = z.lib
  BY <1>4 DEF ProcRec
<1>8. ops' \in 0 .. MaxOps
  BY Called DEF Sigaction
<1> HIDE DEF y
<1>9. TableInv' /\ \A i \in Pid : proc'[i] = IF i = p THEN y ELSE proc[i]
  BY <1>2, <1>6, <1>8, Become DEF history
<1>. QED
  BY <1>2, <1>3, <1>7, <1>9 DEF Quiet, history

LEMMA KillKeeps ==
  ASSUME TableInv, NEW p \in Pid, NEW q \in Pid, NEW sig, Kill(p, q, sig)
  PROVE  TableInv' /\ Quiet
<1> DEFINE x == proc[q]
           n == NoteOf(sig)
           y == [x EXCEPT !.notes = Append(@, n)]
<1>1. UNCHANGED <<kernel, history>> /\ ops' \in 0 .. MaxOps
  BY Called DEF Kill
<1>2. x \in ProcRec /\ ProcOK(x) /\ Len(x.notes) \in Nat /\ NNote \in Nat
  BY InPlace, Constants DEF ProcRec
<1>3. CASE Len(x.notes) >= NNote
  <2>1. UNCHANGED proc
    BY <1>3 DEF Kill
  <2>. QED
    BY <1>1, <2>1 DEF TableInv, Quiet, history, kernel, HandlersRunOnce
<1>4. CASE ~(Len(x.notes) >= NNote)
  <2>1. n \in Note
    BY DEF NoteOf, Note
  <2>2. proc' = [proc EXCEPT ![q].notes = Append(@, n)]
    BY <1>4 DEF Kill
  <2>3. Becomes(q, y)
    BY <2>2 DEF Becomes
  <2> HIDE DEF n, x
  <2>4. ProcOK(y) /\ y.live = x.live /\ y.gen = x.gen /\ y.lib = x.lib
    BY <1>2, <1>4, <2>1, QueuedIsOK
  <2> HIDE DEF y
  <2>5. TableInv' /\ \A i \in Pid : proc'[i] = IF i = q THEN y ELSE proc[i]
    BY <1>1, <2>3, <2>4, Become DEF history
  <2>. QED
    BY <1>1, <2>4, <2>5 DEF Quiet, history, x
<1>. QED
  BY <1>3, <1>4

LEMMA RecordKeeps ==
  ASSUME TableInv, NEW i \in Pid, NEW code \in Int, RecordExit(i, code)
  PROVE  ring' \in [0 .. Records - 1 -> [pid : Nat, gen : Nat, code : Int]] /\ next' \in 0 .. Records - 1
<1>1. CASE UNCHANGED kernel
  BY <1>1 DEF kernel, TableInv
<1>2. CASE /\ ring' = [ring EXCEPT ![next] = [pid |-> i, gen |-> proc[i].gen, code |-> code]]
           /\ next' = (next + 1) % Records
  <2>1. proc[i].gen \in Nat /\ i \in Nat
    BY InPlace, Constants DEF ProcRec
  <2>2. ring' \in [0 .. Records - 1 -> [pid : Nat, gen : Nat, code : Int]]
    BY <1>2, <2>1 DEF TableInv
  <2>3. next' \in 0 .. Records - 1
    <3>1. next + 1 \in Int /\ Records \in Nat \ {0}
      BY Constants DEF TableInv
    <3>. QED
      BY <1>2, <3>1
  <2>. QED
    BY <2>2, <2>3
<1>. QED
  BY <1>1, <1>2 DEF RecordExit

\* A process ends; by exit only with its table of handlers empty.
LEMMA DestroyKeeps ==
  ASSUME TableInv, NEW p \in Pid, NEW code \in Int, NEW how \in {"exit", "note"}, Destroy(p, code, how),
         proc[p].pc.fn # "join", how = "exit" => proc[p].lib.hooks = <<>>, ops' = ops
  PROVE  TableInv' /\ Quiet
<1> DEFINE x == proc[p]
           l == x.lib
           y == [x EXCEPT !.live = FALSE, !.notes = <<>>, !.pc = Nothing, !.ret = Nothing,
                          !.insig = "none", !.handler = FALSE, !.lib = FreshLib]
           e == [id |-> Id(p), code |-> code, how |-> how, ran |-> l.ran, made |-> l.made]
<1>1. x \in ProcRec /\ ProcOK(x) /\ l \in LibRec
  BY InPlace
<1>2. Becomes(p, y) /\ ended' = Append(ended, e) /\ UNCHANGED <<born, forgot>> /\ RecordExit(p, code)
  BY DEF Destroy
<1>3. e \in EndRec /\ e.how = how /\ e.ran = l.ran /\ e.made = l.made
  BY <1>1 DEF EndRec, Id, Ident, ProcRec, LibRec
<1> HIDE DEF x, e
<1>4. y \in ProcRec
  <2>1. <<>> \in Seq(Note) /\ FALSE \in BOOLEAN /\ "none" \in Sig \cup {"none"}
    OBVIOUS
  <2>. QED
    BY <1>1, <2>1, FreshIsOK, Nowhere DEF ProcRec
<1>5. y.lib = FreshLib /\ y.handler = FALSE /\ y.gen = x.gen /\ y.pc = Nothing /\ y.notes = <<>> /\ y.live = FALSE
  BY <1>1 DEF ProcRec
<1> HIDE DEF y
<1>6. ProcOK(y)
  BY <1>1, <1>4, <1>5, Anew DEF x
<1>7. \A i \in Pid : proc'[i] = IF i = p THEN y ELSE proc[i]
  BY <1>2 DEF Becomes, TableInv
<1>8. DOMAIN proc' = Pid /\ proc' \in [Pid -> ProcRec]
  BY <1>2, <1>4 DEF Becomes, TableInv
<1>9. \A i \in Pid : ProcOK(proc'[i])
  BY <1>6, <1>7 DEF TableInv
<1>10. /\ ended \in Seq(EndRec) /\ ended' \in Seq(EndRec) /\ DOMAIN ended' = 1 .. Len(ended) + 1
       /\ DOMAIN ended = 1 .. Len(ended) /\ Len(ended) \in Nat
       /\ \A n \in DOMAIN ended : ended'[n] = ended[n]
       /\ ended'[Len(ended) + 1] = e
  BY <1>2, <1>3 DEF TableInv
<1>11. ASSUME how = "exit"
       PROVE  /\ {l.ran[i].n : i \in DOMAIN l.ran} = 1 .. l.made /\ Len(l.ran) = l.made
              /\ \A i, j \in DOMAIN l.ran : i < j => l.ran[j].n < l.ran[i].n \/ l.ran[j].n > l.ran[i].of
  <2>1. l.hooks = <<>> /\ l.ran \in Seq(RanRec) /\ HooksOK(l)
    BY <1>1, <1>11 DEF ProcOK, LibRec, x
  <2> HIDE DEF l
  <2>2. DOMAIN l.ran = 1 .. Len(l.ran) /\ Len(l.ran) \in Nat /\ Len(l.hooks) = 0
    BY <2>1
  <2>3. Len(l.ran) = l.made
    <3>1. Len(l.hooks) + Len(l.ran) = l.made
      BY <2>1 DEF HooksOK
    <3>. QED
      BY <2>2, <3>1
  <2>4. \A k \in 1 .. l.made : \E i \in 1 .. Len(l.ran) : l.ran[i].n = k
    <3>1. \A i : i \notin 1 .. Len(l.hooks)
      BY <2>2
    <3>. QED
      BY <2>1, <3>1 DEF HooksOK
  <2>5. \A i \in 1 .. Len(l.ran) : l.ran[i].n \in 1 .. l.made
    BY <2>1 DEF HooksOK
  <2>6. {l.ran[i].n : i \in DOMAIN l.ran} = 1 .. l.made
    BY <2>2, <2>4, <2>5
  <2>7. \A i, j \in DOMAIN l.ran : i < j => l.ran[j].n < l.ran[i].n \/ l.ran[j].n > l.ran[i].of
    BY <2>1, <2>2 DEF HooksOK
  <2>. QED
    BY <2>3, <2>6, <2>7
<1> HIDE DEF l
<1>12. HandlersRunOnce'
  <2> SUFFICES ASSUME NEW n \in DOMAIN ended', ended'[n].how = "exit"
               PROVE  LET ran == ended'[n].ran IN
                      /\ {ran[i].n : i \in DOMAIN ran} = 1 .. ended'[n].made /\ Len(ran) = ended'[n].made
                      /\ \A i, j \in DOMAIN ran : i < j => ran[j].n < ran[i].n \/ ran[j].n > ran[i].of
    BY DEF HandlersRunOnce
  <2>1. CASE n \in DOMAIN ended
    <3>1. ended'[n] = ended[n]
      BY <1>10, <2>1
    <3>2. LET ran == ended[n].ran IN
          /\ {ran[i].n : i \in DOMAIN ran} = 1 .. ended[n].made /\ Len(ran) = ended[n].made
          /\ \A i, j \in DOMAIN ran : i < j => ran[j].n < ran[i].n \/ ran[j].n > ran[i].of
      BY <2>1, <3>1 DEF TableInv, HandlersRunOnce
    <3>. QED
      BY <3>1, <3>2, Zenon
  <2>2. CASE n = Len(ended) + 1
    <3>1. ended'[n] = e
      BY <1>10, <2>2
    <3>. QED
      BY <1>3, <1>11, <3>1
  <2>. QED
    BY <1>10, <2>1, <2>2
<1>13. ops' \in 0 .. MaxOps
  BY DEF TableInv
<1>14. TableInv'
  BY <1>2, <1>8, <1>9, <1>10, <1>12, <1>13, RecordKeeps DEF TableInv
<1>. QED
  BY <1>2, <1>5, <1>7, <1>14 DEF Quiet, x

LEMMA ExitEndsKeeps ==
  ASSUME TableInv, NEW p \in Pid, ExitEnds(p)
  PROVE  TableInv' /\ Quiet
<1>1. proc[p].pc.fn = "exit" /\ proc[p].lib.hooks = <<>> /\ Destroy(p, proc[p].pc.code, "exit") /\ ops' = ops
  BY DEF ExitEnds, Inside
<1>2. proc[p].pc.code \in Int
  BY <1>1, InPlace, PlaceOf
<1>. QED
  BY <1>1, <1>2, DestroyKeeps

LEMMA DeliverKeeps ==
  ASSUME TableInv, NEW p \in Pid, Deliver(p)
  PROVE  TableInv' /\ Quiet
<1> DEFINE x == proc[p]
           note == Head(x.notes)
           sig == SigOf(note)
           y == [x EXCEPT !.notes = Tail(@), !.insig = sig]
           dies == ~x.handler \/ note = "kill" \/ x.lib.sa[sig].h = "dfl"
<1>1. /\ x.pc.fn # "join" /\ x.notes # <<>> /\ x.insig = "none" /\ ops' = ops
      /\ IF dies THEN Destroy(p, -1, "note")
         ELSE /\ Becomes(p, IF x.lib.sa[sig].h = "ign" THEN HandlerOver(y, sig)
                            ELSE [y EXCEPT !.lib.sa[sig].runs = @ + 1])
              /\ UNCHANGED <<kernel, history>>
  BY DEF Deliver
<1>2. sig \in Sig
  BY DEF SigOf, Sig
<1>3. x \in ProcRec /\ ProcOK(x)
  BY InPlace
<1> HIDE DEF sig
<1>4. CASE dies
  BY <1>1, <1>4, DestroyKeeps
<1>5. CASE ~dies
  <2>1. ProcOK(y) /\ y.live = x.live /\ y.gen = x.gen /\ y.lib = x.lib /\ y.insig = sig
    BY <1>1, <1>2, <1>3, NotedIsOK
  <2>2. x.lib.sa[sig] \in Action /\ x.lib.sa[sig].h # "dfl" /\ "none" \notin Sig
    BY <1>2, <1>3, <1>5, ActionOf DEF Sig
  <2> HIDE DEF y, dies
  <2>3. PICK z : /\ Becomes(p, z) /\ UNCHANGED <<kernel, history>>
                 /\ ProcOK(z) /\ z.live = y.live /\ z.gen = y.gen /\ z.lib.kids = y.lib.kids
    <3>1. CASE x.lib.sa[sig].h = "ign"
      <4>1. Becomes(p, HandlerOver(y, sig)) /\ UNCHANGED <<kernel, history>>
        BY <1>1, <1>5, <3>1
      <4>. QED
        BY <1>2, <2>1, <4>1, OverIsOK
    <3>2. CASE x.lib.sa[sig].h # "ign"
      <4>1. Becomes(p, [y EXCEPT !.lib.sa[sig].runs = @ + 1]) /\ UNCHANGED <<kernel, history>>
        BY <1>1, <1>5, <3>2
      <4>2. x.lib.sa[sig].h = "fn"
        BY <2>2, <3>2 DEF Action
      <4>3. y.lib.sa[sig].reset => y.lib.sa[sig].runs = 0
        BY <1>1, <1>2, <1>3, <2>1, <2>2, <4>2 DEF ProcOK, OneShotOK
      <4>. QED
        BY <1>2, <2>1, <4>1, <4>3, RunsIsOK
    <3>. QED
      BY <3>1, <3>2
  <2>4. ops' \in 0 .. MaxOps
    BY <1>1 DEF TableInv
  <2>5. TableInv' /\ \A i \in Pid : proc'[i] = IF i = p THEN z ELSE proc[i]
    BY <2>3, <2>4, Become DEF history
  <2>. QED
    BY <2>1, <2>3, <2>5 DEF Quiet, history
<1>. QED
  BY <1>4, <1>5

LEMMA HandlerReturnsKeeps ==
  ASSUME TableInv, NEW p \in Pid, NEW again \in BOOLEAN, HandlerReturns(p, again)
  PROVE  TableInv' /\ Quiet
<1> DEFINE sig == proc[p].insig
           x == IF again THEN Installed(proc[p], sig, "fn", FALSE) ELSE proc[p]
           y == HandlerOver(x, sig)
<1>1. proc[p] \in ProcRec /\ ProcOK(proc[p]) /\ sig \in Sig
  BY InPlace DEF HandlerReturns, ProcRec
<1>2. Becomes(p, y) /\ UNCHANGED <<kernel, history, ops>>
  BY DEF HandlerReturns
<1>3. /\ ProcOK(x) /\ x.live = proc[p].live /\ x.gen = proc[p].gen /\ x.lib.kids = proc[p].lib.kids
      /\ x.insig = sig
  BY <1>1, InstalledIsOK
<1> HIDE DEF x, sig
<1>4. ProcOK(y) /\ y.live = x.live /\ y.gen = x.gen /\ y.lib.kids = x.lib.kids
  BY <1>1, <1>3, OverIsOK
<1>5. ops' \in 0 .. MaxOps
  BY <1>2 DEF TableInv
<1> HIDE DEF y
<1>6. TableInv' /\ \A i \in Pid : proc'[i] = IF i = p THEN y ELSE proc[i]
  BY <1>2, <1>4, <1>5, Become DEF history
<1>. QED
  BY <1>2, <1>3, <1>4, <1>6 DEF Quiet, history
-----------------------------------------------------------------------------
(* The table of children.                                                    *)

KidsOf(p) == proc[p].lib.kids

\* Everybody has the generation that the slot has now, or an earlier one.
BornBefore ==
  /\ \A b \in born : /\ b.id \in Ident /\ b.parent \in Ident
                     /\ b.id.gen <= proc[b.id.pid].gen /\ b.parent.gen <= proc[b.parent.pid].gen

\* ChildrenKnown, entry by entry.
Known ==
  \A p \in Pid : proc[p].live =>
    /\ \A i, j \in 1 .. Len(KidsOf(p)) : KidsOf(p)[i] = KidsOf(p)[j] => i = j
    /\ \A i \in 1 .. Len(KidsOf(p)) : \E b \in born : b.parent = Id(p) /\ b.id = KidsOf(p)[i]
    /\ \A b \in born : b.parent = Id(p) =>
         Gone(b.id) \/ b.id \in forgot \/ \E i \in 1 .. Len(KidsOf(p)) : KidsOf(p)[i] = b.id

ProcInv == TableInv /\ BornBefore /\ Known

LEMMA QuietKnows ==
  ASSUME ProcInv, Quiet
  PROVE  BornBefore' /\ Known'
<1>1. BornBefore'
  BY DEF ProcInv, BornBefore, Quiet, Ident
<1>2. Known'
  <2> SUFFICES ASSUME NEW p \in Pid, proc'[p].live
               PROVE  /\ \A i, j \in 1 .. Len(KidsOf(p)') : KidsOf(p)'[i] = KidsOf(p)'[j] => i = j
                      /\ \A i \in 1 .. Len(KidsOf(p)') : \E b \in born' : b.parent = Id(p)' /\ b.id = KidsOf(p)'[i]
                      /\ \A b \in born' : b.parent = Id(p)' =>
                           Gone(b.id)' \/ b.id \in forgot' \/ \E i \in 1 .. Len(KidsOf(p)') : KidsOf(p)'[i] = b.id
    BY DEF Known
  <2>1. KidsOf(p)' = KidsOf(p) /\ Id(p)' = Id(p) /\ proc[p].live /\ born' = born /\ forgot' = forgot
    BY DEF Quiet, KidsOf, Id
  <2>2. \A b \in born : Gone(b.id) => Gone(b.id)'
    BY DEF Quiet, Gone, ProcInv, BornBefore, Ident
  <2>. QED
    BY <2>1, <2>2 DEF ProcInv, Known
<1>. QED
  BY <1>1, <1>2

\* The table of p loses entries: of children that are gone, or forgotten now.
LEMMA DropKnows ==
  ASSUME ProcInv, NEW p \in Pid, proc[p].live, born' = born, forgot \subseteq forgot', NEW ks,
         \A i \in Pid : /\ proc'[i].gen = proc[i].gen /\ proc'[i].live = proc[i].live
                        /\ proc'[i].lib.kids = IF i = p THEN ks ELSE proc[i].lib.kids,
         \A i, j \in 1 .. Len(ks) : ks[i] = ks[j] => i = j,
         \A i \in 1 .. Len(ks) : \E j \in 1 .. Len(KidsOf(p)) : KidsOf(p)[j] = ks[i],
         \A j \in 1 .. Len(KidsOf(p)) :
           Gone(KidsOf(p)[j]) \/ KidsOf(p)[j] \in forgot' \/ \E i \in 1 .. Len(ks) : ks[i] = KidsOf(p)[j]
  PROVE  BornBefore' /\ Known'
<1>1. BornBefore'
  BY DEF ProcInv, BornBefore, Ident
<1>2. \A b \in born : Gone(b.id) <=> Gone(b.id)'
  BY DEF Gone, ProcInv, BornBefore, Ident
<1>3. Known'
  <2> SUFFICES ASSUME NEW q \in Pid, proc'[q].live
               PROVE  /\ \A i, j \in 1 .. Len(KidsOf(q)') : KidsOf(q)'[i] = KidsOf(q)'[j] => i = j
                      /\ \A i \in 1 .. Len(KidsOf(q)') : \E b \in born' : b.parent = Id(q)' /\ b.id = KidsOf(q)'[i]
                      /\ \A b \in born' : b.parent = Id(q)' =>
                           Gone(b.id)' \/ b.id \in forgot' \/ \E i \in 1 .. Len(KidsOf(q)') : KidsOf(q)'[i] = b.id
    BY DEF Known
  <2>1. Id(q)' = Id(q) /\ proc[q].live
    BY DEF Id
  <2>2. /\ \A i \in 1 .. Len(KidsOf(q)) : \E b \in born : b.parent = Id(q) /\ b.id = KidsOf(q)[i]
        /\ \A i, j \in 1 .. Len(KidsOf(q)) : KidsOf(q)[i] = KidsOf(q)[j] => i = j
        /\ \A b \in born : b.parent = Id(q) =>
             Gone(b.id) \/ b.id \in forgot \/ \E i \in 1 .. Len(KidsOf(q)) : KidsOf(q)[i] = b.id
    BY <2>1 DEF ProcInv, Known
  <2>3. CASE q # p
    <3>1. KidsOf(q)' = KidsOf(q)
      BY <2>3 DEF KidsOf
    <3>. QED
      BY <1>2, <2>1, <2>2, <3>1
  <2>4. CASE q = p
    <3>1. KidsOf(q)' = ks
      BY <2>4 DEF KidsOf
    <3>2. \A i \in 1 .. Len(ks) : \E b \in born : b.parent = Id(q) /\ b.id = ks[i]
      BY <2>2, <2>4
    <3>3. ASSUME NEW b \in born, b.parent = Id(q)
          PROVE  Gone(b.id)' \/ b.id \in forgot' \/ \E i \in 1 .. Len(ks) : ks[i] = b.id
      <4>1. CASE \E i \in 1 .. Len(KidsOf(q)) : KidsOf(q)[i] = b.id
        BY <1>2, <2>4, <4>1
      <4>. QED
        BY <1>2, <2>2, <3>3, <4>1
    <3>. QED
      BY <2>1, <3>1, <3>2, <3>3
  <2>. QED
    BY <2>3, <2>4
<1>. QED
  BY <1>1, <1>3

\* A child is born in slot c: nobody had that generation before.
LEMMA BirthKnows ==
  ASSUME ProcInv, NEW p \in Pid, NEW c \in Pid, c # p, proc[p].live, ~proc[c].live, NEW ks, NEW id,
         id = Id(c)', NEW b0, b0.id = id, b0.parent = Id(p), born' = born \cup {b0}, forgot \subseteq forgot',
         proc'[c].gen = proc[c].gen + 1, Len(KidsOf(c)') = 0, KidsOf(p)' = ks,
         \A i \in Pid : i # c =>
           /\ proc'[i].gen = proc[i].gen /\ proc'[i].live = proc[i].live
           /\ i # p => KidsOf(i)' = KidsOf(i),
         \/ ks = KidsOf(p) /\ id \in forgot'
         \/ ks = Append(KidsOf(p), id)
  PROVE  BornBefore' /\ Known'
<1>1. /\ \A i \in Pid : proc[i].gen \in Nat /\ KidsOf(i) \in Seq(Ident)
  BY DEF ProcInv, TableInv, ProcRec, LibRec, KidsOf
<1>2. id \in Ident /\ id.pid = c /\ id.gen = proc[c].gen + 1 /\ Id(p) \in Ident /\ Id(p).pid = p /\ Id(p).gen = proc[p].gen
  BY <1>1 DEF Ident, Id
<1>3. b0.id = id /\ b0.parent = Id(p) /\ born' = born \cup {b0}
  OBVIOUS
<1>4. /\ \A b \in born : b.id \in Ident /\ b.parent \in Ident
      /\ \A b \in born : b.id.pid \in Pid /\ b.id.gen \in Nat /\ b.id.gen <= proc[b.id.pid].gen
      /\ \A b \in born : b.parent.pid \in Pid /\ b.parent.gen \in Nat /\ b.parent.gen <= proc[b.parent.pid].gen
  BY DEF ProcInv, BornBefore, Ident
<1>5. ASSUME NEW i \in Pid
      PROVE  proc[i].gen \in Nat /\ proc'[i].gen \in Nat /\ proc[i].gen <= proc'[i].gen
  <2>1. CASE i = c
    BY <1>1, <2>1
  <2>2. CASE i # c
    BY <1>1, <2>2
  <2>. QED
    BY <2>1, <2>2
<1>6. BornBefore'
  <2>1. \A b \in born : b.id.gen <= proc'[b.id.pid].gen /\ b.parent.gen <= proc'[b.parent.pid].gen
    <3> TAKE b \in born
    <3>1. /\ b.id.pid \in Pid /\ b.id.gen \in Nat /\ b.id.gen <= proc[b.id.pid].gen
          /\ b.parent.pid \in Pid /\ b.parent.gen \in Nat /\ b.parent.gen <= proc[b.parent.pid].gen
      BY <1>4
    <3>2. \A i, j, k \in Nat : i <= j /\ j <= k => i <= k
      OBVIOUS
    <3>3. /\ proc[b.id.pid].gen \in Nat /\ proc'[b.id.pid].gen \in Nat
          /\ proc[b.id.pid].gen <= proc'[b.id.pid].gen
          /\ proc[b.parent.pid].gen \in Nat /\ proc'[b.parent.pid].gen \in Nat
          /\ proc[b.parent.pid].gen <= proc'[b.parent.pid].gen
      BY <1>5, <3>1
    <3>. QED
      BY <3>1, <3>2, <3>3
  <2>2. b0.id.gen <= proc'[b0.id.pid].gen /\ b0.parent.gen <= proc'[b0.parent.pid].gen
    BY <1>1, <1>2, <1>3
  <2>. QED
    BY <1>2, <1>3, <1>4, <2>1, <2>2 DEF BornBefore
<1>7. \A b \in born : b.id # id /\ (Gone(b.id) => Gone(b.id)')
  <2> TAKE b \in born
  <2>1. b.id.pid \in Pid /\ b.id.gen \in Nat /\ b.id.gen <= proc[b.id.pid].gen
    BY <1>4
  <2>2. CASE b.id.pid = c
    BY <1>1, <1>2, <2>1, <2>2 DEF Gone
  <2>3. CASE b.id.pid # c
    BY <1>2, <2>1, <2>3 DEF Gone
  <2>. QED
    BY <2>2, <2>3
<1>8. Known'
  <2> SUFFICES ASSUME NEW q \in Pid, proc'[q].live
               PROVE  /\ \A i, j \in 1 .. Len(KidsOf(q)') : KidsOf(q)'[i] = KidsOf(q)'[j] => i = j
                      /\ \A i \in 1 .. Len(KidsOf(q)') : \E b \in born' : b.parent = Id(q)' /\ b.id = KidsOf(q)'[i]
                      /\ \A b \in born' : b.parent = Id(q)' =>
                           Gone(b.id)' \/ b.id \in forgot' \/ \E i \in 1 .. Len(KidsOf(q)') : KidsOf(q)'[i] = b.id
    BY DEF Known
  <2>1. CASE q = c
    <3>1. Len(KidsOf(q)') = 0
      BY <2>1 DEF KidsOf
    <3>2. \A b \in born' : b.parent # Id(q)'
      <4>1. Id(q)' = id
        BY <2>1 DEF Id
      <4>2. \A b \in born : b.parent # id
        BY <1>1, <1>2, <1>4
      <4>3. Id(p) # id
        BY <1>2
      <4>. QED
        BY <1>3, <4>1, <4>2, <4>3
    <3>. QED
      BY <3>1, <3>2
  <2>2. CASE q # c
    <3>1. Id(q)' = Id(q) /\ proc[q].live /\ KidsOf(q)' = IF q = p THEN ks ELSE KidsOf(q)
      BY <2>2 DEF Id, KidsOf
    <3>2. /\ \A i \in 1 .. Len(KidsOf(q)) : \E b \in born : b.parent = Id(q) /\ b.id = KidsOf(q)[i]
          /\ \A i, j \in 1 .. Len(KidsOf(q)) : KidsOf(q)[i] = KidsOf(q)[j] => i = j
          /\ \A b \in born : b.parent = Id(q) =>
               Gone(b.id) \/ b.id \in forgot \/ \E i \in 1 .. Len(KidsOf(q)) : KidsOf(q)[i] = b.id
      BY <3>1 DEF ProcInv, Known
    <3>3. CASE q # p
      <4>1. KidsOf(q)' = KidsOf(q) /\ Id(p) # Id(q)
        BY <3>1, <3>3 DEF Id
      <4>2. \A b \in born' : b.parent = Id(q) => b \in born
        BY <1>3, <4>1
      <4>3. \A b \in born : b \in born'
        BY <1>3
      <4>. QED
        BY <1>7, <3>1, <3>2, <4>1, <4>2, <4>3
    <3>4. CASE q = p /\ ks = KidsOf(p) /\ id \in forgot'
      <4>1. KidsOf(q)' = KidsOf(q)
        BY <3>1, <3>4
      <4>2. \A b \in born' : b \in born \/ b.id \in forgot'
        BY <1>3, <3>4
      <4>3. \A b \in born : b \in born'
        BY <1>3
      <4>. QED
        BY <1>7, <3>1, <3>2, <4>1, <4>2, <4>3
    <3>5. CASE q = p /\ ks = Append(KidsOf(p), id)
      <4> DEFINE old == KidsOf(p)
                 n == Len(old)
      <4>1. /\ n \in Nat /\ Len(ks) = n + 1 /\ ks[n + 1] = id
            /\ \A i \in 1 .. n : ks[i] = old[i]
        BY <1>1, <1>2, <3>5
      <4>2. \A i \in 1 .. n : \E b \in born : b.parent = Id(p) /\ b.id = old[i]
        BY <3>2, <3>5
      <4>3. \A i \in 1 .. n : old[i] # id
        BY <1>7, <4>2
      <4>4. KidsOf(q)' = ks
        BY <3>1, <3>5
      <4>5. \A i, j \in 1 .. n : old[i] = old[j] => i = j
        BY <3>2, <3>5
      <4>6. \A b \in born : b.parent = Id(p) =>
               Gone(b.id) \/ b.id \in forgot \/ \E i \in 1 .. n : old[i] = b.id
        BY <3>2, <3>5
      <4> HIDE DEF old, n
      <4>7. \A i \in 1 .. n + 1 : (i \in 1 .. n /\ ks[i] = old[i]) \/ (i = n + 1 /\ ks[i] = id)
        BY <4>1
      <4>8. \A i, j \in 1 .. Len(ks) : ks[i] = ks[j] => i = j
        BY <4>1, <4>3, <4>5, <4>7
      <4>9. \A i \in 1 .. Len(ks) : \E b \in born' : b.parent = Id(p) /\ b.id = ks[i]
        BY <1>3, <4>1, <4>2, <4>7
      <4>10. \A i \in 1 .. n : i \in 1 .. Len(ks) /\ ks[i] = old[i]
        BY <4>1
      <4>11. n + 1 \in 1 .. Len(ks) /\ ks[n + 1] = id
        BY <4>1
      <4>12. ASSUME NEW b \in born', b.parent = Id(p)
             PROVE  Gone(b.id)' \/ b.id \in forgot' \/ \E i \in 1 .. Len(ks) : ks[i] = b.id
        <5>1. CASE b \in born
          BY <1>7, <4>6, <4>10, <4>12, <5>1
        <5>2. CASE b = b0
          BY <1>3, <4>11, <5>2
        <5>. QED
          BY <1>3, <5>1, <5>2
      <4>. QED
        BY <3>1, <3>5, <4>4, <4>8, <4>9, <4>12
    <3>. QED
      BY <3>3, <3>4, <3>5
  <2>. QED
    BY <2>1, <2>2
<1>. QED
  BY <1>6, <1>8

LEMMA FreeSlotOf ==
  ASSUME ProcInv, FreeSlots # {}
  PROVE  LowestFree \in Pid /\ ~proc[LowestFree].live /\ proc[LowestFree].gen < MaxGen
<1>1. FreeSlots \subseteq Nat
  BY Constants DEF FreeSlots
<1>2. \E i \in FreeSlots : \A j \in FreeSlots : i <= j
  BY <1>1, LeastOf
<1>3. LowestFree \in FreeSlots
  BY <1>2 DEF LowestFree
<1>. QED
  BY <1>3 DEF FreeSlots

LEMMA ForkedKeeps ==
  ASSUME ProcInv, NEW p \in Pid, proc[p].live, proc[p].pc.fn = "none", ops' \in 0 .. MaxOps,
         NEW pc \in Place, pc.fn # "join", Forked(p, pc)
  PROVE  ProcInv'
<1> DEFINE c == LowestFree
           id == [pid |-> c, gen |-> proc[c].gen + 1]
           old == proc[p].lib.kids
           kids == ChildAdd(old, id)
           y == [proc[p] EXCEPT !.pc = pc, !.lib.kids = kids, !.ret = Nothing]
           z == Child(p, c)
<1>1. /\ proc' = [proc EXCEPT ![c] = Child(p, c), ![p].pc = pc, ![p].ret = Nothing, ![p].lib.kids = kids]
      /\ born' = born \cup {[id |-> id, parent |-> Id(p)]}
      /\ forgot' = forgot \cup ({id} \ ToSet(kids))
      /\ UNCHANGED <<kernel, ended>> /\ FreeSlots # {}
  BY DEF Forked
<1>2. c \in Pid /\ ~proc[c].live /\ proc[c].gen < MaxGen
  BY <1>1, FreeSlotOf
<1> HIDE DEF c
<1>3. c # p /\ TableInv /\ proc \in [Pid -> ProcRec]
  BY <1>2 DEF ProcInv, TableInv
<1>4. /\ proc[p] \in ProcRec /\ ProcOK(proc[p]) /\ old \in Seq(Ident) /\ Len(old) <= ChildMax
      /\ id \in Ident /\ Len(old) \in Nat
  <2>1. proc[p] \in ProcRec /\ ProcOK(proc[p]) /\ proc[p].lib \in LibRec /\ proc[c] \in ProcRec
    BY <1>2, <1>3, InPlace
  <2>2. old \in Seq(Ident) /\ Len(old) <= ChildMax
    BY <2>1 DEF LibRec, ProcOK, BoundsOK
  <2>3. proc[c].gen \in Nat
    BY <2>1 DEF ProcRec
  <2>. QED
    BY <1>2, <2>1, <2>2, <2>3 DEF Ident
<1> HIDE DEF id
<1>5. /\ kids \in Seq(Ident) /\ Len(kids) <= ChildMax
      /\ kids = old \/ kids = Append(old, id)
  <2>1. CASE Len(old) < ChildMax
    <3>1. kids = Append(old, id)
      BY <2>1 DEF ChildAdd
    <3>2. Append(old, id) \in Seq(Ident) /\ Len(Append(old, id)) = Len(old) + 1
      BY <1>4
    <3>3. Len(old) + 1 <= ChildMax
      BY <1>4, <2>1, Constants
    <3>. QED
      BY <3>1, <3>2, <3>3
  <2>2. CASE ~(Len(old) < ChildMax)
    BY <1>4, <2>2 DEF ChildAdd
  <2>. QED
    BY <2>1, <2>2
<1> HIDE DEF kids, old
<1>6. ProcOK(y) /\ y.lib.kids = kids /\ y.live = proc[p].live /\ y.gen = proc[p].gen
  <2> DEFINE x == proc[p]
             l == [x.lib EXCEPT !.kids = kids]
  <2>1. x \in ProcRec /\ x.lib \in LibRec /\ ProcOK(x)
    BY <1>4 DEF ProcRec
  <2>2. y = [x EXCEPT !.pc = pc, !.lib = l, !.ret = Nothing]
    BY <2>1 DEF ProcRec, LibRec
  <2> HIDE DEF x, y
  <2>3. /\ l \in LibRec /\ l.kids = kids /\ l.sa = x.lib.sa /\ l.notify = x.lib.notify
        /\ l.hooks = x.lib.hooks /\ l.made = x.lib.made /\ l.ran = x.lib.ran
    BY <1>5, <2>1 DEF LibRec
  <2> HIDE DEF l
  <2>4. y \in ProcRec
    BY <2>1, <2>2, <2>3, Nowhere DEF ProcRec
  <2>5. /\ y.pc = pc /\ y.lib = l /\ y.gen = x.gen /\ y.notes = x.notes /\ y.handler = x.handler
        /\ y.insig = x.insig /\ y.live = x.live
    BY <2>1, <2>2 DEF ProcRec
  <2>6. ProcOK(y)
    BY <1>5, <2>1, <2>3, <2>4, <2>5, PutKids
  <2>. QED
    BY <2>3, <2>5, <2>6 DEF x
<1>7. ProcOK(z) /\ z.gen = proc[c].gen + 1 /\ z.lib.kids = <<>>
  BY <1>2, <1>3, ChildIsOK
<1> HIDE DEF z
<1>8. /\ \A i \in Pid : proc'[i] = IF i = c THEN z ELSE IF i = p THEN y ELSE proc[i]
      /\ DOMAIN proc' = Pid
  <2>1. y = [proc[p] EXCEPT !.pc = pc, !.ret = Nothing, !.lib.kids = kids]
    BY <1>4 DEF ProcRec, LibRec
  <2>2. proc' = [proc EXCEPT ![c] = z, ![p] = [proc[p] EXCEPT !.pc = pc, !.ret = Nothing, !.lib.kids = kids]]
    BY <1>1, <1>2, <1>3, ZenonT(40) DEF z
  <2> HIDE DEF y
  <2>3. proc' = [proc EXCEPT ![c] = z, ![p] = y]
    BY <2>1, <2>2
  <2>. QED
    BY <1>2, <1>3, <2>3
<1> HIDE DEF y
<1>9. \A i \in Pid : ProcOK(proc'[i])
  BY <1>3, <1>6, <1>7, <1>8 DEF TableInv
<1>10. proc' \in [Pid -> ProcRec]
  <2>1. \A i \in Pid : proc'[i] \in ProcRec
    BY <1>9 DEF ProcOK
  <2>2. \E f : proc' = [i \in Pid |-> f[i]]
    <3>1. proc' = [i \in Pid |-> proc'[i]]
      BY <1>1, <1>3
    <3>. QED
      BY <3>1
  <2>. QED
    BY <2>1, <2>2
<1>11. TableInv'
  <2>1. ended' = ended /\ ring' = ring /\ next' = next
    BY <1>1 DEF kernel
  <2>2. HandlersRunOnce'
    BY <1>3, <2>1 DEF TableInv, HandlersRunOnce
  <2>3. /\ ring' \in [0 .. Records - 1 -> [pid : Nat, gen : Nat, code : Int]] /\ next' \in 0 .. Records - 1
        /\ ended' \in Seq(EndRec)
    BY <1>3, <2>1 DEF TableInv
  <2>. QED
    BY <1>8, <1>9, <1>10, <2>2, <2>3 DEF TableInv
<1>12. BornBefore' /\ Known'
  \* The slot, the identity and the table as values of this state.
  <2> DEFINE b1 == [id |-> id, parent |-> Id(p)]
  <2>1. PICK d, ks, me, b0 : d \in Pid /\ d = c /\ ks = kids /\ me = id /\ b0 = b1
    BY <1>2
  <2>2. b0.id = me /\ b0.parent = Id(p) /\ born' = born \cup {b0} /\ forgot \subseteq forgot'
    BY <1>1, <2>1
  <2> HIDE DEF b1
  <2>3. (kids = KidsOf(p) /\ id \in forgot') \/ kids = Append(KidsOf(p), id)
    <3>1. CASE id \in ToSet(kids) /\ kids = old
      <4>1. PICK i \in 1 .. Len(old) : old[i] = id
        BY <1>4, <3>1 DEF ToSet
      <4>2. PICK b \in born : b.id = id
        BY <4>1 DEF ProcInv, Known, KidsOf, old
      <4>3. id.gen <= proc[id.pid].gen /\ id.pid = c /\ id.gen = proc[c].gen + 1 /\ proc[c].gen \in Nat
        BY <1>2, <1>3, <4>2 DEF ProcInv, BornBefore, id, ProcRec
      <4>. QED
        BY <4>3
    <3>2. CASE id \notin ToSet(kids) /\ kids = old
      BY <1>1, <3>2 DEF KidsOf, old
    <3>. QED
      BY <1>5, <3>1, <3>2 DEF KidsOf, old
  <2>4. proc'[d] = z /\ proc'[p] = y /\ d # p /\ ~proc[d].live
    BY <1>2, <1>3, <1>8, <2>1
  <2>5. Len(KidsOf(d)') = 0 /\ proc'[d].gen = proc[d].gen + 1 /\ KidsOf(p)' = ks
    BY <1>6, <1>7, <2>1, <2>4 DEF KidsOf
  <2>6. me = Id(d)'
    BY <2>1, <2>5 DEF id, Id
  <2>7. \A i \in Pid : i # d =>
           /\ proc'[i].gen = proc[i].gen /\ proc'[i].live = proc[i].live
           /\ i # p => KidsOf(i)' = KidsOf(i)
    BY <1>6, <1>8, <2>1 DEF KidsOf
  <2>8. (ks = KidsOf(p) /\ me \in forgot') \/ ks = Append(KidsOf(p), me)
    BY <2>1, <2>3
  <2>9. d \in Pid
    BY <2>1
  <2>. QED
    BY <2>2, <2>4, <2>5, <2>6, <2>7, <2>8, <2>9, BirthKnows
<1>. QED
  BY <1>11, <1>12 DEF ProcInv

LEMMA ForkKeeps ==
  ASSUME ProcInv, NEW p \in Pid, Fork(p) \/ System(p)
  PROVE  ProcInv'
<1>0. TableInv
  BY DEF ProcInv
<1>1. proc[p].live /\ proc[p].pc.fn = "none" /\ ops' \in 0 .. MaxOps
  BY <1>0, Called DEF Fork, System
<1>2. CASE Fork(p)
  BY <1>1, <1>2, Nowhere, ForkedKeeps DEF Fork
<1>3. CASE System(p)
  <2> DEFINE id == [pid |-> LowestFree, gen |-> proc[LowestFree].gen + 1]
             pc == [fn |-> "system", id |-> id]
  <2>1. Forked(p, pc)
    BY <1>3 DEF System
  <2>2. LowestFree \in Pid
    BY <2>1, FreeSlotOf DEF Forked
  <2>3. id \in Ident
    BY <1>0, <2>2 DEF TableInv, ProcRec, Ident
  <2> HIDE DEF id
  <2>4. pc \in Place /\ pc.fn = "system"
    BY <2>3 DEF Place, InSystem
  <2> HIDE DEF pc
  <2>. QED
    BY <1>1, <2>1, <2>4, ForkedKeeps
<1>. QED
  BY <1>2, <1>3

LEMMA ExecKeeps ==
  ASSUME ProcInv, NEW p \in Pid, Exec(p)
  PROVE  ProcInv'
<1> DEFINE x == proc[p]
           y == [x EXCEPT !.lib = FreshLib, !.handler = FALSE, !.ret = Nothing]
<1>0. TableInv
  BY DEF ProcInv
<1>1. x \in ProcRec /\ ProcOK(x) /\ x.live /\ x.pc.fn = "none" /\ ops' \in 0 .. MaxOps
  BY <1>0, Called DEF Exec
<1>2. Becomes(p, y) /\ forgot' = forgot \cup ToSet(KidsOf(p)) /\ UNCHANGED <<kernel, ended, born>>
  BY DEF Exec, KidsOf
<1> HIDE DEF x
<1>3. y \in ProcRec
  <2>1. FALSE \in BOOLEAN
    OBVIOUS
  <2>. QED
    BY <1>1, <2>1, FreshIsOK, Nowhere DEF ProcRec
<1>4. /\ y.lib = FreshLib /\ y.handler = FALSE /\ y.gen = x.gen /\ y.pc = x.pc /\ y.notes = x.notes
      /\ y.live = x.live
  BY <1>1 DEF ProcRec
<1> HIDE DEF y
<1>5. ProcOK(y)
  BY <1>1, <1>3, <1>4, Anew
<1>6. TableInv' /\ \A i \in Pid : proc'[i] = IF i = p THEN y ELSE proc[i]
  BY <1>0, <1>1, <1>2, <1>5, Become
<1>7. KidsOf(p) \in Seq(Ident)
  BY <1>0, InPlace DEF KidsOf, LibRec
<1>8. \A j \in 1 .. Len(KidsOf(p)) : KidsOf(p)[j] \in forgot'
  BY <1>2, <1>7 DEF ToSet
<1> DEFINE ks == FreshLib.kids
<1>9. Len(ks) = 0
  BY FreshIsOK
<1> HIDE DEF ks
<1>10. \A i \in Pid : /\ proc'[i].gen = proc[i].gen /\ proc'[i].live = proc[i].live
                      /\ proc'[i].lib.kids = IF i = p THEN ks ELSE proc[i].lib.kids
  BY <1>4, <1>6 DEF ks, x
<1>11. BornBefore' /\ Known'
  <2>1. \A i : i \notin 1 .. Len(ks)
    BY <1>9
  <2>2. proc[p].live /\ born' = born /\ forgot \subseteq forgot'
    BY <1>1, <1>2 DEF x
  <2>. QED
    BY <1>8, <1>10, <2>1, <2>2, DropKnows
<1>. QED
  BY <1>6, <1>11 DEF ProcInv

\* waitpid after its wait, with a code or with a note.
LEMMA JoinedKeeps ==
  ASSUME ProcInv, NEW p \in Pid, Inside(p, "join"), NEW code \in Int, NEW intr \in BOOLEAN,
         Becomes(p, Joined(p, code, intr)), born' = born, ended' = ended, ops' = ops, forgot \subseteq forgot',
         ring' \in [0 .. Records - 1 -> [pid : Nat, gen : Nat, code : Int]], next' = next,
         Gone(KidsOf(p)[proc[p].pc.i]) \/ KidsOf(p)[proc[p].pc.i] \in forgot'
  PROVE  ProcInv'
<1> DEFINE x == proc[p]
           w == x.pc
           old == x.lib.kids
           id == old[w.i]
           ret == [fn |-> w.for, id |-> id, status |-> Status(code), intr |-> intr, own |-> w.own]
           ks == RemoveAt(old, w.i)
           y == [x EXCEPT !.pc = Nothing, !.lib.kids = ks, !.ret = ret]
<1>0. TableInv
  BY DEF ProcInv
<1>1. /\ x \in ProcRec /\ ProcOK(x) /\ x.lib \in LibRec /\ w \in Place /\ w.fn = "join" /\ x.live
  BY <1>0, InPlace DEF Inside
<1>2. /\ w.i \in 1 .. Len(old) /\ old \in Seq(Ident) /\ Len(old) \in Nat /\ Len(old) <= ChildMax
      /\ w.for \in {"waitpid", "system"} /\ w.own \in Own
  BY <1>1, PlaceOf DEF ProcOK, BoundsOK, LibRec
<1>3. Becomes(p, y)
  BY DEF Joined
<1>4. id \in Ident
  BY <1>2, ElementOfSeq
<1>5. Status(code) \in 0 .. 255
  BY DEF Status
<1> HIDE DEF x, w, id
<1>6. ret \in Result
  BY <1>2, <1>4, <1>5 DEF Result, Waited
<1> HIDE DEF ret, old
<1>7. /\ ks \in Seq(Ident) /\ Len(ks) = Len(old) - 1
      /\ \A j \in 1 .. Len(old) - 1 : ks[j] = IF j < w.i THEN old[j] ELSE old[j + 1]
  BY <1>2, RemovedOf
<1> HIDE DEF ks
<1>8. Len(ks) <= ChildMax
  BY <1>2, <1>7, Constants
<1>9. ProcOK(y) /\ y.lib.kids = ks /\ y.live = x.live /\ y.gen = x.gen
  <2> DEFINE l == [x.lib EXCEPT !.kids = ks]
  <2>1. x \in ProcRec /\ x.lib \in LibRec /\ ProcOK(x)
    BY <1>1
  <2>2. y = [x EXCEPT !.pc = Nothing, !.lib = l, !.ret = ret]
    BY <2>1 DEF ProcRec, LibRec
  <2> HIDE DEF y
  <2>3. /\ l \in LibRec /\ l.kids = ks /\ l.sa = x.lib.sa /\ l.notify = x.lib.notify
        /\ l.hooks = x.lib.hooks /\ l.made = x.lib.made /\ l.ran = x.lib.ran
    BY <1>7, <2>1 DEF LibRec
  <2> HIDE DEF l
  <2>4. y \in ProcRec
    BY <1>6, <2>1, <2>2, <2>3, Nowhere DEF ProcRec
  <2>5. /\ y.pc = Nothing /\ y.lib = l /\ y.gen = x.gen /\ y.notes = x.notes /\ y.handler = x.handler
        /\ y.insig = x.insig /\ y.live = x.live
    BY <2>1, <2>2 DEF ProcRec
  <2>6. y.pc.fn # "join"
    BY <2>5, Nowhere
  <2>7. ProcOK(y)
    BY <1>8, <2>1, <2>3, <2>4, <2>5, <2>6, PutKids
  <2>. QED
    BY <2>3, <2>5, <2>7
<1> HIDE DEF y
<1>10. \A i \in Pid : proc'[i] = IF i = p THEN y ELSE proc[i]
  BY <1>0, <1>3 DEF Becomes, TableInv
<1>11. DOMAIN proc' = Pid /\ proc' \in [Pid -> ProcRec] /\ \A i \in Pid : ProcOK(proc'[i])
  <2>1. y \in ProcRec
    BY <1>9 DEF ProcOK
  <2>2. DOMAIN proc' = Pid /\ proc' \in [Pid -> ProcRec]
    BY <1>0, <1>3, <2>1 DEF Becomes, TableInv
  <2>. QED
    BY <1>0, <1>9, <1>10, <2>2 DEF TableInv
<1>12. TableInv'
  BY <1>0, <1>11 DEF TableInv, HandlersRunOnce
<1>13. \A i \in Pid : /\ proc'[i].gen = proc[i].gen /\ proc'[i].live = proc[i].live
                      /\ proc'[i].lib.kids = IF i = p THEN ks ELSE proc[i].lib.kids
  BY <1>9, <1>10 DEF x
<1>14. /\ proc[p].live /\ KidsOf(p) = old
       /\ \A i, j \in 1 .. Len(old) : old[i] = old[j] => i = j
       /\ Gone(old[w.i]) \/ old[w.i] \in forgot'
  BY <1>1 DEF ProcInv, Known, KidsOf, old, x, w
<1>15. \A i \in 1 .. Len(ks) : \E j \in 1 .. Len(old) : old[j] = ks[i] /\ j # w.i /\ i = (IF j < w.i THEN j ELSE j - 1)
  <2> TAKE i \in 1 .. Len(ks)
  <2>1. CASE i < w.i
    <3>1. i \in 1 .. Len(old) /\ ks[i] = old[i]
      BY <1>2, <1>7, <2>1
    <3>. QED
      BY <1>2, <2>1, <3>1
  <2>2. CASE ~(i < w.i)
    <3>1. i + 1 \in 1 .. Len(old) /\ ks[i] = old[i + 1] /\ ~(i + 1 < w.i) /\ i + 1 # w.i /\ (i + 1) - 1 = i
      BY <1>2, <1>7, <2>2
    <3>. QED
      BY <3>1
  <2>. QED
    BY <2>1, <2>2
<1>16. \A i, j \in 1 .. Len(ks) : ks[i] = ks[j] => i = j
  BY SMTT(30), <1>14, <1>15
<1>17. ASSUME NEW j \in 1 .. Len(old), j # w.i
       PROVE  \E i \in 1 .. Len(ks) : ks[i] = old[j]
  <2>1. CASE j < w.i
    <3>1. j \in 1 .. Len(ks) /\ ks[j] = old[j]
      BY SMTT(30), <1>2, <1>7, <2>1
    <3>. QED
      BY <3>1
  <2>2. CASE ~(j < w.i)
    <3>1. j - 1 \in 1 .. Len(ks) /\ ~(j - 1 < w.i) /\ (j - 1) + 1 = j
      BY <1>2, <1>7, <1>17, <2>2
    <3>2. ks[j - 1] = old[(j - 1) + 1]
      BY <1>7, <3>1
    <3>. QED
      BY <3>1, <3>2
  <2>. QED
    BY <2>1, <2>2
<1>18. BornBefore' /\ Known'
  <2>1. \A i \in 1 .. Len(ks) : \E j \in 1 .. Len(KidsOf(p)) : KidsOf(p)[j] = ks[i]
    BY <1>14, <1>15
  <2>2. \A j \in 1 .. Len(KidsOf(p)) :
           Gone(KidsOf(p)[j]) \/ KidsOf(p)[j] \in forgot' \/ \E i \in 1 .. Len(ks) : ks[i] = KidsOf(p)[j]
    BY <1>14, <1>17
  <2>. QED
    BY <1>13, <1>14, <1>16, <2>1, <2>2, DropKnows, SMTT(30)
<1>. QED
  BY <1>12, <1>18 DEF ProcInv

LEMMA JoinKeeps ==
  ASSUME ProcInv, NEW p \in Pid, Join(p)
  PROVE  ProcInv'
<1> DEFINE id == KidsOf(p)[proc[p].pc.i]
           code == TakenCode(id)
<1>1. /\ Inside(p, "join") /\ Gone(id) /\ Becomes(p, Joined(p, code, FALSE)) /\ TakeExit(id)
      /\ next' = next /\ ops' = ops /\ ended' = ended /\ born' = born /\ forgot' = forgot
  BY DEF Join, history, KidsOf
<1>2. ring \in [0 .. Records - 1 -> [pid : Nat, gen : Nat, code : Int]]
  BY DEF ProcInv, TableInv
<1>3. code \in Int
  <2>1. CASE Recorded(id) = {}
    BY <2>1 DEF TakenCode
  <2>2. CASE Recorded(id) # {}
    <3> DEFINE i == CHOOSE i \in Recorded(id) : TRUE
    <3>1. i \in Recorded(id)
      BY SMTT(30), <2>2
    <3>2. i \in 0 .. Records - 1
      BY <1>2, <3>1 DEF Recorded
    <3>3. code = ring[i].code
      BY <2>2 DEF TakenCode
    <3> HIDE DEF i
    <3>. QED
      BY <1>2, <3>2, <3>3
  <2>. QED
    BY <2>1, <2>2
<1>4. ring' \in [0 .. Records - 1 -> [pid : Nat, gen : Nat, code : Int]]
  BY <1>1, <1>2 DEF TakeExit, NoRec
<1>5. FALSE \in BOOLEAN /\ forgot \subseteq forgot'
  BY <1>1
<1>6. Gone(KidsOf(p)[proc[p].pc.i]) \/ KidsOf(p)[proc[p].pc.i] \in forgot'
  BY <1>1
<1> HIDE DEF code
<1>. QED
  BY <1>1, <1>3, <1>4, <1>5, <1>6, JoinedKeeps

LEMMA JoinInterruptedKeeps ==
  ASSUME ProcInv, NEW p \in Pid, JoinInterrupted(p)
  PROVE  ProcInv'
<1>1. /\ Inside(p, "join") /\ Becomes(p, Joined(p, -1, TRUE)) /\ UNCHANGED <<kernel, ops, ended, born>>
      /\ forgot' = forgot \cup {KidsOf(p)[proc[p].pc.i]}
  BY DEF JoinInterrupted, KidsOf
<1>2. ring' \in [0 .. Records - 1 -> [pid : Nat, gen : Nat, code : Int]] /\ next' = next
  BY <1>1 DEF ProcInv, TableInv, kernel
<1>3. /\ -1 \in Int /\ TRUE \in BOOLEAN /\ forgot \subseteq forgot'
      /\ Gone(KidsOf(p)[proc[p].pc.i]) \/ KidsOf(p)[proc[p].pc.i] \in forgot'
  BY <1>1
<1>. QED
  BY <1>1, <1>2, <1>3, JoinedKeeps
-----------------------------------------------------------------------------
(* Every step.                                                               *)

LEMMA ChildrenBegin == Init => ProcInv
<1> SUFFICES ASSUME Init PROVE ProcInv
  OBVIOUS
<1>1. TableInv
  BY TablesBegin
<1>2. BornBefore
  BY DEF Init, BornBefore
<1>3. \A p \in Pid : KidsOf(p) = <<>>
  BY DEF Init, KidsOf, FreshLib
<1>4. Known
  BY <1>3 DEF Known, Init
<1>. QED
  BY <1>1, <1>2, <1>4 DEF ProcInv

LEMMA QuietStep ==
  ASSUME ProcInv, TableInv' /\ Quiet
  PROVE  ProcInv'
BY QuietKnows DEF ProcInv

LEMMA EveryStepKeeps == ProcInv /\ [Next]_vars => ProcInv'
<1> SUFFICES ASSUME ProcInv, [Next]_vars
             PROVE  ProcInv'
  OBVIOUS
<1>0. TableInv
  BY DEF ProcInv
<1>1. CASE UNCHANGED vars
  <2>1. TableInv'
    BY <1>0, <1>1 DEF vars, TableInv, HandlersRunOnce
  <2>2. Quiet
    BY <1>1 DEF vars, Quiet
  <2>. QED
    BY <2>1, <2>2, QuietStep
<1>2. ASSUME NEW p \in Pid, Fork(p) \/ System(p)
      PROVE  ProcInv'
  BY <1>2, ForkKeeps
<1>3. ASSUME NEW p \in Pid, Exec(p)
      PROVE  ProcInv'
  BY <1>3, ExecKeeps
<1>4. ASSUME NEW p \in Pid, SystemWaits(p)
      PROVE  ProcInv'
  BY <1>0, <1>4, SystemWaitsKeeps, QuietStep
<1>5. ASSUME NEW p \in Pid, Join(p)
      PROVE  ProcInv'
  BY <1>5, JoinKeeps
<1>6. ASSUME NEW p \in Pid, JoinInterrupted(p)
      PROVE  ProcInv'
  BY <1>6, JoinInterruptedKeeps
<1>7. ASSUME NEW p \in Pid, NEW q \in Pid \cup {-1}, Waitpid(p, q)
      PROVE  ProcInv'
  BY <1>0, <1>7, WaitpidKeeps, QuietStep
<1>8. ASSUME NEW p \in Pid, NEW k \in Hook, Atexit(p, k)
      PROVE  ProcInv'
  BY <1>0, <1>8, AtexitKeeps, QuietStep
<1>9. ASSUME NEW p \in Pid, NEW code \in Code, Exit(p, code)
      PROVE  ProcInv'
  BY <1>0, <1>9, ExitKeeps, QuietStep
<1>10. ASSUME NEW p \in Pid, RunHook(p)
       PROVE  ProcInv'
  BY <1>0, <1>10, RunHookKeeps, QuietStep
<1>11. ASSUME NEW p \in Pid, ExitEnds(p)
       PROVE  ProcInv'
  BY <1>0, <1>11, ExitEndsKeeps, QuietStep
<1>12. ASSUME NEW p \in Pid, NEW h \in {"dfl", "ign", "fn"}, NEW reset \in BOOLEAN, Sigaction(p, "TERM", h, reset)
       PROVE  ProcInv'
  BY <1>0, <1>12, SigactionKeeps, QuietStep
<1>13. ASSUME NEW p \in Pid, NEW q \in Pid, NEW sig \in {"USR1", "KILL"}, Kill(p, q, sig)
       PROVE  ProcInv'
  BY <1>0, <1>13, KillKeeps, QuietStep
<1>14. ASSUME NEW p \in Pid, Deliver(p)
       PROVE  ProcInv'
  BY <1>0, <1>14, DeliverKeeps, QuietStep
<1>15. ASSUME NEW p \in Pid, NEW again \in BOOLEAN, HandlerReturns(p, again)
       PROVE  ProcInv'
  BY <1>0, <1>15, HandlerReturnsKeeps, QuietStep
<1>. QED
  BY <1>1, <1>2, <1>3, <1>4, <1>5, <1>6, <1>7, <1>8, <1>9, <1>10, <1>11, <1>12, <1>13, <1>14, <1>15 DEF Next
-----------------------------------------------------------------------------
(* What the kernel's exit records say of those that ended.                   *)

Past(id) == id.gen < proc[id.pid].gen \/ (id.gen = proc[id.pid].gen /\ ~proc[id.pid].live)

\* Every incarnation of a slot lives or has ended, once.
EndedOnce ==
  /\ \A i \in Pid : \A g \in 1 .. proc[i].gen :
       (g = proc[i].gen /\ proc[i].live) \/ \E n \in DOMAIN ended : ended[n].id = [pid |-> i, gen |-> g]
  /\ \A n \in DOMAIN ended : Past(ended[n].id)
  /\ \A n, m \in DOMAIN ended : ended[n].id = ended[m].id => n = m

\* A child has one parent, which the kernel knows while the child has its slot.
OneParent ==
  /\ \A b \in born : b.id.gen = proc[b.id.pid].gen => proc[b.id.pid].parent = b.parent.pid
  /\ \A b, c \in born : b.id = c.id => b.parent = c.parent
  /\ \A b \in born : b.id.gen > 0

\* A record is true, and as many failed after its process as there are records
\* written after it.
Names(i, id) == ring[i].pid = id.pid /\ ring[i].gen = id.gen
Age(i) == IF i < next THEN next - 1 - i ELSE Records + next - 1 - i
RecordsTrue ==
  \A i \in DOMAIN ring :
    /\ ring[i].pid # 0 => \E n \in DOMAIN ended : Names(i, ended[n].id) /\ ended[n].code = ring[i].code
    /\ \A n \in DOMAIN ended : Names(i, ended[n].id) => FailuresAfter(n) >= Age(i)

\* The failure of a child that can be waited for is recorded, or overwritten.
RecordsKept ==
  \A p \in Pid : proc[p].live =>
    \A j \in 1 .. Len(KidsOf(p)), n \in DOMAIN ended :
      ended[n].id = KidsOf(p)[j] /\ ended[n].code # 0 => Recorded(ended[n].id) # {} \/ FailuresAfter(n) >= Records

NoAnswerYet == \A p \in Pid : proc[p].pc.fn = "join" => proc[p].ret = Nothing

RecordInv == EndedOnce /\ OneParent /\ RecordsTrue /\ RecordsKept /\ NoAnswerYet

LEMMA EndedOf ==
  ASSUME TableInv
  PROVE  /\ Len(ended) \in Nat /\ DOMAIN ended = 1 .. Len(ended)
         /\ \A n \in DOMAIN ended : /\ ended[n] \in EndRec /\ ended[n].id \in Ident /\ ended[n].code \in Int
                                    /\ ended[n].id.pid \in Pid /\ ended[n].id.gen \in Nat
<1>1. ended \in Seq(EndRec)
  BY DEF TableInv
<1>2. Len(ended) \in Nat /\ DOMAIN ended = 1 .. Len(ended) /\ \A n \in 1 .. Len(ended) : ended[n] \in EndRec
  BY <1>1, LenProperties, ElementOfSeq
<1>3. \A e \in EndRec : e.id \in Ident /\ e.code \in Int
  BY DEF EndRec
<1>. QED
  BY <1>2, <1>3 DEF Ident

LEMMA FailuresIn ==
  ASSUME TableInv, NEW n \in 0 .. Len(ended)
  PROVE  FailuresAfter(n) \in Nat /\ IsFiniteSet({i \in n + 1 .. Len(ended) : ended[i].code # 0})
<1>1. n + 1 \in Int /\ Len(ended) \in Int
  BY EndedOf
<1>2. IsFiniteSet(n + 1 .. Len(ended))
  BY <1>1, FS_Interval
<1>3. IsFiniteSet({i \in n + 1 .. Len(ended) : ended[i].code # 0})
  BY <1>2, FS_Subset
<1>. QED
  BY <1>3, FS_CardinalityType DEF FailuresAfter

\* A process more has ended.
LEMMA FailuresMore ==
  ASSUME TableInv, NEW e \in EndRec, ended' = Append(ended, e), NEW n \in 0 .. Len(ended)
  PROVE  FailuresAfter(n)' = FailuresAfter(n) + (IF e.code # 0 THEN 1 ELSE 0)
<1> DEFINE S == {i \in n + 1 .. Len(ended) : ended[i].code # 0}
           T == {i \in n + 1 .. Len(ended') : ended'[i].code # 0}
           k == Len(ended) + 1
<1>1. /\ Len(ended) \in Nat /\ Len(ended') = k /\ ended'[k] = e
      /\ \A i \in 1 .. Len(ended) : ended'[i] = ended[i]
  BY EndedOf DEF TableInv
<1>2. IsFiniteSet(S) /\ Cardinality(S) = FailuresAfter(n)
  BY FailuresIn DEF FailuresAfter
<1>3. FailuresAfter(n)' = Cardinality(T)
  BY DEF FailuresAfter
<1>4. \A i : i \in n + 1 .. k <=> i \in n + 1 .. Len(ended) \/ i = k
  BY <1>1
<1>5. \A i \in n + 1 .. Len(ended) : i \in 1 .. Len(ended) /\ i # k
  BY <1>1
<1>6. CASE e.code # 0
  <2>1. T = S \cup {k} /\ k \notin S
    BY <1>1, <1>4, <1>5, <1>6
  <2> HIDE DEF S, T, k
  <2>2. Cardinality(T) = Cardinality(S) + 1
    BY <1>2, <2>1, FS_AddElement
  <2>. QED
    BY <1>2, <1>3, <1>6, <2>2
<1>7. CASE ~(e.code # 0)
  <2>1. T = S
    BY <1>1, <1>4, <1>5, <1>7
  <2> HIDE DEF S, T, k
  <2>2. FailuresAfter(n) \in Nat
    BY FailuresIn
  <2>. QED
    BY <1>2, <1>3, <1>7, <2>1, <2>2
<1>. QED
  BY <1>6, <1>7

\* The next record is the oldest one; when it is overwritten, the others age.
LEMMA AgeOf ==
  ASSUME TableInv, NEW i \in 0 .. Records - 1
  PROVE  /\ Age(i) \in Nat /\ Age(next) = Records - 1
         /\ next' = (next + 1) % Records => IF i = next THEN Age(i)' = 0 ELSE Age(i)' = Age(i) + 1
<1>1. next \in Nat /\ next < Records /\ Records \in Nat /\ i \in Nat /\ i < Records
  BY Constants DEF TableInv
<1>2. Age(i) \in Nat /\ Age(next) = Records - 1
  BY <1>1 DEF Age
<1>3. ASSUME next' = (next + 1) % Records
      PROVE  IF i = next THEN Age(i)' = 0 ELSE Age(i)' = Age(i) + 1
  <2>1. CASE next + 1 < Records
    <3>1. next' = next + 1
      BY <1>1, <1>3, <2>1
    <3>. QED
      BY <1>1, <2>1, <3>1 DEF Age
  <2>2. CASE next + 1 = Records
    <3>1. next' = 0
      BY <1>1, <1>3, <2>2
    <3>. QED
      BY <1>1, <2>2, <3>1 DEF Age
  <2>. QED
    BY <1>1, <2>1, <2>2
<1>. QED
  BY <1>2, <1>3

LEMMA KnownKid ==
  ASSUME ProcInv, NEW p \in Pid, proc[p].live, NEW j \in 1 .. Len(KidsOf(p))
  PROVE  /\ KidsOf(p) \in Seq(Ident) /\ Len(KidsOf(p)) \in Nat
         /\ KidsOf(p)[j] \in Ident /\ KidsOf(p)[j].pid \in Pid /\ KidsOf(p)[j].gen \in Nat
         /\ \E b \in born : b.id = KidsOf(p)[j] /\ b.parent = Id(p)
<1>1. KidsOf(p) \in Seq(Ident)
  BY InPlace DEF ProcInv, KidsOf, LibRec
<1>2. Len(KidsOf(p)) \in Nat /\ KidsOf(p)[j] \in Ident
  BY <1>1, LenProperties, ElementOfSeq
<1>3. \E b \in born : b.id = KidsOf(p)[j] /\ b.parent = Id(p)
  BY DEF ProcInv, Known
<1>. QED
  BY <1>1, <1>2, <1>3 DEF Ident


LEMMA SameIdent ==
  ASSUME NEW a \in Ident, NEW b \in Ident, a.pid = b.pid, a.gen = b.gen
  PROVE  a = b
BY DEF Ident

\* Nobody is born or ends, no record is taken; tables of children lose entries
\* at most, and whoever waits gets no answer, or that of a note.
Calm ==
  /\ UNCHANGED <<ring, next, ended, born>>
  /\ \A i \in Pid :
       /\ proc'[i].gen = proc[i].gen /\ proc'[i].live = proc[i].live /\ proc'[i].parent = proc[i].parent
       /\ \A j \in 1 .. Len(KidsOf(i)') : \E k \in 1 .. Len(KidsOf(i)) : KidsOf(i)'[j] = KidsOf(i)[k]
       /\ proc'[i].pc.fn = "join" => proc'[i].ret = Nothing
       /\ proc[i].pc.fn = "join" => proc'[i].ret = Nothing \/ proc'[i].ret.intr

LEMMA CalmKeeps ==
  ASSUME ProcInv, RecordInv, Calm
  PROVE  RecordInv'
<1>0. /\ TableInv
      /\ \A i \in Pid : proc'[i].gen = proc[i].gen /\ proc'[i].live = proc[i].live /\ proc'[i].parent = proc[i].parent
      /\ ring' = ring /\ next' = next /\ ended' = ended /\ born' = born
  BY DEF ProcInv, Calm
<1>1. \A n \in DOMAIN ended : ended[n].id.pid \in Pid
  BY <1>0, EndedOf
<1>2. EndedOnce'
  BY <1>0, <1>1 DEF RecordInv, EndedOnce, Past
<1>3. OneParent'
  <2>1. \A b \in born : b.id.pid \in Pid
    BY DEF ProcInv, BornBefore, Ident
  <2>. QED
    BY <1>0, <2>1 DEF RecordInv, OneParent
<1>4. \A n : FailuresAfter(n)' = FailuresAfter(n)
  BY <1>0 DEF FailuresAfter
<1>5. RecordsTrue'
  BY <1>0, <1>4 DEF RecordInv, RecordsTrue, Names, Age
<1>6. RecordsKept'
  <2> SUFFICES ASSUME NEW p \in Pid, proc'[p].live, NEW j \in 1 .. Len(KidsOf(p)'), NEW n \in DOMAIN ended',
                      ended'[n].id = KidsOf(p)'[j], ended'[n].code # 0
               PROVE  Recorded(ended[n].id)' # {} \/ FailuresAfter(n)' >= Records
    BY DEF RecordsKept
  <2>1. PICK k \in 1 .. Len(KidsOf(p)) : KidsOf(p)'[j] = KidsOf(p)[k]
    BY DEF Calm
  <2>2. Recorded(ended[n].id) # {} \/ FailuresAfter(n) >= Records
    BY <1>0, <2>1 DEF RecordInv, RecordsKept
  <2>3. Recorded(ended[n].id)' = Recorded(ended[n].id)
    BY <1>0 DEF Recorded
  <2>. QED
    BY <1>4, <2>2, <2>3
<1>7. NoAnswerYet'
  BY DEF Calm, NoAnswerYet
<1>. QED
  BY <1>2, <1>3, <1>5, <1>6, <1>7 DEF RecordInv

\* A process ends, and its failure is recorded if it is somebody's child.
LEMMA EndKeeps ==
  ASSUME ProcInv, RecordInv, NEW p \in Pid, proc[p].live, NEW code \in Int, NEW how \in {"exit", "note"},
         Destroy(p, code, how)
  PROVE  RecordInv' /\ \A i \in Pid : proc'[i].ret = Nothing \/ proc'[i].ret = proc[i].ret
<1> DEFINE e == [id |-> Id(p), code |-> code, how |-> how, ran |-> proc[p].lib.ran, made |-> proc[p].lib.made]
           L == Len(ended)
           me == Id(p)
<1>0. TableInv
  BY DEF ProcInv
<1>1. /\ proc[p] \in ProcRec /\ proc[p].gen \in Nat /\ proc[p].lib.ran \in Seq(RanRec) /\ proc[p].lib.made \in Nat
  BY <1>0, InPlace DEF ProcRec, LibRec
<1>2. /\ e \in EndRec /\ e.id = me /\ e.code = code /\ me \in Ident /\ me.pid = p /\ me.gen = proc[p].gen
  BY <1>1 DEF EndRec, Ident, Id
<1>3. ended' = Append(ended, e) /\ born' = born /\ RecordExit(p, code)
  BY DEF Destroy
<1>4. \A i \in Pid : /\ proc'[i].gen = proc[i].gen /\ proc'[i].live = (proc[i].live /\ i # p)
                     /\ proc'[i].parent = proc[i].parent
                     /\ i # p => proc'[i] = proc[i]
                     /\ i = p => proc'[i].ret = Nothing /\ proc'[i].pc = Nothing
  <2> DEFINE x == proc[p]
             y == [x EXCEPT !.live = FALSE, !.notes = <<>>, !.pc = Nothing, !.ret = Nothing,
                            !.insig = "none", !.handler = FALSE, !.lib = FreshLib]
  <2>1. \A i \in Pid : proc'[i] = IF i = p THEN y ELSE proc[i]
    BY <1>0 DEF Destroy, Becomes, TableInv
  <2>2. y.live = FALSE /\ y.pc = Nothing /\ y.ret = Nothing /\ y.gen = x.gen /\ y.parent = x.parent
    BY <1>1 DEF ProcRec
  <2> HIDE DEF y
  <2>3. \A i \in Pid : proc[i].live \in BOOLEAN
    BY <1>0, InPlace DEF ProcRec
  <2>. QED
    BY <2>1, <2>2, <2>3
<1> HIDE DEF e, me
<1>5. /\ L \in Nat /\ DOMAIN ended = 1 .. L /\ DOMAIN ended' = 1 .. L + 1 /\ ended'[L + 1] = e
      /\ \A n \in 1 .. L : ended'[n] = ended[n]
      /\ \A n \in 1 .. L : /\ ended[n].id \in Ident /\ ended[n].code \in Int
                           /\ ended[n].id.pid \in Pid /\ ended[n].id.gen \in Nat
  BY <1>0, <1>2, <1>3, EndedOf DEF TableInv
<1> HIDE DEF L
<1>6. \A n \in 1 .. L + 1 : n \in 1 .. L \/ n = L + 1
  BY <1>5
<1>6a. \A n \in 1 .. L : n \in 1 .. L + 1 /\ n # L + 1
  BY <1>5
<1>7. \A n \in 1 .. L : Past(ended[n].id)
  BY <1>5 DEF RecordInv, EndedOnce
<1>8. \A n \in 1 .. L : ended[n].id # me
  BY <1>1, <1>2, <1>7 DEF Past
<1>9. EndedOnce'
  <2>1. ASSUME NEW i \in Pid, NEW g \in 1 .. proc'[i].gen
        PROVE  (g = proc'[i].gen /\ proc'[i].live) \/ \E n \in DOMAIN ended' : ended'[n].id = [pid |-> i, gen |-> g]
    <3>1. CASE g = proc[i].gen /\ proc[i].live /\ i = p
      <4>1. me = [pid |-> i, gen |-> g]
        BY <3>1 DEF me, Id
      <4>2. L + 1 \in DOMAIN ended'
        BY <1>5
      <4>. QED
        BY <1>2, <1>5, <4>1, <4>2
    <3>2. CASE g = proc[i].gen /\ proc[i].live /\ i # p
      BY <1>4, <3>2
    <3>3. CASE ~(g = proc[i].gen /\ proc[i].live)
      <4>1. PICK n \in DOMAIN ended : ended[n].id = [pid |-> i, gen |-> g]
        BY <1>4, <3>3 DEF RecordInv, EndedOnce
      <4>. QED
        BY <1>5, <1>6a, <4>1
    <3>. QED
      BY <3>1, <3>2, <3>3
  <2>2. \A n \in DOMAIN ended' : Past(ended[n].id)'
    <3> SUFFICES ASSUME NEW n \in 1 .. L + 1 PROVE Past(ended[n].id)'
      BY <1>5
    <3>1. CASE n \in 1 .. L
      BY <1>4, <1>5, <1>7, <3>1 DEF Past
    <3>2. CASE n = L + 1
      BY <1>2, <1>4, <1>5, <3>2 DEF Past
    <3>. QED
      BY <1>6, <3>1, <3>2
  <2>3. \A n, m \in DOMAIN ended' : ended'[n].id = ended'[m].id => n = m
    <3>1. \A n, m \in 1 .. L : ended[n].id = ended[m].id => n = m
      BY <1>5 DEF RecordInv, EndedOnce
    <3>. QED
      BY <1>2, <1>5, <1>6, <1>8, <3>1
  <2>. QED
    BY <2>1, <2>2, <2>3 DEF EndedOnce
<1>10. OneParent'
  <2>1. \A b \in born : b.id.pid \in Pid
    BY DEF ProcInv, BornBefore, Ident
  <2>. QED
    BY <1>3, <1>4, <2>1 DEF RecordInv, OneParent
<1>11. /\ \A n \in 0 .. L : FailuresAfter(n)' = FailuresAfter(n) + (IF code # 0 THEN 1 ELSE 0) /\ FailuresAfter(n) \in Nat
       /\ \A n : n = L + 1 => FailuresAfter(n)' = 0
  <2>1. \A n \in 0 .. L : FailuresAfter(n)' = FailuresAfter(n) + (IF code # 0 THEN 1 ELSE 0) /\ FailuresAfter(n) \in Nat
    BY <1>0, <1>2, <1>3, FailuresMore, FailuresIn DEF L
  <2>3. Len(ended') = L + 1
    BY <1>2, <1>3, <1>0 DEF L, TableInv
  <2>5. ASSUME NEW n, n = L + 1
        PROVE  FailuresAfter(n)' = Cardinality({})
    <3>1. \A i : i \notin n + 1 .. L + 1
      BY <1>5, <2>5
    <3>2. {i \in n + 1 .. Len(ended') : ended'[i].code # 0} = {}
      BY <2>3, <3>1
    <3>. QED
      BY <3>2 DEF FailuresAfter
  <2>. QED
    BY <2>1, <2>5, FS_EmptySet
<1>12. \A n \in 1 .. L : /\ n \in 0 .. L /\ FailuresAfter(n) \in Nat /\ FailuresAfter(n)' \in Nat
                         /\ FailuresAfter(n)' >= FailuresAfter(n)
                         /\ code # 0 => FailuresAfter(n)' = FailuresAfter(n) + 1
  BY <1>5, <1>11
<1>13. /\ DOMAIN ring = 0 .. Records - 1 /\ next \in 0 .. Records - 1 /\ 0 \notin Pid /\ DOMAIN ring' = 0 .. Records - 1
  BY <1>0, <1>3, Constants, RecordKeeps DEF TableInv
<1>14. /\ \A i \in 0 .. Records - 1 : ring[i].pid # 0 =>
            \E n \in 1 .. L : Names(i, ended[n].id) /\ ended[n].code = ring[i].code
       /\ \A i \in 0 .. Records - 1, n \in 1 .. L : Names(i, ended[n].id) => FailuresAfter(n) >= Age(i)
  BY <1>5, <1>13 DEF RecordInv, RecordsTrue
<1>15. ASSUME NEW q \in Pid, q # p, proc[q].live, NEW j \in 1 .. Len(KidsOf(q)), NEW n \in 1 .. L,
              ended[n].id = KidsOf(q)[j], ended[n].code # 0
       PROVE  Recorded(ended[n].id) # {} \/ FailuresAfter(n) >= Records
  BY <1>5, <1>15 DEF RecordInv, RecordsKept
<1>16. ASSUME NEW q \in Pid, q # p, proc[q].live, NEW j \in 1 .. Len(KidsOf(q)), me = KidsOf(q)[j]
       PROVE  proc[p].parent # 0
  <2>1. PICK b \in born : b.id = me /\ b.parent = Id(q)
    BY <1>16, KnownKid
  <2>2. proc[p].parent = b.parent.pid
    BY <1>2, <2>1 DEF RecordInv, OneParent
  <2>. QED
    BY <1>13, <2>1, <2>2 DEF Id
<1>17. NoAnswerYet'
  BY <1>4, Nowhere DEF RecordInv, NoAnswerYet
<1>18. \A q \in Pid : proc'[q].live => q # p /\ proc[q].live /\ KidsOf(q)' = KidsOf(q)
  BY <1>4 DEF KidsOf
<1>19. CASE proc[p].parent = 0 \/ code = 0
  <2>1. ring' = ring /\ next' = next
    BY <1>3, <1>19 DEF RecordExit, kernel
  <2>2. RecordsTrue'
    <3>1. \A i \in 0 .. Records - 1 : ring[i].pid # 0 =>
            \E n \in 1 .. L + 1 : Names(i, ended[n].id)' /\ ended'[n].code = ring[i].code
      <4> TAKE i \in 0 .. Records - 1
      <4> HAVE ring[i].pid # 0
      <4>1. PICK n \in 1 .. L : Names(i, ended[n].id) /\ ended[n].code = ring[i].code
        BY <1>14
      <4>2. n \in 1 .. L + 1 /\ ended'[n] = ended[n]
        BY <1>5, <1>6a
      <4>3. Names(i, ended[n].id)'
        BY <2>1, <4>1, <4>2 DEF Names
      <4>. QED
        BY <4>1, <4>2, <4>3
    <3>2. ASSUME NEW i \in 0 .. Records - 1, NEW n \in 1 .. L + 1, Names(i, ended[n].id)'
          PROVE  FailuresAfter(n)' >= Age(i)'
      <4>1. Age(i)' = Age(i) /\ Age(i) \in Nat
        BY <1>0, <2>1, AgeOf DEF Age
      <4>2. CASE n \in 1 .. L
        <5>1. FailuresAfter(n) >= Age(i)
          BY <1>5, <1>14, <2>1, <3>2, <4>2 DEF Names
        <5>. QED
          BY <1>12, <4>1, <4>2, <5>1
      <4>3. CASE n = L + 1
        <5>1. ring[i].pid = p /\ ring[i].gen = me.gen
          BY <1>2, <1>5, <2>1, <3>2, <4>3 DEF Names
        <5>2. PICK m \in 1 .. L : Names(i, ended[m].id)
          BY <1>13, <1>14, <5>1
        <5>3. ended[m].id.pid = me.pid /\ ended[m].id.gen = me.gen
          BY <1>2, <5>1, <5>2 DEF Names
        <5>4. ended[m].id = me
          BY <1>2, <1>5, <5>3, SameIdent
        <5>. QED
          BY <1>8, <5>4
      <4>. QED
        BY <1>6, <4>2, <4>3
    <3>. QED
      BY <1>5, <1>13, <2>1, <3>1, <3>2 DEF RecordsTrue
  <2>3. RecordsKept'
    <3> SUFFICES ASSUME NEW q \in Pid, proc'[q].live, NEW j \in 1 .. Len(KidsOf(q)'), NEW n \in DOMAIN ended',
                        ended'[n].id = KidsOf(q)'[j], ended'[n].code # 0
                 PROVE  Recorded(ended[n].id)' # {} \/ FailuresAfter(n)' >= Records
      BY DEF RecordsKept
    <3>1. q # p /\ proc[q].live /\ KidsOf(q)' = KidsOf(q) /\ n \in 1 .. L + 1 /\ j \in 1 .. Len(KidsOf(q))
      BY <1>5, <1>18
    <3>2. CASE n \in 1 .. L
      <4>1. Recorded(ended[n].id) # {} \/ FailuresAfter(n) >= Records
        BY <1>5, <1>15, <3>1, <3>2
      <4>2. Recorded(ended[n].id)' = Recorded(ended[n].id)
        BY <1>5, <2>1, <3>2 DEF Recorded
      <4>3. Records \in Nat
        BY Constants
      <4>. QED
        BY <1>12, <3>2, <4>1, <4>2, <4>3
    <3>3. CASE n = L + 1
      BY <1>2, <1>5, <1>16, <1>19, <3>1, <3>3
    <3>. QED
      BY <1>6, <3>1, <3>2, <3>3
  <2>. QED
    BY <1>4, <1>9, <1>10, <1>17, <2>2, <2>3 DEF RecordInv
<1>20. CASE ~(proc[p].parent = 0 \/ code = 0)
  <2> DEFINE r == [pid |-> p, gen |-> proc[p].gen, code |-> code]
  <2>1. ring' = [ring EXCEPT ![next] = r] /\ next' = (next + 1) % Records /\ code # 0
    BY <1>3, <1>20 DEF RecordExit
  <2>2. /\ \A i \in 0 .. Records - 1 : ring'[i] = IF i = next THEN r ELSE ring[i]
        /\ r.pid = p /\ r.gen = me.gen /\ r.code = code
    BY <1>2, <1>13, <2>1
  <2> HIDE DEF r
  <2>3. RecordsTrue'
    <3>1. ASSUME NEW i \in 0 .. Records - 1, ring'[i].pid # 0
          PROVE  \E n \in 1 .. L + 1 : Names(i, ended[n].id)' /\ ended'[n].code = ring'[i].code
      <4>1. CASE i = next
        <5>1. L + 1 \in 1 .. L + 1
          BY <1>5
        <5>. QED
          BY <1>2, <1>5, <2>2, <4>1, <5>1 DEF Names
      <4>2. CASE i # next
        <5>1. PICK n \in 1 .. L : Names(i, ended[n].id) /\ ended[n].code = ring[i].code
          BY <1>14, <2>2, <3>1, <4>2
        <5>. QED
          BY <1>5, <1>6a, <2>2, <4>2, <5>1 DEF Names
      <4>. QED
        BY <4>1, <4>2
    <3>2. ASSUME NEW i \in 0 .. Records - 1, NEW n \in 1 .. L + 1, Names(i, ended[n].id)'
          PROVE  FailuresAfter(n)' >= Age(i)'
      <4>1. (IF i = next THEN Age(i)' = 0 ELSE Age(i)' = Age(i) + 1) /\ Age(i) \in Nat
        BY <1>0, <2>1, AgeOf
      <4>2. CASE i = next
        <5>1. FailuresAfter(n)' >= 0
          BY <1>6, <1>11, <1>12
        <5>. QED
          BY <4>1, <4>2, <5>1
      <4>3. CASE i # next /\ n \in 1 .. L
        <5>1. FailuresAfter(n) >= Age(i)
          BY <1>5, <1>14, <2>2, <3>2, <4>3 DEF Names
        <5>. QED
          BY <1>12, <2>1, <4>1, <4>3, <5>1
      <4>4. CASE i # next /\ n = L + 1
        <5>1. ring[i].pid = p /\ ring[i].gen = me.gen
          BY <1>2, <1>5, <2>2, <3>2, <4>4 DEF Names
        <5>2. PICK m \in 1 .. L : Names(i, ended[m].id)
          BY <1>13, <1>14, <5>1
        <5>3. ended[m].id.pid = me.pid /\ ended[m].id.gen = me.gen
          BY <1>2, <5>1, <5>2 DEF Names
        <5>4. ended[m].id = me
          BY <1>2, <1>5, <5>3, SameIdent
        <5>. QED
          BY <1>8, <5>4
      <4>. QED
        BY <1>6, <4>2, <4>3, <4>4
    <3>. QED
      BY <1>5, <1>13, <3>1, <3>2 DEF RecordsTrue
  <2>4. RecordsKept'
    <3> SUFFICES ASSUME NEW q \in Pid, proc'[q].live, NEW j \in 1 .. Len(KidsOf(q)'), NEW n \in DOMAIN ended',
                        ended'[n].id = KidsOf(q)'[j], ended'[n].code # 0
                 PROVE  Recorded(ended[n].id)' # {} \/ FailuresAfter(n)' >= Records
      BY DEF RecordsKept
    <3>1. q # p /\ proc[q].live /\ KidsOf(q)' = KidsOf(q) /\ n \in 1 .. L + 1 /\ j \in 1 .. Len(KidsOf(q))
      BY <1>5, <1>18
    <3>2. CASE n = L + 1
      <4>1. next \in Recorded(ended[n].id)'
        BY <1>2, <1>5, <1>13, <2>2, <3>2 DEF Recorded
      <4>. QED
        BY <4>1
    <3>3. CASE n \in 1 .. L
      <4>1. ended[n].id = KidsOf(q)[j] /\ ended[n].code # 0 /\ ended'[n].id = ended[n].id
        BY <1>5, <3>1, <3>3
      <4>2. CASE FailuresAfter(n) >= Records
        BY <1>12, <3>3, <4>2, Constants
      <4>3. CASE Recorded(ended[n].id) # {}
        <5>1. PICK i \in 0 .. Records - 1 : Names(i, ended[n].id)
          BY <1>13, <4>3 DEF Recorded, Names
        <5>2. CASE i = next
          <6>1. FailuresAfter(n) >= Age(next) /\ Age(next) = Records - 1
            BY <1>0, <1>14, <3>3, <5>1, <5>2, AgeOf
          <6>. QED
            BY <1>12, <2>1, <3>3, <6>1, Constants
        <5>3. CASE i # next
          <6>1. i \in Recorded(ended[n].id)'
            BY <1>13, <2>2, <4>1, <5>1, <5>3 DEF Recorded, Names
          <6>. QED
            BY <6>1
        <5>. QED
          BY <5>2, <5>3
      <4>. QED
        BY <1>15, <3>1, <3>3, <4>1, <4>2, <4>3
    <3>. QED
      BY <1>6, <3>1, <3>2, <3>3
  <2>. QED
    BY <1>4, <1>9, <1>10, <1>17, <2>3, <2>4 DEF RecordInv
<1>. QED
  BY <1>19, <1>20


\* A child is born: its incarnation is new to its slot.
LEMMA BirthRecords ==
  ASSUME ProcInv, RecordInv, NEW p \in Pid, proc[p].live, proc[p].pc.fn = "none",
         NEW pc \in Place, pc.fn # "join", Forked(p, pc)
  PROVE  RecordInv' /\ \A i \in Pid : proc'[i].ret = Nothing \/ proc'[i].ret = proc[i].ret
<1> DEFINE c == LowestFree
           id == [pid |-> c, gen |-> proc[c].gen + 1]
           b0 == [id |-> id, parent |-> Id(p)]
           kids == ChildAdd(proc[p].lib.kids, id)
           y == [proc[p] EXCEPT !.pc = pc, !.ret = Nothing, !.lib.kids = kids]
           z == Child(p, c)
<1>0. TableInv
  BY DEF ProcInv
<1>1. /\ proc' = [proc EXCEPT ![c] = Child(p, c), ![p].pc = pc, ![p].ret = Nothing, ![p].lib.kids = kids]
      /\ born' = born \cup {b0}
      /\ FreeSlots # {}
  BY DEF Forked
<1>1a. ring' = ring /\ next' = next /\ ended' = ended
  BY DEF Forked, kernel
<1>2. c \in Pid /\ ~proc[c].live /\ proc[c].gen < MaxGen /\ c # p
  BY <1>1, FreeSlotOf
<1> HIDE DEF c
<1>3. /\ proc[p] \in ProcRec /\ proc[p].lib \in LibRec /\ KidsOf(p) \in Seq(Ident) /\ proc[c].gen \in Nat
      /\ \A i \in Pid : proc[i].gen \in Nat
  BY <1>0, <1>2, InPlace DEF ProcRec, LibRec, KidsOf
<1>4. id \in Ident /\ id.pid = c /\ id.gen = proc[c].gen + 1 /\ b0.id = id /\ b0.parent = Id(p) /\ Id(p).pid = p
  BY <1>2, <1>3 DEF Ident, Id
<1>5. /\ Len(KidsOf(p)) \in Nat
      /\ kids = KidsOf(p) \/ (kids = Append(KidsOf(p), id) /\ Len(kids) = Len(KidsOf(p)) + 1)
  BY SMTT(30), <1>3, <1>4 DEF ChildAdd, KidsOf
<1> HIDE DEF id, b0, kids
<1>6. y.gen = proc[p].gen /\ y.live /\ y.live = proc[p].live /\ y.parent = proc[p].parent /\ y.pc = pc /\ y.ret = Nothing /\ y.lib.kids = kids
  BY <1>3 DEF ProcRec, LibRec
<1>7. z.gen = proc[c].gen + 1 /\ z.live /\ z.parent = p /\ z.pc = proc[p].pc /\ z.ret = Nothing /\ z.lib.kids = <<>>
  BY <1>3 DEF Child, ProcRec, LibRec
<1>8. \A i \in Pid : proc'[i] = IF i = c THEN z ELSE IF i = p THEN y ELSE proc[i]
  <2>1. proc' = [proc EXCEPT ![c] = z, ![p] = y]
    <3>1. proc' = [proc EXCEPT ![c] = z, ![p] = [proc[p] EXCEPT !.pc = pc, !.ret = Nothing, !.lib.kids = kids]]
      BY <1>0, <1>1, <1>2, ZenonT(40) DEF z, TableInv
    <3>. QED
      BY <3>1 DEF y
  <2> HIDE DEF y, z
  <2>. QED
    BY <1>0, <1>2, <2>1 DEF TableInv
<1> HIDE DEF y, z
<1>9. \A i \in Pid : /\ i # c => proc'[i].gen = proc[i].gen /\ proc'[i].live = proc[i].live /\ proc'[i].parent = proc[i].parent
                     /\ i # c /\ i # p => proc'[i] = proc[i]
                     /\ i = c => proc'[i].gen = proc[i].gen + 1 /\ proc'[i].live /\ proc'[i].parent = p
  BY <1>2, <1>6, <1>7, <1>8
<1>10. \A n \in DOMAIN ended : /\ ended[n].id \in Ident /\ ended[n].id.pid \in Pid /\ ended[n].id.gen \in Nat
                               /\ Past(ended[n].id) /\ ended[n].id.gen <= proc[ended[n].id.pid].gen
  <2>1. \A n \in DOMAIN ended : /\ ended[n].id \in Ident /\ ended[n].id.pid \in Pid /\ ended[n].id.gen \in Nat
                                /\ Past(ended[n].id)
    BY <1>0, EndedOf DEF RecordInv, EndedOnce
  <2>. QED
    BY <1>3, <2>1 DEF Past
<1>11. EndedOnce'
  <2>1. ASSUME NEW i \in Pid, NEW g \in 1 .. proc'[i].gen
        PROVE  (g = proc'[i].gen /\ proc'[i].live) \/ \E n \in DOMAIN ended' : ended'[n].id = [pid |-> i, gen |-> g]
    <3>1. CASE i = c
      <4>1. CASE g = proc[c].gen + 1
        BY <1>9, <3>1, <4>1
      <4>2. CASE g # proc[c].gen + 1
        <5>1. g \in 1 .. proc[i].gen
          BY <1>3, <1>9, <3>1, <4>2
        <5>. QED
          BY <1>1a, <1>2, <3>1, <5>1 DEF RecordInv, EndedOnce
      <4>. QED
        BY <4>1, <4>2
    <3>2. CASE i # c
      <4>1. g \in 1 .. proc[i].gen /\ proc'[i].gen = proc[i].gen /\ proc'[i].live = proc[i].live
        BY <1>9, <3>2
      <4>. QED
        BY <1>1a, <4>1 DEF RecordInv, EndedOnce
    <3>. QED
      BY <3>1, <3>2
  <2>2. ASSUME NEW n \in DOMAIN ended
        PROVE  Past(ended[n].id)'
    <3>1. CASE ended[n].id.pid = c
      <4>1. ended[n].id.gen < proc[c].gen + 1
        BY SMTT(30), <1>3, <1>10, <3>1
      <4>. QED
        BY <1>1a, <1>2, <1>9, <3>1, <4>1 DEF Past
    <3>2. CASE ended[n].id.pid # c
      BY <1>1a, <1>9, <1>10, <3>2 DEF Past
    <3>. QED
      BY <3>1, <3>2
  <2>. QED
    BY <1>1a, <2>1, <2>2 DEF RecordInv, EndedOnce
<1>12. \A b \in born : b.id.pid \in Pid /\ b.id.gen \in Nat /\ b.id.gen <= proc[b.id.pid].gen
  BY DEF ProcInv, BornBefore, Ident
<1>13. \A b \in born : b.id # id
  BY <1>3, <1>4, <1>12
<1>14. OneParent'
  <2>1. ASSUME NEW b \in born', b.id.gen = proc'[b.id.pid].gen
        PROVE  proc'[b.id.pid].parent = b.parent.pid
    <3>1. CASE b = b0
      BY <1>2, <1>4, <1>9, <3>1
    <3>2. CASE b \in born
      <4>1. b.id.pid # c
        BY <1>2, <1>3, <1>9, <1>12, <2>1, <3>2
      <4>. QED
        BY <1>9, <1>12, <2>1, <3>2, <4>1 DEF RecordInv, OneParent
    <3>. QED
      BY <1>1, <3>1, <3>2
  <2>2. \A a, b \in born' : a.id = b.id => a.parent = b.parent
    BY <1>1, <1>4, <1>13 DEF RecordInv, OneParent
  <2>3. \A b \in born' : b.id.gen > 0
    <3>1. b0.id.gen > 0
      BY <1>3, <1>4
    <3>. QED
      BY <1>1, <3>1 DEF RecordInv, OneParent
  <2>. QED
    BY <2>1, <2>2, <2>3 DEF OneParent
<1>15. \A n : FailuresAfter(n)' = FailuresAfter(n)
  BY <1>1a DEF FailuresAfter
<1>16. RecordsTrue'
  BY <1>1a, <1>15 DEF RecordInv, RecordsTrue, Names, Age
<1>17. RecordsKept'
  <2> SUFFICES ASSUME NEW q \in Pid, proc'[q].live, NEW j \in 1 .. Len(KidsOf(q)'), NEW n \in DOMAIN ended',
                      ended'[n].id = KidsOf(q)'[j], ended'[n].code # 0
               PROVE  Recorded(ended[n].id)' # {} \/ FailuresAfter(n)' >= Records
    BY DEF RecordsKept
  <2>1. ended'[n] = ended[n] /\ n \in DOMAIN ended /\ Recorded(ended[n].id)' = Recorded(ended[n].id)
    BY <1>1a DEF Recorded
  <2>2. CASE q # c /\ q # p
    BY <1>9, <1>15, <2>1, <2>2 DEF RecordInv, RecordsKept, KidsOf
  <2>3. CASE q = c
    BY <1>7, <1>8, <2>3 DEF KidsOf
  <2>4. CASE q = p
    <3>1. KidsOf(p)' = kids
      BY <1>2, <1>6, <1>8 DEF KidsOf
    <3>2. ended[n].id # id
      BY <1>3, <1>4, <1>10, <2>1
    <3>3. j \in 1 .. Len(KidsOf(p)) /\ kids[j] = KidsOf(p)[j]
      <4>1. CASE kids = KidsOf(p)
        BY <2>4, <3>1, <4>1
      <4>2. CASE kids = Append(KidsOf(p), id) /\ Len(kids) = Len(KidsOf(p)) + 1
        <5>1. j \in 1 .. Len(KidsOf(p)) + 1
          BY <2>4, <3>1, <4>2
        <5>2. /\ j = Len(KidsOf(p)) + 1 => kids[j] = id
              /\ j \in 1 .. Len(KidsOf(p)) => kids[j] = KidsOf(p)[j]
          BY <1>3, <1>4, <4>2, <5>1, AppendProperties
        <5>. QED
          BY <1>5, <2>1, <2>4, <3>1, <3>2, <5>1, <5>2
      <4>. QED
        BY <1>5, <4>1, <4>2
    <3>. QED
      BY <1>15, <2>1, <2>4, <3>1, <3>3 DEF RecordInv, RecordsKept
  <2>. QED
    BY <2>2, <2>3, <2>4
<1>18. NoAnswerYet'
  BY <1>6, <1>7, <1>8 DEF RecordInv, NoAnswerYet
<1>. QED
  BY <1>6, <1>7, <1>8, <1>11, <1>14, <1>16, <1>17, <1>18 DEF RecordInv

\* waitpid returns with the code of the record, which is used up.
JoinAnswered(p) ==
  LET r == proc'[p].ret IN
  \E n \in DOMAIN ended :
    /\ ended[n].id = r.id
    /\ r.status = ended[n].code % 256 \/ (r.status = 0 /\ FailuresAfter(n) >= Records)

LEMMA JoinRecords ==
  ASSUME ProcInv, RecordInv, NEW p \in Pid, Join(p)
  PROVE  RecordInv' /\ JoinAnswered(p) /\ \A i \in Pid : i # p => proc'[i] = proc[i]
<1> DEFINE x == proc[p]
           w == x.pc
           old == x.lib.kids
           id == old[w.i]
           code == TakenCode(id)
           ret == [fn |-> w.for, id |-> id, status |-> Status(code), intr |-> FALSE, own |-> w.own]
           ks == RemoveAt(old, w.i)
           y == [x EXCEPT !.pc = Nothing, !.lib.kids = ks, !.ret = ret]
<1>0. TableInv
  BY DEF ProcInv
<1>1. /\ Becomes(p, y) /\ x.live /\ w.fn = "join" /\ Gone(id) /\ TakeExit(id)
      /\ next' = next /\ ended' = ended /\ born' = born
  BY DEF Join, Joined, Inside, history
<1>2. x \in ProcRec /\ ProcOK(x) /\ x.lib \in LibRec /\ old \in Seq(Ident) /\ w.i \in 1 .. Len(old) /\ Len(old) \in Nat
  <2>1. x \in ProcRec /\ ProcOK(x) /\ x.lib \in LibRec
    BY <1>0, InPlace
  <2>2. old \in Seq(Ident)
    BY <2>1 DEF LibRec
  <2>3. w.i \in 1 .. Len(old)
    BY <1>1, <2>1 DEF ProcOK, BoundsOK
  <2>. QED
    BY <2>1, <2>2, <2>3, LenProperties
<1>3. old = KidsOf(p)
  BY DEF KidsOf
<1>4. id \in Ident /\ id.pid \in Pid /\ id.gen \in Nat
  <2>1. id \in Ident
    BY <1>2, ElementOfSeq
  <2> HIDE DEF id
  <2>. QED
    BY <2>1 DEF Ident
<1>5. PICK b \in born : b.id = id /\ b.parent = Id(p)
  BY <1>1, <1>2, <1>3, KnownKid
<1>6. \A i, j \in 1 .. Len(old) : old[i] = old[j] => i = j
  BY <1>1, <1>3 DEF ProcInv, Known
<1>7. /\ Len(ks) = Len(old) - 1
      /\ \A j \in 1 .. Len(old) - 1 : ks[j] = IF j < w.i THEN old[j] ELSE old[j + 1]
  BY <1>2, RemovedOf
<1>8. \A i \in Pid : proc'[i] = IF i = p THEN y ELSE proc[i]
  BY <1>0, <1>1 DEF Becomes, TableInv
<1> HIDE DEF code, id, ks
<1>9. y.gen = x.gen /\ y.live = x.live /\ y.parent = x.parent /\ y.pc = Nothing /\ y.lib.kids = ks /\ y.ret = ret
  BY <1>2 DEF ProcRec, LibRec
<1>10. ret.id = id /\ ret.status = Status(code)
  OBVIOUS
<1> HIDE DEF y, ret
<1>11. \A i \in Pid : /\ proc'[i].gen = proc[i].gen /\ proc'[i].live = proc[i].live /\ proc'[i].parent = proc[i].parent
                      /\ i # p => proc'[i] = proc[i]
                      /\ i = p => proc'[i].ret = ret /\ proc'[i].pc = Nothing /\ KidsOf(i)' = ks
  BY <1>8, <1>9 DEF x, KidsOf
<1> HIDE DEF x, w, old
<1>12. /\ \A n \in DOMAIN ended : /\ ended[n].id \in Ident /\ ended[n].id.pid \in Pid /\ ended[n].id.gen \in Nat
                                  /\ ended[n].code \in Int
       /\ DOMAIN ring = 0 .. Records - 1 /\ 0 \notin Pid /\ next \in 0 .. Records - 1
  BY <1>0, EndedOf, Constants DEF TableInv
\* The child has ended.
<1>13. PICK n \in DOMAIN ended : ended[n].id = id
  <2>1. id.gen \in 1 .. proc[id.pid].gen /\ ~(id.gen = proc[id.pid].gen /\ proc[id.pid].live)
    <3>1. id.gen > 0 /\ id.gen <= proc[id.pid].gen /\ proc[id.pid].gen \in Nat
      BY <1>0, <1>4, <1>5, InPlace DEF RecordInv, OneParent, ProcInv, BornBefore, ProcRec
    <3>. QED
      BY <1>1, <1>4, <3>1 DEF Gone
  <2>2. PICK n \in DOMAIN ended : ended[n].id = [pid |-> id.pid, gen |-> id.gen]
    BY <1>4, <2>1 DEF RecordInv, EndedOnce
  <2>3. ended[n].id = id
    BY <1>4, <1>12, <2>2, SameIdent
  <2>. QED
    BY <2>3
\* The record is its own; without one, its code was 0 or the record is lost.
<1>14. JoinAnswered(p)
  <2>1. proc'[p].ret.id = id /\ proc'[p].ret.status = code % 256
    BY <1>10, <1>11 DEF Status
  <2>2. CASE Recorded(id) # {}
    <3> DEFINE i == CHOOSE i \in Recorded(id) : TRUE
    <3>1. i \in Recorded(id) /\ code = ring[i].code
      BY <2>2 DEF TakenCode, code
    <3> HIDE DEF i
    <3>2. i \in DOMAIN ring /\ Names(i, id) /\ ring[i].pid # 0
      BY <1>4, <1>12, <3>1 DEF Recorded, Names
    <3>3. PICK m \in DOMAIN ended : Names(i, ended[m].id) /\ ended[m].code = ring[i].code
      BY <3>2 DEF RecordInv, RecordsTrue
    <3>4. ended[m].id = id
      BY <1>4, <1>12, <3>2, <3>3, SameIdent DEF Names
    <3>. QED
      BY <2>1, <3>1, <3>3, <3>4 DEF JoinAnswered
  <2>3. CASE Recorded(id) = {}
    <3>1. code = 0 /\ proc'[p].ret.status = 0
      BY <2>1, <2>3 DEF TakenCode, code
    <3>2. CASE ended[n].code = 0
      BY <1>13, <2>1, <3>1, <3>2 DEF JoinAnswered
    <3>3. CASE ended[n].code # 0
      <4>1. PICK j \in 1 .. Len(KidsOf(p)) : KidsOf(p)[j] = id
        BY <1>2, <1>3 DEF id, w, old
      <4>2. FailuresAfter(n) >= Records
        BY <1>1, <1>13, <2>3, <3>3, <4>1 DEF RecordInv, RecordsKept, x
      <4>. QED
        BY <1>13, <2>1, <3>1, <4>2 DEF JoinAnswered
    <3>. QED
      BY <3>2, <3>3
  <2>. QED
    BY <2>2, <2>3
<1>15. EndedOnce'
  BY <1>1, <1>11, <1>12 DEF RecordInv, EndedOnce, Past
<1>16. OneParent'
  <2>1. \A a \in born : a.id.pid \in Pid
    BY DEF ProcInv, BornBefore, Ident
  <2>. QED
    BY <1>1, <1>11, <2>1 DEF RecordInv, OneParent
<1>17. \A m : FailuresAfter(m)' = FailuresAfter(m)
  BY <1>1 DEF FailuresAfter
<1>18. /\ DOMAIN ring' = DOMAIN ring
       /\ \A i \in DOMAIN ring : \/ ring'[i] = ring[i] /\ ~Names(i, id)
                                 \/ ring'[i].pid = 0 /\ Names(i, id)
  BY <1>1 DEF TakeExit, Recorded, Names, NoRec
<1>19. RecordsTrue'
  <2> SUFFICES ASSUME NEW i \in DOMAIN ring
               PROVE  /\ ring'[i].pid # 0 => \E m \in DOMAIN ended : Names(i, ended[m].id)' /\ ended[m].code = ring'[i].code
                      /\ \A m \in DOMAIN ended : Names(i, ended[m].id)' => FailuresAfter(m) >= Age(i)
    BY <1>1, <1>17, <1>18 DEF RecordsTrue, Age
  <2>1. CASE ring'[i] = ring[i]
    BY <1>1, <2>1 DEF RecordInv, RecordsTrue, Names
  <2>2. CASE ring'[i].pid = 0
    BY <1>1, <1>12, <2>2 DEF Names
  <2>. QED
    BY <1>18, <2>1, <2>2
<1>20. RecordsKept'
  <2> SUFFICES ASSUME NEW q \in Pid, proc'[q].live, NEW j \in 1 .. Len(KidsOf(q)'), NEW m \in DOMAIN ended',
                      ended'[m].id = KidsOf(q)'[j], ended'[m].code # 0
               PROVE  Recorded(ended[m].id)' # {} \/ FailuresAfter(m)' >= Records
    BY DEF RecordsKept
  <2>1. ended'[m] = ended[m] /\ m \in DOMAIN ended /\ proc[q].live
    BY <1>1, <1>11
  <2>2. \E k \in 1 .. Len(KidsOf(q)) : KidsOf(q)[k] = ended[m].id /\ ended[m].id # id
    <3>1. CASE q # p
      <4>1. KidsOf(q)' = KidsOf(q)
        BY <1>11, <3>1 DEF KidsOf
      <4>2. PICK a \in born : a.id = KidsOf(q)[j] /\ a.parent = Id(q)
        BY <2>1, <4>1, KnownKid
      <4>3. ended[m].id # id
        BY <1>5, <2>1, <3>1, <4>1, <4>2 DEF RecordInv, OneParent, Id
      <4>. QED
        BY <2>1, <4>1, <4>3
    <3>2. CASE q = p
      <4>1. KidsOf(q)' = ks /\ j \in 1 .. Len(old) - 1
        BY <1>7, <1>11, <3>2
      <4>2. CASE j < w.i
        <5>1. j \in 1 .. Len(old) /\ ks[j] = old[j] /\ j # w.i
          BY <1>2, <1>7, <4>1, <4>2
        <5>. QED
          BY <1>2, <1>3, <1>6, <2>1, <3>2, <4>1, <5>1 DEF id
      <4>3. CASE ~(j < w.i)
        <5>1. j + 1 \in 1 .. Len(old) /\ ks[j] = old[j + 1] /\ j + 1 # w.i
          BY <1>2, <1>7, <4>1, <4>3
        <5>. QED
          BY <1>2, <1>3, <1>6, <2>1, <3>2, <4>1, <5>1 DEF id
      <4>. QED
        BY <4>2, <4>3
    <3>. QED
      BY <3>1, <3>2
  <2>3. Recorded(ended[m].id) # {} \/ FailuresAfter(m) >= Records
    BY <2>1, <2>2 DEF RecordInv, RecordsKept
  <2>4. ASSUME NEW i \in Recorded(ended[m].id)
        PROVE  i \in Recorded(ended[m].id)'
    <3>1. i \in DOMAIN ring /\ Names(i, ended[m].id)
      BY DEF Recorded, Names
    <3>2. ~Names(i, id)
      BY <1>4, <1>12, <2>1, <2>2, <3>1, SameIdent DEF Names
    <3>3. ring'[i] = ring[i]
      BY <1>18, <3>1, <3>2
    <3>. QED
      BY <1>1, <1>18, <3>1, <3>3 DEF Recorded, Names
  <2>. QED
    BY <1>17, <2>3, <2>4
<1>21. NoAnswerYet'
  BY <1>11, Nowhere DEF RecordInv, NoAnswerYet
<1>. QED
  BY <1>11, <1>14, <1>15, <1>16, <1>19, <1>20, <1>21 DEF RecordInv

\* What a call does to the process that makes it.
LEMMA CalmStep ==
  ASSUME ProcInv, RecordInv, NEW p \in Pid, NEW y, Becomes(p, y), UNCHANGED <<kernel, ended, born>>,
         y.gen = proc[p].gen, y.live = proc[p].live, y.parent = proc[p].parent,
         \A j \in 1 .. Len(y.lib.kids) : \E k \in 1 .. Len(KidsOf(p)) : y.lib.kids[j] = KidsOf(p)[k],
         y.pc.fn = "join" => y.ret = Nothing,
         proc[p].pc.fn = "join" => y.ret = Nothing \/ y.ret.intr
  PROVE  Calm
<1>1. \A i \in Pid : proc'[i] = IF i = p THEN y ELSE proc[i]
  BY DEF Becomes, ProcInv, TableInv
<1>2. \A i \in Pid : proc[i].pc.fn = "join" => proc[i].ret = Nothing
  BY DEF RecordInv, NoAnswerYet
<1>3. \A i \in Pid : i # p => KidsOf(i)' = KidsOf(i)
  BY <1>1 DEF KidsOf
<1>4. KidsOf(p)' = y.lib.kids
  BY <1>1 DEF KidsOf
<1>5. ASSUME NEW i \in Pid
      PROVE  /\ proc'[i].gen = proc[i].gen /\ proc'[i].live = proc[i].live /\ proc'[i].parent = proc[i].parent
             /\ \A j \in 1 .. Len(KidsOf(i)') : \E k \in 1 .. Len(KidsOf(i)) : KidsOf(i)'[j] = KidsOf(i)[k]
             /\ proc'[i].pc.fn = "join" => proc'[i].ret = Nothing
             /\ proc[i].pc.fn = "join" => proc'[i].ret = Nothing \/ proc'[i].ret.intr
  <2>1. CASE i = p
    <3>1. proc'[i] = y
      BY <1>1, <2>1
    <3>2. KidsOf(i)' = y.lib.kids /\ KidsOf(i) = KidsOf(p)
      BY <1>4, <2>1
    <3>3. \A j \in 1 .. Len(KidsOf(i)') : \E k \in 1 .. Len(KidsOf(i)) : KidsOf(i)'[j] = KidsOf(i)[k]
      BY <3>2, Zenon
    <3>4. /\ proc'[i].gen = proc[i].gen /\ proc'[i].live = proc[i].live /\ proc'[i].parent = proc[i].parent
          /\ proc'[i].pc.fn = "join" => proc'[i].ret = Nothing
          /\ proc[i].pc.fn = "join" => proc'[i].ret = Nothing \/ proc'[i].ret.intr
      BY <2>1, <3>1
    <3>. QED
      BY <3>3, <3>4
  <2>2. CASE i # p
    BY <1>1, <1>2, <1>3, <2>2
  <2>. QED
    BY <2>1, <2>2
<1>. QED
  BY <1>5 DEF Calm, kernel

\* It only changes what has to do with signals, or with handlers of exit.
Alike(x, y) ==
  /\ y.gen = x.gen /\ y.live = x.live /\ y.parent = x.parent /\ y.lib.kids = x.lib.kids
  /\ y.pc = x.pc /\ y.ret \in {x.ret, Nothing}

LEMMA AlikeStep ==
  ASSUME ProcInv, RecordInv, NEW p \in Pid, NEW y, Becomes(p, y), UNCHANGED <<kernel, ended, born>>,
         Alike(proc[p], y)
  PROVE  Calm
<1>1. proc[p].pc.fn = "join" => proc[p].ret = Nothing
  BY DEF RecordInv, NoAnswerYet
<1>2. \A j \in 1 .. Len(y.lib.kids) : \E k \in 1 .. Len(KidsOf(p)) : y.lib.kids[j] = KidsOf(p)[k]
  BY DEF Alike, KidsOf
<1>. QED
  BY <1>1, <1>2, CalmStep DEF Alike

LEMMA SignalsAlike ==
  ASSUME NEW x \in ProcRec, NEW sig, NEW h, NEW reset
  PROVE  /\ Alike(x, Installed(x, sig, h, reset)) /\ Alike(x, HandlerOver(x, sig))
         /\ Alike(x, [Installed(x, sig, h, reset) EXCEPT !.ret = Nothing])
         /\ Alike(x, HandlerOver(Installed(x, sig, h, reset), sig))
<1>1. x.lib \in LibRec
  BY DEF ProcRec
<1> DEFINE y == Installed(x, sig, h, reset)
<1>2. Alike(x, y)
  BY <1>1 DEF Alike, Installed, ProcRec, LibRec
<1>3. Alike(x, HandlerOver(x, sig))
  BY <1>1 DEF Alike, HandlerOver, ProcRec, LibRec
<1>4. Alike(x, [y EXCEPT !.ret = Nothing])
  BY <1>1 DEF Alike, Installed, ProcRec, LibRec
<1>5. Alike(x, HandlerOver(y, sig))
  BY <1>1 DEF Alike, Installed, HandlerOver, ProcRec, LibRec
<1>. QED
  BY <1>2, <1>3, <1>4, <1>5

LEMMA NotesAlike ==
  ASSUME NEW x \in ProcRec, NEW sig, NEW notes
  PROVE  LET y == [x EXCEPT !.notes = notes, !.insig = sig] IN
         /\ Alike(x, [x EXCEPT !.notes = notes]) /\ Alike(x, y)
         /\ Alike(x, HandlerOver(y, sig))
         /\ Alike(x, [y EXCEPT !.lib.sa[sig].runs = @ + 1])
<1>1. x.lib \in LibRec
  BY DEF ProcRec
<1>. QED
  BY <1>1 DEF Alike, HandlerOver, ProcRec, LibRec

LEMMA HooksAlike ==
  ASSUME NEW x \in ProcRec, NEW k, NEW a, NEW b
  PROVE  LET off == [x.lib EXCEPT !.hooks = a, !.ran = b] IN
         /\ Alike(x, [x EXCEPT !.lib = Registered(x.lib, k), !.ret = Nothing])
         /\ Alike(x, [x EXCEPT !.lib = off]) /\ Alike(x, [x EXCEPT !.lib = Registered(off, k)])
<1>1. x.lib \in LibRec
  BY DEF ProcRec
<1> DEFINE off == [x.lib EXCEPT !.hooks = a, !.ran = b]
<1>2. off.kids = x.lib.kids /\ Registered(x.lib, k).kids = x.lib.kids /\ Registered(off, k).kids = x.lib.kids
  BY <1>1 DEF Registered, LibRec
<1> HIDE DEF off
<1>3. \A l, w : /\ l.kids = x.lib.kids => Alike(x, [x EXCEPT !.lib = l, !.ret = Nothing])
                /\ l.kids = x.lib.kids => Alike(x, [x EXCEPT !.lib = l])
  BY DEF Alike, ProcRec
<1>. QED
  BY <1>2, <1>3 DEF off


\* Whoever waited and got a status without a note got it from Join.
Answered ==
  \A p \in Pid :
    LET r == proc'[p].ret IN
    proc[p].pc.fn = "join" /\ "status" \in DOMAIN r /\ ~r.intr => JoinAnswered(p)

LEMMA CalmAnswers ==
  ASSUME ProcInv, RecordInv, Calm
  PROVE  RecordInv' /\ Answered
<1>1. DOMAIN Nothing = {"fn"}
  BY DEF Nothing
<1>. QED
  BY <1>1, CalmKeeps DEF Calm, Answered

LEMMA SameAnswers ==
  ASSUME RecordInv, \A i \in Pid : proc'[i].ret = Nothing \/ proc'[i].ret = proc[i].ret
  PROVE  Answered
<1>1. DOMAIN Nothing = {"fn"}
  BY DEF Nothing
<1>. QED
  BY <1>1 DEF RecordInv, NoAnswerYet, Answered

LEMMA WaitCalm ==
  ASSUME ProcInv, RecordInv, NEW p \in Pid, NEW pid, NEW fn, NEW own, proc[p].pc.fn # "join",
         Becomes(p, WaitFor(p, pid, fn, own)), UNCHANGED <<kernel, ended, born>>
  PROVE  Calm
<1> DEFINE x == proc[p]
           i == Entry(x.lib.kids, pid)
           y == WaitFor(p, pid, fn, own)
<1>1. x \in ProcRec
  BY InPlace DEF ProcInv
<1> HIDE DEF i
<1>2. \/ y = [x EXCEPT !.pc = Nothing, !.ret = [fn |-> fn, err |-> "ECHILD"]]
      \/ y = [x EXCEPT !.pc = [fn |-> "join", for |-> fn, i |-> i, own |-> own], !.ret = Nothing]
  BY DEF WaitFor, i
<1> HIDE DEF y
<1>3. /\ y.gen = x.gen /\ y.live = x.live /\ y.parent = x.parent /\ y.lib = x.lib
      /\ y.pc.fn = "join" => y.ret = Nothing
  BY <1>1, <1>2, Nowhere DEF ProcRec
<1>4. \A j \in 1 .. Len(y.lib.kids) : \E k \in 1 .. Len(KidsOf(p)) : y.lib.kids[j] = KidsOf(p)[k]
  BY <1>3 DEF KidsOf
<1>5. Becomes(p, y)
  BY DEF y
<1>. QED
  BY <1>3, <1>4, <1>5, CalmStep

\* waitpid and system up to their wait, exit up to its handlers.
LEMMA GoesOnCalm ==
  ASSUME ProcInv, RecordInv, NEW p \in Pid,
         \/ \E q \in Pid \cup {-1} : Waitpid(p, q)
         \/ SystemWaits(p)
         \/ \E code \in Code : Exit(p, code)
  PROVE  Calm
<1>0. TableInv
  BY DEF ProcInv
<1>1. ASSUME NEW q \in Pid \cup {-1}, Waitpid(p, q)
      PROVE  Calm
  <2>1. proc[p].pc.fn # "join"
    BY <1>0, <1>1, Called DEF Waitpid
  <2>. QED
    BY <1>1, <2>1, WaitCalm DEF Waitpid, history
<1>2. CASE SystemWaits(p)
  <2>1. proc[p].pc.fn # "join"
    BY <1>2 DEF SystemWaits, Inside
  <2>. QED
    BY <1>2, <2>1, WaitCalm DEF SystemWaits, history
<1>3. ASSUME NEW code \in Code, Exit(p, code)
      PROVE  Calm
  <2> DEFINE x == proc[p]
             y == [x EXCEPT !.pc = [fn |-> "exit", code |-> code], !.ret = Nothing]
  <2>1. x \in ProcRec /\ x.pc.fn # "join"
    BY <1>0, <1>3, Called DEF Exit
  <2>2. /\ y.gen = x.gen /\ y.live = x.live /\ y.parent = x.parent /\ y.lib = x.lib /\ y.ret = Nothing
    BY <2>1 DEF ProcRec
  <2>3. Becomes(p, y) /\ UNCHANGED <<kernel, ended, born>>
    BY <1>3 DEF Exit, history
  <2> HIDE DEF y
  <2>4. \A j \in 1 .. Len(y.lib.kids) : \E k \in 1 .. Len(KidsOf(p)) : y.lib.kids[j] = KidsOf(p)[k]
    BY <2>2 DEF KidsOf
  <2>. QED
    BY <2>1, <2>2, <2>3, <2>4, CalmStep
<1>. QED
  BY <1>1, <1>2, <1>3

\* atexit, a handler of exit, sigaction, and a signal's handler that returns.
LEMMA HandlersCalm ==
  ASSUME ProcInv, RecordInv, NEW p \in Pid,
         \/ \E k \in Hook : Atexit(p, k)
         \/ RunHook(p)
         \/ \E h \in {"dfl", "ign", "fn"}, reset \in BOOLEAN : Sigaction(p, "TERM", h, reset)
         \/ \E again \in BOOLEAN : HandlerReturns(p, again)
  PROVE  Calm
<1>0. proc[p] \in ProcRec
  BY InPlace DEF ProcInv
<1>1. ASSUME NEW k \in Hook, Atexit(p, k)
      PROVE  Calm
  <2>1. Becomes(p, [proc[p] EXCEPT !.lib = Registered(proc[p].lib, k), !.ret = Nothing])
        /\ UNCHANGED <<kernel, ended, born>>
    BY <1>1 DEF Atexit, history
  <2>2. Alike(proc[p], [proc[p] EXCEPT !.lib = Registered(proc[p].lib, k), !.ret = Nothing])
    BY <1>0, HooksAlike
  <2>. QED
    BY <2>1, <2>2, AlikeStep
<1>2. CASE RunHook(p)
  <2> DEFINE l == proc[p].lib
             off == [l EXCEPT !.hooks = Front(@), !.ran = Append(@, [n |-> Last(l.hooks).n, of |-> l.made])]
             y == [proc[p] EXCEPT !.lib = IF Last(l.hooks).k = "adds" THEN Registered(off, "plain") ELSE off]
  <2>1. Becomes(p, y) /\ UNCHANGED <<kernel, ended, born>>
    BY <1>2 DEF RunHook, history
  <2>2. Alike(proc[p], [proc[p] EXCEPT !.lib = off]) /\ Alike(proc[p], [proc[p] EXCEPT !.lib = Registered(off, "plain")])
    BY <1>0, HooksAlike
  <2>3. Alike(proc[p], y)
    BY <2>2
  <2>. QED
    BY <2>1, <2>3, AlikeStep
<1>3. ASSUME NEW h, NEW reset, Sigaction(p, "TERM", h, reset)
      PROVE  Calm
  <2>1. Becomes(p, [Installed(proc[p], "TERM", h, reset) EXCEPT !.ret = Nothing]) /\ UNCHANGED <<kernel, ended, born>>
    BY <1>3 DEF Sigaction, history
  <2>. QED
    BY <1>0, <2>1, SignalsAlike, AlikeStep
<1>4. ASSUME NEW again \in BOOLEAN, HandlerReturns(p, again)
      PROVE  Calm
  <2> DEFINE sig == proc[p].insig
             x == IF again THEN Installed(proc[p], sig, "fn", FALSE) ELSE proc[p]
  <2>1. Becomes(p, HandlerOver(x, sig)) /\ UNCHANGED <<kernel, ended, born>>
    BY <1>4 DEF HandlerReturns, history
  <2>2. Alike(proc[p], HandlerOver(x, sig))
    <3>1. CASE again
      BY <1>0, <3>1, SignalsAlike
    <3>2. CASE ~again
      BY <1>0, <3>2, SignalsAlike
    <3>. QED
      BY <3>1, <3>2
  <2>. QED
    BY <2>1, <2>2, AlikeStep
<1>. QED
  BY <1>1, <1>2, <1>3, <1>4

\* A note that is posted.
LEMMA KillCalm ==
  ASSUME ProcInv, RecordInv, NEW p \in Pid, NEW q \in Pid, NEW sig, Kill(p, q, sig)
  PROVE  Calm
<1>0. proc[q] \in ProcRec
  BY InPlace DEF ProcInv
<1> DEFINE y == [proc[q] EXCEPT !.notes = Append(@, NoteOf(sig))]
<1>1. UNCHANGED <<kernel, ended, born>>
  BY DEF Kill, history
<1>2. CASE UNCHANGED proc
  BY <1>1, <1>2 DEF Calm, kernel, RecordInv, NoAnswerYet, KidsOf
<1>3. CASE proc' = [proc EXCEPT ![q].notes = Append(@, NoteOf(sig))]
  <2>1. Becomes(q, y)
    BY SMTT(30), <1>3 DEF Becomes
  <2>2. Alike(proc[q], y)
    BY <1>0, NotesAlike
  <2>. QED
    BY <1>1, <2>1, <2>2, AlikeStep
<1>. QED
  BY <1>2, <1>3 DEF Kill

\* A note that is delivered: it may end the process.
LEMMA DeliverRecords ==
  ASSUME ProcInv, RecordInv, NEW p \in Pid, Deliver(p)
  PROVE  RecordInv' /\ Answered
<1> DEFINE x == proc[p]
           note == Head(x.notes)
           sig == SigOf(note)
           y == [x EXCEPT !.notes = Tail(@), !.insig = sig]
           dies == ~x.handler \/ note = "kill" \/ x.lib.sa[sig].h = "dfl"
<1>1. /\ x.live
      /\ IF dies THEN Destroy(p, -1, "note")
         ELSE /\ Becomes(p, IF x.lib.sa[sig].h = "ign" THEN HandlerOver(y, sig)
                            ELSE [y EXCEPT !.lib.sa[sig].runs = @ + 1])
              /\ UNCHANGED <<kernel, history>>
  BY DEF Deliver
<1>2. x \in ProcRec
  BY InPlace DEF ProcInv
<1>3. CASE dies
  <2>1. Destroy(p, -1, "note") /\ x.live /\ -1 \in Int
    BY <1>1, <1>3
  <2>. QED
    BY <2>1, EndKeeps, SameAnswers
<1>4. CASE ~dies
  <2>1. Alike(x, HandlerOver(y, sig)) /\ Alike(x, [y EXCEPT !.lib.sa[sig].runs = @ + 1])
    BY <1>2, NotesAlike
  <2> HIDE DEF dies
  <2>2. UNCHANGED <<kernel, ended, born>>
    BY SMTT(30), <1>1, <1>4 DEF history
  <2>3. Becomes(p, HandlerOver(y, sig)) \/ Becomes(p, [y EXCEPT !.lib.sa[sig].runs = @ + 1])
    BY <1>1, <1>4
  <2> HIDE DEF y, sig
  <2>4. Calm
    BY <2>1, <2>2, <2>3, AlikeStep
  <2>. QED
    BY SMTT(30), <2>4, CalmAnswers
<1>. QED
  BY SMTT(30), <1>3, <1>4

\* exec, and a wait that a note cuts short: the table of children loses entries.
LEMMA DroppingCalm ==
  ASSUME ProcInv, RecordInv, NEW p \in Pid, Exec(p) \/ JoinInterrupted(p)
  PROVE  Calm
<1>0. TableInv /\ proc[p] \in ProcRec /\ ProcOK(proc[p])
  BY InPlace DEF ProcInv
<1>1. CASE Exec(p)
  <2> DEFINE x == proc[p]
             y == [x EXCEPT !.lib = FreshLib, !.handler = FALSE, !.ret = Nothing]
  <2>1. Becomes(p, y) /\ UNCHANGED <<kernel, ended, born>>
    BY <1>1 DEF Exec
  <2>2. /\ y.gen = x.gen /\ y.live = x.live /\ y.parent = x.parent /\ y.lib.kids = <<>> /\ y.ret = Nothing
    BY <1>0, FreshIsOK DEF ProcRec
  <2> HIDE DEF y
  <2>3. \A j \in 1 .. Len(y.lib.kids) : \E k \in 1 .. Len(KidsOf(p)) : y.lib.kids[j] = KidsOf(p)[k]
    BY <2>2
  <2>. QED
    BY <2>1, <2>2, <2>3, CalmStep
<1>2. CASE JoinInterrupted(p)
  <2> DEFINE x == proc[p]
             w == x.pc
             old == x.lib.kids
             ret == [fn |-> w.for, id |-> old[w.i], status |-> Status(-1), intr |-> TRUE, own |-> w.own]
             ks == RemoveAt(old, w.i)
             y == [x EXCEPT !.pc = Nothing, !.lib.kids = ks, !.ret = ret]
  <2>1. Becomes(p, y) /\ UNCHANGED <<kernel, ended, born>> /\ w.fn = "join"
    BY <1>2 DEF JoinInterrupted, Joined, Inside
  <2>2. old \in Seq(Ident) /\ w.i \in 1 .. Len(old) /\ old = KidsOf(p) /\ Len(old) \in Nat
    <3>1. x.lib \in LibRec
      BY <1>0 DEF ProcRec
    <3>2. old \in Seq(Ident)
      BY <3>1 DEF LibRec
    <3>3. w.i \in 1 .. Len(old)
      BY <1>0, <2>1 DEF ProcOK, BoundsOK
    <3>. QED
      BY <3>2, <3>3, LenProperties DEF KidsOf
  <2>3. /\ Len(ks) = Len(old) - 1
        /\ \A j \in 1 .. Len(old) - 1 : ks[j] = IF j < w.i THEN old[j] ELSE old[j + 1]
    BY <2>2, RemovedOf
  <2> HIDE DEF ks
  <2>4. ret.intr = TRUE
    OBVIOUS
  <2> HIDE DEF ret
  <2>5. y.gen = x.gen /\ y.live = x.live /\ y.parent = x.parent /\ y.lib.kids = ks /\ y.ret = ret /\ y.pc = Nothing
    BY <1>0 DEF ProcRec, LibRec
  <2> HIDE DEF y, old
  <2>6. ASSUME NEW j \in 1 .. Len(ks)
        PROVE  \E k \in 1 .. Len(old) : ks[j] = old[k]
    <3>1. j \in 1 .. Len(old) /\ j + 1 \in 1 .. Len(old) /\ (ks[j] = old[j] \/ ks[j] = old[j + 1])
      BY <2>2, <2>3
    <3>. QED
      BY <3>1
  <2>. QED
    BY SMTT(30), <2>1, <2>2, <2>4, <2>5, <2>6, Nowhere, CalmStep
<1>. QED
  BY <1>1, <1>2

LEMMA RecordsBegin == Init => RecordInv
<1> SUFFICES ASSUME Init PROVE RecordInv
  OBVIOUS
<1>1. /\ ended = <<>> /\ born = {} /\ DOMAIN ended = {}
      /\ \A i \in Pid : /\ proc[i].live = (i = 1) /\ proc[i].gen = (IF i = 1 THEN 1 ELSE 0) /\ proc[i].pc = Nothing
      /\ \A i \in DOMAIN ring : ring[i].pid = 0
  BY DEF Init, NoRec
<1>2. EndedOnce
  <2>1. ASSUME NEW i \in Pid, NEW g \in 1 .. proc[i].gen
        PROVE  g = proc[i].gen /\ proc[i].live
    <3>1. i = 1
      <4> SUFFICES ASSUME i # 1 PROVE FALSE
        OBVIOUS
      <4>1. proc[i].gen = 0
        BY <1>1
      <4>2. g \in 1 .. 0
        BY <4>1, <2>1
      <4>. QED
        BY <4>2
    <3>2. proc[i].gen = 1 /\ proc[i].live
      BY <1>1, <3>1
    <3>3. g \in 1 .. 1
      BY <3>2, <2>1
    <3>. QED
      BY <3>2, <3>3
  <2>. QED
    BY <1>1, <2>1 DEF EndedOnce
<1>3. OneParent
  BY <1>1 DEF OneParent
<1>4. RecordsTrue /\ RecordsKept
  BY <1>1 DEF RecordsTrue, RecordsKept
<1>5. NoAnswerYet
  BY <1>1, Nowhere DEF NoAnswerYet
<1>. QED
  BY <1>2, <1>3, <1>4, <1>5 DEF RecordInv

LEMMA EveryStepAnswers == ProcInv /\ RecordInv /\ [Next]_vars => RecordInv' /\ Answered
<1> SUFFICES ASSUME ProcInv, RecordInv, [Next]_vars
             PROVE  RecordInv' /\ Answered
  OBVIOUS
<1>0. TableInv
  BY DEF ProcInv
<1>1. CASE UNCHANGED vars
  <2>1. Calm
    BY <1>1 DEF vars, Calm, RecordInv, NoAnswerYet, KidsOf
  <2>. QED
    BY <2>1, CalmAnswers
<1>2. ASSUME NEW p \in Pid, Fork(p) \/ System(p)
      PROVE  RecordInv' /\ Answered
  <2>1. proc[p].live /\ proc[p].pc.fn = "none"
    BY <1>0, <1>2, Called DEF Fork, System
  <2>2. PICK pc \in Place : pc.fn # "join" /\ Forked(p, pc)
    <3>1. CASE Fork(p)
      BY <3>1, Nowhere DEF Fork
    <3>2. CASE System(p)
      <4> DEFINE id == [pid |-> LowestFree, gen |-> proc[LowestFree].gen + 1]
                 pc == [fn |-> "system", id |-> id]
      <4>1. Forked(p, pc)
        BY <3>2 DEF System
      <4>2. LowestFree \in Pid
        BY <4>1, FreeSlotOf DEF Forked
      <4>3. id \in Ident
        BY <1>0, <4>2 DEF TableInv, ProcRec, Ident
      <4> HIDE DEF id
      <4>4. pc \in Place /\ pc.fn = "system"
        BY <4>3 DEF Place, InSystem
      <4> HIDE DEF pc
      <4>. QED
        BY <4>1, <4>4
    <3>. QED
      BY <1>2, <3>1, <3>2
  <2>. QED
    BY <2>1, <2>2, BirthRecords, SameAnswers
<1>3. ASSUME NEW p \in Pid, Exec(p) \/ JoinInterrupted(p)
      PROVE  RecordInv' /\ Answered
  BY <1>3, DroppingCalm, CalmAnswers
<1>4. ASSUME NEW p \in Pid, Join(p)
      PROVE  RecordInv' /\ Answered
  <2>1. RecordInv' /\ JoinAnswered(p) /\ \A i \in Pid : i # p => proc'[i] = proc[i]
    BY <1>4, JoinRecords
  <2>2. DOMAIN Nothing = {"fn"}
    BY DEF Nothing
  <2>. QED
    BY <2>1, <2>2 DEF RecordInv, NoAnswerYet, Answered
<1>5. ASSUME NEW p \in Pid, (\E q \in Pid \cup {-1} : Waitpid(p, q)) \/ SystemWaits(p) \/ \E code \in Code : Exit(p, code)
      PROVE  RecordInv' /\ Answered
  BY <1>5, GoesOnCalm, CalmAnswers
<1>6. ASSUME NEW p \in Pid,
             \/ \E k \in Hook : Atexit(p, k)
             \/ RunHook(p)
             \/ \E h \in {"dfl", "ign", "fn"}, reset \in BOOLEAN : Sigaction(p, "TERM", h, reset)
             \/ \E again \in BOOLEAN : HandlerReturns(p, again)
      PROVE  RecordInv' /\ Answered
  BY <1>6, HandlersCalm, CalmAnswers
<1>7. ASSUME NEW p \in Pid, ExitEnds(p)
      PROVE  RecordInv' /\ Answered
  <2>1. proc[p].live /\ proc[p].pc.fn = "exit" /\ Destroy(p, proc[p].pc.code, "exit")
    BY <1>7 DEF ExitEnds, Inside
  <2>2. proc[p].pc.code \in Int
    BY <1>0, <2>1, InPlace, PlaceOf
  <2>. QED
    BY <2>1, <2>2, EndKeeps, SameAnswers
<1>8. ASSUME NEW p \in Pid, NEW q \in Pid, NEW sig, Kill(p, q, sig)
      PROVE  RecordInv' /\ Answered
  BY <1>8, KillCalm, CalmAnswers
<1>9. ASSUME NEW p \in Pid, Deliver(p)
      PROVE  RecordInv' /\ Answered
  BY <1>9, DeliverRecords
<1>. QED
  BY <1>1, <1>2, <1>3, <1>4, <1>5, <1>6, <1>7, <1>8, <1>9 DEF Next

-----------------------------------------------------------------------------
(* What holds of every behaviour.                                            *)

\* The inductive invariant of the process layer: every process's tables within
\* their bounds and in order, every child's generation its slot's or an
\* earlier one, every table of children right entry by entry.
THEOREM ProcessesHold == Spec => []ProcInv
<1>1. Init => ProcInv
  BY ChildrenBegin
<1>2. ProcInv /\ [Next]_vars => ProcInv'
  BY EveryStepKeeps
<1>. QED
  BY <1>1, <1>2, PTL DEF Spec

\* The library's flag and the kernel's note handler agree in every process, in
\* children and after exec too; a one-shot handler runs once, whatever notes
\* are queued meanwhile; all tables stay within their bounds (rc_signal.c,
\* rc_proc.c).
THEOREM TablesKeepAgreeing == Spec => []TablesAgree
<1>1. ASSUME ProcInv PROVE TablesAgree
  <2>1. TableInv
    BY <1>1 DEF ProcInv
  <2>2. ASSUME NEW i \in Pid
        PROVE  /\ {proc[i].live, proc[i].handler, proc[i].lib.notify} \subseteq BOOLEAN /\ proc[i].gen \in 0 .. MaxGen
               /\ Len(proc[i].notes) <= NNote /\ Len(proc[i].lib.kids) <= ChildMax
               /\ Len(proc[i].lib.hooks) <= AtexitMax /\ proc[i].insig \in Sig \cup {"none"}
               /\ "status" \in DOMAIN proc[i].ret => proc[i].ret.status \in 0 .. 255
    <3>1. proc[i] \in ProcRec /\ BoundsOK(proc[i]) /\ proc[i].lib \in LibRec
      BY <2>1, InPlace DEF ProcOK
    <3>2. /\ proc[i].live \in BOOLEAN /\ proc[i].handler \in BOOLEAN /\ proc[i].lib.notify \in BOOLEAN
          /\ proc[i].gen \in Nat /\ proc[i].insig \in Sig \cup {"none"} /\ proc[i].ret \in Result
      BY <3>1 DEF ProcRec, LibRec
    <3>3. proc[i].gen \in 0 .. MaxGen
      BY <3>1, <3>2, Constants DEF BoundsOK
    <3>4. ASSUME NEW r \in Result, "status" \in DOMAIN r
          PROVE  r.status \in 0 .. 255
      <4>1. CASE r = Nothing
        BY <3>4, <4>1 DEF Nothing
      <4>2. CASE r \in Failed
        BY <3>4, <4>2 DEF Failed
      <4>3. CASE r \in Waited
        BY <4>3 DEF Waited
      <4>. QED
        BY <4>1, <4>2, <4>3 DEF Result
    <3>. QED
      BY <3>1, <3>2, <3>3, <3>4 DEF BoundsOK
  <2>3. next \in DOMAIN ring /\ ops \in 0 .. MaxOps
    BY <2>1 DEF TableInv
  <2>4. TypeOK
    BY <2>2, <2>3 DEF TypeOK
  <2>5. NotifyAgrees
    BY <2>1 DEF TableInv, NotifyAgrees, ProcOK
  <2>6. OneShot
    BY <2>1 DEF TableInv, OneShot, ProcOK, OneShotOK
  <2>. QED
    BY <2>4, <2>5, <2>6 DEF TablesAgree
<1>. QED
  BY <1>1, ProcessesHold, PTL

\* A process that leaves by exit has run every handler it registered, each
\* once and before all that were registered earlier, handlers that register
\* handlers or call exit themselves included (exit, __cxa_atexit).
THEOREM HandlersAllRun == Spec => []HandlersRunOnce
<1>1. ProcInv => HandlersRunOnce
  BY DEF ProcInv, TableInv
<1>. QED
  BY <1>1, ProcessesHold, PTL

\* The table of children names children of this process only, each once, and
\* every child that lives, but for those that the library is known to lose:
\* generations tell a child from every other process of its slot (fork,
\* waitpid, exec).
THEOREM ChildrenStayKnown == Spec => []ChildrenKnown
<1>1. ASSUME ProcInv PROVE ChildrenKnown
  <2> SUFFICES ASSUME NEW p \in Pid, proc[p].live
               PROVE  LET kids == proc[p].lib.kids
                          mine == {b.id : b \in {c \in born : c.parent = Id(p)}}
                      IN /\ IsInjective(kids) /\ ToSet(kids) \subseteq mine
                         /\ \A id \in mine : Gone(id) \/ id \in ToSet(kids) \cup forgot
    BY DEF ChildrenKnown
  <2> DEFINE kids == KidsOf(p)
             mine == {b.id : b \in {c \in born : c.parent = Id(p)}}
  <2>1. kids \in Seq(Ident)
    BY <1>1, InPlace DEF ProcInv, LibRec, KidsOf
  <2>2. /\ \A i, j \in 1 .. Len(kids) : kids[i] = kids[j] => i = j
        /\ \A i \in 1 .. Len(kids) : \E b \in born : b.parent = Id(p) /\ b.id = kids[i]
        /\ \A b \in born : b.parent = Id(p) =>
             Gone(b.id) \/ b.id \in forgot \/ \E i \in 1 .. Len(kids) : kids[i] = b.id
    BY <1>1 DEF ProcInv, Known
  <2>3. kids = proc[p].lib.kids
    BY DEF KidsOf
  <2> HIDE DEF kids
  <2>4. DOMAIN kids = 1 .. Len(kids)
    BY <2>1
  <2>5. IsInjective(kids)
    BY <2>2, <2>4 DEF IsInjective
  <2>6. ToSet(kids) = {kids[i] : i \in 1 .. Len(kids)}
    BY <2>4 DEF ToSet
  <2>7. ToSet(kids) \subseteq mine
    BY <2>2, <2>6
  <2>8. \A id \in mine : Gone(id) \/ id \in ToSet(kids) \cup forgot
    BY <2>2, <2>6
  <2>. QED
    BY <2>3, <2>5, <2>7, <2>8
<1>. QED
  BY <1>1, ProcessesHold, PTL

\* What the kernel knows of those that ended: every incarnation of a slot lives
\* or ended once, a record is its process's code and is as old as its place in
\* the ring says, and a failure that a parent may still ask for is recorded or
\* has been overwritten by as many later ones (proc_record_exit, waitpid).
THEOREM RecordsHold == Spec => []RecordInv
<1>1. Init => RecordInv
  BY RecordsBegin
<1>2. ProcInv /\ RecordInv /\ [Next]_vars => RecordInv'
  BY EveryStepAnswers
<1>. QED
  BY <1>1, <1>2, ProcessesHold, PTL DEF Spec

\* StatusIsTheChilds: waitpid and system return the code of the very child that
\* was waited for, whatever took its slot before or since, or 0 once as many
\* failed after it as the kernel has records (proc_take_exit, waitpid, system).
THEOREM StatusIsRight == Spec => StatusIsTheChilds
<1>1. ProcInv /\ RecordInv /\ [Next]_vars => Answered
  BY EveryStepAnswers
<1>2. ASSUME Answered
      PROVE  [\A p \in Pid :
                LET r == proc'[p].ret IN
                proc[p].pc.fn = "join" /\ "status" \in DOMAIN r /\ ~r.intr =>
                  \E n \in DOMAIN ended :
                    /\ ended[n].id = r.id
                    /\ r.status = ended[n].code % 256 \/ (r.status = 0 /\ FailuresAfter(n) >= Records)]_vars
  BY <1>2 DEF Answered, JoinAnswered
<1>. QED
  BY <1>1, <1>2, ProcessesHold, RecordsHold, PTL DEF Spec, StatusIsTheChilds
=============================================================================
