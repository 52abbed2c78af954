--------------------------- MODULE LibraryProofs ----------------------------
(****************************************************************************)
(* rc_pthread.c for any number of threads, mutexes and keys, and rc_env.c   *)
(* with the argument block of exec for any names, values and limits.  A     *)
(* behaviour of Library that uses the threads is one of ThreadSpec, and one *)
(* that uses the environment is one of EnvSpec.  Last the sockets of        *)
(* rc_socket.c, for any processes, tables, buffers and programs.            *)
(****************************************************************************)
EXTENDS Env, Threads, Socket, SequenceTheorems, FiniteSetTheorems, WellFoundedInduction, TLAPS

ThreadSpec == ThreadInit /\ [][ThreadNext]_threadVars

\* Threads other than the main one.
Made == 2 .. MaxThread + 1
Thread == Made \cup {Main}
\* What pthread_self finds in cur_thread while t runs.
Owner(t) == IF t = Main THEN Nobody ELSE t

Frame == [cur : Made \cup {Nobody}, exit : Made \cup {Nobody}]
LibRec ==
  [cur : Made \cup {Nobody}, exit : Made \cup {Nobody}, saved : Seq(Frame),
   rec : [Made -> {"none", "open", "freed"}], ret : [Made -> 0 .. 2], joined : [Made -> 0 .. 2]]
FateRec == [ends : [Made -> 0 .. 2], set : [Key -> 0 .. 1]]
KeyRec == [used : BOOLEAN, v : 0 .. 1]
LibType ==
  /\ lib \in LibRec
  /\ fate \in FateRec
  /\ running \in Seq(Thread) /\ Len(running) > 0

\* The frames of the calls of pthread_create that are open hold what their
\* callers were, from the main thread up.
Nested ==
  /\ running[1] = Main /\ \A i \in 2 .. Len(running) : running[i] \in Made
  /\ Len(lib.saved) = Len(running) - 1
  /\ lib.cur = Owner(Self) /\ lib.exit = lib.cur
  /\ \A i \in 1 .. Len(lib.saved) : lib.saved[i] = [cur |-> Owner(running[i]), exit |-> Owner(running[i])]

\* A record holds what its thread ended with, and it is freed only after that:
\* what was joined stays what the thread ended with.
Results ==
  /\ lib.ret = fate.ends
  /\ \A i \in 2 .. Len(running) : lib.rec[running[i]] = "open"
  /\ \A t \in Made : lib.joined[t] = 0 \/ (lib.rec[t] = "freed" /\ lib.joined[t] = fate.ends[t])

\* The mutexes' counts are the locks held, where only holders unlock.
HoldsRec == [by : [Mutex -> Seq(Thread)], strays : SUBSET Mutex]
Counts ==
  /\ count \in [Mutex -> Nat] /\ holds \in HoldsRec
  /\ \A m \in Mutex : /\ m \notin holds.strays => count[m] = Len(holds.by[m])
                      /\ Kind[m] # "recursive" => count[m] <= 1

KeyType == key \in [Key -> KeyRec]

ThreadInv == LibType /\ Nested /\ Results /\ Counts /\ KeyType /\ KeyIsFresh /\ state # "astray"
-----------------------------------------------------------------------------
(* The least of a set of numbers; sequences that lose an element.            *)

LEMMA LeastOf ==
  ASSUME NEW S, S \subseteq Nat, S # {}
  PROVE  \E m \in S : \A k \in S : m <= k
<1>1. PICK m \in S : \A k \in S : <<k, m>> \notin OpToRel(<, Nat)
  BY NatLessThanWellFounded, WFMin, Zenon
<1>2. \A k \in S : ~(k \in Nat /\ m \in Nat /\ k < m)
  BY <1>1, Zenon DEF OpToRel
<1>. QED
  BY <1>2

LEMMA FrontOf ==
  ASSUME NEW S, NEW s \in Seq(S), Len(s) > 0
  PROVE  /\ Front(s) \in Seq(S) /\ Len(Front(s)) = Len(s) - 1
         /\ \A i \in 1 .. Len(s) - 1 : Front(s)[i] = s[i]
         /\ Last(s) = s[Len(s)] /\ Last(s) \in S
<1>1. Len(s) \in Nat /\ 1 \in 1 .. Len(s) + 1 /\ Len(s) - 1 \in 1 - 1 .. Len(s)
  BY LenProperties
<1>2. /\ Front(s) \in Seq(S)
      /\ Len(Front(s)) = IF 1 <= Len(s) - 1 THEN Len(s) - 1 - 1 + 1 ELSE 0
      /\ \A i \in 1 .. Len(s) - 1 - 1 + 1 : Front(s)[i] = s[1 + i - 1]
  BY <1>1, SubSeqProperties DEF Front
<1>3. Last(s) = s[Len(s)] /\ Last(s) \in S
  BY <1>1, ElementOfSeq DEF Last
<1>4. Len(Front(s)) = Len(s) - 1
  <2> DEFINE n == Len(s)
             k == Len(Front(s))
  <2>1. n \in Nat /\ n > 0 /\ k = IF 1 <= n - 1 THEN n - 1 - 1 + 1 ELSE 0
    BY <1>1, <1>2
  <2> HIDE DEF n, k
  <2>2. k = n - 1
    BY <2>1
  <2>. QED
    BY <2>2 DEF n, k
<1>5. ASSUME NEW i \in 1 .. Len(s) - 1
      PROVE  Front(s)[i] = s[i]
  <2>1. i \in 1 .. Len(s) - 1 - 1 + 1 /\ 1 + i - 1 = i
    BY <1>1
  <2>2. Front(s)[i] = s[1 + i - 1]
    BY <1>2, <2>1
  <2>. QED
    BY <2>1, <2>2
<1>. QED
  BY <1>2, <1>3, <1>4, <1>5

LEMMA RemovedOf ==
  ASSUME NEW S, NEW s \in Seq(S), NEW i \in 1 .. Len(s)
  PROVE  /\ RemoveAt(s, i) \in Seq(S) /\ Len(RemoveAt(s, i)) = Len(s) - 1
         /\ \A j \in 1 .. Len(s) - 1 : RemoveAt(s, i)[j] = IF j < i THEN s[j] ELSE s[j + 1]
<1> DEFINE u == SubSeq(s, 1, i - 1)
           v == SubSeq(s, i + 1, Len(s))
<1>0. Len(s) \in Nat /\ i \in Int /\ 1 <= i /\ i <= Len(s) /\ \A j \in 1 .. Len(s) : s[j] \in S
  BY LenProperties, ElementOfSeq
<1>1. u \in Seq(S) /\ Len(u) = i - 1 /\ \A j \in 1 .. i - 1 : u[j] = s[j]
  <2>1. 1 \in Int /\ i - 1 \in Int /\ \A j \in 1 .. i - 1 : s[j] \in S
    BY <1>0
  <2>2. /\ u \in Seq(S) /\ Len(u) = IF 1 <= i - 1 THEN i - 1 - 1 + 1 ELSE 0
        /\ \A j \in 1 .. i - 1 - 1 + 1 : u[j] = s[1 + j - 1]
    BY <2>1, SubSeqProperties
  <2> HIDE DEF u
  <2>3. Len(u) = i - 1
    BY <1>0, <2>2
  <2>4. ASSUME NEW j \in 1 .. i - 1
        PROVE  u[j] = s[j]
    <3>1. j \in 1 .. i - 1 - 1 + 1 /\ 1 + j - 1 = j
      BY <1>0
    <3>2. u[j] = s[1 + j - 1]
      BY <2>2, <3>1
    <3>. QED
      BY <3>1, <3>2
  <2>. QED
    BY <2>2, <2>3, <2>4
<1>2. v \in Seq(S) /\ Len(v) = Len(s) - i /\ \A j \in 1 .. Len(s) - i : v[j] = s[i + j]
  <2>1. i + 1 \in Int /\ Len(s) \in Int /\ \A j \in i + 1 .. Len(s) : s[j] \in S
    BY <1>0
  <2>2. /\ v \in Seq(S) /\ Len(v) = IF i + 1 <= Len(s) THEN Len(s) - (i + 1) + 1 ELSE 0
        /\ \A j \in 1 .. Len(s) - (i + 1) + 1 : v[j] = s[(i + 1) + j - 1]
    BY <2>1, SubSeqProperties
  <2> HIDE DEF v
  <2>3. Len(v) = Len(s) - i
    BY <1>0, <2>2
  <2>4. ASSUME NEW j \in 1 .. Len(s) - i
        PROVE  v[j] = s[i + j]
    <3>1. j \in 1 .. Len(s) - (i + 1) + 1 /\ (i + 1) + j - 1 = i + j
      BY <1>0
    <3>2. v[j] = s[(i + 1) + j - 1]
      BY <2>2, <3>1
    <3>. QED
      BY <3>1, <3>2
  <2>. QED
    BY <2>2, <2>3, <2>4
<1> HIDE DEF u, v
<1>3. /\ u \o v \in Seq(S) /\ Len(u \o v) = Len(u) + Len(v)
      /\ \A j \in 1 .. Len(u) + Len(v) : (u \o v)[j] = IF j <= Len(u) THEN u[j] ELSE v[j - Len(u)]
  BY <1>1, <1>2, ConcatProperties
<1>5. RemoveAt(s, i) = u \o v
  BY DEF RemoveAt, u, v
<1>6. Len(u) + Len(v) = Len(s) - 1
  BY <1>0, <1>1, <1>2
<1>7. ASSUME NEW j \in 1 .. Len(s) - 1
      PROVE  (u \o v)[j] = IF j < i THEN s[j] ELSE s[j + 1]
  <2>1. CASE j < i
    BY <1>0, <1>1, <1>3, <1>6, <2>1
  <2>2. CASE ~(j < i)
    <3>1. j - (i - 1) \in 1 .. Len(s) - i /\ i + (j - (i - 1)) = j + 1 /\ ~(j <= i - 1)
      BY <1>0, <2>2
    <3>2. (u \o v)[j] = v[j - (i - 1)]
      BY <1>1, <1>3, <1>6, <3>1
    <3>3. v[j - (i - 1)] = s[i + (j - (i - 1))]
      BY <1>2, <3>1
    <3>. QED
      BY <2>2, <3>1, <3>2, <3>3
  <2>. QED
    BY <2>1, <2>2
<1>. QED
  BY <1>3, <1>5, <1>6, <1>7
-----------------------------------------------------------------------------
LEMMA Small == MaxThread \in Nat /\ NKey \in Nat /\ Made \subseteq Nat /\ Main \notin Made /\ Nobody \notin Made
BY ThreadConstantsOK DEF Made, Main, Nobody

LEMMA LibMade ==
  ASSUME NEW c \in Made \cup {Nobody}, NEW e \in Made \cup {Nobody}, NEW f \in Seq(Frame),
         NEW a \in [Made -> {"none", "open", "freed"}], NEW g \in [Made -> 0 .. 2], NEW j \in [Made -> 0 .. 2]
  PROVE  [cur |-> c, exit |-> e, saved |-> f, rec |-> a, ret |-> g, joined |-> j] \in LibRec
BY DEF LibRec

LEMMA KeyMade ==
  ASSUME NEW u \in BOOLEAN, NEW v \in 0 .. 1
  PROVE  [used |-> u, v |-> v] \in KeyRec
BY DEF KeyRec

LEMMA KeyChanged ==
  ASSUME NEW x \in KeyRec, NEW u, NEW v
  PROVE  /\ [x EXCEPT !.used = u] = [used |-> u, v |-> x.v]
         /\ [x EXCEPT !.v = v] = [used |-> x.used, v |-> v]
BY DEF KeyRec

LEMMA BeginsThreads == ThreadInit => ThreadInv
<1> SUFFICES ASSUME ThreadInit PROVE ThreadInv
  OBVIOUS
<1>1. LibType
  BY Small DEF ThreadInit, LibType, Made, Frame, LibRec, FateRec, Thread, Main, Nobody
<1>2. Nested
  BY DEF ThreadInit, Nested, Owner, Self, Last, Main
<1>3. Results
  BY DEF ThreadInit, Results, Made
<1>4. Counts /\ KeyType /\ KeyIsFresh /\ state # "astray"
  BY DEF ThreadInit, Counts, HoldsRec, KeyType, KeyIsFresh, KeyRec
<1>. QED
  BY <1>1, <1>2, <1>3, <1>4 DEF ThreadInv

\* A call that leaves the threads alone.
LEMMA NestKept ==
  ASSUME ThreadInv, UNCHANGED <<running, lib, fate>>
  PROVE  LibType' /\ Nested' /\ Results'
BY DEF ThreadInv, LibType, Nested, Results, Self

LEMMA CreateKeeps == ASSUME ThreadInv, Create PROVE ThreadInv'
<1>0. /\ lib.saved \in Seq(Frame) /\ lib.rec \in [Made -> {"none", "open", "freed"}]
      /\ lib.ret \in [Made -> 0 .. 2] /\ lib.joined \in [Made -> 0 .. 2]
  BY DEF ThreadInv, LibType, LibRec
<1>1. PICK t \in Fresh :
        /\ running' = Append(running, t)
        /\ lib' = [lib EXCEPT !.cur = t, !.exit = t, !.rec[t] = "open",
                              !.saved = Append(@, [cur |-> lib.cur, exit |-> lib.exit])]
  <2>1. Fresh # {} /\ Fresh \subseteq Nat
    BY Small DEF Create, Fresh
  <2>2. \E u \in Fresh : \A v \in Fresh : u <= v
    BY <2>1, LeastOf
  <2>. QED
    BY <2>2 DEF Create
<1>2. t \in Made /\ lib.rec[t] = "none"
  BY DEF Fresh, Made
<1> DEFINE frame == [cur |-> lib.cur, exit |-> lib.exit]
<1>3. frame \in Frame /\ t \in Made \cup {Nobody}
  BY <1>2 DEF Frame, ThreadInv, LibType, LibRec
<1>4. /\ Len(running') = Len(running) + 1 /\ running' \in Seq(Thread)
      /\ \A i \in 1 .. Len(running) : running'[i] = running[i]
      /\ running'[Len(running) + 1] = t
  BY <1>1, <1>2 DEF ThreadInv, LibType, Thread
<1>5. /\ lib'.cur = t /\ lib'.exit = t /\ lib'.rec = [lib.rec EXCEPT ![t] = "open"]
      /\ lib'.saved = Append(lib.saved, frame) /\ lib'.ret = lib.ret /\ lib'.joined = lib.joined
  BY <1>1 DEF ThreadInv, LibType
<1>6. /\ Len(lib'.saved) = Len(lib.saved) + 1 /\ lib'.saved \in Seq(Frame)
      /\ \A i \in 1 .. Len(lib.saved) : lib'.saved[i] = lib.saved[i]
      /\ lib'.saved[Len(lib.saved) + 1] = frame
  BY <1>0, <1>3, <1>5
<1>7. LibType'
  <2>1. lib' \in LibRec
    BY <1>1, <1>3, <1>5, <1>6, <1>2 DEF ThreadInv, LibType, LibRec
  <2>. QED
    BY <1>4, <2>1 DEF ThreadInv, LibType, Create
<1>8. Nested'
  <2>1. running'[1] = Main /\ \A i \in 2 .. Len(running') : running'[i] \in Made
    BY <1>2, <1>4 DEF ThreadInv, Nested, LibType
  <2>2. lib'.cur = Owner(Self') /\ lib'.exit = lib'.cur
    BY <1>2, <1>4, <1>5, Small DEF Self, Last, Owner, ThreadInv, LibType
  <2>3. frame = [cur |-> Owner(running[Len(running)]), exit |-> Owner(running[Len(running)])]
    BY DEF ThreadInv, Nested, Self, Last
  <2> HIDE DEF frame
  <2>4. \A i \in 1 .. Len(lib'.saved) : lib'.saved[i] = [cur |-> Owner(running'[i]), exit |-> Owner(running'[i])]
    BY <1>4, <1>6, <2>3 DEF ThreadInv, Nested, LibType
  <2>. QED
    BY <1>4, <1>6, <2>1, <2>2, <2>4 DEF ThreadInv, Nested, LibType, Self
<1>9. Results'
  <2>1. \A i \in 2 .. Len(running') : lib'.rec[running'[i]] = "open"
    BY <1>2, <1>4, <1>5, <1>0, SMTT(30) DEF ThreadInv, Results, Nested, LibType
  <2>2. \A u \in Made : lib'.joined[u] = 0 \/ (lib'.rec[u] = "freed" /\ lib'.joined[u] = fate'.ends[u])
    <3>1. fate' = fate /\ \A u \in Made : lib.joined[u] = 0 \/ (lib.rec[u] = "freed" /\ lib.joined[u] = fate.ends[u])
      BY DEF ThreadInv, Results, Create
    <3>. QED
      BY <1>0, <1>2, <1>5, <3>1
  <2>. QED
    BY <1>5, <2>1, <2>2 DEF ThreadInv, Results, Create
<1>. QED
  BY <1>7, <1>8, <1>9 DEF Create, ThreadInv, Counts, KeyType, KeyIsFresh

\* The thread on top ends with r, by either way.
LEMMA EndKeeps ==
  ASSUME ThreadInv, Self # Main, NEW r \in 1 .. 2,
         running' = Front(running), lib' = Popped([lib EXCEPT !.ret[Self] = r]),
         fate' = [fate EXCEPT !.ends[Self] = r], UNCHANGED <<count, key, holds>>, state' # "astray"
  PROVE  ThreadInv'
<1> DEFINE n == Len(running)
           s == Self
<1>1. n \in Nat /\ n > 1 /\ s = running[n] /\ s \in Made /\ Len(lib.saved) = n - 1
  BY DEF ThreadInv, LibType, Nested, Self, Last
<1>2. /\ running' \in Seq(Thread) /\ Len(running') = n - 1
      /\ \A i \in 1 .. n - 1 : running'[i] = running[i]
  BY <1>1, FrontOf DEF ThreadInv, LibType
<1>3. /\ Front(lib.saved) \in Seq(Frame) /\ Len(Front(lib.saved)) = n - 2
      /\ \A i \in 1 .. n - 2 : Front(lib.saved)[i] = lib.saved[i]
      /\ Last(lib.saved) = lib.saved[n - 1] /\ Last(lib.saved) \in Frame
  <2>1. lib.saved \in Seq(Frame)
    BY DEF ThreadInv, LibType, LibRec
  <2>. QED
    <3>1. Len(lib.saved) > 0 /\ Len(lib.saved) = n - 1 /\ n - 1 - 1 = n - 2
      BY <1>1
    <3> HIDE DEF n
    <3>2. /\ Front(lib.saved) \in Seq(Frame) /\ Len(Front(lib.saved)) = Len(lib.saved) - 1
          /\ \A i \in 1 .. Len(lib.saved) - 1 : Front(lib.saved)[i] = lib.saved[i]
          /\ Last(lib.saved) = lib.saved[Len(lib.saved)] /\ Last(lib.saved) \in Frame
      BY <2>1, <3>1, FrontOf
    <3>. QED
      BY <3>1, <3>2
<1>4. Last(lib.saved) = [cur |-> Owner(running[n - 1]), exit |-> Owner(running[n - 1])]
  <2>1. n - 1 \in 1 .. Len(lib.saved)
    BY <1>1
  <2>. QED
    BY <1>3, <2>1 DEF ThreadInv, Nested
<1>5. /\ lib'.cur = Last(lib.saved).cur /\ lib'.exit = Last(lib.saved).exit /\ lib'.saved = Front(lib.saved)
      /\ lib'.rec = lib.rec /\ lib'.ret = [lib.ret EXCEPT ![s] = r] /\ lib'.joined = lib.joined
      /\ lib' \in LibRec
  <2>1. lib' = [cur |-> Last(lib.saved).cur, exit |-> Last(lib.saved).exit, saved |-> Front(lib.saved),
                rec |-> lib.rec, ret |-> [lib.ret EXCEPT ![s] = r], joined |-> lib.joined]
    BY DEF Popped, ThreadInv, LibType, LibRec
  <2>2. /\ Last(lib.saved).cur \in Made \cup {Nobody} /\ Last(lib.saved).exit \in Made \cup {Nobody}
        /\ Front(lib.saved) \in Seq(Frame)
    BY <1>3 DEF Frame
  <2>3. /\ lib.rec \in [Made -> {"none", "open", "freed"}] /\ lib.joined \in [Made -> 0 .. 2]
        /\ [lib.ret EXCEPT ![s] = r] \in [Made -> 0 .. 2]
    BY <1>1 DEF ThreadInv, LibType, LibRec
  <2>. QED
    <3> DEFINE c == Last(lib.saved).cur
               e == Last(lib.saved).exit
               f == Front(lib.saved)
               g == [lib.ret EXCEPT ![s] = r]
    <3> HIDE DEF c, e, f, g
    <3>1. lib' = [cur |-> c, exit |-> e, saved |-> f, rec |-> lib.rec, ret |-> g, joined |-> lib.joined]
      BY <2>1 DEF c, e, f, g
    <3>2. /\ c \in Made \cup {Nobody} /\ e \in Made \cup {Nobody} /\ f \in Seq(Frame)
          /\ g \in [Made -> 0 .. 2] /\ lib.rec \in [Made -> {"none", "open", "freed"}] /\ lib.joined \in [Made -> 0 .. 2]
      BY <2>2, <2>3 DEF c, e, f, g
    <3>3. lib' \in LibRec
      <4>1. [cur |-> c, exit |-> e, saved |-> f, rec |-> lib.rec, ret |-> g, joined |-> lib.joined] \in LibRec
        BY <3>2, LibMade, Zenon
      <4>. QED
        BY <3>1, <4>1, Zenon
    <3>4. /\ lib'.cur = c /\ lib'.exit = e /\ lib'.saved = f
          /\ lib'.rec = lib.rec /\ lib'.ret = g /\ lib'.joined = lib.joined
      BY <3>1
    <3>. QED
      BY <3>3, <3>4 DEF c, e, f, g
<1>6. fate'.ends = [fate.ends EXCEPT ![s] = r] /\ fate'.set = fate.set /\ fate' \in FateRec
  BY <1>1 DEF ThreadInv, LibType, FateRec
<1> HIDE DEF s
<1>7. LibType'
  BY <1>1, <1>2, <1>5, <1>6 DEF LibType
<1>8. Nested'
  <2>1. running'[1] = Main /\ \A i \in 2 .. Len(running') : running'[i] \in Made
    BY <1>1, <1>2 DEF ThreadInv, Nested
  <2>2. lib'.cur = Owner(Self') /\ lib'.exit = lib'.cur
    BY <1>1, <1>2, <1>4, <1>5 DEF Self, Last
  <2>3. \A i \in 1 .. Len(lib'.saved) : lib'.saved[i] = [cur |-> Owner(running'[i]), exit |-> Owner(running'[i])]
    BY <1>1, <1>2, <1>3, <1>5 DEF ThreadInv, Nested
  <2>. QED
    <3>1. Len(lib'.saved) = Len(running') - 1
      BY <1>1, <1>2, <1>3, <1>5
    <3>. QED
      BY <2>1, <2>2, <2>3, <3>1 DEF Nested, Self
<1>9. Results'
  <2>1. \A i \in 2 .. Len(running') : lib'.rec[running'[i]] = "open"
    BY <1>1, <1>2, <1>5 DEF ThreadInv, Results
  <2>2. lib.rec[s] = "open"
    BY <1>1 DEF ThreadInv, Results
  <2>3. \A u \in Made : lib'.joined[u] = 0 \/ (lib'.rec[u] = "freed" /\ lib'.joined[u] = fate'.ends[u])
    BY <1>1, <1>5, <1>6, <2>2 DEF ThreadInv, Results, LibType
  <2>. QED
    BY <1>5, <1>6, <2>1, <2>3 DEF ThreadInv, Results
<1>. QED
  BY <1>6, <1>7, <1>8, <1>9 DEF ThreadInv, Counts, KeyType, KeyIsFresh

\* Joining or detaching frees a record of a thread that does not run.
LEMMA FreeKeeps ==
  ASSUME ThreadInv, NEW t \in Made, Join(t) \/ Detach(t)
  PROVE  ThreadInv'
<1>0. /\ lib.saved \in Seq(Frame) /\ lib.rec \in [Made -> {"none", "open", "freed"}]
      /\ lib.ret \in [Made -> 0 .. 2] /\ lib.joined \in [Made -> 0 .. 2]
  BY DEF ThreadInv, LibType, LibRec
<1>1. t \in Ended /\ UNCHANGED <<running, count, key, state, holds, fate>>
  BY DEF Join, Detach
<1>2. \A i \in 2 .. Len(running) : running[i] # t
  BY <1>1 DEF Ended, Contains, ThreadInv, LibType
<1>3. /\ lib'.cur = lib.cur /\ lib'.exit = lib.exit /\ lib'.saved = lib.saved /\ lib'.ret = lib.ret
      /\ lib'.rec = [lib.rec EXCEPT ![t] = "freed"]
      /\ lib'.joined = lib.joined \/ lib'.joined = [lib.joined EXCEPT ![t] = lib.ret[t]]
      /\ lib' \in LibRec
  <2>1. PICK j \in {lib.joined, [lib.joined EXCEPT ![t] = lib.ret[t]]} :
          lib' = [cur |-> lib.cur, exit |-> lib.exit, saved |-> lib.saved,
                  rec |-> [lib.rec EXCEPT ![t] = "freed"], ret |-> lib.ret, joined |-> j]
    BY DEF Join, Detach, ThreadInv, LibType, LibRec
  <2>2. j \in [Made -> 0 .. 2] /\ [lib.rec EXCEPT ![t] = "freed"] \in [Made -> {"none", "open", "freed"}]
    BY <1>0
  <2>. QED
    BY <2>1, <2>2 DEF ThreadInv, LibType, LibRec
<1>4. LibType' /\ Nested'
  BY <1>1, <1>3 DEF ThreadInv, LibType, Nested, Self
<1>5. Results'
  <2>1. \A i \in 2 .. Len(running') : lib'.rec[running'[i]] = "open"
    BY <1>1, <1>2, <1>3 DEF ThreadInv, Results, Nested, LibType
  <2>2. \A u \in Made : lib'.joined[u] = 0 \/ (lib'.rec[u] = "freed" /\ lib'.joined[u] = fate'.ends[u])
    BY <1>0, <1>1, <1>3 DEF ThreadInv, Results
  <2>. QED
    BY <1>1, <1>3, <2>1, <2>2 DEF ThreadInv, Results
<1>. QED
  BY <1>1, <1>4, <1>5 DEF ThreadInv, Counts, KeyType, KeyIsFresh

LEMMA LockKeeps ==
  ASSUME ThreadInv, NEW m \in Mutex, Lock(m) \/ Trylock(m) \/ Unlock(m)
  PROVE  ThreadInv'
<1>1. UNCHANGED <<running, lib, key, fate>> /\ state' # "astray"
  BY DEF Lock, Trylock, Unlock, ThreadInv
<1>2. /\ Self \in Thread /\ count \in [Mutex -> Nat] /\ holds \in HoldsRec
      /\ holds.by[m] \in Seq(Thread) /\ (m \notin holds.strays => count[m] = Len(holds.by[m]))
      /\ \A n \in Mutex : /\ n \notin holds.strays => count[n] = Len(holds.by[n])
                          /\ Kind[n] # "recursive" => count[n] <= 1
  BY DEF Self, Last, ThreadInv, LibType, Counts, HoldsRec
<1>3. CASE UNCHANGED <<count, holds>>
  BY <1>1, <1>3, NestKept DEF ThreadInv, Counts, KeyType, KeyIsFresh
<1>4. CASE ~Busy(m) /\ Locked(m)
  <2> DEFINE longer == Append(holds.by[m], Self)
  <2>1. longer \in Seq(Thread) /\ Len(longer) = Len(holds.by[m]) + 1
    BY <1>2
  <2>2. count' = [count EXCEPT ![m] = count[m] + 1] /\ holds' = [holds EXCEPT !.by[m] = longer]
    BY <1>4 DEF Locked
  <2>3. Kind[m] # "recursive" => count[m] = 0
    BY <1>2, <1>4 DEF Busy
  <2> HIDE DEF longer
  <2>4. /\ holds'.by = [holds.by EXCEPT ![m] = longer] /\ holds'.strays = holds.strays
        /\ holds' \in HoldsRec
    BY <1>2, <2>1, <2>2 DEF HoldsRec
  <2>5. count' \in [Mutex -> Nat]
    BY <1>2, <2>2
  <2>6. \A n \in Mutex : /\ n \notin holds'.strays => count'[n] = Len(holds'.by[n])
                         /\ Kind[n] # "recursive" => count'[n] <= 1
    BY <1>2, <2>1, <2>2, <2>3, <2>4 DEF HoldsRec
  <2>7. Counts'
    BY <2>4, <2>5, <2>6 DEF Counts
  <2>. QED
    BY <1>1, <2>7, NestKept DEF ThreadInv, KeyType, KeyIsFresh
<1>5. CASE Unlock(m)
  <2>1. count[m] > 0 /\ count' = [count EXCEPT ![m] = count[m] - 1]
    BY <1>5 DEF Unlock
  <2>2. count' \in [Mutex -> Nat] /\ \A n \in Mutex : Kind[n] # "recursive" => count'[n] <= 1
    BY <1>2, <2>1
  <2>3. ASSUME Contains(holds.by[m], Self) PROVE Counts'
    <3> DEFINE i == CHOOSE j \in DOMAIN holds.by[m] : holds.by[m][j] = Self
    <3>1. i \in 1 .. Len(holds.by[m])
      BY <1>2, <2>3 DEF Contains
    <3>2. holds' = [holds EXCEPT !.by[m] = RemoveAt(holds.by[m], i)]
      BY <1>5, <2>3 DEF Unlock
    <3> HIDE DEF i
    <3> DEFINE rest == RemoveAt(holds.by[m], i)
    <3>3. rest \in Seq(Thread) /\ Len(rest) = Len(holds.by[m]) - 1
      BY <1>2, <3>1, RemovedOf
    <3>4. holds' = [holds EXCEPT !.by[m] = rest]
      BY <3>2
    <3> HIDE DEF rest
    <3>5. /\ holds'.by = [holds.by EXCEPT ![m] = rest] /\ holds'.strays = holds.strays
          /\ holds' \in HoldsRec
      BY <1>2, <3>3, <3>4 DEF HoldsRec
    <3>6. \A n \in Mutex : n \notin holds'.strays => count'[n] = Len(holds'.by[n])
      BY <1>2, <2>1, <3>3, <3>5 DEF HoldsRec
    <3>. QED
      BY <2>2, <3>5, <3>6 DEF Counts
  <2>4. ASSUME ~Contains(holds.by[m], Self) PROVE Counts'
    <3>1. holds' = [holds EXCEPT !.strays = holds.strays \cup {m}]
      BY <1>5, <2>4 DEF Unlock
    <3>2. holds'.by = holds.by /\ holds'.strays = holds.strays \cup {m} /\ holds' \in HoldsRec
      BY <1>2, <3>1 DEF HoldsRec
    <3>3. \A n \in Mutex : n \notin holds'.strays => count'[n] = Len(holds'.by[n])
      BY <1>2, <2>1, <3>2 DEF HoldsRec
    <3>. QED
      BY <2>2, <3>2, <3>3 DEF Counts
  <2>5. Counts'
    BY <2>3, <2>4
  <2>. QED
    BY <1>1, <2>5, NestKept DEF ThreadInv, KeyType, KeyIsFresh
<1>. QED
  BY <1>3, <1>4, <1>5 DEF Lock, Trylock

LEMMA KeyKeeps ==
  ASSUME ThreadInv, KeyCreate \/ (\E k \in Key : KeyDelete(k) \/ Setspecific(k, 1))
  PROVE  ThreadInv'
<1>1. PICK k \in Key :
        \/ key' = [key EXCEPT ![k] = [used |-> TRUE, v |-> 0]] /\ fate' = [fate EXCEPT !.set[k] = 0]
        \/ key' = [key EXCEPT ![k].used = FALSE] /\ fate' = fate
        \/ key' = [key EXCEPT ![k].v = 1] /\ fate' = [fate EXCEPT !.set[k] = 1]
  <2>1. CASE KeyCreate
    <3>1. FreeKeys # {} /\ FreeKeys \subseteq Nat
      BY <2>1, Small DEF KeyCreate, FreeKeys, Key
    <3>2. \E u \in FreeKeys : \A v \in FreeKeys : u <= v
      BY <3>1, LeastOf
    <3>3. PICK k \in FreeKeys : key' = [key EXCEPT ![k] = [used |-> TRUE, v |-> 0]] /\ fate' = [fate EXCEPT !.set[k] = 0]
      BY <2>1, <3>2 DEF KeyCreate, NewKey
    <3>. QED
      BY <3>3 DEF FreeKeys
  <2>2. CASE \E k \in Key : KeyDelete(k) \/ Setspecific(k, 1)
    BY <2>2 DEF KeyDelete, Setspecific
  <2>. QED
    BY <2>1, <2>2
<1>2. UNCHANGED <<running, lib, count, state, holds>>
  BY DEF KeyCreate, KeyDelete, Setspecific
<1>3. KeyType'
  <2> DEFINE new == [used |-> TRUE, v |-> 0]
             off == [key[k] EXCEPT !.used = FALSE]
             set == [key[k] EXCEPT !.v = 1]
  <2>1. new \in KeyRec /\ off \in KeyRec /\ set \in KeyRec
    <3>1. key[k] \in KeyRec
      BY DEF ThreadInv, KeyType
    <3>2. off = [used |-> FALSE, v |-> key[k].v] /\ set = [used |-> key[k].used, v |-> 1]
      BY <3>1, KeyChanged
    <3>3. key[k].v \in 0 .. 1 /\ key[k].used \in BOOLEAN
      BY <3>1, Zenon DEF KeyRec
    <3>. QED
      <4>1. /\ [used |-> FALSE, v |-> key[k].v] \in KeyRec /\ [used |-> key[k].used, v |-> 1] \in KeyRec
            /\ new \in KeyRec
        <5>1. 0 \in 0 .. 1 /\ 1 \in 0 .. 1
          OBVIOUS
        <5>. QED
          BY <3>3, <5>1, KeyMade, Zenon
      <4>. QED
        BY <3>2, <4>1, Zenon
  <2>2. \E x \in {new, off, set} : key' = [key EXCEPT ![k] = x]
    BY <1>1
  <2> HIDE DEF new, off, set
  <2>. QED
    BY <2>1, <2>2 DEF ThreadInv, KeyType
<1>4. fate' \in FateRec /\ fate'.ends = fate.ends
  BY <1>1 DEF ThreadInv, LibType, FateRec
<1>5. KeyIsFresh'
  BY <1>1 DEF ThreadInv, LibType, FateRec, KeyRec, KeyType, KeyIsFresh
<1>6. LibType' /\ Nested' /\ Results'
  BY <1>2, <1>4 DEF ThreadInv, LibType, Nested, Results, Self
<1>. QED
  BY <1>2, <1>3, <1>5, <1>6 DEF ThreadInv, Counts

LEMMA ThreadStep == ThreadInv /\ [ThreadNext]_threadVars => ThreadInv'
<1> SUFFICES ASSUME ThreadInv, [ThreadNext]_threadVars PROVE ThreadInv'
  OBVIOUS
<1>1. CASE Create
  BY <1>1, CreateKeeps
<1>2. CASE CondWait
  BY <1>2, NestKept DEF CondWait, ThreadInv, Counts, KeyType, KeyIsFresh
<1>3. CASE KeyCreate \/ (\E k \in Key : KeyDelete(k) \/ Setspecific(k, 1))
  BY <1>3, KeyKeeps
<1>4. ASSUME NEW r \in {1, 2}, Return(r)
      PROVE  ThreadInv'
  BY <1>4, EndKeeps DEF Return, ThreadInv
<1>5. ASSUME NEW r \in {1, 2}, PthreadExit(r)
      PROVE  ThreadInv'
  <2>1. CASE lib.cur = Nobody
    <3>1. UNCHANGED <<running, lib, count, key, holds, fate>> /\ state' = "exited"
      BY <1>5, <2>1 DEF PthreadExit
    <3>. QED
      BY <3>1, NestKept DEF ThreadInv, Counts, KeyType, KeyIsFresh
  <2>2. CASE lib.cur # Nobody
    <3>1. lib.cur = Self /\ lib.exit = Self /\ Self # Main
      BY <2>2 DEF ThreadInv, Nested, Owner, Main, Nobody
    <3>2. /\ state' = "runs" /\ running' = Front(running)
          /\ lib' = Popped([lib EXCEPT !.ret[Self] = r]) /\ fate' = [fate EXCEPT !.ends[Self] = r]
          /\ UNCHANGED <<count, key, holds>>
      BY <1>5, <2>2, <3>1 DEF PthreadExit
    <3>. QED
      BY <3>1, <3>2, EndKeeps
  <2>. QED
    BY <2>1, <2>2
<1>6. ASSUME NEW t \in 2 .. MaxThread + 1, Join(t) \/ Detach(t)
      PROVE  ThreadInv'
  BY <1>6, FreeKeeps DEF Made
<1>7. ASSUME NEW m \in Mutex, Lock(m) \/ Trylock(m) \/ Unlock(m)
      PROVE  ThreadInv'
  BY <1>7, LockKeeps
<1>8. CASE UNCHANGED threadVars
  BY <1>8, NestKept DEF threadVars, ThreadInv, Counts, KeyType, KeyIsFresh
<1>. QED
  BY <1>1, <1>2, <1>3, <1>4, <1>5, <1>6, <1>7, <1>8 DEF ThreadNext

\* However many threads are created by threads, and however they end, the
\* frames of pthread_create hold what their callers were and the records what
\* their threads ended with; mutexes count the locks that are held as long as
\* their holders unlock them.
THEOREM ThreadsHold == ThreadSpec => []ThreadInv
<1>. QED
  BY BeginsThreads, ThreadStep, PTL DEF ThreadSpec

\* pthread_exit goes back to the call that runs its thread, a join returns what
\* the thread ended with, a mutex that is not recursive is locked once at most,
\* by one thread as long as no other unlocks it, and a new key has no old
\* value: for any number of threads, mutexes and keys.
THEOREM ThreadsKeepApart == ThreadSpec => []ThreadsAgree
<1>1. ThreadInv => ThreadsAgree
  <2> SUFFICES ASSUME ThreadInv PROVE ThreadsAgree
    OBVIOUS
  <2>1. ThreadsNest
    BY DEF ThreadInv, LibType, Nested, Results, ThreadsNest, Owner, LibRec
  <2>2. OneHolder
    BY DEF ThreadInv, Counts, HoldsRec, OneHolder
  <2>. QED
    BY <2>1, <2>2 DEF ThreadsAgree, ThreadInv
<1>. QED
  BY <1>1, ThreadsHold, PTL
-----------------------------------------------------------------------------
(* The environment.                                                          *)

EnvSpec == EnvInit /\ [][EnvNext]_envVars

Strs == Seq(Nat)
Env == Seq(Strs)

\* No name has two entries.
Once(env) ==
  \A n \in EnvName : \A i, j \in DOMAIN env : NameMatches(env[i], n) /\ NameMatches(env[j], n) => i = j

EnvInv ==
  /\ environ \in Env /\ Once(environ)
  /\ means = Meaning(environ)
  /\ cap \in Nat /\ EnvFits

LEMMA PrefixOf ==
  ASSUME NEW S, NEW s \in Seq(S), NEW t \in Seq(S)
  PROVE  IsPrefix(s, t) <=> Len(s) <= Len(t) /\ \A i \in 1 .. Len(s) : s[i] = t[i]
<1>1. Len(s) \in Nat /\ Len(t) \in Nat
  BY LenProperties
<1>2. /\ \A i \in 1 .. Len(s) : s[i] \in S
      /\ \A i \in 1 .. Len(t) : t[i] \in S
  BY ElementOfSeq
<1>3. SubSeq(s, 1, Len(s)) = s
  BY SubSeqFull
<1>4. ASSUME Len(s) <= Len(t)
      PROVE  (SubSeq(s, 1, Len(s)) = SubSeq(t, 1, Len(s))) <=> \A i \in 1 .. Len(s) : s[i] = t[i]
  <2> DEFINE u == SubSeq(t, 1, Len(s))
             n == Len(s)
  <2>1. /\ u \in Seq(S) /\ Len(u) = IF 1 <= n THEN n - 1 + 1 ELSE 0
        /\ \A i \in 1 .. n - 1 + 1 : u[i] = t[1 + i - 1]
    <3>1. \A i \in 1 .. n : t[i] \in S
      BY <1>1, <1>2, <1>4
    <3>2. 1 \in Int /\ n \in Int
      BY <1>1
    <3>. QED
      BY <3>1, <3>2, SubSeqProperties
  <2> HIDE DEF u
  <2>2. Len(u) = n
    BY <1>1, <2>1
  <2>3. ASSUME NEW i \in 1 .. n
        PROVE  u[i] = t[i]
    <3>1. i \in 1 .. n - 1 + 1 /\ 1 + i - 1 = i
      BY <1>1
    <3>2. u[i] = t[1 + i - 1]
      BY <2>1, <3>1
    <3>. QED
      BY <3>1, <3>2
  <2>4. (\A i \in 1 .. n : s[i] = t[i]) => s = u
    <3> SUFFICES ASSUME \A i \in 1 .. n : s[i] = t[i]
                 PROVE  s = u
      OBVIOUS
    <3>1. u \in Seq(S) /\ Len(s) = Len(u) /\ \A i \in 1 .. Len(s) : s[i] = u[i]
      BY <2>1, <2>2, <2>3
    <3>. QED
      BY <3>1, SeqEqual
  <2>. QED
    BY <1>3, <2>3, <2>4 DEF u
<1>. QED
  BY <1>4 DEF IsPrefix

\* What name_matches compares.
LEMMA Matching ==
  ASSUME NEW e \in Strs, NEW n \in Strs
  PROVE  NameMatches(e, n) <=>
           /\ Len(n) + 1 <= Len(e) /\ e[Len(n) + 1] = Eq
           /\ \A i \in 1 .. Len(n) : e[i] = n[i]
<1> DEFINE a == Append(n, Eq)
<1>1. Len(n) \in Nat /\ Len(e) \in Nat
  BY LenProperties DEF Strs
<1>2. a \in Seq(Nat) /\ Len(a) = Len(n) + 1 /\ a[Len(n) + 1] = Eq /\ \A i \in 1 .. Len(n) : a[i] = n[i]
  BY <1>1 DEF Eq, Strs
<1> HIDE DEF a
<1>3. IsPrefix(a, e) <=> Len(a) <= Len(e) /\ \A i \in 1 .. Len(a) : a[i] = e[i]
  BY <1>2, PrefixOf DEF Strs
<1>4. NameMatches(e, n) <=> IsPrefix(a, e)
  BY DEF NameMatches, a
<1>5. Len(n) + 1 \in 1 .. Len(n) + 1 /\ 1 .. Len(n) \subseteq 1 .. Len(n) + 1
  BY <1>1
<1>6. \A i \in 1 .. Len(n) + 1 : i = Len(n) + 1 \/ i \in 1 .. Len(n)
  BY <1>1
<1>. QED
  BY <1>2, <1>3, <1>4, <1>5, <1>6

\* An entry is of one name: what stands before its first '='.
LEMMA OneName ==
  ASSUME NEW e \in Strs, NEW n \in EnvName, NEW m \in EnvName, NameMatches(e, n), NameMatches(e, m)
  PROVE  n = m
<1>1. n \in Strs /\ m \in Strs /\ (\A i \in DOMAIN n : n[i] # Eq) /\ (\A i \in DOMAIN m : m[i] # Eq)
  BY EnvConstantsOK DEF Strs
<1>2. DOMAIN n = 1 .. Len(n) /\ DOMAIN m = 1 .. Len(m) /\ Len(n) \in Nat /\ Len(m) \in Nat
  BY <1>1, LenProperties DEF Strs
<1>3. /\ e[Len(n) + 1] = Eq /\ \A i \in 1 .. Len(n) : e[i] = n[i]
      /\ e[Len(m) + 1] = Eq /\ \A i \in 1 .. Len(m) : e[i] = m[i]
  BY <1>1, Matching
<1>4. ~(Len(n) < Len(m))
  <2> SUFFICES ASSUME Len(n) < Len(m) PROVE FALSE
    OBVIOUS
  <2>1. Len(n) + 1 \in 1 .. Len(m)
    BY <1>2
  <2>. QED
    BY <1>1, <1>2, <1>3, <2>1
<1>5. ~(Len(m) < Len(n))
  <2> SUFFICES ASSUME Len(m) < Len(n) PROVE FALSE
    OBVIOUS
  <2>1. Len(m) + 1 \in 1 .. Len(n)
    BY <1>2
  <2>. QED
    BY <1>1, <1>2, <1>3, <2>1
<1>6. Len(n) = Len(m)
  <2> DEFINE a == Len(n)
             b == Len(m)
  <2>1. a \in Nat /\ b \in Nat /\ ~(a < b) /\ ~(b < a)
    BY <1>2, <1>4, <1>5
  <2> HIDE DEF a, b
  <2>2. a = b
    BY <2>1
  <2>. QED
    BY <2>2 DEF a, b
<1>. QED
  BY <1>1, <1>3, <1>6, SeqEqual DEF Strs

\* What EnvFind and getenv read off an entry.
ValueOf(e, n) == SubSeq(e, Len(n) + 2, Len(e))

LEMMA Entered ==
  ASSUME NEW n \in EnvName, NEW v \in EnvValue
  PROVE  EntryOf(n, v) \in Strs /\ NameMatches(EntryOf(n, v), n) /\ ValueOf(EntryOf(n, v), n) = v
<1> DEFINE e == EntryOf(n, v)
           h == n \o <<Eq>>
<1>1. n \in Strs /\ v \in Strs /\ Len(n) \in Nat /\ Len(v) \in Nat
  BY EnvConstantsOK, LenProperties DEF Strs
<1>2. <<Eq>> \in Seq(Nat) /\ Len(<<Eq>>) = 1 /\ <<Eq>>[1] = Eq
  BY DEF Eq
<1>3. /\ h \in Seq(Nat) /\ Len(h) = Len(n) + 1
      /\ \A i \in 1 .. Len(n) + 1 : h[i] = IF i <= Len(n) THEN n[i] ELSE <<Eq>>[i - Len(n)]
  BY <1>1, <1>2, ConcatProperties DEF Strs
<1>4. h[Len(n) + 1] = Eq /\ \A i \in 1 .. Len(n) : h[i] = n[i]
  BY <1>1, <1>2, <1>3
<1>5. e = h \o v
  BY DEF EntryOf
<1> HIDE DEF h, e
<1>6. /\ e \in Seq(Nat) /\ Len(e) = Len(h) + Len(v)
      /\ \A i \in 1 .. Len(h) + Len(v) : e[i] = IF i <= Len(h) THEN h[i] ELSE v[i - Len(h)]
  BY <1>1, <1>3, <1>5, ConcatProperties DEF Strs
<1>7. Len(n) + 1 <= Len(e) /\ e[Len(n) + 1] = Eq /\ \A i \in 1 .. Len(n) : e[i] = n[i]
  <2>1. Len(e) = Len(n) + 1 + Len(v)
    BY <1>3, <1>6
  <2>2. ASSUME NEW i \in 1 .. Len(n) + 1
        PROVE  e[i] = h[i]
    <3>1. i \in 1 .. Len(h) + Len(v) /\ i <= Len(h)
      BY <1>1, <1>3
    <3>. QED
      BY <1>6, <3>1
  <2>. QED
    BY <1>1, <1>4, <2>1, <2>2
<1>8. NameMatches(e, n)
  BY <1>1, <1>6, <1>7, Matching DEF Strs
<1>9. ValueOf(e, n) = v
  <2> DEFINE a == Len(n) + 2
             b == Len(e)
             u == SubSeq(e, a, b)
  <2>1. a \in Int /\ b \in Int /\ b = Len(n) + 1 + Len(v) /\ b - a + 1 = Len(v)
    BY <1>1, <1>3, <1>6
  <2>2. \A i \in a .. b : e[i] \in Nat
    <3>1. \A i \in 1 .. Len(e) : e[i] \in Nat
      BY <1>6, ElementOfSeq
    <3>. QED
      BY <1>1, <3>1
  <2> HIDE DEF a, b
  <2>3. /\ u \in Seq(Nat) /\ Len(u) = IF a <= b THEN b - a + 1 ELSE 0
        /\ \A i \in 1 .. b - a + 1 : u[i] = e[a + i - 1]
    BY <2>1, <2>2, SubSeqProperties
  <2> HIDE DEF u
  <2>4. Len(u) = Len(v)
    BY <1>1, <2>1, <2>3 DEF a
  <2>5. ASSUME NEW i \in 1 .. Len(v)
        PROVE  u[i] = v[i]
    <3> DEFINE k == a + i - 1
    <3>1. i \in 1 .. b - a + 1 /\ u[i] = e[k]
      BY <2>1, <2>3
    <3>2. k \in 1 .. Len(h) + Len(v) /\ ~(k <= Len(h)) /\ k - Len(h) = i
      BY <1>1, <1>3 DEF a
    <3> HIDE DEF k
    <3>3. e[k] = v[k - Len(h)]
      BY <1>6, <3>2
    <3>. QED
      BY <3>1, <3>2, <3>3
  <2>6. u = v
    BY <1>1, <2>3, <2>4, <2>5, SeqEqual DEF Strs
  <2>. QED
    BY <2>6 DEF u, a, b, ValueOf
<1>. QED
  BY <1>6, <1>8, <1>9 DEF e, Strs

LEMMA Founds ==
  ASSUME NEW e \in Env, NEW n \in EnvName
  PROVE  /\ DOMAIN e = 1 .. Len(e) /\ Len(e) \in Nat /\ EnvFind(e, n) \in Nat
         /\ EnvFind(e, n) > 0 => EnvFind(e, n) \in DOMAIN e /\ NameMatches(e[EnvFind(e, n)], n)
         /\ EnvFind(e, n) = 0 => \A i \in DOMAIN e : ~NameMatches(e[i], n)
<1> DEFINE at == {i \in DOMAIN e : NameMatches(e[i], n)}
<1>1. DOMAIN e = 1 .. Len(e) /\ Len(e) \in Nat
  BY LenProperties DEF Env
<1>2. EnvFind(e, n) = IF at = {} THEN 0 ELSE CHOOSE i \in at : \A j \in at : i <= j
  BY DEF EnvFind
<1>3. CASE at = {}
  <2>1. EnvFind(e, n) = 0
    BY <1>2, <1>3
  <2>. QED
    BY <1>1, <1>3, <2>1
<1>4. CASE at # {}
  <2>1. at \subseteq Nat
    BY <1>1
  <2>2. \E i \in at : \A j \in at : i <= j
    BY <1>4, <2>1, LeastOf
  <2>3. EnvFind(e, n) \in at
    BY <1>2, <1>4, <2>2
  <2>4. \A i \in at : i \in Nat /\ i > 0
    BY <1>1
  <2>. QED
    BY <1>1, <2>3, <2>4
<1>. QED
  BY <1>3, <1>4

LEMMA Means ==
  ASSUME NEW e \in Env, NEW n \in EnvName, Once(e)
  PROVE  /\ \A i \in DOMAIN e : NameMatches(e[i], n) =>
              EnvFind(e, n) = i /\ Meaning(e)[n] = Set(ValueOf(e[i], n)) /\ Getenv(e, n) = Set(ValueOf(e[i], n))
         /\ (\A i \in DOMAIN e : ~NameMatches(e[i], n)) => EnvFind(e, n) = 0 /\ Meaning(e)[n] = Unset
<1> DEFINE f == EnvFind(e, n)
<1>1. /\ DOMAIN e = 1 .. Len(e) /\ Len(e) \in Nat /\ f \in Nat
      /\ f > 0 => f \in DOMAIN e /\ NameMatches(e[f], n)
      /\ f = 0 => \A i \in DOMAIN e : ~NameMatches(e[i], n)
  BY Founds
<1>2. Meaning(e)[n] = IF f = 0 THEN Unset ELSE Getenv(e, n)
  BY DEF Meaning
<1>3. f > 0 => Getenv(e, n) = Set(ValueOf(e[f], n))
  BY DEF Getenv, ValueOf
<1> HIDE DEF f
<1>4. ASSUME NEW i \in DOMAIN e, NameMatches(e[i], n)
      PROVE  f = i /\ Meaning(e)[n] = Set(ValueOf(e[i], n)) /\ Getenv(e, n) = Set(ValueOf(e[i], n))
  <2>1. f # 0
    BY <1>1, <1>4
  <2>2. f > 0
    BY <1>1, <2>1
  <2>3. f = i
    BY <1>1, <1>4, <2>2 DEF Once
  <2>. QED
    BY <1>2, <1>3, <2>1, <2>2, <2>3
<1>5. (\A i \in DOMAIN e : ~NameMatches(e[i], n)) => f = 0
  BY <1>1
<1>. QED
  BY <1>2, <1>4, <1>5 DEF f

\* A name means the same in two environments that have the same entry of it.
LEMMA SameMeaning ==
  ASSUME NEW e \in Env, NEW f \in Env, Once(e), Once(f), NEW n \in EnvName,
         \A i \in DOMAIN e : NameMatches(e[i], n) => \E j \in DOMAIN f : f[j] = e[i],
         \A j \in DOMAIN f : NameMatches(f[j], n) => \E i \in DOMAIN e : e[i] = f[j]
  PROVE  Meaning(f)[n] = Meaning(e)[n]
<1>1. CASE \E i \in DOMAIN e : NameMatches(e[i], n)
  <2>1. PICK i \in DOMAIN e : NameMatches(e[i], n)
    BY <1>1
  <2>2. PICK j \in DOMAIN f : f[j] = e[i]
    BY <2>1
  <2>3. Meaning(e)[n] = Set(ValueOf(e[i], n))
    BY <2>1, Means
  <2>4. Meaning(f)[n] = Set(ValueOf(f[j], n))
    <3>1. NameMatches(f[j], n)
      BY <2>1, <2>2
    <3>. QED
      BY <3>1, Means
  <2>. QED
    BY <2>2, <2>3, <2>4
<1>2. CASE \A i \in DOMAIN e : ~NameMatches(e[i], n)
  <2>1. \A j \in DOMAIN f : ~NameMatches(f[j], n)
    BY <1>2
  <2>. QED
    BY <1>2, <2>1, Means
<1>. QED
  BY <1>1, <1>2

LEMMA MeaningIs ==
  ASSUME NEW e
  PROVE  DOMAIN Meaning(e) = EnvName /\ Meaning(e) = [m \in EnvName |-> Meaning(e)[m]]
BY DEF Meaning

\* NoneTwice, which counts, and Once, which compares, say the same.
LEMMA Counted ==
  ASSUME NEW e \in Env
  PROVE  NoneTwice(e) <=> Once(e)
<1>1. DOMAIN e = 1 .. Len(e) /\ Len(e) \in Nat
  BY LenProperties DEF Env
<1>2. ASSUME NEW n \in EnvName
      PROVE  Cardinality({i \in DOMAIN e : IsPrefix(Append(n, Eq), e[i])}) <= 1
               <=> \A i, j \in DOMAIN e : NameMatches(e[i], n) /\ NameMatches(e[j], n) => i = j
  <2> DEFINE A == {i \in DOMAIN e : IsPrefix(Append(n, Eq), e[i])}
  <2>0. \A i : i \in A <=> i \in DOMAIN e /\ NameMatches(e[i], n)
    BY DEF NameMatches
  <2>1. IsFiniteSet(A)
    <3>1. IsFiniteSet(1 .. Len(e))
      BY <1>1, FS_Interval
    <3>2. A \in SUBSET (1 .. Len(e))
      BY <1>1
    <3> HIDE DEF A
    <3>. QED
      BY <3>1, <3>2, FS_Subset
  <2> HIDE DEF A
  <2>2. Cardinality(A) <= 1 => \A i, j \in A : i = j
    <3> SUFFICES ASSUME Cardinality(A) <= 1, NEW i \in A, NEW j \in A, i # j
                 PROVE  FALSE
      OBVIOUS
    <3>1. IsFiniteSet({i}) /\ Cardinality({i}) = 1
      BY FS_Singleton
    <3>2. Cardinality({i} \cup {j}) = 2
      <4> DEFINE one == {i}
      <4>1. IsFiniteSet(one) /\ Cardinality(one) = 1 /\ j \notin one
        BY <3>1
      <4> HIDE DEF one
      <4>2. Cardinality(one \cup {j}) = Cardinality(one) + 1
        BY <4>1, FS_AddElement
      <4>. QED
        BY <4>1, <4>2 DEF one
    <3>3. {i} \cup {j} \in SUBSET A
      OBVIOUS
    <3>4. Cardinality({i} \cup {j}) <= Cardinality(A) /\ Cardinality(A) \in Nat
      BY <2>1, <3>3, FS_Subset, FS_CardinalityType
    <3>. QED
      BY <3>2, <3>4
  <2>3. (\A i, j \in A : i = j) => Cardinality(A) <= 1
    <3> SUFFICES ASSUME \A i, j \in A : i = j
                 PROVE  Cardinality(A) <= 1
      OBVIOUS
    <3>1. CASE A = {}
      BY <3>1, FS_EmptySet
    <3>2. CASE A # {}
      <4>1. PICK i : i \in A
        BY <3>2
      <4>2. A = {i}
        BY <4>1
      <4>3. Cardinality({i}) = 1
        BY FS_Singleton
      <4>. QED
        BY <4>2, <4>3
    <3>. QED
      BY <3>1, <3>2
  <2>4. (Cardinality(A) <= 1) <=> \A i, j \in DOMAIN e : NameMatches(e[i], n) /\ NameMatches(e[j], n) => i = j
    BY <2>0, <2>2, <2>3
  <2>. QED
    BY <2>4 DEF A
<1>. QED
  BY <1>2 DEF NoneTwice, Once

LEMMA MapHolds == EnvInv => EnvAgrees
<1> SUFFICES ASSUME EnvInv PROVE EnvAgrees
  OBVIOUS
<1>1. NoneTwice(environ)
  BY Counted DEF EnvInv
<1>2. ASSUME NEW n \in EnvName
      PROVE  Getenv(environ, n) = IF means[n].set THEN means[n] ELSE IF n \in DOMAIN EnvStore THEN Set(EnvStore[n]) ELSE Unset
  <2> DEFINE f == EnvFind(environ, n)
  <2>1. /\ f \in Nat
        /\ f > 0 => f \in DOMAIN environ /\ NameMatches(environ[f], n)
        /\ f = 0 => \A i \in DOMAIN environ : ~NameMatches(environ[i], n)
    BY Founds DEF EnvInv
  <2>2. CASE f > 0
    <3>1. /\ Meaning(environ)[n] = Set(ValueOf(environ[f], n))
          /\ Getenv(environ, n) = Set(ValueOf(environ[f], n))
      <4>1. f \in DOMAIN environ /\ NameMatches(environ[f], n)
        BY <2>1, <2>2
      <4> HIDE DEF f
      <4>. QED
        BY <4>1, Means DEF EnvInv
    <3>2. means[n] = Set(ValueOf(environ[f], n)) /\ means[n].set
      BY <3>1 DEF EnvInv, Set
    <3>. QED
      BY <3>1, <3>2
  <2>3. CASE f = 0
    <3>1. means[n] = Unset /\ ~means[n].set
      BY <2>1, <2>3, Means DEF EnvInv, Unset
    <3>2. Getenv(environ, n) = IF n \in DOMAIN EnvStore THEN Set(EnvStore[n]) ELSE Unset
      BY <2>3 DEF Getenv
    <3>. QED
      BY <3>1, <3>2
  <2>. QED
    BY <2>1, <2>2, <2>3
<1>. QED
  BY <1>1, <1>2 DEF EnvAgrees, EnvIsMap, EnvInv

LEMMA BeginsEnv == EnvInit => EnvInv
<1> SUFFICES ASSUME EnvInit PROVE EnvInv
  OBVIOUS
<1>1. environ \in Env /\ NoneTwice(environ)
  BY EnvConstantsOK DEF EnvInit, Env, Strs
<1>2. Once(environ)
  BY <1>1, Counted
<1>. QED
  BY <1>1, <1>2 DEF EnvInit, EnvInv, EnvFits

LEMMA Room ==
  ASSUME EnvInv
  PROVE  Owned \in Nat /\ Len(environ) + 1 <= Owned /\ Len(environ) \in Nat
<1>1. Len(environ) \in Nat /\ cap \in Nat /\ Spare \in Nat /\ Spare > 0
  BY EnvConstantsOK, LenProperties DEF EnvInv, Env
<1>. QED
  BY <1>1 DEF Owned, EnvInv, EnvFits

LEMMA MemoryKeeps == ASSUME EnvInv, OutOfMemory PROVE EnvInv'
<1>1. cap' \in Nat /\ (cap' > 0 => Len(environ) + 1 <= cap') /\ UNCHANGED <<environ, means>>
  BY Room DEF OutOfMemory, EnvInv, EnvFits
<1>. QED
  BY <1>1 DEF EnvInv, EnvFits, Once, Meaning, EnvFind, Getenv

\* The array takes the entry, in the place of the name's old one or behind all others.
LEMMA EnterKeeps ==
  ASSUME EnvInv, NEW n \in EnvName, NEW v \in EnvValue,
         Enter(n, EntryOf(n, v)), means' = [means EXCEPT ![n] = Set(v)]
  PROVE  EnvInv'
<1> DEFINE x == EntryOf(n, v)
           i == EnvFind(environ, n)
           L == Len(environ)
<1>1. x \in Strs /\ NameMatches(x, n) /\ ValueOf(x, n) = v
  BY Entered
<1>2. /\ DOMAIN environ = 1 .. L /\ L \in Nat /\ i \in Nat
      /\ i > 0 => i \in 1 .. L /\ NameMatches(environ[i], n)
      /\ i = 0 => \A j \in 1 .. L : ~NameMatches(environ[j], n)
  <2>1. /\ DOMAIN environ = 1 .. L /\ L \in Nat /\ i \in Nat
        /\ i > 0 => i \in DOMAIN environ /\ NameMatches(environ[i], n)
        /\ i = 0 => \A j \in DOMAIN environ : ~NameMatches(environ[j], n)
    BY Founds DEF EnvInv
  <2>. QED
    BY <2>1
<1>3. /\ environ' = IF i > 0 THEN [environ EXCEPT ![i] = x] ELSE Append(environ, x)
      /\ cap' = IF i > 0 THEN Owned ELSE GrowForOne(L, Owned)
  BY DEF Enter
<1>4. Owned \in Nat /\ L + 1 <= Owned /\ environ \in Env /\ Once(environ) /\ means = Meaning(environ)
  BY Room DEF EnvInv
<1>5. \A j \in 1 .. L : environ[j] \in Strs
  BY <1>4, ElementOfSeq DEF Env
<1>6. PICK k \in Nat, M \in Nat :
        /\ k \in 1 .. M /\ L <= M /\ environ' \in Env /\ Len(environ') = M /\ environ'[k] = x
        /\ \A j \in 1 .. M : j # k => j \in 1 .. L /\ environ'[j] = environ[j]
        /\ k \in 1 .. L => NameMatches(environ[k], n)
        /\ \A j \in 1 .. M : j # k => ~NameMatches(environ[j], n)
        /\ cap' \in Nat /\ M + 1 <= cap'
  <2> HIDE DEF x, i, L
  <2>1. CASE i > 0
    <3>1. i \in 1 .. Len(environ) /\ environ \in Seq(Strs) /\ x \in Strs
      BY <1>1, <1>2, <1>4, <2>1 DEF Env, L
    <3>2. /\ [environ EXCEPT ![i] = x] \in Seq(Strs) /\ Len([environ EXCEPT ![i] = x]) = Len(environ)
          /\ \A j \in 1 .. Len(environ) : [environ EXCEPT ![i] = x][j] = IF j = i THEN x ELSE environ[j]
      BY <3>1, ExceptSeq
    <3>3. /\ environ' \in Env /\ Len(environ') = L /\ environ'[i] = x
          /\ \A j \in 1 .. L : j # i => j \in 1 .. L /\ environ'[j] = environ[j]
      BY <1>3, <2>1, <3>1, <3>2 DEF Env, L
    <3>4. \A j \in 1 .. L : j # i => ~NameMatches(environ[j], n)
      BY <1>2, <1>4, <2>1 DEF Once
    <3>5. cap' \in Nat /\ L + 1 <= cap'
      BY <1>3, <1>4, <2>1
    <3>. QED
      BY <1>2, <2>1, <3>3, <3>4, <3>5
  <2>2. CASE i = 0
    <3>1. environ \in Seq(Strs) /\ x \in Strs /\ environ' = Append(environ, x)
      BY <1>1, <1>3, <1>4, <2>2 DEF Env
    <3>2. /\ environ' \in Env /\ Len(environ') = L + 1 /\ environ'[L + 1] = x
          /\ \A j \in 1 .. L : environ'[j] = environ[j]
      BY <3>1, <1>2 DEF Env, L
    <3>3. \A j \in 1 .. L + 1 : j # L + 1 => j \in 1 .. L
      BY <1>2
    <3>4. cap' \in Nat /\ L + 1 + 1 <= cap'
      <4>1. cap' = GrowForOne(L, Owned)
        BY <1>3, <2>2
      <4>. QED
        BY <1>2, <1>4, <4>1 DEF GrowForOne
    <3>5. L + 1 \in Nat /\ L + 1 \in 1 .. L + 1 /\ L <= L + 1 /\ L + 1 \notin 1 .. L
      BY <1>2
    <3>. QED
      BY <1>2, <2>2, <3>2, <3>3, <3>4, <3>5
  <2>. QED
    BY <1>2, <2>1, <2>2
<1> HIDE DEF x, i, L
<1>7. DOMAIN environ' = 1 .. M
  BY <1>6, LenProperties DEF Env
<1>8. \A m \in EnvName : m # n => ~NameMatches(x, m)
  BY <1>1, OneName
<1>9. Once(environ')
  <2> SUFFICES ASSUME NEW m \in EnvName, NEW a \in 1 .. M, NEW b \in 1 .. M,
                      NameMatches(environ'[a], m), NameMatches(environ'[b], m)
               PROVE  a = b
    BY <1>7 DEF Once
  <2>1. CASE m = n
    BY <1>6, <2>1
  <2>2. CASE m # n
    <3>1. a # k /\ b # k
      BY <1>6, <1>8, <2>2
    <3>2. /\ a \in DOMAIN environ /\ b \in DOMAIN environ
          /\ NameMatches(environ[a], m) /\ NameMatches(environ[b], m)
      BY <1>2, <1>6, <3>1
    <3>. QED
      BY <1>4, <3>2 DEF Once
  <2>. QED
    BY <2>1, <2>2
<1> DEFINE e == environ'
<1>10. e \in Env /\ DOMAIN e = 1 .. M /\ Once(e)
  BY <1>6, <1>7, <1>9
<1>11. Meaning(e)[n] = Set(v)
  <2>1. k \in DOMAIN e /\ NameMatches(e[k], n) /\ ValueOf(e[k], n) = v
    BY <1>1, <1>6, <1>7
  <2> HIDE DEF e
  <2>. QED
    BY <1>10, <2>1, Means
<1>12. ASSUME NEW m \in EnvName \ {n}
       PROVE  Meaning(e)[m] = Meaning(environ)[m]
  <2>1. \A a \in DOMAIN environ : NameMatches(environ[a], m) => \E b \in DOMAIN e : e[b] = environ[a]
    <3> SUFFICES ASSUME NEW a \in 1 .. L, NameMatches(environ[a], m)
                 PROVE  \E b \in DOMAIN e : e[b] = environ[a]
      BY <1>2
    <3>1. a # k
      <4> SUFFICES ASSUME a = k PROVE FALSE
        OBVIOUS
      <4>1. NameMatches(environ[a], n) /\ environ[a] \in Strs
        BY <1>5, <1>6
      <4>. QED
        BY <4>1, OneName
    <3>2. a \in 1 .. M
      BY <1>2, <1>6
    <3>. QED
      BY <1>6, <1>7, <3>1, <3>2
  <2>2. \A b \in DOMAIN e : NameMatches(e[b], m) => \E a \in DOMAIN environ : environ[a] = e[b]
    <3> SUFFICES ASSUME NEW b \in 1 .. M, NameMatches(e[b], m)
                 PROVE  \E a \in DOMAIN environ : environ[a] = e[b]
      BY <1>7
    <3>1. b # k
      BY <1>6, <1>8
    <3>. QED
      BY <1>2, <1>6, <3>1
  <2> HIDE DEF e
  <2>. QED
    BY <1>4, <1>10, <2>1, <2>2, SameMeaning
<1>13. means' = Meaning(e)
  <2>1. means' = [Meaning(environ) EXCEPT ![n] = Set(v)]
    BY <1>4
  <2> HIDE DEF e
  <2>2. [Meaning(environ) EXCEPT ![n] = Set(v)] = Meaning(e)
    <3> DEFINE a == Meaning(environ)
               b == Meaning(e)
               y == Set(v)
    <3>1. /\ DOMAIN a = EnvName /\ a = [m \in EnvName |-> a[m]]
          /\ DOMAIN b = EnvName /\ b = [m \in EnvName |-> b[m]]
      BY MeaningIs
    <3>2. b[n] = y /\ \A m \in EnvName \ {n} : b[m] = a[m]
      BY <1>11, <1>12
    <3> HIDE DEF a, b, y
    <3>3. [a EXCEPT ![n] = y] = b
      BY <3>1, <3>2
    <3>. QED
      BY <3>3 DEF a, b, y
  <2>. QED
    BY <2>1, <2>2
<1>. QED
  <2>1. cap' \in Nat /\ (cap' > 0 => Len(environ') + 1 <= cap')
    BY <1>6
  <2>2. EnvFits'
    BY <2>1 DEF EnvFits
  <2>3. Meaning(e) = Meaning(environ)' /\ Once(environ)'
    BY <1>9 DEF Meaning, EnvFind, Getenv, Once
  <2>. QED
    BY <1>6, <1>9, <1>13, <2>1, <2>2, <2>3 DEF EnvInv

\* unsetenv closes the gap over the name's only entry.
LEMMA UnsetKeeps ==
  ASSUME EnvInv, NEW n \in EnvName,
         environ' = IF EnvFind(environ, n) = 0 THEN environ ELSE RemoveAt(environ, EnvFind(environ, n)),
         cap' = Owned, means' = [means EXCEPT ![n] = Unset]
  PROVE  EnvInv'
<1> DEFINE i == EnvFind(environ, n)
           L == Len(environ)
           e == environ'
<1>2. /\ DOMAIN environ = 1 .. L /\ L \in Nat /\ i \in Nat
      /\ i > 0 => i \in DOMAIN environ /\ NameMatches(environ[i], n)
      /\ i = 0 => \A j \in DOMAIN environ : ~NameMatches(environ[j], n)
  BY Founds DEF EnvInv
<1>3. e = IF i = 0 THEN environ ELSE RemoveAt(environ, i)
  OBVIOUS
<1>4. Owned \in Nat /\ L + 1 <= Owned /\ environ \in Env /\ Once(environ) /\ means = Meaning(environ)
  BY Room DEF EnvInv
<1>5. \A j \in 1 .. L : environ[j] \in Strs
  BY <1>4, ElementOfSeq DEF Env
<1>6. /\ e \in Env /\ Len(e) <= L /\ DOMAIN e = 1 .. Len(e)
      /\ Once(e) /\ \A j \in DOMAIN e : ~NameMatches(e[j], n)
      /\ \A j \in DOMAIN e : \E a \in DOMAIN environ : environ[a] = e[j]
      /\ \A a \in DOMAIN environ : a = i \/ \E j \in DOMAIN e : e[j] = environ[a]
  <2> HIDE DEF e, i, L
  <2>1. CASE i = 0
    <3>1. e = environ
      BY <1>3, <2>1
    <3>. QED
      BY <1>2, <1>4, <2>1, <3>1 DEF L
  <2>2. CASE i # 0
    <3>0. i \in 1 .. L /\ i \in DOMAIN environ /\ NameMatches(environ[i], n) /\ environ \in Seq(Strs)
      BY <1>2, <1>4, <2>2 DEF Env
    <3>1. /\ e \in Seq(Strs) /\ Len(e) = L - 1
          /\ \A j \in 1 .. L - 1 : e[j] = IF j < i THEN environ[j] ELSE environ[j + 1]
      <4>1. e = RemoveAt(environ, i)
        BY <1>3, <2>2
      <4>. QED
        BY <3>0, <4>1, RemovedOf DEF L
    <3>2. DOMAIN e = 1 .. L - 1
      BY <3>1, LenProperties
    <3> DEFINE from(j) == IF j < i THEN j ELSE j + 1
    <3>3. \A j \in DOMAIN e : from(j) \in 1 .. L /\ from(j) # i /\ e[j] = environ[from(j)]
      BY <1>2, <3>0, <3>1, <3>2
    <3>4. \A j, k \in DOMAIN e : from(j) = from(k) => j = k
      BY <1>2, <3>0, <3>2
    <3>5. ASSUME NEW a \in 1 .. L, a # i
          PROVE  \E j \in DOMAIN e : e[j] = environ[a]
      <4>1. CASE a < i
        <5>1. a \in 1 .. L - 1
          BY <1>2, <3>0, <4>1
        <5>. QED
          BY <3>1, <3>2, <4>1, <5>1
      <4>2. CASE ~(a < i)
        <5> DEFINE j == a - 1
        <5>1. j \in 1 .. L - 1 /\ ~(j < i) /\ j + 1 = a
          BY <1>2, <3>0, <3>5, <4>2
        <5> HIDE DEF j
        <5>2. e[j] = environ[j + 1]
          BY <3>1, <5>1
        <5>. QED
          BY <3>2, <5>1, <5>2
      <4>. QED
        BY <4>1, <4>2
    <3> HIDE DEF from
    <3>6. Once(e)
      BY <1>2, <1>4, <3>3, <3>4 DEF Once
    <3>7. \A j \in DOMAIN e : ~NameMatches(e[j], n)
      BY <1>2, <1>4, <3>0, <3>3 DEF Once
    <3>8. Len(e) <= L /\ DOMAIN e = 1 .. Len(e)
      BY <1>2, <3>1, <3>2
    <3>. QED
      BY <1>2, <3>1, <3>3, <3>5, <3>6, <3>7, <3>8 DEF Env
  <2>. QED
    BY <2>1, <2>2
<1> HIDE DEF e
<1>7. Meaning(e)[n] = Unset
  BY <1>6, Means
<1>8. ASSUME NEW m \in EnvName \ {n}
      PROVE  Meaning(e)[m] = Meaning(environ)[m]
  <2>1. \A a \in DOMAIN environ : NameMatches(environ[a], m) => \E b \in DOMAIN e : e[b] = environ[a]
    <3> SUFFICES ASSUME NEW a \in DOMAIN environ, NameMatches(environ[a], m)
                 PROVE  \E b \in DOMAIN e : e[b] = environ[a]
      OBVIOUS
    <3>1. a # i
      <4> SUFFICES ASSUME a = i PROVE FALSE
        OBVIOUS
      <4>1. NameMatches(environ[a], n) /\ environ[a] \in Strs
        BY <1>2, <1>5
      <4> HIDE DEF i
      <4>. QED
        BY <4>1, OneName
    <3> HIDE DEF i
    <3>. QED
      BY <1>6, <3>1
  <2>2. \A b \in DOMAIN e : NameMatches(e[b], m) => \E a \in DOMAIN environ : environ[a] = e[b]
    BY <1>6
  <2>. QED
    BY <1>4, <1>6, <2>1, <2>2, SameMeaning
<1>9. means' = Meaning(e)
  <2>1. means' = [Meaning(environ) EXCEPT ![n] = Unset]
    BY <1>4
  <2>2. [Meaning(environ) EXCEPT ![n] = Unset] = Meaning(e)
    <3> DEFINE a == Meaning(environ)
               b == Meaning(e)
               x == Unset
    <3>1. /\ DOMAIN a = EnvName /\ a = [m \in EnvName |-> a[m]]
          /\ DOMAIN b = EnvName /\ b = [m \in EnvName |-> b[m]]
      BY MeaningIs
    <3>2. b[n] = x /\ \A m \in EnvName \ {n} : b[m] = a[m]
      BY <1>7, <1>8
    <3> HIDE DEF a, b, x
    <3>3. [a EXCEPT ![n] = x] = b
      BY <3>1, <3>2
    <3>. QED
      BY <3>3 DEF a, b, x
  <2>. QED
    BY <2>1, <2>2
<1>. QED
  <2>0. Len(e) \in Nat
    BY <1>6, LenProperties DEF Env
  <2>1. cap' \in Nat /\ (cap' > 0 => Len(e) + 1 <= cap')
    BY <1>2, <1>4, <1>6, <2>0
  <2>2. EnvFits'
    BY <2>1 DEF EnvFits, e
  <2>3. Meaning(e) = Meaning(environ)' /\ Once(environ)'
    BY <1>6 DEF Meaning, EnvFind, Getenv, Once, e
  <2>. QED
    BY <1>6, <1>9, <2>1, <2>2, <2>3 DEF EnvInv, e
-----------------------------------------------------------------------------
(* exec.                                                                     *)

Part == [mark : {"none", "argv", "env"}, text : Strs]

LEMMA PartsOf ==
  /\ \A s \in Strs : Txt(s) \in Part /\ Txt(s).mark = "none" /\ Txt(s).text = s
  /\ Mark("env") \in Part /\ Mark("env").mark = "env"
  /\ Mark("argv") \in Part /\ <<>> \in Strs
<1>1. <<>> \in Strs
  BY DEF Strs
<1>2. \A m \in {"none", "argv", "env"}, s \in Strs : [mark |-> m, text |-> s] \in Part
  BY Zenon DEF Part
<1>. QED
  BY <1>1, <1>2 DEF Txt, Mark

LEMMA Texts ==
  ASSUME NEW s \in Env
  PROVE  /\ TextsOf(s) \in Seq(Part) /\ Len(TextsOf(s)) = Len(s) /\ Len(s) \in Nat
         /\ \A k \in 1 .. Len(s) : TextsOf(s)[k] = Txt(s[k]) /\ s[k] \in Strs
<1>1. DOMAIN s = 1 .. Len(s) /\ Len(s) \in Nat /\ \A k \in 1 .. Len(s) : s[k] \in Strs
  BY LenProperties, ElementOfSeq DEF Env
<1>2. TextsOf(s) = [k \in 1 .. Len(s) |-> Txt(s[k])]
  BY <1>1 DEF TextsOf
<1>3. \A k \in 1 .. Len(s) : Txt(s[k]) \in Part
  BY <1>1, PartsOf
<1>. QED
  BY <1>1, <1>2, <1>3

\* Where the block has what: the arguments behind the first mark, then, if there
\* are any, the variables behind the second one and before an empty text.
LEMMA Blob ==
  ASSUME NEW av \in Env, NEW ev \in Env
  PROVE  LET b == BlobParts(av, ev)
             n == Len(av)
         IN /\ Len(b) = IF ev = <<>> THEN n + 1 ELSE n + Len(ev) + 3
            /\ \A k \in 1 .. n : b[k + 1] = Txt(av[k])
            /\ ev # <<>> => /\ b[n + 2].mark = "env" /\ b[n + Len(ev) + 3] = Txt(<<>>)
                            /\ \A k \in 1 .. Len(ev) : b[n + 2 + k] = Txt(ev[k])
<1> DEFINE b == BlobParts(av, ev)
           n == Len(av)
           m == Len(ev)
           first == <<Mark("argv")>>
           second == <<Mark("env")>>
           last == <<Txt(<<>>)>>
           ta == TextsOf(av)
           te == TextsOf(ev)
           h == first \o ta
           t == second \o te
           u == t \o last
<1>1. /\ first \in Seq(Part) /\ Len(first) = 1
      /\ second \in Seq(Part) /\ Len(second) = 1 /\ second[1].mark = "env"
      /\ last \in Seq(Part) /\ Len(last) = 1 /\ last[1] = Txt(<<>>)
  BY PartsOf
<1>2. /\ n \in Nat /\ m \in Nat /\ ta \in Seq(Part) /\ Len(ta) = n
      /\ te \in Seq(Part) /\ Len(te) = m
      /\ (\A k \in 1 .. n : ta[k] = Txt(av[k])) /\ (\A k \in 1 .. m : te[k] = Txt(ev[k]))
  BY Texts
<1>3. /\ b = h \o IF ev = <<>> THEN <<>> ELSE u
      /\ h = first \o ta /\ t = second \o te /\ u = t \o last
  BY DEF BlobParts
<1> HIDE DEF first, second, last, n, m, b, ta, te, h, t, u
<1>4. /\ h \in Seq(Part) /\ Len(h) = 1 + n
      /\ \A k \in 1 .. n : h[1 + k] = ta[k]
  <2>1. /\ (first \o ta) \in Seq(Part) /\ Len(first \o ta) = Len(first) + Len(ta)
        /\ \A k \in 1 .. Len(ta) : (first \o ta)[Len(first) + k] = ta[k]
    <3>1. first \in Seq(Part) /\ ta \in Seq(Part)
      BY <1>1, <1>2
    <3>. QED
      BY <3>1
  <2>. QED
    BY <1>1, <1>2, <1>3, <2>1
<1>5. /\ t \in Seq(Part) /\ Len(t) = 1 + m
      /\ \A k \in 1 .. 1 : t[k] = second[k]
      /\ \A k \in 1 .. m : t[1 + k] = te[k]
  <2>1. /\ (second \o te) \in Seq(Part) /\ Len(second \o te) = Len(second) + Len(te)
        /\ \A k \in 1 .. Len(second) : (second \o te)[k] = second[k]
        /\ \A k \in 1 .. Len(te) : (second \o te)[Len(second) + k] = te[k]
    <3>1. second \in Seq(Part) /\ te \in Seq(Part)
      BY <1>1, <1>2
    <3>. QED
      BY <3>1
  <2>. QED
    BY <1>1, <1>2, <1>3, <2>1
<1>6. /\ u \in Seq(Part) /\ Len(u) = (1 + m) + 1
      /\ \A k \in 1 .. 1 + m : u[k] = t[k]
      /\ \A k \in 1 .. 1 : u[(1 + m) + k] = last[k]
  <2>1. /\ (t \o last) \in Seq(Part) /\ Len(t \o last) = Len(t) + Len(last)
        /\ \A k \in 1 .. Len(t) : (t \o last)[k] = t[k]
        /\ \A k \in 1 .. Len(last) : (t \o last)[Len(t) + k] = last[k]
    <3>1. t \in Seq(Part) /\ last \in Seq(Part)
      BY <1>1, <1>5
    <3>. QED
      BY <3>1
  <2>. QED
    BY <1>1, <1>3, <1>5, <2>1
<1>7. /\ u[1].mark = "env" /\ u[m + 2] = Txt(<<>>)
      /\ \A k \in 1 .. m : u[1 + k] = Txt(ev[k])
  <2>1. 1 \in 1 .. 1 + m /\ 1 \in 1 .. 1 /\ (1 + m) + 1 = m + 2
    BY <1>2
  <2>2. u[1].mark = "env"
    BY <1>1, <1>5, <1>6, <2>1
  <2>3. u[(1 + m) + 1] = last[1]
    BY <1>6, <2>1
  <2>4. ASSUME NEW k \in 1 .. m
        PROVE  u[1 + k] = Txt(ev[k])
    <3>1. 1 + k \in 1 .. 1 + m
      BY <1>2
    <3>2. u[1 + k] = t[1 + k]
      BY <1>6, <3>1
    <3>. QED
      BY <1>2, <1>5, <3>2
  <2>. QED
    BY <1>1, <2>1, <2>2, <2>3, <2>4
<1>8. CASE ev = <<>>
  <2>1. b = h \o <<>>
    BY <1>3, <1>8
  <2>2. b = h
    BY <1>4, <2>1, ConcatEmptySeq
  <2>3. \A k \in 1 .. n : 1 + k = k + 1
    BY <1>2
  <2>4. \A k \in 1 .. n : b[k + 1] = Txt(av[k])
    BY <1>2, <1>4, <2>2, <2>3
  <2>5. Len(b) = n + 1
    BY <1>2, <1>4, <2>2
  <2>. QED
    BY <1>8, <2>4, <2>5 DEF b, n, m
<1>9. CASE ev # <<>>
  <2>1. b = h \o u
    BY <1>3, <1>9
  <2>2. /\ Len(b) = (1 + n) + ((1 + m) + 1)
        /\ \A k \in 1 .. 1 + n : b[k] = h[k]
        /\ \A k \in 1 .. (1 + m) + 1 : b[(1 + n) + k] = u[k]
    <3>1. /\ Len(h \o u) = Len(h) + Len(u)
          /\ \A k \in 1 .. Len(h) : (h \o u)[k] = h[k]
          /\ \A k \in 1 .. Len(u) : (h \o u)[Len(h) + k] = u[k]
      <4>1. h \in Seq(Part) /\ u \in Seq(Part)
        BY <1>4, <1>6
      <4>. QED
        BY <4>1
    <3>. QED
      BY <1>4, <1>6, <3>1, <2>1
  <2>3. ASSUME NEW k \in 1 .. n
        PROVE  b[k + 1] = Txt(av[k])
    <3>1. k + 1 \in 1 .. 1 + n /\ 1 + k = k + 1
      BY <1>2
    <3>2. b[k + 1] = h[k + 1]
      BY <2>2, <3>1
    <3>. QED
      BY <1>2, <1>4, <3>1, <3>2
  <2>4. b[n + 2].mark = "env"
    <3>1. 1 \in 1 .. (1 + m) + 1 /\ (1 + n) + 1 = n + 2
      BY <1>2
    <3>2. b[(1 + n) + 1] = u[1]
      BY <2>2, <3>1
    <3>. QED
      BY <1>7, <3>1, <3>2
  <2>5. b[n + m + 3] = Txt(<<>>)
    <3>1. m + 2 \in 1 .. (1 + m) + 1 /\ (1 + n) + (m + 2) = n + m + 3
      BY <1>2
    <3>2. b[(1 + n) + (m + 2)] = u[m + 2]
      BY <2>2, <3>1
    <3>. QED
      BY <1>7, <3>1, <3>2
  <2>6. ASSUME NEW k \in 1 .. m
        PROVE  b[n + 2 + k] = Txt(ev[k])
    <3>1. 1 + k \in 1 .. (1 + m) + 1 /\ (1 + n) + (1 + k) = n + 2 + k
      BY <1>2
    <3>2. b[(1 + n) + (1 + k)] = u[1 + k]
      BY <2>2, <3>1
    <3>. QED
      BY <1>7, <3>1, <3>2
  <2>7. Len(b) = n + m + 3
    BY <1>2, <2>2
  <2>. QED
    BY <1>9, <2>3, <2>4, <2>5, <2>6, <2>7 DEF b, n, m
<1>. QED
  BY <1>8, <1>9

\* The texts that the start code takes for the environment, if the mark is where it
\* looks for it, are a beginning of ev: all of it if no text is empty and there is room.
LEMMA TakenPart ==
  ASSUME NEW av \in Env, NEW ev \in Env, ev # <<>>
  PROVE  LET x == EnvTexts(BlobParts(av, ev), Len(av) + 3)
         IN /\ x \in Env /\ Len(x) <= Len(ev) /\ \A k \in 1 .. Len(x) : x[k] = ev[k]
            /\ Len(ev) <= EnvMax /\ (\A k \in 1 .. Len(ev) : ev[k] # <<>>) => Len(x) = Len(ev)
<1> DEFINE b == BlobParts(av, ev)
           n == Len(av)
           m == Len(ev)
           i == n + 3
           stops == {k \in i .. Len(b) : b[k].text = <<>>} \cup {Len(b) + 1}
           stop == CHOOSE k \in stops : \A j \in stops : k <= j
           c == IF stop - i < EnvMax THEN stop - i ELSE EnvMax
           x == [k \in 1 .. c |-> b[i + k - 1].text]
<1>1. /\ Len(b) = IF ev = <<>> THEN n + 1 ELSE n + m + 3
      /\ ev # <<>> => b[n + m + 3] = Txt(<<>>) /\ \A k \in 1 .. m : b[n + 2 + k] = Txt(ev[k])
  BY Blob
<1>2. n \in Nat /\ m \in Nat /\ EnvMax \in Nat /\ \A k \in 1 .. m : ev[k] \in Strs
  BY LenProperties, ElementOfSeq, EnvConstantsOK DEF Env
<1>3. EnvTexts(BlobParts(av, ev), Len(av) + 3) = x
  BY DEF EnvTexts
<1> HIDE DEF b, n, m
<1>4. Len(b) = n + m + 3 /\ b[n + m + 3].text = <<>>
  BY <1>1, PartsOf
<1>5. ASSUME NEW k \in 1 .. m
      PROVE  b[i + k - 1].text = ev[k]
  <2>1. n + 2 + k = i + k - 1
    BY <1>2
  <2>2. b[n + 2 + k] = Txt(ev[k])
    BY <1>1
  <2>. QED
    BY <1>2, <2>1, <2>2, PartsOf
<1>6. stops \subseteq Nat /\ n + m + 3 \in stops /\ \A k \in stops : k >= i
  BY <1>2, <1>4
<1> HIDE DEF stops
<1>7. stop \in stops /\ \A j \in stops : stop <= j
  <2>1. \E k \in stops : \A j \in stops : k <= j
    BY <1>6, LeastOf
  <2>. QED
    BY <2>1
<1> HIDE DEF stop
<1>8. stop \in Nat /\ stop >= i /\ stop <= n + m + 3
  BY <1>6, <1>7
<1>9. c \in Nat /\ c <= m
  BY <1>2, <1>8
<1>10. m <= EnvMax /\ (\A k \in 1 .. m : ev[k] # <<>>) => c = m
  <2> SUFFICES ASSUME m <= EnvMax, \A k \in 1 .. m : ev[k] # <<>>
               PROVE  c = m
    OBVIOUS
  <2>1. stop = n + m + 3
    <3> SUFFICES ASSUME stop < n + m + 3
                 PROVE  FALSE
      BY <1>2, <1>8
    <3>1. stop \in i .. Len(b) /\ b[stop].text = <<>>
      BY <1>2, <1>4, <1>7, <1>8 DEF stops
    <3> DEFINE k == stop - i + 1
    <3>2. k \in 1 .. m /\ i + k - 1 = stop
      BY <1>2, <1>8
    <3> HIDE DEF k, i
    <3>3. b[i + k - 1].text = ev[k]
      BY <1>5, <3>2
    <3>. QED
      BY <3>1, <3>2, <3>3
  <2>. QED
    BY <1>2, <2>1
<1>11. x \in Env /\ Len(x) = c /\ \A k \in 1 .. c : x[k] = ev[k]
  <2> HIDE DEF c, i
  <2>1. \A k \in 1 .. c : b[i + k - 1].text = ev[k] /\ ev[k] \in Strs
    BY <1>2, <1>5, <1>9
  <2> DEFINE y == [k \in 1 .. c |-> ev[k]]
  <2>2. x = y
    BY <2>1
  <2>3. y \in Seq(Strs) /\ Len(y) = c /\ \A k \in 1 .. c : y[k] = ev[k]
    BY <1>9, <2>1
  <2> HIDE DEF x, y
  <2>. QED
    BY <2>2, <2>3 DEF Env
<1> HIDE DEF x, c
<1>. QED
  BY <1>3, <1>9, <1>10, <1>11 DEF m

\* What the next program gets.
LEMMA Handed ==
  ASSUME NEW av \in Env, NEW ev \in Env
  PROVE  LET r == Parsed(BlobParts(av, ev), Len(av))
         IN /\ IF av = <<>> THEN r.argv = <<LibcArgv0>> ELSE IsPrefix(r.argv, av)
            /\ r.env \in Env /\ IsPrefix(r.env, ev)
            /\ Len(av) \in 1 .. ArgvMax /\ Len(ev) <= EnvMax /\ <<>> \notin ToSet(ev) => r.argv = av /\ r.env = ev
<1> DEFINE b == BlobParts(av, ev)
           n == IF Len(av) < ArgvMax THEN Len(av) ELSE ArgvMax
           r == Parsed(b, Len(av))
           xs == [k \in 1 .. n |-> b[k + 1].text]
           es == IF Len(av) > 0 /\ EnvFollows(b, n) THEN EnvTexts(b, n + 3) ELSE <<>>
<1>1. /\ Len(b) = IF ev = <<>> THEN Len(av) + 1 ELSE Len(av) + Len(ev) + 3
      /\ \A k \in 1 .. Len(av) : b[k + 1] = Txt(av[k])
      /\ ev # <<>> => b[Len(av) + 2].mark = "env"
  BY Blob
<1>2. /\ Len(av) \in Nat /\ Len(ev) \in Nat /\ ArgvMax \in Nat /\ EnvMax \in Nat /\ DOMAIN ev = 1 .. Len(ev)
      /\ \A k \in 1 .. Len(av) : av[k] \in Strs
  BY LenProperties, ElementOfSeq, EnvConstantsOK DEF Env
<1>3. r.argv = (IF Len(av) = 0 THEN <<LibcArgv0>> ELSE xs) /\ r.env = es
  BY DEF Parsed
<1> HIDE DEF b, r
<1>4. xs \in Env /\ Len(xs) = n /\ n \in Nat /\ n <= Len(av) /\ \A k \in 1 .. n : xs[k] = av[k]
  <2>1. n \in Nat /\ n <= Len(av)
    BY <1>2
  <2> HIDE DEF n
  <2>2. \A k \in 1 .. n : b[k + 1].text = av[k] /\ av[k] \in Strs
    BY <1>1, <1>2, <2>1, PartsOf
  <2> DEFINE y == [k \in 1 .. n |-> av[k]]
  <2>3. xs = y
    BY <2>2
  <2>4. y \in Seq(Strs) /\ Len(y) = n /\ \A k \in 1 .. n : y[k] = av[k]
    BY <2>1, <2>2
  <2> HIDE DEF xs, y
  <2>. QED
    BY <2>1, <2>3, <2>4 DEF Env
<1> HIDE DEF xs
<1>5. IsPrefix(xs, av)
  BY <1>4, PrefixOf DEF Env
<1>6. Len(av) <= ArgvMax => xs = av
  <2> SUFFICES ASSUME Len(av) <= ArgvMax
               PROVE  xs = av
    OBVIOUS
  <2>1. n = Len(av)
    BY <1>2
  <2> HIDE DEF n
  <2>2. xs \in Seq(Strs) /\ av \in Seq(Strs) /\ Len(xs) = Len(av) /\ \A k \in 1 .. Len(xs) : xs[k] = av[k]
    BY <1>4, <2>1 DEF Env
  <2>. QED
    BY <2>2, SeqEqual
<1>7. Len(av) > 0 /\ EnvFollows(b, n) => n = Len(av) /\ ev # <<>>
  <2> SUFFICES ASSUME EnvFollows(b, n)
               PROVE  n = Len(av) /\ ev # <<>>
    OBVIOUS
  <2>0. Len(b) > n + 1 /\ b[n + 2].mark = "env"
    BY DEF EnvFollows
  <2> HIDE DEF n
  <2>1. n = Len(av)
    <3> SUFFICES ASSUME n < Len(av)
                 PROVE  FALSE
      BY <1>2, <1>4
    <3>1. n + 1 \in 1 .. Len(av) /\ (n + 1) + 1 = n + 2
      BY <1>2, <1>4
    <3>2. b[(n + 1) + 1] = Txt(av[n + 1]) /\ av[n + 1] \in Strs
      BY <1>1, <1>2, <3>1
    <3>3. Txt(av[n + 1]).mark = "none"
      BY <3>2, PartsOf
    <3>. QED
      BY <2>0, <3>1, <3>2, <3>3
  <2>2. ev # <<>>
    BY <1>1, <1>2, <2>0, <2>1
  <2>. QED
    BY <2>1, <2>2
<1>8. /\ es \in Env /\ Len(es) <= Len(ev) /\ \A k \in 1 .. Len(es) : es[k] = ev[k]
      /\ Len(av) \in 1 .. ArgvMax /\ Len(ev) <= EnvMax /\ <<>> \notin ToSet(ev) => Len(es) = Len(ev)
  <2>1. CASE Len(av) > 0 /\ EnvFollows(b, n)
    <3>1. n = Len(av) /\ ev # <<>>
      BY <1>7, <2>1
    <3> DEFINE x == EnvTexts(b, Len(av) + 3)
    <3>2. /\ x \in Env /\ Len(x) <= Len(ev) /\ \A k \in 1 .. Len(x) : x[k] = ev[k]
          /\ Len(ev) <= EnvMax /\ (\A k \in 1 .. Len(ev) : ev[k] # <<>>) => Len(x) = Len(ev)
      BY <3>1, TakenPart DEF b
    <3>3. es = x
      BY <2>1, <3>1
    <3>4. <<>> \notin ToSet(ev) => \A k \in 1 .. Len(ev) : ev[k] # <<>>
      BY <1>2 DEF ToSet
    <3> HIDE DEF x, es
    <3>. QED
      BY <3>2, <3>3, <3>4
  <2>2. CASE ~(Len(av) > 0 /\ EnvFollows(b, n))
    <3>1. es = <<>>
      BY <2>2
    <3>2. Len(av) \in 1 .. ArgvMax => Len(ev) = 0
      <4> SUFFICES ASSUME Len(av) \in 1 .. ArgvMax, ev # <<>>
                   PROVE  FALSE
        BY EmptySeq
      <4>1. n = Len(av) /\ Len(av) > 0
        BY <1>2
      <4>2. Len(b) > n + 1 /\ b[n + 2].mark = "env"
        BY <1>1, <1>2, <4>1
      <4> HIDE DEF n
      <4>. QED
        BY <2>2, <4>1, <4>2 DEF EnvFollows
    <3>3. <<>> \in Env /\ Len(<<>>) = 0
      BY EmptySeq DEF Env
    <3> HIDE DEF es
    <3>. QED
      BY <1>2, <3>1, <3>2, <3>3
  <2>. QED
    BY <2>1, <2>2
<1> HIDE DEF es, n
<1>9. IsPrefix(es, ev)
  BY <1>8, PrefixOf DEF Env
<1>10. Len(es) = Len(ev) => es = ev
  BY <1>8, SeqEqual DEF Env
<1>11. av = <<>> <=> Len(av) = 0
  BY EmptySeq DEF Env
<1>12. r.argv = (IF av = <<>> THEN <<LibcArgv0>> ELSE xs)
  BY <1>3, <1>11
<1>13. Len(av) \in 1 .. ArgvMax => av # <<>> /\ Len(av) <= ArgvMax
  BY <1>2, <1>11
<1>. QED
  <2>1. IF av = <<>> THEN r.argv = <<LibcArgv0>> ELSE IsPrefix(r.argv, av)
    BY <1>5, <1>12
  <2>2. r.env \in Env /\ IsPrefix(r.env, ev)
    BY <1>3, <1>8, <1>9
  <2>3. Len(av) \in 1 .. ArgvMax /\ Len(ev) <= EnvMax /\ <<>> \notin ToSet(ev) => r.argv = av /\ r.env = ev
    BY <1>3, <1>6, <1>8, <1>10, <1>12, <1>13
  <2>. QED
    BY <2>1, <2>2, <2>3 DEF r, b

LEMMA PrefixOnce ==
  ASSUME NEW e \in Env, NEW f \in Env, IsPrefix(f, e), Once(e)
  PROVE  Once(f)
<1>1. /\ Len(f) <= Len(e) /\ \A i \in 1 .. Len(f) : f[i] = e[i]
  BY PrefixOf DEF Env
<1>2. DOMAIN e = 1 .. Len(e) /\ DOMAIN f = 1 .. Len(f) /\ Len(e) \in Nat /\ Len(f) \in Nat
  BY LenProperties DEF Env
<1>3. \A i \in DOMAIN f : i \in DOMAIN e /\ f[i] = e[i]
  BY <1>1, <1>2
<1>. QED
  BY <1>3 DEF Once

LEMMA ExecKeeps ==
  ASSUME EnvInv, NEW av \in Argv, NEW ev \in Env, Once(ev), Execve(av, ev)
  PROVE  EnvInv'
<1>1. CASE ~Fits(av, ev)
  <2>1. UNCHANGED <<environ, cap, means>>
    BY <1>1 DEF Execve
  <2>. QED
    BY <2>1 DEF EnvInv, EnvFits, Once, Meaning, EnvFind, Getenv
<1>2. CASE Fits(av, ev)
  <2> DEFINE r == Parsed(BlobParts(av, ev), Len(av))
             e == r.env
  <2>1. environ' = e /\ cap' = 0 /\ means' = Meaning(e)
    BY <1>2 DEF Execve
  <2>2. av \in Env
    BY EnvConstantsOK DEF Env, Strs
  <2>3. e \in Env /\ IsPrefix(e, ev)
    BY <2>2, Handed
  <2> HIDE DEF e
  <2>4. Once(e)
    BY <2>3, PrefixOnce
  <2>5. Meaning(environ)' = Meaning(e) /\ Once(environ)' /\ environ' \in Env
    BY <2>1, <2>3, <2>4 DEF Meaning, EnvFind, Getenv, Once
  <2>. QED
    BY <2>1, <2>5 DEF EnvInv, EnvFits
<1>. QED
  BY <1>1, <1>2

LEMMA StartsOnce == \A ev \in Start : ev \in Env /\ Once(ev)
BY EnvConstantsOK, Counted DEF Env, Strs

LEMMA EnvStep == EnvInv /\ [EnvNext]_envVars => EnvInv'
<1> SUFFICES ASSUME EnvInv, [EnvNext]_envVars PROVE EnvInv'
  OBVIOUS
<1>1. ASSUME NEW n \in EnvName, NEW v \in EnvValue,
             Putenv(n, v) \/ \E o \in BOOLEAN : Setenv(n, v, o)
      PROVE  EnvInv'
  <2>1. CASE OutOfMemory
    BY <2>1, MemoryKeeps
  <2>2. CASE cap' = Owned /\ UNCHANGED <<environ, argv, means, handed>>
    <3>1. OutOfMemory
      BY <2>2 DEF OutOfMemory
    <3>. QED
      BY <3>1, MemoryKeeps
  <2>3. CASE Enter(n, EntryOf(n, v)) /\ means' = [means EXCEPT ![n] = Set(v)]
    BY <2>3, EnterKeeps
  <2>. QED
    BY <1>1, <2>1, <2>2, <2>3 DEF Putenv, Setenv
<1>2. ASSUME NEW n \in EnvName, Unsetenv(n)
      PROVE  EnvInv'
  <2>1. CASE OutOfMemory
    BY <2>1, MemoryKeeps
  <2>2. CASE ~OutOfMemory
    BY <1>2, <2>2, UnsetKeeps DEF Unsetenv
  <2>. QED
    BY <2>1, <2>2
<1>3. ASSUME NEW av \in Argv, Execve(av, environ) \/ \E ev \in Start : Execve(av, ev)
      PROVE  EnvInv'
  <2>1. environ \in Env /\ Once(environ)
    BY DEF EnvInv
  <2>2. PICK ev \in Env : Once(ev) /\ Execve(av, ev)
    BY <1>3, <2>1, StartsOnce
  <2>. QED
    BY <2>2, ExecKeeps
<1>4. CASE UNCHANGED envVars
  BY <1>4 DEF envVars, EnvInv, EnvFits, Once, Meaning, EnvFind, Getenv
<1>. QED
  BY <1>1, <1>2, <1>3, <1>4 DEF EnvNext

\* The inductive invariant of the environment (rc_env.c).
THEOREM EnvHolds == EnvSpec => []EnvInv
<1>1. EnvInit => EnvInv
  BY BeginsEnv
<1>2. EnvInv /\ [EnvNext]_envVars => EnvInv'
  BY EnvStep
<1>. QED
  BY <1>1, <1>2, PTL DEF EnvSpec

\* environ is a map that getenv, setenv, unsetenv and putenv read and change as
\* one, allocations that fail half-way and exec included, in an array with room
\* for it (rc_env.c).
THEOREM EnvIsAMap == EnvSpec => []EnvAgrees
<1>1. EnvInv => EnvAgrees
  BY MapHolds
<1>. QED
  BY <1>1, EnvHolds, PTL

LEMMA HandsOver ==
  ASSUME EnvInv, [EnvNext]_envVars, handed' # handed, handed'.ok
  PROVE  LET av == handed'.argv
             ev == handed'.env
         IN /\ IF av = <<>> THEN argv' = <<LibcArgv0>> ELSE IsPrefix(argv', av)
            /\ IsPrefix(environ', ev)
            /\ Len(av) \in 1 .. ArgvMax /\ Len(ev) <= EnvMax /\ <<>> \notin ToSet(ev) =>
                 argv' = av /\ environ' = ev
<1>1. PICK av \in Argv, ev \in Env : Execve(av, ev)
  <2>1. environ \in Env
    BY DEF EnvInv
  <2>. QED
    BY <2>1, StartsOnce DEF EnvNext, envVars, Putenv, Setenv, Unsetenv, OutOfMemory
<1>2. av \in Env
  BY EnvConstantsOK DEF Env, Strs
<1> DEFINE r == Parsed(BlobParts(av, ev), Len(av))
<1>3. environ' = r.env /\ argv' = r.argv /\ handed' = [ok |-> TRUE, argv |-> av, env |-> ev]
  BY <1>1 DEF Execve
<1>4. handed'.argv = av /\ handed'.env = ev
  BY <1>3
<1>5. /\ IF av = <<>> THEN r.argv = <<LibcArgv0>> ELSE IsPrefix(r.argv, av)
      /\ IsPrefix(r.env, ev)
      /\ Len(av) \in 1 .. ArgvMax /\ Len(ev) <= EnvMax /\ <<>> \notin ToSet(ev) => r.argv = av /\ r.env = ev
  BY <1>2, Handed
<1> HIDE DEF r
<1>. QED
  BY <1>3, <1>4, <1>5

\* What exec hands over is what the next program starts with, or a beginning of it
\* where the start code has no room for more; no argument becomes a variable
\* (execve, __libc_start).
THEOREM ExecKeepsOrder == EnvSpec => ExecHandsOver
<1> DEFINE A == handed' # handed /\ handed'.ok =>
       LET av == handed'.argv
           ev == handed'.env
       IN /\ IF av = <<>> THEN argv' = <<LibcArgv0>> ELSE IsPrefix(argv', av)
          /\ IsPrefix(environ', ev)
          /\ Len(av) \in 1 .. ArgvMax /\ Len(ev) <= EnvMax /\ <<>> \notin ToSet(ev) =>
               argv' = av /\ environ' = ev
<1>1. EnvInv /\ [EnvNext]_envVars => [A]_envVars
  BY HandsOver
<1>. QED
  BY <1>1, EnvHolds, PTL DEF EnvSpec, ExecHandsOver
-----------------------------------------------------------------------------
(* Sockets: what conversations, descriptors and calls are made of.           *)

Dgram == [who : Proc \cup {0}, name : Name \cup {"none"}, kind : {"addr", "error", "noaddr", "none", "byte"}]
Query == [port : Nat \cup Port, who : Proc, name : Name]
ConvRec ==
  [st : {"free", "open", "connected", "announced", "closed", "reset"}, proto : {"tcp", "udp"},
   owner : Proc \cup {0}, lport : Nat \cup Port, peer : {"none", "host", "dns"}, headers : BOOLEAN,
   q : Seq(Dgram),
   tcb : {"none", "listen", "synsent", "synrcvd", "est", "cwait", "fin", "last", "twait", "closed"},
   aq : Seq(Conv), slen : Int, wfin : BOOLEAN, fin : BOOLEAN, up : BOOLEAN, handed : BOOLEAN, gen : Nat]
NetFd ==
  [kind : {"net"}, conv : Conv, tcp : BOOLEAN, gen : Nat, headers : BOOLEAN, port : Port \cup {0}, copied : BOOLEAN]
InHangup == [fn : {"hangup"}, conv : Conv, tcp : BOOLEAN, gen : Nat]
InConnect == [fn : {"connect"}, conv : Conv, tcp : BOOLEAN, gen : Nat, n : Nat]
InRead == [fn : {"accept", "recv"}, conv : Conv, tcp : BOOLEAN, gen : Nat, parked : BOOLEAN]
InSend == [fn : {"send"}, conv : Conv, tcp : BOOLEAN, gen : Nat, left : Nat, done : Nat, took : Nat]
InDns ==
  [fn : {"dns"}, name : Name, f : Fd, conv : Conv, tcp : {FALSE}, gen : Nat,
   step : {"connect", "write", "read", "close"}, n : Nat, parked : BOOLEAN, got : Name \cup {"none"}]
InCall == InHangup \cup InConnect \cup InRead \cup InSend \cup InDns
Code == {"ok", "ECONNREFUSED", "ETIMEDOUT", "ENFILE", "EINVAL", "EMFILE", "data", "eof", "err"}
Result ==
  {Idle} \cup [fn : {"exit"}] \cup [fn : {"socket", "recv", "accept", "fd"}, k : Code] \cup [fn : {"fd"}, f : Fd]
  \cup [fn : {"connect"}, k : Code, dial : {FALSE}] \cup [fn : {"connect"}, k : Code, dial : {TRUE}, up : BOOLEAN]
  \cup [fn : {"send"}, n : Int, took : Nat] \cup [fn : {"dns"}, asked : Name, got : Name \cup {"none"}]
Slots == [Fd -> {Closed} \cup NetFd]
ProcRec == [live : BOOLEAN, fd : Slots, pc : InCall \cup {Idle}, ret : Result]

ConvOK(c) ==
  /\ Len(c.q) <= Buf /\ Len(c.aq) <= AcceptQ /\ c.slen \in 0 .. Buf
  /\ c.st # "free" => c.owner \in Proc
  /\ c.proto = "udp" \/ c.st \in {"free", "closed", "reset"} => c.tcb = "none"
  /\ c.tcb \in {"est", "cwait", "fin", "last", "twait"} => c.up
  /\ c.proto = "tcp" => ~c.headers

\* A send has counted what ipd took; results are true.
CallOK(x) ==
  /\ x.pc.fn = "send" => x.pc.done = x.pc.took
  /\ x.ret.fn = "send" => x.ret.n = x.ret.took \/ (x.ret.n = -1 /\ x.ret.took = 0)
  /\ x.ret.fn = "connect" /\ x.ret.dial /\ x.ret.k = "ok" => x.ret.up
\* A call works on a conversation that a descriptor of its process names.
HasFd(x) ==
  /\ x.pc.fn \in {"accept", "recv", "send", "connect"} =>
       \E f \in Fd : x.fd[f].kind = "net" /\ SameUse(x.fd[f], x.pc)
  /\ x.pc.fn = "dns" => /\ x.fd[x.pc.f].kind = "net" /\ SameUse(x.fd[x.pc.f], x.pc) /\ ~x.fd[x.pc.f].copied
SocketType ==
  /\ conv \in [Conv -> ConvRec] /\ \A i \in Conv : ConvOK(conv[i])
  /\ proc \in [Proc -> ProcRec] /\ \A p \in Proc : CallOK(proc[p]) /\ HasFd(proc[p])
  /\ eph \in Nat /\ queries \subseteq Query /\ ops \in 0 .. MaxOps /\ strayed \in BOOLEAN

\* A process that is not there has nothing, and before it was there it owned nothing.
NotThere ==
  \A p \in Proc : ~proc[p].live =>
    /\ proc[p].pc = Idle /\ \A f \in Fd : proc[p].fd[f] = Closed
    /\ proc[p].ret.fn = "none" => \A i \in Conv : conv[i].st # "free" => conv[i].owner # p

\* x names the use that its conversation's number has now.
Current(x) == x.gen = conv[x.conv].gen
NameOK(x) ==
  /\ x.gen <= conv[x.conv].gen
  /\ Current(x) => x.tcp = (conv[x.conv].proto = "tcp") /\ conv[x.conv].handed
Named ==
  \A p \in Proc : (\A f \in Fd : IsSocket(p, f) => NameOK(proc[p].fd[f])) /\ (proc[p].pc.fn # "none" => NameOK(proc[p].pc))

\* The owner of a conversation that was handed out has a descriptor for it, or
\* is about to hang it up.
Keeps(p, i) ==
  \/ \E f \in Fd : IsSocket(p, f) /\ proc[p].fd[f].conv = i /\ Current(proc[p].fd[f])
  \/ proc[p].pc.fn = "hangup" /\ proc[p].pc.conv = i /\ Current(proc[p].pc)
Kept == \A i \in Conv : conv[i].st # "free" /\ conv[i].handed /\ proc[conv[i].owner].live => Keeps(conv[i].owner, i)

\* While no call has strayed: a conversation in an accept queue was not handed
\* out and is in no other place of a queue.
Queues(l) == conv[l].tcb = "listen"
Queued ==
  /\ \A l \in Conv : Queues(l) =>
       /\ conv[l].handed
       /\ \A k \in DOMAIN conv[l].aq : LET c == conv[conv[l].aq[k]] IN c.st # "free" /\ ~c.handed /\ c.owner = conv[l].owner
  /\ \A l, m \in Conv : Queues(l) /\ Queues(m) =>
       \A k \in DOMAIN conv[l].aq, n \in DOMAIN conv[m].aq : conv[l].aq[k] = conv[m].aq[n] => l = m /\ k = n
\* ... descriptors that name one use are copies, and none names what is about
\* to be hung up.
Single ==
  /\ \A p, r \in Proc, f, g \in Fd :
       <<p, f>> # <<r, g>> /\ IsSocket(p, f) /\ IsSocket(r, g) /\ SameUse(proc[p].fd[f], proc[r].fd[g]) =>
         proc[p].fd[f].copied
  /\ \A p, r \in Proc, f \in Fd : proc[r].pc.fn = "hangup" /\ IsSocket(p, f) => ~SameUse(proc[p].fd[f], proc[r].pc)
HeadersTrue ==
  \A p \in Proc, f \in Fd : IsSocket(p, f) /\ ~proc[p].fd[f].copied /\ Current(proc[p].fd[f]) =>
    proc[p].fd[f].headers = conv[proc[p].fd[f].conv].headers
\* ... and a lookup has its conversation to itself, at a port that no earlier
\* lookup had.
Ephemeral == 1000 .. 999 + eph
Lookup(p) ==
  LET x == proc[p].pc
      c == conv[x.conv]
  IN /\ Current(x) /\ c.st # "free" /\ c.owner = p
     /\ IF x.step = "connect" THEN c.lport = 0 ELSE c.lport \in Ephemeral
     /\ \A m \in queries : m.port = c.lport /\ m.who = p => m.name = x.name
     /\ \A j \in 1 .. Len(c.q) : c.q[j].who = p => c.q[j].name = x.name
     /\ x.got \in {"none", x.name}
Lookups ==
  /\ \A m \in queries : m.port \in Ephemeral
  /\ \A p \in Proc : proc[p].pc.fn = "dns" => Lookup(p)
  /\ \A p \in Proc : proc[p].ret.fn = "dns" => proc[p].ret.got \in {"none", proc[p].ret.asked}

SocketInv ==
  /\ SocketType /\ NotThere /\ Named /\ Kept
  /\ strayed \/ (Queued /\ Single /\ HeadersTrue /\ Lookups)
LEMMA SocketConstants ==
  /\ NConv \in Nat /\ NFd \in Nat /\ NPend \in Nat /\ AcceptQ \in Nat /\ Buf \in Nat /\ Polls \in Nat
  /\ Attempts \in Nat /\ MaxOps \in Nat /\ First \in Proc /\ 0 \notin Proc /\ 0 \notin Port
  /\ Conv \subseteq Nat /\ Fd \subseteq Nat
  BY ConstantsOK DEF Conv, Fd

\* The entries of a queue at some places.
LEMMA EntriesOf ==
  ASSUME NEW T, NEW s \in Seq(T), NEW S \in SUBSET DOMAIN s
  PROVE  /\ Entries(s, S) \in Seq(T) /\ Len(Entries(s, S)) <= Len(s)
         /\ \E g \in [DOMAIN Entries(s, S) -> S] :
              /\ \A n \in DOMAIN Entries(s, S) : Entries(s, S)[n] = s[g[n]]
              /\ \A n, m \in DOMAIN Entries(s, S) : g[n] = g[m] => n = m
<1> DEFINE N == Cardinality(S)
           R(k) == {j \in S : j <= k}
           P(n) == CHOOSE k \in S : Cardinality(R(k)) = n
           r == [k \in S |-> Cardinality(R(k))]
<1>1. /\ Len(s) \in Nat /\ DOMAIN s = 1 .. Len(s) /\ \A n \in DOMAIN s : s[n] \in T
  BY LenProperties, ElementOfSeq
<1>2. IsFiniteSet(DOMAIN s) /\ Cardinality(DOMAIN s) = Len(s)
  <2>1. 1 \in Int /\ Len(s) \in Int
    BY <1>1
  <2>2. IsFiniteSet(1 .. Len(s)) /\ Cardinality(1 .. Len(s)) = IF 1 > Len(s) THEN 0 ELSE Len(s) - 1 + 1
    BY <2>1, FS_Interval
  <2>. QED
    BY <1>1, <2>2
<1>3. IsFiniteSet(S) /\ N <= Len(s) /\ N \in Nat
  BY <1>2, FS_Subset, FS_CardinalityType
<1>4. ASSUME NEW k \in S
      PROVE  Cardinality(R(k)) \in 1 .. N /\ IsFiniteSet(R(k))
  <2>1. IsFiniteSet(R(k)) /\ Cardinality(R(k)) <= N
    BY <1>3, FS_Subset
  <2>2. k \in R(k)
    BY <1>1
  <2>3. Cardinality(R(k)) \in Nat /\ Cardinality(R(k)) # 0
    BY <2>1, <2>2, FS_CardinalityType, FS_EmptySet
  <2>. QED
    BY <1>3, <2>1, <2>3
<1>5. ASSUME NEW j \in S, NEW k \in S, j < k
      PROVE  Cardinality(R(j)) # Cardinality(R(k))
  <2>1. R(j) \in SUBSET R(k) /\ k \in R(k) /\ k \notin R(j)
    BY <1>1, <1>5
  <2>2. IsFiniteSet(R(k))
    BY <1>4
  <2>. QED
    BY <2>1, <2>2, FS_Subset
<1>6. r \in Injection(S, 1 .. N)
  <2>1. r \in [S -> 1 .. N]
    BY <1>4
  <2>2. ASSUME NEW j \in S, NEW k \in S, r[j] = r[k]
        PROVE  j = k
    <3>1. j \in Nat /\ k \in Nat
      BY <1>1
    <3>2. Cardinality(R(j)) = Cardinality(R(k))
      BY <2>2
    <3>3. ~(j < k) /\ ~(k < j)
      BY <1>5, <3>2
    <3>. QED
      BY <3>1, <3>3
  <2>. QED
    BY <2>1, <2>2 DEF Injection, IsInjective
<1>7. IsFiniteSet(1 .. N) /\ Cardinality(1 .. N) = N
  BY <1>3, FS_Interval
<1>8. r \in Surjection(S, 1 .. N)
  BY <1>3, <1>6, <1>7, FS_Injection
<1>9. ASSUME NEW n \in 1 .. N
      PROVE  P(n) \in S /\ Cardinality(R(P(n))) = n
  <2>1. \E k \in S : r[k] = n
    BY <1>8 DEF Surjection
  <2>2. \E k \in S : Cardinality(R(k)) = n
    BY <2>1
  <2>. QED
    BY <2>2
<1>10. Entries(s, S) = [n \in 1 .. N |-> s[P(n)]]
  BY DEF Entries
<1>11. DOMAIN Entries(s, S) = 1 .. N /\ \A n \in 1 .. N : Entries(s, S)[n] = s[P(n)] /\ Entries(s, S)[n] \in T
  BY <1>1, <1>9, <1>10
<1> HIDE DEF P, R, N, r
<1>12. Entries(s, S) \in Seq(T) /\ Len(Entries(s, S)) = N
  <2>1. \A n \in 1 .. N : s[P(n)] \in T
    BY <1>1, <1>9
  <2> DEFINE e == [n \in 1 .. N |-> s[P(n)]]
  <2>2. e \in [1 .. N -> T]
    BY <2>1
  <2> HIDE DEF e
  <2>3. e \in Seq(T) /\ Len(e) = N
    BY <1>3, <2>2
  <2>. QED
    BY <1>10, <2>3 DEF e
<1>13. \E g \in [DOMAIN Entries(s, S) -> S] :
         /\ \A n \in DOMAIN Entries(s, S) : Entries(s, S)[n] = s[g[n]]
         /\ \A n, m \in DOMAIN Entries(s, S) : g[n] = g[m] => n = m
  <2> DEFINE g == [n \in 1 .. N |-> P(n)]
  <2>1. g \in [1 .. N -> S] /\ \A n \in 1 .. N : g[n] = P(n)
    BY <1>9
  <2>2. \A n \in 1 .. N : Cardinality(R(g[n])) = n
    BY <1>9, <2>1
  <2> HIDE DEF g
  <2>3. \A n, m \in 1 .. N : g[n] = g[m] => n = m
    BY <2>2
  <2>. QED
    <3> DEFINE D == DOMAIN Entries(s, S)
    <3>1. D = 1 .. N
      BY <1>11
    <3>2. g \in [D -> S] /\ (\A n \in D : Entries(s, S)[n] = s[g[n]]) /\ \A n, m \in D : g[n] = g[m] => n = m
      BY <1>11, <2>1, <2>3, <3>1
    <3> HIDE DEF D
    <3>3. \E h \in [D -> S] : (\A n \in D : Entries(s, S)[n] = s[h[n]]) /\ \A n, m \in D : h[n] = h[m] => n = m
      BY <3>2
    <3>. QED
      BY <3>3 DEF D
<1>. QED
  BY <1>3, <1>12, <1>13

\* t is left of queue s, in any order.
Within(t, s) ==
  \E g \in [DOMAIN t -> DOMAIN s] : /\ \A n \in DOMAIN t : t[n] = s[g[n]]
                                    /\ \A n, m \in DOMAIN t : g[n] = g[m] => n = m

LEMMA WithinSelf == ASSUME NEW s PROVE Within(s, s)
<1> DEFINE g == [n \in DOMAIN s |-> n]
<1>1. g \in [DOMAIN s -> DOMAIN s] /\ \A n \in DOMAIN s : g[n] = n
  OBVIOUS
<1> HIDE DEF g
<1>. QED
  BY <1>1 DEF Within

LEMMA EntriesWithin ==
  ASSUME NEW T, NEW s \in Seq(T), NEW S \in SUBSET DOMAIN s
  PROVE  Entries(s, S) \in Seq(T) /\ Len(Entries(s, S)) <= Len(s) /\ Within(Entries(s, S), s)
<1>1. PICK g \in [DOMAIN Entries(s, S) -> S] :
        /\ \A n \in DOMAIN Entries(s, S) : Entries(s, S)[n] = s[g[n]]
        /\ \A n, m \in DOMAIN Entries(s, S) : g[n] = g[m] => n = m
  BY EntriesOf
<1>2. g \in [DOMAIN Entries(s, S) -> DOMAIN s]
  OBVIOUS
<1>. QED
  BY <1>1, <1>2, EntriesOf DEF Within

LEMMA FreeConvOf == ASSUME FreeConvs # {} PROVE LowestFree \in Conv /\ conv[LowestFree].st = "free"
<1>1. FreeConvs \subseteq Nat
  BY SocketConstants DEF FreeConvs
<1>2. \E i \in FreeConvs : \A j \in FreeConvs : i <= j
  BY <1>1, LeastOf
<1>3. LowestFree \in FreeConvs
  BY <1>2 DEF LowestFree
<1>. QED
  BY <1>3 DEF FreeConvs
-----------------------------------------------------------------------------
(* Steps that hand out, take back and hang up nothing.                       *)

\* e is the same use of a number as c.
Alike(c, e) ==
  /\ e.owner = c.owner /\ e.handed = c.handed /\ e.gen = c.gen /\ e.proto = c.proto
  /\ (e.st = "free") = (c.st = "free")
\* A listener's queue loses entries or is new.
Lines(c, e) == e.tcb = "listen" => (c.tcb = "listen" /\ Within(e.aq, c.aq)) \/ (e.aq = <<>> /\ c.handed)
\* y's descriptors name what x's do.
SameSlots(x, y) ==
  \A f \in Fd :
    /\ (y.fd[f].kind = "net") = (x.fd[f].kind = "net")
    /\ x.fd[f].kind = "net" =>
         SameUse(y.fd[f], x.fd[f]) /\ y.fd[f].tcp = x.fd[f].tcp /\ y.fd[f].copied = x.fd[f].copied
Onward(x, y) ==
  /\ y.live = x.live /\ (x.live \/ y = x) /\ SameSlots(x, y)
  /\ (y.pc.fn = "hangup") = (x.pc.fn = "hangup") /\ (x.pc.fn = "hangup" => y.pc = x.pc)
  /\ y.pc.fn # "none" =>
       \/ \E f \in Fd : x.fd[f].kind = "net" /\ SameUse(y.pc, x.fd[f]) /\ y.pc.tcp = x.fd[f].tcp
       \/ x.pc.fn # "none" /\ SameUse(y.pc, x.pc) /\ y.pc.tcp = x.pc.tcp
CountersOK ==
  /\ eph' \in Nat /\ queries' \subseteq Query /\ ops' \in 0 .. MaxOps /\ strayed' \in BOOLEAN
  /\ strayed => strayed'
SocketType1 ==
  /\ conv' \in [Conv -> ConvRec] /\ \A i \in Conv : ConvOK(conv'[i])
  /\ proc' \in [Proc -> ProcRec] /\ \A p \in Proc : CallOK(proc'[p]) /\ HasFd(proc'[p])
  /\ CountersOK

LEMMA CallOf ==
  ASSUME NEW x \in ProcRec
  PROVE  /\ x.fd \in Slots /\ \A f \in Fd : x.fd[f].kind = "net" => x.fd[f] \in NetFd
         /\ x.pc.fn = "hangup" => x.pc \in InHangup
         /\ x.pc.fn = "connect" => x.pc \in InConnect
         /\ x.pc.fn \in {"accept", "recv"} => x.pc \in InRead
         /\ x.pc.fn = "send" => x.pc \in InSend
         /\ x.pc.fn = "dns" => x.pc \in InDns
         /\ x.pc.fn = "none" => x.pc = Idle
         /\ x.pc.fn # "none" => x.pc.conv \in Conv /\ x.pc.gen \in Nat /\ x.pc.tcp \in BOOLEAN
<1>1. x.fd \in Slots /\ x.pc \in InCall \cup {Idle}
  BY DEF ProcRec
<1>2. \A f \in Fd : x.fd[f].kind = "net" => x.fd[f] \in NetFd
  <2> SUFFICES ASSUME NEW f \in Fd, x.fd[f].kind = "net" PROVE x.fd[f] \in NetFd
    OBVIOUS
  <2>1. x.fd[f] \in {Closed} \cup NetFd
    BY <1>1 DEF Slots
  <2>. QED
    BY <2>1 DEF Closed
<1> DEFINE c == x.pc
<1>3. c = Idle \/ c \in InHangup \/ c \in InConnect \/ c \in InRead \/ c \in InSend \/ c \in InDns
  BY <1>1 DEF InCall
<1> HIDE DEF c
<1>4. /\ c = Idle => c.fn = "none"
      /\ c \in InHangup => c.fn = "hangup" /\ c.conv \in Conv /\ c.gen \in Nat /\ c.tcp \in BOOLEAN
      /\ c \in InConnect => c.fn = "connect" /\ c.conv \in Conv /\ c.gen \in Nat /\ c.tcp \in BOOLEAN
      /\ c \in InRead => c.fn \in {"accept", "recv"} /\ c.conv \in Conv /\ c.gen \in Nat /\ c.tcp \in BOOLEAN
      /\ c \in InSend => c.fn = "send" /\ c.conv \in Conv /\ c.gen \in Nat /\ c.tcp \in BOOLEAN
      /\ c \in InDns => c.fn = "dns" /\ c.conv \in Conv /\ c.gen \in Nat /\ c.tcp \in BOOLEAN
  <2>0. c = Idle => c.fn = "none"
    BY DEF Idle
  <2>1. c \in InHangup => c.fn = "hangup" /\ c.conv \in Conv /\ c.gen \in Nat /\ c.tcp \in BOOLEAN
    BY DEF InHangup
  <2>2. c \in InConnect => c.fn = "connect" /\ c.conv \in Conv /\ c.gen \in Nat /\ c.tcp \in BOOLEAN
    BY DEF InConnect
  <2>3. c \in InRead => c.fn \in {"accept", "recv"} /\ c.conv \in Conv /\ c.gen \in Nat /\ c.tcp \in BOOLEAN
    BY DEF InRead
  <2>4. c \in InSend => c.fn = "send" /\ c.conv \in Conv /\ c.gen \in Nat /\ c.tcp \in BOOLEAN
    BY DEF InSend
  <2>5. c \in InDns => c.fn = "dns" /\ c.conv \in Conv /\ c.gen \in Nat /\ c.tcp \in BOOLEAN
    BY DEF InDns
  <2>. QED
    BY <2>0, <2>1, <2>2, <2>3, <2>4, <2>5
<1>5. /\ c.fn = "hangup" => c \in InHangup
      /\ c.fn = "connect" => c \in InConnect
      /\ c.fn \in {"accept", "recv"} => c \in InRead
      /\ c.fn = "send" => c \in InSend
      /\ c.fn = "dns" => c \in InDns
      /\ c.fn = "none" => c = Idle
      /\ c.fn # "none" => c.conv \in Conv /\ c.gen \in Nat /\ c.tcp \in BOOLEAN
  BY <1>3, <1>4
<1>. QED
  BY <1>1, <1>2, <1>5 DEF c

LEMMA NamedOn ==
  ASSUME SocketInv, \A i \in Conv : Alike(conv[i], conv'[i]), proc' \in [Proc -> ProcRec],
         \A p \in Proc : Onward(proc[p], proc'[p])
  PROVE  Named'
<1>1. ASSUME NEW x, NEW y, NameOK(x), SameUse(y, x), y.tcp = x.tcp, x.conv \in Conv
      PROVE  NameOK(y)'
  <2>1. y.conv = x.conv /\ y.gen = x.gen
    BY <1>1 DEF SameUse
  <2>2. Alike(conv[x.conv], conv'[x.conv])
    BY <1>1
  <2>. QED
    BY <1>1, <2>1, <2>2 DEF NameOK, Current, Alike
<1>2. ASSUME NEW p \in Proc, NEW f \in Fd, IsSocket(p, f)
      PROVE  NameOK(proc[p].fd[f]) /\ proc[p].fd[f].conv \in Conv
  <2>1. proc[p] \in ProcRec
    BY DEF SocketInv, SocketType
  <2>2. proc[p].fd[f] \in NetFd
    BY <1>2, <2>1, CallOf DEF IsSocket
  <2>. QED
    BY <1>2, <2>2 DEF NetFd, SocketInv, Named
<1>3. ASSUME NEW p \in Proc, proc[p].pc.fn # "none"
      PROVE  NameOK(proc[p].pc) /\ proc[p].pc.conv \in Conv
  <2>1. proc[p] \in ProcRec
    BY DEF SocketInv, SocketType
  <2>. QED
    BY <1>3, <2>1, CallOf DEF SocketInv, Named
<1>4. ASSUME NEW p \in Proc, NEW f \in Fd, IsSocket(p, f)'
      PROVE  NameOK(proc[p].fd[f])'
  <2>1. Onward(proc[p], proc'[p]) /\ proc'[p].fd[f].kind = "net"
    BY <1>4 DEF IsSocket
  <2>2. /\ proc[p].fd[f].kind = "net" /\ SameUse(proc'[p].fd[f], proc[p].fd[f])
        /\ proc'[p].fd[f].tcp = proc[p].fd[f].tcp
    BY <2>1 DEF Onward, SameSlots
  <2>3. NameOK(proc[p].fd[f]) /\ proc[p].fd[f].conv \in Conv
    BY <1>2, <2>2 DEF IsSocket
  <2>. QED
    BY <1>1, <2>2, <2>3
<1>5. ASSUME NEW p \in Proc, proc'[p].pc.fn # "none"
      PROVE  NameOK(proc[p].pc)'
  <2>1. \/ \E f \in Fd : /\ proc[p].fd[f].kind = "net" /\ SameUse(proc'[p].pc, proc[p].fd[f])
                         /\ proc'[p].pc.tcp = proc[p].fd[f].tcp
        \/ proc[p].pc.fn # "none" /\ SameUse(proc'[p].pc, proc[p].pc) /\ proc'[p].pc.tcp = proc[p].pc.tcp
    BY <1>5 DEF Onward
  <2>2. CASE \E f \in Fd : /\ proc[p].fd[f].kind = "net" /\ SameUse(proc'[p].pc, proc[p].fd[f])
                           /\ proc'[p].pc.tcp = proc[p].fd[f].tcp
    <3>1. PICK f \in Fd : /\ proc[p].fd[f].kind = "net" /\ SameUse(proc'[p].pc, proc[p].fd[f])
                          /\ proc'[p].pc.tcp = proc[p].fd[f].tcp
      BY <2>2
    <3>2. NameOK(proc[p].fd[f]) /\ proc[p].fd[f].conv \in Conv
      BY <1>2, <3>1 DEF IsSocket
    <3>. QED
      BY <1>1, <3>1, <3>2
  <2>3. CASE proc[p].pc.fn # "none" /\ SameUse(proc'[p].pc, proc[p].pc) /\ proc'[p].pc.tcp = proc[p].pc.tcp
    BY <1>1, <1>3, <2>3
  <2>. QED
    BY <2>1, <2>2, <2>3
<1>. QED
  BY <1>4, <1>5 DEF Named

LEMMA KeptOn ==
  ASSUME SocketInv, \A i \in Conv : Alike(conv[i], conv'[i]), \A p \in Proc : Onward(proc[p], proc'[p]),
         \A i \in Conv : ConvOK(conv[i])
  PROVE  Kept' /\ NotThere'
<1>1. ASSUME NEW i \in Conv, conv'[i].st # "free", conv'[i].handed, proc'[conv'[i].owner].live
      PROVE  Keeps(conv[i].owner, i)'
  <2> DEFINE o == conv[i].owner
  <2>1. conv[i].st # "free" /\ conv[i].handed /\ conv'[i].owner = o /\ conv'[i].gen = conv[i].gen /\ o \in Proc
    BY <1>1 DEF Alike, ConvOK
  <2>2. Onward(proc[o], proc'[o]) /\ proc[o].live
    BY <1>1, <2>1 DEF Onward
  <2>3. Keeps(o, i)
    BY <2>1, <2>2 DEF SocketInv, Kept
  <2> HIDE DEF o
  <2>4. CASE \E f \in Fd : IsSocket(o, f) /\ proc[o].fd[f].conv = i /\ Current(proc[o].fd[f])
    <3>1. PICK f \in Fd : IsSocket(o, f) /\ proc[o].fd[f].conv = i /\ Current(proc[o].fd[f])
      BY <2>4
    <3>2. proc'[o].fd[f].kind = "net" /\ SameUse(proc'[o].fd[f], proc[o].fd[f])
      BY <2>2, <3>1 DEF Onward, SameSlots, IsSocket
    <3>. QED
      BY <2>1, <3>1, <3>2 DEF Keeps, IsSocket, Current, SameUse
  <2>5. CASE proc[o].pc.fn = "hangup" /\ proc[o].pc.conv = i /\ Current(proc[o].pc)
    <3>1. proc'[o].pc = proc[o].pc
      BY <2>2, <2>5 DEF Onward
    <3>. QED
      BY <2>1, <2>5, <3>1 DEF Keeps, Current
  <2>. QED
    BY <2>3, <2>4, <2>5 DEF Keeps
<1>2. ASSUME NEW p \in Proc, ~proc'[p].live
      PROVE  /\ proc'[p].pc = Idle /\ \A f \in Fd : proc'[p].fd[f] = Closed
             /\ proc'[p].ret.fn = "none" => \A i \in Conv : conv'[i].st # "free" => conv'[i].owner # p
  <2>1. proc'[p] = proc[p] /\ ~proc[p].live
    BY <1>2 DEF Onward
  <2>. QED
    BY <2>1 DEF SocketInv, NotThere, Alike
<1>. QED
  BY <1>1, <1>2 DEF Kept, NotThere

LEMMA SingleOn ==
  ASSUME Single, \A p \in Proc : Onward(proc[p], proc'[p])
  PROVE  Single'
<1>1. ASSUME NEW p \in Proc, NEW f \in Fd, proc'[p].fd[f].kind = "net"
      PROVE  /\ IsSocket(p, f) /\ proc'[p].fd[f].conv = proc[p].fd[f].conv /\ proc'[p].fd[f].gen = proc[p].fd[f].gen
             /\ proc'[p].fd[f].copied = proc[p].fd[f].copied
  BY <1>1 DEF Onward, SameSlots, SameUse, IsSocket
<1>2. ASSUME NEW p \in Proc, NEW r \in Proc, NEW f \in Fd, NEW g \in Fd, <<p, f>> # <<r, g>>,
             proc'[p].fd[f].kind = "net", proc'[r].fd[g].kind = "net", SameUse(proc'[p].fd[f], proc'[r].fd[g])
      PROVE  proc'[p].fd[f].copied
  <2>1. IsSocket(p, f) /\ IsSocket(r, g) /\ SameUse(proc[p].fd[f], proc[r].fd[g])
    BY <1>1, <1>2 DEF SameUse
  <2>2. proc[p].fd[f].copied
    BY <1>2, <2>1 DEF Single
  <2>. QED
    BY <1>1, <1>2, <2>2
<1>3. ASSUME NEW p \in Proc, NEW r \in Proc, NEW f \in Fd, proc'[r].pc.fn = "hangup", proc'[p].fd[f].kind = "net"
      PROVE  ~SameUse(proc'[p].fd[f], proc'[r].pc)
  <2>1. proc[r].pc.fn = "hangup" /\ proc'[r].pc = proc[r].pc
    BY <1>3 DEF Onward
  <2>2. ~SameUse(proc[p].fd[f], proc[r].pc) /\ IsSocket(p, f)
    BY <1>1, <1>3, <2>1 DEF Single
  <2>. QED
    BY <1>1, <1>3, <2>1, <2>2 DEF SameUse
<1>. QED
  BY <1>2, <1>3 DEF Single, IsSocket

\* Queues stay in order when the conversations in X, that change hands, are in none.
LEMMA QueuedOn ==
  ASSUME Queued, NEW X, \A i \in Conv : i \notin X => Alike(conv[i], conv'[i]) /\ Lines(conv[i], conv'[i]),
         \A l \in Conv : conv'[l].tcb = "listen" => l \notin X /\ \A k \in DOMAIN conv'[l].aq : conv'[l].aq[k] \notin X,
         \A i \in Conv : DOMAIN conv[i].aq = 1 .. Len(conv[i].aq) /\ \A k \in DOMAIN conv[i].aq : conv[i].aq[k] \in Conv
  PROVE  Queued'
<1>1. ASSUME NEW l \in Conv, conv'[l].tcb = "listen", NEW k \in DOMAIN conv'[l].aq
      PROVE  conv[l].tcb = "listen" /\ Within(conv'[l].aq, conv[l].aq)
  BY <1>1 DEF Lines
<1>2. ASSUME NEW l \in Conv, conv'[l].tcb = "listen"
      PROVE  /\ conv'[l].handed
             /\ \A k \in DOMAIN conv'[l].aq :
                  LET c == conv'[conv'[l].aq[k]] IN c.st # "free" /\ ~c.handed /\ c.owner = conv'[l].owner
  <2>1. conv'[l].handed
    BY <1>2 DEF Lines, Queued, Queues, Alike
  <2>2. ASSUME NEW k \in DOMAIN conv'[l].aq
        PROVE  LET c == conv'[conv'[l].aq[k]] IN c.st # "free" /\ ~c.handed /\ c.owner = conv'[l].owner
    <3>1. conv[l].tcb = "listen" /\ Within(conv'[l].aq, conv[l].aq)
      BY <1>1, <1>2
    <3>2. PICK n \in DOMAIN conv[l].aq : conv'[l].aq[k] = conv[l].aq[n]
      BY <3>1 DEF Within
    <3> DEFINE i == conv[l].aq[n]
    <3>3. i \in Conv /\ conv[i].st # "free" /\ ~conv[i].handed /\ conv[i].owner = conv[l].owner
      BY <3>1 DEF Queued, Queues
    <3>4. conv'[l].aq[k] = i /\ i \notin X /\ l \notin X
      BY <1>2, <3>2
    <3> HIDE DEF i
    <3>. QED
      BY <3>3, <3>4 DEF Alike
  <2>. QED
    BY <2>1, <2>2
<1>3. ASSUME NEW l \in Conv, NEW m \in Conv, conv'[l].tcb = "listen", conv'[m].tcb = "listen",
             NEW k \in DOMAIN conv'[l].aq, NEW n \in DOMAIN conv'[m].aq, conv'[l].aq[k] = conv'[m].aq[n]
      PROVE  l = m /\ k = n
  <2>1. conv[l].tcb = "listen" /\ conv[m].tcb = "listen"
    BY <1>1, <1>3
  <2>2. PICK g \in [DOMAIN conv'[l].aq -> DOMAIN conv[l].aq] :
          /\ \A j \in DOMAIN conv'[l].aq : conv'[l].aq[j] = conv[l].aq[g[j]]
          /\ \A i, j \in DOMAIN conv'[l].aq : g[i] = g[j] => i = j
    BY <1>1, <1>3 DEF Within
  <2>3. PICK h \in [DOMAIN conv'[m].aq -> DOMAIN conv[m].aq] :
          \A j \in DOMAIN conv'[m].aq : conv'[m].aq[j] = conv[m].aq[h[j]]
    BY <1>1, <1>3 DEF Within
  <2>4. g[k] \in DOMAIN conv[l].aq /\ h[n] \in DOMAIN conv[m].aq /\ conv[l].aq[g[k]] = conv[m].aq[h[n]]
    BY <1>3, <2>2, <2>3
  <2>5. l = m /\ g[k] = h[n]
    BY <2>1, <2>4 DEF Queued, Queues
  <2>6. g[n] \in DOMAIN conv[l].aq /\ conv[l].aq[g[n]] = conv[m].aq[h[n]]
    BY <1>3, <2>2, <2>3, <2>5
  <2>7. g[n] = h[n]
    BY <2>1, <2>4, <2>5, <2>6 DEF Queued, Queues
  <2>. QED
    BY <1>3, <2>2, <2>5, <2>7
<1>. QED
  BY <1>2, <1>3 DEF Queued, Queues

LEMMA AqOf ==
  ASSUME SocketType
  PROVE  \A i \in Conv : /\ conv[i].aq \in Seq(Conv) /\ DOMAIN conv[i].aq = 1 .. Len(conv[i].aq) /\ Len(conv[i].aq) \in Nat
                         /\ \A k \in DOMAIN conv[i].aq : conv[i].aq[k] \in Conv
<1> SUFFICES ASSUME NEW i \in Conv
             PROVE  /\ conv[i].aq \in Seq(Conv) /\ DOMAIN conv[i].aq = 1 .. Len(conv[i].aq) /\ Len(conv[i].aq) \in Nat
                    /\ \A k \in DOMAIN conv[i].aq : conv[i].aq[k] \in Conv
  OBVIOUS
<1>1. conv[i].aq \in Seq(Conv)
  BY DEF SocketType, ConvRec
<1>. QED
  BY <1>1, LenProperties, ElementOfSeq

LEMMA GoesOn ==
  ASSUME SocketInv, SocketType1, \A i \in Conv : Alike(conv[i], conv'[i]), \A p \in Proc : Onward(proc[p], proc'[p]),
         strayed' \/ ((\A i \in Conv : Lines(conv[i], conv'[i])) /\ HeadersTrue' /\ Lookups')
  PROVE  SocketInv'
<1>1. SocketType' /\ Named' /\ Kept' /\ NotThere'
  BY NamedOn, KeptOn DEF SocketType1, SocketType, SocketInv, CountersOK
<1>2. ASSUME ~strayed'
      PROVE  Queued' /\ Single' /\ HeadersTrue' /\ Lookups'
  <2>1. Queued /\ Single
    BY <1>2 DEF SocketType1, CountersOK, SocketInv
  <2>2. Single'
    BY <2>1, SingleOn
  <2>3. Queued'
    <3> DEFINE X == {}
    <3>1. \A i \in Conv : i \notin X => Alike(conv[i], conv'[i]) /\ Lines(conv[i], conv'[i])
      BY <1>2
    <3>2. \A i \in Conv : DOMAIN conv[i].aq = 1 .. Len(conv[i].aq) /\ \A k \in DOMAIN conv[i].aq : conv[i].aq[k] \in Conv
      BY AqOf DEF SocketInv
    <3>3. \A l \in Conv : conv'[l].tcb = "listen" => l \notin X /\ \A k \in DOMAIN conv'[l].aq : conv'[l].aq[k] \notin X
      BY SMTT(30)
    <3> HIDE DEF X
    <3>. QED
      BY <2>1, <3>1, <3>2, <3>3, QueuedOn
  <2>. QED
    BY <1>2, <2>2, <2>3
<1>. QED
  BY <1>1, <1>2 DEF SocketInv

\* p's lookup is the only one to name its conversation.
LEMMA Alone ==
  ASSUME SocketInv, ~strayed, NEW p \in Proc, proc[p].pc.fn = "dns",
         NEW r \in Proc, NEW f \in Fd, IsSocket(r, f), r # p \/ f # proc[p].pc.f, Current(proc[r].fd[f])
  PROVE  proc[r].fd[f].conv # proc[p].pc.conv
<1>1. Single /\ Lookup(p) /\ HasFd(proc[p]) /\ proc[p] \in ProcRec
  BY DEF SocketInv, SocketType, Lookups
<1> DEFINE g == proc[p].pc.f
<1>2. g \in Fd /\ IsSocket(p, g) /\ SameUse(proc[p].fd[g], proc[p].pc) /\ ~proc[p].fd[g].copied
  BY <1>1, CallOf DEF HasFd, IsSocket, InDns
<1> HIDE DEF g
<1>3. <<p, g>> # <<r, f>>
  BY DEF g
<1>4. ~SameUse(proc[p].fd[g], proc[r].fd[f])
  BY <1>1, <1>2, <1>3 DEF Single
<1>. QED
  BY <1>1, <1>2, <1>4 DEF SameUse, Lookup, Current

\* Whoever has not strayed and is in a call has a descriptor that is current.
LEMMA CallIsCurrent ==
  ASSUME SocketInv, NEW p \in Proc, proc[p].pc.fn \in {"accept", "recv", "send", "connect"}, Current(proc[p].pc)
  PROVE  \E f \in Fd : IsSocket(p, f) /\ proc[p].fd[f].conv = proc[p].pc.conv /\ Current(proc[p].fd[f])
<1>1. HasFd(proc[p])
  BY DEF SocketInv, SocketType
<1>. QED
  BY <1>1 DEF HasFd, IsSocket, SameUse, Current

LEMMA LookupIsUdp ==
  ASSUME SocketInv, ~strayed, NEW p \in Proc, proc[p].pc.fn = "dns"
  PROVE  /\ proc[p].live /\ proc[p].pc \in InDns /\ proc[p].pc.conv \in Conv /\ Lookup(p)
         /\ conv[proc[p].pc.conv].proto = "udp" /\ conv[proc[p].pc.conv].handed /\ Valid(proc[p].pc)
<1>1. Lookup(p) /\ NameOK(proc[p].pc) /\ proc[p].live
  <2>1. ~proc[p].live => proc[p].pc = Idle
    BY DEF SocketInv, NotThere
  <2>. QED
    BY <2>1 DEF SocketInv, Lookups, Named, Idle
<1>2. proc[p].pc \in InDns
  BY CallOf DEF SocketInv, SocketType
<1>3. proc[p].pc.conv \in Conv /\ proc[p].pc.tcp = FALSE
  BY <1>2 DEF InDns
<1>4. conv[proc[p].pc.conv].proto # "tcp" /\ conv[proc[p].pc.conv].handed /\ conv[proc[p].pc.conv].st # "free"
  BY <1>1, <1>3 DEF Lookup, NameOK
<1>5. conv[proc[p].pc.conv] \in ConvRec
  BY <1>3 DEF SocketInv, SocketType
<1>. QED
  BY <1>1, <1>2, <1>3, <1>4, <1>5 DEF ConvRec, Valid


\* A call of p's other than a lookup has no lookup's conversation.
Asked(i) == \E p \in Proc : proc[p].pc.fn = "dns" /\ proc[p].pc.conv = i
LEMMA NotAsked ==
  ASSUME SocketInv, ~strayed, NEW p \in Proc, NEW f \in Fd, IsSocket(p, f), Current(proc[p].fd[f]), proc[p].pc.fn # "dns"
  PROVE  ~Asked(proc[p].fd[f].conv)
BY Alone DEF Asked
LEMMA AskedIsUdp ==
  ASSUME SocketInv, ~strayed, NEW i, Asked(i)
  PROVE  conv[i].proto = "udp" /\ conv[i].st # "free"
BY LookupIsUdp DEF Asked, Lookup

\* What the lookups on conversation i can see of it, when it becomes e: the
\* port is the same, what came in is for somebody else or has the right name.
FitsProc(i, v) == \A p \in Proc : proc[p].pc.fn = "dns" /\ proc[p].pc.conv = i /\ v.who = p => v.name = proc[p].pc.name
Still(i, e) ==
  /\ e.lport = conv[i].lport
  /\ \A n \in 1 .. Len(e.q) : FitsProc(i, e.q[n]) \/ \E m \in 1 .. Len(conv[i].q) : e.q[n] = conv[i].q[m]
\* A lookup is where it was, or somewhat further.
SameLookup(x, y) ==
  /\ y.pc.fn = "dns" =>
       /\ x.pc.fn = "dns" /\ SameUse(y.pc, x.pc) /\ y.pc.name = x.pc.name
       /\ y.pc.got = x.pc.got \/ y.pc.got \in {"none", x.pc.name}
       /\ (y.pc.step = "connect") = (x.pc.step = "connect")
  /\ y.ret.fn = "dns" => y.ret = x.ret \/ y.ret.got \in {"none", y.ret.asked}

LEMMA UpTo == ASSUME NEW a \in Nat, NEW b \in Nat, a <= b PROVE 1000 .. 999 + a \subseteq 1000 .. 999 + b
  OBVIOUS

LEMMA LookupsOn ==
  ASSUME SocketInv, ~strayed, \A i \in Conv : Alike(conv[i], conv'[i]),
         \A p \in Proc : SameLookup(proc[p], proc'[p]),
         \A i \in Conv : Asked(i) => Still(i, conv'[i]),
         eph' \in Nat, eph <= eph', queries' = queries
  PROVE  Lookups'
<1>0. eph \in Nat /\ Ephemeral \subseteq Ephemeral'
  <2> DEFINE a == eph
             b == eph'
  <2>1. a \in Nat /\ b \in Nat /\ a <= b
    BY DEF SocketInv, SocketType
  <2> HIDE DEF a, b
  <2>2. 1000 .. 999 + a \subseteq 1000 .. 999 + b
    BY <2>1, UpTo
  <2>3. Ephemeral = 1000 .. 999 + a
    BY DEF Ephemeral, a
  <2>4. Ephemeral' = 1000 .. 999 + b
    BY DEF Ephemeral, b
  <2>. QED
    BY <2>1, <2>2, <2>3, <2>4 DEF a
<1>1. \A m \in queries' : m.port \in Ephemeral'
  BY <1>0 DEF SocketInv, Lookups
<1>2. ASSUME NEW p \in Proc, proc'[p].pc.fn = "dns"
      PROVE  Lookup(p)'
  <2> DEFINE x == proc[p].pc
             y == proc'[p].pc
             i == x.conv
  <2>1. x.fn = "dns" /\ y.conv = i /\ y.gen = x.gen /\ y.name = x.name /\ (y.step = "connect") = (x.step = "connect")
    BY <1>2 DEF SameLookup, SameUse
  <2>2. Lookup(p) /\ i \in Conv
    BY <2>1, LookupIsUdp
  <2>3. Alike(conv[i], conv'[i]) /\ Still(i, conv'[i])
    BY <2>1, <2>2 DEF Asked
  <2>4. y.got \in {"none", y.name}
    BY <1>2, <2>1, <2>2 DEF Lookup, SameLookup
  <2>5. /\ y.gen = conv'[i].gen /\ conv'[i].st # "free" /\ conv'[i].owner = p
        /\ IF y.step = "connect" THEN conv'[i].lport = 0 ELSE conv'[i].lport \in Ephemeral'
    BY <1>0, <2>1, <2>2, <2>3, Zenon DEF Lookup, Current, Alike, Still
  <2>6. \A m \in queries' : m.port = conv'[i].lport /\ m.who = p => m.name = y.name
    BY <2>1, <2>2, <2>3, Zenon DEF Lookup, Still
  <2>7. \A j \in 1 .. Len(conv'[i].q) : conv'[i].q[j].who = p => conv'[i].q[j].name = y.name
    BY <2>1, <2>2, <2>3, Zenon DEF Lookup, Still, FitsProc
  <2>. QED
    BY <2>1, <2>4, <2>5, <2>6, <2>7, Zenon DEF Lookup, Current
<1>3. \A p \in Proc : proc'[p].ret.fn = "dns" => proc'[p].ret.got \in {"none", proc'[p].ret.asked}
  BY DEF SameLookup, SocketInv, Lookups
<1>. QED
  BY <1>1, <1>2, <1>3 DEF Lookups

SameHeaders(x, y) == \A f \in Fd : y.fd[f].kind = "net" => y.fd[f].headers = x.fd[f].headers

LEMMA HeadersOn ==
  ASSUME SocketInv, ~strayed, \A i \in Conv : Alike(conv[i], conv'[i]) /\ conv'[i].headers = conv[i].headers,
         \A p \in Proc : Onward(proc[p], proc'[p]) /\ SameHeaders(proc[p], proc'[p])
  PROVE  HeadersTrue'
<1>1. ASSUME NEW p \in Proc, NEW f \in Fd, proc'[p].fd[f].kind = "net", ~proc'[p].fd[f].copied,
             proc'[p].fd[f].gen = conv'[proc'[p].fd[f].conv].gen
      PROVE  proc'[p].fd[f].headers = conv'[proc'[p].fd[f].conv].headers
  <2> DEFINE d == proc[p].fd[f]
             i == d.conv
  <2>1. d.kind = "net" /\ proc'[p].fd[f].conv = i /\ proc'[p].fd[f].gen = d.gen /\ ~d.copied
    BY <1>1 DEF Onward, SameSlots, SameUse
  <2>2. i \in Conv
    <3>1. proc[p] \in ProcRec
      BY DEF SocketInv, SocketType
    <3>2. d \in NetFd
      BY <2>1, <3>1, CallOf
    <3>. QED
      BY <3>2 DEF NetFd
  <2>3. d.gen = conv[i].gen
    BY <1>1, <2>1, <2>2 DEF Alike
  <2>4. d.headers = conv[i].headers
    BY <2>1, <2>3 DEF SocketInv, HeadersTrue, IsSocket, Current
  <2>. QED
    BY <1>1, <2>1, <2>2, <2>4 DEF SameHeaders
<1>. QED
  BY <1>1 DEF HeadersTrue, IsSocket, Current

-----------------------------------------------------------------------------
(* Quiet steps: one conversation goes on, one process goes on.               *)

\* Conversation i may become e.
QuietConv(i, e) ==
  /\ e \in ConvRec /\ ConvOK(e) /\ Alike(conv[i], e)
  /\ \/ strayed'
     \/ /\ Lines(conv[i], e) /\ (Asked(i) => Still(i, e))
        /\ HeadersTrue' \/ e.headers = conv[i].headers
\* Process record x may become y.
QuietProc(x, y) ==
  /\ y \in ProcRec /\ CallOK(y) /\ HasFd(y) /\ Onward(x, y)
  /\ strayed' \/ (SameLookup(x, y) /\ (HeadersTrue' \/ SameHeaders(x, y)))

LEMMA StillHere ==
  ASSUME SocketInv
  PROVE  /\ \A i \in Conv : conv[i] \in ConvRec /\ ConvOK(conv[i]) /\ QuietConv(i, conv[i])
         /\ \A p \in Proc : proc[p] \in ProcRec /\ CallOK(proc[p]) /\ HasFd(proc[p]) /\ QuietProc(proc[p], proc[p])
<1>1. ASSUME NEW i \in Conv
      PROVE  conv[i] \in ConvRec /\ ConvOK(conv[i]) /\ QuietConv(i, conv[i])
  <2>1. conv[i] \in ConvRec /\ ConvOK(conv[i])
    BY DEF SocketInv, SocketType
  <2>2. Lines(conv[i], conv[i])
    BY WithinSelf DEF Lines
  <2>. QED
    BY <2>1, <2>2 DEF QuietConv, Alike, Still
<1>2. ASSUME NEW p \in Proc
      PROVE  proc[p] \in ProcRec /\ CallOK(proc[p]) /\ HasFd(proc[p]) /\ QuietProc(proc[p], proc[p])
  <2>1. proc[p] \in ProcRec /\ CallOK(proc[p]) /\ HasFd(proc[p])
    BY DEF SocketInv, SocketType
  <2>. QED
    BY <2>1 DEF QuietProc, Onward, SameLookup, SameHeaders, SameSlots, SameUse
<1>. QED
  BY <1>1, <1>2

LEMMA QuietStep ==
  ASSUME SocketInv, CountersOK, eph <= eph', queries' = queries,
         conv' \in [Conv -> ConvRec], proc' \in [Proc -> ProcRec],
         \A i \in Conv : QuietConv(i, conv'[i]), \A p \in Proc : QuietProc(proc[p], proc'[p])
  PROVE  SocketInv'
<1>1. SocketType1 /\ (\A i \in Conv : Alike(conv[i], conv'[i])) /\ (\A p \in Proc : Onward(proc[p], proc'[p]))
  BY DEF SocketType1, QuietConv, QuietProc
<1>2. ASSUME ~strayed'
      PROVE  (\A i \in Conv : Lines(conv[i], conv'[i])) /\ HeadersTrue' /\ Lookups'
  <2>1. ~strayed /\ eph' \in Nat
    BY <1>2 DEF CountersOK
  <2>2. HeadersTrue' \/ ((\A i \in Conv : conv'[i].headers = conv[i].headers) /\ \A p \in Proc : SameHeaders(proc[p], proc'[p]))
    BY <1>2 DEF QuietConv, QuietProc
  <2>3. HeadersTrue'
    BY <1>1, <2>1, <2>2, HeadersOn
  <2>4. (\A i \in Conv : Asked(i) => Still(i, conv'[i])) /\ \A p \in Proc : SameLookup(proc[p], proc'[p])
    BY <1>2 DEF QuietConv, QuietProc
  <2>5. Lookups'
    BY <1>1, <2>1, <2>4, LookupsOn
  <2>. QED
    BY <1>2, <2>3, <2>5 DEF QuietConv
<1>. QED
  BY <1>1, <1>2, GoesOn

\* The forms in which the actions state it.
LEMMA QuietAt ==
  ASSUME SocketInv, CountersOK, eph <= eph', queries' = queries,
         conv' = conv \/ \E i \in Conv : \E e : conv' = [conv EXCEPT ![i] = e] /\ QuietConv(i, e),
         proc' = proc \/ \E p \in Proc : \E y : Becomes(p, y) /\ QuietProc(proc[p], y)
  PROVE  SocketInv'
<1>1. conv \in [Conv -> ConvRec] /\ proc \in [Proc -> ProcRec]
  BY DEF SocketInv, SocketType
<1>2. conv' \in [Conv -> ConvRec] /\ \A i \in Conv : QuietConv(i, conv'[i])
  <2>1. CASE conv' = conv
    BY <1>1, <2>1, StillHere
  <2>2. ASSUME NEW i \in Conv, NEW e, conv' = [conv EXCEPT ![i] = e], QuietConv(i, e)
        PROVE  conv' \in [Conv -> ConvRec] /\ \A j \in Conv : QuietConv(j, conv'[j])
    <3>1. e \in ConvRec
      BY <2>2 DEF QuietConv
    <3>2. ASSUME NEW j \in Conv PROVE QuietConv(j, conv'[j])
      <4>1. CASE j = i
        BY <1>1, <2>2, <4>1
      <4>2. CASE j # i
        <5>1. conv'[j] = conv[j]
          BY <1>1, <2>2, <4>2
        <5>. QED
          BY <5>1, StillHere
      <4>. QED
        BY <4>1, <4>2
    <3>. QED
      BY <1>1, <2>2, <3>1, <3>2
  <2>. QED
    BY <2>1, <2>2
<1>3. proc' \in [Proc -> ProcRec] /\ \A p \in Proc : QuietProc(proc[p], proc'[p])
  <2>1. CASE proc' = proc
    BY <1>1, <2>1, StillHere
  <2>2. ASSUME NEW p \in Proc, NEW y, Becomes(p, y), QuietProc(proc[p], y)
        PROVE  proc' \in [Proc -> ProcRec] /\ \A r \in Proc : QuietProc(proc[r], proc'[r])
    <3>1. y \in ProcRec /\ proc' = [proc EXCEPT ![p] = y]
      BY <2>2 DEF QuietProc, Becomes
    <3>2. ASSUME NEW r \in Proc PROVE QuietProc(proc[r], proc'[r])
      <4>1. CASE r = p
        BY <1>1, <2>2, <3>1, <4>1
      <4>2. CASE r # p
        <5>1. proc'[r] = proc[r]
          BY <1>1, <3>1, <4>2
        <5>. QED
          BY <5>1, StillHere
      <4>. QED
        BY <4>1, <4>2
    <3>. QED
      BY <1>1, <3>1, <3>2
  <2>. QED
    BY <2>1, <2>2
<1>. QED
  BY <1>2, <1>3, QuietStep
-----------------------------------------------------------------------------
(* What the peer does to a connection.                                       *)

LEMMA TcpConv ==
  ASSUME NEW c \in ConvRec, ConvOK(c), c.tcb # "none"
  PROVE  c.proto = "tcp" /\ c.proto # "udp" /\ c.st \notin {"free", "closed", "reset"} /\ ~c.headers
BY DEF ConvRec, ConvOK

\* A connection goes on as e: what changes is its state, its buffers and the history.
SameConn(c, e) ==
  /\ e.owner = c.owner /\ e.handed = c.handed /\ e.gen = c.gen /\ e.proto = c.proto /\ e.headers = c.headers
  /\ (e.st = "free") = (c.st = "free")
  /\ e.tcb = "listen" => c.tcb = "listen" /\ e.aq = c.aq

LEMMA ConnQuiet ==
  ASSUME SocketInv, NEW i \in Conv, conv[i].proto = "tcp", NEW e \in ConvRec, ConvOK(e), SameConn(conv[i], e),
         strayed => strayed'
  PROVE  QuietConv(i, e)
<1>1. Alike(conv[i], e)
  BY DEF Alike, SameConn
<1>2. Lines(conv[i], e)
  BY WithinSelf DEF Lines, SameConn
<1>3. ~strayed' => ~Asked(i)
  BY AskedIsUdp
<1>. QED
  BY <1>1, <1>2, <1>3 DEF QuietConv, SameConn

LEMMA OutputSame ==
  ASSUME NEW c \in ConvRec, ConvOK(c), c.proto = "tcp", NEW gone \in BOOLEAN
  PROVE  Output(c, gone) \in ConvRec /\ ConvOK(Output(c, gone)) /\ SameConn(c, Output(c, gone))
<1> DEFINE t == CASE c.tcb = "est" -> "fin" [] c.tcb = "cwait" -> "last" [] OTHER -> c.tcb
           e == [c EXCEPT !.tcb = t]
<1>1. Output(c, gone) = c \/ Output(c, gone) = e
  BY DEF Output
<1>2. /\ t \in {"none", "listen", "synsent", "synrcvd", "est", "cwait", "fin", "last", "twait", "closed"}
      /\ t = "listen" => c.tcb = "listen"
      /\ t # c.tcb => c.tcb \in {"est", "cwait"} /\ t # "none"
  BY DEF ConvRec
<1> HIDE DEF t
<1>3. e \in ConvRec
  BY <1>2 DEF ConvRec
<1>4. ConvOK(e)
  BY <1>2 DEF ConvRec, ConvOK
<1>5. SameConn(c, e) /\ SameConn(c, c)
  BY <1>2 DEF SameConn, ConvRec
<1>. QED
  BY <1>1, <1>3, <1>4, <1>5

LEMMA PeersQuiet ==
  ASSUME SocketInv, strayed' = strayed, NEW i \in Conv,
         PeerOpens(i) \/ PeerSends(i) \/ PeerAcks(i) \/ PeerCloses(i) \/ PeerResets(i) \/ Finishes(i)
  PROVE  \E e : conv' = [conv EXCEPT ![i] = e] /\ QuietConv(i, e) /\ UNCHANGED <<proc, eph, queries, ops>>
<1> DEFINE c == conv[i]
           Result1 == \E e : conv' = [conv EXCEPT ![i] = e] /\ QuietConv(i, e) /\ UNCHANGED <<proc, eph, queries, ops>>
<1>1. c \in ConvRec /\ ConvOK(c)
  BY StillHere
<1>2. ASSUME c.proto = "tcp", NEW e \in ConvRec, ConvOK(e), SameConn(c, e), Changes(i, e)
      PROVE  Result1
  <2>1. QuietConv(i, e)
    BY <1>2, ConnQuiet
  <2>. QED
    BY <1>2, <2>1 DEF Changes
<1> SUFFICES Result1
  OBVIOUS
<1> HIDE DEF c, Result1
<1>0. /\ Len(c.q) <= Buf /\ Len(c.aq) <= AcceptQ /\ c.slen \in 0 .. Buf /\ c.q \in Seq(Dgram)
      /\ Len(c.q) \in Nat /\ Buf \in Nat
  BY <1>1, SocketConstants, LenProperties DEF ConvOK, ConvRec
\* The same, when what is left is our FIN.
<1>3. ASSUME c.proto = "tcp", NEW d \in ConvRec, ConvOK(d), SameConn(c, d), NEW gone \in BOOLEAN,
             Changes(i, Output(d, gone))
      PROVE  Result1
  <2>1. Output(d, gone) \in ConvRec /\ ConvOK(Output(d, gone)) /\ SameConn(d, Output(d, gone))
    BY <1>3, OutputSame DEF SameConn
  <2>2. SameConn(c, Output(d, gone))
    BY <1>3, <2>1 DEF SameConn
  <2>. QED
    BY <1>2, <1>3, <2>1, <2>2
<1>4. CASE PeerOpens(i)
  <2> DEFINE d == [c EXCEPT !.tcb = "est", !.up = TRUE]
  <2>1. c.tcb \in {"synsent", "synrcvd"}
    BY <1>4 DEF PeerOpens, c
  <2>a. PICK gone \in BOOLEAN : Changes(i, Output(d, gone))
    BY <1>4 DEF PeerOpens, c
  <2>2. c.proto = "tcp" /\ c.st \notin {"free", "closed", "reset"}
    BY <1>1, <2>1, TcpConv
  <2>3. d \in ConvRec
    BY <1>1 DEF ConvRec
  <2>4. ConvOK(d)
    BY <1>1, <2>2 DEF ConvOK, ConvRec
  <2>5. SameConn(c, d)
    BY <1>1 DEF SameConn, ConvRec
  <2> HIDE DEF d
  <2>. QED
    BY <1>3, <2>a, <2>2, <2>3, <2>4, <2>5
<1>5. CASE PeerSends(i)
  <2> DEFINE d == [c EXCEPT !.q = Append(c.q, Byte)]
  <2>1. c.tcb \in {"est", "fin"} /\ Len(c.q) < Buf /\ Changes(i, d)
    BY <1>5 DEF PeerSends, c
  <2>2. Byte \in Dgram
    BY DEF Byte, Dgram
  <2>3. Append(c.q, Byte) \in Seq(Dgram) /\ Len(Append(c.q, Byte)) = Len(c.q) + 1
    BY <1>0, <2>2
  <2>4. c.proto = "tcp"
    BY <1>1, <2>1, TcpConv
  <2>5. d \in ConvRec
    BY <1>1, <2>3 DEF ConvRec
  <2>6. ConvOK(d)
    BY <1>0, <1>1, <2>1, <2>3 DEF ConvOK, ConvRec
  <2>7. SameConn(c, d)
    BY <1>1 DEF SameConn, ConvRec
  <2> HIDE DEF d
  <2>. QED
    BY <1>2, <2>1, <2>4, <2>5, <2>6, <2>7
<1>6. CASE PeerAcks(i)
  <2>1. c.tcb \in {"est", "cwait"}
    BY <1>6 DEF PeerAcks, c
  <2>a. PICK n \in 0 .. c.slen : \E gone \in BOOLEAN : Changes(i, Output([c EXCEPT !.slen = n], gone))
    BY <1>6 DEF PeerAcks, c
  <2>b. PICK gone \in BOOLEAN : Changes(i, Output([c EXCEPT !.slen = n], gone))
    BY <2>a
  <2> DEFINE d == [c EXCEPT !.slen = n]
  <2>2. c.proto = "tcp"
    BY <1>1, <2>1, TcpConv
  <2>c. n \in Int /\ n \in 0 .. Buf
    BY <1>0, <2>a
  <2>3. d \in ConvRec
    BY <1>1, <2>c DEF ConvRec
  <2>4. ConvOK(d)
    <3>2. /\ d.q = c.q /\ d.aq = c.aq /\ d.slen = n /\ d.st = c.st /\ d.owner = c.owner /\ d.proto = c.proto
          /\ d.tcb = c.tcb /\ d.up = c.up /\ d.headers = c.headers
      BY <1>1 DEF ConvRec
    <3> HIDE DEF d
    <3>. QED
      BY <1>1, <2>c, <3>2 DEF ConvOK
  <2>5. SameConn(c, d)
    BY <1>1 DEF SameConn, ConvRec
  <2>d. Changes(i, Output(d, gone))
    BY <2>b
  <2> HIDE DEF d
  <2>. QED
    BY <1>3, <2>d, <2>2, <2>3, <2>4, <2>5
<1>7. CASE PeerCloses(i)
  <2> DEFINE d == [c EXCEPT !.fin = TRUE, !.tcb = IF c.tcb = "est" THEN "cwait" ELSE "twait"]
  <2>1. c.tcb \in {"est", "fin"} /\ Changes(i, d)
    BY <1>7 DEF PeerCloses, c
  <2>2. c.proto = "tcp" /\ c.st \notin {"free", "closed", "reset"}
    BY <1>1, <2>1, TcpConv
  <2>3. d \in ConvRec
    BY <1>1, Zenon DEF ConvRec
  <2>4. ConvOK(d)
    BY <1>1, <2>1, <2>2 DEF ConvOK, ConvRec
  <2>5. SameConn(c, d)
    BY <1>1 DEF SameConn, ConvRec
  <2> HIDE DEF d
  <2>. QED
    BY <1>2, <2>1, <2>2, <2>3, <2>4, <2>5
<1>8. CASE PeerResets(i)
  <2> DEFINE d == [c EXCEPT !.st = "reset", !.tcb = "none"]
  <2>1. c.tcb # "none" /\ Changes(i, d)
    BY <1>8 DEF PeerResets, Died, c
  <2>2. c.proto = "tcp" /\ c.st \notin {"free", "closed", "reset"}
    BY <1>1, <2>1, TcpConv
  <2>3. d \in ConvRec
    BY <1>1 DEF ConvRec
  <2>4. ConvOK(d)
    BY <1>1, <2>2 DEF ConvOK, ConvRec
  <2>5. SameConn(c, d)
    BY <1>1, <2>2 DEF SameConn, ConvRec
  <2> HIDE DEF d
  <2>. QED
    BY <1>2, <2>1, <2>2, <2>3, <2>4, <2>5
<1>9. CASE Finishes(i)
  <2>1. c.tcb \in {"last", "twait", "closed"} /\ Changes(i, TcbFinish(c))
    BY <1>9 DEF Finishes, c
  <2>2. c.proto = "tcp" /\ c.st \notin {"free", "closed", "reset"}
    BY <1>1, <2>1, TcpConv
  <2> DEFINE d == [c EXCEPT !.tcb = "closed"]
             e == [c EXCEPT !.tcb = "none", !.st = "closed"]
  <2>3. TcbFinish(c) = d \/ TcbFinish(c) = e
    BY <2>2 DEF TcbFinish, TcbFree
  <2>4. d \in ConvRec /\ e \in ConvRec
    BY ZenonT(40), <1>1 DEF ConvRec
  <2>5. ConvOK(d)
    BY <1>1, <2>2 DEF ConvOK, ConvRec
  <2>6. ConvOK(e)
    BY <1>1, <2>2 DEF ConvOK, ConvRec
  <2>7. SameConn(c, d) /\ SameConn(c, e)
    BY <1>1, <2>2 DEF SameConn, ConvRec
  <2> HIDE DEF d, e
  <2>. QED
    BY <1>2, <2>1, <2>2, <2>3, <2>4, <2>5, <2>6, <2>7
<1>. QED
  BY <1>4, <1>5, <1>6, <1>7, <1>8, <1>9
-----------------------------------------------------------------------------
(* Calls that change no descriptor.                                          *)

LEMMA CallCounts ==
  ASSUME SocketInv, NEW x, strayed' = strayed \/ Reaches(x), NEW p \in Proc, ops' = ops \/ Calls(p),
         eph' = eph \/ eph' = eph + 1, queries' = queries
  PROVE  CountersOK /\ eph <= eph' /\ (strayed => strayed')
<1>1. eph \in Nat /\ queries \subseteq Query /\ ops \in 0 .. MaxOps /\ strayed \in BOOLEAN /\ MaxOps \in Nat
  BY SocketConstants DEF SocketInv, SocketType
<1>2. ops' \in 0 .. MaxOps
  BY <1>1 DEF Calls
<1>3. strayed' \in BOOLEAN /\ (strayed => strayed')
  BY <1>1 DEF Reaches
<1>. QED
  BY <1>1, <1>2, <1>3 DEF CountersOK

\* What a call that does not stray reaches is the use that was meant.
LEMMA Reached ==
  ASSUME NEW x, strayed' = strayed \/ Reaches(x), strayed \in BOOLEAN
  PROVE  (strayed => strayed') /\ (~strayed' => ~strayed /\ (Reaches(x) /\ Valid(x) => Current(x)))
<1>1. CASE Reaches(x)
  <2> DEFINE other == Valid(x) /\ x.gen # conv[x.conv].gen
  <2>1. strayed' = (strayed \/ other)
    BY <1>1 DEF Reaches
  <2>2. ~other => (Valid(x) => Current(x))
    BY DEF Current
  <2> HIDE DEF other
  <2>. QED
    BY <1>1, <2>1, <2>2
<1>2. CASE ~Reaches(x)
  BY <1>2
<1>. QED
  BY <1>1, <1>2

LEMMA ProcQuiet ==
  ASSUME SocketInv, NEW p \in Proc, proc[p].live, proc[p].pc.fn # "hangup",
         NEW y \in ProcRec, y.live, SameSlots(proc[p], y), CallOK(y), y.pc.fn \notin {"hangup", "dns"},
         y.pc.fn # "none" =>
           \/ \E f \in Fd : proc[p].fd[f].kind = "net" /\ SameUse(y.pc, proc[p].fd[f]) /\ y.pc.tcp = proc[p].fd[f].tcp
           \/ proc[p].pc.fn = y.pc.fn /\ SameUse(y.pc, proc[p].pc) /\ y.pc.tcp = proc[p].pc.tcp,
         y.ret.fn # "dns", strayed' \/ HeadersTrue' \/ SameHeaders(proc[p], y)
  PROVE  QuietProc(proc[p], y)
<1> DEFINE x == proc[p]
<1>1. x \in ProcRec /\ HasFd(x) /\ x.live \in BOOLEAN
  BY StillHere DEF ProcRec
<1>2. Onward(x, y)
  <2>1. y.live = x.live
    BY <1>1 DEF ProcRec
  <2>. QED
    BY <2>1 DEF Onward
<1>3. HasFd(y)
  <2>1. ASSUME y.pc.fn \in {"accept", "recv", "send", "connect"}
        PROVE  \E f \in Fd : y.fd[f].kind = "net" /\ SameUse(y.fd[f], y.pc)
    <3>1. CASE \E f \in Fd : x.fd[f].kind = "net" /\ SameUse(y.pc, x.fd[f])
      BY <3>1 DEF SameSlots, SameUse
    <3>2. CASE x.pc.fn = y.pc.fn /\ SameUse(y.pc, x.pc)
      <4>1. \E f \in Fd : x.fd[f].kind = "net" /\ SameUse(x.fd[f], x.pc)
        BY <1>1, <2>1, <3>2 DEF HasFd
      <4>. QED
        BY <3>2, <4>1 DEF SameSlots, SameUse
    <3>. QED
      BY <2>1, <3>1, <3>2
  <2>. QED
    BY <2>1 DEF HasFd
<1>4. SameLookup(x, y)
  BY DEF SameLookup
<1>. QED
  BY <1>2, <1>3, <1>4 DEF QuietProc

\* A process makes a call, through one of its descriptors.
LEMMA Caller ==
  ASSUME SocketInv, NEW p \in Proc, Calls(p)
  PROVE  /\ proc[p] \in ProcRec /\ proc[p].live /\ proc[p].pc = Idle /\ proc[p].pc.fn = "none"
         /\ \A f \in Fd : IsSocket(p, f) =>
              /\ proc[p].fd[f] \in NetFd /\ proc[p].fd[f].conv \in Conv /\ NameOK(proc[p].fd[f])
              /\ conv[proc[p].fd[f].conv] \in ConvRec /\ ConvOK(conv[proc[p].fd[f].conv])
<1>1. proc[p] \in ProcRec /\ proc[p].live /\ proc[p].pc.fn = "none"
  BY StillHere DEF Calls
<1>2. ASSUME NEW f \in Fd, IsSocket(p, f)
      PROVE  /\ proc[p].fd[f] \in NetFd /\ proc[p].fd[f].conv \in Conv /\ NameOK(proc[p].fd[f])
             /\ conv[proc[p].fd[f].conv] \in ConvRec /\ ConvOK(conv[proc[p].fd[f].conv])
  <2>1. proc[p].fd[f] \in NetFd
    BY <1>1, <1>2, CallOf DEF IsSocket
  <2>2. proc[p].fd[f].conv \in Conv
    BY <2>1 DEF NetFd
  <2>. QED
    BY <1>2, <2>1, <2>2, StillHere DEF SocketInv, Named
<1>. QED
  BY <1>1, <1>2, CallOf

\* A call only notes its result.
LEMMA ReturnQuiet ==
  ASSUME SocketInv, NEW p \in Proc, proc[p].live, proc[p].pc.fn \notin {"hangup", "dns"},
         NEW r \in Result, r.fn # "dns", r.fn = "send" => r.n = r.took \/ (r.n = -1 /\ r.took = 0),
         r.fn = "connect" /\ r.dial /\ r.k = "ok" => r.up
  PROVE  /\ QuietProc(proc[p], Returns(proc[p], r))
         /\ proc[p].pc = Idle => QuietProc(proc[p], [proc[p] EXCEPT !.ret = r])
<1>1. proc[p] \in ProcRec
  BY StillHere
<1> DEFINE x == proc[p]
           y == Returns(x, r)
<1>2. y \in ProcRec /\ y.live = x.live /\ y.fd = x.fd /\ y.pc = Idle /\ y.pc.fn = "none" /\ y.ret = r
  BY <1>1 DEF Returns, ProcRec, Idle
<1>3. x.pc = Idle => y = [x EXCEPT !.ret = r]
  BY <1>1 DEF Returns, ProcRec
<1>4. CallOK(y) /\ SameSlots(x, y) /\ SameHeaders(x, y)
  BY <1>2 DEF CallOK, SameSlots, SameUse, SameHeaders
<1> HIDE DEF y
<1>5. QuietProc(x, y)
  BY <1>2, <1>4, ProcQuiet
<1>. QED
  BY <1>3, <1>5 DEF y

LEMMA IdleResult == Idle \in Result /\ Idle.fn = "none" /\ \A k \in Code : [fn |-> "connect", k |-> k, dial |-> FALSE] \in Result
<1>1. Idle \in Result /\ Idle.fn = "none"
  BY DEF Result, Idle
<1>2. ASSUME NEW k \in Code PROVE [fn |-> "connect", k |-> k, dial |-> FALSE] \in Result
  BY DEF Result
<1>. QED
  BY <1>1, <1>2

\* A call enters its waiting part.
LEMMA EnterQuiet ==
  ASSUME SocketInv, NEW p \in Proc, proc[p].live, proc[p].pc.fn = "none", NEW f \in Fd, IsSocket(p, f),
         NEW c \in InConnect \cup InRead \cup InSend, SameUse(c, proc[p].fd[f]), c.tcp = proc[p].fd[f].tcp,
         c.fn = "send" => c.done = c.took
  PROVE  QuietProc(proc[p], Enters(proc[p], c))
<1>1. proc[p] \in ProcRec
  BY StillHere
<1> DEFINE x == proc[p]
           y == Enters(x, c)
<1>2. c \in InCall /\ c.fn \in {"connect", "accept", "recv", "send"}
  BY DEF InCall, InConnect, InRead, InSend
<1>3. y \in ProcRec /\ y.live = x.live /\ y.fd = x.fd /\ y.pc = c /\ y.ret = Idle /\ y.ret.fn = "none"
  BY <1>1, <1>2, IdleResult DEF Enters, ProcRec
<1>4. CallOK(y) /\ SameSlots(x, y) /\ SameHeaders(x, y)
  BY <1>3 DEF CallOK, SameSlots, SameUse, SameHeaders
<1> HIDE DEF y
<1>5. QuietProc(x, y)
  BY <1>2, <1>3, <1>4, ProcQuiet DEF IsSocket
<1>. QED
  BY <1>5 DEF y
-----------------------------------------------------------------------------
(* bind, listen, connect, shutdown.                                          *)

\* A conversation that a call reaches through a descriptor, when no lookup is
\* disturbed: it may become e if its place in the queues is the same.
LEMMA ReachedQuiet ==
  ASSUME SocketInv, NEW p \in Proc, proc[p].pc.fn # "dns", NEW f \in Fd, IsSocket(p, f), Valid(proc[p].fd[f]),
         Reaches(proc[p].fd[f]), NEW e \in ConvRec, ConvOK(e), Alike(conv[proc[p].fd[f].conv], e),
         Current(proc[p].fd[f]) => Lines(conv[proc[p].fd[f].conv], e),
         HeadersTrue' \/ e.headers = conv[proc[p].fd[f].conv].headers
  PROVE  QuietConv(proc[p].fd[f].conv, e)
<1>1. strayed \in BOOLEAN
  BY DEF SocketInv, SocketType
<1>2. ~strayed' => ~strayed /\ Current(proc[p].fd[f])
  BY <1>1, Reached
<1>. QED
  BY <1>2, NotAsked DEF QuietConv

\* What a conversation becomes when its port, its FIN mark or its send buffer is set.
LEMMA PortRec ==
  ASSUME NEW c \in ConvRec, ConvOK(c), NEW n \in Nat \cup Port
  PROVE  LET e == [c EXCEPT !.lport = n] IN
         e \in ConvRec /\ ConvOK(e) /\ Alike(c, e) /\ e.tcb = c.tcb /\ e.aq = c.aq /\ e.headers = c.headers
<1> DEFINE e == [c EXCEPT !.lport = n]
<1>1. e \in ConvRec
  BY DEF ConvRec
<1>2. /\ e.aq = c.aq /\ e.q = c.q /\ e.slen = c.slen /\ e.st = c.st /\ e.owner = c.owner /\ e.proto = c.proto
      /\ e.tcb = c.tcb /\ e.up = c.up /\ e.headers = c.headers /\ e.handed = c.handed /\ e.gen = c.gen
  BY DEF ConvRec
<1> HIDE DEF e
<1>3. ConvOK(e) /\ Alike(c, e)
  BY <1>2 DEF ConvOK, Alike
<1>. QED
  BY <1>1, <1>2, <1>3 DEF e

LEMMA AnnouncedRec ==
  ASSUME NEW c \in ConvRec, ConvOK(c), c.st # "free", NEW n \in Nat \cup Port
  PROVE  LET e == [c EXCEPT !.lport = n, !.st = "announced"] IN
         e \in ConvRec /\ ConvOK(e) /\ Alike(c, e) /\ e.tcb = c.tcb /\ e.aq = c.aq /\ e.headers = c.headers
<1> DEFINE e == [c EXCEPT !.lport = n, !.st = "announced"]
<1>1. e \in ConvRec
  BY DEF ConvRec
<1>2. /\ e.aq = c.aq /\ e.q = c.q /\ e.slen = c.slen /\ e.st = "announced" /\ e.owner = c.owner /\ e.proto = c.proto
      /\ e.tcb = c.tcb /\ e.up = c.up /\ e.headers = c.headers /\ e.handed = c.handed /\ e.gen = c.gen
  BY DEF ConvRec
<1> HIDE DEF e
<1>3. ConvOK(e) /\ Alike(c, e)
  BY <1>2 DEF ConvOK, Alike
<1>. QED
  BY <1>1, <1>2, <1>3 DEF e

LEMMA FinRec ==
  ASSUME NEW c \in ConvRec, ConvOK(c)
  PROVE  LET e == [c EXCEPT !.wfin = TRUE] IN
         e \in ConvRec /\ ConvOK(e) /\ SameConn(c, e) /\ e.proto = c.proto
<1> DEFINE e == [c EXCEPT !.wfin = TRUE]
<1>1. e \in ConvRec
  BY DEF ConvRec
<1>2. /\ e.aq = c.aq /\ e.q = c.q /\ e.slen = c.slen /\ e.st = c.st /\ e.owner = c.owner /\ e.proto = c.proto
      /\ e.tcb = c.tcb /\ e.up = c.up /\ e.headers = c.headers /\ e.handed = c.handed /\ e.gen = c.gen
  BY DEF ConvRec
<1> HIDE DEF e
<1>3. ConvOK(e) /\ SameConn(c, e)
  BY <1>2 DEF ConvOK, SameConn
<1>. QED
  BY <1>1, <1>2, <1>3 DEF e

LEMMA SentRec ==
  ASSUME NEW c \in ConvRec, ConvOK(c), NEW s \in Int, s \in 0 .. Buf
  PROVE  LET e == [c EXCEPT !.slen = s] IN
         e \in ConvRec /\ ConvOK(e) /\ SameConn(c, e)
<1> DEFINE e == [c EXCEPT !.slen = s]
<1>1. e \in ConvRec
  BY DEF ConvRec
<1>2. /\ e.aq = c.aq /\ e.q = c.q /\ e.slen = s /\ e.st = c.st /\ e.owner = c.owner /\ e.proto = c.proto
      /\ e.tcb = c.tcb /\ e.up = c.up /\ e.headers = c.headers /\ e.handed = c.handed /\ e.gen = c.gen
  BY DEF ConvRec
<1> HIDE DEF e
<1>3. ConvOK(e) /\ SameConn(c, e)
  BY <1>2 DEF ConvOK, SameConn
<1>. QED
  BY <1>1, <1>2, <1>3 DEF e

LEMMA TcbAllocRec ==
  ASSUME NEW c \in ConvRec, NEW s \in {"listen", "synsent", "synrcvd"}
  PROVE  LET e == TcbAlloc(c, s) IN
         /\ e \in ConvRec /\ e.tcb = s /\ e.q = <<>> /\ e.aq = <<>> /\ e.slen = 0
         /\ e.owner = c.owner /\ e.handed = c.handed /\ e.gen = c.gen /\ e.proto = c.proto /\ e.headers = c.headers
         /\ e.st = c.st /\ e.lport = c.lport /\ e.up = c.up /\ e.peer = c.peer
<1>1. <<>> \in Seq(Dgram) /\ <<>> \in Seq(Conv) /\ 0 \in Int
  OBVIOUS
<1>2. TcbAlloc(c, s) \in ConvRec
  BY <1>1 DEF TcbAlloc, ConvRec
<1>. QED
  BY <1>2 DEF TcbAlloc, ConvRec

LEMMA BindOK ==
  ASSUME SocketInv, NEW p \in Proc, NEW f \in Fd, NEW n \in Port, Bind(p, f, n), Reaches(proc[p].fd[f])
  PROVE  SocketInv'
<1> DEFINE d == proc[p].fd[f]
           i == d.conv
           e == [conv[i] EXCEPT !.lport = n]
           y == [proc[p] EXCEPT !.fd[f].port = n, !.ret = Idle]
<1>1. /\ Calls(p) /\ IsSocket(p, f) /\ Becomes(p, y) /\ (conv' = conv \/ (Valid(d) /\ conv' = [conv EXCEPT ![i] = e]))
      /\ UNCHANGED <<eph, queries>>
  <2>1. Calls(p) /\ IsSocket(p, f) /\ Becomes(p, y) /\ UNCHANGED <<eph, queries>>
    BY DEF Bind
  <2>2. conv' = conv \/ (Valid(d) /\ conv' = [conv EXCEPT ![i] = e])
    BY Zenon DEF Bind
  <2>. QED
    BY <2>1, <2>2
<1>2. CountersOK /\ eph <= eph'
  BY <1>1, CallCounts DEF SocketInv, SocketType
<1>3. /\ proc[p] \in ProcRec /\ proc[p].live /\ proc[p].pc.fn = "none" /\ d \in NetFd /\ i \in Conv
      /\ conv[i] \in ConvRec /\ ConvOK(conv[i])
  BY <1>1, Caller
<1>4. Valid(d) => QuietConv(i, e)
  <2>1. /\ e \in ConvRec /\ ConvOK(e) /\ Alike(conv[i], e)
        /\ e.tcb = conv[i].tcb /\ e.aq = conv[i].aq /\ e.headers = conv[i].headers
    BY <1>3, PortRec
  <2> HIDE DEF e
  <2>2. Lines(conv[i], e)
    BY <2>1, WithinSelf DEF Lines
  <2>. QED
    BY <1>1, <1>3, <2>1, <2>2, ReachedQuiet, Zenon
<1>5. QuietProc(proc[p], y)
  <2> DEFINE dd == [d EXCEPT !.port = n]
             fd == [proc[p].fd EXCEPT ![f] = dd]
  <2>1. dd \in NetFd /\ dd.kind = "net" /\ SameUse(dd, d) /\ dd.tcp = d.tcp /\ dd.copied = d.copied /\ dd.headers = d.headers
    BY <1>3 DEF NetFd, SameUse
  <2>2. proc[p].fd \in Slots
    BY <1>3, CallOf
  <2> HIDE DEF dd
  <2>3. fd \in Slots /\ fd[f] = dd /\ \A g \in Fd : g # f => fd[g] = proc[p].fd[g]
    BY <2>1, <2>2 DEF Slots
  <2>4. y.fd = fd
    BY <1>3 DEF ProcRec, dd
  <2> HIDE DEF fd
  <2>5. y \in ProcRec /\ y.live /\ y.pc = proc[p].pc /\ y.ret = Idle
    BY <1>3, <2>3, <2>4, IdleResult DEF ProcRec
  <2>6. SameSlots(proc[p], y) /\ SameHeaders(proc[p], y)
    BY <1>1, <2>1, <2>3, <2>4, Zenon DEF SameSlots, SameUse, SameHeaders, IsSocket
  <2>7. CallOK(y)
    BY <1>3, <2>5, IdleResult DEF CallOK
  <2> HIDE DEF y
  <2>. QED
    BY <1>3, <2>5, <2>6, <2>7, IdleResult, ProcQuiet
<1>. QED
  BY <1>1, <1>2, <1>3, <1>4, <1>5, QuietAt

LEMMA ShutdownOK ==
  ASSUME SocketInv, NEW p \in Proc, NEW f \in Fd, Shutdown(p, f), Reaches(proc[p].fd[f])
  PROVE  SocketInv'
<1> DEFINE d == proc[p].fd[f]
           i == d.conv
           w == [conv[i] EXCEPT !.wfin = TRUE]
           y == [proc[p] EXCEPT !.ret = Idle]
<1>1. PICK gone \in BOOLEAN :
        /\ Calls(p) /\ IsSocket(p, f) /\ Becomes(p, y) /\ UNCHANGED <<eph, queries>>
        /\ conv' = conv \/ (conv[i].tcb # "none" /\ conv' = [conv EXCEPT ![i] = Output(w, gone)])
  <2>1. Calls(p) /\ IsSocket(p, f) /\ Becomes(p, y) /\ UNCHANGED <<eph, queries>>
    BY DEF Shutdown
  <2>2. \E gone \in BOOLEAN : conv' = conv \/ (conv[i].tcb # "none" /\ conv' = [conv EXCEPT ![i] = Output(w, gone)])
    BY Zenon DEF Shutdown
  <2>. QED
    BY <2>1, <2>2
<1>2. CountersOK /\ eph <= eph' /\ (strayed => strayed')
  BY <1>1, CallCounts
<1>3. /\ proc[p].live /\ proc[p].pc = Idle /\ proc[p].pc.fn = "none" /\ i \in Conv
      /\ conv[i] \in ConvRec /\ ConvOK(conv[i])
  BY <1>1, Caller
<1>4. conv[i].tcb # "none" => QuietConv(i, Output(w, gone))
  <2> SUFFICES ASSUME conv[i].tcb # "none" PROVE QuietConv(i, Output(w, gone))
    OBVIOUS
  <2>1. conv[i].proto = "tcp"
    BY <1>3, TcpConv
  <2>2. w \in ConvRec /\ ConvOK(w) /\ SameConn(conv[i], w) /\ w.proto = "tcp"
    BY <1>3, <2>1, FinRec
  <2> HIDE DEF w
  <2>3. Output(w, gone) \in ConvRec /\ ConvOK(Output(w, gone)) /\ SameConn(w, Output(w, gone))
    BY <2>2, OutputSame
  <2>4. SameConn(conv[i], Output(w, gone))
    BY <2>2, <2>3 DEF SameConn
  <2>. QED
    BY <1>2, <1>3, <2>1, <2>3, <2>4, ConnQuiet
<1>5. QuietProc(proc[p], y)
  BY <1>3, IdleResult, ReturnQuiet
<1>. QED
  BY SMTT(30), <1>1, <1>2, <1>3, <1>4, <1>5, QuietAt

LEMMA ListenOK ==
  ASSUME SocketInv, NEW p \in Proc, NEW f \in Fd, Listen(p, f), Reaches(proc[p].fd[f])
  PROVE  SocketInv'
<1> DEFINE d == proc[p].fd[f]
           i == d.conv
           c == conv[i]
           ann == [c EXCEPT !.lport = d.port, !.st = "announced"]
           new == TcbAlloc(ann, "listen")
           y == [proc[p] EXCEPT !.ret = Idle]
<1>1. /\ Calls(p) /\ IsSocket(p, f) /\ Becomes(p, y) /\ UNCHANGED <<eph, queries>>
      /\ \/ conv' = conv
         \/ d.port # 0 /\ Valid(d) /\ d.tcp /\ c.tcb = "none" /\ conv' = [conv EXCEPT ![i] = new]
         \/ d.port # 0 /\ Valid(d) /\ conv' = [conv EXCEPT ![i] = ann]
  BY Zenon DEF Listen
<1>2. CountersOK /\ eph <= eph'
  BY <1>1, CallCounts
<1>3. /\ proc[p].live /\ proc[p].pc = Idle /\ proc[p].pc.fn = "none" /\ i \in Conv /\ d \in NetFd /\ NameOK(d)
      /\ c \in ConvRec /\ ConvOK(c)
  BY <1>1, Caller
<1>4. d.port # 0 => d.port \in Port
  BY <1>3 DEF NetFd
<1>5. ASSUME d.port # 0, Valid(d)
      PROVE  QuietConv(i, ann) /\ ann \in ConvRec /\ ConvOK(ann)
  <2>1. c.st # "free"
    BY <1>5 DEF Valid
  <2>2. ann \in ConvRec /\ ConvOK(ann) /\ Alike(c, ann) /\ ann.tcb = c.tcb /\ ann.aq = c.aq /\ ann.headers = c.headers
    BY <1>3, <1>4, <1>5, <2>1, AnnouncedRec
  <2> HIDE DEF ann
  <2>3. Lines(c, ann)
    BY <2>2, WithinSelf DEF Lines
  <2>. QED
    BY <1>1, <1>3, <1>5, <2>2, <2>3, ReachedQuiet, Zenon
<1>6. ASSUME d.port # 0, Valid(d), d.tcp
      PROVE  QuietConv(i, new)
  <2>1. c.st # "free" /\ c.proto = "tcp"
    BY <1>6 DEF Valid
  <2>2. new \in ConvRec
    <3>1. ann \in ConvRec
      BY <1>5, <1>6
    <3> HIDE DEF ann
    <3>. QED
      BY <3>1, TcbAllocRec
  <2>3. /\ new.q = <<>> /\ new.aq = <<>> /\ new.slen = 0 /\ new.st = "announced" /\ new.owner = c.owner
        /\ new.proto = "tcp" /\ new.tcb = "listen" /\ new.headers = c.headers
        /\ new.handed = c.handed /\ new.gen = c.gen
    BY <1>3, <2>1 DEF ConvRec, TcbAlloc
  <2> HIDE DEF new
  <2>4. ConvOK(new)
    BY <1>3, <2>1, <2>3, SocketConstants DEF ConvOK
  <2>5. Alike(c, new)
    BY <2>1, <2>3 DEF Alike
  <2>6. Current(d) => Lines(c, new)
    BY <1>3, <2>3 DEF Lines, NameOK
  <2>. QED
    BY <1>1, <1>3, <1>6, <2>2, <2>3, <2>4, <2>5, <2>6, ReachedQuiet, Zenon
<1>7. QuietProc(proc[p], y)
  BY <1>3, IdleResult, ReturnQuiet
<1> HIDE DEF y, new, ann
<1>8. conv' = conv \/ \E k \in Conv : \E e : conv' = [conv EXCEPT ![k] = e] /\ QuietConv(k, e)
  BY <1>1, <1>3, <1>5, <1>6
<1>. QED
  BY <1>1, <1>2, <1>7, <1>8, QuietAt

\* conv_ctl "connect" of a conversation.
LEMMA CtlConnectOK ==
  ASSUME SocketInv, NEW i \in Conv, conv[i].st # "free", NEW to \in {"host", "dns"}, NEW block \in BOOLEAN
  PROVE  LET e == CtlConnect(conv[i], to, block) IN
         /\ e \in ConvRec /\ ConvOK(e) /\ Alike(conv[i], e) /\ Lines(conv[i], e) /\ e.headers = conv[i].headers
         /\ e.lport = IF conv[i].lport = 0 THEN 1000 + eph ELSE conv[i].lport
         /\ conv[i].proto = "udp" => e.q = conv[i].q
<1> DEFINE c == conv[i]
           n == IF c.lport = 0 THEN 1000 + eph ELSE c.lport
           a == [c EXCEPT !.peer = to, !.lport = n]
           b == [a EXCEPT !.st = "connected"]
           t == TcbAlloc(a, "synsent")
           e == [t EXCEPT !.st = "connected"]
           z == CtlConnect(c, to, block)
<1>1. c \in ConvRec /\ ConvOK(c) /\ eph \in Nat
  BY StillHere DEF SocketInv, SocketType
<1>2. c.proto \in {"udp", "tcp"} /\ z = IF c.proto = "udp" THEN b ELSE IF c.tcb # "none" \/ ~block THEN a ELSE e
  BY <1>1 DEF CtlConnect, ConvRec
<1>3. n \in Nat \cup Port
  BY <1>1 DEF ConvRec
<1> HIDE DEF n
<1>4. a \in ConvRec /\ a.lport = n /\ \A s \in {"owner", "handed", "gen", "proto", "headers", "st", "tcb", "aq", "q", "slen", "up"} : a[s] = c[s]
  BY <1>1, <1>3 DEF ConvRec
<1> HIDE DEF a
<1>5. ConvOK(a)
  BY <1>1, <1>4 DEF ConvOK
<1>6. b \in ConvRec /\ b.lport = n /\ b.st = "connected" /\ \A s \in {"owner", "handed", "gen", "proto", "headers", "tcb", "aq", "q", "slen", "up"} : b[s] = c[s]
  BY <1>4 DEF ConvRec
<1>7. c.proto = "udp" => ConvOK(b)
  <2> HIDE DEF b
  <2>. QED
    BY <1>1, <1>6 DEF ConvOK
<1>8. <<>> \in Seq(Dgram) /\ <<>> \in Seq(Conv) /\ Len(<<>>) = 0
  OBVIOUS
<1>a. /\ t \in ConvRec /\ t.lport = n /\ t.tcb = "synsent" /\ t.aq = <<>> /\ t.q = <<>> /\ t.slen = 0
      /\ \A s \in {"owner", "handed", "gen", "proto", "headers"} : t[s] = c[s]
  BY <1>4, TcbAllocRec
<1> HIDE DEF t
<1>9. /\ e \in ConvRec /\ e.lport = n /\ e.st = "connected" /\ e.tcb = "synsent" /\ e.aq = <<>> /\ e.q = <<>> /\ e.slen = 0
      /\ \A s \in {"owner", "handed", "gen", "proto", "headers"} : e[s] = c[s]
  BY <1>a DEF ConvRec
<1>10. c.proto = "tcp" => ConvOK(e)
  <2> HIDE DEF e
  <2>. QED
    BY <1>1, <1>8, <1>9, SocketConstants DEF ConvOK
<1> HIDE DEF b, e
<1>11. Alike(c, a) /\ Alike(c, b) /\ Alike(c, e)
  BY <1>4, <1>6, <1>9 DEF Alike
<1>12. Lines(c, a) /\ Lines(c, b) /\ Lines(c, e)
  BY <1>4, <1>6, <1>9, WithinSelf DEF Lines
<1> HIDE DEF z
<1>13. z.headers = c.headers /\ z.lport = n /\ (c.proto = "udp" => z.q = c.q)
  BY <1>2, <1>4, <1>6, <1>9
<1>14. z \in ConvRec /\ ConvOK(z) /\ Alike(c, z) /\ Lines(c, z)
  BY <1>2, <1>4, <1>5, <1>6, <1>7, <1>9, <1>10, <1>11, <1>12
<1>. QED
  BY <1>13, <1>14 DEF z, n

LEMMA ConnectOK ==
  ASSUME SocketInv, NEW p \in Proc, NEW f \in Fd, Connect(p, f), Reaches(proc[p].fd[f])
  PROVE  SocketInv'
<1> DEFINE d == proc[p].fd[f]
           i == d.conv
           e(block) == CtlConnect(conv[i], "host", block)
           pc == [fn |-> "connect", conv |-> i, tcp |-> TRUE, gen |-> d.gen, n |-> 0]
           r(k) == [fn |-> "connect", k |-> k, dial |-> FALSE]
<1>1. PICK block \in BOOLEAN :
        /\ Calls(p) /\ IsSocket(p, f) /\ queries' = queries
        /\ \/ Valid(d) /\ conv' = [conv EXCEPT ![i] = e(block)] /\ PortPicked(conv[i])
           \/ UNCHANGED <<conv, eph>>
        /\ \/ d.tcp /\ Becomes(p, Enters(proc[p], pc))
           \/ \E k \in Code : Becomes(p, Returns(proc[p], r(k)))
  <2> DEFINE ok(block) == Valid(d) /\ (d.tcp => conv[i].tcb = "none" /\ block)
             k(block) == IF ok(block) THEN "ok" ELSE "ECONNREFUSED"
  <2>1. PICK block \in BOOLEAN :
          /\ Calls(p) /\ IsSocket(p, f) /\ queries' = queries
          /\ IF Valid(d) THEN conv' = [conv EXCEPT ![i] = e(block)] /\ PortPicked(conv[i]) ELSE UNCHANGED <<conv, eph>>
          /\ Becomes(p, IF ok(block) /\ d.tcp THEN Enters(proc[p], pc) ELSE Returns(proc[p], r(k(block))))
    BY Zenon DEF Connect
  <2> HIDE DEF ok
  <2>2. k(block) = "ok" \/ k(block) = "ECONNREFUSED"
    OBVIOUS
  <2>3. "ok" \in Code /\ "ECONNREFUSED" \in Code
    BY DEF Code
  <2> HIDE DEF k
  <2>4. k(block) \in Code
    BY <2>2, <2>3
  <2>5. (d.tcp /\ Becomes(p, Enters(proc[p], pc))) \/ \E c \in Code : Becomes(p, Returns(proc[p], r(c)))
    BY <2>1, <2>4
  <2> HIDE DEF e, pc, r, d, i
  <2>. QED
    BY <2>1, <2>5
<1>2. CountersOK /\ eph <= eph'
  <2>1. eph' = eph \/ eph' = eph + 1
    BY <1>1 DEF PortPicked
  <2>. QED
    BY <1>1, <2>1, CallCounts
<1>3. /\ proc[p].live /\ proc[p].pc = Idle /\ proc[p].pc.fn = "none" /\ i \in Conv /\ d \in NetFd
  BY <1>1, Caller
<1>4. Valid(d) => QuietConv(i, e(block))
  <2> SUFFICES ASSUME Valid(d) PROVE QuietConv(i, e(block))
    OBVIOUS
  <2>1. conv[i].st # "free"
    BY DEF Valid
  <2>2. e(block) \in ConvRec /\ ConvOK(e(block)) /\ Alike(conv[i], e(block)) /\ Lines(conv[i], e(block)) /\ e(block).headers = conv[i].headers
    BY <1>3, <2>1, CtlConnectOK
  <2> HIDE DEF e
  <2>. QED
    BY <1>1, <1>3, <2>2, ReachedQuiet, Zenon
<1>5. d.tcp => QuietProc(proc[p], Enters(proc[p], pc))
  <2> SUFFICES ASSUME d.tcp PROVE QuietProc(proc[p], Enters(proc[p], pc))
    OBVIOUS
  <2>1. pc \in InConnect /\ SameUse(pc, d) /\ pc.tcp = d.tcp /\ pc.fn # "send"
    BY <1>3 DEF InConnect, SameUse, NetFd
  <2> HIDE DEF pc
  <2>. QED
    BY <1>1, <1>3, <2>1, EnterQuiet
<1>6. \A k \in Code : QuietProc(proc[p], Returns(proc[p], r(k)))
  <2> TAKE k \in Code
  <2>1. r(k) \in Result /\ r(k).fn = "connect" /\ ~r(k).dial
    BY IdleResult
  <2> HIDE DEF r
  <2>. QED
    BY <1>3, <2>1, ReturnQuiet
<1> HIDE DEF e, pc, r
<1>7. conv' = conv \/ \E k \in Conv : \E z : conv' = [conv EXCEPT ![k] = z] /\ QuietConv(k, z)
  BY <1>1, <1>3, <1>4
<1>8. \E q \in Proc : \E y : Becomes(q, y) /\ QuietProc(proc[q], y)
  BY <1>1, <1>5, <1>6
<1>. QED
  BY <1>1, <1>2, <1>7, <1>8, QuietAt
-----------------------------------------------------------------------------
(* accept and connect wait; recv and send begin.                             *)

\* A process is in a call of the library.
LEMMA InACall ==
  ASSUME SocketInv, NEW p \in Proc, proc[p].pc.fn # "none"
  PROVE  /\ proc[p] \in ProcRec /\ CallOK(proc[p]) /\ NameOK(proc[p].pc) /\ proc[p].pc.conv \in Conv
         /\ conv[proc[p].pc.conv] \in ConvRec /\ ConvOK(conv[proc[p].pc.conv]) /\ proc[p].live
<1>1. proc[p] \in ProcRec /\ CallOK(proc[p])
  BY StillHere
<1>2. proc[p].pc.conv \in Conv /\ NameOK(proc[p].pc)
  BY <1>1, CallOf DEF SocketInv, Named
<1>3. proc[p].live
  <2>1. ~proc[p].live => proc[p].pc = Idle
    BY DEF SocketInv, NotThere
  <2>. QED
    BY <2>1 DEF Idle
<1>. QED
  BY <1>1, <1>2, <1>3, StillHere

LEMMA ConnectPollOK ==
  ASSUME SocketInv, NEW p \in Proc, ConnectPoll(p), Reaches(proc[p].pc)
  PROVE  SocketInv'
<1> DEFINE x == proc[p]
           d == x.pc
           c == conv[d.conv]
           s == StateName(c)
           k == CASE ~Valid(d) -> "ETIMEDOUT"
                  [] Valid(d) /\ s = "E" -> "ok"
                  [] Valid(d) /\ s \in {"R", "Cl"} -> "ECONNREFUSED"
                  [] Valid(d) /\ s = "other" /\ d.n + 1 = Polls -> "ETIMEDOUT"
                  [] OTHER -> "again"
           y == [x EXCEPT !.pc.n = @ + 1]
           r == [fn |-> "connect", k |-> k, dial |-> TRUE, up |-> c.up]
<1>1. /\ x.live /\ d.fn = "connect" /\ UNCHANGED <<conv, eph, queries, ops>>
      /\ Becomes(p, IF k = "again" THEN y ELSE Returns(x, r))
  BY Zenon DEF ConnectPoll
<1>2. x \in ProcRec /\ d.conv \in Conv /\ c \in ConvRec /\ ConvOK(c) /\ d \in InConnect /\ CallOK(x)
  BY <1>1, InACall, CallOf, Zenon
<1>3. k \in {"ETIMEDOUT", "ok", "ECONNREFUSED", "again"} /\ (k = "ok" => s = "E")
  <2> HIDE DEF s, d
  <2>. QED
    OBVIOUS
<1>4. k = "ok" => c.up
  <2>1. s = "E" => c.tcb = "est"
    BY DEF StateName
  <2> HIDE DEF k
  <2>. QED
    BY <1>2, <1>3, <2>1 DEF ConvOK
<1> HIDE DEF k
<1>5. CountersOK
  BY <1>1, CallCounts
<1>6. k # "again" => QuietProc(x, Returns(x, r))
  <2> SUFFICES ASSUME k # "again" PROVE QuietProc(x, Returns(x, r))
    OBVIOUS
  <2>1. k \in Code /\ c.up \in BOOLEAN
    BY <1>2, <1>3 DEF Code, ConvRec
  <2>2. r \in Result /\ r.fn = "connect" /\ r.k = k /\ r.up = c.up
    BY <2>1 DEF Result
  <2> HIDE DEF r
  <2>. QED
    BY <1>1, <1>4, <2>2, ReturnQuiet
<1>7. QuietProc(x, y)
  <2> DEFINE e == [d EXCEPT !.n = d.n + 1]
  <2>1. e \in InConnect /\ e.fn = d.fn /\ e.conv = d.conv /\ e.gen = d.gen /\ e.tcp = d.tcp
    BY <1>2 DEF InConnect
  <2> HIDE DEF e
  <2>2. y.pc = e /\ y.fd = x.fd /\ y.live = x.live /\ y.ret = x.ret /\ y \in ProcRec
    BY <1>2, <2>1 DEF ProcRec, InCall, e
  <2> HIDE DEF y
  <2>3. SameSlots(x, y) /\ SameHeaders(x, y) /\ CallOK(y) /\ SameUse(y.pc, d)
    BY <1>1, <1>2, <2>1, <2>2 DEF SameSlots, SameUse, SameHeaders, CallOK
  <2>4. HasFd(y)
    BY <1>1, <2>1, <2>2, StillHere DEF HasFd, SameUse
  <2>5. Onward(x, y)
    BY <1>1, <2>1, <2>2, <2>3 DEF Onward
  <2>6. SameLookup(x, y)
    BY <1>1, <2>1, <2>2 DEF SameLookup
  <2>. QED
    BY <2>2, <2>3, <2>4, <2>5, <2>6 DEF QuietProc
<1> HIDE DEF y, r
<1>8. eph \in Nat /\ eph' = eph /\ queries' = queries
  BY <1>1 DEF SocketInv, SocketType
<1>9. \E q \in Proc : \E z : Becomes(q, z) /\ QuietProc(proc[q], z)
  BY <1>1, <1>6, <1>7
<1>. QED
  BY <1>1, <1>5, <1>8, <1>9, QuietAt

LEMMA AcceptOK ==
  ASSUME SocketInv, NEW p \in Proc, NEW f \in Fd, Accept(p, f), Reaches(proc[p].fd[f])
  PROVE  SocketInv'
<1> DEFINE d == proc[p].fd[f]
           c == [fn |-> "accept", conv |-> d.conv, tcp |-> d.tcp, gen |-> d.gen, parked |-> FALSE]
<1>1. Calls(p) /\ IsSocket(p, f) /\ Becomes(p, Enters(proc[p], c)) /\ UNCHANGED <<conv, eph, queries>>
  BY DEF Accept
<1>2. proc[p].live /\ proc[p].pc.fn = "none" /\ d \in NetFd
  BY <1>1, Caller
<1>3. c \in InRead /\ SameUse(c, d) /\ c.tcp = d.tcp /\ c.fn # "send"
  BY <1>2 DEF InRead, NetFd, SameUse
<1>4. CountersOK /\ eph <= eph'
  BY <1>1, CallCounts
<1> HIDE DEF c
<1>5. QuietProc(proc[p], Enters(proc[p], c))
  BY <1>1, <1>2, <1>3, EnterQuiet
<1>. QED
  BY <1>1, <1>4, <1>5, QuietAt

\* A datagram call that puts its socket into headers mode: the flag of the
\* conversation and of this descriptor, which are the same if it was not copied.
LEMMA Ensured ==
  ASSUME SocketInv, ~strayed, NEW p \in Proc, NEW f \in Fd, IsSocket(p, f), Valid(proc[p].fd[f]), Current(proc[p].fd[f]),
         \A i \in Conv : /\ Alike(conv[i], conv'[i])
                         /\ conv'[i].headers = (conv[i].headers \/ (i = proc[p].fd[f].conv)),
         \A r \in Proc : SameSlots(proc[r], proc'[r]),
         \A r \in Proc, g \in Fd : proc'[r].fd[g].kind = "net" => proc'[r].fd[g].headers = (proc[r].fd[g].headers \/ (r = p /\ g = f))
  PROVE  HeadersTrue'
<1> SUFFICES ASSUME NEW r \in Proc, NEW g \in Fd, proc'[r].fd[g].kind = "net", ~proc'[r].fd[g].copied,
                    proc'[r].fd[g].gen = conv'[proc'[r].fd[g].conv].gen
             PROVE  proc'[r].fd[g].headers = conv'[proc'[r].fd[g].conv].headers
  BY DEF HeadersTrue, IsSocket, Current
<1> DEFINE d == proc[p].fd[f]
           e == proc[r].fd[g]
<1>1. e.kind = "net" /\ proc'[r].fd[g].conv = e.conv /\ proc'[r].fd[g].gen = e.gen /\ ~e.copied
  BY DEF SameSlots, SameUse
<1>2. e.conv \in Conv /\ e \in NetFd /\ d \in NetFd
  BY <1>1, StillHere, CallOf DEF NetFd, IsSocket
<1>3. e.gen = conv[e.conv].gen /\ conv[e.conv] \in ConvRec
  BY <1>1, <1>2, StillHere DEF Alike
<1>4. e.headers = conv[e.conv].headers
  BY <1>1, <1>3, Zenon DEF SocketInv, HeadersTrue, IsSocket, Current
<1>5. e.headers \in BOOLEAN /\ conv[e.conv].headers \in BOOLEAN
  BY <1>2, <1>3 DEF NetFd, ConvRec
<1>6. (r = p /\ g = f) => e.conv = d.conv
  OBVIOUS
<1>7. e.conv = d.conv => (r = p /\ g = f)
  <2> SUFFICES ASSUME e.conv = d.conv, ~(r = p /\ g = f) PROVE FALSE
    OBVIOUS
  <2>1. SameUse(e, d)
    BY <1>3 DEF SameUse, Current
  <2>2. <<r, g>> # <<p, f>>
    OBVIOUS
  <2>3. Single
    BY DEF SocketInv
  <2>. QED
    BY <1>1, <2>1, <2>2, <2>3 DEF Single, IsSocket
<1>8. conv'[e.conv].headers = (conv[e.conv].headers \/ (e.conv = d.conv))
  BY <1>2
<1>9. proc'[r].fd[g].headers = (e.headers \/ (r = p /\ g = f))
  OBVIOUS
<1> HIDE DEF d, e
<1>. QED
  BY <1>1, <1>4, <1>6, <1>7, <1>8, <1>9

LEMMA ConvHeaders ==
  ASSUME SocketInv, NEW i \in Conv, conv[i].proto = "udp"
  PROVE  LET e == [conv[i] EXCEPT !.headers = TRUE] IN
         e \in ConvRec /\ ConvOK(e) /\ Alike(conv[i], e) /\ Lines(conv[i], e) /\ e.gen = conv[i].gen
<1> DEFINE c == conv[i]
           e == [c EXCEPT !.headers = TRUE]
<1>1. c \in ConvRec /\ ConvOK(c)
  BY StillHere
<1>2. e \in ConvRec /\ e.tcb = c.tcb /\ e.aq = c.aq /\ e.gen = c.gen
  BY <1>1 DEF ConvRec
<1>3. ConvOK(e)
  BY <1>1 DEF ConvRec, ConvOK
<1>4. Alike(c, e)
  BY <1>1 DEF ConvRec, Alike
<1>5. Lines(c, e)
  BY <1>2, WithinSelf DEF Lines
<1>. QED
  BY <1>2, <1>3, <1>4, <1>5
LEMMA HeaderCall ==
  ASSUME SocketInv, NEW p \in Proc, NEW f \in Fd, Calls(p), IsSocket(p, f), Reaches(proc[p].fd[f]), UNCHANGED <<eph, queries>>,
         NEW hdr \in BOOLEAN, hdr => ~proc[p].fd[f].tcp,
         NEW c \in InRead \cup InSend, SameUse(c, proc[p].fd[f]), c.tcp = proc[p].fd[f].tcp, c.fn = "send" => c.done = c.took,
         NEW r \in Result, r.fn \notin {"dns", "connect"}, r.fn = "send" => r.n = r.took \/ (r.n = -1 /\ r.took = 0),
         conv' = IF hdr THEN EnsureHeaders(proc[p].fd[f]) ELSE conv,
         Becomes(p, IF hdr /\ ~proc[p].fd[f].headers /\ ~Valid(proc[p].fd[f]) THEN Returns(proc[p], r)
                    ELSE Enters(IF hdr THEN WithHeaders(p, f) ELSE proc[p], c))
  PROVE  SocketInv'
<1> DEFINE x == proc[p]
           d == x.fd[f]
           i == d.conv
           e == [conv[i] EXCEPT !.headers = TRUE]
           w == WithHeaders(p, f)
           y == Enters(w, c)
<1>1. CountersOK /\ eph <= eph' /\ (strayed => strayed')
  BY CallCounts DEF SocketInv, SocketType
<1>2. /\ x \in ProcRec /\ x.live /\ x.pc = Idle /\ x.pc.fn = "none" /\ d \in NetFd /\ i \in Conv /\ NameOK(d)
      /\ conv[i] \in ConvRec /\ ConvOK(conv[i])
  BY Caller
<1>3. CASE ~hdr
  <2>1. conv' = conv /\ Becomes(p, Enters(x, c))
    BY <1>3
  <2>2. QuietProc(x, Enters(x, c))
    BY <1>2, EnterQuiet
  <2>. QED
    BY <1>1, <2>1, <2>2, QuietAt
<1>4. CASE hdr /\ ~d.headers /\ ~Valid(d)
  <2>1. conv' = conv /\ Becomes(p, Returns(x, r))
    BY <1>4 DEF EnsureHeaders
  <2>2. QuietProc(x, Returns(x, r))
    BY <1>2, ReturnQuiet
  <2>. QED
    BY <1>1, <2>1, <2>2, QuietAt
<1>5. CASE hdr /\ (d.headers \/ Valid(d))
  <2> DEFINE b == d.headers \/ Valid(d)
             dd == [d EXCEPT !.headers = b]
             fd == [x.fd EXCEPT ![f] = dd]
  <2>1. b \in BOOLEAN /\ b
    BY <1>5 DEF Valid
  <2>2. Becomes(p, y)
    BY <1>5
  <2> HIDE DEF b
  <2>3. /\ dd \in NetFd /\ dd.kind = "net" /\ SameUse(dd, d) /\ dd.tcp = d.tcp /\ dd.copied = d.copied
        /\ dd.headers = TRUE
    BY <1>2, <2>1 DEF NetFd, SameUse
  <2>4. x.fd \in Slots
    BY <1>2, CallOf
  <2> HIDE DEF dd
  <2>5. fd \in Slots /\ fd[f] = dd /\ \A g \in Fd : g # f => fd[g] = x.fd[g]
    BY <2>3, <2>4 DEF Slots
  <2>6. w.fd = fd /\ w.live = x.live /\ w \in ProcRec
    <3>1. w = [x EXCEPT !.fd = fd]
      BY <1>2 DEF WithHeaders, ProcRec, dd, b
    <3> HIDE DEF w, fd
    <3>. QED
      BY <1>2, <2>5, <3>1 DEF ProcRec
  <2> HIDE DEF fd, w
  <2>7. c \in InCall /\ c.fn \in {"accept", "recv", "send"}
    BY DEF InCall, InRead, InSend
  <2>8. y \in ProcRec /\ y.live = x.live /\ y.fd = fd /\ y.pc = c /\ y.ret = Idle /\ y.ret.fn = "none"
    BY <2>6, <2>7, IdleResult DEF Enters, ProcRec
  <2> HIDE DEF y
  <2>9. CallOK(y) /\ SameSlots(x, y)
    BY <2>3, <2>5, <2>8 DEF CallOK, SameSlots, SameUse, IsSocket
  <2>10. ASSUME strayed' \/ HeadersTrue' \/ SameHeaders(x, y)
         PROVE  QuietProc(x, y)
    BY <1>2, <2>7, <2>8, <2>9, <2>10, ProcQuiet DEF IsSocket
  <2>11. CASE d.headers
    <3>1. conv' = conv
      BY <1>5, <2>11 DEF EnsureHeaders
    <3>2. SameHeaders(x, y)
      BY <1>2, <2>3, <2>5, <2>8, <2>11 DEF SameHeaders, NetFd
    <3>. QED
      BY <1>1, <2>2, <2>10, <3>1, <3>2, QuietAt
  <2>12. CASE ~d.headers
    <3>1. Valid(d) /\ conv' = [conv EXCEPT ![i] = e]
      BY <1>5, <2>12 DEF EnsureHeaders
    <3>2. conv[i].proto = "udp"
      BY <1>2, <1>5, <3>1, Zenon DEF Valid, ConvRec
    <3>3. /\ e \in ConvRec /\ ConvOK(e) /\ Alike(conv[i], e) /\ Lines(conv[i], e) /\ e.headers = TRUE
      BY <1>2, <3>2, ConvHeaders, Zenon DEF ConvRec
    <3> HIDE DEF e
    <3>4. conv \in [Conv -> ConvRec] /\ proc \in [Proc -> ProcRec] /\ strayed \in BOOLEAN
      BY DEF SocketInv, SocketType
    <3>5. \A j \in Conv : Alike(conv[j], conv'[j]) /\ conv'[j].headers = (conv[j].headers \/ (j = i))
      <4> TAKE j \in Conv
      <4>1. CASE j = i
        BY <1>2, <3>1, <3>3, <3>4, <4>1
      <4>2. CASE j # i
        <5>1. conv'[j] = conv[j] /\ conv[j].headers \in BOOLEAN
          BY <3>1, <3>4, <4>2 DEF ConvRec
        <5>. QED
          BY <4>2, <5>1 DEF Alike
      <4>. QED
        BY <4>1, <4>2
    <3>6. proc' = [proc EXCEPT ![p] = y]
      BY <2>2 DEF Becomes
    <3>7. \A q \in Proc : SameSlots(proc[q], proc'[q])
      BY <2>9, <3>4, <3>6 DEF SameSlots, SameUse
    <3>8. ASSUME NEW q \in Proc, NEW g \in Fd, proc'[q].fd[g].kind = "net"
          PROVE  proc'[q].fd[g].headers = (proc[q].fd[g].headers \/ (q = p /\ g = f))
      <4>1. CASE q = p /\ g = f
        BY <2>3, <2>5, <2>8, <3>4, <3>6, <4>1
      <4>2. CASE ~(q = p /\ g = f)
        <5>1. proc'[q].fd[g] = proc[q].fd[g]
          BY <2>5, <2>8, <3>4, <3>6, <4>2
        <5>2. proc[q] \in ProcRec
          BY <3>4
        <5>3. proc[q].fd[g].headers \in BOOLEAN
          BY <3>8, <5>1, <5>2, CallOf DEF NetFd
        <5>. QED
          BY <4>2, <5>1, <5>3
      <4>. QED
        BY <4>1, <4>2
    <3>9. strayed' \/ HeadersTrue'
      <4>1. ~strayed' => ~strayed /\ Current(d)
        BY <3>1, <3>4, Reached
      <4>. QED
        BY <3>1, <3>5, <3>7, <3>8, <4>1, Ensured
    <3>10. QuietConv(i, e)
      <4>1. HeadersTrue' => QuietConv(i, e)
        BY <1>2, <3>1, <3>3, ReachedQuiet
      <4>2. strayed' => QuietConv(i, e)
        BY <3>3 DEF QuietConv
      <4>. QED
        BY SMTT(30), <3>9, <4>1, <4>2
    <3>11. QuietProc(x, y)
      BY <2>10, <3>9
    <3>. QED
      BY <1>1, <1>2, <2>2, <3>1, <3>10, <3>11, QuietAt
  <2>. QED
    BY <2>11, <2>12
<1>. QED
  BY <1>3, <1>4, <1>5

LEMMA RecvOK ==
  ASSUME SocketInv, NEW p \in Proc, NEW f \in Fd, NEW from \in BOOLEAN, Recv(p, f, from), Reaches(proc[p].fd[f])
  PROVE  SocketInv'
<1> DEFINE d == proc[p].fd[f]
           c == [fn |-> "recv", conv |-> d.conv, tcp |-> d.tcp, gen |-> d.gen, parked |-> FALSE]
           r == [fn |-> "recv", k |-> "EINVAL"]
           hdr == from /\ ~d.tcp
<1>1. Calls(p) /\ IsSocket(p, f) /\ UNCHANGED <<eph, queries>> /\ conv' = IF hdr THEN EnsureHeaders(d) ELSE conv
  BY DEF Recv
<1>2. Becomes(p, IF hdr /\ ~d.headers /\ ~Valid(d) THEN Returns(proc[p], r)
                 ELSE Enters(IF hdr THEN WithHeaders(p, f) ELSE proc[p], c))
  BY DEF Recv
<1>3. d \in NetFd
  BY <1>1, Caller
<1>4. c \in InRead /\ SameUse(c, d) /\ c.tcp = d.tcp /\ c.fn = "recv"
  BY <1>3 DEF InRead, NetFd, SameUse
<1>5. r \in Result /\ r.fn = "recv"
  BY DEF Result, Code
<1>6. hdr \in BOOLEAN /\ (hdr => ~d.tcp)
  OBVIOUS
<1> HIDE DEF c, r, hdr
<1>. QED
  BY <1>1, <1>2, <1>4, <1>5, <1>6, HeaderCall

LEMMA SendOK ==
  ASSUME SocketInv, NEW p \in Proc, NEW f \in Fd, NEW n \in Nat, NEW to \in BOOLEAN, Send(p, f, n, to), Reaches(proc[p].fd[f])
  PROVE  SocketInv'
<1> DEFINE d == proc[p].fd[f]
           c == [fn |-> "send", conv |-> d.conv, tcp |-> d.tcp, gen |-> d.gen, left |-> n, done |-> 0, took |-> 0]
           r == [fn |-> "send", n |-> -1, took |-> 0]
           hdr == to /\ ~d.tcp
<1>1. Calls(p) /\ IsSocket(p, f) /\ UNCHANGED <<eph, queries>> /\ conv' = IF hdr THEN EnsureHeaders(d) ELSE conv
  BY DEF Send
<1>2. Becomes(p, IF hdr /\ ~d.headers /\ ~Valid(d) THEN Returns(proc[p], r)
                 ELSE Enters(IF hdr THEN WithHeaders(p, f) ELSE proc[p], c))
  BY DEF Send
<1>3. d \in NetFd
  BY <1>1, Caller
<1>4. c \in InSend /\ SameUse(c, d) /\ c.tcp = d.tcp /\ c.done = c.took
  BY <1>3 DEF InSend, NetFd, SameUse
<1>5. r \in Result /\ r.fn = "send" /\ r.n = -1 /\ r.took = 0
  BY DEF Result
<1>6. hdr \in BOOLEAN /\ (hdr => ~d.tcp)
  OBVIOUS
<1> HIDE DEF c, r, hdr
<1>. QED
  BY <1>1, <1>2, <1>4, <1>5, <1>6, HeaderCall
-----------------------------------------------------------------------------
(* net_send's writes, and datagrams that come in.                            *)

LEMMA TakenOf ==
  ASSUME SocketInv, NEW p \in Proc, proc[p].pc.fn = "send"
  PROVE  LET d == proc[p].pc
             w == Taken(d, d.left)
         IN /\ w \in Int /\ w >= -1 /\ w <= d.left /\ (~d.tcp => w = d.left \/ w = -1)
            /\ w >= 0 => Valid(d)
            /\ w >= 0 /\ d.tcp => w <= Buf - conv[d.conv].slen
<1> DEFINE d == proc[p].pc
           c == conv[d.conv]
           n == d.left
           w == Taken(d, n)
           room == Buf - c.slen
<1>1. d \in InSend /\ c \in ConvRec /\ ConvOK(c)
  BY InACall, CallOf
<1>2. n \in Nat /\ room \in Nat /\ d.tcp \in BOOLEAN /\ c.wfin \in BOOLEAN /\ c.headers \in BOOLEAN
  <2>1. n \in Nat /\ d.tcp \in BOOLEAN
    BY <1>1 DEF InSend
  <2>2. c.slen \in 0 .. Buf /\ Buf \in Nat
    BY <1>1, SocketConstants DEF ConvOK
  <2>3. c.wfin \in BOOLEAN /\ c.headers \in BOOLEAN
    BY <1>1 DEF ConvRec
  <2>. QED
    BY <2>1, <2>2, <2>3
<1>3. \/ w = -1
      \/ Valid(d) /\ d.tcp /\ w = IF n < room THEN n ELSE room
      \/ Valid(d) /\ ~d.tcp /\ w \in {n, -1}
  <2>1. CASE ~Valid(d)
    BY <2>1 DEF Taken
  <2>2. CASE Valid(d) /\ d.tcp /\ (c.wfin \/ c.tcb \notin {"est", "cwait", "synsent", "synrcvd"})
    BY <2>2 DEF Taken
  <2>3. CASE Valid(d) /\ d.tcp /\ ~(c.wfin \/ c.tcb \notin {"est", "cwait", "synsent", "synrcvd"})
    BY <2>3 DEF Taken
  <2>4. CASE Valid(d) /\ ~d.tcp
    BY <2>4 DEF Taken
  <2>. QED
    BY <2>1, <2>2, <2>3, <2>4
<1> HIDE DEF w, n, room, c
<1>4. w \in Int /\ w >= -1 /\ w <= n
  BY <1>2, <1>3
<1>5. ~d.tcp => w = n \/ w = -1
  BY <1>2, <1>3
<1>6. w >= 0 => Valid(d)
  BY <1>3
<1>7. w >= 0 /\ d.tcp => w <= room
  BY <1>2, <1>3
<1>. QED
  BY <1>4, <1>5, <1>6, <1>7 DEF w, n, room, c

LEMMA SendStepOK ==
  ASSUME SocketInv, NEW p \in Proc, SendStep(p), Reaches(proc[p].pc)
  PROVE  SocketInv'
<1> DEFINE x == proc[p]
           d == x.pc
           i == d.conv
           w == Taken(d, d.left)
           c == conv[i]
           t == d.took + (IF w > 0 THEN w ELSE 0)
           over == w < 0 \/ w = d.left \/ ~d.tcp
           r == [fn |-> "send", n |-> Sent(d, w), took |-> t]
           y == [x EXCEPT !.pc.left = @ - w, !.pc.done = @ + w, !.pc.took = t]
           e == [c EXCEPT !.slen = @ + w]
           u == [c EXCEPT !.lport = 1000 + eph]
<1>1. x.live /\ d.fn = "send" /\ UNCHANGED <<queries, ops>>
  BY DEF SendStep
<1>2. \/ conv' = conv
      \/ w > 0 /\ d.tcp /\ conv' = [conv EXCEPT ![i] = e]
      \/ w > 0 /\ ~d.tcp /\ conv' = [conv EXCEPT ![i] = u]
  <2>1. conv' = CASE w > 0 /\ d.tcp -> [conv EXCEPT ![d.conv].slen = @ + w]
                  [] w > 0 /\ ~d.tcp /\ c.lport = 0 -> [conv EXCEPT ![d.conv].lport = 1000 + eph]
                  [] OTHER -> conv
    BY DEF SendStep
  <2> DEFINE pos == w > 0
  <2>2. conv' = CASE pos /\ d.tcp -> [conv EXCEPT ![d.conv] = e]
                  [] pos /\ ~d.tcp /\ c.lport = 0 -> [conv EXCEPT ![d.conv] = u]
                  [] OTHER -> conv
    BY <2>1
  <2> HIDE DEF pos, w, e, u, d, c
  <2>3. CASE pos /\ d.tcp
    BY <2>2, <2>3 DEF pos
  <2>4. CASE pos /\ ~d.tcp /\ c.lport = 0
    BY <2>2, <2>4 DEF pos
  <2>5. CASE ~(pos /\ d.tcp) /\ ~(pos /\ ~d.tcp /\ c.lport = 0)
    BY SMTT(30), <2>2, <2>5
  <2>. QED
    BY <2>3, <2>4, <2>5
<1>3. eph' = eph \/ eph' = eph + 1
  BY DEF SendStep
<1>4. Becomes(p, IF over THEN Returns(x, r) ELSE y)
  BY DEF SendStep
<1>5. CountersOK /\ eph <= eph' /\ (strayed => strayed')
  BY <1>1, <1>3, CallCounts
<1>6. x \in ProcRec /\ CallOK(x) /\ i \in Conv /\ c \in ConvRec /\ ConvOK(c) /\ d \in InSend /\ d.done = d.took
  BY <1>1, InACall, CallOf DEF CallOK
<1>7. /\ w \in Int /\ w >= -1 /\ w <= d.left /\ (~d.tcp => w = d.left \/ w = -1)
      /\ (w >= 0 => Valid(d)) /\ (w >= 0 /\ d.tcp => w <= Buf - c.slen)
  BY <1>1, TakenOf
<1>8. d.left \in Nat /\ d.done \in Nat /\ d.took \in Nat /\ c.slen \in Nat /\ Buf \in Nat /\ d.tcp \in BOOLEAN
  BY <1>6, SocketConstants DEF InSend, ConvOK
<1> HIDE DEF w
<1>9. t \in Nat /\ (w >= 0 => t = d.took + w) /\ (w < 0 => t = d.took)
  BY <1>7, <1>8
<1> HIDE DEF t
<1>10. ASSUME w > 0, d.tcp
       PROVE  QuietConv(i, e)
  <2>1. Valid(d) /\ c.proto = "tcp" /\ c.slen + w \in 0 .. Buf
    <3>1. Valid(d) /\ w <= Buf - c.slen
      BY <1>7, <1>8, <1>10
    <3>2. c.slen + w \in 0 .. Buf
      BY <1>7, <1>8, <1>10, <3>1
    <3>3. c.proto = "tcp"
      BY <1>10, <3>1 DEF Valid
    <3>. QED
      BY <3>1, <3>2, <3>3
  <2> DEFINE s == c.slen + w
  <2>2. s \in Int /\ s \in 0 .. Buf
    BY <2>1
  <2>3. e = [c EXCEPT !.slen = s]
    OBVIOUS
  <2> HIDE DEF s
  <2>4. e \in ConvRec /\ ConvOK(e) /\ SameConn(c, e)
    BY <1>6, <2>2, <2>3, SentRec
  <2> HIDE DEF e
  <2>. QED
    BY <1>5, <1>6, <2>1, <2>4, ConnQuiet
<1>11. ASSUME w > 0, ~d.tcp
       PROVE  QuietConv(i, u)
  <2>1. Valid(d)
    BY <1>7, <1>11
  <2>2. eph \in Nat /\ strayed \in BOOLEAN
    BY DEF SocketInv, SocketType
  <2>3. u \in ConvRec /\ ConvOK(u) /\ u.tcb = c.tcb /\ u.aq = c.aq /\ u.headers = c.headers /\ Alike(c, u)
    <3> DEFINE n == 1000 + eph
    <3>1. n \in Nat \cup Port
      BY <2>2
    <3> HIDE DEF n
    <3>2. LET v == [c EXCEPT !.lport = n] IN
          v \in ConvRec /\ ConvOK(v) /\ Alike(c, v) /\ v.tcb = c.tcb /\ v.aq = c.aq /\ v.headers = c.headers
      BY <1>6, <3>1, PortRec
    <3>. QED
      BY <3>2 DEF n
  <2>4. Lines(c, u)
    BY <2>3, WithinSelf DEF Lines
  <2>5. ~strayed' => ~strayed /\ Current(d)
    BY <2>1, <2>2, Reached
  <2>6. ~strayed' => \E f \in Fd : IsSocket(p, f) /\ x.fd[f].conv = i /\ Current(x.fd[f])
    BY <1>1, <2>5, CallIsCurrent
  <2>7. ~strayed' => ~Asked(i)
    BY <1>1, <2>5, <2>6, NotAsked
  <2> HIDE DEF u
  <2>. QED
    BY <2>3, <2>4, <2>7 DEF QuietConv
<1>12. over => QuietProc(x, Returns(x, r))
  <2> DEFINE m == Sent(d, w)
  <2>1. m \in Int /\ (over => m = t \/ (m = -1 /\ t = 0))
    BY <1>6, <1>7, <1>8, <1>9 DEF Sent
  <2> HIDE DEF m
  <2>2. r \in Result /\ r.fn = "send" /\ r.n = m /\ r.took = t
    BY <1>9, <2>1 DEF Result, m
  <2> HIDE DEF r
  <2>. QED
    BY <1>1, <2>1, <2>2, ReturnQuiet
<1>13. ~over => QuietProc(x, y)
  <2> SUFFICES ASSUME ~over PROVE QuietProc(x, y)
    OBVIOUS
  <2> DEFINE a == d.left - w
             b == d.done + w
             z == [[[d EXCEPT !.left = a] EXCEPT !.done = b] EXCEPT !.took = t]
  <2>1. a \in Nat /\ b \in Nat /\ b = t
    BY <1>6, <1>7, <1>8, <1>9
  <2> HIDE DEF a, b
  <2>2. z \in InSend /\ z.fn = "send" /\ z.conv = d.conv /\ z.gen = d.gen /\ z.tcp = d.tcp /\ z.done = z.took
    BY <1>6, <1>9, <2>1 DEF InSend
  <2>3. y.pc = z
    BY <1>6 DEF ProcRec, InSend, a, b
  <2> HIDE DEF z
  <2>4. y.fd = x.fd /\ y.live = x.live /\ y.ret = x.ret /\ y \in ProcRec
    BY <1>6, <2>2, <2>3 DEF ProcRec, InCall
  <2> HIDE DEF y
  <2>5. SameSlots(x, y) /\ SameHeaders(x, y) /\ CallOK(y) /\ SameUse(y.pc, d)
    BY <1>6, <2>2, <2>3, <2>4 DEF SameSlots, SameUse, SameHeaders, CallOK
  <2>6. HasFd(y)
    BY <1>1, <2>2, <2>3, <2>4, StillHere DEF HasFd, SameUse
  <2>7. Onward(x, y)
    BY <1>1, <2>2, <2>3, <2>4, <2>5 DEF Onward
  <2>8. SameLookup(x, y)
    BY <2>2, <2>3, <2>4 DEF SameLookup
  <2>. QED
    BY <2>4, <2>5, <2>6, <2>7, <2>8 DEF QuietProc
<1> HIDE DEF e, u, r, y, over
<1>14. conv' = conv \/ \E k \in Conv : \E z : conv' = [conv EXCEPT ![k] = z] /\ QuietConv(k, z)
  BY <1>2, <1>6, <1>10, <1>11
<1>15. \E q \in Proc : \E z : Becomes(q, z) /\ QuietProc(proc[q], z)
  BY <1>4, <1>12, <1>13
<1>. QED
  BY <1>1, <1>5, <1>14, <1>15, QuietAt

LEMMA UdpInputOK ==
  ASSUME SocketInv, strayed' = strayed, NEW port, NEW from, NEW v \in Dgram, UdpInput(port, from, v),
         \/ v.who = 0
         \/ \E m \in queries : v.who = m.who /\ v.name = m.name /\ port = m.port
  PROVE  SocketInv'
<1>1. PICK i \in UdpMatch(port, from) :
        Len(conv[i].q) < Buf /\ Changes(i, [conv[i] EXCEPT !.q = Append(@, v)])
  BY DEF UdpInput
<1> DEFINE c == conv[i]
           e == [c EXCEPT !.q = Append(c.q, v)]
<1>2. i \in Conv /\ c.st # "free" /\ c.proto = "udp" /\ c.lport = port
  BY <1>1 DEF UdpMatch
<1>3. c \in ConvRec /\ ConvOK(c) /\ c.q \in Seq(Dgram) /\ Len(c.q) \in Nat /\ DOMAIN c.q = 1 .. Len(c.q)
  BY <1>2, StillHere, LenProperties DEF ConvRec
<1>4. /\ Append(c.q, v) \in Seq(Dgram) /\ Len(Append(c.q, v)) = Len(c.q) + 1
      /\ \A n \in 1 .. Len(c.q) : Append(c.q, v)[n] = c.q[n]
      /\ Append(c.q, v)[Len(c.q) + 1] = v
  BY <1>3, AppendProperties
<1>5. e \in ConvRec /\ e.q = Append(c.q, v) /\ e.tcb = c.tcb /\ e.aq = c.aq /\ e.headers = c.headers /\ e.lport = c.lport
  BY <1>3, <1>4 DEF ConvRec
<1>6. ConvOK(e)
  <2>1. Len(Append(c.q, v)) <= Buf
    BY <1>1, <1>3, <1>4, SocketConstants
  <2> DEFINE s == Append(c.q, v)
  <2>2. Len(s) <= Buf
    BY <2>1
  <2> HIDE DEF s
  <2>. QED
    BY <1>3, <2>2 DEF ConvOK, ConvRec, s
<1>7. Alike(c, e)
  BY <1>3 DEF Alike, ConvRec
<1>8. Lines(c, e)
  BY <1>5, WithinSelf DEF Lines
<1>9. ~strayed => FitsProc(i, v)
  <2> SUFFICES ASSUME ~strayed, NEW p \in Proc, proc[p].pc.fn = "dns", proc[p].pc.conv = i, v.who = p
               PROVE  v.name = proc[p].pc.name
    BY DEF FitsProc
  <2>1. Lookup(p)
    BY LookupIsUdp
  <2>2. v.who # 0
    BY SocketConstants
  <2>3. PICK m \in queries : v.who = m.who /\ v.name = m.name /\ port = m.port
    BY <2>2
  <2>. QED
    BY <1>2, <2>1, <2>3 DEF Lookup
<1>10. ~strayed => Still(i, e)
  <2> SUFFICES ASSUME ~strayed PROVE Still(i, e)
    OBVIOUS
  <2>1. ASSUME NEW n \in 1 .. Len(e.q)
        PROVE  FitsProc(i, e.q[n]) \/ \E m \in 1 .. Len(c.q) : e.q[n] = c.q[m]
    <3>1. CASE n \in 1 .. Len(c.q)
      BY <1>4, <1>5, <3>1
    <3>2. CASE n = Len(c.q) + 1
      BY <1>4, <1>5, <1>9, <3>2
    <3>. QED
      BY <1>3, <1>4, <1>5, <2>1, <3>1, <3>2
  <2>. QED
    BY <1>5, <2>1 DEF Still
<1>11. QuietConv(i, e)
  BY <1>5, <1>6, <1>7, <1>8, <1>10 DEF QuietConv
<1>12. conv' = [conv EXCEPT ![i] = e] /\ UNCHANGED <<proc, eph, queries, ops>>
  BY <1>1 DEF Changes
<1> HIDE DEF e
<1>13. CountersOK /\ eph <= eph'
  BY <1>12 DEF CountersOK, SocketInv, SocketType
<1>. QED
  BY <1>2, <1>11, <1>12, <1>13, QuietAt
-----------------------------------------------------------------------------
(* Reads that are answered with no connection.                               *)

\* A call goes on as z, with nothing else of its process changed.
LEMMA PcQuiet ==
  ASSUME SocketInv, NEW p \in Proc, proc[p].pc.fn \in {"accept", "recv", "dns"},
         NEW z \in InCall, z.fn = proc[p].pc.fn, SameUse(z, proc[p].pc), z.tcp = proc[p].pc.tcp,
         z.fn = "dns" =>
           /\ z.f = proc[p].pc.f /\ z.name = proc[p].pc.name /\ (z.step = "connect") = (proc[p].pc.step = "connect")
           /\ strayed' \/ z.got = proc[p].pc.got \/ z.got \in {"none", z.name}
  PROVE  LET y == [proc[p] EXCEPT !.pc = z] IN QuietProc(proc[p], y) /\ y.fd = proc[p].fd
<1> DEFINE x == proc[p]
           y == [x EXCEPT !.pc = z]
<1>1. x \in ProcRec /\ CallOK(x) /\ HasFd(x) /\ x.live
  BY InACall, StillHere
<1>2. y \in ProcRec /\ y.live = x.live /\ y.fd = x.fd /\ y.pc = z /\ y.ret = x.ret
  BY <1>1 DEF ProcRec
<1> HIDE DEF y
<1>3. CallOK(y) /\ SameSlots(x, y) /\ SameHeaders(x, y)
  BY <1>1, <1>2 DEF CallOK, SameSlots, SameHeaders, SameUse
<1>4. HasFd(y)
  BY <1>1, <1>2 DEF HasFd, SameUse
<1>5. Onward(x, y)
  BY <1>1, <1>2, <1>3 DEF Onward
<1>6. strayed' \/ SameLookup(x, y)
  BY <1>2 DEF SameLookup
<1>. QED
  BY <1>2, <1>3, <1>4, <1>5, <1>6 DEF QuietProc, y

LEMMA AnswerQuiet ==
  ASSUME SocketInv, NEW p \in Proc, Waits(proc[p]), NEW r, r.k \in {"retry", "eof", "err", "data"},
         r.k = "data" => r.d \in Dgram,
         ~strayed' /\ proc[p].pc.fn = "dns" /\ r.k = "data" /\ r.d.who = p => r.d.name = proc[p].pc.name
  PROVE  QuietProc(proc[p], Answer(proc[p], p, r)) /\ Answer(proc[p], p, r).fd = proc[p].fd
<1> DEFINE x == proc[p]
           d == x.pc
           y == Answer(x, p, r)
<1>1. d.fn \in {"accept", "recv", "dns"} /\ d.fn # "none" /\ (d.fn = "dns" => d.step = "read")
  BY DEF Waits
<1>2. x \in ProcRec /\ x.live
  BY <1>1, InACall
<1>3. CASE d.fn = "dns"
  <2> DEFINE mine == r.k = "data" /\ r.d.who = p
             found == mine /\ r.d.kind = "addr"
             stop == found \/ (mine /\ r.d.kind = "error") \/ d.n + 1 = Attempts
             got == IF found THEN r.d.name ELSE "none"
             z1 == [d EXCEPT !.parked = FALSE, !.step = "close", !.got = got]
             n == d.n + 1
             z2 == [d EXCEPT !.parked = FALSE, !.step = "write", !.n = n]
  <2>1. d \in InDns
    BY <1>2, <1>3, CallOf
  <2>2. got \in Name \cup {"none"} /\ n \in Nat
    <3>1. found => r.d \in Dgram
      OBVIOUS
    <3>2. found => r.d.name \in Name \cup {"none"}
      BY <3>1 DEF Dgram
    <3> HIDE DEF found
    <3>3. got \in Name \cup {"none"}
      BY <3>2
    <3>. QED
      <4>1. d.n \in Nat
        BY <2>1 DEF InDns
      <4>. QED
        BY <3>3, <4>1
  <2>3. strayed' \/ got \in {"none", d.name}
    BY <1>3
  <2>4. y = IF stop THEN [x EXCEPT !.pc = z1] ELSE [x EXCEPT !.pc = z2]
    <3> DEFINE x1 == [x EXCEPT !.pc.parked = FALSE]
               d1 == [d EXCEPT !.parked = FALSE]
    <3>1. y = DnsAnswer(x1, p, r)
      BY <1>3 DEF Answer
    <3>2. x1.pc = d1 /\ d1.n = d.n /\ x1 = [x EXCEPT !.pc = d1]
      BY <1>2, <2>1 DEF ProcRec, InDns
    <3>3. DnsAnswer(x1, p, r) = IF stop THEN [x1 EXCEPT !.pc = [d1 EXCEPT !.step = "close", !.got = got]]
                                ELSE [x1 EXCEPT !.pc = [d1 EXCEPT !.step = "write", !.n = n]]
      <4> HIDE DEF x1
      <4>1. DnsAnswer(x1, p, r) =
              IF found \/ (mine /\ r.d.kind = "error") \/ x1.pc.n + 1 = Attempts
              THEN [x1 EXCEPT !.pc.step = "close", !.pc.got = got]
              ELSE [x1 EXCEPT !.pc.step = "write", !.pc.n = @ + 1]
        BY DEF DnsAnswer
      <4>2. x1 \in ProcRec
        <5>1. d1 \in InDns
          BY <2>1 DEF InDns
        <5> HIDE DEF d1
        <5>. QED
          BY <1>2, <3>2, <5>1 DEF ProcRec, InCall
      <4>3. [x1 EXCEPT !.pc.step = "close", !.pc.got = got] = [x1 EXCEPT !.pc = [x1.pc EXCEPT !.step = "close", !.got = got]]
        <5> HIDE DEF got, d1
        <5>. QED
          BY <4>2 DEF ProcRec
      <4>4. [x1 EXCEPT !.pc.step = "write", !.pc.n = @ + 1] = [x1 EXCEPT !.pc = [x1.pc EXCEPT !.step = "write", !.n = x1.pc.n + 1]]
        <5> HIDE DEF d1
        <5>. QED
          BY <2>1, <3>2, <4>2 DEF ProcRec
      <4> HIDE DEF d1, found, mine, got
      <4>. QED
        BY <3>2, <4>1, <4>3, <4>4
    <3>4. [d1 EXCEPT !.step = "close", !.got = got] = z1 /\ [d1 EXCEPT !.step = "write", !.n = n] = z2
      <4> HIDE DEF got, n
      <4>. QED
        BY <2>1 DEF InDns
    <3>5. [x1 EXCEPT !.pc = z1] = [x EXCEPT !.pc = z1] /\ [x1 EXCEPT !.pc = z2] = [x EXCEPT !.pc = z2]
      <4> HIDE DEF x1, d1, z1, z2
      <4>. QED
        BY <1>2, <3>2 DEF ProcRec
    <3> HIDE DEF x1, d1, z1, z2, stop, y, got, n
    <3>. QED
      BY <3>1, <3>3, <3>4, <3>5
  <2> HIDE DEF got, n, stop
  <2>5. z1 \in InDns /\ z1.f = d.f /\ z1.name = d.name /\ z1.conv = d.conv /\ z1.gen = d.gen /\ z1.tcp = d.tcp
        /\ z1.fn = d.fn /\ z1.step = "close" /\ z1.got = got
    BY <2>1, <2>2 DEF InDns
  <2>6. z2 \in InDns /\ z2.f = d.f /\ z2.name = d.name /\ z2.conv = d.conv /\ z2.gen = d.gen /\ z2.tcp = d.tcp
        /\ z2.fn = d.fn /\ z2.step = "write" /\ z2.got = d.got
    BY <2>1, <2>2 DEF InDns
  <2> HIDE DEF z1, z2, y
  <2>7. z1 \in InCall /\ z2 \in InCall
    BY <2>5, <2>6 DEF InCall
  <2>8. LET e == [x EXCEPT !.pc = z1] IN QuietProc(x, e) /\ e.fd = x.fd
    BY <1>1, <1>3, <2>3, <2>5, <2>7, PcQuiet DEF SameUse
  <2>9. LET e == [x EXCEPT !.pc = z2] IN QuietProc(x, e) /\ e.fd = x.fd
    BY <1>1, <1>3, <2>6, <2>7, PcQuiet DEF SameUse
  <2>. QED
    BY <2>4, <2>8, <2>9 DEF y
<1>4. CASE d.fn # "dns" /\ r.k = "retry"
  <2> DEFINE z == [d EXCEPT !.parked = FALSE]
  <2>1. d \in InRead
    BY <1>1, <1>2, <1>4, CallOf
  <2>2. z \in InRead /\ z.fn = d.fn /\ z.conv = d.conv /\ z.gen = d.gen /\ z.tcp = d.tcp
    BY <2>1 DEF InRead
  <2>3. y = [x EXCEPT !.pc = z]
    BY <1>4 DEF Answer
  <2> HIDE DEF z, y
  <2>4. z \in InCall
    BY <2>2 DEF InCall
  <2>5. LET e == [x EXCEPT !.pc = z] IN QuietProc(x, e) /\ e.fd = x.fd
    BY <1>1, <1>4, <2>2, <2>4, PcQuiet DEF SameUse
  <2>. QED
    BY <2>3, <2>5 DEF y
<1>5. ASSUME NEW s \in Result, s.fn \in {"recv", "accept"}, d.fn # "dns"
      PROVE  QuietProc(x, Returns(x, s)) /\ Returns(x, s).fd = x.fd
  <2>1. QuietProc(x, Returns(x, s))
    BY <1>1, <1>2, <1>5, ReturnQuiet
  <2>2. Returns(x, s).fd = x.fd
    BY <1>2 DEF Returns, ProcRec
  <2>. QED
    BY <2>1, <2>2
<1>6. CASE d.fn = "recv" /\ r.k # "retry"
  <2> DEFINE s == [fn |-> "recv", k |-> r.k]
  <2>1. r.k \in Code
    BY <1>6 DEF Code
  <2>2. s \in Result /\ s.fn = "recv"
    BY <2>1 DEF Result
  <2>3. y = Returns(x, s)
    BY <1>6 DEF Answer
  <2> HIDE DEF s, y
  <2>. QED
    BY <1>5, <1>6, <2>2, <2>3 DEF y
<1>7. CASE d.fn = "accept" /\ r.k # "retry"
  <2> DEFINE s == [fn |-> "accept", k |-> "EINVAL"]
  <2>1. s \in Result /\ s.fn = "accept"
    BY DEF Result, Code
  <2>2. y = Returns(x, s)
    BY <1>7 DEF Answer
  <2> HIDE DEF s, y
  <2>. QED
    BY <1>5, <1>7, <2>1, <2>2 DEF y
<1>. QED
  BY <1>1, <1>3, <1>4, <1>6, <1>7

\* What a read takes.
LEMMA ReadNowOf ==
  ASSUME SocketInv, strayed => strayed', NEW i \in Conv
  PROVE  LET z == ReadNow(conv[i]) IN
         /\ QuietConv(i, z.c) /\ z.r.k \in {"retry", "eof", "err", "data"}
         /\ z.r.k = "data" => z.r.d \in Dgram /\ 1 \in 1 .. Len(conv[i].q) /\ z.r.d = conv[i].q[1]
<1> DEFINE c == conv[i]
           z == ReadNow(c)
           t == [c EXCEPT !.q = Tail(c.q)]
           a == [c EXCEPT !.tcb = "none", !.st = "closed"]
<1>1. c \in ConvRec /\ ConvOK(c) /\ QuietConv(i, c)
  BY StillHere
<1>2. c.q \in Seq(Dgram)
  BY <1>1 DEF ConvRec
<1>3. /\ \/ z.c = c /\ z.r.k \in {"retry", "eof", "err"}
         \/ c.q # <<>> /\ z.c = t /\ z.r.k = "data" /\ z.r.d = Head(c.q)
         \/ c.proto = "tcp" /\ c.tcb = "closed" /\ c.st # "reset" /\ z.c = a /\ z.r.k = "eof"
  <2>1. CASE c.proto # "tcp"
    BY <2>1 DEF ReadNow, Retry, Data
  <2>2. CASE c.proto = "tcp"
    <3>1. z = TcpRead(c)
      BY <2>2 DEF ReadNow
    <3>2. CASE c.tcb = "none"
      BY <3>1, <3>2 DEF TcpRead, Eof, Err
    <3>3. CASE c.tcb # "none" /\ c.q # <<>>
      BY <3>1, <3>3 DEF TcpRead, Data
    <3>4. CASE c.tcb = "closed" /\ c.q = <<>>
      <4>1. c.st # "reset"
        BY <1>1, <3>4, TcpConv
      <4>2. z = [r |-> Eof, c |-> TcbFree(c)]
        BY <3>1, <3>4 DEF TcpRead
      <4>3. TcbFree(c) = a
        BY <4>1 DEF TcbFree
      <4> HIDE DEF z, a, c
      <4>. QED
        BY <2>2, <3>4, <4>1, <4>2, <4>3 DEF Eof
    <3>5. CASE c.tcb \notin {"none", "closed"} /\ c.q = <<>>
      BY <3>1, <3>5 DEF TcpRead, Eof, Retry
    <3>. QED
      BY <3>2, <3>3, <3>4, <3>5
  <2>. QED
    BY <2>1, <2>2
<1>4. ASSUME c.q # <<>>
      PROVE  /\ Head(c.q) \in Dgram /\ 1 \in 1 .. Len(c.q) /\ Head(c.q) = c.q[1]
             /\ Tail(c.q) \in Seq(Dgram) /\ Len(Tail(c.q)) = Len(c.q) - 1 /\ Len(c.q) \in Nat
             /\ \A n \in 1 .. Len(Tail(c.q)) : n + 1 \in 1 .. Len(c.q) /\ Tail(c.q)[n] = c.q[n + 1]
  <2>1. Len(c.q) \in Nat /\ Len(c.q) # 0 /\ Head(c.q) = c.q[1]
    BY <1>2, <1>4, EmptySeq, LenProperties
  <2>2. Tail(c.q) \in Seq(Dgram) /\ Len(Tail(c.q)) = Len(c.q) - 1
    BY <1>2, <1>4, HeadTailProperties
  <2>3. \A n \in 1 .. Len(Tail(c.q)) : Tail(c.q)[n] = c.q[n + 1]
    BY <1>2, <1>4, HeadTailProperties
  <2>4. Head(c.q) \in Dgram
    BY <1>2, <1>4, HeadTailProperties
  <2>. QED
    BY <2>1, <2>2, <2>3, <2>4
<1>5. c.q # <<>> => QuietConv(i, t)
  <2> SUFFICES ASSUME c.q # <<>> PROVE QuietConv(i, t)
    OBVIOUS
  <2> DEFINE s == Tail(c.q)
  <2>0. s \in Seq(Dgram) /\ Len(s) = Len(c.q) - 1 /\ Len(c.q) \in Nat
    BY <1>4
  <2>9. \A n \in 1 .. Len(s) : n + 1 \in 1 .. Len(c.q) /\ s[n] = c.q[n + 1]
    BY <1>4
  <2> HIDE DEF s
  <2>1. t = [c EXCEPT !.q = s]
    BY DEF s
  <2>2. t \in ConvRec /\ t.q = s /\ t.tcb = c.tcb /\ t.aq = c.aq /\ t.headers = c.headers /\ t.lport = c.lport
    BY <1>1, <2>0, <2>1 DEF ConvRec
  <2>3. Len(s) <= Buf
    BY <1>1, <2>0, SocketConstants DEF ConvOK
  <2>4. ConvOK(t)
    BY <1>1, <2>1, <2>3 DEF ConvOK, ConvRec
  <2>5. Alike(c, t)
    BY <1>1, <2>1 DEF Alike, ConvRec
  <2>6. Lines(c, t)
    BY <2>2, WithinSelf DEF Lines
  <2>7. Still(i, t)
    BY <2>2, <2>9 DEF Still
  <2>. QED
    BY <2>2, <2>4, <2>5, <2>6, <2>7 DEF QuietConv
<1>6. c.proto = "tcp" /\ c.tcb = "closed" => QuietConv(i, a)
  <2> SUFFICES ASSUME c.proto = "tcp", c.tcb = "closed" PROVE QuietConv(i, a)
    OBVIOUS
  <2>1. c.st # "free"
    BY <1>1, TcpConv
  <2>2. a \in ConvRec
    BY <1>1 DEF ConvRec
  <2>3. ConvOK(a)
    BY <1>1, <2>1 DEF ConvOK, ConvRec
  <2>4. SameConn(c, a)
    BY <1>1, <2>1 DEF SameConn, ConvRec
  <2> HIDE DEF a
  <2>. QED
    BY <2>2, <2>3, <2>4, ConnQuiet
<1> HIDE DEF z, t, a
<1>7. QuietConv(i, z.c)
  BY <1>1, <1>3, <1>5, <1>6
<1>8. z.r.k \in {"retry", "eof", "err", "data"} /\ (z.r.k = "data" => z.r.d \in Dgram /\ 1 \in 1 .. Len(c.q) /\ z.r.d = c.q[1])
  BY <1>3, <1>4
<1>. QED
  BY <1>7, <1>8 DEF z
\* What tcp_accept finds in the queue.
\* The k-th connection of l's queue goes to p; those of S stay.
Handing(l, k, S, p) ==
  [conv EXCEPT ![l].aq = Entries(conv[l].aq, S), ![conv[l].aq[k]].owner = p, ![conv[l].aq[k]].handed = TRUE]

LEMMA AcceptNowOf ==
  ASSUME SocketInv, strayed => strayed', NEW l \in Conv, NEW p
  PROVE  LET z == AcceptNow(l, p)
             aq == conv[l].aq
         IN \/ /\ z.r.k \in {"err", "retry"}
               /\ z.C = conv \/ \E e : z.C = [conv EXCEPT ![l] = e] /\ QuietConv(l, e)
            \/ \E k \in DOMAIN aq, S \in SUBSET DOMAIN aq :
                 /\ k \notin S /\ Ready(aq[k]) /\ conv[l].tcb = "listen"
                 /\ z.r.k = "conn" /\ z.r.conv = aq[k]
                 /\ z.C = Handing(l, k, S, p)
<1> DEFINE c == conv[l]
           aq == c.aq
           up == {k \in DOMAIN aq : Ready(aq[k])}
           k == CHOOSE j \in up : \A i \in up : j <= i
           rest == {j \in DOMAIN aq : j > k \/ (j < k /\ ~Dead(aq[j]))}
           some == {j \in DOMAIN aq : ~Dead(aq[j])}
           e == [c EXCEPT !.aq = Entries(aq, some)]
           z == AcceptNow(l, p)
<1>1. c \in ConvRec /\ ConvOK(c) /\ aq \in Seq(Conv) /\ DOMAIN aq = 1 .. Len(aq) /\ Len(aq) \in Nat
  BY StillHere, AqOf DEF SocketInv
<1>2. CASE c.tcb # "listen"
  <2>1. z = [r |-> Err, C |-> conv]
    BY <1>2, Zenon DEF AcceptNow
  <2>. QED
    BY <2>1 DEF Err
<1>3. CASE c.tcb = "listen" /\ up = {}
  <2>1. z = [r |-> Retry, C |-> [conv EXCEPT ![l] = e]]
    BY <1>3 DEF AcceptNow
  <2>2. some \in SUBSET DOMAIN aq
    OBVIOUS
  <2> DEFINE s == Entries(aq, some)
  <2>3. s \in Seq(Conv) /\ Len(s) <= Len(aq) /\ Within(s, aq)
    BY <1>1, <2>2, EntriesWithin
  <2>4. Len(s) \in Nat
    BY <2>3, LenProperties
  <2> HIDE DEF s
  <2>5. e = [c EXCEPT !.aq = s]
    BY DEF s
  <2>6. e \in ConvRec
    BY <1>1, <2>3, <2>5 DEF ConvRec
  <2>7. Len(s) <= AcceptQ
    BY <1>1, <2>3, <2>4, SocketConstants DEF ConvOK
  <2>8. ConvOK(e)
    BY <1>1, <2>5, <2>7 DEF ConvOK, ConvRec
  <2>9. Alike(c, e) /\ e.headers = c.headers
    BY <1>1, <2>5 DEF Alike, ConvRec
  <2>10. Lines(c, e)
    BY <1>1, <1>3, <2>3, <2>5 DEF Lines, ConvRec
  <2>11. ~strayed' => ~Asked(l)
    BY <1>1, <1>3, AskedIsUdp, TcpConv
  <2>12. QuietConv(l, e)
    BY <2>6, <2>8, <2>9, <2>10, <2>11 DEF QuietConv
  <2>13. z.r.k = "retry" /\ z.C = [conv EXCEPT ![l] = e]
    BY <2>1 DEF Retry
  <2> HIDE DEF e, z
  <2>14. z.r.k \in {"err", "retry"} /\ \E a : z.C = [conv EXCEPT ![l] = a] /\ QuietConv(l, a)
    BY <2>12, <2>13
  <2>. QED
    BY <2>14 DEF z
<1>4. CASE c.tcb = "listen" /\ up # {}
  <2>1. z = [r |-> [k |-> "conn", conv |-> aq[k]], C |-> Handing(l, k, rest, p)]
    BY <1>4, Zenon DEF AcceptNow, Handing
  <2>2. up \subseteq Nat
    BY <1>1
  <2>3. \E j \in up : \A i \in up : j <= i
    BY <1>4, <2>2, LeastOf
  <2>4. k \in up
    BY <2>3
  <2>5. k \in DOMAIN aq /\ Ready(aq[k]) /\ k \in Nat
    BY <2>2, <2>4
  <2> HIDE DEF k, up
  <2>6. rest \in SUBSET DOMAIN aq /\ k \notin rest
    BY <2>5
  <2> HIDE DEF rest
  <2>7. /\ z.r.k = "conn" /\ z.r.conv = aq[k]
        /\ z.C = Handing(l, k, rest, p)
    BY <2>1
  <2> HIDE DEF z
  <2>8. \E j \in DOMAIN aq, S \in SUBSET DOMAIN aq :
          /\ j \notin S /\ Ready(aq[j]) /\ c.tcb = "listen"
          /\ z.r.k = "conn" /\ z.r.conv = aq[j]
          /\ z.C = Handing(l, j, S, p)
    BY <1>4, <2>5, <2>6, <2>7
  <2>. QED
    BY <2>8 DEF z
<1>. QED
  BY <1>2, <1>3, <1>4

-----------------------------------------------------------------------------
(* The steps of a lookup.                                                    *)

LEMMA DnsConnectOK ==
  ASSUME SocketInv, NEW p \in Proc, DnsConnect(p), Reaches(proc[p].pc)
  PROVE  SocketInv'
<1> DEFINE x == proc[p]
           d == x.pc
           i == d.conv
           e == CtlConnect(conv[i], "dns", TRUE)
           s == IF Valid(d) THEN "write" ELSE "close"
           z == [d EXCEPT !.step = s]
           y == [x EXCEPT !.pc = z]
<1>1. x.live /\ d.fn = "dns" /\ d.step = "connect" /\ UNCHANGED <<queries, ops>>
  BY DEF DnsConnect
<1>2. (Valid(d) /\ conv' = [conv EXCEPT ![i] = e] /\ PortPicked(conv[i])) \/ (~Valid(d) /\ UNCHANGED <<conv, eph>>)
  BY DEF DnsConnect
<1>3. x \in ProcRec /\ CallOK(x) /\ HasFd(x) /\ i \in Conv /\ conv[i] \in ConvRec /\ ConvOK(conv[i]) /\ d \in InDns
  BY <1>1, InACall, CallOf, StillHere
<1>4. Becomes(p, y)
  <2>1. Becomes(p, [x EXCEPT !.pc.step = s])
    BY DEF DnsConnect
  <2>. QED
    BY <2>1
<1>5. eph' = eph \/ eph' = eph + 1
  BY <1>2 DEF PortPicked
<1>6. CountersOK /\ eph <= eph' /\ (strayed => strayed')
  BY <1>1, <1>5, CallCounts
<1>7. s \in {"write", "close"}
  OBVIOUS
<1> HIDE DEF s
<1>8. z \in InDns /\ z.fn = "dns" /\ z.f = d.f /\ z.name = d.name /\ z.conv = i /\ z.gen = d.gen /\ z.tcp = d.tcp /\ z.got = d.got /\ z.step = s
  BY <1>3, <1>7 DEF InDns
<1> HIDE DEF z
<1>9. y \in ProcRec /\ y.live = x.live /\ y.fd = x.fd /\ y.pc = z /\ y.ret = x.ret
  BY <1>3, <1>8 DEF ProcRec, InCall
<1> HIDE DEF y
<1>10. CallOK(y) /\ SameSlots(x, y) /\ SameHeaders(x, y)
  BY <1>3, <1>8, <1>9 DEF CallOK, SameSlots, SameHeaders, SameUse
<1>11. HasFd(y)
  BY <1>1, <1>3, <1>8, <1>9 DEF HasFd, SameUse
<1>12. Onward(x, y)
  BY <1>1, <1>8, <1>9, <1>10 DEF Onward, SameUse
<1>13. Valid(d) => /\ e \in ConvRec /\ ConvOK(e) /\ Alike(conv[i], e) /\ Lines(conv[i], e) /\ e.headers = conv[i].headers
                   /\ e.lport = IF conv[i].lport = 0 THEN 1000 + eph ELSE conv[i].lport
                   /\ conv[i].proto = "udp" => e.q = conv[i].q
  BY ZenonT(40), <1>3, CtlConnectOK DEF Valid
<1> HIDE DEF e
<1>14. conv \in [Conv -> ConvRec] /\ proc \in [Proc -> ProcRec] /\ proc' = [proc EXCEPT ![p] = y] /\ eph \in Nat
  BY <1>4 DEF SocketInv, SocketType, Becomes
<1>15. \A j \in Conv : /\ conv'[j] \in ConvRec /\ ConvOK(conv'[j]) /\ Alike(conv[j], conv'[j]) /\ Lines(conv[j], conv'[j])
                       /\ conv'[j].headers = conv[j].headers /\ (j # i => conv'[j] = conv[j])
  <2> TAKE j \in Conv
  <2>1. CASE j = i /\ Valid(d)
    BY <1>2, <1>13, <1>14, <2>1
  <2>2. CASE j # i \/ ~Valid(d)
    <3>1. conv'[j] = conv[j]
      BY <1>2, <1>14, <2>2
    <3>2. Alike(conv[j], conv[j]) /\ Lines(conv[j], conv[j])
      BY WithinSelf DEF Alike, Lines
    <3>. QED
      BY <3>1, <3>2, StillHere
  <2>. QED
    BY <2>1, <2>2
<1>16. \A r \in Proc : /\ proc'[r] \in ProcRec /\ CallOK(proc'[r]) /\ HasFd(proc'[r]) /\ Onward(proc[r], proc'[r])
                       /\ SameHeaders(proc[r], proc'[r]) /\ (r # p => proc'[r] = proc[r])
  <2> TAKE r \in Proc
  <2>1. CASE r = p
    BY <1>9, <1>10, <1>11, <1>12, <1>14, <2>1
  <2>2. CASE r # p
    <3>1. proc'[r] = proc[r]
      BY <1>14, <2>2
    <3>2. Onward(proc[r], proc[r]) /\ SameHeaders(proc[r], proc[r])
      BY DEF Onward, SameSlots, SameUse, SameHeaders
    <3>. QED
      BY <2>2, <3>1, <3>2, StillHere
  <2>. QED
    BY <2>1, <2>2
<1>17. SocketType1
  <2>1. conv' \in [Conv -> ConvRec]
    BY <1>2, <1>13, <1>14
  <2>2. proc' \in [Proc -> ProcRec]
    BY <1>9, <1>14
  <2>. QED
    BY <1>6, <1>15, <1>16, <2>1, <2>2 DEF SocketType1
<1>18. ASSUME ~strayed'
       PROVE  HeadersTrue' /\ Lookups'
  <2>1. ~strayed
    BY <1>6, <1>18
  <2>2. HeadersTrue'
    BY <1>15, <1>16, <2>1, HeadersOn
  <2>3. Valid(d) /\ Lookup(p) /\ conv[i].proto = "udp"
    BY <1>1, <2>1, LookupIsUdp
  <2>4. conv[i].lport = 0
    BY <1>1, <2>3 DEF Lookup
  <2>5. conv' = [conv EXCEPT ![i] = e] /\ eph' = eph + 1 /\ conv'[i].lport = 1000 + eph /\ conv'[i].q = conv[i].q
    BY <1>2, <1>3, <1>13, <1>14, <2>3, <2>4 DEF PortPicked
  <2>6. 1000 + eph \notin Ephemeral /\ 1000 + eph \in Ephemeral' /\ Ephemeral \subseteq Ephemeral'
    <3> DEFINE a == eph
               b == eph'
    <3>1. a \in Nat /\ b = a + 1
      BY <1>14, <2>5
    <3> HIDE DEF a, b
    <3>2. 1000 + a \notin 1000 .. 999 + a /\ 1000 + a \in 1000 .. 999 + b /\ 1000 .. 999 + a \subseteq 1000 .. 999 + b
      BY <3>1
    <3>3. Ephemeral = 1000 .. 999 + a
      BY DEF Ephemeral, a
    <3>4. Ephemeral' = 1000 .. 999 + b
      BY DEF Ephemeral, b
    <3>. QED
      BY <3>2, <3>3, <3>4 DEF a
  <2>7. \A m \in queries : m.port \in Ephemeral
    BY <2>1 DEF SocketInv, Lookups
  <2>8. \A m \in queries' : m.port \in Ephemeral' /\ m.port # conv'[i].lport
    BY SMTT(30), <1>1, <2>5, <2>6, <2>7
  <2>9. Lookup(p)'
    <3>1. proc'[p].pc = z
      BY <1>9, <1>14
    <3>2. z.gen = conv'[i].gen /\ conv'[i].st # "free" /\ conv'[i].owner = p
      BY <1>3, <1>8, <1>15, <2>3, Zenon DEF Lookup, Current, Alike
    <3>3. conv'[i].lport \in Ephemeral' /\ z.step # "connect"
      BY <1>7, <1>8, <2>5, <2>6
    <3>4. \A m \in queries' : m.port = conv'[i].lport /\ m.who = p => m.name = z.name
      BY <2>8
    <3>5. \A j \in 1 .. Len(conv'[i].q) : conv'[i].q[j].who = p => conv'[i].q[j].name = z.name
      BY <1>8, <2>3, <2>5 DEF Lookup
    <3>6. z.got \in {"none", z.name}
      BY SMTT(30), <1>8, <2>3 DEF Lookup
    <3>. QED
      BY <1>8, <3>1, <3>2, <3>3, <3>4, <3>5, <3>6 DEF Lookup, Current
  <2>10. ASSUME NEW r \in Proc, r # p, proc'[r].pc.fn = "dns"
         PROVE  Lookup(r)'
    <3>1. proc'[r] = proc[r] /\ Lookup(r) /\ proc[r].pc.conv \in Conv
      BY <1>16, <2>1, <2>10, LookupIsUdp
    <3>2. conv[proc[r].pc.conv].owner = r /\ conv[i].owner = p
      BY <2>3, <3>1 DEF Lookup
    <3>3. conv'[proc[r].pc.conv] = conv[proc[r].pc.conv]
      BY <1>15, <2>10, <3>1, <3>2
    <3>. QED
      BY <1>1, <2>6, <3>1, <3>3 DEF Lookup, Current
  <2>11. \A r \in Proc : proc'[r].ret.fn = "dns" => proc'[r].ret.got \in {"none", proc'[r].ret.asked}
    BY <1>9, <1>14, <2>1 DEF SocketInv, Lookups
  <2>12. Lookups'
    BY <2>8, <2>9, <2>10, <2>11 DEF Lookups
  <2>. QED
    BY <2>2, <2>12
<1>. QED
  BY <1>15, <1>16, <1>17, <1>18, GoesOn
\* What a lookup's write leaves: one query more, with its own port and name.
LEMMA DnsWriteOK ==
  ASSUME SocketInv, NEW p \in Proc, DnsWrite(p), Reaches(proc[p].pc)
  PROVE  SocketInv'
<1> DEFINE x == proc[p]
           d == x.pc
           i == d.conv
           c == conv[i]
           q == [port |-> c.lport, who |-> p, name |-> d.name]
           z == [d EXCEPT !.step = "read"]
           y == [x EXCEPT !.pc = z]
<1>1. x.live /\ d.fn = "dns" /\ d.step = "write" /\ UNCHANGED <<conv, eph, ops>>
  BY DEF DnsWrite
<1>2. queries' = queries \/ queries' = queries \cup {q}
  BY DEF DnsWrite
<1>3. x \in ProcRec /\ CallOK(x) /\ HasFd(x) /\ i \in Conv /\ c \in ConvRec /\ d \in InDns
  BY <1>1, InACall, CallOf, StillHere
<1>4. Becomes(p, y)
  <2>1. Becomes(p, [x EXCEPT !.pc.step = "read"])
    BY DEF DnsWrite
  <2>. QED
    BY <2>1
<1>5. queries \subseteq Query /\ ops \in 0 .. MaxOps /\ eph \in Nat /\ strayed \in BOOLEAN
  BY DEF SocketInv, SocketType
<1>6. CountersOK /\ (strayed => strayed')
  <2>1. q \in Query
    BY <1>3 DEF Query, ConvRec, InDns
  <2>2. queries' \subseteq Query
    BY <1>2, <1>5, <2>1
  <2>3. strayed' \in BOOLEAN /\ (strayed => strayed')
    BY <1>5 DEF Reaches
  <2>. QED
    BY <1>1, <1>5, <2>2, <2>3 DEF CountersOK
<1>7. z \in InDns /\ z.fn = "dns" /\ z.f = d.f /\ z.name = d.name /\ z.conv = i /\ z.gen = d.gen /\ z.tcp = d.tcp /\ z.got = d.got /\ z.step = "read"
  BY <1>3 DEF InDns
<1> HIDE DEF z
<1>8. z \in InCall
  BY <1>7 DEF InCall
<1>9. QuietProc(x, y) /\ y.fd = x.fd
  BY <1>1, <1>7, <1>8, PcQuiet DEF SameUse
<1>10. y.pc = z /\ y.ret = x.ret
  BY <1>3, <1>8 DEF ProcRec
<1> HIDE DEF y
<1>11. conv \in [Conv -> ConvRec] /\ proc \in [Proc -> ProcRec] /\ proc' = [proc EXCEPT ![p] = y] /\ y \in ProcRec
  BY <1>4, <1>9 DEF SocketInv, SocketType, Becomes, QuietProc
<1>12. \A r \in Proc : /\ CallOK(proc'[r]) /\ HasFd(proc'[r]) /\ Onward(proc[r], proc'[r]) /\ SameHeaders(proc[r], proc'[r])
                       /\ (r # p => proc'[r] = proc[r])
  <2> TAKE r \in Proc
  <2>1. CASE r = p
    BY <1>9, <1>11, <2>1 DEF QuietProc, SameHeaders
  <2>2. CASE r # p
    <3>1. proc'[r] = proc[r]
      BY <1>11, <2>2
    <3>2. Onward(proc[r], proc[r]) /\ SameHeaders(proc[r], proc[r])
      BY DEF Onward, SameSlots, SameUse, SameHeaders
    <3>. QED
      BY <2>2, <3>1, <3>2, StillHere
  <2>. QED
    BY <2>1, <2>2
<1>13. \A j \in Conv : Alike(conv[j], conv'[j]) /\ Lines(conv[j], conv'[j]) /\ conv'[j].headers = conv[j].headers
  BY <1>1, WithinSelf DEF Alike, Lines
<1>14. SocketType1
  BY <1>1, <1>6, <1>11, <1>12, StillHere DEF SocketType1
<1>15. ASSUME ~strayed'
       PROVE  HeadersTrue' /\ Lookups'
  <2>1. ~strayed
    BY <1>6, <1>15
  <2>2. HeadersTrue'
    BY <1>12, <1>13, <2>1, HeadersOn
  <2>3. Lookup(p) /\ c.lport \in Ephemeral /\ Ephemeral' = Ephemeral
    BY <1>1, <2>1, LookupIsUdp DEF Lookup, Ephemeral
  <2>4. \A m \in queries : m.port \in Ephemeral
    BY <2>1 DEF SocketInv, Lookups
  <2>5. \A m \in queries' : m.port \in Ephemeral' /\ (m \in queries \/ m = q)
    BY SMTT(30), <1>2, <2>3, <2>4
  <2>6. Lookup(p)'
    <3>1. proc'[p].pc = z /\ conv' = conv
      BY <1>1, <1>10, <1>11
    <3>2. \A m \in queries' : m.port = c.lport /\ m.who = p => m.name = z.name
      BY <1>7, <2>3, <2>5 DEF Lookup
    <3>. QED
      BY <1>1, <1>7, <2>3, <3>1, <3>2 DEF Lookup, Current
  <2>7. ASSUME NEW r \in Proc, r # p, proc'[r].pc.fn = "dns"
        PROVE  Lookup(r)'
    <3>1. proc'[r] = proc[r] /\ Lookup(r) /\ conv' = conv
      BY <1>1, <1>12, <2>1, <2>7, LookupIsUdp
    <3>2. \A m \in queries' : m.port = conv[proc[r].pc.conv].lport /\ m.who = r => m.name = proc[r].pc.name
      BY <2>5, <2>7, <3>1 DEF Lookup
    <3>. QED
      BY <2>3, <3>1, <3>2, Zenon DEF Lookup, Current
  <2>8. \A r \in Proc : proc'[r].ret.fn = "dns" => proc'[r].ret.got \in {"none", proc'[r].ret.asked}
    BY <1>10, <1>11, <2>1 DEF SocketInv, Lookups
  <2>9. Lookups'
    BY <2>5, <2>6, <2>7, <2>8 DEF Lookups
  <2>. QED
    BY <2>2, <2>9
<1>. QED
  BY <1>12, <1>13, <1>14, <1>15, GoesOn
-----------------------------------------------------------------------------
(* A descriptor, or a hangup, for a conversation.                            *)

NewFd(i, gen, tcp) == [kind |-> "net", conv |-> i, tcp |-> tcp, gen |-> gen, headers |-> FALSE, port |-> 0, copied |-> FALSE]
HangupOf(i, gen, tcp) == [fn |-> "hangup", conv |-> i, tcp |-> tcp, gen |-> gen]
\* y is x with a new descriptor f for use gen of conversation i, or without one.
Gets(x, y, f, i, gen, tcp) ==
  /\ x.fd[f].kind = "free" /\ y.fd = [x.fd EXCEPT ![f] = NewFd(i, gen, tcp)]
  /\ \/ y.pc = Idle /\ y.ret.fn = "fd"
     \/ y.ret = Idle /\ y.pc \in InDns /\ y.pc.step = "connect" /\ y.pc.got = "none" /\ ~tcp
        /\ y.pc.f = f /\ y.pc.conv = i /\ y.pc.gen = gen
GetsNone(x, y, i, gen, tcp) == y.fd = x.fd /\ y.pc = HangupOf(i, gen, tcp) /\ y.ret = Idle

\* A lookup that has no descriptor yet, and a process that may be in one.
ToDns ==
  [fn : {"dns"}, name : Name, f : {0}, conv : Conv, tcp : {FALSE}, gen : Nat,
   step : {"connect"}, n : Nat, parked : BOOLEAN, got : {"none"}]

Opening == [live : BOOLEAN, fd : Slots, pc : InCall \cup {Idle} \cup ToDns, ret : Result]

LEMMA OpenedOf ==
  ASSUME NEW x \in Opening, NEW i \in Conv, NEW gen \in Nat, NEW tcp \in BOOLEAN,
         NEW then, then = Idle \/ (then \in ToDns /\ ~tcp)
  PROVE  LET y == Opened(x, i, gen, tcp, then) IN
         /\ y \in ProcRec /\ y.live = x.live
         /\ GetsNone(x, y, i, gen, tcp) \/ \E f \in Fd : Gets(x, y, f, i, gen, tcp)
<1> DEFINE free == {f \in Fd : x.fd[f].kind = "free"}
           f == CHOOSE g \in free : \A h \in free : g <= h
           y == Opened(x, i, gen, tcp, then)
           h == HangupOf(i, gen, tcp)
           e == NewFd(i, gen, tcp)
<1>1. CASE free = {}
  <2>1. y = [x EXCEPT !.pc = h, !.ret = Idle]
    BY <1>1 DEF Opened, Enters, HangupOf
  <2>2. h \in InCall
    BY DEF InCall, InHangup, HangupOf
  <2> HIDE DEF h, y
  <2>3. y \in ProcRec /\ y.live = x.live /\ y.fd = x.fd /\ y.pc = h /\ y.ret = Idle
    BY <2>1, <2>2, IdleResult DEF ProcRec, Opening
  <2>. QED
    BY <2>3 DEF GetsNone, y, h
<1>2. CASE free # {}
  <2> DEFINE z == IF then.fn = "dns" THEN [then EXCEPT !.f = f, !.conv = i, !.gen = gen] ELSE Idle
             r == IF then.fn = "dns" THEN Idle ELSE [fn |-> "fd", f |-> f]
             fd == [x.fd EXCEPT ![f] = e]
  <2>1. y = [x EXCEPT !.fd[f] = e, !.pc = z, !.ret = r]
    BY <1>2 DEF Opened, NewFd
  <2>2. free \subseteq Nat
    BY SocketConstants
  <2>3. \E g \in free : \A k \in free : g <= k
    BY <1>2, <2>2, LeastOf
  <2>4. f \in free
    BY <2>3
  <2>5. f \in Fd /\ x.fd[f].kind = "free"
    BY <2>4
  <2> HIDE DEF f, free
  <2>6. e \in NetFd
    BY DEF NewFd, NetFd
  <2>7. x.fd \in Slots
    BY DEF Opening
  <2> HIDE DEF e
  <2>8. fd \in Slots
    BY <2>5, <2>6, <2>7 DEF Slots
  <2>9. then = Idle => z = Idle /\ r.fn = "fd" /\ r \in Result
    <3>1. then = Idle => then.fn = "none"
      BY DEF Idle
    <3>2. then = Idle => z = Idle /\ r = [fn |-> "fd", f |-> f]
      BY <3>1
    <3>3. [fn |-> "fd", f |-> f] \in [fn : {"fd"}, f : Fd]
      BY <2>5
    <3> HIDE DEF z, r
    <3>4. then = Idle => r.fn = "fd" /\ r \in [fn : {"fd"}, f : Fd]
      BY <3>2, <3>3
    <3>. QED
      BY <3>2, <3>4 DEF Result
  <2>10. then # Idle => /\ r = Idle /\ r \in Result /\ z \in InDns /\ z.step = "connect" /\ z.got = "none" /\ ~tcp
                        /\ z.f = f /\ z.conv = i /\ z.gen = gen
    <3> SUFFICES ASSUME then # Idle
                 PROVE  /\ r = Idle /\ r \in Result /\ z \in InDns /\ z.step = "connect" /\ z.got = "none" /\ ~tcp
                        /\ z.f = f /\ z.conv = i /\ z.gen = gen
      OBVIOUS
    <3>2. then \in ToDns /\ then.fn = "dns" /\ ~tcp
      BY DEF ToDns
    <3>3. r = Idle /\ z = [then EXCEPT !.f = f, !.conv = i, !.gen = gen]
      BY <3>2
    <3> DEFINE b == [then EXCEPT !.f = f, !.conv = i, !.gen = gen]
    <3>4. b \in InDns /\ b.f = f /\ b.conv = i /\ b.gen = gen /\ b.step = "connect" /\ b.got = "none"
      BY <2>5, <3>2 DEF InDns, ToDns
    <3>5. z = b
      BY <3>3
    <3> HIDE DEF z, b, r
    <3>. QED
      BY <3>2, <3>3, <3>4, <3>5, IdleResult
  <2> HIDE DEF z, r
  <2>11. z \in InCall \cup {Idle} /\ r \in Result
    BY <2>9, <2>10 DEF InCall
  <2> HIDE DEF y
  <2>12. y = [[[x EXCEPT !.fd = fd] EXCEPT !.pc = z] EXCEPT !.ret = r]
    BY <2>1 DEF Opening
  <2> HIDE DEF fd
  <2>13. y \in ProcRec /\ y.live = x.live /\ y.fd = fd /\ y.pc = z /\ y.ret = r
    BY <2>8, <2>11, <2>12 DEF ProcRec, Opening
  <2>14. Gets(x, y, f, i, gen, tcp)
    BY <2>5, <2>9, <2>10, <2>13 DEF Gets, fd, e
  <2>. QED
    BY <2>5, <2>13, <2>14 DEF y
<1>. QED
  BY <1>1, <1>2
\* No descriptor and no hangup names use gen of conversation m.
Unnamed(m, gen) ==
  \A r \in Proc : /\ \A g \in Fd : IsSocket(r, g) => ~(proc[r].fd[g].conv = m /\ proc[r].fd[g].gen = gen)
                  /\ proc[r].pc.fn = "hangup" => ~(proc[r].pc.conv = m /\ proc[r].pc.gen = gen)
LEMMA UnnamedIf ==
  ASSUME SocketInv, NEW m \in Conv, NEW gen \in Nat,
         gen = conv[m].gen + 1 \/ (gen = conv[m].gen /\ ~conv[m].handed)
  PROVE  Unnamed(m, gen)
<1>1. conv[m].gen \in Nat
  BY StillHere DEF ConvRec
<1>2. ASSUME NEW x, NameOK(x), x.conv = m, x.gen \in Nat
      PROVE  x.gen # gen
  <2>1. x.gen <= conv[m].gen /\ (x.gen = conv[m].gen => conv[m].handed)
    BY <1>2 DEF NameOK, Current
  <2>. QED
    BY <1>1, <1>2, <2>1
<1>3. ASSUME NEW r \in Proc, NEW g \in Fd, IsSocket(r, g)
      PROVE  ~(proc[r].fd[g].conv = m /\ proc[r].fd[g].gen = gen)
  <2>1. NameOK(proc[r].fd[g]) /\ proc[r].fd[g].gen \in Nat
    BY <1>3, StillHere, CallOf DEF SocketInv, Named, IsSocket, NetFd
  <2>. QED
    BY <1>2, <2>1
<1>4. ASSUME NEW r \in Proc, proc[r].pc.fn = "hangup"
      PROVE  ~(proc[r].pc.conv = m /\ proc[r].pc.gen = gen)
  <2>1. NameOK(proc[r].pc) /\ proc[r].pc.gen \in Nat
    BY <1>4, StillHere, CallOf DEF SocketInv, Named
  <2>. QED
    BY <1>2, <2>1
<1>. QED
  BY <1>3, <1>4 DEF Unnamed

\* Conversation m is given to p, whose record becomes y.
GivesTo(p, m, y) ==
  /\ conv' \in [Conv -> ConvRec] /\ \A i \in Conv : ConvOK(conv'[i])
  /\ \A i \in Conv : i # m =>
       /\ Alike(conv[i], conv'[i])
       /\ strayed' \/ (/\ Lines(conv[i], conv'[i]) /\ conv'[i].headers = conv[i].headers
                       /\ Asked(i) => Still(i, conv'[i]))
  /\ conv'[m].st # "free" /\ conv'[m].handed /\ conv'[m].owner = p /\ ~conv'[m].headers
  /\ \/ conv'[m].gen = conv[m].gen + 1 /\ conv[m].st = "free"
     \/ conv'[m].gen = conv[m].gen /\ conv'[m].proto = conv[m].proto
  /\ strayed' \/ (/\ Unnamed(m, conv'[m].gen) /\ conv'[m].tcb # "listen" /\ ~Asked(m)
                  /\ \A l \in Conv : conv'[l].tcb = "listen" => \A k \in DOMAIN conv'[l].aq : conv'[l].aq[k] # m)
  /\ Becomes(p, y) /\ y \in ProcRec /\ y.live = proc[p].live
  /\ LET gen == conv'[m].gen
         tcp == conv'[m].proto = "tcp"
     IN \/ GetsNone(proc[p], y, m, gen, tcp)
        \/ \E f \in Fd : /\ Gets(proc[p], y, f, m, gen, tcp)
                         /\ y.pc.fn = "dns" => conv'[m].lport = 0 /\ conv'[m].q = <<>>

\* p's names afterwards.
LEMMA GivenNames ==
  ASSUME SocketInv, NEW p \in Proc, proc[p].pc.fn \notin {"hangup", "dns"}, proc[p].live, NEW m \in Conv, NEW y, GivesTo(p, m, y)
  PROVE  /\ proc' = [proc EXCEPT ![p] = y] /\ \A r \in Proc : r # p => proc'[r] = proc[r]
         /\ proc'[p] = y /\ y \in ProcRec /\ y.live /\ y.pc.fn \in {"none", "hangup", "dns"} /\ CallOK(y) /\ HasFd(y)
         /\ y.pc.fn = "hangup" => /\ y.pc.conv = m /\ y.pc.gen = conv'[m].gen /\ y.pc.tcp = (conv'[m].proto = "tcp")
                                  /\ y.fd = proc[p].fd
         /\ y.pc.fn = "dns" => /\ y.pc.conv = m /\ y.pc.gen = conv'[m].gen /\ ~y.pc.tcp /\ conv'[m].proto # "tcp"
                               /\ y.pc.step = "connect" /\ y.pc.got = "none" /\ conv'[m].lport = 0 /\ conv'[m].q = <<>>
         /\ y.ret.fn \in {"none", "fd"}
         /\ \A g \in Fd : y.fd[g].kind = "net" =>
              \/ proc[p].fd[g].kind = "net" /\ y.fd[g] = proc[p].fd[g]
              \/ /\ proc[p].fd[g].kind = "free" /\ y.fd[g] = NewFd(m, conv'[m].gen, conv'[m].proto = "tcp")
                 /\ \A h \in Fd : h # g => y.fd[h] = proc[p].fd[h]
         /\ \A g \in Fd : proc[p].fd[g].kind = "net" => y.fd[g] = proc[p].fd[g]
         /\ y.pc.fn # "hangup" => \E g \in Fd : y.fd[g] = NewFd(m, conv'[m].gen, conv'[m].proto = "tcp")
<1> DEFINE x == proc[p]
           gen == conv'[m].gen
           tcp == conv'[m].proto = "tcp"
           e == NewFd(m, gen, tcp)
<1>1. x \in ProcRec /\ proc \in [Proc -> ProcRec] /\ y \in ProcRec /\ proc' = [proc EXCEPT ![p] = y] /\ y.live = x.live /\ x.fd \in Slots
  BY StillHere, CallOf DEF GivesTo, Becomes, SocketInv, SocketType
<1>2. e.kind = "net" /\ e.conv = m /\ e.gen = gen /\ e.tcp = tcp /\ ~e.copied
  BY DEF NewFd
<1>3. GetsNone(x, y, m, gen, tcp) \/ \E f \in Fd : Gets(x, y, f, m, gen, tcp) /\ (y.pc.fn = "dns" => conv'[m].lport = 0 /\ conv'[m].q = <<>>)
  BY DEF GivesTo
<1> HIDE DEF e, gen, tcp
<1>4. CASE GetsNone(x, y, m, gen, tcp)
  <2>1. y.fd = x.fd /\ y.pc.fn = "hangup" /\ y.pc.conv = m /\ y.pc.gen = gen /\ y.pc.tcp = tcp /\ y.ret.fn = "none"
    BY <1>4, IdleResult DEF GetsNone, HangupOf
  <2>2. CallOK(y) /\ HasFd(y)
    BY <2>1 DEF CallOK, HasFd
  <2>. QED
    BY <1>1, <2>1, <2>2 DEF gen, tcp
<1>5. CASE \E f \in Fd : Gets(x, y, f, m, gen, tcp) /\ (y.pc.fn = "dns" => conv'[m].lport = 0 /\ conv'[m].q = <<>>)
  <2>1. PICK f \in Fd : Gets(x, y, f, m, gen, tcp) /\ (y.pc.fn = "dns" => conv'[m].lport = 0 /\ conv'[m].q = <<>>)
    BY <1>5
  <2>2. x.fd[f].kind = "free" /\ y.fd = [x.fd EXCEPT ![f] = e]
    BY <2>1 DEF Gets, e
  <2>3. y.fd[f] = e /\ \A g \in Fd : g # f => y.fd[g] = x.fd[g]
    BY <1>1, <2>2 DEF Slots
  <2>4. \/ y.pc = Idle /\ y.ret.fn = "fd"
        \/ y.ret = Idle /\ y.pc \in InDns /\ y.pc.step = "connect" /\ y.pc.got = "none" /\ ~tcp
           /\ y.pc.f = f /\ y.pc.conv = m /\ y.pc.gen = gen
    BY <2>1 DEF Gets
  <2>5. \/ y.pc.fn = "none" /\ y.ret.fn = "fd"
        \/ y.ret.fn = "none" /\ y.pc.fn = "dns" /\ y.pc.step = "connect" /\ y.pc.got = "none" /\ ~tcp /\ ~y.pc.tcp
           /\ y.pc.f = f /\ y.pc.conv = m /\ y.pc.gen = gen
    <3>1. y.pc = Idle => y.pc.fn = "none"
      BY IdleResult
    <3>2. y.ret = Idle => y.ret.fn = "none"
      BY IdleResult
    <3>3. y.pc \in InDns => y.pc.fn = "dns" /\ ~y.pc.tcp
      BY DEF InDns
    <3>. QED
      BY <2>4, <3>1, <3>2, <3>3
  <2>6. CallOK(y)
    BY <2>5 DEF CallOK
  <2>7. HasFd(y)
    BY <1>2, <2>3, <2>5 DEF HasFd, SameUse
  <2>8. \A g \in Fd : y.fd[g].kind = "net" =>
          \/ x.fd[g].kind = "net" /\ y.fd[g] = x.fd[g]
          \/ x.fd[g].kind = "free" /\ y.fd[g] = e /\ \A h \in Fd : h # g => y.fd[h] = x.fd[h]
    BY <2>2, <2>3
  <2>9. \A g \in Fd : x.fd[g].kind = "net" => y.fd[g] = x.fd[g]
    BY <2>2, <2>3
  <2>10. y.pc.fn = "dns" => conv'[m].lport = 0 /\ conv'[m].q = <<>>
    BY <2>1
  <2>. QED
    BY <1>1, <2>3, <2>5, <2>6, <2>7, <2>8, <2>9, <2>10 DEF e, gen, tcp
<1>. QED
  BY <1>3, <1>4, <1>5
LEMMA GivesKept ==
  ASSUME SocketInv, NEW p \in Proc, proc[p].pc.fn \notin {"hangup", "dns"}, proc[p].live, NEW m \in Conv, NEW y, GivesTo(p, m, y)
  PROVE  Named' /\ Kept' /\ NotThere'
<1> DEFINE gen == conv'[m].gen
           tcp == conv'[m].proto = "tcp"
           e == NewFd(m, gen, tcp)
<1>0. \A i \in Conv : conv[i] \in ConvRec /\ conv[i].gen \in Nat
  BY StillHere DEF ConvRec
<1>1. ASSUME NEW i \in Conv
      PROVE  /\ i # m => Alike(conv[i], conv'[i])
             /\ conv'[m].st # "free" /\ conv'[m].handed /\ conv'[m].owner = p
             /\ conv'[m].gen = conv[m].gen + 1 \/ (conv'[m].gen = conv[m].gen /\ conv'[m].proto = conv[m].proto)
  BY DEF GivesTo
<1>2. ASSUME NEW x, NameOK(x), x.conv \in Conv, x.gen \in Nat
      PROVE  NameOK(x)'
  <2>1. CASE x.conv # m
    BY <1>1, <1>2, <2>1 DEF NameOK, Current, Alike
  <2>2. CASE x.conv = m
    <3>1. x.gen <= conv[m].gen /\ (x.gen = conv[m].gen => x.tcp = (conv[m].proto = "tcp"))
      BY <1>2, <2>2 DEF NameOK, Current
    <3>2. conv'[m].gen = conv[m].gen + 1 \/ (conv'[m].gen = conv[m].gen /\ conv'[m].proto = conv[m].proto)
      BY <1>1
    <3>3. x.gen <= conv'[m].gen /\ (x.gen = conv'[m].gen => x.tcp = (conv'[m].proto = "tcp"))
      BY <1>0, <1>2, <3>1, <3>2
    <3>. QED
      BY <1>1, <2>2, <3>3 DEF NameOK, Current
  <2>. QED
    BY <2>1, <2>2
<1>3. ASSUME NEW x, x.conv = m, x.gen = gen, x.tcp = tcp
      PROVE  NameOK(x)'
  <2>1. gen \in Nat /\ conv'[m].handed
    BY <1>1, StillHere DEF GivesTo, ConvRec
  <2>2. x.gen <= conv'[m].gen
    BY <1>3, <2>1
  <2>. QED
    BY <1>3, <2>1, <2>2 DEF NameOK, Current
<1>4. e.kind = "net" /\ e.conv = m /\ e.gen = gen /\ e.tcp = tcp
  BY DEF NewFd
<1> HIDE DEF e
<1>5. ASSUME NEW r \in Proc, NEW g \in Fd, proc[r].fd[g].kind = "net"
      PROVE  NameOK(proc[r].fd[g]) /\ proc[r].fd[g].conv \in Conv /\ proc[r].fd[g].gen \in Nat
  BY <1>5, StillHere, CallOf DEF SocketInv, Named, IsSocket, NetFd
<1>6. ASSUME NEW r \in Proc, proc[r].pc.fn # "none"
      PROVE  NameOK(proc[r].pc) /\ proc[r].pc.conv \in Conv /\ proc[r].pc.gen \in Nat
  BY <1>6, StillHere, CallOf DEF SocketInv, Named
<1>7. /\ proc'[p] = y /\ y.live /\ \A r \in Proc : r # p => proc'[r] = proc[r]
      /\ \A g \in Fd : y.fd[g].kind = "net" => y.fd[g] = e \/ (proc[p].fd[g].kind = "net" /\ y.fd[g] = proc[p].fd[g])
      /\ \A g \in Fd : proc[p].fd[g].kind = "net" => y.fd[g] = proc[p].fd[g]
      /\ y.pc.fn # "none" => y.pc.conv = m /\ y.pc.gen = gen /\ y.pc.tcp = tcp
      /\ y.pc.fn = "hangup" \/ \E g \in Fd : y.fd[g] = e
  <2>1. y.pc.fn \in {"none", "hangup", "dns"}
    BY GivenNames
  <2>2. y.pc.fn = "hangup" => y.pc.conv = m /\ y.pc.gen = gen /\ y.pc.tcp = tcp
    BY GivenNames
  <2>3. y.pc.fn = "dns" => y.pc.conv = m /\ y.pc.gen = gen /\ y.pc.tcp = tcp
    <3>1. y.pc.fn = "dns" => y \in ProcRec /\ y.pc.conv = m /\ y.pc.gen = gen /\ ~y.pc.tcp /\ ~tcp
      BY GivenNames
    <3>2. y.pc.fn = "dns" => y.pc.tcp \in BOOLEAN
      BY <3>1, CallOf
    <3>. QED
      BY <3>1, <3>2
  <2>4. /\ proc'[p] = y /\ y.live /\ \A r \in Proc : r # p => proc'[r] = proc[r]
        /\ \A g \in Fd : y.fd[g].kind = "net" => y.fd[g] = e \/ (proc[p].fd[g].kind = "net" /\ y.fd[g] = proc[p].fd[g])
        /\ \A g \in Fd : proc[p].fd[g].kind = "net" => y.fd[g] = proc[p].fd[g]
        /\ y.pc.fn = "hangup" \/ \E g \in Fd : y.fd[g] = e
    BY GivenNames DEF e
  <2>. QED
    BY <2>1, <2>2, <2>3, <2>4
<1>8. Named'
  <2>1. ASSUME NEW r \in Proc, NEW g \in Fd, proc'[r].fd[g].kind = "net"
        PROVE  NameOK(proc[r].fd[g])'
    <3>1. CASE proc'[r].fd[g] = e
      <4> DEFINE d == proc'[r].fd[g]
      <4>1. d.conv = m /\ d.gen = gen /\ d.tcp = tcp
        BY <1>4, <3>1
      <4> HIDE DEF gen, tcp
      <4>. QED
        BY <1>3, <4>1
    <3>2. CASE proc'[r].fd[g] = proc[r].fd[g]
      <4>1. NameOK(proc[r].fd[g]) /\ proc[r].fd[g].conv \in Conv /\ proc[r].fd[g].gen \in Nat
        BY <1>5, <2>1, <3>2
      <4> DEFINE x == proc[r].fd[g]
      <4>2. proc'[r].fd[g] = x /\ NameOK(x) /\ x.conv \in Conv /\ x.gen \in Nat
        BY <3>2, <4>1
      <4>3. x.gen <= conv'[x.conv].gen /\ (x.gen = conv'[x.conv].gen => x.tcp = (conv'[x.conv].proto = "tcp") /\ conv'[x.conv].handed)
        <5>1. ASSUME NEW v, NameOK(v), v.conv \in Conv, v.gen \in Nat
              PROVE  v.gen <= conv'[v.conv].gen /\ (v.gen = conv'[v.conv].gen => v.tcp = (conv'[v.conv].proto = "tcp") /\ conv'[v.conv].handed)
          BY <1>2, <5>1 DEF NameOK, Current
        <5> HIDE DEF x
        <5>. QED
          BY <4>2, <5>1
      <4>. QED
        BY <4>2, <4>3 DEF NameOK, Current
    <3>. QED
      BY <1>7, <2>1, <3>1, <3>2
  <2>2. ASSUME NEW r \in Proc, proc'[r].pc.fn # "none"
        PROVE  NameOK(proc[r].pc)'
    <3>1. CASE r = p
      <4> DEFINE d == proc'[r].pc
      <4>1. d.conv = m /\ d.gen = gen /\ d.tcp = tcp
        BY <1>7, <2>2, <3>1
      <4> HIDE DEF gen, tcp
      <4>. QED
        BY <1>3, <4>1
    <3>2. CASE r # p
      <4> DEFINE x == proc[r].pc
      <4>1. proc'[r].pc = x
        BY <1>7, <3>2
      <4>2. NameOK(x) /\ x.conv \in Conv /\ x.gen \in Nat
        BY <1>6, <2>2, <4>1
      <4>3. x.gen <= conv'[x.conv].gen /\ (x.gen = conv'[x.conv].gen => x.tcp = (conv'[x.conv].proto = "tcp") /\ conv'[x.conv].handed)
        <5>1. ASSUME NEW v, NameOK(v), v.conv \in Conv, v.gen \in Nat
              PROVE  v.gen <= conv'[v.conv].gen /\ (v.gen = conv'[v.conv].gen => v.tcp = (conv'[v.conv].proto = "tcp") /\ conv'[v.conv].handed)
          BY <1>2, <5>1 DEF NameOK, Current
        <5> HIDE DEF x
        <5>. QED
          BY <4>2, <5>1
      <4>. QED
        BY <4>1, <4>3 DEF NameOK, Current
    <3>. QED
      BY <3>1, <3>2
  <2>. QED
    BY <2>1, <2>2 DEF Named, IsSocket
<1>9. Kept'
  <2> SUFFICES ASSUME NEW i \in Conv, conv'[i].st # "free", conv'[i].handed, proc'[conv'[i].owner].live
               PROVE  Keeps(conv[i].owner, i)'
    BY DEF Kept
  <2>1. CASE i = m
    <3>1. conv'[i].owner = p
      BY <1>1, <2>1
    <3>2. CASE y.pc.fn = "hangup"
      BY <1>7, <2>1, <3>1, <3>2 DEF Keeps, Current
    <3>3. CASE \E g \in Fd : y.fd[g] = e
      BY <1>4, <1>7, <2>1, <3>1, <3>3 DEF Keeps, Current, IsSocket
    <3>. QED
      BY <1>7, <3>2, <3>3
  <2>2. CASE i # m
    <3> DEFINE o == conv[i].owner
    <3>1. conv[i].st # "free" /\ conv[i].handed /\ conv'[i].owner = o /\ conv'[i].gen = conv[i].gen
      BY <1>1, <2>2 DEF Alike
    <3>2. o \in Proc
      BY <3>1, StillHere DEF ConvOK
    <3>3. proc[o].live
      BY <1>7, <3>1, <3>2
    <3>4. Keeps(o, i)
      BY <3>1, <3>3 DEF SocketInv, Kept
    <3> HIDE DEF o
    <3>5. \A g \in Fd : proc[o].fd[g].kind = "net" => proc'[o].fd[g] = proc[o].fd[g]
      BY <1>7, <3>2
    <3>6. proc[o].pc.fn = "hangup" => proc'[o].pc = proc[o].pc
      BY <1>7, <3>2
    <3>7. CASE \E f \in Fd : IsSocket(o, f) /\ proc[o].fd[f].conv = i /\ Current(proc[o].fd[f])
      BY <3>1, <3>5, <3>7 DEF Keeps, IsSocket, Current
    <3>8. CASE proc[o].pc.fn = "hangup" /\ proc[o].pc.conv = i /\ Current(proc[o].pc)
      BY <3>1, <3>6, <3>8 DEF Keeps, Current
    <3>. QED
      BY <3>1, <3>4, <3>7, <3>8 DEF Keeps
  <2>. QED
    BY <2>1, <2>2
<1>10. NotThere'
  <2> SUFFICES ASSUME NEW r \in Proc, ~proc'[r].live
               PROVE  /\ proc'[r].pc = Idle /\ \A g \in Fd : proc'[r].fd[g] = Closed
                      /\ proc'[r].ret.fn = "none" => \A i \in Conv : conv'[i].st # "free" => conv'[i].owner # r
    BY DEF NotThere
  <2>1. r # p /\ proc'[r] = proc[r] /\ ~proc[r].live
    BY <1>7
  <2>2. ASSUME NEW i \in Conv, proc'[r].ret.fn = "none", conv'[i].st # "free"
        PROVE  conv'[i].owner # r
    <3>1. CASE i = m
      BY <1>1, <2>1, <3>1
    <3>2. CASE i # m
      BY <1>1, <2>1, <2>2, <3>2 DEF Alike, SocketInv, NotThere
    <3>. QED
      BY <3>1, <3>2
  <2>. QED
    BY <2>1, <2>2 DEF SocketInv, NotThere
<1>. QED
  BY <1>8, <1>9, <1>10

\* A lookup on a conversation that goes on, in a process that does not.
LEMMA LookupKeeps ==
  ASSUME SocketInv, ~strayed, NEW r \in Proc, proc[r].pc.fn = "dns", proc'[r] = proc[r],
         Alike(conv[proc[r].pc.conv], conv'[proc[r].pc.conv]), Still(proc[r].pc.conv, conv'[proc[r].pc.conv]),
         eph' = eph, queries' = queries
  PROVE  Lookup(r)'
<1> DEFINE x == proc[r].pc
           i == x.conv
           e == conv'[i]
<1>1. Lookup(r)
  BY LookupIsUdp
<1>2. proc'[r].pc = x /\ Alike(conv[i], e) /\ e.lport = conv[i].lport
  BY DEF Still
<1>3. \A j \in 1 .. Len(e.q) : e.q[j].who = r => e.q[j].name = x.name
  BY <1>1, Zenon DEF Still, FitsProc, Lookup
<1>4. /\ x.gen = e.gen /\ e.st # "free" /\ e.owner = r
      /\ IF x.step = "connect" THEN e.lport = 0 ELSE e.lport \in Ephemeral
      /\ (\A m \in queries : m.port = e.lport /\ m.who = r => m.name = x.name) /\ x.got \in {"none", x.name}
  BY <1>1, <1>2, Zenon DEF Lookup, Current, Alike
<1>5. Ephemeral' = Ephemeral
  BY DEF Ephemeral
<1>. QED
  BY <1>2, <1>3, <1>4, <1>5, Zenon DEF Lookup, Current

LEMMA GivesStep ==
  ASSUME SocketInv, NEW p \in Proc, proc[p].pc.fn \notin {"hangup", "dns"}, proc[p].live, NEW m \in Conv, NEW y, GivesTo(p, m, y),
         CountersOK, eph' = eph, queries' = queries
  PROVE  SocketInv'
<1> DEFINE gen == conv'[m].gen
           tcp == conv'[m].proto = "tcp"
           e == NewFd(m, gen, tcp)
<1>0. strayed => strayed'
  BY DEF CountersOK
<1>1. /\ proc' = [proc EXCEPT ![p] = y] /\ proc \in [Proc -> ProcRec] /\ y \in ProcRec /\ CallOK(y) /\ HasFd(y)
      /\ proc'[p] = y /\ \A r \in Proc : r # p => proc'[r] = proc[r]
  BY GivenNames DEF SocketInv, SocketType
<1>2. SocketType'
  <2>1. proc' \in [Proc -> ProcRec]
    BY <1>1
  <2>2. \A r \in Proc : CallOK(proc'[r]) /\ HasFd(proc'[r])
    BY <1>1, StillHere
  <2>. QED
    BY <2>1, <2>2 DEF SocketType, GivesTo, CountersOK
<1>3. Named' /\ Kept' /\ NotThere'
  BY GivesKept
<1>4. /\ \A g \in Fd : y.fd[g].kind = "net" =>
              \/ proc[p].fd[g].kind = "net" /\ y.fd[g] = proc[p].fd[g]
              \/ y.fd[g] = e /\ \A h \in Fd : h # g /\ y.fd[h].kind = "net" => proc[p].fd[h].kind = "net" /\ y.fd[h] = proc[p].fd[h]
      /\ y.pc.fn = "hangup" => y.pc.conv = m /\ y.pc.gen = gen /\ y.fd = proc[p].fd
      /\ y.ret.fn \in {"none", "fd"}
  BY GivenNames
<1>5. y.pc.fn = "dns" => /\ y.pc.conv = m /\ y.pc.gen = gen /\ y.pc.step = "connect" /\ y.pc.got = "none"
                         /\ conv'[m].lport = 0 /\ conv'[m].q = <<>>
  BY GivenNames
<1>6. e.conv = m /\ e.gen = gen /\ ~e.headers
  BY DEF NewFd
<1> HIDE DEF e, gen
<1>7. ASSUME ~strayed'
      PROVE  Queued' /\ Single' /\ HeadersTrue' /\ Lookups'
  <2>1. /\ ~strayed /\ Queued /\ Single /\ HeadersTrue /\ Lookups
        /\ Unnamed(m, gen) /\ conv'[m].tcb # "listen" /\ ~Asked(m)
        /\ \A l \in Conv : conv'[l].tcb = "listen" => \A k \in DOMAIN conv'[l].aq : conv'[l].aq[k] # m
    BY <1>0, <1>7 DEF GivesTo, SocketInv, gen
  <2>2. \A i \in Conv : i # m =>
          /\ Alike(conv[i], conv'[i]) /\ Lines(conv[i], conv'[i]) /\ conv'[i].headers = conv[i].headers
          /\ Asked(i) => Still(i, conv'[i])
    BY <1>7 DEF GivesTo
  <2>3. Queued'
    <3>1. \A i \in Conv : i \notin {m} => Alike(conv[i], conv'[i]) /\ Lines(conv[i], conv'[i])
      BY <2>2
    <3>2. \A l \in Conv : conv'[l].tcb = "listen" => l \notin {m} /\ \A k \in DOMAIN conv'[l].aq : conv'[l].aq[k] \notin {m}
      BY <2>1
    <3>3. \A i \in Conv : DOMAIN conv[i].aq = 1 .. Len(conv[i].aq) /\ \A k \in DOMAIN conv[i].aq : conv[i].aq[k] \in Conv
      BY AqOf DEF SocketInv
    <3>. QED
      BY <2>1, <3>1, <3>2, <3>3, QueuedOn
  <2>4. ASSUME NEW r \in Proc, NEW g \in Fd, proc'[r].fd[g].kind = "net"
        PROVE  \/ proc[r].fd[g].kind = "net" /\ proc'[r].fd[g] = proc[r].fd[g]
                  /\ ~(proc[r].fd[g].conv = m /\ proc[r].fd[g].gen = gen)
               \/ r = p /\ y.pc.fn # "hangup" /\ proc'[r].fd[g] = e
    <3>1. proc[r].fd[g].kind = "net" => ~(proc[r].fd[g].conv = m /\ proc[r].fd[g].gen = gen)
      BY <2>1 DEF Unnamed, IsSocket
    <3>2. CASE r # p
      BY <1>1, <2>4, <3>1, <3>2
    <3>3. CASE r = p
      <4>1. CASE y.pc.fn = "hangup"
        BY <1>1, <1>4, <2>4, <3>1, <3>3, <4>1
      <4>2. CASE y.pc.fn # "hangup"
        BY <1>1, <1>4, <2>4, <3>1, <3>3, <4>2
      <4>. QED
        BY <4>1, <4>2
    <3>. QED
      BY <3>2, <3>3
  <2>5. ASSUME NEW r \in Proc, NEW s \in Proc, NEW g \in Fd, NEW h \in Fd, <<r, g>> # <<s, h>>,
               proc'[r].fd[g].kind = "net", proc'[s].fd[h].kind = "net", SameUse(proc'[r].fd[g], proc'[s].fd[h])
        PROVE  proc'[r].fd[g].copied
    <3>1. CASE proc'[r].fd[g] = e /\ proc'[s].fd[h] = e
      <4>1. ~(proc[r].fd[g].kind = "net" /\ proc'[r].fd[g] = proc[r].fd[g])
        BY <1>6, <2>1, <3>1 DEF Unnamed, IsSocket
      <4>2. ~(proc[s].fd[h].kind = "net" /\ proc'[s].fd[h] = proc[s].fd[h])
        BY <1>6, <2>1, <3>1 DEF Unnamed, IsSocket
      <4>3. r = p /\ s = p
        BY <2>4, <2>5, <4>1, <4>2
      <4>4. g # h
        BY <2>5, <4>3
      <4>. QED
        BY <1>1, <1>4, <2>5, <4>1, <4>2, <4>3, <4>4
    <3>2. CASE proc'[r].fd[g] = e /\ proc'[s].fd[h] # e
      <4>1. ~(proc'[s].fd[h].conv = m /\ proc'[s].fd[h].gen = gen)
        BY <2>4, <2>5, <3>2
      <4>. QED
        BY <1>6, <2>5, <3>2, <4>1 DEF SameUse
    <3>3. CASE proc'[r].fd[g] # e /\ proc'[s].fd[h] = e
      <4>1. ~(proc'[r].fd[g].conv = m /\ proc'[r].fd[g].gen = gen)
        BY <2>4, <2>5, <3>3
      <4>. QED
        BY <1>6, <2>5, <3>3, <4>1 DEF SameUse
    <3>4. CASE proc'[r].fd[g] # e /\ proc'[s].fd[h] # e
      <4>1. proc[r].fd[g].kind = "net" /\ proc'[r].fd[g] = proc[r].fd[g] /\ proc[s].fd[h].kind = "net" /\ proc'[s].fd[h] = proc[s].fd[h]
        BY <2>4, <2>5, <3>4
      <4>. QED
        BY <2>1, <2>5, <4>1 DEF Single, IsSocket
    <3>. QED
      BY <3>1, <3>2, <3>3, <3>4
  <2>6. ASSUME NEW r \in Proc, NEW s \in Proc, NEW g \in Fd, proc'[s].pc.fn = "hangup", proc'[r].fd[g].kind = "net"
        PROVE  ~SameUse(proc'[r].fd[g], proc'[s].pc)
    <3>1. CASE s = p
      <4>1. proc'[s].pc.conv = m /\ proc'[s].pc.gen = gen /\ y.pc.fn = "hangup"
        BY <1>1, <1>4, <2>6, <3>1
      <4>2. ~(proc'[r].fd[g].conv = m /\ proc'[r].fd[g].gen = gen)
        BY <2>4, <2>6, <4>1
      <4>. QED
        BY <4>1, <4>2 DEF SameUse
    <3>2. CASE s # p
      <4>1. proc'[s] = proc[s] /\ ~(proc[s].pc.conv = m /\ proc[s].pc.gen = gen)
        BY <1>1, <2>1, <2>6, <3>2 DEF Unnamed
      <4>2. CASE proc'[r].fd[g] = e
        BY <1>6, <4>1, <4>2 DEF SameUse
      <4>3. CASE proc[r].fd[g].kind = "net" /\ proc'[r].fd[g] = proc[r].fd[g]
        BY <2>1, <2>6, <4>1, <4>3 DEF Single, IsSocket
      <4>. QED
        BY <2>4, <2>6, <4>2, <4>3
    <3>. QED
      BY <3>1, <3>2
  <2>7. ASSUME NEW r \in Proc, NEW g \in Fd, proc'[r].fd[g].kind = "net", ~proc'[r].fd[g].copied,
               proc'[r].fd[g].gen = conv'[proc'[r].fd[g].conv].gen
        PROVE  proc'[r].fd[g].headers = conv'[proc'[r].fd[g].conv].headers
    <3>1. CASE proc'[r].fd[g] = e
      <4>1. ~conv'[m].headers /\ conv'[m].headers \in BOOLEAN
        BY DEF GivesTo, ConvRec
      <4>2. e.headers \in BOOLEAN
        BY DEF e, NewFd
      <4>. QED
        BY <1>6, <3>1, <4>1, <4>2
    <3>2. CASE /\ proc[r].fd[g].kind = "net" /\ proc'[r].fd[g] = proc[r].fd[g]
               /\ ~(proc[r].fd[g].conv = m /\ proc[r].fd[g].gen = gen)
      <4> DEFINE d == proc[r].fd[g]
      <4>1. d.conv # m
        BY <2>7, <3>2 DEF gen
      <4>2. d.conv \in Conv
        BY <3>2, StillHere, CallOf DEF NetFd
      <4>3. d.gen = conv[d.conv].gen /\ conv'[d.conv].headers = conv[d.conv].headers
        BY <2>2, <2>7, <3>2, <4>1, <4>2 DEF Alike
      <4>4. d.headers = conv[d.conv].headers
        BY <2>1, <2>7, <3>2, <4>3 DEF HeadersTrue, IsSocket, Current
      <4>. QED
        BY <3>2, <4>3, <4>4
    <3>. QED
      BY <2>4, <2>7, <3>1, <3>2
  <2>8. ASSUME NEW r \in Proc, proc'[r].pc.fn = "dns"
        PROVE  Lookup(r)'
    <3>1. CASE r = p
      <4>1. /\ proc'[r].pc.conv = m /\ proc'[r].pc.gen = gen /\ proc'[r].pc.step = "connect" /\ proc'[r].pc.got = "none"
            /\ conv'[m].lport = 0 /\ conv'[m].q = <<>>
        BY <1>1, <1>5, <2>8, <3>1
      <4>2. conv'[m].st # "free" /\ conv'[m].owner = p
        BY DEF GivesTo
      <4>3. \A q \in queries : q.port # 0
        <5>1. eph \in Nat
          BY DEF SocketInv, SocketType
        <5>. QED
          BY <2>1, <5>1 DEF Lookups, Ephemeral
      <4>4. \A j \in 1 .. Len(<<>>) : FALSE
        OBVIOUS
      <4>5. \A q \in queries' : q.port # conv'[m].lport
        BY <4>1, <4>3
      <4>6. \A j \in 1 .. Len(conv'[m].q) : FALSE
        BY <4>1, <4>4
      <4>. QED
        BY <3>1, <4>1, <4>2, <4>5, <4>6 DEF Lookup, Current, gen
    <3>2. CASE r # p
      <4>1. proc'[r] = proc[r] /\ proc[r].pc.fn = "dns" /\ proc[r].pc.conv \in Conv
        BY <1>1, <2>1, <2>8, <3>2, LookupIsUdp
      <4>2. proc[r].pc.conv # m /\ Asked(proc[r].pc.conv)
        BY <2>1, <4>1 DEF Asked
      <4>. QED
        BY <2>1, <2>2, <4>1, <4>2, LookupKeeps
    <3>. QED
      BY <3>1, <3>2
  <2>9. \A q \in queries' : q.port \in Ephemeral'
    BY <2>1 DEF Lookups, Ephemeral
  <2>10. \A r \in Proc : proc'[r].ret.fn = "dns" => proc'[r].ret.got \in {"none", proc'[r].ret.asked}
    BY <1>1, <1>4, <2>1 DEF Lookups
  <2>11. Single'
    BY <2>5, <2>6 DEF Single, IsSocket
  <2>12. HeadersTrue'
    BY <2>7 DEF HeadersTrue, IsSocket, Current
  <2>13. Lookups'
    BY <2>8, <2>9, <2>10 DEF Lookups
  <2>. QED
    BY <2>3, <2>11, <2>12, <2>13
<1>. QED
  BY <1>2, <1>3, <1>7 DEF SocketInv
-----------------------------------------------------------------------------
(* socket and dns_query: a conversation that was free.                       *)

LEMMA AllocTail ==
  ASSUME NEW c \in ConvRec, NEW g \in Nat
  PROVE  [c EXCEPT !.q = <<>>, !.tcb = "none", !.up = FALSE, !.handed = FALSE, !.gen = g] \in ConvRec
<1>1. <<>> \in Seq(Dgram)
  OBVIOUS
<1>. QED
  BY <1>1 DEF ConvRec

LEMMA AllocRec ==
  ASSUME NEW c \in ConvRec, NEW proto \in {"tcp", "udp"}, NEW p \in Proc \cup {0}
  PROVE  LET a == ConvAlloc(c, proto, p) IN
         /\ a \in ConvRec /\ a.st = "open" /\ a.owner = p /\ ~a.headers /\ ~a.handed /\ a.gen = c.gen + 1 /\ a.proto = proto
         /\ a.tcb = "none" /\ a.lport = 0 /\ a.q = <<>> /\ a.aq = c.aq /\ a.slen = c.slen
<1> DEFINE a == ConvAlloc(c, proto, p)
<1>1. /\ a.st = "open" /\ a.owner = p /\ ~a.headers /\ ~a.handed /\ a.gen = c.gen + 1 /\ a.proto = proto
      /\ a.tcb = "none" /\ a.lport = 0 /\ a.q = <<>> /\ a.aq = c.aq /\ a.slen = c.slen
  BY DEF ConvAlloc, ConvRec
<1>2. c.gen + 1 \in Nat /\ <<>> \in Seq(Dgram) /\ 0 \in Nat
  BY DEF ConvRec
<1> DEFINE b == [c EXCEPT !.st = "open", !.proto = proto, !.owner = p, !.lport = 0, !.peer = "none", !.headers = FALSE]
           g == c.gen + 1
<1>3. b \in ConvRec
  BY DEF ConvRec
<1>4. a = [b EXCEPT !.q = <<>>, !.tcb = "none", !.up = FALSE, !.handed = FALSE, !.gen = g]
  BY DEF ConvAlloc, ConvRec
<1> HIDE DEF b, g, a
<1>5. a \in ConvRec
  BY <1>2, <1>3, <1>4, AllocTail DEF g
<1>. QED
  BY <1>1, <1>5 DEF a

LEMMA FreshGives ==
  ASSUME SocketInv, NEW p \in Proc, FreeConvs # {}, NEW proto \in {"tcp", "udp"}, strayed' = strayed,
         conv' = [conv EXCEPT ![LowestFree] = [ConvAlloc(@, proto, p) EXCEPT !.handed = TRUE]],
         NEW y \in ProcRec, Becomes(p, y), y.live = proc[p].live,
         LET m == LowestFree
             gen == conv[m].gen + 1
             tcp == proto = "tcp"
         IN GetsNone(proc[p], y, m, gen, tcp) \/ \E f \in Fd : Gets(proc[p], y, f, m, gen, tcp)
  PROVE  GivesTo(p, LowestFree, y)
<1> DEFINE m == LowestFree
           c == conv[m]
           e == [ConvAlloc(c, proto, p) EXCEPT !.handed = TRUE]
<1>1. m \in Conv /\ c.st = "free" /\ c \in ConvRec /\ ConvOK(c) /\ conv \in [Conv -> ConvRec]
  BY FreeConvOf, StillHere DEF SocketInv, SocketType
<1> HIDE DEF m
<1>2. conv' = [conv EXCEPT ![m] = e]
  BY DEF m
<1>3. /\ e \in ConvRec /\ e.st = "open" /\ e.owner = p /\ e.handed /\ ~e.headers /\ e.gen = c.gen + 1 /\ e.proto = proto
      /\ e.tcb = "none" /\ e.lport = 0 /\ e.q = <<>> /\ e.aq = c.aq /\ e.slen = c.slen
  <2> DEFINE a == ConvAlloc(c, proto, p)
  <2>1. /\ a \in ConvRec /\ a.st = "open" /\ a.owner = p /\ ~a.headers /\ a.gen = c.gen + 1 /\ a.proto = proto
        /\ a.tcb = "none" /\ a.lport = 0 /\ a.q = <<>> /\ a.aq = c.aq /\ a.slen = c.slen
    BY <1>1, AllocRec
  <2>2. e = [a EXCEPT !.handed = TRUE]
    OBVIOUS
  <2> HIDE DEF a, e
  <2>3. e \in ConvRec
    BY <2>1, <2>2 DEF ConvRec
  <2>. QED
    BY <2>1, <2>2 DEF ConvRec
<1>4. ConvOK(e)
  <2>1. Len(<<>>) = 0 /\ 0 <= Buf
    BY SocketConstants
  <2>. QED
    BY <1>1, <1>3, <2>1 DEF ConvOK
<1> HIDE DEF e
<1>5. conv'[m] = e /\ \A i \in Conv : i # m => conv'[i] = conv[i]
  BY <1>1, <1>2
<1>6. conv' \in [Conv -> ConvRec] /\ \A i \in Conv : ConvOK(conv'[i])
  <2>1. conv' \in [Conv -> ConvRec]
    BY <1>1, <1>2, <1>3
  <2>. QED
    BY <1>4, <1>5, <2>1, StillHere
<1>7. \A i \in Conv : i # m =>
        /\ Alike(conv[i], conv'[i])
        /\ Lines(conv[i], conv'[i]) /\ conv'[i].headers = conv[i].headers /\ Still(i, conv'[i])
  <2> SUFFICES ASSUME NEW i \in Conv, i # m
               PROVE  /\ Alike(conv[i], conv[i])
                      /\ Lines(conv[i], conv[i]) /\ Still(i, conv[i])
    BY <1>5
  <2>. QED
    BY WithinSelf DEF Alike, Lines, Still
<1>8. ASSUME ~strayed
      PROVE  /\ Unnamed(m, e.gen) /\ e.tcb # "listen" /\ ~Asked(m)
             /\ \A l \in Conv : conv'[l].tcb = "listen" => \A k \in DOMAIN conv'[l].aq : conv'[l].aq[k] # m
  <2>1. Unnamed(m, e.gen)
    BY <1>1, <1>3, UnnamedIf DEF ConvRec
  <2>2. ~Asked(m)
    BY <1>1, <1>8, AskedIsUdp
  <2>3. ASSUME NEW l \in Conv, conv'[l].tcb = "listen", NEW k \in DOMAIN conv'[l].aq
        PROVE  conv'[l].aq[k] # m
    <3>1. conv'[l] = conv[l] /\ Queued
      BY <1>3, <1>5, <1>8, <2>3 DEF SocketInv
    <3>2. conv[l].tcb = "listen" /\ k \in DOMAIN conv[l].aq
      BY <2>3, <3>1
    <3>3. conv[conv[l].aq[k]].st # "free"
      BY <3>1, <3>2 DEF Queued, Queues
    <3>. QED
      BY <1>1, <3>1, <3>3
  <2>. QED
    BY <1>3, <2>1, <2>2, <2>3
<1>9. LET tcp == proto = "tcp" IN
      GetsNone(proc[p], y, m, e.gen, tcp) \/ \E f \in Fd : Gets(proc[p], y, f, m, e.gen, tcp)
  BY <1>3 DEF m
<1>10. GivesTo(p, m, y)
  BY <1>1, <1>3, <1>5, <1>6, <1>7, <1>8, <1>9 DEF GivesTo
<1>. QED
  BY <1>10 DEF m

LEMMA SocketOK ==
  ASSUME SocketInv, NEW p \in Proc, NEW proto \in {"tcp", "udp"}, Socket(p, proto), strayed' = strayed
  PROVE  SocketInv'
<1> DEFINE x == proc[p]
<1>1. Calls(p) /\ UNCHANGED <<eph, queries>> /\ x.live /\ x.pc.fn = "none" /\ x.pc = Idle /\ x \in ProcRec
  BY Caller DEF Socket
<1>2. CountersOK /\ eph <= eph'
  BY <1>1, CallCounts
<1>3. CASE FreeConvs = {}
  <2> DEFINE r == [fn |-> "socket", k |-> "ENFILE"]
             y == Returns(x, r)
  <2>1. Becomes(p, y) /\ conv' = conv
    BY <1>3 DEF Socket
  <2>2. r \in Result /\ r.fn = "socket"
    BY DEF Result, Code
  <2> HIDE DEF r
  <2>3. QuietProc(x, y)
    BY <1>1, <2>2, ReturnQuiet
  <2> HIDE DEF y
  <2>. QED
    BY <1>1, <1>2, <2>1, <2>3, QuietAt
<1>4. CASE FreeConvs # {}
  <2> DEFINE m == LowestFree
             gen == conv[m].gen + 1
             tcp == proto = "tcp"
             y == Opened(x, m, gen, tcp, Idle)
  <2>1. /\ Becomes(p, Opened(x, LowestFree, conv[LowestFree].gen + 1, proto = "tcp", Idle))
        /\ conv' = [conv EXCEPT ![LowestFree] = [ConvAlloc(@, proto, p) EXCEPT !.handed = TRUE]]
    BY <1>4 DEF Socket
  <2>2. m \in Conv /\ gen \in Nat /\ tcp \in BOOLEAN
    BY <1>4, FreeConvOf, StillHere DEF ConvRec
  <2>3. Becomes(p, y)
    BY <2>1
  <2> HIDE DEF m, gen, tcp
  <2>6. x \in Opening
    BY <1>1 DEF Opening, ProcRec
  <2>4. y \in ProcRec /\ y.live = x.live /\ (GetsNone(x, y, m, gen, tcp) \/ \E f \in Fd : Gets(x, y, f, m, gen, tcp))
    BY <2>2, <2>6, OpenedOf
  <2> HIDE DEF y
  <2>5. GivesTo(p, m, y)
    BY <1>4, <2>1, <2>3, <2>4, FreshGives DEF m, gen, tcp
  <2>. QED
    BY <1>1, <1>2, <2>2, <2>5, GivesStep
<1>. QED
  BY <1>3, <1>4

LEMMA DnsQueryOK ==
  ASSUME SocketInv, NEW p \in Proc, NEW name \in Name, DnsQuery(p, name), strayed' = strayed
  PROVE  SocketInv'
<1> DEFINE x == proc[p]
           pc == [fn |-> "dns", name |-> name, f |-> 0, conv |-> 0, tcp |-> FALSE, gen |-> 0, step |-> "connect", n |-> 0,
                  parked |-> FALSE, got |-> "none"]
<1>1. Calls(p) /\ UNCHANGED <<eph, queries>> /\ x.live /\ x.pc.fn = "none" /\ x.pc = Idle /\ x \in ProcRec
  BY Caller DEF DnsQuery
<1>2. CountersOK /\ eph <= eph'
  BY <1>1, CallCounts
<1>3. CASE FreeConvs = {}
  <2> DEFINE r == [fn |-> "dns", asked |-> name, got |-> "none"]
             y == Returns(x, r)
  <2>1. Becomes(p, y) /\ conv' = conv
    BY <1>3 DEF DnsQuery
  <2>2. r \in Result /\ r.fn = "dns" /\ r.got = "none"
    BY DEF Result
  <2> HIDE DEF r
  <2>3. y \in ProcRec /\ y.live /\ y.fd = x.fd /\ y.pc = Idle /\ y.pc.fn = "none" /\ y.ret = r
    BY <1>1, <2>2, IdleResult DEF Returns, ProcRec
  <2> HIDE DEF y
  <2>4. CallOK(y) /\ HasFd(y)
    BY <2>2, <2>3 DEF CallOK, HasFd
  <2>5. Onward(x, y) /\ SameLookup(x, y) /\ SameHeaders(x, y)
    BY <1>1, <2>2, <2>3 DEF Onward, SameSlots, SameUse, SameLookup, SameHeaders
  <2>6. QuietProc(x, y)
    BY <2>3, <2>4, <2>5 DEF QuietProc
  <2>. QED
    BY <1>1, <1>2, <2>1, <2>6, QuietAt
<1>4. CASE FreeConvs # {}
  <2> DEFINE m == LowestFree
             gen == conv[m].gen + 1
             w == Enters(x, pc)
             y == Opened(w, m, gen, FALSE, pc)
  <2>1. /\ Becomes(p, y)
        /\ conv' = [conv EXCEPT ![LowestFree] = [ConvAlloc(@, "udp", p) EXCEPT !.handed = TRUE]]
    BY <1>4 DEF DnsQuery
  <2>2. m \in Conv /\ gen \in Nat
    BY <1>4, FreeConvOf, StillHere DEF ConvRec
  <2>3. pc \in ToDns /\ pc.fn = "dns"
    <3>1. 0 \in Conv /\ 0 \in Nat
      BY <2>2, ConstantsOK DEF Conv
    <3>. QED
      BY <3>1 DEF ToDns
  <2> HIDE DEF pc
  <2>5. w \in Opening /\ w.fd = x.fd /\ w.live = x.live
    BY <1>1, <2>3, IdleResult DEF Enters, Opening, ProcRec
  <2> HIDE DEF w
  <2>7. y \in ProcRec /\ y.live = w.live /\ (GetsNone(w, y, m, gen, FALSE) \/ \E f \in Fd : Gets(w, y, f, m, gen, FALSE))
    <3> HIDE DEF m, gen
    <3>. QED
      BY <2>2, <2>3, <2>5, OpenedOf
  <2> HIDE DEF y
  <2>9. y \in ProcRec /\ y.live = x.live /\ (GetsNone(x, y, m, gen, FALSE) \/ \E f \in Fd : Gets(x, y, f, m, gen, FALSE))
    BY <2>5, <2>7 DEF GetsNone, Gets
  <2>10. GivesTo(p, m, y)
    <3>1. ("udp" = "tcp") = FALSE
      OBVIOUS
    <3>. QED
      BY <1>4, <2>1, <2>9, <3>1, FreshGives
  <2> HIDE DEF m
  <2>. QED
    BY <1>1, <1>2, <2>2, <2>10, GivesStep
<1>. QED
  BY <1>3, <1>4
-----------------------------------------------------------------------------
(* Reads that ask, and reads that were parked.                               *)

LEMMA QueueEntry ==
  ASSUME Queued, NEW l \in Conv, conv[l].tcb = "listen", NEW k \in DOMAIN conv[l].aq
  PROVE  conv[l].handed /\ conv[conv[l].aq[k]].st # "free" /\ ~conv[conv[l].aq[k]].handed /\ conv[conv[l].aq[k]].owner = conv[l].owner
<1>1. Queues(l)
  BY DEF Queues
<1>. QED
  BY <1>1 DEF Queued

LEMMA QueueOnce ==
  ASSUME Queued, NEW l \in Conv, NEW i \in Conv, conv[l].tcb = "listen", conv[i].tcb = "listen",
         NEW k \in DOMAIN conv[l].aq, NEW n \in DOMAIN conv[i].aq, conv[l].aq[k] = conv[i].aq[n]
  PROVE  l = i /\ k = n
<1>1. Queues(l) /\ Queues(i)
  BY DEF Queues
<1>. QED
  BY <1>1 DEF Queued

LEMMA EntriesAt ==
  ASSUME NEW T, NEW s \in Seq(T), NEW S \in SUBSET DOMAIN s, NEW n \in DOMAIN Entries(s, S)
  PROVE  \E j \in S : Entries(s, S)[n] = s[j]
<1>1. PICK g \in [DOMAIN Entries(s, S) -> S] : \A j \in DOMAIN Entries(s, S) : Entries(s, S)[j] = s[g[j]]
  BY EntriesOf
<1>. QED
  BY <1>1

\* A listener's queue is t; a conversation gets an owner.
LEMMA QueueRec ==
  ASSUME NEW c \in ConvRec, ConvOK(c), NEW t \in Seq(Conv), Len(t) <= Len(c.aq)
  PROVE  LET a == [c EXCEPT !.aq = t] IN
         a \in ConvRec /\ a.aq = t /\ a.tcb = c.tcb /\ a.headers = c.headers /\ Alike(c, a) /\ a.lport = c.lport /\ a.q = c.q /\ ConvOK(a)
<1> DEFINE a == [c EXCEPT !.aq = t]
<1>1. a \in ConvRec
  BY DEF ConvRec
<1>2. /\ a.aq = t /\ a.q = c.q /\ a.slen = c.slen /\ a.st = c.st /\ a.owner = c.owner /\ a.proto = c.proto /\ a.lport = c.lport
      /\ a.tcb = c.tcb /\ a.up = c.up /\ a.headers = c.headers /\ a.handed = c.handed /\ a.gen = c.gen
  BY DEF ConvRec
<1> HIDE DEF a
<1>3. Len(t) <= AcceptQ
  <2>1. Len(c.aq) \in Nat /\ Len(t) \in Nat /\ Len(c.aq) <= AcceptQ /\ AcceptQ \in Nat
    BY LenProperties, SocketConstants DEF ConvOK, ConvRec
  <2>. QED
    BY <2>1
<1>4. ConvOK(a)
  BY <1>2, <1>3 DEF ConvOK
<1>. QED
  BY <1>1, <1>2, <1>4 DEF Alike, a

\* A conversation handed to p.
HandedTo(c, p) == [c EXCEPT !.owner = p, !.handed = TRUE]
LEMMA OwnerRec ==
  ASSUME NEW c \in ConvRec, ConvOK(c), c.st # "free", NEW p \in Proc, NEW e, e = HandedTo(c, p)
  PROVE  e \in ConvRec /\ ConvOK(e) /\ e.owner = p /\ e.handed /\ e.gen = c.gen /\ e.proto = c.proto /\ e.st = c.st /\ e.tcb = c.tcb
<1>1. e \in ConvRec
  BY DEF ConvRec, HandedTo
<1>2. /\ e.aq = c.aq /\ e.q = c.q /\ e.slen = c.slen /\ e.st = c.st /\ e.owner = p /\ e.proto = c.proto /\ e.lport = c.lport
      /\ e.tcb = c.tcb /\ e.up = c.up /\ e.headers = c.headers /\ e.handed /\ e.gen = c.gen
  BY DEF ConvRec, HandedTo
<1>3. ConvOK(e)
  BY <1>2 DEF ConvOK
<1>. QED
  BY <1>1, <1>2, <1>3

\* The first connection that is up is handed out.
LEMMA HandsOut ==
  ASSUME SocketInv, strayed => strayed', strayed' \in BOOLEAN, NEW p \in Proc, proc[p].live, proc[p].pc.fn = "accept", NEW l \in Conv,
         NEW k \in DOMAIN conv[l].aq, NEW S \in SUBSET DOMAIN conv[l].aq, k \notin S, Ready(conv[l].aq[k]), conv[l].tcb = "listen",
         conv' = Handing(l, k, S, p), NEW y, y = Opened(proc[p], conv[l].aq[k], conv[conv[l].aq[k]].gen, TRUE, Idle), Becomes(p, y),
         UNCHANGED <<eph, queries, ops>>
  PROVE  SocketInv'
<1> DEFINE x == proc[p]
           aq == conv[l].aq
           m == aq[k]
           t == Entries(aq, S)
           a == [conv[l] EXCEPT !.aq = t]
           B == [conv EXCEPT ![l] = a]
           e == [B[m] EXCEPT !.owner = p, !.handed = TRUE]
           gen == conv[m].gen
<1>1. /\ conv \in [Conv -> ConvRec] /\ aq \in Seq(Conv) /\ m \in Conv /\ DOMAIN aq = 1 .. Len(aq)
      /\ \A i \in Conv : conv[i] \in ConvRec /\ ConvOK(conv[i])
  <2>1. conv \in [Conv -> ConvRec] /\ \A i \in Conv : conv[i] \in ConvRec /\ ConvOK(conv[i])
    BY StillHere DEF SocketInv, SocketType
  <2>2. aq \in Seq(Conv) /\ DOMAIN aq = 1 .. Len(aq) /\ m \in Conv
    BY AqOf DEF SocketInv
  <2>. QED
    BY <2>1, <2>2
<1>2. t \in Seq(Conv) /\ Len(t) <= Len(aq) /\ Within(t, aq)
  BY <1>1, EntriesWithin
<1>3. conv' = [B EXCEPT ![m] = e]
  BY <1>1 DEF Handing
<1> HIDE DEF t
<1>4. a \in ConvRec /\ a.aq = t /\ a.tcb = conv[l].tcb /\ a.headers = conv[l].headers /\ Alike(conv[l], a) /\ a.lport = conv[l].lport /\ a.q = conv[l].q
  BY <1>1, <1>2, QueueRec
<1>5. ConvOK(a)
  BY <1>1, <1>2, QueueRec
<1> HIDE DEF a
<1>6. B \in [Conv -> ConvRec] /\ B[l] = a /\ \A i \in Conv : i # l => B[i] = conv[i]
  BY <1>1, <1>4
<1>7. \A i \in Conv : B[i] \in ConvRec /\ ConvOK(B[i]) /\ Alike(conv[i], B[i])
  <2>1. \A i \in Conv : Alike(conv[i], conv[i])
    BY DEF Alike
  <2>. QED
    BY <1>1, <1>4, <1>5, <1>6, <2>1
<1>8. B[m].st # "free" /\ B[m].tcb \notin {"none", "synrcvd"} /\ B[m].gen = gen /\ B[m].proto = conv[m].proto
  BY <1>1, <1>4, <1>6, <1>7 DEF Ready, Alike
<1> HIDE DEF B
<1>9. e \in ConvRec /\ ConvOK(e) /\ e.owner = p /\ e.handed /\ e.gen = gen /\ e.proto = conv[m].proto /\ e.st # "free" /\ e.tcb = B[m].tcb
  <2> DEFINE b == B[m]
  <2>1. b \in ConvRec /\ ConvOK(b) /\ b.st # "free"
    BY <1>1, <1>7, <1>8
  <2>2. b.gen = gen /\ b.proto = conv[m].proto /\ b.tcb = B[m].tcb
    BY <1>8
  <2>3. e = HandedTo(b, p)
    BY DEF HandedTo
  <2> HIDE DEF b, e, m, gen
  <2>4. /\ e \in ConvRec /\ ConvOK(e) /\ e.owner = p /\ e.handed /\ e.gen = b.gen
        /\ e.proto = b.proto /\ e.st = b.st /\ e.tcb = b.tcb
    BY SMTT(30), <2>1, <2>3, OwnerRec
  <2>. QED
    BY <2>1, <2>2, <2>4
<1>10. e.proto = "tcp" /\ ~e.headers
  BY <1>8, <1>9, TcpConv
<1> HIDE DEF e
<1>11. conv'[m] = e /\ (\A i \in Conv : i # m => conv'[i] = B[i]) /\ conv' \in [Conv -> ConvRec]
  <2>1. m \in Conv /\ e \in ConvRec
    BY <1>1, <1>9
  <2> HIDE DEF m
  <2>. QED
    BY <1>3, <1>6, <2>1
<1>12. \A i \in Conv : ConvOK(conv'[i])
  <2> SUFFICES ASSUME NEW i \in Conv PROVE ConvOK(conv'[i])
    OBVIOUS
  <2>1. CASE i = m
    BY <1>9, <1>11, <2>1
  <2>2. CASE i # m
    BY <1>7, <1>11, <2>2
  <2>. QED
    BY <2>1, <2>2
<1>13. ASSUME NEW i \in Conv, i # m
       PROVE  /\ Alike(conv[i], conv'[i]) /\ Lines(conv[i], conv'[i]) /\ conv'[i].headers = conv[i].headers
              /\ Asked(i) => Still(i, conv'[i])
  <2>1. CASE i = l
    <3>1. conv'[i] = a
      BY <1>6, <1>11, <1>13, <2>1
    <3>2. Lines(conv[i], a)
      BY <1>2, <1>4, <2>1 DEF Lines
    <3>3. Still(i, a)
      BY <1>4, <2>1 DEF Still
    <3>. QED
      BY <1>4, <2>1, <3>1, <3>2, <3>3
  <2>2. CASE i # l
    <3>1. conv'[i] = conv[i]
      BY <1>6, <1>11, <1>13, <2>2
    <3>. QED
      BY <3>1, WithinSelf DEF Alike, Lines, Still
  <2>. QED
    BY <2>1, <2>2
<1>14. ASSUME ~strayed'
       PROVE  /\ Unnamed(m, gen) /\ e.tcb # "listen" /\ ~Asked(m)
              /\ \A i \in Conv : conv'[i].tcb = "listen" => \A n \in DOMAIN conv'[i].aq : conv'[i].aq[n] # m
  <2>1. ~strayed /\ Queued
    BY <1>14 DEF SocketInv
  <2>2. conv[l].handed /\ ~conv[m].handed /\ conv[m].st # "free"
    BY <2>1, QueueEntry
  <2>3. l # m
    BY <2>2
  <2>4. Unnamed(m, gen)
    BY <1>1, <2>2, UnnamedIf DEF ConvRec
  <2>5. conv[m].tcb # "listen"
    BY <1>1, <2>1, <2>2 DEF Queued, Queues
  <2>9. e.tcb # "listen"
    BY <1>1, <1>6, <1>9, <2>3, <2>5
  <2>6. B[m] = conv[m]
    BY <1>1, <1>6, <2>3
  <2>7. ~Asked(m)
    BY <1>9, <1>10, <2>1, AskedIsUdp
  <2>8. ASSUME NEW i \in Conv, conv'[i].tcb = "listen", NEW n \in DOMAIN conv'[i].aq, conv'[i].aq[n] = m
        PROVE  FALSE
    <3>1. i # m
      BY <1>11, <2>8, <2>9
    <3>2. conv'[i] = B[i]
      BY <1>11, <3>1
    <3>3. CASE i = l
      <4>1. n \in DOMAIN t /\ t[n] = m
        BY <1>4, <1>6, <2>8, <3>2, <3>3
      <4>2. PICK j \in S : t[n] = aq[j]
        BY <1>1, <4>1, EntriesAt DEF t
      <4>3. j \in DOMAIN conv[l].aq /\ conv[l].aq[j] = conv[l].aq[k]
        BY <4>1, <4>2
      <4>4. j = k
        BY <2>1, <4>3, QueueOnce
      <4>. QED
        BY <4>2, <4>4
    <3>4. CASE i # l
      <4>1. conv'[i] = conv[i] /\ n \in DOMAIN conv[i].aq /\ conv[i].aq[n] = aq[k]
        BY <1>6, <2>8, <3>2, <3>4
      <4>3. i = l
        BY <2>1, <2>8, <4>1, QueueOnce
      <4>. QED
        BY <3>4, <4>3
    <3>. QED
      BY <3>3, <3>4
  <2>. QED
    BY <2>4, <2>7, <2>8, <2>9
<1>15. y \in ProcRec /\ y.live = x.live /\ (GetsNone(x, y, m, gen, TRUE) \/ \E f \in Fd : Gets(x, y, f, m, gen, TRUE))
  <2>1. x \in Opening
    BY StillHere DEF Opening, ProcRec
  <2>2. gen \in Nat
    BY <1>1 DEF ConvRec
  <2>3. y = Opened(x, m, gen, TRUE, Idle)
    OBVIOUS
  <2>4. m \in Conv
    BY <1>1
  <2> HIDE DEF m, gen, x
  <2> DEFINE w == Opened(x, m, gen, TRUE, Idle)
  <2>5. w \in ProcRec /\ w.live = x.live /\ (GetsNone(x, w, m, gen, TRUE) \/ \E f \in Fd : Gets(x, w, f, m, gen, TRUE))
    BY <2>1, <2>2, <2>4, OpenedOf
  <2>6. y = w
    BY <2>3
  <2> HIDE DEF w
  <2>. QED
    BY <2>5, <2>6
<1>16. GivesTo(p, m, y)
  <2>1. (conv'[m].proto = "tcp") = TRUE /\ conv'[m].gen = gen
    <3> HIDE DEF m, gen
    <3>. QED
      BY SMTT(30), <1>9, <1>10, <1>11
  <2>3. \A f \in Fd : Gets(x, y, f, m, gen, TRUE) => y.pc.fn # "dns"
    BY IdleResult DEF Gets
  <2> HIDE DEF m, gen
  <2>4. strayed' \/ (/\ Unnamed(m, conv'[m].gen) /\ conv'[m].tcb # "listen" /\ ~Asked(m)
                     /\ \A i \in Conv : conv'[i].tcb = "listen" => \A n \in DOMAIN conv'[i].aq : conv'[i].aq[n] # m)
    BY <1>11, <1>14, <2>1
  <2>5. conv'[m].st # "free" /\ conv'[m].handed /\ conv'[m].owner = p /\ ~conv'[m].headers /\ conv'[m].gen = conv[m].gen /\ conv'[m].proto = conv[m].proto
    BY <1>9, <1>10, <1>11, <2>1 DEF gen
  <2>6. \/ GetsNone(x, y, m, conv'[m].gen, conv'[m].proto = "tcp")
        \/ \E f \in Fd : Gets(x, y, f, m, conv'[m].gen, conv'[m].proto = "tcp") /\ (y.pc.fn = "dns" => conv'[m].lport = 0 /\ conv'[m].q = <<>>)
    BY <1>15, <2>1, <2>3, Zenon
  <2>. QED
    BY <1>11, <1>12, <1>13, <1>15, <2>4, <2>5, <2>6, Zenon DEF GivesTo
<1>17. CountersOK
  BY DEF CountersOK, SocketInv, SocketType
<1>. QED
  BY <1>1, <1>16, <1>17, GivesStep

\* A read that waits is parked.
LEMMA ParkQuiet ==
  ASSUME SocketInv, NEW p \in Proc, Waits(proc[p])
  PROVE  QuietProc(proc[p], [proc[p] EXCEPT !.pc.parked = TRUE])
<1> DEFINE x == proc[p]
           d == x.pc
           z == [d EXCEPT !.parked = TRUE]
<1>1. x \in ProcRec /\ d.fn \in {"accept", "recv", "dns"}
  BY StillHere DEF Waits
<1>2. d \in InRead \/ d \in InDns
  BY <1>1, CallOf
<1>3. z \in InCall /\ z.fn = d.fn /\ SameUse(z, d) /\ z.tcp = d.tcp
  <2>1. CASE d \in InRead
    <3>1. z \in InRead /\ z.fn = d.fn /\ z.conv = d.conv /\ z.gen = d.gen /\ z.tcp = d.tcp
      BY <2>1 DEF InRead
    <3>. QED
      BY <3>1 DEF InCall, SameUse
  <2>2. CASE d \in InDns
    <3>1. z \in InDns /\ z.fn = d.fn /\ z.conv = d.conv /\ z.gen = d.gen /\ z.tcp = d.tcp
      BY <2>2 DEF InDns
    <3>. QED
      BY <3>1 DEF InCall, SameUse
  <2>. QED
    BY <1>2, <2>1, <2>2
<1>4. z.fn = "dns" => z.f = d.f /\ z.name = d.name /\ z.step = d.step /\ z.got = d.got
  <2>1. d.fn = "dns" => d \in InDns
    BY <1>1, CallOf
  <2>2. d \in InDns => z.f = d.f /\ z.name = d.name /\ z.step = d.step /\ z.got = d.got
    BY DEF InDns
  <2>. QED
    BY <1>3, <2>1, <2>2
<1> HIDE DEF z
<1>5. QuietProc(x, [x EXCEPT !.pc = z])
  BY <1>1, <1>3, <1>4, PcQuiet
<1>. QED
  BY <1>5 DEF z
\* A read is answered with bytes, the end, or nothing yet.
LEMMA ReadOK ==
  ASSUME SocketInv, strayed => strayed', strayed' \in BOOLEAN, NEW p \in Proc, Waits(proc[p]),
         conv' = [conv EXCEPT ![proc[p].pc.conv] = ReadNow(conv[proc[p].pc.conv]).c],
         NEW y, Becomes(p, y), \/ y = Answer(proc[p], p, ReadNow(conv[proc[p].pc.conv]).r)
                               \/ y = [proc[p] EXCEPT !.pc.parked = TRUE],
         UNCHANGED <<eph, queries, ops>>
  PROVE  SocketInv'
<1> DEFINE x == proc[p]
           i == x.pc.conv
           z == ReadNow(conv[i])
           r == z.r
<1>1. x.pc.fn \in {"accept", "recv", "dns"} /\ i \in Conv
  BY StillHere, CallOf DEF Waits
<1>2. QuietConv(i, z.c) /\ r.k \in {"retry", "eof", "err", "data"} /\ (r.k = "data" => r.d \in Dgram /\ 1 \in 1 .. Len(conv[i].q) /\ r.d = conv[i].q[1])
  BY SMTT(30), <1>1, ReadNowOf
<1>3. ~strayed' /\ x.pc.fn = "dns" /\ r.k = "data" /\ r.d.who = p => r.d.name = x.pc.name
  <2> SUFFICES ASSUME ~strayed', x.pc.fn = "dns", r.k = "data", r.d.who = p
               PROVE  r.d.name = x.pc.name
    OBVIOUS
  <2>1. Lookup(p)
    BY SMTT(30), LookupIsUdp
  <2>2. \A j \in 1 .. Len(conv[i].q) : conv[i].q[j].who = p => conv[i].q[j].name = x.pc.name
    BY <2>1 DEF Lookup
  <2> HIDE DEF i, z, r
  <2>. QED
    BY <1>2, <2>2 DEF i
<1> HIDE DEF r
<1>4. QuietProc(x, Answer(x, p, r))
  BY <1>2, <1>3, AnswerQuiet
<1>5. QuietProc(x, [x EXCEPT !.pc.parked = TRUE])
  BY ParkQuiet
<1>6. QuietProc(x, y)
  BY <1>4, <1>5 DEF r
<1>7. CountersOK /\ eph <= eph'
  BY DEF CountersOK, SocketInv, SocketType
<1>8. conv' = [conv EXCEPT ![i] = z.c]
  OBVIOUS
<1> HIDE DEF z, i, x
<1>9. \E j \in Conv : \E e : conv' = [conv EXCEPT ![j] = e] /\ QuietConv(j, e)
  BY <1>1, <1>2, <1>8
<1>. QED
  BY <1>6, <1>7, <1>9, QuietAt DEF x

\* ... or refused.
LEMMA RefusedOK ==
  ASSUME SocketInv, strayed => strayed', strayed' \in BOOLEAN, NEW p \in Proc, Waits(proc[p]), conv' = conv,
         Becomes(p, Answer(proc[p], p, Err)), UNCHANGED <<eph, queries, ops>>
  PROVE  SocketInv'
<1>1. Err.k = "err"
  BY DEF Err
<1>2. QuietProc(proc[p], Answer(proc[p], p, Err))
  BY <1>1, AnswerQuiet
<1>3. CountersOK /\ eph <= eph'
  BY DEF CountersOK, SocketInv, SocketType
<1>. QED
  BY <1>2, <1>3, QuietAt

\* An accept is answered.
LEMMA AcceptedOK ==
  ASSUME SocketInv, strayed => strayed', strayed' \in BOOLEAN, NEW p \in Proc, proc[p].live, proc[p].pc.fn = "accept",
         conv' = AcceptNow(proc[p].pc.conv, p).C,
         NEW y, Becomes(p, y), \/ y = Answer(proc[p], p, AcceptNow(proc[p].pc.conv, p).r)
                               \/ AcceptNow(proc[p].pc.conv, p).r.k = "retry" /\ y = [proc[p] EXCEPT !.pc.parked = TRUE],
         UNCHANGED <<eph, queries, ops>>
  PROVE  SocketInv'
<1> DEFINE x == proc[p]
           l == x.pc.conv
           z == AcceptNow(l, p)
           r == z.r
           aq == conv[l].aq
<1>1. l \in Conv /\ Waits(x)
  BY StillHere, CallOf DEF Waits
<1>2. \/ r.k \in {"err", "retry"} /\ (z.C = conv \/ \E e : z.C = [conv EXCEPT ![l] = e] /\ QuietConv(l, e))
      \/ \E k \in DOMAIN aq, S \in SUBSET DOMAIN aq :
           /\ k \notin S /\ Ready(aq[k]) /\ conv[l].tcb = "listen"
           /\ r.k = "conn" /\ r.conv = aq[k]
           /\ z.C = Handing(l, k, S, p)
  BY <1>1, AcceptNowOf
<1>3. conv' = z.C /\ (y = Answer(x, p, r) \/ (r.k = "retry" /\ y = [x EXCEPT !.pc.parked = TRUE]))
  OBVIOUS
<1> HIDE DEF z, r, x
<1>4. CASE r.k \in {"err", "retry"} /\ (z.C = conv \/ \E e : z.C = [conv EXCEPT ![l] = e] /\ QuietConv(l, e))
  <2>1. QuietProc(x, Answer(x, p, r))
    BY <1>1, <1>4, AnswerQuiet DEF x
  <2>2. QuietProc(x, [x EXCEPT !.pc.parked = TRUE])
    BY <1>1, ParkQuiet DEF x
  <2>3. QuietProc(x, y)
    BY <1>3, <2>1, <2>2
  <2>4. CountersOK /\ eph <= eph'
    BY DEF CountersOK, SocketInv, SocketType
  <2>5. conv' = conv \/ \E j \in Conv : \E e : conv' = [conv EXCEPT ![j] = e] /\ QuietConv(j, e)
    <3> HIDE DEF l
    <3>. QED
      BY <1>1, <1>3, <1>4
  <2>. QED
    BY <2>3, <2>4, <2>5, QuietAt DEF x
<1>5. ASSUME NEW k \in DOMAIN aq, NEW S \in SUBSET DOMAIN aq,
             k \notin S, Ready(aq[k]), conv[l].tcb = "listen", r.k = "conn", r.conv = aq[k],
             z.C = Handing(l, k, S, p)
      PROVE  SocketInv'
  <2>1. y = Answer(x, p, r) /\ x.pc.fn = "accept"
    BY <1>3, <1>5 DEF x
  <2>2. Answer(x, p, r) = Opened(x, r.conv, conv[r.conv].gen, TRUE, Idle)
    BY <1>5, <2>1, Zenon DEF Answer
  <2>3. y = Opened(proc[p], aq[k], conv[aq[k]].gen, TRUE, Idle)
    BY <1>5, <2>1, <2>2, Zenon DEF x
  <2>4. conv' = Handing(l, k, S, p)
    BY <1>3, <1>5
  <2> HIDE DEF l
  <2>. QED
    BY <1>1, <1>5, <2>3, <2>4, HandsOut
<1>. QED
  BY <1>2, <1>4, <1>5

LEMMA AskOK ==
  ASSUME SocketInv, NEW p \in Proc, Ask(p), Reaches(proc[p].pc)
  PROVE  SocketInv'
<1> DEFINE x == proc[p]
           d == x.pc
           read == ReadNow(conv[d.conv])
           acc == AcceptNow(d.conv, p)
           r == IF ~Valid(d) \/ (d.fn = "accept" /\ ~d.tcp) THEN Err ELSE IF d.fn = "accept" THEN acc.r ELSE read.r
           y == IF r.k = "retry" /\ Cardinality({q \in Proc : Parked(proc[q])}) < NPend
                THEN [x EXCEPT !.pc.parked = TRUE] ELSE Answer(x, p, r)
<1>1. x.live /\ Waits(x) /\ UNCHANGED <<eph, queries, ops>>
  BY DEF Ask
<1>2. Becomes(p, y)
  BY DEF Ask
<1>3. conv' = CASE ~Valid(d) \/ (d.fn = "accept" /\ ~d.tcp) -> conv
                [] Valid(d) /\ d.fn = "accept" /\ d.tcp -> acc.C
                [] OTHER -> [conv EXCEPT ![d.conv] = read.c]
  BY DEF Ask
<1>4. (strayed => strayed') /\ strayed' \in BOOLEAN
  BY DEF SocketInv, SocketType, Reaches
<1>5. d.tcp \in BOOLEAN
  BY StillHere, CallOf, <1>1 DEF Waits
<1>6. CASE ~Valid(d) \/ (d.fn = "accept" /\ ~d.tcp)
  <2>1. conv' = conv /\ r = Err
    BY <1>3, <1>6
  <2>2. y = Answer(x, p, Err)
    BY <2>1 DEF Err
  <2>. QED
    BY <1>1, <1>2, <1>4, <2>1, <2>2, RefusedOK
<1>7. CASE Valid(d) /\ d.fn = "accept" /\ d.tcp
  <2>1. conv' = acc.C /\ r = acc.r
    BY <1>3, <1>7
  <2>2. y = Answer(x, p, acc.r) \/ (acc.r.k = "retry" /\ y = [x EXCEPT !.pc.parked = TRUE])
    BY <2>1
  <2> HIDE DEF y, r
  <2>. QED
    BY <1>1, <1>2, <1>4, <1>7, <2>1, <2>2, AcceptedOK
<1>8. CASE Valid(d) /\ d.fn # "accept"
  <2>1. conv' = [conv EXCEPT ![d.conv] = read.c] /\ r = read.r
    BY <1>3, <1>8
  <2>2. y = Answer(x, p, read.r) \/ y = [x EXCEPT !.pc.parked = TRUE]
    BY <2>1
  <2> HIDE DEF y, r
  <2>. QED
    BY <1>1, <1>2, <1>4, <2>1, <2>2, ReadOK
<1>. QED
  BY <1>5, <1>6, <1>7, <1>8

LEMMA PendServiceOK ==
  ASSUME SocketInv, NEW p \in Proc, PendService(p), Reaches(proc[p].pc)
  PROVE  SocketInv'
<1> DEFINE x == proc[p]
           d == x.pc
           read == ReadNow(conv[d.conv])
           acc == AcceptNow(d.conv, p)
           y == Answer(x, p, IF d.fn = "accept" THEN acc.r ELSE read.r)
<1>1. x.live /\ Waits(x) /\ UNCHANGED <<eph, queries, ops>>
  BY DEF PendService, Parked
<1>2. Becomes(p, y) /\ conv' = IF d.fn = "accept" THEN acc.C ELSE [conv EXCEPT ![d.conv] = read.c]
  BY DEF PendService
<1>3. (strayed => strayed') /\ strayed' \in BOOLEAN
  BY DEF SocketInv, SocketType, Reaches
<1>4. CASE d.fn = "accept"
  <2>1. conv' = acc.C /\ y = Answer(x, p, acc.r)
    BY <1>2, <1>4
  <2> HIDE DEF y
  <2>. QED
    BY <1>1, <1>2, <1>3, <1>4, <2>1, AcceptedOK
<1>5. CASE d.fn # "accept"
  <2>1. conv' = [conv EXCEPT ![d.conv] = read.c] /\ y = Answer(x, p, read.r)
    BY <1>2, <1>5
  <2> HIDE DEF y
  <2>. QED
    BY <1>1, <1>2, <1>3, <2>1, ReadOK, Zenon
<1>. QED
  BY <1>4, <1>5
-----------------------------------------------------------------------------
(* A connection comes in.                                                    *)

LEMMA PeerConnectsOK ==
  ASSUME SocketInv, strayed' = strayed, NEW l \in Conv, PeerConnects(l)
  PROVE  SocketInv'
<1> DEFINE m == LowestFree
           c == conv[m]
           aq == conv[l].aq
           t == Append(aq, m)
           a == [conv[l] EXCEPT !.aq = t]
           b == TcbAlloc(ConvAlloc(c, "tcp", conv[l].owner), "synrcvd")
           e == [b EXCEPT !.st = "connected", !.peer = "host", !.lport = conv[l].lport]
<1>1. conv[l].tcb = "listen" /\ Len(aq) < AcceptQ /\ FreeConvs # {} /\ UNCHANGED <<proc, eph, queries, ops>>
  BY DEF PeerConnects
<1>2. /\ m \in Conv /\ c.st = "free" /\ c \in ConvRec /\ conv[l] \in ConvRec /\ ConvOK(conv[l]) /\ conv \in [Conv -> ConvRec]
      /\ aq \in Seq(Conv) /\ DOMAIN aq = 1 .. Len(aq) /\ Len(aq) \in Nat
  BY <1>1, FreeConvOf, StillHere, AqOf DEF SocketInv, SocketType
<1>3. conv[l].proto = "tcp" /\ conv[l].st # "free" /\ conv[l].owner \in Proc /\ conv[l].lport \in Nat \cup Port
  <2>1. conv[l].proto = "tcp" /\ conv[l].st # "free"
    BY <1>1, <1>2, TcpConv
  <2>. QED
    BY <1>2, <2>1 DEF ConvOK, ConvRec
<1>4. l # m
  BY <1>2, <1>3
<1> HIDE DEF m
<1>5. conv' = [conv EXCEPT ![m] = e, ![l] = a]
  <2>1. conv' = [conv EXCEPT
       ![m] = [TcbAlloc(ConvAlloc(@, "tcp", conv[l].owner), "synrcvd") EXCEPT
                          !.st = "connected", !.peer = "host", !.lport = conv[l].lport],
       ![l].aq = Append(@, m)]
    BY DEF PeerConnects, m
  <2>. QED
    BY <1>2, <1>4, <2>1
<1>6. /\ e \in ConvRec /\ ConvOK(e) /\ e.owner = conv[l].owner /\ ~e.handed /\ e.gen = c.gen + 1 /\ e.st # "free" /\ e.tcb = "synrcvd"
  <2> DEFINE h == ConvAlloc(c, "tcp", conv[l].owner)
             u == conv[l].lport
  <2>1. h \in ConvRec /\ h.owner = conv[l].owner /\ ~h.headers /\ ~h.handed /\ h.gen = c.gen + 1 /\ h.proto = "tcp"
    BY <1>2, <1>3, AllocRec
  <2>2. b = TcbAlloc(h, "synrcvd")
    OBVIOUS
  <2> HIDE DEF h, b
  <2>3. /\ b \in ConvRec /\ b.tcb = "synrcvd" /\ b.q = <<>> /\ b.aq = <<>> /\ b.slen = 0 /\ b.owner = conv[l].owner /\ ~b.handed
        /\ b.gen = c.gen + 1 /\ b.proto = "tcp" /\ ~b.headers
    BY <2>1, <2>2, TcbAllocRec
  <2>4. u \in Nat \cup Port
    BY <1>3
  <2> HIDE DEF u
  <2>5. e = [b EXCEPT !.st = "connected", !.peer = "host", !.lport = u]
    BY DEF u
  <2> HIDE DEF e
  <2>6. e \in ConvRec
    BY <2>3, <2>4, <2>5 DEF ConvRec
  <2>7. /\ e.tcb = "synrcvd" /\ e.q = <<>> /\ e.aq = <<>> /\ e.slen = 0 /\ e.owner = conv[l].owner /\ ~e.handed
        /\ e.gen = c.gen + 1 /\ e.proto = "tcp" /\ ~e.headers /\ e.st = "connected"
    BY <2>3, <2>5 DEF ConvRec
  <2>8. Len(e.q) = 0 /\ Len(e.aq) = 0 /\ 0 <= Buf /\ 0 <= AcceptQ
    BY <2>7, SocketConstants
  <2>9. ConvOK(e)
    BY <1>3, <2>7, <2>8 DEF ConvOK
  <2>. QED
    BY <2>6, <2>7, <2>9
<1> HIDE DEF e
<1>7. t \in Seq(Conv) /\ Len(t) = Len(aq) + 1 /\ (\A k \in 1 .. Len(aq) : t[k] = aq[k]) /\ t[Len(aq) + 1] = m
  BY <1>2
<1> HIDE DEF t
<1>8. /\ a \in ConvRec /\ a.aq = t /\ a.tcb = "listen" /\ a.headers = conv[l].headers /\ Alike(conv[l], a) /\ a.lport = conv[l].lport
      /\ a.q = conv[l].q /\ a.handed = conv[l].handed /\ a.owner = conv[l].owner /\ ConvOK(a)
  <2>1. a \in ConvRec
    BY <1>2, <1>7 DEF ConvRec
  <2>2. /\ a.aq = t /\ a.q = conv[l].q /\ a.slen = conv[l].slen /\ a.st = conv[l].st /\ a.owner = conv[l].owner /\ a.proto = conv[l].proto
        /\ a.lport = conv[l].lport /\ a.tcb = conv[l].tcb /\ a.up = conv[l].up /\ a.headers = conv[l].headers
        /\ a.handed = conv[l].handed /\ a.gen = conv[l].gen
    BY <1>2 DEF ConvRec
  <2> HIDE DEF a
  <2>3. Len(t) <= AcceptQ
    BY <1>1, <1>2, <1>7, SocketConstants
  <2>4. ConvOK(a)
    BY <1>2, <2>2, <2>3 DEF ConvOK
  <2>. QED
    BY <1>1, <2>1, <2>2, <2>4 DEF Alike
<1> HIDE DEF a
<1>9. /\ conv' \in [Conv -> ConvRec] /\ conv'[m] = e /\ conv'[l] = a /\ \A i \in Conv : i # m /\ i # l => conv'[i] = conv[i]
  BY <1>2, <1>4, <1>5, <1>6, <1>8
<1>10. \A i \in Conv : i # m => Alike(conv[i], conv'[i]) /\ conv'[i].headers = conv[i].headers /\ Still(i, conv'[i]) /\ conv'[i].tcb = conv[i].tcb
  <2> SUFFICES ASSUME NEW i \in Conv, i # m
               PROVE  Alike(conv[i], conv'[i]) /\ conv'[i].headers = conv[i].headers /\ Still(i, conv'[i]) /\ conv'[i].tcb = conv[i].tcb
    OBVIOUS
  <2>1. CASE i = l
    BY <1>1, <1>8, <1>9, <2>1 DEF Still
  <2>2. CASE i # l
    BY <1>9, <2>2 DEF Still, Alike
  <2>. QED
    BY <2>1, <2>2
<1>11. SocketType'
  <2>1. \A i \in Conv : ConvOK(conv'[i])
    BY <1>6, <1>8, <1>9, StillHere
  <2>2. SocketType
    BY DEF SocketInv
  <2>. QED
    BY <1>1, <1>9, <2>1, <2>2 DEF SocketType
<1>12. NotThere'
  <2> SUFFICES ASSUME NEW p \in Proc, ~proc[p].live, proc[p].ret.fn = "none", NEW i \in Conv, conv'[i].st # "free"
               PROVE  conv'[i].owner # p
    BY <1>1 DEF SocketInv, NotThere
  <2>1. conv[l].owner # p
    BY <1>3 DEF SocketInv, NotThere
  <2>2. i # m => conv[i].st # "free" /\ conv'[i].owner = conv[i].owner
    BY <1>10 DEF Alike
  <2>3. i # m => conv[i].owner # p
    BY <2>2 DEF SocketInv, NotThere
  <2>. QED
    BY <1>6, <1>9, <2>1, <2>2, <2>3
<1>13. ASSUME NEW x, NameOK(x), x.conv \in Conv, x.gen \in Nat
       PROVE  /\ x.gen <= conv'[x.conv].gen
              /\ x.gen = conv'[x.conv].gen => /\ x.conv # m /\ x.gen = conv[x.conv].gen
                                              /\ x.tcp = (conv'[x.conv].proto = "tcp") /\ conv'[x.conv].handed
  <2>1. CASE x.conv = m
    <3>1. x.gen <= c.gen /\ c.gen \in Nat
      BY <1>2, <1>13, <2>1 DEF NameOK, ConvRec
    <3>. QED
      BY <1>6, <1>9, <1>13, <2>1, <3>1
  <2>2. CASE x.conv # m
    BY <1>10, <1>13, <2>2 DEF NameOK, Alike, Current
  <2>. QED
    BY <2>1, <2>2
<1>14. ASSUME NEW p \in Proc, NEW f \in Fd, proc[p].fd[f].kind = "net"
       PROVE  NameOK(proc[p].fd[f]) /\ proc[p].fd[f].conv \in Conv /\ proc[p].fd[f].gen \in Nat
  BY <1>14, StillHere, CallOf DEF SocketInv, Named, IsSocket, NetFd
<1>15. ASSUME NEW p \in Proc, proc[p].pc.fn # "none"
       PROVE  NameOK(proc[p].pc) /\ proc[p].pc.conv \in Conv /\ proc[p].pc.gen \in Nat
  BY <1>15, StillHere, CallOf DEF SocketInv, Named
<1>16. Named'
  <2>1. ASSUME NEW p \in Proc, NEW f \in Fd, proc[p].fd[f].kind = "net"
        PROVE  NameOK(proc[p].fd[f])'
    BY <1>1, <1>13, <1>14, <2>1 DEF NameOK, Current
  <2>2. ASSUME NEW p \in Proc, proc[p].pc.fn # "none"
        PROVE  NameOK(proc[p].pc)'
    BY <1>1, <1>13, <1>15, <2>2 DEF NameOK, Current
  <2>. QED
    BY <1>1, <2>1, <2>2 DEF Named, IsSocket
<1>17. Kept'
  <2> SUFFICES ASSUME NEW i \in Conv, conv'[i].st # "free", conv'[i].handed, proc[conv'[i].owner].live
               PROVE  Keeps(conv[i].owner, i)'
    BY <1>1 DEF Kept
  <2>1. i # m
    BY <1>6, <1>9
  <2>2. conv[i].st # "free" /\ conv[i].handed /\ conv'[i].owner = conv[i].owner /\ conv'[i].gen = conv[i].gen
    BY <1>10, <2>1 DEF Alike
  <2>3. Keeps(conv[i].owner, i)
    BY <2>2 DEF SocketInv, Kept
  <2> DEFINE o == conv[i].owner
  <2>4. \/ \E f \in Fd : proc[o].fd[f].kind = "net" /\ proc[o].fd[f].conv = i /\ proc[o].fd[f].gen = conv[i].gen
        \/ proc[o].pc.fn = "hangup" /\ proc[o].pc.conv = i /\ proc[o].pc.gen = conv[i].gen
    BY <2>3, Zenon DEF Keeps, Current, IsSocket
  <2>5. conv'[i].owner = o /\ proc' = proc
    BY <1>1, <2>2
  <2> HIDE DEF o
  <2>6. \/ \E f \in Fd : proc'[o].fd[f].kind = "net" /\ proc'[o].fd[f].conv = i /\ proc'[o].fd[f].gen = conv'[i].gen
        \/ proc'[o].pc.fn = "hangup" /\ proc'[o].pc.conv = i /\ proc'[o].pc.gen = conv'[i].gen
    BY <2>2, <2>4, <2>5
  <2>. QED
    BY <2>5, <2>6 DEF Keeps, Current, IsSocket
<1>18. ASSUME ~strayed
       PROVE  Queued' /\ Single' /\ HeadersTrue' /\ Lookups'
  <2>1. Queued /\ Single /\ HeadersTrue /\ Lookups
    BY <1>18 DEF SocketInv
  <2>2. ASSUME NEW i \in Conv, conv'[i].tcb = "listen"
        PROVE  i # m /\ conv[i].tcb = "listen" /\ conv'[i].handed /\ conv'[i].owner = conv[i].owner
    <3>1. i # m
      BY <1>6, <1>9, <2>2
    <3>2. conv[i].tcb = "listen"
      BY <1>10, <2>2, <3>1
    <3>3. conv[i].handed
      BY <2>1, <3>2 DEF Queued, Queues
    <3>. QED
      BY <1>10, <3>1, <3>2, <3>3 DEF Alike
  <2>3. ASSUME NEW i \in Conv, conv'[i].tcb = "listen", NEW k \in DOMAIN conv'[i].aq
        PROVE  \/ k \in DOMAIN conv[i].aq /\ conv'[i].aq[k] = conv[i].aq[k]
               \/ i = l /\ k = Len(aq) + 1 /\ conv'[i].aq[k] = m
    <3>1. CASE i = l
      <4>1. DOMAIN conv'[i].aq = 1 .. Len(aq) + 1
        BY <1>7, <1>8, <1>9, <3>1, LenProperties
      <4>2. k \in 1 .. Len(aq) \/ k = Len(aq) + 1
        BY <1>2, <2>3, <4>1
      <4>. QED
        BY <1>2, <1>7, <1>8, <1>9, <3>1, <4>2
    <3>2. CASE i # l
      BY <1>9, <2>2, <2>3, <3>2
    <3>. QED
      BY <3>1, <3>2
  <2>4. ASSUME NEW i \in Conv, conv[i].tcb = "listen", NEW k \in DOMAIN conv[i].aq
        PROVE  conv[i].aq[k] # m /\ conv[i].aq[k] \in Conv
    BY <1>2, <2>1, <2>4, QueueEntry, AqOf DEF SocketInv
  <2>5. ASSUME NEW i \in Conv, conv'[i].tcb = "listen", NEW k \in DOMAIN conv'[i].aq
        PROVE  LET v == conv'[conv'[i].aq[k]] IN v.st # "free" /\ ~v.handed /\ v.owner = conv'[i].owner
    <3>1. CASE i = l /\ k = Len(aq) + 1 /\ conv'[i].aq[k] = m
      BY <1>6, <1>8, <1>9, <3>1
    <3>2. CASE k \in DOMAIN conv[i].aq /\ conv'[i].aq[k] = conv[i].aq[k]
      <4> DEFINE n == conv[i].aq[k]
      <4>1. conv[i].tcb = "listen" /\ conv'[i].owner = conv[i].owner
        BY <2>2, <2>5
      <4>2. conv[n].st # "free" /\ ~conv[n].handed /\ conv[n].owner = conv[i].owner
        BY <2>1, <3>2, <4>1, QueueEntry
      <4>3. n # m /\ n \in Conv
        BY <2>4, <3>2, <4>1
      <4>4. Alike(conv[n], conv'[n])
        BY <1>10, <4>3
      <4>. QED
        BY <3>2, <4>1, <4>2, <4>4 DEF Alike
    <3>. QED
      BY <2>3, <2>5, <3>1, <3>2
  <2>6. ASSUME NEW i \in Conv, NEW j \in Conv, conv'[i].tcb = "listen", conv'[j].tcb = "listen",
               NEW k \in DOMAIN conv'[i].aq, NEW n \in DOMAIN conv'[j].aq, conv'[i].aq[k] = conv'[j].aq[n]
        PROVE  i = j /\ k = n
    <3>1. conv[i].tcb = "listen" /\ conv[j].tcb = "listen"
      BY <2>2, <2>6
    <3>2. CASE conv'[i].aq[k] = m
      <4>1. i = l /\ k = Len(aq) + 1
        BY <2>3, <2>4, <2>6, <3>1, <3>2
      <4>2. j = l /\ n = Len(aq) + 1
        BY <2>3, <2>4, <2>6, <3>1, <3>2
      <4>. QED
        BY <4>1, <4>2
    <3>3. CASE conv'[i].aq[k] # m
      <4>1. k \in DOMAIN conv[i].aq /\ conv'[i].aq[k] = conv[i].aq[k]
        BY <2>3, <2>6, <3>3
      <4>2. n \in DOMAIN conv[j].aq /\ conv'[j].aq[n] = conv[j].aq[n]
        BY <2>3, <2>6, <3>3
      <4>3. conv[i].aq[k] = conv[j].aq[n]
        BY <2>6, <4>1, <4>2
      <4>. QED
        BY <2>1, <3>1, <4>1, <4>2, <4>3, QueueOnce
    <3>. QED
      BY <3>2, <3>3
  <2>7. Queued'
    BY <2>2, <2>5, <2>6 DEF Queued, Queues
  <2>8. Single'
    BY <1>1, <2>1 DEF Single, IsSocket
  <2>9. HeadersTrue'
    <3> SUFFICES ASSUME NEW p \in Proc, NEW f \in Fd, proc[p].fd[f].kind = "net", ~proc[p].fd[f].copied,
                        proc[p].fd[f].gen = conv'[proc[p].fd[f].conv].gen
                 PROVE  proc[p].fd[f].headers = conv'[proc[p].fd[f].conv].headers
      BY <1>1 DEF HeadersTrue, IsSocket, Current
    <3> DEFINE d == proc[p].fd[f]
    <3>1. d.conv # m /\ d.gen = conv[d.conv].gen /\ d.conv \in Conv
      BY <1>13, <1>14
    <3>2. d.headers = conv[d.conv].headers
      BY <2>1, <3>1 DEF HeadersTrue, IsSocket, Current
    <3>. QED
      BY <1>10, <3>1, <3>2
  <2>10. ASSUME NEW p \in Proc, proc[p].pc.fn = "dns"
         PROVE  Lookup(p)'
    <3>1. proc[p].pc.conv \in Conv /\ conv[proc[p].pc.conv].st # "free" /\ proc'[p] = proc[p]
      BY <1>1, <1>18, <2>10, LookupIsUdp DEF Lookup
    <3>2. proc[p].pc.conv # m
      BY <1>2, <3>1
    <3>. QED
      BY <1>1, <1>10, <1>18, <2>10, <3>1, <3>2, LookupKeeps
  <2>11. Lookups'
    BY <1>1, <2>1, <2>10 DEF Lookups, Ephemeral
  <2>. QED
    BY <2>7, <2>8, <2>9, <2>11
<1>. QED
  BY <1>11, <1>12, <1>16, <1>17, <1>18 DEF SocketInv
-----------------------------------------------------------------------------
(* Conversations are freed: hangups, and reads that were parked on them.     *)

\* A process whose read is dropped goes on with its call.
LEMMA DroppedQuiet ==
  ASSUME SocketInv, strayed => strayed', NEW S, NEW r \in Proc
  PROVE  QuietProc(proc[r], DropPends(S)[r]) /\ DropPends(S)[r].fd = proc[r].fd
<1> DEFINE x == proc[r]
           a == IF x.pc.fn = "accept" THEN Err ELSE Eof
<1>1. DropPends(S)[r] = IF Parked(x) /\ x.pc.conv \in S THEN Answer(x, r, a) ELSE x
  BY DEF DropPends
<1>2. a.k \in {"err", "eof"}
  BY DEF Err, Eof
<1> HIDE DEF a
<1>3. CASE Parked(x) /\ x.pc.conv \in S
  <2>1. Waits(x)
    BY <1>3 DEF Parked
  <2>2. QuietProc(x, Answer(x, r, a)) /\ Answer(x, r, a).fd = x.fd
    BY <1>2, <2>1, AnswerQuiet
  <2>. QED
    BY <1>1, <1>3, <2>2
<1>4. CASE ~(Parked(x) /\ x.pc.conv \in S)
  BY <1>1, <1>4, StillHere
<1>. QED
  BY <1>3, <1>4

LEMMA FreedOf ==
  ASSUME SocketInv, NEW S \in SUBSET Conv, conv' = Freed(S)
  PROVE  /\ conv' \in [Conv -> ConvRec]
         /\ \A i \in Conv : i \notin S => conv'[i] = conv[i]
         /\ \A i \in S : conv'[i].st = "free" /\ conv'[i].tcb = "none"
         /\ \A i \in Conv : /\ ConvOK(conv'[i]) /\ conv'[i].gen = conv[i].gen /\ conv'[i].proto = conv[i].proto
                            /\ conv'[i].handed = conv[i].handed /\ conv'[i].headers = conv[i].headers
                            /\ conv'[i].st = "free" \/ i \notin S
<1>1. ASSUME NEW c \in ConvRec, ConvOK(c)
      PROVE  LET e == [c EXCEPT !.st = "free", !.tcb = "none"] IN
             /\ e \in ConvRec /\ ConvOK(e) /\ e.st = "free" /\ e.tcb = "none"
             /\ e.gen = c.gen /\ e.proto = c.proto /\ e.handed = c.handed /\ e.headers = c.headers
  <2> DEFINE e == [c EXCEPT !.st = "free", !.tcb = "none"]
  <2>1. e \in ConvRec
    BY <1>1 DEF ConvRec
  <2>2. /\ e.st = "free" /\ e.tcb = "none" /\ e.gen = c.gen /\ e.proto = c.proto /\ e.handed = c.handed /\ e.headers = c.headers
        /\ e.q = c.q /\ e.aq = c.aq /\ e.slen = c.slen
    BY <1>1 DEF ConvRec
  <2> HIDE DEF e
  <2>3. ConvOK(e)
    BY <1>1, <2>2 DEF ConvOK
  <2>. QED
    BY <2>1, <2>2, <2>3 DEF e
<1>2. \A i \in Conv : conv'[i] = IF i \in S THEN [conv[i] EXCEPT !.st = "free", !.tcb = "none"] ELSE conv[i]
  BY DEF Freed
<1>3. \A i \in Conv : conv[i] \in ConvRec /\ ConvOK(conv[i])
  BY StillHere
<1>4. ASSUME NEW i \in Conv
      PROVE  /\ conv'[i] \in ConvRec /\ (i \notin S => conv'[i] = conv[i]) /\ (i \in S => conv'[i].st = "free" /\ conv'[i].tcb = "none")
             /\ ConvOK(conv'[i]) /\ conv'[i].gen = conv[i].gen /\ conv'[i].proto = conv[i].proto
             /\ conv'[i].handed = conv[i].handed /\ conv'[i].headers = conv[i].headers
  <2> DEFINE e == [conv[i] EXCEPT !.st = "free", !.tcb = "none"]
  <2>1. /\ e \in ConvRec /\ ConvOK(e) /\ e.st = "free" /\ e.tcb = "none"
        /\ e.gen = conv[i].gen /\ e.proto = conv[i].proto /\ e.handed = conv[i].handed /\ e.headers = conv[i].headers
    BY <1>1, <1>3
  <2>2. conv'[i] = IF i \in S THEN e ELSE conv[i]
    BY <1>2
  <2> HIDE DEF e
  <2>. QED
    BY <1>3, <2>1, <2>2
<1>5. conv' \in [Conv -> ConvRec]
  <2>1. DOMAIN conv' = Conv /\ conv' = [i \in Conv |-> conv'[i]]
    BY DEF Freed
  <2>. QED
    BY <1>4, <2>1
<1>. QED
  BY <1>4, <1>5

\* Process x gives up names, and becomes y.
Leaves(x, y, S) ==
  /\ x.live /\ y.live /\ y.pc = Idle /\ CallOK(y)
  /\ \A f \in Fd : y.fd[f].kind = "net" => x.fd[f].kind = "net" /\ y.fd[f] = x.fd[f]
  /\ \A f \in Fd : x.fd[f].kind = "net" /\ Valid(x.fd[f]) /\ Current(x.fd[f]) => y.fd[f] = x.fd[f] \/ x.fd[f].conv \in S
  /\ x.pc.fn = "hangup" /\ Valid(x.pc) /\ Current(x.pc) => x.pc.conv \in S
  /\ strayed' \/ (y.ret.fn = "dns" => y.ret = x.ret \/ y.ret.got \in {"none", y.ret.asked})

\* The conversations in S are freed; the processes in P act, the others may have
\* waited for something.
Hangs(S, P) ==
  /\ CountersOK /\ eph' = eph /\ queries' = queries /\ conv' = Freed(S)
  /\ proc' \in [Proc -> ProcRec] /\ \A r \in Proc : IF r \in P THEN Leaves(proc[r], proc'[r], S) ELSE proc'[r] = DropPends(S)[r]
  /\ strayed' \/ (/\ \A l \in Conv : conv[l].tcb = "listen" /\ l \notin S => \A k \in DOMAIN conv[l].aq : conv[l].aq[k] \notin S
                  /\ \A r \in Proc : proc[r].pc.fn = "dns" /\ r \notin P => proc[r].pc.conv \notin S)

\* What is left of the names of r.
LEMMA HangNames ==
  ASSUME SocketInv, NEW S, NEW P, Hangs(S, P), NEW r \in Proc
  PROVE  /\ proc'[r].live = proc[r].live /\ (~proc[r].live => proc'[r] = proc[r])
         /\ \A f \in Fd : proc'[r].fd[f].kind = "net" => proc[r].fd[f].kind = "net" /\ proc'[r].fd[f] = proc[r].fd[f]
         /\ \A f \in Fd : proc[r].fd[f].kind = "net" /\ Valid(proc[r].fd[f]) /\ Current(proc[r].fd[f]) =>
              proc'[r].fd[f] = proc[r].fd[f] \/ proc[r].fd[f].conv \in S
         /\ proc'[r].pc.fn = "hangup" => proc'[r].pc = proc[r].pc
         /\ proc[r].pc.fn = "hangup" /\ Valid(proc[r].pc) /\ Current(proc[r].pc) => proc'[r].pc = proc[r].pc \/ proc[r].pc.conv \in S
         /\ proc'[r].pc.fn # "none" =>
              \/ \E f \in Fd : /\ proc[r].fd[f].kind = "net" /\ proc'[r].pc.conv = proc[r].fd[f].conv
                               /\ proc'[r].pc.gen = proc[r].fd[f].gen /\ proc'[r].pc.tcp = proc[r].fd[f].tcp
              \/ proc[r].pc.fn # "none" /\ proc'[r].pc.conv = proc[r].pc.conv /\ proc'[r].pc.gen = proc[r].pc.gen /\ proc'[r].pc.tcp = proc[r].pc.tcp
         /\ CallOK(proc'[r]) /\ HasFd(proc'[r])
         /\ strayed' \/ (/\ proc'[r].ret.fn = "dns" => proc'[r].ret = proc[r].ret \/ proc'[r].ret.got \in {"none", proc'[r].ret.asked}
                         /\ proc'[r].pc.fn = "dns" => r \notin P /\ SameLookup(proc[r], proc'[r]))
<1> DEFINE x == proc[r]
           y == proc'[r]
<1>1. CASE r \in P
  <2>1. Leaves(x, y, S)
    BY <1>1 DEF Hangs
  <2>2. y.pc.fn = "none"
    BY <2>1, IdleResult DEF Leaves
  <2>3. HasFd(y)
    BY <2>2 DEF HasFd
  <2>. QED
    BY <2>1, <2>2, <2>3 DEF Leaves
<1>2. CASE r \notin P
  <2>1. y = DropPends(S)[r] /\ (strayed => strayed')
    BY <1>2 DEF Hangs, CountersOK
  <2>2. QuietProc(x, y) /\ y.fd = x.fd
    BY <2>1, DroppedQuiet
  <2>3. /\ y.live = x.live /\ (~x.live => y = x) /\ (y.pc.fn = "hangup") = (x.pc.fn = "hangup") /\ (x.pc.fn = "hangup" => y.pc = x.pc)
        /\ y.pc.fn # "none" =>
             \/ \E f \in Fd : x.fd[f].kind = "net" /\ SameUse(y.pc, x.fd[f]) /\ y.pc.tcp = x.fd[f].tcp
             \/ x.pc.fn # "none" /\ SameUse(y.pc, x.pc) /\ y.pc.tcp = x.pc.tcp
    BY <2>2 DEF QuietProc, Onward
  <2>4. CallOK(y) /\ HasFd(y) /\ (strayed' \/ SameLookup(x, y))
    BY <2>2 DEF QuietProc
  <2>5. strayed' \/ (y.ret.fn = "dns" => y.ret = x.ret \/ y.ret.got \in {"none", y.ret.asked})
    BY <2>4 DEF SameLookup
  <2>6. y.pc.fn # "none" =>
              \/ \E f \in Fd : x.fd[f].kind = "net" /\ y.pc.conv = x.fd[f].conv /\ y.pc.gen = x.fd[f].gen /\ y.pc.tcp = x.fd[f].tcp
              \/ x.pc.fn # "none" /\ y.pc.conv = x.pc.conv /\ y.pc.gen = x.pc.gen /\ y.pc.tcp = x.pc.tcp
    BY <2>3 DEF SameUse
  <2> HIDE DEF x, y
  <2>. QED
    BY <1>2, <2>2, <2>3, <2>4, <2>5, <2>6 DEF x, y
<1>. QED
  BY <1>1, <1>2
LEMMA HangKept ==
  ASSUME SocketInv, NEW S \in SUBSET Conv, NEW P, Hangs(S, P)
  PROVE  Named' /\ Kept' /\ NotThere'
<1>1. /\ \A i \in Conv : i \notin S => conv'[i] = conv[i]
      /\ \A i \in Conv : /\ conv'[i].gen = conv[i].gen /\ conv'[i].proto = conv[i].proto /\ conv'[i].handed = conv[i].handed
                         /\ conv'[i].st # "free" => i \notin S
  BY FreedOf DEF Hangs
<1>2. ASSUME NEW x, NEW y, NameOK(x), y.conv = x.conv, y.gen = x.gen, y.tcp = x.tcp, x.conv \in Conv
      PROVE  NameOK(y)'
  BY <1>1, <1>2 DEF NameOK, Current
<1>3. ASSUME NEW r \in Proc, NEW f \in Fd, proc[r].fd[f].kind = "net"
      PROVE  NameOK(proc[r].fd[f]) /\ proc[r].fd[f].conv \in Conv
  BY <1>3, StillHere, CallOf DEF SocketInv, Named, IsSocket, NetFd
<1>4. ASSUME NEW r \in Proc, proc[r].pc.fn # "none"
      PROVE  NameOK(proc[r].pc) /\ proc[r].pc.conv \in Conv
  BY <1>4, StillHere, CallOf DEF SocketInv, Named
<1>5. Named'
  <2>1. ASSUME NEW r \in Proc, NEW f \in Fd, proc'[r].fd[f].kind = "net"
        PROVE  NameOK(proc[r].fd[f])'
    <3>1. proc[r].fd[f].kind = "net" /\ proc'[r].fd[f] = proc[r].fd[f]
      BY <2>1, HangNames
    <3>2. NameOK(proc[r].fd[f]) /\ proc[r].fd[f].conv \in Conv
      BY <1>3, <3>1
    <3>. QED
      BY <1>2, <3>1, <3>2
  <2>2. ASSUME NEW r \in Proc, proc'[r].pc.fn # "none"
        PROVE  NameOK(proc[r].pc)'
    <3>1. \/ \E f \in Fd : /\ proc[r].fd[f].kind = "net" /\ proc'[r].pc.conv = proc[r].fd[f].conv
                           /\ proc'[r].pc.gen = proc[r].fd[f].gen /\ proc'[r].pc.tcp = proc[r].fd[f].tcp
          \/ proc[r].pc.fn # "none" /\ proc'[r].pc.conv = proc[r].pc.conv /\ proc'[r].pc.gen = proc[r].pc.gen /\ proc'[r].pc.tcp = proc[r].pc.tcp
      BY <2>2, HangNames
    <3>2. CASE \E f \in Fd : /\ proc[r].fd[f].kind = "net" /\ proc'[r].pc.conv = proc[r].fd[f].conv
                             /\ proc'[r].pc.gen = proc[r].fd[f].gen /\ proc'[r].pc.tcp = proc[r].fd[f].tcp
      <4>1. PICK f \in Fd : /\ proc[r].fd[f].kind = "net" /\ proc'[r].pc.conv = proc[r].fd[f].conv
                            /\ proc'[r].pc.gen = proc[r].fd[f].gen /\ proc'[r].pc.tcp = proc[r].fd[f].tcp
        BY <3>2
      <4>2. NameOK(proc[r].fd[f]) /\ proc[r].fd[f].conv \in Conv
        BY <1>3, <4>1
      <4>. QED
        BY <1>2, <4>1, <4>2
    <3>3. CASE proc[r].pc.fn # "none" /\ proc'[r].pc.conv = proc[r].pc.conv /\ proc'[r].pc.gen = proc[r].pc.gen /\ proc'[r].pc.tcp = proc[r].pc.tcp
      <4>1. NameOK(proc[r].pc) /\ proc[r].pc.conv \in Conv
        BY <1>4, <3>3
      <4>. QED
        BY <1>2, <3>3, <4>1
    <3>. QED
      BY <3>1, <3>2, <3>3
  <2>. QED
    BY <2>1, <2>2 DEF Named, IsSocket
<1>6. ASSUME NEW i \in Conv, conv'[i].st # "free", conv'[i].handed, proc'[conv'[i].owner].live
      PROVE  Keeps(conv[i].owner, i)'
  <2> DEFINE o == conv[i].owner
  <2>1. i \notin S /\ conv'[i] = conv[i] /\ o \in Proc
    <3>1. i \notin S /\ conv'[i] = conv[i]
      BY <1>1, <1>6
    <3>. QED
      BY <1>6, <3>1, StillHere DEF ConvOK
  <2>2. proc[o].live
    BY <1>6, <2>1, HangNames
  <2>3. Keeps(o, i)
    BY <1>6, <2>1, <2>2 DEF SocketInv, Kept
  <2>4. \/ \E f \in Fd : proc[o].fd[f].kind = "net" /\ proc[o].fd[f].conv = i /\ Current(proc[o].fd[f])
        \/ proc[o].pc.fn = "hangup" /\ proc[o].pc.conv = i /\ Current(proc[o].pc)
    BY <2>3, Zenon DEF Keeps, IsSocket
  <2>5. ASSUME NEW x, NameOK(x), x.conv = i, Current(x), x.tcp \in BOOLEAN
        PROVE  Valid(x) /\ x.gen = conv'[i].gen
    BY SMTT(30), <1>6, <2>1, <2>5 DEF NameOK, Valid, Current
  <2> HIDE DEF o
  <2>6. CASE \E f \in Fd : proc[o].fd[f].kind = "net" /\ proc[o].fd[f].conv = i /\ Current(proc[o].fd[f])
    <3>1. PICK f \in Fd : proc[o].fd[f].kind = "net" /\ proc[o].fd[f].conv = i /\ Current(proc[o].fd[f])
      BY <2>6
    <3>2. NameOK(proc[o].fd[f]) /\ proc[o].fd[f].tcp \in BOOLEAN
      BY <1>3, <2>1, <3>1, StillHere, CallOf DEF NetFd
    <3>3. Valid(proc[o].fd[f]) /\ proc[o].fd[f].gen = conv'[i].gen
      BY <2>5, <3>1, <3>2
    <3>4. proc'[o].fd[f] = proc[o].fd[f]
      BY <2>1, <3>1, <3>3, HangNames
    <3>5. proc'[o].fd[f].kind = "net" /\ proc'[o].fd[f].conv = i /\ proc'[o].fd[f].gen = conv'[i].gen
      BY <3>1, <3>3, <3>4
    <3>. QED
      BY <2>1, <3>5 DEF Keeps, IsSocket, Current, o
  <2>7. CASE proc[o].pc.fn = "hangup" /\ proc[o].pc.conv = i /\ Current(proc[o].pc)
    <3>1. NameOK(proc[o].pc) /\ proc[o].pc.tcp \in BOOLEAN
      BY <1>4, <2>1, <2>7, StillHere, CallOf
    <3>2. Valid(proc[o].pc) /\ proc[o].pc.gen = conv'[i].gen
      BY <2>5, <2>7, <3>1
    <3>3. proc'[o].pc = proc[o].pc
      BY <2>1, <2>7, <3>2, HangNames
    <3>4. proc'[o].pc.fn = "hangup" /\ proc'[o].pc.conv = i /\ proc'[o].pc.gen = conv'[i].gen
      BY <2>7, <3>2, <3>3
    <3>. QED
      BY <2>1, <3>4 DEF Keeps, IsSocket, Current, o
  <2>. QED
    BY <2>4, <2>6, <2>7
<1>7. Kept'
  BY <1>6 DEF Kept
<1>8. NotThere'
  <2>1. ASSUME NEW r \in Proc, ~proc'[r].live
        PROVE  /\ proc'[r].pc = Idle /\ \A f \in Fd : proc'[r].fd[f] = Closed
               /\ proc'[r].ret.fn = "none" => \A i \in Conv : conv'[i].st # "free" => conv'[i].owner # r
    <3>1. ~proc[r].live /\ proc'[r] = proc[r]
      BY <2>1, HangNames
    <3>2. \A i \in Conv : conv'[i].st # "free" => conv'[i] = conv[i]
      BY <1>1
    <3>. QED
      BY <3>1, <3>2 DEF SocketInv, NotThere
  <2>. QED
    BY <2>1 DEF NotThere
<1>. QED
  BY <1>5, <1>7, <1>8

LEMMA HangStep ==
  ASSUME SocketInv, NEW S \in SUBSET Conv, NEW P, Hangs(S, P)
  PROVE  SocketInv'
<1>1. /\ conv' \in [Conv -> ConvRec] /\ \A i \in Conv : i \notin S => conv'[i] = conv[i]
      /\ \A i \in S : conv'[i].st = "free" /\ conv'[i].tcb = "none"
      /\ \A i \in Conv : ConvOK(conv'[i]) /\ conv'[i].gen = conv[i].gen /\ conv'[i].headers = conv[i].headers
  BY FreedOf DEF Hangs
<1>2. SocketType'
  <2>1. \A r \in Proc : CallOK(proc'[r]) /\ HasFd(proc'[r])
    BY HangNames
  <2>2. CountersOK /\ proc' \in [Proc -> ProcRec]
    BY DEF Hangs
  <2>. QED
    BY <1>1, <2>1, <2>2 DEF SocketType, CountersOK
<1>3. Named' /\ Kept' /\ NotThere'
  BY HangKept
<1>4. \A r \in Proc, f \in Fd : proc'[r].fd[f].kind = "net" => proc[r].fd[f].kind = "net" /\ proc'[r].fd[f] = proc[r].fd[f]
  BY HangNames
<1>5. ASSUME ~strayed'
      PROVE  Queued' /\ Single' /\ HeadersTrue' /\ Lookups'
  <2>1. /\ ~strayed /\ Queued /\ Single /\ HeadersTrue /\ Lookups /\ eph' = eph /\ queries' = queries
        /\ \A l \in Conv : conv[l].tcb = "listen" /\ l \notin S => \A k \in DOMAIN conv[l].aq : conv[l].aq[k] \notin S
        /\ \A r \in Proc : proc[r].pc.fn = "dns" /\ r \notin P => proc[r].pc.conv \notin S
    BY <1>5 DEF SocketInv, Hangs, CountersOK
  <2>2. Queued'
    <3>1. \A i \in Conv : i \notin S => Alike(conv[i], conv'[i]) /\ Lines(conv[i], conv'[i])
      BY <1>1, WithinSelf DEF Alike, Lines
    <3>2. \A l \in Conv : conv'[l].tcb = "listen" => l \notin S /\ \A k \in DOMAIN conv'[l].aq : conv'[l].aq[k] \notin S
      <4> SUFFICES ASSUME NEW l \in Conv, conv'[l].tcb = "listen"
                   PROVE  l \notin S /\ \A k \in DOMAIN conv'[l].aq : conv'[l].aq[k] \notin S
        OBVIOUS
      <4>1. l \notin S
        BY <1>1
      <4>2. conv'[l] = conv[l]
        BY <1>1, <4>1
      <4>. QED
        BY <2>1, <4>1, <4>2
    <3>3. \A i \in Conv : DOMAIN conv[i].aq = 1 .. Len(conv[i].aq) /\ \A k \in DOMAIN conv[i].aq : conv[i].aq[k] \in Conv
      BY AqOf DEF SocketInv
    <3>. QED
      BY <2>1, <3>1, <3>2, <3>3, QueuedOn
  <2>3. Single'
    <3>1. ASSUME NEW r \in Proc, NEW s \in Proc, NEW g \in Fd, NEW h \in Fd, <<r, g>> # <<s, h>>,
                 proc'[r].fd[g].kind = "net", proc'[s].fd[h].kind = "net", SameUse(proc'[r].fd[g], proc'[s].fd[h])
          PROVE  proc'[r].fd[g].copied
      <4>1. /\ proc[r].fd[g].kind = "net" /\ proc'[r].fd[g] = proc[r].fd[g]
            /\ proc[s].fd[h].kind = "net" /\ proc'[s].fd[h] = proc[s].fd[h]
        BY <1>4, <3>1
      <4>. QED
        BY <2>1, <3>1, <4>1 DEF Single, IsSocket
    <3>2. ASSUME NEW r \in Proc, NEW s \in Proc, NEW g \in Fd, proc'[s].pc.fn = "hangup", proc'[r].fd[g].kind = "net"
          PROVE  ~SameUse(proc'[r].fd[g], proc'[s].pc)
      <4>1. proc[r].fd[g].kind = "net" /\ proc'[r].fd[g] = proc[r].fd[g]
        BY <1>4, <3>2
      <4>2. proc'[s].pc = proc[s].pc
        BY <3>2, HangNames
      <4>. QED
        BY <2>1, <3>2, <4>1, <4>2 DEF Single, IsSocket
    <3>. QED
      BY <3>1, <3>2 DEF Single, IsSocket
  <2>4. HeadersTrue'
    <3> SUFFICES ASSUME NEW r \in Proc, NEW f \in Fd, proc'[r].fd[f].kind = "net", ~proc'[r].fd[f].copied,
                        proc'[r].fd[f].gen = conv'[proc'[r].fd[f].conv].gen
                 PROVE  proc'[r].fd[f].headers = conv'[proc'[r].fd[f].conv].headers
      BY DEF HeadersTrue, IsSocket, Current
    <3> DEFINE d == proc[r].fd[f]
    <3>1. d.kind = "net" /\ proc'[r].fd[f] = d
      BY <1>4
    <3>2. d.conv \in Conv
      BY <3>1, StillHere, CallOf DEF NetFd
    <3>3. conv'[d.conv].gen = conv[d.conv].gen /\ conv'[d.conv].headers = conv[d.conv].headers
      BY <1>1, <3>2
    <3>4. d.headers = conv[d.conv].headers
      BY SMTT(30), <2>1, <3>1, <3>3 DEF HeadersTrue, IsSocket, Current
    <3>. QED
      BY <3>1, <3>3, <3>4
  <2>5. ASSUME NEW r \in Proc, proc'[r].pc.fn = "dns"
        PROVE  Lookup(r)'
    <3> DEFINE x == proc[r].pc
               y == proc'[r].pc
               i == x.conv
    <3>1. r \notin P /\ SameLookup(proc[r], proc'[r])
      BY <1>5, <2>5, HangNames
    <3>2. x.fn = "dns" /\ y.conv = i /\ y.gen = x.gen /\ y.name = x.name /\ (y.step = "connect") = (x.step = "connect")
      BY <2>5, <3>1 DEF SameLookup, SameUse
    <3>3. Lookup(r) /\ i \in Conv
      BY <2>1, <3>2, LookupIsUdp
    <3>4. conv'[i] = conv[i]
      BY SMTT(30), <1>1, <2>1, <3>1, <3>2, <3>3
    <3>5. y.got \in {"none", y.name}
      BY <2>5, <3>1, <3>2, <3>3 DEF Lookup, SameLookup
    <3>6. Ephemeral' = Ephemeral
      BY <2>1 DEF Ephemeral
    <3>7. /\ y.gen = conv'[i].gen /\ conv'[i].st # "free" /\ conv'[i].owner = r
          /\ IF y.step = "connect" THEN conv'[i].lport = 0 ELSE conv'[i].lport \in Ephemeral'
      BY <3>2, <3>3, <3>4, <3>6 DEF Lookup, Current
    <3>8. \A m \in queries' : m.port = conv'[i].lport /\ m.who = r => m.name = y.name
      BY <2>1, <3>2, <3>3, <3>4 DEF Lookup
    <3>9. \A j \in 1 .. Len(conv'[i].q) : conv'[i].q[j].who = r => conv'[i].q[j].name = y.name
      BY <3>2, <3>3, <3>4 DEF Lookup
    <3>. QED
      BY <3>2, <3>5, <3>7, <3>8, <3>9 DEF Lookup, Current
  <2>6. \A r \in Proc : proc'[r].ret.fn = "dns" => proc'[r].ret.got \in {"none", proc'[r].ret.asked}
    <3> SUFFICES ASSUME NEW r \in Proc, proc'[r].ret.fn = "dns" PROVE proc'[r].ret.got \in {"none", proc'[r].ret.asked}
      OBVIOUS
    <3>1. proc'[r].ret = proc[r].ret \/ proc'[r].ret.got \in {"none", proc'[r].ret.asked}
      BY <1>5, HangNames
    <3>2. proc[r].ret.fn = "dns" => proc[r].ret.got \in {"none", proc[r].ret.asked}
      BY <2>1 DEF Lookups
    <3>. QED
      BY <3>1, <3>2
  <2>7. \A m \in queries' : m.port \in Ephemeral'
    BY <2>1 DEF Lookups, Ephemeral
  <2>. QED
    BY <2>2, <2>3, <2>4, <2>5, <2>6, <2>7 DEF Lookups
<1>. QED
  BY <1>2, <1>3, <1>5 DEF SocketInv
LEMMA HangupOK ==
  ASSUME SocketInv, CountersOK, eph' = eph, queries' = queries, NEW p \in Proc, NEW d, d.conv \in Conv, NameOK(d),
         NEW x \in ProcRec, Hangup(p, d, x), \A S : (Valid(d) => d.conv \in S) => Leaves(proc[p], x, S),
         strayed' \/ (Valid(d) => Current(d) /\ \A r \in Proc : proc[r].pc.fn = "dns" /\ r # p => proc[r].pc.conv # d.conv)
  PROVE  SocketInv'
<1> DEFINE S == IF Valid(d) THEN {d.conv} ELSE {}
<1>1. conv' = Freed(S) /\ proc' = [DropPends(S) EXCEPT ![p] = x]
  BY DEF Hangup
<1>2. S \in SUBSET Conv /\ (Valid(d) => d.conv \in S) /\ \A i \in S : Valid(d) /\ i = d.conv
  OBVIOUS
<1> HIDE DEF S
<1>3. \A r \in Proc : DropPends(S)[r] \in ProcRec
  BY DroppedQuiet DEF QuietProc, CountersOK
<1>4. proc'[p] = x /\ (\A r \in Proc : r # p => proc'[r] = DropPends(S)[r]) /\ proc' \in [Proc -> ProcRec]
  <2>1. DropPends(S) \in [Proc -> ProcRec]
    <3>1. DropPends(S) = [r \in Proc |-> DropPends(S)[r]]
      BY DEF DropPends
    <3>. QED
      BY <1>3, <3>1
  <2>. QED
    BY <1>1, <2>1
<1>5. \A r \in Proc : IF r \in {p} THEN Leaves(proc[r], proc'[r], S) ELSE proc'[r] = DropPends(S)[r]
  BY <1>2, <1>4
<1>6. ASSUME ~strayed'
      PROVE  /\ \A l \in Conv : conv[l].tcb = "listen" /\ l \notin S => \A k \in DOMAIN conv[l].aq : conv[l].aq[k] \notin S
             /\ \A r \in Proc : proc[r].pc.fn = "dns" /\ r \notin {p} => proc[r].pc.conv \notin S
  <2>1. Queued /\ (Valid(d) => Current(d) /\ \A r \in Proc : proc[r].pc.fn = "dns" /\ r # p => proc[r].pc.conv # d.conv)
    BY <1>6 DEF CountersOK, SocketInv
  <2>2. ASSUME NEW l \in Conv, conv[l].tcb = "listen", NEW k \in DOMAIN conv[l].aq, conv[l].aq[k] \in S
        PROVE  FALSE
    <3>1. Valid(d) /\ conv[l].aq[k] = d.conv
      BY <1>2, <2>2
    <3>2. conv[d.conv].handed
      BY <2>1, <3>1 DEF NameOK
    <3>3. ~conv[conv[l].aq[k]].handed
      BY <2>1, <2>2, QueueEntry
    <3>. QED
      BY <3>1, <3>2, <3>3
  <2>3. \A r \in Proc : proc[r].pc.fn = "dns" /\ r \notin {p} => proc[r].pc.conv \notin S
    BY <1>2, <2>1
  <2>. QED
    BY <2>2, <2>3
<1>7. Hangs(S, {p})
  BY <1>1, <1>4, <1>5, <1>6 DEF Hangs
<1>. QED
  BY <1>2, <1>7, HangStep

\* A descriptor is closed.
LEMMA ClosedFd ==
  ASSUME NEW x \in ProcRec, NEW f \in Fd, NEW z \in ProcRec, z.fd = x.fd
  PROVE  LET y == [z EXCEPT !.fd[f] = Closed] IN
         /\ y \in ProcRec /\ y.live = z.live /\ y.pc = z.pc /\ y.ret = z.ret
         /\ \A g \in Fd : y.fd[g] = IF g = f THEN Closed ELSE x.fd[g]
<1> DEFINE fd == [x.fd EXCEPT ![f] = Closed]
           y == [z EXCEPT !.fd[f] = Closed]
<1>1. x.fd \in Slots
  BY DEF ProcRec
<1>2. fd \in Slots /\ \A g \in Fd : fd[g] = IF g = f THEN Closed ELSE x.fd[g]
  BY <1>1 DEF Slots
<1>3. y = [z EXCEPT !.fd = fd]
  BY DEF ProcRec
<1> HIDE DEF fd, y
<1>4. y \in ProcRec /\ y.live = z.live /\ y.pc = z.pc /\ y.ret = z.ret /\ y.fd = fd
  BY <1>2, <1>3 DEF ProcRec
<1>. QED
  BY <1>2, <1>4 DEF y

LEMMA CloseOK ==
  ASSUME SocketInv, NEW p \in Proc, NEW f \in Fd, IsSocket(p, f), Close(p, f), Reaches(proc[p].fd[f])
  PROVE  SocketInv'
<1> DEFINE x == proc[p]
           d == x.fd[f]
           z == [x EXCEPT !.ret = Idle]
           y == [z EXCEPT !.fd[f] = Closed]
<1>1. Calls(p) /\ Hangup(p, d, y) /\ UNCHANGED <<eph, queries>>
  BY DEF Close, CloseFd
<1>2. x \in ProcRec /\ x.live /\ x.pc = Idle /\ x.pc.fn = "none" /\ d \in NetFd /\ d.conv \in Conv /\ NameOK(d)
  BY <1>1, Caller
<1>3. CountersOK /\ (~strayed' => ~strayed /\ (Valid(d) => Current(d)))
  <2>1. strayed \in BOOLEAN
    BY DEF SocketInv, SocketType
  <2>. QED
    BY <1>1, <2>1, CallCounts, Reached
<1>4. z \in ProcRec /\ z.fd = x.fd /\ z.live /\ z.pc = Idle /\ z.ret = Idle
  BY <1>2, IdleResult DEF ProcRec
<1> HIDE DEF z
<1>5. y \in ProcRec /\ y.live /\ y.pc = Idle /\ y.ret = Idle /\ \A g \in Fd : y.fd[g] = IF g = f THEN Closed ELSE x.fd[g]
  BY <1>2, <1>4, ClosedFd
<1> HIDE DEF y
<1>6. CallOK(y)
  BY <1>5, IdleResult DEF CallOK
<1>7. ASSUME NEW S, Valid(d) => d.conv \in S
      PROVE  Leaves(x, y, S)
  <2>1. Closed.kind # "net"
    BY DEF Closed
  <2>2. \A g \in Fd : y.fd[g].kind = "net" => x.fd[g].kind = "net" /\ y.fd[g] = x.fd[g]
    BY <1>5, <2>1
  <2>3. \A g \in Fd : x.fd[g].kind = "net" /\ Valid(x.fd[g]) /\ Current(x.fd[g]) => y.fd[g] = x.fd[g] \/ x.fd[g].conv \in S
    BY <1>5, <1>7
  <2>4. y.ret.fn # "dns" /\ x.pc.fn # "hangup"
    BY <1>2, <1>5, IdleResult
  <2>. QED
    BY <1>2, <1>5, <1>6, <2>2, <2>3, <2>4 DEF Leaves
<1>8. ASSUME ~strayed', Valid(d)
      PROVE  Current(d) /\ \A r \in Proc : proc[r].pc.fn = "dns" /\ r # p => proc[r].pc.conv # d.conv
  BY <1>3, <1>8, Alone
<1>. QED
  BY <1>1, <1>2, <1>3, <1>5, <1>7, <1>8, HangupOK

LEMMA NoDescriptorOK ==
  ASSUME SocketInv, NEW p \in Proc, NoDescriptor(p), Reaches(proc[p].pc)
  PROVE  SocketInv'
<1> DEFINE x == proc[p]
           d == x.pc
           r == [fn |-> "fd", k |-> "EMFILE"]
           y == Returns(x, r)
<1>1. x.live /\ d.fn = "hangup" /\ Hangup(p, d, y) /\ UNCHANGED <<eph, queries, ops>>
  BY DEF NoDescriptor
<1>2. x \in ProcRec /\ d.conv \in Conv /\ NameOK(d)
  BY <1>1, InACall
<1>3. CountersOK /\ (~strayed' => ~strayed /\ (Valid(d) => Current(d)))
  <2>1. strayed \in BOOLEAN
    BY DEF SocketInv, SocketType
  <2>. QED
    BY <1>1, <2>1, CallCounts, Reached
<1>4. r \in Result /\ r.fn = "fd"
  BY DEF Result, Code
<1> HIDE DEF r
<1>5. y \in ProcRec /\ y.live /\ y.pc = Idle /\ y.pc.fn = "none" /\ y.ret = r /\ y.fd = x.fd
  BY <1>1, <1>2, <1>4, IdleResult DEF Returns, ProcRec
<1> HIDE DEF y
<1>6. CallOK(y)
  BY <1>4, <1>5 DEF CallOK
<1>7. ASSUME NEW S, Valid(d) => d.conv \in S
      PROVE  Leaves(x, y, S)
  BY <1>1, <1>4, <1>5, <1>6, <1>7 DEF Leaves
<1>8. ASSUME ~strayed', Valid(d), NEW s \in Proc, proc[s].pc.fn = "dns", s # p
      PROVE  proc[s].pc.conv # d.conv
  <2>1. ~strayed /\ Current(d)
    BY <1>3, <1>8
  <2>2. Lookup(s) /\ proc[s].pc \in InDns /\ HasFd(proc[s])
    BY <1>8, <2>1, LookupIsUdp, StillHere
  <2> DEFINE g == proc[s].pc.f
  <2>3. g \in Fd /\ IsSocket(s, g) /\ proc[s].fd[g].conv = proc[s].pc.conv /\ proc[s].fd[g].gen = proc[s].pc.gen
    BY <1>8, <2>2 DEF InDns, HasFd, IsSocket, SameUse
  <2>4. ~SameUse(proc[s].fd[g], d)
    BY <1>1, <2>1, <2>3 DEF SocketInv, Single
  <2>5. proc[s].pc.gen = conv[proc[s].pc.conv].gen
    BY <2>2 DEF Lookup, Current
  <2> HIDE DEF g
  <2>. QED
    BY <2>1, <2>3, <2>4, <2>5 DEF SameUse, Current
<1>. QED
  BY <1>1, <1>2, <1>3, <1>5, <1>7, <1>8, HangupOK

LEMMA DnsCloseOK ==
  ASSUME SocketInv, NEW p \in Proc, DnsClose(p), Reaches(proc[p].pc)
  PROVE  SocketInv'
<1> DEFINE x == proc[p]
           c == x.pc
           f == c.f
           d == x.fd[f]
           r == [fn |-> "dns", asked |-> c.name, got |-> c.got]
           z == Returns(x, r)
           y == [z EXCEPT !.fd[f] = Closed]
<1>1. x.live /\ c.fn = "dns" /\ Hangup(p, d, y) /\ UNCHANGED <<eph, queries, ops>>
  BY DEF DnsClose, CloseFd
<1>2. x \in ProcRec /\ c \in InDns /\ f \in Fd /\ HasFd(x)
  <2>1. x \in ProcRec /\ HasFd(x)
    BY StillHere
  <2>2. c \in InDns
    BY <1>1, <2>1, CallOf
  <2>. QED
    BY <2>1, <2>2 DEF InDns
<1>3. d.kind = "net" /\ d.conv = c.conv /\ d.gen = c.gen
  BY <1>1, <1>2 DEF HasFd, SameUse
<1>4. d.conv \in Conv /\ NameOK(d)
  BY <1>2, <1>3, CallOf DEF SocketInv, Named, IsSocket, NetFd
<1>5. CountersOK /\ (strayed => strayed')
  BY <1>1, CallCounts
<1>6. r \in Result /\ r.fn = "dns" /\ r.got = c.got /\ r.asked = c.name
  BY <1>2 DEF Result, InDns
<1> HIDE DEF r
<1>7. z \in ProcRec /\ z.live /\ z.pc = Idle /\ z.pc.fn = "none" /\ z.ret = r /\ z.fd = x.fd
  BY <1>1, <1>2, <1>6, IdleResult DEF Returns, ProcRec
<1> HIDE DEF z, f
<1>8. y \in ProcRec /\ y.live /\ y.pc = Idle /\ y.pc.fn = "none" /\ y.ret = r /\ \A g \in Fd : y.fd[g] = IF g = f THEN Closed ELSE x.fd[g]
  BY <1>2, <1>7, ClosedFd
<1> HIDE DEF y
<1>9. CallOK(y)
  BY <1>6, <1>8 DEF CallOK
<1>10. ~strayed => Lookup(p)
  BY <1>1, LookupIsUdp
<1>11. ASSUME NEW S, Valid(d) => d.conv \in S
       PROVE  Leaves(x, y, S)
  <2>1. Closed.kind # "net"
    BY DEF Closed
  <2>2. \A g \in Fd : y.fd[g].kind = "net" => x.fd[g].kind = "net" /\ y.fd[g] = x.fd[g]
    BY <1>8, <2>1
  <2>3. \A g \in Fd : x.fd[g].kind = "net" /\ Valid(x.fd[g]) /\ Current(x.fd[g]) => y.fd[g] = x.fd[g] \/ x.fd[g].conv \in S
    BY <1>8, <1>11
  <2>4. strayed' \/ y.ret.got \in {"none", y.ret.asked}
    <3>1. ~strayed => c.got \in {"none", c.name}
      BY <1>10 DEF Lookup
    <3>. QED
      BY <1>5, <1>6, <1>8, <3>1
  <2>5. x.pc.fn # "hangup"
    BY <1>1
  <2>. QED
    BY <1>1, <1>8, <1>9, <2>2, <2>3, <2>4, <2>5 DEF Leaves
<1>12. ASSUME ~strayed', Valid(d)
       PROVE  Current(d) /\ \A s \in Proc : proc[s].pc.fn = "dns" /\ s # p => proc[s].pc.conv # d.conv
  <2>1. ~strayed /\ IsSocket(p, f)
    BY <1>3, <1>5, <1>12 DEF IsSocket
  <2>2. Current(d)
    BY <1>3, <1>10, <2>1 DEF Lookup, Current
  <2>. QED
    BY <1>2, <2>1, <2>2, Alone
<1>. QED
  BY <1>1, <1>4, <1>5, <1>8, <1>11, <1>12, HangupOK

LEMMA ReapOK ==
  ASSUME SocketInv, Reap, strayed' = strayed
  PROVE  SocketInv'
<1> DEFINE S == {i \in Conv : conv[i].st # "free" /\ ~proc[conv[i].owner].live}
<1>1. S \in SUBSET Conv /\ conv' = Freed(S) /\ proc' = DropPends(S) /\ UNCHANGED <<eph, queries, ops>>
  BY DEF Reap
<1>2. CountersOK
  BY <1>1 DEF CountersOK, SocketInv, SocketType
<1>3. \A i \in Conv : i \in S <=> conv[i].st # "free" /\ ~proc[conv[i].owner].live
  OBVIOUS
<1> HIDE DEF S
<1>4. proc' \in [Proc -> ProcRec]
  <2>1. \A r \in Proc : DropPends(S)[r] \in ProcRec
    BY DroppedQuiet DEF QuietProc
  <2>2. DropPends(S) = [r \in Proc |-> DropPends(S)[r]]
    BY DEF DropPends
  <2>. QED
    BY <1>1, <2>1, <2>2
<1>5. ASSUME ~strayed'
      PROVE  /\ \A l \in Conv : conv[l].tcb = "listen" /\ l \notin S => \A k \in DOMAIN conv[l].aq : conv[l].aq[k] \notin S
             /\ \A r \in Proc : proc[r].pc.fn = "dns" => proc[r].pc.conv \notin S
  <2>1. ~strayed /\ Queued
    BY <1>5 DEF SocketInv
  <2>2. ASSUME NEW l \in Conv, conv[l].tcb = "listen", l \notin S, NEW k \in DOMAIN conv[l].aq, conv[l].aq[k] \in S
        PROVE  FALSE
    <3>1. conv[conv[l].aq[k]].owner = conv[l].owner
      BY <2>1, <2>2, QueueEntry
    <3>2. conv[l].st # "free"
      BY <2>2, StillHere, TcpConv
    <3>3. conv[l].aq[k] \in Conv
      BY <1>1, <2>2
    <3>. QED
      BY <1>3, <2>2, <3>1, <3>2, <3>3
  <2>3. ASSUME NEW r \in Proc, proc[r].pc.fn = "dns", proc[r].pc.conv \in S
        PROVE  FALSE
    <3>1. proc[r].live /\ proc[r].pc.conv \in Conv /\ conv[proc[r].pc.conv].owner = r
      BY <2>1, <2>3, LookupIsUdp DEF Lookup
    <3>. QED
      BY <1>3, <2>3, <3>1
  <2>. QED
    BY <2>2, <2>3
<1>6. Hangs(S, {})
  BY <1>1, <1>2, <1>4, <1>5 DEF Hangs
<1>. QED
  BY <1>1, <1>6, HangStep
-----------------------------------------------------------------------------
(* dup, fork, exit.                                                          *)

\* A descriptor is where it was, or a copy of one that is marked.
Shared(r, f) ==
  \/ proc'[r].fd[f] = proc[r].fd[f]
  \/ /\ proc'[r].fd[f].copied
     /\ \E s \in Proc, g \in Fd : /\ proc[s].fd[g].kind = "net" /\ SameUse(proc'[r].fd[f], proc[s].fd[g]) /\ proc'[r].fd[f].tcp = proc[s].fd[g].tcp
                                  /\ proc'[s].fd[g].kind = "net" => proc'[s].fd[g].copied
Shares ==
  /\ conv' = conv /\ eph' = eph /\ queries' = queries /\ strayed' = strayed /\ ops' \in 0 .. MaxOps
  /\ proc' \in [Proc -> ProcRec]
  /\ \A r \in Proc :
       /\ proc'[r] = proc[r] \/ (proc'[r].pc = Idle /\ proc'[r].ret.fn \in {"none", "exit"} /\ proc[r].pc = Idle)
       /\ \A f \in Fd : proc'[r].fd[f].kind = "net" => Shared(r, f)
       /\ proc'[r].live => \/ proc[r].live /\ \A f \in Fd : proc[r].fd[f].kind = "net" =>
                                proc'[r].fd[f].kind = "net" /\ SameUse(proc'[r].fd[f], proc[r].fd[f])
                           \/ ~proc[r].live /\ proc[r].ret.fn = "none"
       /\ ~proc'[r].live => proc'[r] = proc[r] \/ (proc'[r].ret.fn = "exit" /\ \A f \in Fd : proc'[r].fd[f] = Closed)

LEMMA ShareStep == ASSUME SocketInv, Shares PROVE SocketInv'
<1>1. conv' = conv /\ eph' = eph /\ queries' = queries /\ strayed' = strayed /\ ops' \in 0 .. MaxOps /\ proc' \in [Proc -> ProcRec]
  BY DEF Shares
<1>2. ASSUME NEW r \in Proc
      PROVE  proc'[r] = proc[r] \/ (proc'[r].pc.fn = "none" /\ proc'[r].pc = Idle /\ proc'[r].ret.fn \in {"none", "exit"} /\ proc[r].pc.fn = "none")
  BY IdleResult DEF Shares
<1>3. ASSUME NEW r \in Proc, NEW f \in Fd, proc'[r].fd[f].kind = "net"
      PROVE  \/ proc'[r].fd[f] = proc[r].fd[f]
             \/ /\ proc'[r].fd[f].copied
                /\ \E s \in Proc, g \in Fd :
                     /\ proc[s].fd[g].kind = "net" /\ SameUse(proc'[r].fd[f], proc[s].fd[g]) /\ proc'[r].fd[f].tcp = proc[s].fd[g].tcp
                     /\ proc'[s].fd[g].kind = "net" => proc'[s].fd[g].copied
  BY <1>3 DEF Shares, Shared
<1>4. ASSUME NEW r \in Proc, NEW f \in Fd, proc[r].fd[f].kind = "net"
      PROVE  NameOK(proc[r].fd[f])
  BY <1>4 DEF SocketInv, Named, IsSocket
<1>5. SocketType'
  <2>1. \A r \in Proc : CallOK(proc'[r]) /\ HasFd(proc'[r])
    <3> TAKE r \in Proc
    <3>1. CASE proc'[r] = proc[r]
      BY <3>1, StillHere
    <3>2. CASE proc'[r].pc.fn = "none" /\ proc'[r].ret.fn \in {"none", "exit"}
      BY <3>2 DEF CallOK, HasFd
    <3>. QED
      BY <1>2, <3>1, <3>2
  <2>2. SocketType
    BY DEF SocketInv
  <2>. QED
    BY <1>1, <2>1, <2>2 DEF SocketType
<1>6. NotThere'
  <2>1. ASSUME NEW r \in Proc, ~proc'[r].live
        PROVE  /\ proc'[r].pc = Idle /\ \A f \in Fd : proc'[r].fd[f] = Closed
               /\ proc'[r].ret.fn = "none" => \A i \in Conv : conv[i].st # "free" => conv[i].owner # r
    <3>1. CASE proc'[r] = proc[r]
      BY <2>1, <3>1 DEF SocketInv, NotThere
    <3>2. CASE proc'[r] # proc[r]
      BY <2>1, <3>2 DEF Shares
    <3>. QED
      BY <3>1, <3>2
  <2>. QED
    BY <1>1, <2>1 DEF NotThere
<1>7. Named'
  <2>1. ASSUME NEW r \in Proc, NEW f \in Fd, proc'[r].fd[f].kind = "net"
        PROVE  NameOK(proc[r].fd[f])'
    <3>1. CASE proc'[r].fd[f] = proc[r].fd[f]
      BY <1>1, <1>4, <2>1, <3>1 DEF NameOK, Current
    <3>2. CASE \E s \in Proc, g \in Fd : proc[s].fd[g].kind = "net" /\ SameUse(proc'[r].fd[f], proc[s].fd[g]) /\ proc'[r].fd[f].tcp = proc[s].fd[g].tcp
      <4>1. PICK s \in Proc, g \in Fd : proc[s].fd[g].kind = "net" /\ SameUse(proc'[r].fd[f], proc[s].fd[g]) /\ proc'[r].fd[f].tcp = proc[s].fd[g].tcp
        BY <3>2
      <4>2. NameOK(proc[s].fd[g])
        BY <1>4, <4>1
      <4>. QED
        BY <1>1, <4>1, <4>2 DEF NameOK, Current, SameUse
    <3>. QED
      BY <1>3, <2>1, <3>1, <3>2
  <2>2. ASSUME NEW r \in Proc, proc'[r].pc.fn # "none"
        PROVE  NameOK(proc[r].pc)'
    <3>1. proc'[r] = proc[r]
      BY <1>2, <2>2
    <3>2. NameOK(proc[r].pc)
      BY <2>2, <3>1 DEF SocketInv, Named
    <3>. QED
      BY <1>1, <3>1, <3>2 DEF NameOK, Current
  <2>. QED
    BY <2>1, <2>2 DEF Named, IsSocket
<1>8. ASSUME NEW i \in Conv, conv[i].st # "free", conv[i].handed, proc'[conv[i].owner].live
      PROVE  Keeps(conv[i].owner, i)'
  <2> DEFINE o == conv[i].owner
  <2>1. o \in Proc
    BY <1>8, StillHere DEF ConvOK
  <2>2. proc[o].live
    <3>1. ~proc[o].live => proc[o].ret.fn # "none"
      BY <1>8, <2>1 DEF SocketInv, NotThere
    <3> HIDE DEF o
    <3>. QED
      BY <1>8, <2>1, <3>1 DEF Shares, o
  <2>3. \A f \in Fd : proc[o].fd[f].kind = "net" => proc'[o].fd[f].kind = "net" /\ SameUse(proc'[o].fd[f], proc[o].fd[f])
    BY <1>8, <2>1, <2>2 DEF Shares
  <2>4. proc[o].pc.fn = "hangup" => proc'[o] = proc[o]
    BY <1>2, <2>1
  <2>5. Keeps(o, i)
    BY <1>8, <2>2 DEF SocketInv, Kept
  <2> HIDE DEF o
  <2>6. CASE \E f \in Fd : proc[o].fd[f].kind = "net" /\ proc[o].fd[f].conv = i /\ proc[o].fd[f].gen = conv[i].gen
    <3>1. PICK f \in Fd : proc[o].fd[f].kind = "net" /\ proc[o].fd[f].conv = i /\ proc[o].fd[f].gen = conv[i].gen
      BY <2>6
    <3>2. proc'[o].fd[f].kind = "net" /\ proc'[o].fd[f].conv = i /\ proc'[o].fd[f].gen = conv'[i].gen
      BY <1>1, <2>3, <3>1 DEF SameUse
    <3>. QED
      BY <1>1, <3>2, Zenon DEF Keeps, IsSocket, Current, o
  <2>7. CASE proc[o].pc.fn = "hangup" /\ proc[o].pc.conv = i /\ proc[o].pc.gen = conv[i].gen
    <3>1. proc'[o].pc.fn = "hangup" /\ proc'[o].pc.conv = i /\ proc'[o].pc.gen = conv'[i].gen
      BY <1>1, <2>4, <2>7
    <3>. QED
      BY <1>1, <3>1 DEF Keeps, IsSocket, Current, o
  <2>. QED
    BY <2>5, <2>6, <2>7, Zenon DEF Keeps, IsSocket, Current
<1>9. Kept'
  BY <1>1, <1>8 DEF Kept
<1>10. ASSUME ~strayed
       PROVE  Queued' /\ Single' /\ HeadersTrue' /\ Lookups'
  <2>1. Queued /\ Single /\ HeadersTrue /\ Lookups
    BY <1>10 DEF SocketInv
  <2>2. Queued'
    BY <1>1, <2>1 DEF Queued, Queues
  <2>3. ASSUME NEW r \in Proc, NEW s \in Proc, NEW f \in Fd, NEW g \in Fd, <<r, f>> # <<s, g>>,
               proc'[r].fd[f].kind = "net", proc'[s].fd[g].kind = "net", SameUse(proc'[r].fd[f], proc'[s].fd[g])
        PROVE  proc'[r].fd[f].copied
    <3>1. CASE proc'[r].fd[f] = proc[r].fd[f] /\ proc'[s].fd[g] = proc[s].fd[g]
      BY <2>1, <2>3, <3>1 DEF Single, IsSocket
    <3>2. CASE proc'[r].fd[f] = proc[r].fd[f] /\ proc'[s].fd[g] # proc[s].fd[g]
      <4>1. PICK u \in Proc, h \in Fd : /\ proc[u].fd[h].kind = "net" /\ SameUse(proc'[s].fd[g], proc[u].fd[h])
                                        /\ proc'[u].fd[h].kind = "net" => proc'[u].fd[h].copied
        BY <1>3, <2>3, <3>2
      <4>2. CASE u = r /\ h = f
        BY <2>3, <4>1, <4>2
      <4>3. CASE ~(u = r /\ h = f)
        <5>1. <<r, f>> # <<u, h>> /\ SameUse(proc[r].fd[f], proc[u].fd[h])
          BY <2>3, <3>2, <4>1, <4>3 DEF SameUse
        <5>. QED
          BY <2>1, <2>3, <3>2, <4>1, <5>1 DEF Single, IsSocket
      <4>. QED
        BY <4>2, <4>3
    <3>3. CASE proc'[r].fd[f] # proc[r].fd[f]
      BY <1>3, <2>3, <3>3
    <3>. QED
      BY <3>1, <3>2, <3>3
  <2>4. ASSUME NEW r \in Proc, NEW s \in Proc, NEW f \in Fd, proc'[s].pc.fn = "hangup", proc'[r].fd[f].kind = "net"
        PROVE  ~SameUse(proc'[r].fd[f], proc'[s].pc)
    <3>1. proc'[s] = proc[s]
      BY <1>2, <2>4
    <3>2. \E u \in Proc, h \in Fd : proc[u].fd[h].kind = "net" /\ SameUse(proc'[r].fd[f], proc[u].fd[h])
      BY <1>3, <2>4 DEF SameUse
    <3>. QED
      BY <2>1, <2>4, <3>1, <3>2 DEF Single, IsSocket, SameUse
  <2>5. Single'
    BY <2>3, <2>4 DEF Single, IsSocket
  <2>6. HeadersTrue'
    <3> SUFFICES ASSUME NEW r \in Proc, NEW f \in Fd, proc'[r].fd[f].kind = "net", ~proc'[r].fd[f].copied,
                        proc'[r].fd[f].gen = conv'[proc'[r].fd[f].conv].gen
                 PROVE  proc'[r].fd[f].headers = conv'[proc'[r].fd[f].conv].headers
      BY DEF HeadersTrue, IsSocket, Current
    <3>1. proc'[r].fd[f] = proc[r].fd[f]
      BY SMTT(30), <1>3
    <3>. QED
      BY <1>1, <2>1, <3>1 DEF HeadersTrue, IsSocket, Current
  <2>7. ASSUME NEW r \in Proc, proc'[r].pc.fn = "dns"
        PROVE  Lookup(r)'
    <3>1. proc'[r] = proc[r]
      BY <1>2, <2>7
    <3>2. Lookup(r)
      BY <2>1, <2>7, <3>1 DEF Lookups
    <3>. QED
      BY <1>1, <3>1, <3>2 DEF Lookup, Current, Ephemeral
  <2>8. Lookups'
    <3>1. \A r \in Proc : proc'[r].ret.fn = "dns" => proc'[r].ret.got \in {"none", proc'[r].ret.asked}
      BY <1>2, <2>1 DEF Lookups
    <3>. QED
      BY <1>1, <2>1, <2>7, <3>1 DEF Lookups, Ephemeral
  <2>. QED
    BY <2>2, <2>5, <2>6, <2>8
<1>. QED
  BY <1>1, <1>5, <1>6, <1>7, <1>9, <1>10 DEF SocketInv
\* The mark of a copy.
LEMMA CopyOf ==
  ASSUME NEW d \in NetFd
  PROVE  LET e == [d EXCEPT !.copied = TRUE] IN
         e \in NetFd /\ e.copied /\ e.kind = "net" /\ SameUse(e, d) /\ e.tcp = d.tcp
BY DEF NetFd, SameUse

LEMMA DupOK ==
  ASSUME SocketInv, NEW p \in Proc, NEW f \in Fd, Dup(p, f), strayed' = strayed
  PROVE  SocketInv'
<1> DEFINE x == proc[p]
           free == {h \in Fd : x.fd[h].kind = "free"}
           g == CHOOSE h \in free : \A k \in free : h <= k
           d == [x.fd[f] EXCEPT !.copied = TRUE]
           y == [x EXCEPT !.fd[f] = d, !.fd[g] = d, !.ret = Idle]
<1>1. Calls(p) /\ IsSocket(p, f) /\ free # {} /\ UNCHANGED <<conv, eph, queries>>
  BY DEF Dup
<1>2. Becomes(p, y)
  BY DEF Dup
<1>3. x \in ProcRec /\ x.live /\ x.pc = Idle /\ x.fd[f] \in NetFd /\ x.fd \in Slots /\ proc \in [Proc -> ProcRec]
  BY <1>1, Caller, CallOf DEF SocketInv, SocketType
<1>4. g \in Fd /\ x.fd[g].kind = "free" /\ g # f
  <2>1. free \subseteq Nat
    BY SocketConstants
  <2>2. \E h \in free : \A k \in free : h <= k
    BY <1>1, <2>1, LeastOf
  <2>3. g \in free
    BY <2>2
  <2>4. g \in Fd /\ x.fd[g].kind = "free"
    BY <2>3
  <2> HIDE DEF g
  <2>. QED
    BY <1>1, <2>4 DEF IsSocket
<1>5. d \in NetFd /\ d.copied /\ d.kind = "net" /\ SameUse(d, x.fd[f]) /\ d.tcp = x.fd[f].tcp
  BY <1>3, CopyOf
<1> HIDE DEF d, g, free
<1> DEFINE fd == [x.fd EXCEPT ![f] = d, ![g] = d]
<1>6. fd \in Slots /\ fd[f] = d /\ fd[g] = d /\ \A h \in Fd : h # f /\ h # g => fd[h] = x.fd[h]
  BY <1>3, <1>4, <1>5 DEF Slots
<1>7. y = [[x EXCEPT !.fd = fd] EXCEPT !.ret = Idle]
  BY <1>3 DEF ProcRec
<1> HIDE DEF fd, y
<1>8. y \in ProcRec /\ y.live /\ y.pc = Idle /\ y.ret = Idle /\ y.fd = fd
  BY <1>3, <1>6, <1>7, IdleResult DEF ProcRec
<1>9. proc'[p] = y /\ (\A r \in Proc : r # p => proc'[r] = proc[r]) /\ proc' \in [Proc -> ProcRec]
  BY <1>2, <1>3, <1>8 DEF Becomes
<1>10. \A h \in Fd : y.fd[h] = x.fd[h] \/ y.fd[h] = d
  BY <1>6, <1>8
<1>11. ASSUME NEW r \in Proc, NEW h \in Fd, proc'[r].fd[h].kind = "net"
       PROVE  Shared(r, h)
  <2>1. CASE proc'[r].fd[h] = proc[r].fd[h]
    BY <2>1 DEF Shared
  <2>2. CASE proc'[r].fd[h] # proc[r].fd[h]
    <3>1. r = p /\ proc'[r].fd[h] = d
      BY <1>9, <1>10, <2>2
    <3>2. proc[p].fd[f].kind = "net" /\ proc'[p].fd[f].copied
      BY <1>1, <1>5, <1>6, <1>8, <1>9 DEF IsSocket
    <3>3. proc'[r].fd[h].copied /\ SameUse(proc'[r].fd[h], proc[p].fd[f]) /\ proc'[r].fd[h].tcp = proc[p].fd[f].tcp
      BY <1>5, <3>1
    <3>. QED
      BY <3>2, <3>3 DEF Shared
  <2>. QED
    BY <2>1, <2>2
<1>12. ASSUME NEW h \in Fd, x.fd[h].kind = "net"
       PROVE  y.fd[h].kind = "net" /\ SameUse(y.fd[h], x.fd[h])
  <2>1. CASE h = f
    BY <1>5, <1>6, <1>8, <2>1
  <2>2. CASE h # f
    <3>1. h # g
      BY <1>4, <1>12
    <3>. QED
      BY <1>6, <1>8, <1>12, <2>2, <3>1 DEF SameUse
  <2>. QED
    BY <2>1, <2>2
<1>13. \A r \in Proc :
       /\ proc'[r] = proc[r] \/ (proc'[r].pc = Idle /\ proc'[r].ret.fn \in {"none", "exit"} /\ proc[r].pc = Idle)
       /\ proc'[r].live => \/ proc[r].live /\ \A h \in Fd : proc[r].fd[h].kind = "net" =>
                                proc'[r].fd[h].kind = "net" /\ SameUse(proc'[r].fd[h], proc[r].fd[h])
                           \/ ~proc[r].live /\ proc[r].ret.fn = "none"
       /\ ~proc'[r].live => proc'[r] = proc[r]
  <2> TAKE r \in Proc
  <2>1. CASE r = p
    BY <1>3, <1>8, <1>9, <1>12, <2>1, IdleResult
  <2>2. CASE r # p
    BY <1>9, <2>2 DEF SameUse
  <2>. QED
    BY <2>1, <2>2
<1>14. ops' \in 0 .. MaxOps
  BY <1>1, CallCounts DEF CountersOK
<1>15. Shares
  BY <1>1, <1>9, <1>11, <1>13, <1>14 DEF Shares
<1>. QED
  BY <1>15, ShareStep

LEMMA ForkOK ==
  ASSUME SocketInv, NEW p \in Proc, NEW q \in Proc, Fork(p, q), strayed' = strayed
  PROVE  SocketInv'
<1> DEFINE x == proc[p]
           fd == [f \in Fd |-> IF IsSocket(p, f) THEN [x.fd[f] EXCEPT !.copied = TRUE] ELSE Closed]
           y == [x EXCEPT !.fd = fd, !.ret = Idle]
           z == [proc[q] EXCEPT !.live = TRUE, !.fd = fd]
<1>1. Calls(p) /\ ~proc[q].live /\ proc[q].ret.fn = "none" /\ UNCHANGED <<conv, eph, queries>>
  BY DEF Fork
<1>2. x \in ProcRec /\ x.live /\ x.pc = Idle /\ x.fd \in Slots /\ proc \in [Proc -> ProcRec] /\ proc[q] \in ProcRec /\ p # q
  BY <1>1, Caller, CallOf DEF SocketInv, SocketType
<1>3. ASSUME NEW f \in Fd
      PROVE  /\ fd[f] \in {Closed} \cup NetFd
             /\ fd[f].kind = "net" => x.fd[f].kind = "net" /\ fd[f].copied /\ SameUse(fd[f], x.fd[f]) /\ fd[f].tcp = x.fd[f].tcp
             /\ x.fd[f].kind = "net" => fd[f].kind = "net"
  <2>1. CASE IsSocket(p, f)
    <3>1. x.fd[f] \in NetFd /\ x.fd[f].kind = "net"
      BY <1>2, <2>1, CallOf DEF IsSocket
    <3>2. fd[f] = [x.fd[f] EXCEPT !.copied = TRUE]
      BY <2>1
    <3> HIDE DEF fd
    <3>. QED
      BY <3>1, <3>2, CopyOf
  <2>2. CASE ~IsSocket(p, f)
    <3>1. fd[f] = Closed /\ x.fd[f].kind # "net"
      BY <2>2 DEF IsSocket
    <3> HIDE DEF fd
    <3>. QED
      BY <3>1 DEF Closed
  <2>. QED
    BY <2>1, <2>2
<1>4. proc' = [proc EXCEPT ![p] = y, ![q] = z]
  <2>1. proc' = [proc EXCEPT ![p].fd = fd, ![p].ret = Idle, ![q] = [@ EXCEPT !.live = TRUE, !.fd = fd]]
    BY DEF Fork
  <2> HIDE DEF fd
  <2>. QED
    BY <1>2, <2>1 DEF ProcRec
<1>5. fd \in Slots
  <2>1. fd = [f \in Fd |-> fd[f]]
    OBVIOUS
  <2> HIDE DEF fd
  <2>. QED
    BY <1>3, <2>1 DEF Slots
<1> HIDE DEF fd
<1>6. y \in ProcRec /\ y.live /\ y.pc = Idle /\ y.ret = Idle /\ y.fd = fd
  BY <1>2, <1>5, IdleResult DEF ProcRec
<1>7. z \in ProcRec /\ z.live /\ z.pc = proc[q].pc /\ z.ret = proc[q].ret /\ z.fd = fd /\ proc[q].pc = Idle /\ \A f \in Fd : proc[q].fd[f] = Closed
  BY <1>1, <1>2, <1>5 DEF ProcRec, SocketInv, NotThere
<1> HIDE DEF y, z
<1>8. proc'[p] = y /\ proc'[q] = z /\ (\A r \in Proc : r # p /\ r # q => proc'[r] = proc[r]) /\ proc' \in [Proc -> ProcRec]
  BY <1>2, <1>4, <1>6, <1>7
<1>9. ASSUME NEW r \in Proc, NEW f \in Fd, proc'[r].fd[f].kind = "net"
      PROVE  Shared(r, f)
  <2>1. CASE r # p /\ r # q
    BY <1>8, <2>1 DEF Shared
  <2>2. CASE r = p \/ r = q
    <3>1. proc'[r].fd[f] = fd[f] /\ proc'[p].fd[f] = fd[f]
      BY <1>6, <1>7, <1>8, <2>2
    <3>2. proc[p].fd[f].kind = "net" /\ fd[f].copied /\ SameUse(fd[f], proc[p].fd[f]) /\ fd[f].tcp = proc[p].fd[f].tcp
      BY <1>3, <1>9, <3>1
    <3>. QED
      BY <3>1, <3>2 DEF Shared
  <2>. QED
    BY <2>1, <2>2
<1>10. \A r \in Proc :
       /\ proc'[r] = proc[r] \/ (proc'[r].pc = Idle /\ proc'[r].ret.fn \in {"none", "exit"} /\ proc[r].pc = Idle)
       /\ proc'[r].live => \/ proc[r].live /\ \A h \in Fd : proc[r].fd[h].kind = "net" =>
                                proc'[r].fd[h].kind = "net" /\ SameUse(proc'[r].fd[h], proc[r].fd[h])
                           \/ ~proc[r].live /\ proc[r].ret.fn = "none"
       /\ ~proc'[r].live => proc'[r] = proc[r]
  <2> TAKE r \in Proc
  <2>1. CASE r = p
    <3>1. \A h \in Fd : x.fd[h].kind = "net" => y.fd[h].kind = "net" /\ SameUse(y.fd[h], x.fd[h])
      BY <1>3, <1>6
    <3>. QED
      BY <1>2, <1>6, <1>8, <2>1, <3>1, IdleResult
  <2>2. CASE r = q
    BY <1>1, <1>7, <1>8, <2>2
  <2>3. CASE r # p /\ r # q
    BY <1>8, <2>3 DEF SameUse
  <2>. QED
    BY <2>1, <2>2, <2>3
<1>11. ops' \in 0 .. MaxOps
  BY <1>1, CallCounts DEF CountersOK
<1>12. Shares
  BY <1>1, <1>8, <1>9, <1>10, <1>11 DEF Shares
<1>. QED
  BY <1>12, ShareStep

LEMMA ExitOK ==
  ASSUME SocketInv, NEW p \in Proc, Exit(p), strayed' = strayed
  PROVE  SocketInv'
<1> DEFINE r0 == [fn |-> "exit"]
           fd == [f \in Fd |-> Closed]
           y == [live |-> FALSE, fd |-> fd, pc |-> Idle, ret |-> r0]
<1>1. Calls(p) /\ Becomes(p, y) /\ UNCHANGED <<conv, eph, queries>>
  BY DEF Exit
<1>2. proc[p].pc = Idle /\ proc \in [Proc -> ProcRec]
  BY <1>1, Caller DEF SocketInv, SocketType
<1>3. r0 \in Result /\ r0.fn = "exit" /\ fd \in Slots /\ (\A f \in Fd : fd[f] = Closed) /\ Closed.kind # "net"
  BY DEF Result, Slots, Closed
<1> HIDE DEF r0, fd
<1>4. y \in ProcRec /\ ~y.live /\ y.pc = Idle /\ y.ret.fn = "exit" /\ y.fd = fd
  BY <1>3 DEF ProcRec
<1> HIDE DEF y
<1>5. proc'[p] = y /\ (\A r \in Proc : r # p => proc'[r] = proc[r]) /\ proc' \in [Proc -> ProcRec]
  BY <1>1, <1>2, <1>4 DEF Becomes
<1>6. \A r \in Proc, f \in Fd : proc'[r].fd[f].kind = "net" => Shared(r, f)
  BY <1>3, <1>4, <1>5 DEF Shared
<1>7. \A r \in Proc :
       /\ proc'[r] = proc[r] \/ (proc'[r].pc = Idle /\ proc'[r].ret.fn \in {"none", "exit"} /\ proc[r].pc = Idle)
       /\ proc'[r].live => \/ proc[r].live /\ \A h \in Fd : proc[r].fd[h].kind = "net" =>
                                proc'[r].fd[h].kind = "net" /\ SameUse(proc'[r].fd[h], proc[r].fd[h])
                           \/ ~proc[r].live /\ proc[r].ret.fn = "none"
       /\ ~proc'[r].live => proc'[r] = proc[r] \/ (proc'[r].ret.fn = "exit" /\ \A f \in Fd : proc'[r].fd[f] = Closed)
  <2> TAKE r \in Proc
  <2>1. CASE r = p
    BY <1>2, <1>3, <1>4, <1>5, <2>1
  <2>2. CASE r # p
    BY <1>5, <2>2 DEF SameUse
  <2>. QED
    BY <2>1, <2>2
<1>8. ops' \in 0 .. MaxOps
  BY <1>1, CallCounts DEF CountersOK
<1>9. Shares
  BY <1>1, <1>5, <1>6, <1>7, <1>8 DEF Shares
<1>. QED
  BY <1>9, ShareStep
-----------------------------------------------------------------------------
(* The invariant of the sockets.                                             *)

LEMMA SocketStarts == Init => SocketInv
<1> SUFFICES ASSUME Init PROVE SocketInv
  OBVIOUS
<1>1. conv = [i \in Conv |-> Blank] /\ eph = 0 /\ queries = {} /\ ops = 0 /\ strayed = FALSE
  BY DEF Init
<1>2. /\ proc \in [Proc -> ProcRec]
      /\ \A p \in Proc : /\ proc[p].live = (p = First) /\ proc[p].pc = Idle /\ proc[p].ret = Idle
                         /\ \A f \in Fd : proc[p].fd[f] = Closed
  <2>1. [f \in Fd |-> Closed] \in Slots
    BY DEF Slots
  <2>2. \A b \in BOOLEAN : [live |-> b, fd |-> [f \in Fd |-> Closed], pc |-> Idle, ret |-> Idle] \in ProcRec
    BY <2>1 DEF ProcRec, Result
  <2>. QED
    BY <2>2 DEF Init
<1>3. /\ conv \in [Conv -> ConvRec]
      /\ \A i \in Conv : conv[i].st = "free" /\ conv[i].tcb = "none" /\ ConvOK(conv[i])
  <2>1. <<>> \in Seq(Dgram) /\ <<>> \in Seq(Conv) /\ Len(<<>>) = 0 /\ 0 \in Int /\ 0 \in Nat
    OBVIOUS
  <2>2. Blank \in ConvRec
    BY <2>1 DEF Blank, ConvRec
  <2>3. Blank.st = "free" /\ Blank.tcb = "none" /\ ConvOK(Blank)
    BY <2>1, ConstantsOK DEF Blank, ConvOK
  <2>. QED
    BY <1>1, <2>2, <2>3
<1>4. \A p \in Proc, f \in Fd : ~IsSocket(p, f)
  BY <1>2 DEF IsSocket, Closed
<1>5. \A p \in Proc : proc[p].pc.fn = "none" /\ proc[p].ret.fn = "none"
  BY <1>2 DEF Idle
<1>6. SocketType
  <2>1. \A p \in Proc : CallOK(proc[p]) /\ HasFd(proc[p])
    BY <1>5 DEF CallOK, HasFd
  <2>2. eph \in Nat /\ queries \subseteq Query /\ ops \in 0 .. MaxOps /\ strayed \in BOOLEAN
    <3>1. 0 \in 0 .. MaxOps
      BY ConstantsOK
    <3>. QED
      BY <1>1, <3>1
  <2>. QED
    BY <1>2, <1>3, <2>1, <2>2 DEF SocketType
<1>7. NotThere /\ Named /\ Kept
  BY <1>2, <1>3, <1>4, <1>5 DEF NotThere, Named, Kept
<1>8. Queued /\ Single /\ HeadersTrue /\ Lookups
  BY <1>1, <1>3, <1>4, <1>5 DEF Queued, Queues, Single, HeadersTrue, Lookups
<1>. QED
  BY <1>6, <1>7, <1>8 DEF SocketInv

LEMMA ProgramOK ==
  ASSUME SocketInv, NEW p \in Proc, Program(p)
  PROVE  SocketInv'
<1>1. CASE \E f \in Fd : IsSocket(p, f) /\ Reaches(proc[p].fd[f]) /\ Through(p, f)
  <2>1. PICK f \in Fd : IsSocket(p, f) /\ Reaches(proc[p].fd[f]) /\ Through(p, f)
    BY <1>1
  <2>2. CASE \E n \in Port : Bind(p, f, n)
    BY <2>1, <2>2, BindOK
  <2>3. CASE Listen(p, f) \/ Accept(p, f)
    BY <2>1, <2>3, ListenOK, AcceptOK
  <2>4. CASE Connect(p, f) \/ Shutdown(p, f) \/ Close(p, f)
    BY <2>1, <2>4, ConnectOK, ShutdownOK, CloseOK
  <2>5. CASE \E b \in BOOLEAN : Recv(p, f, b)
    BY <2>1, <2>5, RecvOK
  <2>6. CASE \E b \in BOOLEAN : \E n \in {1, Buf + 1} : Send(p, f, n, b)
    <3>1. {1, Buf + 1} \subseteq Nat
      BY ConstantsOK
    <3>. QED
      BY <2>1, <2>6, <3>1, SendOK
  <2>. QED
    BY <2>1, <2>2, <2>3, <2>4, <2>5, <2>6, Zenon DEF Through
<1>2. CASE strayed' = strayed /\ (\E proto \in {"tcp", "udp"} : Socket(p, proto))
  BY <1>2, SocketOK
<1>3. CASE strayed' = strayed /\ (\E f \in Fd : Dup(p, f))
  BY <1>3, DupOK
<1>4. CASE strayed' = strayed /\ (\E q \in Proc : Fork(p, q))
  BY <1>4, ForkOK
<1>5. CASE strayed' = strayed /\ Exit(p)
  BY <1>5, ExitOK
<1>6. CASE strayed' = strayed /\ (\E name \in Name : DnsQuery(p, name))
  BY <1>6, DnsQueryOK
<1>. QED
  BY <1>1, <1>2, <1>3, <1>4, <1>5, <1>6 DEF Program

LEMMA NetworkOK ==
  ASSUME SocketInv, Network
  PROVE  SocketInv'
<1>1. strayed' = strayed
  BY DEF Network
<1>2. ASSUME NEW l \in Conv, PeerConnects(l) PROVE SocketInv'
  BY <1>1, <1>2, PeerConnectsOK
<1>3. ASSUME NEW i \in Conv,
             PeerOpens(i) \/ PeerSends(i) \/ PeerAcks(i) \/ PeerCloses(i) \/ PeerResets(i) \/ Finishes(i)
      PROVE  SocketInv'
  <2>1. PICK e : conv' = [conv EXCEPT ![i] = e] /\ QuietConv(i, e) /\ UNCHANGED <<proc, eph, queries, ops>>
    BY <1>1, <1>3, PeersQuiet, Zenon
  <2>2. CountersOK /\ eph <= eph'
    BY <1>1, <2>1 DEF CountersOK, SocketInv, SocketType
  <2>. QED
    BY <2>1, <2>2, QuietAt
<1>4. ASSUME NEW m \in queries, NEW kind \in {"addr", "error", "noaddr"}, DnsReply(m, kind) PROVE SocketInv'
  <2> DEFINE v == [who |-> m.who, name |-> m.name, kind |-> kind]
  <2>1. m \in Query
    BY DEF SocketInv, SocketType
  <2>2. v \in Dgram /\ v.who = m.who /\ v.name = m.name
    BY <2>1 DEF Query, Dgram
  <2>3. UdpInput(m.port, "dns", v)
    BY <1>4 DEF DnsReply
  <2> HIDE DEF v
  <2>. QED
    BY <1>1, <2>2, <2>3, UdpInputOK
<1>5. ASSUME NEW port, Datagram(port) PROVE SocketInv'
  <2> DEFINE v == [who |-> 0, name |-> "none", kind |-> "none"]
  <2>1. v \in Dgram /\ v.who = 0
    BY DEF Dgram
  <2>2. UdpInput(port, "host", v)
    BY <1>5 DEF Datagram
  <2> HIDE DEF v
  <2>. QED
    BY <1>1, <2>1, <2>2, UdpInputOK
<1>. QED
  BY <1>2, <1>3, <1>4, <1>5 DEF Network

LEMMA SocketKept == SocketInv /\ [Next]_vars => SocketInv'
<1>1. ASSUME SocketInv, Next PROVE SocketInv'
  <2>1. ASSUME NEW p \in Proc, Library(p) PROVE SocketInv'
    BY <1>1, <2>1, AskOK, ConnectPollOK, SendStepOK, NoDescriptorOK, DnsConnectOK, DnsWriteOK, DnsCloseOK, Zenon
       DEF Library
  <2>2. ASSUME NEW p \in Proc, PendService(p), Reaches(proc[p].pc) PROVE SocketInv'
    BY <1>1, <2>2, PendServiceOK
  <2>3. CASE Reap /\ UNCHANGED strayed
    BY <1>1, <2>3, ReapOK
  <2>. QED
    BY <1>1, <2>1, <2>2, <2>3, ProgramOK, NetworkOK, Zenon DEF Next
<1>2. ASSUME SocketInv, UNCHANGED vars PROVE SocketInv'
  <2>1. conv' = conv /\ proc' = proc /\ eph' = eph /\ queries' = queries /\ ops' = ops /\ strayed' = strayed
    BY <1>2 DEF vars
  <2>2. CountersOK /\ eph <= eph'
    BY <1>2, <2>1 DEF CountersOK, SocketInv, SocketType
  <2>. QED
    BY <1>2, <2>1, <2>2, QuietAt
<1>. QED
  BY <1>1, <1>2

\* Of the sockets of rc_socket.c and the conversations of ipd_conv.c3, for any
\* programs: records, descriptors and calls in progress are well formed, no
\* conversation is lost, and, until a call strays, queues, descriptors, header
\* flags and lookups agree with the conversations.
THEOREM SocketsHold == Spec => []SocketInv
<1>. QED
  BY SocketStarts, SocketKept, PTL DEF Spec

LEMMA SocketTables == SocketInv => TablesAgree
<1> SUFFICES ASSUME SocketInv PROVE TablesAgree
  OBVIOUS
<1>1. conv \in [Conv -> ConvRec] /\ proc \in [Proc -> ProcRec] /\ \A i \in Conv : ConvOK(conv[i])
  BY DEF SocketInv, SocketType
<1>2. \A p \in Proc, f \in Fd : IsSocket(p, f) => proc[p].fd[f] \in NetFd
  BY <1>1 DEF ProcRec, Slots, IsSocket, Closed
<1>3. TypeOK
  <2>1. \A i \in Conv : LET c == conv[i] IN
          /\ c.st \in {"free", "open", "connected", "announced", "closed", "reset"} /\ c.proto \in {"tcp", "udp"}
          /\ c.tcb \in {"none", "listen", "synsent", "synrcvd", "est", "cwait", "fin", "last", "twait", "closed"}
    BY <1>1 DEF ConvRec
  <2>2. \A p \in Proc, f \in Fd : IsSocket(p, f) => proc[p].fd[f].conv \in Conv
    BY <1>2 DEF NetFd
  <2>3. ops \in 0 .. MaxOps
    BY DEF SocketInv, SocketType
  <2>. QED
    BY <1>1, <2>1, <2>2, <2>3 DEF TypeOK, ConvOK
<1>4. ASSUME ~strayed PROVE OneDescriptor /\ HeadersAgree
  <2>1. Single /\ HeadersTrue
    BY <1>4 DEF SocketInv
  <2>. QED
    BY <2>1 DEF Single, OneDescriptor, HeadersTrue, HeadersAgree, Current
<1>. QED
  BY <1>3, <1>4 DEF TablesAgree

\* The conversation table of ipd_conv.c3 stays in its bounds, and until a call
\* strays every accept and socket gives a descriptor of its own, whose header
\* flag is its conversation's mode (net_accept, ensure_headers).
THEOREM TablesHold == Spec => []TablesAgree
<1>. QED
  BY SocketsHold, SocketTables, PTL

LEMMA SocketKeeps == SocketInv => NoConversationLost
<1> SUFFICES ASSUME SocketInv, NEW i \in Conv, conv[i].st # "free", conv[i].handed, proc[conv[i].owner].live
             PROVE  \E p \in Proc : \/ \E f \in Fd : IsSocket(p, f) /\ proc[p].fd[f].conv = i
                                    \/ proc[p].pc.fn = "hangup" /\ proc[p].pc.conv = i
  BY DEF NoConversationLost
<1>1. conv[i].owner \in Proc
  BY DEF SocketInv, SocketType, ConvOK
<1>2. Keeps(conv[i].owner, i)
  BY DEF SocketInv, Kept
<1>. QED
  BY <1>1, <1>2 DEF Keeps

\* A conversation that socket or accept gave out is named by a descriptor or
\* about to be hung up for as long as its owner lives, strayed calls or not
\* (__rc_fd_new_net, conv_reap_dead_owners).
THEOREM ConversationsAreKept == Spec => []NoConversationLost
<1>. QED
  BY SocketsHold, SocketKeeps, PTL

LEMMA SocketResults == SocketInv => ResultsAreTrue
<1> SUFFICES ASSUME SocketInv PROVE ResultsAreTrue
  OBVIOUS
<1>1. SendCounts /\ ConnectIsUp
  BY DEF SocketInv, SocketType, CallOK, SendCounts, ConnectIsUp
<1>2. ~strayed => DnsAnswersQuery
  BY DEF SocketInv, Lookups, DnsAnswersQuery
<1>. QED
  BY <1>1, <1>2 DEF ResultsAreTrue

\* send counts the bytes that ipd took, connect succeeds on a connection that
\* was established, and until a call strays dns_query finds an address of the
\* name it asked for (net_send, connect, dns_query).
THEOREM SocketCallsReport == Spec => []ResultsAreTrue
<1>. QED
  BY SocketsHold, SocketResults, PTL
=============================================================================
