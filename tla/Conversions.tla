---------------------------- MODULE Conversions -----------------------------
(****************************************************************************)
(* Calls of the C library's pure functions.  A behaviour is one call: `job` *)
(* names the function and its arguments, `out` is what it computes.         *)
(****************************************************************************)
EXTENDS Address, Strings, Sort, Clock, Poll, FiniteSets

CONSTANT
  Jobs       \* the calls, as records: a sequence of sets, one for each function

VARIABLES job, called, out
convVars == <<job, called, out>>

ConvInit == (\E i \in DOMAIN Jobs : job \in Jobs[i]) /\ called = FALSE /\ out = <<>>
Call(fn) == job.fn = fn /\ ~called /\ called' = TRUE /\ UNCHANGED job

CallMemmove == Call("memmove") /\ out' = Memmove(job.m, job.d, job.s, job.n)
CallTokens ==
  Call("tokens") /\ out' = [fn \in {"strtok", "wcstok", "strsep"} |-> TokensFrom(fn, job.s, job.sep, 0)]
CallFind == Call("find") /\ out' = [strstr |-> Strstr(job.s, job.t), memmem |-> Memmem(job.s, job.t)]
\* The functions that write a string s into a buffer b of job.m bytes: up to n
\* of it, or all.
CallCopy ==
  /\ Call("copy")
  /\ out' = [strncpy |-> Strncpy(job.b, job.s, job.n), strncat |-> Strncat(job.b, job.s, job.n),
             strcat |-> Strcat(job.b, job.s), strcpy |-> Strcpy(job.b, 0, job.s, 0),
             strxfrm |-> Strxfrm(job.b, job.s, job.n), wcsxfrm |-> Wcsxfrm(job.b, job.s, job.n),
             strndup |-> Strndup(job.s, job.n)]
CallMemset == Call("memset") /\ out' = Memset(job.m, job.d, job.c, job.n)
CallCompare ==
  /\ Call("compare")
  /\ out' = [strcmp |-> StrcmpAt(job.s, job.t, 0), strncmp |-> StrncmpAt(job.s, job.t, job.n, 0),
             wcscmp |-> WcscmpAt(job.s, job.t, 0), wcsncmp |-> WcsncmpAt(job.s, job.t, job.n, 0),
             strcasecmp |-> StrcasecmpAt(job.s, job.t, 0), strncasecmp |-> StrncasecmpAt(job.s, job.t, job.n, 0)]
CallSearch ==
  /\ Call("search")
  /\ out' = [memchr |-> MemchrAt(job.s, job.c, job.n, 0), memrchr |-> MemrchrAt(job.s, job.c, job.n),
             strrchr |-> StrrchrAt(job.s, job.c, 0, NoPtr), wcschr |-> WcschrAt(job.s, job.c, 0),
             strpbrk |-> StrpbrkAt(job.s, <<job.c, 98>>, 0), wcspbrk |-> Wcspbrk(job.s, <<job.c, 98>>)]
CallFfs == Call("ffs") /\ out' = Ffs(job.v)
\* A path given to openat and then to the file system.
CallAt == Call("at") /\ out' = AtPath(job.dir, job.path, job.cap)
CallWide == Call("wide") /\ out' = Pieces(job.s, 0, job.n)
CallAbspath == Call("abspath") /\ out' = Abspath(job.rel, job.cwd)
CallExecvp == Call("execvp") /\ out' = Candidates(job.path, job.file, job.cap)
\* The text with and without the width asked for, and what strtoull reads back.
CallPrint ==
  /\ Call("print")
  /\ LET f == <<Percent>> \o job.fl \o <<Star, Dot, Star, job.conv>>
         base == CASE job.conv = 100 -> 10 [] job.conv = 111 -> 8 [] OTHER -> 16
         text == VformatAt(f, 0, <<job.width, job.prec, job.v>>)
     IN out' = [text |-> text, bare |-> VformatAt(f, 0, <<0, job.prec, job.v>>), back |-> Strtoull(text, base)]
CallSnprintf == Call("snprintf") /\ out' = Vsnprintf(job.dst, job.n, job.s)
CallSprintf == Call("sprintf") /\ out' = [vsprintf |-> Vsprintf(job.dst, job.s), vasprintf |-> Vasprintf(job.s)]
CallWcstoull == Call("wcstoull") /\ out' = Wcstoull(job.s, job.base, job.cap)
CallSwprintf == Call("swprintf") /\ out' = Vswprintf(job.n, job.f, job.args, job.fcap, job.ocap)
CallScan == Call("sscanf") /\ out' = Sscanf(job.s, job.f)
\* What sprintf prints is scanned with the same format.
CallRescan == Call("rescan") /\ out' = Sscanf(VformatAt(job.f, 0, job.args), job.f)
CallAton == Call("aton") /\ out' = InetAton(FoldLeft(LAMBDA a, b : IF a = <<>> THEN b ELSE a \o <<Dot>> \o b, <<>>, job.parts))
CallNtoa == Call("ntoa") /\ out' = [back |-> InetAton(FmtIp(job.ip)), ntop |-> [n \in 0 .. 16 |-> InetNtop(job.ip, n)]]
CallHostport == Call("hostport") /\ out' = ParseHostport(FmtIp(job.ip) \o job.rest)
CallServer == Call("server") /\ out' = DnsServer(job.ifs, 1)
CallLookup ==
  Call("lookup") /\ out' = [info |-> Getaddrinfo(job.q, job.answer), host |-> Gethostbyname(job.q.node, job.answer)]
\* A program polls; something that can wake it does.
CallPoll ==
  /\ Call("poll")
  /\ \E wake \in Wakes(PollScan(job.fds, job.tab, FALSE).want, PollTicks(job.ms, job.hz)) :
       out' = [wake |-> wake, got |-> PollReturns(job.fds, job.tab, job.ms, wake)]
CallDns == Call("dns") /\ out' = DnsParse(job.m, job.rn, job.an)
CallQsort == Call("qsort") /\ out' = Qsort(job.b, job.n)
CallBsearch == Call("bsearch") /\ out' = [key \in job.keys |-> BsearchIn(job.b, key, 0, job.n)]
CallClock ==
  Call("clock") /\ out' = [clock |-> Scale(job.t, job.hz), split |-> Split(job.t, job.hz)]
CallSleep ==
  /\ Call("sleep")
  /\ LET ticks == Ticks(job.sec, job.sub, job.hz)
     IN out' = [ticks |-> ticks, left |-> Remains(ticks, job.past, job.hz)]

CallTimeOfDay ==
  Call("tod") /\ out' = [now |-> TimeOfDay(job.t, job.hz), then |-> TimeOfDay(job.t + 1, job.hz)]

Convert ==
  \/ CallCopy \/ CallMemset \/ CallCompare \/ CallSearch \/ CallFfs \/ CallAt \/ CallSprintf \/ CallWcstoull
  \/ CallSwprintf \/ CallLookup \/ CallHostport \/ CallServer \/ CallPoll \/ CallTimeOfDay
  \/ CallMemmove \/ CallTokens \/ CallFind \/ CallWide \/ CallAbspath \/ CallExecvp \/ CallPrint \/ CallSnprintf
  \/ CallScan \/ CallRescan \/ CallAton \/ CallNtoa \/ CallDns \/ CallQsort \/ CallBsearch \/ CallClock \/ CallSleep
-----------------------------------------------------------------------------
(* Properties.                                                               *)

Did(fn) == called /\ job.fn = fn

\* memmove copies right whichever way source and destination overlap, though
\* it goes through memcpy, which copies words, if the destination is lower.
MemmoveMoves ==
  Did("memmove") =>
    out = [a \in DOMAIN job.m |-> IF a \in job.d .. job.d + job.n - 1 THEN job.m[job.s + a - job.d] ELSE job.m[a]]

\* strsep cuts a string at every separator; the tokens of strtok_r and wcstok,
\* which save their place in different ways, are its pieces that are not empty.
TokensSplit ==
  Did("tokens") =>
    LET IsSep(c) == Contains(job.sep, c) IN
    /\ FlattenSeq(out.strsep) = SelectSeq(job.s, LAMBDA c : ~IsSep(c))
    /\ Len(out.strsep) = 1 + Len(SelectSeq(job.s, IsSep))
    /\ out.strtok = SelectSeq(out.strsep, LAMBDA p : p # <<>>)
    /\ out.wcstok = out.strtok

\* strstr and memmem find the first place where the text is, and only then.
FindsFirst ==
  Did("find") =>
    LET at == {i \in 0 .. Len(job.s) - Len(job.t) : Part(job.s, i, i + Len(job.t)) = job.t}
    IN \A p \in {out.strstr, out.memmem} :
         IF at = {} THEN p = NoPtr ELSE p \in at /\ \A i \in at : p <= i

\* A string that is converted through a buffer of any size, piece by piece,
\* comes out whole, up to the first character that has no byte (wcsnrtombs).
PiecesMakeWhole ==
  Did("wide") =>
    LET bad == {i \in DOMAIN job.s : job.s[i] > 255}
        upto == CHOOSE i \in bad \cup {Len(job.s) + 1} : \A j \in bad : i <= j
    IN out.ok = (bad = {}) /\ out.out = SubSeq(job.s, 1, upto - 1)

\* The path's meaning: names are entered, ".." leaves, and the root is its own
\* parent.
Canonical(p) ==
  LET names == TokensFrom("strtok", p, <<Slash>>, 0)
      Enter(st, n) == IF n = <<Dot>> THEN st ELSE IF n # <<Dot, Dot>> THEN Append(st, n)
                      ELSE IF st = <<>> THEN st ELSE Front(st)
      st == FoldLeft(Enter, <<>>, names)
  IN IF st = <<>> THEN <<Slash>> ELSE FlattenSeq([i \in DOMAIN st |-> <<Slash>> \o st[i]])
\* __rc_abspath gives the canonical name of what a path means in a directory,
\* cut at the longest path (rc_normalize works on characters, in place).
PathIsCanonical ==
  Did("abspath") =>
    out = Canonical(Cut(IF Ch(job.rel, 0) = Slash THEN job.rel
                        ELSE (IF job.cwd = <<>> THEN <<Slash>> ELSE job.cwd) \o
                             (IF job.cwd # <<>> /\ Last(job.cwd) # Slash THEN <<Slash>> ELSE <<>>) \o job.rel))

\* execvp tries the file in every directory of PATH where the name fits, in
\* order, and a name with a '/' as it is.
SearchesPath ==
  Did("execvp") =>
    LET dirs == SelectSeq(TokensFrom("strsep", job.path, <<Colon>>, 0), LAMBDA d : d # <<>>)
        full == [i \in DOMAIN dirs |-> (IF Last(dirs[i]) = Slash THEN dirs[i] ELSE Append(dirs[i], Slash)) \o job.file]
    IN out = IF Slash \in ToSet(job.file) THEN <<job.file>> ELSE SelectSeq(full, LAMBDA c : Len(c) < job.cap)

\* The bounded copies write exactly what they promise: strncpy all of its n
\* characters and no other, strncat the text and one terminator, strxfrm and
\* wcsxfrm no more than n, and a whole string if it fits.
Same(b, from) == \A a \in DOMAIN b : a >= from => b[a] = job.b[a]
Holds(b, t) == \A i \in 0 .. Len(t) : b[i] = Ch(t, i)
CopiesFit ==
  Did("copy") =>
    LET old == Part([i \in 1 .. EndOf(job.b, 0) |-> job.b[i - 1]], 0, EndOf(job.b, 0))
        first == Part(job.s, 0, job.n)
    IN /\ \A i \in 0 .. job.n - 1 : out.strncpy[i] = Ch(job.s, i)
       /\ Same(out.strncpy, job.n)
       /\ Holds(out.strncat, old \o first) /\ Same(out.strncat, Len(old \o first) + 1)
       /\ Holds(out.strcat, old \o job.s) /\ Same(out.strcat, Len(old \o job.s) + 1)
       /\ Holds(out.strcpy, job.s) /\ Same(out.strcpy, Len(job.s) + 1)
       /\ out.wcsxfrm = out.strxfrm /\ Same(out.strxfrm, job.n)
       /\ Len(job.s) < job.n => Holds(out.strxfrm, job.s)
       /\ out.strndup = Append(first, 0)

\* memset fills its n bytes and no other, though it writes whole words.
MemsetFills ==
  Did("memset") => out = [a \in DOMAIN job.m |-> IF a \in job.d .. job.d + job.n - 1 THEN job.c ELSE job.m[a]]

\* The comparisons give the order of the first difference, up to n, and with
\* letters of either case alike; narrow and wide functions agree.
Order(s, t) ==
  IF s = t THEN 0
  ELSE LET k == CHOOSE k \in 0 .. Len(s) : Part(s, 0, k) = Part(t, 0, k) /\ Ch(s, k) # Ch(t, k) IN Sign(Ch(s, k) - Ch(t, k))
Lower(s) == [i \in DOMAIN s |-> Lc(s[i])]
ComparesInOrder ==
  Did("compare") =>
    LET s1 == Part(job.s, 0, job.n)
        t1 == Part(job.t, 0, job.n)
    IN /\ Sign(out.strcmp) = Order(job.s, job.t) /\ out.wcscmp = Order(job.s, job.t)
       /\ Sign(out.strncmp) = Order(s1, t1) /\ out.wcsncmp = Order(s1, t1)
       /\ Sign(out.strcasecmp) = Order(Lower(job.s), Lower(job.t))
       /\ Sign(out.strncasecmp) = Order(Lower(s1), Lower(t1))

\* The searches find the first or the last place, the terminator's included
\* where the string ends the search; ffs finds the lowest bit.
SearchesFind ==
  /\ Did("search") =>
       LET at(n) == {i \in 0 .. n - 1 : Ch(job.s, i) = job.c}
           one == {i \in 0 .. Len(job.s) - 1 : Ch(job.s, i) \in {job.c, 98}}
           low(S) == IF S = {} THEN NoPtr ELSE CHOOSE i \in S : \A j \in S : i <= j
           high(S) == IF S = {} THEN NoPtr ELSE CHOOSE i \in S : \A j \in S : i >= j
       IN /\ out.memchr = low(at(job.n)) /\ out.memrchr = high(at(job.n))
          /\ out.strrchr = high(at(Len(job.s) + 1)) /\ out.wcschr = low(at(Len(job.s) + 1))
          /\ out.strpbrk = low(one) /\ out.wcspbrk = low(one)
  /\ Did("ffs") => IF job.v = 0 THEN out = 0 ELSE job.v % 2 ^ out = 2 ^ (out - 1)

\* openat in a directory is open with that directory as the current one,
\* whatever the process's own is, as long as the path is not cut.
AtIsRelative ==
  Did("at") /\ out # NULL /\ job.dir # <<>> /\ Len(out) <= PathMax =>
    \A cwd \in {<<>>, <<Slash, 98>>} : Abspath(out, cwd) = Abspath(job.path, job.dir)

\* A number that printf prints is read back by strtoull, whatever the flags,
\* the width and the precision, the smallest number included; and the text is
\* as wide as asked, and no wider than it must be.
PrintedIsRead ==
  Did("print") =>
    /\ out.back.v = Wrap(job.v)
    /\ LET w == IF job.width < 0 THEN -job.width ELSE job.width
       IN Len(out.text) = IF w > Len(out.bare) THEN w ELSE Len(out.bare)

\* snprintf never writes behind its n bytes, and what is there is the text, or
\* its beginning, with a terminator (emit_str, vsnprintf).
SnprintfBounded ==
  Did("snprintf") =>
    /\ \A i \in DOMAIN job.dst : i >= job.n => out[i] = job.dst[i]
    /\ job.n > 0 =>
         LET k == IF Len(job.s) < job.n THEN Len(job.s) ELSE job.n - 1
         IN out[k] = 0 /\ \A i \in 0 .. k - 1 : out[i] = Ch(job.s, i)

\* sprintf and asprintf leave the whole text and its terminator, and asprintf's
\* block has no byte more or less.
SprintfWhole ==
  Did("sprintf") =>
    /\ \A i \in 0 .. Len(job.s) : out.vsprintf[i] = Ch(job.s, i) /\ out.vasprintf[i] = Ch(job.s, i)
    /\ \A i \in DOMAIN job.dst : i > Len(job.s) => out.vsprintf[i] = job.dst[i]
    /\ DOMAIN out.vasprintf = 0 .. Len(job.s)

\* A wide number is read as the narrow one, and the end is reported in the
\* wide text, unless the copy's limit cut it (wcstoull); swprintf gives the
\* text that printf prints, or fails if it does not fit.
WideIsNarrow ==
  /\ Did("wcstoull") => out.end <= Len(job.s) /\ (Len(job.s) < job.cap => out = Strtoull(job.s, job.base))
  /\ Did("swprintf") /\ out # NULL => Len(out) < job.n /\ out = VformatAt(job.f, 0, job.args)
  /\ Did("swprintf") /\ out = NULL =>
       \/ Len(VformatAt(job.f, 0, job.args)) >= IF job.n < job.ocap THEN job.n ELSE job.ocap
       \/ Len(job.f) >= job.fcap \/ \E i \in DOMAIN job.f : job.f[i] > 255

\* sscanf stays inside its string and counts what it stores; it reports the
\* end of the string only if it had stored nothing.
ScanStaysInside ==
  Did("sscanf") =>
    /\ out.at <= Len(job.s)
    /\ IF out.ret = -1 THEN Len(out.vals) <= job.marks ELSE Len(out.vals) \in out.ret .. out.ret + job.marks

\* What sprintf printed, sscanf takes apart with the same format.
ScannedIsPrinted == Did("rescan") => out.vals = job.args /\ out.ret = Len(job.args)

\* Four numbers up to 255 with dots between them, and nothing else, are an
\* address; an address printed is read back (parse_quad, inet_aton, fmt_ip).
QuadsAreAddresses ==
  /\ Did("aton") =>
       LET v(p) == NumAt(p, 0, 0)
           good == Len(job.parts) = 4 /\ \A i \in DOMAIN job.parts :
                     LET p == job.parts[i] IN p # <<>> /\ v(p).i = Len(p) /\ v(p).n <= 255
       IN out = IF good THEN [i \in 1 .. 4 |-> v(job.parts[i]).n] ELSE <<>>
  /\ Did("ntoa") => /\ out.back = job.ip
                    /\ \A n \in 0 .. 16 : out.ntop[n] # <<>> => Len(out.ntop[n]) < n /\ InetAton(out.ntop[n]) = job.ip
                    /\ out.ntop[16] # <<>>

\* The text of an address and a port is taken apart into both, and nothing
\* else is (parse_hostport); the name server is that of an interface that has
\* one, even if others have none, or 0.0.0.0 (dns_server).
AddressesRead ==
  /\ Did("hostport") =>
       LET v == NumAt(job.rest, 1, 0) IN
       IF Ch(job.rest, 0) = Bang /\ v.i > 1
       THEN out.ok /\ out.ip = job.ip /\ out.port = Wrap(v.n)
       ELSE ~out.ok
  /\ Did("server") =>
       LET named == {i \in DOMAIN job.ifs : \E ip \in job.ips : IsPrefix(<<97>> \o DnsWord \o FmtIp(ip), job.ifs[i])} IN
       IF named = {} THEN out = <<>>
       ELSE \E i \in named : out \in job.ips /\ IsPrefix(<<97>> \o DnsWord \o FmtIp(out), job.ifs[i])

\* A look-up asks the name server only about what is neither an address nor
\* this host, and only once the service is known to be good; numbers up to the
\* highest port, and no others, are ports; the protocol fits the socket's type.
LookupsResolve ==
  Did("lookup") =>
    LET i == out.info
        v == NumAt(job.q.service, 0, 0)
        number == job.q.service # NULL /\ job.q.service # <<>> /\ v.i = Len(job.q.service)
    IN /\ i.asked => job.q.node \notin {NULL, Localhost} /\ InetAton(job.q.node) = <<>> /\ i.err # "service"
       /\ i.err = "none" => i.ip # <<>> /\ (i.asked => i.ip = job.answer) /\ (i.proto = "udp") = (i.type = "dgram")
       /\ number /\ v.n < 2 ^ Width /\ i.err # "family" => (v.n > PortMax <=> i.err = "service")
       /\ number /\ i.err = "none" /\ v.n < 2 ^ Width => i.port = v.n
       /\ out.host.err = "none" <=> (out.host.asked => job.answer # <<>>)

\* poll counts the entries it reports, reports nothing that was not asked for,
\* sleeps only when nothing is ready, never without end when it was given an
\* end, and gives up with nothing only when its time is over.
PollsTruly ==
  Did("poll") =>
    LET g == out.got IN
    /\ g.ret # -1 => g.ret = Cardinality({k \in DOMAIN job.fds : g.rev[k] # {}})
    /\ \A k \in DOMAIN job.fds : g.rev[k] \subseteq job.fds[k].ev \cup {"nval"}
    /\ g.slept => \A k \in DOMAIN job.fds :
         LET p == job.fds[k] IN p.fd >= 0 /\ p.ev # {} => p.fd \in DOMAIN job.tab /\ job.tab[p.fd] = "console" /\ p.ev = {"in"}
    /\ (g.ret = -1) <=> (g.slept /\ out.wake = "note")
    /\ g.ret = 0 => job.ms >= 0
    /\ g.slept /\ out.wake = "stdin" => g.ret > 0
    /\ job.ms >= 0 => PollTicks(job.ms, job.hz) > 0

\* dns_query never looks behind the end of an answer, wherever it is cut off,
\* and finds the first address in a whole one, behind other records too.
DnsFindsAddress ==
  Did("dns") =>
    /\ out.seen <= job.rn
    /\ out.ip \in {<<>>, job.ip}
    /\ job.rn = Len(job.m) => out.ip = job.ip

\* qsort leaves the elements in order, all of them; bsearch finds exactly what
\* is in a sorted array.
SortsAndFinds ==
  /\ Did("qsort") =>
       /\ \A i, j \in 0 .. job.n - 1 : i < j => out[i] <= out[j]
       /\ \A x \in {job.b[i] : i \in DOMAIN job.b} :
            Cardinality({i \in DOMAIN job.b : job.b[i] = x}) = Cardinality({i \in DOMAIN job.b : out[i] = x})
  /\ Did("bsearch") =>
       \A key \in job.keys :
         IF out[key] = -1 THEN \A i \in 0 .. job.n - 1 : job.b[i] # key ELSE job.b[out[key]] = key

\* clock is exact as long as its result fits, though the product of ticks and
\* units would not; a sleep that a note cuts short reports what was left of it,
\* to the tick (nanosleep).
TimeScales ==
  /\ Did("clock") /\ (job.t * PerSec) \div job.hz < 2 ^ Bits =>
       /\ out.clock = (job.t * PerSec) \div job.hz
       /\ out.split.sub < PerSec /\ out.split.sec * PerSec + out.split.sub = out.clock
  /\ Did("sleep") /\ job.past <= out.ticks =>
       LET asked == job.sec * PerSec + job.sub
           slept == (job.past * PerSec) \div job.hz
           left == out.left.sec * PerSec + out.left.sub
       IN out.left.sub < PerSec /\ left + slept <= asked /\ asked - (left + slept) <= 2 + PerSec \div job.hz

\* gettimeofday does not go back, and takes a clock of unknown rate too.
TimeGoesOn ==
  Did("tod") => LET a == out.now IN LET b == out.then IN
    a.sub < PerSec /\ b.sub < PerSec /\ (a.sec < b.sec \/ (a.sec = b.sec /\ a.sub <= b.sub))

\* Strings, wide strings and paths: the functions of string.c, wchar.c and
\* rc_fs.c agree with what their results mean.
TextAgrees ==
  /\ MemmoveMoves /\ TokensSplit /\ FindsFirst /\ PiecesMakeWhole /\ PathIsCanonical /\ SearchesPath
  /\ CopiesFit /\ MemsetFills /\ ComparesInOrder /\ SearchesFind /\ AtIsRelative

\* Formatted output and input are each other's inverse and stay in their bounds.
FormatAgrees == PrintedIsRead /\ SnprintfBounded /\ SprintfWhole /\ WideIsNarrow /\ ScanStaysInside /\ ScannedIsPrinted

\* Addresses, look-ups of names, sorted arrays, times and polls.
ValuesAgree ==
  QuadsAreAddresses /\ DnsFindsAddress /\ AddressesRead /\ LookupsResolve /\ SortsAndFinds /\ TimeScales /\ TimeGoesOn /\ PollsTruly
=============================================================================
