----------------------------- MODULE MCLibrary ------------------------------
(* Small instances of Library for TLC. *)
EXTENDS Library

Texts(S, n) == UNION {[1 .. k -> S] : k \in 0 .. n}
Some == {97, 98}
Values == {-128, -127, -1, 0, 1, 7, 8, 10, 127}

MoveJobs == {[fn |-> "memmove", m |-> [a \in 0 .. 8 |-> a], d |-> d, s |-> s, n |-> n] : d \in 0 .. 4, s \in 0 .. 4, n \in 0 .. 5}
TokenJobs == {[fn |-> "tokens", s |-> s, sep |-> sep] : s \in Texts({97, 44, 59}, 5), sep \in {<<44>>, <<44, 59>>}}
FindJobs == {[fn |-> "find", s |-> s, t |-> t] : s \in Texts(Some, 4), t \in Texts(Some, 3)}
WideJobs == {[fn |-> "wide", s |-> s, n |-> n] : s \in Texts({97, 255, 300}, 4), n \in 1 .. 3}
PathJobs == {[fn |-> "abspath", rel |-> r, cwd |-> c] :
               r \in Texts({97, Dot, Slash}, 5), c \in {<<>>, <<Slash>>, <<Slash, 97>>, <<Slash, 97, Slash, 98, 98>>}}
ExecvpJobs == {[fn |-> "execvp", path |-> p, file |-> f, cap |-> 5] :
                 p \in Texts({97, Slash, Colon}, 5), f \in {<<98>>, <<98, 98>>, <<98, Slash, 98>>}}
PrintJobs == {[fn |-> "print", fl |-> fl, width |-> w, prec |-> p, conv |-> c, v |-> v] :
                fl \in {<<>>, <<Minus>>, <<Plus>>, <<Zero>>, <<Space, Zero>>, <<Hash, Zero>>, <<Hash, Minus>>},
                w \in {-6, 0, 3, 6}, p \in {-1, 0, 2, 5}, c \in {100, 111, LowerX, 88, 112}, v \in Values}
SnprintfJobs == {[fn |-> "snprintf", dst |-> [i \in 0 .. 5 |-> 1], n |-> n, s |-> s] :
                   n \in 0 .. 4, s \in Texts({97}, 5)}
\* Formats: %d, %2d%s, %c, %3c, %[a-c], %[^1]%d, a%n, %x, and %s with spaces.
ScanFormats == {<<37, 100>>, <<37, 50, 100, 37, 115>>, <<37, 51, 99>>, <<37, 91, 97, 45, 99, 93>>,
                <<37, 91, 94, 49, 93, 37, 100>>, <<97, 37, 110>>, <<37, 42, 99, 37, LowerX>>, <<32, 37, 115, 37, 99>>}
ScanJobs == {[fn |-> "sscanf", s |-> s, f |-> f, marks |-> IF Contains(f, 110) THEN 1 ELSE 0] :
               s \in Texts({49, 97, 32, Minus}, 4), f \in ScanFormats}
\* %d %d, %d,%s, %s %d%%, %3d%c
RescanJobs ==
  {[fn |-> "rescan", f |-> <<37, 100, 32, 37, 100>>, args |-> <<v, w>>] : v \in Values, w \in Values} \cup
  {[fn |-> "rescan", f |-> <<37, 100, 44, 37, 115>>, args |-> <<v, s>>] : v \in Values, s \in Texts(Some, 2) \ {<<>>}} \cup
  {[fn |-> "rescan", f |-> <<37, 115, 32, 37, 100, 37, 37>>, args |-> <<s, v>>] : v \in Values, s \in Texts({97, 49}, 2) \ {<<>>}}
AtonJobs == {[fn |-> "aton", parts |-> p] :
               p \in [1 .. 4 -> {<<48>>, <<50, 53, 53>>, <<50, 53, 54>>, <<>>, <<49, 97>>}] \cup [1 .. 3 -> {<<49>>}]
                     \cup [1 .. 5 -> {<<49>>}]}
NtoaJobs == {[fn |-> "ntoa", ip |-> ip] : ip \in [1 .. 4 -> {0, 9, 10, 99, 255}]}

\* Answers for the name a.b: a header, the question, and records, which name
\* it in full or by a pointer, of type 1 (an address), 5 or 1 with other data.
Question == LabelsFrom(<<97, Dot, 98>>, 0)
Rec(name, type, data) == name \o <<0, type, 0, 1, 0, 0, 0, 0, 0, Len(data)>> \o data
Recs == {Rec(n, 1, <<10, 0, 2, 15>>) : n \in {<<192, 12>>, Question}} \cup {Rec(<<192, 12>>, 5, <<1, 99, 0>>), Rec(<<0>>, 1, <<7>>)}
Message(rs) == [i \in 1 .. 12 |-> 0] \o Question \o <<0, 1, 0, 1>> \o FlattenSeq(rs)
HasAddress(rs) == \E i \in DOMAIN rs : rs[i] \in {Rec(n, 1, <<10, 0, 2, 15>>) : n \in {<<192, 12>>, Question}}
DnsJobs == UNION {{[fn |-> "dns", m |-> Message(rs), rn |-> k, an |-> Len(rs),
                    ip |-> IF HasAddress(rs) THEN <<10, 0, 2, 15>> ELSE <<>>] :
                     k \in 10 .. Len(Message(rs))} : rs \in Texts(Recs, 2)}

Arrays(n, S) == [0 .. n - 1 -> S]
QsortJobs == {[fn |-> "qsort", b |-> b, n |-> 6] : b \in Arrays(6, 1 .. 3)} \cup
             {[fn |-> "qsort", b |-> b, n |-> 4] : b \in Arrays(4, 1 .. 4)} \cup
             {[fn |-> "qsort", b |-> b, n |-> 8] : b \in Arrays(8, 1 .. 2)}
BsearchJobs == UNION {{[fn |-> "bsearch", b |-> b, n |-> n, keys |-> 0 .. 5] :
                         b \in {x \in Arrays(n, 1 .. 4) : \A i, j \in 0 .. n - 1 : i < j => x[i] <= x[j]}} : n \in 1 .. 5}
ClockJobs == {[fn |-> "clock", t |-> t, hz |-> hz] : t \in 0 .. 40, hz \in 1 .. 6}
SleepJobs == {[fn |-> "sleep", sec |-> s, sub |-> u, hz |-> hz, past |-> d] : s \in 0 .. 3, u \in 0 .. 9, hz \in 1 .. 6, d \in 0 .. 12}

Buffers == {[i \in 0 .. 7 |-> IF i = k THEN 0 ELSE IF i < k THEN 120 ELSE 121] : k \in 0 .. 3}
CopyJobs == {[fn |-> "copy", b |-> b, s |-> s, n |-> n] : b \in Buffers, s \in Texts(Some, 3), n \in 0 .. 4}
MemsetJobs == {[fn |-> "memset", m |-> [a \in 0 .. 8 |-> a], d |-> d, c |-> 99, n |-> n] : d \in 0 .. 3, n \in 0 .. 5}
CompareJobs == {[fn |-> "compare", s |-> s, t |-> t, n |-> n] : s \in Texts({66, 97, 98}, 3), t \in Texts({66, 97, 98}, 3), n \in 0 .. 3}
SearchJobs == UNION {{[fn |-> "search", s |-> s, c |-> c, n |-> n] : n \in 0 .. Len(s)} :
                      s \in Texts({97, 98, 99}, 4), c \in {0, 97}}
FfsJobs == {[fn |-> "ffs", v |-> v] : v \in 0 .. 255}
AtJobs == {[fn |-> "at", dir |-> d, path |-> p, cap |-> 9] :
             d \in {<<>>, <<Slash>>, <<Slash, 97>>, <<Slash, 97, Slash, 98>>}, p \in Texts({97, Dot, Slash}, 4)}
SprintfJobs == {[fn |-> "sprintf", dst |-> [i \in 0 .. 5 |-> 1], s |-> s] : s \in Texts({97}, 5)}
WcstoullJobs == {[fn |-> "wcstoull", s |-> s, base |-> b, cap |-> c] :
                   s \in Texts({49, 97, Minus, 300}, 4), b \in {0, 10, 16}, c \in {3, 6}}
\* %d, a%dé and %d behind a character that is no byte.
SwprintfJobs == {[fn |-> "swprintf", n |-> n, f |-> f, args |-> <<v>>, fcap |-> 5, ocap |-> 4] :
                   n \in 0 .. 5, v \in Values, f \in {<<37, 100>>, <<97, 37, 100, 233>>, <<300, 37, 100>>, <<97, 97, 97, 37, 100>>}}
HostportJobs == {[fn |-> "hostport", ip |-> ip, rest |-> r] : ip \in {<<10, 0, 2, 15>>, <<0, 0, 0, 0>>}, r \in {t \in Texts({Bang, 49, 48, Dot}, 4) : ~IsDigit(Ch(t, 0))}}
\* Status lines: a server, none, 0.0.0.0, and one with no address.
Statuses == {<<97>> \o DnsWord \o FmtIp(ip) \o <<10>> : ip \in {<<10, 0, 2, 3>>, <<8, 8, 8, 8>>, <<0, 0, 0, 0>>}} \cup {<<>>, <<97, 10>>, <<97>> \o DnsWord}
ServerJobs == {[fn |-> "server", ifs |-> s, ips |-> {<<10, 0, 2, 3>>, <<8, 8, 8, 8>>}] : s \in Texts(Statuses, 3)}
LookupJobs == {[fn |-> "lookup", answer |-> a,
                q |-> [node |-> nd, service |-> sv, family |-> fm, type |-> ty, passive |-> ps, numeric |-> nu, heap |-> hp]] :
                 a \in {<<>>, <<10, 0, 2, 2>>}, nd \in {NULL, Localhost, <<97>>, <<49, Dot, 50, Dot, 51, Dot, 52>>, <<49, Dot, 50>>},
                 sv \in {NULL, <<>>, Http, <<97>>, <<55, 48>>, <<49, 48, 48>>, <<49, 48, 49>>, <<49, 57, 57>>, <<55, 97>>, <<Minus, 49>>},
                 fm \in {"any", "inet6"}, ty \in {"any", "dgram"}, ps \in BOOLEAN, nu \in BOOLEAN, hp \in BOOLEAN}
PollTab == [k \in 0 .. 3 |-> CASE k = 0 -> "console" [] k = 1 -> "console" [] k = 2 -> "net" [] k = 3 -> "free"]
PollFds == {[fd |-> f, ev |-> e] : f \in {-1, 0, 1, 2, 3, 4}, e \in SUBSET {"in", "out"}}
PollJobs == {[fn |-> "poll", fds |-> s, tab |-> t, ms |-> ms, hz |-> 2000] :
               s \in Texts(PollFds, 2), ms \in {-1, 0, 3}, t \in {PollTab, [PollTab EXCEPT ![0] = "file"]}}
TimeJobs == {[fn |-> "tod", t |-> t, hz |-> hz] : t \in 0 .. 40, hz \in 0 .. 6}

AllJobs ==
  <<CopyJobs, MemsetJobs, CompareJobs, SearchJobs, FfsJobs, AtJobs, SprintfJobs, WcstoullJobs,
    SwprintfJobs, LookupJobs, HostportJobs, ServerJobs, PollJobs, TimeJobs, MoveJobs, TokenJobs, FindJobs, WideJobs,
    PathJobs, ExecvpJobs, PrintJobs, SnprintfJobs, ScanJobs, RescanJobs, AtonJobs, NtoaJobs,
    DnsJobs, QsortJobs, BsearchJobs, ClockJobs, SleepJobs>>
NoJob == [fn |-> "none"]

Names == {<<97>>, <<97, 98>>, <<99>>}
Vals == {<<>>, <<120, Eq>>}
Starts == {<<>>, <<EntryOf(<<97, 98>>, <<120, Eq>>), EntryOf(<<97>>, <<>>)>>}
InStore == [n \in {<<99>>} |-> <<121>>]
Argvs == {<<>>, <<<<97>>>>, <<<<97>>, <<>>>>, <<<<97>>, <<>>, <<98>>, <<97>>>>}
Kinds == [m \in {"m", "r", "e"} |-> CASE m = "m" -> "normal" [] m = "r" -> "recursive" [] m = "e" -> "errorcheck"]
=============================================================================
