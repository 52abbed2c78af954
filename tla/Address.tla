------------------------------ MODULE Address -------------------------------
(****************************************************************************)
(* Internet addresses and names in rc_socket.c: dotted quads, and the       *)
(* messages of dns_query.  A message is a sequence of bytes; its header of  *)
(* 12 bytes is given by what dns_query reads of it.                         *)
(****************************************************************************)
EXTENDS Format

CONSTANT
  PortMax    \* the highest port (65535)

Octet == 0 .. 255
\* fmt_ip: an address is the sequence of its four bytes.
FmtIp(ip) == VformatAt(<<37, 117, 46, 37, 117, 46, 37, 117, 46, 37, 117>>, 0, ip)

RECURSIVE OctetAt(_, _, _)
\* One number of a quad, or -1 in its place if it is too big.
OctetAt(s, i, b) ==
  IF ~IsDigit(Ch(s, i)) THEN [b |-> b, i |-> i]
  ELSE LET v == b * 10 + Ch(s, i) - 48 IN IF v > 255 THEN [b |-> -1, i |-> i + 1] ELSE OctetAt(s, i + 1, v)
RECURSIVE QuadAt(_, _, _)
NoQuad == [ip |-> <<>>, i |-> 0]
\* parse_quad: the address and the position behind it.
QuadAt(s, i, ip) ==
  LET o == OctetAt(s, i, 0) IN
  IF ~IsDigit(Ch(s, i)) \/ o.b = -1 THEN NoQuad
  ELSE IF Len(ip) = 3 THEN [ip |-> Append(ip, o.b), i |-> o.i]
  ELSE IF Ch(s, o.i) # Dot THEN NoQuad ELSE QuadAt(s, o.i + 1, Append(ip, o.b))
\* inet_aton: nothing may follow.
InetAton(s) == LET r == QuadAt(s, 0, <<>>) IN IF r.i = Len(s) THEN r.ip ELSE <<>>
RECURSIVE PortAt(_, _, _)
PortAt(s, i, p) == IF IsDigit(Ch(s, i)) THEN PortAt(s, i + 1, Wrap(p * 10 + Ch(s, i) - 48)) ELSE p
Bang == 33
\* parse_hostport of the text in a conversation's `local` or `remote` file,
\* which read_addr reads.
ParseHostport(s) ==
  LET q == QuadAt(s, 0, <<>>) IN
  IF q.ip = <<>> \/ Ch(s, q.i) # Bang \/ ~IsDigit(Ch(s, q.i + 1)) THEN [ok |-> FALSE]
  ELSE [ok |-> TRUE, ip |-> q.ip, port |-> PortAt(s, q.i + 1, 0)]
\* inet_ntop into size bytes; <<>> if they are too few.
InetNtop(ip, size) == IF Len(FmtIp(ip)) + 1 > size THEN <<>> ELSE FmtIp(ip)
-----------------------------------------------------------------------------
(* Names and answers.                                                        *)

LabelMax == 63
RECURSIVE LabelsFrom(_, _)
\* The query's form of a name: labels with their lengths in front; <<>> if a
\* label is empty or too long.  (The limit of 290 bytes is not reached.)
LabelsFrom(s, i) ==
  LET e == StrcspnAt(s, <<Dot>>, i)
      next == IF Ch(s, e) = Dot THEN e + 1 ELSE e
      rest == LabelsFrom(s, next)
  IN IF Ch(s, i) = 0 THEN <<0>>
     ELSE IF e = i \/ e - i > LabelMax \/ rest = <<>> THEN <<>>
     ELSE <<e - i>> \o Part(s, i, e) \o rest

RECURSIVE DnsSkip(_, _, _)
\* dns_skip: the position behind the name at `at`, -1 if the message ends.
DnsSkip(m, rn, at) ==
  IF at >= rn THEN -1
  ELSE IF Ch(m, at) = 0 THEN at + 1
  ELSE IF Ch(m, at) >= 192 THEN at + 2
  ELSE DnsSkip(m, rn, at + Ch(m, at) + 1)

Word16(m, i) == Ch(m, i) * 256 + Ch(m, i + 1)
\* There is a whole record header at `at`.
FitsAnswer(at, rn) == at >= 0 /\ at + 10 <= rn
RECURSIVE AnswersFrom(_, _, _, _)
\* The loop over the answers: the first address, and how far into the message
\* it looked (history).
AnswersFrom(m, rn, at, an) ==
  LET n == DnsSkip(m, rn, at)
      type == Word16(m, n)
      rdlen == Word16(m, n + 8)
      d == n + 10
      found == type = 1 /\ rdlen = 4 /\ d + 4 <= rn
      rest == AnswersFrom(m, rn, d + rdlen, an - 1)
  IN IF an = 0 \/ at + 10 > rn \/ ~FitsAnswer(n, rn) THEN [ip |-> <<>>, seen |-> 0]
     ELSE IF found THEN [ip |-> Part(m, d, d + 4), seen |-> d + 4]
     ELSE [rest EXCEPT !.seen = IF @ > d THEN @ ELSE d]
\* dns_query's reading of an answer of rn bytes with an answers.
DnsParse(m, rn, an) ==
  LET at == DnsSkip(m, rn, 12) IN
  IF rn < 12 \/ at < 0 THEN [ip |-> <<>>, seen |-> 0] ELSE AnswersFrom(m, rn, at + 4, an)
DnsWord == <<Space, 100, 110, 115, Space>>
ServerIn(st) ==
  LET d == Strstr(st, DnsWord)
      ip == QuadAt(st, d + Len(DnsWord), <<>>).ip
  IN IF d = NoPtr \/ ip = <<0, 0, 0, 0>> THEN <<>> ELSE ip
RECURSIVE DnsServer(_, _)
\* dns_server: the first interface whose status names a server; <<>> if none.
DnsServer(ifs, i) ==
  IF i > Len(ifs) THEN <<>> ELSE IF ServerIn(ifs[i]) # <<>> THEN ServerIn(ifs[i]) ELSE DnsServer(ifs, i + 1)
-----------------------------------------------------------------------------
(* getaddrinfo.                                                              *)

NULL == <<NoPtr>>
Http == <<104, 116, 116, 112>>
ServicePort(s) ==
  CASE s = Http -> 80 [] s = Append(Http, 115) -> 443
    [] s = <<100, 111, 109, 97, 105, 110>> -> 53 [] s = <<116, 101, 108, 110, 101, 116>> -> 23 [] OTHER -> -1
Localhost == <<108, 111, 99, 97, 108, 104, 111, 115, 116>>
Loopback == <<127, 0, 0, 1>>
\* The port of a service: a number, or one of four names; -1 if neither.
PortOf(service) ==
  LET r == Strtoull(service, 10)
      v == Signed(r.v)
  IN IF service = NULL THEN 0 ELSE IF r.end = Len(service) /\ v \in 0 .. PortMax THEN v ELSE ServicePort(service)
Fails(e, asked) == [err |-> e, ip |-> <<>>, port |-> 0, type |-> "none", proto |-> "none", asked |-> asked]
\* getaddrinfo with hints q; `answer` is what dns_query finds, <<>> if nothing,
\* and `asked` says whether it was called.
Getaddrinfo(q, answer) ==
  LET quad == InetAton(q.node)
      asks == q.node # NULL /\ quad = <<>> /\ q.node # Localhost /\ ~q.numeric
      type == IF q.type = "any" THEN "stream" ELSE q.type
      ip == CASE q.node = NULL -> IF q.passive THEN <<0, 0, 0, 0>> ELSE Loopback
              [] q.node # NULL /\ quad # <<>> -> quad
              [] q.node = Localhost -> Loopback
              [] OTHER -> IF asks THEN answer ELSE <<>>
  IN IF q.family \notin {"any", "inet"} THEN Fails("family", FALSE)
     ELSE IF PortOf(q.service) = -1 THEN Fails("service", FALSE)
     ELSE IF ip = <<>> THEN Fails("noname", asks)
     ELSE IF ~q.heap THEN Fails("memory", asks)
     ELSE [err |-> "none", ip |-> ip, port |-> PortOf(q.service), type |-> type,
           proto |-> IF type = "dgram" THEN "udp" ELSE "tcp", asked |-> asks]
\* gethostbyname: no service, no hints.
Gethostbyname(name, answer) ==
  Getaddrinfo([node |-> name, service |-> NULL, family |-> "any", type |-> "any", passive |-> FALSE,
               numeric |-> FALSE, heap |-> TRUE], answer)
=============================================================================
