------------------------------- MODULE Socket -------------------------------
(****************************************************************************)
(* BSD sockets over /net: the C library's rc_socket.c with its part of the   *)
(* table of file descriptors, ipd's conversations and parked reads behind    *)
(* it, and the network as far as they can see it.  A call to ipd is one      *)
(* step: the caller sleeps meanwhile, and ipd serves one request at a time.  *)
(* A read that finds nothing is parked: ipd answers it when there is         *)
(* something, or with "retry" after a while, and the library asks again.     *)
(****************************************************************************)
EXTENDS Integers, Sequences, FiniteSets

CONSTANTS
  Proc,      \* processes; the first starts alone, the others are forked
  First,
  NConv,     \* CONV_MAX
  NFd,       \* file descriptors of a process
  Port,      \* ports that programs bind
  NPend,     \* PEND_MAX
  AcceptQ,   \* ACCEPT_Q
  Buf,       \* bytes in a buffer of a connection; datagrams in a queue
  Polls,     \* how often connect looks at the status
  Attempts,  \* queries that dns_query sends
  Name,      \* host names
  Programs,  \* kinds of programs: which calls they make
  MaxOps     \* calls in a behaviour

ASSUME ConstantsOK ==
  /\ First \in Proc /\ 0 \notin Proc /\ 0 \notin Port
  /\ {NConv, NFd, NPend, AcceptQ, Buf, Polls, Attempts, MaxOps} \subseteq Nat /\ NFd > 0

VARIABLES
  conv,     \* ipd's conversations
  proc,     \* proc[p]: descriptors, the call p is in, and what its last one gave
  eph,      \* g_next_port, counted from the first ephemeral port
  queries,  \* DNS queries that the server has got
  ops,      \* calls so far
  uses,     \* the calls that the programs make
  strayed   \* a call has reached a later use of its conversation's number (history)

vars == <<conv, proc, eph, queries, ops, uses, strayed>>

Conv == 0 .. NConv - 1
Fd == 1 .. NFd
Closed == [kind |-> "free"]
Idle == [fn |-> "none"]

\* `up` (was established), `handed` (was given to a program) and `gen` (which
\* use of the number this is) are history.
Blank ==
  [st |-> "free", proto |-> "tcp", owner |-> 0, lport |-> 0, peer |-> "none", headers |-> FALSE, q |-> <<>>,
   tcb |-> "none", aq |-> <<>>, slen |-> 0, wfin |-> FALSE, fin |-> FALSE,
   up |-> FALSE, handed |-> FALSE, gen |-> 0]

Init ==
  /\ conv = [i \in Conv |-> Blank]
  /\ proc = [p \in Proc |-> [live |-> p = First, fd |-> [f \in Fd |-> Closed], pc |-> Idle, ret |-> Idle]]
  /\ eph = 0
  /\ queries = {}
  /\ ops = 0
  /\ uses \in Programs
  /\ strayed = FALSE
-----------------------------------------------------------------------------
(* ipd: conversations.                                                       *)

FreeConvs == {i \in Conv : conv[i].st = "free"}
LowestFree == CHOOSE i \in FreeConvs : \A j \in FreeConvs : i <= j

\* conv_alloc.
ConvAlloc(c, proto, p) ==
  [c EXCEPT !.st = "open", !.proto = proto, !.owner = p, !.lport = 0, !.peer = "none", !.headers = FALSE,
            !.q = <<>>, !.tcb = "none", !.up = FALSE, !.handed = FALSE, !.gen = @ + 1]

\* tcb_alloc: a clean control block in state s.  There may be none: a block of a
\* connection that was hung up is in use until its close is over.
TcbAlloc(c, s) ==
  [c EXCEPT !.tcb = s, !.q = <<>>, !.aq = <<>>, !.slen = 0, !.wfin = FALSE, !.fin = FALSE]
TcbFree(c) == [c EXCEPT !.tcb = "none", !.st = IF @ = "reset" THEN @ ELSE "closed"]
\* tcb_finish: bytes that nobody has read survive.
TcbFinish(c) == IF c.q # <<>> THEN [c EXCEPT !.tcb = "closed"] ELSE TcbFree(c)
\* tcp_died.
Died(c) == [c EXCEPT !.st = "reset", !.tcb = "none"]

\* tcp_output, as far as our FIN goes: it leaves once our bytes have gone, which
\* the peer's window may put off.  They need not be acknowledged; nothing looks
\* at how many are left after that.
Output(c, gone) ==
  IF ~c.wfin \/ (c.slen > 0 /\ ~gone) THEN c
  ELSE [c EXCEPT !.tcb = CASE @ = "est" -> "fin" [] @ = "cwait" -> "last" [] OTHER -> @]

PortInUse(proto, n) == \E i \in Conv : conv[i].st # "free" /\ conv[i].proto = proto /\ conv[i].lport = n

\* net_parse: a number names a conversation only while it is in use, and by
\* the protocol of the path.
Valid(x) == conv[x.conv].st # "free" /\ (conv[x.conv].proto = "tcp") = x.tcp
\* Nothing tells ipd which use of the number is meant: one that was hung up by
\* the holder of a copy and taken again is reached by all that still have it.
Reaches(x) == strayed' = (strayed \/ (Valid(x) /\ x.gen # conv[x.conv].gen))

Retry == [k |-> "retry"]
Eof == [k |-> "eof"]
Err == [k |-> "err"]
Data(d) == [k |-> "data", d |-> d]

\* Mutant of TcpRead: the peer's FIN is not looked at.
TcpReadOn(c) ==
  CASE c.tcb = "none" -> [r |-> IF c.st = "closed" THEN Eof ELSE Err, c |-> c]
    [] c.tcb # "none" /\ c.q # <<>> -> [r |-> Data(Head(c.q)), c |-> [c EXCEPT !.q = Tail(@)]]
    [] c.tcb = "closed" /\ c.q = <<>> -> [r |-> Eof, c |-> TcbFree(c)]
    [] OTHER -> [r |-> Retry, c |-> c]
\* tcp_read: what a read of `data` gives now, and the conversation after it.
TcpRead(c) ==
  CASE c.tcb = "none" -> [r |-> IF c.st = "closed" THEN Eof ELSE Err, c |-> c]
    [] c.tcb # "none" /\ c.q # <<>> -> [r |-> Data(Head(c.q)), c |-> [c EXCEPT !.q = Tail(@)]]
    [] c.tcb = "closed" /\ c.q = <<>> -> [r |-> Eof, c |-> TcbFree(c)]
    [] c.tcb \notin {"none", "closed"} /\ c.q = <<>> /\ c.fin -> [r |-> Eof, c |-> c]
    [] OTHER -> [r |-> Retry, c |-> c]
\* conv_read_now.
ReadNow(c) ==
  IF c.proto = "tcp" THEN TcpRead(c)
  ELSE IF c.q = <<>> THEN [r |-> Retry, c |-> c]
  ELSE [r |-> Data(Head(c.q)), c |-> [c EXCEPT !.q = Tail(@)]]

\* The entries of s at the places in S, in order.
Entries(s, S) ==
  [n \in 1 .. Cardinality(S) |-> s[CHOOSE k \in S : Cardinality({j \in S : j <= k}) = n]]
\* tcp_accept of listener l for process p: the first connection that is up is
\* handed out; the dead ones before it go.
Ready(i) == conv[i].st # "free" /\ conv[i].tcb \notin {"none", "synrcvd"}
Dead(i) == conv[i].st = "free" \/ conv[i].tcb = "none"
\* Mutant of AcceptNow: the connection stays in the queue.
AcceptNowKeeps(l, p) ==
  LET aq == conv[l].aq
      up == {k \in DOMAIN aq : Ready(aq[k])}
      k == CHOOSE j \in up : \A i \in up : j <= i
  IN CASE conv[l].tcb # "listen" -> [r |-> Err, C |-> conv]
       [] conv[l].tcb = "listen" /\ up = {} ->
            [r |-> Retry, C |-> [conv EXCEPT ![l].aq = Entries(aq, {j \in DOMAIN aq : ~Dead(aq[j])})]]
       [] OTHER -> [r |-> [k |-> "conn", conv |-> aq[k]],
                    C |-> [conv EXCEPT ![aq[k]].owner = p, ![aq[k]].handed = TRUE]]
AcceptNow(l, p) ==
  LET aq == conv[l].aq
      up == {k \in DOMAIN aq : Ready(aq[k])}
      k == CHOOSE j \in up : \A i \in up : j <= i
      rest == {j \in DOMAIN aq : j > k \/ (j < k /\ ~Dead(aq[j]))}
  IN CASE conv[l].tcb # "listen" -> [r |-> Err, C |-> conv]
       [] conv[l].tcb = "listen" /\ up = {} ->
            [r |-> Retry, C |-> [conv EXCEPT ![l].aq = Entries(aq, {j \in DOMAIN aq : ~Dead(aq[j])})]]
       [] OTHER -> [r |-> [k |-> "conn", conv |-> aq[k]],
                    C |-> [conv EXCEPT ![l].aq = Entries(aq, rest), ![aq[k]].owner = p, ![aq[k]].handed = TRUE]]
-----------------------------------------------------------------------------
(* The library: descriptors, and what a call makes of ipd's answer.          *)

Calls(p) == proc[p].live /\ proc[p].pc.fn = "none" /\ ops < MaxOps /\ ops' = ops + 1
Becomes(p, x) == proc' = [proc EXCEPT ![p] = x]
Returns(x, r) == [x EXCEPT !.pc = Idle, !.ret = r]
Enters(x, pc) == [x EXCEPT !.pc = pc, !.ret = Idle]
IsSocket(p, f) == proc[p].fd[f].kind = "net"

\* __rc_fd_new_net: the lowest free descriptor, or hang the conversation up.
Opened(x, i, gen, tcp, then) ==
  LET free == {f \in Fd : x.fd[f].kind = "free"}
      f == CHOOSE g \in free : \A h \in free : g <= h
  IN IF free = {} THEN Enters(x, [fn |-> "hangup", conv |-> i, tcp |-> tcp, gen |-> gen])
     ELSE [x EXCEPT !.fd[f] = [kind |-> "net", conv |-> i, tcp |-> tcp, gen |-> gen, headers |-> FALSE, port |-> 0, copied |-> FALSE],
                    !.pc = IF then.fn = "dns" THEN [then EXCEPT !.f = f, !.conv = i, !.gen = gen] ELSE Idle,
                    !.ret = IF then.fn = "dns" THEN Idle ELSE [fn |-> "fd", f |-> f]]

\* dns_query after a read: an answer to this process's id is looked at, an
\* error in it ends the search; anything else uses up one attempt.
DnsAnswer(x, p, r) ==
  LET mine == r.k = "data" /\ r.d.who = p
      found == mine /\ r.d.kind = "addr"
      stop == found \/ (mine /\ r.d.kind = "error") \/ x.pc.n + 1 = Attempts
      got == IF found THEN r.d.name ELSE "none"
  IN IF stop THEN [x EXCEPT !.pc.step = "close", !.pc.got = got]
     ELSE [x EXCEPT !.pc.step = "write", !.pc.n = @ + 1]

\* Process record x of p gets answer r to the read it is in.
Answer(x, p, r) ==
  CASE x.pc.fn = "dns" -> DnsAnswer([x EXCEPT !.pc.parked = FALSE], p, r)
    [] x.pc.fn # "dns" /\ r.k = "retry" -> [x EXCEPT !.pc.parked = FALSE]
    [] x.pc.fn = "recv" /\ r.k # "retry" -> Returns(x, [fn |-> "recv", k |-> r.k])
    [] x.pc.fn = "accept" /\ r.k = "conn" -> Opened(x, r.conv, conv[r.conv].gen, TRUE, Idle)
    [] x.pc.fn = "accept" /\ r.k \notin {"conn", "retry"} -> Returns(x, [fn |-> "accept", k |-> "EINVAL"])

Waits(x) == x.pc.fn \in {"recv", "accept"} \/ (x.pc.fn = "dns" /\ x.pc.step = "read")
Parked(x) == x.live /\ Waits(x) /\ x.pc.parked
\* pend_drop_conv: reads parked on the conversations in S are answered.
DropPends(S) ==
  [p \in Proc |-> IF Parked(proc[p]) /\ proc[p].pc.conv \in S
                  THEN Answer(proc[p], p, IF proc[p].pc.fn = "accept" THEN Err ELSE Eof) ELSE proc[p]]
\* conv_free of the conversations in S.
Freed(S) == [i \in Conv |-> IF i \in S THEN [conv[i] EXCEPT !.st = "free", !.tcb = "none"] ELSE conv[i]]

\* ctl "hangup" by p of what d names; p goes on as x.
Hangup(p, d, x) ==
  LET S == IF Valid(d) THEN {d.conv} ELSE {} IN conv' = Freed(S) /\ proc' = [DropPends(S) EXCEPT ![p] = x]
-----------------------------------------------------------------------------
(* The calls.                                                                *)

Socket(p, proto) ==
  /\ Calls(p)
  /\ IF FreeConvs = {}
     THEN Becomes(p, Returns(proc[p], [fn |-> "socket", k |-> "ENFILE"])) /\ UNCHANGED conv
     ELSE /\ Becomes(p, Opened(proc[p], LowestFree, conv[LowestFree].gen + 1, proto = "tcp", Idle))
          /\ conv' = [conv EXCEPT ![LowestFree] = [ConvAlloc(@, proto, p) EXCEPT !.handed = TRUE]]
  /\ UNCHANGED <<eph, queries>>

\* Mutant of NoDescriptor: the conversation is left as it is.
NoDescriptorLeaves(p) ==
  /\ proc[p].live /\ proc[p].pc.fn = "hangup"
  /\ Becomes(p, Returns(proc[p], [fn |-> "fd", k |-> "EMFILE"]))
  /\ UNCHANGED <<conv, eph, queries, ops>>
\* socket and accept without a descriptor to give.
NoDescriptor(p) ==
  /\ proc[p].live /\ proc[p].pc.fn = "hangup"
  /\ Hangup(p, proc[p].pc, Returns(proc[p], [fn |-> "fd", k |-> "EMFILE"]))
  /\ UNCHANGED <<eph, queries, ops>>

\* bind: the port is noted in the descriptor before ipd is asked.
Bind(p, f, n) ==
  /\ Calls(p) /\ IsSocket(p, f)
  /\ LET d == proc[p].fd[f]
         c == conv[d.conv]
         ok == Valid(d) /\ (~PortInUse(c.proto, n) \/ c.lport = n)
     IN /\ Becomes(p, [proc[p] EXCEPT !.fd[f].port = n, !.ret = Idle])
        /\ conv' = IF ok THEN [conv EXCEPT ![d.conv].lport = n] ELSE conv
  /\ UNCHANGED <<eph, queries>>

\* listen: "announce" of the port that bind noted, which it keeps without a
\* control block too.
Listen(p, f) ==
  /\ Calls(p) /\ IsSocket(p, f)
  /\ LET d == proc[p].fd[f]
         c == conv[d.conv]
         ok == d.port # 0 /\ Valid(d) /\ (~PortInUse(c.proto, d.port) \/ c.lport = d.port)
         ann == [c EXCEPT !.lport = d.port, !.st = "announced"]
     IN /\ Becomes(p, [proc[p] EXCEPT !.ret = Idle])
        /\ \E block \in BOOLEAN :
             conv' = CASE ok /\ d.tcp /\ c.tcb = "none" /\ block -> [conv EXCEPT ![d.conv] = TcbAlloc(ann, "listen")]
                       [] ok /\ ~(d.tcp /\ c.tcb = "none" /\ block) -> [conv EXCEPT ![d.conv] = ann]
                       [] OTHER -> conv
  /\ UNCHANGED <<eph, queries>>

\* conv_ctl "connect": the local port is picked here if there is none; a
\* connection that has a control block is refused another, one that gets none
\* has the port and the peer nevertheless.
CtlConnect(c, to, block) ==
  LET named == [c EXCEPT !.peer = to, !.lport = IF @ = 0 THEN 1000 + eph ELSE @]
  IN IF c.proto = "udp" THEN [named EXCEPT !.st = "connected"]
     ELSE IF c.tcb # "none" \/ ~block THEN named
     ELSE [TcbAlloc(named, "synsent") EXCEPT !.st = "connected"]
\* Mutant of PortPicked: the same port every time.
PortPickedSame(c) == eph' = eph
\* ephemeral_port: each pick moves on.
PortPicked(c) == eph' = IF c.lport = 0 THEN eph + 1 ELSE eph

Connect(p, f) ==
  /\ Calls(p) /\ IsSocket(p, f)
  /\ \E block \in BOOLEAN :
     LET d == proc[p].fd[f]
         c == conv[d.conv]
         ok == Valid(d) /\ (d.tcp => c.tcb = "none" /\ block)
     IN /\ IF Valid(d) THEN conv' = [conv EXCEPT ![d.conv] = CtlConnect(c, "host", block)] /\ PortPicked(c)
           ELSE UNCHANGED <<conv, eph>>
        /\ Becomes(p, IF ok /\ d.tcp THEN Enters(proc[p], [fn |-> "connect", conv |-> d.conv, tcp |-> TRUE, gen |-> d.gen, n |-> 0])
                      ELSE Returns(proc[p], [fn |-> "connect", k |-> IF ok THEN "ok" ELSE "ECONNREFUSED", dial |-> FALSE]))
  /\ UNCHANGED queries

\* conv_state_name by its first letters, which are all that connect looks at.
StateName(c) ==
  CASE c.tcb = "est" -> "E"
    [] c.tcb \in {"cwait", "closed"} \/ (c.tcb = "none" /\ c.st = "closed") -> "Cl"
    [] c.tcb = "none" /\ c.st = "reset" -> "R"
    [] OTHER -> "other"

\* One look at the status; a conversation that is gone ends the wait as a
\* timeout does.
ConnectPoll(p) ==
  /\ proc[p].live /\ proc[p].pc.fn = "connect"
  /\ LET d == proc[p].pc
         c == conv[d.conv]
         s == StateName(c)
         k == CASE ~Valid(d) -> "ETIMEDOUT"
                [] Valid(d) /\ s = "E" -> "ok"
                [] Valid(d) /\ s \in {"R", "Cl"} -> "ECONNREFUSED"
                [] Valid(d) /\ s = "other" /\ d.n + 1 = Polls -> "ETIMEDOUT"
                [] OTHER -> "again"
     IN Becomes(p, IF k = "again" THEN [proc[p] EXCEPT !.pc.n = @ + 1]
                   ELSE Returns(proc[p], [fn |-> "connect", k |-> k, dial |-> TRUE, up |-> c.up]))
  /\ UNCHANGED <<conv, eph, queries, ops>>

Accept(p, f) ==
  /\ Calls(p) /\ IsSocket(p, f)
  /\ LET d == proc[p].fd[f] IN
     Becomes(p, Enters(proc[p], [fn |-> "accept", conv |-> d.conv, tcp |-> d.tcp, gen |-> d.gen, parked |-> FALSE]))
  /\ UNCHANGED <<conv, eph, queries>>

\* ensure_headers: ipd first, then the descriptor's flag.
EnsureHeaders(d) == IF d.headers \/ ~Valid(d) THEN conv ELSE [conv EXCEPT ![d.conv].headers = TRUE]
WithHeaders(p, f) == [proc[p] EXCEPT !.fd[f].headers = @ \/ Valid(proc[p].fd[f])]

\* recv, and recvfrom (from), which puts a datagram socket into headers mode.
Recv(p, f, from) ==
  /\ Calls(p) /\ IsSocket(p, f)
  /\ LET d == proc[p].fd[f]
         pc == [fn |-> "recv", conv |-> d.conv, tcp |-> d.tcp, gen |-> d.gen, parked |-> FALSE]
         hdr == from /\ ~d.tcp
     IN /\ conv' = IF hdr THEN EnsureHeaders(d) ELSE conv
        /\ Becomes(p, IF hdr /\ ~d.headers /\ ~Valid(d) THEN Returns(proc[p], [fn |-> "recv", k |-> "EINVAL"])
                      ELSE Enters(IF hdr THEN WithHeaders(p, f) ELSE proc[p], pc))
  /\ UNCHANGED <<eph, queries>>

\* The request for data or a connection, the first or one more: answered, or
\* parked while the table has room for it.
Ask(p) ==
  /\ proc[p].live /\ Waits(proc[p]) /\ ~proc[p].pc.parked
  /\ LET x == proc[p]
         d == x.pc
         read == ReadNow(conv[d.conv])
         acc == AcceptNow(d.conv, p)
         r == IF ~Valid(d) \/ (d.fn = "accept" /\ ~d.tcp) THEN Err ELSE IF d.fn = "accept" THEN acc.r ELSE read.r
         room == Cardinality({q \in Proc : Parked(proc[q])}) < NPend
     IN /\ conv' = CASE ~Valid(d) \/ (d.fn = "accept" /\ ~d.tcp) -> conv
                     [] Valid(d) /\ d.fn = "accept" /\ d.tcp -> acc.C
                     [] OTHER -> [conv EXCEPT ![d.conv] = read.c]
        /\ Becomes(p, IF r.k = "retry" /\ room THEN [x EXCEPT !.pc.parked = TRUE] ELSE Answer(x, p, r))
  /\ UNCHANGED <<eph, queries, ops>>

\* pend_service for p's parked read: there is something, or its time is up.
PendService(p) ==
  /\ Parked(proc[p])
  /\ LET d == proc[p].pc
         read == ReadNow(conv[d.conv])
         acc == AcceptNow(d.conv, p)
     IN /\ conv' = IF d.fn = "accept" THEN acc.C ELSE [conv EXCEPT ![d.conv] = read.c]
        /\ Becomes(p, Answer(proc[p], p, IF d.fn = "accept" THEN acc.r ELSE read.r))
  /\ UNCHANGED <<eph, queries, ops>>

\* send of n bytes, and sendto (to), with the peer's address in front.
Send(p, f, n, to) ==
  /\ Calls(p) /\ IsSocket(p, f)
  /\ LET d == proc[p].fd[f]
         pc == [fn |-> "send", conv |-> d.conv, tcp |-> d.tcp, gen |-> d.gen, left |-> n, done |-> 0, took |-> 0]
         hdr == to /\ ~d.tcp
     IN /\ conv' = IF hdr THEN EnsureHeaders(d) ELSE conv
        /\ Becomes(p, IF hdr /\ ~d.headers /\ ~Valid(d) THEN Returns(proc[p], [fn |-> "send", n |-> -1, took |-> 0])
                      ELSE Enters(IF hdr THEN WithHeaders(p, f) ELSE proc[p], pc))
  /\ UNCHANGED <<eph, queries>>

\* tcp_write or udp_output of n bytes: how many ipd takes, -1 for an error.
Taken(d, n) ==
  LET c == conv[d.conv] IN
  CASE ~Valid(d) -> -1
    [] Valid(d) /\ d.tcp /\ (c.wfin \/ c.tcb \notin {"est", "cwait", "synsent", "synrcvd"}) -> -1
    [] Valid(d) /\ d.tcp /\ ~c.wfin /\ c.tcb \in {"est", "cwait", "synsent", "synrcvd"} ->
         IF n < Buf - c.slen THEN n ELSE Buf - c.slen
    [] OTHER -> IF c.headers \/ c.st = "connected" THEN n ELSE -1

\* What net_send is to return after a write that gave w.
Sent(d, w) == IF w < 0 THEN (IF d.done > 0 THEN d.done ELSE -1) ELSE d.done + w

\* net_send: one write.  A full buffer (0) is tried again after a sleep.
SendStep(p) ==
  /\ proc[p].live /\ proc[p].pc.fn = "send"
  /\ LET d == proc[p].pc
         w == Taken(d, d.left)
         over == w < 0 \/ w = d.left \/ ~d.tcp
         c == conv[d.conv]
         took == d.took + (IF w > 0 THEN w ELSE 0)
     IN /\ conv' = CASE w > 0 /\ d.tcp -> [conv EXCEPT ![d.conv].slen = @ + w]
                     [] w > 0 /\ ~d.tcp /\ c.lport = 0 -> [conv EXCEPT ![d.conv].lport = 1000 + eph]
                     [] OTHER -> conv
        /\ eph' = IF w > 0 /\ ~d.tcp /\ c.lport = 0 THEN eph + 1 ELSE eph
        /\ Becomes(p, IF over THEN Returns(proc[p], [fn |-> "send", n |-> Sent(d, w), took |-> took])
                      ELSE [proc[p] EXCEPT !.pc.left = @ - w, !.pc.done = @ + w, !.pc.took = took])
  /\ UNCHANGED <<queries, ops>>

\* shutdown(SHUT_WR): ctl "close".
Shutdown(p, f) ==
  /\ Calls(p) /\ IsSocket(p, f)
  /\ \E gone \in BOOLEAN : LET d == proc[p].fd[f] IN
     conv' = IF d.tcp /\ Valid(d) /\ conv[d.conv].tcb # "none"
             THEN [conv EXCEPT ![d.conv] = Output([@ EXCEPT !.wfin = TRUE], gone)] ELSE conv
  /\ Becomes(p, [proc[p] EXCEPT !.ret = Idle])
  /\ UNCHANGED <<eph, queries>>

\* close: ctl "hangup", whoever else has a descriptor for the conversation.
CloseFd(p, f, x) == Hangup(p, proc[p].fd[f], [x EXCEPT !.fd[f] = Closed])
Close(p, f) ==
  /\ Calls(p) /\ IsSocket(p, f)
  /\ CloseFd(p, f, [proc[p] EXCEPT !.ret = Idle])
  /\ UNCHANGED <<eph, queries>>

\* dup: the entry is copied, flags and port too.
Dup(p, f) ==
  LET free == {g \in Fd : proc[p].fd[g].kind = "free"}
      g == CHOOSE h \in free : \A k \in free : h <= k
      d == [proc[p].fd[f] EXCEPT !.copied = TRUE]
  IN /\ Calls(p) /\ IsSocket(p, f) /\ free # {}
     /\ Becomes(p, [proc[p] EXCEPT !.fd[f] = d, !.fd[g] = d, !.ret = Idle])
     /\ UNCHANGED <<conv, eph, queries>>

\* fork: the child has the table as it is.
Fork(p, q) ==
  LET fd == [f \in Fd |-> IF IsSocket(p, f) THEN [proc[p].fd[f] EXCEPT !.copied = TRUE] ELSE Closed]
  IN /\ Calls(p) /\ ~proc[q].live /\ proc[q].ret.fn = "none"
     /\ proc' = [proc EXCEPT ![p].fd = fd, ![p].ret = Idle, ![q] = [@ EXCEPT !.live = TRUE, !.fd = fd]]
     /\ UNCHANGED <<conv, eph, queries>>

Exit(p) ==
  /\ Calls(p)
  /\ Becomes(p, [live |-> FALSE, fd |-> [f \in Fd |-> Closed], pc |-> Idle, ret |-> [fn |-> "exit"]])
  /\ UNCHANGED <<conv, eph, queries>>

\* conv_reap_dead_owners.
Reap ==
  LET S == {i \in Conv : conv[i].st # "free" /\ ~proc[conv[i].owner].live} IN
  /\ S # {}
  /\ conv' = Freed(S) /\ proc' = DropPends(S)
  /\ UNCHANGED <<eph, queries, ops>>

\* dns_query: a datagram socket of its own, connected to the name server.
DnsQuery(p, name) ==
  LET pc == [fn |-> "dns", name |-> name, f |-> 0, conv |-> 0, tcp |-> FALSE, gen |-> 0, step |-> "connect", n |-> 0,
             parked |-> FALSE, got |-> "none"]
  IN /\ Calls(p)
     /\ IF FreeConvs = {}
        THEN Becomes(p, Returns(proc[p], [fn |-> "dns", asked |-> name, got |-> "none"])) /\ UNCHANGED conv
        ELSE /\ Becomes(p, Opened(Enters(proc[p], pc), LowestFree, conv[LowestFree].gen + 1, FALSE, pc))
             /\ conv' = [conv EXCEPT ![LowestFree] = [ConvAlloc(@, "udp", p) EXCEPT !.handed = TRUE]]
     /\ UNCHANGED <<eph, queries>>
DnsConnect(p) ==
  LET d == proc[p].pc IN
  /\ proc[p].live /\ d.fn = "dns" /\ d.step = "connect"
  /\ IF Valid(d) THEN conv' = [conv EXCEPT ![d.conv] = CtlConnect(@, "dns", TRUE)] /\ PortPicked(conv[d.conv])
     ELSE UNCHANGED <<conv, eph>>
  /\ Becomes(p, [proc[p] EXCEPT !.pc.step = IF Valid(d) THEN "write" ELSE "close"])
  /\ UNCHANGED <<queries, ops>>
DnsWrite(p) ==
  LET d == proc[p].pc IN
  /\ proc[p].live /\ d.fn = "dns" /\ d.step = "write"
  /\ queries' = IF Taken(d, 1) < 0 THEN queries
                ELSE queries \cup {[port |-> conv[d.conv].lport, who |-> p, name |-> d.name]}
  /\ Becomes(p, [proc[p] EXCEPT !.pc.step = "read"])
  /\ UNCHANGED <<conv, eph, ops>>
DnsClose(p) ==
  LET d == proc[p].pc IN
  /\ proc[p].live /\ d.fn = "dns" /\ d.step = "close"
  /\ CloseFd(p, d.f, Returns(proc[p], [fn |-> "dns", asked |-> d.name, got |-> d.got]))
  /\ UNCHANGED <<eph, queries, ops>>
-----------------------------------------------------------------------------
(* The network.                                                              *)

Changes(i, c) == conv' = [conv EXCEPT ![i] = c] /\ UNCHANGED <<proc, eph, queries, ops>>

\* tcp_input of a SYN to a listener: the connection gets a conversation of the
\* listener's owner and waits in the accept queue.  A SYN that finds no
\* conversation or no control block leaves nothing behind.
PeerConnects(l) ==
  /\ conv[l].tcb = "listen" /\ Len(conv[l].aq) < AcceptQ /\ FreeConvs # {}
  /\ conv' = [conv EXCEPT
       ![LowestFree] = [TcbAlloc(ConvAlloc(@, "tcp", conv[l].owner), "synrcvd") EXCEPT
                          !.st = "connected", !.peer = "host", !.lport = conv[l].lport],
       ![l].aq = Append(@, LowestFree)]
  /\ UNCHANGED <<proc, eph, queries, ops>>
PeerOpens(i) ==
  /\ conv[i].tcb \in {"synsent", "synrcvd"}
  /\ \E gone \in BOOLEAN : Changes(i, Output([conv[i] EXCEPT !.tcb = "est", !.up = TRUE], gone))
\* One of the bytes of a connection.
Byte == [who |-> 0, name |-> "none", kind |-> "byte"]
PeerSends(i) ==
  /\ conv[i].tcb \in {"est", "fin"} /\ Len(conv[i].q) < Buf
  /\ Changes(i, [conv[i] EXCEPT !.q = Append(@, Byte)])
PeerAcks(i) ==
  /\ conv[i].tcb \in {"est", "cwait"} /\ conv[i].slen > 0
  /\ \E n \in 0 .. conv[i].slen, gone \in BOOLEAN : Changes(i, Output([conv[i] EXCEPT !.slen = n], gone))
PeerCloses(i) ==
  /\ conv[i].tcb \in {"est", "fin"}
  /\ Changes(i, [conv[i] EXCEPT !.fin = TRUE, !.tcb = IF @ = "est" THEN "cwait" ELSE "twait"])
\* A reset, or tcp_timers giving up.
PeerResets(i) ==
  /\ conv[i].tcb \in {"synsent", "synrcvd", "est", "cwait", "fin", "last", "twait"}
  /\ Changes(i, Died(conv[i]))
\* Our FIN is acknowledged, TIME_WAIT is over, or tcp_timers finds a finished
\* block drained.
Finishes(i) ==
  /\ conv[i].tcb \in {"last", "twait"} \/ (conv[i].tcb = "closed" /\ conv[i].q = <<>>)
  /\ Changes(i, TcbFinish(conv[i]))

\* udp_input: a conversation connected to just this peer, or one that is bound.
UdpMatch(port, from) ==
  LET at == {i \in Conv : conv[i].st # "free" /\ conv[i].proto = "udp" /\ conv[i].lport = port}
      peer == {i \in at : conv[i].st = "connected" /\ conv[i].peer = from}
  IN IF peer # {} THEN peer ELSE {i \in at : conv[i].st \in {"announced", "open"}}
UdpInput(port, from, d) ==
  \E i \in UdpMatch(port, from) :
    /\ \A j \in UdpMatch(port, from) : i <= j
    /\ Len(conv[i].q) < Buf
    /\ Changes(i, [conv[i] EXCEPT !.q = Append(@, d)])

\* The name server answers a query: late, twice, or never.
DnsReply(m, kind) == UdpInput(m.port, "dns", [who |-> m.who, name |-> m.name, kind |-> kind])
Datagram(port) == UdpInput(port, "host", [who |-> 0, name |-> "none", kind |-> "none"])

Through(p, f) ==
  \/ \E n \in Port : "bind" \in uses /\ Bind(p, f, n)
  \/ "listen" \in uses /\ (Listen(p, f) \/ Accept(p, f))
  \/ "connect" \in uses /\ Connect(p, f)
  \/ "shutdown" \in uses /\ Shutdown(p, f)
  \/ Close(p, f)
  \/ \E b \in IF "from" \in uses THEN BOOLEAN ELSE {FALSE} : (Recv(p, f, b) \/ \E n \in {1, Buf + 1} : Send(p, f, n, b))
Program(p) ==
  \/ \E f \in Fd : IsSocket(p, f) /\ Reaches(proc[p].fd[f]) /\ Through(p, f)
  \/ /\ \/ \E proto \in {"tcp", "udp"} : proto \in uses /\ Socket(p, proto)
        \/ \E f \in Fd : "dup" \in uses /\ Dup(p, f)
        \/ \E q \in Proc : "fork" \in uses /\ Fork(p, q)
        \/ Exit(p)
        \/ \E name \in Name : "dns" \in uses /\ DnsQuery(p, name)
     /\ UNCHANGED strayed
Library(p) ==
  /\ Ask(p) \/ ConnectPoll(p) \/ SendStep(p) \/ NoDescriptor(p) \/ DnsConnect(p) \/ DnsWrite(p) \/ DnsClose(p)
  /\ Reaches(proc[p].pc)
Network ==
  /\ \/ \E i \in Conv :
          \/ PeerConnects(i) \/ PeerOpens(i) \/ PeerSends(i) \/ PeerAcks(i) \/ PeerCloses(i) \/ PeerResets(i)
          \/ Finishes(i)
     \/ \E m \in queries, kind \in {"addr", "error", "noaddr"} : DnsReply(m, kind)
     \/ \E port \in Port \cup {1000} : Datagram(port)
  /\ UNCHANGED strayed

Next ==
  /\ \/ \E p \in Proc : Program(p) \/ Library(p) \/ (PendService(p) /\ Reaches(proc[p].pc))
     \/ Reap /\ UNCHANGED strayed
     \/ Network
  /\ UNCHANGED uses

Spec == Init /\ [][Next]_vars
\* A process is scheduled, and ipd's loop serves every parked read.
FairSpec == Spec /\ \A p \in Proc : WF_vars(Library(p) /\ UNCHANGED uses) /\ WF_vars(PendService(p) /\ Reaches(proc[p].pc) /\ UNCHANGED uses)
-----------------------------------------------------------------------------
(* Properties.                                                               *)

TypeOK ==
  /\ \A i \in Conv : LET c == conv[i] IN
       /\ c.st \in {"free", "open", "connected", "announced", "closed", "reset"} /\ c.proto \in {"tcp", "udp"}
       /\ c.tcb \in {"none", "listen", "synsent", "synrcvd", "est", "cwait", "fin", "last", "twait", "closed"}
       /\ Len(c.q) <= Buf /\ Len(c.aq) <= AcceptQ /\ c.slen \in 0 .. Buf
       /\ c.st # "free" => c.owner \in Proc
       /\ c.proto = "udp" \/ c.st \in {"free", "closed", "reset"} => c.tcb = "none"
  /\ \A p \in Proc, f \in Fd : IsSocket(p, f) => proc[p].fd[f].conv \in Conv
  /\ ops \in 0 .. MaxOps

\* A conversation that was given to a program, by socket or accept, is never
\* left to itself: while its owner lives some descriptor names it, or the call
\* in progress is about to hang it up, which is what happens when there is no
\* descriptor for it.
NoConversationLost ==
  \A i \in Conv : conv[i].st # "free" /\ conv[i].handed /\ proc[conv[i].owner].live =>
    \E p \in Proc :
      \/ \E f \in Fd : IsSocket(p, f) /\ proc[p].fd[f].conv = i
      \/ proc[p].pc.fn = "hangup" /\ proc[p].pc.conv = i

\* Two descriptors name the same use of a conversation's number.
SameUse(d, e) == d.conv = e.conv /\ d.gen = e.gen
\* Every connection is handed out once: two descriptors name one conversation
\* only if one was copied from the other by dup or fork.
OneDescriptor ==
  \A p, q \in Proc, f, g \in Fd :
    <<p, f>> # <<q, g>> /\ IsSocket(p, f) /\ IsSocket(q, g) /\ SameUse(proc[p].fd[f], proc[q].fd[g]) =>
      proc[p].fd[f].copied \/ proc[q].fd[g].copied

\* The library strips a header from what it reads exactly if ipd put one in
\* front: the flag of a descriptor that was never copied agrees with its
\* conversation's mode (ensure_headers, conv_alloc).
HeadersAgree ==
  \A p \in Proc, f \in Fd :
    IsSocket(p, f) /\ ~proc[p].fd[f].copied /\ Valid(proc[p].fd[f])
      /\ proc[p].fd[f].gen = conv[proc[p].fd[f].conv].gen =>
      proc[p].fd[f].headers = conv[proc[p].fd[f].conv].headers

\* send returns the number of bytes that ipd took, over all the writes that it
\* took, and an error only if none were taken (net_send).
SendCounts == \A p \in Proc : LET r == proc[p].ret IN
  r.fn = "send" => r.n = r.took \/ (r.n = -1 /\ r.took = 0)

\* connect succeeds only for a connection that was established.
ConnectIsUp == \A p \in Proc : LET r == proc[p].ret IN r.fn = "connect" /\ r.dial /\ r.k = "ok" => r.up

\* The address that dns_query finds is one for the name asked: answers to an
\* earlier query of the process, which has the same id, do not count.
DnsAnswersQuery == \A p \in Proc : LET r == proc[p].ret IN r.fn = "dns" => r.got \in {"none", r.asked}

\* There is nothing more to come for a read of x.
Over(x) == ~Valid(x) \/ (x.tcp /\ (conv[x.conv].tcb = "none" \/ conv[x.conv].fin))
\* A recv on a connection that has ended, and stays so, returns: the end is seen
\* by a read that was parked, whose wait has timed out, or that found the table
\* full (net_recv, pend_service).
EndIsSeen ==
  \A p \in Proc :
    (proc[p].live /\ proc[p].pc.fn = "recv" /\ Over(proc[p].pc))
      ~> (proc[p].pc.fn # "recv" \/ ~Over(proc[p].pc))

\* The library's descriptors agree with ipd's conversations, which stay in
\* their bounds, until a call strays: a descriptor that was copied may be left
\* with a number that ipd has given to somebody else (rc_socket.c, ipd_conv.c3).
TablesAgree == TypeOK /\ (strayed \/ (OneDescriptor /\ HeadersAgree))

\* What a socket call reports is what happened: to the bytes of a send, to the
\* connection of a connect and, until a call strays, to the name of a query.
ResultsAreTrue == SendCounts /\ ConnectIsUp /\ (strayed \/ DnsAnswersQuery)
=============================================================================
