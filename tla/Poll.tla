-------------------------------- MODULE Poll --------------------------------
(****************************************************************************)
(* poll of rc_posix.c over SYS_AWAIT: a look at the descriptors, at most    *)
(* one sleep, and a second look.  Only descriptor 0 is ever waited for.     *)
(****************************************************************************)
EXTENDS Integers, Sequences, FiniteSets

\* What is reported of entry p: tab gives the kind of every descriptor.
Revents(p, tab, ready) ==
  IF p.fd < 0 THEN {}
  ELSE IF p.fd \notin DOMAIN tab \/ tab[p.fd] = "free" THEN {"nval"}
  ELSE IF tab[p.fd] \in {"file", "net"} THEN p.ev
  ELSE p.ev \ (IF p.fd = 0 /\ ready THEN {} ELSE {"in"})
WantsStdin(p, tab, ready) == p.fd = 0 /\ tab[0] = "console" /\ "in" \in p.ev /\ ~ready
PollScan(fds, tab, ready) ==
  LET rev == [i \in DOMAIN fds |-> Revents(fds[i], tab, ready)] IN
  [rev |-> rev, count |-> Cardinality({i \in DOMAIN fds : rev[i] # {}}),
   want |-> \E i \in DOMAIN fds : WantsStdin(fds[i], tab, ready)]

\* The timeout of SYS_AWAIT, in ticks: 0 is for ever.
PollTicks(ms, hz) == IF ms = 0 THEN 1 ELSE IF ms > 0 THEN (hz \div 1000) * ms + 1 ELSE 0
\* SYS_AWAIT (external): what can end the sleep.
Wakes(want, ticks) == {"note"} \cup (IF want THEN {"stdin"} ELSE {}) \cup (IF ticks > 0 THEN {"timeout"} ELSE {})

\* poll goes to sleep.
SleepsFor(first, ms) == first.count = 0 /\ (first.want \/ ms # 0)
\* poll: the count and what is reported; `wake` ends the sleep, if there is one.
PollReturns(fds, tab, ms, wake) ==
  LET first == PollScan(fds, tab, FALSE)
      again == PollScan(fds, tab, wake = "stdin")
  IN IF ~SleepsFor(first, ms) THEN [ret |-> first.count, rev |-> first.rev, slept |-> FALSE]
     ELSE IF wake = "note" THEN [ret |-> -1, rev |-> first.rev, slept |-> TRUE]
     ELSE [ret |-> again.count, rev |-> again.rev, slept |-> TRUE]
=============================================================================
