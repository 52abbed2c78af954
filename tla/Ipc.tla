--------------------------------- MODULE Ipc ---------------------------------
(***************************************************************************)
(* Synchronous message passing between the processes of the kernel:        *)
(* ipc_send, ipc_reply, ipc_call, ipc_recv / ipc_recv_gen / ipc_poll, the  *)
(* FIFO queue of senders in front of a one-message inbox, the ~1/s timeout *)
(* sweep, notes that interrupt a queued sender, and the death and rebirth  *)
(* of a process slot (src/src/syscalls.c3, process.c3, entry.c3).          *)
(*                                                                         *)
(* Kernel code runs under kernel_lock and gives it up only inside yield(), *)
(* so one action is the code a process runs from a trap, or from the       *)
(* return of a yield(), up to the next yield() or to its return to user    *)
(* mode.  A process in a kernel wait loop is at one of the yield()s of     *)
(* that loop:                                                              *)
(*   "queue"   while (!ipc_can_deposit(target)),                           *)
(*   "ack"     while (!msg_acked && !ipc_bounced),                         *)
(*   "answer"  phase 3 of ipc_call, while (!has_message),                  *)
(*   "recv"    the loop of ipc_recv.                                       *)
(* A pid names a slot and is reused; only (pid, generation) names a        *)
(* process.                                                                *)
(***************************************************************************)
EXTENDS Naturals, Sequences, FiniteSets

CONSTANTS
  Proc,      \* process slots; a pid is a slot
  None,      \* no pid (0 in the code)
  Sends,     \* <<p, t>>: the program in slot p may ipc_send to slot t
  Calls,     \* <<p, t>>: the program in slot p may ipc_call slot t
  Mortal,    \* slots whose process may exit or be killed
  Notable,   \* slots whose process is sent notes
  Wildcard,  \* slots whose program replies without an expected generation
  MaxGen,    \* bound: incarnations of a slot
  MaxOps,    \* bound: for each slot, sends and calls issued by one incarnation
  MaxPend    \* bound: requests a program holds unanswered at a time

ASSUME NoneAssumption == None \notin Proc
ASSUME SlotsAssumption == IsFiniteSet(Proc)
\* A program that sends to its own slot only hangs itself: left out.
ASSUME EnvAssumption == /\ Sends \subseteq {x \in Proc \X Proc : x[1] # x[2]}
                        /\ Calls \subseteq {x \in Proc \X Proc : x[1] # x[2]}
ASSUME BoundAssumption == /\ MaxGen \in Nat \ {0}
                          /\ MaxOps \in [Proc -> Nat]
                          /\ MaxPend \in Nat

VARIABLES
  state,     \* Process.state
  gen,       \* Process.generation
  at,        \* the yield() the process is parked at, "user" outside the kernel
  out,       \* the message its send, reply or call delivers
  wait,      \* (ipc_wait_pid, ipc_wait_generation)
  inbox,     \* has_message, msg_from, msg_from_generation, msg_call_seq
  links,     \* ipc_q_head, ipc_q_next, ipc_q_target
  acked,     \* processes with msg_acked
  bounced,   \* processes with ipc_bounced
  peerDied,  \* processes with ipc_peer_died
  timedOut,  \* processes with ipc_timed_out
  inCall,    \* processes with in_call_reply_wait
  noted,     \* processes with a deliverable note
  callSeq,   \* call_seq
  owed,      \* reply_owed_pid, reply_owed_gen, reply_owed_seq
  pend,      \* requests the program has received and not yet replied to
  ops        \* sends and calls this incarnation has issued

vars == <<state, gen, at, out, wait, inbox, links, acked, bounced, peerDied,
          timedOut, inCall, noted, callSeq, owed, pend, ops>>

(***************************************************************************)
(* Types and the values that stand for "nothing".                          *)
(***************************************************************************)
Kinds == {"send", "reply", "call"}
Phases == {"user", "queue", "ack", "answer", "recv"}
Pid   == Proc \cup {None}

\* Who a process is: the pair the kernel compares to tell incarnations apart.
Ref == [pid : Pid, gen : Nat]
NoRef == [pid |-> None, gen |-> 0]

Id(p) == [pid |-> p, gen |-> gen[p]]

\* seq is msg_call_seq (0: not a call's request).  kind, to and ans are
\* history: the syscall that sent it, the process it is meant for, and the call
\* (its call_seq) that the replying program means to answer.
Msg == [from : Ref, seq : Nat, kind : Kinds, to : Ref, ans : Nat]
NoMsg == [from |-> NoRef, seq |-> 0, kind |-> "send", to |-> NoRef, ans |-> 0]

\* The queues are lists threaded through the process table; crossed is history:
\* a sender was linked behind another one through a slot that holds no process.
Links == [head : [Proc -> Pid], next : [Proc -> Pid], on : [Proc -> Pid], crossed : BOOLEAN]
NoLinks == [p \in Proc |-> None]

Request == [who : Ref, seq : Nat]
NoRequest == [who |-> NoRef, seq |-> 0]

TypeOK ==
  /\ state \in [Proc -> {"unused", "runnable", "blocked"}]
  /\ gen \in [Proc -> Nat]
  /\ at \in [Proc -> Phases]
  /\ out \in [Proc -> Msg]
  /\ wait \in [Proc -> Ref]
  /\ inbox \in [Proc -> Msg]
  /\ links \in Links
  /\ acked \subseteq Proc
  /\ bounced \subseteq Proc
  /\ peerDied \subseteq Proc
  /\ timedOut \subseteq Proc
  /\ inCall \subseteq Proc
  /\ noted \subseteq Proc
  /\ callSeq \in [Proc -> Nat]
  /\ owed \in [Proc -> Request]
  /\ pend \in [Proc -> SUBSET Request]
  /\ ops \in [Proc -> Nat]

Init ==
  /\ state = [p \in Proc |-> "runnable"]
  /\ gen = [p \in Proc |-> 1]
  /\ at = [p \in Proc |-> "user"]
  /\ out = [p \in Proc |-> NoMsg]
  /\ wait = [p \in Proc |-> NoRef]
  /\ inbox = [p \in Proc |-> NoMsg]
  /\ links = [head |-> NoLinks, next |-> NoLinks, on |-> NoLinks, crossed |-> FALSE]
  /\ acked = {} /\ bounced = {} /\ peerDied = {} /\ timedOut = {}
  /\ inCall = {} /\ noted = {}
  /\ callSeq = [p \in Proc |-> 0]
  /\ owed = [p \in Proc |-> NoRequest]
  /\ pend = [p \in Proc |-> {}]
  /\ ops = [p \in Proc |-> 0]

(***************************************************************************)
(* Helpers of the IPC code.                                                *)
(***************************************************************************)
\* proc_by_pid finds it: the slot holds a process.
Live(p) == state[p] # "unused"

HasMsg(p) == inbox[p].from.pid # None

\* PROCS_MAX, which also ends the walks along a queue.
NSlots == Cardinality(Proc)

\* A walk along t's queue: ipc_q_head, then ipc_q_next from each process to the next.
Walk(L, t) ==
  LET w[n \in 0 .. NSlots] ==
        IF n = 0 THEN L.head[t]
        ELSE LET x == w[n - 1] IN IF x = None THEN None ELSE L.next[x]
  IN  w

\* The senders a walk meets.
Queued(L, t) ==
  IF L.head[t] = None THEN {} ELSE {Walk(L, t)[n] : n \in 0 .. NSlots - 1} \ {None}

\* p points nowhere, on no queue.
Loose(L, p) == [L EXCEPT !.next[p] = None, !.on[p] = None]

\* ipc_q_enqueue: p at the end of t's queue.  An empty slot has no pid, so p keeps no
\* note of which queue it is on.
Enqueue(L, p, t) ==
  LET M == [L EXCEPT !.next[p] = None, !.on[p] = IF Live(t) THEN t ELSE None,
                     !.crossed = @ \/ (~Live(t) /\ L.head[t] # None)]
      w == Walk(M, t)
      last == CHOOSE n \in 0 .. NSlots : w[n] # None /\ (n = NSlots \/ w[n + 1] = None)
  IN  IF L.head[t] = None THEN [M EXCEPT !.head[t] = p] ELSE [M EXCEPT !.next[w[last]] = p]

\* Mutant of Remove: only the head of the queue can be taken off.
RemoveHead(L, p) ==
  IF L.on[p] # None /\ L.head[L.on[p]] = p THEN [Loose(L, p) EXCEPT !.head[L.on[p]] = L.next[p]]
  ELSE Loose(L, p)

\* ipc_q_remove: p is unlinked where a walk along the queue it thinks it is on meets
\* it first.
Remove(L, p) ==
  LET t == L.on[p]
      w == Walk(L, t)
      met == {n \in 0 .. NSlots - 1 : w[n] = p}
      first == CHOOSE n \in met : \A i \in met : n <= i
  IN  IF t = None \/ met = {} THEN Loose(L, p)
      ELSE IF first = 0 THEN [Loose(L, p) EXCEPT !.head[t] = L.next[p]]
      ELSE [Loose(L, p) EXCEPT !.next[w[first - 1]] = L.next[p]]

\* ipc_peer_gone: the peer p waits on was torn down, or its slot is empty or
\* holds another incarnation.
PeerGone(p) ==
  /\ wait[p] # NoRef
  /\ \/ p \in peerDied
     \/ ~Live(wait[p].pid)
     \/ gen[wait[p].pid] # wait[p].gen

\* Mutant of CanDeposit: the reservation of a caller's inbox is not looked at.
CanDepositUnreserved(p, t, L) == ~HasMsg(t) /\ L.head[t] = p

\* ipc_can_deposit(t) by p with the links L, on top of ipc_inbox_available:
\* the inbox is empty and p is the head, unless t is in an ipc_call, which
\* reserves its inbox for the process it called and lets that one pass the queue.
CanDeposit(p, t, L) ==
  /\ ~HasMsg(t)
  /\ IF t \in inCall THEN wait[t] = Id(p) ELSE L.head[t] = p

\* The processes of S that are blocked become runnable; p ends up in state s.
Awake(S, p, s) ==
  [q \in Proc |-> IF q = p THEN s
                  ELSE IF q \in S /\ state[q] = "blocked" THEN "runnable"
                  ELSE state[q]]

\* p runs in the kernel, resumed from the yield() of phase ph (or from user mode).
Runs(p, ph) == state[p] = "runnable" /\ at[p] = ph

(***************************************************************************)
(* The delivery of m to the slot m.to.pid, shared by ipc_send, ipc_reply   *)
(* and ipc_call.  box and S are the inboxes and the processes woken so far *)
(* in the step.                                                            *)
(***************************************************************************)
\* The syscall of p ends and p goes on to user mode.  An ipc_call lifts the
\* reservation of its inbox and calls ipc_inbox_freed for it.
Leave(p, m, S) ==
  /\ at' = [at EXCEPT ![p] = "user"]
  /\ out' = [out EXCEPT ![p] = NoMsg]
  /\ wait' = [wait EXCEPT ![p] = NoRef]
  /\ inCall' = inCall \ {p}
  /\ state' = Awake(IF m.kind = "call" THEN S \cup Queued(links', p) ELSE S,
                    p, "runnable")

\* p goes to sleep in the loop of phase ph.
Park(p, m, ph, S) ==
  /\ at' = [at EXCEPT ![p] = ph]
  /\ out' = [out EXCEPT ![p] = m]
  /\ wait' = [wait EXCEPT ![p] = m.to]
  /\ inCall' = IF m.kind = "call" THEN inCall \cup {p} ELSE inCall
  /\ state' = Awake(S, p, "blocked")

\* The deposit, and the sleep until it is acknowledged.
Deliver(p, m, L, box, S) ==
  LET t == m.to.pid IN
  /\ inbox' = [box EXCEPT ![t] = m]
  /\ links' = Remove(L, p)
  /\ acked' = acked \ {p}
  /\ Park(p, m, "ack", S \cup {t})

\* The deposit of a process that finds in its first test of the acknowledge
\* loop that its peer is gone, or that its call is late.  A late call takes its
\* request back out of the inbox and wakes the queue there.
DeliverAndLeave(p, m, L, box, late, S) ==
  LET t == m.to.pid IN
  /\ inbox' = IF late THEN box ELSE [box EXCEPT ![t] = m]
  /\ links' = Remove(L, p)
  /\ acked' = acked \ {p}
  /\ Leave(p, m, S \cup {t} \cup (IF late THEN Queued(links', t) ELSE {}))

GiveUp(p, m, L, box, S) ==
  /\ links' = Remove(L, p)
  /\ Leave(p, m, S)
  /\ inbox' = box
  /\ UNCHANGED acked

SleepInQueue(p, m, L, box, S) ==
  /\ links' = L
  /\ Park(p, m, "queue", S)
  /\ inbox' = box
  /\ UNCHANGED acked

\* One pass of the queue loop of p, which L has on the queue of its target.
\* Only ipc_send and ipc_call look at notes.
Attempt(p, m, L, box, gone, late, S) ==
  LET ready == CanDeposit(p, m.to.pid, L)
      interrupted == p \in noted /\ m.kind # "reply" IN
  \/ ready /\ ~gone /\ ~late /\ Deliver(p, m, L, box, S)
  \/ ready /\ (gone \/ late) /\ DeliverAndLeave(p, m, L, box, late, S)
  \/ ~ready /\ (interrupted \/ gone \/ late) /\ GiveUp(p, m, L, box, S)
  \/ ~ready /\ ~interrupted /\ ~gone /\ ~late /\ SleepInQueue(p, m, L, box, S)

\* Mutant of Late: the timeout is looked at in phase 3 only.
LateInAnswer(p) == out[p].kind = "call" /\ p \in timedOut /\ at[p] = "answer"

\* A call whose deadline the sweep has seen pass.
Late(p) == out[p].kind = "call" /\ p \in timedOut

(***************************************************************************)
(* The system calls of a process in user mode.                             *)
(***************************************************************************)
\* sys_ipc_send
Send(p, t) ==
  LET m == [from |-> Id(p), seq |-> 0, kind |-> "send", to |-> Id(t), ans |-> 0] IN
  /\ Runs(p, "user")
  /\ <<p, t>> \in Sends
  /\ ops[p] < MaxOps[p]
  /\ Live(t)
  /\ peerDied' = peerDied \ {p}
  /\ bounced' = bounced \ {p}
  /\ ops' = [ops EXCEPT ![p] = @ + 1]
  /\ Attempt(p, m, Enqueue(links, p, t), inbox, FALSE, FALSE, {})
  /\ UNCHANGED <<gen, timedOut, noted, callSeq, owed, pend>>

\* Mutant of StillWaits: any call of the client will do.
WaitsForUs(p, t) == t \in inCall /\ wait[t] = Id(p)

\* The call of t that p last received still waits for p's reply.
StillWaits(p, t) == t \in inCall /\ wait[t] = Id(p) /\ callSeq[t] = owed[p].seq

\* reply_owed_seq = 0: p owes no answer any more.
Settled(p) == [owed EXCEPT ![p] = [who |-> owed[p].who, seq |-> 0]]

\* sys_ipc_reply to a request r the program still holds.  A reply that answers the
\* call last received goes out only while that very call still waits for us.
\* ipc_bounced is neither cleared here nor looked at in the acknowledge loop.
Reply(p, r) ==
  LET t == r.who.pid
      m == [from |-> Id(p), seq |-> 0, kind |-> "reply", to |-> Id(t), ans |-> r.seq]
      pairs == owed[p].seq # 0 /\ owed[p].who = Id(t)
      found == Live(t) /\ (p \in Wildcard \/ gen[t] = r.who.gen) IN
  /\ Runs(p, "user")
  /\ r \in pend[p]
  /\ pend' = [pend EXCEPT ![p] = @ \ {r}]
  /\ \/ /\ found /\ (pairs => StillWaits(p, t))
        /\ peerDied' = peerDied \ {p}
        /\ owed' = IF pairs THEN Settled(p) ELSE owed
        /\ Attempt(p, m, Enqueue(links, p, t), inbox, FALSE, FALSE, {})
     \/ /\ found /\ pairs /\ ~StillWaits(p, t)
        /\ owed' = Settled(p)
        /\ UNCHANGED <<state, at, out, wait, inbox, links, acked, peerDied,
                       inCall>>
     \/ /\ ~found
        /\ UNCHANGED <<state, at, out, wait, inbox, links, acked, peerDied,
                       inCall, owed>>
  /\ UNCHANGED <<gen, bounced, timedOut, noted, callSeq, ops>>

\* sys_ipc_call.  A message that already sits in the caller's inbox is handed back
\* to its sender first, so that it is not taken for the reply.
Call(p, t) ==
  LET n == callSeq[p] + 1
      m == [from |-> Id(p), seq |-> n, kind |-> "call", to |-> Id(t), ans |-> 0]
      back == {s \in Proc : HasMsg(p) /\ Live(s) /\ inbox[p].from = Id(s)} IN
  /\ Runs(p, "user")
  /\ <<p, t>> \in Calls
  /\ ops[p] < MaxOps[p]
  /\ Live(t)
  /\ callSeq' = [callSeq EXCEPT ![p] = n]
  /\ peerDied' = peerDied \ {p}
  /\ timedOut' = timedOut \ {p}
  /\ bounced' = (bounced \cup back) \ {p}
  /\ ops' = [ops EXCEPT ![p] = @ + 1]
  /\ Attempt(p, m, Enqueue(links, p, t), [inbox EXCEPT ![p] = NoMsg], FALSE, FALSE,
             back)
  /\ UNCHANGED <<gen, noted, owed, pend>>

\* A message is read out of p's inbox: its sender's slot is acknowledged, whoever
\* occupies it now, and the senders queued on p are woken (ipc_inbox_freed).
AckTo(m) == {s \in Proc : s = m.from.pid /\ Live(s)}

\* The common end of sys_ipc_recv, sys_ipc_recv_gen and sys_ipc_poll.  The program
\* keeps a call's request to answer it; it may keep a plain message.
Consume(p) ==
  LET m == inbox[p]
      r == [who |-> m.from, seq |-> m.seq] IN
  /\ HasMsg(p)
  /\ inbox' = [inbox EXCEPT ![p] = NoMsg]
  /\ owed' = [owed EXCEPT ![p] = r]
  /\ acked' = acked \cup AckTo(m)
  /\ at' = [at EXCEPT ![p] = "user"]
  /\ state' = Awake(Queued(links, p) \cup AckTo(m), p, "runnable")
  /\ \/ m.kind # "reply" /\ pend' = [pend EXCEPT ![p] = @ \cup {r}]
     \/ m.kind # "call" /\ pend' = pend
  /\ UNCHANGED <<gen, out, wait, links, bounced, peerDied, timedOut, inCall,
                 noted, callSeq, ops>>

\* sys_ipc_poll finding a message; without one it changes nothing.
Poll(p) ==
  /\ Runs(p, "user")
  /\ Cardinality(pend[p]) < MaxPend
  /\ Consume(p)

\* sys_ipc_recv / sys_ipc_recv_gen with an empty inbox (with a message they do
\* what Poll does; with an empty inbox and a note they return at once).
Recv(p) ==
  /\ Runs(p, "user")
  /\ Cardinality(pend[p]) < MaxPend
  /\ ~HasMsg(p) /\ p \notin noted
  /\ at' = [at EXCEPT ![p] = "recv"]
  /\ state' = [state EXCEPT ![p] = "blocked"]
  /\ UNCHANGED <<gen, out, wait, inbox, links, acked, bounced, peerDied, timedOut,
                 inCall, noted, callSeq, owed, pend, ops>>

(***************************************************************************)
(* A process resumed from the yield() of one of its wait loops.            *)
(***************************************************************************)
\* Asleep again, the wake was spurious.
Doze(p) ==
  /\ state' = [state EXCEPT ![p] = "blocked"]
  /\ UNCHANGED <<gen, at, out, wait, inbox, links, acked, bounced, peerDied,
                 timedOut, inCall, noted, callSeq, owed, pend, ops>>

InRecv(p) ==
  /\ Runs(p, "recv")
  /\ \/ Consume(p)
     \/ /\ ~HasMsg(p) /\ p \in noted
        /\ at' = [at EXCEPT ![p] = "user"]
        /\ UNCHANGED <<state, gen, out, wait, inbox, links, acked, bounced,
                       peerDied, timedOut, inCall, noted, callSeq, owed, pend,
                       ops>>
     \/ ~HasMsg(p) /\ p \notin noted /\ Doze(p)

\* A deposit by a process that was marked bounced while it was still queued (for an
\* older message of its slot): the acknowledge loop ends at once and it
\* queues up again behind its own message.
DeliverTwice(p) ==
  LET m == out[p]
      t == m.to.pid
      again == Enqueue(Remove(links, p), p, t) IN
  /\ CanDeposit(p, t, links)
  /\ p \in bounced /\ m.kind # "reply"
  /\ inbox' = [inbox EXCEPT ![t] = m]
  /\ acked' = acked \ {p}
  /\ bounced' = bounced \ {p}
  /\ IF p \in noted \/ PeerGone(p) \/ Late(p)
     THEN links' = Remove(again, p) /\ Leave(p, m, {t})
     ELSE links' = again /\ Park(p, m, "queue", {t})

InQueue(p) ==
  /\ Runs(p, "queue")
  /\ \/ DeliverTwice(p)
     \/ /\ \/ ~CanDeposit(p, wait[p].pid, links)
           \/ p \notin bounced \/ out[p].kind = "reply"
        /\ Attempt(p, out[p], links, inbox, PeerGone(p), Late(p), {})
        /\ UNCHANGED bounced
  /\ UNCHANGED <<gen, peerDied, timedOut, noted, callSeq, owed, pend, ops>>

\* Phase 3 of ipc_call: what is in the inbox is taken for the reply.
TakeReply(p) ==
  /\ HasMsg(p)
  /\ inbox' = [inbox EXCEPT ![p] = NoMsg]
  /\ acked' = acked \cup AckTo(inbox[p])
  /\ Leave(p, out[p], AckTo(inbox[p]))

Answer(p) ==
  \/ TakeReply(p)
  \/ /\ ~HasMsg(p) /\ (PeerGone(p) \/ Late(p))
     /\ Leave(p, out[p], {})
     /\ UNCHANGED <<inbox, acked>>
  \/ /\ ~HasMsg(p) /\ ~PeerGone(p) /\ ~Late(p)
     /\ Park(p, out[p], "answer", {})
     /\ UNCHANGED <<inbox, acked>>

InAnswer(p) ==
  /\ Runs(p, "answer")
  /\ UNCHANGED <<gen, links, bounced, peerDied, timedOut, noted, callSeq,
                 owed, pend, ops>>
  /\ Answer(p)

\* The acknowledge loop ends: ipc_send and ipc_reply return 0, ipc_call goes on to
\* wait for the reply.
Acknowledged(p) ==
  /\ Runs(p, "ack")
  /\ p \in acked
  /\ p \notin bounced \/ out[p].kind = "reply"
  /\ UNCHANGED <<gen, links, bounced, peerDied, timedOut, noted, callSeq,
                 owed, pend, ops>>
  /\ \/ out[p].kind = "call" /\ Answer(p)
     \/ out[p].kind # "call" /\ Leave(p, out[p], {}) /\ UNCHANGED <<inbox, acked>>

\* The message was handed back: queue up and deliver it again.  The target's slot
\* is used whatever it holds by now, a process, a successor or nothing at all.
Redeliver(p) ==
  /\ Runs(p, "ack")
  /\ p \in bounced /\ out[p].kind # "reply"
  /\ bounced' = bounced \ {p}
  /\ Attempt(p, out[p], Enqueue(links, p, wait[p].pid), inbox, PeerGone(p), Late(p), {})
  /\ UNCHANGED <<gen, peerDied, timedOut, noted, callSeq, owed, pend, ops>>

\* Mutant of Yank: a late request is left in the target's inbox.
YankNothing(p) == FALSE

\* A late call's request still lies unread in the target's inbox.
Yank(p) == Late(p) /\ inbox[wait[p].pid].from = Id(p)

\* The acknowledge loop gives up, or sleeps on.  A late call takes its request back
\* if it still sits unread in the target's inbox.
NotAcknowledged(p) ==
  LET t == wait[p].pid IN
  /\ Runs(p, "ack")
  /\ p \notin acked
  /\ p \notin bounced \/ out[p].kind = "reply"
  /\ \/ /\ PeerGone(p) \/ Late(p)
        /\ inbox' = IF Yank(p) THEN [inbox EXCEPT ![t] = NoMsg] ELSE inbox
        /\ UNCHANGED <<gen, links, acked, bounced, peerDied, timedOut, noted, callSeq,
                       owed, pend, ops>>
        /\ Leave(p, out[p], IF Yank(p) THEN Queued(links, t) ELSE {})
     \/ ~PeerGone(p) /\ ~Late(p) /\ Doze(p)

(***************************************************************************)
(* What happens to a process.                                              *)
(***************************************************************************)
\* Mutant of Nudged: only replies are nudged.
NudgedReplies == {p \in Proc : links.on[p] # None /\ out[p].kind = "reply"}

\* The queued senders the sweep nudges, in case a wake was missed.
Nudged == {p \in Proc : links.on[p] # None}

\* ipc_timeout_sweep: the deadlines of the calls in D have passed.  Every queued
\* sender is nudged too.
Sweep(D) ==
  /\ D \subseteq {p \in inCall : Live(p) /\ p \notin timedOut}
  /\ timedOut' = timedOut \cup D
  /\ state' = [p \in Proc |->
                 IF state[p] = "blocked" /\ p \in D \cup Nudged
                 THEN "runnable" ELSE state[p]]
  /\ UNCHANGED <<gen, at, out, wait, inbox, links, acked, bounced, peerDied,
                 inCall, noted, callSeq, owed, pend, ops>>

\* note_post, and note_deliver with a handler on the way back to user mode.
PostNote(p) ==
  /\ p \in Notable /\ Live(p) /\ p \notin noted
  /\ noted' = noted \cup {p}
  /\ state' = Awake({p}, p, "runnable")
  /\ UNCHANGED <<gen, at, out, wait, inbox, links, acked, bounced, peerDied,
                 timedOut, inCall, callSeq, owed, pend, ops>>

DeliverNote(p) ==
  /\ Runs(p, "user")
  /\ p \in noted
  /\ noted' = noted \ {p}
  /\ UNCHANGED <<state, gen, at, out, wait, inbox, links, acked, bounced, peerDied,
                 timedOut, inCall, callSeq, owed, pend, ops>>

\* Mutant of Waiters: only the senders queued on p are told.
WaitersQueued(p) == {w \in Proc \ {p} : Live(w) /\ wait[w] = Id(p) /\ at[w] = "queue"}

\* ipc_wake_waiters_on: who waits on this incarnation of p.
Waiters(p) == {w \in Proc \ {p} : Live(w) /\ wait[w] = Id(p)}

\* proc_destroy of p: exit, kill, watchdog or a note without a handler.  Its
\* program and its kernel stack are gone; the fields of its slot stay as they are.
Destroy(p) ==
  /\ p \in Mortal /\ Live(p)
  /\ peerDied' = peerDied \cup Waiters(p)
  /\ links' = [Remove(links, p) EXCEPT !.head[p] = None]
  /\ state' = Awake(Waiters(p), p, "unused")
  /\ at' = [at EXCEPT ![p] = "user"]
  /\ out' = [out EXCEPT ![p] = NoMsg]
  /\ pend' = [pend EXCEPT ![p] = {}]
  /\ ops' = [ops EXCEPT ![p] = 0]
  /\ UNCHANGED <<gen, wait, inbox, acked, bounced, timedOut, inCall, noted,
                 callSeq, owed>>

\* create_process and sys_rfork claim the slot for a new incarnation.
Create(p) ==
  /\ ~Live(p) /\ gen[p] < MaxGen
  /\ state' = [state EXCEPT ![p] = "runnable"]
  /\ gen' = [gen EXCEPT ![p] = @ + 1]
  /\ at' = [at EXCEPT ![p] = "user"]
  /\ out' = [out EXCEPT ![p] = NoMsg]
  /\ wait' = [wait EXCEPT ![p] = NoRef]
  /\ inbox' = [inbox EXCEPT ![p] = NoMsg]
  /\ links' = [Loose(links, p) EXCEPT !.head[p] = None]
  /\ acked' = acked \ {p} /\ bounced' = bounced \ {p} /\ peerDied' = peerDied \ {p}
  /\ timedOut' = timedOut \ {p} /\ inCall' = inCall \ {p} /\ noted' = noted \ {p}
  /\ callSeq' = [callSeq EXCEPT ![p] = 0]
  /\ owed' = [owed EXCEPT ![p] = NoRequest]
  /\ pend' = [pend EXCEPT ![p] = {}]
  /\ ops' = [ops EXCEPT ![p] = 0]

\* What a process does next in a kernel wait it has been woken from.
Resume(p) ==
  InRecv(p) \/ InQueue(p) \/ InAnswer(p) \/ Acknowledged(p) \/ Redeliver(p)
            \/ NotAcknowledged(p)

Syscall(p) ==
  \/ \E t \in Proc : Send(p, t) \/ Call(p, t)
  \/ \E r \in pend[p] : Reply(p, r)
  \/ Poll(p) \/ Recv(p)

Next ==
  \/ \E p \in Proc : Syscall(p) \/ Resume(p) \/ PostNote(p) \/ DeliverNote(p)
                     \/ Destroy(p) \/ Create(p)
  \/ \E D \in SUBSET inCall : Sweep(D)

Spec == Init /\ [][Next]_vars

\* Round-robin scheduling resumes every runnable process, and the sweep, which
\* yield() and the timer both drive, sees every deadline pass.
Overdue == {p \in inCall : Live(p) /\ p \notin timedOut}
FairSpec == Spec /\ (\A p \in Proc : WF_vars(Resume(p))) /\ WF_vars(Sweep(Overdue))

(***************************************************************************)
(* Properties.                                                             *)
(***************************************************************************)
\* No lost wakeup: a process asleep in a wait loop has nothing to do there.  Every
\* store that could end one of the loops of sys_ipc_send, sys_ipc_reply,
\* sys_ipc_call and sys_ipc_recv comes with the wake of the process in that loop.
\* (Whose turn it is in the queue is another matter: MissedWakeIsRescued.)
NoLostWakeup ==
  \A p \in Proc : state[p] = "blocked" =>
    /\ at[p] # "user"
    /\ at[p] \in {"recv", "answer"} => ~HasMsg(p)
    /\ at[p] = "recv" => p \notin noted
    /\ at[p] \in {"queue", "ack", "answer"} => ~PeerGone(p) /\ ~Late(p)
    /\ at[p] = "queue" /\ out[p].kind # "reply" => p \notin noted
    /\ at[p] = "ack" => /\ p \notin acked
                        /\ p \notin bounced \/ out[p].kind = "reply"

\* The reservation: while a process is in an ipc_call, from its entry to the reply,
\* only the very incarnation it called can have a message in its inbox, whoever
\* else is queued, dies or takes over a slot meanwhile.
ReplyFromCallee ==
  \A c \in Proc : c \in inCall /\ Live(c) /\ HasMsg(c) => inbox[c].from = wait[c]

\* The queue of a process holds each sender once, and only live processes that sleep
\* in their queue loop waiting for this very incarnation; and every such sender
\* is on the queue unless its peer is gone.  Until the links of two queues cross:
\* a sender whose message was handed back by a process that has died since queues
\* up on the empty slot and is never taken off it, and a second one is linked
\* behind the first, wherever that one is queued by then.
QueueOK ==
  ~links.crossed =>
    \A t \in Proc : Live(t) =>
      /\ Walk(links, t)[NSlots] = None
      /\ \A p \in Queued(links, t) :
           Cardinality({n \in 0 .. NSlots - 1 : Walk(links, t)[n] = p}) = 1
      /\ \A p \in Queued(links, t) : Live(p) /\ at[p] = "queue" /\ wait[p] = Id(t)
      /\ \A p \in Proc : Live(p) /\ at[p] = "queue" /\ wait[p].pid = t /\ ~PeerGone(p)
                           => p \in Queued(links, t)

\* A message in an inbox is its live sender's one outstanding message: the sender
\* is in its acknowledge loop for that very message, unacknowledged and not told that
\* it was handed back (ipc_reply does not look at that mark, which may be an old one).
SenderAwaitsAck ==
  \A t, p \in Proc :
    Live(t) /\ Live(p) /\ inbox[t].from = Id(p) =>
      /\ at[p] = "ack" /\ wait[p].pid = t
      /\ p \notin acked /\ (p \notin bounced \/ out[p].kind = "reply")
      /\ inbox[t] = out[p]

\* What a call takes for its reply is a reply, and the one that answers this call
\* and not an earlier one of the same client that timed out.
ReplyMatchesCall ==
  \A c \in Proc : c \in inCall /\ Live(c) /\ HasMsg(c) =>
    inbox[c].kind = "reply" /\ inbox[c].ans = callSeq[c]

\* A queued sender whose turn has come does not stay asleep: what a missed wake
\* leaves behind, the sweep repairs.
MissedWakeIsRescued ==
  \A t, p \in Proc :
    (/\ Live(t) /\ links.head[t] = p /\ links.on[p] = t /\ ~HasMsg(t) /\ t \notin inCall
     /\ state[p] = "blocked") ~> (state[p] # "blocked")

\* Every ipc_call returns, whatever its server does.
CallReturns ==
  \A p \in Proc : (Live(p) /\ p \in inCall) ~> ~(Live(p) /\ p \in inCall)

(***************************************************************************)
(* The inductive invariant behind the theorems of IpcProofs.               *)
(***************************************************************************)
\* A process is in a wait loop exactly with the wait fields, the message and the
\* inbox reservation that its system call has set up.
InOp(p) == at[p] \in {"queue", "ack", "answer"}
OpInv ==
  \A p \in Proc :
    /\ InOp(p) => /\ Live(p)
                  /\ wait[p].pid \in Proc \ {p}
                  /\ out[p].to = wait[p]
                  /\ out[p].from = Id(p)
    /\ Live(p) /\ ~InOp(p) => wait[p] = NoRef
    /\ Live(p) => (p \in inCall <=> InOp(p) /\ out[p].kind = "call")
    /\ at[p] = "answer" => out[p].kind = "call"

\* Messages and requests come from another slot.
SendersOK ==
  \A p \in Proc :
    /\ \A r \in pend[p] : r.who.pid \in Proc \ {p}
    /\ HasMsg(p) => inbox[p].from.pid \in Proc \ {p}

IInv == TypeOK /\ OpInv /\ SendersOK /\ ReplyFromCallee /\ NoLostWakeup
=============================================================================
