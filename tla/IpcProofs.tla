------------------------------ MODULE IpcProofs ------------------------------
(***************************************************************************)
(* Proofs about Ipc for every set of process slots, every environment of   *)
(* programs and every bound.                                               *)
(***************************************************************************)
EXTENDS Ipc, SequenceTheorems, FiniteSetTheorems, WellFoundedInduction, TLAPS

-----------------------------------------------------------------------------
(***************************************************************************)
(* The steps that deliver a message.                                       *)
(***************************************************************************)
\* The values of the variables a delivery step assigns.
DeliveryTypes ==
  /\ state' \in [Proc -> {"unused", "runnable", "blocked"}]
  /\ at' \in [Proc -> Phases]
  /\ out' \in [Proc -> Msg]
  /\ wait' \in [Proc -> Ref]
  /\ inbox' \in [Proc -> Msg]
  /\ links' \in Links
  /\ acked' \subseteq Proc
  /\ inCall' \subseteq Proc

LEMMA NoMsgType == NoMsg \in Msg /\ NoRef \in Ref /\ NoRequest \in Request
BY DEF NoMsg, Msg, NoRef, Ref, NoRequest, Request, Kinds, Pid

\* Linking and unlinking keep the links links.
LEMMA LinkTypes ==
  ASSUME NEW L \in Links, NEW p \in Proc
  PROVE  Loose(L, p) \in Links /\ Remove(L, p) \in Links
<1>1. None \in Pid /\ p \in Pid
  BY DEF Pid
<1>2. \A h \in [Proc -> Pid] : \A x, y : y \in Pid => [h EXCEPT ![x] = y] \in [Proc -> Pid]
  OBVIOUS
<1>3. L.head \in [Proc -> Pid] /\ L.next \in [Proc -> Pid] /\ L.on \in [Proc -> Pid] /\ L.next[p] \in Pid
  BY DEF Links
<1>4. \A h, n, o \in [Proc -> Pid] : [L EXCEPT !.head = h, !.next = n, !.on = o] \in Links
  BY DEF Links
<1>5. Loose(L, p) \in Links
  BY <1>1, <1>3 DEF Loose, Links
<1>6. \A M \in Links : \A x, y : y \in Pid => /\ [M EXCEPT !.head[x] = y] \in Links
                                             /\ [M EXCEPT !.next[x] = y] \in Links
  BY DEF Links
<1>. QED
  BY <1>3, <1>5, <1>6 DEF Remove

LEMMA EnqueueType ==
  ASSUME NEW L \in Links, NEW p \in Proc, NEW t \in Proc
  PROVE  Enqueue(L, p, t) \in Links
<1> DEFINE M == [L EXCEPT !.next[p] = None, !.on[p] = IF Live(t) THEN t ELSE None,
                          !.crossed = @ \/ (~Live(t) /\ L.head[t] # None)]
<1>1. M \in Links
  BY DEF Links, Pid
<1>2. \A N \in Links : \A x : /\ [N EXCEPT !.head[x] = p] \in Links
                             /\ [N EXCEPT !.next[x] = p] \in Links
  BY DEF Links, Pid
<1>3. \E x : Enqueue(L, p, t) = IF L.head[t] = None THEN [M EXCEPT !.head[t] = p]
                               ELSE [M EXCEPT !.next[x] = p]
  BY DEF Enqueue
<1> HIDE DEF M
<1>. QED
  BY <1>1, <1>2, <1>3

LEMMA AttemptTypes ==
  ASSUME TypeOK, NEW p \in Proc, NEW m \in Msg, NEW q \in Links,
         NEW box \in [Proc -> Msg], NEW gone, NEW late, NEW S,
         Attempt(p, m, q, box, gone, late, S)
  PROVE  DeliveryTypes
<1> USE LinkTypes, NoMsgType DEF DeliveryTypes, TypeOK
<1>0. m.to \in Ref
  BY DEF Msg
<1>1. CASE Deliver(p, m, q, box, S)
  BY <1>0, <1>1 DEF Deliver, Park, Awake, Phases
<1>2. CASE DeliverAndLeave(p, m, q, box, late, S)
  BY <1>0, <1>2 DEF DeliverAndLeave, Leave, Awake, Phases
<1>3. CASE GiveUp(p, m, q, box, S)
  BY <1>0, <1>3 DEF GiveUp, Leave, Awake, Phases
<1>4. CASE SleepInQueue(p, m, q, box, S)
  BY <1>0, <1>4 DEF SleepInQueue, Park, Awake, Phases
<1>. QED
  BY <1>1, <1>2, <1>3, <1>4 DEF Attempt

\* One pass of the queue loop keeps the inductive invariant.  The hypotheses are
\* what ipc_send, ipc_reply, ipc_call, the resumed queue loop and the redelivery
\* have in common when they enter it.
AttemptFrom(p, m, box, gone, late, S) ==
  /\ Live(p)
  /\ m \in Msg /\ m.from = Id(p) /\ m.to.pid \in Proc \ {p}
  /\ box = inbox \/ box = [inbox EXCEPT ![p] = NoMsg]
  /\ m.kind = "call" => p \in inCall \/ box[p] = NoMsg
  /\ m.kind # "call" => p \notin inCall
  /\ p \in inCall => wait[p] = m.to
  /\ ~gone => Live(m.to.pid) /\ gen[m.to.pid] = m.to.gen /\ p \notin peerDied'
  /\ ~late => ~(m.kind = "call" /\ p \in timedOut')
  /\ gen' = gen /\ noted' = noted
  /\ peerDied' \cup {p} = peerDied \cup {p}
  /\ timedOut' \cup {p} = timedOut \cup {p}
  /\ bounced' \subseteq bounced \cup S

\* A step of p leaves the system calls of the others alone, and wakes S.
OthersKept(p, S) ==
  \A x \in Proc \ {p} :
    /\ at'[x] = at[x] /\ out'[x] = out[x] /\ wait'[x] = wait[x]
    /\ x \in inCall' <=> x \in inCall
    /\ state'[x] = "unused" <=> state[x] = "unused"
    /\ state'[x] = "blocked" <=> state[x] = "blocked" /\ x \notin S

LEMMA ParkEffect ==
  ASSUME TypeOK, NEW p \in Proc, NEW m, NEW ph, NEW S, Park(p, m, ph, S)
  PROVE  /\ at'[p] = ph /\ out'[p] = m /\ wait'[p] = m.to /\ state'[p] = "blocked"
         /\ p \in inCall' <=> m.kind = "call" \/ p \in inCall
         /\ OthersKept(p, S)
BY DEF Park, Awake, OthersKept, TypeOK

LEMMA LeaveEffect ==
  ASSUME TypeOK, NEW p \in Proc, NEW m, NEW S, Leave(p, m, S)
  PROVE  /\ at'[p] = "user" /\ out'[p] = NoMsg /\ wait'[p] = NoRef
         /\ state'[p] = "runnable" /\ p \notin inCall'
         /\ OthersKept(p, IF m.kind = "call" THEN S \cup Queued(links', p) ELSE S)
BY DEF Leave, Awake, OthersKept, TypeOK

\* Where a delivery step leaves its process, and what it does to the others.
DeliveryEffect(p, m, q, box, gone, late, S) ==
  /\ \E W : /\ S \subseteq W /\ OthersKept(p, W)
            /\ \/ inbox' = box
               \/ /\ m.to.pid \in W /\ CanDeposit(p, m.to.pid, q)
                  /\ inbox' = [box EXCEPT ![m.to.pid] = m]
  /\ acked' \subseteq acked
  /\ at'[p] = "ack" => CanDeposit(p, m.to.pid, q)
  /\ \/ /\ (at'[p] = "ack" /\ p \notin acked') \/ at'[p] = "queue"
        /\ ~gone /\ ~late
        /\ at'[p] = "queue" /\ m.kind # "reply" => p \notin noted
        /\ out'[p] = m /\ wait'[p] = m.to /\ state'[p] = "blocked"
        /\ p \in inCall' <=> m.kind = "call" \/ p \in inCall
     \/ /\ at'[p] = "user" /\ out'[p] = NoMsg /\ wait'[p] = NoRef
        /\ state'[p] = "runnable" /\ p \notin inCall'

LEMMA AttemptEffect ==
  ASSUME TypeOK, NEW p \in Proc, NEW m, NEW q, NEW box, NEW gone, NEW late, NEW S,
         Attempt(p, m, q, box, gone, late, S)
  PROVE  DeliveryEffect(p, m, q, box, gone, late, S)
<1> DEFINE t == m.to.pid
           ready == CanDeposit(p, t, q)
           interrupted == p \in noted /\ m.kind # "reply"
<1>1. CASE ready /\ ~gone /\ ~late /\ Deliver(p, m, q, box, S)
  <2>1. OthersKept(p, S \cup {t})
    BY <1>1, ParkEffect DEF Deliver
  <2>. QED
    BY <1>1, <2>1, ParkEffect DEF Deliver, DeliveryEffect
<1>2. CASE ready /\ (gone \/ late) /\ DeliverAndLeave(p, m, q, box, late, S)
  <2> DEFINE rest == IF late THEN Queued(links', t) ELSE {}
             W == IF m.kind = "call" THEN S \cup {t} \cup rest \cup Queued(links', p)
                  ELSE S \cup {t} \cup rest
  <2>1. Leave(p, m, S \cup {t} \cup rest)
    BY <1>2 DEF DeliverAndLeave
  <2> HIDE DEF rest
  <2>2. OthersKept(p, W) /\ S \subseteq W /\ t \in W
    BY <2>1, LeaveEffect
  <2>3. inbox' = box \/ inbox' = [box EXCEPT ![t] = m]
    BY <1>2 DEF DeliverAndLeave
  <2>4. acked' \subseteq acked
    BY <1>2 DEF DeliverAndLeave
  <2>5. /\ at'[p] = "user" /\ out'[p] = NoMsg /\ wait'[p] = NoRef
        /\ state'[p] = "runnable" /\ p \notin inCall'
    BY <2>1, LeaveEffect
  <2> HIDE DEF W
  <2>. QED
    BY <1>2, <2>2, <2>3, <2>4, <2>5 DEF DeliveryEffect
<1>3. CASE ~ready /\ (interrupted \/ gone \/ late) /\ GiveUp(p, m, q, box, S)
  BY <1>3, LeaveEffect DEF GiveUp, DeliveryEffect
<1>4. CASE ~ready /\ ~interrupted /\ ~gone /\ ~late /\ SleepInQueue(p, m, q, box, S)
  BY <1>4, ParkEffect DEF SleepInQueue, DeliveryEffect
<1>. QED
  BY <1>1, <1>2, <1>3, <1>4 DEF Attempt

LEMMA DeliveryOpInv ==
  ASSUME IInv, NEW p \in Proc, NEW m, NEW q,
         NEW box, NEW gone, NEW late, NEW S,
         AttemptFrom(p, m, box, gone, late, S),
         DeliveryEffect(p, m, q, box, gone, late, S)
  PROVE  OpInv'
<1> SUFFICES ASSUME NEW x \in Proc
             PROVE  /\ InOp(x)' => /\ Live(x)'
                                   /\ (wait[x].pid \in Proc \ {x})'
                                   /\ (out[x].to = wait[x])'
                                   /\ (out[x].from = Id(x))'
                    /\ (Live(x) /\ ~InOp(x) => wait[x] = NoRef)'
                    /\ (Live(x) => (x \in inCall <=> InOp(x) /\ out[x].kind = "call"))'
                    /\ (at[x] = "answer" => out[x].kind = "call")'
  BY DEF OpInv
<1>1. PICK W : S \subseteq W /\ OthersKept(p, W)
  BY DEF DeliveryEffect
<1>2. CASE x = p
  BY <1>2 DEF DeliveryEffect, IInv, OpInv, InOp, Live, Id, AttemptFrom
<1>3. CASE x # p
  BY <1>1, <1>3 DEF IInv, OpInv, InOp, Live, Id, AttemptFrom, OthersKept
<1>. QED
  BY <1>2, <1>3

LEMMA DeliveryBox ==
  ASSUME IInv, NEW p \in Proc, NEW m, NEW box, NEW gone, NEW late, NEW S,
         AttemptFrom(p, m, box, gone, late, S)
  PROVE  box \in [Proc -> Msg] /\ m.to.pid \in Proc \ {p}
<1>1. inbox \in [Proc -> Msg] /\ NoMsg \in Msg
  BY NoMsgType DEF IInv, TypeOK
<1>2. [inbox EXCEPT ![p] = NoMsg] \in [Proc -> Msg]
  BY <1>1
<1>. QED
  BY <1>1, <1>2 DEF AttemptFrom

LEMMA DeliveryInboxes ==
  ASSUME IInv, NEW p \in Proc, NEW m, NEW q,
         NEW box, NEW gone, NEW late, NEW S,
         AttemptFrom(p, m, box, gone, late, S),
         DeliveryEffect(p, m, q, box, gone, late, S)
  PROVE  /\ ReplyFromCallee'
         /\ \A x \in Proc : HasMsg(x)' => (inbox[x].from.pid \in Proc \ {x})'
<1> DEFINE t == m.to.pid
<1>1. PICK W : /\ S \subseteq W /\ OthersKept(p, W)
               /\ \/ inbox' = box
                  \/ t \in W /\ CanDeposit(p, t, q) /\ inbox' = [box EXCEPT ![t] = m]
  BY DEF DeliveryEffect
<1>2. box \in [Proc -> Msg] /\ t \in Proc \ {p}
  BY DeliveryBox
<1>3. \A x \in Proc : \/ inbox'[x] = inbox[x] /\ box[x] = inbox[x]
                      \/ inbox'[x] = NoMsg
                      \/ x = t /\ inbox'[x] = m /\ CanDeposit(p, t, q)
  BY <1>1, <1>2, SMTT(30) DEF AttemptFrom, IInv, TypeOK
<1>4. \A x \in Proc : HasMsg(x)' => (inbox[x].from.pid \in Proc \ {x})'
  BY <1>2, <1>3 DEF HasMsg, NoMsg, NoRef, AttemptFrom, Id, IInv, SendersOK
<1>5. ASSUME NEW c \in Proc, (c \in inCall /\ Live(c) /\ HasMsg(c))'
      PROVE  (inbox[c].from = wait[c])'
  <2>1. CASE c = p
    <3>1. wait'[p] = m.to /\ m.kind = "call"
      BY <1>5, <2>1 DEF DeliveryEffect, AttemptFrom
    <3>2. inbox'[p] = box[p]
      BY <1>1, <1>2
    <3>3. p \in inCall /\ box[p] = inbox[p]
      BY <1>5, <2>1, <3>1, <3>2, <1>3 DEF AttemptFrom, HasMsg, NoMsg, NoRef
    <3>. QED
      BY <1>5, <2>1, <3>1, <3>2, <3>3 DEF AttemptFrom, IInv, ReplyFromCallee, HasMsg
  <2>2. CASE c # p
    <3>1. c \in inCall /\ Live(c) /\ wait'[c] = wait[c]
      BY <1>1, <1>5, <2>2 DEF OthersKept, Live
    <3>2. CASE c = t /\ inbox'[c] = m /\ CanDeposit(p, t, q)
      BY <3>1, <3>2 DEF CanDeposit, AttemptFrom
    <3>3. CASE inbox'[c] = inbox[c]
      BY <1>5, <3>1, <3>3 DEF IInv, ReplyFromCallee, HasMsg
    <3>4. inbox'[c] # NoMsg
      BY <1>5 DEF HasMsg, NoMsg, NoRef
    <3>. QED
      BY <1>3, <3>2, <3>3, <3>4
  <2>. QED
    BY <2>1, <2>2
<1>. QED
  BY <1>4, <1>5 DEF ReplyFromCallee

LEMMA DeliveryWakes ==
  ASSUME IInv, NEW p \in Proc, NEW m, NEW q,
         NEW box, NEW gone, NEW late, NEW S,
         AttemptFrom(p, m, box, gone, late, S),
         p \notin bounced' \/ m.kind = "reply" \/ ~CanDeposit(p, m.to.pid, q)
           \/ at'[p] # "ack",
         DeliveryEffect(p, m, q, box, gone, late, S)
  PROVE  NoLostWakeup'
<1> DEFINE t == m.to.pid
<1>1. PICK W : /\ S \subseteq W /\ OthersKept(p, W)
               /\ \/ inbox' = box
                  \/ t \in W /\ CanDeposit(p, t, q) /\ inbox' = [box EXCEPT ![t] = m]
  BY DEF DeliveryEffect
<1>2. box \in [Proc -> Msg] /\ t \in Proc \ {p}
  BY DeliveryBox
<1>3. \A x \in Proc : state'[x] = "unused" <=> state[x] = "unused"
  BY <1>1 DEF DeliveryEffect, OthersKept, AttemptFrom, Live, IInv
<1> SUFFICES ASSUME NEW x \in Proc, state'[x] = "blocked"
    PROVE  (/\ at[x] # "user"
            /\ at[x] \in {"recv", "answer"} => ~HasMsg(x)
            /\ at[x] = "recv" => x \notin noted
            /\ at[x] \in {"queue", "ack", "answer"} => ~PeerGone(x) /\ ~Late(x)
            /\ at[x] = "queue" /\ out[x].kind # "reply" => x \notin noted
            /\ at[x] = "ack" => /\ x \notin acked
                                /\ x \notin bounced \/ out[x].kind = "reply")'
  BY DEF NoLostWakeup
<1>4. CASE x = p
  <2>1. /\ (at'[p] = "ack" /\ p \notin acked') \/ at'[p] = "queue"
        /\ ~gone /\ ~late
        /\ at'[p] = "queue" /\ m.kind # "reply" => p \notin noted
        /\ out'[p] = m /\ wait'[p] = m.to
    BY <1>4 DEF DeliveryEffect, IInv
  <2>2. ~PeerGone(p)' /\ ~Late(p)'
    BY <1>2, <1>3, <2>1 DEF PeerGone, Late, Live, AttemptFrom
  <2>3. at'[p] = "ack" => p \notin bounced' \/ m.kind = "reply"
    BY DEF DeliveryEffect
  <2>. QED
    BY <1>4, <2>1, <2>2, <2>3 DEF AttemptFrom
<1>5. CASE x # p
  <2>1. /\ state[x] = "blocked" /\ x \notin W
        /\ at'[x] = at[x] /\ out'[x] = out[x] /\ wait'[x] = wait[x]
    BY <1>1, <1>5 DEF OthersKept
  <2>2. inbox'[x] = inbox[x]
    BY <1>1, <1>2, <1>5, <2>1, SMTT(30) DEF AttemptFrom, IInv, TypeOK
  <2>3. x \in acked' => x \in acked
    BY DEF DeliveryEffect
  <2>4. /\ x \in bounced' => x \in bounced
        /\ x \in peerDied' <=> x \in peerDied
        /\ x \in timedOut' <=> x \in timedOut
        /\ gen' = gen /\ noted' = noted
    BY <1>1, <1>5, <2>1 DEF AttemptFrom
  <2>5. at[x] \in {"queue", "ack", "answer"} => ~PeerGone(x)' /\ ~Late(x)'
    <3>1. at[x] \in {"queue", "ack", "answer"} => ~PeerGone(x) /\ ~Late(x)
      BY <2>1 DEF IInv, NoLostWakeup
    <3>2. at[x] \in {"queue", "ack", "answer"} => wait[x].pid \in Proc
      BY DEF IInv, OpInv, InOp
    <3>. QED
      BY <1>3, <2>1, <2>4, <3>1, <3>2 DEF PeerGone, Late, Live
  <2>. QED
    BY <2>1, <2>2, <2>3, <2>4, <2>5 DEF IInv, NoLostWakeup, HasMsg
<1>. QED
  BY <1>4, <1>5

\* What a delivery step leaves to its caller to show.
RestTypes ==
  /\ gen' \in [Proc -> Nat]
  /\ bounced' \subseteq Proc /\ peerDied' \subseteq Proc /\ timedOut' \subseteq Proc
  /\ noted' \subseteq Proc
  /\ callSeq' \in [Proc -> Nat]
  /\ owed' \in [Proc -> Request]
  /\ pend' \in [Proc -> SUBSET Request]
  /\ ops' \in [Proc -> Nat]
  /\ \A x \in Proc : \A r \in pend'[x] : r.who.pid \in Proc \ {x}

LEMMA DeliveryIInv ==
  ASSUME IInv, NEW p \in Proc, NEW m, NEW q,
         NEW box, NEW gone, NEW late, NEW S,
         AttemptFrom(p, m, box, gone, late, S),
         p \notin bounced' \/ m.kind = "reply" \/ ~CanDeposit(p, m.to.pid, q)
           \/ at'[p] # "ack",
         DeliveryEffect(p, m, q, box, gone, late, S),
         DeliveryTypes, RestTypes
  PROVE  IInv'
<1>1. TypeOK'
  BY DEF DeliveryTypes, RestTypes, TypeOK
<1>2. SendersOK'
  BY DeliveryInboxes DEF SendersOK, RestTypes
<1>. QED
  BY <1>1, <1>2, DeliveryOpInv, DeliveryInboxes, DeliveryWakes DEF IInv

LEMMA AttemptIInv ==
  ASSUME IInv, NEW p \in Proc, NEW m, NEW q \in Links,
         NEW box, NEW gone, NEW late, NEW S,
         AttemptFrom(p, m, box, gone, late, S),
         p \notin bounced' \/ m.kind = "reply" \/ ~CanDeposit(p, m.to.pid, q),
         Attempt(p, m, q, box, gone, late, S),
         RestTypes
  PROVE  IInv'
<1>1. DeliveryTypes
  BY AttemptTypes, DeliveryBox DEF IInv, AttemptFrom
<1>2. DeliveryEffect(p, m, q, box, gone, late, S)
  BY AttemptEffect DEF IInv
<1>. QED
  BY <1>1, <1>2, DeliveryIInv

LEMMA SendStep ==
  ASSUME IInv, NEW p \in Proc, NEW t \in Proc, Send(p, t)
  PROVE  IInv'
<1> DEFINE m == [from |-> Id(p), seq |-> 0, kind |-> "send", to |-> Id(t), ans |-> 0]
<1>1. Id(p) \in Ref /\ Id(t) \in Ref /\ Id(p).pid = p /\ Id(t).pid = t /\ Id(t).gen = gen[t]
  BY DEF Id, Ref, Pid, IInv, TypeOK
<1>2. m \in Msg /\ m.from = Id(p) /\ m.to = Id(t) /\ m.kind = "send"
  BY <1>1 DEF Msg, Kinds
<1>3. t # p
  BY EnvAssumption DEF Send
<1>4. Live(p) /\ p \notin inCall
  BY DEF Send, Runs, Live, IInv, OpInv, InOp
<1>5. Attempt(p, m, Enqueue(links, p, t), inbox, FALSE, FALSE, {})
  BY DEF Send
<1> HIDE DEF m
<1>6. AttemptFrom(p, m, inbox, FALSE, FALSE, {})
  BY <1>1, <1>2, <1>3, <1>4 DEF AttemptFrom, Send, IInv, TypeOK
<1>7. Enqueue(links, p, t) \in Links
  BY EnqueueType DEF IInv, TypeOK
<1>8. RestTypes
  <2>1. bounced' \subseteq Proc /\ peerDied' \subseteq Proc
    BY DEF Send, IInv, TypeOK
  <2>2. ops' \in [Proc -> Nat]
    BY DEF Send, IInv, TypeOK
  <2>3. \A x \in Proc : \A r \in pend[x] : r.who.pid \in Proc \ {x}
    BY DEF IInv, SendersOK
  <2>4. UNCHANGED <<gen, timedOut, noted, callSeq, owed, pend>>
    BY DEF Send
  <2>. QED
    BY <2>1, <2>2, <2>3, <2>4 DEF RestTypes, IInv, TypeOK
<1>. QED
  BY <1>5, <1>6, <1>7, <1>8, AttemptIInv DEF Send

LEMMA CallStep ==
  ASSUME IInv, NEW p \in Proc, NEW t \in Proc, Call(p, t)
  PROVE  IInv'
<1> DEFINE n == callSeq[p] + 1
           m == [from |-> Id(p), seq |-> n, kind |-> "call", to |-> Id(t), ans |-> 0]
           back == {s \in Proc : HasMsg(p) /\ Live(s) /\ inbox[p].from = Id(s)}
           box == [inbox EXCEPT ![p] = NoMsg]
<1>1. /\ Id(p) \in Ref /\ Id(t) \in Ref /\ Id(p).pid = p /\ Id(t).pid = t /\ Id(t).gen = gen[t]
      /\ n \in Nat
  BY DEF Id, Ref, Pid, IInv, TypeOK
<1>2. m \in Msg /\ m.from = Id(p) /\ m.to = Id(t) /\ m.kind = "call"
  BY <1>1 DEF Msg, Kinds
<1>3. t # p
  BY EnvAssumption DEF Call
<1>4. Live(p) /\ p \notin inCall
  BY DEF Call, Runs, Live, IInv, OpInv, InOp
<1>5. Attempt(p, m, Enqueue(links, p, t), box, FALSE, FALSE, back)
  BY DEF Call
<1>5a. bounced' = (bounced \cup back) \ {p} /\ back \subseteq Proc
  BY DEF Call
<1> HIDE DEF m, back
<1>6. AttemptFrom(p, m, box, FALSE, FALSE, back)
  <2>1. box[p] = NoMsg
    BY DEF IInv, TypeOK
  <2> HIDE DEF box
  <2>. QED
    BY <1>1, <1>2, <1>3, <1>4, <1>5a, <2>1 DEF AttemptFrom, Call, IInv, TypeOK, box
<1>7. Enqueue(links, p, t) \in Links
  BY EnqueueType DEF IInv, TypeOK
<1>8. RestTypes
  <2>1. bounced' \subseteq Proc /\ peerDied' \subseteq Proc /\ timedOut' \subseteq Proc
    BY <1>5a DEF Call, IInv, TypeOK
  <2>2. ops' \in [Proc -> Nat] /\ callSeq' \in [Proc -> Nat]
    BY <1>1 DEF Call, IInv, TypeOK
  <2>3. \A x \in Proc : \A r \in pend[x] : r.who.pid \in Proc \ {x}
    BY DEF IInv, SendersOK
  <2>4. UNCHANGED <<gen, noted, owed, pend>>
    BY DEF Call
  <2>. QED
    BY <2>1, <2>2, <2>3, <2>4 DEF RestTypes, IInv, TypeOK
<1>. QED
  BY <1>5, <1>5a, <1>6, <1>7, <1>8, AttemptIInv

LEMMA ReplyStep ==
  ASSUME IInv, NEW p \in Proc, NEW r \in pend[p], Reply(p, r)
  PROVE  IInv'
<1> DEFINE t == r.who.pid
           m == [from |-> Id(p), seq |-> 0, kind |-> "reply", to |-> Id(t), ans |-> r.seq]
<1>1. r \in Request /\ r.seq \in Nat /\ t \in Proc \ {p}
  BY DEF IInv, TypeOK, Request, SendersOK
<1> HIDE DEF t
<1>2. /\ Id(p) \in Ref /\ Id(t) \in Ref
      /\ Id(p).pid = p /\ Id(t).pid = t /\ Id(t).gen = gen[t]
  BY <1>1 DEF Id, Ref, Pid, IInv, TypeOK
<1>3. m \in Msg /\ m.from = Id(p) /\ m.to = Id(t) /\ m.kind = "reply"
  BY <1>1, <1>2 DEF Msg, Kinds
<1>4. Live(p) /\ p \notin inCall
  BY DEF Reply, Runs, Live, IInv, OpInv, InOp
<1>5. /\ pend' \in [Proc -> SUBSET Request]
      /\ \A x \in Proc : pend'[x] \subseteq pend[x]
      /\ UNCHANGED <<gen, bounced, timedOut, noted, callSeq, ops>>
  BY DEF Reply, IInv, TypeOK
<1>6. \A x \in Proc : \A y \in pend'[x] : y.who.pid \in Proc \ {x}
  BY <1>5 DEF IInv, SendersOK
<1>7. owed' \in [Proc -> Request]
  <2>1. owed' = owed \/ owed' = Settled(p)
    BY DEF Reply
  <2>2. Settled(p) \in [Proc -> Request]
    BY DEF IInv, TypeOK, Request, Settled
  <2>. QED
    BY <2>1, <2>2 DEF IInv, TypeOK
<1>8. CASE /\ Live(t) /\ peerDied' = peerDied \ {p}
           /\ Attempt(p, m, Enqueue(links, p, t), inbox, FALSE, FALSE, {})
  <2> HIDE DEF m
  <2>1. AttemptFrom(p, m, inbox, FALSE, FALSE, {})
    BY <1>1, <1>2, <1>3, <1>4, <1>5, <1>8 DEF AttemptFrom, IInv, TypeOK
  <2>2. Enqueue(links, p, t) \in Links
    BY <1>1, EnqueueType DEF IInv, TypeOK
  <2>3. RestTypes
    BY <1>5, <1>6, <1>7, <1>8 DEF RestTypes, IInv, TypeOK
  <2>. QED
    BY <1>3, <1>8, <2>1, <2>2, <2>3, AttemptIInv
<1>9. CASE UNCHANGED <<state, at, out, wait, inbox, links, acked, peerDied, inCall>>
  <2>1. TypeOK'
    BY <1>5, <1>7, <1>9 DEF IInv, TypeOK
  <2>2. OpInv'
    BY <1>5, <1>9 DEF IInv, OpInv, InOp, Live, Id
  <2>3. SendersOK'
    BY <1>6, <1>9 DEF IInv, SendersOK, HasMsg
  <2>4. ReplyFromCallee'
    BY <1>9 DEF IInv, ReplyFromCallee, HasMsg, Live
  <2>5. NoLostWakeup'
    BY <1>5, <1>9 DEF IInv, NoLostWakeup, HasMsg, Live, PeerGone, Late
  <2>. QED
    BY <2>1, <2>2, <2>3, <2>4, <2>5 DEF IInv
<1>. QED
  BY <1>8, <1>9 DEF Reply, t

\* The hypotheses of a delivery by a process that comes back to its loop.
LEMMA ResumedFrom ==
  ASSUME IInv, NEW p \in Proc, Runs(p, "queue") \/ Runs(p, "ack"),
         UNCHANGED <<gen, peerDied, timedOut, noted>>, bounced' \subseteq bounced
  PROVE  /\ AttemptFrom(p, out[p], inbox, PeerGone(p), Late(p), {})
         /\ wait[p].pid \in Proc /\ out[p].to = wait[p]
<1>1. /\ InOp(p) /\ Live(p) /\ wait[p].pid \in Proc \ {p} /\ out[p].to = wait[p]
      /\ out[p].from = Id(p) /\ out[p] \in Msg
      /\ p \in inCall <=> out[p].kind = "call"
  BY DEF IInv, TypeOK, OpInv, InOp, Runs
<1>2. wait[p] # NoRef
  BY <1>1, NoneAssumption DEF NoRef
<1>3. /\ ~PeerGone(p) => Live(wait[p].pid) /\ gen[wait[p].pid] = wait[p].gen /\ p \notin peerDied'
      /\ ~Late(p) => ~(out[p].kind = "call" /\ p \in timedOut')
  BY <1>1, <1>2 DEF PeerGone, Late
<1>. QED
  BY <1>1, <1>3 DEF AttemptFrom

LEMMA SameRest ==
  ASSUME IInv, UNCHANGED <<gen, peerDied, timedOut, noted, callSeq, owed, pend, ops>>,
         bounced' \subseteq bounced
  PROVE  RestTypes
<1>1. \A x \in Proc : \A r \in pend[x] : r.who.pid \in Proc \ {x}
  BY DEF IInv, SendersOK
<1>. QED
  BY <1>1 DEF IInv, TypeOK, RestTypes

\* The deposit of a process that is handed its message back at once.
LEMMA TwiceEffect ==
  ASSUME IInv, NEW p \in Proc, Runs(p, "queue"), DeliverTwice(p)
  PROVE  DeliveryEffect(p, out[p], links, inbox, PeerGone(p), Late(p), {})
<1> DEFINE m == out[p]
           t == m.to.pid
           q == links
<1>1. \/ Leave(p, m, {t})
      \/ Park(p, m, "queue", {t}) /\ p \notin noted /\ ~PeerGone(p) /\ ~Late(p)
  BY DEF DeliverTwice
<1>2. /\ inbox' = [inbox EXCEPT ![t] = m] /\ acked' = acked \ {p}
      /\ CanDeposit(p, t, q)
  BY DEF DeliverTwice
<1> HIDE DEF m, t, q
<1>3. CASE Leave(p, m, {t})
  <2>1. PICK W : t \in W /\ OthersKept(p, W)
    BY <1>3, LeaveEffect DEF IInv
  <2>. QED
    BY <1>2, <1>3, <2>1, LeaveEffect DEF IInv, DeliveryEffect, m, t, q
<1>4. CASE Park(p, m, "queue", {t}) /\ p \notin noted /\ ~PeerGone(p) /\ ~Late(p)
  BY <1>2, <1>4, ParkEffect DEF IInv, DeliveryEffect, m, t, q
<1>. QED
  BY <1>1, <1>3, <1>4

LEMMA DeliverTwiceStep ==
  ASSUME IInv, NEW p \in Proc, Runs(p, "queue"), DeliverTwice(p),
         UNCHANGED <<gen, peerDied, timedOut, noted, callSeq, owed, pend, ops>>
  PROVE  IInv'
<1> DEFINE m == out[p]
           t == m.to.pid
           q == links
<1>1. AttemptFrom(p, m, inbox, PeerGone(p), Late(p), {}) /\ RestTypes
  BY ResumedFrom, SameRest DEF DeliverTwice
<1>2. t \in Proc /\ m \in Msg /\ m.to \in Ref
  BY <1>1 DEF AttemptFrom, Msg
<1>4. /\ Remove(links, p) \in Links /\ Enqueue(Remove(links, p), p, t) \in Links
      /\ Remove(Enqueue(Remove(links, p), p, t), p) \in Links
  BY <1>2, LinkTypes, EnqueueType DEF IInv, TypeOK
<1>5. /\ Leave(p, m, {t}) \/ (Park(p, m, "queue", {t}) /\ p \notin noted /\ ~PeerGone(p) /\ ~Late(p))
      /\ links' \in Links
  BY <1>4 DEF DeliverTwice
<1>6. /\ inbox' = [inbox EXCEPT ![t] = m] /\ acked' = acked \ {p}
      /\ p \notin bounced' /\ CanDeposit(p, t, q)
  BY DEF DeliverTwice
<1> HIDE DEF m, t, q
<1>7. DeliveryTypes
  <2>1a. inbox' \in [Proc -> Msg] /\ acked' \subseteq Proc
    BY <1>2, <1>6 DEF IInv, TypeOK
  <2>1. inbox' \in [Proc -> Msg] /\ acked' \subseteq Proc /\ links' \in Links
    BY <1>5, <2>1a
  <2>2. CASE Leave(p, m, {t})
    BY <2>1, <2>2, NoMsgType DEF DeliveryTypes, Leave, Awake, Phases, IInv, TypeOK
  <2>3. CASE Park(p, m, "queue", {t})
    BY <1>2, <2>1, <2>3 DEF DeliveryTypes, Park, Awake, Phases, IInv, TypeOK
  <2>. QED
    BY <1>5, <2>2, <2>3
<1>8. DeliveryEffect(p, m, q, inbox, PeerGone(p), Late(p), {})
  BY TwiceEffect DEF m, t, q
<1>. QED
  BY <1>1, <1>6, <1>7, <1>8, DeliveryIInv DEF m

LEMMA InQueueStep ==
  ASSUME IInv, NEW p \in Proc, InQueue(p)
  PROVE  IInv'
<1>1. CASE DeliverTwice(p)
  BY <1>1, DeliverTwiceStep DEF InQueue
<1>2. CASE /\ \/ ~CanDeposit(p, wait[p].pid, links)
              \/ p \notin bounced \/ out[p].kind = "reply"
           /\ Attempt(p, out[p], links, inbox, PeerGone(p), Late(p), {})
           /\ UNCHANGED bounced
  <2>1. /\ AttemptFrom(p, out[p], inbox, PeerGone(p), Late(p), {}) /\ RestTypes
        /\ wait[p].pid \in Proc /\ out[p].to = wait[p]
    BY <1>2, ResumedFrom, SameRest DEF InQueue
  <2>2. links \in Links
    BY DEF IInv, TypeOK
  <2>. QED
    BY <1>2, <2>1, <2>2, AttemptIInv
<1>. QED
  BY <1>1, <1>2 DEF InQueue

LEMMA RedeliverStep ==
  ASSUME IInv, NEW p \in Proc, Redeliver(p)
  PROVE  IInv'
<1>1. /\ AttemptFrom(p, out[p], inbox, PeerGone(p), Late(p), {}) /\ RestTypes
      /\ wait[p].pid \in Proc /\ out[p].to = wait[p]
  BY ResumedFrom, SameRest DEF Redeliver
<1>2. Enqueue(links, p, wait[p].pid) \in Links
  BY <1>1, EnqueueType DEF IInv, TypeOK
<1>3. /\ p \notin bounced'
      /\ Attempt(p, out[p], Enqueue(links, p, wait[p].pid), inbox, PeerGone(p), Late(p), {})
  BY DEF Redeliver
<1>. QED
  BY <1>1, <1>2, <1>3, AttemptIInv

-----------------------------------------------------------------------------
(***************************************************************************)
(* The other steps.                                                        *)
(***************************************************************************)
\* What NoLostWakeup says of one process.
WaitOK(x) ==
  /\ at[x] # "user"
  /\ at[x] \in {"recv", "answer"} => ~HasMsg(x)
  /\ at[x] = "recv" => x \notin noted
  /\ at[x] \in {"queue", "ack", "answer"} => ~PeerGone(x) /\ ~Late(x)
  /\ at[x] = "queue" /\ out[x].kind # "reply" => x \notin noted
  /\ at[x] = "ack" => /\ x \notin acked
                      /\ x \notin bounced \/ out[x].kind = "reply"

\* A process that sleeps through a step of p, in the same wait as before and
\* with none of the stores made that could end it.
SleepsOn(x) ==
  /\ state[x] = "blocked"
  /\ at'[x] = at[x] /\ out'[x] = out[x] /\ wait'[x] = wait[x]
  /\ HasMsg(x)' => HasMsg(x)
  /\ x \in acked' => x \in acked
  /\ x \in bounced' => x \in bounced
  /\ x \in peerDied' => x \in peerDied
  /\ x \in timedOut' => x \in timedOut
  /\ x \in noted' => x \in noted

LEMMA SleepersKept ==
  ASSUME IInv, NEW x \in Proc, SleepsOn(x),
         at[x] \in {"queue", "ack", "answer"} =>
           /\ Live(wait[x].pid) => Live(wait[x].pid)'
           /\ gen'[wait[x].pid] = gen[wait[x].pid] \/ ~Live(wait[x].pid)
  PROVE  WaitOK(x)'
<1>1. WaitOK(x)
  BY DEF IInv, NoLostWakeup, WaitOK, SleepsOn
<1>2. at[x] \in {"queue", "ack", "answer"} => ~PeerGone(x)' /\ ~Late(x)'
  <2>1. SUFFICES ASSUME at[x] \in {"queue", "ack", "answer"}
                 PROVE  ~PeerGone(x)' /\ ~Late(x)'
    OBVIOUS
  <2>2. wait[x].pid \in Proc /\ wait[x] # NoRef
    BY <2>1, NoneAssumption DEF IInv, OpInv, InOp, NoRef
  <2>3. ~PeerGone(x) /\ ~Late(x)
    BY <1>1, <2>1 DEF WaitOK
  <2>4. Live(wait[x].pid) /\ gen[wait[x].pid] = wait[x].gen /\ x \notin peerDied
    BY <2>2, <2>3 DEF PeerGone
  <2>. QED
    BY <2>1, <2>2, <2>3, <2>4 DEF SleepsOn, PeerGone, Late, Live
<1>. QED
  BY <1>1, <1>2 DEF WaitOK, SleepsOn

\* The rest of a step that creates and destroys nobody.
LEMMA WakesFromSleepers ==
  ASSUME IInv, gen' = gen,
         \A x \in Proc : Live(x) => Live(x)',
         \A x \in Proc : state'[x] = "blocked" => SleepsOn(x) \/ WaitOK(x)'
  PROVE  NoLostWakeup'
<1> SUFFICES ASSUME NEW x \in Proc, state'[x] = "blocked"
             PROVE  WaitOK(x)'
  BY DEF NoLostWakeup, WaitOK
<1>1. at[x] \in {"queue", "ack", "answer"} => wait[x].pid \in Proc
  BY DEF IInv, OpInv, InOp
<1>2. CASE SleepsOn(x)
  <2>1. wait'[x] = wait[x]
    BY <1>2 DEF SleepsOn
  <2>2. at[x] \in {"queue", "ack", "answer"} =>
          /\ Live(wait[x].pid) => Live(wait[x].pid)'
          /\ gen'[wait[x].pid] = gen[wait[x].pid]
    BY <1>1, <2>1 DEF Live
  <2>. QED
    BY <1>2, <2>2, SleepersKept
<1>. QED
  BY <1>2

\* A message is read: its sender and the senders queued on p are awake afterwards.
LEMMA ConsumeStep ==
  ASSUME IInv, NEW p \in Proc, Consume(p), Runs(p, "user") \/ Runs(p, "recv")
  PROVE  IInv'
<1> DEFINE m == inbox[p]
           r == [who |-> m.from, seq |-> m.seq]
           W == Queued(links', p) \cup AckTo(m)
<1>1. r \in Request /\ r.who.pid \in Proc \ {p} /\ NoMsg \in Msg
  BY NoMsgType DEF IInv, TypeOK, Msg, Request, SendersOK, Consume
<1>2. /\ inbox' = [inbox EXCEPT ![p] = NoMsg]
      /\ owed' = [owed EXCEPT ![p] = r]
      /\ acked' = acked \cup AckTo(m)
      /\ at' = [at EXCEPT ![p] = "user"]
      /\ state' = Awake(W, p, "runnable")
      /\ UNCHANGED <<gen, out, wait, links, bounced, peerDied, timedOut, inCall,
                     noted, callSeq, ops>>
  BY DEF Consume
<1>2p. pend' = [pend EXCEPT ![p] = pend[p] \cup {r}] \/ pend' = pend
  BY DEF Consume
<1>2a. AckTo(m) \subseteq Proc
  BY DEF AckTo
<1> HIDE DEF m, r, W
<1>3. TypeOK'
  <2>1. state' \in [Proc -> {"unused", "runnable", "blocked"}]
    BY <1>2 DEF Awake, IInv, TypeOK
  <2>2. at' \in [Proc -> Phases] /\ inbox' \in [Proc -> Msg] /\ owed' \in [Proc -> Request]
    BY <1>1, <1>2 DEF IInv, TypeOK, Phases
  <2>3. pend' \in [Proc -> SUBSET Request]
    <3>1. pend \in [Proc -> SUBSET Request]
      BY DEF IInv, TypeOK
    <3>. QED
      BY <1>1, <1>2p, <3>1
  <2>. QED
    BY <1>2, <1>2a, <2>1, <2>2, <2>3 DEF IInv, TypeOK
<1>4. \A x \in Proc : /\ state'[x] = "unused" <=> state[x] = "unused"
                      /\ x # p => at'[x] = at[x] /\ inbox'[x] = inbox[x]
                      /\ state'[x] = "blocked" => state[x] = "blocked" /\ x # p /\ x \notin W
  BY <1>2 DEF Awake, IInv, TypeOK, Runs
<1>5. at'[p] = "user" /\ inbox'[p] = NoMsg /\ at[p] \in {"user", "recv"}
  BY <1>2 DEF IInv, TypeOK, Runs
<1>5a. UNCHANGED <<gen, out, wait, inCall>>
  BY <1>2
<1>6. OpInv'
  BY <1>4, <1>5, <1>5a DEF IInv, OpInv, InOp, Live, Id
<1>7. SendersOK'
  <2>1. \A x \in Proc : \A y \in pend'[x] : y \in pend[x] \/ (x = p /\ y = r)
    <3>1. pend \in [Proc -> SUBSET Request]
      BY DEF IInv, TypeOK
    <3>2. CASE pend' = [pend EXCEPT ![p] = pend[p] \cup {r}]
      <4>1. \A x \in Proc : pend'[x] = IF x = p THEN pend[p] \cup {r} ELSE pend[x]
        BY <3>1, <3>2
      <4>. QED
        BY <4>1
    <3>. QED
      BY <1>2p, <3>2
  <2>. QED
    BY <1>1, <1>4, <1>5, <2>1 DEF IInv, SendersOK, HasMsg, NoMsg, NoRef
<1>8. ReplyFromCallee'
  BY <1>4, <1>5, <1>5a DEF IInv, ReplyFromCallee, HasMsg, NoMsg, NoRef, Live
<1>9. NoLostWakeup'
  <2>1. \A x \in Proc : state'[x] = "blocked" => SleepsOn(x)
    BY <1>2, <1>4 DEF SleepsOn, HasMsg, W
  <2>. QED
    BY <1>2, <1>4, <2>1, WakesFromSleepers DEF Live
<1>. QED
  BY <1>3, <1>6, <1>7, <1>8, <1>9 DEF IInv

LEMMA RecvStep ==
  ASSUME IInv, NEW p \in Proc, Recv(p)
  PROVE  IInv'
<1>1. TypeOK'
  BY DEF Recv, IInv, TypeOK, Phases
<1>2. \A x \in Proc : /\ state'[x] = "unused" <=> state[x] = "unused"
                      /\ x # p => at'[x] = at[x] /\ state'[x] = state[x]
  BY DEF Recv, IInv, TypeOK, Runs
<1>3. at'[p] = "recv" /\ at[p] = "user" /\ state'[p] = "blocked"
  BY DEF Recv, IInv, TypeOK, Runs
<1>4. OpInv'
  BY <1>2, <1>3 DEF Recv, IInv, OpInv, InOp, Live, Id
<1>5. SendersOK'
  BY DEF Recv, IInv, SendersOK, HasMsg
<1>6. ReplyFromCallee'
  BY <1>2 DEF Recv, IInv, ReplyFromCallee, HasMsg, Live
<1>7. NoLostWakeup'
  <2>1. \A x \in Proc : x # p /\ state'[x] = "blocked" => SleepsOn(x)
    BY <1>2 DEF Recv, SleepsOn, HasMsg
  <2>2. WaitOK(p)'
    BY <1>3 DEF Recv, WaitOK, HasMsg
  <2>. QED
    BY <1>2, <2>1, <2>2, WakesFromSleepers DEF Recv, Live
<1>. QED
  BY <1>1, <1>4, <1>5, <1>6, <1>7 DEF IInv

\* The spurious wake of a process with nothing to do.
LEMMA DozeStep ==
  ASSUME IInv, NEW p \in Proc, Doze(p), Live(p), WaitOK(p)
  PROVE  IInv'
<1>1. TypeOK'
  BY DEF Doze, IInv, TypeOK
<1>2. \A x \in Proc : /\ state'[x] = "unused" <=> state[x] = "unused"
                      /\ x # p => state'[x] = state[x]
  BY DEF Doze, IInv, TypeOK, Live
<1>4. OpInv'
  BY <1>2 DEF Doze, IInv, OpInv, InOp, Live, Id
<1>5. SendersOK'
  BY DEF Doze, IInv, SendersOK, HasMsg
<1>6. ReplyFromCallee'
  BY <1>2 DEF Doze, IInv, ReplyFromCallee, HasMsg, Live
<1>7. NoLostWakeup'
  <2>1. \A x \in Proc : x # p /\ state'[x] = "blocked" => SleepsOn(x)
    BY <1>2 DEF Doze, SleepsOn, HasMsg
  <2>2. WaitOK(p)'
    <3>1. at[p] \in {"queue", "ack", "answer"} => wait[p].pid \in Proc
      BY DEF IInv, OpInv, InOp
    <3>2. at[p] \in {"queue", "ack", "answer"} => ~PeerGone(p)' /\ ~Late(p)'
      BY <1>2, <3>1 DEF Doze, WaitOK, PeerGone, Late, Live
    <3>. QED
      BY <3>2 DEF Doze, WaitOK, HasMsg
  <2>. QED
    BY <1>2, <2>1, <2>2, WakesFromSleepers DEF Doze, Live
<1>. QED
  BY <1>1, <1>4, <1>5, <1>6, <1>7 DEF IInv

LEMMA InRecvStep ==
  ASSUME IInv, NEW p \in Proc, InRecv(p)
  PROVE  IInv'
<1>1. CASE Consume(p)
  BY <1>1, ConsumeStep DEF InRecv
<1>2. CASE ~HasMsg(p) /\ p \notin noted /\ Doze(p)
  <2>1. Live(p) /\ WaitOK(p)
    BY <1>2 DEF InRecv, Runs, Live, WaitOK
  <2>. QED
    BY <1>2, <2>1, DozeStep
<1>3. CASE /\ at' = [at EXCEPT ![p] = "user"]
           /\ UNCHANGED <<state, gen, out, wait, inbox, links, acked, bounced,
                          peerDied, timedOut, inCall, noted, callSeq, owed, pend,
                          ops>>
  <2>1. TypeOK'
    BY <1>3 DEF IInv, TypeOK, Phases
  <2>2. /\ at'[p] = "user" /\ at[p] = "recv" /\ state[p] = "runnable"
        /\ \A x \in Proc : x # p => at'[x] = at[x]
    BY <1>3 DEF IInv, TypeOK, InRecv, Runs
  <2>3. OpInv'
    BY <1>3, <2>2 DEF IInv, OpInv, InOp, Live, Id
  <2>4. SendersOK' /\ ReplyFromCallee'
    BY <1>3 DEF IInv, SendersOK, ReplyFromCallee, HasMsg, Live
  <2>5. \A x \in Proc : state'[x] = "blocked" => SleepsOn(x)
    BY <1>3, <2>2 DEF SleepsOn, HasMsg
  <2>6. NoLostWakeup'
    BY <1>3, <2>5, WakesFromSleepers DEF Live
  <2>. QED
    BY <2>1, <2>3, <2>4, <2>6 DEF IInv
<1>. QED
  BY <1>1, <1>2, <1>3 DEF InRecv

\* A process leaves its system call: it may have emptied inboxes, and those it has
\* acknowledged are awake.
LEMMA LeaveStep ==
  ASSUME IInv, NEW p \in Proc, Live(p), NEW m, NEW S, Leave(p, m, S),
         inbox' \in [Proc -> Msg],
         \A x \in Proc : inbox'[x] = inbox[x] \/ inbox'[x] = NoMsg,
         acked' \subseteq Proc, acked' \subseteq acked \cup S,
         bounced' \subseteq bounced,
         UNCHANGED <<gen, links, peerDied, timedOut, noted, callSeq, owed, pend, ops>>
  PROVE  IInv'
<1>1. PICK W : S \subseteq W /\ OthersKept(p, W)
  BY LeaveEffect DEF IInv
<1>2. /\ at'[p] = "user" /\ out'[p] = NoMsg /\ wait'[p] = NoRef
      /\ state'[p] = "runnable" /\ p \notin inCall'
  BY LeaveEffect DEF IInv
<1>3. TypeOK'
  <2>1. /\ state' \in [Proc -> {"unused", "runnable", "blocked"}]
        /\ at' \in [Proc -> Phases] /\ out' \in [Proc -> Msg]
        /\ wait' \in [Proc -> Ref] /\ inCall' \subseteq Proc
    BY NoMsgType DEF Leave, Awake, Phases, IInv, TypeOK
  <2>. QED
    BY <2>1 DEF IInv, TypeOK
<1>4. \A x \in Proc : state'[x] = "unused" <=> state[x] = "unused"
  BY <1>1, <1>2 DEF OthersKept, Live
<1>5. OpInv'
  BY <1>1, <1>2 DEF OthersKept, IInv, OpInv, InOp, Live, Id
<1>6. SendersOK'
  BY DEF IInv, SendersOK, HasMsg, NoMsg, NoRef
<1>7. ReplyFromCallee'
  BY <1>1, <1>2 DEF OthersKept, IInv, ReplyFromCallee, HasMsg, NoMsg, NoRef, Live
<1>8. NoLostWakeup'
  <2>1. \A x \in Proc : state'[x] = "blocked" => SleepsOn(x)
    BY <1>1, <1>2 DEF OthersKept, SleepsOn, HasMsg, NoMsg, NoRef
  <2>. QED
    BY <1>4, <2>1, WakesFromSleepers DEF Live
<1>. QED
  BY <1>3, <1>5, <1>6, <1>7, <1>8 DEF IInv

\* Phase 3 of ipc_call.
LEMMA AnswerStep ==
  ASSUME IInv, NEW p \in Proc, InOp(p), out[p].kind = "call", Answer(p),
         UNCHANGED <<gen, links, bounced, peerDied, timedOut, noted, callSeq,
                     owed, pend, ops>>
  PROVE  IInv'
<1>1. /\ Live(p) /\ out[p] \in Msg /\ wait[p].pid \in Proc \ {p}
      /\ out[p].to = wait[p] /\ out[p].from = Id(p) /\ p \in inCall
  BY DEF IInv, TypeOK, OpInv
<1>2. CASE TakeReply(p)
  <2>1. /\ Leave(p, out[p], AckTo(inbox[p]))
        /\ acked' = acked \cup AckTo(inbox[p]) /\ AckTo(inbox[p]) \subseteq Proc
        /\ inbox' = [inbox EXCEPT ![p] = NoMsg]
    BY <1>2 DEF TakeReply, AckTo
  <2>2. inbox' \in [Proc -> Msg]
        /\ \A x \in Proc : inbox'[x] = inbox[x] \/ inbox'[x] = NoMsg
    BY <2>1, NoMsgType DEF IInv, TypeOK
  <2>3. acked \subseteq Proc
    BY DEF IInv, TypeOK
  <2>. QED
    BY <1>1, <2>1, <2>2, <2>3, LeaveStep
<1>3. CASE Leave(p, out[p], {}) /\ UNCHANGED <<inbox, acked>>
  <2>1. inbox \in [Proc -> Msg] /\ acked \subseteq Proc
    BY DEF IInv, TypeOK
  <2>. QED
    BY <1>1, <1>3, <2>1, LeaveStep
<1>4. CASE /\ ~HasMsg(p) /\ ~PeerGone(p) /\ ~Late(p)
           /\ Park(p, out[p], "answer", {})
           /\ UNCHANGED <<inbox, acked>>
  <2>1. /\ at'[p] = "answer" /\ out'[p] = out[p] /\ wait'[p] = wait[p]
        /\ state'[p] = "blocked" /\ p \in inCall'
        /\ OthersKept(p, {})
    BY <1>1, <1>4, ParkEffect DEF IInv
  <2>2. TypeOK'
    <3>1. /\ state' \in [Proc -> {"unused", "runnable", "blocked"}]
          /\ at' \in [Proc -> Phases] /\ out' \in [Proc -> Msg] /\ inCall' \subseteq Proc
      BY <1>1, <1>4 DEF Park, Awake, Phases, IInv, TypeOK
    <3>2. wait' \in [Proc -> Ref]
      BY <1>1, <1>4 DEF Park, Msg, IInv, TypeOK
    <3>. QED
      BY <1>4, <3>1, <3>2 DEF IInv, TypeOK
  <2>3. \A x \in Proc : state'[x] = "unused" <=> state[x] = "unused"
    BY <1>1, <2>1 DEF OthersKept, Live
  <2>4. OpInv'
    BY <1>1, <2>1 DEF OthersKept, IInv, OpInv, InOp, Live, Id
  <2>5. SendersOK'
    BY <1>4 DEF IInv, SendersOK, HasMsg
  <2>6. ReplyFromCallee'
    BY <1>1, <1>4, <2>1, <2>3 DEF OthersKept, IInv, ReplyFromCallee, HasMsg, Live
  <2>7. NoLostWakeup'
    <3>1. \A x \in Proc : x # p /\ state'[x] = "blocked" => SleepsOn(x)
      BY <1>4, <2>1 DEF OthersKept, SleepsOn, HasMsg
    <3>2. WaitOK(p)'
      <4>1. ~PeerGone(p)' /\ ~Late(p)'
        BY <1>1, <1>4, <2>1, <2>3 DEF PeerGone, Late, Live
      <4>. QED
        BY <1>4, <2>1, <4>1 DEF WaitOK, HasMsg
    <3>. QED
      BY <2>3, <3>1, <3>2, WakesFromSleepers DEF Live
  <2>. QED
    BY <2>2, <2>4, <2>5, <2>6, <2>7 DEF IInv
<1>. QED
  BY <1>2, <1>3, <1>4 DEF Answer

LEMMA InAnswerStep ==
  ASSUME IInv, NEW p \in Proc, InAnswer(p)
  PROVE  IInv'
<1>1. InOp(p) /\ out[p].kind = "call"
  BY DEF InAnswer, Runs, InOp, IInv, OpInv
<1>. QED
  BY <1>1, AnswerStep DEF InAnswer

LEMMA AcknowledgedStep ==
  ASSUME IInv, NEW p \in Proc, Acknowledged(p)
  PROVE  IInv'
<1>1. InOp(p) /\ Live(p) /\ inbox \in [Proc -> Msg] /\ acked \subseteq Proc
  BY DEF Acknowledged, Runs, InOp, Live, IInv, TypeOK
<1>2. UNCHANGED <<gen, links, bounced, peerDied, timedOut, noted, callSeq,
                  owed, pend, ops>>
  BY DEF Acknowledged
<1>3. CASE out[p].kind = "call" /\ Answer(p)
  BY <1>1, <1>2, <1>3, AnswerStep
<1>4. CASE Leave(p, out[p], {}) /\ UNCHANGED <<inbox, acked>>
  BY <1>1, <1>2, <1>4, LeaveStep
<1>. QED
  BY <1>3, <1>4 DEF Acknowledged

LEMMA NotAcknowledgedStep ==
  ASSUME IInv, NEW p \in Proc, NotAcknowledged(p)
  PROVE  IInv'
<1> DEFINE t == wait[p].pid
<1>1. Live(p) /\ t \in Proc /\ inbox \in [Proc -> Msg] /\ acked \subseteq Proc
  BY DEF NotAcknowledged, Runs, Live, IInv, TypeOK, OpInv, InOp
<1>2. CASE ~PeerGone(p) /\ ~Late(p) /\ Doze(p)
  <2>1. WaitOK(p)
    BY <1>2 DEF NotAcknowledged, Runs, WaitOK
  <2>. QED
    BY <1>1, <1>2, <2>1, DozeStep
<1>3. CASE /\ inbox' = IF Yank(p) THEN [inbox EXCEPT ![t] = NoMsg] ELSE inbox
           /\ Leave(p, out[p], IF Yank(p) THEN Queued(links, t) ELSE {})
           /\ UNCHANGED <<gen, links, acked, bounced, peerDied, timedOut, noted,
                          callSeq, owed, pend, ops>>
  <2> DEFINE S == IF Yank(p) THEN Queued(links, t) ELSE {}
  <2>1. inbox' \in [Proc -> Msg]
        /\ \A x \in Proc : inbox'[x] = inbox[x] \/ inbox'[x] = NoMsg
    BY <1>1, <1>3, NoMsgType
  <2>2. Leave(p, out[p], S)
    BY <1>3
  <2> HIDE DEF S
  <2>. QED
    BY <1>1, <1>3, <2>1, <2>2, LeaveStep
<1>. QED
  BY <1>2, <1>3 DEF NotAcknowledged

LEMMA SweepStep ==
  ASSUME IInv, NEW D \in SUBSET inCall, Sweep(D)
  PROVE  IInv'
<1>1. \A x \in Proc : /\ state'[x] = "unused" <=> state[x] = "unused"
                      /\ state'[x] = "blocked" => state[x] = "blocked" /\ x \notin D
  BY DEF Sweep
<1>2. TypeOK'
  <2>1. state' \in [Proc -> {"unused", "runnable", "blocked"}]
    BY DEF Sweep, IInv, TypeOK
  <2>. QED
    BY <2>1 DEF Sweep, IInv, TypeOK
<1>3. OpInv'
  BY <1>1 DEF Sweep, IInv, OpInv, InOp, Live, Id
<1>4. SendersOK' /\ ReplyFromCallee'
  BY <1>1 DEF Sweep, IInv, SendersOK, ReplyFromCallee, HasMsg, Live
<1>5. NoLostWakeup'
  <2>1. \A x \in Proc : state'[x] = "blocked" => SleepsOn(x)
    BY <1>1 DEF Sweep, SleepsOn, HasMsg
  <2>. QED
    BY <1>1, <2>1, WakesFromSleepers DEF Sweep, Live
<1>. QED
  BY <1>2, <1>3, <1>4, <1>5 DEF IInv

LEMMA NoteStep ==
  ASSUME IInv, NEW p \in Proc, PostNote(p) \/ DeliverNote(p)
  PROVE  IInv'
<1>1. /\ UNCHANGED <<gen, at, out, wait, inbox, links, acked, bounced, peerDied,
                     timedOut, inCall, callSeq, owed, pend, ops>>
      /\ noted' \subseteq Proc /\ noted' \subseteq noted \cup {p}
  BY DEF PostNote, DeliverNote, IInv, TypeOK
<1>2. \A x \in Proc : /\ state'[x] = "unused" <=> state[x] = "unused"
                      /\ state'[x] = "blocked" => state[x] = "blocked" /\ x # p
  BY DEF PostNote, DeliverNote, Awake, Live, Runs
<1>3. state' \in [Proc -> {"unused", "runnable", "blocked"}]
  BY DEF PostNote, DeliverNote, Awake, IInv, TypeOK
<1>4. TypeOK'
  BY <1>1, <1>3 DEF IInv, TypeOK
<1>5. OpInv'
  BY <1>1, <1>2 DEF IInv, OpInv, InOp, Live, Id
<1>6. SendersOK' /\ ReplyFromCallee'
  BY <1>1, <1>2 DEF IInv, SendersOK, ReplyFromCallee, HasMsg, Live
<1>7. NoLostWakeup'
  <2>1. \A x \in Proc : state'[x] = "blocked" => SleepsOn(x)
    BY <1>1, <1>2 DEF SleepsOn, HasMsg
  <2>. QED
    BY <1>1, <1>2, <2>1, WakesFromSleepers DEF Live
<1>. QED
  BY <1>4, <1>5, <1>6, <1>7 DEF IInv

\* The waiters on a process that dies are awake afterwards; whoever sleeps on waits
\* for somebody else.
LEMMA DestroyStep ==
  ASSUME IInv, NEW p \in Proc, Destroy(p)
  PROVE  IInv'
<1>1. \A x \in Proc \ {p} :
        /\ state'[x] = "unused" <=> state[x] = "unused"
        /\ state'[x] = "blocked" => state[x] = "blocked" /\ x \notin Waiters(p)
        /\ at'[x] = at[x] /\ out'[x] = out[x] /\ pend'[x] = pend[x]
  BY DEF Destroy, Awake, IInv, TypeOK
<1>2. state'[p] = "unused" /\ at'[p] = "user" /\ pend'[p] = {}
  BY DEF Destroy, Awake, IInv, TypeOK
<1>3. /\ UNCHANGED <<gen, wait, inbox, acked, bounced, timedOut, inCall, noted,
                     callSeq, owed>>
      /\ peerDied' = peerDied \cup Waiters(p)
  BY DEF Destroy
<1>4. TypeOK'
  <2>1. links' \in Links
    <3>1. Remove(links, p) \in Links /\ None \in Pid
      BY LinkTypes DEF IInv, TypeOK, Pid
    <3>. QED
      BY <3>1 DEF Destroy, Links
  <2>2. /\ state' \in [Proc -> {"unused", "runnable", "blocked"}]
        /\ at' \in [Proc -> Phases] /\ out' \in [Proc -> Msg]
    BY NoMsgType DEF Destroy, Awake, Phases, IInv, TypeOK
  <2>3. pend' \in [Proc -> SUBSET Request] /\ ops' \in [Proc -> Nat]
    BY DEF Destroy, IInv, TypeOK
  <2>4. peerDied' \subseteq Proc
    BY DEF Destroy, Waiters, IInv, TypeOK
  <2>. QED
    BY <1>3, <2>1, <2>2, <2>3, <2>4 DEF IInv, TypeOK
<1>5. OpInv'
  BY <1>1, <1>2, <1>3 DEF IInv, OpInv, InOp, Live, Id
<1>6. SendersOK'
  BY <1>1, <1>2, <1>3 DEF IInv, SendersOK, HasMsg
<1>7. ReplyFromCallee'
  BY <1>1, <1>2, <1>3 DEF IInv, ReplyFromCallee, HasMsg, Live
<1>8. ASSUME NEW x \in Proc, state'[x] = "blocked"
      PROVE  WaitOK(x)'
  <2>1. x # p /\ state[x] = "blocked" /\ x \notin Waiters(p) /\ Live(x)
    BY <1>1, <1>2, <1>8 DEF Live
  <2>2. SleepsOn(x)
    BY <1>1, <1>3, <2>1 DEF SleepsOn, HasMsg
  <2>3. ASSUME at[x] \in {"queue", "ack", "answer"}
        PROVE  wait[x].pid \in Proc \ {p}
    <3>1. wait[x].pid \in Proc /\ wait[x] \in Ref
      BY <2>3 DEF IInv, OpInv, InOp, TypeOK
    <3>2. ~PeerGone(x) /\ wait[x] # NoRef
      BY <2>1, <2>3, <3>1, NoneAssumption DEF IInv, NoLostWakeup, NoRef
    <3>3. gen[wait[x].pid] = wait[x].gen
      BY <3>2 DEF PeerGone
    <3>4. wait[x].pid # p
      BY <2>1, <3>1, <3>3 DEF Waiters, Id, Ref
    <3>. QED
      BY <3>1, <3>4
  <2>4. at[x] \in {"queue", "ack", "answer"} =>
          /\ Live(wait[x].pid) => Live(wait[x].pid)'
          /\ gen'[wait[x].pid] = gen[wait[x].pid]
    BY <1>1, <1>3, <2>3 DEF Live
  <2>. QED
    BY <2>2, <2>4, SleepersKept
<1>9. NoLostWakeup'
  BY <1>8 DEF NoLostWakeup, WaitOK
<1>. QED
  BY <1>4, <1>5, <1>6, <1>7, <1>9 DEF IInv

\* Nobody sleeps waiting for an empty slot, so a new occupant misleads nobody.
LEMMA CreateStep ==
  ASSUME IInv, NEW p \in Proc, Create(p)
  PROVE  IInv'
<1>1. \A x \in Proc \ {p} :
        /\ state'[x] = state[x] /\ gen'[x] = gen[x] /\ at'[x] = at[x]
        /\ out'[x] = out[x] /\ wait'[x] = wait[x] /\ inbox'[x] = inbox[x]
        /\ pend'[x] = pend[x]
  BY DEF Create, IInv, TypeOK
<1>2. /\ state'[p] = "runnable" /\ at'[p] = "user" /\ wait'[p] = NoRef
      /\ inbox'[p] = NoMsg /\ pend'[p] = {} /\ ~Live(p)
  BY DEF Create, IInv, TypeOK
<1>3. /\ acked' = acked \ {p} /\ bounced' = bounced \ {p} /\ peerDied' = peerDied \ {p}
      /\ timedOut' = timedOut \ {p} /\ inCall' = inCall \ {p} /\ noted' = noted \ {p}
  BY DEF Create
<1>4. TypeOK'
  <2>1. state' \in [Proc -> {"unused", "runnable", "blocked"}] /\ at' \in [Proc -> Phases]
    BY DEF Create, Phases, IInv, TypeOK
  <2>1a. gen' \in [Proc -> Nat] /\ callSeq' \in [Proc -> Nat] /\ ops' \in [Proc -> Nat]
    BY DEF Create, IInv, TypeOK
  <2>2. /\ out' \in [Proc -> Msg] /\ wait' \in [Proc -> Ref] /\ inbox' \in [Proc -> Msg]
        /\ owed' \in [Proc -> Request]
    BY NoMsgType DEF Create, IInv, TypeOK
  <2>3a. Loose(links, p) \in Links /\ None \in Pid
    BY LinkTypes DEF IInv, TypeOK, Pid
  <2>3. links' \in Links /\ pend' \in [Proc -> SUBSET Request]
    BY <2>3a DEF Create, IInv, TypeOK, Links
  <2>. QED
    BY <1>3, <2>1, <2>1a, <2>2, <2>3 DEF IInv, TypeOK
<1>5. OpInv'
  BY <1>1, <1>2, <1>3 DEF IInv, OpInv, InOp, Live, Id
<1>6. SendersOK'
  BY <1>1, <1>2 DEF IInv, SendersOK, HasMsg, NoMsg, NoRef
<1>7. ReplyFromCallee'
  BY <1>1, <1>2, <1>3 DEF IInv, ReplyFromCallee, HasMsg, NoMsg, NoRef, Live
<1>8. ASSUME NEW x \in Proc, state'[x] = "blocked"
      PROVE  WaitOK(x)'
  <2>1. x # p /\ state[x] = "blocked"
    BY <1>1, <1>2, <1>8
  <2>2. SleepsOn(x)
    BY <1>1, <1>3, <2>1 DEF SleepsOn, HasMsg
  <2>3. at[x] \in {"queue", "ack", "answer"} => wait[x].pid \in Proc
    BY DEF IInv, OpInv, InOp
  <2>4. at[x] \in {"queue", "ack", "answer"} =>
          /\ Live(wait[x].pid) => Live(wait[x].pid)'
          /\ gen'[wait[x].pid] = gen[wait[x].pid] \/ ~Live(wait[x].pid)
    BY <1>1, <1>2, <2>1, <2>3 DEF Live
  <2>. QED
    BY <2>2, <2>4, SleepersKept
<1>9. NoLostWakeup'
  BY <1>8 DEF NoLostWakeup, WaitOK
<1>. QED
  BY <1>4, <1>5, <1>6, <1>7, <1>9 DEF IInv

LEMMA InitIInv == Init => IInv
<1> SUFFICES ASSUME Init PROVE IInv
  OBVIOUS
<1>0. links \in Links
  BY DEF Init, Links, NoLinks, Pid
<1>1. TypeOK
  BY <1>0, NoMsgType DEF Init, TypeOK, Phases
<1>2. OpInv /\ SendersOK
  BY DEF Init, OpInv, SendersOK, InOp, HasMsg, NoMsg, NoRef
<1>3. ReplyFromCallee /\ NoLostWakeup
  BY DEF Init, ReplyFromCallee, NoLostWakeup
<1>. QED
  BY <1>1, <1>2, <1>3 DEF IInv

LEMMA NextIInv == IInv /\ [Next]_vars => IInv'
<1> SUFFICES ASSUME IInv, [Next]_vars PROVE IInv'
  OBVIOUS
<1>1. ASSUME NEW p \in Proc, Syscall(p) PROVE IInv'
  BY <1>1, SendStep, CallStep, ReplyStep, ConsumeStep, RecvStep DEF Syscall, Poll
<1>2. ASSUME NEW p \in Proc, Resume(p) PROVE IInv'
  BY <1>2, InRecvStep, InQueueStep, InAnswerStep, AcknowledgedStep, RedeliverStep,
     NotAcknowledgedStep DEF Resume
<1>3. ASSUME NEW p \in Proc,
             PostNote(p) \/ DeliverNote(p) \/ Destroy(p) \/ Create(p)
      PROVE  IInv'
  BY <1>3, NoteStep, DestroyStep, CreateStep
<1>4. ASSUME NEW D \in SUBSET inCall, Sweep(D) PROVE IInv'
  BY <1>4, SweepStep
<1>5. CASE UNCHANGED vars
  <2>1. TypeOK'
    BY <1>5 DEF vars, IInv, TypeOK
  <2>2. OpInv'
    BY <1>5 DEF vars, IInv, OpInv, InOp, Live, Id
  <2>3. SendersOK' /\ ReplyFromCallee'
    BY <1>5 DEF vars, IInv, SendersOK, ReplyFromCallee, HasMsg, Live
  <2>4. NoLostWakeup'
    BY <1>5 DEF vars, IInv, NoLostWakeup, HasMsg, Live, PeerGone, Late
  <2>. QED
    BY <2>1, <2>2, <2>3, <2>4 DEF IInv
<1>. QED
  BY <1>1, <1>2, <1>3, <1>4, <1>5 DEF Next

-----------------------------------------------------------------------------
(***************************************************************************)
(* Queues as sequences, and the links that hold them.                      *)
(***************************************************************************)
Members(q) == {q[i] : i \in DOMAIN q}

\* A queue holds nobody twice.
Distinct(q) == \A i, j \in DOMAIN q : q[i] = q[j] => i = j

\* q without p.
Place(q, p) == CHOOSE i \in DOMAIN q : q[i] = p
Unlink(q, p) ==
  IF p \in Members(q)
  THEN [k \in 1 .. Len(q) - 1 |-> IF k < Place(q, p) THEN q[k] ELSE q[k + 1]]
  ELSE q

LEMMA MembersOf ==
  ASSUME NEW q \in Seq(Proc)
  PROVE  /\ Len(q) \in Nat /\ DOMAIN q = 1 .. Len(q)
         /\ \A i \in 1 .. Len(q) : q[i] \in Proc /\ q[i] \in Members(q)
         /\ \A x \in Members(q) : x \in Proc /\ \E i \in 1 .. Len(q) : q[i] = x
         /\ Len(q) = 0 => Members(q) = {}
<1>1. Len(q) \in Nat /\ DOMAIN q = 1 .. Len(q)
  BY LenProperties
<1>2. \A i \in 1 .. Len(q) : q[i] \in Proc
  BY ElementOfSeq
<1>. QED
  BY <1>1, <1>2 DEF Members

LEMMA PlaceOf ==
  ASSUME NEW q \in Seq(Proc), NEW p \in Members(q)
  PROVE  Place(q, p) \in 1 .. Len(q) /\ q[Place(q, p)] = p
<1>1. \E i \in DOMAIN q : q[i] = p
  BY DEF Members
<1>. QED
  BY <1>1, MembersOf DEF Place

LEMMA UnlinkProperties ==
  ASSUME NEW q \in Seq(Proc), NEW p \in Proc
  PROVE  /\ Unlink(q, p) \in Seq(Proc)
         /\ Members(Unlink(q, p)) \subseteq Members(q)
         /\ Members(q) \ {p} \subseteq Members(Unlink(q, p))
         /\ Distinct(q) => Distinct(Unlink(q, p)) /\ p \notin Members(Unlink(q, p))
         /\ p \in Members(q) => Len(Unlink(q, p)) = Len(q) - 1
<1>0. /\ Len(q) \in Nat /\ DOMAIN q = 1 .. Len(q)
      /\ \A i \in 1 .. Len(q) : q[i] \in Proc /\ q[i] \in Members(q)
      /\ \A x \in Members(q) : \E i \in 1 .. Len(q) : q[i] = x
  BY MembersOf
<1>1. CASE p \notin Members(q)
  BY <1>1 DEF Unlink
<1>2. CASE p \in Members(q)
  <2>1. PICK i \in 1 .. Len(q) : i = Place(q, p) /\ q[i] = p
    BY <1>2, PlaceOf
  <2> DEFINE u == [k \in 1 .. Len(q) - 1 |-> IF k < i THEN q[k] ELSE q[k + 1]]
  <2>2. Unlink(q, p) = u
    BY <1>2, <2>1 DEF Unlink
  <2>3. Len(q) - 1 \in Nat /\ \A k \in 1 .. Len(q) - 1 : k \in 1 .. Len(q) /\ k + 1 \in 1 .. Len(q)
    BY <1>0
  <2>4. u \in Seq(Proc) /\ Len(u) = Len(q) - 1 /\ DOMAIN u = 1 .. Len(q) - 1
    <3>1. u \in [1 .. Len(q) - 1 -> Proc]
      BY <1>0, <2>3
    <3>. QED
      BY <2>3, <3>1, SeqDef, LenProperties
  <2>5. \A k \in 1 .. Len(q) - 1 : u[k] = IF k < i THEN q[k] ELSE q[k + 1]
    OBVIOUS
  <2> HIDE DEF u
  <2>6. Members(u) \subseteq Members(q)
    <3>1. \A k \in 1 .. Len(q) - 1 : u[k] \in Members(q)
      BY <1>0, <2>3, <2>5
    <3>2. Members(u) = {u[k] : k \in 1 .. Len(q) - 1}
      BY <2>4 DEF Members
    <3>. QED
      BY <3>1, <3>2
  <2>7. ASSUME NEW x \in Members(q) \ {p} PROVE x \in Members(u)
    <3>1. PICK j \in 1 .. Len(q) : q[j] = x
      BY <1>0
    <3>2. j # i
      BY <2>1, <2>7, <3>1
    <3>3. CASE j < i
      <4>1. j \in 1 .. Len(q) - 1 /\ u[j] = x
        BY <1>0, <2>5, <3>1, <3>3
      <4>. QED
        BY <2>4, <4>1 DEF Members
    <3>4. CASE j > i
      <4>1. j - 1 \in 1 .. Len(q) - 1 /\ ~(j - 1 < i) /\ j - 1 + 1 = j
        BY <1>0, <3>4
      <4>2. u[j - 1] = q[j - 1 + 1]
        BY <2>5, <4>1
      <4>. QED
        BY <2>4, <3>1, <4>1, <4>2 DEF Members
    <3>. QED
      BY <1>0, <3>2, <3>3, <3>4
  <2>8. ASSUME Distinct(q) PROVE Distinct(u) /\ p \notin Members(u)
    <3>1. \A k, j \in 1 .. Len(q) : q[k] = q[j] => k = j
      BY <1>0, <2>8 DEF Distinct
    <3>2. \A k \in 1 .. Len(q) - 1 : u[k] # p
      BY <1>0, <2>1, <2>3, <2>5, <3>1
    <3>3. ASSUME NEW k \in 1 .. Len(q) - 1, NEW j \in 1 .. Len(q) - 1, u[k] = u[j] PROVE k = j
      <4> DEFINE K == IF k < i THEN k ELSE k + 1
                 J == IF j < i THEN j ELSE j + 1
      <4>1. u[k] = q[K] /\ u[j] = q[J]
        BY <2>5
      <4>2. K \in 1 .. Len(q) /\ J \in 1 .. Len(q)
        BY <2>3
      <4>3. K = J
        BY <3>1, <3>3, <4>1, <4>2
      <4>. QED
        BY <1>0, <4>3
    <3>. QED
      BY <2>4, <3>2, <3>3 DEF Distinct, Members
  <2>. QED
    BY <2>2, <2>4, <2>6, <2>7, <2>8
<1>. QED
  BY <1>1, <1>2

LEMMA AppendMembers ==
  ASSUME NEW q \in Seq(Proc), NEW p \in Proc
  PROVE  /\ Append(q, p) \in Seq(Proc)
         /\ Len(Append(q, p)) = Len(q) + 1
         /\ \A i \in 1 .. Len(q) : Append(q, p)[i] = q[i]
         /\ Append(q, p)[Len(q) + 1] = p
         /\ Members(Append(q, p)) = Members(q) \cup {p}
         /\ Distinct(q) /\ p \notin Members(q) => Distinct(Append(q, p))
<1> DEFINE w == Append(q, p)
<1>1. /\ w \in Seq(Proc) /\ Len(w) = Len(q) + 1
      /\ \A i \in 1 .. Len(q) : w[i] = q[i]
      /\ w[Len(q) + 1] = p
  BY AppendProperties
<1>2. Len(q) \in Nat /\ DOMAIN q = 1 .. Len(q)
  BY LenProperties
<1> HIDE DEF w
<1>3. DOMAIN w = 1 .. Len(q) + 1
  BY <1>1, LenProperties
<1>4. Members(w) \subseteq Members(q) \cup {p}
  BY <1>1, <1>2, <1>3 DEF Members
<1>5. Members(q) \subseteq Members(w)
  BY <1>1, <1>2, <1>3 DEF Members
<1>6. p \in Members(w)
  <2>1. Len(q) + 1 \in 1 .. Len(q) + 1
    BY <1>2
  <2>. QED
    BY <1>1, <1>3, <2>1 DEF Members
<1>7. Distinct(q) /\ p \notin Members(q) => Distinct(w)
  BY <1>1, <1>2, <1>3 DEF Members, Distinct
<1>. QED
  BY <1>1, <1>4, <1>5, <1>6, <1>7 DEF w

\* A non-empty set of numbers has a least one.
LEMMA LeastOf ==
  ASSUME NEW S, S \subseteq Nat, S # {}
  PROVE  \E m \in S : \A k \in S : m <= k
<1>1. PICK m \in S : \A k \in S : <<k, m>> \notin OpToRel(<, Nat)
  BY NatLessThanWellFounded, WFMin, Zenon
<1>2. \A k \in S : ~(k \in Nat /\ m \in Nat /\ k < m)
  BY <1>1, Zenon DEF OpToRel
<1>. QED
  BY <1>2

\* The walk along a queue exists, so Walk is it.
LEMMA WalkRec ==
  ASSUME NEW L, NEW t
  PROVE  /\ NSlots \in Nat
         /\ Walk(L, t)[0] = L.head[t]
         /\ \A n \in 1 .. NSlots :
              Walk(L, t)[n] = IF Walk(L, t)[n - 1] = None THEN None ELSE L.next[Walk(L, t)[n - 1]]
<1> DEFINE G(n, f) == IF n = 0 THEN L.head[t] ELSE IF f[n - 1] = None THEN None ELSE L.next[f[n - 1]]
           Rec(k, f) == f = [n \in 0 .. k |-> G(n, f)]
           Bad == {k \in Nat : ~ \E f : Rec(k, f)}
<1>1. Bad = {}
  <2> SUFFICES ASSUME Bad # {} PROVE FALSE
    OBVIOUS
  <2>1. PICK k \in Bad : \A j \in Bad : k <= j
    <3>1. Bad \subseteq Nat
      OBVIOUS
    <3> HIDE DEF Bad
    <3>. QED
      BY <3>1, LeastOf
  <2>2. CASE k = 0
    <3> DEFINE f == [n \in 0 .. 0 |-> L.head[t]]
    <3>1. Rec(0, f)
      BY DEF f
    <3>. QED
      BY <2>2, <3>1
  <2>3. CASE k # 0
    <3>1. k - 1 \in Nat /\ k \in Nat /\ k - 1 \notin Bad
      BY SMTT(30), <2>1, <2>3
    <3>2. PICK g : Rec(k - 1, g)
      BY <3>1
    <3> DEFINE f == [n \in 0 .. k |-> IF n < k THEN g[n] ELSE G(k, g)]
    <3>3. \A n \in 0 .. k : f[n] = IF n < k THEN g[n] ELSE G(k, g)
      OBVIOUS
    <3>4. ASSUME NEW n \in 0 .. k PROVE f[n] = G(n, f)
      <4>1. n # 0 => n - 1 \in 0 .. k /\ n - 1 < k
        BY <3>1
      <4>2. n # 0 => f[n - 1] = g[n - 1]
        BY <3>3, <4>1
      <4>3. G(n, f) = G(n, g)
        BY <4>2
      <4>4. n < k => n \in 0 .. k - 1
        BY <3>1
      <4>5. n < k => g[n] = G(n, g)
        BY <3>2, <4>4
      <4>6. n < k \/ n = k
        BY <3>1
      <4>. QED
        BY <3>3, <4>3, <4>5, <4>6
    <3>5. f = [n \in 0 .. k |-> f[n]]
      BY DEF f
    <3>6. [n \in 0 .. k |-> f[n]] = [n \in 0 .. k |-> G(n, f)]
      BY SMTT(30), <3>4
    <3>7. Rec(k, f)
      BY <3>5, <3>6
    <3>. QED
      BY <2>1, <3>7
  <2>. QED
    BY <2>2, <2>3
<1>2. NSlots \in Nat
  BY SMTT(30), SlotsAssumption, FS_CardinalityType DEF NSlots
<1>3. Rec(NSlots, Walk(L, t))
  <2>1. \E f : Rec(NSlots, f)
    BY <1>1, <1>2
  <2>2. Walk(L, t) = CHOOSE f : Rec(NSlots, f)
    BY DEF Walk
  <2>. QED
    BY <2>1, <2>2
<1>4. \A n \in 0 .. NSlots : Walk(L, t)[n] = G(n, Walk(L, t))
  BY <1>3
<1>5. 0 \in 0 .. NSlots /\ \A n \in 1 .. NSlots : n \in 0 .. NSlots /\ n # 0
  BY <1>2
<1>. QED
  BY <1>2, <1>4, <1>5

-----------------------------------------------------------------------------
(***************************************************************************)
(* The links hold the queues Q of the live processes A.                    *)
(***************************************************************************)
LiveSet == {x \in Proc : Live(x)}

Follows(L, Q, A) ==
  \A t \in Proc :
    /\ Len(Q[t]) # 0 => t \in A
    /\ t \in A => L.head[t] = IF Len(Q[t]) = 0 THEN None ELSE Q[t][1]
    /\ \A i \in 1 .. Len(Q[t]) :
         /\ L.on[Q[t][i]] = t
         /\ L.next[Q[t][i]] = IF i < Len(Q[t]) THEN Q[t][i + 1] ELSE None

\* A queue is no longer than the process table.
LEMMA ShortQueue ==
  ASSUME NEW q \in Seq(Proc), Distinct(q)
  PROVE  Len(q) <= NSlots
<1>1. /\ Len(q) \in Nat /\ DOMAIN q = 1 .. Len(q)
      /\ \A i \in 1 .. Len(q) : q[i] \in Proc
  BY MembersOf
<1> DEFINE f == [i \in 1 .. Len(q) |-> q[i]]
<1>2. f \in Injection(1 .. Len(q), Proc)
  BY <1>1 DEF Distinct, Injection, IsInjective
<1>3. Cardinality(1 .. Len(q)) <= Cardinality(Proc)
  <2> HIDE DEF f
  <2>. QED
    BY <1>2, SlotsAssumption, FS_Injection
<1>4. Cardinality(1 .. Len(q)) = IF 1 > Len(q) THEN 0 ELSE Len(q) - 1 + 1
  BY SMTT(30), <1>1, FS_Interval
<1>. QED
  BY <1>1, <1>3, <1>4 DEF NSlots

\* Where the links follow the queues, the walk does.
LEMMA WalkOf ==
  ASSUME NEW Q \in [Proc -> Seq(Proc)], NEW L, NEW A, Follows(L, Q, A),
         NEW t \in Proc, t \in A, Distinct(Q[t])
  PROVE  /\ NSlots \in Nat /\ Len(Q[t]) \in Nat /\ Len(Q[t]) <= NSlots
         /\ \A n \in 0 .. NSlots :
              Walk(L, t)[n] = IF n < Len(Q[t]) THEN Q[t][n + 1] ELSE None
<1> DEFINE q == Q[t]
           w == Walk(L, t)
<1>1. /\ q \in Seq(Proc) /\ Len(q) \in Nat /\ \A i \in 1 .. Len(q) : q[i] \in Proc
      /\ Len(q) <= NSlots
  BY MembersOf, ShortQueue
<1>2. /\ NSlots \in Nat /\ w[0] = L.head[t]
      /\ \A n \in 1 .. NSlots : w[n] = IF w[n - 1] = None THEN None ELSE L.next[w[n - 1]]
  BY WalkRec
<1>3. /\ L.head[t] = IF Len(q) = 0 THEN None ELSE q[1]
      /\ \A i \in 1 .. Len(q) : L.next[q[i]] = IF i < Len(q) THEN q[i + 1] ELSE None
  BY DEF Follows
<1> HIDE DEF q, w
<1> DEFINE Bad == {n \in 0 .. NSlots : w[n] # IF n < Len(q) THEN q[n + 1] ELSE None}
<1>4. Bad = {}
  <2> SUFFICES ASSUME Bad # {} PROVE FALSE
    OBVIOUS
  <2>1. PICK n \in Bad : \A j \in Bad : n <= j
    <3>1. Bad \subseteq Nat
      BY <1>2
    <3> HIDE DEF Bad
    <3>. QED
      BY <3>1, LeastOf
  <2>2. n \in Nat /\ n \in 0 .. NSlots /\ w[n] # IF n < Len(q) THEN q[n + 1] ELSE None
    BY <1>2, <2>1
  <2>3. CASE n = 0
    BY <1>1, <1>2, <1>3, <2>2, <2>3
  <2>4. CASE n # 0
    <3>1. n - 1 \in 0 .. NSlots /\ ~(n <= n - 1) /\ n \in 1 .. NSlots /\ n - 1 + 1 = n
      BY <1>2, <2>2, <2>4
    <3>2. n - 1 \notin Bad
      BY <2>1, <3>1
    <3>3. w[n - 1] = IF n - 1 < Len(q) THEN q[n] ELSE None
      BY <3>1, <3>2
    <3>4. w[n] = IF w[n - 1] = None THEN None ELSE L.next[w[n - 1]]
      BY <1>2, <3>1
    <3>5. CASE n - 1 < Len(q)
      <4>1. n \in 1 .. Len(q) /\ q[n] # None
        BY SMTT(30), <1>1, <2>2, <2>4, <3>5, NoneAssumption
      <4>2. w[n] = IF n < Len(q) THEN q[n + 1] ELSE None
        BY <1>3, <3>3, <3>4, <3>5, <4>1
      <4>. QED
        BY <2>2, <4>2
    <3>6. CASE ~(n - 1 < Len(q))
      <4>1. ~(n < Len(q))
        BY <1>1, <2>2, <3>6
      <4>2. w[n] = None
        BY <3>3, <3>4, <3>6
      <4>. QED
        BY <2>2, <4>1, <4>2
    <3>. QED
      BY <3>5, <3>6
  <2>. QED
    BY <2>3, <2>4
<1>. QED
  BY <1>1, <1>2, <1>4 DEF q, w

LEMMA LooseIs ==
  ASSUME NEW L \in Links, NEW p \in Proc
  PROVE  Loose(L, p) = [head |-> L.head, next |-> [L.next EXCEPT ![p] = None],
                        on |-> [L.on EXCEPT ![p] = None], crossed |-> L.crossed]
<1>1. PICK h, n, o, c : L = [head |-> h, next |-> n, on |-> o, crossed |-> c]
  BY DEF Links
<1> DEFINE N == [n EXCEPT ![p] = None]
           O == [o EXCEPT ![p] = None]
           M == [L EXCEPT !.next = N]
<1>2. L.head = h /\ L.next = n /\ L.on = o /\ L.crossed = c
  BY <1>1
<1> HIDE DEF N, O
<1>3. M = [head |-> h, next |-> N, on |-> o, crossed |-> c]
  BY <1>1
<1>4. M.on = o
  BY <1>3
<1> HIDE DEF M
<1>5. [M EXCEPT !.on = O] = [head |-> h, next |-> N, on |-> O, crossed |-> c]
  BY <1>3
<1>6. Loose(L, p) = [M EXCEPT !.on = O]
  BY <1>2, <1>4 DEF Loose, M, N, O
<1>. QED
  BY <1>2, <1>5, <1>6 DEF N, O

\* What ipc_q_remove makes of the links L: R names nobody but where it named p, and then
\* whom p named; and so where the walk along p's queue meets p first.
SkipsHead(L, R, p) ==
  \A u \in Proc : R.head[u] = L.head[u] \/ (L.head[u] = p /\ R.head[u] = L.next[p])
SkipsNext(L, R, p) ==
  \A x \in Proc : x = p \/ R.next[x] = L.next[x] \/ (L.next[x] = p /\ R.next[x] = L.next[p])
SkipsFirst(L, R, p) ==
  \A i \in 0 .. NSlots - 1 :
    L.on[p] # None /\ Walk(L, L.on[p])[i] = p /\ (\A j \in 0 .. i - 1 : Walk(L, L.on[p])[j] # p) =>
      IF i = 0 THEN R.head[L.on[p]] = L.next[p]
      ELSE /\ R.head = L.head
           /\ \A y \in Proc : y = Walk(L, L.on[p])[i - 1] /\ y # p => R.next[y] = L.next[p]

LEMMA RemoveEffect ==
  ASSUME NEW L \in Links, NEW p \in Proc
  PROVE  /\ Remove(L, p).on = [L.on EXCEPT ![p] = None]
         /\ Remove(L, p).crossed = L.crossed
         /\ SkipsHead(L, Remove(L, p), p)
         /\ SkipsNext(L, Remove(L, p), p)
         /\ SkipsFirst(L, Remove(L, p), p)
<1> DEFINE t == L.on[p]
           w == Walk(L, t)
           met == {n \in 0 .. NSlots - 1 : w[n] = p}
           first == CHOOSE n \in met : \A i \in met : n <= i
           R == Remove(L, p)
<1>1. /\ NSlots \in Nat /\ w[0] = L.head[t]
      /\ \A n \in 1 .. NSlots : w[n] = IF w[n - 1] = None THEN None ELSE L.next[w[n - 1]]
  BY WalkRec
<1>2. /\ L.head \in [Proc -> Pid] /\ L.next \in [Proc -> Pid] /\ L.on \in [Proc -> Pid]
      /\ t = None \/ t \in Proc
      /\ L = [head |-> L.head, next |-> L.next, on |-> L.on, crossed |-> L.crossed]
  BY DEF Links, Pid
<1>3. R = IF t = None \/ met = {} THEN Loose(L, p)
          ELSE IF first = 0 THEN [Loose(L, p) EXCEPT !.head[t] = L.next[p]]
          ELSE [Loose(L, p) EXCEPT !.next[w[first - 1]] = L.next[p]]
  BY DEF Remove
<1>4. Loose(L, p) = [head |-> L.head, next |-> [L.next EXCEPT ![p] = None],
                     on |-> [L.on EXCEPT ![p] = None], crossed |-> L.crossed]
  BY LooseIs
<1>5. met # {} => first \in met /\ \A i \in met : first <= i
  <2>1. met \subseteq Nat
    BY <1>1
  <2> HIDE DEF met
  <2>. QED
    BY <2>1, LeastOf
<1>6. p # None /\ L.next[p] \in Pid
  BY <1>2, NoneAssumption
<1>6a. met \subseteq 0 .. NSlots - 1 /\ (\A n \in met : w[n] = p)
  OBVIOUS
<1>6b. \A i \in 0 .. NSlots - 1 : w[i] = p => i \in met
  OBVIOUS
<1> HIDE DEF t, w, met, first, R
<1>7. CASE t = None \/ met = {}
  <2>1. R = Loose(L, p)
    BY <1>3, <1>7
  <2>. QED
    BY <1>2, <1>4, <1>6b, <1>7, <2>1 DEF R, t, w, SkipsHead, SkipsNext, SkipsFirst
<1>8. CASE t # None /\ met # {} /\ first = 0
  <2>1. R = [head |-> [L.head EXCEPT ![t] = L.next[p]], next |-> [L.next EXCEPT ![p] = None],
             on |-> [L.on EXCEPT ![p] = None], crossed |-> L.crossed]
    BY <1>3, <1>4, <1>8
  <2>2. L.head[t] = p
    BY <1>1, <1>5, <1>6a, <1>8
  <2>3. ASSUME NEW i \in 0 .. NSlots - 1, w[i] = p, \A j \in 0 .. i - 1 : w[j] # p PROVE i = 0
    BY <1>1, <1>5, <1>6a, <1>8, <2>3
  <2>. QED
    BY <1>2, <1>8, <2>1, <2>2, <2>3 DEF R, t, w, SkipsHead, SkipsNext, SkipsFirst
<1>9. CASE t # None /\ met # {} /\ first # 0
  <2> DEFINE y == w[first - 1]
  <2>1. R = [head |-> L.head, next |-> [[L.next EXCEPT ![p] = None] EXCEPT ![y] = L.next[p]],
             on |-> [L.on EXCEPT ![p] = None], crossed |-> L.crossed]
    BY <1>3, <1>4, <1>9
  <2>2. first \in 1 .. NSlots /\ first - 1 \in 0 .. NSlots - 1 /\ w[first] = p /\ first \in Nat
    <3>1. first \in 0 .. NSlots - 1 /\ w[first] = p
      BY <1>5, <1>6a, <1>9
    <3>. QED
      BY <1>1, <1>9, <3>1
  <2>3. L.next[y] = p
    BY <1>1, <1>6, <2>2
  <2>4. ASSUME NEW i \in 0 .. NSlots - 1, w[i] = p, \A j \in 0 .. i - 1 : w[j] # p PROVE i = first
    <3>1. first <= i
      BY <1>5, <1>6b, <1>9, <2>4
    <3>2. ~(first < i)
      <4>1. first < i => first \in 0 .. i - 1
        BY <2>2, <2>4
      <4>. QED
        BY <2>2, <2>4, <4>1
    <3>. QED
      BY <2>2, <3>1, <3>2
  <2> HIDE DEF y
  <2>5. \A x \in Proc : \/ x = p
                        \/ R.next[x] = L.next[x]
                        \/ x = y /\ R.next[x] = L.next[p]
    BY <1>2, <2>1
  <2>6. y \in Proc /\ y # p => R.next[y] = L.next[p]
    BY <1>2, <2>1
  <2>7. R.head = L.head /\ R.on = [L.on EXCEPT ![p] = None] /\ R.crossed = L.crossed
    BY <2>1
  <2>8. \A i \in 0 .. NSlots - 1 :
          w[i] = p /\ (\A j \in 0 .. i - 1 : w[j] # p) =>
            i # 0 /\ (w[i - 1] \in Proc /\ w[i - 1] # p => R.next[w[i - 1]] = L.next[p])
    BY <1>9, <2>4, <2>6 DEF y
  <2>. QED
    BY <2>3, <2>5, <2>7, <2>8 DEF R, t, w, SkipsHead, SkipsNext, SkipsFirst
<1>. QED
  BY <1>7, <1>8, <1>9

\* ipc_q_remove takes p off the queue it is on, and harms no other.
LEMMA RemoveFollows ==
  ASSUME NEW Q \in [Proc -> Seq(Proc)], NEW L \in Links, NEW A, Follows(L, Q, A),
         \A u \in Proc : Distinct(Q[u]), NEW p \in Proc, NEW t \in Proc,
         \A u \in Proc : p \in Members(Q[u]) => u = t
  PROVE  Follows(Remove(L, p), [Q EXCEPT ![t] = Unlink(Q[t], p)], A)
<1> DEFINE R == Remove(L, p)
           q == Q[t]
           N == [Q EXCEPT ![t] = Unlink(q, p)]
<1>1. /\ R.on = [L.on EXCEPT ![p] = None]
      /\ \A u \in Proc : R.head[u] = L.head[u] \/ (L.head[u] = p /\ R.head[u] = L.next[p])
      /\ \A x \in Proc : x = p \/ R.next[x] = L.next[x] \/ (L.next[x] = p /\ R.next[x] = L.next[p])
  <2>1. R.on = [L.on EXCEPT ![p] = None] /\ SkipsHead(L, R, p) /\ SkipsNext(L, R, p)
    BY RemoveEffect
  <2> HIDE DEF R
  <2>. QED
    BY <2>1 DEF SkipsHead, SkipsNext
<1>2. \A u \in Proc : /\ Len(Q[u]) \in Nat
                      /\ \A i \in 1 .. Len(Q[u]) : Q[u][i] \in Proc /\ Q[u][i] \in Members(Q[u])
  BY MembersOf
<1>3. p # None /\ L.on \in [Proc -> Pid]
  BY NoneAssumption DEF Links
<1>4. \A u \in Proc : N[u] = IF u = t THEN Unlink(q, p) ELSE Q[u]
  OBVIOUS
<1>5. \A u \in Proc : /\ Len(Q[u]) # 0 => u \in A
                      /\ u \in A => L.head[u] = IF Len(Q[u]) = 0 THEN None ELSE Q[u][1]
                      /\ \A i \in 1 .. Len(Q[u]) :
                           /\ L.on[Q[u][i]] = u
                           /\ L.next[Q[u][i]] = IF i < Len(Q[u]) THEN Q[u][i + 1] ELSE None
  BY DEF Follows
<1> HIDE DEF R, N, q
\* Whatever queue p is not on is followed as before.
<1>6. ASSUME NEW u \in Proc, p \notin Members(Q[u])
      PROVE  /\ Len(Q[u]) # 0 => u \in A
             /\ u \in A => R.head[u] = IF Len(Q[u]) = 0 THEN None ELSE Q[u][1]
             /\ \A i \in 1 .. Len(Q[u]) :
                  /\ R.on[Q[u][i]] = u
                  /\ R.next[Q[u][i]] = IF i < Len(Q[u]) THEN Q[u][i + 1] ELSE None
  <2> DEFINE c == Q[u]
  <2>0. /\ Len(c) \in Nat /\ \A i \in 1 .. Len(c) : c[i] \in Proc \ {p}
        /\ Len(c) # 0 => u \in A
        /\ u \in A => L.head[u] = IF Len(c) = 0 THEN None ELSE c[1]
        /\ \A i \in 1 .. Len(c) :
             L.on[c[i]] = u /\ L.next[c[i]] = IF i < Len(c) THEN c[i + 1] ELSE None
    <3>1. \A i \in 1 .. Len(c) : c[i] \in Proc \ {p}
      BY <1>2, <1>6
    <3>. QED
      BY <1>2, <1>5, <3>1
  <2> HIDE DEF c
  <2>2. u \in A => R.head[u] = IF Len(c) = 0 THEN None ELSE c[1]
    <3>1. Len(c) # 0 => 1 \in 1 .. Len(c)
      BY <2>0
    <3>2. u \in A => L.head[u] # p
      BY <1>3, <2>0, <3>1
    <3>. QED
      BY <1>1, <2>0, <3>2
  <2>3. ASSUME NEW i \in 1 .. Len(c)
        PROVE  R.on[c[i]] = u /\ R.next[c[i]] = IF i < Len(c) THEN c[i + 1] ELSE None
    <3>1. i < Len(c) => i + 1 \in 1 .. Len(c)
      BY <2>0
    <3>2. L.next[c[i]] # p
      BY <1>3, <2>0, <3>1
    <3>3. c[i] \in Proc \ {p}
      BY <2>0
    <3>4. R.next[c[i]] = L.next[c[i]]
      BY <1>1, <3>2, <3>3
    <3>5. R.on[c[i]] = L.on[c[i]]
      BY <1>1, <1>3, <3>3
    <3>. QED
      BY <2>0, <3>4, <3>5
  <2>. QED
    BY <2>0, <2>2, <2>3 DEF c
<1>7. CASE p \notin Members(q)
  <2>1. Unlink(q, p) = q
    BY <1>7 DEF Unlink
  <2>2. \A u \in Proc : N[u] = Q[u] /\ p \notin Members(Q[u])
    BY <1>4, <1>7, <2>1 DEF q
  <2>. QED
    BY SMTT(30), <1>6, <2>2 DEF Follows, R, N, q
<1>8. CASE p \in Members(q)
  <2> DEFINE m == Unlink(q, p)
  <2>1. PICK i \in 1 .. Len(q) : i = Place(q, p) /\ q[i] = p
    BY <1>8, PlaceOf DEF q
  <2>2. /\ Len(m) = Len(q) - 1 /\ Len(q) \in Nat
        /\ \A k \in 1 .. Len(q) - 1 : m[k] = IF k < i THEN q[k] ELSE q[k + 1]
    <3>1. m = [k \in 1 .. Len(q) - 1 |-> IF k < i THEN q[k] ELSE q[k + 1]]
      BY <1>8, <2>1 DEF Unlink
    <3>2. Len(m) = Len(q) - 1
      BY <1>8, UnlinkProperties DEF q
    <3> HIDE DEF m
    <3>. QED
      BY <1>2, <3>1, <3>2 DEF q
  <2>3. \A j, k \in 1 .. Len(q) : q[j] = q[k] => j = k
    BY MembersOf DEF Distinct, q
  <2>4. t \in A /\ L.on[p] = t /\ L.next[p] = IF i < Len(q) THEN q[i + 1] ELSE None
    <3>1. Len(q) # 0 /\ i \in 1 .. Len(q)
      BY <2>1, <2>2
    <3>2. t \in A
      BY <1>5, <3>1 DEF q
    <3>3. L.on[q[i]] = t /\ L.next[q[i]] = IF i < Len(q) THEN q[i + 1] ELSE None
      BY <1>5, <3>1, Zenon DEF q
    <3>. QED
      BY <2>1, <3>2, <3>3
  <2>5. /\ NSlots \in Nat /\ Len(q) <= NSlots
        /\ \A n \in 0 .. NSlots : Walk(L, t)[n] = IF n < Len(q) THEN q[n + 1] ELSE None
    BY <2>4, WalkOf DEF q
  <2>6. i - 1 \in 0 .. NSlots - 1 /\ i \in Nat /\ i >= 1 /\ Walk(L, t)[i - 1] = p
    <3>1. i - 1 \in 0 .. NSlots - 1 /\ i - 1 \in 0 .. NSlots /\ i - 1 < Len(q) /\ i - 1 + 1 = i /\ i \in Nat /\ i >= 1
      BY <2>2, <2>5
    <3>. QED
      BY <2>1, <2>5, <3>1
  <2>7. \A j \in 0 .. i - 1 - 1 : Walk(L, t)[j] # p
    <3> SUFFICES ASSUME NEW j \in 0 .. i - 1 - 1 PROVE Walk(L, t)[j] # p
      OBVIOUS
    <3>1. j \in 0 .. NSlots /\ j < Len(q) /\ j + 1 \in 1 .. Len(q) /\ j + 1 # i
      BY <2>2, <2>5, <2>6
    <3>. QED
      BY <2>1, <2>3, <2>5, <3>1
  <2>8. IF i = 1 THEN R.head[t] = L.next[p]
        ELSE R.head = L.head /\ R.next[q[i - 1]] = L.next[p]
    <3>1. IF i - 1 = 0 THEN R.head[t] = L.next[p]
          ELSE /\ R.head = L.head
               /\ Walk(L, t)[i - 1 - 1] \in Proc /\ Walk(L, t)[i - 1 - 1] # p => R.next[Walk(L, t)[i - 1 - 1]] = L.next[p]
      <4>1. t # None
        BY NoneAssumption
      <4>. QED
        <5>1. L.on[p] # None /\ Walk(L, L.on[p])[i - 1] = p /\ \A j \in 0 .. i - 1 - 1 : Walk(L, L.on[p])[j] # p
          BY <2>4, <2>6, <2>7, <4>1, Zenon
        <5>2. SkipsFirst(L, R, p)
          BY RemoveEffect DEF R
        <5>. QED
          BY <2>4, <2>6, <5>1, <5>2 DEF SkipsFirst
    <3>2. i # 1 => /\ i - 1 - 1 \in 0 .. NSlots /\ i - 1 - 1 < Len(q) /\ i - 1 - 1 + 1 = i - 1
                   /\ i - 1 \in 1 .. Len(q) /\ i - 1 # i
      BY <2>2, <2>5, <2>6
    <3>3. i # 1 => Walk(L, t)[i - 1 - 1] = q[i - 1]
      BY <2>5, <3>2
    <3>4. i # 1 => q[i - 1] \in Proc \ {p}
      BY <1>2, <2>1, <2>3, <3>2 DEF q
    <3>. QED
      BY <2>6, <3>1, <3>3, <3>4
  <2> HIDE DEF m
  <2>9. \A k \in 1 .. Len(q) : q[k] \in Proc /\ (k # i => q[k] \in Proc \ {p})
    BY <1>2, <2>1, <2>3 DEF q
  <2>10. /\ L.head[t] = q[1]
         /\ \A k \in 1 .. Len(q) : L.on[q[k]] = t /\ L.next[q[k]] = IF k < Len(q) THEN q[k + 1] ELSE None
    <3>1. Len(q) # 0
      BY <2>1, <2>2
    <3>2. L.head[t] = IF Len(q) = 0 THEN None ELSE q[1]
      BY <1>5, <2>4, Zenon DEF q
    <3>3. \A k \in 1 .. Len(q) : L.on[q[k]] = t /\ L.next[q[k]] = IF k < Len(q) THEN q[k + 1] ELSE None
      BY <1>5, Zenon DEF q
    <3>. QED
      BY <3>1, <3>2, <3>3
  <2>11. R.head[t] = IF Len(m) = 0 THEN None ELSE m[1]
    <3>1. CASE i = 1
      <4>1. Len(q) - 1 # 0 => 1 \in 1 .. Len(q) - 1 /\ ~(1 < i) /\ 1 < Len(q)
        BY <2>2, <2>1, <3>1
      <4>. QED
        BY <2>2, <2>4, <2>8, <3>1, <4>1
    <3>2. CASE i # 1
      <4>1. Len(q) - 1 # 0 /\ 1 \in 1 .. Len(q) - 1 /\ 1 < i
        BY <2>1, <2>2, <3>2
      <4>. QED
        BY <2>2, <2>8, <2>10, <3>2, <4>1
    <3>. QED
      BY <3>1, <3>2
  <2>12. ASSUME NEW k \in 1 .. Len(m)
         PROVE  R.on[m[k]] = t /\ R.next[m[k]] = IF k < Len(m) THEN m[k + 1] ELSE None
    <3>1. /\ k \in Nat /\ k \in 1 .. Len(q) - 1 /\ k \in 1 .. Len(q) /\ k + 1 \in 1 .. Len(q)
          /\ k < Len(m) => k + 1 \in 1 .. Len(q) - 1 /\ k + 1 < Len(q)
      BY <2>2
    <3>2. m[k] = IF k < i THEN q[k] ELSE q[k + 1]
      BY <2>2, <3>1
    <3>3. k < Len(m) => m[k + 1] = IF k + 1 < i THEN q[k + 1] ELSE q[k + 1 + 1]
      BY <2>2, <3>1
    <3>4. CASE k + 1 < i
      <4>1. k < i /\ k # i /\ k + 1 # i /\ k < Len(m) /\ k < Len(q)
        BY <2>1, <2>2, <3>1, <3>4
      <4>2. m[k] = q[k] /\ q[k] \in Proc \ {p} /\ L.on[q[k]] = t /\ L.next[q[k]] = q[k + 1] /\ q[k + 1] # p
        BY <2>9, <2>10, <3>1, <3>2, <4>1
      <4>. QED
        BY <1>1, <1>3, <3>3, <3>4, <4>1, <4>2
    <3>5. CASE k + 1 = i
      <4>1. k < i /\ k # i /\ i # 1 /\ i - 1 = k /\ ~(k + 1 < i)
        BY <2>1, <3>1, <3>5
      <4>2. m[k] = q[k] /\ q[k] \in Proc \ {p} /\ L.on[q[k]] = t /\ R.next[q[k]] = L.next[p]
        BY <2>8, <2>9, <2>10, <3>1, <3>2, <4>1
      <4>3. i < Len(q) <=> k < Len(m)
        BY <2>2, <3>1, <3>5
      <4>. QED
        BY <1>1, <1>3, <2>4, <3>3, <3>5, <4>1, <4>2, <4>3
    <3>6. CASE k + 1 > i
      <4>1. ~(k < i) /\ ~(k + 1 < i) /\ k + 1 # i
        BY <2>1, <3>1, <3>6
      <4>2. m[k] = q[k + 1] /\ q[k + 1] \in Proc \ {p} /\ L.on[q[k + 1]] = t
            /\ L.next[q[k + 1]] = IF k + 1 < Len(q) THEN q[k + 1 + 1] ELSE None
        BY <2>9, <2>10, <3>1, <3>2, <4>1
      <4>3. k + 1 < Len(q) <=> k < Len(m)
        BY <2>2, <3>1
      <4>4. k + 1 < Len(q) => k + 1 + 1 \in 1 .. Len(q) /\ k + 1 + 1 # i
        BY <2>1, <2>2, <3>1, <3>6
      <4>5. L.next[q[k + 1]] # p
        BY <1>3, <2>9, <4>2, <4>4
      <4>. QED
        BY <1>1, <1>3, <3>3, <4>1, <4>2, <4>3, <4>5
    <3>. QED
      BY <2>1, <3>1, <3>4, <3>5, <3>6
  <2>13. \A u \in Proc : u # t => p \notin Members(Q[u])
    OBVIOUS
  <2>14. N[t] = m /\ \A u \in Proc : u # t => N[u] = Q[u]
    BY <1>4 DEF m
  <2>. QED
    <3> SUFFICES ASSUME NEW u \in Proc
                 PROVE  /\ Len(N[u]) # 0 => u \in A
                        /\ u \in A => R.head[u] = IF Len(N[u]) = 0 THEN None ELSE N[u][1]
                        /\ \A k \in 1 .. Len(N[u]) :
                             /\ R.on[N[u][k]] = u
                             /\ R.next[N[u][k]] = IF k < Len(N[u]) THEN N[u][k + 1] ELSE None
      BY DEF Follows, R, N, q
    <3>1. CASE u = t
      <4>1. N[u] = m
        BY <2>14, <3>1
      <4>. QED
        BY <2>4, <2>11, <2>12, <3>1, <4>1
    <3>2. CASE u # t
      <4>1. N[u] = Q[u] /\ p \notin Members(Q[u])
        BY <2>13, <2>14, <3>2
      <4>. QED
        BY <1>6, <4>1
    <3>. QED
      BY <3>1, <3>2
<1>. QED
  BY <1>7, <1>8

\* ipc_q_enqueue before the new sender is linked: it points nowhere, on t's queue.
Entering(L, p, t) ==
  [head |-> L.head, next |-> [L.next EXCEPT ![p] = None],
   on |-> [L.on EXCEPT ![p] = IF Live(t) THEN t ELSE None],
   crossed |-> L.crossed \/ (~Live(t) /\ L.head[t] # None)]

LEMMA EnqueueIs ==
  ASSUME NEW L \in Links, NEW p \in Proc, NEW t \in Proc
  PROVE  LET M == Entering(L, p, t)
             w == Walk(M, t)
             last == CHOOSE n \in 0 .. NSlots : w[n] # None /\ (n = NSlots \/ w[n + 1] = None)
         IN  Enqueue(L, p, t) =
               IF L.head[t] = None
               THEN [head |-> [L.head EXCEPT ![t] = p], next |-> M.next, on |-> M.on, crossed |-> M.crossed]
               ELSE [head |-> L.head, next |-> [M.next EXCEPT ![w[last]] = p], on |-> M.on, crossed |-> M.crossed]
<1>1. PICK h, n, o, c : L = [head |-> h, next |-> n, on |-> o, crossed |-> c]
  BY DEF Links
<1>2. L.head = h /\ L.next = n /\ L.on = o /\ L.crossed = c
  BY <1>1
<1> DEFINE N == [n EXCEPT ![p] = None]
           O == [o EXCEPT ![p] = IF Live(t) THEN t ELSE None]
           C == c \/ (~Live(t) /\ h[t] # None)
           M1 == [L EXCEPT !.next = N]
           M2 == [M1 EXCEPT !.on = O]
           M == [L EXCEPT !.next[p] = None, !.on[p] = IF Live(t) THEN t ELSE None,
                          !.crossed = @ \/ (~Live(t) /\ L.head[t] # None)]
           K == [head |-> h, next |-> N, on |-> O, crossed |-> C]
           w == Walk(K, t)
           last == CHOOSE i \in 0 .. NSlots : w[i] # None /\ (i = NSlots \/ w[i + 1] = None)
<1>3. Entering(L, p, t) = K
  BY <1>2 DEF Entering
<1>4. M = K
  <2> HIDE DEF N, O, C
  <2>1. M1 = [head |-> h, next |-> N, on |-> o, crossed |-> c]
    BY <1>1
  <2>2. M1.on = o /\ M1.crossed = c
    BY <2>1
  <2> HIDE DEF M1
  <2>3. M2 = [head |-> h, next |-> N, on |-> O, crossed |-> c]
    BY <2>1
  <2>4. M2.crossed = c
    BY <2>3
  <2> HIDE DEF M2
  <2>5. [M2 EXCEPT !.crossed = C] = K
    BY <2>3
  <2>6. M = [M2 EXCEPT !.crossed = C]
    BY <1>2, <2>2, <2>4 DEF M1, M2, N, O, C
  <2>. QED
    BY <2>5, <2>6
<1>5. Enqueue(L, p, t) = IF L.head[t] = None THEN [M EXCEPT !.head[t] = p]
                         ELSE LET v == Walk(M, t)
                                  l == CHOOSE i \in 0 .. NSlots : v[i] # None /\ (i = NSlots \/ v[i + 1] = None)
                              IN  [M EXCEPT !.next[v[l]] = p]
  BY Zenon DEF Enqueue
<1> HIDE DEF M, K
<1>6. Enqueue(L, p, t) = IF L.head[t] = None THEN [K EXCEPT !.head[t] = p] ELSE [K EXCEPT !.next[w[last]] = p]
  BY <1>4, <1>5, Zenon
<1> HIDE DEF w, last
<1>7. /\ [K EXCEPT !.head[t] = p] = [head |-> [h EXCEPT ![t] = p], next |-> N, on |-> O, crossed |-> C]
      /\ [K EXCEPT !.next[w[last]] = p] = [head |-> h, next |-> [N EXCEPT ![w[last]] = p], on |-> O, crossed |-> C]
      /\ K.head = h /\ K.next = N /\ K.on = O /\ K.crossed = C
  <2> HIDE DEF N, O, C
  <2>. QED
    BY DEF K
<1> HIDE DEF N, O, C
<1>. QED
  BY <1>2, <1>3, <1>6, <1>7 DEF w, last

\* The links cross when a sender is linked behind another one on an empty slot, and so they
\* stay.
LEMMA CrossedGrows ==
  ASSUME NEW L \in Links, NEW p \in Proc, NEW t \in Proc
  PROVE  /\ Remove(L, p).crossed = L.crossed
         /\ ~Enqueue(L, p, t).crossed => ~L.crossed /\ (Live(t) \/ L.head[t] = None)
<1>1. Enqueue(L, p, t).crossed = Entering(L, p, t).crossed
  BY EnqueueIs
<1>. QED
  BY <1>1, RemoveEffect DEF Entering

\* ipc_q_enqueue puts p at the end of the queue of a live t, and harms no other; on an
\* empty slot it harms no queue as long as it does not cross the links.
LEMMA EnqueueFollows ==
  ASSUME NEW Q \in [Proc -> Seq(Proc)], NEW L \in Links, Follows(L, Q, LiveSet),
         \A u \in Proc : Distinct(Q[u]), NEW p \in Proc, NEW t \in Proc,
         \A u \in Proc : p \notin Members(Q[u]), ~Enqueue(L, p, t).crossed
  PROVE  Follows(Enqueue(L, p, t), IF Live(t) THEN [Q EXCEPT ![t] = Append(Q[t], p)] ELSE Q, LiveSet)
<1> DEFINE E == Enqueue(L, p, t)
           M == Entering(L, p, t)
           q == Q[t]
<1>1. \A u \in Proc : /\ Len(Q[u]) \in Nat
                      /\ \A i \in 1 .. Len(Q[u]) : Q[u][i] \in Proc \ {p}
  BY MembersOf
<1>2. p # None /\ L.on \in [Proc -> Pid] /\ L.next \in [Proc -> Pid] /\ L.head \in [Proc -> Pid]
  BY NoneAssumption DEF Links
<1>3. /\ M.head = L.head /\ M.next = [L.next EXCEPT ![p] = None]
      /\ M.on = [L.on EXCEPT ![p] = IF Live(t) THEN t ELSE None]
  BY DEF Entering
<1>4. \A u \in Proc : /\ Len(Q[u]) # 0 => u \in LiveSet
                      /\ u \in LiveSet => L.head[u] = IF Len(Q[u]) = 0 THEN None ELSE Q[u][1]
                      /\ \A i \in 1 .. Len(Q[u]) :
                           /\ L.on[Q[u][i]] = u
                           /\ L.next[Q[u][i]] = IF i < Len(Q[u]) THEN Q[u][i + 1] ELSE None
  BY DEF Follows
<1>5. Live(t) <=> t \in LiveSet
  BY DEF LiveSet
<1>6. Live(t) \/ L.head[t] = None
  BY CrossedGrows
<1> HIDE DEF E, M, q
<1>7. Follows(M, Q, LiveSet)
  <2> SUFFICES ASSUME NEW u \in Proc
               PROVE  /\ Len(Q[u]) # 0 => u \in LiveSet
                      /\ u \in LiveSet => M.head[u] = IF Len(Q[u]) = 0 THEN None ELSE Q[u][1]
                      /\ \A i \in 1 .. Len(Q[u]) :
                           /\ M.on[Q[u][i]] = u
                           /\ M.next[Q[u][i]] = IF i < Len(Q[u]) THEN Q[u][i + 1] ELSE None
    BY DEF Follows
  <2>1. ASSUME NEW x \in Proc \ {p} PROVE M.on[x] = L.on[x] /\ M.next[x] = L.next[x]
    BY <1>2, <1>3
  <2> DEFINE c == Q[u]
  <2>2. \A i \in 1 .. Len(c) : c[i] \in Proc \ {p}
    BY <1>1
  <2>3. \A i \in 1 .. Len(c) : L.on[c[i]] = u /\ L.next[c[i]] = IF i < Len(c) THEN c[i + 1] ELSE None
    BY <1>4
  <2>4. (Len(c) # 0 => u \in LiveSet) /\ (u \in LiveSet => M.head[u] = IF Len(c) = 0 THEN None ELSE c[1])
    BY <1>3, <1>4
  <2> HIDE DEF c
  <2>5. \A i \in 1 .. Len(c) : M.on[c[i]] = u /\ M.next[c[i]] = IF i < Len(c) THEN c[i + 1] ELSE None
    BY <2>1, <2>2, <2>3
  <2>. QED
    BY <2>4, <2>5 DEF c
<1>8. /\ Len(q) \in Nat /\ q \in Seq(Proc) /\ Distinct(q)
      /\ \A i \in 1 .. Len(q) : q[i] \in Proc \ {p}
  BY <1>1 DEF q
<1>9. CASE L.head[t] = None
  <2>1. E = [head |-> [L.head EXCEPT ![t] = p], next |-> M.next, on |-> M.on, crossed |-> M.crossed]
    BY <1>9, EnqueueIs DEF E, M
  <2>2. E.head = [L.head EXCEPT ![t] = p] /\ E.next = M.next /\ E.on = M.on
    BY <2>1
  <2>3. Len(q) = 0
    <3> SUFFICES ASSUME Len(q) # 0 PROVE FALSE
      OBVIOUS
    <3>1. 1 \in 1 .. Len(q) /\ q[1] \in Proc
      BY <1>8
    <3>2. L.head[t] = q[1]
      BY <1>4 DEF q
    <3>. QED
      BY <1>9, <3>1, <3>2, NoneAssumption
  <2>4. \A u \in Proc \ {t} : E.head[u] = M.head[u]
    BY <1>2, <1>3, <2>2
  <2>5. CASE Live(t)
    <3> DEFINE N == [Q EXCEPT ![t] = Append(Q[t], p)]
    <3>1. N[t] = Append(q, p) /\ \A u \in Proc : u # t => N[u] = Q[u]
      BY DEF q
    <3>2. Len(Append(q, p)) = 1 /\ Append(q, p)[1] = p
      BY <1>8, <2>3, AppendMembers
    <3>3. E.head[t] = p /\ E.on[p] = t /\ E.next[p] = None
      BY <1>2, <1>3, <2>2, <2>5
    <3> HIDE DEF N
    <3>4. Follows(E, N, LiveSet)
      <4> SUFFICES ASSUME NEW u \in Proc
                   PROVE  /\ Len(N[u]) # 0 => u \in LiveSet
                          /\ u \in LiveSet => E.head[u] = IF Len(N[u]) = 0 THEN None ELSE N[u][1]
                          /\ \A i \in 1 .. Len(N[u]) :
                               /\ E.on[N[u][i]] = u
                               /\ E.next[N[u][i]] = IF i < Len(N[u]) THEN N[u][i + 1] ELSE None
        BY DEF Follows
      <4>1. CASE u = t
        BY <1>5, <2>5, <3>1, <3>2, <3>3, <4>1
      <4>2. CASE u # t
        BY SMTT(30), <1>7, <2>2, <2>4, <3>1, <4>2 DEF Follows
      <4>. QED
        BY <4>1, <4>2
    <3>. QED
      BY <2>5, <3>4 DEF E, N
  <2>6. CASE ~Live(t)
    <3>1. \A u \in LiveSet : u \in Proc /\ E.head[u] = M.head[u]
      BY <2>4, <2>6 DEF LiveSet
    <3>2. Follows(E, Q, LiveSet)
      BY <1>7, <2>2, <3>1 DEF Follows
    <3>. QED
      BY <2>6, <3>2 DEF E
  <2>. QED
    BY <2>5, <2>6
<1>10. CASE L.head[t] # None
  <2> DEFINE n == Len(q)
             w == Walk(M, t)
             last == CHOOSE i \in 0 .. NSlots : w[i] # None /\ (i = NSlots \/ w[i + 1] = None)
             z == q[n]
             N == [Q EXCEPT ![t] = Append(Q[t], p)]
  <2>1. Live(t) /\ t \in LiveSet
    BY <1>5, <1>6, <1>10
  <2>2. n # 0
    BY <1>4, <1>10, <2>1 DEF q
  <2>3. /\ NSlots \in Nat /\ n <= NSlots
        /\ \A i \in 0 .. NSlots : w[i] = IF i < n THEN q[i + 1] ELSE None
    <3>1. Distinct(Q[t])
      BY <1>8 DEF q
    <3>2. /\ NSlots \in Nat /\ Len(Q[t]) <= NSlots
          /\ \A i \in 0 .. NSlots : Walk(M, t)[i] = IF i < Len(Q[t]) THEN Q[t][i + 1] ELSE None
      BY ZenonT(40), <1>7, <2>1, <3>1, WalkOf
    <3>. QED
      BY <3>2, Zenon DEF q
  <2>4. last = n - 1 /\ n - 1 \in 0 .. NSlots /\ w[n - 1] = z
    <3>1. /\ n - 1 \in 0 .. NSlots /\ n - 1 < n /\ n - 1 + 1 = n /\ n \in 1 .. n
          /\ n - 1 # NSlots /\ n \in 0 .. NSlots
      BY <1>8, <2>2, <2>3
    <3>2. w[n - 1] = z /\ w[n] = None /\ z # None
      <4>1. \A i \in 0 .. NSlots : w[i] = IF i < n THEN q[i + 1] ELSE None
        BY <2>3
      <4>2. z \in Proc
        BY <1>8, <3>1
      <4> HIDE DEF w
      <4>3. w[n - 1] = q[n - 1 + 1]
        BY <3>1, <4>1
      <4>4. w[n] = None
        BY <1>8, <3>1, <4>1
      <4>. QED
        BY <3>1, <4>2, <4>3, <4>4, NoneAssumption
    <3>3. ASSUME NEW i \in 0 .. NSlots, w[i] # None, i = NSlots \/ w[i + 1] = None PROVE i = n - 1
      <4>1. i < n
        BY <2>3, <3>3
      <4>2. ~(i + 1 < n)
        <5> SUFFICES ASSUME i + 1 < n PROVE FALSE
          OBVIOUS
        <5>1. i # NSlots /\ i + 1 \in 0 .. NSlots /\ i + 1 + 1 \in 1 .. n
          BY <1>8, <2>3
        <5>2. w[i + 1] \in Proc
          BY <1>8, <2>3, <5>1
        <5>. QED
          BY <3>3, <5>1, <5>2, NoneAssumption
      <4>. QED
        BY <1>8, <2>3, <4>1, <4>2
    <3>4. w[n - 1] # None /\ (n - 1 = NSlots \/ w[n - 1 + 1] = None)
      BY <3>1, <3>2
    <3> HIDE DEF w, n, z
    <3>. QED
      BY <3>1, <3>2, <3>3, <3>4
  <2>5. E = [head |-> L.head, next |-> [M.next EXCEPT ![z] = p], on |-> M.on, crossed |-> M.crossed]
    <3>1. E = [head |-> L.head, next |-> [M.next EXCEPT ![w[last]] = p], on |-> M.on, crossed |-> M.crossed]
      BY <1>10, EnqueueIs, Zenon DEF E, M
    <3>. QED
      BY <2>4, <3>1
  <2> HIDE DEF w, last
  <2>6. z \in Proc \ {p} /\ n \in 1 .. n
    BY <1>8, <2>2
  <2> HIDE DEF z
  <2>7. /\ E.head = M.head /\ E.on = M.on /\ E.next[z] = p
        /\ \A x \in Proc \ {z} : E.next[x] = M.next[x]
    <3>1. M.next \in [Proc -> Pid]
      BY <1>2, <1>3 DEF Pid
    <3>. QED
      BY <1>3, <2>5, <2>6, <3>1
  <2>8. /\ N[t] = Append(q, p) /\ \A u \in Proc : u # t => N[u] = Q[u]
        /\ Len(Append(q, p)) = n + 1 /\ Append(q, p)[n + 1] = p
        /\ \A i \in 1 .. n : Append(q, p)[i] = q[i]
    BY <1>8, AppendMembers DEF q
  <2> DEFINE a == Append(q, p)
  <2>9. M.on[z] = t /\ M.head[t] = q[1] /\ M.on[p] = t /\ M.next[p] = None
    <3>1. M.on[z] = t
      BY <1>7, <2>6 DEF Follows, q, z
    <3>2. M.head[t] = q[1]
      BY <1>7, <2>1, <2>2 DEF Follows, q
    <3>3. M.on[p] = t /\ M.next[p] = None
      BY <1>2, <1>3, <2>1
    <3>. QED
      BY <3>1, <3>2, <3>3
  <2>10. \A i \in 1 .. n : M.on[q[i]] = t /\ M.next[q[i]] = IF i < n THEN q[i + 1] ELSE None
    BY <1>7 DEF Follows, q
  <2>11. \A i \in 1 .. n : q[i] = z => i = n
    <3>1. \A i, j \in 1 .. n : q[i] = q[j] => i = j
      BY <1>8, MembersOf DEF Distinct
    <3>. QED
      BY <2>6, <3>1 DEF z
  <2> HIDE DEF N, n
  <2>12. ASSUME NEW u \in Proc, u # t
         PROVE  /\ Len(Q[u]) # 0 => u \in LiveSet
                /\ u \in LiveSet => E.head[u] = IF Len(Q[u]) = 0 THEN None ELSE Q[u][1]
                /\ \A i \in 1 .. Len(Q[u]) :
                     /\ E.on[Q[u][i]] = u
                     /\ E.next[Q[u][i]] = IF i < Len(Q[u]) THEN Q[u][i + 1] ELSE None
    <3> DEFINE c == Q[u]
    <3>1. /\ Len(c) # 0 => u \in LiveSet
          /\ u \in LiveSet => M.head[u] = IF Len(c) = 0 THEN None ELSE c[1]
          /\ \A i \in 1 .. Len(c) : M.on[c[i]] = u /\ M.next[c[i]] = IF i < Len(c) THEN c[i + 1] ELSE None
      BY <1>7 DEF Follows
    <3>2. \A i \in 1 .. Len(c) : c[i] \in Proc
      BY <1>1
    <3> HIDE DEF c
    <3>3. \A i \in 1 .. Len(c) : c[i] \in Proc \ {z}
      BY <2>9, <2>12, <3>1, <3>2
    <3>4. \A i \in 1 .. Len(c) : E.next[c[i]] = M.next[c[i]]
      BY <2>7, <3>3
    <3>. QED
      BY <2>7, <3>1, <3>4 DEF c
  <2> HIDE DEF a
  <2>13. E.head[t] = a[1]
    <3>1. 1 \in 1 .. n
      BY <1>8, <2>2 DEF n
    <3>. QED
      BY <2>7, <2>8, <2>9, <3>1 DEF a
  <2>14. ASSUME NEW i \in 1 .. n + 1
         PROVE  E.on[a[i]] = t /\ E.next[a[i]] = IF i < n + 1 THEN a[i + 1] ELSE None
    <3>0. n \in Nat
      BY <1>8 DEF n
    <3>1. CASE i = n + 1
      <4>1. a[i] = p /\ p \in Proc \ {z} /\ ~(i < n + 1)
        BY <2>6, <2>8, <3>0, <3>1 DEF a
      <4>. QED
        BY <2>7, <2>9, <4>1
    <3>2. CASE i = n
      <4>1. a[i] = z /\ a[i + 1] = p /\ i < n + 1
        BY <2>6, <2>8, <3>0, <3>2 DEF a, z, n
      <4>. QED
        BY <2>7, <2>9, <4>1
    <3>3. CASE i # n + 1 /\ i # n
      <4>1. i \in 1 .. n /\ i + 1 \in 1 .. n /\ i < n /\ i < n + 1
        BY <3>0, <3>3
      <4>2. a[i] = q[i] /\ a[i + 1] = q[i + 1]
        BY <2>8, <4>1 DEF a
      <4>3. q[i] \in Proc \ {z}
        BY <1>8, <2>11, <3>3, <4>1 DEF n
      <4>. QED
        BY <2>7, <2>10, <4>1, <4>2, <4>3
    <3>. QED
      BY <3>1, <3>2, <3>3
  <2>15. Follows(E, N, LiveSet)
    <3> SUFFICES ASSUME NEW u \in Proc
                 PROVE  /\ Len(N[u]) # 0 => u \in LiveSet
                        /\ u \in LiveSet => E.head[u] = IF Len(N[u]) = 0 THEN None ELSE N[u][1]
                        /\ \A i \in 1 .. Len(N[u]) :
                             /\ E.on[N[u][i]] = u
                             /\ E.next[N[u][i]] = IF i < Len(N[u]) THEN N[u][i + 1] ELSE None
      BY DEF Follows
    <3>1. CASE u = t
      <4>1. N[u] = a /\ Len(a) = n + 1 /\ n + 1 # 0
        BY <1>8, <2>8, <3>1 DEF a, n
      <4>. QED
        BY <2>1, <2>13, <2>14, <3>1, <4>1
    <3>2. CASE u # t
      <4>1. N[u] = Q[u]
        BY <2>8, <3>2
      <4>. QED
        BY <2>12, <3>2, <4>1
    <3>. QED
      BY <3>1, <3>2
  <2>. QED
    BY <2>1, <2>15 DEF E, N
<1>. QED
  BY <1>9, <1>10

-----------------------------------------------------------------------------
(***************************************************************************)
(* The queues of senders.                                                  *)
(***************************************************************************)
\* Whom a process waits on was born no later than the occupant of that slot.
WaitPast == \A p \in Proc : InOp(p) => wait[p].gen <= gen[wait[p].pid]

\* QueueOK, of the queues Q as sequences.
EachOnce(Q) == \A t \in Proc : Distinct(Q[t])
QueuedWait(Q) ==
  \A t \in Proc : \A p \in Members(Q[t]) :
    Live(p) /\ Live(t) /\ at[p] = "queue" /\ wait[p] = Id(t)
WaitersQueue(Q) ==
  \A p \in Proc : Live(p) /\ at[p] = "queue" /\ wait[p].pid \in Proc /\ ~PeerGone(p)
                    => p \in Members(Q[wait[p].pid])

Queues(Q) == Follows(links, Q, LiveSet) /\ EachOnce(Q) /\ QueuedWait(Q) /\ WaitersQueue(Q)

QInv == WaitPast /\ (~links.crossed => \E Q \in [Proc -> Seq(Proc)] : Queues(Q))

LEMMA QInvMeansQueueOK == QInv => QueueOK
<1> SUFFICES ASSUME QInv, ~links.crossed, NEW t \in Proc, Live(t)
             PROVE  /\ Walk(links, t)[NSlots] = None
                    /\ \A p \in Queued(links, t) :
                         Cardinality({n \in 0 .. NSlots - 1 : Walk(links, t)[n] = p}) = 1
                    /\ \A p \in Queued(links, t) : Live(p) /\ at[p] = "queue" /\ wait[p] = Id(t)
                    /\ \A p \in Proc : Live(p) /\ at[p] = "queue" /\ wait[p].pid = t /\ ~PeerGone(p)
                                         => p \in Queued(links, t)
  BY DEF QueueOK
<1> PICK Q \in [Proc -> Seq(Proc)] : Queues(Q)
  BY DEF QInv
<1> DEFINE q == Q[t]
           w == Walk(links, t)
<1>1. /\ NSlots \in Nat /\ Len(q) \in Nat /\ Len(q) <= NSlots
      /\ \A n \in 0 .. NSlots : w[n] = IF n < Len(q) THEN q[n + 1] ELSE None
  BY WalkOf DEF Queues, EachOnce, LiveSet
<1>2. /\ \A i \in 1 .. Len(q) : q[i] \in Proc /\ q[i] \in Members(q)
      /\ \A x \in Members(q) : x \in Proc /\ \E i \in 1 .. Len(q) : q[i] = x
      /\ Len(q) = 0 => Members(q) = {}
  BY MembersOf
<1>3. \A i, j \in 1 .. Len(q) : q[i] = q[j] => i = j
  BY MembersOf DEF Queues, EachOnce, Distinct
<1>4. links.head[t] = None <=> Len(q) = 0
  <2>1. links.head[t] = IF Len(q) = 0 THEN None ELSE q[1]
    BY DEF Queues, Follows, LiveSet
  <2>2. Len(q) # 0 => q[1] \in Proc
    BY <1>1, <1>2
  <2>. QED
    BY <2>1, <2>2, NoneAssumption
<1>5. Queued(links, t) = IF Len(q) = 0 THEN {} ELSE {w[n] : n \in 0 .. NSlots - 1} \ {None}
  BY <1>4 DEF Queued
<1>6. \A p \in Members(q) : Live(p) /\ at[p] = "queue" /\ wait[p] = Id(t)
  BY DEF Queues, QueuedWait
<1>7. \A p \in Proc : Live(p) /\ at[p] = "queue" /\ wait[p].pid = t /\ ~PeerGone(p) => p \in Members(q)
  BY DEF Queues, WaitersQueue
<1> HIDE DEF q, w
<1>8. \A i \in 1 .. Len(q) : i - 1 \in 0 .. NSlots - 1 /\ w[i - 1] = q[i]
  <2> SUFFICES ASSUME NEW i \in 1 .. Len(q) PROVE i - 1 \in 0 .. NSlots - 1 /\ w[i - 1] = q[i]
    OBVIOUS
  <2>1. i - 1 \in 0 .. NSlots - 1 /\ i - 1 \in 0 .. NSlots /\ i - 1 < Len(q) /\ i - 1 + 1 = i
    BY <1>1
  <2>. QED
    BY <1>1, <2>1
<1>9. \A n \in 0 .. NSlots - 1 : w[n] # None => n + 1 \in 1 .. Len(q) /\ w[n] = q[n + 1] /\ n = n + 1 - 1
  BY <1>1
<1>10. Queued(links, t) = Members(q)
  <2>1. Members(q) \subseteq Queued(links, t)
    <3> SUFFICES ASSUME NEW x \in Members(q) PROVE x \in Queued(links, t)
      OBVIOUS
    <3>1. PICK i \in 1 .. Len(q) : q[i] = x /\ x \in Proc
      BY <1>2
    <3>2. i - 1 \in 0 .. NSlots - 1 /\ w[i - 1] = x /\ x # None /\ Len(q) # 0
      BY <1>1, <1>8, <3>1, NoneAssumption
    <3>. QED
      BY <1>5, <3>2
  <2>2. Queued(links, t) \subseteq Members(q)
    BY <1>2, <1>5, <1>9
  <2>. QED
    BY <2>1, <2>2
<1>11. w[NSlots] = None
  BY <1>1
<1>12. ASSUME NEW p \in Members(q)
       PROVE  Cardinality({n \in 0 .. NSlots - 1 : w[n] = p}) = 1
  <2>1. PICK i \in 1 .. Len(q) : q[i] = p /\ p \in Proc
    BY <1>2
  <2>2. i - 1 \in 0 .. NSlots - 1 /\ w[i - 1] = p
    BY <1>8, <2>1
  <2>3. ASSUME NEW n \in 0 .. NSlots - 1, w[n] = p PROVE n = i - 1
    <3>1. n + 1 \in 1 .. Len(q) /\ q[n + 1] = q[i] /\ n = n + 1 - 1
      BY <1>9, <2>1, <2>3, NoneAssumption
    <3>. QED
      BY <1>3, <3>1
  <2>4. {n \in 0 .. NSlots - 1 : w[n] = p} = {i - 1}
    BY <2>2, <2>3
  <2>. QED
    BY <2>4, FS_Singleton
<1>. QED
  BY <1>6, <1>7, <1>10, <1>11, <1>12 DEF w

\* A step in which nobody enters or leaves a queue loop.
LEMMA QueueKept ==
  ASSUME IInv, QInv, links' = links, gen' = gen,
         \A x \in Proc : /\ state'[x] = "unused" <=> state[x] = "unused"
                         /\ at'[x] = "queue" <=> at[x] = "queue"
                         /\ InOp(x)' => InOp(x) /\ wait'[x] = wait[x]
                         /\ x \in peerDied => x \in peerDied'
  PROVE  QInv'
<1>1. \A x \in Proc : /\ Live(x)' <=> Live(x)
                      /\ at[x] = "queue" => wait'[x] = wait[x] /\ InOp(x)
  BY DEF Live, InOp
<1>2. WaitPast'
  BY DEF QInv, WaitPast
<1>3. ASSUME NEW Q \in [Proc -> Seq(Proc)], Queues(Q) PROVE Queues(Q)'
  <2>1. LiveSet' = LiveSet
    BY <1>1 DEF LiveSet
  <2>2. QueuedWait(Q)'
    <3>1. \A t \in Proc : Members(Q[t]) \subseteq Proc
      BY MembersOf
    <3>. QED
      BY <1>1, <1>3, <3>1 DEF Queues, QueuedWait, Id
  <2>3. WaitersQueue(Q)'
    <3> SUFFICES ASSUME NEW x \in Proc, at'[x] = "queue", wait'[x].pid \in Proc, ~PeerGone(x)', Live(x)'
                 PROVE  x \in Members(Q[wait'[x].pid])
      BY DEF WaitersQueue
    <3>1. at[x] = "queue" /\ wait'[x] = wait[x] /\ Live(x)
      BY <1>1
    <3>2. ~PeerGone(x)
      BY <1>1, <3>1 DEF PeerGone
    <3>. QED
      BY <1>3, <3>1, <3>2 DEF Queues, WaitersQueue
  <2>4. Follows(links', Q, LiveSet') /\ EachOnce(Q)
    BY <1>3, <2>1 DEF Queues
  <2>. QED
    BY <2>2, <2>3, <2>4 DEF Queues, EachOnce
<1>. QED
  BY <1>2, <1>3 DEF QInv

\* A step of p in which p alone may enter or leave a queue, that of t.
LEMMA QueueStep ==
  ASSUME NEW Q \in [Proc -> Seq(Proc)], Queues(Q), NEW p \in Proc, NEW t \in Proc, NEW n \in Seq(Proc), NEW W,
         Follows(links', [Q EXCEPT ![t] = n], LiveSet), OthersKept(p, W), gen' = gen,
         Live(p), Live(p)', peerDied' \cup {p} = peerDied \cup {p},
         Distinct(n), Members(n) \ {p} = Members(Q[t]) \ {p},
         at[p] = "queue" => wait[p].pid = t,
         \/ p \in Members(n) /\ at'[p] = "queue" /\ wait'[p] = Id(t) /\ Live(t)
         \/ p \notin Members(n) /\ at'[p] # "queue"
  PROVE  [Q EXCEPT ![t] = n] \in [Proc -> Seq(Proc)] /\ Queues([Q EXCEPT ![t] = n])'
<1> DEFINE N == [Q EXCEPT ![t] = n]
<1>1. EachOnce(Q) /\ QueuedWait(Q) /\ WaitersQueue(Q)
  BY DEF Queues
<1>2. N \in [Proc -> Seq(Proc)] /\ \A u \in Proc : N[u] = IF u = t THEN n ELSE Q[u]
  OBVIOUS
<1>3. \A u \in Proc : Members(Q[u]) \subseteq Proc
  BY MembersOf
<1>4. \A x \in Proc : Live(x)' <=> Live(x)
  BY DEF OthersKept, Live
<1>5. ASSUME NEW u \in Proc, p \in Members(Q[u])
      PROVE  u = t
  <2>1. at[p] = "queue" /\ wait[p] = Id(u)
    BY <1>1, <1>5 DEF QueuedWait
  <2>2. Id(u).pid = u
    BY DEF Id
  <2>. QED
    BY <2>1, <2>2
<1>6. Follows(links', N, LiveSet')
  <2>1. LiveSet' = LiveSet
    BY <1>4 DEF LiveSet
  <2>. QED
    BY <2>1
<1> HIDE DEF N
<1>7. EachOnce(N)
  BY <1>1, <1>2 DEF EachOnce
<1>8. QueuedWait(N)'
  <2> SUFFICES ASSUME NEW u \in Proc, NEW x \in Members(N[u])
               PROVE  Live(x)' /\ Live(u)' /\ at'[x] = "queue" /\ wait'[x] = Id(u)
    BY DEF QueuedWait, Id
  <2>1. CASE x = p
    <3>1. u = t /\ p \in Members(n)
      BY <1>2, <1>5, <2>1
    <3>. QED
      BY <1>4, <2>1, <3>1
  <2>2. CASE x # p
    <3>1. x \in Members(Q[u])
      BY <1>2, <2>2
    <3>2. x \in Proc /\ Live(x) /\ Live(u) /\ at[x] = "queue" /\ wait[x] = Id(u)
      BY <1>1, <1>3, <3>1 DEF QueuedWait
    <3>. QED
      BY <1>4, <2>2, <3>2 DEF OthersKept
  <2>. QED
    BY <2>1, <2>2
<1>9. WaitersQueue(N)'
  <2> SUFFICES ASSUME NEW x \in Proc, at'[x] = "queue", wait'[x].pid \in Proc, ~PeerGone(x)', Live(x)'
               PROVE  x \in Members(N[wait'[x].pid])
    BY DEF WaitersQueue
  <2>1. CASE x = p
    BY <1>2, <2>1 DEF Id
  <2>2. CASE x # p
    <3>1. at[x] = "queue" /\ wait'[x] = wait[x] /\ Live(x) /\ (x \in peerDied <=> x \in peerDied')
      BY <1>4, <2>2 DEF OthersKept
    <3>2. ~PeerGone(x)
      BY <1>4, <3>1 DEF PeerGone
    <3>3. x \in Members(Q[wait[x].pid])
      BY <1>1, <3>1, <3>2 DEF WaitersQueue
    <3>. QED
      BY <1>2, <2>2, <3>1, <3>3
  <2>. QED
    BY <2>1, <2>2
<1>. QED
  BY <1>2, <1>6, <1>7, <1>8, <1>9 DEF Queues, EachOnce, N

LEMMA WaitStep ==
  ASSUME WaitPast, NEW p \in Proc, NEW W, OthersKept(p, W), gen' = gen,
         InOp(p)' => wait'[p].gen <= gen[wait'[p].pid]
  PROVE  WaitPast'
BY DEF WaitPast, OthersKept, InOp

\* The links L have p on t's queue, the others as they were; it may be off the queue if
\* its peer is gone.
Joined(L, p, t, gone) ==
  ~L.crossed =>
    /\ ~links.crossed
    /\ \A Q \in [Proc -> Seq(Proc)] : Queues(Q) =>
         \E q \in Seq(Proc) :
           /\ Follows(L, [Q EXCEPT ![t] = q], LiveSet)
           /\ Distinct(q) /\ Members(q) \ {p} = Members(Q[t]) \ {p}
           /\ ~gone => p \in Members(q)

\* ipc_q_remove on top of that.
LEMMA UnlinkJoined ==
  ASSUME NEW Q \in [Proc -> Seq(Proc)], Queues(Q), NEW L \in Links, NEW p \in Proc, NEW t \in Proc,
         NEW q \in Seq(Proc), Follows(L, [Q EXCEPT ![t] = q], LiveSet), Distinct(q),
         at[p] = "queue" => wait[p].pid = t
  PROVE  Follows(Remove(L, p), [Q EXCEPT ![t] = Unlink(q, p)], LiveSet)
<1> DEFINE N == [Q EXCEPT ![t] = q]
<1>1. N \in [Proc -> Seq(Proc)] /\ \A u \in Proc : N[u] = IF u = t THEN q ELSE Q[u]
  BY SMTT(30)
<1>2. [N EXCEPT ![t] = Unlink(N[t], p)] = [Q EXCEPT ![t] = Unlink(q, p)]
  OBVIOUS
<1>3. \A u \in Proc : p \in Members(N[u]) => u = t
  <2> SUFFICES ASSUME NEW u \in Proc, p \in Members(Q[u]) PROVE u = t
    BY <1>1
  <2>1. at[p] = "queue" /\ wait[p] = Id(u)
    BY DEF Queues, QueuedWait
  <2>2. Id(u).pid = u
    BY DEF Id
  <2>. QED
    BY <2>1, <2>2
<1>4. \A u \in Proc : Distinct(N[u])
  BY <1>1 DEF Queues, EachOnce
<1>5. Follows(L, N, LiveSet)
  OBVIOUS
<1> HIDE DEF N
<1>6. Follows(Remove(L, p), [N EXCEPT ![t] = Unlink(N[t], p)], LiveSet)
  BY <1>1, <1>3, <1>4, <1>5, RemoveFollows
<1>. QED
  BY <1>2, <1>6

\* One pass of the queue loop: p sleeps on the queue or is off it.
LEMMA AttemptQueue ==
  ASSUME IInv, QInv, NEW p \in Proc, NEW m, NEW L \in Links, NEW box, NEW gone, NEW late, NEW S,
         AttemptFrom(p, m, box, gone, late, S), Attempt(p, m, L, box, gone, late, S),
         Joined(L, p, m.to.pid, gone),
         at[p] = "queue" => wait[p].pid = m.to.pid,
         m.to.gen <= gen[m.to.pid]
  PROVE  QInv'
<1> DEFINE t == m.to.pid
<1>1. t \in Proc /\ Live(p) /\ gen' = gen /\ peerDied' \cup {p} = peerDied \cup {p} /\ m.to \in Ref
  BY DEF AttemptFrom, Msg
<1>2. PICK W : OthersKept(p, W)
  BY AttemptEffect DEF DeliveryEffect, IInv
<1>3. /\ state'[p] # "unused" /\ (InOp(p)' => wait'[p] = m.to)
  BY AttemptEffect DEF DeliveryEffect, IInv, InOp
<1>4. \/ links' = Remove(L, p) /\ at'[p] # "queue"
      \/ links' = L /\ at'[p] = "queue" /\ ~gone
  <2>1. CASE Deliver(p, m, L, box, S)
    BY <2>1, ParkEffect DEF Deliver, IInv
  <2>2. CASE DeliverAndLeave(p, m, L, box, late, S)
    BY <2>2, LeaveEffect DEF DeliverAndLeave, IInv
  <2>3. CASE GiveUp(p, m, L, box, S)
    BY <2>3, LeaveEffect DEF GiveUp, IInv
  <2>4. CASE SleepInQueue(p, m, L, box, S) /\ ~gone
    BY <2>4, ParkEffect DEF SleepInQueue, IInv
  <2>. QED
    BY <2>1, <2>2, <2>3, <2>4 DEF Attempt
<1>5. ~gone => Live(t) /\ m.to = Id(t)
  BY <1>1 DEF AttemptFrom, Id, Ref
<1>5a. Joined(L, p, t, gone) /\ (at[p] = "queue" => wait[p].pid = t)
  OBVIOUS
<1>6. Live(p)' /\ (InOp(p)' => wait'[p].gen <= gen[wait'[p].pid])
  BY <1>3 DEF Live
<1>7. WaitPast'
  BY <1>1, <1>2, <1>6, WaitStep DEF QInv
<1>8. L.crossed = links'.crossed
  BY ZenonT(40), <1>4, RemoveEffect
<1>8a. at'[p] = "queue" => wait'[p] = m.to
  BY <1>3 DEF InOp
<1> HIDE DEF t
<1>9. ASSUME ~links'.crossed PROVE \E N \in [Proc -> Seq(Proc)] : Queues(N)'
  <2>1. PICK Q \in [Proc -> Seq(Proc)] : Queues(Q)
    BY <1>5a, <1>8, <1>9 DEF Joined, QInv
  <2>2. PICK q \in Seq(Proc) : /\ Follows(L, [Q EXCEPT ![t] = q], LiveSet)
                               /\ Distinct(q) /\ Members(q) \ {p} = Members(Q[t]) \ {p}
                               /\ ~gone => p \in Members(q)
    BY <1>5a, <1>8, <1>9, <2>1 DEF Joined
  <2>3. CASE links' = Remove(L, p) /\ at'[p] # "queue"
    <3> DEFINE rest == Unlink(q, p)
    <3>1. /\ rest \in Seq(Proc) /\ Distinct(rest) /\ p \notin Members(rest)
          /\ Members(rest) \ {p} = Members(Q[t]) \ {p}
      BY <2>2, UnlinkProperties
    <3>2. Follows(links', [Q EXCEPT ![t] = rest], LiveSet)
      BY <1>1, <1>5a, <2>1, <2>2, <2>3, UnlinkJoined
    <3> HIDE DEF rest
    <3>3. [Q EXCEPT ![t] = rest] \in [Proc -> Seq(Proc)] /\ Queues([Q EXCEPT ![t] = rest])'
      BY <1>1, <1>2, <1>5a, <1>6, <2>1, <2>3, <3>1, <3>2, QueueStep
    <3>. QED
      BY <3>3
  <2>4. CASE links' = L /\ at'[p] = "queue" /\ ~gone
    <3>1. wait'[p] = Id(t) /\ Live(t)
      BY <1>5, <1>8a, <2>4
    <3>2. Follows(links', [Q EXCEPT ![t] = q], LiveSet)
      BY <2>2, <2>4
    <3>3. [Q EXCEPT ![t] = q] \in [Proc -> Seq(Proc)] /\ Queues([Q EXCEPT ![t] = q])'
      BY <1>1, <1>2, <1>5a, <1>6, <2>1, <2>2, <2>4, <3>1, <3>2, QueueStep
    <3>. QED
      BY <3>3
  <2>. QED
    BY <1>4, <2>3, <2>4
<1>. QED
  BY <1>7, <1>9 DEF QInv

\* A process that is in no queue loop is on no queue; it queues up at the end.
LEMMA Enqueued ==
  ASSUME IInv, QInv, NEW p \in Proc, at[p] # "queue", NEW t \in Proc, NEW gone, ~gone => Live(t)
  PROVE  Enqueue(links, p, t) \in Links /\ Joined(Enqueue(links, p, t), p, t, gone)
<1> DEFINE E == Enqueue(links, p, t)
<1>1. links \in Links /\ E \in Links
  BY EnqueueType DEF IInv, TypeOK
<1>2. ASSUME ~E.crossed PROVE ~links.crossed
  BY <1>1, <1>2, CrossedGrows
<1>3. ASSUME ~E.crossed, NEW Q \in [Proc -> Seq(Proc)], Queues(Q)
      PROVE  \E q \in Seq(Proc) :
               /\ Follows(E, [Q EXCEPT ![t] = q], LiveSet)
               /\ Distinct(q) /\ Members(q) \ {p} = Members(Q[t]) \ {p}
               /\ ~gone => p \in Members(q)
  <2>1. \A u \in Proc : Distinct(Q[u]) /\ p \notin Members(Q[u])
    BY <1>3 DEF Queues, EachOnce, QueuedWait
  <2>2. Follows(E, IF Live(t) THEN [Q EXCEPT ![t] = Append(Q[t], p)] ELSE Q, LiveSet)
    BY <1>1, <1>3, <2>1, EnqueueFollows DEF Queues
  <2> HIDE DEF E
  <2>3. CASE Live(t)
    <3> DEFINE a == Append(Q[t], p)
    <3>1. a \in Seq(Proc) /\ Members(a) = Members(Q[t]) \cup {p} /\ Distinct(a)
      BY <2>1, AppendMembers
    <3>2. Follows(E, [Q EXCEPT ![t] = a], LiveSet)
      BY <2>2, <2>3
    <3> HIDE DEF a
    <3>. QED
      BY <3>1, <3>2
  <2>4. CASE ~Live(t)
    <3>1. Q = [Q EXCEPT ![t] = Q[t]]
      OBVIOUS
    <3>2. Follows(E, [Q EXCEPT ![t] = Q[t]], LiveSet)
      BY <2>2, <2>4, <3>1
    <3>. QED
      BY <2>1, <2>4, <3>2
  <2>. QED
    BY <2>3, <2>4
<1>. QED
  BY <1>1, <1>2, <1>3 DEF Joined

LEMMA SendQueue ==
  ASSUME IInv, QInv, NEW p \in Proc, NEW t \in Proc, Send(p, t)
  PROVE  QInv'
<1> DEFINE m == [from |-> Id(p), seq |-> 0, kind |-> "send", to |-> Id(t), ans |-> 0]
<1>1. Id(p) \in Ref /\ Id(t) \in Ref /\ Id(p).pid = p /\ Id(t).pid = t /\ Id(t).gen = gen[t]
  BY DEF Id, Ref, Pid, IInv, TypeOK
<1>2. m \in Msg /\ m.from = Id(p) /\ m.to = Id(t) /\ m.kind = "send"
  BY <1>1 DEF Msg, Kinds
<1>3. t # p
  BY EnvAssumption DEF Send
<1>4. Live(p) /\ p \notin inCall /\ at[p] = "user"
  BY DEF Send, Runs, Live, IInv, OpInv, InOp
<1>5. Attempt(p, m, Enqueue(links, p, t), inbox, FALSE, FALSE, {})
  BY DEF Send
<1> HIDE DEF m
<1>6. AttemptFrom(p, m, inbox, FALSE, FALSE, {})
  BY <1>1, <1>2, <1>3, <1>4 DEF AttemptFrom, Send, IInv, TypeOK
<1>7. gen[t] <= gen[t]
  BY DEF IInv, TypeOK
<1>8. Live(t)
  BY DEF Send
<1>9. Enqueue(links, p, t) \in Links /\ Joined(Enqueue(links, p, t), p, t, FALSE)
  BY <1>4, <1>8, Enqueued
<1>. QED
  BY <1>1, <1>2, <1>4, <1>5, <1>6, <1>7, <1>9, AttemptQueue

LEMMA CallQueue ==
  ASSUME IInv, QInv, NEW p \in Proc, NEW t \in Proc, Call(p, t)
  PROVE  QInv'
<1> DEFINE n == callSeq[p] + 1
           m == [from |-> Id(p), seq |-> n, kind |-> "call", to |-> Id(t), ans |-> 0]
           back == {s \in Proc : HasMsg(p) /\ Live(s) /\ inbox[p].from = Id(s)}
           box == [inbox EXCEPT ![p] = NoMsg]
<1>1. /\ Id(p) \in Ref /\ Id(t) \in Ref /\ Id(p).pid = p /\ Id(t).pid = t /\ Id(t).gen = gen[t]
      /\ n \in Nat
  BY DEF Id, Ref, Pid, IInv, TypeOK
<1>2. m \in Msg /\ m.from = Id(p) /\ m.to = Id(t) /\ m.kind = "call"
  BY <1>1 DEF Msg, Kinds
<1>3. t # p
  BY EnvAssumption DEF Call
<1>4. Live(p) /\ p \notin inCall /\ at[p] = "user"
  BY DEF Call, Runs, Live, IInv, OpInv, InOp
<1>5. Attempt(p, m, Enqueue(links, p, t), box, FALSE, FALSE, back)
  BY DEF Call
<1>5a. bounced' = (bounced \cup back) \ {p} /\ back \subseteq Proc
  BY DEF Call
<1> HIDE DEF m, back
<1>6. AttemptFrom(p, m, box, FALSE, FALSE, back)
  <2>1. box[p] = NoMsg
    BY DEF IInv, TypeOK
  <2> HIDE DEF box
  <2>. QED
    BY <1>1, <1>2, <1>3, <1>4, <1>5a, <2>1 DEF AttemptFrom, Call, IInv, TypeOK, box
<1>7. gen[t] <= gen[t]
  BY DEF IInv, TypeOK
<1> HIDE DEF box
<1>8. Live(t)
  BY DEF Call
<1>9. Enqueue(links, p, t) \in Links /\ Joined(Enqueue(links, p, t), p, t, FALSE)
  BY <1>4, <1>8, Enqueued
<1>. QED
  BY <1>1, <1>2, <1>4, <1>5, <1>6, <1>7, <1>9, AttemptQueue

LEMMA ReplyQueue ==
  ASSUME IInv, QInv, NEW p \in Proc, NEW r \in pend[p], Reply(p, r)
  PROVE  QInv'
<1> DEFINE t == r.who.pid
           m == [from |-> Id(p), seq |-> 0, kind |-> "reply", to |-> Id(t), ans |-> r.seq]
<1>1. r \in Request /\ r.seq \in Nat /\ t \in Proc \ {p}
  BY DEF IInv, TypeOK, Request, SendersOK
<1> HIDE DEF t
<1>2. /\ Id(p) \in Ref /\ Id(t) \in Ref
      /\ Id(p).pid = p /\ Id(t).pid = t /\ Id(t).gen = gen[t]
  BY <1>1 DEF Id, Ref, Pid, IInv, TypeOK
<1>3. m \in Msg /\ m.from = Id(p) /\ m.to = Id(t) /\ m.kind = "reply"
  BY <1>1, <1>2 DEF Msg, Kinds
<1>4. Live(p) /\ p \notin inCall /\ at[p] = "user"
  BY DEF Reply, Runs, Live, IInv, OpInv, InOp
<1>5. UNCHANGED <<gen, bounced, timedOut, noted, callSeq, ops>>
  BY DEF Reply
<1>6. CASE /\ Live(t) /\ peerDied' = peerDied \ {p}
           /\ Attempt(p, m, Enqueue(links, p, t), inbox, FALSE, FALSE, {})
  <2> HIDE DEF m
  <2>1. AttemptFrom(p, m, inbox, FALSE, FALSE, {})
    BY <1>1, <1>2, <1>3, <1>4, <1>5, <1>6 DEF AttemptFrom, IInv, TypeOK
  <2>2. gen[t] <= gen[t]
    BY <1>1 DEF IInv, TypeOK
  <2>3. Enqueue(links, p, t) \in Links /\ Joined(Enqueue(links, p, t), p, t, FALSE)
    BY <1>1, <1>4, <1>6, Enqueued
  <2>. QED
    BY <1>1, <1>2, <1>3, <1>4, <1>6, <2>1, <2>2, <2>3, AttemptQueue
<1>7. CASE UNCHANGED <<state, at, out, wait, inbox, links, acked, peerDied, inCall>>
  BY <1>5, <1>7, QueueKept DEF InOp
<1>. QED
  BY <1>6, <1>7 DEF Reply, t

\* The queue of a process that comes back to its queue loop.
LEMMA Resumed ==
  ASSUME IInv, QInv, NEW p \in Proc, InOp(p)
  PROVE  /\ wait[p].pid \in Proc /\ wait[p].gen <= gen[wait[p].pid] /\ out[p].to = wait[p]
         /\ links \in Links
         /\ at[p] = "queue" => Joined(links, p, wait[p].pid, PeerGone(p))
<1>1. wait[p].pid \in Proc /\ out[p].to = wait[p] /\ Live(p)
  BY DEF IInv, OpInv
<1>2. wait[p].gen <= gen[wait[p].pid] /\ links \in Links
  BY DEF QInv, WaitPast, IInv, TypeOK
<1>3. ASSUME at[p] = "queue", NEW Q \in [Proc -> Seq(Proc)], Queues(Q)
      PROVE  \E q \in Seq(Proc) :
               /\ Follows(links, [Q EXCEPT ![wait[p].pid] = q], LiveSet)
               /\ Distinct(q) /\ Members(q) \ {p} = Members(Q[wait[p].pid]) \ {p}
               /\ ~PeerGone(p) => p \in Members(q)
  <2> DEFINE t == wait[p].pid
  <2>1. Q = [Q EXCEPT ![t] = Q[t]] /\ Q[t] \in Seq(Proc)
    BY <1>1
  <2>2. Follows(links, Q, LiveSet) /\ Distinct(Q[t]) /\ (~PeerGone(p) => p \in Members(Q[t]))
    BY <1>1, <1>3 DEF Queues, EachOnce, WaitersQueue
  <2> HIDE DEF t
  <2>3. Follows(links, [Q EXCEPT ![t] = Q[t]], LiveSet)
    BY <2>1, <2>2
  <2>. QED
    BY <2>1, <2>2, <2>3 DEF t
<1>. QED
  BY <1>1, <1>2, <1>3 DEF Joined

LEMMA InQueueQueue ==
  ASSUME IInv, QInv, NEW p \in Proc, InQueue(p)
  PROVE  QInv'
<1> DEFINE m == out[p]
<1>0. PICK t : t = wait[p].pid
  OBVIOUS
<1>1. Runs(p, "queue") /\ InOp(p) /\ at[p] = "queue" /\ Live(p)
  BY DEF InQueue, Runs, InOp, Live
<1>2. /\ t \in Proc /\ wait[p].gen <= gen[t] /\ m.to = wait[p]
      /\ links \in Links /\ Joined(links, p, t, PeerGone(p))
  BY <1>0, <1>1, Resumed
<1>3. UNCHANGED <<gen, peerDied, timedOut, noted>> /\ bounced' \subseteq bounced
  BY DEF InQueue, DeliverTwice
<1>4. AttemptFrom(p, m, inbox, PeerGone(p), Late(p), {})
  BY <1>1, <1>3, ResumedFrom
<1>5. CASE Attempt(p, m, links, inbox, PeerGone(p), Late(p), {})
  <2> HIDE DEF m
  <2>. QED
    BY <1>0, <1>2, <1>4, <1>5, AttemptQueue
<1>6. CASE DeliverTwice(p)
  <2> DEFINE L == Remove(links, p)
             again == Enqueue(L, p, t)
  <2>0. m.to.pid = t
    BY <1>0, <1>2
  <2>1. \/ Leave(p, m, {t}) /\ links' = Remove(again, p)
        \/ Park(p, m, "queue", {t}) /\ links' = again /\ ~PeerGone(p)
    BY <1>6, <2>0 DEF DeliverTwice
  <2>2. L \in Links /\ again \in Links
    BY <1>2, LinkTypes, EnqueueType
  <2> HIDE DEF m
  <2>3. ~links'.crossed => ~again.crossed /\ ~L.crossed /\ ~links.crossed
    <3>1. links'.crossed = again.crossed
      <4> HIDE DEF again
      <4>. QED
        BY <2>1, <2>2, RemoveEffect
    <3>2. ~again.crossed => ~L.crossed
      <4> HIDE DEF L
      <4>. QED
        BY <1>2, <2>2, CrossedGrows
    <3>3. L.crossed = links.crossed
      BY <1>2, RemoveEffect
    <3>. QED
      BY <3>1, <3>2, <3>3
  <2>4. ASSUME ~links'.crossed, NEW Q \in [Proc -> Seq(Proc)], Queues(Q)
        PROVE  \E q \in Seq(Proc) :
                 /\ Follows(again, [Q EXCEPT ![t] = q], LiveSet)
                 /\ Distinct(q) /\ Members(q) \ {p} = Members(Q[t]) \ {p}
                 /\ Live(t) => p \in Members(q)
    <3> DEFINE r == Unlink(Q[t], p)
               N == [Q EXCEPT ![t] = r]
    <3>1. Q = [Q EXCEPT ![t] = Q[t]] /\ Q[t] \in Seq(Proc)
      BY <1>2
    <3>2. Follows(links, [Q EXCEPT ![t] = Q[t]], LiveSet) /\ \A u \in Proc : Distinct(Q[u])
      BY <2>4, <3>1 DEF Queues, EachOnce
    <3>3. Follows(L, N, LiveSet)
      BY <1>0, <1>1, <1>2, <2>4, <3>1, <3>2, UnlinkJoined
    <3>4. r \in Seq(Proc) /\ Distinct(r) /\ p \notin Members(r) /\ Members(r) = Members(Q[t]) \ {p}
      <4>1. /\ r \in Seq(Proc) /\ Distinct(r) /\ p \notin Members(r)
            /\ Members(r) \subseteq Members(Q[t]) /\ Members(Q[t]) \ {p} \subseteq Members(r)
        BY <1>2, <3>1, <3>2, UnlinkProperties
      <4> HIDE DEF r
      <4>. QED
        BY <4>1
    <3> HIDE DEF r
    <3>5. N \in [Proc -> Seq(Proc)] /\ N[t] = r /\ \A u \in Proc : u # t => N[u] = Q[u]
      BY <1>2, <3>4
    <3>6. \A u \in Proc : Distinct(N[u]) /\ p \notin Members(N[u])
      <4> SUFFICES ASSUME NEW u \in Proc, u # t PROVE p \notin Members(Q[u])
        BY <3>2, <3>4, <3>5
      <4>1. Id(u).pid = u
        BY DEF Id
      <4>. QED
        BY <1>0, <2>4, <4>1 DEF Queues, QueuedWait
    <3>7. ~again.crossed
      BY <2>3, <2>4
    <3>8. [N EXCEPT ![t] = Append(N[t], p)] = [Q EXCEPT ![t] = Append(r, p)]
      BY <3>5
    <3>9. N = [Q EXCEPT ![t] = r]
      OBVIOUS
    <3> HIDE DEF N, L
    <3>10. Follows(again, IF Live(t) THEN [N EXCEPT ![t] = Append(N[t], p)] ELSE N, LiveSet)
      BY <1>2, <2>2, <3>3, <3>5, <3>6, <3>7, EnqueueFollows
    <3> HIDE DEF again
    <3>11. CASE Live(t)
      <4>1. Follows(again, [Q EXCEPT ![t] = Append(r, p)], LiveSet)
        BY <3>8, <3>10, <3>11
      <4>2. Append(r, p) \in Seq(Proc) /\ Members(Append(r, p)) = Members(r) \cup {p} /\ Distinct(Append(r, p))
        BY <3>4, AppendMembers
      <4>3. Members(Append(r, p)) \ {p} = Members(Q[t]) \ {p} /\ p \in Members(Append(r, p))
        BY <3>4, <4>2
      <4>. QED
        BY <4>1, <4>2, <4>3
    <3>12. CASE ~Live(t)
      <4>1. Follows(again, [Q EXCEPT ![t] = r], LiveSet)
        BY <3>9, <3>10, <3>12
      <4>. QED
        BY <3>4, <3>12, <4>1
    <3>. QED
      BY <3>11, <3>12
  <2> HIDE DEF L, again
  <2>5. /\ at[p] = "queue" => wait[p].pid = t
        /\ Live(p) /\ gen' = gen /\ peerDied' \cup {p} = peerDied \cup {p}
    BY <1>0, <1>1, <1>3
  <2>6. CASE Leave(p, m, {t}) /\ links' = Remove(again, p)
    <3>1. PICK W : OthersKept(p, W)
      BY <2>6, LeaveEffect DEF IInv
    <3>2. at'[p] = "user" /\ state'[p] = "runnable"
      BY <2>6, LeaveEffect DEF IInv
    <3>3. Live(p)' /\ ~InOp(p)' /\ at'[p] # "queue"
      BY <3>2 DEF Live, InOp
    <3>4. WaitPast'
      BY <2>5, <3>1, <3>3, WaitStep DEF QInv
    <3>5. ASSUME ~links'.crossed PROVE \E N \in [Proc -> Seq(Proc)] : Queues(N)'
      <4>1. PICK Q \in [Proc -> Seq(Proc)] : Queues(Q)
        BY <2>3, <3>5 DEF QInv
      <4>2. PICK q \in Seq(Proc) : /\ Follows(again, [Q EXCEPT ![t] = q], LiveSet)
                                   /\ Distinct(q) /\ Members(q) \ {p} = Members(Q[t]) \ {p}
        BY <2>4, <3>5, <4>1
      <4> DEFINE rest == Unlink(q, p)
      <4>3. /\ rest \in Seq(Proc) /\ Distinct(rest) /\ p \notin Members(rest)
            /\ Members(rest) \ {p} = Members(Q[t]) \ {p}
        BY <4>2, UnlinkProperties
      <4>4. Follows(links', [Q EXCEPT ![t] = rest], LiveSet)
        BY <1>2, <2>2, <2>5, <2>6, <4>1, <4>2, UnlinkJoined
      <4> HIDE DEF rest
      <4>5. [Q EXCEPT ![t] = rest] \in [Proc -> Seq(Proc)] /\ Queues([Q EXCEPT ![t] = rest])'
        BY <1>2, <2>5, <3>1, <3>3, <4>1, <4>3, <4>4, QueueStep
      <4>. QED
        BY <4>5
    <3>. QED
      BY <3>4, <3>5 DEF QInv
  <2>7. CASE Park(p, m, "queue", {t}) /\ links' = again /\ ~PeerGone(p)
    <3>1. OthersKept(p, {t}) /\ at'[p] = "queue" /\ wait'[p] = m.to /\ state'[p] = "blocked"
      BY <2>7, ParkEffect DEF IInv
    <3>2. wait[p] = Id(t) /\ Live(t)
      BY <1>0, <1>2, <2>7, NoneAssumption DEF PeerGone, Id, IInv, TypeOK, Ref, NoRef
    <3>3. Live(p)' /\ wait'[p] = Id(t) /\ wait'[p].gen <= gen[wait'[p].pid]
      BY <1>0, <1>2, <3>1, <3>2 DEF Live
    <3>4. WaitPast'
      BY <2>5, <3>1, <3>3, WaitStep DEF QInv
    <3>5. ASSUME ~links'.crossed PROVE \E N \in [Proc -> Seq(Proc)] : Queues(N)'
      <4>1. PICK Q \in [Proc -> Seq(Proc)] : Queues(Q)
        BY <2>3, <3>5 DEF QInv
      <4>2. PICK q \in Seq(Proc) : /\ Follows(again, [Q EXCEPT ![t] = q], LiveSet)
                                   /\ Distinct(q) /\ Members(q) \ {p} = Members(Q[t]) \ {p}
                                   /\ p \in Members(q)
        BY <2>4, <3>2, <3>5, <4>1
      <4>3. Follows(links', [Q EXCEPT ![t] = q], LiveSet)
        BY <2>7, <4>2
      <4>4. [Q EXCEPT ![t] = q] \in [Proc -> Seq(Proc)] /\ Queues([Q EXCEPT ![t] = q])'
        BY <1>2, <2>5, <3>1, <3>2, <3>3, <4>1, <4>2, <4>3, QueueStep
      <4>. QED
        BY <4>4
    <3>. QED
      BY <3>4, <3>5 DEF QInv
  <2>. QED
    BY <2>1, <2>6, <2>7
<1>. QED
  BY <1>5, <1>6 DEF InQueue

\* A process that leaves its system call from another loop than that of the queue.
LEMMA LeaveQueue ==
  ASSUME IInv, QInv, NEW p \in Proc, Live(p), at[p] # "queue", NEW m, NEW S, Leave(p, m, S),
         UNCHANGED <<gen, links, peerDied>>
  PROVE  QInv'
<1>1. PICK W : OthersKept(p, W)
  BY LeaveEffect DEF IInv
<1>2. at'[p] = "user" /\ state'[p] = "runnable"
  BY LeaveEffect DEF IInv
<1>3. \A x \in Proc : /\ state'[x] = "unused" <=> state[x] = "unused"
                      /\ at'[x] = "queue" <=> at[x] = "queue"
                      /\ InOp(x)' => InOp(x) /\ wait'[x] = wait[x]
  BY <1>1, <1>2 DEF OthersKept, InOp, Live
<1>. QED
  BY <1>3, QueueKept

LEMMA RedeliverQueue ==
  ASSUME IInv, QInv, NEW p \in Proc, Redeliver(p)
  PROVE  QInv'
<1> DEFINE t == wait[p].pid
<1>1. Runs(p, "ack") /\ InOp(p) /\ at[p] # "queue" /\ Live(p)
  BY DEF Redeliver, Runs, InOp, Live
<1>2. UNCHANGED <<gen, peerDied, timedOut, noted>> /\ bounced' \subseteq bounced
  BY DEF Redeliver
<1>3. AttemptFrom(p, out[p], inbox, PeerGone(p), Late(p), {})
  BY <1>1, <1>2, ResumedFrom
<1>4. t \in Proc /\ wait[p].gen <= gen[t] /\ out[p].to = wait[p]
  BY <1>1, Resumed
<1>5. Attempt(p, out[p], Enqueue(links, p, t), inbox, PeerGone(p), Late(p), {})
  BY DEF Redeliver
<1>6. ~PeerGone(p) => Live(t)
  BY <1>3, <1>4 DEF AttemptFrom
<1> HIDE DEF t
<1>7. Enqueue(links, p, t) \in Links /\ Joined(Enqueue(links, p, t), p, t, PeerGone(p))
  BY <1>1, <1>4, <1>6, Enqueued
<1>. QED
  BY <1>1, <1>3, <1>4, <1>5, <1>7, AttemptQueue DEF t

\* Phase 3 of ipc_call has nothing to do with queues.
LEMMA AnswerQueue ==
  ASSUME IInv, QInv, NEW p \in Proc, InOp(p), at[p] # "queue", Answer(p),
         UNCHANGED <<gen, links, peerDied>>
  PROVE  QInv'
<1>1. Live(p) /\ out[p].to = wait[p]
  BY DEF IInv, OpInv
<1>2. CASE \E S : Leave(p, out[p], S)
  BY <1>1, <1>2, LeaveQueue
<1>3. CASE Park(p, out[p], "answer", {})
  <2>1. /\ at'[p] = "answer" /\ wait'[p] = wait[p] /\ state'[p] = "blocked" /\ OthersKept(p, {})
    BY <1>1, <1>3, ParkEffect DEF IInv
  <2>2. \A x \in Proc : /\ state'[x] = "unused" <=> state[x] = "unused"
                        /\ at'[x] = "queue" <=> at[x] = "queue"
                        /\ InOp(x)' => InOp(x) /\ wait'[x] = wait[x]
    BY <1>1, <2>1 DEF OthersKept, InOp, Live
  <2>. QED
    BY <2>2, QueueKept
<1>. QED
  BY <1>2, <1>3 DEF Answer, TakeReply

\* The steps that touch no queue and no loop but that of p.
LEMMA OtherQueue ==
  ASSUME IInv, QInv, NEW p \in Proc,
         \/ Poll(p) \/ Recv(p) \/ InRecv(p) \/ InAnswer(p) \/ Acknowledged(p)
         \/ NotAcknowledged(p) \/ PostNote(p) \/ DeliverNote(p)
  PROVE  QInv'
<1>1. CASE (Poll(p) \/ Recv(p) \/ InRecv(p)) /\ at[p] \in {"user", "recv"}
  <2>1. /\ \A x \in Proc : state'[x] = "unused" <=> state[x] = "unused"
        /\ UNCHANGED <<links, gen, wait, peerDied>>
        /\ \A x \in Proc : x # p => at'[x] = at[x]
        /\ at'[p] \in {"user", "recv"}
    BY <1>1 DEF Poll, Recv, InRecv, Consume, Doze, Runs, Awake, IInv, TypeOK
  <2>2. \A x \in Proc : /\ state'[x] = "unused" <=> state[x] = "unused"
                        /\ at'[x] = "queue" <=> at[x] = "queue"
                        /\ InOp(x)' => InOp(x) /\ wait'[x] = wait[x]
    BY <1>1, <2>1 DEF InOp
  <2>. QED
    BY <2>1, <2>2, QueueKept
<1>2. CASE PostNote(p) \/ DeliverNote(p)
  <2>1. /\ \A x \in Proc : state'[x] = "unused" <=> state[x] = "unused"
        /\ UNCHANGED <<links, gen, at, wait, peerDied>>
    BY <1>2 DEF PostNote, DeliverNote, Awake, Live, IInv, TypeOK
  <2>. QED
    BY <2>1, QueueKept DEF InOp
<1>3. CASE InAnswer(p)
  BY <1>3, AnswerQueue DEF InAnswer, Runs, InOp
<1>4. CASE Acknowledged(p)
  <2>1. InOp(p) /\ Live(p) /\ at[p] # "queue" /\ UNCHANGED <<gen, links, peerDied>>
    BY <1>4 DEF Acknowledged, Runs, InOp, Live
  <2>2. Answer(p) \/ Leave(p, out[p], {})
    BY <1>4 DEF Acknowledged
  <2>. QED
    BY <2>1, <2>2, AnswerQueue, LeaveQueue
<1>5. CASE NotAcknowledged(p)
  <2>1. Live(p) /\ at[p] # "queue"
    BY <1>5 DEF NotAcknowledged, Runs, Live
  <2>2. CASE Doze(p)
    <3>1. /\ \A x \in Proc : state'[x] = "unused" <=> state[x] = "unused"
          /\ UNCHANGED <<links, gen, at, wait, peerDied>>
      BY <2>1, <2>2 DEF Doze, Live, IInv, TypeOK
    <3>. QED
      BY <3>1, QueueKept DEF InOp
  <2>3. CASE (\E S : Leave(p, out[p], S)) /\ UNCHANGED <<gen, links, peerDied>>
    BY <2>1, <2>3, LeaveQueue
  <2>. QED
    BY <1>5, <2>2, <2>3 DEF NotAcknowledged
<1>. QED
  BY <1>1, <1>2, <1>3, <1>4, <1>5 DEF Poll, Recv, InRecv, Runs

\* The queue of a process that dies is emptied, and it is taken off the one it is on.
LEMMA DestroyQueue ==
  ASSUME IInv, QInv, NEW p \in Proc, Destroy(p)
  PROVE  QInv'
<1> DEFINE R == Remove(links, p)
<1>1. /\ \A x \in Proc \ {p} : (state'[x] = "unused" <=> state[x] = "unused") /\ at'[x] = at[x]
      /\ state'[p] = "unused" /\ at'[p] = "user"
      /\ gen' = gen /\ wait' = wait /\ peerDied \subseteq peerDied'
  BY DEF Destroy, Awake, IInv, TypeOK
<1>2. WaitPast'
  BY <1>1 DEF QInv, WaitPast, InOp
<1>3. R \in Links /\ links' = [R EXCEPT !.head[p] = None] /\ links \in Links
  BY LinkTypes DEF Destroy, IInv, TypeOK
<1>4. R.crossed = links.crossed
  BY <1>3, RemoveEffect
<1> HIDE DEF R
<1>5. /\ links'.next = R.next /\ links'.on = R.on /\ links'.crossed = R.crossed
      /\ \A u \in Proc \ {p} : links'.head[u] = R.head[u]
  BY <1>3 DEF Links
<1>6. ASSUME ~links'.crossed PROVE \E N \in [Proc -> Seq(Proc)] : Queues(N)'
  <2>1. PICK Q \in [Proc -> Seq(Proc)] : Queues(Q)
    BY <1>4, <1>5, <1>6 DEF QInv
  <2>2. PICK t \in Proc : \A u \in Proc : p \in Members(Q[u]) => u = t
    <3>1. CASE \E u \in Proc : p \in Members(Q[u])
      <4>1. \A u \in Proc : p \in Members(Q[u]) => wait[p] = Id(u)
        BY <2>1 DEF Queues, QueuedWait
      <4>2. \A u \in Proc : Id(u).pid = u
        BY DEF Id
      <4>3. PICK t \in Proc : p \in Members(Q[t])
        BY <3>1
      <4>4. \A u \in Proc : p \in Members(Q[u]) => u = t
        BY <4>1, <4>2, <4>3
      <4>. QED
        BY <4>4
    <3>2. CASE ~ \E u \in Proc : p \in Members(Q[u])
      BY <3>2
    <3>. QED
      BY <3>1, <3>2
  <2> DEFINE M == [Q EXCEPT ![t] = Unlink(Q[t], p)]
             N == [M EXCEPT ![p] = <<>>]
  <2>3. \A u \in Proc : Distinct(Q[u])
    BY <2>1 DEF Queues, EachOnce
  <2>4. Follows(R, M, LiveSet)
    BY <1>3, <2>1, <2>2, <2>3, RemoveFollows DEF Queues, R
  <2>5. <<>> \in Seq(Proc) /\ Members(<<>>) = {} /\ Distinct(<<>>) /\ Len(<<>>) = 0
    BY MembersOf DEF Members, Distinct
  <2>6. /\ Unlink(Q[t], p) \in Seq(Proc) /\ Distinct(Unlink(Q[t], p))
        /\ p \notin Members(Unlink(Q[t], p)) /\ Members(Unlink(Q[t], p)) = Members(Q[t]) \ {p}
    <3> DEFINE r == Unlink(Q[t], p)
    <3>1. /\ r \in Seq(Proc) /\ Distinct(r) /\ p \notin Members(r)
          /\ Members(r) \subseteq Members(Q[t]) /\ Members(Q[t]) \ {p} \subseteq Members(r)
      BY <2>3, UnlinkProperties
    <3> HIDE DEF r
    <3>2. Members(r) = Members(Q[t]) \ {p}
      BY <3>1
    <3>. QED
      BY <3>1, <3>2 DEF r
  <2>7. M \in [Proc -> Seq(Proc)] /\ \A u \in Proc : M[u] = IF u = t THEN Unlink(Q[t], p) ELSE Q[u]
    BY <2>6
  <2> HIDE DEF M
  <2>8. N \in [Proc -> Seq(Proc)] /\ \A u \in Proc : N[u] = IF u = p THEN <<>> ELSE M[u]
    BY <2>5, <2>7
  <2> HIDE DEF N
  <2>9. \A u \in Proc : Distinct(N[u]) /\ Members(N[u]) = IF u = p THEN {} ELSE Members(Q[u]) \ {p}
    BY <2>2, <2>3, <2>5, <2>6, <2>7, <2>8
  <2>10. \A u \in Proc : Members(Q[u]) \subseteq Proc
    BY MembersOf
  <2>11. Follows(links', N, LiveSet')
    <3>1. \A u \in Proc : u \in LiveSet' <=> u \in LiveSet /\ u # p
      BY <1>1 DEF LiveSet, Live
    <3> SUFFICES ASSUME NEW u \in Proc
                 PROVE  /\ Len(N[u]) # 0 => u \in LiveSet'
                        /\ u \in LiveSet' => links'.head[u] = IF Len(N[u]) = 0 THEN None ELSE N[u][1]
                        /\ \A i \in 1 .. Len(N[u]) :
                             /\ links'.on[N[u][i]] = u
                             /\ links'.next[N[u][i]] = IF i < Len(N[u]) THEN N[u][i + 1] ELSE None
      BY DEF Follows
    <3>2. CASE u = p
      <4>1. Len(N[u]) = 0
        BY <2>5, <2>8, <3>2
      <4>. QED
        BY <3>1, <3>2, <4>1
    <3>3. CASE u # p
      <4>1. N[u] = M[u] /\ links'.head[u] = R.head[u]
        BY <1>5, <2>8, <3>3
      <4>. QED
        BY <1>5, <2>4, <3>1, <3>3, <4>1 DEF Follows
    <3>. QED
      BY <3>2, <3>3
  <2>12. QueuedWait(N)'
    <3> SUFFICES ASSUME NEW u \in Proc, NEW x \in Members(N[u])
                 PROVE  Live(x)' /\ Live(u)' /\ at'[x] = "queue" /\ wait'[x] = Id(u)
      BY <1>1 DEF QueuedWait, Id
    <3>1. u # p /\ x # p /\ x \in Members(Q[u]) /\ x \in Proc
      BY <2>9, <2>10
    <3>2. Live(x) /\ Live(u) /\ at[x] = "queue" /\ wait[x] = Id(u)
      BY <2>1, <3>1 DEF Queues, QueuedWait
    <3>. QED
      BY <1>1, <3>1, <3>2 DEF Live
  <2>13. WaitersQueue(N)'
    <3> SUFFICES ASSUME NEW x \in Proc, at'[x] = "queue", wait[x].pid \in Proc, ~PeerGone(x)', Live(x)'
                 PROVE  x \in Members(N[wait[x].pid])
      BY <1>1 DEF WaitersQueue
    <3>1. x # p /\ at[x] = "queue" /\ Live(x)
      BY <1>1 DEF Live
    <3>2. wait[x] # NoRef
      BY NoneAssumption DEF NoRef
    <3>3. wait[x].pid # p
      BY <1>1, <3>2 DEF PeerGone, Live
    <3>4. ~PeerGone(x)
      BY <1>1, <3>2, <3>3 DEF PeerGone, Live
    <3>5. x \in Members(Q[wait[x].pid])
      BY <2>1, <3>1, <3>4 DEF Queues, WaitersQueue
    <3>. QED
      BY <2>9, <3>1, <3>3, <3>5
  <2>14. EachOnce(N)
    BY <2>9 DEF EachOnce
  <2>15. Queues(N)'
    BY <2>11, <2>12, <2>13, <2>14 DEF Queues, EachOnce
  <2>. QED
    BY <2>8, <2>15
<1>. QED
  BY <1>2, <1>6 DEF QInv

\* Whoever still waits on a slot that is claimed anew waits on an older process.
LEMMA CreateQueue ==
  ASSUME IInv, QInv, NEW p \in Proc, Create(p)
  PROVE  QInv'
<1>1. /\ \A x \in Proc \ {p} : /\ state'[x] = state[x] /\ at'[x] = at[x] /\ wait'[x] = wait[x]
                               /\ gen'[x] = gen[x]
                               /\ x \in peerDied <=> x \in peerDied'
      /\ at'[p] = "user" /\ gen'[p] = gen[p] + 1 /\ ~Live(p) /\ gen[p] \in Nat
      /\ state'[p] = "runnable"
  BY DEF Create, IInv, TypeOK
<1>2. \A x \in Proc : InOp(x)' => x # p /\ InOp(x) /\ wait[x].pid \in Proc /\ wait[x].gen <= gen[wait[x].pid]
                                  /\ wait[x].gen \in Nat
  BY <1>1 DEF InOp, IInv, OpInv, QInv, WaitPast, TypeOK, Ref
<1>3. WaitPast'
  <2> SUFFICES ASSUME NEW x \in Proc, InOp(x)'
               PROVE  wait'[x].gen <= gen'[wait'[x].pid]
    BY DEF WaitPast
  <2>1. wait'[x] = wait[x] /\ wait[x].pid \in Proc /\ wait[x].gen <= gen[wait[x].pid] /\ wait[x].gen \in Nat
    BY <1>1, <1>2
  <2>. QED
    BY <1>1, <2>1
<1> DEFINE R == Loose(links, p)
<1>4. links \in Links /\ R \in Links /\ links' = [R EXCEPT !.head[p] = None]
  BY LinkTypes DEF Create, IInv, TypeOK
<1>5. /\ R.head = links.head /\ R.next = [links.next EXCEPT ![p] = None]
      /\ R.on = [links.on EXCEPT ![p] = None] /\ R.crossed = links.crossed
  BY <1>4, LooseIs
<1> HIDE DEF R
<1>6. /\ links'.head = [links.head EXCEPT ![p] = None] /\ links'.next = R.next
      /\ links'.on = R.on /\ links'.crossed = links.crossed
  BY <1>4, <1>5 DEF Links
<1>6a. /\ \A x \in Proc \ {p} : /\ links'.head[x] = links.head[x] /\ links'.next[x] = links.next[x]
                                /\ links'.on[x] = links.on[x]
       /\ links'.head[p] = None
  BY <1>4, <1>5, <1>6 DEF Links
<1>7. ASSUME NEW Q \in [Proc -> Seq(Proc)], Queues(Q) PROVE Queues(Q)'
  <2>1. EachOnce(Q) /\ QueuedWait(Q) /\ WaitersQueue(Q) /\ Follows(links, Q, LiveSet)
    BY <1>7 DEF Queues
  <2>2. \A t \in Proc : Members(Q[t]) \subseteq Proc \ {p}
    <3>1. \A t \in Proc : Members(Q[t]) \subseteq Proc
      BY MembersOf
    <3>. QED
      BY <1>1, <2>1, <3>1 DEF QueuedWait
  <2>3. QueuedWait(Q)'
    <3> SUFFICES ASSUME NEW u \in Proc, NEW x \in Members(Q[u])
                 PROVE  Live(x)' /\ Live(u)' /\ at'[x] = "queue" /\ wait'[x] = Id(u)'
      BY DEF QueuedWait
    <3>1. x \in Proc \ {p} /\ Live(x) /\ Live(u) /\ at[x] = "queue" /\ wait[x] = Id(u)
      BY <2>1, <2>2 DEF QueuedWait
    <3>. QED
      BY <1>1, <3>1 DEF Live, Id
  <2>4. WaitersQueue(Q)'
    <3> SUFFICES ASSUME NEW x \in Proc, at'[x] = "queue", wait'[x].pid \in Proc, ~PeerGone(x)', Live(x)'
                 PROVE  x \in Members(Q[wait'[x].pid])
      BY DEF WaitersQueue
    <3>1. InOp(x)'
      BY DEF InOp
    <3>2. x # p /\ at[x] = "queue" /\ Live(x) /\ wait'[x] = wait[x]
      BY <1>1, <1>2, <3>1 DEF Live
    <3>3. wait[x] # NoRef
      BY <3>2, NoneAssumption DEF NoRef
    <3>4. wait[x].pid # p
      <4>1. gen'[wait[x].pid] = wait[x].gen
        BY <3>2, <3>3 DEF PeerGone
      <4>. QED
        BY <1>1, <1>2, <3>1, <4>1
    <3>5. ~PeerGone(x)
      BY <1>1, <3>2, <3>3, <3>4 DEF PeerGone, Live
    <3>. QED
      BY <2>1, <3>2, <3>5 DEF WaitersQueue
  <2>5. Follows(links', Q, LiveSet')
    <3>0. \A u \in Proc : u \in LiveSet' <=> u \in LiveSet \/ u = p
      BY <1>1 DEF LiveSet, Live
    <3>1. Len(Q[p]) = 0
      <4>1. p \notin LiveSet
        BY <1>1 DEF LiveSet
      <4>. QED
        BY <2>1, <4>1 DEF Follows
    <3> SUFFICES ASSUME NEW u \in Proc
                 PROVE  /\ Len(Q[u]) # 0 => u \in LiveSet'
                        /\ u \in LiveSet' => links'.head[u] = IF Len(Q[u]) = 0 THEN None ELSE Q[u][1]
                        /\ \A i \in 1 .. Len(Q[u]) :
                             /\ links'.on[Q[u][i]] = u
                             /\ links'.next[Q[u][i]] = IF i < Len(Q[u]) THEN Q[u][i + 1] ELSE None
      BY DEF Follows
    <3>2. CASE u = p
      BY <1>6a, <3>1, <3>2, MembersOf
    <3>3. CASE u # p
      <4> DEFINE c == Q[u]
      <4>1. \A i \in 1 .. Len(c) : c[i] \in Proc \ {p}
        BY <2>2, MembersOf
      <4>2. /\ Len(c) # 0 => u \in LiveSet
            /\ u \in LiveSet => links.head[u] = IF Len(c) = 0 THEN None ELSE c[1]
            /\ \A i \in 1 .. Len(c) : /\ links.on[c[i]] = u
                                      /\ links.next[c[i]] = IF i < Len(c) THEN c[i + 1] ELSE None
        BY <2>1 DEF Follows
      <4> HIDE DEF c
      <4>3. \A i \in 1 .. Len(c) : links'.on[c[i]] = links.on[c[i]] /\ links'.next[c[i]] = links.next[c[i]]
        BY <1>6a, <4>1
      <4>. QED
        BY <1>6a, <3>0, <3>3, <4>2, <4>3 DEF c
    <3>. QED
      BY <3>2, <3>3
  <2>. QED
    BY <2>1, <2>3, <2>4, <2>5 DEF Queues, EachOnce
<1>. QED
  BY <1>3, <1>6, <1>7 DEF QInv

LEMMA NextQInv == IInv /\ QInv /\ [Next]_vars => QInv'
<1> SUFFICES ASSUME IInv, QInv, [Next]_vars PROVE QInv'
  OBVIOUS
<1>1. ASSUME NEW p \in Proc, Syscall(p) PROVE QInv'
  BY <1>1, SendQueue, CallQueue, ReplyQueue, OtherQueue DEF Syscall
<1>2. ASSUME NEW p \in Proc, Resume(p) PROVE QInv'
  BY <1>2, InQueueQueue, RedeliverQueue, OtherQueue DEF Resume
<1>3. ASSUME NEW p \in Proc,
             PostNote(p) \/ DeliverNote(p) \/ Destroy(p) \/ Create(p)
      PROVE  QInv'
  BY <1>3, OtherQueue, DestroyQueue, CreateQueue
<1>4. ASSUME NEW D \in SUBSET inCall, Sweep(D) PROVE QInv'
  <2>1. /\ \A x \in Proc : state'[x] = "unused" <=> state[x] = "unused"
        /\ UNCHANGED <<links, gen, at, wait, peerDied>>
    BY <1>4 DEF Sweep
  <2>. QED
    BY <2>1, QueueKept DEF InOp
<1>5. CASE UNCHANGED vars
  BY <1>5, QueueKept DEF vars, InOp
<1>. QED
  BY <1>1, <1>2, <1>3, <1>4, <1>5 DEF Next

LEMMA InitQInv == Init => QInv
<1> SUFFICES ASSUME Init PROVE QInv
  OBVIOUS
<1> DEFINE Q == [t \in Proc |-> <<>>]
<1>1. <<>> \in Seq(Proc) /\ Members(<<>>) = {} /\ Distinct(<<>>) /\ Len(<<>>) = 0
  BY MembersOf DEF Members, Distinct
<1>2. Q \in [Proc -> Seq(Proc)] /\ \A t \in Proc : Q[t] = <<>>
  BY <1>1
<1> HIDE DEF Q
<1>3. WaitPast
  BY DEF Init, WaitPast, InOp
<1>4. EachOnce(Q) /\ QueuedWait(Q) /\ WaitersQueue(Q)
  BY <1>1, <1>2 DEF Init, EachOnce, QueuedWait, WaitersQueue
<1>5. Follows(links, Q, LiveSet)
  BY <1>1, <1>2 DEF Init, Follows, NoLinks
<1>. QED
  BY <1>2, <1>3, <1>4, <1>5 DEF QInv, Queues
-----------------------------------------------------------------------------
(***************************************************************************)
(* The rendezvous of a message and its sender, until a slot is reused.     *)
(***************************************************************************)
\* Every slot still holds its first process, or none.
NoReuse == \A p \in Proc : gen[p] = 1

\* A queued ipc_send or ipc_call has no message out that could be handed back.
HeldBack == \A p \in Proc : at[p] = "queue" /\ out[p].kind # "reply" => p \notin bounced

\* Messages are from, and processes wait on, first occupants; whoever was told of the
\* death of its peer waits on an empty slot.
PeersBorn ==
  \A p \in Proc : /\ InOp(p) => /\ wait[p].gen = 1
                                /\ p \in peerDied => ~Live(wait[p].pid)
                  /\ HasMsg(p) => inbox[p].from.gen = 1

Meets == SenderAwaitsAck /\ HeldBack /\ PeersBorn
AInv == (\A p \in Proc : gen[p] >= 1) /\ (NoReuse => Meets)

\* Without reuse, a peer is gone when its slot is empty.
LEMMA GoneIsDead ==
  ASSUME IInv, NoReuse, Meets, NEW p \in Proc, InOp(p), PeerGone(p)
  PROVE  ~Live(wait[p].pid)
<1>1. wait[p].pid \in Proc
  BY DEF IInv, OpInv
<1>. QED
  BY <1>1 DEF PeerGone, Meets, PeersBorn, NoReuse

\* A process that is not in the acknowledge loop has no message lying in an inbox.
LEMMA NothingOut ==
  ASSUME IInv, Meets, NEW p \in Proc, Live(p),
         at[p] # "ack" \/ p \in acked \/ (p \in bounced /\ out[p].kind # "reply")
  PROVE  \A u \in Proc : Live(u) => inbox[u].from # Id(p)
  BY DEF Meets, SenderAwaitsAck

\* A step that deposits nothing, creates nobody, and acknowledges and lets go only of
\* those without a message in a live process's inbox.
LEMMA MeetsKept ==
  ASSUME IInv, NoReuse, Meets, gen' = gen, bounced' \subseteq bounced,
         \A x \in Proc :
           /\ Live(x)' => Live(x)
           /\ inbox'[x] = inbox[x] \/ inbox'[x] = NoMsg
           /\ InOp(x)' => InOp(x) /\ wait'[x] = wait[x] /\ (x \in peerDied' => x \in peerDied \/ ~Live(wait[x].pid)')
           /\ at'[x] = "queue" => at[x] = "queue" /\ out'[x] = out[x]
           /\ \/ at'[x] = at[x] /\ out'[x] = out[x] /\ wait'[x] = wait[x] /\ (x \in acked' => x \in acked)
              \/ ~Live(x)'
              \/ \A u \in Proc : Live(u)' => inbox'[u].from # Id(x)
  PROVE  Meets'
<1>1. \A x \in Proc : Id(x)' = Id(x) /\ Id(x) # NoRef
  BY NoneAssumption DEF Id, NoRef
<1>2. SenderAwaitsAck'
  <2> SUFFICES ASSUME NEW u \in Proc, NEW x \in Proc, Live(u)', Live(x)', inbox'[u].from = Id(x)
               PROVE  /\ at'[x] = "ack" /\ wait'[x].pid = u
                      /\ x \notin acked' /\ (x \notin bounced' \/ out'[x].kind = "reply")
                      /\ inbox'[u] = out'[x]
    BY <1>1 DEF SenderAwaitsAck
  <2>1. inbox'[u] = inbox[u]
    BY <1>1 DEF NoMsg
  <2>2. /\ at[x] = "ack" /\ wait[x].pid = u
        /\ x \notin acked /\ (x \notin bounced \/ out[x].kind = "reply")
        /\ inbox[u] = out[x]
    BY <2>1 DEF Meets, SenderAwaitsAck
  <2>3. at'[x] = at[x] /\ out'[x] = out[x] /\ wait'[x] = wait[x] /\ (x \in acked' => x \in acked)
    OBVIOUS
  <2>. QED
    BY <2>1, <2>2, <2>3
<1>3. HeldBack'
  BY DEF Meets, HeldBack
<1>4. PeersBorn'
  <2> SUFFICES ASSUME NEW x \in Proc
               PROVE  /\ InOp(x)' => wait'[x].gen = 1 /\ (x \in peerDied' => ~(state'[wait'[x].pid] # "unused"))
                      /\ HasMsg(x)' => inbox'[x].from.gen = 1
    BY DEF PeersBorn, Live
  <2>1. HasMsg(x)' => inbox'[x].from.gen = 1
    BY DEF Meets, PeersBorn, HasMsg, NoMsg, NoRef
  <2>2. ASSUME InOp(x)'
        PROVE  wait'[x].gen = 1 /\ (x \in peerDied' => ~(state'[wait'[x].pid] # "unused"))
    <3>1. InOp(x) /\ wait'[x] = wait[x] /\ wait[x].pid \in Proc
      BY <2>2 DEF IInv, OpInv
    <3>. QED
      BY <2>2, <3>1 DEF Meets, PeersBorn, Live
  <2>. QED
    BY <2>1, <2>2
<1>. QED
  BY <1>2, <1>3, <1>4 DEF Meets

\* Where a pass of the queue loop puts the message.
LEMMA AttemptDeposit ==
  ASSUME TypeOK, NEW p \in Proc, NEW m, NEW q, NEW box, NEW gone, NEW late, NEW S,
         Attempt(p, m, q, box, gone, late, S)
  PROVE  \/ inbox' = box
         \/ /\ inbox' = [box EXCEPT ![m.to.pid] = m]
            /\ \/ gone
               \/ at'[p] = "ack" /\ p \notin acked' /\ out'[p] = m /\ wait'[p] = m.to
<1>1. CASE Deliver(p, m, q, box, S)
  BY <1>1, ParkEffect DEF Deliver
<1>2. CASE (gone \/ late) /\ DeliverAndLeave(p, m, q, box, late, S)
  BY <1>2 DEF DeliverAndLeave
<1>3. CASE GiveUp(p, m, q, box, S) \/ SleepInQueue(p, m, q, box, S)
  BY <1>3 DEF GiveUp, SleepInQueue
<1>. QED
  BY <1>1, <1>2, <1>3 DEF Attempt

\* One pass of the queue loop of p, whose message lies in no inbox; those in S are
\* handed back theirs.
LEMMA AttemptMeets ==
  ASSUME IInv, NoReuse, Meets, NEW p \in Proc, NEW m, NEW q, NEW box, NEW gone, NEW late, NEW S,
         AttemptFrom(p, m, box, gone, late, S), Attempt(p, m, q, box, gone, late, S),
         m.to.gen = 1, gone => ~Live(m.to.pid),
         p \notin bounced' \/ m.kind = "reply",
         \A u \in Proc : Live(u) => inbox[u].from # Id(p),
         \A x \in S : at[x] = "ack" /\ \A u \in Proc : Live(u) => box[u].from # Id(x)
  PROVE  Meets'
<1> DEFINE t == m.to.pid
<1>1. box \in [Proc -> Msg] /\ t \in Proc \ {p}
  BY DeliveryBox
<1>2. /\ m.from = Id(p) /\ gen' = gen /\ peerDied' \cup {p} = peerDied \cup {p}
      /\ bounced' \subseteq bounced \cup S /\ Live(p)
      /\ ~gone => p \notin peerDied'
  BY DEF AttemptFrom
<1>3. PICK W : OthersKept(p, W)
  BY AttemptEffect DEF DeliveryEffect, IInv
<1>4. /\ acked' \subseteq acked /\ state'[p] # "unused"
      /\ at'[p] # "answer"
      /\ InOp(p)' => ~gone /\ out'[p] = m /\ wait'[p] = m.to
  BY AttemptEffect DEF DeliveryEffect, IInv, InOp
<1>5. \/ inbox' = box
      \/ /\ inbox' = [box EXCEPT ![t] = m]
         /\ gone \/ (at'[p] = "ack" /\ p \notin acked' /\ out'[p] = m /\ wait'[p] = m.to)
  BY AttemptDeposit DEF IInv
<1>6. \A x \in Proc : Id(x)' = Id(x) /\ Id(x) # NoRef /\ Id(x).gen = 1 /\ Id(x).pid = x
  BY <1>2, NoneAssumption DEF Id, NoRef, NoReuse
<1>7. \A u \in Proc : box[u] = inbox[u] \/ box[u] = NoMsg
  BY DEF AttemptFrom, IInv, TypeOK
<1>8. \A x \in Proc : Live(x)' <=> Live(x)
  BY <1>2, <1>3, <1>4 DEF OthersKept, Live
<1> HIDE DEF t
<1>9. \A u \in Proc : \/ inbox'[u] = box[u]
                      \/ /\ u = t /\ inbox'[u] = m
                         /\ gone \/ (at'[p] = "ack" /\ p \notin acked' /\ out'[p] = m /\ wait'[p] = m.to)
  BY <1>1, <1>5
<1>10. SenderAwaitsAck'
  <2> SUFFICES ASSUME NEW u \in Proc, NEW x \in Proc, Live(u)', Live(x)', inbox'[u].from = Id(x)
               PROVE  /\ at'[x] = "ack" /\ wait'[x].pid = u
                      /\ x \notin acked' /\ (x \notin bounced' \/ out'[x].kind = "reply")
                      /\ inbox'[u] = out'[x]
    BY <1>6 DEF SenderAwaitsAck
  <2>1. CASE inbox'[u] = box[u]
    <3>1. inbox'[u] = inbox[u] /\ Live(u) /\ Live(x) /\ x # p
      BY <1>2, <1>6, <1>7, <1>8, <2>1 DEF NoMsg
    <3>2. /\ at[x] = "ack" /\ wait[x].pid = u
          /\ x \notin acked /\ (x \notin bounced \/ out[x].kind = "reply")
          /\ inbox[u] = out[x]
      BY <3>1 DEF Meets, SenderAwaitsAck
    <3>3. x \notin S
      BY <2>1, <3>1
    <3>. QED
      BY <1>2, <1>3, <1>4, <3>1, <3>2, <3>3 DEF OthersKept
  <2>2. CASE u = t /\ inbox'[u] = m
    <3>1. x = p
      BY <1>2, <1>6, <2>2
    <3>2. Live(t)
      BY <1>8, <2>2
    <3>3. ~gone
      BY <3>2 DEF t
    <3>4. inbox'[u] = box[u] \/ (at'[p] = "ack" /\ p \notin acked' /\ out'[p] = m /\ wait'[p] = m.to)
      BY <1>9, <3>3
    <3>5. CASE at'[p] = "ack" /\ p \notin acked' /\ out'[p] = m /\ wait'[p] = m.to
      BY <2>2, <3>1, <3>5 DEF t
    <3>. QED
      BY <2>1, <3>4, <3>5
  <2>. QED
    BY <1>9, <2>1, <2>2
<1>11. HeldBack'
  <2> SUFFICES ASSUME NEW x \in Proc, at'[x] = "queue", out'[x].kind # "reply"
               PROVE  x \notin bounced'
    BY DEF HeldBack
  <2>1. CASE x = p
    BY <1>4, <2>1 DEF InOp
  <2>2. CASE x # p
    <3>1. at[x] = "queue" /\ out'[x] = out[x]
      BY <1>3, <2>2 DEF OthersKept
    <3>2. x \notin bounced /\ x \notin S
      BY <3>1 DEF Meets, HeldBack
    <3>. QED
      BY <1>2, <3>2
  <2>. QED
    BY <2>1, <2>2
<1>12. PeersBorn'
  <2> SUFFICES ASSUME NEW x \in Proc
               PROVE  /\ InOp(x)' => wait'[x].gen = 1 /\ (x \in peerDied' => state'[wait'[x].pid] = "unused")
                      /\ HasMsg(x)' => inbox'[x].from.gen = 1
    BY DEF PeersBorn, Live
  <2>1. HasMsg(x)' => inbox'[x].from.gen = 1
    BY <1>2, <1>6, <1>7, <1>9 DEF Meets, PeersBorn, HasMsg, NoMsg, NoRef
  <2>2. ASSUME InOp(x)'
        PROVE  wait'[x].gen = 1 /\ (x \in peerDied' => state'[wait'[x].pid] = "unused")
    <3>1. CASE x = p
      BY <1>2, <1>4, <2>2, <3>1
    <3>2. CASE x # p
      <4>1. InOp(x) /\ wait'[x] = wait[x] /\ wait[x].pid \in Proc /\ (x \in peerDied' <=> x \in peerDied)
        BY <1>2, <1>3, <2>2, <3>2 DEF OthersKept, InOp, IInv, OpInv
      <4>. QED
        BY <1>8, <4>1 DEF Meets, PeersBorn, Live
    <3>. QED
      BY <3>1, <3>2
  <2>. QED
    BY <2>1, <2>2
<1>. QED
  BY <1>10, <1>11, <1>12 DEF Meets

\* A system call of a process in user mode delivers to another live process.
LEMMA SendMeets ==
  ASSUME IInv, NoReuse, Meets, NEW p \in Proc, NEW t \in Proc, Send(p, t)
  PROVE  Meets'
<1> DEFINE m == [from |-> Id(p), seq |-> 0, kind |-> "send", to |-> Id(t), ans |-> 0]
           none == {}
           box == inbox
<1>1. /\ Id(p) \in Ref /\ Id(t) \in Ref /\ Id(p).pid = p /\ Id(t).pid = t
      /\ Id(t).gen = gen[t] /\ gen[t] = 1
  BY DEF Id, Ref, Pid, IInv, TypeOK, NoReuse
<1>2. m \in Msg /\ m.from = Id(p) /\ m.to = Id(t) /\ m.kind = "send"
  BY <1>1 DEF Msg, Kinds
<1>3. t # p
  BY EnvAssumption DEF Send
<1>4. Live(p) /\ p \notin inCall /\ at[p] = "user"
  BY DEF Send, Runs, Live, IInv, OpInv, InOp
<1>5. Attempt(p, m, Enqueue(links, p, t), box, FALSE, FALSE, none) /\ p \notin bounced'
  BY DEF Send
<1>5a. \A x : x \notin none
  OBVIOUS
<1> HIDE DEF m, none
<1>6. AttemptFrom(p, m, box, FALSE, FALSE, none)
  BY <1>1, <1>2, <1>3, <1>4, <1>5a DEF AttemptFrom, Send, IInv, TypeOK
<1>7. \A u \in Proc : Live(u) => inbox[u].from # Id(p)
  BY <1>4, NothingOut
<1>8. /\ m.to.gen = 1 /\ (FALSE => ~Live(m.to.pid)) /\ (p \notin bounced' \/ m.kind = "reply")
      /\ \A x \in none : at[x] = "ack" /\ \A u \in Proc : Live(u) => box[u].from # Id(x)
  BY <1>1, <1>2, <1>5, <1>5a
<1> HIDE DEF box
<1>. QED
  BY <1>5, <1>6, <1>7, <1>8, AttemptMeets

LEMMA CallMeets ==
  ASSUME IInv, NoReuse, Meets, NEW p \in Proc, NEW t \in Proc, Call(p, t)
  PROVE  Meets'
<1> DEFINE n == callSeq[p] + 1
           m == [from |-> Id(p), seq |-> n, kind |-> "call", to |-> Id(t), ans |-> 0]
           back == {s \in Proc : HasMsg(p) /\ Live(s) /\ inbox[p].from = Id(s)}
           box == [inbox EXCEPT ![p] = NoMsg]
<1>1. /\ Id(p) \in Ref /\ Id(t) \in Ref /\ Id(p).pid = p /\ Id(t).pid = t
      /\ Id(t).gen = gen[t] /\ gen[t] = 1 /\ n \in Nat
  BY DEF Id, Ref, Pid, IInv, TypeOK, NoReuse
<1>2. m \in Msg /\ m.from = Id(p) /\ m.to = Id(t) /\ m.kind = "call"
  BY <1>1 DEF Msg, Kinds
<1>3. t # p
  BY EnvAssumption DEF Call
<1>4. Live(p) /\ p \notin inCall /\ at[p] = "user"
  BY DEF Call, Runs, Live, IInv, OpInv, InOp
<1>5. Attempt(p, m, Enqueue(links, p, t), box, FALSE, FALSE, back)
  BY DEF Call
<1>5a. bounced' = (bounced \cup back) \ {p} /\ back \subseteq Proc
  BY DEF Call
<1>5b. ASSUME NEW x \in back
       PROVE  at[x] = "ack" /\ \A u \in Proc : Live(u) => box[u].from # Id(x)
  <2>1. x \in Proc /\ Live(x) /\ inbox[p].from = Id(x) /\ Id(x) # NoRef
    BY NoneAssumption DEF Id, NoRef
  <2>2. at[x] = "ack" /\ wait[x].pid = p
    BY <1>4, <2>1 DEF Meets, SenderAwaitsAck
  <2>3. \A u \in Proc : Live(u) /\ u # p => inbox[u].from # Id(x)
    BY <2>1, <2>2 DEF Meets, SenderAwaitsAck
  <2>4. \A u \in Proc : box[u] = IF u = p THEN NoMsg ELSE inbox[u]
    BY DEF IInv, TypeOK
  <2>. QED
    BY <2>1, <2>2, <2>3, <2>4 DEF NoMsg
<1> HIDE DEF m, back
<1>6. AttemptFrom(p, m, box, FALSE, FALSE, back)
  <2>1. box[p] = NoMsg
    BY DEF IInv, TypeOK
  <2> HIDE DEF box
  <2>. QED
    BY <1>1, <1>2, <1>3, <1>4, <1>5a, <2>1 DEF AttemptFrom, Call, IInv, TypeOK, box
<1>7. \A u \in Proc : Live(u) => inbox[u].from # Id(p)
  BY <1>4, NothingOut
<1> HIDE DEF box
<1>8. /\ m.to.gen = 1 /\ (FALSE => ~Live(m.to.pid)) /\ (p \notin bounced' \/ m.kind = "reply")
      /\ \A x \in back : at[x] = "ack" /\ \A u \in Proc : Live(u) => box[u].from # Id(x)
  BY <1>1, <1>2, <1>5a, <1>5b
<1>. QED
  BY <1>5, <1>6, <1>7, <1>8, AttemptMeets

LEMMA ReplyMeets ==
  ASSUME IInv, NoReuse, Meets, NEW p \in Proc, NEW r \in pend[p], Reply(p, r)
  PROVE  Meets'
<1> DEFINE t == r.who.pid
           m == [from |-> Id(p), seq |-> 0, kind |-> "reply", to |-> Id(t), ans |-> r.seq]
           none == {}
           box == inbox
<1>1. r \in Request /\ r.seq \in Nat /\ t \in Proc \ {p}
  BY DEF IInv, TypeOK, Request, SendersOK
<1> HIDE DEF t
<1>2. /\ Id(p) \in Ref /\ Id(t) \in Ref
      /\ Id(p).pid = p /\ Id(t).pid = t /\ Id(t).gen = gen[t] /\ gen[t] = 1
  BY <1>1 DEF Id, Ref, Pid, IInv, TypeOK, NoReuse
<1>3. m \in Msg /\ m.from = Id(p) /\ m.to = Id(t) /\ m.kind = "reply"
  BY <1>1, <1>2 DEF Msg, Kinds
<1>4. Live(p) /\ p \notin inCall /\ at[p] = "user"
  BY DEF Reply, Runs, Live, IInv, OpInv, InOp
<1>5. UNCHANGED <<gen, bounced, timedOut, noted, callSeq, ops>>
  BY DEF Reply
<1>6. CASE /\ Live(t) /\ peerDied' = peerDied \ {p}
           /\ Attempt(p, m, Enqueue(links, p, t), box, FALSE, FALSE, none)
  <2>0. \A x : x \notin none
    OBVIOUS
  <2> HIDE DEF m, none
  <2>1. AttemptFrom(p, m, box, FALSE, FALSE, none)
    BY <1>1, <1>2, <1>3, <1>4, <1>5, <1>6, <2>0 DEF AttemptFrom, IInv, TypeOK
  <2>2. \A u \in Proc : Live(u) => inbox[u].from # Id(p)
    BY <1>4, NothingOut
  <2>3. /\ m.to.gen = 1 /\ (FALSE => ~Live(m.to.pid)) /\ (p \notin bounced' \/ m.kind = "reply")
        /\ \A x \in none : at[x] = "ack" /\ \A u \in Proc : Live(u) => box[u].from # Id(x)
    BY <1>2, <1>3, <2>0
  <2> HIDE DEF box
  <2>. QED
    BY <1>6, <2>1, <2>2, <2>3, AttemptMeets
<1>7. CASE UNCHANGED <<state, at, out, wait, inbox, links, acked, peerDied, inCall>>
  BY <1>5, <1>7, MeetsKept DEF InOp, Live
<1>. QED
  BY <1>6, <1>7 DEF Reply, t

\* A process that comes back to its queue loop, or is handed its message back.
LEMMA ResumeMeets ==
  ASSUME IInv, NoReuse, Meets, NEW p \in Proc, NEW q, Runs(p, "queue") \/ Runs(p, "ack"),
         at[p] = "queue" \/ (p \in bounced /\ out[p].kind # "reply"),
         p \notin bounced' \/ out[p].kind = "reply", bounced' \subseteq bounced,
         UNCHANGED <<gen, peerDied, timedOut, noted>>,
         Attempt(p, out[p], q, inbox, PeerGone(p), Late(p), {})
  PROVE  Meets'
<1>1. InOp(p) /\ Live(p) /\ out[p].to = wait[p]
  BY DEF Runs, InOp, Live, IInv, OpInv
<1>2. AttemptFrom(p, out[p], inbox, PeerGone(p), Late(p), {})
  BY ResumedFrom
<1>3. PeerGone(p) => ~Live(out[p].to.pid)
  BY <1>1, GoneIsDead
<1>4. out[p].to.gen = 1
  BY <1>1 DEF Meets, PeersBorn
<1>5. \A u \in Proc : Live(u) => inbox[u].from # Id(p)
  BY <1>1, NothingOut
<1>. QED
  BY <1>2, <1>3, <1>4, <1>5, AttemptMeets

LEMMA InQueueMeets ==
  ASSUME IInv, NoReuse, Meets, NEW p \in Proc, InQueue(p)
  PROVE  Meets'
<1>1. Runs(p, "queue") /\ at[p] = "queue" /\ (p \notin bounced \/ out[p].kind = "reply")
  BY DEF InQueue, Runs, Meets, HeldBack
<1>2. ~DeliverTwice(p)
  BY <1>1 DEF DeliverTwice
<1>3. /\ Attempt(p, out[p], links, inbox, PeerGone(p), Late(p), {})
      /\ UNCHANGED <<gen, peerDied, timedOut, noted, bounced>>
  BY <1>2 DEF InQueue
<1>. QED
  BY <1>1, <1>3, ResumeMeets

\* A process without a message in a live process's inbox leaves its system call.
LEMMA LeaveMeets ==
  ASSUME IInv, NoReuse, Meets, NEW p \in Proc, Live(p), NEW m, NEW S, Leave(p, m, S),
         bounced' \subseteq bounced, acked' \subseteq acked,
         UNCHANGED <<gen, peerDied>>,
         \A x \in Proc : inbox'[x] = inbox[x] \/ inbox'[x] = NoMsg,
         \A u \in Proc : Live(u) => inbox'[u].from # Id(p)
  PROVE  Meets'
<1>1. PICK W : OthersKept(p, W)
  BY LeaveEffect DEF IInv
<1>2. at'[p] = "user" /\ state'[p] = "runnable"
  BY LeaveEffect DEF IInv
<1>3. \A x \in Proc : Live(x)' <=> Live(x)
  BY <1>1, <1>2 DEF OthersKept, Live
<1>4. ASSUME NEW x \in Proc
      PROVE  /\ InOp(x)' => InOp(x) /\ wait'[x] = wait[x]
             /\ at'[x] = "queue" => at[x] = "queue" /\ out'[x] = out[x]
             /\ \/ at'[x] = at[x] /\ out'[x] = out[x] /\ wait'[x] = wait[x] /\ (x \in acked' => x \in acked)
                \/ \A u \in Proc : Live(u)' => inbox'[u].from # Id(x)
  <2>1. CASE x = p
    BY <1>2, <1>3, <2>1 DEF InOp
  <2>2. CASE x # p
    BY <1>1, <2>2 DEF OthersKept, InOp
  <2>. QED
    BY <2>1, <2>2
<1>. QED
  BY <1>3, <1>4, MeetsKept

\* Whom the reader of p's inbox acknowledges has no other message out.
LEMMA AckMeets ==
  ASSUME IInv, NoReuse, Meets, NEW p \in Proc, Live(p), HasMsg(p),
         NEW x \in AckTo(inbox[p]), NEW u \in Proc, u # p, Live(u)
  PROVE  x \in Proc /\ x # p /\ inbox[u].from # Id(x)
<1>1. x \in Proc /\ x = inbox[p].from.pid /\ Live(x) /\ inbox[p].from.gen = 1 /\ inbox[p].from \in Ref
  BY DEF AckTo, Meets, PeersBorn, IInv, TypeOK, Msg
<1>2. inbox[p].from = Id(x)
  BY <1>1 DEF Id, Ref, NoReuse
<1>3. wait[x].pid = p
  BY <1>1, <1>2 DEF Meets, SenderAwaitsAck
<1>4. x # p
  BY <1>1 DEF IInv, SendersOK
<1>. QED
  BY <1>1, <1>3, <1>4 DEF Meets, SenderAwaitsAck

LEMMA ConsumeMeets ==
  ASSUME IInv, NoReuse, Meets, NEW p \in Proc, Consume(p), Runs(p, "user") \/ Runs(p, "recv")
  PROVE  Meets'
<1>1. /\ inbox' = [inbox EXCEPT ![p] = NoMsg] /\ acked' = acked \cup AckTo(inbox[p])
      /\ at' = [at EXCEPT ![p] = "user"] /\ HasMsg(p) /\ Live(p) /\ at[p] \in {"user", "recv"}
      /\ UNCHANGED <<gen, out, wait, bounced, peerDied>>
  BY DEF Consume, Runs, Live
<1>2. \A x \in Proc : Live(x)' <=> Live(x)
  BY DEF Consume, Awake, Runs, Live, IInv, TypeOK
<1>3. \A x \in Proc : inbox'[x] = IF x = p THEN NoMsg ELSE inbox[x]
  BY <1>1 DEF IInv, TypeOK
<1>4. \A x \in Proc : at'[x] = IF x = p THEN "user" ELSE at[x]
  BY <1>1 DEF IInv, TypeOK
<1>5. ASSUME NEW x \in Proc
      PROVE  /\ InOp(x)' => InOp(x)
             /\ at'[x] = "queue" => at[x] = "queue"
             /\ \/ at'[x] = at[x] /\ (x \in acked' => x \in acked)
                \/ \A u \in Proc : Live(u)' => inbox'[u].from # Id(x)
  <2>0. Id(x) # NoRef
    BY NoneAssumption DEF Id, NoRef
  <2>1. CASE x = p
    <3>1. \A u \in Proc : Live(u) => inbox[u].from # Id(p)
      BY <1>1, NothingOut
    <3>. QED
      BY <1>2, <1>3, <1>4, <2>0, <2>1, <3>1 DEF InOp, NoMsg
  <2>2. CASE x # p /\ x \in AckTo(inbox[p])
    <3>1. \A u \in Proc : u # p /\ Live(u) => inbox[u].from # Id(x)
      BY <1>1, <2>2, AckMeets
    <3>. QED
      BY <1>2, <1>3, <1>4, <2>0, <2>2, <3>1 DEF InOp, NoMsg
  <2>3. CASE x # p /\ x \notin AckTo(inbox[p])
    BY <1>1, <1>4, <2>3 DEF InOp
  <2>. QED
    BY <2>1, <2>2, <2>3
<1>. QED
  BY <1>1, <1>2, <1>3, <1>5, MeetsKept

LEMMA AnswerMeets ==
  ASSUME IInv, NoReuse, Meets, NEW p \in Proc, Live(p), InOp(p), at[p] = "answer" \/ (at[p] = "ack" /\ p \in acked),
         out[p].kind = "call", Answer(p), UNCHANGED <<gen, bounced, peerDied>>
  PROVE  Meets'
<1>1. \A u \in Proc : Live(u) => inbox[u].from # Id(p)
  BY NothingOut
<1>2. CASE Leave(p, out[p], {}) /\ UNCHANGED <<inbox, acked>>
  BY <1>1, <1>2, LeaveMeets
<1>3. CASE Park(p, out[p], "answer", {}) /\ UNCHANGED <<inbox, acked>>
  <2>1. /\ at'[p] = "answer" /\ out'[p] = out[p] /\ wait'[p] = out[p].to /\ state'[p] = "blocked"
        /\ OthersKept(p, {}) /\ out[p].to = wait[p]
    BY <1>3, ParkEffect DEF IInv, OpInv
  <2>2. \A x \in Proc : Live(x)' <=> Live(x)
    BY <2>1 DEF OthersKept, Live
  <2>3. ASSUME NEW x \in Proc
        PROVE  /\ InOp(x)' => InOp(x) /\ wait'[x] = wait[x]
               /\ at'[x] = "queue" => at[x] = "queue" /\ out'[x] = out[x]
               /\ \/ at'[x] = at[x] /\ out'[x] = out[x] /\ wait'[x] = wait[x] /\ (x \in acked' => x \in acked)
                  \/ \A u \in Proc : Live(u)' => inbox'[u].from # Id(x)
    <3>1. CASE x = p
      BY <1>1, <1>3, <2>1, <2>2, <3>1
    <3>2. CASE x # p
      BY <1>3, <2>1, <3>2 DEF OthersKept, InOp
    <3>. QED
      BY <3>1, <3>2
  <2>. QED
    BY <1>3, <2>2, <2>3, MeetsKept
<1>4. CASE TakeReply(p)
  <2>1. /\ HasMsg(p) /\ inbox' = [inbox EXCEPT ![p] = NoMsg] /\ acked' = acked \cup AckTo(inbox[p])
        /\ Leave(p, out[p], AckTo(inbox[p]))
    BY <1>4 DEF TakeReply
  <2>2. PICK W : OthersKept(p, W)
    BY <2>1, LeaveEffect DEF IInv
  <2>3. at'[p] = "user" /\ state'[p] = "runnable"
    BY <2>1, LeaveEffect DEF IInv
  <2>4. \A x \in Proc : Live(x)' <=> Live(x)
    BY <2>2, <2>3 DEF OthersKept, Live
  <2>5. \A x \in Proc : inbox'[x] = IF x = p THEN NoMsg ELSE inbox[x]
    BY <2>1 DEF IInv, TypeOK
  <2>6. ASSUME NEW x \in Proc
        PROVE  /\ InOp(x)' => InOp(x) /\ wait'[x] = wait[x]
               /\ at'[x] = "queue" => at[x] = "queue" /\ out'[x] = out[x]
               /\ \/ at'[x] = at[x] /\ out'[x] = out[x] /\ wait'[x] = wait[x] /\ (x \in acked' => x \in acked)
                  \/ \A u \in Proc : Live(u)' => inbox'[u].from # Id(x)
    <3>0. Id(x) # NoRef
      BY NoneAssumption DEF Id, NoRef
    <3>1. CASE x = p
      BY <1>1, <2>3, <2>4, <2>5, <3>0, <3>1 DEF InOp, NoMsg
    <3>2. CASE x # p /\ x \in AckTo(inbox[p])
      <4>1. \A u \in Proc : u # p /\ Live(u) => inbox[u].from # Id(x)
        BY <2>1, <3>2, AckMeets
      <4>. QED
        BY <2>2, <2>4, <2>5, <3>0, <3>2, <4>1 DEF OthersKept, InOp, NoMsg
    <3>3. CASE x # p /\ x \notin AckTo(inbox[p])
      BY <2>1, <2>2, <3>3 DEF OthersKept, InOp
    <3>. QED
      BY <3>1, <3>2, <3>3
  <2>. QED
    BY <2>4, <2>5, <2>6, MeetsKept
<1>. QED
  BY <1>2, <1>3, <1>4 DEF Answer

\* The acknowledge loop: acknowledged, handed back, or given up.
LEMMA AckLoopMeets ==
  ASSUME IInv, NoReuse, Meets, NEW p \in Proc,
         Acknowledged(p) \/ Redeliver(p) \/ NotAcknowledged(p)
  PROVE  Meets'
<1> DEFINE t == wait[p].pid
<1>1. at[p] = "ack" /\ Runs(p, "ack") /\ Live(p) /\ InOp(p) /\ t \in Proc
  BY DEF Acknowledged, Redeliver, NotAcknowledged, Runs, Live, InOp, IInv, OpInv
<1>2. CASE Acknowledged(p)
  <2>1. p \in acked /\ UNCHANGED <<gen, bounced, peerDied>>
    BY <1>2 DEF Acknowledged
  <2>2. \A u \in Proc : Live(u) => inbox[u].from # Id(p)
    BY <1>1, <2>1, NothingOut
  <2>3. CASE out[p].kind = "call" /\ Answer(p)
    BY <1>1, <2>1, <2>3, AnswerMeets
  <2>4. CASE Leave(p, out[p], {}) /\ UNCHANGED <<inbox, acked>>
    BY <1>1, <2>1, <2>2, <2>4, LeaveMeets
  <2>. QED
    BY <1>2, <2>3, <2>4 DEF Acknowledged
<1>3. CASE Redeliver(p)
  <2>1. /\ p \in bounced /\ out[p].kind # "reply" /\ p \notin bounced' /\ bounced' \subseteq bounced
        /\ UNCHANGED <<gen, peerDied, timedOut, noted>>
    BY <1>3 DEF Redeliver
  <2>2. Attempt(p, out[p], Enqueue(links, p, t), inbox, PeerGone(p), Late(p), {})
    BY <1>3 DEF Redeliver
  <2>. QED
    BY <1>1, <2>1, <2>2, ResumeMeets
<1>4. CASE NotAcknowledged(p)
  <2>1. CASE Doze(p)
    <3>1. /\ \A x \in Proc : Live(x)' <=> Live(x)
          /\ UNCHANGED <<gen, at, out, wait, inbox, acked, bounced, peerDied>>
      BY <1>1, <2>1 DEF Doze, Live, IInv, TypeOK
    <3>. QED
      BY <3>1, MeetsKept DEF InOp
  <2>2. CASE /\ PeerGone(p) \/ Late(p)
             /\ inbox' = IF Yank(p) THEN [inbox EXCEPT ![t] = NoMsg] ELSE inbox
             /\ Leave(p, out[p], IF Yank(p) THEN Queued(links, t) ELSE {})
             /\ UNCHANGED <<gen, acked, bounced, peerDied>>
    <3> DEFINE S == IF Yank(p) THEN Queued(links, t) ELSE {}
    <3>1. \A x \in Proc : inbox'[x] = IF Yank(p) /\ x = t THEN NoMsg ELSE inbox[x]
      BY <1>1, <2>2 DEF IInv, TypeOK
    <3>2. Id(p) # NoRef
      BY NoneAssumption DEF Id, NoRef
    <3>3. ASSUME NEW u \in Proc, Live(u)
          PROVE  inbox'[u].from # Id(p)
      <4>1. CASE inbox[u].from = Id(p)
        <5>1. u = t
          BY <1>1, <3>3, <4>1 DEF Meets, SenderAwaitsAck
        <5>2. ~PeerGone(p)
          BY <1>1, <3>3, <5>1, GoneIsDead
        <5>3. Yank(p)
          BY <2>2, <4>1, <5>1, <5>2 DEF Yank
        <5>. QED
          BY <3>1, <3>2, <5>1, <5>3 DEF NoMsg
      <4>2. CASE inbox[u].from # Id(p)
        BY <3>1, <3>2, <4>2 DEF NoMsg
      <4>. QED
        BY <4>1, <4>2
    <3>4. Leave(p, out[p], S)
      BY <2>2
    <3> HIDE DEF S, t
    <3>. QED
      BY <1>1, <2>2, <3>1, <3>3, <3>4, LeaveMeets
  <2>. QED
    BY <1>4, <2>1, <2>2 DEF NotAcknowledged
<1>. QED
  BY <1>2, <1>3, <1>4

\* The steps that move no message.
LEMMA OtherMeets ==
  ASSUME IInv, NoReuse, Meets, NEW p \in Proc,
         Recv(p) \/ InRecv(p) \/ InAnswer(p) \/ PostNote(p) \/ DeliverNote(p) \/ Destroy(p)
  PROVE  Meets'
<1>1. CASE Recv(p) \/ (InRecv(p) /\ ~Consume(p))
  <2>1. /\ \A x \in Proc : (Live(x)' <=> Live(x)) /\ (x # p => at'[x] = at[x])
        /\ at[p] \in {"user", "recv"} /\ at'[p] \in {"user", "recv"} /\ Live(p)
        /\ UNCHANGED <<gen, out, wait, inbox, acked, bounced, peerDied>>
    BY <1>1 DEF Recv, InRecv, Doze, Runs, Live, IInv, TypeOK
  <2>2. \A u \in Proc : Live(u) => inbox[u].from # Id(p)
    BY <2>1, NothingOut
  <2>3. ASSUME NEW x \in Proc
        PROVE  /\ InOp(x)' => InOp(x)
               /\ at'[x] = "queue" => at[x] = "queue"
               /\ at'[x] = at[x] \/ \A u \in Proc : Live(u)' => inbox'[u].from # Id(x)
    <3>1. CASE x = p
      BY <2>1, <2>2, <3>1 DEF InOp
    <3>2. CASE x # p
      BY <2>1, <3>2 DEF InOp
    <3>. QED
      BY <3>1, <3>2
  <2>. QED
    BY <2>1, <2>3, MeetsKept
<1>2. CASE InRecv(p) /\ Consume(p)
  BY <1>2, ConsumeMeets DEF InRecv
<1>3. CASE InAnswer(p)
  <2>1. Live(p) /\ InOp(p) /\ at[p] = "answer" /\ out[p].kind = "call"
    BY <1>3 DEF InAnswer, Runs, Live, InOp, IInv, OpInv
  <2>. QED
    BY <1>3, <2>1, AnswerMeets DEF InAnswer
<1>4. CASE PostNote(p) \/ DeliverNote(p)
  <2>1. /\ \A x \in Proc : Live(x)' <=> Live(x)
        /\ UNCHANGED <<gen, at, out, wait, inbox, acked, bounced, peerDied>>
    BY <1>4 DEF PostNote, DeliverNote, Awake, Live, IInv, TypeOK
  <2>. QED
    BY <2>1, MeetsKept DEF InOp
<1>5. CASE Destroy(p)
  <2>1. /\ \A x \in Proc \ {p} : (Live(x)' <=> Live(x)) /\ at'[x] = at[x] /\ out'[x] = out[x]
        /\ ~Live(p)' /\ at'[p] = "user"
        /\ UNCHANGED <<gen, wait, inbox, acked, bounced>> /\ peerDied' = peerDied \cup Waiters(p)
    BY <1>5 DEF Destroy, Awake, Live, IInv, TypeOK
  <2>2. \A x \in Waiters(p) : wait[x].pid = p
    BY DEF Waiters, Id
  <2>3. \A x \in Proc : /\ Live(x)' => Live(x)
                        /\ InOp(x)' => InOp(x) /\ x # p
                        /\ at'[x] = "queue" => at[x] = "queue" /\ out'[x] = out[x]
                        /\ (at'[x] = at[x] /\ out'[x] = out[x]) \/ ~Live(x)'
    BY <1>5, <2>1 DEF InOp, Destroy
  <2>4. \A x \in peerDied' : x \in peerDied \/ ~Live(wait[x].pid)'
    BY <2>1, <2>2 DEF Live
  <2>. QED
    BY <2>1, <2>3, <2>4, MeetsKept
<1>. QED
  BY <1>1, <1>2, <1>3, <1>4, <1>5

LEMMA NextAInv == IInv /\ AInv /\ [Next]_vars => AInv'
<1> SUFFICES ASSUME IInv, AInv, [Next]_vars PROVE AInv'
  OBVIOUS
<1>1. gen' = gen \/ \E p \in Proc : Create(p)
  <2>1. ASSUME NEW p \in Proc, Syscall(p) PROVE gen' = gen
    BY <2>1 DEF Syscall, Send, Call, Reply, Poll, Recv, Consume
  <2>2. ASSUME NEW p \in Proc, Resume(p) PROVE gen' = gen
    BY <2>2 DEF Resume, InRecv, Consume, Doze, InQueue, InAnswer, Acknowledged, Redeliver, NotAcknowledged
  <2>3. ASSUME NEW p \in Proc, PostNote(p) \/ DeliverNote(p) \/ Destroy(p) PROVE gen' = gen
    BY <2>3 DEF PostNote, DeliverNote, Destroy
  <2>4. ASSUME NEW D \in SUBSET inCall, Sweep(D) PROVE gen' = gen
    BY <2>4 DEF Sweep
  <2>5. CASE UNCHANGED vars
    BY <2>5 DEF vars
  <2>. QED
    BY <2>1, <2>2, <2>3, <2>4, <2>5 DEF Next
<1>2. \A p \in Proc : gen'[p] >= 1
  <2>1. CASE gen' = gen
    BY <2>1 DEF AInv
  <2>2. ASSUME NEW p \in Proc, Create(p), NEW x \in Proc
        PROVE  gen'[x] >= 1
    <3>1. gen'[x] = gen[x] + 1 \/ gen'[x] = gen[x]
      BY <2>2 DEF Create, IInv, TypeOK
    <3>2. gen[x] \in Nat /\ gen[x] >= 1
      BY DEF AInv, IInv, TypeOK
    <3>. QED
      BY <3>1, <3>2
  <2>. QED
    BY <1>1, <2>1, <2>2
<1>3. ASSUME NoReuse'
      PROVE  Meets'
  <2>1. ASSUME NEW p \in Proc, Create(p) PROVE FALSE
    <3>1. gen'[p] = gen[p] + 1 /\ gen[p] \in Nat /\ gen[p] >= 1 /\ gen'[p] = 1
      BY <1>3, <2>1 DEF Create, AInv, NoReuse, IInv, TypeOK
    <3>. QED
      BY <3>1
  <2>2. NoReuse /\ Meets
    BY <1>1, <1>3, <2>1 DEF AInv, NoReuse
  <2>3. ASSUME NEW p \in Proc, Syscall(p) PROVE Meets'
    BY <2>2, <2>3, SendMeets, CallMeets, ReplyMeets, ConsumeMeets, OtherMeets DEF Syscall, Poll
  <2>4. ASSUME NEW p \in Proc, Resume(p) PROVE Meets'
    BY <2>2, <2>4, InQueueMeets, AckLoopMeets, OtherMeets DEF Resume
  <2>5. ASSUME NEW D \in SUBSET inCall, Sweep(D) PROVE Meets'
    <3>1. /\ \A x \in Proc : Live(x)' <=> Live(x)
          /\ UNCHANGED <<gen, at, out, wait, inbox, acked, bounced, peerDied>>
      BY <2>5 DEF Sweep, Live
    <3>. QED
      BY <2>2, <3>1, MeetsKept DEF InOp
  <2>6. CASE UNCHANGED vars
    BY <2>2, <2>6, MeetsKept DEF vars, InOp, Live
  <2>. QED
    BY <2>1, <2>2, <2>3, <2>4, <2>5, <2>6, OtherMeets DEF Next
<1>. QED
  BY <1>2, <1>3 DEF AInv

LEMMA InitAInv == Init => AInv
  BY NoneAssumption DEF Init, AInv, Meets, SenderAwaitsAck, HeldBack, PeersBorn, InOp, HasMsg, NoMsg, NoRef, Id

-----------------------------------------------------------------------------
(* Replies and calls: programs that have one request in hand.                *)

Callers == {x[1] : x \in Calls}
Callees == {x[2] : x \in Calls}
Senders == {x[1] : x \in Sends}
\* Servers answer each request before they receive the next, to whoever sent
\* it, and neither call nor send themselves; clients call only.
OneInHand ==
  /\ MaxPend <= 1
  /\ Callees \cap Callers = {} /\ Callees \cap Senders = {} /\ Callers \cap Senders = {}
  /\ Callees \cap Wildcard = {}

\* What messages and requests there are; none is younger than its sender or
\* later than the sender's last call.
Came(who, seq) ==
  /\ who.gen <= gen[who.pid]
  /\ who = Id(who.pid) => seq <= callSeq[who.pid]
MsgFits(m) ==
  /\ m.kind = "call" => m.from.pid \in Callers /\ m.to.pid \in Callees /\ m.seq # 0
  /\ m.kind = "send" => m.from.pid \in Senders /\ m.seq = 0
  /\ m.kind = "reply" => m.seq = 0 /\ (m.to.pid \in Callers => m.from.pid \in Callees)
  /\ Came(m.from, m.seq)
ReqFits(p, r) ==
  /\ IF r.seq = 0 THEN r.who.pid \in Senders ELSE r.who.pid \in Callers /\ p \in Callees
  /\ Came(r.who, r.seq)

\* The request of c's present call lies in s's inbox, or s has received it.
Asks(c, s) == inbox[s].from = Id(c) /\ inbox[s].kind = "call" /\ inbox[s].seq = callSeq[c]
Holds(c, s) == [who |-> Id(c), seq |-> callSeq[c]] \in pend[s]
\* It is in one place at most, and a reply comes in its stead.
Once(c) ==
  /\ \A s \in Proc : Asks(c, s) \/ Holds(c, s) => at[c] # "queue" /\ ~HasMsg(c) /\ wait[c].pid = s
  /\ \A s \in Proc : ~(Asks(c, s) /\ Holds(c, s))
  /\ HasMsg(c) => at[c] # "queue" /\ inbox[c].kind = "reply" /\ inbox[c].ans = callSeq[c]

Fitting ==
  \A p \in Proc :
    /\ HasMsg(p) => MsgFits(inbox[p]) /\ inbox[p].to.pid = p
    /\ InOp(p) => MsgFits(out[p]) /\ (out[p].kind = "call" => out[p].seq = callSeq[p])
    /\ \A r \in pend[p] : ReqFits(p, r)
InHand ==
  \A p \in Callees : (pend[p] = {} \/ pend[p] = {owed[p]}) /\ (at[p] = "recv" => pend[p] = {})
\* Messages of callers are never handed back, and replies to callers never queue.
NotBack == bounced \cap Callers = {}
Prompt == \A p \in Proc : at[p] = "queue" /\ out[p].kind = "reply" => out[p].to.pid \notin Callers
Asked == \A c \in Proc : c \in inCall /\ Live(c) => Once(c)
PairInv == Fitting /\ InHand /\ NotBack /\ Prompt /\ Asked

\* What a process sent stays fitting when numbers of calls and incarnations grow.
Onward == \A x \in Proc : (gen'[x] = gen[x] /\ callSeq'[x] >= callSeq[x]) \/ gen'[x] > gen[x]

LEMMA CameOnward ==
  ASSUME TypeOK, TypeOK', Onward, NEW who \in Ref, who.pid \in Proc, NEW seq \in Nat, Came(who, seq)
  PROVE  Came(who, seq)'
<1> DEFINE x == who.pid
<1>1. gen[x] \in Nat /\ gen'[x] \in Nat /\ callSeq[x] \in Nat /\ callSeq'[x] \in Nat /\ who.gen \in Nat
  BY DEF TypeOK, Ref
<1>2. who.gen <= gen[x] /\ (who = Id(x) => seq <= callSeq[x])
  BY DEF Came
<1>3. (gen'[x] = gen[x] /\ callSeq'[x] >= callSeq[x]) \/ gen'[x] > gen[x]
  BY DEF Onward
<1>4. who.gen <= gen'[x]
  BY <1>1, <1>2, <1>3
<1>5. ASSUME who = [pid |-> x, gen |-> gen'[x]]
      PROVE  seq <= callSeq'[x]
  <2>1. who.gen = gen'[x]
    BY <1>5
  <2>2. gen'[x] = gen[x]
    BY <1>1, <1>2, <1>3, <2>1
  <2>3. seq <= callSeq[x] /\ callSeq'[x] >= callSeq[x]
    BY <1>1, <1>2, <1>3, <1>5, <2>2 DEF Id
  <2>. QED
    BY <1>1, <2>3
<1>. QED
  BY <1>4, <1>5 DEF Came, Id

LEMMA FitsOnward ==
  ASSUME IInv, TypeOK', Onward
  PROVE  /\ \A p \in Proc : HasMsg(p) /\ MsgFits(inbox[p]) => MsgFits(inbox[p])' \/ inbox'[p] # inbox[p]
         /\ \A p \in Proc : InOp(p) /\ MsgFits(out[p]) => MsgFits(out[p])' \/ out'[p] # out[p]
         /\ \A p \in Proc : \A r \in pend[p] : ReqFits(p, r) => ReqFits(p, r)'
<1>1. TypeOK
  BY DEF IInv
<1>2. ASSUME NEW m \in Msg, m.from.pid \in Proc, Came(m.from, m.seq) PROVE Came(m.from, m.seq)'
  BY <1>1, <1>2, CameOnward DEF Msg
<1>3. \A p \in Proc : inbox[p] \in Msg /\ out[p] \in Msg
  BY <1>1 DEF TypeOK
<1>4. \A p \in Proc : HasMsg(p) => inbox[p].from.pid \in Proc
  BY DEF IInv, SendersOK
<1>5. ASSUME NEW p \in Proc, InOp(p) PROVE out[p].from.pid \in Proc
  <2>1. out[p].from = Id(p)
    BY <1>5 DEF IInv, OpInv
  <2>. QED
    BY <2>1 DEF Id
<1>6. \A p \in Proc : \A r \in pend[p] : Came(r.who, r.seq) => Came(r.who, r.seq)'
  <2> SUFFICES ASSUME NEW p \in Proc, NEW r \in pend[p], Came(r.who, r.seq) PROVE Came(r.who, r.seq)'
    OBVIOUS
  <2>1. r.who \in Ref /\ r.seq \in Nat /\ r.who.pid \in Proc
    BY <1>1 DEF TypeOK, Request, IInv, SendersOK
  <2>. QED
    BY <1>1, <2>1, CameOnward
<1>7. \A p \in Proc : HasMsg(p) /\ MsgFits(inbox[p]) => MsgFits(inbox[p])' \/ inbox'[p] # inbox[p]
  <2> SUFFICES ASSUME NEW p \in Proc, HasMsg(p), MsgFits(inbox[p]), inbox'[p] = inbox[p] PROVE MsgFits(inbox[p])'
    OBVIOUS
  <2> DEFINE m == inbox[p]
  <2>1. Came(m.from, m.seq)'
    BY <1>2, <1>3, <1>4 DEF MsgFits
  <2>. QED
    BY <2>1 DEF MsgFits
<1>8. \A p \in Proc : InOp(p) /\ MsgFits(out[p]) => MsgFits(out[p])' \/ out'[p] # out[p]
  <2> SUFFICES ASSUME NEW p \in Proc, InOp(p), MsgFits(out[p]), out'[p] = out[p] PROVE MsgFits(out[p])'
    OBVIOUS
  <2> DEFINE m == out[p]
  <2>1. Came(m.from, m.seq)'
    BY <1>2, <1>3, <1>5 DEF MsgFits
  <2>. QED
    BY <2>1 DEF MsgFits
<1>9. \A p \in Proc : \A r \in pend[p] : ReqFits(p, r) => ReqFits(p, r)'
  BY <1>6 DEF ReqFits
<1>. QED
  BY <1>7, <1>8, <1>9

\* Who is in a call calls a server; a server's messages are replies.
LEMMA CallerIs ==
  ASSUME IInv, OneInHand, PairInv
  PROVE  /\ \A c \in Proc : c \in inCall /\ Live(c) =>
              /\ InOp(c) /\ out[c].kind = "call" /\ out[c].seq = callSeq[c] /\ callSeq[c] # 0
              /\ c \in Callers /\ wait[c].pid \in Callees
         /\ \A p \in Proc : InOp(p) /\ p \in Callees => out[p].kind = "reply"
         /\ \A p \in Proc : InOp(p) /\ p \in bounced /\ out[p].kind # "reply" => out[p].kind = "send"
<1>1. ASSUME NEW p \in Proc, InOp(p)
      PROVE  /\ MsgFits(out[p]) /\ (out[p].kind = "call" => out[p].seq = callSeq[p]) /\ out[p].to = wait[p]
             /\ out[p].from.pid = p /\ out[p].kind \in Kinds
  <2>1. out[p].from = Id(p) /\ out[p].to = wait[p] /\ out[p] \in Msg
    BY <1>1 DEF IInv, OpInv, TypeOK
  <2>. QED
    BY <1>1, <2>1 DEF PairInv, Fitting, Id, Msg
<1>2. ASSUME NEW c \in Proc, c \in inCall, Live(c)
      PROVE  InOp(c) /\ out[c].kind = "call"
  BY <1>2 DEF IInv, OpInv
<1>3. ASSUME NEW c \in Proc, c \in inCall, Live(c)
      PROVE  out[c].seq = callSeq[c] /\ callSeq[c] # 0 /\ c \in Callers /\ wait[c].pid \in Callees
  BY <1>1, <1>2, <1>3 DEF MsgFits
<1>4. ASSUME NEW p \in Proc, InOp(p), p \in Callees
      PROVE  out[p].kind = "reply"
  BY <1>1, <1>4 DEF MsgFits, OneInHand, Kinds
<1>5. ASSUME NEW p \in Proc, InOp(p), p \in bounced, out[p].kind # "reply"
      PROVE  out[p].kind = "send"
  BY <1>1, <1>5 DEF MsgFits, Kinds, PairInv, NotBack
<1>. QED
  BY <1>2, <1>3, <1>4, <1>5

\* Steps that deliver nothing and start nothing.
Quiet(x) ==
  /\ inbox'[x] = inbox[x] \/ inbox'[x].from.pid = None
  /\ InOp(x)' => InOp(x) /\ out'[x] = out[x] /\ wait'[x] = wait[x] /\ callSeq'[x] = callSeq[x] /\ gen'[x] = gen[x]
  /\ at'[x] = "queue" => at[x] = "queue"
  /\ at'[x] = "recv" /\ x \in Callees => at[x] = "recv" \/ pend[x] = {}
  /\ pend'[x] \subseteq pend[x] /\ (x \in Callees => owed'[x] = owed[x] \/ pend'[x] = {})
LEMMA PairQuiet ==
  ASSUME IInv, IInv', OneInHand, PairInv, Onward, bounced' \cap Callers = {}, \A x \in Proc : Quiet(x)
  PROVE  PairInv'
<1>1. Fitting'
  <2> SUFFICES ASSUME NEW p \in Proc
               PROVE  /\ HasMsg(p)' => MsgFits(inbox[p])' /\ inbox'[p].to.pid = p
                      /\ InOp(p)' => MsgFits(out[p])' /\ (out'[p].kind = "call" => out'[p].seq = callSeq'[p])
                      /\ \A r \in pend'[p] : ReqFits(p, r)'
    BY DEF Fitting
  <2>1. TypeOK'
    BY DEF IInv
  <2>2. ASSUME HasMsg(p)' PROVE MsgFits(inbox[p])' /\ inbox'[p].to.pid = p
    <3>1. inbox'[p] = inbox[p] /\ HasMsg(p)
      BY <2>2 DEF HasMsg, Quiet
    <3>. QED
      BY <2>1, <3>1, FitsOnward DEF PairInv, Fitting
  <2>3. ASSUME InOp(p)' PROVE MsgFits(out[p])' /\ (out'[p].kind = "call" => out'[p].seq = callSeq'[p])
    <3>1. InOp(p) /\ out'[p] = out[p] /\ callSeq'[p] = callSeq[p]
      BY <2>3 DEF Quiet
    <3>. QED
      BY <2>1, <3>1, FitsOnward DEF PairInv, Fitting
  <2>4. \A r \in pend'[p] : ReqFits(p, r)'
    <3>1. pend'[p] \subseteq pend[p]
      BY DEF Quiet
    <3>. QED
      BY <2>1, <3>1, FitsOnward DEF PairInv, Fitting
  <2>. QED
    BY <2>2, <2>3, <2>4
<1>2. InHand'
  <2> SUFFICES ASSUME NEW p \in Callees
               PROVE  (pend'[p] = {} \/ pend'[p] = {owed'[p]}) /\ (at'[p] = "recv" => pend'[p] = {})
    BY DEF InHand
  <2>1. p \in Proc
    BY EnvAssumption DEF Callees
  <2>2. (pend[p] = {} \/ pend[p] = {owed[p]}) /\ (at[p] = "recv" => pend[p] = {})
    BY DEF PairInv, InHand
  <2>. QED
    BY <2>1, <2>2 DEF Quiet
<1>3. Prompt'
  <2> SUFFICES ASSUME NEW p \in Proc, at'[p] = "queue", out'[p].kind = "reply" PROVE out'[p].to.pid \notin Callers
    BY DEF Prompt
  <2>1. at[p] = "queue" /\ out'[p] = out[p]
    BY DEF Quiet, InOp
  <2>. QED
    BY <2>1 DEF PairInv, Prompt
<1>4. Asked'
  <2> SUFFICES ASSUME NEW c \in Proc, c \in inCall', Live(c)' PROVE Once(c)'
    BY DEF Asked
  <2>1. InOp(c)' /\ out'[c].kind = "call"
    BY DEF IInv, OpInv
  <2>2. /\ InOp(c) /\ out'[c] = out[c] /\ wait'[c] = wait[c] /\ callSeq'[c] = callSeq[c] /\ Id(c)' = Id(c)
        /\ at'[c] = "queue" => at[c] = "queue"
    BY <2>1 DEF Quiet, Id
  <2>3. Live(c) /\ c \in inCall
    BY <2>1, <2>2 DEF IInv, OpInv
  <2>4. Once(c)
    BY <2>3 DEF PairInv, Asked
  <2>5. HasMsg(c)' => HasMsg(c) /\ inbox'[c] = inbox[c]
    BY DEF Quiet, HasMsg
  <2>6. ASSUME NEW s \in Proc PROVE (Asks(c, s)' => Asks(c, s)) /\ (Holds(c, s)' => Holds(c, s))
    <3>1. Id(c).pid = c /\ c # None
      BY NoneAssumption DEF Id
    <3>. QED
      BY <2>2, <3>1 DEF Asks, Holds, Quiet
  <2>. QED
    BY <2>2, <2>4, <2>5, <2>6 DEF Once
<1>. QED
  BY <1>1, <1>2, <1>3, <1>4 DEF PairInv, NotBack

LEMMA BoxParts ==
  ASSUME IInv, NEW p \in Proc, NEW m, NEW box, NEW gone, NEW late, NEW S, AttemptFrom(p, m, box, gone, late, S)
  PROVE  \A x \in Proc : box[x] = inbox[x] \/ box[x] = NoMsg
<1>1. inbox \in [Proc -> Msg] /\ (box = inbox \/ box = [inbox EXCEPT ![p] = NoMsg])
  BY DEF AttemptFrom, IInv, TypeOK
<1>. QED
  BY <1>1

\* One pass of the queue loop: the message fits, a request is new, and what goes
\* to a caller is the reply that it waits for.
LEMMA PairDelivered ==
  ASSUME IInv, IInv', OneInHand, PairInv, NEW p \in Proc, NEW m, NEW q, NEW box, NEW gone, NEW late, NEW S,
         AttemptFrom(p, m, box, gone, late, S), DeliveryEffect(p, m, q, box, gone, late, S),
         Onward, \A x \in Proc \ {p} : callSeq'[x] = callSeq[x], bounced' \cap Callers = {},
         \A x \in Proc : /\ pend'[x] \subseteq pend[x]
                         /\ x \in Callees => owed'[x] = owed[x] \/ pend'[x] = {},
         MsgFits(m)', m.kind = "call" => m.seq = callSeq'[p],
         m.kind = "call" =>
           /\ box[p].from.pid = None
           /\ \A s \in Proc : /\ ~(inbox[s].from = Id(p) /\ inbox[s].kind = "call" /\ inbox[s].seq = m.seq)
                              /\ [who |-> Id(p), seq |-> m.seq] \notin pend[s]
           /\ InOp(p)' => inbox' = box \/ at'[p] = "ack",
         m.to.pid \in inCall /\ Live(m.to.pid) /\ wait[m.to.pid] = Id(p) =>
           /\ m.kind = "reply" /\ m.ans = callSeq[m.to.pid] /\ at[m.to.pid] # "queue"
           /\ \A s \in Proc : ~Asks(m.to.pid, s) /\ ~Holds(m.to.pid, s)',
         m.kind = "reply" /\ m.to.pid \in Callers => at'[p] # "queue"
  PROVE  PairInv'
<1> DEFINE t == m.to.pid
<1>1. PICK W : /\ OthersKept(p, W)
               /\ inbox' = box \/ (CanDeposit(p, t, q) /\ inbox' = [box EXCEPT ![t] = m])
  BY DEF DeliveryEffect
<1>2. /\ box \in [Proc -> Msg] /\ t \in Proc \ {p}
      /\ m.from = Id(p) /\ gen' = gen /\ Live(p)
      /\ TypeOK'
  BY DeliveryBox DEF AttemptFrom, IInv
<1>3. /\ at'[p] \in {"ack", "queue", "user"}
      /\ InOp(p)' => out'[p] = m /\ wait'[p] = m.to /\ ~gone
  BY DEF DeliveryEffect, InOp
<1>4. \A x \in Proc : \/ inbox'[x] = inbox[x]
                      \/ inbox'[x].from.pid = None
                      \/ x = t /\ inbox'[x] = m /\ CanDeposit(p, t, q)
  <2>1. \A x \in Proc : box[x] = inbox[x] \/ box[x] = NoMsg
    BY BoxParts
  <2>2. NoMsg.from.pid = None
    BY DEF NoMsg, NoRef
  <2>3. \A x \in Proc : inbox'[x] = box[x] \/ (x = t /\ inbox'[x] = m /\ CanDeposit(p, t, q))
    BY <1>1, <1>2
  <2>. QED
    BY <2>1, <2>2, <2>3
<1>5. \A x \in Proc \ {p} : /\ at'[x] = at[x] /\ out'[x] = out[x] /\ wait'[x] = wait[x]
                            /\ x \in inCall' <=> x \in inCall
                            /\ Live(x)' <=> Live(x)
  BY <1>1 DEF OthersKept, Live
<1>6. \A x \in Proc : Id(x)' = Id(x) /\ Id(x).pid = x /\ x # None
  BY <1>2, NoneAssumption DEF Id
<1> HIDE DEF t
<1>7. Fitting'
  <2> SUFFICES ASSUME NEW x \in Proc
               PROVE  /\ HasMsg(x)' => MsgFits(inbox[x])' /\ inbox'[x].to.pid = x
                      /\ InOp(x)' => MsgFits(out[x])' /\ (out'[x].kind = "call" => out'[x].seq = callSeq'[x])
                      /\ \A r \in pend'[x] : ReqFits(x, r)'
    BY DEF Fitting
  <2>1. ASSUME HasMsg(x)' PROVE MsgFits(inbox[x])' /\ inbox'[x].to.pid = x
    <3>1. CASE inbox'[x] = inbox[x]
      BY <1>2, <2>1, <3>1, FitsOnward DEF HasMsg, PairInv, Fitting
    <3>2. CASE x = t /\ inbox'[x] = m
      BY <3>2 DEF t, MsgFits, Came, Id
    <3>. QED
      BY <1>4, <2>1, <3>1, <3>2 DEF HasMsg
  <2>2. ASSUME InOp(x)' PROVE MsgFits(out[x])' /\ (out'[x].kind = "call" => out'[x].seq = callSeq'[x])
    <3>1. CASE x = p
      BY <1>3, <2>2, <3>1 DEF MsgFits, Came, Id
    <3>2. CASE x # p
      <4>1. InOp(x) /\ out'[x] = out[x] /\ callSeq'[x] = callSeq[x]
        BY <1>5, <2>2, <3>2 DEF InOp
      <4>. QED
        BY <1>2, <4>1, FitsOnward DEF PairInv, Fitting
    <3>. QED
      BY <3>1, <3>2
  <2>3. \A r \in pend'[x] : ReqFits(x, r)'
    BY <1>2, FitsOnward DEF PairInv, Fitting
  <2>. QED
    BY <2>1, <2>2, <2>3
<1>8. InHand'
  <2> SUFFICES ASSUME NEW x \in Callees
               PROVE  (pend'[x] = {} \/ pend'[x] = {owed'[x]}) /\ (at'[x] = "recv" => pend'[x] = {})
    BY DEF InHand
  <2>1. x \in Proc
    BY EnvAssumption DEF Callees
  <2>2. (pend[x] = {} \/ pend[x] = {owed[x]}) /\ (at[x] = "recv" => pend[x] = {})
    BY DEF PairInv, InHand
  <2>3. at'[x] = "recv" => at[x] = "recv"
    BY <1>3, <1>5, <2>1
  <2>. QED
    BY <2>1, <2>2, <2>3
<1>9. Prompt'
  <2> SUFFICES ASSUME NEW x \in Proc, at'[x] = "queue", out'[x].kind = "reply" PROVE out'[x].to.pid \notin Callers
    BY DEF Prompt
  <2>1. CASE x = p
    BY <1>3, <2>1 DEF InOp
  <2>2. CASE x # p
    BY <1>5, <2>2 DEF PairInv, Prompt
  <2>. QED
    BY <2>1, <2>2
<1>10. Asked'
  <2> SUFFICES ASSUME NEW c \in Proc, c \in inCall', Live(c)' PROVE Once(c)'
    BY DEF Asked
  <2>1. CASE c = p
    <3>1. InOp(p)' /\ out'[p].kind = "call"
      BY <2>1 DEF IInv, OpInv
    <3>2. m.kind = "call" /\ m.seq = callSeq'[p] /\ wait'[p].pid = t
      BY <1>3, <3>1 DEF t
    <3>3. ~HasMsg(p)'
      BY <1>1, <1>2, <3>2 DEF HasMsg, t
    <3>4. ASSUME NEW s \in Proc PROVE ~Holds(p, s)'
      BY <1>6, <3>2 DEF Holds
    <3>5. ASSUME NEW s \in Proc, Asks(p, s)' PROVE s = t /\ at'[p] = "ack"
      <4>1. inbox'[s].from = Id(p) /\ inbox'[s].kind = "call" /\ inbox'[s].seq = m.seq
        BY <1>6, <3>2, <3>5 DEF Asks
      <4>2. inbox'[s] # inbox[s] /\ inbox'[s].from.pid # None
        BY <1>6, <3>2, <4>1
      <4>3. s = t /\ inbox'[s] = m
        BY <1>4, <4>2
      <4>4. box[s] = inbox[s] \/ box[s] = NoMsg
        BY BoxParts
      <4>5. inbox' # box
        BY <4>2, <4>4 DEF NoMsg, NoRef
      <4>. QED
        BY <3>1, <3>2, <4>3, <4>5
    <3>. QED
      BY <2>1, <3>2, <3>3, <3>4, <3>5 DEF Once
  <2>2. CASE c # p
    <3>1. c \in inCall /\ Live(c) /\ at'[c] = at[c] /\ wait'[c] = wait[c] /\ callSeq'[c] = callSeq[c]
      BY <1>5, <2>2
    <3>2. Once(c)
      BY <3>1 DEF PairInv, Asked
    <3>3. ASSUME NEW s \in Proc PROVE (Asks(c, s)' => Asks(c, s)) /\ (Holds(c, s)' => Holds(c, s))
      <4>1. Holds(c, s)' => Holds(c, s)
        BY <1>6, <3>1 DEF Holds
      <4>2. Asks(c, s)' => inbox'[s].from = Id(c) /\ inbox'[s].from.pid # None
        BY <1>6 DEF Asks
      <4>3. Asks(c, s)' => inbox'[s] = inbox[s]
        BY <1>2, <1>4, <1>6, <2>2, <4>2
      <4>. QED
        BY <1>6, <3>1, <4>1, <4>3 DEF Asks
    <3>4. CASE inbox'[c] = inbox[c] \/ inbox'[c].from.pid = None
      <4>1. HasMsg(c)' => HasMsg(c) /\ inbox'[c] = inbox[c]
        BY <3>4 DEF HasMsg
      <4>. QED
        BY <3>1, <3>2, <3>3, <4>1 DEF Once
    <3>5. CASE c = t /\ inbox'[c] = m /\ CanDeposit(p, t, q)
      <4>1. wait[c] = Id(p)
        BY <3>1, <3>5 DEF CanDeposit
      <4>2. /\ m.kind = "reply" /\ m.ans = callSeq[c] /\ at[c] # "queue"
            /\ \A s \in Proc : ~Asks(c, s) /\ ~Holds(c, s)'
        BY <3>1, <3>5, <4>1 DEF t
      <4>. QED
        BY <3>1, <3>3, <3>5, <4>2 DEF Once
    <3>. QED
      BY <1>4, <3>4, <3>5
  <2>. QED
    BY <2>1, <2>2
<1>. QED
  BY <1>7, <1>8, <1>9, <1>10 DEF PairInv, NotBack

\* Steps that neither deliver nor start a system call.
LEMMA OnwardSame ==
  ASSUME TypeOK, gen' = gen, callSeq' = callSeq
  PROVE  Onward
BY DEF TypeOK, Onward

LEMMA QuietSame ==
  ASSUME UNCHANGED <<gen, at, out, wait, inbox, callSeq>>,
         \A x \in Proc : /\ pend'[x] \subseteq pend[x]
                         /\ x \in Callees => owed'[x] = owed[x] \/ pend'[x] = {}
  PROVE  \A x \in Proc : Quiet(x)
BY DEF Quiet, InOp

LEMMA QuietLeave ==
  ASSUME IInv, NEW p \in Proc, NEW m, NEW S, Leave(p, m, S), UNCHANGED <<gen, callSeq, owed, pend>>,
         \A x \in Proc : inbox'[x] = inbox[x] \/ inbox'[x] = NoMsg
  PROVE  \A x \in Proc : Quiet(x)
<1>1. TypeOK /\ NoMsg.from.pid = None
  BY DEF IInv, NoMsg, NoRef
<1>2. PICK W : at'[p] = "user" /\ OthersKept(p, W)
  BY <1>1, LeaveEffect
<1> SUFFICES ASSUME NEW x \in Proc PROVE Quiet(x)
  OBVIOUS
<1>3. CASE x = p
  BY <1>1, <1>2, <1>3 DEF Quiet, InOp
<1>4. CASE x # p
  BY <1>1, <1>2, <1>4 DEF Quiet, InOp, OthersKept
<1>. QED
  BY <1>3, <1>4

LEMMA QuietAnswer ==
  ASSUME IInv, NEW p \in Proc, InOp(p), Answer(p), UNCHANGED <<gen, callSeq, owed, pend>>
  PROVE  \A x \in Proc : Quiet(x)
<1>1. TypeOK /\ out[p].to = wait[p]
  BY DEF IInv, OpInv
<1>2. CASE TakeReply(p)
  <2>1. \A x \in Proc : inbox'[x] = inbox[x] \/ inbox'[x] = NoMsg
    BY <1>1, <1>2 DEF TakeReply, TypeOK
  <2>. QED
    BY <1>2, <2>1, QuietLeave DEF TakeReply
<1>3. CASE Leave(p, out[p], {}) /\ UNCHANGED inbox
  BY <1>3, QuietLeave
<1>4. CASE Park(p, out[p], "answer", {}) /\ UNCHANGED inbox
  <2>1. PICK W : OthersKept(p, W) /\ at'[p] = "answer" /\ out'[p] = out[p] /\ wait'[p] = wait[p]
    BY <1>1, <1>4, ParkEffect
  <2> SUFFICES ASSUME NEW x \in Proc PROVE Quiet(x)
    OBVIOUS
  <2>2. CASE x = p
    BY <1>4, <2>1, <2>2 DEF Quiet
  <2>3. CASE x # p
    BY <1>4, <2>1, <2>3 DEF Quiet, InOp, OthersKept
  <2>. QED
    BY <2>2, <2>3
<1>. QED
  BY <1>2, <1>3, <1>4 DEF Answer

\* Who may receive holds nothing.
LEMMA FreeHands ==
  ASSUME IInv, OneInHand, PairInv, NEW p \in Callees, Cardinality(pend[p]) < MaxPend \/ at[p] = "recv"
  PROVE  pend[p] = {}
<1>1. (pend[p] = {} \/ pend[p] = {owed[p]}) /\ (at[p] = "recv" => pend[p] = {})
  BY DEF PairInv, InHand
<1>2. Cardinality({owed[p]}) = 1
  BY FS_Singleton
<1>3. MaxPend \in Nat /\ MaxPend <= 1
  BY BoundAssumption DEF OneInHand
<1>. QED
  BY <1>1, <1>2, <1>3

LEMMA RestPair ==
  ASSUME IInv, IInv', OneInHand, PairInv, NEW p \in Proc,
         \/ InAnswer(p) \/ Acknowledged(p) \/ NotAcknowledged(p) \/ Recv(p) \/ PostNote(p) \/ DeliverNote(p)
         \/ Destroy(p) \/ Create(p) \/ (InRecv(p) /\ ~Consume(p))
  PROVE  PairInv'
<1>1. TypeOK /\ inbox \in [Proc -> Msg]
  BY DEF IInv, TypeOK
<1>2. bounced \cap Callers = {}
  BY DEF PairInv, NotBack
<1>3. CASE InAnswer(p) \/ (Acknowledged(p) /\ Answer(p))
  <2>1. InOp(p) /\ Answer(p) /\ UNCHANGED <<gen, callSeq, owed, pend, bounced>>
    BY <1>3 DEF InAnswer, Acknowledged, Runs, InOp
  <2>. QED
    BY <1>1, <1>2, <2>1, QuietAnswer, OnwardSame, PairQuiet
<1>4. CASE \/ Acknowledged(p) /\ ~Answer(p)
           \/ NotAcknowledged(p) /\ ~Doze(p)
  <2>1. /\ UNCHANGED <<gen, callSeq, owed, pend>> /\ bounced' \subseteq bounced
        /\ \E S : Leave(p, out[p], S)
    BY <1>4 DEF Acknowledged, NotAcknowledged
  <2>2. \A x \in Proc : inbox'[x] = inbox[x] \/ inbox'[x] = NoMsg
    BY <1>1, <1>4 DEF Acknowledged, NotAcknowledged
  <2>. QED
    BY <1>1, <1>2, <2>1, <2>2, QuietLeave, OnwardSame, PairQuiet
<1>5. CASE Doze(p) \/ PostNote(p) \/ DeliverNote(p)
  <2>1. UNCHANGED <<gen, at, out, wait, inbox, callSeq, owed, pend, bounced>>
    BY <1>5 DEF Doze, PostNote, DeliverNote
  <2>. QED
    BY <1>1, <1>2, <2>1, QuietSame, OnwardSame, PairQuiet
<1>6. CASE Recv(p) \/ (InRecv(p) /\ ~Consume(p) /\ ~Doze(p))
  <2>1. /\ UNCHANGED <<gen, out, wait, inbox, callSeq, owed, pend, bounced>>
        /\ at' = [at EXCEPT ![p] = "recv"] \/ at' = [at EXCEPT ![p] = "user"]
        /\ at' = [at EXCEPT ![p] = "user"] \/ Cardinality(pend[p]) < MaxPend
    BY <1>6 DEF Recv, InRecv
  <2>2. at'[p] = "recv" /\ p \in Callees => pend[p] = {}
    BY <1>1, <2>1, FreeHands DEF TypeOK
  <2>3. at'[p] \in {"recv", "user"} /\ \A x \in Proc : x # p => at'[x] = at[x]
    BY <1>1, <2>1 DEF TypeOK
  <2>4. \A x \in Proc : Quiet(x)
    BY <2>1, <2>2, <2>3 DEF Quiet, InOp
  <2>. QED
    BY <1>1, <1>2, <2>1, <2>4, OnwardSame, PairQuiet
<1>7. CASE Destroy(p)
  <2>1. UNCHANGED <<gen, wait, inbox, callSeq, owed, bounced>>
    BY <1>7 DEF Destroy
  <2>2. /\ at'[p] = "user" /\ pend'[p] = {}
        /\ \A x \in Proc : x # p => at'[x] = at[x] /\ out'[x] = out[x] /\ pend'[x] = pend[x]
    BY <1>1, <1>7 DEF Destroy, TypeOK
  <2>3. \A x \in Proc : Quiet(x)
    BY <2>1, <2>2 DEF Quiet, InOp
  <2>. QED
    BY <1>1, <1>2, <2>1, <2>3, OnwardSame, PairQuiet
<1>8. CASE Create(p)
  <2>1. bounced' \subseteq bounced
    BY <1>8 DEF Create
  <2>2. /\ at'[p] = "user" /\ pend'[p] = {} /\ inbox'[p] = NoMsg
        /\ gen[p] \in Nat /\ gen'[p] = gen[p] + 1
    BY <1>1, <1>8 DEF Create, TypeOK
  <2>3. \A x \in Proc : x # p =>
          /\ at'[x] = at[x] /\ out'[x] = out[x] /\ pend'[x] = pend[x] /\ inbox'[x] = inbox[x]
          /\ wait'[x] = wait[x] /\ gen'[x] = gen[x] /\ callSeq'[x] = callSeq[x] /\ owed'[x] = owed[x]
    BY <1>1, <1>8 DEF Create, TypeOK
  <2>4. \A x \in Proc : Quiet(x)
    BY <2>2, <2>3 DEF Quiet, InOp, NoMsg, NoRef
  <2>5. Onward
    <3>1. gen'[p] > gen[p]
      BY <2>2
    <3>2. \A x \in Proc : x # p => gen'[x] = gen[x] /\ callSeq'[x] >= callSeq[x]
      BY <1>1, <2>3 DEF TypeOK
    <3>. QED
      BY <3>1, <3>2 DEF Onward
  <2>. QED
    BY <1>2, <2>1, <2>4, <2>5, PairQuiet
<1>. QED
  BY <1>3, <1>4, <1>5, <1>6, <1>7, <1>8

\* A message that is read becomes the one request in hand.
LEMMA ConsumePair ==
  ASSUME IInv, IInv', OneInHand, PairInv, NEW p \in Proc, Poll(p) \/ (InRecv(p) /\ Consume(p))
  PROVE  PairInv'
<1> DEFINE m == inbox[p]
           r == [who |-> m.from, seq |-> m.seq]
<1>1. TypeOK /\ TypeOK'
  BY DEF IInv
<1>2. Consume(p) /\ Live(p) /\ (p \in Callees => pend[p] = {})
  BY FreeHands DEF Poll, InRecv, Runs, Live
<1>3. /\ UNCHANGED <<gen, out, wait, bounced, inCall, callSeq>>
      /\ HasMsg(p) /\ MsgFits(m) /\ m.to.pid = p /\ Onward
  <2>1. UNCHANGED <<gen, out, wait, bounced, inCall, callSeq>> /\ HasMsg(p)
    BY <1>2 DEF Consume
  <2>. QED
    BY <1>1, <2>1, OnwardSame DEF PairInv, Fitting
<1>4. /\ inbox'[p] = NoMsg /\ \A x \in Proc : x # p => inbox'[x] = inbox[x]
      /\ owed'[p] = r /\ \A x \in Proc : x # p => owed'[x] = owed[x]
      /\ at'[p] = "user" /\ \A x \in Proc : x # p => at'[x] = at[x]
  BY <1>1, <1>2 DEF Consume, TypeOK
<1>5. /\ pend'[p] = pend[p] \/ (pend'[p] = pend[p] \cup {r} /\ m.kind # "reply")
      /\ \A x \in Proc : x # p => pend'[x] = pend[x]
  BY <1>1, <1>2 DEF Consume, TypeOK
<1>6. \A x \in Proc : Live(x)' <=> Live(x)
  BY <1>2 DEF Consume, Awake, Live
<1>7. m.kind \in Kinds /\ ~HasMsg(p)'
  BY <1>1, <1>4 DEF TypeOK, Msg, HasMsg, NoMsg, NoRef
<1>8. m.kind # "reply" => ReqFits(p, r)
  BY <1>3, <1>7 DEF MsgFits, ReqFits, Kinds
<1>9. \A x \in Proc : Id(x)' = Id(x) /\ Id(x).pid = x /\ x # None
  BY <1>3, NoneAssumption DEF Id
<1> HIDE DEF m, r
<1>10. Fitting'
  <2> SUFFICES ASSUME NEW x \in Proc
               PROVE  /\ HasMsg(x)' => MsgFits(inbox[x])' /\ inbox'[x].to.pid = x
                      /\ InOp(x)' => MsgFits(out[x])' /\ (out'[x].kind = "call" => out'[x].seq = callSeq'[x])
                      /\ \A y \in pend'[x] : ReqFits(x, y)'
    BY DEF Fitting
  <2>1. HasMsg(x)' => MsgFits(inbox[x])' /\ inbox'[x].to.pid = x
    <3>1. HasMsg(x)' => HasMsg(x) /\ inbox'[x] = inbox[x]
      BY <1>4, <1>7 DEF HasMsg
    <3>. QED
      BY <1>1, <1>3, <3>1, FitsOnward DEF PairInv, Fitting
  <2>2. InOp(x)' => MsgFits(out[x])' /\ (out'[x].kind = "call" => out'[x].seq = callSeq'[x])
    <3>1. InOp(x)' => InOp(x)
      BY <1>4 DEF InOp
    <3>. QED
      BY <1>1, <1>3, <3>1, FitsOnward DEF PairInv, Fitting
  <2>3. \A y \in pend'[x] : ReqFits(x, y)
    BY <1>5, <1>8 DEF PairInv, Fitting
  <2>4. \A y \in pend'[x] : ReqFits(x, y)'
    BY <1>3, <2>3 DEF ReqFits, Came, Id
  <2>. QED
    BY <2>1, <2>2, <2>4
<1>11. InHand'
  <2> SUFFICES ASSUME NEW x \in Callees
               PROVE  (pend'[x] = {} \/ pend'[x] = {owed'[x]}) /\ (at'[x] = "recv" => pend'[x] = {})
    BY DEF InHand
  <2>1. x \in Proc
    BY EnvAssumption DEF Callees
  <2>2. (pend[x] = {} \/ pend[x] = {owed[x]}) /\ (at[x] = "recv" => pend[x] = {})
    BY DEF PairInv, InHand
  <2>3. CASE x = p
    BY <1>2, <1>4, <1>5, <2>3
  <2>4. CASE x # p
    BY <1>4, <1>5, <2>1, <2>2, <2>4
  <2>. QED
    BY <2>3, <2>4
<1>12. Prompt' /\ NotBack'
  <2>1. \A x \in Proc : at'[x] = "queue" => at[x] = "queue"
    BY <1>4
  <2>. QED
    BY <1>3, <2>1 DEF PairInv, Prompt, NotBack
<1>13. Asked'
  <2> SUFFICES ASSUME NEW c \in Proc, c \in inCall', Live(c)' PROVE Once(c)'
    BY DEF Asked
  <2>1. c \in inCall /\ Live(c) /\ Once(c)
    BY <1>3, <1>6 DEF PairInv, Asked
  <2>2. c # p /\ at'[c] = at[c] /\ inbox'[c] = inbox[c]
    <3>1. InOp(c)'
      BY DEF IInv, OpInv
    <3>. QED
      BY <1>4, <3>1 DEF InOp
  <2>3. ASSUME NEW s \in Proc PROVE Asks(c, s)' => Asks(c, s) /\ s # p
    <3>1. Asks(c, s)' => s # p
      BY <1>4, <1>9 DEF Asks, NoMsg, NoRef
    <3>. QED
      BY <1>3, <1>4, <1>9, <3>1 DEF Asks
  <2>4. ASSUME NEW s \in Proc PROVE Holds(c, s)' => Holds(c, s) \/ (s = p /\ Asks(c, p))
    <3>1. CASE s # p
      BY <1>3, <1>5, <1>9, <3>1 DEF Holds
    <3>2. CASE s = p
      <4>1. SUFFICES ASSUME Holds(c, p)', ~Holds(c, p) PROVE Asks(c, p)
        BY <3>2
      <4>2. r = [who |-> Id(c), seq |-> callSeq[c]] /\ m.kind # "reply"
        BY <1>3, <1>5, <1>9, <4>1 DEF Holds
      <4>3. m.from = Id(c) /\ m.seq = callSeq[c]
        BY <4>2 DEF r
      <4>4. c \in Callers
        BY <2>1, CallerIs
      <4>5. m.kind # "send"
        BY <1>3, <1>9, <4>3, <4>4 DEF MsgFits, OneInHand
      <4>. QED
        BY <1>7, <4>2, <4>3, <4>5 DEF Asks, Kinds, m
    <3>. QED
      BY <3>1, <3>2
  <2>5. /\ callSeq'[c] = callSeq[c] /\ wait'[c] = wait[c]
        /\ HasMsg(c)' <=> HasMsg(c)
    BY <1>3, <2>2 DEF HasMsg
  <2>6. \A s \in Proc : Asks(c, s)' \/ Holds(c, s)' =>
          at'[c] # "queue" /\ ~HasMsg(c)' /\ wait'[c].pid = s
    BY <2>1, <2>2, <2>3, <2>4, <2>5 DEF Once
  <2>7. \A s \in Proc : ~(Asks(c, s)' /\ Holds(c, s)')
    BY <2>1, <2>3, <2>4 DEF Once
  <2>8. HasMsg(c)' => at'[c] # "queue" /\ inbox'[c].kind = "reply" /\ inbox'[c].ans = callSeq'[c]
    BY <2>1, <2>2, <2>5 DEF Once
  <2>. QED
    BY <2>6, <2>7, <2>8 DEF Once
<1>. QED
  BY <1>10, <1>11, <1>12, <1>13 DEF PairInv

\* A send delivers nothing to a process in a call.
LEMMA SendPair ==
  ASSUME IInv, IInv', OneInHand, PairInv, NEW p \in Proc, NEW t \in Proc, Send(p, t)
  PROVE  PairInv'
<1> DEFINE mm == [from |-> Id(p), seq |-> 0, kind |-> "send", to |-> Id(t), ans |-> 0]
<1>0. PICK m : m = mm
  OBVIOUS
<1>1. Id(p) \in Ref /\ Id(t) \in Ref /\ Id(p).pid = p /\ Id(t).pid = t /\ Id(t).gen = gen[t] /\ Id(p).gen = gen[p]
  BY DEF Id, Ref, Pid, IInv, TypeOK
<1>2. m \in Msg /\ m.from = Id(p) /\ m.to = Id(t) /\ m.kind = "send" /\ m.seq = 0
  BY <1>0, <1>1 DEF Msg, Kinds
<1>3. t # p /\ p \in Senders
  BY EnvAssumption DEF Send, Senders
<1>4. Live(p) /\ p \notin inCall
  BY DEF Send, Runs, Live, IInv, OpInv, InOp
<1>5. /\ Attempt(p, m, Enqueue(links, p, t), inbox, FALSE, FALSE, {})
      /\ UNCHANGED <<gen, callSeq, owed, pend, timedOut, noted>>
      /\ bounced' = bounced \ {p} /\ peerDied' = peerDied \ {p}
  BY <1>0 DEF Send
<1> HIDE DEF mm
<1>6. AttemptFrom(p, m, inbox, FALSE, FALSE, {})
  BY <1>1, <1>2, <1>3, <1>4, <1>5 DEF AttemptFrom, Send, IInv, TypeOK
<1>7. DeliveryEffect(p, m, Enqueue(links, p, t), inbox, FALSE, FALSE, {})
  BY <1>5, AttemptEffect DEF IInv
<1>8. Onward /\ bounced' \cap Callers = {}
  BY <1>5, OnwardSame DEF IInv, PairInv, NotBack
<1>9. MsgFits(m)'
  <2>1. gen[p] \in Nat /\ callSeq[p] \in Nat
    BY DEF IInv, TypeOK
  <2>. QED
    BY <1>1, <1>2, <1>3, <1>5, <2>1 DEF MsgFits, Came
<1>10. ~(m.to.pid \in inCall /\ Live(m.to.pid) /\ wait[m.to.pid] = Id(p))
  BY <1>1, <1>2, <1>3, CallerIs DEF OneInHand
<1>. QED
  BY <1>2, <1>5, <1>6, <1>7, <1>8, <1>9, <1>10, PairDelivered

\* A call is new: neither its request nor an answer to it is anywhere yet.
LEMMA CallPair ==
  ASSUME IInv, IInv', OneInHand, PairInv, NEW p \in Proc, NEW t \in Proc, Call(p, t)
  PROVE  PairInv'
<1> DEFINE n == callSeq[p] + 1
           mm == [from |-> Id(p), seq |-> n, kind |-> "call", to |-> Id(t), ans |-> 0]
           backs == {s \in Proc : HasMsg(p) /\ Live(s) /\ inbox[p].from = Id(s)}
           boxes == [inbox EXCEPT ![p] = NoMsg]
<1>0. PICK m, back, box : m = mm /\ back = backs /\ box = boxes
  OBVIOUS
<1>1. /\ Id(p) \in Ref /\ Id(t) \in Ref /\ Id(p).pid = p /\ Id(t).pid = t /\ Id(t).gen = gen[t] /\ Id(p).gen = gen[p]
      /\ n \in Nat /\ callSeq[p] \in Nat /\ gen[p] \in Nat /\ p # None
  BY NoneAssumption DEF Id, Ref, Pid, IInv, TypeOK
<1>2. m \in Msg /\ m.from = Id(p) /\ m.to = Id(t) /\ m.kind = "call" /\ m.seq = n
  BY <1>0, <1>1 DEF Msg, Kinds
<1>3. t # p /\ p \in Callers /\ t \in Callees
  BY EnvAssumption DEF Call, Callers, Callees
<1>4. Live(p) /\ p \notin inCall
  BY DEF Call, Runs, Live, IInv, OpInv, InOp
<1>5. /\ Attempt(p, m, Enqueue(links, p, t), box, FALSE, FALSE, back)
      /\ UNCHANGED <<gen, owed, pend, noted>>
      /\ bounced' = (bounced \cup back) \ {p} /\ peerDied' = peerDied \ {p} /\ timedOut' = timedOut \ {p}
  BY <1>0 DEF Call
<1>6. callSeq'[p] = n /\ \A x \in Proc \ {p} : callSeq'[x] = callSeq[x]
  BY DEF Call, IInv, TypeOK
<1>7. box[p] = NoMsg /\ box[p].from.pid = None
  BY <1>0 DEF IInv, TypeOK, NoMsg, NoRef
<1>8. ASSUME NEW s \in back PROVE s \notin Callers
  <2>1. s \in Proc /\ HasMsg(p) /\ inbox[p].from.pid = s
    BY <1>0 DEF Id
  <2>2. MsgFits(inbox[p]) /\ inbox[p].to.pid = p /\ inbox[p].kind \in Kinds
    BY <2>1 DEF PairInv, Fitting, IInv, TypeOK, Msg
  <2>. QED
    BY <1>3, <2>1, <2>2 DEF MsgFits, OneInHand, Kinds
<1>9. bounced' \cap Callers = {}
  BY <1>5, <1>8 DEF PairInv, NotBack
<1>10. AttemptFrom(p, m, box, FALSE, FALSE, back)
  <2>1. box = [inbox EXCEPT ![p] = NoMsg]
    BY <1>0
  <2> HIDE DEF mm, backs, boxes
  <2>. QED
    BY <1>1, <1>2, <1>3, <1>4, <1>5, <1>7, <2>1 DEF AttemptFrom, Call, IInv, TypeOK
<1> HIDE DEF n, mm, backs, boxes
<1>11. DeliveryEffect(p, m, Enqueue(links, p, t), box, FALSE, FALSE, back)
  BY <1>5, AttemptEffect DEF IInv
<1>12. n > callSeq[p] /\ n # 0
  BY <1>1 DEF n
<1>13. Onward
  <2>1. \A x \in Proc : gen'[x] = gen[x] /\ callSeq[x] \in Nat
    BY <1>5 DEF IInv, TypeOK
  <2>2. callSeq'[p] >= callSeq[p] /\ \A x \in Proc : x # p => callSeq'[x] >= callSeq[x]
    BY <1>1, <1>6, <1>12, <2>1
  <2>. QED
    BY <2>1, <2>2 DEF Onward
<1>14. MsgFits(m)'
  <2>1. gen'[p] = gen[p] /\ Id(p)' = Id(p)
    BY <1>5 DEF Id
  <2>. QED
    BY <1>1, <1>2, <1>3, <1>6, <1>12, <2>1 DEF MsgFits, Came
<1>15. ASSUME NEW s \in Proc
       PROVE  /\ ~(inbox[s].from = Id(p) /\ inbox[s].kind = "call" /\ inbox[s].seq = m.seq)
              /\ [who |-> Id(p), seq |-> m.seq] \notin pend[s]
  <2>1. ASSUME inbox[s].from = Id(p) PROVE inbox[s].seq # n
    <3>1. HasMsg(s)
      BY <1>1, <2>1 DEF HasMsg
    <3>2. Came(inbox[s].from, inbox[s].seq) /\ inbox[s].seq \in Nat
      BY <3>1 DEF PairInv, Fitting, MsgFits, IInv, TypeOK, Msg
    <3>3. inbox[s].seq <= callSeq[p]
      BY <1>1, <2>1, <3>2 DEF Came
    <3>. QED
      BY <1>1, <1>12, <3>2, <3>3
  <2>2. ASSUME [who |-> Id(p), seq |-> n] \in pend[s] PROVE FALSE
    <3>1. ReqFits(s, [who |-> Id(p), seq |-> n])
      BY <2>2 DEF PairInv, Fitting
    <3>2. n <= callSeq[p]
      BY <1>1, <3>1 DEF ReqFits, Came
    <3>. QED
      BY <1>1, <1>12, <3>2
  <2>. QED
    BY <1>2, <2>1, <2>2
<1>16. InOp(p)' => inbox' = box \/ at'[p] = "ack"
  BY <1>5, AttemptDeposit DEF IInv
<1>17. ~(m.to.pid \in inCall /\ Live(m.to.pid) /\ wait[m.to.pid] = Id(p))
  BY <1>1, <1>2, <1>3, CallerIs DEF OneInHand
<1>18. \A x \in Proc : pend'[x] \subseteq pend[x] /\ owed'[x] = owed[x]
  BY <1>5
<1>19. m.kind # "reply" /\ m.seq = callSeq'[p]
  BY <1>2, <1>6
<1>. QED
  BY ZenonT(40), <1>2, <1>6, <1>7, <1>9, <1>10, <1>11, <1>13, <1>14, <1>15, <1>16, <1>17, <1>18, <1>19, PairDelivered

\* The reply to the request in hand: if it still waits, the caller's reservation
\* lets it pass, and its request is nowhere else.
LEMMA ReplyPair ==
  ASSUME IInv, IInv', OneInHand, PairInv, NEW p \in Proc, NEW r \in pend[p], Reply(p, r)
  PROVE  PairInv'
<1> DEFINE t == r.who.pid
           mm == [from |-> Id(p), seq |-> 0, kind |-> "reply", to |-> Id(t), ans |-> r.seq]
           pairs == owed[p].seq # 0 /\ owed[p].who = Id(t)
<1>0. PICK m : m = mm
  OBVIOUS
<1>1. r \in Request /\ r.seq \in Nat /\ r.who \in Ref /\ r.who.gen \in Nat /\ t \in Proc \ {p}
  <2>1. r \in Request /\ t \in Proc \ {p}
    BY DEF IInv, TypeOK, SendersOK
  <2>2. r.seq \in Nat /\ r.who \in Ref
    BY <2>1 DEF Request
  <2>. QED
    BY <2>1, <2>2 DEF Ref
<1>2. /\ Id(p) \in Ref /\ Id(t) \in Ref
      /\ Id(p).pid = p /\ Id(t).pid = t /\ Id(t).gen = gen[t] /\ Id(p).gen = gen[p]
      /\ Id(t) = [pid |-> t, gen |-> gen[t]] /\ r.who = [pid |-> t, gen |-> r.who.gen]
  BY <1>1 DEF Id, Ref, Pid, IInv, TypeOK
<1>3. m \in Msg /\ m.from = Id(p) /\ m.to = Id(t) /\ m.kind = "reply" /\ m.ans = r.seq /\ m.seq = 0
  BY <1>0, <1>1, <1>2 DEF Msg, Kinds
<1>4. Live(p) /\ p \notin inCall
  BY DEF Reply, Runs, Live, IInv, OpInv, InOp
<1>5. /\ UNCHANGED <<gen, bounced, timedOut, noted, callSeq, ops>>
      /\ pend'[p] = pend[p] \ {r} /\ \A x \in Proc : pend'[x] \subseteq pend[x]
      /\ Onward /\ bounced' \cap Callers = {}
  <2>1. UNCHANGED <<gen, bounced, timedOut, noted, callSeq, ops>>
    BY DEF Reply
  <2>2. pend'[p] = pend[p] \ {r} /\ \A x \in Proc : pend'[x] \subseteq pend[x]
    BY DEF Reply, IInv, TypeOK
  <2>. QED
    BY <2>1, <2>2, OnwardSame DEF IInv, PairInv, NotBack
<1>6. ReqFits(p, r)
  BY DEF PairInv, Fitting
<1>7. p \in Callees => r = owed[p] /\ pend[p] = {r} /\ pend'[p] = {}
  BY <1>5 DEF PairInv, InHand
<1>8. \A x \in Proc : x \in Callees => owed'[x] = owed[x] \/ pend'[x] = {}
  <2>1. \A x \in Proc : x # p => owed'[x] = owed[x]
    BY DEF Reply, Settled, IInv, TypeOK
  <2>. QED
    BY <1>7, <2>1
<1>9. CASE UNCHANGED <<state, at, out, wait, inbox, links, acked, peerDied, inCall>>
  BY <1>5, <1>8, <1>9, QuietSame, PairQuiet
<1>10. CASE /\ Live(t) /\ (p \in Wildcard \/ gen[t] = r.who.gen) /\ (pairs => StillWaits(p, t))
            /\ peerDied' = peerDied \ {p}
            /\ Attempt(p, m, Enqueue(links, p, t), inbox, FALSE, FALSE, {})
  <2> HIDE DEF mm, t, pairs
  <2>1. AttemptFrom(p, m, inbox, FALSE, FALSE, {})
    BY <1>1, <1>2, <1>3, <1>4, <1>5, <1>10 DEF AttemptFrom, IInv, TypeOK
  <2>2. DeliveryEffect(p, m, Enqueue(links, p, t), inbox, FALSE, FALSE, {})
    BY <1>10, AttemptEffect DEF IInv
  <2>3. t \in Callers => p \in Callees /\ r.seq # 0
    BY <1>6 DEF ReqFits, OneInHand, t
  <2>4. MsgFits(m)'
    <3>1. gen[p] \in Nat /\ callSeq[p] \in Nat
      BY DEF IInv, TypeOK
    <3>. QED
      BY <1>2, <1>3, <1>5, <2>3, <3>1 DEF MsgFits, Came
  <2>5. ASSUME t \in Callers
        PROVE  /\ Holds(t, p) /\ r.seq = callSeq[t] /\ t \in inCall /\ wait[t] = Id(p) /\ pend'[p] = {} /\ Once(t)
    <3>1. p \in Callees /\ r = owed[p] /\ r.seq # 0 /\ pend'[p] = {}
      BY <1>7, <2>3, <2>5
    <3>2. r.who = Id(t)
      BY <1>2, <1>10, <3>1 DEF OneInHand
    <3>3. StillWaits(p, t)
      BY <1>10, <3>1, <3>2 DEF pairs
    <3>4. t \in inCall /\ wait[t] = Id(p) /\ r.seq = callSeq[t]
      BY <3>1, <3>3 DEF StillWaits
    <3>5. r = [who |-> Id(t), seq |-> callSeq[t]]
      BY <1>1, <3>2, <3>4 DEF Request
    <3>. QED
      BY <1>1, <1>10, <3>1, <3>4, <3>5 DEF Holds, PairInv, Asked
  <2>6. ASSUME t \in Callers
        PROVE  at[t] # "queue" /\ ~HasMsg(t) /\ \A s \in Proc : ~Asks(t, s) /\ ~Holds(t, s)'
    <3>1. at[t] # "queue" /\ ~HasMsg(t)
      BY <2>5, <2>6 DEF Once
    <3>2. ASSUME NEW s \in Proc PROVE ~Asks(t, s)
      <4>1. Asks(t, s) => s = p
        BY <1>2, <2>5, <2>6 DEF Once
      <4>. QED
        BY <2>5, <2>6, <4>1 DEF Once
    <3>3. ASSUME NEW s \in Proc PROVE ~Holds(t, s)'
      <4>1. Holds(t, s)' => Holds(t, s)
        BY <1>5 DEF Holds, Id
      <4>2. Holds(t, s)' => s = p
        BY <1>2, <2>5, <2>6, <4>1 DEF Once
      <4>. QED
        BY <2>5, <2>6, <4>2 DEF Holds
    <3>. QED
      BY <3>1, <3>2, <3>3
  <2>7. ASSUME t \in Callers PROVE at'[p] # "queue"
    <3>1. CanDeposit(p, t, Enqueue(links, p, t))
      BY <2>5, <2>6, <2>7 DEF CanDeposit
    <3>2. Deliver(p, m, Enqueue(links, p, t), inbox, {})
      BY <1>2, <1>3, <1>10, <3>1 DEF Attempt
    <3>. QED
      BY <3>2, ParkEffect DEF Deliver, IInv
  <2>8. m.to.pid \in inCall /\ Live(m.to.pid) /\ wait[m.to.pid] = Id(p) =>
           /\ m.kind = "reply" /\ m.ans = callSeq[m.to.pid] /\ at[m.to.pid] # "queue"
           /\ \A s \in Proc : ~Asks(m.to.pid, s) /\ ~Holds(m.to.pid, s)'
    <3>1. m.to.pid = t
      BY <1>2, <1>3
    <3>2. t \in inCall /\ Live(t) => t \in Callers
      BY <1>1, CallerIs DEF t
    <3>3. t \in inCall /\ Live(t) => m.ans = callSeq[t]
      BY <1>3, <2>5, <3>2
    <3>. QED
      BY <1>3, <2>6, <3>1, <3>2, <3>3
  <2>9. m.to.pid \in Callers => at'[p] # "queue"
    BY <1>2, <1>3, <2>7
  <2>10. m.kind # "call" /\ (\A x \in Proc \ {p} : callSeq'[x] = callSeq[x])
    BY <1>3, <1>5
  <2>11. \A x \in Proc : /\ pend'[x] \subseteq pend[x]
                         /\ x \in Callees => owed'[x] = owed[x] \/ pend'[x] = {}
    BY <1>5, <1>8
  <2>. QED
    BY <1>5, <2>1, <2>2, <2>4, <2>8, <2>9, <2>10, <2>11, PairDelivered
<1>. QED
  BY <1>0, <1>9, <1>10 DEF Reply

\* A process that comes back to its queue loop, or is handed its message back.
LEMMA ResumePair ==
  ASSUME IInv, IInv', OneInHand, PairInv, NEW p \in Proc, NEW q, Runs(p, "queue") \/ Runs(p, "ack"),
         at[p] = "queue" \/ out[p].kind = "send", bounced' \subseteq bounced,
         UNCHANGED <<gen, peerDied, timedOut, noted, callSeq, owed, pend>>,
         DeliveryEffect(p, out[p], q, inbox, PeerGone(p), Late(p), {}),
         out[p].kind = "call" => (InOp(p)' => inbox' = inbox \/ at'[p] = "ack")
  PROVE  PairInv'
<1>0. PICK m, gone, late : m = out[p] /\ gone = PeerGone(p) /\ late = Late(p)
  OBVIOUS
<1>1. InOp(p) /\ Live(p) /\ m.to = wait[p] /\ MsgFits(m) /\ (m.kind = "call" => m.seq = callSeq[p])
  <2>1. InOp(p) /\ Live(p)
    BY DEF Runs, InOp, Live
  <2>. QED
    BY <1>0, <2>1 DEF IInv, OpInv, PairInv, Fitting
<1>2. AttemptFrom(p, m, inbox, gone, late, {}) /\ DeliveryEffect(p, m, q, inbox, gone, late, {})
  BY <1>0, ResumedFrom
<1>3. MsgFits(m)'
  BY <1>1 DEF MsgFits, Came, Id
<1>4. Onward /\ bounced' \cap Callers = {}
  BY OnwardSame DEF IInv, PairInv, NotBack
<1>5. ASSUME m.kind = "call"
      PROVE  /\ inbox[p].from.pid = None
             /\ \A s \in Proc : /\ ~(inbox[s].from = Id(p) /\ inbox[s].kind = "call" /\ inbox[s].seq = m.seq)
                                /\ [who |-> Id(p), seq |-> m.seq] \notin pend[s]
             /\ InOp(p)' => inbox' = inbox \/ at'[p] = "ack"
  <2>1. at[p] = "queue" /\ Once(p) /\ m.seq = callSeq[p]
    BY <1>0, <1>1, <1>5 DEF PairInv, Asked, IInv, OpInv
  <2>2. ~HasMsg(p) /\ \A s \in Proc : ~Asks(p, s) /\ ~Holds(p, s)
    BY <2>1 DEF Once
  <2>. QED
    BY <1>0, <1>5, <2>1, <2>2 DEF HasMsg, Asks, Holds
<1>6. ~(m.to.pid \in inCall /\ Live(m.to.pid) /\ wait[m.to.pid] = Id(p))
  <2> SUFFICES ASSUME m.to.pid \in inCall, Live(m.to.pid), wait[m.to.pid] = Id(p) PROVE FALSE
    OBVIOUS
  <2>1. m.to.pid \in Proc /\ Id(p).pid = p
    BY <1>2 DEF AttemptFrom, Id
  <2>2. m.to.pid \in Callers /\ p \in Callees
    BY <2>1, CallerIs
  <2>3. m.kind = "reply"
    BY <1>0, <1>1, <2>2, CallerIs
  <2>. QED
    BY <1>0, <2>2, <2>3 DEF PairInv, Prompt
<1>7. m.kind = "reply" => m.to.pid \notin Callers
  BY <1>0 DEF PairInv, Prompt
<1> HIDE <1>0
<1>. QED
  BY <1>1, <1>2, <1>3, <1>4, <1>5, <1>6, <1>7, PairDelivered

LEMMA LoopPair ==
  ASSUME IInv, IInv', OneInHand, PairInv, NEW p \in Proc, InQueue(p) \/ Redeliver(p)
  PROVE  PairInv'
<1>1. InOp(p) /\ out[p].to = wait[p]
  BY DEF InQueue, Redeliver, Runs, InOp, IInv, OpInv
<1>2. UNCHANGED <<gen, peerDied, timedOut, noted, callSeq, owed, pend>> /\ bounced' \subseteq bounced
  BY DEF InQueue, DeliverTwice, Redeliver
<1>4. CASE InQueue(p) /\ DeliverTwice(p)
  <2>1. out[p].kind = "send" /\ Runs(p, "queue") /\ at[p] = "queue"
    BY <1>1, <1>4, CallerIs DEF DeliverTwice, InQueue, Runs
  <2>2. DeliveryEffect(p, out[p], links, inbox, PeerGone(p), Late(p), {})
    BY <1>4, <2>1, TwiceEffect
  <2>. QED
    BY <1>2, <2>1, <2>2, ResumePair
<1>5. ASSUME NEW q, Attempt(p, out[p], q, inbox, PeerGone(p), Late(p), {}),
             (Runs(p, "queue") /\ at[p] = "queue") \/ (Runs(p, "ack") /\ out[p].kind = "send")
      PROVE  PairInv'
  <2>1. DeliveryEffect(p, out[p], q, inbox, PeerGone(p), Late(p), {})
    BY <1>5, AttemptEffect DEF IInv
  <2>2. InOp(p)' => ~PeerGone(p)
    BY <2>1 DEF DeliveryEffect, InOp
  <2>3. InOp(p)' => inbox' = inbox \/ at'[p] = "ack"
    BY <1>5, <2>2, AttemptDeposit DEF IInv
  <2>. QED
    BY <1>2, <1>5, <2>1, <2>3, ResumePair
<1>6. CASE InQueue(p) /\ ~DeliverTwice(p)
  <2>1. /\ Attempt(p, out[p], links, inbox, PeerGone(p), Late(p), {})
        /\ Runs(p, "queue") /\ at[p] = "queue"
    BY <1>6 DEF InQueue, Runs
  <2>. QED
    BY <1>5, <2>1
<1>7. CASE Redeliver(p)
  <2>1. /\ Attempt(p, out[p], Enqueue(links, p, wait[p].pid), inbox, PeerGone(p), Late(p), {})
        /\ Runs(p, "ack") /\ p \in bounced /\ out[p].kind # "reply"
    BY <1>7 DEF Redeliver
  <2>2. out[p].kind = "send"
    BY <1>1, <2>1, CallerIs
  <2>. QED
    BY <1>5, <2>1, <2>2
<1>. QED
  BY <1>4, <1>6, <1>7

PInv == OneInHand => PairInv

LEMMA InitPInv == Init => PInv
<1> SUFFICES ASSUME Init, OneInHand PROVE PairInv
  BY DEF PInv
<1>1. \A p \in Proc : ~HasMsg(p) /\ ~InOp(p) /\ pend[p] = {} /\ at[p] = "user"
  BY DEF Init, HasMsg, InOp, NoMsg, NoRef
<1>2. \A p \in Callees : p \in Proc
  BY EnvAssumption DEF Callees
<1>3. bounced = {} /\ inCall = {}
  BY DEF Init
<1>. QED
  BY <1>1, <1>2, <1>3 DEF PairInv, Fitting, InHand, NotBack, Prompt, Asked

LEMMA NextPInv == IInv /\ PInv /\ [Next]_vars => PInv'
<1> SUFFICES ASSUME IInv, OneInHand, PairInv, [Next]_vars PROVE PairInv'
  BY DEF PInv, OneInHand
<1>1. IInv'
  BY NextIInv
<1>2. ASSUME NEW p \in Proc, Syscall(p) PROVE PairInv'
  BY <1>1, <1>2, SendPair, CallPair, ReplyPair, ConsumePair, RestPair DEF Syscall
<1>3. ASSUME NEW p \in Proc, Resume(p) PROVE PairInv'
  BY <1>1, <1>3, LoopPair, ConsumePair, RestPair DEF Resume
<1>4. ASSUME NEW p \in Proc, PostNote(p) \/ DeliverNote(p) \/ Destroy(p) \/ Create(p) PROVE PairInv'
  BY <1>1, <1>4, RestPair
<1>5. CASE UNCHANGED vars \/ \E D \in SUBSET inCall : Sweep(D)
  <2>1. UNCHANGED <<gen, at, out, wait, inbox, callSeq, owed, pend, bounced>>
    BY <1>5 DEF vars, Sweep
  <2>. QED
    BY <1>1, <2>1, QuietSame, OnwardSame, PairQuiet DEF IInv, PairInv, NotBack
<1>. QED
  BY <1>2, <1>3, <1>4, <1>5 DEF Next

-----------------------------------------------------------------------------
(***************************************************************************)
(* The theorems.                                                           *)
(***************************************************************************)
\* The inductive invariant of the IPC system calls of syscalls.c3.
THEOREM Inductive == Spec => []IInv
BY InitIInv, NextIInv, PTL DEF Spec

\* The fields of the process table keep their types through every interleaving of
\* the system calls, the timeout sweep, notes, deaths and slot reuse.
THEOREM TypeCorrect == Spec => []TypeOK
<1>1. IInv => TypeOK
  BY DEF IInv
<1>. QED
  BY <1>1, Inductive, PTL

\* No wake-up is lost: a process asleep in a wait loop of sys_ipc_send,
\* sys_ipc_reply, sys_ipc_call or sys_ipc_recv has nothing to do there, for any
\* number of processes, incarnations and pending messages.
THEOREM WakeupsKept == Spec => []NoLostWakeup
<1>1. IInv => NoLostWakeup
  BY DEF IInv
<1>. QED
  BY <1>1, Inductive, PTL

\* in_call_reply_wait reserves the inbox of a caller: whatever lies in it comes
\* from the very incarnation that was called.
THEOREM InboxReserved == Spec => []ReplyFromCallee
<1>1. IInv => ReplyFromCallee
  BY DEF IInv
<1>. QED
  BY <1>1, Inductive, PTL

\* Until ipc_q_enqueue has linked two senders through an empty slot, a walk along
\* ipc_q_head and ipc_q_next ends, meets each sender once, and only live senders that wait
\* for the present occupant of the slot; a sender in its queue loop is on the queue unless
\* its peer is gone.  (The links hold some queues as sequences: Queues.)
THEOREM QueuesAgree == Spec => []QueueOK
<1>1. QInv => QueueOK
  BY QInvMeansQueueOK
<1>. QED
  BY <1>1, InitQInv, NextQInv, Inductive, PTL DEF Spec

\* Until a slot is reused, a message in an inbox is its live sender's one outstanding
\* message, which the sender waits to see acknowledged: ipc_send and ipc_call are a
\* rendezvous through timeouts, hand-backs, notes and deaths.
THEOREM Rendezvous == Spec => [](NoReuse => SenderAwaitsAck)
<1>1. AInv => (NoReuse => SenderAwaitsAck)
  BY DEF AInv, Meets
<1>. QED
  BY <1>1, InitAInv, NextAInv, Inductive, PTL DEF Spec

\* Where servers answer each request before they receive the next, and clients
\* only call, what an ipc_call takes for its reply is the reply to that very call
\* and not to an earlier one that timed out, for any number of clients, servers,
\* incarnations and calls: reply_owed_seq lets no reply through but the one in turn.
THEOREM RepliesMatch == Spec => [](OneInHand => ReplyMatchesCall)
<1>1. PInv => (OneInHand => ReplyMatchesCall)
  BY DEF PInv, PairInv, Asked, Once, ReplyMatchesCall
<1>. QED
  BY <1>1, InitPInv, NextPInv, Inductive, PTL DEF Spec
=============================================================================
