-------------------------- MODULE SupervisorProofs --------------------------
(***************************************************************************)
(* Proofs about Supervisor, for any number of services, slots and limits.  *)
(***************************************************************************)
EXTENDS Supervisor, TLAPS

\* What the entry of a service names is no younger than its slot, and if it is there
\* it runs the service.
Instances ==
  \A s \in Service :
    /\ inst[s].pid # 0 => inst[s].gen <= gen[inst[s].pid]
    /\ Up(s) => prog[inst[s].pid] = s

\* In a tick that has not come to service s yet the history is one tick ahead.
Ahead(s) == IF 1 <= turn /\ turn <= s THEN 1 ELSE 0

\* The stalled ticks counted for a service were ticks without progress.
Patience ==
  \A s \in Watched :
    Up(s) /\ s \notin moved => quiet[inst[s].pid] >= stall[s] + Ahead(s)

\* The supervisor's book-keeping.
IInv == TypeOK /\ TracksInstance /\ Instances /\ Patience

\* Slots and programs are told apart by their numbers.
LEMMA Numbers ==
  /\ \A s \in Service : s \in Nat /\ s # User /\ s # Unused
  /\ \A p \in 0 .. NSlots : p # 0 => p \in Slot
  /\ \A p \in Slot : p \in 0 .. NSlots /\ p # 0
  BY SizeAssumption DEF Service, Slot, User, Unused

\* The services and the shell are in the slots kernel_main has created them in.
LEMMA InitInv == Init => IInv
<1> SUFFICES ASSUME Init PROVE IInv
  OBVIOUS
<1> USE SizeAssumption, LimitAssumption DEF Init
<1>1. TypeOK
  BY DEF TypeOK, Service, Slot, User, Unused, Ref, NoRef
<1>2. TracksInstance
  BY DEF TracksInstance, Service, Slot, User, Unused
<1>3. Instances
  BY DEF Instances, Up, Resolves, Service, Slot
<1>4. Patience
  BY WatchedAssumption DEF Patience, Ahead, Service, Slot
<1> QED
  BY <1>1, <1>2, <1>3, <1>4 DEF IInv

\* A default namespace is a mount table.
LEMMA SeedType ==
  ASSUME TypeOK, NEW s
  PROVE  Seed(s) \in [Service -> Ref]
  BY Numbers, SizeAssumption DEF TypeOK, Seed, GenOf, Ref, NoRef

\* Reseating keeps mount tables what they are.
LEMMA ReseatType ==
  ASSUME TypeOK, NEW m \in [Slot -> [Service -> Ref]], NEW old, NEW c \in Slot
  PROVE  Reseat(m, old, c) \in [Slot -> [Service -> Ref]]
  BY Numbers, SizeAssumption DEF TypeOK, Reseat, Ref

\* The instance of a service that is up is in a slot.
LEMMA UpSlot ==
  ASSUME TypeOK, NEW t \in Service, Up(t)
  PROVE  /\ inst[t].pid \in Slot /\ Live(inst[t].pid) /\ gen[inst[t].pid] = inst[t].gen
         /\ quiet[inst[t].pid] \in 0 .. StallLimit /\ stall[t] \in 0 .. StallLimit - 1
  BY Numbers DEF TypeOK, Up, Resolves, Ref

\* The history is ahead for the services the tick has not come to.
LEMMA AheadStep ==
  ASSUME TypeOK, NEW s \in Service, NEW t \in Service, Continue(s)
  PROVE  /\ Ahead(t)' = IF t = s THEN 0 ELSE Ahead(t)
         /\ Ahead(s) = 1 /\ Ahead(t) \in 0 .. 1
  BY SizeAssumption DEF TypeOK, Continue, Ahead, Service

\* A message moves no process.
LEMMA DepositInv ==
  ASSUME IInv, NEW p \in Slot, Deposit(p)
  PROVE  IInv'
<1> USE Numbers, SizeAssumption, LimitAssumption
    DEF Deposit, watchVars
<1> TypeOK /\ TracksInstance /\ Instances /\ Patience
  BY DEF IInv
<1>1. TypeOK'
  BY DEF TypeOK, Ref, NoRef
<1>2. TracksInstance'
  BY DEF TypeOK, TracksInstance, Live, Up, Resolves
<1>3. Instances'
  BY DEF TypeOK, Instances, Live, Up, Resolves, Ref
<1>4. Patience'
  BY WatchedAssumption DEF TypeOK, Patience, Instances, Ahead, Live, Up, Resolves, Ref
<1> QED
  BY <1>1, <1>2, <1>3, <1>4 DEF IInv

\* Nor does its receipt.
LEMMA ReceiveInv ==
  ASSUME IInv, NEW p \in Slot, Receive(p)
  PROVE  IInv'
<1> USE Numbers, SizeAssumption, LimitAssumption
    DEF Receive, Progress
<1> TypeOK /\ TracksInstance /\ Instances /\ Patience
  BY DEF IInv
<1>1. TypeOK'
  BY DEF TypeOK, Ref, NoRef
<1>2. TracksInstance'
  BY DEF TypeOK, TracksInstance, Live, Up, Resolves
<1>3. Instances'
  BY DEF TypeOK, Instances, Live, Up, Resolves, Ref
<1>4. Patience'
  BY WatchedAssumption DEF TypeOK, Patience, Instances, Ahead, Live, Up, Resolves, Ref
<1> QED
  BY <1>1, <1>2, <1>3, <1>4 DEF IInv

\* Nor does the loss of it.
LEMMA TakeBackInv ==
  ASSUME IInv, NEW p \in Slot, TakeBack(p)
  PROVE  IInv'
<1> USE Numbers, SizeAssumption, LimitAssumption
    DEF TakeBack, watchVars
<1> TypeOK /\ TracksInstance /\ Instances /\ Patience
  BY DEF IInv
<1>1. TypeOK'
  BY DEF TypeOK, Ref, NoRef
<1>2. TracksInstance'
  BY DEF TypeOK, TracksInstance, Live, Up, Resolves
<1>3. Instances'
  BY DEF TypeOK, Instances, Live, Up, Resolves, Ref
<1>4. Patience'
  BY WatchedAssumption DEF TypeOK, Patience, Instances, Ahead, Live, Up, Resolves, Ref
<1> QED
  BY <1>1, <1>2, <1>3, <1>4 DEF IInv

\* Nor does other progress.
LEMMA WorkInv ==
  ASSUME IInv, NEW p \in Slot, Work(p)
  PROVE  IInv'
<1> USE Numbers, SizeAssumption, LimitAssumption
    DEF Work, Progress
<1> TypeOK /\ TracksInstance /\ Instances /\ Patience
  BY DEF IInv
<1>1. TypeOK'
  BY DEF TypeOK, Ref, NoRef
<1>2. TracksInstance'
  BY DEF TypeOK, TracksInstance, Live, Up, Resolves
<1>3. Instances'
  BY DEF TypeOK, Instances, Live, Up, Resolves, Ref
<1>4. Patience'
  BY WatchedAssumption DEF TypeOK, Patience, Instances, Ahead, Live, Up, Resolves, Ref
<1> QED
  BY <1>1, <1>2, <1>3, <1>4 DEF IInv

\* A process that is gone needs no entry.
LEMMA ExitInv ==
  ASSUME IInv, NEW p \in Slot, Exit(p)
  PROVE  IInv'
<1> USE Numbers, SizeAssumption, LimitAssumption
    DEF Exit, Destroy, watchVars
<1> TypeOK /\ TracksInstance /\ Instances /\ Patience
  BY DEF IInv
<1>1. TypeOK'
  BY DEF TypeOK, Ref, NoRef
<1>2. TracksInstance'
  BY DEF TypeOK, TracksInstance, Live, Up, Resolves
<1>3. Instances'
  BY DEF TypeOK, Instances, Live, Up, Resolves, Ref
<1>4. Patience'
  <2> SUFFICES ASSUME NEW t \in Watched, Up(t)', t \notin moved'
               PROVE  quiet'[inst'[t].pid] >= stall'[t] + Ahead(t)'
    BY DEF Patience
  <2>1. t \in Service
    BY WatchedAssumption
  <2>2. Up(t) /\ inst[t].pid # p
    BY <2>1 DEF TypeOK, Up, Resolves, Live, Ref
  <2>3. quiet[inst[t].pid] >= stall[t] + Ahead(t)
    BY <2>2 DEF Patience
  <2> QED
    BY <2>1, <2>2, <2>3, UpSlot DEF TypeOK, Ahead
<1> QED
  BY <1>1, <1>2, <1>3, <1>4 DEF IInv

\* A child is user work.
LEMMA ForkInv ==
  ASSUME IInv, NEW p \in Slot, NEW c \in Slot, Fork(p, c)
  PROVE  IInv'
<1> USE Numbers, SizeAssumption, LimitAssumption
    DEF Fork, Occupy, FirstFree, watchVars
<1> TypeOK /\ TracksInstance /\ Instances /\ Patience
  BY DEF IInv
<1>1. TypeOK'
  BY DEF TypeOK, Ref, NoRef
<1>2. TracksInstance'
  BY DEF TypeOK, TracksInstance, Live, Up, Resolves
<1>3. Instances'
  BY DEF TypeOK, Instances, Live, Up, Resolves, Ref
<1>4. Patience'
  <2> SUFFICES ASSUME NEW t \in Watched, Up(t)', t \notin moved'
               PROVE  quiet'[inst'[t].pid] >= stall'[t] + Ahead(t)'
    BY DEF Patience
  <2>1. t \in Service
    BY WatchedAssumption
  <2>2. inst[t].pid # 0 /\ inst[t].gen \in Nat /\ inst[t].pid \in Slot
    BY <2>1 DEF TypeOK, Up, Resolves, Ref
  <2>3. inst[t].pid # c
    BY <2>1, <2>2 DEF TypeOK, Instances, Up, Resolves
  <2>4. Up(t)
    BY <2>2, <2>3 DEF TypeOK, Up, Resolves, Live
  <2>5. quiet[inst[t].pid] >= stall[t] + Ahead(t)
    BY <2>4 DEF Patience
  <2> QED
    BY <2>2, <2>3, <2>5 DEF TypeOK, Ahead
<1> QED
  BY <1>1, <1>2, <1>3, <1>4 DEF IInv

\* So is the shell.
LEMMA StartShellInv ==
  ASSUME IInv, NEW c \in Slot, StartShell(c)
  PROVE  IInv'
<1> USE Numbers, SizeAssumption, LimitAssumption
    DEF StartShell, Occupy, FirstFree, watchVars
<1> TypeOK /\ TracksInstance /\ Instances /\ Patience
  BY DEF IInv
<1>1. TypeOK'
  BY SeedType DEF TypeOK, Ref, NoRef
<1>2. TracksInstance'
  BY DEF TypeOK, TracksInstance, Live, Up, Resolves
<1>3. Instances'
  BY DEF TypeOK, Instances, Live, Up, Resolves, Ref
<1>4. Patience'
  <2> SUFFICES ASSUME NEW t \in Watched, Up(t)', t \notin moved'
               PROVE  quiet'[inst'[t].pid] >= stall'[t] + Ahead(t)'
    BY DEF Patience
  <2>1. t \in Service
    BY WatchedAssumption
  <2>2. inst[t].pid # 0 /\ inst[t].gen \in Nat /\ inst[t].pid \in Slot
    BY <2>1 DEF TypeOK, Up, Resolves, Ref
  <2>3. inst[t].pid # c
    BY <2>1, <2>2 DEF TypeOK, Instances, Up, Resolves
  <2>4. Up(t)
    BY <2>2, <2>3 DEF TypeOK, Up, Resolves, Live
  <2>5. quiet[inst[t].pid] >= stall[t] + Ahead(t)
    BY <2>4 DEF Patience
  <2> QED
    BY <2>2, <2>3, <2>5 DEF TypeOK, Ahead
<1> QED
  BY <1>1, <1>2, <1>3, <1>4 DEF IInv

\* A tick begins.
LEMMA StartTickInv ==
  ASSUME IInv, StartTick
  PROVE  IInv'
<1> USE Numbers, SizeAssumption, LimitAssumption
    DEF StartTick, watchVars
<1> TypeOK /\ TracksInstance /\ Instances /\ Patience
  BY DEF IInv
<1>1. TypeOK'
  BY DEF TypeOK, Ref, NoRef
<1>2. TracksInstance'
  BY DEF TypeOK, TracksInstance, Live, Up, Resolves
<1>3. Instances'
  BY DEF TypeOK, Instances, Live, Up, Resolves, Ref
<1>4. Patience'
  <2> SUFFICES ASSUME NEW t \in Watched, Up(t)', t \notin moved'
               PROVE  quiet'[inst'[t].pid] >= stall'[t] + Ahead(t)'
    BY DEF Patience
  <2>1. t \in Service
    BY WatchedAssumption
  <2>2. Up(t)
    BY DEF Up, Resolves, Live
  <2>3. inst[t].pid \in Slot /\ prog[inst[t].pid] \in Watched
    BY <2>1, <2>2, UpSlot DEF Instances
  <2>4. quiet[inst[t].pid] >= stall[t] + Ahead(t)
    BY <2>2 DEF Patience
  <2>5. Ahead(t) = 0 /\ Ahead(t)' = 1
    BY <2>1 DEF Ahead, Service
  <2> QED
    BY <2>1, <2>2, <2>3, <2>4, <2>5, UpSlot
<1> QED
  BY <1>1, <1>2, <1>3, <1>4 DEF IInv

\* The tick passes a service by.
LEMMA LeaveAloneInv ==
  ASSUME IInv, NEW s \in Service, LeaveAlone(s)
  PROVE  IInv'
<1> USE Numbers, SizeAssumption, LimitAssumption
    DEF LeaveAlone, Continue, procVars, watchVars
<1> TypeOK /\ TracksInstance /\ Instances /\ Patience
  BY DEF IInv
<1>1. TypeOK'
  BY DEF TypeOK, Ref, NoRef
<1>2. TracksInstance'
  BY DEF TypeOK, TracksInstance, Live, Up, Resolves
<1>3. Instances'
  BY DEF TypeOK, Instances, Live, Up, Resolves, Ref
<1>4. Patience'
  <2> SUFFICES ASSUME NEW t \in Watched, Up(t)', t \notin moved'
               PROVE  quiet'[inst'[t].pid] >= stall'[t] + Ahead(t)'
    BY DEF Patience
  <2>1. t \in Service
    BY WatchedAssumption
  <2>2. Up(t) /\ inst'[t] = inst[t] /\ quiet' = quiet /\ stall' = stall /\ moved' = moved
    BY <2>1 DEF TypeOK, Up, Resolves, Live
  <2>3. quiet[inst[t].pid] >= stall[t] + Ahead(t)
    BY <2>2 DEF Patience
  <2> QED
    BY <2>1, <2>2, <2>3, UpSlot, AheadStep
<1> QED
  BY <1>1, <1>2, <1>3, <1>4 DEF IInv

\* The tick notes that a service is well.
LEMMA FindWellInv ==
  ASSUME IInv, NEW s \in Service, FindWell(s)
  PROVE  IInv'
<1> USE Numbers, SizeAssumption, LimitAssumption
    DEF FindWell, Watch, Continue, procVars
<1> TypeOK /\ TracksInstance /\ Instances /\ Patience
  BY DEF IInv
<1>1. TypeOK'
  BY DEF TypeOK, Ref, NoRef
<1>2. TracksInstance'
  BY DEF TypeOK, TracksInstance, Live, Up, Resolves
<1>3. Instances'
  BY DEF TypeOK, Instances, Live, Up, Resolves, Ref
<1>4. Patience'
  <2> SUFFICES ASSUME NEW t \in Watched, Up(t)', t \notin moved'
               PROVE  quiet'[inst'[t].pid] >= stall'[t] + Ahead(t)'
    BY DEF Patience
  <2>1. t \in Service
    BY WatchedAssumption
  <2>2. Up(t) /\ inst' = inst /\ quiet' = quiet
    BY DEF Up, Resolves, Live
  <2>3. t \notin moved => quiet[inst[t].pid] >= stall[t] + Ahead(t)
    BY <2>2 DEF Patience
  <2>4. CASE t = s
    BY <2>1, <2>2, <2>3, <2>4, UpSlot, AheadStep DEF TypeOK
  <2>5. CASE t # s
    BY <2>1, <2>2, <2>3, <2>5, UpSlot, AheadStep DEF TypeOK
  <2> QED
    BY <2>4, <2>5
<1> QED
  BY <1>1, <1>2, <1>3, <1>4 DEF IInv

\* The tick counts a stalled tick.
LEMMA SuspectInv ==
  ASSUME IInv, NEW s \in Service, Suspect(s)
  PROVE  IInv'
<1> USE Numbers, SizeAssumption, LimitAssumption
    DEF Suspect, Continue, Watch, Stalls, Waits, procVars
<1> TypeOK /\ TracksInstance /\ Instances /\ Patience
  BY DEF IInv
<1>1. TypeOK'
  BY DEF TypeOK, Ref, NoRef
<1>2. TracksInstance'
  BY DEF TypeOK, TracksInstance, Live, Up, Resolves
<1>3. Instances'
  BY DEF TypeOK, Instances, Live, Up, Resolves, Ref
<1>4. Patience'
  <2> SUFFICES ASSUME NEW t \in Watched, Up(t)', t \notin moved'
               PROVE  quiet'[inst'[t].pid] >= stall'[t] + Ahead(t)'
    BY DEF Patience
  <2>1. t \in Service
    BY WatchedAssumption
  <2>2. Up(t) /\ inst' = inst /\ quiet' = quiet
    BY DEF Up, Resolves, Live
  <2>3. t \notin moved => quiet[inst[t].pid] >= stall[t] + Ahead(t)
    BY <2>2 DEF Patience
  <2>4. CASE t = s
    BY <2>1, <2>2, <2>3, <2>4, UpSlot, AheadStep DEF TypeOK
  <2>5. CASE t # s
    BY <2>1, <2>2, <2>3, <2>5, UpSlot, AheadStep DEF TypeOK
  <2> QED
    BY <2>4, <2>5
<1> QED
  BY <1>1, <1>2, <1>3, <1>4 DEF IInv

\* The watchdog kills a service.
LEMMA KillWedgedInv ==
  ASSUME IInv, NEW s \in Service, KillWedged(s)
  PROVE  IInv'
<1> USE Numbers, SizeAssumption, LimitAssumption
    DEF KillWedged, Continue, Watch, Stalls, Destroy, procVars
<1> TypeOK /\ TracksInstance /\ Instances /\ Patience
  BY DEF IInv
<1>1. TypeOK'
  <2>1. CASE Destroy(inst[s].pid)
    <3>1. inst[s].pid \in Slot
      BY UpSlot
    <3>2. ns' \in [Slot -> [Service -> Ref]]
      BY <2>1, <3>1 DEF TypeOK, Ref, NoRef
    <3>3. /\ stall' \in [Service -> 0 .. StallLimit - 1]
          /\ turn' \in 0 .. NServices
      <4>1. 0 \in 0 .. StallLimit - 1
        OBVIOUS
      <4>2. stall' \in [Service -> 0 .. StallLimit - 1]
        BY <4>1 DEF TypeOK
      <4>3. turn' \in 0 .. NServices
        BY DEF TypeOK, Service
      <4> QED
        BY <4>2, <4>3
    <3>4. prog' \in [Slot -> Service \cup {User, Unused}] /\ full' \subseteq Slot
      BY <2>1, <3>1 DEF TypeOK
    <3>5. gen' \in [Slot -> Nat] /\ quiet' \in [Slot -> 0 .. StallLimit]
      BY <2>1, <3>1 DEF TypeOK
    <3> QED
      BY <2>1, <3>1, <3>2, <3>3, <3>4, <3>5 DEF TypeOK
  <2>2. CASE UNCHANGED procVars
    BY <2>2 DEF TypeOK
  <2> QED
    BY <2>1, <2>2
<1>2. TracksInstance'
  BY DEF TypeOK, TracksInstance, Live, Up, Resolves
<1>3. Instances'
  BY DEF TypeOK, Instances, Live, Up, Resolves, Ref
<1>4. Patience'
  <2> SUFFICES ASSUME NEW t \in Watched, Up(t)', t \notin moved'
               PROVE  quiet'[inst'[t].pid] >= stall'[t] + Ahead(t)'
    BY DEF Patience
  <2>1. t \in Service
    BY WatchedAssumption
  <2>2. Up(t) /\ inst' = inst
    BY <2>1 DEF TypeOK, Up, Resolves, Live, Ref
  <2>3. quiet'[inst[t].pid] = quiet[inst[t].pid]
    BY <2>1, <2>2, UpSlot DEF TypeOK, Up, Resolves, Live
  <2>4. quiet[inst[t].pid] >= stall[t] + Ahead(t)
    BY <2>2 DEF Patience
  <2>5. CASE t = s
    BY <2>1, <2>2, <2>3, <2>5, UpSlot, AheadStep DEF TypeOK
  <2>6. CASE t # s
    BY <2>1, <2>2, <2>3, <2>4, <2>6, UpSlot, AheadStep DEF TypeOK
  <2> QED
    BY <2>5, <2>6
<1> QED
  BY <1>1, <1>2, <1>3, <1>4 DEF IInv

\* A service that is given up has no instance.
LEMMA GiveUpInv ==
  ASSUME IInv, NEW s \in Service, GiveUp(s)
  PROVE  IInv'
<1> USE Numbers, SizeAssumption, LimitAssumption
    DEF GiveUp, Continue, Dead, procVars, watchVars
<1> TypeOK /\ TracksInstance /\ Instances /\ Patience
  BY DEF IInv
<1>1. TypeOK'
  BY DEF TypeOK, Ref, NoRef
<1>2. TracksInstance'
  BY DEF TypeOK, TracksInstance, Live, Up, Resolves
<1>3. Instances'
  BY DEF TypeOK, Instances, Live, Up, Resolves, Ref
<1>4. Patience'
  <2> SUFFICES ASSUME NEW t \in Watched, Up(t)', t \notin moved'
               PROVE  quiet'[inst'[t].pid] >= stall'[t] + Ahead(t)'
    BY DEF Patience
  <2>1. t \in Service
    BY WatchedAssumption
  <2>2. Up(t) /\ inst'[t] = inst[t] /\ quiet' = quiet /\ stall' = stall /\ moved' = moved
    BY <2>1 DEF TypeOK, Up, Resolves, Live
  <2>3. quiet[inst[t].pid] >= stall[t] + Ahead(t)
    BY <2>2 DEF Patience
  <2> QED
    BY <2>1, <2>2, <2>3, UpSlot, AheadStep
<1> QED
  BY <1>1, <1>2, <1>3, <1>4 DEF IInv

\* A respawn that fails changes nothing.
LEMMA CantRespawnInv ==
  ASSUME IInv, NEW s \in Service, CantRespawn(s)
  PROVE  IInv'
<1> USE Numbers, SizeAssumption, LimitAssumption
    DEF CantRespawn, Continue, Dead, Restored, procVars, watchVars
<1> TypeOK /\ TracksInstance /\ Instances /\ Patience
  BY DEF IInv
<1>1. TypeOK'
  BY DEF TypeOK, Ref, NoRef
<1>2. TracksInstance'
  BY DEF TypeOK, TracksInstance, Live, Up, Resolves
<1>3. Instances'
  BY DEF TypeOK, Instances, Live, Up, Resolves, Ref
<1>4. Patience'
  <2> SUFFICES ASSUME NEW t \in Watched, Up(t)', t \notin moved'
               PROVE  quiet'[inst'[t].pid] >= stall'[t] + Ahead(t)'
    BY DEF Patience
  <2>1. t \in Service
    BY WatchedAssumption
  <2>2. Up(t) /\ inst'[t] = inst[t] /\ quiet' = quiet /\ stall' = stall /\ moved' = moved
    BY <2>1 DEF TypeOK, Up, Resolves, Live
  <2>3. quiet[inst[t].pid] >= stall[t] + Ahead(t)
    BY <2>2 DEF Patience
  <2> QED
    BY <2>1, <2>2, <2>3, UpSlot, AheadStep
<1> QED
  BY <1>1, <1>2, <1>3, <1>4 DEF IInv

\* A service gets a new instance only when the old one is gone.
LEMMA RespawnInv ==
  ASSUME IInv, NEW s \in Service, NEW c \in Slot, Respawn(s, c)
  PROVE  IInv'
<1> USE Numbers, SizeAssumption, LimitAssumption
    DEF Respawn, Continue, Dead, Occupy, FirstFree, Instance
<1> TypeOK /\ TracksInstance /\ Instances /\ Patience
  BY DEF IInv
<1>1. TypeOK'
  <2>1. [ns EXCEPT ![c] = Seed(s)] \in [Slot -> [Service -> Ref]]
    BY SeedType DEF TypeOK
  <2>2. ns' \in [Slot -> [Service -> Ref]]
    BY <2>1, ReseatType
  <2>3. prog' \in [Slot -> Service \cup {User, Unused}] /\ gen' \in [Slot -> Nat]
    BY DEF TypeOK
  <2>4. inst' \in [Service -> Ref]
    BY DEF TypeOK, Ref
  <2>5. restarts' \in [Service -> 0 .. RestartLimit]
    BY DEF TypeOK
  <2>6. 0 \in 0 .. StallLimit - 1 /\ 0 \in 0 .. StallLimit
    OBVIOUS
  <2>7. stall' \in [Service -> 0 .. StallLimit - 1]
    BY <2>6 DEF TypeOK
  <2>8. turn' \in 0 .. NServices
    BY DEF TypeOK, Service
  <2>9. full' \subseteq Slot /\ quiet' \in [Slot -> 0 .. StallLimit]
    BY <2>6 DEF TypeOK
  <2>10. /\ givenUp' \subseteq Service /\ ready' \subseteq Service
         /\ moved' \subseteq Service /\ shell' \in Ref
    BY DEF TypeOK
  <2> QED
    BY <2>2, <2>3, <2>4, <2>5, <2>7, <2>8, <2>9, <2>10 DEF TypeOK
<1>2. TracksInstance'
  BY DEF TypeOK, TracksInstance, Live, Up, Resolves
<1>3. Instances'
  BY DEF TypeOK, Instances, Live, Up, Resolves, Ref
<1>4. Patience'
  <2> SUFFICES ASSUME NEW t \in Watched, Up(t)', t \notin moved'
               PROVE  quiet'[inst'[t].pid] >= stall'[t] + Ahead(t)'
    BY DEF Patience
  <2>1. t \in Service
    BY WatchedAssumption
  <2>2. CASE t = s
    BY <2>1, <2>2, <1>1, AheadStep DEF TypeOK
  <2>3. CASE t # s
    <3>1. inst'[t] = inst[t] /\ stall'[t] = stall[t] /\ t \notin moved
      BY <2>1, <2>3 DEF TypeOK
    <3>2. inst[t].pid # 0 /\ inst[t].gen \in Nat /\ inst[t].pid \in Slot
      BY <2>1, <3>1 DEF TypeOK, Up, Resolves, Ref
    <3>3. inst[t].pid # c
      BY <2>1, <3>1, <3>2 DEF TypeOK, Instances, Up, Resolves
    <3>4. Up(t) /\ quiet'[inst[t].pid] = quiet[inst[t].pid]
      BY <3>1, <3>2, <3>3 DEF TypeOK, Up, Resolves, Live
    <3>5. quiet[inst[t].pid] >= stall[t] + Ahead(t)
      BY <3>1, <3>4 DEF Patience
    <3> QED
      BY <2>1, <2>3, <3>1, <3>4, <3>5, AheadStep
  <2> QED
    BY <2>2, <2>3
<1> QED
  BY <1>1, <1>2, <1>3, <1>4 DEF IInv

\* Steps that change nothing.
LEMMA StutterInv == IInv /\ UNCHANGED vars => IInv'
  BY DEF IInv, TypeOK, TracksInstance, Instances, Patience, Ahead, Live, Up, Resolves,
         vars, procVars, watchVars

\* Every step keeps the inductive invariant.
LEMMA NextInv == IInv /\ [Next]_vars => IInv'
<1> SUFFICES ASSUME IInv, Next PROVE IInv'
  BY StutterInv
<1>1. CASE \E p \in Slot : \/ Deposit(p) \/ Receive(p) \/ TakeBack(p) \/ Work(p)
                           \/ Exit(p) \/ StartShell(p) \/ \E c \in Slot : Fork(p, c)
  BY <1>1, DepositInv, ReceiveInv, TakeBackInv, WorkInv, ExitInv, StartShellInv, ForkInv
<1>2. CASE StartTick
  BY <1>2, StartTickInv
<1>3. CASE \E s \in Service : Attend(s)
  BY <1>3, LeaveAloneInv, FindWellInv, SuspectInv, KillWedgedInv, GiveUpInv,
     CantRespawnInv, RespawnInv DEF Attend
<1> QED
  BY <1>1, <1>2, <1>3 DEF Next

\* The book-keeping is right in every reachable state.
THEOREM Inductive == Spec => []IInv
  BY InitInv, NextInv, PTL DEF Spec

\* The process and service tables keep their types.
THEOREM TypeCorrect == Spec => []TypeOK
<1>1. IInv => TypeOK
  BY DEF IInv
<1> QED
  BY <1>1, Inductive, PTL

\* supervisor_tick never loses track of an instance and so never starts a second one
\* next to it.
THEOREM NoDuplicates == Spec => []TracksInstance
<1>1. IInv => TracksInstance
  BY DEF IInv
<1> QED
  BY <1>1, Inductive, PTL

\* The step of a tick that takes a process away is the watchdog's.
LEMMA OnlyWedgedKilled ==
  ASSUME IInv, Next, NEW p \in Slot, turn # 0, Live(p), ~Live(p)'
  PROVE  \E s \in Service : KillWedged(s) /\ inst[s].pid = p
<1>1. PICK s \in Service : Attend(s)
  BY DEF Next, Deposit, Receive, TakeBack, Work, Exit, StartShell, Fork, StartTick
<1>2. ~(LeaveAlone(s) \/ FindWell(s) \/ Suspect(s) \/ GiveUp(s) \/ CantRespawn(s))
  BY DEF LeaveAlone, FindWell, Suspect, GiveUp, CantRespawn, procVars, Live
<1>3. ASSUME NEW c \in Slot, Respawn(s, c) PROVE FALSE
  BY <1>3, Numbers DEF IInv, TypeOK, Respawn, Occupy, Live
<1>4. KillWedged(s)
  BY <1>1, <1>2, <1>3 DEF Attend
<1>5. inst[s].pid = p
  BY <1>4, Numbers DEF KillWedged, Destroy, procVars, IInv, TypeOK, Live
<1> QED
  BY <1>4, <1>5

\* The watchdog kills only after StallLimit ticks without progress, whatever the server
\* and its clients do between ticks.
THEOREM Patient == Spec => WatchdogIsPatient
<1>1. ASSUME IInv, [Next]_vars, NEW p \in Slot, turn # 0, Live(p), ~Live(p)'
      PROVE  quiet[p] >= StallLimit /\ p \in full
  <2>1. Next
    BY <1>1 DEF vars, procVars, Live
  <2>2. PICK s \in Service : KillWedged(s) /\ inst[s].pid = p
    BY <1>1, <2>1, OnlyWedgedKilled
  <2>3. p \in full /\ s \in Watched /\ s \notin moved /\ Up(s) /\ turn = s /\ ~Waits(s)
    BY <2>2 DEF KillWedged, Stalls, Watch, Idles, Continue
  <2>4. quiet[p] >= stall[s] + 1
    BY <1>1, <2>2, <2>3, SizeAssumption DEF IInv, Patience, Ahead, Service
  <2>5. stall[s] \in Nat /\ quiet[p] \in Nat /\ stall[s] + 1 >= StallLimit
    BY <1>1, <2>3, LimitAssumption DEF IInv, TypeOK, Waits
  <2> QED
    BY <2>3, <2>4, <2>5, LimitAssumption
<1>2. IInv /\ [Next]_vars =>
        [\A p \in Slot : turn # 0 /\ Live(p) /\ ~Live(p)' =>
           quiet[p] >= StallLimit /\ p \in full]_vars
  BY <1>1
<1> QED
  BY <1>2, Inductive, PTL DEF Spec, WatchdogIsPatient

(***************************************************************************)
(* The mounts.                                                             *)
(***************************************************************************)
\* Some service answers for the reference: it names the slot of the service's entry
\* and, if that service is up, this very instance.
Answered(r) == \E t \in Service : inst[t].pid = r.pid /\ (Up(t) => r.gen = inst[t].gen)

\* Every mount of a live process names the slot of a service, so that the next
\* respawn of that service finds and re-points it.
MountsAnswered == \A p \in Slot, s \in Service : Live(p) /\ ns[p][s].pid # 0 => Answered(ns[p][s])

\* Mounts are copied or dropped, and no service comes up.
LEMMA MountsStay ==
  ASSUME MountsAnswered, inst' = inst, \A t \in Service : Up(t)' => Up(t),
         \A p \in Slot : Live(p)' => \E q \in Slot : Live(q) /\ ns'[p] = ns[q]
  PROVE  MountsAnswered'
<1> SUFFICES ASSUME NEW p \in Slot, NEW s \in Service, Live(p)', ns'[p][s].pid # 0
             PROVE  \E t \in Service : inst'[t].pid = ns'[p][s].pid /\ (Up(t)' => ns'[p][s].gen = inst'[t].gen)
  BY DEF MountsAnswered, Answered
<1>1. PICK q \in Slot : Live(q) /\ ns'[p] = ns[q]
  OBVIOUS
<1>2. PICK t \in Service : inst[t].pid = ns[q][s].pid /\ (Up(t) => ns[q][s].gen = inst[t].gen)
  BY <1>1 DEF MountsAnswered, Answered
<1> QED
  BY <1>1, <1>2

\* Steps that leave processes and service table alone.
LEMMA MountsUntouched ==
  ASSUME MountsAnswered, UNCHANGED <<prog, gen, ns, inst>>
  PROVE  MountsAnswered'
<1>1. \A t \in Service : Up(t)' => Up(t)
  BY DEF Up, Resolves, Live
<1>2. \A p \in Slot : Live(p)' => Live(p) /\ ns'[p] = ns[p]
  BY DEF Live
<1> QED
  BY <1>1, <1>2, MountsStay

\* A process goes.
LEMMA DestroyMounts ==
  ASSUME IInv, MountsAnswered, NEW p \in Slot, Destroy(p), inst' = inst
  PROVE  MountsAnswered'
<1> TypeOK
  BY DEF IInv
<1>1. \A t \in Service : Up(t)' => Up(t)
  BY Numbers DEF TypeOK, Destroy, Up, Resolves, Live, Ref
<1>2. \A q \in Slot : Live(q)' => Live(q) /\ ns'[q] = ns[q]
  BY DEF TypeOK, Destroy, Live
<1> QED
  BY <1>1, <1>2, MountsStay

\* A process takes a free slot: no entry that named the slot's earlier occupants is
\* up.
LEMMA OccupyMounts ==
  ASSUME IInv, NEW c \in Slot, NEW x, NEW m, ~Live(c), Occupy(c, x, m), x # Unused
  PROVE  /\ \A t \in Service :
              inst[t].pid # 0 /\ prog'[inst[t].pid] # Unused /\ gen'[inst[t].pid] = inst[t].gen =>
                Up(t) /\ inst[t].pid # c
         /\ \A p \in Slot : p # c => (Live(p)' <=> Live(p))
         /\ gen'[c] = gen[c] + 1 /\ Live(c)'
<1> TypeOK /\ Instances
  BY DEF IInv
<1>1. ASSUME NEW t \in Service, inst[t].pid # 0 /\ prog'[inst[t].pid] # Unused /\ gen'[inst[t].pid] = inst[t].gen
      PROVE  Up(t) /\ inst[t].pid # c
  <2>1. inst[t].pid \in Slot /\ inst[t].gen \in Nat /\ inst[t].gen <= gen[inst[t].pid]
    BY <1>1, Numbers DEF TypeOK, Instances, Ref
  <2>2. inst[t].pid # c
    BY <1>1, <2>1 DEF TypeOK, Occupy
  <2> QED
    BY <1>1, <2>1, <2>2 DEF TypeOK, Occupy, Up, Resolves, Live
<1> QED
  BY <1>1 DEF TypeOK, Occupy, Live

\* A child has its parent's mounts.
LEMMA ForkMounts ==
  ASSUME IInv, MountsAnswered, NEW p \in Slot, NEW c \in Slot, Fork(p, c)
  PROVE  MountsAnswered'
<1> TypeOK
  BY DEF IInv
<1>0. User # Unused
  BY DEF User, Unused
<1>1. /\ ~Live(c) /\ Live(p) /\ inst' = inst /\ ns' = [ns EXCEPT ![c] = ns[p]]
      /\ Occupy(c, User, [ns EXCEPT ![c] = ns[p]])
  BY DEF Fork, FirstFree, Occupy
<1>2. /\ \A t \in Service :
              inst[t].pid # 0 /\ prog'[inst[t].pid] # Unused /\ gen'[inst[t].pid] = inst[t].gen =>
                Up(t) /\ inst[t].pid # c
      /\ \A q \in Slot : q # c => (Live(q)' <=> Live(q))
  BY <1>0, <1>1, OccupyMounts
<1>3. \A t \in Service : Up(t)' => Up(t)
  BY <1>1, <1>2 DEF Up, Resolves, Live
<1>4. \A q \in Slot : Live(q)' => \E o \in Slot : Live(o) /\ ns'[q] = ns[o]
  BY <1>1, <1>2 DEF TypeOK
<1> QED
  BY <1>1, <1>3, <1>4, MountsStay

\* What seed_default_namespace writes is answered for.
LEMMA SeedAnswered ==
  ASSUME TypeOK, NEW s, NEW t \in Service, Seed(s)[t].pid # 0
  PROVE  Seed(s)[t].pid = inst[t].pid /\ (Up(t) => Seed(s)[t].gen = inst[t].gen)
  BY Numbers DEF TypeOK, Seed, GenOf, NoRef, Up, Resolves

\* A new shell has the default mounts.
LEMMA StartShellMounts ==
  ASSUME IInv, MountsAnswered, NEW c \in Slot, StartShell(c)
  PROVE  MountsAnswered'
<1> TypeOK
  BY DEF IInv
<1>0. User # Unused
  BY DEF User, Unused
<1>1. /\ ~Live(c) /\ inst' = inst /\ ns' = [ns EXCEPT ![c] = Seed(0)]
      /\ Occupy(c, User, [ns EXCEPT ![c] = Seed(0)])
  BY DEF StartShell, FirstFree, Occupy
<1>2. /\ \A t \in Service :
              inst[t].pid # 0 /\ prog'[inst[t].pid] # Unused /\ gen'[inst[t].pid] = inst[t].gen =>
                Up(t) /\ inst[t].pid # c
      /\ \A q \in Slot : q # c => (Live(q)' <=> Live(q))
  BY <1>0, <1>1, OccupyMounts
<1>3. \A t \in Service : Up(t)' => Up(t)
  BY <1>1, <1>2 DEF Up, Resolves, Live
<1> SUFFICES ASSUME NEW p \in Slot, NEW s \in Service, Live(p)', ns'[p][s].pid # 0
             PROVE  \E t \in Service : inst'[t].pid = ns'[p][s].pid /\ (Up(t)' => ns'[p][s].gen = inst'[t].gen)
  BY DEF MountsAnswered, Answered
<1>4. CASE p = c
  <2>1. ns'[p] = Seed(0)
    BY <1>1, <1>4 DEF TypeOK
  <2>2. inst[s].pid = Seed(0)[s].pid /\ (Up(s) => Seed(0)[s].gen = inst[s].gen)
    BY <2>1, SeedAnswered
  <2> QED
    BY <1>1, <1>3, <2>1, <2>2
<1>5. CASE p # c
  <2>1. ns'[p] = ns[p] /\ Live(p)
    BY <1>1, <1>2, <1>5 DEF TypeOK
  <2>2. PICK t \in Service : inst[t].pid = ns[p][s].pid /\ (Up(t) => ns[p][s].gen = inst[t].gen)
    BY <2>1 DEF MountsAnswered, Answered
  <2> QED
    BY <1>1, <1>3, <2>1, <2>2
<1> QED
  BY <1>4, <1>5

\* A respawn re-points the mounts that name the slot of the dead instance; others are
\* answered for by another service, which stays as it was.
LEMMA RespawnMounts ==
  ASSUME IInv, MountsAnswered, NEW s \in Service, NEW c \in Slot, Respawn(s, c)
  PROVE  MountsAnswered'
<1> DEFINE old == inst[s].pid
           m == [ns EXCEPT ![c] = Seed(s)]
<1> TypeOK
  BY DEF IInv
<1>0. s # Unused
  BY Numbers
<1>1. ~Live(c) /\ ns' = Reseat(m, old, c) /\ Occupy(c, s, Reseat(m, old, c))
  BY DEF Respawn, FirstFree, Occupy
<1>2. /\ \A t \in Service :
              inst[t].pid # 0 /\ prog'[inst[t].pid] # Unused /\ gen'[inst[t].pid] = inst[t].gen =>
                Up(t) /\ inst[t].pid # c
      /\ \A q \in Slot : q # c => (Live(q)' <=> Live(q))
      /\ gen'[c] = gen[c] + 1
  BY <1>0, <1>1, OccupyMounts
<1>3. /\ \A t \in Service : t # s => inst'[t] = inst[t]
      /\ inst'[s].pid = c /\ inst'[s].gen = gen[c] + 1
  BY DEF TypeOK, Respawn, Instance
<1>4. \A t \in Service : t # s => (Up(t)' => Up(t))
  BY <1>2, <1>3 DEF Up, Resolves, Live
<1> SUFFICES ASSUME NEW p \in Slot, NEW u \in Service, Live(p)', ns'[p][u].pid # 0
             PROVE  \E t \in Service : inst'[t].pid = ns'[p][u].pid /\ (Up(t)' => ns'[p][u].gen = inst'[t].gen)
  BY DEF MountsAnswered, Answered
<1>5. Live(p) \/ p = c
  BY <1>2
<1>6. ns'[p][u] = IF old # 0 /\ m[p][u].pid = old THEN [pid |-> c, gen |-> gen[c] + 1] ELSE m[p][u]
  BY <1>1, <1>5 DEF Reseat
<1>7. CASE old # 0 /\ m[p][u].pid = old
  BY <1>3, <1>6, <1>7
<1>8. CASE ~(old # 0 /\ m[p][u].pid = old)
  <2>1. ns'[p][u] = m[p][u] /\ m[p][u].pid # old
    BY <1>6, <1>8
  <2>2. PICK t \in Service : inst[t].pid = m[p][u].pid /\ (Up(t) => m[p][u].gen = inst[t].gen)
    <3>1. CASE p = c
      <4>1. m[p] = Seed(s)
        BY <3>1 DEF TypeOK
      <4> QED
        BY <2>1, <4>1, SeedAnswered
    <3>2. CASE p # c
      <4>1. m[p] = ns[p] /\ Live(p)
        BY <1>5, <3>2 DEF TypeOK
      <4> QED
        BY <2>1, <4>1 DEF MountsAnswered, Answered
    <3> QED
      BY <3>1, <3>2
  <2>3. t # s
    BY <2>1, <2>2
  <2> QED
    BY <1>3, <1>4, <2>1, <2>2, <2>3
<1> QED
  BY <1>7, <1>8

\* Every step keeps the mounts answered for.
LEMMA NextMounts == IInv /\ MountsAnswered /\ [Next]_vars => MountsAnswered'
<1> SUFFICES ASSUME IInv, MountsAnswered, [Next]_vars
             PROVE  MountsAnswered'
  OBVIOUS
<1>1. CASE UNCHANGED vars
  BY <1>1, MountsUntouched DEF vars, procVars
<1>2. ASSUME NEW p \in Slot, Deposit(p) \/ Receive(p) \/ TakeBack(p) \/ Work(p)
      PROVE  MountsAnswered'
  BY <1>2, MountsUntouched DEF Deposit, Receive, TakeBack, Work, Progress
<1>3. ASSUME NEW p \in Slot, Exit(p)
      PROVE  MountsAnswered'
  BY <1>3, DestroyMounts DEF Exit
<1>4. ASSUME NEW p \in Slot, StartShell(p)
      PROVE  MountsAnswered'
  BY <1>4, StartShellMounts
<1>5. ASSUME NEW p \in Slot, NEW c \in Slot, Fork(p, c)
      PROVE  MountsAnswered'
  BY <1>5, ForkMounts
<1>6. CASE StartTick
  BY <1>6, MountsUntouched DEF StartTick
<1>7. ASSUME NEW s \in Service, LeaveAlone(s) \/ FindWell(s) \/ Suspect(s) \/ GiveUp(s)
      PROVE  MountsAnswered'
  BY <1>7, MountsUntouched DEF LeaveAlone, FindWell, Suspect, GiveUp, procVars
<1>8. ASSUME NEW s \in Service, CantRespawn(s)
      PROVE  MountsAnswered'
  <2>1. inst' = inst
    BY <1>8 DEF CantRespawn, Restored, IInv, TypeOK
  <2> QED
    BY <1>8, <2>1, MountsUntouched DEF CantRespawn, procVars
<1>9. ASSUME NEW s \in Service, KillWedged(s)
      PROVE  MountsAnswered'
  <2>1. inst' = inst /\ Up(s)
    BY <1>9 DEF KillWedged, Stalls, Watch
  <2>2. inst[s].pid \in Slot
    BY <2>1, UpSlot DEF IInv
  <2>3. CASE Destroy(inst[s].pid)
    BY <2>1, <2>2, <2>3, DestroyMounts
  <2>4. CASE UNCHANGED procVars
    BY <2>1, <2>4, MountsUntouched DEF procVars
  <2> QED
    BY <1>9, <2>3, <2>4 DEF KillWedged
<1>10. ASSUME NEW s \in Service, NEW c \in Slot, Respawn(s, c)
       PROVE  MountsAnswered'
  BY <1>10, RespawnMounts
<1> QED
  BY <1>1, <1>2, <1>3, <1>4, <1>5, <1>6, <1>7, <1>8, <1>9, <1>10 DEF Next, Attend

\* At boot every mount names the instance of its service.
LEMMA InitMounts == Init => MountsAnswered
<1> SUFFICES ASSUME Init, NEW p \in Slot, NEW s \in Service, ns[p][s].pid # 0
             PROVE  Answered(ns[p][s])
  BY DEF MountsAnswered
<1>1. ns[p][s] = [pid |-> s, gen |-> 1] /\ inst[s] = [pid |-> s, gen |-> 1]
  BY DEF Init, NoRef
<1> QED
  BY <1>1 DEF Answered

\* Reseating leaves no mount behind: whatever services died, in whatever order they
\* came back and into whatever slots, once all run every bound mount of every
\* process leads to a live one (reseat_namespace_mounts, seed_default_namespace).
THEOREM MountsFollow == Spec => []NoMountLeftBehind
<1>1. Init => IInv /\ MountsAnswered
  BY InitInv, InitMounts
<1>2. IInv /\ MountsAnswered /\ [Next]_vars => IInv' /\ MountsAnswered'
  BY NextInv, NextMounts
<1>3. ASSUME IInv, MountsAnswered PROVE NoMountLeftBehind
  <2> SUFFICES ASSUME \A s \in Service : Runs(s),
                      NEW p \in Slot, NEW s \in Service, Live(p), ns[p][s].pid # 0
               PROVE  Resolves(ns[p][s])
    BY DEF NoMountLeftBehind
  <2>1. \A t \in Service : Up(t)
    <3> TAKE t \in Service
    <3>1. PICK q \in Slot : prog[q] = t
      BY DEF Runs
    <3>2. inst[t] = [pid |-> q, gen |-> gen[q]]
      BY <1>3, <3>1 DEF IInv, TracksInstance
    <3> QED
      BY <3>1, <3>2, Numbers DEF Up, Resolves, Live
  <2>2. PICK t \in Service : inst[t].pid = ns[p][s].pid /\ (Up(t) => ns[p][s].gen = inst[t].gen)
    BY <1>3 DEF MountsAnswered, Answered
  <2> QED
    BY <2>1, <2>2 DEF Up, Resolves
<1> QED
  BY <1>1, <1>2, <1>3, PTL DEF Spec
=============================================================================
