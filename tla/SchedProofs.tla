----------------------------- MODULE SchedProofs -----------------------------
(***************************************************************************)
(* Proofs about Sched, for any number of harts and of process slots.       *)
(***************************************************************************)
EXTENDS Sched, TLAPS

\* kernel_lock excludes: the hart that holds it is the one in the kernel.
Mutex == \A h \in Hart : holder = h <=> mode[h] \in Locked

\* The current process of a hart carries the hart's mark.
Mark == \A h \in Hart : cur[h] # None => onHart[cur[h]] = h

\* The current process of a hart exists, unless the hart has just destroyed it.
LiveCur == \A h \in Hart : cur[h] # None /\ mode[h] # "exit" => state[cur[h]] # "unused"

\* A hart waits in proc_destroy for a process.
Victim == \A h \in Hart : mode[h] = "spin" => victim[h] \in Slot

\* The registers of a hart are those of its current process, and of the process it
\* leaves until switch_context has saved them.
RunCur == \A h \in Hart : run[h].pid = IF mode[h] = "saving" THEN from[h] ELSE cur[h]

\* No context is younger than its slot.
Gens == /\ \A p \in Slot : saved[p].gen <= gen[p]
        /\ \A h \in Hart : run[h].pid # None => run[h].gen <= gen[run[h].pid]

\* A process that is being left keeps the mark until its registers are saved.
Leaving ==
  \A h \in Hart :
    mode[h] = "saving" /\ from[h] # None /\ run[h].gen = gen[from[h]] =>
      onHart[from[h]] = h

IInv == /\ TypeOK /\ Mutex /\ Mark /\ LiveCur /\ Victim /\ RunCur /\ Gens /\ Leaving
        /\ KillIsNear

(***************************************************************************)
(* The initial states.                                                     *)
(***************************************************************************)
\* At the end of kernel_main no hart runs a process and the boot hart has the lock.
LEMMA InitInv == Init => IInv
<1> SUFFICES ASSUME Init PROVE IInv
  OBVIOUS
<1> USE HartAssumption DEF Init
<1>1. TypeOK
  BY DEF TypeOK, Context, Idle, Modes, States
<1>2. Mutex /\ Mark /\ LiveCur /\ Victim /\ RunCur /\ Leaving
  BY DEF Mutex, Mark, LiveCur, Victim, RunCur, Leaving, Locked, Idle
<1>3. Gens /\ KillIsNear
  BY DEF Gens, KillIsNear, Idle
<1> QED
  BY <1>1, <1>2, <1>3 DEF IInv

(***************************************************************************)
(* One lemma per action.                                                   *)
(***************************************************************************)
\* yield() marks a process no hart has, and drops the lock with the registers unsaved.
LEMMA SwitchToInv ==
  ASSUME IInv, NEW h \in Hart, NEW n \in Slot \cup {None}, mode[h] \in {"kernel", "exit"},
         n # None => state[n] = "runnable" /\ onHart[n] = None, SwitchTo(h, n)
  PROVE  IInv'
<1> USE HartAssumption DEF SwitchTo
<1> TypeOK /\ Mutex /\ Mark /\ LiveCur /\ Victim /\ RunCur /\ Gens /\ Leaving /\ KillIsNear
  BY DEF IInv
<1>1. TypeOK'
  BY DEF TypeOK, Context, Idle, Modes, States
<1>2. Mutex'
  BY DEF TypeOK, Mutex, Locked
<1>3. Mark'
  BY DEF TypeOK, Mark
<1>4. LiveCur'
  BY DEF TypeOK, LiveCur, Mark, Mutex, Locked
<1>5. Victim'
  BY DEF TypeOK, Victim
<1>6. RunCur'
  BY DEF TypeOK, RunCur
<1>7. Gens'
  BY DEF TypeOK, Gens
<1>8. Leaving'
  BY DEF TypeOK, Leaving, RunCur, Gens, Mark
<1>9. KillIsNear'
  BY DEF TypeOK, KillIsNear, Mutex, Locked
<1> QED
  BY <1>1, <1>2, <1>3, <1>4, <1>5, <1>6, <1>7, <1>8, <1>9 DEF IInv

\* The lock breather only drops the lock.
LEMMA BreatheInv ==
  ASSUME IInv, NEW h \in Hart, mode[h] \in {"kernel", "exit"},
         cur[h] # None => state[cur[h]] = "runnable", Breathe(h)
  PROVE  IInv'
<1> USE HartAssumption DEF Breathe
<1> TypeOK /\ Mutex /\ Mark /\ LiveCur /\ Victim /\ RunCur /\ Gens /\ Leaving /\ KillIsNear
  BY DEF IInv
<1>1. TypeOK'
  BY DEF TypeOK, Context, Idle, Modes, States
<1>2. Mutex'
  BY DEF TypeOK, Mutex, Locked
<1>3. Mark'
  BY DEF TypeOK, Mark
<1>4. LiveCur'
  BY DEF TypeOK, LiveCur, Mark, Mutex, Locked
<1>5. Victim'
  BY DEF TypeOK, Victim
<1>6. RunCur'
  BY DEF TypeOK, RunCur
<1>7. Gens'
  BY DEF TypeOK, Gens
<1>8. Leaving'
  BY DEF TypeOK, Leaving, RunCur, Gens
<1>9. KillIsNear'
  BY DEF TypeOK, KillIsNear, Mutex, Locked
<1> QED
  BY <1>1, <1>2, <1>3, <1>4, <1>5, <1>6, <1>7, <1>8, <1>9 DEF IInv

\* switch_context moves registers between hart and slots.
LEMMA SwitchContextInv ==
  ASSUME IInv, NEW h \in Hart, SwitchContext(h)
  PROVE  IInv'
<1> USE HartAssumption DEF SwitchContext
<1> TypeOK /\ Mutex /\ Mark /\ LiveCur /\ Victim /\ RunCur /\ Gens /\ Leaving /\ KillIsNear
  BY DEF IInv
<1>1. TypeOK'
  BY DEF TypeOK, Context, Idle, Modes, States
<1>2. Mutex'
  BY DEF TypeOK, Context, Idle, Mutex, Locked
<1>3. Mark'
  BY DEF TypeOK, Context, Idle, Mark
<1>4. LiveCur'
  BY DEF TypeOK, Context, Idle, LiveCur, Mark, Mutex, Locked
<1>5. Victim'
  BY DEF TypeOK, Context, Idle, Victim
<1>6. RunCur'
  BY DEF TypeOK, Context, Idle, RunCur
<1>7. Gens'
  BY DEF TypeOK, Context, Idle, Gens, RunCur
<1>8. Leaving'
  BY DEF TypeOK, Context, Idle, Leaving, RunCur, Gens
<1>9. KillIsNear'
  BY DEF TypeOK, Context, Idle, KillIsNear, Mutex, Locked
<1> QED
  BY <1>1, <1>2, <1>3, <1>4, <1>5, <1>6, <1>7, <1>8, <1>9 DEF IInv

\* sched_after_switch clears no mark but its own hart's.
LEMMA AfterSwitchInv ==
  ASSUME IInv, NEW h \in Hart, AfterSwitch(h)
  PROVE  IInv'
<1> USE HartAssumption DEF AfterSwitch, Unmark
<1> TypeOK /\ Mutex /\ Mark /\ LiveCur /\ Victim /\ RunCur /\ Gens /\ Leaving /\ KillIsNear
  BY DEF IInv
<1>1. TypeOK'
  BY DEF TypeOK, Context, Idle, Modes, States
<1>2. Mutex'
  BY DEF TypeOK, Mutex, Locked
<1>3. Mark'
  BY DEF TypeOK, Mark
<1>4. LiveCur'
  BY DEF TypeOK, LiveCur, Mark, Mutex, Locked
<1>5. Victim'
  BY DEF TypeOK, Victim
<1>6. RunCur'
  BY DEF TypeOK, RunCur
<1>7. Gens'
  BY DEF TypeOK, Gens
<1>8. Leaving'
  BY DEF TypeOK, Leaving, RunCur, Gens
<1>9. KillIsNear'
  BY DEF TypeOK, KillIsNear, Mutex, Locked
<1> QED
  BY <1>1, <1>2, <1>3, <1>4, <1>5, <1>6, <1>7, <1>8, <1>9 DEF IInv

\* Taking the lock, and the deferred kill.
LEMMA EnterInv ==
  ASSUME IInv, NEW h \in Hart, Enter(h)
  PROVE  IInv'
<1> USE HartAssumption DEF Enter, KillDue
<1> TypeOK /\ Mutex /\ Mark /\ LiveCur /\ Victim /\ RunCur /\ Gens /\ Leaving /\ KillIsNear
  BY DEF IInv
<1>1. TypeOK'
  BY DEF TypeOK, Context, Idle, Modes, States
<1>2. Mutex'
  BY DEF TypeOK, Mutex, Locked
<1>3. Mark'
  BY DEF TypeOK, Mark
<1>4. LiveCur'
  BY DEF TypeOK, LiveCur, Mark, Mutex, Locked
<1>5. Victim'
  BY DEF TypeOK, Victim
<1>6. RunCur'
  BY DEF TypeOK, RunCur
<1>7. Gens'
  BY DEF TypeOK, Gens
<1>8. Leaving'
  BY DEF TypeOK, Leaving, RunCur, Gens
<1>9. KillIsNear'
  BY DEF TypeOK, KillIsNear, Mutex, Locked
<1> QED
  BY <1>1, <1>2, <1>3, <1>4, <1>5, <1>6, <1>7, <1>8, <1>9 DEF IInv

\* The way back to user mode.
LEMMA LeaveInv ==
  ASSUME IInv, NEW h \in Hart, Leave(h)
  PROVE  IInv'
<1> USE HartAssumption DEF Leave, Active
<1> TypeOK /\ Mutex /\ Mark /\ LiveCur /\ Victim /\ RunCur /\ Gens /\ Leaving /\ KillIsNear
  BY DEF IInv
<1>1. TypeOK'
  BY DEF TypeOK, Context, Idle, Modes, States
<1>2. Mutex'
  BY DEF TypeOK, Mutex, Locked
<1>3. Mark'
  BY DEF TypeOK, Mark
<1>4. LiveCur'
  BY DEF TypeOK, LiveCur, Mark, Mutex, Locked
<1>5. Victim'
  BY DEF TypeOK, Victim
<1>6. RunCur'
  BY DEF TypeOK, RunCur
<1>7. Gens'
  BY DEF TypeOK, Gens
<1>8. Leaving'
  BY DEF TypeOK, Leaving, RunCur, Gens
<1>9. KillIsNear'
  BY DEF TypeOK, KillIsNear, Mutex, Locked
<1> QED
  BY <1>1, <1>2, <1>3, <1>4, <1>5, <1>6, <1>7, <1>8, <1>9 DEF IInv

\* Going to sleep leaves the process with its hart.
LEMMA BlockInv ==
  ASSUME IInv, NEW h \in Hart, Block(h)
  PROVE  IInv'
<1> USE HartAssumption DEF Block, Active, hartVars
<1> TypeOK /\ Mutex /\ Mark /\ LiveCur /\ Victim /\ RunCur /\ Gens /\ Leaving /\ KillIsNear
  BY DEF IInv
<1>1. TypeOK'
  BY DEF TypeOK, Context, Idle, Modes, States
<1>2. Mutex'
  BY DEF TypeOK, Mutex, Locked
<1>3. Mark'
  BY DEF TypeOK, Mark
<1>4. LiveCur'
  BY DEF TypeOK, LiveCur, Mark, Mutex, Locked
<1>5. Victim'
  BY DEF TypeOK, Victim
<1>6. RunCur'
  BY DEF TypeOK, RunCur
<1>7. Gens'
  BY DEF TypeOK, Gens
<1>8. Leaving'
  BY DEF TypeOK, Leaving, RunCur, Gens
<1>9. KillIsNear'
  BY DEF TypeOK, KillIsNear, Mutex, Locked
<1> QED
  BY <1>1, <1>2, <1>3, <1>4, <1>5, <1>6, <1>7, <1>8, <1>9 DEF IInv

\* A wakeup makes a process runnable and moves nothing.
LEMMA WakeInv ==
  ASSUME IInv, NEW h \in Hart, NEW p \in Slot, Wake(h, p)
  PROVE  IInv'
<1> USE HartAssumption DEF Wake, hartVars
<1> TypeOK /\ Mutex /\ Mark /\ LiveCur /\ Victim /\ RunCur /\ Gens /\ Leaving /\ KillIsNear
  BY DEF IInv
<1>1. TypeOK'
  BY DEF TypeOK, Context, Idle, Modes, States
<1>2. Mutex'
  BY DEF TypeOK, Mutex, Locked
<1>3. Mark'
  BY DEF TypeOK, Mark
<1>4. LiveCur'
  BY DEF TypeOK, LiveCur, Mark, Mutex, Locked
<1>5. Victim'
  BY DEF TypeOK, Victim
<1>6. RunCur'
  BY DEF TypeOK, RunCur
<1>7. Gens'
  BY DEF TypeOK, Gens
<1>8. Leaving'
  BY DEF TypeOK, Leaving, RunCur, Gens
<1>9. KillIsNear'
  BY DEF TypeOK, KillIsNear, Mutex, Locked
<1> QED
  BY <1>1, <1>2, <1>3, <1>4, <1>5, <1>6, <1>7, <1>8, <1>9 DEF IInv

\* A process that destroys itself.
LEMMA ExitInv ==
  ASSUME IInv, NEW h \in Hart, Exit(h)
  PROVE  IInv'
<1> USE HartAssumption DEF Exit, Active
<1> TypeOK /\ Mutex /\ Mark /\ LiveCur /\ Victim /\ RunCur /\ Gens /\ Leaving /\ KillIsNear
  BY DEF IInv
<1>1. TypeOK'
  BY DEF TypeOK, Context, Idle, Modes, States
<1>2. Mutex'
  BY DEF TypeOK, Mutex, Locked
<1>3. Mark'
  BY DEF TypeOK, Mark
<1>4. LiveCur'
  BY DEF TypeOK, LiveCur, Mark, Mutex, Locked
<1>5. Victim'
  BY DEF TypeOK, Victim
<1>6. RunCur'
  BY DEF TypeOK, RunCur
<1>7. Gens'
  BY DEF TypeOK, Gens
<1>8. Leaving'
  BY DEF TypeOK, Leaving, RunCur, Gens
<1>9. KillIsNear'
  BY DEF TypeOK, KillIsNear, Mutex, Locked
<1> QED
  BY <1>1, <1>2, <1>3, <1>4, <1>5, <1>6, <1>7, <1>8, <1>9 DEF IInv

\* The three ways of proc_destroy with another process.
LEMMA KillInv ==
  ASSUME IInv, NEW h \in Hart, NEW p \in Slot, Kill(h, p)
  PROVE  IInv'
<1> USE HartAssumption DEF Kill, Active, Elsewhere
<1> TypeOK /\ Mutex /\ Mark /\ LiveCur /\ Victim /\ RunCur /\ Gens /\ Leaving /\ KillIsNear
  BY DEF IInv
<1>1. TypeOK'
  <2>1. killed' \subseteq Slot
    BY DEF TypeOK
  <2>2. mode' \in [Hart -> Modes]
    BY DEF TypeOK, Modes
  <2>3. victim' \in [Hart -> Slot \cup {None}]
    BY DEF TypeOK
  <2>4. state' \in [Slot -> States]
    BY DEF TypeOK, States
  <2> QED
    BY <2>1, <2>2, <2>3, <2>4 DEF TypeOK
<1>2. Mutex'
  BY DEF TypeOK, Mutex, Locked
<1>3. Mark'
  BY DEF TypeOK, Mark
<1>4. LiveCur'
  BY DEF TypeOK, LiveCur, Mark, Mutex, Locked
<1>5. Victim'
  BY DEF TypeOK, Victim
<1>6. RunCur'
  BY DEF TypeOK, RunCur
<1>7. Gens'
  BY DEF TypeOK, Gens
<1>8. Leaving'
  BY DEF TypeOK, Leaving, RunCur, Gens
<1>9. KillIsNear'
  BY DEF TypeOK, KillIsNear, Mutex, Locked
<1> QED
  BY <1>1, <1>2, <1>3, <1>4, <1>5, <1>6, <1>7, <1>8, <1>9 DEF IInv

\* The wait of proc_destroy ends with the target on no hart.
LEMMA SpinEndsInv ==
  ASSUME IInv, NEW h \in Hart, SpinEnds(h)
  PROVE  IInv'
<1> USE HartAssumption DEF SpinEnds
<1> TypeOK /\ Mutex /\ Mark /\ LiveCur /\ Victim /\ RunCur /\ Gens /\ Leaving /\ KillIsNear
  BY DEF IInv
<1>1. TypeOK'
  BY DEF TypeOK, Context, Idle, Modes, States, Victim
<1>2. Mutex'
  BY DEF TypeOK, Mutex, Locked
<1>3. Mark'
  BY DEF TypeOK, Mark
<1>4. LiveCur'
  BY DEF TypeOK, LiveCur, Mark, Mutex, Locked, Victim
<1>5. Victim'
  BY DEF TypeOK, Victim
<1>6. RunCur'
  BY DEF TypeOK, RunCur
<1>7. Gens'
  BY DEF TypeOK, Gens
<1>8. Leaving'
  BY DEF TypeOK, Leaving, RunCur, Gens
<1>9. KillIsNear'
  BY DEF TypeOK, KillIsNear, Mutex, Locked
<1> QED
  BY <1>1, <1>2, <1>3, <1>4, <1>5, <1>6, <1>7, <1>8, <1>9 DEF IInv

\* A new process takes a slot that is current on no hart.
LEMMA CreateInv ==
  ASSUME IInv, NEW h \in Hart, NEW p \in Slot, Create(h, p)
  PROVE  IInv'
<1> USE HartAssumption DEF Create, Active, hartVars
<1> TypeOK /\ Mutex /\ Mark /\ LiveCur /\ Victim /\ RunCur /\ Gens /\ Leaving /\ KillIsNear
  BY DEF IInv
<1>1. TypeOK'
  BY DEF TypeOK, Context, Idle, Modes, States
<1>2. Mutex'
  BY DEF TypeOK, Mutex, Locked
<1>3. Mark'
  BY DEF TypeOK, Mark, LiveCur, Mutex, Locked
<1>4. LiveCur'
  BY DEF TypeOK, LiveCur, Mark, Mutex, Locked
<1>5. Victim'
  BY DEF TypeOK, Victim
<1>6. RunCur'
  BY DEF TypeOK, RunCur
<1>7. Gens'
  BY DEF TypeOK, Context, Gens
<1>8. Leaving'
  BY DEF TypeOK, Context, Leaving, RunCur, Gens
<1>9. KillIsNear'
  BY DEF TypeOK, KillIsNear, Mutex, Locked
<1> QED
  BY <1>1, <1>2, <1>3, <1>4, <1>5, <1>6, <1>7, <1>8, <1>9 DEF IInv

(***************************************************************************)
(* The theorems.                                                           *)
(***************************************************************************)
\* yield() ends in a switch to an unmarked runnable process or to the idle context,
\* or in the lock breather.
LEMMA YieldInv ==
  ASSUME IInv, NEW h \in Hart, Yield(h)
  PROVE  IInv'
<1>1. CASE \E p \in Slot : First(p, h) /\ p # cur[h] /\ SwitchTo(h, p)
  <2>1. PICK p \in Slot : First(p, h) /\ p # cur[h] /\ SwitchTo(h, p)
    BY <1>1
  <2>2. state[p] = "runnable" /\ onHart[p] = None
    BY <2>1 DEF First, Ready
  <2> QED
    BY <2>1, <2>2, SwitchToInv DEF Yield
<1>2. CASE SwitchTo(h, None)
  BY <1>2, SwitchToInv DEF Yield
<1>3. CASE Breathe(h) /\ (cur[h] # None => First(cur[h], h))
  BY <1>3, BreatheInv DEF Yield, First, Ready
<1> QED
  BY <1>1, <1>2, <1>3 DEF Yield

\* Steps that change nothing.
LEMMA StutterInv == IInv /\ UNCHANGED vars => IInv'
  BY DEF IInv, TypeOK, Mutex, Mark, LiveCur, Victim, RunCur, Gens, Leaving, KillIsNear,
         vars

\* Every step of every hart keeps the inductive invariant.
THEOREM Inductive == Spec => []IInv
<1>1. IInv /\ [Next]_vars => IInv'
  <2> SUFFICES ASSUME IInv, Next PROVE IInv'
    BY StutterInv
  <2>1. PICK h \in Hart :
          \/ Yield(h) \/ SwitchContext(h) \/ AfterSwitch(h) \/ Enter(h) \/ Leave(h)
          \/ Block(h) \/ Exit(h) \/ SpinEnds(h)
          \/ \E p \in Slot : Wake(h, p) \/ Kill(h, p) \/ Create(h, p)
    BY DEF Next
  <2>2. CASE Yield(h) \/ SwitchContext(h) \/ AfterSwitch(h) \/ Enter(h) \/ Leave(h)
    BY <2>2, YieldInv, SwitchContextInv, AfterSwitchInv, EnterInv, LeaveInv
  <2>3. CASE Block(h) \/ Exit(h) \/ SpinEnds(h)
    BY <2>3, BlockInv, ExitInv, SpinEndsInv
  <2>4. CASE \E p \in Slot : Wake(h, p) \/ Kill(h, p) \/ Create(h, p)
    BY <2>4, WakeInv, KillInv, CreateInv
  <2> QED
    BY <2>1, <2>2, <2>3, <2>4
<1> QED
  BY <1>1, InitInv, PTL DEF Spec

\* The state of the scheduler keeps its types.
THEOREM TypeCorrect == Spec => []TypeOK
<1>1. IInv => TypeOK
  BY DEF IInv
<1> QED
  BY <1>1, Inductive, PTL

\* No two harts ever have the same current process: yield() picks unmarked processes,
\* sched_after_switch clears its own marks, and a slot is reused only when it is
\* current nowhere.
THEOREM OneHartEach == Spec => []OneHart
<1>1. IInv => OneHart
  BY DEF IInv, OneHart, Mark, TypeOK
<1> QED
  BY <1>1, Inductive, PTL

\* A process yield() may hand to another hart is not in any hart's registers.
THEOREM SavedBeforeFree == Spec => []FreeIsSaved
<1>1. IInv => FreeIsSaved
  <2> SUFFICES ASSUME IInv, NEW p \in Slot, NEW h \in Hart, onHart[p] = None,
                      run[h] = [pid |-> p, gen |-> gen[p]]
               PROVE  FALSE
    BY DEF FreeIsSaved
  <2>1. run[h].pid = p /\ run[h].gen = gen[p]
    OBVIOUS
  <2>2. p # None /\ h # None
    BY HartAssumption
  <2>3. CASE mode[h] = "saving"
    BY <2>1, <2>2, <2>3 DEF IInv, RunCur, Leaving
  <2>4. CASE mode[h] # "saving"
    BY <2>1, <2>2, <2>4 DEF IInv, RunCur, Mark
  <2> QED
    BY <2>3, <2>4
<1> QED
  BY <1>1, Inductive, PTL

\* proc_destroy tears no address space down under a hart that goes on to run in it.
THEOREM NoFreeInUse == Spec => []NotFreedInUse
<1>1. IInv => NotFreedInUse
  <2> SUFFICES ASSUME IInv, NEW p \in Slot, NEW h \in Hart, state[p] = "unused",
                      run[h] = [pid |-> p, gen |-> gen[p]], mode[h] # "saving"
               PROVE  mode[h] = "exit"
    BY DEF NotFreedInUse
  <2>1. cur[h] = p /\ p # None
    BY HartAssumption DEF IInv, RunCur
  <2> QED
    BY <2>1 DEF IInv, LiveCur
<1> QED
  BY <1>1, Inductive, PTL

\* A deferred kill stays with a hart that is still to look for it.
THEOREM KillsKept == Spec => []KillIsNear
<1>1. IInv => KillIsNear
  BY DEF IInv
<1> QED
  BY <1>1, Inductive, PTL
==============================================================================
