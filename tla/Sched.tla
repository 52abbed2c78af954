-------------------------------- MODULE Sched --------------------------------
(***************************************************************************)
(* The scheduler on several harts: yield() and the context switch outside  *)
(* the giant lock, the on_hart mark that keeps a process on one hart,      *)
(* kills deferred to the hart a process runs on, exit, and the claim of a  *)
(* free slot for a new process (src/src/process.c3, smp.c3, syscalls.c3,   *)
(* entry.c3).                                                              *)
(*                                                                         *)
(* One action is what a hart does between two points at which the others   *)
(* can see its work: it takes or drops kernel_lock, or makes a store in    *)
(* the part of a switch that runs without the lock.  The mode of a hart:   *)
(*   "off"     a secondary hart that has not come up,                      *)
(*   "user"    in user mode; the idle context: in sched_idle_wait,         *)
(*   "kernel"  in the kernel, holding kernel_lock,                         *)
(*   "spin"    in proc_destroy, holding kernel_lock, until the target's    *)
(*             hart has switched away from it,                             *)
(*   "exit"    its process was just destroyed; the lock is held, yield()   *)
(*             comes next,                                                 *)
(*   "saving"  yield() has dropped the lock; switch_context comes next,    *)
(*   "after"   on the new stack, in front of sched_after_switch,           *)
(*   "fresh"   the same for a context that has never run (user_entry),     *)
(*   "relock"  back in the yield() of the new context, about to lock,      *)
(*   "breathe" in kernel_lock_breathe without the lock.                    *)
(***************************************************************************)
EXTENDS Integers

CONSTANTS
  Hart,     \* the harts that schedule
  Boot,     \* the boot hart
  NSlots,   \* number of process slots; a pid is a slot
  NBoot,    \* number of servers started at boot
  None,     \* no process: on a hart, the idle context
  MaxGen    \* bound: incarnations of a slot

Slot == 1 .. NSlots

ASSUME HartAssumption == Boot \in Hart /\ None \notin Hart /\ None \notin Slot
ASSUME SizeAssumption == NSlots \in Nat \ {0} /\ MaxGen \in Nat \ {0} /\ NBoot \in 0 .. NSlots

VARIABLES
  holder,   \* the hart that holds kernel_lock
  mode,     \* where each hart is
  cur,      \* Hart.current
  from,     \* Hart.switched_from
  run,      \* the process incarnation whose registers are on the hart
  victim,   \* the process a hart in "spin" destroys
  state,    \* Process.state
  gen,      \* Process.generation
  onHart,   \* Process.on_hart
  killed,   \* processes with kill_pending
  saved     \* Process.sp: the incarnation whose context it is, and whether that
            \* context has never run

hartVars == <<holder, mode, cur, from, run, victim>>
vars == <<holder, mode, cur, from, run, victim, state, gen, onHart, killed, saved>>

Modes == {"off", "user", "kernel", "spin", "exit", "saving", "after", "fresh",
          "relock", "breathe"}
Locked == {"kernel", "spin", "exit"}
States == {"unused", "runnable", "blocked"}
Context == [pid : Slot \cup {None}, gen : Nat]
Idle == [pid |-> None, gen |-> 0]

TypeOK ==
  /\ holder \in Hart \cup {None}
  /\ mode \in [Hart -> Modes]
  /\ cur \in [Hart -> Slot \cup {None}]
  /\ from \in [Hart -> Slot \cup {None}]
  /\ run \in [Hart -> Context]
  /\ victim \in [Hart -> Slot \cup {None}]
  /\ state \in [Slot -> States]
  /\ gen \in [Slot -> Nat]
  /\ onHart \in [Slot -> Hart \cup {None}]
  /\ killed \subseteq Slot
  /\ saved \in [Slot -> [gen : Nat, fresh : BOOLEAN]]

\* The end of kernel_main: the boot servers exist and have not run yet, the boot
\* hart is in its idle loop and holds the lock, the secondaries are to come.
Init ==
  /\ holder = Boot
  /\ mode = [h \in Hart |-> IF h = Boot THEN "kernel" ELSE "off"]
  /\ cur = [h \in Hart |-> None]
  /\ from = [h \in Hart |-> None]
  /\ run = [h \in Hart |-> Idle]
  /\ victim = [h \in Hart |-> None]
  /\ state = [p \in Slot |-> IF p <= NBoot THEN "runnable" ELSE "unused"]
  /\ gen = [p \in Slot |-> IF p <= NBoot THEN 1 ELSE 0]
  /\ onHart = [p \in Slot |-> None]
  /\ killed = {}
  /\ saved = [p \in Slot |-> [gen |-> gen[p], fresh |-> TRUE]]

(***************************************************************************)
(* yield()                                                                 *)
(***************************************************************************)
\* Mutant of Ready: the mark of another hart is not looked at.
ReadyUnmarked(p, h) == state[p] = "runnable"

\* What yield() on hart h may pick.
Ready(p, h) == state[p] = "runnable" /\ (onHart[p] = None \/ p = cur[h])

\* current_proc.pid, 0 for the idle context and for a process just destroyed.
CurPid(h) == IF cur[h] = None THEN 0
             ELSE IF state[cur[h]] = "unused" THEN 0 ELSE cur[h]

\* Mutant of Distance: the scan starts at the slot of the current process.
DistanceFromSelf(p, h) == (p - CurPid(h)) % NSlots

\* How far slot p is from the start of the scan of hart h.
Distance(p, h) == (p - CurPid(h) - 1) % NSlots

\* Round robin: the first slot that is ready, counting from the one after ours.
First(p, h) == /\ Ready(p, h)
               /\ \A q \in Slot : Ready(q, h) => Distance(p, h) <= Distance(q, h)

\* Mutant of SwitchTo: the mark of the process hart h leaves is cleared at once.
SwitchToEarly(h, n) ==
  /\ onHart' = [p \in Slot |-> IF p = n THEN h ELSE IF p = cur[h] THEN None ELSE onHart[p]]
  /\ cur' = [cur EXCEPT ![h] = n]
  /\ from' = [from EXCEPT ![h] = cur[h]]
  /\ holder' = None
  /\ mode' = [mode EXCEPT ![h] = "saving"]
  /\ UNCHANGED <<run, victim, state, gen, killed, saved>>

\* Hart h marks its next process, n, as its own and drops the lock.
SwitchTo(h, n) ==
  /\ onHart' = [p \in Slot |-> IF p = n THEN h ELSE onHart[p]]
  /\ cur' = [cur EXCEPT ![h] = n]
  /\ from' = [from EXCEPT ![h] = cur[h]]
  /\ holder' = None
  /\ mode' = [mode EXCEPT ![h] = "saving"]
  /\ UNCHANGED <<run, victim, state, gen, killed, saved>>

\* Nothing else to run: let another hart into the kernel (a lone hart goes on).
Breathe(h) ==
  /\ Hart # {h}
  /\ holder' = None
  /\ mode' = [mode EXCEPT ![h] = "breathe"]
  /\ UNCHANGED <<cur, from, run, victim, state, gen, onHart, killed, saved>>

Yield(h) ==
  /\ mode[h] \in {"kernel", "exit"}
  /\ \/ \E p \in Slot : First(p, h) /\ p # cur[h] /\ SwitchTo(h, p)
     \/ (\A p \in Slot : ~Ready(p, h)) /\ cur[h] # None /\ SwitchTo(h, None)
     \/ /\ \/ (\A p \in Slot : ~Ready(p, h)) /\ cur[h] = None
           \/ cur[h] # None /\ First(cur[h], h)
        /\ Breathe(h)

\* switch_context: the registers go to the slot we leave, the ones of the slot we
\* enter come in.
SwitchContext(h) ==
  /\ mode[h] = "saving"
  /\ saved' = [p \in Slot |-> IF p = from[h] THEN [gen |-> run[h].gen, fresh |-> FALSE]
                              ELSE saved[p]]
  /\ run' = [run EXCEPT ![h] = IF cur[h] = None THEN Idle
                               ELSE [pid |-> cur[h], gen |-> saved[cur[h]].gen]]
  /\ mode' = [mode EXCEPT ![h] = IF cur[h] # None /\ saved[cur[h]].fresh
                                 THEN "fresh" ELSE "after"]
  /\ UNCHANGED <<holder, cur, from, victim, state, gen, onHart, killed>>

\* The process hart h has switched away from loses its mark, if the mark is ours.
Unmark(h) == [p \in Slot |-> IF p = from[h] /\ p # cur[h] /\ onHart[p] = h THEN None
                             ELSE onHart[p]]

\* sched_after_switch, without the lock.  A context that has never run goes on to
\* user mode, any other into the rest of its yield().
AfterSwitch(h) ==
  /\ mode[h] \in {"fresh", "after"}
  /\ onHart' = Unmark(h)
  /\ from' = [from EXCEPT ![h] = None]
  /\ mode' = [mode EXCEPT ![h] = IF mode[h] = "fresh" THEN "user" ELSE "relock"]
  /\ UNCHANGED <<holder, cur, run, victim, state, gen, killed, saved>>

(***************************************************************************)
(* Into the kernel and out of it.                                          *)
(***************************************************************************)
\* Mutant of KillDue: a context that comes back from a switch is not checked.
KillDueInTraps(h) == cur[h] \in killed /\ mode[h] = "user"

\* sched_check_kill finds a deferred kill.
KillDue(h) == cur[h] \in killed

\* kernel_lock.acquire() of a trap, of yield() after a switch, of the lock breather,
\* of sched_idle_wait and of secondary_main, and the check for a deferred kill.
Enter(h) ==
  /\ mode[h] \in {"user", "relock", "breathe", "off"}
  /\ holder = None
  /\ holder' = h
  /\ \/ /\ ~KillDue(h)
        /\ mode' = [mode EXCEPT ![h] = "kernel"]
        /\ UNCHANGED <<state, killed>>
     \/ /\ KillDue(h)
        /\ mode' = [mode EXCEPT ![h] = "exit"]
        /\ state' = [state EXCEPT ![cur[h]] = "unused"]
        /\ killed' = killed \ {cur[h]}
  /\ UNCHANGED <<cur, from, run, victim, gen, onHart, saved>>

\* In the kernel, in a context that is not about to sleep.
Active(h) == mode[h] = "kernel" /\ (cur[h] # None => state[cur[h]] = "runnable")

\* Back to user mode; the idle context: sched_idle_wait.
Leave(h) ==
  /\ Active(h)
  /\ holder' = None
  /\ mode' = [mode EXCEPT ![h] = "user"]
  /\ UNCHANGED <<cur, from, run, victim, state, gen, onHart, killed, saved>>

(***************************************************************************)
(* What kernel code does to processes.                                     *)
(***************************************************************************)
\* A wait loop puts the current process to sleep; yield() comes next.
Block(h) ==
  /\ Active(h) /\ cur[h] # None
  /\ state' = [state EXCEPT ![cur[h]] = "blocked"]
  /\ UNCHANGED <<hartVars, gen, onHart, killed, saved>>

\* A deposit, an interrupt or a sweep of yield() wakes a process.
Wake(h, p) ==
  /\ mode[h] \in {"kernel", "exit"} /\ state[p] = "blocked"
  /\ state' = [state EXCEPT ![p] = "runnable"]
  /\ UNCHANGED <<hartVars, gen, onHart, killed, saved>>

\* sys_exit, a user fault or a fatal note: proc_destroy of the current process.
Exit(h) ==
  /\ Active(h) /\ cur[h] # None
  /\ state' = [state EXCEPT ![cur[h]] = "unused"]
  /\ mode' = [mode EXCEPT ![h] = "exit"]
  /\ UNCHANGED <<holder, cur, from, run, victim, gen, onHart, killed, saved>>

\* Mutant of Elsewhere: who is current on the other hart is not looked at.
ElsewhereNever(p, h) == FALSE

\* Process p belongs to another hart than h for now.
Elsewhere(p, h) == onHart[p] # None /\ onHart[p] # h

\* proc_destroy of another process: at once if no other hart has it, after a wait
\* if another hart is just switching away from it, and otherwise by a mark for the
\* hart that runs it.
Kill(h, p) ==
  /\ Active(h) /\ p # cur[h] /\ state[p] # "unused"
  /\ \/ /\ ~Elsewhere(p, h)
        /\ state' = [state EXCEPT ![p] = "unused"]
        /\ UNCHANGED <<mode, victim, killed>>
     \/ /\ Elsewhere(p, h) /\ cur[onHart[p]] = p
        /\ killed' = killed \cup {p}
        /\ UNCHANGED <<mode, victim, state>>
     \/ /\ Elsewhere(p, h) /\ cur[onHart[p]] # p
        /\ victim' = [victim EXCEPT ![h] = p]
        /\ mode' = [mode EXCEPT ![h] = "spin"]
        /\ UNCHANGED <<state, killed>>
  /\ UNCHANGED <<holder, cur, from, run, gen, onHart, saved>>

\* The end of the wait in proc_destroy.
SpinEnds(h) ==
  /\ mode[h] = "spin"
  /\ onHart[victim[h]] = None
  /\ state' = [state EXCEPT ![victim[h]] = "unused"]
  /\ mode' = [mode EXCEPT ![h] = "kernel"]
  /\ victim' = [victim EXCEPT ![h] = None]
  /\ UNCHANGED <<holder, cur, from, run, gen, onHart, killed, saved>>

\* create_process and sys_rfork: the first unused slot becomes a new process.
Create(h, p) ==
  /\ Active(h)
  /\ state[p] = "unused" /\ \A q \in Slot : q < p => state[q] # "unused"
  /\ gen[p] < MaxGen
  /\ state' = [state EXCEPT ![p] = "runnable"]
  /\ gen' = [gen EXCEPT ![p] = @ + 1]
  /\ onHart' = [onHart EXCEPT ![p] = None]
  /\ killed' = killed \ {p}
  /\ saved' = [saved EXCEPT ![p] = [gen |-> gen[p] + 1, fresh |-> TRUE]]
  /\ UNCHANGED hartVars

Next ==
  \E h \in Hart :
    \/ Yield(h) \/ SwitchContext(h) \/ AfterSwitch(h) \/ Enter(h) \/ Leave(h)
    \/ Block(h) \/ Exit(h) \/ SpinEnds(h)
    \/ \E p \in Slot : Wake(h, p) \/ Kill(h, p) \/ Create(h, p)

Spec == Init /\ [][Next]_vars

\* A hart does not stop in the middle of a switch or of kernel code; a hart that
\* keeps asking for kernel_lock gets it in the end; the timer tick makes every hart
\* yield again and again.
FairSpec ==
  /\ Spec
  /\ \A h \in Hart : /\ WF_vars(SwitchContext(h)) /\ WF_vars(AfterSwitch(h))
                     /\ WF_vars(SpinEnds(h)) /\ WF_vars(Leave(h))
                     /\ SF_vars(Enter(h)) /\ SF_vars(Yield(h))

(***************************************************************************)
(* Properties.                                                             *)
(***************************************************************************)
\* No process is the current one of two harts, through deferred kills, exits and
\* the reuse of a slot by a process that a third hart has picked already.
OneHart ==
  \A g, h \in Hart : g # h => (cur[g] = None \/ cur[g] # cur[h])

\* A process another hart may pick (it has no mark) is on no hart: its registers
\* are saved.
FreeIsSaved ==
  \A p \in Slot, h \in Hart :
    state[p] # "unused" /\ onHart[p] = None => run[h] # [pid |-> p, gen |-> gen[p]]

\* No address space is torn down under a hart that runs in it: a destroyed process
\* is on no hart but the one that has destroyed it and is on its way out of it.
NotFreedInUse ==
  \A p \in Slot, h \in Hart :
    run[h] = [pid |-> p, gen |-> gen[p]] /\ state[p] = "unused" =>
      mode[h] \in {"exit", "saving"}

\* A deferred kill is never lost: the process is on a hart that is to pass the check
\* for it.
KillIsNear ==
  \A p \in killed : state[p] # "unused" =>
    \E h \in Hart : cur[h] = p /\ mode[h] \notin Locked

\* What a hart runs for a process is a context of that very process.
OwnContext ==
  \A h \in Hart : cur[h] # None /\ mode[h] \notin {"saving", "exit"} =>
    run[h] = [pid |-> cur[h], gen |-> gen[cur[h]]]

\* A deferred kill takes effect.
KillTakesEffect == \A p \in Slot : (p \in killed) ~> (p \notin killed)

\* Round robin on every hart: a runnable process gets a hart.
RunnableRuns ==
  \A p \in Slot : (state[p] = "runnable") ~>
                  (state[p] # "runnable" \/ \E h \in Hart : cur[h] = p)
==============================================================================
