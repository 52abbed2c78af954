----------------------------- MODULE Supervisor -----------------------------
(***************************************************************************)
(* Supervision of the boot servers (src/src/supervisor.c3): the once a     *)
(* second tick that respawns dead servers and kills wedged ones, and the   *)
(* default namespace whose mounts name a server by slot and generation,    *)
(* are seeded by create_process, copied by rfork and re-pointed when a     *)
(* server is respawned into another slot.                                  *)
(*                                                                         *)
(* supervisor_tick runs under kernel_lock from start to end.  It is one    *)
(* step per service here, in the order of the table, and the programs      *)
(* move only between ticks (turn = 0).                                     *)
(***************************************************************************)
EXTENDS Integers

CONSTANTS
  NServices,     \* boot servers, in the order of the service table
  NSlots,        \* process slots; a pid is a slot
  Watched,       \* services with watch_hangs
  Mounted,       \* services with a mount_prefix
  RestartLimit,  \* SVC_RESTART_LIMIT
  StallLimit,    \* SVC_STALL_LIMIT
  MaxGen         \* bound: incarnations of a slot that user programs may use up

Service == 1 .. NServices
Slot == 1 .. NSlots

\* The programs in the process table: a service, a user program, or nothing.
User == 0
Unused == -1

ASSUME SizeAssumption == NServices \in Nat \ {0} /\ NSlots \in Nat /\ NSlots > NServices
ASSUME LimitAssumption == RestartLimit \in Nat /\ StallLimit \in Nat \ {0} /\ MaxGen \in Nat
ASSUME WatchedAssumption == Watched \subseteq Service
ASSUME MountedAssumption == Mounted \subseteq Service

VARIABLES
  prog,      \* what runs in each slot
  gen,       \* Process.generation
  full,      \* processes of watched services with has_message
  ns,        \* Process.namespace: the mount at the prefix of each service
  inst,      \* Service.pid, Service.generation
  restarts,  \* Service.restarts
  givenUp,   \* services with given_up
  ready,     \* services with ever_ready
  stall,     \* Service.stall_ticks
  moved,     \* services whose ipc_progress is not their last_progress
  shell,     \* the console shell that kernel_main looks after
  turn,      \* the service supervisor_tick is at, 0 between ticks
  quiet      \* history: ticks since a process of a watched service made progress
             \* or started, at most StallLimit

procVars == <<prog, gen, full, ns, quiet>>
watchVars == <<ready, stall, moved>>
vars == <<procVars, inst, restarts, givenUp, watchVars, shell, turn>>

Ref == [pid : 0 .. NSlots, gen : Nat]
NoRef == [pid |-> 0, gen |-> 0]

TypeOK ==
  /\ prog \in [Slot -> Service \cup {User, Unused}]
  /\ gen \in [Slot -> Nat]
  /\ full \subseteq Slot
  /\ ns \in [Slot -> [Service -> Ref]]
  /\ inst \in [Service -> Ref]
  /\ restarts \in [Service -> 0 .. RestartLimit]
  /\ givenUp \subseteq Service /\ ready \subseteq Service /\ moved \subseteq Service
  /\ stall \in [Service -> 0 .. StallLimit - 1]
  /\ shell \in Ref
  /\ turn \in 0 .. NServices
  /\ quiet \in [Slot -> 0 .. StallLimit]

Live(p) == prog[p] # Unused

\* The instance a reference was taken of is still there (the test of SYS_NS_RESOLVE
\* and of the tick: proc_by_pid, then the generation).
Resolves(r) == r.pid # 0 /\ Live(r.pid) /\ gen[r.pid] = r.gen

\* Mutant of Up: the generation is not compared.
UpBySlot(s) == inst[s].pid # 0 /\ Live(inst[s].pid)

Up(s) == Resolves(inst[s])

\* mount_generation
GenOf(pid) == IF pid # 0 /\ Live(pid) THEN gen[pid] ELSE 0

\* seed_default_namespace, while service s (0: none) is being instantiated.  A
\* namespace has as many entries (NS_MOUNTS_MAX) as there can be services (SVC_MAX).
Seed(s) == [t \in Service |-> IF t \notin Mounted \/ t = s \/ inst[t].pid = 0 THEN NoRef
                              ELSE [pid |-> inst[t].pid, gen |-> GenOf(inst[t].pid)]]

\* The end of kernel_main: the services in the first slots, each with mounts for those
\* that were there before it, then the shell.
Init ==
  /\ prog = [p \in Slot |-> IF p \in Service THEN p ELSE
                            IF p = NServices + 1 THEN User ELSE Unused]
  /\ gen = [p \in Slot |-> IF p <= NServices + 1 THEN 1 ELSE 0]
  /\ full = {}
  /\ ns = [p \in Slot |-> [s \in Service |->
             IF s \in Mounted /\ s < p /\ p <= NServices + 1 THEN [pid |-> s, gen |-> 1] ELSE NoRef]]
  /\ inst = [s \in Service |-> [pid |-> s, gen |-> 1]]
  /\ restarts = [s \in Service |-> 0]
  /\ givenUp = {} /\ ready = {} /\ moved = {}
  /\ stall = [s \in Service |-> 0]
  /\ shell = [pid |-> NServices + 1, gen |-> 1]
  /\ turn = 0
  /\ quiet = [p \in Slot |-> 0]

\* The slot create_process and rfork take: the first that is unused.
FirstFree(p) == ~Live(p) /\ \A q \in Slot : q < p => Live(q)

\* A process for program x in slot p, with namespace m.
Occupy(p, x, m) ==
  /\ prog' = [prog EXCEPT ![p] = x]
  /\ gen' = [gen EXCEPT ![p] = @ + 1]
  /\ full' = full \ {p}
  /\ quiet' = [quiet EXCEPT ![p] = 0]
  /\ ns' = m

\* proc_destroy.  Nothing reads the namespace of an unused slot: it is cleared here
\* to keep states apart only by what matters.
Destroy(p) ==
  /\ prog' = [prog EXCEPT ![p] = Unused]
  /\ full' = full \ {p}
  /\ ns' = [ns EXCEPT ![p] = [s \in Service |-> NoRef]]
  /\ quiet' = [quiet EXCEPT ![p] = 0]
  /\ gen' = gen

(***************************************************************************)
(* The programs.                                                           *)
(***************************************************************************)
\* A message is deposited in the inbox of process p, which the watchdog looks at.
Deposit(p) ==
  /\ turn = 0 /\ prog[p] \in Watched /\ p \notin full
  /\ full' = full \cup {p}
  /\ UNCHANGED <<prog, gen, ns, quiet, inst, restarts, givenUp, watchVars, shell, turn>>

\* ipc_progress of process p moves on, which the tick sees if p is a supervised
\* instance.
Progress(p) ==
  /\ moved' = moved \cup {s \in Service : Up(s) /\ inst[s].pid = p}
  /\ quiet' = [quiet EXCEPT ![p] = 0]
  /\ UNCHANGED <<prog, gen, ns, inst, restarts, givenUp, ready, stall, shell, turn>>

Receive(p) ==
  /\ turn = 0 /\ p \in full
  /\ full' = full \ {p}
  /\ Progress(p)

\* The message of process p is handed back (p starts a call) or taken back (its sender
\* has timed out): the inbox is empty and nothing has been done.
TakeBack(p) ==
  /\ turn = 0 /\ p \in full
  /\ full' = full \ {p}
  /\ UNCHANGED <<prog, gen, ns, quiet, inst, restarts, givenUp, watchVars, shell, turn>>

\* In the middle of a request, a call of p's own returns or its device completes.
Work(p) ==
  /\ turn = 0 /\ prog[p] \in Watched
  /\ full' = full
  /\ Progress(p)

\* Process p exits, faults or is killed.
Exit(p) ==
  /\ turn = 0 /\ Live(p)
  /\ Destroy(p)
  /\ UNCHANGED <<inst, restarts, givenUp, watchVars, shell, turn>>

\* rfork: the child is user work and has a copy of its parent's namespace.
Fork(p, c) ==
  /\ turn = 0 /\ Live(p) /\ FirstFree(c) /\ gen[c] < MaxGen
  /\ Occupy(c, User, [ns EXCEPT ![c] = ns[p]])
  /\ UNCHANGED <<inst, restarts, givenUp, watchVars, shell, turn>>

\* The idle loop of kernel_main starts a new console shell.
StartShell(c) ==
  /\ turn = 0 /\ ~Resolves(shell) /\ FirstFree(c) /\ gen[c] < MaxGen
  /\ Occupy(c, User, [ns EXCEPT ![c] = Seed(0)])
  /\ shell' = [pid |-> c, gen |-> gen[c] + 1]
  /\ UNCHANGED <<inst, restarts, givenUp, watchVars, turn>>

(***************************************************************************)
(* supervisor_tick                                                         *)
(***************************************************************************)
StartTick ==
  /\ turn = 0
  /\ turn' = 1
  /\ quiet' = [p \in Slot |-> IF prog[p] \in Watched /\ quiet[p] < StallLimit
                              THEN quiet[p] + 1 ELSE quiet[p]]
  /\ UNCHANGED <<prog, gen, full, ns, inst, restarts, givenUp, watchVars, shell>>

Continue(s) == turn = s /\ turn' = IF s = NServices THEN 0 ELSE s + 1

\* A service that needs nothing: given up, not watched, or with a message from before
\* it was ever seen with an empty inbox.
LeaveAlone(s) ==
  /\ Continue(s)
  /\ s \in givenUp \/ (Up(s) /\ (s \notin Watched \/ (inst[s].pid \in full /\ s \notin ready)))
  /\ UNCHANGED <<procVars, inst, restarts, givenUp, watchVars, shell>>

\* A live service that is watched.
Watch(s) == Continue(s) /\ s \notin givenUp /\ Up(s) /\ s \in Watched

\* Mutant of Idles: progress since the last tick is not looked at.
IdlesUnread(s) == inst[s].pid \notin full

\* The server has read its inbox, or made progress since the last tick: not wedged.
Idles(s) == inst[s].pid \notin full \/ (s \in ready /\ s \in moved)

FindWell(s) ==
  /\ Watch(s) /\ Idles(s)
  /\ ready' = ready \cup {s}
  /\ stall' = [stall EXCEPT ![s] = 0]
  /\ moved' = moved \ {s}
  /\ UNCHANGED <<procVars, inst, restarts, givenUp, shell>>

\* A watched service with an unread message and no progress since the last tick.
Stalls(s) == Watch(s) /\ s \in ready /\ ~Idles(s)

\* The count of stalled ticks is still under the limit.
Waits(s) == stall[s] + 1 < StallLimit

Suspect(s) ==
  /\ Stalls(s) /\ Waits(s)
  /\ stall' = [stall EXCEPT ![s] = @ + 1]
  /\ UNCHANGED <<procVars, inst, restarts, givenUp, ready, moved, shell>>

\* The watchdog kills a wedged service, or marks it for the hart it runs on.
KillWedged(s) ==
  /\ Stalls(s) /\ ~Waits(s)
  /\ stall' = [stall EXCEPT ![s] = 0]
  /\ \/ Destroy(inst[s].pid)
     \/ UNCHANGED procVars
  /\ UNCHANGED <<inst, restarts, givenUp, ready, moved, shell>>

Dead(s) == Continue(s) /\ s \notin givenUp /\ ~Up(s)

GiveUp(s) ==
  /\ Dead(s) /\ restarts[s] >= RestartLimit
  /\ givenUp' = givenUp \cup {s}
  /\ UNCHANGED <<procVars, inst, restarts, watchVars, shell>>

\* reseat_namespace_mounts: the mounts that name slot old, in the namespaces m of the
\* live processes and of the new one in slot c, are re-pointed to that one.
Reseat(m, old, c) ==
  [p \in Slot |-> IF old = 0 \/ ~(Live(p) \/ p = c) THEN m[p] ELSE
     [t \in Service |-> IF m[p][t].pid = old THEN [pid |-> c, gen |-> gen[c] + 1]
                        ELSE m[p][t]]]

\* Mutant of Instance: the generation of the new process is not noted.
InstanceOldGen(s, c) == [pid |-> c, gen |-> inst[s].gen]

\* What service_instantiate notes of the new process in slot c.
Instance(s, c) == [pid |-> c, gen |-> gen[c] + 1]

Respawn(s, c) ==
  /\ Dead(s) /\ restarts[s] < RestartLimit /\ FirstFree(c)
  /\ Occupy(c, s, Reseat([ns EXCEPT ![c] = Seed(s)], inst[s].pid, c))
  /\ inst' = [inst EXCEPT ![s] = Instance(s, c)]
  /\ restarts' = [restarts EXCEPT ![s] = @ + 1]
  /\ ready' = ready \ {s}
  /\ stall' = [stall EXCEPT ![s] = 0]
  /\ moved' = moved \ {s}
  /\ UNCHANGED <<givenUp, shell>>

\* Mutant of Restored: the old pid is not put back.
RestoredNot(s) == [pid |-> 0, gen |-> inst[s].gen]

\* supervisor_spawn puts the old pid back when there is no process.
Restored(s) == inst[s]

\* No slot, or not enough memory: left for the next tick.
CantRespawn(s) ==
  /\ Dead(s) /\ restarts[s] < RestartLimit
  /\ inst' = [inst EXCEPT ![s] = Restored(s)]
  /\ UNCHANGED <<procVars, restarts, givenUp, watchVars, shell>>

Attend(s) == \/ LeaveAlone(s) \/ FindWell(s) \/ Suspect(s) \/ KillWedged(s)
             \/ GiveUp(s) \/ CantRespawn(s)
             \/ \E c \in Slot : Respawn(s, c)

Next ==
  \/ \E p \in Slot : \/ Deposit(p) \/ Receive(p) \/ TakeBack(p) \/ Work(p)
                     \/ Exit(p) \/ StartShell(p)
                     \/ \E c \in Slot : Fork(p, c)
  \/ StartTick
  \/ \E s \in Service : Attend(s)

Spec == Init /\ [][Next]_vars

\* The timer goes off again and again and a tick comes to its end; a shortage of
\* memory does not last for ever.
FairSpec ==
  /\ Spec
  /\ WF_vars(StartTick)
  /\ \A s \in Service : /\ WF_vars(Attend(s))
                        /\ SF_vars(\E c \in Slot : Respawn(s, c))

(***************************************************************************)
(* Properties.                                                             *)
(***************************************************************************)
\* The supervisor never loses an instance: whatever runs a service's program is the
\* instance its entry names, so there is never a second one.
TracksInstance ==
  \A p \in Slot : prog[p] \in Service =>
    inst[prog[p]] = [pid |-> p, gen |-> gen[p]] /\ prog[p] \notin givenUp

\* Some process runs service s.
Runs(s) == \E p \in Slot : prog[p] = s

\* Reseating leaves no mount behind: once all services are up, a mount that was ever
\* bound leads to a live process, in every namespace seeded, copied or re-pointed
\* while services were down.
NoMountLeftBehind ==
  turn = 0 /\ (\A s \in Service : Runs(s)) =>
    \A p \in Slot, s \in Service : Live(p) /\ ns[p][s].pid # 0 => Resolves(ns[p][s])

\* The watchdog is patient: a process it kills has an unread message and has been
\* there without any progress for StallLimit ticks.
WatchdogIsPatient ==
  [][\A p \in Slot : turn # 0 /\ Live(p) /\ ~Live(p)' =>
       quiet[p] >= StallLimit /\ p \in full]_vars

\* If slots do not run out for good, a dead service comes back or is given up.
DeadComesBack ==
  (<>[](\E p \in Slot : ~Live(p))) =>
    \A s \in Service : []<>(Runs(s) \/ s \in givenUp)
=============================================================================
