------------------------------- MODULE Process -------------------------------
(****************************************************************************)
(* The process layer of the C library (rc_proc.c, rc_signal.c, exit.c and   *)
(* stdlib.c's atexit): fork, wait, exec, exit, system and signals, over the *)
(* kernel's rfork, join, exit records and notes.  The library keeps its     *)
(* state in the process's memory, which fork copies and exec throws away,   *)
(* and relies on the kernel to keep the rest.                               *)
(****************************************************************************)
EXTENDS Integers, Sequences, SequencesExt, FiniteSets

CONSTANTS
  Pid,        \* process slots, numbered from 1; 1 is the first process
  ChildMax,   \* RC_CHILD_MAX
  AtexitMax,  \* ATEXIT_MAX
  Records,    \* EXIT_RECORDS
  NNote,      \* notes that a process can have pending
  Code,       \* what programs pass to exit
  Hook,       \* kinds of atexit handlers: "plain", "adds" (one more), "exits"
  MaxGen,     \* times that a slot is used
  MaxOps      \* calls in a behaviour

ASSUME ConstantsOK ==
  /\ Pid = 1 .. Cardinality(Pid) /\ 1 \in Pid
  /\ {ChildMax, AtexitMax, Records, NNote, MaxGen, MaxOps} \subseteq Nat /\ Records > 0 /\ MaxGen > 0
  /\ Code \subseteq Int /\ Hook \subseteq {"plain", "adds", "exits"}

Sig == {"INT", "KILL", "TERM"}

VARIABLES
  proc,    \* proc[i]: the process in slot i, its library's state included
  ring,    \* the kernel's exit records
  next,    \* the record to overwrite next
  ops,     \* calls so far
  ended,   \* who ended, and how, in order                      (history)
  born,    \* who is whose child                                (history)
  forgot   \* children that their parent's library lost         (history)

kernel == <<ring, next>>
history == <<ended, born, forgot>>
vars == <<proc, ring, next, ops, ended, born, forgot>>

NoRec == [pid |-> 0, gen |-> 0, code |-> 0]
Default == [h |-> "dfl", reset |-> FALSE, runs |-> 0]
Nothing == [fn |-> "none"]

\* What the library has in a fresh image.  Handlers of exit are numbered as
\* they are registered; `ran` tells which ran, and how many there were then,
\* and `runs` how often a signal's handler ran (history).
FreshLib ==
  [kids |-> <<>>, sa |-> [s \in Sig |-> Default], notify |-> FALSE, hooks |-> <<>>, made |-> 0, ran |-> <<>>]

Init ==
  /\ proc = [i \in Pid |->
       [live |-> i = 1, gen |-> IF i = 1 THEN 1 ELSE 0, parent |-> 0, notes |-> <<>>, handler |-> FALSE,
        insig |-> "none", lib |-> FreshLib, pc |-> Nothing, ret |-> Nothing]]
  /\ ring = [i \in 0 .. Records - 1 |-> NoRec]
  /\ next = 0
  /\ ops = 0
  /\ ended = <<>> /\ born = {} /\ forgot = {}

Id(i) == [pid |-> i, gen |-> proc[i].gen]
\* p is inside function f, and in no handler of a signal.
Inside(p, f) == proc[p].live /\ proc[p].pc.fn = f /\ proc[p].insig = "none"
\* p calls a function of the library from its program.
Calls(p) == Inside(p, "none") /\ ops < MaxOps /\ ops' = ops + 1
Becomes(p, x) == proc' = [proc EXCEPT ![p] = x]
-----------------------------------------------------------------------------
(* The kernel's part.                                                        *)

\* proc_record_exit: only failures of somebody's child are recorded.
RecordExit(i, code) ==
  IF proc[i].parent = 0 \/ code = 0 THEN UNCHANGED kernel
  ELSE /\ ring' = [ring EXCEPT ![next] = [pid |-> i, gen |-> proc[i].gen, code |-> code]]
       /\ next' = (next + 1) % Records

\* proc_destroy, as far as parents and children see it.
Destroy(i, code, how) ==
  /\ RecordExit(i, code)
  /\ Becomes(i, [proc[i] EXCEPT !.live = FALSE, !.notes = <<>>, !.pc = Nothing, !.ret = Nothing,
                                !.insig = "none", !.handler = FALSE, !.lib = FreshLib])
  /\ ended' = Append(ended, [id |-> Id(i), code |-> code, how |-> how,
                             ran |-> proc[i].lib.ran, made |-> proc[i].lib.made])
  /\ UNCHANGED <<born, forgot>>

\* Mutant of Recorded: the generation is not looked at.
RecordedSlot(id) == {i \in DOMAIN ring : ring[i].pid = id.pid}
\* proc_take_exit: the record found is used up.
Recorded(id) == {i \in DOMAIN ring : ring[i].pid = id.pid /\ ring[i].gen = id.gen}
TakenCode(id) == IF Recorded(id) = {} THEN 0 ELSE ring[CHOOSE i \in Recorded(id) : TRUE].code
TakeExit(id) == ring' = [i \in DOMAIN ring |-> IF i \in Recorded(id) THEN NoRec ELSE ring[i]]

Gone(id) == ~proc[id.pid].live \/ proc[id.pid].gen # id.gen
FreeSlots == {i \in Pid : ~proc[i].live /\ proc[i].gen < MaxGen}
LowestFree == CHOOSE i \in FreeSlots : \A j \in FreeSlots : i <= j
-----------------------------------------------------------------------------
(* fork, exec, wait, system.                                                 *)

\* child_add: a child that finds the table full is not remembered.
ChildAdd(kids, id) == IF Len(kids) < ChildMax THEN Append(kids, id) ELSE kids

\* Mutant of Child: the new process starts without a note handler.
ChildUnhandled(p, c) ==
  [proc[p] EXCEPT !.gen = proc[c].gen + 1, !.parent = p, !.notes = <<>>, !.lib.kids = <<>>, !.ret = Nothing,
                  !.handler = FALSE]
\* Mutant of Child: the table of children is copied with the rest.
ChildWithKids(p, c) ==
  [proc[p] EXCEPT !.gen = proc[c].gen + 1, !.parent = p, !.notes = <<>>, !.ret = Nothing]
\* rfork(RFPROC): the child has the parent's memory and note handler, and no
\* notes; the library forgets the parent's children in it.
Child(p, c) ==
  [proc[p] EXCEPT !.gen = proc[c].gen + 1, !.parent = p, !.notes = <<>>, !.lib.kids = <<>>, !.ret = Nothing]

\* p forks, and goes on in the library at pc.
Forked(p, pc) ==
  LET c == LowestFree
      id == [pid |-> c, gen |-> proc[c].gen + 1]
      kids == ChildAdd(proc[p].lib.kids, id)
  IN /\ FreeSlots # {}
     /\ proc' = [proc EXCEPT ![c] = Child(p, c), ![p].pc = pc, ![p].ret = Nothing, ![p].lib.kids = kids]
     /\ born' = born \cup {[id |-> id, parent |-> Id(p)]}
     /\ forgot' = forgot \cup ({id} \ ToSet(kids))
     /\ UNCHANGED <<kernel, ended>>

Fork(p) == Calls(p) /\ Forked(p, Nothing)

\* system: fork, and then waitpid of what fork returned.  The child's side,
\* exec or _exit(127), is the child's own.
System(p) ==
  Calls(p) /\ Forked(p, [fn |-> "system", id |-> [pid |-> LowestFree, gen |-> proc[LowestFree].gen + 1]])

\* SYS_EXEC: a fresh image; the process keeps its notes and its parent.
Exec(p) ==
  /\ Calls(p)
  /\ Becomes(p, [proc[p] EXCEPT !.lib = FreshLib, !.handler = FALSE, !.ret = Nothing])
  /\ forgot' = forgot \cup ToSet(proc[p].lib.kids)
  /\ UNCHANGED <<kernel, ended, born>>

\* The entry of the children's table that waitpid(pid) means, the oldest for
\* -1, or 0: a child is looked up by its pid alone.
Entry(kids, pid) ==
  LET found == {i \in DOMAIN kids : pid = -1 \/ kids[i].pid = pid} IN
  IF found = {} THEN 0 ELSE CHOOSE i \in found : \A j \in found : i <= j

\* waitpid up to SYS_JOIN, called by function fn for child `own` of system.
WaitFor(p, pid, fn, own) ==
  LET i == Entry(proc[p].lib.kids, pid) IN
  IF i = 0 THEN [proc[p] EXCEPT !.pc = Nothing, !.ret = [fn |-> fn, err |-> "ECHILD"]]
  ELSE [proc[p] EXCEPT !.pc = [fn |-> "join", for |-> fn, i |-> i, own |-> own], !.ret = Nothing]

Waitpid(p, pid) ==
  /\ Calls(p)
  /\ Becomes(p, WaitFor(p, pid, "waitpid", NoRec))
  /\ UNCHANGED <<kernel, history>>

SystemWaits(p) ==
  /\ Inside(p, "system")
  /\ LET id == proc[p].pc.id IN Becomes(p, WaitFor(p, id.pid, "system", id))
  /\ UNCHANGED <<kernel, history, ops>>

\* *status: the low byte of the code (shifted left by eight in the code).
Status(code) == code % 256

\* waitpid after SYS_JOIN: the entry is dropped, whatever join returned.
Joined(p, code, intr) ==
  LET w == proc[p].pc
      id == proc[p].lib.kids[w.i]
  IN [proc[p] EXCEPT !.pc = Nothing, !.lib.kids = RemoveAt(@, w.i),
        !.ret = [fn |-> w.for, id |-> id, status |-> Status(code), intr |-> intr, own |-> w.own]]

\* SYS_JOIN: the child is gone, or another process has its slot.
Join(p) ==
  /\ Inside(p, "join")
  /\ LET id == proc[p].lib.kids[proc[p].pc.i]
     IN /\ Gone(id)
        /\ Becomes(p, Joined(p, TakenCode(id), FALSE))
        /\ TakeExit(id)
  /\ UNCHANGED <<next, ops, history>>

\* A note ends the wait: join returns -1, which waitpid takes for a code.
JoinInterrupted(p) ==
  /\ Inside(p, "join")
  /\ ~Gone(proc[p].lib.kids[proc[p].pc.i])
  /\ proc[p].notes # <<>>
  /\ Becomes(p, Joined(p, -1, TRUE))
  /\ forgot' = forgot \cup {proc[p].lib.kids[proc[p].pc.i]}
  /\ UNCHANGED <<kernel, ops, ended, born>>
-----------------------------------------------------------------------------
(* exit and atexit.                                                          *)

\* __cxa_atexit: refused when the table is full.
Registered(lib, k) ==
  IF Len(lib.hooks) = AtexitMax THEN lib
  ELSE [lib EXCEPT !.hooks = Append(@, [n |-> lib.made + 1, k |-> k]), !.made = @ + 1]

Atexit(p, k) ==
  /\ Calls(p)
  /\ Becomes(p, [proc[p] EXCEPT !.lib = Registered(@, k), !.ret = Nothing])
  /\ UNCHANGED <<kernel, history>>

Exit(p, code) ==
  /\ Calls(p)
  /\ Becomes(p, [proc[p] EXCEPT !.pc = [fn |-> "exit", code |-> code], !.ret = Nothing])
  /\ UNCHANGED <<kernel, history>>

\* Mutant of RunHook: what a handler registers is lost.
RunHookDeaf(p) ==
  /\ Inside(p, "exit") /\ proc[p].lib.hooks # <<>>
  /\ LET lib == proc[p].lib
         h == Last(lib.hooks)
         off == [lib EXCEPT !.hooks = Front(@), !.ran = Append(@, [n |-> h.n, of |-> lib.made])]
     IN Becomes(p, [proc[p] EXCEPT !.lib = IF h.k = "adds" THEN [off EXCEPT !.made = @ + 1] ELSE off])
  /\ UNCHANGED <<kernel, history, ops>>
\* The last handler is taken off the table and called.  It may register
\* another, or call exit itself, which goes on with the rest.
RunHook(p) ==
  /\ Inside(p, "exit") /\ proc[p].lib.hooks # <<>>
  /\ LET lib == proc[p].lib
         h == Last(lib.hooks)
         off == [lib EXCEPT !.hooks = Front(@), !.ran = Append(@, [n |-> h.n, of |-> lib.made])]
     IN Becomes(p, [proc[p] EXCEPT !.lib = IF h.k = "adds" THEN Registered(off, "plain") ELSE off])
  /\ UNCHANGED <<kernel, history, ops>>

ExitEnds(p) ==
  /\ Inside(p, "exit") /\ proc[p].lib.hooks = <<>>
  /\ Destroy(p, proc[p].pc.code, "exit")
  /\ UNCHANGED ops
-----------------------------------------------------------------------------
(* Signals: notes by another name.                                           *)

\* __rc_sig_note and __rc_note_sig: what a signal becomes on its way.
NoteOf(sig) == CASE sig = "INT" -> "interrupt" [] sig = "KILL" -> "kill" [] OTHER -> "terminate"
SigOf(note) == CASE note = "interrupt" -> "INT" [] note = "kill" -> "KILL" [] OTHER -> "TERM"

\* sigaction, and signal, which never sets SA_RESETHAND: the first one also
\* tells the kernel of the library's note handler.
Installed(x, sig, h, reset) ==
  [x EXCEPT !.lib.sa[sig] = [h |-> h, reset |-> reset, runs |-> 0], !.lib.notify = TRUE,
            !.handler = @ \/ ~x.lib.notify]
Sigaction(p, sig, h, reset) ==
  /\ Calls(p) /\ sig # "KILL"
  /\ Becomes(p, [Installed(proc[p], sig, h, reset) EXCEPT !.ret = Nothing])
  /\ UNCHANGED <<kernel, history>>

\* kill and raise: note_post drops the note when the queue is full.
Kill(p, q, sig) ==
  /\ Calls(p) /\ proc[q].live
  /\ IF Len(proc[q].notes) >= NNote THEN UNCHANGED proc
     ELSE proc' = [proc EXCEPT ![q].notes = Append(@, NoteOf(sig))]
  /\ UNCHANGED <<kernel, history>>

\* After the handler: SA_RESETHAND as it stands then, and NCONT.
HandlerOver(x, sig) ==
  [x EXCEPT !.lib.sa[sig] = IF @.reset THEN [@ EXCEPT !.h = "dfl"] ELSE @, !.insig = "none"]

\* note_deliver and __rc_note: on the way back to the program, one at a time.
Deliver(p) ==
  LET x == proc[p]
      note == Head(x.notes)
      sig == SigOf(note)
      y == [x EXCEPT !.notes = Tail(@), !.insig = sig]
      dies == ~x.handler \/ note = "kill" \/ x.lib.sa[sig].h = "dfl"
  IN /\ x.live /\ x.pc.fn # "join" /\ x.notes # <<>> /\ x.insig = "none"
     /\ IF dies THEN Destroy(p, -1, "note")
        ELSE /\ Becomes(p, IF x.lib.sa[sig].h = "ign" THEN HandlerOver(y, sig)
                           ELSE [y EXCEPT !.lib.sa[sig].runs = @ + 1])
             /\ UNCHANGED <<kernel, history>>
     /\ UNCHANGED ops

\* The program's handler returns; it may have installed itself again by
\* signal().
HandlerReturns(p, again) ==
  /\ proc[p].live /\ proc[p].insig # "none"
  /\ LET sig == proc[p].insig
         x == IF again THEN Installed(proc[p], sig, "fn", FALSE) ELSE proc[p]
     IN Becomes(p, HandlerOver(x, sig))
  /\ UNCHANGED <<kernel, history, ops>>

Next ==
  \E p \in Pid :
    \/ Fork(p) \/ System(p) \/ Exec(p) \/ SystemWaits(p) \/ Join(p) \/ JoinInterrupted(p)
    \/ \E q \in Pid \cup {-1} : Waitpid(p, q)
    \/ \E k \in Hook : Atexit(p, k)
    \/ \E code \in Code : Exit(p, code)
    \/ RunHook(p) \/ ExitEnds(p)
    \/ \E h \in {"dfl", "ign", "fn"}, reset \in BOOLEAN : Sigaction(p, "TERM", h, reset)
    \/ \E q \in Pid, sig \in {"USR1", "KILL"} : Kill(p, q, sig)
    \/ Deliver(p)
    \/ \E again \in BOOLEAN : HandlerReturns(p, again)

Spec == Init /\ [][Next]_vars
-----------------------------------------------------------------------------
(* Properties.                                                               *)

TypeOK ==
  /\ \A i \in Pid : LET x == proc[i] IN
       /\ {x.live, x.handler, x.lib.notify} \subseteq BOOLEAN /\ x.gen \in 0 .. MaxGen
       /\ Len(x.notes) <= NNote /\ Len(x.lib.kids) <= ChildMax /\ Len(x.lib.hooks) <= AtexitMax
       /\ x.insig \in Sig \cup {"none"}
       /\ "status" \in DOMAIN x.ret => x.ret.status \in 0 .. 255
  /\ next \in DOMAIN ring /\ ops \in 0 .. MaxOps

\* The library's flag and the kernel's handler agree, in children and after
\* exec too: signal() tells the kernel only once per image (__rc_notify_on).
NotifyAgrees == \A i \in Pid : proc[i].live => (proc[i].lib.notify <=> proc[i].handler)

\* A handler installed with SA_RESETHAND runs once and not again, however many
\* notes are queued while it runs, unless it is installed anew.
OneShot == \A i \in Pid, sig \in Sig : proc[i].lib.sa[sig].reset => proc[i].lib.sa[sig].runs <= 1

\* The table of children names children of this process only, each once, and
\* every child that lives, but for one that found the table full, whose wait
\* a note cut short, or that was there before an exec (fork, waitpid).
ChildrenKnown ==
  \A p \in Pid : proc[p].live =>
    LET kids == proc[p].lib.kids
        mine == {b.id : b \in {c \in born : c.parent = Id(p)}}
    IN /\ IsInjective(kids) /\ ToSet(kids) \subseteq mine
       /\ \A id \in mine : Gone(id) \/ id \in ToSet(kids) \cup forgot

\* Failures that were recorded after the n-th process ended.
FailuresAfter(n) == Cardinality({i \in n + 1 .. Len(ended) : ended[i].code # 0})
\* When waitpid or system returns a status and no note cut the wait short, the
\* child has ended, this very one and not an earlier or later process of its
\* slot, and the status is the low byte of its code; it is 0 if so many failed
\* since that the kernel's record was overwritten.
StatusIsTheChilds ==
  [][\A p \in Pid :
       LET r == proc'[p].ret IN
       proc[p].pc.fn = "join" /\ "status" \in DOMAIN r /\ ~r.intr =>
         \E n \in DOMAIN ended :
           /\ ended[n].id = r.id
           /\ r.status = ended[n].code % 256 \/ (r.status = 0 /\ FailuresAfter(n) >= Records)]_vars

\* A process that leaves by exit has run every handler it had registered once,
\* each before all that were registered earlier: handlers that register
\* handlers or call exit themselves included (exit, __cxa_atexit).
HandlersRunOnce ==
  \A n \in DOMAIN ended : ended[n].how = "exit" =>
    LET ran == ended[n].ran IN
    /\ {ran[i].n : i \in DOMAIN ran} = 1 .. ended[n].made /\ Len(ran) = ended[n].made
    /\ \A i, j \in DOMAIN ran : i < j => ran[j].n < ran[i].n \/ ran[j].n > ran[i].of

\* The library's tables fit their bounds and agree with the kernel's, and a
\* one-shot handler is one (rc_signal.c, rc_proc.c).
TablesAgree == TypeOK /\ NotifyAgrees /\ OneShot
=============================================================================
