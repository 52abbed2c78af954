------------------------------ MODULE Threads -------------------------------
(****************************************************************************)
(* rc_pthread.c: POSIX threads for a program that has one.  pthread_create  *)
(* runs the new thread to its end before it returns, so the threads that    *)
(* have begun and not ended are a stack, and only its top runs.             *)
(****************************************************************************)
EXTENDS Integers, Sequences, SequencesExt, FiniteSets

CONSTANTS
  Mutex,      \* mutexes
  Kind,       \* their types: a function to "normal", "recursive", "errorcheck"
  NKey,       \* PTHREAD_KEYS_MAX
  MaxThread,  \* threads created in a behaviour
  ThreadOps   \* calls in a behaviour

ASSUME ThreadConstantsOK ==
  /\ Kind \in [Mutex -> {"normal", "recursive", "errorcheck"}]
  /\ {NKey, MaxThread, ThreadOps} \subseteq Nat

Main == 1
Key == 1 .. NKey

VARIABLES
  running,   \* the threads that have begun and not ended, the innermost last
  lib,       \* cur_thread and cur_exit, the calls' saved copies, the records
  count,     \* count[m]: the mutex's _count
  key,       \* key_used and key_value
  state,     \* "runs", or how the program ended
  threadOps, \* calls so far
  holds,     \* by[m]: the threads that locked m and did not unlock it since,
             \* strays: the mutexes that a thread which had not locked them
             \* unlocked                                          (history)
  fate       \* what each thread ended with, and what a key was set to (history)
threadVars == <<running, lib, count, key, state, threadOps, holds, fate>>

Nobody == 0
\* A record is "none", "open" (its thread runs or was not joined) or "freed".
ThreadInit ==
  /\ running = <<Main>>
  /\ lib = [cur |-> Nobody, exit |-> Nobody, saved |-> <<>>, rec |-> [t \in 2 .. MaxThread + 1 |-> "none"],
            ret |-> [t \in 2 .. MaxThread + 1 |-> 0], joined |-> [t \in 2 .. MaxThread + 1 |-> 0]]
  /\ count = [m \in Mutex |-> 0]
  /\ key = [k \in Key |-> [used |-> FALSE, v |-> 0]]
  /\ state = "runs"
  /\ threadOps = 0
  /\ holds = [by |-> [m \in Mutex |-> <<>>], strays |-> {}]
  /\ fate = [ends |-> [t \in 2 .. MaxThread + 1 |-> 0], set |-> [k \in Key |-> 0]]

Self == Last(running)
ThreadCall == state = "runs" /\ threadOps < ThreadOps /\ threadOps' = threadOps + 1
Fresh == {t \in 2 .. MaxThread + 1 : lib.rec[t] = "none"}

\* pthread_create: cur_thread and cur_exit are saved in its frame, and the new
\* thread runs.
Create ==
  /\ ThreadCall /\ Fresh # {}
  /\ LET t == CHOOSE u \in Fresh : \A v \in Fresh : u <= v IN
     /\ running' = Append(running, t)
     /\ lib' = [lib EXCEPT !.cur = t, !.exit = t, !.rec[t] = "open",
                           !.saved = Append(@, [cur |-> lib.cur, exit |-> lib.exit])]
  /\ UNCHANGED <<count, key, state, holds, fate>>

\* Mutant of Popped: where pthread_exit goes back to is not restored.
PoppedHalf(l) == [l EXCEPT !.cur = Last(l.saved).cur, !.saved = Front(@)]
\* pthread_create goes on: cur_thread and cur_exit are put back.
Popped(l) == [l EXCEPT !.cur = Last(l.saved).cur, !.exit = Last(l.saved).exit, !.saved = Front(@)]

\* The thread's function returns r.
Return(r) ==
  /\ ThreadCall /\ Self # Main
  /\ running' = Front(running)
  /\ lib' = Popped([lib EXCEPT !.ret[Self] = r])
  /\ fate' = [fate EXCEPT !.ends[Self] = r]
  /\ UNCHANGED <<count, key, state, holds>>
\* pthread_exit: the main thread ends the process; another stores its result
\* in cur_thread's record and jumps to cur_exit, which has to be in the frame
\* of the call that runs it.
PthreadExit(r) ==
  /\ ThreadCall
  /\ state' = IF lib.cur = Nobody THEN "exited" ELSE IF lib.exit = Self THEN "runs" ELSE "astray"
  /\ running' = IF state' = "runs" THEN Front(running) ELSE running
  /\ lib' = IF state' = "runs" THEN Popped([lib EXCEPT !.ret[lib.cur] = r]) ELSE lib
  /\ fate' = IF state' = "runs" THEN [fate EXCEPT !.ends[Self] = r] ELSE fate
  /\ UNCHANGED <<count, key, holds>>

\* Threads that have ended and were neither joined nor detached.
Ended == {t \in DOMAIN lib.rec : lib.rec[t] = "open" /\ ~Contains(running, t)}
\* pthread_join of a thread that has ended.
Join(t) ==
  /\ ThreadCall /\ t \in Ended
  /\ lib' = [lib EXCEPT !.rec[t] = "freed", !.joined[t] = lib.ret[t]]
  /\ UNCHANGED <<running, count, key, state, holds, fate>>
Detach(t) ==
  /\ ThreadCall /\ t \in Ended
  /\ lib' = [lib EXCEPT !.rec[t] = "freed"]
  /\ UNCHANGED <<running, count, key, state, holds, fate>>
-----------------------------------------------------------------------------
(* Mutexes, condition variables and keys.                                    *)

\* A mutex that is locked is not locked again, unless it is recursive.
Busy(m) == count[m] > 0 /\ Kind[m] # "recursive"
Locked(m) == count' = [count EXCEPT ![m] = @ + 1] /\ holds' = [holds EXCEPT !.by[m] = Append(@, Self)]

\* pthread_mutex_lock: instead of a wait that has no end the program is aborted
\* or, if it asked for that, told.
Lock(m) ==
  /\ ThreadCall
  /\ IF Busy(m) THEN state' = (IF Kind[m] = "normal" THEN "deadlock" ELSE "runs") /\ UNCHANGED <<count, holds>>
     ELSE Locked(m) /\ UNCHANGED state
  /\ UNCHANGED <<running, lib, key, fate>>
Trylock(m) ==
  /\ ThreadCall
  /\ IF Busy(m) THEN UNCHANGED <<count, holds>> ELSE Locked(m)
  /\ UNCHANGED <<running, lib, key, state, fate>>
\* pthread_mutex_unlock: a mutex does not know who locked it, so any thread
\* unlocks it.
Unlock(m) ==
  /\ ThreadCall /\ count[m] > 0
  /\ count' = [count EXCEPT ![m] = @ - 1]
  /\ \/ /\ Contains(holds.by[m], Self)
        /\ holds' = [holds EXCEPT !.by[m] = RemoveAt(@, CHOOSE i \in DOMAIN @ : @[i] = Self)]
     \/ /\ ~Contains(holds.by[m], Self)
        /\ holds' = [holds EXCEPT !.strays = @ \cup {m}]
  /\ UNCHANGED <<running, lib, key, state, fate>>
\* pthread_cond_wait: nobody is there to signal.
CondWait ==
  /\ ThreadCall
  /\ state' = "deadlock"
  /\ UNCHANGED <<running, lib, count, key, holds, fate>>

FreeKeys == {k \in Key : ~key[k].used}
NewKey(x) == [used |-> TRUE, v |-> 0]
KeyCreate ==
  /\ ThreadCall /\ FreeKeys # {}
  /\ LET k == CHOOSE j \in FreeKeys : \A i \in FreeKeys : j <= i IN
     key' = [key EXCEPT ![k] = NewKey(@)] /\ fate' = [fate EXCEPT !.set[k] = 0]
  /\ UNCHANGED <<running, lib, count, state, holds>>
KeyDelete(k) ==
  /\ ThreadCall /\ key[k].used
  /\ key' = [key EXCEPT ![k].used = FALSE]
  /\ UNCHANGED <<running, lib, count, state, holds, fate>>
Setspecific(k, v) ==
  /\ ThreadCall /\ key[k].used
  /\ key' = [key EXCEPT ![k].v = v] /\ fate' = [fate EXCEPT !.set[k] = v]
  /\ UNCHANGED <<running, lib, count, state, holds>>

ThreadNext ==
  \/ Create \/ CondWait \/ KeyCreate
  \/ \E r \in {1, 2} : Return(r) \/ PthreadExit(r)
  \/ \E t \in 2 .. MaxThread + 1 : Join(t) \/ Detach(t)
  \/ \E m \in Mutex : Lock(m) \/ Trylock(m) \/ Unlock(m)
  \/ \E k \in Key : KeyDelete(k) \/ Setspecific(k, 1)
-----------------------------------------------------------------------------
(* Properties.                                                               *)

\* However threads create threads and end, by return or by pthread_exit, the
\* one that runs is the one that pthread_self names, pthread_exit goes back to
\* the call that runs it and never to a frame that is gone, and what is joined
\* is what the thread ended with.
ThreadsNest ==
  /\ state # "astray"
  /\ state = "runs" => lib.cur = (IF Self = Main THEN Nobody ELSE Self) /\ lib.exit = lib.cur
  /\ \A t \in DOMAIN lib.joined : lib.joined[t] \in {0, fate.ends[t]}
  /\ Len(lib.saved) = Len(running) - 1

\* A mutex that is not recursive is locked once at most, and by one thread,
\* until a thread unlocks it that did not lock it: a thread that was created
\* while its creator held the mutex does not get it, whoever else locked and
\* unlocked between (recursive ones count locks and do not know by whom).
OneHolder ==
  \A m \in Mutex : Kind[m] # "recursive" =>
    count[m] <= 1 /\ (m \notin holds.strays => Len(holds.by[m]) <= 1 /\ count[m] = Len(holds.by[m]))

\* A key that was created anew has no value before one is set, whatever its
\* last use left.  It has one value, which all threads see.
KeyIsFresh == \A k \in Key : key[k].used => key[k].v = fate.set[k]

\* Threads that run inside pthread_create keep their nesting; a mutex that only
\* its holders unlock has one holder; a key is fresh when it is created.
ThreadsAgree == ThreadsNest /\ OneHolder /\ KeyIsFresh
=============================================================================
