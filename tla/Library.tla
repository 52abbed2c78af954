------------------------------ MODULE Library -------------------------------
(****************************************************************************)
(* The parts of the C library that work in a program's own memory.  They    *)
(* share no state, so a behaviour uses one of them: the environment, the    *)
(* threads, or a pure function.                                             *)
(****************************************************************************)
EXTENDS Conversions, Env, Threads

CONSTANT FirstJob   \* the call that stands for none

VARIABLE part
libraryVars == <<part, convVars, envVars, threadVars>>

Init ==
  /\ part \in {"convert", "env", "threads"}
  /\ IF part = "convert" THEN ConvInit ELSE job = FirstJob /\ called = FALSE /\ out = <<>>
  /\ IF part = "env" THEN EnvInit
     ELSE environ = <<>> /\ cap = 0 /\ argv = <<>> /\ envOps = 0 /\ means = Meaning(<<>>) /\ handed = [ok |-> FALSE]
  /\ ThreadInit

Next ==
  /\ UNCHANGED part
  /\ \/ part = "convert" /\ Convert /\ UNCHANGED <<envVars, threadVars>>
     \/ part = "env" /\ EnvNext /\ UNCHANGED <<convVars, threadVars>>
     \/ part = "threads" /\ ThreadNext /\ UNCHANGED <<convVars, envVars>>

Spec == Init /\ [][Next]_libraryVars
=============================================================================
