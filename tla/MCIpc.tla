-------------------------------- MODULE MCIpc --------------------------------
(* Small instances of Ipc for TLC. *)
EXTENDS Ipc

CONSTANTS p1, p2, p3

\* Two clients and a server.
ClientServer == {<<p1, p3>>, <<p2, p3>>}
NoPairs == {}
\* Calls in a cycle.
CallRing == {<<p1, p2>>, <<p2, p3>>, <<p3, p1>>}

One == [p \in Proc |-> 1]
Two == [p \in Proc |-> 2]
==============================================================================
