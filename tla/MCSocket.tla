------------------------------ MODULE MCSocket -------------------------------
(* Small instances of Socket for TLC. *)
EXTENDS Socket

\* A server that forks, a client, a program that uses datagrams and names, and
\* one that copies datagram sockets.
Kinds == {{"tcp", "bind", "listen", "fork"}, {"tcp", "udp", "connect", "shutdown", "dup"},
          {"udp", "bind", "connect", "from", "dns"}, {"udp", "dup", "from"}}
==============================================================================
