------------------------------- MODULE MCStdio -------------------------------
(* A small instance of Stdio for TLC: a file, the console and a memory      *)
(* stream, a buffer of two bytes and a disk of four.                        *)
EXTENDS Stdio

MCText == {<<1, 0>>}
MCOffsets == -1 .. 1
MCInitData == <<2, 0, 3>>
==============================================================================
