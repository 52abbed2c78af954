------------------------------- MODULE MCPosix -------------------------------
(* Small instances of Posix for TLC.  Path "u" is a union: its files are   *)
(* looked up in "u" and created in "v".                                     *)
EXTENDS Posix

CONSTANTS p1, p2

MCLookup == [x \in Path |-> x]
MCCreate == [x \in Path |-> IF x = "u" THEN "v" ELSE x]
MCInit == [n \in Node |-> IF n = "a" THEN FileOf(<<9, 8, 7, 6>>) ELSE Missing]
MCFlags == {{}, {"create", "append"}, {"create", "excl"}, {"create", "trunc", "write"}, {"directory"}}
\* p1 makes every call; p2 gets in its way.
MCProgram == (p1 :> {"open", "truncate", "mkstemp", "mkdtemp", "mkdir", "opendir", "read", "write", "ftruncate", "lseek",
                     "dup", "unlink"})
             @@ (p2 :> {"truncate", "unlink"})
MCCalls == [p \in Proc |-> IF p = p1 THEN 2 ELSE 1]
==============================================================================
