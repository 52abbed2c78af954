-------------------------------- MODULE Env ---------------------------------
(****************************************************************************)
(* The environment of a C program: rc_env.c's getenv, setenv, unsetenv and  *)
(* putenv over `environ`, the argument blob in which execve hands it on     *)
(* (rc_proc.c), and the start code that takes the blob apart                *)
(* (libc_start.c).  Texts are sequences of characters, as in Text.          *)
(****************************************************************************)
EXTENDS Integers, Sequences, SequencesExt

CONSTANTS
  EnvName,    \* names of variables
  EnvValue,   \* values
  Start,      \* what environ may be when the program starts
  EnvStore,   \* what /env has: a function from some names to values
  Spare,      \* slots that env_take_ownership adds (8)
  ArgvMax,    \* LIBC_ARGV_MAX
  EnvMax,     \* LIBC_ENV_MAX
  BlobMax,    \* RC_EXEC_BLOB_MAX
  Argv,       \* argument lists that programs pass to exec
  EnvOps      \* calls in a behaviour

VARIABLES
  environ,   \* the entries, each a text
  cap,       \* env_cap; 0 until the library owns the array (env_owned)
  argv,      \* what main got
  envOps,    \* calls so far
  means,     \* what each name is set to, or Unset                (history)
  handed     \* what the last exec was given                      (history)
envVars == <<environ, cap, argv, envOps, means, handed>>

Eq == 61
Unset == [set |-> FALSE]
Set(v) == [set |-> TRUE, v |-> v]
EntryOf(name, v) == name \o <<Eq>> \o v

\* Mutant of NameMatches: the '=' behind the name is not looked for.
NameMatchesPrefix(entry, name) == IsPrefix(name, entry)
NameMatches(entry, name) == IsPrefix(Append(name, Eq), entry)
\* env_find: the first entry of that name; 0 if there is none.
EnvFind(env, name) ==
  LET at == {i \in DOMAIN env : NameMatches(env[i], name)}
  IN IF at = {} THEN 0 ELSE CHOOSE i \in at : \A j \in at : i <= j
\* getenv: environ, and else the store.
Getenv(env, name) ==
  LET i == EnvFind(env, name) IN
  IF i > 0 THEN Set(SubSeq(env[i], Len(name) + 2, Len(env[i])))
  ELSE IF name \in DOMAIN EnvStore THEN Set(EnvStore[name]) ELSE Unset
\* What a name means in a list of entries, the store apart.
Meaning(env) == [n \in EnvName |-> IF EnvFind(env, n) = 0 THEN Unset ELSE Getenv(env, n)]
NoneTwice(env) == \A n \in EnvName : Cardinality({i \in DOMAIN env : IsPrefix(Append(n, Eq), env[i])}) <= 1

\* setenv and unsetenv refuse a name with a '=' in it, and putenv's name ends there.
ASSUME EnvConstantsOK ==
  /\ EnvName \subseteq Seq(Nat) /\ \A n \in EnvName : \A i \in DOMAIN n : n[i] # Eq
  /\ EnvValue \subseteq Seq(Nat) /\ Start \subseteq Seq(Seq(Nat)) /\ Argv \subseteq Seq(Seq(Nat))
  /\ DOMAIN EnvStore \subseteq EnvName /\ \A e \in Start : NoneTwice(e)
  /\ {Spare, ArgvMax, EnvMax, BlobMax, EnvOps} \subseteq Nat /\ Spare > 0

EnvInit ==
  /\ environ \in Start
  /\ cap = 0
  /\ argv = <<>>
  /\ envOps = 0
  /\ means = Meaning(environ)
  /\ handed = [ok |-> FALSE]

EnvCall == envOps < EnvOps /\ envOps' = envOps + 1
\* env_take_ownership: the array's slots afterwards.
Owned == IF cap = 0 THEN Len(environ) + Spare ELSE cap
\* env_grow_for_one: the slots after one more entry was asked for.
GrowForOne(n, c) == IF n + 2 <= c THEN c ELSE c * 2
\* The call ran out of memory: at most the array is the library's own now.
OutOfMemory == cap' \in {cap, Owned} /\ UNCHANGED <<environ, argv, means, handed>>

\* environ gets this entry for the name.
Enter(name, entry) ==
  LET i == EnvFind(environ, name) IN
  /\ environ' = IF i > 0 THEN [environ EXCEPT ![i] = entry] ELSE Append(environ, entry)
  /\ cap' = IF i > 0 THEN Owned ELSE GrowForOne(Len(environ), Owned)

Setenv(name, v, overwrite) ==
  /\ EnvCall
  /\ \/ OutOfMemory
     \/ /\ EnvFind(environ, name) > 0 /\ ~overwrite
        /\ cap' = Owned /\ UNCHANGED <<environ, argv, means, handed>>
     \/ /\ EnvFind(environ, name) = 0 \/ overwrite
        /\ Enter(name, EntryOf(name, v))
        /\ means' = [means EXCEPT ![name] = Set(v)]
        /\ UNCHANGED <<argv, handed>>
\* putenv: the caller's own text becomes the entry.
Putenv(name, v) ==
  /\ EnvCall
  /\ \/ OutOfMemory
     \/ /\ Enter(name, EntryOf(name, v))
        /\ means' = [means EXCEPT ![name] = Set(v)]
        /\ UNCHANGED <<argv, handed>>
\* unsetenv, and putenv of a text without '='.
Unsetenv(name) ==
  /\ EnvCall
  /\ \/ OutOfMemory
     \/ LET i == EnvFind(environ, name) IN
        /\ environ' = IF i = 0 THEN environ ELSE RemoveAt(environ, i)
        /\ cap' = Owned
        /\ means' = [means EXCEPT ![name] = Unset]
        /\ UNCHANGED <<argv, handed>>
-----------------------------------------------------------------------------
(* exec.  The blob is the sequence of its parts: marks, which are one byte,  *)
(* and texts, which end in a 0.                                              *)

Mark(m) == [mark |-> m, text |-> <<>>]
Txt(s) == [mark |-> "none", text |-> s]
TextsOf(ss) == [i \in DOMAIN ss |-> Txt(ss[i])]
Size(ss) == FoldLeft(LAMBDA n, s : n + Len(s) + 1, 0, ss)
\* execve's blob; it is refused (E2BIG) if it does not fit.
BlobParts(av, ev) ==
  <<Mark("argv")>> \o TextsOf(av) \o (IF ev = <<>> THEN <<>> ELSE <<Mark("env")>> \o TextsOf(ev) \o <<Txt(<<>>)>>)
Fits(av, ev) == 1 + Size(av) + (IF ev = <<>> THEN 0 ELSE 2 + Size(ev)) <= BlobMax

\* The texts of blob b from part i on, up to an empty one.
EnvTexts(b, i) ==
  LET stops == {k \in i .. Len(b) : b[k].text = <<>>} \cup {Len(b) + 1}
      stop == CHOOSE k \in stops : \A j \in stops : k <= j
      n == IF stop - i < EnvMax THEN stop - i ELSE EnvMax
  IN [k \in 1 .. n |-> b[i + k - 1].text]
\* Mutant of EnvFollows: whatever follows the arguments is the environment.
EnvFollowsAny(b, n) == Len(b) > n + 1
\* The mark of the environment is where the n arguments end.
EnvFollows(b, n) == Len(b) > n + 1 /\ b[n + 2].mark = "env"
\* The name that a program without arguments is given (libc_argv0).
LibcArgv0 == <<112>>
\* __libc_start on a blob of execve.
Parsed(b, argc) ==
  LET n == IF argc < ArgvMax THEN argc ELSE ArgvMax
  IN [argv |-> IF argc = 0 THEN <<LibcArgv0>> ELSE [k \in 1 .. n |-> b[k + 1].text],
      env |-> IF argc > 0 /\ EnvFollows(b, n) THEN EnvTexts(b, n + 3) ELSE <<>>]

\* execve with arguments av and environment ev, which is environ for the other
\* functions of the family.  The new image starts from the blob, or the call
\* fails and all is as it was.
Execve(av, ev) ==
  /\ EnvCall
  /\ IF ~Fits(av, ev) THEN UNCHANGED <<environ, cap, argv, means>> /\ handed' = [ok |-> FALSE]
     ELSE LET r == Parsed(BlobParts(av, ev), Len(av)) IN
          /\ environ' = r.env /\ argv' = r.argv /\ cap' = 0
          /\ means' = Meaning(r.env)
          /\ handed' = [ok |-> TRUE, argv |-> av, env |-> ev]

EnvNext ==
  \/ \E n \in EnvName, v \in EnvValue : Putenv(n, v) \/ \E o \in BOOLEAN : Setenv(n, v, o)
  \/ \E n \in EnvName : Unsetenv(n)
  \/ \E av \in Argv : Execve(av, environ) \/ \E ev \in Start : Execve(av, ev)
-----------------------------------------------------------------------------
(* Properties.                                                               *)

\* environ is a map: no name is in it twice, and after any calls, failed ones
\* included, getenv gives what the last call for just that name set, and the
\* store's value if it is not set; a name that is the beginning of another is
\* another name.
EnvIsMap ==
  /\ NoneTwice(environ)
  /\ \A n \in EnvName :
       Getenv(environ, n) = IF means[n].set THEN means[n] ELSE IF n \in DOMAIN EnvStore THEN Set(EnvStore[n]) ELSE Unset

\* The entries and the null pointer behind them fit into the array.
EnvFits == cap > 0 => Len(environ) + 1 <= cap

\* What exec was given is what the new program starts with, if the numbers of
\* arguments and of variables are within the start code's limits, there is an
\* argument, and no variable is an empty text.  Beyond them it is the beginning
\* of it, and without arguments a name is made up: arguments never turn into
\* variables (execve, __libc_start).
ExecHandsOver ==
  [][handed' # handed /\ handed'.ok =>
       LET av == handed'.argv
           ev == handed'.env
       IN /\ IF av = <<>> THEN argv' = <<LibcArgv0>> ELSE IsPrefix(argv', av)
          /\ IsPrefix(environ', ev)
          /\ Len(av) \in 1 .. ArgvMax /\ Len(ev) <= EnvMax /\ <<>> \notin ToSet(ev) =>
               argv' = av /\ environ' = ev]_envVars

\* The environment is a map in an array that is large enough.
EnvAgrees == EnvIsMap /\ EnvFits
=============================================================================
