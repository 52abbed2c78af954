------------------------------- MODULE Clock --------------------------------
(****************************************************************************)
(* time.c: the `time` register's ticks and the C library's units.  Products *)
(* wrap around at 2^Bits, as unsigned long does at 2^64.                    *)
(****************************************************************************)
EXTENDS Integers

CONSTANTS
  Bits,      \* bits of an unsigned long
  PerSec     \* units in a second: CLOCKS_PER_SEC, or 10^9 nanoseconds

U(n) == n % (2 ^ Bits)

\* Mutant of Scale: multiply first.
ScaleNaive(t, hz) == U(t * PerSec) \div hz
\* clock: seconds and the rest are scaled apart.
Scale(t, hz) == U(U((t \div hz) * PerSec) + (U((t % hz) * PerSec) \div hz))
\* clock_gettime: seconds, and units below one.
Split(t, hz) == [sec |-> t \div hz, sub |-> U((t % hz) * PerSec) \div hz]
\* gettimeofday, which takes a rate of 0 for 1.
TimeOfDay(t, hz) == Split(t, IF hz = 0 THEN 1 ELSE hz)
\* nanosleep: the ticks to sleep.
Ticks(sec, sub, hz) == U(U(sec * hz) + (U(sub * hz) \div PerSec))
\* nanosleep cut short by a note after `done` ticks: what is left.
Remains(ticks, done, hz) == Split(IF done < ticks THEN ticks - done ELSE 0, hz)
=============================================================================
