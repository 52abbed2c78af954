-------------------------------- MODULE Sort --------------------------------
(****************************************************************************)
(* qsort and bsearch (stdlib.c): a quicksort whose scans rely on sentinels  *)
(* to stay inside the array, with insertion sort for short arrays.  Arrays  *)
(* are functions on positions counted from 0.                               *)
(****************************************************************************)
EXTENDS Integers, Sequences

CONSTANT
  Short      \* arrays of so many elements are sorted by insertion (12)

ASSUME ShortOK == Short \in Nat /\ Short >= 2

Swp(b, i, j) == [b EXCEPT ![i] = b[j], ![j] = b[i]]

RECURSIVE Sink(_, _, _)
Sink(b, lo, j) == IF j > lo /\ b[j] < b[j - 1] THEN Sink(Swp(b, j, j - 1), lo, j - 1) ELSE b
RECURSIVE Insertion(_, _, _, _)
\* Insertion sort of the n elements from lo on; the first i are sorted.
Insertion(b, lo, n, i) == IF i >= n THEN b ELSE Insertion(Sink(b, lo, lo + i), lo, n, i + 1)

\* The first, middle and last element are put in order.
MedianOf3(b, lo, mid, hi) ==
  LET b1 == IF b[mid] < b[lo] THEN Swp(b, mid, lo) ELSE b
      b2 == Swp(b1, hi, mid)
  IN IF b1[hi] < b1[mid] THEN (IF b2[mid] < b2[lo] THEN Swp(b2, mid, lo) ELSE b2) ELSE b1

RECURSIVE Up(_, _, _)
Up(b, i, p) == IF b[i + 1] < b[p] THEN Up(b, i + 1, p) ELSE i + 1
RECURSIVE Down(_, _, _)
Down(b, j, p) == IF b[p] < b[j - 1] THEN Down(b, j - 1, p) ELSE j - 1
RECURSIVE Partition(_, _, _, _)
Partition(b, i, j, p) ==
  LET u == Up(b, i, p)
      d == Down(b, j, p)
  IN IF u >= d THEN [b |-> Swp(b, u, p), i |-> u] ELSE Partition(Swp(b, u, d), u, d, p)

RECURSIVE QsortPart(_, _, _)
\* qsort of the n elements from lo on.
QsortPart(b, lo, n) ==
  IF n < 2 THEN b
  ELSE IF n <= Short THEN Insertion(b, lo, n, 1)
  ELSE LET hi == lo + n - 1
           mid == lo + (n \div 2)
           r == Partition(Swp(MedianOf3(b, lo, mid, hi), mid, hi - 1), lo, hi - 1, hi - 1)
           left == r.i - lo
       IN QsortPart(QsortPart(r.b, lo, left), r.i + 1, n - left - 1)
Qsort(b, n) == QsortPart(b, 0, n)

RECURSIVE BsearchIn(_, _, _, _)
BsearchIn(b, key, lo, hi) ==
  IF lo >= hi THEN -1
  ELSE LET m == lo + ((hi - lo) \div 2) IN
       IF key = b[m] THEN m ELSE IF key < b[m] THEN BsearchIn(b, key, lo, m) ELSE BsearchIn(b, key, m + 1, hi)
=============================================================================
