------------------------------ MODULE MCMemory ------------------------------
EXTENDS Memory, TLC

\* Pages, slots and names are interchangeable.
Symmetry == Permutations(Page) \cup Permutations(Proc) \cup Permutations(Name)
=============================================================================
