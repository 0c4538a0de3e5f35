------------------------- MODULE MCCriticalSection -------------------------
(* CriticalSection for TLC: the threads are interchangeable.                *)
EXTENDS CriticalSection, TLC

Symmetry == Permutations(Threads)
=============================================================================
