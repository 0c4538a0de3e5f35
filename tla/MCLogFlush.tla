----------------------------- MODULE MCLogFlush -----------------------------
(* Small instances of LogFlush for TLC. *)
EXTENDS LogFlush, TLC

Symmetry == Permutations(Trans)
=============================================================================
