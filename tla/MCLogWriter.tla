---------------------------- MODULE MCLogWriter ----------------------------
(* LogWriter for TLC.                                                       *)
EXTENDS LogWriter, TLC

(* Writers are interchangeable, and so are flushers.                        *)
Symmetry == Permutations(Writers) \cup Permutations(Flushers)
=============================================================================
