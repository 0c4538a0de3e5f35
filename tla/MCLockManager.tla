--------------------------- MODULE MCLockManager ---------------------------
(* Small instances of LockManager for TLC.                                 *)
EXTENDS LockManager, TLC

AllModes == {S_LOCK, U_LOCK, X_LOCK}

Symmetry == Permutations(Tran \ Stopping) \cup Permutations(Key)

=============================================================================
