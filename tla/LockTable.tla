----------------------------- MODULE LockTable -----------------------------
(***************************************************************************)
(* What the lock manager promises, with nothing of how: each transaction   *)
(* holds one mode on each key, takes a stronger one only when that is      *)
(* compatible with what the others hold, and gives it up all at once.      *)
(* There is one exception, which the code makes: an upgrade does not see   *)
(* the modes of those in leaving, the upgraders that stopped waiting and   *)
(* have not yet withdrawn their request.                                   *)
(***************************************************************************)
CONSTANTS Tran, Key, NULL_LOCK, Compatible(_, _), Stronger(_, _)

VARIABLES
    held,       \* held[k][t]: the mode of t on k
    leaving     \* leaving[k]: the upgraders on k that gave up waiting

Init == held = [k \in Key |-> [t \in Tran |-> NULL_LOCK]]

Only(t, k) == held' = [held EXCEPT ![k][t] = held'[k][t]]

Grant(t, k) ==
    /\ Stronger(held'[k][t], held[k][t])
    /\ \A u \in Tran \ {t} :
          \/ Compatible(held'[k][t], held[k][u])
          \/ held[k][t] # NULL_LOCK /\ u \in leaving[k]
    /\ Only(t, k)

Release(t, k) ==
    /\ held[k][t] # NULL_LOCK
    /\ held'[k][t] = NULL_LOCK
    /\ Only(t, k)

Next == \E t \in Tran, k \in Key : Grant(t, k) \/ Release(t, k)

(* Who is leaving is decided by the waits, not by the table.               *)
Spec == Init /\ [][Next]_held

=============================================================================
