------------------------------ MODULE MCReplica ------------------------------
(* Logs of three transactions for the replication agent.                   *)
EXTENDS Replica, TLC

CONSTANTS t1, t2, t3

T(start, repl, end, applier) ==
    [start |-> start, repl |-> repl, end |-> end, commit |-> TRUE,
     applier |-> applier, blocked |-> FALSE, big |-> FALSE]

Blocked(r) == [r EXCEPT !.blocked = TRUE]
Big(r) == [r EXCEPT !.big = TRUE]
Aborted(r) == [r EXCEPT !.commit = FALSE]

MCTran == {t1, t2, t3}

(* A transaction that blocks ends while an older one is open.              *)
OldAround ==
    t1 :> T(1, 1, 5, 2) @@ t2 :> Blocked(T(2, 2, 4, 1)) @@ t3 :> Big(T(3, 6, 7, 2))

(* One that blocks, with a commit of its applier after its first item.     *)
Overtaken ==
    t1 :> T(2, 2, 3, 1) @@ t2 :> Blocked(T(1, 1, 4, 1)) @@ t3 :> T(5, 5, 6, 2)

(* Two schema changes, and a transaction that rolls back.                  *)
Ddl ==
    t1 :> T(1, 1, 4, 0) @@ t2 :> Blocked(T(2, 3, 5, 0)) @@ t3 :> Aborted(T(6, 6, 7, 1))

MCLogs == {OldAround, Overtaken, Ddl}
=============================================================================
