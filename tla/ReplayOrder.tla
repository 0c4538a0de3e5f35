----------------------------- MODULE ReplayOrder -----------------------------
(***************************************************************************)
(* What the replication agent promises the standby database: the           *)
(* transactions of one applier are committed there in the order of their   *)
(* commit records, and one that blocks after every earlier one that was    *)
(* given to another applier.  A commit may be repeated, but not after one  *)
(* that must follow it.                                                    *)
(***************************************************************************)
EXTENDS Integers

CONSTANTS Tran, Logs

DDL_APPLIER_INDEX == 0

VARIABLES
    log,    \* log[t]: where the records of t are, and what they say
    times   \* times[t]: how often t was committed in the standby

vars == <<log, times>>

(* The transactions that have something to replay.                         *)
Replicated == {t \in Tran : log[t].commit /\ log[t].repl # 0}

(* An earlier commit that t must not overtake.                             *)
Precedes(s, t) ==
    /\ log[s].end < log[t].end
    /\ \/ log[s].applier = log[t].applier
       \/ log[t].blocked /\ log[s].applier # DDL_APPLIER_INDEX

Init ==
    /\ log \in Logs
    /\ times = [t \in Tran |-> 0]

Replay(t) ==
    /\ t \in Replicated
    /\ \A s \in Replicated : Precedes(s, t) => times[s] # 0
    /\ \A s \in Replicated : Precedes(t, s) => times[s] = 0
    /\ times' = [times EXCEPT ![t] = @ + 1]
    /\ UNCHANGED log

Next == \E t \in Tran : Replay(t)

Spec == Init /\ [][Next]_vars

=============================================================================
