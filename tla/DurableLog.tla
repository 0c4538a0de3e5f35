----------------------------- MODULE DurableLog -----------------------------
(***************************************************************************)
(* What the log promises, without pages and flushes: records are appended  *)
(* at its end, a growing prefix of them is stable, a crash keeps the       *)
(* stable prefix and the log goes on from it.                              *)
(***************************************************************************)
EXTENDS Naturals

VARIABLES
  recs,     \* the records of the log, each with an address start and a length len
  stable,   \* those a crash does not lose
  up        \* is the server running

vars == <<recs, stable, up>>

\* S holds the records of R up to some address.
IsPrefix(S, R) ==
  /\ S \subseteq R
  /\ \A m \in S, n \in R \ S : m.start < n.start

Init == recs = {} /\ stable = {} /\ up = TRUE

\* A record is added after all the others.
Add ==
  /\ up
  /\ \E n \in recs' \ recs : /\ \A m \in recs : m.start + m.len <= n.start
                            /\ recs' = recs \cup {n}
  /\ UNCHANGED <<stable, up>>

\* Some records become stable.
Harden ==
  /\ up
  /\ stable \subseteq stable' /\ IsPrefix(stable', recs)
  /\ UNCHANGED <<recs, up>>

\* A crash may make some more of them stable.
Crash ==
  /\ up /\ up' = FALSE
  /\ stable \subseteq stable' /\ IsPrefix(stable', recs)
  /\ UNCHANGED recs

\* The log goes on after the stable records.
Recover ==
  /\ ~up /\ up' = TRUE
  /\ recs' = stable
  /\ UNCHANGED stable

Next == Add \/ Harden \/ Crash \/ Recover

Spec == Init /\ [][Next]_vars
=============================================================================
