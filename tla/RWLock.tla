------------------------------- MODULE RWLock -------------------------------
(***************************************************************************)
(* What the server's critical sections promise to the threads that use them *)
(* (src/thread/critical_section.h): many readers or one writer, and a       *)
(* writer that steps back to reading keeps the section reserved, so that no *)
(* other thread writes before it has stepped forward again.                 *)
(***************************************************************************)
CONSTANT Threads

VARIABLES
  mode,      \* mode[t]: what t holds, "none", "read" or "write"
  reserved   \* reserved[t]: t stepped back and has not yet stepped forward

vars == <<mode, reserved>>

Init ==
  /\ mode = [t \in Threads |-> "none"]
  /\ reserved = [t \in Threads |-> FALSE]

OthersOut(t) == \A u \in Threads \ {t} : mode[u] = "none"
NotReserved(t) == \A u \in Threads \ {t} : ~reserved[u]

Read(t) ==
  /\ mode[t] = "none" /\ ~reserved[t]
  /\ \A u \in Threads : mode[u] # "write"
  /\ mode' = [mode EXCEPT ![t] = "read"]
  /\ UNCHANGED reserved

Write(t) ==
  /\ mode[t] = "none" /\ ~reserved[t]
  /\ OthersOut(t) /\ NotReserved(t)
  /\ mode' = [mode EXCEPT ![t] = "write"]
  /\ UNCHANGED reserved

(* A writer that holds the section more than once stays a writer.           *)
StepBack(t) ==
  /\ mode[t] = "write" /\ ~reserved[t]
  /\ \E m \in {"read", "write"} : mode' = [mode EXCEPT ![t] = m]
  /\ reserved' = [reserved EXCEPT ![t] = TRUE]

(* While other readers are inside, t leaves and waits for them.             *)
StepAside(t) ==
  /\ mode[t] = "read" /\ reserved[t]
  /\ mode' = [mode EXCEPT ![t] = "none"]
  /\ UNCHANGED reserved

StepForward(t) ==
  /\ reserved[t] /\ OthersOut(t)
  /\ mode' = [mode EXCEPT ![t] = "write"]
  /\ reserved' = [reserved EXCEPT ![t] = FALSE]

Leave(t) ==
  /\ mode[t] # "none" /\ ~reserved[t]
  /\ mode' = [mode EXCEPT ![t] = "none"]
  /\ UNCHANGED reserved

Next ==
  \E t \in Threads :
    \/ Read(t) \/ Write(t) \/ Leave(t)
    \/ StepBack(t) \/ StepAside(t) \/ StepForward(t)

Spec == Init /\ [][Next]_vars
=============================================================================
