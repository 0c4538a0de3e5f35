--------------------------- MODULE HeartbeatProofs ---------------------------
(***************************************************************************)
(* Proofs about Heartbeat, for any number of nodes and of faults.          *)
(*                                                                         *)
(* ChainGoesOn follows from the number of election jobs a node has queued  *)
(* or runs, which never drops below one while there is memory for a job.   *)
(* ServersFollow needs that it is at most one as long as nobody changed    *)
(* the mode of a node and no server failed: a second chain could cancel    *)
(* the failover of the first.                                              *)
(***************************************************************************)
EXTENDS Heartbeat, TLAPS

-----------------------------------------------------------------------------
(* The election jobs of a node that are queued or run.                     *)
ChainCount(n) ==
    jobs[n]["CALC_SCORE"] + jobs[n]["CHECK_PING"] + jobs[n]["FAILOVER"]
    + jobs[n]["FAILBACK"] + (IF worker[n] = "idle" THEN 0 ELSE 1)

Quiet == faults.change = 0 /\ faults.demote = 0
Fed == faults.memory = 0

(* A node that is up has an election job, one that is down has none.       *)
ChainInv ==
    /\ Fed => \A n \in up : ChainCount(n) >= 1
    /\ \A n \in Node \ up : ChainCount(n) = 0

(* In quiet times there is one election job, no job of another kind, and   *)
(* no master waits for a failover.                                         *)
QuietNode(n) ==
    /\ ChainCount(n) <= 1
    /\ jobs[n]["CHANGE_SLAVE"] = 0
    /\ jobs[n]["DEMOTE"] = 0
    /\ jobs[n]["DEMOTE_AGAIN"] = 0
    /\ demoting[n] = 0
    /\ jobs[n]["FAILOVER"] > 0 => node_state[n] # "MASTER"
    /\ resource_state[n] = "MASTER" =>
           node_state[n] = "MASTER" \/ worker[n] # "idle"

QuietInv == Quiet => \A n \in Node : QuietNode(n)

IInv == TypeOK /\ ChainInv /\ QuietInv

-----------------------------------------------------------------------------
(* What adding and removing a job does to the queue of a node.             *)
LEMMA PlusJob ==
    ASSUME NEW q \in [Job -> Nat], NEW j \in Job
    PROVE  /\ Plus(q, j) \in [Job -> Nat]
           /\ Plus(q, j)[j] = q[j] + 1
           /\ \A k \in Job \ {j} : Plus(q, j)[k] = q[k]
BY DEF Plus

LEMMA MinusJob ==
    ASSUME NEW q \in [Job -> Nat], NEW j \in Job, q[j] > 0
    PROVE  /\ Minus(q, j) \in [Job -> Nat]
           /\ Minus(q, j)[j] = q[j] - 1
           /\ \A k \in Job \ {j} : Minus(q, j)[k] = q[k]
BY DEF Minus

(* A job that queues the next one keeps the number of jobs.                *)
LEMMA ThenJob ==
    ASSUME TypeOK, NEW n \in Node, NEW j \in Job, NEW next \in Job,
           jobs[n][j] > 0, Then(n, j, next)
    PROVE  /\ jobs' \in [Node -> [Job -> Nat]]
           /\ \A m \in Node \ {n} : jobs'[m] = jobs[m]
           /\ j = next => jobs'[n] = jobs[n]
           /\ j # next => /\ jobs'[n][j] = jobs[n][j] - 1
                          /\ jobs'[n][next] = jobs[n][next] + 1
           /\ \A k \in Job \ {j, next} : jobs'[n][k] = jobs[n][k]
<1> DEFINE q == Minus(jobs[n], j)
<1>1. jobs[n] \in [Job -> Nat]
  BY DEF TypeOK
<1>2. /\ q \in [Job -> Nat]
      /\ q[j] = jobs[n][j] - 1
      /\ \A k \in Job \ {j} : q[k] = jobs[n][k]
  BY <1>1, MinusJob
<1> DEFINE r == Plus(q, next)
<1> HIDE DEF q
<1>3. /\ r \in [Job -> Nat]
      /\ r[next] = q[next] + 1
      /\ \A k \in Job \ {next} : r[k] = q[k]
  BY <1>2, PlusJob
<1>4. jobs' = [jobs EXCEPT ![n] = r]
  BY DEF Then, q, TypeOK
<1> HIDE DEF r
<1>5. jobs'[n] = r /\ \A m \in Node \ {n} : jobs'[m] = jobs[m]
  BY <1>4 DEF TypeOK
<1>6. jobs' \in [Node -> [Job -> Nat]]
  BY <1>3, <1>4 DEF TypeOK
<1>7. ASSUME j = next PROVE jobs'[n] = jobs[n]
  <2>1. \A k \in Job : r[k] = jobs[n][k]
    BY <1>1, <1>2, <1>3, <1>7
  <2> QED
    BY <1>1, <1>3, <1>5, <2>1
<1> QED
  BY <1>1, <1>2, <1>3, <1>5, <1>6, <1>7

LEMMA DoneJob ==
    ASSUME TypeOK, NEW n \in Node, NEW j \in Job, jobs[n][j] > 0, Done(n, j)
    PROVE  /\ jobs' \in [Node -> [Job -> Nat]]
           /\ \A m \in Node \ {n} : jobs'[m] = jobs[m]
           /\ jobs'[n][j] = jobs[n][j] - 1
           /\ \A k \in Job \ {j} : jobs'[n][k] = jobs[n][k]
<1> DEFINE q == Minus(jobs[n], j)
<1>1. /\ q \in [Job -> Nat]
      /\ q[j] = jobs[n][j] - 1
      /\ \A k \in Job \ {j} : q[k] = jobs[n][k]
  BY Zenon, MinusJob DEF TypeOK
<1>2. jobs' = [jobs EXCEPT ![n] = q]
  BY DEF Done, TypeOK
<1> HIDE DEF q
<1> QED
  BY <1>1, <1>2 DEF TypeOK

LEMMA QueueJob ==
    ASSUME TypeOK, NEW n \in Node, NEW j \in Job,
           jobs' = [jobs EXCEPT ![n] = Plus(@, j)]
    PROVE  /\ jobs' \in [Node -> [Job -> Nat]]
           /\ \A m \in Node \ {n} : jobs'[m] = jobs[m]
           /\ jobs'[n][j] = jobs[n][j] + 1
           /\ \A k \in Job \ {j} : jobs'[n][k] = jobs[n][k]
<1> DEFINE q == Plus(jobs[n], j)
<1>1. /\ q \in [Job -> Nat]
      /\ q[j] = jobs[n][j] + 1
      /\ \A k \in Job \ {j} : q[k] = jobs[n][k]
  BY PlusJob DEF TypeOK
<1>2. jobs' = [jobs EXCEPT ![n] = q]
  BY DEF TypeOK
<1> HIDE DEF q
<1> QED
  BY <1>1, <1>2 DEF TypeOK

-----------------------------------------------------------------------------
(* A step of node n that leaves the other nodes alone has only to keep the *)
(* invariant of n.                                                         *)
LEMMA LocalStep ==
    ASSUME IInv, NEW n \in Node,
           \A m \in Node \ {n} :
               /\ jobs'[m] = jobs[m]
               /\ worker'[m] = worker[m]
               /\ node_state'[m] = node_state[m]
               /\ resource_state'[m] = resource_state[m]
               /\ demoting'[m] = demoting[m]
               /\ (m \in up') <=> (m \in up),
           Quiet' => Quiet, Fed' => Fed,
           Fed' /\ n \in up' => ChainCount(n)' >= 1,
           n \notin up' => ChainCount(n)' = 0,
           up' \subseteq Node,
           Quiet' => QuietNode(n)'
    PROVE  ChainInv' /\ QuietInv'
<1>1. \A m \in Node \ {n} : ChainCount(m)' = ChainCount(m)
  BY DEF ChainCount
<1>2. ChainInv'
  BY <1>1 DEF IInv, ChainInv, Node
<1>3. ASSUME Quiet', NEW m \in Node \ {n} PROVE QuietNode(m)'
  <2>1. QuietNode(m)
    BY <1>3 DEF IInv, QuietInv
  <2> QED
    BY <1>1, <2>1 DEF QuietNode
<1> QED
  BY <1>2, <1>3 DEF QuietInv

(* What the invariant says of a node.                                      *)
LEMMA AtNode ==
    ASSUME IInv, NEW n \in Node
    PROVE  /\ jobs[n] \in [Job -> Nat]
           /\ worker[n] \in {"idle", "SLAVE", "TO_BE_SLAVE"}
           /\ node_state[n] \in State \ {"UNKNOWN"}
           /\ demoting[n] \in Nat
           /\ Fed /\ n \in up => ChainCount(n) >= 1
           /\ n \notin up => ChainCount(n) = 0
           /\ Quiet => QuietNode(n)
BY DEF IInv, TypeOK, ChainInv, QuietInv

LEMMA KnownType ==
    ASSUME TypeOK, NEW n \in Node, NEW silent
    PROVE  Known(n, silent) \in [Node -> State]
BY DEF TypeOK, Known, State

LEMMA InitIInv == Init => IInv
<1> SUFFICES ASSUME Init PROVE IInv
  OBVIOUS
<1>1. jobs \in [Node -> [Job -> Nat]]
  <2>1. [NoJobs EXCEPT !["CALC_SCORE"] = 1] \in [Job -> Nat]
    BY DEF NoJobs, Job, Chain
  <2> QED
    BY <2>1 DEF Init
<1>2. TypeOK
  BY Zenon, <1>1 DEF Init, TypeOK, State
<1>3. \A n \in Node : /\ jobs[n]["CALC_SCORE"] = 1
                      /\ \A j \in Job \ {"CALC_SCORE"} : jobs[n][j] = 0
  BY DEF Init, NoJobs, Job, Chain
<1>4. \A n \in Node : ChainCount(n) = 1 /\ QuietNode(n)
  BY <1>3 DEF Init, ChainCount, QuietNode, Job, Chain
<1> QED
  BY <1>2, <1>4 DEF IInv, ChainInv, QuietInv, Init

-----------------------------------------------------------------------------
(* An election job that queues the next one keeps the length of the chain. *)
LEMMA ChainThen ==
    ASSUME IInv, NEW n \in Node, NEW j \in Chain, NEW next \in Chain,
           Takes(n, j), Then(n, j, next),
           UNCHANGED <<worker, demoting, up, faults>>,
           \A m \in Node \ {n} : /\ node_state'[m] = node_state[m]
                                 /\ resource_state'[m] = resource_state[m],
           next = "FAILOVER" => node_state'[n] # "MASTER",
           /\ resource_state[n] = "MASTER" => node_state[n] = "MASTER"
           /\ jobs[n]["FAILOVER"] > 0 => node_state[n] # "MASTER"
           => (resource_state'[n] = "MASTER" => node_state'[n] = "MASTER")
    PROVE  jobs' \in [Node -> [Job -> Nat]] /\ ChainInv' /\ QuietInv'
<1>1. j \in Job /\ next \in Job
  BY DEF Job
<1>2. n \in up /\ worker[n] = "idle" /\ jobs[n][j] > 0
  BY DEF Takes
<1>3. /\ jobs' \in [Node -> [Job -> Nat]]
      /\ \A m \in Node \ {n} : jobs'[m] = jobs[m]
      /\ j = next => jobs'[n] = jobs[n]
      /\ j # next => /\ jobs'[n][j] = jobs[n][j] - 1
                     /\ jobs'[n][next] = jobs[n][next] + 1
      /\ \A k \in Job \ {j, next} : jobs'[n][k] = jobs[n][k]
  BY <1>1, <1>2, ThenJob DEF IInv
<1>4. jobs[n] \in [Job -> Nat] /\ jobs'[n] \in [Job -> Nat]
  BY <1>3 DEF IInv, TypeOK
<1>5. ChainCount(n)' = ChainCount(n)
  BY <1>2, <1>3, <1>4 DEF ChainCount, Chain, Job
<1>6. ASSUME Quiet' PROVE QuietNode(n)'
  <2>1. QuietNode(n)
    BY <1>6, AtNode DEF Quiet
  <2>2. jobs[n]["FAILOVER"] > 0 => j = "FAILOVER"
    BY <1>2, <1>4, <2>1 DEF QuietNode, ChainCount, Chain, Job
  <2>3. jobs'[n]["FAILOVER"] > 0 => next = "FAILOVER"
    BY <1>2, <1>3, <1>4, <2>1, <2>2 DEF QuietNode, ChainCount, Chain, Job
  <2>4. /\ jobs'[n]["CHANGE_SLAVE"] = 0
        /\ jobs'[n]["DEMOTE"] = 0
        /\ jobs'[n]["DEMOTE_AGAIN"] = 0
    BY Zenon, <1>3, <2>1 DEF QuietNode, Chain, Job
  <2>5. resource_state'[n] = "MASTER" => node_state'[n] = "MASTER"
    BY <1>2, <2>1 DEF QuietNode
  <2> QED
    BY Zenon, <1>2, <1>5, <2>1, <2>3, <2>4, <2>5 DEF QuietNode
<1>7. ChainInv' /\ QuietInv'
  <2>1. /\ Quiet' => Quiet
        /\ Fed' <=> Fed
        /\ up' \subseteq Node
    BY Zenon DEF Quiet, Fed, IInv, TypeOK
  <2>2. /\ Fed' /\ n \in up' => ChainCount(n)' >= 1
        /\ n \notin up' => ChainCount(n)' = 0
    BY Zenon, <1>2, <1>5, <2>1, AtNode
  <2>3. \A m \in Node \ {n} :
           /\ jobs'[m] = jobs[m]
           /\ worker'[m] = worker[m]
           /\ node_state'[m] = node_state[m]
           /\ resource_state'[m] = resource_state[m]
           /\ demoting'[m] = demoting[m]
           /\ (m \in up') <=> (m \in up)
    BY Zenon, <1>3
  <2>4. Quiet' => QuietNode(n)'
    BY Zenon, <1>6
  <2> QED
    BY Zenon, <2>1, <2>2, <2>3, <2>4, LocalStep
<1> QED
  BY <1>3, <1>7

(* A job that goes on after it released the lock is still one job.         *)
LEMMA ChainHalf ==
    ASSUME IInv, NEW n \in Node, NEW j \in Job, NEW s \in {"SLAVE", "TO_BE_SLAVE"},
           Takes(n, j), Done(n, j), j \in Chain \/ ~ Quiet,
           worker' = [worker EXCEPT ![n] = s],
           UNCHANGED <<demoting, up, faults, resource_state>>,
           SetState(n, "SLAVE") \/ ~ Quiet,
           \A m \in Node \ {n} : node_state'[m] = node_state[m]
    PROVE  jobs' \in [Node -> [Job -> Nat]] /\ ChainInv' /\ QuietInv'
<1>2. n \in up /\ worker[n] = "idle" /\ jobs[n][j] > 0
  BY DEF Takes
<1>3. /\ jobs' \in [Node -> [Job -> Nat]]
      /\ \A m \in Node \ {n} : jobs'[m] = jobs[m]
      /\ jobs'[n][j] = jobs[n][j] - 1
      /\ \A k \in Job \ {j} : jobs'[n][k] = jobs[n][k]
  BY <1>2, DoneJob DEF IInv
<1>4. jobs[n] \in [Job -> Nat] /\ jobs'[n] \in [Job -> Nat]
  BY Zenon, <1>3 DEF IInv, TypeOK
<1>5. /\ worker'[n] = s
      /\ \A m \in Node \ {n} : worker'[m] = worker[m]
  BY DEF IInv, TypeOK
<1>6. /\ ChainCount(n)' >= 1
      /\ j \in Chain => ChainCount(n)' = ChainCount(n)
  BY <1>2, <1>3, <1>4, <1>5 DEF ChainCount, Chain, Job
<1>7. ASSUME Quiet' PROVE QuietNode(n)'
  <2>1. QuietNode(n) /\ Quiet /\ j \in Chain /\ SetState(n, "SLAVE")
    BY Zenon, <1>7, AtNode DEF Quiet
  <2>2. /\ jobs'[n]["CHANGE_SLAVE"] = 0
        /\ jobs'[n]["DEMOTE"] = 0
        /\ jobs'[n]["DEMOTE_AGAIN"] = 0
    BY Zenon, <1>3, <2>1 DEF QuietNode, Chain, Job
  <2>3. node_state'[n] = "SLAVE"
    BY <2>1 DEF SetState, IInv, TypeOK
  <2> QED
    BY Zenon, <1>5, <1>6, <2>1, <2>2, <2>3 DEF QuietNode
<1>8. ChainInv' /\ QuietInv'
  <2>1. /\ Quiet' => Quiet
        /\ Fed' <=> Fed
        /\ up' \subseteq Node
    BY Zenon DEF Quiet, Fed, IInv, TypeOK
  <2>2. /\ Fed' /\ n \in up' => ChainCount(n)' >= 1
        /\ n \notin up' => ChainCount(n)' = 0
    BY Zenon, <1>2, <1>6
  <2>3. \A m \in Node \ {n} :
           /\ jobs'[m] = jobs[m]
           /\ worker'[m] = worker[m]
           /\ node_state'[m] = node_state[m]
           /\ resource_state'[m] = resource_state[m]
           /\ demoting'[m] = demoting[m]
           /\ (m \in up') <=> (m \in up)
    BY Zenon, <1>3, <1>5
  <2>4. Quiet' => QuietNode(n)'
    BY Zenon, <1>7
  <2> QED
    BY Zenon, <2>1, <2>2, <2>3, <2>4, LocalStep
<1> QED
  BY <1>3, <1>8

-----------------------------------------------------------------------------
(* One lemma for every action.                                             *)
LEMMA CalcScoreStep ==
    ASSUME IInv, NEW n \in Node, CalcScore(n) PROVE IInv'
<1>1. /\ Takes(n, "CALC_SCORE") /\ n \in up /\ worker[n] = "idle"
      /\ UNCHANGED <<resource_state, hide_to_demote, demoting, up, calm, faults>>
  BY Zenon DEF CalcScore, Takes
<1>2. PICK silent \in Silent(n) : CalcScore(n)!2!(silent)
  BY Zenon DEF CalcScore
<1>3. Known(n, silent) \in [Node -> State]
  BY KnownType DEF IInv
<1>4. known' \in [Node -> [Node -> State]] /\ is_isolated' \in [Node -> BOOLEAN]
  <2>1. known' = [known EXCEPT ![n] = Known(n, silent)]
    BY <1>2
  <2>2. is_isolated' = [is_isolated EXCEPT ![n] = Isolated(n, Known(n, silent))]
    BY <1>2
  <2>3. Isolated(n, Known(n, silent)) \in BOOLEAN
    BY DEF Isolated
  <2> QED
    BY <1>3, <2>1, <2>2, <2>3 DEF IInv, TypeOK
<1>j. {"CALC_SCORE", "CHECK_PING", "FAILBACK", "FAILOVER"} \subseteq Chain
  BY DEF Chain
<1>5. CASE /\ node_state[n] = "MASTER"
           /\ \/ Then(n, "CALC_SCORE", "CHECK_PING")
              \/ Then(n, "CALC_SCORE", "FAILBACK")
           /\ UNCHANGED <<node_state, worker, said>>
  <2>1. jobs' \in [Node -> [Job -> Nat]] /\ ChainInv' /\ QuietInv'
    BY Zenon, <1>1, <1>5, <1>j, ChainThen
  <2> QED
    BY <1>1, <1>4, <1>5, <2>1 DEF IInv, TypeOK
<1>6. CASE /\ node_state[n] = "SLAVE"
           /\ SetState(n, "TO_BE_MASTER")
           /\ Tell(n, {"TO_BE_MASTER"})
           /\ \E next \in {"CHECK_PING", "FAILOVER"} :
                 Then(n, "CALC_SCORE", next)
           /\ UNCHANGED worker
  <2>1. /\ node_state'[n] # "MASTER"
        /\ \A m \in Node \ {n} : node_state'[m] = node_state[m]
    BY <1>6 DEF SetState, IInv, TypeOK
  <2>2. jobs' \in [Node -> [Job -> Nat]] /\ ChainInv' /\ QuietInv'
    BY Zenon, <1>1, <1>6, <1>j, <2>1, ChainThen
  <2> QED
    BY Zenon, <1>1, <1>4, <1>6, <2>2 DEF IInv, TypeOK, SetState, Tell, State
<1>7. CASE /\ SetState(n, "SLAVE")
           /\ Tell(n, {"SLAVE"})
           /\ Done(n, "CALC_SCORE")
           /\ worker' = [worker EXCEPT ![n] = "SLAVE"]
  <2>1. \A m \in Node \ {n} : node_state'[m] = node_state[m]
    BY <1>7 DEF SetState, IInv, TypeOK
  <2>2. jobs' \in [Node -> [Job -> Nat]] /\ ChainInv' /\ QuietInv'
    BY Zenon, <1>1, <1>7, <1>j, <2>1, ChainHalf DEF Job
  <2> QED
    BY Zenon, <1>1, <1>4, <1>7, <2>2 DEF IInv, TypeOK, SetState, Tell, State
<1>8. CASE UNCHANGED <<node_state, jobs, worker, said>>
  <2>1. ChainInv' /\ QuietInv'
    BY Zenon, <1>1, <1>8 DEF IInv, ChainInv, QuietInv, ChainCount, Quiet, Fed, QuietNode
  <2> QED
    BY Zenon, <1>1, <1>4, <1>8, <2>1 DEF IInv, TypeOK
<1> QED
  BY Zenon, <1>2, <1>5, <1>6, <1>7, <1>8 DEF IsolatedMaster, SplitBrain, Elected

(* Without memory the count drops.                                         *)
LEMMA NoJobArgStep ==
    ASSUME IInv, NEW n \in Node, NoJobArg(n) PROVE IInv'
<1>1. /\ Takes(n, "CALC_SCORE") /\ n \in up /\ worker[n] = "idle"
      /\ jobs[n]["CALC_SCORE"] > 0
      /\ Fault("memory") /\ Done(n, "CALC_SCORE")
      /\ UNCHANGED <<node_state, resource_state, worker, hide_to_demote,
                     demoting, said, up, calm>>
  BY Zenon DEF NoJobArg, Takes
<1>2. known' \in [Node -> [Node -> State]] /\ is_isolated' \in [Node -> BOOLEAN]
  <2>1. PICK silent \in Silent(n) : known' = [known EXCEPT ![n] = Known(n, silent)]
    BY Zenon DEF NoJobArg
  <2>2. Known(n, silent) \in [Node -> State]
    BY KnownType DEF IInv
  <2> QED
    BY <2>1, <2>2 DEF NoJobArg, IInv, TypeOK
<1>3. /\ faults' \in [crash : Nat, change : Nat, demote : Nat, memory : Nat]
      /\ Quiet' => Quiet
      /\ ~ Fed'
  <2>1. /\ faults \in [crash : Nat, change : Nat, demote : Nat, memory : Nat]
        /\ faults' = [faults EXCEPT !["memory"] = @ + 1]
    BY Zenon, <1>1 DEF IInv, TypeOK, Fault
  <2> QED
    BY ONLY <2>1 DEF Quiet, Fed
<1>4. /\ jobs' \in [Node -> [Job -> Nat]]
      /\ \A m \in Node \ {n} : jobs'[m] = jobs[m]
      /\ jobs'[n]["CALC_SCORE"] = jobs[n]["CALC_SCORE"] - 1
      /\ \A k \in Job \ {"CALC_SCORE"} : jobs'[n][k] = jobs[n][k]
  BY Zenon, <1>1, DoneJob DEF IInv, Job, Chain
<1>5. jobs[n] \in [Job -> Nat] /\ jobs'[n] \in [Job -> Nat]
  BY Zenon, <1>4 DEF IInv, TypeOK
<1>6. ChainCount(n)' <= ChainCount(n)
  BY <1>1, <1>4, <1>5 DEF ChainCount, Chain, Job
<1>7. ASSUME Quiet' PROVE QuietNode(n)'
  <2>1. QuietNode(n)
    BY Zenon, <1>3, <1>7, AtNode
  <2>2. \A k \in {"CHANGE_SLAVE", "DEMOTE", "DEMOTE_AGAIN", "FAILOVER"} :
           jobs'[n][k] = jobs[n][k]
    BY Zenon, <1>4 DEF Job, Chain
  <2>3. ChainCount(n)' <= 1
    <3>1. ChainCount(n) <= 1 /\ ChainCount(n) \in Nat /\ ChainCount(n)' \in Int
      BY <1>1, <1>5, <2>1 DEF QuietNode, ChainCount, Chain, Job
    <3> QED
      BY <1>6, <3>1
  <2> QED
    BY Zenon, <1>1, <2>1, <2>2, <2>3 DEF QuietNode
<1>8. ChainInv' /\ QuietInv'
  <2>1. /\ up' = up /\ up' \subseteq Node
        /\ \A m \in Node \ {n} :
              /\ jobs'[m] = jobs[m]
              /\ worker'[m] = worker[m]
              /\ node_state'[m] = node_state[m]
              /\ resource_state'[m] = resource_state[m]
              /\ demoting'[m] = demoting[m]
    BY Zenon, <1>1, <1>4 DEF IInv, TypeOK
  <2> QED
    BY Zenon, <1>1, <1>3, <1>7, <2>1, LocalStep
<1> QED
  BY Zenon, <1>1, <1>2, <1>3, <1>4, <1>8 DEF IInv, TypeOK

LEMMA FinishStep ==
    ASSUME IInv, NEW n \in Node, Finish(n) PROVE IInv'
<1>1. /\ worker[n] # "idle"
      /\ UNCHANGED <<node_state, known, hide_to_demote, is_isolated, demoting,
                     said, up, calm, faults>>
  BY DEF Finish
<1>2. /\ jobs' \in [Node -> [Job -> Nat]]
      /\ \A m \in Node \ {n} : jobs'[m] = jobs[m]
      /\ jobs'[n]["CALC_SCORE"] = jobs[n]["CALC_SCORE"] + 1
      /\ \A k \in Job \ {"CALC_SCORE"} : jobs'[n][k] = jobs[n][k]
  BY Zenon, QueueJob DEF Finish, IInv, Job, Chain
<1>3. /\ worker'[n] = "idle" /\ resource_state'[n] = worker[n]
      /\ \A m \in Node \ {n} : /\ worker'[m] = worker[m]
                               /\ resource_state'[m] = resource_state[m]
      /\ worker' \in [Node -> {"idle", "SLAVE", "TO_BE_SLAVE"}]
      /\ resource_state' \in [Node -> {"MASTER", "SLAVE", "TO_BE_SLAVE"}]
  BY DEF Finish, IInv, TypeOK
<1>4. jobs[n] \in [Job -> Nat] /\ jobs'[n] \in [Job -> Nat]
  BY <1>2 DEF IInv, TypeOK
<1>5. ChainCount(n)' = ChainCount(n)
  BY <1>1, <1>2, <1>3, <1>4 DEF ChainCount, Chain, Job
<1>6. ASSUME Quiet' PROVE QuietNode(n)'
  <2>1. QuietNode(n) /\ worker[n] \in {"idle", "SLAVE", "TO_BE_SLAVE"}
    BY <1>1, <1>6, AtNode DEF Quiet
  <2> QED
    BY Zenon, <1>1, <1>2, <1>3, <1>5, <2>1 DEF QuietNode, Job, Chain
<1>7. ChainInv' /\ QuietInv'
  <2>1. /\ Quiet' => Quiet
        /\ Fed' <=> Fed
        /\ up' \subseteq Node
    BY Zenon, <1>1, <1>3 DEF Quiet, Fed, IInv, TypeOK
  <2>2. /\ Fed' /\ n \in up' => ChainCount(n)' >= 1
        /\ n \notin up' => ChainCount(n)' = 0
    BY Zenon, <1>1, <1>5, <2>1, AtNode
  <2>3. \A m \in Node \ {n} :
           /\ jobs'[m] = jobs[m]
           /\ worker'[m] = worker[m]
           /\ node_state'[m] = node_state[m]
           /\ resource_state'[m] = resource_state[m]
           /\ demoting'[m] = demoting[m]
           /\ (m \in up') <=> (m \in up)
    BY Zenon, <1>1, <1>2, <1>3
  <2>4. Quiet' => QuietNode(n)'
    BY Zenon, <1>6
  <2> QED
    BY Zenon, <2>1, <2>2, <2>3, <2>4, LocalStep
<1> QED
  BY Zenon, <1>1, <1>2, <1>3, <1>7 DEF IInv, TypeOK

LEMMA CheckPingStep ==
    ASSUME IInv, NEW n \in Node, CheckPing(n) PROVE IInv'
<1>1. /\ Takes(n, "CHECK_PING")
      /\ UNCHANGED <<known, resource_state, worker, hide_to_demote, is_isolated,
                     demoting, up, calm, faults>>
  BY DEF CheckPing
<1>j. {"CALC_SCORE", "CHECK_PING", "FAILBACK", "FAILOVER"} \subseteq Chain
  BY DEF Chain
<1>2. CASE /\ node_state[n] = "MASTER"
           /\ \/ Then(n, "CHECK_PING", "FAILBACK")
              \/ Then(n, "CHECK_PING", "CALC_SCORE")
           /\ Tell(n, {"MASTER"})
           /\ UNCHANGED node_state
  <2>1. jobs' \in [Node -> [Job -> Nat]] /\ ChainInv' /\ QuietInv'
    BY Zenon, <1>1, <1>2, <1>j, ChainThen
  <2> QED
    BY Zenon, <1>1, <1>2, <2>1 DEF IInv, TypeOK, Tell, State
<1>3. CASE /\ node_state[n] # "MASTER"
           /\ SetState(n, "SLAVE")
           /\ Tell(n, {"SLAVE"})
           /\ Then(n, "CHECK_PING", "CALC_SCORE")
  <2>1. \A m \in Node \ {n} : node_state'[m] = node_state[m]
    BY <1>3 DEF SetState, IInv, TypeOK
  <2>2. jobs' \in [Node -> [Job -> Nat]] /\ ChainInv' /\ QuietInv'
    BY Zenon, <1>1, <1>3, <1>j, <2>1, ChainThen
  <2> QED
    BY Zenon, <1>1, <1>3, <2>2 DEF IInv, TypeOK, SetState, Tell, State
<1>4. CASE /\ node_state[n] # "MASTER"
           /\ Tell(n, {node_state[n]})
           /\ Then(n, "CHECK_PING", "FAILOVER")
           /\ UNCHANGED node_state
  <2>1. jobs' \in [Node -> [Job -> Nat]] /\ ChainInv' /\ QuietInv'
    BY Zenon, <1>1, <1>4, <1>j, ChainThen
  <2> QED
    BY Zenon, <1>1, <1>4, <2>1 DEF IInv, TypeOK, Tell, State
<1> QED
  BY Zenon, <1>2, <1>3, <1>4 DEF CheckPing

LEMMA FailoverStep ==
    ASSUME IInv, NEW n \in Node, Failover(n) PROVE IInv'
<1>1. /\ Takes(n, "FAILOVER") /\ Then(n, "FAILOVER", "CALC_SCORE")
      /\ UNCHANGED <<worker, hide_to_demote, is_isolated, demoting, up, calm,
                     faults>>
  BY DEF Failover
<1>2. PICK silent \in Silent(n) : Failover(n)!2!(silent)
  BY Zenon DEF Failover
<1>3. known' \in [Node -> [Node -> State]]
  <2>1. Known(n, silent) \in [Node -> State]
    BY KnownType DEF IInv
  <2>2. known' = [known EXCEPT ![n] = Known(n, silent)]
    BY <1>2
  <2> QED
    BY <2>1, <2>2 DEF IInv, TypeOK
<1>j. {"CALC_SCORE", "FAILOVER"} \subseteq Chain
  BY DEF Chain
<1>4. CASE /\ SetState(n, "MASTER")
           /\ resource_state' = [resource_state EXCEPT ![n] = "MASTER"]
           /\ Tell(n, {"MASTER"})
  <2>1. /\ node_state'[n] = "MASTER"
        /\ \A m \in Node \ {n} : /\ node_state'[m] = node_state[m]
                                 /\ resource_state'[m] = resource_state[m]
    BY <1>4 DEF SetState, IInv, TypeOK
  <2>2. jobs' \in [Node -> [Job -> Nat]] /\ ChainInv' /\ QuietInv'
    BY Zenon, <1>1, <1>j, <2>1, ChainThen
  <2> QED
    BY Zenon, <1>1, <1>3, <1>4, <2>2 DEF IInv, TypeOK, SetState, Tell, State
<1>5. CASE /\ SetState(n, "SLAVE")
           /\ Tell(n, {"SLAVE"})
           /\ UNCHANGED resource_state
  <2>1. \A m \in Node \ {n} : node_state'[m] = node_state[m]
    BY Zenon, <1>5 DEF SetState, IInv, TypeOK
  <2>2. jobs[n]["FAILOVER"] > 0
    BY Zenon, <1>1 DEF Takes
  <2>3. jobs' \in [Node -> [Job -> Nat]] /\ ChainInv' /\ QuietInv'
    BY Zenon, <1>1, <1>5, <1>j, <2>1, <2>2, ChainThen
  <2> QED
    BY Zenon, <1>1, <1>3, <1>5, <2>3 DEF IInv, TypeOK, SetState, Tell, State
<1> QED
  BY <1>2, <1>4, <1>5

LEMMA FailbackStep ==
    ASSUME IInv, NEW n \in Node, Failback(n) PROVE IInv'
<1>1. \A m \in Node \ {n} : node_state'[m] = node_state[m]
  BY DEF Failback, SetState, IInv, TypeOK
<1>2. jobs' \in [Node -> [Job -> Nat]] /\ ChainInv' /\ QuietInv'
  BY Zenon, <1>1, ChainHalf DEF Failback, Job, Chain
<1> QED
  BY Zenon, <1>2 DEF Failback, IInv, TypeOK, SetState, Tell, State

(* A changemode or a failing server ends the quiet times.                  *)
LEMMA FaultKinds ==
    ASSUME TypeOK, NEW kind \in {"crash", "change", "demote"}, Fault(kind)
    PROVE  /\ faults' \in [crash : Nat, change : Nat, demote : Nat, memory : Nat]
           /\ Quiet' => Quiet
           /\ Fed' <=> Fed
           /\ kind # "crash" => ~ Quiet'
BY DEF TypeOK, Fault, Quiet, Fed

LEMMA ChangeModeStep ==
    ASSUME IInv, NEW n \in Node, ChangeMode(n) PROVE IInv'
<1>1. /\ faults' \in [crash : Nat, change : Nat, demote : Nat, memory : Nat]
      /\ ~ Quiet' /\ (Fed' <=> Fed)
  BY FaultKinds DEF ChangeMode, IInv
<1>2. /\ jobs' \in [Node -> [Job -> Nat]]
      /\ \A m \in Node \ {n} : jobs'[m] = jobs[m]
      /\ \A k \in Job \ {"CHANGE_SLAVE"} : jobs'[n][k] = jobs[n][k]
  BY Zenon, QueueJob DEF ChangeMode, IInv, Job, Chain
<1>3. ChainCount(n)' = ChainCount(n)
  BY <1>2 DEF ChangeMode, ChainCount, Job, Chain
<1>4. ChainInv' /\ QuietInv'
  BY <1>1, <1>2, <1>3, AtNode, LocalStep DEF ChangeMode, IInv, TypeOK
<1> QED
  BY Zenon, <1>1, <1>2, <1>4 DEF ChangeMode, IInv, TypeOK

LEMMA ChangeSlaveStep ==
    ASSUME IInv, NEW n \in Node, ChangeSlave(n) PROVE IInv'
<1>1. \A m \in Node \ {n} : node_state'[m] = node_state[m]
  BY DEF ChangeSlave, SetState, IInv, TypeOK
<1>2. ~ Quiet
  BY AtNode DEF ChangeSlave, Takes, QuietNode
<1>3. jobs' \in [Node -> [Job -> Nat]] /\ ChainInv' /\ QuietInv'
  BY Zenon, <1>1, <1>2, ChainHalf DEF ChangeSlave, Job
<1> QED
  BY Zenon, <1>3 DEF ChangeSlave, IInv, TypeOK, SetState, Tell, State

LEMMA ServerFailsStep ==
    ASSUME IInv, NEW n \in Node, ServerFails(n) PROVE IInv'
<1>1. /\ faults' \in [crash : Nat, change : Nat, demote : Nat, memory : Nat]
      /\ ~ Quiet' /\ (Fed' <=> Fed)
  BY FaultKinds DEF ServerFails, IInv
<1>2. ChainInv'
  BY Zenon, <1>1 DEF ServerFails, cluster, IInv, ChainInv, ChainCount
<1> QED
  BY <1>1, <1>2 DEF ServerFails, cluster, IInv, TypeOK, QuietInv

LEMMA DemoteConfirmShutdownStep ==
    ASSUME IInv, NEW n \in Node, DemoteConfirmShutdown(n) PROVE IInv'
<1>1. ~ Quiet'
  BY AtNode DEF DemoteConfirmShutdown, QuietNode, Quiet
<1>2. /\ jobs' \in [Node -> [Job -> Nat]]
      /\ \A m \in Node \ {n} : jobs'[m] = jobs[m]
      /\ \A k \in Job \ {"DEMOTE"} : jobs'[n][k] = jobs[n][k]
  BY Zenon, QueueJob DEF DemoteConfirmShutdown, IInv, Job, Chain
<1>3. \A m \in Node : ChainCount(m)' = ChainCount(m)
  BY Zenon, <1>2 DEF DemoteConfirmShutdown, ChainCount, Job, Chain
<1>4. ChainInv'
  <2>1. up' = up /\ up \subseteq Node /\ (Fed' <=> Fed)
    BY Zenon DEF IInv, TypeOK, Fed, DemoteConfirmShutdown
  <2> QED
    BY Zenon, <1>3, <2>1 DEF IInv, ChainInv
<1>5. demoting' \in [Node -> Nat]
  BY DEF DemoteConfirmShutdown, IInv, TypeOK
<1> QED
  BY Zenon, <1>1, <1>2, <1>4, <1>5 DEF DemoteConfirmShutdown, IInv, TypeOK, QuietInv

LEMMA DemoteStep ==
    ASSUME IInv, NEW n \in Node, Demote(n) PROVE IInv'
<1>1. PICK j \in {"DEMOTE", "DEMOTE_AGAIN"} : DemoteWaits(n, j) \/ DemoteEnds(n, j)
  BY DEF Demote
<1>2. DemoteTells(n, j) /\ Takes(n, j) /\ j \in Job /\ j \notin Chain
  BY <1>1 DEF DemoteWaits, DemoteEnds, DemoteTells, Job, Chain
<1>3. ~ Quiet'
  BY <1>2, AtNode DEF DemoteTells, Takes, QuietNode, Quiet
<1>4. Then(n, j, "DEMOTE_AGAIN") \/ Done(n, j)
  BY <1>1 DEF DemoteWaits, DemoteEnds
<1>5. /\ jobs' \in [Node -> [Job -> Nat]]
      /\ \A m \in Node \ {n} : jobs'[m] = jobs[m]
      /\ \A k \in Job \ {"DEMOTE", "DEMOTE_AGAIN"} : jobs'[n][k] = jobs[n][k]
  <2>1. jobs[n][j] > 0 /\ "DEMOTE_AGAIN" \in Job
    BY <1>2 DEF Takes, Job
  <2>2. CASE Then(n, j, "DEMOTE_AGAIN")
    BY <1>2, <2>1, <2>2, ThenJob DEF IInv
  <2>3. CASE Done(n, j)
    BY Zenon, <1>2, <2>1, <2>3, DoneJob DEF IInv
  <2> QED
    BY Zenon, <1>4, <2>2, <2>3
<1>6. \A m \in Node : ChainCount(m)' = ChainCount(m)
  BY Zenon, <1>2, <1>5 DEF DemoteTells, ChainCount, Job, Chain
<1>7. ChainInv'
  <2>1. up' = up /\ up \subseteq Node /\ (Fed' <=> Fed)
    BY Zenon, <1>2 DEF IInv, TypeOK, Fed, DemoteTells
  <2> QED
    BY Zenon, <1>6, <2>1 DEF IInv, ChainInv
<1>8. hide_to_demote' \in [Node -> BOOLEAN]
  BY Zenon, <1>1 DEF DemoteWaits, DemoteEnds, IInv, TypeOK
<1> QED
  BY Zenon, <1>2, <1>3, <1>5, <1>7, <1>8
     DEF DemoteTells, SetState, Tell, State, IInv, TypeOK, QuietInv

LEMMA ReceiveStep ==
    ASSUME IInv, NEW n \in Node, NEW m \in Node, Receive(n, m) PROVE IInv'
<1>1. known' \in [Node -> [Node -> State]]
  <2>1. PICK state \in said[m] :
            known' = [known EXCEPT ![n] = [@ EXCEPT ![m] = state]]
    BY Zenon DEF Receive
  <2>2. state \in State
    BY DEF IInv, TypeOK
  <2> QED
    BY Zenon, <2>1, <2>2 DEF IInv, TypeOK
<1>2. ChainInv' /\ QuietInv'
  BY Zenon DEF Receive, IInv, ChainInv, QuietInv, ChainCount, Quiet, Fed, QuietNode
<1> QED
  BY Zenon, <1>1, <1>2 DEF Receive, IInv, TypeOK

LEMMA CrashStep ==
    ASSUME IInv, NEW n \in Node, Crash(n) PROVE IInv'
<1>1. /\ faults' \in [crash : Nat, change : Nat, demote : Nat, memory : Nat]
      /\ Quiet' => Quiet
      /\ Fed' <=> Fed
  BY Zenon, FaultKinds DEF Crash, IInv
<1>2. NoJobs \in [Job -> Nat] /\ \A j \in Job : NoJobs[j] = 0
  BY DEF NoJobs
<1>3. /\ jobs' \in [Node -> [Job -> Nat]]
      /\ jobs'[n] = NoJobs
      /\ \A m \in Node \ {n} : jobs'[m] = jobs[m]
  BY Zenon, <1>2 DEF Crash, IInv, TypeOK
<1>4. /\ worker'[n] = "idle" /\ demoting'[n] = 0
      /\ node_state'[n] = "SLAVE" /\ resource_state'[n] = "SLAVE"
      /\ \A m \in Node \ {n} : /\ worker'[m] = worker[m]
                               /\ demoting'[m] = demoting[m]
                               /\ node_state'[m] = node_state[m]
                               /\ resource_state'[m] = resource_state[m]
                               /\ (m \in up') <=> (m \in up)
      /\ n \notin up' /\ up' \subseteq Node
  BY Zenon DEF Crash, IInv, TypeOK
<1>5. ChainCount(n)' = 0
  BY <1>2, <1>3, <1>4 DEF ChainCount, Job, Chain
<1>6. QuietNode(n)'
  BY <1>2, <1>3, <1>4, <1>5 DEF QuietNode, Job, Chain
<1>7. ChainInv' /\ QuietInv'
  BY Zenon, <1>1, <1>3, <1>4, <1>5, <1>6, LocalStep
<1>8. known' \in [Node -> [Node -> State]]
  BY Zenon DEF Crash, IInv, TypeOK, State
<1> QED
  BY Zenon, <1>1, <1>3, <1>4, <1>7, <1>8 DEF Crash, IInv, TypeOK, State

LEMMA RestartStep ==
    ASSUME IInv, NEW n \in Node, Restart(n) PROVE IInv'
<1>1. /\ n \notin up
      /\ UNCHANGED <<node_state, known, worker, hide_to_demote, is_isolated,
                     resource_state, demoting, said, calm, faults>>
      /\ up' \subseteq Node /\ n \in up'
      /\ \A m \in Node \ {n} : (m \in up') <=> (m \in up)
  BY Zenon DEF Restart, IInv, TypeOK
<1>2. /\ jobs' \in [Node -> [Job -> Nat]]
      /\ \A m \in Node \ {n} : jobs'[m] = jobs[m]
      /\ jobs'[n]["CALC_SCORE"] = jobs[n]["CALC_SCORE"] + 1
      /\ \A k \in Job \ {"CALC_SCORE"} : jobs'[n][k] = jobs[n][k]
  BY Zenon, QueueJob DEF Restart, IInv, Job, Chain
<1>3. jobs[n] \in [Job -> Nat] /\ ChainCount(n) = 0
  BY Zenon, <1>1, AtNode
<1>4. ChainCount(n)' = 1
  <2>1. /\ jobs[n]["CALC_SCORE"] \in Nat /\ jobs[n]["CHECK_PING"] \in Nat
        /\ jobs[n]["FAILOVER"] \in Nat /\ jobs[n]["FAILBACK"] \in Nat
    BY Zenon, <1>3 DEF Job, Chain
  <2>2. /\ worker' = worker
        /\ jobs'[n]["CALC_SCORE"] = jobs[n]["CALC_SCORE"] + 1
        /\ jobs'[n]["CHECK_PING"] = jobs[n]["CHECK_PING"]
        /\ jobs'[n]["FAILOVER"] = jobs[n]["FAILOVER"]
        /\ jobs'[n]["FAILBACK"] = jobs[n]["FAILBACK"]
    BY Zenon, <1>1, <1>2 DEF Job, Chain
  <2> DEFINE calc == jobs[n]["CALC_SCORE"]
             ping == jobs[n]["CHECK_PING"]
             over == jobs[n]["FAILOVER"]
             back == jobs[n]["FAILBACK"]
             busy == IF worker[n] = "idle" THEN 0 ELSE 1
  <2>3. busy \in Nat
    BY ONLY DEF busy
  <2>4. /\ calc \in Nat /\ ping \in Nat /\ over \in Nat /\ back \in Nat
        /\ calc + ping + over + back + busy = 0
        /\ ChainCount(n)' = (calc + 1) + ping + over + back + busy
    BY Zenon, <1>3, <2>1, <2>2 DEF ChainCount
  <2> HIDE DEF calc, ping, over, back, busy
  <2>5. (calc + 1) + ping + over + back + busy = 1
    BY ONLY <2>3, <2>4
  <2> QED
    BY Zenon, <2>4, <2>5
<1>5. ASSUME Quiet' PROVE QuietNode(n)'
  <2>1. QuietNode(n)
    BY Zenon, <1>1, <1>5, AtNode DEF Quiet
  <2> QED
    BY <1>1, <1>2, <1>4, <2>1 DEF QuietNode, Job, Chain
<1>6. ChainInv' /\ QuietInv'
  <2>1. ChainCount(n)' >= 1
    BY ONLY <1>4
  <2>2. Quiet' => QuietNode(n)'
    BY Zenon, <1>5
  <2>3. (Quiet' => Quiet) /\ (Fed' => Fed)
    BY Zenon, <1>1 DEF Quiet, Fed
  <2> QED
    BY Zenon, <1>1, <1>2, <2>1, <2>2, <2>3, LocalStep
<1> QED
  BY Zenon, <1>1, <1>2, <1>6 DEF IInv, TypeOK

-----------------------------------------------------------------------------
(* Every step keeps the invariant.                                         *)
LEMMA NextIInv == IInv /\ [Next]_vars => IInv'
<1> SUFFICES ASSUME IInv, [Next]_vars PROVE IInv'
  OBVIOUS
<1>1. ASSUME NEW n \in Node, CalcScore(n) \/ NoJobArg(n) \/ RunJob(n)
      PROVE  IInv'
  BY <1>1, CalcScoreStep, NoJobArgStep, FinishStep, CheckPingStep, FailoverStep,
     FailbackStep, ChangeSlaveStep, DemoteStep DEF RunJob
<1>2. ASSUME NEW n \in Node,
             \/ ChangeMode(n) \/ ServerFails(n) \/ DemoteConfirmShutdown(n)
             \/ Crash(n) \/ Restart(n) \/ \E m \in Node : Receive(n, m)
      PROVE  IInv'
  BY Zenon, <1>2, ChangeModeStep, ServerFailsStep, DemoteConfirmShutdownStep,
     CrashStep, RestartStep, ReceiveStep
<1>3. CASE Calm
  <2>1. ChainInv' /\ QuietInv'
    BY Zenon, <1>3 DEF Calm, cluster, IInv, ChainInv, QuietInv, ChainCount, Quiet, Fed,
                QuietNode
  <2> QED
    BY Zenon, <1>3, <2>1 DEF Calm, cluster, IInv, TypeOK
<1>4. CASE UNCHANGED vars
  <2>1. ChainInv' /\ QuietInv'
    BY Zenon, <1>4 DEF vars, cluster, IInv, ChainInv, QuietInv, ChainCount, Quiet, Fed,
                QuietNode
  <2> QED
    BY Zenon, <1>4, <2>1 DEF vars, cluster, IInv, TypeOK
<1> QED
  BY <1>1, <1>2, <1>3, <1>4 DEF Next

(* The election of a node that is up never stops: whatever its jobs find,  *)
(* one of them is queued or runs (hb_thread_cluster_worker), as long as no *)
(* isolated master lacked the memory for its next job.                     *)
THEOREM ElectionGoesOn == Spec => []ChainGoesOn
<1>1. IInv => ChainGoesOn
  <2> SUFFICES ASSUME IInv, Fed, NEW n \in up, worker[n] = "idle"
               PROVE  \E j \in Chain : jobs[n][j] > 0
    BY DEF ChainGoesOn, Fed
  <2>1. n \in Node /\ jobs[n] \in [Job -> Nat] /\ ChainCount(n) >= 1
    BY Zenon, AtNode DEF IInv, TypeOK
  <2> QED
    BY <2>1 DEF ChainCount, Chain, Job
<1> QED
  BY <1>1, InitIInv, NextIInv, PTL DEF Spec

(* Partitions, lost or late messages, failed pings and crashes never leave *)
(* master servers on a node whose state is not MASTER, except for the time *)
(* in which its worker is about to make them slaves.                       *)
THEOREM ServersFollowTheNode == Spec => []ServersFollow
<1>1. IInv => ServersFollow
  BY DEF IInv, QuietInv, Quiet, QuietNode, ServersFollow
<1> QED
  BY <1>1, InitIInv, NextIInv, PTL DEF Spec

(* The states of the nodes, of their queues and of their views.            *)
THEOREM TypeCorrect == Spec => []TypeOK
BY InitIInv, NextIInv, PTL DEF Spec, IInv

=============================================================================
