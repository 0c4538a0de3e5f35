------------------------------ MODULE Heartbeat ------------------------------
(***************************************************************************)
(* The election of the master node (executables/master_heartbeat.c).       *)
(*                                                                         *)
(* Every node runs one thread that takes cluster jobs from a queue         *)
(* (hb_thread_cluster_worker), one that receives heartbeats, and threads   *)
(* that look after the server processes.  The node with the lowest score   *)
(* is the master.  hb_Cluster->node_state is what a node tells the others, *)
(* hb_Resource->node_state what it makes of its servers.                   *)
(*                                                                         *)
(* Time is abstracted: a job runs at any moment after it was queued, any   *)
(* node may be found silent, and a ping may fail, until the network is     *)
(* calm.  Left out: replica nodes, changes of the node list, and the       *)
(* deactivation of a node.                                                 *)
(***************************************************************************)
EXTENDS Integers, FiniteSets

CONSTANTS
    NumNodes,   \* nodes are 1 .. NumNodes, in the order of their priority
    MaxFaults   \* bound on crashes, failing servers, changemode commands
                \* and masters without memory for a job

Node == 1 .. NumNodes

(* A priority fits below the bits of the score that hold the state.        *)
ASSUME HeartbeatAssumption == NumNodes \in 1 .. 4095

State == {"MASTER", "TO_BE_MASTER", "SLAVE", "TO_BE_SLAVE", "UNKNOWN"}

(* DEMOTE_AGAIN is a DEMOTE job whose retries are not 0.                   *)
Chain == {"CALC_SCORE", "CHECK_PING", "FAILOVER", "FAILBACK"}
Job == Chain \cup {"CHANGE_SLAVE", "DEMOTE", "DEMOTE_AGAIN"}

VARIABLES
    node_state,      \* hb_Cluster->node_state
    known,           \* known[n][m]: node_state of the entry for m at n, m # n
    resource_state,  \* hb_Resource->node_state
    jobs,            \* jobs[n][j]: how many jobs of type j are queued
    worker,          \* what is left to do of the job the worker runs
    hide_to_demote,
    is_isolated,
    demoting,        \* how many demotions wait for the servers to stop
    said,            \* said[n]: the states n has sent in its heartbeats
    up,              \* the nodes that run
    calm,            \* no more faults: messages arrive, pings are answered
    faults           \* how many of each kind that MaxFaults bounds

cluster == <<node_state, known, jobs, worker, hide_to_demote, is_isolated>>
vars == <<cluster, resource_state, demoting, said, up, calm, faults>>

NoJobs == [j \in Job |-> 0]

(* hb_cluster_initialize; hb_cluster_job_init queues the first CALC_SCORE  *)
(* and the job that sends heartbeats.  That job repeats what was said: the *)
(* state of a node is always one of those in said.                         *)
Init ==
    /\ node_state = [n \in Node |-> "SLAVE"]
    /\ known = [n \in Node |-> [m \in Node |-> "UNKNOWN"]]
    /\ resource_state = [n \in Node |-> "SLAVE"]
    /\ jobs = [n \in Node |-> [NoJobs EXCEPT !["CALC_SCORE"] = 1]]
    /\ worker = [n \in Node |-> "idle"]
    /\ hide_to_demote = [n \in Node |-> FALSE]
    /\ is_isolated = [n \in Node |-> FALSE]
    /\ demoting = [n \in Node |-> 0]
    /\ said = [n \in Node |-> {"SLAVE"}]
    /\ up = Node
    /\ calm = FALSE
    /\ faults = [crash |-> 0, change |-> 0, demote |-> 0, memory |-> 0]

-----------------------------------------------------------------------------
(* The scores, with the width of a short.                                  *)
Short(x) == IF x >= 32768 THEN x - 65536 ELSE x

HB_NODE_SCORE_UNKNOWN == 32767
HB_NODE_SCORE_TO_BE_MASTER == Short(36864)

Score(state, priority) ==
    CASE state = "MASTER" -> Short(32768 + priority)
      [] state = "TO_BE_MASTER" -> Short(36864 + priority)
      [] state = "SLAVE" -> Short(40960 + priority)
      [] state = "TO_BE_SLAVE" -> Short(45056 + priority)
      [] OTHER -> HB_NODE_SCORE_UNKNOWN

(* hb_cluster_calc_score, when nothing was heard of the nodes in silent:   *)
(* the state of every node, the node with the lowest score and the number  *)
(* of masters.                                                             *)
Known(n, silent) ==
    [m \in Node |-> IF m \in silent THEN "UNKNOWN" ELSE known[n][m]]

StateAt(n, k, m) == IF m = n THEN node_state[n] ELSE k[m]

IsMaster(n, k, m) ==
    /\ Score(StateAt(n, k, m), m) < HB_NODE_SCORE_UNKNOWN
    /\ \A o \in Node :
           Score(StateAt(n, k, m), m) <= Score(StateAt(n, k, o), o)

NumMaster(n, k) ==
    Cardinality({m \in Node :
                    Score(StateAt(n, k, m), m) < HB_NODE_SCORE_TO_BE_MASTER})

Isolated(n, k) == \A m \in Node \ {n} : k[m] = "UNKNOWN"

(* The nodes nothing was heard of for too long.  Once the network is calm  *)
(* only a node that hides to be demoted can be among them.                 *)
Silent(n) ==
    SUBSET {m \in Node \ {n} : calm => hide_to_demote[m]}

(* hb_cluster_request_heartbeat_to_all                                     *)
Tell(n, states) == said' = [said EXCEPT ![n] = @ \cup states]

(* The worker takes a job of type j and queues one of type next.           *)
Takes(n, j) ==
    /\ n \in up
    /\ worker[n] = "idle"
    /\ jobs[n][j] > 0

Minus(q, j) == [q EXCEPT ![j] = @ - 1]
Plus(q, j) == [q EXCEPT ![j] = @ + 1]

Then(n, j, next) == jobs' = [jobs EXCEPT ![n] = Plus(Minus(@, j), next)]
Done(n, j) == jobs' = [jobs EXCEPT ![n] = Minus(@, j)]

SetState(n, state) == node_state' = [node_state EXCEPT ![n] = state]

(* One more of the things that the bound counts; none in a calm network.   *)
Fault(kind) ==
    /\ ~ calm
    /\ faults.crash + faults.change + faults.demote + faults.memory < MaxFaults
    /\ faults' = [faults EXCEPT ![kind] = @ + 1]

-----------------------------------------------------------------------------
(* The cases of hb_cluster_job_calc_score for a node that does not hide.   *)
IsolatedMaster(n, k) == node_state[n] = "MASTER" /\ Isolated(n, k)

(* Mutant: the number of masters is off by one.                            *)
SplitBrainOfThree(n, k) ==
    node_state[n] = "MASTER" /\ NumMaster(n, k) > 2 /\ ~ IsMaster(n, k, n)

SplitBrain(n, k) ==
    /\ node_state[n] = "MASTER"
    /\ NumMaster(n, k) > 1
    /\ ~ IsMaster(n, k, n)

Elected(n, k) == node_state[n] = "SLAVE" /\ IsMaster(n, k, n)

Relieved(n, k) == node_state[n] = "TO_BE_SLAVE" /\ NumMaster(n, k) = 1

(* FAILOVER follows without a ping when hb_alloc_cluster_job_arg fails.    *)
CalcScore(n) ==
    /\ Takes(n, "CALC_SCORE")
    /\ \E silent \in Silent(n) :
         LET k == Known(n, silent) IN
         /\ known' = [known EXCEPT ![n] = k]
         /\ is_isolated' = [is_isolated EXCEPT ![n] = Isolated(n, k)]
         /\ \/ /\ ~ hide_to_demote[n]
               /\ IsolatedMaster(n, k)
               /\ Then(n, "CALC_SCORE", "CHECK_PING")
               /\ UNCHANGED <<node_state, worker, said>>
            \/ /\ ~ hide_to_demote[n]
               /\ SplitBrain(n, k)
               /\ Then(n, "CALC_SCORE", "FAILBACK")
               /\ UNCHANGED <<node_state, worker, said>>
            \/ /\ ~ hide_to_demote[n]
               /\ Elected(n, k)
               /\ SetState(n, "TO_BE_MASTER")
               /\ Tell(n, {"TO_BE_MASTER"})
               /\ \E next \in {"CHECK_PING", "FAILOVER"} :
                     Then(n, "CALC_SCORE", next)
               /\ UNCHANGED worker
            \/ /\ ~ hide_to_demote[n]
               /\ Relieved(n, k)
               /\ SetState(n, "SLAVE")
               /\ Tell(n, {"SLAVE"})
               /\ Done(n, "CALC_SCORE")
               /\ worker' = [worker EXCEPT ![n] = "SLAVE"]
            \/ /\ \/ hide_to_demote[n]
                  \/ ~ ( \/ IsolatedMaster(n, k)
                         \/ SplitBrain(n, k)
                         \/ Elected(n, k)
                         \/ Relieved(n, k) )
               /\ UNCHANGED <<node_state, jobs, worker, said>>
    /\ UNCHANGED <<resource_state, hide_to_demote, demoting, up, calm, faults>>

(* An isolated master for whose ping hb_alloc_cluster_job_arg fails.       *)
NoJobArg(n) ==
    /\ Takes(n, "CALC_SCORE")
    /\ Fault("memory")
    /\ ~ hide_to_demote[n]
    /\ \E silent \in Silent(n) :
         LET k == Known(n, silent) IN
         /\ IsolatedMaster(n, k)
         /\ known' = [known EXCEPT ![n] = k]
    /\ is_isolated' = [is_isolated EXCEPT ![n] = TRUE]
    /\ Done(n, "CALC_SCORE")
    /\ UNCHANGED <<node_state, resource_state, worker, hide_to_demote,
                   demoting, said, up, calm>>

(* Mutants: the chain is not continued; the servers are forgotten.         *)
FinishAndStop(n) ==
    /\ worker[n] # "idle"
    /\ resource_state' = [resource_state EXCEPT ![n] = worker[n]]
    /\ worker' = [worker EXCEPT ![n] = "idle"]
    /\ UNCHANGED <<node_state, known, jobs, hide_to_demote, is_isolated,
                   demoting, said, up, calm, faults>>

FinishWithoutServers(n) ==
    /\ worker[n] # "idle"
    /\ worker' = [worker EXCEPT ![n] = "idle"]
    /\ jobs' = [jobs EXCEPT ![n] = Plus(@, "CALC_SCORE")]
    /\ UNCHANGED <<node_state, known, resource_state, hide_to_demote,
                   is_isolated, demoting, said, up, calm, faults>>

(* The end of a job that set the state of the node and released the lock   *)
(* of the cluster: it sets the state of the resources (and, for a failback,*)
(* kills the servers), and queues CALC_SCORE.                              *)
Finish(n) ==
    /\ worker[n] # "idle"
    /\ resource_state' = [resource_state EXCEPT ![n] = worker[n]]
    /\ worker' = [worker EXCEPT ![n] = "idle"]
    /\ jobs' = [jobs EXCEPT ![n] = Plus(@, "CALC_SCORE")]
    /\ UNCHANGED <<node_state, known, hide_to_demote, is_isolated, demoting,
                   said, up, calm, faults>>

(* hb_cluster_job_check_ping.  A ping is "ok" when a host answered, and    *)
(* also when there is no valid host to ask; the repeated tries are one.    *)
(* A master is then safe, and a slave goes on.                             *)
CheckPing(n) ==
    /\ Takes(n, "CHECK_PING")
    /\ \E ok \in {TRUE, calm} :
         \/ /\ node_state[n] = "MASTER" /\ ~ ok
            /\ Then(n, "CHECK_PING", "FAILBACK")
            /\ Tell(n, {"MASTER"})
            /\ UNCHANGED node_state
         \/ /\ node_state[n] = "MASTER" /\ ok
            /\ Then(n, "CHECK_PING", "CALC_SCORE")
            /\ Tell(n, {"MASTER"})
            /\ UNCHANGED node_state
         \/ /\ node_state[n] # "MASTER" /\ ~ ok
            /\ SetState(n, "SLAVE")
            /\ Tell(n, {"SLAVE"})
            /\ Then(n, "CHECK_PING", "CALC_SCORE")
         \/ /\ node_state[n] # "MASTER" /\ ok
            /\ Tell(n, {node_state[n]})
            /\ Then(n, "CHECK_PING", "FAILOVER")
            /\ UNCHANGED node_state
    /\ UNCHANGED <<known, resource_state, worker, hide_to_demote, is_isolated,
                   demoting, up, calm, faults>>

(* hb_cluster_job_failover                                                 *)
Failover(n) ==
    /\ Takes(n, "FAILOVER")
    /\ \E silent \in Silent(n) :
         LET k == Known(n, silent) IN
         /\ known' = [known EXCEPT ![n] = k]
         /\ \/ /\ IsMaster(n, k, n)
               /\ SetState(n, "MASTER")
               /\ resource_state' = [resource_state EXCEPT ![n] = "MASTER"]
               /\ Tell(n, {"MASTER"})
            \/ /\ ~ IsMaster(n, k, n)
               /\ SetState(n, "SLAVE")
               /\ Tell(n, {"SLAVE"})
               /\ UNCHANGED resource_state
    /\ Then(n, "FAILOVER", "CALC_SCORE")
    /\ UNCHANGED <<worker, hide_to_demote, is_isolated, demoting, up, calm,
                   faults>>

(* hb_cluster_job_failback, up to the release of the lock of the cluster.  *)
Failback(n) ==
    /\ Takes(n, "FAILBACK")
    /\ SetState(n, "SLAVE")
    /\ Tell(n, {"SLAVE"})
    /\ Done(n, "FAILBACK")
    /\ worker' = [worker EXCEPT ![n] = "SLAVE"]
    /\ UNCHANGED <<known, resource_state, hide_to_demote, is_isolated,
                   demoting, up, calm, faults>>

(* hb_changemode and hb_cluster_job_changeslave: "changemode slave".  That *)
(* it is refused while a server is on its way to be the master, and the    *)
(* job CHANGEMODE_FORCE, are about the states of servers, not modelled.    *)
ChangeMode(n) ==
    /\ n \in up
    /\ Fault("change")
    /\ jobs' = [jobs EXCEPT ![n] = Plus(@, "CHANGE_SLAVE")]
    /\ UNCHANGED <<node_state, known, worker, hide_to_demote, is_isolated,
                   resource_state, demoting, said, up, calm>>

ChangeSlave(n) ==
    /\ Takes(n, "CHANGE_SLAVE")
    /\ SetState(n, "TO_BE_SLAVE")
    /\ Tell(n, {"TO_BE_SLAVE"})
    /\ Done(n, "CHANGE_SLAVE")
    /\ worker' = [worker EXCEPT ![n] = "TO_BE_SLAVE"]
    /\ UNCHANGED <<known, resource_state, hide_to_demote, is_isolated,
                   demoting, up, calm, faults>>

-----------------------------------------------------------------------------
(* A server of the master keeps failing, or its log no longer grows        *)
(* (hb_cleanup_conn_and_start_process, hb_resource_job_confirm_start,      *)
(* hb_thread_check_disk_failure): the node will be demoted.                *)
ServerFails(n) ==
    /\ n \in up
    /\ Fault("demote")
    /\ resource_state[n] = "MASTER"
    /\ ~ is_isolated[n]
    /\ resource_state' = [resource_state EXCEPT ![n] = "SLAVE"]
    /\ demoting' = [demoting EXCEPT ![n] = @ + 1]
    /\ UNCHANGED <<cluster, said, up, calm>>

(* hb_resource_job_demote_start_shutdown and                               *)
(* hb_resource_job_demote_confirm_shutdown: the servers have stopped or    *)
(* were killed, the cluster's worker can go on.                            *)
DemoteConfirmShutdown(n) ==
    /\ demoting[n] > 0
    /\ demoting' = [demoting EXCEPT ![n] = @ - 1]
    /\ jobs' = [jobs EXCEPT ![n] = Plus(@, "DEMOTE")]
    /\ UNCHANGED <<node_state, known, worker, hide_to_demote, is_isolated,
                   resource_state, said, up, calm, faults>>

(* hb_cluster_job_demote.  A node that hides sends no heartbeat.           *)
FoundNewMaster(n) == \E m \in Node \ {n} : known[n][m] = "MASTER"

DemoteTells(n, j) ==
    /\ Takes(n, j)
    /\ SetState(n, "SLAVE")
    /\ Tell(n, IF j = "DEMOTE" THEN {"UNKNOWN"} ELSE {})
    /\ UNCHANGED <<known, resource_state, worker, is_isolated, demoting, up,
                   calm, faults>>

DemoteWaits(n, j) ==
    /\ DemoteTells(n, j)
    /\ ~ is_isolated[n] /\ ~ FoundNewMaster(n)
    /\ hide_to_demote' = [hide_to_demote EXCEPT ![n] = TRUE]
    /\ Then(n, j, "DEMOTE_AGAIN")

DemoteEnds(n, j) ==
    /\ DemoteTells(n, j)
    /\ is_isolated[n] \/ FoundNewMaster(n) \/ j = "DEMOTE_AGAIN"
    /\ hide_to_demote' = [hide_to_demote EXCEPT ![n] = FALSE]
    /\ Done(n, j)

Demote(n) ==
    \E j \in {"DEMOTE", "DEMOTE_AGAIN"} : DemoteWaits(n, j) \/ DemoteEnds(n, j)

-----------------------------------------------------------------------------
(* hb_cluster_receive_heartbeat.  A message may be lost, come twice, late  *)
(* or out of order.  In a calm network it tells the state its sender is in *)
(* (hb_cluster_job_heartbeat), or was when it began to hide.               *)
Receive(n, m) ==
    /\ n \in up /\ m \in Node \ {n}
    /\ \E state \in said[m] :
         /\ calm => \/ state = node_state[m]
                    \/ state = "UNKNOWN" /\ hide_to_demote[m]
         /\ known[n][m] # state
         /\ known' = [known EXCEPT ![n] = [@ EXCEPT ![m] = state]]
    /\ UNCHANGED <<node_state, jobs, worker, hide_to_demote, is_isolated,
                   resource_state, demoting, said, up, calm, faults>>

(* A node crashes with its servers, and starts again.                      *)
Crash(n) ==
    /\ n \in up
    /\ Fault("crash")
    /\ up' = up \ {n}
    /\ node_state' = [node_state EXCEPT ![n] = "SLAVE"]
    /\ known' = [known EXCEPT ![n] = [m \in Node |-> "UNKNOWN"]]
    /\ resource_state' = [resource_state EXCEPT ![n] = "SLAVE"]
    /\ jobs' = [jobs EXCEPT ![n] = NoJobs]
    /\ worker' = [worker EXCEPT ![n] = "idle"]
    /\ hide_to_demote' = [hide_to_demote EXCEPT ![n] = FALSE]
    /\ is_isolated' = [is_isolated EXCEPT ![n] = FALSE]
    /\ demoting' = [demoting EXCEPT ![n] = 0]
    /\ UNCHANGED <<said, calm>>

Restart(n) ==
    /\ n \in Node \ up
    /\ up' = up \cup {n}
    /\ jobs' = [jobs EXCEPT ![n] = Plus(@, "CALC_SCORE")]
    /\ UNCHANGED <<node_state, known, worker, hide_to_demote, is_isolated,
                   resource_state, demoting, said, calm, faults>>

(* From here on the nodes stay up and hear each other.                     *)
Calm ==
    /\ up = Node /\ ~ calm
    /\ calm' = TRUE
    /\ UNCHANGED <<cluster, resource_state, demoting, said, up, faults>>

(* The jobs of the worker other than CALC_SCORE.                           *)
RunJob(n) ==
    \/ Finish(n) \/ CheckPing(n) \/ Failover(n) \/ Failback(n)
    \/ ChangeSlave(n) \/ Demote(n)

Next ==
    \/ \E n \in Node :
         \/ CalcScore(n) \/ NoJobArg(n) \/ RunJob(n)
         \/ ChangeMode(n) \/ ServerFails(n) \/ DemoteConfirmShutdown(n)
         \/ Crash(n) \/ Restart(n)
         \/ \E m \in Node : Receive(n, m)
    \/ Calm

Spec == Init /\ [][Next]_vars

(* Every thread goes on, every queued job is run in its turn, a node that  *)
(* hides stops waiting in the end, and the network becomes calm.           *)
Fairness ==
    /\ \A n \in Node :
         /\ WF_vars(CalcScore(n)) /\ WF_vars(RunJob(n))
         /\ WF_vars(DemoteConfirmShutdown(n))
         /\ SF_vars(DemoteEnds(n, "DEMOTE_AGAIN"))
         /\ WF_vars(Restart(n))
         /\ \A m \in Node : WF_vars(Receive(n, m))
    /\ WF_vars(Calm)

FairSpec == Spec /\ Fairness

-----------------------------------------------------------------------------
(* The types of the variables; a node never is in state UNKNOWN itself.    *)
TypeOK ==
    /\ node_state \in [Node -> State \ {"UNKNOWN"}]
    /\ known \in [Node -> [Node -> State]]
    /\ resource_state \in [Node -> {"MASTER", "SLAVE", "TO_BE_SLAVE"}]
    /\ jobs \in [Node -> [Job -> Nat]]
    /\ worker \in [Node -> {"idle", "SLAVE", "TO_BE_SLAVE"}]
    /\ hide_to_demote \in [Node -> BOOLEAN]
    /\ is_isolated \in [Node -> BOOLEAN]
    /\ demoting \in [Node -> Nat]
    /\ said \in [Node -> SUBSET State]
    /\ up \in SUBSET Node
    /\ calm \in BOOLEAN
    /\ faults \in [crash : Nat, change : Nat, demote : Nat, memory : Nat]

(* The chain of jobs that elects the master breaks on one path only, that  *)
(* of an isolated master in hb_cluster_job_calc_score that has no memory   *)
(* for its next job and returns without one.                               *)
ChainGoesOn ==
    faults.memory = 0 =>
        \A n \in up : worker[n] # "idle" \/ \E j \in Chain : jobs[n][j] > 0

(* The servers of a node are masters only while the node says that it is   *)
(* the master, or is about to take that back: no partition, lost message,  *)
(* failed ping or crash leaves a master server on a node that the others   *)
(* believe to be a slave.                                                  *)
ServersFollow ==
    faults.change = 0 /\ faults.demote = 0 =>
        \A n \in Node :
            resource_state[n] = "MASTER" =>
                node_state[n] = "MASTER" \/ worker[n] # "idle"

(* Once the network is calm the nodes agree on one master, and stay so,    *)
(* unless the chain of a node was broken (ChainGoesOn).                    *)
(* When only crashes, partitions and lost messages came before, the        *)
(* servers of the master are the only master servers, too.                 *)
OneMaster ==
    \E m \in Node :
        /\ node_state[m] = "MASTER"
        /\ \A n \in Node \ {m} :
              node_state[n] = "SLAVE" /\ known[n][m] = "MASTER"

ServersAgree == \A n \in Node : resource_state[n] = node_state[n]

Settles ==
    <>[](faults.memory = 0 =>
             /\ OneMaster
             /\ faults.change = 0 /\ faults.demote = 0 => ServersAgree)

=============================================================================
