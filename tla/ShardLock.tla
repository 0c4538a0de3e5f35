----------------------------- MODULE ShardLock -----------------------------
(***************************************************************************)
(* Shard keys, groups and their hand-over to another node.                 *)
(*                                                                         *)
(* A row of a shard table belongs to a shard key, a shard key to a group,  *)
(* and a node owns some of the groups.  A statement on a shard table names *)
(* one key: lock_shard_key_lock (transaction/lock_manager.c) checks that   *)
(* the node owns the key's group, takes the X lock of the key if the       *)
(* statement updates, records key and group in the transaction descriptor, *)
(* and checks the ownership again.  When the migrator moves a group away   *)
(* it asks the node to give it up (xlogtb_update_group_id in               *)
(* log_tran_table.c): under the mutex of the transaction table the group's *)
(* bit is cleared as soon as no working transaction has recorded the       *)
(* group, and then a log record marks the end of the group's changes; what *)
(* the node logs for the group after that mark never reaches the new owner *)
(* (rebalance/rbl_sync_log.c stops there).                                 *)
(*                                                                         *)
(* Left out: the global and the catalog key, DDL, and the statements of    *)
(* the migrator itself (negative group ids), which skip these checks.      *)
(***************************************************************************)
EXTENDS Naturals, FiniteSets

CONSTANTS
    Tran,       \* transactions (descriptors)
    Key,        \* shard keys
    Group,      \* groups
    GroupOf,    \* GroupOf[k]: the group of key k, computed by the client
    Selects,    \* do transactions run plain SELECT statements on one key?
    None        \* no key, no group, no transaction

ASSUME GroupAssumption == GroupOf \in [Key -> Group]
ASSUME NoneAssumption == None \notin Tran \cup Key \cup Group
ASSUME SelectsAssumption == Selects \in BOOLEAN

VARIABLES
    own,        \* own[g]: the group's bit in the server's shared memory
    xlock,      \* xlock[k]: who holds the X lock of key k, or None
    pc,         \* pc[t]: where transaction t is
    stmt,       \* stmt[t]: its statement, the key and whether it updates
    working,    \* working[t]: t is in the list of working transactions
    key,        \* key[t]: tran_shard_key
    gid,        \* gid[t]: tran_group_id
    dirty,      \* dirty[t]: keys of rows t has changed and not yet ended
    mig,        \* mig[g]: where the migrator of group g is
    handed      \* handed[g]: the end mark of g is in the log

vars == <<own, xlock, pc, stmt, working, key, gid, dirty, mig, handed>>

tdes == <<working, key, gid>>

NoStmt == [key |-> None, update |-> FALSE]

Init ==
    /\ own \in [Group -> BOOLEAN]
    /\ xlock = [k \in Key |-> None]
    /\ pc = [t \in Tran |-> "idle"]
    /\ stmt = [t \in Tran |-> NoStmt]
    /\ working = [t \in Tran |-> FALSE]
    /\ key = [t \in Tran |-> None]
    /\ gid = [t \in Tran |-> None]
    /\ dirty = [t \in Tran |-> {}]
    /\ mig = [g \in Group |-> "idle"]
    /\ handed = [g \in Group |-> FALSE]

Goto(t, place) == pc' = [pc EXCEPT ![t] = place]

-----------------------------------------------------------------------------
(* A transaction.                                                          *)

(* logtb_get_new_tran_id: the transaction joins the working ones.          *)
Begin(t) ==
    /\ pc[t] = "idle"
    /\ working' = [working EXCEPT ![t] = TRUE]
    /\ Goto(t, "run")
    /\ UNCHANGED <<own, xlock, stmt, key, gid, dirty, mig, handed>>

\* Mutant: a transaction may go on to another key.
RegisteredNever(t) == FALSE

Registered(t) == key[t] # None

(* The first statement on a shard table: the ownership check is passed,    *)
(* and an updating statement goes for the lock.                            *)
FirstStatement(t, k, update) ==
    /\ pc[t] = "run"
    /\ own[GroupOf[k]]
    /\ ~Registered(t)
    /\ stmt' = [stmt EXCEPT ![t] = [key |-> k, update |-> update]]
    /\ Goto(t, IF update THEN "lock" ELSE "register")
    /\ UNCHANGED <<own, xlock, working, key, gid, dirty, mig, handed>>

(* A later statement: it must name the recorded key; no lock is taken.     *)
LaterStatement(t, k, update) ==
    /\ pc[t] = "run"
    /\ own[GroupOf[k]]
    /\ key[t] = k
    /\ stmt' = [stmt EXCEPT ![t] = [key |-> k, update |-> update]]
    /\ Goto(t, IF update THEN "write" ELSE "run")
    /\ UNCHANGED <<own, xlock, working, key, gid, dirty, mig, handed>>

(* lock_object (shard_key, X_LOCK): granted, or refused at a timeout, an   *)
(* interrupt or the shutdown.                                              *)
LockKey(t) ==
    /\ pc[t] = "lock"
    /\ xlock[stmt[t].key] \in {None, t}
    /\ xlock' = [xlock EXCEPT ![stmt[t].key] = t]
    /\ Goto(t, "register")
    /\ UNCHANGED <<own, stmt, working, key, gid, dirty, mig, handed>>

LockFails(t) ==
    /\ pc[t] = "lock"
    /\ Goto(t, "run")
    /\ UNCHANGED <<own, xlock, stmt, working, key, gid, dirty, mig, handed>>

(* Under TR_TABLE_LOCK.                                                    *)
Register(t) ==
    /\ pc[t] = "register"
    /\ key' = [key EXCEPT ![t] = stmt[t].key]
    /\ gid' = [gid EXCEPT ![t] = GroupOf[stmt[t].key]]
    /\ Goto(t, "recheck")
    /\ UNCHANGED <<own, xlock, stmt, working, dirty, mig, handed>>

\* Mutant: the ownership is not checked again.
RecheckNothing(t) ==
    /\ pc[t] = "recheck"
    /\ Goto(t, IF stmt[t].update THEN "write" ELSE "run")
    /\ UNCHANGED <<own, xlock, stmt, working, key, gid, dirty, mig, handed>>

(* The second ownership check; when it fails the statement fails, with the *)
(* key and the group left in the descriptor.                               *)
Recheck(t) ==
    /\ pc[t] = "recheck"
    /\ Goto(t, IF own[GroupOf[stmt[t].key]] /\ stmt[t].update
               THEN "write" ELSE "run")
    /\ UNCHANGED <<own, xlock, stmt, working, key, gid, dirty, mig, handed>>

(* The statement changes rows of its key, any number of them, and ends.    *)
Write(t) ==
    /\ pc[t] = "write"
    /\ dirty' = [dirty EXCEPT ![t] = @ \cup {stmt[t].key}]
    /\ UNCHANGED <<own, xlock, pc, stmt, working, key, gid, mig, handed>>

EndStatement(t) ==
    /\ pc[t] = "write"
    /\ Goto(t, "run")
    /\ UNCHANGED <<own, xlock, stmt, working, key, gid, dirty, mig, handed>>

(* log_complete: the commit or abort record is appended ...                *)
End(t) ==
    /\ pc[t] = "run"
    /\ dirty' = [dirty EXCEPT ![t] = {}]
    /\ Goto(t, "unlock")
    /\ UNCHANGED <<own, xlock, stmt, working, key, gid, mig, handed>>

(* ... then the locks are released ...                                     *)
UnlockAll(t) ==
    /\ pc[t] = "unlock"
    /\ xlock' = [k \in Key |-> IF xlock[k] = t THEN None ELSE xlock[k]]
    /\ Goto(t, "clear")
    /\ UNCHANGED <<own, stmt, working, key, gid, dirty, mig, handed>>

(* ... then the descriptor is cleared, under TR_TABLE_LOCK.                *)
ClearTdes(t) ==
    /\ pc[t] = "clear"
    /\ working' = [working EXCEPT ![t] = FALSE]
    /\ key' = [key EXCEPT ![t] = None]
    /\ gid' = [gid EXCEPT ![t] = None]
    /\ stmt' = [stmt EXCEPT ![t] = NoStmt]
    /\ Goto(t, "idle")
    /\ UNCHANGED <<own, xlock, dirty, mig, handed>>

-----------------------------------------------------------------------------
(* The migrator of a group (xlogtb_update_group_id).                       *)

\* Mutant: only statements that are executing are looked for.
ExistWorkingStatement(g) == \E t \in Tran : pc[t] = "write" /\ gid[t] = g

ExistWorkingTran(g) == \E t \in Tran : working[t] /\ gid[t] = g

StartOff(g) ==
    /\ mig[g] = "idle" /\ own[g]
    /\ mig' = [mig EXCEPT ![g] = "off"]
    /\ UNCHANGED <<own, xlock, pc, stmt, tdes, dirty, handed>>

(* One turn of the loop that finds no working transaction of the group.    *)
ClearBit(g) ==
    /\ mig[g] = "off"
    /\ ~ExistWorkingTran(g)
    /\ own' = [own EXCEPT ![g] = FALSE]
    /\ mig' = [mig EXCEPT ![g] = "mark"]
    /\ UNCHANGED <<xlock, pc, stmt, tdes, dirty, handed>>

(* The migrator is interrupted between two turns.                          *)
InterruptOff(g) ==
    /\ mig[g] = "off"
    /\ mig' = [mig EXCEPT ![g] = "idle"]
    /\ UNCHANGED <<own, xlock, pc, stmt, tdes, dirty, handed>>

(* log_append_gid_bitmap_update_record.                                    *)
AppendMark(g) ==
    /\ mig[g] = "mark"
    /\ handed' = [handed EXCEPT ![g] = TRUE]
    /\ mig' = [mig EXCEPT ![g] = "idle"]
    /\ UNCHANGED <<own, xlock, pc, stmt, tdes, dirty>>

(* The node receives the group, or gets it back when a migration fails.    *)
EnableBit(g) ==
    /\ mig[g] = "idle" /\ ~own[g]
    /\ own' = [own EXCEPT ![g] = TRUE]
    /\ handed' = [handed EXCEPT ![g] = FALSE]
    /\ UNCHANGED <<xlock, pc, stmt, tdes, dirty, mig>>

-----------------------------------------------------------------------------
Updates == IF Selects THEN {TRUE, FALSE} ELSE {TRUE}

TranStep(t) ==
    \/ Begin(t)
    \/ \E k \in Key, u \in Updates : FirstStatement(t, k, u)
    \/ \E k \in Key, u \in Updates : LaterStatement(t, k, u)
    \/ LockKey(t)
    \/ LockFails(t)
    \/ Register(t)
    \/ Recheck(t)
    \/ Write(t)
    \/ EndStatement(t)
    \/ End(t)
    \/ UnlockAll(t)
    \/ ClearTdes(t)

MigratorStep(g) ==
    \/ StartOff(g)
    \/ ClearBit(g)
    \/ InterruptOff(g)
    \/ AppendMark(g)
    \/ EnableBit(g)

Next ==
    \/ \E t \in Tran : TranStep(t)
    \/ \E g \in Group : MigratorStep(g)

Spec == Init /\ [][Next]_vars

-----------------------------------------------------------------------------
(* The descriptors, the locks and the migrators keep their types           *)
(* (LOG_TDES, the group bitmap), and a descriptor has both a key and a     *)
(* group or neither.                                                       *)
TypeOK ==
    /\ own \in [Group -> BOOLEAN]
    /\ xlock \in [Key -> Tran \cup {None}]
    /\ pc \in [Tran -> {"idle", "run", "lock", "register", "recheck", "write",
                        "unlock", "clear"}]
    /\ stmt \in [Tran -> [key : Key \cup {None}, update : BOOLEAN]]
    /\ working \in [Tran -> BOOLEAN]
    /\ key \in [Tran -> Key \cup {None}]
    /\ gid \in [Tran -> Group \cup {None}]
    /\ dirty \in [Tran -> SUBSET Key]
    /\ mig \in [Group -> {"idle", "off", "mark"}]
    /\ handed \in [Group -> BOOLEAN]
    /\ \A t \in Tran : key[t] = None <=> gid[t] = None

(* A statement that has passed lock_shard_key_lock changes rows only while *)
(* the node owns the group, however the migrator interleaves               *)
(* (heap_file.c:10702 "is impossible", and the assertions at 5177, 5262).  *)
WritesOwned ==
    \A t \in Tran : pc[t] = "write" => own[GroupOf[stmt[t].key]]

(* When the end mark of a group is in the log, every transaction that      *)
(* changed rows of the group has its commit or abort record before it: the *)
(* new owner misses nothing (log_append_gid_bitmap_update_record after the *)
(* loop in xlogtb_update_group_id).                                        *)
CleanHandover ==
    \A g \in Group : handed[g] =>
        \A t \in Tran : \A k \in dirty[t] : GroupOf[k] # g

(* A transaction that waits for a key's lock holds no other key's lock, so *)
(* shard key locks cannot deadlock (lock_shard_key_lock refuses a second   *)
(* key; the repository's README calls the locking deadlock free).          *)
WaitsEmptyHanded ==
    \A t \in Tran : pc[t] = "lock" => \A k \in Key : xlock[k] # t

(* Two transactions never have uncommitted changes under one shard key:    *)
(* what the X lock taken in lock_shard_key_lock is for.                    *)
ExclusiveWriters ==
    \A t, u \in Tran : t # u => dirty[t] \cap dirty[u] = {}

=============================================================================
