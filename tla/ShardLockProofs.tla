-------------------------- MODULE ShardLockProofs --------------------------
(***************************************************************************)
(* Proofs about ShardLock, for any transactions, keys and groups.          *)
(*                                                                         *)
(* The argument of the hand-over: a descriptor that names a group and is   *)
(* among the working transactions keeps the group's bit from being         *)
(* cleared, so once the bit has been seen set after the descriptor was     *)
(* filled in it stays set until the descriptor is cleared; and a           *)
(* transaction has changed rows only of the key its descriptor names.      *)
(***************************************************************************)
EXTENDS ShardLock, TLAPS

(* What a descriptor says at each place of the code.                       *)
TranInv(t) ==
    /\ pc[t] # "idle" => working[t]
    /\ pc[t] = "idle" => key[t] = None
    /\ key[t] \in Key => gid[t] = GroupOf[key[t]]
    /\ pc[t] \in {"lock", "register"} => key[t] = None /\ stmt[t].key \in Key
    /\ pc[t] \in {"recheck", "write"} => key[t] = stmt[t].key /\ key[t] \in Key
    /\ pc[t] = "write" => own[gid[t]]
    /\ \A k \in dirty[t] : /\ pc[t] \in {"run", "write"}
                           /\ key[t] = k
                           /\ own[gid[t]]

(* A group whose end mark is in the log, or about to be, is not owned.     *)
GroupInv(g) == handed[g] \/ mig[g] = "mark" => ~own[g]

HandoverInv ==
    /\ TypeOK
    /\ \A t \in Tran : TranInv(t)
    /\ \A g \in Group : GroupInv(g)

(* The initial states satisfy the invariant.                               *)
LEMMA HandoverInit == Init => HandoverInv
<1> USE GroupAssumption, NoneAssumption
<1> SUFFICES ASSUME Init PROVE HandoverInv
  OBVIOUS
<1>1. TypeOK
  BY DEF Init, TypeOK, NoStmt
<1>2. \A t \in Tran : TranInv(t)
  BY DEF Init, TranInv
<1>3. \A g \in Group : GroupInv(g)
  BY DEF Init, GroupInv
<1> QED
  BY <1>1, <1>2, <1>3 DEF HandoverInv

(* A step of a transaction keeps it: other descriptors are not touched,    *)
(* and no bit changes.                                                     *)
LEMMA HandoverTran ==
    ASSUME HandoverInv, NEW t \in Tran, TranStep(t)
    PROVE  HandoverInv'
<1> USE GroupAssumption, NoneAssumption
<1>0. TypeOK /\ TranInv(t)
  BY DEF HandoverInv
<1>1. UNCHANGED <<own, mig, handed>>
  BY Zenon DEF TranStep, Begin, FirstStatement, LaterStatement, LockKey, LockFails,
         Register, Recheck, Write, EndStatement, End, UnlockAll, ClearTdes
<1>2. \A g \in Group : GroupInv(g)'
  BY <1>1 DEF HandoverInv, GroupInv
<1>3. \A u \in Tran \ {t} : TranInv(u)'
  <2> SUFFICES ASSUME NEW u \in Tran \ {t} PROVE TranInv(u)'
    OBVIOUS
  <2>1. TranInv(u)
    BY DEF HandoverInv
  <2>2. /\ pc'[u] = pc[u] /\ stmt'[u] = stmt[u] /\ working'[u] = working[u]
        /\ key'[u] = key[u] /\ gid'[u] = gid[u] /\ dirty'[u] = dirty[u]
    BY <1>0 DEF TypeOK, TranStep, Begin, FirstStatement, LaterStatement,
                LockKey, LockFails, Register, Recheck, Write, EndStatement,
                End, UnlockAll, ClearTdes, Goto
  <2> QED
    BY <1>1, <2>1, <2>2 DEF TranInv
<1>4. TypeOK' /\ TranInv(t)'
  <2>1. CASE Begin(t)
    BY <1>0, <2>1 DEF TypeOK, TranInv, Begin, Goto
  <2>2. ASSUME NEW k \in Key, NEW u \in Updates, FirstStatement(t, k, u)
        PROVE  TypeOK' /\ TranInv(t)'
    <3>1. u \in BOOLEAN
      BY Zenon DEF Updates
    <3> QED
      BY <1>0, <2>2, <3>1
      DEF TypeOK, TranInv, FirstStatement, Goto, Registered
  <2>3. ASSUME NEW k \in Key, NEW u \in Updates, LaterStatement(t, k, u)
        PROVE  TypeOK' /\ TranInv(t)'
    <3>1. u \in BOOLEAN
      BY Zenon DEF Updates
    <3> QED
      BY <1>0, <2>3, <3>1 DEF TypeOK, TranInv, LaterStatement, Goto
  <2>4. CASE LockKey(t)
    BY <1>0, <2>4 DEF TypeOK, TranInv, LockKey, Goto
  <2>5. CASE LockFails(t)
    BY <1>0, <2>5 DEF TypeOK, TranInv, LockFails, Goto
  <2>6. CASE Register(t)
    BY <1>0, <2>6 DEF TypeOK, TranInv, Register, Goto
  <2>7. CASE Recheck(t)
    BY <1>0, <2>7 DEF TypeOK, TranInv, Recheck, Goto
  <2>8. CASE Write(t)
    BY <1>0, <2>8 DEF TypeOK, TranInv, Write
  <2>9. CASE EndStatement(t)
    BY <1>0, <2>9 DEF TypeOK, TranInv, EndStatement, Goto
  <2>10. CASE End(t)
    BY <1>0, <2>10 DEF TypeOK, TranInv, End, Goto
  <2>11. CASE UnlockAll(t)
    BY <1>0, <2>11 DEF TypeOK, TranInv, UnlockAll, Goto
  <2>12. CASE ClearTdes(t)
    BY <1>0, <2>12 DEF TypeOK, TranInv, ClearTdes, Goto, NoStmt
  <2> QED
    BY <2>1, <2>2, <2>3, <2>4, <2>5, <2>6, <2>7, <2>8, <2>9, <2>10, <2>11,
       <2>12 DEF TranStep
<1> QED
  BY <1>2, <1>3, <1>4 DEF HandoverInv

(* A step of a migrator keeps it: only ClearBit clears a bit, and no       *)
(* working descriptor names that group.                                    *)
LEMMA HandoverMigrator ==
    ASSUME HandoverInv, NEW g \in Group, MigratorStep(g)
    PROVE  HandoverInv'
<1> USE GroupAssumption, NoneAssumption
<1>0. TypeOK
  BY DEF HandoverInv
<1>1. UNCHANGED <<pc, stmt, working, key, gid, dirty, xlock>>
  BY DEF MigratorStep, StartOff, ClearBit, InterruptOff, AppendMark,
         EnableBit, tdes
<1>2. TypeOK'
  <2>1. CASE StartOff(g)
    BY <1>0, <1>1, <2>1 DEF TypeOK, StartOff
  <2>2. CASE ClearBit(g)
    BY <1>0, <1>1, <2>2 DEF TypeOK, ClearBit
  <2>3. CASE InterruptOff(g)
    BY <1>0, <1>1, <2>3 DEF TypeOK, InterruptOff
  <2>4. CASE AppendMark(g)
    BY <1>0, <1>1, <2>4 DEF TypeOK, AppendMark
  <2>5. CASE EnableBit(g)
    BY <1>0, <1>1, <2>5 DEF TypeOK, EnableBit
  <2> QED
    BY <2>1, <2>2, <2>3, <2>4, <2>5 DEF MigratorStep
<1>3. \A h \in Group : GroupInv(h)'
  <2>0. \A h \in Group : GroupInv(h)
    BY DEF HandoverInv
  <2>1. CASE StartOff(g)
    BY <1>0, <2>0, <2>1 DEF TypeOK, GroupInv, StartOff
  <2>2. CASE ClearBit(g)
    BY <1>0, <2>0, <2>2 DEF TypeOK, GroupInv, ClearBit
  <2>3. CASE InterruptOff(g)
    BY <1>0, <2>0, <2>3 DEF TypeOK, GroupInv, InterruptOff
  <2>4. CASE AppendMark(g)
    BY <1>0, <2>0, <2>4 DEF TypeOK, GroupInv, AppendMark
  <2>5. CASE EnableBit(g)
    BY <1>0, <2>0, <2>5 DEF TypeOK, GroupInv, EnableBit
  <2> QED
    BY <2>1, <2>2, <2>3, <2>4, <2>5 DEF MigratorStep
<1>4. ASSUME NEW t \in Tran PROVE TranInv(t)'
  <2>1. TranInv(t)
    BY DEF HandoverInv
  <2>2. ASSUME working[t], gid[t] \in Group, own[gid[t]]
        PROVE  own'[gid[t]]
    BY <1>0, <2>2 DEF TypeOK, MigratorStep, StartOff, ClearBit, InterruptOff,
                      AppendMark, EnableBit, ExistWorkingTran
  <2>3. pc[t] = "write" => gid[t] \in Group /\ working[t]
    BY <1>0, <2>1 DEF TypeOK, TranInv
  <2>4. \A k \in dirty[t] : gid[t] \in Group /\ working[t]
    BY <1>0, <2>1 DEF TypeOK, TranInv
  <2> QED
    BY Zenon, <1>1, <2>1, <2>2, <2>3, <2>4 DEF TranInv
<1> QED
  BY <1>2, <1>3, <1>4 DEF HandoverInv

(* Every step keeps the invariant.                                         *)
LEMMA HandoverStep == HandoverInv /\ [Next]_vars => HandoverInv'
<1> SUFFICES ASSUME HandoverInv, [Next]_vars PROVE HandoverInv'
  OBVIOUS
<1>1. CASE UNCHANGED vars
  BY Zenon, <1>1 DEF vars, HandoverInv, TypeOK, TranInv, GroupInv
<1>2. ASSUME NEW t \in Tran, TranStep(t) PROVE HandoverInv'
  BY <1>2, HandoverTran
<1>3. ASSUME NEW g \in Group, MigratorStep(g) PROVE HandoverInv'
  BY <1>3, HandoverMigrator
<1> QED
  BY <1>1, <1>2, <1>3 DEF Next

(* The invariant holds in every reachable state.                           *)
LEMMA HandoverAlways == Spec => []HandoverInv
BY HandoverInit, HandoverStep, PTL DEF Spec

(* A statement changes rows only of groups the node owns: the ownership    *)
(* checks of lock_shard_key_lock and the loop of xlogtb_update_group_id    *)
(* make the assertions of heap_file.c true.                                *)
THEOREM OnlyOwnedGroupsWritten == Spec => []WritesOwned
<1>1. HandoverInv => WritesOwned
  BY GroupAssumption, NoneAssumption
  DEF HandoverInv, TranInv, WritesOwned, TypeOK
<1> QED
  BY <1>1, HandoverAlways, PTL

(* The end mark of a group follows the ends of all transactions that       *)
(* changed rows of the group.                                              *)
THEOREM HandoverMissesNothing == Spec => []CleanHandover
<1>1. HandoverInv => CleanHandover
  <2> SUFFICES ASSUME HandoverInv, NEW g \in Group, handed[g],
                      NEW t \in Tran, NEW k \in dirty[t], GroupOf[k] = g
               PROVE  FALSE
    BY DEF CleanHandover
  <2>1. k \in Key
    BY DEF HandoverInv, TypeOK
  <2>2. own[g]
    BY Zenon, <2>1 DEF HandoverInv, TranInv
  <2> QED
    BY Zenon, <2>2 DEF HandoverInv, GroupInv
<1> QED
  BY <1>1, HandoverAlways, PTL

-----------------------------------------------------------------------------
(* The locks.  A transaction holds at most the lock of one key: the one    *)
(* its descriptor names, or is about to name.                              *)
HoldInv(t) ==
    \A k \in Key : xlock[k] = t =>
        /\ pc[t] \notin {"idle", "lock", "clear"}
        /\ pc[t] = "register" => stmt[t].key = k
        /\ pc[t] # "register" => key[t] = k

(* Without plain SELECT statements a descriptor that names a key, or is    *)
(* about to, has the lock of the key until the locks are released.         *)
KeyInv(t) ==
    /\ pc[t] = "register" => xlock[stmt[t].key] = t
    /\ key[t] \in Key /\ pc[t] # "clear" => xlock[key[t]] = t

LockInv == HandoverInv /\ \A t \in Tran : HoldInv(t)

(* A transaction's step keeps what the locks say.                          *)
LEMMA HoldTran ==
    ASSUME LockInv, NEW t \in Tran, TranStep(t)
    PROVE  \A u \in Tran : HoldInv(u)'
<1> USE NoneAssumption
<1>0. TypeOK /\ TranInv(t) /\ HoldInv(t)
  BY DEF LockInv, HandoverInv
<1>1. ASSUME NEW u \in Tran \ {t} PROVE HoldInv(u)'
  <2>1. HoldInv(u)
    BY DEF LockInv
  <2>2. pc'[u] = pc[u] /\ stmt'[u] = stmt[u] /\ key'[u] = key[u]
    BY <1>0 DEF TypeOK, TranStep, Begin, FirstStatement, LaterStatement,
                LockKey, LockFails, Register, Recheck, Write, EndStatement,
                End, UnlockAll, ClearTdes, Goto
  <2>3. \A k \in Key : xlock'[k] = u => xlock[k] = u
    BY Zenon, <1>0 DEF TypeOK, TranStep, Begin, FirstStatement, LaterStatement,
                LockKey, LockFails, Register, Recheck, Write, EndStatement,
                End, UnlockAll, ClearTdes
  <2> QED
    BY Zenon, <2>1, <2>2, <2>3 DEF HoldInv
<1>2. HoldInv(t)'
  <2>1. CASE Begin(t)
    BY <1>0, <2>1 DEF TypeOK, HoldInv, Begin, Goto
  <2>2. ASSUME NEW k \in Key, NEW u \in Updates, FirstStatement(t, k, u)
        PROVE  HoldInv(t)'
    BY <1>0, <2>2 DEF TypeOK, HoldInv, FirstStatement, Goto, Registered
  <2>3. ASSUME NEW k \in Key, NEW u \in Updates, LaterStatement(t, k, u)
        PROVE  HoldInv(t)'
    BY Zenon, <1>0, <2>3 DEF TypeOK, HoldInv, LaterStatement, Goto
  <2>4. CASE LockKey(t)
    BY Zenon, <1>0, <2>4 DEF TypeOK, HoldInv, TranInv, LockKey, Goto
  <2>5. CASE LockFails(t)
    BY <1>0, <2>5 DEF TypeOK, HoldInv, LockFails, Goto
  <2>6. CASE Register(t)
    BY <1>0, <2>6 DEF TypeOK, HoldInv, Register, Goto
  <2>7. CASE Recheck(t)
    BY Zenon, <1>0, <2>7 DEF TypeOK, HoldInv, Recheck, Goto
  <2>8. CASE Write(t)
    BY <1>0, <2>8 DEF TypeOK, HoldInv, Write
  <2>9. CASE EndStatement(t)
    BY <1>0, <2>9 DEF TypeOK, HoldInv, EndStatement, Goto
  <2>10. CASE End(t)
    BY <1>0, <2>10 DEF TypeOK, HoldInv, End, Goto
  <2>11. CASE UnlockAll(t)
    BY <1>0, <2>11 DEF TypeOK, HoldInv, UnlockAll, Goto
  <2>12. CASE ClearTdes(t)
    BY <1>0, <2>12 DEF TypeOK, HoldInv, ClearTdes, Goto
  <2> QED
    BY <2>1, <2>2, <2>3, <2>4, <2>5, <2>6, <2>7, <2>8, <2>9, <2>10, <2>11,
       <2>12 DEF TranStep
<1> QED
  BY <1>1, <1>2

(* Every step keeps the invariant of the locks.                            *)
LEMMA LockStep == LockInv /\ [Next]_vars => LockInv'
<1> SUFFICES ASSUME LockInv, [Next]_vars PROVE LockInv'
  OBVIOUS
<1>0. HandoverInv'
  BY HandoverStep DEF LockInv
<1>1. CASE UNCHANGED vars
  BY Zenon, <1>0, <1>1 DEF vars, LockInv, HoldInv
<1>2. ASSUME NEW t \in Tran, TranStep(t) PROVE LockInv'
  BY <1>0, <1>2, HoldTran DEF LockInv
<1>3. ASSUME NEW g \in Group, MigratorStep(g) PROVE LockInv'
  BY <1>0, <1>3 DEF LockInv, HoldInv, MigratorStep, StartOff, ClearBit,
                    InterruptOff, AppendMark, EnableBit, tdes
<1> QED
  BY <1>1, <1>2, <1>3 DEF Next

(* It holds in every reachable state.                                      *)
LEMMA LockAlways == Spec => []LockInv
<1>1. Init => LockInv
  BY HandoverInit, NoneAssumption DEF Init, LockInv, HoldInv
<1> QED
  BY <1>1, LockStep, PTL DEF Spec

(* A transaction that waits for a shard key holds none, whatever the       *)
(* interleaving: no cycle of shard key waits can form.                     *)
THEOREM ShardKeysDeadlockFree == Spec => []WaitsEmptyHanded
<1>1. LockInv => WaitsEmptyHanded
  BY DEF LockInv, HoldInv, WaitsEmptyHanded
<1> QED
  BY <1>1, LockAlways, PTL

(* A transaction's step keeps the lock of every named key.                 *)
LEMMA KeyTran ==
    ASSUME ~Selects, LockInv, \A u \in Tran : KeyInv(u),
           NEW t \in Tran, TranStep(t)
    PROVE  \A u \in Tran : KeyInv(u)'
<1> USE NoneAssumption
<1>0. TypeOK /\ TranInv(t) /\ KeyInv(t)
  BY DEF LockInv, HandoverInv
<1>1. ASSUME NEW u \in Tran \ {t} PROVE KeyInv(u)'
  <2>1. KeyInv(u) /\ TranInv(u)
    BY DEF LockInv, HandoverInv
  <2>2. pc'[u] = pc[u] /\ stmt'[u] = stmt[u] /\ key'[u] = key[u]
    BY <1>0 DEF TypeOK, TranStep, Begin, FirstStatement, LaterStatement,
                LockKey, LockFails, Register, Recheck, Write, EndStatement,
                End, UnlockAll, ClearTdes, Goto
  <2>3. \A k \in Key : xlock[k] = u => xlock'[k] = u
    BY Zenon, <1>0 DEF TypeOK, TranStep, Begin, FirstStatement, LaterStatement,
                LockKey, LockFails, Register, Recheck, Write, EndStatement,
                End, UnlockAll, ClearTdes
  <2> QED
    BY <2>1, <2>2, <2>3 DEF KeyInv, TranInv
<1>2. KeyInv(t)'
  <2>1. CASE Begin(t)
    BY Zenon, <1>0, <2>1 DEF TypeOK, KeyInv, Begin, Goto
  <2>2. ASSUME NEW k \in Key, NEW u \in Updates, FirstStatement(t, k, u)
        PROVE  KeyInv(t)'
    <3>1. u = TRUE
      BY DEF Updates
    <3> QED
      BY Zenon, <1>0, <2>2, <3>1 DEF TypeOK, KeyInv, FirstStatement, Goto, Registered
  <2>3. ASSUME NEW k \in Key, NEW u \in Updates, LaterStatement(t, k, u)
        PROVE  KeyInv(t)'
    BY Zenon, <1>0, <2>3 DEF TypeOK, KeyInv, LaterStatement, Goto
  <2>4. CASE LockKey(t)
    BY Zenon, <1>0, <2>4 DEF TypeOK, KeyInv, TranInv, LockKey, Goto
  <2>5. CASE LockFails(t)
    BY <1>0, <2>5 DEF TypeOK, KeyInv, LockFails, Goto
  <2>6. CASE Register(t)
    BY Zenon, <1>0, <2>6 DEF TypeOK, KeyInv, Register, Goto
  <2>7. CASE Recheck(t)
    BY Zenon, <1>0, <2>7 DEF TypeOK, KeyInv, Recheck, Goto
  <2>8. CASE Write(t)
    BY <1>0, <2>8 DEF TypeOK, KeyInv, Write
  <2>9. CASE EndStatement(t)
    BY <1>0, <2>9 DEF TypeOK, KeyInv, EndStatement, Goto
  <2>10. CASE End(t)
    BY <1>0, <2>10 DEF TypeOK, KeyInv, End, Goto
  <2>11. CASE UnlockAll(t)
    BY <1>0, <2>11 DEF TypeOK, KeyInv, UnlockAll, Goto
  <2>12. CASE ClearTdes(t)
    BY <1>0, <2>12 DEF TypeOK, KeyInv, ClearTdes, Goto
  <2> QED
    BY <2>1, <2>2, <2>3, <2>4, <2>5, <2>6, <2>7, <2>8, <2>9, <2>10, <2>11,
       <2>12 DEF TranStep
<1> QED
  BY <1>1, <1>2

WriterInv == LockInv /\ (~Selects => \A t \in Tran : KeyInv(t))

(* Every step keeps it.                                                    *)
LEMMA WriterStep == WriterInv /\ [Next]_vars => WriterInv'
<1> SUFFICES ASSUME WriterInv, [Next]_vars PROVE WriterInv'
  OBVIOUS
<1>0. LockInv'
  BY LockStep DEF WriterInv
<1>1. CASE UNCHANGED vars
  BY Zenon, <1>0, <1>1 DEF vars, WriterInv, KeyInv
<1>2. ASSUME NEW t \in Tran, TranStep(t) PROVE WriterInv'
  BY <1>0, <1>2, KeyTran DEF WriterInv
<1>3. ASSUME NEW g \in Group, MigratorStep(g) PROVE WriterInv'
  BY Zenon, <1>0, <1>3 DEF WriterInv, KeyInv, MigratorStep, StartOff, ClearBit,
                    InterruptOff, AppendMark, EnableBit, tdes
<1> QED
  BY <1>1, <1>2, <1>3 DEF Next

(* As long as no transaction reads a key with a plain SELECT first, two    *)
(* transactions never have uncommitted changes under one key (the X lock   *)
(* lock_shard_key_lock takes with the first statement).                    *)
THEOREM UpdatersExclude == Spec => [](~Selects => ExclusiveWriters)
<1>1. Init => WriterInv
  <2>1. Init => LockInv
    BY HandoverInit, NoneAssumption DEF Init, LockInv, HoldInv
  <2>2. Init => \A t \in Tran : KeyInv(t)
    BY NoneAssumption DEF Init, KeyInv
  <2> QED
    BY <2>1, <2>2 DEF WriterInv
<1>2. WriterInv => (~Selects => ExclusiveWriters)
  <2> SUFFICES ASSUME WriterInv, ~Selects, NEW t \in Tran, NEW u \in Tran,
                      NEW k \in dirty[t], k \in dirty[u], t # u
               PROVE  FALSE
    BY DEF ExclusiveWriters
  <2>1. k \in Key
    BY DEF WriterInv, LockInv, HandoverInv, TypeOK
  <2>2. /\ key[t] = k /\ pc[t] \in {"run", "write"}
        /\ key[u] = k /\ pc[u] \in {"run", "write"}
    BY Zenon DEF WriterInv, LockInv, HandoverInv, TranInv
  <2>3. xlock[k] = t /\ xlock[k] = u
    BY Zenon, <2>1, <2>2 DEF WriterInv, KeyInv
  <2> QED
    BY <2>3
<1> QED
  BY <1>1, <1>2, WriterStep, PTL DEF Spec

=============================================================================
