---------------------------- MODULE LockManager ----------------------------
(***************************************************************************)
(* The object lock manager of the server (transaction/lock_manager.c and   *)
(* lock_table.c).  Each lockable value (a class, a shard key) has a        *)
(* resource with a list of holders and a list of waiters, guarded by the   *)
(* resource's mutex.  A holder that asks for a stronger mode it cannot get *)
(* stays in the holder list as a "blocked holder", in front of the others  *)
(* (the Upgrader Positioning Rule); a transaction that holds nothing joins *)
(* the end of the waiter list.  A suspended transaction is resumed by a    *)
(* transaction that releases locks, by the deadlock detection daemon when  *)
(* its wait expires, or by the shutdown of the server.                     *)
(*                                                                         *)
(* One thread works for a transaction at a time, so the branches that let  *)
(* a second thread of the same transaction queue behind the first          *)
(* (tran_next_wait) are left out; so are the free lists of entries and     *)
(* resources, and total_waiters_mode, which no decision reads.             *)
(***************************************************************************)
EXTENDS Naturals, Sequences, FiniteSetsExt, Functions

CONSTANTS
    Tran,       \* transactions, each with the thread that works for it
    Key,        \* lockable values
    Request,    \* the modes transactions ask for
    MaxCount,   \* bound on the count of a lock entry
    Timeouts,   \* may a lock wait expire (LK_CAN_TIMEOUT, or an interrupt)?
    Stopping,   \* bound: those whose threads the stop of the server wakes
    None        \* no transaction

NULL_LOCK == 1
S_LOCK == 2
U_LOCK == 3
X_LOCK == 4
Mode == NULL_LOCK .. X_LOCK

ASSUME RequestAssumption == Request \subseteq Mode \ {NULL_LOCK}
ASSUME CountAssumption == MaxCount \in Nat \ {0}
ASSUME NoneAssumption == None \notin Tran

lock_Comp == << <<TRUE, TRUE,  TRUE,  TRUE>>,
                <<TRUE, TRUE,  TRUE,  FALSE>>,
                <<TRUE, TRUE,  FALSE, FALSE>>,
                <<TRUE, FALSE, FALSE, FALSE>> >>

lock_Conv == << <<NULL_LOCK, S_LOCK, U_LOCK, X_LOCK>>,
                <<S_LOCK,    S_LOCK, U_LOCK, X_LOCK>>,
                <<U_LOCK,    U_LOCK, U_LOCK, X_LOCK>>,
                <<X_LOCK,    X_LOCK, X_LOCK, X_LOCK>> >>

VARIABLES
    holder,     \* holder[k]: the holder list of the resource of k
    waiter,     \* waiter[k]: its waiter list
    total,      \* total[k]: total_holders_mode
    mutex,      \* mutex[k]: who keeps res_mutex across steps, or None
    th          \* th[t]: the thread entry of t and where t is in the code

vars == <<holder, waiter, total, mutex, th>>

Entry == [tran : Tran, granted : Mode, blocked : Mode, count : 0 .. MaxCount]

Thread == [pc : {"run", "susp", "giveup", "unlock", "holders", "waiters",
                 "partial", "end"},
           at : Key \cup {None},
           lockwait : BOOLEAN,      \* lockwait set, lockwait_state suspended
           resume : {"none", "suspended", "lock", "stop"},
           state : {"none", "suspended", "granted", "timeout"},
           skip : Nat,              \* entries the granting loop has passed
           force : BOOLEAN]         \* release_flag

Idling == [pc |-> "run", at |-> None, lockwait |-> FALSE, resume |-> "none",
           state |-> "none", skip |-> 0, force |-> FALSE]

(* Back in the caller: only a lockwait left behind keeps its meaning.      *)
Returned(e) == [Idling EXCEPT !.lockwait = e.lockwait]

Init ==
    /\ holder = [k \in Key |-> <<>>]
    /\ waiter = [k \in Key |-> <<>>]
    /\ total = [k \in Key |-> NULL_LOCK]
    /\ mutex = [k \in Key |-> None]
    /\ th = [t \in Tran |-> Idling]

-----------------------------------------------------------------------------
(* The modes of a list, converted into one.                                *)

Converted(mode, n) ==
    LET conv[i \in 0 .. n] ==
            IF i = 0 THEN NULL_LOCK ELSE lock_Conv[mode[i]][conv[i - 1]]
    IN  conv[n]

Granted(list) == Converted([i \in DOMAIN list |-> list[i].granted], Len(list))

Blocked(list) == Converted([i \in DOMAIN list |-> list[i].blocked], Len(list))

TotalHolders(list) == lock_Conv[Blocked(list)][Granted(list)]

First(places) == IF places = {} THEN 0 ELSE Min(places)

IndexOf(list, t) == First({i \in DOMAIN list : list[i].tran = t})

Holds(t, k) == IndexOf(holder[k], t) # 0

Before(list, i) == SubSeq(list, 1, i - 1)

After(list, i) == SubSeq(list, i + 1, Len(list))

RemoveAt(list, i) == Before(list, i) \o After(list, i)

InsertAt(list, i, e) == Before(list, i) \o <<e>> \o After(list, i - 1)

FirstFree(list) == First({i \in DOMAIN list : list[i].blocked = NULL_LOCK})

(* lock_position_holder_entry: an upgrader goes before the first blocked   *)
(* holder it is compatible with, else before the first one that must wait  *)
(* for it although it need not wait for that one, else before the first    *)
(* holder that is not blocked.                                             *)
Position(list, e) ==
    LET ta == First({i \in DOMAIN list : /\ list[i].blocked # NULL_LOCK
                                         /\ lock_Comp[e.blocked][list[i].blocked]})
        tb == First({i \in DOMAIN list : /\ list[i].blocked # NULL_LOCK
                                         /\ lock_Comp[e.blocked][list[i].granted]
                                         /\ ~lock_Comp[list[i].blocked][e.granted]})
        tc == FirstFree(list)
        places == IF e.blocked = NULL_LOCK THEN <<tc>> ELSE <<ta, tb, tc>>
        found == First({p \in DOMAIN places : places[p] # 0})
    IN  InsertAt(list, IF found = 0 THEN Len(list) + 1 ELSE places[found], e)

-----------------------------------------------------------------------------
(* Asking for a lock.  res_mutex is held from the lookup to the return, or *)
(* to the moment the thread sleeps with its lockwait fields set.           *)

(* lock_suspend, up to the sleep.                                          *)
Suspend(t, k) ==
    th' = [th EXCEPT ![t].pc = "susp", ![t].at = k, ![t].lockwait = TRUE,
                     ![t].resume = "suspended", ![t].state = "suspended"]

\* Mutant: a new request looks only at the holders that are not blocked.
GrantableUnblocked(k, m) ==
    lock_Comp[m][Granted(SelectSeq(holder[k],
                                   LAMBDA e : e.blocked = NULL_LOCK))]

Grantable(k, m) ==
    lock_Comp[m][total[k]] \/ lock_Comp[m][Granted(holder[k])]

NewEntry(t, granted, blocked) ==
    [tran |-> t, granted |-> granted, blocked |-> blocked, count |-> 1]

(* A transaction that holds nothing is granted the lock at once ...        *)
LockNew(t, k, m) ==
    /\ th[t].pc = "run" /\ mutex[k] = None
    /\ ~Holds(t, k)
    /\ Grantable(k, m)
    /\ holder' = [holder EXCEPT ![k] = Position(@, NewEntry(t, m, NULL_LOCK))]
    /\ total' = [total EXCEPT ![k] = lock_Conv[m][@]]
    /\ UNCHANGED <<waiter, mutex, th>>

(* ... or waits at the end of the list.                                    *)
LockWait(t, k, m) ==
    /\ th[t].pc = "run" /\ mutex[k] = None
    /\ ~Holds(t, k)
    /\ ~Grantable(k, m)
    /\ waiter' = [waiter EXCEPT ![k] = Append(@, NewEntry(t, NULL_LOCK, m))]
    /\ Suspend(t, k)
    /\ UNCHANGED <<holder, total, mutex>>

(* A holder asks for a mode its lock already gives.                        *)
Relock(t, k, m) ==
    /\ th[t].pc = "run" /\ mutex[k] = None
    /\ Holds(t, k)
    /\ LET i == IndexOf(holder[k], t)
       IN  /\ lock_Conv[m][holder[k][i].granted] = holder[k][i].granted
           /\ holder[k][i].count < MaxCount
           /\ holder' = [holder EXCEPT ![k][i].count = @ + 1]
    /\ UNCHANGED <<waiter, total, mutex, th>>

(* The holders other than the i-th.                                        *)
Others(k, i) == RemoveAt(holder[k], i)

(* A holder asks for a stronger mode, compatible with the other holders... *)
Convert(t, k, m) ==
    /\ th[t].pc = "run" /\ mutex[k] = None
    /\ Holds(t, k)
    /\ LET i == IndexOf(holder[k], t)
           new == lock_Conv[m][holder[k][i].granted]
       IN  /\ new # holder[k][i].granted
           /\ lock_Comp[new][Granted(Others(k, i))]
           /\ holder[k][i].count < MaxCount
           /\ holder' = [holder EXCEPT ![k][i].granted = new,
                                       ![k][i].count = @ + 1]
    /\ total' = [total EXCEPT ![k] = lock_Conv[m][@]]
    /\ UNCHANGED <<waiter, mutex, th>>

(* ... or incompatible: it becomes a blocked holder.                       *)
ConvertWait(t, k, m) ==
    /\ th[t].pc = "run" /\ mutex[k] = None
    /\ Holds(t, k)
    /\ LET i == IndexOf(holder[k], t)
           e == holder[k][i]
           new == lock_Conv[m][e.granted]
       IN  /\ new # e.granted
           /\ ~lock_Comp[new][Granted(Others(k, i))]
           /\ e.count < MaxCount
           /\ holder' = [holder EXCEPT ![k] =
                  Position(RemoveAt(@, i), [e EXCEPT !.blocked = new,
                                                     !.count = @ + 1])]
    /\ total' = [total EXCEPT ![k] = lock_Conv[m][@]]
    /\ Suspend(t, k)
    /\ UNCHANGED <<waiter, mutex>>

-----------------------------------------------------------------------------
(* Resuming a suspended transaction.                                       *)

(* lock_resume.                                                            *)
Resumed(e, s) ==
    [e EXCEPT !.lockwait = FALSE, !.state = s, !.resume = "lock"]

(* The entry lockwait points to has been freed and perhaps given to        *)
(* another transaction that waits.                                         *)
Stale(t) ==
    /\ th[t].pc # "susp"
    /\ \A k \in Key : \A list \in {holder[k], waiter[k]} :
           \A i \in DOMAIN list :
               list[i].tran = t => list[i].blocked = NULL_LOCK

(* The deadlock detection daemon, or the shutdown, ends the wait of t: it  *)
(* resumes the thread of the entry that lockwait points to.                *)
ForceTimeout(t) ==
    /\ Timeouts \/ t \in Stopping
    /\ th[t].lockwait
    /\ \E u \in {t} \cup {v \in Tran : Stale(t) /\ th[v].pc = "susp"} :
           th' = [th EXCEPT ![u] = Resumed(@, "timeout")]
    /\ UNCHANGED <<holder, waiter, total, mutex>>

(* thread_stop_active_workers wakes a worker whatever it waits for.        *)
StopWake(t) ==
    /\ t \in Stopping
    /\ th[t].pc = "susp"
    /\ th' = [th EXCEPT ![t].resume = "stop"]
    /\ UNCHANGED <<holder, waiter, total, mutex>>

(* lock_suspend, after the sleep.                                          *)
Wake(t) ==
    /\ th[t].pc = "susp"
    /\ th[t].resume # "suspended"
    /\ th' = [th EXCEPT ![t] =
                  IF th[t].resume = "lock" /\ th[t].state = "granted"
                  THEN Returned(@) ELSE [@ EXCEPT !.pc = "giveup"]]
    /\ UNCHANGED <<holder, waiter, total, mutex>>

-----------------------------------------------------------------------------
(* Releasing.  lock_internal_perform_unlock_object first lowers the count  *)
(* without any mutex, then changes the lists under res_mutex, then runs    *)
(* the granting loops, still under res_mutex; each turn of a loop takes    *)
(* the mutex of the thread it looks at, and waits may expire in between.   *)

(* count--, and the early return.                                          *)
Decrement(t, k, list, i) ==
    /\ list[i].count > 0
    /\ th' = [th EXCEPT ![t] =
                  IF list[i].blocked = NULL_LOCK /\ list[i].count > 1
                  THEN Returned(@)
                  ELSE [@ EXCEPT !.pc = "unlock", !.at = k, !.force = FALSE]]

(* lock_unlock_object.                                                     *)
Unlock(t, k) ==
    /\ th[t].pc = "run"
    /\ Holds(t, k)
    /\ LET i == IndexOf(holder[k], t)
       IN  /\ Decrement(t, k, holder[k], i)
           /\ holder' = [holder EXCEPT ![k][i].count = @ - 1]
    /\ UNCHANGED <<waiter, total, mutex>>

(* A resumed transaction that was not granted its request.                 *)
GiveUp(t) ==
    /\ th[t].pc = "giveup"
    /\ LET k == th[t].at
           i == IndexOf(holder[k], t)
           j == IndexOf(waiter[k], t)
       IN  \/ /\ i # 0
              /\ Decrement(t, k, holder[k], i)
              /\ holder' = [holder EXCEPT ![k][i].count = @ - 1]
              /\ UNCHANGED waiter
           \/ /\ i = 0 /\ j # 0
              /\ Decrement(t, k, waiter[k], j)
              /\ waiter' = [waiter EXCEPT ![k][j].count = @ - 1]
              /\ UNCHANGED holder
    /\ UNCHANGED <<total, mutex>>

(* lock_unlock_all, at the end of the transaction.                         *)
EndTran(t) ==
    /\ th[t].pc = "run"
    /\ \E k \in Key : Holds(t, k)
    /\ th' = [th EXCEPT ![t].pc = "end"]
    /\ UNCHANGED <<holder, waiter, total, mutex>>

UnlockAll(t) ==
    /\ th[t].pc = "end"
    /\ \/ \E k \in Key :
              /\ Holds(t, k)
              /\ th' = [th EXCEPT ![t].pc = "unlock", ![t].at = k,
                                  ![t].force = TRUE]
       \/ /\ \A k \in Key : ~Holds(t, k)
          /\ th' = [th EXCEPT ![t] = Returned(@)]
    /\ UNCHANGED <<holder, waiter, total, mutex>>

(* release_flag is set exactly in lock_unlock_all, which goes on.          *)
Return(e) == [Returned(e) EXCEPT !.pc = IF e.force THEN "end" ELSE "run"]

\* Mutant: the modes upgraders ask for are left out of the total.
TotalAfterGranted(list) == Granted(list)

TotalAfter(list) == TotalHolders(list)

\* Mutant: the granting functions run only if somebody is in the waiter list.
IdleUnlessWaiter(list, k) == list = <<>> \/ waiter[k] = <<>>

Idle(list, k) == list = <<>> /\ waiter[k] = <<>>

(* The entry of a holder goes; the one of an upgrader that gives up stays, *)
(* with the mode it had.                                                   *)
RemoveHolder(t) ==
    /\ th[t].pc = "unlock"
    /\ LET k == th[t].at
           i == IndexOf(holder[k], t)
           e == holder[k][i]
           rest == RemoveAt(holder[k], i)
           list == IF ~th[t].force /\ e.count > 0
                   THEN Position(rest, [e EXCEPT !.blocked = NULL_LOCK])
                   ELSE rest
       IN  /\ mutex[k] = None
           /\ i # 0
           /\ holder' = [holder EXCEPT ![k] = list]
           /\ total' = [total EXCEPT ![k] = TotalAfter(list)]
           /\ mutex' = [mutex EXCEPT ![k] = IF Idle(list, k) THEN None ELSE t]
           /\ th' = [th EXCEPT ![t] = IF Idle(list, k) THEN Return(@)
                                      ELSE [@ EXCEPT !.pc = "holders"]]
    /\ UNCHANGED waiter

(* from_whom: does a waiter follow the j-th?                               *)
GrantsBehind(k, j) == j < Len(waiter[k])

(* The entry of a waiter that gives up goes.                               *)
RemoveWaiter(t) ==
    /\ th[t].pc = "unlock"
    /\ LET k == th[t].at
           j == IndexOf(waiter[k], t)
       IN  /\ mutex[k] = None
           /\ ~Holds(t, k)
           /\ waiter' = [waiter EXCEPT ![k] = RemoveAt(@, j)]
           /\ mutex' = [mutex EXCEPT ![k] = IF GrantsBehind(k, j) THEN t
                                                                  ELSE None]
           /\ th' = [th EXCEPT ![t] =
                  IF GrantsBehind(k, j)
                  THEN [@ EXCEPT !.pc = "partial", !.skip = j - 1]
                  ELSE Return(@)]
    /\ UNCHANGED <<holder, total>>

(* LK_IS_LOCKWAIT_THREAD: a granting loop passes an entry by whose thread  *)
(* has been resumed for another reason.                                    *)
Waits(e) == th[e.tran].lockwait

Pass(t) ==
    /\ th' = [th EXCEPT ![t].skip = @ + 1]
    /\ UNCHANGED <<holder, waiter, total, mutex>>

(* lock_grant_blocked_holder, one turn.                                    *)
GrantHolder(t) ==
    /\ th[t].pc = "holders"
    /\ LET k == th[t].at
           list == holder[k]
           i == th[t].skip + 1
           e == list[i]
           go == /\ i <= Len(list)
                 /\ e.blocked # NULL_LOCK
                 /\ lock_Comp[e.blocked][Granted(After(list, i))]
           rest == RemoveAt(list, i)
           j == First({h \in i .. Len(rest) : rest[h].blocked = NULL_LOCK})
       IN  \/ /\ ~go
              /\ th' = [th EXCEPT ![t].pc = "waiters", ![t].skip = 0]
              /\ UNCHANGED <<holder, waiter, total, mutex>>
           \/ /\ go
              /\ Waits(e)
              /\ holder' = [holder EXCEPT ![k] =
                     InsertAt(rest, IF j = 0 THEN Len(rest) + 1 ELSE j,
                              [e EXCEPT !.granted = e.blocked,
                                        !.blocked = NULL_LOCK])]
              /\ th' = [th EXCEPT ![e.tran] = Resumed(@, "granted")]
              /\ UNCHANGED <<waiter, total, mutex>>
           \/ /\ go
              /\ ~Waits(e)
              /\ Pass(t)

\* Mutant: the entry is not taken off the waiter list.
GrantEntryTwice(k, i) ==
    LET e == waiter[k][i]
    IN  /\ holder' = [holder EXCEPT ![k] =
               Position(@, [e EXCEPT !.granted = e.blocked,
                                     !.blocked = NULL_LOCK])]
        /\ total' = [total EXCEPT ![k] = lock_Conv[e.blocked][@]]
        /\ th' = [th EXCEPT ![e.tran] = Resumed(@, "granted")]
        /\ UNCHANGED <<waiter, mutex>>

(* A waiter becomes a holder (in both loops over the waiters).             *)
GrantEntry(k, i) ==
    LET e == waiter[k][i]
    IN  /\ waiter' = [waiter EXCEPT ![k] = RemoveAt(@, i)]
        /\ holder' = [holder EXCEPT ![k] =
               Position(@, [e EXCEPT !.granted = e.blocked,
                                     !.blocked = NULL_LOCK])]
        /\ total' = [total EXCEPT ![k] = lock_Conv[e.blocked][@]]
        /\ th' = [th EXCEPT ![e.tran] = Resumed(@, "granted")]
        /\ UNCHANGED mutex

Finish(t) ==
    /\ th' = [th EXCEPT ![t] = Return(@)]
    /\ mutex' = [mutex EXCEPT ![th[t].at] = None]
    /\ UNCHANGED <<holder, waiter, total>>

(* lock_grant_blocked_waiter, one turn.                                    *)
GrantWaiter(t) ==
    /\ th[t].pc = "waiters"
    /\ LET k == th[t].at
           i == th[t].skip + 1
           w == waiter[k][i]
           go == i <= Len(waiter[k]) /\ lock_Comp[w.blocked][total[k]]
       IN  \/ ~go /\ Finish(t)
           \/ go /\ Waits(w) /\ GrantEntry(k, i)
           \/ go /\ ~Waits(w) /\ Pass(t)

(* lock_grant_blocked_waiter_partial, one turn.                            *)
GrantPartial(t) ==
    /\ th[t].pc = "partial"
    /\ LET k == th[t].at
           i == th[t].skip + 1
           w == waiter[k][i]
           go == /\ i <= Len(waiter[k])
                 /\ lock_Comp[w.blocked][Blocked(Before(waiter[k], i))]
           grant == lock_Comp[w.blocked][total[k]] /\ Waits(w)
       IN  \/ ~go /\ Finish(t)
           \/ go /\ grant /\ GrantEntry(k, i)
           \/ go /\ ~grant /\ Pass(t)

-----------------------------------------------------------------------------
Ask(t) ==
    \E k \in Key, m \in Request :
        \/ LockNew(t, k, m)
        \/ LockWait(t, k, m)
        \/ Relock(t, k, m)
        \/ Convert(t, k, m)
        \/ ConvertWait(t, k, m)

Release(t) ==
    \/ GiveUp(t)
    \/ EndTran(t)
    \/ UnlockAll(t)
    \/ RemoveHolder(t)
    \/ RemoveWaiter(t)
    \/ GrantHolder(t)
    \/ GrantWaiter(t)
    \/ GrantPartial(t)

Next ==
    \E t \in Tran :
        \/ Ask(t)
        \/ \E k \in Key : Unlock(t, k)
        \/ ForceTimeout(t)
        \/ StopWake(t)
        \/ Wake(t)
        \/ Release(t)

Spec == Init /\ [][Next]_vars

-----------------------------------------------------------------------------
(* What lock_manager.c promises.                                           *)

(* The lists, the modes and the thread entries keep their types; a         *)
(* transaction has at most one entry at a resource, in one list            *)
(* (lock_internal_perform_lock_object and the granting functions move it). *)
TypeOK ==
    /\ holder \in [Key -> Seq(Entry)]
    /\ waiter \in [Key -> Seq(Entry)]
    /\ total \in [Key -> Mode]
    /\ mutex \in [Key -> Tran \cup {None}]
    /\ th \in [Tran -> Thread]
    /\ \A k \in Key : IsInjective([i \in DOMAIN (holder[k] \o waiter[k]) |->
                                       (holder[k] \o waiter[k])[i].tran])

Compatible(a, b) == lock_Comp[a][b]

Stronger(a, b) == a # b /\ lock_Conv[a][b] = a

Held(k, t) ==
    LET own == {e \in Range(holder[k]) : e.tran = t}
    IN  IF own = {} THEN NULL_LOCK ELSE (CHOOSE e \in own : TRUE).granted

(* Upgraders whose wait ended without a grant and that have not yet        *)
(* withdrawn.                                                              *)
Leaving(k) ==
    {e.tran : e \in {e \in Range(holder[k]) : e.blocked # NULL_LOCK /\ ~Waits(e)}}

held == [k \in Key |-> [t \in Tran |-> Held(k, t)]]

leaving == [k \in Key |-> Leaving(k)]

Table == INSTANCE LockTable WITH held <- held, leaving <- leaving

(* The lists and the granting loops implement a lock table: a mode is      *)
(* granted only while it is compatible with the granted modes of all other *)
(* transactions, and a granted mode goes only by being strengthened or     *)
(* released (lock_internal_perform_lock_object, lock_grant_blocked_holder, *)
(* lock_grant_blocked_waiter and its partial form, against lock_Comp).     *)
(* Only an upgrade overlooks somebody: an upgrader before it whose wait    *)
(* has just ended.                                                         *)
ImplementsLockTable == Table!Spec

(* total_holders_mode, which new requests are tested against, is the       *)
(* conversion of all granted and all blocked modes of the holder list at   *)
(* every release of res_mutex, whichever path changed the list.            *)
TotalIsExact ==
    \A k \in Key : mutex[k] = None => total[k] = TotalHolders(holder[k])

(* Whenever res_mutex is free, an upgrader that still sleeps could not be  *)
(* granted: the mode it asks for is incompatible with another holder.      *)
NoForgottenUpgrader ==
    \A k \in Key : mutex[k] = None =>
        \A i \in DOMAIN holder[k] :
            holder[k][i].blocked # NULL_LOCK /\ Waits(holder[k][i])
                => ~lock_Comp[holder[k][i].blocked][Granted(Others(k, i))]

(* Whenever res_mutex is free, a waiter that still sleeps either is        *)
(* incompatible with the total mode of the holders, or stands behind a     *)
(* waiter that is, or behind one that has been resumed and will look       *)
(* behind itself when it leaves the list (lock_grant_blocked_waiter and    *)
(* lock_grant_blocked_waiter_partial between them forget nobody).          *)
NoForgottenWaiter ==
    \A k \in Key : mutex[k] = None =>
        \A i \in DOMAIN waiter[k] :
            Waits(waiter[k][i]) /\ lock_Comp[waiter[k][i].blocked][total[k]]
                => \E j \in 1 .. i - 1 :
                       \/ ~lock_Comp[waiter[k][j].blocked][total[k]]
                       \/ ~Waits(waiter[k][j])

=============================================================================
