------------------------- MODULE LockManagerProofs -------------------------
(***************************************************************************)
(* Theorems about LockManager, for any transactions, any resources and any *)
(* MaxCount: the granting loops keep the invariant of LockManagerLemmas as *)
(* well; so total_holders_mode is exact, no sleeping transaction is        *)
(* forgotten, and the lists implement LockTable.                           *)
(***************************************************************************)
EXTENDS LockManagerLemmas

(* The leaves of the proofs are for Zenon, unless they say SMT.            *)
USE ZenonT(40)

(* A thread goes on from the holders to the waiters.                       *)
LEMMA WaitersStart ==
    ASSUME th \in [Tran -> Thread], NEW t \in Tran,
           th' = [th EXCEPT ![t].pc = "waiters", ![t].skip = 0]
    PROVE  /\ th' \in [Tran -> Thread] /\ \A u \in Tran \ {t} : th'[u] = th[u]
           /\ th'[t].pc = "waiters" /\ th'[t].skip = 0
           /\ th'[t].at = th[t].at /\ th'[t].lockwait = th[t].lockwait
<1> DEFINE r == [th[t] EXCEPT !.pc = "waiters", !.skip = 0]
<1>1. th' = [th EXCEPT ![t] = r]
  OBVIOUS
<1>2. PICK x \in Thread : x = th[t]
  OBVIOUS
<1>3. r = [x EXCEPT !.pc = "waiters", !.skip = 0]
  BY <1>2
<1> HIDE DEF r
<1>4. r \in Thread /\ r.pc = "waiters" /\ r.at = x.at /\ r.skip = 0 /\ r.lockwait = x.lockwait
  BY <1>3 DEF Thread
<1>5. /\ th' \in [Tran -> Thread]
      /\ th'[t] = r /\ \A u \in Tran \ {t} : th'[u] = th[u]
  BY <1>1, <1>4, ThreadSet
<1> QED BY <1>2, <1>4, <1>5

(* A loop passes an entry by.                                              *)
LEMMA PassIs ==
    ASSUME th \in [Tran -> Thread], NEW t \in Tran, Pass(t)
    PROVE  /\ th' \in [Tran -> Thread] /\ \A u \in Tran \ {t} : th'[u] = th[u]
           /\ th'[t].pc = th[t].pc /\ th'[t].skip = th[t].skip + 1
           /\ th'[t].at = th[t].at /\ th'[t].lockwait = th[t].lockwait
           /\ holder' = holder /\ waiter' = waiter /\ total' = total /\ mutex' = mutex
<1> DEFINE r == [th[t] EXCEPT !.skip = th[t].skip + 1]
<1>1. th' = [th EXCEPT ![t] = r]
  BY DEF Pass
<1>2. PICK x \in Thread : x = th[t]
  OBVIOUS
<1>3. r = [x EXCEPT !.skip = x.skip + 1]
  BY <1>2
<1> HIDE DEF r
<1>4. /\ r \in Thread /\ r.pc = x.pc /\ r.at = x.at /\ r.skip = x.skip + 1
      /\ r.lockwait = x.lockwait
  <2>1. PICK n \in Nat : n = x.skip + 1
    BY SMTT(30) DEF Thread
  <2>2. r = [x EXCEPT !.skip = n]
    BY <1>3, <2>1
  <2>3. r \in Thread /\ r.pc = x.pc /\ r.at = x.at /\ r.skip = n /\ r.lockwait = x.lockwait
    BY <2>2 DEF Thread
  <2> QED BY <2>1, <2>3
<1>5. /\ th' \in [Tran -> Thread]
      /\ th'[t] = r /\ \A u \in Tran \ {t} : th'[u] = th[u]
  BY <1>1, <1>4, ThreadSet
<1>6. holder' = holder /\ waiter' = waiter /\ total' = total /\ mutex' = mutex
  BY SMTT(30) DEF Pass
<1> QED BY <1>2, <1>4, <1>5, <1>6

(* lock_resume for a request that is granted.                              *)
LEMMA ResumeIs ==
    ASSUME th \in [Tran -> Thread], NEW u \in Tran,
           th' = [th EXCEPT ![u] = Resumed(th[u], "granted")]
    PROVE  /\ th' \in [Tran -> Thread] /\ \A v \in Tran \ {u} : th'[v] = th[v]
           /\ th'[u].pc = th[u].pc /\ th'[u].at = th[u].at /\ th'[u].skip = th[u].skip
           /\ ~th'[u].lockwait
<1>1. PICK r \in Thread :
         /\ r = Resumed(th[u], "granted") /\ r.pc = th[u].pc
         /\ r.at = th[u].at /\ r.skip = th[u].skip /\ r.lockwait = FALSE
  <2>1. th[u] \in Thread /\ "granted" \in {"granted", "timeout"}
    OBVIOUS
  <2> QED BY <2>1, ResumedIs
<1>2. /\ th' \in [Tran -> Thread]
      /\ th'[u] = r /\ \A v \in Tran \ {u} : th'[v] = th[v]
  BY <1>1, ThreadSet
<1> QED BY <1>1, <1>2

(* The total stays when an upgrader is granted what it asked for.          *)
LEMMA TotalUpgrades ==
    ASSUME NEW R \in SUBSET Entry, NEW m, IsTotal(m, R), NEW e \in R, HolderEntry(e),
           e.blocked # NULL_LOCK
    PROVE  IsTotal(m, (R \ {e}) \cup {Upgraded(e)})
<1>1. /\ e \in Entry /\ e.granted \in Mode /\ e.blocked \in Mode
      /\ e.granted < e.blocked
  BY EntryIs DEF HolderEntry
<1>2. /\ Upgraded(e) \in Entry /\ Upgraded(e).granted = e.blocked
      /\ Upgraded(e).blocked = NULL_LOCK
  BY <1>1, UpgradedIs
<1>3. m \in Mode /\ e.blocked <= m
  BY DEF IsTotal
<1>4. e.granted <= e.blocked /\ e.blocked <= e.blocked
  BY <1>1, ModeIs, SMTT(30)
<1>5. Outgrows(Upgraded(e), e)
  BY <1>2, <1>4 DEF Outgrows
<1>6. NULL_LOCK \in Mode /\ NULL_LOCK <= m
  BY <1>3, NullMode
<1>7. Within(Upgraded(e), NULL_LOCK, m)
  BY <1>2, <1>3, <1>6 DEF Within
<1>8. IsTotal(lock_Conv[NULL_LOCK][m], (R \ {e}) \cup {Upgraded(e)})
  BY <1>2, <1>5, <1>6, <1>7, TotalStep
<1>9. lock_Conv[NULL_LOCK][m] = m
  <2>1. lock_Conv[NULL_LOCK][m] = IF NULL_LOCK >= m THEN NULL_LOCK ELSE m
    BY <1>3, <1>6, ConvIs
  <2>2. NULL_LOCK >= m => NULL_LOCK = m
    BY <1>3, ModeIs, SMTT(30) DEF NULL_LOCK
  <2> QED BY <2>1, <2>2
<1> QED BY <1>8, <1>9

(* A turn of the loop over the blocked holders.                            *)
LEMMA GrantHolderKeeps ==
    ASSUME Inv, NEW t \in Tran, GrantHolder(t)
    PROVE  Inv'
<1>0. PICK k, n : k = th[t].at /\ n = th[t].skip
  OBVIOUS
<1> DEFINE s == holder[k]
           go == /\ n + 1 <= Len(s) /\ s[n + 1].blocked # NULL_LOCK
                 /\ lock_Comp[s[n + 1].blocked][Granted(After(s, n + 1))]
<1>1. /\ th[t].pc = "holders"
      /\ \/ /\ ~go
            /\ th' = [th EXCEPT ![t].pc = "waiters", ![t].skip = 0]
            /\ holder' = holder /\ waiter' = waiter /\ total' = total /\ mutex' = mutex
         \/ /\ go
            /\ holder' = [holder EXCEPT ![k] = Regranted(s, n + 1)]
            /\ th' = [th EXCEPT ![s[n + 1].tran] = Resumed(th[s[n + 1].tran], "granted")]
            /\ waiter' = waiter /\ total' = total /\ mutex' = mutex
         \/ go /\ ~Waits(s[n + 1]) /\ Pass(t)
  BY <1>0 DEF GrantHolder, Regranted, Upgraded
<1>2. th[t].pc \in Loop /\ th[t].pc # "waiters" /\ th[t].pc # "partial"
  BY <1>1 DEF Loop
<1>3. /\ k \in Key /\ mutex[k] = t /\ OwnerInv(t, k) /\ n \in Nat
      /\ PassedHolders(k, n)
  <2>1. /\ k \in Key /\ mutex[k] = t /\ OwnerInv(t, k) /\ n \in Nat
    BY <1>0, <1>2, Granting
  <2> QED BY <1>0, <1>1, <2>1 DEF OwnerInv
<1>4. Types /\ th \in [Tran -> Thread]
  BY DEF Inv, Types
<1>5. /\ s \in Seq(Entry) /\ HolderList(s) /\ WaiterList(waiter[k]) /\ Apart(s, waiter[k])
      /\ IsTotal(total[k], Range(s)) /\ total[k] \in Mode
  BY <1>3, AtKey
<1>m. mutex' = mutex => mutex' \in [Key -> Tran \cup {None}] /\ SetAt(mutex', mutex, k, t)
  BY <1>3, <1>4 DEF Types, SetAt
<1>6. ASSUME ~go, th' = [th EXCEPT ![t].pc = "waiters", ![t].skip = 0],
             holder' = holder, waiter' = waiter, total' = total, mutex' = mutex
      PROVE  Inv'
  <2>1. Settled(k)
    BY <1>3, <1>6, HoldersDone
  <2>2. /\ th' \in [Tran -> Thread] /\ \A u \in Tran \ {t} : th'[u] = th[u]
        /\ th'[t].pc = "waiters" /\ th'[t].skip = 0
        /\ th'[t].at = th[t].at /\ th'[t].lockwait = th[t].lockwait
    BY <1>4, <1>6, WaitersStart
  <2>3. \A u \in Tran : th'[u].lockwait = th[u].lockwait
    BY <2>2
  <2>4. Settled(k)'
    BY <1>3, <1>6, <2>1, <2>3, NothingMoves
  <2>5. 0 <= Len(waiter'[k]) /\ 1 .. 0 = {} /\ ~(0 >= 1)
    <3>1. waiter'[k] \in Seq(Entry)
      BY <1>5, <1>6 DEF WaiterList
    <3> QED BY <3>1, SMTT(30)
  <2>6. PassedWaiters(k, 0)'
    BY <2>5 DEF PassedWaiters
  <2>7. OwnerInv(t, k)'
    <3>1. th'[t].pc # "holders" /\ th'[t].pc # "partial"
      BY <2>2
    <3> QED BY <2>2, <2>4, <2>5, <2>6, <3>1 DEF OwnerInv, PassedWaiters
  <2>8. th'[t].pc \in Loop /\ th'[t].at = k
    BY <1>0, <2>2 DEF Loop
  <2>9. t \in {None, t}
    OBVIOUS
  <2> QED BY <1>0, <1>2, <1>6, <1>m, <2>2, <2>7, <2>8, <2>9, LoopMoves
<1>7. ASSUME go, ~Waits(s[n + 1]), Pass(t)
      PROVE  Inv'
  <2>2. /\ th' \in [Tran -> Thread] /\ \A u \in Tran \ {t} : th'[u] = th[u]
        /\ th'[t].pc = th[t].pc /\ th'[t].skip = n + 1
        /\ th'[t].at = th[t].at /\ th'[t].lockwait = th[t].lockwait
        /\ holder' = holder /\ waiter' = waiter /\ total' = total /\ mutex' = mutex
    BY <1>0, <1>4, <1>7, PassIs
  <2>3. \A u \in Tran : th'[u].lockwait = th[u].lockwait
    BY <2>2
  <2>4. PassedHolders(k, n + 1)'
    <3>1. n + 1 <= Len(s) /\ s[n + 1].blocked # NULL_LOCK
      BY <1>7
    <3>2. ASSUME NEW h \in 1 .. n + 1
          PROVE  s[h].blocked # NULL_LOCK /\ ~Waits(s[h]) /\ h \in 1 .. Len(s)
      <4>1. h \in 1 .. n \/ h = n + 1
        BY <1>3, SMTT(30)
      <4>2. h \in 1 .. Len(s)
        <5>1. Len(s) \in Nat
          BY <1>5, SMTT(30)
        <5> QED BY <1>3, <3>1, <5>1, SMTT(30)
      <4>3. \A x \in 1 .. n : s[x].blocked # NULL_LOCK /\ ~Waits(s[x])
        BY <1>3 DEF PassedHolders
      <4> QED BY <1>7, <3>1, <4>1, <4>2, <4>3
    <3>3. \A h \in 1 .. n + 1 : s[h].tran \in Tran
      BY <1>5, <3>2, RangeIs, EntryIs
    <3>4. holder'[k] = s
      BY <2>2
    <3> QED BY <2>3, <3>1, <3>2, <3>3, <3>4 DEF PassedHolders, Waits
  <2>7. OwnerInv(t, k)'
    BY <1>1, <1>2, <2>2, <2>4 DEF OwnerInv, PassedHolders
  <2>8. th'[t].pc \in Loop /\ th'[t].at = k /\ t \in {None, t}
    BY <1>0, <1>2, <2>2
  <2> QED BY <1>0, <1>2, <1>m, <2>2, <2>7, <2>8, LoopMoves
<1>8. ASSUME go, holder' = [holder EXCEPT ![k] = Regranted(s, n + 1)],
             th' = [th EXCEPT ![s[n + 1].tran] = Resumed(th[s[n + 1].tran], "granted")],
             waiter' = waiter, total' = total, mutex' = mutex
      PROVE  Inv'
  <2>1. n + 1 \in 1 .. Len(s) /\ s[n + 1].blocked # NULL_LOCK
    <3>1. n + 1 <= Len(s) /\ s[n + 1].blocked # NULL_LOCK
      BY <1>8
    <3>2. Len(s) \in Nat
      BY <1>5, SMTT(30)
    <3> QED BY <1>3, <3>1, <3>2, SMTT(30)
  <2>2. PICK i : i = n + 1 /\ i \in 1 .. Len(s)
    BY <2>1
  <2>3. PICK e \in Entry : /\ e = s[i] /\ e \in Range(s) /\ e.blocked # NULL_LOCK
                           /\ HolderEntry(e) /\ e.tran \in Tran
    <3>1. s[i] \in Entry /\ s[i] \in Range(s)
      BY <1>5, <2>2, RangeIs
    <3>2. HolderEntry(s[i]) /\ s[i].tran \in Tran
      BY <1>5, <3>1, EntryIs DEF HolderList
    <3> QED BY <2>1, <2>2, <3>1, <3>2
  <2>4. PICK r : r = Regranted(s, i)
    OBVIOUS
  <2>5. /\ HolderList(r) /\ Len(r) = Len(s)
        /\ \A h \in 1 .. i - 1 : r[h] = s[h]
        /\ Range(r) = (Range(s) \ {e}) \cup {Upgraded(e)}
    BY <1>5, <2>2, <2>3, <2>4, RegrantedIs
  <2>6. r \in Seq(Entry)
    BY <2>5 DEF HolderList
  <2>7. holder' \in [Key -> Seq(Entry)] /\ SetAt(holder', holder, k, r)
    <3>1. holder \in [Key -> Seq(Entry)]
      BY <1>4 DEF Types
    <3>2. [holder EXCEPT ![k] = r] \in [Key -> Seq(Entry)] /\ SetAt([holder EXCEPT ![k] = r], holder, k, r)
      BY <1>3, <2>6, <3>1, SetAtIs
    <3> QED BY <1>8, <2>2, <2>4, <3>2
  <2>8. /\ th' \in [Tran -> Thread] /\ \A v \in Tran \ {e.tran} : th'[v] = th[v]
        /\ th'[e.tran].pc = th[e.tran].pc /\ th'[e.tran].at = th[e.tran].at
        /\ th'[e.tran].skip = th[e.tran].skip /\ ~th'[e.tran].lockwait
    <3>1. th' = [th EXCEPT ![e.tran] = Resumed(th[e.tran], "granted")]
      BY <1>8, <2>2, <2>3
    <3> QED BY <1>4, <2>3, <3>1, ResumeIs
  <2>9. holder'[k] = r /\ waiter'[k] = waiter[k] /\ total'[k] = total[k]
    BY <1>8, <2>7 DEF SetAt
  <2>10. Types' /\ Rest(k)
    BY <1>4, <1>8, <2>7, <2>8 DEF Types, Rest, SetAt
  <2>11. /\ Upgraded(e) \in Entry /\ Upgraded(e).tran = e.tran
    BY <2>3, UpgradedIs
  <2>12. Lists(holder'[k], waiter'[k], total'[k])
    <3>1. Apart(r, waiter[k])
      BY <1>5, <2>3, <2>5, <2>11 DEF Apart
    <3>2. IsTotal(total[k], Range(r))
      <4>1. Range(s) \in SUBSET Entry
        BY <1>5, RangeIs
      <4>2. IsTotal(total[k], (Range(s) \ {e}) \cup {Upgraded(e)})
        BY <1>5, <2>3, <4>1, TotalUpgrades
      <4> QED BY <2>5, <4>2
    <3> QED BY <1>5, <2>5, <2>9, <3>1, <3>2 DEF Lists
  <2>13. e \in Entries(k) /\ Entries(k)' = (Entries(k) \ {e}) \cup {Upgraded(e)}
    <3>1. e \notin Range(waiter[k])
      BY <1>5, <2>3 DEF Apart
    <3>2. Entries(k)' = Range(r) \cup Range(waiter[k]) /\ Entries(k) = Range(s) \cup Range(waiter[k])
      BY <2>9 DEF Entries
    <3>3. Entries(k)' = (Entries(k) \ {e}) \cup {Upgraded(e)}
      BY <2>3, <2>5, <3>1, <3>2
    <3> QED BY <2>3, <3>2, <3>3
  <2>14. \A v \in Tran : th'[v].lockwait => th[v].lockwait
    BY <2>8
  <2>15. th'[t].pc = "holders" /\ th'[t].skip = n
    BY <1>0, <1>1, <2>8
  <2>16. PassedHolders(k, n)'
    <3>1. n <= Len(r) /\ i - 1 = n /\ \A h \in 1 .. n : h \in 1 .. Len(s)
      <4>1. n <= Len(s) /\ Len(s) \in Nat
        BY <1>3, <1>5, SMTT(30) DEF PassedHolders
      <4>2. i - 1 = n
        BY <1>3, <2>2, SMTT(30)
      <4>3. \A h \in 1 .. n : h \in 1 .. Len(s)
        BY <1>3, <4>1, SMTT(30)
      <4> QED BY <2>5, <4>1, <4>2, <4>3
    <3>2. \A h \in 1 .. n : r[h] = s[h]
      BY <2>5, <3>1
    <3>3. \A h \in 1 .. n : s[h].blocked # NULL_LOCK /\ ~Waits(s[h])
      BY <1>3 DEF PassedHolders
    <3>4. \A h \in 1 .. n : s[h].tran \in Tran
      BY <1>5, <3>1, RangeIs, EntryIs
    <3> QED BY <2>9, <2>14, <3>1, <3>2, <3>3, <3>4 DEF PassedHolders, Waits
  <2>17. OwnerInv(t, k)'
    <3>1. th'[t].pc # "waiters" /\ th'[t].pc # "partial"
      BY <2>15
    <3> QED BY <2>15, <2>16, <3>1 DEF OwnerInv, PassedHolders
  <2> QED BY <1>3, <1>8, <2>3, <2>8, <2>10, <2>12, <2>13, <2>17, GrantStep
<1> QED BY <1>1, <1>6, <1>7, <1>8

(* A granting loop ends and res_mutex is left.                             *)
LEMMA FinishKeeps ==
    ASSUME Inv, NEW t \in Tran, th[t].pc \in Loop, NEW k, k = th[t].at,
           Settled(k), Stuck(k), Finish(t)
    PROVE  Inv'
<1>1. /\ th' = [th EXCEPT ![t] = Return(th[t])] /\ mutex' = [mutex EXCEPT ![k] = None]
      /\ holder' = holder /\ waiter' = waiter /\ total' = total
  BY SMTT(30) DEF Finish
<1>2. k \in Key
  BY Granting
<1>3. th \in [Tran -> Thread] /\ th[t] \in Thread /\ mutex \in [Key -> Tran \cup {None}]
  BY DEF Inv, Types
<1>4. PICK q \in Thread : /\ q = Return(th[t]) /\ q.pc \in {"run", "end"}
                          /\ q.lockwait = th[t].lockwait /\ q.skip = 0
  BY <1>3, ReturnIs
<1>5. /\ th' \in [Tran -> Thread]
      /\ th'[t] = q /\ \A v \in Tran \ {t} : th'[v] = th[v]
  BY <1>1, <1>3, <1>4, ThreadSet
<1>6. None \in {None, t} /\ None \in Tran \cup {None}
  OBVIOUS
<1>7. /\ [mutex EXCEPT ![k] = None] \in [Key -> Tran \cup {None}]
      /\ SetAt([mutex EXCEPT ![k] = None], mutex, k, None)
  BY <1>2, <1>3, <1>6, SetAtIs
<1>8. mutex' \in [Key -> Tran \cup {None}] /\ SetAt(mutex', mutex, k, None)
  BY <1>1, <1>7
<1>9. th'[t].lockwait = th[t].lockwait /\ th'[t].pc \in {"run", "end"} /\ th'[t].skip = 0
  BY <1>4, <1>5
<1> QED BY <1>1, <1>5, <1>6, <1>8, <1>9, LoopMoves

(* A granting loop over the waiters passes one by.                         *)
LEMMA WaiterPassed ==
    ASSUME Inv, NEW t \in Tran, th[t].pc \in {"waiters", "partial"},
           NEW k, k = th[t].at, NEW n, n = th[t].skip,
           n + 1 \in 1 .. Len(waiter[k]), Pass(t),
           th[t].pc = "waiters" => ~Waits(waiter[k][n + 1]),
           th[t].pc = "partial" => Stuck(k)
    PROVE  Inv'
<1>1. th[t].pc \in Loop /\ th[t].pc # "holders"
  BY SMTT(30) DEF Loop
<1>2. /\ k \in Key /\ mutex[k] = t /\ OwnerInv(t, k) /\ n \in Nat
  BY <1>1, Granting
<1>3. th \in [Tran -> Thread] /\ mutex \in [Key -> Tran \cup {None}]
  BY DEF Inv, Types
<1>4. /\ th' \in [Tran -> Thread] /\ \A u \in Tran \ {t} : th'[u] = th[u]
      /\ th'[t].pc = th[t].pc /\ th'[t].skip = n + 1
      /\ th'[t].at = th[t].at /\ th'[t].lockwait = th[t].lockwait
      /\ holder' = holder /\ waiter' = waiter /\ total' = total /\ mutex' = mutex
  BY <1>3, PassIs
<1>5. \A u \in Tran : th'[u].lockwait = th[u].lockwait
  BY <1>4
<1>6. Settled(k)' /\ (Stuck(k) => Stuck(k)')
  <2>1. Settled(k)
    BY <1>1, <1>2 DEF OwnerInv
  <2> QED BY <1>2, <1>4, <1>5, <2>1, NothingMoves
<1>7. n + 1 <= Len(waiter'[k])
  <2>1. n + 1 <= Len(waiter[k])
    BY SMTT(30)
  <2> QED BY <1>4, <2>1
<1>8. ASSUME th[t].pc = "waiters" PROVE PassedWaiters(k, n + 1)'
  <2>1. \A h \in 1 .. n : ~Waits(waiter[k][h])
    BY <1>2, <1>8 DEF OwnerInv, PassedWaiters
  <2>2. waiter[k] \in Seq(Entry)
    BY <1>2, AtKey
  <2>3. ASSUME NEW h \in 1 .. n + 1 PROVE ~Waits(waiter[k][h]) /\ waiter[k][h].tran \in Tran
    <3>1. h \in 1 .. n \/ h = n + 1
      BY <1>2, SMTT(30)
    <3>2. Len(waiter[k]) \in Nat
      BY <2>2, SMTT(30)
    <3>3. h \in 1 .. Len(waiter[k])
      BY <1>2, <3>2, SMTT(30)
    <3>4. waiter[k][h].tran \in Tran
      BY <2>2, <3>3, RangeIs, EntryIs
    <3> QED BY <1>8, <2>1, <3>1, <3>4
  <2> QED BY <1>4, <1>5, <2>3 DEF PassedWaiters, Waits
<1>9. OwnerInv(t, k)'
  BY <1>1, <1>4, <1>6, <1>7, <1>8 DEF OwnerInv, PassedWaiters
<1>10. mutex' \in [Key -> Tran \cup {None}] /\ SetAt(mutex', mutex, k, t) /\ t \in {None, t}
  BY <1>2, <1>3, <1>4 DEF SetAt
<1>11. th'[t].pc \in Loop /\ th'[t].at = k
  BY <1>1, <1>4
<1> QED BY <1>1, <1>4, <1>9, <1>10, <1>11, LoopMoves

(* A granting loop over the waiters makes one a holder.                    *)
LEMMA GrantEntryKeeps ==
    ASSUME Inv, NEW t \in Tran, th[t].pc \in {"waiters", "partial"},
           NEW k, k = th[t].at, NEW n, n = th[t].skip,
           n + 1 \in 1 .. Len(waiter[k]), GrantEntry(k, n + 1)
    PROVE  Inv'
<1>1. th[t].pc \in Loop /\ th[t].pc # "holders"
  BY SMTT(30) DEF Loop
<1>2. /\ k \in Key /\ mutex[k] = t /\ OwnerInv(t, k) /\ n \in Nat
  BY <1>1, Granting
<1>3. Types /\ th \in [Tran -> Thread]
  BY DEF Inv, Types
<1>4. PICK s, w, i : s = holder[k] /\ w = waiter[k] /\ i = n + 1
  OBVIOUS
<1>5. /\ s \in Seq(Entry) /\ HolderList(s) /\ w \in Seq(Entry) /\ WaiterList(w) /\ Apart(s, w)
      /\ IsTotal(total[k], Range(s)) /\ total[k] \in Mode
  BY <1>2, <1>4, AtKey
<1>6. i \in 1 .. Len(w)
  BY <1>4
<1>7. PICK e \in Entry : /\ e = w[i] /\ e \in Range(w) /\ e.blocked # NULL_LOCK
                         /\ e.tran \in Tran /\ e.blocked \in Mode
  <2>1. w[i] \in Entry /\ w[i] \in Range(w)
    BY <1>5, <1>6, RangeIs
  <2>2. w[i].blocked # NULL_LOCK /\ w[i].tran \in Tran /\ w[i].blocked \in Mode
    BY <1>5, <2>1, EntryIs DEF WaiterList, WaiterEntry
  <2> QED BY <2>1, <2>2
<1>8. PICK r, p, m : r = RemoveAt(w, i) /\ p = Position(s, Upgraded(e)) /\ m = lock_Conv[e.blocked][total[k]]
  OBVIOUS
<1>9. /\ waiter' = [waiter EXCEPT ![k] = r] /\ holder' = [holder EXCEPT ![k] = p]
      /\ total' = [total EXCEPT ![k] = m] /\ mutex' = mutex
      /\ th' = [th EXCEPT ![e.tran] = Resumed(th[e.tran], "granted")]
  BY <1>4, <1>7, <1>8 DEF GrantEntry, Upgraded
<1>10. PICK u \in Entry : /\ u = Upgraded(e) /\ HolderEntry(u) /\ u.tran = e.tran
                          /\ u.granted = e.blocked /\ u.blocked = NULL_LOCK
  BY <1>7, UpgradedIs
<1>11. /\ WaiterList(r) /\ Range(r) = Range(w) \ {e} /\ Removed(r, w, i)
       /\ \A f \in Range(r) : f.tran # e.tran
  <2>1. /\ WaiterList(RemoveAt(w, i)) /\ Range(RemoveAt(w, i)) = Range(w) \ {w[i]}
        /\ \A f \in Range(RemoveAt(w, i)) : f.tran # w[i].tran
        /\ Removed(RemoveAt(w, i), w, i)
    BY <1>5, <1>6, WaiterLeaves
  <2> QED BY <1>7, <1>8, <2>1
<1>12. HolderList(p) /\ Range(p) = Range(s) \cup {u}
  <2>1. \A f \in Range(s) : f.tran # u.tran
    BY <1>5, <1>7, <1>10 DEF Apart
  <2>2. p = Position(s, u)
    BY <1>8, <1>10
  <2> QED BY <1>5, <1>10, <2>1, <2>2, PositionIs
<1>13. m \in Mode /\ total[k] <= m /\ IsTotal(m, Range(p))
  <2>1. m \in Mode /\ total[k] <= m
    BY <1>5, <1>7, <1>8, ConvGrows
  <2>2. Range(s) \in SUBSET Entry
    BY <1>5, RangeIs
  <2>3. IsTotal(lock_Conv[u.granted][total[k]], Range(s) \cup {u})
    BY <1>5, <1>10, <2>2, TotalJoins
  <2> QED BY <1>8, <1>10, <1>12, <2>1, <2>3
<1>14. /\ holder' \in [Key -> Seq(Entry)] /\ SetAt(holder', holder, k, p)
       /\ waiter' \in [Key -> Seq(Entry)] /\ SetAt(waiter', waiter, k, r)
       /\ total' \in [Key -> Mode] /\ SetAt(total', total, k, m)
  <2>1. holder \in [Key -> Seq(Entry)] /\ waiter \in [Key -> Seq(Entry)] /\ total \in [Key -> Mode]
    BY <1>3 DEF Types
  <2>2. p \in Seq(Entry) /\ r \in Seq(Entry)
    BY <1>11, <1>12 DEF HolderList, WaiterList
  <2>3. [holder EXCEPT ![k] = p] \in [Key -> Seq(Entry)] /\ SetAt([holder EXCEPT ![k] = p], holder, k, p)
    BY <1>2, <2>1, <2>2, SetAtIs
  <2>4. [waiter EXCEPT ![k] = r] \in [Key -> Seq(Entry)] /\ SetAt([waiter EXCEPT ![k] = r], waiter, k, r)
    BY <1>2, <2>1, <2>2, SetAtIs
  <2>5. [total EXCEPT ![k] = m] \in [Key -> Mode] /\ SetAt([total EXCEPT ![k] = m], total, k, m)
    BY <1>2, <1>13, <2>1, SetAtIs
  <2> QED BY <1>9, <2>3, <2>4, <2>5
<1>15. /\ th' \in [Tran -> Thread] /\ \A v \in Tran \ {e.tran} : th'[v] = th[v]
       /\ th'[e.tran].pc = th[e.tran].pc /\ th'[e.tran].at = th[e.tran].at
       /\ th'[e.tran].skip = th[e.tran].skip /\ ~th'[e.tran].lockwait
  <2>1. th' = [th EXCEPT ![e.tran] = Resumed(th[e.tran], "granted")]
    BY <1>9
  <2> QED BY <1>3, <1>7, <2>1, ResumeIs
<1>16. holder'[k] = p /\ waiter'[k] = r /\ total'[k] = m /\ mutex' = mutex
  BY <1>9, <1>14 DEF SetAt
<1>17. Types' /\ Rest(k)
  <2>1. mutex' = mutex
    BY <1>16
  <2> QED BY <1>3, <1>14, <1>15, <2>1 DEF Types, Rest, SetAt
<1>18. Lists(holder'[k], waiter'[k], total'[k])
  <2>1. Apart(p, r)
    BY <1>5, <1>10, <1>11, <1>12 DEF Apart
  <2> QED BY <1>11, <1>12, <1>13, <1>16, <2>1 DEF Lists
<1>19. e \notin Range(s)
  BY <1>5, <1>7 DEF Apart
<1>20. e \in Entries(k) /\ Entries(k)' = (Entries(k) \ {e}) \cup {Upgraded(e)}
  <2>1. Entries(k)' = Range(p) \cup Range(r) /\ Entries(k) = Range(s) \cup Range(w)
    BY <1>4, <1>16 DEF Entries
  <2>2. Entries(k)' = (Entries(k) \ {e}) \cup {u}
    BY <1>11, <1>12, <1>19, <2>1
  <2> QED BY <1>7, <1>10, <2>1, <2>2
<1>21. Calm /\ \A v \in Tran : th'[v].lockwait => th[v].lockwait
  BY <1>15 DEF Calm
<1>22. Settled(k)'
  <2>1. Settled(k)
    BY <1>1, <1>2 DEF OwnerInv
  <2>2. holder'[k] \in Seq(Entry) /\ Range(holder'[k]) = (Range(holder[k]) \ {e}) \cup {u}
    BY <1>4, <1>12, <1>16, <1>19 DEF HolderList
  <2>3. e \notin Range(holder[k]) /\ u.blocked = NULL_LOCK
    BY <1>4, <1>10, <1>19
  <2> QED BY <1>2, <1>21, <2>1, <2>2, <2>3, SettledGrows
<1>23. th'[t].pc = th[t].pc /\ th'[t].skip = n
  BY <1>15
<1>24. n <= Len(r) /\ (\A h \in 1 .. n : r[h] = w[h] /\ h \in 1 .. Len(w)) /\ (n >= 1 => i > 1)
  <2>1. /\ Len(r) = Len(w) - 1 /\ Len(w) \in Nat
        /\ \A j \in 1 .. Len(w) - 1 : r[j] = IF j < i THEN w[j] ELSE w[j + 1]
    BY <1>5, <1>11, SMTT(30) DEF Removed
  <2>2. i = n + 1 /\ n + 1 <= Len(w)
    BY <1>2, <1>4, <1>6, <2>1, SMTT(30)
  <2>3. ASSUME NEW h \in 1 .. n PROVE r[h] = w[h] /\ h \in 1 .. Len(w)
    <3>1. h \in 1 .. Len(w) - 1 /\ h < i /\ h \in 1 .. Len(w)
      BY <1>2, <2>1, <2>2, SMTT(30)
    <3> QED BY <2>1, <3>1, SMTT(30)
  <2>4. n <= Len(r) /\ (n >= 1 => i > 1)
    BY <1>2, <2>1, <2>2, SMTT(30)
  <2> QED BY <2>3, <2>4
<1>25. ASSUME th[t].pc = "waiters" PROVE PassedWaiters(k, n)'
  <2>1. \A h \in 1 .. n : ~Waits(w[h])
    BY <1>2, <1>4, <1>25 DEF OwnerInv, PassedWaiters
  <2>2. \A h \in 1 .. n : w[h].tran \in Tran
    BY <1>5, <1>24, RangeIs, EntryIs
  <2> QED BY <1>16, <1>21, <1>24, <2>1, <2>2 DEF PassedWaiters, Waits
<1>26. ASSUME th[t].pc = "partial", n >= 1 PROVE Stuck(k)'
  <2>1. Stuck(k)
    BY <1>2, <1>26 DEF OwnerInv
  <2>2. i > 1
    BY <1>24, <1>26
  <2>3. r # <<>> => w # <<>> /\ r[1] = w[1]
    BY <1>5, <1>6, <1>11, <2>2, HeadStays
  <2>4. waiter'[k] # <<>> => waiter[k] # <<>> /\ waiter'[k][1] = waiter[k][1]
    BY <1>4, <1>16, <2>3
  <2>5. total'[k] \in Mode /\ total[k] <= total'[k]
    BY <1>13, <1>16
  <2> QED BY <1>2, <1>21, <2>1, <2>4, <2>5, StuckGrows
<1>27. OwnerInv(t, k)'
  <2>1. n <= Len(waiter'[k])
    BY <1>16, <1>24
  <2> QED BY <1>1, <1>22, <1>23, <1>25, <1>26, <2>1 DEF OwnerInv, PassedWaiters
<1> QED BY <1>2, <1>7, <1>15, <1>16, <1>17, <1>18, <1>20, <1>27, GrantStep

(* A list that is not empty.                                               *)
LEMMA NonEmpty ==
    ASSUME NEW s \in Seq(Entry), NEW n \in Nat
    PROVE  /\ s # <<>> => 1 \in 1 .. Len(s) /\ s[1] \in Entry
           /\ n + 1 <= Len(s) <=> n + 1 \in 1 .. Len(s)
           /\ ~(n >= 1) => n + 1 = 1
           /\ n >= 1 => 1 \in 1 .. n
           /\ s # <<>> => 0 + 1 <= Len(s)
BY SMTT(30)

(* A turn of the loop over the waiters.                                    *)
LEMMA GrantWaiterKeeps ==
    ASSUME Inv, NEW t \in Tran, GrantWaiter(t)
    PROVE  Inv'
<1>0. PICK k, n : k = th[t].at /\ n = th[t].skip
  OBVIOUS
<1> DEFINE w == waiter[k]
           go == n + 1 <= Len(w) /\ lock_Comp[w[n + 1].blocked][total[k]]
<1>1. /\ th[t].pc = "waiters"
      /\ \/ ~go /\ Finish(t)
         \/ go /\ GrantEntry(k, n + 1)
         \/ go /\ ~Waits(w[n + 1]) /\ Pass(t)
  BY <1>0 DEF GrantWaiter
<1>2. th[t].pc \in Loop /\ th[t].pc \in {"waiters", "partial"} /\ th[t].pc # "partial" /\ th[t].pc # "holders"
  BY <1>1 DEF Loop
<1>3. /\ k \in Key /\ OwnerInv(t, k) /\ n \in Nat
  BY <1>0, <1>2, Granting
<1>4. w \in Seq(Entry)
  BY <1>3, AtKey
<1>5. go => n + 1 \in 1 .. Len(w)
  BY <1>3, <1>4, NonEmpty
<1>6. ASSUME ~go, Finish(t) PROVE Inv'
  <2>1. Settled(k) /\ PassedWaiters(k, n)
    BY <1>0, <1>1, <1>2, <1>3 DEF OwnerInv
  <2>2. Stuck(k)
    <3>1. SUFFICES ASSUME w # <<>>
                   PROVE  ~Waits(w[1]) \/ ~lock_Comp[w[1].blocked][total[k]]
      BY DEF Stuck
    <3>2. CASE n >= 1
      BY <1>3, <1>4, <2>1, <3>2, NonEmpty DEF PassedWaiters
    <3>3. CASE ~(n >= 1)
      <4>1. n = 0 /\ n + 1 = 1 /\ 1 <= Len(w)
        BY <1>3, <1>4, <3>1, <3>3, SMTT(30)
      <4> QED BY <1>6, <4>1
    <3> QED BY <3>2, <3>3
  <2> QED BY <1>0, <1>2, <1>6, <2>1, <2>2, FinishKeeps
<1>7. ASSUME go, GrantEntry(k, n + 1) PROVE Inv'
  BY <1>0, <1>2, <1>5, <1>7, GrantEntryKeeps
<1>8. ASSUME go, ~Waits(w[n + 1]), Pass(t) PROVE Inv'
  BY <1>0, <1>2, <1>5, <1>8, WaiterPassed
<1> QED BY <1>1, <1>6, <1>7, <1>8

(* Nobody stands before the first waiter.                                  *)
LEMMA NobodyBefore ==
    ASSUME NEW w \in Seq(Entry), NEW m \in Mode
    PROVE  lock_Comp[m][Blocked(Before(w, 1))]
<1>1. Before(w, 1) \in Seq(Entry) /\ Len(Before(w, 1)) = 0
  BY SMTT(30) DEF Before
<1>2. PICK b : b = Blocked(Before(w, 1))
  OBVIOUS
<1>3. b = NULL_LOCK
  <2>1. ~\E i \in 1 .. Len(Before(w, 1)) : TRUE
    BY <1>1, SMTT(30)
  <2>2. b = NULL_LOCK \/ \E i \in 1 .. Len(Before(w, 1)) : b = Before(w, 1)[i].blocked
    BY <1>1, <1>2, BlockedIs
  <2> QED BY <2>1, <2>2
<1>4. NULL_LOCK \in Mode
  BY NullMode
<1>5. lock_Comp[m][NULL_LOCK] <=> m + NULL_LOCK <= 5
  BY <1>4, CompIs
<1>6. m + NULL_LOCK <= 5
  BY ModeIs, SMTT(30) DEF NULL_LOCK
<1> QED BY <1>2, <1>3, <1>5, <1>6

(* A turn of the loop over the waiters behind one that has left.           *)
LEMMA GrantPartialKeeps ==
    ASSUME Inv, NEW t \in Tran, GrantPartial(t)
    PROVE  Inv'
<1>0. PICK k, n : k = th[t].at /\ n = th[t].skip
  OBVIOUS
<1> DEFINE w == waiter[k]
           go == /\ n + 1 <= Len(w)
                 /\ lock_Comp[w[n + 1].blocked][Blocked(Before(w, n + 1))]
           grant == lock_Comp[w[n + 1].blocked][total[k]] /\ Waits(w[n + 1])
<1>1. /\ th[t].pc = "partial"
      /\ \/ ~go /\ Finish(t)
         \/ go /\ GrantEntry(k, n + 1)
         \/ go /\ ~grant /\ Pass(t)
  BY <1>0 DEF GrantPartial
<1>2. th[t].pc \in Loop /\ th[t].pc \in {"waiters", "partial"} /\ th[t].pc # "waiters" /\ th[t].pc # "holders"
  BY <1>1 DEF Loop
<1>3. /\ k \in Key /\ OwnerInv(t, k) /\ n \in Nat
  BY <1>0, <1>2, Granting
<1>4. w \in Seq(Entry)
  BY <1>3, AtKey
<1>5. go => n + 1 \in 1 .. Len(w)
  BY <1>3, <1>4, NonEmpty
<1>s. Settled(k) /\ (n >= 1 => Stuck(k))
  BY <1>0, <1>1, <1>2, <1>3 DEF OwnerInv
<1>6. ASSUME ~go, Finish(t) PROVE Inv'
  <2>2. Stuck(k)
    <3>1. SUFFICES ASSUME w # <<>>, ~(n >= 1) PROVE FALSE
      BY <1>s DEF Stuck
    <3>2. n + 1 = 1 /\ 1 <= Len(w) /\ 1 \in 1 .. Len(w)
      BY <1>3, <1>4, <3>1, SMTT(30)
    <3>3. w[1].blocked \in Mode
      BY <1>4, <3>2, RangeIs, EntryIs
    <3>4. lock_Comp[w[1].blocked][Blocked(Before(w, 1))]
      BY <1>4, <3>3, NobodyBefore
    <3> QED BY <1>6, <3>2, <3>4
  <2> QED BY <1>0, <1>2, <1>6, <1>s, <2>2, FinishKeeps
<1>7. ASSUME go, GrantEntry(k, n + 1) PROVE Inv'
  BY <1>0, <1>2, <1>5, <1>7, GrantEntryKeeps
<1>8. ASSUME go, ~grant, Pass(t) PROVE Inv'
  <2>1. Stuck(k)
    <3>1. CASE n >= 1
      BY <1>s, <3>1
    <3>2. CASE ~(n >= 1)
      <4>1. n + 1 = 1
        BY <1>3, <3>2, SMTT(30)
      <4> QED BY <1>8, <4>1 DEF Stuck
    <3> QED BY <3>1, <3>2
  <2> QED BY <1>0, <1>2, <1>5, <1>8, <2>1, WaiterPassed
<1> QED BY <1>1, <1>6, <1>7, <1>8

-----------------------------------------------------------------------------
(* The invariant holds when the server starts ...                          *)
LEMMA InitInv == Init => Inv
<1> SUFFICES ASSUME Init PROVE Inv
  BY SMTT(30)
<1>1. /\ \A k \in Key : /\ holder[k] = <<>> /\ waiter[k] = <<>> /\ total[k] = NULL_LOCK
                        /\ mutex[k] = None
      /\ \A t \in Tran : th[t] = Idling
  BY DEF Init
<1>2. Idling \in Thread /\ Idling.pc = "run" /\ Idling.skip = 0
  BY SMTT(30) DEF Idling, Thread
<1>3. <<>> \in Seq(Entry) /\ Range(<<>>) = {} /\ Len(<<>>) = 0
  BY SMTT(30) DEF Range
<1>4. NULL_LOCK \in Mode
  BY NullMode
<1>5. Types
  BY <1>2, <1>3, <1>4 DEF Init, Types
<1>6. ASSUME NEW k \in Key PROVE Lists(holder[k], waiter[k], total[k])
  <2>1. Distinct(<<>>) /\ Ordered(<<>>)
    BY <1>3, SMTT(30) DEF Distinct, Ordered
  <2>2. HolderList(<<>>) /\ WaiterList(<<>>)
    BY <1>3, <2>1 DEF HolderList, WaiterList
  <2>3. Apart(<<>>, <<>>) /\ IsTotal(NULL_LOCK, Range(<<>>))
    BY <1>3, <1>4 DEF Apart, IsTotal
  <2> QED BY <1>1, <2>2, <2>3 DEF Lists
<1>7. \A k \in Key : Entries(k) = {}
  BY <1>1, <1>3 DEF Entries
<1>8. ASSUME NEW t \in Tran PROVE ThreadInv(t)
  <2>1. th[t].pc = "run" /\ th[t].skip = 0
    BY <1>1, <1>2
  <2>2. th[t].pc \notin Asking /\ th[t].pc \notin Loop /\ th[t].pc # "susp"
    BY <2>1 DEF Asking, Loop
  <2>3. \A k \in Key : ~BlockedAt(t, k) /\ mutex[k] # t
    BY <1>1, <1>7, NoneAssumption DEF BlockedAt
  <2> QED BY <2>1, <2>2, <2>3 DEF ThreadInv
<1>9. ASSUME NEW k \in Key PROVE LoopInv(k)
  BY <1>1, <1>3, NoneAssumption DEF LoopInv, Settled, Stuck
<1> QED BY <1>5, <1>6, <1>8, <1>9 DEF Inv

(* ... and every step keeps it.                                            *)
LEMMA NextInv == Inv /\ [Next]_vars => Inv'
<1> SUFFICES ASSUME Inv, [Next]_vars PROVE Inv'
  BY SMTT(30)
<1>1. CASE UNCHANGED vars
  <2>1. holder' = holder /\ waiter' = waiter /\ total' = total /\ mutex' = mutex /\ th' = th
    BY <1>1, SMTT(30) DEF vars
  <2>2. Calm /\ \A u \in Tran : Same(u)
    BY <2>1, ThreadsSame
  <2>3. th' \in [Tran -> Thread]
    BY <2>1 DEF Inv, Types
  <2> QED BY <2>1, <2>2, <2>3, ThreadStep
<1>2. ASSUME NEW t \in Tran, Ask(t) PROVE Inv'
  <2>1. PICK k \in Key, m \in Request :
            \/ LockNew(t, k, m) \/ LockWait(t, k, m) \/ Relock(t, k, m)
            \/ Convert(t, k, m) \/ ConvertWait(t, k, m)
    BY <1>2 DEF Ask
  <2> QED BY <2>1, LockNewKeeps, LockWaitKeeps, RelockKeeps, ConvertKeeps, ConvertWaitKeeps
<1>3. ASSUME NEW t \in Tran, NEW k \in Key, Unlock(t, k) PROVE Inv'
  BY <1>3, UnlockKeeps
<1>4. ASSUME NEW t \in Tran, ForceTimeout(t) \/ StopWake(t) \/ Wake(t) PROVE Inv'
  BY <1>4, ForceTimeoutKeeps, StopWakeKeeps, WakeKeeps
<1>5. ASSUME NEW t \in Tran, GiveUp(t) \/ EndTran(t) \/ UnlockAll(t) PROVE Inv'
  BY <1>5, GiveUpKeeps, EndTranKeeps, UnlockAllKeeps
<1>6. ASSUME NEW t \in Tran, RemoveHolder(t) \/ RemoveWaiter(t) PROVE Inv'
  BY <1>6, RemoveHolderKeeps, RemoveWaiterKeeps
<1>7. ASSUME NEW t \in Tran, GrantHolder(t) \/ GrantWaiter(t) \/ GrantPartial(t) PROVE Inv'
  BY <1>7, GrantHolderKeeps, GrantWaiterKeeps, GrantPartialKeeps
<1> QED BY <1>1, <1>2, <1>3, <1>4, <1>5, <1>6, <1>7 DEF Next, Release

(* The inductive invariant of the lock manager: the lists, the total mode, *)
(* where each thread is, and how far a granting loop has come, hold at     *)
(* every step of every thread, of the daemon that expires waits and of the *)
(* shutdown.                                                               *)
THEOREM Invariance == Spec => []Inv
<1>1. Init => Inv
  BY InitInv, SMTT(30)
<1>2. Inv /\ [Next]_vars => Inv'
  BY NextInv, SMTT(30)
<1> QED BY <1>1, <1>2, PTL DEF Spec

(* A transaction has one entry in the two lists of a resource.             *)
LEMMA InvTypeOK == Inv => TypeOK
<1> SUFFICES ASSUME Inv PROVE TypeOK
  BY SMTT(30)
<1>1. Types
  BY DEF Inv
<1>2. ASSUME NEW k \in Key
      PROVE  IsInjective([i \in DOMAIN (holder[k] \o waiter[k]) |->
                              (holder[k] \o waiter[k])[i].tran])
  <2>1. PICK s, w : s = holder[k] /\ w = waiter[k]
    OBVIOUS
  <2>2. /\ s \in Seq(Entry) /\ w \in Seq(Entry) /\ Distinct(s) /\ Distinct(w) /\ Apart(s, w)
    BY <1>2, <2>1, AtKey DEF HolderList, WaiterList
  <2>3. PICK c : c = s \o w
    OBVIOUS
  <2>4. /\ c \in Seq(Entry) /\ Len(c) = Len(s) + Len(w)
        /\ \A j \in 1 .. Len(s) + Len(w) : c[j] = IF j <= Len(s) THEN s[j] ELSE w[j - Len(s)]
    BY <2>2, <2>3, ConcatIs
  <2>5. DOMAIN c = 1 .. Len(c) /\ Len(s) \in Nat /\ Len(w) \in Nat
    BY <2>2, <2>4, SMTT(30)
  <2>6. ASSUME NEW a \in 1 .. Len(c), NEW b \in 1 .. Len(c), c[a].tran = c[b].tran
        PROVE  a = b
    <3>0. a \in 1 .. Len(s) + Len(w) /\ b \in 1 .. Len(s) + Len(w)
      BY <2>4
    <3>1. CASE a <= Len(s) /\ b <= Len(s)
      <4>1. a \in 1 .. Len(s) /\ b \in 1 .. Len(s)
        BY <2>5, <3>0, <3>1, SMTT(30)
      <4>2. c[a] = s[a] /\ c[b] = s[b]
        BY <2>4, <3>0, <3>1
      <4> QED BY <2>2, <2>6, <4>1, <4>2 DEF Distinct
    <3>2. CASE ~(a <= Len(s)) /\ ~(b <= Len(s))
      <4>1. /\ a - Len(s) \in 1 .. Len(w) /\ b - Len(s) \in 1 .. Len(w)
            /\ a - Len(s) = b - Len(s) => a = b
        BY <2>5, <3>0, <3>2, SMTT(30)
      <4>2. c[a] = w[a - Len(s)] /\ c[b] = w[b - Len(s)]
        BY <2>4, <3>0, <3>2
      <4>3. w[a - Len(s)].tran = w[b - Len(s)].tran
        BY <2>6, <4>2
      <4>4. a - Len(s) = b - Len(s)
        BY <2>2, <4>1, <4>3 DEF Distinct
      <4> QED BY <4>1, <4>4
    <3>3. ASSUME NEW x \in 1 .. Len(c), NEW y \in 1 .. Len(c), x <= Len(s), ~(y <= Len(s))
          PROVE  c[x].tran # c[y].tran
      <4>1. x \in 1 .. Len(s) /\ y - Len(s) \in 1 .. Len(w)
        BY <2>4, <2>5, <3>3, SMTT(30)
      <4>2. c[x] = s[x] /\ c[y] = w[y - Len(s)]
        BY <2>4, <3>3
      <4>3. s[x] \in Range(s) /\ w[y - Len(s)] \in Range(w)
        BY <2>2, <4>1, RangeIs
      <4> QED BY <2>2, <4>2, <4>3 DEF Apart
    <3>4. CASE a <= Len(s) /\ ~(b <= Len(s))
      BY <2>6, <3>3, <3>4
    <3>5. CASE b <= Len(s) /\ ~(a <= Len(s))
      <4>1. c[b].tran # c[a].tran
        BY <3>3, <3>5
      <4> QED BY <2>6, <4>1
    <3> QED BY <3>1, <3>2, <3>4, <3>5
  <2>7. IsInjective([i \in DOMAIN c |-> c[i].tran])
    BY <2>5, <2>6 DEF IsInjective
  <2> QED BY <2>1, <2>3, <2>7
<1> QED BY <1>1, <1>2 DEF TypeOK, Types

(* The lists, the modes and the thread entries keep their types, and a     *)
(* transaction has at most one entry at a resource, in one of its lists.   *)
THEOREM TypeSafety == Spec => []TypeOK
<1>1. Spec => []Inv
  BY Invariance, SMTT(30)
<1>2. Inv => TypeOK
  BY InvTypeOK, SMTT(30)
<1> QED BY <1>1, <1>2, PTL

(* total_holders_mode is what its definition says ...                      *)
LEMMA InvTotal == Inv => TotalIsExact
<1> SUFFICES ASSUME Inv, NEW k \in Key PROVE total[k] = TotalHolders(holder[k])
  BY DEF TotalIsExact
<1>1. holder[k] \in Seq(Entry) /\ IsTotal(total[k], Range(holder[k]))
  BY AtKey
<1> QED BY <1>1, TotalIs

(* total_holders_mode is exact at every release of res_mutex, whichever    *)
(* path of request, conversion, release or granting loop changed the list. *)
THEOREM TotalExact == Spec => []TotalIsExact
<1>1. Spec => []Inv
  BY Invariance, SMTT(30)
<1>2. Inv => TotalIsExact
  BY InvTotal, SMTT(30)
<1> QED BY <1>1, <1>2, PTL

(* The granting loop over the holders forgets no upgrader ...              *)
LEMMA InvUpgrader == Inv => NoForgottenUpgrader
<1> SUFFICES ASSUME Inv, NEW k \in Key, mutex[k] = None, NEW i \in DOMAIN holder[k],
                    holder[k][i].blocked # NULL_LOCK, Waits(holder[k][i])
             PROVE  ~lock_Comp[holder[k][i].blocked][Granted(Others(k, i))]
  BY DEF NoForgottenUpgrader
<1>1. PICK s : s = holder[k] /\ s \in Seq(Entry) /\ HolderList(s)
  BY AtKey
<1>2. i \in 1 .. Len(s)
  BY <1>1, SMTT(30)
<1>3. s[i] \in Range(s) /\ s[i] \in Entry /\ s[i].blocked \in Mode
  BY <1>1, <1>2, RangeIs, EntryIs
<1>4. Settled(k)
  BY AtKey DEF LoopInv
<1>5. PICK f \in Range(s) : f.tran # s[i].tran /\ ~lock_Comp[s[i].blocked][f.granted]
  BY <1>1, <1>3, <1>4 DEF Settled
<1>6. /\ HolderList(RemoveAt(s, i)) /\ Range(RemoveAt(s, i)) = Range(s) \ {s[i]}
  BY <1>1, <1>2, HolderLeaves
<1>7. f \in Range(RemoveAt(s, i))
  BY <1>5, <1>6
<1>8. RemoveAt(s, i) \in Seq(Entry)
  BY <1>6 DEF HolderList
<1>9. ~lock_Comp[s[i].blocked][Granted(RemoveAt(s, i))]
  BY <1>3, <1>5, <1>7, <1>8, GrantedAllows
<1> QED BY <1>1, <1>9 DEF Others

(* Whenever res_mutex is free, an upgrader that still sleeps could not be  *)
(* granted (lock_grant_blocked_holder passes by nobody who could).         *)
THEOREM NoUpgraderForgotten == Spec => []NoForgottenUpgrader
<1>1. Spec => []Inv
  BY Invariance, SMTT(30)
<1>2. Inv => NoForgottenUpgrader
  BY InvUpgrader, SMTT(30)
<1> QED BY <1>1, <1>2, PTL

(* The granting loops over the waiters forget no waiter ...                *)
LEMMA InvWaiter == Inv => NoForgottenWaiter
<1> SUFFICES ASSUME Inv, NEW k \in Key, mutex[k] = None, NEW i \in DOMAIN waiter[k],
                    Waits(waiter[k][i]), lock_Comp[waiter[k][i].blocked][total[k]]
             PROVE  \E j \in 1 .. i - 1 : \/ ~lock_Comp[waiter[k][j].blocked][total[k]]
                                          \/ ~Waits(waiter[k][j])
  BY DEF NoForgottenWaiter
<1>1. PICK w : w = waiter[k] /\ w \in Seq(Entry)
  BY AtKey
<1>2. i \in 1 .. Len(w) /\ w # <<>>
  BY <1>1, SMTT(30)
<1>3. Stuck(k)
  BY AtKey DEF LoopInv
<1>4. ~lock_Comp[w[1].blocked][total[k]] \/ ~Waits(w[1])
  BY <1>1, <1>2, <1>3 DEF Stuck
<1>5. i # 1
  BY <1>1, <1>4
<1>6. 1 \in 1 .. i - 1
  BY <1>2, <1>5, SMTT(30)
<1> QED BY <1>1, <1>4, <1>6

(* Whenever res_mutex is free, a waiter that still sleeps and is           *)
(* compatible with the total mode stands behind one that is not, or behind *)
(* one that has been resumed (lock_grant_blocked_waiter and its partial    *)
(* form).                                                                  *)
THEOREM NoWaiterForgotten == Spec => []NoForgottenWaiter
<1>1. Spec => []Inv
  BY Invariance, SMTT(30)
<1>2. Inv => NoForgottenWaiter
  BY InvWaiter, SMTT(30)
<1> QED BY <1>1, <1>2, PTL

(* The mode of t in a list of holders.                                     *)
HeldIn(s, t) ==
    LET own == {e \in Range(s) : e.tran = t}
    IN  IF own = {} THEN NULL_LOCK ELSE (CHOOSE e \in own : TRUE).granted

(* It is the mode of the one entry the transaction has in the list.        *)
LEMMA HeldIs ==
    ASSUME NEW s, HolderList(s), NEW t
    PROVE  /\ \A e \in Range(s) : e.tran = t => HeldIn(s, t) = e.granted
           /\ (\A e \in Range(s) : e.tran # t) => HeldIn(s, t) = NULL_LOCK
           /\ HeldIn(s, t) \in Mode
<1>1. s \in Seq(Entry) /\ Distinct(s)
  BY DEF HolderList
<1>2. ASSUME NEW e \in Range(s), e.tran = t PROVE HeldIn(s, t) = e.granted
  <2>1. ASSUME NEW f \in Range(s), f.tran = t PROVE f = e
    <3>1. PICK i \in 1 .. Len(s) : e = s[i]
      BY <1>1, RangeIs
    <3>2. PICK j \in 1 .. Len(s) : f = s[j]
      BY <1>1, RangeIs
    <3>3. s[i].tran = s[j].tran
      BY <1>2, <2>1, <3>1, <3>2
    <3>4. i = j
      BY <1>1, <3>3 DEF Distinct
    <3> QED BY <3>1, <3>2, <3>4
  <2>2. {f \in Range(s) : f.tran = t} = {e}
    BY <1>2, <2>1
  <2>3. (CHOOSE f \in {e} : TRUE) = e
    OBVIOUS
  <2> QED BY <2>2, <2>3 DEF HeldIn
<1>3. ASSUME \A e \in Range(s) : e.tran # t PROVE HeldIn(s, t) = NULL_LOCK
  <2>1. {f \in Range(s) : f.tran = t} = {}
    BY <1>3
  <2> QED BY <2>1 DEF HeldIn
<1>4. HeldIn(s, t) \in Mode
  <2>1. \A e \in Range(s) : e.granted \in Mode
    BY <1>1, RangeIs, EntryIs
  <2> QED BY <1>2, <1>3, <2>1, NullMode
<1> QED BY <1>2, <1>3, <1>4

(* Held reads the holder list.                                             *)
LEMMA HeldAt ==
    ASSUME NEW k, NEW t
    PROVE  Held(k, t) = HeldIn(holder[k], t) /\ Held(k, t)' = HeldIn(holder'[k], t)
BY DEF Held, HeldIn

(* The step changes what t holds at k, at most.                            *)
HeldOnly(t, k) ==
    \A j \in Key, u \in Tran : j # k \/ u # t => Held(j, u)' = Held(j, u)

(* Steps of the table.                                                     *)
LEMMA TableSame ==
    ASSUME \A j \in Key, u \in Tran : Held(j, u)' = Held(j, u)
    PROVE  held' = held
BY SMTT(30) DEF held

(* The table changes for one transaction at one resource ...               *)
LEMMA TableOnly ==
    ASSUME NEW k \in Key, NEW t \in Tran, HeldOnly(t, k)
    PROVE  Table!Only(t, k)
<1> DEFINE old == [j \in Key |-> [u \in Tran |-> Held(j, u)]]
           new == [j \in Key |-> [u \in Tran |-> Held(j, u)']]
<1>1. new = [old EXCEPT ![k] = [old[k] EXCEPT ![t] = new[k][t]]]
  BY DEF HeldOnly
<1> QED BY <1>1, SMTT(30) DEF Table!Only, held

(* ... which is granted a stronger mode ...                                *)
LEMMA TableGrant ==
    ASSUME NEW k \in Key, NEW t \in Tran, HeldOnly(t, k),
           Stronger(Held(k, t)', Held(k, t)),
           \A u \in Tran \ {t} : \/ lock_Comp[Held(k, t)'][Held(k, u)]
                                 \/ Held(k, t) # NULL_LOCK /\ u \in Leaving(k)
    PROVE  Table!Grant(t, k)
<1>1. Table!Only(t, k)
  BY TableOnly
<1> QED BY <1>1, SMTT(30) DEF Table!Grant, Compatible, Stronger, held, leaving

(* ... or releases what it had.                                            *)
LEMMA TableRelease ==
    ASSUME NEW k \in Key, NEW t \in Tran, HeldOnly(t, k),
           Held(k, t) # NULL_LOCK, Held(k, t)' = NULL_LOCK
    PROVE  Table!Release(t, k)
<1>1. Table!Only(t, k)
  BY TableOnly
<1> QED BY <1>1, SMTT(30) DEF Table!Release, held

(* A step of the lists is a step of the table, or changes nothing in it.   *)
TableStep == Table!Next \/ UNCHANGED held

(* One of these, or nothing at all.                                        *)
LEMMA StepIs ==
    ASSUME NEW k \in Key, NEW t \in Tran,
           \/ Table!Grant(t, k) \/ Table!Release(t, k)
           \/ \A j \in Key, u \in Tran : Held(j, u)' = Held(j, u)
    PROVE  TableStep
<1>1. CASE Table!Grant(t, k) \/ Table!Release(t, k)
  BY <1>1 DEF TableStep, Table!Next
<1>2. CASE \A j \in Key, u \in Tran : Held(j, u)' = Held(j, u)
  BY <1>2, TableSame DEF TableStep
<1> QED BY <1>1, <1>2

(* The holders stay.                                                       *)
LEMMA SameHolders ==
    ASSUME holder' = holder PROVE TableStep
<1>1. \A j \in Key, u \in Tran : Held(j, u)' = Held(j, u)
  BY HeldAt
<1> QED BY <1>1, TableSame DEF TableStep

(* Only counts of the holders at k change.                                 *)
LEMMA CountHolders ==
    ASSUME NEW k \in Key, \A j \in Key \ {k} : holder'[j] = holder[j],
           HolderList(holder[k]), HolderList(holder'[k]), Alike(holder[k], holder'[k])
    PROVE  TableStep
<1>1. ASSUME NEW u \in Tran PROVE HeldIn(holder'[k], u) = HeldIn(holder[k], u)
  <2>1. holder[k] \in Seq(Entry) /\ holder'[k] \in Seq(Entry)
    BY DEF HolderList
  <2>2. CASE \A e \in Range(holder[k]) : e.tran # u
    <3>1. ASSUME NEW f \in Range(holder'[k]) PROVE f.tran # u
      <4>1. PICK e \in Range(holder[k]) : e.tran = f.tran
        BY <2>1, AlikeRange
      <4> QED BY <2>2, <4>1
    <3>2. HeldIn(holder[k], u) = NULL_LOCK
      BY <2>2, HeldIs
    <3>3. HeldIn(holder'[k], u) = NULL_LOCK
      BY <3>1, HeldIs
    <3> QED BY <3>2, <3>3
  <2>3. ASSUME NEW e \in Range(holder[k]), e.tran = u
        PROVE  HeldIn(holder'[k], u) = HeldIn(holder[k], u)
    <3>1. PICK f \in Range(holder'[k]) : e.tran = f.tran /\ e.granted = f.granted
      BY <2>1, AlikeRange
    <3>2. HeldIn(holder[k], u) = e.granted
      BY <2>3, HeldIs
    <3>3. HeldIn(holder'[k], u) = f.granted
      BY <2>3, <3>1, HeldIs
    <3> QED BY <3>1, <3>2, <3>3
  <2> QED BY <2>2, <2>3
<1>2. ASSUME NEW j \in Key, NEW u \in Tran PROVE Held(j, u)' = Held(j, u)
  <2>1. HeldIn(holder'[j], u) = HeldIn(holder[j], u)
    BY <1>1
  <2> QED BY <2>1, HeldAt
<1> QED BY <1>2, TableSame DEF TableStep

(* Only the entry of t at k changes.                                       *)
LEMMA EntryOnly ==
    ASSUME NEW k \in Key, \A j \in Key \ {k} : holder'[j] = holder[j],
           HolderList(holder[k]), HolderList(holder'[k]), NEW t,
           \A f : f.tran # t => (f \in Range(holder'[k]) <=> f \in Range(holder[k]))
    PROVE  HeldOnly(t, k)
<1>1. ASSUME NEW u, u # t PROVE HeldIn(holder'[k], u) = HeldIn(holder[k], u)
  <2>2. CASE \A e \in Range(holder[k]) : e.tran # u
    <3>1. \A f \in Range(holder'[k]) : f.tran # u
      BY <1>1, <2>2
    <3>2. HeldIn(holder[k], u) = NULL_LOCK
      BY <2>2, HeldIs
    <3>3. HeldIn(holder'[k], u) = NULL_LOCK
      BY <3>1, HeldIs
    <3> QED BY <3>2, <3>3
  <2>3. ASSUME NEW e \in Range(holder[k]), e.tran = u
        PROVE  HeldIn(holder'[k], u) = HeldIn(holder[k], u)
    <3>1. e \in Range(holder'[k])
      BY <1>1, <2>3
    <3>2. HeldIn(holder[k], u) = e.granted
      BY <2>3, HeldIs
    <3>3. HeldIn(holder'[k], u) = e.granted
      BY <2>3, <3>1, HeldIs
    <3> QED BY <3>2, <3>3
  <2> QED BY <2>2, <2>3
<1>2. ASSUME NEW j \in Key, NEW u \in Tran, j # k \/ u # t PROVE Held(j, u)' = Held(j, u)
  <2>1. HeldIn(holder'[j], u) = HeldIn(holder[j], u)
    BY <1>1, <1>2
  <2> QED BY <2>1, HeldAt
<1> QED BY <1>2 DEF HeldOnly

(* A mode above another one.                                               *)
LEMMA StrongerIs ==
    ASSUME NEW a \in Mode, NEW b \in Mode, b < a
    PROVE  Stronger(a, b)
<1>1. lock_Conv[a][b] = IF a >= b THEN a ELSE b
  BY ConvIs
<1>2. a >= b /\ a # b
  BY ModeIs, SMTT(30)
<1> QED BY <1>1, <1>2 DEF Stronger

(* t had nothing at k, or the entry o, and has the entry n there now.      *)
LEMMA GrantTable ==
    ASSUME NEW k \in Key, \A j \in Key \ {k} : holder'[j] = holder[j],
           HolderList(holder[k]), HolderList(holder'[k]), NEW t \in Tran,
           \A f : f.tran # t => (f \in Range(holder'[k]) <=> f \in Range(holder[k])),
           NEW g \in Mode, NEW n \in Range(holder'[k]), n.tran = t, n.granted \in Mode,
           g < n.granted, Held(k, t) = g,
           \A e \in Range(holder[k]) : e.tran # t =>
               \/ lock_Comp[n.granted][e.granted]
               \/ g # NULL_LOCK /\ e.tran \in Leaving(k)
    PROVE  TableStep
<1>1. HeldOnly(t, k)
  BY EntryOnly
<1>2. Held(k, t)' = n.granted
  <2>1. HeldIn(holder'[k], t) = n.granted
    BY HeldIs
  <2> QED BY <2>1, HeldAt
<1>3. Stronger(Held(k, t)', Held(k, t))
  BY <1>2, StrongerIs
<1>4. lock_Comp[n.granted][NULL_LOCK]
  <2>1. lock_Comp[n.granted][NULL_LOCK] <=> n.granted + NULL_LOCK <= 5
    BY NullMode, CompIs
  <2> QED BY <2>1, ModeIs, SMTT(30) DEF NULL_LOCK
<1>5. ASSUME NEW u \in Tran \ {t}
      PROVE  \/ lock_Comp[Held(k, t)'][Held(k, u)]
             \/ Held(k, t) # NULL_LOCK /\ u \in Leaving(k)
  <2>1. CASE \A e \in Range(holder[k]) : e.tran # u
    <3>1. Held(k, u) = NULL_LOCK
      <4>1. HeldIn(holder[k], u) = NULL_LOCK
        BY <2>1, HeldIs
      <4> QED BY <4>1, HeldAt
    <3> QED BY <1>2, <1>4, <3>1
  <2>2. ASSUME NEW e \in Range(holder[k]), e.tran = u
        PROVE  \/ lock_Comp[Held(k, t)'][Held(k, u)]
               \/ Held(k, t) # NULL_LOCK /\ u \in Leaving(k)
    <3>1. Held(k, u) = e.granted
      <4>1. HeldIn(holder[k], u) = e.granted
        BY <2>2, HeldIs
      <4> QED BY <4>1, HeldAt
    <3>2. e.tran # t
      BY <2>2
    <3> QED BY <1>2, <2>2, <3>1, <3>2
  <2> QED BY <2>1, <2>2
<1>6. Table!Grant(t, k)
  BY <1>1, <1>3, <1>5, TableGrant
<1> QED BY <1>6, StepIs

(* The entry n joins the holders of k: its mode is granted.                *)
LEMMA JoinTable ==
    ASSUME Inv, Inv', NEW k \in Key, \A j \in Key \ {k} : holder'[j] = holder[j],
           NEW n \in Entry, n.granted # NULL_LOCK,
           \A f \in Range(holder[k]) : f.tran # n.tran,
           Range(holder'[k]) = Range(holder[k]) \cup {n},
           \A e \in Range(holder[k]) : lock_Comp[n.granted][e.granted]
    PROVE  TableStep
<1>1. HolderList(holder[k]) /\ HolderList(holder'[k])
  BY DEF Inv, Lists
<1>2. PICK t \in Tran : t = n.tran
  BY EntryIs
<1>3. \A f : f.tran # t => (f \in Range(holder'[k]) <=> f \in Range(holder[k]))
  BY <1>2
<1>4. Held(k, t) = NULL_LOCK
  <2>1. HeldIn(holder[k], t) = NULL_LOCK
    BY <1>1, <1>2, HeldIs
  <2> QED BY <2>1, HeldAt
<1>5. NULL_LOCK \in Mode /\ n.granted \in Mode /\ NULL_LOCK < n.granted
  <2>1. n.granted \in Mode /\ NULL_LOCK \in Mode
    BY EntryIs, NullMode
  <2>2. PICK x \in Mode : x = n.granted /\ x # NULL_LOCK
    BY <2>1
  <2>3. NULL_LOCK < x
    BY <2>2, ModeIs, SMTT(30) DEF NULL_LOCK
  <2> QED BY <2>1, <2>2, <2>3
<1>6. n \in Range(holder'[k]) /\ n.tran = t
  BY <1>2
<1> QED BY <1>1, <1>3, <1>4, <1>5, <1>6, GrantTable

(* The entry o of a holder of k becomes n: its mode stays, or is granted.  *)
LEMMA ChangeTable ==
    ASSUME Inv, Inv', NEW k \in Key, \A j \in Key \ {k} : holder'[j] = holder[j],
           NEW o \in Range(holder[k]), NEW n \in Entry, n.tran = o.tran,
           Range(holder'[k]) = (Range(holder[k]) \ {o}) \cup {n},
           \/ n.granted = o.granted
           \/ /\ o.granted < n.granted
              /\ \A e \in Range(holder[k]) : e.tran # o.tran =>
                    lock_Comp[n.granted][e.granted] \/ e.tran \in Leaving(k)
    PROVE  TableStep
<1>1. HolderList(holder[k]) /\ HolderList(holder'[k])
  BY DEF Inv, Lists
<1>2. PICK t \in Tran : t = n.tran /\ t = o.tran
  BY EntryIs
<1>3. \A f : f.tran # t => (f \in Range(holder'[k]) <=> f \in Range(holder[k]))
  BY <1>2
<1>4. Held(k, t) = o.granted
  <2>1. HeldIn(holder[k], t) = o.granted
    BY <1>1, <1>2, HeldIs
  <2> QED BY <2>1, HeldAt
<1>5. n \in Range(holder'[k]) /\ n.tran = t
  BY <1>2
<1>6. CASE n.granted = o.granted
  <2>1. HeldOnly(t, k)
    BY <1>1, <1>3, EntryOnly
  <2>2. Held(k, t)' = n.granted
    <3>1. HeldIn(holder'[k], t) = n.granted
      BY <1>1, <1>5, HeldIs
    <3> QED BY <3>1, HeldAt
  <2>3. \A j \in Key, u \in Tran : Held(j, u)' = Held(j, u)
    BY <1>4, <1>6, <2>1, <2>2 DEF HeldOnly
  <2> QED BY <1>2, <2>3, StepIs
<1>7. CASE /\ o.granted < n.granted
           /\ \A e \in Range(holder[k]) : e.tran # o.tran =>
                 lock_Comp[n.granted][e.granted] \/ e.tran \in Leaving(k)
  <2>1. o \in Entry /\ HolderEntry(o)
    <3>1. holder[k] \in Seq(Entry)
      BY <1>1 DEF HolderList
    <3>2. o \in Entry
      BY <3>1, RangeIs
    <3> QED BY <1>1, <3>2 DEF HolderList
  <2>2. o.granted \in Mode /\ o.granted # NULL_LOCK /\ n.granted \in Mode
    BY <2>1, EntryIs DEF HolderEntry
  <2>3. \A e \in Range(holder[k]) : e.tran # t =>
            \/ lock_Comp[n.granted][e.granted]
            \/ o.granted # NULL_LOCK /\ e.tran \in Leaving(k)
    BY <1>2, <1>7, <2>2
  <2>4. o.granted < n.granted
    BY <1>7
  <2> QED BY <1>1, <1>3, <1>4, <1>5, <2>2, <2>3, <2>4, GrantTable
<1> QED BY <1>6, <1>7

(* The entry o leaves the holders of k: its mode is released.              *)
LEMMA LeaveTable ==
    ASSUME Inv, Inv', NEW k \in Key, \A j \in Key \ {k} : holder'[j] = holder[j],
           NEW o \in Range(holder[k]), Range(holder'[k]) = Range(holder[k]) \ {o},
           \A f \in Range(holder'[k]) : f.tran # o.tran
    PROVE  TableStep
<1>1. HolderList(holder[k]) /\ HolderList(holder'[k]) /\ holder[k] \in Seq(Entry)
  BY DEF Inv, Lists, HolderList
<1>2. o \in Entry /\ o.granted # NULL_LOCK
  <2>1. o \in Entry
    BY <1>1, RangeIs
  <2> QED BY <1>1, <2>1 DEF HolderList, HolderEntry
<1>3. PICK t \in Tran : t = o.tran
  BY <1>2, EntryIs
<1>4. HeldOnly(t, k)
  <2>1. \A f : f.tran # t => (f \in Range(holder'[k]) <=> f \in Range(holder[k]))
    BY <1>3
  <2> QED BY <1>1, <2>1, EntryOnly
<1>5. Held(k, t) = o.granted
  <2>1. HeldIn(holder[k], t) = o.granted
    BY <1>1, <1>3, HeldIs
  <2> QED BY <2>1, HeldAt
<1>6. Held(k, t)' = NULL_LOCK
  <2>1. HeldIn(holder'[k], t) = NULL_LOCK
    BY <1>1, <1>3, HeldIs
  <2> QED BY <2>1, HeldAt
<1>7. Table!Release(t, k)
  BY <1>2, <1>4, <1>5, <1>6, TableRelease
<1> QED BY <1>7, StepIs

(* A request granted at once.                                              *)
LEMMA LockNewTable ==
    ASSUME Inv, Inv', NEW t \in Tran, NEW k \in Key, NEW m \in Request, LockNew(t, k, m)
    PROVE  TableStep
<1>1. /\ IndexOf(holder[k], t) = 0 /\ Grantable(k, m)
      /\ holder' = [holder EXCEPT ![k] = Position(holder[k], NewEntry(t, m, NULL_LOCK))]
  BY DEF LockNew, Holds
<1>2. m \in Mode /\ m # NULL_LOCK
  BY RequestIs
<1>n. PICK x : x = NewEntry(t, m, NULL_LOCK)
  BY SMTT(30)
<1>3. PICK n \in Entry : /\ n = NewEntry(t, m, NULL_LOCK) /\ n.tran = t
                         /\ n.granted = m /\ n.blocked = NULL_LOCK
  <2>1. NULL_LOCK \in Mode
    BY NullMode
  <2>2. x \in Entry /\ x.tran = t /\ x.granted = m /\ x.blocked = NULL_LOCK
    BY <1>2, <1>n, <2>1, NewEntryIs, SMTT(30)
  <2> QED BY <1>n, <2>2
<1>4. PICK s : /\ s = holder[k] /\ s \in Seq(Entry) /\ HolderList(s)
               /\ IsTotal(total[k], Range(s))
  BY AtKey
<1>5. \A f \in Range(s) : f.tran # n.tran
  <2>1. IndexOf(s, t) = 0
    BY <1>1, <1>4
  <2>2. \A f \in Range(s) : f.tran # t
    BY <1>4, <2>1, Absent
  <2> QED BY <1>3, <2>2
<1>6. HolderEntry(n)
  BY <1>2, <1>3 DEF HolderEntry
<1>7. PICK r : r = Position(s, n) /\ HolderList(r) /\ Range(r) = Range(s) \cup {n}
  BY <1>4, <1>5, <1>6, PositionIs
<1>8. r \in Seq(Entry) /\ holder' = [holder EXCEPT ![k] = r]
  BY <1>1, <1>3, <1>4, <1>7 DEF HolderList
<1>9. holder'[k] = r /\ \A j \in Key \ {k} : holder'[j] = holder[j]
  BY <1>8, HoldersSet
<1>10. \A e \in Range(s) : lock_Comp[m][e.granted]
  <2>1. CASE lock_Comp[m][total[k]]
    <3>1. Range(s) \in SUBSET Entry
      BY <1>4, RangeIs
    <3> QED BY <1>2, <1>4, <2>1, <3>1, TotalAllows
  <2>2. CASE lock_Comp[m][Granted(s)]
    BY <1>2, <1>4, <2>2, GrantedAllows
  <2> QED BY <1>1, <1>4, <2>1, <2>2 DEF Grantable
<1>11. /\ n.granted # NULL_LOCK /\ \A f \in Range(holder[k]) : f.tran # n.tran
       /\ Range(holder'[k]) = Range(holder[k]) \cup {n}
       /\ \A e \in Range(holder[k]) : lock_Comp[n.granted][e.granted]
  BY <1>2, <1>3, <1>4, <1>5, <1>7, <1>9, <1>10
<1> QED BY <1>9, <1>11, JoinTable

(* An upgrade granted at once.                                             *)
LEMMA ConvertTable ==
    ASSUME Inv, Inv', NEW t \in Tran, NEW k \in Key, NEW m \in Request, Convert(t, k, m)
    PROVE  TableStep
<1>1. /\ m \in Mode /\ m # NULL_LOCK /\ holder' \in [Key -> Seq(Entry)]
      /\ HolderList(holder'[k]) /\ \A j \in Key \ {k} : holder'[j] = holder[j]
      /\ \E e \in Range(holder[k]), n \in Entry :
            /\ e.tran = t /\ e.blocked = NULL_LOCK /\ e.granted < m
            /\ n.tran = t /\ n.blocked = NULL_LOCK /\ n.granted = m
            /\ Range(holder'[k]) = (Range(holder[k]) \ {e}) \cup {n}
            /\ \A f \in Range(holder[k]) \ {e} : lock_Comp[m][f.granted]
  BY ConvertIs
<1>2. PICK e \in Range(holder[k]), n \in Entry :
         /\ e.tran = t /\ e.blocked = NULL_LOCK /\ e.granted < m
         /\ n.tran = t /\ n.blocked = NULL_LOCK /\ n.granted = m
         /\ Range(holder'[k]) = (Range(holder[k]) \ {e}) \cup {n}
         /\ \A f \in Range(holder[k]) \ {e} : lock_Comp[m][f.granted]
  BY <1>1
<1>3. /\ n.tran = e.tran /\ e.granted < n.granted
      /\ \A f \in Range(holder[k]) : f.tran # e.tran =>
            lock_Comp[n.granted][f.granted] \/ f.tran \in Leaving(k)
  BY <1>2
<1>4. Range(holder'[k]) = (Range(holder[k]) \ {e}) \cup {n}
  BY <1>2
<1>5. \A j \in Key \ {k} : holder'[j] = holder[j]
  BY <1>1
<1> QED BY <1>3, <1>4, <1>5, ChangeTable

(* An upgrader that has to wait keeps the mode it has.                     *)
LEMMA ConvertWaitTable ==
    ASSUME Inv, Inv', NEW t \in Tran, NEW k \in Key, NEW m \in Request, ConvertWait(t, k, m)
    PROVE  TableStep
<1>1. /\ m \in Mode /\ m # NULL_LOCK /\ holder' \in [Key -> Seq(Entry)]
      /\ HolderList(holder'[k]) /\ \A j \in Key \ {k} : holder'[j] = holder[j]
      /\ \E e \in Range(holder[k]), n \in Entry :
            /\ e.tran = t /\ e.blocked = NULL_LOCK /\ e.granted < m
            /\ n.tran = t /\ n.blocked = m /\ n.granted = e.granted
            /\ Range(holder'[k]) = (Range(holder[k]) \ {e}) \cup {n}
            /\ \E f \in Range(holder[k]) \ {e} :
                  f.tran # t /\ ~lock_Comp[m][f.granted]
  BY ConvertWaitIs
<1>2. PICK e \in Range(holder[k]), n \in Entry :
         /\ e.tran = t /\ e.blocked = NULL_LOCK /\ e.granted < m
         /\ n.tran = t /\ n.blocked = m /\ n.granted = e.granted
         /\ Range(holder'[k]) = (Range(holder[k]) \ {e}) \cup {n}
         /\ \E f \in Range(holder[k]) \ {e} :
               f.tran # t /\ ~lock_Comp[m][f.granted]
  BY <1>1
<1>3. n.tran = e.tran /\ n.granted = e.granted
  BY <1>2
<1>4. Range(holder'[k]) = (Range(holder[k]) \ {e}) \cup {n}
  BY <1>2
<1>5. \A j \in Key \ {k} : holder'[j] = holder[j]
  BY <1>1
<1> QED BY <1>3, <1>4, <1>5, ChangeTable

(* A count of t at k changes.                                              *)
LEMMA CountTable ==
    ASSUME Inv, NEW t \in Tran, NEW k \in Key, NEW i, i = IndexOf(holder[k], t), i # 0,
           NEW c \in 0 .. MaxCount, holder' = [holder EXCEPT ![k][i].count = c]
    PROVE  TableStep
<1>1. holder[k] \in Seq(Entry) /\ HolderList(holder[k])
  BY AtKey
<1>2. i \in 1 .. Len(holder[k])
  BY <1>1, Present
<1>3. /\ HolderList(holder'[k]) /\ Alike(holder[k], holder'[k])
      /\ \A j \in Key \ {k} : holder'[j] = holder[j]
  BY <1>2, HolderCount
<1> QED BY <1>1, <1>3, CountHolders

(* A request for a mode the holder has.                                    *)
LEMMA RelockTable ==
    ASSUME Inv, NEW t \in Tran, NEW k \in Key, NEW m \in Request, Relock(t, k, m)
    PROVE  TableStep
<1>1. PICK i : i = IndexOf(holder[k], t)
  OBVIOUS
<1>2. /\ i # 0 /\ holder[k][i].count < MaxCount
      /\ holder' = [holder EXCEPT ![k][i].count = holder[k][i].count + 1]
  BY <1>1, SMTT(30) DEF Relock, Holds
<1>3. holder[k] \in Seq(Entry)
  BY AtKey
<1>4. holder[k][i] \in Entry
  BY <1>1, <1>2, <1>3, Present
<1>5. holder[k][i].count + 1 \in 0 .. MaxCount
  <2>1. holder[k][i].count \in 0 .. MaxCount
    BY <1>4, EntryIs
  <2> QED BY <1>2, <2>1, CountAssumption, SMTT(30)
<1> QED BY <1>1, <1>2, <1>5, CountTable

(* The count of a holder goes down.                                        *)
LEMMA DecrementTable ==
    ASSUME Inv, NEW t \in Tran, NEW k \in Key, NEW i, i = IndexOf(holder[k], t), i # 0,
           Decrement(t, k, holder[k], i),
           holder' = [holder EXCEPT ![k][i].count = holder[k][i].count - 1]
    PROVE  TableStep
<1>1. holder[k] \in Seq(Entry)
  BY AtKey
<1>2. holder[k][i] \in Entry
  BY <1>1, Present
<1>3. holder[k][i].count - 1 \in 0 .. MaxCount
  <2>1. holder[k][i].count \in 0 .. MaxCount
    BY <1>2, EntryIs
  <2>2. holder[k][i].count > 0
    BY DEF Decrement
  <2> QED BY <2>1, <2>2, CountAssumption, SMTT(30)
<1> QED BY <1>3, CountTable

(* Lowering a count releases nothing yet.                                  *)
LEMMA UnlockTable ==
    ASSUME Inv, NEW t \in Tran, NEW k \in Key, Unlock(t, k)
    PROVE  TableStep
<1>1. PICK i : i = IndexOf(holder[k], t)
  OBVIOUS
<1>2. i # 0 /\ Decrement(t, k, holder[k], i)
  BY <1>1, SMTT(30) DEF Unlock, Holds
<1>3. holder' = [holder EXCEPT ![k][i].count = holder[k][i].count - 1]
  BY <1>1 DEF Unlock
<1> QED BY <1>1, <1>2, <1>3, DecrementTable

(* Nor does withdrawing a request, before the lists change.                *)
LEMMA GiveUpTable ==
    ASSUME Inv, NEW t \in Tran, GiveUp(t)
    PROVE  TableStep
<1>0. PICK k, i : k = th[t].at /\ i = IndexOf(holder[k], t)
  OBVIOUS
<1>1. /\ th[t].pc = "giveup"
      /\ \/ /\ i # 0 /\ Decrement(t, k, holder[k], i)
            /\ holder' = [holder EXCEPT ![k][i].count = holder[k][i].count - 1]
         \/ holder' = holder
  BY <1>0 DEF GiveUp
<1>2. th[t].pc \in Asking
  BY <1>1 DEF Asking
<1>3. k \in Key
  BY <1>0, <1>2 DEF Inv, ThreadInv
<1>4. CASE /\ i # 0 /\ Decrement(t, k, holder[k], i)
           /\ holder' = [holder EXCEPT ![k][i].count = holder[k][i].count - 1]
  BY <1>0, <1>3, <1>4, DecrementTable
<1>5. CASE holder' = holder
  BY <1>5, SameHolders
<1> QED BY <1>1, <1>4, <1>5

(* The entry of a holder goes, or stays with the mode it had.              *)
LEMMA RemoveHolderTable ==
    ASSUME Inv, Inv', NEW t \in Tran, RemoveHolder(t)
    PROVE  TableStep
<1>0. PICK k : k = th[t].at
  OBVIOUS
<1>1. PICK i : i = IndexOf(holder[k], t)
  OBVIOUS
<1>2. PICK r :
        /\ r = RemoveAt(holder[k], i) \/ r = Position(RemoveAt(holder[k], i), Freed(holder[k][i]))
        /\ th[t].pc = "unlock" /\ i # 0
        /\ holder' = [holder EXCEPT ![k] = r]
  BY <1>0, <1>1 DEF RemoveHolder, Freed
<1>3. th[t].pc \in Asking
  BY <1>2 DEF Asking
<1>4. k \in Key
  BY <1>0, <1>3 DEF Inv, ThreadInv
<1>5. holder[k] \in Seq(Entry) /\ HolderList(holder[k])
  BY <1>4, AtKey
<1>6. i \in 1 .. Len(holder[k]) /\ holder[k][i] \in Entry /\ holder[k][i] \in Range(holder[k])
  <2>1. i # 0
    BY <1>2
  <2> QED BY <1>1, <1>5, <2>1, Present
<1>7. PICK e \in Entry : e = holder[k][i] /\ e \in Range(holder[k])
  BY <1>6
<1>8. PICK q : /\ q = RemoveAt(holder[k], i) /\ HolderList(q)
               /\ Range(q) = Range(holder[k]) \ {e} /\ \A f \in Range(q) : f.tran # e.tran
  <2>1. /\ HolderList(RemoveAt(holder[k], i))
        /\ Range(RemoveAt(holder[k], i)) = Range(holder[k]) \ {holder[k][i]}
        /\ \A f \in Range(RemoveAt(holder[k], i)) : f.tran # holder[k][i].tran
    BY <1>5, <1>6, HolderLeaves
  <2> QED BY <1>7, <2>1
<1>9. CASE r = q
  <2>1. q \in Seq(Entry) /\ holder' = [holder EXCEPT ![k] = q]
    BY <1>2, <1>8, <1>9 DEF HolderList
  <2>2. holder'[k] = q /\ \A j \in Key \ {k} : holder'[j] = holder[j]
    BY <1>4, <2>1, HoldersSet
  <2>3. /\ Range(holder'[k]) = Range(holder[k]) \ {e}
        /\ \A f \in Range(holder'[k]) : f.tran # e.tran
    BY <1>8, <2>2
  <2> QED BY <1>4, <1>7, <2>2, <2>3, LeaveTable
<1>10. CASE r = Position(q, Freed(e))
  <2>1. PICK n \in Entry : /\ n = Freed(e) /\ n.tran = e.tran /\ n.granted = e.granted
                           /\ n.blocked = NULL_LOCK
    BY <1>7, FreedIs
  <2>2. HolderEntry(n)
    BY <1>5, <1>7, <2>1 DEF HolderList, HolderEntry
  <2>3. \A f \in Range(q) : f.tran # n.tran
    BY <1>8, <2>1
  <2>4. PICK p : p = Position(q, n) /\ HolderList(p) /\ Range(p) = Range(q) \cup {n}
    BY <1>8, <2>2, <2>3, PositionIs
  <2>5. p \in Seq(Entry) /\ holder' = [holder EXCEPT ![k] = p]
    BY <1>2, <1>10, <2>1, <2>4 DEF HolderList
  <2>6. holder'[k] = p /\ \A j \in Key \ {k} : holder'[j] = holder[j]
    BY <1>4, <2>5, HoldersSet
  <2>7. Range(holder'[k]) = (Range(holder[k]) \ {e}) \cup {n}
    BY <1>8, <2>4, <2>6
  <2> QED BY <1>4, <1>7, <2>1, <2>6, <2>7, ChangeTable
<1> QED BY <1>2, <1>7, <1>8, <1>9, <1>10

(* An upgrader is granted: whoever stands before it is leaving.            *)
LEMMA GrantHolderTable ==
    ASSUME Inv, Inv', NEW t \in Tran, GrantHolder(t)
    PROVE  TableStep
<1>0. PICK k, n, s : k = th[t].at /\ n = th[t].skip /\ s = holder[k]
  OBVIOUS
<1>1. /\ th[t].pc = "holders"
      /\ \/ holder' = holder
         \/ /\ n + 1 <= Len(s) /\ s[n + 1].blocked # NULL_LOCK
            /\ lock_Comp[s[n + 1].blocked][Granted(After(s, n + 1))]
            /\ holder' = [holder EXCEPT ![k] = Regranted(s, n + 1)]
  BY <1>0 DEF GrantHolder, Regranted, Upgraded, Pass
<1>2. th[t].pc \in Loop
  BY <1>1 DEF Loop
<1>3. k \in Key /\ n \in Nat /\ PassedHolders(k, n)
  <2>1. k \in Key /\ OwnerInv(t, k) /\ n \in Nat
    BY <1>0, <1>2, Granting
  <2> QED BY <1>0, <1>1, <2>1 DEF OwnerInv
<1>4. s \in Seq(Entry) /\ HolderList(s)
  BY <1>0, <1>3, AtKey
<1>5. CASE holder' = holder
  BY <1>5, SameHolders
<1>6. ASSUME n + 1 <= Len(s), s[n + 1].blocked # NULL_LOCK,
             lock_Comp[s[n + 1].blocked][Granted(After(s, n + 1))],
             holder' = [holder EXCEPT ![k] = Regranted(s, n + 1)]
      PROVE  TableStep
  <2>1. n + 1 \in 1 .. Len(s)
    BY <1>3, <1>4, <1>6, SMTT(30)
  <2>2. PICK i : i = n + 1 /\ i \in 1 .. Len(s)
    BY <2>1
  <2>3. PICK e \in Entry : /\ e = s[i] /\ e \in Range(s) /\ e.blocked # NULL_LOCK
                           /\ e.granted < e.blocked /\ e.blocked \in Mode
    <3>1. s[i] \in Entry /\ s[i] \in Range(s)
      BY <1>4, <2>2, RangeIs
    <3>2. HolderEntry(s[i]) /\ s[i].blocked \in Mode
      BY <1>4, <3>1, EntryIs DEF HolderList
    <3>3. s[i].blocked # NULL_LOCK
      BY <1>6, <2>2
    <3> QED BY <3>1, <3>2, <3>3 DEF HolderEntry
  <2>4. PICK u \in Entry : /\ u = Upgraded(e) /\ u.tran = e.tran /\ u.granted = e.blocked
    BY <2>3, UpgradedIs
  <2>5. PICK r : r = Regranted(s, i) /\ HolderList(r) /\ Range(r) = (Range(s) \ {e}) \cup {u}
    <3>1. /\ HolderList(Regranted(s, i))
          /\ Range(Regranted(s, i)) = (Range(s) \ {s[i]}) \cup {Upgraded(s[i])}
      BY <1>4, <2>2, <2>3, RegrantedIs
    <3> QED BY <2>3, <2>4, <3>1
  <2>6. r \in Seq(Entry) /\ holder' = [holder EXCEPT ![k] = r]
    BY <1>6, <2>2, <2>5 DEF HolderList
  <2>7. holder'[k] = r /\ \A j \in Key \ {k} : holder'[j] = holder[j]
    BY <1>3, <2>6, HoldersSet
  <2>8. ASSUME NEW f \in Range(s), f.tran # e.tran
        PROVE  lock_Comp[u.granted][f.granted] \/ f.tran \in Leaving(k)
    <3>1. PICK h \in 1 .. Len(s) : f = s[h]
      BY <1>4, RangeIs
    <3>2. h # i
      BY <2>3, <2>8, <3>1
    <3>3. h \in 1 .. n \/ h \in i + 1 .. Len(s)
      BY <1>3, <1>4, <2>2, <3>2, SMTT(30)
    <3>4. CASE h \in 1 .. n
      <4>1. s[h].blocked # NULL_LOCK /\ ~Waits(s[h])
        BY <1>0, <1>3, <3>4 DEF PassedHolders
      <4>2. f \in Range(holder[k]) /\ f.blocked # NULL_LOCK /\ ~Waits(f)
        BY <1>0, <3>1, <4>1
      <4> QED BY <4>2 DEF Leaving
    <3>5. CASE h \in i + 1 .. Len(s)
      <4>1. PICK a : a = After(s, i) /\ a \in Seq(Entry) /\ s[h] \in Range(a)
        BY <1>4, <2>2, <3>5, AfterIs
      <4>2. lock_Comp[e.blocked][Granted(a)]
        BY <1>6, <2>2, <2>3, <4>1
      <4>3. \A g \in Range(a) : lock_Comp[e.blocked][g.granted]
        BY <2>3, <4>1, <4>2, GrantedAllows
      <4> QED BY <2>4, <3>1, <4>1, <4>3
    <3> QED BY <3>3, <3>4, <3>5
  <2>9. e.granted < u.granted
    BY <2>3, <2>4
  <2>10. /\ Range(holder'[k]) = (Range(holder[k]) \ {e}) \cup {u} /\ e \in Range(holder[k])
         /\ \A f \in Range(holder[k]) : f.tran # e.tran =>
               lock_Comp[u.granted][f.granted] \/ f.tran \in Leaving(k)
    BY <1>0, <2>3, <2>5, <2>7, <2>8
  <2> QED BY <1>3, <2>4, <2>7, <2>9, <2>10, ChangeTable
<1> QED BY <1>1, <1>5, <1>6

(* A waiter is granted: its mode is compatible with the total mode.        *)
LEMMA GrantEntryTable ==
    ASSUME Inv, Inv', NEW k \in Key, NEW i \in 1 .. Len(waiter[k]), GrantEntry(k, i),
           lock_Comp[waiter[k][i].blocked][total[k]]
    PROVE  TableStep
<1>1. PICK s, w : s = holder[k] /\ w = waiter[k]
  OBVIOUS
<1>2. /\ s \in Seq(Entry) /\ HolderList(s) /\ w \in Seq(Entry) /\ WaiterList(w) /\ Apart(s, w)
      /\ IsTotal(total[k], Range(s))
  BY <1>1, AtKey
<1>3. i \in 1 .. Len(w)
  BY <1>1
<1>4. PICK e \in Entry : /\ e = w[i] /\ e \in Range(w) /\ e.blocked # NULL_LOCK
                         /\ e.blocked \in Mode
  <2>1. w[i] \in Entry /\ w[i] \in Range(w)
    BY <1>2, <1>3, RangeIs
  <2>2. w[i].blocked # NULL_LOCK /\ w[i].blocked \in Mode
    BY <1>2, <2>1, EntryIs DEF WaiterList, WaiterEntry
  <2> QED BY <2>1, <2>2
<1>5. PICK u \in Entry : /\ u = Upgraded(e) /\ HolderEntry(u) /\ u.tran = e.tran
                         /\ u.granted = e.blocked
  BY <1>4, UpgradedIs
<1>6. holder' = [holder EXCEPT ![k] = Position(s, u)]
  BY <1>1, <1>4, <1>5 DEF GrantEntry, Upgraded
<1>7. \A f \in Range(s) : f.tran # u.tran
  BY <1>2, <1>4, <1>5 DEF Apart
<1>8. PICK p : p = Position(s, u) /\ HolderList(p) /\ Range(p) = Range(s) \cup {u}
  BY <1>2, <1>5, <1>7, PositionIs
<1>9. p \in Seq(Entry) /\ holder' = [holder EXCEPT ![k] = p]
  BY <1>6, <1>8 DEF HolderList
<1>10. holder'[k] = p /\ \A j \in Key \ {k} : holder'[j] = holder[j]
  BY <1>9, HoldersSet
<1>11. \A f \in Range(s) : lock_Comp[u.granted][f.granted]
  <2>1. Range(s) \in SUBSET Entry
    BY <1>2, RangeIs
  <2>2. lock_Comp[e.blocked][total[k]]
    BY <1>1, <1>4
  <2>3. \A f \in Range(s) : lock_Comp[e.blocked][f.granted]
    BY <1>2, <1>4, <2>1, <2>2, TotalAllows
  <2> QED BY <1>5, <2>3
<1>12. /\ u.granted # NULL_LOCK /\ \A f \in Range(holder[k]) : f.tran # u.tran
       /\ Range(holder'[k]) = Range(holder[k]) \cup {u}
       /\ \A f \in Range(holder[k]) : lock_Comp[u.granted][f.granted]
  BY <1>1, <1>4, <1>5, <1>7, <1>8, <1>10, <1>11
<1> QED BY <1>10, <1>12, JoinTable

(* A turn of either loop over the waiters.                                 *)
LEMMA GrantWaiterTable ==
    ASSUME Inv, Inv', NEW t \in Tran, GrantWaiter(t) \/ GrantPartial(t)
    PROVE  TableStep
<1>0. PICK k, i : k = th[t].at /\ i = th[t].skip + 1
  OBVIOUS
<1>1. /\ th[t].pc \in Loop
      /\ \/ holder' = holder
         \/ /\ i <= Len(waiter[k]) /\ lock_Comp[waiter[k][i].blocked][total[k]]
            /\ GrantEntry(k, i)
  BY <1>0 DEF GrantWaiter, GrantPartial, Finish, Pass, Loop
<1>2. k \in Key /\ th[t].skip \in Nat
  BY <1>0, <1>1, Granting
<1>3. CASE holder' = holder
  BY <1>3, SameHolders
<1>4. CASE /\ i <= Len(waiter[k]) /\ lock_Comp[waiter[k][i].blocked][total[k]]
           /\ GrantEntry(k, i)
  <2>1. waiter[k] \in Seq(Entry)
    BY <1>2, AtKey
  <2>2. i \in 1 .. Len(waiter[k])
    BY <1>0, <1>2, <1>4, <2>1, NonEmpty
  <2> QED BY <1>2, <1>4, <2>2, GrantEntryTable
<1> QED BY <1>1, <1>3, <1>4

-----------------------------------------------------------------------------
(* Every step of the lock manager is a step of the lock table.             *)
LEMMA NextTable == Inv /\ Inv' /\ [Next]_vars => TableStep
<1> SUFFICES ASSUME Inv, Inv', [Next]_vars PROVE TableStep
  BY SMTT(30)
<1>1. CASE UNCHANGED vars
  BY <1>1, SameHolders, SMTT(30) DEF vars
<1>2. ASSUME NEW t \in Tran, Ask(t) PROVE TableStep
  <2>1. PICK k \in Key, m \in Request :
            \/ LockNew(t, k, m) \/ LockWait(t, k, m) \/ Relock(t, k, m)
            \/ Convert(t, k, m) \/ ConvertWait(t, k, m)
    BY <1>2 DEF Ask
  <2>2. LockWait(t, k, m) => holder' = holder
    BY DEF LockWait
  <2> QED BY <2>1, <2>2, SameHolders, LockNewTable, RelockTable, ConvertTable, ConvertWaitTable
<1>3. ASSUME NEW t \in Tran, NEW k \in Key, Unlock(t, k) PROVE TableStep
  BY <1>3, UnlockTable
<1>4. ASSUME NEW t \in Tran, ForceTimeout(t) \/ StopWake(t) \/ Wake(t) PROVE TableStep
  <2>1. holder' = holder
    BY <1>4 DEF ForceTimeout, StopWake, Wake
  <2> QED BY <2>1, SameHolders
<1>5. ASSUME NEW t \in Tran, GiveUp(t) \/ EndTran(t) \/ UnlockAll(t) PROVE TableStep
  <2>1. EndTran(t) \/ UnlockAll(t) => holder' = holder
    BY DEF EndTran, UnlockAll
  <2> QED BY <1>5, <2>1, SameHolders, GiveUpTable
<1>6. ASSUME NEW t \in Tran, RemoveHolder(t) \/ RemoveWaiter(t) PROVE TableStep
  <2>1. RemoveWaiter(t) => holder' = holder
    BY DEF RemoveWaiter
  <2> QED BY <1>6, <2>1, SameHolders, RemoveHolderTable
<1>7. ASSUME NEW t \in Tran, GrantHolder(t) \/ GrantWaiter(t) \/ GrantPartial(t)
      PROVE  TableStep
  BY <1>7, GrantHolderTable, GrantWaiterTable
<1> QED BY <1>1, <1>2, <1>3, <1>4, <1>5, <1>6, <1>7 DEF Next, Release

(* At the start nobody holds anything.                                     *)
LEMMA InitTable == Init => Table!Init
<1> SUFFICES ASSUME Init PROVE Table!Init
  BY SMTT(30)
<1>1. ASSUME NEW k \in Key, NEW t \in Tran PROVE Held(k, t) = NULL_LOCK
  <2>1. holder[k] = <<>>
    BY DEF Init
  <2>2. Range(holder[k]) = {}
    BY <2>1, SMTT(30) DEF Range
  <2> QED BY <2>2 DEF Held
<1> QED BY <1>1, SMTT(30) DEF Table!Init, held

(* The lists and the granting loops implement the lock table: whatever the *)
(* interleaving, a mode is granted only while it is compatible with what   *)
(* all others hold, but for upgraders that are leaving.                    *)
THEOREM LockTableImplemented == Spec => ImplementsLockTable
<1>1. Init => Table!Init
  BY InitTable, SMTT(30)
<1>2. Inv /\ Inv' /\ [Next]_vars => [Table!Next]_held
  BY NextTable, SMTT(30) DEF TableStep
<1>3. Spec => []Inv
  BY Invariance, SMTT(30)
<1> QED BY <1>1, <1>2, <1>3, PTL DEF Spec, ImplementsLockTable, Table!Spec
=============================================================================
