----------------------- MODULE CriticalSectionProofs -----------------------
(***************************************************************************)
(* Proofs about the critical section, for any finite set of threads.        *)
(***************************************************************************)
EXTENDS CriticalSection, FiniteSetTheorems, TLAPS

(* The part of the inductive invariant that relates the lock word to what   *)
(* the threads hold.                                                        *)
Core == Exclusion /\ LockWord /\ Holds

IInv == TypeOK /\ Core

(* What the lock word says about the threads.                               *)
LEMMA LockFacts ==
  ASSUME TypeOK, Core
  PROVE  /\ IsFiniteSet(Readers) /\ Cardinality(Readers) \in Nat
         /\ \A t \in Threads : mode[t] = "write" <=> (rwlock < 0 /\ owner = t)
         /\ \A t \in Threads : mode[t] = "read" => rwlock > 0
         /\ rwlock < 0 => owner \in Threads /\ nest[owner] = -rwlock
         /\ rwlock >= 0 => Writers = {} /\ rwlock = Cardinality(Readers)
         /\ rwlock = 0 => \A t \in Threads : mode[t] = "none"
PROOF
<1>1. IsFiniteSet(Readers)
  BY Zenon, FS_Subset, CsectAssumption DEF Readers
<1>2. Cardinality(Readers) \in Nat
  BY <1>1, FS_CardinalityType
<1>3. \A t \in Writers : rwlock < 0 /\ owner = t /\ nest[t] = -rwlock
  BY DEF Core, LockWord, Holds, TypeOK, Writers
<1>4. Writers = {} => rwlock = Cardinality(Readers) /\ rwlock >= 0
  BY <1>2 DEF Core, LockWord
<1>5. Readers # {} => Writers = {} /\ rwlock > 0
  <2>1. Readers # {} => Writers = {}
    BY DEF Core, Exclusion
  <2>2. Readers # {} => Cardinality(Readers) # 0
    BY <1>1, FS_EmptySet
  <2> QED
    BY <2>1, <2>2, <1>2, <1>4
<1>6. rwlock < 0 => \E t \in Writers : owner = t
  BY <1>3, <1>4, <1>2
<1>7. rwlock \in Int /\ mode \in [Threads -> Modes]
  BY DEF TypeOK
<1>8. \A t \in Threads : mode[t] = "write" <=> (rwlock < 0 /\ owner = t)
  BY <1>3, <1>6 DEF Writers
<1>9. \A t \in Threads : mode[t] = "read" => rwlock > 0
  BY <1>5 DEF Readers
<1>10. rwlock >= 0 => Writers = {}
  BY <1>3, <1>7
<1>11. rwlock = 0 => \A t \in Threads : mode[t] = "none"
  BY <1>7, <1>8, <1>9 DEF Modes
<1>12. rwlock < 0 => owner \in Threads /\ nest[owner] = -rwlock
  BY <1>3, <1>6 DEF Writers
<1> QED
  BY <1>1, <1>2, <1>4, <1>8, <1>9, <1>10, <1>11, <1>12

(* A step that changes no hold and puts only threads without one to sleep.  *)
LEMMA CoreKept ==
  ASSUME TypeOK, Core, UNCHANGED <<rwlock, owner, mode, nest>>,
         \A t \in Threads : pc'[t] # "run" => mode[t] = "none"
  PROVE  Core'
PROOF
<1>1. Readers' = Readers /\ Writers' = Writers
  BY DEF Readers, Writers
<1> QED
  BY <1>1 DEF Core, Exclusion, LockWord, Holds

(* A step that lets t write, from a free section or by re-entry.            *)
LEMMA CoreWrite ==
  ASSUME TypeOK, Core, NEW t \in Threads,
         rwlock = 0 \/ (rwlock < 0 /\ owner = t), TakeWrite(t)
  PROVE  Core'
PROOF
<1>1. \A u \in Threads \ {t} : mode[u] = "none"
  BY LockFacts DEF TypeOK, Modes
<1>2. nest[t] = -rwlock
  BY LockFacts DEF Core, Holds, TypeOK
<1>3. mode'[t] = "write" /\ \A u \in Threads \ {t} : mode'[u] = "none"
  BY <1>1 DEF TakeWrite, TypeOK
<1>4. Writers' = {t} /\ Readers' = {}
  BY <1>3 DEF Writers, Readers
<1>5. rwlock' = -nest'[t] /\ owner' = t
  BY <1>2 DEF TakeWrite, TypeOK
<1>6. Holds'
  <2>1. pc'[t] = "run" /\ \A u \in Threads \ {t} : pc'[u] = pc[u] /\ nest'[u] = nest[u]
    BY Zenon DEF TakeWrite, TypeOK
  <2>2. nest'[t] = nest[t] + 1 /\ nest[t] \in Nat
    BY DEF TakeWrite, TypeOK
  <2> QED
    BY <1>1, <1>3, <2>1, <2>2 DEF Core, Holds
<1> QED
  BY <1>4, <1>5, <1>6 DEF Core, Exclusion, LockWord

(* A step that lets t, which holds nothing, read.                           *)
LEMMA CoreRead ==
  ASSUME TypeOK, Core, NEW t \in Threads, mode[t] = "none", ~(rwlock < 0),
         TakeRead(t), UNCHANGED nest
  PROVE  Core'
PROOF
<1>1. rwlock = Cardinality(Readers) /\ Writers = {} /\ IsFiniteSet(Readers)
  BY LockFacts DEF TypeOK
<1>2. mode' = [mode EXCEPT ![t] = "read"] /\ mode \in [Threads -> Modes]
  BY DEF TakeRead, TypeOK
<1>3. Readers' = Readers \cup {t} /\ t \notin Readers
  BY <1>2 DEF Readers
<1>4. Writers' = {}
  BY <1>1, <1>2 DEF Writers
<1>5. Cardinality(Readers') = Cardinality(Readers) + 1
  BY <1>1, <1>3, FS_AddElement
<1>6. Holds'
  BY <1>2 DEF Core, Holds, TakeRead, TypeOK
<1> QED
  BY <1>1, <1>4, <1>5, <1>6 DEF Core, Exclusion, LockWord, TakeRead

(* A step in which the reader t gives its hold up.                          *)
LEMMA CoreRelease ==
  ASSUME TypeOK, Core, NEW t \in Threads, mode[t] = "read",
         rwlock' = rwlock - 1, mode' = [mode EXCEPT ![t] = "none"], nest' = nest,
         \A u \in Threads \ {t} : pc'[u] = pc[u]
  PROVE  Core'
PROOF
<1>1. rwlock > 0 /\ rwlock \in Int
  BY Zenon, LockFacts DEF TypeOK
<1>2. rwlock = Cardinality(Readers) /\ Writers = {} /\ IsFiniteSet(Readers)
  BY <1>1, LockFacts
<1>3. mode \in [Threads -> Modes]
  BY DEF TypeOK
<1>4. Readers' = Readers \ {t} /\ t \in Readers
  BY <1>3 DEF Readers
<1>5. Writers' = {}
  BY <1>2, <1>3 DEF Writers
<1>6. Cardinality(Readers') = Cardinality(Readers) - 1
  BY Zenon, <1>2, <1>4, FS_RemoveElement
<1>7. Holds'
  BY Zenon, <1>3 DEF Core, Holds
<1> QED
  BY <1>2, <1>5, <1>6, <1>7 DEF Core, Exclusion, LockWord

(* A step after which nobody holds the section.                             *)
LEMMA CoreFree ==
  ASSUME TypeOK, Core, NEW t \in Threads, mode[t] = "write",
         rwlock' = 0, mode' = [mode EXCEPT ![t] = "none"],
         nest' = [nest EXCEPT ![t] = 0], pc' = pc
  PROVE  Core'
PROOF
<1>1. \A u \in Threads : mode'[u] = "none"
  BY LockFacts DEF TypeOK, Modes
<1>2. Writers' = {} /\ Readers' = {}
  BY <1>1 DEF Writers, Readers
<1>3. Cardinality(Readers') = 0
  BY <1>2, FS_EmptySet
<1>4. Holds'
  BY <1>1 DEF Core, Holds, TypeOK
<1> QED
  BY <1>2, <1>3, <1>4 DEF Core, Exclusion, LockWord

-----------------------------------------------------------------------------
(* The wake-ups keep queues, conditions and resume statuses in their types. *)
LEMMA WakeupTypes ==
  ASSUME TypeOK, NEW q \in Seq(Threads), NEW r \in Statuses
  PROVE  /\ Dequeued(q) \in Seq(Threads)
         /\ Signalled(q) \in [Threads -> BOOLEAN]
         /\ Resumed(q, r) \in [Threads -> Statuses]
PROOF
<1>1. Dequeued(q) \in Seq(Threads)
  BY DEF Dequeued
<1>2. Signalled(q) \in [Threads -> BOOLEAN]
  BY DEF Signalled, TypeOK
<1>3. Resumed(q, r) \in [Threads -> Statuses]
  BY DEF Resumed, TypeOK
<1> QED
  BY <1>1, <1>2, <1>3

(* Every step keeps every variable in its type.                             *)
LEMMA TypeStep ==
  ASSUME TypeOK, Core, [Next]_vars
  PROVE  TypeOK'
PROOF
<1> USE DEF TypeOK, Blocked, Statuses, Modes, csVars, threadVars, callerVars
<1>0. CASE UNCHANGED vars
  BY Zenon, <1>0 DEF vars
<1>1. SUFFICES ASSUME NEW t \in Threads,
                 csect_enter(t) \/ csect_enter_as_reader(t) \/ csect_demote(t)
                 \/ csect_promote(t) \/ csect_exit(t) \/ Resume(t) \/ Interrupt(t)
               PROVE  TypeOK'
  BY Zenon, <1>0 DEF Next
<1>2. ASSUME TakeWrite(t)
      PROVE  /\ rwlock' \in Int /\ owner' \in Threads \cup {NoThread}
             /\ mode' \in [Threads -> Modes] /\ nest' \in [Threads -> Nat]
             /\ pc' \in [Threads -> Blocked \cup {"run"}]
  BY <1>2 DEF TakeWrite
<1>3. ASSUME TakeRead(t)
      PROVE  /\ rwlock' \in Int
             /\ mode' \in [Threads -> Modes]
             /\ pc' \in [Threads -> Blocked \cup {"run"}]
  BY <1>3 DEF TakeRead
<1>4. ASSUME NEW w \in Blocked, NEW r \in Statuses, Suspend(t, w, r)
      PROVE  /\ pc' \in [Threads -> Blocked \cup {"run"}]
             /\ cond' \in [Threads -> BOOLEAN]
             /\ resume_status' \in [Threads -> Statuses]
  BY <1>4 DEF Suspend
<1>5. ASSUME BroadcastReaders PROVE cond' \in [Threads -> BOOLEAN]
  BY <1>5 DEF BroadcastReaders
<1>20. ASSUME NEW b \in BOOLEAN, demoted' = [demoted EXCEPT ![t] = b]
       PROVE  demoted' \in [Threads -> BOOLEAN]
  BY <1>20
<1>6. CASE csect_enter(t)
  <2>1. CASE EnterTakes(t)
    BY Zenon, <2>1, <1>2 DEF EnterTakes
  <2>2. CASE EnterWaits(t)
    BY <2>2, <1>4 DEF EnterWaits
  <2> QED
    BY <1>6, <2>1, <2>2 DEF csect_enter
<1>7. CASE csect_enter_as_reader(t)
  <2>1. CASE ReaderReenters(t)
    BY Zenon, <2>1, <1>2 DEF ReaderReenters
  <2>2. CASE ReaderTakes(t)
    BY Zenon, <2>2, <1>3 DEF ReaderTakes
  <2>3. CASE ReaderWaits(t)
    BY Zenon, <2>3, <1>4 DEF ReaderWaits
  <2> QED
    BY Zenon, <1>7, <2>1, <2>2, <2>3 DEF csect_enter_as_reader
<1>8. ASSUME DemoterTakes(t) PROVE TypeOK'
  BY Zenon, <1>8, <1>3, <1>5 DEF DemoterTakes
<1>9. ASSUME DemoterWaits(t) PROVE TypeOK'
  BY Zenon, <1>9, <1>4 DEF DemoterWaits
<1>10. CASE csect_demote(t)
  <2>1. CASE DemoteWriter(t)
    <3>1. demoted' \in [Threads -> BOOLEAN]
      BY Zenon, <2>1, <1>20 DEF DemoteWriter
    <3>2. /\ rwlock' \in Int /\ mode' \in [Threads -> Modes]
          /\ nest' \in [Threads -> Nat]
      <4>1. CASE rwlock + 1 < 0
        BY Zenon, <2>1, <4>1 DEF DemoteWriter
      <4>2. CASE ~(rwlock + 1 < 0)
        <5>1. /\ rwlock' = 1
              /\ mode' = [mode EXCEPT ![t] = "read"]
              /\ nest' = [nest EXCEPT ![t] = 0]
          BY <2>1, <4>2, Zenon DEF DemoteWriter
        <5> QED
          BY <5>1
      <4> QED
        BY Zenon, <4>1, <4>2
    <3> QED
      BY Zenon, <2>1, <1>5, <3>1, <3>2 DEF DemoteWriter
  <2> QED
    BY Zenon, <1>10, <2>1, <1>8, <1>9 DEF csect_demote, DemoteReader
<1>11. CASE csect_promote(t)
  <2>1. CASE PromoteTakes(t)
    <3>1. demoted' \in [Threads -> BOOLEAN]
      BY Zenon, <2>1, <1>20 DEF PromoteTakes
    <3>2. /\ rwlock' \in Int /\ mode' \in [Threads -> Modes]
          /\ nest' \in [Threads -> Nat]
      BY <2>1 DEF PromoteTakes, Released
    <3> QED
      BY Zenon, <2>1, <3>1, <3>2 DEF PromoteTakes
  <2>2. CASE PromoteWaits(t)
    <3>1. rwlock' \in Int /\ mode' \in [Threads -> Modes]
      BY <2>2 DEF PromoteWaits, Released
    <3>2. /\ pc' \in [Threads -> Blocked \cup {"run"}]
          /\ cond' \in [Threads -> BOOLEAN]
          /\ resume_status' \in [Threads -> Statuses]
      BY Zenon, <2>2, <1>4 DEF PromoteWaits
    <3>3. promotersQ' \in Seq(Threads) /\ waiting_writers' \in Int
      BY <2>2 DEF PromoteWaits
    <3> QED
      BY Zenon, <2>2, <3>1, <3>2, <3>3 DEF PromoteWaits
  <2> QED
    BY Zenon, <1>11, <2>1, <2>2 DEF csect_promote
<1>12. CASE csect_exit(t)
  <2>1. CASE ExitNested(t)
    <3>1. mode[t] = "write"
      BY <2>1, LockFacts DEF ExitNested, MayExit
    <3>2. nest[t] = -rwlock /\ rwlock < -1
      BY Zenon, <2>1, <3>1, LockFacts DEF ExitNested
    <3>3. nest' \in [Threads -> Nat]
      BY <2>1, <3>2 DEF ExitNested
    <3> QED
      BY <2>1, <3>3 DEF ExitNested
  <2>2. CASE ExitLast(t)
    <3>1. /\ writersQ' \in Seq(Threads) /\ promotersQ' \in Seq(Threads)
          /\ cond' \in [Threads -> BOOLEAN] /\ resume_status' \in [Threads -> Statuses]
      BY <2>2, <1>5, WakeupTypes DEF ExitLast, WakeupAfterExit,
         csect_wakeup_waiting_writer, csect_wakeup_waiting_promoter
    <3>2. demoted' \in [Threads -> BOOLEAN]
      BY Zenon, <2>2, <1>20 DEF ExitLast
    <3>3. /\ rwlock' \in Int /\ owner' \in Threads \cup {NoThread}
          /\ mode' \in [Threads -> Modes] /\ nest' \in [Threads -> Nat]
      BY <2>2 DEF ExitLast
    <3> QED
      BY Zenon, <2>2, <3>1, <3>2, <3>3 DEF ExitLast
  <2> QED
    BY Zenon, <1>12, <2>1, <2>2 DEF csect_exit
<1>13. CASE Resume(t)
  <2>1. CASE WriterSleepsOn(t)
    BY Zenon, <2>1, <1>4 DEF WriterSleepsOn
  <2>2. CASE WriterTakes(t)
    BY <2>2, <1>2 DEF WriterTakes
  <2>3. CASE WriterWaitsAgain(t)
    <3>1. ASSUME NEW q \in Seq(Threads)
          PROVE  /\ [Signalled(q) EXCEPT ![t] = FALSE] \in [Threads -> BOOLEAN]
                 /\ [Resumed(q, "PROMOTER_RESUMED") EXCEPT ![t] = "WRITER_SUSPENDED"]
                      \in [Threads -> Statuses]
      BY Zenon, WakeupTypes
    <3>2. <<>> \in Seq(Threads) /\ promotersQ \in Seq(Threads)
      OBVIOUS
    <3>3. /\ cond' \in [Threads -> BOOLEAN] /\ resume_status' \in [Threads -> Statuses]
      BY Zenon, <2>3, <3>1, <3>2 DEF WriterWaitsAgain
    <3>4. promotersQ' \in Seq(Threads)
      BY <2>3 DEF WriterWaitsAgain
    <3> QED
      BY <2>3, <3>3, <3>4 DEF WriterWaitsAgain
  <2>4. CASE PromoterSleepsOn(t)
    BY Zenon, <2>4, <1>4 DEF PromoterSleepsOn
  <2>5. CASE PromoterTakes(t)
    <3>1. demoted' \in [Threads -> BOOLEAN]
      BY Zenon, <2>5, <1>20 DEF PromoterTakes
    <3> QED
      BY <2>5, <1>2, <3>1 DEF PromoterTakes
  <2>6. CASE PromoterWaitsAgain(t)
    BY <2>6, <1>4 DEF PromoterWaitsAgain
  <2>7. CASE ReaderResumes(t)
    BY Zenon, <2>7, <1>3, <1>4 DEF ReaderResumes
  <2>8. CASE DemoterResumes(t)
    BY Zenon, <2>8, <1>8, <1>9 DEF DemoterResumes
  <2> QED
    BY Zenon, <1>13, <2>1, <2>2, <2>3, <2>4, <2>5, <2>6, <2>7, <2>8 DEF Resume
<1>14. CASE Interrupt(t)
  BY Zenon, <1>14 DEF Interrupt
<1> QED
  BY Zenon, <1>1, <1>6, <1>7, <1>10, <1>11, <1>12, <1>13, <1>14

-----------------------------------------------------------------------------
(* Every step keeps the lock word in agreement with the holds.              *)
LEMMA CoreStep ==
  ASSUME TypeOK, Core, [Next]_vars
  PROVE  Core'
PROOF
<1> USE DEF csVars, threadVars, callerVars
<1>a. /\ pc \in [Threads -> Blocked \cup {"run"}] /\ mode \in [Threads -> Modes]
      /\ rwlock \in Int /\ nest \in [Threads -> Nat]
  BY Zenon DEF TypeOK
<1>b. \A u \in Threads : pc[u] # "run" => mode[u] = "none"
  BY Zenon DEF Core, Holds
<1>0. CASE UNCHANGED vars
  BY Zenon, <1>0, <1>b, CoreKept DEF vars
<1>1. SUFFICES ASSUME NEW t \in Threads,
                 csect_enter(t) \/ csect_enter_as_reader(t) \/ csect_demote(t)
                 \/ csect_promote(t) \/ csect_exit(t) \/ Resume(t) \/ Interrupt(t)
               PROVE  Core'
  BY Zenon, <1>0 DEF Next
<1>2. ASSUME UNCHANGED <<rwlock, owner, mode, nest>>, mode[t] = "none",
             NEW w \in Blocked, pc' = [pc EXCEPT ![t] = w]
      PROVE  Core'
  BY <1>2, <1>a, <1>b, CoreKept
<1>3. ASSUME UNCHANGED <<rwlock, owner, mode, nest, pc>> PROVE Core'
  BY Zenon, <1>3, <1>b, CoreKept
<1>6. CASE csect_enter(t)
  <2>1. CASE EnterTakes(t)
    BY Zenon, <2>1, CoreWrite DEF EnterTakes, WriterMayGo
  <2>2. CASE EnterWaits(t)
    <3>1. mode[t] = "none"
      BY Zenon, <2>2, LockFacts DEF EnterWaits, MayEnter, WriterMayGo
    <3> QED
      BY Zenon, <2>2, <3>1, <1>2 DEF EnterWaits, Suspend, Blocked
  <2> QED
    BY Zenon, <1>6, <2>1, <2>2 DEF csect_enter
<1>7. CASE csect_enter_as_reader(t)
  <2>1. CASE ReaderReenters(t)
    BY Zenon, <2>1, CoreWrite DEF ReaderReenters
  <2>2. ~(rwlock < 0 /\ owner = t) /\ MayEnter(t) => mode[t] = "none"
    BY Zenon, LockFacts DEF MayEnter
  <2>3. CASE ReaderTakes(t)
    BY <2>3, <2>2, CoreRead DEF ReaderTakes, ReaderMayGo
  <2>4. CASE ReaderWaits(t)
    BY Zenon, <2>4, <2>2, <1>2 DEF ReaderWaits, Suspend, Blocked
  <2> QED
    BY Zenon, <1>7, <2>1, <2>3, <2>4 DEF csect_enter_as_reader
<1>8. ASSUME mode[t] = "none", DemoterTakes(t) PROVE Core'
  BY Zenon, <1>8, CoreRead DEF DemoterTakes, DemoterMayGo
<1>9. ASSUME mode[t] = "none", DemoterWaits(t) PROVE Core'
  BY Zenon, <1>9, <1>2 DEF DemoterWaits, Suspend, Blocked
<1>10. CASE csect_demote(t)
  <2>1. CASE DemoteWriter(t)
    <3>1. CASE rwlock + 1 < 0
      BY Zenon, <2>1, <3>1, <1>3 DEF DemoteWriter
    <3>2. CASE ~(rwlock + 1 < 0)
      <4>1. /\ rwlock' = 1
            /\ mode' = [mode EXCEPT ![t] = "read"]
            /\ nest' = [nest EXCEPT ![t] = 0]
            /\ pc' = pc
        BY <2>1, <3>2, Zenon DEF DemoteWriter
      <4>2. rwlock < 0 /\ owner = t
        BY Zenon, <2>1 DEF DemoteWriter
      <4>3. \A u \in Threads \ {t} : mode[u] = "none"
        BY <4>2, <1>a, LockFacts DEF Modes
      <4>4. Readers' = {t} /\ Writers' = {}
        BY Zenon, <4>1, <4>3, <1>a DEF Readers, Writers
      <4>5. Cardinality(Readers') = 1
        BY <4>4, FS_Singleton
      <4>6. Holds'
        <5>1. mode[t] = "write"
          BY Zenon, <4>2, LockFacts
        <5> QED
          BY <4>1, <4>3, <1>a, <5>1 DEF Core, Holds
      <4> QED
        BY Zenon, <4>1, <4>4, <4>5, <4>6 DEF Core, Exclusion, LockWord
    <3> QED
      BY Zenon, <3>1, <3>2
  <2>2. CASE DemoteReader(t)
    <3>1. mode[t] = "none"
      BY Zenon, <2>2, LockFacts DEF DemoteReader, MayDemote, MayEnter
    <3> QED
      BY Zenon, <2>2, <3>1, <1>8, <1>9 DEF DemoteReader
  <2> QED
    BY <1>10, <2>1, <2>2 DEF csect_demote
<1>11. CASE csect_promote(t)
  <2>0. MayPromote(t)
    BY Zenon, <1>11 DEF csect_promote, PromoteTakes, PromoteWaits
  <2>1. CASE mode[t] = "write"
    <3>1. rwlock < 0 /\ owner = t /\ nest[t] = -rwlock
      BY Zenon, <2>1, LockFacts
    <3>2. Released = rwlock + 1 /\ PromoterMayGo(t, Released)
      BY <3>1, <1>a DEF Released, PromoterMayGo
    <3>3. PromoteTakes(t)
      BY Zenon, <1>11, <3>2 DEF csect_promote, PromoteWaits
    <3>4. /\ rwlock' = rwlock /\ owner' = owner /\ nest' = nest /\ mode' = mode
          /\ pc' = pc
      BY <3>1, <3>2, <3>3, <2>1, <1>a DEF PromoteTakes
    <3> QED
      BY <3>4, <1>3
  <2>2. CASE mode[t] = "read"
    <3>1. rwlock > 0 /\ rwlock = Cardinality(Readers) /\ IsFiniteSet(Readers)
      BY <2>2, <1>a, LockFacts
    <3>2. Released = rwlock - 1
      BY Zenon, <3>1 DEF Released
    <3>3. CASE PromoteTakes(t)
      <4>1. rwlock = 1
        BY <3>1, <3>2, <3>3, <1>a DEF PromoteTakes, PromoterMayGo
      <4>2. Readers = {t}
        <5>1. t \in Readers
          BY <2>2 DEF Readers
        <5>2. Cardinality(Readers \ {t}) = 0 /\ IsFiniteSet(Readers \ {t})
          <6>1. /\ IsFiniteSet(Readers \ {t})
                /\ Cardinality(Readers \ {t}) = Cardinality(Readers) - 1
            BY <3>1, <5>1, FS_RemoveElement, Zenon
          <6> QED
            BY <6>1, <3>1, <4>1
        <5>3. Readers \ {t} = {}
          BY Zenon, <5>2, FS_EmptySet
        <5> QED
          BY Zenon, <5>1, <5>3
      <4>3. \A u \in Threads \ {t} : mode[u] = "none"
        BY <4>1, <4>2, <1>a, LockFacts DEF Modes, Readers
      <4>4. /\ mode' = [mode EXCEPT ![t] = "write"]
            /\ nest' = [nest EXCEPT ![t] = 1]
            /\ rwlock' = -1 /\ owner' = t /\ pc' = pc
        BY <3>2, <3>3, <4>1, <2>2 DEF PromoteTakes
      <4>5. Writers' = {t} /\ Readers' = {}
        BY Zenon, <4>3, <4>4, <1>a DEF Writers, Readers
      <4>6. Holds'
        BY <4>3, <4>4, <1>a, <2>2 DEF Core, Holds
      <4>7. nest'[t] = 1
        BY Zenon, <4>4, <1>a
      <4> QED
        BY Zenon, <4>4, <4>5, <4>6, <4>7 DEF Core, Exclusion, LockWord
    <3>4. CASE PromoteWaits(t)
      <4>1. \A u \in Threads \ {t} : pc'[u] = pc[u]
        BY Zenon, <3>4, <1>a DEF PromoteWaits, Suspend
      <4> QED
        BY Zenon, <3>2, <3>4, <2>2, <4>1, CoreRelease DEF PromoteWaits
    <3> QED
      BY Zenon, <1>11, <3>3, <3>4 DEF csect_promote
  <2> QED
    BY <2>0, <2>1, <2>2, <1>a DEF MayPromote, Modes
<1>12. CASE csect_exit(t)
  <2>1. CASE ExitNested(t)
    <3>1. mode[t] = "write" /\ nest[t] = -rwlock /\ rwlock < -1 /\ owner = t
      BY <2>1, <1>a, LockFacts DEF ExitNested, MayExit, Modes
    <3>2. /\ Writers' = Writers /\ Readers' = Readers /\ mode' = mode /\ pc' = pc
          /\ owner' = owner /\ rwlock' = rwlock + 1
          /\ nest' = [nest EXCEPT ![t] = @ - 1]
      BY Zenon, <2>1 DEF ExitNested, Writers, Readers
    <3>3. Writers = {t}
      BY <3>1 DEF Core, Exclusion, Writers
    <3>4. nest'[t] = nest[t] - 1
      BY <3>2, <1>a
    <3>5. Holds'
      BY <3>1, <3>2, <1>a DEF Core, Holds
    <3> QED
      BY <3>1, <3>2, <3>3, <3>4, <3>5, <1>a DEF Core, Exclusion, LockWord
  <2>2. CASE ExitLast(t)
    <3>0. /\ mode' = [mode EXCEPT ![t] = "none"] /\ nest' = [nest EXCEPT ![t] = 0]
          /\ pc' = pc /\ mode[t] # "none"
          /\ rwlock' = IF rwlock < 0 THEN 0 ELSE rwlock - 1
      BY Zenon, <2>2 DEF ExitLast, MayExit
    <3>1. CASE mode[t] = "write"
      BY Zenon, <3>0, <3>1, LockFacts, CoreFree
    <3>2. CASE mode[t] = "read"
      <4>1. rwlock > 0
        BY Zenon, <3>2, LockFacts
      <4>2. nest[t] = 0
        BY <3>2, <1>a DEF Core, Holds
      <4>3. nest' = nest /\ rwlock' = rwlock - 1
        BY <3>0, <4>1, <4>2, <1>a
      <4> QED
        BY Zenon, <3>0, <3>2, <4>3, CoreRelease
    <3> QED
      BY <3>0, <3>1, <3>2, <1>a DEF Modes
  <2> QED
    BY Zenon, <1>12, <2>1, <2>2 DEF csect_exit
<1>13. CASE Resume(t)
  <2>0. pc[t] # "run" /\ mode[t] = "none"
    BY Zenon, <1>13, <1>b DEF Resume, WriterSleepsOn, WriterTakes, WriterWaitsAgain,
       WriterResumes, PromoterSleepsOn, PromoterTakes, PromoterWaitsAgain,
       PromoterResumes, ReaderResumes, DemoterResumes
  <2>1. CASE WriterSleepsOn(t)
    BY Zenon, <2>0, <2>1, <1>2 DEF WriterSleepsOn, Suspend, Blocked
  <2>2. CASE WriterTakes(t)
    BY Zenon, <2>2, CoreWrite DEF WriterTakes, WriterMayGo
  <2>3. CASE WriterWaitsAgain(t)
    BY Zenon, <2>3, <1>3 DEF WriterWaitsAgain
  <2>4. CASE PromoterSleepsOn(t)
    BY Zenon, <2>0, <2>4, <1>2 DEF PromoterSleepsOn, Suspend, Blocked
  <2>5. CASE PromoterTakes(t)
    BY Zenon, <2>5, CoreWrite DEF PromoterTakes, PromoterMayGo
  <2>6. CASE PromoterWaitsAgain(t)
    BY Zenon, <2>0, <2>6, <1>2 DEF PromoterWaitsAgain, Suspend, Blocked
  <2>7. CASE ReaderResumes(t)
    <3>1. CASE ReaderMayGo
      BY Zenon, <2>0, <2>7, <3>1, CoreRead DEF ReaderResumes, ReaderMayGo
    <3>2. CASE ~ReaderMayGo
      BY Zenon, <2>0, <2>7, <3>2, <1>2 DEF ReaderResumes, Suspend, Blocked
    <3> QED
      BY Zenon, <3>1, <3>2
  <2>8. CASE DemoterResumes(t)
    BY Zenon, <2>0, <2>8, <1>8, <1>9 DEF DemoterResumes
  <2> QED
    BY Zenon, <1>13, <2>1, <2>2, <2>3, <2>4, <2>5, <2>6, <2>7, <2>8 DEF Resume
<1>14. CASE Interrupt(t)
  BY Zenon, <1>14, <1>3 DEF Interrupt
<1> QED
  BY <1>1, <1>6, <1>7, <1>10, <1>11, <1>12, <1>13, <1>14

(* Nothing is held at the start.                                            *)
LEMMA IInvInit == Init => IInv
PROOF
<1> SUFFICES ASSUME Init PROVE IInv
  OBVIOUS
<1>1. TypeOK
  BY CsectAssumption DEF Init, TypeOK, Blocked, Statuses, Modes
<1>2. Writers = {} /\ Readers = {}
  BY DEF Init, Writers, Readers
<1>3. Cardinality(Readers) = 0
  BY <1>2, FS_EmptySet
<1>4. Holds
  BY DEF Init, Holds
<1> QED
  BY Zenon, <1>1, <1>2, <1>3, <1>4 DEF Init, IInv, Core, Exclusion, LockWord

(* The inductive invariant holds in every reachable state.                  *)
LEMMA IInvAlways == Spec => []IInv
PROOF
<1>1. IInv /\ [Next]_vars => IInv'
  BY Zenon, TypeStep, CoreStep DEF IInv
<1> QED
  BY <1>1, IInvInit, PTL DEF Spec

(* Every variable of a section always has the type the code gives it.       *)
THEOREM TypeCorrect == Spec => []TypeOK
PROOF
  BY IInvAlways, PTL DEF IInv

(* Many readers or one writer, for any number of threads and any order of   *)
(* csect calls, wake-ups and shutdown interrupts.                           *)
THEOREM MutualExclusion == Spec => []Exclusion
PROOF
  BY IInvAlways, PTL DEF IInv, Core

(* rwlock is the number of readers or the depth of the writer, who is the   *)
(* owner: what csect_enter and csect_exit decide on is never out of date.   *)
THEOREM LockWordCorrect == Spec => []LockWord
PROOF
  BY IInvAlways, PTL DEF IInv, Core

-----------------------------------------------------------------------------
(* With the calls of the engine every step keeps the reservation.           *)
LEMMA ReservationStep ==
  ASSUME FreeCallers = FALSE, TypeOK, Core, Reservation, [Next]_vars
  PROVE  Reservation'
PROOF
<1> USE DEF csVars, threadVars, callerVars
<1>a. /\ pc \in [Threads -> Blocked \cup {"run"}] /\ mode \in [Threads -> Modes]
      /\ demoted \in [Threads -> BOOLEAN] /\ rwlock \in Int
      /\ owner \in Threads \cup {NoThread} /\ NoThread \notin Threads
  BY Zenon, CsectAssumption DEF TypeOK
<1>0. CASE UNCHANGED vars
  BY Zenon, <1>0 DEF vars, Reservation
<1>1. SUFFICES ASSUME NEW t \in Threads,
                 csect_enter(t) \/ csect_enter_as_reader(t) \/ csect_demote(t)
                 \/ csect_promote(t) \/ csect_exit(t) \/ Resume(t) \/ Interrupt(t)
               PROVE  Reservation'
  BY Zenon, <1>0 DEF Next
<1>2. ASSUME UNCHANGED <<owner, mode, demoted>>, ~demoted[t],
             NEW w \in {"writer", "reader", "run"}, pc' = [pc EXCEPT ![t] = w]
      PROVE  Reservation'
  BY Zenon, <1>2, <1>a DEF Reservation
<1>3. ASSUME UNCHANGED <<owner, mode, demoted, pc>> PROVE Reservation'
  BY Zenon, <1>3 DEF Reservation
<1>4. ASSUME TakeWrite(t), UNCHANGED demoted, ~demoted[t], owner = NoThread \/ owner = t
      PROVE  Reservation'
  BY Zenon, <1>4, <1>a DEF TakeWrite, Reservation
<1>5. ASSUME TakeRead(t), UNCHANGED <<owner, demoted>>, ~demoted[t], mode[t] = "none"
      PROVE  Reservation'
  BY Zenon, <1>5, <1>a DEF TakeRead, Reservation
<1>6. CASE csect_enter(t)
  <2>1. CASE EnterTakes(t)
    BY Zenon, <2>1, <1>4 DEF EnterTakes, WriterMayGo, MayEnter
  <2>2. CASE EnterWaits(t)
    BY Zenon, <2>2, <1>2 DEF EnterWaits, Suspend, MayEnter
  <2> QED
    BY Zenon, <1>6, <2>1, <2>2 DEF csect_enter
<1>7. CASE csect_enter_as_reader(t)
  <2>1. CASE ReaderReenters(t)
    BY Zenon, <2>1, <1>4 DEF ReaderReenters, MayEnter
  <2>2. CASE ReaderTakes(t)
    <3>1. mode[t] = "none"
      BY Zenon, <2>2, LockFacts DEF ReaderTakes, MayEnter
    <3> QED
      BY Zenon, <2>2, <3>1, <1>5 DEF ReaderTakes, MayEnter
  <2>3. CASE ReaderWaits(t)
    BY Zenon, <2>3, <1>2 DEF ReaderWaits, Suspend, MayEnter
  <2> QED
    BY Zenon, <1>7, <2>1, <2>2, <2>3 DEF csect_enter_as_reader
<1>8. CASE csect_demote(t)
  <2>1. mode[t] = "write"
    BY Zenon, <1>8 DEF csect_demote, DemoteWriter, DemoteReader, MayDemote
  <2>2. DemoteWriter(t) /\ owner = t
    BY Zenon, <1>8, <2>1, LockFacts DEF csect_demote, DemoteReader
  <2>3. /\ owner' = owner /\ pc' = pc /\ demoted' = [demoted EXCEPT ![t] = TRUE]
        /\ \A u \in Threads \ {t} : mode'[u] = mode[u]
    <3>1. CASE rwlock + 1 < 0
      BY Zenon, <2>2, <3>1 DEF DemoteWriter
    <3>2. CASE ~(rwlock + 1 < 0)
      <4>1. mode' = [mode EXCEPT ![t] = "read"]
        BY <2>2, <3>2, Zenon DEF DemoteWriter
      <4> QED
        BY Zenon, <4>1, <2>2, <1>a DEF DemoteWriter
    <3> QED
      BY Zenon, <3>1, <3>2
  <2>4. pc[t] = "run"
    BY Zenon, <2>2 DEF DemoteWriter, MayDemote, MayEnter
  <2>5. demoted'[t] = TRUE /\ \A u \in Threads \ {t} : demoted'[u] = demoted[u]
    BY Zenon, <2>3, <1>a
  <2> QED
    BY <2>2, <2>3, <2>4, <2>5, Zenon DEF Reservation
<1>9. CASE csect_promote(t)
  <2>0. demoted[t] /\ pc[t] = "run" /\ owner = t
    BY Zenon, <1>9 DEF csect_promote, PromoteTakes, PromoteWaits, MayPromote, Reservation
  <2>1. CASE PromoteTakes(t)
    <3>1. /\ owner' = t /\ pc' = pc /\ mode'[t] = "write" /\ demoted'[t] = FALSE
          /\ \A u \in Threads \ {t} : mode'[u] = mode[u] /\ demoted'[u] = demoted[u]
      BY Zenon, <2>1, <1>a DEF PromoteTakes
    <3> QED
      BY Zenon, <2>0, <3>1 DEF Reservation
  <2>2. CASE PromoteWaits(t)
    <3>1. /\ owner' = owner /\ pc'[t] = "promoter" /\ demoted' = demoted
          /\ \A u \in Threads \ {t} : mode'[u] = mode[u] /\ pc'[u] = pc[u]
      BY Zenon, <2>2, <1>a DEF PromoteWaits, Suspend
    <3> QED
      BY Zenon, <2>0, <3>1 DEF Reservation
  <2> QED
    BY <1>9, <2>1, <2>2 DEF csect_promote
<1>10. CASE csect_exit(t)
  <2>1. CASE ExitNested(t)
    BY Zenon, <2>1, <1>3 DEF ExitNested
  <2>2. CASE ExitLast(t)
    <3>0. ~demoted[t] /\ pc[t] = "run" /\ mode[t] # "none"
      BY Zenon, <2>2 DEF ExitLast, MayExit
    <3>1. /\ owner' = IF rwlock < 0 THEN NoThread ELSE owner
          /\ pc' = pc /\ mode'[t] = "none" /\ demoted'[t] = FALSE
          /\ \A u \in Threads \ {t} : mode'[u] = mode[u] /\ demoted'[u] = demoted[u]
      BY Zenon, <2>2, <1>a DEF ExitLast
    <3>2. CASE mode[t] = "write"
      <4>1. owner' = NoThread /\ owner = t
        BY Zenon, <3>1, <3>2, LockFacts
      <4> QED
        BY <3>0, <3>1, <4>1, <1>a DEF Reservation
    <3>3. CASE mode[t] = "read"
      <4>1. owner' = owner /\ owner # t
        BY <3>0, <3>1, <3>3, <1>a, LockFacts DEF Reservation
      <4> QED
        BY Zenon, <3>0, <3>1, <4>1 DEF Reservation
    <3> QED
      BY Zenon, <3>0, <3>2, <3>3, <1>a DEF Modes
  <2> QED
    BY <1>10, <2>1, <2>2 DEF csect_exit
<1>11. CASE Resume(t)
  <2>1. CASE WriterSleepsOn(t)
    BY Zenon, <2>1, <1>2 DEF WriterSleepsOn, Suspend, Reservation
  <2>2. CASE WriterTakes(t)
    BY Zenon, <2>2, <1>4 DEF WriterTakes, WriterMayGo, WriterResumes, Reservation
  <2>3. CASE WriterWaitsAgain(t)
    BY Zenon, <2>3, <1>3 DEF WriterWaitsAgain
  <2>4. CASE PromoterSleepsOn(t)
    <3>1. pc' = pc
      BY Zenon, <2>4, <1>a DEF PromoterSleepsOn, Suspend
    <3> QED
      BY Zenon, <2>4, <3>1, <1>3 DEF PromoterSleepsOn
  <2>5. CASE PromoterTakes(t)
    <3>1. demoted[t] /\ owner = t
      BY Zenon, <2>5 DEF PromoterTakes, PromoterResumes, Reservation
    <3>2. /\ owner' = t /\ pc'[t] = "run" /\ mode'[t] = "write" /\ demoted'[t] = FALSE
          /\ \A u \in Threads \ {t} :
               mode'[u] = mode[u] /\ demoted'[u] = demoted[u] /\ pc'[u] = pc[u]
      BY Zenon, <2>5, <1>a DEF PromoterTakes, TakeWrite
    <3> QED
      BY Zenon, <3>1, <3>2 DEF Reservation
  <2>6. CASE PromoterWaitsAgain(t)
    <3>1. pc' = pc
      BY Zenon, <2>6, <1>a DEF PromoterWaitsAgain, PromoterResumes, Suspend
    <3> QED
      BY Zenon, <2>6, <3>1, <1>3 DEF PromoterWaitsAgain
  <2>7. CASE ReaderResumes(t)
    <3>0. ~demoted[t] /\ mode[t] = "none"
      BY Zenon, <2>7 DEF ReaderResumes, Reservation, Core, Holds
    <3>1. CASE ReaderMayGo
      BY Zenon, <2>7, <3>0, <3>1, <1>5 DEF ReaderResumes
    <3>2. CASE ~ReaderMayGo
      BY Zenon, <2>7, <3>0, <3>2, <1>2 DEF ReaderResumes, Suspend
    <3> QED
      BY <3>1, <3>2
  <2>8. CASE DemoterResumes(t)
    BY Zenon, <2>8 DEF DemoterResumes, Reservation
  <2> QED
    BY Zenon, <1>11, <2>1, <2>2, <2>3, <2>4, <2>5, <2>6, <2>7, <2>8 DEF Resume
<1>12. CASE Interrupt(t)
  BY Zenon, <1>12, <1>3 DEF Interrupt
<1> QED
  BY Zenon, <1>1, <1>6, <1>7, <1>8, <1>9, <1>10, <1>11, <1>12

(* Every step of the section is a step of RWLock, or leaves modes and       *)
(* reservations as they are.                                                *)
LEMMA RefinementStep ==
  ASSUME FreeCallers = FALSE, TypeOK, Core, Reservation, [Next]_vars
  PROVE  [RW!Next]_<<mode, demoted>>
PROOF
<1> USE DEF csVars, threadVars, callerVars
<1>a. /\ mode \in [Threads -> Modes] /\ rwlock \in Int
      /\ owner \in Threads \cup {NoThread} /\ NoThread \notin Threads
  BY Zenon, CsectAssumption DEF TypeOK
<1>0. CASE UNCHANGED vars
  BY <1>0 DEF vars
<1>1. SUFFICES ASSUME NEW t \in Threads,
                 csect_enter(t) \/ csect_enter_as_reader(t) \/ csect_demote(t)
                 \/ csect_promote(t) \/ csect_exit(t) \/ Resume(t) \/ Interrupt(t)
               PROVE  \/ UNCHANGED <<mode, demoted>>
                      \/ RW!Read(t) \/ RW!Write(t) \/ RW!Leave(t)
                      \/ RW!StepBack(t) \/ RW!StepAside(t) \/ RW!StepForward(t)
  BY Zenon, <1>0 DEF Next, RW!Next
<1>2. ASSUME TakeWrite(t), WriterMayGo(t), UNCHANGED demoted, ~demoted[t]
      PROVE  UNCHANGED <<mode, demoted>> \/ RW!Write(t)
  <2>1. CASE rwlock < 0 /\ owner = t
    <3>1. mode[t] = "write"
      BY Zenon, <2>1, LockFacts
    <3> QED
      BY Zenon, <1>2, <1>a, <3>1 DEF TakeWrite
  <2>2. CASE rwlock = 0 /\ owner = NoThread
    <3>1. \A u \in Threads : mode[u] = "none"
      BY Zenon, <2>2, LockFacts
    <3>2. \A u \in Threads : ~demoted[u]
      BY Zenon, <2>2, <1>a DEF Reservation
    <3> QED
      BY Zenon, <1>2, <3>1, <3>2 DEF TakeWrite, RW!Write, RW!OthersOut, RW!NotReserved
  <2> QED
    BY <1>2, <2>1, <2>2 DEF WriterMayGo
<1>3. ASSUME TakeRead(t), ReaderMayGo, UNCHANGED demoted, ~demoted[t], mode[t] = "none"
      PROVE  RW!Read(t)
  <2>1. \A u \in Threads : mode[u] # "write"
    BY Zenon, <1>3, LockFacts DEF ReaderMayGo
  <2> QED
    BY Zenon, <1>3, <2>1 DEF TakeRead, RW!Read
<1>4. CASE csect_enter(t)
  <2>1. CASE EnterTakes(t)
    BY Zenon, <2>1, <1>2 DEF EnterTakes, MayEnter
  <2>2. CASE EnterWaits(t)
    BY Zenon, <2>2 DEF EnterWaits
  <2> QED
    BY Zenon, <1>4, <2>1, <2>2 DEF csect_enter
<1>5. CASE csect_enter_as_reader(t)
  <2>1. CASE ReaderReenters(t)
    BY Zenon, <2>1, <1>2 DEF ReaderReenters, MayEnter, WriterMayGo
  <2>2. CASE ReaderTakes(t)
    <3>1. mode[t] = "none"
      BY Zenon, <2>2, LockFacts DEF ReaderTakes, MayEnter
    <3> QED
      BY Zenon, <2>2, <3>1, <1>3 DEF ReaderTakes, MayEnter
  <2>3. CASE ReaderWaits(t)
    BY Zenon, <2>3 DEF ReaderWaits
  <2> QED
    BY Zenon, <1>5, <2>1, <2>2, <2>3 DEF csect_enter_as_reader
<1>6. CASE csect_demote(t)
  <2>1. mode[t] = "write"
    BY Zenon, <1>6 DEF csect_demote, DemoteWriter, DemoteReader, MayDemote
  <2>2. DemoteWriter(t)
    BY Zenon, <1>6, <2>1, LockFacts DEF csect_demote, DemoteReader
  <2>3. \E m \in {"read", "write"} : mode' = [mode EXCEPT ![t] = m]
    <3>1. CASE rwlock + 1 < 0
      <4>1. mode' = mode
        BY Zenon, <2>2, <3>1 DEF DemoteWriter
      <4> QED
        BY Zenon, <4>1, <2>1, <1>a
    <3>2. CASE ~(rwlock + 1 < 0)
      BY <2>2, <3>2, Zenon DEF DemoteWriter
    <3> QED
      BY Zenon, <3>1, <3>2
  <2>4. ~demoted[t] /\ demoted' = [demoted EXCEPT ![t] = TRUE]
    BY Zenon, <2>2 DEF DemoteWriter, MayDemote, MayEnter
  <2> QED
    BY Zenon, <2>1, <2>3, <2>4 DEF RW!StepBack
<1>7. CASE csect_promote(t)
  <2>0. demoted[t] /\ mode[t] \in {"read", "write"}
    BY Zenon, <1>7, <1>a DEF csect_promote, PromoteTakes, PromoteWaits, MayPromote, Modes
  <2>1. CASE PromoteTakes(t)
    <3>1. Writers' = {t} /\ Readers' = {}
      <4>1. mode'[t] = "write"
        BY Zenon, <2>1, <1>a DEF PromoteTakes
      <4> QED
        BY Zenon, <4>1, CoreStep DEF Core, Exclusion, Writers
    <3>2. mode' = [mode EXCEPT ![t] = "write"] /\ demoted' = [demoted EXCEPT ![t] = FALSE]
      BY Zenon, <2>1 DEF PromoteTakes
    <3>3. RW!OthersOut(t)
      BY Zenon, <3>1, <3>2, <1>a DEF RW!OthersOut, Writers, Readers, Modes
    <3> QED
      BY Zenon, <2>0, <3>2, <3>3 DEF RW!StepForward
  <2>2. CASE PromoteWaits(t)
    <3>1. mode[t] = "read"
      <4>1. ASSUME mode[t] = "write" PROVE FALSE
        <5>1. rwlock < 0 /\ owner = t
          BY Zenon, <4>1, LockFacts
        <5> QED
          BY <2>2, <5>1, <1>a DEF PromoteWaits, PromoterMayGo, Released
      <4> QED
        BY Zenon, <4>1, <2>0
    <3> QED
      BY Zenon, <2>0, <2>2, <3>1 DEF PromoteWaits, RW!StepAside
  <2> QED
    BY Zenon, <1>7, <2>1, <2>2 DEF csect_promote
<1>8. CASE csect_exit(t)
  <2>1. CASE ExitNested(t)
    BY Zenon, <2>1 DEF ExitNested
  <2>2. CASE ExitLast(t)
    <3>1. ~demoted[t] /\ mode[t] # "none"
      BY Zenon, <2>2 DEF ExitLast, MayExit
    <3>2. demoted' = demoted
      BY Zenon, <2>2, <3>1 DEF ExitLast, TypeOK
    <3> QED
      BY Zenon, <2>2, <3>1, <3>2 DEF ExitLast, RW!Leave
  <2> QED
    BY Zenon, <1>8, <2>1, <2>2 DEF csect_exit
<1>9. CASE Resume(t)
  <2>1. CASE WriterTakes(t)
    BY Zenon, <2>1, <1>2 DEF WriterTakes, WriterResumes, Reservation
  <2>2. CASE WriterSleepsOn(t) \/ WriterWaitsAgain(t) \/ PromoterSleepsOn(t)
             \/ PromoterWaitsAgain(t)
    BY Zenon, <2>2 DEF WriterSleepsOn, WriterWaitsAgain, PromoterSleepsOn,
       PromoterWaitsAgain
  <2>3. CASE PromoterTakes(t)
    <3>1. demoted[t] /\ pc[t] # "run"
      BY Zenon, <2>3 DEF PromoterTakes, PromoterResumes, Reservation
    <3>2. rwlock = 0
      BY Zenon, <2>3, <3>1, LockFacts DEF PromoterTakes, PromoterMayGo, Core, Holds
    <3>3. RW!OthersOut(t)
      BY Zenon, <3>2, LockFacts DEF RW!OthersOut
    <3> QED
      BY Zenon, <2>3, <3>1, <3>3 DEF PromoterTakes, TakeWrite, RW!StepForward
  <2>4. CASE ReaderResumes(t)
    <3>1. ~demoted[t] /\ mode[t] = "none"
      BY Zenon, <2>4 DEF ReaderResumes, Reservation, Core, Holds
    <3> QED
      BY Zenon, <2>4, <3>1, <1>3 DEF ReaderResumes
  <2>5. CASE DemoterResumes(t)
    BY Zenon, <2>5 DEF DemoterResumes, Reservation
  <2> QED
    BY Zenon, <1>9, <2>1, <2>2, <2>3, <2>4, <2>5 DEF Resume
<1>10. CASE Interrupt(t)
  BY Zenon, <1>10 DEF Interrupt
<1> QED
  BY Zenon, <1>1, <1>4, <1>5, <1>6, <1>7, <1>8, <1>9, <1>10

(* With the calls of the engine, owner names the thread that the section is *)
(* reserved for, its writer or the writer that demoted itself.              *)
THEOREM ReservationKept ==
  ASSUME FreeCallers = FALSE
  PROVE  Spec => []Reservation
PROOF
<1>1. Init => Reservation
  BY CsectAssumption DEF Init, Reservation
<1>2. IInv /\ Reservation /\ [Next]_vars => Reservation'
  BY Zenon, ReservationStep DEF IInv
<1> QED
  BY <1>1, <1>2, IInvAlways, PTL DEF Spec

(* With the calls of the engine a critical section is the read/write lock   *)
(* with reservation that RWLock specifies, for any number of threads.       *)
THEOREM ImplementsRWLock ==
  ASSUME FreeCallers = FALSE
  PROVE  Spec => Refinement
PROOF
<1>1. Init => RW!Init
  BY Zenon DEF Init, RW!Init
<1>2. IInv /\ Reservation /\ [Next]_vars => [RW!Next]_RW!vars
  BY Zenon, RefinementStep DEF IInv, RW!vars
<1> QED
  BY <1>1, <1>2, IInvAlways, ReservationKept, PTL DEF Spec, Refinement, RW!Spec

-----------------------------------------------------------------------------
(* The queues.                                                              *)

(* No thread is queued twice.                                               *)
Distinct(q) == \A i, j \in DOMAIN q : q[i] = q[j] => i = j

(* The threads asleep in a queue, or woken from it and not yet inside.      *)
Waiting == {t \in Threads : pc[t] \in {"writer", "promoter"}}

(* What a thread that waits knows.  The last conjunct makes the discipline  *)
(* inductive: only the shutdown thread signals a thread that stays queued.  *)
WaiterInv(t) ==
  /\ InQueue(t, writersQ) => pc[t] = "writer"
  /\ InQueue(t, promotersQ) => pc[t] = "promoter"
  /\ t \in Waiting /\ ~InQueue(t, writersQ) /\ ~InQueue(t, promotersQ) => cond[t]
  /\ t \in Waiting /\ cond[t] /\ ~ResumedByShutdown(t) =>
       resume_status[t] =
         IF pc[t] = "writer" THEN "WRITER_RESUMED" ELSE "PROMOTER_RESUMED"
  /\ InQueue(t, writersQ) \/ InQueue(t, promotersQ) =>
       ~cond[t] \/ ResumedByShutdown(t)

QueueInv ==
  /\ Distinct(writersQ) /\ Distinct(promotersQ)
  /\ \A t \in Threads : WaiterInv(t)
  /\ waiting_writers = Cardinality(Waiting)

(* A thread that has been signalled and taken out of its queue.             *)
Awake(t) == cond[t] /\ ~InQueue(t, writersQ) /\ ~InQueue(t, promotersQ)

(* What joins a queue and what leaves it.                                   *)
LEMMA QueueAppend ==
  ASSUME NEW q \in Seq(Threads), NEW t \in Threads
  PROVE  /\ \A u \in Threads : InQueue(u, Append(q, t)) <=> InQueue(u, q) \/ u = t
         /\ Distinct(q) /\ ~InQueue(t, q) => Distinct(Append(q, t))
PROOF
<1>1. Len(q) \in Nat /\ DOMAIN q = 1 .. Len(q)
  OBVIOUS
<1>2. /\ DOMAIN Append(q, t) = 1 .. Len(q) + 1 /\ Append(q, t)[Len(q) + 1] = t
      /\ \A i \in 1 .. Len(q) : Append(q, t)[i] = q[i]
  OBVIOUS
<1>3. ASSUME NEW u \in Threads
      PROVE  InQueue(u, Append(q, t)) <=> InQueue(u, q) \/ u = t
  BY <1>1, <1>2 DEF InQueue
<1>4. ASSUME Distinct(q), ~InQueue(t, q) PROVE Distinct(Append(q, t))
  BY <1>1, <1>2, <1>4 DEF Distinct, InQueue
<1> QED
  BY Zenon, <1>3, <1>4

(* What leaves a queue at its head.                                         *)
LEMMA QueueHead ==
  ASSUME NEW q \in Seq(Threads), q # <<>>, Distinct(q)
  PROVE  /\ Head(q) \in Threads /\ InQueue(Head(q), q)
         /\ \A u \in Threads : InQueue(u, Tail(q)) <=> InQueue(u, q) /\ u # Head(q)
         /\ Distinct(Tail(q))
PROOF
<1>1. Len(q) \in Nat \ {0} /\ DOMAIN q = 1 .. Len(q) /\ Head(q) = q[1]
  OBVIOUS
<1>2. /\ DOMAIN Tail(q) = 1 .. Len(q) - 1
      /\ \A i \in 1 .. Len(q) - 1 : Tail(q)[i] = q[i + 1]
  OBVIOUS
<1>3. Head(q) \in Threads /\ InQueue(Head(q), q)
  BY <1>1 DEF InQueue
<1>4. ASSUME NEW u \in Threads
      PROVE  InQueue(u, Tail(q)) <=> InQueue(u, q) /\ u # Head(q)
  <2>1. ASSUME InQueue(u, Tail(q)) PROVE InQueue(u, q) /\ u # Head(q)
    <3>1. PICK i \in 1 .. Len(q) - 1 : q[i + 1] = u
      BY <2>1, <1>2 DEF InQueue
    <3>2. i + 1 \in DOMAIN q /\ i + 1 # 1 /\ 1 \in DOMAIN q
      BY <1>1
    <3> QED
      BY Zenon, <1>1, <3>1, <3>2 DEF InQueue, Distinct
  <2>2. ASSUME InQueue(u, q), u # Head(q) PROVE InQueue(u, Tail(q))
    <3>1. PICK i \in 1 .. Len(q) : q[i] = u
      BY <2>2, <1>1 DEF InQueue
    <3>2. i # 1
      BY Zenon, <1>1, <2>2, <3>1
    <3>3. i - 1 \in 1 .. Len(q) - 1 /\ (i - 1) + 1 = i
      BY <3>2, <1>1
    <3>4. Tail(q)[i - 1] = q[(i - 1) + 1]
      BY Zenon, <1>2, <3>3
    <3> QED
      BY Zenon, <1>2, <3>1, <3>3, <3>4 DEF InQueue
  <2> QED
    BY Zenon, <2>1, <2>2
<1>5. Distinct(Tail(q))
  BY <1>1, <1>2 DEF Distinct
<1> QED
  BY Zenon, <1>3, <1>4, <1>5

(* waiting_writers counts the threads that wait.                            *)
LEMMA WaitingCount ==
  ASSUME TypeOK, waiting_writers = Cardinality(Waiting), NEW t \in Threads
  PROVE  /\ t \notin Waiting /\ waiting_writers' = waiting_writers + 1
              /\ Waiting' = Waiting \cup {t}
            => waiting_writers' = Cardinality(Waiting')
         /\ t \in Waiting /\ waiting_writers' = waiting_writers - 1
              /\ Waiting' = Waiting \ {t}
            => waiting_writers' = Cardinality(Waiting')
         /\ waiting_writers \in Nat
         /\ waiting_writers = 0 <=> Waiting = {}
PROOF
<1>1. IsFiniteSet(Waiting)
  BY Zenon, FS_Subset, CsectAssumption DEF Waiting
<1>2. Cardinality(Waiting) \in Nat /\ (Cardinality(Waiting) = 0 <=> Waiting = {})
  BY Zenon, <1>1, FS_CardinalityType, FS_EmptySet
<1>3. t \notin Waiting => Cardinality(Waiting \cup {t}) = Cardinality(Waiting) + 1
  BY Zenon, <1>1, FS_AddElement
<1>4. t \in Waiting => Cardinality(Waiting \ {t}) = Cardinality(Waiting) - 1
  BY Zenon, <1>1, FS_RemoveElement
<1> QED
  BY Zenon, <1>2, <1>3, <1>4

(* A step of threads that do not wait in a queue.                           *)
LEMMA QueueKept ==
  ASSUME TypeOK, QueueInv, UNCHANGED <<waiting_writers, writersQ, promotersQ>>,
         \A u \in Threads :
           \/ /\ UNCHANGED <<pc[u], resume_status[u]>>
              /\ cond'[u] = cond[u] /\ interrupted'[u] = interrupted[u]
           \/ u \notin Waiting /\ u \notin Waiting'
  PROVE  QueueInv'
PROOF
<1>1. \A u \in Threads : u \in Waiting' <=> u \in Waiting
  BY Zenon DEF Waiting
<1>2. Waiting' = Waiting
  <2>1. Waiting \subseteq Threads /\ Waiting' \subseteq Threads
    BY Zenon DEF Waiting
  <2> QED
    BY Zenon, <1>1, <2>1
<1>3. ASSUME NEW u \in Threads PROVE WaiterInv(u)'
  <2>1. WaiterInv(u) /\ (u \in Waiting <=> pc[u] \in {"writer", "promoter"})
    BY Zenon DEF QueueInv, Waiting
  <2>2. CASE u \notin Waiting /\ u \notin Waiting'
    BY Zenon, <2>1, <2>2 DEF WaiterInv
  <2>3. CASE /\ UNCHANGED <<pc[u], resume_status[u]>>
             /\ cond'[u] = cond[u] /\ interrupted'[u] = interrupted[u]
    <3>1. ResumedByShutdown(u)' <=> ResumedByShutdown(u)
      BY Zenon, <2>3 DEF ResumedByShutdown
    <3> QED
      BY Zenon, <1>1, <2>1, <2>3, <3>1 DEF WaiterInv
  <2> QED
    BY Zenon, <2>2, <2>3
<1> QED
  BY Zenon, <1>2, <1>3 DEF QueueInv

(* A thread that waits and has been signalled, not by the shutdown thread   *)
(* alone, is in no queue.                                                   *)
LEMMA ResumedNotQueued ==
  ASSUME QueueInv, NEW t \in Threads, WriterResumes(t) \/ PromoterResumes(t)
  PROVE  ~InQueue(t, writersQ) /\ ~InQueue(t, promotersQ) /\ t \in Waiting
PROOF
  BY Zenon DEF QueueInv, WaiterInv, WriterResumes, PromoterResumes, Waiting

(* t joins a queue and sleeps: csect_wait_on_writer_queue and               *)
(* csect_wait_on_promoter_queue, called by a thread that did not wait.      *)
LEMMA QueueJoin ==
  ASSUME TypeOK, QueueInv, NEW t \in Threads, pc[t] = "run",
         \/ /\ writersQ' = Append(writersQ, t) /\ promotersQ' = promotersQ
            /\ Suspend(t, "writer", "WRITER_SUSPENDED")
         \/ /\ promotersQ' = Append(promotersQ, t) /\ writersQ' = writersQ
            /\ Suspend(t, "promoter", "PROMOTER_SUSPENDED"),
         waiting_writers' = waiting_writers + 1, interrupted' = interrupted
  PROVE  QueueInv'
PROOF
<1> writersQ \in Seq(Threads) /\ promotersQ \in Seq(Threads)
    /\ pc \in [Threads -> Blocked \cup {"run"}] /\ cond \in [Threads -> BOOLEAN]
    /\ resume_status \in [Threads -> Statuses]
  BY Zenon DEF TypeOK
<1>1. /\ ~InQueue(t, writersQ) /\ ~InQueue(t, promotersQ) /\ t \notin Waiting
      /\ waiting_writers = Cardinality(Waiting)
      /\ Distinct(writersQ) /\ Distinct(promotersQ)
      /\ \A u \in Threads : WaiterInv(u)
  BY Zenon DEF QueueInv, WaiterInv, Waiting
<1>2. /\ pc'[t] \in {"writer", "promoter"} /\ ~cond'[t]
      /\ \A u \in Threads \ {t} : UNCHANGED <<pc[u], resume_status[u]>>
      /\ \A u \in Threads \ {t} : cond'[u] = cond[u]
  BY Zenon DEF Suspend
<1>3. Waiting' = Waiting \cup {t}
  BY Zenon, <1>2 DEF Waiting
<1>4. waiting_writers' = Cardinality(Waiting')
  BY Zenon, <1>1, <1>3, WaitingCount
<1>5. /\ Distinct(writersQ') /\ Distinct(promotersQ')
      /\ pc'[t] = "writer" => InQueue(t, writersQ') /\ ~InQueue(t, promotersQ')
      /\ pc'[t] = "promoter" => InQueue(t, promotersQ') /\ ~InQueue(t, writersQ')
      /\ \A u \in Threads \ {t} : /\ InQueue(u, writersQ') <=> InQueue(u, writersQ)
                                  /\ InQueue(u, promotersQ') <=> InQueue(u, promotersQ)
  <2>1. CASE writersQ' = Append(writersQ, t) /\ promotersQ' = promotersQ
             /\ Suspend(t, "writer", "WRITER_SUSPENDED")
    <3>1. pc'[t] = "writer"
      BY Zenon, <2>1 DEF Suspend
    <3> QED
      BY Zenon, <1>1, <2>1, <3>1, QueueAppend
  <2>2. CASE promotersQ' = Append(promotersQ, t) /\ writersQ' = writersQ
             /\ Suspend(t, "promoter", "PROMOTER_SUSPENDED")
    <3>1. pc'[t] = "promoter"
      BY Zenon, <2>2 DEF Suspend
    <3> QED
      BY Zenon, <1>1, <2>2, <3>1, QueueAppend
  <2> QED
    BY Zenon, <2>1, <2>2
<1>6. WaiterInv(t)'
  BY Zenon, <1>2, <1>5 DEF WaiterInv
<1>7. ASSUME NEW u \in Threads \ {t} PROVE WaiterInv(u)'
  <2>1. ResumedByShutdown(u)' <=> ResumedByShutdown(u)
    BY Zenon, <1>2 DEF ResumedByShutdown
  <2>2. u \in Waiting' <=> u \in Waiting
    BY Zenon, <1>3
  <2> QED
    BY Zenon, <1>1, <1>2, <1>5, <2>1, <2>2 DEF WaiterInv
<1> QED
  BY Zenon, <1>1, <1>4, <1>5, <1>6, <1>7 DEF QueueInv

(* t sleeps on in the queue it is in.                                       *)
LEMMA QueueSleep ==
  ASSUME TypeOK, QueueInv, NEW t \in Threads,
         WriterSleepsOn(t) \/ PromoterSleepsOn(t)
  PROVE  QueueInv'
PROOF
<1> pc \in [Threads -> Blocked \cup {"run"}] /\ cond \in [Threads -> BOOLEAN]
    /\ resume_status \in [Threads -> Statuses]
  BY Zenon DEF TypeOK
<1>1. /\ UNCHANGED <<waiting_writers, writersQ, promotersQ, interrupted>>
      /\ pc' = pc /\ ~cond'[t] /\ t \in Waiting
      /\ InQueue(t, writersQ) \/ InQueue(t, promotersQ)
      /\ \A u \in Threads \ {t} : (cond'[u] <=> cond[u]) /\ resume_status'[u] = resume_status[u]
  <2>1. CASE WriterSleepsOn(t)
    <3>1. pc' = [pc EXCEPT ![t] = pc[t]]
      BY Zenon, <2>1 DEF WriterSleepsOn, Suspend
    <3>2. pc' = pc
      BY <3>1
    <3> QED
      BY Zenon, <2>1, <3>2 DEF WriterSleepsOn, Suspend, csVars, Waiting
  <2>2. CASE PromoterSleepsOn(t)
    <3>1. pc' = [pc EXCEPT ![t] = pc[t]]
      BY Zenon, <2>2 DEF PromoterSleepsOn, Suspend
    <3>2. pc' = pc
      BY <3>1
    <3> QED
      BY Zenon, <2>2, <3>2 DEF PromoterSleepsOn, Suspend, csVars, Waiting
  <2> QED
    BY Zenon, <2>1, <2>2
<1>2. Waiting' = Waiting
  BY Zenon, <1>1 DEF Waiting
<1>3. WaiterInv(t)'
  BY Zenon, <1>1, <1>2 DEF QueueInv, WaiterInv
<1>4. ASSUME NEW u \in Threads \ {t} PROVE WaiterInv(u)'
  <2>1. ResumedByShutdown(u)' <=> ResumedByShutdown(u)
    BY Zenon, <1>1 DEF ResumedByShutdown
  <2>2. WaiterInv(u) /\ pc'[u] = pc[u] /\ (cond'[u] <=> cond[u])
        /\ resume_status'[u] = resume_status[u] /\ (u \in Waiting' <=> u \in Waiting)
    BY Zenon, <1>1, <1>2 DEF QueueInv
  <2>3. writersQ' = writersQ /\ promotersQ' = promotersQ
    BY Zenon, <1>1
  <2> QED
    BY Zenon, <2>1, <2>2, <2>3 DEF WaiterInv
<1> QED
  BY Zenon, <1>1, <1>2, <1>3, <1>4 DEF QueueInv

(* A woken thread takes the section.                                        *)
LEMMA QueueLeave ==
  ASSUME TypeOK, QueueInv, NEW t \in Threads, WriterTakes(t) \/ PromoterTakes(t)
  PROVE  QueueInv'
PROOF
<1> pc \in [Threads -> Blocked \cup {"run"}]
  BY Zenon DEF TypeOK
<1>1. /\ UNCHANGED <<writersQ, promotersQ, cond, resume_status, interrupted>>
      /\ waiting_writers' = waiting_writers - 1 /\ pc' = [pc EXCEPT ![t] = "run"]
  BY Zenon DEF WriterTakes, PromoterTakes, TakeWrite
<1>2. /\ ~InQueue(t, writersQ) /\ ~InQueue(t, promotersQ) /\ t \in Waiting
      /\ waiting_writers = Cardinality(Waiting)
  BY Zenon, ResumedNotQueued DEF WriterTakes, PromoterTakes, QueueInv
<1>3. Waiting' = Waiting \ {t}
  BY Zenon, <1>1 DEF Waiting
<1>4. waiting_writers' = Cardinality(Waiting')
  BY Zenon, <1>1, <1>2, <1>3, WaitingCount
<1>5. ASSUME NEW u \in Threads PROVE WaiterInv(u)'
  <2>1. ResumedByShutdown(u)' <=> ResumedByShutdown(u)
    BY Zenon, <1>1 DEF ResumedByShutdown
  <2>2. WaiterInv(u)
    BY Zenon DEF QueueInv
  <2>3. CASE u = t
    BY Zenon, <1>1, <1>2, <1>3, <2>3 DEF WaiterInv
  <2>4. CASE u # t
    <3>1. pc'[u] = pc[u] /\ (u \in Waiting' <=> u \in Waiting)
      BY Zenon, <1>1, <1>3, <2>4
    <3> QED
      BY Zenon, <1>1, <2>1, <2>2, <3>1 DEF WaiterInv
  <2> QED
    BY Zenon, <2>3, <2>4
<1> QED
  BY Zenon, <1>1, <1>4, <1>5 DEF QueueInv

(* The head of one queue is woken; perhaps none is there.                   *)
LEMMA QueueWakeup ==
  ASSUME TypeOK, QueueInv,
         \/ csect_wakeup_waiting_writer /\ promotersQ' = promotersQ
         \/ csect_wakeup_waiting_promoter /\ writersQ' = writersQ,
         UNCHANGED <<waiting_writers, pc, interrupted>>
  PROVE  QueueInv'
PROOF
<1> writersQ \in Seq(Threads) /\ promotersQ \in Seq(Threads)
    /\ cond \in [Threads -> BOOLEAN]
  BY Zenon DEF TypeOK
<1>1. Waiting' = Waiting
  BY Zenon DEF Waiting
<1>2. /\ Distinct(writersQ) /\ Distinct(promotersQ)
      /\ \A u \in Threads : WaiterInv(u)
  BY Zenon DEF QueueInv
<1>3. /\ Distinct(writersQ') /\ Distinct(promotersQ')
      /\ \A u \in Threads :
           \/ /\ InQueue(u, writersQ') <=> InQueue(u, writersQ)
              /\ InQueue(u, promotersQ') <=> InQueue(u, promotersQ)
              /\ cond'[u] <=> cond[u]
              /\ resume_status'[u] = resume_status[u]
           \/ /\ InQueue(u, writersQ) /\ ~InQueue(u, writersQ')
              /\ InQueue(u, promotersQ') <=> InQueue(u, promotersQ)
              /\ cond'[u] /\ resume_status'[u] = "WRITER_RESUMED"
           \/ /\ InQueue(u, promotersQ) /\ ~InQueue(u, promotersQ')
              /\ InQueue(u, writersQ') <=> InQueue(u, writersQ)
              /\ cond'[u] /\ resume_status'[u] = "PROMOTER_RESUMED"
  <2>1. CASE csect_wakeup_waiting_writer /\ promotersQ' = promotersQ
    <3> USE <2>1 DEF csect_wakeup_waiting_writer, Dequeued, Signalled, Resumed
    <3>1. CASE writersQ = <<>>
      BY Zenon, <1>2, <3>1
    <3>2. CASE writersQ # <<>>
      BY Zenon, <1>2, <3>2, QueueHead
    <3> QED
      BY Zenon, <3>1, <3>2
  <2>2. CASE csect_wakeup_waiting_promoter /\ writersQ' = writersQ
    <3> USE <2>2 DEF csect_wakeup_waiting_promoter, Dequeued, Signalled, Resumed
    <3>1. CASE promotersQ = <<>>
      BY Zenon, <1>2, <3>1
    <3>2. CASE promotersQ # <<>>
      BY Zenon, <1>2, <3>2, QueueHead
    <3> QED
      BY Zenon, <3>1, <3>2
  <2> QED
    BY Zenon, <2>1, <2>2
<1>4. ASSUME NEW u \in Threads PROVE WaiterInv(u)'
  <2>1. WaiterInv(u) /\ pc'[u] = pc[u] /\ (u \in Waiting' <=> u \in Waiting)
    BY Zenon, <1>1, <1>2
  <2>2. CASE /\ InQueue(u, writersQ') <=> InQueue(u, writersQ)
             /\ InQueue(u, promotersQ') <=> InQueue(u, promotersQ)
             /\ cond'[u] <=> cond[u]
             /\ resume_status'[u] = resume_status[u]
    <3>1. ResumedByShutdown(u)' <=> ResumedByShutdown(u)
      BY Zenon, <2>2 DEF ResumedByShutdown
    <3> QED
      BY Zenon, <2>1, <2>2, <3>1 DEF WaiterInv
  <2>3. CASE /\ InQueue(u, writersQ) /\ ~InQueue(u, writersQ')
             /\ InQueue(u, promotersQ') <=> InQueue(u, promotersQ)
             /\ cond'[u] /\ resume_status'[u] = "WRITER_RESUMED"
    BY Zenon, <2>1, <2>3 DEF WaiterInv
  <2>4. CASE /\ InQueue(u, promotersQ) /\ ~InQueue(u, promotersQ')
             /\ InQueue(u, writersQ') <=> InQueue(u, writersQ)
             /\ cond'[u] /\ resume_status'[u] = "PROMOTER_RESUMED"
    <3>1. pc[u] = "promoter" /\ ~InQueue(u, writersQ')
      BY Zenon, <2>1, <2>4 DEF WaiterInv
    <3> QED
      BY Zenon, <2>1, <2>4, <3>1 DEF WaiterInv
  <2> QED
    BY Zenon, <1>3, <2>2, <2>3, <2>4
<1> QED
  BY Zenon, <1>1, <1>3, <1>4 DEF QueueInv

(* A woken thread that finds the section taken queues again.                *)
LEMMA QueueAgain ==
  ASSUME TypeOK, QueueInv, NEW t \in Threads,
         WriterWaitsAgain(t) \/ PromoterWaitsAgain(t)
  PROVE  QueueInv'
PROOF
<1> writersQ \in Seq(Threads) /\ promotersQ \in Seq(Threads)
    /\ pc \in [Threads -> Blocked \cup {"run"}] /\ cond \in [Threads -> BOOLEAN]
    /\ resume_status \in [Threads -> Statuses]
  BY Zenon DEF TypeOK
<1>1. /\ ~InQueue(t, writersQ) /\ ~InQueue(t, promotersQ) /\ t \in Waiting
  BY Zenon, ResumedNotQueued DEF WriterWaitsAgain, PromoterWaitsAgain
<1>2. /\ Distinct(writersQ) /\ Distinct(promotersQ)
      /\ \A u \in Threads : WaiterInv(u)
  BY Zenon DEF QueueInv
<1>3. waiting_writers' = waiting_writers /\ pc' = pc /\ interrupted' = interrupted
  <2>1. CASE WriterWaitsAgain(t)
    BY Zenon, <2>1 DEF WriterWaitsAgain
  <2>2. CASE PromoterWaitsAgain(t)
    <3>1. pc' = [pc EXCEPT ![t] = pc[t]]
      BY Zenon, <2>2 DEF PromoterWaitsAgain, PromoterResumes, Suspend
    <3>2. pc' = pc
      BY <3>1
    <3> QED
      BY Zenon, <2>2, <3>2 DEF PromoterWaitsAgain
  <2> QED
    BY Zenon, <2>1, <2>2
<1>4. Waiting' = Waiting
  BY Zenon, <1>3 DEF Waiting
<1>5. /\ Distinct(writersQ') /\ Distinct(promotersQ') /\ ~cond'[t]
      /\ pc[t] = "writer" => InQueue(t, writersQ') /\ ~InQueue(t, promotersQ')
      /\ pc[t] = "promoter" => InQueue(t, promotersQ') /\ ~InQueue(t, writersQ')
      /\ \A u \in Threads \ {t} :
           \/ /\ InQueue(u, writersQ') <=> InQueue(u, writersQ)
              /\ InQueue(u, promotersQ') <=> InQueue(u, promotersQ)
              /\ cond'[u] <=> cond[u]
              /\ resume_status'[u] = resume_status[u]
           \/ /\ InQueue(u, promotersQ) /\ ~InQueue(u, promotersQ')
              /\ InQueue(u, writersQ') <=> InQueue(u, writersQ)
              /\ cond'[u] /\ resume_status'[u] = "PROMOTER_RESUMED"
  <2>1. CASE PromoterWaitsAgain(t)
    <3>1. /\ pc[t] = "promoter" /\ promotersQ' = Append(promotersQ, t)
          /\ writersQ' = writersQ /\ ~cond'[t]
          /\ \A u \in Threads \ {t} : (cond'[u] <=> cond[u])
                                      /\ resume_status'[u] = resume_status[u]
      BY Zenon, <2>1 DEF PromoterWaitsAgain, PromoterResumes, Suspend
    <3> QED
      BY Zenon, <1>1, <1>2, <3>1, QueueAppend
  <2>2. CASE WriterWaitsAgain(t)
    <3>1. pc[t] = "writer" /\ writersQ' = Append(writersQ, t)
      BY Zenon, <2>2 DEF WriterWaitsAgain, WriterResumes
    <3>2. PICK q : /\ q = <<>> \/ q = promotersQ
                   /\ promotersQ' = IF q = <<>> THEN promotersQ ELSE Tail(promotersQ)
                   /\ cond' = [Signalled(q) EXCEPT ![t] = FALSE]
                   /\ resume_status' = [Resumed(q, "PROMOTER_RESUMED")
                                          EXCEPT ![t] = "WRITER_SUSPENDED"]
      BY Zenon, <2>2 DEF WriterWaitsAgain
    <3>3. /\ ~cond'[t]
          /\ \A u \in Threads \ {t} :
               /\ cond'[u] <=> cond[u] \/ (q # <<>> /\ u = Head(q))
               /\ resume_status'[u] = IF q # <<>> /\ u = Head(q)
                                        THEN "PROMOTER_RESUMED" ELSE resume_status[u]
      BY Zenon, <3>2 DEF Signalled, Resumed
    <3>4. /\ Distinct(writersQ') /\ InQueue(t, writersQ')
          /\ \A u \in Threads \ {t} : InQueue(u, writersQ') <=> InQueue(u, writersQ)
      BY Zenon, <1>1, <1>2, <3>1, QueueAppend
    <3>5. CASE q = <<>>
      <4>1. promotersQ' = promotersQ
        BY Zenon, <3>2, <3>5
      <4> QED
        BY Zenon, <1>1, <1>2, <3>1, <3>3, <3>4, <3>5, <4>1
    <3>6. CASE q # <<>>
      <4>1. q = promotersQ /\ promotersQ' = Tail(promotersQ)
        BY Zenon, <3>2, <3>6
      <4>2. /\ Head(q) \in Threads /\ InQueue(Head(q), q)
            /\ \A u \in Threads : InQueue(u, Tail(q)) <=> InQueue(u, q) /\ u # Head(q)
            /\ Distinct(Tail(q))
        BY Zenon, <1>2, <3>6, <4>1, QueueHead
      <4> QED
        BY Zenon, <1>1, <1>2, <3>1, <3>3, <3>4, <3>6, <4>1, <4>2
    <3> QED
      BY Zenon, <3>5, <3>6
  <2> QED
    BY Zenon, <2>1, <2>2
<1>6. WaiterInv(t)'
  BY Zenon, <1>1, <1>3, <1>5 DEF WaiterInv, Waiting
<1>7. ASSUME NEW u \in Threads \ {t} PROVE WaiterInv(u)'
  <2>1. WaiterInv(u) /\ pc'[u] = pc[u] /\ (u \in Waiting' <=> u \in Waiting)
    BY Zenon, <1>2, <1>3, <1>4
  <2>2. CASE /\ InQueue(u, writersQ') <=> InQueue(u, writersQ)
             /\ InQueue(u, promotersQ') <=> InQueue(u, promotersQ)
             /\ cond'[u] <=> cond[u]
             /\ resume_status'[u] = resume_status[u]
    <3>1. ResumedByShutdown(u)' <=> ResumedByShutdown(u)
      BY Zenon, <1>3, <2>2 DEF ResumedByShutdown
    <3> QED
      BY Zenon, <2>1, <2>2, <3>1 DEF WaiterInv
  <2>3. CASE /\ InQueue(u, promotersQ) /\ ~InQueue(u, promotersQ')
             /\ InQueue(u, writersQ') <=> InQueue(u, writersQ)
             /\ cond'[u] /\ resume_status'[u] = "PROMOTER_RESUMED"
    <3>1. pc[u] = "promoter" /\ ~InQueue(u, writersQ')
      BY Zenon, <2>1, <2>3 DEF WaiterInv
    <3> QED
      BY Zenon, <2>1, <2>3, <3>1 DEF WaiterInv
  <2> QED
    BY Zenon, <1>5, <2>2, <2>3
<1> QED
  BY Zenon, <1>2, <1>3, <1>4, <1>5, <1>6, <1>7 DEF QueueInv

(* The shutdown thread interrupts a thread that waits.                      *)
LEMMA QueueInterrupt ==
  ASSUME TypeOK, QueueInv, NEW t \in Threads, Interrupt(t)
  PROVE  QueueInv'
PROOF
<1> cond \in [Threads -> BOOLEAN] /\ interrupted \in [Threads -> BOOLEAN]
    /\ resume_status \in [Threads -> Statuses]
  BY Zenon DEF TypeOK
<1>1. /\ UNCHANGED <<waiting_writers, writersQ, promotersQ, pc>>
      /\ ResumedByShutdown(t)' /\ (cond[t] => cond'[t])
      /\ \A u \in Threads \ {t} : /\ cond'[u] <=> cond[u]
                                  /\ interrupted'[u] <=> interrupted[u]
                                  /\ resume_status'[u] = resume_status[u]
  BY Zenon DEF Interrupt, csVars, ResumedByShutdown
<1>2. Waiting' = Waiting
  BY Zenon, <1>1 DEF Waiting
<1>3. WaiterInv(t)'
  BY Zenon, <1>1, <1>2 DEF QueueInv, WaiterInv
<1>4. ASSUME NEW u \in Threads \ {t} PROVE WaiterInv(u)'
  <2>1. ResumedByShutdown(u)' <=> ResumedByShutdown(u)
    BY Zenon, <1>1 DEF ResumedByShutdown
  <2>2. WaiterInv(u) /\ pc'[u] = pc[u] /\ (cond'[u] <=> cond[u])
        /\ resume_status'[u] = resume_status[u] /\ (u \in Waiting' <=> u \in Waiting)
    BY Zenon, <1>1, <1>2 DEF QueueInv
  <2>3. writersQ' = writersQ /\ promotersQ' = promotersQ
    BY Zenon, <1>1
  <2> QED
    BY Zenon, <2>1, <2>2, <2>3 DEF WaiterInv
<1> QED
  BY Zenon, <1>1, <1>2, <1>3, <1>4 DEF QueueInv

(* Every step of every thread keeps the queues in order.                    *)
LEMMA QueueStep ==
  ASSUME TypeOK, QueueInv, [Next]_vars
  PROVE  QueueInv'
PROOF
<1> USE DEF csVars, threadVars, callerVars
<1>a. /\ pc \in [Threads -> Blocked \cup {"run"}] /\ cond \in [Threads -> BOOLEAN]
      /\ resume_status \in [Threads -> Statuses]
  BY Zenon DEF TypeOK
<1>0. CASE UNCHANGED vars
  BY Zenon, <1>0, QueueKept DEF vars
<1>1. SUFFICES ASSUME NEW t \in Threads,
                 csect_enter(t) \/ csect_enter_as_reader(t) \/ csect_demote(t)
                 \/ csect_promote(t) \/ csect_exit(t) \/ Resume(t) \/ Interrupt(t)
               PROVE  QueueInv'
  BY Zenon, <1>0 DEF Next
<1>2. ASSUME UNCHANGED <<waiting_writers, writersQ, promotersQ, interrupted>>,
             pc[t] \notin {"writer", "promoter"}, pc'[t] \notin {"writer", "promoter"},
             \A u \in Threads \ {t} : /\ pc'[u] = pc[u]
                                      /\ resume_status'[u] = resume_status[u]
                                      /\ cond'[u] = cond[u] \/ u \notin Waiting
      PROVE  QueueInv'
  <2>1. t \notin Waiting /\ t \notin Waiting'
    BY Zenon, <1>2 DEF Waiting
  <2>2. ASSUME NEW u \in Threads \ {t}
        PROVE  \/ /\ UNCHANGED <<pc[u], resume_status[u]>>
                  /\ cond'[u] = cond[u] /\ interrupted'[u] = interrupted[u]
               \/ u \notin Waiting /\ u \notin Waiting'
    BY Zenon, <1>2 DEF Waiting
  <2> QED
    BY Zenon, <1>2, <2>1, <2>2, QueueKept
<1>3. ASSUME BroadcastReaders
      PROVE  \A u \in Threads : cond'[u] = cond[u] \/ u \notin Waiting
  <2> SUFFICES ASSUME NEW u \in Threads, u \in Waiting PROVE cond'[u] = cond[u]
    OBVIOUS
  <2>1. cond'[u] = (cond[u] \/ pc[u] \in {"reader", "demoter"})
    BY Zenon, <1>3 DEF BroadcastReaders
  <2>2. ~(pc[u] \in {"reader", "demoter"}) /\ cond[u] \in BOOLEAN
    BY Zenon, <1>a DEF Waiting
  <2> QED
    BY Zenon, <2>1, <2>2
<1>4. CASE csect_enter(t)
  <2>1. CASE EnterTakes(t)
    BY Zenon, <2>1, <1>2, <1>a DEF EnterTakes, TakeWrite, MayEnter
  <2>2. CASE EnterWaits(t)
    BY Zenon, <2>2, QueueJoin DEF EnterWaits, MayEnter
  <2> QED
    BY Zenon, <1>4, <2>1, <2>2 DEF csect_enter
<1>5. CASE csect_enter_as_reader(t)
  <2>1. CASE ReaderReenters(t)
    BY Zenon, <2>1, <1>2, <1>a DEF ReaderReenters, TakeWrite, MayEnter
  <2>2. CASE ReaderTakes(t)
    BY Zenon, <2>2, <1>2, <1>a DEF ReaderTakes, TakeRead, MayEnter
  <2>3. CASE ReaderWaits(t)
    BY Zenon, <2>3, <1>2, <1>a DEF ReaderWaits, Suspend, MayEnter
  <2> QED
    BY Zenon, <1>5, <2>1, <2>2, <2>3 DEF csect_enter_as_reader
<1>6. ASSUME pc[t] \in {"run", "demoter"}, DemoterTakes(t) \/ DemoterWaits(t)
      PROVE  QueueInv'
  <2>1. CASE DemoterTakes(t)
    BY Zenon, <1>6, <2>1, <1>2, <1>3, <1>a DEF DemoterTakes, TakeRead
  <2>2. CASE DemoterWaits(t)
    BY Zenon, <1>6, <2>2, <1>2, <1>a DEF DemoterWaits, Suspend
  <2> QED
    BY Zenon, <1>6, <2>1, <2>2
<1>7. CASE csect_demote(t)
  <2>1. CASE DemoteWriter(t)
    BY Zenon, <2>1, <1>2, <1>3 DEF DemoteWriter, MayDemote, MayEnter
  <2>2. CASE DemoteReader(t)
    BY Zenon, <2>2, <1>6 DEF DemoteReader, MayDemote, MayEnter
  <2> QED
    BY Zenon, <1>7, <2>1, <2>2 DEF csect_demote
<1>8. CASE csect_promote(t)
  <2>1. CASE PromoteTakes(t)
    BY Zenon, <2>1, <1>2 DEF PromoteTakes, MayPromote
  <2>2. CASE PromoteWaits(t)
    BY Zenon, <2>2, QueueJoin DEF PromoteWaits, MayPromote
  <2> QED
    BY Zenon, <1>8, <2>1, <2>2 DEF csect_promote
<1>9. CASE csect_exit(t)
  <2>1. CASE ExitNested(t)
    BY Zenon, <2>1, <1>2 DEF ExitNested, MayExit
  <2>2. CASE ExitLast(t)
    <3>1. /\ UNCHANGED <<waiting_writers, pc, interrupted>> /\ pc[t] = "run"
          /\ WakeupAfterExit(rwlock', owner')
      BY Zenon, <2>2 DEF ExitLast, MayExit
    <3>2. CASE BroadcastReaders /\ UNCHANGED <<writersQ, promotersQ, resume_status>>
      BY Zenon, <3>1, <3>2, <1>2, <1>3
    <3> QED
      BY Zenon, <3>1, <3>2, QueueWakeup DEF WakeupAfterExit
  <2> QED
    BY Zenon, <1>9, <2>1, <2>2 DEF csect_exit
<1>10. CASE Resume(t)
  <2>1. CASE ReaderResumes(t)
    BY Zenon, <2>1, <1>2, <1>a DEF ReaderResumes, TakeRead, Suspend
  <2>2. CASE DemoterResumes(t)
    BY Zenon, <2>2, <1>6 DEF DemoterResumes
  <2> QED
    BY Zenon, <1>10, <2>1, <2>2, QueueSleep, QueueLeave, QueueAgain DEF Resume
<1> QED
  BY Zenon, <1>1, <1>4, <1>5, <1>7, <1>8, <1>9, <1>10, QueueInterrupt

(* Nobody waits before the first call.                                      *)
LEMMA QueueInit == Init => QueueInv
PROOF
<1> SUFFICES ASSUME Init PROVE QueueInv
  OBVIOUS
<1>1. Waiting = {}
  BY Zenon DEF Init, Waiting
<1>2. DOMAIN writersQ = {} /\ DOMAIN promotersQ = {}
  BY DEF Init
<1>3. Cardinality(Waiting) = 0 /\ waiting_writers = 0
  BY Zenon, <1>1, FS_EmptySet DEF Init
<1> QED
  BY Zenon, <1>1, <1>2, <1>3 DEF QueueInv, WaiterInv, Distinct, InQueue

(* The queues are always in order.                                          *)
LEMMA QueueAlways == Spec => []QueueInv
PROOF
<1>1. IInv /\ QueueInv /\ [Next]_vars => QueueInv'
  BY Zenon, QueueStep DEF IInv
<1> QED
  BY <1>1, QueueInit, IInvAlways, PTL DEF Spec

(* In whatever order the calls, the wake-ups and the shutdown thread come,  *)
(* a thread is queued once and only where it waits, the assert (0) of       *)
(* csect_wait_on_writer_queue and csect_wait_on_promoter_queue is not       *)
(* reached, and waiting_writers counts the threads that wait.               *)
THEOREM QueuesInOrder == Spec => []QueueDiscipline
PROOF
<1>1. QueueInv => QueueDiscipline
  <2> SUFFICES ASSUME QueueInv PROVE QueueDiscipline
    OBVIOUS
  <2>1. waiting_writers = Cardinality({t \in Threads : pc[t] \in {"writer", "promoter"}})
    BY Zenon DEF QueueInv, Waiting
  <2>2. \A t \in Threads : WaiterInv(t) /\ (t \in Waiting <=> pc[t] \in {"writer", "promoter"})
    BY Zenon DEF QueueInv, Waiting
  <2> QED
    BY Zenon, <2>1, <2>2 DEF QueueInv, WaiterInv, QueueDiscipline, Distinct
<1> QED
  BY <1>1, QueueAlways, PTL

(* What the lock word says of each thread: it is not 0 while one is inside. *)
LockMode ==
  \A t \in Threads : /\ mode[t] = "write" => rwlock < 0
                     /\ mode[t] = "read" => rwlock > 0
                     /\ rwlock = 0 => mode[t] = "none"

(* A writer that demoted itself and holds nothing sleeps until it is        *)
(* promoted.                                                                *)
Sleeps == \A t \in Threads : demoted[t] /\ mode[t] = "none" => pc[t] = "promoter"

(* Whoever the free section is for has been woken.                          *)
WokenUp ==
  /\ \A t \in Threads : owner = t => Awake(t)
  /\ owner = NoThread /\ Waiting # {} => \E t \in Waiting : Awake(t)
  /\ Waiting = {} => \A t \in Threads : pc[t] = "reader" => cond[t]

WakeInv == Sleeps /\ (rwlock = 0 => WokenUp)

(* A demoted writer gives its hold up only to wait for its promotion.       *)
LEMMA SleepsStep ==
  ASSUME FreeCallers = FALSE, TypeOK, Core, Reservation, Sleeps, [Next]_vars
  PROVE  Sleeps'
PROOF
<1> USE DEF csVars, threadVars, callerVars
<1>a. /\ pc \in [Threads -> Blocked \cup {"run"}] /\ mode \in [Threads -> Modes]
      /\ demoted \in [Threads -> BOOLEAN]
  BY Zenon DEF TypeOK
<1>0. CASE UNCHANGED vars
  BY Zenon, <1>0 DEF vars, Sleeps
<1>1. SUFFICES ASSUME NEW t \in Threads,
                 csect_enter(t) \/ csect_enter_as_reader(t) \/ csect_demote(t)
                 \/ csect_promote(t) \/ csect_exit(t) \/ Resume(t) \/ Interrupt(t)
               PROVE  Sleeps'
  BY Zenon, <1>0 DEF Next
<1>2. ASSUME \A u \in Threads \ {t} : /\ UNCHANGED <<pc[u], mode[u]>>
                                      /\ demoted'[u] = demoted[u],
             demoted'[t] /\ mode'[t] = "none" => pc'[t] = "promoter"
      PROVE  Sleeps'
  BY Zenon, <1>2 DEF Sleeps
<1>3. ASSUME UNCHANGED <<pc, mode, demoted>> PROVE Sleeps'
  BY Zenon, <1>3 DEF Sleeps
<1>4. ASSUME TakeWrite(t), \A u \in Threads \ {t} : demoted'[u] = demoted[u]
      PROVE  Sleeps'
  BY Zenon, <1>4, <1>2, <1>a DEF TakeWrite
<1>5. ASSUME NEW x, NEW y, Suspend(t, x, y), UNCHANGED <<mode, demoted>>, ~demoted[t]
      PROVE  Sleeps'
  BY Zenon, <1>5, <1>2, <1>a DEF Suspend
<1>6. CASE csect_enter(t)
  BY Zenon, <1>6, <1>4, <1>5 DEF csect_enter, EnterTakes, EnterWaits, MayEnter
<1>7. CASE csect_enter_as_reader(t)
  <2>1. CASE ReaderTakes(t)
    BY Zenon, <2>1, <1>2, <1>a DEF ReaderTakes, TakeRead
  <2> QED
    BY Zenon, <1>7, <2>1, <1>4, <1>5
    DEF csect_enter_as_reader, ReaderReenters, ReaderWaits, MayEnter
<1>8. CASE csect_demote(t)
  <2>1. mode[t] = "write"
    BY Zenon, <1>8 DEF csect_demote, DemoteWriter, DemoteReader, MayDemote
  <2>2. DemoteWriter(t)
    BY Zenon, <1>8, <2>1, LockFacts DEF csect_demote, DemoteReader
  <2>3. mode' = mode \/ mode' = [mode EXCEPT ![t] = "read"]
    BY Zenon, <2>2 DEF DemoteWriter
  <2>4. mode'[t] # "none" /\ \A u \in Threads \ {t} : mode'[u] = mode[u]
    BY Zenon, <2>1, <2>3, <1>a
  <2> QED
    BY Zenon, <2>2, <2>4, <1>2, <1>a DEF DemoteWriter
<1>9. CASE csect_promote(t)
  <2>1. CASE PromoteTakes(t)
    BY Zenon, <2>1, <1>2, <1>a DEF PromoteTakes
  <2>2. CASE PromoteWaits(t)
    BY Zenon, <2>2, <1>2, <1>a DEF PromoteWaits, Suspend
  <2> QED
    BY Zenon, <1>9, <2>1, <2>2 DEF csect_promote
<1>10. CASE csect_exit(t)
  <2>1. CASE ExitNested(t)
    BY Zenon, <2>1, <1>3 DEF ExitNested
  <2>2. CASE ExitLast(t)
    BY Zenon, <2>2, <1>2, <1>a DEF ExitLast
  <2> QED
    BY Zenon, <1>10, <2>1, <2>2 DEF csect_exit
<1>11. CASE Resume(t)
  <2>1. CASE WriterSleepsOn(t) \/ ReaderResumes(t)
    <3>1. ~demoted[t]
      BY Zenon, <2>1 DEF WriterSleepsOn, ReaderResumes, Reservation
    <3>2. CASE TakeRead(t) /\ demoted' = demoted
      BY Zenon, <3>2, <1>2, <1>a DEF TakeRead
    <3> QED
      BY Zenon, <2>1, <3>1, <3>2, <1>5 DEF WriterSleepsOn, ReaderResumes
  <2>2. CASE WriterTakes(t)
    BY Zenon, <2>2, <1>4 DEF WriterTakes
  <2>3. CASE WriterWaitsAgain(t)
    BY Zenon, <2>3, <1>3 DEF WriterWaitsAgain
  <2>4. CASE PromoterSleepsOn(t) \/ PromoterWaitsAgain(t)
    BY Zenon, <2>4, <1>2, <1>a DEF PromoterSleepsOn, PromoterWaitsAgain, Suspend
  <2>5. CASE PromoterTakes(t)
    BY Zenon, <2>5, <1>4, <1>a DEF PromoterTakes
  <2>6. CASE DemoterResumes(t)
    BY Zenon, <2>6 DEF DemoterResumes, Reservation
  <2> QED
    BY Zenon, <1>11, <2>1, <2>2, <2>3, <2>4, <2>5, <2>6 DEF Resume
<1>12. CASE Interrupt(t)
  BY Zenon, <1>12, <1>3 DEF Interrupt
<1> QED
  BY Zenon, <1>1, <1>6, <1>7, <1>8, <1>9, <1>10, <1>11, <1>12

(* The last thread to leave wakes the thread the section is for.            *)
LEMMA ExitWakes ==
  ASSUME FreeCallers = FALSE, TypeOK, Reservation, QueueInv,
         NEW t \in Threads, ExitLast(t), rwlock' = 0,
         LockMode', Reservation', QueueInv', Sleeps'
  PROVE  WokenUp'
PROOF
<1>1. /\ UNCHANGED <<waiting_writers, pc>> /\ WakeupAfterExit(0, owner')
  BY Zenon DEF ExitLast
<1>2. /\ writersQ \in Seq(Threads) /\ promotersQ \in Seq(Threads)
      /\ cond \in [Threads -> BOOLEAN] /\ NoThread \notin Threads
  BY Zenon, CsectAssumption DEF TypeOK
<1>3. Waiting' = Waiting
  BY Zenon, <1>1 DEF Waiting
<1>4. /\ waiting_writers \in Nat /\ (waiting_writers = 0 <=> Waiting = {})
  BY Zenon, WaitingCount DEF QueueInv
<1>5. waiting_writers > 0 <=> Waiting # {}
  BY <1>4
<1>6. \A u \in Threads : owner' = u => pc[u] = "promoter" /\ u \in Waiting
  BY Zenon, <1>1 DEF Reservation, LockMode, Sleeps, Waiting
<1>7. \A u \in Threads : /\ pc[u] = "promoter" => owner' = u
                         /\ InQueue(u, promotersQ) => pc[u] = "promoter"
                         /\ InQueue(u, writersQ) => pc[u] = "writer"
                         /\ InQueue(u, promotersQ') => pc[u] = "promoter"
                         /\ InQueue(u, writersQ') => pc[u] = "writer"
  BY Zenon, <1>1 DEF Reservation, QueueInv, WaiterInv
<1>8. \A u \in Waiting : ~InQueue(u, writersQ) /\ ~InQueue(u, promotersQ) => cond[u]
  BY Zenon DEF QueueInv, WaiterInv, Waiting
<1>9. CASE Waiting = {}
  <2>1. BroadcastReaders
    BY Zenon, <1>1, <1>5, <1>9 DEF WakeupAfterExit
  <2> QED
    BY Zenon, <1>1, <1>3, <1>6, <1>9, <2>1 DEF WokenUp, BroadcastReaders
<1>10. CASE Waiting # {} /\ owner' # NoThread
  <2>1. csect_wakeup_waiting_promoter /\ writersQ' = writersQ
    BY Zenon, <1>1, <1>5, <1>10 DEF WakeupAfterExit
  <2>2. ASSUME NEW u \in Threads, owner' = u PROVE Awake(u)'
    <3>1. pc[u] = "promoter" /\ u \in Waiting /\ ~InQueue(u, writersQ')
      BY Zenon, <1>6, <1>7, <2>2
    <3>2. CASE promotersQ = <<>>
      <4>1. ~InQueue(u, promotersQ)
        BY <3>2 DEF InQueue
      <4> QED
        BY Zenon, <1>7, <1>8, <2>1, <3>1, <3>2, <4>1
        DEF csect_wakeup_waiting_promoter, Signalled, Dequeued, Awake
    <3>3. CASE promotersQ # <<>>
      <4>1. /\ Head(promotersQ) \in Threads /\ InQueue(Head(promotersQ), promotersQ)
            /\ ~InQueue(Head(promotersQ), Tail(promotersQ))
        BY Zenon, <1>2, <3>3, QueueHead DEF QueueInv
      <4>2. Head(promotersQ) = u
        BY Zenon, <1>7, <2>2, <4>1
      <4> QED
        BY Zenon, <2>1, <3>1, <3>3, <4>1, <4>2
        DEF csect_wakeup_waiting_promoter, Signalled, Dequeued, Awake
    <3> QED
      BY Zenon, <3>2, <3>3
  <2> QED
    BY Zenon, <1>3, <1>10, <2>2 DEF WokenUp
<1>11. CASE Waiting # {} /\ owner' = NoThread
  <2>1. csect_wakeup_waiting_writer /\ promotersQ' = promotersQ
    BY Zenon, <1>1, <1>5, <1>11 DEF WakeupAfterExit
  <2>2. \E u \in Waiting : Awake(u)'
    <3>1. \A u \in Threads : ~InQueue(u, promotersQ) /\ ~InQueue(u, promotersQ')
      BY Zenon, <1>2, <1>7, <1>11, <2>1
    <3>2. CASE writersQ = <<>>
      <4>1. PICK u \in Waiting : TRUE
        BY Zenon, <1>11
      <4>2. ~InQueue(u, writersQ) /\ ~InQueue(u, writersQ') /\ u \in Threads
        BY <2>1, <3>2 DEF csect_wakeup_waiting_writer, Dequeued, InQueue, Waiting
      <4> QED
        BY Zenon, <1>8, <2>1, <3>1, <3>2, <4>2
        DEF csect_wakeup_waiting_writer, Signalled, Awake
    <3>3. CASE writersQ # <<>>
      <4>1. /\ Head(writersQ) \in Threads /\ InQueue(Head(writersQ), writersQ)
            /\ ~InQueue(Head(writersQ), Tail(writersQ))
        BY Zenon, <1>2, <3>3, QueueHead DEF QueueInv
      <4>2. PICK h \in Threads : h = Head(writersQ)
        BY Zenon, <4>1
      <4>3. h \in Waiting
        BY Zenon, <1>7, <4>1, <4>2 DEF Waiting
      <4>4. Awake(h)'
        BY Zenon, <2>1, <3>1, <3>3, <4>1, <4>2
        DEF csect_wakeup_waiting_writer, Signalled, Dequeued, Awake
      <4> QED
        BY Zenon, <4>3, <4>4
    <3> QED
      BY Zenon, <3>2, <3>3
  <2> QED
    BY Zenon, <1>2, <1>3, <1>11, <2>2 DEF WokenUp
<1> QED
  BY Zenon, <1>9, <1>10, <1>11

(* While the section stays free, a thread that goes to sleep leaves the     *)
(* woken thread awake, or is not the one the section is for.                *)
LEMMA SleepKeepsAwake ==
  ASSUME FreeCallers = FALSE, TypeOK, Core, Reservation, QueueInv, WakeInv,
         NEW t \in Threads, rwlock = 0, rwlock' = 0,
         \/ EnterWaits(t) \/ ReaderWaits(t) \/ ReaderResumes(t)
         \/ WriterSleepsOn(t) \/ WriterWaitsAgain(t)
         \/ PromoterSleepsOn(t) \/ PromoterWaitsAgain(t) \/ Interrupt(t)
  PROVE  WokenUp'
PROOF
<1> USE DEF csVars, threadVars, callerVars
<1>1. /\ writersQ \in Seq(Threads) /\ promotersQ \in Seq(Threads)
      /\ pc \in [Threads -> Blocked \cup {"run"}]
      /\ cond \in [Threads -> BOOLEAN] /\ NoThread \notin Threads
      /\ owner \in Threads \cup {NoThread}
  BY Zenon, CsectAssumption DEF TypeOK
<1>2. WokenUp /\ ~(rwlock < 0)
  <2>1. ~(rwlock < 0)
    OBVIOUS
  <2> QED
    BY Zenon, <2>1 DEF WakeInv
<1>3. \A u \in Threads : owner = u => pc[u] = "promoter" /\ Awake(u)
  <2>1. \A u \in Threads : mode[u] = "none"
    BY Zenon, LockFacts
  <2> QED
    BY Zenon, <1>2, <2>1 DEF WokenUp, WakeInv, Sleeps, Reservation
<1>4. ASSUME owner' = owner, owner # NoThread, Waiting' # {},
             \A u \in Threads : owner = u => Awake(u)'
      PROVE  WokenUp'
  BY Zenon, <1>1, <1>4 DEF WokenUp
<1>5. ASSUME owner' = owner, t \in Waiting, Waiting' = Waiting,
             \A u \in Threads : Awake(u) => Awake(u)'
      PROVE  WokenUp'
  BY Zenon, <1>2, <1>5 DEF WokenUp, Waiting
<1>6. CASE EnterWaits(t)
  <2>1. owner # NoThread /\ owner' = owner /\ promotersQ' = promotersQ
        /\ writersQ' = Append(writersQ, t) /\ pc[t] = "run"
    BY Zenon, <1>6 DEF EnterWaits, WriterMayGo, MayEnter
  <2>2. pc'[t] = "writer" /\ \A u \in Threads \ {t} : cond'[u] = cond[u]
    BY Zenon, <1>1, <1>6 DEF EnterWaits, Suspend
  <2>3. ASSUME NEW u \in Threads, owner = u PROVE Awake(u)'
    <3>1. u # t /\ Awake(u)
      BY Zenon, <1>3, <2>1, <2>3
    <3> QED
      BY Zenon, <1>1, <2>1, <2>2, <3>1, QueueAppend DEF Awake
  <2>4. Waiting' # {}
    BY Zenon, <2>2 DEF Waiting
  <2> QED
    BY Zenon, <1>4, <2>1, <2>3, <2>4
<1>7. CASE WriterWaitsAgain(t)
  <2>1. /\ owner # NoThread /\ owner' = owner /\ pc' = pc /\ pc[t] = "writer"
        /\ writersQ' = Append(writersQ, t)
    BY Zenon, <1>7 DEF WriterWaitsAgain, WriterResumes, WriterMayGo
  <2>2. PICK q : /\ promotersQ' = IF q = <<>> THEN promotersQ ELSE Tail(promotersQ)
                 /\ q = <<>> \/ q = promotersQ
                 /\ cond' = [Signalled(q) EXCEPT ![t] = FALSE]
    BY Zenon, <1>7 DEF WriterWaitsAgain
  <2>3. ASSUME NEW u \in Threads, owner = u PROVE Awake(u)'
    <3>1. u # t /\ Awake(u)
      BY Zenon, <1>3, <2>1, <2>3
    <3>2. cond'[u]
      BY Zenon, <2>2, <3>1 DEF Signalled, Awake
    <3>3. ~InQueue(u, writersQ')
      BY Zenon, <1>1, <2>1, <3>1, QueueAppend DEF Awake
    <3>4. ~InQueue(u, promotersQ')
      <4>1. CASE q = <<>>
        BY Zenon, <2>2, <3>1, <4>1 DEF Awake
      <4>2. CASE q # <<>>
        BY Zenon, <1>1, <2>2, <3>1, <4>2, QueueHead DEF QueueInv, Awake
      <4> QED
        BY Zenon, <4>1, <4>2
    <3> QED
      BY Zenon, <3>2, <3>3, <3>4 DEF Awake
  <2>4. Waiting' # {}
    BY Zenon, <2>1 DEF Waiting
  <2> QED
    BY Zenon, <1>4, <2>1, <2>3, <2>4
<1>8. CASE ReaderWaits(t) \/ ReaderResumes(t)
  <2>1. ~TakeRead(t)
    BY DEF TakeRead
  <2>2. /\ ~ReaderMayGo /\ Suspend(t, "reader", "READER_SUSPENDED")
        /\ UNCHANGED <<owner, writersQ, promotersQ>> /\ t \notin Waiting
    BY Zenon, <1>8, <2>1 DEF ReaderWaits, ReaderResumes, MayEnter, Waiting
  <2>3. waiting_writers > 0 /\ owner = NoThread
    BY Zenon, <1>2, <2>2 DEF ReaderMayGo
  <2>4. waiting_writers # 0
    BY <2>3
  <2>5. Waiting # {}
    BY Zenon, <2>4, WaitingCount DEF QueueInv
  <2>6. PICK v \in Waiting : Awake(v)
    BY Zenon, <1>2, <2>3, <2>5 DEF WokenUp
  <2>7. v # t /\ v \in Threads /\ cond'[v] = cond[v] /\ pc'[v] = pc[v]
    BY Zenon, <1>1, <2>2, <2>6 DEF Suspend, Waiting
  <2>8. v \in Waiting' /\ Awake(v)'
    BY Zenon, <2>2, <2>6, <2>7 DEF Waiting, Awake
  <2> QED
    BY Zenon, <1>1, <2>2, <2>3, <2>8 DEF WokenUp
<1>9. CASE WriterSleepsOn(t) \/ PromoterSleepsOn(t)
  <2>1. /\ UNCHANGED <<owner, writersQ, promotersQ>> /\ t \in Waiting /\ ~Awake(t)
    BY Zenon, <1>9 DEF WriterSleepsOn, PromoterSleepsOn, Waiting, Awake
  <2>2. /\ \A u \in Threads \ {t} : cond'[u] = cond[u] /\ pc'[u] = pc[u]
        /\ pc'[t] = pc[t]
    BY Zenon, <1>1, <1>9 DEF WriterSleepsOn, PromoterSleepsOn, Suspend
  <2>3. Waiting' = Waiting
    BY Zenon, <2>2 DEF Waiting
  <2> QED
    BY Zenon, <1>5, <2>1, <2>2, <2>3 DEF Awake
<1>10. CASE PromoterWaitsAgain(t)
  BY Zenon, <1>10 DEF PromoterWaitsAgain, PromoterMayGo
<1>11. CASE Interrupt(t)
  <2>1. /\ UNCHANGED <<owner, writersQ, promotersQ, pc>> /\ t \in Waiting
        /\ \A u \in Threads : cond[u] => cond'[u]
    BY Zenon, <1>1, <1>11 DEF Interrupt, Waiting
  <2>2. Waiting' = Waiting
    BY Zenon, <2>1 DEF Waiting
  <2> QED
    BY Zenon, <1>5, <2>1, <2>2 DEF Awake
<1> QED
  BY Zenon, <1>6, <1>7, <1>8, <1>9, <1>10, <1>11

(* Every step keeps the thread the section is for awake.                    *)
LEMMA WakeStep ==
  ASSUME FreeCallers = FALSE, TypeOK, Core, Reservation, QueueInv, WakeInv,
         [Next]_vars, LockMode', Reservation', QueueInv'
  PROVE  WakeInv'
PROOF
<1> USE DEF csVars, threadVars, callerVars
<1>1. Sleeps'
  BY Zenon, SleepsStep DEF WakeInv
<1>2. SUFFICES ASSUME rwlock' = 0 PROVE WokenUp'
  BY Zenon, <1>1 DEF WakeInv
<1>3. CASE UNCHANGED vars
  <2>1. rwlock = 0
    BY Zenon, <1>2, <1>3 DEF vars
  <2>2. Waiting' = Waiting /\ \A u \in Threads : Awake(u)' <=> Awake(u)
    BY Zenon, <1>3 DEF vars, Waiting, Awake
  <2>3. owner' = owner /\ pc' = pc /\ cond' = cond
    BY Zenon, <1>3 DEF vars
  <2>4. WokenUp
    BY Zenon, <2>1 DEF WakeInv
  <2> QED
    BY Zenon, <2>2, <2>3, <2>4 DEF WokenUp, Waiting
<1>4. SUFFICES ASSUME NEW t \in Threads,
                 csect_enter(t) \/ csect_enter_as_reader(t) \/ csect_demote(t)
                 \/ csect_promote(t) \/ csect_exit(t) \/ Resume(t) \/ Interrupt(t)
               PROVE  WokenUp'
  BY Zenon, <1>3 DEF Next
<1>5. mode \in [Threads -> Modes] /\ rwlock \in Int /\ mode'[t] = "none"
  BY Zenon, <1>2 DEF TypeOK, LockMode
<1>6. ~TakeWrite(t) /\ ~TakeRead(t) /\ ~PromoteTakes(t)
  BY Zenon, <1>5 DEF TakeWrite, TakeRead, PromoteTakes
<1>7. ~PromoteWaits(t)
  BY Zenon, <1>2 DEF PromoteWaits, PromoterMayGo
<1>8. ~ExitNested(t)
  BY <1>2, <1>5 DEF ExitNested
<1>9. ~csect_demote(t)
  <2>1. SUFFICES ASSUME csect_demote(t) PROVE FALSE
    OBVIOUS
  <2>2. mode[t] = "write"
    BY Zenon, <2>1 DEF csect_demote, DemoteWriter, DemoteReader, MayDemote
  <2>3. DemoteWriter(t)
    BY Zenon, <2>1, <2>2, LockFacts DEF csect_demote, DemoteReader
  <2>4. mode' = mode \/ mode' = [mode EXCEPT ![t] = "read"]
    BY Zenon, <2>3 DEF DemoteWriter
  <2> QED
    BY Zenon, <1>5, <2>2, <2>4
<1>10. ~DemoterResumes(t)
  BY Zenon DEF DemoterResumes, Reservation
<1>11. CASE ExitLast(t)
  BY Zenon, <1>1, <1>2, <1>11, ExitWakes
<1>12. CASE \/ EnterWaits(t) \/ ReaderWaits(t) \/ ReaderResumes(t)
            \/ WriterSleepsOn(t) \/ WriterWaitsAgain(t)
            \/ PromoterSleepsOn(t) \/ PromoterWaitsAgain(t) \/ Interrupt(t)
  <2>1. rwlock' = rwlock
    BY Zenon, <1>6, <1>12
    DEF EnterWaits, ReaderWaits, ReaderResumes, WriterSleepsOn, WriterWaitsAgain,
        PromoterSleepsOn, PromoterWaitsAgain, Interrupt
  <2>2. rwlock = 0
    BY Zenon, <1>2, <2>1
  <2> QED
    BY Zenon, <1>2, <1>12, <2>2, SleepKeepsAwake
<1>13. /\ ~EnterTakes(t) /\ ~ReaderReenters(t) /\ ~ReaderTakes(t) /\ ~WriterTakes(t)
       /\ ~PromoterTakes(t)
  BY Zenon, <1>6 DEF EnterTakes, ReaderReenters, ReaderTakes, WriterTakes, PromoterTakes
<1> QED
  BY Zenon, <1>4, <1>6, <1>7, <1>8, <1>9, <1>10, <1>11, <1>12, <1>13
  DEF csect_enter, csect_enter_as_reader, csect_promote, csect_exit, Resume

(* When the section is free and threads sleep, one of them has been woken   *)
(* and taken out of its queue: no order of exits, demotions, promotions,    *)
(* entries and shutdown interrupts loses the wake-up of                     *)
(* csect_exit_critical_section.                                             *)
THEOREM WakeupsNotLost ==
  ASSUME FreeCallers = FALSE
  PROVE  Spec => []NoLostWakeup
PROOF
<1>1. IInv => LockMode
  <2> SUFFICES ASSUME IInv PROVE LockMode
    OBVIOUS
  <2> QED
    BY Zenon, LockFacts DEF IInv, LockMode
<1>2. Init => WakeInv
  <2> SUFFICES ASSUME Init PROVE WakeInv
    OBVIOUS
  <2> QED
    BY Zenon, CsectAssumption DEF Init, WakeInv, Sleeps, WokenUp, Waiting
<1>3. IInv /\ Reservation /\ QueueInv /\ WakeInv /\ [Next]_vars
        /\ LockMode' /\ Reservation' /\ QueueInv' => WakeInv'
  BY Zenon, WakeStep DEF IInv
<1>4. Spec => []WakeInv
  BY <1>1, <1>2, <1>3, IInvAlways, ReservationKept, QueueAlways, PTL DEF Spec
<1>5. IInv /\ LockMode /\ Reservation /\ QueueInv /\ WakeInv => NoLostWakeup
  <2> SUFFICES ASSUME IInv, LockMode, Reservation, QueueInv, WakeInv, rwlock = 0,
                      NEW t \in Threads, pc[t] # "run"
               PROVE  \E u \in Threads : pc[u] # "run" /\ Awake(u)
    BY Zenon DEF NoLostWakeup, Awake
  <2>1. pc[t] \in Blocked \cup {"run"} /\ owner \in Threads \cup {NoThread}
    BY Zenon DEF IInv, TypeOK
  <2>2. WokenUp
    BY Zenon DEF WakeInv
  <2>3. CASE owner \in Threads
    <3>1. pc[owner] = "promoter"
      BY Zenon, <2>3 DEF LockMode, WakeInv, Sleeps, Reservation
    <3> QED
      BY Zenon, <2>2, <2>3, <3>1 DEF WokenUp
  <2>4. CASE owner = NoThread /\ Waiting # {}
    BY Zenon, <2>2, <2>4 DEF WokenUp, Waiting
  <2>5. CASE Waiting = {}
    <3>1. pc[t] = "reader"
      BY Zenon, <2>1, <2>5 DEF Waiting, Blocked, Reservation
    <3>2. cond[t] /\ ~InQueue(t, writersQ) /\ ~InQueue(t, promotersQ)
      BY Zenon, <2>2, <2>5, <3>1 DEF WokenUp, QueueInv, WaiterInv
    <3> QED
      BY Zenon, <3>1, <3>2 DEF Awake
  <2> QED
    BY Zenon, <2>1, <2>3, <2>4, <2>5
<1> QED
  BY <1>1, <1>4, <1>5, IInvAlways, ReservationKept, QueueAlways, PTL
=============================================================================
