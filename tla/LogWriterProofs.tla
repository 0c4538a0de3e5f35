-------------------------- MODULE LogWriterProofs --------------------------
(***************************************************************************)
(* Proofs about the flush and the log writers, for any number of writers,   *)
(* of flushing threads and of pages, whatever fails and also while the      *)
(* server stops.                                                            *)
(***************************************************************************)
EXTENDS LogWriter, TLAPS

Threads == Writers \cup Flushers

(* Where a flush is while it waits for the writers it has marked.           *)
Marked == {"flushing", "flushed", "ending", "endwait"}

(* What each thread holds of LOG_CS at each place.                          *)
FlusherHolds(f) ==
  /\ fpc[f] = "idle" => csMode[f] = "none" /\ ~csReserved[f]
  /\ fpc[f] \in {"start", "exit"} => csMode[f] = "write" /\ ~csReserved[f]
  /\ fpc[f] \in Marked \cup {"demoted"} => csMode[f] = "read" /\ csReserved[f]
  /\ fpc[f] = "promote" => csMode[f] \in {"none", "read"} /\ csReserved[f]

WriterHolds(w) ==
  /\ ~csReserved[w]
  /\ csMode[w] = IF pc[w] \in {"delayed!", "seteof!"} THEN "write"
                 ELSE IF pc[w] = "pack!" THEN "read" ELSE "none"

(* One writer of LOG_CS, and one thread that has demoted itself.            *)
Exclusive ==
  \A t, u \in Threads : t # u =>
    /\ csMode[t] = "write" => csMode[u] = "none" /\ ~csReserved[u]
    /\ csReserved[t] => ~csReserved[u]

LockInv ==
  /\ \A f \in Flushers : FlusherHolds(f)
  /\ \A w \in Writers : WriterHolds(w)
  /\ Exclusive

(* What the flush knows of the disk.                                        *)
DiskInv ==
  /\ nxio_lsa <= eof_lsa
  /\ \A f \in Flushers :
       /\ fpc[f] \in {"flushed", "ending", "endwait"} => nxio_lsa = eof_lsa
       /\ fpc[f] \in {"flushing", "flushed"} => ~flush_completed

(* Where a writer can be while its entry is waiting, or is not.             *)
Asleep == {"suspending", "suspended", "awake", "timedout", "delayed?",
           "delayed!", "enddelay", "error"}

EntryInv(w) ==
  /\ status[w] = "WAIT" => pc[w] \in Asleep
  /\ pc[w] \in {"register", "out"} => status[w] \notin {"WAIT", "FETCH"}
  /\ pc[w] \in {"send", "reply"} /\ ~endAfterSend[w] =>
       status[w] \notin {"WAIT", "FETCH"}
  /\ pc[w] \notin {"send", "reply", "error", "out"} => endAfterSend[w]
  /\ pc[w] \in {"suspending", "suspended", "awake"} /\ resume[w] = "LOGWR_RESUMED" =>
       status[w] = "FETCH"

(* No page is packed beyond the end of the log, and not all of it when the  *)
(* writer stays behind.                                                     *)
PageInv(w) ==
  /\ packed[w].lpageid <= eof_lsa /\ entryEof[w] <= eof_lsa
  /\ packed[w].status = "DELAY" => packed[w].lpageid < eof_lsa

IInv ==
  /\ TypeOK /\ LockInv /\ DiskInv
  /\ \A w \in Writers : EntryInv(w) /\ PageInv(w)
  /\ NoLostEndSignal /\ NoneFetchingAfter /\ FetchedIsDurable

USE DEF Threads

(* A copier asks for pages of the log only.                                 *)
LEMMA RequestType ==
  ASSUME NEW last \in 0 .. MaxLsa, NEW sync \in BOOLEAN,
         sync \/ last = 0 \/ last < MaxLsa,
         NEW r \in Requests(last, sync)
  PROVE  r \in [fpageid : 0 .. MaxLsa, mode : {"ASYNC", "SYNC"}]
PROOF
<1> USE LogWriterAssumption DEF Requests, HeaderPage
<1>1. CASE last = 0
  BY <1>1
<1>2. CASE last # 0 /\ sync
  BY <1>2
<1>3. CASE last # 0 /\ ~sync
  BY <1>3
<1> QED
  BY <1>1, <1>2, <1>3

(* Every step is a step of one flusher, of one writer, or the decision to   *)
(* stop.                                                                    *)
LEMMA TypeStep ==
  ASSUME IInv, Next
  PROVE  TypeOK'
PROOF
<1> USE LogWriterAssumption DEF TypeOK, FlusherPcs, WriterPcs, Statuses, Resumes, csVars, logVars, entryVars, callVars, stopVars, NullLsa, HeaderPage
<1> TypeOK BY Zenon DEF IInv
<1>1. ASSUME NEW f \in Flushers, FlushEnter(f) PROVE TypeOK'
  BY <1>1 DEF FlushEnter, LogCs!Write
<1>2. ASSUME NEW f \in Flushers, FlushNothing(f) PROVE TypeOK'
  BY <1>2 DEF FlushNothing
<1>3. ASSUME NEW f \in Flushers, FlushStart(f) PROVE TypeOK'
  BY <1>3 DEF FlushStart, LogCs!StepBack
<1>4. ASSUME NEW f \in Flushers, FlushMark(f) PROVE TypeOK'
  <2>1. round' \in [Writers -> 0 .. MaxLsa]
    BY <1>4 DEF FlushMark, Min
  <2>2. status' \in [Writers -> Statuses] /\ resume' \in [Writers -> Resumes]
    BY <1>4 DEF FlushMark
  <2>3. pc' \in [Writers -> WriterPcs] /\ fpc' \in [Flushers -> FlusherPcs]
    BY <1>4 DEF FlushMark
  <2> QED
    BY Zenon, <1>4, <2>1, <2>2, <2>3 DEF FlushMark
<1>5. ASSUME NEW f \in Flushers, FlushWrite(f) PROVE TypeOK'
  BY <1>5 DEF FlushWrite
<1>6. ASSUME NEW f \in Flushers, FlushCompleted(f) PROVE TypeOK'
  BY <1>6 DEF FlushCompleted
<1>7. ASSUME NEW f \in Flushers, FlushEnd(f) PROVE TypeOK'
  BY <1>7 DEF FlushEnd
<1>8. ASSUME NEW f \in Flushers, FlushPromote(f) PROVE TypeOK'
  <2>1. CASE LogCs!StepForward(f) /\ fpc' = [fpc EXCEPT ![f] = "exit"]
    <3>1. csReserved' \in [Threads -> BOOLEAN]
      BY <2>1 DEF LogCs!StepForward
    <3> QED
      BY Zenon, <1>8, <2>1, <3>1 DEF FlushPromote, LogCs!StepForward
  <2>2. CASE LogCs!StepAside(f) /\ UNCHANGED fpc
    BY Zenon, <1>8, <2>2 DEF FlushPromote, LogCs!StepAside
  <2> QED
    BY Zenon, <1>8, <2>1, <2>2 DEF FlushPromote
<1>9. ASSUME NEW f \in Flushers, FlushExit(f) PROVE TypeOK'
  BY Zenon, <1>9 DEF FlushExit, LogCs!Leave
<1>10. ASSUME NEW w \in Writers, Connect(w) PROVE TypeOK'
  <2>1. PICK r \in Requests(copied[w], TRUE)
                     \cup [fpageid : {HeaderPage}, mode : {"ASYNC"}] :
          /\ req' = [req EXCEPT ![w] = r]
          /\ origMode' = [origMode EXCEPT ![w] = r.mode]
    BY Zenon, <1>10 DEF Connect
  <2>2. r \in [fpageid : 0 .. MaxLsa, mode : {"ASYNC", "SYNC"}]
    <3>1. CASE r \in Requests(copied[w], TRUE)
      BY Zenon, <3>1, RequestType
    <3>2. CASE r \in [fpageid : {HeaderPage}, mode : {"ASYNC"}]
      BY <3>2
    <3> QED
      BY Zenon, <3>1, <3>2
  <2>3. req' \in [Writers -> [fpageid : 0 .. MaxLsa, mode : {"ASYNC", "SYNC"}]]
        /\ origMode' \in [Writers -> {"ASYNC", "SYNC"}]
    BY <2>1, <2>2
  <2>4. endAfterSend' \in [Writers -> BOOLEAN]
    BY Zenon, <1>10 DEF Connect
  <2>5. interrupt' \in [Writers -> BOOLEAN]
    BY Zenon, <1>10 DEF Connect
  <2>6. resume' \in [Writers -> Resumes] /\ pc' \in [Writers -> WriterPcs]
    BY Zenon, <1>10 DEF Connect, Resume, Goto
  <2> QED
    BY Zenon, <1>10, <2>3, <2>4, <2>5, <2>6 DEF Connect
<1>11. ASSUME NEW w \in Writers, Register(w) PROVE TypeOK'
  <2>1. status' \in [Writers -> Statuses] /\ pc' \in [Writers -> WriterPcs]
        /\ resume' \in [Writers -> Resumes]
    <3>1. CASE status[w] \in {"NONE", "DELAY"}
      <4>1. /\ status' = [status EXCEPT ![w] = "DELAY"]
            /\ pc' = [pc EXCEPT ![w] = "seteof?"]
            /\ resume' = resume
        BY <1>11, <3>1, Zenon DEF Register, Goto
      <4> QED
        BY <4>1
    <3>2. CASE status[w] \notin {"NONE", "DELAY"}
      <4>1. /\ status' = [status EXCEPT ![w] = "WAIT"]
            /\ pc' = [pc EXCEPT ![w] = "suspending"]
            /\ resume' = [resume EXCEPT ![w] = "LOGWR_SUSPENDED"]
        BY <1>11, <3>2, Zenon DEF Register, Resume, Goto
      <4> QED
        BY Zenon, <4>1
    <3> QED
      BY Zenon, <3>1, <3>2
  <2>2. /\ entryEof' \in [Writers -> 0 .. MaxLsa]
        /\ lastSent' \in [Writers -> 0 .. MaxLsa]
    <3>1. CASE status[w] = "NONE"
      <4>1. /\ entryEof' = [entryEof EXCEPT ![w] = NullLsa]
            /\ lastSent' = [lastSent EXCEPT ![w] = NullLsa]
        BY <1>11, <3>1, Zenon DEF Register
      <4> QED
        BY <4>1
    <3>2. CASE status[w] # "NONE"
      BY <1>11, <3>2 DEF Register
    <3> QED
      BY Zenon, <3>1, <3>2
  <2> QED
    BY Zenon, <1>11, <2>1, <2>2 DEF Register
<1>12. ASSUME NEW w \in Writers, Suspend(w) PROVE TypeOK'
  BY Zenon, <1>12 DEF Suspend, Goto
<1>13. ASSUME NEW w \in Writers, Timeout(w) PROVE TypeOK'
  BY Zenon, <1>13 DEF Timeout, Goto
<1>14. ASSUME NEW w \in Writers, UnregisterTimedOut(w) PROVE TypeOK'
  BY <1>14 DEF UnregisterTimedOut, Unregister, Goto
<1>15. ASSUME NEW w \in Writers, Woken(w) PROVE TypeOK'
  BY Zenon, <1>15 DEF Woken, Goto
<1>16. ASSUME NEW w \in Writers, SetEofEnter(w) PROVE TypeOK'
  <2>1. resume' \in [Writers -> Resumes]
    <3>1. AfterLogCs(w)
      BY Zenon, <1>16 DEF SetEofEnter
    <3> QED
      BY Zenon, <3>1 DEF AfterLogCs, Resume
  <2>2. pc' \in [Writers -> WriterPcs]
    <3>1. \/ pc' = [pc EXCEPT ![w] = "delayed!"]
          \/ pc' = [pc EXCEPT ![w] = "seteof!"]
      BY <1>16, Zenon DEF SetEofEnter, Goto
    <3> QED
      BY Zenon, <3>1
  <2> QED
    BY Zenon, <1>16, <2>1, <2>2 DEF SetEofEnter, LogCs!Write
<1>17. ASSUME NEW w \in Writers, SetEof(w) PROVE TypeOK'
  <2>1. pc' \in [Writers -> WriterPcs]
    <3>1. \/ pc' = [pc EXCEPT ![w] = "delayed?"]
          \/ pc' = [pc EXCEPT ![w] = "pack?"]
      BY <1>17, Zenon DEF SetEof, Goto
    <3> QED
      BY Zenon, <3>1
  <2> QED
    <3>1. entryEof' \in [Writers -> 0 .. MaxLsa]
      BY <1>17 DEF SetEof
    <3>2. csMode' \in [Threads -> {"none", "read", "write"}]
          /\ csReserved' = csReserved
      BY Zenon, <1>17 DEF SetEof, LogCs!Leave
    <3> QED
      BY Zenon, <1>17, <2>1, <3>1, <3>2 DEF SetEof
<1>18. ASSUME NEW w \in Writers, SetEofNot(w) PROVE TypeOK'
  BY Zenon, <1>18 DEF SetEofNot, Goto
<1>19. ASSUME NEW w \in Writers, IsDelayed(w) PROVE TypeOK'
  BY Zenon, <1>19 DEF IsDelayed, Goto
<1>20. ASSUME NEW w \in Writers, EndDelay(w) PROVE TypeOK'
  BY Zenon, <1>20 DEF EndDelay, Unregister, Goto
<1>21. ASSUME NEW w \in Writers, PackEnter(w) PROVE TypeOK'
  <2>1. resume' \in [Writers -> Resumes]
    BY Zenon, <1>21 DEF PackEnter, AfterLogCs, Resume
  <2> QED
    BY Zenon, <1>21, <2>1 DEF PackEnter, LogCs!Read, Goto
<1>22. ASSUME NEW w \in Writers, Pack(w) PROVE TypeOK'
  <2>1. LastPage(w) \in 0 .. MaxLsa
    BY DEF LastPage, PackEof, Min
  <2>2. packed' \in [Writers -> [lpageid : 0 .. MaxLsa, status : {"DONE", "DELAY"}]]
    BY <1>22, <2>1 DEF Pack
  <2> QED
    BY Zenon, <1>22, <2>2 DEF Pack, LogCs!Leave, Goto
<1>23. ASSUME NEW w \in Writers, Copy(w) PROVE TypeOK'
  <2>1. resume' \in [Writers -> Resumes]
    BY Zenon, <1>23 DEF Copy, AfterLogCs, Resume
  <2> QED
    BY Zenon, <1>23, <2>1 DEF Copy, Goto
<1>24. ASSUME NEW w \in Writers, PackFails(w) PROVE TypeOK'
  <2>1. csMode' \in [Threads -> {"none", "read", "write"}]
        /\ csReserved' = csReserved
    BY <1>24 DEF PackFails, LogCs!Leave
  <2> QED
    BY Zenon, <1>24, <2>1 DEF PackFails, Goto
<1>25. ASSUME NEW w \in Writers, WaitFlush(w) PROVE TypeOK'
  BY Zenon, <1>25 DEF WaitFlush, Goto
<1>26. ASSUME NEW w \in Writers, Ready(w) PROVE TypeOK'
  <2>1. CASE EndsBeforeSend(w)
    <3>1. status' \in [Writers -> Statuses] /\ fpc' \in [Flushers -> FlusherPcs]
      <4>1. packed[w].status \in Statuses /\ Unregister(w, packed[w].status)
        BY Zenon, <1>26, <2>1 DEF Ready
      <4> QED
        BY Zenon, <4>1 DEF Unregister
    <3>2. endAfterSend' \in [Writers -> BOOLEAN]
      BY Zenon, <1>26, <2>1 DEF Ready
    <3> QED
      BY Zenon, <1>26, <3>1, <3>2 DEF Ready, Goto
  <2>2. CASE ~EndsBeforeSend(w)
    BY <1>26, <2>2 DEF Ready, Goto
  <2> QED
    BY Zenon, <2>1, <2>2
<1>27. ASSUME NEW w \in Writers, Send(w) PROVE TypeOK'
  BY Zenon, <1>27 DEF Send, Goto
<1>28. ASSUME NEW w \in Writers, Reply(w) PROVE TypeOK'
  <2>1. PICK r \in Requests(packed[w].lpageid, packed[w].status = "DONE") :
          /\ req' = [req EXCEPT ![w] = r]
          /\ origMode' = [origMode EXCEPT ![w] = MaxMode(r.mode, @)]
    BY Zenon, <1>28 DEF Reply
  <2>2. packed[w].status = "DONE" \/ packed[w].lpageid < MaxLsa
    BY DEF IInv, PageInv
  <2>3. r \in [fpageid : 0 .. MaxLsa, mode : {"ASYNC", "SYNC"}]
    BY Zenon, <2>2, RequestType
  <2>4. req' \in [Writers -> [fpageid : 0 .. MaxLsa, mode : {"ASYNC", "SYNC"}]]
        /\ origMode' \in [Writers -> {"ASYNC", "SYNC"}]
    BY Zenon, <2>1, <2>3 DEF MaxMode
  <2>5. endAfterSend' \in [Writers -> BOOLEAN]
    BY Zenon, <1>28 DEF Reply
  <2>6. resume' \in [Writers -> Resumes]
    BY Zenon, <1>28 DEF Reply, AfterLogCs, Resume
  <2>7. pc' \in [Writers -> WriterPcs] /\ lastSent' \in [Writers -> 0 .. MaxLsa]
    BY Zenon, <1>28 DEF Reply, Goto
  <2> QED
    BY Zenon, <1>28, <2>4, <2>5, <2>6, <2>7 DEF Reply
<1>29. ASSUME NEW w \in Writers, SendFails(w) PROVE TypeOK'
  BY Zenon, <1>29 DEF SendFails, Goto
<1>30. ASSUME NEW w \in Writers, End(w) PROVE TypeOK'
  BY Zenon, <1>30 DEF End, Unregister, Goto
<1>31. ASSUME NEW w \in Writers, Error(w) PROVE TypeOK'
  BY <1>31 DEF Error, Unregister, Goto
<1>32. ASSUME NEW w \in Writers, ConnDown(w) PROVE TypeOK'
  <2>1. interrupt' \in [Writers -> BOOLEAN]
    BY Zenon, <1>32 DEF ConnDown
  <2>2. pc' \in [Writers -> WriterPcs] /\ resume' \in [Writers -> Resumes]
    <3>1. InterruptSuspended(w) \/ UNCHANGED <<pc, resume>>
      BY <1>32, Zenon DEF ConnDown
    <3>2. CASE InterruptSuspended(w)
      <4>1. resume' \in [Writers -> Resumes]
        BY Zenon, <3>2 DEF InterruptSuspended, Resume
      <4>2. pc' \in [Writers -> WriterPcs]
        BY Zenon, <3>2 DEF InterruptSuspended, Goto
      <4> QED
        BY Zenon, <4>1, <4>2
    <3>3. CASE UNCHANGED <<pc, resume>>
      BY Zenon, <3>3
    <3> QED
      BY Zenon, <3>1, <3>2, <3>3
  <2> QED
    BY Zenon, <1>32, <2>1, <2>2 DEF ConnDown
<1>33. ASSUME NEW w \in Writers, StopInterrupt(w) PROVE TypeOK'
  BY Zenon, <1>33 DEF StopInterrupt, InterruptSuspended, Resume, Goto
<1>34. StopServer => TypeOK'
  BY DEF StopServer
<1> QED
  BY Zenon, <1>1, <1>2, <1>3, <1>4, <1>5, <1>6, <1>7, <1>8, <1>9, <1>10, <1>11,
     <1>12, <1>13, <1>14, <1>15, <1>16, <1>17, <1>18, <1>19, <1>20, <1>21,
     <1>22, <1>23, <1>24, <1>25, <1>26, <1>27, <1>28, <1>29, <1>30, <1>31,
     <1>32, <1>33, <1>34 DEF Next, Flush, Serve, UsesLogCs


-----------------------------------------------------------------------------
(* LOG_CS.                                                                  *)
Holding == {"delayed!", "seteof!", "pack!"}

(* What LOG_CS promises: one thread writes, one thread has it reserved.     *)
LEMMA LogCsExclusive ==
  ASSUME TypeOK, Exclusive, NEW t \in Threads,
         \/ LogCs!Read(t) \/ LogCs!Write(t) \/ LogCs!Leave(t)
         \/ LogCs!StepBack(t) \/ LogCs!StepAside(t) \/ LogCs!StepForward(t)
  PROVE  Exclusive'
PROOF
<1> USE DEF TypeOK, Exclusive
<1>1. CASE LogCs!Read(t)
  BY <1>1 DEF LogCs!Read
<1>2. CASE LogCs!Write(t)
  BY <1>2 DEF LogCs!Write, LogCs!OthersOut, LogCs!NotReserved
<1>3. CASE LogCs!Leave(t)
  BY <1>3 DEF LogCs!Leave
<1>4. CASE LogCs!StepBack(t)
  BY <1>4 DEF LogCs!StepBack
<1>5. CASE LogCs!StepAside(t)
  BY <1>5 DEF LogCs!StepAside
<1>6. CASE LogCs!StepForward(t)
  BY <1>6 DEF LogCs!StepForward, LogCs!OthersOut
<1> QED
  BY <1>1, <1>2, <1>3, <1>4, <1>5, <1>6

(* A step that leaves LOG_CS alone moves no thread in or out of it.         *)
LEMMA LogCsUnused ==
  ASSUME LockInv, UNCHANGED csVars,
         \A w \in Writers :
           pc'[w] = pc[w] \/ (pc[w] \notin Holding /\ pc'[w] \notin Holding),
         \A f \in Flushers :
           \/ fpc'[f] = fpc[f]
           \/ fpc[f] = "start" /\ fpc'[f] = "exit"
           \/ fpc[f] \in Marked \cup {"demoted"} /\ fpc'[f] \in Marked \cup {"promote"}
  PROVE  LockInv'
PROOF
<1> USE DEF LockInv, csVars
<1>1. ASSUME NEW f \in Flushers PROVE FlusherHolds(f)'
  BY DEF FlusherHolds, Marked
<1>2. ASSUME NEW w \in Writers PROVE WriterHolds(w)'
  BY DEF WriterHolds, Holding
<1>3. Exclusive'
  BY DEF Exclusive
<1> QED
  BY <1>1, <1>2, <1>3

LEMMA LockStep ==
  ASSUME IInv, Next
  PROVE  LockInv'
PROOF
<1> USE LogWriterAssumption
<1> TypeOK /\ LockInv BY Zenon DEF IInv
<1> fpc \in [Flushers -> FlusherPcs] /\ pc \in [Writers -> WriterPcs] BY DEF TypeOK
<1>1. ASSUME NEW f \in Flushers, FlushEnter(f) PROVE LockInv'
  <2>1. Exclusive'
    BY <1>1, LogCsExclusive DEF LockInv, FlushEnter
  <2>2. ASSUME NEW g \in Flushers PROVE FlusherHolds(g)'
    BY <1>1 DEF TypeOK, LockInv, FlusherHolds, WriterHolds, Marked, FlushEnter,
       LogCs!Write
  <2>3. ASSUME NEW u \in Writers PROVE WriterHolds(u)'
    BY <1>1 DEF TypeOK, LockInv, FlusherHolds, WriterHolds, Marked, FlushEnter,
       LogCs!Write
  <2> QED
    BY <2>1, <2>2, <2>3 DEF LockInv
<1>2. ASSUME NEW f \in Flushers, FlushNothing(f) PROVE LockInv'
  BY <1>2, LogCsUnused DEF FlushNothing, csVars, Holding, Marked
<1>3. ASSUME NEW f \in Flushers, FlushStart(f) PROVE LockInv'
  <2>1. Exclusive'
    BY <1>3, LogCsExclusive DEF LockInv, FlushStart
  <2>2. ASSUME NEW g \in Flushers PROVE FlusherHolds(g)'
    BY <1>3 DEF TypeOK, LockInv, FlusherHolds, WriterHolds, Marked, FlushStart,
       LogCs!StepBack
  <2>3. ASSUME NEW u \in Writers PROVE WriterHolds(u)'
    BY <1>3 DEF TypeOK, LockInv, FlusherHolds, WriterHolds, Marked, FlushStart,
       LogCs!StepBack
  <2> QED
    BY <2>1, <2>2, <2>3 DEF LockInv
<1>4. ASSUME NEW f \in Flushers, FlushMark(f) PROVE LockInv'
  BY <1>4, LogCsUnused DEF FlushMark, csVars, Holding, Marked
<1>5. ASSUME NEW f \in Flushers, FlushWrite(f) PROVE LockInv'
  BY <1>5, LogCsUnused DEF FlushWrite, csVars, Holding, Marked
<1>6. ASSUME NEW f \in Flushers, FlushCompleted(f) PROVE LockInv'
  BY <1>6, LogCsUnused DEF FlushCompleted, csVars, Holding, Marked
<1>7. ASSUME NEW f \in Flushers, FlushEnd(f) PROVE LockInv'
  BY <1>7, LogCsUnused DEF FlushEnd, csVars, Holding, Marked
<1>8. ASSUME NEW f \in Flushers, FlushPromote(f) PROVE LockInv'
  <2>1. Exclusive'
    BY <1>8, LogCsExclusive DEF LockInv, FlushPromote
  <2>2. ASSUME NEW g \in Flushers PROVE FlusherHolds(g)'
    BY <1>8 DEF TypeOK, LockInv, FlusherHolds, WriterHolds, Marked,
       FlushPromote, LogCs!StepForward, LogCs!StepAside, LogCs!OthersOut
  <2>3. ASSUME NEW u \in Writers PROVE WriterHolds(u)'
    BY <1>8 DEF TypeOK, LockInv, FlusherHolds, WriterHolds, Marked,
       FlushPromote, LogCs!StepForward, LogCs!StepAside, LogCs!OthersOut
  <2> QED
    BY <2>1, <2>2, <2>3 DEF LockInv
<1>9. ASSUME NEW f \in Flushers, FlushExit(f) PROVE LockInv'
  <2>1. Exclusive'
    BY <1>9, LogCsExclusive DEF LockInv, FlushExit
  <2>2. ASSUME NEW g \in Flushers PROVE FlusherHolds(g)'
    BY Zenon, <1>9 DEF TypeOK, LockInv, FlusherHolds, WriterHolds, Marked,
       FlushExit, LogCs!Leave
  <2>3. ASSUME NEW u \in Writers PROVE WriterHolds(u)'
    BY Zenon, <1>9 DEF TypeOK, LockInv, FlusherHolds, WriterHolds, Marked,
       FlushExit, LogCs!Leave
  <2> QED
    BY <2>1, <2>2, <2>3 DEF LockInv
<1>10. ASSUME NEW w \in Writers, Connect(w) PROVE LockInv'
  BY <1>10, LogCsUnused DEF Connect, Goto, csVars, Holding, Marked
<1>11. ASSUME NEW w \in Writers, Register(w) PROVE LockInv'
  BY <1>11, LogCsUnused DEF Register, Goto, csVars, Holding, Marked
<1>12. ASSUME NEW w \in Writers, Suspend(w) PROVE LockInv'
  BY <1>12, LogCsUnused DEF Suspend, Goto, csVars, Holding, Marked
<1>13. ASSUME NEW w \in Writers, Timeout(w) PROVE LockInv'
  BY <1>13, LogCsUnused DEF Timeout, Goto, csVars, Holding, Marked
<1>14. ASSUME NEW w \in Writers, UnregisterTimedOut(w) PROVE LockInv'
  BY <1>14, LogCsUnused DEF UnregisterTimedOut, Goto, Unregister, csVars, Holding, Marked
<1>15. ASSUME NEW w \in Writers, Woken(w) PROVE LockInv'
  BY <1>15, LogCsUnused DEF Woken, Goto, csVars, Holding, Marked
<1>16. ASSUME NEW w \in Writers, SetEofEnter(w) PROVE LockInv'
  <2>1. Exclusive'
    BY Zenon, <1>16, LogCsExclusive DEF LockInv, SetEofEnter
  <2>2. ASSUME NEW g \in Flushers PROVE FlusherHolds(g)'
    <3>1. g # w
      BY Zenon
    <3>2. csMode'[g] = csMode[g] /\ csReserved'[g] = csReserved[g] /\ fpc'[g] = fpc[g]
      BY Zenon, <1>16, <3>1 DEF TypeOK, SetEofEnter, LogCs!Write
    <3> QED
      BY Zenon, <3>2 DEF LockInv, FlusherHolds
  <2>3. ASSUME NEW u \in Writers PROVE WriterHolds(u)'
    BY Zenon, <1>16 DEF TypeOK, LockInv, FlusherHolds, WriterHolds, Marked,
       SetEofEnter, LogCs!Write, Goto
  <2> QED
    BY <2>1, <2>2, <2>3 DEF LockInv
<1>17. ASSUME NEW w \in Writers, SetEof(w) PROVE LockInv'
  <2>1. Exclusive'
    BY <1>17, LogCsExclusive DEF LockInv, SetEof
  <2>2. ASSUME NEW g \in Flushers PROVE FlusherHolds(g)'
    <3>1. g # w
      BY Zenon
    <3>2. csMode'[g] = csMode[g] /\ csReserved'[g] = csReserved[g] /\ fpc'[g] = fpc[g]
      BY Zenon, <1>17, <3>1 DEF TypeOK, SetEof, LogCs!Leave
    <3> QED
      BY Zenon, <3>2 DEF LockInv, FlusherHolds
  <2>3. ASSUME NEW u \in Writers PROVE WriterHolds(u)'
    BY <1>17 DEF TypeOK, LockInv, FlusherHolds, WriterHolds, Marked, SetEof,
       LogCs!Leave, Goto
  <2> QED
    BY <2>1, <2>2, <2>3 DEF LockInv
<1>18. ASSUME NEW w \in Writers, SetEofNot(w) PROVE LockInv'
  BY <1>18, LogCsUnused DEF SetEofNot, Goto, csVars, Holding, Marked
<1>19. ASSUME NEW w \in Writers, IsDelayed(w) PROVE LockInv'
  BY <1>19, LogCsUnused DEF IsDelayed, Goto, csVars, Holding, Marked
<1>20. ASSUME NEW w \in Writers, EndDelay(w) PROVE LockInv'
  BY <1>20, LogCsUnused DEF EndDelay, Goto, Unregister, csVars, Holding, Marked
<1>21. ASSUME NEW w \in Writers, PackEnter(w) PROVE LockInv'
  <2>1. Exclusive'
    BY <1>21, LogCsExclusive DEF LockInv, PackEnter
  <2>2. ASSUME NEW g \in Flushers PROVE FlusherHolds(g)'
    <3>1. g # w
      BY Zenon
    <3>2. csMode'[g] = csMode[g] /\ csReserved'[g] = csReserved[g] /\ fpc'[g] = fpc[g]
      BY Zenon, <1>21, <3>1 DEF TypeOK, PackEnter, LogCs!Read
    <3> QED
      BY Zenon, <3>2 DEF LockInv, FlusherHolds
  <2>3. ASSUME NEW u \in Writers PROVE WriterHolds(u)'
    BY Zenon, <1>21 DEF TypeOK, LockInv, FlusherHolds, WriterHolds, Marked,
       PackEnter, LogCs!Read, Goto
  <2> QED
    BY <2>1, <2>2, <2>3 DEF LockInv
<1>22. ASSUME NEW w \in Writers, Pack(w) PROVE LockInv'
  <2>1. Exclusive'
    BY Zenon, <1>22, LogCsExclusive DEF LockInv, Pack
  <2>2. ASSUME NEW g \in Flushers PROVE FlusherHolds(g)'
    <3>1. g # w
      BY Zenon
    <3>2. csMode'[g] = csMode[g] /\ csReserved'[g] = csReserved[g] /\ fpc'[g] = fpc[g]
      BY Zenon, <1>22, <3>1 DEF TypeOK, Pack, LogCs!Leave
    <3> QED
      BY Zenon, <3>2 DEF LockInv, FlusherHolds
  <2>3. ASSUME NEW u \in Writers PROVE WriterHolds(u)'
    BY Zenon, <1>22 DEF TypeOK, LockInv, FlusherHolds, WriterHolds, Marked,
       Pack, LogCs!Leave, Goto
  <2> QED
    BY <2>1, <2>2, <2>3 DEF LockInv
<1>23. ASSUME NEW w \in Writers, Copy(w) PROVE LockInv'
  BY <1>23, LogCsUnused DEF Copy, Goto, csVars, Holding, Marked
<1>24. ASSUME NEW w \in Writers, PackFails(w) PROVE LockInv'
  <2>1. CASE pc[w] = "pack!" /\ LogCs!Leave(w)
    <3>1. Exclusive'
      BY <2>1, LogCsExclusive DEF LockInv
    <3>2. ASSUME NEW g \in Flushers PROVE FlusherHolds(g)'
      BY Zenon, <1>24, <2>1 DEF TypeOK, LockInv, FlusherHolds, Marked,
         PackFails, LogCs!Leave
    <3>3. ASSUME NEW u \in Writers PROVE WriterHolds(u)'
      BY Zenon, <1>24, <2>1 DEF TypeOK, LockInv, WriterHolds, PackFails, LogCs!Leave, Goto
    <3> QED
      BY <3>1, <3>2, <3>3 DEF LockInv
  <2>2. CASE pc[w] = "copy" /\ UNCHANGED csVars
    BY <1>24, <2>2, LogCsUnused DEF PackFails, Goto, Holding
  <2> QED
    BY <1>24, <2>1, <2>2 DEF PackFails
<1>25. ASSUME NEW w \in Writers, WaitFlush(w) PROVE LockInv'
  BY Zenon, <1>25, LogCsUnused DEF WaitFlush, Goto, csVars, Holding, Marked
<1>26. ASSUME NEW w \in Writers, Ready(w) PROVE LockInv'
  BY Zenon, <1>26, LogCsUnused DEF Ready, Goto, Unregister, csVars, Holding, Marked
<1>27. ASSUME NEW w \in Writers, Send(w) PROVE LockInv'
  BY Zenon, <1>27, LogCsUnused DEF Send, Goto, csVars, Holding, Marked
<1>28. ASSUME NEW w \in Writers, Reply(w) PROVE LockInv'
  BY Zenon, <1>28, LogCsUnused DEF Reply, Goto, csVars, Holding, Marked
<1>29. ASSUME NEW w \in Writers, SendFails(w) PROVE LockInv'
  BY <1>29, LogCsUnused DEF SendFails, Goto, csVars, Holding, Marked
<1>30. ASSUME NEW w \in Writers, End(w) PROVE LockInv'
  BY Zenon, <1>30, LogCsUnused DEF End, Goto, Unregister, csVars, Holding, Marked
<1>31. ASSUME NEW w \in Writers, Error(w) PROVE LockInv'
  BY Zenon, <1>31, LogCsUnused DEF Error, Goto, Unregister, csVars, Holding, Marked
<1>32. ASSUME NEW w \in Writers, ConnDown(w) PROVE LockInv'
  BY Zenon, <1>32, LogCsUnused DEF ConnDown, Goto, InterruptSuspended, csVars,
     Holding, Marked
<1>33. ASSUME NEW w \in Writers, StopInterrupt(w) PROVE LockInv'
  BY Zenon, <1>33, LogCsUnused DEF StopInterrupt, Goto, InterruptSuspended,
     csVars, Holding, Marked
<1>34. StopServer => LockInv'
  BY Zenon, LogCsUnused DEF StopServer, csVars
<1> QED
  BY Zenon, <1>1, <1>2, <1>3, <1>4, <1>5, <1>6, <1>7, <1>8, <1>9, <1>10, <1>11,
     <1>12, <1>13, <1>14, <1>15, <1>16, <1>17, <1>18, <1>19, <1>20, <1>21,
     <1>22, <1>23, <1>24, <1>25, <1>26, <1>27, <1>28, <1>29, <1>30, <1>31,
     <1>32, <1>33, <1>34 DEF Next, Flush, Serve, UsesLogCs

-----------------------------------------------------------------------------
(* Two flushes never overlap: a flusher that is not idle keeps the others   *)
(* out of LOG_CS, also after it has demoted itself.                         *)
LEMMA OneFlusher ==
  ASSUME LockInv, TypeOK, NEW f \in Flushers, NEW g \in Flushers, f # g,
         fpc[f] # "idle"
  PROVE  fpc[g] = "idle"
PROOF
<1> USE DEF TypeOK, FlusherPcs, LockInv
<1>1. csMode[f] = "write" \/ csReserved[f]
  BY Zenon DEF FlusherHolds, Marked
<1>2. csMode[g] # "write" /\ ~csReserved[g]
  BY <1>1 DEF Exclusive
<1> QED
  BY Zenon, <1>2 DEF FlusherHolds, Marked

(* The disk.                                                                *)
LEMMA DiskStep ==
  ASSUME IInv, Next
  PROVE  DiskInv'
PROOF
<1> USE LogWriterAssumption DEF DiskInv, logVars
<1> TypeOK /\ LockInv /\ DiskInv BY Zenon DEF IInv
<1> fpc \in [Flushers -> FlusherPcs] /\ eof_lsa \in 1 .. MaxLsa /\ nxio_lsa \in 1 .. MaxLsa
  BY DEF TypeOK
<1>1. ASSUME NEW f \in Flushers, FlushEnter(f) PROVE DiskInv'
  BY <1>1, OneFlusher DEF FlushEnter
<1>2. ASSUME NEW f \in Flushers, FlushNothing(f) PROVE DiskInv'
  BY <1>2, OneFlusher DEF FlushNothing
<1>3. ASSUME NEW f \in Flushers, FlushStart(f) PROVE DiskInv'
  BY <1>3, OneFlusher DEF FlushStart
<1>4. ASSUME NEW f \in Flushers, FlushMark(f) PROVE DiskInv'
  BY Zenon, <1>4, OneFlusher DEF FlushMark
<1>5. ASSUME NEW f \in Flushers, FlushWrite(f) PROVE DiskInv'
  BY <1>5, OneFlusher DEF FlushWrite
<1>6. ASSUME NEW f \in Flushers, FlushCompleted(f) PROVE DiskInv'
  BY <1>6, OneFlusher DEF FlushCompleted
<1>7. ASSUME NEW f \in Flushers, FlushEnd(f) PROVE DiskInv'
  BY <1>7, OneFlusher DEF FlushEnd
<1>8. ASSUME NEW f \in Flushers, FlushPromote(f) PROVE DiskInv'
  BY <1>8, OneFlusher DEF FlushPromote
<1>9. ASSUME NEW f \in Flushers, FlushExit(f) PROVE DiskInv'
  BY <1>9, OneFlusher DEF FlushExit
<1>10. ASSUME NEW w \in Writers, Connect(w) PROVE DiskInv'
  BY Zenon, <1>10 DEF Connect
<1>11. ASSUME NEW w \in Writers, Register(w) PROVE DiskInv'
  BY Zenon, <1>11 DEF Register
<1>12. ASSUME NEW w \in Writers, Suspend(w) PROVE DiskInv'
  BY Zenon, <1>12 DEF Suspend
<1>13. ASSUME NEW w \in Writers, Timeout(w) PROVE DiskInv'
  BY Zenon, <1>13 DEF Timeout
<1>14. ASSUME NEW w \in Writers, UnregisterTimedOut(w) PROVE DiskInv'
  BY Zenon, <1>14 DEF UnregisterTimedOut, Unregister
<1>15. ASSUME NEW w \in Writers, Woken(w) PROVE DiskInv'
  BY Zenon, <1>15 DEF Woken
<1>16. ASSUME NEW w \in Writers, SetEofEnter(w) PROVE DiskInv'
  BY Zenon, <1>16 DEF SetEofEnter
<1>17. ASSUME NEW w \in Writers, SetEof(w) PROVE DiskInv'
  BY <1>17 DEF SetEof
<1>18. ASSUME NEW w \in Writers, SetEofNot(w) PROVE DiskInv'
  BY Zenon, <1>18 DEF SetEofNot
<1>19. ASSUME NEW w \in Writers, IsDelayed(w) PROVE DiskInv'
  BY Zenon, <1>19 DEF IsDelayed
<1>20. ASSUME NEW w \in Writers, EndDelay(w) PROVE DiskInv'
  BY Zenon, <1>20 DEF EndDelay, Unregister
<1>21. ASSUME NEW w \in Writers, PackEnter(w) PROVE DiskInv'
  BY Zenon, <1>21 DEF PackEnter
<1>22. ASSUME NEW w \in Writers, Pack(w) PROVE DiskInv'
  BY Zenon, <1>22 DEF Pack
<1>23. ASSUME NEW w \in Writers, Copy(w) PROVE DiskInv'
  BY Zenon, <1>23 DEF Copy
<1>24. ASSUME NEW w \in Writers, PackFails(w) PROVE DiskInv'
  BY Zenon, <1>24 DEF PackFails
<1>25. ASSUME NEW w \in Writers, WaitFlush(w) PROVE DiskInv'
  BY Zenon, <1>25 DEF WaitFlush
<1>26. ASSUME NEW w \in Writers, Ready(w) PROVE DiskInv'
  BY Zenon, <1>26 DEF Ready, Unregister
<1>27. ASSUME NEW w \in Writers, Send(w) PROVE DiskInv'
  BY Zenon, <1>27 DEF Send
<1>28. ASSUME NEW w \in Writers, Reply(w) PROVE DiskInv'
  BY Zenon, <1>28 DEF Reply
<1>29. ASSUME NEW w \in Writers, SendFails(w) PROVE DiskInv'
  BY Zenon, <1>29 DEF SendFails
<1>30. ASSUME NEW w \in Writers, End(w) PROVE DiskInv'
  BY Zenon, <1>30 DEF End, Unregister
<1>31. ASSUME NEW w \in Writers, Error(w) PROVE DiskInv'
  BY <1>31 DEF Error, Unregister
<1>32. ASSUME NEW w \in Writers, ConnDown(w) PROVE DiskInv'
  BY Zenon, <1>32 DEF ConnDown
<1>33. ASSUME NEW w \in Writers, StopInterrupt(w) PROVE DiskInv'
  BY Zenon, <1>33 DEF StopInterrupt
<1>34. ASSUME StopServer PROVE DiskInv'
  BY Zenon, <1>34 DEF StopServer
<1> QED
  BY Zenon, <1>1, <1>2, <1>3, <1>4, <1>5, <1>6, <1>7, <1>8, <1>9, <1>10, <1>11,
     <1>12, <1>13, <1>14, <1>15, <1>16, <1>17, <1>18, <1>19, <1>20, <1>21,
     <1>22, <1>23, <1>24, <1>25, <1>26, <1>27, <1>28, <1>29, <1>30, <1>31,
     <1>32, <1>33, <1>34 DEF Next, Flush, Serve, UsesLogCs

(* The entries of the writers.                                              *)
LEMMA EntryStep ==
  ASSUME IInv, Next, NEW u \in Writers
  PROVE  EntryInv(u)'
PROOF
<1> USE LogWriterAssumption DEF EntryInv, Asleep, entryVars, callVars
<1> TypeOK /\ EntryInv(u) BY Zenon DEF IInv
<1> /\ pc \in [Writers -> WriterPcs] /\ status \in [Writers -> Statuses]
    /\ resume \in [Writers -> Resumes] /\ endAfterSend \in [Writers -> BOOLEAN]
    /\ packed \in [Writers -> [lpageid : 0 .. MaxLsa, status : {"DONE", "DELAY"}]]
  BY Zenon DEF TypeOK
<1>1. ASSUME NEW f \in Flushers, FlushEnter(f) PROVE EntryInv(u)'
  BY Zenon, <1>1 DEF FlushEnter
<1>2. ASSUME NEW f \in Flushers, FlushNothing(f) PROVE EntryInv(u)'
  BY Zenon, <1>2 DEF FlushNothing
<1>3. ASSUME NEW f \in Flushers, FlushStart(f) PROVE EntryInv(u)'
  BY Zenon, <1>3 DEF FlushStart
<1>4. ASSUME NEW f \in Flushers, FlushMark(f) PROVE EntryInv(u)'
  BY Zenon, <1>4 DEF FlushMark
<1>5. ASSUME NEW f \in Flushers, FlushWrite(f) PROVE EntryInv(u)'
  BY Zenon, <1>5 DEF FlushWrite
<1>6. ASSUME NEW f \in Flushers, FlushCompleted(f) PROVE EntryInv(u)'
  BY Zenon, <1>6 DEF FlushCompleted
<1>7. ASSUME NEW f \in Flushers, FlushEnd(f) PROVE EntryInv(u)'
  BY Zenon, <1>7 DEF FlushEnd
<1>8. ASSUME NEW f \in Flushers, FlushPromote(f) PROVE EntryInv(u)'
  BY Zenon, <1>8 DEF FlushPromote
<1>9. ASSUME NEW f \in Flushers, FlushExit(f) PROVE EntryInv(u)'
  BY Zenon, <1>9 DEF FlushExit
<1>10. ASSUME NEW w \in Writers, Connect(w) PROVE EntryInv(u)'
  BY Zenon, <1>10 DEF Connect, Goto, Resume
<1>11. ASSUME NEW w \in Writers, Register(w) PROVE EntryInv(u)'
  BY <1>11 DEF Register, Goto, Resume
<1>12. ASSUME NEW w \in Writers, Suspend(w) PROVE EntryInv(u)'
  BY <1>12 DEF Suspend, Goto
<1>13. ASSUME NEW w \in Writers, Timeout(w) PROVE EntryInv(u)'
  BY Zenon, <1>13 DEF Timeout, Goto
<1>14. ASSUME NEW w \in Writers, UnregisterTimedOut(w) PROVE EntryInv(u)'
  BY Zenon, <1>14 DEF UnregisterTimedOut, Goto, Unregister
<1>15. ASSUME NEW w \in Writers, Woken(w) PROVE EntryInv(u)'
  BY Zenon, <1>15 DEF Woken, Goto
<1>16. ASSUME NEW w \in Writers, SetEofEnter(w) PROVE EntryInv(u)'
  BY Zenon, <1>16 DEF SetEofEnter, Goto, AfterLogCs, Resume
<1>17. ASSUME NEW w \in Writers, SetEof(w) PROVE EntryInv(u)'
  BY Zenon, <1>17 DEF SetEof, Goto
<1>18. ASSUME NEW w \in Writers, SetEofNot(w) PROVE EntryInv(u)'
  BY Zenon, <1>18 DEF SetEofNot, Goto
<1>19. ASSUME NEW w \in Writers, IsDelayed(w) PROVE EntryInv(u)'
  BY Zenon, <1>19 DEF IsDelayed, Goto
<1>20. ASSUME NEW w \in Writers, EndDelay(w) PROVE EntryInv(u)'
  BY Zenon, <1>20 DEF EndDelay, Goto, Unregister
<1>21. ASSUME NEW w \in Writers, PackEnter(w) PROVE EntryInv(u)'
  BY Zenon, <1>21 DEF PackEnter, Goto, AfterLogCs, Resume
<1>22. ASSUME NEW w \in Writers, Pack(w) PROVE EntryInv(u)'
  BY Zenon, <1>22 DEF Pack, Goto
<1>23. ASSUME NEW w \in Writers, Copy(w) PROVE EntryInv(u)'
  BY Zenon, <1>23 DEF Copy, Goto, AfterLogCs, Resume
<1>24. ASSUME NEW w \in Writers, PackFails(w) PROVE EntryInv(u)'
  BY Zenon, <1>24 DEF PackFails, Goto
<1>25. ASSUME NEW w \in Writers, WaitFlush(w) PROVE EntryInv(u)'
  BY Zenon, <1>25 DEF WaitFlush, Goto
<1>26. ASSUME NEW w \in Writers, Ready(w) PROVE EntryInv(u)'
  <2>1. CASE EndsBeforeSend(w)
    <3>1. /\ status' = [status EXCEPT ![w] = packed[w].status]
          /\ endAfterSend' = [endAfterSend EXCEPT ![w] = FALSE]
      BY <1>26, <2>1, Zenon DEF Ready, Unregister
    <3>2. packed[w].status \notin {"WAIT", "FETCH"}
      BY Zenon
    <3> QED
      BY Zenon, <1>26, <3>1, <3>2 DEF Ready, Goto
  <2>2. CASE ~EndsBeforeSend(w)
    <3>1. pc[w] = "ready" /\ status' = status /\ endAfterSend' = endAfterSend
      BY Zenon, <1>26, <2>2 DEF Ready
    <3>2. EntryInv(w)
      BY Zenon DEF IInv
    <3>3. status[w] # "WAIT" /\ endAfterSend[w]
      BY Zenon, <3>1, <3>2
    <3> QED
      BY Zenon, <1>26, <3>1, <3>3 DEF Ready, Goto
  <2> QED
    BY Zenon, <2>1, <2>2
<1>27. ASSUME NEW w \in Writers, Send(w) PROVE EntryInv(u)'
  BY Zenon, <1>27 DEF Send, Goto
<1>28. ASSUME NEW w \in Writers, Reply(w) PROVE EntryInv(u)'
  BY Zenon, <1>28 DEF Reply, Goto, AfterLogCs, Resume
<1>29. ASSUME NEW w \in Writers, SendFails(w) PROVE EntryInv(u)'
  BY Zenon, <1>29 DEF SendFails, Goto
<1>30. ASSUME NEW w \in Writers, End(w) PROVE EntryInv(u)'
  BY Zenon, <1>30 DEF End, Goto, Unregister
<1>31. ASSUME NEW w \in Writers, Error(w) PROVE EntryInv(u)'
  BY Zenon, <1>31 DEF Error, Goto, Unregister
<1>32. ASSUME NEW w \in Writers, ConnDown(w) PROVE EntryInv(u)'
  BY Zenon, <1>32 DEF ConnDown, Goto, InterruptSuspended, Resume
<1>33. ASSUME NEW w \in Writers, StopInterrupt(w) PROVE EntryInv(u)'
  BY Zenon, <1>33 DEF StopInterrupt, Goto, InterruptSuspended, Resume
<1>34. ASSUME StopServer PROVE EntryInv(u)'
  BY Zenon, <1>34 DEF StopServer
<1> QED
  BY Zenon, <1>1, <1>2, <1>3, <1>4, <1>5, <1>6, <1>7, <1>8, <1>9, <1>10, <1>11,
     <1>12, <1>13, <1>14, <1>15, <1>16, <1>17, <1>18, <1>19, <1>20, <1>21,
     <1>22, <1>23, <1>24, <1>25, <1>26, <1>27, <1>28, <1>29, <1>30, <1>31,
     <1>32, <1>33, <1>34 DEF Next, Flush, Serve, UsesLogCs

(* The pages that are packed.                                               *)
LEMMA PageStep ==
  ASSUME IInv, Next, NEW u \in Writers
  PROVE  PageInv(u)'
PROOF
<1> USE LogWriterAssumption DEF PageInv, entryVars, callVars, logVars, NullLsa, HeaderPage
<1> TypeOK /\ PageInv(u) BY Zenon DEF IInv
<1> /\ eof_lsa \in 1 .. MaxLsa /\ entryEof \in [Writers -> 0 .. MaxLsa]
    /\ req \in [Writers -> [fpageid : 0 .. MaxLsa, mode : {"ASYNC", "SYNC"}]]
    /\ packed \in [Writers -> [lpageid : 0 .. MaxLsa, status : {"DONE", "DELAY"}]]
  BY Zenon DEF TypeOK
<1>1. ASSUME NEW f \in Flushers, FlushEnter(f) PROVE PageInv(u)'
  BY Zenon, <1>1 DEF FlushEnter
<1>2. ASSUME NEW f \in Flushers, FlushNothing(f) PROVE PageInv(u)'
  BY Zenon, <1>2 DEF FlushNothing
<1>3. ASSUME NEW f \in Flushers, FlushStart(f) PROVE PageInv(u)'
  <2>1. packed' = packed /\ entryEof' = entryEof
    BY <1>3, Zenon DEF FlushStart
  <2>2. eof_lsa' \in Nat /\ eof_lsa' > eof_lsa
    BY <1>3 DEF FlushStart
  <2> QED
    BY <2>1, <2>2
<1>4. ASSUME NEW f \in Flushers, FlushMark(f) PROVE PageInv(u)'
  BY Zenon, <1>4 DEF FlushMark
<1>5. ASSUME NEW f \in Flushers, FlushWrite(f) PROVE PageInv(u)'
  BY Zenon, <1>5 DEF FlushWrite
<1>6. ASSUME NEW f \in Flushers, FlushCompleted(f) PROVE PageInv(u)'
  BY Zenon, <1>6 DEF FlushCompleted
<1>7. ASSUME NEW f \in Flushers, FlushEnd(f) PROVE PageInv(u)'
  BY Zenon, <1>7 DEF FlushEnd
<1>8. ASSUME NEW f \in Flushers, FlushPromote(f) PROVE PageInv(u)'
  BY Zenon, <1>8 DEF FlushPromote
<1>9. ASSUME NEW f \in Flushers, FlushExit(f) PROVE PageInv(u)'
  BY Zenon, <1>9 DEF FlushExit
<1>10. ASSUME NEW w \in Writers, Connect(w) PROVE PageInv(u)'
  BY Zenon, <1>10 DEF Connect
<1>11. ASSUME NEW w \in Writers, Register(w) PROVE PageInv(u)'
  BY <1>11 DEF Register
<1>12. ASSUME NEW w \in Writers, Suspend(w) PROVE PageInv(u)'
  BY Zenon, <1>12 DEF Suspend
<1>13. ASSUME NEW w \in Writers, Timeout(w) PROVE PageInv(u)'
  BY Zenon, <1>13 DEF Timeout
<1>14. ASSUME NEW w \in Writers, UnregisterTimedOut(w) PROVE PageInv(u)'
  BY Zenon, <1>14 DEF UnregisterTimedOut
<1>15. ASSUME NEW w \in Writers, Woken(w) PROVE PageInv(u)'
  BY Zenon, <1>15 DEF Woken
<1>16. ASSUME NEW w \in Writers, SetEofEnter(w) PROVE PageInv(u)'
  BY Zenon, <1>16 DEF SetEofEnter
<1>17. ASSUME NEW w \in Writers, SetEof(w) PROVE PageInv(u)'
  BY <1>17 DEF SetEof
<1>18. ASSUME NEW w \in Writers, SetEofNot(w) PROVE PageInv(u)'
  BY Zenon, <1>18 DEF SetEofNot
<1>19. ASSUME NEW w \in Writers, IsDelayed(w) PROVE PageInv(u)'
  BY Zenon, <1>19 DEF IsDelayed
<1>20. ASSUME NEW w \in Writers, EndDelay(w) PROVE PageInv(u)'
  BY Zenon, <1>20 DEF EndDelay
<1>21. ASSUME NEW w \in Writers, PackEnter(w) PROVE PageInv(u)'
  BY Zenon, <1>21 DEF PackEnter
<1>22. ASSUME NEW w \in Writers, Pack(w) PROVE PageInv(u)'
  <2>1. /\ packed'[u] = packed[u] \/ u = w
        /\ entryEof' = entryEof /\ eof_lsa' = eof_lsa
    BY Zenon, <1>22 DEF Pack
  <2>2. CASE u = w
    <3> DEFINE hdrOnly == req[w].fpageid = HeaderPage
    <3>1. /\ packed'[w].lpageid = IF hdrOnly THEN 0 ELSE LastPage(w)
          /\ packed'[w].status = IF ~hdrOnly /\ LastPage(w) >= PackEof(w)
                                   THEN "DONE" ELSE "DELAY"
      BY Zenon, <1>22 DEF Pack
    <3>2. /\ PackEof(w) \in 1 .. MaxLsa /\ PackEof(w) <= eof_lsa
          /\ LastPage(w) \in Int /\ LastPage(w) <= PackEof(w)
      BY <2>2 DEF PackEof, LastPage, Min
    <3>3. /\ packed'[w].lpageid <= eof_lsa
          /\ packed'[w].status = "DELAY" => packed'[w].lpageid < eof_lsa
      BY <3>1, <3>2
    <3> QED
      BY Zenon, <2>1, <2>2, <3>3
  <2>3. CASE u # w
    BY Zenon, <2>1, <2>3
  <2> QED
    BY Zenon, <2>2, <2>3
<1>23. ASSUME NEW w \in Writers, Copy(w) PROVE PageInv(u)'
  BY Zenon, <1>23 DEF Copy
<1>24. ASSUME NEW w \in Writers, PackFails(w) PROVE PageInv(u)'
  BY Zenon, <1>24 DEF PackFails
<1>25. ASSUME NEW w \in Writers, WaitFlush(w) PROVE PageInv(u)'
  BY Zenon, <1>25 DEF WaitFlush
<1>26. ASSUME NEW w \in Writers, Ready(w) PROVE PageInv(u)'
  BY Zenon, <1>26 DEF Ready
<1>27. ASSUME NEW w \in Writers, Send(w) PROVE PageInv(u)'
  BY Zenon, <1>27 DEF Send
<1>28. ASSUME NEW w \in Writers, Reply(w) PROVE PageInv(u)'
  BY Zenon, <1>28 DEF Reply
<1>29. ASSUME NEW w \in Writers, SendFails(w) PROVE PageInv(u)'
  BY Zenon, <1>29 DEF SendFails
<1>30. ASSUME NEW w \in Writers, End(w) PROVE PageInv(u)'
  BY Zenon, <1>30 DEF End
<1>31. ASSUME NEW w \in Writers, Error(w) PROVE PageInv(u)'
  BY Zenon, <1>31 DEF Error
<1>32. ASSUME NEW w \in Writers, ConnDown(w) PROVE PageInv(u)'
  BY Zenon, <1>32 DEF ConnDown
<1>33. ASSUME NEW w \in Writers, StopInterrupt(w) PROVE PageInv(u)'
  BY Zenon, <1>33 DEF StopInterrupt
<1>34. ASSUME StopServer PROVE PageInv(u)'
  BY Zenon, <1>34 DEF StopServer
<1> QED
  BY Zenon, <1>1, <1>2, <1>3, <1>4, <1>5, <1>6, <1>7, <1>8, <1>9, <1>10, <1>11,
     <1>12, <1>13, <1>14, <1>15, <1>16, <1>17, <1>18, <1>19, <1>20, <1>21,
     <1>22, <1>23, <1>24, <1>25, <1>26, <1>27, <1>28, <1>29, <1>30, <1>31,
     <1>32, <1>33, <1>34 DEF Next, Flush, Serve, UsesLogCs

(* The hand-over at the end of a flush: a step that marks no writer and     *)
(* lets no flush go on waiting or stop waiting.                             *)
LEMMA EndUnused ==
  ASSUME NoLostEndSignal, NoneFetchingAfter, Fetching' = Fetching,
         \A f \in Flushers : /\ fpc'[f] \in Marked <=> fpc[f] \in Marked
                             /\ fpc'[f] = "endwait" => fpc[f] = "endwait"
  PROVE  NoLostEndSignal' /\ NoneFetchingAfter'
PROOF
  BY Zenon DEF NoLostEndSignal, NoneFetchingAfter, Marked

(* A writer that unregisters is no longer fetching, and releases a flush    *)
(* that waits when it was the last one.                                     *)
LEMMA EndUnregister ==
  ASSUME TypeOK, NoLostEndSignal, NoneFetchingAfter,
         NEW w \in Writers, NEW st, st # "FETCH", Unregister(w, st)
  PROVE  NoLostEndSignal' /\ NoneFetchingAfter'
PROOF
<1>1. Fetching' = Fetching \ {w}
  BY Zenon DEF TypeOK, Fetching, Unregister
<1>2. NoLostEndSignal'
  BY <1>1 DEF NoLostEndSignal, Unregister
<1>3. NoneFetchingAfter'
  BY Zenon, <1>1 DEF NoneFetchingAfter, Unregister
<1> QED
  BY <1>2, <1>3

LEMMA EndStep ==
  ASSUME IInv, Next
  PROVE  NoLostEndSignal' /\ NoneFetchingAfter'
PROOF
<1> USE LogWriterAssumption DEF entryVars
<1> TypeOK /\ LockInv /\ NoLostEndSignal /\ NoneFetchingAfter BY Zenon DEF IInv
<1> fpc \in [Flushers -> FlusherPcs] /\ status \in [Writers -> Statuses]
    /\ packed \in [Writers -> [lpageid : 0 .. MaxLsa, status : {"DONE", "DELAY"}]]
  BY Zenon DEF TypeOK
<1>1. ASSUME NEW f \in Flushers, FlushEnter(f) PROVE NoLostEndSignal' /\ NoneFetchingAfter'
  BY Zenon, <1>1, EndUnused DEF FlushEnter, Fetching, Marked
<1>2. ASSUME NEW f \in Flushers, FlushNothing(f) PROVE NoLostEndSignal' /\ NoneFetchingAfter'
  BY Zenon, <1>2, EndUnused DEF FlushNothing, Fetching, Marked
<1>3. ASSUME NEW f \in Flushers, FlushStart(f) PROVE NoLostEndSignal' /\ NoneFetchingAfter'
  BY Zenon, <1>3, EndUnused DEF FlushStart, Fetching, Marked
<1>4. ASSUME NEW f \in Flushers, FlushMark(f) PROVE NoLostEndSignal' /\ NoneFetchingAfter'
  <2>1. \A g \in Flushers : fpc'[g] # "endwait"
    BY Zenon, <1>4, OneFlusher DEF FlushMark
  <2>2. fpc'[f] = "flushing"
    BY Zenon, <1>4 DEF FlushMark
  <2> QED
    BY Zenon, <2>1, <2>2 DEF NoLostEndSignal, NoneFetchingAfter
<1>5. ASSUME NEW f \in Flushers, FlushWrite(f) PROVE NoLostEndSignal' /\ NoneFetchingAfter'
  BY Zenon, <1>5, EndUnused DEF FlushWrite, Fetching, Marked
<1>6. ASSUME NEW f \in Flushers, FlushCompleted(f) PROVE NoLostEndSignal' /\ NoneFetchingAfter'
  BY Zenon, <1>6, EndUnused DEF FlushCompleted, Fetching, Marked
<1>7. ASSUME NEW f \in Flushers, FlushEnd(f) PROVE NoLostEndSignal' /\ NoneFetchingAfter'
  <2>1. Fetching' = Fetching
    BY Zenon, <1>7 DEF FlushEnd, Fetching
  <2>2. NoLostEndSignal'
    BY Zenon, <1>7, <2>1 DEF FlushEnd, NoLostEndSignal
  <2>3. NoneFetchingAfter'
    BY Zenon, <1>7, <2>1 DEF FlushEnd, NoneFetchingAfter
  <2> QED
    BY <2>2, <2>3
<1>8. ASSUME NEW f \in Flushers, FlushPromote(f) PROVE NoLostEndSignal' /\ NoneFetchingAfter'
  BY Zenon, <1>8, EndUnused DEF FlushPromote, Fetching, Marked
<1>9. ASSUME NEW f \in Flushers, FlushExit(f) PROVE NoLostEndSignal' /\ NoneFetchingAfter'
  BY Zenon, <1>9, EndUnused DEF FlushExit, Fetching, Marked
<1>10. ASSUME NEW w \in Writers, Connect(w) PROVE NoLostEndSignal' /\ NoneFetchingAfter'
  BY Zenon, <1>10, EndUnused DEF Connect, Fetching, Marked
<1>11. ASSUME NEW w \in Writers, Register(w) PROVE NoLostEndSignal' /\ NoneFetchingAfter'
  <2>1. status[w] # "FETCH"
    BY Zenon, <1>11 DEF IInv, EntryInv, Register
  <2>2. status' = [status EXCEPT ![w] = "DELAY"] \/ status' = [status EXCEPT ![w] = "WAIT"]
    BY <1>11, Zenon DEF Register
  <2>3. Fetching' = Fetching
    BY Zenon, <2>1, <2>2 DEF Fetching
  <2> QED
    BY Zenon, <1>11, <2>3, EndUnused DEF Register
<1>12. ASSUME NEW w \in Writers, Suspend(w) PROVE NoLostEndSignal' /\ NoneFetchingAfter'
  BY Zenon, <1>12, EndUnused DEF Suspend, Fetching, Marked
<1>13. ASSUME NEW w \in Writers, Timeout(w) PROVE NoLostEndSignal' /\ NoneFetchingAfter'
  BY Zenon, <1>13, EndUnused DEF Timeout, Fetching, Marked
<1>14. ASSUME NEW w \in Writers, UnregisterTimedOut(w) PROVE NoLostEndSignal' /\ NoneFetchingAfter'
  BY Zenon, <1>14, EndUnregister DEF UnregisterTimedOut
<1>15. ASSUME NEW w \in Writers, Woken(w) PROVE NoLostEndSignal' /\ NoneFetchingAfter'
  BY Zenon, <1>15, EndUnused DEF Woken, Fetching, Marked
<1>16. ASSUME NEW w \in Writers, SetEofEnter(w) PROVE NoLostEndSignal' /\ NoneFetchingAfter'
  BY Zenon, <1>16, EndUnused DEF SetEofEnter, Fetching, Marked
<1>17. ASSUME NEW w \in Writers, SetEof(w) PROVE NoLostEndSignal' /\ NoneFetchingAfter'
  BY Zenon, <1>17, EndUnused DEF SetEof, Fetching, Marked
<1>18. ASSUME NEW w \in Writers, SetEofNot(w) PROVE NoLostEndSignal' /\ NoneFetchingAfter'
  BY Zenon, <1>18, EndUnused DEF SetEofNot, Fetching, Marked
<1>19. ASSUME NEW w \in Writers, IsDelayed(w) PROVE NoLostEndSignal' /\ NoneFetchingAfter'
  BY Zenon, <1>19, EndUnused DEF IsDelayed, Fetching, Marked
<1>20. ASSUME NEW w \in Writers, EndDelay(w) PROVE NoLostEndSignal' /\ NoneFetchingAfter'
  BY Zenon, <1>20, EndUnregister DEF EndDelay
<1>21. ASSUME NEW w \in Writers, PackEnter(w) PROVE NoLostEndSignal' /\ NoneFetchingAfter'
  BY Zenon, <1>21, EndUnused DEF PackEnter, Fetching, Marked
<1>22. ASSUME NEW w \in Writers, Pack(w) PROVE NoLostEndSignal' /\ NoneFetchingAfter'
  BY Zenon, <1>22, EndUnused DEF Pack, Fetching, Marked
<1>23. ASSUME NEW w \in Writers, Copy(w) PROVE NoLostEndSignal' /\ NoneFetchingAfter'
  BY Zenon, <1>23, EndUnused DEF Copy, Fetching, Marked
<1>24. ASSUME NEW w \in Writers, PackFails(w) PROVE NoLostEndSignal' /\ NoneFetchingAfter'
  BY Zenon, <1>24, EndUnused DEF PackFails, Fetching, Marked
<1>25. ASSUME NEW w \in Writers, WaitFlush(w) PROVE NoLostEndSignal' /\ NoneFetchingAfter'
  BY Zenon, <1>25, EndUnused DEF WaitFlush, Fetching, Marked
<1>26. ASSUME NEW w \in Writers, Ready(w) PROVE NoLostEndSignal' /\ NoneFetchingAfter'
  <2>1. CASE EndsBeforeSend(w)
    BY Zenon, <1>26, <2>1, EndUnregister DEF Ready
  <2>2. CASE ~EndsBeforeSend(w)
    BY Zenon, <1>26, <2>2, EndUnused DEF Ready, Fetching
  <2> QED
    BY Zenon, <2>1, <2>2
<1>27. ASSUME NEW w \in Writers, Send(w) PROVE NoLostEndSignal' /\ NoneFetchingAfter'
  BY Zenon, <1>27, EndUnused DEF Send, Fetching, Marked
<1>28. ASSUME NEW w \in Writers, Reply(w) PROVE NoLostEndSignal' /\ NoneFetchingAfter'
  BY Zenon, <1>28, EndUnused DEF Reply, Fetching, Marked
<1>29. ASSUME NEW w \in Writers, SendFails(w) PROVE NoLostEndSignal' /\ NoneFetchingAfter'
  BY Zenon, <1>29, EndUnused DEF SendFails, Fetching, Marked
<1>30. ASSUME NEW w \in Writers, End(w) PROVE NoLostEndSignal' /\ NoneFetchingAfter'
  BY Zenon, <1>30, EndUnregister DEF End
<1>31. ASSUME NEW w \in Writers, Error(w) PROVE NoLostEndSignal' /\ NoneFetchingAfter'
  BY Zenon, <1>31, EndUnregister DEF Error
<1>32. ASSUME NEW w \in Writers, ConnDown(w) PROVE NoLostEndSignal' /\ NoneFetchingAfter'
  BY Zenon, <1>32, EndUnused DEF ConnDown, Fetching, Marked
<1>33. ASSUME NEW w \in Writers, StopInterrupt(w) PROVE NoLostEndSignal' /\ NoneFetchingAfter'
  BY Zenon, <1>33, EndUnused DEF StopInterrupt, Fetching, Marked
<1>34. ASSUME StopServer PROVE NoLostEndSignal' /\ NoneFetchingAfter'
  BY Zenon, <1>34, EndUnused DEF StopServer, Fetching, Marked
<1> QED
  BY Zenon, <1>1, <1>2, <1>3, <1>4, <1>5, <1>6, <1>7, <1>8, <1>9, <1>10, <1>11,
     <1>12, <1>13, <1>14, <1>15, <1>16, <1>17, <1>18, <1>19, <1>20, <1>21,
     <1>22, <1>23, <1>24, <1>25, <1>26, <1>27, <1>28, <1>29, <1>30, <1>31,
     <1>32, <1>33, <1>34 DEF Next, Flush, Serve, UsesLogCs

(* What a writer that fetches may send.                                     *)
LEMMA DurableStep ==
  ASSUME IInv, Next
  PROVE  FetchedIsDurable'
PROOF
<1> USE LogWriterAssumption DEF FetchedIsDurable, entryVars, callVars, logVars
<1> TypeOK /\ LockInv /\ DiskInv /\ FetchedIsDurable BY Zenon DEF IInv
<1> /\ pc \in [Writers -> WriterPcs] /\ status \in [Writers -> Statuses]
    /\ fpc \in [Flushers -> FlusherPcs]
    /\ eof_lsa \in 1 .. MaxLsa /\ nxio_lsa \in 1 .. MaxLsa
    /\ packed \in [Writers -> [lpageid : 0 .. MaxLsa, status : {"DONE", "DELAY"}]]
  BY Zenon DEF TypeOK
<1>1. ASSUME NEW f \in Flushers, FlushEnter(f) PROVE FetchedIsDurable'
  BY Zenon, <1>1 DEF FlushEnter
<1>2. ASSUME NEW f \in Flushers, FlushNothing(f) PROVE FetchedIsDurable'
  BY Zenon, <1>2 DEF FlushNothing
<1>3. ASSUME NEW f \in Flushers, FlushStart(f) PROVE FetchedIsDurable'
  BY Zenon, <1>3 DEF FlushStart
<1>4. ASSUME NEW f \in Flushers, FlushMark(f) PROVE FetchedIsDurable'
  <2>1. \A g \in Flushers : fpc[g] \notin Marked
    BY Zenon, <1>4, OneFlusher DEF FlushMark, Marked
  <2>2. \A u \in Writers : status[u] # "FETCH"
    BY Zenon, <2>1 DEF IInv, NoneFetchingAfter, Fetching, Marked
  <2>3. \A u \in Writers : status[u] = "WAIT" => pc[u] \in Asleep
    BY Zenon DEF IInv, EntryInv
  <2> QED
    BY Zenon, <1>4, <2>2, <2>3 DEF FlushMark, Asleep
<1>5. ASSUME NEW f \in Flushers, FlushWrite(f) PROVE FetchedIsDurable'
  BY Zenon, <1>5 DEF FlushWrite, DiskInv
<1>6. ASSUME NEW f \in Flushers, FlushCompleted(f) PROVE FetchedIsDurable'
  <2>1. nxio_lsa = eof_lsa
    BY Zenon, <1>6 DEF FlushCompleted, DiskInv
  <2>2. \A u \in Writers : packed[u].lpageid <= eof_lsa
    BY Zenon DEF IInv, PageInv
  <2> QED
    BY Zenon, <1>6, <2>1, <2>2 DEF FlushCompleted
<1>7. ASSUME NEW f \in Flushers, FlushEnd(f) PROVE FetchedIsDurable'
  BY Zenon, <1>7 DEF FlushEnd
<1>8. ASSUME NEW f \in Flushers, FlushPromote(f) PROVE FetchedIsDurable'
  BY Zenon, <1>8 DEF FlushPromote
<1>9. ASSUME NEW f \in Flushers, FlushExit(f) PROVE FetchedIsDurable'
  BY Zenon, <1>9 DEF FlushExit
<1>10. ASSUME NEW w \in Writers, Connect(w) PROVE FetchedIsDurable'
  BY Zenon, <1>10 DEF Connect, Goto
<1>11. ASSUME NEW w \in Writers, Register(w) PROVE FetchedIsDurable'
  <2>1. status' = [status EXCEPT ![w] = "DELAY"] \/ status' = [status EXCEPT ![w] = "WAIT"]
    BY <1>11, Zenon DEF Register
  <2>2. \A u \in Writers \ {w} : pc'[u] = pc[u]
    BY Zenon, <1>11 DEF Register, Goto
  <2> QED
    BY Zenon, <1>11, <2>1, <2>2 DEF Register
<1>12. ASSUME NEW w \in Writers, Suspend(w) PROVE FetchedIsDurable'
  BY Zenon, <1>12 DEF Suspend, Goto
<1>13. ASSUME NEW w \in Writers, Timeout(w) PROVE FetchedIsDurable'
  BY Zenon, <1>13 DEF Timeout, Goto
<1>14. ASSUME NEW w \in Writers, UnregisterTimedOut(w) PROVE FetchedIsDurable'
  BY Zenon, <1>14 DEF UnregisterTimedOut, Goto, Unregister
<1>15. ASSUME NEW w \in Writers, Woken(w) PROVE FetchedIsDurable'
  BY Zenon, <1>15 DEF Woken, Goto
<1>16. ASSUME NEW w \in Writers, SetEofEnter(w) PROVE FetchedIsDurable'
  BY Zenon, <1>16 DEF SetEofEnter, Goto
<1>17. ASSUME NEW w \in Writers, SetEof(w) PROVE FetchedIsDurable'
  BY Zenon, <1>17 DEF SetEof, Goto
<1>18. ASSUME NEW w \in Writers, SetEofNot(w) PROVE FetchedIsDurable'
  BY Zenon, <1>18 DEF SetEofNot, Goto
<1>19. ASSUME NEW w \in Writers, IsDelayed(w) PROVE FetchedIsDurable'
  BY Zenon, <1>19 DEF IsDelayed, Goto
<1>20. ASSUME NEW w \in Writers, EndDelay(w) PROVE FetchedIsDurable'
  BY Zenon, <1>20 DEF EndDelay, Goto, Unregister
<1>21. ASSUME NEW w \in Writers, PackEnter(w) PROVE FetchedIsDurable'
  BY Zenon, <1>21 DEF PackEnter, Goto
<1>22. ASSUME NEW w \in Writers, Pack(w) PROVE FetchedIsDurable'
  BY Zenon, <1>22 DEF Pack, Goto
<1>23. ASSUME NEW w \in Writers, Copy(w) PROVE FetchedIsDurable'
  BY Zenon, <1>23 DEF Copy, Goto
<1>24. ASSUME NEW w \in Writers, PackFails(w) PROVE FetchedIsDurable'
  BY Zenon, <1>24 DEF PackFails, Goto
<1>25. ASSUME NEW w \in Writers, WaitFlush(w) PROVE FetchedIsDurable'
  <2>1. CASE status[w] = "FETCH" /\ flush_completed
    <3>1. PICK f \in Flushers : fpc[f] \in Marked
      BY Zenon, <2>1 DEF IInv, NoneFetchingAfter, Fetching, Marked
    <3>2. nxio_lsa = eof_lsa
      BY Zenon, <2>1, <3>1 DEF DiskInv, Marked
    <3>3. packed[w].lpageid <= nxio_lsa
      BY Zenon, <3>2 DEF IInv, PageInv
    <3> QED
      BY Zenon, <1>25, <2>1, <3>3 DEF WaitFlush, Goto
  <2>2. CASE ~(status[w] = "FETCH" /\ flush_completed)
    BY Zenon, <1>25, <2>2 DEF WaitFlush, Goto
  <2> QED
    BY Zenon, <2>1, <2>2
<1>26. ASSUME NEW w \in Writers, Ready(w) PROVE FetchedIsDurable'
  <2>1. CASE EndsBeforeSend(w)
    <3>1. status' = [status EXCEPT ![w] = packed[w].status]
      BY <1>26, <2>1, Zenon DEF Ready, Unregister
    <3>2. packed[w].status # "FETCH"
      BY Zenon
    <3> QED
      BY Zenon, <1>26, <3>1, <3>2 DEF Ready, Goto
  <2>2. CASE ~EndsBeforeSend(w)
    BY Zenon, <1>26, <2>2 DEF Ready, Goto
  <2> QED
    BY Zenon, <2>1, <2>2
<1>27. ASSUME NEW w \in Writers, Send(w) PROVE FetchedIsDurable'
  BY Zenon, <1>27 DEF Send, Goto
<1>28. ASSUME NEW w \in Writers, Reply(w) PROVE FetchedIsDurable'
  BY Zenon, <1>28 DEF Reply, Goto
<1>29. ASSUME NEW w \in Writers, SendFails(w) PROVE FetchedIsDurable'
  BY Zenon, <1>29 DEF SendFails, Goto
<1>30. ASSUME NEW w \in Writers, End(w) PROVE FetchedIsDurable'
  BY Zenon, <1>30 DEF End, Goto, Unregister
<1>31. ASSUME NEW w \in Writers, Error(w) PROVE FetchedIsDurable'
  BY Zenon, <1>31 DEF Error, Goto, Unregister
<1>32. ASSUME NEW w \in Writers, ConnDown(w) PROVE FetchedIsDurable'
  BY Zenon, <1>32 DEF ConnDown, Goto, InterruptSuspended
<1>33. ASSUME NEW w \in Writers, StopInterrupt(w) PROVE FetchedIsDurable'
  BY Zenon, <1>33 DEF StopInterrupt, Goto, InterruptSuspended
<1>34. ASSUME StopServer PROVE FetchedIsDurable'
  BY Zenon, <1>34 DEF StopServer
<1> QED
  BY Zenon, <1>1, <1>2, <1>3, <1>4, <1>5, <1>6, <1>7, <1>8, <1>9, <1>10, <1>11,
     <1>12, <1>13, <1>14, <1>15, <1>16, <1>17, <1>18, <1>19, <1>20, <1>21,
     <1>22, <1>23, <1>24, <1>25, <1>26, <1>27, <1>28, <1>29, <1>30, <1>31,
     <1>32, <1>33, <1>34 DEF Next, Flush, Serve, UsesLogCs

-----------------------------------------------------------------------------
(* The invariant holds of a server that has restarted, and every step       *)
(* preserves it.                                                            *)
LEMMA IInvInit ==
  Init => IInv
PROOF
<1> SUFFICES ASSUME Init PROVE IInv
  OBVIOUS
<1> USE LogWriterAssumption DEF Init, LogCs!Init
<1>1. TypeOK
  <2>1. /\ csReserved \in [Threads -> BOOLEAN] /\ endAfterSend \in [Writers -> BOOLEAN]
        /\ interrupt \in [Writers -> BOOLEAN]
    BY Zenon
  <2>2. /\ req \in [Writers -> [fpageid : 0 .. MaxLsa, mode : {"ASYNC", "SYNC"}]]
        /\ packed \in [Writers -> [lpageid : 0 .. MaxLsa, status : {"DONE", "DELAY"}]]
    <3>1. 0 \in 0 .. MaxLsa
      OBVIOUS
    <3> QED
      BY Zenon, <3>1 DEF HeaderPage
  <2>3. /\ csMode \in [Threads -> {"none", "read", "write"}]
        /\ fpc \in [Flushers -> FlusherPcs] /\ pc \in [Writers -> WriterPcs]
        /\ status \in [Writers -> Statuses] /\ resume \in [Writers -> Resumes]
        /\ origMode \in [Writers -> {"ASYNC", "SYNC"}]
    BY Zenon DEF FlusherPcs, WriterPcs, Statuses, Resumes
  <2>4. /\ entryEof \in [Writers -> 0 .. MaxLsa] /\ lastSent \in [Writers -> 0 .. MaxLsa]
        /\ copied \in [Writers -> 0 .. MaxLsa] /\ round \in [Writers -> 0 .. MaxLsa]
        /\ stopLsa \in 0 .. MaxLsa /\ 1 \in 1 .. MaxLsa
    <3>1. 0 \in 0 .. MaxLsa /\ 1 \in 1 .. MaxLsa
      OBVIOUS
    <3> QED
      BY Zenon, <3>1 DEF NullLsa
  <2> QED
    BY Zenon, <2>1, <2>2, <2>3, <2>4 DEF TypeOK
<1>2. LockInv
  BY Zenon DEF LockInv, FlusherHolds, WriterHolds, Exclusive, Marked
<1>3. DiskInv
  BY DEF DiskInv
<1>4. ASSUME NEW w \in Writers PROVE EntryInv(w) /\ PageInv(w)
  <2>1. /\ pc[w] = "out" /\ status[w] = "NONE" /\ entryEof[w] = 0
        /\ packed[w].lpageid = 0 /\ eof_lsa = 1
    BY Zenon DEF NullLsa
  <2> QED
    BY <2>1 DEF EntryInv, PageInv
<1>5. NoLostEndSignal /\ NoneFetchingAfter /\ FetchedIsDurable
  BY Zenon DEF NoLostEndSignal, NoneFetchingAfter, FetchedIsDurable, Fetching
<1> QED
  BY Zenon, <1>1, <1>2, <1>3, <1>4, <1>5 DEF IInv

LEMMA IInvNext ==
  IInv /\ [Next]_vars => IInv'
PROOF
<1> SUFFICES ASSUME IInv, [Next]_vars PROVE IInv'
  OBVIOUS
<1>1. CASE Next
  BY Zenon, <1>1, TypeStep, LockStep, DiskStep, EntryStep, PageStep, EndStep, DurableStep
  DEF IInv
<1>2. CASE UNCHANGED vars
  <2> USE <1>2 DEF vars, csVars, logVars, entryVars, callVars, stopVars
  <2>1. TypeOK'
    BY Zenon DEF IInv, TypeOK
  <2>2. LockInv'
    BY Zenon DEF IInv, LockInv, FlusherHolds, WriterHolds, Exclusive
  <2>3. DiskInv'
    BY Zenon DEF IInv, DiskInv
  <2>4. (\A w \in Writers : EntryInv(w) /\ PageInv(w))'
    BY Zenon DEF IInv, EntryInv, PageInv
  <2>5. (NoLostEndSignal /\ NoneFetchingAfter /\ FetchedIsDurable)'
    BY Zenon DEF IInv, NoLostEndSignal, NoneFetchingAfter, FetchedIsDurable, Fetching
  <2> QED
    BY Zenon, <2>1, <2>2, <2>3, <2>4, <2>5 DEF IInv
<1> QED
  BY <1>1, <1>2

(* Every variable of the flush and the log writers keeps its type: no page  *)
(* number leaves the log (logwr_pack_log_pages, cirpwr_get_log_pages).      *)
THEOREM LogWriterTypes == Spec => []TypeOK
PROOF
<1>1. IInv => TypeOK
  BY DEF IInv
<1> QED
  BY <1>1, IInvInit, IInvNext, PTL DEF Spec

(* The wait on flush_end_cond in logpb_flush_all_append_pages never starts  *)
(* after the last signal: any number of writers, whatever fails.            *)
THEOREM EndSignalNotLost == Spec => []NoLostEndSignal
PROOF
<1>1. IInv => NoLostEndSignal
  BY DEF IInv
<1> QED
  BY <1>1, IInvInit, IInvNext, PTL DEF Spec

(* The single if around that wait is enough: a flush that goes on leaves no *)
(* entry of the list in LOGWR_STATUS_FETCH.                                 *)
THEOREM NoneLeftFetching == Spec => []NoneFetchingAfter
PROOF
<1>1. IInv => NoneFetchingAfter
  BY DEF IInv
<1> QED
  BY <1>1, IInvInit, IInvNext, PTL DEF Spec

(* assert_release (flush_completed) in xlogwr_get_log_pages, and what it is *)
(* there for: what a writer sends for a flush is on the server's disk.      *)
THEOREM FetchedPagesDurable == Spec => []FetchedIsDurable
PROOF
<1>1. IInv => FetchedIsDurable
  BY DEF IInv
<1> QED
  BY <1>1, IInvInit, IInvNext, PTL DEF Spec

-----------------------------------------------------------------------------
(* What a writer owes a flush, and a server that stops.                     *)

(* The entry, the request and the round of a writer go together.            *)
CallInv(w) ==
  /\ pc[w] = "out" => status[w] = "NONE"
  /\ status[w] = "NONE" => pc[w] \in {"out", "register"} /\ round[w] = 0
  /\ pc[w] \in {"seteof?", "seteof!", "pack?", "pack!", "copy", "packed",
                "flushwait", "ready"} => status[w] \in {"DELAY", "FETCH"}
  /\ req[w].mode = "SYNC" => origMode[w] = "SYNC" /\ req[w].fpageid >= 1
  /\ pc[w] = "timedout" => req[w].mode = "ASYNC"
  /\ round[w] <= eof_lsa /\ (round[w] # 0 => req[w].fpageid >= 1)
  /\ ~stopping => round[w] <= req[w].fpageid + PackPages - 1

(* Only a writer whose connection has gone, or a server that stops, sets    *)
(* the eof_lsa of an entry.                                                 *)
InterruptInv(w) ==
  /\ ~stopping /\ resume[w] = "DUE_TO_INTERRUPT" /\ pc[w] # "out" => interrupt[w]
  /\ ~stopping => pc[w] \notin {"delayed?", "delayed!", "enddelay"}
  /\ ~stopping /\ pc[w] = "seteof!" => interrupt[w]
  /\ status[w] # "NONE" /\ entryEof[w] # 0 =>
       interrupt[w] \/ (stopping /\ entryEof[w] >= stopLsa)
  /\ pc[w] \in {"delayed?", "delayed!"} /\ entryEof[w] # 0 => entryEof[w] >= stopLsa

(* The pages of the round are packed, sent and confirmed before the entry   *)
(* is given back.                                                           *)
OwedInv(w) ==
  ~stopping =>
    /\ pc[w] \in {"copy", "packed", "flushwait", "ready", "send"} /\ ~interrupt[w] =>
         packed[w].lpageid >= round[w]
    /\ pc[w] = "reply" => packed[w].lpageid >= round[w]
    /\ status[w] # "FETCH" \/ pc[w] = "end" => lastSent[w] >= round[w]
    /\ status[w] = "FETCH" /\ round[w] # 0 /\ pc[w] # "end" => req[w].mode = "SYNC"

(* A writer waits for a flush only when its copier has confirmed a page.    *)
ConfirmedInv(w) ==
  /\ packed[w].status = "DONE" => packed[w].lpageid >= 1
  /\ pc[w] = "end" => lastSent[w] = packed[w].lpageid
  /\ pc[w] \in {"send", "reply"} /\ status[w] = "DONE" => packed[w].status = "DONE"
  /\ status[w] = "DONE" /\ pc[w] \notin {"send", "reply", "error"} => lastSent[w] >= 1
  /\ pc[w] \in {"suspending", "suspended", "awake", "delayed?", "delayed!"} =>
       lastSent[w] >= 1
  /\ w \in stopped => stopping /\ pc[w] \in {"error", "out"} /\ lastSent[w] >= stopLsa


(* What each writer keeps.                                                  *)
WriterInv(w) == CallInv(w) /\ InterruptInv(w) /\ OwedInv(w) /\ ConfirmedInv(w)

SyncInv == stopLsa <= nxio_lsa /\ \A w \in Writers : WriterInv(w)

(* A step of w leaves alone what the other writers have.                    *)
Others(w) ==
  \A u \in Writers \ {w} :
    /\ UNCHANGED <<pc[u], status[u], entryEof[u], lastSent[u]>>
    /\ UNCHANGED <<req[u], origMode[u], packed[u], resume[u], round[u]>>
    /\ interrupt'[u] = interrupt[u] /\ (u \in stopped' <=> u \in stopped)

(* What the others have is theirs alone to change.                          *)
LEMMA OthersStep ==
  ASSUME TypeOK, NEW w \in Writers,
         \/ Connect(w) \/ Register(w) \/ Suspend(w) \/ Timeout(w)
         \/ UnregisterTimedOut(w) \/ Woken(w) \/ SetEofEnter(w) \/ SetEof(w)
         \/ SetEofNot(w) \/ IsDelayed(w) \/ EndDelay(w) \/ PackEnter(w)
         \/ Pack(w) \/ Copy(w) \/ PackFails(w) \/ WaitFlush(w)
         \/ Ready(w) \/ Send(w) \/ Reply(w) \/ SendFails(w)
         \/ End(w) \/ Error(w) \/ ConnDown(w) \/ StopInterrupt(w)
  PROVE  Others(w)
PROOF
<1> USE DEF Others, entryVars, callVars, stopVars
<1> /\ pc \in [Writers -> WriterPcs] /\ status \in [Writers -> Statuses]
    /\ entryEof \in [Writers -> 0 .. MaxLsa] /\ lastSent \in [Writers -> 0 .. MaxLsa]
    /\ resume \in [Writers -> Resumes] /\ interrupt \in [Writers -> BOOLEAN]
    /\ DOMAIN req = Writers /\ DOMAIN origMode = Writers /\ DOMAIN packed = Writers
    /\ DOMAIN round = Writers
  BY Zenon DEF TypeOK
<1>1. CASE Connect(w)
  BY Zenon, <1>1 DEF Connect, Goto, Resume
<1>2. CASE Register(w)
  <2>1. /\ UNCHANGED <<req, origMode, packed, round, interrupt, stopped>>
        /\ \E v \in Statuses : status' = [status EXCEPT ![w] = v]
        /\ \E v \in WriterPcs : pc' = [pc EXCEPT ![w] = v]
        /\ resume' = resume \/ resume' = [resume EXCEPT ![w] = "LOGWR_SUSPENDED"]
    BY Zenon, <1>2 DEF Register, Goto, Resume, Statuses, WriterPcs
  <2>2. \/ entryEof' = entryEof /\ lastSent' = lastSent
        \/ /\ entryEof' = [entryEof EXCEPT ![w] = NullLsa]
           /\ lastSent' = [lastSent EXCEPT ![w] = NullLsa]
    BY Zenon, <1>2 DEF Register
  <2>3. ASSUME NEW u \in Writers \ {w}
        PROVE  UNCHANGED <<pc[u], status[u], entryEof[u], lastSent[u], resume[u]>>
    BY Zenon, <2>1, <2>2
  <2> QED
    BY Zenon, <2>1, <2>3
<1>3. CASE Suspend(w)
  BY Zenon, <1>3 DEF Suspend, Goto
<1>4. CASE Timeout(w)
  BY Zenon, <1>4 DEF Timeout, Goto
<1>5. CASE UnregisterTimedOut(w)
  BY Zenon, <1>5 DEF UnregisterTimedOut, Goto, Unregister
<1>6. CASE Woken(w)
  BY Zenon, <1>6 DEF Woken, Goto
<1>7. CASE SetEofEnter(w)
  BY Zenon, <1>7 DEF SetEofEnter, Goto, AfterLogCs, Resume
<1>8. CASE SetEof(w)
  BY Zenon, <1>8 DEF SetEof, Goto
<1>9. CASE SetEofNot(w)
  BY Zenon, <1>9 DEF SetEofNot, Goto
<1>10. CASE IsDelayed(w)
  BY Zenon, <1>10 DEF IsDelayed, Goto
<1>11. CASE EndDelay(w)
  BY Zenon, <1>11 DEF EndDelay, Goto, Unregister
<1>12. CASE PackEnter(w)
  BY Zenon, <1>12 DEF PackEnter, Goto, AfterLogCs, Resume
<1>13. CASE Pack(w)
  BY Zenon, <1>13 DEF Pack, Goto
<1>14. CASE Copy(w)
  BY Zenon, <1>14 DEF Copy, Goto, AfterLogCs, Resume
<1>15. CASE PackFails(w)
  BY Zenon, <1>15 DEF PackFails, Goto
<1>16. CASE WaitFlush(w)
  BY Zenon, <1>16 DEF WaitFlush, Goto
<1>17. CASE Ready(w)
  BY Zenon, <1>17 DEF Ready, Goto, Unregister
<1>18. CASE Send(w)
  BY Zenon, <1>18 DEF Send, Goto
<1>19. CASE Reply(w)
  BY Zenon, <1>19 DEF Reply, Goto, AfterLogCs, Resume
<1>20. CASE SendFails(w)
  BY Zenon, <1>20 DEF SendFails, Goto
<1>21. CASE End(w)
  BY Zenon, <1>21 DEF End, Goto, Unregister
<1>22. CASE Error(w)
  BY Zenon, <1>22 DEF Error, Goto, Unregister
<1>23. CASE ConnDown(w)
  BY Zenon, <1>23 DEF ConnDown, Goto, Resume, InterruptSuspended
<1>24. CASE StopInterrupt(w)
  BY Zenon, <1>24 DEF StopInterrupt, Goto, Resume, InterruptSuspended
<1> QED
  BY Zenon, <1>1, <1>2, <1>3, <1>4, <1>5, <1>6, <1>7, <1>8, <1>9, <1>10, <1>11, <1>12, <1>13, <1>14, <1>15, <1>16, <1>17, <1>18, <1>19, <1>20, <1>21, <1>22, <1>23, <1>24

(* No page is before the first one.                                        *)
LEMMA CoversNothing ==
  ASSUME NEW n \in Nat
  PROVE  0 <= n /\ n >= 0 /\ 0 <= n + PackPages - 1
PROOF
<1>1. PackPages \in Nat \ {0}
  BY LogWriterAssumption
<1> QED
  BY <1>1

(* A request from the last page received on asks for pages that reach as   *)
(* far as the last page does.                                              *)
LEMMA CoversRound ==
  ASSUME NEW first \in Nat, NEW last \in Nat, NEW rnd \in Nat, first >= last, last >= rnd
  PROVE  rnd <= first + PackPages - 1
PROOF
<1>1. PackPages \in Nat \ {0}
  BY LogWriterAssumption
<1> QED
  BY <1>1

(* A copier goes on from the page it has.                                   *)
LEMMA RequestCovers ==
  ASSUME NEW last \in 0 .. MaxLsa, NEW sync \in BOOLEAN, NEW r \in Requests(last, sync)
  PROVE  r.fpageid >= 1 /\ r.fpageid >= last /\ r.mode \in {"ASYNC", "SYNC"}
PROOF
<1> USE LogWriterAssumption DEF Requests, HeaderPage
<1>1. CASE last = 0
  BY <1>1
<1>2. CASE last # 0 /\ sync
  BY <1>2
<1>3. CASE last # 0 /\ ~sync
  BY <1>3
<1> QED
  BY <1>1, <1>2, <1>3

(* The types of what one writer has.                                        *)
LEMMA WriterTypes ==
  ASSUME TypeOK, NEW w \in Writers
  PROVE  /\ eof_lsa \in Nat /\ eof_lsa >= 1 /\ nxio_lsa \in Nat /\ stopLsa \in Nat
         /\ entryEof[w] \in Nat /\ lastSent[w] \in Nat /\ round[w] \in Nat
         /\ req[w].fpageid \in Nat /\ req[w].mode \in {"ASYNC", "SYNC"}
         /\ packed[w].lpageid \in Nat /\ packed[w].status \in {"DONE", "DELAY"}
PROOF
  BY LogWriterAssumption DEF TypeOK

(* The types of what the log is.                                            *)
LEMMA LogTypes ==
  ASSUME TypeOK
  PROVE  eof_lsa \in Nat /\ nxio_lsa \in Nat /\ stopLsa \in Nat
PROOF
  BY LogWriterAssumption DEF TypeOK

(* The entry is registered: it waits for the next flush only when the       *)
(* copier has confirmed the end of the log.                                 *)
LEMMA OwnRegister ==
  ASSUME IInv, SyncInv, NEW w \in Writers, Register(w)
  PROVE  WriterInv(w)'
PROOF
<1> USE LogWriterAssumption
<1> TypeOK /\ EntryInv(w) /\ WriterInv(w)
  BY Zenon DEF IInv, SyncInv
<1>1. /\ pc[w] = "register" /\ UNCHANGED <<req[w], origMode[w], packed[w], round[w]>>
      /\ UNCHANGED <<eof_lsa, nxio_lsa, stopping, stopLsa, stopped>>
      /\ interrupt'[w] = interrupt[w]
  BY Zenon DEF Register, logVars, callVars, stopVars
<1>2. CASE status[w] = "NONE"
  <2>1. /\ status'[w] = "DELAY" /\ pc'[w] = "seteof?" /\ resume'[w] = resume[w]
        /\ entryEof'[w] = 0 /\ lastSent'[w] = 0
    <3>1. /\ status' = [status EXCEPT ![w] = "DELAY"] /\ pc' = [pc EXCEPT ![w] = "seteof?"]
          /\ resume' = resume
      BY Zenon, <1>2 DEF Register, Goto
    <3>2. /\ entryEof' = [entryEof EXCEPT ![w] = 0]
          /\ lastSent' = [lastSent EXCEPT ![w] = 0]
      BY Zenon, <1>2 DEF Register, NullLsa
    <3> QED
      BY Zenon, <3>1, <3>2 DEF TypeOK
  <2>2. round[w] = 0
    BY Zenon, <1>2 DEF WriterInv, CallInv
  <2>3. 0 >= 0
    OBVIOUS
  <2>4. CallInv(w)' /\ InterruptInv(w)'
    BY Zenon, <1>1, <1>2, <2>1 DEF WriterInv, CallInv, InterruptInv
  <2>5. OwedInv(w)'
    BY Zenon, <1>1, <2>1, <2>2, <2>3 DEF OwedInv
  <2>6. ConfirmedInv(w)'
    BY Zenon, <1>1, <2>1 DEF WriterInv, ConfirmedInv
  <2> QED
    BY Zenon, <2>4, <2>5, <2>6 DEF WriterInv
<1>3. CASE status[w] = "DELAY"
  <2>1. /\ status'[w] = "DELAY" /\ pc'[w] = "seteof?" /\ resume'[w] = resume[w]
        /\ entryEof'[w] = entryEof[w] /\ lastSent'[w] = lastSent[w]
    <3>1. /\ status' = [status EXCEPT ![w] = "DELAY"] /\ pc' = [pc EXCEPT ![w] = "seteof?"]
          /\ resume' = resume
      BY Zenon, <1>3 DEF Register, Goto
    <3>2. entryEof' = entryEof /\ lastSent' = lastSent
      BY Zenon, <1>3 DEF Register
    <3> QED
      BY Zenon, <3>1, <3>2 DEF TypeOK
  <2> QED
    BY Zenon, <1>1, <1>3, <2>1
    DEF WriterInv, CallInv, InterruptInv, OwedInv, ConfirmedInv
<1>4. CASE status[w] \notin {"NONE", "DELAY"}
  <2>1. /\ status'[w] = "WAIT" /\ pc'[w] = "suspending"
        /\ resume'[w] = "LOGWR_SUSPENDED"
        /\ entryEof'[w] = entryEof[w] /\ lastSent'[w] = lastSent[w]
    <3>1. /\ status' = [status EXCEPT ![w] = "WAIT"]
          /\ pc' = [pc EXCEPT ![w] = "suspending"]
          /\ resume' = [resume EXCEPT ![w] = "LOGWR_SUSPENDED"]
      BY Zenon, <1>4 DEF Register, Goto, Resume
    <3>2. entryEof' = entryEof /\ lastSent' = lastSent
      BY Zenon, <1>4 DEF Register
    <3> QED
      BY Zenon, <3>1, <3>2 DEF TypeOK
  <2>2. status[w] = "DONE"
    <3>1. status[w] \in Statuses
      BY Zenon DEF TypeOK
    <3> QED
      BY Zenon, <1>1, <1>4, <3>1 DEF Statuses, EntryInv, Asleep
  <2> QED
    BY Zenon, <1>1, <2>1, <2>2
    DEF WriterInv, CallInv, InterruptInv, OwedInv, ConfirmedInv
<1> QED
  BY Zenon, <1>2, <1>3, <1>4

(* The pages are packed: as far as the round goes, unless the connection    *)
(* has gone.                                                                *)
LEMMA OwnPack ==
  ASSUME IInv, SyncInv, NEW w \in Writers, Pack(w)
  PROVE  WriterInv(w)'
PROOF
<1> USE LogWriterAssumption
<1> TypeOK /\ WriterInv(w)
  BY Zenon DEF IInv, SyncInv
<1>1. /\ pc[w] = "pack!" /\ pc'[w] = "copy"
      /\ UNCHANGED <<status[w], entryEof[w], lastSent[w], req[w], origMode[w], round[w]>>
      /\ UNCHANGED <<eof_lsa, nxio_lsa, stopping, stopLsa, stopped, resume[w]>>
      /\ interrupt'[w] = interrupt[w]
  BY Zenon DEF Pack, Goto, logVars, entryVars, stopVars, TypeOK
<1>2. round[w] <= eof_lsa /\ (~stopping => round[w] <= req[w].fpageid + PackPages - 1)
      /\ (round[w] # 0 => req[w].fpageid # 0)
  <2>1. ~(0 >= 1)
    OBVIOUS
  <2> QED
    BY Zenon, <2>1 DEF WriterInv, CallInv
<1>3. /\ LastPage(w) \in Nat
      /\ req[w].fpageid # 0 => LastPage(w) >= 1
      /\ ~stopping /\ entryEof[w] = 0 => LastPage(w) >= round[w]
  <2>1. eof_lsa \in Nat /\ eof_lsa >= 1 /\ entryEof[w] \in Nat
        /\ req[w].fpageid \in Nat /\ round[w] \in Nat
    BY Zenon, WriterTypes
  <2> QED
    BY <1>2, <2>1 DEF LastPage, PackEof, Min, NullLsa
<1>4. /\ packed'[w].status = "DONE" => packed'[w].lpageid >= 1
      /\ ~stopping /\ round[w] # 0 /\ entryEof[w] = 0 => packed'[w].lpageid >= round[w]
      /\ packed'[w].lpageid \in Nat
  <2>1. CASE req[w].fpageid = 0
    <3>1. packed'[w] = [lpageid |-> 0, status |-> "DELAY"]
      BY Zenon, <2>1 DEF Pack, NullLsa, HeaderPage, TypeOK
    <3> QED
      BY <1>2, <2>1, <3>1
  <2>2. CASE req[w].fpageid # 0
    <3>1. packed'[w].lpageid = LastPage(w)
      BY Zenon, <2>2 DEF Pack, HeaderPage, TypeOK
    <3> QED
      BY <1>3, <2>2, <3>1
  <2> QED
    BY Zenon, <2>1, <2>2
<1>5. CallInv(w)' /\ InterruptInv(w)'
  BY Zenon, <1>1 DEF WriterInv, CallInv, InterruptInv
<1>6. OwedInv(w)'
  <2>1. ~stopping /\ ~interrupt[w] => entryEof[w] = 0
    BY Zenon, <1>1 DEF WriterInv, CallInv, InterruptInv
  <2>2. packed'[w].lpageid >= 0
    BY <1>4
  <2>3. ~stopping /\ ~interrupt[w] => packed'[w].lpageid >= round[w]
    BY Zenon, <1>4, <2>1, <2>2
  <2> QED
    BY Zenon, <1>1, <2>3 DEF WriterInv, OwedInv
<1>7. ConfirmedInv(w)'
  BY Zenon, <1>1, <1>4 DEF WriterInv, ConfirmedInv
<1> QED
  BY Zenon, <1>5, <1>6, <1>7 DEF WriterInv

(* A writer in synchronous mode keeps its entry while it sends.             *)
LEMMA OwnReady ==
  ASSUME IInv, SyncInv, NEW w \in Writers, Ready(w)
  PROVE  WriterInv(w)'
PROOF
<1> USE LogWriterAssumption
<1> TypeOK /\ WriterInv(w)
  BY Zenon DEF IInv, SyncInv
<1>1. /\ pc[w] = "ready" /\ pc'[w] = "send"
      /\ UNCHANGED <<entryEof[w], lastSent[w], req[w], origMode[w], packed[w], round[w]>>
      /\ UNCHANGED <<eof_lsa, nxio_lsa, stopping, stopLsa, stopped, resume[w]>>
      /\ interrupt'[w] = interrupt[w]
  BY Zenon DEF Ready, Goto, logVars, stopVars, TypeOK
<1>2. /\ \/ status'[w] = status[w]
         \/ EndsBeforeSend(w) /\ status'[w] = packed[w].status
  BY Zenon DEF Ready, Unregister, TypeOK
<1>3. status[w] \in {"DELAY", "FETCH"}
  BY Zenon, <1>1 DEF WriterInv, CallInv
<1>4. ~stopping /\ status[w] = "FETCH" /\ EndsBeforeSend(w) => round[w] = 0
  BY Zenon, <1>1 DEF EndsBeforeSend, WriterInv, OwedInv, CallInv
<1>a. packed[w].status \in {"DONE", "DELAY"} /\ lastSent[w] \in Nat
  BY Zenon, WriterTypes
<1>b. lastSent[w] >= 0
  BY <1>a
<1>c. ~stopping /\ status'[w] # "FETCH" => lastSent[w] >= round[w]
  BY Zenon, <1>2, <1>3, <1>4, <1>b DEF WriterInv, OwedInv
<1>5. CallInv(w)' /\ InterruptInv(w)'
  BY Zenon, <1>1, <1>2, <1>3, <1>a DEF WriterInv, CallInv, InterruptInv
<1>6. OwedInv(w)'
  <2>1. status'[w] = "FETCH" => status[w] = "FETCH"
    BY Zenon, <1>2, <1>a
  <2> QED
    BY Zenon, <1>1, <1>c, <2>1 DEF WriterInv, OwedInv
<1>7. ConfirmedInv(w)'
  BY Zenon, <1>1, <1>2, <1>3 DEF WriterInv, ConfirmedInv
<1> QED
  BY Zenon, <1>5, <1>6, <1>7 DEF WriterInv

(* The next request confirms the pages.                                     *)
LEMMA OwnReply ==
  ASSUME IInv, SyncInv, NEW w \in Writers, Reply(w)
  PROVE  WriterInv(w)'
PROOF
<1> USE LogWriterAssumption
<1> TypeOK /\ EntryInv(w) /\ WriterInv(w)
  BY Zenon DEF IInv, SyncInv
<1>1. /\ pc[w] = "reply" /\ pc'[w] \in {"end", "register"}
      /\ pc'[w] = "end" \/ ~endAfterSend[w]
      /\ lastSent'[w] = packed[w].lpageid
  BY Zenon DEF Reply, Goto, TypeOK
<1>2. resume'[w] = resume[w] \/ resume'[w] = "OTHER_RESUMED"
  BY Zenon DEF Reply, AfterLogCs, Resume, TypeOK
<1>3. /\ UNCHANGED <<status[w], entryEof[w], packed[w], round[w]>>
      /\ UNCHANGED <<eof_lsa, nxio_lsa, stopping, stopLsa, stopped>>
      /\ interrupt'[w] = interrupt[w]
  BY Zenon DEF Reply, logVars, stopVars
<1>4. PICK r \in Requests(packed[w].lpageid, packed[w].status = "DONE") :
        /\ req' = [req EXCEPT ![w] = r]
        /\ origMode' = [origMode EXCEPT ![w] = MaxMode(r.mode, @)]
  BY Zenon DEF Reply
<1>5. /\ r.fpageid >= 1 /\ r.fpageid >= packed[w].lpageid
      /\ r.mode \in {"ASYNC", "SYNC"} /\ r.fpageid \in Nat
  <2>1. /\ packed[w].lpageid \in 0 .. MaxLsa
        /\ packed[w].status = "DONE" \/ packed[w].lpageid < MaxLsa
    BY DEF IInv, PageInv, TypeOK
  <2>2. r \in [fpageid : 0 .. MaxLsa, mode : {"ASYNC", "SYNC"}]
    BY Zenon, <2>1, RequestType
  <2>3. r.fpageid >= 1 /\ r.fpageid >= packed[w].lpageid /\ r.mode \in {"ASYNC", "SYNC"}
    BY Zenon, <2>1, RequestCovers
  <2> QED
    BY <2>2, <2>3
<1>6. req'[w] = r /\ (r.mode = "SYNC" => origMode'[w] = "SYNC")
  BY Zenon, <1>4 DEF MaxMode, TypeOK
<1>7. CallInv(w)'
  <2>1. stopping \/ packed[w].lpageid >= round[w]
    BY Zenon, <1>1 DEF WriterInv, OwedInv
  <2> QED
    <3>1. packed[w].lpageid \in Nat /\ round[w] \in Nat
      BY Zenon, WriterTypes
    <3>2. ~stopping => round[w] <= r.fpageid + PackPages - 1
      BY Zenon, <1>5, <2>1, <3>1, CoversRound
    <3>3. status[w] # "NONE"
      BY Zenon, <1>1 DEF WriterInv, CallInv
    <3> QED
      BY Zenon, <1>1, <1>3, <1>5, <1>6, <3>2, <3>3 DEF WriterInv, CallInv
<1>8. InterruptInv(w)'
  BY Zenon, <1>1, <1>2, <1>3 DEF WriterInv, InterruptInv
<1>9. OwedInv(w)'
  BY Zenon, <1>1, <1>3, <1>6 DEF WriterInv, OwedInv, EntryInv
<1>10. ConfirmedInv(w)'
  BY Zenon, <1>1, <1>3 DEF WriterInv, ConfirmedInv, EntryInv
<1> QED
  BY Zenon, <1>7, <1>8, <1>9, <1>10 DEF WriterInv

(* The moves of a writer that change no page, entry or request.             *)
Move(w) ==
  \/ pc[w] = "suspending" /\ pc'[w] = "suspended"
  \/ pc[w] = "suspended" /\ pc'[w] = "timedout" /\ req[w].mode = "ASYNC"
  \/ pc[w] = "awake" /\ pc'[w] = "delayed?" /\ ~interrupt[w]
       /\ resume[w] = "DUE_TO_INTERRUPT"
  \/ pc[w] = "awake" /\ pc'[w] = "pack?" /\ status[w] = "FETCH"
  \/ pc[w] = "delayed?" /\ pc'[w] \in {"delayed!", "enddelay"}
  \/ pc[w] = "seteof?" /\ pc'[w] = "seteof!" /\ resume[w] = "DUE_TO_INTERRUPT"
  \/ pc[w] = "seteof?" /\ pc'[w] = "pack?"
  \/ pc[w] = "pack?" /\ pc'[w] = "pack!"
  \/ pc[w] = "copy" /\ pc'[w] = "packed"
  \/ pc[w] = "packed" /\ pc'[w] \in {"flushwait", "ready"}
  \/ pc[w] = "send" /\ pc'[w] = "reply" /\ ~interrupt[w]
  \/ pc[w] \in {"awake", "pack!", "copy", "send", "reply"} /\ pc'[w] = "error"

(* They keep the invariant; LOG_CS may change the resume status.            *)
LEMMA OwnMove ==
  ASSUME TypeOK, NEW w \in Writers, WriterInv(w), Move(w),
         resume'[w] \in {resume[w], "OTHER_RESUMED"},
         interrupt'[w] = interrupt[w],
         UNCHANGED <<status[w], entryEof[w], lastSent[w], req[w], origMode[w],
                     packed[w], round[w]>>,
         UNCHANGED <<eof_lsa, stopping, stopLsa, stopped>>
  PROVE  WriterInv(w)'
PROOF
<1> USE DEF Move, WriterInv
<1>1. CallInv(w)'
  BY Zenon DEF CallInv
<1>2. InterruptInv(w)'
  <2>1. ~stopping /\ resume[w] = "DUE_TO_INTERRUPT" /\ pc[w] # "out" => interrupt[w]
    BY Zenon DEF InterruptInv
  <2>2. ~stopping => pc'[w] \notin {"delayed?", "delayed!", "enddelay"}
    BY Zenon, <2>1 DEF InterruptInv
  <2>3. ~stopping /\ pc'[w] = "seteof!" => interrupt[w]
    BY Zenon, <2>1
  <2>4. pc'[w] # "out" /\ (pc[w] = "out" => FALSE)
    BY Zenon
  <2>5. ~stopping /\ resume'[w] = "DUE_TO_INTERRUPT" => interrupt[w]
    BY Zenon, <2>1, <2>4
  <2>6. status[w] # "NONE" /\ entryEof[w] # 0 =>
          interrupt[w] \/ (stopping /\ entryEof[w] >= stopLsa)
    BY Zenon DEF InterruptInv
  <2>7. pc'[w] \in {"delayed?", "delayed!"} /\ entryEof[w] # 0 => entryEof[w] >= stopLsa
    <3>1. CASE pc[w] \in {"delayed?", "delayed!"}
      BY Zenon, <3>1 DEF InterruptInv
    <3>2. CASE pc[w] = "awake" /\ ~interrupt[w]
      BY Zenon, <2>6, <3>2 DEF CallInv
    <3>3. CASE pc'[w] \notin {"delayed?", "delayed!"}
      BY Zenon, <3>3
    <3> QED
      BY Zenon, <3>1, <3>2, <3>3
  <2> HIDE DEF Move, WriterInv
  <2> QED
    BY Zenon, <2>2, <2>3, <2>5, <2>6, <2>7 DEF InterruptInv
<1>3. OwedInv(w)'
  BY Zenon DEF OwedInv
<1>4. ConfirmedInv(w)'
  BY Zenon DEF ConfirmedInv
<1> QED
  BY Zenon, <1>1, <1>2, <1>3, <1>4

(* The steps that are such a move.                                          *)
LEMMA OwnMoves ==
  ASSUME IInv, SyncInv, NEW w \in Writers,
         \/ Suspend(w) \/ Timeout(w) \/ Woken(w) \/ SetEofEnter(w)
         \/ SetEofNot(w) \/ PackEnter(w) \/ Copy(w) \/ PackFails(w)
         \/ WaitFlush(w) \/ Send(w) \/ SendFails(w)
  PROVE  WriterInv(w)'
PROOF
<1> TypeOK /\ EntryInv(w) /\ WriterInv(w)
  BY Zenon DEF IInv, SyncInv
<1> pc \in [Writers -> WriterPcs] /\ resume \in [Writers -> Resumes]
  BY Zenon DEF TypeOK
<1>1. /\ UNCHANGED <<status[w], entryEof[w], lastSent[w], req[w], origMode[w],
                     packed[w], round[w]>>
      /\ UNCHANGED <<eof_lsa, stopping, stopLsa, stopped>>
      /\ interrupt'[w] = interrupt[w]
  BY Zenon DEF Suspend, Timeout, Woken, SetEofEnter, SetEofNot, PackEnter, Copy,
     PackFails, WaitFlush, Send, SendFails, logVars, entryVars, callVars, stopVars
<1>2. resume'[w] \in {resume[w], "OTHER_RESUMED"}
  BY Zenon DEF Suspend, Timeout, Woken, SetEofEnter, SetEofNot, PackEnter, Copy,
     PackFails, WaitFlush, Send, SendFails, AfterLogCs, Resume
<1>3. Move(w)
  <2>1. CASE Woken(w)
    BY Zenon, <2>1 DEF Woken, Goto, Move, EntryInv
  <2>2. CASE Suspend(w) \/ Timeout(w) \/ SetEofEnter(w) \/ SetEofNot(w)
    BY Zenon, <2>2 DEF Suspend, Timeout, SetEofEnter, SetEofNot, Goto, Move
  <2>3. CASE PackEnter(w) \/ Copy(w) \/ PackFails(w)
    BY Zenon, <2>3 DEF PackEnter, Copy, PackFails, Goto, Move
  <2>4. CASE WaitFlush(w) \/ Send(w) \/ SendFails(w)
    BY Zenon, <2>4 DEF WaitFlush, Send, SendFails, Goto, Move
  <2> QED
    BY Zenon, <2>1, <2>2, <2>3, <2>4
<1> QED
  BY Zenon, <1>1, <1>2, <1>3, OwnMove

(* The copier connects: a new request, and no entry yet.                    *)
LEMMA OwnConnect ==
  ASSUME IInv, SyncInv, NEW w \in Writers, Connect(w)
  PROVE  WriterInv(w)'
PROOF
<1> USE LogWriterAssumption
<1> TypeOK /\ WriterInv(w)
  BY Zenon DEF IInv, SyncInv
<1>1. PICK r \in Requests(copied[w], TRUE)
                   \cup [fpageid : {HeaderPage}, mode : {"ASYNC"}] :
        req' = [req EXCEPT ![w] = r] /\ origMode' = [origMode EXCEPT ![w] = r.mode]
  BY Zenon DEF Connect
<1>2. r.fpageid \in Nat /\ (r.mode = "SYNC" => r.fpageid >= 1)
  <2>1. CASE r \in Requests(copied[w], TRUE)
    <3>1. copied[w] \in 0 .. MaxLsa
      BY Zenon DEF TypeOK
    <3>2. r \in [fpageid : 0 .. MaxLsa, mode : {"ASYNC", "SYNC"}]
      BY Zenon, <2>1, <3>1, RequestType
    <3>3. r.fpageid >= 1
      BY Zenon, <2>1, <3>1, RequestCovers
    <3> QED
      BY <3>2, <3>3
  <2>2. CASE r \in [fpageid : {HeaderPage}, mode : {"ASYNC"}]
    BY <2>2 DEF HeaderPage
  <2> QED
    BY Zenon, <2>1, <2>2
<1>3. req'[w] = r /\ origMode'[w] = r.mode
  BY Zenon, <1>1 DEF TypeOK
<1>4. /\ pc[w] = "out" /\ ~stopping /\ pc'[w] = "register"
      /\ resume'[w] = "OTHER_RESUMED"
      /\ UNCHANGED <<status[w], entryEof[w], lastSent[w], packed[w], round[w]>>
      /\ UNCHANGED <<eof_lsa, stopping, stopLsa, stopped>>
  BY Zenon DEF Connect, Goto, Resume, logVars, entryVars, stopVars, TypeOK
<1>5. status[w] = "NONE" /\ round[w] = 0
  BY Zenon, <1>4 DEF WriterInv, CallInv
<1>a. eof_lsa \in Nat /\ lastSent[w] \in Nat
  BY Zenon, WriterTypes
<1>b. 0 <= eof_lsa /\ lastSent[w] >= 0 /\ 0 <= r.fpageid + PackPages - 1
  BY <1>2, <1>a
<1>6. CallInv(w)'
  BY Zenon, <1>2, <1>3, <1>4, <1>5, <1>b DEF CallInv
<1>7. InterruptInv(w)'
  BY Zenon, <1>4, <1>5 DEF InterruptInv
<1>8. OwedInv(w)' /\ ConfirmedInv(w)'
  BY Zenon, <1>4, <1>5, <1>b DEF WriterInv, OwedInv, ConfirmedInv
<1> QED
  BY Zenon, <1>6, <1>7, <1>8 DEF WriterInv

(* The entry is given back or freed.                                        *)
LEMMA OwnUnregister ==
  ASSUME IInv, SyncInv, NEW w \in Writers,
         UnregisterTimedOut(w) \/ EndDelay(w) \/ End(w) \/ Error(w)
  PROVE  WriterInv(w)'
PROOF
<1> USE LogWriterAssumption
<1> TypeOK /\ WriterInv(w)
  BY Zenon DEF IInv, SyncInv
<1> pc \in [Writers -> WriterPcs] /\ status \in [Writers -> Statuses]
    /\ round \in [Writers -> 0 .. MaxLsa]
  BY Zenon DEF TypeOK
<1>1. /\ UNCHANGED <<entryEof[w], lastSent[w], req[w], origMode[w], packed[w], resume[w]>>
      /\ UNCHANGED <<eof_lsa, stopping, stopLsa, stopped>>
      /\ interrupt'[w] = interrupt[w]
  BY Zenon DEF UnregisterTimedOut, EndDelay, End, Error, logVars, callVars, stopVars
<1>2. CASE UnregisterTimedOut(w) \/ EndDelay(w)
  <2>1. /\ pc[w] \in {"timedout", "enddelay"} /\ pc'[w] = "register"
        /\ status'[w] = "DELAY" /\ round'[w] = round[w]
    BY Zenon, <1>2 DEF UnregisterTimedOut, EndDelay, Unregister, Goto
  <2>2. ~stopping /\ status[w] = "FETCH" => round[w] = 0
    BY Zenon, <2>1 DEF WriterInv, CallInv, InterruptInv, OwedInv
  <2>3. CallInv(w)' /\ InterruptInv(w)'
    BY Zenon, <1>1, <2>1 DEF WriterInv, CallInv, InterruptInv
  <2>4. OwedInv(w)'
    <3>1. ~stopping => lastSent[w] >= round[w]
      <4>1. CASE status[w] = "FETCH"
        <5>1. lastSent[w] \in Nat
          BY Zenon, WriterTypes
        <5>2. lastSent[w] >= 0
          BY <5>1
        <5> QED
          BY Zenon, <2>2, <4>1, <5>2
      <4>2. CASE status[w] # "FETCH"
        BY Zenon, <4>2 DEF WriterInv, OwedInv
      <4> QED
        BY Zenon, <4>1, <4>2
    <3> QED
      BY Zenon, <1>1, <2>1, <3>1 DEF OwedInv
  <2>5. ConfirmedInv(w)'
    BY Zenon, <1>1, <2>1 DEF WriterInv, ConfirmedInv
  <2> QED
    BY Zenon, <2>3, <2>4, <2>5 DEF WriterInv
<1>3. CASE End(w)
  <2>1. /\ pc[w] = "end" /\ pc'[w] = "register"
        /\ status'[w] = packed[w].status /\ round'[w] = round[w]
    BY Zenon, <1>3 DEF End, Unregister, Goto
  <2>2. packed[w].status \in {"DONE", "DELAY"}
    BY Zenon, WriterTypes
  <2>3. CallInv(w)' /\ InterruptInv(w)'
    BY Zenon, <1>1, <2>1, <2>2 DEF WriterInv, CallInv, InterruptInv
  <2>4. OwedInv(w)'
    BY Zenon, <1>1, <2>1, <2>2 DEF WriterInv, OwedInv
  <2>5. ConfirmedInv(w)'
    BY Zenon, <1>1, <2>1, <2>2 DEF WriterInv, ConfirmedInv
  <2> QED
    BY Zenon, <2>3, <2>4, <2>5 DEF WriterInv
<1>4. CASE Error(w)
  <2>1. pc[w] = "error" /\ pc'[w] = "out" /\ status'[w] = "NONE" /\ round'[w] = 0
    BY Zenon, <1>4 DEF Error, Unregister, Goto
  <2>2. CallInv(w)'
    <3>1. 0 <= eof_lsa /\ 0 <= req[w].fpageid + PackPages - 1
      <4>1. eof_lsa \in Nat /\ req[w].fpageid \in Nat
        BY Zenon, WriterTypes
      <4> QED
        BY <4>1
    <3> QED
      BY Zenon, <1>1, <2>1, <3>1 DEF WriterInv, CallInv
  <2>3. InterruptInv(w)'
    BY Zenon, <1>1, <2>1 DEF InterruptInv
  <2>4. OwedInv(w)'
    <3>1. lastSent[w] >= 0
      <4>1. lastSent[w] \in Nat
        BY Zenon, WriterTypes
      <4> QED
        BY <4>1
    <3> QED
      BY Zenon, <1>1, <2>1, <3>1 DEF OwedInv
  <2>5. ConfirmedInv(w)'
    BY Zenon, <1>1, <2>1 DEF WriterInv, ConfirmedInv
  <2> QED
    BY Zenon, <2>2, <2>3, <2>4, <2>5 DEF WriterInv
<1> QED
  BY Zenon, <1>2, <1>3, <1>4

(* A writer that is told to stop, or whose connection goes.                 *)
LEMMA OwnInterrupt ==
  ASSUME IInv, SyncInv, NEW w \in Writers,
         ConnDown(w) \/ StopInterrupt(w) \/ SetEof(w) \/ IsDelayed(w)
  PROVE  WriterInv(w)'
PROOF
<1> USE LogWriterAssumption
<1> TypeOK /\ WriterInv(w) /\ DiskInv /\ stopLsa <= nxio_lsa
  BY Zenon DEF IInv, SyncInv
<1> pc \in [Writers -> WriterPcs] /\ resume \in [Writers -> Resumes]
    /\ entryEof \in [Writers -> 0 .. MaxLsa] /\ interrupt \in [Writers -> BOOLEAN]
  BY Zenon DEF TypeOK
<1>1. /\ UNCHANGED <<status[w], lastSent[w], req[w], origMode[w], packed[w], round[w]>>
      /\ UNCHANGED <<eof_lsa, stopping, stopLsa>>
  BY Zenon DEF ConnDown, StopInterrupt, SetEof, IsDelayed, logVars, entryVars,
     callVars, stopVars
<1>2. CASE ConnDown(w) \/ StopInterrupt(w)
  <2>1. /\ entryEof'[w] = entryEof[w] /\ stopped' = stopped
        /\ pc'[w] = pc[w] \/ (pc[w] = "suspended" /\ pc'[w] = "awake")
    BY Zenon, <1>2 DEF ConnDown, StopInterrupt, InterruptSuspended, Goto,
       entryVars, stopVars
  <2>2. stopping \/ interrupt'[w]
    BY Zenon, <1>2 DEF ConnDown, StopInterrupt
  <2>3. interrupt[w] => interrupt'[w]
    BY Zenon, <1>2 DEF ConnDown, StopInterrupt
  <2>4. CallInv(w)'
    BY Zenon, <1>1, <2>1 DEF WriterInv, CallInv
  <2>5. InterruptInv(w)'
    BY Zenon, <1>1, <2>1, <2>2, <2>3 DEF WriterInv, InterruptInv
  <2>6. OwedInv(w)'
    BY Zenon, <1>1, <2>1, <2>2, <2>3 DEF WriterInv, OwedInv
  <2>7. ConfirmedInv(w)'
    BY Zenon, <1>1, <2>1 DEF WriterInv, ConfirmedInv
  <2> QED
    BY Zenon, <2>4, <2>5, <2>6, <2>7 DEF WriterInv
<1>3. CASE SetEof(w)
  <2>1. /\ entryEof'[w] = eof_lsa /\ stopped' = stopped
        /\ interrupt'[w] = interrupt[w] /\ resume'[w] = resume[w]
        /\ \/ pc[w] = "delayed!" /\ pc'[w] = "delayed?"
           \/ pc[w] = "seteof!" /\ pc'[w] = "pack?"
    BY Zenon, <1>3 DEF SetEof, Goto, stopVars
  <2>2. eof_lsa >= stopLsa
    <3>1. eof_lsa \in Nat /\ nxio_lsa \in Nat /\ stopLsa \in Nat
      BY Zenon, LogTypes
    <3> QED
      BY <3>1 DEF DiskInv
  <2>3. CallInv(w)'
    BY Zenon, <1>1, <2>1 DEF WriterInv, CallInv
  <2>4. InterruptInv(w)'
    BY Zenon, <1>1, <2>1, <2>2 DEF WriterInv, InterruptInv
  <2>5. OwedInv(w)' /\ ConfirmedInv(w)'
    BY Zenon, <1>1, <2>1 DEF WriterInv, OwedInv, ConfirmedInv
  <2> QED
    BY Zenon, <2>3, <2>4, <2>5 DEF WriterInv
<1>4. CASE IsDelayed(w)
  <2>1. /\ pc[w] = "delayed?" /\ entryEof[w] # 0
        /\ entryEof'[w] = entryEof[w] /\ interrupt'[w] = interrupt[w]
        /\ resume'[w] = resume[w]
    BY Zenon, <1>4 DEF IsDelayed, entryVars, NullLsa
  <2>2. CASE Delayed(w)
    <3>1. pc'[w] = "enddelay" /\ stopped' = stopped
      BY Zenon, <1>4, <2>2 DEF IsDelayed, Goto
    <3> QED
      BY Zenon, <1>1, <2>1, <3>1, OwnMove DEF Move
  <2>3. CASE ~Delayed(w)
    <3>1. pc'[w] = "error" /\ stopped' = stopped \cup {w}
      BY Zenon, <1>4, <2>3 DEF IsDelayed, Goto
    <3>2. stopping /\ entryEof[w] >= stopLsa /\ lastSent[w] >= 1
      BY Zenon, <2>1 DEF WriterInv, InterruptInv, ConfirmedInv
    <3>3. lastSent[w] >= stopLsa
      <4>1. lastSent[w] \in Nat /\ entryEof[w] \in Nat /\ stopLsa \in Nat
        BY Zenon, WriterTypes
      <4> QED
        BY <2>3, <3>2, <4>1 DEF Delayed, NullLsa
    <3>4. CallInv(w)' /\ InterruptInv(w)'
      BY Zenon, <1>1, <2>1, <3>1, <3>2 DEF WriterInv, CallInv, InterruptInv
    <3>5. OwedInv(w)'
      BY Zenon, <1>1, <3>2 DEF OwedInv
    <3>6. ConfirmedInv(w)'
      BY Zenon, <1>1, <2>1, <3>1, <3>2, <3>3 DEF WriterInv, ConfirmedInv
    <3> QED
      BY Zenon, <3>4, <3>5, <3>6 DEF WriterInv
  <2> QED
    BY Zenon, <2>2, <2>3
<1> QED
  BY Zenon, <1>2, <1>3, <1>4

(* A step that leaves a writer and what it has alone keeps its invariant,   *)
(* also when the log grows.                                                 *)
LEMMA WriterUnchanged ==
  ASSUME TypeOK, NEW w \in Writers, WriterInv(w),
         UNCHANGED <<pc[w], status[w], entryEof[w], lastSent[w]>>,
         UNCHANGED <<req[w], origMode[w], packed[w], resume[w], round[w]>>,
         interrupt'[w] = interrupt[w], w \in stopped' <=> w \in stopped,
         UNCHANGED <<stopping, stopLsa>>, eof_lsa' \in Nat, eof_lsa <= eof_lsa'
  PROVE  WriterInv(w)'
PROOF
<1> USE LogWriterAssumption
<1>1. CallInv(w)'
  <2>1. round[w] <= eof_lsa => round[w] <= eof_lsa'
    <3>1. round[w] \in Nat /\ eof_lsa \in Nat
      BY Zenon, WriterTypes
    <3> QED
      BY <3>1
  <2> QED
    BY Zenon, <2>1 DEF WriterInv, CallInv
<1>2. InterruptInv(w)'
  BY Zenon DEF WriterInv, InterruptInv
<1>3. OwedInv(w)'
  BY Zenon DEF WriterInv, OwedInv
<1>4. ConfirmedInv(w)'
  BY Zenon DEF WriterInv, ConfirmedInv
<1> QED
  BY Zenon, <1>1, <1>2, <1>3, <1>4 DEF WriterInv

(* A step of a flusher.                                                     *)
LEMMA FlusherStep ==
  ASSUME IInv, SyncInv, NEW f \in Flushers, FlushEnter(f) \/ Flush(f),
         NEW w \in Writers
  PROVE  WriterInv(w)' /\ (stopLsa <= nxio_lsa)'
PROOF
<1> USE LogWriterAssumption DEF logVars, entryVars, callVars, stopVars
<1> TypeOK /\ EntryInv(w) /\ WriterInv(w) /\ DiskInv /\ stopLsa <= nxio_lsa
  BY Zenon DEF IInv, SyncInv
<1> eof_lsa \in Nat /\ nxio_lsa \in Nat /\ stopLsa \in Nat
  BY Zenon, LogTypes
<1>1. CASE FlushStart(f)
  <2>1. eof_lsa' \in Nat /\ eof_lsa <= eof_lsa'
    BY <1>1 DEF FlushStart
  <2> QED
    BY Zenon, <1>1, <2>1, WriterUnchanged DEF FlushStart
<1>2. CASE FlushMark(f)
  <2>1. /\ UNCHANGED <<eof_lsa, nxio_lsa, stopping, stopLsa, stopped>>
        /\ UNCHANGED <<entryEof[w], lastSent[w], req[w], origMode[w], packed[w]>>
        /\ interrupt'[w] = interrupt[w]
    BY Zenon, <1>2 DEF FlushMark
  <2>2. CASE status[w] # "WAIT"
    <3>1. /\ round'[w] = 0
          /\ UNCHANGED <<status[w], resume[w], pc[w]>>
      BY Zenon, <1>2, <2>2 DEF FlushMark
    <3>2. /\ 0 <= eof_lsa /\ 0 <= req[w].fpageid + PackPages - 1
          /\ lastSent[w] >= 0 /\ packed[w].lpageid >= 0
      <4>1. /\ req[w].fpageid \in Nat /\ lastSent[w] \in Nat
            /\ packed[w].lpageid \in Nat
        BY Zenon, WriterTypes
      <4> QED
        BY Zenon, <4>1, CoversNothing
    <3>3. CallInv(w)' /\ InterruptInv(w)'
      BY Zenon, <2>1, <3>1, <3>2 DEF WriterInv, CallInv, InterruptInv
    <3>4. OwedInv(w)' /\ ConfirmedInv(w)'
      BY Zenon, <2>1, <3>1, <3>2 DEF WriterInv, OwedInv, ConfirmedInv
    <3> QED
      BY Zenon, <2>1, <3>3, <3>4 DEF WriterInv
  <2>3. CASE status[w] = "WAIT"
    <3>1. /\ status'[w] = "FETCH" /\ resume'[w] = "LOGWR_RESUMED"
          /\ pc'[w] = IF pc[w] = "suspended" THEN "awake" ELSE pc[w]
          /\ round'[w] = IF req[w].mode = "SYNC"
                           THEN Min(eof_lsa, req[w].fpageid + PackPages - 1) ELSE 0
      BY Zenon, <1>2, <2>3 DEF FlushMark
    <3>2. /\ round'[w] \in Nat /\ round'[w] <= eof_lsa
          /\ round'[w] <= req[w].fpageid + PackPages - 1
          /\ round'[w] # 0 => req[w].mode = "SYNC"
      <4>1. req[w].fpageid \in Nat
        BY Zenon, WriterTypes
      <4> QED
        BY <3>1, <4>1 DEF Min
    <3>3. pc[w] \in Asleep
      BY Zenon, <2>3 DEF EntryInv
    <3>4. CallInv(w)'
      BY Zenon, <2>1, <2>3, <3>1, <3>2, <3>3 DEF WriterInv, CallInv, Asleep
    <3>5. InterruptInv(w)'
      BY Zenon, <2>1, <2>3, <3>1, <3>3 DEF WriterInv, InterruptInv, Asleep
    <3>6. OwedInv(w)'
      BY Zenon, <2>1, <3>1, <3>2, <3>3 DEF OwedInv, Asleep
    <3>7. ConfirmedInv(w)'
      BY Zenon, <2>1, <3>1, <3>3 DEF WriterInv, ConfirmedInv, Asleep
    <3> QED
      BY Zenon, <2>1, <3>4, <3>5, <3>6, <3>7 DEF WriterInv
  <2> QED
    BY Zenon, <2>2, <2>3
<1>3. CASE FlushWrite(f)
  <2>1. nxio_lsa <= nxio_lsa' /\ nxio_lsa' \in Nat /\ eof_lsa' \in Nat /\ eof_lsa <= eof_lsa'
    <3>1. nxio_lsa' = eof_lsa /\ eof_lsa' = eof_lsa
      BY Zenon, <1>3 DEF FlushWrite
    <3> QED
      BY <3>1 DEF DiskInv
  <2>2. stopLsa' <= nxio_lsa'
    <3>1. stopLsa' = stopLsa
      BY Zenon, <1>3 DEF FlushWrite
    <3> QED
      BY <2>1, <3>1
  <2> QED
    BY Zenon, <1>3, <2>1, <2>2, WriterUnchanged DEF FlushWrite
<1>4. CASE FlushCompleted(f)
  <2>1. /\ UNCHANGED <<eof_lsa, nxio_lsa, stopping, stopLsa, stopped, round[w]>>
        /\ UNCHANGED <<entryEof[w], lastSent[w], req[w], origMode[w], packed[w]>>
        /\ UNCHANGED <<status[w], resume[w]>> /\ interrupt'[w] = interrupt[w]
    BY Zenon, <1>4 DEF FlushCompleted
  <2>2. pc'[w] = IF pc[w] = "flushwait" THEN "ready" ELSE pc[w]
    BY Zenon, <1>4 DEF FlushCompleted
  <2>3. pc'[w] = pc[w] \/ (pc[w] = "flushwait" /\ pc'[w] = "ready")
    BY Zenon, <2>2
  <2>4. CallInv(w)'
    BY Zenon, <2>1, <2>3 DEF WriterInv, CallInv
  <2>5. InterruptInv(w)'
    BY Zenon, <2>1, <2>3 DEF WriterInv, InterruptInv
  <2>6. OwedInv(w)'
    BY Zenon, <2>1, <2>3 DEF WriterInv, OwedInv
  <2>7. ConfirmedInv(w)'
    BY Zenon, <2>1, <2>3 DEF WriterInv, ConfirmedInv
  <2> QED
    BY Zenon, <2>1, <2>4, <2>5, <2>6, <2>7 DEF WriterInv
<1>5. CASE FlushEnter(f) \/ FlushNothing(f) \/ FlushEnd(f) \/ FlushPromote(f) \/ FlushExit(f)
  <2>1. /\ UNCHANGED <<eof_lsa, nxio_lsa, stopping, stopLsa, stopped, round, pc>>
        /\ UNCHANGED <<entryEof, lastSent, req, origMode, packed, status, resume, interrupt>>
    BY Zenon, <1>5 DEF FlushEnter, FlushNothing, FlushEnd, FlushPromote, FlushExit
  <2>2. eof_lsa' \in Nat /\ eof_lsa <= eof_lsa'
    BY <2>1
  <2> QED
    BY Zenon, <2>1, <2>2, WriterUnchanged
<1> QED
  BY Zenon, <1>1, <1>2, <1>3, <1>4, <1>5 DEF Flush

(* A step of a writer.                                                      *)
LEMMA WriterStep ==
  ASSUME IInv, SyncInv, NEW w \in Writers,
         \/ Connect(w) \/ UsesLogCs(w) \/ Serve(w) \/ Timeout(w)
         \/ PackFails(w) \/ SendFails(w) \/ ConnDown(w) \/ StopInterrupt(w)
  PROVE  SyncInv'
PROOF
<1> TypeOK BY Zenon DEF IInv
<1>1. UNCHANGED <<eof_lsa, nxio_lsa, stopping, stopLsa>>
  BY Zenon DEF UsesLogCs, Serve, logVars, stopVars, Connect, Register, Suspend,
     Timeout, UnregisterTimedOut, Woken, SetEofEnter, SetEof, SetEofNot,
     IsDelayed, EndDelay, PackEnter, Pack, Copy, PackFails, WaitFlush, Ready,
     Send, Reply, SendFails, End, Error, ConnDown, StopInterrupt
<1>2. WriterInv(w)'
  BY Zenon, OwnRegister, OwnPack, OwnReady, OwnReply, OwnMoves, OwnConnect,
     OwnUnregister, OwnInterrupt DEF UsesLogCs, Serve
<1>3. Others(w)
  BY Zenon, OthersStep DEF UsesLogCs, Serve
<1>4. eof_lsa' \in Nat /\ eof_lsa <= eof_lsa'
  <2>1. eof_lsa \in Nat
    BY Zenon, LogTypes
  <2> QED
    BY <1>1, <2>1
<1>5. ASSUME NEW u \in Writers, u # w PROVE WriterInv(u)'
  <2>1. WriterInv(u)
    BY Zenon DEF SyncInv
  <2> QED
    BY Zenon, <1>1, <1>3, <1>4, <1>5, <2>1, WriterUnchanged DEF Others
<1>6. (stopLsa <= nxio_lsa)'
  BY Zenon, <1>1 DEF SyncInv
<1> QED
  BY Zenon, <1>2, <1>5, <1>6 DEF SyncInv

(* A server that has just started owes nobody anything.                     *)
LEMMA SyncInit ==
  Init => SyncInv
PROOF
<1> SUFFICES ASSUME Init PROVE SyncInv
  OBVIOUS
<1> USE LogWriterAssumption
<1>1. stopLsa <= nxio_lsa
  BY DEF Init, NullLsa
<1>2. ASSUME NEW w \in Writers PROVE WriterInv(w)
  <2>1. /\ pc[w] = "out" /\ status[w] = "NONE" /\ entryEof[w] = 0 /\ lastSent[w] = 0
        /\ req[w] = [fpageid |-> 0, mode |-> "ASYNC"]
        /\ packed[w] = [lpageid |-> 0, status |-> "DELAY"]
        /\ resume[w] = "NONE" /\ ~stopping /\ stopped = {} /\ round[w] = 0
        /\ eof_lsa = 1 /\ nxio_lsa = 1 /\ stopLsa = 0
    BY Zenon DEF Init, NullLsa, HeaderPage
  <2> QED
    <3>1. /\ 0 <= 1 /\ 0 >= 0 /\ 0 <= 0 + PackPages - 1
          /\ req[w].fpageid = 0 /\ req[w].mode = "ASYNC" /\ packed[w].status = "DELAY"
      BY <2>1
    <3> QED
      BY Zenon, <2>1, <3>1 DEF WriterInv, CallInv, InterruptInv, OwedInv, ConfirmedInv
<1> QED
  BY Zenon, <1>1, <1>2 DEF SyncInv

(* Every step of every flusher, writer and of the shutdown keeps SyncInv.   *)
LEMMA SyncNext ==
  IInv /\ SyncInv /\ [Next]_vars => SyncInv'
PROOF
<1> SUFFICES ASSUME IInv, SyncInv, [Next]_vars PROVE SyncInv'
  OBVIOUS
<1>1. CASE \E f \in Flushers : FlushEnter(f) \/ Flush(f)
  <2>1. PICK f \in Flushers : FlushEnter(f) \/ Flush(f)
    BY Zenon, <1>1
  <2>2. CASE Writers # {}
    BY Zenon, <2>1, <2>2, FlusherStep DEF SyncInv
  <2>3. CASE Writers = {}
    <3>1. stopLsa' = stopLsa /\ (nxio_lsa' = nxio_lsa \/ nxio_lsa' = eof_lsa)
      BY Zenon, <2>1 DEF Flush, FlushEnter, FlushNothing, FlushStart, FlushMark,
         FlushWrite, FlushCompleted, FlushEnd, FlushPromote, FlushExit, logVars, stopVars
    <3>2. eof_lsa \in Nat /\ nxio_lsa \in Nat /\ stopLsa \in Nat
      BY Zenon, LogTypes DEF IInv
    <3>3. stopLsa <= nxio_lsa /\ nxio_lsa <= eof_lsa
      BY Zenon DEF SyncInv, IInv, DiskInv
    <3>4. stopLsa' <= nxio_lsa'
      BY <3>1, <3>2, <3>3
    <3> QED
      BY Zenon, <2>3, <3>4 DEF SyncInv
  <2> QED
    BY Zenon, <2>2, <2>3
<1>2. ASSUME NEW w \in Writers,
             \/ Connect(w) \/ UsesLogCs(w) \/ Serve(w) \/ Timeout(w)
             \/ PackFails(w) \/ SendFails(w) \/ ConnDown(w) \/ StopInterrupt(w)
      PROVE  SyncInv'
  BY Zenon, <1>2, WriterStep
<1>3. CASE StopServer
  <2> USE <1>3 DEF StopServer, logVars, entryVars, callVars
  <2>1. stopLsa' <= nxio_lsa'
    <3>1. nxio_lsa \in Nat /\ stopLsa' = nxio_lsa /\ nxio_lsa' = nxio_lsa
      BY Zenon, LogTypes DEF IInv
    <3> QED
      BY <3>1
  <2>2. ASSUME NEW w \in Writers PROVE WriterInv(w)'
    <3> WriterInv(w) BY Zenon DEF SyncInv
    <3>1. CallInv(w)'
      BY Zenon DEF WriterInv, CallInv
    <3>2. InterruptInv(w)'
      BY Zenon DEF WriterInv, InterruptInv
    <3>3. OwedInv(w)'
      BY Zenon DEF OwedInv
    <3>4. ConfirmedInv(w)'
      BY Zenon DEF WriterInv, ConfirmedInv
    <3> QED
      BY Zenon, <3>1, <3>2, <3>3, <3>4 DEF WriterInv
  <2> QED
    BY Zenon, <2>1, <2>2 DEF SyncInv
<1>4. CASE UNCHANGED vars
  <2> USE <1>4 DEF vars, logVars, entryVars, callVars, stopVars
  <2>1. ASSUME NEW w \in Writers PROVE WriterInv(w)'
    <3>1. eof_lsa' \in Nat /\ eof_lsa <= eof_lsa'
      <4>1. eof_lsa \in Nat /\ eof_lsa' = eof_lsa
        BY Zenon, LogTypes DEF IInv
      <4> QED
        BY <4>1
    <3> QED
      BY Zenon, <3>1, WriterUnchanged DEF IInv, SyncInv
  <2> QED
    BY Zenon, <2>1 DEF SyncInv
<1> QED
  BY Zenon, <1>1, <1>2, <1>3, <1>4 DEF Next

(* In synchronous mode (LOGWR_MODE_SYNC) the flush that woke a writer takes *)
(* LOG_CS back only after the copier has confirmed the pages it was owed:   *)
(* any number of writers and flushers, whatever connections break.          *)
THEOREM FlushedPagesConfirmed == Spec => []SyncCopied
PROOF
<1>1. IInv /\ SyncInv => SyncCopied
  <2> SUFFICES ASSUME IInv, SyncInv, NEW w \in Writers, NEW f \in Flushers,
                      fpc[f] \in {"promote", "exit"}, ~stopping
               PROVE  lastSent[w] >= round[w]
    BY Zenon DEF SyncCopied
  <2>1. status[w] # "FETCH"
    BY Zenon, OneFlusher DEF IInv, NoneFetchingAfter, Fetching
  <2> QED
    BY Zenon, <2>1 DEF SyncInv, WriterInv, OwedInv
<1> QED
  BY <1>1, IInvInit, IInvNext, SyncInit, SyncNext, PTL DEF Spec

(* A log writer that leaves because of thread_stop_active_workers           *)
(* (logwr_is_delayed is false for it) leaves nothing behind that was on     *)
(* disk when the server began to stop.                                      *)
THEOREM WritersStopInSync == Spec => []StopsInSync
PROOF
<1>1. IInv /\ SyncInv => StopsInSync
  BY Zenon DEF IInv, TypeOK, SyncInv, WriterInv, ConfirmedInv, StopsInSync
<1> QED
  BY <1>1, IInvInit, IInvNext, SyncInit, SyncNext, PTL DEF Spec
=============================================================================
