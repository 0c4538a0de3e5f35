----------------------------- MODULE LogWriter -----------------------------
(***************************************************************************)
(* How the server ships its log to the replicas: the flush of the log       *)
(* (logpb_flush_all_append_pages, src/transaction/log_page_buffer.c) and    *)
(* the log writer threads that serve the copiers of the replicas            *)
(* (xlogwr_get_log_pages, src/replication/repl_log_writer_sr.c).  They meet *)
(* in three hand-overs: the flush wakes the writers that wait for it, the   *)
(* writers wait until the pages are on disk, and the flush waits until the  *)
(* writers are done.  All of them use the critical section LOG_CS, which    *)
(* the flush demotes while it waits: its promise, RWLock, is used here.     *)
(*                                                                          *)
(* What a thread does under one of the mutexes flush_start_mutex,           *)
(* flush_wait_mutex, flush_end_mutex and wr_list_mutex is one step.  An LSA *)
(* is a page number: the log ends at page eof_lsa.                          *)
(***************************************************************************)
EXTENDS Integers, FiniteSets

CONSTANTS
  Writers,         \* log writer threads, one for each connected copier
  Flushers,        \* threads that flush the log: the flush daemon and others
  MaxLsa,          \* bound on the length of the log, in pages
  PackPages,       \* LOGWR_COPY_LOG_BUFFER_NPAGES - 1
  ClientMode,      \* the mode a synchronized copier asks for
  MayFail,         \* connections may break and pages may be unreadable
  MayStop,         \* the server may be told to stop
  FlushWhileStop   \* system threads still write log while the writers stop

ASSUME LogWriterAssumption ==
  /\ IsFiniteSet(Writers) /\ IsFiniteSet(Flushers)
  /\ Writers \cap Flushers = {}
  /\ MaxLsa \in Nat \ {0} /\ PackPages \in Nat \ {0}
  /\ ClientMode \in {"ASYNC", "SYNC"}
  /\ MayFail \in BOOLEAN /\ MayStop \in BOOLEAN /\ FlushWhileStop \in BOOLEAN

VARIABLES
  csMode, csReserved,  \* LOG_CS: what each thread holds, and who demoted
  eof_lsa,             \* log_Gl.hdr.eof_lsa
  nxio_lsa,            \* log_Gl.append.nxio_lsa: the log before it is on disk
  flush_completed,     \* writer_info->flush_completed
  fpc,                 \* fpc[f]: where flusher f is
  pc,                  \* pc[w]: where writer w is
  status,              \* status[w]: LOGWR_ENTRY.status, "NONE": no entry
  entryEof,            \* LOGWR_ENTRY.eof_lsa, set when the server stops
  lastSent,            \* LOGWR_ENTRY.last_sent_eof_lsa
  req,                 \* req[w]: first_pageid and mode of the request
  origMode,            \* orig_mode: SYNC once the copier has asked for it
  packed,              \* packed[w]: last page packed, and the status it gives
  endAfterSend,        \* need_cs_exit_after_send
  resume,              \* THREAD_ENTRY.resume_status
  interrupt,           \* LOG_TDES.interrupt: the connection has gone
  copied,              \* copied[w]: last page the copier of w has received
  stopping,            \* thread_stop_active_workers (THREAD_STOP_LOGWR)
  stopLsa,             \* end of the log when stopping began, 0 before
  stopped,             \* writers that left because the server stops
  round                \* round[w]: page w owes the flush that woke it, or 0

csVars    == <<csMode, csReserved>>
logVars   == <<eof_lsa, nxio_lsa, flush_completed>>
entryVars == <<status, entryEof, lastSent>>
callVars  == <<req, origMode, packed, endAfterSend>>
stopVars  == <<stopping, stopLsa, stopped>>
vars == <<csVars, logVars, fpc, pc, entryVars, callVars, resume, interrupt,
          copied, stopVars, round>>

LogCs == INSTANCE RWLock WITH Threads <- Writers \cup Flushers,
                              mode <- csMode, reserved <- csReserved

NullLsa == 0
HeaderPage == 0      \* LOGPB_HEADER_PAGE_ID: a request for the header only
Statuses == {"NONE", "WAIT", "FETCH", "DONE", "DELAY"}
Resumes  == {"NONE", "LOGWR_SUSPENDED", "LOGWR_RESUMED", "DUE_TO_INTERRUPT",
             "OTHER_RESUMED"}
WriterPcs == {"out", "register", "suspending", "suspended", "awake",
              "timedout", "delayed?", "delayed!", "seteof?", "seteof!",
              "pack?", "pack!", "copy", "packed", "flushwait", "ready",
              "send", "reply", "end", "enddelay", "error"}
FlusherPcs == {"idle", "start", "demoted", "flushing", "flushed", "ending",
               "endwait", "promote", "exit"}

Min(a, b) == IF a < b THEN a ELSE b
Fetching == {w \in Writers : status[w] = "FETCH"}

-----------------------------------------------------------------------------
(* A server that has restarted, with one page of log on disk.               *)
Init ==
  /\ LogCs!Init
  /\ eof_lsa = 1 /\ nxio_lsa = 1 /\ flush_completed = FALSE
  /\ fpc = [f \in Flushers |-> "idle"]
  /\ pc = [w \in Writers |-> "out"]
  /\ status = [w \in Writers |-> "NONE"]
  /\ entryEof = [w \in Writers |-> NullLsa]
  /\ lastSent = [w \in Writers |-> NullLsa]
  /\ req = [w \in Writers |-> [fpageid |-> HeaderPage, mode |-> "ASYNC"]]
  /\ origMode = [w \in Writers |-> "ASYNC"]
  /\ packed = [w \in Writers |-> [lpageid |-> 0, status |-> "DELAY"]]
  /\ endAfterSend = [w \in Writers |-> TRUE]
  /\ resume = [w \in Writers |-> "NONE"]
  /\ interrupt = [w \in Writers |-> FALSE]
  /\ copied = [w \in Writers |-> 0]
  /\ stopping = FALSE /\ stopLsa = NullLsa /\ stopped = {}
  /\ round = [w \in Writers |-> 0]

-----------------------------------------------------------------------------
(* The list of writers.                                                     *)

(* logwr_unregister_writer_entry under flush_end_mutex, and the signal that *)
(* follows when no writer is fetching any more.  "NONE": the entry is freed *)
(* (LOGWR_STATUS_ERROR).                                                    *)
Unregister(w, st) ==
  /\ status' = [status EXCEPT ![w] = st]
  /\ fpc' = [f \in Flushers |->
               IF fpc[f] = "endwait" /\ Fetching \ {w} = {}
                 THEN "promote" ELSE fpc[f]]

Goto(w, where) == pc' = [pc EXCEPT ![w] = where]
Resume(w, how) == resume' = [resume EXCEPT ![w] = how]

(* flush_start_mutex is held from the registration to the condition wait.   *)
FlushStartFree == \A w \in Writers : pc[w] # "suspending"

(* LOG_CS: a thread that has to wait for it comes back with the resume      *)
(* status of critical sections.                                             *)
AfterLogCs(w) == \E how \in {resume[w], "OTHER_RESUMED"} : Resume(w, how)

-----------------------------------------------------------------------------
(* The flush.  A flusher enters LOG_CS, appends the prior list and flushes. *)
FlushEnter(f) ==
  /\ fpc[f] = "idle"
  /\ stopping => FlushWhileStop
  /\ LogCs!Write(f)
  /\ fpc' = [fpc EXCEPT ![f] = "start"]
  /\ UNCHANGED <<logVars, pc, entryVars, callVars, resume, interrupt, copied,
                 stopVars, round>>

(* Nothing is dirty: logpb_flush_all_append_pages returns at once.          *)
FlushNothing(f) ==
  /\ fpc[f] = "start"
  /\ fpc' = [fpc EXCEPT ![f] = "exit"]
  /\ UNCHANGED <<csVars, logVars, pc, entryVars, callVars, resume, interrupt,
                 copied, stopVars, round>>

(* The end-of-log record moves eof_lsa; LOG_CS is demoted.                  *)
FlushStart(f) ==
  /\ fpc[f] = "start"
  /\ eof_lsa' \in (eof_lsa + 1) .. MaxLsa
  /\ LogCs!StepBack(f) /\ csMode'[f] = "read"
  /\ fpc' = [fpc EXCEPT ![f] = "demoted"]
  /\ UNCHANGED <<nxio_lsa, flush_completed, pc, entryVars, callVars, resume,
                 interrupt, copied, stopVars, round>>

(* Every waiting writer is marked FETCH and woken, wherever it waits.       *)
FlushMark(f) ==
  /\ fpc[f] = "demoted" /\ FlushStartFree
  /\ LET waiting == {w \in Writers : status[w] = "WAIT"} IN
     /\ status' = [w \in Writers |-> IF w \in waiting THEN "FETCH" ELSE status[w]]
     /\ resume' = [w \in Writers |->
                     IF w \in waiting THEN "LOGWR_RESUMED" ELSE resume[w]]
     /\ pc' = [w \in Writers |->
                 IF w \in waiting /\ pc[w] = "suspended" THEN "awake" ELSE pc[w]]
     /\ round' = [w \in Writers |->
                    IF w \in waiting /\ req[w].mode = "SYNC"
                      THEN Min(eof_lsa, req[w].fpageid + PackPages - 1) ELSE 0]
  /\ flush_completed' = FALSE
  /\ fpc' = [fpc EXCEPT ![f] = "flushing"]
  /\ UNCHANGED <<csVars, eof_lsa, nxio_lsa, entryEof, lastSent, callVars,
                 interrupt, copied, stopVars>>

(* The pages are written and synchronized.                                  *)
FlushWrite(f) ==
  /\ fpc[f] = "flushing"
  /\ nxio_lsa' = eof_lsa
  /\ fpc' = [fpc EXCEPT ![f] = "flushed"]
  /\ UNCHANGED <<csVars, eof_lsa, flush_completed, pc, entryVars, callVars,
                 resume, interrupt, copied, stopVars, round>>

FlushCompleted(f) ==
  /\ fpc[f] = "flushed"
  /\ flush_completed' = TRUE
  /\ pc' = [w \in Writers |-> IF pc[w] = "flushwait" THEN "ready" ELSE pc[w]]
  /\ fpc' = [fpc EXCEPT ![f] = "ending"]
  /\ UNCHANGED <<csVars, eof_lsa, nxio_lsa, entryVars, callVars, resume,
                 interrupt, copied, stopVars, round>>

(* Mutant: the flush does not wait for the writers.                         *)
MutFlushEnd(f) ==
  /\ fpc[f] = "ending"
  /\ fpc' = [fpc EXCEPT ![f] = "promote"]
  /\ UNCHANGED <<csVars, logVars, pc, entryVars, callVars, resume, interrupt,
                 copied, stopVars, round>>

FlushEnd(f) ==
  /\ fpc[f] = "ending"
  /\ fpc' = [fpc EXCEPT ![f] = IF Fetching # {} THEN "endwait" ELSE "promote"]
  /\ UNCHANGED <<csVars, logVars, pc, entryVars, callVars, resume, interrupt,
                 copied, stopVars, round>>

(* LOG_CS_PROMOTE, which leaves the section while readers are inside.       *)
FlushPromote(f) ==
  /\ fpc[f] = "promote"
  /\ \/ /\ LogCs!StepForward(f)
        /\ fpc' = [fpc EXCEPT ![f] = "exit"]
     \/ /\ ~LogCs!OthersOut(f)
        /\ LogCs!StepAside(f)
        /\ UNCHANGED fpc
  /\ UNCHANGED <<logVars, pc, entryVars, callVars, resume, interrupt, copied,
                 stopVars, round>>

FlushExit(f) ==
  /\ fpc[f] = "exit"
  /\ LogCs!Leave(f)
  /\ fpc' = [fpc EXCEPT ![f] = "idle"]
  /\ UNCHANGED <<logVars, pc, entryVars, callVars, resume, interrupt, copied,
                 stopVars, round>>

-----------------------------------------------------------------------------
(* A log writer: xlogwr_get_log_pages.                                      *)

(* What a copier asks for (cirpwr_get_log_pages): its last page again when  *)
(* that was the end of the log, the next one otherwise.                     *)
Requests(last, synchronized) ==
  IF last = HeaderPage THEN [fpageid : {1}, mode : {"ASYNC"}]
    ELSE IF synchronized THEN [fpageid : {last}, mode : {ClientMode}]
    ELSE [fpageid : {last + 1}, mode : {"ASYNC", ClientMode}]

MaxMode(m, n) == IF m = "SYNC" THEN m ELSE n   \* MAX (mode, orig_mode)

(* A copier connects and asks for the header, or asks again after an error. *)
Connect(w) ==
  /\ pc[w] = "out" /\ ~stopping
  /\ \E r \in Requests(copied[w], TRUE)
             \cup [fpageid : {HeaderPage}, mode : {"ASYNC"}] :
       /\ req' = [req EXCEPT ![w] = r]
       /\ origMode' = [origMode EXCEPT ![w] = r.mode]
  /\ endAfterSend' = [endAfterSend EXCEPT ![w] = TRUE]
  /\ interrupt' = [interrupt EXCEPT ![w] = FALSE]
  /\ Resume(w, "OTHER_RESUMED")
  /\ Goto(w, "register")
  /\ UNCHANGED <<csVars, logVars, fpc, entryVars, packed, copied, stopVars, round>>

(* logwr_register_writer_entry: a new entry, and one that is behind, is     *)
(* DELAY and goes on; the others wait for the next flush.                   *)
Register(w) ==
  /\ pc[w] = "register" /\ FlushStartFree
  /\ IF status[w] \in {"NONE", "DELAY"}
       THEN /\ status' = [status EXCEPT ![w] = "DELAY"]
            /\ Goto(w, "seteof?")
            /\ UNCHANGED resume
       ELSE /\ status' = [status EXCEPT ![w] = "WAIT"]
            /\ Goto(w, "suspending")
            /\ Resume(w, "LOGWR_SUSPENDED")
  /\ IF status[w] = "NONE"
       THEN /\ entryEof' = [entryEof EXCEPT ![w] = NullLsa]
            /\ lastSent' = [lastSent EXCEPT ![w] = NullLsa]
       ELSE UNCHANGED <<entryEof, lastSent>>
  /\ UNCHANGED <<csVars, logVars, fpc, callVars, interrupt, copied, stopVars, round>>

(* pthread_cond_wait releases flush_start_mutex.  A signal sent before it   *)
(* (the shutdown thread does not take that mutex) is lost.                  *)
Suspend(w) ==
  /\ pc[w] = "suspending"
  /\ Goto(w, "suspended")
  /\ UNCHANGED <<csVars, logVars, fpc, entryVars, callVars, resume, interrupt,
                 copied, stopVars, round>>

(* LOGWR_THREAD_SUSPEND_TIMEOUT: only a writer in asynchronous mode.        *)
Timeout(w) ==
  /\ pc[w] = "suspended" /\ req[w].mode = "ASYNC"
  /\ Goto(w, "timedout")
  /\ UNCHANGED <<csVars, logVars, fpc, entryVars, callVars, resume, interrupt,
                 copied, stopVars, round>>

(* Mutant: a writer that timed out goes back to waiting.                    *)
MutUnregisterTimedOut(w) ==
  /\ pc[w] = "timedout"
  /\ Unregister(w, "DONE")
  /\ Goto(w, "register")
  /\ UNCHANGED <<csVars, logVars, entryEof, lastSent, callVars, resume,
                 interrupt, copied, stopVars, round>>

UnregisterTimedOut(w) ==
  /\ pc[w] = "timedout"
  /\ Unregister(w, "DELAY")
  /\ Goto(w, "register")
  /\ UNCHANGED <<csVars, logVars, entryEof, lastSent, callVars, resume,
                 interrupt, copied, stopVars, round>>

(* Why has the writer been woken?                                           *)
Woken(w) ==
  /\ pc[w] = "awake"
  /\ Goto(w, IF interrupt[w] THEN "error"
             ELSE IF resume[w] = "DUE_TO_INTERRUPT" THEN "delayed?"
             ELSE IF resume[w] = "LOGWR_RESUMED" THEN "pack?"
             ELSE "error")
  /\ UNCHANGED <<csVars, logVars, fpc, entryVars, callVars, resume, interrupt,
                 copied, stopVars, round>>

(* logwr_set_eof_lsa enters LOG_CS to write unless the entry has its eof_lsa *)
SetEofEnter(w) ==
  /\ \/ pc[w] = "delayed?" /\ Goto(w, "delayed!")
     \/ pc[w] = "seteof?" /\ resume[w] = "DUE_TO_INTERRUPT" /\ Goto(w, "seteof!")
  /\ entryEof[w] = NullLsa
  /\ LogCs!Write(w) /\ AfterLogCs(w)
  /\ UNCHANGED <<logVars, fpc, entryVars, callVars, interrupt, copied, stopVars, round>>

SetEof(w) ==
  /\ \/ pc[w] = "delayed!" /\ Goto(w, "delayed?")
     \/ pc[w] = "seteof!" /\ Goto(w, "pack?")
  /\ entryEof' = [entryEof EXCEPT ![w] = eof_lsa]
  /\ LogCs!Leave(w)
  /\ UNCHANGED <<logVars, fpc, status, lastSent, callVars, resume, interrupt,
                 copied, stopVars, round>>

SetEofNot(w) ==
  /\ pc[w] = "seteof?"
  /\ resume[w] # "DUE_TO_INTERRUPT" \/ entryEof[w] # NullLsa
  /\ Goto(w, "pack?")
  /\ UNCHANGED <<csVars, logVars, fpc, entryVars, callVars, resume, interrupt,
                 copied, stopVars, round>>

(* Mutant: a writer that is behind stops, one that is not goes on.          *)
MutDelayed(w) == lastSent[w] # NullLsa /\ lastSent[w] > entryEof[w]

(* Mutant: a writer whose copier has confirmed all of the log is behind.    *)
MutDelayedLe(w) == lastSent[w] # NullLsa /\ lastSent[w] <= entryEof[w]

(* logwr_is_delayed: the copier has not confirmed all of the log.           *)
Delayed(w) == lastSent[w] # NullLsa /\ lastSent[w] < entryEof[w]

(* A writer woken because the server stops sends the rest of the log first. *)
IsDelayed(w) ==
  /\ pc[w] = "delayed?" /\ entryEof[w] # NullLsa
  /\ Goto(w, IF Delayed(w) THEN "enddelay" ELSE "error")
  /\ stopped' = IF Delayed(w) THEN stopped ELSE stopped \cup {w}
  /\ UNCHANGED <<csVars, logVars, fpc, entryVars, callVars, resume, interrupt,
                 copied, stopping, stopLsa, round>>

EndDelay(w) ==
  /\ pc[w] = "enddelay"
  /\ Unregister(w, "DELAY")
  /\ Goto(w, "register")
  /\ UNCHANGED <<csVars, logVars, entryEof, lastSent, callVars, resume,
                 interrupt, copied, stopVars, round>>

(* logwr_pack_log_pages: the header and the bounds are read in LOG_CS ...   *)
PackEnter(w) ==
  /\ pc[w] = "pack?"
  /\ LogCs!Read(w) /\ AfterLogCs(w)
  /\ Goto(w, "pack!")
  /\ UNCHANGED <<logVars, fpc, entryVars, callVars, interrupt, copied, stopVars, round>>

PackEof(w) == IF entryEof[w] = NullLsa THEN eof_lsa ELSE entryEof[w]

LastPage(w) == Min(PackEof(w), req[w].fpageid + PackPages - 1)

Pack(w) ==
  /\ pc[w] = "pack!"
  /\ LET hdrOnly == req[w].fpageid = HeaderPage IN
     packed' = [packed EXCEPT ![w] =
       [lpageid |-> IF hdrOnly THEN NullLsa ELSE LastPage(w),
        status  |-> IF ~hdrOnly /\ LastPage(w) >= PackEof(w)
                      THEN "DONE" ELSE "DELAY"]]
  /\ LogCs!Leave(w)
  /\ Goto(w, "copy")
  /\ UNCHANGED <<logVars, fpc, entryVars, req, origMode, endAfterSend, resume,
                 interrupt, copied, stopVars, round>>

(* ... and each page is copied from the log buffer, or read from the file,  *)
(* in LOG_CS again (logpb_copy_page).                                       *)
Copy(w) ==
  /\ pc[w] = "copy"
  /\ \A u \in Writers \cup Flushers : csMode[u] # "write"
  /\ AfterLogCs(w)
  /\ Goto(w, "packed")
  /\ UNCHANGED <<csVars, logVars, fpc, entryVars, callVars, interrupt, copied,
                 stopVars, round>>

(* A page cannot be read, from the archive or from the active log.          *)
PackFails(w) ==
  /\ MayFail
  /\ \/ pc[w] = "pack!" /\ LogCs!Leave(w)
     \/ pc[w] = "copy" /\ UNCHANGED csVars
  /\ Goto(w, "error")
  /\ UNCHANGED <<logVars, fpc, entryVars, callVars, resume, interrupt, copied,
                 stopVars, round>>

(* Mutant: the pages of a flush are sent while it still writes them.        *)
MutWaitFlush(w) ==
  /\ pc[w] = "packed"
  /\ Goto(w, "ready")
  /\ UNCHANGED <<csVars, logVars, fpc, entryVars, callVars, resume, interrupt,
                 copied, stopVars, round>>

(* "wait until LFT finishes flushing"                                       *)
WaitFlush(w) ==
  /\ pc[w] = "packed"
  /\ Goto(w, IF status[w] = "FETCH" /\ ~flush_completed THEN "flushwait" ELSE "ready")
  /\ UNCHANGED <<csVars, logVars, fpc, entryVars, callVars, resume, interrupt,
                 copied, stopVars, round>>

(* Mutant: every mode releases the flush before the pages are sent.         *)
MutEndsBeforeSend(w) == origMode[w] \in {"ASYNC", "SYNC"}

EndsBeforeSend(w) ==
  \/ origMode[w] = "ASYNC"
  \/ req[w].mode = "ASYNC" /\ (status[w] # "DELAY" \/ packed[w].status # "DONE")

(* In asynchronous mode the flush is released before the pages are sent.    *)
Ready(w) ==
  /\ pc[w] = "ready"
  /\ IF EndsBeforeSend(w)
       THEN /\ Unregister(w, packed[w].status)
            /\ endAfterSend' = [endAfterSend EXCEPT ![w] = FALSE]
       ELSE UNCHANGED <<status, fpc, endAfterSend>>
  /\ Goto(w, "send")
  /\ UNCHANGED <<csVars, logVars, entryEof, lastSent, req, origMode, packed,
                 resume, interrupt, copied, stopVars, round>>

(* xlog_send_log_pages_to_client: the copier has the pages.                 *)
Send(w) ==
  /\ pc[w] = "send" /\ ~interrupt[w]
  /\ copied' = [copied EXCEPT ![w] = IF packed[w].lpageid = NullLsa
                                       THEN @ ELSE packed[w].lpageid]
  /\ Goto(w, "reply")
  /\ UNCHANGED <<csVars, logVars, fpc, entryVars, callVars, resume, interrupt,
                 stopVars, round>>

(* xlog_get_page_request_with_reply: the next request confirms the pages.   *)
Reply(w) ==
  /\ pc[w] = "reply"
  /\ lastSent' = [lastSent EXCEPT ![w] = packed[w].lpageid]
  /\ \E r \in Requests(packed[w].lpageid, packed[w].status = "DONE") :
       /\ req' = [req EXCEPT ![w] = r]
       /\ origMode' = [origMode EXCEPT ![w] = MaxMode(r.mode, @)]
  /\ AfterLogCs(w)
  /\ Goto(w, IF endAfterSend[w] THEN "end" ELSE "register")
  /\ endAfterSend' = [endAfterSend EXCEPT ![w] = TRUE]
  /\ UNCHANGED <<csVars, logVars, fpc, status, entryEof, packed, interrupt,
                 copied, stopVars, round>>

(* The send fails, the answer reports an error or does not come in time     *)
(* (PRM_ID_HA_COPY_LOG_TIMEOUT).                                            *)
SendFails(w) ==
  /\ MayFail \/ interrupt[w]
  /\ pc[w] \in {"send", "reply"}
  /\ Goto(w, "error")
  /\ UNCHANGED <<csVars, logVars, fpc, entryVars, callVars, resume, interrupt,
                 copied, stopVars, round>>

(* In synchronous mode the flush is released by the copier's answer.        *)
End(w) ==
  /\ pc[w] = "end"
  /\ Unregister(w, packed[w].status)
  /\ Goto(w, "register")
  /\ UNCHANGED <<csVars, logVars, entryEof, lastSent, callVars, resume,
                 interrupt, copied, stopVars, round>>

(* Mutant: a writer that fails frees its entry and does not signal.         *)
MutError(w) ==
  /\ pc[w] = "error"
  /\ status' = [status EXCEPT ![w] = "NONE"]
  /\ Goto(w, "out")
  /\ round' = [round EXCEPT ![w] = 0]
  /\ UNCHANGED <<csVars, logVars, fpc, entryEof, lastSent, callVars, resume,
                 interrupt, copied, stopVars>>

Error(w) ==
  /\ pc[w] = "error"
  /\ Unregister(w, "NONE")
  /\ Goto(w, "out")
  /\ round' = [round EXCEPT ![w] = 0]
  /\ UNCHANGED <<csVars, logVars, entryEof, lastSent, callVars, resume,
                 interrupt, copied, stopVars>>

-----------------------------------------------------------------------------
(* The other threads.  A wake-up sets the resume status; it reaches the     *)
(* writer only if it sleeps.                                                *)
InterruptSuspended(w) ==
  /\ Resume(w, "DUE_TO_INTERRUPT")
  /\ Goto(w, IF pc[w] = "suspended" THEN "awake" ELSE pc[w])

(* net_server_conn_down: the connection of w has gone.                      *)
ConnDown(w) ==
  /\ MayFail /\ pc[w] # "out" /\ ~interrupt[w]
  /\ interrupt' = [interrupt EXCEPT ![w] = TRUE]
  /\ IF resume[w] = "LOGWR_SUSPENDED"
       THEN InterruptSuspended(w) ELSE UNCHANGED <<pc, resume>>
  /\ UNCHANGED <<csVars, logVars, fpc, entryVars, callVars, copied, stopVars, round>>

(* The server has flushed its log and begins to stop the log writers.       *)
StopServer ==
  /\ MayStop /\ ~stopping
  /\ FlushWhileStop \/ \A f \in Flushers : fpc[f] = "idle"
  /\ stopping' = TRUE
  /\ stopLsa' = nxio_lsa
  /\ UNCHANGED <<csVars, logVars, fpc, pc, entryVars, callVars, resume,
                 interrupt, copied, stopped, round>>

(* thread_stop_active_workers, repeated: only a thread in TS_WAIT that is   *)
(* suspended as log writer is woken.                                        *)
StopInterrupt(w) ==
  /\ stopping
  /\ pc[w] \in {"suspending", "suspended", "timedout"}
  /\ resume[w] = "LOGWR_SUSPENDED"
  /\ InterruptSuspended(w)
  /\ UNCHANGED <<csVars, logVars, fpc, entryVars, callVars, interrupt, copied,
                 stopVars, round>>

-----------------------------------------------------------------------------
Flush(f) ==
  \/ FlushNothing(f) \/ FlushStart(f) \/ FlushMark(f) \/ FlushWrite(f)
  \/ FlushCompleted(f) \/ FlushEnd(f) \/ FlushPromote(f) \/ FlushExit(f)

UsesLogCs(w) == SetEofEnter(w) \/ PackEnter(w) \/ Copy(w)

Serve(w) ==
  \/ Register(w) \/ Suspend(w) \/ UnregisterTimedOut(w) \/ Woken(w)
  \/ SetEof(w) \/ SetEofNot(w) \/ IsDelayed(w) \/ EndDelay(w)
  \/ Pack(w) \/ WaitFlush(w) \/ Ready(w) \/ Send(w)
  \/ Reply(w) \/ End(w) \/ Error(w)

Next ==
  \/ \E f \in Flushers : FlushEnter(f) \/ Flush(f)
  \/ \E w \in Writers :
       \/ Connect(w) \/ UsesLogCs(w) \/ Serve(w) \/ Timeout(w)
       \/ PackFails(w) \/ SendFails(w) \/ ConnDown(w) \/ StopInterrupt(w)
  \/ StopServer

Spec == Init /\ [][Next]_vars

(* A thread that can go on does, and is not passed over for ever when it    *)
(* wants a mutex or LOG_CS.  The 10 second timeout of a suspended writer    *)
(* expires; the stopping server, which tries every 50 milliseconds, finds   *)
(* the writer suspended before that, and does not always come in the        *)
(* moment before the writer sleeps.                                         *)
Fairness ==
  /\ \A f \in Flushers : WF_vars(Flush(f)) /\ SF_vars(FlushMark(f))
  /\ \A w \in Writers :
       /\ WF_vars(Serve(w)) /\ WF_vars(Timeout(w))
       /\ WF_vars(interrupt[w] /\ SendFails(w))
       /\ SF_vars(Register(w)) /\ SF_vars(UsesLogCs(w))
       /\ SF_vars(pc[w] = "suspended" /\ StopInterrupt(w))
       /\ SF_vars(resume[w] = "LOGWR_SUSPENDED" /\ Suspend(w))

FairSpec == Spec /\ Fairness

-----------------------------------------------------------------------------
TypeOK ==
  /\ csMode \in [Writers \cup Flushers -> {"none", "read", "write"}]
  /\ csReserved \in [Writers \cup Flushers -> BOOLEAN]
  /\ eof_lsa \in 1 .. MaxLsa /\ nxio_lsa \in 1 .. MaxLsa
  /\ flush_completed \in BOOLEAN
  /\ fpc \in [Flushers -> FlusherPcs]
  /\ pc \in [Writers -> WriterPcs]
  /\ status \in [Writers -> Statuses]
  /\ entryEof \in [Writers -> 0 .. MaxLsa]
  /\ lastSent \in [Writers -> 0 .. MaxLsa]
  /\ req \in [Writers -> [fpageid : 0 .. MaxLsa, mode : {"ASYNC", "SYNC"}]]
  /\ origMode \in [Writers -> {"ASYNC", "SYNC"}]
  /\ packed \in [Writers -> [lpageid : 0 .. MaxLsa, status : {"DONE", "DELAY"}]]
  /\ endAfterSend \in [Writers -> BOOLEAN]
  /\ resume \in [Writers -> Resumes]
  /\ interrupt \in [Writers -> BOOLEAN]
  /\ copied \in [Writers -> 0 .. MaxLsa]
  /\ stopping \in BOOLEAN /\ stopLsa \in 0 .. MaxLsa
  /\ stopped \subseteq Writers
  /\ round \in [Writers -> 0 .. MaxLsa]

(* The flush sleeps on flush_end_cond only while a writer is fetching that  *)
(* will signal it: checking the list and going to sleep under               *)
(* flush_end_mutex loses no signal.                                         *)
NoLostEndSignal == \A f \in Flushers : fpc[f] = "endwait" => Fetching # {}

(* A flush that has stopped waiting leaves no writer fetching behind, and   *)
(* between flushes there is none: log_page_buffer.c waits only once, with   *)
(* if and not while.                                                        *)
NoneFetchingAfter ==
  Fetching # {} => \E f \in Flushers :
                     fpc[f] \in {"flushing", "flushed", "ending", "endwait"}

(* assert_release (writer_info->flush_completed == true) in                 *)
(* xlogwr_get_log_pages: a writer that waited for a flush goes on with the  *)
(* pages of that flush on disk, whatever flushes follow.                    *)
FetchedIsDurable ==
  \A w \in Writers :
    status[w] = "FETCH" /\ pc[w] \in {"ready", "send", "reply", "end"} =>
      flush_completed /\ packed[w].lpageid <= nxio_lsa

(* A synchronous copier has confirmed the log of the flush that woke it, as *)
(* far as one reply carries it, before that flush takes LOG_CS back.        *)
SyncCopied ==
  \A w \in Writers : \A f \in Flushers :
    fpc[f] \in {"promote", "exit"} /\ ~stopping => lastSent[w] >= round[w]

(* A writer that leaves because the server stops has had everything         *)
(* confirmed that was on disk when stopping began.                          *)
StopsInSync == \A w \in stopped : lastSent[w] >= stopLsa

(* "It waits until all log writer threads are done": a flush that waits for *)
(* writers gets an answer from all of them.                                 *)
FlushReturns ==
  \A f \in Flushers : fpc[f] = "demoted" ~> fpc[f] = "promote"

(* Log that is on disk reaches every copier that stays connected, also when *)
(* its writer missed the flush because it was sending.                      *)
Delivered ==
  \A w \in Writers : \A n \in 1 .. MaxLsa :
    (nxio_lsa >= n /\ pc[w] # "out") ~> (copied[w] >= n \/ pc[w] = "out")

(* A server that stops gets rid of all its log writers.                     *)
WritersStop == stopping ~> \A w \in Writers : pc[w] = "out"
=============================================================================
