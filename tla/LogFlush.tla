------------------------------ MODULE LogFlush ------------------------------
(***************************************************************************)
(* The write-ahead log of the server, from the record a transaction        *)
(* appends to the bytes a restart reads back:                              *)
(*                                                                         *)
(*  - transaction/log_prior_lsa.c gives a record its address (LSA) and     *)
(*    queues it in the prior list, under prior_lsa_mutex;                  *)
(*  - transaction/log_page_buffer.c moves the list into log pages and      *)
(*    flushes them, under LOG_CS: all dirty pages but the first, a sync,   *)
(*    the first, a sync.  A record that is still being appended when the   *)
(*    page buffer fills is hidden behind an end-of-log mark;               *)
(*  - thread/thread.c runs the log flush thread (LFT) which commits wait   *)
(*    for, and storage/page_buffer.c forces the log before a data page;    *)
(*  - transaction/log_recovery.c follows the records to the mark after a   *)
(*    crash and appends from there.                                        *)
(*                                                                         *)
(* Abstraction.  An address is a slot number: a slot holds a record header *)
(* or one piece of its data, a page holds PageSize slots, so a record that *)
(* crosses pages is one of length > 1.  A page write is atomic, a page     *)
(* that is written and not synced may or may not survive a crash.  What a  *)
(* mutex of the code protects is one step here.  The replication threads   *)
(* that a flush waits for are the subject of module LogWriter, LOG_CS of   *)
(* module CriticalSection: here LOG_CS has one owner.  Archiving, the log  *)
(* header page and undo at restart are left out.                           *)
(***************************************************************************)
EXTENDS Naturals, Sequences, Functions

CONSTANTS
  Trans,        \* transactions; each updates one data page of its own
  PageSize,     \* slots in a log page
  MaxLsa,       \* bound: slots of the log, a multiple of PageSize
  MaxToflush,   \* flush_info.max_toflush
  MaxPrior,     \* LOG_PRIOR_LSA_LIST_MAX_SIZE, in records
  UpdateLens,   \* lengths of an update record
  CommitLen,    \* length of a commit record
  Configs,      \* the configurations the server may run in, of those below
  MaxCrash,     \* bound: crashes
  Null,         \* a slot never written, no page, no thread
  Eof           \* a record header of type LOG_END_OF_LOG

ASSUME PageSizeAssumption == PageSize \in Nat \ {0}
ASSUME NullAssumption ==
  /\ Null \notin Nat /\ Null \notin Trans /\ Null \notin {"lft", "pb"}
  /\ Trans \cap {"lft", "pb"} = {}
ASSUME LengthAssumption ==
  UpdateLens \subseteq Nat \ {0} /\ CommitLen \in Nat \ {0}
ASSUME BoundAssumption == MaxLsa \in Nat \ {0} /\ MaxCrash \in Nat
\* There are more than three log page buffers: LOGPB_BUFFER_SIZE_LOWER bytes.
ASSUME ToflushAssumption == MaxToflush \in Nat /\ MaxToflush >= 3
ASSUME ConfigsAssumption == Configs \subseteq {"normal", "group", "direct"}

Lsa == 0 .. MaxLsa
Slot == 0 .. MaxLsa - 1
PageOf(l) == l \div PageSize
Page == {PageOf(l) : l \in Slot}

\* A LOG_PRIOR_NODE: whose record, what it is, its address and its length.
Node == [tran : Trans, type : {"update", "commit"}, start : Slot, len : 1 .. MaxLsa]
\* What a slot holds: piece i of a record (0 is its header), or a mark.
Piece == Node \X (0 .. MaxLsa)
Cell == Piece \cup {Null, Eof}

ASSUME CellAssumption == Null # Eof /\ Null \notin Piece /\ Eof \notin Piece

VARIABLES
  pc,        \* where each transaction is
  recs,      \* all nodes of the log, in memory or not, since the restart
  priorLsa,  \* prior_info.prior_lsa
  prior,     \* prior_info.prior_list
  list,      \* prior_info.prior_flush_list
  done,      \* slots of Head(list) that are in the page buffer
  append,    \* hdr.append_lsa
  prev,      \* append.prev_lsa
  pg,        \* append.log_pgptr, by page
  delayed,   \* append.delayed_free_log_pgptr, by page
  toflush,   \* flush_info.toflush
  dirty,     \* pages whose buffer is dirty
  mem,       \* the page buffer, by slot
  save,      \* save_record of logpb_flush_all_append_pages
  nxio,      \* append.nxio_lsa
  disk,      \* the active log volume, by slot: what is synced
  pending,   \* pages written since the last sync
  cs,        \* the owner of LOG_CS
  fpc,       \* where the owner of LOG_CS is
  ret,       \* where a flush inside an append returns to
  lft,       \* where the log flush thread is
  nreq,      \* thread_Log_flush_thread.nrequestors > 0
  pb,        \* the thread that flushes a data page: its state and the page
  data,      \* transactions whose update is in the data page on disk
  acked,     \* transactions whose commit was reported to the client
  config,    \* commits wait, return at once, or find no log flush thread
  up,        \* is the server running
  crashes

tranVars == <<pc, recs, priorLsa, prior, acked>>
bufVars == <<list, done, append, prev, pg, delayed, toflush, dirty, mem, save>>
diskVars == <<disk, pending>>
csVars == <<cs, fpc, ret>>
lftVars == <<lft, nreq>>
pbVars == <<pb, data>>
runVars == <<config, up, crashes>>
vars == <<pc, recs, priorLsa, prior, acked, list, done, append, prev, pg, delayed,
          toflush, dirty, mem, save, nxio, disk, pending, cs, fpc, ret, lft, nreq,
          pb, data, config, up, crashes>>

\* LOG_IS_GROUP_COMMIT_ACTIVE: the flush interval is not 0.
GroupCommit == config = "group"

\* thread_Log_flush_thread.is_available.
LftAvailable == config # "direct"

LFT == "lft"
PB == "pb"
NoPage == [state |-> "idle", tran |-> Null]

-----------------------------------------------------------------------------
(* The log on disk, as a restart reads it *)

\* A log volume after a crash: of the pages written and not synced, those in S
\* reached the disk.
Survives(S) == [l \in Slot |-> IF PageOf(l) \in S THEN mem[l] ELSE disk[l]]

IsHeader(c) == c \notin {Null, Eof} /\ c[2] = 0

\* log_recovery_analysis: the records met when forw_lsa is followed from l.
Chain(d) ==
  LET from[l \in Lsa] ==
        IF l < MaxLsa /\ IsHeader(d[l])
          THEN {d[l][1]} \cup from[d[l][1].start + d[l][1].len]
          ELSE {}
  IN  from[0]

\* ... and the address where they stop.
EndOf(d) ==
  LET from[l \in Lsa] ==
        IF l < MaxLsa /\ IsHeader(d[l])
          THEN from[d[l][1].start + d[l][1].len]
          ELSE l
  IN  from[0]

\* The data of record n is all there.
Intact(n, d) == \A i \in 0 .. n.len - 1 : d[n.start + i] = <<n, i>>

-----------------------------------------------------------------------------
(* Init: a log that holds only the end-of-log mark, read by log_initialize *)

EmptyLog == [l \in Slot |-> IF l = 0 THEN Eof ELSE Null]

Init ==
  /\ pc = [t \in Trans |-> "begin"] /\ recs = {} /\ priorLsa = 0 /\ prior = <<>>
  /\ list = <<>> /\ done = 0 /\ append = 0 /\ prev = Null
  /\ pg = 0 /\ delayed = Null /\ toflush = <<0>> /\ dirty = {} /\ mem = EmptyLog
  /\ save = Null /\ nxio = 0 /\ disk = EmptyLog /\ pending = {}
  /\ cs = Null /\ fpc = "free" /\ ret = "exit"
  /\ lft = "top" /\ nreq = FALSE /\ pb = NoPage /\ data = {} /\ acked = {}
  /\ config \in Configs /\ up = TRUE /\ crashes = 0

-----------------------------------------------------------------------------
(* Transactions append records *)

\* Mutant: the signal is sent, the request is not noted.
WakeupLftSignalOnly ==
  /\ UNCHANGED nreq
  /\ lft' = IF lft = "waiting" THEN "enter" ELSE lft

\* thread_wakeup_log_flush_thread: a signal and a request under one lock.
WakeupLft ==
  /\ nreq' = TRUE
  /\ lft' = IF lft = "waiting" THEN "enter" ELSE lft

\* prior_lsa_next_record: the record gets the next address and joins the list;
\* a list that has grown too long wakes the log flush thread.
NextRecord(n) ==
  /\ n.start + n.len < MaxLsa
  /\ recs' = recs \cup {n}
  /\ prior' = Append(prior, n)
  /\ priorLsa' = n.start + n.len
  /\ IF Len(prior') >= MaxPrior THEN WakeupLft ELSE UNCHANGED lftVars

\* A transaction logs its update.
Update(t) ==
  /\ up /\ pc[t] = "begin"
  /\ \E k \in UpdateLens :
       NextRecord([tran |-> t, type |-> "update", start |-> priorLsa, len |-> k])
  /\ pc' = [pc EXCEPT ![t] = "updated"]
  /\ UNCHANGED <<acked, bufVars, nxio, diskVars, csVars, pbVars, runVars>>

\* log_append_donetime: the commit record, then logpb_flush_pages.
Commit(t) ==
  /\ up /\ pc[t] = "updated"
  /\ NextRecord([tran |-> t, type |-> "commit", start |-> priorLsa, len |-> CommitLen])
  /\ pc' = [pc EXCEPT ![t] = IF LftAvailable THEN "test" ELSE "direct"]
  /\ UNCHANGED <<acked, bufVars, nxio, diskVars, csVars, pbVars, runVars>>

CommitRec(t) == CHOOSE n \in recs : n.tran = t /\ n.type = "commit"

Ack(t) ==
  /\ pc' = [pc EXCEPT ![t] = "acked"]
  /\ acked' = acked \cup {t}

\* logpb_flush_pages: with group commit it returns at once; otherwise the test
\* of the while loop, outside gc_mutex.
CommitTest(t) ==
  /\ up /\ pc[t] = "test"
  /\ IF GroupCommit \/ nxio >= CommitRec(t).start
       THEN Ack(t)
       ELSE pc' = [pc EXCEPT ![t] = "lock"] /\ UNCHANGED acked
  /\ UNCHANGED <<recs, priorLsa, prior, bufVars, nxio, diskVars, csVars, lftVars, pbVars, runVars>>

\* ... its body, under gc_mutex: look again, wake the log flush thread, wait.
CommitWait(t) ==
  /\ up /\ pc[t] = "lock"
  /\ IF nxio >= CommitRec(t).start
       THEN Ack(t) /\ UNCHANGED lftVars
       ELSE pc' = [pc EXCEPT ![t] = "wait"] /\ WakeupLft /\ UNCHANGED acked
  /\ UNCHANGED <<recs, priorLsa, prior, bufVars, nxio, diskVars, csVars, pbVars, runVars>>

\* Mutant: a commit that waited for a second takes itself for done.
CommitTimeoutReturns(t) ==
  /\ up /\ pc[t] = "wait"
  /\ Ack(t)
  /\ UNCHANGED <<recs, priorLsa, prior, bufVars, nxio, diskVars, csVars, lftVars, pbVars, runVars>>

\* ... pthread_cond_timedwait gives up after a second.
CommitTimeout(t) ==
  /\ up /\ pc[t] = "wait"
  /\ pc' = [pc EXCEPT ![t] = "test"]
  /\ UNCHANGED <<recs, priorLsa, prior, acked, bufVars, nxio, diskVars, csVars, lftVars, pbVars, runVars>>

-----------------------------------------------------------------------------
(* LOG_CS: the log flush thread, a thread that writes a data page, and a      *)
(* transaction that finds no log flush thread run logpb_flush_pages_direct.   *)
\* Mutant: the flush leaves the prior list where it is.
EnterLogCsNoDrain(f) == cs = Null /\ cs' = f /\ fpc' = "flush" /\ ret' = "exit"

\* LOG_CS_ENTER, logpb_flush_pages_direct.
EnterLogCs(f) == cs = Null /\ cs' = f /\ fpc' = "drain" /\ ret' = "exit"

\* The log flush thread waits unless somebody asked for a flush.
LftCheck ==
  /\ up /\ LftAvailable /\ lft = "top"
  /\ lft' = IF ~nreq \/ GroupCommit THEN "waiting" ELSE "enter"
  /\ UNCHANGED <<tranVars, bufVars, nxio, diskVars, csVars, nreq, pbVars, runVars>>

\* Mutant: the log flush thread waits on whenever it times out.
LftTimeoutContinues ==
  /\ up /\ lft = "waiting"
  /\ lft' = "top"
  /\ UNCHANGED <<tranVars, bufVars, nxio, diskVars, csVars, nreq, pbVars, runVars>>

\* Its timed wait ends.
LftTimeout ==
  /\ up /\ lft = "waiting"
  /\ lft' = "enter"
  /\ UNCHANGED <<tranVars, bufVars, nxio, diskVars, csVars, nreq, pbVars, runVars>>

\* ... but the flush interval of group commit is not over: it waits on.
LftContinue ==
  /\ up /\ lft = "waiting" /\ GroupCommit
  /\ lft' = "top"
  /\ UNCHANGED <<tranVars, bufVars, nxio, diskVars, csVars, nreq, pbVars, runVars>>

LftEnter ==
  /\ up /\ lft = "enter"
  /\ EnterLogCs(LFT)
  /\ lft' = "in"
  /\ UNCHANGED <<tranVars, bufVars, nxio, diskVars, nreq, pbVars, runVars>>

\* Mutant: the requests are forgotten, the commits are not woken.
LftForgets ==
  /\ up /\ lft = "broadcast"
  /\ UNCHANGED pc
  /\ lft' = "top" /\ nreq' = FALSE
  /\ UNCHANGED <<recs, priorLsa, prior, acked, bufVars, nxio, diskVars, csVars, pbVars, runVars>>

\* After the flush, under gc_mutex: wake the commits, forget the requests.
LftBroadcast ==
  /\ up /\ lft = "broadcast"
  /\ pc' = [t \in Trans |-> IF pc[t] = "wait" THEN "test" ELSE pc[t]]
  /\ lft' = "top" /\ nreq' = FALSE
  /\ UNCHANGED <<recs, priorLsa, prior, acked, bufVars, nxio, diskVars, csVars, pbVars, runVars>>

\* logpb_flush_pages without a log flush thread.
DirectEnter(t) ==
  /\ up /\ pc[t] = "direct"
  /\ EnterLogCs(t)
  /\ pc' = [pc EXCEPT ![t] = "in"]
  /\ UNCHANGED <<recs, priorLsa, prior, acked, bufVars, nxio, diskVars, lftVars, pbVars, runVars>>

UpdateRec(t) == CHOOSE n \in recs : n.tran = t /\ n.type = "update"

\* Mutant: the record that nxio_lsa points at counts as written.
NeedWalAfter(l) == nxio < l

\* logpb_need_wal: is the log record of a data page not on disk?
NeedWal(l) == nxio <= l

\* pgbuf_flush_page_with_wal: a copy of the page is taken, the log is forced
\* up to its LSA if need be, the copy is written.
PageCopy(t) ==
  /\ up /\ pb = NoPage /\ t \notin data
  /\ \E n \in recs : n.tran = t /\ n.type = "update"
  /\ pb' = [state |-> IF NeedWal(UpdateRec(t).start) THEN "enter" ELSE "write", tran |-> t]
  /\ UNCHANGED <<tranVars, bufVars, nxio, diskVars, csVars, lftVars, data, runVars>>

PageEnter ==
  /\ up /\ pb.state = "enter"
  /\ EnterLogCs(PB)
  /\ pb' = [pb EXCEPT !.state = "in"]
  /\ UNCHANGED <<tranVars, bufVars, nxio, diskVars, lftVars, data, runVars>>

PageWrite ==
  /\ up /\ pb.state = "write"
  /\ data' = data \cup {pb.tran}
  /\ pb' = NoPage
  /\ UNCHANGED <<tranVars, bufVars, nxio, diskVars, csVars, lftVars, runVars>>

\* LOG_CS_EXIT, and what its owner does next.
ExitLogCs ==
  /\ up /\ fpc = "exit"
  /\ cs' = Null /\ fpc' = "free"
  /\ CASE cs = LFT -> lft' = "broadcast" /\ UNCHANGED <<pb, pc, acked>>
       [] cs = PB -> pb' = [pb EXCEPT !.state = "write"] /\ UNCHANGED <<lft, pc, acked>>
       [] OTHER -> Ack(cs) /\ UNCHANGED <<lft, pb>>
  /\ UNCHANGED <<recs, priorLsa, prior, bufVars, nxio, diskVars, ret, nreq, data, runVars>>

-----------------------------------------------------------------------------
(* The owner of LOG_CS moves the prior list into the page buffer *)

ownerFrame == <<acked, pc, recs, priorLsa, lftVars, pbVars, runVars>>

\* logpb_prior_lsa_append_all_list: the whole list is taken, under prior_lsa_mutex.
Drain ==
  /\ up /\ fpc = "drain"
  /\ list' = prior /\ prior' = <<>>
  /\ fpc' = IF prior = <<>> THEN "flush" ELSE "append"
  /\ UNCHANGED <<ownerFrame, done, append, prev, pg, delayed, toflush, dirty, mem, save,
                 nxio, diskVars, cs, ret>>

\* logpb_start_append remembers where the record starts.
PrevLsa == IF done = 0 THEN append ELSE prev

\* Where an append goes on once it has its page.
AfterSlot(k) == IF k = Head(list).len THEN "end" ELSE "append"

\* logpb_start_append and logpb_append_data, one slot; the slot that fills a page
\* turns to the next one (first half of logpb_next_append_page): the page where
\* the record starts is kept (delayed), any other is released.  The buffer for
\* the new page may have to be taken from a dirty page, which forces a flush.
AppendSlot ==
  /\ up /\ fpc = "append"
  /\ mem' = [mem EXCEPT ![append] = <<Head(list), done>>]
  /\ prev' = PrevLsa
  /\ dirty' = dirty \cup {PageOf(append)}
  /\ append' = append + 1
  /\ done' = done + 1
  /\ IF append' % PageSize # 0
       THEN fpc' = AfterSlot(done') /\ UNCHANGED <<pg, delayed, ret>>
       ELSE /\ delayed' = IF delayed = Null THEN PageOf(append) ELSE delayed
            /\ pg' = Null
            /\ \/ fpc' = "create" /\ UNCHANGED ret
               \/ dirty' \ {delayed'} # {} /\ fpc' = "flush" /\ ret' = "create"
  /\ UNCHANGED <<ownerFrame, prior, list, toflush, save, nxio, diskVars, cs>>

\* Mutant: the list may hold one page more than there is room for.
BuffersFullLate(k) == k > MaxToflush

\* Is the list of pages to flush full?
BuffersFull(k) == k >= MaxToflush

\* logpb_next_append_page, second half: the new page joins the pages to flush;
\* when there are as many as buffers they are flushed in the middle of the record.
CreatePage ==
  /\ up /\ fpc = "create"
  /\ pg' = PageOf(append)
  /\ mem' = [l \in Slot |-> IF PageOf(l) = pg' THEN Null ELSE mem[l]]
  /\ toflush' = Append(toflush, pg')
  /\ IF BuffersFull(Len(toflush'))
       THEN fpc' = "flush" /\ ret' = AfterSlot(done)
       ELSE fpc' = AfterSlot(done) /\ UNCHANGED ret
  /\ UNCHANGED <<ownerFrame, prior, list, done, append, prev, delayed, dirty, save,
                 nxio, diskVars, cs>>

\* logpb_end_append: the record is complete, its first page is no longer special.
EndAppend ==
  /\ up /\ fpc = "end"
  /\ dirty' = dirty \cup {IF delayed # Null THEN delayed ELSE pg}
  /\ delayed' = Null
  /\ list' = Tail(list) /\ done' = 0
  /\ fpc' = IF list' = <<>> THEN "flush" ELSE "append"
  /\ UNCHANGED <<ownerFrame, prior, append, prev, pg, toflush, mem, save,
                 nxio, diskVars, cs, ret>>

-----------------------------------------------------------------------------
(* ... and flushes the pages: logpb_flush_all_append_pages *)

NeedFlush == Len(toflush) > 1 \/ (Len(toflush) = 1 /\ toflush[1] \in dirty)

\* The end-of-log mark goes after the last record, or over the header of a
\* record that is not complete.
FlushStart ==
  /\ up /\ fpc = "flush"
  /\ IF NeedFlush
       THEN LET eof == IF delayed # Null THEN prev ELSE append
            IN  /\ save' = IF delayed # Null THEN mem[eof] ELSE save
                /\ mem' = [mem EXCEPT ![eof] = Eof]
                /\ dirty' = dirty \cup {IF delayed # Null THEN delayed ELSE pg}
                /\ fpc' = "write"
                /\ UNCHANGED ret
       ELSE fpc' = ret /\ ret' = "exit" /\ UNCHANGED <<save, mem, dirty>>
  /\ UNCHANGED <<ownerFrame, prior, list, done, append, prev, pg, delayed, toflush,
                 nxio, diskVars, cs>>

\* Mutant: the last dirty page is kept for the end, not the first.
LastDirty ==
  toflush[CHOOSE i \in DOMAIN toflush :
            toflush[i] \in dirty /\ \A j \in i + 1 .. Len(toflush) : toflush[j] \notin dirty]

\* The first of the dirty pages, which is written last.
FirstDirty ==
  toflush[CHOOSE i \in DOMAIN toflush :
            toflush[i] \in dirty /\ \A j \in 1 .. i - 1 : toflush[j] \notin dirty]

\* All dirty pages but the first.
RestDirty == (Range(toflush) \cap dirty) \ {FirstDirty}

WriteRest ==
  /\ up /\ fpc = "write"
  /\ pending' = RestDirty
  /\ fpc' = IF pending' = {} THEN "writeFirst" ELSE "sync"
  /\ UNCHANGED <<ownerFrame, prior, bufVars, nxio, disk, cs, ret>>

\* fileio_synchronize
Sync == disk' = Survives(pending) /\ pending' = {}

SyncRest ==
  /\ up /\ fpc = "sync"
  /\ Sync
  /\ fpc' = "writeFirst"
  /\ UNCHANGED <<ownerFrame, prior, bufVars, nxio, cs, ret>>

WriteFirst ==
  /\ up /\ fpc = "writeFirst"
  /\ pending' = {FirstDirty}
  /\ fpc' = "syncFirst"
  /\ UNCHANGED <<ownerFrame, prior, bufVars, nxio, disk, cs, ret>>

SyncFirst ==
  /\ up /\ fpc = "syncFirst"
  /\ Sync
  /\ fpc' = "clean"
  /\ UNCHANGED <<ownerFrame, prior, bufVars, nxio, cs, ret>>

\* Mutant: the hidden record counts as written.
NextIoPastRecord == append

\* The lowest address that the flush leaves unwritten: that of a hidden record.
NextIo == IF delayed # Null THEN prev ELSE append

\* Mutant: the page of a hidden record is not kept for the next flush.
KeptPagesNone == <<>>

\* The page of a hidden record has to be flushed again.
KeptPages == IF delayed # Null THEN <<delayed>> ELSE <<>>

\* The pages are clean, nxio_lsa moves; a hidden record is put back, and its page
\* is dirty again.
FlushEnd ==
  /\ up /\ fpc = "clean"
  /\ mem' = IF delayed # Null THEN [mem EXCEPT ![prev] = save] ELSE mem
  /\ nxio' = NextIo
  /\ dirty' = (dirty \ Range(toflush)) \cup Range(KeptPages)
  /\ toflush' = IF pg # Null THEN Append(KeptPages, pg) ELSE KeptPages
  /\ save' = Null
  /\ fpc' = ret /\ ret' = "exit"
  /\ UNCHANGED <<ownerFrame, prior, list, done, append, prev, pg, delayed, diskVars, cs>>

-----------------------------------------------------------------------------
(* Crash and restart *)

\* The process dies (also by logpb_fatal_error, when a write fails): of the pages
\* not synced any may be on disk.
Crash ==
  /\ up /\ crashes < MaxCrash
  /\ up' = FALSE /\ crashes' = crashes + 1
  /\ \E S \in SUBSET pending : disk' = Survives(S)
  /\ pending' = {}
  /\ UNCHANGED <<tranVars, bufVars, nxio, csVars, lftVars, pbVars, config>>

\* Mutant: the log goes on at its last record, not after it.
RestartLsaAtLast ==
  IF Chain(disk) = {} THEN 0
  ELSE CHOOSE l \in {n.start : n \in Chain(disk)} : \A n \in Chain(disk) : n.start <= l

\* Where the analysis ends and the log goes on: LOG_RESET_APPEND_LSA.
RestartLsa == EndOf(disk)

\* log_recovery: the analysis ends at the mark, and the log goes on from there
\* (LOG_RESET_APPEND_LSA, logpb_fetch_start_append_page).
Recover ==
  /\ ~up /\ up' = TRUE
  /\ \E end \in Slot :
         /\ end = RestartLsa
         /\ priorLsa' = end /\ append' = end /\ nxio' = end
         /\ pg' = PageOf(end) /\ toflush' = <<PageOf(end)>>
         /\ prev' = IF end = 0 THEN Null
                    ELSE CHOOSE l \in {n.start : n \in Chain(disk)} :
                           \A n \in Chain(disk) : n.start <= l
  /\ recs' = Chain(disk)
  /\ pc' = [t \in Trans |-> IF pc[t] = "begin" THEN "begin" ELSE "gone"]
  /\ prior' = <<>> /\ list' = <<>> /\ done' = 0 /\ delayed' = Null
  /\ dirty' = {} /\ mem' = disk /\ save' = Null
  /\ cs' = Null /\ fpc' = "free" /\ ret' = "exit"
  /\ lft' = "top" /\ nreq' = FALSE /\ pb' = NoPage
  /\ UNCHANGED <<acked, diskVars, data, config, crashes>>

-----------------------------------------------------------------------------
CommitStep(t) == CommitTest(t) \/ CommitWait(t)
LogCsStep ==
  \/ Drain \/ AppendSlot \/ CreatePage \/ EndAppend
  \/ FlushStart \/ WriteRest \/ SyncRest \/ WriteFirst \/ SyncFirst \/ FlushEnd
  \/ ExitLogCs

Next ==
  \/ \E t \in Trans : \/ Update(t) \/ Commit(t) \/ CommitStep(t) \/ CommitTimeout(t)
                      \/ DirectEnter(t) \/ PageCopy(t)
  \/ LftCheck \/ LftTimeout \/ LftContinue \/ LftEnter \/ LftBroadcast
  \/ PageEnter \/ PageWrite
  \/ LogCsStep
  \/ Crash \/ Recover

Spec == Init /\ [][Next]_vars

\* Threads run: a commit that may go on does, so do the owner of LOG_CS and the
\* log flush thread.  No timeout is needed for a commit to return.  With group
\* commit nobody signals the log flush thread: its wait ends when the interval is
\* over, and the time waited is added up (total_elapsed_time).
Fairness ==
  /\ \A t \in Trans : WF_vars(CommitStep(t)) /\ WF_vars(DirectEnter(t))
  /\ WF_vars(LftCheck) /\ WF_vars(LftEnter) /\ WF_vars(LftBroadcast)
  /\ WF_vars(LogCsStep)
  /\ SF_vars(GroupCommit /\ LftTimeout)

FairSpec == Spec /\ Fairness

-----------------------------------------------------------------------------
(* Properties *)

\* Every variable keeps to its type.
TypeOK ==
  /\ pc \in [Trans -> {"begin", "updated", "test", "lock", "wait", "direct", "in", "acked", "gone"}]
  /\ recs \subseteq Node /\ prior \in Seq(Node) /\ list \in Seq(Node)
  /\ {priorLsa, append, nxio} \subseteq Lsa /\ done \in Lsa /\ prev \in Slot \cup {Null}
  /\ pg \in Page \cup {Null} /\ delayed \in Page \cup {Null}
  /\ toflush \in Seq(Page) /\ Len(toflush) <= MaxToflush /\ dirty \subseteq Page
  /\ mem \in [Slot -> Cell] /\ save \in Cell
  /\ disk \in [Slot -> Cell] /\ pending \subseteq Page
  /\ cs \in Trans \cup {LFT, PB, Null}
  /\ fpc \in {"free", "drain", "append", "create", "end", "flush", "write", "sync",
             "writeFirst", "syncFirst", "clean", "exit"}
  /\ ret \in {"exit", "create", "append", "end"}
  /\ lft \in {"top", "waiting", "enter", "in", "broadcast"} /\ nreq \in BOOLEAN
  /\ pb \in [state : {"idle", "enter", "in", "write"}, tran : Trans \cup {Null}]
  /\ data \subseteq Trans /\ acked \subseteq Trans
  /\ config \in Configs /\ up \in BOOLEAN /\ crashes \in 0 .. MaxCrash

\* What a crash now could leave on disk.
Outcomes == {Survives(S) : S \in SUBSET pending}

\* Whenever the server crashes, also between the writes of a flush, the restart
\* reads a prefix of the log: every record of it complete, up to an end-of-log
\* mark, with nothing in between of an earlier life of the log.
RecoveryReadsPrefix ==
  \A d \in Outcomes :
    /\ d[EndOf(d)] = Eof
    /\ Chain(d) = {n \in recs : n.start < EndOf(d)}
    /\ \A n \in Chain(d) : Intact(n, d)

\* nxio_lsa is what it is documented to be, the lowest address not on disk: a
\* crash loses no record before it.
FlushedSurvives ==
  \A d \in Outcomes : EndOf(d) >= nxio

\* WAL: a data page on disk never has an update whose log record a crash can lose.
WalRule ==
  \A t \in data, d \in Outcomes : \E n \in Chain(d) : n.tran = t /\ n.type = "update"

CommitSurvives(t) ==
  \A d \in Outcomes : \E n \in Chain(d) : n.tran = t /\ n.type = "commit"

\* A commit that was reported survives every crash.
AckedSurvives ==
  \A t \in acked : CommitSurvives(t)

\* A commit that flushes the log itself (logpb_flush_pages without a log flush
\* thread) survives every crash once it is reported.
DirectSurvives ==
  ~LftAvailable => AckedSurvives

\* What logpb_flush_pages does guarantee: a reported commit survives unless its
\* record is the very first one not yet flushed.
AckedOrNext ==
  \A t \in Trans : ~GroupCommit /\ up /\ pc[t] = "acked" =>
    CommitSurvives(t) \/ CommitRec(t).start = nxio

\* A commit never waits for the log flush thread while that thread sleeps or is
\* about to sleep: neither the signal nor the request is lost.
NoLostRequest ==
  \A t \in Trans : up /\ pc[t] = "wait" =>
    lft # "waiting" /\ (lft = "top" => nreq)

\* What the code asserts or treats as fatal while it appends: a record goes where
\* its address says and its forward address is where the next one will go, the
\* page that hides an incomplete record is dirty, and a flush always finds a page
\* for its mark.
AppendIsConsistent ==
  /\ fpc = "append" /\ done = 0 => Head(list).start = append
  /\ fpc = "end" => /\ Head(list).start + Head(list).len = append
                    /\ delayed # Null => delayed \in dirty /\ delayed = PageOf(prev)
  /\ fpc = "flush" => delayed # Null \/ pg # Null

\* nxio_lsa never moves back while the server is up, so what a commit or the page
\* buffer read of it outside LOG_CS stays true when they act on it.
NxioAdvances ==
  [][up => nxio' >= nxio]_vars

\* The log implements the log of module DurableLog: no step takes a record away
\* from what a restart would read, not even a flush that writes an end-of-log mark
\* over the header of a record, and a restart goes on after what it has read.
Durable == INSTANCE DurableLog WITH stable <- Chain(disk)
ImplementsDurableLog == Durable!Spec

\* A commit is reported in the end, without any timeout, unless the server crashes.
CommitReturns ==
  \A t \in Trans : pc[t] \in {"test", "direct"} ~> pc[t] \in {"acked", "gone"} \/ ~up

\* With group commit the record of a reported commit reaches the disk in the end.
AckedBecomesDurable ==
  \A t \in Trans : GroupCommit /\ pc[t] = "acked" ~> (~up \/ CommitSurvives(t))

=============================================================================
