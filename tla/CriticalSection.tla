-------------------------- MODULE CriticalSection --------------------------
(***************************************************************************)
(* The server's read/write critical section (src/thread/critical_section.c) *)
(* and the part of the thread manager it suspends and resumes threads with  *)
(* (src/thread/thread.c).  One section, any number of threads.              *)
(*                                                                          *)
(* Everything a call does between taking the monitor lock cs_ptr->lock and  *)
(* releasing it, in pthread_mutex_unlock or in a condition wait, is one     *)
(* step: other calls need the same mutex.  The shutdown thread does not, so *)
(* its wake-ups are steps of their own.                                     *)
(*                                                                          *)
(* Every caller in the server waits with INF_WAIT; the timed and no-wait    *)
(* branches are not modelled.                                               *)
(***************************************************************************)
EXTENDS Integers, Sequences, FiniteSets

CONSTANTS
  Threads,      \* the threads that use the section
  NoThread,     \* the value of 'owner' when nobody owns: (pthread_t) 0
  MaxNest,      \* bound on the depth of re-entry as writer
  FreeCallers   \* FALSE: threads demote and promote as the log flush does
                \* TRUE: any holder may demote, promote and exit

ASSUME CsectAssumption ==
  /\ NoThread \notin Threads
  /\ IsFiniteSet(Threads)
  /\ MaxNest \in Nat \ {0}
  /\ FreeCallers \in BOOLEAN

VARIABLES
  rwlock,          \* > 0: number of readers, < 0: depth of the writer, 0: free
  owner,           \* the writer, or the writer that demoted itself
  waiting_writers, \* threads waiting to write, promoters included
  writersQ,        \* waiting_writers_queue
  promotersQ,      \* waiting_promoters_queue
  pc,              \* pc[t]: "run", or the call that t is blocked in
  cond,            \* cond[t]: the condition t sleeps on has been signalled
  resume_status,   \* THREAD_ENTRY.resume_status
  interrupted,     \* THREAD_ENTRY.interrupted
  mode,            \* mode[t]: what the calls of t that returned have got it
  nest,            \* nest[t]: entries as writer that t has not yet exited
  demoted          \* demoted[t]: t is between csect_demote and csect_promote

csVars     == <<rwlock, owner, waiting_writers, writersQ, promotersQ>>
threadVars == <<pc, cond, resume_status, interrupted>>
callerVars == <<mode, nest, demoted>>
vars       == <<csVars, threadVars, callerVars>>

Modes    == {"none", "read", "write"}
Blocked  == {"writer", "reader", "promoter", "demoter"}
Statuses == {"NONE", "WRITER_SUSPENDED", "WRITER_RESUMED", "READER_SUSPENDED",
             "PROMOTER_SUSPENDED", "PROMOTER_RESUMED", "DUE_TO_INTERRUPT"}

Readers == {t \in Threads : mode[t] = "read"}
Writers == {t \in Threads : mode[t] = "write"}
InQueue(t, q) == \E i \in DOMAIN q : q[i] = t

-----------------------------------------------------------------------------
(* csect_initialize_critical_section: a free section; no thread has called. *)
Init ==
  /\ rwlock = 0
  /\ owner = NoThread
  /\ waiting_writers = 0
  /\ writersQ = <<>>
  /\ promotersQ = <<>>
  /\ pc = [t \in Threads |-> "run"]
  /\ cond = [t \in Threads |-> FALSE]
  /\ resume_status = [t \in Threads |-> "NONE"]
  /\ interrupted = [t \in Threads |-> FALSE]
  /\ mode = [t \in Threads |-> "none"]
  /\ nest = [t \in Threads |-> 0]
  /\ demoted = [t \in Threads |-> FALSE]

-----------------------------------------------------------------------------
(* What the callers may call.  A thread never enters a section that it      *)
(* reads: the code has no such call, and it would wait for itself.          *)
MayEnter(t)   == pc[t] = "run" /\ ~demoted[t] /\ mode[t] \in {"none", "write"}
MayDemote(t)  == MayEnter(t) /\ (mode[t] = "write" \/ FreeCallers)
MayPromote(t) == pc[t] = "run" /\ mode[t] # "none"
                 /\ (demoted[t] \/ FreeCallers)
MayExit(t)    == pc[t] = "run" /\ mode[t] # "none"
                 /\ (~demoted[t] \/ FreeCallers)

-----------------------------------------------------------------------------
(* thread_suspend_with_other_mutex, or pthread_cond_wait on readers_ok: the *)
(* monitor lock is released and t sleeps until its condition is signalled.  *)
Suspend(t, where, reason) ==
  /\ pc' = [pc EXCEPT ![t] = where]
  /\ cond' = [cond EXCEPT ![t] = FALSE]
  /\ resume_status' = [resume_status EXCEPT ![t] = reason]

(* A wake-up takes the thread at the head of a queue out of it, signals its *)
(* condition and sets its resume status (thread_wakeup).                    *)
Dequeued(q) == IF q = <<>> THEN q ELSE Tail(q)
Signalled(q) == [u \in Threads |-> cond[u] \/ (q # <<>> /\ u = Head(q))]
Resumed(q, reason) ==
  [u \in Threads |-> IF q # <<>> /\ u = Head(q) THEN reason ELSE resume_status[u]]

csect_wakeup_waiting_writer ==
  /\ writersQ' = Dequeued(writersQ)
  /\ cond' = Signalled(writersQ)
  /\ resume_status' = Resumed(writersQ, "WRITER_RESUMED")

csect_wakeup_waiting_promoter ==
  /\ promotersQ' = Dequeued(promotersQ)
  /\ cond' = Signalled(promotersQ)
  /\ resume_status' = Resumed(promotersQ, "PROMOTER_RESUMED")

(* pthread_cond_broadcast (&cs_ptr->readers_ok)                             *)
BroadcastReaders ==
  cond' = [u \in Threads |-> cond[u] \/ pc[u] \in {"reader", "demoter"}]

-----------------------------------------------------------------------------
(* Mutant: the writer does not look for a demoted owner.                    *)
MutWriterMayGo(t) == rwlock = 0 \/ (rwlock < 0 /\ owner = t)

(* csect_enter_critical_section                                             *)
WriterMayGo(t) == (rwlock = 0 /\ owner = NoThread) \/ (rwlock < 0 /\ owner = t)

TakeWrite(t) ==
  /\ rwlock' = rwlock - 1
  /\ owner' = t
  /\ mode' = [mode EXCEPT ![t] = "write"]
  /\ nest' = [nest EXCEPT ![t] = @ + 1]
  /\ pc' = [pc EXCEPT ![t] = "run"]

(* The section is free, or t re-enters it.                                  *)
EnterTakes(t) ==
  /\ MayEnter(t) /\ nest[t] < MaxNest
  /\ WriterMayGo(t)
  /\ TakeWrite(t)
  /\ UNCHANGED <<waiting_writers, writersQ, promotersQ, cond, resume_status,
                 interrupted, demoted>>

(* csect_wait_on_writer_queue: t joins the rear of the queue and sleeps.    *)
EnterWaits(t) ==
  /\ MayEnter(t)
  /\ ~WriterMayGo(t)
  /\ waiting_writers' = waiting_writers + 1
  /\ writersQ' = Append(writersQ, t)
  /\ Suspend(t, "writer", "WRITER_SUSPENDED")
  /\ UNCHANGED <<rwlock, owner, promotersQ, interrupted, callerVars>>

(* DOES_THREAD_RESUME_DUE_TO_SHUTDOWN                                       *)
ResumedByShutdown(t) == resume_status[t] = "DUE_TO_INTERRUPT" /\ interrupted[t]

(* Mutant: the writer queues itself again before it sleeps on.              *)
MutWriterSleepsOn(t) ==
  /\ pc[t] = "writer" /\ cond[t]
  /\ ResumedByShutdown(t) /\ InQueue(t, writersQ)
  /\ writersQ' = Append(writersQ, t)
  /\ Suspend(t, "writer", "WRITER_SUSPENDED")
  /\ UNCHANGED <<rwlock, owner, waiting_writers, promotersQ, interrupted, callerVars>>

(* A writer woken by the shutdown thread while it is still queued sleeps on. *)
WriterSleepsOn(t) ==
  /\ pc[t] = "writer" /\ cond[t]
  /\ ResumedByShutdown(t) /\ InQueue(t, writersQ)
  /\ Suspend(t, "writer", "WRITER_SUSPENDED")
  /\ UNCHANGED <<csVars, interrupted, callerVars>>

WriterResumes(t) ==
  /\ pc[t] = "writer" /\ cond[t]
  /\ ~(ResumedByShutdown(t) /\ InQueue(t, writersQ))

(* The woken writer finds the section free and takes it ...                 *)
WriterTakes(t) ==
  /\ WriterResumes(t) /\ WriterMayGo(t)
  /\ waiting_writers' = waiting_writers - 1
  /\ TakeWrite(t)
  /\ UNCHANGED <<writersQ, promotersQ, cond, resume_status, interrupted, demoted>>

(* ... or finds that somebody got in first and queues again.  If a demoted  *)
(* writer owns the section it first passes the wake-up to a promoter.       *)
WriterWaitsAgain(t) ==
  /\ WriterResumes(t) /\ ~WriterMayGo(t)
  /\ writersQ' = Append(writersQ, t)
  /\ LET q == IF owner # NoThread /\ waiting_writers - 1 > 0 THEN promotersQ ELSE <<>>
     IN  /\ promotersQ' = IF q = <<>> THEN promotersQ ELSE Tail(promotersQ)
         /\ cond' = [Signalled(q) EXCEPT ![t] = FALSE]
         /\ resume_status' =
              [Resumed(q, "PROMOTER_RESUMED") EXCEPT ![t] = "WRITER_SUSPENDED"]
  /\ UNCHANGED <<rwlock, owner, waiting_writers, pc, interrupted, callerVars>>

-----------------------------------------------------------------------------
(* csect_enter_critical_section_as_reader                                   *)
ReaderMayGo == ~(rwlock < 0 \/ (waiting_writers > 0 /\ owner = NoThread))

TakeRead(t) ==
  /\ rwlock' = rwlock + 1
  /\ mode' = [mode EXCEPT ![t] = "read"]
  /\ pc' = [pc EXCEPT ![t] = "run"]

(* A writer that enters as a reader is treated as a writer.                 *)
ReaderReenters(t) ==
  /\ MayEnter(t) /\ nest[t] < MaxNest
  /\ rwlock < 0 /\ owner = t
  /\ TakeWrite(t)
  /\ UNCHANGED <<waiting_writers, writersQ, promotersQ, cond, resume_status,
                 interrupted, demoted>>

ReaderTakes(t) ==
  /\ MayEnter(t) /\ ~(rwlock < 0 /\ owner = t)
  /\ ReaderMayGo
  /\ TakeRead(t)
  /\ UNCHANGED <<owner, waiting_writers, writersQ, promotersQ, cond,
                 resume_status, interrupted, nest, demoted>>

ReaderWaits(t) ==
  /\ MayEnter(t) /\ ~(rwlock < 0 /\ owner = t)
  /\ ~ReaderMayGo
  /\ Suspend(t, "reader", "READER_SUSPENDED")
  /\ UNCHANGED <<csVars, interrupted, callerVars>>

ReaderResumes(t) ==
  /\ pc[t] = "reader" /\ cond[t]
  /\ \/ /\ ReaderMayGo
        /\ TakeRead(t)
        /\ UNCHANGED <<owner, waiting_writers, writersQ, promotersQ, cond,
                       resume_status, interrupted, nest, demoted>>
     \/ /\ ~ReaderMayGo
        /\ Suspend(t, "reader", "READER_SUSPENDED")
        /\ UNCHANGED <<csVars, interrupted, callerVars>>

-----------------------------------------------------------------------------
(* csect_demote_critical_section.  The owner is deliberately kept: while it *)
(* is set, readers pass waiting writers and no other writer gets in.        *)
DemoteWriter(t) ==
  /\ MayDemote(t)
  /\ rwlock < 0 /\ owner = t
  /\ demoted' = [demoted EXCEPT ![t] = TRUE]
  /\ IF rwlock + 1 < 0
     THEN UNCHANGED <<rwlock, mode, nest>>
     ELSE /\ rwlock' = 1
          /\ mode' = [mode EXCEPT ![t] = "read"]
          /\ nest' = [nest EXCEPT ![t] = 0]
  /\ BroadcastReaders
  /\ UNCHANGED <<owner, waiting_writers, writersQ, promotersQ, pc,
                 resume_status, interrupted>>

(* Without the write lock it acts like a reader that waits for all writers. *)
DemoterMayGo == ~(rwlock < 0 \/ waiting_writers > 0)

DemoterTakes(t) ==
  /\ DemoterMayGo
  /\ TakeRead(t)
  /\ demoted' = [demoted EXCEPT ![t] = TRUE]
  /\ BroadcastReaders
  /\ UNCHANGED <<owner, waiting_writers, writersQ, promotersQ, resume_status,
                 interrupted, nest>>

DemoterWaits(t) ==
  /\ ~DemoterMayGo
  /\ Suspend(t, "demoter", "READER_SUSPENDED")
  /\ UNCHANGED <<csVars, interrupted, callerVars>>

DemoteReader(t) ==
  /\ MayDemote(t) /\ ~(rwlock < 0 /\ owner = t)
  /\ DemoterTakes(t) \/ DemoterWaits(t)

DemoterResumes(t) ==
  /\ pc[t] = "demoter" /\ cond[t]
  /\ DemoterTakes(t) \/ DemoterWaits(t)

-----------------------------------------------------------------------------
(* csect_promote_critical_section: t gives up its hold, then waits until    *)
(* nobody holds the section.  It does not look at 'owner'.                  *)
PromoterMayGo(t, lock) == lock = 0 \/ (lock < 0 /\ owner = t)
Released == IF rwlock > 0 THEN rwlock - 1 ELSE rwlock + 1

PromoteTakes(t) ==
  /\ MayPromote(t)
  /\ PromoterMayGo(t, Released)
  /\ rwlock' = Released - 1
  /\ owner' = t
  /\ mode' = [mode EXCEPT ![t] = "write"]
  /\ nest' = [nest EXCEPT ![t] = IF mode[t] = "read" THEN 1 ELSE @]
  /\ demoted' = [demoted EXCEPT ![t] = FALSE]
  /\ UNCHANGED <<waiting_writers, writersQ, promotersQ, threadVars>>

(* csect_wait_on_promoter_queue                                             *)
PromoteWaits(t) ==
  /\ MayPromote(t)
  /\ ~PromoterMayGo(t, Released)
  /\ rwlock' = Released
  /\ waiting_writers' = waiting_writers + 1
  /\ promotersQ' = Append(promotersQ, t)
  /\ mode' = [mode EXCEPT ![t] = "none"]
  /\ Suspend(t, "promoter", "PROMOTER_SUSPENDED")
  /\ UNCHANGED <<owner, writersQ, interrupted, nest, demoted>>

PromoterSleepsOn(t) ==
  /\ pc[t] = "promoter" /\ cond[t]
  /\ ResumedByShutdown(t) /\ InQueue(t, promotersQ)
  /\ Suspend(t, "promoter", "PROMOTER_SUSPENDED")
  /\ UNCHANGED <<csVars, interrupted, callerVars>>

PromoterResumes(t) ==
  /\ pc[t] = "promoter" /\ cond[t]
  /\ ~(ResumedByShutdown(t) /\ InQueue(t, promotersQ))

PromoterTakes(t) ==
  /\ PromoterResumes(t) /\ PromoterMayGo(t, rwlock)
  /\ waiting_writers' = waiting_writers - 1
  /\ TakeWrite(t)
  /\ demoted' = [demoted EXCEPT ![t] = FALSE]
  /\ UNCHANGED <<writersQ, promotersQ, cond, resume_status, interrupted>>

PromoterWaitsAgain(t) ==
  /\ PromoterResumes(t) /\ ~PromoterMayGo(t, rwlock)
  /\ promotersQ' = Append(promotersQ, t)
  /\ Suspend(t, "promoter", "PROMOTER_SUSPENDED")
  /\ UNCHANGED <<rwlock, owner, waiting_writers, writersQ, interrupted, callerVars>>

-----------------------------------------------------------------------------
(* csect_exit_critical_section.  The code only looks at rwlock; the caller  *)
(* exits what it holds.                                                     *)
ExitNested(t) ==
  /\ MayExit(t)
  /\ rwlock < -1
  /\ rwlock' = rwlock + 1
  /\ nest' = [nest EXCEPT ![t] = @ - 1]
  /\ UNCHANGED <<owner, waiting_writers, writersQ, promotersQ, threadVars,
                 mode, demoted>>

(* Mutant: the exit wakes a writer even when a promoter has to go first.    *)
MutWakeupWriter(lock, own) ==
  \/ /\ waiting_writers > 0 /\ lock = 0
     /\ csect_wakeup_waiting_writer
     /\ UNCHANGED promotersQ
  \/ /\ ~(waiting_writers > 0 /\ lock = 0)
     /\ BroadcastReaders
     /\ UNCHANGED <<writersQ, promotersQ, resume_status>>

(* Mutant: the exit forgets the readers.                                    *)
MutWakeupNoReaders(lock, own) ==
  \/ /\ waiting_writers > 0 /\ lock = 0 /\ own # NoThread
     /\ csect_wakeup_waiting_promoter
     /\ UNCHANGED writersQ
  \/ /\ waiting_writers > 0 /\ lock = 0 /\ own = NoThread
     /\ csect_wakeup_waiting_writer
     /\ UNCHANGED promotersQ
  \/ /\ ~(waiting_writers > 0 /\ lock = 0)
     /\ UNCHANGED <<cond, writersQ, promotersQ, resume_status>>

(* Once the last hold is gone: wake a promoter, a writer, or all readers.    *)
WakeupAfterExit(lock, own) ==
  \/ /\ waiting_writers > 0 /\ lock = 0 /\ own # NoThread
     /\ csect_wakeup_waiting_promoter
     /\ UNCHANGED writersQ
  \/ /\ waiting_writers > 0 /\ lock = 0 /\ own = NoThread
     /\ csect_wakeup_waiting_writer
     /\ UNCHANGED promotersQ
  \/ /\ ~(waiting_writers > 0 /\ lock = 0)
     /\ BroadcastReaders
     /\ UNCHANGED <<writersQ, promotersQ, resume_status>>

ExitLast(t) ==
  /\ MayExit(t)
  /\ rwlock = -1 \/ rwlock > 0
  /\ rwlock' = IF rwlock < 0 THEN 0 ELSE rwlock - 1
  /\ owner' = IF rwlock < 0 THEN NoThread ELSE owner
  /\ mode' = [mode EXCEPT ![t] = "none"]
  /\ nest' = [nest EXCEPT ![t] = 0]
  /\ demoted' = [demoted EXCEPT ![t] = FALSE]
  /\ WakeupAfterExit(rwlock', owner')
  /\ UNCHANGED <<waiting_writers, pc, interrupted>>

-----------------------------------------------------------------------------
(* thread_stop_active_workers: the shutdown thread interrupts a thread whose *)
(* status is TS_WAIT, that is, one asleep in a writer or promoter queue.    *)
(* The signal is lost if t has set its status but does not sleep yet.       *)
Interrupt(t) ==
  /\ pc[t] \in {"writer", "promoter"}
  /\ interrupted' = [interrupted EXCEPT ![t] = TRUE]
  /\ resume_status' = [resume_status EXCEPT ![t] = "DUE_TO_INTERRUPT"]
  /\ \E heard \in BOOLEAN : cond' = [cond EXCEPT ![t] = @ \/ heard]
  /\ UNCHANGED <<csVars, pc, callerVars>>

-----------------------------------------------------------------------------
csect_enter(t)   == EnterTakes(t) \/ EnterWaits(t)
csect_enter_as_reader(t) == ReaderReenters(t) \/ ReaderTakes(t) \/ ReaderWaits(t)
csect_demote(t)  == DemoteWriter(t) \/ DemoteReader(t)
csect_promote(t) == PromoteTakes(t) \/ PromoteWaits(t)
csect_exit(t)    == ExitNested(t) \/ ExitLast(t)

(* What a sleeping thread does once its condition has been signalled.       *)
Resume(t) ==
  \/ WriterSleepsOn(t)   \/ WriterTakes(t)   \/ WriterWaitsAgain(t)
  \/ PromoterSleepsOn(t) \/ PromoterTakes(t) \/ PromoterWaitsAgain(t)
  \/ ReaderResumes(t)    \/ DemoterResumes(t)

Next ==
  \E t \in Threads :
    \/ csect_enter(t)
    \/ csect_enter_as_reader(t)
    \/ csect_demote(t)
    \/ csect_promote(t)
    \/ csect_exit(t)
    \/ Resume(t)
    \/ Interrupt(t)

Spec == Init /\ [][Next]_vars

(* A signalled thread gets the monitor lock and runs, and a thread that has *)
(* got in finishes its work: the log flush promotes, everybody exits.       *)
Fairness ==
  \A t \in Threads :
    /\ WF_vars(Resume(t))
    /\ WF_vars(csect_promote(t) \/ csect_exit(t))

FairSpec == Spec /\ Fairness

-----------------------------------------------------------------------------
(* Every variable has the type the code gives it.                           *)
TypeOK ==
  /\ rwlock \in Int
  /\ owner \in Threads \cup {NoThread}
  /\ waiting_writers \in Int
  /\ writersQ \in Seq(Threads)
  /\ promotersQ \in Seq(Threads)
  /\ pc \in [Threads -> Blocked \cup {"run"}]
  /\ cond \in [Threads -> BOOLEAN]
  /\ resume_status \in [Threads -> Statuses]
  /\ interrupted \in [Threads -> BOOLEAN]
  /\ mode \in [Threads -> Modes]
  /\ nest \in [Threads -> Nat]
  /\ demoted \in [Threads -> BOOLEAN]

(* Many readers or one writer: whatever order threads enter, demote,        *)
(* promote, exit, wake up and are interrupted in, a thread whose call gave  *)
(* it the write lock shares the section with nobody.                        *)
Exclusion == \A t \in Writers : Writers = {t} /\ Readers = {}

(* rwlock and owner record who is inside (critical_section.h: "> 0 = #      *)
(* readers, < 0 = writer, 0 = none"): the number of readers, or the depth   *)
(* of the one writer, who is the owner.                                     *)
LockWord ==
  /\ Writers = {} => rwlock = Cardinality(Readers)
  /\ \A t \in Writers : rwlock = -nest[t] /\ owner = t

(* Only a writer has nested entries, and a thread asleep in a call holds    *)
(* nothing: it gave its hold up before it queued to be promoted.            *)
Holds ==
  \A t \in Threads :
    /\ mode[t] = "write" <=> nest[t] > 0
    /\ pc[t] # "run" => mode[t] = "none"

(* With the calls of the engine, owner names the thread the section is      *)
(* reserved for: its writer, or the writer that demoted itself and has not  *)
(* yet promoted, even while that thread holds nothing and sleeps.           *)
Reservation ==
  \A t \in Threads :
    /\ demoted[t] => owner = t
    /\ owner = t => mode[t] = "write" \/ demoted[t]
    /\ pc[t] = "promoter" => demoted[t]
    /\ pc[t] \in {"writer", "reader"} => ~demoted[t]
    /\ pc[t] # "demoter"

(* The queues share one link field of a thread (next_wait_thrd): a thread   *)
(* is queued once, only where it waits, and whoever waits without being     *)
(* queued has been signalled, by the section or by the shutdown thread (the *)
(* assert (0) of csect_wait_on_writer_queue and of _promoter_queue), in     *)
(* whatever order the two come.  waiting_writers, incremented before a      *)
(* sleep and decremented after it by the sleeper, counts the waiters still  *)
(* queued and those already woken that do not yet hold the mutex.           *)
QueueDiscipline ==
  /\ \A q \in {writersQ, promotersQ} :
       \A i, j \in DOMAIN q : q[i] = q[j] => i = j
  /\ \A t \in Threads :
       /\ InQueue(t, writersQ) => pc[t] = "writer"
       /\ InQueue(t, promotersQ) => pc[t] = "promoter"
       /\ /\ pc[t] \in {"writer", "promoter"}
          /\ ~InQueue(t, writersQ) /\ ~InQueue(t, promotersQ)
          => cond[t]
       /\ pc[t] \in {"writer", "promoter"} /\ cond[t] /\ ~ResumedByShutdown(t) =>
            resume_status[t] =
              IF pc[t] = "writer" THEN "WRITER_RESUMED" ELSE "PROMOTER_RESUMED"
  /\ waiting_writers = Cardinality({t \in Threads : pc[t] \in {"writer", "promoter"}})

(* No wake-up is lost: when nobody is inside and threads sleep, one of them *)
(* is about to run, and while threads that could only wait for a writer     *)
(* sleep, the writer is there.                                              *)
NoLostWakeup ==
  LET awake == {t \in Threads : pc[t] # "run" /\ cond[t] /\
                   ~InQueue(t, writersQ) /\ ~InQueue(t, promotersQ)}
  IN  rwlock = 0 /\ (\E t \in Threads : pc[t] # "run") => awake # {}

(* The section is what RWLock promises, the reservation of a demoted writer *)
(* included, when threads demote and promote as the log flush does.         *)
RW == INSTANCE RWLock WITH reserved <- demoted
Refinement == RW!Spec

(* Once threads stop calling enter and demote, every thread that waits in a *)
(* call gets in: nobody sleeps for ever on a section that others leave.     *)
NoNewCall ==
  \A t \in Threads :
    ~(csect_enter(t) \/ csect_enter_as_reader(t) \/ csect_demote(t))
Drains == <>[][NoNewCall]_vars => []<>(\A t \in Threads : pc[t] = "run")
=============================================================================
