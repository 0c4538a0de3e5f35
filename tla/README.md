# A TLA+ development for the Rye server

Rye is a relational database derived from CUBRID with sharding and replication
built in. These modules model parts of its server whose correctness depends on
the order in which threads, disk writes and messages happen. Paths in this file
are relative to the repository's `src/` directory.

1. [The system](#1-the-system) - an inventory of its parts
2. [Plan](#2-plan)
3. [Modules and the code they model](#3-modules-and-the-code-they-model)
4. [Runs](#4-runs), [5. Fairness](#5-fairness), [6. Proofs](#6-proofs)
7. [Where code and comments disagree](#7-where-code-and-comments-disagree)
8. [What is not modelled](#8-what-is-not-modelled)

To check a run: `tlc -config MCLogFlush_crash.cfg MCLogFlush`.
To check the proofs of a module: `tlapm LogFlushProofs.tla`.

## 1. The system

| part | state | operations | interacts with | what is hard |
|---|---|---|---|---|
| critical sections (`thread/critical_section.c`) | lock word, owner, waiter count, writer and promoter queues | enter, enter as reader, demote, promote, exit | every server component; shutdown wakes waiters | re-entry, demotion with a reservation, choice of whom to wake |
| log append and flush (`transaction/log_prior_lsa.c`, `log_page_buffer.c`) | prior list, page buffers, `nxio_lsa`, log volume | append a record, drain the list, flush, commit wait | log flush thread, page buffer, recovery, log writers | crash between page writes, flush in the middle of a record, group commit |
| log shipping (`replication/repl_log_writer_sr.c`) | list of writer entries, flush hand-over flags | register, suspend, pack, send, confirm | flush (through LOG_CS and three condition variables), copiers | lost signals, deadlock with the flush, broken connections, shutdown |
| object locks (`transaction/lock_manager.c`, `lock_table.c`) | per resource: holders, waiters, total mode; per thread: lock wait | lock, convert, unlock, unlock all, three granting loops | deadlock daemon, shutdown, transactions | upgraders, expiring waits, granting from the middle of the queue |
| shard keys and groups (`lock_shard_key_lock`, `log_tran_table.c`) | ownership bits, transaction descriptors | statement, commit or abort, give a group up, take it | lock manager, migrator, log | test-then-act on ownership, clean hand-over |
| recovery (`transaction/log_recovery.c`) | log volume, transaction table | analysis, redo, undo | log, page buffer | finding the true end of the log |
| thread manager (`thread/thread.c`) | thread entries, job queue, daemons | suspend, wake up, stop workers | all | lost wake-ups, order of the stop |
| data page buffer (`storage/page_buffer.c`) | buffers, latches, LRU lists | fix, unfix, flush, victimise | log (WAL), storage | latch deadlocks, victim races |
| heartbeat (`executables/master_heartbeat.c`) | node table, scores, process table, job queues | heartbeats, score, failover, failback, change of slave, mode change, reload | other nodes, server, copiers | partitions, late answers, two masters |
| replica (`replication/repl_analyzer.c`, `repl_applier.c`, `repl_queue.c`, `repl_writer.c`) | queues, progress record, copied log | analyse, assign, apply, commit, update progress | server, catalog | order of commits, restart after a crash |
| shard management, rebalance (`broker/shard_mgmt.c`, `rebalance/`) | group table, rebalance jobs, migrator | add a node, move a group, sync the log, collect garbage | brokers, servers | failures in the middle of a move |
| broker and CAS (`broker/broker.c`, `cas.c`) | job queue, CAS states in shared memory | dispatch, hand over a socket, restart a CAS | drivers, CAS | races on shared memory |
| sessions (`session/session.c`) | session table | create, use, end, reap | CAS | reaper against use |
| storage, query, parser, object layer, drivers, utilities | pages, plans, caches | sequential algorithms | locks and latches above | size, not concurrency |

The core of the server is the path of a commit: statement, shard key, object
lock, log record, flush, log writer, copier, analyzer, applier. The components of
that path are modelled, and with them the election that decides which node's
server takes commits at all.

## 2. Plan

| step | modules | state |
|---|---|---|
| 1 | `CriticalSection` implements `RWLock` | modelled, checked, proved |
| 2 | `LogWriter`, which uses `RWLock` for LOG_CS | modelled, checked, proved |
| 3 | `LogFlush` implements `DurableLog` | modelled, checked, safety and refinement proved |
| 4 | `LockManager` implements `LockTable`; `ShardLock` | modelled, checked, proved |
| 5 | `Heartbeat` | modelled, checked, safety proved |
| 6 | `Replica` implements `ReplayOrder` | modelled, checked, safety and refinement proved |

What could come next, each with a protocol worth a module: the migrator and the
synchronisation of its log, composed with `ShardLock`; `LogFlush` with `LogWriter`,
to say when a commit may be reported if replicas are synchronous; the broker's job
queue and CAS states; page latches.

## 3. Modules and the code they model

`PROJECT.json` maps every definition to its lines.

### CriticalSection, RWLock

One section. `rwlock`, `owner`, `waiting_writers` and the two queues are the
fields of `CSS_CRITICAL_SECTION`; `cond`, `resume_status` and `interrupted`
belong to the thread entries. What is done while the section's mutex is held is
one step; a thread that waits gives the mutex up, so each wait splits an
operation in two (`EnterWaits` ... `WriterResumes`, `WriterTakes` or
`WriterWaitsAgain`). `Interrupt` is the shutdown thread, which wakes any waiter
at any time.

`FreeCallers = TRUE` lets threads call anything at any time; `FALSE` keeps to the
calls the engine makes (a reader does not enter as writer, only a writer that
demoted itself promotes). All callers in the repository pass an infinite wait,
so the no-wait and timed branches, which nobody reaches, are left out.

`RWLock` is the promise: readers or one writer; a writer that demotes itself
keeps a reservation, and nobody else can write until it has promoted or left.

### LogWriter

The flush (`fpc`) and the log writer threads (`pc`) meet in three hand-overs:
the flush marks waiting entries FETCH and wakes their threads, the writers wait
for `flush_completed`, the flush waits on `flush_end_cond`. A step is what is done
under one of the four mutexes. LOG_CS is an instance of `RWLock`. An LSA is a
page number. The copier is in the model as far as its next request depends on
what it has received (`copied`): header, catching up, then synchronous requests.
`MayFail` adds broken connections and unreadable pages, `MayStop` the shutdown,
and `FlushWhileStop` system threads that still write log while the writers are
being stopped.

### LogFlush, DurableLog

A log of slots, `PageSize` to a page. A record has a header slot and data slots,
so records longer than a page cross pages. `mem` is the content of the log pages
in memory, `disk` what is written, `pending` the pages written and not yet
synced. Appending goes slot by slot, because the page buffer can fill inside a
record: the flush then writes an end mark over the header of that record, and
puts the header back afterwards (`save`). The order of the writes is the code's:
the pages behind the first, a sync, the first, a sync. `Crash` keeps any subset
of the pending pages; `Recover` follows the record headers (`Chain`) to the end
mark and goes on from there.

Transactions append an update record and a commit record; a page writer copies a
data page and forces the log before it writes the copy. `config` is the way the
server runs, chosen at the start from `Configs`: commits wait for the log flush
thread ("normal"), return at once (group commit, "group"), or find no log flush
thread and flush by themselves ("direct").

`DurableLog` is the promise: records are added at the end, a prefix of them is
stable and only grows, and a crash keeps that prefix and the log goes on from it.
`stable` is mapped to `Chain(disk)`, what a restart would read.

Abstractions: a page write is atomic; LOG_CS has one owner; archives, the log
header page and undo are left out.

### LockManager, LockTable

Every resource has its list of holders, its list of waiters, `total_holders_mode`
and its mutex; every transaction has one thread. Requests that are granted at
once are one step. A release removes the entry and then runs the granting loop
entry by entry while it keeps the resource mutex (`GrantHolder`, `GrantWaiter`,
`GrantPartial`), because threads leave their wait without that mutex: the daemon
that expires waits (`ForceTimeout`) and the shutdown (`StopWake`) can come between
two turns of the loop. A thread that was resumed in vain (`Wake`) removes its own
entry in a later step (`GiveUp`).

`LockTable` is the promise: each transaction has a granted mode for each value,
and a mode is granted only when it is compatible with those of the others. It has
one exception, which is the code's: an upgrade overlooks upgraders whose wait has
ended and that have not yet withdrawn (`leaving`, see section 7).

Left out: free lists and hash chains, `total_waiters_mode` (no decision reads
it), requests with zero wait (they change no list), several threads of one
transaction, and the cycle search of the deadlock daemon, whose result is unused.

### ShardLock

One node. A statement on a shard table checks the group's bit, takes the key's X
lock if it updates, records key and group in the descriptor under the transaction
table mutex and checks the bit again. The end of a transaction releases the lock
first and clears the descriptor afterwards. The migrator waits for a moment
without working transactions of the group, clears the bit in that moment, and
appends the end mark after it has released the mutex. The X lock is here a
single owner, which is what `LockTable` promises for X.

Left out: the global and the catalog key, DDL, and the migrator's own statements
(negative group ids), which skip these checks.

### Heartbeat

The nodes `1 .. NumNodes`, numbered by priority. `node_state` is what a node says
of itself, `known[n][m]` what `n` believes of `m`, `resource_state` what `n` makes of
its servers; all three exist in the code, and the properties are about their
agreement. `jobs[n]` counts the jobs in the queue of the cluster worker, and there
is one action per job: `CalcScore`, `CheckPing`, `Failover`, `Failback`, `ChangeSlave`,
`Demote`. A job that releases the cluster's lock before it sets the state of the
servers is two steps, joined by `worker` (`Finish`). Scores are computed as the
code does, in a signed 16-bit number.

Time is abstracted. A job runs at any moment after it was queued. `said[m]` is
every state that `m` ever sent, so a heartbeat can be lost, repeated, late or
overtaken; any node may be found silent and a ping may fail. `Crash`,
`ServerFails` (a server of the master keeps dying, or its disk does), `ChangeMode`
(the administrator's command) and `NoJobArg` (no memory for the job of an isolated
master) happen up to `MaxFaults` times. A node that is elected and has no memory for
its `CHECK_PING` goes on to `FAILOVER` without a ping; that is a case of `CalcScore`
and may happen at any time. `Calm` ends the faults: afterwards heartbeats say what
their sender is, and pings are answered.

Left out: replica nodes, which are never candidates; changes of the node list;
deactivation; the states of single servers and with them `CHANGEMODE_FORCE`; the
supervision of processes, except where it demotes a node.

### Replica, ReplayOrder

The agent of a standby. The master's `log` is a function from transactions to the
places of their first record, first replication item and end; an LSA is the number
of a record. `Receive` is the log writer: it moves `eof` and the status of the file
whenever pages arrive, also after the master is believed dead. The analyzer is a loop
with a program counter `pc`: `cirp_change_state`, `ReadHeader`, then the records of a
page one by one (`AnalyzeRecord`, `Assign`, `Push`, `WaitTranCommit`), and `EndPage`.
A report of the agent's state is four steps, each of them a call or a wait during
which the server and the appliers go on: `cirp_change_state` decides it,
`GetServerMode` reads the mode of the server if it is DONE, `ForceCommit` waits for the
appliers if that mode was TO_BE_MASTER (`MayReport`) and writes the analyzer's row, and
`Notify` tells the server.

The applier's steps are split where another thread can see the difference: the
server has committed (`SENT`), `committed_lsa` is set (`SET`), the item is dismissed.
The last request of a transaction ends with the applier's row of the catalog, and the
server commits by itself when it has written such a row (`xlocator_repl_force` in
`transaction/locator_sr.c:3930`): items and row are one step, `Commits`. What
`cirp_flush_repl_items` does after a success, `cci_set_autocommit`, ends an empty
transaction, so nothing hangs on its result. `SendAgain` is the library underneath
(`cci/cas_cci.c:2549`), which repeats a request outside of a transaction when its
answer is lost.

The catalog (`anlz_row`, `appl_row`) and the database (`times`, `torn`) survive; the
rest is memory. `ApplierFails` and `AnalyzerFails` are calls to the server that fail,
served or not (a commit, a row, the report of a state); the flag
`need_restart` then stops every agent, and `Start` clears the
memory and reads the catalog. `Crash` is the death of the process. `MasterDies` and
`ChangeServerState` lead the standby's server to `MASTER`, which needs DONE from the
agent.

`ReplayOrder` is the promise: the transactions of one applier are committed in the
standby in log order, and one that blocks (a schema change or a global table) after
all earlier ones of the other appliers, except those of the DDL applier, which the
code does not wait for. A transaction may be committed again, but not after one that
must follow it: a restart never replays what is behind.

Left out: the lock on the database name that keeps the agents of two masters apart,
archives, delayed replication, the group bitmap records that are applied outside
the transaction, and what an item does to a row.

## 4. Runs

| run | instance | shows |
|---|---|---|
| `csect_any_caller` | 3 threads, nesting 2, any calls | the queues hold just the threads that wait in them, whoever is woken in vain |
| `csect_engine` | 3 threads, nesting 2, the engine's calls, fair | no lost wake-up, `RWLock` is implemented, every waiter gets in once no more calls are made |
| `logwr_sync` | 2 synchronous writers, 2 flushers, 2 pages, 2 to a message, failures | FETCH pages are on disk, a flush ends with its copiers up to date, never sleeps without a writer that wakes it and leaves none fetching |
| `logwr_live` | 1 asynchronous writer, 3 pages, failures, stop, fair | flushes return, log on disk is delivered; on a stop the writer leaves, with the whole log confirmed |
| `log_crash` | 2 transactions, 2 slots a page, records of 1 and 5 slots, page buffer of 3, prior list of 2, 14 slots, 1 crash, normal commits | restart reads whole records up to a mark; nothing before `nxio_lsa` is lost; WAL; requests are not lost; `DurableLog` is implemented |
| `log_live` | 2 transactions, records of 1 slot, all three configurations, no crash, fair | commits return; a direct commit survives once reported; a group commit becomes durable |
| `lock_grant` | 3 transactions, S, U and X, count 2, expiring waits, the shutdown wakes one of them | consistency of lists and total mode, nobody forgotten, `LockTable` is implemented |
| `shard_migrate` | 2 transactions, 3 keys in 2 groups, reads and updates | rows change only in owned groups, nothing of a group is logged after its end mark, no waiting with a key in hand |
| `hb_elect` | 2 nodes, 1 crash, failing server, changemode or master without memory, lost, late and repeated heartbeats, failing pings, fair | the chain of election jobs breaks on one path only; servers are masters only on a node that says so; once the network is calm there is one master, known to all, and no other master server |
| `replica_replay` | 3 logs of 3 transactions, 3 appliers, pages of 3 records, queues of 1, 1 lost answer, failure, crash or death of the master, fair | a restart loses nothing and replays nothing out of order (`ReplayOrder`), DONE for a server that was read as TO_BE_MASTER comes after the last commit, everything received is replayed |

Two more runs (`logwr_embrace`, `log_durable`) end in a counterexample; they are
the subject of section 7.

### Why the bounds are enough

- Critical section: the interesting meetings need a writer, a promoter and a
  reader, and a queue of two.
- Log writer: a second writer makes the flush wait for more than one; two
  pages are a flush and another one during the catch-up or the synchronous send of
  the first. With three pages, one to a message (`logwr_live`), a catch-up takes
  several messages.
- Log: a record of five slots in pages of two crosses at least two page borders,
  starts at either slot of a page, and fills a page buffer of three; 14 slots
  hold the records of two transactions. The invariants ask in every state what
  a restart would read if the server crashed now, whichever pending pages
  survive, so one crash in a behaviour covers a second one after the restart.
  For liveness (`log_live`) the length of a record plays no part. That direct
  commits survive was also checked with the records and the crash of `log_crash`
  (`Configs = {"direct"}`, without the deadlock check, 115,000 states).
- Locks: three transactions are an upgrader that gives up, one behind it and a
  holder that releases, or a holder and two waiters of which the first leaves.
  The same properties hold for four transactions without the shutdown
  (`Tran = {t1, t2, t3, t4}`, `Stopping = {}`, 525,000 states), where three
  waiters can queue and the middle one leaves. `Stopping` are the transactions
  whose threads the shutdown wakes; one is enough for a wait that ends without
  its `lockwait` being cleared, and with all three (896,000 states) the same
  properties hold.
- Shards: two keys of one group tell group from key; the second group lets a
  transaction move.
- Heartbeat: two nodes are the usual installation, and enough for both to find
  the other silent, become masters and meet again. Partitions and lost or late
  heartbeats are not counted by `MaxFaults`; one fault on top of them gives a crash
  in the middle of a failover, or a demotion that races one. `ChainGoesOn` and
  `ServersFollow` are proved for any number of nodes and faults.
- Replica: the three logs are the cases the code tells apart: one that blocks ends
  inside an older open transaction, and a big one follows; one that blocks is
  overtaken by a commit of its own applier; two schema changes and a rollback.
  Seven records in pages of three end in the middle of a page; `Flushes` ends the
  received log inside and outside of transactions. With one failure the agent
  restarts once from every point; the invariants speak of the catalog in every
  state and so of the next restart too, and are proved for all logs and sizes.
  Invariants and refinement also hold with two failures (4,465,000 states), where
  an answer is lost in the replay after a restart.

`MaxNest`, `MaxCount`, `MaxLsa`, `MaxCrash`, `MaxFaults`, `LastLsa` and `Flushes` are
bounds of the model; `MaxToflush`, `MaxPrior`, `PackPages`, `PageSize` and `QSize` are
limits of the code made small; `NumNodes` and `NumApplier` are configuration.

Deadlock is checked except in `logwr_live` and `logwr_embrace`, where the server
stops, and in `log_live`, where the transactions end and, without a log flush
thread, nothing else runs. `hb_elect` and `replica_replay` never stop: the
election chain and the analyzer's loop go round for ever.

## 5. Fairness

- Critical section: a woken thread runs (weak fairness of `Resume`), and a thread
  inside leaves in the end (its caller's code is finite). Nothing is assumed about
  new calls, and because new callers may overtake woken writers, only `Drains` can
  be promised: when calls stop, the section empties.
- Log writer: weak fairness for every step of a flush and of a writer. Strong
  fairness where a step competes for LOG_CS or `flush_start_mutex` (`FlushMark`,
  `Register`, `UsesLogCs`, `Suspend` after announcing it): the other users hold
  them briefly, and a mutex or section that is free again and again is obtained
  in the end. For `StopInterrupt` because `thread_stop_active_workers` repeats
  its pass until the workers are gone. A broken connection is noticed.
- Log: weak fairness for commits, the log flush thread and the owner of LOG_CS.
  No fairness of any timeout for normal and direct commits. With group commit,
  strong fairness of the flush thread's timeout, because the thread adds up the
  time it has waited (`total_elapsed_time`) over its rounds.
- Heartbeat: weak fairness for the worker's jobs, the demotion's confirmation, the
  restart of a node and each heartbeat. Strong fairness for the end of a
  demotion, because the retries of `hb_cluster_job_demote` are bounded. That the
  network becomes calm is an assumption on the world, and the one under which
  an election by timeouts can promise anything.
- Replica: weak fairness for the analyzer and each applier, whose waits (for room,
  for idle appliers, for a commit) are loops that look again every few
  milliseconds. None for the log writer: `Replayed` is about what it has received.

## 6. Proofs

| module | theorem | inductive invariant |
|---|---|---|
| `CriticalSectionProofs` | `TypeCorrect`, `MutualExclusion`, `LockWordCorrect` | types, exclusion, lock word = readers or minus depth, and that only threads inside hold anything |
| | `ReservationKept`, `ImplementsRWLock` (assume `FreeCallers = FALSE`) | the same and: `owner` names the writer or the one that demoted itself |
| | `QueuesInOrder` | `QueueInv`: each thread's place in the queues by where it waits and who signalled it; `waiting_writers` is the number of threads that wait |
| | `WakeupsNotLost` (assumes `FreeCallers = FALSE`) | `WakeInv`: a demoted writer that holds nothing is a promoter asleep, and in a free section the one it is for has been woken |
| `LogWriterProofs` | `LogWriterTypes`, `EndSignalNotLost`, `NoneLeftFetching`, `FetchedPagesDurable` | what each thread holds of LOG_CS at each program point; at most one flush is past its start; the relation of entry, page numbers and disk at each program point |
| | `FlushedPagesConfirmed`, `WritersStopInSync` | `SyncInv`, per writer: its entry, its request and what the flush made it owe (`CallInv`), who may end it early (`InterruptInv`), what is packed, sent and confirmed at each point (`OwedInv`, `ConfirmedInv`) |
| `LogFlushProofs` | `RequestsNotLost` | a waiting commit's request is counted, signalled or being served |
| | `RestartReadsPrefix`, `NothingFlushedIsLost`, `NxioNeverMovesBack`, `LogIsDurable` | `IInv`: the records tile the log; page buffer, disk, list of dirty pages and unsynced pages at each point of an append and of a flush (`PlaceInv`, `PageInv`, `MemInv`, `DiskInv`) |
| | `LogIsAhead`, `DirectCommitsSurvive`, `ReportedCommits` | the same and `WaitInv`: what each waiting commit and the page writer know of `nxio_lsa` |
| | `LogFlushInvariant`, `TypeCorrect`, `AppendsAreConsistent` | all of it (`LogFlushInv`) |
| `LockManagerProofs`, on the lemmas of `LockManagerLemmas` | `Invariance`, `TypeSafety`, `TotalExact` | `Inv`: the order of the lists, one entry per transaction, the total mode, and what the program counter of a thread says of its entry and of `res_mutex` (`ThreadInv`) |
| | `NoUpgraderForgotten`, `NoWaiterForgotten` | the same and `LoopInv`: while nobody keeps `res_mutex` all is settled; the one who keeps it has passed by only entries whose wait is over (`OwnerInv`) |
| | `LockTableImplemented` | the same |
| `ShardLockProofs` | `OnlyOwnedGroupsWritten`, `HandoverMissesNothing` | a transaction past its second test is working with its group recorded and the group's bit set; the end mark is logged only when the bit is clear |
| | `ShardKeysDeadlockFree` | who holds a key has passed the wait for it and has it on the way to its descriptor |
| | `UpdatersExclude` (assumes no plain SELECTs) | changed rows lie under the key in the descriptor, whose lock is held |
| `HeartbeatProofs` | `TypeCorrect`, `ElectionGoesOn` | a running node has at least one election job, queued or at work, while no isolated master lacked memory; a stopped one has none |
| | `ServersFollowTheNode` | as long as no server failed and no mode was changed there is at most one election job, no demotion, and a queued FAILOVER belongs to a node that is not MASTER |
| `ReplicaProofs` | `TypeCorrect`, `RestartLosesNothing`, `RequiredNeverPasses`, `DoneIsReplayed`, `BlockedIsAwaited`, `AgentImplementsReplay` | what the catalog says of the database, the queues of the log, an applier of its row, the analyzer's table of all that is not committed, and that nothing which may still be committed again lies before a committed transaction that blocks |

The properties are not inductive alone. That the flush's wait is not a lost one,
for example, follows only from knowing that a writer changes its entry from FETCH
under the same mutex under which the flush scans and waits, that one flush at a
time is between start and end, and that entries are marked in no other place;
those facts make up the invariant. Mutual exclusion needs the lock word, because
the code decides by the lock word and the property speaks of the threads.

The queues and the wake-ups of the critical section are two invariants, because the
first holds for any calls and the second does not. A waiter that was signalled has
left its queue, and one that the shutdown woke is still in it; `waiting_writers` is
the number of both, so the readers that test it see also the writer that is woken and
does not yet have the mutex. That the last thread to leave wakes the
right one (`ExitWakes`) is the rest: in a free section the owner, if `owner` still
names a demoted writer, has been woken; otherwise some waiter has, and if there is no
waiter every sleeping reader has (`WokenUp`). The reservation comes in because a
demoted writer that holds nothing can only be asleep as a promoter (`Sleeps`).

What a restart reads is `Chain`, a function that walks the headers; its value is
defined by recursion on addresses that grow up to the end of the volume. The prover
has no induction over an operator, so `LogFlushProofs` gets it from sets: a
nonempty set of numbers has a least element (`LeastNat`, from the well-foundedness of
`<`), hence a function that looks only ahead exists (`LooksAhead`), hence `Chain`
satisfies its defining equation, and a counterexample nearest to the end of the log
contradicts the equation (`ReadsFrom`). The result, `Reads(disk, e, recs, top)`, is
what the invariant carries: the mark lies at a boundary `e` and every record before it
is whole. A flush changes the disk in dirty pages only, the page of `nxio_lsa` last
and after a sync; until that page is written a restart still stops at the old
`nxio_lsa`, so any subset of the other pages may be there (`DiskInv`). When the flush
stops in the middle of a record, the mark stands where the record's header was, and
`MemInv` says that this is the only slot in which the page buffer differs from the
records. `ReportedCommits` is what remains true of the commits of section 7: one that
is reported survives unless its record starts exactly at `nxio_lsa`.

A synchronous copier has confirmed its round because the flush marks only entries
whose writer waits with the copier's last page confirmed (`ConfirmedInv`), the pages
packed after the wake-up reach as far as the flush asked for (`OwedInv`, which needs
the bound on `round` by the pages of one reply), and the one way to skip sending is an
entry given an end of its own, which happens only to a broken connection or in a
server that stops (`InterruptInv`).

The lock manager's promise that nobody is forgotten concerns a moment in which
nobody runs: `res_mutex` is free and a transaction sleeps. It holds because a granting
loop stops for one reason only. The upgraders of a list stand before the other
holders, and behind one that asks for X every upgrader asks for what that one's own
lock does not allow (`Ordered`; `PositionIs` shows that `lock_position_holder_entry` keeps it in
all its three cases). So `lock_grant_blocked_holder`, which tests the first
upgrader against the holders behind it, may stop at the first that it cannot grant:
those behind are held up by that one (`OrderBlocks`, `HoldersDone`). Threads whose wait
ended without the mutex are in the lists and are passed by; `OwnerInv` counts them.
The waiters are simpler: while the first of them sleeps, it is incompatible with the
total mode (`Stuck`), and a grant behind it makes that mode only stronger
(`StuckGrows`). The total mode is exact only because `TotalStep` bounds every change of an entry
by a mode that is converted into the total in the same step.

The total mode is a recursive function over the list, as in the code a loop over it.
`ConvertedIs` shows that such a function exists and is the strongest mode of the list,
again by a least counterexample; compatibility and conversion are the code's tables,
of which `ConvIs` and `CompIs` read off that two modes convert to the stronger and are
compatible when their numbers add up to at most five.

`LockTable` is implemented step by step: a grant of a new request is one by the test
against all holders, an upgrade one by the test against all others, and a grant in the
loop over the upgraders one by the test against the holders behind, because the loop
has passed by those before and their wait is over (`GrantHolderTable`): they are the
exception `leaving` of `LockTable`, and there is no other.

The argument about the replica joins four facts, each useless alone. The row of an
applier is the end of its last commit, so it tells exactly which of its transactions
are done (`CommitInv`). A queue holds transactions of its applier in log order, and
the earlier ones that are not on it are committed (`QueueInv`). An applier's memory is
its row, or behind it after an answer was lost (`ApplierInv`). Every transaction that
the analyzer has passed and the standby has not committed is in its table with its
true start (`TableInv`, `ReadInv`), so the minimum over the table, which becomes the
analyzer's row, is low enough. `OvertakenInv` is what remains of the promise that the
analyzer waits for a transaction that blocks. `ReplayOrder` does not rest on that
wait: it orders a blocking transaction after earlier ones, which `QueueInv` carries
from the moment of the push, and not the later ones after it.

Requests that are sent again make the order harder: a transaction that is committed
may be committed once more (`Pending`), and must not after one that blocks and follows
it. So `QueueInv` says of the earlier ones not that they are committed but that their
appliers know it (`Settled`), which is what an empty queue tells (`IdleInv`): an applier
that knows does not send again. `OrderInv` is the result, and the conjunct that a
second commit needs. `DoneWhenAsked` is an invariant of its own accord: `ForceCommit`
sees the queues empty, and between it and `Notify` commits are only added.

Assumptions on constants are named in the modules that declare them: finite sets
of threads, a thread is not `NoThread`, positive sizes, disjoint names, fewer than
4096 nodes (a priority must fit beside the state in a score), at least three log page
buffers, `Null` and the end mark different from the pieces of records, and logs in
which a transaction begins before it ends and no two share a record, a `None` that is
no transaction and a positive `MaxCount`. The bounds are arbitrary in the theorems.

`MutualExclusion`, `LockWordCorrect`, `ReservationKept`, `NxioNeverMovesBack`,
`UpdatersExclude`, `LogFlushInvariant`, `Invariance` and the type theorems other than
those of the log and the lock manager are proved without being checked by a run.

Only model-checked: liveness (`Drains`, `FlushReturns`, `Delivered`, `WritersStop`,
`CommitReturns`, `AckedBecomesDurable`, `Settles`, `Replayed`), because temporal
reasoning under fairness is out of the prover's reach.

## 7. Where code and comments disagree

Two runs state what a comment of the code says, and TLC refutes it;
`findings` in `PROJECT.json` has the lines.

- `logwr_embrace`: "It waits until all log writer threads are done" never ends
  when a writer woken by the shutdown has read its `resume_status` and is marked by
  the flush before it asks whether it is delayed: for that it wants LOG_CS, which the
  flush holds demoted.
- `log_durable`: `nxio_lsa` is the first address not on disk, and the commit test
  `LSA_LT (&nxio_lsa, flush_lsa)` compares it with the start of the commit record.
  When they are equal the commit is reported with its record in memory only.
  `AckedOrNext`, checked by `log_crash`, says that this is the only case: a
  reported commit is on disk or is the first record that is not.

Met while modelling, and visible in the actions named, but not kept as runs:

- An upgrader is granted X while an upgrader before it, whose wait expired a moment
  ago, still has S (`transaction/lock_manager.c:2457`). The exception in `LockTable`
  describes it, and `lock_grant` shows that it is the only way to two incompatible
  modes.
- A transaction whose first statement under a key is a plain SELECT has the key in
  its descriptor without the lock, and its later updates take no lock
  (`transaction/lock_manager.c:6862`). The theorem `UpdatersExclude` shows that
  without such SELECTs there is one writer under each key.
- A writer that is catching up (DELAY) does not "wait until LFT finishes
  flushing" (`replication/repl_log_writer_sr.c:683`): `Ready` lets it send pages of
  a flush that are not on disk yet. `FetchedIsDurable` is about the others.
- The shutdown signals a writer that has announced its wait and does not wait
  yet (`thread/thread.c:889`, `StopInterrupt` before `Suspend`); the signal is lost
  and not repeated, because the thread is not marked as suspended any more when
  the shutdown comes round again. An asynchronous writer's wait has a timeout, which
  `WritersStop` relies on; a synchronous writer's has none.
- The granting of waiters stops at the first that is incompatible
  (`transaction/lock_manager.c:2506`), so a later waiter may sleep although its
  mode is compatible with the holders; the comment at line 2480 promises more.
- A thread woken by the shutdown keeps its `lockwait` (`lock_manager.c:2012`), so
  it can be resumed when it no longer sleeps (`Stale`). `lock_grant` shows that
  this harms no list and no granted mode.
- A changemode queues a second chain of election jobs beside the running one
  (`executables/master_heartbeat.c:6250`). The second chain can take a node out of
  the state that the first is acting on, and leave master servers on a node that
  says it is a slave; a failing server does the same through `Demote`. This is why
  `ServersFollow` leaves both out. For the same reason the asserts of
  `hb_cluster_job_demote` (lines 1273 and 1274) are not invariants of the model.
- An isolated master for whose `CHECK_PING` there is no memory returns from
  `hb_cluster_job_calc_score` without a next job
  (`executables/master_heartbeat.c:913`), and takes part in no election any more; in
  a healed network it may stay a second master. `ChainGoesOn` says that this is the
  only path on which the chain ends; it and `Settles` assume that it is not taken. An
  elected node without memory goes on without a ping (line 971), which harms neither.
- After a changemode on each of two nodes both may stay TO_BE_SLAVE: `Relieved`
  needs a master, and a node that is TO_BE_SLAVE is not `Elected`. `Settles` is
  checked with one fault and says nothing of this.
- "wait until transactions are all committed" (`replication/repl_analyzer.c:432`):
  the wait is made only for a server that `cci_get_server_mode` finds TO_BE_MASTER, and
  does not look at the DDL applier. A server that is SLAVE at that moment is sent DONE
  with transactions in the queues (`MayReport`), and may be TO_BE_MASTER when it
  arrives, between lines 433 and 508. `DoneWhenAsked` says what is left: it is about
  the mode that was read.
- "wait until current transaction is committed" (`replication/repl_analyzer.c:932`):
  the wait compares the applier's progress with `repl_start_lsa`, and ends early when
  another commit of that applier lies behind it (`WaitTranCommit`,
  `BlockedOrOvertaken`).
- When the last part of a big transaction fails, `cci_set_autocommit`
  (`replication/repl_applier.c:917`) comes before the rollback, and the earlier parts
  stay committed until the transaction is replayed (`torn`). `Replayed` says that it
  is. That applying an item twice has the same effect as once is left to the server.
- A request that was served and whose answer was lost is sent and applied again
  (`cci/cas_cci.c:2549`, `SendAgain`), so a transaction can be committed twice.
  `ReplayOrder` says that this happens before anything that must follow it. The server
  ignores rows that exist already and rows that are missing
  (`transaction/locator_sr.c:3901`); a schema change that is executed a second time may
  fail.

## 8. What is not modelled

The rows of section 1 that are not in section 3, and why:

- Storage, query processing, the parser, the optimizer, the object layer, the drivers
  and the utilities are most of the repository's 680,000 lines. They are sequential
  code without a protocol of their own; a model of a B-tree split or of a compiler
  pass would be a transliteration of its data structures.
- Shard management and the migrator drive their protocol with SQL statements against
  a database of their own. What a step does is in those statements and in the
  tables they change, not in control flow that can be translated.
- Redo, undo and checkpoints of the recovery, and the victim selection of the page
  buffer, are about page contents, which no module has.
- The broker's job queue and CAS states, and the session table with its reaper, are
  protocols of moderate size that nothing modelled here depends on.

Known gaps inside the modelled parts:

- spurious wake-ups of condition variables waited for with `if`;
- a reader of a critical section woken by the shutdown continues without the
  section's mutex (`thread/critical_section.c:858`); the model lets it continue with it;
- failing allocations, among them the error path of
  `replication/repl_log_writer_sr.c:441`, the queue entry of a job of the heartbeat
  (`hb_job_queue`, whose callers assert that it succeeds) and the memory of the CAS that
  passes on a replication request: one that runs out between two parts of a request
  can leave a schema change committed without the applier's row. The allocations in
  `hb_cluster_job_calc_score` are modelled;
- `suppress_fsync` (`transaction/log_page_buffer.c:3380`): with a value n other than the
  default 0, only every n-th sync is made. `LogFlush` always syncs, and its
  properties are not promised otherwise;
- a request of the agent that is served after the agent has given it up and started
  again: one whose answer is lost is served before the agent goes on, or never;
- several threads of one transaction;
- a resource of the lock table whose last waiter leaves while it has no holder is not
  freed (`transaction/lock_manager.c:3512`); the pool of resources is not modelled;
- whether statements can lock classes in different orders; the deadlock daemon's
  resolution is compiled out, and in the model only expiring waits end a cycle;
- progress of the migrator on a group that is always busy
  (`transaction/log_tran_table.c:3664`), which the code does not promise;
- whether a commit is reported before its synchronous replicas have confirmed it:
  `logpb_flush_pages` returns when the record is on the local disk
  (`transaction/log_page_buffer.c:3755`), and the flush waits for the writers later.
