------------------------------- MODULE Replica -------------------------------
(***************************************************************************)
(* The replication agent of a standby node (src/replication).              *)
(*                                                                         *)
(* One analyzer thread reads the log that the log writer receives from the *)
(* master, collects the open transactions in its table, and pushes each    *)
(* committed one on the queue of an applier.  Each applier thread replays  *)
(* its transactions in the standby database, where the same commit writes  *)
(* its row of the catalog.  The analyzer's row says where to read from     *)
(* after a restart.  When an agent fails, all stop and start again from    *)
(* the catalog.  At the end of a dead master's log the analyzer reports    *)
(* DONE, which lets the server become the master.                          *)
(*                                                                         *)
(* An LSA is the number of a record.  Left out: the lock on the database   *)
(* name that keeps the agents of two masters apart, and the archives.  A   *)
(* request whose answer is lost is served before the agent goes on, or     *)
(* never.                                                                  *)
(***************************************************************************)
EXTENDS Integers, Sequences

CONSTANTS
    Tran,        \* transaction identifiers
    LastLsa,     \* the records of a log are at 1 .. LastLsa
    Logs,        \* the logs that a master may have written
    NumApplier,  \* Repl_Info->num_applier
    PageSize,    \* records of a log page
    Flushes,     \* bound: where the log ends when the log writer flushes
    QSize,       \* CIRP_TRAN_Q_SIZE
    MaxFaults    \* bound on failing calls, crashes and deaths of the master

NULL_LSA == 0
LSA == 1 .. LastLsa + 1
DDL_APPLIER_INDEX == 0
GLOBAL_APPLIER_INDEX == 1
Applier == 0 .. NumApplier - 1

(* A transaction starts, may have a first replication item, which decides  *)
(* its applier, and ends (RP_IS_BLOCKED_ITEM: a DDL or a global table).    *)
(* One with more than LA_MAX_UNFLUSHED_REPL_ITEMS is big.                  *)
TranLog == [start : 1 .. LastLsa, repl : 0 .. LastLsa, end : 1 .. LastLsa,
            commit : BOOLEAN, applier : Applier, blocked : BOOLEAN,
            big : BOOLEAN]

Records(r) == {r.start, r.repl, r.end}

WellFormed(lg) ==
    /\ \A t \in Tran :
          /\ lg[t].start < lg[t].end
          /\ lg[t].repl # NULL_LSA => lg[t].start =< lg[t].repl
                                      /\ lg[t].repl < lg[t].end
          /\ lg[t].blocked => lg[t].applier =< GLOBAL_APPLIER_INDEX
    /\ \A s, t \in Tran : s # t =>
          Records(lg[s]) \cap Records(lg[t]) \subseteq {NULL_LSA}

ASSUME ReplicaAssumption ==
    /\ LastLsa \in Nat
    /\ NumApplier \in Nat /\ NumApplier > GLOBAL_APPLIER_INDEX
    /\ PageSize \in Nat \ {0}
    /\ Flushes \subseteq LSA
    /\ QSize \in Nat /\ QSize > 1
    /\ MaxFaults \in Nat
    /\ Logs \subseteq [Tran -> TranLog]
    /\ \A lg \in Logs : WellFormed(lg)

VARIABLES
    log,                  \* the master's log, all of it
    eof,                  \* the log writer has received the LSAs below it
    file_status,          \* ha_info.file_status in the header it writes
    node_state,           \* the master's state, as the heartbeat knows it
    server_state,         \* the state of the standby's server
    repl_info,            \* the state of the agent that the server knows
    anlz_row,             \* required_lsa in the catalog
    appl_row,             \* committed_lsa of each applier in the catalog
    times,                \* how often a transaction was committed here
    torn,                 \* transactions of which a part was committed
    pc,                   \* where the analyzer is
    final_lsa,            \* the record it looks at
    required_lsa, current_lsa,    \* analyzer->ct
    tran_start_lsa, repl_start_lsa, tran_end_lsa,   \* tran_table
    log_hdr,              \* eof and file_status when it read the header
    is_end_of_record,
    last,                 \* last_node_state, last_ha_file_status, ...
    apply_state,
    server_mode,          \* the server's state as cirp_change_state read it
    need_restart,         \* REPL_AGENT_NEED_RESTART
    logq,                 \* the queue of an applier, from boundary to rear
    committed_lsa,        \* applier->ct.committed_lsa
    status,               \* what the applier does
    faults

master == <<log, eof, file_status, node_state>>
server == <<server_state, repl_info>>
catalog == <<anlz_row, appl_row>>
ct == <<required_lsa, current_lsa>>
table == <<tran_start_lsa, repl_start_lsa, tran_end_lsa>>
state == <<log_hdr, is_end_of_record, last, apply_state, server_mode>>
analyzer == <<pc, final_lsa, ct, table, state>>
appliers == <<logq, committed_lsa, status>>
database == <<times, torn>>
vars == <<master, server, catalog, database, analyzer, appliers,
          need_restart, faults>>

NoTable == [t \in Tran |-> NULL_LSA]
NoneLast == [node |-> "NA", file |-> "CLEAR", eor |-> FALSE]

(* A new agent: rpct_init_applier_info has inserted rows without an LSA.   *)
Init ==
    /\ log \in Logs
    /\ eof = 1
    /\ file_status = "SYNCHRONIZED"
    /\ node_state = "MASTER"
    /\ server_state = "SLAVE"
    /\ repl_info = "UNREGISTERED"
    /\ anlz_row = 1
    /\ appl_row = [a \in Applier |-> NULL_LSA]
    /\ times = [t \in Tran |-> 0]
    /\ torn = {}
    /\ pc = "start"
    /\ final_lsa = NULL_LSA
    /\ required_lsa = NULL_LSA
    /\ current_lsa = NULL_LSA
    /\ tran_start_lsa = NoTable
    /\ repl_start_lsa = NoTable
    /\ tran_end_lsa = NoTable
    /\ log_hdr = [eof_lsa |-> 1, file_status |-> "SYNCHRONIZED"]
    /\ is_end_of_record = FALSE
    /\ last = NoneLast
    /\ apply_state = "UNREGISTERED"
    /\ server_mode = "NA"
    /\ need_restart = FALSE
    /\ logq = [a \in Applier |-> <<>>]
    /\ committed_lsa = [a \in Applier |-> NULL_LSA]
    /\ status = [a \in Applier |-> "INIT"]
    /\ faults = 0

-----------------------------------------------------------------------------
(* The log writer: pages that arrive are flushed, then the header with the *)
(* end of the log and the status of the file, both from the master.        *)
Receive ==
    /\ eof' \in {eof} \cup {lsa \in Flushes : lsa > eof}
    /\ file_status' \in {"SYNCHRONIZED", "DELAYED"}
    /\ UNCHANGED <<log, node_state, server, catalog, database,
                   analyzer, appliers, need_restart, faults>>

Fault == faults < MaxFaults /\ faults' = faults + 1

MasterDies ==
    /\ node_state = "MASTER"
    /\ Fault
    /\ node_state' \in {"UNKNOWN", "SLAVE"}
    /\ UNCHANGED <<log, eof, file_status, server, catalog, database,
                   analyzer, appliers, need_restart>>

(* css_change_ha_server_state, asked for MASTER by the heartbeat: through  *)
(* TO_BE_MASTER, and on once the agent is DONE (svr_shm_check_repl_done).  *)
ChangeServerState ==
    /\ node_state # "MASTER"
    /\ \/ server_state = "SLAVE" /\ server_state' = "TO_BE_MASTER"
       \/ /\ server_state = "TO_BE_MASTER" /\ repl_info = "DONE"
          /\ server_state' = "MASTER"
    /\ UNCHANGED <<master, repl_info, catalog, database, analyzer, appliers,
                   need_restart, faults>>

-----------------------------------------------------------------------------
(* The queue of an applier holds what was pushed and is not dismissed.     *)
(* An applier dismisses an item (cirp_tran_q_clear_committed_item) before  *)
(* it pops the next: the one it has popped is the first.                   *)
Full(a) == Len(logq[a]) = QSize - 1
Busy(a) == logq[a] # <<>>
Item(a) == Head(logq[a])
Dismiss(a) == logq' = [logq EXCEPT ![a] = Tail(@)]

(* Mutant: the first applier is skipped too.                               *)
AnyApplierBusyLate ==
    \E a \in Applier : a > GLOBAL_APPLIER_INDEX /\ Busy(a)

cirp_anlz_is_any_applier_busy ==
    \E a \in Applier : a >= GLOBAL_APPLIER_INDEX /\ Busy(a)

-----------------------------------------------------------------------------
(* The analyzer.                                                           *)
InTable(t) == tran_start_lsa[t] # NULL_LSA

(* Mutant: the transaction's applier is not looked at.                     *)
CommittedByAny(t) ==
    /\ tran_end_lsa[t] # NULL_LSA
    /\ \E a \in Applier : tran_end_lsa[t] =< committed_lsa[a]

(* cirp_find_committed_tran                                                *)
Committed(t) ==
    /\ tran_end_lsa[t] # NULL_LSA
    /\ tran_end_lsa[t] =< committed_lsa[log[t].applier]

Remaining == {t \in Tran : InTable(t) /\ ~Committed(t)}

Keep(lsa) == [t \in Tran |-> IF t \in Remaining THEN lsa[t] ELSE NULL_LSA]

(* Mutant: the first row of the table that is found.                       *)
IsFoundLsa(lsa) ==
    \/ Remaining = {} /\ lsa = current_lsa
    \/ \E t \in Remaining : lsa = tran_start_lsa[t]

(* The lowest start in the table, or current_lsa when it is empty.         *)
IsRequiredLsa(lsa) ==
    \/ Remaining = {} /\ lsa = current_lsa
    \/ \E t \in Remaining :
          /\ \A s \in Remaining : tran_start_lsa[t] =< tran_start_lsa[s]
          /\ lsa = IF required_lsa =< tran_start_lsa[t]
                   THEN tran_start_lsa[t] ELSE required_lsa

(* cirp_anlz_update_progress_from_appliers, then the row of the analyzer.  *)
cirp_anlz_log_commit ==
    \E lsa \in LSA :
       /\ IsRequiredLsa(lsa)
       /\ tran_start_lsa' = Keep(tran_start_lsa)
       /\ repl_start_lsa' = Keep(repl_start_lsa)
       /\ tran_end_lsa' = Keep(tran_end_lsa)
       /\ required_lsa' = lsa
       /\ anlz_row' = lsa
    /\ UNCHANGED <<current_lsa, appl_row>>

NoCommit == UNCHANGED <<table, ct, catalog>>

(* cirp_clear_analyzer.  The source calls it at the next start; nothing    *)
(* reads this memory in between.  apply_state is kept.                     *)
ClearAnalyzer ==
    /\ pc' = "start"
    /\ tran_start_lsa' = NoTable
    /\ repl_start_lsa' = NoTable
    /\ tran_end_lsa' = NoTable
    /\ required_lsa' = NULL_LSA
    /\ current_lsa' = NULL_LSA
    /\ final_lsa' = NULL_LSA
    /\ is_end_of_record' = FALSE
    /\ last' = [node |-> "NA", file |-> last.file, eor |-> FALSE]
    /\ server_mode' = "NA"

(* Mutant: the flag stays.                                                 *)
StartKeepsFlag ==
    /\ pc = "start"
    /\ \A a \in Applier : status[a] = "INIT"
    /\ logq' = [a \in Applier |-> <<>>]
    /\ committed_lsa' = appl_row
    /\ status' = [a \in Applier |-> "BUSY"]
    /\ final_lsa' = anlz_row
    /\ required_lsa' = anlz_row
    /\ current_lsa' = anlz_row
    /\ pc' = "loop"
    /\ UNCHANGED <<master, server, catalog, database, table, state,
                   need_restart, faults>>

(* All appliers wait: disconnect, clear everything, read the catalog,      *)
(* start the appliers.                                                     *)
Start ==
    /\ pc = "start"
    /\ \A a \in Applier : status[a] = "INIT"
    /\ need_restart' = FALSE
    /\ logq' = [a \in Applier |-> <<>>]
    /\ committed_lsa' = appl_row
    /\ status' = [a \in Applier |-> "BUSY"]
    /\ final_lsa' = anlz_row
    /\ required_lsa' = anlz_row
    /\ current_lsa' = anlz_row
    /\ pc' = "loop"
    /\ UNCHANGED <<master, server, catalog, database, table, state, faults>>

(* The state that cirp_change_state reports, NA for none.                  *)
NewApplyState(node) ==
    IF is_end_of_record /\ log_hdr.file_status = "SYNCHRONIZED"
    THEN IF node = "MASTER"
         THEN IF apply_state # "WORKING" THEN "WORKING" ELSE "NA"
         ELSE IF apply_state # "DONE" THEN "DONE" ELSE "NA"
    ELSE IF apply_state \in {"RECOVERING",
                             IF node = "MASTER" THEN "WORKING" ELSE "DONE"}
         THEN "NA" ELSE "RECOVERING"

Latest == [node |-> node_state, file |-> log_hdr.file_status,
           eor |-> is_end_of_record]

cirp_change_state ==
    /\ pc = "loop" /\ ~need_restart
    /\ last' = Latest
    /\ pc' = IF last = Latest THEN "read"
             ELSE CASE NewApplyState(node_state) = "NA" -> "read"
                    [] NewApplyState(node_state) = "DONE" -> "mode"
                    [] OTHER -> "commit"
    /\ UNCHANGED <<master, server, catalog, database, final_lsa, ct, table,
                   log_hdr, is_end_of_record, apply_state, server_mode,
                   appliers, need_restart, faults>>

(* cci_get_server_mode, before DONE.                                       *)
GetServerMode ==
    /\ pc = "mode"
    /\ server_mode' = server_state
    /\ pc' = "commit"
    /\ UNCHANGED <<master, server, catalog, database, final_lsa, ct, table,
                   log_hdr, is_end_of_record, last, apply_state, appliers,
                   need_restart, faults>>

(* DONE waits for the appliers if the server was TO_BE_MASTER.             *)
MayReport == server_mode = "TO_BE_MASTER" => ~cirp_anlz_is_any_applier_busy

(* "force commit when state is changing"                                   *)
ForceCommit ==
    /\ pc = "commit"
    /\ MayReport
    /\ cirp_anlz_log_commit
    /\ pc' = "notify"
    /\ UNCHANGED <<master, server, database, final_lsa, state, appliers,
                   need_restart, faults>>

(* cci_notify_ha_agent_state                                               *)
Notify ==
    /\ pc = "notify"
    /\ repl_info' = NewApplyState(last.node)
    /\ apply_state' = NewApplyState(last.node)
    /\ server_mode' = "NA"
    /\ pc' = "read"
    /\ UNCHANGED <<master, server_state, catalog, database, final_lsa, ct,
                   table, log_hdr, is_end_of_record, last, appliers,
                   need_restart, faults>>

AfterDone == apply_state = "DONE" /\ last.node # "MASTER"

(* The analyzer reads the header of the log.  After DONE there is nothing  *)
(* to do; at the end of the log it waits; else it reads a page.            *)
ReadHeader ==
    /\ pc = "read"
    /\ log_hdr' = [eof_lsa |-> eof, file_status |-> file_status]
    /\ \/ /\ AfterDone
          /\ IF last.node # "UNKNOWN" THEN cirp_anlz_log_commit ELSE NoCommit
          /\ apply_state' = "RECOVERING"
          /\ pc' = "loop"
          /\ UNCHANGED is_end_of_record
       \/ /\ ~AfterDone
          /\ final_lsa >= eof
          /\ is_end_of_record' = TRUE
          /\ pc' = "loop"
          /\ NoCommit
          /\ UNCHANGED apply_state
       \/ /\ ~AfterDone
          /\ final_lsa < eof
          /\ current_lsa' = final_lsa
          /\ pc' = "page"
          /\ UNCHANGED <<is_end_of_record, apply_state, table, required_lsa,
                         catalog>>
    /\ UNCHANGED <<master, server, database, final_lsa, last, server_mode,
                   appliers, need_restart, faults>>

(* A record that assigns no transaction to an applier: the first of a      *)
(* transaction, its first replication item (cirp_set_repl_log), an abort   *)
(* or a commit with nothing to replay, or anything else.                   *)
Assigns(t) == log[t].end = final_lsa /\ log[t].commit
              /\ repl_start_lsa[t] # NULL_LSA

PageId(lsa) == (lsa - 1) \div PageSize

InPage ==
    /\ pc = "page" /\ ~need_restart
    /\ PageId(final_lsa) = PageId(current_lsa)
    /\ final_lsa < log_hdr.eof_lsa

AnalyzeRecord ==
    /\ InPage
    /\ \A t \in Tran : ~Assigns(t)
    /\ tran_start_lsa' = [t \in Tran |->
          IF log[t].start = final_lsa THEN final_lsa
          ELSE IF log[t].end = final_lsa THEN NULL_LSA
          ELSE tran_start_lsa[t]]
    /\ repl_start_lsa' = [t \in Tran |->
          IF log[t].repl = final_lsa /\ tran_start_lsa'[t] # NULL_LSA
          THEN final_lsa
          ELSE IF log[t].end = final_lsa THEN NULL_LSA
          ELSE repl_start_lsa[t]]
    /\ is_end_of_record' = FALSE
    /\ final_lsa' = final_lsa + 1
    /\ UNCHANGED <<master, server, catalog, database, pc, ct, tran_end_lsa,
                   log_hdr, last, apply_state, server_mode, appliers,
                   need_restart, faults>>

(* cirp_anlz_assign_repl_item                                              *)
Assign ==
    /\ InPage
    /\ \E t \in Tran :
          /\ Assigns(t)
          /\ tran_end_lsa' = [tran_end_lsa EXCEPT ![t] = final_lsa]
    /\ is_end_of_record' = FALSE
    /\ pc' = "push"
    /\ UNCHANGED <<master, server, catalog, database, final_lsa, ct,
                   tran_start_lsa, repl_start_lsa, log_hdr, last, apply_state,
                   server_mode, appliers, need_restart, faults>>

(* A transaction that blocks waits until no applier is busy.               *)
Push ==
    /\ pc = "push"
    /\ \E t \in Tran :
          LET a == log[t].applier IN
          /\ tran_end_lsa[t] = final_lsa
          /\ log[t].blocked => ~cirp_anlz_is_any_applier_busy
          /\ ~Full(a)
          /\ logq' = [logq EXCEPT ![a] = Append(@, t)]
          /\ pc' = IF log[t].blocked THEN "wait" ELSE "page"
          /\ final_lsa' = IF log[t].blocked THEN final_lsa ELSE final_lsa + 1
    /\ UNCHANGED <<master, server, catalog, database, ct, table, state,
                   committed_lsa, status, need_restart, faults>>

(* Mutant: the analyzer does not wait.                                     *)
WaitNothing ==
    /\ pc = "wait"
    /\ pc' = "page"
    /\ final_lsa' = final_lsa + 1
    /\ UNCHANGED <<master, server, catalog, database, ct, table, state,
                   appliers, need_restart, faults>>

(* cirp_analyzer_wait_tran_commit                                          *)
WaitTranCommit ==
    /\ pc = "wait"
    /\ \E t \in Tran :
          /\ tran_end_lsa[t] = final_lsa
          /\ committed_lsa[log[t].applier] > repl_start_lsa[t]
    /\ pc' = "page"
    /\ final_lsa' = final_lsa + 1
    /\ UNCHANGED <<master, server, catalog, database, ct, table, state,
                   appliers, need_restart, faults>>

PageEnds == pc = "page" /\ ~InPage

(* The page ends, or the log.  Once a second the progress is written.      *)
EndPage ==
    /\ PageEnds
    /\ IF need_restart \/ PageId(final_lsa) # PageId(current_lsa)
       THEN UNCHANGED is_end_of_record
       ELSE is_end_of_record' = TRUE
    /\ cirp_anlz_log_commit \/ NoCommit
    /\ pc' = "loop"
    /\ UNCHANGED <<master, server, database, final_lsa, log_hdr, last,
                   apply_state, server_mode, appliers, need_restart, faults>>

-----------------------------------------------------------------------------
(* Mutant: an item that was committed before a restart is applied again.   *)
PopAgain(a) ==
    /\ status[a] = "BUSY" /\ ~need_restart
    /\ Busy(a)
    /\ status' = [status EXCEPT ![a] = "APPLY"]
    /\ UNCHANGED <<master, server, catalog, database, analyzer, logq,
                   committed_lsa, need_restart, faults>>

(* An applier: BUSY looking at its queue, APPLY while it reads the records *)
(* of a transaction, PART when a part of it was sent, AGAIN when the last  *)
(* request is sent a second time, SENT when the server has committed it,   *)
(* SET when committed_lsa is set.                                          *)
Pop(a) ==
    /\ status[a] = "BUSY" /\ ~need_restart
    /\ Busy(a)
    /\ IF log[Item(a)].end =< committed_lsa[a]
       THEN Dismiss(a) /\ UNCHANGED status
       ELSE status' = [status EXCEPT ![a] = "APPLY"] /\ UNCHANGED logq
    /\ UNCHANGED <<master, server, catalog, database, analyzer, committed_lsa,
                   need_restart, faults>>

(* cirp_applier_clear_repl_delay: an empty queue, and the row is written.  *)
ClearReplDelay(a) ==
    /\ status[a] = "BUSY" /\ ~need_restart
    /\ ~Busy(a)
    /\ appl_row' = [appl_row EXCEPT ![a] = committed_lsa[a]]
    /\ UNCHANGED <<master, server, anlz_row, database, analyzer, appliers,
                   need_restart, faults>>

(* cirp_flush_repl_items without a commit.                                 *)
FlushPart(a) ==
    /\ status[a] = "APPLY"
    /\ log[Item(a)].big
    /\ status' = [status EXCEPT ![a] = "PART"]
    /\ UNCHANGED <<master, server, catalog, database, analyzer, logq,
                   committed_lsa, need_restart, faults>>

Applies(a) ==
    \/ status[a] = "APPLY" /\ ~log[Item(a)].big
    \/ status[a] \in {"PART", "AGAIN"}

(* xlocator_repl_force: the last request ends with the row of the applier, *)
(* and at a row of the catalog the server itself commits, items and row    *)
(* together.  The cci_set_autocommit that follows the last part of a big   *)
(* transaction ends a transaction that is empty, whatever it returns.      *)
Commits(a) ==
    /\ times' = [times EXCEPT ![Item(a)] = @ + 1]
    /\ torn' = torn \ {Item(a)}
    /\ appl_row' = [appl_row EXCEPT ![a] = log[Item(a)].end]
    /\ UNCHANGED anlz_row

(* cci_send_repl_data: the answer is lost, whether or not the request was  *)
(* served.  Outside of a transaction, so not after a first part, the       *)
(* library connects and sends it again.                                    *)
SendAgain(a) ==
    /\ Fault
    /\ status[a] = "APPLY" /\ ~log[Item(a)].big
    /\ Commits(a) \/ UNCHANGED <<catalog, database>>
    /\ status' = [status EXCEPT ![a] = "AGAIN"]
    /\ UNCHANGED <<master, server, analyzer, logq, committed_lsa, need_restart>>

(* cirp_appl_commit_transaction                                            *)
CommitTransaction(a) ==
    /\ Applies(a)
    /\ Commits(a)
    /\ status' = [status EXCEPT ![a] = "SENT"]
    /\ UNCHANGED <<master, server, analyzer, logq, committed_lsa,
                   need_restart, faults>>

(* cirp_set_applier_data, then cirp_applier_clear_committed_item.          *)
SetApplierData(a) ==
    /\ status[a] = "SENT"
    /\ committed_lsa' = [committed_lsa EXCEPT ![a] = log[Item(a)].end]
    /\ status' = [status EXCEPT ![a] = "SET"]
    /\ UNCHANGED <<master, server, catalog, database, analyzer, logq,
                   need_restart, faults>>

ClearCommittedItem(a) ==
    /\ status[a] = "SET"
    /\ Dismiss(a)
    /\ status' = [status EXCEPT ![a] = "BUSY"]
    /\ UNCHANGED <<master, server, catalog, database, analyzer, committed_lsa,
                   need_restart, faults>>

-----------------------------------------------------------------------------
(* Failures and restarts.                                                  *)
(* A call to the server fails.  It may have been served: the commit, or,   *)
(* when the last part of a big transaction fails, the commit of the other  *)
(* parts by cci_set_autocommit.                                            *)
ApplierFails(a) ==
    /\ Fault
    /\ status[a] \in {"BUSY", "APPLY", "PART", "AGAIN"}
    /\ \/ UNCHANGED <<catalog, database>>
       \/ Applies(a) /\ Commits(a)
       \/ /\ status[a] = "PART"
          /\ torn' = torn \cup {Item(a)}
          /\ UNCHANGED <<catalog, times>>
    /\ need_restart' = TRUE
    /\ status' = [status EXCEPT ![a] = "INIT"]
    /\ UNCHANGED <<master, server, analyzer, logq, committed_lsa>>

(* Where the analyzer writes its row.                                      *)
WritesRow ==
    \/ pc = "commit" /\ MayReport
    \/ pc = "read" /\ AfterDone /\ last.node # "UNKNOWN"
    \/ PageEnds

(* A call of the analyzer that fails may have been served: the write of    *)
(* its row, or the report of its state.                                    *)
AnalyzerFails ==
    /\ Fault
    /\ pc # "start"
    /\ \/ /\ WritesRow
          /\ \E lsa \in LSA : IsRequiredLsa(lsa) /\ anlz_row' = lsa
          /\ UNCHANGED <<appl_row, repl_info>>
       \/ /\ pc = "notify"
          /\ repl_info' = NewApplyState(last.node)
          /\ UNCHANGED catalog
       \/ UNCHANGED <<catalog, repl_info>>
    /\ need_restart' = TRUE
    /\ ClearAnalyzer
    /\ UNCHANGED <<master, server_state, database, log_hdr, apply_state,
                   appliers>>

(* The others see the flag.                                                *)
ApplierStops(a) ==
    /\ need_restart
    /\ status[a] \in {"BUSY", "APPLY", "PART"}
    /\ status' = [status EXCEPT ![a] = "INIT"]
    /\ UNCHANGED <<master, server, catalog, database, analyzer, logq,
                   committed_lsa, need_restart, faults>>

AnalyzerStops ==
    /\ need_restart
    /\ \/ pc \in {"loop", "push", "wait"}
       \/ pc = "commit" /\ ~MayReport
    /\ ClearAnalyzer
    /\ UNCHANGED <<master, server, catalog, database, log_hdr, apply_state,
                   appliers, need_restart, faults>>

(* The process dies and is started again.                                  *)
Crash ==
    /\ Fault
    /\ ClearAnalyzer
    /\ apply_state' = "UNREGISTERED"
    /\ need_restart' = FALSE
    /\ logq' = [a \in Applier |-> <<>>]
    /\ committed_lsa' = [a \in Applier |-> NULL_LSA]
    /\ status' = [a \in Applier |-> "INIT"]
    /\ UNCHANGED <<master, server, catalog, database, log_hdr>>

-----------------------------------------------------------------------------
AnalyzerStep ==
    \/ Start \/ cirp_change_state \/ GetServerMode \/ ForceCommit \/ Notify
    \/ ReadHeader \/ AnalyzeRecord \/ Assign \/ Push \/ WaitTranCommit
    \/ EndPage \/ AnalyzerStops

ApplierStep(a) ==
    \/ Pop(a) \/ ClearReplDelay(a) \/ FlushPart(a) \/ CommitTransaction(a)
    \/ SetApplierData(a) \/ ClearCommittedItem(a) \/ ApplierStops(a)

Next ==
    \/ Receive \/ MasterDies \/ ChangeServerState
    \/ AnalyzerStep
    \/ \E a \in Applier : ApplierStep(a) \/ SendAgain(a) \/ ApplierFails(a)
    \/ AnalyzerFails \/ Crash

Spec == Init /\ [][Next]_vars

(* Every thread runs.                                                      *)
Fairness ==
    /\ WF_vars(AnalyzerStep)
    /\ \A a \in Applier : WF_vars(ApplierStep(a))

FairSpec == Spec /\ Fairness

-----------------------------------------------------------------------------
Status == {"INIT", "BUSY", "APPLY", "PART", "AGAIN", "SENT", "SET"}

(* LSAs, the table, the queues and the catalog.                            *)
TypeOK ==
    /\ log \in Logs
    /\ anlz_row \in Nat \ {0}
    /\ appl_row \in [Applier -> Nat]
    /\ times \in [Tran -> Nat]
    /\ final_lsa \in Nat
    /\ required_lsa \in Nat
    /\ current_lsa \in Nat
    /\ tran_start_lsa \in [Tran -> Nat]
    /\ repl_start_lsa \in [Tran -> Nat]
    /\ tran_end_lsa \in [Tran -> Nat]
    /\ logq \in [Applier -> Seq(Tran)]
    /\ committed_lsa \in [Applier -> Nat]
    /\ status \in [Applier -> Status]

Replicated == {t \in Tran : log[t].commit /\ log[t].repl # NULL_LSA}

(* A restart loses nothing: wherever the agent stops, the row of the       *)
(* analyzer lets it read again, from its first record, every transaction   *)
(* that the standby has not committed (cirp_anlz_update_progress_from_     *)
(* appliers).                                                              *)
NothingLost ==
    \A t \in Replicated :
        times[t] = 0 => anlz_row =< log[t].start

(* The assert in cirp_anlz_update_progress_from_appliers: no transaction   *)
(* in the table starts before the LSA that was required so far.            *)
RequiredAssert ==
    \A t \in Tran : InTable(t) => required_lsa =< tran_start_lsa[t]

(* cirp_anlz_assign_repl_item goes on after a transaction that blocks only *)
(* when the standby has committed it, or when its applier has already      *)
(* committed another one past its first replication item.                  *)
BlockedOrOvertaken ==
    pc = "page" =>
        \A t \in Replicated :
            log[t].blocked /\ log[t].end < final_lsa
                => \/ times[t] # 0
                   \/ \E s \in Replicated :
                         /\ log[s].applier = log[t].applier
                         /\ log[t].repl < log[s].end
                         /\ log[s].end < log[t].end

(* Whatever fails and restarts, the transactions of an applier are         *)
(* committed in the order of the log, one that blocks after all earlier    *)
(* ones but schema changes, and what is committed a second time, by a      *)
(* request that cci_send_repl_data sends again, is committed again before  *)
(* anything that must follow it: no replay of a prefix of the log.         *)
Replay == INSTANCE ReplayOrder
ImplementsReplay == Replay!Spec

(* What was received is replayed in the end, and no transaction stays      *)
(* committed in part (cirp_flush_repl_items), whatever fails on the way.   *)
Replayed ==
    <>[](/\ \A t \in Replicated : log[t].end < eof => times[t] # 0
         /\ torn = {})

(* The comment in cirp_change_state, "wait until transactions are all      *)
(* committed": when DONE is reported to a server that was TO_BE_MASTER     *)
(* when it was asked, all that was read is replayed, but for schema        *)
(* changes, whose applier the wait does not look at.                       *)
DoneWhenAsked ==
    pc = "notify" /\ NewApplyState(last.node) = "DONE"
    /\ server_mode = "TO_BE_MASTER" =>
        \A t \in Replicated :
            log[t].end < final_lsa /\ log[t].applier # DDL_APPLIER_INDEX
                => times[t] # 0

=============================================================================
