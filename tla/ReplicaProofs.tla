---------------------------- MODULE ReplicaProofs ----------------------------
(***************************************************************************)
(* Proofs about Replica, for any log, any number of appliers, any sizes of *)
(* pages and queues and any number of faults: a restart loses nothing, and *)
(* the agent implements ReplayOrder.                                       *)
(*                                                                         *)
(* The invariant joins three views of what is done.  CommitInv: the row of *)
(* an applier in the catalog says which of its transactions are committed. *)
(* QueueInv: a queue is a part of the log without gaps.  TableInv and      *)
(* ReadInv: what the analyzer has passed and is not committed is on its    *)
(* queue, and what it has not passed is in its table.  A request may be    *)
(* sent again; IdleInv and OrderInv keep what it commits a second time     *)
(* from coming after a transaction that blocks.  The appliers come first,  *)
(* then the analyzer and the theorems.                                     *)
(***************************************************************************)
EXTENDS Replica, TLAPS

-----------------------------------------------------------------------------
(* t is on the queue of its applier.                                       *)
Queued(t) ==
    \E i \in 1 .. Len(logq[log[t].applier]) : logq[log[t].applier][i] = t

CommitInv ==
    /\ \A t \in Replicated :
          times[t] # 0 <=> log[t].end =< appl_row[log[t].applier]
    /\ \A a \in Applier : appl_row[a] # NULL_LSA =>
          \E t \in Replicated : /\ log[t].applier = a
                                /\ log[t].end = appl_row[a]

(* The applier knows that it has committed t.                              *)
Settled(t) == log[t].end =< committed_lsa[log[t].applier]

(* The queue of an applier holds transactions of its own, in the order of  *)
(* their ends; the earlier ones that are not on it are committed; and one  *)
(* that blocks was pushed when all earlier ones were settled.              *)
QueueInv ==
    \A a \in Applier : \A i \in 1 .. Len(logq[a]) :
        LET t == logq[a][i] IN
        /\ t \in Replicated /\ log[t].applier = a
        /\ \A j \in 1 .. Len(logq[a]) :
              i < j => log[t].end < log[logq[a][j]].end
        /\ \A s \in Replicated :
              log[s].applier = a /\ log[s].end < log[t].end
                  => times[s] # 0 \/ Queued(s)
        /\ log[t].blocked =>
              \A s \in Replicated :
                  /\ log[s].end < log[t].end
                  /\ log[s].applier # DDL_APPLIER_INDEX
                  => Settled(s)

(* What an applier knows of its row.  A reply that was lost leaves it      *)
(* behind, until the request is answered or it starts again.               *)
ApplierInv ==
    \A a \in Applier :
        /\ committed_lsa[a] =< appl_row[a]
        /\ status[a] \in {"BUSY", "APPLY", "PART", "SET"} =>
              committed_lsa[a] = appl_row[a]
        /\ status[a] \in {"APPLY", "PART", "AGAIN", "SENT", "SET"} => Busy(a)
        /\ status[a] \in {"APPLY", "PART", "AGAIN"} =>
              log[Item(a)].end > committed_lsa[a]
        /\ status[a] = "AGAIN" =>
              appl_row[a] \in {committed_lsa[a], log[Item(a)].end}
        /\ status[a] \in {"SENT", "SET"} =>
              log[Item(a)].end = appl_row[a]

(* An applier without work knows its row.                                  *)
IdleInv ==
    pc # "start" =>
        \A a \in Applier : ~Busy(a) => committed_lsa[a] = appl_row[a]

(* t is not committed, or its request may be served a second time.         *)
Pending(t) ==
    \/ times[t] = 0
    \/ status[log[t].applier] = "AGAIN" /\ Item(log[t].applier) = t

(* Nothing that blocks is committed before what it waits for.              *)
OrderInv ==
    \A s \in Replicated : \A t \in Replicated :
        /\ log[s].blocked /\ times[s] # 0
        /\ log[t].end < log[s].end
        /\ log[t].applier # DDL_APPLIER_INDEX
        => ~Pending(t)

(* The row of a transaction in the table.                                  *)
TableInv ==
    \A t \in Tran :
        /\ tran_start_lsa[t] # NULL_LSA =>
              /\ pc # "start"
              /\ tran_start_lsa[t] = log[t].start
              /\ log[t].start < final_lsa
              /\ required_lsa =< log[t].start
        /\ repl_start_lsa[t] # NULL_LSA => repl_start_lsa[t] = log[t].repl
        /\ tran_end_lsa[t] # NULL_LSA =>
              /\ tran_end_lsa[t] = log[t].end
              /\ t \in Replicated
              /\ repl_start_lsa[t] = log[t].repl

Passed(t) == log[t].end < final_lsa \/ (pc = "wait" /\ log[t].end = final_lsa)

ReadInv ==
    pc # "start" =>
        /\ anlz_row = required_lsa
        /\ required_lsa =< final_lsa
        /\ current_lsa =< final_lsa
        /\ \A a \in Applier : \A i \in 1 .. Len(logq[a]) : Passed(logq[a][i])
        /\ \A t \in Replicated : times[t] = 0 =>
              /\ log[t].start < final_lsa => tran_start_lsa[t] = log[t].start
              /\ log[t].repl < final_lsa /\ tran_start_lsa[t] # NULL_LSA
                    => repl_start_lsa[t] = log[t].repl
              /\ Passed(t) => Queued(t)

OvertakenInv ==
    pc # "start" =>
        \A t \in Replicated :
            log[t].blocked /\ log[t].end < final_lsa
                => \/ times[t] # 0
                   \/ \E s \in Replicated :
                         /\ log[s].applier = log[t].applier
                         /\ log[t].repl < log[s].end
                         /\ log[s].end < log[t].end

IInv ==
    /\ TypeOK
    /\ NothingLost
    /\ CommitInv
    /\ QueueInv
    /\ ApplierInv
    /\ TableInv
    /\ ReadInv
    /\ OvertakenInv
    /\ IdleInv
    /\ OrderInv
    /\ DoneWhenAsked

-----------------------------------------------------------------------------
LEMMA LogFacts ==
    ASSUME TypeOK, NEW t \in Tran
    PROVE  /\ log[t].start \in 1 .. LastLsa
           /\ log[t].repl \in 0 .. LastLsa
           /\ log[t].end \in 1 .. LastLsa
           /\ log[t].applier \in Applier
           /\ log[t].commit \in BOOLEAN
           /\ log[t].blocked \in BOOLEAN
           /\ log[t].start < log[t].end
           /\ log[t].repl # NULL_LSA =>
                 log[t].start =< log[t].repl /\ log[t].repl < log[t].end
           /\ \A s \in Tran : s # t =>
                 /\ log[s].end # log[t].end
                 /\ log[s].end # log[t].start
                 /\ log[s].end # log[t].repl
<1>1. log \in [Tran -> TranLog] /\ WellFormed(log)
  BY ReplicaAssumption DEF TypeOK
<1>2. log[t] \in TranLog /\ \A s \in Tran : log[s] \in TranLog
  BY <1>1
<1>3. ASSUME NEW s \in Tran, s # t
      PROVE  /\ log[s].end # log[t].end
             /\ log[s].end # log[t].start
             /\ log[s].end # log[t].repl
  <2>1. Records(log[s]) \cap Records(log[t]) \subseteq {NULL_LSA}
    BY <1>1, <1>3 DEF WellFormed
  <2>2. log[s].end # NULL_LSA /\ log[s].end \in Records(log[s])
    BY <1>2, ReplicaAssumption DEF TranLog, NULL_LSA, Records
  <2>3. log[s].end \notin Records(log[t])
    BY <2>1, <2>2
  <2> QED
    BY <2>3 DEF Records
<1>4. /\ log[t].start < log[t].end
      /\ log[t].repl # NULL_LSA =>
            log[t].start =< log[t].repl /\ log[t].repl < log[t].end
  BY <1>1 DEF WellFormed
<1> QED
  BY <1>2, <1>3, <1>4 DEF TranLog

LEMMA LogNumbers ==
    ASSUME TypeOK, NEW t \in Tran
    PROVE  /\ log[t].start \in Nat /\ log[t].repl \in Nat /\ log[t].end \in Nat
           /\ log[t].start # NULL_LSA /\ log[t].end # NULL_LSA
           /\ log[t].start < log[t].end
           /\ log[t].repl # NULL_LSA =>
                 log[t].start =< log[t].repl /\ log[t].repl < log[t].end
BY LogFacts, ReplicaAssumption DEF NULL_LSA

(* The head of a queue and what is left when it is dismissed.              *)
LEMMA QueueTail ==
    ASSUME NEW q \in Seq(Tran), q # <<>>
    PROVE  /\ Head(q) = q[1] /\ Head(q) \in Tran
           /\ 1 \in 1 .. Len(q)
           /\ Tail(q) \in Seq(Tran)
           /\ Len(Tail(q)) = Len(q) - 1
           /\ \A i \in 1 .. Len(q) - 1 :
                 i + 1 \in 1 .. Len(q) /\ Tail(q)[i] = q[i + 1]
OBVIOUS

LEMMA ItemFacts ==
    ASSUME TypeOK, NEW a \in Applier, Busy(a)
    PROVE  /\ Item(a) \in Tran
           /\ Item(a) = logq[a][1]
           /\ 1 \in 1 .. Len(logq[a])
           /\ log[Item(a)].end \in Nat
<1>1. logq[a] \in Seq(Tran) /\ logq[a] # <<>>
  BY DEF TypeOK, Busy
<1>2. Item(a) \in Tran /\ Item(a) = logq[a][1] /\ 1 \in 1 .. Len(logq[a])
  BY <1>1, QueueTail DEF Item
<1> QED
  BY <1>2, LogFacts, ReplicaAssumption

LEMMA ItemReplicated ==
    ASSUME TypeOK, QueueInv, NEW a \in Applier, Busy(a)
    PROVE  Item(a) \in Replicated /\ log[Item(a)].applier = a
<1>1. Item(a) = logq[a][1] /\ 1 \in 1 .. Len(logq[a])
  BY ItemFacts
<1>2. logq[a][1] \in Replicated /\ log[logq[a][1]].applier = a
  BY <1>1 DEF QueueInv
<1> QED
  BY <1>1, <1>2

(* A transaction that is not past its applier's row is committed.          *)
LEMMA PassedIsCommitted ==
    ASSUME CommitInv, NEW t \in Replicated,
           log[t].end =< appl_row[log[t].applier]
    PROVE  times[t] # 0
BY DEF CommitInv

LEMMA DismissType ==
    ASSUME TypeOK, NEW a \in Applier, Busy(a), Dismiss(a)
    PROVE  logq' \in [Applier -> Seq(Tran)]
<1>1. logq[a] \in Seq(Tran) /\ logq[a] # <<>>
  BY DEF TypeOK, Busy
<1>2. Tail(logq[a]) \in Seq(Tran)
  BY <1>1, QueueTail
<1> QED
  BY <1>2 DEF TypeOK, Dismiss

LEMMA CommitsFacts ==
    ASSUME TypeOK, NEW a \in Applier, Busy(a), Commits(a)
    PROVE  /\ appl_row' \in [Applier -> Nat]
           /\ appl_row'[a] = log[Item(a)].end
           /\ \A b \in Applier : b # a => appl_row'[b] = appl_row[b]
           /\ times' \in [Tran -> Nat]
           /\ times'[Item(a)] = times[Item(a)] + 1
           /\ \A t \in Tran : t # Item(a) => times'[t] = times[t]
           /\ UNCHANGED anlz_row
<1> DEFINE t == Item(a)
<1>1. t \in Tran /\ log[t].end \in Nat
  BY ItemFacts
<1>2. /\ times' = [times EXCEPT ![t] = times[t] + 1]
      /\ appl_row' = [appl_row EXCEPT ![a] = log[t].end]
      /\ UNCHANGED anlz_row
  BY DEF Commits, TypeOK
<1> HIDE DEF t
<1>3. times[t] + 1 \in Nat
  BY <1>1 DEF TypeOK
<1>4. /\ times' \in [Tran -> Nat]
      /\ times'[t] = times[t] + 1
      /\ \A s \in Tran : s # t => times'[s] = times[s]
  BY <1>1, <1>2, <1>3 DEF TypeOK
<1>5. /\ appl_row' \in [Applier -> Nat]
      /\ appl_row'[a] = log[t].end
      /\ \A b \in Applier : b # a => appl_row'[b] = appl_row[b]
  BY <1>1, <1>2 DEF TypeOK
<1> QED
  BY <1>2, <1>4, <1>5 DEF t

LEMMA QueueAppend ==
    ASSUME NEW q \in Seq(Tran), NEW t \in Tran
    PROVE  /\ Append(q, t) \in Seq(Tran)
           /\ Len(Append(q, t)) = Len(q) + 1
           /\ \A i \in 1 .. Len(q) : Append(q, t)[i] = q[i]
           /\ Append(q, t)[Len(q) + 1] = t
OBVIOUS

-----------------------------------------------------------------------------
(* TypeOK.                                                                  *)
LEMMA InitType == Init => TypeOK
BY ReplicaAssumption DEF Init, TypeOK, NULL_LSA, NoTable, Status

LEMMA LogCommitType ==
    ASSUME TypeOK, cirp_anlz_log_commit
    PROVE  /\ required_lsa' \in Nat
           /\ anlz_row' \in Nat \ {0}
           /\ UNCHANGED <<current_lsa, appl_row>>
           /\ tran_start_lsa' \in [Tran -> Nat]
           /\ repl_start_lsa' \in [Tran -> Nat]
           /\ tran_end_lsa' \in [Tran -> Nat]
BY ReplicaAssumption DEF TypeOK, cirp_anlz_log_commit, LSA, Keep, NULL_LSA

LEMMA ClearType ==
    ASSUME ClearAnalyzer
    PROVE  /\ required_lsa' \in Nat
           /\ current_lsa' \in Nat
           /\ final_lsa' \in Nat
           /\ tran_start_lsa' \in [Tran -> Nat]
           /\ repl_start_lsa' \in [Tran -> Nat]
           /\ tran_end_lsa' \in [Tran -> Nat]
BY DEF ClearAnalyzer, NoTable, NULL_LSA

LEMMA NextType ==
    ASSUME TypeOK, ApplierInv, [Next]_vars
    PROVE  TypeOK'
<1> USE DEF master, server, catalog, ct, table, state, analyzer, appliers,
            database, Status
<1>1. CASE Receive \/ MasterDies \/ ChangeServerState
  BY Zenon, <1>1 DEF Receive, MasterDies, ChangeServerState, TypeOK
<1>2. CASE Start
  BY <1>2 DEF Start, TypeOK
<1>3. CASE cirp_change_state \/ GetServerMode \/ ForceCommit \/ Notify
  BY <1>3, LogCommitType, Zenon
     DEF cirp_change_state, GetServerMode, ForceCommit, Notify, TypeOK
<1>4. CASE ReadHeader
  BY <1>4, LogCommitType, Zenon DEF ReadHeader, TypeOK, NoCommit
<1>5. CASE AnalyzeRecord
  BY <1>5 DEF AnalyzeRecord, TypeOK, NULL_LSA
<1>6. CASE Assign
  BY <1>6 DEF Assign, TypeOK
<1>7. CASE Push
  <2>1. logq' \in [Applier -> Seq(Tran)]
    BY <1>7, LogFacts, QueueAppend DEF Push, TypeOK
  <2>2. UNCHANGED <<log, anlz_row, appl_row, times, required_lsa,
                    current_lsa, tran_start_lsa, repl_start_lsa, tran_end_lsa,
                    committed_lsa, status>>
    BY Zenon, <1>7 DEF Push
  <2>3. final_lsa' \in Nat
    BY <1>7 DEF Push, TypeOK
  <2> QED
    BY <2>1, <2>2, <2>3 DEF TypeOK
<1>8. CASE WaitTranCommit
  BY <1>8 DEF WaitTranCommit, TypeOK
<1>9. CASE EndPage
  BY <1>9, LogCommitType DEF EndPage, TypeOK, NoCommit
<1>10. CASE AnalyzerStops
  BY <1>10, ClearType DEF AnalyzerStops, TypeOK
<1>11. CASE AnalyzerFails
  BY <1>11, ClearType, ReplicaAssumption DEF AnalyzerFails, TypeOK, LSA
<1>12. CASE Crash
  BY <1>12, ClearType DEF Crash, TypeOK, NULL_LSA
<1>13. CASE \E a \in Applier : ApplierStep(a) \/ SendAgain(a) \/ ApplierFails(a)
  <2> PICK a \in Applier : ApplierStep(a) \/ SendAgain(a) \/ ApplierFails(a)
    BY <1>13
  <2>1. CASE Pop(a)
    <3>1. CASE log[Item(a)].end =< committed_lsa[a]
      BY Zenon, <2>1, <3>1, DismissType DEF Pop, TypeOK
    <3>2. CASE ~(log[Item(a)].end =< committed_lsa[a])
      BY <2>1, <3>2, Zenon DEF Pop, TypeOK
    <3> QED
      BY <3>1, <3>2
  <2>2. CASE FlushPart(a)
    BY <2>2 DEF FlushPart, TypeOK
  <2>3. CASE CommitTransaction(a)
    <3>1. Busy(a)
      BY Zenon, <2>3 DEF CommitTransaction, Applies, ApplierInv
    <3> QED
      BY Zenon, <2>3, <3>1, CommitsFacts DEF CommitTransaction, TypeOK
  <2>4. CASE SetApplierData(a)
    BY <2>4, ItemFacts, Zenon DEF SetApplierData, ApplierInv, TypeOK
  <2>5. CASE ClearCommittedItem(a)
    BY Zenon, <2>5, DismissType DEF ClearCommittedItem, ApplierInv, TypeOK
  <2>6. CASE ApplierStops(a)
    BY Zenon, <2>6 DEF ApplierStops, TypeOK
  <2>7. CASE ApplierFails(a)
    <3>1. /\ appl_row' \in [Applier -> Nat]
          /\ times' \in [Tran -> Nat]
          /\ UNCHANGED anlz_row
      <4>1. CASE Applies(a) /\ Commits(a)
        <5>1. Busy(a)
          BY Zenon, <4>1 DEF Applies, ApplierInv
        <5> QED
          BY Zenon, <4>1, <5>1, CommitsFacts
      <4>2. CASE UNCHANGED <<catalog, times>>
        BY <4>2 DEF TypeOK
      <4> QED
        BY Zenon, <2>7, <4>1, <4>2 DEF ApplierFails
    <3> QED
      BY <2>7, <3>1, Zenon DEF ApplierFails, TypeOK
  <2>8. CASE SendAgain(a)
    <3>1. Busy(a)
      BY Zenon, <2>8 DEF SendAgain, ApplierInv
    <3> QED
      BY Zenon, <2>8, <3>1, CommitsFacts DEF SendAgain, TypeOK
  <2>9. CASE ClearReplDelay(a)
    BY Zenon, <2>9 DEF ClearReplDelay, TypeOK
  <2> QED
    BY Zenon, <2>1, <2>2, <2>3, <2>4, <2>5, <2>6, <2>7, <2>8, <2>9 DEF ApplierStep
<1>14. CASE UNCHANGED vars
  BY Zenon, <1>14 DEF vars, TypeOK
<1> QED
  BY <1>1, <1>2, <1>3, <1>4, <1>5, <1>6, <1>7, <1>8, <1>9, <1>10, <1>11,
     <1>12, <1>13, <1>14 DEF Next, AnalyzerStep

-----------------------------------------------------------------------------
(* The appliers.  The transaction that an applier is about to commit is    *)
(* the next one for it; if it blocks all that it waits for are done; and   *)
(* what must follow it is not.                                             *)
LEMMA NextInLine ==
    ASSUME IInv, NEW a \in Applier, Applies(a)
    PROVE  /\ Busy(a)
           /\ Item(a) \in Replicated
           /\ log[Item(a)].applier = a
           /\ \A s \in Replicated :
                 log[s].applier = a /\ log[s].end < log[Item(a)].end
                     => times[s] # 0
           /\ \A s \in Replicated :
                 log[s].applier = a /\ log[Item(a)].end < log[s].end
                     => times[s] = 0
           /\ log[Item(a)].blocked =>
                 \A s \in Replicated :
                    /\ log[s].end < log[Item(a)].end
                    /\ log[s].applier # DDL_APPLIER_INDEX
                    => times[s] # 0 /\ ~Pending(s)
           /\ a # DDL_APPLIER_INDEX =>
                 \A s \in Replicated :
                    log[s].blocked /\ log[Item(a)].end < log[s].end
                    => times[s] = 0
<1> DEFINE t == Item(a)
<1>1. /\ Busy(a)
      /\ log[t].end > committed_lsa[a]
      /\ status[a] = "AGAIN" \/ committed_lsa[a] = appl_row[a]
      /\ appl_row[a] \in {committed_lsa[a], log[t].end}
  BY Zenon DEF IInv, Applies, ApplierInv
<1>2. t = logq[a][1] /\ t \in Tran /\ 1 \in 1 .. Len(logq[a])
  BY <1>1, ItemFacts DEF IInv
<1>3. status[a] = "AGAIN" /\ log[t].applier = a => Pending(t)
  BY Zenon DEF Pending
<1> HIDE DEF t
<1>4. /\ t \in Replicated /\ log[t].applier = a
      /\ \A j \in 1 .. Len(logq[a]) : 1 < j => log[t].end < log[logq[a][j]].end
      /\ \A s \in Replicated : log[s].applier = a /\ log[s].end < log[t].end
            => times[s] # 0 \/ Queued(s)
      /\ log[t].blocked =>
            \A s \in Replicated :
               log[s].end < log[t].end /\ log[s].applier # DDL_APPLIER_INDEX
                  => Settled(s)
  BY <1>2 DEF IInv, QueueInv
<1>5. log[t].end \in Nat /\ appl_row[a] \in Nat /\ committed_lsa[a] \in Nat
  BY Zenon, <1>2, LogNumbers DEF IInv, TypeOK
<1>6. \A s \in Replicated : /\ s \in Tran /\ log[s].end \in Nat
                            /\ log[s].applier \in Applier
  BY Zenon, LogNumbers, LogFacts DEF Replicated, IInv
<1>7. Pending(t)
  <2>1. CASE status[a] = "AGAIN"
    BY Zenon, <1>3, <1>4, <2>1
  <2>2. CASE committed_lsa[a] = appl_row[a]
    <3>1. times[t] # 0 <=> log[t].end =< appl_row[a]
      BY Zenon, <1>4 DEF IInv, CommitInv
    <3>2. times[t] = 0
      BY <1>1, <1>5, <2>2, <3>1
    <3> QED
      BY Zenon, <3>2 DEF Pending
  <2> QED
    BY Zenon, <1>1, <2>1, <2>2
<1>8. ASSUME NEW s \in Replicated, log[s].applier = a, log[s].end < log[t].end
      PROVE  times[s] # 0
  <2>1. SUFFICES ASSUME Queued(s) PROVE FALSE
    BY Zenon, <1>4, <1>8
  <2>2. PICK i \in 1 .. Len(logq[a]) : logq[a][i] = s
    BY <1>8, <2>1 DEF Queued
  <2>3. i = 1 \/ 1 < i
    OBVIOUS
  <2>4. log[s].end \in Nat /\ log[t].end \in Nat
    BY Zenon, <1>5, <1>6
  <2> QED
    BY <1>2, <1>4, <1>8, <2>2, <2>3, <2>4
<1>9. ASSUME NEW s \in Replicated, log[s].applier = a, log[t].end < log[s].end
      PROVE  times[s] = 0
  <2>1. times[s] # 0 <=> log[s].end =< appl_row[a]
    BY Zenon, <1>9 DEF IInv, CommitInv
  <2>2. log[s].end \in Nat
    BY Zenon, <1>6
  <2> QED
    BY <1>1, <1>5, <1>9, <2>1, <2>2
<1>10. ASSUME log[t].blocked, NEW s \in Replicated, log[s].end < log[t].end,
              log[s].applier # DDL_APPLIER_INDEX
       PROVE  times[s] # 0 /\ ~Pending(s)
  <2> DEFINE b == log[s].applier
  <2>1. log[s].end =< committed_lsa[b]
    BY Zenon, <1>4, <1>10 DEF Settled
  <2>2. b \in Applier /\ log[s].end \in Nat
    BY Zenon, <1>6
  <2>3. /\ committed_lsa[b] \in Nat /\ appl_row[b] \in Nat
        /\ committed_lsa[b] =< appl_row[b]
        /\ status[b] = "AGAIN" => log[Item(b)].end > committed_lsa[b]
    BY Zenon, <2>2 DEF IInv, TypeOK, ApplierInv
  <2>4. log[s].end =< appl_row[b] /\ ~(log[s].end > committed_lsa[b])
    BY <2>1, <2>2, <2>3
  <2>5. times[s] # 0
    BY Zenon, <2>4, PassedIsCommitted DEF IInv
  <2> QED
    BY Zenon, <2>3, <2>4, <2>5 DEF Pending
<1>11. ASSUME a # DDL_APPLIER_INDEX, NEW s \in Replicated, log[s].blocked,
              log[t].end < log[s].end
       PROVE  times[s] = 0
  BY Zenon, <1>4, <1>7, <1>11 DEF IInv, OrderInv
<1> QED
  BY Zenon, <1>1, <1>4, <1>8, <1>9, <1>10, <1>11 DEF t

LEMMA CommitStep ==
    ASSUME IInv, NEW a \in Applier, Applies(a), Commits(a), UNCHANGED log
    PROVE  /\ CommitInv'
           /\ \A t \in Tran : times[t] # 0 => times'[t] # 0
           /\ Replay!Replay(Item(a))
<1> DEFINE t == Item(a)
<1>1. /\ Busy(a) /\ t \in Replicated /\ log[t].applier = a
      /\ \A s \in Replicated :
            log[s].applier = a /\ log[s].end < log[t].end => times[s] # 0
      /\ \A s \in Replicated :
            log[s].applier = a /\ log[t].end < log[s].end => times[s] = 0
      /\ log[t].blocked =>
            \A s \in Replicated :
               /\ log[s].end < log[t].end
               /\ log[s].applier # DDL_APPLIER_INDEX
               => times[s] # 0
      /\ a # DDL_APPLIER_INDEX =>
            \A s \in Replicated :
               log[s].blocked /\ log[t].end < log[s].end => times[s] = 0
  BY Zenon, NextInLine
<1>2. /\ appl_row' \in [Applier -> Nat]
      /\ appl_row'[a] = log[t].end
      /\ \A b \in Applier : b # a => appl_row'[b] = appl_row[b]
      /\ times' \in [Tran -> Nat]
      /\ times'[t] = times[t] + 1
      /\ \A s \in Tran : s # t => times'[s] = times[s]
  BY Zenon, <1>1, CommitsFacts DEF IInv
<1>3. times' = [times EXCEPT ![t] = @ + 1]
  BY Zenon DEF Commits
<1> HIDE DEF t
<1>4. Replicated' = Replicated /\ Replicated \subseteq Tran
  BY DEF Replicated
<1>5. times'[t] # 0
  <2>1. times[t] \in Nat
    BY Zenon, <1>1, <1>4 DEF IInv, TypeOK
  <2> QED
    BY <1>2, <2>1
<1>6. ASSUME NEW s \in Replicated
      PROVE  times'[s] # 0 <=> log[s].end =< appl_row'[log[s].applier]
  <2>1. /\ s \in Tran /\ t \in Tran
        /\ log[s].applier \in Applier
        /\ log[s].end \in Nat /\ log[t].end \in Nat
        /\ s # t => log[s].end # log[t].end
    BY <1>1, <1>4, LogFacts, ReplicaAssumption DEF IInv
  <2>2. CASE s = t
    BY <1>1, <1>2, <1>5, <2>1, <2>2
  <2>3. CASE log[s].applier # a
    <3>1. times[s] # 0 <=> log[s].end =< appl_row[log[s].applier]
      BY Zenon DEF IInv, CommitInv
    <3> QED
      BY Zenon, <1>1, <1>2, <2>1, <2>3, <3>1
  <2>4. CASE s # t /\ log[s].applier = a
    <3>1. times'[s] = times[s]
      BY Zenon, <1>2, <2>1, <2>4
    <3>2. CASE log[s].end < log[t].end
      BY <1>1, <1>2, <2>1, <2>4, <3>1, <3>2
    <3>3. CASE log[t].end < log[s].end
      BY <1>1, <1>2, <2>1, <2>4, <3>1, <3>3
    <3> QED
      BY <2>1, <2>4, <3>2, <3>3
  <2> QED
    BY Zenon, <2>2, <2>3, <2>4
<1>7. ASSUME NEW b \in Applier, appl_row'[b] # NULL_LSA
      PROVE  \E s \in Replicated : /\ log[s].applier = b
                                   /\ log[s].end = appl_row'[b]
  <2>1. CASE b = a
    <3>1. log[t].applier = b /\ log[t].end = appl_row'[b]
      BY Zenon, <1>1, <1>2, <2>1
    <3> QED
      BY Zenon, <1>1, <3>1
  <2>2. CASE b # a
    <3>1. appl_row'[b] = appl_row[b]
      BY Zenon, <1>2, <2>2
    <3> QED
      BY Zenon, <1>7, <3>1 DEF IInv, CommitInv
  <2> QED
    BY Zenon, <2>1, <2>2
<1>8. CommitInv'
  BY Zenon, <1>4, <1>6, <1>7 DEF CommitInv
<1>9. \A s \in Tran : times[s] # 0 => times'[s] # 0
  BY Zenon, <1>2, <1>5
<1>10. Replay!Replay(t)
  <2>1. Replay!Replicated = Replicated
    BY DEF Replay!Replicated, Replicated, NULL_LSA
  <2>2. \A s \in Replicated : Replay!Precedes(s, t) => times[s] # 0
    BY Zenon, <1>1 DEF Replay!Precedes, DDL_APPLIER_INDEX, Replay!DDL_APPLIER_INDEX
  <2>3. \A s \in Replicated : Replay!Precedes(t, s) => times[s] = 0
    BY Zenon, <1>1 DEF Replay!Precedes, DDL_APPLIER_INDEX, Replay!DDL_APPLIER_INDEX
  <2> QED
    BY Zenon, <1>1, <1>3, <2>1, <2>2, <2>3 DEF Replay!Replay
<1> QED
  BY Zenon, <1>8, <1>9, <1>10 DEF t

(* A queue is still one when more is committed, or settled.                *)
LEMMA QueueGrows ==
    ASSUME QueueInv, UNCHANGED <<log, logq>>,
           \A t \in Tran : times[t] # 0 => times'[t] # 0,
           \A t \in Tran : Settled(t) => Settled(t)'
    PROVE  QueueInv'
<1>1. Replicated' = Replicated /\ Replicated \subseteq Tran
  BY DEF Replicated
<1>2. \A t \in Tran : Queued(t)' = Queued(t)
  BY DEF Queued
<1> SUFFICES ASSUME NEW a \in Applier, NEW i \in 1 .. Len(logq[a])
             PROVE  LET t == logq[a][i] IN
                    /\ t \in Replicated /\ log[t].applier = a
                    /\ \A j \in 1 .. Len(logq[a]) :
                          i < j => log[t].end < log[logq[a][j]].end
                    /\ \A s \in Replicated :
                          log[s].applier = a /\ log[s].end < log[t].end
                              => times'[s] # 0 \/ Queued(s)
                    /\ log[t].blocked =>
                          \A s \in Replicated :
                              /\ log[s].end < log[t].end
                              /\ log[s].applier # DDL_APPLIER_INDEX
                              => Settled(s)'
  BY <1>1, <1>2 DEF QueueInv
<1> QED
  BY Zenon, <1>1 DEF QueueInv

LEMMA QueueStays ==
    ASSUME QueueInv, UNCHANGED <<log, logq, committed_lsa>>,
           \A t \in Tran : times[t] # 0 => times'[t] # 0
    PROVE  QueueInv'
<1>1. \A t \in Tran : Settled(t) => Settled(t)'
  BY Zenon DEF Settled
<1> QED
  BY Zenon, <1>1, QueueGrows

LEMMA QueueForm ==
    ASSUME UNCHANGED <<log, times, committed_lsa>>,
           \A a \in Applier : \A i \in 1 .. Len(logq'[a]) :
              LET u == logq'[a][i] IN
              /\ u \in Replicated /\ log[u].applier = a
              /\ \A j \in 1 .. Len(logq'[a]) :
                    i < j => log[u].end < log[logq'[a][j]].end
              /\ \A s \in Replicated :
                    log[s].applier = a /\ log[s].end < log[u].end
                        => times[s] # 0 \/ Queued(s)'
              /\ log[u].blocked =>
                    \A s \in Replicated :
                       /\ log[s].end < log[u].end
                       /\ log[s].applier # DDL_APPLIER_INDEX
                       => Settled(s)
    PROVE  QueueInv'
<1>1. Replicated' = Replicated
  BY Zenon DEF Replicated
<1>2. \A t : Settled(t)' = Settled(t)
  BY Zenon DEF Settled
<1> QED
  BY <1>1, <1>2 DEF QueueInv

(* The item that is dismissed is committed.                                *)
LEMMA QueueDismiss ==
    ASSUME TypeOK, QueueInv, UNCHANGED <<log, times, committed_lsa>>,
           NEW a \in Applier, Busy(a), times[Item(a)] # 0, Dismiss(a)
    PROVE  /\ QueueInv'
           /\ \A t \in Replicated : times[t] = 0 /\ Queued(t) => Queued(t)'
           /\ \A b \in Applier : \A i \in 1 .. Len(logq'[b]) :
                 \E j \in 1 .. Len(logq[b]) : logq'[b][i] = logq[b][j]
<1> DEFINE q == logq[a]
           r == logq'[a]
<1>1. q \in Seq(Tran) /\ q # <<>>
  BY DEF TypeOK, Busy
<1>2. r = Tail(q) /\ \A b \in Applier : b # a => logq'[b] = logq[b]
  BY DEF Dismiss, TypeOK
<1>3. /\ Item(a) = q[1]
      /\ Len(q) \in Nat /\ Len(r) = Len(q) - 1
      /\ \A i \in 1 .. Len(r) : i + 1 \in 1 .. Len(q) /\ r[i] = q[i + 1]
  BY <1>1, <1>2, QueueTail DEF Item
<1> HIDE DEF q, r
<1>4. Replicated' = Replicated
  BY DEF Replicated
<1>5. ASSUME NEW t \in Replicated, times[t] = 0, Queued(t)
      PROVE  Queued(t)'
  <2>1. CASE log[t].applier = a
    <3>1. PICK i \in 1 .. Len(q) : q[i] = t
      BY Zenon, <1>5, <2>1 DEF Queued, q
    <3>2. i # 1
      BY Zenon, <1>3, <1>5, <3>1
    <3>3. i - 1 \in 1 .. Len(r) /\ r[i - 1] = t
      BY <1>3, <3>1, <3>2
    <3> QED
      BY Zenon, <2>1, <3>3 DEF Queued, r
  <2>2. CASE log[t].applier # a
    <3>1. log[t].applier \in Applier
      BY Zenon, LogFacts DEF Replicated
    <3> QED
      BY Zenon, <1>2, <1>5, <2>2, <3>1 DEF Queued
  <2> QED
    BY <2>1, <2>2
<1>6. ASSUME NEW b \in Applier, NEW i \in 1 .. Len(logq'[b])
      PROVE  \E j \in 1 .. Len(logq[b]) :
                /\ logq'[b][i] = logq[b][j]
                /\ \A k \in 1 .. Len(logq'[b]) : i < k =>
                      \E l \in 1 .. Len(logq[b]) :
                         j < l /\ logq'[b][k] = logq[b][l]
  <2>1. CASE b = a
    <3>1. i \in 1 .. Len(r)
      BY <2>1 DEF r
    <3>2. i + 1 \in 1 .. Len(q) /\ r[i] = q[i + 1]
      BY Zenon, <1>3, <3>1
    <3>3. ASSUME NEW k \in 1 .. Len(r), i < k
          PROVE  k + 1 \in 1 .. Len(q) /\ i + 1 < k + 1 /\ r[k] = q[k + 1]
      BY <1>3, <3>1, <3>3
    <3> QED
      BY Zenon, <2>1, <3>2, <3>3 DEF q, r
  <2>2. CASE b # a
    BY Zenon, <1>2, <2>2
  <2> QED
    BY Zenon, <2>1, <2>2
<1>7. ASSUME NEW b \in Applier, NEW i \in 1 .. Len(logq'[b])
      PROVE  LET t == logq'[b][i] IN
             /\ t \in Replicated /\ log[t].applier = b
             /\ \A j \in 1 .. Len(logq'[b]) :
                   i < j => log[t].end < log[logq'[b][j]].end
             /\ \A s \in Replicated :
                   log[s].applier = b /\ log[s].end < log[t].end
                       => times[s] # 0 \/ Queued(s)'
             /\ log[t].blocked =>
                   \A s \in Replicated :
                      /\ log[s].end < log[t].end
                      /\ log[s].applier # DDL_APPLIER_INDEX
                      => Settled(s)
  <2>1. PICK j \in 1 .. Len(logq[b]) :
           /\ logq'[b][i] = logq[b][j]
           /\ \A k \in 1 .. Len(logq'[b]) : i < k =>
                 \E l \in 1 .. Len(logq[b]) :
                    j < l /\ logq'[b][k] = logq[b][l]
    BY <1>6, Zenon
  <2>2. /\ logq[b][j] \in Replicated /\ log[logq[b][j]].applier = b
        /\ \A l \in 1 .. Len(logq[b]) :
              j < l => log[logq[b][j]].end < log[logq[b][l]].end
        /\ \A s \in Replicated :
              log[s].applier = b /\ log[s].end < log[logq[b][j]].end
                  => times[s] # 0 \/ Queued(s)
        /\ log[logq[b][j]].blocked =>
              \A s \in Replicated :
                 /\ log[s].end < log[logq[b][j]].end
                 /\ log[s].applier # DDL_APPLIER_INDEX
                 => Settled(s)
    BY Zenon DEF QueueInv
  <2>3. ASSUME NEW k \in 1 .. Len(logq'[b]), i < k
        PROVE  log[logq[b][j]].end < log[logq'[b][k]].end
    BY <2>1, <2>2, <2>3, Zenon
  <2>4. ASSUME NEW s \in Replicated, log[s].applier = b,
               log[s].end < log[logq[b][j]].end
        PROVE  times[s] # 0 \/ Queued(s)'
    BY Zenon, <1>5, <2>2, <2>4
  <2> QED
    BY Zenon, <2>1, <2>2, <2>3, <2>4
<1>8. QueueInv'
  BY <1>4, <1>7, QueueForm, Zenon
<1> QED
  BY Zenon, <1>5, <1>6, <1>8

-----------------------------------------------------------------------------
(* What a step of an applier, or one outside the agent, does to the rest.  *)
Moves ==
    /\ UNCHANGED <<log, pc, final_lsa, ct, table, anlz_row>>
    /\ \A t \in Tran : times[t] # 0 => times'[t] # 0
    /\ \A t \in Replicated : times'[t] = 0 /\ Queued(t) => Queued(t)'
    /\ \A b \in Applier : \A i \in 1 .. Len(logq'[b]) :
          \E j \in 1 .. Len(logq[b]) : logq'[b][i] = logq[b][j]

LEMMA MovesKeep ==
    ASSUME IInv, Moves, CommitInv'
    PROVE  NothingLost' /\ TableInv' /\ ReadInv' /\ OvertakenInv'
<1> USE DEF Moves, ct, table
<1>1. Replicated' = Replicated /\ Replicated \subseteq Tran
  BY Zenon DEF Replicated
<1>2. \A t \in Tran : times'[t] = 0 => times[t] = 0
  BY Zenon
<1>3. NothingLost'
  BY <1>1, <1>2, Zenon DEF IInv, NothingLost
<1>4. TableInv'
  BY <1>1, Zenon DEF IInv, TableInv
<1>5. \A t \in Tran : Passed(t)' = Passed(t)
  BY Zenon DEF Passed
<1>6. ReadInv'
  <2>1. SUFFICES ASSUME pc # "start" PROVE ReadInv'
    BY Zenon DEF ReadInv
  <2>2. (\A a \in Applier : \A i \in 1 .. Len(logq[a]) : Passed(logq[a][i]))'
    <3> SUFFICES ASSUME NEW a \in Applier, NEW i \in 1 .. Len(logq'[a])
                 PROVE  Passed(logq[a][i])'
      BY Zenon
    <3>1. PICK j \in 1 .. Len(logq[a]) : logq'[a][i] = logq[a][j]
      BY Zenon
    <3>2. Passed(logq[a][j]) /\ logq[a][j] \in Tran
      BY Zenon, <1>1, <2>1 DEF IInv, ReadInv, QueueInv
    <3> QED
      BY <3>1, <3>2, Zenon DEF Passed
  <2>3. \A t \in Replicated : times'[t] = 0 =>
           /\ log[t].start < final_lsa => tran_start_lsa[t] = log[t].start
           /\ log[t].repl < final_lsa /\ tran_start_lsa[t] # NULL_LSA
                 => repl_start_lsa[t] = log[t].repl
           /\ Passed(t)' => Queued(t)'
    BY Zenon, <1>1, <1>2, <1>5, <2>1 DEF IInv, ReadInv
  <2>4. anlz_row = required_lsa /\ required_lsa =< final_lsa
        /\ current_lsa =< final_lsa
    BY Zenon, <2>1 DEF IInv, ReadInv
  <2> QED
    BY <1>1, <2>2, <2>3, <2>4, Zenon DEF ReadInv
<1>7. OvertakenInv'
  BY Zenon, <1>1 DEF IInv, OvertakenInv
<1> QED
  BY <1>3, <1>4, <1>6, <1>7, Zenon

LEMMA MovesQuiet ==
    ASSUME UNCHANGED <<log, pc, final_lsa, ct, table, anlz_row, times, logq>>
    PROVE  Moves
<1>1. \A t \in Replicated : Queued(t)' = Queued(t)
  BY DEF Queued
<1> QED
  BY Zenon, <1>1 DEF Moves

LEMMA CommitStays ==
    ASSUME CommitInv, UNCHANGED <<log, times, appl_row>>
    PROVE  CommitInv'
<1>1. Replicated' = Replicated
  BY DEF Replicated
<1> QED
  BY Zenon, <1>1 DEF CommitInv

(* Only status changes in a, to INIT or as the applier goes on.            *)
LEMMA ApplierStays ==
    ASSUME TypeOK, ApplierInv, NEW a \in Applier,
           UNCHANGED <<log, logq, committed_lsa, appl_row>>,
           NEW st \in Status, status' = [status EXCEPT ![a] = st],
           \/ st = "INIT"
           \/ status[a] = "APPLY" /\ st \in {"PART", "AGAIN"}
    PROVE  ApplierInv'
BY Zenon DEF TypeOK, ApplierInv, Busy, Item, Status

-----------------------------------------------------------------------------
LEMMA PopStep ==
    ASSUME IInv, NEW a \in Applier, Pop(a)
    PROVE  CommitInv' /\ QueueInv' /\ ApplierInv' /\ Moves
<1> USE DEF Pop, master, server, catalog, ct, table, state, analyzer, database
<1>1. CommitInv'
  BY Zenon, CommitStays DEF IInv
<1>2. /\ TypeOK /\ QueueInv /\ CommitInv
      /\ Busy(a) /\ status[a] = "BUSY"
      /\ committed_lsa[a] = appl_row[a]
  BY Zenon DEF IInv, ApplierInv
<1>3. CASE log[Item(a)].end =< committed_lsa[a]
  <2>1. Dismiss(a) /\ UNCHANGED status
    BY Zenon, <1>3
  <2>2. Item(a) \in Replicated /\ log[Item(a)].applier = a
    BY Zenon, <1>2, ItemReplicated
  <2>3. times[Item(a)] # 0
    BY Zenon, <1>2, <1>3, <2>2, PassedIsCommitted
  <2>4. /\ QueueInv'
        /\ \A t \in Replicated : times[t] = 0 /\ Queued(t) => Queued(t)'
        /\ \A b \in Applier : \A i \in 1 .. Len(logq'[b]) :
              \E j \in 1 .. Len(logq[b]) : logq'[b][i] = logq[b][j]
    BY <1>2, <2>1, <2>3, QueueDismiss, Zenon DEF IInv
  <2>5. \A b \in Applier : b # a => logq'[b] = logq[b]
    BY <2>1, Zenon DEF Dismiss, IInv, TypeOK
  <2>6. ApplierInv'
    BY <1>2, <2>1, <2>5, Zenon DEF IInv, ApplierInv, Busy, Item
  <2> QED
    BY Zenon, <1>1, <2>4, <2>6 DEF Moves
<1>4. CASE ~(log[Item(a)].end =< committed_lsa[a])
  <2>1. status' = [status EXCEPT ![a] = "APPLY"] /\ UNCHANGED logq
    BY Zenon, <1>4
  <2>2. QueueInv'
    BY Zenon, <2>1, QueueStays DEF IInv
  <2>3. Moves
    BY Zenon, <2>1, MovesQuiet
  <2>4. log[Item(a)].end > committed_lsa[a]
    <3>1. log[Item(a)].end \in Nat
      BY Zenon, <1>2, ItemFacts
    <3>2. committed_lsa[a] \in Nat
      BY Zenon, <1>2 DEF TypeOK
    <3> QED
      BY ONLY <1>4, <3>1, <3>2
  <2>5. ApplierInv'
    BY <1>2, <2>1, <2>4, Zenon DEF IInv, ApplierInv, Busy, Item, TypeOK
  <2> QED
    BY <1>1, <2>2, <2>3, <2>5, Zenon
<1> QED
  BY Zenon, <1>3, <1>4

LEMMA CommitTransactionStep ==
    ASSUME IInv, NEW a \in Applier, Applies(a), Commits(a),
           UNCHANGED <<log, pc, final_lsa, ct, table, logq, committed_lsa>>,
           \/ status' = [status EXCEPT ![a] = "SENT"]
           \/ status' = [status EXCEPT ![a] = "AGAIN"]
           \/ status' = [status EXCEPT ![a] = "INIT"]
    PROVE  CommitInv' /\ QueueInv' /\ ApplierInv' /\ Moves
<1>1. CommitInv' /\ \A t \in Tran : times[t] # 0 => times'[t] # 0
  BY CommitStep, Zenon
<1>2. QueueInv'
  BY <1>1, QueueStays, Zenon DEF IInv
<1>3. /\ TypeOK /\ Busy(a)
      /\ log[Item(a)].end > committed_lsa[a]
  BY Zenon DEF IInv, Applies, ApplierInv
<1>4. /\ appl_row'[a] = log[Item(a)].end
      /\ \A b \in Applier : b # a => appl_row'[b] = appl_row[b]
      /\ UNCHANGED anlz_row
  BY <1>3, CommitsFacts, Zenon
<1>5. \A t \in Replicated : Queued(t)' = Queued(t)
  BY Zenon DEF Queued
<1>6. Moves
  BY <1>1, <1>4, <1>5, Zenon DEF Moves
<1>7. committed_lsa[a] \in Nat /\ log[Item(a)].end \in Nat
  BY <1>3, ItemFacts, Zenon DEF TypeOK
<1>8. status'[a] \in {"SENT", "AGAIN", "INIT"}
      /\ \A b \in Applier : b # a => status'[b] = status[b]
  BY <1>3, Zenon DEF TypeOK
<1>9. committed_lsa[a] =< appl_row'[a]
  BY <1>3, <1>4, <1>7
<1>10. ApplierInv'
  <2> SUFFICES ASSUME NEW b \in Applier
               PROVE  /\ committed_lsa[b] =< appl_row'[b]
                      /\ status'[b] \in {"BUSY", "APPLY", "PART", "SET"} =>
                            committed_lsa[b] = appl_row'[b]
                      /\ status'[b] \in {"APPLY", "PART", "AGAIN", "SENT",
                                          "SET"} => Busy(b)
                      /\ status'[b] \in {"APPLY", "PART", "AGAIN"} =>
                            log[Item(b)].end > committed_lsa[b]
                      /\ status'[b] = "AGAIN" =>
                            appl_row'[b] \in {committed_lsa[b], log[Item(b)].end}
                      /\ status'[b] \in {"SENT", "SET"} =>
                            log[Item(b)].end = appl_row'[b]
    BY Zenon DEF ApplierInv, Busy, Item
  <2>1. CASE b = a
    BY <1>3, <1>4, <1>8, <1>9, <2>1, Zenon
  <2>2. CASE b # a
    BY <1>4, <1>8, <2>2, Zenon DEF IInv, ApplierInv
  <2> QED
    BY <2>1, <2>2, Zenon
<1> QED
  BY Zenon, <1>1, <1>2, <1>6, <1>10

LEMMA SetApplierDataStep ==
    ASSUME IInv, NEW a \in Applier, SetApplierData(a)
    PROVE  CommitInv' /\ QueueInv' /\ ApplierInv' /\ Moves
<1> USE DEF SetApplierData, master, server, catalog, ct, table, state, analyzer,
            database
<1>1. CommitInv' /\ Moves
  BY Zenon, CommitStays, MovesQuiet DEF IInv
<1>2. TypeOK /\ ApplierInv /\ QueueInv /\ status[a] = "SENT"
  BY Zenon DEF IInv
<1>3. Busy(a) /\ log[Item(a)].end = appl_row[a]
  BY Zenon, <1>2 DEF ApplierInv
<1>4. /\ UNCHANGED <<log, logq, appl_row>>
      /\ committed_lsa' = [committed_lsa EXCEPT ![a] = log[Item(a)].end]
      /\ status' = [status EXCEPT ![a] = "SET"]
  BY Zenon
<1> HIDE DEF SetApplierData
<1>5. \A b \in Applier : Busy(b)' = Busy(b) /\ Item(b)' = Item(b)
  BY Zenon, <1>4 DEF Busy, Item
<1>6. ApplierInv'
  <2>1. status'[a] = "SET" /\ committed_lsa'[a] = appl_row'[a]
        /\ committed_lsa'[a] =< appl_row'[a] /\ Busy(a)'
        /\ log'[Item(a)'].end = appl_row'[a]
    <3>1. appl_row[a] \in Nat /\ appl_row[a] =< appl_row[a]
      BY <1>2 DEF TypeOK
    <3> QED
      BY <1>2, <1>3, <1>4, <1>5, <3>1, Zenon DEF TypeOK
  <2>2. ASSUME NEW b \in Applier, b # a
        PROVE  /\ status'[b] = status[b] /\ Busy(b)' = Busy(b)
               /\ committed_lsa'[b] = committed_lsa[b]
               /\ appl_row'[b] = appl_row[b]
               /\ log'[Item(b)'].end = log[Item(b)].end
    BY Zenon, <1>2, <1>4, <1>5, <2>2 DEF TypeOK
  <2> QED
    BY <1>2, <2>1, <2>2, Zenon DEF ApplierInv
<1>7. ASSUME NEW t \in Tran, Settled(t)
      PROVE  Settled(t)'
  <2>1. log[t].applier \in Applier /\ log[t].end \in Nat
    BY Zenon, <1>2, LogFacts, LogNumbers
  <2>2. CASE log[t].applier = a
    <3>1. /\ committed_lsa[a] \in Nat /\ appl_row[a] \in Nat
          /\ committed_lsa[a] =< appl_row[a]
      BY Zenon, <1>2 DEF TypeOK, ApplierInv
    <3>2. committed_lsa'[a] = appl_row[a]
      BY Zenon, <1>2, <1>3, <1>4 DEF TypeOK
    <3>3. log[t].end =< committed_lsa[a]
      BY Zenon, <1>7, <2>2 DEF Settled
    <3>4. log[t].end =< committed_lsa'[a]
      BY <2>1, <3>1, <3>2, <3>3
    <3> QED
      BY Zenon, <1>4, <2>2, <3>4 DEF Settled
  <2>3. CASE log[t].applier # a
    <3>1. committed_lsa'[log[t].applier] = committed_lsa[log[t].applier]
      BY Zenon, <1>2, <1>4, <2>1, <2>3 DEF TypeOK
    <3> QED
      BY Zenon, <1>4, <1>7, <3>1 DEF Settled
  <2> QED
    BY Zenon, <2>2, <2>3
<1>8. QueueInv'
  <2>1. UNCHANGED times
    BY Zenon DEF SetApplierData
  <2> QED
    BY Zenon, <1>2, <1>4, <1>7, <2>1, QueueGrows
<1> QED
  BY Zenon, <1>1, <1>6, <1>8

LEMMA ClearCommittedItemStep ==
    ASSUME IInv, NEW a \in Applier, ClearCommittedItem(a)
    PROVE  CommitInv' /\ QueueInv' /\ ApplierInv' /\ Moves
<1> USE DEF ClearCommittedItem, master, server, catalog, ct, table, state,
            analyzer, database
<1>1. CommitInv'
  BY Zenon, CommitStays DEF IInv
<1>2. /\ TypeOK /\ QueueInv /\ CommitInv
      /\ Busy(a)
      /\ log[Item(a)].end = appl_row[a]
      /\ committed_lsa[a] = appl_row[a]
  BY Zenon DEF IInv, ApplierInv
<1>3. Item(a) \in Replicated /\ log[Item(a)].applier = a
      /\ log[Item(a)].end \in Nat
  BY Zenon, <1>2, ItemFacts, ItemReplicated
<1>4. times[Item(a)] # 0
  <2>1. log[Item(a)].end =< appl_row[log[Item(a)].applier]
    BY <1>2, <1>3
  <2> QED
    BY <1>2, <1>3, <2>1, PassedIsCommitted, Zenon
<1>5. /\ QueueInv'
      /\ \A t \in Replicated : times[t] = 0 /\ Queued(t) => Queued(t)'
      /\ \A b \in Applier : \A i \in 1 .. Len(logq'[b]) :
            \E j \in 1 .. Len(logq[b]) : logq'[b][i] = logq[b][j]
  BY <1>2, <1>4, QueueDismiss, Zenon DEF IInv
<1>6. \A b \in Applier : b # a => logq'[b] = logq[b]
  BY <1>2, Zenon DEF Dismiss, TypeOK
<1>7. ApplierInv'
  BY <1>2, <1>6, Zenon DEF IInv, ApplierInv, Busy, Item, TypeOK
<1> QED
  BY Zenon, <1>1, <1>5, <1>7 DEF Moves

(* An applier without work writes the row that it finds.                   *)
LEMMA RowStays ==
    ASSUME IInv, NEW a \in Applier, ClearReplDelay(a)
    PROVE  UNCHANGED appl_row
<1>1. committed_lsa[a] = appl_row[a] /\ appl_row \in [Applier -> Nat]
  BY Zenon DEF ClearReplDelay, IInv, ApplierInv, TypeOK
<1>2. appl_row' = [appl_row EXCEPT ![a] = committed_lsa[a]]
  BY Zenon DEF ClearReplDelay
<1> QED
  BY <1>1, <1>2

(* A step of an applier.                                                   *)
LEMMA ApplierKeeps ==
    ASSUME IInv, NEW a \in Applier,
           ApplierStep(a) \/ SendAgain(a) \/ ApplierFails(a)
    PROVE  CommitInv' /\ QueueInv' /\ ApplierInv' /\ Moves
<1> USE DEF master, server, catalog, ct, table, state, analyzer, database
<1>1. CASE Pop(a)
  BY Zenon, <1>1, PopStep
<1>2. CASE FlushPart(a)
  <2>1. ApplierInv'
    BY <1>2, ApplierStays, Zenon DEF FlushPart, IInv, Status
  <2> QED
    BY Zenon, <1>2, <2>1, CommitStays, QueueStays, MovesQuiet DEF FlushPart, IInv
<1>3. CASE CommitTransaction(a)
  BY <1>3, CommitTransactionStep, Zenon DEF CommitTransaction
<1>4. CASE SetApplierData(a)
  BY <1>4, SetApplierDataStep
<1>5. CASE ClearCommittedItem(a)
  BY <1>5, ClearCommittedItemStep
<1>6. CASE ApplierStops(a)
  <2>1. ApplierInv'
    BY <1>6, ApplierStays, Zenon DEF ApplierStops, IInv, Status
  <2> QED
    BY Zenon, <1>6, <2>1, CommitStays, QueueStays, MovesQuiet DEF ApplierStops, IInv
<1>7. CASE ApplierFails(a)
  <2>1. CASE Applies(a) /\ Commits(a)
    BY <1>7, <2>1, CommitTransactionStep, Zenon DEF ApplierFails
  <2>2. CASE UNCHANGED <<catalog, times>>
    <3>1. ApplierInv'
      BY <1>7, <2>2, ApplierStays, Zenon DEF ApplierFails, IInv, Status
    <3> QED
      BY Zenon, <1>7, <2>2, <3>1, CommitStays, QueueStays, MovesQuiet
         DEF ApplierFails, IInv
  <2> QED
    BY Zenon, <1>7, <2>1, <2>2 DEF ApplierFails
<1>8. CASE SendAgain(a)
  <2>1. CASE Commits(a)
    <3>1. Applies(a)
      BY Zenon, <1>8 DEF SendAgain, Applies
    <3> QED
      BY <1>8, <2>1, <3>1, CommitTransactionStep, Zenon DEF SendAgain
  <2>2. CASE UNCHANGED <<catalog, database>>
    <3>1. ApplierInv'
      BY <1>8, <2>2, ApplierStays, Zenon DEF SendAgain, IInv, Status
    <3> QED
      BY Zenon, <1>8, <2>2, <3>1, CommitStays, QueueStays, MovesQuiet
         DEF SendAgain, IInv
  <2> QED
    BY Zenon, <1>8, <2>1, <2>2 DEF SendAgain
<1>9. CASE ClearReplDelay(a)
  <2>1. UNCHANGED appl_row
    BY Zenon, <1>9, RowStays
  <2>2. ApplierInv'
    BY Zenon, <1>9, <2>1 DEF ClearReplDelay, IInv, ApplierInv, Busy, Item, appliers
  <2> QED
    BY Zenon, <1>9, <2>1, <2>2, CommitStays, QueueStays, MovesQuiet
       DEF ClearReplDelay, IInv, appliers
<1> QED
  BY Zenon, <1>1, <1>2, <1>3, <1>4, <1>5, <1>6, <1>7, <1>8, <1>9 DEF ApplierStep

-----------------------------------------------------------------------------
(* The analyzer.  What cirp_anlz_update_progress_from_appliers removes is  *)
(* committed, and what it computes is at or before the start of all that   *)
(* is not.                                                                 *)
LEMMA RequiredLsa ==
    ASSUME IInv, pc # "start", NEW lsa \in LSA, IsRequiredLsa(lsa)
    PROVE  /\ lsa \in Nat \ {0}
           /\ lsa =< final_lsa
           /\ \A t \in Remaining : lsa =< tran_start_lsa[t]
           /\ \A t \in Replicated : times[t] = 0 =>
                 /\ lsa =< log[t].start
                 /\ InTable(t) => t \in Remaining
<1>1. /\ lsa \in Nat \ {0} /\ final_lsa \in Nat /\ required_lsa \in Nat
      /\ current_lsa \in Nat
      /\ tran_start_lsa \in [Tran -> Nat]
      /\ required_lsa =< final_lsa /\ current_lsa =< final_lsa
  BY ReplicaAssumption DEF IInv, TypeOK, ReadInv, LSA
<1>2. \A t \in Remaining :
         /\ t \in Tran
         /\ tran_start_lsa[t] = log[t].start
         /\ log[t].start < final_lsa
         /\ required_lsa =< log[t].start
  BY Zenon DEF Remaining, InTable, IInv, TableInv
<1>3. ASSUME NEW t \in Replicated, times[t] = 0, InTable(t)
      PROVE  t \in Remaining
  <2>1. t \in Tran /\ log[t].applier \in Applier /\ log[t].end \in Nat
    BY LogFacts, ReplicaAssumption DEF Replicated, IInv
  <2>2. ~(log[t].end =< appl_row[log[t].applier])
    BY <1>3 DEF IInv, CommitInv
  <2>3. committed_lsa[log[t].applier] =< appl_row[log[t].applier]
    BY <2>1 DEF IInv, ApplierInv
  <2>4. /\ committed_lsa[log[t].applier] \in Nat
        /\ appl_row[log[t].applier] \in Nat
    BY <2>1 DEF IInv, TypeOK
  <2>5. ~(log[t].end =< committed_lsa[log[t].applier])
    BY <2>1, <2>2, <2>3, <2>4
  <2>6. ~Committed(t)
    BY <2>1, <2>5 DEF Committed, IInv, TableInv
  <2> QED
    BY <1>3, <2>1, <2>6 DEF Remaining
<1>4. ASSUME NEW t \in Replicated, times[t] = 0
      PROVE  /\ t \in Tran /\ log[t].start \in Nat
             /\ log[t].start >= final_lsa \/ t \in Remaining
  <2>1. t \in Tran /\ log[t].start \in Nat /\ log[t].start # NULL_LSA
    BY LogFacts, ReplicaAssumption DEF Replicated, IInv, NULL_LSA
  <2>2. CASE log[t].start < final_lsa
    <3>1. tran_start_lsa[t] = log[t].start
      BY <1>4, <2>2 DEF IInv, ReadInv
    <3> QED
      BY <1>3, <1>4, <2>1, <3>1 DEF InTable
  <2>3. CASE ~(log[t].start < final_lsa)
    BY <1>1, <2>1, <2>3
  <2> QED
    BY <2>1, <2>2, <2>3
<1>5. CASE Remaining = {} /\ lsa = current_lsa
  <2>1. \A t \in Replicated : times[t] = 0 => lsa =< log[t].start
    BY <1>1, <1>4, <1>5
  <2> QED
    BY <1>1, <1>3, <1>5, <2>1
<1>6. ASSUME NEW t \in Remaining,
             \A s \in Remaining : tran_start_lsa[t] =< tran_start_lsa[s],
             lsa = IF required_lsa =< tran_start_lsa[t]
                   THEN tran_start_lsa[t] ELSE required_lsa
      PROVE  /\ lsa =< final_lsa
             /\ \A s \in Remaining : lsa =< tran_start_lsa[s]
             /\ \A s \in Replicated : times[s] = 0 => lsa =< log[s].start
  <2>1. tran_start_lsa[t] \in Nat /\ lsa = tran_start_lsa[t]
        /\ lsa < final_lsa
    BY <1>1, <1>2, <1>6
  <2>2. \A s \in Remaining : lsa =< tran_start_lsa[s]
    BY <1>6, <2>1
  <2>3. ASSUME NEW s \in Replicated, times[s] = 0 PROVE lsa =< log[s].start
    BY <1>1, <1>2, <1>4, <2>1, <2>2, <2>3
  <2> QED
    BY <1>1, <2>1, <2>2, <2>3
<1> QED
  BY <1>1, <1>3, <1>5, <1>6 DEF IsRequiredLsa

(* Steps that leave the database and the appliers alone.                   *)
LEMMA AppliersStay ==
    ASSUME IInv, UNCHANGED <<log, times, appl_row, appliers>>
    PROVE  CommitInv' /\ QueueInv' /\ ApplierInv'
<1>1. CommitInv' /\ QueueInv'
  BY CommitStays, QueueStays DEF IInv, appliers
<1>2. ApplierInv'
  BY DEF IInv, ApplierInv, Busy, Item, appliers
<1> QED
  BY <1>1, <1>2

LEMMA LogCommitStep ==
    ASSUME IInv, pc \notin {"start", "wait"}, pc' \notin {"start", "wait"},
           cirp_anlz_log_commit, UNCHANGED <<log, times, logq, final_lsa>>
    PROVE  NothingLost' /\ TableInv' /\ ReadInv' /\ OvertakenInv'
<1>1. PICK lsa \in LSA :
         /\ IsRequiredLsa(lsa)
         /\ tran_start_lsa' = Keep(tran_start_lsa)
         /\ repl_start_lsa' = Keep(repl_start_lsa)
         /\ tran_end_lsa' = Keep(tran_end_lsa)
         /\ required_lsa' = lsa
         /\ anlz_row' = lsa
  BY DEF cirp_anlz_log_commit
<1>2. UNCHANGED <<current_lsa, appl_row>>
  BY DEF cirp_anlz_log_commit
<1>3. /\ lsa \in Nat \ {0}
      /\ lsa =< final_lsa
      /\ \A t \in Remaining : lsa =< tran_start_lsa[t]
      /\ \A t \in Replicated : times[t] = 0 =>
            /\ lsa =< log[t].start
            /\ InTable(t) => t \in Remaining
  BY <1>1, RequiredLsa
<1>4. Replicated' = Replicated /\ Replicated \subseteq Tran
  BY DEF Replicated
<1>5. \A t \in Tran :
         /\ t \in Remaining => /\ tran_start_lsa'[t] = tran_start_lsa[t]
                               /\ repl_start_lsa'[t] = repl_start_lsa[t]
                               /\ tran_end_lsa'[t] = tran_end_lsa[t]
         /\ t \notin Remaining => /\ tran_start_lsa'[t] = NULL_LSA
                                  /\ repl_start_lsa'[t] = NULL_LSA
                                  /\ tran_end_lsa'[t] = NULL_LSA
  BY <1>1 DEF Keep
<1>6. NothingLost'
  BY <1>1, <1>3, <1>4 DEF NothingLost
<1>7. TableInv'
  <2> SUFFICES ASSUME NEW t \in Tran
      PROVE  /\ tran_start_lsa'[t] # NULL_LSA =>
                   /\ tran_start_lsa'[t] = log[t].start
                   /\ log[t].start < final_lsa
                   /\ required_lsa' =< log[t].start
             /\ repl_start_lsa'[t] # NULL_LSA =>
                   repl_start_lsa'[t] = log[t].repl
             /\ tran_end_lsa'[t] # NULL_LSA =>
                   /\ tran_end_lsa'[t] = log[t].end
                   /\ t \in Replicated
                   /\ repl_start_lsa'[t] = log[t].repl
    BY <1>4 DEF TableInv
  <2>1. CASE t \in Remaining
    BY Zenon, <1>1, <1>3, <1>5, <2>1 DEF IInv, TableInv
  <2>2. CASE t \notin Remaining
    BY Zenon, <1>5, <2>2
  <2> QED
    BY Zenon, <2>1, <2>2
<1>8. \A t \in Tran : Passed(t)' = Passed(t) /\ Queued(t)' = Queued(t)
  BY DEF Passed, Queued
<1>9. ASSUME NEW t \in Replicated, times[t] = 0
      PROVE  /\ log[t].start < final_lsa => tran_start_lsa'[t] = log[t].start
             /\ log[t].repl < final_lsa /\ tran_start_lsa'[t] # NULL_LSA
                   => repl_start_lsa'[t] = log[t].repl
             /\ Passed(t)' => Queued(t)'
  <2>1. /\ log[t].start < final_lsa => tran_start_lsa[t] = log[t].start
        /\ log[t].repl < final_lsa /\ tran_start_lsa[t] # NULL_LSA
              => repl_start_lsa[t] = log[t].repl
        /\ Passed(t) => Queued(t)
    BY Zenon, <1>9 DEF IInv, ReadInv
  <2>2. log[t].start # NULL_LSA /\ t \in Tran
    BY <1>4, LogFacts, ReplicaAssumption DEF IInv, NULL_LSA
  <2>3. log[t].start < final_lsa => t \in Remaining
    BY Zenon, <1>3, <1>9, <2>1, <2>2 DEF InTable
  <2> QED
    BY <1>5, <1>8, <2>1, <2>2, <2>3
<1>10. (\A a \in Applier : \A i \in 1 .. Len(logq[a]) : Passed(logq[a][i]))'
  BY Zenon DEF IInv, ReadInv, Passed
<1>11. ReadInv'
  BY Zenon, <1>1, <1>2, <1>3, <1>4, <1>9, <1>10 DEF ReadInv, IInv
<1>12. OvertakenInv'
  BY Zenon, <1>4 DEF IInv, OvertakenInv
<1> QED
  BY <1>6, <1>7, <1>11, <1>12

(* The positions of an analyzer that has started.                          *)
LEMMA Positions ==
    ASSUME IInv, pc # "start"
    PROVE  /\ final_lsa \in Nat /\ required_lsa \in Nat /\ current_lsa \in Nat
           /\ required_lsa =< final_lsa /\ current_lsa =< final_lsa
           /\ anlz_row = required_lsa /\ final_lsa # NULL_LSA
<1>1. /\ final_lsa \in Nat /\ required_lsa \in Nat /\ current_lsa \in Nat
      /\ anlz_row \in Nat \ {0}
  BY Zenon DEF IInv, TypeOK
<1>2. /\ required_lsa =< final_lsa /\ current_lsa =< final_lsa
      /\ anlz_row = required_lsa
  BY Zenon DEF IInv, ReadInv
<1> QED
  BY <1>1, <1>2 DEF NULL_LSA

(* The analyzer goes on, and may note where it is.                         *)
LEMMA ReadStays ==
    ASSUME IInv, pc \notin {"start", "wait"}, pc' \notin {"start", "wait"},
           UNCHANGED <<log, times, logq, final_lsa, required_lsa, anlz_row,
                       tran_start_lsa, repl_start_lsa>>,
           current_lsa' \in {current_lsa, final_lsa}
    PROVE  NothingLost' /\ ReadInv' /\ OvertakenInv'
<1>1. Replicated' = Replicated /\ Replicated \subseteq Tran
  BY DEF Replicated
<1>2. \A t \in Tran : Passed(t)' = Passed(t) /\ Queued(t)' = Queued(t)
  BY DEF Passed, Queued
<1>3. (\A a \in Applier : \A i \in 1 .. Len(logq[a]) : Passed(logq[a][i]))'
  BY Zenon DEF IInv, ReadInv, Passed
<1>4. ReadInv'
  <2>1. pc # "start"
    BY Zenon
  <2>2. current_lsa' =< final_lsa
    BY <2>1, Positions
  <2> QED
    BY Zenon, <1>1, <1>2, <1>3, <2>1, <2>2 DEF IInv, ReadInv
<1>5. NothingLost' /\ OvertakenInv'
  BY Zenon, <1>1 DEF IInv, NothingLost, OvertakenInv
<1> QED
  BY <1>4, <1>5

LEMMA TableStays ==
    ASSUME IInv, pc' # "start",
           UNCHANGED <<log, final_lsa, required_lsa, table>>
    PROVE  TableInv'
<1>1. Replicated' = Replicated
  BY DEF Replicated
<1> QED
  BY <1>1 DEF IInv, TableInv, table

(* A transaction of the log that is about to end and is not committed is   *)
(* in the table with its first item.                                       *)
LEMMA EndIsAssigned ==
    ASSUME IInv, pc # "start", NEW t \in Replicated, log[t].end = final_lsa,
           \A s \in Tran : ~Assigns(s)
    PROVE  times[t] # 0
<1>1. SUFFICES ASSUME times[t] = 0 PROVE FALSE
  OBVIOUS
<1>2. /\ t \in Tran /\ log[t].start # NULL_LSA
      /\ log[t].start < log[t].end
      /\ log[t].repl # NULL_LSA /\ log[t].repl < log[t].end
  BY LogFacts, ReplicaAssumption DEF IInv, Replicated, NULL_LSA
<1>3. tran_start_lsa[t] = log[t].start
  BY Zenon, <1>1, <1>2 DEF IInv, ReadInv
<1>4. repl_start_lsa[t] = log[t].repl
  BY Zenon, <1>1, <1>2, <1>3 DEF IInv, ReadInv
<1> QED
  BY <1>2, <1>4 DEF Assigns, Replicated

LEMMA AnalyzeRecordStep ==
    ASSUME IInv, AnalyzeRecord
    PROVE  NothingLost' /\ TableInv' /\ ReadInv' /\ OvertakenInv'
<1> USE DEF master, server, catalog, database, appliers
<1>1. /\ pc = "page" /\ pc' = "page"
      /\ \A t \in Tran : ~Assigns(t)
      /\ final_lsa' = final_lsa + 1
      /\ UNCHANGED <<log, times, logq, anlz_row, required_lsa, current_lsa,
                     tran_end_lsa>>
  BY Zenon DEF AnalyzeRecord, InPage, ct
<1>2. \A t \in Tran :
         /\ tran_start_lsa'[t] =
               IF log[t].start = final_lsa THEN final_lsa
               ELSE IF log[t].end = final_lsa THEN NULL_LSA
               ELSE tran_start_lsa[t]
         /\ repl_start_lsa'[t] =
               IF log[t].repl = final_lsa /\ tran_start_lsa'[t] # NULL_LSA
               THEN final_lsa
               ELSE IF log[t].end = final_lsa THEN NULL_LSA
               ELSE repl_start_lsa[t]
  BY Zenon DEF AnalyzeRecord
<1>3. Replicated' = Replicated /\ Replicated \subseteq Tran
  BY <1>1 DEF Replicated
<1>4. /\ final_lsa \in Nat /\ required_lsa \in Nat /\ current_lsa \in Nat
      /\ required_lsa =< final_lsa /\ current_lsa =< final_lsa
      /\ anlz_row = required_lsa
  BY Zenon, <1>1 DEF IInv, TypeOK, ReadInv
<1>5. \A t \in Tran : /\ log[t].start \in Nat /\ log[t].repl \in Nat
                      /\ log[t].end \in Nat
                      /\ log[t].start # NULL_LSA /\ log[t].end # NULL_LSA
                      /\ log[t].start < log[t].end
                      /\ log[t].repl # NULL_LSA =>
                            log[t].start =< log[t].repl
                            /\ log[t].repl < log[t].end
  BY LogNumbers, Zenon DEF IInv
<1>6. NothingLost'
  BY <1>1, <1>3 DEF IInv, NothingLost
<1>7. ASSUME NEW t \in Replicated, times[t] = 0
      PROVE  log[t].end # final_lsa
  BY <1>1, <1>7, EndIsAssigned
<1>8. TableInv'
  <2> SUFFICES ASSUME NEW t \in Tran
      PROVE  /\ tran_start_lsa'[t] # NULL_LSA =>
                   /\ tran_start_lsa'[t] = log[t].start
                   /\ log[t].start < final_lsa + 1
                   /\ required_lsa =< log[t].start
             /\ repl_start_lsa'[t] # NULL_LSA =>
                   repl_start_lsa'[t] = log[t].repl
             /\ tran_end_lsa[t] # NULL_LSA =>
                   /\ tran_end_lsa[t] = log[t].end
                   /\ t \in Replicated
                   /\ repl_start_lsa'[t] = log[t].repl
    BY Zenon, <1>1, <1>3 DEF TableInv
  <2>1. /\ tran_start_lsa[t] # NULL_LSA =>
              /\ tran_start_lsa[t] = log[t].start
              /\ log[t].start < final_lsa
              /\ required_lsa =< log[t].start
        /\ repl_start_lsa[t] # NULL_LSA => repl_start_lsa[t] = log[t].repl
        /\ tran_end_lsa[t] # NULL_LSA =>
              /\ tran_end_lsa[t] = log[t].end
              /\ t \in Replicated
              /\ repl_start_lsa[t] = log[t].repl
    BY Zenon DEF IInv, TableInv
  <2>2. tran_end_lsa[t] # NULL_LSA => log[t].end # final_lsa
    BY Zenon, <1>1, <2>1 DEF Assigns, Replicated
  <2>3. /\ tran_start_lsa'[t] =
              IF log[t].start = final_lsa THEN final_lsa
              ELSE IF log[t].end = final_lsa THEN NULL_LSA
              ELSE tran_start_lsa[t]
        /\ repl_start_lsa'[t] =
              IF log[t].repl = final_lsa /\ tran_start_lsa'[t] # NULL_LSA
              THEN final_lsa
              ELSE IF log[t].end = final_lsa THEN NULL_LSA
              ELSE repl_start_lsa[t]
    BY Zenon, <1>2
  <2>4. /\ log[t].start \in Nat /\ log[t].repl \in Nat /\ log[t].end \in Nat
        /\ log[t].start # NULL_LSA /\ log[t].end # NULL_LSA
        /\ log[t].start < log[t].end
        /\ log[t].repl # NULL_LSA =>
              log[t].start =< log[t].repl /\ log[t].repl < log[t].end
    BY Zenon, <1>5
  <2>5. final_lsa \in Nat
    BY Zenon, <1>4
  <2>6. /\ tran_start_lsa'[t] # NULL_LSA =>
              /\ tran_start_lsa'[t] = log[t].start
              /\ log[t].start < final_lsa + 1
              /\ required_lsa =< log[t].start
    BY <1>4, <2>1, <2>3, <2>4
  <2>7. repl_start_lsa'[t] # NULL_LSA => repl_start_lsa'[t] = log[t].repl
    BY Zenon, <2>1, <2>3
  <2>8. tran_end_lsa[t] # NULL_LSA =>
           log[t].end # final_lsa
           /\ (log[t].repl = final_lsa /\ tran_start_lsa'[t] # NULL_LSA
                  => repl_start_lsa'[t] = log[t].repl)
    BY Zenon, <2>2, <2>3
  <2> QED
    BY Zenon, <2>1, <2>2, <2>3, <2>6, <2>7, <2>8
<1>9. ASSUME NEW t \in Tran
      PROVE  /\ Passed(t)' => Passed(t) \/ log[t].end = final_lsa
             /\ Passed(t) => Passed(t)'
             /\ Queued(t)' = Queued(t)
  <2>1. log[t].end \in Nat /\ final_lsa \in Nat
    BY Zenon, <1>4, <1>5
  <2>2. log[t].end < final_lsa + 1 <=> log[t].end < final_lsa \/ log[t].end = final_lsa
    BY <2>1
  <2> QED
    BY Zenon, <1>1, <2>2 DEF Passed, Queued
<1>10. ASSUME NEW t \in Replicated, times[t] = 0
       PROVE  /\ log[t].start < final_lsa + 1 =>
                    tran_start_lsa'[t] = log[t].start
              /\ log[t].repl < final_lsa + 1 /\ tran_start_lsa'[t] # NULL_LSA
                    => repl_start_lsa'[t] = log[t].repl
              /\ Passed(t)' => Queued(t)'
  <2>1. /\ log[t].start < final_lsa => tran_start_lsa[t] = log[t].start
        /\ log[t].repl < final_lsa /\ tran_start_lsa[t] # NULL_LSA
              => repl_start_lsa[t] = log[t].repl
        /\ Passed(t) => Queued(t)
    BY Zenon, <1>1, <1>10 DEF IInv, ReadInv
  <2>2. t \in Tran /\ log[t].end # final_lsa /\ log[t].repl # NULL_LSA
    BY Zenon, <1>3, <1>7, <1>10 DEF Replicated
  <2>3. Passed(t)' => Queued(t)'
    BY Zenon, <1>9, <2>1, <2>2
  <2>4. /\ tran_start_lsa'[t] =
              IF log[t].start = final_lsa THEN final_lsa
              ELSE IF log[t].end = final_lsa THEN NULL_LSA
              ELSE tran_start_lsa[t]
        /\ repl_start_lsa'[t] =
              IF log[t].repl = final_lsa /\ tran_start_lsa'[t] # NULL_LSA
              THEN final_lsa
              ELSE IF log[t].end = final_lsa THEN NULL_LSA
              ELSE repl_start_lsa[t]
    BY Zenon, <1>2, <2>2
  <2>5. /\ log[t].start \in Nat /\ log[t].repl \in Nat /\ log[t].end \in Nat
        /\ log[t].start # NULL_LSA /\ log[t].end # NULL_LSA
        /\ log[t].start < log[t].end
        /\ log[t].repl # NULL_LSA =>
              log[t].start =< log[t].repl /\ log[t].repl < log[t].end
    BY Zenon, <1>5, <2>2
  <2>6. final_lsa \in Nat
    BY Zenon, <1>4
  <2>7. /\ log[t].start < final_lsa + 1 <=> log[t].start < final_lsa \/ log[t].start = final_lsa
        /\ log[t].repl < final_lsa + 1 <=> log[t].repl < final_lsa \/ log[t].repl = final_lsa
        /\ log[t].repl < final_lsa => log[t].start # final_lsa
    BY <2>2, <2>5, <2>6
  <2> QED
    BY Zenon, <2>1, <2>2, <2>3, <2>4, <2>7
<1>11. (\A a \in Applier : \A i \in 1 .. Len(logq[a]) : Passed(logq[a][i]))'
  <2> SUFFICES ASSUME NEW a \in Applier, NEW i \in 1 .. Len(logq[a])
               PROVE  Passed(logq[a][i])'
    BY Zenon, <1>1
  <2>1. logq[a][i] \in Tran /\ Passed(logq[a][i])
    BY Zenon, <1>1, <1>3 DEF IInv, QueueInv, ReadInv
  <2>2. log[logq[a][i]].end < final_lsa
    BY Zenon, <1>1, <2>1 DEF Passed
  <2>3. log[logq[a][i]].end \in Nat /\ final_lsa \in Nat
    BY Zenon, <1>4, <1>5, <2>1
  <2>4. log[logq[a][i]].end < final_lsa + 1
    BY <2>2, <2>3
  <2> QED
    BY Zenon, <1>1, <2>4 DEF Passed
<1>12. ReadInv'
  <2>1. required_lsa =< final_lsa + 1 /\ current_lsa =< final_lsa + 1
    BY <1>4
  <2> QED
    BY Zenon, <1>1, <1>3, <1>4, <1>10, <1>11, <2>1 DEF ReadInv
<1>13. OvertakenInv'
  <2> SUFFICES ASSUME NEW t \in Replicated, log[t].blocked,
                      log[t].end < final_lsa + 1, times[t] = 0
               PROVE  \E s \in Replicated :
                         /\ log[s].applier = log[t].applier
                         /\ log[t].repl < log[s].end
                         /\ log[s].end < log[t].end
    BY Zenon, <1>1, <1>3 DEF OvertakenInv
  <2>1. t \in Tran /\ times[t] = 0
    BY Zenon, <1>3 DEF IInv, CommitInv
  <2>2. log[t].end \in Nat /\ final_lsa \in Nat /\ log[t].end # final_lsa
    BY Zenon, <1>4, <1>5, <1>7, <2>1
  <2>3. log[t].end < final_lsa
    BY <2>2
  <2> QED
    BY Zenon, <1>1, <2>3 DEF IInv, OvertakenInv
<1> QED
  BY Zenon, <1>6, <1>8, <1>12, <1>13

LEMMA AssignStep ==
    ASSUME IInv, Assign
    PROVE  NothingLost' /\ TableInv' /\ ReadInv' /\ OvertakenInv'
<1> USE DEF master, server, catalog, ct, database, appliers
<1>1. /\ pc = "page" /\ pc' = "push"
      /\ UNCHANGED <<log, times, logq, final_lsa, required_lsa, current_lsa,
                     anlz_row, tran_start_lsa, repl_start_lsa>>
  BY Zenon DEF Assign, InPage
<1>2. NothingLost' /\ ReadInv' /\ OvertakenInv'
  BY <1>1, ReadStays
<1>3. PICK t \in Tran :
         /\ Assigns(t)
         /\ tran_end_lsa' = [tran_end_lsa EXCEPT ![t] = final_lsa]
  BY Zenon DEF Assign
<1>4. /\ log[t].end = final_lsa
      /\ t \in Replicated
      /\ repl_start_lsa[t] = log[t].repl
  BY Zenon, <1>3 DEF Assigns, Replicated, IInv, TableInv
<1>5. Replicated' = Replicated
  BY <1>1 DEF Replicated
<1>6. /\ tran_end_lsa'[t] = final_lsa
      /\ \A s \in Tran : s # t => tran_end_lsa'[s] = tran_end_lsa[s]
  BY <1>3 DEF IInv, TypeOK
<1>7. TableInv'
  BY Zenon, <1>1, <1>4, <1>5, <1>6 DEF IInv, TableInv
<1> QED
  BY Zenon, <1>2, <1>7

-----------------------------------------------------------------------------
(* A transaction is pushed behind all earlier ones of its applier.         *)
LEMMA QueuePush ==
    ASSUME IInv, pc = "push", NEW t \in Replicated, log[t].end = final_lsa,
           log[t].blocked => ~cirp_anlz_is_any_applier_busy,
           logq' = [logq EXCEPT ![log[t].applier] = Append(@, t)],
           UNCHANGED <<log, times, committed_lsa>>
    PROVE  /\ QueueInv'
           /\ \A s \in Tran : Queued(s) => Queued(s)'
           /\ Queued(t)'
           /\ \A a \in Applier : \A i \in 1 .. Len(logq'[a]) :
                 \/ logq'[a][i] = t
                 \/ i \in 1 .. Len(logq[a]) /\ logq'[a][i] = logq[a][i]
<1> DEFINE c == log[t].applier
           q == logq[c]
           r == logq'[c]
<1>1. t \in Tran /\ c \in Applier /\ log[t].end \in Nat
  BY Zenon, LogFacts, LogNumbers DEF Replicated, IInv
<1>2. q \in Seq(Tran) /\ Len(q) \in Nat
  BY <1>1 DEF IInv, TypeOK
<1>3. r = Append(q, t) /\ \A b \in Applier : b # c => logq'[b] = logq[b]
  BY Zenon, <1>1 DEF IInv, TypeOK
<1>4. /\ Len(r) = Len(q) + 1
      /\ \A i \in 1 .. Len(q) : r[i] = q[i]
      /\ r[Len(q) + 1] = t
  <2> HIDE DEF q, r
  <2> QED
    BY Zenon, <1>1, <1>2, <1>3, QueueAppend
<1> HIDE DEF q, r
<1>5. Replicated' = Replicated /\ Replicated \subseteq Tran
  BY Zenon DEF Replicated
<1>6. ASSUME NEW s \in Tran, Queued(s)
      PROVE  Queued(s)'
  <2>1. CASE log[s].applier = c
    <3>1. PICK i \in 1 .. Len(q) : q[i] = s
      BY Zenon, <1>6, <2>1 DEF Queued, q
    <3>2. i \in 1 .. Len(r) /\ r[i] = s
      BY <1>2, <1>4, <3>1
    <3> QED
      BY Zenon, <2>1, <3>2 DEF Queued, r
  <2>2. CASE log[s].applier # c
    <3>1. log[s].applier \in Applier
      BY Zenon, LogFacts DEF IInv
    <3> QED
      BY Zenon, <1>3, <1>6, <2>2, <3>1 DEF Queued
  <2> QED
    BY Zenon, <2>1, <2>2
<1>7. Queued(t)'
  <2>1. Len(q) + 1 \in 1 .. Len(r)
    BY <1>2, <1>4
  <2> QED
    BY Zenon, <1>4, <2>1 DEF Queued, r
<1>8. ASSUME NEW a \in Applier, NEW i \in 1 .. Len(logq'[a])
      PROVE  \/ a = c /\ logq'[a][i] = t /\ i = Len(q) + 1
             \/ i \in 1 .. Len(logq[a]) /\ logq'[a][i] = logq[a][i]
  <2>1. CASE a = c
    <3>1. i \in 1 .. Len(r)
      BY Zenon, <2>1 DEF r
    <3>2. i = Len(q) + 1 \/ i \in 1 .. Len(q)
      BY <1>2, <1>4, <3>1
    <3> QED
      BY Zenon, <1>4, <2>1, <3>2 DEF q, r
  <2>2. CASE a # c
    BY Zenon, <1>3, <2>2
  <2> QED
    BY Zenon, <2>1, <2>2
<1>9. ASSUME NEW s \in Replicated, log[s].end < log[t].end
      PROVE  times[s] # 0 \/ Queued(s)
  BY Zenon, <1>5, <1>9 DEF IInv, CommitInv, ReadInv, Passed
<1>10. ASSUME NEW a \in Applier, NEW i \in 1 .. Len(logq[a])
       PROVE  log[logq[a][i]].end < log[t].end
  BY Zenon DEF IInv, ReadInv, Passed
<1>11. ASSUME log[t].blocked, NEW s \in Replicated, log[s].end < log[t].end,
              log[s].applier # DDL_APPLIER_INDEX
       PROVE  Settled(s)
  <2>1. log[s].applier \in Applier /\ log[s].applier >= GLOBAL_APPLIER_INDEX
    <3>1. s \in Tran /\ TypeOK
      BY Zenon DEF IInv, Replicated
    <3>2. log[s].applier \in Applier
      BY Zenon, <3>1, LogFacts
    <3> QED
      BY <1>11, <3>2, ReplicaAssumption
         DEF Applier, DDL_APPLIER_INDEX, GLOBAL_APPLIER_INDEX
  <2>2. logq[log[s].applier] = <<>>
    BY Zenon, <1>11, <2>1 DEF cirp_anlz_is_any_applier_busy, Busy
  <2>3. ~Queued(s)
    BY <2>2 DEF Queued
  <2>4. times[s] # 0
    BY Zenon, <1>9, <1>11, <2>3
  <2>5. log[s].end =< appl_row[log[s].applier]
    BY Zenon, <2>4 DEF IInv, CommitInv
  <2>6. committed_lsa[log[s].applier] = appl_row[log[s].applier]
    BY Zenon, <2>1, <2>2 DEF IInv, IdleInv, Busy
  <2> QED
    BY Zenon, <2>5, <2>6 DEF Settled
<1>12. ASSUME NEW a \in Applier, NEW i \in 1 .. Len(logq'[a])
       PROVE  LET u == logq'[a][i] IN
              /\ u \in Replicated /\ log[u].applier = a
              /\ \A j \in 1 .. Len(logq'[a]) :
                    i < j => log[u].end < log[logq'[a][j]].end
              /\ \A s \in Replicated :
                    log[s].applier = a /\ log[s].end < log[u].end
                        => times[s] # 0 \/ Queued(s)'
              /\ log[u].blocked =>
                    \A s \in Replicated :
                       /\ log[s].end < log[u].end
                       /\ log[s].applier # DDL_APPLIER_INDEX
                       => Settled(s)
  <2>1. CASE a = c /\ logq'[a][i] = t /\ i = Len(q) + 1
    <3>1. \A j \in 1 .. Len(logq'[a]) : ~(i < j)
      BY <1>2, <1>4, <2>1 DEF r
    <3> QED
      BY <1>5, <1>6, <1>9, <1>11, <2>1, <3>1, Zenon
  <2>2. CASE i \in 1 .. Len(logq[a]) /\ logq'[a][i] = logq[a][i]
    <3>1. LET u == logq[a][i] IN
          /\ u \in Replicated /\ log[u].applier = a
          /\ \A j \in 1 .. Len(logq[a]) :
                i < j => log[u].end < log[logq[a][j]].end
          /\ \A s \in Replicated :
                log[s].applier = a /\ log[s].end < log[u].end
                    => times[s] # 0 \/ Queued(s)
          /\ log[u].blocked =>
                \A s \in Replicated :
                   /\ log[s].end < log[u].end
                   /\ log[s].applier # DDL_APPLIER_INDEX
                   => Settled(s)
      <4>1. QueueInv
        BY Zenon DEF IInv
      <4>2. a \in Applier /\ i \in 1 .. Len(logq[a])
        BY Zenon, <2>2
      <4> QED
        BY ONLY SMTT(20), <4>1, <4>2 DEF QueueInv
    <3>2. ASSUME NEW j \in 1 .. Len(logq'[a]), i < j
          PROVE  log[logq[a][i]].end < log[logq'[a][j]].end
      BY <1>8, <1>10, <2>2, <3>1, <3>2, Zenon
    <3> QED
      BY <1>5, <1>6, <2>2, <3>1, <3>2, Zenon
  <2> QED
    BY <1>8, <2>1, <2>2, Zenon
<1>13. QueueInv'
  BY <1>12, QueueForm, Zenon
<1> QED
  BY Zenon, <1>6, <1>7, <1>8, <1>13

LEMMA PushStep ==
    ASSUME IInv, Push
    PROVE  /\ CommitInv' /\ QueueInv' /\ ApplierInv'
           /\ NothingLost' /\ TableInv' /\ ReadInv' /\ OvertakenInv'
<1> USE DEF master, server, catalog, ct, database, table
<1>1. PICK t \in Tran :
         /\ tran_end_lsa[t] = final_lsa
         /\ log[t].blocked => ~cirp_anlz_is_any_applier_busy
         /\ logq' = [logq EXCEPT ![log[t].applier] = Append(@, t)]
         /\ pc' = IF log[t].blocked THEN "wait" ELSE "page"
         /\ final_lsa' = IF log[t].blocked THEN final_lsa ELSE final_lsa + 1
  BY Zenon DEF Push
<1>2. /\ pc = "push"
      /\ UNCHANGED <<log, times, anlz_row, appl_row, required_lsa, current_lsa,
                     tran_start_lsa, repl_start_lsa, tran_end_lsa,
                     committed_lsa, status>>
  BY Zenon DEF Push
<1>3. /\ final_lsa \in Nat /\ required_lsa \in Nat /\ current_lsa \in Nat
      /\ required_lsa =< final_lsa /\ current_lsa =< final_lsa
      /\ anlz_row = required_lsa /\ final_lsa # NULL_LSA
  BY Zenon, <1>2, Positions
<1>4. t \in Replicated /\ log[t].end = final_lsa
  BY Zenon, <1>1, <1>3 DEF IInv, TableInv
<1>5. Replicated' = Replicated /\ Replicated \subseteq Tran
  BY Zenon, <1>2 DEF Replicated
<1>6. /\ QueueInv'
      /\ \A s \in Tran : Queued(s) => Queued(s)'
      /\ Queued(t)'
      /\ \A a \in Applier : \A i \in 1 .. Len(logq'[a]) :
            \/ logq'[a][i] = t
            \/ i \in 1 .. Len(logq[a]) /\ logq'[a][i] = logq[a][i]
  BY <1>1, <1>2, <1>4, QueuePush, Zenon
<1>7. CommitInv'
  BY Zenon, <1>2, CommitStays DEF IInv
<1>8. ASSUME NEW a \in Applier, Busy(a)
      PROVE  Busy(a)' /\ Item(a)' = Item(a)
  <2>1. log[t].applier \in Applier /\ logq[a] \in Seq(Tran) /\ logq[a] # <<>>
    BY <1>8, LogFacts, Zenon DEF IInv, TypeOK, Busy
  <2>2. CASE a = log[t].applier
    <3>1. logq'[a] = Append(logq[a], t)
      BY <1>1, <2>1, <2>2, Zenon DEF IInv, TypeOK
    <3> QED
      BY <2>1, <3>1 DEF Busy, Item
  <2>3. CASE a # log[t].applier
    <3>1. logq'[a] = logq[a]
      BY Zenon, <1>1, <2>1, <2>3 DEF IInv, TypeOK
    <3> QED
      BY Zenon, <1>8, <3>1 DEF Busy, Item
  <2> QED
    BY Zenon, <2>2, <2>3
<1>9. ApplierInv'
  BY Zenon, <1>2, <1>8 DEF IInv, ApplierInv
<1>10. NothingLost'
  BY Zenon, <1>2, <1>5 DEF IInv, NothingLost
<1>11. pc' # "start" /\ final_lsa' \in {final_lsa, final_lsa + 1}
       /\ (log[t].blocked => pc' = "wait" /\ final_lsa' = final_lsa)
       /\ (~log[t].blocked => pc' = "page" /\ final_lsa' = final_lsa + 1)
  BY Zenon, <1>1
<1>12. TableInv'
  <2>1. \A s \in Tran : log[s].start < final_lsa => log[s].start < final_lsa'
    BY <1>3, <1>11, LogNumbers DEF IInv
  <2> QED
    BY Zenon, <1>2, <1>5, <1>11, <2>1 DEF IInv, TableInv
<1>13. ASSUME NEW s \in Tran
       PROVE  /\ log[s].start < final_lsa' => log[s].start < final_lsa
              /\ log[s].repl < final_lsa' => log[s].repl < final_lsa
              /\ Passed(s)' <=> (Passed(s) \/ s = t)
  <2>1. /\ log[s].start # final_lsa /\ log[s].repl # final_lsa
        /\ log[s].end = final_lsa => s = t
    BY <1>3, <1>4, LogFacts, LogNumbers DEF IInv
  <2>2. log[s].start \in Nat /\ log[s].repl \in Nat /\ log[s].end \in Nat
    BY Zenon, LogNumbers DEF IInv
  <2> QED
    BY <1>2, <1>3, <1>4, <1>11, <2>1, <2>2 DEF Passed
<1>14. (\A a \in Applier : \A i \in 1 .. Len(logq[a]) : Passed(logq[a][i]))'
  <2> SUFFICES ASSUME NEW a \in Applier, NEW i \in 1 .. Len(logq'[a])
               PROVE  Passed(logq[a][i])'
    BY Zenon
  <2>1. CASE logq'[a][i] = t
    <3>1. Passed(t)'
      BY Zenon, <1>13
    <3> QED
      BY <2>1, <3>1 DEF Passed
  <2>2. CASE i \in 1 .. Len(logq[a]) /\ logq'[a][i] = logq[a][i]
    <3>1. logq[a][i] \in Tran /\ Passed(logq[a][i])
      BY <1>2, <1>5, <2>2, Zenon DEF IInv, QueueInv, ReadInv
    <3>2. log[logq[a][i]].end < final_lsa
      BY Zenon, <1>2, <3>1 DEF Passed
    <3>3. log[logq[a][i]].end \in Nat
      BY Zenon, <3>1, LogNumbers DEF IInv
    <3>4. log[logq[a][i]].end < final_lsa'
      BY <1>3, <1>11, <3>2, <3>3
    <3> QED
      BY Zenon, <1>2, <2>2, <3>4 DEF Passed
  <2> QED
    BY Zenon, <1>6, <2>1, <2>2
<1>15. ASSUME NEW s \in Replicated, times[s] = 0
       PROVE  /\ log[s].start < final_lsa' => tran_start_lsa[s] = log[s].start
              /\ log[s].repl < final_lsa' /\ tran_start_lsa[s] # NULL_LSA
                    => repl_start_lsa[s] = log[s].repl
              /\ Passed(s)' => Queued(s)'
  BY <1>2, <1>5, <1>6, <1>13, <1>15, Zenon DEF IInv, ReadInv
<1>16. required_lsa =< final_lsa' /\ current_lsa =< final_lsa'
  BY <1>3, <1>11
<1>17. ReadInv'
  BY Zenon, <1>2, <1>3, <1>5, <1>14, <1>15, <1>16 DEF ReadInv
<1>18. ASSUME NEW s \in Replicated, log[s].blocked, log[s].end < final_lsa'
       PROVE  log[s].end < final_lsa
  <2>1. s \in Tran /\ log[s].end \in Nat
    BY Zenon, <1>5, LogNumbers DEF IInv
  <2>2. log[s].end = final_lsa => s = t
    BY Zenon, <1>4, <2>1, LogFacts DEF IInv
  <2> QED
    BY <1>3, <1>11, <1>18, <2>1, <2>2
<1>19. OvertakenInv'
  BY Zenon, <1>2, <1>5, <1>18 DEF IInv, OvertakenInv
<1> QED
  BY Zenon, <1>6, <1>7, <1>9, <1>10, <1>12, <1>17, <1>19

LEMMA WaitTranCommitStep ==
    ASSUME IInv, WaitTranCommit
    PROVE  NothingLost' /\ TableInv' /\ ReadInv' /\ OvertakenInv'
<1> USE DEF master, server, catalog, ct, database, table, appliers
<1>1. PICK t \in Tran :
         /\ tran_end_lsa[t] = final_lsa
         /\ committed_lsa[log[t].applier] > repl_start_lsa[t]
  BY Zenon DEF WaitTranCommit
<1>2. /\ pc = "wait" /\ pc' = "page" /\ final_lsa' = final_lsa + 1
      /\ UNCHANGED <<log, times, anlz_row, required_lsa, current_lsa, logq,
                     tran_start_lsa, repl_start_lsa, tran_end_lsa>>
  BY Zenon DEF WaitTranCommit
<1>3. /\ final_lsa \in Nat /\ required_lsa \in Nat /\ current_lsa \in Nat
      /\ required_lsa =< final_lsa /\ current_lsa =< final_lsa
      /\ anlz_row = required_lsa /\ final_lsa # NULL_LSA
  BY Zenon, <1>2, Positions
<1>4. /\ t \in Replicated /\ log[t].end = final_lsa
      /\ repl_start_lsa[t] = log[t].repl
  BY Zenon, <1>1, <1>3 DEF IInv, TableInv
<1>5. Replicated' = Replicated /\ Replicated \subseteq Tran
  BY Zenon, <1>2 DEF Replicated
<1>6. NothingLost'
  BY Zenon, <1>2, <1>5 DEF IInv, NothingLost
<1>7. TableInv'
  <2>1. \A s \in Tran : log[s].start < final_lsa => log[s].start < final_lsa'
    BY <1>2, <1>3, LogNumbers DEF IInv
  <2> QED
    BY Zenon, <1>2, <1>5, <2>1 DEF IInv, TableInv
<1>8. ASSUME NEW s \in Tran
      PROVE  /\ log[s].start < final_lsa' => log[s].start < final_lsa
             /\ log[s].repl < final_lsa' => log[s].repl < final_lsa
             /\ Passed(s)' <=> Passed(s)
             /\ Queued(s)' <=> Queued(s)
  <2>1. /\ log[s].start # final_lsa /\ log[s].repl # final_lsa
    BY <1>3, <1>4, LogFacts, LogNumbers DEF IInv
  <2>2. log[s].start \in Nat /\ log[s].repl \in Nat /\ log[s].end \in Nat
    BY Zenon, LogNumbers DEF IInv
  <2>3. Queued(s)' <=> Queued(s)
    BY Zenon, <1>2 DEF Queued
  <2> QED
    BY <1>2, <1>3, <2>1, <2>2, <2>3 DEF Passed
<1>9. (\A a \in Applier : \A i \in 1 .. Len(logq[a]) : Passed(logq[a][i]))'
  <2> SUFFICES ASSUME NEW a \in Applier, NEW i \in 1 .. Len(logq[a])
               PROVE  Passed(logq[a][i])'
    BY Zenon, <1>2
  <2>1. logq[a][i] \in Tran /\ Passed(logq[a][i])
    BY <1>2, <1>5, Zenon DEF IInv, QueueInv, ReadInv
  <2>2. log[logq[a][i]].end \in Nat
    BY Zenon, <2>1, LogNumbers DEF IInv
  <2>3. log[logq[a][i]].end < final_lsa + 1
    BY <1>3, <2>1, <2>2 DEF Passed
  <2> QED
    BY Zenon, <1>2, <2>3 DEF Passed
<1>10. ASSUME NEW s \in Replicated, times[s] = 0
       PROVE  /\ log[s].start < final_lsa' => tran_start_lsa[s] = log[s].start
              /\ log[s].repl < final_lsa' /\ tran_start_lsa[s] # NULL_LSA
                    => repl_start_lsa[s] = log[s].repl
              /\ Passed(s)' => Queued(s)'
  BY <1>2, <1>5, <1>8, <1>10, Zenon DEF IInv, ReadInv
<1>11. ReadInv'
  <2>1. required_lsa =< final_lsa' /\ current_lsa =< final_lsa'
    BY <1>2, <1>3
  <2> QED
    BY Zenon, <1>2, <1>3, <1>5, <1>9, <1>10, <2>1 DEF ReadInv
<1>12. \/ times[t] # 0
       \/ \E s \in Replicated : /\ log[s].applier = log[t].applier
                                /\ log[t].repl < log[s].end
                                /\ log[s].end < log[t].end
  <2> DEFINE a == log[t].applier
  <2>1. a \in Applier /\ log[t].end \in Nat /\ log[t].repl \in Nat
    BY Zenon, LogFacts, LogNumbers DEF IInv
  <2>2. committed_lsa[a] \in Nat /\ appl_row[a] \in Nat
    BY Zenon, <2>1 DEF IInv, TypeOK
  <2>3. committed_lsa[a] =< appl_row[a]
    BY Zenon, <2>1 DEF IInv, ApplierInv
  <2>4. appl_row[a] > log[t].repl /\ appl_row[a] # NULL_LSA
    BY <1>1, <1>4, <2>1, <2>2, <2>3 DEF NULL_LSA
  <2>5. PICK s \in Replicated : log[s].applier = a /\ log[s].end = appl_row[a]
    BY Zenon, <2>1, <2>4 DEF IInv, CommitInv
  <2>6. times[t] # 0 \/ ~(log[t].end =< appl_row[a])
    BY Zenon, <1>4 DEF IInv, CommitInv
  <2> QED
    BY <2>1, <2>2, <2>4, <2>5, <2>6
<1>13. ASSUME NEW s \in Replicated, log[s].end < final_lsa + 1
       PROVE  s = t \/ log[s].end < final_lsa
  <2>1. s \in Tran /\ log[s].end \in Nat
    BY Zenon, <1>5, LogNumbers DEF IInv
  <2>2. log[s].end = final_lsa => s = t
    BY Zenon, <1>4, <2>1, LogFacts DEF IInv
  <2> QED
    BY <1>3, <1>13, <2>1, <2>2
<1>14. OvertakenInv'
  BY Zenon, <1>2, <1>5, <1>12, <1>13 DEF IInv, OvertakenInv
<1> QED
  BY Zenon, <1>6, <1>7, <1>11, <1>14

(* Nothing is queued.                                                      *)
LEMMA EmptyQueues ==
    ASSUME logq' = [a \in Applier |-> <<>>]
    PROVE  QueueInv'
<1>1. \A a \in Applier : Len(logq'[a]) = 0
  OBVIOUS
<1> QED
  BY <1>1 DEF QueueInv

LEMMA StartStep ==
    ASSUME IInv, Start
    PROVE  /\ CommitInv' /\ QueueInv' /\ ApplierInv'
           /\ NothingLost' /\ TableInv' /\ ReadInv' /\ OvertakenInv'
<1> USE DEF Start, master, server, catalog, database, table, state
<1>1. Replicated' = Replicated /\ Replicated \subseteq Tran
  BY Zenon DEF Replicated
<1>2. CommitInv' /\ NothingLost'
  BY Zenon, <1>1, CommitStays DEF IInv, NothingLost
<1>3. QueueInv'
  BY Zenon, EmptyQueues
<1>4. TypeOK
  BY Zenon DEF IInv
<1>5. ApplierInv'
  <2>1. \A a \in Applier : status'[a] = "BUSY"
                           /\ committed_lsa'[a] = appl_row'[a]
                           /\ committed_lsa'[a] =< appl_row'[a]
    BY <1>4 DEF TypeOK
  <2> QED
    BY <2>1, Zenon DEF ApplierInv
<1>6. \A t \in Tran : /\ tran_start_lsa[t] = NULL_LSA
                      /\ log[t].start \in Nat /\ log[t].end \in Nat
                      /\ log[t].start < log[t].end
  BY LogNumbers, Zenon DEF IInv, TableInv
<1>7. TableInv'
  BY <1>1, <1>6, Zenon DEF IInv, TableInv
<1>8. anlz_row \in Nat /\ \A t \in Replicated : times[t] = 0 =>
         ~(log[t].start < anlz_row) /\ ~(log[t].end < anlz_row)
  <2>1. anlz_row \in Nat /\ \A t \in Replicated :
           times[t] = 0 => anlz_row =< log[t].start
    BY Zenon, <1>4 DEF IInv, NothingLost, TypeOK
  <2>2. \A t \in Replicated : log[t].start \in Nat /\ log[t].end \in Nat
                              /\ log[t].start < log[t].end
    BY <1>1, <1>6, Zenon
  <2> HIDE DEF Start
  <2> QED
    BY <2>1, <2>2
<1>9. ReadInv'
  <2>1. /\ pc' = "loop" /\ final_lsa' = anlz_row /\ current_lsa' = anlz_row
        /\ required_lsa' = anlz_row
        /\ UNCHANGED <<log, times, anlz_row, tran_start_lsa, repl_start_lsa>>
    BY Zenon
  <2>2. (\A a \in Applier : \A i \in 1 .. Len(logq[a]) : Passed(logq[a][i]))'
    <3>1. \A a \in Applier : Len(logq'[a]) = 0
      BY Zenon
    <3> QED
      BY <3>1
  <2>3. \A t \in Replicated : times[t] = 0 =>
           ~Passed(t)' /\ tran_start_lsa[t] = NULL_LSA
    BY Zenon, <1>1, <1>6, <1>8, <2>1 DEF Passed
  <2> HIDE DEF Start
  <2>4. anlz_row' = required_lsa' /\ required_lsa' =< final_lsa'
        /\ current_lsa' =< final_lsa'
    BY <1>8, <2>1
  <2>5. \A t \in Replicated' : times'[t] = 0 =>
           ~(log'[t].start < final_lsa') /\ ~Passed(t)'
           /\ tran_start_lsa'[t] = NULL_LSA
    BY <1>1, <1>8, <2>1, <2>3, Zenon
  <2> QED
    BY <2>2, <2>4, <2>5, Zenon DEF ReadInv
<1>10. OvertakenInv'
  BY <1>1, <1>8, Zenon DEF OvertakenInv, IInv, CommitInv
<1> QED
  BY Zenon, <1>2, <1>3, <1>5, <1>7, <1>9, <1>10

LEMMA ClearStep ==
    ASSUME ClearAnalyzer
    PROVE  TableInv' /\ ReadInv' /\ OvertakenInv'
BY Zenon DEF ClearAnalyzer, TableInv, ReadInv, OvertakenInv, NoTable

LEMMA CrashStep ==
    ASSUME IInv, Crash
    PROVE  /\ CommitInv' /\ QueueInv' /\ ApplierInv'
           /\ NothingLost' /\ TableInv' /\ ReadInv' /\ OvertakenInv'
<1> USE DEF Crash, master, server, catalog, database
<1>1. Replicated' = Replicated
  BY Zenon DEF Replicated
<1>2. CommitInv' /\ NothingLost'
  BY <1>1, CommitStays, Zenon DEF IInv, NothingLost
<1>3. QueueInv'
  BY Zenon, EmptyQueues
<1>4. ApplierInv'
  <2>1. TypeOK
    BY Zenon DEF IInv
  <2>2. \A a \in Applier : status'[a] = "INIT"
                           /\ committed_lsa'[a] =< appl_row'[a]
    BY <2>1 DEF TypeOK, NULL_LSA
  <2> QED
    BY <2>2, Zenon DEF ApplierInv
<1> QED
  BY Zenon, <1>2, <1>3, <1>4, ClearStep

LEMMA AnalyzerFailsStep ==
    ASSUME IInv, AnalyzerFails
    PROVE  /\ CommitInv' /\ QueueInv' /\ ApplierInv'
           /\ NothingLost' /\ TableInv' /\ ReadInv' /\ OvertakenInv'
<1> USE DEF AnalyzerFails, master, server, catalog, database
<1>1. UNCHANGED <<log, times, appl_row, appliers>> /\ pc # "start"
  BY Zenon
<1>2. CommitInv' /\ QueueInv' /\ ApplierInv'
  BY Zenon, <1>1, AppliersStay
<1>3. Replicated' = Replicated
  BY Zenon, <1>1 DEF Replicated
<1>4. NothingLost'
  <2>1. CASE UNCHANGED anlz_row
    BY Zenon, <1>1, <1>3, <2>1 DEF IInv, NothingLost
  <2>2. CASE \E lsa \in LSA : IsRequiredLsa(lsa) /\ anlz_row' = lsa
    BY Zenon, <1>1, <1>3, <2>2, RequiredLsa DEF NothingLost
  <2> QED
    BY Zenon, <2>1, <2>2
<1> QED
  BY Zenon, <1>2, <1>4, ClearStep

LEMMA AnalyzerStopsStep ==
    ASSUME IInv, AnalyzerStops
    PROVE  /\ CommitInv' /\ QueueInv' /\ ApplierInv'
           /\ NothingLost' /\ TableInv' /\ ReadInv' /\ OvertakenInv'
<1> USE DEF AnalyzerStops, master, server, catalog, database
<1>1. CommitInv' /\ QueueInv' /\ ApplierInv'
  BY Zenon, AppliersStay
<1>2. Replicated' = Replicated
  BY Zenon DEF Replicated
<1>3. NothingLost'
  BY Zenon, <1>2 DEF IInv, NothingLost
<1> QED
  BY Zenon, <1>1, <1>3, ClearStep

(* The steps that may write the progress of the analyzer.                  *)
LEMMA LoopStep ==
    ASSUME IInv, \/ cirp_change_state \/ GetServerMode \/ ForceCommit \/ Notify
                 \/ ReadHeader \/ EndPage
    PROVE  /\ CommitInv' /\ QueueInv' /\ ApplierInv'
           /\ NothingLost' /\ TableInv' /\ ReadInv' /\ OvertakenInv'
<1> USE DEF master, server, database
<1>1. /\ UNCHANGED <<log, times, final_lsa, appliers>>
      /\ pc \notin {"start", "wait"} /\ pc' \notin {"start", "wait"}
      /\ \/ cirp_anlz_log_commit
         \/ NoCommit
         \/ current_lsa' = final_lsa /\ UNCHANGED <<table, required_lsa, catalog>>
  BY Zenon DEF cirp_change_state, GetServerMode, ForceCommit, Notify,
               ReadHeader, EndPage, PageEnds, NoCommit
<1>2. CASE cirp_anlz_log_commit
  <2>1. UNCHANGED appl_row
    BY Zenon, <1>2 DEF cirp_anlz_log_commit
  <2>2. CommitInv' /\ QueueInv' /\ ApplierInv'
    BY Zenon, <1>1, <2>1, AppliersStay
  <2> QED
    BY Zenon, <1>1, <1>2, <2>2, LogCommitStep DEF appliers
<1>3. CASE /\ current_lsa' \in {current_lsa, final_lsa}
           /\ UNCHANGED <<table, required_lsa, catalog>>
  <2>1. CommitInv' /\ QueueInv' /\ ApplierInv'
    BY Zenon, <1>1, <1>3, AppliersStay DEF catalog
  <2>2. NothingLost' /\ ReadInv' /\ OvertakenInv'
    BY Zenon, <1>1, <1>3, ReadStays DEF appliers, table, catalog
  <2>3. TableInv'
    BY Zenon, <1>1, <1>3, TableStays
  <2> QED
    BY Zenon, <2>1, <2>2, <2>3
<1> QED
  BY Zenon, <1>1, <1>2, <1>3 DEF NoCommit, ct

-----------------------------------------------------------------------------
(* The steps in which no queue and no applier changes.                     *)
Quiet ==
    /\ UNCHANGED <<log, times, appl_row, logq, committed_lsa, status>>
    /\ pc' # "start" => pc # "start"

LEMMA QuietSteps ==
    ASSUME \/ cirp_change_state \/ GetServerMode \/ ForceCommit \/ Notify
           \/ ReadHeader \/ AnalyzeRecord \/ Assign \/ WaitTranCommit \/ EndPage
           \/ AnalyzerStops \/ AnalyzerFails
           \/ Receive \/ MasterDies \/ ChangeServerState \/ UNCHANGED vars
    PROVE  Quiet
<1> USE DEF Quiet, master, server, catalog, database, appliers
<1>1. CASE cirp_change_state \/ GetServerMode \/ Notify
  BY Zenon, <1>1 DEF cirp_change_state, GetServerMode, Notify
<1>2. CASE ForceCommit
  BY Zenon, <1>2 DEF ForceCommit, cirp_anlz_log_commit
<1>3. CASE ReadHeader
  BY Zenon, <1>3 DEF ReadHeader, cirp_anlz_log_commit, NoCommit
<1>4. CASE AnalyzeRecord \/ Assign \/ WaitTranCommit
  BY Zenon, <1>4 DEF AnalyzeRecord, Assign, WaitTranCommit, InPage
<1>5. CASE EndPage
  BY Zenon, <1>5 DEF EndPage, PageEnds, cirp_anlz_log_commit, NoCommit
<1>6. CASE AnalyzerStops
  BY Zenon, <1>6 DEF AnalyzerStops, ClearAnalyzer
<1>7. CASE AnalyzerFails
  BY Zenon, <1>7 DEF AnalyzerFails, ClearAnalyzer
<1>8. CASE Receive \/ MasterDies \/ ChangeServerState \/ UNCHANGED vars
  BY Zenon, <1>8 DEF Receive, MasterDies, ChangeServerState, vars, analyzer
<1> QED
  BY Zenon, <1>1, <1>2, <1>3, <1>4, <1>5, <1>6, <1>7, <1>8

(* What a step of an applier does to it, and not to the others.            *)
LEMMA ApplierAlone ==
    ASSUME TypeOK, NEW a \in Applier,
           ApplierStep(a) \/ SendAgain(a) \/ ApplierFails(a)
    PROVE  /\ UNCHANGED <<log, analyzer>>
           /\ \A b \in Applier : b # a => /\ logq'[b] = logq[b]
                                         /\ status'[b] = status[b]
                                         /\ committed_lsa'[b] = committed_lsa[b]
           /\ SendAgain(a) \/ status'[a] # "AGAIN"
<1> USE DEF master, appliers
<1>1. CASE Pop(a)
  BY Zenon, <1>1 DEF Pop, Dismiss, TypeOK
<1>2. CASE ClearReplDelay(a)
  BY Zenon, <1>2 DEF ClearReplDelay
<1>3. CASE FlushPart(a)
  BY Zenon, <1>3 DEF FlushPart, TypeOK
<1>4. CASE CommitTransaction(a)
  BY Zenon, <1>4 DEF CommitTransaction, TypeOK
<1>5. CASE SetApplierData(a)
  BY Zenon, <1>5 DEF SetApplierData, TypeOK
<1>6. CASE ClearCommittedItem(a)
  BY Zenon, <1>6 DEF ClearCommittedItem, Dismiss, TypeOK
<1>7. CASE ApplierStops(a)
  BY Zenon, <1>7 DEF ApplierStops, TypeOK
<1>8. CASE ApplierFails(a)
  BY Zenon, <1>8 DEF ApplierFails, TypeOK
<1>9. CASE SendAgain(a)
  BY Zenon, <1>9 DEF SendAgain, TypeOK
<1> QED
  BY Zenon, <1>1, <1>2, <1>3, <1>4, <1>5, <1>6, <1>7, <1>8, <1>9 DEF ApplierStep

(* The database and the row change when the request is served.             *)
LEMMA ServedOrNot ==
    ASSUME IInv, NEW a \in Applier,
           ApplierStep(a) \/ SendAgain(a) \/ ApplierFails(a)
    PROVE  \/ Applies(a) /\ Commits(a) /\ UNCHANGED logq
           \/ UNCHANGED <<times, appl_row>>
<1> USE DEF catalog, database
<1>1. CASE ClearReplDelay(a)
  BY Zenon, <1>1, RowStays DEF ClearReplDelay
<1>2. CASE SendAgain(a)
  BY Zenon, <1>2 DEF SendAgain, Applies
<1>3. CASE ApplierFails(a)
  BY Zenon, <1>3 DEF ApplierFails
<1>4. CASE CommitTransaction(a)
  BY Zenon, <1>4 DEF CommitTransaction
<1>5. CASE \/ Pop(a) \/ FlushPart(a) \/ SetApplierData(a)
           \/ ClearCommittedItem(a) \/ ApplierStops(a)
  BY Zenon, <1>5 DEF Pop, FlushPart, SetApplierData, ClearCommittedItem, ApplierStops
<1> QED
  BY Zenon, <1>1, <1>2, <1>3, <1>4, <1>5 DEF ApplierStep

LEMMA IdleKeeps ==
    ASSUME IInv, [Next]_vars
    PROVE  IdleInv'
<1>1. CASE Quiet
  BY Zenon, <1>1 DEF Quiet, IInv, IdleInv, Busy
<1>2. CASE Start
  BY Zenon, <1>2 DEF Start, IdleInv, catalog
<1>3. CASE Crash
  BY Zenon, <1>3 DEF Crash, ClearAnalyzer, IdleInv
<1>4. CASE Push
  <2>1. pc # "start" /\ UNCHANGED <<committed_lsa, appl_row>>
    BY Zenon, <1>4 DEF Push, catalog
  <2>2. PICK t \in Tran : logq' = [logq EXCEPT ![log[t].applier] = Append(@, t)]
    BY Zenon, <1>4 DEF Push
  <2>3. ASSUME NEW a \in Applier, Busy(a) PROVE Busy(a)'
    <3>1. logq[a] \in Seq(Tran) /\ logq \in [Applier -> Seq(Tran)]
      BY Zenon DEF IInv, TypeOK
    <3>2. logq'[a] = logq[a] \/ logq'[a] = Append(logq[a], t)
      BY <2>2, <3>1
    <3>3. Append(logq[a], t) # <<>>
      BY <3>1
    <3> QED
      BY Zenon, <2>3, <3>2, <3>3 DEF Busy
  <2> QED
    BY Zenon, <2>1, <2>3 DEF IInv, IdleInv
<1>5. CASE \E a \in Applier : ApplierStep(a) \/ SendAgain(a) \/ ApplierFails(a)
  <2>1. PICK a \in Applier : ApplierStep(a) \/ SendAgain(a) \/ ApplierFails(a)
    BY Zenon, <1>5
  <2>2. /\ UNCHANGED <<log, analyzer>>
        /\ \A b \in Applier : b # a => /\ logq'[b] = logq[b]
                                      /\ status'[b] = status[b]
                                      /\ committed_lsa'[b] = committed_lsa[b]
    BY Zenon, <2>1, ApplierAlone DEF IInv
  <2>3. ApplierInv'
    BY Zenon, <2>1, ApplierKeeps
  <2>4. \A b \in Applier : b # a => appl_row'[b] = appl_row[b]
    BY Zenon, <2>1, ServedOrNot, NextInLine, CommitsFacts DEF IInv
  <2>5. pc' # "start" /\ ~Busy(a)' => committed_lsa'[a] = appl_row'[a]
    <3>1. CASE Pop(a) \/ ClearReplDelay(a) \/ ClearCommittedItem(a)
      <4>1. status'[a] = "BUSY" \/ Busy(a)'
        BY Zenon, <3>1 DEF Pop, ClearReplDelay, ClearCommittedItem, IInv, TypeOK,
                           Busy, appliers
      <4> QED
        BY Zenon, <2>3, <4>1 DEF ApplierInv
    <3>2. CASE UNCHANGED <<logq, committed_lsa, appl_row>>
      BY Zenon, <2>2, <3>2 DEF IInv, IdleInv, Busy, analyzer
    <3>3. CASE Applies(a) /\ UNCHANGED logq
      BY Zenon, <3>3, NextInLine DEF Busy
    <3>4. CASE SetApplierData(a)
      <4>1. status'[a] = "SET"
        BY Zenon, <3>4 DEF SetApplierData, IInv, TypeOK
      <4> QED
        BY Zenon, <2>3, <4>1 DEF ApplierInv
    <3> QED
      BY Zenon, <2>1, <3>1, <3>2, <3>3, <3>4
         DEF ApplierStep, FlushPart, CommitTransaction, ApplierStops, SendAgain,
             ApplierFails, catalog, Applies
  <2> QED
    BY Zenon, <2>2, <2>4, <2>5 DEF IInv, IdleInv, Busy, analyzer
<1> QED
  BY Zenon, <1>1, <1>2, <1>3, <1>4, <1>5, QuietSteps DEF Next, AnalyzerStep

LEMMA OrderStays ==
    ASSUME TypeOK, OrderInv, UNCHANGED <<log, times>>,
           \A a \in Applier : status'[a] = "AGAIN" =>
               status[a] = "AGAIN" /\ Item(a)' = Item(a)
    PROVE  OrderInv'
<1>1. Replicated' = Replicated
  BY Zenon DEF Replicated
<1>2. \A t \in Replicated : log[t].applier \in Applier
  BY Zenon, LogFacts DEF Replicated
<1>3. ASSUME NEW t \in Replicated, Pending(t)' PROVE Pending(t)
  BY Zenon, <1>2, <1>3 DEF Pending
<1> QED
  BY Zenon, <1>1, <1>3 DEF OrderInv

(* Whatever has become of the request of an applier.                       *)
LEMMA OrderCommit ==
    ASSUME IInv, NEW a \in Applier, Applies(a), Commits(a) \/ UNCHANGED times,
           UNCHANGED <<log, logq>>,
           \A b \in Applier : b # a => status'[b] = status[b]
    PROVE  OrderInv'
<1> DEFINE t == Item(a)
<1>1. /\ Busy(a) /\ t \in Replicated /\ log[t].applier = a
      /\ log[t].blocked =>
            \A s \in Replicated :
               /\ log[s].end < log[t].end
               /\ log[s].applier # DDL_APPLIER_INDEX
               => times[s] # 0 /\ ~Pending(s)
      /\ a # DDL_APPLIER_INDEX =>
            \A s \in Replicated :
               log[s].blocked /\ log[t].end < log[s].end => times[s] = 0
  BY Zenon, NextInLine
<1>2. \A s \in Tran : times[s] # 0 => times'[s] # 0
  BY Zenon, CommitStep
<1>3. \A s \in Tran : times'[s] # 0 => times[s] # 0 \/ s = t
  BY Zenon, <1>1, CommitsFacts DEF IInv
<1>4. Replicated' = Replicated /\ Replicated \subseteq Tran
  BY Zenon DEF Replicated
<1>5. \A b \in Applier : Item(b)' = Item(b)
  BY Zenon DEF Item
<1> SUFFICES ASSUME NEW s \in Replicated, NEW u \in Replicated,
                    log[s].blocked, times'[s] # 0, log[u].end < log[s].end,
                    log[u].applier # DDL_APPLIER_INDEX
             PROVE  ~Pending(u)'
  BY Zenon, <1>4 DEF OrderInv
<1> DEFINE b == log[u].applier
<1>6. b \in Applier /\ log[u].end \in Nat /\ ~(log[u].end < log[u].end)
  <2>1. b \in Applier /\ log[u].end \in Nat
    BY Zenon, <1>4, LogFacts, LogNumbers DEF IInv
  <2> QED
    BY <2>1
<1>7. times[u] # 0 /\ ~(status[b] = "AGAIN" /\ Item(b) = u)
  <2>1. CASE times[s] # 0
    BY Zenon, <2>1 DEF IInv, OrderInv, Pending
  <2>2. CASE s = t
    BY Zenon, <1>1, <2>2 DEF Pending
  <2> QED
    BY Zenon, <1>3, <1>4, <2>1, <2>2
<1>8. b = a => u # t
  <2>1. CASE times[s] # 0
    BY Zenon, <1>1, <2>1
  <2>2. CASE s = t
    BY Zenon, <1>6, <2>2
  <2> QED
    BY Zenon, <1>3, <1>4, <2>1, <2>2
<1>9. ~(status'[b] = "AGAIN" /\ Item(b)' = u)
  BY Zenon, <1>5, <1>6, <1>7, <1>8
<1> QED
  BY Zenon, <1>2, <1>4, <1>7, <1>9 DEF Pending

LEMMA OrderKeeps ==
    ASSUME IInv, [Next]_vars
    PROVE  OrderInv'
<1>1. CASE Quiet
  <2>1. UNCHANGED <<log, times>> /\ \A a \in Applier :
           status'[a] = "AGAIN" => status[a] = "AGAIN" /\ Item(a)' = Item(a)
    BY Zenon, <1>1 DEF Quiet, Item
  <2> QED
    BY Zenon, <2>1, OrderStays DEF IInv
<1>2. CASE Start \/ Crash
  <2>1. UNCHANGED <<log, times>> /\ \A a \in Applier : status'[a] # "AGAIN"
    BY Zenon, <1>2 DEF Start, Crash, master, database
  <2> QED
    BY Zenon, <2>1, OrderStays DEF IInv
<1>3. CASE Push
  <2>1. UNCHANGED <<log, times, status>>
    BY Zenon, <1>3 DEF Push, master, database
  <2>2. PICK t \in Tran : logq' = [logq EXCEPT ![log[t].applier] = Append(@, t)]
    BY Zenon, <1>3 DEF Push
  <2>3. ASSUME NEW a \in Applier, Busy(a) PROVE Item(a)' = Item(a)
    <3>1. /\ logq[a] \in Seq(Tran) /\ logq[a] # <<>>
          /\ logq \in [Applier -> Seq(Tran)]
      BY Zenon, <2>3 DEF IInv, TypeOK, Busy
    <3>2. logq'[a] = logq[a] \/ logq'[a] = Append(logq[a], t)
      BY <2>2, <3>1
    <3>3. Head(Append(logq[a], t)) = Head(logq[a])
      BY <3>1
    <3> QED
      BY Zenon, <3>2, <3>3 DEF Item
  <2>4. \A a \in Applier : status[a] = "AGAIN" => Busy(a)
    BY Zenon DEF IInv, ApplierInv
  <2> QED
    BY Zenon, <2>1, <2>3, <2>4, OrderStays DEF IInv
<1>4. CASE \E a \in Applier : ApplierStep(a) \/ SendAgain(a) \/ ApplierFails(a)
  <2>1. PICK a \in Applier : ApplierStep(a) \/ SendAgain(a) \/ ApplierFails(a)
    BY Zenon, <1>4
  <2>2. /\ UNCHANGED log
        /\ \A b \in Applier : b # a => /\ logq'[b] = logq[b]
                                      /\ status'[b] = status[b]
        /\ SendAgain(a) \/ status'[a] # "AGAIN"
    BY Zenon, <2>1, ApplierAlone DEF IInv
  <2>3. CASE Applies(a) /\ Commits(a) /\ UNCHANGED logq
    BY Zenon, <2>2, <2>3, OrderCommit
  <2>4. CASE UNCHANGED times /\ SendAgain(a)
    <3>1. Applies(a) /\ UNCHANGED logq
      BY Zenon, <2>4 DEF SendAgain, Applies
    <3> QED
      BY Zenon, <2>2, <2>4, <3>1, OrderCommit
  <2>5. CASE UNCHANGED times /\ status'[a] # "AGAIN"
    <3>1. \A b \in Applier : status'[b] = "AGAIN" =>
             status[b] = "AGAIN" /\ Item(b)' = Item(b)
      BY Zenon, <2>2, <2>5 DEF Item
    <3> QED
      BY Zenon, <2>2, <2>5, <3>1, OrderStays DEF IInv
  <2> QED
    BY Zenon, <2>1, <2>2, <2>3, <2>4, <2>5, ServedOrNot
<1> QED
  BY Zenon, <1>1, <1>2, <1>3, <1>4, QuietSteps DEF Next, AnalyzerStep

(* The wait of cirp_change_state: an empty queue means a replayed log.     *)
LEMMA DoneWaits ==
    ASSUME IInv, ForceCommit, server_mode = "TO_BE_MASTER",
           NEW t \in Replicated, log[t].end < final_lsa,
           log[t].applier # DDL_APPLIER_INDEX
    PROVE  times[t] # 0
<1>1. pc = "commit" /\ ~cirp_anlz_is_any_applier_busy
  BY Zenon DEF ForceCommit, MayReport
<1>2. log[t].applier \in Applier /\ log[t].applier >= GLOBAL_APPLIER_INDEX
  <2>1. log[t].applier \in Applier
    BY Zenon, LogFacts DEF IInv, Replicated
  <2> QED
    BY <2>1, ReplicaAssumption DEF Applier, DDL_APPLIER_INDEX, GLOBAL_APPLIER_INDEX
<1>3. logq[log[t].applier] = <<>>
  BY Zenon, <1>1, <1>2 DEF cirp_anlz_is_any_applier_busy, Busy
<1>4. ~Queued(t)
  BY <1>3 DEF Queued
<1> QED
  BY Zenon, <1>1, <1>4 DEF IInv, ReadInv, Passed

LEMMA DoneKeeps ==
    ASSUME IInv, [Next]_vars
    PROVE  DoneWhenAsked'
<1>1. ASSUME UNCHANGED <<log, analyzer>>,
             \A t \in Tran : times[t] # 0 => times'[t] # 0
      PROVE  DoneWhenAsked'
  <2>1. Replicated' = Replicated /\ Replicated \subseteq Tran
    BY Zenon, <1>1 DEF Replicated
  <2>2. UNCHANGED <<pc, server_mode, final_lsa>>
        /\ NewApplyState(last.node)' = NewApplyState(last.node)
    BY Zenon, <1>1 DEF analyzer, state, NewApplyState
  <2> QED
    BY Zenon, <1>1, <2>1, <2>2 DEF IInv, DoneWhenAsked
<1>2. CASE \E a \in Applier : ApplierStep(a) \/ SendAgain(a) \/ ApplierFails(a)
  <2>1. UNCHANGED <<log, analyzer>>
    BY Zenon, <1>2, ApplierAlone DEF IInv
  <2>2. \A t \in Tran : times[t] # 0 => times'[t] # 0
    BY Zenon, <1>2, ApplierKeeps DEF Moves
  <2> QED
    BY Zenon, <1>1, <2>1, <2>2
<1>3. CASE Receive \/ MasterDies \/ ChangeServerState \/ UNCHANGED vars
  <2>1. UNCHANGED <<log, analyzer, times>>
    BY Zenon, <1>3 DEF Receive, MasterDies, ChangeServerState, vars, master, database
  <2> QED
    BY Zenon, <1>1, <2>1
<1>4. CASE ForceCommit
  <2>1. UNCHANGED <<log, times, final_lsa, server_mode>>
    BY Zenon, <1>4 DEF ForceCommit, master, database, state
  <2>2. Replicated' = Replicated
    BY Zenon, <2>1 DEF Replicated
  <2> QED
    BY Zenon, <1>4, <2>1, <2>2, DoneWaits DEF DoneWhenAsked
<1>5. ASSUME pc' # "notify" PROVE DoneWhenAsked'
  BY Zenon, <1>5 DEF DoneWhenAsked
<1>6. CASE Start \/ GetServerMode \/ Notify \/ ReadHeader \/ Assign
           \/ WaitTranCommit \/ EndPage
  <2>1. pc' # "notify"
    BY Zenon, <1>6 DEF Start, GetServerMode, Notify, ReadHeader, Assign,
                       WaitTranCommit, EndPage
  <2> QED
    BY Zenon, <1>5, <2>1
<1>7. CASE cirp_change_state \/ AnalyzeRecord \/ Push
  <2>1. pc' # "notify"
    BY Zenon, <1>7 DEF cirp_change_state, AnalyzeRecord, InPage, Push
  <2> QED
    BY Zenon, <1>5, <2>1
<1>8. CASE AnalyzerStops \/ AnalyzerFails \/ Crash
  <2>1. pc' # "notify"
    BY Zenon, <1>8 DEF AnalyzerStops, AnalyzerFails, Crash, ClearAnalyzer
  <2> QED
    BY Zenon, <1>5, <2>1
<1> QED
  BY Zenon, <1>2, <1>3, <1>4, <1>6, <1>7, <1>8 DEF Next, AnalyzerStep

-----------------------------------------------------------------------------
LEMMA InitInv == Init => IInv
<1> SUFFICES ASSUME Init PROVE IInv
  OBVIOUS
<1>1. TypeOK
  BY InitType
<1>2. \A t \in Tran : log[t].start \in Nat /\ log[t].start # NULL_LSA
         /\ log[t].end \in Nat /\ log[t].end # NULL_LSA
         /\ log[t].applier \in Applier
  BY <1>1, LogNumbers, LogFacts, Zenon
<1>3. NothingLost /\ CommitInv
  <2>1. /\ anlz_row = 1 /\ Replicated \subseteq Tran
        /\ \A t \in Tran : times[t] = 0
        /\ \A a \in Applier : appl_row[a] = NULL_LSA
    BY Zenon DEF Init, Replicated
  <2>2. ASSUME NEW t \in Tran
        PROVE  1 =< log[t].start /\ ~(log[t].end =< NULL_LSA)
    <3>1. /\ log[t].start \in Nat /\ log[t].start # NULL_LSA
          /\ log[t].end \in Nat /\ log[t].end # NULL_LSA
      BY Zenon, <1>2
    <3> QED
      BY <3>1 DEF NULL_LSA
  <2> QED
    BY Zenon, <1>2, <2>1, <2>2 DEF NothingLost, CommitInv
<1>4. QueueInv /\ ApplierInv
  <2>1. \A a \in Applier : Len(logq[a]) = 0
    BY Zenon DEF Init
  <2>2. \A a \in Applier : status[a] = "INIT"
                           /\ committed_lsa[a] =< appl_row[a]
    BY DEF Init, NULL_LSA
  <2>3. QueueInv
    <3> SUFFICES ASSUME NEW a \in Applier, NEW i \in 1 .. Len(logq[a])
                 PROVE  FALSE
      BY Zenon DEF QueueInv
    <3> QED
      BY <2>1
  <2> QED
    BY <2>2, <2>3, Zenon DEF ApplierInv
<1>5. TableInv /\ ReadInv /\ OvertakenInv /\ IdleInv /\ DoneWhenAsked
  BY Zenon DEF Init, TableInv, ReadInv, OvertakenInv, NoTable, IdleInv,
               DoneWhenAsked
<1>6. OrderInv
  BY Zenon DEF Init, OrderInv, Replicated
<1> QED
  BY <1>1, <1>3, <1>4, <1>5, <1>6 DEF IInv

LEMMA NextInv ==
    ASSUME IInv, [Next]_vars
    PROVE  IInv'
<1>1. TypeOK' /\ IdleInv' /\ OrderInv' /\ DoneWhenAsked'
  BY Zenon, NextType, IdleKeeps, OrderKeeps, DoneKeeps DEF IInv
<1>2. CASE Start
  BY Zenon, <1>1, <1>2, StartStep DEF IInv
<1>3. CASE \/ cirp_change_state \/ GetServerMode \/ ForceCommit \/ Notify
           \/ ReadHeader \/ EndPage
  BY Zenon, <1>1, <1>3, LoopStep DEF IInv
<1>4. CASE AnalyzeRecord
  <2>1. CommitInv' /\ QueueInv' /\ ApplierInv'
    BY Zenon, <1>4, AppliersStay DEF AnalyzeRecord, master, catalog, database
  <2> QED
    BY Zenon, <1>1, <1>4, <2>1, AnalyzeRecordStep DEF IInv
<1>5. CASE Assign
  <2>1. CommitInv' /\ QueueInv' /\ ApplierInv'
    BY Zenon, <1>5, AppliersStay DEF Assign, master, catalog, database
  <2> QED
    BY Zenon, <1>1, <1>5, <2>1, AssignStep DEF IInv
<1>6. CASE Push
  BY Zenon, <1>1, <1>6, PushStep DEF IInv
<1>7. CASE WaitTranCommit
  <2>1. CommitInv' /\ QueueInv' /\ ApplierInv'
    BY Zenon, <1>7, AppliersStay DEF WaitTranCommit, master, catalog, database
  <2> QED
    BY Zenon, <1>1, <1>7, <2>1, WaitTranCommitStep DEF IInv
<1>8. CASE AnalyzerStops
  BY Zenon, <1>1, <1>8, AnalyzerStopsStep DEF IInv
<1>9. CASE AnalyzerFails
  BY Zenon, <1>1, <1>9, AnalyzerFailsStep DEF IInv
<1>10. CASE Crash
  BY Zenon, <1>1, <1>10, CrashStep DEF IInv
<1>11. CASE \E a \in Applier : ApplierStep(a) \/ SendAgain(a) \/ ApplierFails(a)
  <2>1. CommitInv' /\ QueueInv' /\ ApplierInv' /\ Moves
    BY Zenon, <1>11, ApplierKeeps
  <2> QED
    BY Zenon, <1>1, <2>1, MovesKeep DEF IInv
<1>12. CASE Receive \/ MasterDies \/ ChangeServerState \/ UNCHANGED vars
  <2>1. UNCHANGED <<log, catalog, database, analyzer, appliers>>
    BY Zenon, <1>12 DEF Receive, MasterDies, ChangeServerState, vars, master
  <2>2. CommitInv' /\ QueueInv' /\ ApplierInv'
    BY Zenon, <2>1, AppliersStay DEF catalog, database
  <2>3. Moves
    BY Zenon, <2>1, MovesQuiet DEF catalog, database, analyzer, appliers
  <2> QED
    BY Zenon, <1>1, <2>2, <2>3, MovesKeep DEF IInv
<1> QED
  BY Zenon, <1>2, <1>3, <1>4, <1>5, <1>6, <1>7, <1>8, <1>9, <1>10, <1>11, <1>12
     DEF Next, AnalyzerStep

LEMMA Invariance == Spec => []IInv
BY InitInv, NextInv, PTL DEF Spec

(* Wherever the agent stops and whatever has failed, the row of the        *)
(* analyzer is at or before the first record of every transaction that the *)
(* standby has not committed (cirp_anlz_update_progress_from_appliers).    *)
THEOREM RestartLosesNothing == Spec => []NothingLost
<1>1. IInv => NothingLost
  BY DEF IInv
<1> QED
  BY <1>1, Invariance, PTL

(* The assert in cirp_anlz_update_progress_from_appliers never fails.      *)
THEOREM RequiredNeverPasses == Spec => []RequiredAssert
<1>1. IInv => RequiredAssert
  BY Zenon DEF IInv, TableInv, RequiredAssert, InTable
<1> QED
  BY <1>1, Invariance, PTL

(* cirp_analyzer_wait_tran_commit lets the analyzer go on after a          *)
(* transaction that blocks when it is committed, or its applier had        *)
(* committed another one past its first item.                              *)
THEOREM BlockedIsAwaited == Spec => []BlockedOrOvertaken
<1>1. IInv => BlockedOrOvertaken
  BY Zenon DEF IInv, OvertakenInv, BlockedOrOvertaken
<1> QED
  BY <1>1, Invariance, PTL

(* Through restarts, lost replies, requests that cci_send_repl_data sends  *)
(* again and crashes, transactions are committed in the order that         *)
(* ReplayOrder asks for, and none again after one that must follow it.     *)
THEOREM AgentImplementsReplay == Spec => ImplementsReplay
<1>1. Init => Replay!Init
  BY Zenon DEF Init, Replay!Init
<1>2. ASSUME IInv, [Next]_vars
      PROVE  [Replay!Next]_<<log, times>>
  <2>1. CASE \E a \in Applier : ApplierStep(a) \/ SendAgain(a) \/ ApplierFails(a)
    <3>1. PICK a \in Applier : ApplierStep(a) \/ SendAgain(a) \/ ApplierFails(a)
      BY Zenon, <2>1
    <3>2. UNCHANGED log
      BY Zenon, <1>2, <3>1, ApplierAlone DEF IInv
    <3>3. CASE Applies(a) /\ Commits(a)
      <4>1. Replay!Replay(Item(a))
        BY Zenon, <1>2, <3>2, <3>3, CommitStep
      <4>2. Item(a) \in Tran
        BY <1>2, <3>3, NextInLine, Zenon DEF Replicated
      <4> QED
        BY Zenon, <4>1, <4>2 DEF Replay!Next
    <3>4. CASE UNCHANGED times
      BY Zenon, <3>2, <3>4
    <3> QED
      BY Zenon, <1>2, <3>1, <3>3, <3>4, ServedOrNot
  <2>2. CASE Quiet
    BY Zenon, <2>2 DEF Quiet
  <2>3. CASE Start \/ Push \/ Crash
    BY Zenon, <2>3 DEF Start, Push, Crash, master, database
  <2> QED
    BY Zenon, <1>2, <2>1, <2>2, <2>3, QuietSteps DEF Next, AnalyzerStep
<1> QED
  BY <1>1, <1>2, Invariance, PTL DEF Spec, ImplementsReplay, Replay!Spec, Replay!vars

(* Positions, table, queues and catalog keep the types the code gives them. *)
THEOREM TypeCorrect == Spec => []TypeOK
<1>1. IInv => TypeOK
  BY DEF IInv
<1> QED
  BY <1>1, Invariance, PTL

(* When cirp_change_state reports DONE to a server that was TO_BE_MASTER   *)
(* when it asked, all that was read is committed, but for schema changes.  *)
THEOREM DoneIsReplayed == Spec => []DoneWhenAsked
<1>1. IInv => DoneWhenAsked
  BY Zenon DEF IInv
<1> QED
  BY <1>1, Invariance, PTL

=============================================================================
