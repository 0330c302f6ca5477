------------------------- MODULE ReportSenderProofs -------------------------
(***************************************************************************)
(* Proofs about ReportSender for any dispatches, any fault budget and any  *)
(* mixture of faults.                                                      *)
(*                                                                         *)
(* First the sender is shown to be a client of ExecutionStore: every step  *)
(* of it, faults included, is a transaction StoreNext allows or leaves the *)
(* tables alone, so what ExecutionStoreProofs shows of the store holds of  *)
(* the whole.  That needs Wired: a number on its way, projected, answered  *)
(* or picked for sending is one that was queued.                           *)
(*                                                                         *)
(* Then Covered, which implies CursorHonest and AcceptedBeforeLifecycle,   *)
(* is shown invariant as long as Ploom forgets nothing.  The two cannot be *)
(* separated: that accepted comes first is read off the cursor, and the    *)
(* cursor is honest because a lifecycle report is never answered by a 409. *)
(***************************************************************************)
EXTENDS ReportSender, ExecutionStoreProofs

\* TypeOK without the tables.
SenderTypeOK ==
    /\ pc \in {"idle", "next", "gate", "regate", "scan", "loop", "wait", "ack"}
    /\ todo \subseteq Dispatches
    /\ cur \in Dispatches
    /\ ackSeq \in 0 .. 3
    /\ recs \subseteq Seqs
    /\ held \subseteq Seqs
    /\ req \in Seqs
    /\ from \in {"gate", "loop", "force"}
    /\ answer \in 0 .. NoAnswer
    /\ late \subseteq Dispatches \X Seqs
    /\ projected \in [Dispatches -> 0 .. 3]
    /\ faults \in 0 .. MaxFaults

\* The sender is draining an execution, and there is a request in hand.
Draining == pc \notin {"idle", "next"}
Asking == pc \in {"wait", "ack"}
\* The rest of the loop is still to come.
Looping == pc = "loop" \/ (Asking /\ from = "loop")

\* Whatever is picked, sent, delayed, projected or answered was queued.
Wired ==
    /\ \A d \in todo : seqAccepted \in Queued(d)
    /\ Draining => seqAccepted \in Queued(cur)
    /\ Looping => recs \subseteq Queued(cur)
    /\ Asking => req \in Queued(cur) /\ (answer \in Seqs => answer \in Queued(cur))
    /\ pc = "ack" => answer \in Seqs
    /\ \A m \in late : m[2] \in Queued(m[1])
    /\ \A d \in Dispatches : projected[d] # 0 => projected[d] \in Queued(d)

WiredInv == StoreInv /\ SenderTypeOK /\ Wired

\* Everything the daemon takes for projected is projected, and nothing but
\* accepted is asked for before accepted is projected.
Covered ==
    /\ \A d \in Dispatches :
          /\ cursor[d] <= projected[d]
          /\ \A s \in Seqs : "acked" \in marks[d][s] => s <= projected[d]
    /\ Draining => ackSeq <= projected[cur]
    /\ pc = "scan" \/ Looping => projected[cur] >= 1
    /\ Asking => /\ answer # 0
                 /\ answer \in Seqs => answer <= projected[cur]
                 /\ req # seqAccepted => from = "loop"
    /\ \A m \in late : m[2] # seqAccepted => projected[m[1]] >= 1

-----------------------------------------------------------------------------
(* The lowest number of a non-empty set of sequence numbers is in the set. *)
LEMMA LowestIsMember ==
    ASSUME NEW S, S \subseteq Seqs, S # {}
    PROVE  LowestOf(S) \in S
  <1>1. PICK s \in S : \A t \in S : s <= t
    <2>1. CASE 1 \in S
      BY <2>1 DEF Seqs
    <2>2. CASE 1 \notin S /\ 2 \in S
      BY <2>2 DEF Seqs
    <2>3. CASE 1 \notin S /\ 2 \notin S
      <3>1. \A t \in S : t = 3
        BY <2>3 DEF Seqs
      <3> QED
        BY <3>1
    <2> QED
      BY <2>1, <2>2, <2>3 DEF Seqs
  <1> QED
    BY <1>1 DEF LowestOf

(* A queued report stays queued: the outbox is never purged, and a commit  *)
(* only fills a free place.                                                *)
LEMMA QueuedStays ==
    StoreInv /\ [StoreNext]_storeVars => \A d \in Dispatches : Queued(d) \subseteq Queued(d)'
  <1> DEFINE Kept == \A d \in Dispatches : \A s \in Seqs :
                        report[d][s] # NoReport => report'[d][s] # NoReport
  <1> SUFFICES ASSUME StoreInv, [StoreNext]_storeVars PROVE Kept
    BY DEF Queued
  <1>t. report \in [Dispatches -> [Seqs -> Status \cup {NoReport}]]
    BY DEF StoreInv, StoreTypeOK
  <1>e. ASSUME NEW st \in [Seqs -> Status \cup {NoReport}], NEW n \in Seqs, NEW x \in Status
        PROVE  /\ Enqueue(st, [seq |-> n, status |-> x]) \in [Seqs -> Status \cup {NoReport}]
               /\ \A s \in Seqs : st[s] # NoReport =>
                     Enqueue(st, [seq |-> n, status |-> x])[s] # NoReport
    BY <1>e DEF Enqueue, Status, NoReport
  <1>0. CASE report' = report
    BY <1>0
  <1>1. ASSUME NEW d \in Dispatches, NEW n \in Seqs, NEW x \in Status,
               report' = [report EXCEPT ![d] = Enqueue(@, [seq |-> n, status |-> x])]
        PROVE  Kept
    BY <1>1, <1>t, <1>e
  <1>2. ASSUME NEW d \in Dispatches, NEW r \in Repos, UpsertByDispatchWithReport(d, r)
        PROVE  Kept
    <2>1. \/ UNCHANGED report
          \/ report' = [report EXCEPT ![d] = Enqueue(@, [seq |-> 1, status |-> "accepted"])]
      BY <1>2 DEF UpsertByDispatchWithReport, Commit, BuildAccepted, storeVars, seqAccepted
    <2>2. 1 \in Seqs /\ "accepted" \in Status
      BY DEF Seqs, Status
    <2> QED
      BY <1>0, <1>1, <2>1, <2>2
  <1>3. ASSUME NEW d \in Dispatches, NEW r \in Repos, InsertRejectedWithReports(d, r)
        PROVE  Kept
    <2>1. Enqueue(report[d], BuildAccepted) \in [Seqs -> Status \cup {NoReport}]
      BY <1>t, <1>e DEF BuildAccepted, seqAccepted, Seqs, Status
    <2>2. CASE report' = [report EXCEPT ![d] = Enqueue(Enqueue(@, BuildAccepted), BuildFailed)]
      BY <1>t, <1>e, <2>1, <2>2 DEF BuildAccepted, BuildFailed, seqAccepted, seqFailed, Seqs, Status
    <2> QED
      BY <1>0, <1>3, <2>2 DEF InsertRejectedWithReports, storeVars
  <1>4. ASSUME NEW d \in Dispatches, NEW c \in Codes, MarkLaunchedWithReport(d, c)
        PROVE  Kept
    <2>1. report' = [report EXCEPT ![d] = Enqueue(@, [seq |-> 2, status |-> "running"])]
      BY <1>4 DEF MarkLaunchedWithReport, Commit, BuildRunning, seqRunning
    <2>2. 2 \in Seqs /\ "running" \in Status
      BY DEF Seqs, Status
    <2> QED
      BY <1>1, <2>1, <2>2
  <1>5. ASSUME NEW d \in Dispatches, NEW to \in Terminal, NEW src \in {"result", "exit_only"},
               MarkTerminalWithReport(d, to, src)
        PROVE  Kept
    <2> DEFINE t == [row[d] EXCEPT !.status = to, !.source = src]
    <2>1. t.status \in Status /\ terminalSeq(t) \in Seqs
      BY DEF StoreInv, StoreTypeOK, Row, Status, Terminal, terminalSeq, seqTerminal, seqFailed, Seqs
    <2> QED
      BY <1>1, <1>5, <2>1 DEF MarkTerminalWithReport, Commit, BuildTerminal
  <1>6. ASSUME NEW d \in Dispatches, LaunchFailed(d)
        PROVE  Kept
    <2>1. report' = [report EXCEPT ![d] = Enqueue(@, [seq |-> 2, status |-> "failed"])]
      BY <1>6 DEF LaunchFailed, UpdateStatusWithReport, Commit, BuildFailed, seqFailed
    <2>2. 2 \in Seqs /\ "failed" \in Status
      BY DEF Seqs, Status
    <2> QED
      BY <1>1, <2>1, <2>2
  <1>7. ASSUME NEW d \in Dispatches, NEW s \in Queued(d),
               \/ MarkAcked(d, s) \/ MarkAttempt(d, s) \/ MarkPermanent(d, s)
               \/ BackoffExpires(d, s) \/ AdvanceCursor(d, s)
        PROVE  Kept
    BY <1>0, <1>7 DEF MarkAcked, MarkAttempt, MarkPermanent, BackoffExpires, SetMarks, AdvanceCursor
  <1> QED
    BY <1>0, <1>2, <1>3, <1>4, <1>5, <1>6, <1>7 DEF StoreNext, storeVars

(* An execution with any report has its accepted report.                   *)
LEMMA DueHasAccepted ==
    ASSUME StoreInv, NEW d \in Dispatches, Queued(d) # {}
    PROVE  seqAccepted \in Queued(d)
  <1>1. Matches(row[d], report[d]) /\ Fenced(row[d])
    BY DEF StoreInv, ReportsMatchRow, LaunchFence
  <1>2. row[d].status # "absent"
    <2> SUFFICES ASSUME row[d].status = "absent" PROVE \A s \in Seqs : report[d][s] = NoReport
      BY DEF Queued
    <2>1. row[d].launch = "none"
      BY <1>1 DEF Fenced
    <2>2. report[d][1] = NoReport /\ report[d][2] = NoReport /\ report[d][3] = NoReport
      BY <1>1, <2>1 DEF Matches, Terminal
    <2> QED
      BY <2>2 DEF Seqs
  <1> QED
    <2>1. report[d][1] # NoReport
      BY <1>1, <1>2 DEF Matches, NoReport
    <2>2. 1 \in Seqs
      BY DEF Seqs
    <2> QED
      BY <2>1, <2>2 DEF Queued, seqAccepted

(* Every step of the sender is a step of the store or leaves it alone.     *)
LEMMA SenderUsesStore == WiredInv /\ [Next]_vars => [StoreNext]_storeVars
  <1> SUFFICES ASSUME WiredInv, Next PROVE StoreNext \/ UNCHANGED storeVars
    BY DEF vars
  <1>1. CASE FlushStart \/ FlushEnd \/ (\E d \in Dispatches : FlushExecution(d)) \/ Gate \/ Regate
             \/ Scan \/ LoopEnd \/ LoopHeld \/ LoopSend \/ AcceptedRequired
    BY <1>1 DEF FlushStart, FlushEnd, FlushExecution, Gate, Regate, Scan, LoopEnd, LoopHeld, LoopSend,
        AcceptedRequired
  <1>2. CASE PloomReceives \/ PloomReceivesLate \/ LoopStaleFails \/ AnsweredCursorFails
             \/ AcknowledgeFails \/ Crash \/ (\E d \in Dispatches : PloomForgets(d))
    BY <1>2 DEF PloomReceives, PloomReceivesLate, LoopStaleFails, AnsweredCursorFails, AcknowledgeFails,
        Crash, PloomForgets
  <1>3. CASE LoopStale
    <2>1. LowestOf(recs) \in Queued(cur) /\ MarkAcked(cur, LowestOf(recs)) /\ cur \in Dispatches
      BY <1>3, LowestIsMember DEF LoopStale, WiredInv, SenderTypeOK, Wired, Looping
    <2> QED
      BY <2>1 DEF StoreNext
  <1>4. CASE Answered
    BY <1>4 DEF Answered, WiredInv, SenderTypeOK, Wired, Asking, StoreNext
  <1>5. CASE Acknowledge
    BY <1>5 DEF Acknowledge, WiredInv, SenderTypeOK, Wired, Asking, StoreNext
  <1>6. CASE TransientError \/ PermanentError
    BY <1>6 DEF TransientError, PermanentError, MarkFails, WiredInv, SenderTypeOK, Wired, Asking, StoreNext
  <1>7. CASE Transition
    BY <1>7 DEF Transition, StoreNext
  <1>8. CASE Tick
    BY <1>8 DEF Tick, StoreNext
  <1> QED
    BY <1>1, <1>2, <1>3, <1>4, <1>5, <1>6, <1>7, <1>8 DEF Next, SenderStep, FaultStep

-----------------------------------------------------------------------------
(* The initial state is wired.                                             *)
LEMMA WiredInit == Init => WiredInv
  <1> SUFFICES ASSUME Init PROVE WiredInv
    OBVIOUS
  <1>1. StoreInv
    BY StoreInitInv DEF Init
  <1>2. SenderTypeOK
    BY FaultAssumption DEF Init, SenderTypeOK, NoAnswer, Seqs
  <1>3. Wired
    BY DEF Init, Wired, Draining, Looping, Asking
  <1> QED
    BY <1>1, <1>2, <1>3 DEF WiredInv

(* Every step keeps the sender typed.                                      *)
LEMMA SenderTypeNext == WiredInv /\ [Next]_vars => SenderTypeOK'
  <1> SUFFICES ASSUME WiredInv, [Next]_vars PROVE SenderTypeOK'
    OBVIOUS
  <1> USE FaultAssumption DEF WiredInv, SenderTypeOK, NoAnswer, senderVars, outside
  <1>t. cursor \in [Dispatches -> 0 .. 3]
    BY DEF StoreInv, StoreTypeOK
  <1>1. CASE FlushStart
    BY <1>1 DEF FlushStart
  <1>2. CASE FlushEnd \/ Regate \/ LoopEnd
    BY <1>2, <1>t DEF FlushEnd, Regate, LoopEnd
  <1>3. ASSUME NEW d \in Dispatches, FlushExecution(d) PROVE SenderTypeOK'
    BY <1>3, <1>t DEF FlushExecution
  <1>4. CASE Gate \/ AcceptedRequired
    <2>1. /\ \/ req' = 1 /\ from' \in {"gate", "force"} /\ answer' = 4 /\ pc' = "wait"
             \/ pc' \in {"regate", "next"} /\ UNCHANGED <<req, from, answer>>
          /\ UNCHANGED <<late, projected, faults, todo, cur, ackSeq, recs, held>>
      BY <1>4 DEF Gate, AcceptedRequired, Post, seqAccepted
    <2> QED
      BY <2>1 DEF Seqs
  <1>5. CASE Scan
    BY <1>5 DEF Scan, Unacked, Queued
  <1>6. CASE LoopStale \/ LoopHeld \/ LoopSend
    BY <1>6, LowestIsMember DEF LoopStale, LoopHeld, LoopSend, Post
  <1>7. CASE LoopStaleFails \/ AnsweredCursorFails
    BY <1>7 DEF LoopStaleFails, AnsweredCursorFails, Fault
  <1>8. CASE PloomReceives
    <2>1. projected' \in [Dispatches -> 0 .. 3]
      BY <1>8 DEF PloomReceives, Project, Seqs
    <2> QED
      BY <1>8, <2>1 DEF PloomReceives
  <1>9. CASE PloomReceivesLate
    <2>1. PICK m \in late : /\ late' = late \ {m}
                            /\ Project(m[1], m[2]) \/ UNCHANGED projected
      BY <1>9 DEF PloomReceivesLate
    <2>2. m[1] \in Dispatches /\ m[2] \in Seqs
      BY <2>1
    <2>3. projected' \in [Dispatches -> 0 .. 3]
      BY <2>1, <2>2 DEF Project, Seqs
    <2> QED
      BY <1>9, <2>1, <2>3 DEF PloomReceivesLate
  <1>10. ASSUME NEW d \in Dispatches, PloomForgets(d) PROVE SenderTypeOK'
    BY <1>10 DEF PloomForgets, Fault
  <1>11. CASE Answered
    BY <1>11 DEF Answered
  <1>12. CASE Acknowledge \/ AcknowledgeFails
    <2>1. AckDone /\ late' = late /\ projected' = projected /\ faults' \in 0 .. MaxFaults /\ pc = "ack"
      BY <1>12 DEF Acknowledge, AcknowledgeFails, Fault
    <2>2. answer \in 0 .. 3
      BY <2>1 DEF Wired, Seqs
    <2> QED
      BY <2>1, <2>2 DEF AckDone
  <1>13. CASE TransientError \/ PermanentError
    BY <1>13 DEF TransientError, PermanentError, Deferred, Fault
  <1>14. CASE Transition \/ Tick
    BY <1>14 DEF Transition, Tick
  <1>15. CASE Crash
    BY <1>15 DEF Crash, Fault
  <1>16. CASE UNCHANGED vars
    BY <1>16 DEF vars
  <1> QED
    BY <1>1, <1>2, <1>3, <1>4, <1>5, <1>6, <1>7, <1>8, <1>9, <1>10, <1>11, <1>12, <1>13, <1>14, <1>15,
       <1>16 DEF Next, SenderStep, FaultStep

(* Every step keeps the numbers in hand, on the wire and at Ploom among    *)
(* the queued ones.                                                        *)
LEMMA WiredNext == WiredInv /\ [Next]_vars => Wired'
  <1> SUFFICES ASSUME WiredInv, [Next]_vars PROVE Wired'
    OBVIOUS
  <1> USE DEF WiredInv, SenderTypeOK, Wired, Draining, Asking, Looping, Queued, NoAnswer, senderVars, outside,
          seqAccepted
  <1>q. \A d \in Dispatches : \A s \in Seqs : report[d][s] # NoReport => report'[d][s] # NoReport
    BY QueuedStays, SenderUsesStore
  <1>n. 4 \notin Seqs /\ 0 \notin Seqs /\ 1 \in Seqs
    BY DEF Seqs
  <1>1. CASE FlushStart
    <2>1. ASSUME NEW d \in Dispatches, Due(d) PROVE seqAccepted \in Queued(d)
      BY <2>1, DueHasAccepted DEF Due, Unacked
    <2> QED
      BY <1>1, <1>q, <2>1 DEF FlushStart
  <1>2. CASE FlushEnd \/ Regate \/ LoopEnd
    BY <1>2, <1>q DEF FlushEnd, Regate, LoopEnd
  <1>3. ASSUME NEW d \in Dispatches, FlushExecution(d) PROVE Wired'
    BY <1>3, <1>q DEF FlushExecution
  <1>4. CASE Gate \/ AcceptedRequired
    <2>1. /\ \/ req' = 1 /\ from' \in {"gate", "force"} /\ answer' = 4 /\ pc' = "wait"
             \/ pc' \in {"regate", "next"} /\ UNCHANGED <<req, from, answer>>
          /\ UNCHANGED <<late, projected, todo, cur, recs>>
          /\ Draining
      BY <1>4 DEF Gate, AcceptedRequired, Post
    <2> QED
      BY <1>n, <1>q, <2>1
  <1>5. CASE Scan
    BY <1>5, <1>q DEF Scan, Unacked
  <1>6. CASE LoopStale \/ LoopHeld \/ LoopSend
    <2>1. LowestOf(recs) \in recs /\ recs \subseteq Queued(cur) /\ pc = "loop"
      BY <1>6, LowestIsMember DEF LoopStale, LoopHeld, LoopSend
    <2>2. /\ UNCHANGED <<todo, cur, late, projected>>
          /\ recs' \subseteq recs
          /\ \/ UNCHANGED <<pc, from, req, answer>>
             \/ pc' = "wait" /\ req' \in recs /\ answer' = 4
      BY <1>6, <2>1 DEF LoopStale, LoopHeld, LoopSend, Post
    <2> QED
      BY <1>n, <1>q, <2>1, <2>2
  <1>7. CASE LoopStaleFails \/ Answered \/ AnsweredCursorFails
    BY <1>7, <1>q DEF LoopStaleFails, Answered, AnsweredCursorFails
  <1>8. CASE PloomReceives
    <2>1. \A d \in Dispatches : projected'[d] # 0 => projected'[d] \in Queued(d)
      BY <1>8 DEF PloomReceives, Project
    <2>2. answer' \in Seqs => answer' = projected'[cur]
      BY <1>8, <1>n DEF PloomReceives
    <2> QED
      BY <1>8, <1>n, <1>q, <2>1, <2>2 DEF PloomReceives
  <1>9. CASE PloomReceivesLate
    <2>1. PICK m \in late : /\ late' = late \ {m}
                            /\ Project(m[1], m[2]) \/ UNCHANGED projected
      BY <1>9 DEF PloomReceivesLate
    <2>2. \A d \in Dispatches : projected'[d] # 0 => projected'[d] \in Queued(d)
      BY <2>1 DEF Project
    <2> QED
      BY <1>9, <1>q, <2>1, <2>2 DEF PloomReceivesLate
  <1>10. ASSUME NEW d \in Dispatches, PloomForgets(d) PROVE Wired'
    BY <1>10, <1>q DEF PloomForgets
  <1>11. CASE Acknowledge \/ AcknowledgeFails
    <2>1. AckDone /\ UNCHANGED <<late, projected>> /\ pc = "ack"
      BY <1>11 DEF Acknowledge, AcknowledgeFails
    <2>2. /\ pc' \in {"regate", "loop", "next"} /\ (pc' = "loop" => from = "loop")
          /\ UNCHANGED <<todo, cur, recs>>
      BY <2>1 DEF AckDone
    <2> QED
      BY <1>q, <2>1, <2>2
  <1>12. CASE TransientError \/ PermanentError
    <2>1. /\ pc = "wait" /\ pc' \in {"regate", "next"}
          /\ UNCHANGED <<projected, todo, cur>>
          /\ late' = late \/ late' = late \cup {<<cur, req>>}
      BY <1>12 DEF TransientError, PermanentError, Deferred
    <2> QED
      BY <1>q, <2>1
  <1>13. CASE Transition \/ Tick
    BY <1>13, <1>q DEF Transition, Tick
  <1>14. CASE Crash
    BY <1>14, <1>q DEF Crash
  <1>15. CASE UNCHANGED vars
    BY <1>15, <1>q DEF vars
  <1> QED
    BY <1>1, <1>2, <1>3, <1>4, <1>5, <1>6, <1>7, <1>8, <1>9, <1>10, <1>11, <1>12, <1>13, <1>14, <1>15
       DEF Next, SenderStep, FaultStep

(* WiredInv is inductive, whatever faults are enabled.                     *)
LEMMA WiredStep == WiredInv /\ [Next]_vars => WiredInv'
  <1>1. WiredInv /\ [Next]_vars => StoreInv'
    BY SenderUsesStore, StoreNextInv DEF WiredInv
  <1> QED
    BY <1>1, SenderTypeNext, WiredNext DEF WiredInv

-----------------------------------------------------------------------------
(* The sender, Ploom and the faults together are a client the store was    *)
(* made for: every behaviour is a behaviour of ExecutionStore              *)
(* (report.go:229, outbox.go:118).                                         *)
THEOREM SenderImplementsStore == Spec => StoreSpec
  <1>1. Init => StoreInit
    BY DEF Init
  <1> QED
    BY <1>1, WiredInit, WiredStep, SenderUsesStore, PTL DEF Spec, StoreSpec

(* So the stream of reports stays append-only and without holes while it   *)
(* is being drained, through every fault.                                  *)
THEOREM SenderKeepsStream == Spec => StreamSpec
  BY SenderImplementsStore, StoreImplementsStream, PTL

(* Type correctness, whatever faults are enabled.                          *)
THEOREM SenderTypeCorrect == Spec => []TypeOK
  <1>1. WiredInv => TypeOK
    BY DEF WiredInv, StoreInv, SenderTypeOK, TypeOK
  <1> QED
    BY <1>1, WiredInit, WiredStep, PTL DEF Spec

-----------------------------------------------------------------------------
(* Initially nothing is covered and nothing has to be.                     *)
LEMMA CoveredInit == Init => Covered
  BY DEF Init, StoreInit, Covered, Draining, Looping, Asking, Seqs

(* What happens in the tables and at Ploom outside a step of the sender:   *)
(* a step that leaves the bookkeeping alone and never lowers a projection  *)
(* keeps the tables covered.                                               *)
LEMMA CoverGrows ==
    ASSUME WiredInv, Covered, marks' = marks, cursor' = cursor,
           projected' \in [Dispatches -> 0 .. 3],
           \A d \in Dispatches : projected[d] <= projected'[d]
    PROVE  \A d \in Dispatches :
              /\ cursor'[d] <= projected'[d]
              /\ \A s \in Seqs : "acked" \in marks'[d][s] => s <= projected'[d]
  <1>1. ASSUME NEW d \in Dispatches PROVE cursor[d] <= projected'[d]
    <2>1. cursor[d] \in 0 .. 3 /\ projected[d] \in 0 .. 3 /\ projected'[d] \in 0 .. 3
      BY DEF WiredInv, StoreInv, StoreTypeOK, SenderTypeOK
    <2>2. cursor[d] <= projected[d] /\ projected[d] <= projected'[d]
      BY DEF Covered
    <2> QED
      BY <2>1, <2>2
  <1>2. ASSUME NEW d \in Dispatches, NEW s \in Seqs, "acked" \in marks[d][s]
        PROVE  s <= projected'[d]
    <2>1. projected[d] \in 0 .. 3 /\ projected'[d] \in 0 .. 3
      BY DEF WiredInv, SenderTypeOK
    <2>2. s <= projected[d] /\ projected[d] <= projected'[d]
      BY <1>2 DEF Covered
    <2> QED
      BY <2>1, <2>2 DEF Seqs
  <1> QED
    BY <1>1, <1>2

(* Ploom never lowers what it has projected.                               *)
LEMMA ProjectGrows ==
    ASSUME WiredInv, NEW d \in Dispatches, NEW s \in Seqs, Project(d, s)
    PROVE  /\ projected' \in [Dispatches -> 0 .. 3]
           /\ \A e \in Dispatches : projected[e] <= projected'[e]
           /\ Acceptable(d, s) => s <= projected'[d]
  BY DEF WiredInv, SenderTypeOK, Project, Seqs

(* Without amnesia, every step keeps the daemon covered.  The cursor is    *)
(* raised to an answer, an answer is what Ploom has projected, and a 409   *)
(* cannot be the answer.                                                   *)
LEMMA CoveredNext ==
    ASSUME "amnesia" \notin FaultKinds
    PROVE  WiredInv /\ Covered /\ [Next]_vars => Covered'
  <1> SUFFICES ASSUME WiredInv, Covered, [Next]_vars PROVE Covered'
    OBVIOUS
  <1> DEFINE Booked(c, k, p) == \A d \in Dispatches :
                                    /\ c[d] <= p[d]
                                    /\ \A s \in Seqs : "acked" \in k[d][s] => s <= p[d]
  <1>t. /\ cursor \in [Dispatches -> 0 .. 3]
        /\ marks \in [Dispatches -> [Seqs -> SUBSET Marks]]
        /\ SenderTypeOK
    BY DEF WiredInv, StoreInv, StoreTypeOK
  <1>b. Booked(cursor, marks, projected)
    BY DEF Covered
  <1> USE DEF Covered, Draining, Asking, Looping, NoAnswer, senderVars, outside, storeVars, seqAccepted
  <1> HIDE DEF Booked
  <1>1. CASE FlushStart \/ FlushEnd
    BY <1>1 DEF FlushStart, FlushEnd
  <1>2. ASSUME NEW d \in Dispatches, FlushExecution(d) PROVE Covered'
    <2>1. cursor[d] <= projected[d] /\ cursor[d] \in 0 .. 3 /\ projected[d] \in 0 .. 3
      BY <1>t DEF SenderTypeOK
    <2> QED
      BY <1>2, <2>1 DEF FlushExecution
  <1>3. CASE Gate
    BY <1>3 DEF Gate, Post, Seqs
  <1>4. CASE Regate
    <2>1. cursor[cur] <= projected[cur] /\ cursor[cur] \in 0 .. 3 /\ projected[cur] \in 0 .. 3
      BY <1>t DEF SenderTypeOK
    <2> QED
      BY <1>4, <2>1 DEF Regate
  <1>5. CASE Scan \/ LoopEnd \/ LoopStaleFails \/ LoopHeld \/ LoopSend
    BY <1>5 DEF Scan, LoopEnd, LoopStaleFails, LoopHeld, LoopSend, Post, Seqs
  <1>6. ASSUME NEW s \in Seqs, MarkAcked(cur, s), s <= projected[cur], UNCHANGED projected
        PROVE  Booked(cursor', marks', projected')
    BY <1>6, <1>b, <1>t DEF Booked, MarkAcked, SetMarks, SenderTypeOK
  <1>7. CASE LoopStale
    <2>1. LowestOf(recs) \in Seqs
      BY <1>7, <1>t, LowestIsMember DEF LoopStale, SenderTypeOK
    <2>2. LowestOf(recs) <= projected[cur]
      BY <1>7, <1>t, <2>1 DEF LoopStale, SenderTypeOK, Seqs
    <2> QED
      BY <1>6, <1>7, <2>1, <2>2 DEF LoopStale, Booked
  <1>8. CASE PloomReceives
    <2>1. /\ projected' \in [Dispatches -> 0 .. 3]
          /\ \A e \in Dispatches : projected[e] <= projected'[e]
          /\ Acceptable(cur, req) => req <= projected'[cur]
      BY <1>8, <1>t, ProjectGrows DEF PloomReceives, SenderTypeOK
    <2>2. Acceptable(cur, req)
      BY <1>8 DEF PloomReceives, Acceptable
    <2>3. Booked(cursor', marks', projected')
      BY <1>8, <2>1, CoverGrows DEF PloomReceives, Booked
    <2>4. answer' = projected'[cur] /\ answer' # 0
      BY <1>8, <1>t, <2>1, <2>2 DEF PloomReceives, SenderTypeOK, Seqs
    <2>5. ackSeq <= projected'[cur] /\ (projected[cur] >= 1 => projected'[cur] >= 1)
      BY <1>8, <1>t, <2>1 DEF PloomReceives, SenderTypeOK
    <2>6. \A m \in late : m[2] # seqAccepted => projected'[m[1]] >= 1
      <3> SUFFICES ASSUME NEW m \in late, m[2] # seqAccepted PROVE projected'[m[1]] >= 1
        OBVIOUS
      <3>1. m[1] \in Dispatches /\ projected[m[1]] >= 1
        BY <1>t DEF SenderTypeOK
      <3> QED
        BY <1>t, <2>1, <3>1 DEF SenderTypeOK
    <2>7. projected'[cur] \in 0 .. 3
      BY <1>t, <2>1 DEF SenderTypeOK
    <2> QED
      BY <1>8, <2>3, <2>4, <2>5, <2>6, <2>7 DEF PloomReceives, Booked
  <1>9. CASE PloomReceivesLate
    <2>1. PICK m \in late : /\ late' = late \ {m}
                            /\ Project(m[1], m[2]) \/ UNCHANGED projected
      BY <1>9 DEF PloomReceivesLate
    <2>2. /\ projected' \in [Dispatches -> 0 .. 3]
          /\ \A e \in Dispatches : projected[e] <= projected'[e]
      <3>1. m[1] \in Dispatches /\ m[2] \in Seqs
        BY <1>t, <2>1 DEF SenderTypeOK
      <3> QED
        BY <1>t, <2>1, <3>1, ProjectGrows DEF SenderTypeOK
    <2>3. Booked(cursor', marks', projected')
      BY <1>9, <2>2, CoverGrows DEF PloomReceivesLate, Booked
    <2>4. \A e \in Dispatches : \A n \in 0 .. 3 : n <= projected[e] => n <= projected'[e]
      BY <1>t, <2>2 DEF SenderTypeOK
    <2>5. \A k \in late' : k[2] # seqAccepted => projected'[k[1]] >= 1
      <3> SUFFICES ASSUME NEW k \in late', k[2] # seqAccepted PROVE projected'[k[1]] >= 1
        OBVIOUS
      <3>1. k \in late /\ k[1] \in Dispatches /\ projected[k[1]] >= 1
        BY <1>t, <2>1 DEF SenderTypeOK
      <3>2. projected[k[1]] \in 0 .. 3 /\ projected'[k[1]] \in 0 .. 3
            /\ projected[k[1]] <= projected'[k[1]]
        BY <1>t, <2>2, <3>1 DEF SenderTypeOK
      <3> QED
        BY <3>1, <3>2
    <2>6. /\ UNCHANGED <<pc, cur, ackSeq, req, from, answer>>
          /\ cur \in Dispatches /\ projected[cur] \in 0 .. 3 /\ projected'[cur] \in 0 .. 3
          /\ projected[cur] <= projected'[cur] /\ ackSeq \in 0 .. 3
      BY <1>9, <1>t, <2>2 DEF PloomReceivesLate, SenderTypeOK
    <2> QED
      BY <2>3, <2>5, <2>6 DEF Booked, Seqs
  <1>10. CASE Answered
    <2>1. Booked(cursor', marks', projected')
      BY <1>10, <1>b, <1>t DEF Answered, AdvanceCursor, Booked, SenderTypeOK, Seqs
    <2> QED
      BY <1>10, <2>1 DEF Answered, AdvanceCursor, Booked
  <1>11. CASE AnsweredCursorFails
    BY <1>11 DEF AnsweredCursorFails
  <1>12. CASE Acknowledge \/ AcknowledgeFails
    <2>1. pc = "ack" /\ AckDone /\ UNCHANGED <<late, projected>>
      BY <1>12 DEF Acknowledge, AcknowledgeFails
    <2>2. answer \in Seqs /\ answer <= projected[cur]
      BY <2>1 DEF WiredInv, Wired
    <2>3. Booked(cursor', marks', projected')
      <3>1. CASE UNCHANGED storeVars
        BY <1>b, <2>1, <3>1 DEF Booked
      <3>2. CASE req <= answer /\ MarkAcked(cur, req)
        <4>1. req \in Seqs /\ req <= projected[cur]
          BY <1>t, <2>2, <3>2 DEF SenderTypeOK, Seqs
        <4> QED
          BY <1>6, <2>1, <3>2, <4>1
      <3> QED
        BY <1>12, <3>1, <3>2 DEF Acknowledge, AcknowledgeFails
    <2>4. ackSeq' <= projected[cur] /\ pc' \in {"regate", "loop", "next"} /\ cur' = cur
          /\ (pc' = "loop" => projected[cur] >= 1)
      BY <1>t, <2>1, <2>2 DEF AckDone, SenderTypeOK
    <2> QED
      BY <2>1, <2>3, <2>4 DEF Booked
  <1>13. CASE AcceptedRequired
    BY <1>13 DEF AcceptedRequired
  <1>14. CASE TransientError \/ PermanentError
    <2>1. /\ pc = "wait" /\ pc' \in {"regate", "next"}
          /\ UNCHANGED <<projected, cur, ackSeq>>
          /\ late' = late \/ late' = late \cup {<<cur, req>>}
      BY <1>14 DEF TransientError, PermanentError, Deferred
    <2>2. MarkAttempt(cur, req) \/ MarkPermanent(cur, req) \/ UNCHANGED storeVars
      BY <1>14 DEF TransientError, PermanentError, MarkFails
    <2>3. Booked(cursor', marks', projected')
      <3>1. CASE UNCHANGED storeVars
        BY <1>b, <2>1, <3>1 DEF Booked
      <3>2. ASSUME NEW x \in {"backoff", "permanent"}, SetMarks(cur, req, marks[cur][req] \cup {x})
            PROVE  Booked(cursor', marks', projected')
        BY <1>b, <1>t, <2>1, <3>2 DEF SetMarks, Booked, SenderTypeOK
      <3> QED
        BY <2>2, <3>1, <3>2 DEF MarkAttempt, MarkPermanent
    <2> QED
      BY <2>1, <2>3 DEF Booked
  <1>15. CASE Transition
    <2>1. UNCHANGED <<senderVars, outside, marks, cursor>>
      BY <1>15 DEF Transition, UpsertByDispatchWithReport, InsertRejectedWithReports, MarkLaunchedWithReport,
          MarkTerminalWithReport, LaunchFailed, UpdateStatusWithReport, Commit
    <2> QED
      BY <2>1
  <1>16. CASE Tick
    <2>1. PICK d \in Dispatches, s \in Seqs : SetMarks(d, s, marks[d][s] \ {"backoff"})
      BY <1>16 DEF Tick, BackoffExpires, Queued
    <2>2. Booked(cursor', marks', projected')
      BY <1>16, <1>b, <1>t, <2>1 DEF Tick, SetMarks, Booked
    <2> QED
      BY <1>16, <2>2 DEF Tick, Booked
  <1>17. CASE Crash
    BY <1>17 DEF Crash
  <1>18. ASSUME NEW d \in Dispatches, PloomForgets(d) PROVE FALSE
    BY <1>18 DEF PloomForgets, Fault
  <1>19. CASE UNCHANGED vars
    BY <1>19 DEF vars
  <1> QED
    BY <1>1, <1>2, <1>3, <1>4, <1>5, <1>7, <1>8, <1>9, <1>10, <1>11, <1>12, <1>13, <1>14, <1>15, <1>16,
       <1>17, <1>18, <1>19 DEF Next, SenderStep, FaultStep

(* While Ploom forgets nothing, the sender's invariant holds: the cursor,  *)
(* the sender's copy of it and every report given up as acknowledged are   *)
(* covered by what Ploom has projected, through lost requests, lost        *)
(* answers, failed writes and crashes (report.go:18, :324).                *)
THEOREM SenderAlwaysHonest ==
    ASSUME "amnesia" \notin FaultKinds
    PROVE  Spec => []SenderInv
  <1>1. WiredInv /\ Covered => SenderInv
    BY DEF WiredInv, StoreInv, SenderTypeOK, SenderInv, TypeOK, CursorHonest, Covered, Draining
  <1> QED
    BY <1>1, WiredInit, WiredStep, CoveredInit, CoveredNext, PTL DEF Spec

(* While Ploom forgets nothing, no lifecycle report is on the wire before  *)
(* Ploom has projected accepted, not even a delayed one (report.go:15).    *)
THEOREM AcceptedAlwaysFirst ==
    ASSUME "amnesia" \notin FaultKinds
    PROVE  Spec => []AcceptedBeforeLifecycle
  <1>1. WiredInv /\ Covered => AcceptedBeforeLifecycle
    BY DEF Covered, AcceptedBeforeLifecycle, Asking, Looping
  <1> QED
    BY <1>1, WiredInit, WiredStep, CoveredInit, CoveredNext, PTL DEF Spec
=============================================================================
