------------------------ MODULE ExecutionStoreProofs ------------------------
(***************************************************************************)
(* Proofs about ExecutionStore for any set of dispatches, repositories and *)
(* session codes.  StoreInv is inductive: the launch fence is what makes   *)
(* ReportsMatchRow survive a terminal transition, because the number of    *)
(* the terminal report is chosen from the fence alone.                     *)
(*                                                                         *)
(* The lemmas about one row and its stream come first; CommitInv lifts     *)
(* them to the store.                                                      *)
(***************************************************************************)
EXTENDS ExecutionStore, TLAPS

Streams == [Seqs -> Status \cup {NoReport}]

\* A row and its reports are typed, fenced and matching.
Good(r, st) == r \in Row /\ st \in Streams /\ Fenced(r) /\ Matches(r, st)

-----------------------------------------------------------------------------
(* Enqueue always yields a typed stream.                                   *)
LEMMA EnqueueType ==
    ASSUME NEW st \in Streams, NEW n \in Seqs, NEW x \in Status
    PROVE  Enqueue(st, [seq |-> n, status |-> x]) \in Streams
  BY DEF Enqueue, Streams

(* Enqueue on a free place fills it and touches no other place.            *)
LEMMA EnqueueFree ==
    ASSUME NEW st \in Streams, NEW n \in Seqs, NEW x \in Status, st[n] = NoReport
    PROVE  /\ Enqueue(st, [seq |-> n, status |-> x])[n] = x
           /\ \A m \in Seqs \ {n} : Enqueue(st, [seq |-> n, status |-> x])[m] = st[m]
  BY DEF Enqueue, Streams

(* A new row with its accepted report.                                     *)
LEMMA InsertGood ==
    ASSUME NEW r, NEW st, Good(r, st), r.status = "absent", NEW q \in Repos
    PROVE  Good(NewRow(q, "launching"), Enqueue(st, BuildAccepted))
  <1>1. st[1] = NoReport /\ st[2] = NoReport /\ st[3] = NoReport
    BY DEF Good, Matches, Fenced, Terminal
  <1>2. Enqueue(st, BuildAccepted) \in Streams
    BY EnqueueType DEF Good, BuildAccepted, seqAccepted, Seqs, Status
  <1>3. /\ Enqueue(st, BuildAccepted)[1] = "accepted"
        /\ Enqueue(st, BuildAccepted)[2] = NoReport
        /\ Enqueue(st, BuildAccepted)[3] = NoReport
    BY <1>1, EnqueueFree DEF Good, BuildAccepted, seqAccepted, Seqs, Status
  <1>4. NewRow(q, "launching") \in Row /\ Fenced(NewRow(q, "launching"))
    BY DEF NewRow, Row, Fenced, Status, LaunchState
  <1> QED
    BY <1>2, <1>3, <1>4 DEF Good, Matches, NewRow, Terminal

\* The row that a rejection leaves.
Rejected(q) == [NewRow(q, "none") EXCEPT !.status = "failed", !.source = "rejected"]

(* A rejected row with its two reports.                                    *)
LEMMA RejectGood ==
    ASSUME NEW r, NEW st, Good(r, st), r.status = "absent", NEW q \in Repos
    PROVE  Good(Rejected(q), Enqueue(Enqueue(st, BuildAccepted), BuildFailed))
  <1> DEFINE one == Enqueue(st, BuildAccepted)
             two == Enqueue(one, BuildFailed)
  <1>1. one \in Streams /\ one[1] = "accepted" /\ one[2] = NoReport /\ one[3] = NoReport
    <2>1. Good(NewRow(q, "launching"), one)
      BY InsertGood
    <2>2. NewRow(q, "launching").status = "accepted" /\ NewRow(q, "launching").launch = "launching"
      BY DEF NewRow
    <2> QED
      BY <2>1, <2>2 DEF Good, Matches, Terminal
  <1>2. two \in Streams
    BY <1>1, EnqueueType DEF BuildFailed, seqFailed, Seqs, Status
  <1>3. two[1] = "accepted" /\ two[2] = "failed" /\ two[3] = NoReport
    BY <1>1, EnqueueFree DEF BuildFailed, seqFailed, Seqs, Status
  <1>4. Rejected(q) \in Row /\ Fenced(Rejected(q))
    BY DEF Rejected, NewRow, Row, Fenced, Status, LaunchState, OutcomeSource
  <1> QED
    BY <1>2, <1>3, <1>4 DEF Good, Matches, Rejected, NewRow, Terminal

\* The row that a successful launch leaves.
Launched(r, c) == [r EXCEPT !.launch = "launched", !.status = "running", !.code = c]

(* A launched row with its running report.                                 *)
LEMMA LaunchGood ==
    ASSUME NEW r, NEW st, Good(r, st), r.status = "accepted", r.launch = "launching",
           NEW c \in Codes
    PROVE  Good(Launched(r, c), Enqueue(st, BuildRunning))
  <1>1. st \in Streams /\ st[1] = "accepted" /\ st[2] = NoReport /\ st[3] = NoReport
    BY DEF Good, Matches, Terminal
  <1>2. Enqueue(st, BuildRunning) \in Streams
    BY <1>1, EnqueueType DEF BuildRunning, seqRunning, Seqs, Status
  <1>3. /\ Enqueue(st, BuildRunning)[1] = "accepted"
        /\ Enqueue(st, BuildRunning)[2] = "running"
        /\ Enqueue(st, BuildRunning)[3] = NoReport
    BY <1>1, EnqueueFree DEF BuildRunning, seqRunning, Seqs, Status
  <1>4. Launched(r, c) \in Row /\ Fenced(Launched(r, c))
    BY CodeAssumption DEF Good, Launched, Row, Fenced, Status, LaunchState
  <1>5. Launched(r, c).status = "running" /\ Launched(r, c).launch = "launched"
    BY DEF Launched, Good, Row
  <1> QED
    BY <1>2, <1>3, <1>4, <1>5 DEF Good, Matches, Terminal

(* A terminal row with its terminal report, whatever its source and        *)
(* whether or not the launch was committed.                                *)
LEMMA TerminalGood ==
    ASSUME NEW r, NEW st, Good(r, st), NEW t, t \in Row,
           t.status \in Terminal, CanTransition(r.status, t.status),
           t.launch = r.launch, t.code = r.code, t.source # "rejected"
    PROVE  Good(t, Enqueue(st, BuildTerminal(t)))
  <1> DEFINE n == terminalSeq(t)
             new == Enqueue(st, BuildTerminal(t))
  <1>1. n \in Seqs /\ t.status \in Status
    BY DEF terminalSeq, seqTerminal, seqFailed, Seqs, Terminal, Status
  <1>2. st \in Streams /\ st[1] = "accepted"
    BY DEF Good, Matches, CanTransition
  <1>3. new \in Streams
    BY <1>1, <1>2, EnqueueType DEF BuildTerminal
  <1>4. Fenced(t)
    BY DEF Good, Fenced, CanTransition, Terminal, Row
  <1>5. CASE r.status = "accepted"
    <2>1. t.launch = "launching" /\ n = 2
      BY <1>5 DEF Good, Fenced, terminalSeq, seqFailed
    <2>2. st[2] = NoReport /\ st[3] = NoReport
      BY <1>5, <2>1 DEF Good, Matches, Terminal
    <2>3. new[1] = "accepted" /\ new[2] = t.status /\ new[3] = NoReport
      BY <1>1, <1>2, <2>1, <2>2, EnqueueFree DEF BuildTerminal, Seqs
    <2> QED
      BY <1>3, <1>4, <2>1, <2>3 DEF Good, Matches, Terminal
  <1>6. CASE r.status = "running"
    <2>1. t.launch = "launched" /\ n = 3
      BY <1>6 DEF Good, Fenced, terminalSeq, seqTerminal
    <2>2. st[2] = "running" /\ st[3] = NoReport
      BY <1>6, <2>1 DEF Good, Matches, Terminal
    <2>3. new[1] = "accepted" /\ new[2] = "running" /\ new[3] = t.status
      BY <1>1, <1>2, <2>1, <2>2, EnqueueFree DEF BuildTerminal, Seqs
    <2> QED
      BY <1>3, <1>4, <2>1, <2>3 DEF Good, Matches, Terminal
  <1> QED
    BY <1>5, <1>6 DEF CanTransition
-----------------------------------------------------------------------------
(* StoreInv says that every row is good with its reports and that the send *)
(* bookkeeping is typed.                                                   *)
LEMMA StoreInvIsGood ==
    StoreInv <=> /\ row = [d \in Dispatches |-> row[d]]
                 /\ report = [d \in Dispatches |-> report[d]]
                 /\ \A d \in Dispatches : Good(row[d], report[d])
                 /\ marks \in [Dispatches -> [Seqs -> SUBSET Marks]]
                 /\ cursor \in [Dispatches -> 0 .. 3]
  BY DEF StoreInv, StoreTypeOK, LaunchFence, ReportsMatchRow, Good, Streams

(* Replacing one row and its stream by a good pair preserves StoreInv.     *)
LEMMA ReplaceInv ==
    ASSUME StoreInv, NEW d \in Dispatches, NEW r, NEW st, Good(r, st),
           row' = [row EXCEPT ![d] = r], report' = [report EXCEPT ![d] = st],
           UNCHANGED <<marks, cursor>>
    PROVE  StoreInv'
  BY StoreInvIsGood DEF StoreInv, StoreTypeOK, LaunchFence, ReportsMatchRow, Good, Streams

(* The initial state satisfies the invariant.                              *)
LEMMA StoreInitInv == StoreInit => StoreInv
  <1> SUFFICES ASSUME StoreInit PROVE StoreInv
    OBVIOUS
  <1>1. NoRow \in Row /\ Fenced(NoRow)
    BY CodeAssumption DEF NoRow, Row, Fenced, Status, LaunchState
  <1>2. Matches(NoRow, [s \in Seqs |-> NoReport])
    BY DEF NoRow, Matches, Terminal, Seqs
  <1> QED
    BY <1>1, <1>2 DEF StoreInit, StoreInv, StoreTypeOK, LaunchFence, ReportsMatchRow

(* Every transaction preserves the invariant.                              *)
LEMMA StoreNextInv == StoreInv /\ [StoreNext]_storeVars => StoreInv'
  <1> SUFFICES ASSUME StoreInv, [StoreNext]_storeVars PROVE StoreInv'
    OBVIOUS
  <1>a. \A d \in Dispatches : Good(row[d], report[d])
    BY DEF StoreInv, StoreTypeOK, LaunchFence, ReportsMatchRow, Good, Streams
  <1>0. CASE UNCHANGED storeVars
    BY <1>0 DEF storeVars, StoreInv, StoreTypeOK, LaunchFence, ReportsMatchRow
  <1>1. ASSUME NEW d \in Dispatches, NEW r \in Repos, UpsertByDispatchWithReport(d, r)
        PROVE  StoreInv'
    <2>1. CASE Exists(d)
      BY <1>1, <1>0, <2>1 DEF UpsertByDispatchWithReport
    <2>2. CASE ~Exists(d)
      <3>1. Good(NewRow(r, "launching"), Enqueue(report[d], BuildAccepted))
        BY <1>a, <2>2, InsertGood DEF Exists
      <3> QED
        BY <1>1, <2>2, <3>1, ReplaceInv DEF UpsertByDispatchWithReport, Commit, StoreInv, StoreTypeOK
    <2> QED BY <2>1, <2>2
  <1>2. ASSUME NEW d \in Dispatches, NEW r \in Repos, InsertRejectedWithReports(d, r)
        PROVE  StoreInv'
    <2>1. CASE Exists(d)
      BY <1>2, <1>0, <2>1 DEF InsertRejectedWithReports
    <2>2. CASE ~Exists(d)
      <3>1. Good(Rejected(r), Enqueue(Enqueue(report[d], BuildAccepted), BuildFailed))
        BY <1>a, <2>2, RejectGood DEF Exists
      <3> QED
        BY <1>2, <2>2, <3>1, ReplaceInv DEF InsertRejectedWithReports, Rejected, StoreInv, StoreTypeOK
    <2> QED BY <2>1, <2>2
  <1>3. ASSUME NEW d \in Dispatches, NEW c \in Codes, MarkLaunchedWithReport(d, c)
        PROVE  StoreInv'
    <2>1. Good(Launched(row[d], c), Enqueue(report[d], BuildRunning))
      BY <1>a, <1>3, LaunchGood DEF MarkLaunchedWithReport
    <2> QED
      BY <1>3, <2>1, ReplaceInv DEF MarkLaunchedWithReport, Commit, Launched, StoreInv, StoreTypeOK
  <1>4. ASSUME NEW d \in Dispatches, NEW to \in Terminal, NEW src \in {"result", "exit_only"},
               MarkTerminalWithReport(d, to, src)
        PROVE  StoreInv'
    <2> DEFINE t == [row[d] EXCEPT !.status = to, !.source = src]
    <2>1. /\ t \in Row /\ t.status = to /\ t.launch = row[d].launch /\ t.code = row[d].code
          /\ t.source # "rejected"
      BY <1>a DEF Good, Row, Status, Terminal, OutcomeSource
    <2>2. Good(t, Enqueue(report[d], BuildTerminal(t)))
      BY <1>a, <1>4, <2>1, TerminalGood DEF MarkTerminalWithReport
    <2> QED
      BY <1>4, <2>2, ReplaceInv DEF MarkTerminalWithReport, Commit, StoreInv, StoreTypeOK
  <1>5. ASSUME NEW d \in Dispatches, LaunchFailed(d)
        PROVE  StoreInv'
    <2> DEFINE t == [row[d] EXCEPT !.status = "failed"]
    <2>1. row[d].status = "accepted" /\ row[d].launch = "launching" /\ row[d].source # "rejected"
      BY <1>a, <1>5 DEF LaunchFailed, UpdateStatusWithReport, CanTransition, Good, Fenced
    <2>2. /\ t \in Row /\ t.status = "failed" /\ t.launch = row[d].launch /\ t.code = row[d].code
          /\ t.source # "rejected"
      BY <1>a, <2>1 DEF Good, Row, Status
    <2>3. BuildTerminal(t) = BuildFailed
      BY <2>1, <2>2 DEF BuildTerminal, BuildFailed, terminalSeq
    <2>4. Good(t, Enqueue(report[d], BuildFailed))
      BY <1>a, <2>1, <2>2, <2>3, TerminalGood DEF CanTransition, Terminal
    <2> QED
      BY <1>5, <2>4, ReplaceInv DEF LaunchFailed, UpdateStatusWithReport, Commit, StoreInv, StoreTypeOK
  <1>6. ASSUME NEW d \in Dispatches, NEW s \in Queued(d),
               MarkAcked(d, s) \/ MarkAttempt(d, s) \/ MarkPermanent(d, s) \/ BackoffExpires(d, s)
        PROVE  StoreInv'
    <2>1. PICK m \in SUBSET Marks : SetMarks(d, s, m)
      BY <1>6 DEF MarkAcked, MarkAttempt, MarkPermanent, BackoffExpires, StoreInv, StoreTypeOK,
          Queued, Marks
    <2>2. marks' \in [Dispatches -> [Seqs -> SUBSET Marks]]
      BY <1>6, <2>1 DEF SetMarks, Queued, StoreInv, StoreTypeOK
    <2> QED
      BY <2>1, <2>2 DEF SetMarks, StoreInv, StoreTypeOK, LaunchFence, ReportsMatchRow
  <1>7. ASSUME NEW d \in Dispatches, NEW s \in Queued(d), AdvanceCursor(d, s)
        PROVE  StoreInv'
    <2>1. cursor' \in [Dispatches -> 0 .. 3]
      BY <1>7 DEF AdvanceCursor, Queued, Seqs, StoreInv, StoreTypeOK
    <2> QED
      BY <1>7, <2>1 DEF AdvanceCursor, StoreInv, StoreTypeOK, LaunchFence, ReportsMatchRow
  <1> QED
    BY <1>0, <1>1, <1>2, <1>3, <1>4, <1>5, <1>6, <1>7 DEF StoreNext

-----------------------------------------------------------------------------
(* Type correctness of the three tables.                                   *)
THEOREM StoreTypeCorrect == StoreSpec => []StoreTypeOK
  <1>1. StoreInv => StoreTypeOK
    BY DEF StoreInv
  <1> QED
    BY <1>1, StoreInitInv, StoreNextInv, PTL DEF StoreSpec

(* In every reachable state the outbox holds exactly the reports that the  *)
(* rows' histories imply: committing a transition and its report in one    *)
(* transaction neither loses nor invents a report.                         *)
THEOREM ReportsAlwaysMatch == StoreSpec => []ReportsMatchRow
  <1>1. StoreInv => ReportsMatchRow
    BY DEF StoreInv
  <1> QED
    BY <1>1, StoreInitInv, StoreNextInv, PTL DEF StoreSpec

(* In every reachable state the status and the launch fence agree.         *)
THEOREM FenceAlwaysHolds == StoreSpec => []LaunchFence
  <1>1. StoreInv => LaunchFence
    BY DEF StoreInv
  <1> QED
    BY <1>1, StoreInitInv, StoreNextInv, PTL DEF StoreSpec

(* A decided outcome, and the reports that announce it, never change.      *)
THEOREM OutcomeIsFinal == StoreSpec => OutcomeFinal
  <1> DEFINE Final == \A d \in Dispatches :
                        IsTerminal(d) => row'[d] = row[d] /\ report'[d] = report[d]
  <1>1. StoreInv /\ [StoreNext]_storeVars => [Final]_storeVars
    <2> SUFFICES ASSUME StoreInv, StoreNext PROVE Final
      OBVIOUS
    <2> USE DEF StoreInv, StoreTypeOK
    <2>1. ASSUME NEW d \in Dispatches, NEW r \in Repos,
                 UpsertByDispatchWithReport(d, r) \/ InsertRejectedWithReports(d, r)
          PROVE  Final
      BY <2>1 DEF UpsertByDispatchWithReport, InsertRejectedWithReports, Commit, storeVars,
          Exists, IsTerminal, Terminal
    <2>2. ASSUME NEW d \in Dispatches, NEW c \in Codes, MarkLaunchedWithReport(d, c)
          PROVE  Final
      BY <2>2 DEF MarkLaunchedWithReport, Commit, IsTerminal, Terminal
    <2>3. ASSUME NEW d \in Dispatches, NEW to \in Terminal, NEW src \in {"result", "exit_only"},
                 MarkTerminalWithReport(d, to, src)
          PROVE  Final
      BY <2>3 DEF MarkTerminalWithReport, CanTransition, Commit, IsTerminal, Terminal
    <2>4. ASSUME NEW d \in Dispatches, LaunchFailed(d)
          PROVE  Final
      BY <2>4 DEF LaunchFailed, UpdateStatusWithReport, CanTransition, Commit, IsTerminal, Terminal
    <2>5. ASSUME NEW d \in Dispatches, NEW s \in Queued(d),
                 \/ MarkAcked(d, s) \/ MarkAttempt(d, s) \/ MarkPermanent(d, s)
                 \/ BackoffExpires(d, s) \/ AdvanceCursor(d, s)
          PROVE  Final
      BY <2>5 DEF MarkAcked, MarkAttempt, MarkPermanent, BackoffExpires, SetMarks, AdvanceCursor
    <2> QED
      BY <2>1, <2>2, <2>3, <2>4, <2>5 DEF StoreNext
  <1> QED
    BY <1>1, StoreInitInv, StoreNextInv, PTL DEF StoreSpec, OutcomeFinal

(* The store implements ExecutionStream: Ploom's stream of reports is      *)
(* append-only, without holes, and follows the state machine.  Each        *)
(* transition of a row is one step of the stream; bookkeeping is a stutter. *)
THEOREM StoreImplementsStream == StoreSpec => StreamSpec
  <1>1. StoreInit => Stream!Init
    BY DEF StoreInit, Stream!Init, Stream!Empty, Stream!None, Seqs, NoReport
  <1>2. StoreInv /\ [StoreNext]_storeVars => [Stream!Next]_report
    <2> SUFFICES ASSUME StoreInv, [StoreNext]_storeVars, report' # report
                 PROVE  Stream!Next
      OBVIOUS
    <2>n. Stream!None = NoReport
      BY DEF NoReport, Stream!None
    <2>0. /\ report \in [Dispatches -> Streams]
          /\ \A d \in Dispatches : Good(row[d], report[d])
      BY DEF StoreInv, StoreTypeOK, LaunchFence, ReportsMatchRow, Good, Streams
    <2>e. ASSUME NEW d \in Dispatches, ~Exists(d)
          PROVE  report[d] = Stream!Empty
      <3>1. report[d][1] = NoReport /\ report[d][2] = NoReport /\ report[d][3] = NoReport
        BY <2>0, <2>e DEF Exists, Good, Matches, Fenced, Terminal
      <3>2. \A i \in 1 .. 3 : report[d][i] = NoReport
        BY <2>0, <3>1 DEF Streams, Seqs
      <3>3. report[d] = [i \in 1 .. 3 |-> report[d][i]]
        BY <2>0 DEF Streams, Seqs
      <3> QED
        BY <2>n, <3>2, <3>3 DEF Stream!Empty
    <2>1. ASSUME NEW d \in Dispatches, NEW r \in Repos, UpsertByDispatchWithReport(d, r)
          PROVE  Stream!Next
      <3>1. ~Exists(d) /\ report' = [report EXCEPT ![d] = Enqueue(@, BuildAccepted)]
        BY <2>1 DEF UpsertByDispatchWithReport, storeVars, Commit
      <3>2. Stream!Accept(d)
        BY <2>0, <2>e, <2>n, <3>1 DEF Stream!Accept, Stream!Empty, Enqueue, BuildAccepted, seqAccepted,
            Streams, Seqs
      <3> QED
        BY <3>2 DEF Stream!Next
    <2>2. ASSUME NEW d \in Dispatches, NEW r \in Repos, InsertRejectedWithReports(d, r)
          PROVE  Stream!Next
      <3>1. /\ ~Exists(d)
            /\ report' = [report EXCEPT ![d] = Enqueue(Enqueue(@, BuildAccepted), BuildFailed)]
        BY <2>2 DEF InsertRejectedWithReports, storeVars
      <3> DEFINE one == [report[d] EXCEPT ![1] = "accepted"]
      <3>a. report[d][1] = NoReport /\ report[d][2] = NoReport /\ report[d] \in Streams
        BY <2>0, <3>1 DEF Exists, Good, Matches, Fenced, Terminal
      <3>b. /\ Enqueue(report[d], BuildAccepted) = one
            /\ one[2] = NoReport
        <4>1. Enqueue(report[d], BuildAccepted) = one
          BY <3>a DEF Enqueue, BuildAccepted, seqAccepted
        <4>2. one[2] = NoReport
          BY <3>a DEF Streams, Seqs
        <4> QED
          BY <4>1, <4>2
      <3>c. Enqueue(one, BuildFailed) = [one EXCEPT ![2] = "failed"]
        BY <3>b DEF Enqueue, BuildFailed, seqFailed
      <3>d. report' = [report EXCEPT ![d] = [one EXCEPT ![2] = "failed"]]
        BY <2>0, <3>1, <3>b, <3>c
      <3>2. Stream!Reject(d)
        BY <2>0, <2>e, <2>n, <3>1, <3>d DEF Stream!Reject, Streams, Seqs
      <3> QED
        BY <3>2 DEF Stream!Next
    <2>3. ASSUME NEW d \in Dispatches, NEW c \in Codes, MarkLaunchedWithReport(d, c)
          PROVE  Stream!Next
      <3>1. report[d][1] = "accepted" /\ report[d][2] = NoReport
        BY <2>0, <2>3 DEF MarkLaunchedWithReport, Good, Matches, Terminal
      <3>2. report' = [report EXCEPT ![d][2] = "running"]
        BY <2>0, <2>3, <3>1 DEF MarkLaunchedWithReport, Commit, Enqueue, BuildRunning, seqRunning,
            Streams, Seqs
      <3> QED
        BY <2>n, <3>1, <3>2 DEF Stream!Next, Stream!Start
    <2>4. ASSUME NEW d \in Dispatches, NEW to \in Terminal, NEW src \in {"result", "exit_only"},
                 MarkTerminalWithReport(d, to, src)
          PROVE  Stream!Next
      <3> DEFINE t == [row[d] EXCEPT !.status = to, !.source = src]
      <3>1. t.status = to /\ t.launch = row[d].launch
        BY <2>0 DEF Good, Row
      <3>2. report' = [report EXCEPT ![d] = Enqueue(@, [seq |-> terminalSeq(t), status |-> to])]
        BY <2>4, <3>1 DEF MarkTerminalWithReport, Commit, BuildTerminal
      <3>3. CASE row[d].status = "accepted"
        <4>1. report[d][1] = "accepted" /\ report[d][2] = NoReport /\ row[d].launch = "launching"
          BY <2>0, <3>3 DEF Good, Matches, Fenced, Terminal
        <4>2. to = "failed" /\ terminalSeq(t) = 2
          BY <2>4, <3>1, <3>3, <4>1 DEF MarkTerminalWithReport, CanTransition, terminalSeq, seqFailed, Terminal
        <4>3. report' = [report EXCEPT ![d][2] = "failed"]
          BY <2>0, <3>2, <4>1, <4>2 DEF Enqueue, Streams, Seqs
        <4> QED
          BY <2>n, <4>1, <4>3 DEF Stream!Next, Stream!Start
      <3>4. CASE row[d].status = "running"
        <4>1. report[d][2] = "running" /\ report[d][3] = NoReport /\ row[d].launch = "launched"
          BY <2>0, <3>4 DEF Good, Matches, Fenced, Terminal
        <4>2. terminalSeq(t) = 3
          BY <3>1, <4>1 DEF terminalSeq, seqTerminal
        <4>3. report' = [report EXCEPT ![d][3] = to]
          BY <2>0, <3>2, <4>1, <4>2 DEF Enqueue, Streams, Seqs
        <4> QED
          BY <2>n, <4>1, <4>3 DEF Stream!Next, Stream!Finish, Terminal
      <3> QED
        BY <2>4, <3>3, <3>4 DEF MarkTerminalWithReport, CanTransition
    <2>5. ASSUME NEW d \in Dispatches, LaunchFailed(d)
          PROVE  Stream!Next
      <3>1. row[d].status = "accepted" /\ row[d].launch = "launching"
        BY <2>0, <2>5 DEF LaunchFailed, UpdateStatusWithReport, CanTransition, Good, Fenced
      <3>2. report[d][1] = "accepted" /\ report[d][2] = NoReport
        BY <2>0, <3>1 DEF Good, Matches, Terminal
      <3>3. report' = [report EXCEPT ![d][2] = "failed"]
        BY <2>0, <2>5, <3>2 DEF LaunchFailed, UpdateStatusWithReport, Commit, Enqueue, BuildFailed,
            seqFailed, Streams, Seqs
      <3> QED
        BY <2>n, <3>2, <3>3 DEF Stream!Next, Stream!Start
    <2>6. ASSUME NEW d \in Dispatches, NEW s \in Queued(d),
                 \/ MarkAcked(d, s) \/ MarkAttempt(d, s) \/ MarkPermanent(d, s)
                 \/ BackoffExpires(d, s) \/ AdvanceCursor(d, s)
          PROVE  FALSE
      BY <2>6 DEF MarkAcked, MarkAttempt, MarkPermanent, BackoffExpires, SetMarks, AdvanceCursor
    <2> QED
      BY <2>1, <2>2, <2>3, <2>4, <2>5, <2>6 DEF StoreNext, storeVars
  <1> QED
    BY <1>1, <1>2, StoreInitInv, StoreNextInv, PTL DEF StoreSpec, StreamSpec, Stream!Spec
=============================================================================
