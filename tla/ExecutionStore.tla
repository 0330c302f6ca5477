--------------------------- MODULE ExecutionStore ---------------------------
(***************************************************************************)
(* The durable runtime store of executions: the executions table, the      *)
(* report_outbox table and the report_cursor table of one SQLite database  *)
(* (internal/module/execution: states.go, store.go, store_report.go,       *)
(* outbox.go) together with the report builders that choose a report's     *)
(* per-execution sequence number (internal/module/dispatch/consumer.go).   *)
(*                                                                         *)
(* Every operation of the store is one BEGIN IMMEDIATE transaction, so one *)
(* action.  A transaction that fails rolls back and changes nothing: it is *)
(* a stuttering step here, and the modules that use the store model what   *)
(* their caller does with the error.  The module is the store under its    *)
(* most general client; DispatchRuntime and ReportSender restrict the      *)
(* client to what the daemon really does.                                  *)
(*                                                                         *)
(* A dispatch has at most one row (dispatch_id is UNIQUE and a row is      *)
(* never deleted), so rows, reports and cursors are indexed by dispatch.   *)
(***************************************************************************)
EXTENDS Naturals

CONSTANTS
    Dispatches,     \* dispatch ids
    Repos,          \* canonical repository paths
    Codes,          \* session codes (encoded tmux session ids)
    NoRepo,         \* the repository of a dispatch that has no row
    NoCode          \* session_code NULL

ASSUME CodeAssumption == NoCode \notin Codes

VARIABLES
    row,            \* executions: the row of each dispatch
    report,         \* report_outbox: the status queued under each sequence number
    marks,          \* report_outbox: send bookkeeping of each queued report
    cursor          \* report_cursor: highest sequence number acknowledged

storeVars == <<row, report, marks, cursor>>

-----------------------------------------------------------------------------
(* States of a row and of a report (states.go).                            *)

Status == {"accepted", "running", "completed", "failed"}
Live == {"accepted", "running"}
Terminal == {"completed", "failed"}
LaunchState == {"none", "launching", "launched"}
OutcomeSource == {"result", "exit_only", "rejected"}

\* Seeded fault: a launch may be skipped.
BugSkipRunning(from, to) ==
    \/ from = "accepted" /\ to \in {"running", "completed", "failed"}
    \/ from = "running" /\ to \in {"completed", "failed"}

CanTransition(from, to) ==
    \/ from = "accepted" /\ to \in {"running", "failed"}
    \/ from = "running" /\ to \in {"completed", "failed"}

\* The three sequence numbers of a report stream.
seqAccepted == 1
seqRunning == 2
seqFailed == 2
seqTerminal == 3
Seqs == 1 .. 3

NoReport == "no report"

\* acked and permanent are columns; backoff stands for next_attempt_at > now.
Marks == {"acked", "permanent", "backoff"}

Row == [status : Status \cup {"absent"}, launch : LaunchState,
        repo : Repos \cup {NoRepo}, code : Codes \cup {NoCode},
        source : OutcomeSource \cup {"none"}]

\* A dispatch without a row.
NoRow == [status |-> "absent", launch |-> "none", repo |-> NoRepo,
          code |-> NoCode, source |-> "none"]

Exists(d) == row[d].status # "absent"
IsLive(d) == row[d].status \in Live
IsTerminal(d) == row[d].status \in Terminal

-----------------------------------------------------------------------------
(* Report builders: the sequence number and status of the report that a    *)
(* transition implies, from the row as it is after the transition.         *)

BuildAccepted == [seq |-> seqAccepted, status |-> "accepted"]
BuildRunning == [seq |-> seqRunning, status |-> "running"]
BuildFailed == [seq |-> seqFailed, status |-> "failed"]

\* Seeded fault: the terminal report is always numbered 3.
BugTerminalSeq(r) == seqTerminal

terminalSeq(r) == IF r.launch = "launched" THEN seqTerminal ELSE seqFailed

BuildTerminal(r) == [seq |-> terminalSeq(r), status |-> r.status]

\* enqueueReport: INSERT OR IGNORE under UNIQUE(execution_id, seq).  An
\* occupied sequence number silently keeps its old report.
Enqueue(stream, env) ==
    IF stream[env.seq] = NoReport
    THEN [stream EXCEPT ![env.seq] = env.status]
    ELSE stream

\* The row that upsertTx inserts.
NewRow(r, ls) == [status |-> "accepted", launch |-> ls, repo |-> r,
                  code |-> NoCode, source |-> "none"]

-----------------------------------------------------------------------------
(* Transactions on the row and its reports (store_report.go).              *)

\* transitionTx followed by emitReport: the row becomes r, and the report
\* env is queued in the same commit.
Commit(d, r, env) ==
    /\ row' = [row EXCEPT ![d] = r]
    /\ report' = [report EXCEPT ![d] = Enqueue(@, env)]
    /\ UNCHANGED <<marks, cursor>>

\* An already admitted dispatch is returned unchanged and queues nothing.
UpsertByDispatchWithReport(d, r) ==
    IF Exists(d)
    THEN UNCHANGED storeVars
    ELSE Commit(d, NewRow(r, "launching"), BuildAccepted)

\* Seeded fault: a rejection queues only its failed report.
BugRejectedQuiet(d, r) ==
    IF Exists(d)
    THEN UNCHANGED storeVars
    ELSE Commit(d, [NewRow(r, "none") EXCEPT !.status = "failed", !.source = "rejected"],
                BuildFailed)

\* The row lands terminal, with both its reports, in one transaction.
InsertRejectedWithReports(d, r) ==
    IF Exists(d)
    THEN UNCHANGED storeVars
    ELSE LET inserted == NewRow(r, "none")
             rejected == [inserted EXCEPT !.status = "failed", !.source = "rejected"]
         IN  /\ row' = [row EXCEPT ![d] = rejected]
             /\ report' = [report EXCEPT ![d] = Enqueue(Enqueue(@, BuildAccepted), BuildFailed)]
             /\ UNCHANGED <<marks, cursor>>

\* Seeded fault: the UPDATE is fenced on launch_state alone.
BugUnfencedLaunch(d, c) ==
    /\ Exists(d)
    /\ row[d].launch = "launching"
    /\ Commit(d, [row[d] EXCEPT !.launch = "launched", !.status = "running", !.code = c],
              BuildRunning)

\* Fenced on launching + accepted; the fence's other outcome is the error
\* ErrIllegalTransition, which changes nothing.
MarkLaunchedWithReport(d, c) ==
    /\ Exists(d)
    /\ row[d].launch = "launching"
    /\ row[d].status = "accepted"
    /\ Commit(d, [row[d] EXCEPT !.launch = "launched", !.status = "running", !.code = c],
              BuildRunning)

MarkTerminalWithReport(d, to, src) ==
    /\ to \in Terminal
    /\ Exists(d)
    /\ CanTransition(row[d].status, to)
    /\ LET r == [row[d] EXCEPT !.status = to, !.source = src]
       IN  Commit(d, r, BuildTerminal(r))

\* UpdateStatusWithReport as the launch failure path calls it: to failed,
\* no outcome source, with the report of a launch that never ran.
UpdateStatusWithReport(d) ==
    /\ Exists(d)
    /\ CanTransition(row[d].status, "failed")
    /\ Commit(d, [row[d] EXCEPT !.status = "failed"], BuildFailed)

-----------------------------------------------------------------------------
(* Send bookkeeping (outbox.go).                                           *)

SetMarks(d, s, m) ==
    /\ marks' = [marks EXCEPT ![d][s] = m]
    /\ UNCHANGED <<row, report, cursor>>

MarkAcked(d, s) == SetMarks(d, s, marks[d][s] \cup {"acked"})

MarkAttempt(d, s) == SetMarks(d, s, marks[d][s] \cup {"backoff"})

MarkPermanent(d, s) == SetMarks(d, s, marks[d][s] \cup {"permanent"})

\* The clock reaches next_attempt_at.
BackoffExpires(d, s) ==
    /\ "backoff" \in marks[d][s]
    /\ SetMarks(d, s, marks[d][s] \ {"backoff"})

\* Seeded fault: acknowledgements add up instead of replacing each other.
BugCursorAdds(d, s) ==
    /\ cursor' = [cursor EXCEPT ![d] = @ + s]
    /\ UNCHANGED <<row, report, marks>>

\* ON CONFLICT DO UPDATE SET ack_seq = MAX(ack_seq, excluded.ack_seq).
AdvanceCursor(d, s) ==
    /\ cursor' = [cursor EXCEPT ![d] = IF s > @ THEN s ELSE @]
    /\ UNCHANGED <<row, report, marks>>

Queued(d) == {s \in Seqs : report[d][s] # NoReport}

\* UnackedRecords and DueExecutions.
Unacked(d) == {s \in Queued(d) : marks[d][s] \cap {"acked", "permanent"} = {}}
Due(d) == \E s \in Unacked(d) : "backoff" \notin marks[d][s]

HasLiveByRepo(r) == \E d \in Dispatches : IsLive(d) /\ row[d].repo = r

-----------------------------------------------------------------------------
StoreInit ==
    /\ row = [d \in Dispatches |-> NoRow]
    /\ report = [d \in Dispatches |-> [s \in Seqs |-> NoReport]]
    /\ marks = [d \in Dispatches |-> [s \in Seqs |-> {}]]
    /\ cursor = [d \in Dispatches |-> 0]

\* The callers of UpdateStatusWithReport own a row they have inserted as
\* launching and have not marked launched, so the row is still accepted or
\* was failed by somebody else.
LaunchFailed(d) ==
    /\ Exists(d)
    /\ row[d].launch = "launching"
    /\ UpdateStatusWithReport(d)

StoreNext ==
    \E d \in Dispatches :
        \/ \E r \in Repos : UpsertByDispatchWithReport(d, r)
        \/ \E r \in Repos : InsertRejectedWithReports(d, r)
        \/ \E c \in Codes : MarkLaunchedWithReport(d, c)
        \/ \E to \in Terminal, src \in {"result", "exit_only"} : MarkTerminalWithReport(d, to, src)
        \/ LaunchFailed(d)
        \/ \E s \in Queued(d) : MarkAcked(d, s)
        \/ \E s \in Queued(d) : MarkAttempt(d, s)
        \/ \E s \in Queued(d) : MarkPermanent(d, s)
        \/ \E s \in Queued(d) : BackoffExpires(d, s)
        \/ \E s \in Queued(d) : AdvanceCursor(d, s)

StoreSpec == StoreInit /\ [][StoreNext]_storeVars

-----------------------------------------------------------------------------
StoreTypeOK ==
    /\ row \in [Dispatches -> Row]
    /\ report \in [Dispatches -> [Seqs -> Status \cup {NoReport}]]
    /\ marks \in [Dispatches -> [Seqs -> SUBSET Marks]]
    /\ cursor \in [Dispatches -> 0 .. 3]

\* The reports that the history of a row r implies.
Matches(r, stream) ==
    /\ stream[1] = IF r.status = "absent" THEN NoReport ELSE "accepted"
    /\ stream[2] = IF r.launch = "launched" THEN "running"
                   ELSE IF r.status \in Terminal THEN r.status ELSE NoReport
    /\ stream[3] = IF r.launch = "launched" /\ r.status \in Terminal
                   THEN r.status ELSE NoReport

\* The combinations of status, launch fence, code and source of a row r.
Fenced(r) ==
    /\ r.status = "absent" => r.launch = "none"
    /\ r.status = "accepted" => r.launch = "launching"
    /\ r.status \in {"running", "completed"} => r.launch = "launched"
    /\ r.launch = "launched" <=> r.code # NoCode
    /\ r.source = "rejected" => r.launch = "none" /\ r.status = "failed"

(* The outbox holds exactly the reports that the row's history implies: a  *)
(* row always has its accepted, running sits at 2 when and only when the   *)
(* launch was committed, and the terminal report rides on 3 after a        *)
(* running, on 2 without one.  So no transition's report was swallowed by  *)
(* INSERT OR IGNORE, none was left out, and Ploom's ordered projection     *)
(* never meets a hole (store_report.go:22, consumer.go:108).               *)
ReportsMatchRow == \A d \in Dispatches : Matches(row[d], report[d])

(* The launch fence and the status never disagree: an accepted row is      *)
(* launching, a running row has been launched and carries the session code *)
(* by which its exit will be found, and a row that was never launched      *)
(* cannot have completed (store_report.go:132, GetBySessionCode).          *)
LaunchFence == \A d \in Dispatches : Fenced(row[d])

(* At most one live execution per repository, however many admissions of   *)
(* the repository run at once, through crashes, redelivery, failed         *)
(* transactions and reclaims, and whoever decides rows in between: no      *)
(* second admission slips between the live check and the insert            *)
(* (admission.go:69, "There is no TOCTOU window"; store.go:151).           *)
SingleLive ==
    \A d, e \in Dispatches :
        IsLive(d) /\ IsLive(e) /\ row[d].repo = row[e].repo => d = e

(* A decided outcome is final: whoever reports a second one, the terminal  *)
(* handler, a reconcile or a launch failure, leaves the row and the three  *)
(* reports as they are (states.go:38, MarkTerminalWithReport).             *)
OutcomeFinal ==
    [][\A d \in Dispatches :
          IsTerminal(d) => row'[d] = row[d] /\ report'[d] = report[d]]_storeVars

(* The outbox implements the report stream promised to Ploom.              *)
Stream == INSTANCE ExecutionStream WITH stream <- report
StreamSpec == Stream!Spec

\* The inductive invariant of the proofs.
StoreInv == StoreTypeOK /\ LaunchFence /\ ReportsMatchRow
=============================================================================
