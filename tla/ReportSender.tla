---------------------------- MODULE ReportSender ----------------------------
(***************************************************************************)
(* The report sender (internal/module/dispatch/report.go) draining the     *)
(* durable outbox of ExecutionStore to Ploom, while the rest of the daemon *)
(* keeps committing transitions and their reports.                         *)
(*                                                                         *)
(* The sender is one goroutine: a flush takes the list of due executions   *)
(* and drains them one by one.  Each read or write of the database and     *)
(* each POST is a step of its own, so a transition, a crash of the daemon  *)
(* or a lost answer can come between any two of them.                      *)
(*                                                                         *)
(* Ploom is external, known by the client (client.go) and by the contract  *)
(* the code is written to (docs/specs/m0-contract.md, the fake server of   *)
(* report_test.go): it projects a report whose number exceeds the highest  *)
(* one seen, refuses a lifecycle report before accepted with 409           *)
(* accepted_required, and answers every other report with its ack_seq.     *)
(*                                                                         *)
(* Faults draw on a budget of MaxFaults; FaultKinds says which may occur:  *)
(*   transient  5xx, transport error or timeout; a request that timed out  *)
(*              may still reach Ploom later                                *)
(*   permanent  401, 403 or an incompatible schema version                 *)
(*   db         a write of the send bookkeeping fails (it is only logged)  *)
(*   crash      the daemon dies and restarts                               *)
(*   amnesia    Ploom loses what it knew of an execution                   *)
(*                                                                         *)
(* reconstructAccepted is not modelled: a row never lacks its accepted     *)
(* (ReportsMatchRow), so with a database written by this code the branch   *)
(* is dead.                                                                *)
(***************************************************************************)
EXTENDS ExecutionStore, FiniteSets

CONSTANTS
    FaultKinds,     \* the faults that may occur
    MaxFaults       \* bound: how many faults a behaviour may contain

ASSUME FaultAssumption ==
    /\ FaultKinds \subseteq {"transient", "permanent", "db", "crash", "amnesia"}
    /\ MaxFaults \in Nat

VARIABLES
    pc,             \* where the sender is in Flush / flushExecution / sendOne
    todo,           \* executions of this flush not drained yet
    cur,            \* the execution being drained
    ackSeq,         \* flushExecution's local copy of the cursor
    recs,           \* unacked lifecycle reports of cur still to look at
    held,           \* those that were in backoff when they were read
    req,            \* number of the report being sent
    from,           \* who called sendOne: the gate, the loop, or the resend
    answer,         \* Ploom's answer: "none", or a number, 0 for a 409
    late,           \* requests that timed out but may still reach Ploom
    projected,      \* Ploom: highest number projected, per execution
    faults          \* faults left

senderVars == <<pc, todo, cur, ackSeq, recs, held, req, from, answer>>
outside == <<late, projected, faults>>
vars == <<storeVars, senderVars, outside>>

NoAnswer == 4
LowestOf(S) == CHOOSE s \in S : \A t \in S : s <= t

\* The number of the last report of a finished execution.
LastSeq(d) == terminalSeq(row[d])

Fault(kind) ==
    /\ kind \in FaultKinds
    /\ faults > 0
    /\ faults' = faults - 1

-----------------------------------------------------------------------------
(* Flush and flushExecution.                                               *)

\* DueExecutions.
FlushStart ==
    /\ pc = "idle"
    /\ todo' = {d \in Dispatches : Due(d)}
    /\ pc' = "next"
    /\ UNCHANGED <<storeVars, outside, cur, ackSeq, recs, held, req, from, answer>>

FlushEnd ==
    /\ pc = "next"
    /\ todo = {}
    /\ pc' = "idle"
    /\ UNCHANGED <<storeVars, outside, todo, cur, ackSeq, recs, held, req, from, answer>>

\* flushExecution begins: read the cursor; below 1 the ordering gate is shut.
FlushExecution(d) ==
    /\ pc = "next"
    /\ d \in todo
    /\ todo' = todo \ {d}
    /\ cur' = d
    /\ ackSeq' = cursor[d]
    /\ pc' = IF cursor[d] < 1 THEN "gate" ELSE "scan"
    /\ UNCHANGED <<storeVars, outside, recs, held, req, from, answer>>

\* sendOne's POST leaves the daemon.
Post(s, caller) ==
    /\ req' = s
    /\ from' = caller
    /\ answer' = NoAnswer
    /\ pc' = "wait"

\* ensureAccepted(force = false): a permanent, acked or delayed accepted is
\* not sent.
Gate ==
    /\ pc = "gate"
    /\ IF marks[cur][seqAccepted] = {}
       THEN Post(seqAccepted, "gate")
       ELSE pc' = "regate" /\ UNCHANGED <<req, from, answer>>
    /\ UNCHANGED <<storeVars, outside, todo, cur, ackSeq, recs, held>>

\* Seeded fault: the gate opens after one attempt, whatever its outcome.
BugRegateOpens ==
    /\ pc = "regate"
    /\ ackSeq' = cursor[cur]
    /\ pc' = "scan"
    /\ UNCHANGED <<storeVars, outside, todo, cur, recs, held, req, from, answer>>

\* The cursor is read again: still below 1, the lifecycle reports are held.
Regate ==
    /\ pc = "regate"
    /\ ackSeq' = cursor[cur]
    /\ pc' = IF cursor[cur] < 1 THEN "next" ELSE "scan"
    /\ UNCHANGED <<storeVars, outside, todo, cur, recs, held, req, from, answer>>

\* UnackedRecords and the clock.
Scan ==
    /\ pc = "scan"
    /\ recs' = Unacked(cur) \ {seqAccepted}
    /\ held' = {s \in Unacked(cur) : "backoff" \in marks[cur][s]}
    /\ pc' = "loop"
    /\ UNCHANGED <<storeVars, outside, todo, cur, ackSeq, req, from, answer>>

LoopEnd ==
    /\ pc = "loop"
    /\ recs = {}
    /\ pc' = "next"
    /\ UNCHANGED <<storeVars, outside, todo, cur, ackSeq, recs, held, req, from, answer>>

\* Seeded fault: the comparison with the cursor is off by one.
BugStaleOffByOne ==
    /\ pc = "loop"
    /\ recs # {}
    /\ LET s == LowestOf(recs)
       IN  /\ s <= ackSeq + 1
           /\ MarkAcked(cur, s)
           /\ recs' = recs \ {s}
    /\ UNCHANGED <<outside, pc, todo, cur, ackSeq, held, req, from, answer>>

\* A report at or below the cursor is acknowledged without being sent.
LoopStale ==
    /\ pc = "loop"
    /\ recs # {}
    /\ LET s == LowestOf(recs)
       IN  /\ s <= ackSeq
           /\ MarkAcked(cur, s)
           /\ recs' = recs \ {s}
    /\ UNCHANGED <<outside, pc, todo, cur, ackSeq, held, req, from, answer>>

\* That write fails: flushExecution returns the error.
LoopStaleFails ==
    /\ pc = "loop"
    /\ recs # {}
    /\ LowestOf(recs) <= ackSeq
    /\ Fault("db")
    /\ pc' = "next"
    /\ UNCHANGED <<storeVars, late, projected, todo, cur, ackSeq, recs, held, req, from, answer>>

\* A report in backoff is passed over; the loop goes on with the next.
LoopHeld ==
    /\ pc = "loop"
    /\ recs # {}
    /\ LET s == LowestOf(recs)
       IN  /\ s > ackSeq
           /\ s \in held
           /\ recs' = recs \ {s}
    /\ UNCHANGED <<storeVars, outside, pc, todo, cur, ackSeq, held, req, from, answer>>

LoopSend ==
    /\ pc = "loop"
    /\ recs # {}
    /\ LET s == LowestOf(recs)
       IN  /\ s > ackSeq
           /\ s \notin held
           /\ Post(s, "loop")
           /\ recs' = recs \ {s}
    /\ UNCHANGED <<storeVars, outside, todo, cur, ackSeq, held>>

-----------------------------------------------------------------------------
(* Ploom (external).                                                       *)

Acceptable(d, s) == s = seqAccepted \/ projected[d] >= 1

Project(d, s) ==
    projected' = [projected EXCEPT ![d] = IF Acceptable(d, s) /\ s > @ THEN s ELSE @]

\* Ploom receives the request the sender is waiting on, and answers it.
PloomReceives ==
    /\ pc = "wait"
    /\ answer = NoAnswer
    /\ Project(cur, req)
    /\ answer' = IF Acceptable(cur, req) THEN projected'[cur] ELSE 0
    /\ pc' = "wait"
    /\ UNCHANGED <<storeVars, late, faults, todo, cur, ackSeq, recs, held, req, from>>

\* A request whose sender gave up arrives after all, or never.
PloomReceivesLate ==
    /\ \E m \in late :
          /\ late' = late \ {m}
          /\ \/ Project(m[1], m[2])
             \/ UNCHANGED projected
    /\ UNCHANGED <<storeVars, senderVars, faults>>

PloomForgets(d) ==
    /\ Fault("amnesia")
    /\ projected[d] > 0
    /\ projected' = [projected EXCEPT ![d] = 0]
    /\ UNCHANGED <<storeVars, senderVars, late>>

-----------------------------------------------------------------------------
(* sendOne after the POST.                                                 *)

\* Where the caller of sendOne goes on when the report was not projected.
Deferred == IF from = "gate" THEN "regate" ELSE "next"

\* 200: the cursor first.
Answered ==
    /\ pc = "wait"
    /\ answer \in Seqs
    /\ AdvanceCursor(cur, answer)
    /\ pc' = "ack"
    /\ UNCHANGED <<outside, todo, cur, ackSeq, recs, held, req, from, answer>>

AnsweredCursorFails ==
    /\ pc = "wait"
    /\ answer \in Seqs
    /\ Fault("db")
    /\ pc' = "ack"
    /\ UNCHANGED <<storeVars, late, projected, todo, cur, ackSeq, recs, held, req, from, answer>>

\* Seeded fault: the loop adds acknowledgements up.
BugAckAdds ==
    /\ pc' = CASE from = "gate" -> "regate" [] from = "loop" -> "loop" [] from = "force" -> "next"
    /\ ackSeq' = IF from = "loop" THEN ackSeq + answer ELSE ackSeq
    /\ UNCHANGED <<todo, cur, recs, held, req, from, answer>>

\* Then the record, and back to the caller.
AckDone ==
    /\ pc' = CASE from = "gate" -> "regate" [] from = "loop" -> "loop" [] from = "force" -> "next"
    /\ ackSeq' = IF from = "loop" /\ answer > ackSeq THEN answer ELSE ackSeq
    /\ UNCHANGED <<todo, cur, recs, held, req, from, answer>>

Acknowledge ==
    /\ pc = "ack"
    /\ IF req <= answer THEN MarkAcked(cur, req) ELSE UNCHANGED storeVars
    /\ AckDone
    /\ UNCHANGED outside

AcknowledgeFails ==
    /\ pc = "ack"
    /\ req <= answer
    /\ Fault("db")
    /\ AckDone
    /\ UNCHANGED <<storeVars, late, projected>>

\* Seeded fault: a 409 is left to the next flush, accepted is not sent again.
BugNoResend ==
    /\ pc = "wait"
    /\ answer = 0
    /\ pc' = "next"
    /\ UNCHANGED <<storeVars, outside, todo, cur, ackSeq, recs, held, req, from, answer>>

\* 409 accepted_required: ensureAccepted(force = true), then leave this
\* execution to the next flush.
AcceptedRequired ==
    /\ pc = "wait"
    /\ answer = 0
    /\ IF "permanent" \in marks[cur][seqAccepted]
       THEN pc' = "next" /\ UNCHANGED <<req, from, answer>>
       ELSE Post(seqAccepted, "force")
    /\ UNCHANGED <<storeVars, outside, todo, cur, ackSeq, recs, held>>

\* The mark cannot be written: the error is logged.
MarkFails == "db" \in FaultKinds /\ UNCHANGED storeVars

\* 5xx, transport error or timeout: backoff.  The request may be lost, may
\* have been handled, or may still be on its way.
TransientError ==
    /\ pc = "wait"
    /\ Fault("transient")
    /\ MarkAttempt(cur, req) \/ MarkFails
    /\ \/ late' = late
       \/ answer = NoAnswer /\ late' = late \cup {<<cur, req>>}
    /\ pc' = Deferred
    /\ UNCHANGED <<projected, todo, cur, ackSeq, recs, held, req, from, answer>>

\* 401, 403, or a schema version that does not match: never retried.
PermanentError ==
    /\ pc = "wait"
    /\ Fault("permanent")
    /\ MarkPermanent(cur, req) \/ MarkFails
    /\ pc' = Deferred
    /\ UNCHANGED <<late, projected, todo, cur, ackSeq, recs, held, req, from, answer>>

-----------------------------------------------------------------------------
(* The rest of the daemon, and its crashes.                                *)

\* Transitions committed by the coordinator, the terminal handler and the
\* reconciler while the sender runs.
Transition ==
    /\ \E d \in Dispatches :
          \/ \E r \in Repos : ~Exists(d) /\ UpsertByDispatchWithReport(d, r)
          \/ \E r \in Repos : ~Exists(d) /\ InsertRejectedWithReports(d, r)
          \/ \E c \in Codes : MarkLaunchedWithReport(d, c)
          \/ \E to \in Terminal : MarkTerminalWithReport(d, to, "exit_only")
          \/ LaunchFailed(d)
    /\ UNCHANGED <<senderVars, outside>>

Tick ==
    /\ \E d \in Dispatches : \E s \in Queued(d) : BackoffExpires(d, s)
    /\ UNCHANGED <<senderVars, outside>>

\* The daemon dies between two steps of the sender: all locals are lost,
\* the tables stay, a POST may have reached Ploom or may still do so.
Crash ==
    /\ Fault("crash")
    /\ pc # "idle"
    /\ pc' = "idle"
    /\ todo' = {}
    /\ late' = IF pc = "wait" /\ answer = NoAnswer THEN late \cup {<<cur, req>>} ELSE late
    /\ UNCHANGED <<storeVars, projected, cur, ackSeq, recs, held, req, from, answer>>

-----------------------------------------------------------------------------
Init ==
    /\ StoreInit
    /\ pc = "idle"
    /\ todo = {}
    /\ cur \in Dispatches
    /\ ackSeq = 0
    /\ recs = {}
    /\ held = {}
    /\ req = 1
    /\ from = "gate"
    /\ answer = NoAnswer
    /\ late = {}
    /\ projected = [d \in Dispatches |-> 0]
    /\ faults = MaxFaults

\* The steps that the sender goroutine takes by itself.
SenderStep ==
    \/ FlushStart \/ FlushEnd \/ (\E d \in Dispatches : FlushExecution(d))
    \/ Gate \/ Regate \/ Scan
    \/ LoopEnd \/ LoopStale \/ LoopHeld \/ LoopSend
    \/ Answered \/ Acknowledge \/ AcceptedRequired

FaultStep ==
    \/ LoopStaleFails \/ AnsweredCursorFails \/ AcknowledgeFails
    \/ TransientError \/ PermanentError \/ Crash
    \/ \E d \in Dispatches : PloomForgets(d)

Next == SenderStep \/ PloomReceives \/ PloomReceivesLate \/ Transition \/ Tick \/ FaultStep

(* The sender goroutine is scheduled, Ploom answers a request that reached *)
(* it, and time passes.  Nothing is assumed of the transitions or faults.  *)
Fairness == WF_vars(SenderStep) /\ WF_vars(PloomReceives) /\ WF_vars(Tick)

Spec == Init /\ [][Next]_vars /\ Fairness

-----------------------------------------------------------------------------
TypeOK ==
    /\ StoreTypeOK
    /\ pc \in {"idle", "next", "gate", "regate", "scan", "loop", "wait", "ack"}
    /\ todo \subseteq Dispatches
    /\ cur \in Dispatches
    /\ ackSeq \in 0 .. 3
    /\ recs \subseteq Seqs
    /\ held \subseteq Seqs
    /\ req \in Seqs
    /\ from \in {"gate", "loop", "force"}
    /\ answer \in 0 .. NoAnswer
    /\ late \subseteq Dispatches \X Seqs
    /\ projected \in [Dispatches -> 0 .. 3]
    /\ faults \in 0 .. MaxFaults

(* The daemon never believes more than Ploom knows: the durable cursor, the *)
(* sender's copy of it and every report given up as acknowledged, sent or   *)
(* not, are covered by what Ploom has projected (report.go:18, :324).       *)
CursorHonest ==
    /\ \A d \in Dispatches :
          /\ cursor[d] <= projected[d]
          /\ \A s \in Seqs : "acked" \in marks[d][s] => s <= projected[d]
    /\ pc \in {"scan", "loop", "wait", "ack"} => ackSeq <= projected[cur]

(* The sender's invariant: its state is well formed and CursorHonest.       *)
SenderInv == TypeOK /\ CursorHonest

(* A lifecycle report is on the wire, first time, retried or delayed, only  *)
(* when Ploom has projected accepted, so Ploom never has to answer          *)
(* accepted_required (report.go:15).                                        *)
AcceptedBeforeLifecycle ==
    /\ pc = "wait" /\ req # seqAccepted => projected[cur] >= 1
    /\ \A m \in late : m[2] # seqAccepted => projected[m[1]] >= 1

(* The stream of a finished execution drains: its last report leaves the    *)
(* outbox, through lost requests and answers, crashes, a refused running,   *)
(* and Ploom forgetting the execution half way (the 409 makes the sender    *)
(* repeat accepted), unless accepted itself was refused for good.  With     *)
(* CursorHonest: the outcome reaches Ploom (report.go:259, :340,            *)
(* consumer.go:61).                                                         *)
Drained ==
    \A d \in Dispatches :
        (IsTerminal(d) /\ LastSeq(d) \in Unacked(d))
            ~> LastSeq(d) \notin Unacked(d) \/ "permanent" \in marks[d][seqAccepted]
=============================================================================
