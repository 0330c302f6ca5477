--------------------------- MODULE StatuslineTest ---------------------------
(***************************************************************************)
(* The self-test of the status line: a run asks the daemon for a stream of *)
(* stage results, waits for the test event that the daemon broadcasts over *)
(* the event connection, and ends by itself after a timeout.               *)
(* Runs are numbered; each run's nonce is its number.  Elapsed times and   *)
(* error texts are left out.                                               *)
(***************************************************************************)
EXTENDS Integers, FiniteSets

CONSTANT MaxRuns

ASSUME TestAssumption == MaxRuns \in Nat

VARIABLES mountedTest,   \* panel is shown
          stages,        \* status of stages 1 to 5
          shownRunning,  \* state.running
          runningRef,    \* the run that holds the re-entrancy guard, 0 for none
          lastRun,       \* runs started so far
          work,          \* per run: request and stream
          waiting,       \* per run: what run() waits for
          stage4,        \* per run: stage4State
          subscribed,    \* runs subscribed to the bus
          sse,           \* per run: last stage the stream has reported
          ccStatus,      \* test events that have arrived, by nonce
          outlived       \* runs whose request had no response at the timeout

testVars == <<mountedTest, stages, shownRunning, runningRef, lastRun, work, waiting, stage4, subscribed, sse, ccStatus, outlived>>

Runs == 1..MaxRuns
INITIAL == [n \in 1..5 |-> "untested"]

TestInit ==
    /\ mountedTest = TRUE /\ stages = INITIAL /\ shownRunning = FALSE /\ runningRef = 0 /\ lastRun = 0
    /\ work = [r \in Runs |-> "none"] /\ waiting = [r \in Runs |-> "none"]
    /\ stage4 = [r \in Runs |-> "pending"] /\ subscribed = {}
    /\ sse = [r \in Runs |-> 0] /\ ccStatus = {} /\ outlived = {}

\* setState does nothing once the panel is gone.
Show(s) == stages' = IF mountedTest THEN s ELSE stages

\* Statuses after a failure at stage n: later ones are skipped unless passed.
failThenSkipRest(s, n) ==
    [k \in 1..5 |-> IF k = n THEN "failed" ELSE IF k > n /\ s[k] # "passed" THEN "skipped" ELSE s[k]]

Cancelled(r) == [stage4 EXCEPT ![r] = IF @ = "fired" THEN @ ELSE "cancelled"]

\* fireStage4: only the first transition out of pending or armed counts.
fireStage4(r) == [stage4 EXCEPT ![r] = IF @ = "cancelled" THEN @ ELSE "fired"]

-----------------------------------------------------------------------------
(* A run.                                                                  *)

run ==
    /\ mountedTest /\ runningRef = 0 /\ lastRun < MaxRuns
    /\ LET r == lastRun + 1
       IN /\ lastRun' = r /\ runningRef' = r /\ shownRunning' = TRUE
          /\ stages' = [INITIAL EXCEPT ![1] = "running"]
          /\ work' = [work EXCEPT ![r] = "fetch"] /\ waiting' = [waiting EXCEPT ![r] = "race"]
    /\ UNCHANGED <<mountedTest, stage4, subscribed, sse, ccStatus, outlived>>

\* Seeded fault: the subscription to the bus outlives the run.
BugEnded(r) ==
    /\ runningRef' = 0 /\ waiting' = [waiting EXCEPT ![r] = "over"]
    /\ shownRunning' = (shownRunning /\ ~mountedTest)
    /\ UNCHANGED subscribed

\* The last lines of run().
Ended(r) ==
    /\ subscribed' = subscribed \ {r}
    /\ runningRef' = 0 /\ waiting' = [waiting EXCEPT ![r] = "over"]
    /\ shownRunning' = (shownRunning /\ ~mountedTest)

\* The request and its stream are over, s4 being the final stage4State of the
\* run: the race is won by them unless the timeout has won it before.
WorkOver(r, s4) ==
    /\ work' = [work EXCEPT ![r] = "done"] /\ stage4' = s4
    /\ IF waiting[r] = "race" /\ ~(mountedTest /\ s4[r] = "armed")
       THEN Ended(r)
       ELSE /\ waiting' = [waiting EXCEPT ![r] = IF @ = "race" THEN "grace" ELSE @]
            /\ UNCHANGED <<subscribed, runningRef, shownRunning>>
    /\ UNCHANGED <<mountedTest, lastRun, sse, ccStatus, outlived>>

\* The response: a stream, or a status that fails stage 1.
Responds(r) ==
    /\ work[r] = "fetch" /\ work' = [work EXCEPT ![r] = "stream"]
    /\ UNCHANGED <<mountedTest, stages, shownRunning, runningRef, lastRun, waiting, stage4, subscribed, sse, ccStatus, outlived>>

Refused(r) ==
    /\ work[r] = "fetch"
    /\ Show(failThenSkipRest(stages, 1)) /\ WorkOver(r, Cancelled(r))

\* The event of this run may have arrived before the subscription.
Armed(s, r) == IF r \in ccStatus THEN [s EXCEPT ![4] = "passed", ![5] = "passed"] ELSE s

armNonce(r) ==
    /\ subscribed' = IF r \in ccStatus THEN subscribed \ {r} ELSE subscribed \cup {r}
    /\ stage4' = IF r \in ccStatus THEN fireStage4(r) ELSE stage4

streamRest == <<mountedTest, shownRunning, runningRef, lastRun, work, waiting, ccStatus, outlived>>

\* The init event of the stream, with the nonce; a daemon that does not know
\* it reports the nonce with stage 1.
InitEvent(r) ==
    /\ work[r] = "stream" /\ sse[r] = 0
    /\ armNonce(r) /\ Show(Armed(stages, r))
    /\ sse' = [sse EXCEPT ![r] = 1]
    /\ UNCHANGED streamRest

\* A stage of the server fails: the stream is read no further.
StageFailed(r) ==
    /\ work[r] = "stream" /\ sse[r] < 4
    /\ \E n \in 1..3 : /\ n = IF sse[r] = 0 THEN 1 ELSE sse[r]
                       /\ Show(failThenSkipRest(stages, n))
    /\ WorkOver(r, Cancelled(r))

Stage1Passed(r) ==
    /\ work[r] = "stream" /\ sse[r] \in {0, 1} /\ sse' = [sse EXCEPT ![r] = 2]
    /\ IF sse[r] = 0
       THEN armNonce(r) /\ Show([Armed(stages, r) EXCEPT ![1] = "passed", ![2] = "running"])
       ELSE Show([stages EXCEPT ![1] = "passed", ![2] = "running"]) /\ UNCHANGED <<subscribed, stage4>>
    /\ UNCHANGED streamRest

Stage2Passed(r) ==
    /\ work[r] = "stream" /\ sse[r] = 2 /\ sse' = [sse EXCEPT ![r] = 3]
    /\ Show([stages EXCEPT ![2] = "passed", ![3] = IF @ = "untested" THEN "running" ELSE @])
    /\ UNCHANGED <<streamRest, subscribed, stage4>>

Stage3Passed(r) ==
    /\ work[r] = "stream" /\ sse[r] = 3 /\ sse' = [sse EXCEPT ![r] = 4]
    /\ stage4' = [stage4 EXCEPT ![r] = IF @ = "pending" THEN "armed" ELSE @]
    /\ Show([k \in 1..5 |-> IF k = 3 THEN "passed"
                            ELSE IF k > 3 /\ stages[k] = "untested" THEN "running" ELSE stages[k]])
    /\ UNCHANGED <<streamRest, subscribed>>

\* The done event, or the end of the stream: the daemon sends either after the
\* last stage or after a failed one.
StreamDone(r) ==
    /\ work[r] = "stream" /\ sse[r] = 4
    /\ WorkOver(r, stage4) /\ UNCHANGED stages

\* The request or a read throws: run() rejects with nothing undone.
StreamBreaks(r) ==
    /\ work[r] \in {"fetch", "stream"} /\ work' = [work EXCEPT ![r] = "failed"]
    /\ waiting' = [waiting EXCEPT ![r] = IF @ = "race" THEN "rejected" ELSE @]
    /\ UNCHANGED <<mountedTest, stages, shownRunning, runningRef, lastRun, stage4, subscribed, sse, ccStatus, outlived>>

FirstPending == {n \in 1..5 : stages[n] # "passed" /\ \A k \in 1..(n - 1) : stages[k] = "passed"}

\* The timeout wins the race.  It cancels the reader; a request that has had
\* no response yet has none, and goes on.
OverallTimeout(r) ==
    /\ waiting[r] = "race"
    /\ work' = [work EXCEPT ![r] = IF @ = "stream" THEN "done" ELSE @]
    /\ outlived' = IF work[r] = "fetch" THEN outlived \cup {r} ELSE outlived
    /\ IF FirstPending = {} THEN UNCHANGED stages
       ELSE \E n \in FirstPending : Show(failThenSkipRest(stages, n))
    /\ Ended(r)
    /\ UNCHANGED <<mountedTest, lastRun, stage4, sse, ccStatus>>

GraceFired(r) ==
    /\ waiting[r] = "grace" /\ stage4[r] = "fired" /\ Ended(r)
    /\ UNCHANGED <<mountedTest, stages, lastRun, work, stage4, sse, ccStatus, outlived>>

GraceTimeout(r) ==
    /\ waiting[r] = "grace" /\ stage4[r] # "fired"
    /\ stage4' = IF mountedTest THEN Cancelled(r) ELSE stage4
    /\ Show(failThenSkipRest(stages, 4)) /\ Ended(r)
    /\ UNCHANGED <<mountedTest, lastRun, work, sse, ccStatus, outlived>>

\* The broadcast of the daemon arrives over the event connection: it is stored
\* and, while the run listens, marks stages 4 and 5.
TestEvent(r) ==
    /\ work[r] # "none" /\ r \notin ccStatus /\ ccStatus' = ccStatus \cup {r}
    /\ IF r \in subscribed /\ mountedTest
       THEN stage4' = fireStage4(r) /\ Show([stages EXCEPT ![4] = "passed", ![5] = "passed"])
       ELSE UNCHANGED <<stage4, stages>>
    /\ UNCHANGED <<mountedTest, shownRunning, runningRef, lastRun, work, waiting, subscribed, sse, outlived>>

UnmountTest ==
    /\ mountedTest /\ mountedTest' = FALSE
    /\ UNCHANGED <<stages, shownRunning, runningRef, lastRun, work, waiting, stage4, subscribed, sse, ccStatus, outlived>>

TestInput == run \/ UnmountTest

TestProgress ==
    \E r \in Runs :
        \/ Responds(r) \/ Refused(r) \/ InitEvent(r) \/ StageFailed(r)
        \/ Stage1Passed(r) \/ Stage2Passed(r) \/ Stage3Passed(r) \/ StreamDone(r) \/ StreamBreaks(r)
        \/ OverallTimeout(r) \/ GraceFired(r) \/ GraceTimeout(r) \/ TestEvent(r)

TestSpec == TestInit /\ [][TestInput \/ TestProgress]_testVars

-----------------------------------------------------------------------------
(* Properties.                                                             *)

\* The result of a run stands: once no run is under way, neither a late event
\* of the bus nor the rest of a stream changes the shown stages.  (A request
\* that was still without a response at the timeout is not stopped by it.)
FinishedRunStands == [][runningRef = 0 /\ runningRef' = 0 /\ outlived = {} => stages' = stages]_testVars

\* A stage is shown as running only while run() waits for its run, or for good
\* after its stream broke, since run() then rejects with nothing undone.  (A
\* request without a response at the timeout may start a stage again later.)
SpinnerOfRun ==
    mountedTest /\ outlived = {} /\ (\E n \in 1..5 : stages[n] = "running")
        => \E r \in Runs : waiting[r] \in {"race", "grace", "rejected"}
=============================================================================
