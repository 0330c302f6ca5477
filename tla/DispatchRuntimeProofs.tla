------------------------ MODULE DispatchRuntimeProofs ------------------------
(***************************************************************************)
(* Proofs about DispatchRuntime for any dispatches, repositories, exits    *)
(* and fault budget, and about the admission of an execution               *)
(* (RepoAdmission) for any number of calls.                                *)
(*                                                                         *)
(* BaseInv, with all faults and reclaims, gives RuntimeInv and             *)
(* TruthfulOutcome.  Its parts:                                            *)
(*   Owned  what the worker may rely on between two of its steps: between  *)
(*          the admission and the insert nobody else makes the repository  *)
(*          busy, and from the insert to the commit the row stays          *)
(*          launching, so the launch it drives is the first one            *)
(*   Coded  a session code belongs to one dispatch, and a row's code is    *)
(*          the one its own session got: the exit found by code is the     *)
(*          exit of that row's agent                                       *)
(*   Ended  a handler works on an agent that has ended, whose exit is final *)
(*                                                                         *)
(* AgentsLive, on top of it, gives OneAgentPerRepo where sessions are only *)
(* killed by the daemon and no reclaim runs beside the worker.             *)
(***************************************************************************)
EXTENDS DispatchRuntime, RepoAdmission, ExecutionStoreProofs

\* TypeOK without the tables.
WorldTypeOK ==
    /\ claim \in [Dispatches -> {"pending", "claimed", "foreign"}]
    /\ wpc \in {"idle", "next", "fetch", "accept", "insert", "session", "keys", "wait",
               "launched", "failed", "reject"}
    /\ wcur \in Dispatches
    /\ wpend \subseteq Dispatches
    /\ session \in [Dispatches -> {"none", "alive", "gone"}]
    /\ nextCode \in Nat
    /\ tcode \in [Dispatches -> Codes \cup {NoCode}]
    /\ token \in [Dispatches -> BOOLEAN]
    /\ agent \in [Dispatches -> {"none", "typed", "dialing", "running", "ended"}]
    /\ exit \in [Dispatches -> Exits \cup {NoExit, Terminated}]
    /\ link \in [Dispatches -> {"none", "up", "down"}]
    /\ frame \in [Dispatches -> BOOLEAN]
    /\ hrow \in [Dispatches -> Dispatches \cup {NoRowYet}]
    /\ rpc \in {"idle", "list", "find", "sweep", "kill", "finish"}
    /\ rlist \subseteq [d : Dispatches, launch : LaunchState]
    /\ rcur \in Dispatches
    /\ booting \in BOOLEAN
    /\ faults \in 0 .. MaxFaults
    /\ reclaims \in 0 .. MaxReclaims

Launching == {"session", "keys", "wait", "launched", "failed"}
Active == {"typed", "dialing", "running"}

Owned ==
    /\ wpc = "insert" => ~HasLiveByRepo(RepoOf[wcur])
    /\ wpc \in Launching => row[wcur].launch = "launching"
    /\ wpc = "session" => session[wcur] = "none"
    /\ wpc \in {"session", "keys"} => agent[wcur] = "none"
    /\ wpc \in {"keys", "wait", "launched"} => tcode[wcur] \in Codes
    /\ \A d \in Dispatches : ~Exists(d) => session[d] = "none" /\ agent[d] = "none"

Coded ==
    /\ \A d \in Dispatches : tcode[d] # NoCode => tcode[d] < nextCode
    /\ \A d, e \in Dispatches : tcode[d] = tcode[e] /\ tcode[d] # NoCode => d = e
    /\ \A d \in Dispatches : row[d].code # NoCode => row[d].code = tcode[d]
    /\ \A d \in Dispatches : agent[d] # "none" => tcode[d] \in Codes

Ended ==
    \A d \in Dispatches :
        /\ frame[d] \/ hrow[d] # NoRowYet => agent[d] = "ended" /\ exit[d] \in Exits
        /\ hrow[d] # NoRowYet => hrow[d] = d
        /\ row[d].status = "completed" =>
              agent[d] = "ended" /\ exit[d].code = "zero" /\ exit[d].result # "error"
        /\ row[d].source = "result" => agent[d] = "ended" /\ exit[d].result # "none"

BaseInv == StoreInv /\ WorldTypeOK /\ Owned /\ Coded /\ Ended /\ SingleLive

\* An agent that is on its way or running belongs to a live row of its own
\* repository and runs in a live session; who fails a row knows it is dead.
AgentsLive ==
    /\ \A d \in Dispatches : Exists(d) => row[d].repo = RepoOf[d]
    /\ \A d \in Dispatches : agent[d] \in Active => session[d] = "alive" /\ IsLive(d)
    /\ rpc # "idle" => wpc = "idle" /\ booting
    /\ reclaims = 0
    /\ wpc \in {"session", "keys"} => IsLive(wcur)
    /\ wpc = "failed" => agent[wcur] \notin Active
    /\ rpc = "finish" => agent[rcur] \notin Active

-----------------------------------------------------------------------------
\* The actions that leave the tables alone.
Bystander ==
    \/ Poll \/ PollDone \/ (\E d \in Dispatches : Claim(d)) \/ Fetch \/ Admit \/ NewSession \/ SendKeys
    \/ RelaySeen \/ MarkLaunchedRefused \/ WorkerError \/ RelayStep
    \/ (\E d \in Dispatches : HandleLookup(d))
    \/ ListLive \/ (\E x \in rlist : Probe(x)) \/ Kill \/ SweepDone
    \/ ReclaimStart \/ (\E d \in Dispatches : AgentExits(d)) \/ FaultStep

(* They do.                                                                *)
LEMMA BystanderKeepsStore == Bystander => UNCHANGED storeVars
  <1>1. CASE Poll \/ PollDone \/ (\E d \in Dispatches : Claim(d)) \/ Fetch \/ Admit \/ NewSession \/ SendKeys
             \/ RelaySeen \/ MarkLaunchedRefused \/ WorkerError
    BY <1>1 DEF Poll, PollDone, Claim, Fetch, Admit, NewSession, SendKeys, RelaySeen, LaunchReturns,
        MarkLaunchedRefused, WorkerError, AdmitRefused, LaunchFails, RelayTimeout
  <1>2. CASE RelayStep \/ (\E d \in Dispatches : HandleLookup(d) \/ AgentExits(d))
    BY <1>2 DEF RelayStep, RelayReadsToken, RelayConnects, AgentTerminated, RelayUnregistered,
        HandleLookup, AgentExits
  <1>3. CASE ListLive \/ (\E x \in rlist : Probe(x)) \/ Kill \/ SweepDone \/ ReclaimStart
    BY <1>3 DEF ListLive, Probe, Kill, SweepDone, ReclaimStart
  <1>4. CASE FaultStep
    BY <1>4 DEF FaultStep, FetchFails, WorkerDbFails, ListDbFails, KillFails, FinishDbFails, Crash,
        ClaimFails, OtherDaemonClaims, PloomRedelivers, KilledOutside, AgentStartFails, ConnectionLost,
        HandleDbFails
  <1> QED
    BY <1>1, <1>2, <1>3, <1>4 DEF Bystander

(* The steps of the daemon, split by what they do to the tables.           *)
LEMMA NextCases ==
    Next => Bystander \/ Insert \/ MarkLaunched \/ MarkFailed \/ Reject \/ Finish
                      \/ (\E d \in Dispatches : HandleCommit(d))
  BY DEF Next, WorkerStep, HandlerStep, ReconcileStep, Bystander

(* A row that is launching is a row.                                       *)
LEMMA LaunchingExists ==
    ASSUME StoreInv, NEW d \in Dispatches, row[d].launch = "launching"
    PROVE  Exists(d) /\ row[d].status # "running" /\ row[d].code = NoCode
  BY DEF StoreInv, StoreTypeOK, LaunchFence, Fenced, Exists, Row

(* Every step of the runtime is a transaction the store allows, or leaves  *)
(* the tables alone.                                                       *)
LEMMA RuntimeUsesStore == BaseInv /\ [Next]_vars => [StoreNext]_storeVars
  <1> SUFFICES ASSUME BaseInv, Next PROVE StoreNext \/ UNCHANGED storeVars
    BY DEF vars
  <1>t. wcur \in Dispatches /\ rcur \in Dispatches /\ RepoOf[wcur] \in Repos
    BY RuntimeAssumption DEF BaseInv, WorldTypeOK
  <1>1. CASE Bystander
    BY <1>1, BystanderKeepsStore
  <1>2. CASE Insert \/ Reject
    BY <1>2, <1>t DEF Insert, Reject, StoreNext
  <1>3. CASE MarkLaunched
    BY <1>3, <1>t DEF MarkLaunched, StoreNext, BaseInv, Owned
  <1>4. CASE MarkFailed
    BY <1>4, <1>t, LaunchingExists DEF MarkFailed, StoreNext, LaunchFailed, BaseInv, Owned, Launching
  <1>5. CASE Finish
    BY <1>5, <1>t DEF Finish, StoreNext, Terminal
  <1>6. ASSUME NEW d \in Dispatches, HandleCommit(d) PROVE StoreNext \/ UNCHANGED storeVars
    <2>1. hrow[d] \in Dispatches
      BY <1>6 DEF HandleCommit, BaseInv, WorldTypeOK
    <2>2. ClassifyOutcome(exit[d]).source \in {"result", "exit_only"}
          /\ ClassifyOutcome(exit[d]).status \in Terminal
      BY DEF ClassifyOutcome, Terminal
    <2> QED
      BY <1>6, <2>1, <2>2 DEF HandleCommit, StoreNext
  <1> QED
    BY <1>1, <1>2, <1>3, <1>4, <1>5, <1>6, NextCases

-----------------------------------------------------------------------------
\* What the row of d is after a step.
After(d, status, launch, code, source, repo) ==
    /\ row'[d].status = status
    /\ row'[d].launch = launch
    /\ row'[d].code = code
    /\ row'[d].source = source
    /\ row'[d].repo = repo

\* What a step may do to the row of d, and when.
RowStep(d) ==
    \/ row'[d] = row[d]
    \/ /\ wpc = "insert" /\ wpc' = "session" /\ d = wcur /\ wcur' = wcur /\ ~Exists(d)
       /\ After(d, "accepted", "launching", NoCode, "none", RepoOf[d])
    \/ /\ wpc = "reject" /\ wpc' = "next" /\ d = wcur /\ ~Exists(d)
       /\ After(d, "failed", "none", NoCode, "rejected", RepoOf[d])
    \/ /\ wpc = "launched" /\ wpc' = "next" /\ d = wcur /\ row[d].status = "accepted"
       /\ After(d, "running", "launched", tcode[d], row[d].source, row[d].repo)
    \/ /\ wpc = "failed" /\ wpc' = "reject" /\ d = wcur /\ IsLive(d)
       /\ After(d, "failed", row[d].launch, row[d].code, row[d].source, row[d].repo)
    \/ /\ rpc = "finish" /\ d = rcur /\ IsLive(d) /\ wpc' = wpc /\ wcur' = wcur
       /\ After(d, "failed", row[d].launch, row[d].code, "exit_only", row[d].repo)
    \/ /\ hrow[d] = d /\ hrow[d] # NoRowYet /\ IsLive(d) /\ wpc' = wpc /\ wcur' = wcur
       /\ After(d, ClassifyOutcome(exit[d]).status, row[d].launch, row[d].code,
                ClassifyOutcome(exit[d]).source, row[d].repo)

(* Every row changes in one of these ways.                                 *)
LEMMA RowSteps == BaseInv /\ [Next]_vars => \A d \in Dispatches : RowStep(d)
  <1> SUFFICES ASSUME BaseInv, [Next]_vars, NEW d \in Dispatches PROVE RowStep(d)
    OBVIOUS
  <1>t. row \in [Dispatches -> Row] /\ wcur \in Dispatches /\ rcur \in Dispatches
    BY DEF BaseInv, StoreInv, StoreTypeOK, WorldTypeOK
  <1>0. CASE UNCHANGED storeVars
    BY <1>0 DEF storeVars, RowStep
  <1>1. CASE Insert
    <2>1. CASE Exists(wcur)
      BY <1>0, <1>1, <2>1 DEF Insert, UpsertByDispatchWithReport
    <2>2. CASE ~Exists(wcur)
      <3>1. row' = [row EXCEPT ![wcur] = NewRow(RepoOf[wcur], "launching")]
        BY <1>1, <2>2 DEF Insert, UpsertByDispatchWithReport, Commit
      <3>2. CASE d = wcur
        BY <1>1, <1>t, <2>2, <3>1, <3>2 DEF Insert, OnlyWorker, RowStep, After, NewRow
      <3> QED
        BY <1>t, <3>1, <3>2 DEF RowStep
    <2> QED BY <2>1, <2>2
  <1>2. CASE Reject
    <2>1. CASE Exists(wcur)
      BY <1>0, <1>2, <2>1 DEF Reject, InsertRejectedWithReports
    <2>2. CASE ~Exists(wcur)
      <3>1. row' = [row EXCEPT ![wcur] = Rejected(RepoOf[wcur])]
        BY <1>2, <2>2 DEF Reject, InsertRejectedWithReports, Rejected
      <3>2. CASE d = wcur
        BY <1>2, <1>t, <2>2, <3>1, <3>2 DEF Reject, RowStep, After, Rejected, NewRow
      <3> QED
        BY <1>t, <3>1, <3>2 DEF RowStep
    <2> QED BY <2>1, <2>2
  <1>3. CASE MarkLaunched
    <2>1. row' = [row EXCEPT ![wcur] = Launched(row[wcur], tcode[wcur])]
      BY <1>3 DEF MarkLaunched, MarkLaunchedWithReport, Commit, Launched
    <2>2. CASE d = wcur
      <3>1. row'[d] = Launched(row[d], tcode[d])
        BY <1>t, <2>1, <2>2
      <3>2. After(d, "running", "launched", tcode[d], row[d].source, row[d].repo)
        BY <1>t, <3>1 DEF After, Launched, Row
      <3> QED
        BY <1>3, <2>2, <3>2 DEF MarkLaunched, MarkLaunchedWithReport, RowStep
    <2> QED
      BY <1>t, <2>1, <2>2 DEF RowStep
  <1>4. CASE MarkFailed
    <2>1. CASE CanTransition(row[wcur].status, "failed")
      <3>1. row' = [row EXCEPT ![wcur] = [row[wcur] EXCEPT !.status = "failed"]]
        BY <1>4, <2>1 DEF MarkFailed, UpdateStatusWithReport, Commit
      <3>2. CASE d = wcur
        <4>1. row'[d] = [row[d] EXCEPT !.status = "failed"]
          BY <1>t, <3>1, <3>2
        <4>2. After(d, "failed", row[d].launch, row[d].code, row[d].source, row[d].repo)
          BY <1>t, <4>1 DEF After, Row
        <4> QED
          BY <1>4, <2>1, <3>2, <4>2 DEF MarkFailed, RowStep, CanTransition, IsLive, Live
      <3> QED
        BY <1>t, <3>1, <3>2 DEF RowStep
    <2> QED
      BY <1>0, <1>4, <2>1 DEF MarkFailed
  <1>5. CASE Finish
    <2>1. CASE CanTransition(row[rcur].status, "failed")
      <3>1. row' = [row EXCEPT ![rcur] = [row[rcur] EXCEPT !.status = "failed", !.source = "exit_only"]]
        BY <1>5, <2>1 DEF Finish, MarkTerminalWithReport, Commit
      <3>2. CASE d = rcur
        <4>1. row'[d] = [row[d] EXCEPT !.status = "failed", !.source = "exit_only"]
          BY <1>t, <3>1, <3>2
        <4>2. After(d, "failed", row[d].launch, row[d].code, "exit_only", row[d].repo)
          BY <1>t, <4>1 DEF After, Row
        <4>3. IsLive(d)
          BY <2>1, <3>2 DEF CanTransition, IsLive, Live
        <4> QED
          BY <1>5, <3>2, <4>2, <4>3 DEF Finish, OnlyReconcile, workerVars, RowStep
      <3> QED
        BY <1>t, <3>1, <3>2 DEF RowStep
    <2> QED
      BY <1>0, <1>5, <2>1 DEF Finish
  <1>6. ASSUME NEW h \in Dispatches, HandleCommit(h) PROVE RowStep(d)
    <2> DEFINE o == ClassifyOutcome(exit[h])
    <2>1. hrow[h] = h /\ hrow[h] # NoRowYet
      BY <1>6 DEF HandleCommit, BaseInv, Ended
    <2>2. CASE CanTransition(row[h].status, o.status)
      <3>1. row' = [row EXCEPT ![h] = [row[h] EXCEPT !.status = o.status, !.source = o.source]]
        BY <1>6, <2>1, <2>2 DEF HandleCommit, MarkTerminalWithReport, Commit
      <3>2. CASE d = h
        <4>1. row'[d] = [row[d] EXCEPT !.status = o.status, !.source = o.source]
          BY <1>t, <3>1, <3>2
        <4>2. After(d, o.status, row[d].launch, row[d].code, o.source, row[d].repo)
          BY <1>t, <4>1 DEF After, Row
        <4>3. IsLive(d)
          BY <2>2, <3>2 DEF CanTransition, IsLive, Live
        <4> QED
          BY <1>6, <2>1, <3>2, <4>2, <4>3 DEF HandleCommit, workerVars, RowStep
      <3> QED
        BY <1>t, <3>1, <3>2 DEF RowStep
    <2> QED
      BY <1>0, <1>6, <2>1, <2>2 DEF HandleCommit
  <1>7. CASE UNCHANGED vars
    BY <1>0, <1>7 DEF vars
  <1> QED
    BY <1>0, <1>1, <1>2, <1>3, <1>4, <1>5, <1>6, <1>7, NextCases, BystanderKeepsStore

-----------------------------------------------------------------------------
\* What a step may do to the agent of d, and when.
AgentStep(d) ==
    \/ agent'[d] = agent[d] /\ exit'[d] = exit[d]
    \/ /\ wpc = "keys" /\ wpc' = "wait" /\ d = wcur /\ wcur' = wcur
       /\ session[d] = "alive" /\ session'[d] = "alive"
       /\ agent'[d] = "typed" /\ exit'[d] = exit[d]
    \/ agent[d] \in Active /\ agent'[d] \in Active \cup {"ended"}

\* What it may do to the session of d.
SessionStep(d) ==
    \/ session'[d] = session[d] /\ tcode'[d] = tcode[d] /\ nextCode' >= nextCode
    \/ /\ wpc = "session" /\ wpc' = "keys" /\ d = wcur /\ wcur' = wcur
       /\ session'[d] = "alive"
       /\ nextCode \in Codes /\ tcode'[d] = nextCode /\ nextCode' = nextCode + 1
    \/ /\ session[d] = "alive" /\ session'[d] = "gone" /\ tcode'[d] = tcode[d] /\ nextCode' = nextCode
       /\ agent'[d] \notin Active

\* What it may do to the frame of d and to the handler that reads it.
FrameStep(d) ==
    \/ (frame'[d] => frame[d]) /\ hrow'[d] \in {hrow[d], NoRowYet}
    \/ agent[d] = "running" /\ agent'[d] = "ended" /\ exit'[d] \in Exits /\ hrow'[d] = hrow[d]
    \/ /\ frame[d] /\ ~frame'[d]
       /\ hrow'[d] \in Dispatches /\ row[hrow'[d]].code = tcode[d]

\* What it may do to the worker's place.
PcStep ==
    \/ wpc' = wpc /\ wcur' = wcur
    \/ wpc' \in {"idle", "next", "fetch", "accept", "reject"}
    \/ wpc' = "insert" /\ wcur' = wcur /\ row' = row /\ ~HasLiveByRepo(RepoOf[wcur])
    \/ /\ wpc = "insert" /\ wpc' = "session" /\ wcur' = wcur
       /\ ~Exists(wcur) /\ row'[wcur].launch = "launching" /\ row'[wcur].status = "accepted"
    \/ wpc = "session" /\ wpc' = "keys" /\ wcur' = wcur /\ tcode'[wcur] = nextCode /\ nextCode \in Codes
    \/ wpc = "keys" /\ wpc' = "wait" /\ wcur' = wcur
    \/ wpc = "wait" /\ wpc' = "launched" /\ wcur' = wcur
    \/ /\ wpc \in {"session", "keys", "wait"} /\ wpc' = "failed" /\ wcur' = wcur
       /\ agent' = agent
       /\ wpc = "wait" => agent[wcur] = "ended" \/ "launch" \in FaultKinds

(* Sessions, agents and frames change in these ways only.                  *)
LEMMA WorldSteps ==
    BaseInv /\ [Next]_vars => \A d \in Dispatches : AgentStep(d) /\ SessionStep(d) /\ FrameStep(d)
  <1> DEFINE World == \A d \in Dispatches : AgentStep(d) /\ SessionStep(d) /\ FrameStep(d)
  <1> SUFFICES ASSUME BaseInv, [Next]_vars PROVE World
    OBVIOUS
  <1>t. WorldTypeOK
    BY DEF BaseInv
  <1> USE DEF tmuxVars, relayVars, budgets, workerVars, reconcileVars
  <1>0. CASE UNCHANGED <<tmuxVars, relayVars, hrow>>
    BY <1>0, <1>t DEF WorldTypeOK, AgentStep, SessionStep, FrameStep
  <1>1. CASE Poll \/ PollDone \/ (\E d \in Dispatches : Claim(d)) \/ Fetch \/ Admit \/ AdmitRefused \/ Insert
             \/ MarkLaunched \/ MarkLaunchedRefused \/ MarkFailed \/ Reject \/ LaunchFails \/ WorkerDbFails
             \/ FetchFails \/ (\E d \in Dispatches : ClaimFails(d) \/ OtherDaemonClaims(d) \/ PloomRedelivers(d))
    BY <1>0, <1>1 DEF Poll, PollDone, Claim, Fetch, Admit, AdmitRefused, Insert, MarkLaunched, OnlyWorker,
        MarkLaunchedRefused, MarkFailed, Reject, LaunchFails, WorkerDbFails, FetchFails, ClaimFails,
        OtherDaemonClaims, PloomRedelivers
  <1>2. CASE ListLive \/ (\E x \in rlist : Probe(x)) \/ SweepDone \/ ReclaimStart \/ Finish \/ ListDbFails
             \/ KillFails \/ FinishDbFails
    BY <1>0, <1>2 DEF ListLive, Probe, SweepDone, ReclaimStart, Finish, ListDbFails, KillFails, FinishDbFails,
        OnlyReconcile
  <1>3. CASE NewSession
    BY <1>3, <1>t DEF NewSession, WorldTypeOK, AgentStep, SessionStep, FrameStep
  <1>4. CASE SendKeys
    BY <1>4, <1>t DEF SendKeys, WorldTypeOK, AgentStep, SessionStep, FrameStep
  <1>5. CASE RelaySeen \/ RelayTimeout
    BY <1>5, <1>t DEF RelaySeen, RelayTimeout, LaunchReturns, WorldTypeOK, AgentStep, SessionStep, FrameStep
  <1>6. ASSUME NEW d \in Dispatches,
               RelayReadsToken(d) \/ RelayConnects(d) \/ AgentStartFails(d) \/ AgentTerminated(d)
        PROVE  World
    BY <1>6, <1>t DEF RelayReadsToken, RelayConnects, AgentStartFails, AgentTerminated,
        WorldTypeOK, AgentStep, SessionStep, FrameStep, Active
  <1>7. ASSUME NEW d \in Dispatches, AgentExits(d) PROVE World
    BY <1>7, <1>t DEF AgentExits, WorldTypeOK, AgentStep, SessionStep, FrameStep, Active
  <1>8. ASSUME NEW d \in Dispatches, ConnectionLost(d) \/ RelayUnregistered(d) PROVE World
    BY <1>8, <1>t DEF ConnectionLost, RelayUnregistered, WorldTypeOK, AgentStep, SessionStep, FrameStep
  <1>9. ASSUME NEW d \in Dispatches, session[d] = "alive", SessionDies(d), UNCHANGED hrow PROVE World
    BY <1>9, <1>t DEF SessionDies, WorldTypeOK, AgentStep, SessionStep, FrameStep, Active
  <1>10. ASSUME NEW d \in Dispatches, KilledOutside(d) PROVE World
    BY <1>9, <1>10 DEF KilledOutside
  <1>11. CASE Kill
    BY <1>0, <1>9, <1>11, <1>t DEF Kill, OnlyReconcile, WorldTypeOK
  <1>12. ASSUME NEW d \in Dispatches, HandleLookup(d) PROVE World
    <2>1. hrow' = hrow \/ \E t \in Dispatches : row[t].code = tcode[d] /\ hrow' = [hrow EXCEPT ![d] = t]
      BY <1>12 DEF HandleLookup
    <2>2. frame[d] /\ frame' = [frame EXCEPT ![d] = FALSE] /\ UNCHANGED <<session, nextCode, tcode, agent, exit>>
      BY <1>12 DEF HandleLookup
    <2> QED
      BY <1>t, <2>1, <2>2 DEF WorldTypeOK, AgentStep, SessionStep, FrameStep
  <1>13. ASSUME NEW d \in Dispatches, HandleCommit(d) \/ HandleDbFails(d) PROVE World
    BY <1>13, <1>t DEF HandleCommit, HandleDbFails, WorldTypeOK, AgentStep, SessionStep, FrameStep
  <1>14. CASE Crash
    BY <1>14, <1>t DEF Crash, WorldTypeOK, AgentStep, SessionStep, FrameStep
  <1>15. CASE UNCHANGED vars
    BY <1>0, <1>15 DEF vars
  <1> QED
    BY <1>1, <1>2, <1>3, <1>4, <1>5, <1>6, <1>7, <1>8, <1>10, <1>11, <1>12, <1>13, <1>14, <1>15
       DEF Next, WorkerStep, WorkerError, RelayStep, HandlerStep, ReconcileStep, FaultStep

(* The worker moves in these ways only.                                    *)
LEMMA PcSteps == BaseInv /\ [Next]_vars => PcStep
  <1> SUFFICES ASSUME BaseInv, [Next]_vars PROVE PcStep
    OBVIOUS
  <1> USE DEF workerVars, PcStep
  <1>t. WorldTypeOK
    BY DEF BaseInv
  <1>1. CASE Poll \/ PollDone \/ (\E d \in Dispatches : Claim(d) \/ ClaimFails(d)) \/ Fetch \/ FetchFails
    BY <1>1 DEF Poll, PollDone, Claim, ClaimFails, Fetch, FetchFails
  <1>2. CASE Admit
    BY <1>2 DEF Admit, OnlyWorker, storeVars
  <1>3. CASE Insert
    <2>1. ~Exists(wcur) => row' = [row EXCEPT ![wcur] = NewRow(RepoOf[wcur], "launching")]
      BY <1>3 DEF Insert, UpsertByDispatchWithReport, Commit
    <2>2. ~Exists(wcur) => row'[wcur].launch = "launching" /\ row'[wcur].status = "accepted"
      BY <1>t, <2>1 DEF NewRow, BaseInv, StoreInv, StoreTypeOK, WorldTypeOK
    <2> QED
      BY <1>3, <2>2 DEF Insert, OnlyWorker
  <1>12. CASE LaunchFails
    BY <1>12 DEF LaunchFails, OnlyWorker, relayVars
  <1>4. CASE NewSession
    BY <1>4, <1>t DEF NewSession, WorldTypeOK
  <1>5. CASE SendKeys \/ RelaySeen \/ RelayTimeout
    BY <1>5 DEF SendKeys, RelaySeen, RelayTimeout, LaunchReturns, Fault
  <1>6. CASE AdmitRefused \/ MarkLaunched \/ MarkLaunchedRefused \/ MarkFailed \/ Reject \/ WorkerDbFails
    BY <1>6 DEF AdmitRefused, MarkLaunched, MarkLaunchedRefused, MarkFailed, Reject, WorkerDbFails, OnlyWorker
  <1>7. CASE RelayStep \/ HandlerStep \/ (\E d \in Dispatches : AgentExits(d))
    BY <1>7 DEF RelayStep, RelayReadsToken, RelayConnects, AgentTerminated, RelayUnregistered, HandlerStep,
        HandleLookup, HandleCommit, AgentExits
  <1>8. CASE ReconcileStep \/ ReclaimStart \/ ListDbFails \/ KillFails \/ FinishDbFails
    BY <1>8 DEF ReconcileStep, ListLive, Probe, Kill, Finish, SweepDone, ReclaimStart, ListDbFails, KillFails,
        FinishDbFails, OnlyReconcile
  <1>9. CASE Crash
    BY <1>9 DEF Crash
  <1>10. ASSUME NEW d \in Dispatches, OtherDaemonClaims(d) \/ PloomRedelivers(d) \/ KilledOutside(d)
                \/ AgentStartFails(d) \/ ConnectionLost(d) \/ HandleDbFails(d)
         PROVE  PcStep
    BY <1>10 DEF OtherDaemonClaims, PloomRedelivers, KilledOutside, AgentStartFails, ConnectionLost, HandleDbFails
  <1>11. CASE UNCHANGED vars
    BY <1>11 DEF vars
  <1> QED
    BY <1>1, <1>2, <1>3, <1>4, <1>5, <1>6, <1>7, <1>8, <1>9, <1>10, <1>11, <1>12
       DEF Next, WorkerStep, WorkerError, FaultStep

-----------------------------------------------------------------------------
(* Initially nothing runs.                                                 *)
LEMMA BaseInit == Init => BaseInv
  <1> SUFFICES ASSUME Init PROVE BaseInv
    OBVIOUS
  <1>1. StoreInv
    BY StoreInitInv DEF Init
  <1>2. WorldTypeOK
    <2>1. /\ (CHOOSE d \in Dispatches : TRUE) \in Dispatches
          /\ MaxFaults \in 0 .. MaxFaults /\ MaxReclaims \in 0 .. MaxReclaims
      BY RuntimeAssumption
    <2> QED
      BY <2>1 DEF Init, WorldTypeOK
  <1>3. Owned /\ Coded
    BY CodeAssumption DEF Init, StoreInit, NoRow, Owned, Coded, Launching
  <1>4. Ended /\ SingleLive
    BY DEF Init, StoreInit, NoRow, Ended, SingleLive, IsLive, Live
  <1> QED
    BY <1>1, <1>2, <1>3, <1>4 DEF BaseInv

(* Every step keeps the world typed.                                       *)
LEMMA WorldTypeNext == BaseInv /\ [Next]_vars => WorldTypeOK'
  <1> SUFFICES ASSUME BaseInv, [Next]_vars PROVE WorldTypeOK'
    OBVIOUS
  <1> USE DEF BaseInv, WorldTypeOK, tmuxVars, relayVars, budgets, workerVars, reconcileVars
  <1>f. ASSUME NEW k, Fault(k) PROVE faults' \in 0 .. MaxFaults /\ reclaims' = reclaims
    BY <1>f, RuntimeAssumption DEF Fault
  <1>0. CASE UNCHANGED vars
    BY <1>0 DEF vars
  <1>1. CASE Poll \/ PollDone \/ Fetch \/ FetchFails
    BY <1>1, <1>f DEF Poll, PollDone, Fetch, FetchFails
  <1>2. ASSUME NEW d \in Dispatches, Claim(d) \/ ClaimFails(d) \/ OtherDaemonClaims(d) \/ PloomRedelivers(d)
        PROVE  WorldTypeOK'
    BY <1>2, <1>f DEF Claim, ClaimFails, OtherDaemonClaims, PloomRedelivers
  <1>3. CASE Admit \/ AdmitRefused \/ Insert \/ MarkLaunched \/ MarkLaunchedRefused \/ MarkFailed \/ Reject
    <2>1. /\ wpc' \in {"insert", "reject", "next", "session"}
          /\ OnlyWorker /\ UNCHANGED budgets
      BY <1>3 DEF Admit, AdmitRefused, Insert, MarkLaunched, MarkLaunchedRefused, MarkFailed, Reject
    <2> QED
      BY <2>1 DEF OnlyWorker
  <1>4. CASE NewSession
    BY <1>4 DEF NewSession
  <1>5. CASE SendKeys
    BY <1>5 DEF SendKeys
  <1>6. CASE LaunchFails \/ WorkerDbFails
    BY <1>6, <1>f DEF LaunchFails, WorkerDbFails, OnlyWorker
  <1>7. CASE RelaySeen \/ RelayTimeout
    BY <1>7, <1>f DEF RelaySeen, RelayTimeout, LaunchReturns
  <1>8. ASSUME NEW d \in Dispatches, RelayReadsToken(d) \/ RelayConnects(d) \/ RelayUnregistered(d)
        PROVE  WorldTypeOK'
    BY <1>8 DEF RelayReadsToken, RelayConnects, RelayUnregistered
  <1>9. ASSUME NEW d \in Dispatches, AgentStartFails(d) \/ AgentTerminated(d) \/ ConnectionLost(d)
        PROVE  WorldTypeOK'
    BY <1>9, <1>f DEF AgentStartFails, AgentTerminated, ConnectionLost
  <1>10. ASSUME NEW d \in Dispatches, AgentExits(d)
         PROVE  WorldTypeOK'
    BY <1>10 DEF AgentExits
  <1>11. ASSUME NEW d \in Dispatches, KilledOutside(d)
         PROVE  WorldTypeOK'
    BY <1>11, <1>f DEF KilledOutside, SessionDies
  <1>12. ASSUME NEW d \in Dispatches, HandleLookup(d) PROVE WorldTypeOK'
    <2>1. hrow' = hrow \/ \E t \in Dispatches : hrow' = [hrow EXCEPT ![d] = t]
      BY <1>12 DEF HandleLookup
    <2>2. hrow' \in [Dispatches -> Dispatches \cup {NoRowYet}]
      BY <2>1
    <2> QED
      BY <1>12, <2>2 DEF HandleLookup
  <1>13. ASSUME NEW d \in Dispatches, HandleCommit(d) \/ HandleDbFails(d) PROVE WorldTypeOK'
    BY <1>13, <1>f DEF HandleCommit, HandleDbFails
  <1>14. CASE ReclaimStart
    BY <1>14, RuntimeAssumption DEF ReclaimStart, OnlyReconcile
  <1>15. CASE ListLive
    <2>1. LiveFences \subseteq [d : Dispatches, launch : LaunchState]
      BY DEF LiveFences, StoreInv, StoreTypeOK, Row
    <2> QED
      BY <1>15, <2>1 DEF ListLive, OnlyReconcile
  <1>16. ASSUME NEW x \in rlist, Probe(x) PROVE WorldTypeOK'
    <2>1. rpc' \in {"sweep", "finish", "kill"}
      BY <1>16 DEF Probe
    <2> QED
      BY <1>16, <2>1 DEF Probe, OnlyReconcile
  <1>17. CASE Kill
    BY <1>17 DEF Kill, SessionDies, OnlyReconcile
  <1>18. CASE Finish \/ SweepDone
    BY <1>18 DEF Finish, SweepDone, OnlyReconcile
  <1>19. CASE ListDbFails \/ KillFails \/ FinishDbFails
    BY <1>19, <1>f DEF ListDbFails, KillFails, FinishDbFails, OnlyReconcile
  <1>20. CASE Crash
    BY <1>20, <1>f DEF Crash
  <1> QED
    BY <1>0, <1>1, <1>2, <1>3, <1>4, <1>5, <1>6, <1>7, <1>8, <1>9, <1>10, <1>11, <1>12, <1>13, <1>14,
       <1>15, <1>16, <1>17, <1>18, <1>19, <1>20
       DEF Next, WorkerStep, WorkerError, RelayStep, HandlerStep, ReconcileStep, FaultStep

(* A live row was live before the step, in the same repository, unless the *)
(* step inserted it.                                                       *)
LEMMA LiveBefore ==
    ASSUME BaseInv, [Next]_vars, NEW d \in Dispatches, IsLive(d)'
    PROVE  \/ IsLive(d) /\ row'[d].repo = row[d].repo
           \/ wpc = "insert" /\ wpc' = "session" /\ d = wcur /\ row'[d].repo = RepoOf[wcur]
  <1>1. RowStep(d)
    BY RowSteps
  <1> QED
    BY <1>1 DEF RowStep, After, IsLive, Live, ClassifyOutcome

(* What the worker relies on is not disturbed by anybody.                  *)
LEMMA OwnedNext == BaseInv /\ [Next]_vars => Owned'
  <1> SUFFICES ASSUME BaseInv, [Next]_vars PROVE Owned'
    OBVIOUS
  <1>p. PcStep
    BY PcSteps
  <1>r. \A d \in Dispatches : RowStep(d)
    BY RowSteps
  <1>w. \A d \in Dispatches : AgentStep(d) /\ SessionStep(d)
    BY WorldSteps
  <1>t. wcur \in Dispatches /\ wcur' \in Dispatches
    BY WorldTypeNext DEF BaseInv, WorldTypeOK
  <1>e. wpc \in Launching => Exists(wcur)
    BY <1>t, LaunchingExists DEF BaseInv, Owned
  <1>1. wpc' = "insert" => ~HasLiveByRepo(RepoOf[wcur])'
    <2> SUFFICES ASSUME wpc' = "insert", NEW d \in Dispatches, IsLive(d)', row'[d].repo = RepoOf[wcur']
                 PROVE  FALSE
      BY DEF HasLiveByRepo
    <2>1. wcur' = wcur /\ ~HasLiveByRepo(RepoOf[wcur])
      BY <1>p DEF PcStep, BaseInv, Owned
    <2>2. IsLive(d) /\ row[d].repo = RepoOf[wcur]
      BY <2>1, LiveBefore
    <2> QED
      BY <2>1, <2>2 DEF HasLiveByRepo
  <1>2. wpc' \in Launching => row'[wcur'].launch = "launching"
    <2>1. CASE wpc \in Launching
      BY <1>p, <1>r, <1>t, <1>e, <2>1 DEF PcStep, RowStep, After, Launching, BaseInv, Owned
    <2>2. CASE wpc \notin Launching
      BY <1>p, <2>2 DEF PcStep, Launching
    <2> QED
      BY <2>1, <2>2
  <1>3. wpc' = "session" => session'[wcur'] = "none"
    <2> SUFFICES ASSUME wpc' = "session" PROVE session'[wcur'] = "none"
      OBVIOUS
    <2>1. wcur' = wcur /\ session[wcur] = "none"
      BY <1>p, <1>t DEF PcStep, BaseInv, Owned
    <2> QED
      BY <1>t, <1>w, <2>1 DEF SessionStep
  <1>4. wpc' \in {"session", "keys"} => agent'[wcur'] = "none"
    <2> SUFFICES ASSUME wpc' \in {"session", "keys"} PROVE agent'[wcur'] = "none"
      OBVIOUS
    <2>1. wcur' = wcur /\ agent[wcur] = "none"
      BY <1>p, <1>t DEF PcStep, BaseInv, Owned
    <2> QED
      BY <1>t, <1>w, <2>1 DEF AgentStep, Active
  <1>5. wpc' \in {"keys", "wait", "launched"} => tcode'[wcur'] \in Codes
    BY <1>p, <1>t, <1>w DEF PcStep, SessionStep, BaseInv, Owned
  <1>6. \A d \in Dispatches : ~Exists(d)' => session'[d] = "none" /\ agent'[d] = "none"
    <2> SUFFICES ASSUME NEW d \in Dispatches, ~Exists(d)'
                 PROVE  session'[d] = "none" /\ agent'[d] = "none"
      OBVIOUS
    <2>1. ~Exists(d)
      BY <1>r DEF RowStep, After, Exists, ClassifyOutcome
    <2>2. session[d] = "none" /\ agent[d] = "none" /\ ~(d = wcur /\ wpc \in Launching)
      BY <1>e, <2>1 DEF BaseInv, Owned
    <2> QED
      BY <1>w, <2>2 DEF AgentStep, SessionStep, Active, Launching
  <1> QED
    BY <1>1, <1>2, <1>3, <1>4, <1>5, <1>6 DEF Owned

(* Codes stay unique, and a row's code stays the one of its session.       *)
LEMMA CodedNext == BaseInv /\ [Next]_vars => Coded'
  <1> SUFFICES ASSUME BaseInv, [Next]_vars PROVE Coded'
    OBVIOUS
  <1>r. \A d \in Dispatches : RowStep(d)
    BY RowSteps
  <1>w. \A d \in Dispatches : AgentStep(d) /\ SessionStep(d)
    BY WorldSteps
  <1>t. /\ wcur \in Dispatches /\ nextCode \in Nat
        /\ \A d \in Dispatches : tcode[d] \in Codes \cup {NoCode}
        /\ Codes \subseteq Nat /\ NoCode \notin Codes
    BY RuntimeAssumption, CodeAssumption DEF BaseInv, WorldTypeOK
  <1>1. ASSUME NEW d \in Dispatches, tcode'[d] # NoCode PROVE tcode'[d] < nextCode'
    <2>1. tcode[d] # NoCode => tcode[d] < nextCode /\ tcode[d] \in Nat
      BY <1>t DEF BaseInv, Coded
    <2>2. nextCode' \in Nat
      BY WorldTypeNext DEF WorldTypeOK
    <2> QED
      BY <1>1, <1>t, <1>w, <2>1, <2>2 DEF SessionStep
  <1>2. ASSUME NEW d \in Dispatches, NEW e \in Dispatches, tcode'[d] = tcode'[e], tcode'[d] # NoCode
        PROVE  d = e
    <2>1. ASSUME NEW x \in Dispatches, nextCode \in Codes, tcode[x] = nextCode PROVE FALSE
      BY <1>t, <2>1 DEF BaseInv, Coded
    <2> QED
      BY <1>2, <1>t, <1>w, <2>1 DEF SessionStep, BaseInv, Coded
  <1>3. ASSUME NEW d \in Dispatches, row'[d].code # NoCode PROVE row'[d].code = tcode'[d]
    <2>1. wpc = "session" /\ d = wcur => row[d].code = NoCode
      BY <1>t, LaunchingExists DEF BaseInv, Owned, Launching
    <2> QED
      BY <1>3, <1>r, <1>w, <2>1 DEF RowStep, After, SessionStep, BaseInv, Coded
  <1>4. ASSUME NEW d \in Dispatches, agent'[d] # "none" PROVE tcode'[d] \in Codes
    <2>1. tcode[d] \in Codes => tcode'[d] \in Codes
      BY <1>w DEF SessionStep
    <2>2. agent[d] # "none" \/ (wpc = "keys" /\ d = wcur)
      BY <1>4, <1>w DEF AgentStep, Active
    <2> QED
      BY <2>1, <2>2 DEF BaseInv, Owned, Coded
  <1> QED
    BY <1>1, <1>2, <1>3, <1>4 DEF Coded

(* The exit of an agent that has ended does not change.                    *)
LEMMA ExitFinal ==
    ASSUME BaseInv, [Next]_vars, NEW d \in Dispatches, agent[d] = "ended"
    PROVE  agent'[d] = "ended" /\ exit'[d] = exit[d]
  <1>1. AgentStep(d)
    BY WorldSteps
  <1> QED
    BY <1>1 DEF AgentStep, Active, BaseInv, Owned

(* A handler finds the row of the agent whose exit it was sent.            *)
LEMMA FoundByCode ==
    ASSUME BaseInv, NEW d \in Dispatches, NEW t \in Dispatches, frame[d], row[t].code = tcode[d]
    PROVE  t = d
  <1>1. tcode[d] \in Codes /\ tcode[d] # NoCode
    BY CodeAssumption DEF BaseInv, Ended, Coded
  <1>2. row[t].code = tcode[t]
    BY <1>1 DEF BaseInv, Coded
  <1> QED
    BY <1>1, <1>2 DEF BaseInv, Coded

(* A decided outcome stays that of the row's own, ended agent.             *)
LEMMA EndedNext == BaseInv /\ [Next]_vars => Ended'
  <1> SUFFICES ASSUME BaseInv, [Next]_vars, NEW d \in Dispatches
               PROVE  /\ frame'[d] \/ hrow'[d] # NoRowYet => agent'[d] = "ended" /\ exit'[d] \in Exits
                      /\ hrow'[d] # NoRowYet => hrow'[d] = d
                      /\ row'[d].status = "completed" =>
                            agent'[d] = "ended" /\ exit'[d].code = "zero" /\ exit'[d].result # "error"
                      /\ row'[d].source = "result" => agent'[d] = "ended" /\ exit'[d].result # "none"
    BY DEF Ended
  <1>r. RowStep(d)
    BY RowSteps
  <1>f. FrameStep(d)
    BY WorldSteps
  <1>x. agent[d] = "ended" => agent'[d] = "ended" /\ exit'[d] = exit[d]
    BY ExitFinal
  <1>o. /\ frame[d] \/ hrow[d] # NoRowYet => agent[d] = "ended" /\ exit[d] \in Exits
        /\ hrow[d] # NoRowYet => hrow[d] = d
        /\ row[d].status = "completed" =>
              agent[d] = "ended" /\ exit[d].code = "zero" /\ exit[d].result # "error"
        /\ row[d].source = "result" => agent[d] = "ended" /\ exit[d].result # "none"
    BY DEF BaseInv, Ended
  <1>1. frame'[d] \/ hrow'[d] # NoRowYet => agent'[d] = "ended" /\ exit'[d] \in Exits
    BY <1>f, <1>x, <1>o DEF FrameStep
  <1>2. hrow'[d] # NoRowYet => hrow'[d] = d
    BY <1>f, <1>o, FoundByCode DEF FrameStep
  <1>3. ASSUME row'[d].status = "completed"
        PROVE  agent'[d] = "ended" /\ exit'[d].code = "zero" /\ exit'[d].result # "error"
    <2>1. CASE row[d].status = "completed"
      BY <1>x, <1>o, <2>1
    <2>2. CASE row[d].status # "completed"
      <3>1. hrow[d] # NoRowYet /\ ClassifyOutcome(exit[d]).status = "completed"
        BY <1>3, <1>r, <2>2 DEF RowStep, After
      <3>2. agent[d] = "ended" /\ exit[d] \in Exits /\ exit[d].code # "nonzero" /\ exit[d].result # "error"
        BY <1>o, <3>1 DEF ClassifyOutcome
      <3>3. exit[d].code = "zero"
        BY <3>2, RuntimeAssumption
      <3> QED
        BY <1>x, <3>2, <3>3
    <2> QED
      BY <2>1, <2>2
  <1>4. ASSUME row'[d].source = "result"
        PROVE  agent'[d] = "ended" /\ exit'[d].result # "none"
    <2>1. CASE row[d].source = "result"
      BY <1>x, <1>o, <2>1
    <2>2. CASE row[d].source # "result"
      <3>1. hrow[d] # NoRowYet /\ ClassifyOutcome(exit[d]).source = "result"
        BY <1>4, <1>r, <2>2 DEF RowStep, After
      <3> QED
        BY <1>x, <1>o, <3>1 DEF ClassifyOutcome
    <2> QED
      BY <2>1, <2>2
  <1> QED
    BY <1>1, <1>2, <1>3, <1>4

(* The admission check and the insert are two steps, but only the worker   *)
(* inserts: a repository stays free between them.                          *)
LEMMA SingleLiveNext == BaseInv /\ [Next]_vars => SingleLive'
  <1> SUFFICES ASSUME BaseInv, [Next]_vars, NEW d \in Dispatches, NEW e \in Dispatches,
                      IsLive(d)', IsLive(e)', row'[d].repo = row'[e].repo
               PROVE  d = e
    BY DEF SingleLive
  <1>1. \/ IsLive(d) /\ row'[d].repo = row[d].repo
        \/ wpc = "insert" /\ d = wcur /\ row'[d].repo = RepoOf[wcur]
    BY LiveBefore
  <1>2. \/ IsLive(e) /\ row'[e].repo = row[e].repo
        \/ wpc = "insert" /\ e = wcur /\ row'[e].repo = RepoOf[wcur]
    BY LiveBefore
  <1> QED
    BY <1>1, <1>2 DEF BaseInv, SingleLive, Owned, HasLiveByRepo

(* BaseInv is inductive, with every fault and with reclaims.               *)
LEMMA BaseStep == BaseInv /\ [Next]_vars => BaseInv'
  <1>1. BaseInv /\ [Next]_vars => StoreInv'
    BY RuntimeUsesStore, StoreNextInv DEF BaseInv
  <1> QED
    BY <1>1, WorldTypeNext, OwnedNext, CodedNext, EndedNext, SingleLiveNext DEF BaseInv

-----------------------------------------------------------------------------
(* The worker, the handlers, the sweep and the faults together are a       *)
(* client the store was made for (launch.go:149, terminal.go:108,          *)
(* reconcile.go:142).                                                      *)
THEOREM RuntimeImplementsStore == Spec => StoreSpec
  <1>1. Init => StoreInit
    BY DEF Init
  <1> QED
    BY <1>1, BaseInit, BaseStep, RuntimeUsesStore, PTL DEF Spec, StoreSpec

(* In every reachable state of the runtime the state is well formed, one   *)
(* row per repository is live, and no dispatch is launched a second time   *)
(* (admission.go:69, launch.go:192).                                       *)
THEOREM RuntimeAlwaysSound == Spec => []RuntimeInv
  <1>1. BaseInv => RuntimeInv
    <2> SUFFICES ASSUME BaseInv PROVE RuntimeInv
      OBVIOUS
    <2>1. wpc \in Launching => Exists(wcur)
      BY LaunchingExists DEF BaseInv, WorldTypeOK, Owned
    <2>2. TypeOK
      BY <2>1 DEF BaseInv, StoreInv, WorldTypeOK, TypeOK, Launching
    <2>3. LaunchOnce
      BY DEF BaseInv, Owned, LaunchOnce
    <2> QED
      BY <2>2, <2>3 DEF BaseInv, RuntimeInv
  <1> QED
    BY <1>1, BaseInit, BaseStep, PTL DEF Spec

(* The outcome in a row is always the outcome of its own agent, whoever    *)
(* committed it: the handler finds its row by a session code that no other *)
(* dispatch ever had (terminal.go:30, :108).                               *)
THEOREM OutcomeAlwaysTruthful == Spec => []TruthfulOutcome
  <1>1. BaseInv => TruthfulOutcome
    BY DEF BaseInv, Ended, TruthfulOutcome
  <1> QED
    BY <1>1, BaseInit, BaseStep, PTL DEF Spec

-----------------------------------------------------------------------------
\* What a step may do to the place of the reconciler.
RpcStep ==
    \/ /\ rpc' = rpc /\ rcur' = rcur /\ booting' = booting
       /\ wpc' = wpc \/ wpc # "idle" \/ ~booting
    \/ rpc' = "list" /\ wpc' = "idle" /\ booting'
    \/ rpc' = "idle"
    \/ rpc # "idle" /\ rpc' \in {"sweep", "kill"} /\ wpc' = wpc /\ booting' = booting
    \/ /\ rpc # "idle" /\ rpc' = "finish" /\ wpc' = wpc /\ booting' = booting
       /\ session'[rcur'] # "alive" \/ "tmux" \in FaultKinds
    \/ reclaims > 0

(* The reconciler moves in these ways only; the worker does not poll while *)
(* the startup sweep runs.                                                 *)
LEMMA RpcSteps == BaseInv /\ [Next]_vars => RpcStep /\ (reclaims = 0 => reclaims' = 0)
  <1> DEFINE Goal == RpcStep /\ (reclaims = 0 => reclaims' = 0)
  <1> SUFFICES ASSUME BaseInv, [Next]_vars PROVE Goal
    OBVIOUS
  <1> USE DEF reconcileVars, workerVars, budgets
  <1>t. WorldTypeOK
    BY DEF BaseInv
  <1>0. CASE /\ UNCHANGED <<reconcileVars, reclaims>>
             /\ wpc' = wpc \/ wpc # "idle" \/ ~booting
    BY <1>0 DEF RpcStep
  <1>1. CASE Poll \/ PollDone \/ (\E d \in Dispatches : Claim(d) \/ ClaimFails(d)) \/ Fetch \/ FetchFails
    BY <1>0, <1>1 DEF Poll, PollDone, Claim, ClaimFails, Fetch, FetchFails, Fault
  <1>2. CASE Admit \/ AdmitRefused \/ Insert \/ LaunchFails \/ MarkLaunched \/ MarkLaunchedRefused
             \/ MarkFailed \/ Reject \/ WorkerDbFails
    BY <1>0, <1>2 DEF Admit, AdmitRefused, Insert, LaunchFails, MarkLaunched, MarkLaunchedRefused,
        MarkFailed, Reject, WorkerDbFails, OnlyWorker, Fault
  <1>3. CASE NewSession \/ SendKeys \/ RelaySeen \/ RelayTimeout
    BY <1>0, <1>3 DEF NewSession, SendKeys, RelaySeen, RelayTimeout, LaunchReturns, Fault
  <1>4. CASE RelayStep \/ HandlerStep \/ (\E d \in Dispatches : AgentExits(d))
    BY <1>0, <1>4 DEF RelayStep, RelayReadsToken, RelayConnects, AgentTerminated, RelayUnregistered,
        HandlerStep, HandleLookup, HandleCommit, AgentExits
  <1>5. ASSUME NEW d \in Dispatches, OtherDaemonClaims(d) \/ PloomRedelivers(d) \/ KilledOutside(d)
               \/ AgentStartFails(d) \/ ConnectionLost(d) \/ HandleDbFails(d)
        PROVE  Goal
    BY <1>0, <1>5 DEF OtherDaemonClaims, PloomRedelivers, KilledOutside, AgentStartFails, ConnectionLost,
        HandleDbFails, Fault
  <1>6. CASE Crash
    BY <1>6 DEF Crash, Fault, RpcStep
  <1>7. CASE ReclaimStart
    BY <1>7, <1>t DEF ReclaimStart, RpcStep, WorldTypeOK
  <1>8. CASE ListLive \/ ListDbFails \/ SweepDone \/ Finish \/ FinishDbFails
    BY <1>8 DEF ListLive, ListDbFails, SweepDone, Finish, FinishDbFails, OnlyReconcile, Fault, RpcStep
  <1>9. ASSUME NEW x \in rlist, Probe(x) PROVE Goal
    <2>1. /\ rpc = "sweep" /\ rcur' = x.d /\ session' = session
          /\ UNCHANGED <<wpc, booting, reclaims>>
          /\ rpc' \in {"sweep", "kill"} \/ (rpc' = "finish" /\ session[x.d] # "alive")
      BY <1>9, <1>t DEF Probe, OnlyReconcile, tmuxVars, WorldTypeOK
    <2> QED
      BY <2>1 DEF RpcStep
  <1>10. CASE Kill
    <2>1. session'[rcur'] # "alive"
      BY <1>10, <1>t DEF Kill, SessionDies, tmuxVars, WorldTypeOK
    <2> QED
      BY <1>10, <2>1 DEF Kill, OnlyReconcile, RpcStep
  <1>11. CASE KillFails
    BY <1>11 DEF KillFails, OnlyReconcile, Fault, RpcStep
  <1>12. CASE UNCHANGED vars
    BY <1>0, <1>12 DEF vars
  <1> QED
    BY <1>1, <1>2, <1>3, <1>4, <1>5, <1>6, <1>7, <1>8, <1>9, <1>10, <1>11, <1>12
       DEF Next, WorkerStep, WorkerError, ReconcileStep, FaultStep

(* Initially no agent runs.                                                *)
LEMMA AgentsInit ==
    ASSUME MaxReclaims = 0
    PROVE  Init => AgentsLive
  BY DEF Init, StoreInit, NoRow, AgentsLive, Exists, Active

(* Without kills from outside, failing launches and reclaims beside the    *)
(* worker, a row is failed only when its agent is known to be dead.        *)
LEMMA AgentsNext ==
    ASSUME "tmux" \notin FaultKinds, "launch" \notin FaultKinds
    PROVE  BaseInv /\ AgentsLive /\ [Next]_vars => AgentsLive'
  <1> SUFFICES ASSUME BaseInv, AgentsLive, [Next]_vars PROVE AgentsLive'
    OBVIOUS
  <1>p. PcStep
    BY PcSteps
  <1>q. RpcStep /\ reclaims' = 0
    BY RpcSteps DEF AgentsLive
  <1>r. \A d \in Dispatches : RowStep(d)
    BY RowSteps
  <1>w. \A d \in Dispatches : AgentStep(d) /\ SessionStep(d)
    BY WorldSteps
  <1>t. wcur \in Dispatches /\ wcur' \in Dispatches /\ rcur \in Dispatches /\ rcur' \in Dispatches
    BY WorldTypeNext DEF BaseInv, WorldTypeOK
  <1>1. ASSUME NEW d \in Dispatches, Exists(d)' PROVE row'[d].repo = RepoOf[d]
    BY <1>1, <1>r DEF RowStep, After, AgentsLive, Exists, IsLive, Live
  <1>2. ASSUME NEW d \in Dispatches, IsLive(d), agent[d] # "ended", rpc = "finish" => d # rcur,
               wpc = "failed" => d # wcur
        PROVE  IsLive(d)'
    <2>1. ~(hrow[d] = d /\ hrow[d] # NoRowYet) /\ Exists(d)
      BY <1>2 DEF BaseInv, Ended, IsLive, Live, Exists
    <2> QED
      BY <1>2, <1>r, <2>1 DEF RowStep, After, IsLive, Live
  <1>3. ASSUME NEW d \in Dispatches, agent'[d] \in Active PROVE session'[d] = "alive" /\ IsLive(d)'
    <2>1. CASE agent[d] \in Active
      <3>1. session[d] = "alive" /\ IsLive(d) /\ agent[d] # "ended"
        BY <2>1 DEF AgentsLive, Active
      <3>2. session'[d] = "alive"
        BY <1>3, <1>w, <3>1 DEF SessionStep
      <3> QED
        BY <1>2, <2>1, <3>1, <3>2 DEF AgentsLive
    <2>2. CASE agent[d] \notin Active
      <3>1. wpc = "keys" /\ d = wcur /\ session'[d] = "alive"
        BY <1>3, <1>w, <2>2 DEF AgentStep
      <3>2. IsLive(d) /\ agent[d] = "none" /\ rpc # "finish"
        BY <3>1 DEF AgentsLive, BaseInv, Owned
      <3> QED
        BY <1>2, <3>1, <3>2
    <2> QED
      BY <2>1, <2>2
  <1>4. rpc' # "idle" => wpc' = "idle" /\ booting'
    BY <1>q DEF RpcStep, AgentsLive
  <1>5. ASSUME wpc' \in {"session", "keys"} PROVE IsLive(wcur)'
    <2>1. CASE wpc = "insert"
      BY <1>5, <1>p, <2>1 DEF PcStep, IsLive, Live
    <2>2. CASE wpc # "insert"
      <3>1. wpc \in {"session", "keys"} /\ wcur' = wcur
        BY <1>5, <1>p, <2>2 DEF PcStep
      <3>2. IsLive(wcur) /\ agent[wcur] = "none" /\ rpc # "finish"
        BY <3>1 DEF AgentsLive, BaseInv, Owned
      <3>3. \A d \in Dispatches : d = wcur => IsLive(d)'
        BY <1>2, <3>1, <3>2
      <3> QED
        BY <1>t, <3>1, <3>3 DEF IsLive
    <2> QED
      BY <2>1, <2>2
  <1>6. ASSUME wpc' = "failed" PROVE agent'[wcur'] \notin Active
    <2>1. CASE wpc = "failed"
      BY <1>6, <1>p, <1>t, <1>w, <2>1 DEF PcStep, AgentStep, AgentsLive
    <2>2. CASE wpc # "failed"
      <3>1. /\ wpc \in {"session", "keys", "wait"} /\ wcur' = wcur /\ agent' = agent
            /\ wpc = "wait" => agent[wcur] = "ended"
        BY <1>6, <1>p, <2>2 DEF PcStep
      <3> QED
        BY <3>1 DEF BaseInv, Owned, Active
    <2> QED
      BY <2>1, <2>2
  <1>7. ASSUME rpc' = "finish" PROVE agent'[rcur'] \notin Active
    <2>1. CASE rpc' = rpc /\ rcur' = rcur
      BY <1>7, <1>t, <1>w, <2>1 DEF AgentStep, AgentsLive
    <2>2. CASE session'[rcur'] # "alive"
      BY <1>3, <1>t, <2>2
    <2> QED
      BY <1>7, <1>q, <2>1, <2>2 DEF RpcStep, AgentsLive
  <1> QED
    BY <1>1, <1>3, <1>4, <1>5, <1>6, <1>7, <1>q DEF AgentsLive

(* Where sessions are killed by the daemon alone, launches do not fail and *)
(* no reclaim runs beside the worker, no two agents ever run in one        *)
(* repository, through crashes of the daemon, broken connections, failed   *)
(* transactions and redelivered dispatches (reconcile.go:130).             *)
THEOREM OneAgentAlways ==
    ASSUME "tmux" \notin FaultKinds, "launch" \notin FaultKinds, MaxReclaims = 0
    PROVE  Spec => []OneAgentPerRepo
  <1>1. BaseInv /\ AgentsLive => OneAgentPerRepo
    BY DEF BaseInv, SingleLive, AgentsLive, OneAgentPerRepo, Active, IsLive, Live, Exists
  <1> QED
    BY <1>1, BaseInit, BaseStep, AgentsInit, AgentsNext, PTL DEF Spec

-----------------------------------------------------------------------------
(* Admission under the keyed mutex (RepoAdmission): SingleLive for any     *)
(* number of calls, dispatches and repositories.  It is not inductive: an  *)
(* insert keeps it only if the repository has stayed free since the live   *)
(* check, which holds because every other insert into the repository needs *)
(* the same mutex.  AdmissionInv adds that argument: MutexRight (one mutex *)
(* per repository), Exclusive (who is inside holds it) and StillFree.      *)

\* A step after which no row is live that was not live in the same
\* repository before.
NoNewLive ==
    \A d \in Dispatches :
        row'[d].status \in Live => row[d].status \in Live /\ row'[d].repo = row[d].repo

-----------------------------------------------------------------------------
(* Two calls for one repository are never both inside.                     *)
LEMMA OneInside ==
    ASSUME MutexRight, Exclusive, NEW c \in Callers, NEW e \in Callers,
           pc[c] \in Holding, pc[e] \in Holding, Repo(c) = Repo(e)
    PROVE  c = e
  BY DEF MutexRight, Exclusive, Holding

(* What the live rows decide survives a step that adds no live row.        *)
LEMMA ShrinkKeeps ==
    ASSUME NoNewLive
    PROVE  /\ SingleLive => SingleLive'
           /\ \A r : ~HasLiveByRepo(r) => ~HasLiveByRepo(r)'
  BY DEF NoNewLive, SingleLive, HasLiveByRepo, IsLive

(* A transaction on a row that is live already keeps rows typed and adds   *)
(* no live row; so does one that leaves a row decided.                     *)
LEMMA CommitShrinks ==
    ASSUME AdmissionTypeOK, NEW d \in Dispatches, NEW r \in Row, NEW env, Commit(d, r, env),
           r.status \in Live => row[d].status \in Live /\ r.repo = row[d].repo
    PROVE  NoNewLive /\ row' \in [Dispatches -> Row]
  BY DEF AdmissionTypeOK, Commit, NoNewLive

LEMMA UnchangedShrinks ==
    ASSUME AdmissionTypeOK, UNCHANGED storeVars
    PROVE  NoNewLive /\ row' \in [Dispatches -> Row]
  BY DEF AdmissionTypeOK, storeVars, NoNewLive

(* The store transactions other than the insert add no live row.           *)
LEMMA TransactionsShrink ==
    ASSUME AdmissionTypeOK, NEW d \in Dispatches,
           \/ \E code \in Codes : MarkLaunchedWithReport(d, code)
           \/ UpdateStatusWithReport(d)
           \/ \E to \in Terminal : MarkTerminalWithReport(d, to, "exit_only")
           \/ UNCHANGED storeVars
    PROVE  NoNewLive /\ row' \in [Dispatches -> Row]
  <1>1. ASSUME NEW code \in Codes, MarkLaunchedWithReport(d, code)
        PROVE  NoNewLive /\ row' \in [Dispatches -> Row]
    <2> DEFINE r == [row[d] EXCEPT !.launch = "launched", !.status = "running", !.code = code]
    <2>1. row[d] \in Row /\ row[d].status \in Live
      BY <1>1 DEF AdmissionTypeOK, MarkLaunchedWithReport, Live
    <2>2. r \in Row /\ r.repo = row[d].repo
      BY <2>1 DEF Row, Status, LaunchState
    <2> QED
      BY <1>1, <2>1, <2>2, CommitShrinks DEF MarkLaunchedWithReport
  <1>2. ASSUME UpdateStatusWithReport(d)
        PROVE  NoNewLive /\ row' \in [Dispatches -> Row]
    <2> DEFINE r == [row[d] EXCEPT !.status = "failed"]
    <2>1. r \in Row /\ r.status \notin Live
      BY DEF AdmissionTypeOK, Row, Status, Live
    <2> QED
      BY <1>2, <2>1, CommitShrinks DEF UpdateStatusWithReport
  <1>3. ASSUME NEW to \in Terminal, MarkTerminalWithReport(d, to, "exit_only")
        PROVE  NoNewLive /\ row' \in [Dispatches -> Row]
    <2> DEFINE r == [row[d] EXCEPT !.status = to, !.source = "exit_only"]
    <2>1. r \in Row /\ r.status \notin Live
      BY <1>3 DEF AdmissionTypeOK, Row, Status, Live, Terminal, OutcomeSource
    <2> QED
      BY <1>3, <2>1, CommitShrinks DEF MarkTerminalWithReport
  <1> QED
    BY <1>1, <1>2, <1>3, UnchangedShrinks

-----------------------------------------------------------------------------
(* A step of a call that has not to do with the mutex and adds no live row *)
(* keeps the invariant, if it enters the checked part only after a check.  *)
LEMMA InsideStep ==
    ASSUME AdmissionInv, NEW c \in Callers, NEW to \in Holding,
           pc[c] \in Holding, pc' = [pc EXCEPT ![c] = to],
           to \in {"snapshot", "insert"} => ~HasLiveByRepo(Repo(c)),
           NoNewLive, row' \in [Dispatches -> Row],
           UNCHANGED <<mutexOf, handle, holder>>
    PROVE  AdmissionInv'
  <1>1. AdmissionTypeOK'
    BY DEF AdmissionInv, AdmissionTypeOK
  <1>2. MutexRight'
    BY DEF AdmissionInv, AdmissionTypeOK, MutexRight, Holding, Repo
  <1>3. Exclusive'
    BY DEF AdmissionInv, AdmissionTypeOK, Exclusive
  <1>4. StillFree'
    <2> SUFFICES ASSUME NEW e \in Callers, pc'[e] \in {"snapshot", "insert"}
                 PROVE  ~HasLiveByRepo(Repo(e))'
      BY DEF StillFree
    <2>1. ~HasLiveByRepo(Repo(e))
      BY DEF AdmissionInv, AdmissionTypeOK, StillFree
    <2> QED
      BY <2>1, ShrinkKeeps DEF Repo
  <1>5. SingleLive'
    BY ShrinkKeeps DEF AdmissionInv
  <1> QED
    BY <1>1, <1>2, <1>3, <1>4, <1>5 DEF AdmissionInv

(* The insert: the repository has stayed free since the check, and no      *)
(* other call is inside.                                                   *)
LEMMA InsertStep ==
    ASSUME AdmissionInv, NEW c \in Callers, Upsert(c)
    PROVE  AdmissionInv'
  <1> DEFINE d == DispatchOf[c]
  <1>1. d \in Dispatches /\ Repo(c) \in Repos /\ pc[c] = "insert"
    BY AdmissionAssumption DEF Repo, Upsert, Goto
  <1>2. CASE Exists(d)
    <2>1. pc' = [pc EXCEPT ![c] = "unlock"] /\ UNCHANGED storeVars
      BY <1>2 DEF Upsert, Goto, UpsertByDispatchWithReport
    <2>2. NoNewLive /\ row' \in [Dispatches -> Row]
      BY <2>1, UnchangedShrinks DEF AdmissionInv
    <2> QED
      BY <1>1, <2>1, <2>2, InsideStep DEF Upsert, Holding
  <1>3. CASE ~Exists(d)
    <2> DEFINE r == NewRow(Repo(c), "launching")
    <2>1. pc' = [pc EXCEPT ![c] = "launch"] /\ row' = [row EXCEPT ![d] = r]
      BY <1>3 DEF Upsert, Goto, UpsertByDispatchWithReport, Commit
    <2>2. UNCHANGED <<mutexOf, handle, holder>>
      BY DEF Upsert
    <2>3. r \in Row /\ r.repo = Repo(c)
      BY <1>1 DEF NewRow, Row, Status, LaunchState
    <2>4. AdmissionTypeOK'
      BY <2>1, <2>2, <2>3 DEF AdmissionInv, AdmissionTypeOK, Holding
    <2>5. MutexRight'
      BY <1>1, <2>1, <2>2 DEF AdmissionInv, AdmissionTypeOK, MutexRight, Repo
    <2>6. Exclusive'
      BY <1>1, <2>1, <2>2 DEF AdmissionInv, AdmissionTypeOK, Exclusive, Holding
    <2>7. ~HasLiveByRepo(Repo(c))
      BY <1>1 DEF AdmissionInv, StillFree
    <2>8. StillFree'
      <3> SUFFICES ASSUME NEW e \in Callers, pc'[e] \in {"snapshot", "insert"}
                   PROVE  ~HasLiveByRepo(Repo(e))'
        BY DEF StillFree
      <3>1. e # c /\ pc[e] \in {"snapshot", "insert"}
        BY <2>1 DEF AdmissionInv, AdmissionTypeOK
      <3>2. Repo(e) # Repo(c)
        BY <1>1, <3>1, OneInside DEF AdmissionInv, Holding
      <3>3. ~HasLiveByRepo(Repo(e))
        BY <3>1 DEF AdmissionInv, StillFree
      <3> QED
        BY <1>1, <2>1, <2>3, <3>2, <3>3 DEF AdmissionInv, AdmissionTypeOK, HasLiveByRepo, IsLive, Repo
    <2>9. SingleLive'
      BY <1>1, <2>1, <2>3, <2>7 DEF AdmissionInv, AdmissionTypeOK, SingleLive, HasLiveByRepo, IsLive
    <2> QED
      BY <2>4, <2>5, <2>6, <2>8, <2>9 DEF AdmissionInv
  <1> QED
    BY <1>2, <1>3

(* Every step of a call keeps the invariant.                               *)
LEMMA CallStep ==
    ASSUME AdmissionInv, NEW c \in Callers, Call(c)
    PROVE  AdmissionInv'
  <1>0. Repo(c) \in Repos /\ DispatchOf[c] \in Dispatches
    BY AdmissionAssumption DEF Repo
  <1>1. CASE Lookup(c)
    <2> DEFINE m == mutexOf'[Repo(c)]
    <2>1. /\ pc[c] = "lookup" /\ pc' = [pc EXCEPT ![c] = "lock"]
          /\ mutexOf' = [mutexOf EXCEPT ![Repo(c)] = IF @ = Nobody THEN c ELSE @]
          /\ handle' = [handle EXCEPT ![c] = m]
          /\ UNCHANGED storeVars /\ UNCHANGED holder
      BY <1>1 DEF Lookup, Goto
    <2>2. m \in Callers /\ mutexOf' \in [Repos -> Callers \cup {Nobody}]
      BY <1>0, <2>1 DEF AdmissionInv, AdmissionTypeOK
    <2>3. row' = row
      BY <2>1 DEF storeVars
    <2>4. AdmissionTypeOK'
      BY <2>1, <2>2, <2>3 DEF AdmissionInv, AdmissionTypeOK
    <2>5. MutexRight'
      <3> SUFFICES ASSUME NEW e \in Callers, pc'[e] # "lookup"
                   PROVE  handle'[e] = mutexOf'[Repo(e)] /\ handle'[e] \in Callers
        BY DEF MutexRight, Repo
      <3>1. CASE e = c
        BY <2>1, <2>2, <3>1 DEF AdmissionInv, AdmissionTypeOK
      <3>2. CASE e # c
        <4>1. pc[e] # "lookup" /\ handle'[e] = handle[e]
          BY <2>1, <3>2 DEF AdmissionInv, AdmissionTypeOK
        <4>2. handle[e] = mutexOf[Repo(e)] /\ handle[e] \in Callers
          BY <4>1 DEF AdmissionInv, MutexRight
        <4>3. mutexOf'[Repo(e)] = mutexOf[Repo(e)]
          BY <1>0, <2>1, <4>2, AdmissionAssumption DEF AdmissionInv, AdmissionTypeOK, Repo
        <4> QED
          BY <4>1, <4>2, <4>3
      <3> QED
        BY <3>1, <3>2
    <2>6. Exclusive'
      BY <2>1 DEF AdmissionInv, AdmissionTypeOK, Exclusive, Holding
    <2>7. StillFree'
      BY <2>1, <2>3 DEF AdmissionInv, AdmissionTypeOK, StillFree, HasLiveByRepo, IsLive, Repo
    <2>8. SingleLive'
      BY <2>3 DEF AdmissionInv, SingleLive, IsLive
    <2> QED
      BY <2>4, <2>5, <2>6, <2>7, <2>8 DEF AdmissionInv
  <1>2. CASE Lock(c)
    <2>1. /\ pc[c] = "lock" /\ pc' = [pc EXCEPT ![c] = "check"]
          /\ holder[handle[c]] = Nobody /\ holder' = [holder EXCEPT ![handle[c]] = c]
          /\ row' = row /\ UNCHANGED <<mutexOf, handle>>
      BY <1>2 DEF Lock, Goto, storeVars
    <2>2. handle[c] \in Callers
      BY <2>1 DEF AdmissionInv, MutexRight
    <2>3. AdmissionTypeOK'
      BY <2>1, <2>2 DEF AdmissionInv, AdmissionTypeOK, Holding
    <2>4. MutexRight'
      BY <2>1 DEF AdmissionInv, AdmissionTypeOK, MutexRight, Repo
    <2>5. Exclusive'
      <3> SUFFICES ASSUME NEW e \in Callers, pc'[e] \in Holding
                   PROVE  holder'[handle[e]] = e
        BY <2>1 DEF Exclusive
      <3>1. CASE e = c
        BY <2>1, <2>2, <3>1 DEF AdmissionInv, AdmissionTypeOK
      <3>2. CASE e # c
        <4>1. holder[handle[e]] = e
          BY <2>1, <3>2 DEF AdmissionInv, AdmissionTypeOK, Exclusive
        <4>2. handle[e] # handle[c]
          BY <2>1, <4>1, AdmissionAssumption
        <4> QED
          BY <2>1, <4>1, <4>2 DEF AdmissionInv, AdmissionTypeOK
      <3> QED
        BY <3>1, <3>2
    <2>6. StillFree'
      BY <2>1 DEF AdmissionInv, AdmissionTypeOK, StillFree, HasLiveByRepo, IsLive, Repo
    <2>7. SingleLive'
      BY <2>1 DEF AdmissionInv, SingleLive, IsLive
    <2> QED
      BY <2>3, <2>4, <2>5, <2>6, <2>7 DEF AdmissionInv
  <1>3. CASE CheckFree(c) \/ CheckFails(c) \/ Snapshot(c) \/ UpsertFails(c)
    <2>1. NoNewLive /\ row' \in [Dispatches -> Row]
      BY <1>3, UnchangedShrinks DEF AdmissionInv, CheckFree, CheckFails, Snapshot, UpsertFails
    <2>2. UNCHANGED <<mutexOf, handle, holder>>
      BY <1>3 DEF CheckFree, CheckFails, Snapshot, UpsertFails
    <2>3. PICK to \in Holding :
            /\ pc[c] \in Holding /\ pc' = [pc EXCEPT ![c] = to]
            /\ to \in {"snapshot", "insert"} => ~HasLiveByRepo(Repo(c))
      BY <1>3 DEF AdmissionInv, StillFree, CheckFree, CheckFails, Snapshot, UpsertFails, Goto, Holding
    <2> QED
      BY <2>1, <2>2, <2>3, InsideStep
  <1>4. CASE Upsert(c)
    BY <1>4, InsertStep
  <1>5. CASE Launch(c)
    <2>1. NoNewLive /\ row' \in [Dispatches -> Row]
      BY <1>0, <1>5, TransactionsShrink DEF AdmissionInv, Launch
    <2>2. pc[c] = "launch" /\ pc' = [pc EXCEPT ![c] = "unlock"]
      BY <1>5 DEF Launch, Goto
    <2> QED
      BY <1>5, <2>1, <2>2, InsideStep DEF Launch, Holding
  <1>6. CASE Unlock(c)
    <2>1. /\ pc[c] = "unlock" /\ pc' = [pc EXCEPT ![c] = "done"]
          /\ holder' = [holder EXCEPT ![handle[c]] = Nobody]
          /\ row' = row /\ UNCHANGED <<mutexOf, handle>>
      BY <1>6 DEF Unlock, Goto, storeVars
    <2>2. handle[c] \in Callers /\ holder[handle[c]] = c
      BY <2>1 DEF AdmissionInv, MutexRight, Exclusive, Holding
    <2>3. AdmissionTypeOK'
      BY <2>1, <2>2 DEF AdmissionInv, AdmissionTypeOK
    <2>4. MutexRight'
      BY <2>1 DEF AdmissionInv, AdmissionTypeOK, MutexRight, Repo
    <2>5. Exclusive'
      <3> SUFFICES ASSUME NEW e \in Callers, pc'[e] \in Holding
                   PROVE  holder'[handle[e]] = e
        BY <2>1 DEF Exclusive
      <3>1. e # c /\ holder[handle[e]] = e
        BY <2>1 DEF AdmissionInv, AdmissionTypeOK, Exclusive, Holding
      <3>2. handle[e] # handle[c]
        BY <2>2, <3>1
      <3> QED
        BY <2>1, <3>1, <3>2 DEF AdmissionInv, AdmissionTypeOK
    <2>6. StillFree'
      BY <2>1 DEF AdmissionInv, AdmissionTypeOK, StillFree, HasLiveByRepo, IsLive, Repo
    <2>7. SingleLive'
      BY <2>1 DEF AdmissionInv, SingleLive, IsLive
    <2> QED
      BY <2>3, <2>4, <2>5, <2>6, <2>7 DEF AdmissionInv
  <1> QED
    BY <1>1, <1>2, <1>3, <1>4, <1>5, <1>6 DEF Call

(* A step that leaves the calls alone and adds no live row.                *)
LEMMA OutsideStep ==
    ASSUME AdmissionInv, NoNewLive, row' \in [Dispatches -> Row], UNCHANGED callVars
    PROVE  AdmissionInv'
  <1>1. UNCHANGED <<pc, mutexOf, handle, holder>>
    BY DEF callVars
  <1>2. AdmissionTypeOK' /\ MutexRight' /\ Exclusive'
    BY <1>1 DEF AdmissionInv, AdmissionTypeOK, MutexRight, Exclusive, Repo
  <1>3. StillFree'
    <2> SUFFICES ASSUME NEW e \in Callers, pc[e] \in {"snapshot", "insert"}
                 PROVE  ~HasLiveByRepo(Repo(e))'
      BY <1>1 DEF StillFree
    <2>1. ~HasLiveByRepo(Repo(e))
      BY DEF AdmissionInv, StillFree
    <2> QED
      BY <2>1, ShrinkKeeps DEF Repo
  <1>4. SingleLive'
    BY ShrinkKeeps DEF AdmissionInv
  <1> QED
    BY <1>2, <1>3, <1>4 DEF AdmissionInv

(* A rejection creates a row that was never live.                          *)
LEMMA RejectedShrinks ==
    ASSUME AdmissionInv, NEW c \in Callers, RejectCall(c)
    PROVE  NoNewLive /\ row' \in [Dispatches -> Row]
  <1> DEFINE r == [NewRow(Repo(c), "none") EXCEPT !.status = "failed", !.source = "rejected"]
  <1>1. Repo(c) \in Repos /\ DispatchOf[c] \in Dispatches
    BY AdmissionAssumption DEF Repo
  <1>2. row' = [row EXCEPT ![DispatchOf[c]] = r]
    BY DEF RejectCall, InsertRejectedWithReports
  <1>3. r \in Row /\ r.status \notin Live
    BY <1>1 DEF NewRow, Row, Status, LaunchState, OutcomeSource, Live
  <1> QED
    BY <1>1, <1>2, <1>3 DEF AdmissionInv, AdmissionTypeOK, NoNewLive

-----------------------------------------------------------------------------
LEMMA InvInit == AdmissionInit => AdmissionInv
  <1> SUFFICES ASSUME AdmissionInit PROVE AdmissionInv
    OBVIOUS
  <1>1. row \in [Dispatches -> Row]
    BY DEF AdmissionInit, StoreInit, NoRow, Row, LaunchState
  <1>2. AdmissionTypeOK
    BY <1>1 DEF AdmissionInit, AdmissionTypeOK
  <1>3. SingleLive
    BY DEF AdmissionInit, StoreInit, NoRow, SingleLive, IsLive, Live
  <1> QED
    BY <1>2, <1>3 DEF AdmissionInit, AdmissionInv, MutexRight, Exclusive, StillFree, Holding

LEMMA InvNext == AdmissionInv /\ [AdmissionNext]_admissionVars => AdmissionInv'
  <1> SUFFICES ASSUME AdmissionInv, [AdmissionNext]_admissionVars PROVE AdmissionInv'
    OBVIOUS
  <1>1. ASSUME NEW c \in Callers, Call(c) PROVE AdmissionInv'
    BY <1>1, CallStep
  <1>2. ASSUME NEW c \in Callers, RejectCall(c) PROVE AdmissionInv'
    BY <1>2, RejectedShrinks, OutsideStep DEF RejectCall
  <1>3. ASSUME NEW d \in Dispatches, Decided(d) PROVE AdmissionInv'
    BY <1>3, TransactionsShrink, OutsideStep DEF Decided, AdmissionInv
  <1>4. CASE UNCHANGED admissionVars
    <2>1. UNCHANGED storeVars /\ UNCHANGED callVars
      BY <1>4 DEF admissionVars
    <2> QED
      BY <2>1, UnchangedShrinks, OutsideStep DEF AdmissionInv
  <1> QED
    BY <1>1, <1>2, <1>3, <1>4 DEF AdmissionNext

(* AdmissionInv is an invariant of every behaviour.                        *)
THEOREM AdmissionCorrect == AdmissionSpec => []AdmissionInv
  BY InvInit, InvNext, PTL DEF AdmissionSpec

(* The single-live rule of admission.go:69: at most one live execution per *)
(* repository, for any number of concurrent admissions.                    *)
THEOREM SingleLiveHolds == AdmissionSpec => []SingleLive
  <1>1. AdmissionInv => SingleLive
    BY DEF AdmissionInv
  <1> QED
    BY <1>1, AdmissionCorrect, PTL
=============================================================================
