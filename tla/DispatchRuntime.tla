--------------------------- MODULE DispatchRuntime ---------------------------
(***************************************************************************)
(* The dispatch runtime: the poll/claim/fetch worker (dispatch/worker.go), *)
(* the launch durable cut (execution/launch.go, admission.go, launcher.go), *)
(* the process-exit seam (execution/terminal.go, dispatch/module.go), the  *)
(* startup reconcile and the manual reclaim (execution/reconcile.go,       *)
(* reclaim.go), over the durable tables of ExecutionStore, and the world   *)
(* they act on: Ploom's dispatch list, tmux sessions, and the relay that   *)
(* runs the agent inside a session (relay/relay.go).                       *)
(*                                                                         *)
(* Processes that interleave: the one worker goroutine, one reader         *)
(* goroutine per connected relay (it runs the terminal handler), the HTTP  *)
(* handler of a reclaim, tmux, relays and agents.  Every store             *)
(* transaction, tmux command, HTTP call and poll is a step of its own.     *)
(*                                                                         *)
(* A session is named after its execution, so sessions are indexed by      *)
(* dispatch.  There is one worker and it calls Accept for one dispatch at  *)
(* a time, so the per-repository lock is never contended here;             *)
(* RepoAdmission models it with concurrent callers.                        *)
(*                                                                         *)
(* FaultKinds, within a budget of MaxFaults:                               *)
(*   crash      the daemon dies and is restarted                           *)
(*   db         a transaction fails (it rolls back, the error is handled)  *)
(*   ploom      a claim is refused, or its answer or a fetch is lost       *)
(*   launch     creating the session or typing the command fails, the      *)
(*              relay does not connect in time or cannot start the agent   *)
(*   tmux       a session is killed from outside, or a kill fails          *)
(*   relay      the connection of a relay to the daemon breaks             *)
(***************************************************************************)
EXTENDS ExecutionStore, FiniteSets

CONSTANTS
    RepoOf,         \* the repository each dispatch asks for
    Exits,          \* how an agent may end: exit code and captured result
    FaultKinds,     \* the faults that may occur
    MaxFaults,      \* bound: faults per behaviour
    MaxReclaims     \* bound: reclaim requests per behaviour

ASSUME RuntimeAssumption ==
    /\ Dispatches # {}
    /\ RepoOf \in [Dispatches -> Repos]
    /\ Exits \subseteq [code : {"zero", "nonzero"}, result : {"none", "ok", "error"}]
    /\ FaultKinds \subseteq {"crash", "db", "ploom", "launch", "tmux", "relay"}
    /\ MaxFaults \in Nat
    /\ MaxReclaims \in Nat
    /\ Codes \subseteq Nat

VARIABLES
    claim,          \* Ploom: pending, claimed, or claimed by another daemon
    wpc,            \* where the worker is
    wcur,           \* the dispatch it works on
    wpend,          \* rest of the polled list
    session,        \* tmux: none, alive or gone, by session name
    nextCode,       \* tmux: id of the next session
    tcode,          \* code of a session, NoCode before it is created
    token,          \* the token file of a launch exists
    agent,          \* the relay and its subprocess inside the session
    exit,           \* how the subprocess ended
    link,           \* the relay's registration in the bridge
    frame,          \* a terminal frame waits to be read from the relay
    hrow,           \* terminal handler: the row it resolved, none when idle
    rpc,            \* where the reconciler is
    rlist,          \* its list of live rows, with the fence as it was read
    rcur,           \* the row it works on
    booting,        \* the startup sweep has not finished
    faults,         \* faults left
    reclaims        \* reclaim requests left

workerVars == <<wpc, wcur, wpend>>
tmuxVars == <<session, nextCode, tcode>>
relayVars == <<token, agent, exit, link, frame>>
reconcileVars == <<rpc, rlist, rcur, booting>>
budgets == <<faults, reclaims>>
vars == <<storeVars, claim, workerVars, tmuxVars, relayVars, hrow, reconcileVars, budgets>>

Fault(kind) ==
    /\ kind \in FaultKinds
    /\ faults > 0
    /\ faults' = faults - 1
    /\ UNCHANGED reclaims

NoRowYet == "none"          \* hrow: no handler is running
NoExit == [code |-> "none", result |-> "none"]

-----------------------------------------------------------------------------
(* Worker: poll, claim, fetch (worker.go).                                 *)

\* RunOnce: PollPending returns the dispatches pending at that moment.
Poll ==
    /\ wpc = "idle"
    /\ ~booting
    /\ wpend' = {d \in Dispatches : claim[d] = "pending"}
    /\ wpend' # {}
    /\ wpc' = "next"
    /\ UNCHANGED <<storeVars, claim, wcur, tmuxVars, relayVars, hrow, reconcileVars, budgets>>

PollDone ==
    /\ wpc = "next"
    /\ wpend = {}
    /\ wpc' = "idle"
    /\ UNCHANGED <<storeVars, claim, wcur, wpend, tmuxVars, relayVars, hrow, reconcileVars, budgets>>

\* processPending: a dispatch that is no longer pending is skipped.
Claim(d) ==
    /\ wpc = "next"
    /\ d \in wpend
    /\ wpend' = wpend \ {d}
    /\ wcur' = d
    /\ IF claim[d] = "pending"
       THEN claim' = [claim EXCEPT ![d] = "claimed"] /\ wpc' = "fetch"
       ELSE UNCHANGED claim /\ wpc' = "next"
    /\ UNCHANGED <<storeVars, tmuxVars, relayVars, hrow, reconcileVars, budgets>>

\* The claim call fails, before or after Ploom recorded the claim.
ClaimFails(d) ==
    /\ wpc = "next"
    /\ d \in wpend
    /\ Fault("ploom")
    /\ wpend' = wpend \ {d}
    /\ \/ UNCHANGED claim
       \/ claim[d] = "pending" /\ claim' = [claim EXCEPT ![d] = "claimed"]
    /\ UNCHANGED <<storeVars, wpc, wcur, tmuxVars, relayVars, hrow, reconcileVars>>

Fetch ==
    /\ wpc = "fetch"
    /\ wpc' = "accept"
    /\ UNCHANGED <<storeVars, claim, wcur, wpend, tmuxVars, relayVars, hrow, reconcileVars, budgets>>

\* The error is logged; the dispatch stays claimed.
FetchFails ==
    /\ wpc = "fetch"
    /\ Fault("ploom")
    /\ wpc' = "next"
    /\ UNCHANGED <<storeVars, claim, wcur, wpend, tmuxVars, relayVars, hrow, reconcileVars>>

\* Another daemon of the same host list claims a pending dispatch.
OtherDaemonClaims(d) ==
    /\ claim[d] = "pending"
    /\ Fault("ploom")
    /\ claim' = [claim EXCEPT ![d] = "foreign"]
    /\ UNCHANGED <<storeVars, workerVars, tmuxVars, relayVars, hrow, reconcileVars>>

\* A claimed dispatch is offered again.
PloomRedelivers(d) ==
    /\ claim[d] = "claimed"
    /\ Fault("ploom")
    /\ claim' = [claim EXCEPT ![d] = "pending"]
    /\ UNCHANGED <<storeVars, workerVars, tmuxVars, relayVars, hrow, reconcileVars>>

-----------------------------------------------------------------------------
(* Coordinator.Accept and Launch, called by the worker.                    *)

\* Everything but the store, the worker's pc and the faults is unchanged.
OnlyWorker == UNCHANGED <<claim, wcur, wpend, tmuxVars, relayVars, hrow, reconcileVars>>

\* Launch returns: its deferred call removes the token file.
LaunchReturns ==
    /\ token' = [token EXCEPT ![wcur] = FALSE]
    /\ UNCHANGED <<storeVars, claim, wcur, wpend, tmuxVars, agent, exit, link, frame,
                   hrow, reconcileVars>>

\* Seeded fault: the live check is missing.
BugAdmitBusy ==
    /\ wpc = "accept"
    /\ wpc' = "insert"
    /\ OnlyWorker
    /\ UNCHANGED <<storeVars, budgets>>

\* Clamp, Canonicalize, HasLiveByRepo and the git snapshot: an unknown
\* profile, a path outside the roots, a busy repository or a directory that
\* is no git repository is rejected before any row exists.
Admit ==
    /\ wpc = "accept"
    /\ ~HasLiveByRepo(RepoOf[wcur])
    /\ wpc' = "insert"
    /\ OnlyWorker
    /\ UNCHANGED <<storeVars, budgets>>

AdmitRefused ==
    /\ wpc = "accept"
    /\ wpc' = "reject"
    /\ OnlyWorker
    /\ UNCHANGED <<storeVars, budgets>>

\* Seeded fault: a dispatch that already has a row is launched again.
BugRelaunch ==
    /\ wpc = "insert"
    /\ UpsertByDispatchWithReport(wcur, RepoOf[wcur])
    /\ wpc' = "session"
    /\ OnlyWorker
    /\ UNCHANGED budgets

\* The durable cut: row and accepted report.  A dispatch that already has a
\* row is returned as it is and nothing is launched.
Insert ==
    /\ wpc = "insert"
    /\ UpsertByDispatchWithReport(wcur, RepoOf[wcur])
    /\ wpc' = IF Exists(wcur) THEN "next" ELSE "session"
    /\ OnlyWorker
    /\ UNCHANGED budgets

\* NewSession and sessionCode.
NewSession ==
    /\ wpc = "session"
    /\ session[wcur] = "none"
    /\ nextCode \in Codes
    /\ session' = [session EXCEPT ![wcur] = "alive"]
    /\ tcode' = [tcode EXCEPT ![wcur] = nextCode]
    /\ nextCode' = nextCode + 1
    /\ wpc' = "keys"
    /\ UNCHANGED <<storeVars, claim, wcur, wpend, relayVars, hrow, reconcileVars, budgets>>

\* The token file is written and the relay command typed into the session.
SendKeys ==
    /\ wpc = "keys"
    /\ session[wcur] = "alive"
    /\ token' = [token EXCEPT ![wcur] = TRUE]
    /\ agent' = [agent EXCEPT ![wcur] = "typed"]
    /\ wpc' = "wait"
    /\ UNCHANGED <<storeVars, claim, wcur, wpend, tmuxVars, exit, link, frame, hrow,
                   reconcileVars, budgets>>

\* NewSession, sessionCode, the token file or SendKeys fails, or the session
\* has been killed in the meantime.
LaunchFails ==
    /\ wpc \in {"session", "keys"}
    /\ \/ Fault("launch")
       \/ wpc = "keys" /\ session[wcur] # "alive" /\ UNCHANGED budgets
    /\ wpc' = "failed"
    /\ OnlyWorker
    /\ UNCHANGED storeVars

\* waitRelayConnect sees the relay; the prompt is pushed to it.
RelaySeen ==
    /\ wpc = "wait"
    /\ link[wcur] = "up"
    /\ wpc' = "launched"
    /\ LaunchReturns
    /\ UNCHANGED budgets

\* The connect timeout; certain when no relay can come any more.
RelayTimeout ==
    /\ wpc = "wait"
    /\ link[wcur] # "up"
    /\ \/ Fault("launch")
       \/ agent[wcur] = "ended" /\ UNCHANGED budgets
    /\ wpc' = "failed"
    /\ LaunchReturns

\* MarkLaunchedWithReport commits running.
MarkLaunched ==
    /\ wpc = "launched"
    /\ MarkLaunchedWithReport(wcur, tcode[wcur])
    /\ wpc' = "next"
    /\ OnlyWorker
    /\ UNCHANGED budgets

\* The fence refuses: somebody failed the row.  Accept returns the error and
\* the sink falls back to Reject.
MarkLaunchedRefused ==
    /\ wpc = "launched"
    /\ ~(row[wcur].launch = "launching" /\ row[wcur].status = "accepted")
    /\ wpc' = "reject"
    /\ OnlyWorker
    /\ UNCHANGED <<storeVars, budgets>>

\* The launch failure path: failed and its report in one transaction.
MarkFailed ==
    /\ wpc = "failed"
    /\ IF CanTransition(row[wcur].status, "failed")
       THEN UpdateStatusWithReport(wcur)
       ELSE UNCHANGED storeVars
    /\ wpc' = "reject"
    /\ OnlyWorker
    /\ UNCHANGED budgets

\* consumeSink: every Accept error funnels into Reject.
Reject ==
    /\ wpc = "reject"
    /\ InsertRejectedWithReports(wcur, RepoOf[wcur])
    /\ wpc' = "next"
    /\ OnlyWorker
    /\ UNCHANGED budgets

\* Seeded fault: the launch goes on after a failed insert.
BugInsertErrorIgnored ==
    /\ wpc \in {"accept", "insert", "launched", "failed", "reject"}
    /\ Fault("db")
    /\ wpc' = CASE wpc = "reject" -> "next" [] wpc = "insert" -> "session" [] OTHER -> "reject"
    /\ OnlyWorker
    /\ UNCHANGED storeVars

\* A transaction of the worker fails and rolls back.
WorkerDbFails ==
    /\ wpc \in {"accept", "insert", "launched", "failed", "reject"}
    /\ Fault("db")
    /\ wpc' = IF wpc = "reject" THEN "next" ELSE "reject"
    /\ OnlyWorker
    /\ UNCHANGED storeVars

-----------------------------------------------------------------------------
(* The relay inside the session (external to the daemon, relay.go), and    *)
(* the bridge's reader goroutine (stream/handler.go).                      *)

\* Relay.Run reads and removes the token file; without one it gives up.
RelayReadsToken(d) ==
    /\ agent[d] = "typed"
    /\ token' = [token EXCEPT ![d] = FALSE]
    /\ agent' = [agent EXCEPT ![d] = IF token[d] THEN "dialing" ELSE "ended"]
    /\ UNCHANGED <<storeVars, claim, workerVars, tmuxVars, exit, link, frame, hrow,
                   reconcileVars, budgets>>

\* It connects to the daemon and starts the agent.
RelayConnects(d) ==
    /\ agent[d] = "dialing"
    /\ agent' = [agent EXCEPT ![d] = "running"]
    /\ link' = [link EXCEPT ![d] = "up"]
    /\ UNCHANGED <<storeVars, claim, workerVars, tmuxVars, token, exit, frame, hrow,
                   reconcileVars, budgets>>

Terminated == [code |-> "nonzero", result |-> "none"]

\* It connects and cannot start the agent: Run returns, no frame is sent.
AgentStartFails(d) ==
    /\ agent[d] = "dialing"
    /\ Fault("launch")
    /\ agent' = [agent EXCEPT ![d] = "ended"]
    /\ exit' = [exit EXCEPT ![d] = Terminated]
    /\ link' = [link EXCEPT ![d] = "up"]
    /\ UNCHANGED <<storeVars, claim, workerVars, tmuxVars, token, frame, hrow, reconcileVars>>

\* The agent exits; the relay sends the terminal frame if it still can.
AgentExits(d) ==
    /\ agent[d] = "running"
    /\ \E e \in Exits : exit' = [exit EXCEPT ![d] = e]
    /\ agent' = [agent EXCEPT ![d] = "ended"]
    /\ frame' = [frame EXCEPT ![d] = link[d] = "up"]
    /\ UNCHANGED <<storeVars, claim, workerVars, tmuxVars, token, link, hrow,
                   reconcileVars, budgets>>

\* The connection of a relay breaks; a frame nobody has read is lost.
ConnectionLost(d) ==
    /\ link[d] = "up"
    /\ hrow[d] = NoRowYet
    /\ Fault("relay")
    /\ link' = [link EXCEPT ![d] = "down"]
    /\ frame' = [frame EXCEPT ![d] = FALSE]
    /\ UNCHANGED <<storeVars, claim, workerVars, tmuxVars, token, agent, exit, hrow, reconcileVars>>

\* The relay has lost its connection and terminates the agent.
AgentTerminated(d) ==
    /\ agent[d] = "running"
    /\ link[d] = "down"
    /\ agent' = [agent EXCEPT ![d] = "ended"]
    /\ exit' = [exit EXCEPT ![d] = Terminated]
    /\ UNCHANGED <<storeVars, claim, workerVars, tmuxVars, token, link, frame, hrow,
                   reconcileVars, budgets>>

\* A relay that has ended without a frame to read is unregistered.
RelayUnregistered(d) ==
    /\ link[d] = "up"
    /\ agent[d] = "ended"
    /\ ~frame[d]
    /\ hrow[d] = NoRowYet
    /\ link' = [link EXCEPT ![d] = "down"]
    /\ UNCHANGED <<storeVars, claim, workerVars, tmuxVars, token, agent, exit, frame, hrow,
                   reconcileVars, budgets>>

\* Somebody kills the session: the relay and the agent die with it.
SessionDies(d) ==
    /\ session' = [session EXCEPT ![d] = "gone"]
    /\ agent' = [agent EXCEPT ![d] = IF @ \in {"none", "ended"} THEN @ ELSE "ended"]
    /\ exit' = [exit EXCEPT ![d] = IF agent[d] \in {"none", "ended"} THEN @
                                   ELSE Terminated]
    /\ UNCHANGED <<nextCode, tcode, token, link, frame>>

KilledOutside(d) ==
    /\ session[d] = "alive"
    /\ Fault("tmux")
    /\ SessionDies(d)
    /\ UNCHANGED <<storeVars, claim, workerVars, hrow, reconcileVars>>

-----------------------------------------------------------------------------
(* The terminal handler (wireTerminal, TerminalProcessor.Handle).          *)

\* Seeded fault: the exit code alone decides.
BugExitCodeOnly(e) ==
    [status |-> IF e.code = "nonzero" THEN "failed" ELSE "completed",
     source |-> IF e.result = "none" THEN "exit_only" ELSE "result"]

\* ClassifyOutcome.
ClassifyOutcome(e) ==
    [status |-> IF e.code = "nonzero" \/ e.result = "error" THEN "failed" ELSE "completed",
     source |-> IF e.result = "none" THEN "exit_only" ELSE "result"]

\* Seeded fault: the exit of a row that is not decided is dropped.
BugLookupDrops(d) ==
    /\ frame[d]
    /\ frame' = [frame EXCEPT ![d] = FALSE]
    /\ UNCHANGED <<storeVars, claim, workerVars, tmuxVars, token, agent, exit, link, hrow,
                   reconcileVars, budgets>>

\* The frame is read and the row looked up by session code: a code no row
\* carries is dropped, a finished row needs nothing.
HandleLookup(d) ==
    /\ frame[d]
    /\ frame' = [frame EXCEPT ![d] = FALSE]
    /\ LET found == {t \in Dispatches : Exists(t) /\ row[t].code = tcode[d]}
       IN  \/ /\ found = {} \/ \E t \in found : IsTerminal(t)
              /\ UNCHANGED hrow
           \/ \E t \in found : ~IsTerminal(t) /\ hrow' = [hrow EXCEPT ![d] = t]
    /\ UNCHANGED <<storeVars, claim, workerVars, tmuxVars, token, agent, exit, link,
                   reconcileVars, budgets>>

\* After the artifacts are captured: the outcome is committed, unless
\* somebody else has decided the row.
HandleCommit(d) ==
    /\ hrow[d] # NoRowYet
    /\ LET o == ClassifyOutcome(exit[d])
       IN  IF CanTransition(row[hrow[d]].status, o.status)
           THEN MarkTerminalWithReport(hrow[d], o.status, o.source)
           ELSE UNCHANGED storeVars
    /\ hrow' = [hrow EXCEPT ![d] = NoRowYet]
    /\ UNCHANGED <<claim, workerVars, tmuxVars, relayVars, reconcileVars, budgets>>

\* The query or the transaction fails; the error is logged and the frame is
\* gone.
HandleDbFails(d) ==
    /\ frame[d] \/ hrow[d] # NoRowYet
    /\ Fault("db")
    /\ frame' = [frame EXCEPT ![d] = FALSE]
    /\ hrow' = [hrow EXCEPT ![d] = NoRowYet]
    /\ UNCHANGED <<storeVars, claim, workerVars, tmuxVars, token, agent, exit, link, reconcileVars>>

-----------------------------------------------------------------------------
(* Reconcile at startup and reclaim by HTTP (reconcile.go, reclaim.go).    *)

OnlyReconcile == UNCHANGED <<claim, workerVars, hrow>>

LiveFences == {[d |-> x, launch |-> row[x].launch] : x \in {y \in Dispatches : IsLive(y)}}

\* An operator asks for a reclaim: of every live row or of one of them.
ReclaimStart ==
    /\ rpc = "idle"
    /\ ~booting
    /\ reclaims > 0
    /\ reclaims' = reclaims - 1
    /\ rpc' \in {"list", "find"}
    /\ OnlyReconcile
    /\ UNCHANGED <<storeVars, tmuxVars, relayVars, rlist, rcur, booting, faults>>

\* ListLive: the sweep works on the rows as they are read here.  (An id
\* that names no live row is answered with found = false.)
ListLive ==
    /\ \/ rpc = "list" /\ rlist' = LiveFences
       \/ rpc = "find" /\ \E x \in LiveFences : rlist' = {x}
       \/ rpc = "find" /\ LiveFences = {} /\ rlist' = {}
    /\ rpc' = "sweep"
    /\ OnlyReconcile
    /\ UNCHANGED <<storeVars, tmuxVars, relayVars, rcur, booting, budgets>>

\* The query fails: no row is looked at.
ListDbFails ==
    /\ rpc \in {"list", "find"}
    /\ Fault("db")
    /\ rlist' = {}
    /\ rpc' = "sweep"
    /\ OnlyReconcile
    /\ UNCHANGED <<storeVars, tmuxVars, relayVars, rcur, booting>>

\* Seeded faults: an orphan is not killed; a launch without a session is
\* left alone; a launched row is taken to be alive.
BugProbe(x, pc) ==
    /\ rpc = "sweep"
    /\ x \in rlist
    /\ rlist' = rlist \ {x}
    /\ rcur' = x.d
    /\ rpc' = pc
    /\ OnlyReconcile
    /\ UNCHANGED <<storeVars, tmuxVars, relayVars, booting, budgets>>

BugOrphanKept(x) ==
    BugProbe(x, IF x.launch = "launched" /\ session[x.d] = "alive" THEN "sweep" ELSE "finish")

BugNoSessionSkipped(x) ==
    BugProbe(x, CASE session[x.d] # "alive" /\ x.launch = "launched" -> "finish"
                  [] session[x.d] = "alive" /\ x.launch # "launched" -> "kill"
                  [] OTHER -> "sweep")

BugLaunchedTrusted(x) ==
    BugProbe(x, CASE x.launch = "launched" -> "sweep"
                  [] x.launch # "launched" /\ session[x.d] = "alive" -> "kill"
                  [] OTHER -> "finish")

\* reconcileOne: the HasSession probe decides what is to be done.
Probe(x) ==
    /\ rpc = "sweep"
    /\ x \in rlist
    /\ rlist' = rlist \ {x}
    /\ rcur' = x.d
    /\ rpc' = CASE x.launch = "launched" /\ session[x.d] = "alive" -> "sweep"
                [] x.launch = "launched" /\ session[x.d] # "alive" -> "finish"
                [] x.launch # "launched" /\ session[x.d] = "alive" -> "kill"
                [] x.launch # "launched" /\ session[x.d] # "alive" -> "finish"
    /\ OnlyReconcile
    /\ UNCHANGED <<storeVars, tmuxVars, relayVars, booting, budgets>>

\* KillSession of a launch that was not confirmed.
Kill ==
    /\ rpc = "kill"
    /\ IF session[rcur] = "alive" THEN SessionDies(rcur) ELSE UNCHANGED <<tmuxVars, relayVars>>
    /\ rpc' = "finish"
    /\ OnlyReconcile
    /\ UNCHANGED <<storeVars, rlist, rcur, booting, budgets>>

\* The error is only logged.
KillFails ==
    /\ rpc = "kill"
    /\ Fault("tmux")
    /\ rpc' = "finish"
    /\ OnlyReconcile
    /\ UNCHANGED <<storeVars, tmuxVars, relayVars, rlist, rcur, booting>>

\* finishFailed.
Finish ==
    /\ rpc = "finish"
    /\ IF CanTransition(row[rcur].status, "failed")
       THEN MarkTerminalWithReport(rcur, "failed", "exit_only")
       ELSE UNCHANGED storeVars
    /\ rpc' = "sweep"
    /\ OnlyReconcile
    /\ UNCHANGED <<tmuxVars, relayVars, rlist, rcur, booting, budgets>>

FinishDbFails ==
    /\ rpc = "finish"
    /\ Fault("db")
    /\ rpc' = "sweep"
    /\ OnlyReconcile
    /\ UNCHANGED <<storeVars, tmuxVars, relayVars, rlist, rcur, booting>>

\* The sweep is over; after the first one the worker starts.
SweepDone ==
    /\ rpc = "sweep"
    /\ rlist = {}
    /\ rpc' = "idle"
    /\ booting' = FALSE
    /\ OnlyReconcile
    /\ UNCHANGED <<storeVars, tmuxVars, relayVars, rlist, rcur, budgets>>

-----------------------------------------------------------------------------
\* The daemon dies and starts again: goroutines, connections and frames are
\* lost, tables, sessions and agents are not.  Start sweeps before it polls.
Crash ==
    /\ Fault("crash")
    /\ wpc' = "idle"
    /\ wpend' = {}
    /\ link' = [d \in Dispatches |-> IF link[d] = "up" THEN "down" ELSE link[d]]
    /\ frame' = [d \in Dispatches |-> FALSE]
    /\ hrow' = [d \in Dispatches |-> NoRowYet]
    /\ booting' = TRUE
    /\ rlist' = {}
    /\ rpc' = "list"
    /\ UNCHANGED <<storeVars, claim, wcur, tmuxVars, token, agent, exit, rcur>>

-----------------------------------------------------------------------------
Init ==
    /\ StoreInit
    /\ claim = [d \in Dispatches |-> "pending"]
    /\ wpc = "idle"
    /\ wcur = CHOOSE d \in Dispatches : TRUE
    /\ wpend = {}
    /\ session = [d \in Dispatches |-> "none"]
    /\ nextCode = 0
    /\ tcode = [d \in Dispatches |-> NoCode]
    /\ token = [d \in Dispatches |-> FALSE]
    /\ agent = [d \in Dispatches |-> "none"]
    /\ exit = [d \in Dispatches |-> NoExit]
    /\ link = [d \in Dispatches |-> "none"]
    /\ frame = [d \in Dispatches |-> FALSE]
    /\ hrow = [d \in Dispatches |-> NoRowYet]
    /\ rpc = "idle"
    /\ rlist = {}
    /\ rcur = CHOOSE d \in Dispatches : TRUE
    /\ booting = FALSE
    /\ faults = MaxFaults
    /\ reclaims = MaxReclaims

WorkerStep ==
    \/ Poll \/ PollDone \/ (\E d \in Dispatches : Claim(d)) \/ Fetch
    \/ Admit \/ Insert \/ NewSession \/ SendKeys
    \/ RelaySeen \/ MarkLaunched \/ MarkLaunchedRefused \/ MarkFailed \/ Reject

\* Steps of the worker whose cause is outside: a bad request, a failing
\* launch, a timeout.
WorkerError == AdmitRefused \/ LaunchFails \/ RelayTimeout

RelayStep ==
    \E d \in Dispatches :
        RelayReadsToken(d) \/ RelayConnects(d) \/ AgentTerminated(d) \/ RelayUnregistered(d)

HandlerStep == \E d \in Dispatches : HandleLookup(d) \/ HandleCommit(d)

ReconcileStep == ListLive \/ (\E x \in rlist : Probe(x)) \/ Kill \/ Finish \/ SweepDone

FaultStep ==
    \/ FetchFails \/ WorkerDbFails \/ ListDbFails \/ KillFails \/ FinishDbFails \/ Crash
    \/ \E d \in Dispatches :
          \/ ClaimFails(d) \/ OtherDaemonClaims(d) \/ PloomRedelivers(d) \/ KilledOutside(d)
          \/ AgentStartFails(d) \/ ConnectionLost(d) \/ HandleDbFails(d)

Next ==
    \/ WorkerStep \/ WorkerError \/ RelayStep \/ HandlerStep \/ ReconcileStep
    \/ ReclaimStart \/ (\E d \in Dispatches : AgentExits(d)) \/ FaultStep

(* The goroutines of the daemon are scheduled, relays make progress, and a *)
(* relay that can no longer come lets the connect timeout expire.  Agents  *)
(* need not end, nobody need reclaim, and no fault need happen.            *)
Fairness ==
    /\ WF_vars(WorkerStep \/ WorkerError)
    /\ WF_vars(RelayStep)
    /\ WF_vars(HandlerStep)
    /\ WF_vars(ReconcileStep)

Spec == Init /\ [][Next]_vars /\ Fairness

\* An operator who has a reclaim left will use it.
OperatedSpec == Spec /\ WF_vars(ReclaimStart)

-----------------------------------------------------------------------------
TypeOK ==
    /\ StoreTypeOK
    /\ claim \in [Dispatches -> {"pending", "claimed", "foreign"}]
    /\ wpc \in {"idle", "next", "fetch", "accept", "insert", "session", "keys", "wait",
               "launched", "failed", "reject"}
    /\ wcur \in Dispatches
    /\ wpc \in {"session", "keys", "wait", "launched", "failed"} => Exists(wcur)
    /\ wpend \subseteq Dispatches
    /\ session \in [Dispatches -> {"none", "alive", "gone"}]
    /\ nextCode \in Nat
    /\ tcode \in [Dispatches -> Codes \cup {NoCode}]
    /\ token \in [Dispatches -> BOOLEAN]
    /\ agent \in [Dispatches -> {"none", "typed", "dialing", "running", "ended"}]
    /\ exit \in [Dispatches -> Exits \cup {NoExit, Terminated}]
    /\ link \in [Dispatches -> {"none", "up", "down"}]
    /\ frame \in [Dispatches -> BOOLEAN]
    /\ hrow \in [Dispatches -> Dispatches \cup {NoRowYet}]
    /\ rpc \in {"idle", "list", "find", "sweep", "kill", "finish"}
    /\ rlist \subseteq [d : Dispatches, launch : LaunchState]
    /\ rcur \in Dispatches
    /\ booting \in BOOLEAN
    /\ faults \in 0 .. MaxFaults
    /\ reclaims \in 0 .. MaxReclaims

(* At most one agent process works in a repository.  The rows alone do not *)
(* say so: an agent outlives the daemon that started it, and a repository  *)
(* is released by the status of a row (reconcile.go:130, "so it cannot     *)
(* keep mutating the repo").                                               *)
OneAgentPerRepo ==
    \A d, e \in Dispatches :
        agent[d] = "running" /\ agent[e] = "running" /\ RepoOf[d] = RepoOf[e] => d = e

(* A dispatch is launched once: when the worker is about to create a       *)
(* session, the dispatch has never had one, whatever Ploom delivered again *)
(* and wherever the daemon died (launch.go:192).                           *)
LaunchOnce == wpc = "session" => session[wcur] = "none" /\ agent[wcur] = "none"

(* The state is well formed, one row per repository is live (SingleLive)   *)
(* and no dispatch is launched twice (LaunchOnce).                         *)
RuntimeInv == TypeOK /\ SingleLive /\ LaunchOnce

(* The outcome in a row is the outcome of its own agent: completed only if *)
(* that process has ended with exit code zero and no error result, and an  *)
(* outcome attributed to a result only if one was captured, whoever        *)
(* committed the row and whatever raced with it (terminal.go:30, :108).    *)
TruthfulOutcome ==
    \A d \in Dispatches :
        /\ row[d].status = "completed" =>
              agent[d] = "ended" /\ exit[d].code = "zero" /\ exit[d].result # "error"
        /\ row[d].source = "result" => exit[d].result # "none"

(* An accepted row does not stay accepted: the launch succeeds, fails, or  *)
(* is failed by the sweep after a crash (launch.go:149, reconcile.go:130). *)
LaunchDecided == \A d \in Dispatches : row[d].status = "accepted" ~> row[d].status # "accepted"

(* An exit that the daemon is told of while the row is running decides the *)
(* row, unless the daemon dies first (terminal.go:108).                    *)
ExitClassified ==
    \A d \in Dispatches : frame[d] /\ row[d].status = "running" ~> IsTerminal(d) \/ booting

(* A running row whose session is gone is decided by a reclaim that is     *)
(* asked for afterwards (reconcile.go:123).                                *)
GoneReclaimed ==
    \A d \in Dispatches :
        row[d].status = "running" /\ session[d] = "gone" /\ reclaims > 0 ~> IsTerminal(d)

(* No execution is left hanging: LaunchDecided, ExitClassified and         *)
(* GoneReclaimed, through crashes, failed launches and lost sessions.      *)
RunsDecided == LaunchDecided /\ ExitClassified /\ GoneReclaimed

(* When the agent of a running row has ended, the row is decided, at the   *)
(* latest by a reclaim asked for afterwards (terminal.go:119, relay.go:159).*)
EndedRunDecided ==
    \A d \in Dispatches :
        row[d].status = "running" /\ agent[d] = "ended" /\ reclaims > 0 ~> IsTerminal(d)

=============================================================================
