# Verification of Purdex

TLA+ models, TLC runs and TLAPS proofs for Purdex (`tmux-box`): the Go daemon's
dispatch runtime, which works unattended, and the client (the SPA in `spa/` and
the Electron application in `electron/`), where user actions, requests, sockets,
several windows and restarts of a daemon or its tmux server interleave.

All paths are relative to the repository. Short forms: `execution/` and
`dispatch/` are under `internal/module/`; `lib/`, `stores/`, `hooks/`,
`components/` and `features/` are under `spa/src/`.

## 1. Inventory

### Daemon

| Component | State | Operations | Interacts with | What makes it correct |
|---|---|---|---|---|
| Execution store and outbox (`execution/store*.go`, `outbox.go`, `states.go`; numbering in `dispatch/consumer.go`) | SQLite tables `executions`, `report_outbox`, `report_cursor` | insert, reject, mark launched, mark terminal; enqueue, ack, attempt, permanent, advance cursor | everything below | row and reports change together; report numbers without hole or collision; a decided outcome is final |
| Report sender (`dispatch/report.go`, `client.go`) | locals of one flush | flush, ordering gate, ordered loop, send, forced resend | outbox, Ploom (external) | never believes more than Ploom knows; accepted first; everything drains |
| Dispatch worker (`dispatch/worker.go`) | place in the polled list | poll, claim, fetch, consume | Ploom, coordinator | a dispatch is launched at most once |
| Coordinator, launcher (`execution/launch.go`, `launcher.go`) | one launch, token file | Accept, Reject, Launch | admission, store, tmux | an accepted row is decided |
| Admission (`execution/admission.go`) | map of mutexes | WithRepoLock | store | one live execution per repository |
| Terminal processor (`execution/terminal.go`) | the row it resolved | Handle, ClassifyOutcome | relay, store | the outcome is that of the row's own agent |
| Reconcile, reclaim (`execution/reconcile.go`, `reclaim.go`) | snapshot of live rows | sweep, reclaim | store, tmux | wedged rows are decided |
| Relay, stream module, bridge (`internal/relay`, `internal/module/stream`, `internal/bridge`) | registration, channels, result cache, hand-off locks | connect, fan out, exit frame, hand off | SPA, terminal processor | the exit reaches the daemon |
| Agent status, providers, codex broker, session, sync, backup, core, monitor, fs, dev, logs | frames, caches, bundles, events | hook events, probes, listings, pushes, broadcasts | SPA, agents, tmux | not modelled on the daemon's side; the client modules model what arrives from them |

### Client

| Component | State | Operations | Interacts with | What makes it correct |
|---|---|---|---|---|
| Tabs, panes, workspaces (`stores/useTabStore.ts`, `features/workspace/`) | tabs, order, visits, closed tabs, workspaces | open, close, move, split, lock, drag, hand over to a window | all pages, other windows | the lists agree; a locked tab stays |
| Browser views (`electron/browser-view-manager.ts`) | native views, order, idle timers, snapshots | open, show, background, discard, close | panes of several windows | a shown view is never discarded; the limit holds |
| Windows, deep links, updater (`electron/main.ts`, `window-manager.ts`, `updater.ts`) | renderers, queues, install directories | open, ready, close, deliver, swap, roll back | operating system, renderers | delivered once; one build installed |
| Quick commands (`lib/slot-executor.ts`) | commands, bindings, runs | create a session, send keys, open a tab, pick a host | hosts, workspaces | keys go where the user pointed |
| File open (`lib/file-open`, `stores/path-cache`) | clicks, popup, hits, cached directories | resolve, stat, search, show, dismiss | daemon file system, tabs | opens where it was clicked; dismissed stays dismissed |
| Session names (`components/RenamePopover.tsx`, `useTabStore.updateSessionCache`) | names in panes, popover | rename, sessions frames | daemon, tmux restarts | a pane shows a name its session has had |
| Rebuild engine, probes (`lib/rebuild/`) | pane records, one operation, batch, probes in flight | rebuild, retry, resume, re-point; probe, patch, reconcile | daemon, tmux restarts, user | a pane is never pointed at a stranger's work |
| Editors, In-App store (`components/editor/`, `lib/fs-backend-inapp.ts`) | buffers, files, placeholders | load, save, rename, move, delete, sweep | other panes and windows | buffers stay with their path; edits survive |
| Storage backup (`lib/storage-backup/`, `stores/useBackupStore.ts`) | jobs, chain of snapshots, restore | trigger, back up, restore, reconcile panes | host, editors | the restore point is what was replaced; no self-made fork |
| Settings sync (`lib/sync/`) | settings, baseline, snapshots | pull, merge, push, import, resolve, compact | host, other devices | edits survive a pull; the safety snapshot is kept |
| Workspace snapshots (`lib/snapshot/`) | saved and previous snapshot, job | capture, three restores, undo | hosts, tabs, rebuild lock | a restore keeps what runs |
| Resume templates, status line test, add host, monitor | drafts, results, requests under way | edit, test, run, pair, validate, load, submit | hosts edited or removed meanwhile | a late answer is shown only where it belongs |
| Host connection, terminal socket (`lib/host-connection.ts`, `lib/host-events.ts`, `hooks/useTerminalWs.ts`) | status, socket, ticket, timers, attach gate | check, retry, connect, attach | daemon, host store | recovers; attaches only after the sessions are known |
| Agent feed, notifications (`hooks/useNotificationDispatcher.ts`, `stores/useAgentStore.ts`) | status per window, seen record in local storage | event, replay, clear, notify | all windows | one notification per event |
| Stream conversation (`hooks/useRelayWsManager.ts`, `lib/stream-ws.ts`) | sockets, tickets, hand-off | connect, send, answer, hand off | relay events | one socket per relay connection |
| Rendering, themes, locales, layouts, registries, host page forms, development page | | | | not modelled |

What is hard: every `await` lets the user, another window or the daemon act; a
host entry may be edited or removed during a request; session codes encode tmux
ids and mean another session after a tmux restart; windows share local storage
but not memory; in the daemon the worker, sender, relay readers and HTTP handlers
are goroutines, and tmux, relays and agents survive it. Every hazard is listed
at its line, with the properties that watch it, in `PROJECT.json`.

## 2. Modules

| Module | Models | Checked in |
|---|---|---|
| `ExecutionStream` | abstract: what Ploom is promised of a report stream | `MCAdmission` (refinement) |
| `ExecutionStore` | the three tables, one action per transaction | `MCAdmission` |
| `RepoAdmission` | keyed mutex and WithRepoLock with concurrent callers | `MCAdmission` |
| `ReportSender` | the sender step by step, Ploom, faults (extends ExecutionStore) | `MCReportSender` |
| `DispatchRuntime` | worker, launch, relay, agent, terminal handler, reconcile, restart (extends ExecutionStore) | `MCDispatchRuntime` |
| `ExecutionStoreProofs`, `ReportSenderProofs`, `DispatchRuntimeProofs` | theorems about the modules of these names; `RepoAdmission` is in the last | |
| `Lists` | `Array.filter`, and the loop that drops repetitions, as the client's stores use them (`TabStore`, `WorkspaceStore`, `BrowserViews`, `CommandSlots`, `FileOpen`) | |
| `TabStore` < `WorkspaceStore` < `WorkspaceShell` | store operations as operators on one state record; the handlers that compose them | `MCShell` |
| `BrowserViews`, `AppShell`, `CommandSlots`, `FileOpen`, `SessionNames` | the components of these names | `MCShell` |
| `PaneRecord` < `Rebuild`, `SessionProbe` | pane binding and record; engine and batch; probes and reconciliation | `MCRebuild` |
| `InAppFs` < `EditorStorage` < `StorageBackup` | file store; editors and storage pane; backups and restore | `MCStorage` |
| `SettingsSync`, `WorkspaceSnapshot`, `ResumeTemplates`, `StatuslineTest`, `AddHost`, `MonitorPage` | the components of these names | `MCSettings` |
| `HostLink`, `AgentFeed`, `StreamLink` | event connection and terminal; events, unread marks, notifications; stream socket | `MCConnections` |
| `TabProofs` < `ShellProofs` | theorems about tabs and workspaces with the facts about lists; about the other components of `MCShell` | |
| `RebuildProofs`, `StorageProofs`, `ClientProofs` | theorems about the components of `MCRebuild`, of `MCStorage`, of `MCSettings` and `MCConnections` | |

(`A < B`: B extends A.) An MC module of the client runs several independent
components; a behaviour is about one of them, chosen by `focus` in the initial
state, and the others stay put. They share no state in the code either.

### Conventions of the client modules
* JavaScript runs to completion. A handler up to its first `await` is one action;
  what follows an `await` is an action of its own that may come at any later time,
  with whatever the handler had captured in a record (`op`, `job`, `flight`,
  `opens[i]`, ...). React effects run in the step whose change triggers them.
* A store operation is an operator from state record to state record with the
  source's name, so that handlers compose operations as the code does.
* Requests to a daemon may fail, and where it matters fail after the daemon has
  acted. A removed host is a host that is not in the store: `getDaemonBase` then
  falls back to the active host, which is modelled.
* A generation counter in the code (`requestSeq`, epochs, nonces, tokens) is kept
  where values are compared, and replaced by a flag where it only tells the
  current request from superseded ones (`HostLink`).
* Ghost variables only record: `edited`, `everTok`, `had`, `told`, `twice`, `born`,
  `past`, `wrote`, `outlived`, `ousted`, `orphan`, `popup.alone`, `prov.owed`, `upd.mixed`.

### Correspondence, daemon
`row[d]` is the `executions` row of dispatch `d`, reduced to status, launch fence,
repository, session code and outcome source; `report[d][n]` the status queued
under number `n`, `marks[d][n]` its flags, `cursor[d]` the `ack_seq`. `Enqueue`
keeps `INSERT OR IGNORE`: a second report with an occupied number disappears.
`ReportSender` is a program counter with the locals of `flushExecution` and
`sendOne`; `late` holds requests that timed out and may still arrive, and
`Transition` commits any transaction of the rest of the daemon meanwhile. Reads
that fail are left out (the flush returns and starts afresh), and so is
`reconstructAccepted`, since `ReportsMatchRow` shows that no row lacks its report.
In `DispatchRuntime`, `wpc` is the worker's place in `RunOnce`, `Accept`, `Launch`
and `Reject`; `session`, `tcode`, `token`, `agent`, `exit`, `link`, `frame` are the
world; `hrow` is the row the terminal handler resolved; `rpc`, `rlist`, `rcur` the
reconciler with its snapshot of rows. `RepoAdmission` has `mutexOf`, `handle` and
`holder`; the daemon has one worker today, so it verifies the contract that the code
states rather than a race that happens now.

### Correspondence, client
* **WorkspaceShell**: `ui` is both stores of one window, `drag` what a drag captured,
  `moving` the hand-over of a workspace between payload and removal, `migrate` a
  migration prompt. Messages from other windows replace or extend `ui`.
* **BrowserViews**: `calls` are IPC calls in order per window, `views`/`viewOrder`/
  `timers`/`saved` the manager. **AppShell**: `rend`, `readyIds`, `gift`, `sent`,
  `install`; windows are numbered. **CommandSlots**: `clicks` are runs, each at its
  place among create, send and open. **FileOpen**: `opens` are clicks, `popup` with
  its token, `mergedHits` the shared accumulator. **SessionNames**: `lists` and
  `renames` are frames and answers under way.
* **Rebuild**: `rb` is the window (panes, operations, lock, calls, batch, host) and
  `srv` the tmux servers by address with the work of each session. **SessionProbe**:
  `frames` on the socket, `cwdCall`/`provCall` probes by binding, `prov` the
  provenance scheduler.
* **EditorStorage**: `fs` the In-App store with its revision, `ed` panes, buffers and
  placeholders, `save` and `del` the flows under way: a save, a first save (check, stat,
  write, stat) or a rename (check, stat, rename) per pane, one at a time, with the name,
  content and stat the handler captured. React cleans up every pane that shows
  something else before it runs the effects of any, so that a commit is one operator on
  the set of these panes (`Rerender`), not a loop. **StorageBackup**: `bk` with the
  queue of jobs per host (`runExclusive`), the chain of snapshots and the restores.
* **SettingsSync**: `sy` settings and sync store, `op` what is under way, `srv` the
  host's bundle (another device pushes to it), `lib` the local snapshots with `now`; one
  sync host, so that the check of its id after an answer (`components/settings/SyncSection.tsx:133`)
  always passes, and one operation at a time per device, which the section's busy state
  and dialogs bring about. Whose endpoint a token is used with is recorded in `sy.home`.
  **WorkspaceSnapshot**: `desk` tabs and workspace, `caps` the captures under way (a
  section that is mounted again starts another), `job` the restore, `opLock` the lock
  shared with rebuilds. The session store is a map by code: which of two sessions with
  one code stays is the order of the entries, so `syncSessionStore` is a set of stores.
* **ResumeTemplates**, **StatuslineTest**, **AddHost**, **MonitorPage**: the page's state
  and a set of requests under way, against hosts and daemons that change.
* **HostLink**: `ent` is the entry of the connection hook with its check loops,
  `rt` the host's runtime, `term` one terminal pane. **AgentFeed**: `feed` the events
  under way per window, `seen` the record in local storage; the second filter in the main
  process (`electron/main.ts:145-155`, five seconds by timestamp) is left out, so the property
  is shown for the browser too. **StreamLink**: `tickets`,
  `sockets`, `activeConn`, `stream`.

Operators named `Bug...` are seeded faults: plausible errors in the definition that
follows them. No specification uses them; they show that each property can fail.
`mutants` in `PROJECT.json` lists one per property; the others break single
conjuncts of the conjoined properties (such as `ClicksSound` or `HostPagesSound`).

## 3. Runs

| Run | Instance | Checks |
|---|---|---|
| `store` | 3 calls, 2 dispatches of 1 repository; store alone under any client | `StoreTypeOK`, `ReportsMatchRow`, `LaunchFence`, `SingleLive`, `OutcomeFinal`, `StreamSpec` (refinement), `Returns` |
| `sender_safety` | 2 dispatches, 2 faults (no amnesia), symmetry | `SenderInv`, `AcceptedBeforeLifecycle` |
| `sender_live` | 1 dispatch, 3 faults (no db) | `Drained` |
| `runtime` | 2 dispatches of 1 repository, any 1 fault, 1 reclaim | `RuntimeInv`, `TruthfulOutcome` |
| `runtime_agents` | 2 dispatches, 2 faults (crash, db, ploom, relay) | `OneAgentPerRepo` |
| `runtime_live` | 1 dispatch, 2 faults (crash, ploom, launch, tmux), 1 reclaim | `RunsDecided` |
| `runtime_early_exit` | 1 dispatch, no fault, 1 reclaim | `EndedRunDecided`: **violated** |
| `shell` | tabs: 3 tabs, 2 workspaces, 3 actions from empty or any rehydrated state; views: 3 panes, 1 mini window, 5 inputs; app: 3 windows, 2 links, 6 inputs; slots: 2 hosts, 2 clicks, 6 inputs; open: 2 clicks, 2 directories, 4 inputs; names: 2 panes, 2 servers, 4 inputs | `TabsSound`, `WorkspacesSound`, `LockedTabKept`, `ViewsSound`, `DeliveredOnce`, `InstallWhole`, `ClicksSound` |
| `rebuild` | 2 panes, 2 codes, 3 tmux generations, 2 addresses, 7 steps each | `OneOperationAtATime`, `PanesSound`, `NoTriggerLost`, `UserChoiceKept`, `RefusedSessionStaysDetached` |
| `storage` | editors: 2 panes and another window, 5 steps, or 4 from a first save under way; backups: 2 hosts, 1 restore, 3 snapshots, 1 editor step, 3 other inputs | `EditorsSound`, `EditsKept`, `NoSelfFork`, `RestorePointIsTree` |
| `settings` | sync: 3 fields in 2 modules, 3 values, 4 inputs; snapshots: 2 hosts, 2 tabs, 6, from any earlier snapshot; templates 5; self-test 3, 2 runs; dialog 7, 2 dialogs; monitor 3 | `StoredStateSafe`, `EditsSurvivePull`, `NavigationSound`, `RestoreKeepsWork`, `HostPagesSound`, `FinishedRunStands` |
| `connections` | link: 2 endpoints, 4 inputs, liveness; feed: 2 windows, 5; stream: 3 sockets, 7 | `AttachAfterReconcile`, `LinkRecovers`, `FeedSound`, `OneStream` |

All but `runtime_early_exit` hold.

**Bounds.** Rows of different dispatches share nothing in the store; two of one
repository are what exclusion needs. A stream has three numbers by construction.
`MaxFaults` of two suffice for a lost write after an overtaken report, three for a
retry that is lost again around a crash. In the client, two of each thing give every
race: one actor of the race and one to race with (two panes, hosts, tabs, windows,
requests); hosts of one kind share no state beyond the list they are in. The input
bounds (`Max...Steps`, in the MC modules, counted in `steps`) limit what users,
daemons and faults *start*; what was started always runs to its end unbounded by
them (progress actions do not count), except in `rebuild`, for the tabs of `shell`
and for the editors of `storage`, where every step counts. `MaxRev`, `MaxEdit`, `MaxJobs`, `MaxSnaps`, `MaxNow`, `MaxTs`,
`MaxFeed`, `MaxSockets`, `MaxLoops`, `MaxTests`, `MaxRuns`, `MaxClicks`,
`MaxNameFrames`, `MaxCalls`, `MaxWins` cap counters and queues in the guards. Limits
of the code are lowered so that they are reached: `CLOSED_TABS_MAX`,
`MaxBackground`, `MAX_DIRS_PER_SCOPE`, `CREATE_ATTEMPT_CAP`, `FastRetries`,
`PreOpMax`, `MonthlyMax` and the tiers.

**Symmetry** is used with invariants and action properties only, never with liveness.

**Deadlock** is checked in the sender runs. The other systems may really
stop: every dispatch done, every request answered and the bound used up.

**Fairness.** Daemon: a goroutine that can take a step takes one; relays make
progress; the connect timeout expires when no relay can come any more
(`waitRelayConnect` has a deadline); backoff ends; Ploom answers unless a fault says
otherwise. Agents need not end, users need not act, faults need not happen.
`OperatedSpec` adds that an operator who has a reclaim left uses it; the properties
that need it say `reclaims > 0`. Client: `LinkFairness` says that checks and tickets
settle (the browser's `fetch` ends with an answer or an error), armed timers fire, a socket to a
reachable daemon opens, and React re-renders. It does not say that the daemon is
reachable or that anyone retries by hand: `LinkRecovers` starts from a daemon that
stays reachable, and excepts a refused token and a check that has given up, as the
code does.

**The violated run.** An agent exits after the relay was seen and before
`MarkLaunched` has stored the session code. The frame is looked up by a code that no
row has and is dropped (`execution/terminal.go:118`); the row becomes running and
stays so, since the session's shell is alive and every reconcile takes that for a
running agent (`execution/reconcile.go:115`).

## 4. Theorems

Proved by TLAPS for every value of the constants that meets the assumptions named in
the modules (each justified where it stands; most say that a marker such as `NoCode`
or `None` is no datum, that a limit is a natural number, or that a set is finite or
not empty). The bounds on inputs and the faults a run enables are constants too, so a
theorem holds for any number of user actions, requests and faults. Each invariant is
shown in the same way: a type lemma for the records of the module, one lemma per
operation or transaction, one per action, and last the step of the whole relation.

**`ExecutionStoreProofs`** (`CodeAssumption`): `StoreTypeCorrect`,
`ReportsAlwaysMatch`, `FenceAlwaysHolds`, `OutcomeIsFinal`, `StoreImplementsStream`.
The inductive invariant is `StoreInv`: types, `LaunchFence` and `ReportsMatchRow`.
`ReportsMatchRow` alone is not inductive, because the number of the terminal report
is chosen from the launch fence: only if the fence agrees with the status is number
2 (or 3) known to be free. The proof works on one row and its stream (`Good`), one
lemma per transaction, and lifts them to the store; the refinement uses the same
invariant, each transaction being one action of the abstract stream or a stutter.

**`ReportSenderProofs`** (`CodeAssumption`, `FaultAssumption`). `SenderImplementsStore`:
the sender, Ploom and the faults together are a client of `ExecutionStore`, every step
a transaction or a stutter; so `SenderKeepsStream` follows from the store's own
refinement, and `SenderTypeCorrect` from the invariant `WiredInv` (`StoreInv`, types,
and `Wired`: a number on its way, projected or answered was queued).
`SenderAlwaysHonest` and `AcceptedAlwaysFirst` hold for any number of faults as long as
Ploom forgets nothing (`"amnesia" \notin FaultKinds`; once it has, the cursor is ahead of
what it knows until the resend that `sender_live` watches). Neither of the two is
inductive without the other: that accepted comes first is read off the cursor, and the
cursor is honest because then a lifecycle report is never refused with a 409. `Covered`
holds both and what they need of requests that arrive late.

**`DispatchRuntimeProofs`** (`RuntimeAssumption`). `RuntimeImplementsStore` again makes the
worker, the terminal handler, the reconciler and reclaim clients of the store.
`RuntimeAlwaysSound` and `OutcomeAlwaysTruthful` hold with every fault and any number of
reclaims. `BaseInv` adds to the store `Owned` (between admission and insert nobody else
makes the repository busy, and until the commit the row the worker drives stays
launching), `Coded` (a session code belongs to one dispatch, and a row's code is that of
its own session, so that an exit found by code is that of the row's agent) and `Ended`
(a handler works on an agent that has ended). `OneAgentAlways` needs that no answer of
tmux and no relay connect is lost and nobody reclaims (`"tmux", "launch" \notin
FaultKinds`, `MaxReclaims = 0`), which is where the code does lose track of agents (section
5); it adds `AgentsLive`: an agent on its way or running belongs to a live row
of its repository, in a session that lives.

Of `RepoAdmission` (`AdmissionAssumption`): `AdmissionCorrect` and `SingleLiveHolds`. `SingleLive` alone is not inductive: an insert keeps it only if the
repository has stayed free since the live check. `AdmissionInv` adds `MutexRight` (a
call past the map has the repository's one mutex), `Exclusive` (a call that is inside
holds it) and `StillFree`. Every transaction but the insert adds no live row
(`TransactionsShrink`); the insert excludes other calls of the repository by
`OneInside`.

**`ClientProofs`**, connections (`SocketsAssumption`, `FeedAssumption`, `LinkAssumption`).
* `StreamAlwaysOne`: one live socket per relay connection, since the tickets under way
  and the sockets born of a connection are together at most one (`OneComing`), and a
  stream's connection is the one its manager holds (`ConnIsActive`).
* `FeedAlwaysSound`: an event is notified once across windows, since what was notified
  is recorded first (`Recorded`); unread marks are where attention is due, also in the
  store that the undo of a removal brings back (`Attention`).
* `AttachedAfterReconcile`, an action property: a terminal opens its socket only after the
  sessions of this very connection were applied. `Follows` ties the entry of the hook to
  the stored host, `Gated` the gate to an open socket that has brought its sessions.

**`ClientProofs`**, settings (`SyncAssumption`, `SnapAssumption`, `TplAssumption`,
`TestAssumption`, `AddAssumption`, `MonAssumption`): all six properties of run `settings`.
* `StoredStateAlwaysSafe` from `SyncInv`. That a compaction running beside an import or a
  restore spares its safety snapshot is not inductive: `Safe` says that it is the newest
  snapshot there is, since nothing takes another while the operation lasts, and that
  no compaction under way has decided to delete it (`LibSound`: what was decided before
  has smaller numbers). The assumption it needs is that one safety snapshot is kept.
  That a token is stored only with an endpoint that the user's own edits have put it beside
  (`TokenTrue`) follows from `mergeHosts` alone (`Replaced`). The user may put it anywhere:
  the host's page keeps the token when the address is edited, and `sy.home` counts that.
* `EditsAlwaysSurvive`, an action property: a field that enters the merge is not in
  conflict, so if it was edited the merge keeps it (`Pulled`); a module in conflict is
  left out as a whole, and recording the conflicts changes no setting (`PendingSet`).
* `NavigationAlwaysSound` and the three action properties of `RestoreAlwaysKeepsWork` from
  `SnapInv`. `Covered`: while a restore builds the snapshot that undo will bring back,
  every tab is in it or was opened meanwhile. `Matched`: a session found alive has the
  name of its record, although tmux hands out codes again. Of the session store the
  theorem says what a map by code can: it has a session of the pane's code, which is the
  pane's or one that another record was given under the same code.
* `HostPagesAlwaysSound`, the property of run `settings` about the pages of a host, for any
  number of tests, dialogs, requests and hosts. It joins one theorem per page:
  * `VerdictsAlwaysLast` from `TplInv`: a pending result waits for the live request of its
    row, and that request carries the result's host and word;
  * `HostsAlwaysSound` from `AddInv`: the call that saves a host was answered well only for
    a token its daemon took (`CallTrue`), also when the dialog has been edited since; the
    host's page may store an empty token, which needs no answer;
  * `MonitorAlwaysTruthful` from `MonInv`: snapshots are of the addresses in the key under
    which they were loaded (`DataTrue`), requests for other hosts belong to the data
    shown (`SecondaryTrue`), a draft is of the host shown (`DraftTrue`);
  * of the status line test, from `TestInv`: a stage spins only for a run that is waited for,
    or whose stream broke, which leaves it spinning for good (`SpinnerOfRun`).
* `FinishedRunAlwaysStands`, an action property, also from `TestInv`: one run holds the guard
  (`Guarded`), and as long as no request has outlived its timeout only that run works or
  listens (`Attended`) and the stages show what it has reported (`Reported`). Without
  `Reported` the failure of a stage could leave an earlier one spinning.

**`RebuildProofs`** (`PaneAssumption`, `RebuildAssumption`, `ProbeAssumption`).
* `NoTriggerEverLost`: a trigger of the provenance probe is served or owed. `ProbeInv` is
  about a pane's record (a directory is of the session that the record names), the
  answers under way, the scheduler and the gate.
* `OneOperationAlways`, `RefusedStaysDetached`, `UserChoiceAlwaysKept` from `EngineInv`: who
  runs holds the lock and has a request under way (`Holds`, `BatchHolds`); what an
  operation remembers (`Remembers`); and a pane that lives again is not the one an
  operation or a waiting group takes for lost (`ChoicesSpared`, as long as none was put
  back).
* `RefusedStaysDetached` is about every pane, not only that of the operation: a pane that
  comes to show a session shows one that its own operation, a batch group or a list of a
  running server leads to (`Led`), and a session turned down is of no running server
  (`Lineage`: a generation belongs to one server for ever, and no two operations have made
  the same session). Members of a group that follow an earlier, refused operation of
  their source are the exception (`FollowsEarlier`, section 5).
* `PanesAlwaysSound`, of engine and probes: every pane shows the work its record
  describes. `WorkTrue` follows the work from the lost session over the operation, the
  call under way and the created session to the pane and to the members of a group. It
  is about the work of a session, which the program cannot see: this is what
  the comparisons of binding, generation and host in the engine are for.

**`ShellProofs`** (`AppAssumption`, `ViewAssumption`, `SlotAssumption`, `OpenAssumption`).
* `DeliveredOnceAlways`, `InstallAlwaysWhole` from `AppInv`: a link or payload that waits has
  not been delivered, and before the application is ready there is no window to take one.
* `ViewsAlwaysSound` from `ViewsInv`. `ShownViewKept` speaks of a window whose calls have
  arrived; the invariant says of calls on their way that behind the last `open` of a
  mounted pane nothing harms it. The limit on background views needs that every view is
  in the order, that timers are of background views, and what discarding in that
  order takes away.
* `NamesAlwaysTrue`, `CommandsAlwaysSound`, `FilesAlwaysSound` and with them
  `ClicksAlwaysSound`, the property of run `shell`. Names: whatever names a session
  (frame, payload, answer) is a name it has had. Commands: a picker waits in the place of
  its click, and a run in progress names its host; only for a click on a host's page do the
  keys have to reach the host that was asked (section 5). Files: a click, a tab and a search
  know where they came from, the popup's accumulator is that of its
  file while it was shown alone, and a cached list has no directory twice.
**`TabProofs`** (`ContentAssumption`, `WsAssumption`, `SettingsAssumption`): `TabsAlwaysSound`,
`WorkspacesAlwaysSound`, `LockedTabAlwaysKept` and, because a window may load a stored state
of any earlier session, `SoundShellStaysSound`: the same from any state that satisfies the
invariant. Together with `ShellProofs` these are all properties of run `shell`.
* `ShellInv` is `Good(ui)`, the types of the captured drag and of the workspaces that a
  hand-over and a migration wait for. Neither property is inductive without the other:
  deleting a workspace closes the tabs on its list, so what stays in order and active
  depends on what the workspaces list (`WssGood`: each workspace once, no tab twice in one or
  in two that did not share it before, each with an active tab of its own), and whether a
  closed tab leaves the workspaces depends on the tab store. `WorkspacesSound` is an action
  property, since a workspace merged from another window may bring a tab that has moved
  meanwhile: from then on two list it, and every other step leaves no tab shared anew. `Good` also bounds the history of closed
  tabs, which `reopen` reads, and says that every tab has a pane.
* `Fine(s, n)` says that operation `n` of state `s` is `Good` and keeps every locked tab
  open and locked. One lemma per store operation shows it; handlers chain them, as the
  code does; the loops over tabs (close a list, insert a list) are inductions over their
  prefixes, stated without an operator parameter (`ClosedUpTo`, `InsertedUpTo`). A drag's
  capture may be stale when it ends: the drop operations are `Fine` for any capture.
* Lists: filtering yields a list of the type, keeps exactly the elements it should and
  their order, gets no longer, and keeps a list without duplicates; the loop with a set
  of those seen yields each once. Each is an induction over prefixes. The induction
  theorems of the library take an operator as a parameter, which the provers cannot
  instantiate, so they are made from the least prefix that fails (`Least`, from the
  well-foundedness of the naturals), a statement about sets.

**`StorageProofs`** (`PathAssumption`, `EditAssumption`, `BackupAssumption`): all four
properties of run `storage`, of editors, storage pane, backups and restores together
(`StorageSpec`), for any paths, panes, hosts, other windows' writes and restores under way.
The assumptions: paths are non-empty lists of names, closed under parents; untitled names
are not paths; a job of the trigger is not one of a restore. `StorageInv` is `EditInv` and
`BackupInv`.
* `EditorsAlwaysSound` from `EditInv`. `EditorsSound` alone is not inductive. A load that
  ends opens a buffer, which is attached only if the pane still shows that path
  (`ReadsShown`: a load or a load error belongs to what its mounted pane shows); between
  a handler and the rendering that follows it panes, buffers and attachments disagree,
  so the lemmas of the handlers promise `Pending` and one lemma, `RerenderGood`, takes
  every such state back to `Good`. A move maps many paths at once: that `Remap` is
  one to one below its directory and never leaves it are lemmas on sequences
  (`RemapFacts`, `UnderFacts`). `FsOK` says that the store has the directories above each
  path (`Rooted`), also after moves and restores.
* `EditsAlwaysKept`, an action property, from the same lemmas: each operator says which
  buffers stay on show (`Keeps`), and these facts chain. A move does not ask whether a
  buffer is open under the new name, and a first save or a rename asks before its awaits:
  both are the exception `NameTaken`.
* `NeverSelfForks` from `InTurn` and `Chained`: only the first job of a host has begun, and
  the record it has read is still the host's, since nobody else writes it; and the record
  names the newest snapshot acknowledged. An answer that is lost leaves record and
  acknowledged set alone, whatever the host has stored.
* `RestorePointAlwaysTree`, an action property, from `Points`. That the snapshot posted for
  a restore is the tree of the store is not true when it is posted: files change while
  it is read. The invariant says it conditionally, of every stage of the job: as long as
  the store is still at the revision the restore has noted, what the job has listed and
  read is the tree (`ListIsTree`), and so is the snapshot; the swap compares that very
  revision in its transaction. `JobOfRestore` ties a restore to one job in the queues of all
  hosts.

**Checked by TLC only.** All liveness (`Drained`, `RunsDecided`, `Returns`, `LinkRecovers`),
with the fairness and ENABLED it rests on, is beyond the prover. Every invariant
and every action property of a passing run is stated by a theorem.

## 5. Observations

Behaviours met while modelling that a maintainer may want to look at. They are part
of the models (the properties are stated so as to leave them out, and say so), and
have no run of their own.

Daemon:
* accepted: `AdvanceCursor` fails and is only logged, `MarkAcked` succeeds; the gate
  then stays shut on every later flush (`dispatch/report.go:433-436`);
* a relay that connects just after the connect timeout leaves its agent running
  beside the next execution's (`execution/launcher.go:116`);
* a restart breaks the relay's connection, the frame is lost and the shell keeps the
  row running (`execution/reconcile.go:115`);
* a reclaim that read a row before its launch was committed kills the session of a
  running execution (`execution/reconcile.go:134`);
* a dispatch claimed before a crash or a failed fetch has no row, so no reclaim
  finds it (`dispatch/worker.go:140`).

Tabs and windows:
* reordering the home tabs drops workspace tabs from `tabOrder`
  (`features/workspace/hooks.ts:149`);
* a tab dragged from workspace W to another while the hand-over of W is awaited is still in
  the payload; when W is merged back, both workspaces list it
  (`hooks/useElectronIpc.ts:58-62` imports the workspace as it was sent);
* the undo of a host's removal can put a locked tab in two workspaces
  (`lib/host-lifecycle.ts:105`, `204`; not in `WorkspaceShell`, which has no hosts);
* a window that reloads stays in `readyWebContentsIds`, so that a deep link may be
  sent to a page that does not listen (`electron/main.ts:48`);
* a new window closed before it is ready loses the tab torn off into it;
* a tab that is handed over with its workspace stays in `visitHistory`
  (`hooks/useWorkspaceWindowActions.ts:21-39`); when it comes back as the active tab, the next
  activation appends it again (`stores/useTabStore.ts:549`, which removes only the tab that
  is activated), although the comment above says "dedup"; harmless, and beyond the bound
  of run `shell`: the attempt to prove that visits are listed once found it;
* a view is kept in its old window after its pane is torn off, and closing a
  discarded view leaves its snapshot.

Clicks:
* quick commands of a workspace reach the active host when theirs was removed
  (`lib/slot-executor.ts:87`, `lib/infer-workspace-host-id.ts:28`);
* a second missing file shown while the popup is mounted reuses its token: a pending
  search of the first replaces the popup, and its hits are merged under the other
  file (`lib/register-modules/file-open-bootstrap.ts:127-139`);
* a rename closes a popover opened while it was answered
  (`features/workspace/hooks.ts:278`), and names no tmux generation.

Editors and storage:
* `markSaved` after the write marks what was typed during it as saved
  (`components/editor/hooks/useEditorSaveFlow.ts:214`);
* a move in the storage pane onto a name whose buffer is open overwrites the buffer; so
  does a first save or a rename in an editor when a buffer of the new name is opened after
  the check (`components/editor/hooks/useEditorSaveFlow.ts:115` before `151`,
  `useEditorRenameFlow.ts:66` before `112`), and its unsaved edits are lost; the first save
  also marks as saved what was typed while it was awaited (`152`);
* a restore reloads or closes editors of tabs locked after its guard
  (`lib/storage-backup/restore.ts:147`); when such an editor was still loading and the file
  is written again, the load ends later and opens a buffer to which no pane state refers
  (`lib/storage-backup/reconcile-panes.ts:126-130`,
  `components/editor/hooks/useEditorPaneLoadState.ts:96`), which stays until a pane shows that
  path (`orphan`; also found by the proof);
* a snapshot whose answer is lost makes the next one a fork.

Rebuild:
* a host that is edited away and back, or a session that is put back, makes a pane
  that an operation still remembers a dead one again, which the operation then points
  elsewhere (`past.again`; `UserChoiceKept` and `PaneShowsItsWork` leave it out);
* a pane of an unknown generation that is adopted only after a create lost its answer
  takes the generation of whatever the code means by then (`past.told`);
* a batch group that is refused, because its source shows another session by now, still
  re-points its other members to the session of the source's earlier operation, whatever
  came of that one's resume: also when it was refused for its generation, after which the
  comment on `StepResult` says that nothing may attach it (`lib/rebuild/batch.ts:181-215`,
  `lib/rebuild/engine.ts:40-46`).

Settings and hosts:
* fields without a baseline are taken from the host silently, twice over
  (`lib/sync/three-way-merge.ts:112`), and two devices that sync at once can lose an
  update;
* capture matches terminated panes by code only (`lib/snapshot/capture.ts:67`), and
  tabs opened while the previous snapshot is built are not in it;
* the conflict banner keys choices by field only;
* editing a host's address keeps its token, which is then used with the new endpoint, where
  a sync would have cleared it (`components/hosts/OverviewSection.tsx:131`, `136`,
  `stores/useHostStore.ts:102-109`, `lib/sync/contributors/hosts.ts`);
* a late health answer can reset the dialog that adds a host while it saves, and a
  token may be validated against one address and stored for another, in the dialog and on
  the host's page (`components/hosts/form-fields.tsx:112-117`);
* a status line test whose stream breaks leaves its stages running, and a response after
  the timeout writes stages and keeps its subscription
  (`hooks/useStatuslineTest.ts:96`, `287`);
* of two sessions of one host with the same code, which a restart of tmux between two
  calls brings about, a restore leaves one in the session store
  (`lib/snapshot/restore.ts:390-403`), and a section mounted again during a capture may
  start another (`components/settings/SnapshotSettingsSection.tsx:296-300`);
* the answer to a monitor configuration overwrites a draft typed meanwhile
  (`components/MemoryMonitorPage.tsx:262`).

Connections:
* a late `onclose` of an earlier relay socket clears the entry of the newer one
  (`hooks/useRelayWsManager.ts:71`), a failed ticket is not asked for again, history
  that loads late overwrites live messages, and a control request is marked answered
  even when its socket could not take the answer;
* a lookup of a session's tab ignores the host (`lib/pane-tree.ts:85`);
* clearing the record of seen events in one window lets a window that lags notify
  again.

## 6. Not modelled

Payloads, artifacts, prompts, message contents, page contents, names' spelling (data
no property distinguishes); reading APIs; dependency wiring; geometry of split panes;
rendering; text editors and the Markdown round trip; themes, locales, layouts and
registries (each operation is one assignment, with no other actor); forms over single
requests on the host page; `Stop` of the daemon (a crash between two dispatches). In
the daemon: a restart of the tmux server as the dispatch runtime sees it, the race
between `clearResult` and the reader of a terminal frame, full subscriber channels,
the hand-off locks, and the modules of the last row of the daemon's inventory; the
client modules treat them as external and let them answer in any way their interface
allows. `localStorage` is atomic per handler and instantly shared. Windows other than
the modelled one are their messages (`WorkspaceShell`, `EditorStorage`), except in
`AgentFeed`, `BrowserViews` and `AppShell`, which have several.

## 7. Plan

1. `StreamBridge` (bounded channels, the two goroutines of `handleCliBridge`, the
   hand-off orchestrator), then `AgentFrames`, `BrokerSweep`, `SyncStore`.
2. A tmux restart in `DispatchRuntime`, and with it codes that are used again
   (`execution/store.go:235`).
3. The editors of a restore in which a load is under way as an instance of its own, so that
   `orphan` is met by TLC too.
