------------------------- MODULE WorkspaceSnapshot -------------------------
(***************************************************************************)
(* Workspace snapshots: capture of the tabs, the workspaces and the tmux   *)
(* sessions behind their panes; the three restores and undo; the settings  *)
(* section that starts them.  Requests to a host are awaits: the user, the *)
(* host and another operation act between them.                            *)
(*                                                                         *)
(* A tab has one pane, a tmux session of some host, and there is one       *)
(* workspace.  A session is [host, code, name]; tmux hands out codes from  *)
(* the start again after its server restarts.                              *)
(***************************************************************************)
EXTENDS Integers, FiniteSets

CONSTANTS SnapHosts, Codes, Names, SnapTabs, None

ASSUME SnapAssumption == None \notin {"snapshot", "rebuild"}

VARIABLES desk,     \* tab store and workspace store
          tmux,     \* live sessions of all hosts
          saved,    \* the stored snapshot and the one before the last restore
          caps,     \* captures under way, each with the tabs it began with
          job,      \* a restore, rebuild or undo under way
          opLock,   \* holder of the operation lock of the rebuild store
          section,  \* the mounted settings section: busy flag and its snapshot
          seenSessions  \* session store

snapVars == <<desk, tmux, saved, caps, job, opLock, section, seenSessions>>

Off == [at |-> "off"]
Keys == SnapHosts \X Codes
KeyOf(p) == <<p.host, p.code>>
Pane(s) == [host |-> s.host, code |-> s.code, name |-> s.name, term |-> FALSE]

\* The navigation references a snapshot or the stores hold.
Consistent(d) ==
    /\ d.ws \subseteq DOMAIN d.tabs
    /\ d.active \in DOMAIN d.tabs \cup {None}
    /\ d.wsActive \in d.ws \cup {None}

NoDesk == [tabs |-> << >>, active |-> None, ws |-> {}, wsActive |-> None]

\* A snapshot in storage that another version of the program wrote: its
\* workspace names a tab the snapshot does not hold.
Foreign(t) == [desk |-> [NoDesk EXCEPT !.ws = {t}], meta |-> << >>]

\* A snapshot of an earlier session of the program, of tabs on live sessions
\* whose directories were known.
SnapOf(f) ==
    [desk |-> [NoDesk EXCEPT !.tabs = f, !.ws = SnapTabs],
     meta |-> [k \in {KeyOf(f[t]) : t \in SnapTabs} |->
                 [name |-> f[CHOOSE t \in SnapTabs : KeyOf(f[t]) = k].name, restorable |-> TRUE]]]

Earlier ==
    {SnapOf(f) : f \in {g \in [SnapTabs -> [host : SnapHosts, code : Codes, name : Names, term : {FALSE}]] :
        \A t, u \in SnapTabs : g[t].host = g[u].host => (g[t].code = g[u].code <=> g[t].name = g[u].name)}}

SnapInit ==
    /\ desk = NoDesk /\ tmux = {} /\ seenSessions = {}
    /\ saved \in {[snap |-> s, prev |-> None] : s \in {None} \cup {Foreign(t) : t \in SnapTabs} \cup Earlier}
    /\ caps = {} /\ job = Off /\ opLock = None
    /\ section = [busy |-> FALSE, snap |-> saved.snap, edit |-> None]

-----------------------------------------------------------------------------
(* The user's tabs and the hosts' sessions.                                *)

\* The user opens a tab on a live session.
OpenTab(t, s) ==
    /\ t \notin DOMAIN desk.tabs /\ s \in tmux
    /\ desk' = [tabs |-> [u \in DOMAIN desk.tabs \cup {t} |-> IF u = t THEN Pane(s) ELSE desk.tabs[u]],
                active |-> t, ws |-> desk.ws \cup {t}, wsActive |-> t]
    /\ job' = IF job.at = "build" THEN [job EXCEPT !.opened = @ \cup {t}] ELSE job
    /\ UNCHANGED <<tmux, saved, caps, opLock, section, seenSessions>>

CloseSnapTab(t) ==
    /\ t \in DOMAIN desk.tabs
    /\ LET left == DOMAIN desk.tabs \ {t}
           next(x) == IF x = t THEN None ELSE x
       IN desk' = [tabs |-> [u \in left |-> desk.tabs[u]], active |-> next(desk.active),
                   ws |-> desk.ws \ {t}, wsActive |-> next(desk.wsActive)]
    /\ UNCHANGED <<tmux, saved, caps, job, opLock, section, seenSessions>>

\* The lowest code that is free; a restart of tmux frees them all.
NextCode(h, live) ==
    {c \in Codes : /\ \A s \in live : s.host = h => s.code # c
                   /\ \A d \in Codes : d < c => \E s \in live : s.host = h /\ s.code = d}

SessionStarts(h, n) ==
    /\ \A s \in tmux : s.host = h => s.name # n
    /\ \E c \in NextCode(h, tmux) : tmux' = tmux \cup {[host |-> h, code |-> c, name |-> n]}
    /\ UNCHANGED <<desk, saved, caps, job, opLock, section, seenSessions>>

\* The sessions of a host are gone; its panes are told so if connected.
TmuxRestarts(h, ended) ==
    /\ \E s \in tmux : s.host = h
    /\ tmux' = {s \in tmux : s.host # h}
    /\ LET over(t) == desk.tabs[t].term \/ (ended /\ desk.tabs[t].host = h)
       IN desk' = [desk EXCEPT !.tabs = [t \in DOMAIN @ |-> [desk.tabs[t] EXCEPT !.term = over(t)]]]
    /\ seenSessions' = {s \in seenSessions : s.host # h}
    /\ UNCHANGED <<saved, caps, job, opLock, section>>

\* A rebuild of a pane takes the same lock.
OtherOperation ==
    /\ opLock \in {None, "rebuild"}
    /\ opLock' = IF opLock = None THEN "rebuild" ELSE None
    /\ UNCHANGED <<desk, tmux, saved, caps, job, section, seenSessions>>

-----------------------------------------------------------------------------
(* Building a snapshot.                                                    *)

PaneKeys(d) == {KeyOf(d.tabs[t]) : t \in DOMAIN d.tabs}
HostsOf(d) == {k[1] : k \in PaneKeys(d)}

collectTmuxPanesByHost(d, h) == {k \in PaneKeys(d) : k[1] = h}

CachedName(d, k) == CHOOSE n \in Names : \E t \in DOMAIN d.tabs : KeyOf(d.tabs[t]) = k /\ d.tabs[t].name = n

\* One host's records: what the list says of a live code, else what the pane
\* remembered.  The directory of a session may be unknown.
HostMeta(d, h, live, known) ==
    [k \in collectTmuxPanesByHost(d, h) |->
        LET s == {x \in live : KeyOf(x) = k}
        IN IF s = {} THEN [name |-> CachedName(d, k), restorable |-> FALSE]
           ELSE [name |-> (CHOOSE x \in s : TRUE).name, restorable |-> known]]

Merge(f, g) == [k \in DOMAIN f \cup DOMAIN g |-> IF k \in DOMAIN g THEN g[k] ELSE f[k]]

\* Seeded fault: tabs whose session has ended are left out.
BugBuilding(d) ==
    LET live == {t \in DOMAIN d.tabs : ~d.tabs[t].term}
        k == [d EXCEPT !.tabs = [t \in live |-> d.tabs[t]], !.ws = @ \cap live, !.active = None, !.wsActive = None]
    IN [desk |-> k, meta |-> << >>, hosts |-> HostsOf(k)]

\* buildSnapshot: the tabs are those of before the first request.
Building(d) == [desk |-> d, meta |-> << >>, hosts |-> HostsOf(d)]

\* A host answers, with or without directories, or cannot be reached.
SessionLists(h) == {{}, {s \in tmux : s.host = h}}

BuildHost(b, h, live, known) ==
    [b EXCEPT !.meta = Merge(@, HostMeta(b.desk, h, live, known)), !.hosts = @ \ {h}]

\* A section that was mounted again does not know of an earlier capture.
handleCapture ==
    /\ ~section.busy /\ opLock = None
    /\ section' = [section EXCEPT !.busy = TRUE]
    /\ caps' = caps \cup {[b |-> Building(desk), mine |-> TRUE]}
    /\ UNCHANGED <<desk, tmux, saved, job, opLock, seenSessions>>

CaptureHost(c, h) ==
    /\ h \in c.b.hosts
    /\ \E live \in SessionLists(h), known \in BOOLEAN :
          caps' = (caps \ {c}) \cup {[c EXCEPT !.b = BuildHost(@, h, live, known)]}
    /\ UNCHANGED <<desk, tmux, saved, job, opLock, section, seenSessions>>

\* Only the section that started it is told.
Captured(c) ==
    /\ c.b.hosts = {}
    /\ saved' = [saved EXCEPT !.snap = [desk |-> c.b.desk, meta |-> c.b.meta]]
    /\ section' = IF c.mine THEN [section EXCEPT !.busy = FALSE, !.snap = saved'.snap] ELSE section
    /\ caps' = caps \ {c}
    /\ UNCHANGED <<desk, tmux, job, opLock, seenSessions>>

-----------------------------------------------------------------------------
(* The section.                                                            *)

\* The user leaves the settings and comes back: a new section reads storage.
Remount ==
    /\ section.busy
    /\ section' = [busy |-> FALSE, snap |-> saved.snap, edit |-> None]
    /\ caps' = {[c EXCEPT !.mine = FALSE] : c \in caps}
    /\ job' = IF job # Off THEN [job EXCEPT !.mine = FALSE] ELSE job
    /\ UNCHANGED <<desk, tmux, saved, opLock, seenSessions>>

\* A cell cannot be opened for editing while an operation runs.
EditCell(k) ==
    /\ ~section.busy /\ opLock = None /\ section.snap # None /\ k \in DOMAIN section.snap.meta
    /\ section' = [section EXCEPT !.edit = k]
    /\ UNCHANGED <<desk, tmux, saved, caps, job, opLock, seenSessions>>

\* Enter or blur commits once, Escape cancels; a directory makes the record
\* restorable, an empty one the opposite.  What is stored is read again; a
\* commit is dropped when an operation has begun meanwhile.
handleCommitCwd(known) ==
    /\ section.edit # None
    /\ \/ /\ ~section.busy /\ opLock = None /\ saved.snap # None /\ section.edit \in DOMAIN saved.snap.meta
          /\ saved' = [saved EXCEPT !.snap.meta[section.edit].restorable = known]
          /\ section' = [section EXCEPT !.snap = saved'.snap, !.edit = None]
       \/ section' = [section EXCEPT !.edit = None] /\ UNCHANGED saved
    /\ UNCHANGED <<desk, tmux, caps, job, opLock, seenSessions>>

Start(kind, s) ==
    /\ ~section.busy /\ opLock = None /\ job = Off
    /\ section' = [section EXCEPT !.busy = TRUE]
    /\ opLock' = "snapshot"
    /\ job' = [at |-> "ensure", kind |-> kind, snap |-> s, hosts |-> {k[1] : k \in DOMAIN s.meta},
               create |-> {}, remap |-> << >>, opened |-> {}, mine |-> TRUE]
    /\ UNCHANGED <<desk, tmux, saved, caps, seenSessions>>

\* Rebuild all sessions, restore the layout, restore everything.
StartRestore(kind) == section.snap # None /\ Start(kind, section.snap)

undoLastRestore == saved.prev # None /\ Start("all", saved.prev)

\* The operation ends, well or not: lock and section are released.
Release == opLock' = None /\ job' = Off
           /\ section' = IF job.mine THEN [section EXCEPT !.busy = FALSE, !.snap = saved'.snap] ELSE section

-----------------------------------------------------------------------------
(* ensureSessions.                                                         *)

Failed == [status |-> "failed"]
Reattached(s) == [status |-> "reattached", to |-> s]
Rebuilt(s) == [status |-> "rebuilt", to |-> s]

\* Seeded fault: a live session with the record's code is the session.
BugAlive(k, m, live) == {s \in live : KeyOf(s) = k}

\* A survivor has the record's code and its name.
Alive(k, m, live) == {s \in live : KeyOf(s) = k /\ s.name = m.name}

\* One list per host; a host that cannot be reached fails all its records.
EnsureList(h) ==
    LET mine == {k \in DOMAIN job.snap.meta : k[1] = h}
        alive(k) == Alive(k, job.snap.meta[k], {s \in tmux : s.host = h})
        dead == {k \in mine : alive(k) = {} /\ job.snap.meta[k].restorable /\ job.kind # "layout"}
    IN /\ job.at = "ensure" /\ h \in job.hosts /\ job.create = {}
       /\ \/ job' = [job EXCEPT !.hosts = @ \ {h}, !.create = dead,
                       !.remap = Merge(@, [k \in mine \ dead |->
                             IF alive(k) = {} THEN Failed ELSE Reattached(CHOOSE s \in alive(k) : TRUE)])]
          \/ job' = [job EXCEPT !.hosts = @ \ {h}, !.remap = Merge(@, [k \in mine |-> Failed])]
       /\ UNCHANGED <<desk, tmux, saved, caps, opLock, section, seenSessions>>

\* createSession: the host takes the next code, and another name when the
\* record's is in use; the answer is what counts.
EnsureCreate(k) ==
    /\ job.at = "ensure" /\ k \in job.create
    /\ \/ \E c \in NextCode(k[1], tmux), n \in Names :
             LET s == [host |-> k[1], code |-> c, name |-> n]
                 taken(x) == \E u \in tmux : u.host = k[1] /\ u.name = x
             IN /\ ~taken(n) /\ (n = job.snap.meta[k].name \/ taken(job.snap.meta[k].name))
                /\ tmux' = tmux \cup {s}
                /\ job' = [job EXCEPT !.create = @ \ {k}, !.remap = Merge(@, [x \in {k} |-> Rebuilt(s)])]
       \/ /\ job' = [job EXCEPT !.create = @ \ {k}, !.remap = Merge(@, [x \in {k} |-> Failed])]
          /\ UNCHANGED tmux
    /\ UNCHANGED <<desk, saved, caps, opLock, section, seenSessions>>

Ensured == job.at = "ensure" /\ job.hosts = {} /\ job.create = {}

\* A failed record ends the pane; any other points it to its session.
remapPane(p, remap, onlyTerminated) ==
    IF KeyOf(p) \notin DOMAIN remap \/ (onlyTerminated /\ ~p.term) THEN p
    ELSE IF remap[KeyOf(p)].status = "failed" THEN [p EXCEPT !.term = TRUE]
    ELSE Pane(remap[KeyOf(p)].to)

remapLayoutSessions(tabs, remap, onlyTerminated) ==
    [t \in DOMAIN tabs |-> remapPane(tabs[t], remap, onlyTerminated)]

\* The sessions that records were found to be, or were rebuilt as.
Found(remap) == {remap[k].to : k \in {x \in DOMAIN remap : remap[x] # Failed}}

\* Seeded fault: the old codes are dropped after the sessions are added.
BugSyncSessionStore(remap) ==
    {{s \in seenSessions \cup Found(remap) : KeyOf(s) \notin DOMAIN remap}}

\* The store is a map by code: the old codes make room for the sessions the
\* panes now show, of which one remains for each code, the last that is set.
syncSessionStore(remap) ==
    {{s \in seenSessions : KeyOf(s) \notin DOMAIN remap /\ \A n \in Found(remap) : KeyOf(n) # KeyOf(s)} \cup last :
        last \in {l \in SUBSET Found(remap) : \A n \in Found(remap) : \E s \in l : \A u \in l : KeyOf(u) = KeyOf(n) <=> u = s}}

\* Seeded fault: the panes that run are pointed to the snapshot's sessions too.
BugRebuildTabs(d, remap) == [d EXCEPT !.tabs = remapLayoutSessions(@, remap, FALSE)]

\* Only the panes that have ended follow a rebuilt session.
RebuildTabs(d, remap) == [d EXCEPT !.tabs = remapLayoutSessions(@, remap, TRUE)]

rebuildAllSessions ==
    /\ Ensured /\ job.kind = "sessions"
    /\ desk' = RebuildTabs(desk, job.remap)
    /\ seenSessions' \in syncSessionStore(job.remap)
    /\ UNCHANGED <<tmux, saved, caps>>
    /\ Release

-----------------------------------------------------------------------------
(* applySnapshotRestore.                                                   *)

\* The world before the restore is built only now, after the sessions.
StartBuild ==
    /\ Ensured /\ job.kind # "sessions"
    /\ job' = [at |-> "build", kind |-> job.kind, snap |-> job.snap, remap |-> job.remap,
               b |-> Building(desk), opened |-> {}, mine |-> job.mine]
    /\ UNCHANGED <<desk, tmux, saved, caps, opLock, section, seenSessions>>

PrevHost(h) ==
    /\ job.at = "build" /\ h \in job.b.hosts
    /\ \E live \in SessionLists(h), known \in BOOLEAN : job' = [job EXCEPT !.b = BuildHost(@, h, live, known)]
    /\ UNCHANGED <<desk, tmux, saved, caps, opLock, section, seenSessions>>

\* Seeded fault: an inconsistent snapshot is written too.
BugReplaceTabSnapshot(d, target, throws) == IF throws THEN d ELSE target

\* replaceTabSnapshot: nothing is touched for an inconsistent snapshot, and
\* a write that throws puts both stores back.
replaceTabSnapshot(d, target, throws) == IF throws \/ ~Consistent(target) THEN d ELSE target

applySnapshotRestore ==
    LET target == [job.snap.desk EXCEPT !.tabs = remapLayoutSessions(@, job.remap, FALSE)]
    IN /\ job.at = "build" /\ job.b.hosts = {}
       /\ saved' = [saved EXCEPT !.prev = [desk |-> job.b.desk, meta |-> job.b.meta]]
       /\ \E throws \in BOOLEAN :
             /\ desk' = replaceTabSnapshot(desk, target, throws)
             /\ seenSessions' \in IF throws \/ ~Consistent(target) THEN {seenSessions} ELSE syncSessionStore(job.remap)
       /\ Release
       /\ UNCHANGED <<tmux, caps>>

SnapInput ==
    \/ \E t \in SnapTabs : CloseSnapTab(t) \/ \E s \in tmux : OpenTab(t, s)
    \/ \E h \in SnapHosts : (\E ended \in BOOLEAN : TmuxRestarts(h, ended)) \/ (\E n \in Names : SessionStarts(h, n))
    \/ handleCapture \/ Remount \/ undoLastRestore \/ OtherOperation
    \/ (\E k \in Keys : EditCell(k)) \/ (\E known \in BOOLEAN : handleCommitCwd(known))
    \/ \E kind \in {"sessions", "layout", "all"} : StartRestore(kind)

SnapProgress ==
    \/ \E h \in SnapHosts : EnsureList(h) \/ PrevHost(h) \/ \E c \in caps : CaptureHost(c, h)
    \/ \E k \in Keys : job.at = "ensure" /\ EnsureCreate(k)
    \/ (\E c \in caps : Captured(c)) \/ rebuildAllSessions \/ StartBuild \/ applySnapshotRestore

SnapSpec == SnapInit /\ [][SnapInput \/ SnapProgress]_snapVars

-----------------------------------------------------------------------------
(* Properties.                                                             *)

SnapTypeOK ==
    /\ DOMAIN desk.tabs \subseteq SnapTabs
    /\ \A t \in DOMAIN desk.tabs : KeyOf(desk.tabs[t]) \in Keys /\ desk.tabs[t].name \in Names
    /\ \A s, u \in tmux : KeyOf(s) = KeyOf(u) => s = u
    /\ opLock \in {None, "snapshot", "rebuild"} /\ (job # Off <=> opLock = "snapshot")

\* Whatever snapshots are restored and undone, and whichever write fails, the
\* tabs a workspace or the navigation names are open.
NavigationSound == SnapTypeOK /\ Consistent(desk)

\* A restore loses no tab for good: what it replaces is in the snapshot that
\* undo restores, except the tabs opened while that snapshot was being built.
UndoHoldsTabs ==
    applySnapshotRestore /\ desk' # desk =>
          \A t \in DOMAIN desk.tabs : t \in DOMAIN saved'.prev.desk.tabs \/ t \in job.opened

\* A pane that a restore points to a surviving session still shows a session
\* of the recorded name, although codes are handed out again after a restart
\* of tmux; and the session store knows the session a pane shows, unless tmux
\* has meanwhile given its code to the session of another record.
PaneKeepsItsSession ==
    applySnapshotRestore /\ desk' # desk =>
          \A t \in DOMAIN desk'.tabs :
             LET p == desk'.tabs[t]
                 k == KeyOf(job.snap.desk.tabs[t])
             IN ~p.term /\ k \in DOMAIN job.remap =>
                  /\ \E s \in seenSessions' :
                        /\ KeyOf(s) = KeyOf(p)
                        /\ s.name # p.name => \E j \in DOMAIN job.remap \ {k} : job.remap[j] # Failed /\ job.remap[j].to = s
                  /\ job.remap[k].status = "reattached" => p.name = job.snap.meta[k].name

\* Rebuilding sessions closes no tab and leaves alone every pane that runs,
\* the ones opened while the sessions were being created included.
RebuildLeavesLivePanes ==
    rebuildAllSessions =>
          /\ DOMAIN desk'.tabs = DOMAIN desk.tabs
          /\ \A t \in DOMAIN desk.tabs : ~desk.tabs[t].term => desk'.tabs[t] = desk.tabs[t]

\* Restoring loses nothing that runs: UndoHoldsTabs, PaneKeepsItsSession and
\* RebuildLeavesLivePanes, whatever the user does during the awaits.
RestoreKeepsWork == [][UndoHoldsTabs /\ PaneKeepsItsSession /\ RebuildLeavesLivePanes]_snapVars
=============================================================================
