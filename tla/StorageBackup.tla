--------------------------- MODULE StorageBackup ----------------------------
(***************************************************************************)
(* Backups of the In-App store to a host and the restore of a snapshot:    *)
(* the debounced trigger, the backup jobs of a host (one after another),   *)
(* the restore with its safety snapshot and its revision check, and the    *)
(* reconciliation of the panes that showed what the restore replaced.      *)
(* The host's answers are external: a request may fail, before or after    *)
(* the host stored what it was sent.                                       *)
(***************************************************************************)
EXTENDS EditorStorage, SequencesExt

CONSTANTS Hosts,
          Restores,    \* restores that may be under way at once
          MaxJobs      \* bound on the snapshots the hosts keep

ASSUME BackupAssumption == "auto" \notin Restores

VARIABLE bk   \* backup store, trigger, restores and the hosts' snapshots

backupVars == <<editVars, bk>>

NoBackup == [status |-> "idle", last |-> 0, tree |-> None]

\* A host has the snapshot of another device; the initial check of the
\* trigger has queued a backup for the active host.
BackupStart(h, tree) ==
    bk = [byHost |-> [x \in Hosts |-> NoBackup],
          jobs |-> [x \in Hosts |-> IF x = h THEN <<[by |-> "auto", at |-> "queued"]>> ELSE <<>>],
          snaps |-> <<[host |-> h, mine |-> FALSE, parent |-> 0, tree |-> tree]>>,
          acked |-> {}, active |-> h, timer |-> None, restores |-> [r \in Restores |-> Idle]]

BackupInit ==
    \E h \in Hosts, c \in Contents, p \in {q \in Paths : Len(q) = 1} :
       BackupStart(h, [q \in {p} |-> [dir |-> FALSE, c |-> c]])

-----------------------------------------------------------------------------
(* createBackupAutoTrigger.                                                *)

\* Every mutation of this window restarts the timer for the host of now.
onMutation(b) == [b EXCEPT !.timer = b.active]

\* Switching the host drops a backup that was scheduled for the other one.
SwitchHost(h) ==
    /\ h # bk.active
    /\ bk' = [bk EXCEPT !.active = h, !.timer = None]
    /\ UNCHANGED editVars

Enqueue(b, h, by) == [b EXCEPT !.jobs[h] = Append(@, [by |-> by, at |-> "queued"])]

TimerFires ==
    /\ bk.timer # None
    /\ bk' = [Enqueue(bk, bk.timer, "auto") EXCEPT !.timer = None]
    /\ UNCHANGED editVars

-----------------------------------------------------------------------------
(* runBackup, the jobs of one host one after another.                      *)

\* Job i is over.  The restore that waits for it gets its result.
Settle(b, h, i, point) ==
    LET by == b.jobs[h][i].by
    IN [b EXCEPT !.jobs[h] = RemoveAt(b.jobs[h], i),
                 !.restores = [r \in Restores |->
                    IF b.restores[r].at # "point" \/ by # r THEN b.restores[r]
                    ELSE IF point = 0 THEN Idle
                    ELSE [b.restores[r] EXCEPT !.at = "fetch", !.point = point]]]

\* Seeded fault: the jobs of a host do not wait for each other.
BugRunExclusive(h) == DOMAIN bk.jobs[h]

\* The job of the host that may go on: the first.
runExclusive(h) == DOMAIN bk.jobs[h] \cap {1}

Becomes(h, i, job) == [bk EXCEPT !.jobs[h][i] = job]

\* The store's record of the host is read first, then the tree is listed.
JobStart(h) == \E i \in runExclusive(h) :
    LET job == bk.jobs[h][i]
    IN /\ job.at = "queued"
       /\ bk' = Becomes(h, i, [by |-> job.by, at |-> "read", cur |-> bk.byHost[h],
                               list |-> Tree(fs), got |-> <<>>])
       /\ UNCHANGED editVars

\* The files of the list are read one by one; one that is gone ends the job.
buildManifest(h, k) == \E i \in runExclusive(h) :
    LET job == bk.jobs[h][i]
    IN /\ job.at = "read" /\ k \in DOMAIN job.list \ DOMAIN job.got
       /\ bk' = IF job.list[k].dir
                THEN Becomes(h, i, [job EXCEPT !.got = With(job.got, k, job.list[k])])
                ELSE IF IsFile(fs, k)
                THEN Becomes(h, i, [job EXCEPT !.got = With(job.got, k, [dir |-> FALSE, c |-> fs.files[k].c])])
                ELSE [Settle(bk, h, i, 0) EXCEPT !.byHost[h].status = "error"]
       /\ UNCHANGED editVars

\* An unchanged manifest is not posted again, unless a restore needs a point.
JobReady(h) == \E i \in runExclusive(h) :
    LET job == bk.jobs[h][i]
    IN /\ job.at = "read" /\ DOMAIN job.list = DOMAIN job.got
       /\ bk' = IF job.by = "auto" /\ job.got = job.cur.tree
                THEN Settle(bk, h, i, job.cur.last)
                ELSE [Becomes(h, i, [job EXCEPT !.at = "post"])
                        EXCEPT !.byHost[h].status = "backing-up"]
       /\ UNCHANGED editVars

Stored(h, job) == Append(bk.snaps, [host |-> h, mine |-> TRUE, parent |-> job.cur.last, tree |-> job.got])

JobPosted(h) == \E i \in runExclusive(h) :
    LET job == bk.jobs[h][i]
        id == Len(bk.snaps) + 1
    IN /\ job.at = "post" /\ id <= MaxJobs
       /\ bk' = [Settle(bk, h, i, id)
                   EXCEPT !.snaps = Stored(h, job), !.acked = bk.acked \cup {id},
                          !.byHost[h] = [status |-> "idle", last |-> id, tree |-> job.got]]
       /\ UNCHANGED editVars

\* The answer is lost, and with it what the host may have stored.
JobFails(h) == \E i \in runExclusive(h), stored \in BOOLEAN :
    /\ bk.jobs[h][i].at = "post"
    /\ stored => Len(bk.snaps) < MaxJobs
    /\ bk' = [Settle(bk, h, i, 0)
                EXCEPT !.snaps = IF stored THEN Stored(h, bk.jobs[h][i]) ELSE bk.snaps,
                       !.byHost[h].status = "error"]
    /\ UNCHANGED editVars

\* Another device backed up: the badge goes idle, the record stays.
applyRemoteBackupDone(h) ==
    /\ bk.byHost[h].status # "idle"
    /\ bk' = [bk EXCEPT !.byHost[h].status = "idle"]
    /\ UNCHANGED editVars

-----------------------------------------------------------------------------
(* restoreSnapshot.                                                        *)

findRestoreConflicts ==
    {p \in Panes : /\ ed.shows[p] # None
                   /\ p \in ed.lock \/ (Has(ed, ed.shows[p]) /\ Dirty(ed.bufs[ed.shows[p]]))}

Goes(r, st) == bk' = [bk EXCEPT !.restores[r] = st]

\* The history lists the snapshots of the active host.
History == {s \in DOMAIN bk.snaps : bk.snaps[s].host = bk.active}

\* The button of the snapshot's modal; a restore under way is forgotten by the
\* view when the selection changes, and runs on.
RestoreEnabled(r) == bk.byHost[bk.active].status # "backing-up" /\ bk.restores[r] = Idle

handleRestore(r, s) ==
    /\ s \in History /\ RestoreEnabled(r)
    /\ findRestoreConflicts = {}
    /\ Goes(r, [at |-> "revision", snap |-> s, host |-> bk.active, rev |-> 0,
                before |-> None, point |-> 0, plan |-> <<>>])
    /\ UNCHANGED editVars

RestoreRevision(r) ==
    /\ bk.restores[r].at = "revision"
    /\ Goes(r, [bk.restores[r] EXCEPT !.at = "manifest", !.rev = fs.rev])
    /\ UNCHANGED editVars

RestoreManifest(r) ==
    /\ bk.restores[r].at = "manifest"
    /\ bk' = Enqueue([bk EXCEPT !.restores[r].before = Tree(fs), !.restores[r].at = "point"],
                     bk.restores[r].host, r)
    /\ UNCHANGED editVars

\* The guard again, after the last blob; an error ends the restore.
RestoreFetched(r) ==
    /\ bk.restores[r].at = "fetch"
    /\ \/ findRestoreConflicts = {} /\ Goes(r, [bk.restores[r] EXCEPT !.at = "swap"])
       \/ Goes(r, Idle)
    /\ UNCHANGED editVars

\* diffManifests and planReconciliation: what a pane shows was replaced, and
\* is gone when the snapshot has no file there.
planReconciliation(st, tree) ==
    LET differs(k) == (k \in DOMAIN st.before) /\ (k \in DOMAIN tree => tree[k] # st.before[k])
        shown == {p \in Panes : ed.shows[p] \in Paths /\ differs(ed.shows[p])}
        Action(p) == LET k == ed.shows[p]
                     IN [p |-> p, k |-> k, gone |-> k \notin DOMAIN tree \/ tree[k].dir]
    IN {[i \in DOMAIN s |-> Action(s[i])] : s \in SetToSeqs(shown)}

\* The panes are closed (a locked tab stays), and their editors with them.
CloseEditors(e, acts) ==
    LET ps == {a.p : a \in acts}
        e1 == [e EXCEPT !.shows = [p \in Panes |-> IF p \in ps \ e.lock THEN None ELSE e.shows[p]],
                        !.ousted = e.ousted \cup (ps \cap e.lock)]
    IN closePaneState(e1, ps, [p \in ps |-> (CHOOSE a \in acts : a.p = p).k])

\* applyReconciliation up to its next await: closes need none.
Closes(plan) == {n \in 0..Len(plan) : /\ \A i \in 1..n : plan[i].gone
                                       /\ n < Len(plan) => ~plan[n + 1].gone}

applyReconciliation(r, e, st, plan) == \E n \in Closes(plan) :
    /\ Changes(CloseEditors(e, {plan[i] : i \in 1..n}))
    /\ Goes(r, IF n = Len(plan) THEN Idle
               ELSE [st EXCEPT !.at = "reload", !.plan = SubSeq(plan, n + 1, Len(plan))])

\* Seeded fault: the store is replaced without a look at its revision.
BugRestoreSwap(r) ==
    LET st == bk.restores[r]
        tree == bk.snaps[st.snap].tree
    IN /\ st.at = "swap" /\ Grows
       /\ fs' = replaceTree(fs, tree)
       /\ \E plan \in planReconciliation(st, tree) :
             applyReconciliation(r, [ed EXCEPT !.ph = {}], st, plan)
       /\ UNCHANGED <<save, del>>

RestoreSwap(r) ==
    LET st == bk.restores[r]
        tree == bk.snaps[st.snap].tree
    IN /\ st.at = "swap" /\ Grows
       /\ IF st.rev = fs.rev
          THEN /\ fs' = replaceTree(fs, tree)
               /\ \E plan \in planReconciliation(st, tree) :
                     applyReconciliation(r, [ed EXCEPT !.ph = {}], st, plan)
          ELSE Goes(r, Idle) /\ UNCHANGED <<fs, ed>>
       /\ UNCHANGED <<save, del>>

\* A file that cannot be read is left out; the rest of the plan goes on.
RestoreReload(r) ==
    LET st == bk.restores[r]
        k == Head(st.plan).k
    IN /\ st.at = "reload"
       /\ applyReconciliation(r, IF IsFile(fs, k) THEN reloadBuffer(ed, k, fs.files[k].c, fs.files[k].m)
                                 ELSE ed, st, Tail(st.plan))
       /\ UNCHANGED <<fs, save, del>>

\* What the user and other devices do.
BackupInput ==
    \/ \E h \in Hosts : SwitchHost(h) \/ applyRemoteBackupDone(h)
    \/ \E r \in Restores, s \in 1..MaxJobs : handleRestore(r, s)

BackupProgress ==
    \/ TimerFires
    \/ \E h \in Hosts : \/ JobStart(h) \/ JobReady(h) \/ JobPosted(h) \/ JobFails(h)
                        \/ \E k \in Paths : buildManifest(h, k)
    \/ \E r \in Restores : RestoreRevision(r) \/ RestoreManifest(r) \/ RestoreFetched(r)
                           \/ RestoreSwap(r) \/ RestoreReload(r)

\* Another window's changes reach the store without an event in this one.
EditStep ==
    \/ (PaneNext \/ StorageNext) /\ bk' = IF fs'.rev # fs.rev THEN onMutation(bk) ELSE bk
    \/ OtherWindowNext /\ UNCHANGED bk

StorageInit == EditInit /\ BackupInit

StorageStep == EditStep \/ BackupInput \/ BackupProgress

StorageSpec == StorageInit /\ [][StorageStep]_backupVars

-----------------------------------------------------------------------------
(* Properties.                                                             *)

\* The tree that a restore replaces is the tree of its safety snapshot, so
\* nothing is lost: whatever was saved, deleted, moved or restored meanwhile,
\* by this window or another, made the revision check refuse the swap.
RestorePointIsTree ==
    [][\A r \in Restores : RestoreSwap(r) /\ fs'.rev # fs.rev =>
          bk.snaps[bk.restores[r].point].tree = Tree(fs)]_backupVars

\* The snapshots of this client that a host acknowledged form one chain: none
\* names a parent older than the one acknowledged before it, which the host
\* would report as a fork.
NoSelfFork ==
    \A i, j \in bk.acked : i < j /\ bk.snaps[i].host = bk.snaps[j].host => bk.snaps[j].parent >= i

\* Unsaved edits that a pane shows stay on show until the user types over them,
\* agrees to lose them, or lets a move or a restore take the buffer's place: a
\* load, a check for external changes, a plain save or a sweep never drops
\* them.  (The first save or the rename of another document does, when the
\* edited buffer was opened under its new name while the store was awaited:
\* NameTaken.)
EditsKept ==
    [][\A k \in DOMAIN ed.bufs :
          \/ ~OnShow(ed, k) \/ ~Dirty(ed.bufs[k])
          \/ \E x \in DOMAIN ed'.bufs : OnShow(ed', x) /\ ed'.bufs[x].c = ed.bufs[k].c
          \/ Consent \/ NameTaken(k) \/ \E r \in Restores : RestoreSwap(r) \/ RestoreReload(r)]_editVars
=============================================================================
