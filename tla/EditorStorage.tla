--------------------------- MODULE EditorStorage ----------------------------
(***************************************************************************)
(* The editors over the In-App store: buffers shared by the panes that     *)
(* show a path, the load, save, rename and external-change flows of        *)
(* EditorPane, the storage pane's operations, and the registry of          *)
(* placeholder files that are swept when nobody keeps them.                *)
(*                                                                         *)
(* A handler runs to its first await; what follows an await is an action   *)
(* of its own, in which the transaction commits and its continuation runs. *)
(* React effects run in the step that changes what a pane shows.           *)
(***************************************************************************)
EXTENDS InAppFs, Functions

CONSTANTS Panes,
          Untitled,    \* paths of the form untitled:<name>, never in the store
          MaxRev       \* bound on the revision

ASSUME EditAssumption ==
    /\ MaxRev \in Nat \ {0} /\ IsFiniteSet(Panes)
    /\ \A k \in Untitled : k \notin Paths /\ k \in Seq(Names)
    /\ None \notin Paths \cup Untitled

VARIABLES fs,      \* the store
          ed,      \* tab panes, editor store and placeholder registry
          save,    \* per pane, the save under way
          del      \* the storage pane's delete: dialog or paths left to delete

editVars == <<fs, ed, save, del>>

Idle == [at |-> "idle"]
Dirty(b) == b.c # b.saved
Has(e, k) == k \in DOMAIN e.bufs
With(f, k, v) == [x \in DOMAIN f \cup {k} |-> IF x = k THEN v ELSE f[x]]

AllPaths == Paths \cup Untitled

EditTypeOK ==
    /\ \A p \in DOMAIN fs.files : p \in Paths /\ fs.files[p].c \in Contents
    /\ \A p \in DOMAIN fs.files : Parent(p) # <<>> => Exists(fs, Parent(p))
    /\ fs.rev \in 0..MaxRev
    /\ DOMAIN ed.bufs \subseteq AllPaths
    /\ \A k \in DOMAIN ed.bufs : ed.bufs[k].m \in 0..MaxRev
    /\ DOMAIN ed.att \subseteq Panes /\ \A p \in DOMAIN ed.att : ed.att[p] \in AllPaths
    /\ ed.shows \in [Panes -> AllPaths \cup {None}]
    /\ ed.orphan \subseteq AllPaths /\ ed.up \subseteq Panes /\ ed.lock \subseteq Panes /\ ed.ph \subseteq Paths
    /\ DOMAIN save = Panes

EditInit ==
    /\ \E p \in {q \in Paths : Len(q) = 1}, c \in Contents, d \in BOOLEAN :
          /\ d => c = 0
          /\ fs = [files |-> [q \in {p} |-> [dir |-> d, c |-> c, m |-> 1, own |-> TRUE]], rev |-> 1]
    /\ ed = [bufs |-> <<>>, att |-> <<>>, shows |-> [p \in Panes |-> None], up |-> {},
             lock |-> {}, ph |-> {}, rd |-> [p \in Panes |-> Idle], sweeps |-> {},
             ousted |-> {}, orphan |-> {}]
    /\ save = [p \in Panes |-> Idle]
    /\ del = Idle

-----------------------------------------------------------------------------
(* The editor store, the panes of the tab store and the registry.          *)

openBuffer(e, k, c, m) ==
    IF Has(e, k) THEN e ELSE [e EXCEPT !.bufs = With(e.bufs, k, [c |-> c, saved |-> c, m |-> m])]

\* The panes that have left are attached to nothing or to another path: a
\* buffer that no pane state refers to goes with the last reference.
Unreferenced(att, k) == \A q \in DOMAIN att : att[q] # k

Reattached(e, att, left) ==
    LET gone == {k \in {e.att[p] : p \in left \cap DOMAIN e.att} : Unreferenced(att, k)}
    IN [e EXCEPT !.att = att, !.bufs = Restrict(e.bufs, DOMAIN e.bufs \ gone),
                 !.orphan = {k \in e.orphan : Unreferenced(att, k)}]

\* The panes ps attach to what they show.
attachPane(e, ps) ==
    LET att == [p \in DOMAIN e.att \cup ps |-> IF p \in ps THEN e.shows[p] ELSE e.att[p]]
    IN [Reattached(e, att, ps) EXCEPT !.ousted = e.ousted \ ps]

\* The panes ps close, each if it is still attached to key[p].
closePaneState(e, ps, key) ==
    LET left == {p \in ps \cap DOMAIN e.att : e.att[p] = key[p]}
    IN Reattached(e, Restrict(e.att, DOMAIN e.att \ left), left)

updateContent(e, k, c) == IF Has(e, k) THEN [e EXCEPT !.bufs[k].c = c] ELSE e

\* The stat that follows a write may fail: the buffer keeps the one it has.
markSaved(e, k, m) ==
    IF ~Has(e, k) THEN e
    ELSE [e EXCEPT !.bufs[k].saved = e.bufs[k].c,
                   !.bufs[k].m = IF m = 0 THEN @ ELSE m]

reloadBuffer(e, k, c, m) ==
    IF Has(e, k) THEN [e EXCEPT !.bufs[k] = [c |-> c, saved |-> c, m |-> m]] ELSE e

\* The buffers of the paths ks, all under "from", move with their panes.  A
\* path is under itself, so that {k} moves a single one.
renameBuffer(e, ks, from, to) ==
    LET moved == ks \cap DOMAIN e.bufs
        new == {Remap(k, from, to) : k \in moved}
    IN [e EXCEPT !.bufs = [k \in (DOMAIN e.bufs \ moved) \cup new |->
                              IF k \in new THEN e.bufs[Remap(k, to, from)] ELSE e.bufs[k]],
                 !.att = [p \in DOMAIN e.att |->
                              IF e.att[p] \in moved THEN Remap(e.att[p], from, to) ELSE e.att[p]],
                 !.orphan = {IF k \in moved THEN Remap(k, from, to) ELSE k : k \in e.orphan}]

renameEditorPanes(e, ks, from, to) ==
    [e EXCEPT !.shows = [p \in Panes |->
        IF e.shows[p] \in ks THEN Remap(e.shows[p], from, to) ELSE e.shows[p]]]

unregister(e, p) == [e EXCEPT !.ph = {q \in e.ph : ~isPathUnder(q, p)}]

-----------------------------------------------------------------------------
(* Effects of EditorPane.                                                  *)

\* closePaneAndSweepPlaceholder: the closes first, then a placeholder nobody
\* refers to any more is handed to the sweep.
CloseAndSweep(e, ps, old) ==
    LET e1 == closePaneState(e, ps, old)
        swept == {k \in e.ph \cap {old[p] : p \in ps} : Unreferenced(e1.att, k)}
    IN [e1 EXCEPT !.ph = {q \in e.ph : \A k \in swept : ~isPathUnder(q, k)},
                  !.sweeps = e.sweeps \cup {<<k, "stat">> : k \in swept}]

\* The load effect of mounted panes ps: an untitled document gets an empty
\* buffer, a file without a buffer is read.
LoadEffect(e, ps) ==
    LET blank == ({e.shows[p] : p \in ps} \cap Untitled) \ DOMAIN e.bufs
        reads == {p \in ps : e.shows[p] \notin Untitled \cup DOMAIN e.bufs}
    IN [e EXCEPT !.bufs = [k \in DOMAIN e.bufs \cup blank |->
                              IF k \in blank THEN [c |-> 0, saved |-> 0, m |-> 0] ELSE e.bufs[k]],
                 !.rd = [p \in Panes |-> IF p \notin ps THEN e.rd[p]
                                        ELSE IF p \in reads THEN [at |-> "load", k |-> e.shows[p]]
                                        ELSE Idle]]

Effects(e, ps) == attachPane(LoadEffect(e, ps), ps)

Mounted(e, p, k) == Effects([e EXCEPT !.shows[p] = k, !.up = e.up \cup {p}], {p})

\* One commit: the panes that show something else clean up, which drops a
\* load under way, then the effects of those that show a path run.
\* e: what the handler left; old: what the panes showed before it.
Rerender(e, old) ==
    LET ps == {p \in e.up : e.shows[p] # old[p]}
        e1 == [e EXCEPT !.rd = [p \in Panes |-> IF p \in ps THEN Idle ELSE e.rd[p]],
                        !.up = {p \in e.up : e.shows[p] # None}]
    IN Effects(CloseAndSweep(e1, ps, old), ps \cap e1.up)

Changes(e) == ed' = Rerender(e, ed.shows)

Grows == fs.rev < MaxRev

\* A move stays within the paths of the instance.
StaysInPaths(from, to, paths) == \A q \in paths : isPathUnder(q, from) => Remap(q, from, to) \in Paths

-----------------------------------------------------------------------------
(* Panes and tabs.                                                         *)

\* openInAppFile: the path must be a file when it is looked up.
openInAppFile(p, k) ==
    /\ p \notin DOMAIN ed.att /\ ed.shows[p] = None /\ p \notin ed.lock
    /\ IsFile(fs, k)
    /\ ed' = Mounted(ed, p, k)
    /\ UNCHANGED <<fs, save, del>>

\* A persisted tab of an untitled document comes back without a buffer.
RestoreUntitled(p, k) ==
    /\ p \notin DOMAIN ed.att /\ ed.shows[p] = None /\ k \in Untitled
    /\ ed' = Mounted(ed, p, k)
    /\ UNCHANGED <<fs, save, del>>

\* The new-file section and onNewBuffer reserve a path; the pane's old editor
\* is left, with its unsaved edits when the user agrees.
onNewBuffer(p, k) ==
    /\ p \in ed.up \/ (ed.shows[p] = None /\ p \notin DOMAIN ed.att)
    /\ k \in Paths /\ Parent(k) = <<>> /\ ~Exists(fs, k) /\ Grows
    /\ fs' = createUnique(fs, k, 0)
    /\ LET e1 == [ed EXCEPT !.ph = @ \cup {k}]
       IN IF p \in ed.up THEN Changes([e1 EXCEPT !.shows[p] = k])
          ELSE ed' = Mounted(e1, p, k)
    /\ UNCHANGED <<save, del>>

\* The alive pool drops a hidden tab and mounts it again: the pane still
\* shows the same editor, so its buffer stays.
Unmount(p) ==
    /\ p \in ed.up
    /\ ed' = [ed EXCEPT !.up = @ \ {p}, !.rd[p] = Idle]
    /\ UNCHANGED <<fs, save, del>>

Mount(p) ==
    /\ ed.shows[p] # None /\ p \notin ed.up
    /\ ed' = Mounted(ed, p, ed.shows[p])
    /\ UNCHANGED <<fs, save, del>>

ToggleLock(p) ==
    /\ ed.shows[p] # None
    /\ ed' = [ed EXCEPT !.lock = IF p \in @ THEN @ \ {p} ELSE @ \cup {p}]
    /\ UNCHANGED <<fs, save, del>>

\* closeTab: a locked tab stays; a dirty buffer asks the user, who agrees.
CloseTab(p) ==
    /\ ed.shows[p] # None /\ p \notin ed.lock
    /\ Changes([ed EXCEPT !.shows[p] = None])
    /\ UNCHANGED <<fs, save, del>>

Type(p, c) ==
    /\ p \in ed.up /\ Has(ed, ed.shows[p]) /\ ed.bufs[ed.shows[p]].c # c
    /\ ed' = updateContent(ed, ed.shows[p], c)
    /\ UNCHANGED <<fs, save, del>>

-----------------------------------------------------------------------------
(* Loading and the check for external changes.                             *)

\* A load whose effect was cleaned up is stale: Rerender and Unmount drop it.
\* That of a pane whose editor a restore has closed is not, and leaves a
\* buffer to which nothing is attached, until a pane shows it (orphan).
LoadDone(p) ==
    LET k == ed.rd[p].k
    IN /\ ed.rd[p].at = "load" /\ IsFile(fs, k)
       /\ ed' = [openBuffer(ed, k, fs.files[k].c, fs.files[k].m)
                   EXCEPT !.rd[p] = Idle, !.orphan = IF p \in DOMAIN ed.att THEN ed.orphan ELSE ed.orphan \cup {k}]
       /\ UNCHANGED <<fs, save, del>>

LoadFails(p) ==
    /\ ed.rd[p].at = "load" /\ ~IsFile(fs, ed.rd[p].k)
    /\ ed' = [ed EXCEPT !.rd[p] = [at |-> "error"]]
    /\ UNCHANGED <<fs, save, del>>

retryLoad(p) ==
    /\ ed.rd[p].at = "error" /\ p \in ed.up
    /\ ed' = LoadEffect(ed, {p})
    /\ UNCHANGED <<fs, save, del>>

\* On activation the pane compares the file's stat with the buffer's.
CheckExternal(p) ==
    /\ p \in ed.up /\ Has(ed, ed.shows[p]) /\ ed.shows[p] \notin Untitled
    /\ ed.rd[p].at = "idle"
    /\ ed' = [ed EXCEPT !.rd[p] = [at |-> "check", k |-> ed.shows[p]]]
    /\ UNCHANGED <<fs, save, del>>

CheckStat(p) ==
    LET k == ed.rd[p].k
        changed == Exists(fs, k) /\ Has(ed, k) /\ ed.bufs[k].m \notin {0, fs.files[k].m}
    IN /\ ed.rd[p].at = "check"
       /\ ed' = IF changed
                THEN [unregister(ed, k) EXCEPT !.rd[p] = [at |-> "read", k |-> k, m |-> fs.files[k].m]]
                ELSE [ed EXCEPT !.rd[p] = Idle]
       /\ UNCHANGED <<fs, save, del>>

\* Seeded fault: the reload does not look whether the buffer is dirty.
BugCheckRead(p) ==
    /\ ed.rd[p].at = "read"
    /\ LET k == ed.rd[p].k
       IN ed' = [IF IsFile(fs, k) THEN reloadBuffer(ed, k, fs.files[k].c, ed.rd[p].m) ELSE ed
                   EXCEPT !.rd[p] = Idle]
    /\ UNCHANGED <<fs, save, del>>

CheckRead(p) ==
    /\ ed.rd[p].at = "read"
    /\ LET k == ed.rd[p].k
           reload == /\ IsFile(fs, k) /\ Has(ed, k)
                     /\ fs.files[k].c # ed.bufs[k].saved /\ ~Dirty(ed.bufs[k])
       IN ed' = [IF reload THEN reloadBuffer(ed, k, fs.files[k].c, ed.rd[p].m) ELSE ed
                   EXCEPT !.rd[p] = Idle]
    /\ UNCHANGED <<fs, save, del>>

-----------------------------------------------------------------------------
(* Saving and renaming.                                                    *)

\* handleSave keeps the content it read; an unchanged, already saved buffer
\* is left alone.
handleSave(p) ==
    LET k == ed.shows[p]
    IN /\ p \in ed.up /\ Has(ed, k) /\ k \notin Untitled /\ save[p] = Idle
       /\ Dirty(ed.bufs[k]) \/ ed.bufs[k].m = 0
       /\ save' = [save EXCEPT ![p] = [at |-> "write", k |-> k, c |-> ed.bufs[k].c]]
       /\ UNCHANGED <<fs, ed, del>>

\* Seeded fault: a saved placeholder stays registered.
BugSaveWritten(p) ==
    /\ save[p].at = "write" /\ Grows
    /\ fs' = write(fs, save[p].k, save[p].c, TRUE)
    /\ save' = [save EXCEPT ![p] = [at |-> "stat", k |-> save[p].k]]
    /\ UNCHANGED <<ed, del>>

SaveWritten(p) ==
    /\ save[p].at = "write" /\ Grows
    /\ fs' = write(fs, save[p].k, save[p].c, TRUE)
    /\ ed' = unregister(ed, save[p].k)
    /\ save' = [save EXCEPT ![p] = [at |-> "stat", k |-> save[p].k]]
    /\ UNCHANGED del

SaveFails(p) ==
    /\ save[p].at \in {"write", "create"}
    /\ save' = [save EXCEPT ![p] = Idle]
    /\ UNCHANGED <<fs, ed, del>>

SaveDone(p) ==
    /\ save[p].at = "stat"
    /\ ed' = markSaved(ed, save[p].k, IF Exists(fs, save[p].k) THEN fs.files[save[p].k].m ELSE 0)
    /\ save' = [save EXCEPT ![p] = Idle]
    /\ UNCHANGED <<fs, del>>

\* The document of pane p is to move to a name that no open buffer has when
\* the user confirms it; what the handler read of the buffer goes with it.
MovesTo(p, to, at) ==
    LET k == ed.shows[p]
    IN /\ p \in ed.up /\ Has(ed, k) /\ save[p] = Idle
       /\ to \in Paths /\ ~Has(ed, to)
       /\ save' = [save EXCEPT ![p] = [at |-> at, k |-> k, to |-> to, c |-> ed.bufs[k].c, m |-> ed.bufs[k].m]]
       /\ UNCHANGED <<fs, ed, del>>

\* The editors of save[p].k and their buffer move to save[p].to, in place of a
\* buffer that was opened there meanwhile.
EditorsMoved(e, p) ==
    LET k == save[p].k
    IN renameBuffer(renameEditorPanes(e, {k}, k, save[p].to), {k}, k, save[p].to)

\* The first save of an untitled document names it: a stat of the name, the
\* write, and a stat of what was written.
saveUntitledBuffer(p, to) ==
    MovesTo(p, to, "name") /\ ed.shows[p] \in Untitled /\ Parent(to) = <<>>

NameStat(p) ==
    /\ save[p].at = "name"
    /\ save' = [save EXCEPT ![p] = IF Exists(fs, @.to) THEN Idle ELSE [@ EXCEPT !.at = "create"]]
    /\ UNCHANGED <<fs, ed, del>>

NameWritten(p) ==
    /\ save[p].at = "create" /\ Grows
    /\ fs' = write(fs, save[p].to, save[p].c, TRUE)
    /\ ed' = unregister(ed, save[p].to)
    /\ save' = [save EXCEPT ![p].at = "named"]
    /\ UNCHANGED del

NameDone(p) ==
    LET to == save[p].to
    IN /\ save[p].at = "named"
       /\ Changes(markSaved(EditorsMoved(ed, p), to, IF Exists(fs, to) THEN fs.files[to].m ELSE 0))
       /\ save' = [save EXCEPT ![p] = Idle]
       /\ UNCHANGED <<fs, del>>

\* The rename popover of an editor: a stat of the new name, then the rename of
\* the file, unless it was never stated.
handleRenameSubmit(p, to) ==
    LET k == ed.shows[p]
    IN MovesTo(p, to, "rename") /\ k \notin Untitled /\ Parent(to) = Parent(k) /\ to # k

Renamed(p) ==
    /\ Changes(unregister(unregister(EditorsMoved(ed, p), save[p].k), save[p].to))
    /\ save' = [save EXCEPT ![p] = Idle]

RenameStat(p) ==
    /\ save[p].at = "rename"
    /\ IF ~Exists(fs, save[p].to) /\ save[p].m = 0 THEN Renamed(p)
       ELSE /\ save' = [save EXCEPT ![p] = IF Exists(fs, @.to) THEN Idle ELSE [@ EXCEPT !.at = "move"]]
            /\ UNCHANGED ed
    /\ UNCHANGED <<fs, del>>

RenameStored(p) ==
    LET st == save[p]
    IN /\ st.at = "move" /\ CanRename(fs, st.k, st.to) /\ Grows
       /\ StaysInPaths(st.k, st.to, DOMAIN fs.files)
       /\ fs' = rename(fs, st.k, st.to)
       /\ Renamed(p)
       /\ UNCHANGED del

\* The store refuses: nothing moves.
RenameFails(p) ==
    /\ save[p].at = "move" /\ ~CanRename(fs, save[p].k, save[p].to)
    /\ save' = [save EXCEPT ![p] = Idle]
    /\ UNCHANGED <<fs, ed, del>>

-----------------------------------------------------------------------------
(* The storage pane.                                                       *)

\* The toolbar is disabled while a delete runs.
ToolbarIdle == del.at # "deleting"

\* What rows and the select-all box have selected: also rows that are gone.
Selections == SUBSET Paths

findEmptyFiles == {k \in Paths : IsFile(fs, k) /\ fs.files[k].c = 0}

pruneMissingPaths(paths) == {k \in paths : Exists(fs, k)}

createStorageFile(k) ==
    /\ ToolbarIdle
    /\ ~Exists(fs, k) /\ Parent(k) \in Dirs(fs) /\ Grows
    /\ fs' = createUnique(fs, k, 0)
    /\ ed' = [ed EXCEPT !.ph = @ \cup {k}]
    /\ UNCHANGED <<save, del>>

createStorageFolder(k) ==
    /\ ToolbarIdle
    /\ ~Exists(fs, k) /\ Parent(k) \in Dirs(fs) /\ Grows
    /\ fs' = mkdirUnique(fs, k)
    /\ UNCHANGED <<ed, save, del>>

uploadFile(k, c) ==
    /\ ~Exists(fs, k) /\ Parent(k) \in Dirs(fs) /\ Grows
    /\ fs' = createUnique(fs, k, c)
    /\ ed' = unregister(ed, k)
    /\ UNCHANGED <<save, del>>

\* Paths below "from" that an editor pane shows.
Affected(e, from) == {e.shows[p] : p \in {q \in Panes : e.shows[q] \in Paths
                                                    /\ isPathUnder(e.shows[q], from)}}

RemapBuffers(e, from, to) == renameBuffer(e, Affected(e, from), from, to)

RemapPanes(e, from, to) == renameEditorPanes(e, Affected(e, from), from, to)

applyPathMutation(e, from, to) ==
    RemapPanes(RemapBuffers(unregister(unregister(e, from), to), from, to), from, to)

\* A rename keeps the directory; a drop on a row or on the root moves the
\* entry into that directory, never into itself.
MayMove(from, to) == from # to /\ ~isPathUnder(to, from) /\ Parent(to) \in Dirs(fs)

\* renameStorageEntry and moveStorageEntry: only the store is asked whether
\* the target is free.
MoveEntry(from, to) ==
    /\ MayMove(from, to)
    /\ StaysInPaths(from, to, DOMAIN fs.files \cup Affected(ed, from))
    /\ CanRename(fs, from, to) /\ Grows
    /\ fs' = rename(fs, from, to)
    /\ Changes(applyPathMutation(ed, from, to))
    /\ UNCHANGED <<save, del>>

\* The delete dialog: the selection that still exists, or the empty files.
handleDelete(paths) ==
    /\ del = Idle /\ pruneMissingPaths(paths) # {}
    /\ del' = [at |-> "dialog", paths |-> pruneMissingPaths(paths), empty |-> FALSE]
    /\ UNCHANGED <<fs, ed, save>>

handleCleanEmpty ==
    /\ del = Idle /\ findEmptyFiles # {}
    /\ del' = [at |-> "dialog", paths |-> findEmptyFiles, empty |-> TRUE]
    /\ UNCHANGED <<fs, ed, save>>

DialogCancel == del.at = "dialog" /\ del' = Idle /\ UNCHANGED <<fs, ed, save>>

\* Entries below another target go with it; an entry that is no longer empty
\* is skipped when only empty ones may go.
Deletable ==
    {k \in del.paths : /\ \A o \in del.paths : o = k \/ ~isPathUnder(k, o)
                       /\ del.empty => k \in findEmptyFiles}

\* A locked tab refuses; a dirty buffer asks the user, who agrees; the panes
\* and their buffers are closed before the first file is deleted.
deleteStorageEntries ==
    LET panes == {p \in Panes : \E k \in Deletable :
                      ed.shows[p] \in Paths /\ isPathUnder(ed.shows[p], k)}
        hidden == [ed EXCEPT !.shows = [p \in Panes |-> IF p \in panes THEN None ELSE ed.shows[p]]]
    IN /\ del.at = "dialog"
       /\ IF panes \cap ed.lock # {} \/ Deletable = {}
          THEN del' = Idle /\ UNCHANGED ed
          ELSE /\ del' = [at |-> "deleting", left |-> Deletable]
               /\ Changes(closePaneState(hidden, panes, ed.shows))
       /\ UNCHANGED <<fs, save>>

DeleteStep(k) ==
    /\ del.at = "deleting" /\ k \in del.left /\ Grows
    /\ fs' = delete(fs, k)
    /\ ed' = unregister(ed, k)
    /\ del' = IF del.left = {k} THEN Idle ELSE [del EXCEPT !.left = @ \ {k}]
    /\ UNCHANGED save

\* One failed delete ends the loop; what is left stays.
DeleteFails == del.at = "deleting" /\ del' = Idle /\ UNCHANGED <<fs, ed, save>>

-----------------------------------------------------------------------------
(* The sweep: a stat, and a delete only of what is still empty.            *)

SweepStat(k) ==
    /\ <<k, "stat">> \in ed.sweeps
    /\ LET empty == IsFile(fs, k) /\ fs.files[k].c = 0
       IN ed' = [ed EXCEPT !.sweeps = (@ \ {<<k, "stat">>})
                                       \cup (IF empty THEN {<<k, "delete">>} ELSE {})]
    /\ UNCHANGED <<fs, save, del>>

SweepDelete(k) ==
    /\ <<k, "delete">> \in ed.sweeps /\ Grows
    /\ fs' = delete(fs, k)
    /\ ed' = [ed EXCEPT !.sweeps = @ \ {<<k, "delete">>}]
    /\ UNCHANGED <<save, del>>

\* Another window of the application shares the store.
OtherWindowWrites(k, c) ==
    /\ Parent(k) \in Dirs(fs) /\ (Exists(fs, k) => IsFile(fs, k)) /\ Grows
    /\ fs' = write(fs, k, c, FALSE)
    /\ UNCHANGED <<ed, save, del>>

OtherWindowDeletes(k) ==
    /\ Exists(fs, k) /\ Grows
    /\ fs' = delete(fs, k)
    /\ UNCHANGED <<ed, save, del>>

PaneNext == \E p \in Panes :
    \/ \E k \in Paths : openInAppFile(p, k) \/ onNewBuffer(p, k)
    \/ \E k \in Untitled : RestoreUntitled(p, k)
    \/ Unmount(p) \/ Mount(p) \/ ToggleLock(p) \/ CloseTab(p)
    \/ \E c \in Contents : Type(p, c)
    \/ LoadDone(p) \/ LoadFails(p) \/ retryLoad(p)
    \/ CheckExternal(p) \/ CheckStat(p) \/ CheckRead(p)
    \/ handleSave(p) \/ SaveWritten(p) \/ SaveFails(p) \/ SaveDone(p)
    \/ \E k \in Paths : saveUntitledBuffer(p, k) \/ handleRenameSubmit(p, k)
    \/ NameStat(p) \/ NameWritten(p) \/ NameDone(p)
    \/ RenameStat(p) \/ RenameStored(p) \/ RenameFails(p)

\* The storage pane's handlers, with the name the user picks for each.
handleNew == \E k \in Paths : createStorageFile(k) \/ createStorageFolder(k)

handleRenameConfirm == \E from, to \in Paths : MoveEntry(from, to)

deletePaths ==
    \/ \E paths \in Selections : handleDelete(paths)
    \/ DialogCancel \/ deleteStorageEntries \/ DeleteFails
    \/ \E k \in Paths : DeleteStep(k)

ingestFiles == \E k \in Paths : uploadFile(k, MaxEdit)

SweepEmpty == handleCleanEmpty \/ \E k \in Paths : SweepStat(k) \/ SweepDelete(k)

StorageNext == handleNew \/ handleRenameConfirm \/ deletePaths \/ ingestFiles \/ SweepEmpty

OtherWindowNext == \E k \in Paths :
    OtherWindowDeletes(k) \/ \E c \in Contents : OtherWindowWrites(k, c)

EditNext == PaneNext \/ StorageNext \/ OtherWindowNext

-----------------------------------------------------------------------------
(* Properties.                                                             *)

\* Every buffer is the buffer of some pane state, so that the last pane that
\* leaves it takes it away, whichever loads, renames, moves and closes raced.
\* (But for that of a load which outlived its editor: orphan.)
BufferAttached ==
    \A k \in DOMAIN ed.bufs \ ed.orphan : \E p \in DOMAIN ed.att : ed.att[p] = k

\* A mounted pane is attached to the buffer of the path it shows, also after
\* its file was renamed or its directory moved under it.  (A restore that
\* removes the file of a tab locked after the last look at the locks closes
\* the editor of a pane that stays: ousted.)
PaneOnItsBuffer ==
    \A p \in ed.up : \/ p \in DOMAIN ed.att /\ ed.att[p] = ed.shows[p]
                     \/ p \notin DOMAIN ed.att /\ p \in ed.ousted

\* A registered placeholder is a file nobody has written: the sweep's licence
\* to delete ends with the first save, upload, rename, move or restore.
PlaceholderUntouched ==
    \A k \in ed.ph : Exists(fs, k) /\ fs.files[k].own => fs.files[k].c = 0

\* The user typed or agreed to lose edits.
Consent ==
    \/ \E p \in Panes : CloseTab(p) \/ \E c \in Contents : Type(p, c)
    \/ \E p \in Panes, k \in Paths : onNewBuffer(p, k)
    \/ deleteStorageEntries

\* A pane is attached to the buffer of the path that it shows.
OnShow(e, k) == Has(e, k) /\ \E p \in DOMAIN e.att : e.att[p] = k /\ e.shows[p] = k

\* Another buffer took the name of this one: the storage pane asks only the
\* store whether a name is free, and an editor asks for an open buffer before
\* it awaits the store, so that one opened meanwhile is overwritten.
NameTaken(k) ==
    \/ \E from, to \in Paths : /\ MoveEntry(from, to)
                               /\ \E q \in DOMAIN ed.bufs : isPathUnder(q, from) /\ Remap(q, from, to) = k
    \/ \E p \in Panes : /\ NameDone(p) \/ RenameStat(p) \/ RenameStored(p)
                        /\ save[p].to = k /\ Has(ed, save[p].k)

\* The editors agree with the store: BufferAttached, PaneOnItsBuffer and
\* PlaceholderUntouched, in every interleaving of loads, saves, renames,
\* moves, deletes, sweeps and a restore.
EditorsSound == EditTypeOK /\ BufferAttached /\ PaneOnItsBuffer /\ PlaceholderUntouched
=============================================================================
