----------------------------- MODULE MCStorage ------------------------------
(***************************************************************************)
(* Editors over the In-App store and its backups.  A behaviour is about    *)
(* the editors alone (MaxEditSteps of them, MaxNamingSteps from the middle *)
(* of a first save) or about backups and restores, with MaxRestoreEdits    *)
(* steps of the editors and MaxInputs of the backup page's user and of     *)
(* other devices; jobs and restores run to their end.                      *)
(***************************************************************************)
EXTENDS StorageBackup

CONSTANTS MaxEditSteps, MaxNamingSteps, MaxRestoreEdits, MaxInputs

VARIABLES focus, steps

MCNames == {"a", "b", "untitled"}
MCPaths == {<<"a">>, <<"b">>, <<"a", "b">>}
MCUntitled == {<<"untitled">>}

\* A pane that has opened the file and loaded it.
OpenPane(p, k) ==
    LET e == [bufs |-> <<>>, att |-> <<>>, shows |-> [x \in Panes |-> None], up |-> {},
              lock |-> {}, ph |-> {}, rd |-> [x \in Panes |-> Idle], sweeps |-> {},
              ousted |-> {}, orphan |-> {}]
    IN attachPane(openBuffer([e EXCEPT !.shows[p] = k, !.up = {p}], k, fs.files[k].c, 1), {p})

OpenInit ==
    /\ fs = [files |-> [q \in {<<"a">>} |-> [dir |-> FALSE, c |-> 0, m |-> 1, own |-> TRUE]],
             rev |-> 1]
    /\ ed = OpenPane(CHOOSE p \in Panes : TRUE, <<"a">>)
    /\ save = [p \in Panes |-> Idle] /\ del = Idle

\* An untitled document is named after a file that the other pane has reserved
\* and opened since the name was looked up.
NamingInit ==
    \E p, q \in Panes, k \in Untitled :
       LET b == <<"b">>
           e == OpenPane(q, b)
       IN /\ p # q
          /\ fs = [files |-> [x \in {b} |-> [dir |-> FALSE, c |-> 0, m |-> 1, own |-> TRUE]], rev |-> 1]
          /\ ed = [Mounted(e, p, k) EXCEPT !.ph = {b}]
          /\ save = [x \in Panes |-> IF x = p THEN [at |-> "create", k |-> k, to |-> b, c |-> 0, m |-> 0] ELSE Idle]
          /\ del = Idle

MCInit ==
    \/ /\ focus = "editors"
       /\ \/ (EditInit \/ OpenInit) /\ steps = [edit |-> MaxEditSteps, input |-> 0]
          \/ NamingInit /\ steps = [edit |-> MaxNamingSteps, input |-> 0]
       /\ \E h \in Hosts : BackupStart(h, <<>>)
    \/ focus = "backups" /\ OpenInit /\ BackupInit /\ steps = [edit |-> MaxRestoreEdits, input |-> MaxInputs]

Spend(kind) == steps[kind] > 0 /\ steps' = [steps EXCEPT ![kind] = @ - 1]

MCNext ==
    /\ \/ focus = "editors" /\ Spend("edit") /\ EditNext /\ UNCHANGED bk
       \/ focus = "backups" /\ Spend("edit") /\ EditStep
       \/ focus = "backups" /\ Spend("input") /\ BackupInput
       \/ focus = "backups" /\ BackupProgress /\ UNCHANGED steps
    /\ UNCHANGED focus

MCSpec == MCInit /\ [][MCNext]_<<backupVars, focus, steps>>

Symmetry == Permutations(Hosts)
=============================================================================
