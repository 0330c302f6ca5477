----------------------------- MODULE MCSettings -----------------------------
(***************************************************************************)
(* Checks the settings of the client and what is kept beside them: the     *)
(* sync engine (SettingsSync), workspace snapshots (WorkspaceSnapshot), the*)
(* resume templates (ResumeTemplates), the status line test                *)
(* (StatuslineTest), the dialog that adds a host (AddHost) and the         *)
(* performance monitor (MonitorPage).  A behaviour is about one of them,   *)
(* the focus; steps counts the inputs of users, hosts and other devices.   *)
(***************************************************************************)
EXTENDS SettingsSync, WorkspaceSnapshot, ResumeTemplates, StatuslineTest, AddHost, MonitorPage, TLC

CONSTANTS MaxSyncSteps, MaxSnapSteps, MaxTplSteps, MaxTestSteps, MaxAddSteps, MaxMonSteps

VARIABLES focus, steps

mcVars == <<syncVars, snapVars, tplVars, testVars, addVars, monVars, focus, steps>>

MCOwner == ("p" :> "prefs") @@ ("q" :> "prefs") @@ ("h" :> "hosts")

\* The tokens of the daemons at the start, up to the names of both.
Unissued == [e \in HostEndpoints |-> NoToken]
AddStarts == {Unissued} \cup {("e1" :> "k1") @@ ("e2" :> k) : k \in {NoToken, "k1", "k2"}}

\* Two tabs on two sessions of one host, captured earlier: by three inputs less.
EarlierStarts ==
    LET h == CHOOSE g \in SnapHosts : TRUE
        n == CHOOSE m \in [Codes -> Names] : \A c, d \in Codes : c # d => m[c] # m[d]
    IN {s \in Earlier : DOMAIN s.meta = {h} \X Codes /\ \A k \in DOMAIN s.meta : s.meta[k].name = n[k[2]]}

\* What a component starts with is varied only when it is in focus.
MCInit ==
    /\ SyncInit /\ SnapInit /\ TplInit /\ TestInit /\ AddInit /\ MonInit
    /\ focus \in {"sync", "snap", "tpl", "test", "add", "mon"}
    /\ saved.snap \in IF focus = "snap" THEN {None} \cup EarlierStarts \cup {Foreign(t) : t \in SnapTabs} ELSE {None}
    /\ steps = IF saved.snap \in EarlierStarts THEN 3 ELSE 0
    /\ focus # "sync" => sy.provider = "off" /\ sy.data[HostField] = CHOOSE v \in Values : TRUE
    /\ focus # "tpl" => picked = CHOOSE h \in TplHosts : TRUE
    /\ focus # "mon" => mon.active = (CHOOSE h \in MonHosts : TRUE) /\ mon.addr[mon.active] = CHOOSE a \in MonAddrs : TRUE
    /\ daemonTok \in IF focus = "add" THEN AddStarts ELSE {Unissued}

Input(bound) == steps < bound /\ steps' = steps + 1
Progress == UNCHANGED steps

MCSync ==
    /\ focus = "sync" /\ UNCHANGED <<focus, snapVars, tplVars, testVars, addVars, monVars>>
    /\ (Input(MaxSyncSteps) /\ SyncInput) \/ (Progress /\ SyncProgress)

MCSnap ==
    /\ focus = "snap" /\ UNCHANGED <<focus, syncVars, tplVars, testVars, addVars, monVars>>
    /\ (Input(MaxSnapSteps) /\ SnapInput) \/ (Progress /\ SnapProgress)

MCTpl ==
    /\ focus = "tpl" /\ UNCHANGED <<focus, syncVars, snapVars, testVars, addVars, monVars>>
    /\ (Input(MaxTplSteps) /\ TplInput) \/ (Progress /\ TplProgress)

MCTest ==
    /\ focus = "test" /\ UNCHANGED <<focus, syncVars, snapVars, tplVars, addVars, monVars>>
    /\ (Input(MaxTestSteps) /\ TestInput) \/ (Progress /\ TestProgress)

MCAdd ==
    /\ focus = "add" /\ UNCHANGED <<focus, syncVars, snapVars, tplVars, testVars, monVars>>
    /\ (Input(MaxAddSteps) /\ AddInput) \/ (Progress /\ AddProgress)

MCMon ==
    /\ focus = "mon" /\ UNCHANGED <<focus, syncVars, snapVars, tplVars, testVars, addVars>>
    /\ (Input(MaxMonSteps) /\ MonInput) \/ (Progress /\ MonProgress)

MCNext == MCSync \/ MCSnap \/ MCTpl \/ MCTest \/ MCAdd \/ MCMon

MCSpec == MCInit /\ [][MCNext]_mcVars

Symmetry == Permutations(Values) \cup Permutations(SnapTabs)

\* The pages of a host show and store what belongs to it: a template row shows
\* the verdict of its last test (ResumeTemplateSettings), the status line test
\* shows a stage as running for a run that waits or broke (useStatuslineTest),
\* a host keeps a token that its daemon has issued, or none (AddHostDialog),
\* and the monitor shows and edits the daemon at the address its host has now
\* (MemoryMonitorPage).
HostPagesSound == VerdictOfLastTest /\ SpinnerOfRun /\ HostsSound /\ MonitorTruthful
=============================================================================
