----------------------------- MODULE MonitorPage -----------------------------
(***************************************************************************)
(* The performance monitor (MemoryMonitorPage): it loads the configuration *)
(* and a snapshot of the active host, then one snapshot for every other    *)
(* host a pane shows, again and again, and sends configuration changes.    *)
(* Meanwhile the user switches, edits and removes hosts.  A snapshot is    *)
(* abstracted to the address it came from, a configuration to one number   *)
(* between MinCfg and MaxCfg.                                              *)
(***************************************************************************)
EXTENDS Integers, FiniteSets

CONSTANTS MonHosts, MonAddrs, NoAddr, NoMonHost

ASSUME MonAssumption == NoAddr \notin MonAddrs /\ NoMonHost \notin MonHosts

MinCfg == 2
MaxCfg == 3
Drafts == {0, 1, 3, 4}      \* what the user can type; 0 is a text that is no number

VARIABLES mon,        \* the stores the page reads, and its own state
          daemonCfg   \* configuration at each address

monVars == <<mon, daemonCfg>>

NoData == [host |-> NoMonHost]
FreshLoad == [at |-> "config", cfg |-> MinCfg]
NoDraft == [val |-> 0, of |-> <<NoMonHost, NoAddr>>]

Configured(s) == {h \in MonHosts : s.addr[h] # NoAddr}

snapshotHostTargetKey(s, h) == <<h, s.addr[h]>>

ActiveKey(s) == snapshotHostTargetKey(s, s.active)

\* The active host and the configured hosts of the rows.
collectSnapshotHostTargets(s) == (s.rows \cup {s.active}) \cap Configured(s)

SnapKey(s) == <<s.active, {snapshotHostTargetKey(s, h) : h \in collectSnapshotHostTargets(s)}>>

\* The settings and the summary are shown for the data of the active host.
Ready(s) == s.data.host = s.active /\ s.data.key = ActiveKey(s)

Keep(snaps, hs) == [h \in DOMAIN snaps \cap hs |-> snaps[h]]

\* Seeded fault: what was loaded for other addresses is kept.
BugPreserveSecondarySnapshots(s) ==
    IF s.data # NoData THEN Keep(s.data.snaps, collectSnapshotHostTargets(s) \ {s.active}) ELSE Keep(<<>>, {})

preserveSecondarySnapshots(s) ==
    IF s.data # NoData /\ s.data.snapKey = SnapKey(s)
    THEN Keep(s.data.snaps, collectSnapshotHostTargets(s) \ {s.active}) ELSE Keep(<<>>, {})

\* Snapshots the rows are filled from.
rowSnapshots(s) ==
    IF s.data.host # s.active THEN Keep(<<>>, {})
    ELSE IF s.data.snapKey = SnapKey(s) THEN Keep(s.data.snaps, collectSnapshotHostTargets(s))
    ELSE IF Ready(s) THEN Keep(s.data.snaps, {s.active}) ELSE Keep(<<>>, {})

\* A load starts: the error of this host is taken back.
StartLoad(s) ==
    [s EXCEPT !.load = FreshLoad,
              !.err = IF @ = s.active THEN NoMonHost ELSE @]

\* A render with its effects: another host or address takes back the draft, any
\* change of the targets cancels the load and starts one, and a draft that is
\* not being typed follows the configuration.
Commit(s, reload) ==
    LET a == [s EXCEPT !.dirty = @ /\ ActiveKey(s) = ActiveKey(mon)]
        b == IF reload \/ SnapKey(s) # SnapKey(mon) THEN StartLoad([a EXCEPT !.sec = {}]) ELSE a
    IN mon' = [b EXCEPT !.draft = IF Ready(b) /\ ~b.dirty THEN [val |-> b.data.cfg, of |-> ActiveKey(b)] ELSE @]

MonInit ==
    /\ daemonCfg = [a \in MonAddrs |-> MinCfg]
    /\ \E h \in MonHosts, a \in MonAddrs :
          mon = [addr |-> [x \in MonHosts |-> a], active |-> h, rows |-> MonHosts, data |-> NoData,
                 err |-> NoMonHost, draft |-> NoDraft, dirty |-> FALSE,
                 load |-> FreshLoad, sec |-> {}, subs |-> {}]

-----------------------------------------------------------------------------
(* The load.                                                               *)

ConfigFetched ==
    /\ mon.load.at = "config"
    /\ mon' = [mon EXCEPT !.load = [at |-> "snapshot", cfg |-> daemonCfg[mon.addr[mon.active]]]]
    /\ UNCHANGED daemonCfg

SnapshotFetched ==
    /\ mon.load.at = "snapshot" /\ UNCHANGED daemonCfg
    /\ LET kept == preserveSecondarySnapshots(mon)
       IN Commit([mon EXCEPT
            !.data = [host |-> mon.active, key |-> ActiveKey(mon), snapKey |-> SnapKey(mon), cfg |-> mon.load.cfg,
                      snaps |-> [h \in DOMAIN kept \cup {mon.active} |->
                                    IF h = mon.active THEN mon.addr[h] ELSE kept[h]]],
            !.load.at = "timer", !.sec = @ \cup (collectSnapshotHostTargets(mon) \ {mon.active})], FALSE)

LoadFailed ==
    /\ mon.load.at \in {"config", "snapshot"} /\ UNCHANGED daemonCfg
    /\ mon' = [mon EXCEPT !.load.at = "timer", !.err = mon.active]

LoadTimerFires == mon.load.at = "timer" /\ mon' = StartLoad(mon) /\ UNCHANGED daemonCfg

SecondaryAnswered(h) ==
    /\ h \in mon.sec /\ UNCHANGED daemonCfg
    /\ Commit([mon EXCEPT !.sec = @ \ {h},
                 !.data = IF @.host # mon.active THEN @
                          ELSE [@ EXCEPT !.snaps = [x \in DOMAIN mon.data.snaps \cup {h} |->
                                                       IF x = h THEN mon.addr[h] ELSE mon.data.snaps[x]]]], FALSE)

\* It fails, or its timeout is over.
SecondaryFailed(h) ==
    /\ h \in mon.sec /\ UNCHANGED daemonCfg
    /\ mon' = [mon EXCEPT !.sec = @ \ {h}, !.err = mon.active]

-----------------------------------------------------------------------------
(* The settings.                                                           *)

TypeDraft(v) ==
    /\ Ready(mon) /\ UNCHANGED daemonCfg
    /\ mon' = [mon EXCEPT !.draft = [val |-> v, of |-> ActiveKey(mon)], !.dirty = TRUE]

clampNumber(v) == IF v > MaxCfg THEN MaxCfg ELSE IF v < MinCfg THEN MinCfg ELSE v

submitConfig ==
    /\ Ready(mon) /\ \A q \in mon.subs : q.key # ActiveKey(mon)
    /\ IF mon.draft.val = 0
       THEN Commit([mon EXCEPT !.dirty = FALSE], FALSE)
       ELSE mon' = [mon EXCEPT !.subs = @ \cup {[key |-> ActiveKey(mon), val |-> clampNumber(mon.draft.val),
                                                 at |-> "sent"]}]
    /\ UNCHANGED daemonCfg

\* The daemon at the address of the request takes the change.
ConfigTaken(q) ==
    /\ q.at = "sent" /\ daemonCfg' = [daemonCfg EXCEPT ![q.key[2]] = q.val]
    /\ mon' = [mon EXCEPT !.subs = (@ \ {q}) \cup {[q EXCEPT !.at = "taken"]}]

\* The answer counts only if the page still shows the host at this address.
SubmitAnswered(q) ==
    /\ q.at = "taken" /\ UNCHANGED daemonCfg
    /\ LET s == [mon EXCEPT !.subs = @ \ {q}]
       IN IF ActiveKey(mon) # q.key THEN mon' = s
          ELSE Commit([s EXCEPT !.data = IF Ready(mon) THEN [@ EXCEPT !.cfg = q.val] ELSE @,
                                !.draft = [val |-> q.val, of |-> q.key], !.dirty = FALSE,
                                !.err = IF @ = mon.active THEN NoMonHost ELSE @], TRUE)

SubmitFailed(q) ==
    /\ mon' = [mon EXCEPT !.subs = @ \ {q}, !.err = IF ActiveKey(mon) = q.key THEN mon.active ELSE @]
    /\ UNCHANGED daemonCfg

-----------------------------------------------------------------------------
(* The hosts and the panes.                                                *)

SwitchHost(h) == h \in Configured(mon) \ {mon.active} /\ Commit([mon EXCEPT !.active = h], FALSE) /\ UNCHANGED daemonCfg

EditAddress(h, a) ==
    h \in Configured(mon) /\ a # mon.addr[h] /\ Commit([mon EXCEPT !.addr[h] = a], FALSE) /\ UNCHANGED daemonCfg

\* The last host is never removed; the active one gives way to another.
MonHostRemoved(h) ==
    /\ h \in Configured(mon) /\ Cardinality(Configured(mon)) > 1 /\ UNCHANGED daemonCfg
    /\ LET s == [mon EXCEPT !.addr[h] = NoAddr]
       IN \E next \in IF mon.active # h THEN {mon.active} ELSE Configured(s) :
             Commit([s EXCEPT !.active = next], FALSE)

RowsChange(h) ==
    Commit([mon EXCEPT !.rows = IF h \in @ THEN @ \ {h} ELSE @ \cup {h}], FALSE) /\ UNCHANGED daemonCfg

MonInput ==
    \/ submitConfig
    \/ \E v \in Drafts : TypeDraft(v)
    \/ \E h \in MonHosts : SwitchHost(h) \/ MonHostRemoved(h) \/ RowsChange(h)
    \/ \E h \in MonHosts, a \in MonAddrs : EditAddress(h, a)

MonProgress ==
    \/ ConfigFetched \/ SnapshotFetched \/ LoadFailed \/ LoadTimerFires
    \/ \E h \in MonHosts : SecondaryAnswered(h) \/ SecondaryFailed(h)
    \/ \E q \in mon.subs : ConfigTaken(q) \/ SubmitAnswered(q) \/ SubmitFailed(q)

MonSpec == MonInit /\ [][MonInput \/ MonProgress]_monVars

-----------------------------------------------------------------------------
(* Properties.                                                             *)

\* What the page shows for a host comes from the address the host has now, in
\* the summary and in every row, and what Apply would send was typed or loaded
\* for the host that is shown, whichever requests end after a switch, an edit
\* or a removal.
MonitorTruthful ==
    /\ Ready(mon) => mon.data.snaps[mon.active] = mon.addr[mon.active] /\ mon.draft.of = ActiveKey(mon)
    /\ \A h \in DOMAIN rowSnapshots(mon) : rowSnapshots(mon)[h] = mon.addr[h]
=============================================================================
