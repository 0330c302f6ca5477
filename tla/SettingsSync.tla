---------------------------- MODULE SettingsSync ----------------------------
(***************************************************************************)
(* Sync of settings with a host: the engine that merges the modules'       *)
(* settings three ways, "sync now", import, conflict resolution, and the   *)
(* local snapshots with their compaction and restore.                      *)
(*                                                                         *)
(* A bundle is a function from the fields of the modules it covers to      *)
(* values.  Requests and database transactions are awaits: what follows    *)
(* one is an action of its own.  Another device pushes to the same host.   *)
(***************************************************************************)
EXTENDS Integers, FiniteSets, FiniteSetsExt

CONSTANTS Fields, Mods, Owner,   \* Owner[f]: the module of field f
          HostField,             \* the field that holds a host's endpoint
          Values,
          PreOpMax,              \* safety snapshots kept
          MonthlyMax,            \* monthly snapshots kept
          HourTier, DayTier, WeekTier,  \* ages at which the tiers end
          MaxSnaps, MaxNow,      \* bounds on snapshots and on the clock
          Null

ASSUME SyncAssumption ==
    /\ Owner \in [Fields -> Mods] /\ HostField \in Fields
    /\ PreOpMax \in Nat \ {0} /\ MonthlyMax \in Nat \ {0}

VARIABLES sy,      \* local settings and sync store; home: the endpoints that
                   \* the user's own edits have put its token beside
          op,      \* sync, import or restore under way
          srv,     \* the canonical bundle of the host
          lib,     \* local snapshots
          now

syncVars == <<sy, op, srv, lib, now>>

FieldsOf(ms) == {f \in Fields : Owner[f] \in ms}
Covers(b, m) == FieldsOf({m}) \subseteq DOMAIN b
Standby == [at |-> "standby"]

Token == "token"   \* whichever token the host has

Fresh == [provider |-> "off", enabled |-> {}, last |-> Null, srv |-> Null]

\* The persisted state of a device that has synced everything.
Synced(v) == [provider |-> "daemon", enabled |-> Mods, last |-> [f \in Fields |-> v],
              srv |-> [f \in Fields |-> v]]

SyncInit ==
    /\ \E v \in Values : \E i \in {Fresh, Synced(v)} :
         /\ sy = [data |-> [f \in Fields |-> v], token |-> Token, home |-> {v}, last |-> i.last, provider |-> i.provider,
                  enabled |-> i.enabled, pending |-> Null, edited |-> {}, unpushed |-> Null]
         /\ srv = i.srv
    /\ op = Standby /\ now = 0
    /\ lib = [snaps |-> {}, next |-> 1, compact |-> {}]

-----------------------------------------------------------------------------
(* Contributors and the three-way merge.                                   *)

serialize(s, ms) == [f \in FieldsOf(ms) |-> s.data[f]]

\* Seeded fault: the token stays whatever endpoint the host now has.
BugMergeHosts(s, d) == s.token

\* mergeHostsPreservingTokens: a token is kept for an unchanged endpoint only.
mergeHosts(s, d) == IF d[HostField] = s.data[HostField] THEN s.token ELSE Null

\* deserialize, full-replace: the bundle's fields replace the local ones.
fullReplace(s, b) ==
    LET d == [f \in Fields |-> IF f \in DOMAIN b THEN b[f] ELSE s.data[f]]
    IN [s EXCEPT !.data = d, !.token = mergeHosts(s, d), !.edited = @ \ DOMAIN b,
                 !.home = IF mergeHosts(s, d) = Null THEN {} ELSE @]

\* deserialize, field-merge: only the fields the user gave to the remote.
fieldMerge(s, b, remote) == fullReplace(s, [f \in remote \cap DOMAIN b |-> b[f]])

\* detectConflict: both sides changed the field, to different values.
detectConflict(last, local, remote) == local # last /\ remote # last /\ local # remote

\* Seeded fault: a field that both sides changed takes the remote's value.
BugMergeCollection(last, local, remote) == remote

\* Without a conflict the side that changed the field wins.
mergeCollection(last, local, remote) == IF local = last THEN remote ELSE local

Conflicts(s, last, b, ms) ==
    {f \in DOMAIN b \cap FieldsOf(ms) : Covers(last, Owner[f])
                                        /\ detectConflict(last[f], s.data[f], b[f])}

\* engine.pull: no baseline at all replaces everything; a module without one
\* takes the remote's state; a module with a conflict is left alone.
pull(s, last, b, ms) ==
    LET both == {f \in DOMAIN b : Owner[f] \in ms}
        clash == {Owner[f] : f \in Conflicts(s, last, b, ms)}
        merged == [f \in {g \in both : Owner[g] \notin clash} |->
                      IF Covers(last, Owner[f]) THEN mergeCollection(last[f], s.data[f], b[f]) ELSE b[f]]
    IN fullReplace(s, merged)

pullFirst(s, b, ms) == fullReplace(s, [f \in DOMAIN b \cap FieldsOf(ms) |-> b[f]])

\* buildPartialBaseline: modules without a conflict advance to the remote.
buildPartialBaseline(last, b, conflicts) ==
    LET clash == {Owner[f] : f \in conflicts}
        moved == {f \in DOMAIN b : Owner[f] \notin clash}
        prev == IF last = Null THEN {} ELSE DOMAIN last
    IN [f \in moved \cup prev |-> IF f \in moved THEN b[f] ELSE last[f]]

\* setPendingConflicts keeps the conflicting modules of the remote bundle.
setPendingConflicts(s, b, conflicts) ==
    [s EXCEPT !.pending = [fields |-> conflicts,
                           b |-> [f \in {g \in DOMAIN b : \E c \in conflicts : Owner[c] = Owner[g]} |-> b[f]]]]

-----------------------------------------------------------------------------
(* Local snapshots.                                                        *)

isPreOp(m) == m.trigger = "pre"

\* The n newest of a set of snapshots.
NewestOf(S, n) == {m \in S : Cardinality({x \in S : x.id > m.id}) < n}

\* Seeded fault: the oldest safety snapshots are kept.
BugKeptPreOp(S) == {m \in S : Cardinality({x \in S : x.id < m.id}) < PreOpMax}

\* Safety snapshots: the newest ones, and the one of the session's start.
KeptPreOp(S) == NewestOf(S, PreOpMax)

\* classifyTier: hours, then days, weeks and months; each keeps its newest.
classifyTier(m) ==
    IF now - m.ts < HourTier THEN <<"hourly", m.ts>>
    ELSE IF now - m.ts < DayTier THEN <<"daily", m.ts \div 2>>
    ELSE IF now - m.ts < WeekTier THEN <<"weekly", m.ts \div 3>>
    ELSE <<"monthly", m.ts \div 4>>

computeCompaction(all) ==
    LET pre == {m \in all : isPreOp(m)}
        newest == {m \in all \ pre : \A x \in all \ pre : classifyTier(x) = classifyTier(m) => x.id <= m.id}
        monthly == {m \in newest : classifyTier(m)[1] = "monthly"}
        kept == {m \in pre : m.pristine} \cup KeptPreOp({m \in pre : ~m.pristine})
                \cup (newest \ monthly) \cup NewestOf(monthly, MonthlyMax)
    IN all \ kept

\* Seeded fault: a snapshot taken in the same millisecond reuses the id.
BugCreateSnapshot(l, b, why) ==
    [l EXCEPT !.snaps = @ \cup {[id |-> l.next, ts |-> now, b |-> b, trigger |-> why, pristine |-> FALSE]},
              !.compact = @ \cup {[at |-> "list", evict |-> {}, by |-> l.next]}]

\* createSnapshot: the record is put; the compaction that follows lists the
\* store and then deletes what it decided to evict.
createSnapshot(l, b, why) ==
    [l EXCEPT !.snaps = @ \cup {[id |-> l.next, ts |-> now, b |-> b, trigger |-> why, pristine |-> FALSE]},
              !.next = @ + 1, !.compact = @ \cup {[at |-> "list", evict |-> {}, by |-> l.next]}]

\* Seeded fault: earlier session snapshots keep the flag.
BugRotateSessionPristine(l, b) ==
    [l EXCEPT !.snaps = @ \cup {[id |-> l.next, ts |-> now, b |-> b, trigger |-> "pre", pristine |-> TRUE]},
              !.next = @ + 1, !.compact = @ \cup {[at |-> "list", evict |-> {}, by |-> l.next]}]

\* rotateSessionPristine: one transaction demotes the others and puts.
rotateSessionPristine(l, b) ==
    [l EXCEPT !.snaps = {[m EXCEPT !.pristine = FALSE] : m \in @}
                        \cup {[id |-> l.next, ts |-> now, b |-> b, trigger |-> "pre", pristine |-> TRUE]},
              !.next = @ + 1, !.compact = @ \cup {[at |-> "list", evict |-> {}, by |-> l.next]}]

Room == lib.next <= MaxSnaps

CompactList(j) ==
    /\ j \in lib.compact /\ j.at = "list"
    /\ lib' = [lib EXCEPT !.compact = (@ \ {j}) \cup
                   {[j EXCEPT !.at = "delete", !.evict = {m.id : m \in computeCompaction(lib.snaps)}]}]
    /\ UNCHANGED <<sy, op, srv, now>>

CompactDelete(j) ==
    /\ j \in lib.compact /\ j.at = "delete"
    /\ lib' = [lib EXCEPT !.snaps = {m \in @ : m.id \notin j.evict}, !.compact = @ \ {j}]
    /\ UNCHANGED <<sy, op, srv, now>>

\* Every launch of the application takes the session's snapshot.
ensureSessionPristine ==
    /\ Room /\ op = Standby
    /\ lib' = rotateSessionPristine(lib, serialize(sy, Mods))
    /\ UNCHANGED <<sy, op, srv, now>>

Tick == now < MaxNow /\ now' = now + 1 /\ UNCHANGED <<sy, op, srv, lib>>

-----------------------------------------------------------------------------
(* The sync section of the settings.                                       *)

\* The user changes a setting; a host whose address is edited keeps its token.
EditSetting(f, v) ==
    /\ sy.data[f] # v
    /\ sy' = [sy EXCEPT !.data[f] = v, !.edited = @ \cup {f},
                        !.home = IF f = HostField /\ sy.token # Null THEN @ \cup {v} ELSE @]
    /\ UNCHANGED <<op, srv, lib, now>>

\* A token typed on the host's page is stored, an empty one too.  The check
\* before that is a request; the token goes to whatever the host is now.
EditToken(v) ==
    /\ v = Null => sy.token # Null
    /\ sy' = [sy EXCEPT !.token = v, !.home = IF v = Null THEN {} ELSE {sy.data[HostField]}]
    /\ UNCHANGED <<op, srv, lib, now>>

setActiveProvider(p) ==
    /\ p # sy.provider
    /\ sy' = [sy EXCEPT !.provider = p, !.last = Null,
                        !.enabled = IF @ = {} /\ p # "off" THEN Mods ELSE @]
    /\ UNCHANGED <<op, srv, lib, now>>

toggleModule(m) ==
    /\ sy.provider # "off"
    /\ sy' = [sy EXCEPT !.enabled = IF m \in @ THEN @ \ {m} ELSE @ \cup {m}]
    /\ UNCHANGED <<op, srv, lib, now>>

\* Baseline and modules are the ones of the click.
handleSyncNow ==
    /\ op = Standby /\ sy.provider = "daemon"
    /\ op' = [at |-> "pull", last |-> sy.last, ms |-> sy.enabled]
    /\ UNCHANGED <<sy, srv, lib, now>>

\* After the await: the provider must still be the one of the click.
Finish(s, last) == IF sy.provider # "daemon" THEN s ELSE [s EXCEPT !.last = last]

SyncPulled ==
    LET found == op.last # Null /\ srv # Null
        clash == IF found THEN Conflicts(sy, op.last, srv, op.ms) ELSE {}
        s == IF srv = Null THEN sy
             ELSE IF op.last = Null THEN pullFirst(sy, srv, op.ms)
             ELSE pull(sy, op.last, srv, op.ms)
    IN /\ op.at = "pull"
       /\ IF clash # {}
          THEN /\ op' = Standby
               /\ sy' = IF sy.provider # "daemon" THEN s
                        ELSE setPendingConflicts(Finish(s, buildPartialBaseline(op.last, srv, clash)), srv, clash)
          ELSE sy' = s /\ op' = [at |-> "push", b |-> serialize(s, op.ms), last |-> op.last]
       /\ UNCHANGED <<srv, lib, now>>

\* A snapshot is taken when the bundle is not the one of the last sync.
SyncPushed ==
    /\ op.at = "push" /\ Room
    /\ srv' = op.b
    /\ sy' = [Finish(sy, op.b) EXCEPT !.edited = {f \in @ : f \notin DOMAIN op.b \/ sy.data[f] # op.b[f]}]
    /\ lib' = IF sy.provider = "daemon" /\ op.b # op.last THEN createSnapshot(lib, op.b, "manual") ELSE lib
    /\ op' = Standby
    /\ UNCHANGED now

\* A request fails; a push may have reached the host all the same.
SyncFails ==
    /\ op.at \in {"pull", "push"}
    /\ \/ UNCHANGED srv
       \/ op.at = "push" /\ srv' = op.b
    /\ op' = Standby
    /\ UNCHANGED <<sy, lib, now>>

\* An import takes a safety snapshot first, and goes on without one.
handleFileChange(b) ==
    /\ op = Standby /\ sy.provider # "off"
    /\ \/ /\ Room
          /\ lib' = createSnapshot(lib, serialize(sy, Mods), "pre")
          /\ op' = [at |-> "import", b |-> b, last |-> sy.last, ms |-> sy.enabled, p |-> sy.provider, pre |-> lib.next]
       \/ /\ op' = [at |-> "import", b |-> b, last |-> sy.last, ms |-> sy.enabled, p |-> sy.provider, pre |-> 0]
          /\ UNCHANGED lib
    /\ UNCHANGED <<sy, srv, now>>

\* The snapshot's compaction is awaited too.
Compacted == \A j \in lib.compact : j.by # op.pre

applyImport ==
    LET clash == IF op.last = Null THEN {} ELSE Conflicts(sy, op.last, op.b, op.ms)
        s == IF op.last = Null THEN pullFirst(sy, op.b, op.ms) ELSE pull(sy, op.last, op.b, op.ms)
    IN /\ op.at = "import" /\ Compacted
       /\ op' = Standby
       /\ sy' = IF sy.provider # op.p THEN s
                ELSE IF clash = {} THEN [s EXCEPT !.last = op.b]
                ELSE setPendingConflicts([s EXCEPT !.last = buildPartialBaseline(op.last, op.b, clash)],
                                         op.b, clash)
       /\ UNCHANGED <<srv, lib, now>>

\* The banner: every conflict has a choice; the local state is pushed after.
handleResolveConflicts(remote) ==
    /\ sy.pending # Null /\ sy.provider # "off" /\ remote \subseteq sy.pending.fields
    /\ LET s == fieldMerge(sy, sy.pending.b, remote)
       IN sy' = [s EXCEPT !.last = sy.pending.b, !.pending = Null,
                          !.unpushed = IF sy.provider = "daemon" THEN serialize(s, sy.enabled) ELSE @]
    /\ UNCHANGED <<op, srv, lib, now>>

ResolvePushed ==
    /\ sy.unpushed # Null
    /\ srv' \in {srv, sy.unpushed}
    /\ sy' = [sy EXCEPT !.unpushed = Null]
    /\ UNCHANGED <<op, lib, now>>

Dismiss ==
    /\ sy.pending # Null
    /\ sy' = [sy EXCEPT !.pending = Null]
    /\ UNCHANGED <<op, srv, lib, now>>

\* The history page: a restore without a safety snapshot, or of a snapshot
\* that does not cover every module, needs the user's confirmation.
runRestore(m) ==
    /\ op = Standby /\ m \in lib.snaps
    /\ \/ /\ Room
          /\ lib' = createSnapshot(lib, serialize(sy, Mods), "pre")
          /\ op' = [at |-> "restore", m |-> m, pre |-> lib.next]
       \/ op' = [at |-> "restore", m |-> m, pre |-> 0] /\ UNCHANGED lib
    /\ UNCHANGED <<sy, srv, now>>

\* The conflicts of before are forgotten first; a module may fail to apply.
restoreFromSnapshot ==
    /\ op.at = "restore" /\ Compacted
    /\ \E failed \in {{}} \cup {{m} : m \in Mods} :
          sy' = [fullReplace(sy, [f \in DOMAIN op.m.b \ FieldsOf(failed) |-> op.m.b[f]])
                   EXCEPT !.pending = Null]
    /\ op' = Standby
    /\ UNCHANGED <<srv, lib, now>>

\* Another device of the group pushes its settings.
OtherDevicePushes(f, v) ==
    /\ srv' = IF srv = Null THEN [g \in Fields |-> v] ELSE [g \in DOMAIN srv \cup {f} |-> IF g = f THEN v ELSE srv[g]]
    /\ srv' # srv /\ \A m \in Mods : FieldsOf({m}) \cap DOMAIN srv' # {} => Covers(srv', m)
    /\ UNCHANGED <<sy, op, lib, now>>

\* What the user, another device and the clock start, and what goes on from it.
SyncInput ==
    \/ \E f \in Fields, v \in Values : EditSetting(f, v) \/ OtherDevicePushes(f, v)
    \/ \E v \in {Token, Null} : EditToken(v)
    \/ \E p \in {"off", "daemon", "file"} : setActiveProvider(p)
    \/ \E m \in Mods : toggleModule(m)
    \/ \E v \in Values, ms \in SUBSET Mods \ {{}} : handleFileChange([f \in FieldsOf(ms) |-> v])
    \/ \E remote \in SUBSET Fields : handleResolveConflicts(remote)
    \/ \E m \in lib.snaps : runRestore(m)
    \/ handleSyncNow \/ Dismiss \/ ensureSessionPristine \/ Tick

SyncProgress ==
    \/ SyncPulled \/ SyncPushed \/ SyncFails \/ applyImport \/ ResolvePushed \/ restoreFromSnapshot
    \/ \E j \in lib.compact : CompactList(j) \/ CompactDelete(j)

SyncSpec == SyncInit /\ [][SyncInput \/ SyncProgress]_syncVars

-----------------------------------------------------------------------------
(* Properties.                                                             *)

SyncTypeOK ==
    /\ sy.data \in [Fields -> Values] /\ sy.token \in {Token, Null}
    /\ sy.provider \in {"off", "daemon", "file"} /\ sy.enabled \subseteq Mods
    /\ sy.edited \subseteq Fields /\ sy.home \subseteq Values
    /\ op.at \in {"standby", "pull", "push", "import", "restore"}
    /\ \A m, n \in lib.snaps : m.id = n.id => m = n

\* A sync or an import that has a baseline for a module never overwrites what
\* the user changed since: a field the other side changed too waits for the
\* user, and its whole module with it.
EditsSurvivePull ==
    [][(SyncPulled \/ applyImport) /\ op.last # Null =>
          \A f \in sy.edited : Covers(op.last, Owner[f]) /\ sy.data[f] # op.last[f]
                                  => sy'.data[f] = sy.data[f]]_syncVars

\* A host's token is stored only with an endpoint that the user's own edits
\* of address and token have put it beside: none that a sync, an import, a
\* resolved conflict or a restored snapshot brought, in whatever order.
TokenOfEndpoint == sy.token # Null => sy.data[HostField] \in sy.home

\* What a restore or an import is about to replace can be brought back: its
\* safety snapshot, if it has one, outlives every compaction that runs
\* meanwhile; and only the newest session snapshot is exempt from them.
SafetySnapshotKept ==
    /\ op.at \in {"import", "restore"} /\ op.pre # 0 => \E m \in lib.snaps : m.id = op.pre
    /\ \A m, n \in lib.snaps : m.pristine /\ n.pristine => m = n

\* What a sync, an import or a restore may never leave behind: a token with an
\* endpoint not the user's (TokenOfEndpoint), or an operation whose safety snapshot
\* compaction has deleted (SafetySnapshotKept).
StoredStateSafe == SyncTypeOK /\ TokenOfEndpoint /\ SafetySnapshotKept
=============================================================================
