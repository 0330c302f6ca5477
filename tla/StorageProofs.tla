---------------------------- MODULE StorageProofs ----------------------------
(***************************************************************************)
(* Proofs about the editors over the In-App store (EditorStorage) and the  *)
(* backups of the store (StorageBackup), for any paths, panes, hosts,      *)
(* restores and bounds.                                                    *)
(***************************************************************************)
EXTENDS StorageBackup, FiniteSetTheorems, TLAPS

-----------------------------------------------------------------------------
(* The invariant of store and editors.                                     *)

Maps(D, R) == UNION {[S -> R] : S \in SUBSET D}

\* With a path the store holds all directories above it.
Rooted(D) == \A p \in D, q \in Paths : isPathUnder(p, q) => q \in D

Files == [dir : BOOLEAN, c : Contents, m : 0..MaxRev, own : BOOLEAN]
FsOK(s) == s \in [files : Maps(Paths, Files), rev : 0..MaxRev] /\ Rooted(DOMAIN s.files)

Bufs == [c : Contents, saved : Contents, m : 0..MaxRev]
Reads == [at : {"idle", "error"}] \cup [at : {"load", "check"}, k : Paths]
         \cup [at : {"read"}, k : Paths, m : 0..MaxRev]
Eds == [bufs : Maps(AllPaths, Bufs), att : Maps(Panes, AllPaths), shows : [Panes -> AllPaths \cup {None}],
        up : SUBSET Panes, lock : SUBSET Panes, ph : SUBSET Paths, rd : [Panes -> Reads],
        sweeps : SUBSET (Paths \X {"stat", "delete"}), ousted : SUBSET Panes, orphan : SUBSET AllPaths]
\* A document on its way to another name: a file stays in its directory.
Moving == {s \in [at : {"name", "create", "named", "rename", "move"}, k : AllPaths, to : Paths, c : Contents, m : 0..MaxRev] :
              s.at \in {"rename", "move"} => s.k \in Paths /\ Parent(s.to) = Parent(s.k) /\ s.to # s.k}
Saves == [at : {"idle"}] \cup [at : {"write"}, k : Paths, c : Contents] \cup [at : {"stat"}, k : Paths] \cup Moving
Dels == [at : {"idle"}] \cup [at : {"dialog"}, paths : SUBSET Paths, empty : BOOLEAN]
        \cup [at : {"deleting"}, left : SUBSET Paths]

Attached(e) == \A k \in DOMAIN e.bufs \ e.orphan : \E p \in DOMAIN e.att : e.att[p] = k

\* Pane p is attached to the buffer of path k, or a restore has ousted it.
On(e, p, k) == IF p \in DOMAIN e.att THEN e.att[p] = k ELSE p \in e.ousted

\* A load is of the path that its pane shows, and only files fail to load.
ReadsShown(e, shown) ==
    \A p \in Panes : e.rd[p].at \in {"load", "error"} =>
        /\ p \in e.up /\ shown[p] \in Paths
        /\ e.rd[p].at = "load" => e.rd[p].k = shown[p]

Good(e) ==
    /\ e \in Eds /\ Attached(e)
    /\ \A p \in e.up : e.shows[p] # None /\ On(e, p, e.shows[p])
    /\ ReadsShown(e, e.shows)

Untouched(s, ph) == \A k \in ph : Exists(s, k) /\ s.files[k].own => s.files[k].c = 0

EditInv == FsOK(fs) /\ Good(ed) /\ Untouched(fs, ed.ph) /\ save \in [Panes -> Saves] /\ del \in Dels

-----------------------------------------------------------------------------
(* The invariant of the backups.                                           *)

Marks == [dir : BOOLEAN, c : Contents]
Listings == Maps(Paths, Marks)
Trees == {t \in Listings : Rooted(DOMAIN t)}
Hosted == [status : {"idle", "backing-up", "error"}, last : Nat, tree : Trees \cup {None}]
Jobs == [by : Restores \cup {"auto"}, at : {"queued"}]
        \cup [by : Restores \cup {"auto"}, at : {"read", "post"}, cur : Hosted, list : Trees, got : Listings]
Snaps == [host : Hosts, mine : BOOLEAN, parent : Nat, tree : Trees]
Acts == [p : Panes, k : Paths, gone : BOOLEAN]
RestoreRecs == [at : {"idle"}]
    \cup [at : {"revision", "manifest", "point", "fetch", "swap", "reload"}, snap : Nat, host : Hosts,
          rev : Nat, before : Trees \cup {None}, point : Nat, plan : Seq(Acts)]
Bks == [byHost : [Hosts -> Hosted], jobs : [Hosts -> Seq(Jobs)], snaps : Seq(Snaps), acked : SUBSET Nat,
        active : Hosts, timer : Hosts \cup {None}, restores : [Restores -> RestoreRecs]]

\* Only the first job of a host runs, on the record of the host as it is.
InTurn(b) ==
    \A h \in Hosts : \A i \in DOMAIN b.jobs[h] : b.jobs[h][i].at # "queued" =>
        i = 1 /\ b.jobs[h][i].cur.last = b.byHost[h].last

\* The record of a host names the last snapshot that it acknowledged.
Chained(b) ==
    /\ b.acked \subseteq DOMAIN b.snaps
    /\ \A i \in b.acked : i <= b.byHost[b.snaps[i].host].last
    /\ \A h \in Hosts : b.byHost[h].last <= Len(b.snaps)

\* A job of a restore is the one that it waits for.
JobOfRestore(b) ==
    \A h \in Hosts : \A i \in DOMAIN b.jobs[h] : LET by == b.jobs[h][i].by IN by \in Restores =>
        /\ b.restores[by].at = "point"
        /\ \A g \in Hosts : \A j \in DOMAIN b.jobs[g] : b.jobs[g][j].by = by => g = h /\ j = i

\* What a job has read is what it listed, as long as the store is at revision n.
ListIsTree(s, n, job) ==
    job.at # "queued" /\ n = s.rev =>
        /\ job.list = Tree(s)
        /\ DOMAIN job.got \subseteq DOMAIN job.list
        /\ \A k \in DOMAIN job.got : job.got[k] = job.list[k]

Complete(job) == job.at = "post" => DOMAIN job.got = DOMAIN job.list

Points(s, b) ==
    /\ \A r \in Restores : LET st == b.restores[r] IN
          /\ st.at # "idle" => st.snap \in DOMAIN b.snaps /\ st.rev <= s.rev
          /\ st.at = "reload" => st.plan # <<>>
          /\ st.at \in {"fetch", "swap"} =>
                st.point \in DOMAIN b.snaps /\ (st.rev = s.rev => b.snaps[st.point].tree = Tree(s))
    /\ \A h \in Hosts : \A i \in DOMAIN b.jobs[h] :
          /\ Complete(b.jobs[h][i])
          /\ b.jobs[h][i].by \in Restores => ListIsTree(s, b.restores[b.jobs[h][i].by].rev, b.jobs[h][i])

BackupInv == bk \in Bks /\ InTurn(bk) /\ Chained(bk) /\ JobOfRestore(bk) /\ Points(fs, bk) /\ NoSelfFork

StorageInv == EditInv /\ BackupInv

-----------------------------------------------------------------------------
(* Lemmas about maps, lists and the store.                                 *)

LEMMA MapsFacts ==
  ASSUME NEW D, NEW R, NEW f
  PROVE  f \in Maps(D, R) <=> f = [x \in DOMAIN f |-> f[x]] /\ DOMAIN f \subseteq D /\ \A x \in DOMAIN f : f[x] \in R
  <1>1. ASSUME f \in Maps(D, R)
        PROVE  f = [x \in DOMAIN f |-> f[x]] /\ DOMAIN f \subseteq D /\ \A x \in DOMAIN f : f[x] \in R
    BY <1>1 DEF Maps
  <1>2. ASSUME f = [x \in DOMAIN f |-> f[x]], DOMAIN f \subseteq D, \A x \in DOMAIN f : f[x] \in R
        PROVE  f \in Maps(D, R)
    <2>1. f \in [DOMAIN f -> R] BY <1>2
    <2> QED BY <2>1, <1>2 DEF Maps
  <1> QED BY <1>1, <1>2

LEMMA WithMaps ==
  ASSUME NEW D, NEW R, NEW f \in Maps(D, R), NEW k \in D, NEW v \in R
  PROVE  /\ With(f, k, v) \in Maps(D, R)
         /\ DOMAIN With(f, k, v) = DOMAIN f \cup {k}
         /\ \A x \in DOMAIN f \cup {k} : With(f, k, v)[x] = IF x = k THEN v ELSE f[x]
  <1>1. DOMAIN f \subseteq D /\ \A x \in DOMAIN f : f[x] \in R BY MapsFacts
  <1>2. With(f, k, v) \in [DOMAIN f \cup {k} -> R] BY <1>1 DEF With
  <1> QED BY <1>1, <1>2 DEF With, Maps

LEMMA Listed ==
  ASSUME NEW S, NEW n \in Nat, NEW f \in [1..n -> S]
  PROVE  f \in Seq(S) /\ Len(f) = n
  OBVIOUS

LEMMA ListingFacts ==
  ASSUME NEW f \in Listings
  PROVE  /\ DOMAIN f \subseteq Paths /\ \A x \in DOMAIN f : f[x] \in Marks
         /\ \A k \in Paths, v \in Marks :
               /\ With(f, k, v) \in Listings
               /\ DOMAIN With(f, k, v) = DOMAIN f \cup {k}
               /\ \A x \in DOMAIN f \cup {k} : With(f, k, v)[x] = IF x = k THEN v ELSE f[x]
  <1>1. f \in Maps(Paths, Marks) BY DEF Listings
  <1>2. DOMAIN f \subseteq Paths /\ \A x \in DOMAIN f : f[x] \in Marks BY <1>1 DEF Maps
  <1>3. ASSUME NEW k \in Paths, NEW v \in Marks
        PROVE  /\ With(f, k, v) \in Listings
               /\ DOMAIN With(f, k, v) = DOMAIN f \cup {k}
               /\ \A x \in DOMAIN f \cup {k} : With(f, k, v)[x] = IF x = k THEN v ELSE f[x]
    <2>1. With(f, k, v) \in [DOMAIN f \cup {k} -> Marks] BY <1>2 DEF With
    <2> QED BY <1>2, <2>1 DEF With, Listings, Maps
  <1> QED BY <1>2, <1>3

LEMMA FirstRemoved ==
  ASSUME NEW S, NEW s \in Seq(S), 1 \in DOMAIN s
  PROVE  /\ RemoveAt(s, 1) \in Seq(S)
         /\ Len(RemoveAt(s, 1)) = Len(s) - 1
         /\ \A i \in DOMAIN RemoveAt(s, 1) : i + 1 \in DOMAIN s /\ RemoveAt(s, 1)[i] = s[i + 1]
  <1> DEFINE rest == SubSeq(s, 2, Len(s))
  <1>0. /\ Len(s) \in Nat \ {0} /\ DOMAIN s = 1..Len(s)
        /\ \A i \in 1..Len(s) : s[i] \in S
    OBVIOUS
  <1>1. rest \in Seq(S) /\ Len(rest) = Len(s) - 1 /\ \A i \in 1..(Len(s) - 1) : rest[i] = s[i + 1]
    <2>1. rest = [i \in 1..(Len(s) - 2 + 1) |-> s[i + 2 - 1]] BY DEF rest
    <2>2. \A i \in 1..(Len(s) - 1) : i + 1 \in 1..Len(s) /\ i + 2 - 1 = i + 1 BY <1>0
    <2>3. Len(s) - 2 + 1 = Len(s) - 1 /\ Len(s) - 1 \in Nat BY <1>0
    <2>4. rest = [i \in 1..(Len(s) - 1) |-> s[i + 2 - 1]] BY <2>1, <2>3
    <2> HIDE DEF rest
    <2>5. \A i \in 1..(Len(s) - 1) : rest[i] = s[i + 1] /\ rest[i] \in S BY <1>0, <2>2, <2>4
    <2>6. rest \in [1..(Len(s) - 1) -> S] BY <2>4, <2>5
    <2>7. rest \in Seq(S) /\ Len(rest) = Len(s) - 1 BY <2>3, <2>6, Listed
    <2> QED BY <2>5, <2>7
  <1>2. SubSeq(s, 1, 0) = <<>> OBVIOUS
  <1> HIDE DEF rest
  <1>3. RemoveAt(s, 1) = rest
    <2>1. RemoveAt(s, 1) = SubSeq(s, 1, 0) \o rest BY DEF RemoveAt, rest
    <2> QED BY <1>1, <1>2, <2>1
  <1> QED BY <1>1, <1>3

LEMMA TreeFacts ==
  ASSUME NEW s, FsOK(s)
  PROVE  /\ Tree(s) \in Trees /\ DOMAIN Tree(s) = DOMAIN s.files
         /\ \A k \in DOMAIN s.files : Tree(s)[k] = [dir |-> s.files[k].dir, c |-> s.files[k].c]
  <1>1. /\ DOMAIN s.files \subseteq Paths /\ \A x \in DOMAIN s.files : s.files[x] \in Files
    BY MapsFacts DEF FsOK
  <1>2. Tree(s) \in [DOMAIN s.files -> Marks]
    BY <1>1 DEF Tree, Files, Marks
  <1> QED BY <1>1, <1>2 DEF Tree, Trees, Listings, Maps, FsOK

\* A restore under way has all its fields, and goes from stage to stage with them.
Stages == {"revision", "manifest", "point", "fetch", "swap", "reload"}
Underway == [at : Stages, snap : Nat, host : Hosts, rev : Nat, before : Trees \cup {None}, point : Nat, plan : Seq(Acts)]

LEMMA RestoreTyped ==
  ASSUME NEW b \in Bks, NEW r \in Restores, b.restores[r].at # "idle"
  PROVE  /\ b.restores[r] \in Underway
         /\ \A at \in Stages, n \in Nat : /\ [b.restores[r] EXCEPT !.at = at] \in RestoreRecs
                                       /\ [b.restores[r] EXCEPT !.at = at, !.point = n] \in RestoreRecs
                                       /\ [b.restores[r] EXCEPT !.at = at, !.rev = n] \in RestoreRecs
  <1>1. b.restores[r] \in RestoreRecs BY DEF Bks
  <1>2. b.restores[r] \in Underway BY <1>1 DEF RestoreRecs, Underway, Stages
  <1> QED BY <1>2 DEF RestoreRecs, Underway, Stages

LEMMA BkElements ==
  ASSUME NEW b \in Bks
  PROVE  /\ \A h \in Hosts : b.byHost[h] \in Hosted /\ b.jobs[h] \in Seq(Jobs)
         /\ \A h \in Hosts : \A i \in DOMAIN b.jobs[h] : b.jobs[h][i] \in Jobs
         /\ \A i \in DOMAIN b.snaps : b.snaps[i] \in Snaps
         /\ \A r \in Restores : b.restores[r] \in RestoreRecs
  BY DEF Bks

Settled(b, h, point, t) ==
    /\ t \in Bks
    /\ t.byHost = b.byHost /\ t.snaps = b.snaps /\ t.acked = b.acked
    /\ t.active = b.active /\ t.timer = b.timer
    /\ \A g \in Hosts : g # h => t.jobs[g] = b.jobs[g]
    /\ \A i \in DOMAIN t.jobs[h] : i + 1 \in DOMAIN b.jobs[h] /\ t.jobs[h][i] = b.jobs[h][i + 1]
    /\ \A r \in Restores :
          IF b.restores[r].at # "point" \/ b.jobs[h][1].by # r THEN t.restores[r] = b.restores[r]
          ELSE IF point = 0 THEN t.restores[r] = Idle
          ELSE t.restores[r] = [b.restores[r] EXCEPT !.at = "fetch", !.point = point]

\* A job of a host is over, and with it what the restore waited for.
LEMMA SettleFacts ==
  ASSUME NEW b \in Bks, NEW h \in Hosts, 1 \in DOMAIN b.jobs[h],
         NEW point \in Nat, NEW t, t = Settle(b, h, 1, point)
  PROVE  Settled(b, h, point, t)
  <1>1. b.jobs[h] \in Seq(Jobs) BY DEF Bks
  <1>2. RemoveAt(b.jobs[h], 1) \in Seq(Jobs) BY <1>1, FirstRemoved
  <1>3. [b.jobs EXCEPT ![h] = RemoveAt(b.jobs[h], 1)] \in [Hosts -> Seq(Jobs)] BY <1>2 DEF Bks
  <1>4. ASSUME NEW r \in Restores, b.restores[r].at = "point"
        PROVE  [b.restores[r] EXCEPT !.at = "fetch", !.point = point] \in RestoreRecs
    <2>1. b.restores[r].at # "idle" /\ "fetch" \in Stages BY <1>4 DEF Stages
    <2> QED BY <2>1, RestoreTyped
  <1>5. Idle \in RestoreRecs BY DEF Idle, RestoreRecs
  <1> DEFINE rs == [r \in Restores |-> IF b.restores[r].at # "point" \/ b.jobs[h][1].by # r THEN b.restores[r]
                                       ELSE IF point = 0 THEN Idle
                                       ELSE [b.restores[r] EXCEPT !.at = "fetch", !.point = point]]
  <1>6. rs \in [Restores -> RestoreRecs] BY <1>4, <1>5 DEF Bks
  <1> HIDE DEF rs
  <1>7. t = [b EXCEPT !.jobs = [b.jobs EXCEPT ![h] = RemoveAt(b.jobs[h], 1)], !.restores = rs]
    BY DEF Settle, rs, Bks
  <1>8. t \in Bks BY <1>3, <1>6, <1>7 DEF Bks
  <1>9. /\ t.byHost = b.byHost /\ t.snaps = b.snaps /\ t.acked = b.acked
        /\ t.active = b.active /\ t.timer = b.timer
        /\ \A g \in Hosts : g # h => t.jobs[g] = b.jobs[g]
        /\ t.jobs[h] = RemoveAt(b.jobs[h], 1) /\ t.restores = rs
    BY <1>7 DEF Bks
  <1>10. \A i \in DOMAIN t.jobs[h] : i + 1 \in DOMAIN b.jobs[h] /\ t.jobs[h][i] = b.jobs[h][i + 1]
    BY <1>1, <1>9, FirstRemoved
  <1> QED BY <1>8, <1>9, <1>10 DEF rs, Settled

-----------------------------------------------------------------------------
(* The backups: one step for each action.                                  *)

Same(b, t) == /\ t.byHost = b.byHost /\ t.snaps = b.snaps /\ t.acked = b.acked
              /\ t.jobs = b.jobs /\ t.restores = b.restores

\* A change of the store takes nothing from what is known of its revisions.
LEMMA PointsKept ==
  ASSUME NEW b \in Bks, NEW s, NEW t, Points(s, b), JobOfRestore(b), t.rev = s.rev + 1, s.rev \in Nat
  PROVE  Points(t, b)
  <1>1. ASSUME NEW r \in Restores, b.restores[r].at # "idle"
        PROVE  b.restores[r].rev \in Nat /\ b.restores[r].rev <= s.rev
    <2>1. b.restores[r] \in Underway BY <1>1, RestoreTyped
    <2> QED BY <1>1, <2>1 DEF Points, Underway
  <1>2. \A r \in Restores : LET st == b.restores[r] IN
          /\ st.at # "idle" => st.snap \in DOMAIN b.snaps /\ st.rev <= t.rev
          /\ st.at = "reload" => st.plan # <<>>
          /\ st.at \in {"fetch", "swap"} => st.point \in DOMAIN b.snaps
                                           /\ (st.rev = t.rev => b.snaps[st.point].tree = Tree(t))
    BY <1>1 DEF Points
  <1>3. ASSUME NEW h \in Hosts, NEW i \in DOMAIN b.jobs[h], b.jobs[h][i].by \in Restores
        PROVE  ListIsTree(t, b.restores[b.jobs[h][i].by].rev, b.jobs[h][i])
    <2>1. b.restores[b.jobs[h][i].by].at = "point" BY <1>3 DEF JobOfRestore
    <2> QED BY <1>1, <1>3, <2>1 DEF ListIsTree
  <1> QED BY <1>2, <1>3 DEF Points

\* Timer and active host are nobody's business.
LEMMA SameKept ==
  ASSUME BackupInv, bk' \in Bks, Same(bk, bk'),
         fs' = fs \/ (fs'.rev = fs.rev + 1 /\ fs.rev \in Nat)
  PROVE  BackupInv'
  <1>1. InTurn(bk)' /\ Chained(bk)' /\ JobOfRestore(bk)' /\ NoSelfFork'
    BY DEF BackupInv, Same, InTurn, Chained, JobOfRestore, NoSelfFork
  <1>2. Points(fs', bk')
    <2>1. CASE fs' = fs BY <2>1 DEF BackupInv, Same, Points, ListIsTree, Complete
    <2>2. CASE fs'.rev = fs.rev + 1 /\ fs.rev \in Nat
      <3>1. Points(fs', bk) BY <2>2, PointsKept DEF BackupInv
      <3> QED BY <3>1 DEF Same, Points
    <2> QED BY <2>1, <2>2
  <1> QED BY <1>1, <1>2 DEF BackupInv

\* A step of the editors: a change of the store raises its revision.
LEMMA EditKeepsBackups ==
  ASSUME BackupInv, bk' = bk \/ bk' = onMutation(bk),
         fs' = fs \/ (fs'.rev = fs.rev + 1 /\ fs.rev \in Nat)
  PROVE  BackupInv'
  <1>1. bk' \in Bks /\ Same(bk, bk') BY DEF BackupInv, Bks, onMutation, Same
  <1> QED BY <1>1, SameKept

LEMMA InputKeepsBackups ==
  ASSUME BackupInv, FsOK(fs), BackupInput
  PROVE  BackupInv'
  <1>0. fs' = fs BY DEF BackupInput, SwitchHost, applyRemoteBackupDone, handleRestore, editVars
  <1>1. ASSUME NEW h \in Hosts, SwitchHost(h) PROVE BackupInv'
    <2>1. bk' \in Bks /\ Same(bk, bk') BY <1>1 DEF BackupInv, Bks, SwitchHost, Same
    <2> QED BY <1>0, <2>1, SameKept
  <1>2. ASSUME NEW h \in Hosts, applyRemoteBackupDone(h) PROVE BackupInv'
    <2>1. bk' = [bk EXCEPT !.byHost[h].status = "idle"] BY <1>2 DEF applyRemoteBackupDone
    <2>2. bk \in Bks /\ bk.byHost[h] \in Hosted BY DEF BackupInv, Bks
    <2>3. [bk.byHost EXCEPT ![h].status = "idle"] \in [Hosts -> Hosted]
          /\ \A g \in Hosts : [bk.byHost EXCEPT ![h].status = "idle"][g].last = bk.byHost[g].last
      BY <2>2 DEF Bks, Hosted
    <2>4. bk' \in Bks /\ \A g \in Hosts : bk'.byHost[g].last = bk.byHost[g].last
      BY <2>1, <2>2, <2>3 DEF Bks
    <2>5. bk'.jobs = bk.jobs /\ bk'.snaps = bk.snaps /\ bk'.acked = bk.acked /\ bk'.restores = bk.restores
      BY <2>1, <2>2 DEF Bks
    <2>6. InTurn(bk)' /\ JobOfRestore(bk)' /\ NoSelfFork' /\ Points(fs', bk')
      BY <1>0, <2>4, <2>5 DEF BackupInv, InTurn, JobOfRestore, NoSelfFork, Points
    <2>7. Chained(bk)'
      <3>1. \A i \in bk.acked : bk.snaps[i].host \in Hosts BY <2>2, BkElements DEF BackupInv, Chained, Snaps
      <3> QED BY <2>4, <2>5, <3>1 DEF BackupInv, Chained
    <2> QED BY <2>4, <2>6, <2>7 DEF BackupInv
  <1>3. ASSUME NEW r \in Restores, NEW n \in 1..MaxJobs, handleRestore(r, n) PROVE BackupInv'
    <2> DEFINE st == [at |-> "revision", snap |-> n, host |-> bk.active, rev |-> 0,
                      before |-> None, point |-> 0, plan |-> <<>>]
    <2>1. /\ bk' = [bk EXCEPT !.restores[r] = st] /\ n \in DOMAIN bk.snaps /\ bk.restores[r] = Idle
      BY <1>3 DEF handleRestore, Goes, History, RestoreEnabled
    <2>2. st \in RestoreRecs
      <3>1. n \in Nat /\ bk.active \in Hosts BY <2>1 DEF BackupInv, Bks
      <3> QED BY <3>1 DEF RestoreRecs
    <2>3. bk' \in Bks BY <2>1, <2>2 DEF BackupInv, Bks
    <2>4. /\ bk'.byHost = bk.byHost /\ bk'.snaps = bk.snaps /\ bk'.acked = bk.acked /\ bk'.jobs = bk.jobs
          /\ \A x \in Restores : bk'.restores[x] = IF x = r THEN st ELSE bk.restores[x]
      BY <2>1 DEF BackupInv, Bks
    <2>5. InTurn(bk)' /\ Chained(bk)' /\ NoSelfFork'
      BY <2>4 DEF BackupInv, InTurn, Chained, NoSelfFork
    <2>6. \A h \in Hosts : \A i \in DOMAIN bk.jobs[h] : bk.jobs[h][i].by # r
      BY <2>1 DEF BackupInv, JobOfRestore, Idle
    <2>7. JobOfRestore(bk)' BY <2>4, <2>6 DEF BackupInv, JobOfRestore
    <2>8. Points(fs', bk')
      <3>1. 0 <= fs.rev BY DEF FsOK
      <3> QED BY <1>0, <2>1, <2>4, <2>6, <3>1 DEF BackupInv, Points
    <2> QED BY <2>3, <2>5, <2>7, <2>8 DEF BackupInv
  <1> QED BY <1>1, <1>2, <1>3 DEF BackupInput

\* What a restore changes of the backups: its own record, and at most a job
\* of its own at the end of the queue.
LEMMA RestoreMoves ==
  ASSUME BackupInv, fs' = fs \/ (fs'.rev = fs.rev + 1 /\ fs.rev \in Nat), NEW r \in Restores, NEW st \in RestoreRecs,
         bk' = [bk EXCEPT !.restores[r] = st], bk.restores[r].at \notin {"idle", "point"},
         st.at \in {"idle", "manifest", "swap", "reload"},
         st.at # "idle" => st.snap = bk.restores[r].snap /\ st.rev <= fs.rev,
         st.at = "reload" => st.plan # <<>>,
         st.at = "swap" => bk.restores[r].at = "fetch" /\ st.point = bk.restores[r].point /\ st.rev = bk.restores[r].rev
  PROVE  BackupInv'
  <1>1. bk' \in Bks BY DEF BackupInv, Bks
  <1>2. /\ bk'.byHost = bk.byHost /\ bk'.snaps = bk.snaps /\ bk'.acked = bk.acked /\ bk'.jobs = bk.jobs
        /\ \A x \in Restores : bk'.restores[x] = IF x = r THEN st ELSE bk.restores[x]
    BY DEF BackupInv, Bks
  <1>3. InTurn(bk)' /\ Chained(bk)' /\ NoSelfFork'
    BY <1>2 DEF BackupInv, InTurn, Chained, NoSelfFork
  <1>4. \A h \in Hosts : \A i \in DOMAIN bk.jobs[h] : bk.jobs[h][i].by # r
    BY DEF BackupInv, JobOfRestore
  <1>5. JobOfRestore(bk)' BY <1>2, <1>4 DEF BackupInv, JobOfRestore
  <1>6. Points(fs, bk')
    BY <1>2, <1>4 DEF BackupInv, Points
  <1>7. Points(fs', bk') BY <1>1, <1>5, <1>6, PointsKept
  <1> QED BY <1>1, <1>3, <1>5, <1>7 DEF BackupInv

LEMMA RevisionKeeps ==
  ASSUME BackupInv, FsOK(fs), NEW r \in Restores, RestoreRevision(r)
  PROVE  BackupInv'
  <1> DEFINE st == [bk.restores[r] EXCEPT !.at = "manifest", !.rev = fs.rev]
  <1>1. bk' = [bk EXCEPT !.restores[r] = st] /\ fs' = fs /\ bk.restores[r].at = "revision"
    BY DEF RestoreRevision, Goes, editVars
  <1>2. fs.rev \in Nat BY EditAssumption DEF FsOK
  <1>3. bk.restores[r] \in Underway BY <1>1, RestoreTyped DEF BackupInv
  <1>4. st \in RestoreRecs /\ st.at = "manifest" /\ st.snap = bk.restores[r].snap /\ st.rev = fs.rev
    BY <1>2, <1>3 DEF Underway, RestoreRecs
  <1> HIDE DEF st
  <1>5. st.rev <= fs.rev BY <1>2, <1>4
  <1> QED BY <1>1, <1>4, <1>5, RestoreMoves

LEMMA FetchedKeeps ==
  ASSUME BackupInv, FsOK(fs), NEW r \in Restores, RestoreFetched(r)
  PROVE  BackupInv'
  <1> DEFINE st == [bk.restores[r] EXCEPT !.at = "swap"]
  <1>1. fs' = fs /\ bk.restores[r].at = "fetch" BY DEF RestoreFetched, editVars
  <1>2. bk' = [bk EXCEPT !.restores[r] = st] \/ bk' = [bk EXCEPT !.restores[r] = Idle]
    BY DEF RestoreFetched, Goes
  <1>3. bk.restores[r] \in Underway BY <1>1, RestoreTyped DEF BackupInv
  <1>4. /\ st \in RestoreRecs /\ st.at = "swap" /\ st.snap = bk.restores[r].snap
        /\ st.rev = bk.restores[r].rev /\ st.point = bk.restores[r].point
    BY <1>3 DEF Underway, RestoreRecs
  <1>5. Idle \in RestoreRecs /\ Idle.at = "idle" BY DEF Idle, RestoreRecs
  <1> HIDE DEF st
  <1>6. bk.restores[r].rev <= fs.rev BY <1>1 DEF BackupInv, Points
  <1>7. CASE bk' = [bk EXCEPT !.restores[r] = st] BY <1>1, <1>4, <1>6, <1>7, RestoreMoves
  <1>8. CASE bk' = [bk EXCEPT !.restores[r] = Idle] BY <1>1, <1>5, <1>8, RestoreMoves
  <1> QED BY <1>2, <1>7, <1>8

\* A job added at the end of a host's queue.
LEMMA EnqueueFacts ==
  ASSUME NEW b \in Bks, NEW h \in Hosts, NEW by \in Restores \cup {"auto"}, NEW t, t = Enqueue(b, h, by)
  PROVE  /\ t \in Bks
         /\ t.byHost = b.byHost /\ t.snaps = b.snaps /\ t.acked = b.acked /\ t.restores = b.restores
         /\ t.active = b.active /\ t.timer = b.timer
         /\ \A g \in Hosts : g # h => t.jobs[g] = b.jobs[g]
         /\ \A i \in DOMAIN t.jobs[h] : \/ i \in DOMAIN b.jobs[h] /\ t.jobs[h][i] = b.jobs[h][i]
                                        \/ i = Len(b.jobs[h]) + 1 /\ t.jobs[h][i] = [by |-> by, at |-> "queued"]
  <1> DEFINE job == [by |-> by, at |-> "queued"]
  <1>1. job \in Jobs BY DEF Jobs
  <1>2. b.jobs[h] \in Seq(Jobs) BY BkElements
  <1> HIDE DEF job
  <1>3. /\ Append(b.jobs[h], job) \in Seq(Jobs)
        /\ \A i \in DOMAIN Append(b.jobs[h], job) :
              \/ i \in DOMAIN b.jobs[h] /\ Append(b.jobs[h], job)[i] = b.jobs[h][i]
              \/ i = Len(b.jobs[h]) + 1 /\ Append(b.jobs[h], job)[i] = job
    BY <1>1, <1>2
  <1>4. t = [b EXCEPT !.jobs = [b.jobs EXCEPT ![h] = Append(b.jobs[h], job)]]
    BY DEF Enqueue, Bks, job
  <1>5. [b.jobs EXCEPT ![h] = Append(b.jobs[h], job)] \in [Hosts -> Seq(Jobs)]
    BY <1>3 DEF Bks
  <1>6. t \in Bks BY <1>4, <1>5 DEF Bks
  <1>7. t.jobs = [b.jobs EXCEPT ![h] = Append(b.jobs[h], job)] /\ b.jobs \in [Hosts -> Seq(Jobs)]
    BY <1>4 DEF Bks
  <1>8. /\ t.byHost = b.byHost /\ t.snaps = b.snaps /\ t.acked = b.acked /\ t.restores = b.restores
        /\ t.active = b.active /\ t.timer = b.timer
    BY <1>4 DEF Bks
  <1> QED BY <1>3, <1>6, <1>7, <1>8 DEF job

LEMMA TimerKeeps ==
  ASSUME BackupInv, TimerFires
  PROVE  BackupInv'
  <1> DEFINE h == bk.timer
             t == Enqueue(bk, h, "auto")
  <1>1. fs' = fs /\ bk' = [t EXCEPT !.timer = None] /\ h \in Hosts
    BY DEF TimerFires, editVars, BackupInv, Bks
  <1>2. bk \in Bks BY DEF BackupInv
  <1>3. /\ t \in Bks
        /\ t.byHost = bk.byHost /\ t.snaps = bk.snaps /\ t.acked = bk.acked /\ t.restores = bk.restores
        /\ \A g \in Hosts : g # h => t.jobs[g] = bk.jobs[g]
        /\ \A i \in DOMAIN t.jobs[h] : \/ i \in DOMAIN bk.jobs[h] /\ t.jobs[h][i] = bk.jobs[h][i]
                                       \/ i = Len(bk.jobs[h]) + 1 /\ t.jobs[h][i] = [by |-> "auto", at |-> "queued"]
    BY <1>1, <1>2, EnqueueFacts
  <1> HIDE DEF t, h
  <1>4. bk' \in Bks /\ bk'.jobs = t.jobs /\ bk'.byHost = bk.byHost /\ bk'.snaps = bk.snaps /\ bk'.acked = bk.acked
        /\ bk'.restores = bk.restores
    BY <1>1, <1>3 DEF Bks
  <1>5. \A g \in Hosts : \A i \in DOMAIN bk'.jobs[g] :
            \/ i \in DOMAIN bk.jobs[g] /\ bk'.jobs[g][i] = bk.jobs[g][i]
            \/ bk'.jobs[g][i] = [by |-> "auto", at |-> "queued"]
    BY <1>3, <1>4
  <1>6. InTurn(bk)' BY <1>4, <1>5 DEF BackupInv, InTurn
  <1>7. Chained(bk)' /\ NoSelfFork' BY <1>4 DEF BackupInv, Chained, NoSelfFork
  <1>8. JobOfRestore(bk)' BY <1>4, <1>5, BackupAssumption DEF BackupInv, JobOfRestore
  <1>9. Points(fs', bk')
    BY <1>1, <1>4, <1>5 DEF BackupInv, Points, ListIsTree, Complete
  <1> QED BY <1>4, <1>6, <1>7, <1>8, <1>9 DEF BackupInv

LEMMA ManifestKeeps ==
  ASSUME BackupInv, FsOK(fs), NEW r \in Restores, RestoreManifest(r)
  PROVE  BackupInv'
  <1> DEFINE st == [bk.restores[r] EXCEPT !.before = Tree(fs), !.at = "point"]
             b == [bk EXCEPT !.restores[r].before = Tree(fs), !.restores[r].at = "point"]
             h == bk.restores[r].host
  <1>1. fs' = fs /\ bk' = Enqueue(b, h, r) /\ bk.restores[r].at = "manifest"
    BY DEF RestoreManifest, editVars
  <1>2. bk.restores[r] \in Underway BY <1>1, RestoreTyped DEF BackupInv
  <1>3. /\ st \in RestoreRecs /\ h \in Hosts /\ st.at = "point" /\ st.snap = bk.restores[r].snap
        /\ st.rev = bk.restores[r].rev
    BY <1>2, TreeFacts DEF Underway, RestoreRecs
  <1>4. b = [bk EXCEPT !.restores[r] = st] BY DEF BackupInv, Bks
  <1> HIDE DEF st, b
  <1>5. b \in Bks BY <1>3, <1>4 DEF BackupInv, Bks
  <1>6. /\ b.byHost = bk.byHost /\ b.snaps = bk.snaps /\ b.acked = bk.acked /\ b.jobs = bk.jobs
        /\ \A x \in Restores : b.restores[x] = IF x = r THEN st ELSE bk.restores[x]
    BY <1>4 DEF BackupInv, Bks
  <1>7. /\ bk' \in Bks
        /\ bk'.byHost = b.byHost /\ bk'.snaps = b.snaps /\ bk'.acked = b.acked /\ bk'.restores = b.restores
        /\ \A g \in Hosts : g # h => bk'.jobs[g] = b.jobs[g]
        /\ \A i \in DOMAIN bk'.jobs[h] : \/ i \in DOMAIN b.jobs[h] /\ bk'.jobs[h][i] = b.jobs[h][i]
                                         \/ i = Len(b.jobs[h]) + 1 /\ bk'.jobs[h][i] = [by |-> r, at |-> "queued"]
    BY <1>1, <1>3, <1>5, EnqueueFacts
  <1> HIDE DEF h
  <1>8. \A g \in Hosts : \A i \in DOMAIN bk'.jobs[g] :
            \/ i \in DOMAIN bk.jobs[g] /\ bk'.jobs[g][i] = bk.jobs[g][i]
            \/ g = h /\ i = Len(bk.jobs[h]) + 1 /\ bk'.jobs[g][i] = [by |-> r, at |-> "queued"]
    BY <1>6, <1>7
  <1>9. \A g \in Hosts : \A i \in DOMAIN bk.jobs[g] : bk.jobs[g][i].by # r
    BY <1>1 DEF BackupInv, JobOfRestore
  <1>10. InTurn(bk)' BY <1>6, <1>7, <1>8 DEF BackupInv, InTurn
  <1>11. Chained(bk)' /\ NoSelfFork' BY <1>6, <1>7 DEF BackupInv, Chained, NoSelfFork
  <1>12. JobOfRestore(bk)' BY <1>3, <1>6, <1>7, <1>8, <1>9 DEF BackupInv, JobOfRestore
  <1>13. Points(fs', bk')
    BY <1>1, <1>3, <1>6, <1>7, <1>8, <1>9 DEF BackupInv, Points, ListIsTree, Complete
  <1> QED BY <1>7, <1>10, <1>11, <1>12, <1>13 DEF BackupInv

\* A running job changes: bk' differs in that and in the status of the host.
LEMMA JobMoves ==
  ASSUME BackupInv, fs' = fs, NEW h \in Hosts, 1 \in DOMAIN bk.jobs[h], NEW job \in Jobs,
         bk' = Becomes(h, 1, job) \/ bk' = [Becomes(h, 1, job) EXCEPT !.byHost[h].status = "backing-up"],
         job.by = bk.jobs[h][1].by, job.at # "queued", job.cur.last = bk.byHost[h].last, Complete(job),
         job.by \in Restores => ListIsTree(fs, bk.restores[job.by].rev, job)
  PROVE  BackupInv'
  <1> DEFINE q == [bk.jobs[h] EXCEPT ![1] = job]
             hosts == [bk.byHost EXCEPT ![h].status = "backing-up"]
  <1>1. bk \in Bks /\ bk.jobs[h] \in Seq(Jobs) /\ bk.byHost[h] \in Hosted BY BkElements DEF BackupInv
  <1>2. q \in Seq(Jobs) /\ DOMAIN q = DOMAIN bk.jobs[h] /\ q[1] = job /\ \A i \in DOMAIN q : i # 1 => q[i] = bk.jobs[h][i]
    BY <1>1
  <1>3. hosts \in [Hosts -> Hosted] /\ \A g \in Hosts : hosts[g].last = bk.byHost[g].last
    BY <1>1 DEF Bks, Hosted
  <1>4. Becomes(h, 1, job) = [bk EXCEPT !.jobs = [bk.jobs EXCEPT ![h] = q]]
    BY <1>1 DEF Becomes, Bks
  <1> HIDE DEF q
  <1>5. [bk.jobs EXCEPT ![h] = q] \in [Hosts -> Seq(Jobs)] BY <1>1, <1>2 DEF Bks
  <1>6. \/ bk' = [bk EXCEPT !.jobs = [bk.jobs EXCEPT ![h] = q]]
        \/ bk' = [bk EXCEPT !.jobs = [bk.jobs EXCEPT ![h] = q], !.byHost = hosts]
    BY <1>1, <1>4 DEF Bks
  <1> HIDE DEF hosts
  <1>7. /\ bk' \in Bks /\ bk'.jobs = [bk.jobs EXCEPT ![h] = q]
        /\ \A g \in Hosts : bk'.byHost[g].last = bk.byHost[g].last
        /\ bk'.snaps = bk.snaps /\ bk'.acked = bk.acked /\ bk'.restores = bk.restores
    BY <1>1, <1>3, <1>5, <1>6 DEF Bks
  <1>8. \A g \in Hosts : /\ DOMAIN bk'.jobs[g] = DOMAIN bk.jobs[g]
                         /\ \A i \in DOMAIN bk.jobs[g] : /\ bk'.jobs[g][i] = IF g = h /\ i = 1 THEN job ELSE bk.jobs[g][i]
                                                         /\ bk'.jobs[g][i].by = bk.jobs[g][i].by
    BY <1>1, <1>2, <1>7 DEF Bks
  <1>9. InTurn(bk)' BY <1>7, <1>8 DEF BackupInv, InTurn
  <1>10. Chained(bk)' /\ NoSelfFork'
    <2>1. \A i \in bk.acked : bk.snaps[i].host \in Hosts BY <1>1, BkElements DEF BackupInv, Chained, Snaps
    <2> QED BY <1>7, <2>1 DEF BackupInv, Chained, NoSelfFork
  <1>11. JobOfRestore(bk)' BY <1>7, <1>8 DEF BackupInv, JobOfRestore
  <1>12. Points(fs', bk')
    <2>1. \A g \in Hosts : \A i \in DOMAIN bk'.jobs[g] :
             /\ Complete(bk'.jobs[g][i])
             /\ bk'.jobs[g][i].by \in Restores => ListIsTree(fs, bk.restores[bk'.jobs[g][i].by].rev, bk'.jobs[g][i])
      BY <1>8 DEF BackupInv, Points
    <2> QED BY <1>7, <2>1 DEF BackupInv, Points
  <1> QED BY <1>7, <1>9, <1>10, <1>11, <1>12 DEF BackupInv

LEMMA RunningJob ==
  ASSUME BackupInv, NEW h \in Hosts, NEW i \in runExclusive(h)
  PROVE  /\ i = 1 /\ 1 \in DOMAIN bk.jobs[h] /\ bk \in Bks /\ bk.jobs[h][1] \in Jobs /\ bk.byHost[h] \in Hosted
         /\ bk.jobs[h][1].by \in Restores \cup {"auto"}
         /\ bk.jobs[h][1].at # "queued" =>
              /\ bk.jobs[h][1] \in [by : Restores \cup {"auto"}, at : {"read", "post"}, cur : Hosted, list : Trees, got : Listings]
              /\ bk.jobs[h][1].cur.last = bk.byHost[h].last
         /\ Complete(bk.jobs[h][1])
         /\ bk.jobs[h][1].by \in Restores =>
              /\ ListIsTree(fs, bk.restores[bk.jobs[h][1].by].rev, bk.jobs[h][1])
              /\ bk.restores[bk.jobs[h][1].by].at = "point"
  <1>1. i = 1 /\ 1 \in DOMAIN bk.jobs[h] BY DEF runExclusive
  <1>2. bk \in Bks /\ bk.jobs[h][1] \in Jobs /\ bk.byHost[h] \in Hosted BY <1>1, BkElements DEF BackupInv
  <1>3. bk.jobs[h][1].by \in Restores \cup {"auto"} /\
        (bk.jobs[h][1].at # "queued" => bk.jobs[h][1] \in [by : Restores \cup {"auto"}, at : {"read", "post"}, cur : Hosted, list : Trees, got : Listings])
    BY <1>2 DEF Jobs
  <1> QED BY <1>1, <1>2, <1>3 DEF BackupInv, InTurn, Points, JobOfRestore

LEMMA StartKeeps ==
  ASSUME BackupInv, FsOK(fs), NEW h \in Hosts, JobStart(h)
  PROVE  BackupInv'
  <1>1. PICK i \in runExclusive(h) : JobStart(h)!(i) BY DEF JobStart
  <1> DEFINE old == bk.jobs[h][1]
             job == [by |-> old.by, at |-> "read", cur |-> bk.byHost[h], list |-> Tree(fs), got |-> <<>>]
  <1>2. i = 1 /\ 1 \in DOMAIN bk.jobs[h] /\ bk.byHost[h] \in Hosted /\ old.by \in Restores \cup {"auto"}
    BY RunningJob
  <1>3. fs' = fs /\ bk' = Becomes(h, 1, job) BY <1>1, <1>2 DEF editVars
  <1>4. <<>> \in Listings
    <2>1. <<>> \in [{} -> Marks] OBVIOUS
    <2> QED BY <2>1 DEF Listings, Maps
  <1>5. job \in Jobs BY <1>2, <1>4, TreeFacts DEF Jobs
  <1>6. /\ job.by = old.by /\ job.at = "read" /\ job.cur = bk.byHost[h] /\ job.list = Tree(fs) /\ job.got = <<>>
    OBVIOUS
  <1>7. Complete(job) /\ \A n : ListIsTree(fs, n, job) BY <1>6 DEF Complete, ListIsTree
  <1> HIDE DEF job
  <1> QED BY <1>2, <1>3, <1>5, <1>6, <1>7, JobMoves

\* What becomes of the others when the first job of a host is over.
LEMMA JobEnds ==
  ASSUME BackupInv, fs' = fs, NEW h \in Hosts, 1 \in DOMAIN bk.jobs[h], NEW point \in Nat,
         bk' \in Bks, bk'.jobs = Settle(bk, h, 1, point).jobs, bk'.restores = Settle(bk, h, 1, point).restores,
         \A g \in Hosts : g # h => bk'.byHost[g].last = bk.byHost[g].last,
         Chained(bk'), NoSelfFork',
         \A n \in DOMAIN bk.snaps : n \in DOMAIN bk'.snaps /\ bk'.snaps[n] = bk.snaps[n],
         bk.jobs[h][1].by \in Restores /\ point # 0 =>
            point \in DOMAIN bk'.snaps /\ (bk.restores[bk.jobs[h][1].by].rev = fs.rev => bk'.snaps[point].tree = Tree(fs))
  PROVE  BackupInv'
  <1> DEFINE t == Settle(bk, h, 1, point)
  <1>1. bk \in Bks BY DEF BackupInv
  <1>2. /\ \A g \in Hosts : g # h => t.jobs[g] = bk.jobs[g]
        /\ \A i \in DOMAIN t.jobs[h] : i + 1 \in DOMAIN bk.jobs[h] /\ t.jobs[h][i] = bk.jobs[h][i + 1]
        /\ \A r \in Restores :
               IF bk.restores[r].at # "point" \/ bk.jobs[h][1].by # r THEN t.restores[r] = bk.restores[r]
               ELSE IF point = 0 THEN t.restores[r] = Idle
               ELSE t.restores[r] = [bk.restores[r] EXCEPT !.at = "fetch", !.point = point]
    <2>1. Settled(bk, h, point, t) BY <1>1, SettleFacts
    <2> QED BY <2>1 DEF Settled
  <1> HIDE DEF t
  <1>0. /\ bk'.jobs = t.jobs /\ bk'.restores = t.restores BY DEF t
  <1>2a. \A i \in DOMAIN bk'.jobs[h] : i \in Nat \ {0}
    <2>1. bk'.jobs[h] \in Seq(Jobs) BY BkElements
    <2> QED BY <2>1
  <1>3. \A r \in Restores : bk.jobs[h][1].by # r => bk'.restores[r] = bk.restores[r] BY <1>0, <1>2
  <1>4. ASSUME bk.jobs[h][1].by \in Restores
        PROVE  /\ bk.restores[bk.jobs[h][1].by].at = "point"
               /\ \A g \in Hosts : \A j \in DOMAIN bk.jobs[g] : bk.jobs[g][j].by = bk.jobs[h][1].by => g = h /\ j = 1
    BY <1>4 DEF BackupInv, JobOfRestore
  <1>5. ASSUME NEW r \in Restores, bk.jobs[h][1].by = r
        PROVE  \/ bk'.restores[r] = Idle
               \/ /\ point # 0 /\ bk'.restores[r].at = "fetch" /\ bk'.restores[r].snap = bk.restores[r].snap
                  /\ bk'.restores[r].rev = bk.restores[r].rev /\ bk'.restores[r].point = point
    <2>1. bk.restores[r] \in Underway BY <1>1, <1>4, <1>5, RestoreTyped
    <2>2. bk'.restores[r] = IF point = 0 THEN Idle ELSE [bk.restores[r] EXCEPT !.at = "fetch", !.point = point]
      <3>1. bk.jobs[h][1].by = r /\ bk.restores[r].at = "point" BY <1>4, <1>5
      <3>2. t.restores[r] = IF point = 0 THEN Idle ELSE [bk.restores[r] EXCEPT !.at = "fetch", !.point = point]
        BY <1>2, <3>1, Zenon
      <3> QED BY <1>0, <3>2
    <2>3. LET u == [bk.restores[r] EXCEPT !.at = "fetch", !.point = point]
          IN u.at = "fetch" /\ u.snap = bk.restores[r].snap /\ u.rev = bk.restores[r].rev /\ u.point = point
      BY <2>1 DEF Underway
    <2> QED BY <2>2, <2>3
  <1>6. \A g \in Hosts : \A i \in DOMAIN bk'.jobs[g] : \E j \in DOMAIN bk.jobs[g] :
            bk'.jobs[g][i] = bk.jobs[g][j] /\ j = IF g = h THEN i + 1 ELSE i
    BY <1>0, <1>2
  <1>7. InTurn(bk)'
    <2>1. ASSUME NEW g \in Hosts, NEW i \in DOMAIN bk'.jobs[g], bk'.jobs[g][i].at # "queued"
          PROVE  i = 1 /\ bk'.jobs[g][i].cur.last = bk'.byHost[g].last
      <3>1. CASE g = h BY <1>2a, <1>6, <2>1, <3>1 DEF BackupInv, InTurn
      <3>2. CASE g # h BY <1>6, <2>1, <3>2 DEF BackupInv, InTurn
      <3> QED BY <3>1, <3>2
    <2> QED BY <2>1 DEF InTurn
  <1>8. \A g \in Hosts : \A i \in DOMAIN bk'.jobs[g] : bk'.jobs[g][i].by \in Restores => bk'.jobs[g][i].by # bk.jobs[h][1].by
    <2>1. ASSUME NEW g \in Hosts, NEW i \in DOMAIN bk'.jobs[g], bk'.jobs[g][i].by = bk.jobs[h][1].by, bk.jobs[h][1].by \in Restores
          PROVE FALSE
      <3>1. CASE g = h BY <1>2a, <1>4, <1>6, <2>1, <3>1
      <3>2. CASE g # h BY <1>4, <1>6, <2>1, <3>2
      <3> QED BY <3>1, <3>2
    <2> QED BY <2>1
  <1>9. JobOfRestore(bk)'
    <2>1. ASSUME NEW g \in Hosts, NEW i \in DOMAIN bk'.jobs[g], bk'.jobs[g][i].by \in Restores
          PROVE  /\ bk'.restores[bk'.jobs[g][i].by].at = "point"
                 /\ \A f \in Hosts : \A j \in DOMAIN bk'.jobs[f] : bk'.jobs[f][j].by = bk'.jobs[g][i].by => f = g /\ j = i
      <3>1. PICK k \in DOMAIN bk.jobs[g] : bk'.jobs[g][i] = bk.jobs[g][k] /\ k = IF g = h THEN i + 1 ELSE i BY <1>6
      <3>2. /\ bk.restores[bk.jobs[g][k].by].at = "point"
            /\ \A f \in Hosts : \A j \in DOMAIN bk.jobs[f] : bk.jobs[f][j].by = bk.jobs[g][k].by => f = g /\ j = k
        BY <2>1, <3>1 DEF BackupInv, JobOfRestore
      <3>3. bk'.restores[bk'.jobs[g][i].by].at = "point" BY <1>3, <1>8, <2>1, <3>1, <3>2
      <3>4. ASSUME NEW f \in Hosts, NEW j \in DOMAIN bk'.jobs[f], bk'.jobs[f][j].by = bk'.jobs[g][i].by
            PROVE  f = g /\ j = i
        <4>1. PICK l \in DOMAIN bk.jobs[f] : bk'.jobs[f][j] = bk.jobs[f][l] /\ l = IF f = h THEN j + 1 ELSE j BY <1>6
        <4>2. f = g /\ l = k BY <3>1, <3>2, <3>4, <4>1
        <4>3. CASE g = h BY <1>2a, <3>1, <4>1, <4>2, <4>3
        <4>4. CASE g # h BY <3>1, <4>1, <4>2, <4>4
        <4> QED BY <4>2, <4>3, <4>4
      <3> QED BY <3>3, <3>4
    <2> QED BY <2>1 DEF JobOfRestore
  <1>10. Points(fs', bk')
    <2>1. ASSUME NEW r \in Restores
          PROVE  LET st == bk'.restores[r] IN
                 /\ st.at # "idle" => st.snap \in DOMAIN bk'.snaps /\ st.rev <= fs.rev
                 /\ st.at = "reload" => st.plan # <<>>
                 /\ st.at \in {"fetch", "swap"} => st.point \in DOMAIN bk'.snaps
                                                  /\ (st.rev = fs.rev => bk'.snaps[st.point].tree = Tree(fs))
      <3>1. CASE bk.jobs[h][1].by # r
        <4>1. bk'.restores[r] = bk.restores[r] BY <1>3, <3>1
        <4> QED BY <4>1 DEF BackupInv, Points
      <3>2. CASE bk.jobs[h][1].by = r
        <4>1. bk.restores[r].snap \in DOMAIN bk'.snaps /\ bk.restores[r].rev <= fs.rev
          BY <1>4, <3>2 DEF BackupInv, Points
        <4> QED BY <1>5, <3>2, <4>1 DEF Idle
      <3> QED BY <3>1, <3>2
    <2>2. \A g \in Hosts : \A i \in DOMAIN bk'.jobs[g] :
             /\ Complete(bk'.jobs[g][i])
             /\ bk'.jobs[g][i].by \in Restores => ListIsTree(fs, bk'.restores[bk'.jobs[g][i].by].rev, bk'.jobs[g][i])
      <3>1. \A g \in Hosts : \A i \in DOMAIN bk'.jobs[g] :
               /\ Complete(bk'.jobs[g][i])
               /\ bk'.jobs[g][i].by \in Restores => ListIsTree(fs, bk.restores[bk'.jobs[g][i].by].rev, bk'.jobs[g][i])
        BY <1>6 DEF BackupInv, Points
      <3>2. \A g \in Hosts : \A i \in DOMAIN bk'.jobs[g] :
               bk'.jobs[g][i].by \in Restores => bk'.restores[bk'.jobs[g][i].by] = bk.restores[bk'.jobs[g][i].by]
        BY <1>3, <1>8
      <3> QED BY <3>1, <3>2
    <2> QED BY <2>1, <2>2 DEF Points
  <1> QED BY <1>7, <1>9, <1>10 DEF BackupInv

\* A job is over and the store's record of its host says so, or its failure;
\* the host may have stored the snapshot all the same.
LEMMA JobFailed ==
  ASSUME BackupInv, fs' = fs, NEW h \in Hosts, 1 \in DOMAIN bk.jobs[h], NEW snaps \in Seq(Snaps),
         snaps = bk.snaps \/ \E snap \in Snaps : snaps = Append(bk.snaps, snap),
         bk' = [Settle(bk, h, 1, 0) EXCEPT !.snaps = snaps, !.byHost[h].status = "error"]
  PROVE  BackupInv'
  <1> DEFINE t == Settle(bk, h, 1, 0)
             hosts == [bk.byHost EXCEPT ![h].status = "error"]
  <1>1. bk \in Bks /\ bk.byHost[h] \in Hosted BY BkElements DEF BackupInv
  <1>2. Settled(bk, h, 0, t) BY <1>1, SettleFacts
  <1> HIDE DEF t
  <1>3. t \in Bks /\ t.byHost = bk.byHost /\ t.acked = bk.acked BY <1>2 DEF Settled
  <1>4. hosts \in [Hosts -> Hosted] /\ \A g \in Hosts : hosts[g].last = bk.byHost[g].last
    BY <1>1 DEF Bks, Hosted
  <1>5. bk' = [t EXCEPT !.snaps = snaps, !.byHost = hosts] BY <1>3 DEF t, Bks
  <1> HIDE DEF hosts
  <1>6. /\ bk' \in Bks /\ bk'.jobs = t.jobs /\ bk'.restores = t.restores /\ bk'.acked = bk.acked
        /\ bk'.snaps = snaps /\ \A g \in Hosts : bk'.byHost[g].last = bk.byHost[g].last
    BY <1>3, <1>4, <1>5 DEF Bks
  <1>7. /\ \A n \in DOMAIN bk.snaps : n \in DOMAIN snaps /\ snaps[n] = bk.snaps[n]
        /\ Len(bk.snaps) <= Len(snaps)
    <2>1. bk.snaps \in Seq(Snaps) BY <1>1 DEF Bks
    <2>2. CASE snaps = bk.snaps BY <2>1, <2>2
    <2>3. ASSUME NEW snap \in Snaps, snaps = Append(bk.snaps, snap) PROVE <1>7!:
      BY <2>1, <2>3
    <2> QED BY <2>2, <2>3
  <1>8. Chained(bk')
    <2>1. \A i \in bk.acked : i \in DOMAIN bk.snaps /\ bk.snaps[i].host \in Hosts
      BY <1>1, BkElements DEF BackupInv, Chained, Snaps
    <2>2. \A g \in Hosts : bk.byHost[g].last <= Len(snaps)
      <3>1. \A g \in Hosts : bk.byHost[g].last \in Nat /\ bk.byHost[g].last <= Len(bk.snaps)
        BY <1>1, BkElements DEF Hosted, BackupInv, Chained
      <3>2. Len(bk.snaps) \in Nat /\ Len(snaps) \in Nat BY <1>1 DEF Bks
      <3> QED BY <1>7, <3>1, <3>2
    <2> QED BY <1>6, <1>7, <2>1, <2>2 DEF BackupInv, Chained
  <1>9. NoSelfFork'
    <2>1. bk.acked \subseteq DOMAIN bk.snaps BY DEF BackupInv, Chained
    <2> QED BY <1>6, <1>7, <2>1 DEF BackupInv, NoSelfFork
  <1> QED BY <1>6, <1>7, <1>8, <1>9, JobEnds DEF t

LEMMA ReadKeeps ==
  ASSUME BackupInv, FsOK(fs), NEW h \in Hosts, NEW k \in Paths, buildManifest(h, k)
  PROVE  BackupInv'
  <1>1. PICK i \in runExclusive(h) : buildManifest(h, k)!(i) BY DEF buildManifest
  <1> DEFINE old == bk.jobs[h][1]
             v == IF old.list[k].dir THEN old.list[k] ELSE [dir |-> FALSE, c |-> fs.files[k].c]
             job == [old EXCEPT !.got = With(old.got, k, v)]
  <1>2. /\ i = 1 /\ 1 \in DOMAIN bk.jobs[h] /\ bk \in Bks /\ fs' = fs
        /\ old.at = "read" /\ k \in DOMAIN old.list \ DOMAIN old.got
    BY <1>1, RunningJob DEF editVars
  <1>3. /\ old \in [by : Restores \cup {"auto"}, at : {"read", "post"}, cur : Hosted, list : Trees, got : Listings]
        /\ old.cur.last = bk.byHost[h].last
        /\ old.by \in Restores => ListIsTree(fs, bk.restores[old.by].rev, old)
    BY <1>2, RunningJob
  <1>4. \/ (old.list[k].dir \/ IsFile(fs, k)) /\ bk' = Becomes(h, 1, job)
        \/ bk' = [Settle(bk, h, 1, 0) EXCEPT !.byHost[h].status = "error"]
    BY <1>1, <1>2
  <1> HIDE DEF old
  <1>5. CASE (old.list[k].dir \/ IsFile(fs, k)) /\ bk' = Becomes(h, 1, job)
    <2>1. old.list \in Listings /\ old.got \in Listings BY <1>3 DEF Trees
    <2>2. old.list[k] \in Marks  BY <1>2, <2>1, ListingFacts
    <2>3. v \in Marks
      <3>1. CASE old.list[k].dir BY <2>2, <3>1
      <3>2. CASE ~old.list[k].dir /\ IsFile(fs, k)
        <4>1. fs.files[k] \in Files BY <3>2, MapsFacts DEF IsFile, Exists, FsOK
        <4> QED BY <3>2, <4>1 DEF Files, Marks
      <3> QED BY <1>5, <3>1, <3>2
    <2> HIDE DEF v
    <2>4. /\ With(old.got, k, v) \in Listings
          /\ DOMAIN With(old.got, k, v) = DOMAIN old.got \cup {k}
          /\ \A x \in DOMAIN old.got \cup {k} : With(old.got, k, v)[x] = IF x = k THEN v ELSE old.got[x]
      <3> DEFINE got == old.got
      <3>1. got \in Listings BY <2>1
      <3> HIDE DEF got
      <3>2. /\ With(got, k, v) \in Listings
            /\ DOMAIN With(got, k, v) = DOMAIN got \cup {k}
            /\ \A x \in DOMAIN got \cup {k} : With(got, k, v)[x] = IF x = k THEN v ELSE got[x]
        <4>1. \A kk \in Paths, vv \in Marks :
               /\ With(got, kk, vv) \in Listings
               /\ DOMAIN With(got, kk, vv) = DOMAIN got \cup {kk}
               /\ \A x \in DOMAIN got \cup {kk} : With(got, kk, vv)[x] = IF x = kk THEN vv ELSE got[x]
          BY <3>1, ListingFacts
        <4>2. v \in Marks BY <2>3
        <4> QED BY <4>1, <4>2
      <3> QED BY <3>2 DEF got
    <2>5. /\ job \in Jobs /\ job.by = old.by /\ job.at = "read" /\ job.cur = old.cur /\ job.list = old.list
          /\ job.got = With(old.got, k, v)
      BY <1>2, <1>3, <2>4 DEF Jobs
    <2> HIDE DEF job
    <2>6. Complete(job) BY <2>5 DEF Complete
    <2>7. ASSUME old.by \in Restores PROVE ListIsTree(fs, bk.restores[old.by].rev, job)
      <3>1. ASSUME bk.restores[old.by].rev = fs.rev
            PROVE  /\ job.list = Tree(fs) /\ DOMAIN job.got \subseteq DOMAIN job.list
                   /\ \A x \in DOMAIN job.got : job.got[x] = job.list[x]
        <4>1. /\ old.list = Tree(fs) /\ DOMAIN old.got \subseteq DOMAIN old.list
              /\ \A x \in DOMAIN old.got : old.got[x] = old.list[x]
          BY <1>2, <1>3, <2>7, <3>1 DEF ListIsTree
        <4>2. k \in DOMAIN fs.files /\ old.list[k] = [dir |-> fs.files[k].dir, c |-> fs.files[k].c]
          <5>1. /\ DOMAIN Tree(fs) = DOMAIN fs.files
                /\ \A x \in DOMAIN fs.files : Tree(fs)[x] = [dir |-> fs.files[x].dir, c |-> fs.files[x].c]
            BY TreeFacts
          <5> QED BY <1>2, <4>1, <5>1
        <4>3. v = old.list[k]
          <5>1. CASE old.list[k].dir BY <5>1 DEF v
          <5>2. CASE ~old.list[k].dir /\ IsFile(fs, k)
            <6>1. fs.files[k] \in Files BY <4>2, MapsFacts DEF FsOK
            <6>2. fs.files[k].dir = FALSE BY <5>2, <6>1 DEF IsFile, Files
            <6> QED BY <4>2, <5>2, <6>2 DEF v
          <5> QED BY <1>5, <5>1, <5>2
        <4> QED BY <1>2, <2>4, <2>5, <4>1, <4>3
      <3> QED BY <3>1 DEF ListIsTree
    <2> QED BY <1>2, <1>3, <1>5, <2>5, <2>6, <2>7, JobMoves DEF old
  <1>6. CASE bk' = [Settle(bk, h, 1, 0) EXCEPT !.byHost[h].status = "error"]
    <2>1. Settled(bk, h, 0, Settle(bk, h, 1, 0)) BY <1>2, SettleFacts
    <2>2. Settle(bk, h, 1, 0) \in Bks /\ Settle(bk, h, 1, 0).snaps = bk.snaps BY <2>1 DEF Settled
    <2>3. bk' = [Settle(bk, h, 1, 0) EXCEPT !.snaps = bk.snaps, !.byHost[h].status = "error"]
      BY <1>6, <2>2 DEF Bks
    <2>4. bk.snaps \in Seq(Snaps) BY <1>2 DEF Bks
    <2> QED BY <1>2, <2>3, <2>4, JobFailed
  <1> QED BY <1>4, <1>5, <1>6

LEMMA ReadyKeeps ==
  ASSUME BackupInv, FsOK(fs), NEW h \in Hosts, JobReady(h)
  PROVE  BackupInv'
  <1>1. PICK i \in runExclusive(h) : JobReady(h)!(i) BY DEF JobReady
  <1> DEFINE old == bk.jobs[h][1]
             job == [old EXCEPT !.at = "post"]
  <1>2. /\ i = 1 /\ 1 \in DOMAIN bk.jobs[h] /\ bk \in Bks /\ fs' = fs
        /\ old.at = "read" /\ DOMAIN old.list = DOMAIN old.got
    BY <1>1, RunningJob DEF editVars
  <1>3. /\ old \in [by : Restores \cup {"auto"}, at : {"read", "post"}, cur : Hosted, list : Trees, got : Listings]
        /\ old.cur.last = bk.byHost[h].last
        /\ old.by \in Restores => ListIsTree(fs, bk.restores[old.by].rev, old)
    BY <1>2, RunningJob
  <1>4. \/ old.by = "auto" /\ bk' = Settle(bk, h, 1, old.cur.last)
        \/ bk' = [Becomes(h, 1, job) EXCEPT !.byHost[h].status = "backing-up"]
    BY <1>1, <1>2
  <1>5. CASE old.by = "auto" /\ bk' = Settle(bk, h, 1, old.cur.last)
    <2>1. old.cur.last \in Nat BY <1>3 DEF Hosted
    <2>2. Settled(bk, h, old.cur.last, bk') BY <1>2, <1>5, <2>1, SettleFacts
    <2>3. bk' \in Bks /\ bk'.byHost = bk.byHost /\ bk'.snaps = bk.snaps /\ bk'.acked = bk.acked
      BY <2>2 DEF Settled
    <2>4. Chained(bk') /\ NoSelfFork' BY <2>3 DEF BackupInv, Chained, NoSelfFork
    <2> QED BY <1>2, <1>5, <2>1, <2>3, <2>4, JobEnds, BackupAssumption
  <1>6. CASE bk' = [Becomes(h, 1, job) EXCEPT !.byHost[h].status = "backing-up"]
    <2>1. /\ job \in Jobs /\ job.by = old.by /\ job.at = "post" /\ job.cur = old.cur /\ job.list = old.list
          /\ job.got = old.got
      BY <1>3 DEF Jobs
    <2> HIDE DEF job
    <2>2. Complete(job) BY <1>2, <2>1 DEF Complete
    <2>3. old.by \in Restores => ListIsTree(fs, bk.restores[old.by].rev, job)
      BY <1>2, <1>3, <2>1 DEF ListIsTree
    <2> QED BY <1>2, <1>3, <1>6, <2>1, <2>2, <2>3, JobMoves
  <1> QED BY <1>4, <1>5, <1>6

\* The host's answer names the new snapshot, whose parent is the last one.
LEMMA PostedKeeps ==
  ASSUME BackupInv, FsOK(fs), NEW h \in Hosts, JobPosted(h)
  PROVE  BackupInv'
  <1>1. PICK i \in runExclusive(h) : JobPosted(h)!(i) BY DEF JobPosted
  <1> DEFINE old == bk.jobs[h][1]
             id == Len(bk.snaps) + 1
             snap == [host |-> h, mine |-> TRUE, parent |-> old.cur.last, tree |-> old.got]
             rec == [status |-> "idle", last |-> id, tree |-> old.got]
             t == Settle(bk, h, 1, id)
             hosts == [bk.byHost EXCEPT ![h] = rec]
  <1>2. /\ i = 1 /\ 1 \in DOMAIN bk.jobs[h] /\ bk \in Bks /\ fs' = fs /\ old.at = "post"
    BY <1>1, RunningJob DEF editVars
  <1>3. /\ old \in [by : Restores \cup {"auto"}, at : {"read", "post"}, cur : Hosted, list : Trees, got : Listings]
        /\ old.cur.last = bk.byHost[h].last /\ DOMAIN old.got = DOMAIN old.list
        /\ old.by \in Restores => ListIsTree(fs, bk.restores[old.by].rev, old)
    BY <1>2, RunningJob DEF Complete
  <1>4. bk.snaps \in Seq(Snaps) /\ id \in Nat \ {0} BY <1>2 DEF Bks
  <1>5. old.got \in Trees BY <1>3 DEF Trees
  <1>6. snap \in Snaps /\ rec \in Hosted BY <1>3, <1>4, <1>5 DEF Snaps, Hosted
  <1>7. Settled(bk, h, id, t) BY <1>2, <1>4, SettleFacts
  <1>8. bk' = [t EXCEPT !.snaps = Append(bk.snaps, snap), !.acked = bk.acked \cup {id}, !.byHost[h] = rec]
    BY <1>1, <1>2 DEF Stored
  <1>9. snap.host = h /\ snap.parent = old.cur.last /\ snap.tree = old.got /\ rec.last = id OBVIOUS
  <1> HIDE DEF t, rec, snap
  <1>10. t \in Bks /\ t.byHost = bk.byHost /\ t.snaps = bk.snaps /\ t.acked = bk.acked BY <1>7 DEF Settled
  <1>11. bk' = [t EXCEPT !.snaps = Append(bk.snaps, snap), !.acked = bk.acked \cup {id}, !.byHost = hosts]
    BY <1>8, <1>10 DEF Bks
  <1>12. /\ hosts \in [Hosts -> Hosted] /\ hosts[h] = rec /\ \A g \in Hosts : g # h => hosts[g] = bk.byHost[g]
    BY <1>2, <1>6 DEF Bks
  <1> HIDE DEF hosts
  <1>13. /\ Append(bk.snaps, snap) \in Seq(Snaps) /\ Append(bk.snaps, snap)[id] = snap
         /\ DOMAIN Append(bk.snaps, snap) = DOMAIN bk.snaps \cup {id} /\ Len(Append(bk.snaps, snap)) = id
         /\ DOMAIN bk.snaps = 1..(id - 1)
         /\ \A n \in DOMAIN bk.snaps : Append(bk.snaps, snap)[n] = bk.snaps[n]
    BY <1>4, <1>6
  <1> HIDE DEF id
  <1>14. /\ bk' \in Bks /\ bk'.jobs = t.jobs /\ bk'.restores = t.restores
         /\ bk'.snaps = Append(bk.snaps, snap) /\ bk'.acked = bk.acked \cup {id} /\ bk'.byHost = hosts
    BY <1>4, <1>10, <1>11, <1>12, <1>13 DEF Bks
  <1>15. /\ \A g \in Hosts : bk.byHost[g].last \in Nat /\ bk.byHost[g].last <= id - 1
         /\ \A n \in bk.acked : /\ n \in DOMAIN bk.snaps /\ bk.snaps[n].host \in Hosts
                                /\ n <= bk.byHost[bk.snaps[n].host].last
    <2>1. \A g \in Hosts : bk.byHost[g].last \in Nat BY <1>2, BkElements DEF Hosted
    <2>2. Len(bk.snaps) = id - 1 BY <1>4 DEF id
    <2> QED BY <1>2, <2>1, <2>2, BkElements DEF BackupInv, Chained, Snaps
  <1>16. Chained(bk')
    <2>1. bk'.acked \subseteq DOMAIN bk'.snaps BY <1>13, <1>14, <1>15
    <2>2. \A n \in bk'.acked : n <= bk'.byHost[bk'.snaps[n].host].last
      <3>1. ASSUME NEW n \in bk.acked PROVE n <= bk'.byHost[bk'.snaps[n].host].last
        <4>1. bk'.snaps[n] = bk.snaps[n] /\ n \in 1..(id - 1) BY <1>13, <1>14, <1>15
        <4>2. CASE bk.snaps[n].host = h BY <1>4, <1>9, <1>12, <1>14, <4>1, <4>2
        <4>3. CASE bk.snaps[n].host # h BY <1>12, <1>14, <1>15, <4>1, <4>3
        <4> QED BY <4>2, <4>3
      <3>2. id <= bk'.byHost[bk'.snaps[id].host].last
        BY <1>4, <1>9, <1>12, <1>13, <1>14
      <3> QED BY <1>14, <3>1, <3>2
    <2>3. \A g \in Hosts : bk'.byHost[g].last <= Len(bk'.snaps)
      BY <1>4, <1>9, <1>12, <1>13, <1>14, <1>15
    <2> QED BY <2>1, <2>2, <2>3 DEF Chained
  <1>17. NoSelfFork'
    <2>1. ASSUME NEW n \in bk'.acked, NEW m \in bk'.acked, n < m, bk'.snaps[n].host = bk'.snaps[m].host
          PROVE  bk'.snaps[m].parent >= n
      <3>1. n \in bk.acked /\ n \in 1..(id - 1) /\ bk'.snaps[n] = bk.snaps[n]
        <4>1. \A x \in bk'.acked : x = id \/ (x \in bk.acked /\ x \in 1..(id - 1)) BY <1>13, <1>14, <1>15
        <4> QED BY <1>4, <1>13, <1>14, <2>1, <4>1
      <3>2. CASE m = id
        <4>1. bk'.snaps[m] = snap BY <1>13, <1>14, <3>2
        <4>2. bk.snaps[n].host = h BY <1>9, <2>1, <3>1, <4>1
        <4>3. n <= bk.byHost[h].last BY <1>15, <3>1, <4>2
        <4> QED BY <1>3, <1>9, <1>15, <3>1, <4>1, <4>3
      <3>3. CASE m # id
        <4>1. m \in bk.acked BY <1>14, <3>3
        <4>2. bk'.snaps[m] = bk.snaps[m] BY <1>13, <1>14, <1>15, <4>1
        <4> QED BY <2>1, <3>1, <4>1, <4>2 DEF BackupInv, NoSelfFork
      <3> QED BY <3>2, <3>3
    <2> QED BY <2>1 DEF NoSelfFork
  <1>18. ASSUME old.by \in Restores, bk.restores[old.by].rev = fs.rev
         PROVE  bk'.snaps[id].tree = Tree(fs)
    <2>1. /\ old.list = Tree(fs) /\ DOMAIN old.got \subseteq DOMAIN old.list
          /\ \A k \in DOMAIN old.got : old.got[k] = old.list[k]
      BY <1>2, <1>3, <1>18 DEF ListIsTree
    <2>2. old.got = [k \in DOMAIN old.got |-> old.got[k]] /\ old.list = [k \in DOMAIN old.list |-> old.list[k]]
      BY <1>3 DEF Trees, Listings, Maps
    <2>3. old.got = old.list BY <1>3, <2>1, <2>2
    <2> QED BY <1>9, <1>13, <1>14, <2>1, <2>3
  <1> QED BY <1>2, <1>4, <1>12, <1>13, <1>14, <1>16, <1>17, <1>18, JobEnds DEF t

LEMMA FailsKeeps ==
  ASSUME BackupInv, FsOK(fs), NEW h \in Hosts, JobFails(h)
  PROVE  BackupInv'
  <1>1. PICK i \in runExclusive(h), stored \in BOOLEAN : JobFails(h)!(i, stored) BY DEF JobFails
  <1> DEFINE old == bk.jobs[h][1]
             snap == [host |-> h, mine |-> TRUE, parent |-> old.cur.last, tree |-> old.got]
             snaps == IF stored THEN Append(bk.snaps, snap) ELSE bk.snaps
  <1>2. /\ i = 1 /\ 1 \in DOMAIN bk.jobs[h] /\ bk \in Bks /\ fs' = fs /\ old.at = "post"
    BY <1>1, RunningJob DEF editVars
  <1>3. /\ old \in [by : Restores \cup {"auto"}, at : {"read", "post"}, cur : Hosted, list : Trees, got : Listings]
        /\ DOMAIN old.got = DOMAIN old.list
    BY <1>2, RunningJob DEF Complete
  <1>4. snap \in Snaps
    <2>1. old.got \in Trees BY <1>3 DEF Trees
    <2> QED BY <1>3, <2>1 DEF Snaps, Hosted
  <1>5. bk' = [Settle(bk, h, 1, 0) EXCEPT !.snaps = snaps, !.byHost[h].status = "error"]
    BY <1>1, <1>2 DEF Stored
  <1> HIDE DEF snap
  <1>6. snaps \in Seq(Snaps) /\ (snaps = bk.snaps \/ \E x \in Snaps : snaps = Append(bk.snaps, x))
    BY <1>2, <1>4 DEF Bks
  <1> HIDE DEF snaps
  <1> QED BY <1>2, <1>5, <1>6, JobFailed

-----------------------------------------------------------------------------
(* Paths.                                                                  *)

LEMMA SeqEqual ==
  ASSUME NEW S, NEW s \in Seq(S), NEW t \in Seq(S), Len(s) = Len(t), \A i \in 1..Len(s) : s[i] = t[i]
  PROVE  s = t
  OBVIOUS

LEMMA FirstOf ==
  ASSUME NEW S, NEW s \in Seq(S), NEW n \in 0..Len(s)
  PROVE  /\ SubSeq(s, 1, n) \in Seq(S) /\ Len(SubSeq(s, 1, n)) = n
         /\ \A i \in 1..n : SubSeq(s, 1, n)[i] = s[i]
  OBVIOUS

LEMMA JoinFacts ==
  ASSUME NEW S, NEW s \in Seq(S), NEW t \in Seq(S)
  PROVE  /\ s \o t \in Seq(S) /\ Len(s \o t) = Len(s) + Len(t)
         /\ \A i \in 1..Len(s) : (s \o t)[i] = s[i]
         /\ \A i \in 1..Len(t) : (s \o t)[Len(s) + i] = t[i]
  <1>1. s \o t \in Seq(S) OBVIOUS
  <1>2. Len(s \o t) = Len(s) + Len(t) OBVIOUS
  <1>3. \A i \in 1..Len(s) : (s \o t)[i] = s[i] OBVIOUS
  <1>4. \A i \in 1..Len(t) : (s \o t)[Len(s) + i] = t[i]
    <2>1. ASSUME NEW i \in 1..Len(t) PROVE (s \o t)[Len(s) + i] = t[i]
      <3>1. Len(s) + i \in 1..(Len(s) + Len(t)) /\ Len(s) + i > Len(s) /\ (Len(s) + i) - Len(s) = i OBVIOUS
      <3> QED BY <3>1
    <2> QED BY <2>1
  <1> QED BY <1>1, <1>2, <1>3, <1>4

\* A path is under another one when it begins like it.
LEMMA UnderAgree ==
  ASSUME NEW p \in Seq(Names), NEW q \in Seq(Names)
  PROVE  isPathUnder(p, q) <=> Len(p) >= Len(q) /\ \A i \in 1..Len(q) : p[i] = q[i]
  <1>0. Len(p) \in Nat /\ Len(q) \in Nat OBVIOUS
  <1>1. CASE Len(p) >= Len(q)
    <2>1. Len(q) \in 0..Len(p) BY <1>0, <1>1
    <2> DEFINE f == SubSeq(p, 1, Len(q))
    <2>2. f \in Seq(Names) /\ Len(f) = Len(q) /\ \A i \in 1..Len(q) : f[i] = p[i] BY <2>1, FirstOf
    <2> HIDE DEF f
    <2>3. (\A i \in 1..Len(q) : p[i] = q[i]) => f = q
      <3>1. ASSUME \A i \in 1..Len(q) : p[i] = q[i] PROVE \A i \in 1..Len(f) : f[i] = q[i]
        BY <2>2, <3>1
      <3> QED BY <2>2, <3>1, SeqEqual
    <2>4. f = q => \A i \in 1..Len(q) : p[i] = q[i] BY <2>2
    <2>5. isPathUnder(p, q) <=> f = q BY <1>1 DEF isPathUnder, f
    <2> QED BY <1>1, <2>3, <2>4, <2>5
  <1>2. CASE ~(Len(p) >= Len(q)) BY <1>2 DEF isPathUnder
  <1> QED BY <1>1, <1>2

LEMMA UnderFacts ==
  ASSUME NEW p \in Seq(Names), NEW q \in Seq(Names), NEW r \in Seq(Names)
  PROVE  /\ isPathUnder(p, p)
         /\ isPathUnder(p, q) /\ isPathUnder(q, r) => isPathUnder(p, r)
         /\ isPathUnder(p, q) /\ isPathUnder(q, p) => p = q
         /\ isPathUnder(p, q) /\ isPathUnder(p, r) /\ Len(r) >= Len(q) => isPathUnder(r, q)
         /\ isPathUnder(p, q) /\ Len(p) = Len(q) => p = q
  <1>0. Len(p) \in Nat /\ Len(q) \in Nat /\ Len(r) \in Nat OBVIOUS
  <1>1. /\ isPathUnder(p, q) <=> Len(p) >= Len(q) /\ \A i \in 1..Len(q) : p[i] = q[i]
        /\ isPathUnder(q, r) <=> Len(q) >= Len(r) /\ \A i \in 1..Len(r) : q[i] = r[i]
        /\ isPathUnder(p, r) <=> Len(p) >= Len(r) /\ \A i \in 1..Len(r) : p[i] = r[i]
        /\ isPathUnder(q, p) <=> Len(q) >= Len(p) /\ \A i \in 1..Len(p) : q[i] = p[i]
        /\ isPathUnder(r, q) <=> Len(r) >= Len(q) /\ \A i \in 1..Len(q) : r[i] = q[i]
        /\ isPathUnder(p, p) <=> Len(p) >= Len(p) /\ \A i \in 1..Len(p) : p[i] = p[i]
    BY UnderAgree
  <1>2. isPathUnder(p, p) BY <1>0, <1>1
  <1>3. isPathUnder(p, q) /\ isPathUnder(q, r) => isPathUnder(p, r)
    <2>1. ASSUME isPathUnder(p, q), isPathUnder(q, r) PROVE Len(p) >= Len(r) /\ \A i \in 1..Len(r) : p[i] = r[i]
      <3>1. /\ Len(p) >= Len(q) /\ \A i \in 1..Len(q) : p[i] = q[i]
            /\ Len(q) >= Len(r) /\ \A i \in 1..Len(r) : q[i] = r[i]
        BY <1>1, <2>1
      <3> QED BY <1>0, <3>1
    <2> QED BY <1>1, <2>1
  <1>4. isPathUnder(p, q) /\ Len(p) = Len(q) => p = q
    <2>1. ASSUME isPathUnder(p, q), Len(p) = Len(q) PROVE \A i \in 1..Len(p) : p[i] = q[i] BY <1>1, <2>1
    <2> QED BY <2>1, SeqEqual
  <1>5. isPathUnder(p, q) /\ isPathUnder(q, p) => p = q BY <1>0, <1>1, <1>4
  <1>6. isPathUnder(p, q) /\ isPathUnder(p, r) /\ Len(r) >= Len(q) => isPathUnder(r, q)
    <2>1. ASSUME isPathUnder(p, q), isPathUnder(p, r), Len(r) >= Len(q)
          PROVE  \A i \in 1..Len(q) : r[i] = q[i]
      <3>1. (\A i \in 1..Len(q) : p[i] = q[i]) /\ (\A i \in 1..Len(r) : p[i] = r[i]) BY <1>1, <2>1
      <3> QED BY <1>0, <2>1, <3>1
    <2> QED BY <1>1, <2>1
  <1> QED BY <1>2, <1>3, <1>4, <1>5, <1>6

\* What is above a path is the path itself or above its parent.
LEMMA UnderParent ==
  ASSUME NEW p \in Seq(Names), p # <<>>, NEW q \in Seq(Names), q # <<>>, q # p, isPathUnder(p, q)
  PROVE  Parent(p) \in Seq(Names) /\ Parent(p) # <<>> /\ isPathUnder(Parent(p), q)
  <1>0. Len(p) \in Nat \ {0} /\ Len(q) \in Nat \ {0} OBVIOUS
  <1>1. /\ Parent(p) \in Seq(Names) /\ Len(Parent(p)) = Len(p) - 1
        /\ \A i \in 1..(Len(p) - 1) : Parent(p)[i] = p[i]
    <2>1. Len(p) - 1 \in 0..Len(p) BY <1>0
    <2> DEFINE n == Len(p) - 1
    <2>2. n \in 0..Len(p) BY <2>1
    <2> HIDE DEF n
    <2>3. SubSeq(p, 1, n) \in Seq(Names) /\ Len(SubSeq(p, 1, n)) = n /\ \A i \in 1..n : SubSeq(p, 1, n)[i] = p[i]
      BY <2>2, FirstOf
    <2> QED BY <2>3 DEF Parent, n
  <1>2. Len(p) >= Len(q) /\ \A i \in 1..Len(q) : p[i] = q[i] BY UnderAgree
  <1>3. Len(p) # Len(q) BY UnderFacts
  <1>4. Len(q) <= Len(p) - 1 BY <1>0, <1>2, <1>3
  <1>5. Len(Parent(p)) >= Len(q) /\ \A i \in 1..Len(q) : Parent(p)[i] = q[i] BY <1>0, <1>1, <1>2, <1>4
  <1>6. isPathUnder(Parent(p), q) BY <1>1, <1>5, UnderAgree
  <1>7. Parent(p) # <<>> BY <1>0, <1>1, <1>4
  <1> QED BY <1>1, <1>6, <1>7

LEMMA LastOf ==
  ASSUME NEW S, NEW s \in Seq(S), NEW k \in 0..Len(s)
  PROVE  /\ SubSeq(s, k + 1, Len(s)) \in Seq(S) /\ Len(SubSeq(s, k + 1, Len(s))) = Len(s) - k
         /\ \A i \in 1..(Len(s) - k) : SubSeq(s, k + 1, Len(s))[i] = s[i + k]
  <1> DEFINE t == SubSeq(s, k + 1, Len(s))
  <1>0. Len(s) \in Nat /\ \A i \in 1..Len(s) : s[i] \in S OBVIOUS
  <1>1. t = [i \in 1..(Len(s) - (k + 1) + 1) |-> s[i + (k + 1) - 1]] OBVIOUS
  <1>2. \A i \in 1..(Len(s) - k) : i + k \in 1..Len(s) /\ i + (k + 1) - 1 = i + k BY <1>0
  <1>3. Len(s) - (k + 1) + 1 = Len(s) - k /\ Len(s) - k \in Nat BY <1>0
  <1>4. t = [i \in 1..(Len(s) - k) |-> s[i + (k + 1) - 1]] BY <1>1, <1>3
  <1> HIDE DEF t
  <1>5. \A i \in 1..(Len(s) - k) : t[i] = s[i + k] /\ t[i] \in S BY <1>0, <1>2, <1>4
  <1>6. t \in [1..(Len(s) - k) -> S] BY <1>4, <1>5
  <1>7. t \in Seq(S) /\ Len(t) = Len(s) - k BY <1>3, <1>6, Listed
  <1> QED BY <1>5, <1>7 DEF t

LEMMA RemapFacts ==
  ASSUME NEW p \in Seq(Names), NEW from \in Seq(Names), NEW to \in Seq(Names), isPathUnder(p, from),
         NEW r, r = Remap(p, from, to)
  PROVE  /\ r \in Seq(Names) /\ Len(r) = Len(to) + Len(p) - Len(from)
         /\ \A i \in 1..Len(to) : r[i] = to[i]
         /\ \A i \in (Len(to) + 1)..Len(r) : r[i] = p[i - Len(to) + Len(from)]
         /\ isPathUnder(r, to) /\ Remap(r, to, from) = p
  <1> DEFINE rest == SubSeq(p, Len(from) + 1, Len(p))
             n == Len(p) - Len(from)
  <1>0. Len(p) \in Nat /\ Len(from) \in Nat /\ Len(to) \in Nat OBVIOUS
  <1>1. Len(p) >= Len(from) /\ \A i \in 1..Len(from) : p[i] = from[i] BY UnderAgree
  <1>2. n \in Nat BY <1>0, <1>1
  <1>3. rest \in Seq(Names) /\ Len(rest) = n /\ \A i \in 1..n : rest[i] = p[i + Len(from)]
    BY <1>0, <1>1, <1>2, LastOf
  <1>4. r = to \o rest BY DEF Remap
  <1> HIDE DEF rest, n
  <1>5. /\ r \in Seq(Names) /\ Len(r) = Len(to) + n
        /\ \A i \in 1..Len(to) : r[i] = to[i]
        /\ \A i \in 1..n : r[Len(to) + i] = rest[i]
    <2>1. rest \in Seq(Names) BY <1>3
    <2>2. /\ to \o rest \in Seq(Names) /\ Len(to \o rest) = Len(to) + Len(rest)
          /\ \A i \in 1..Len(to) : (to \o rest)[i] = to[i]
          /\ \A i \in 1..Len(rest) : (to \o rest)[Len(to) + i] = rest[i]
      BY <2>1, JoinFacts
    <2> QED BY <1>3, <1>4, <2>2
  <1>6. \A i \in (Len(to) + 1)..Len(r) : r[i] = p[i - Len(to) + Len(from)]
    <2>1. ASSUME NEW i \in (Len(to) + 1)..Len(r) PROVE r[i] = p[i - Len(to) + Len(from)]
      <3> DEFINE j == i - Len(to)
      <3>1. j \in 1..n /\ Len(to) + j = i BY <1>0, <1>2, <1>5
      <3> HIDE DEF j
      <3>2. r[i] = rest[j] /\ rest[j] = p[j + Len(from)] BY <1>3, <1>5, <3>1
      <3> QED BY <3>2 DEF j
    <2> QED BY <2>1
  <1>7. isPathUnder(r, to)
    <2>1. Len(r) >= Len(to) BY <1>0, <1>2, <1>5
    <2> QED BY <1>5, <2>1, UnderAgree
  <1>8. Remap(r, to, from) = p
    <2> DEFINE tail == SubSeq(r, Len(to) + 1, Len(r))
    <2>1. Len(r) >= Len(to) /\ Len(r) - Len(to) = n BY <1>0, <1>2, <1>5
    <2>2. tail \in Seq(Names) /\ Len(tail) = n /\ \A i \in 1..n : tail[i] = r[i + Len(to)]
      BY <1>5, <2>1, LastOf
    <2>3. Remap(r, to, from) = from \o tail BY DEF Remap
    <2> HIDE DEF tail
    <2>4. /\ from \o tail \in Seq(Names) /\ Len(from \o tail) = Len(from) + n
          /\ \A i \in 1..Len(from) : (from \o tail)[i] = from[i]
          /\ \A i \in 1..n : (from \o tail)[Len(from) + i] = tail[i]
      BY <1>2, <2>2, JoinFacts
    <2>5. Len(from \o tail) = Len(p) BY <1>0, <2>4 DEF n
    <2>6. ASSUME NEW i \in 1..Len(p) PROVE (from \o tail)[i] = p[i]
      <3>1. CASE i <= Len(from) BY <1>0, <1>1, <2>4, <3>1
      <3>2. CASE i > Len(from)
        <4> DEFINE j == i - Len(from)
        <4>1. j \in 1..n /\ Len(from) + j = i BY <1>0, <1>2, <3>2 DEF n
        <4> HIDE DEF j
        <4>2. (from \o tail)[i] = tail[j] BY <2>4, <4>1
        <4>3. tail[j] = r[j + Len(to)] BY <2>2, <4>1
        <4>4. j + Len(to) = Len(to) + j BY <1>0, <4>1, <1>2
        <4>5. r[j + Len(to)] = rest[j] BY <1>5, <4>1, <4>4
        <4>6. rest[j] = p[j + Len(from)] BY <1>3, <4>1
        <4>7. j + Len(from) = i BY <1>0, <1>2, <4>1
        <4> QED BY <4>2, <4>3, <4>5, <4>6, <4>7
      <3>3. i <= Len(from) \/ i > Len(from)
        <4> DEFINE l == Len(from)
        <4>1. i \in Int /\ l \in Int BY <1>0
        <4> HIDE DEF l
        <4>2. i <= l \/ i > l BY <4>1
        <4> QED BY <4>2 DEF l
      <3> QED BY <3>1, <3>2, <3>3
    <2> QED BY <2>3, <2>4, <2>5, <2>6, SeqEqual
  <1>9. Len(r) = Len(to) + Len(p) - Len(from) BY <1>0, <1>5 DEF n
  <1> QED BY <1>5, <1>6, <1>7, <1>8, <1>9

\* The image of a move: paths under "to", from which the move back leads home.
LEMMA RemapBelow ==
  ASSUME NEW x \in Paths, NEW from \in Paths, NEW to \in Seq(Names), isPathUnder(x, from),
         NEW q \in Paths, isPathUnder(Remap(x, from, to), q), Len(q) > Len(to)
  PROVE  \E y \in Paths : isPathUnder(x, y) /\ isPathUnder(y, from) /\ Remap(y, from, to) = q
  <1> DEFINE r == Remap(x, from, to)
             n == Len(q) - Len(to) + Len(from)
             y == SubSeq(x, 1, n)
  <1>0. /\ x \in Seq(Names) /\ from \in Seq(Names) /\ q \in Seq(Names)
        /\ Len(x) \in Nat /\ Len(from) \in Nat /\ Len(to) \in Nat /\ Len(q) \in Nat
    BY PathAssumption
  <1>1. /\ r \in Seq(Names) /\ Len(r) = Len(to) + Len(x) - Len(from)
        /\ \A i \in (Len(to) + 1)..Len(r) : r[i] = x[i - Len(to) + Len(from)]
        /\ \A i \in 1..Len(to) : r[i] = to[i]
    BY <1>0, RemapFacts
  <1>2. Len(r) >= Len(q) /\ \A i \in 1..Len(q) : r[i] = q[i]
    <2>1. isPathUnder(r, q) OBVIOUS
    <2> HIDE DEF r
    <2> QED BY <1>0, <1>1, <2>1, UnderAgree
  <1> HIDE DEF r
  <1>3. n \in 1..Len(x) /\ n > Len(from) BY <1>0, <1>1, <1>2
  <1>4. y \in Seq(Names) /\ Len(y) = n /\ \A i \in 1..n : y[i] = x[i]
    <2>1. n \in 0..Len(x) BY <1>3
    <2> HIDE DEF n
    <2> QED BY <1>0, <2>1, FirstOf
  <1>5. y \in Paths BY <1>3, PathAssumption
  <1> HIDE DEF y
  <1>6. Len(x) >= Len(from) /\ \A i \in 1..Len(from) : x[i] = from[i] BY <1>0, UnderAgree
  <1>7. isPathUnder(x, y)
    <2>1. Len(x) >= Len(y) /\ \A i \in 1..Len(y) : x[i] = y[i] BY <1>0, <1>3, <1>4
    <2> QED BY <1>0, <1>4, <2>1, UnderAgree
  <1>8. isPathUnder(y, from)
    <2>1. Len(y) >= Len(from) /\ \A i \in 1..Len(from) : y[i] = from[i] BY <1>0, <1>3, <1>4, <1>6
    <2> QED BY <1>0, <1>4, <2>1, UnderAgree
  <1>9. Remap(y, from, to) = q
    <2> DEFINE s == Remap(y, from, to)
    <2>1. /\ s \in Seq(Names) /\ Len(s) = Len(to) + Len(y) - Len(from)
          /\ \A i \in 1..Len(to) : s[i] = to[i]
          /\ \A i \in (Len(to) + 1)..Len(s) : s[i] = y[i - Len(to) + Len(from)]
      BY <1>0, <1>4, <1>8, RemapFacts
    <2> HIDE DEF s
    <2>2. Len(s) = Len(q) BY <1>0, <1>4, <2>1
    <2>3. ASSUME NEW i \in 1..Len(q) PROVE s[i] = q[i]
      <3>1. r[i] = q[i] BY <1>2, <2>3
      <3>2. CASE i \in 1..Len(to) BY <1>1, <2>1, <3>1, <3>2
      <3>3. CASE i \in (Len(to) + 1)..Len(q)
        <4>1. i \in (Len(to) + 1)..Len(s) /\ i \in (Len(to) + 1)..Len(r)
          BY <1>0, <1>1, <1>2, <2>2, <3>3
        <4>2. i - Len(to) + Len(from) \in 1..n BY <1>0, <3>3
        <4>3. s[i] = y[i - Len(to) + Len(from)] /\ r[i] = x[i - Len(to) + Len(from)] BY <1>1, <2>1, <4>1
        <4>4. y[i - Len(to) + Len(from)] = x[i - Len(to) + Len(from)] BY <1>4, <4>2
        <4> QED BY <3>1, <4>3, <4>4
      <3>4. i \in 1..Len(to) \/ i \in (Len(to) + 1)..Len(q) BY <1>0
      <3> QED BY <3>2, <3>3, <3>4
    <2>4. s = q BY <1>0, <2>1, <2>2, <2>3, SeqEqual
    <2> QED BY <2>4 DEF s
  <1> QED BY <1>5, <1>7, <1>8, <1>9

-----------------------------------------------------------------------------
(* What each operation of the store leaves.                                *)

Raised(s, t) == t.rev = s.rev + 1 /\ s.rev \in Nat

\* The entries by which two stores differ are empty or written elsewhere.
LEMMA StoreMade ==
  ASSUME NEW s, FsOK(s), s.rev < MaxRev, NEW D \in SUBSET Paths, Rooted(D),
         NEW f, f \in [D -> Files], NEW t, t = [files |-> f, rev |-> s.rev + 1]
  PROVE  FsOK(t) /\ Raised(s, t) /\ t.files = f /\ DOMAIN t.files = D
  <1>1. s.rev \in 0..MaxRev /\ MaxRev \in Nat BY EditAssumption DEF FsOK
  <1>2. f \in Maps(Paths, Files) /\ s.rev + 1 \in 0..MaxRev BY <1>1 DEF Maps
  <1> QED BY <1>1, <1>2 DEF FsOK, Raised

LEMMA FsParts ==
  ASSUME NEW s, FsOK(s)
  PROVE  /\ DOMAIN s.files \subseteq Paths /\ Rooted(DOMAIN s.files)
         /\ \A k \in DOMAIN s.files : s.files[k] \in Files
         /\ s.rev \in Nat /\ s.rev <= MaxRev
  BY EditAssumption, MapsFacts DEF FsOK

LEMMA EntryFacts ==
  ASSUME NEW s, FsOK(s), s.rev < MaxRev, NEW dir \in BOOLEAN, NEW c \in Contents, NEW own \in BOOLEAN
  PROVE  /\ Entry(s, dir, c, own) \in Files
         /\ Entry(s, dir, c, own).c = c /\ Entry(s, dir, c, own).own = own /\ Entry(s, dir, c, own).dir = dir
         /\ Entry(s, dir, c, own).m = s.rev + 1
  <1>1. s.rev + 1 \in 0..MaxRev BY EditAssumption, FsParts
  <1> QED BY <1>1 DEF Entry, Files

\* A new entry in a directory that is there, or in the root.
LEMMA PutFacts ==
  ASSUME NEW s, FsOK(s), s.rev < MaxRev, NEW k \in Paths, Parent(k) \in Dirs(s), NEW v \in Files
  PROVE  FsOK(Put(s, k, v)) /\ Raised(s, Put(s, k, v))
         /\ DOMAIN Put(s, k, v).files = DOMAIN s.files \cup {k}
         /\ \A q \in DOMAIN s.files \cup {k} : Put(s, k, v).files[q] = IF q = k THEN v ELSE s.files[q]
  <1> DEFINE D == DOMAIN s.files \cup {k}
             f == [q \in D |-> IF q = k THEN v ELSE s.files[q]]
  <1>1. D \in SUBSET Paths /\ f \in [D -> Files] BY FsParts
  <1>2. Rooted(D)
    <2>1. ASSUME NEW p \in D, NEW q \in Paths, isPathUnder(p, q) PROVE q \in D
      <3>1. CASE p \in DOMAIN s.files BY <2>1, <3>1, FsParts DEF Rooted
      <3>2. CASE p = k /\ q # k
        <4>1. k \in Seq(Names) /\ k # <<>> /\ q \in Seq(Names) /\ q # <<>> BY PathAssumption
        <4>2. Parent(k) # <<>> /\ isPathUnder(Parent(k), q) BY <2>1, <3>2, <4>1, UnderParent
        <4>3. Parent(k) \in DOMAIN s.files BY <4>2 DEF Dirs
        <4> QED BY <4>2, <4>3, FsParts DEF Rooted
      <3> QED BY <3>1, <3>2
    <2> QED BY <2>1 DEF Rooted
  <1>3. Put(s, k, v) = [files |-> f, rev |-> s.rev + 1] BY DEF Put
  <1> HIDE DEF D, f
  <1>4. FsOK(Put(s, k, v)) /\ Raised(s, Put(s, k, v)) /\ Put(s, k, v).files = f /\ DOMAIN Put(s, k, v).files = D
    BY <1>1, <1>2, <1>3, StoreMade
  <1> QED BY <1>4 DEF D, f

LEMMA WriteFacts ==
  ASSUME NEW s, FsOK(s), s.rev < MaxRev, NEW k \in Paths, NEW c \in Contents, NEW own \in BOOLEAN
  PROVE  FsOK(write(s, k, c, own)) /\ Raised(s, write(s, k, c, own))
         /\ k \in DOMAIN write(s, k, c, own).files
         /\ write(s, k, c, own).files[k].own = own /\ write(s, k, c, own).files[k].m = s.rev + 1
         /\ \A q \in DOMAIN write(s, k, c, own).files : q # k =>
               \/ q \in DOMAIN s.files /\ write(s, k, c, own).files[q] = s.files[q]
               \/ write(s, k, c, own).files[q].c = 0
  <1> DEFINE missing == {q \in Paths : isPathUnder(k, q) /\ q # k /\ ~Exists(s, q)}
             D == DOMAIN s.files \cup missing \cup {k}
             f == [q \in D |-> IF q = k THEN Entry(s, FALSE, c, own)
                               ELSE IF q \in missing THEN Entry(s, TRUE, 0, own) ELSE s.files[q]]
  <1>0. 0 \in Contents BY PathAssumption DEF Contents
  <1>1. Entry(s, FALSE, c, own) \in Files /\ Entry(s, TRUE, 0, own) \in Files BY <1>0, EntryFacts
  <1>2. D \in SUBSET Paths /\ f \in [D -> Files] BY <1>1, FsParts
  <1>3. Rooted(D)
    <2>1. ASSUME NEW p \in D, NEW q \in Paths, isPathUnder(p, q) PROVE q \in D
      <3>0. p \in Seq(Names) /\ q \in Seq(Names) /\ k \in Seq(Names) BY <1>2, PathAssumption
      <3>1. CASE p \in DOMAIN s.files BY <2>1, <3>1, FsParts DEF Rooted
      <3>2. CASE p \in missing \/ p = k
        <4>1. isPathUnder(k, q) BY <2>1, <3>0, <3>2, UnderFacts
        <4> QED BY <4>1 DEF Exists
      <3> QED BY <3>1, <3>2
    <2> QED BY <2>1 DEF Rooted
  <1>4. write(s, k, c, own) = [files |-> f, rev |-> s.rev + 1]
    <2> DEFINE all == DOMAIN s.files \cup missing
               g == [q \in all |-> IF q \in missing THEN Entry(s, TRUE, 0, own) ELSE s.files[q]]
    <2>1. s = [files |-> s.files, rev |-> s.rev] BY DEF FsOK
    <2>2. write(s, k, c, own) = Put([s EXCEPT !.files = g], k, Entry(s, FALSE, c, own)) BY DEF write
    <2>3. [s EXCEPT !.files = g].files = g /\ [s EXCEPT !.files = g].rev = s.rev BY <2>1
    <2>4. DOMAIN g \cup {k} = D OBVIOUS
    <2>5. [q \in D |-> IF q = k THEN Entry(s, FALSE, c, own) ELSE g[q]] = f
      <3>1. \A q \in D : q # k => g[q] = IF q \in missing THEN Entry(s, TRUE, 0, own) ELSE s.files[q] OBVIOUS
      <3> QED BY <3>1
    <2> QED BY <2>2, <2>3, <2>4, <2>5 DEF Put
  <1>5. \A q \in D : q # k => (q \in DOMAIN s.files /\ f[q] = s.files[q]) \/ f[q].c = 0
    <2>1. Entry(s, TRUE, 0, own).c = 0 BY DEF Entry
    <2> QED BY <2>1
  <1>6. k \in D /\ f[k].own = own /\ f[k].m = s.rev + 1
    BY EntryFacts
  <1> HIDE DEF D, f, missing
  <1>7. FsOK(write(s, k, c, own)) /\ Raised(s, write(s, k, c, own)) /\ write(s, k, c, own).files = f
        /\ DOMAIN write(s, k, c, own).files = D
    BY <1>2, <1>3, <1>4, StoreMade
  <1> QED BY <1>5, <1>6, <1>7

LEMMA DeleteFacts ==
  ASSUME NEW s, FsOK(s), s.rev < MaxRev, NEW k \in Paths
  PROVE  FsOK(delete(s, k)) /\ Raised(s, delete(s, k))
         /\ \A q \in DOMAIN delete(s, k).files : q \in DOMAIN s.files /\ delete(s, k).files[q] = s.files[q]
  <1> DEFINE D == {r \in DOMAIN s.files : ~isPathUnder(r, k)}
             f == [q \in D |-> s.files[q]]
  <1>1. D \in SUBSET Paths /\ f \in [D -> Files] BY FsParts
  <1>2. Rooted(D)
    <2>1. ASSUME NEW p \in D, NEW q \in Paths, isPathUnder(p, q) PROVE q \in D
      <3>0. p \in Seq(Names) /\ q \in Seq(Names) /\ k \in Seq(Names) BY <1>1, PathAssumption
      <3>1. q \in DOMAIN s.files BY <2>1, FsParts DEF Rooted
      <3>2. ~isPathUnder(q, k) BY <2>1, <3>0, UnderFacts
      <3> QED BY <3>1, <3>2
    <2> QED BY <2>1 DEF Rooted
  <1>3. delete(s, k) = [files |-> f, rev |-> s.rev + 1] BY DEF delete
  <1>4. \A q \in D : q \in DOMAIN s.files /\ f[q] = s.files[q] OBVIOUS
  <1> HIDE DEF D, f
  <1>5. FsOK(delete(s, k)) /\ Raised(s, delete(s, k)) /\ delete(s, k).files = f /\ DOMAIN delete(s, k).files = D
    BY <1>1, <1>2, <1>3, StoreMade
  <1> QED BY <1>4, <1>5

LEMMA RenameFacts ==
  ASSUME NEW s, FsOK(s), s.rev < MaxRev, NEW from \in Paths, NEW to \in Paths,
         CanRename(s, from, to), StaysInPaths(from, to, DOMAIN s.files), ~isPathUnder(to, from),
         Parent(to) \in {<<>>} \cup DOMAIN s.files
  PROVE  FsOK(rename(s, from, to)) /\ Raised(s, rename(s, from, to))
         /\ \A q \in DOMAIN rename(s, from, to).files :
               isPathUnder(q, to) \/ (q \in DOMAIN s.files /\ rename(s, from, to).files[q] = s.files[q])
  <1> DEFINE moved == {q \in DOMAIN s.files : isPathUnder(q, from)}
             new == {Remap(q, from, to) : q \in moved}
             D == (DOMAIN s.files \ moved) \cup new
             f == [q \in D |-> IF q \in new THEN s.files[Remap(q, to, from)] ELSE s.files[q]]
  <1>0. from \in Seq(Names) /\ to \in Seq(Names) /\ to # <<>> /\ \A q \in Paths : q \in Seq(Names) /\ q # <<>>
    BY PathAssumption
  <1>1. \A q \in moved : /\ Remap(q, from, to) \in Paths /\ isPathUnder(Remap(q, from, to), to)
                         /\ Remap(Remap(q, from, to), to, from) = q
    <2>1. ASSUME NEW q \in moved PROVE Remap(q, from, to) \in Paths BY DEF StaysInPaths
    <2>2. ASSUME NEW q \in moved
          PROVE  isPathUnder(Remap(q, from, to), to) /\ Remap(Remap(q, from, to), to, from) = q
      <3>1. q \in Seq(Names) /\ isPathUnder(q, from) BY <1>0, FsParts
      <3> QED BY <1>0, <3>1, RemapFacts
    <2> QED BY <2>1, <2>2
  <1>2. D \in SUBSET Paths /\ f \in [D -> Files]
    <2>1. D \in SUBSET Paths BY <1>1, FsParts
    <2>2. ASSUME NEW q \in D PROVE f[q] \in Files
      <3>1. CASE q \in new BY <1>1, <3>1, FsParts
      <3>2. CASE q \notin new BY <3>2, FsParts
      <3> QED BY <3>1, <3>2
    <2> QED BY <2>1, <2>2
  <1>3. from \in DOMAIN s.files /\ to \in new
    <2>1. PICK q \in DOMAIN s.files : isPathUnder(q, from) BY DEF CanRename
    <2>2. from \in DOMAIN s.files BY <2>1, FsParts DEF Rooted
    <2>3. Remap(from, from, to) = to
      <3>1. isPathUnder(from, from) BY <1>0, UnderFacts
      <3> DEFINE r == Remap(from, from, to)
      <3>2. /\ r \in Seq(Names) /\ Len(r) = Len(to) + Len(from) - Len(from)
            /\ \A i \in 1..Len(to) : r[i] = to[i]
        BY <1>0, <3>1, RemapFacts
      <3> HIDE DEF r
      <3>3. Len(r) = Len(to) BY <1>0, <3>2
      <3>4. r = to BY <1>0, <3>2, <3>3, SeqEqual
      <3> QED BY <3>4 DEF r
    <2>4. from \in moved BY <1>0, <2>2, UnderFacts
    <2> QED BY <2>2, <2>3, <2>4
  <1>4. Rooted(D)
    <2>1. ASSUME NEW p \in D, NEW q \in Paths, isPathUnder(p, q) PROVE q \in D
      <3>0. p \in Seq(Names) /\ q \in Seq(Names) /\ q # <<>> BY <1>0, <1>2
      <3>1. CASE p \in DOMAIN s.files \ moved
        <4>1. q \in DOMAIN s.files BY <2>1, <3>1, FsParts DEF Rooted
        <4>2. ~isPathUnder(q, from) BY <1>0, <2>1, <3>0, <3>1, UnderFacts
        <4> QED BY <4>1, <4>2
      <3>2. CASE p \in new
        <4>1. PICK x \in moved : p = Remap(x, from, to) BY <3>2
        <4>2. isPathUnder(p, to) BY <1>1, <4>1
        <4>3. CASE Len(q) > Len(to)
          <5>1. x \in Paths /\ isPathUnder(x, from) /\ isPathUnder(Remap(x, from, to), q) BY <2>1, <4>1, FsParts
          <5>2. PICK y \in Paths : isPathUnder(x, y) /\ isPathUnder(y, from) /\ Remap(y, from, to) = q
            BY <1>0, <4>3, <5>1, RemapBelow
          <5>3. y \in DOMAIN s.files BY <5>2, FsParts DEF Rooted
          <5> QED BY <5>2, <5>3
        <4>4. CASE ~(Len(q) > Len(to)) /\ q # to
          <5>1. Len(to) >= Len(q) BY <1>0, <3>0, <4>4
          <5>2. isPathUnder(to, q) BY <1>0, <2>1, <3>0, <4>2, <5>1, UnderFacts
          <5>3. Parent(to) # <<>> /\ isPathUnder(Parent(to), q) BY <1>0, <3>0, <4>4, <5>2, UnderParent
          <5>4. q \in DOMAIN s.files BY <5>3, FsParts DEF Rooted
          <5>5. ~isPathUnder(q, from) BY <1>0, <3>0, <5>2, UnderFacts
          <5> QED BY <5>4, <5>5
        <4> QED BY <1>3, <4>3, <4>4
      <3> QED BY <3>1, <3>2
    <2> QED BY <2>1 DEF Rooted
  <1>5. rename(s, from, to) = [files |-> f, rev |-> s.rev + 1] BY DEF rename
  <1>6. \A q \in D : isPathUnder(q, to) \/ (q \in DOMAIN s.files /\ f[q] = s.files[q]) BY <1>1
  <1> HIDE DEF D, f, new, moved
  <1>7. FsOK(rename(s, from, to)) /\ Raised(s, rename(s, from, to)) /\ rename(s, from, to).files = f
        /\ DOMAIN rename(s, from, to).files = D
    BY <1>2, <1>4, <1>5, StoreMade
  <1> QED BY <1>6, <1>7

LEMMA ReplaceFacts ==
  ASSUME NEW s, FsOK(s), s.rev < MaxRev, NEW tree \in Trees
  PROVE  FsOK(replaceTree(s, tree)) /\ Raised(s, replaceTree(s, tree))
  <1> DEFINE D == DOMAIN tree
             f == [p \in D |-> Entry(s, tree[p].dir, tree[p].c, TRUE)]
  <1>1. tree \in Listings /\ Rooted(D) BY DEF Trees
  <1>2. D \in SUBSET Paths /\ \A p \in D : tree[p].dir \in BOOLEAN /\ tree[p].c \in Contents
    BY <1>1, ListingFacts DEF Marks
  <1>3. \A p \in D : Entry(s, tree[p].dir, tree[p].c, TRUE) \in Files BY <1>2, EntryFacts
  <1>4. f \in [D -> Files] BY <1>3
  <1>5. replaceTree(s, tree) = [files |-> f, rev |-> s.rev + 1] BY DEF replaceTree
  <1> HIDE DEF D, f
  <1> QED BY <1>1, <1>2, <1>4, <1>5, StoreMade

-----------------------------------------------------------------------------
(* What each operator on the editors leaves.                               *)

\* The fields of the editors' state.
LEMMA EdParts ==
  ASSUME NEW e \in Eds
  PROVE  /\ DOMAIN e.bufs \subseteq AllPaths /\ \A k \in DOMAIN e.bufs : e.bufs[k] \in Bufs
         /\ DOMAIN e.att \subseteq Panes /\ \A p \in DOMAIN e.att : e.att[p] \in AllPaths
         /\ e.shows \in [Panes -> AllPaths \cup {None}] /\ e.rd \in [Panes -> Reads]
         /\ e.up \subseteq Panes /\ e.lock \subseteq Panes /\ e.ousted \subseteq Panes
         /\ e.ph \subseteq Paths /\ e.orphan \subseteq AllPaths
         /\ e.sweeps \subseteq Paths \X {"stat", "delete"}
  <1>1. e.bufs \in Maps(AllPaths, Bufs) /\ e.att \in Maps(Panes, AllPaths) BY DEF Eds
  <1>2. DOMAIN e.bufs \subseteq AllPaths /\ \A k \in DOMAIN e.bufs : e.bufs[k] \in Bufs BY <1>1 DEF Maps
  <1>3. DOMAIN e.att \subseteq Panes /\ \A p \in DOMAIN e.att : e.att[p] \in AllPaths BY <1>1 DEF Maps
  <1> QED BY <1>2, <1>3 DEF Eds

\* Every buffer is attached, those of the paths B apart.
AttachedBut(e, B) == \A k \in DOMAIN e.bufs \ e.orphan : k \in B \/ \E p \in DOMAIN e.att : e.att[p] = k

\* Nothing but buffers, attachments and the ousted differs.
OnlyBuffers(e, t) ==
    /\ t.shows = e.shows /\ t.up = e.up /\ t.lock = e.lock /\ t.ph = e.ph /\ t.rd = e.rd
    /\ t.sweeps = e.sweeps

LEMMA ReattachedFacts ==
  ASSUME NEW e \in Eds, NEW att \in Maps(Panes, AllPaths), NEW left \in SUBSET Panes, NEW B,
         AttachedBut(e, B), \A k \in B : ~Unreferenced(att, k),
         \A p \in DOMAIN e.att \ left : p \in DOMAIN att /\ att[p] = e.att[p]
  PROVE  LET t == Reattached(e, att, left) IN
         /\ t \in Eds /\ Attached(t) /\ t.att = att /\ t.ousted = e.ousted /\ OnlyBuffers(e, t)
         /\ DOMAIN t.bufs \subseteq DOMAIN e.bufs
         /\ \A k \in DOMAIN t.bufs : t.bufs[k] = e.bufs[k]
         /\ \A k \in DOMAIN e.bufs : ~Unreferenced(att, k) => k \in DOMAIN t.bufs
  <1> DEFINE gone == {k \in {e.att[p] : p \in left \cap DOMAIN e.att} : Unreferenced(att, k)}
             D == DOMAIN e.bufs \ gone
             bufs == [k \in D |-> e.bufs[k]]
             orphan == {k \in e.orphan : Unreferenced(att, k)}
             t == Reattached(e, att, left)
  <1>1. Restrict(e.bufs, D) = bufs BY DEF Restrict
  <1>2. t = [e EXCEPT !.att = att, !.bufs = bufs, !.orphan = orphan] BY <1>1 DEF Reattached
  <1>3. bufs \in Maps(AllPaths, Bufs)
    <2>1. D \in SUBSET AllPaths /\ bufs \in [D -> Bufs] BY EdParts
    <2> QED BY <2>1 DEF Maps
  <1>4. /\ \A k \in D : k \in DOMAIN e.bufs /\ bufs[k] = e.bufs[k]
        /\ \A k \in DOMAIN e.bufs : ~Unreferenced(att, k) => k \in D
    OBVIOUS
  <1>5. ASSUME NEW k \in D, k \notin orphan PROVE \E p \in DOMAIN att : att[p] = k
    <2>0. CASE k \in e.orphan BY <1>5, <2>0 DEF Unreferenced
    <2>1. CASE k \in B BY <2>1 DEF Unreferenced
    <2>2. CASE k \notin e.orphan \cup B
      <3>1. PICK p \in DOMAIN e.att : e.att[p] = k BY <1>5, <2>2 DEF AttachedBut
      <3>2. CASE p \notin left BY <3>1, <3>2
      <3>3. CASE p \in left BY <1>5, <3>1, <3>3 DEF Unreferenced
      <3> QED BY <3>2, <3>3
    <2> QED BY <2>0, <2>1, <2>2
  <1>6. DOMAIN bufs = D /\ orphan \subseteq AllPaths BY EdParts
  <1> HIDE DEF bufs, D, orphan
  <1>7. /\ t \in Eds /\ t.att = att /\ t.bufs = bufs /\ t.ousted = e.ousted /\ OnlyBuffers(e, t)
        /\ t.orphan = orphan
    BY <1>2, <1>3, <1>6 DEF Eds, OnlyBuffers
  <1>8. Attached(t) BY <1>5, <1>6, <1>7 DEF Attached
  <1> QED BY <1>4, <1>6, <1>7, <1>8

LEMMA AttachFacts ==
  ASSUME NEW e \in Eds, NEW ps \in SUBSET Panes, NEW B, AttachedBut(e, B),
         \A p \in ps : e.shows[p] # None, \A k \in B : \E p \in ps : e.shows[p] = k
  PROVE  LET t == attachPane(e, ps) IN
         /\ t \in Eds /\ Attached(t) /\ t.ousted = e.ousted \ ps /\ OnlyBuffers(e, t)
         /\ DOMAIN t.att = DOMAIN e.att \cup ps
         /\ \A p \in DOMAIN t.att : t.att[p] = IF p \in ps THEN e.shows[p] ELSE e.att[p]
         /\ DOMAIN t.bufs \subseteq DOMAIN e.bufs
         /\ \A k \in DOMAIN t.bufs : t.bufs[k] = e.bufs[k]
         /\ \A k \in DOMAIN e.bufs : ~Unreferenced(t.att, k) => k \in DOMAIN t.bufs
  <1> DEFINE D == DOMAIN e.att \cup ps
             att == [p \in D |-> IF p \in ps THEN e.shows[p] ELSE e.att[p]]
             r == Reattached(e, att, ps)
             t == attachPane(e, ps)
  <1>1. att \in Maps(Panes, AllPaths)
    <2>1. D \in SUBSET Panes /\ att \in [D -> AllPaths] BY EdParts
    <2> QED BY <2>1 DEF Maps
  <1>2. \A k \in B : ~Unreferenced(att, k) BY DEF Unreferenced
  <1>3. \A p \in DOMAIN e.att \ ps : p \in DOMAIN att /\ att[p] = e.att[p] OBVIOUS
  <1>4. DOMAIN att = DOMAIN e.att \cup ps /\ \A p \in DOMAIN att : att[p] = IF p \in ps THEN e.shows[p] ELSE e.att[p]
    OBVIOUS
  <1>5. t = [r EXCEPT !.ousted = e.ousted \ ps] BY DEF attachPane
  <1> HIDE DEF att, D
  <1>6. /\ r \in Eds /\ Attached(r) /\ r.att = att /\ r.ousted = e.ousted /\ OnlyBuffers(e, r)
        /\ DOMAIN r.bufs \subseteq DOMAIN e.bufs
        /\ \A k \in DOMAIN r.bufs : r.bufs[k] = e.bufs[k]
        /\ \A k \in DOMAIN e.bufs : ~Unreferenced(att, k) => k \in DOMAIN r.bufs
    BY <1>1, <1>2, <1>3, ReattachedFacts
  <1> HIDE DEF r, t
  <1>7. e.ousted \ ps \in SUBSET Panes BY EdParts
  <1>8. /\ t \in Eds /\ t.ousted = e.ousted \ ps /\ t.bufs = r.bufs /\ t.att = att
        /\ t.orphan = r.orphan /\ OnlyBuffers(e, t) /\ (Attached(t) <=> Attached(r))
    BY <1>5, <1>6, <1>7 DEF Eds, OnlyBuffers, Attached
  <1> QED BY <1>4, <1>6, <1>8 DEF t

LEMMA CloseFacts ==
  ASSUME NEW e \in Eds, NEW ps, NEW key, Attached(e)
  PROVE  LET t == closePaneState(e, ps, key) IN
         /\ t \in Eds /\ Attached(t) /\ t.ousted = e.ousted /\ OnlyBuffers(e, t)
         /\ DOMAIN t.att = {p \in DOMAIN e.att : ~(p \in ps /\ e.att[p] = key[p])}
         /\ \A p \in DOMAIN t.att : t.att[p] = e.att[p]
         /\ DOMAIN t.bufs \subseteq DOMAIN e.bufs
         /\ \A k \in DOMAIN t.bufs : t.bufs[k] = e.bufs[k]
         /\ \A k \in DOMAIN e.bufs : ~Unreferenced(t.att, k) => k \in DOMAIN t.bufs
  <1> DEFINE left == {p \in ps \cap DOMAIN e.att : e.att[p] = key[p]}
             D == DOMAIN e.att \ left
             att == [p \in D |-> e.att[p]]
             t == closePaneState(e, ps, key)
  <1>1. att \in Maps(Panes, AllPaths) /\ left \in SUBSET Panes
    <2>1. D \in SUBSET Panes /\ att \in [D -> AllPaths] /\ left \in SUBSET Panes BY EdParts
    <2> QED BY <2>1 DEF Maps
  <1>2. \A p \in DOMAIN e.att \ left : p \in DOMAIN att /\ att[p] = e.att[p] OBVIOUS
  <1>3. /\ DOMAIN att = {p \in DOMAIN e.att : ~(p \in ps /\ e.att[p] = key[p])}
        /\ \A p \in DOMAIN att : att[p] = e.att[p]
    OBVIOUS
  <1>4. t = Reattached(e, att, left) BY DEF closePaneState, Restrict
  <1>5. AttachedBut(e, {}) /\ \A k \in {} : ~Unreferenced(att, k) BY DEF AttachedBut, Attached
  <1> HIDE DEF att, D, left
  <1>6. /\ t \in Eds /\ Attached(t) /\ t.att = att /\ t.ousted = e.ousted /\ OnlyBuffers(e, t)
        /\ DOMAIN t.bufs \subseteq DOMAIN e.bufs
        /\ \A k \in DOMAIN t.bufs : t.bufs[k] = e.bufs[k]
        /\ \A k \in DOMAIN e.bufs : ~Unreferenced(att, k) => k \in DOMAIN t.bufs
    BY <1>1, <1>2, <1>4, <1>5, ReattachedFacts
  <1> HIDE DEF t
  <1> QED BY <1>3, <1>6 DEF t

\* The load effect changes blank buffers and the loads of its panes.
Loaded(e, ps, t) ==
    /\ t \in Eds /\ t.shows = e.shows /\ t.up = e.up /\ t.lock = e.lock /\ t.ph = e.ph
    /\ t.sweeps = e.sweeps /\ t.orphan = e.orphan /\ t.att = e.att /\ t.ousted = e.ousted
    /\ DOMAIN e.bufs \subseteq DOMAIN t.bufs /\ \A k \in DOMAIN e.bufs : t.bufs[k] = e.bufs[k]
    /\ \A k \in DOMAIN t.bufs \ DOMAIN e.bufs : k \in Untitled /\ \E p \in ps : e.shows[p] = k
    /\ \A p \in Panes : \/ p \notin ps /\ t.rd[p] = e.rd[p]
                        \/ p \in ps /\ t.rd[p] = Idle
                        \/ p \in ps /\ e.shows[p] \in Paths /\ t.rd[p] = [at |-> "load", k |-> e.shows[p]]

LEMMA LoadFacts ==
  ASSUME NEW e \in Eds, NEW ps \in SUBSET Panes, \A p \in ps : e.shows[p] # None
  PROVE  Loaded(e, ps, LoadEffect(e, ps))
  <1> DEFINE blank == ({e.shows[p] : p \in ps} \cap Untitled) \ DOMAIN e.bufs
             reads == {p \in ps : e.shows[p] \notin Untitled \cup DOMAIN e.bufs}
             new == [c |-> 0, saved |-> 0, m |-> 0]
             D == DOMAIN e.bufs \cup blank
             bufs == [k \in D |-> IF k \in blank THEN new ELSE e.bufs[k]]
             rd == [p \in Panes |-> IF p \notin ps THEN e.rd[p]
                                    ELSE IF p \in reads THEN [at |-> "load", k |-> e.shows[p]] ELSE Idle]
             t == LoadEffect(e, ps)
  <1>1. new \in Bufs BY PathAssumption, EditAssumption DEF Bufs, Contents
  <1>2. bufs \in Maps(AllPaths, Bufs)
    <2>1. D \in SUBSET AllPaths /\ bufs \in [D -> Bufs] BY <1>1, EdParts DEF AllPaths
    <2> QED BY <2>1 DEF Maps
  <1>3. \A p \in ps : e.shows[p] \notin Untitled => e.shows[p] \in Paths BY EdParts DEF AllPaths
  <1>4. rd \in [Panes -> Reads]
    <2>1. \A p \in reads : [at |-> "load", k |-> e.shows[p]] \in Reads BY <1>3 DEF Reads
    <2>2. Idle \in Reads BY DEF Idle, Reads
    <2>3. \A p \in Panes : e.rd[p] \in Reads BY EdParts
    <2> QED BY <2>1, <2>2, <2>3
  <1>5. \A p \in Panes : \/ p \notin ps /\ rd[p] = e.rd[p]
                         \/ p \in ps /\ rd[p] = Idle
                         \/ p \in ps /\ e.shows[p] \in Paths /\ rd[p] = [at |-> "load", k |-> e.shows[p]]
    BY <1>3
  <1>6. /\ DOMAIN e.bufs \subseteq DOMAIN bufs /\ \A k \in DOMAIN e.bufs : bufs[k] = e.bufs[k]
        /\ \A k \in DOMAIN bufs \ DOMAIN e.bufs : k \in Untitled /\ \E p \in ps : e.shows[p] = k
    OBVIOUS
  <1>7. t = [e EXCEPT !.bufs = bufs, !.rd = rd] BY DEF LoadEffect
  <1> HIDE DEF bufs, rd, new, D, reads, blank, t
  <1>8. /\ t \in Eds /\ t.shows = e.shows /\ t.up = e.up /\ t.lock = e.lock /\ t.ph = e.ph
        /\ t.sweeps = e.sweeps /\ t.orphan = e.orphan /\ t.att = e.att /\ t.ousted = e.ousted
        /\ t.bufs = bufs /\ t.rd = rd
    BY <1>2, <1>4, <1>7 DEF Eds
  <1> QED BY <1>5, <1>6, <1>8 DEF Loaded, t

\* The buffers on show stay on show, with what they hold.
Keeps(e, t) ==
    \A k \in DOMAIN e.bufs : OnShow(e, k) =>
        k \in DOMAIN t.bufs /\ OnShow(t, k) /\ t.bufs[k].c = e.bufs[k].c

LEMMA KeepsChain ==
  ASSUME NEW e, NEW t, NEW u, Keeps(e, t), Keeps(t, u)
  PROVE  Keeps(e, u)
  BY DEF Keeps

\* Panes ps have run their effects.
Entered(e, ps, t) ==
    /\ t \in Eds /\ Attached(t) /\ Keeps(e, t)
    /\ t.shows = e.shows /\ t.up = e.up /\ t.lock = e.lock /\ t.ph = e.ph /\ t.ousted = e.ousted \ ps
    /\ DOMAIN t.att = DOMAIN e.att \cup ps
    /\ \A p \in DOMAIN t.att : t.att[p] = IF p \in ps THEN e.shows[p] ELSE e.att[p]
    /\ \A p \in Panes : \/ p \notin ps /\ t.rd[p] = e.rd[p]
                        \/ p \in ps /\ t.rd[p] = Idle
                        \/ p \in ps /\ e.shows[p] \in Paths /\ t.rd[p] = [at |-> "load", k |-> e.shows[p]]

LEMMA EffectsFacts ==
  ASSUME NEW e \in Eds, Attached(e), NEW ps \in SUBSET Panes, \A p \in ps : e.shows[p] # None
  PROVE  Entered(e, ps, Effects(e, ps))
  <1> DEFINE l == LoadEffect(e, ps)
             t == attachPane(l, ps)
             B == DOMAIN l.bufs \ DOMAIN e.bufs
  <1>1. Loaded(e, ps, l) BY LoadFacts
  <1> HIDE DEF l
  <1>2. /\ l \in Eds /\ AttachedBut(l, B) /\ \A k \in B : \E p \in ps : l.shows[p] = k
        /\ \A p \in ps : l.shows[p] # None
    BY <1>1 DEF Loaded, AttachedBut, Attached
  <1> HIDE DEF B
  <1>3. /\ t \in Eds /\ Attached(t) /\ t.ousted = l.ousted \ ps /\ OnlyBuffers(l, t)
        /\ DOMAIN t.att = DOMAIN l.att \cup ps
        /\ \A p \in DOMAIN t.att : t.att[p] = IF p \in ps THEN l.shows[p] ELSE l.att[p]
        /\ DOMAIN t.bufs \subseteq DOMAIN l.bufs
        /\ \A k \in DOMAIN t.bufs : t.bufs[k] = l.bufs[k]
        /\ \A k \in DOMAIN l.bufs : ~Unreferenced(t.att, k) => k \in DOMAIN t.bufs
    BY <1>2, AttachFacts
  <1> HIDE DEF t
  <1>4. Keeps(e, t)
    <2>1. ASSUME NEW k \in DOMAIN e.bufs, OnShow(e, k)
          PROVE  k \in DOMAIN t.bufs /\ OnShow(t, k) /\ t.bufs[k].c = e.bufs[k].c
      <3>1. PICK p \in DOMAIN e.att : e.att[p] = k /\ e.shows[p] = k BY <2>1 DEF OnShow
      <3>2. p \in DOMAIN t.att /\ t.att[p] = k /\ t.shows[p] = k BY <1>1, <1>3, <3>1 DEF Loaded, OnlyBuffers
      <3>3. k \in DOMAIN t.bufs /\ t.bufs[k] = e.bufs[k] BY <1>1, <1>3, <3>2 DEF Loaded, Unreferenced
      <3> QED BY <3>2, <3>3 DEF OnShow, Has
    <2> QED BY <2>1 DEF Keeps
  <1>5. Effects(e, ps) = t BY DEF Effects, t, l
  <1> QED BY <1>1, <1>3, <1>4, <1>5 DEF Entered, Loaded, OnlyBuffers

\* A pane mounts: it showed nothing, or shows the same path again.
LEMMA MountedGood ==
  ASSUME NEW e, Good(e), NEW p \in Panes, NEW k \in AllPaths, p \notin DOMAIN e.att \/ e.shows[p] = k
  PROVE  Good(Mounted(e, p, k)) /\ Keeps(e, Mounted(e, p, k)) /\ Mounted(e, p, k).ph = e.ph
  <1> DEFINE u == [e EXCEPT !.shows[p] = k, !.up = e.up \cup {p}]
             t == Effects(u, {p})
  <1>0. e \in Eds /\ k # None BY EditAssumption DEF Good, AllPaths
  <1>1. /\ u \in Eds /\ u.att = e.att /\ u.bufs = e.bufs /\ u.orphan = e.orphan /\ u.ph = e.ph
        /\ u.rd = e.rd /\ u.ousted = e.ousted /\ u.up = e.up \cup {p}
        /\ \A q \in Panes : u.shows[q] = IF q = p THEN k ELSE e.shows[q]
    BY <1>0 DEF Eds
  <1>2. t = Mounted(e, p, k) BY DEF Mounted
  <1> HIDE DEF u
  <1>3. Attached(u) /\ Keeps(e, u)
    <2>1. Attached(u) BY <1>1 DEF Good, Attached
    <2>2. \A q \in DOMAIN e.att : q \in Panes BY <1>0, EdParts
    <2>3. Keeps(e, u) BY <1>1, <2>2 DEF Keeps, OnShow, Has
    <2> QED BY <2>1, <2>3
  <1>4. Entered(u, {p}, t) BY <1>0, <1>1, <1>3, EffectsFacts
  <1> HIDE DEF t
  <1>5. Keeps(e, t) BY <1>3, <1>4, KeepsChain DEF Entered
  <1>6. ASSUME NEW q \in t.up PROVE t.shows[q] # None /\ On(t, q, t.shows[q])
    <2>1. q \in e.up \cup {p} /\ q \in Panes BY <1>0, <1>1, <1>4, <1>6, EdParts DEF Entered
    <2>2. CASE q = p BY <1>0, <1>1, <1>4, <2>1, <2>2 DEF Entered, On
    <2>3. CASE q # p BY <1>1, <1>4, <2>1, <2>3 DEF Entered, On, Good
    <2> QED BY <2>2, <2>3
  <1>7. ReadsShown(t, t.shows)
    <2>1. ASSUME NEW q \in Panes, t.rd[q].at \in {"load", "error"}
          PROVE  q \in t.up /\ t.shows[q] \in Paths /\ (t.rd[q].at = "load" => t.rd[q].k = t.shows[q])
      <3>1. CASE q = p
        <4>1. t.rd[p] = Idle \/ (k \in Paths /\ t.rd[p] = [at |-> "load", k |-> k])
          BY <1>1, <1>4 DEF Entered
        <4>2. t.shows[p] = k /\ p \in t.up BY <1>1, <1>4 DEF Entered
        <4>3. Idle.at = "idle" BY DEF Idle
        <4> QED BY <2>1, <3>1, <4>1, <4>2, <4>3
      <3>2. CASE q # p
        <4>1. t.rd[q] = e.rd[q] /\ t.shows[q] = e.shows[q] BY <1>1, <1>4, <3>2 DEF Entered
        <4>2. e.up \subseteq t.up BY <1>1, <1>4 DEF Entered
        <4> QED BY <2>1, <4>1, <4>2 DEF Good, ReadsShown
      <3> QED BY <3>1, <3>2
    <2> QED BY <2>1 DEF ReadsShown
  <1>8. t.ph = e.ph BY <1>1, <1>4 DEF Entered
  <1>9. Good(t) BY <1>4, <1>6, <1>7 DEF Good, Entered
  <1> QED BY <1>2, <1>5, <1>8, <1>9

\* What a handler leaves to the next rendering: old is what the panes showed.
Pending(e, old) ==
    /\ e \in Eds /\ Attached(e)
    /\ \A p \in e.up : old[p] # None /\ (e.shows[p] = old[p] => On(e, p, old[p]))
    /\ ReadsShown(e, old)

LEMMA SweepFacts ==
  ASSUME NEW e, e \in Eds, Attached(e), NEW ps, NEW old
  PROVE  LET t == CloseAndSweep(e, ps, old) IN
         /\ t \in Eds /\ Attached(t) /\ t.ousted = e.ousted /\ t.shows = e.shows /\ t.up = e.up
         /\ t.rd = e.rd /\ t.ph \subseteq e.ph
         /\ DOMAIN t.att = {p \in DOMAIN e.att : ~(p \in ps /\ e.att[p] = old[p])}
         /\ \A p \in DOMAIN t.att : t.att[p] = e.att[p]
         /\ \A k \in DOMAIN t.bufs : t.bufs[k] = e.bufs[k]
         /\ \A k \in DOMAIN e.bufs : ~Unreferenced(t.att, k) => k \in DOMAIN t.bufs
  <1> DEFINE c == closePaneState(e, ps, old)
             swept == {k \in e.ph \cap {old[p] : p \in ps} : Unreferenced(c.att, k)}
             ph == {q \in e.ph : \A k \in swept : ~isPathUnder(q, k)}
             sweeps == e.sweeps \cup {<<k, "stat">> : k \in swept}
             t == CloseAndSweep(e, ps, old)
  <1>1. /\ c \in Eds /\ Attached(c) /\ c.ousted = e.ousted /\ OnlyBuffers(e, c)
        /\ DOMAIN c.att = {p \in DOMAIN e.att : ~(p \in ps /\ e.att[p] = old[p])}
        /\ \A p \in DOMAIN c.att : c.att[p] = e.att[p]
        /\ \A k \in DOMAIN c.bufs : c.bufs[k] = e.bufs[k]
        /\ \A k \in DOMAIN e.bufs : ~Unreferenced(c.att, k) => k \in DOMAIN c.bufs
    BY CloseFacts
  <1>2. ph \in SUBSET Paths /\ ph \subseteq e.ph /\ sweeps \in SUBSET (Paths \X {"stat", "delete"})
    <2>1. e.ph \subseteq Paths /\ e.sweeps \subseteq Paths \X {"stat", "delete"} BY EdParts
    <2>2. swept \subseteq e.ph OBVIOUS
    <2> HIDE DEF swept
    <2>3. \A k \in swept : <<k, "stat">> \in Paths \X {"stat", "delete"} BY <2>1, <2>2
    <2> QED BY <2>1, <2>3
  <1>3. t = [c EXCEPT !.ph = ph, !.sweeps = sweeps] BY DEF CloseAndSweep
  <1> HIDE DEF c, ph, sweeps, swept
  <1>4. /\ t \in Eds /\ t.att = c.att /\ t.bufs = c.bufs /\ t.orphan = c.orphan /\ t.ousted = c.ousted
        /\ t.shows = c.shows /\ t.up = c.up /\ t.rd = c.rd /\ t.ph = ph
    BY <1>1, <1>2, <1>3 DEF Eds
  <1> HIDE DEF t
  <1>5. Attached(t) BY <1>1, <1>4 DEF Attached
  <1> QED BY <1>1, <1>2, <1>4, <1>5 DEF OnlyBuffers, t

LEMMA RerenderGood ==
  ASSUME NEW e, NEW old, Pending(e, old)
  PROVE  Good(Rerender(e, old)) /\ Keeps(e, Rerender(e, old)) /\ Rerender(e, old).ph \subseteq e.ph
  <1> DEFINE ps == {p \in e.up : e.shows[p] # old[p]}
             rd == [p \in Panes |-> IF p \in ps THEN Idle ELSE e.rd[p]]
             up == {p \in e.up : e.shows[p] # None}
             e1 == [e EXCEPT !.rd = rd, !.up = up]
             c == CloseAndSweep(e1, ps, old)
             in == ps \cap up
             t == Effects(c, in)
  <1>0. /\ e \in Eds /\ Attached(e) /\ ReadsShown(e, old)
        /\ \A p \in e.up : old[p] # None /\ (e.shows[p] = old[p] => On(e, p, old[p]))
        /\ e.up \subseteq Panes /\ \A p \in Panes : e.rd[p] \in Reads
    BY EdParts DEF Pending
  <1>1. rd \in [Panes -> Reads] /\ up \in SUBSET Panes
    <2>1. Idle \in Reads BY DEF Idle, Reads
    <2> QED BY <1>0, <2>1
  <1>2. /\ e1 \in Eds /\ e1.att = e.att /\ e1.bufs = e.bufs /\ e1.orphan = e.orphan /\ e1.ph = e.ph
        /\ e1.rd = rd /\ e1.ousted = e.ousted /\ e1.up = up /\ e1.shows = e.shows
    <2> HIDE DEF rd, up, ps
    <2> QED BY <1>0, <1>1 DEF Eds
  <1>3. Rerender(e, old) = t BY <1>2 DEF Rerender
  <1> HIDE DEF e1
  <1>4. Attached(e1) BY <1>0, <1>2 DEF Attached
  <1>5. /\ c \in Eds /\ Attached(c) /\ c.ousted = e.ousted /\ c.shows = e.shows /\ c.up = up
        /\ c.rd = rd /\ c.ph \subseteq e.ph
        /\ DOMAIN c.att = {p \in DOMAIN e.att : ~(p \in ps /\ e.att[p] = old[p])}
        /\ \A p \in DOMAIN c.att : c.att[p] = e.att[p]
        /\ \A k \in DOMAIN c.bufs : c.bufs[k] = e.bufs[k]
        /\ \A k \in DOMAIN e.bufs : ~Unreferenced(c.att, k) => k \in DOMAIN c.bufs
    BY <1>2, <1>4, SweepFacts
  <1> HIDE DEF c
  <1>6. Keeps(e, c)
    <2>1. ASSUME NEW k \in DOMAIN e.bufs, OnShow(e, k)
          PROVE  k \in DOMAIN c.bufs /\ OnShow(c, k) /\ c.bufs[k].c = e.bufs[k].c
      <3>1. PICK p \in DOMAIN e.att : e.att[p] = k /\ e.shows[p] = k BY <2>1 DEF OnShow
      <3>2. p \in DOMAIN c.att /\ c.att[p] = k BY <1>5, <3>1
      <3>3. k \in DOMAIN c.bufs BY <1>5, <3>2 DEF Unreferenced
      <3> QED BY <1>5, <3>1, <3>2, <3>3 DEF OnShow, Has
    <2> QED BY <2>1 DEF Keeps
  <1>7. in \in SUBSET Panes /\ \A p \in in : c.shows[p] # None BY <1>0, <1>5
  <1>8. Entered(c, in, t)
    <2> HIDE DEF in
    <2> QED BY <1>5, <1>7, EffectsFacts
  <1> HIDE DEF t
  <1>9. ASSUME NEW p \in t.up PROVE t.shows[p] # None /\ On(t, p, t.shows[p])
    <2>0. p \in up /\ t.shows[p] = e.shows[p] /\ p \in e.up BY <1>5, <1>8, <1>9 DEF Entered
    <2>1. CASE p \in in
      <3>1. p \in DOMAIN t.att /\ t.att[p] = c.shows[p] BY <1>8, <2>1 DEF Entered
      <3> QED BY <1>5, <2>0, <3>1 DEF On
    <2>2. CASE p \notin in
      <3>1. p \notin ps /\ e.shows[p] = old[p] BY <2>0, <2>2
      <3>2. On(e, p, old[p]) BY <1>0, <2>0, <3>1
      <3>3. CASE p \in DOMAIN e.att
        <4>1. p \in DOMAIN c.att /\ c.att[p] = e.att[p] BY <1>5, <3>1, <3>3
        <4>2. p \in DOMAIN t.att /\ t.att[p] = e.att[p] BY <1>8, <2>2, <4>1 DEF Entered
        <4> QED BY <2>0, <3>1, <3>2, <3>3, <4>2 DEF On
      <3>4. CASE p \notin DOMAIN e.att
        <4>1. p \notin DOMAIN t.att /\ p \in t.ousted
          BY <1>5, <1>8, <2>2, <3>2, <3>4 DEF Entered, On
        <4> QED BY <2>0, <4>1 DEF On
      <3> QED BY <3>3, <3>4
    <2> QED BY <2>1, <2>2
  <1>10. ReadsShown(t, t.shows)
    <2>1. ASSUME NEW q \in Panes, t.rd[q].at \in {"load", "error"}
          PROVE  q \in t.up /\ t.shows[q] \in Paths /\ (t.rd[q].at = "load" => t.rd[q].k = t.shows[q])
      <3>0. Idle.at = "idle" BY DEF Idle
      <3>1. CASE q \in in
        <4>1. t.rd[q] = Idle \/ (c.shows[q] \in Paths /\ t.rd[q] = [at |-> "load", k |-> c.shows[q]])
          BY <1>8, <3>1 DEF Entered
        <4>2. t.shows[q] = c.shows[q] /\ q \in t.up BY <1>5, <1>8, <3>1 DEF Entered
        <4> QED BY <2>1, <3>0, <4>1, <4>2
      <3>2. CASE q \notin in
        <4>1. t.rd[q] = rd[q] /\ t.shows[q] = e.shows[q] /\ t.up = up BY <1>5, <1>8, <3>2 DEF Entered
        <4>2. q \notin ps /\ t.rd[q] = e.rd[q] BY <2>1, <3>0, <4>1
        <4>3. /\ q \in e.up /\ old[q] \in Paths
              /\ (e.rd[q].at = "load" => e.rd[q].k = old[q])
          BY <1>0, <2>1, <4>2 DEF ReadsShown
        <4>4. e.shows[q] = old[q] /\ q \in up BY <1>0, <4>2, <4>3
        <4> QED BY <4>1, <4>2, <4>3, <4>4
      <3> QED BY <3>1, <3>2
    <2> QED BY <2>1 DEF ReadsShown
  <1>11. Good(t) BY <1>8, <1>9, <1>10 DEF Good, Entered
  <1>12. Keeps(e, t) /\ t.ph \subseteq e.ph BY <1>5, <1>6, <1>8, KeepsChain DEF Entered
  <1> QED BY <1>3, <1>11, <1>12

LEMMA RemapSelf ==
  ASSUME NEW from \in Seq(Names), NEW to \in Seq(Names)
  PROVE  isPathUnder(from, from) /\ Remap(from, from, to) = to
  <1> DEFINE r == Remap(from, from, to)
  <1>0. Len(from) \in Nat /\ Len(to) \in Nat OBVIOUS
  <1>1. isPathUnder(from, from) BY UnderFacts
  <1>2. r \in Seq(Names) /\ Len(r) = Len(to) + Len(from) - Len(from) /\ \A i \in 1..Len(to) : r[i] = to[i]
    BY <1>1, RemapFacts
  <1> HIDE DEF r
  <1>3. Len(r) = Len(to) BY <1>0, <1>2
  <1>4. r = to BY <1>2, <1>3, SeqEqual
  <1> QED BY <1>1, <1>4 DEF r

\* The panes show and hold the same paths.
SamePanes(e, t) ==
    /\ t \in Eds /\ t.att = e.att /\ DOMAIN t.bufs = DOMAIN e.bufs /\ t.orphan = e.orphan
    /\ t.shows = e.shows /\ t.up = e.up /\ t.ousted = e.ousted

LEMMA SamePanesFacts ==
  ASSUME NEW e, NEW t, SamePanes(e, t)
  PROVE  /\ Good(e) /\ ReadsShown(t, t.shows) => Good(t)
         /\ Good(e) /\ t.rd = e.rd => Good(t)
         /\ \A old : Pending(e, old) /\ t.rd = e.rd => Pending(t, old)
         /\ (\A k \in DOMAIN e.bufs : t.bufs[k].c = e.bufs[k].c) => Keeps(e, t)
  <1>1. Attached(e) => Attached(t) BY DEF SamePanes, Attached
  <1>2. \A p, k : On(e, p, k) <=> On(t, p, k) BY DEF SamePanes, On
  <1>3. \A old : t.rd = e.rd => (ReadsShown(e, old) <=> ReadsShown(t, old)) BY DEF SamePanes, ReadsShown
  <1>4. Good(e) /\ ReadsShown(t, t.shows) => Good(t) BY <1>1, <1>2 DEF SamePanes, Good
  <1>5. Good(e) /\ t.rd = e.rd => Good(t) BY <1>3, <1>4 DEF SamePanes, Good
  <1>6. \A old : Pending(e, old) /\ t.rd = e.rd => Pending(t, old)
    BY <1>1, <1>2, <1>3 DEF SamePanes, Pending
  <1>7. (\A k \in DOMAIN e.bufs : t.bufs[k].c = e.bufs[k].c) => Keeps(e, t)
    BY DEF SamePanes, Keeps, OnShow, Has
  <1> QED BY <1>4, <1>5, <1>6, <1>7

LEMMA PhFacts ==
  ASSUME NEW e \in Eds, NEW P \in SUBSET Paths
  PROVE  LET t == [e EXCEPT !.ph = P] IN
         /\ SamePanes(e, t) /\ t.rd = e.rd /\ t.bufs = e.bufs /\ t.ph = P
         /\ t.lock = e.lock /\ t.sweeps = e.sweeps /\ Keeps(e, t)
  <1> DEFINE t == [e EXCEPT !.ph = P]
  <1>1. SamePanes(e, t) /\ t.rd = e.rd /\ t.bufs = e.bufs /\ t.ph = P /\ t.lock = e.lock /\ t.sweeps = e.sweeps
    BY DEF Eds, SamePanes
  <1> HIDE DEF t
  <1> QED BY <1>1, SamePanesFacts DEF t

\* A registration ends.
Unregistered(e, k, t) ==
    /\ SamePanes(e, t) /\ t.rd = e.rd /\ t.bufs = e.bufs /\ Keeps(e, t)
    /\ t.ph = {q \in e.ph : ~isPathUnder(q, k)}

LEMMA UnregisterFacts ==
  ASSUME NEW e \in Eds, NEW k
  PROVE  Unregistered(e, k, unregister(e, k))
  <1> DEFINE P == {q \in e.ph : ~isPathUnder(q, k)}
  <1>1. P \in SUBSET Paths BY EdParts
  <1>2. unregister(e, k) = [e EXCEPT !.ph = P] BY DEF unregister
  <1> HIDE DEF P
  <1>3. Unregistered(e, k, [e EXCEPT !.ph = P]) <=> Unregistered(e, k, unregister(e, k)) BY <1>2
  <1>4. /\ SamePanes(e, unregister(e, k)) /\ unregister(e, k).rd = e.rd /\ unregister(e, k).bufs = e.bufs
        /\ unregister(e, k).ph = P /\ Keeps(e, unregister(e, k))
    BY <1>1, <1>2, PhFacts
  <1> QED BY <1>4 DEF Unregistered, P

\* The panes of the paths ks and their buffers move from "from" to "to".
MovedAway(e, ks, from, to) == renameBuffer(renameEditorPanes(e, ks, from, to), ks, from, to)

LEMMA MoveGood ==
  ASSUME NEW e, Good(e), NEW ks \in SUBSET AllPaths, NEW from \in Seq(Names), NEW to \in Seq(Names),
         \A x \in ks : x \in Seq(Names) /\ isPathUnder(x, from) /\ Remap(x, from, to) \in AllPaths
  PROVE  LET t == MovedAway(e, ks, from, to) IN
         /\ Pending(t, e.shows) /\ t.ph = e.ph
         /\ \A k \in DOMAIN e.bufs : OnShow(e, k) =>
               \/ \E x \in ks \cap DOMAIN e.bufs : Remap(x, from, to) = k
               \/ \E x \in DOMAIN t.bufs : OnShow(t, x) /\ t.bufs[x].c = e.bufs[k].c
         /\ \A k \in ks \cap DOMAIN e.bufs : Remap(k, from, to) \in DOMAIN t.bufs
  <1> DEFINE moved == ks \cap DOMAIN e.bufs
             new == {Remap(k, from, to) : k \in moved}
             D == (DOMAIN e.bufs \ moved) \cup new
             bufs == [k \in D |-> IF k \in new THEN e.bufs[Remap(k, to, from)] ELSE e.bufs[k]]
             att == [p \in DOMAIN e.att |-> IF e.att[p] \in moved THEN Remap(e.att[p], from, to) ELSE e.att[p]]
             orphan == {IF k \in moved THEN Remap(k, from, to) ELSE k : k \in e.orphan}
             shows == [p \in Panes |-> IF e.shows[p] \in ks THEN Remap(e.shows[p], from, to) ELSE e.shows[p]]
             m == [e EXCEPT !.shows = shows]
             t == MovedAway(e, ks, from, to)
  <1>0. /\ e \in Eds /\ Attached(e) /\ ReadsShown(e, e.shows)
        /\ \A p \in e.up : e.shows[p] # None /\ On(e, p, e.shows[p])
        /\ DOMAIN e.bufs \subseteq AllPaths /\ \A k \in DOMAIN e.bufs : e.bufs[k] \in Bufs
        /\ DOMAIN e.att \subseteq Panes /\ \A p \in DOMAIN e.att : e.att[p] \in AllPaths
        /\ \A p \in Panes : e.shows[p] \in AllPaths \cup {None}
        /\ e.up \subseteq Panes
    BY EdParts DEF Good
  <1>1. \A x \in ks : Remap(x, from, to) \in AllPaths /\ Remap(Remap(x, from, to), to, from) = x
    <2>1. ASSUME NEW x \in ks PROVE Remap(Remap(x, from, to), to, from) = x
      <3>1. x \in Seq(Names) /\ isPathUnder(x, from) OBVIOUS
      <3> QED BY <3>1, RemapFacts
    <2> QED BY <2>1
  <1>2. bufs \in Maps(AllPaths, Bufs)
    <2>1. D \in SUBSET AllPaths BY <1>0, <1>1
    <2>2. bufs \in [D -> Bufs] BY <1>0, <1>1
    <2> QED BY <2>1, <2>2 DEF Maps
  <1>3. att \in Maps(Panes, AllPaths)
    <2>1. att \in [DOMAIN e.att -> AllPaths] BY <1>0, <1>1
    <2> QED BY <1>0, <2>1 DEF Maps
  <1>4. shows \in [Panes -> AllPaths \cup {None}] BY <1>0, <1>1
  <1>5. \A k \in moved : /\ Remap(k, from, to) \in DOMAIN bufs
                         /\ bufs[Remap(k, from, to)] = e.bufs[k]
    BY <1>1
  <1>6. \A k \in (DOMAIN e.bufs \ moved) \ new : k \in DOMAIN bufs /\ bufs[k] = e.bufs[k] OBVIOUS
  <1>7. DOMAIN att = DOMAIN e.att
        /\ \A p \in DOMAIN e.att : att[p] = IF e.att[p] \in moved THEN Remap(e.att[p], from, to) ELSE e.att[p]
    OBVIOUS
  <1>8. \A p \in Panes : shows[p] = IF e.shows[p] \in ks THEN Remap(e.shows[p], from, to) ELSE e.shows[p] OBVIOUS
  <1>9. DOMAIN bufs = (DOMAIN e.bufs \ moved) \cup new OBVIOUS
  <1>10. m \in Eds /\ m.bufs = e.bufs /\ m.att = e.att /\ m.orphan = e.orphan
    <2> HIDE DEF shows
    <2> QED BY <1>0, <1>4 DEF Eds
  <1>11. t = [m EXCEPT !.bufs = bufs, !.att = att, !.orphan = orphan]
    <2>1. renameEditorPanes(e, ks, from, to) = m BY DEF renameEditorPanes
    <2> HIDE DEF m
    <2> QED BY <1>10, <2>1 DEF MovedAway, renameBuffer
  <1>11a. orphan \subseteq AllPaths BY <1>0, <1>1, EdParts
  <1>11b. \A k \in e.orphan : IF k \in moved THEN Remap(k, from, to) \in orphan ELSE k \in orphan OBVIOUS
  <1> HIDE DEF bufs, att, shows, t, D, orphan
  <1>12. /\ t \in Eds /\ t.bufs = bufs /\ t.att = att /\ t.shows = shows /\ t.up = e.up /\ t.ph = e.ph
         /\ t.rd = e.rd /\ t.orphan = orphan /\ t.ousted = e.ousted
    BY <1>0, <1>2, <1>3, <1>4, <1>10, <1>11, <1>11a DEF Eds, m
  <1> HIDE DEF m
  <1>13. Attached(t)
    <2>1. ASSUME NEW k \in DOMAIN bufs, k \notin orphan PROVE \E p \in DOMAIN att : att[p] = k
      <3>1. CASE k \in new
        <4>1. PICK x \in moved : k = Remap(x, from, to) BY <3>1
        <4>2. PICK p \in DOMAIN e.att : e.att[p] = x BY <1>0, <1>11b, <2>1, <4>1 DEF Attached
        <4> QED BY <1>7, <4>1, <4>2
      <3>2. CASE k \notin new
        <4>1. k \in DOMAIN e.bufs /\ k \notin moved BY <1>9, <2>1, <3>2
        <4>2. PICK p \in DOMAIN e.att : e.att[p] = k BY <1>0, <1>11b, <2>1, <4>1 DEF Attached
        <4> QED BY <1>7, <4>1, <4>2
      <3> QED BY <3>1, <3>2
    <2> QED BY <1>12, <2>1 DEF Attached
  <1>14. ASSUME NEW p \in t.up PROVE e.shows[p] # None /\ (t.shows[p] = e.shows[p] => On(t, p, e.shows[p]))
    <2>1. p \in Panes /\ p \in e.up /\ e.shows[p] # None /\ On(e, p, e.shows[p]) BY <1>0, <1>12, <1>14
    <2>2. ASSUME t.shows[p] = e.shows[p] PROVE On(t, p, e.shows[p])
      <3>1. CASE p \in DOMAIN e.att
        <4>1. e.att[p] = e.shows[p] BY <2>1, <3>1 DEF On
        <4>2. att[p] = e.shows[p]
          <5>1. CASE e.shows[p] \in moved BY <1>7, <1>8, <1>12, <2>1, <2>2, <3>1, <4>1, <5>1
          <5>2. CASE e.shows[p] \notin moved BY <1>7, <3>1, <4>1, <5>2
          <5> QED BY <5>1, <5>2
        <4> QED BY <1>7, <1>12, <3>1, <4>2 DEF On
      <3>2. CASE p \notin DOMAIN e.att BY <1>7, <1>12, <2>1, <3>2 DEF On
      <3> QED BY <3>1, <3>2
    <2> QED BY <2>1, <2>2
  <1>15. ReadsShown(t, e.shows) BY <1>0, <1>12 DEF ReadsShown
  <1>16. Pending(t, e.shows) BY <1>12, <1>13, <1>14, <1>15 DEF Pending
  <1>17. ASSUME NEW k \in DOMAIN e.bufs, OnShow(e, k), k \notin new
         PROVE  \E x \in DOMAIN t.bufs : OnShow(t, x) /\ t.bufs[x].c = e.bufs[k].c
    <2>1. PICK p \in DOMAIN e.att : e.att[p] = k /\ e.shows[p] = k BY <1>17 DEF OnShow
    <2>2. p \in Panes BY <1>0, <2>1
    <2>3. CASE k \in moved
      <3> DEFINE x == Remap(k, from, to)
      <3>1. x \in DOMAIN t.bufs /\ t.bufs[x] = e.bufs[k] BY <1>5, <1>12, <2>3
      <3>2. p \in DOMAIN t.att /\ t.att[p] = x /\ t.shows[p] = x BY <1>7, <1>8, <1>12, <2>1, <2>2, <2>3
      <3>3. OnShow(t, x) BY <3>1, <3>2 DEF OnShow, Has
      <3> QED BY <3>1, <3>3
    <2>4. CASE k \notin moved
      <3>1. k \in DOMAIN t.bufs /\ t.bufs[k] = e.bufs[k] BY <1>6, <1>12, <1>17, <2>4
      <3>2. p \in DOMAIN t.att /\ t.att[p] = k /\ t.shows[p] = k BY <1>7, <1>8, <1>12, <2>1, <2>2, <2>4
      <3>3. OnShow(t, k) BY <3>1, <3>2 DEF OnShow, Has
      <3> QED BY <3>1, <3>3
    <2> QED BY <2>3, <2>4
  <1> QED BY <1>5, <1>12, <1>16, <1>17 DEF t

LEMMA BufFacts ==
  ASSUME NEW e \in Eds, NEW k \in DOMAIN e.bufs, NEW v \in Bufs
  PROVE  LET t == [e EXCEPT !.bufs[k] = v] IN
         /\ SamePanes(e, t) /\ t.rd = e.rd /\ t.ph = e.ph
         /\ \A x \in DOMAIN e.bufs : t.bufs[x] = IF x = k THEN v ELSE e.bufs[x]
  <1> DEFINE bufs == [e.bufs EXCEPT ![k] = v]
             t == [e EXCEPT !.bufs = bufs]
  <1>1. bufs \in Maps(AllPaths, Bufs) /\ DOMAIN bufs = DOMAIN e.bufs
        /\ \A x \in DOMAIN e.bufs : bufs[x] = IF x = k THEN v ELSE e.bufs[x]
    <2>1. DOMAIN e.bufs \in SUBSET AllPaths /\ bufs \in [DOMAIN e.bufs -> Bufs]
      <3>1. e.bufs \in [DOMAIN e.bufs -> Bufs]
        <4>1. e.bufs \in Maps(AllPaths, Bufs) BY DEF Eds
        <4> QED BY <4>1 DEF Maps
      <3> QED BY <3>1, EdParts
    <2> QED BY <2>1 DEF Maps
  <1> HIDE DEF bufs
  <1>2. SamePanes(e, t) /\ t.rd = e.rd /\ t.ph = e.ph /\ t.bufs = bufs BY <1>1 DEF Eds, SamePanes
  <1>3. [e EXCEPT !.bufs[k] = v] = t BY DEF bufs
  <1> QED BY <1>1, <1>2, <1>3

LEMMA RdFacts ==
  ASSUME NEW e \in Eds, NEW p \in Panes, NEW v \in Reads
  PROVE  LET t == [e EXCEPT !.rd[p] = v] IN
         /\ SamePanes(e, t) /\ t.bufs = e.bufs /\ t.ph = e.ph /\ Keeps(e, t)
         /\ \A x \in Panes : t.rd[x] = IF x = p THEN v ELSE e.rd[x]
         /\ (Good(e) /\ v.at \notin {"load", "error"} => Good(t))
  <1> DEFINE t == [e EXCEPT !.rd[p] = v]
  <1>1. /\ SamePanes(e, t) /\ t.bufs = e.bufs /\ t.ph = e.ph
        /\ \A x \in Panes : t.rd[x] = IF x = p THEN v ELSE e.rd[x]
    BY DEF Eds, SamePanes
  <1> HIDE DEF t
  <1>2. Keeps(e, t) BY <1>1, SamePanesFacts
  <1>3. ASSUME Good(e), v.at \notin {"load", "error"} PROVE Good(t)
    <2>1. ReadsShown(t, t.shows)
      <3>1. ReadsShown(e, e.shows) BY <1>3 DEF Good
      <3> QED BY <1>1, <1>3, <3>1 DEF ReadsShown, SamePanes
    <2> QED BY <1>1, <1>3, <2>1, SamePanesFacts
  <1> QED BY <1>1, <1>2, <1>3 DEF t

-----------------------------------------------------------------------------
(* One lemma for each step of the editors.                                 *)

\* Unsaved edits stay on show, but for what the user or a move does.
Kept ==
    \A k \in DOMAIN ed.bufs : OnShow(ed, k) /\ Dirty(ed.bufs[k]) =>
        \/ \E x \in DOMAIN ed'.bufs : OnShow(ed', x) /\ ed'.bufs[x].c = ed.bufs[k].c
        \/ Consent \/ NameTaken(k)

EditFine == EditInv' /\ (fs' = fs \/ Raised(fs, fs')) /\ Kept

LEMMA KeepsKept ==
  ASSUME Keeps(ed, ed') \/ Consent
  PROVE  Kept
  <1>1. CASE Consent BY <1>1 DEF Kept
  <1>2. CASE Keeps(ed, ed') BY <1>2 DEF Kept, Keeps
  <1> QED BY <1>1, <1>2

LEMMA FewerUntouched ==
  ASSUME NEW s, NEW ph, NEW P \in SUBSET ph, Untouched(s, ph)
  PROVE  Untouched(s, P)
  BY DEF Untouched

\* The store stays as it is.
LEMMA EdStep ==
  ASSUME EditInv, Good(ed'), ed'.ph \subseteq ed.ph, Kept, fs' = fs,
         save' \in [Panes -> Saves], del' \in Dels
  PROVE  EditFine
  BY FewerUntouched DEF EditFine, EditInv

LEMMA FsStep ==
  ASSUME EditInv, Good(ed'), Kept, FsOK(fs'), Raised(fs, fs'), Untouched(fs', ed'.ph),
         save' \in [Panes -> Saves], del' \in Dels
  PROVE  EditFine
  BY DEF EditFine, EditInv

LEMMA MountFine ==
  ASSUME EditInv, NEW p \in Panes, NEW k,
         openInAppFile(p, k) \/ RestoreUntitled(p, k) \/ Mount(p)
  PROVE  EditFine
  <1>0. ed \in Eds /\ Good(ed) /\ FsOK(fs) BY DEF EditInv, Good
  <1> DEFINE x == IF Mount(p) THEN ed.shows[p] ELSE k
  <1>1. x \in AllPaths /\ (p \notin DOMAIN ed.att \/ ed.shows[p] = x) /\ ed' = Mounted(ed, p, x)
    <2>1. CASE Mount(p)
      <3>1. ed.shows[p] \in AllPaths BY <1>0, <2>1, EdParts DEF Mount
      <3> QED BY <2>1, <3>1 DEF Mount
    <2>2. CASE ~Mount(p) /\ openInAppFile(p, k)
      <3>1. k \in Paths BY <1>0, <2>2, FsParts DEF openInAppFile, IsFile, Exists
      <3> QED BY <2>2, <3>1 DEF openInAppFile, AllPaths
    <2>3. CASE ~Mount(p) /\ RestoreUntitled(p, k) BY <2>3 DEF RestoreUntitled, AllPaths
    <2> QED BY <2>1, <2>2, <2>3
  <1>2. UNCHANGED <<fs, save, del>> BY DEF openInAppFile, RestoreUntitled, Mount
  <1> HIDE DEF x
  <1>3. Good(Mounted(ed, p, x)) /\ Keeps(ed, Mounted(ed, p, x)) /\ Mounted(ed, p, x).ph = ed.ph
    BY <1>0, <1>1, MountedGood
  <1>4. Good(ed') /\ Keeps(ed, ed') /\ ed'.ph = ed.ph BY <1>1, <1>3
  <1> QED BY <1>2, <1>4, KeepsKept, EdStep DEF EditInv

LEMMA UnmountFine ==
  ASSUME EditInv, NEW p \in Panes, Unmount(p)
  PROVE  EditFine
  <1>0. ed \in Eds /\ Good(ed) BY DEF EditInv, Good
  <1>1. Idle \in Reads /\ Idle.at = "idle" BY DEF Idle, Reads
  <1>2. ed' = [ed EXCEPT !.up = ed.up \ {p}, !.rd[p] = Idle] /\ UNCHANGED <<fs, save, del>> BY DEF Unmount
  <1>3. /\ ed' \in Eds /\ ed'.att = ed.att /\ ed'.bufs = ed.bufs /\ ed'.orphan = ed.orphan
        /\ ed'.shows = ed.shows /\ ed'.up = ed.up \ {p} /\ ed'.ousted = ed.ousted /\ ed'.ph = ed.ph
        /\ \A x \in Panes : ed'.rd[x] = IF x = p THEN Idle ELSE ed.rd[x]
    BY <1>0, <1>1, <1>2 DEF Eds
  <1>4. Attached(ed') BY <1>0, <1>3 DEF Good, Attached
  <1>5. \A q \in ed'.up : ed'.shows[q] # None /\ On(ed', q, ed'.shows[q]) BY <1>0, <1>3 DEF Good, On
  <1>6. ReadsShown(ed', ed'.shows)
    <2>1. ReadsShown(ed, ed.shows) BY <1>0 DEF Good
    <2> QED BY <1>1, <1>3, <2>1 DEF ReadsShown
  <1>7. Good(ed') BY <1>3, <1>4, <1>5, <1>6 DEF Good
  <1>8. Keeps(ed, ed') BY <1>3 DEF Keeps, OnShow, Has
  <1> QED BY <1>2, <1>3, <1>7, <1>8, KeepsKept, EdStep DEF EditInv

LEMMA LockFine ==
  ASSUME EditInv, NEW p \in Panes, ToggleLock(p)
  PROVE  EditFine
  <1>0. ed \in Eds /\ Good(ed) BY DEF EditInv, Good
  <1> DEFINE lock == IF p \in ed.lock THEN ed.lock \ {p} ELSE ed.lock \cup {p}
  <1>1. ed' = [ed EXCEPT !.lock = lock] /\ UNCHANGED <<fs, save, del>> BY DEF ToggleLock
  <1>2. lock \in SUBSET Panes BY <1>0, EdParts
  <1> HIDE DEF lock
  <1>3. SamePanes(ed, ed') /\ ed'.rd = ed.rd /\ ed'.bufs = ed.bufs /\ ed'.ph = ed.ph
    BY <1>0, <1>1, <1>2 DEF Eds, SamePanes
  <1>4. Good(ed') /\ Keeps(ed, ed') BY <1>0, <1>3, SamePanesFacts
  <1> QED BY <1>1, <1>3, <1>4, KeepsKept, EdStep DEF EditInv

LEMMA TypeFine ==
  ASSUME EditInv, NEW p \in Panes, NEW c \in Contents, Type(p, c)
  PROVE  EditFine
  <1>0. ed \in Eds /\ Good(ed) BY DEF EditInv, Good
  <1> DEFINE k == ed.shows[p]
             v == [ed.bufs[k] EXCEPT !.c = c]
  <1>1. k \in DOMAIN ed.bufs /\ ed' = [ed EXCEPT !.bufs[k] = v] /\ UNCHANGED <<fs, save, del>>
    BY DEF Type, updateContent, Has
  <1>2. v \in Bufs
    <2>1. ed.bufs[k] \in Bufs BY <1>0, <1>1, EdParts
    <2> QED BY <2>1 DEF Bufs
  <1> HIDE DEF v, k
  <1>3. SamePanes(ed, ed') /\ ed'.rd = ed.rd /\ ed'.ph = ed.ph BY <1>0, <1>1, <1>2, BufFacts
  <1>4. Good(ed') BY <1>0, <1>3, SamePanesFacts
  <1>5. Consent BY DEF Consent
  <1> QED BY <1>1, <1>3, <1>4, <1>5, KeepsKept, EdStep DEF EditInv

\* A file's entry as a buffer.
LEMMA FileBuffer ==
  ASSUME FsOK(fs), NEW k, IsFile(fs, k), NEW m \in 0..MaxRev
  PROVE  /\ k \in Paths /\ fs.files[k].m \in 0..MaxRev
         /\ [c |-> fs.files[k].c, saved |-> fs.files[k].c, m |-> m] \in Bufs
  <1>1. k \in DOMAIN fs.files /\ k \in Paths BY FsParts DEF IsFile, Exists
  <1>2. fs.files[k] \in Files BY <1>1, FsParts
  <1> QED BY <1>1, <1>2 DEF Files, Bufs

LEMMA LoadDoneFine ==
  ASSUME EditInv, NEW p \in Panes, LoadDone(p)
  PROVE  EditFine
  <1>0. ed \in Eds /\ Good(ed) /\ FsOK(fs) BY DEF EditInv, Good
  <1> DEFINE k == ed.rd[p].k
             v == [c |-> fs.files[k].c, saved |-> fs.files[k].c, m |-> fs.files[k].m]
             bufs == [x \in DOMAIN ed.bufs \cup {k} |-> IF x = k THEN v ELSE ed.bufs[x]]
             u == openBuffer(ed, k, fs.files[k].c, fs.files[k].m)
             o == IF p \in DOMAIN ed.att THEN ed.orphan ELSE ed.orphan \cup {k}
  <1>1. /\ ed.rd[p].at = "load" /\ IsFile(fs, k) /\ UNCHANGED <<fs, save, del>>
        /\ ed' = [u EXCEPT !.rd[p] = Idle, !.orphan = o]
    BY DEF LoadDone
  <1>2. k \in Paths /\ v \in Bufs
    <2>1. fs.files[k].m \in 0..MaxRev
      <3>1. k \in DOMAIN fs.files /\ fs.files[k] \in Files BY <1>0, <1>1, FsParts DEF IsFile, Exists
      <3> QED BY <3>1 DEF Files
    <2> QED BY <1>0, <1>1, <2>1, FileBuffer
  <1>3. p \in ed.up /\ ed.shows[p] = k /\ On(ed, p, k) BY <1>0, <1>1 DEF Good, ReadsShown
  <1>4. o \subseteq AllPaths BY <1>0, <1>2, EdParts DEF AllPaths
  <1>5. Idle \in Reads /\ Idle.at = "idle" BY DEF Idle, Reads
  <1>6. /\ u \in Eds /\ u.att = ed.att /\ u.shows = ed.shows /\ u.up = ed.up /\ u.ousted = ed.ousted
        /\ u.ph = ed.ph /\ u.rd = ed.rd /\ DOMAIN ed.bufs \subseteq DOMAIN u.bufs
        /\ DOMAIN u.bufs \subseteq DOMAIN ed.bufs \cup {k}
        /\ \A x \in DOMAIN ed.bufs : u.bufs[x] = ed.bufs[x]
    <2>1. CASE Has(ed, k) BY <1>0, <2>1 DEF openBuffer
    <2>2. CASE ~Has(ed, k)
      <3>1. bufs \in Maps(AllPaths, Bufs)
        <4>1. DOMAIN ed.bufs \cup {k} \in SUBSET AllPaths BY <1>0, <1>2, EdParts DEF AllPaths
        <4>2. bufs \in [DOMAIN ed.bufs \cup {k} -> Bufs] BY <1>0, <1>2, EdParts
        <4> QED BY <4>1, <4>2 DEF Maps
      <3>2. /\ DOMAIN bufs = DOMAIN ed.bufs \cup {k}
            /\ \A x \in DOMAIN ed.bufs : bufs[x] = ed.bufs[x]
        BY <2>2 DEF Has
      <3>3. u = [ed EXCEPT !.bufs = bufs] BY <2>2 DEF openBuffer, With
      <3> HIDE DEF bufs, u
      <3> QED BY <1>0, <3>1, <3>2, <3>3 DEF Eds
    <2> QED BY <2>1, <2>2
  <1> HIDE DEF u, v, bufs, o, k
  <1>7. /\ ed' \in Eds /\ ed'.att = ed.att /\ ed'.shows = ed.shows /\ ed'.up = ed.up
        /\ ed'.ousted = ed.ousted /\ ed'.ph = ed.ph /\ ed'.bufs = u.bufs /\ ed'.orphan = o
        /\ \A x \in Panes : ed'.rd[x] = IF x = p THEN Idle ELSE ed.rd[x]
    BY <1>1, <1>4, <1>5, <1>6 DEF Eds
  <1>8. Attached(ed')
    <2>1. CASE p \in DOMAIN ed.att
      <3>1. ed.att[p] = k BY <1>3, <2>1 DEF On
      <3>2. o = ed.orphan BY <2>1 DEF o
      <3>3. ASSUME NEW x \in DOMAIN u.bufs, x \notin ed.orphan PROVE \E q \in DOMAIN ed.att : ed.att[q] = x
        <4>1. x \in DOMAIN ed.bufs \/ x = k BY <1>6, <3>3
        <4> QED BY <1>0, <2>1, <3>1, <3>3, <4>1 DEF Good, Attached
      <3> QED BY <1>7, <3>2, <3>3 DEF Attached
    <2>2. CASE p \notin DOMAIN ed.att BY <1>0, <1>6, <1>7, <2>2 DEF Good, Attached, o
    <2> QED BY <2>1, <2>2
  <1>9. \A q \in ed'.up : ed'.shows[q] # None /\ On(ed', q, ed'.shows[q]) BY <1>0, <1>7 DEF Good, On
  <1>10. ReadsShown(ed', ed'.shows)
    <2>1. ReadsShown(ed, ed.shows) BY <1>0 DEF Good
    <2> QED BY <1>5, <1>7, <2>1 DEF ReadsShown
  <1>11. Good(ed') BY <1>7, <1>8, <1>9, <1>10 DEF Good
  <1>12. Keeps(ed, ed') BY <1>6, <1>7 DEF Keeps, OnShow, Has
  <1> QED BY <1>1, <1>7, <1>11, <1>12, KeepsKept, EdStep DEF EditInv

LEMMA LoadFailsFine ==
  ASSUME EditInv, NEW p \in Panes, LoadFails(p)
  PROVE  EditFine
  <1>0. ed \in Eds /\ Good(ed) BY DEF EditInv, Good
  <1> DEFINE v == [at |-> "error"]
  <1>1. ed.rd[p].at = "load" /\ ed' = [ed EXCEPT !.rd[p] = v] /\ UNCHANGED <<fs, save, del>>
    BY DEF LoadFails
  <1>2. v \in Reads /\ v.at = "error" BY DEF Reads
  <1> HIDE DEF v
  <1>3. /\ SamePanes(ed, ed') /\ ed'.bufs = ed.bufs /\ ed'.ph = ed.ph /\ Keeps(ed, ed')
        /\ \A x \in Panes : ed'.rd[x] = IF x = p THEN v ELSE ed.rd[x]
    BY <1>0, <1>1, <1>2, RdFacts
  <1>4. ReadsShown(ed', ed'.shows)
    <2>1. ReadsShown(ed, ed.shows) BY <1>0 DEF Good
    <2> QED BY <1>1, <1>2, <1>3, <2>1 DEF ReadsShown, SamePanes
  <1>5. Good(ed') BY <1>0, <1>3, <1>4, SamePanesFacts
  <1> QED BY <1>1, <1>3, <1>5, KeepsKept, EdStep DEF EditInv

LEMMA RetryFine ==
  ASSUME EditInv, NEW p \in Panes, retryLoad(p)
  PROVE  EditFine
  <1>0. ed \in Eds /\ Good(ed) BY DEF EditInv, Good
  <1>1. /\ ed.rd[p].at = "error" /\ p \in ed.up /\ ed' = LoadEffect(ed, {p})
        /\ UNCHANGED <<fs, save, del>>
    BY DEF retryLoad
  <1>2. ed.shows[p] \in Paths BY <1>0, <1>1 DEF Good, ReadsShown
  <1>3. Loaded(ed, {p}, ed')
    <2>1. \A q \in {p} : ed.shows[q] # None BY <1>0, <1>1 DEF Good
    <2> QED BY <1>0, <1>1, <2>1, LoadFacts
  <1>4. DOMAIN ed'.bufs = DOMAIN ed.bufs /\ \A k \in DOMAIN ed.bufs : ed'.bufs[k] = ed.bufs[k]
    BY <1>2, <1>3, EditAssumption DEF Loaded
  <1>5. SamePanes(ed, ed') /\ ed'.ph = ed.ph BY <1>3, <1>4 DEF Loaded, SamePanes
  <1>6. Keeps(ed, ed') BY <1>4, <1>5, SamePanesFacts
  <1>7. ReadsShown(ed', ed'.shows)
    <2>1. ASSUME NEW q \in Panes, ed'.rd[q].at \in {"load", "error"}
          PROVE  q \in ed'.up /\ ed'.shows[q] \in Paths /\ (ed'.rd[q].at = "load" => ed'.rd[q].k = ed'.shows[q])
      <3>0. Idle.at = "idle" BY DEF Idle
      <3>1. CASE q = p
        <4>1. ed'.rd[p] = Idle \/ ed'.rd[p] = [at |-> "load", k |-> ed.shows[p]]
          BY <1>3 DEF Loaded
        <4> QED BY <1>1, <1>2, <1>5, <2>1, <3>0, <3>1, <4>1 DEF SamePanes
      <3>2. CASE q # p
        <4>1. ed'.rd[q] = ed.rd[q] BY <1>3, <3>2 DEF Loaded
        <4> QED BY <1>0, <1>5, <2>1, <4>1 DEF Good, ReadsShown, SamePanes
      <3> QED BY <3>1, <3>2
    <2> QED BY <2>1 DEF ReadsShown
  <1>8. Good(ed') BY <1>0, <1>5, <1>7, SamePanesFacts
  <1> QED BY <1>1, <1>5, <1>6, <1>8, KeepsKept, EdStep DEF EditInv

LEMMA CheckFine ==
  ASSUME EditInv, NEW p \in Panes, CheckExternal(p) \/ CheckStat(p)
  PROVE  EditFine
  <1>0. ed \in Eds /\ Good(ed) /\ FsOK(fs) BY DEF EditInv, Good
  <1>1. CASE CheckExternal(p)
    <2> DEFINE v == [at |-> "check", k |-> ed.shows[p]]
    <2>1. ed' = [ed EXCEPT !.rd[p] = v] /\ UNCHANGED <<fs, save, del>> BY <1>1 DEF CheckExternal
    <2>2. v \in Reads /\ v.at = "check"
      <3>1. ed.shows[p] \in DOMAIN ed.bufs /\ ed.shows[p] \notin Untitled BY <1>1 DEF CheckExternal, Has
      <3>2. ed.shows[p] \in Paths BY <1>0, <3>1, EdParts DEF AllPaths
      <3> QED BY <3>2 DEF Reads
    <2> HIDE DEF v
    <2>3. Good(ed') /\ ed'.ph = ed.ph /\ Keeps(ed, ed') BY <1>0, <2>1, <2>2, RdFacts
    <2> QED BY <2>1, <2>3, KeepsKept, EdStep DEF EditInv
  <1>2. CASE CheckStat(p)
    <2> DEFINE k == ed.rd[p].k
               v == [at |-> "read", k |-> k, m |-> fs.files[k].m]
               u == unregister(ed, k)
    <2>1. /\ ed.rd[p].at = "check" /\ UNCHANGED <<fs, save, del>>
          /\ \/ ed' = [u EXCEPT !.rd[p] = v] /\ Exists(fs, k)
             \/ ed' = [ed EXCEPT !.rd[p] = Idle]
      BY <1>2 DEF CheckStat
    <2>2. CASE ed' = [u EXCEPT !.rd[p] = v] /\ Exists(fs, k)
      <3>1. v \in Reads /\ v.at = "read"
        <4>1. ed.rd[p] \in Reads BY <1>0, EdParts
        <4>2. k \in Paths BY <2>1, <4>1 DEF Reads
        <4>3. fs.files[k] \in Files BY <1>0, <2>2, FsParts DEF Exists
        <4> QED BY <4>2, <4>3 DEF Reads, Files
      <3>2. Unregistered(ed, k, u) BY <1>0, UnregisterFacts
      <3> HIDE DEF u, v, k
      <3>3. u \in Eds /\ Good(u) /\ u.ph \subseteq ed.ph /\ Keeps(ed, u)
        BY <1>0, <3>2, SamePanesFacts DEF Unregistered, SamePanes
      <3>4. Good(ed') /\ ed'.ph = u.ph /\ Keeps(u, ed') BY <2>2, <3>1, <3>3, RdFacts
      <3>5. Keeps(ed, ed') BY <3>3, <3>4, KeepsChain
      <3> QED BY <2>1, <3>3, <3>4, <3>5, KeepsKept, EdStep DEF EditInv
    <2>3. CASE ed' = [ed EXCEPT !.rd[p] = Idle]
      <3>1. Idle \in Reads /\ Idle.at = "idle" BY DEF Idle, Reads
      <3>2. Good(ed') /\ ed'.ph = ed.ph /\ Keeps(ed, ed') BY <1>0, <2>3, <3>1, RdFacts
      <3> QED BY <2>1, <3>2, KeepsKept, EdStep DEF EditInv
    <2> QED BY <2>1, <2>2, <2>3
  <1> QED BY <1>1, <1>2

\* A reload puts the file's content into a buffer.
LEMMA ReloadFacts ==
  ASSUME NEW e \in Eds, Good(e), FsOK(fs), NEW k, IsFile(fs, k), NEW m \in 0..MaxRev
  PROVE  LET t == reloadBuffer(e, k, fs.files[k].c, m) IN
         /\ SamePanes(e, t) /\ Good(t) /\ t.rd = e.rd /\ t.ph = e.ph /\ t.lock = e.lock
         /\ \A x \in DOMAIN e.bufs \ {k} : t.bufs[x] = e.bufs[x]
  <1> DEFINE v == [c |-> fs.files[k].c, saved |-> fs.files[k].c, m |-> m]
             t == reloadBuffer(e, k, fs.files[k].c, m)
  <1>1. CASE ~Has(e, k) BY <1>1 DEF reloadBuffer, SamePanes
  <1>2. CASE Has(e, k)
    <2>1. v \in Bufs BY FileBuffer
    <2>2. t = [e EXCEPT !.bufs[k] = v] BY <1>2 DEF reloadBuffer
    <2>3. t.lock = e.lock BY <2>2 DEF Eds
    <2> HIDE DEF v, t
    <2>4. /\ SamePanes(e, t) /\ t.rd = e.rd /\ t.ph = e.ph
          /\ \A x \in DOMAIN e.bufs : t.bufs[x] = IF x = k THEN v ELSE e.bufs[x]
      BY <1>2, <2>1, <2>2, BufFacts DEF Has
    <2>5. Good(t) BY <2>4, SamePanesFacts
    <2> QED BY <2>3, <2>4, <2>5 DEF t
  <1> QED BY <1>1, <1>2

LEMMA CheckReadFine ==
  ASSUME EditInv, NEW p \in Panes, CheckRead(p)
  PROVE  EditFine
  <1>0. ed \in Eds /\ Good(ed) /\ FsOK(fs) BY DEF EditInv, Good
  <1> DEFINE k == ed.rd[p].k
             reload == /\ IsFile(fs, k) /\ Has(ed, k)
                       /\ fs.files[k].c # ed.bufs[k].saved /\ ~Dirty(ed.bufs[k])
             u == IF reload THEN reloadBuffer(ed, k, fs.files[k].c, ed.rd[p].m) ELSE ed
  <1>1. ed.rd[p].at = "read" /\ ed' = [u EXCEPT !.rd[p] = Idle] /\ UNCHANGED <<fs, save, del>>
    BY DEF CheckRead
  <1>2. ed.rd[p].m \in 0..MaxRev
    <2>1. ed.rd[p] \in Reads BY <1>0, EdParts
    <2> QED BY <1>1, <2>1 DEF Reads
  <1>3. SamePanes(ed, u) /\ Good(u) /\ u.ph = ed.ph
        /\ \A x \in DOMAIN ed.bufs : Dirty(ed.bufs[x]) => u.bufs[x] = ed.bufs[x]
    <2>1. CASE reload
      <3>1. u = reloadBuffer(ed, k, fs.files[k].c, ed.rd[p].m) /\ ~Dirty(ed.bufs[k]) /\ IsFile(fs, k) BY <2>1
      <3> HIDE DEF u, k, reload
      <3> QED BY <1>0, <1>2, <3>1, ReloadFacts
    <2>2. CASE ~reload
      <3>1. u = ed BY <2>2
      <3> QED BY <1>0, <3>1 DEF SamePanes
    <2> QED BY <2>1, <2>2
  <1> HIDE DEF u, reload
  <1>4. Idle \in Reads /\ Idle.at = "idle" BY DEF Idle, Reads
  <1>5. u \in Eds BY <1>3 DEF SamePanes
  <1>6. Good(ed') /\ ed'.ph = u.ph /\ SamePanes(u, ed') /\ ed'.bufs = u.bufs
    BY <1>1, <1>3, <1>4, <1>5, RdFacts
  <1>7. Kept
    <2>1. ASSUME NEW x \in DOMAIN ed.bufs, OnShow(ed, x), Dirty(ed.bufs[x])
          PROVE  x \in DOMAIN ed'.bufs /\ OnShow(ed', x) /\ ed'.bufs[x].c = ed.bufs[x].c
      BY <1>3, <1>6, <2>1 DEF SamePanes, OnShow, Has
    <2> QED BY <2>1 DEF Kept
  <1> QED BY <1>1, <1>3, <1>6, <1>7, EdStep DEF EditInv

LEMMA SaveFine ==
  ASSUME EditInv, NEW p \in Panes, handleSave(p) \/ SaveFails(p)
  PROVE  EditFine
  <1>0. ed \in Eds /\ Good(ed) /\ save \in [Panes -> Saves] /\ del \in Dels BY DEF EditInv, Good
  <1>1. UNCHANGED <<fs, ed, del>> BY DEF handleSave, SaveFails
  <1>2. save' \in [Panes -> Saves]
    <2>1. CASE handleSave(p)
      <3>1. /\ Has(ed, ed.shows[p]) /\ ed.shows[p] \notin Untitled
            /\ save' = [save EXCEPT ![p] = [at |-> "write", k |-> ed.shows[p], c |-> ed.bufs[ed.shows[p]].c]]
        BY <2>1 DEF handleSave
      <3>2. ed.shows[p] \in Paths /\ ed.bufs[ed.shows[p]] \in Bufs BY <1>0, <3>1, EdParts DEF Has, AllPaths
      <3>3. ed.bufs[ed.shows[p]].c \in Contents BY <3>2 DEF Bufs
      <3>4. [at |-> "write", k |-> ed.shows[p], c |-> ed.bufs[ed.shows[p]].c] \in Saves BY <3>2, <3>3 DEF Saves
      <3> QED BY <1>0, <3>1, <3>4
    <2>2. CASE SaveFails(p)
      <3>1. Idle \in Saves BY DEF Idle, Saves
      <3> QED BY <1>0, <2>2, <3>1 DEF SaveFails
    <2> QED BY <2>1, <2>2
  <1>3. Keeps(ed, ed') BY <1>1 DEF Keeps
  <1> QED BY <1>0, <1>1, <1>2, <1>3, KeepsKept, EdStep

\* What was written by this window is no longer a placeholder.
LEMMA WriteUntouched ==
  ASSUME FsOK(fs), fs.rev < MaxRev, NEW k \in Paths, NEW c \in Contents, NEW own \in BOOLEAN,
         NEW ph, Untouched(fs, ph), own => \A q \in ph : ~isPathUnder(q, k)
  PROVE  Untouched(write(fs, k, c, own), ph)
  <1> DEFINE t == write(fs, k, c, own)
  <1>1. /\ k \in DOMAIN t.files /\ t.files[k].own = own
        /\ \A q \in DOMAIN t.files : q # k =>
              (q \in DOMAIN fs.files /\ t.files[q] = fs.files[q]) \/ t.files[q].c = 0
    BY WriteFacts
  <1> HIDE DEF t
  <1>2. isPathUnder(k, k) BY PathAssumption, UnderFacts
  <1>3. ASSUME NEW q \in ph, Exists(t, q), t.files[q].own PROVE t.files[q].c = 0
    <2>1. q # k BY <1>1, <1>2, <1>3
    <2> QED BY <1>1, <1>3, <2>1 DEF Untouched, Exists
  <1> QED BY <1>3 DEF Untouched, t

\* A write has landed, and its path is the user's from here on.
LEMMA WrittenFine ==
  ASSUME EditInv, NEW k \in Paths, NEW c \in Contents, fs.rev < MaxRev, fs' = write(fs, k, c, TRUE),
         ed' = unregister(ed, k), save' \in [Panes -> Saves], del' = del
  PROVE  EditFine
  <1>0. ed \in Eds /\ Good(ed) /\ FsOK(fs) /\ del \in Dels /\ Untouched(fs, ed.ph)
    BY DEF EditInv, Good
  <1>4. Unregistered(ed, k, ed') BY <1>0, UnregisterFacts
  <1>5. Good(ed') /\ Keeps(ed, ed') /\ ed'.ph \subseteq ed.ph /\ \A q \in ed'.ph : ~isPathUnder(q, k)
    BY <1>0, <1>4, SamePanesFacts DEF Unregistered
  <1>6. FsOK(fs') /\ Raised(fs, fs') BY <1>0, WriteFacts
  <1>7. Untouched(fs, ed'.ph) BY <1>0, <1>5, FewerUntouched
  <1>8. Untouched(fs', ed'.ph) BY <1>0, <1>5, <1>7, WriteUntouched
  <1> QED BY <1>0, <1>5, <1>6, <1>8, KeepsKept, FsStep

LEMMA SaveWrittenFine ==
  ASSUME EditInv, NEW p \in Panes, SaveWritten(p) \/ NameWritten(p)
  PROVE  EditFine
  <1>0. save \in [Panes -> Saves] BY DEF EditInv
  <1>1. CASE SaveWritten(p)
    <2> DEFINE k == save[p].k
               c == save[p].c
    <2>1. /\ save[p].at = "write" /\ fs.rev < MaxRev /\ fs' = write(fs, k, c, TRUE)
          /\ ed' = unregister(ed, k) /\ del' = del
          /\ save' = [save EXCEPT ![p] = [at |-> "stat", k |-> k]]
      BY <1>1 DEF SaveWritten, Grows
    <2>2. k \in Paths /\ c \in Contents
      <3>1. save[p] \in Saves BY <1>0
      <3> QED BY <2>1, <3>1 DEF Saves, Moving
    <2>3. save' \in [Panes -> Saves]
      <3>1. [at |-> "stat", k |-> k] \in Saves BY <2>2 DEF Saves
      <3> QED BY <1>0, <2>1, <3>1
    <2> HIDE DEF k, c
    <2> QED BY <2>1, <2>2, <2>3, WrittenFine
  <1>2. CASE NameWritten(p)
    <2> DEFINE s == [save[p] EXCEPT !.at = "named"]
    <2>1. /\ save[p].at = "create" /\ fs.rev < MaxRev /\ fs' = write(fs, save[p].to, save[p].c, TRUE)
          /\ ed' = unregister(ed, save[p].to) /\ del' = del
          /\ save' = [save EXCEPT ![p] = s]
      BY <1>2 DEF NameWritten, Grows
    <2>2. save[p].to \in Paths /\ save[p].c \in Contents /\ s \in Moving
      <3>1. save[p] \in Moving
        <4>1. save[p] \in Saves BY <1>0
        <4> QED BY <2>1, <4>1 DEF Saves
      <3> QED BY <2>1, <3>1 DEF Moving
    <2> HIDE DEF s
    <2>3. save' \in [Panes -> Saves] BY <1>0, <2>1, <2>2 DEF Saves
    <2> QED BY <2>1, <2>2, <2>3, WrittenFine
  <1> QED BY <1>1, <1>2

LEMMA MarkSavedFacts ==
  ASSUME NEW e \in Eds, NEW k, NEW m \in 0..MaxRev
  PROVE  LET t == markSaved(e, k, m) IN
         SamePanes(e, t) /\ t.rd = e.rd /\ t.ph = e.ph /\ \A x \in DOMAIN e.bufs : t.bufs[x].c = e.bufs[x].c
  <1> DEFINE v == [e.bufs[k] EXCEPT !.saved = e.bufs[k].c, !.m = IF m = 0 THEN e.bufs[k].m ELSE m]
             t == markSaved(e, k, m)
  <1>1. CASE ~Has(e, k) BY <1>1 DEF markSaved, SamePanes
  <1>2. CASE Has(e, k)
    <2>1. v \in Bufs /\ v.c = e.bufs[k].c
      <3>1. e.bufs[k] \in Bufs BY <1>2, EdParts DEF Has
      <3> QED BY <3>1 DEF Bufs
    <2>2. t = [e EXCEPT !.bufs[k] = v] BY <1>2 DEF markSaved, Has
    <2> HIDE DEF v, t
    <2>3. /\ SamePanes(e, t) /\ t.rd = e.rd /\ t.ph = e.ph
          /\ \A x \in DOMAIN e.bufs : t.bufs[x] = IF x = k THEN v ELSE e.bufs[x]
      BY <1>2, <2>1, <2>2, BufFacts DEF Has
    <2> QED BY <2>1, <2>3 DEF t
  <1> QED BY <1>1, <1>2

LEMMA SaveDoneFine ==
  ASSUME EditInv, NEW p \in Panes, SaveDone(p)
  PROVE  EditFine
  <1>0. ed \in Eds /\ Good(ed) /\ FsOK(fs) /\ save \in [Panes -> Saves] /\ del \in Dels BY DEF EditInv, Good
  <1> DEFINE k == save[p].k
             m == IF Exists(fs, k) THEN fs.files[k].m ELSE 0
  <1>1. ed' = markSaved(ed, k, m) /\ save' = [save EXCEPT ![p] = Idle] /\ fs' = fs /\ del' = del
    BY DEF SaveDone
  <1>2. m \in 0..MaxRev
    <2>1. CASE Exists(fs, k)
      <3>1. fs.files[k] \in Files BY <1>0, <2>1, FsParts DEF Exists
      <3> QED BY <2>1, <3>1 DEF Files
    <2>2. CASE ~Exists(fs, k) BY <2>2, EditAssumption
    <2> QED BY <2>1, <2>2
  <1>3. Idle \in Saves BY DEF Idle, Saves
  <1> HIDE DEF m, k
  <1>4. SamePanes(ed, ed') /\ ed'.rd = ed.rd /\ ed'.ph = ed.ph /\ \A x \in DOMAIN ed.bufs : ed'.bufs[x].c = ed.bufs[x].c
    BY <1>0, <1>1, <1>2, MarkSavedFacts
  <1>5. Good(ed') /\ Keeps(ed, ed') BY <1>0, <1>4, SamePanesFacts
  <1> QED BY <1>0, <1>1, <1>3, <1>4, <1>5, KeepsKept, EdStep

\* The panes show something else from here on.
LEMMA ShownPending ==
  ASSUME NEW e, Good(e), NEW S \in [Panes -> AllPaths \cup {None}]
  PROVE  LET t == [e EXCEPT !.shows = S] IN
         /\ Pending(t, e.shows) /\ t.ph = e.ph /\ t.shows = S /\ t.ousted = e.ousted /\ t.lock = e.lock
         /\ t.att = e.att /\ t.up = e.up /\ t.rd = e.rd
  <1> DEFINE t == [e EXCEPT !.shows = S]
  <1>0. e \in Eds /\ Attached(e) /\ ReadsShown(e, e.shows) /\ \A p \in e.up : e.shows[p] # None /\ On(e, p, e.shows[p])
    BY DEF Good
  <1>1. /\ t \in Eds /\ t.att = e.att /\ t.bufs = e.bufs /\ t.orphan = e.orphan /\ t.up = e.up
        /\ t.rd = e.rd /\ t.ousted = e.ousted /\ t.ph = e.ph /\ t.shows = S /\ t.lock = e.lock
    BY <1>0 DEF Eds
  <1> HIDE DEF t
  <1>2. Attached(t) BY <1>0, <1>1 DEF Attached
  <1>3. ReadsShown(t, e.shows) BY <1>0, <1>1 DEF ReadsShown
  <1>4. \A p \in t.up : e.shows[p] # None /\ On(t, p, e.shows[p]) BY <1>0, <1>1 DEF On
  <1>5. Pending(t, e.shows) BY <1>1, <1>2, <1>3, <1>4 DEF Pending
  <1> QED BY <1>1, <1>5 DEF t

LEMMA CloseTabFine ==
  ASSUME EditInv, NEW p \in Panes, CloseTab(p)
  PROVE  EditFine
  <1>0. ed \in Eds /\ Good(ed) BY DEF EditInv, Good
  <1> DEFINE S == [ed.shows EXCEPT ![p] = None]
             u == [ed EXCEPT !.shows = S]
  <1>1. ed' = Rerender(u, ed.shows) /\ UNCHANGED <<fs, save, del>> BY DEF CloseTab, Changes
  <1>2. S \in [Panes -> AllPaths \cup {None}] BY <1>0, EdParts
  <1> HIDE DEF S
  <1>3. Pending(u, ed.shows) /\ u.ph = ed.ph BY <1>0, <1>2, ShownPending
  <1> HIDE DEF u
  <1>4. Good(ed') /\ ed'.ph \subseteq ed.ph BY <1>1, <1>3, RerenderGood
  <1>5. Consent BY DEF Consent
  <1> QED BY <1>1, <1>4, <1>5, KeepsKept, EdStep DEF EditInv

\* A new empty file may be a placeholder.
LEMMA CreateFacts ==
  ASSUME FsOK(fs), fs.rev < MaxRev, NEW k \in Paths, Parent(k) \in Dirs(fs), NEW c \in Contents,
         NEW dir \in BOOLEAN, NEW ph, Untouched(fs, ph)
  PROVE  LET t == Put(fs, k, Entry(fs, dir, c, TRUE)) IN
         /\ FsOK(t) /\ Raised(fs, t) /\ Untouched(t, ph \ {k})
         /\ c = 0 => Untouched(t, ph \cup {k})
  <1> DEFINE v == Entry(fs, dir, c, TRUE)
             t == Put(fs, k, v)
  <1>1. v \in Files /\ v.c = c BY EntryFacts
  <1> HIDE DEF v
  <1>2. /\ FsOK(t) /\ Raised(fs, t) /\ DOMAIN t.files = DOMAIN fs.files \cup {k}
        /\ \A q \in DOMAIN fs.files \cup {k} : t.files[q] = IF q = k THEN v ELSE fs.files[q]
    BY <1>1, PutFacts
  <1> HIDE DEF t
  <1>3. Untouched(t, ph \ {k}) BY <1>2 DEF Untouched, Exists
  <1>4. c = 0 => Untouched(t, ph \cup {k}) BY <1>1, <1>2 DEF Untouched, Exists
  <1> QED BY <1>2, <1>3, <1>4 DEF t, v

LEMMA NewBufferFine ==
  ASSUME EditInv, NEW p \in Panes, NEW k \in Paths, onNewBuffer(p, k)
  PROVE  EditFine
  <1>0. ed \in Eds /\ Good(ed) /\ FsOK(fs) /\ Untouched(fs, ed.ph) /\ save \in [Panes -> Saves] /\ del \in Dels
    BY DEF EditInv, Good
  <1> DEFINE P == ed.ph \cup {k}
             e == [ed EXCEPT !.ph = P]
             S == [e.shows EXCEPT ![p] = k]
             u == [e EXCEPT !.shows = S]
  <1>1. /\ p \in ed.up \/ (ed.shows[p] = None /\ p \notin DOMAIN ed.att)
        /\ Parent(k) = <<>> /\ fs.rev < MaxRev /\ fs' = Put(fs, k, Entry(fs, FALSE, 0, TRUE))
        /\ IF p \in ed.up THEN ed' = Rerender(u, ed.shows) ELSE ed' = Mounted(e, p, k)
        /\ save' = save /\ del' = del
    BY DEF onNewBuffer, Grows, createUnique, Changes
  <1>2. P \in SUBSET Paths BY <1>0, EdParts
  <1>3. k \in AllPaths BY DEF AllPaths
  <1> HIDE DEF P
  <1>4. SamePanes(ed, e) /\ e.rd = ed.rd /\ e.ph = P BY <1>0, <1>2, PhFacts
  <1>5. e \in Eds /\ Good(e) /\ e.shows = ed.shows /\ e.att = ed.att BY <1>0, <1>4, SamePanesFacts DEF SamePanes
  <1> HIDE DEF e
  <1>6. Good(ed') /\ ed'.ph \subseteq P
    <2>1. CASE p \in ed.up
      <3>1. S \in [Panes -> AllPaths \cup {None}]
        <4>1. e.shows \in [Panes -> AllPaths \cup {None}] BY <1>5, EdParts
        <4> QED BY <1>3, <4>1
      <3> HIDE DEF S
      <3>2. Pending(u, e.shows) /\ u.ph = e.ph BY <1>5, <3>1, ShownPending
      <3> HIDE DEF u
      <3>3. Pending(u, ed.shows) /\ ed' = Rerender(u, ed.shows) BY <1>1, <1>5, <2>1, <3>2
      <3> QED BY <1>4, <3>2, <3>3, RerenderGood
    <2>2. CASE p \notin ed.up
      <3>1. p \notin DOMAIN e.att /\ ed' = Mounted(e, p, k) BY <1>1, <1>5, <2>2
      <3>2. Good(Mounted(e, p, k)) /\ Mounted(e, p, k).ph = e.ph BY <1>3, <1>5, <3>1, MountedGood
      <3> QED BY <1>4, <3>1, <3>2
    <2> QED BY <2>1, <2>2
  <1>7. Parent(k) \in Dirs(fs) /\ 0 \in Contents BY <1>1, PathAssumption DEF Dirs, Contents
  <1>8. FsOK(fs') /\ Raised(fs, fs') /\ Untouched(fs', P)
    BY <1>0, <1>1, <1>7, CreateFacts DEF P
  <1>9. Untouched(fs', ed'.ph) BY <1>6, <1>8, FewerUntouched
  <1>10. Consent BY DEF Consent
  <1> QED BY <1>0, <1>1, <1>6, <1>8, <1>9, <1>10, KeepsKept, FsStep

\* A document gets on its way, or goes no further: nothing has moved yet.
LEMMA MovesToFine ==
  ASSUME EditInv, NEW p \in Panes, NEW to \in Paths, saveUntitledBuffer(p, to) \/ handleRenameSubmit(p, to)
  PROVE  EditFine
  <1>0. ed \in Eds /\ Good(ed) /\ save \in [Panes -> Saves] /\ del \in Dels BY DEF EditInv, Good
  <1> DEFINE k == ed.shows[p]
             at == IF k \in Untitled THEN "name" ELSE "rename"
             s == [at |-> at, k |-> k, to |-> to, c |-> ed.bufs[k].c, m |-> ed.bufs[k].m]
  <1>1. /\ k \in DOMAIN ed.bufs /\ save' = [save EXCEPT ![p] = s] /\ UNCHANGED <<fs, ed, del>>
        /\ at = "rename" => Parent(to) = Parent(k) /\ to # k
    BY DEF saveUntitledBuffer, handleRenameSubmit, MovesTo, Has
  <1>2. k \in AllPaths /\ (at = "rename" => k \in Paths) /\ ed.bufs[k] \in Bufs BY <1>0, <1>1, EdParts DEF AllPaths
  <1>3. ed.bufs[k].c \in Contents /\ ed.bufs[k].m \in 0..MaxRev BY <1>2 DEF Bufs
  <1>4. at \in {"name", "rename"} OBVIOUS
  <1> HIDE DEF k, at
  <1>5. s \in Moving BY <1>1, <1>2, <1>3, <1>4 DEF Moving
  <1> HIDE DEF s
  <1>6. save' \in [Panes -> Saves] BY <1>0, <1>1, <1>5 DEF Saves
  <1>7. Keeps(ed, ed') BY <1>1 DEF Keeps
  <1> QED BY <1>0, <1>1, <1>6, <1>7, KeepsKept, EdStep

LEMMA NameStatFine ==
  ASSUME EditInv, NEW p \in Panes,
         NameStat(p) \/ RenameFails(p) \/ (RenameStat(p) /\ ~(~Exists(fs, save[p].to) /\ save[p].m = 0))
  PROVE  EditFine
  <1>0. ed \in Eds /\ Good(ed) /\ save \in [Panes -> Saves] /\ del \in Dels BY DEF EditInv, Good
  <1>1. save[p].at \in {"name", "rename", "move"} /\ UNCHANGED <<fs, ed, del>>
    BY DEF NameStat, RenameFails, RenameStat
  <1>2. \/ save' = [save EXCEPT ![p] = Idle]
        \/ save[p].at = "name" /\ save' = [save EXCEPT ![p] = [save[p] EXCEPT !.at = "create"]]
        \/ save[p].at = "rename" /\ save' = [save EXCEPT ![p] = [save[p] EXCEPT !.at = "move"]]
    <2>1. CASE NameStat(p)
      <3>1. CASE Exists(fs, save[p].to) BY <1>0, <2>1, <3>1 DEF NameStat
      <3>2. CASE ~Exists(fs, save[p].to) BY <1>0, <2>1, <3>2 DEF NameStat
      <3> QED BY <3>1, <3>2
    <2>2. CASE RenameFails(p) BY <2>2 DEF RenameFails
    <2>3. CASE RenameStat(p) /\ ~(~Exists(fs, save[p].to) /\ save[p].m = 0)
      <3>1. CASE Exists(fs, save[p].to) BY <1>0, <2>3, <3>1 DEF RenameStat
      <3>2. CASE ~Exists(fs, save[p].to) BY <1>0, <2>3, <3>2 DEF RenameStat
      <3> QED BY <3>1, <3>2
    <2> QED BY <2>1, <2>2, <2>3
  <1>3. save[p] \in Moving /\ Idle \in Saves
    <2>1. save[p] \in Saves BY <1>0
    <2> QED BY <1>1, <2>1 DEF Saves, Idle
  <1>4. save[p].at = "name" => [save[p] EXCEPT !.at = "create"] \in Saves
    <2>1. save[p].at = "name" => [save[p] EXCEPT !.at = "create"] \in Moving BY <1>3 DEF Moving
    <2> QED BY <2>1 DEF Saves
  <1>4a. save[p].at = "rename" => [save[p] EXCEPT !.at = "move"] \in Saves
    <2>1. save[p].at = "rename" => [save[p] EXCEPT !.at = "move"] \in Moving BY <1>3 DEF Moving
    <2> QED BY <2>1 DEF Saves
  <1>5. save' \in [Panes -> Saves] BY <1>0, <1>2, <1>3, <1>4, <1>4a
  <1>6. Keeps(ed, ed') BY <1>1 DEF Keeps
  <1> QED BY <1>0, <1>1, <1>5, <1>6, KeepsKept, EdStep

\* The editors of the document move, and its buffer in place of another.
LEMMA EditorsMovedFacts ==
  ASSUME NEW p \in Panes, save[p] \in Moving, NEW e, Good(e)
  PROVE  LET t == EditorsMoved(e, p) IN
         /\ Pending(t, e.shows) /\ t.ph = e.ph
         /\ \A x \in DOMAIN e.bufs : OnShow(e, x) =>
               \/ x = save[p].to /\ save[p].k \in DOMAIN e.bufs
               \/ \E y \in DOMAIN t.bufs : OnShow(t, y) /\ t.bufs[y].c = e.bufs[x].c
  <1> DEFINE k == save[p].k
             to == save[p].to
             ks == {k}
             t == EditorsMoved(e, p)
  <1>1. k \in AllPaths /\ to \in Paths BY DEF Moving
  <1> HIDE DEF k, to
  <1>2. k \in Seq(Names) /\ to \in Seq(Names) /\ to \in AllPaths
    BY <1>1, PathAssumption, EditAssumption DEF AllPaths
  <1>3. isPathUnder(k, k) /\ Remap(k, k, to) = to BY <1>2, RemapSelf
  <1>4. /\ ks \in SUBSET AllPaths
        /\ \A x \in ks : x \in Seq(Names) /\ isPathUnder(x, k) /\ Remap(x, k, to) \in AllPaths
    BY <1>1, <1>2, <1>3
  <1>5. t = MovedAway(e, ks, k, to) BY DEF EditorsMoved, MovedAway, k, to
  <1> HIDE DEF ks, t
  <1>6. LET u == MovedAway(e, ks, k, to) IN
        /\ Pending(u, e.shows) /\ u.ph = e.ph
        /\ \A x \in DOMAIN e.bufs : OnShow(e, x) =>
             \/ \E y \in ks \cap DOMAIN e.bufs : Remap(y, k, to) = x
             \/ \E y \in DOMAIN u.bufs : OnShow(u, y) /\ u.bufs[y].c = e.bufs[x].c
    BY <1>2, <1>4, MoveGood
  <1>7. \A x : (\E y \in ks \cap DOMAIN e.bufs : Remap(y, k, to) = x) => x = to /\ k \in DOMAIN e.bufs
    BY <1>3 DEF ks
  <1> QED BY <1>5, <1>6, <1>7 DEF t, k, to

LEMMA NameDoneFine ==
  ASSUME EditInv, NEW p \in Panes, NameDone(p)
  PROVE  EditFine
  <1>0. ed \in Eds /\ Good(ed) /\ FsOK(fs) /\ save \in [Panes -> Saves] /\ del \in Dels BY DEF EditInv, Good
  <1> DEFINE to == save[p].to
             m == IF Exists(fs, to) THEN fs.files[to].m ELSE 0
             v == EditorsMoved(ed, p)
             u == markSaved(v, to, m)
  <1>1. save[p].at = "named" /\ ed' = Rerender(u, ed.shows) /\ save' = [save EXCEPT ![p] = Idle] /\ fs' = fs /\ del' = del
    BY DEF NameDone, Changes
  <1>2. save[p] \in Moving /\ Idle \in Saves
    <2>1. save[p] \in Saves BY <1>0
    <2> QED BY <1>1, <2>1 DEF Saves, Idle
  <1>3. m \in 0..MaxRev
    <2>1. CASE Exists(fs, to)
      <3>1. fs.files[to] \in Files BY <1>0, <2>1, FsParts DEF Exists
      <3> QED BY <2>1, <3>1 DEF Files
    <2>2. CASE ~Exists(fs, to) BY <2>2, EditAssumption
    <2> QED BY <2>1, <2>2
  <1> HIDE DEF m, to
  <1>4. /\ Pending(v, ed.shows) /\ v.ph = ed.ph
        /\ \A x \in DOMAIN ed.bufs : OnShow(ed, x) =>
              \/ x = save[p].to /\ save[p].k \in DOMAIN ed.bufs
              \/ \E y \in DOMAIN v.bufs : OnShow(v, y) /\ v.bufs[y].c = ed.bufs[x].c
    BY <1>0, <1>2, EditorsMovedFacts
  <1> HIDE DEF v
  <1>5. v \in Eds BY <1>4 DEF Pending
  <1>6. SamePanes(v, u) /\ u.rd = v.rd /\ u.ph = v.ph /\ \A x \in DOMAIN v.bufs : u.bufs[x].c = v.bufs[x].c
    BY <1>3, <1>5, MarkSavedFacts
  <1> HIDE DEF u
  <1>7. Pending(u, ed.shows) /\ Keeps(v, u)
    <2>1. \A old : Pending(v, old) => Pending(u, old) BY <1>6, SamePanesFacts
    <2>2. Keeps(v, u) BY <1>6, SamePanesFacts
    <2> QED BY <1>4, <2>1, <2>2
  <1>8. Good(ed') /\ Keeps(u, ed') /\ ed'.ph \subseteq u.ph BY <1>1, <1>7, RerenderGood
  <1>9. Kept
    <2>1. ASSUME NEW x \in DOMAIN ed.bufs, OnShow(ed, x)
          PROVE  NameTaken(x) \/ \E y \in DOMAIN ed'.bufs : OnShow(ed', y) /\ ed'.bufs[y].c = ed.bufs[x].c
      <3>1. CASE x = save[p].to /\ save[p].k \in DOMAIN ed.bufs BY <3>1 DEF NameTaken, Has
      <3>2. CASE \E y \in DOMAIN v.bufs : OnShow(v, y) /\ v.bufs[y].c = ed.bufs[x].c
        BY <1>7, <1>8, <3>2 DEF Keeps
      <3> QED BY <1>4, <2>1, <3>1, <3>2
    <2> QED BY <2>1 DEF Kept
  <1>10. ed'.ph \subseteq ed.ph BY <1>4, <1>6, <1>8
  <1>11. save' \in [Panes -> Saves] BY <1>0, <1>1, <1>2
  <1> QED BY <1>0, <1>1, <1>8, <1>9, <1>10, <1>11, EdStep

\* The editors follow a rename, in the store or of a file never stated.
LEMMA RenamedFine ==
  ASSUME EditInv, NEW p \in Panes, RenameStored(p) \/ (RenameStat(p) /\ ~Exists(fs, save[p].to) /\ save[p].m = 0)
  PROVE  EditFine
  <1>0. ed \in Eds /\ Good(ed) /\ FsOK(fs) /\ Untouched(fs, ed.ph) /\ save \in [Panes -> Saves] /\ del \in Dels
    BY DEF EditInv, Good
  <1> DEFINE k == save[p].k
             to == save[p].to
             v == EditorsMoved(ed, p)
             w == unregister(v, k)
             u == unregister(w, to)
  <1>1. /\ save[p].at \in {"rename", "move"}
        /\ \/ fs.rev < MaxRev /\ CanRename(fs, k, to) /\ StaysInPaths(k, to, DOMAIN fs.files) /\ fs' = rename(fs, k, to)
           \/ fs' = fs
        /\ ed' = Rerender(u, ed.shows) /\ save' = [save EXCEPT ![p] = Idle] /\ del' = del
    BY DEF RenameStored, RenameStat, Renamed, Grows, Changes
  <1>2. save[p] \in Moving /\ Idle \in Saves
    <2>1. save[p] \in Saves BY <1>0
    <2> QED BY <1>1, <2>1 DEF Saves, Idle
  <1>3. k \in Paths /\ to \in Paths /\ Parent(to) = Parent(k) /\ to # k BY <1>1, <1>2 DEF Moving
  <1> HIDE DEF k, to
  <1>4. k \in Seq(Names) /\ to \in Seq(Names) /\ k # <<>> /\ to # <<>> BY <1>3, PathAssumption
  <1>7. /\ Pending(v, ed.shows) /\ v.ph = ed.ph
        /\ \A x \in DOMAIN ed.bufs : OnShow(ed, x) =>
              \/ x = save[p].to /\ save[p].k \in DOMAIN ed.bufs
              \/ \E y \in DOMAIN v.bufs : OnShow(v, y) /\ v.bufs[y].c = ed.bufs[x].c
    BY <1>0, <1>2, EditorsMovedFacts
  <1> HIDE DEF v
  <1>8. v \in Eds BY <1>7 DEF Pending
  <1>9. Unregistered(v, k, w) BY <1>8, UnregisterFacts
  <1> HIDE DEF w
  <1>10. w \in Eds /\ Pending(w, ed.shows) BY <1>7, <1>9, SamePanesFacts DEF Unregistered, SamePanes
  <1>11. Unregistered(w, to, u) BY <1>10, UnregisterFacts
  <1> HIDE DEF u
  <1>12. Pending(u, ed.shows) /\ Keeps(v, u)
    <2>1. Pending(u, ed.shows) BY <1>10, <1>11, SamePanesFacts DEF Unregistered
    <2> QED BY <1>9, <1>11, <2>1, KeepsChain DEF Unregistered
  <1>13. Good(ed') /\ Keeps(u, ed') /\ ed'.ph \subseteq u.ph BY <1>1, <1>12, RerenderGood
  <1>14. Kept
    <2>1. ASSUME NEW x \in DOMAIN ed.bufs, OnShow(ed, x)
          PROVE  NameTaken(x) \/ \E y \in DOMAIN ed'.bufs : OnShow(ed', y) /\ ed'.bufs[y].c = ed.bufs[x].c
      <3>1. CASE x = save[p].to /\ save[p].k \in DOMAIN ed.bufs BY <3>1 DEF NameTaken, Has
      <3>2. CASE \E y \in DOMAIN v.bufs : OnShow(v, y) /\ v.bufs[y].c = ed.bufs[x].c
        BY <1>12, <1>13, <3>2 DEF Keeps
      <3> QED BY <1>7, <2>1, <3>1, <3>2
    <2> QED BY <2>1 DEF Kept
  <1>15. ed'.ph \subseteq ed.ph /\ \A q \in ed'.ph : ~isPathUnder(q, to)
    BY <1>7, <1>9, <1>11, <1>13 DEF Unregistered
  <1>15a. save' \in [Panes -> Saves] BY <1>0, <1>1, <1>2
  <1>16. CASE fs' = fs BY <1>0, <1>1, <1>13, <1>14, <1>15, <1>15a, <1>16, EdStep
  <1>17. CASE fs.rev < MaxRev /\ CanRename(fs, k, to) /\ StaysInPaths(k, to, DOMAIN fs.files) /\ fs' = rename(fs, k, to)
    <2>1. ~isPathUnder(to, k)
      <3>1. Len(to) = Len(k)
        <4>1. /\ Len(k) \in Nat \ {0} /\ Len(to) \in Nat \ {0}
              /\ Len(k) - 1 \in 0..Len(k) /\ Len(to) - 1 \in 0..Len(to)
          BY <1>4
        <4> DEFINE a == Len(k) - 1
                   b == Len(to) - 1
        <4>2. a \in 0..Len(k) /\ b \in 0..Len(to) BY <4>1
        <4> HIDE DEF a, b
        <4>3. Len(SubSeq(k, 1, a)) = a /\ Len(SubSeq(to, 1, b)) = b BY <1>4, <4>2, FirstOf
        <4>4. Len(Parent(k)) = a /\ Len(Parent(to)) = b BY <4>3 DEF Parent, a, b
        <4> QED BY <1>3, <4>1, <4>4 DEF a, b
      <3> QED BY <1>3, <1>4, <3>1, UnderFacts
    <2>2. Parent(to) \in {<<>>} \cup DOMAIN fs.files
      <3>1. k \in DOMAIN fs.files
        <4>1. PICK q \in DOMAIN fs.files : isPathUnder(q, k) BY <1>17 DEF CanRename
        <4> QED BY <1>0, <1>3, <4>1, FsParts DEF Rooted
      <3>2. CASE Parent(k) = <<>> BY <1>3, <3>2
      <3>3. CASE Parent(k) # <<>>
        <4>1. Len(k) \in Nat \ {0} /\ Len(k) - 1 \in 0..Len(k) BY <1>4
        <4> DEFINE n == Len(k) - 1
        <4>2. n \in 0..Len(k) BY <4>1
        <4> HIDE DEF n
        <4>3. SubSeq(k, 1, n) \in Seq(Names) /\ Len(SubSeq(k, 1, n)) = n /\ \A i \in 1..n : SubSeq(k, 1, n)[i] = k[i]
          BY <1>4, <4>2, FirstOf
        <4>4. Parent(k) = SubSeq(k, 1, n) BY DEF Parent, n
        <4>5. isPathUnder(k, Parent(k))
          <5> DEFINE q == Parent(k)
          <5>1. q \in Seq(Names) /\ Len(q) = n /\ \A i \in 1..n : q[i] = k[i] BY <4>3, <4>4
          <5>2. Len(k) >= n BY <4>1, <4>2
          <5> HIDE DEF q
          <5>3. Len(k) >= Len(q) /\ \A i \in 1..Len(q) : k[i] = q[i] BY <5>1, <5>2
          <5>4. isPathUnder(k, q) BY <1>4, <5>1, <5>3, UnderAgree
          <5> QED BY <5>4 DEF q
        <4>6. n \in 1..Len(k) BY <3>3, <4>1, <4>2, <4>3, <4>4
        <4>7. Parent(k) \in Paths BY <1>3, <4>4, <4>6, PathAssumption
        <4> QED BY <1>0, <1>3, <3>1, <4>5, <4>7, FsParts DEF Rooted
      <3> QED BY <3>2, <3>3
    <2>3. /\ FsOK(fs') /\ Raised(fs, fs')
          /\ \A q \in DOMAIN fs'.files :
               isPathUnder(q, to) \/ (q \in DOMAIN fs.files /\ fs'.files[q] = fs.files[q])
      BY <1>0, <1>1, <1>3, <1>17, <2>1, <2>2, RenameFacts
    <2>4. Untouched(fs', ed'.ph) BY <1>0, <1>15, <2>3 DEF Untouched, Exists
    <2> QED BY <1>0, <1>1, <1>13, <1>14, <1>15a, <2>3, <2>4, FsStep
  <1> QED BY <1>1, <1>16, <1>17

\* Panes and buffers move in either order.
LEMMA MoveCommutes ==
  ASSUME NEW e \in Eds, NEW ks, NEW from, NEW to
  PROVE  /\ renameEditorPanes(renameBuffer(e, ks, from, to), ks, from, to) = MovedAway(e, ks, from, to)
         /\ renameBuffer(e, ks, from, to).shows = e.shows
  <1> DEFINE moved == ks \cap DOMAIN e.bufs
             new == {Remap(k, from, to) : k \in moved}
             bufs == [k \in (DOMAIN e.bufs \ moved) \cup new |->
                         IF k \in new THEN e.bufs[Remap(k, to, from)] ELSE e.bufs[k]]
             att == [p \in DOMAIN e.att |-> IF e.att[p] \in moved THEN Remap(e.att[p], from, to) ELSE e.att[p]]
             orphan == {IF k \in moved THEN Remap(k, from, to) ELSE k : k \in e.orphan}
             shows == [p \in Panes |-> IF e.shows[p] \in ks THEN Remap(e.shows[p], from, to) ELSE e.shows[p]]
             b == [e EXCEPT !.bufs = bufs, !.att = att, !.orphan = orphan]
             s == [e EXCEPT !.shows = shows]
  <1>1. b = renameBuffer(e, ks, from, to) BY DEF renameBuffer
  <1>2. s = renameEditorPanes(e, ks, from, to) BY DEF renameEditorPanes
  <1>3. b.shows = e.shows /\ s.bufs = e.bufs /\ s.att = e.att /\ s.orphan = e.orphan
    <2> HIDE DEF bufs, att, orphan, shows
    <2> QED BY DEF Eds
  <1>4. renameEditorPanes(b, ks, from, to) = [b EXCEPT !.shows = shows]
    <2> HIDE DEF b
    <2> QED BY <1>3 DEF renameEditorPanes
  <1>5. renameBuffer(s, ks, from, to) = [s EXCEPT !.bufs = bufs, !.att = att, !.orphan = orphan]
    <2> HIDE DEF s
    <2> QED BY <1>3 DEF renameBuffer
  <1>6. [b EXCEPT !.shows = shows] = [s EXCEPT !.bufs = bufs, !.att = att, !.orphan = orphan]
    <2> HIDE DEF bufs, att, orphan, shows
    <2> QED BY DEF Eds
  <1> HIDE DEF b, s, bufs, att, orphan, shows
  <1> QED BY <1>1, <1>2, <1>3, <1>4, <1>5, <1>6 DEF MovedAway

LEMMA MoveFine ==
  ASSUME EditInv, NEW from \in Paths, NEW to \in Paths, MoveEntry(from, to)
  PROVE  EditFine
  <1>0. ed \in Eds /\ Good(ed) /\ FsOK(fs) /\ Untouched(fs, ed.ph) /\ save \in [Panes -> Saves] /\ del \in Dels
    BY DEF EditInv, Good
  <1> DEFINE w == unregister(ed, from)
             v == unregister(w, to)
             ks == Affected(ed, from)
             u == MovedAway(v, ks, from, to)
  <1>1. /\ ~isPathUnder(to, from) /\ Parent(to) \in Dirs(fs) /\ CanRename(fs, from, to) /\ fs.rev < MaxRev
        /\ StaysInPaths(from, to, DOMAIN fs.files \cup ks)
        /\ fs' = rename(fs, from, to) /\ ed' = Rerender(applyPathMutation(ed, from, to), ed.shows)
        /\ save' = save /\ del' = del
    BY DEF MoveEntry, MayMove, Grows, Changes
  <1>2. from \in Seq(Names) /\ to \in Seq(Names) BY PathAssumption
  <1>3. ks \in SUBSET AllPaths /\ \A x \in ks : x \in Seq(Names) /\ isPathUnder(x, from) /\ Remap(x, from, to) \in AllPaths
    <2>1. \A x \in ks : x \in Paths /\ isPathUnder(x, from) BY DEF Affected
    <2> HIDE DEF ks
    <2>2. \A x \in ks : Remap(x, from, to) \in Paths BY <1>1, <2>1 DEF StaysInPaths
    <2> QED BY <2>1, <2>2, PathAssumption DEF AllPaths
  <1>4. Unregistered(ed, from, w) BY <1>0, UnregisterFacts
  <1> HIDE DEF w
  <1>5. w \in Eds /\ Good(w) BY <1>0, <1>4, SamePanesFacts DEF Unregistered, SamePanes
  <1>6. Unregistered(w, to, v) BY <1>5, UnregisterFacts
  <1> HIDE DEF v
  <1>7. v \in Eds /\ Good(v) BY <1>5, <1>6, SamePanesFacts DEF Unregistered, SamePanes
  <1>8. v.bufs = ed.bufs /\ v.shows = ed.shows /\ v.att = ed.att
        /\ v.ph \subseteq ed.ph /\ \A q \in v.ph : ~isPathUnder(q, to)
    BY <1>4, <1>6 DEF Unregistered, SamePanes
  <1>9. applyPathMutation(ed, from, to) = u
    <2>1. Affected(v, from) = ks BY <1>8 DEF Affected
    <2> DEFINE b == renameBuffer(v, ks, from, to)
    <2>2. b.shows = v.shows BY <1>7, MoveCommutes
    <2>3. RemapBuffers(v, from, to) = b BY <2>1 DEF RemapBuffers
    <2>4. applyPathMutation(ed, from, to) = RemapPanes(RemapBuffers(v, from, to), from, to)
      BY DEF applyPathMutation, v, w
    <2> HIDE DEF b, ks
    <2>5. Affected(b, from) = ks BY <2>1, <2>2 DEF Affected
    <2>6. RemapPanes(b, from, to) = renameEditorPanes(b, ks, from, to) BY <2>5 DEF RemapPanes
    <2>7. renameEditorPanes(b, ks, from, to) = u BY <1>7, MoveCommutes DEF b
    <2> QED BY <2>3, <2>4, <2>6, <2>7
  <1>10. /\ Pending(u, ed.shows) /\ u.ph = v.ph
         /\ \A x \in DOMAIN ed.bufs : OnShow(ed, x) =>
               \/ \E y \in ks \cap DOMAIN ed.bufs : Remap(y, from, to) = x
               \/ \E y \in DOMAIN u.bufs : OnShow(u, y) /\ u.bufs[y].c = ed.bufs[x].c
    <2> HIDE DEF ks
    <2>1. LET t == MovedAway(v, ks, from, to) IN
          /\ Pending(t, v.shows) /\ t.ph = v.ph
          /\ \A x \in DOMAIN v.bufs : OnShow(v, x) =>
               \/ \E y \in ks \cap DOMAIN v.bufs : Remap(y, from, to) = x
               \/ \E y \in DOMAIN t.bufs : OnShow(t, y) /\ t.bufs[y].c = v.bufs[x].c
      BY <1>2, <1>3, <1>7, MoveGood
    <2>2. \A x : OnShow(ed, x) <=> OnShow(v, x) BY <1>8 DEF OnShow, Has
    <2> HIDE DEF u
    <2>3. u = MovedAway(v, ks, from, to) BY DEF u
    <2> QED BY <1>8, <2>1, <2>2, <2>3
  <1> HIDE DEF u
  <1>11. Good(ed') /\ Keeps(u, ed') /\ ed'.ph \subseteq u.ph BY <1>1, <1>9, <1>10, RerenderGood
  <1>12. Kept
    <2>1. ASSUME NEW x \in DOMAIN ed.bufs, OnShow(ed, x)
          PROVE  NameTaken(x) \/ \E y \in DOMAIN ed'.bufs : OnShow(ed', y) /\ ed'.bufs[y].c = ed.bufs[x].c
      <3>1. CASE \E y \in ks \cap DOMAIN ed.bufs : Remap(y, from, to) = x
        BY <1>3, <3>1 DEF NameTaken
      <3>2. CASE \E y \in DOMAIN u.bufs : OnShow(u, y) /\ u.bufs[y].c = ed.bufs[x].c
        BY <1>11, <3>2 DEF Keeps
      <3> QED BY <1>10, <2>1, <3>1, <3>2
    <2> QED BY <2>1 DEF Kept
  <1>13. ed'.ph \subseteq ed.ph /\ \A q \in ed'.ph : ~isPathUnder(q, to) BY <1>8, <1>10, <1>11
  <1>14. /\ FsOK(fs') /\ Raised(fs, fs')
         /\ \A q \in DOMAIN fs'.files :
               isPathUnder(q, to) \/ (q \in DOMAIN fs.files /\ fs'.files[q] = fs.files[q])
    <2>1. StaysInPaths(from, to, DOMAIN fs.files) BY <1>1 DEF StaysInPaths
    <2>2. Parent(to) \in {<<>>} \cup DOMAIN fs.files BY <1>1 DEF Dirs
    <2> QED BY <1>0, <1>1, <2>1, <2>2, RenameFacts
  <1>15. Untouched(fs', ed'.ph) BY <1>0, <1>13, <1>14 DEF Untouched, Exists
  <1> QED BY <1>0, <1>1, <1>11, <1>12, <1>14, <1>15, FsStep

\* Editors close; a pane whose editor closes shows something else, or is ousted.
LEMMA ClosePending ==
  ASSUME NEW e, NEW old, Pending(e, old), NEW ps, NEW key,
         \A p \in e.up \cap ps : e.shows[p] = old[p] => p \in e.ousted
  PROVE  Pending(closePaneState(e, ps, key), old) /\ closePaneState(e, ps, key).ph = e.ph
  <1> DEFINE t == closePaneState(e, ps, key)
  <1>0. e \in Eds /\ Attached(e) BY DEF Pending
  <1>1. /\ t \in Eds /\ Attached(t) /\ t.ousted = e.ousted /\ OnlyBuffers(e, t)
        /\ DOMAIN t.att = {p \in DOMAIN e.att : ~(p \in ps /\ e.att[p] = key[p])}
        /\ \A p \in DOMAIN t.att : t.att[p] = e.att[p]
    BY <1>0, CloseFacts
  <1> HIDE DEF t
  <1>2. ASSUME NEW p \in t.up PROVE old[p] # None /\ (t.shows[p] = old[p] => On(t, p, old[p]))
    <2>1. p \in e.up /\ old[p] # None /\ (e.shows[p] = old[p] => On(e, p, old[p])) BY <1>1, <1>2 DEF Pending, OnlyBuffers
    <2>2. ASSUME t.shows[p] = old[p] PROVE On(t, p, old[p])
      <3>1. On(e, p, old[p]) /\ (p \in ps => p \in t.ousted) BY <1>1, <2>1, <2>2 DEF OnlyBuffers
      <3>2. CASE p \in DOMAIN t.att BY <1>1, <3>1, <3>2 DEF On
      <3>3. CASE p \notin DOMAIN t.att BY <1>1, <3>1, <3>3 DEF On
      <3> QED BY <3>2, <3>3
    <2> QED BY <2>1, <2>2
  <1>3. ReadsShown(t, old) BY <1>1 DEF Pending, ReadsShown, OnlyBuffers
  <1> QED BY <1>1, <1>2, <1>3 DEF Pending, OnlyBuffers, t

LEMMA DialogFine ==
  ASSUME EditInv, (\E paths \in SUBSET Paths : handleDelete(paths)) \/ handleCleanEmpty \/ DialogCancel \/ DeleteFails
  PROVE  EditFine
  <1>0. Good(ed) /\ save \in [Panes -> Saves] BY DEF EditInv
  <1>1. fs' = fs /\ ed' = ed /\ save' = save BY DEF handleDelete, handleCleanEmpty, DialogCancel, DeleteFails
  <1>2. del' \in Dels
    <2>1. CASE \E paths \in SUBSET Paths : handleDelete(paths)
      <3>1. PICK paths \in SUBSET Paths : handleDelete(paths) BY <2>1
      <3>2. pruneMissingPaths(paths) \in SUBSET Paths BY DEF pruneMissingPaths
      <3> HIDE DEF pruneMissingPaths
      <3> QED BY <3>1, <3>2 DEF handleDelete, Dels
    <2>2. CASE handleCleanEmpty
      <3>1. findEmptyFiles \in SUBSET Paths BY DEF findEmptyFiles
      <3> HIDE DEF findEmptyFiles
      <3> QED BY <2>2, <3>1 DEF handleCleanEmpty, Dels
    <2>3. CASE DialogCancel \/ DeleteFails BY <2>3 DEF DialogCancel, DeleteFails, Dels, Idle
    <2> QED BY <2>1, <2>2, <2>3
  <1>3. Keeps(ed, ed') BY <1>1 DEF Keeps
  <1> QED BY <1>0, <1>1, <1>2, <1>3, KeepsKept, EdStep

LEMMA DeleteEntriesFine ==
  ASSUME EditInv, deleteStorageEntries
  PROVE  EditFine
  <1>0. ed \in Eds /\ Good(ed) /\ save \in [Panes -> Saves] /\ del \in Dels BY DEF EditInv, Good
  <1> DEFINE panes == {p \in Panes : \E k \in Deletable : ed.shows[p] \in Paths /\ isPathUnder(ed.shows[p], k)}
             S == [p \in Panes |-> IF p \in panes THEN None ELSE ed.shows[p]]
             h == [ed EXCEPT !.shows = S]
             u == closePaneState(h, panes, ed.shows)
  <1>1. /\ del.at = "dialog" /\ fs' = fs /\ save' = save
        /\ \/ del' = Idle /\ ed' = ed
           \/ del' = [at |-> "deleting", left |-> Deletable] /\ ed' = Rerender(u, ed.shows)
    BY DEF deleteStorageEntries, Changes
  <1>2. del' \in Dels
    <2>1. Deletable \in SUBSET Paths
      <3>1. del.paths \in SUBSET Paths BY <1>0, <1>1 DEF Dels
      <3> QED BY <3>1 DEF Deletable
    <2> QED BY <1>1, <2>1 DEF Dels, Idle
  <1>3. S \in [Panes -> AllPaths \cup {None}] BY <1>0, EdParts
  <1>4. \A p \in Panes : p \in panes => S[p] = None OBVIOUS
  <1> HIDE DEF S, panes
  <1>5. Pending(h, ed.shows) /\ h.ph = ed.ph /\ h.shows = S BY <1>0, <1>3, ShownPending
  <1> HIDE DEF h
  <1>6. \A p \in h.up \cap panes : h.shows[p] = ed.shows[p] => p \in h.ousted
    <2>1. h \in Eds /\ \A p \in h.up : ed.shows[p] # None BY <1>5 DEF Pending
    <2>2. h.up \subseteq Panes BY <2>1, EdParts
    <2> QED BY <1>4, <1>5, <2>1, <2>2
  <1>7. Pending(u, ed.shows) /\ u.ph = ed.ph BY <1>5, <1>6, ClosePending
  <1> HIDE DEF u
  <1>8. Good(ed') /\ ed'.ph \subseteq ed.ph
    <2>1. CASE ed' = ed BY <1>0, <2>1
    <2>2. CASE ed' = Rerender(u, ed.shows) BY <1>7, <2>2, RerenderGood
    <2> QED BY <1>1, <2>1, <2>2
  <1>9. Consent BY DEF Consent
  <1> QED BY <1>0, <1>1, <1>2, <1>8, <1>9, KeepsKept, EdStep

LEMMA CreateFine ==
  ASSUME EditInv, NEW k \in Paths, createStorageFile(k) \/ createStorageFolder(k) \/ uploadFile(k, MaxEdit)
  PROVE  EditFine
  <1>0. ed \in Eds /\ Good(ed) /\ FsOK(fs) /\ Untouched(fs, ed.ph) /\ save \in [Panes -> Saves] /\ del \in Dels
    BY DEF EditInv, Good
  <1>1. /\ Parent(k) \in Dirs(fs) /\ fs.rev < MaxRev /\ ~Exists(fs, k) /\ save' = save /\ del' = del
    BY DEF createStorageFile, createStorageFolder, uploadFile, Grows
  <1>2. 0 \in Contents /\ MaxEdit \in Contents BY PathAssumption DEF Contents
  <1> DEFINE P == ed.ph \cup {k}
  <1>3. P \in SUBSET Paths BY <1>0, EdParts
  <1>4. CASE createStorageFile(k)
    <2>1. fs' = Put(fs, k, Entry(fs, FALSE, 0, TRUE)) /\ ed' = [ed EXCEPT !.ph = P]
      BY <1>4 DEF createStorageFile, createUnique
    <2>2. FsOK(fs') /\ Raised(fs, fs') /\ Untouched(fs', P) BY <1>0, <1>1, <1>2, <2>1, CreateFacts
    <2> HIDE DEF P
    <2>3. SamePanes(ed, ed') /\ ed'.rd = ed.rd /\ ed'.ph = P /\ Keeps(ed, ed') BY <1>0, <1>3, <2>1, PhFacts
    <2>4. Good(ed') BY <1>0, <2>3, SamePanesFacts
    <2> QED BY <1>0, <1>1, <2>2, <2>3, <2>4, KeepsKept, FsStep
  <1>5. CASE createStorageFolder(k)
    <2>1. fs' = Put(fs, k, Entry(fs, TRUE, 0, TRUE)) /\ ed' = ed
      BY <1>5 DEF createStorageFolder, mkdirUnique
    <2>2. FsOK(fs') /\ Raised(fs, fs') /\ Untouched(fs', P) BY <1>0, <1>1, <1>2, <2>1, CreateFacts
    <2>3. Untouched(fs', ed'.ph) BY <2>1, <2>2, FewerUntouched
    <2>4. Keeps(ed, ed') BY <2>1 DEF Keeps
    <2> QED BY <1>0, <1>1, <2>1, <2>2, <2>3, <2>4, KeepsKept, FsStep
  <1>6. CASE uploadFile(k, MaxEdit)
    <2>1. fs' = Put(fs, k, Entry(fs, FALSE, MaxEdit, TRUE)) /\ ed' = unregister(ed, k)
      BY <1>6 DEF uploadFile, createUnique
    <2>2. FsOK(fs') /\ Raised(fs, fs') /\ Untouched(fs', ed.ph \ {k}) BY <1>0, <1>1, <1>2, <2>1, CreateFacts
    <2>3. Unregistered(ed, k, ed') BY <1>0, <2>1, UnregisterFacts
    <2>4. Good(ed') /\ Keeps(ed, ed') BY <1>0, <2>3, SamePanesFacts DEF Unregistered
    <2>5. isPathUnder(k, k) BY PathAssumption, UnderFacts
    <2>6. ed'.ph \subseteq ed.ph \ {k} BY <2>3, <2>5 DEF Unregistered
    <2>7. Untouched(fs', ed'.ph) BY <2>2, <2>6, FewerUntouched
    <2> QED BY <1>0, <1>1, <2>2, <2>4, <2>7, KeepsKept, FsStep
  <1> QED BY <1>4, <1>5, <1>6

LEMMA DeletedUntouched ==
  ASSUME FsOK(fs), fs.rev < MaxRev, NEW k \in Paths, NEW ph, Untouched(fs, ph)
  PROVE  FsOK(delete(fs, k)) /\ Raised(fs, delete(fs, k)) /\ Untouched(delete(fs, k), ph)
  <1> DEFINE t == delete(fs, k)
  <1>1. FsOK(t) /\ Raised(fs, t) BY DeleteFacts
  <1>2. \A q \in DOMAIN t.files : q \in DOMAIN fs.files /\ t.files[q] = fs.files[q] BY DEF delete
  <1> HIDE DEF t
  <1> QED BY <1>1, <1>2 DEF Untouched, Exists, t

LEMMA DeleteStepFine ==
  ASSUME EditInv, NEW k \in Paths, DeleteStep(k)
  PROVE  EditFine
  <1>0. ed \in Eds /\ Good(ed) /\ FsOK(fs) /\ Untouched(fs, ed.ph) /\ save \in [Panes -> Saves] /\ del \in Dels
    BY DEF EditInv, Good
  <1>1. /\ del.at = "deleting" /\ fs.rev < MaxRev /\ fs' = delete(fs, k) /\ ed' = unregister(ed, k)
        /\ del' = Idle \/ del' = [del EXCEPT !.left = del.left \ {k}]
        /\ save' = save
    BY DEF DeleteStep, Grows
  <1>2. del' \in Dels
    <2>1. del \in [at : {"deleting"}, left : SUBSET Paths] BY <1>0, <1>1 DEF Dels
    <2> QED BY <1>1, <2>1 DEF Dels, Idle
  <1>3. Unregistered(ed, k, ed') BY <1>0, <1>1, UnregisterFacts
  <1>4. Good(ed') /\ Keeps(ed, ed') /\ ed'.ph \subseteq ed.ph BY <1>0, <1>3, SamePanesFacts DEF Unregistered
  <1>5. FsOK(fs') /\ Raised(fs, fs') /\ Untouched(fs', ed.ph) BY <1>0, <1>1, DeletedUntouched
  <1>6. Untouched(fs', ed'.ph) BY <1>4, <1>5, FewerUntouched
  <1> QED BY <1>0, <1>1, <1>2, <1>4, <1>5, <1>6, KeepsKept, FsStep

LEMMA SweepsFacts ==
  ASSUME NEW e, Good(e), NEW W \in SUBSET (Paths \X {"stat", "delete"})
  PROVE  LET t == [e EXCEPT !.sweeps = W] IN Good(t) /\ Keeps(e, t) /\ t.ph = e.ph
  <1> DEFINE t == [e EXCEPT !.sweeps = W]
  <1>1. SamePanes(e, t) /\ t.rd = e.rd /\ t.ph = e.ph /\ t.bufs = e.bufs BY DEF Good, Eds, SamePanes
  <1> HIDE DEF t
  <1>2. Good(t) /\ Keeps(e, t) BY <1>1, SamePanesFacts
  <1> QED BY <1>1, <1>2 DEF t

LEMMA SweepFine ==
  ASSUME EditInv, NEW k \in Paths, SweepStat(k) \/ SweepDelete(k)
  PROVE  EditFine
  <1>0. ed \in Eds /\ Good(ed) /\ FsOK(fs) /\ Untouched(fs, ed.ph) /\ save \in [Panes -> Saves] /\ del \in Dels
    BY DEF EditInv, Good
  <1>1. ed.sweeps \subseteq Paths \X {"stat", "delete"} BY <1>0, EdParts
  <1>2. CASE SweepStat(k)
    <2> DEFINE W == (ed.sweeps \ {<<k, "stat">>})
                      \cup (IF IsFile(fs, k) /\ fs.files[k].c = 0 THEN {<<k, "delete">>} ELSE {})
    <2>1. ed' = [ed EXCEPT !.sweeps = W] /\ fs' = fs /\ save' = save /\ del' = del BY <1>2 DEF SweepStat
    <2>2. W \in SUBSET (Paths \X {"stat", "delete"}) BY <1>1
    <2> HIDE DEF W
    <2>3. Good(ed') /\ Keeps(ed, ed') /\ ed'.ph = ed.ph BY <1>0, <2>1, <2>2, SweepsFacts
    <2> QED BY <1>0, <2>1, <2>3, KeepsKept, EdStep
  <1>3. CASE SweepDelete(k)
    <2> DEFINE W == ed.sweeps \ {<<k, "delete">>}
    <2>1. /\ fs.rev < MaxRev /\ fs' = delete(fs, k) /\ ed' = [ed EXCEPT !.sweeps = W]
          /\ save' = save /\ del' = del
      BY <1>3 DEF SweepDelete, Grows
    <2>2. W \in SUBSET (Paths \X {"stat", "delete"}) BY <1>1
    <2> HIDE DEF W
    <2>3. Good(ed') /\ Keeps(ed, ed') /\ ed'.ph = ed.ph BY <1>0, <2>1, <2>2, SweepsFacts
    <2>4. FsOK(fs') /\ Raised(fs, fs') /\ Untouched(fs', ed.ph) BY <1>0, <2>1, DeletedUntouched
    <2> QED BY <1>0, <2>1, <2>3, <2>4, KeepsKept, FsStep
  <1> QED BY <1>2, <1>3

LEMMA OtherWindowFine ==
  ASSUME EditInv, OtherWindowNext
  PROVE  EditFine
  <1>0. ed \in Eds /\ Good(ed) /\ FsOK(fs) /\ Untouched(fs, ed.ph) /\ save \in [Panes -> Saves] /\ del \in Dels
    BY DEF EditInv, Good
  <1>1. PICK k \in Paths : OtherWindowDeletes(k) \/ \E c \in Contents : OtherWindowWrites(k, c)
    BY DEF OtherWindowNext
  <1>2. fs.rev < MaxRev /\ ed' = ed /\ save' = save /\ del' = del
    BY <1>1 DEF OtherWindowDeletes, OtherWindowWrites, Grows
  <1>3. Keeps(ed, ed') BY <1>2 DEF Keeps
  <1>4. FsOK(fs') /\ Raised(fs, fs') /\ Untouched(fs', ed.ph)
    <2>1. CASE OtherWindowDeletes(k) BY <1>0, <1>2, <2>1, DeletedUntouched DEF OtherWindowDeletes
    <2>2. CASE \E c \in Contents : OtherWindowWrites(k, c)
      <3>1. PICK c \in Contents : fs' = write(fs, k, c, FALSE) BY <2>2 DEF OtherWindowWrites
      <3>2. FsOK(fs') /\ Raised(fs, fs') BY <1>0, <1>2, <3>1, WriteFacts
      <3>3. Untouched(fs', ed.ph) BY <1>0, <1>2, <3>1, WriteUntouched
      <3> QED BY <3>2, <3>3
    <2> QED BY <1>1, <2>1, <2>2
  <1> QED BY <1>0, <1>2, <1>3, <1>4, KeepsKept, FsStep

LEMMA EditNextFine ==
  ASSUME EditInv, EditNext
  PROVE  EditFine
  <1>1. CASE PaneNext
    <2>1. PICK p \in Panes :
            \/ \E k \in Paths : openInAppFile(p, k) \/ onNewBuffer(p, k)
            \/ \E k \in Untitled : RestoreUntitled(p, k)
            \/ Unmount(p) \/ Mount(p) \/ ToggleLock(p) \/ CloseTab(p)
            \/ \E c \in Contents : Type(p, c)
            \/ LoadDone(p) \/ LoadFails(p) \/ retryLoad(p)
            \/ CheckExternal(p) \/ CheckStat(p) \/ CheckRead(p)
            \/ handleSave(p) \/ SaveWritten(p) \/ SaveFails(p) \/ SaveDone(p)
            \/ \E k \in Paths : saveUntitledBuffer(p, k) \/ handleRenameSubmit(p, k)
            \/ NameStat(p) \/ NameWritten(p) \/ NameDone(p)
            \/ RenameStat(p) \/ RenameStored(p) \/ RenameFails(p)
      BY <1>1 DEF PaneNext
    <2>2. ASSUME NEW k \in Paths, openInAppFile(p, k) \/ onNewBuffer(p, k) PROVE EditFine
      BY <2>2, MountFine, NewBufferFine
    <2>3. ASSUME NEW k \in Untitled, RestoreUntitled(p, k) PROVE EditFine BY <2>3, MountFine
    <2>4. CASE Unmount(p) \/ ToggleLock(p) \/ CloseTab(p) BY <2>4, UnmountFine, LockFine, CloseTabFine
    <2>5. CASE Mount(p) BY <2>5, MountFine
    <2>6. ASSUME NEW c \in Contents, Type(p, c) PROVE EditFine BY <2>6, TypeFine
    <2>7. CASE LoadDone(p) \/ LoadFails(p) \/ retryLoad(p) BY <2>7, LoadDoneFine, LoadFailsFine, RetryFine
    <2>8. CASE CheckExternal(p) \/ CheckStat(p) \/ CheckRead(p) BY <2>8, CheckFine, CheckReadFine
    <2>9. CASE handleSave(p) \/ SaveWritten(p) \/ SaveFails(p) \/ SaveDone(p)
      BY <2>9, SaveFine, SaveWrittenFine, SaveDoneFine
    <2>10. ASSUME NEW k \in Paths, saveUntitledBuffer(p, k) \/ handleRenameSubmit(p, k) PROVE EditFine
      BY <2>10, MovesToFine
    <2>11. CASE NameStat(p) \/ NameWritten(p) \/ NameDone(p) BY <2>11, NameStatFine, SaveWrittenFine, NameDoneFine
    <2>12. CASE RenameStat(p) \/ RenameStored(p) \/ RenameFails(p) BY <2>12, NameStatFine, RenamedFine
    <2> QED BY <2>1, <2>2, <2>3, <2>4, <2>5, <2>6, <2>7, <2>8, <2>9, <2>10, <2>11, <2>12
  <1>2. CASE StorageNext
    <2>1. CASE handleNew
      <3>1. PICK k \in Paths : createStorageFile(k) \/ createStorageFolder(k) BY <2>1 DEF handleNew
      <3> QED BY <3>1, CreateFine
    <2>2. CASE handleRenameConfirm
      <3>1. PICK from \in Paths, to \in Paths : MoveEntry(from, to) BY <2>2 DEF handleRenameConfirm
      <3> QED BY <3>1, MoveFine
    <2>3. CASE deletePaths
      <3>1. ASSUME NEW k \in Paths, DeleteStep(k) PROVE EditFine BY <3>1, DeleteStepFine
      <3>2. CASE \E paths \in SUBSET Paths : handleDelete(paths) BY <3>2, DialogFine
      <3>3. CASE DialogCancel \/ DeleteFails BY <3>3, DialogFine
      <3>4. CASE deleteStorageEntries BY <3>4, DeleteEntriesFine
      <3> QED BY <2>3, <3>1, <3>2, <3>3, <3>4 DEF deletePaths, Selections
    <2>4. CASE ingestFiles
      <3>1. PICK k \in Paths : uploadFile(k, MaxEdit) BY <2>4 DEF ingestFiles
      <3> QED BY <3>1, CreateFine
    <2>5. CASE SweepEmpty
      <3>1. CASE handleCleanEmpty BY <3>1, DialogFine
      <3>2. ASSUME NEW k \in Paths, SweepStat(k) \/ SweepDelete(k) PROVE EditFine BY <3>2, SweepFine
      <3> QED BY <2>5, <3>1, <3>2 DEF SweepEmpty
    <2> QED BY <1>2, <2>1, <2>2, <2>3, <2>4, <2>5 DEF StorageNext
  <1>3. CASE OtherWindowNext BY <1>3, OtherWindowFine
  <1> QED BY <1>1, <1>2, <1>3 DEF EditNext

-----------------------------------------------------------------------------
(* The steps of a restore that change the editors.                         *)

LEMMA CloseEditorsPending ==
  ASSUME NEW e, Good(e), NEW acts
  PROVE  Pending(CloseEditors(e, acts), e.shows) /\ CloseEditors(e, acts).ph = e.ph
  <1> DEFINE ps == {a.p : a \in acts}
             S == [p \in Panes |-> IF p \in ps \ e.lock THEN None ELSE e.shows[p]]
             O == e.ousted \cup (ps \cap e.lock)
             key == [p \in ps |-> (CHOOSE a \in acts : a.p = p).k]
             h == [e EXCEPT !.shows = S]
             u == [h EXCEPT !.ousted = O]
             t == closePaneState(u, ps, key)
  <1>0. e \in Eds BY DEF Good
  <1>1. S \in [Panes -> AllPaths \cup {None}] /\ O \in SUBSET Panes BY <1>0, EdParts
  <1>2. \A p \in Panes \cap ps : p \in e.lock \/ S[p] = None OBVIOUS
  <1>3. e.ousted \subseteq O /\ ps \cap e.lock \subseteq O OBVIOUS
  <1> HIDE DEF S, O, ps, key
  <1>4. /\ Pending(h, e.shows) /\ h.ph = e.ph /\ h.shows = S /\ h.ousted = e.ousted
    BY <1>1, ShownPending
  <1>5. CloseEditors(e, acts) = t
    <2>1. u = [e EXCEPT !.shows = S, !.ousted = O] BY <1>4 DEF h
    <2> QED BY <2>1 DEF CloseEditors, S, O, ps, key
  <1> HIDE DEF h
  <1>6. h \in Eds BY <1>4 DEF Pending
  <1>7. /\ u \in Eds /\ u.att = h.att /\ u.bufs = h.bufs /\ u.orphan = h.orphan /\ u.up = h.up /\ u.rd = h.rd
        /\ u.shows = S /\ u.ph = e.ph /\ u.ousted = O
    BY <1>1, <1>4, <1>6 DEF Eds
  <1> HIDE DEF u
  <1>8. Pending(u, e.shows)
    <2>1. Attached(u) BY <1>4, <1>7 DEF Pending, Attached
    <2>2. ReadsShown(u, e.shows) BY <1>4, <1>7 DEF Pending, ReadsShown
    <2>3. \A p \in u.up : e.shows[p] # None /\ (u.shows[p] = e.shows[p] => On(u, p, e.shows[p]))
      BY <1>3, <1>4, <1>7 DEF Pending, On
    <2> QED BY <1>7, <2>1, <2>2, <2>3 DEF Pending
  <1>9. \A p \in u.up \cap ps : u.shows[p] = e.shows[p] => p \in u.ousted
    <2>1. \A p \in u.up : e.shows[p] # None /\ p \in Panes BY <1>7, <1>8, EdParts DEF Pending
    <2> QED BY <1>2, <1>3, <1>7, <2>1
  <1>10. Pending(t, e.shows) /\ t.ph = u.ph BY <1>8, <1>9, ClosePending
  <1> QED BY <1>5, <1>7, <1>10

\* The plan is followed up to the next file that is to be read again.
LEMMA ReconcileKeeps ==
  ASSUME BackupInv, NEW r \in Restores, bk.restores[r].at \in {"swap", "reload"},
         fs' = fs \/ (fs'.rev = fs.rev + 1 /\ fs.rev \in Nat),
         NEW e, Good(e), e.shows = ed.shows, NEW plan \in Seq(Acts),
         applyReconciliation(r, e, bk.restores[r], plan)
  PROVE  BackupInv' /\ Good(ed') /\ ed'.ph \subseteq e.ph
  <1>1. PICK n \in Closes(plan) :
          /\ Changes(CloseEditors(e, {plan[i] : i \in 1..n}))
          /\ Goes(r, IF n = Len(plan) THEN Idle
                     ELSE [bk.restores[r] EXCEPT !.at = "reload", !.plan = SubSeq(plan, n + 1, Len(plan))])
    BY DEF applyReconciliation
  <1>2. Good(ed') /\ ed'.ph \subseteq e.ph
    <2> DEFINE u == CloseEditors(e, {plan[i] : i \in 1..n})
    <2>1. ed' = Rerender(u, e.shows) BY <1>1 DEF Changes
    <2>2. Pending(u, e.shows) /\ u.ph = e.ph BY CloseEditorsPending
    <2> HIDE DEF u
    <2> QED BY <2>1, <2>2, RerenderGood
  <1>3. BackupInv'
    <2> DEFINE rest == SubSeq(plan, n + 1, Len(plan))
               old == bk.restores[r]
               st == IF n = Len(plan) THEN Idle ELSE [old EXCEPT !.at = "reload", !.plan = rest]
    <2>1. n \in 0..Len(plan) BY DEF Closes
    <2>2. rest \in Seq(Acts) /\ (n # Len(plan) => rest # <<>>)
      <3>1. rest \in Seq(Acts) /\ Len(rest) = Len(plan) - n BY <2>1, LastOf
      <3>2. Len(plan) \in Nat OBVIOUS
      <3> HIDE DEF rest
      <3> QED BY <2>1, <3>1, <3>2
    <2> HIDE DEF rest
    <2>3. bk \in Bks /\ old.at # "idle" BY DEF BackupInv
    <2>4. old \in Underway BY <2>3, RestoreTyped
    <2>5. old.snap \in DOMAIN bk.snaps /\ old.rev <= fs.rev BY <2>3 DEF BackupInv, Points
    <2> HIDE DEF old
    <2>6. /\ st \in RestoreRecs /\ st.at \in {"idle", "reload"}
          /\ st.at # "idle" => st.snap = old.snap /\ st.rev = old.rev
          /\ st.at = "reload" => st.plan # <<>>
      BY <2>2, <2>4 DEF Underway, Stages, RestoreRecs, Idle
    <2>7. bk' = [bk EXCEPT !.restores[r] = st] BY <1>1 DEF Goes, rest, old
    <2> HIDE DEF st
    <2> QED BY <2>5, <2>6, <2>7, RestoreMoves DEF old
  <1> QED BY <1>2, <1>3

LEMMA SwapKeeps ==
  ASSUME StorageInv, NEW r \in Restores, RestoreSwap(r)
  PROVE  StorageInv'
  <1>0. /\ BackupInv /\ ed \in Eds /\ Good(ed) /\ FsOK(fs) /\ Untouched(fs, ed.ph) /\ save \in [Panes -> Saves] /\ del \in Dels
        /\ bk \in Bks
    BY DEF StorageInv, EditInv, BackupInv, Good
  <1> DEFINE st == bk.restores[r]
             tree == bk.snaps[st.snap].tree
             e == [ed EXCEPT !.ph = {}]
  <1>1. st.at = "swap" /\ fs.rev < MaxRev /\ save' = save /\ del' = del BY DEF RestoreSwap, Grows
  <1>2. st \in Underway /\ st.snap \in DOMAIN bk.snaps
    BY <1>0, <1>1, RestoreTyped DEF BackupInv, Points
  <1>3. tree \in Trees
    <2>1. bk.snaps[st.snap] \in Snaps BY <1>0, <1>2, BkElements
    <2> QED BY <2>1 DEF Snaps
  <1>4. CASE fs' = replaceTree(fs, tree) /\ \E plan \in planReconciliation(st, tree) : applyReconciliation(r, e, st, plan)
    <2>1. PICK plan \in planReconciliation(st, tree) : applyReconciliation(r, e, st, plan) BY <1>4
    <2>2. FsOK(fs') /\ Raised(fs, fs') BY <1>0, <1>1, <1>3, <1>4, ReplaceFacts
    <2>3. plan \in Seq(Acts)
      <3> DEFINE differs(k) == (k \in DOMAIN st.before) /\ (k \in DOMAIN tree => tree[k] # st.before[k])
                 shown == {p \in Panes : ed.shows[p] \in Paths /\ differs(ed.shows[p])}
                 Action(p) == LET k == ed.shows[p] IN [p |-> p, k |-> k, gone |-> k \notin DOMAIN tree \/ tree[k].dir]
                 n == Cardinality(shown)
      <3>1. PICK s \in SetToSeqs(shown) : plan = [i \in DOMAIN s |-> Action(s[i])] BY DEF planReconciliation
      <3>2. \A p \in shown : Action(p) \in Acts
        <4>1. \A k \in DOMAIN tree : tree[k].dir \in BOOLEAN
          <5>1. tree \in Listings BY <1>3 DEF Trees
          <5> QED BY <5>1, ListingFacts DEF Marks
        <4> QED BY <4>1 DEF Acts
      <3>3. n \in Nat
        <4>1. shown \in SUBSET Panes OBVIOUS
        <4> HIDE DEF shown
        <4>2. IsFiniteSet(shown) BY <4>1, EditAssumption, FS_Subset
        <4> QED BY <4>2, FS_CardinalityType
      <3> HIDE DEF shown, Action
      <3>4. s \in [1..n -> shown] BY DEF SetToSeqs
      <3>5. plan \in [1..n -> Acts] BY <3>1, <3>2, <3>4
      <3> HIDE DEF n
      <3> QED BY <3>3, <3>5, Listed
    <2>4. {} \in SUBSET Paths OBVIOUS
    <2>5. SamePanes(ed, e) /\ e.rd = ed.rd /\ e.ph = {} BY <1>0, <2>4, PhFacts
    <2>6. Good(e) /\ e.shows = ed.shows BY <1>0, <2>5, SamePanesFacts DEF SamePanes
    <2> HIDE DEF e, tree
    <2>7. fs'.rev = fs.rev + 1 /\ fs.rev \in Nat BY <2>2 DEF Raised
    <2>8. BackupInv' /\ Good(ed') /\ ed'.ph \subseteq e.ph
      BY <1>0, <1>1, <2>1, <2>3, <2>6, <2>7, ReconcileKeeps
    <2>9. Untouched(fs', ed'.ph) BY <2>5, <2>8 DEF Untouched
    <2> QED BY <1>0, <1>1, <2>2, <2>8, <2>9 DEF StorageInv, EditInv
  <1>5. CASE Goes(r, Idle) /\ fs' = fs /\ ed' = ed
    <2>1. Idle \in RestoreRecs /\ Idle.at = "idle" BY DEF Idle, RestoreRecs
    <2>2. bk' = [bk EXCEPT !.restores[r] = Idle] BY <1>5 DEF Goes
    <2>3. BackupInv' BY <1>0, <1>1, <1>5, <2>1, <2>2, RestoreMoves
    <2> QED BY <1>0, <1>1, <1>5, <2>3 DEF StorageInv, EditInv
  <1> QED BY <1>4, <1>5 DEF RestoreSwap

LEMMA ReloadKeeps ==
  ASSUME StorageInv, NEW r \in Restores, RestoreReload(r)
  PROVE  StorageInv'
  <1>0. /\ BackupInv /\ ed \in Eds /\ Good(ed) /\ FsOK(fs) /\ Untouched(fs, ed.ph) /\ save \in [Panes -> Saves] /\ del \in Dels
        /\ bk \in Bks
    BY DEF StorageInv, EditInv, BackupInv, Good
  <1> DEFINE st == bk.restores[r]
             k == Head(st.plan).k
             plan == Tail(st.plan)
             e == IF IsFile(fs, k) THEN reloadBuffer(ed, k, fs.files[k].c, fs.files[k].m) ELSE ed
  <1>1. /\ st.at = "reload" /\ applyReconciliation(r, e, st, plan) /\ fs' = fs /\ save' = save /\ del' = del
    BY DEF RestoreReload
  <1>2. st.plan \in Seq(Acts) /\ st.plan # <<>>
    <2>1. st \in Underway BY <1>0, <1>1, RestoreTyped
    <2> QED BY <1>0, <1>1, <2>1 DEF Underway, BackupInv, Points
  <1>3. plan \in Seq(Acts) BY <1>2
  <1>4. Good(e) /\ e.shows = ed.shows /\ e.ph = ed.ph
    <2>1. CASE IsFile(fs, k)
      <3> HIDE DEF k
      <3>1. fs.files[k].m \in 0..MaxRev
        <4>1. fs.files[k] \in Files BY <1>0, <2>1, FsParts DEF IsFile, Exists
        <4> QED BY <4>1 DEF Files
      <3>2. e = reloadBuffer(ed, k, fs.files[k].c, fs.files[k].m) BY <2>1
      <3> HIDE DEF e
      <3>3. SamePanes(ed, e) /\ Good(e) /\ e.ph = ed.ph BY <1>0, <2>1, <3>1, <3>2, ReloadFacts
      <3> QED BY <3>3 DEF SamePanes
    <2>2. CASE ~IsFile(fs, k) BY <1>0, <2>2
    <2> QED BY <2>1, <2>2
  <1> HIDE DEF e, plan, k
  <1>5. BackupInv' /\ Good(ed') /\ ed'.ph \subseteq e.ph BY <1>0, <1>1, <1>3, <1>4, ReconcileKeeps
  <1>6. Untouched(fs', ed'.ph) BY <1>0, <1>1, <1>4, <1>5, FewerUntouched
  <1> QED BY <1>0, <1>1, <1>5, <1>6 DEF StorageInv, EditInv

-----------------------------------------------------------------------------
(* The specification of store, editors and backups.                        *)

LEMMA SinglePath ==
  ASSUME NEW p \in Paths, Len(p) = 1
  PROVE  Rooted({p})
  <1>1. ASSUME NEW q \in Paths, isPathUnder(p, q) PROVE q = p
    <2>1. p \in Seq(Names) /\ q \in Seq(Names) /\ q # <<>> BY PathAssumption
    <2> DEFINE n == Len(q)
    <2>2. n \in Nat /\ n # 0 BY <2>1
    <2>3. n <= 1 BY <1>1 DEF isPathUnder
    <2> HIDE DEF n
    <2>4. n = 1 BY <2>2, <2>3
    <2>5. Len(q) = Len(p) BY <2>4 DEF n
    <2> QED BY <1>1, <2>1, <2>5, UnderFacts
  <1> QED BY <1>1 DEF Rooted

LEMMA EditInitInv ==
  ASSUME EditInit
  PROVE  EditInv
  <1>0. 0 \in Contents /\ 1 \in 0..MaxRev /\ 0 \in 0..MaxRev BY PathAssumption, EditAssumption DEF Contents
  <1>1. PICK p \in {q \in Paths : Len(q) = 1}, c \in Contents, d \in BOOLEAN :
          fs = [files |-> [q \in {p} |-> [dir |-> d, c |-> c, m |-> 1, own |-> TRUE]], rev |-> 1]
    BY DEF EditInit
  <1>2. FsOK(fs)
    <2> DEFINE f == [q \in {p} |-> [dir |-> d, c |-> c, m |-> 1, own |-> TRUE]]
    <2>1. f \in [{p} -> Files] BY <1>0 DEF Files
    <2>2. f \in Maps(Paths, Files) BY <2>1 DEF Maps
    <2>3. DOMAIN f = {p} OBVIOUS
    <2> HIDE DEF f
    <2>4. fs \in [files : Maps(Paths, Files), rev : 0..MaxRev] /\ fs.files = f BY <1>0, <1>1, <2>2 DEF f
    <2> QED BY <2>3, <2>4, SinglePath DEF FsOK
  <1>3. ed = [bufs |-> <<>>, att |-> <<>>, shows |-> [p1 \in Panes |-> None], up |-> {},
              lock |-> {}, ph |-> {}, rd |-> [p1 \in Panes |-> Idle], sweeps |-> {},
              ousted |-> {}, orphan |-> {}]
    BY DEF EditInit
  <1>4. \A D, R : <<>> \in Maps(D, R)
    <2>1. ASSUME NEW D, NEW R PROVE <<>> \in Maps(D, R)
      <3>1. <<>> \in [{} -> R] /\ {} \in SUBSET D OBVIOUS
      <3> QED BY <3>1 DEF Maps
    <2> QED BY <2>1
  <1>5. Idle \in Reads /\ Idle.at = "idle" BY DEF Idle, Reads
  <1>6. ed \in Eds
    <2>1. <<>> \in Maps(AllPaths, Bufs) /\ <<>> \in Maps(Panes, AllPaths) BY <1>4
    <2>2. /\ [p1 \in Panes |-> None] \in [Panes -> AllPaths \cup {None}]
          /\ [p1 \in Panes |-> Idle] \in [Panes -> Reads]
      BY <1>5
    <2> QED BY <1>3, <2>1, <2>2 DEF Eds
  <1>7. Good(ed)
    <2>1. ed.bufs = <<>> /\ ed.up = {} /\ ed.rd = [p1 \in Panes |-> Idle] BY <1>3
    <2>2. DOMAIN ed.bufs = {} BY <2>1
    <2>3. Attached(ed) BY <2>2 DEF Attached
    <2>4. ReadsShown(ed, ed.shows) BY <1>5, <2>1 DEF ReadsShown
    <2> QED BY <1>6, <2>1, <2>3, <2>4 DEF Good
  <1>8. Untouched(fs, ed.ph) BY <1>3 DEF Untouched
  <1>9. save \in [Panes -> Saves] /\ del \in Dels BY DEF EditInit, Idle, Saves, Dels
  <1> QED BY <1>2, <1>7, <1>8, <1>9 DEF EditInv

LEMMA BackupInitInv ==
  ASSUME BackupInit
  PROVE  BackupInv
  <1>1. PICK h \in Hosts, c \in Contents, p \in {q \in Paths : Len(q) = 1} :
          BackupStart(h, [q \in {p} |-> [dir |-> FALSE, c |-> c]])
    BY DEF BackupInit
  <1> DEFINE tree == [q \in {p} |-> [dir |-> FALSE, c |-> c]]
             snap == [host |-> h, mine |-> FALSE, parent |-> 0, tree |-> tree]
             job == [by |-> "auto", at |-> "queued"]
             jobs == [x \in Hosts |-> IF x = h THEN <<job>> ELSE <<>>]
  <1>2. tree \in Trees
    <2>1. tree \in [{p} -> Marks] BY DEF Marks
    <2>2. DOMAIN tree = {p} OBVIOUS
    <2>3. tree \in Listings BY <2>1 DEF Listings, Maps
    <2> HIDE DEF tree
    <2> QED BY <2>2, <2>3, SinglePath DEF Trees
  <1> HIDE DEF tree
  <1>3. snap \in Snaps BY <1>2 DEF Snaps
  <1>4. job \in Jobs /\ job.by = "auto" /\ job.at = "queued" BY DEF Jobs
  <1>5. bk = [byHost |-> [x \in Hosts |-> NoBackup], jobs |-> jobs, snaps |-> <<snap>>,
              acked |-> {}, active |-> h, timer |-> None, restores |-> [r \in Restores |-> Idle]]
    BY <1>1 DEF BackupStart, tree
  <1> HIDE DEF snap, job
  <1>6. <<snap>> \in Seq(Snaps) /\ Len(<<snap>>) = 1 BY <1>3
  <1>7. jobs \in [Hosts -> Seq(Jobs)] /\ \A x \in Hosts : \A i \in DOMAIN jobs[x] : jobs[x][i] = job
    <2>1. <<job>> \in Seq(Jobs) /\ <<>> \in Seq(Jobs) BY <1>4
    <2>2. \A i \in DOMAIN <<job>> : <<job>>[i] = job OBVIOUS
    <2>3. DOMAIN <<>> = {} OBVIOUS
    <2> QED BY <2>1, <2>2, <2>3
  <1> HIDE DEF jobs
  <1>8. NoBackup \in Hosted /\ NoBackup.last = 0 BY DEF NoBackup, Hosted
  <1>9. Idle \in RestoreRecs /\ Idle.at = "idle" BY DEF Idle, RestoreRecs
  <1>10. bk \in Bks
    <2>1. [x \in Hosts |-> NoBackup] \in [Hosts -> Hosted] /\ [r \in Restores |-> Idle] \in [Restores -> RestoreRecs]
      BY <1>8, <1>9
    <2> QED BY <1>5, <1>6, <1>7, <2>1 DEF Bks
  <1>11. InTurn(bk) BY <1>4, <1>5, <1>7 DEF InTurn
  <1>12. Chained(bk)
    <2>1. \A x \in Hosts : bk.byHost[x].last = 0 BY <1>5, <1>8
    <2>2. Len(bk.snaps) = 1 /\ bk.acked = {} BY <1>5, <1>6
    <2> QED BY <2>1, <2>2 DEF Chained
  <1>13. JobOfRestore(bk) BY <1>4, <1>5, <1>7, BackupAssumption DEF JobOfRestore
  <1>14. Points(fs, bk)
    <2>1. \A r \in Restores : bk.restores[r].at = "idle" BY <1>5, <1>9
    <2>2. \A x \in Hosts : \A i \in DOMAIN bk.jobs[x] : bk.jobs[x][i].at = "queued" /\ bk.jobs[x][i].by \notin Restores
      BY <1>4, <1>5, <1>7, BackupAssumption
    <2> QED BY <2>1, <2>2 DEF Points, Complete
  <1>15. NoSelfFork BY <1>5 DEF NoSelfFork
  <1> QED BY <1>10, <1>11, <1>12, <1>13, <1>14, <1>15 DEF BackupInv

\* The inductive step.
LEMMA EditStepKeeps ==
  ASSUME StorageInv, EditStep
  PROVE  StorageInv' /\ Kept
  <1>1. EditNext BY DEF EditStep, EditNext
  <1>2. EditInv' /\ (fs' = fs \/ Raised(fs, fs')) /\ Kept BY <1>1, EditNextFine DEF StorageInv, EditFine
  <1>3. bk' = bk \/ bk' = onMutation(bk) BY DEF EditStep
  <1>4. BackupInv' BY <1>2, <1>3, EditKeepsBackups DEF StorageInv, Raised
  <1> QED BY <1>2, <1>4 DEF StorageInv

LEMMA BackupStepKeeps ==
  ASSUME StorageInv, BackupInput \/ BackupProgress
  PROVE  StorageInv'
         /\ (UNCHANGED editVars \/ \E r \in Restores : RestoreSwap(r) \/ RestoreReload(r))
  <1>0. BackupInv /\ EditInv /\ FsOK(fs) BY DEF StorageInv, EditInv
  <1>1. ASSUME UNCHANGED editVars, BackupInv' PROVE StorageInv'
    <2>1. fs' = fs /\ ed' = ed /\ save' = save /\ del' = del BY <1>1 DEF editVars
    <2> QED BY <1>0, <1>1, <2>1 DEF StorageInv, EditInv
  <1>2. CASE BackupInput
    <2>1. UNCHANGED editVars BY <1>2 DEF BackupInput, SwitchHost, applyRemoteBackupDone, handleRestore
    <2>2. BackupInv' BY <1>0, <1>2, InputKeepsBackups
    <2> QED BY <1>1, <2>1, <2>2
  <1>3. CASE TimerFires
    <2>1. UNCHANGED editVars BY <1>3 DEF TimerFires
    <2>2. BackupInv' BY <1>0, <1>3, TimerKeeps
    <2> QED BY <1>1, <2>1, <2>2
  <1>4. ASSUME NEW h \in Hosts,
               JobStart(h) \/ JobReady(h) \/ JobPosted(h) \/ JobFails(h) \/ \E k \in Paths : buildManifest(h, k)
        PROVE  StorageInv' /\ UNCHANGED editVars
    <2>1. UNCHANGED editVars BY <1>4 DEF JobStart, JobReady, JobPosted, JobFails, buildManifest
    <2>2. ASSUME NEW k \in Paths, buildManifest(h, k) PROVE BackupInv' BY <1>0, <2>2, ReadKeeps
    <2>3. BackupInv' BY <1>0, <1>4, <2>2, StartKeeps, ReadyKeeps, PostedKeeps, FailsKeeps
    <2> QED BY <1>1, <2>1, <2>3
  <1>5. ASSUME NEW r \in Restores, RestoreRevision(r) \/ RestoreManifest(r) \/ RestoreFetched(r)
        PROVE  StorageInv' /\ UNCHANGED editVars
    <2>1. UNCHANGED editVars BY <1>5 DEF RestoreRevision, RestoreManifest, RestoreFetched
    <2>2. BackupInv' BY <1>0, <1>5, RevisionKeeps, ManifestKeeps, FetchedKeeps
    <2> QED BY <1>1, <2>1, <2>2
  <1>6. ASSUME NEW r \in Restores, RestoreSwap(r) \/ RestoreReload(r) PROVE StorageInv'
    BY <1>6, SwapKeeps, ReloadKeeps
  <1>7. CASE BackupProgress
    <2>1. \/ TimerFires
          \/ \E h \in Hosts :
                JobStart(h) \/ JobReady(h) \/ JobPosted(h) \/ JobFails(h) \/ \E k \in Paths : buildManifest(h, k)
          \/ \E r \in Restores : RestoreRevision(r) \/ RestoreManifest(r) \/ RestoreFetched(r)
          \/ \E r \in Restores : RestoreSwap(r) \/ RestoreReload(r)
      BY <1>7 DEF BackupProgress
    <2> QED BY <1>3, <1>4, <1>5, <1>6, <2>1 DEF TimerFires
  <1> QED BY <1>2, <1>7

LEMMA StorageInvHolds == StorageSpec => []StorageInv
  <1>1. StorageInit => StorageInv BY EditInitInv, BackupInitInv DEF StorageInit, StorageInv
  <1>2. StorageInv /\ [StorageStep]_backupVars => StorageInv'
    <2> SUFFICES ASSUME StorageInv, [StorageStep]_backupVars PROVE StorageInv' OBVIOUS
    <2>1. CASE StorageStep BY <2>1, EditStepKeeps, BackupStepKeeps DEF StorageStep
    <2>2. CASE UNCHANGED backupVars
      <3>1. fs' = fs /\ ed' = ed /\ save' = save /\ del' = del /\ bk' = bk BY <2>2 DEF backupVars, editVars
      <3> QED BY <3>1 DEF StorageInv, EditInv, BackupInv, NoSelfFork
    <2> QED BY <2>1, <2>2
  <1> QED BY <1>1, <1>2, PTL DEF StorageSpec

-----------------------------------------------------------------------------
(* The theorems.                                                           *)

\* EditorsSound: whatever loads, saves, renames, moves, deletes, sweeps, other
\* windows and restores interleave, every buffer belongs to a pane, every
\* mounted pane is on the buffer of the path it shows (or ousted by a restore),
\* and a registered placeholder is a file that nobody has written.
THEOREM EditorsAlwaysSound == StorageSpec => []EditorsSound
  <1>1. StorageInv => EditorsSound
    <2> SUFFICES ASSUME StorageInv PROVE EditorsSound OBVIOUS
    <2>0. FsOK(fs) /\ Good(ed) /\ Untouched(fs, ed.ph) /\ save \in [Panes -> Saves] /\ ed \in Eds
      BY DEF StorageInv, EditInv, Good
    <2>1. EditTypeOK
      <3>1. \A p \in DOMAIN fs.files : p \in Paths /\ fs.files[p].c \in Contents BY <2>0, FsParts DEF Files
      <3>2. ASSUME NEW p \in DOMAIN fs.files, Parent(p) # <<>> PROVE Exists(fs, Parent(p))
        <4> DEFINE n == Len(p) - 1
                   q == SubSeq(p, 1, n)
        <4>1. p \in Paths /\ p \in Seq(Names) /\ p # <<>> BY <3>1, PathAssumption
        <4>2. Len(p) \in Nat \ {0} BY <4>1
        <4>3. n \in 0..Len(p) /\ Len(p) >= n BY <4>2
        <4> HIDE DEF n
        <4>4. q \in Seq(Names) /\ Len(q) = n /\ \A i \in 1..n : q[i] = p[i] BY <4>1, <4>3, FirstOf
        <4>5. Parent(p) = q BY DEF Parent, n
        <4> HIDE DEF q
        <4>6. n \in 1..Len(p) BY <3>2, <4>2, <4>3, <4>4, <4>5
        <4>7. q \in Paths BY <4>1, <4>6, PathAssumption DEF q
        <4>8. isPathUnder(p, q) BY <4>1, <4>3, <4>4, UnderAgree
        <4> QED BY <2>0, <4>5, <4>7, <4>8, FsParts DEF Rooted, Exists
      <3>3. fs.rev \in 0..MaxRev BY <2>0 DEF FsOK
      <3>4. /\ DOMAIN ed.bufs \subseteq AllPaths /\ \A k \in DOMAIN ed.bufs : ed.bufs[k].m \in 0..MaxRev
            /\ DOMAIN ed.att \subseteq Panes /\ \A p \in DOMAIN ed.att : ed.att[p] \in AllPaths
            /\ ed.shows \in [Panes -> AllPaths \cup {None}]
            /\ ed.orphan \subseteq AllPaths /\ ed.up \subseteq Panes /\ ed.lock \subseteq Panes /\ ed.ph \subseteq Paths
        BY <2>0, EdParts DEF Bufs
      <3>5. DOMAIN save = Panes BY <2>0
      <3> QED BY <3>1, <3>2, <3>3, <3>4, <3>5 DEF EditTypeOK
    <2>2. BufferAttached BY <2>0 DEF Good, Attached, BufferAttached
    <2>3. PaneOnItsBuffer BY <2>0 DEF Good, On, PaneOnItsBuffer
    <2>4. PlaceholderUntouched BY <2>0 DEF Untouched, PlaceholderUntouched
    <2> QED BY <2>1, <2>2, <2>3, <2>4 DEF EditorsSound
  <1> QED BY <1>1, StorageInvHolds, PTL

\* EditsKept: no step of the editors, of the storage pane, of another window or
\* of a backup drops unsaved edits on show, unless the user types over them or
\* agrees, or a restore replaces the file, or another document takes the
\* buffer's name: in a move, or in a first save or a rename that had looked for
\* open buffers before this one was opened.
THEOREM EditsAlwaysKept == StorageSpec => EditsKept
  <1> DEFINE A == \A k \in DOMAIN ed.bufs :
                    \/ ~OnShow(ed, k) \/ ~Dirty(ed.bufs[k])
                    \/ \E x \in DOMAIN ed'.bufs : OnShow(ed', x) /\ ed'.bufs[x].c = ed.bufs[k].c
                    \/ Consent \/ NameTaken(k) \/ \E r \in Restores : RestoreSwap(r) \/ RestoreReload(r)
  <1>1. StorageInv /\ [StorageStep]_backupVars => [A]_editVars
    <2> SUFFICES ASSUME StorageInv, [StorageStep]_backupVars PROVE [A]_editVars OBVIOUS
    <2>1. CASE EditStep
      <3>1. Kept BY <2>1, EditStepKeeps
      <3> QED BY <3>1 DEF Kept
    <2>2. CASE BackupInput \/ BackupProgress
      <3>1. UNCHANGED editVars \/ \E r \in Restores : RestoreSwap(r) \/ RestoreReload(r)
        BY <2>2, BackupStepKeeps
      <3> QED BY <3>1
    <2>3. CASE UNCHANGED backupVars BY <2>3 DEF backupVars
    <2> QED BY <2>1, <2>2, <2>3 DEF StorageStep
  <1>2. StorageSpec => [][StorageStep]_backupVars BY DEF StorageSpec
  <1>3. StorageSpec => [][A]_editVars
    <2> HIDE DEF A
    <2> QED BY <1>1, <1>2, StorageInvHolds, PTL
  <1> QED BY <1>3 DEF EditsKept, A

\* NoSelfFork: the snapshots of this client that a host acknowledged form a
\* chain, whichever backups, failures, restores and host switches interleave:
\* runExclusive keeps the job that runs on the record it has read.
THEOREM NeverSelfForks == StorageSpec => []NoSelfFork
  <1>1. StorageInv => NoSelfFork BY DEF StorageInv, BackupInv
  <1> QED BY <1>1, StorageInvHolds, PTL

\* RestorePointIsTree: the tree that a restore replaces is the tree of its
\* safety snapshot, by the revision that the restore read before the snapshot
\* and compares in the swap's transaction.
THEOREM RestorePointAlwaysTree == StorageSpec => RestorePointIsTree
  <1> DEFINE A == \A r \in Restores : RestoreSwap(r) /\ fs'.rev # fs.rev =>
                    bk.snaps[bk.restores[r].point].tree = Tree(fs)
  <1>1. StorageInv => A
    <2> SUFFICES ASSUME StorageInv, NEW r \in Restores, RestoreSwap(r), fs'.rev # fs.rev
                 PROVE  bk.snaps[bk.restores[r].point].tree = Tree(fs)
      OBVIOUS
    <2>1. bk.restores[r].at = "swap" /\ bk.restores[r].rev = fs.rev BY DEF RestoreSwap
    <2> QED BY <2>1 DEF StorageInv, BackupInv, Points
  <1>2. StorageInv /\ [StorageStep]_backupVars => [A]_backupVars BY <1>1
  <1>3. StorageSpec => [][StorageStep]_backupVars BY DEF StorageSpec
  <1>4. StorageSpec => [][A]_backupVars
    <2> HIDE DEF A
    <2> QED BY <1>2, <1>3, StorageInvHolds, PTL
  <1> QED BY <1>4 DEF RestorePointIsTree, A
=============================================================================
