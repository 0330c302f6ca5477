------------------------------- MODULE Rebuild -------------------------------
(***************************************************************************)
(* The rebuild engine (spa/src/lib/rebuild): it creates a tmux session in   *)
(* place of the one a dead pane was bound to, types the agent's resume      *)
(* command into it and points the pane at it; the batch does so for every   *)
(* dead pane, once per lost session.  Every await leaves room for the tmux  *)
(* server to restart, for the host entry to be edited or removed and for    *)
(* the user to give the pane another session.                              *)
(***************************************************************************)
EXTENDS PaneRecord

CONSTANTS Addrs,               \* daemons the host entry may point at
          CREATE_ATTEMPT_CAP   \* names tried for a session

VARIABLES srv,   \* tmux servers by address, and the work of every session
          rb,    \* the window: terminals, operations, lock, calls, batch, host
          past   \* history, which only the properties read: whether every create
                 \* was answered with a generation, and whether the user has put
                 \* a session back that a rebuild under way had taken for lost

rebuildVars == <<srv, rb, past>>

\* The plan of a rebuild; whether the directory is applied changes nothing here.
Plans == [runResume : BOOLEAN]

\* A pane without an operation, without a request under way; no batch.
EmptyOp(status, binding) ==
    [status |-> status, plan |-> [runResume |-> FALSE], created |-> None, binding |-> binding,
     host |-> None, command |-> FALSE, work |-> None, resume |-> "skipped", repointed |-> FALSE]
NoOp == EmptyOp("none", None)
NoCall == [at |-> "idle"]
NoBatch == [groups |-> <<>>, running |-> FALSE]

Sessions == [code : Codes, gen : Gens \cup {Unknown}]
Bindings == Codes \X (Gens \cup {Unknown})

ASSUME RebuildAssumption ==
    /\ CREATE_ATTEMPT_CAP \in Nat \ {0}
    /\ IsFiniteSet(Addrs) /\ Addrs # {} /\ MaxGen >= 2 /\ MaxGen >= Cardinality(Addrs)
    /\ None \notin Panes /\ None \notin Addrs /\ None # "batch" /\ "batch" \notin Panes
    /\ None \notin Sessions /\ None \notin Bindings

Ops == [status : {"none", "running", "done"}, plan : Plans, created : Sessions \cup {None},
        binding : Bindings \cup {None}, host : Addrs \cup {None}, command : BOOLEAN,
        work : Works \cup {None}, resume : {"skipped", "failed", "generation", "ok"},
        repointed : BOOLEAN]

Calls == {NoCall}
         \cup [at : {"create"}, attempt : 1..CREATE_ATTEMPT_CAP]
         \cup [at : {"created"}, code : Codes, gen : Gens \cup {Unknown}]
         \cup [at : {"resume"}] \cup [at : {"resumed"}, ans : {"ok", "failed", "generation"}]
         \cup [at : {"identify"}, resume : BOOLEAN]
         \cup [at : {"identified"}, resume : BOOLEAN, same : BOOLEAN]

Groups == [binding : Bindings, source : Panes, members : SUBSET Panes]

RebuildTypeOK ==
    /\ rb.terminal \in [Panes -> PaneContents \cup {None}]
    /\ rb.op \in [Panes -> Ops] /\ rb.call \in [Panes -> Calls]
    /\ rb.lock \in Panes \cup {"batch", None} /\ rb.host \in Addrs \cup {None}
    /\ rb.batch.running \in BOOLEAN /\ rb.batch.groups \in Seq(Groups)
    /\ srv.gen \in [Addrs -> Gens] /\ srv.live \in [Addrs -> SUBSET Codes]
    /\ srv.work \in [Works -> Works \cup {None}] /\ srv.gens \in Gens
    /\ past \in [told : BOOLEAN, again : BOOLEAN]

\* Every address has a tmux server of its own.
FirstGens ==
    {gen \in [Addrs -> Gens] : /\ gen[CHOOSE x \in Addrs : TRUE] = 2
                               /\ \A a, b \in Addrs : gen[a] = gen[b] => a = b}

\* Dead panes of a first tmux server; its sessions are gone.
RebuildInit ==
    /\ \E n \in Gens, gen \in FirstGens :
         /\ n = IF Cardinality(Addrs) < 2 THEN 2 ELSE Cardinality(Addrs)
         /\ \A a \in Addrs : gen[a] <= n
         /\ srv = [gen |-> gen, live |-> [a \in Addrs |-> {}], gens |-> n,
                   work |-> [w \in Works |-> IF w[1] = 1 THEN w ELSE None]]
    /\ past = [told |-> TRUE, again |-> FALSE]
    /\ \E code \in [Panes -> Codes], agent \in Agents \cup {None} :
         rb = [terminal |-> [p \in Panes |->
                               [Attached(code[p], 1) EXCEPT
                                  !.terminated = "tmux-restarted", !.cwd = <<1, code[p]>>,
                                  !.cwdSource = "pane-probe", !.recGen = 1, !.agent = agent]],
               op |-> [p \in Panes |-> NoOp], lock |-> None,
               call |-> [p \in Panes |-> NoCall], batch |-> NoBatch,
               host |-> CHOOSE x \in Addrs : TRUE]

Spa(r) == rb' = r /\ UNCHANGED <<srv, past>>

-----------------------------------------------------------------------------
(* The environment.                                                        *)

TmuxServerRestarts(a) ==
    /\ srv.gens < MaxGen
    /\ srv' = [srv EXCEPT !.gens = @ + 1, !.gen[a] = srv.gens + 1, !.live[a] = {}]
    /\ UNCHANGED <<rb, past>>

SessionDies(a, c) ==
    /\ c \in srv.live[a]
    /\ srv' = [srv EXCEPT !.live[a] = @ \ {c}] /\ UNCHANGED <<rb, past>>

FreeCodes(a) == {c \in Codes : srv.work[<<srv.gen[a], c>>] = None}

\* A server makes a session under its next code.
SessionMade(a, c, work) ==
    /\ c \in FreeCodes(a) /\ \A y \in FreeCodes(a) : c <= y
    /\ srv' = [srv EXCEPT !.live[a] = @ \cup {c}, !.work[<<srv.gen[a], c>>] = work]

\* A session made outside this window.
ForeignSession(a) ==
    /\ \E c \in Codes : SessionMade(a, c, <<srv.gen[a], c>>)
    /\ UNCHANGED <<rb, past>>

HostEdited(a) == rb.host # a /\ Spa([rb EXCEPT !.host = a])

\* deleteHostCascade without closing the tabs.
HostRemoved ==
    /\ rb.host # None
    /\ Spa([rb EXCEPT !.host = None,
              !.terminal = [p \in Panes |->
                  IF @[p] = None THEN None ELSE markHostTerminated(@[p])]])

\* The session that a rebuild under way for the pane has taken for lost.
TakenForLost(p, binding) ==
    \/ rb.op[p].status = "running" /\ rb.op[p].binding = binding
    \/ \E i \in DOMAIN rb.batch.groups : /\ p \in rb.batch.groups[i].members
                                         /\ rb.batch.groups[i].binding = binding

\* The user gives a dead pane one of the listed sessions (TerminatedPane), or
\* closes it.
SelectOther(p, c) ==
    /\ rb.terminal[p] # None /\ rb.terminal[p].terminated # None
    /\ rb.host # None /\ c \in srv.live[rb.host]
    /\ rb' = [rb EXCEPT !.terminal[p] = Attached(c, srv.gen[rb.host])]
    /\ past' = [past EXCEPT !.again = @ \/ TakenForLost(p, <<c, srv.gen[rb.host]>>)]
    /\ UNCHANGED srv

ClosePane(p) == rb.terminal[p] # None /\ Spa([rb EXCEPT !.terminal[p] = None])

SessionsArrive ==
    /\ rb.host # None
    /\ Spa([rb EXCEPT !.terminal = [p \in Panes |->
            IF @[p] = None THEN None
            ELSE Reconcile(@[p], srv.live[rb.host], srv.gen[rb.host])]])

-----------------------------------------------------------------------------
(* Publishing and re-pointing.                                             *)

BindingNow(r, p) == IF r.terminal[p] = None THEN None ELSE Binding(r.terminal[p])

\* The operation of a pane whose rebuild was refused: written over an earlier
\* one unless that is running or has created a session.
publishRefusal(r, p) ==
    IF r.op[p].status = "running" \/ (r.op[p].status = "done" /\ r.op[p].created # None) THEN r
    ELSE [r EXCEPT !.op[p] = EmptyOp("done", BindingNow(r, p))]

\* Seeded fault: the pane is re-pointed whatever it shows by now.
BugBindingUnchanged(r, p, binding) == r.terminal[p] # None

bindingUnchanged(r, p, binding) ==
    r.terminal[p] # None /\ Binding(r.terminal[p]) = binding

\* Seeded fault: the pane keeps the generation it was bound to.
BugRepoint(c, created) == [c EXCEPT !.code = created.code, !.terminated = None]

\* The record takes the generation of the created session, if that is known.
GenerationKept(c, created) == IF created.gen = Unknown THEN c.recGen ELSE created.gen

\* defaultRepoint: attached to the created session, the record goes along.
Repoint(c, created) ==
    [c EXCEPT !.code = created.code, !.gen = created.gen, !.terminated = None,
              !.recGen = GenerationKept(c, created)]

\* The lock goes back unless a batch owns it.
Release(r, p) == IF r.lock = p THEN [r EXCEPT !.lock = None] ELSE r

\* A further pane of a group: on the group's host and still as it was planned.
repointMember(r, m, binding, o) ==
    IF r.host = o.host /\ bindingUnchanged(r, m, binding) THEN Repoint(r.terminal[m], o.created)
    ELSE r.terminal[m]

\* The other panes of the batch group whose source p is through, with the
\* status of its resume step in this run.
RepointMembers(r, p, resume) ==
    LET group == Head(r.batch.groups)
        o == r.op[p]
        good == o.created # None /\ resume \notin {"failed", "generation"}
        s == [r EXCEPT !.terminal = [m \in Panes |->
                IF good /\ m \in group.members \ {p} THEN repointMember(r, m, group.binding, o) ELSE @[m]],
                       !.batch.groups = Tail(@)]
    IN IF s.batch.groups = <<>> THEN [s EXCEPT !.batch = NoBatch, !.lock = None] ELSE s

InBatch(r, p) == r.batch.running /\ Head(r.batch.groups).source = p

finishOperation(r, p) == [r EXCEPT !.op[p].status = "done", !.call[p] = NoCall]

\* The end of an operation, then the lock or the batch.
Finished(r, p) ==
    LET s == finishOperation(r, p)
    IN IF InBatch(s, p) THEN RepointMembers(s, p, s.op[p].resume) ELSE Release(s, p)

\* runRepointStep after the resume step ended with the given status.
RepointStep(r, p, resume) ==
    LET o == r.op[p]
        ok == /\ resume \notin {"failed", "generation"}
              /\ o.created # None /\ r.host = o.host
              /\ bindingUnchanged(r, p, o.binding)
        shown == IF ok THEN Repoint(r.terminal[p], o.created) ELSE r.terminal[p]
    IN Finished([r EXCEPT !.op[p] = [o EXCEPT !.resume = resume, !.repointed = ok],
                          !.terminal[p] = shown], p)

\* runResumeStep up to its request.
ResumeStep(r, p, enabled) ==
    LET o == r.op[p]
    IN IF ~enabled \/ ~o.command THEN RepointStep(r, p, "skipped")
       ELSE IF o.created.gen = Unknown \/ r.host # o.host THEN RepointStep(r, p, "failed")
       ELSE [r EXCEPT !.call[p] = [at |-> "resume"]]

-----------------------------------------------------------------------------
(* rebuildPane.                                                            *)

\* runRebuild up to the create request.
Begin(r, p, plan) ==
    [r EXCEPT !.op[p] = [status |-> "running", plan |-> plan, created |-> None,
                         binding |-> Binding(r.terminal[p]), host |-> r.host,
                         command |-> r.terminal[p].agent # None,
                         work |-> r.terminal[p].cwd,
                         resume |-> "skipped", repointed |-> FALSE],
              !.call[p] = [at |-> "create", attempt |-> 1]]

\* What RebuildActionSet offers for a dead pane.
Offered(p) ==
    LET c == rb.terminal[p]
        shown == c # None /\ rb.op[p].status # "none" /\ rb.op[p].binding = Binding(c)
    IN /\ c # None /\ c.terminated \notin {None, "host-removed"}
       /\ ~(shown /\ (rb.op[p].status = "running" \/ rb.op[p].created # None))

\* Seeded fault: a second operation starts while the lock is held.
BugRebuildPane(p, plan) ==
    /\ Offered(p) /\ (plan.runResume => rb.terminal[p].agent # None)
    /\ rb.op[p].status # "running" /\ rb.host # None
    /\ Spa([Begin(rb, p, plan) EXCEPT !.lock = p])

rebuildPane(p, plan) ==
    /\ Offered(p)
    /\ plan.runResume => rb.terminal[p].agent # None
    /\ Spa(IF rb.lock # None \/ rb.host = None THEN publishRefusal(rb, p)
           ELSE [Begin(rb, p, plan) EXCEPT !.lock = p])

\* The daemon makes a session for the work of the pane's binding, or for work
\* of its own where the record names none; it may not report its generation.
DaemonCreates(p) ==
    LET a == rb.op[p].host
    IN /\ rb.call[p].at = "create"
       /\ \E c \in Codes, g \in {srv.gen[a], Unknown} :
            /\ SessionMade(a, c, IF rb.op[p].work = None THEN <<srv.gen[a], c>> ELSE rb.op[p].work)
            /\ rb' = [rb EXCEPT !.call[p] = [at |-> "created", code |-> c, gen |-> g]]
            /\ past' = [past EXCEPT !.told = @ /\ g # Unknown]

CreateAnswered(p) ==
    /\ rb.call[p].at = "created"
    /\ Spa(ResumeStep([rb EXCEPT !.op[p].created = [code |-> rb.call[p].code, gen |-> rb.call[p].gen]],
                      p, rb.op[p].plan.runResume))

\* Seeded fault: one name too many is tried.
BugCreateDuplicate(p) ==
    /\ rb.call[p].at = "create"
    /\ Spa(IF rb.call[p].attempt <= CREATE_ATTEMPT_CAP /\ rb.host = rb.op[p].host
           THEN [rb EXCEPT !.call[p].attempt = @ + 1] ELSE Finished(rb, p))

\* The name is taken: the next one is tried if the host entry is unchanged.
CreateDuplicate(p) ==
    /\ rb.call[p].at = "create"
    /\ Spa(IF rb.call[p].attempt < CREATE_ATTEMPT_CAP /\ rb.host = rb.op[p].host
           THEN [rb EXCEPT !.call[p].attempt = @ + 1] ELSE Finished(rb, p))

\* The request fails, or its answer is lost.
CreateFails(p) == rb.call[p].at \in {"create", "created"} /\ Spa(Finished(rb, p))

\* send-keys, which the daemon refuses for another generation.
DaemonTypes(p) ==
    LET o == rb.op[p]
    IN /\ rb.call[p].at = "resume"
       /\ rb' = [rb EXCEPT !.call[p] = [at |-> "resumed",
                    ans |-> IF srv.gen[o.host] # o.created.gen THEN "generation"
                            ELSE IF o.created.code \in srv.live[o.host] THEN "ok" ELSE "failed"]]
       /\ UNCHANGED <<srv, past>>

ResumeAnswered(p) == rb.call[p].at = "resumed" /\ Spa(RepointStep(rb, p, rb.call[p].ans))

ResumeFails(p) == rb.call[p].at \in {"resume", "resumed"} /\ Spa(RepointStep(rb, p, "failed"))

-----------------------------------------------------------------------------
(* retryResume and attachAnyway.                                           *)

\* What RebuildActionSet offers for a dead pane whose operation has created a
\* session and left the pane where it was.
TailOffered(p) ==
    /\ rb.op[p].status = "done" /\ rb.op[p].created # None /\ ~rb.op[p].repointed
    /\ rb.terminal[p] # None /\ rb.terminal[p].terminated \notin {None, "host-removed"}
    /\ rb.op[p].binding = Binding(rb.terminal[p])

\* Seeded fault: a refusal for the generation does not bar the tail.
BugResumeTail(p, withResume) ==
    /\ TailOffered(p) /\ rb.lock = None /\ rb.host = rb.op[p].host
    /\ Spa(RepointStep([rb EXCEPT !.lock = p], p, "skipped"))

\* The tail of an operation that created a session: refused for good after a
\* generation conflict, otherwise the host and the session are checked again.
resumeTail(p, withResume) ==
    /\ TailOffered(p)
    /\ withResume => rb.op[p].resume \in {"failed", "generation"}
    /\ Spa(IF rb.op[p].resume = "generation" THEN rb
           ELSE IF rb.lock # None \/ rb.host # rb.op[p].host \/ rb.op[p].created.gen = Unknown
                THEN [rb EXCEPT !.op[p].resume = IF withResume THEN "failed" ELSE "skipped"]
           ELSE [rb EXCEPT !.op[p].status = "running", !.lock = p,
                           !.call[p] = [at |-> "identify", resume |-> withResume]])

DaemonIdentifies(p) ==
    LET o == rb.op[p]
    IN /\ rb.call[p].at = "identify"
       /\ rb' = [rb EXCEPT !.call[p] =
                    [at |-> "identified", resume |-> rb.call[p].resume,
                     same |-> /\ o.created.code \in srv.live[o.host]
                              /\ srv.gen[o.host] = o.created.gen]]
       /\ UNCHANGED <<srv, past>>

IdentityAnswered(p) ==
    /\ rb.call[p].at = "identified"
    /\ Spa(IF rb.call[p].same THEN ResumeStep(rb, p, rb.call[p].resume)
           ELSE Finished([rb EXCEPT !.op[p].resume =
                            IF rb.call[p].resume THEN "failed" ELSE "skipped"], p))

IdentityFails(p) ==
    /\ rb.call[p].at \in {"identify", "identified"}
    /\ Spa(Finished([rb EXCEPT !.op[p].resume =
                        IF rb.call[p].resume THEN "failed" ELSE "skipped"], p))

-----------------------------------------------------------------------------
(* The batch.                                                              *)

Candidates == {p \in Panes : /\ rb.terminal[p] # None /\ Rebuildable(rb.terminal[p])
                             /\ rb.terminal[p].gen # Unknown}

\* groupForBatch: one group per binding; the pane with the newest record is
\* its source.
GroupsOf(order, source) ==
    [i \in DOMAIN order |->
        [binding |-> order[i], source |-> source[order[i]],
         members |-> {p \in Candidates : Binding(rb.terminal[p]) = order[i]}]]

runBatchRebuild ==
    LET bindings == {Binding(rb.terminal[p]) : p \in Candidates}
    IN /\ Candidates # {} /\ rb.lock = None
       /\ \E order \in [1..Cardinality(bindings) -> bindings], source \in [bindings -> Candidates] :
            /\ \A i, j \in DOMAIN order : order[i] = order[j] => i = j
            /\ \A b \in bindings : Binding(rb.terminal[source[b]]) = b
            /\ Spa([rb EXCEPT !.lock = "batch",
                              !.batch = [groups |-> GroupsOf(order, source), running |-> TRUE]])

\* runGroup: rebuildPane of the source under the batch's lock, for the binding
\* the batch planned from.  When that is refused, the members still follow the
\* session of an earlier operation of the source, whatever its resume came to.
BatchGroupStarts ==
    /\ rb.batch.running
    /\ LET g == Head(rb.batch.groups)
           p == g.source
           plan == [runResume |-> /\ rb.terminal[p] # None /\ rb.terminal[p].agent # None
                                  /\ ~rb.terminal[p].unverified]
       IN /\ rb.call[p].at = "idle"
          /\ Spa(IF rb.host = None \/ ~bindingUnchanged(rb, p, g.binding)
                 THEN RepointMembers(publishRefusal(rb, p), p, "skipped")
                 ELSE Begin(rb, p, plan))

RebuildNext ==
    \/ \E a \in Addrs : TmuxServerRestarts(a) \/ ForeignSession(a) \/ HostEdited(a)
                        \/ \E c \in Codes : SessionDies(a, c)
    \/ HostRemoved \/ SessionsArrive \/ runBatchRebuild \/ BatchGroupStarts
    \/ \E p \in Panes :
         \/ \E c \in Codes : SelectOther(p, c)
         \/ ClosePane(p)
         \/ \E plan \in Plans : rebuildPane(p, plan)
         \/ DaemonCreates(p) \/ CreateAnswered(p) \/ CreateDuplicate(p) \/ CreateFails(p)
         \/ DaemonTypes(p) \/ ResumeAnswered(p) \/ ResumeFails(p)
         \/ \E w \in BOOLEAN : resumeTail(p, w)
         \/ DaemonIdentifies(p) \/ IdentityAnswered(p) \/ IdentityFails(p)

RebuildSpec == RebuildInit /\ [][RebuildNext]_rebuildVars

-----------------------------------------------------------------------------
(* Properties.                                                             *)

Running == {p \in Panes : rb.op[p].status = "running"}

\* One operation runs at a time, under the lock of its pane or of the batch,
\* and a free lock means that none runs.
OneOperationAtATime ==
    /\ Cardinality(Running) <= 1
    /\ \A p \in Running : rb.lock = p \/ (rb.lock = "batch" /\ InBatch(rb, p))

\* A pane shows the work its record describes: a rebuild, its late tail or a
\* batch never points it at a session that continues another pane's work.
\* (Once a daemon has not told the generation of a session it made, a pane may
\* adopt the generation of a stranger; once a session taken for lost has been
\* put back, its pane is taken for the dead one.)
PaneShowsItsWork ==
    past.told /\ ~past.again =>
        \A p \in Panes : LET c == rb.terminal[p] IN
            c # None /\ c.cwd # None => c.gen \in Gens /\ srv.work[<<c.gen, c.code>>] = c.cwd

\* The sessions whose resume the daemon has refused for their generation.
Refused(r) ==
    {r.op[p].created : p \in {q \in Panes : r.op[q].created # None /\ r.op[q].resume = "generation"}}

\* The batch gives m the session of an earlier operation of its group's source,
\* which shows another session by now and is not rebuilt again.
FollowsEarlier(m) ==
    /\ BatchGroupStarts
    /\ LET g == Head(rb.batch.groups)
       IN m \in g.members \ {g.source} /\ ~bindingUnchanged(rb, g.source, g.binding)

\* Once the daemon has refused the resume for its generation, no pane comes to
\* show the session, neither the operation's own nor another, by a rebuild, its
\* tail, a batch, a session list or the user: its code may name another session
\* by now.  The one exception is a batch whose group is refused itself: it does
\* not ask what the resume of the earlier operation came to.
RefusedSessionStaysDetached ==
    [][\A s \in Refused(rb) \cup Refused(rb'), m \in Panes :
          BindingNow(rb', m) = <<s.code, s.gen>>
              => BindingNow(rb, m) = <<s.code, s.gen>> \/ FollowsEarlier(m)]_rebuildVars

\* What the user puts into a pane while a rebuild runs is never overwritten
\* by the rebuild: only an unchanged pane, dead since, is re-pointed.  (The
\* binding does not tell the session taken for lost from the same one put
\* back: past.again.)
UserChoiceKept ==
    [][~past.again => \A p \in Panes : rb.terminal[p] # None /\ rb.terminal[p].terminated = None =>
           \/ rb'.terminal[p] = None
           \/ /\ rb'.terminal[p].code = rb.terminal[p].code
              /\ rb.terminal[p].gen \in {Unknown, rb'.terminal[p].gen}]_rebuildVars
=============================================================================
