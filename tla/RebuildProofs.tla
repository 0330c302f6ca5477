---------------------------- MODULE RebuildProofs ----------------------------
(***************************************************************************)
(* Proofs about the rebuild engine and the session probes, for any panes,   *)
(* hosts and agents and any number of sessions and tmux servers.            *)
(***************************************************************************)
EXTENDS MCRebuild, TLAPS, FiniteSetTheorems

-----------------------------------------------------------------------------
(* The panes of the probes: a record without a directory names no           *)
(* generation, and a directory that the code recorded is of the session     *)
(* that the record names.                                                  *)

RecordOK(c) ==
    /\ c.cwd = None => c.recGen = None
    /\ c.agent = None => c.cwdSource \in {None, "pane-probe", "user"}
    /\ c.cwdSource \notin {None, "user"} /\ c.recGen # Unknown => c.cwd = <<c.recGen, c.code>>

PaneOK(c) == c \in PaneContents /\ RecordOK(c)

\* The write leaves the pane where it is.
Stays(c, d) == d.code = c.code /\ d.gen = c.gen /\ d.terminated = c.terminated

LEMMA AttachedOK ==
  ASSUME NEW code \in Codes, NEW gen \in Gens \cup {Unknown}
  PROVE  /\ PaneOK(Attached(code, gen)) /\ Attached(code, gen).gen = gen
         /\ Attached(code, gen).code = code /\ Attached(code, gen).terminated = None
         /\ Attached(code, gen).cwd = None
BY DEF PaneOK, RecordOK, Attached, PaneContents

LEMMA ReconcileOK ==
  ASSUME NEW c, PaneOK(c), NEW codes, NEW gen \in Gens \cup {Unknown}
  PROVE  LET d == Reconcile(c, codes, gen)
         IN /\ PaneOK(d)
            /\ d.terminated = None /\ gen # Unknown => d.gen = gen
BY PaneAssumption DEF PaneOK, RecordOK, PaneContents, Reconcile, markTerminated, adoptTmuxInstance, Reasons

LEMMA WriteRecordOK ==
  ASSUME NEW c \in PaneContents, NEW gen \in Gens, NEW agent \in Agents,
         NEW cwd \in Works, NEW source \in CwdSources,
         source = "user" \/ cwd = <<gen, c.code>>
  PROVE  LET d == WriteRecord(c, gen, agent, cwd, source) IN PaneOK(d) /\ Stays(c, d)
<1>1. cwd # None /\ agent # None
  BY PaneAssumption
<1> QED
  BY <1>1 DEF PaneOK, RecordOK, PaneContents, WriteRecord, Stays

LEMMA AgentGroupOK ==
  ASSUME NEW c, PaneOK(c), NEW agent \in Agents, NEW gen \in Gens
  PROVE  LET d == AgentGroup(c, agent, <<gen, c.code>>, gen) IN PaneOK(d) /\ Stays(c, d)
<1>1. c \in PaneContents /\ <<gen, c.code>> \in Works /\ <<gen, c.code>> # None
  BY PaneAssumption DEF PaneOK, PaneContents, Works
<1> QED
  BY <1>1, WriteRecordOK DEF AgentGroup, CwdSources

LEMMA ProbeCwdOK ==
  ASSUME NEW c, PaneOK(c), NEW gen \in Gens, c.gen \in {gen, Unknown}
  PROVE  LET d == ProbeCwd(c, <<gen, c.code>>) IN PaneOK(d) /\ Stays(c, d)
<1>1. c \in PaneContents /\ c.code \in Codes /\ <<gen, c.code>> \in Works
  BY DEF PaneOK, PaneContents, Works
<1>2. <<gen, c.code>> # None
  BY <1>1, PaneAssumption
<1> QED
  BY <1>1, <1>2, PaneAssumption
     DEF PaneOK, RecordOK, PaneContents, ProbeCwd, RecordGen, Stays, CwdSources

LEMMA AgentBackfillOK ==
  ASSUME NEW c, PaneOK(c), NEW agent \in Agents, NEW gen \in Gens
  PROVE  LET d == AgentBackfill(c, agent, <<gen, c.code>>, gen) IN PaneOK(d) /\ Stays(c, d)
<1> DEFINE w == <<gen, c.code>>
<1>1. c \in PaneContents /\ w \in Works /\ w # None
  BY PaneAssumption DEF PaneOK, PaneContents, Works
<1>2. PaneOK(WriteRecord(c, gen, agent, w, "agent-backfill"))
        /\ Stays(c, WriteRecord(c, gen, agent, w, "agent-backfill"))
  BY <1>1, WriteRecordOK DEF CwdSources
<1>3. ASSUME c.cwd # None, c.cwdSource = "user"
      PROVE  PaneOK(WriteRecord(c, gen, agent, c.cwd, c.cwdSource))
               /\ Stays(c, WriteRecord(c, gen, agent, c.cwd, c.cwdSource))
  BY <1>1, <1>3, WriteRecordOK DEF PaneContents, CwdSources
<1>4. ASSUME c.agent = None, ~(c.cwd = None \/ c.cwdSource = "pane-probe")
      PROVE  PaneOK(WriteRecord(c, gen, agent, c.cwd, c.cwdSource))
               /\ Stays(c, WriteRecord(c, gen, agent, c.cwd, c.cwdSource))
  <2>1. CASE c.cwdSource = "user"
    BY <1>3, <1>4, <2>1
  <2>2. CASE c.cwdSource = None
    BY <1>1, <1>4, <2>2, PaneAssumption DEF PaneOK, RecordOK, PaneContents, WriteRecord, Stays
  <2> QED
    BY <2>1, <2>2, <1>4 DEF PaneOK, RecordOK
<1>5. PaneOK([c EXCEPT !.unverified = FALSE]) /\ Stays(c, [c EXCEPT !.unverified = FALSE])
  BY <1>1 DEF PaneOK, RecordOK, PaneContents, Stays
<1> QED
  BY <1>1, <1>2, <1>3, <1>4, <1>5 DEF AgentBackfill

LEMMA EditedOK ==
  ASSUME NEW c, PaneOK(c), NEW cwd \in Works
  PROVE  /\ PaneOK(CwdField(c, cwd)) /\ Stays(c, CwdField(c, cwd))
         /\ PaneOK(FlagUnverified(c)) /\ Stays(c, FlagUnverified(c))
<1>1. c \in PaneContents /\ cwd # None
  BY PaneAssumption DEF PaneOK
<1> QED
  BY <1>1, PaneAssumption
     DEF PaneOK, RecordOK, PaneContents, CwdField, FlagUnverified, RecordGen, Stays, CwdSources

\* The session-scoped write of a patch.
LEMMA SetPaneRebuildOK ==
  ASSUME NEW panes \in [Panes -> PaneContents], \A p \in Panes : PaneOK(panes[p]),
         NEW code, NEW gen, NEW patched,
         \A p \in Panes : acceptsSessionScopedWrite(panes[p], code, gen) =>
             PaneOK(patched[p]) /\ Stays(panes[p], patched[p])
  PROVE  LET written == setPaneRebuild(panes, code, gen, patched)
         IN /\ written \in [Panes -> PaneContents]
            /\ \A p \in Panes : PaneOK(written[p]) /\ Stays(panes[p], written[p])
BY DEF setPaneRebuild, PaneOK, Stays

-----------------------------------------------------------------------------
(* The probes: an answer of a known generation tells the directory of that  *)
(* generation's session, and what the scheduler owes is pending.            *)

AnswerOK(call, k) ==
    call \in {Idle, Asked} \/ call.gen = Unknown \/ call.cwd = <<call.gen, k[1]>>

CallsOK(calls) == calls \in [Keys -> ProbeCalls] /\ \A k \in Keys : AnswerOK(calls[k], k)

Schedules == [cooling : SUBSET Keys, pending : SUBSET Keys, timer : SUBSET Keys,
              owed : SUBSET Keys]

ScheduleOK(calls, pr) ==
    /\ pr \in Schedules /\ pr.owed \subseteq pr.pending
    /\ \A k \in pr.owed : calls[k] # Idle \/ k \in pr.timer

PanesOK(panes) == panes \in [Panes -> PaneContents] /\ \A p \in Panes : PaneOK(panes[p])

\* No live pane of a known server once another has been seen.
AttachedTo(panes, open, server) ==
    open /\ server # Unknown =>
        \A p \in Panes : panes[p].terminated = None => panes[p].gen = server

ProbeInv ==
    /\ ProbeTypeOK
    /\ PanesOK(pane) /\ AttachedTo(pane, gate, seen)
    /\ CallsOK(cwdCall) /\ CallsOK(provCall) /\ ScheduleOK(provCall, prov)

LEMMA CallsDiffer == Idle # Asked /\ \A gen, cwd, agent :
    [at |-> "answered", gen |-> gen, cwd |-> cwd, agent |-> agent] \notin {Idle, Asked}
BY DEF Idle, Asked

LEMMA CwdCallsOK ==
  ASSUME CallsOK(cwdCall), NEW panes, NEW keys
  PROVE  CallsOK(CwdCalls(panes, keys))
BY DEF CallsOK, CwdCalls, AnswerOK, ProbeCalls

LEMMA LiveBindingsTyped ==
  ASSUME NEW panes \in [Panes -> PaneContents]
  PROVE  LiveBindings(panes) \subseteq Keys
BY DEF LiveBindings, Binding, Keys, PaneContents

\* A trigger starts a request, or is owed: its request is under way, or its
\* timer is armed.
LEMMA TriggersOK ==
  ASSUME CallsOK(provCall), ScheduleOK(provCall, prov), NEW panes, NEW keys \in SUBSET Keys
  PROVE  /\ CallsOK(ProvCalls(panes, keys))
         /\ ScheduleOK(ProvCalls(panes, keys), ProvTriggers(panes, keys))
<1>1. CallsOK(ProvCalls(panes, keys))
  BY DEF CallsOK, ProvCalls, AnswerOK, ProbeCalls
<1>2. /\ Startable(panes, keys) \subseteq Keys
      /\ Triggered(panes, keys) \subseteq Keys
  BY DEF Startable, Triggered
<1> DEFINE start == Startable(panes, keys)
           wait == Triggered(panes, keys) \ start
           pr == ProvTriggers(panes, keys)
           calls == ProvCalls(panes, keys)
<1>3. /\ pr.cooling = prov.cooling
      /\ pr.pending = (prov.pending \ start) \cup wait
      /\ pr.timer = (prov.timer \ start) \cup {k \in wait : provCall[k] = Idle}
      /\ pr.owed = (prov.owed \ start) \cup wait
      /\ pr \in Schedules
  BY <1>2 DEF ProvTriggers, ScheduleOK, Schedules
<1>4. \A k \in Keys : calls[k] = IF k \in start THEN Asked ELSE provCall[k]
  BY DEF ProvCalls
<1> HIDE DEF start, wait, pr, calls
<1>5. \A k \in pr.owed : calls[k] # Idle \/ k \in pr.timer
  <2> SUFFICES ASSUME NEW k \in pr.owed PROVE calls[k] # Idle \/ k \in pr.timer
    OBVIOUS
  <2>1. k \in Keys
    BY <1>3 DEF Schedules
  <2>2. CASE k \in start
    BY <1>4, <2>1, <2>2, CallsDiffer
  <2>3. CASE k \notin start
    BY <1>3, <1>4, <2>1, <2>3 DEF ScheduleOK
  <2> QED
    BY <2>2, <2>3
<1> QED
  BY <1>1, <1>3, <1>5 DEF ScheduleOK, pr, calls

LEMMA ProbeStarts == ProbeInit => ProbeInv
<1> SUFFICES ASSUME ProbeInit PROVE ProbeInv
  OBVIOUS
<1> DEFINE first == [CwdField(Attached(1, 1), <<1, 1>>) EXCEPT !.agent = CHOOSE a \in Agents : TRUE]
<1>1. 1 \in Codes /\ 1 \in Gens /\ <<1, 1>> \in Works /\ Unknown \in Gens \cup {Unknown}
  BY PaneAssumption DEF Codes, Gens, Works
<1>2. (CHOOSE a \in Agents : TRUE) \in Agents
  BY PaneAssumption
<1>3. PaneOK(first)
  <2>1. PaneOK(Attached(1, 1)) /\ PaneOK(CwdField(Attached(1, 1), <<1, 1>>))
    BY <1>1, AttachedOK, EditedOK
  <2>2. CwdField(Attached(1, 1), <<1, 1>>).cwdSource = "user"
    BY DEF CwdField, Attached
  <2> QED
    BY <1>2, <2>1, <2>2, PaneAssumption DEF PaneOK, RecordOK, PaneContents
<1>4. PaneOK(Attached(1, 1)) /\ PaneOK(Attached(1, Unknown))
  BY <1>1, AttachedOK
<1> HIDE DEF first
<1>5. PanesOK(pane)
  <2>1. pane \in [Panes -> {Attached(1, 1), Attached(1, Unknown), first}]
    BY DEF ProbeInit, first
  <2>2. \A p \in Panes : PaneOK(pane[p])
    BY <1>3, <1>4, <2>1
  <2> QED
    BY <2>1, <2>2 DEF PanesOK, PaneOK
<1>6. tmux \in [gen : Gens, live : SUBSET Codes, agent : [Codes -> Agents \cup {None}]]
  BY <1>1 DEF ProbeInit
<1>7. CallsOK(cwdCall) /\ CallsOK(provCall) /\ ScheduleOK(provCall, prov)
  BY DEF ProbeInit, CallsOK, AnswerOK, ProbeCalls, ScheduleOK, Schedules
<1>8. frames \in Seq(Frames) /\ Len(frames) <= MaxFrames
  BY ProbeAssumption DEF ProbeInit
<1>9. gate = FALSE /\ seen \in Gens \cup {Unknown} /\ disowned \in [cwd : SUBSET Keys, prov : SUBSET Keys]
  BY <1>1 DEF ProbeInit
<1> QED
  BY <1>5, <1>6, <1>7, <1>8, <1>9
     DEF ProbeInv, ProbeTypeOK, PanesOK, CallsOK, ScheduleOK, Schedules, AttachedTo

\* Writes that leave every pane where it is keep the panes attached.
LEMMA AttachedStays ==
  ASSUME NEW panes, NEW written, NEW open, NEW server, AttachedTo(panes, open, server),
         \A p \in Panes : Stays(panes[p], written[p])
  PROVE  AttachedTo(written, open, server)
BY DEF AttachedTo, Stays

LEMMA ProbeSteps == ProbeInv /\ [ProbeNext]_probeVars => ProbeInv'
<1> SUFFICES ASSUME ProbeInv, [ProbeNext]_probeVars PROVE ProbeInv'
  OBVIOUS
<1> USE DEF ProbeInv
<1>0. /\ ProbeTypeOK
      /\ frames # <<>> => /\ Head(frames) \in Frames /\ Tail(frames) \in Seq(Frames)
                         /\ Len(Tail(frames)) <= MaxFrames
      /\ \A f \in Frames : Len(frames) < MaxFrames =>
            Append(frames, f) \in Seq(Frames) /\ Len(Append(frames, f)) <= MaxFrames
  BY ProbeAssumption DEF ProbeTypeOK
<1>1. CASE TmuxRestart
  <2>1. tmux.gen + 1 \in Gens
    BY <1>0, <1>1, PaneAssumption DEF TmuxRestart, ProbeTypeOK, Gens
  <2>2. tmux' \in [gen : Gens, live : SUBSET Codes, agent : [Codes -> Agents \cup {None}]]
    BY <1>1, <2>1 DEF TmuxRestart
  <2> QED
    BY <1>0, <1>1, <2>2 DEF TmuxRestart, ProbeTypeOK
<1>2. ASSUME NEW c \in Codes, SessionClosed(c) PROVE ProbeInv'
  BY <1>0, <1>2 DEF SessionClosed, ProbeTypeOK
<1>3. ASSUME NEW c \in Codes, NEW a \in Agents, AgentStarts(c, a) PROVE ProbeInv'
  <2>1. [type |-> "hook", code |-> c, gen |-> tmux.gen, agent |-> a] \in Frames
    BY <1>0 DEF ProbeTypeOK, Frames
  <2>2. tmux' \in [gen : Gens, live : SUBSET Codes, agent : [Codes -> Agents \cup {None}]]
    BY <1>0, <1>3 DEF AgentStarts, ProbeTypeOK
  <2>3. frames' \in Seq(Frames) /\ Len(frames') <= MaxFrames
    BY <1>0, <1>3, <2>1 DEF AgentStarts, ProbeTypeOK
  <2> QED
    BY <1>0, <1>3, <2>2, <2>3 DEF AgentStarts, ProbeTypeOK
<1>4. CASE SendSessions
  <2> PICK g \in {tmux.gen, Unknown} :
        frames' = Append(frames, [type |-> "sessions", codes |-> tmux.live, gen |-> g])
    BY <1>4 DEF SendSessions
  <2>1. [type |-> "sessions", codes |-> tmux.live, gen |-> g] \in Frames
    BY <1>0 DEF ProbeTypeOK, Frames
  <2>3. frames' \in Seq(Frames) /\ Len(frames') <= MaxFrames
    BY <1>0, <1>4, <2>1 DEF SendSessions, ProbeTypeOK
  <2> QED
    BY <1>0, <1>4, <2>3 DEF SendSessions, ProbeTypeOK
<1>5. ASSUME NEW c \in Codes, SendReplay(c) PROVE ProbeInv'
  <2>1. [type |-> "replay", code |-> c, agent |-> tmux.agent[c]] \in Frames
    BY <1>0, <1>5 DEF SendReplay, ProbeTypeOK, Frames
  <2>3. frames' \in Seq(Frames) /\ Len(frames') <= MaxFrames
    BY <1>0, <1>5, <2>1 DEF SendReplay, ProbeTypeOK
  <2> QED
    BY <1>0, <1>5, <2>3 DEF SendReplay, ProbeTypeOK
<1>6. ASSUME NEW k \in Keys, NEW g \in {tmux.gen, Unknown}
      PROVE  LET a == [AnswerOf(k) EXCEPT !.gen = g]
             IN a \in ProbeCalls /\ AnswerOK(a, k) /\ a # Idle
  <2>1. k[1] \in Codes
    BY DEF Keys
  <2>2. [AnswerOf(k) EXCEPT !.gen = g] =
          [at |-> "answered", gen |-> g, cwd |-> <<tmux.gen, k[1]>>, agent |-> tmux.agent[k[1]]]
    BY DEF AnswerOf
  <2> QED
    BY <1>0, <2>1, <2>2, CallsDiffer DEF ProbeTypeOK, ProbeCalls, AnswerOK, Works
<1>7. ASSUME NEW k \in Keys, AnswerCwd(k) PROVE ProbeInv'
  <2> PICK g \in {tmux.gen, Unknown} : cwdCall' = [cwdCall EXCEPT ![k] = [AnswerOf(k) EXCEPT !.gen = g]]
    BY <1>7 DEF AnswerCwd
  <2>1. CallsOK(cwdCall')
    BY <1>6 DEF CallsOK
  <2> QED
    BY <1>0, <1>7, <2>1 DEF AnswerCwd, ProbeTypeOK, CallsOK
<1>8. ASSUME NEW k \in Keys, AnswerProvenance(k) PROVE ProbeInv'
  <2> PICK g \in {tmux.gen, Unknown} : provCall' = [provCall EXCEPT ![k] = [AnswerOf(k) EXCEPT !.gen = g]]
    BY <1>8 DEF AnswerProvenance
  <2>1. CallsOK(provCall')
    BY <1>6 DEF CallsOK
  <2>2. ScheduleOK(provCall', prov)
    BY <1>0, <1>6 DEF ScheduleOK, ProbeTypeOK
  <2> QED
    BY <1>0, <1>8, <2>1, <2>2 DEF AnswerProvenance, ProbeTypeOK, CallsOK
<1>9. CASE HandleSessions
  <2> DEFINE f == Head(frames)
             panes == [p \in Panes |-> Reconcile(pane[p], f.codes, f.gen)]
  <2>1. f \in Frames /\ f.gen \in Gens \cup {Unknown}
    BY <1>0, <1>9 DEF HandleSessions, Frames
  <2>2. \A p \in Panes : LET d == Reconcile(pane[p], f.codes, f.gen)
          IN PaneOK(d) /\ (d.terminated = None /\ f.gen # Unknown => d.gen = f.gen)
    BY <2>1, ReconcileOK DEF PanesOK
  <2>3. PanesOK(panes) /\ AttachedTo(panes, TRUE, f.gen)
    BY <2>2 DEF PanesOK, PaneOK, AttachedTo
  <2> HIDE DEF f
  <2>4. /\ pane' = panes /\ seen' = f.gen
        /\ cwdCall' = CwdCalls(panes, LiveBindings(panes))
        /\ provCall' = ProvCalls(panes, LiveBindings(panes))
        /\ prov' = ProvTriggers(panes, LiveBindings(panes))
    BY <1>9 DEF HandleSessions, f
  <2> HIDE DEF panes
  <2>5. LiveBindings(panes) \in SUBSET Keys
    BY <2>3, LiveBindingsTyped DEF PanesOK
  <2>6. CallsOK(cwdCall') /\ CallsOK(provCall') /\ ScheduleOK(provCall', prov')
    BY <2>4, <2>5, CwdCallsOK, TriggersOK
  <2> QED
    BY <1>0, <1>9, <2>1, <2>3, <2>4, <2>6
       DEF HandleSessions, ProbeTypeOK, CallsOK, PanesOK, ScheduleOK, Schedules
<1>10. ASSUME NEW panes, PanesOK(panes), \A p \in Panes : Stays(pane[p], panes[p]),
              NEW keys \in SUBSET Keys, frames # <<>>, frames' = Tail(frames), pane' = panes,
              provCall' = IF gate THEN ProvCalls(panes, keys) ELSE provCall,
              prov' = IF gate THEN ProvTriggers(panes, keys) ELSE prov,
              UNCHANGED <<tmux, gate, seen, cwdCall, disowned>>
       PROVE  ProbeInv'
  <2>1. CallsOK(provCall') /\ ScheduleOK(provCall', prov')
    BY <1>10, TriggersOK
  <2>2. AttachedTo(pane', gate', seen')
    BY <1>10, AttachedStays
  <2> QED
    BY <1>0, <1>10, <2>1, <2>2 DEF ProbeTypeOK, CallsOK, PanesOK, ScheduleOK, Schedules
<1>11. CASE HandleHook
  <2> DEFINE f == Head(frames)
             patched == [p \in Panes |-> AgentGroup(pane[p], f.agent, <<f.gen, f.code>>, f.gen)]
             panes == setPaneRebuild(pane, f.code, f.gen, patched)
             keys == {k \in LiveBindings(panes) : k[1] = f.code}
  <2>1. f.gen \in Gens /\ f.agent \in Agents
    BY <1>0, <1>11 DEF HandleHook, Frames
  <2>2. \A p \in Panes : acceptsSessionScopedWrite(pane[p], f.code, f.gen) =>
          PaneOK(patched[p]) /\ Stays(pane[p], patched[p])
    BY <2>1, AgentGroupOK DEF PanesOK, acceptsSessionScopedWrite, bindingMatchesLegacy
  <2> HIDE DEF patched
  <2>3. PanesOK(panes) /\ \A p \in Panes : Stays(pane[p], panes[p])
    BY <2>2, SetPaneRebuildOK DEF PanesOK
  <2>4. keys \in SUBSET Keys
    BY <2>3, LiveBindingsTyped DEF PanesOK
  <2>5. /\ pane' = panes
        /\ provCall' = IF gate THEN ProvCalls(panes, keys) ELSE provCall
        /\ prov' = IF gate THEN ProvTriggers(panes, keys) ELSE prov
        /\ frames # <<>> /\ frames' = Tail(frames)
        /\ UNCHANGED <<tmux, gate, seen, cwdCall, disowned>>
    BY <1>11 DEF HandleHook, patched
  <2> HIDE DEF panes, keys
  <2> QED
    BY <1>10, <2>3, <2>4, <2>5
<1>12. CASE HandleReplay
  <2> DEFINE f == Head(frames)
             doubted == {pane[p].gen : p \in {q \in Panes : /\ pane[q].code = f.code
                                                            /\ pane[q].agent \notin {None, f.agent}
                                                            /\ ~pane[q].unverified}}
             panes == [p \in Panes |->
                          IF \E g \in doubted : acceptsSessionScopedWrite(pane[p], f.code, g)
                          THEN FlagUnverified(pane[p]) ELSE pane[p]]
             keys == {k \in LiveBindings(panes) : k[1] = f.code}
  <2>1. /\ pane' = panes
        /\ provCall' = IF gate THEN ProvCalls(panes, keys) ELSE provCall
        /\ prov' = IF gate THEN ProvTriggers(panes, keys) ELSE prov
        /\ frames # <<>> /\ frames' = Tail(frames)
        /\ UNCHANGED <<tmux, gate, seen, cwdCall, disowned>>
    BY <1>12 DEF HandleReplay
  <2>2. \A p \in Panes : PaneOK(FlagUnverified(pane[p])) /\ Stays(pane[p], FlagUnverified(pane[p]))
    <3>1. <<1, 1>> \in Works
      BY PaneAssumption DEF Codes, Gens, Works
    <3> QED
      BY <3>1, EditedOK DEF PanesOK
  <2> HIDE DEF doubted
  <2>3. PanesOK(panes) /\ \A p \in Panes : Stays(pane[p], panes[p])
    BY <2>2 DEF PanesOK, PaneOK, Stays
  <2>4. keys \in SUBSET Keys
    BY <2>3, LiveBindingsTyped DEF PanesOK
  <2> HIDE DEF panes, keys
  <2> QED
    BY <1>10, <2>1, <2>3, <2>4
<1>13. CASE SocketLost
  <2>1. frames' \in Seq(Frames) /\ Len(frames') <= MaxFrames
    BY <1>13, ProbeAssumption DEF SocketLost
  <2>2. gate' = FALSE /\ seen' \in Gens \cup {Unknown} /\ AttachedTo(pane', gate', seen')
    BY <1>13 DEF SocketLost, AttachedTo
  <2> QED
    BY <1>0, <1>13, <2>1, <2>2 DEF SocketLost, ProbeTypeOK
\* A directory that answers a request is written to the panes of its binding.
<1>14. ASSUME NEW k \in Keys, CwdAnswered(k) PROVE ProbeInv'
  <2> DEFINE a == cwdCall[k]
             ours == a.gen # Unknown /\ a.gen = k[2]
             patched == [p \in Panes |-> ProbeCwd(pane[p], a.cwd)]
             written == setPaneRebuild(pane, k[1], k[2], patched)
  <2>1. a \in ProbeCalls /\ a \notin {Idle, Asked} /\ AnswerOK(a, k)
    BY <1>14 DEF CwdAnswered, CallsOK
  <2>2. ASSUME ours PROVE a.gen \in Gens /\ a.gen = k[2] /\ a.cwd = <<a.gen, k[1]>>
    BY <2>1, <2>2 DEF ProbeCalls, AnswerOK
  <2> HIDE DEF a
  <2>3. ASSUME ours PROVE PanesOK(written) /\ \A p \in Panes : Stays(pane[p], written[p])
    <3>1. \A p \in Panes : acceptsSessionScopedWrite(pane[p], k[1], k[2]) =>
            PaneOK(patched[p]) /\ Stays(pane[p], patched[p])
      BY <2>2, <2>3, ProbeCwdOK
         DEF PanesOK, acceptsSessionScopedWrite, bindingMatchesLegacy, generationMatchesLegacy
    <3> HIDE DEF patched
    <3> QED
      BY <3>1, SetPaneRebuildOK DEF PanesOK
  <2>4. /\ pane' = IF ours /\ WantsCwd(pane, k) THEN written ELSE pane
        /\ cwdCall' = [cwdCall EXCEPT ![k] = Idle]
        /\ disowned' \in [cwd : SUBSET Keys, prov : SUBSET Keys]
        /\ UNCHANGED <<tmux, gate, seen, frames, provCall, prov>>
    BY <1>0, <1>14 DEF CwdAnswered, ProbeTypeOK, a
  <2> HIDE DEF ours, patched, written
  <2>5. PanesOK(pane') /\ AttachedTo(pane', gate', seen')
    BY <2>3, <2>4, AttachedStays DEF Stays
  <2>6. CallsOK(cwdCall')
    BY <2>4 DEF CallsOK, AnswerOK, ProbeCalls
  <2> QED
    BY <1>0, <2>4, <2>5, <2>6 DEF ProbeTypeOK, CallsOK, PanesOK
<1>15. ASSUME NEW k \in Keys, CwdFailed(k) PROVE ProbeInv'
  <2>1. CallsOK(cwdCall')
    BY <1>15 DEF CwdFailed, CallsOK, AnswerOK, ProbeCalls
  <2> QED
    BY <1>0, <1>15, <2>1 DEF CwdFailed, ProbeTypeOK, CallsOK
\* The request of a trigger that came meanwhile is owed to a timer now.
<1>16. ASSUME NEW k \in Keys, ProvFinished(k)
       PROVE  CallsOK(provCall') /\ ScheduleOK(provCall', prov')
  <2>1. CallsOK(provCall')
    BY <1>16 DEF ProvFinished, CallsOK, AnswerOK, ProbeCalls
  <2>2. /\ prov' \in Schedules /\ prov'.owed = prov.owed /\ prov'.pending = prov.pending
        /\ prov'.timer = IF k \in prov.pending THEN prov.timer \cup {k} ELSE prov.timer
    BY <1>16 DEF ProvFinished, ScheduleOK, Schedules
  <2>3. \A j \in prov'.owed : provCall'[j] # Idle \/ j \in prov'.timer
    BY <1>16, <2>2 DEF ProvFinished, ScheduleOK, Schedules, CallsOK
  <2> QED
    BY <2>1, <2>2, <2>3 DEF ScheduleOK
<1>17. ASSUME NEW k \in Keys, ProvenanceAnswered(k) PROVE ProbeInv'
  <2> DEFINE a == provCall[k]
             ours == a.gen # Unknown /\ a.gen = k[2]
             patched == [p \in Panes |-> AgentBackfill(pane[p], a.agent, a.cwd, a.gen)]
             written == setPaneRebuild(pane, k[1], k[2], patched)
  <2>1. a \in ProbeCalls /\ a \notin {Idle, Asked} /\ AnswerOK(a, k)
    BY <1>17 DEF ProvenanceAnswered, CallsOK
  <2>2. ASSUME ours, a.agent # None
        PROVE  a.agent \in Agents /\ a.gen \in Gens /\ a.gen = k[2] /\ a.cwd = <<a.gen, k[1]>>
    BY <2>1, <2>2 DEF ProbeCalls, AnswerOK
  <2> HIDE DEF a
  <2>3. ASSUME ours, a.agent # None
        PROVE  PanesOK(written) /\ \A p \in Panes : Stays(pane[p], written[p])
    <3>1. \A p \in Panes : acceptsSessionScopedWrite(pane[p], k[1], k[2]) =>
            PaneOK(patched[p]) /\ Stays(pane[p], patched[p])
      BY <2>2, <2>3, AgentBackfillOK
         DEF PanesOK, acceptsSessionScopedWrite, bindingMatchesLegacy, generationMatchesLegacy
    <3> HIDE DEF patched
    <3> QED
      BY <3>1, SetPaneRebuildOK DEF PanesOK
  <2>4. /\ pane' = IF ours /\ a.agent # None /\ WantsProvenance(pane, k) THEN written ELSE pane
        /\ ProvFinished(k)
        /\ disowned' \in [cwd : SUBSET Keys, prov : SUBSET Keys]
        /\ UNCHANGED <<tmux, gate, seen, frames, cwdCall>>
    BY <1>0, <1>17 DEF ProvenanceAnswered, ProbeTypeOK, a
  <2> HIDE DEF ours, patched, written
  <2>5. PanesOK(pane') /\ AttachedTo(pane', gate', seen')
    BY <2>3, <2>4, AttachedStays DEF Stays
  <2> QED
    BY <1>0, <1>16, <2>4, <2>5 DEF ProbeTypeOK, CallsOK, PanesOK, ScheduleOK, Schedules
<1>18. ASSUME NEW k \in Keys, ProvenanceFailed(k) PROVE ProbeInv'
  BY <1>0, <1>16, <1>18 DEF ProvenanceFailed, ProbeTypeOK, CallsOK, ScheduleOK, Schedules
<1>19. ASSUME NEW k \in Keys, CooldownOver(k) PROVE ProbeInv'
  BY <1>0, <1>19 DEF CooldownOver, ProbeTypeOK, ScheduleOK, Schedules
<1>20. ASSUME NEW k \in Keys, runDeferred(k) PROVE ProbeInv'
  <2> PICK go \in BOOLEAN :
        /\ go => provCall[k] = Idle
        /\ provCall' = IF go THEN [provCall EXCEPT ![k] = Asked] ELSE provCall
        /\ prov' = [prov EXCEPT !.timer = @ \ {k}, !.pending = IF go THEN @ \ {k} ELSE @,
                                !.owed = @ \ {k}]
        /\ UNCHANGED <<tmux, pane, gate, seen, frames, cwdCall, disowned>>
    BY <1>20 DEF runDeferred
  <2>1. CallsOK(provCall')
    BY DEF CallsOK, AnswerOK, ProbeCalls
  <2>2. /\ prov' \in Schedules /\ prov'.owed = prov.owed \ {k} /\ prov'.timer = prov.timer \ {k}
        /\ prov'.pending = IF go THEN prov.pending \ {k} ELSE prov.pending
    BY DEF ScheduleOK, Schedules
  <2>3. \A j \in prov'.owed : provCall'[j] # Idle \/ j \in prov'.timer
    BY <2>2 DEF ScheduleOK, Schedules, CallsOK
  <2> QED
    BY <1>0, <2>1, <2>2, <2>3 DEF ProbeTypeOK, CallsOK, ScheduleOK, Schedules
<1>21. ASSUME NEW p \in Panes, NEW c \in Codes, SelectSession(p, c) PROVE ProbeInv'
  <2> DEFINE panes == [pane EXCEPT ![p] = Attached(c, seen)]
             keys == {<<c, seen>>}
  <2>1. /\ pane' = panes /\ cwdCall' = CwdCalls(panes, keys)
        /\ provCall' = ProvCalls(panes, keys) /\ prov' = ProvTriggers(panes, keys)
        /\ UNCHANGED <<tmux, gate, seen, frames, disowned>>
    BY <1>21 DEF SelectSession
  <2>2. PaneOK(Attached(c, seen)) /\ Attached(c, seen).gen = seen
    BY <1>0, AttachedOK DEF ProbeTypeOK
  <2>3. PanesOK(panes) /\ AttachedTo(panes, gate, seen)
    BY <2>2 DEF PanesOK, PaneOK, AttachedTo
  <2>4. keys \in SUBSET Keys
    BY <1>0 DEF Keys, ProbeTypeOK
  <2> HIDE DEF panes, keys
  <2>5. CallsOK(cwdCall') /\ CallsOK(provCall') /\ ScheduleOK(provCall', prov')
    BY <2>1, <2>4, CwdCallsOK, TriggersOK
  <2> QED
    BY <1>0, <2>1, <2>3, <2>5 DEF ProbeTypeOK, CallsOK, PanesOK, ScheduleOK, Schedules
<1>22. ASSUME NEW p \in Panes, EditCwd(p) PROVE ProbeInv'
  <2>1. <<1, 1>> \in Works
    BY PaneAssumption DEF Codes, Gens, Works
  <2>2. PaneOK(CwdField(pane[p], <<1, 1>>)) /\ Stays(pane[p], CwdField(pane[p], <<1, 1>>))
    BY <2>1, EditedOK DEF PanesOK
  <2>3. pane' = [pane EXCEPT ![p] = CwdField(pane[p], <<1, 1>>)]
    BY <1>22 DEF EditCwd, setPaneRebuildForPane
  <2>4. PanesOK(pane') /\ \A q \in Panes : Stays(pane[q], pane'[q])
    BY <2>2, <2>3 DEF PanesOK, PaneOK, Stays
  <2>5. AttachedTo(pane', gate, seen)
    BY <2>4, AttachedStays
  <2> QED
    BY <1>0, <1>22, <2>4, <2>5 DEF EditCwd, ProbeTypeOK, PanesOK
<1>23. CASE UNCHANGED probeVars
  BY <1>0, <1>23 DEF probeVars, ProbeTypeOK
<1> QED
  BY <1>1, <1>2, <1>3, <1>4, <1>5, <1>7, <1>8, <1>9, <1>11, <1>12, <1>13, <1>14, <1>15, <1>17,
     <1>18, <1>19, <1>20, <1>21, <1>22, <1>23 DEF ProbeNext

LEMMA ProbesKeepInv == ProbeSpec => []ProbeInv
BY ProbeStarts, ProbeSteps, PTL DEF ProbeSpec

LEMMA ProbeInvMeans == ProbeInv => ProbeTypeOK /\ CwdOfOwnSession /\ AttachedToSeenServer /\ NoTriggerLost
BY DEF ProbeInv, PanesOK, PaneOK, RecordOK, CwdOfOwnSession, AttachedTo, AttachedToSeenServer,
       ScheduleOK, NoTriggerLost

\* A trigger of the provenance probe is served or dropped by a deferred run,
\* never forgotten (rebuild/provenance-probe.ts): a trigger that meets a
\* request in flight stays pending, and the end of the request arms its timer.
THEOREM NoTriggerEverLost == ProbeSpec => []NoTriggerLost
BY ProbesKeepInv, ProbeInvMeans, PTL

-----------------------------------------------------------------------------
(* The window: its type, who holds the lock, what an operation remembers.   *)

Windows == [terminal : [Panes -> PaneContents \cup {None}], op : [Panes -> Ops],
            lock : Panes \cup {"batch", None}, call : [Panes -> Calls],
            batch : [groups : Seq(Groups), running : BOOLEAN],
            host : Addrs \cup {None}]

Runs(r, p) == r.op[p].status = "running"

\* An operation runs as long as its request is under way, and then its pane,
\* or the batch whose first group it rebuilds, holds the lock.
Holds(r, p) ==
    /\ Runs(r, p) <=> r.call[p].at # "idle"
    /\ Runs(r, p) => r.lock = p \/ InBatch(r, p)

BatchHolds(r) ==
    /\ r.lock = "batch" <=> r.batch.running
    /\ r.batch.running <=> r.batch.groups # <<>>

\* What an operation remembers; a refusal for the generation is never attached.
Remembers(r, p) ==
    /\ Runs(r, p) \/ r.op[p].created # None => r.op[p].host \in Addrs
    /\ r.op[p].resume = "generation" => ~r.op[p].repointed
    /\ r.op[p].status = "none" => r.op[p].created = None

WindowOK(r) ==
    /\ r \in Windows /\ BatchHolds(r)
    /\ \A p \in Panes : Holds(r, p) /\ Remembers(r, p)

\* The session made for the operation of a pane: its answer is under way, or has
\* arrived.
CallSession(r, p) == [code |-> r.call[p].code, gen |-> r.call[p].gen]
Made(r, p) == IF r.call[p].at = "created" THEN CallSession(r, p) ELSE r.op[p].created
PairOf(x) == <<x.code, x.gen>>

\* The daemon has refused the resume for the generation, whether or not the
\* window has been told.
Turned(r, p) ==
    /\ r.call[p].at # "created" /\ r.op[p].created # None
    /\ r.op[p].resume = "generation" \/ (r.call[p].at = "resumed" /\ r.call[p].ans = "generation")

\* A request is for the session that the operation has created, if any.
Asks(r, p) ==
    /\ r.call[p].at = "create" => r.op[p].created = None
    /\ r.call[p].at = "created" => r.op[p].created \in {None, CallSession(r, p)}
    /\ r.call[p].at \in {"resume", "resumed", "identify", "identified"} => r.op[p].created # None
    /\ r.call[p].at \in {"resume", "resumed"} => r.op[p].created.gen # Unknown
    /\ Runs(r, p) => r.op[p].resume # "generation"

Lawful(r) == \A p \in Panes : Asks(r, p)

\* A pane being rebuilt that lives again shows another session than the one
\* taken for lost.
Spared(r, p) ==
    LET c == r.terminal[p]
    IN Runs(r, p) /\ c # None /\ c.terminated = None =>
           c.gen # Unknown /\ Binding(c) # r.op[p].binding

\* So do the panes of the groups that wait; those that still show it are dead
\* and have a directory.
GroupSpared(r, g) ==
    /\ g.source \in g.members
    /\ \A m \in g.members : LET c == r.terminal[m] IN
         c # None => /\ c.terminated = None => c.gen # Unknown
                     /\ Binding(c) = g.binding => c.terminated # None /\ c.cwd # None

GroupsSpared(r, groups) ==
    /\ \A i \in 1..Len(groups) : GroupSpared(r, groups[i])
    /\ \A i, j \in 1..Len(groups) : i # j => groups[i].members \cap groups[j].members = {}

ChoicesSpared(r) == GroupsSpared(r, r.batch.groups) /\ \A p \in Panes : Spared(r, p)

Servers == [gen : [Addrs -> Gens], live : [Addrs -> SUBSET Codes],
            work : [Works -> Works \cup {None}], gens : Gens]

EngineInv ==
    /\ WindowOK(rb) /\ Lawful(rb)
    /\ srv \in Servers /\ past \in [told : BOOLEAN, again : BOOLEAN]
    /\ ~past.again => ChoicesSpared(rb)

-----------------------------------------------------------------------------
(* Work: where the directory of a pane leads.                              *)

Shows(work, c) ==
    c # None /\ c.cwd # None => c.gen \in Gens /\ work[<<c.gen, c.code>>] = c.cwd

\* A created session continues the work of its operation.
Continues(work, w, s) ==
    /\ s.gen \in Gens /\ work[<<s.gen, s.code>>] # None
    /\ w # None => work[<<s.gen, s.code>>] = w

OpTrue(work, r, p) ==
    LET o == r.op[p]
        c == r.terminal[p]
    IN /\ Runs(r, p) \/ o.created # None => (c # None /\ c.cwd # None => c.cwd = o.work)
       /\ o.created # None => Continues(work, o.work, o.created)
       /\ r.call[p].at = "created" =>
            Continues(work, o.work, [code |-> r.call[p].code, gen |-> r.call[p].gen])

\* The work of a group is that of its lost session, and an operation of its
\* source continues it.
GroupTrue(work, r, g) ==
    LET o == r.op[g.source]
        lost == <<g.binding[2], g.binding[1]>>
    IN /\ lost \in Works /\ work[lost] # None
       /\ Runs(r, g.source) \/ o.created # None => o.work = work[lost]

WorkTrue(work, r) ==
    /\ \A p \in Panes : Shows(work, r.terminal[p]) /\ OpTrue(work, r, p)
    /\ \A i \in 1..Len(r.batch.groups) : GroupTrue(work, r, r.batch.groups[i])

WorkInv == past.told /\ ~past.again => WorkTrue(srv.work, rb)

-----------------------------------------------------------------------------
(* What publishing and re-pointing do to a window.                         *)

LEMMA RepointOK ==
  ASSUME NEW c \in PaneContents, NEW created \in Sessions
  PROVE  LET d == Repoint(c, created)
         IN /\ d \in PaneContents /\ d # None
            /\ d.code = created.code /\ d.gen = created.gen /\ d.terminated = None
            /\ d.cwd = c.cwd
<1>1. /\ created.code \in Codes /\ created.gen \in Gens \cup {Unknown}
      /\ GenerationKept(c, created) \in Gens \cup {Unknown, None}
  BY DEF Sessions, GenerationKept, PaneContents
<1>2. LET d == Repoint(c, created)
      IN /\ d \in PaneContents /\ d.code = created.code /\ d.gen = created.gen
         /\ d.terminated = None /\ d.cwd = c.cwd
  BY <1>1 DEF Repoint, PaneContents
<1> QED
  BY <1>2, PaneAssumption

LEMMA PublishRefusalOK ==
  ASSUME NEW r, WindowOK(r), NEW p \in Panes
  PROVE  LET s == publishRefusal(r, p)
         IN /\ WindowOK(s)
            /\ s.terminal = r.terminal /\ s.call = r.call /\ s.batch = r.batch
            /\ s.lock = r.lock /\ s.host = r.host
            /\ \A q \in Panes : s.op[q] = r.op[q] \/ (~Runs(r, q) /\ ~Runs(s, q) /\ r.op[q].created = None
                                                   /\ s.op[q].created = None)
<1> DEFINE b == BindingNow(r, p)
           o == EmptyOp("done", b)
           s == [r EXCEPT !.op[p] = o]
<1>1. r \in Windows /\ r.op \in [Panes -> Ops] /\ b \in Bindings \cup {None}
  BY DEF WindowOK, Windows, BindingNow, Binding, Bindings, PaneContents
<1> HIDE DEF b
<1>3. o \in Ops /\ o.created = None /\ o.status = "done" /\ o.resume = "skipped"
  BY <1>1 DEF Ops, Plans, EmptyOp
<1> HIDE DEF o
<1>4. CASE Runs(r, p) \/ (r.op[p].status = "done" /\ r.op[p].created # None)
  BY <1>4 DEF publishRefusal, Runs
<1>5. CASE ~(Runs(r, p) \/ (r.op[p].status = "done" /\ r.op[p].created # None))
  <2>1. publishRefusal(r, p) = s
    BY <1>5 DEF publishRefusal, Runs, s, o, b
  <2>2. /\ s \in Windows /\ s.op = [r.op EXCEPT ![p] = o]
        /\ s.terminal = r.terminal /\ s.call = r.call /\ s.batch = r.batch
        /\ s.lock = r.lock /\ s.host = r.host
    BY <1>1, <1>3 DEF Windows
  <2> HIDE DEF s
  <2>3. \A q \in Panes : q # p => s.op[q] = r.op[q]
    BY <1>1, <2>2
  <2>4. s.op[p] = o
    BY <1>1, <2>2
  <2>5. r.op[p].created = None
    BY <1>1, <1>5 DEF Runs, WindowOK, Remembers, Ops
  <2>6. WindowOK(s)
    BY <1>3, <1>5, <2>2, <2>3, <2>4 DEF WindowOK, BatchHolds, Holds, Remembers, Runs, InBatch
  <2> QED
    BY <1>3, <1>5, <2>1, <2>2, <2>3, <2>4, <2>5, <2>6 DEF Runs
<1> QED
  BY <1>4, <1>5

\* A pane of the first group that still shows the lost session follows the
\* one its source has created.
Follows(r, s, p, m) ==
    LET g == Head(r.batch.groups)
        c == r.terminal[m]
    IN /\ r.op[p].created # None /\ r.host = r.op[p].host /\ m \in g.members
       /\ c # None /\ Binding(c) = g.binding
       /\ s.terminal[m] = Repoint(c, r.op[p].created)

LEMMA RepointMembersOK ==
  ASSUME NEW r, WindowOK(r), r.batch.running, \A q \in Panes : ~Runs(r, q),
         NEW p \in Panes, NEW resume
  PROVE  LET s == RepointMembers(r, p, resume)
         IN /\ WindowOK(s)
            /\ s.op = r.op /\ s.call = r.call /\ s.host = r.host
            /\ s.batch.groups = Tail(r.batch.groups)
            /\ \A m \in Panes : \/ s.terminal[m] = r.terminal[m]
                              \/ (Follows(r, s, p, m) /\ m # p /\ resume \notin {"failed", "generation"})
<1> DEFINE g == Head(r.batch.groups)
           o == r.op[p]
           good == o.created # None /\ resume \notin {"failed", "generation"}
           terminal == [m \in Panes |-> IF good /\ m \in g.members \ {p}
                                        THEN repointMember(r, m, g.binding, o) ELSE r.terminal[m]]
           rest == Tail(r.batch.groups)
           t == [r EXCEPT !.terminal = terminal, !.batch.groups = rest]
           s == RepointMembers(r, p, resume)
<1>1. /\ r \in Windows /\ r.batch.groups \in Seq(Groups) /\ r.batch.groups # <<>>
      /\ r.lock = "batch" /\ r.terminal \in [Panes -> PaneContents \cup {None}]
      /\ r.op[p] \in Ops
  BY DEF WindowOK, BatchHolds, Windows
<1>2. rest \in Seq(Groups)
  BY <1>1
<1>3. \A m \in Panes : /\ terminal[m] \in PaneContents \cup {None}
                       /\ \/ terminal[m] = r.terminal[m]
                          \/ /\ o.created # None /\ m \in g.members /\ r.terminal[m] # None
                             /\ m # p /\ resume \notin {"failed", "generation"}
                             /\ r.host = o.host /\ Binding(r.terminal[m]) = g.binding
                             /\ terminal[m] = Repoint(r.terminal[m], o.created)
  <2> SUFFICES ASSUME NEW m \in Panes, good, m \in g.members \ {p}, r.host = o.host,
                      bindingUnchanged(r, m, g.binding)
               PROVE  /\ Repoint(r.terminal[m], o.created) \in PaneContents
                      /\ r.terminal[m] # None /\ Binding(r.terminal[m]) = g.binding
    BY <1>1 DEF repointMember
  <2>1. r.terminal[m] \in PaneContents /\ o.created \in Sessions
    BY <1>1 DEF bindingUnchanged, Ops
  <2> QED
    BY <2>1, RepointOK DEF bindingUnchanged
<1>4. terminal \in [Panes -> PaneContents \cup {None}]
  BY <1>3
<1>5. s = IF t.batch.groups = <<>> THEN [t EXCEPT !.batch = NoBatch, !.lock = None] ELSE t
  BY DEF RepointMembers
<1> HIDE DEF terminal, rest
<1>6. /\ t \in Windows /\ t.terminal = terminal /\ t.batch.groups = rest
      /\ t.batch.running = r.batch.running /\ t.lock = r.lock /\ t.op = r.op
      /\ t.call = r.call /\ t.host = r.host
  BY <1>1, <1>2, <1>4 DEF Windows
<1> HIDE DEF t, s
<1>7. /\ s \in Windows /\ s.terminal = terminal /\ s.batch.groups = rest
      /\ s.op = r.op /\ s.call = r.call /\ s.host = r.host /\ BatchHolds(s)
  <2>1. CASE rest = <<>>
    <3>1. s = [t EXCEPT !.batch = NoBatch, !.lock = None]
      BY <1>5, <1>6, <2>1
    <3>2. NoBatch \in [groups : Seq(Groups), running : BOOLEAN] /\ NoBatch.groups = <<>> /\ ~NoBatch.running
      BY DEF NoBatch
    <3>3. /\ s \in Windows /\ s.terminal = terminal /\ s.batch = NoBatch /\ s.lock = None
          /\ s.op = r.op /\ s.call = r.call /\ s.host = r.host
      BY <1>6, <3>1, <3>2 DEF Windows
    <3> QED
      BY <2>1, <3>2, <3>3, RebuildAssumption DEF BatchHolds
  <2>2. CASE rest # <<>>
    BY <1>1, <1>5, <1>6, <2>2 DEF BatchHolds, WindowOK
  <2> QED
    BY <2>1, <2>2
<1>8. \A q \in Panes : Holds(s, q) /\ Remembers(s, q)
  BY <1>7 DEF WindowOK, Holds, Remembers, Runs
<1>9. \A m \in Panes : \/ s.terminal[m] = r.terminal[m]
                       \/ (Follows(r, s, p, m) /\ m # p /\ resume \notin {"failed", "generation"})
  BY <1>3, <1>7 DEF Follows
<1> QED
  BY <1>7, <1>8, <1>9 DEF WindowOK, s, rest

\* The lock admits one operation.
LEMMA OneRuns ==
  ASSUME NEW r, WindowOK(r), NEW p \in Panes, NEW q \in Panes, Runs(r, p), Runs(r, q)
  PROVE  p = q
<1>1. (r.lock = p \/ InBatch(r, p)) /\ (r.lock = q \/ InBatch(r, q))
  BY DEF WindowOK, Holds
<1>2. r.lock = "batch" <=> r.batch.running
  BY DEF WindowOK, BatchHolds
<1> QED
  BY <1>1, <1>2, RebuildAssumption DEF InBatch

\* The operation of p ends: its lock is free, or its group is done.
Ends(r, s, p) ==
    /\ s.op = [r.op EXCEPT ![p] = [r.op[p] EXCEPT !.status = "done"]]
    /\ s.call = [r.call EXCEPT ![p] = NoCall]
    /\ s.host = r.host
    /\ \A q \in Panes : ~Runs(s, q)
    /\ IF InBatch(r, p) THEN s.batch.groups = Tail(r.batch.groups)
       ELSE r.batch.groups = <<>> /\ s.batch.groups = <<>>
    /\ \A m \in Panes :
         \/ s.terminal[m] = r.terminal[m]
         \/ (InBatch(r, p) /\ Follows(r, s, p, m) /\ r.op[p].resume \notin {"failed", "generation"})

LEMMA FinishedOK ==
  ASSUME NEW r, WindowOK(r), NEW p \in Panes, Runs(r, p)
  PROVE  LET s == Finished(r, p) IN WindowOK(s) /\ Ends(r, s, p)
<1> DEFINE o == [r.op[p] EXCEPT !.status = "done"]
           t == [r EXCEPT !.op[p] = o, !.call[p] = NoCall]
<1>1. /\ r \in Windows /\ r.op \in [Panes -> Ops] /\ r.call \in [Panes -> Calls]
      /\ r.op[p] \in Ops
  BY DEF WindowOK, Windows
<1>2. /\ o \in Ops /\ o.status = "done" /\ o.created = r.op[p].created /\ o.host = r.op[p].host
      /\ o.resume = r.op[p].resume /\ o.repointed = r.op[p].repointed
  BY <1>1 DEF Ops
<1>3. finishOperation(r, p) = t
  BY <1>1 DEF finishOperation
<1> HIDE DEF o
<1>4. NoCall \in Calls /\ NoCall.at = "idle"
  BY DEF Calls, NoCall
<1>5. /\ t \in Windows /\ t.op = [r.op EXCEPT ![p] = o] /\ t.call = [r.call EXCEPT ![p] = NoCall]
      /\ t.terminal = r.terminal /\ t.lock = r.lock /\ t.batch = r.batch /\ t.host = r.host
  BY <1>1, <1>2, <1>4 DEF Windows
<1> HIDE DEF t
<1>6. \A q \in Panes : IF q = p THEN t.op[q] = o /\ t.call[q] = NoCall
                      ELSE t.op[q] = r.op[q] /\ t.call[q] = r.call[q]
  BY <1>1, <1>5
<1>7. \A q \in Panes : ~Runs(t, q)
  <2> SUFFICES ASSUME NEW q \in Panes, q # p, Runs(r, q) PROVE FALSE
    BY <1>2, <1>6 DEF Runs
  <2> QED
    BY OneRuns
<1>8. WindowOK(t)
  <2>1. \A q \in Panes : Holds(t, q)
    BY <1>4, <1>6, <1>7 DEF WindowOK, Holds, Runs
  <2>2. \A q \in Panes : Remembers(t, q)
    BY <1>2, <1>6, <1>7 DEF WindowOK, Remembers, Runs
  <2> QED
    BY <1>5, <2>1, <2>2 DEF WindowOK, BatchHolds
<1>9. InBatch(t, p) <=> InBatch(r, p)
  BY <1>5 DEF InBatch
<1>10. CASE InBatch(r, p)
  <2> DEFINE s == RepointMembers(t, p, t.op[p].resume)
  <2>1. Finished(r, p) = s
    BY <1>3, <1>9, <1>10 DEF Finished
  <2>2. /\ WindowOK(s) /\ s.op = t.op /\ s.call = t.call /\ s.host = t.host
        /\ s.batch.groups = Tail(t.batch.groups)
        /\ \A m \in Panes : \/ s.terminal[m] = t.terminal[m]
                          \/ (Follows(t, s, p, m) /\ t.op[p].resume \notin {"failed", "generation"})
    BY <1>7, <1>8, <1>9, <1>10, RepointMembersOK DEF InBatch
  <2> HIDE DEF s
  <2>3. \A m \in Panes :
          \/ s.terminal[m] = r.terminal[m]
          \/ (Follows(r, s, p, m) /\ r.op[p].resume \notin {"failed", "generation"})
    BY <1>2, <1>5, <1>6, <2>2 DEF Follows
  <2>4. \A q \in Panes : ~Runs(s, q)
    BY <1>7, <2>2 DEF Runs
  <2> QED
    BY <1>5, <1>10, <2>1, <2>2, <2>3, <2>4 DEF Ends, o
<1>11. CASE ~InBatch(r, p)
  <2>1. r.lock = p /\ r.batch.groups = <<>>
    BY <1>11, RebuildAssumption DEF WindowOK, Holds, BatchHolds
  <2> DEFINE s == [t EXCEPT !.lock = None]
  <2>2. Finished(r, p) = s
    BY <1>3, <1>5, <1>9, <1>11, <2>1 DEF Finished, Release
  <2>3. /\ s \in Windows /\ s.op = t.op /\ s.call = t.call /\ s.host = t.host /\ s.lock = None
        /\ s.batch = t.batch /\ s.terminal = t.terminal
    BY <1>5 DEF Windows
  <2> HIDE DEF s
  <2>4. WindowOK(s)
    BY <1>5, <1>7, <1>8, <2>1, <2>3, RebuildAssumption
       DEF WindowOK, BatchHolds, Holds, Remembers, Runs
  <2>5. \A q \in Panes : ~Runs(s, q)
    BY <1>7, <2>3 DEF Runs
  <2> QED
    BY <1>5, <1>11, <2>1, <2>2, <2>3, <2>4, <2>5 DEF Ends, o
<1> QED
  BY <1>10, <1>11

-----------------------------------------------------------------------------
(* The user's choices: what a window step does to the panes that live.      *)

\* Panes that live keep their session.
Keeps(r, s) ==
    \A p \in Panes : r.terminal[p] # None /\ r.terminal[p].terminated = None =>
        \/ s.terminal[p] = None
        \/ /\ s.terminal[p].code = r.terminal[p].code
           /\ r.terminal[p].gen \in {Unknown, s.terminal[p].gen}

LEMMA PoppedSpared ==
  ASSUME NEW r, NEW s, NEW groups \in Seq(Groups), groups # <<>>, GroupsSpared(r, groups),
         \A m \in Panes : m \notin Head(groups).members => s.terminal[m] = r.terminal[m]
  PROVE  GroupsSpared(s, Tail(groups))
<1> DEFINE rest == Tail(groups)
<1>1. \A i \in 1..Len(rest) :
        rest[i] = groups[i + 1] /\ i + 1 \in 1..Len(groups) /\ i + 1 # 1 /\ rest[i] \in Groups
  OBVIOUS
<1>2. 1 \in 1..Len(groups) /\ Head(groups) = groups[1]
  OBVIOUS
<1> HIDE DEF rest
<1>3. \A i \in 1..Len(rest) : GroupSpared(s, rest[i])
  <2> SUFFICES ASSUME NEW i \in 1..Len(rest) PROVE GroupSpared(s, rest[i])
    OBVIOUS
  <2>1. \A m \in rest[i].members : m \in Panes /\ s.terminal[m] = r.terminal[m]
    BY <1>1, <1>2 DEF GroupsSpared, Groups
  <2> QED
    BY <1>1, <2>1 DEF GroupsSpared, GroupSpared
<1>4. \A i, j \in 1..Len(rest) : i # j => rest[i].members \cap rest[j].members = {}
  <2> SUFFICES ASSUME NEW i \in 1..Len(rest), NEW j \in 1..Len(rest), i # j
               PROVE  rest[i].members \cap rest[j].members = {}
    OBVIOUS
  <2>1. i + 1 # j + 1
    OBVIOUS
  <2> QED
    BY <1>1, <2>1 DEF GroupsSpared
<1> QED
  BY <1>3, <1>4 DEF GroupsSpared, rest

\* Between r0 and r only the operation and the pane of p have changed.
LEMMA EndsSpared ==
  ASSUME NEW r0, NEW r, NEW s, NEW p \in Panes, ChoicesSpared(r0), WindowOK(r), Ends(r, s, p),
         r.batch = r0.batch, \A m \in Panes : m # p => r.terminal[m] = r0.terminal[m]
  PROVE  ChoicesSpared(s)
<1>1. \A q \in Panes : Spared(s, q)
  BY DEF Ends, Spared
<1>2. CASE InBatch(r, p)
  <2>1. /\ r.batch.groups \in Seq(Groups) /\ r.batch.groups # <<>>
        /\ Head(r.batch.groups) = r.batch.groups[1] /\ 1 \in 1..Len(r.batch.groups)
    BY <1>2 DEF WindowOK, Windows, BatchHolds, InBatch
  <2>2. p \in Head(r.batch.groups).members
    BY <1>2, <2>1 DEF ChoicesSpared, GroupsSpared, GroupSpared, InBatch
  <2>3. \A m \in Panes : m \notin Head(r.batch.groups).members => s.terminal[m] = r0.terminal[m]
    BY <2>2 DEF Ends, Follows
  <2>4. GroupsSpared(s, Tail(r.batch.groups))
    BY <2>1, <2>3, PoppedSpared DEF ChoicesSpared
  <2> QED
    BY <1>1, <1>2, <2>4 DEF ChoicesSpared, Ends
<1>3. CASE ~InBatch(r, p)
  BY <1>1, <1>3 DEF ChoicesSpared, Ends, GroupsSpared
<1> QED
  BY <1>2, <1>3

LEMMA EndsKeeps ==
  ASSUME NEW r0, NEW r, NEW s, NEW p \in Panes, ChoicesSpared(r0), WindowOK(r), Ends(r, s, p),
         WindowOK(r0), Runs(r0, p),
         r.batch = r0.batch, \A m \in Panes : m # p => r.terminal[m] = r0.terminal[m],
         r.terminal[p] = r0.terminal[p]
           \/ (r0.terminal[p] # None /\ Binding(r0.terminal[p]) = r0.op[p].binding)
  PROVE  Keeps(r0, s)
<1> SUFFICES ASSUME NEW m \in Panes, r0.terminal[m] # None, r0.terminal[m].terminated = None
             PROVE  s.terminal[m] = r0.terminal[m]
  BY DEF Keeps
<1>1. r.terminal[m] = r0.terminal[m]
  BY DEF ChoicesSpared, Spared
<1>2. ASSUME InBatch(r, p), Follows(r, s, p, m) PROVE FALSE
  <2>1. Head(r.batch.groups) = r.batch.groups[1] /\ 1 \in 1..Len(r.batch.groups)
    BY <1>2 DEF WindowOK, Windows, BatchHolds, InBatch
  <2> QED
    BY <1>1, <1>2, <2>1 DEF Follows, ChoicesSpared, GroupsSpared, GroupSpared
<1> QED
  BY <1>1, <1>2 DEF Ends

-----------------------------------------------------------------------------
(* Work: the panes that follow a created session show their own work.       *)

LEMMA PointedShows ==
  ASSUME NEW work, NEW c \in PaneContents, NEW created \in Sessions, NEW w,
         Continues(work, w, created), c.cwd # None => c.cwd = w
  PROVE  Shows(work, Repoint(c, created)) /\ Repoint(c, created).cwd = c.cwd
<1> DEFINE d == Repoint(c, created)
<1>1. d.code = created.code /\ d.gen = created.gen /\ d.cwd = c.cwd
  BY RepointOK
<1> HIDE DEF d
<1> SUFFICES Shows(work, d) /\ d.cwd = c.cwd
  BY DEF d
<1> QED
  BY <1>1 DEF Shows, Continues

LEMMA FollowsTrue ==
  ASSUME NEW work, NEW r, NEW s, WindowOK(r), WorkTrue(work, r), r.batch.running,
         NEW m \in Panes, Head(r.batch.groups).source \in Panes,
         Follows(r, s, Head(r.batch.groups).source, m)
  PROVE  /\ Shows(work, s.terminal[m]) /\ s.terminal[m] # None /\ r.terminal[m] # None
         /\ s.terminal[m].cwd = r.terminal[m].cwd
<1> DEFINE g == Head(r.batch.groups)
           o == r.op[g.source]
           c == r.terminal[m]
<1>1. /\ r.batch.groups \in Seq(Groups) /\ r.batch.groups # <<>> /\ r.batch.groups[1] = g
      /\ 1 \in 1..Len(r.batch.groups)
  BY DEF WindowOK, Windows, BatchHolds
<1>2. /\ c \in PaneContents /\ o.created \in Sessions /\ Binding(c) = g.binding
      /\ s.terminal[m] = Repoint(c, o.created) /\ c # None
  BY DEF Follows, WindowOK, Windows, Ops
<1>3. GroupTrue(work, r, g) /\ Shows(work, c) /\ OpTrue(work, r, g.source)
  BY <1>1 DEF WorkTrue
<1>4. o.created # None
  BY DEF Follows
<1>5. Continues(work, o.work, o.created)
  BY <1>3, <1>4 DEF OpTrue
<1>6. g.binding[1] = c.code /\ g.binding[2] = c.gen
  <2>1. g.binding = <<c.code, c.gen>>
    BY <1>2 DEF Binding
  <2> HIDE DEF g, c
  <2> QED
    BY <2>1
<1>7. c.cwd # None => c.cwd = o.work
  BY <1>2, <1>3, <1>4, <1>6 DEF GroupTrue, Shows
<1> DEFINE w == o.work
           created == o.created
<1>8. c \in PaneContents /\ created \in Sessions /\ Continues(work, w, created) /\ (c.cwd # None => c.cwd = w)
  BY <1>2, <1>5, <1>7
<1>9. s.terminal[m] = Repoint(c, created) /\ c # None /\ c = r.terminal[m]
  BY <1>2
<1> HIDE DEF c, w, created
<1> QED
  BY <1>8, <1>9, PointedShows, RepointOK

\* A step that moves panes only that way, starts nothing and plans nothing.
LEMMA MovedTrue ==
  ASSUME NEW work, NEW r, NEW s, WindowOK(r), WorkTrue(work, r),
         \A q \in Panes :
             /\ s.op[q].work = r.op[q].work /\ s.op[q].created = r.op[q].created
             /\ Runs(s, q) => Runs(r, q)
             /\ s.call[q].at = "created" => s.call[q] = r.call[q],
         \A m \in Panes :
             \/ s.terminal[m] = r.terminal[m]
             \/ /\ r.batch.running /\ Head(r.batch.groups).source \in Panes
                /\ Follows(r, s, Head(r.batch.groups).source, m),
         \A i \in 1..Len(s.batch.groups) :
             /\ s.batch.groups[i] \in Groups
             /\ \E j \in 1..Len(r.batch.groups) : s.batch.groups[i] = r.batch.groups[j]
  PROVE  WorkTrue(work, s)
<1>1. \A m \in Panes :
        /\ Shows(work, s.terminal[m])
        /\ s.terminal[m] # None =>
             r.terminal[m] # None /\ s.terminal[m].cwd = r.terminal[m].cwd
  <2> SUFFICES ASSUME NEW m \in Panes
               PROVE  /\ Shows(work, s.terminal[m])
                      /\ s.terminal[m] # None =>
                           r.terminal[m] # None /\ s.terminal[m].cwd = r.terminal[m].cwd
    OBVIOUS
  <2>1. CASE s.terminal[m] = r.terminal[m]
    BY <2>1 DEF WorkTrue
  <2>2. CASE s.terminal[m] # r.terminal[m]
    <3>1. /\ r.batch.running /\ Head(r.batch.groups).source \in Panes
          /\ Follows(r, s, Head(r.batch.groups).source, m)
      BY <2>2
    <3> QED
      BY <3>1, FollowsTrue
  <2> QED
    BY <2>1, <2>2
<1>2. \A q \in Panes : OpTrue(work, s, q)
  BY <1>1 DEF WorkTrue, OpTrue
<1>3. \A i \in 1..Len(s.batch.groups) : GroupTrue(work, s, s.batch.groups[i])
  <2> SUFFICES ASSUME NEW i \in 1..Len(s.batch.groups) PROVE GroupTrue(work, s, s.batch.groups[i])
    OBVIOUS
  <2> PICK j \in 1..Len(r.batch.groups) : s.batch.groups[i] = r.batch.groups[j]
    OBVIOUS
  <2>1. GroupTrue(work, r, s.batch.groups[i]) /\ s.batch.groups[i].source \in Panes
    BY DEF WorkTrue, Groups
  <2> QED
    BY <2>1 DEF GroupTrue
<1> QED
  BY <1>1, <1>2, <1>3 DEF WorkTrue

LEMMA EndsTrue ==
  ASSUME NEW work, NEW r, NEW s, WindowOK(r), WorkTrue(work, r), NEW p \in Panes, Ends(r, s, p)
  PROVE  WorkTrue(work, s)
<1>1. /\ r.op \in [Panes -> Ops] /\ r.call \in [Panes -> Calls] /\ r.batch.groups \in Seq(Groups)
  BY DEF WindowOK, Windows
<1>2. \A q \in Panes :
        /\ s.op[q].work = r.op[q].work /\ s.op[q].created = r.op[q].created
        /\ ~Runs(s, q) /\ (s.call[q].at = "created" => s.call[q] = r.call[q])
  <2> SUFFICES ASSUME NEW q \in Panes
               PROVE  /\ s.op[q].work = r.op[q].work /\ s.op[q].created = r.op[q].created
                      /\ (s.call[q].at = "created" => s.call[q] = r.call[q])
    BY DEF Ends
  <2>1. r.op[p] \in Ops /\ r.op[q] \in Ops
    BY <1>1
  <2>2. CASE q = p
    <3>1. s.op[q] = [r.op[p] EXCEPT !.status = "done"] /\ s.call[q] = NoCall
      BY <1>1, <2>2 DEF Ends
    <3> QED
      BY <2>1, <2>2, <3>1 DEF Ops, NoCall
  <2>3. CASE q # p
    BY <1>1, <2>3 DEF Ends
  <2> QED
    BY <2>2, <2>3
<1>3. \A m \in Panes :
        s.terminal[m] = r.terminal[m] \/
         (/\ r.batch.running /\ Head(r.batch.groups).source \in Panes
          /\ Follows(r, s, Head(r.batch.groups).source, m))
  BY DEF Ends, InBatch
<1>4. \A i \in 1..Len(s.batch.groups) :
        /\ s.batch.groups[i] \in Groups
        /\ \E j \in 1..Len(r.batch.groups) : s.batch.groups[i] = r.batch.groups[j]
  <2>1. CASE InBatch(r, p)
    <3>1. r.batch.groups # <<>> /\ s.batch.groups = Tail(r.batch.groups)
      BY <2>1 DEF Ends, InBatch, WindowOK, BatchHolds
    <3>2. \A i \in 1..Len(s.batch.groups) :
            /\ i + 1 \in 1..Len(r.batch.groups) /\ s.batch.groups[i] = r.batch.groups[i + 1]
            /\ s.batch.groups[i] \in Groups
      BY <1>1, <3>1
    <3> QED
      BY <3>2
  <2>2. CASE ~InBatch(r, p)
    BY <2>2 DEF Ends
  <2> QED
    BY <2>1, <2>2
<1> QED
  BY <1>2, <1>3, <1>4, MovedTrue

-----------------------------------------------------------------------------
(* A step of the window, on the sessions with the given work.               *)

\* The session of an operation stays, on its host, or goes with the operation;
\* none is turned down.
Descends(r, s) ==
    \A p \in Panes :
        \/ Made(s, p) = None
        \/ /\ Made(s, p) = Made(r, p) /\ s.op[p].host = r.op[p].host
           /\ Turned(s, p) => Turned(r, p)

\* A pane that gets another session gets one that an operation has made and
\* that was not turned down.
GivenTo(r, s, m) ==
    \/ BindingNow(s, m) \in {None, BindingNow(r, m)}
    \/ \E p \in Panes : Made(r, p) # None /\ ~Turned(r, p) /\ BindingNow(s, m) = PairOf(Made(r, p))

Gives(r, s) == \A m \in Panes : GivenTo(r, s, m)

Steady(work, r, s) ==
    /\ WindowOK(s)
    /\ ChoicesSpared(r) => ChoicesSpared(s) /\ Keeps(r, s)
    /\ Lawful(r) => Lawful(s) /\ Descends(r, s)
    /\ ChoicesSpared(r) /\ WorkTrue(work, r) => WorkTrue(work, s)

Sound(work, r, s) == Steady(work, r, s) /\ (Lawful(r) => Gives(r, s))

Results == {"skipped", "failed", "generation", "ok"}

\* Up to t only the operation of p has got on, and its pane has been pointed
\* at the created session if it was unchanged; then the operation ends.
LEMMA EndSound ==
  ASSUME NEW work, NEW r, WindowOK(r), NEW t, WindowOK(t), NEW p \in Panes, Runs(r, p), Runs(t, p),
         t.batch = r.batch, t.call = r.call, t.op[p].created = r.op[p].created,
         t.op[p].host = r.op[p].host,
         Lawful(r) => /\ t.op[p].resume = "generation" => Turned(r, p)
                      /\ t.op[p].resume \notin {"failed", "generation"} => ~Turned(r, p),
         t.op[p].work = r.op[p].work, \A q \in Panes : q # p => t.op[q] = r.op[q],
         \A m \in Panes : m # p => t.terminal[m] = r.terminal[m],
         \/ t.terminal[p] = r.terminal[p]
         \/ /\ r.op[p].created # None /\ r.terminal[p] # None
            /\ Binding(r.terminal[p]) = r.op[p].binding
            /\ t.terminal[p] = Repoint(r.terminal[p], r.op[p].created)
            /\ t.op[p].resume \notin {"failed", "generation"}
  PROVE  Sound(work, r, Finished(t, p))
<1> DEFINE s == Finished(t, p)
<1>1. WindowOK(s) /\ Ends(t, s, p)
  BY FinishedOK
<1> HIDE DEF s
<1>2. ASSUME ChoicesSpared(r) PROVE ChoicesSpared(s) /\ Keeps(r, s)
  <2>1. ChoicesSpared(s)
    BY <1>1, <1>2, EndsSpared
  <2>2. t.terminal[p] = r.terminal[p]
          \/ (r.terminal[p] # None /\ Binding(r.terminal[p]) = r.op[p].binding)
    OBVIOUS
  <2>3. Keeps(r, s)
    BY <1>1, <1>2, <2>2, EndsKeeps
  <2> QED
    BY <2>1, <2>3
<1>3. ASSUME Lawful(r) PROVE Lawful(s) /\ Descends(r, s) /\ Gives(r, s)
  <2>1. /\ r.op \in [Panes -> Ops] /\ r.call \in [Panes -> Calls] /\ t.op \in [Panes -> Ops]
        /\ t.op[p] \in Ops
    BY DEF WindowOK, Windows
  <2>2. \A q \in Panes : q # p => s.op[q] = r.op[q] /\ s.call[q] = r.call[q]
    BY <1>1, <2>1 DEF Ends
  <2>3. s.op[p] = [t.op[p] EXCEPT !.status = "done"] /\ s.call[p] = NoCall
    BY <1>1, <2>1 DEF Ends
  <2>4. /\ s.op[p].created = r.op[p].created /\ s.op[p].host = r.op[p].host
        /\ s.op[p].resume = t.op[p].resume /\ s.call[p].at = "idle"
    BY <2>1, <2>3 DEF Ops, NoCall
  <2>5. \A q \in Panes : ~Runs(s, q)
    BY <1>1 DEF Ends
  <2>6. Lawful(s)
    BY <1>3, <2>2, <2>4, <2>5 DEF Lawful, Asks, CallSession
  <2>7. r.op[p].created # None => Made(r, p) = r.op[p].created
    BY <1>3 DEF Lawful, Asks, Made
  <2>8. Descends(r, s)
    <3> SUFFICES ASSUME NEW q \in Panes, Made(s, q) # None
                 PROVE  /\ Made(s, q) = Made(r, q) /\ s.op[q].host = r.op[q].host
                        /\ Turned(s, q) => Turned(r, q)
      BY DEF Descends
    <3>1. CASE q = p
      <4>1. Made(s, p) = r.op[p].created
        BY <2>4 DEF Made
      <4> QED
        BY <1>3, <2>4, <2>7, <3>1, <4>1 DEF Turned
    <3>2. CASE q # p
      BY <2>2, <3>2 DEF Made, CallSession, Turned
    <3> QED
      BY <3>1, <3>2
  <2>9. ASSUME NEW c \in PaneContents, r.op[p].created # None
        PROVE  /\ Repoint(c, r.op[p].created) # None
               /\ Binding(Repoint(c, r.op[p].created)) = PairOf(Made(r, p))
    <3>1. r.op[p].created \in Sessions
      BY <2>1, <2>9 DEF Ops
    <3> QED
      BY <2>7, <2>9, <3>1, RepointOK DEF Binding, PairOf
  <2>10. Gives(r, s)
    <3> SUFFICES ASSUME NEW m \in Panes PROVE GivenTo(r, s, m)
      BY DEF Gives
    <3>1. CASE s.terminal[m] = r.terminal[m]
      BY <3>1 DEF GivenTo, BindingNow
    <3>2. ASSUME NEW c \in PaneContents, r.op[p].created # None, s.terminal[m] = Repoint(c, r.op[p].created),
                 t.op[p].resume \notin {"failed", "generation"}
          PROVE  GivenTo(r, s, m)
      BY <1>3, <2>7, <2>9, <3>2 DEF GivenTo, BindingNow
    <3>3. CASE s.terminal[m] = t.terminal[m] /\ t.terminal[m] # r.terminal[m]
      <4>1. m = p /\ r.terminal[p] \in PaneContents
        BY <3>3 DEF WindowOK, Windows
      <4> QED
        BY <3>2, <3>3, <4>1
    <3>4. CASE s.terminal[m] # t.terminal[m]
      <4>1. Follows(t, s, p, m) /\ t.op[p].resume \notin {"failed", "generation"}
        BY <1>1, <3>4 DEF Ends
      <4>2. t.terminal[m] \in PaneContents /\ s.terminal[m] = Repoint(t.terminal[m], r.op[p].created)
        BY <4>1 DEF Follows, WindowOK, Windows
      <4> QED
        BY <3>2, <4>1, <4>2 DEF Follows
    <3> QED
      BY <3>1, <3>3, <3>4
  <2> QED
    BY <2>6, <2>8, <2>10
<1>4. ASSUME WorkTrue(work, r) PROVE WorkTrue(work, s)
  <2>1. /\ Shows(work, t.terminal[p])
        /\ t.terminal[p] # None => r.terminal[p] # None /\ t.terminal[p].cwd = r.terminal[p].cwd
    <3>1. CASE t.terminal[p] = r.terminal[p]
      BY <1>4, <3>1 DEF WorkTrue
    <3>2. CASE t.terminal[p] # r.terminal[p]
      <4> DEFINE c == r.terminal[p]
                 created == r.op[p].created
                 w == r.op[p].work
      <4>1. /\ c \in PaneContents /\ created \in Sessions /\ c # None /\ created # None
            /\ t.terminal[p] = Repoint(c, created)
        BY <3>2 DEF WindowOK, Windows, Ops
      <4>2. Continues(work, w, created) /\ (c.cwd # None => c.cwd = w)
        BY <1>4, <4>1 DEF WorkTrue, OpTrue
      <4>3. c = r.terminal[p]
        OBVIOUS
      <4> HIDE DEF c, created, w
      <4> QED
        BY <4>1, <4>2, <4>3, PointedShows
    <3> QED
      BY <3>1, <3>2
  <2>2. \A m \in Panes : Shows(work, t.terminal[m])
    BY <1>4, <2>1 DEF WorkTrue
  <2>3. \A q \in Panes : OpTrue(work, t, q)
    BY <1>4, <2>1 DEF WorkTrue, OpTrue, Runs
  <2>4. \A i \in 1..Len(t.batch.groups) : GroupTrue(work, t, t.batch.groups[i])
    <3> SUFFICES ASSUME NEW i \in 1..Len(t.batch.groups) PROVE GroupTrue(work, t, t.batch.groups[i])
      OBVIOUS
    <3>1. GroupTrue(work, r, t.batch.groups[i]) /\ t.batch.groups[i].source \in Panes
      <4>1. r.batch.groups \in Seq(Groups) /\ r.batch.groups = t.batch.groups
        BY DEF WindowOK, Windows
      <4>2. t.batch.groups[i] \in Groups
        BY <4>1
      <4> QED
        BY <1>4, <4>1, <4>2 DEF WorkTrue, Groups
    <3> DEFINE g == t.batch.groups[i]
    <3>2. /\ t.op[g.source].work = r.op[g.source].work
          /\ t.op[g.source].created = r.op[g.source].created
          /\ Runs(t, g.source) => Runs(r, g.source)
      BY <3>1 DEF Runs
    <3> HIDE DEF g
    <3>3. GroupTrue(work, r, g)
      BY <3>1 DEF g
    <3> QED
      BY <3>2, <3>3 DEF GroupTrue, g
  <2>5. WorkTrue(work, t)
    BY <2>2, <2>3, <2>4 DEF WorkTrue
  <2> QED
    BY <1>1, <2>5, EndsTrue
<1> QED
  BY <1>1, <1>2, <1>3, <1>4 DEF Sound, Steady, s

LEMMA RepointStepSound ==
  ASSUME NEW work, NEW r, WindowOK(r), NEW p \in Panes, Runs(r, p), NEW resume \in Results,
         Lawful(r) => /\ resume = "generation" => Turned(r, p)
                      /\ resume \notin {"failed", "generation"} => ~Turned(r, p)
  PROVE  Sound(work, r, RepointStep(r, p, resume))
<1> DEFINE o == r.op[p]
           ok == /\ resume \notin {"failed", "generation"}
                 /\ o.created # None /\ r.host = o.host
                 /\ bindingUnchanged(r, p, o.binding)
           shown == IF ok THEN Repoint(r.terminal[p], o.created) ELSE r.terminal[p]
           after == [o EXCEPT !.resume = resume, !.repointed = ok]
           t == [r EXCEPT !.op[p] = after, !.terminal[p] = shown]
<1>1. RepointStep(r, p, resume) = Finished(t, p)
  BY DEF RepointStep
<1>2. /\ r \in Windows /\ r.op \in [Panes -> Ops] /\ o \in Ops
      /\ r.terminal \in [Panes -> PaneContents \cup {None}]
  BY DEF WindowOK, Windows
<1>3. ok \in BOOLEAN /\ (ok => resume \notin {"failed", "generation"})
  OBVIOUS
<1>4. ok => /\ o.created \in Sessions /\ o.created # None /\ r.terminal[p] \in PaneContents
            /\ r.terminal[p] # None /\ Binding(r.terminal[p]) = o.binding
  BY <1>2 DEF bindingUnchanged, Ops
<1>5. shown \in PaneContents \cup {None}
  BY <1>2, <1>4, RepointOK
<1> HIDE DEF ok
<1>6. /\ after \in Ops /\ after.status = o.status /\ after.created = o.created
      /\ after.host = o.host /\ after.work = o.work /\ after.resume = resume
      /\ after.repointed = ok
  BY <1>2, <1>3 DEF Ops, Results
<1>7. shown = r.terminal[p] \/ (ok /\ shown = Repoint(r.terminal[p], o.created))
  OBVIOUS
<1> HIDE DEF after, shown
<1>8. /\ t \in Windows /\ t.op = [r.op EXCEPT ![p] = after]
      /\ t.terminal = [r.terminal EXCEPT ![p] = shown] /\ t.lock = r.lock
      /\ t.call = r.call /\ t.batch = r.batch /\ t.host = r.host
  BY <1>2, <1>5, <1>6 DEF Windows
<1> HIDE DEF t
<1>9. /\ t.op[p] = after /\ \A q \in Panes : q # p => t.op[q] = r.op[q]
      /\ t.terminal[p] = shown /\ \A q \in Panes : q # p => t.terminal[q] = r.terminal[q]
  BY <1>2, <1>8
<1>10. WindowOK(t) /\ Runs(t, p)
  <2>3. \A q \in Panes : Runs(t, q) <=> Runs(r, q)
    BY <1>6, <1>9 DEF Runs
  <2>4. \A q \in Panes : InBatch(t, q) <=> InBatch(r, q)
    BY <1>8 DEF InBatch
  <2>1. \A q \in Panes : Holds(t, q)
    BY <1>8, <2>3, <2>4 DEF WindowOK, Holds
  <2>2. \A q \in Panes : Remembers(t, q)
    <3> SUFFICES ASSUME NEW q \in Panes PROVE Remembers(t, q)
      OBVIOUS
    <3>1. CASE q = p
      BY <1>3, <1>6, <1>9, <2>3, <3>1 DEF WindowOK, Remembers, Runs
    <3>2. CASE q # p
      BY <1>9, <2>3, <3>2 DEF WindowOK, Remembers
    <3> QED
      BY <3>1, <3>2
  <2> QED
    BY <1>8, <2>1, <2>2, <2>3 DEF WindowOK, BatchHolds
<1>11. \/ t.terminal[p] = r.terminal[p]
       \/ /\ r.op[p].created # None /\ r.terminal[p] # None
          /\ Binding(r.terminal[p]) = r.op[p].binding
          /\ t.terminal[p] = Repoint(r.terminal[p], r.op[p].created)
          /\ t.op[p].resume \notin {"failed", "generation"}
  BY <1>3, <1>4, <1>6, <1>7, <1>9
<1>12. /\ t.op[p].created = r.op[p].created /\ t.op[p].work = r.op[p].work
       /\ t.op[p].host = r.op[p].host /\ t.op[p].resume = resume
  BY <1>6, <1>9
<1>13. \A q \in Panes : q # p => t.op[q] = r.op[q]
  BY <1>9
<1>14. \A q \in Panes : q # p => t.terminal[q] = r.terminal[q]
  BY <1>9
<1>15. t.batch = r.batch /\ t.call = r.call
  BY <1>8
<1>16. Sound(work, r, Finished(t, p))
  BY <1>10, <1>11, <1>12, <1>13, <1>14, <1>15, EndSound
<1> QED
  BY <1>1, <1>16

\* A request of a running operation goes out or is answered.
CallStep(r, s, p, c) ==
    /\ s \in Windows /\ s.op = r.op /\ s.terminal = r.terminal /\ s.batch = r.batch
    /\ s.lock = r.lock /\ s.host = r.host
    /\ s.call[p] = c /\ \A q \in Panes : q # p => s.call[q] = r.call[q]

LEMMA CallStepOK ==
  ASSUME NEW r, WindowOK(r), NEW p \in Panes, NEW c \in Calls
  PROVE  CallStep(r, [r EXCEPT !.call[p] = c], p, c)
<1> DEFINE s == [r EXCEPT !.call[p] = c]
<1>1. /\ r \in Windows /\ s \in Windows /\ s.call = [r.call EXCEPT ![p] = c] /\ s.op = r.op
      /\ s.terminal = r.terminal /\ s.batch = r.batch /\ s.lock = r.lock /\ s.host = r.host
  BY DEF WindowOK, Windows
<1> HIDE DEF s
<1>2. s.call[p] = c /\ \A q \in Panes : q # p => s.call[q] = r.call[q]
  BY <1>1 DEF Windows
<1> QED
  BY <1>1, <1>2 DEF CallStep, s

LEMMA CallSound ==
  ASSUME NEW work, NEW r, WindowOK(r), NEW p \in Panes, Runs(r, p),
         NEW c, c.at # "idle", NEW s, CallStep(r, s, p, c), Lawful(r) => Asks(s, p)
  PROVE  /\ WindowOK(s)
         /\ c.at \notin {"created", "resumed"} => Sound(work, r, s)
         /\ ChoicesSpared(r) => ChoicesSpared(s) /\ Keeps(r, s)
         /\ Lawful(r) => Lawful(s)
         /\ WorkTrue(work, r) /\ (c.at = "created" =>
                 Continues(work, r.op[p].work, [code |-> c.code, gen |-> c.gen]))
              => WorkTrue(work, s)
<1>1. /\ s \in Windows /\ s.op = r.op /\ s.terminal = r.terminal /\ s.batch = r.batch /\ s.lock = r.lock
  BY DEF CallStep
<1>2. s.call[p] = c /\ \A q \in Panes : q # p => s.call[q] = r.call[q]
  BY DEF CallStep
<1>3. WindowOK(s)
  BY <1>1, <1>2 DEF WindowOK, BatchHolds, Holds, Remembers, Runs, InBatch
<1>4. ChoicesSpared(r) => ChoicesSpared(s) /\ Keeps(r, s)
  BY <1>1 DEF ChoicesSpared, GroupsSpared, GroupSpared, Spared, Runs, Keeps
<1>5. ASSUME Lawful(r)
      PROVE  Lawful(s) /\ (c.at \notin {"created", "resumed"} => Descends(r, s) /\ Gives(r, s))
  <2>1. Lawful(s)
    <3>1. Asks(s, p)
      BY <1>5
    <3>2. \A q \in Panes : q # p => Asks(s, q)
      BY <1>1, <1>2, <1>5 DEF Lawful, Asks, CallSession, Runs
    <3> QED
      BY <3>1, <3>2 DEF Lawful
  <2>2. Gives(r, s)
    BY <1>1 DEF Gives, GivenTo, BindingNow
  <2>3. ASSUME c.at \notin {"created", "resumed"} PROVE Descends(r, s)
    <3>1. \A q \in Panes : q # p => Made(s, q) = Made(r, q) /\ Turned(s, q) = Turned(r, q)
      BY <1>1, <1>2 DEF Made, CallSession, Turned
    <3>2. Made(s, p) = None \/ Made(s, p) = Made(r, p)
      BY <1>1, <1>2, <1>5, <2>3 DEF Made, Lawful, Asks
    <3>3. ~Turned(s, p)
      BY <1>1, <1>2, <1>5, <2>3 DEF Turned, Lawful, Asks
    <3> QED
      BY <1>1, <3>1, <3>2, <3>3 DEF Descends
  <2> QED
    BY <2>1, <2>2, <2>3
<1>6. ASSUME WorkTrue(work, r),
             c.at = "created" => Continues(work, r.op[p].work, [code |-> c.code, gen |-> c.gen])
      PROVE  WorkTrue(work, s)
  <2>1. \A q \in Panes : Runs(s, q) <=> Runs(r, q)
    BY <1>1 DEF Runs
  <2>2. \A q \in Panes : OpTrue(work, s, q)
    <3> SUFFICES ASSUME NEW q \in Panes PROVE OpTrue(work, s, q)
      OBVIOUS
    <3>1. OpTrue(work, r, q)
      BY <1>6 DEF WorkTrue
    <3>2. CASE q = p
      BY <1>1, <1>2, <1>6, <2>1, <3>1, <3>2 DEF OpTrue
    <3>3. CASE q # p
      BY <1>1, <1>2, <2>1, <3>1, <3>3 DEF OpTrue
    <3> QED
      BY <3>2, <3>3
  <2>3. \A i \in 1..Len(s.batch.groups) : GroupTrue(work, s, s.batch.groups[i])
    <3> SUFFICES ASSUME NEW i \in 1..Len(s.batch.groups) PROVE GroupTrue(work, s, s.batch.groups[i])
      OBVIOUS
    <3>1. GroupTrue(work, r, s.batch.groups[i])
      BY <1>1, <1>6 DEF WorkTrue
    <3> QED
      BY <1>1, <3>1 DEF GroupTrue, Runs
  <2> QED
    BY <1>1, <1>6, <2>2, <2>3 DEF WorkTrue
<1> QED
  BY <1>1, <1>2, <1>3, <1>4, <1>5, <1>6 DEF Sound, Steady

\* Two steps in one: the first leaves the panes alone and turns nothing down.
LEMMA SoundThrough ==
  ASSUME NEW work, NEW r, NEW t, NEW s, Sound(work, r, t), Sound(work, t, s),
         t.terminal = r.terminal, \A q \in Panes : Turned(r, q) => Turned(t, q)
  PROVE  Sound(work, r, s)
<1>1. ASSUME Lawful(r) PROVE Lawful(s) /\ Descends(r, s) /\ Gives(r, s)
  <2>1. Lawful(t) /\ Descends(r, t) /\ Lawful(s) /\ Descends(t, s) /\ Gives(t, s)
    BY <1>1 DEF Sound, Steady
  <2>2. Descends(r, s)
    BY <2>1 DEF Descends
  <2>3. Gives(r, s)
    <3> SUFFICES ASSUME NEW m \in Panes PROVE GivenTo(r, s, m)
      BY DEF Gives
    <3>1. BindingNow(t, m) = BindingNow(r, m)
      BY DEF BindingNow
    <3>2. GivenTo(t, s, m)
      BY <2>1 DEF Gives
    <3>3. ASSUME NEW p \in Panes, Made(t, p) # None, ~Turned(t, p), BindingNow(s, m) = PairOf(Made(t, p))
          PROVE  GivenTo(r, s, m)
      BY <2>1, <3>3 DEF GivenTo, Descends
    <3> QED
      BY <3>1, <3>2, <3>3 DEF GivenTo
  <2> QED
    BY <2>1, <2>2, <2>3
<1> QED
  BY <1>1 DEF Sound, Steady, Keeps

\* What is known about work stays known as sessions are made.
LEMMA WorkGrows ==
  ASSUME NEW work \in [Works -> Works \cup {None}], NEW more, NEW r, WindowOK(r),
         WorkTrue(work, r), \A w \in Works : work[w] # None => more[w] = work[w]
  PROVE  WorkTrue(more, r)
<1>1. /\ r.terminal \in [Panes -> PaneContents \cup {None}] /\ r.op \in [Panes -> Ops]
      /\ r.call \in [Panes -> Calls]
  BY DEF WindowOK, Windows
<1>2. \A p \in Panes : Shows(more, r.terminal[p])
  <2> SUFFICES ASSUME NEW p \in Panes, NEW c, c = r.terminal[p], c # None, c.cwd # None
               PROVE  c.gen \in Gens /\ more[<<c.gen, c.code>>] = c.cwd
    BY DEF Shows
  <2>1. c.gen \in Gens /\ work[<<c.gen, c.code>>] = c.cwd
    BY DEF WorkTrue, Shows
  <2>2. <<c.gen, c.code>> \in Works
    BY <1>1, <2>1 DEF PaneContents, Works
  <2> QED
    BY <2>1, <2>2
<1>3. ASSUME NEW w, NEW x, x.code \in Codes, Continues(work, w, x) PROVE Continues(more, w, x)
  BY <1>3 DEF Continues, Works
<1>4. \A p \in Panes : OpTrue(more, r, p)
  <2> SUFFICES ASSUME NEW p \in Panes PROVE OpTrue(more, r, p)
    OBVIOUS
  <2>1. OpTrue(work, r, p)
    BY DEF WorkTrue
  <2>2. r.op[p].created # None => r.op[p].created.code \in Codes
    BY <1>1 DEF Ops, Sessions
  <2>3. r.call[p].at = "created" => r.call[p].code \in Codes
    <3>1. r.call[p] \in Calls
      BY <1>1
    <3> QED
      BY <3>1 DEF Calls, NoCall
  <2> QED
    BY <1>3, <2>1, <2>2, <2>3 DEF OpTrue
<1>5. \A i \in 1..Len(r.batch.groups) : GroupTrue(more, r, r.batch.groups[i])
  BY DEF WorkTrue, GroupTrue
<1> QED
  BY <1>2, <1>4, <1>5 DEF WorkTrue

\* A window with the same operations and requests.
LEMMA SameWindow ==
  ASSUME NEW r, NEW s, Lawful(r), s.op = r.op, s.call = r.call
  PROVE  Lawful(s) /\ Descends(r, s)
BY DEF Lawful, Asks, CallSession, Runs, Descends, Made, Turned

\* A window with the same panes.
LEMMA SamePanes ==
  ASSUME NEW r, NEW s, s.terminal = r.terminal
  PROVE  Gives(r, s)
BY DEF Gives, GivenTo, BindingNow

\* What the environment does to a pane: it goes, stays, ends or adopts a
\* generation.
Settles(c, d) ==
    \/ d = None \/ d = c
    \/ /\ c # None /\ c.terminated = None /\ d \in PaneContents
       /\ d.code = c.code /\ d.cwd = c.cwd /\ c.gen \in {Unknown, d.gen}

LEMMA SettledSound ==
  ASSUME NEW work, NEW r, WindowOK(r), NEW s, NEW terminal, NEW host \in Addrs \cup {None},
         s = [r EXCEPT !.terminal = terminal, !.host = host],
         terminal \in [Panes -> PaneContents \cup {None}],
         \A m \in Panes : Settles(r.terminal[m], terminal[m])
  PROVE  Steady(work, r, s)
<1>1. /\ s \in Windows /\ s.terminal = terminal /\ s.op = r.op /\ s.call = r.call
      /\ s.batch = r.batch /\ s.lock = r.lock
  BY DEF WindowOK, Windows
<1>2. WindowOK(s)
  BY <1>1 DEF WindowOK, BatchHolds, Holds, Remembers, Runs, InBatch
<1>3. /\ r.terminal \in [Panes -> PaneContents \cup {None}]
      /\ r.batch.groups \in Seq(Groups) /\ None \notin PaneContents
  BY PaneAssumption DEF WindowOK, Windows
<1>4. ASSUME ChoicesSpared(r) PROVE ChoicesSpared(s) /\ Keeps(r, s)
  <2>1. \A p \in Panes : Spared(s, p)
    <3> SUFFICES ASSUME NEW p \in Panes PROVE Spared(s, p)
      OBVIOUS
    <3>1. Spared(r, p) /\ Settles(r.terminal[p], s.terminal[p])
      BY <1>1, <1>4 DEF ChoicesSpared
    <3> QED
      BY <1>1, <3>1 DEF Spared, Settles, Runs, Binding
  <2>2. \A i \in 1..Len(s.batch.groups) : GroupSpared(s, s.batch.groups[i])
    <3> SUFFICES ASSUME NEW i \in 1..Len(s.batch.groups) PROVE GroupSpared(s, s.batch.groups[i])
      OBVIOUS
    <3> DEFINE g == s.batch.groups[i]
    <3>1. GroupSpared(r, g) /\ g \in Groups
      BY <1>1, <1>3, <1>4 DEF ChoicesSpared, GroupsSpared
    <3> HIDE DEF g
    <3>2. \A m \in g.members : m \in Panes /\ Settles(r.terminal[m], s.terminal[m])
      BY <1>1, <3>1 DEF Groups
    <3>3. GroupSpared(s, g)
      BY <3>1, <3>2 DEF GroupSpared, Settles, Binding
    <3> QED
      BY <3>3 DEF g
  <2>3. Keeps(r, s)
    BY <1>1 DEF Keeps, Settles
  <2> QED
    BY <1>1, <1>4, <2>1, <2>2, <2>3 DEF ChoicesSpared, GroupsSpared
<1>5. ASSUME Lawful(r) PROVE Lawful(s) /\ Descends(r, s)
  BY <1>1, <1>5, SameWindow
<1>6. ASSUME WorkTrue(work, r) PROVE WorkTrue(work, s)
  <2>1. \A p \in Panes : /\ Shows(work, s.terminal[p])
                         /\ s.terminal[p] # None =>
                              r.terminal[p] # None /\ s.terminal[p].cwd = r.terminal[p].cwd
    <3> SUFFICES ASSUME NEW p \in Panes
                 PROVE  /\ Shows(work, s.terminal[p])
                        /\ s.terminal[p] # None =>
                             r.terminal[p] # None /\ s.terminal[p].cwd = r.terminal[p].cwd
      OBVIOUS
    <3>1. Shows(work, r.terminal[p]) /\ Settles(r.terminal[p], s.terminal[p])
      BY <1>1, <1>6 DEF WorkTrue
    <3>2. Unknown \notin Gens
      BY DEF Unknown, Gens
    <3> QED
      BY <3>1, <3>2 DEF Shows, Settles
  <2>2. \A p \in Panes : OpTrue(work, s, p)
    BY <1>1, <1>6, <2>1 DEF WorkTrue, OpTrue, Runs
  <2>3. \A i \in 1..Len(s.batch.groups) : GroupTrue(work, s, s.batch.groups[i])
    BY <1>1, <1>6 DEF WorkTrue, GroupTrue, Runs
  <2> QED
    BY <2>1, <2>2, <2>3 DEF WorkTrue
<1> QED
  BY <1>2, <1>4, <1>5, <1>6 DEF Steady

\* The engine goes on from a created session, or from its identity.
LEMMA ResumeStepSound ==
  ASSUME NEW work, NEW r, WindowOK(r), NEW p \in Panes, Runs(r, p), NEW enabled,
         r.op[p].created # None, r.call[p].at \in {"created", "identified"}
  PROVE  Sound(work, r, ResumeStep(r, p, enabled))
<1>1. Sound(work, r, RepointStep(r, p, "skipped")) /\ Sound(work, r, RepointStep(r, p, "failed"))
  <2>1. Lawful(r) => ~Turned(r, p)
    BY DEF Lawful, Asks, Turned
  <2> QED
    BY <2>1, RepointStepSound DEF Results
<1>2. ASSUME r.op[p].created.gen # Unknown PROVE Sound(work, r, [r EXCEPT !.call[p] = [at |-> "resume"]])
  <2> DEFINE c == [at |-> "resume"]
             s == [r EXCEPT !.call[p] = c]
  <2>1. c \in Calls /\ c.at = "resume"
    BY DEF Calls
  <2>2. CallStep(r, s, p, c)
    BY <2>1, CallStepOK
  <2> HIDE DEF c, s
  <2>3. Lawful(r) => Asks(s, p)
    BY <1>2, <2>1, <2>2 DEF Lawful, Asks, Runs, CallStep
  <2>4. Sound(work, r, s)
    BY <2>1, <2>2, <2>3, CallSound
  <2> QED
    BY <2>4 DEF s, c
<1> QED
  BY <1>1, <1>2 DEF ResumeStep

\* The daemon has told the session that it created for a pane.
LEMMA CreatedSound ==
  ASSUME NEW work, NEW r, WindowOK(r), NEW p \in Panes, r.call[p].at = "created"
  PROVE  LET t == [r EXCEPT !.op[p].created = [code |-> r.call[p].code, gen |-> r.call[p].gen]]
         IN /\ Sound(work, r, t) /\ Runs(t, p) /\ t.terminal = r.terminal
            /\ t.op[p].created # None /\ t.call[p].at = "created"
            /\ \A q \in Panes : Turned(r, q) => Turned(t, q)
<1> DEFINE x == [code |-> r.call[p].code, gen |-> r.call[p].gen]
           o == [r.op[p] EXCEPT !.created = x]
           t == [r EXCEPT !.op[p] = o]
<1>1. /\ r \in Windows /\ r.op \in [Panes -> Ops] /\ r.op[p] \in Ops
      /\ r.call[p] \in Calls /\ r.batch.groups \in Seq(Groups)
  BY DEF WindowOK, Windows
<1>2. Runs(r, p)
  BY DEF WindowOK, Holds
<1>3. x \in Sessions
  BY <1>1 DEF Calls, NoCall, Sessions
<1>4. x # None
  BY <1>3, RebuildAssumption
<1>5. [r EXCEPT !.op[p].created = x] = t
  BY <1>1
<1> HIDE DEF x
<1>6. /\ o \in Ops /\ o.created = x /\ o.status = r.op[p].status /\ o.binding = r.op[p].binding
      /\ o.host = r.op[p].host /\ o.work = r.op[p].work /\ o.resume = r.op[p].resume
      /\ o.repointed = r.op[p].repointed
  BY <1>1, <1>3 DEF Ops
<1> HIDE DEF o
<1>7. /\ t \in Windows /\ t.op = [r.op EXCEPT ![p] = o] /\ t.call = r.call
      /\ t.terminal = r.terminal /\ t.batch = r.batch /\ t.lock = r.lock
  BY <1>1, <1>6 DEF Windows
<1> HIDE DEF t
<1>8. t.op[p] = o /\ \A q \in Panes : q # p => t.op[q] = r.op[q]
  BY <1>1, <1>7
<1>9. \A q \in Panes : Runs(t, q) <=> Runs(r, q)
  BY <1>6, <1>8 DEF Runs
<1>10. WindowOK(t)
  <2>1. \A q \in Panes : Holds(t, q)
    BY <1>7, <1>9 DEF WindowOK, Holds, InBatch
  <2>2. \A q \in Panes : Remembers(t, q)
    BY <1>2, <1>6, <1>8, <1>9 DEF WindowOK, Remembers, Runs
  <2> QED
    BY <1>7, <2>1, <2>2 DEF WindowOK, BatchHolds
<1>11. ChoicesSpared(r) => ChoicesSpared(t) /\ Keeps(r, t)
  <2>1. \A q \in Panes : t.op[q].binding = r.op[q].binding
    BY <1>6, <1>8
  <2> QED
    BY <1>7, <1>9, <2>1 DEF ChoicesSpared, GroupsSpared, GroupSpared, Spared, Keeps
<1>12. ASSUME Lawful(r) PROVE Lawful(t) /\ Descends(r, t) /\ Gives(r, t)
  <2>1. \A q \in Panes : q # p => Asks(t, q)
    BY <1>7, <1>8, <1>9, <1>12 DEF Lawful, Asks, CallSession
  <2>2. Asks(t, p)
    BY <1>6, <1>7, <1>8, <1>9, <1>12 DEF Lawful, Asks, CallSession, x
  <2>3. \A q \in Panes : /\ Made(t, q) = Made(r, q) /\ t.op[q].host = r.op[q].host
                         /\ Turned(t, q) => Turned(r, q)
    <3> SUFFICES ASSUME NEW q \in Panes
                 PROVE  /\ Made(t, q) = Made(r, q) /\ t.op[q].host = r.op[q].host
                        /\ Turned(t, q) => Turned(r, q)
      OBVIOUS
    <3>1. CASE q = p
      BY <1>6, <1>7, <1>8, <3>1 DEF Made, CallSession, Turned
    <3>2. CASE q # p
      BY <1>7, <1>8, <3>2 DEF Made, CallSession, Turned
    <3> QED
      BY <3>1, <3>2
  <2> QED
    BY <1>7, <2>1, <2>2, <2>3, SamePanes DEF Lawful, Descends
<1>13. ASSUME WorkTrue(work, r) PROVE WorkTrue(work, t)
  <2>1. OpTrue(work, t, p)
    <3>1. OpTrue(work, r, p)
      BY <1>13 DEF WorkTrue
    <3>2. Continues(work, o.work, x)
      BY <1>6, <3>1 DEF OpTrue, x
    <3> QED
      BY <1>2, <1>6, <1>7, <1>8, <3>1, <3>2 DEF OpTrue
  <2>2. \A q \in Panes : OpTrue(work, t, q)
    BY <1>7, <1>8, <1>9, <1>13, <2>1 DEF WorkTrue, OpTrue
  <2>3. \A i \in 1..Len(t.batch.groups) : GroupTrue(work, t, t.batch.groups[i])
    <3> SUFFICES ASSUME NEW i \in 1..Len(t.batch.groups) PROVE GroupTrue(work, t, t.batch.groups[i])
      OBVIOUS
    <3> DEFINE g == t.batch.groups[i]
    <3>3. r.batch.groups[i] \in Groups /\ g = r.batch.groups[i] /\ i \in 1..Len(r.batch.groups)
      BY <1>1, <1>7
    <3>1. GroupTrue(work, r, g) /\ g.source \in Panes
      BY <1>13, <3>3 DEF WorkTrue, Groups
    <3> HIDE DEF g
    <3>2. GroupTrue(work, t, g)
      BY <1>2, <1>6, <1>8, <1>9, <3>1 DEF GroupTrue
    <3> QED
      BY <3>2 DEF g
  <2> QED
    BY <1>7, <1>13, <2>2, <2>3 DEF WorkTrue
<1>14. Sound(work, r, t)
  BY <1>10, <1>11, <1>12, <1>13 DEF Sound, Steady
<1>15. Runs(t, p)
  BY <1>2, <1>9
<1>16. \A q \in Panes : Turned(r, q) => Turned(t, q)
  BY <1>7, <1>8 DEF Turned
<1>17. t.op[p].created # None /\ t.call[p].at = "created"
  BY <1>4, <1>6, <1>7, <1>8
<1> QED
  BY <1>5, <1>7, <1>14, <1>15, <1>16, <1>17 DEF x

\* A dead pane's rebuild begins: with the lock taken, or as the first group of
\* a batch whose pane is as it was planned.
LEMMA BeginSound ==
  ASSUME NEW work, NEW r, WindowOK(r), NEW p \in Panes, NEW plan \in Plans, NEW lock,
         r.host # None, r.terminal[p] # None, \A q \in Panes : ~Runs(r, q),
         \/ r.lock = None /\ lock = p /\ r.terminal[p].terminated # None
         \/ /\ r.batch.running /\ lock = "batch" /\ Head(r.batch.groups).source = p
            /\ Binding(r.terminal[p]) = Head(r.batch.groups).binding
  PROVE  Sound(work, r, [Begin(r, p, plan) EXCEPT !.lock = lock])
<1> DEFINE c == r.terminal[p]
           o == [status |-> "running", plan |-> plan, created |-> None, binding |-> Binding(c),
                 host |-> r.host, command |-> c.agent # None, work |-> c.cwd,
                 resume |-> "skipped", repointed |-> FALSE]
           call == [at |-> "create", attempt |-> 1]
           s == [Begin(r, p, plan) EXCEPT !.lock = lock]
<1>1. /\ r \in Windows /\ r.op \in [Panes -> Ops] /\ r.call \in [Panes -> Calls]
      /\ r.batch.groups \in Seq(Groups) /\ c \in PaneContents /\ r.host \in Addrs
  BY DEF WindowOK, Windows
<1>2. call \in Calls /\ call.at = "create"
  BY RebuildAssumption DEF Calls
<1>3. o \in Ops
  <2>1. Binding(c) \in Bindings /\ c.cwd \in Works \cup {None} /\ (c.agent # None) \in BOOLEAN
    BY <1>1 DEF Binding, Bindings, PaneContents
  <2> QED
    BY <1>1, <2>1 DEF Ops
<1>4. /\ o.status = "running" /\ o.created = None /\ o.binding = Binding(c) /\ o.host \in Addrs
      /\ o.work = c.cwd /\ o.resume = "skipped" /\ o.repointed = FALSE
  BY <1>1
<1> DEFINE t == Begin(r, p, plan)
<1>5. t = [r EXCEPT !.op[p] = o, !.call[p] = call]
  BY DEF Begin
<1> HIDE DEF o, call, t
<1>15. /\ t \in Windows /\ t.op = [r.op EXCEPT ![p] = o] /\ t.call = [r.call EXCEPT ![p] = call]
       /\ t.terminal = r.terminal /\ t.batch = r.batch
  BY <1>1, <1>2, <1>3, <1>5 DEF Windows
<1>6. lock \in Panes \cup {"batch", None}
  OBVIOUS
<1>7. /\ s \in Windows /\ s.op = [r.op EXCEPT ![p] = o] /\ s.call = [r.call EXCEPT ![p] = call]
      /\ s.terminal = r.terminal /\ s.batch = r.batch /\ s.lock = lock
  BY <1>6, <1>15 DEF Windows, t
<1> HIDE DEF s
<1>8. /\ s.op[p] = o /\ s.call[p] = call
      /\ \A q \in Panes : q # p => s.op[q] = r.op[q] /\ s.call[q] = r.call[q]
  BY <1>1, <1>7
<1>9. Runs(s, p) /\ \A q \in Panes : q # p => ~Runs(s, q)
  BY <1>4, <1>8 DEF Runs
<1>10. WindowOK(s)
  <2>1. \A q \in Panes : Holds(s, q)
    BY <1>2, <1>7, <1>8, <1>9 DEF WindowOK, Holds, InBatch
  <2>2. \A q \in Panes : Remembers(s, q)
    BY <1>4, <1>8, <1>9 DEF WindowOK, Remembers
  <2>3. BatchHolds(s)
    BY <1>7, RebuildAssumption DEF WindowOK, BatchHolds
  <2> QED
    BY <1>7, <2>1, <2>2, <2>3 DEF WindowOK
<1>11. ASSUME ChoicesSpared(r), r.batch.running, Head(r.batch.groups).source = p,
              Binding(c) = Head(r.batch.groups).binding
       PROVE  /\ c.terminated # None /\ c.cwd # None
              /\ \A i \in 1..Len(r.batch.groups) : r.batch.groups[i].source = p => i = 1
              /\ Head(r.batch.groups) = r.batch.groups[1] /\ 1 \in 1..Len(r.batch.groups)
  <2>1. Head(r.batch.groups) = r.batch.groups[1] /\ 1 \in 1..Len(r.batch.groups)
    BY <1>1, <1>11 DEF WindowOK, BatchHolds
  <2> QED
    BY <1>11, <2>1 DEF ChoicesSpared, GroupsSpared, GroupSpared
<1>12. ASSUME ChoicesSpared(r) PROVE ChoicesSpared(s) /\ Keeps(r, s)
  <2>1. c.terminated # None
    BY <1>11, <1>12
  <2>2. \A q \in Panes : Spared(s, q)
    BY <1>7, <1>9, <2>1 DEF Spared
  <2> QED
    BY <1>7, <1>12, <2>2 DEF ChoicesSpared, GroupsSpared, GroupSpared, Keeps
<1>13. ASSUME Lawful(r) PROVE Lawful(s) /\ Descends(r, s) /\ Gives(r, s)
  <2>1. Made(s, p) = None
    BY <1>2, <1>4, <1>8 DEF Made
  <2>2. \A q \in Panes : q # p =>
           /\ Made(s, q) = Made(r, q) /\ s.op[q].host = r.op[q].host
           /\ Turned(s, q) => Turned(r, q)
    BY <1>8 DEF Made, CallSession, Turned
  <2>3. \A q \in Panes : Asks(s, q)
    <3> SUFFICES ASSUME NEW q \in Panes PROVE Asks(s, q)
      OBVIOUS
    <3>1. CASE q = p
      BY <1>2, <1>4, <1>8, <3>1 DEF Asks
    <3>2. CASE q # p
      BY <1>8, <1>13, <3>2 DEF Lawful, Asks, CallSession, Runs
    <3> QED
      BY <3>1, <3>2
  <2> QED
    BY <1>7, <2>1, <2>2, <2>3, SamePanes DEF Lawful, Descends
<1>14. ASSUME ChoicesSpared(r), WorkTrue(work, r) PROVE WorkTrue(work, s)
  <2>1. \A q \in Panes : OpTrue(work, s, q)
    <3> SUFFICES ASSUME NEW q \in Panes PROVE OpTrue(work, s, q)
      OBVIOUS
    <3>1. CASE q = p
      BY <1>2, <1>4, <1>7, <1>8, <3>1 DEF OpTrue
    <3>2. CASE q # p
      BY <1>7, <1>8, <1>14, <3>2 DEF WorkTrue, OpTrue, Runs
    <3> QED
      BY <3>1, <3>2
  <2>2. \A i \in 1..Len(s.batch.groups) : GroupTrue(work, s, s.batch.groups[i])
    <3> SUFFICES ASSUME NEW i \in 1..Len(r.batch.groups) PROVE GroupTrue(work, s, r.batch.groups[i])
      BY <1>7
    <3> DEFINE g == r.batch.groups[i]
    <3>4. r.batch.groups[i] \in Groups
      BY <1>1
    <3>1. GroupTrue(work, r, g) /\ g.source \in Panes
      BY <1>14, <3>4 DEF WorkTrue, Groups
    <3>2. CASE g.source # p
      BY <1>8, <3>1, <3>2 DEF GroupTrue, Runs
    <3>3. CASE g.source = p
      <4>1. r.batch.running
        BY <1>1 DEF WindowOK, BatchHolds
      <4>2. r.lock # None
        BY <4>1, RebuildAssumption DEF WindowOK, BatchHolds
      <4>3. g = Head(r.batch.groups) /\ g.binding = Binding(c) /\ c.cwd # None
        BY <1>11, <1>14, <3>3, <4>2
      <4>4. work[<<c.gen, c.code>>] = c.cwd
        BY <1>14, <4>3 DEF WorkTrue, Shows
      <4>5. work[<<g.binding[2], g.binding[1]>>] = o.work
        BY <1>4, <4>3, <4>4 DEF Binding
      <4>6. s.op[g.source] = o
        BY <1>8, <3>3
      <4> HIDE DEF g, c
      <4>7. GroupTrue(work, s, g)
        BY <3>1, <4>5, <4>6 DEF GroupTrue
      <4> QED
        BY <4>7 DEF g
    <3> QED
      BY <3>2, <3>3
  <2> QED
    BY <1>7, <1>14, <2>1, <2>2 DEF WorkTrue
<1> QED
  BY <1>10, <1>12, <1>13, <1>14 DEF Sound, Steady, s

LEMMA RefusalSound ==
  ASSUME NEW work, NEW r, WindowOK(r), NEW p \in Panes
  PROVE  Sound(work, r, publishRefusal(r, p))
<1> DEFINE s == publishRefusal(r, p)
<1>1. /\ WindowOK(s) /\ s.terminal = r.terminal /\ s.call = r.call /\ s.batch = r.batch
      /\ \A q \in Panes : s.op[q] = r.op[q] \/ (~Runs(r, q) /\ ~Runs(s, q) /\ r.op[q].created = None
                                             /\ s.op[q].created = None)
  BY PublishRefusalOK
<1> HIDE DEF s
<1>2. ChoicesSpared(r) => ChoicesSpared(s) /\ Keeps(r, s)
  BY <1>1 DEF ChoicesSpared, GroupsSpared, GroupSpared, Spared, Keeps, Runs
<1>3. ASSUME Lawful(r) PROVE Lawful(s) /\ Descends(r, s) /\ Gives(r, s)
  <2>1. \A q \in Panes : s.op[q] # r.op[q] => r.call[q].at = "idle" /\ s.op[q].created = None
    BY <1>1 DEF WindowOK, Holds
  <2>2. \A q \in Panes : Asks(s, q)
    BY <1>1, <1>3, <2>1 DEF Lawful, Asks, CallSession, Runs
  <2>3. \A q \in Panes : \/ Made(s, q) = None
                         \/ /\ Made(s, q) = Made(r, q) /\ s.op[q].host = r.op[q].host
                            /\ Turned(s, q) => Turned(r, q)
    BY <1>1, <2>1 DEF Made, CallSession, Turned
  <2> QED
    BY <1>1, <2>2, <2>3, SamePanes DEF Lawful, Descends
<1>4. ASSUME WorkTrue(work, r) PROVE WorkTrue(work, s)
  <2>1. \A q \in Panes : OpTrue(work, s, q)
    <3> SUFFICES ASSUME NEW q \in Panes PROVE OpTrue(work, s, q)
      OBVIOUS
    <3>1. OpTrue(work, r, q)
      BY <1>4 DEF WorkTrue
    <3>2. CASE s.op[q] = r.op[q]
      BY <1>1, <3>1, <3>2 DEF OpTrue, Runs
    <3>3. CASE s.op[q] # r.op[q]
      <4>1. r.call[q].at = "idle"
        BY <1>1, <3>3 DEF WindowOK, Holds
      <4> QED
        BY <1>1, <3>3, <4>1 DEF OpTrue
    <3> QED
      BY <3>2, <3>3
  <2>2. \A i \in 1..Len(s.batch.groups) : GroupTrue(work, s, s.batch.groups[i])
    <3> SUFFICES ASSUME NEW i \in 1..Len(r.batch.groups) PROVE GroupTrue(work, s, r.batch.groups[i])
      BY <1>1
    <3>1. r.batch.groups \in Seq(Groups)
      BY DEF WindowOK, Windows
    <3>2. r.batch.groups[i] \in Groups
      BY <3>1
    <3> DEFINE g == r.batch.groups[i]
    <3>3. GroupTrue(work, r, g) /\ g.source \in Panes
      BY <1>4, <3>2 DEF WorkTrue, Groups
    <3> HIDE DEF g
    <3>4. GroupTrue(work, s, g)
      BY <1>1, <3>3 DEF GroupTrue, Runs
    <3> QED
      BY <3>4 DEF g
  <2> QED
    BY <1>1, <1>4, <2>1, <2>2 DEF WorkTrue
<1> QED
  BY <1>1, <1>2, <1>3, <1>4 DEF Sound, Steady, s

\* The members of the first group follow what its source has created.
LEMMA MembersSound ==
  ASSUME NEW work, NEW r, WindowOK(r), r.batch.running, \A q \in Panes : ~Runs(r, q),
         NEW p \in Panes, p = Head(r.batch.groups).source
  PROVE  Steady(work, r, RepointMembers(r, p, "skipped"))
<1> DEFINE s == RepointMembers(r, p, "skipped")
<1>1. /\ WindowOK(s) /\ s.op = r.op /\ s.call = r.call
      /\ s.batch.groups = Tail(r.batch.groups)
      /\ \A m \in Panes : s.terminal[m] = r.terminal[m] \/ Follows(r, s, p, m)
  BY RepointMembersOK
<1> HIDE DEF s
<1>2. /\ r.batch.groups \in Seq(Groups) /\ r.batch.groups # <<>>
      /\ Head(r.batch.groups) = r.batch.groups[1] /\ 1 \in 1..Len(r.batch.groups)
  BY DEF WindowOK, Windows, BatchHolds
<1>3. ASSUME ChoicesSpared(r) PROVE ChoicesSpared(s) /\ Keeps(r, s)
  <2>1. GroupsSpared(s, Tail(r.batch.groups))
    BY <1>1, <1>2, <1>3, PoppedSpared DEF ChoicesSpared, Follows
  <2>2. \A q \in Panes : Spared(s, q)
    BY <1>1 DEF Spared, Runs
  <2>3. Keeps(r, s)
    BY <1>1, <1>2, <1>3 DEF Keeps, Follows, ChoicesSpared, GroupsSpared, GroupSpared
  <2> QED
    BY <1>1, <2>1, <2>2, <2>3 DEF ChoicesSpared
<1>4. Lawful(r) => Lawful(s) /\ Descends(r, s)
  BY <1>1, SameWindow
<1>5. ASSUME WorkTrue(work, r) PROVE WorkTrue(work, s)
  <2>1. \A i \in 1..Len(s.batch.groups) :
          /\ i + 1 \in 1..Len(r.batch.groups) /\ s.batch.groups[i] = r.batch.groups[i + 1]
          /\ s.batch.groups[i] \in Groups
    BY <1>1, <1>2
  <2>2. \A i \in 1..Len(s.batch.groups) :
          /\ s.batch.groups[i] \in Groups
          /\ \E j \in 1..Len(r.batch.groups) : s.batch.groups[i] = r.batch.groups[j]
    BY <2>1
  <2>3. \A q \in Panes :
          /\ s.op[q].work = r.op[q].work /\ s.op[q].created = r.op[q].created
          /\ Runs(s, q) => Runs(r, q)
          /\ s.call[q].at = "created" => s.call[q] = r.call[q]
    BY <1>1 DEF Runs
  <2>4. \A m \in Panes :
          \/ s.terminal[m] = r.terminal[m]
          \/ /\ r.batch.running /\ Head(r.batch.groups).source \in Panes
             /\ Follows(r, s, Head(r.batch.groups).source, m)
    BY <1>1
  <2> QED
    BY <1>5, <2>2, <2>3, <2>4, MovedTrue
<1> QED
  BY <1>1, <1>3, <1>4, <1>5 DEF Steady, s

\* Only the members of the group move.
LEMMA RefusedGroupSound ==
  ASSUME NEW work, NEW r, WindowOK(r), r.batch.running, \A q \in Panes : ~Runs(r, q),
         NEW p \in Panes, p = Head(r.batch.groups).source
  PROVE  LET s == RepointMembers(publishRefusal(r, p), p, "skipped")
         IN /\ Steady(work, r, s)
            /\ \A m \in Panes : s.terminal[m] = r.terminal[m]
                              \/ (r.host # None /\ m \in Head(r.batch.groups).members \ {p})
<1> DEFINE t == publishRefusal(r, p)
           s == RepointMembers(t, p, "skipped")
<1>1. /\ WindowOK(t) /\ t.terminal = r.terminal /\ t.batch = r.batch /\ t.host = r.host
      /\ \A q \in Panes : t.op[q] = r.op[q] \/ (~Runs(r, q) /\ ~Runs(t, q) /\ r.op[q].created = None
                                             /\ t.op[q].created = None)
  BY PublishRefusalOK
<1>2. Sound(work, r, t)
  BY RefusalSound
<1> HIDE DEF t
<1>3. \A q \in Panes : ~Runs(t, q)
  BY <1>1 DEF Runs
<1>4. /\ Steady(work, t, s)
      /\ \A m \in Panes : s.terminal[m] = t.terminal[m] \/ (Follows(t, s, p, m) /\ m # p)
  BY <1>1, <1>3, MembersSound, RepointMembersOK
<1> HIDE DEF s
<1>5. Lawful(r) => Lawful(s) /\ Descends(r, s)
  <2>1. ASSUME Lawful(r) PROVE Lawful(t) /\ Descends(r, t) /\ Lawful(s) /\ Descends(t, s)
    BY <1>2, <1>4, <2>1 DEF Sound, Steady
  <2> QED
    BY <2>1 DEF Descends
<1>6. Steady(work, r, s)
  BY <1>1, <1>2, <1>4, <1>5 DEF Sound, Steady, Keeps
<1>7. \A m \in Panes : s.terminal[m] = r.terminal[m]
                      \/ (r.host # None /\ m \in Head(r.batch.groups).members \ {p})
  BY <1>1, <1>4, RebuildAssumption DEF Follows, WindowOK, Remembers
<1> QED
  BY <1>6, <1>7 DEF s, t

\* The batch plans one group for every lost session that dead panes show.
LEMMA BatchSound ==
  ASSUME NEW work, NEW r, WindowOK(r), r.lock = None, NEW groups \in Seq(Groups), groups # <<>>,
         \A i \in 1..Len(groups) :
             /\ groups[i].source \in groups[i].members
             /\ \A m \in groups[i].members : LET c == r.terminal[m] IN
                  /\ c # None /\ c.terminated # None /\ c.cwd # None /\ c.gen # Unknown
                  /\ Binding(c) = groups[i].binding,
         \A i, j \in 1..Len(groups) : groups[i].binding = groups[j].binding => i = j,
         NEW s, s = [r EXCEPT !.lock = "batch", !.batch = [groups |-> groups, running |-> TRUE]]
  PROVE  Sound(work, r, s)
<1>1. /\ s \in Windows /\ s.terminal = r.terminal /\ s.op = r.op /\ s.call = r.call
      /\ s.lock = "batch" /\ s.batch.groups = groups /\ s.batch.running
  BY DEF WindowOK, Windows
<1>2. \A q \in Panes : ~Runs(r, q)
  BY RebuildAssumption DEF WindowOK, Holds, BatchHolds, InBatch
<1>3. WindowOK(s)
  BY <1>1, <1>2 DEF WindowOK, Holds, Remembers, BatchHolds, Runs
<1>4. \A i \in 1..Len(groups) : groups[i] \in Groups
  OBVIOUS
<1>5. ChoicesSpared(s) /\ Keeps(r, s)
  <2>1. \A i \in 1..Len(groups) : GroupSpared(s, groups[i])
    BY <1>1 DEF GroupSpared
  <2>2. \A i, j \in 1..Len(groups) : i # j => groups[i].members \cap groups[j].members = {}
    OBVIOUS
  <2>3. \A q \in Panes : Spared(s, q)
    BY <1>1, <1>2 DEF Spared, Runs
  <2>4. Keeps(r, s)
    BY <1>1 DEF Keeps
  <2> QED
    BY <1>1, <2>1, <2>2, <2>3, <2>4 DEF ChoicesSpared, GroupsSpared
<1>6. Lawful(r) => Lawful(s) /\ Descends(r, s) /\ Gives(r, s)
  BY <1>1, SameWindow, SamePanes
<1>7. ASSUME WorkTrue(work, r) PROVE WorkTrue(work, s)
  <2>1. \A q \in Panes : OpTrue(work, s, q)
    BY <1>1, <1>7 DEF WorkTrue, OpTrue, Runs
  <2>2. \A i \in 1..Len(groups) : GroupTrue(work, s, groups[i])
    <3> SUFFICES ASSUME NEW i \in 1..Len(groups) PROVE GroupTrue(work, s, groups[i])
      OBVIOUS
    <3> DEFINE g == groups[i]
               p == g.source
               c == r.terminal[p]
    <3>1. p \in Panes /\ r.terminal \in [Panes -> PaneContents \cup {None}]
      BY <1>4 DEF Groups, WindowOK, Windows
    <3>2. /\ c # None /\ c.terminated # None /\ c.cwd # None /\ c.gen # Unknown
          /\ Binding(c) = g.binding
      OBVIOUS
    <3>3. c \in PaneContents /\ c.cwd \in Works
      BY <3>1, <3>2 DEF PaneContents
    <3>4. Shows(work, c) /\ OpTrue(work, r, p)
      BY <1>7, <3>1 DEF WorkTrue
    <3>5. r.op[p].created # None => c.cwd = r.op[p].work
      BY <3>2, <3>4 DEF OpTrue
    <3>6. c.gen \in Gens /\ work[<<c.gen, c.code>>] = c.cwd /\ c.cwd # None /\ c.code \in Codes
      BY <3>2, <3>3, <3>4 DEF Shows, PaneContents
    <3>7. g.binding[1] = c.code /\ g.binding[2] = c.gen
      BY <3>2 DEF Binding
    <3>8. <<c.gen, c.code>> \in Works
      BY <3>6 DEF Works
    <3>9. s.op[g.source] = r.op[p] /\ ~Runs(s, g.source)
      BY <1>1, <1>2, <3>1 DEF Runs
    <3> HIDE DEF c, p, g
    <3>10. GroupTrue(work, s, g)
      BY <3>5, <3>6, <3>7, <3>8, <3>9 DEF GroupTrue
    <3> QED
      BY <3>10 DEF g
  <2> QED
    BY <1>1, <1>7, <2>1, <2>2 DEF WorkTrue
<1> QED
  BY <1>3, <1>5, <1>6, <1>7 DEF Sound, Steady

-----------------------------------------------------------------------------
(* The steps of the engine and of its environment.                         *)

\* Sessions have different addresses of work: a generation belongs to one
\* server, a code of it to one session.  A session turned down belongs to no
\* server that runs.
Lineage(sv, r) ==
    /\ \A a, b \in Addrs : sv.gen[a] = sv.gen[b] => a = b
    /\ \A a \in Addrs : sv.gen[a] <= sv.gens
    /\ \A p \in Panes : LET x == Made(r, p) IN
         /\ x # None /\ x.gen # Unknown =>
              /\ x.gen <= sv.gens /\ sv.work[<<x.gen, x.code>>] # None
              /\ \A b \in Addrs : sv.gen[b] = x.gen => b = r.op[p].host
         /\ Turned(r, p) => x.gen # Unknown /\ \A b \in Addrs : sv.gen[b] # x.gen
    /\ \A p, q \in Panes : p # q /\ Made(r, p) # None /\ Made(r, p).gen # Unknown =>
         Made(r, p) # Made(r, q)

\* A pane shows a session of a server that runs.
Arrives(m) ==
    /\ rb'.terminal[m] # None
    /\ \E a \in Addrs : rb'.terminal[m].gen = srv.gen[a]

\* Where the session comes from that a pane shows after a step.
Led == \A m \in Panes : GivenTo(rb, rb', m) \/ Arrives(m) \/ FollowsEarlier(m)

\* A session refused in the window has been turned down before.
Barred ==
    \A q \in Panes : rb'.op[q].created # None /\ rb'.op[q].resume = "generation" =>
        Turned(rb, q) /\ Made(rb, q) = rb'.op[q].created

Advances ==
    /\ EngineInv'
    /\ ~past.again => Keeps(rb, rb')
    /\ Led /\ Barred
    /\ Lineage(srv, rb) => Lineage(srv', rb')
    /\ WorkInv => WorkInv'

LEMMA RefusedTurned ==
  ASSUME NEW r, WindowOK(r), Lawful(r), NEW q \in Panes, r.op[q].created # None,
         r.op[q].resume = "generation"
  PROVE  Turned(r, q) /\ Made(r, q) = r.op[q].created
<1>1. ~Runs(r, q)
  BY DEF Lawful, Asks
<1>2. r.call[q].at = "idle"
  BY <1>1 DEF WindowOK, Holds
<1> QED
  BY <1>2 DEF Turned, Made

LEMMA LineageDescends ==
  ASSUME NEW sv, NEW r, NEW s, Lineage(sv, r), Descends(r, s),
         \A p \in Panes : Turned(s, p) => Made(s, p) # None
  PROVE  Lineage(sv, s)
BY DEF Lineage, Descends

LEMMA TurnedMade ==
  ASSUME NEW r, NEW p, Turned(r, p)
  PROVE  Made(r, p) # None
BY DEF Turned, Made

\* A step of the window alone.
LEMMA SpaSettles ==
  ASSUME EngineInv, NEW s, Steady(srv.work, rb, s), Spa(s), Led
  PROVE  Advances
<1>1. rb' = s /\ UNCHANGED <<srv, past>> /\ Lawful(rb)
  BY DEF Spa, EngineInv
<1>2. WindowOK(s) /\ Lawful(s) /\ Descends(rb, s)
  BY <1>1 DEF Steady
<1>3. Lineage(srv, rb) => Lineage(srv, s)
  BY <1>2, LineageDescends, TurnedMade
<1>4. Barred
  <2> SUFFICES ASSUME NEW q \in Panes, s.op[q].created # None, s.op[q].resume = "generation"
               PROVE  Turned(rb, q) /\ Made(rb, q) = s.op[q].created
    BY <1>1 DEF Barred
  <2>1. Turned(s, q) /\ Made(s, q) = s.op[q].created
    BY <1>2, RefusedTurned
  <2> QED
    BY <1>2, <2>1 DEF Descends
<1>5. EngineInv' /\ (~past.again => Keeps(rb, rb')) /\ (WorkInv => WorkInv')
  BY <1>1, <1>2 DEF EngineInv, WorkInv, Steady
<1> QED
  BY <1>1, <1>3, <1>4, <1>5 DEF Advances

LEMMA SpaAdvances ==
  ASSUME EngineInv, NEW s, Sound(srv.work, rb, s), Spa(s)
  PROVE  Advances
<1>1. Led
  BY DEF EngineInv, Sound, Gives, Led, Spa
<1> QED
  BY <1>1, SpaSettles DEF Sound

LEMMA SameSound ==
  ASSUME NEW work, NEW r, WindowOK(r)
  PROVE  Sound(work, r, r)
BY SameWindow, SamePanes DEF Sound, Steady, Keeps

\* The window stays as it is.
LEMMA ServerAdvances ==
  ASSUME EngineInv, UNCHANGED <<rb, past>>, srv' \in Servers, Lineage(srv, rb) => Lineage(srv', rb),
         WorkTrue(srv.work, rb) => WorkTrue(srv'.work, rb)
  PROVE  Advances
<1>1. WindowOK(rb) /\ Lawful(rb)
  BY DEF EngineInv
<1>2. Led
  BY <1>1, SamePanes DEF Led, Gives
<1>3. Barred
  BY <1>1, RefusedTurned DEF Barred
<1>4. Keeps(rb, rb')
  BY DEF Keeps
<1> QED
  BY <1>2, <1>3, <1>4 DEF Advances, EngineInv, WorkInv

LEMMA SessionMadeOK ==
  ASSUME srv \in Servers, NEW a \in Addrs, NEW c \in Codes, NEW w \in Works, SessionMade(a, c, w)
  PROVE  /\ srv' \in Servers /\ srv'.work[<<srv.gen[a], c>>] = w
         /\ srv'.gen = srv.gen /\ srv'.gens = srv.gens /\ srv.work[<<srv.gen[a], c>>] = None
         /\ \A x \in Works : srv.work[x] # None => srv'.work[x] = srv.work[x]
<1> DEFINE x == <<srv.gen[a], c>>
           live == srv.live[a] \cup {c}
<1>1. x \in Works /\ srv.work[x] = None /\ live \in SUBSET Codes
  BY DEF SessionMade, FreeCodes, Servers, Works
<1>2. srv' = [srv EXCEPT !.live[a] = live, !.work[x] = w]
  BY DEF SessionMade
<1> HIDE DEF x, live
<1>3. /\ srv' \in Servers /\ srv'.work = [srv.work EXCEPT ![x] = w]
      /\ srv'.gen = srv.gen /\ srv'.gens = srv.gens
  BY <1>1, <1>2 DEF Servers
<1>4. srv.work \in [Works -> Works \cup {None}]
  BY DEF Servers
<1>5. srv'.work[x] = w /\ \A y \in Works : y # x => srv'.work[y] = srv.work[y]
  BY <1>1, <1>3, <1>4
<1> QED
  BY <1>1, <1>3, <1>5 DEF x

LEMMA MadeTyped ==
  ASSUME NEW r, WindowOK(r), NEW p \in Panes, Made(r, p) # None
  PROVE  Made(r, p) \in Sessions
<1>1. r.op[p] \in Ops /\ r.call[p] \in Calls
  BY DEF WindowOK, Windows
<1> QED
  BY <1>1 DEF Made, CallSession, Ops, Calls, NoCall, Sessions

\* A session under a free code is none of those made before.
LEMMA SessionLineage ==
  ASSUME srv \in Servers, WindowOK(rb), Lineage(srv, rb), srv'.gen = srv.gen, srv'.gens = srv.gens,
         \A x \in Works : srv.work[x] # None => srv'.work[x] # None
  PROVE  Lineage(srv', rb)
<1>1. ASSUME NEW p \in Panes, Made(rb, p) # None, Made(rb, p).gen # Unknown
      PROVE  srv'.work[<<Made(rb, p).gen, Made(rb, p).code>>] # None
  <2>1. <<Made(rb, p).gen, Made(rb, p).code>> \in Works
    BY <1>1, MadeTyped DEF Sessions, Works
  <2> QED
    BY <1>1, <2>1 DEF Lineage
<1> QED
  BY <1>1 DEF Lineage

LEMMA EnvironmentAdvances ==
  ASSUME EngineInv,
         \/ \E a \in Addrs : TmuxServerRestarts(a) \/ ForeignSession(a) \/ HostEdited(a)
                             \/ \E c \in Codes : SessionDies(a, c)
         \/ HostRemoved \/ SessionsArrive \/ \E p \in Panes : ClosePane(p)
  PROVE  Advances
<1>1. /\ WindowOK(rb) /\ rb \in Windows /\ rb.terminal \in [Panes -> PaneContents \cup {None}]
      /\ rb.host \in Addrs \cup {None} /\ srv \in Servers
  BY DEF EngineInv, WindowOK, Windows
<1>2. ASSUME NEW a \in Addrs, TmuxServerRestarts(a) PROVE Advances
  <2>3. srv.gens \in Gens
    BY <1>1 DEF Servers
  <2>1. srv.gens + 1 \in Gens /\ {} \in SUBSET Codes
    <3>1. srv.gens < MaxGen /\ MaxGen \in Nat
      BY <1>2, PaneAssumption DEF TmuxServerRestarts
    <3> QED
      BY <2>3, <3>1 DEF Gens
  <2>2. /\ srv' \in Servers /\ srv'.work = srv.work /\ srv'.gens = srv.gens + 1
        /\ srv'.gen = [srv.gen EXCEPT ![a] = srv.gens + 1]
    BY <1>1, <1>2, <2>1 DEF TmuxServerRestarts, Servers
  <2>4. srv.gen \in [Addrs -> Gens] /\ \A b \in Addrs : srv.gen[b] \in Nat
    BY <1>1 DEF Servers, Gens
  <2>5. srv'.gen[a] = srv.gens + 1 /\ \A b \in Addrs : b # a => srv'.gen[b] = srv.gen[b]
    BY <2>2, <2>4
  <2>6. srv.gens \in Nat
    BY <2>3 DEF Gens
  <2>7. ASSUME Lineage(srv, rb) PROVE Lineage(srv', rb)
    <3>1. \A b, d \in Addrs : srv'.gen[b] = srv'.gen[d] => b = d
      <4>1. \A b \in Addrs : srv.gen[b] # srv.gens + 1
        BY <2>4, <2>6, <2>7 DEF Lineage
      <4> QED
        BY <2>5, <2>7, <4>1 DEF Lineage
    <3>2. \A b \in Addrs : srv'.gen[b] <= srv'.gens
      BY <2>2, <2>4, <2>5, <2>6, <2>7 DEF Lineage
    <3>3. ASSUME NEW p \in Panes, NEW x, x = Made(rb, p)
          PROVE  /\ x # None /\ x.gen # Unknown =>
                      /\ x.gen <= srv'.gens /\ srv'.work[<<x.gen, x.code>>] # None
                      /\ \A b \in Addrs : srv'.gen[b] = x.gen => b = rb.op[p].host
                 /\ Turned(rb, p) => x.gen # Unknown /\ \A b \in Addrs : srv'.gen[b] # x.gen
      <4>1. x # None => x.gen \in Nat
        BY <1>1, <3>3, MadeTyped DEF Sessions, Gens, Unknown
      <4>2. x # None /\ x.gen # Unknown => x.gen <= srv.gens /\ x.gen # srv.gens + 1
        <5>1. x # None /\ x.gen # Unknown => x.gen <= srv.gens
          BY <2>7, <3>3 DEF Lineage
        <5> QED
          BY <2>6, <4>1, <5>1
      <4>3. x # None /\ x.gen # Unknown =>
              /\ x.gen <= srv'.gens /\ srv'.work[<<x.gen, x.code>>] # None
              /\ \A b \in Addrs : srv'.gen[b] = x.gen => b = rb.op[p].host
        <5>1. x # None /\ x.gen # Unknown => x.gen <= srv'.gens
          BY <2>2, <2>6, <4>1, <4>2
        <5> QED
          BY <2>2, <2>5, <2>7, <3>3, <4>2, <5>1 DEF Lineage
      <4>4. Turned(rb, p) => x.gen # Unknown /\ \A b \in Addrs : srv'.gen[b] # x.gen
        BY <2>5, <2>7, <3>3, <4>2, TurnedMade DEF Lineage
      <4> QED
        BY <4>3, <4>4
    <3> QED
      BY <2>7, <3>1, <3>2, <3>3 DEF Lineage
  <2> QED
    BY <1>2, <2>2, <2>7, ServerAdvances DEF TmuxServerRestarts
<1>3. ASSUME NEW a \in Addrs, ForeignSession(a) PROVE Advances
  <2> PICK c \in Codes : SessionMade(a, c, <<srv.gen[a], c>>)
    BY <1>3 DEF ForeignSession
  <2>1. <<srv.gen[a], c>> \in Works /\ None \notin Works
    BY <1>1, PaneAssumption DEF Servers, Works
  <2>2. /\ srv' \in Servers /\ \A x \in Works : srv.work[x] # None => srv'.work[x] = srv.work[x]
        /\ srv'.gen = srv.gen /\ srv'.gens = srv.gens
    BY <1>1, <2>1, SessionMadeOK
  <2>3. srv.work \in [Works -> Works \cup {None}]
    BY <1>1 DEF Servers
  <2>4. WorkTrue(srv.work, rb) => WorkTrue(srv'.work, rb)
    BY <1>1, <2>2, <2>3, WorkGrows
  <2>5. Lineage(srv, rb) => Lineage(srv', rb)
    BY <1>1, <2>2, SessionLineage
  <2> QED
    BY <1>3, <2>2, <2>4, <2>5, ServerAdvances DEF ForeignSession
<1>4. ASSUME NEW a \in Addrs, HostEdited(a) PROVE Advances
  <2>1. [rb EXCEPT !.host = a] = [rb EXCEPT !.terminal = rb.terminal, !.host = a]
    BY <1>1 DEF Windows
  <2>2. Steady(srv.work, rb, [rb EXCEPT !.host = a])
    BY <1>1, <2>1, SettledSound DEF Settles
  <2>3. Sound(srv.work, rb, [rb EXCEPT !.host = a])
    BY <1>1, <2>2, SamePanes DEF Sound, Windows
  <2> QED
    BY <1>4, <2>3, SpaAdvances DEF HostEdited
<1>5. ASSUME NEW a \in Addrs, NEW c \in Codes, SessionDies(a, c) PROVE Advances
  <2>1. srv.live[a] \ {c} \in SUBSET Codes
    BY <1>1 DEF Servers
  <2>2. /\ srv' \in Servers /\ srv'.work = srv.work
        /\ srv'.gen = srv.gen /\ srv'.gens = srv.gens
    BY <1>1, <1>5, <2>1 DEF SessionDies, Servers
  <2>3. Lineage(srv, rb) => Lineage(srv', rb)
    BY <1>1, <2>2, SessionLineage
  <2> QED
    BY <1>5, <2>2, <2>3, ServerAdvances DEF SessionDies
<1>6. CASE HostRemoved
  <2> DEFINE terminal == [p \in Panes |-> IF rb.terminal[p] = None THEN None
                                          ELSE markHostTerminated(rb.terminal[p])]
             s == [rb EXCEPT !.terminal = terminal, !.host = None]
  <2>1. Spa(s)
    <3>1. [rb EXCEPT !.host = None, !.terminal = terminal] = s
      BY <1>1 DEF Windows
    <3> QED
      BY <1>6, <3>1 DEF HostRemoved
  <2>2. \A p \in Panes : /\ Settles(rb.terminal[p], terminal[p])
                         /\ terminal[p] \in PaneContents \cup {None}
    BY <1>1 DEF markHostTerminated, markTerminated, Settles, PaneContents, Reasons
  <2>3. terminal \in [Panes -> PaneContents \cup {None}] /\ None \in Addrs \cup {None}
    BY <2>2
  <2>5. \A p \in Panes : /\ rb.terminal[p] = None => terminal[p] = None
                         /\ rb.terminal[p] # None => terminal[p] # None /\ Binding(terminal[p]) = Binding(rb.terminal[p])
    <3> SUFFICES ASSUME NEW p \in Panes, NEW c \in PaneContents, c = rb.terminal[p], c # None
                 PROVE  LET d == markHostTerminated(c) IN d # None /\ Binding(d) = Binding(c)
      BY <1>1
    <3>1. markHostTerminated(c) \in PaneContents
      BY DEF markHostTerminated, markTerminated, PaneContents, Reasons
    <3> QED
      BY <3>1, PaneAssumption DEF markHostTerminated, markTerminated, Binding, PaneContents
  <2> HIDE DEF terminal
  <2>4. Steady(srv.work, rb, s)
    BY <1>1, <2>2, <2>3, SettledSound
  <2>6. \A p \in Panes : BindingNow(s, p) = BindingNow(rb, p)
    BY <1>1, <2>3, <2>5 DEF BindingNow, Windows
  <2>7. Sound(srv.work, rb, s)
    BY <2>4, <2>6 DEF Sound, Gives, GivenTo
  <2> QED
    BY <2>1, <2>7, SpaAdvances
<1>7. CASE SessionsArrive
  <2> DEFINE codes == srv.live[rb.host]
             gen == srv.gen[rb.host]
             terminal == [p \in Panes |-> IF rb.terminal[p] = None THEN None
                                          ELSE Reconcile(rb.terminal[p], codes, gen)]
             s == [rb EXCEPT !.terminal = terminal, !.host = rb.host]
  <2>1. Spa(s)
    <3>1. [rb EXCEPT !.terminal = terminal] = s
      BY <1>1 DEF Windows
    <3> QED
      BY <1>7, <3>1 DEF SessionsArrive
  <2>2. gen \in Gens
    BY <1>1, <1>7 DEF SessionsArrive, Servers
  <2> HIDE DEF gen, codes
  <2>3. \A p \in Panes : /\ Settles(rb.terminal[p], terminal[p])
                         /\ terminal[p] \in PaneContents \cup {None}
    <3> SUFFICES ASSUME NEW p \in Panes, NEW c \in PaneContents, c = rb.terminal[p], c # None
                 PROVE  Settles(c, Reconcile(c, codes, gen)) /\ Reconcile(c, codes, gen) \in PaneContents
      BY <1>1 DEF Settles
    <3> QED
      BY <2>2 DEF Reconcile, markTerminated, adoptTmuxInstance, Settles, PaneContents, Reasons
  <2>4. terminal \in [Panes -> PaneContents \cup {None}]
    BY <2>3
  <2>6. \A p \in Panes : \/ terminal[p] = rb.terminal[p]
                         \/ /\ terminal[p] # None /\ rb.terminal[p] # None
                            /\ terminal[p].gen = gen \/ Binding(terminal[p]) = Binding(rb.terminal[p])
    <3> SUFFICES ASSUME NEW p \in Panes, NEW c \in PaneContents, c = rb.terminal[p], c # None
                 PROVE  LET d == Reconcile(c, codes, gen)
                        IN d # None /\ (d.gen = gen \/ Binding(d) = Binding(c))
      BY <1>1
    <3>1. c.code \in Codes
      BY DEF PaneContents
    <3>2. Reconcile(c, codes, gen) \in PaneContents
      BY <2>2 DEF Reconcile, markTerminated, adoptTmuxInstance, PaneContents, Reasons
    <3>3. LET d == Reconcile(c, codes, gen) IN d.gen = gen \/ Binding(d) = Binding(c)
      BY <2>2 DEF Reconcile, markTerminated, adoptTmuxInstance, PaneContents, Binding
    <3> QED
      BY <3>2, <3>3, PaneAssumption
  <2> HIDE DEF terminal
  <2>5. Steady(srv.work, rb, s)
    BY <1>1, <2>3, <2>4, SettledSound
  <2>7. rb' = s /\ s.terminal = terminal
    BY <1>1, <2>1, <2>4 DEF Spa, Windows
  <2>8. rb.host \in Addrs
    BY <1>1, <1>7 DEF SessionsArrive
  <2>9. Led
    <3> SUFFICES ASSUME NEW p \in Panes PROVE GivenTo(rb, s, p) \/ Arrives(p)
      BY <2>7 DEF Led
    <3> QED
      BY <2>6, <2>7, <2>8 DEF GivenTo, BindingNow, Arrives, gen
  <2> QED
    BY <2>1, <2>5, <2>9, SpaSettles
<1>8. ASSUME NEW p \in Panes, ClosePane(p) PROVE Advances
  <2> DEFINE terminal == [rb.terminal EXCEPT ![p] = None]
             s == [rb EXCEPT !.terminal = terminal, !.host = rb.host]
  <2>1. Spa(s)
    <3>1. [rb EXCEPT !.terminal[p] = None] = s
      BY <1>1 DEF Windows
    <3> QED
      BY <1>8, <3>1 DEF ClosePane
  <2>2. /\ \A m \in Panes : Settles(rb.terminal[m], terminal[m])
        /\ terminal \in [Panes -> PaneContents \cup {None}]
    BY <1>1 DEF Settles
  <2>4. \A m \in Panes : terminal[m] \in {None, rb.terminal[m]}
    BY <1>1
  <2> HIDE DEF terminal
  <2>3. Steady(srv.work, rb, s)
    BY <1>1, <2>2, SettledSound
  <2>5. Sound(srv.work, rb, s)
    BY <1>1, <2>2, <2>3, <2>4 DEF Sound, Gives, GivenTo, BindingNow, Windows
  <2> QED
    BY <2>1, <2>5, SpaAdvances
<1> QED
  BY <1>2, <1>3, <1>4, <1>5, <1>6, <1>7, <1>8

LEMMA SameWindowNext ==
  ASSUME Lawful(rb), rb'.op = rb.op, rb'.call = rb.call
  PROVE  Lawful(rb') /\ Descends(rb, rb')
BY DEF Lawful, Asks, CallSession, Runs, Descends, Made, Turned

\* The user gives a dead pane a live session.
LEMMA SelectAdvances ==
  ASSUME EngineInv, NEW p \in Panes, NEW c \in Codes, SelectOther(p, c)
  PROVE  Advances
<1> DEFINE gen == srv.gen[rb.host]
           d == Attached(c, gen)
           terminal == [rb.terminal EXCEPT ![p] = d]
<1>1. /\ WindowOK(rb) /\ rb \in Windows /\ rb.terminal \in [Panes -> PaneContents \cup {None}]
      /\ rb.batch.groups \in Seq(Groups) /\ srv \in Servers /\ rb.host \in Addrs
      /\ past \in [told : BOOLEAN, again : BOOLEAN]
  BY DEF EngineInv, WindowOK, Windows, SelectOther
<1>2. gen \in Gens /\ gen # Unknown
  BY <1>1 DEF Servers, Gens, Unknown
<1>3. /\ d \in PaneContents /\ d.code = c /\ d.gen = gen /\ d.terminated = None /\ d.cwd = None
      /\ Binding(d) = <<c, gen>>
  BY <1>2, AttachedOK DEF PaneOK, Attached, Binding
<1>4. rb' = [rb EXCEPT !.terminal = terminal] /\ UNCHANGED srv
  BY <1>1 DEF SelectOther
<1>5. /\ past'.told = past.told /\ past' \in [told : BOOLEAN, again : BOOLEAN]
      /\ past'.again = (past.again \/ TakenForLost(p, <<c, gen>>))
  <2>1. TakenForLost(p, <<c, gen>>) \in BOOLEAN
    BY DEF TakenForLost
  <2> QED
    BY <1>1, <2>1 DEF SelectOther
<1> HIDE DEF d, gen
<1>6. terminal \in [Panes -> PaneContents \cup {None}] /\ terminal[p] = d
      /\ \A q \in Panes : q # p => terminal[q] = rb.terminal[q]
  BY <1>1, <1>3
<1> HIDE DEF terminal
<1>7. /\ rb' \in Windows /\ rb'.terminal = terminal /\ rb'.op = rb.op /\ rb'.call = rb.call
      /\ rb'.batch = rb.batch /\ rb'.lock = rb.lock
  BY <1>1, <1>4, <1>6 DEF Windows
<1>8. \A q \in Panes : Runs(rb', q) <=> Runs(rb, q)
  BY <1>7 DEF Runs
<1>9. WindowOK(rb')
  BY <1>1, <1>7, <1>8 DEF WindowOK, BatchHolds, Holds, Remembers, InBatch
<1>10. ASSUME ~past'.again PROVE ~past.again /\ ChoicesSpared(rb')
  <2>1. ~past.again /\ ~TakenForLost(p, <<c, gen>>) /\ ChoicesSpared(rb)
    BY <1>5, <1>10 DEF EngineInv
  <2>2. \A q \in Panes : Spared(rb', q)
    <3> SUFFICES ASSUME NEW q \in Panes PROVE Spared(rb', q)
      OBVIOUS
    <3>1. CASE q = p
      BY <1>2, <1>3, <1>6, <1>7, <2>1, <3>1 DEF Spared, Runs, TakenForLost
    <3>2. CASE q # p
      BY <1>6, <1>7, <1>8, <2>1, <3>2 DEF Spared, ChoicesSpared
    <3> QED
      BY <3>1, <3>2
  <2>3. \A i \in 1..Len(rb'.batch.groups) : GroupSpared(rb', rb'.batch.groups[i])
    <3> SUFFICES ASSUME NEW i \in 1..Len(rb.batch.groups) PROVE GroupSpared(rb', rb.batch.groups[i])
      BY <1>7
    <3>1. rb.batch.groups[i] \in Groups /\ i \in DOMAIN rb.batch.groups
      BY <1>1
    <3> DEFINE g == rb.batch.groups[i]
    <3>2. GroupSpared(rb, g) /\ g \in Groups
      BY <2>1, <3>1 DEF ChoicesSpared, GroupsSpared
    <3>3. p \in g.members => <<c, gen>> # g.binding
      BY <2>1, <3>1 DEF TakenForLost
    <3> HIDE DEF g
    <3>4. \A m \in g.members : m \in Panes /\ (m # p => rb'.terminal[m] = rb.terminal[m])
      BY <1>6, <1>7, <3>2 DEF Groups
    <3>5. GroupSpared(rb', g)
      BY <1>2, <1>3, <1>6, <1>7, <3>2, <3>3, <3>4 DEF GroupSpared
    <3> QED
      BY <3>5 DEF g
  <2> QED
    BY <1>7, <2>1, <2>2, <2>3 DEF ChoicesSpared, GroupsSpared
<1>11. Keeps(rb, rb')
  BY <1>6, <1>7 DEF Keeps, SelectOther
<1>12. /\ Lawful(rb') /\ Led /\ Barred /\ (Lineage(srv, rb) => Lineage(srv', rb'))
  <2>1. Lawful(rb) /\ Lawful(rb') /\ Descends(rb, rb')
    BY <1>7, SameWindowNext DEF EngineInv
  <2>2. Led
    BY <1>1, <1>3, <1>6, <1>7 DEF Led, Arrives, GivenTo, BindingNow, gen
  <2>3. Barred
    BY <1>1, <1>7, <2>1, RefusedTurned DEF Barred
  <2>4. \A q \in Panes : Turned(rb', q) => Made(rb', q) # None
    BY DEF Turned, Made
  <2>5. ASSUME Lineage(srv, rb) PROVE Lineage(srv', rb')
    <3>1. \A q \in Panes : Made(rb', q) = Made(rb, q) /\ (Turned(rb', q) <=> Turned(rb, q))
      BY <1>7 DEF Made, CallSession, Turned
    <3> QED
      BY <1>4, <1>7, <2>5, <3>1 DEF Lineage
  <2> QED
    BY <2>1, <2>2, <2>3, <2>5
<1>13. ASSUME WorkTrue(srv.work, rb) PROVE WorkTrue(srv.work, rb')
  <2>1. \A q \in Panes : Shows(srv.work, rb'.terminal[q]) /\ OpTrue(srv.work, rb', q)
    <3> SUFFICES ASSUME NEW q \in Panes
                 PROVE  Shows(srv.work, rb'.terminal[q]) /\ OpTrue(srv.work, rb', q)
      OBVIOUS
    <3>1. Shows(srv.work, rb.terminal[q]) /\ OpTrue(srv.work, rb, q)
      BY <1>13 DEF WorkTrue
    <3>2. CASE q = p
      BY <1>3, <1>6, <1>7, <1>8, <3>1, <3>2 DEF Shows, OpTrue
    <3>3. CASE q # p
      BY <1>6, <1>7, <1>8, <3>1, <3>3 DEF Shows, OpTrue
    <3> QED
      BY <3>2, <3>3
  <2>2. \A i \in 1..Len(rb'.batch.groups) : GroupTrue(srv.work, rb', rb'.batch.groups[i])
    BY <1>7, <1>13 DEF WorkTrue, GroupTrue, Runs
  <2> QED
    BY <2>1, <2>2 DEF WorkTrue
<1> QED
  BY <1>1, <1>4, <1>5, <1>9, <1>10, <1>11, <1>12, <1>13 DEF Advances, EngineInv, WorkInv

\* A daemon creates the session of a rebuild.
LEMMA DaemonCreatesAdvances ==
  ASSUME EngineInv, NEW p \in Panes, DaemonCreates(p)
  PROVE  Advances
<1> DEFINE o == rb.op[p]
           a == o.host
<1>1. /\ WindowOK(rb) /\ rb.op \in [Panes -> Ops] /\ srv \in Servers /\ o \in Ops
      /\ past \in [told : BOOLEAN, again : BOOLEAN]
  BY DEF EngineInv, WindowOK, Windows
<1>2. Runs(rb, p) /\ a \in Addrs
  BY <1>1 DEF DaemonCreates, WindowOK, Holds, Remembers
<1> PICK c \in Codes, g \in {srv.gen[a], Unknown} :
      /\ SessionMade(a, c, IF o.work = None THEN <<srv.gen[a], c>> ELSE o.work)
      /\ rb' = [rb EXCEPT !.call[p] = [at |-> "created", code |-> c, gen |-> g]]
      /\ past' = [past EXCEPT !.told = @ /\ g # Unknown]
  BY DEF DaemonCreates
<1> DEFINE w == IF o.work = None THEN <<srv.gen[a], c>> ELSE o.work
           call == [at |-> "created", code |-> c, gen |-> g]
           s == [rb EXCEPT !.call[p] = call]
<1>3. srv.gen[a] \in Gens
  BY <1>1, <1>2 DEF Servers
<1>4. w \in Works /\ (o.work # None => w = o.work)
  BY <1>1, <1>3 DEF Ops, Works
<1>5. call \in Calls /\ call.at = "created" /\ call.code = c /\ call.gen = g
  BY <1>3 DEF Calls
<1>6. SessionMade(a, c, w) /\ rb' = s
  OBVIOUS
<1> HIDE DEF w, call, a
<1>7. /\ srv' \in Servers /\ srv'.work[<<srv.gen[a], c>>] = w
      /\ srv'.gen = srv.gen /\ srv'.gens = srv.gens /\ srv.work[<<srv.gen[a], c>>] = None
      /\ \A x \in Works : srv.work[x] # None => srv'.work[x] = srv.work[x]
  BY <1>1, <1>2, <1>4, <1>6, SessionMadeOK
<1>12. Lawful(rb) /\ rb.op[p].created = None /\ rb.op[p].resume # "generation"
  BY <1>2 DEF EngineInv, Lawful, Asks, DaemonCreates
<1>17. CallStep(rb, s, p, call)
  BY <1>1, <1>5, CallStepOK
<1>13. /\ s.call[p] = call /\ s.op = rb.op /\ s.terminal = rb.terminal
       /\ \A q \in Panes : q # p => s.call[q] = rb.call[q]
  BY <1>17 DEF CallStep
<1> HIDE DEF s
<1>14. Asks(s, p)
  BY <1>5, <1>12, <1>13 DEF Asks
<1>8. /\ WindowOK(s) /\ (ChoicesSpared(rb) => ChoicesSpared(s) /\ Keeps(rb, s)) /\ Lawful(s)
      /\ WorkTrue(srv'.work, rb) /\ Continues(srv'.work, o.work, [code |-> c, gen |-> g])
           => WorkTrue(srv'.work, s)
  BY <1>1, <1>2, <1>5, <1>12, <1>14, <1>17, CallSound
<1>15. Led /\ Barred
  <2>1. Led
    BY <1>6, <1>13, SamePanes DEF Led, Gives
  <2>2. WindowOK(rb) /\ Lawful(rb)
    BY <1>1, <1>12
  <2>3. Barred
    BY <1>6, <1>13, <2>2, RefusedTurned DEF Barred
  <2> QED
    BY <2>1, <2>3
<1>16. ASSUME Lineage(srv, rb) PROVE Lineage(srv', s)
  <2>1. Lineage(srv', rb)
    <3>1. \A x \in Works : srv.work[x] # None => srv'.work[x] # None
      BY <1>7
    <3> QED
      BY <1>1, <1>7, <1>16, <3>1, SessionLineage
  <2> DEFINE x == [code |-> c, gen |-> g]
  <2>2. Made(s, p) = x /\ ~Turned(s, p)
    BY <1>5, <1>13 DEF Made, CallSession, Turned
  <2>3. \A q \in Panes : q # p => Made(s, q) = Made(rb, q) /\ (Turned(s, q) <=> Turned(rb, q))
    BY <1>13 DEF Made, CallSession, Turned
  <2>4. g # Unknown =>
          /\ g = srv.gen[a] /\ g <= srv'.gens /\ srv'.work[<<g, c>>] # None
          /\ \A b \in Addrs : srv'.gen[b] = g => b = a
    BY <1>2, <1>4, <1>7, <1>16, PaneAssumption DEF Lineage
  <2>5. ASSUME NEW q \in Panes, q # p, Made(rb, q) # None, g # Unknown PROVE Made(rb, q) # x
    <3>1. ASSUME Made(rb, q) = x PROVE FALSE
      <4>1. Made(rb, q).gen = g /\ Made(rb, q).code = c
        BY <3>1
      <4>2. srv.work[<<g, c>>] # None
        BY <1>16, <2>5, <4>1 DEF Lineage
      <4> QED
        BY <1>7, <2>4, <2>5, <4>2
    <3> QED
      BY <3>1
  <2>6. x.gen = g /\ x.code = c /\ s.op[p].host = a
    BY <1>13 DEF a
  <2> HIDE DEF x
  <2>7. \A q \in Panes : LET y == Made(s, q) IN
          /\ y # None /\ y.gen # Unknown =>
               /\ y.gen <= srv'.gens /\ srv'.work[<<y.gen, y.code>>] # None
               /\ \A b \in Addrs : srv'.gen[b] = y.gen => b = s.op[q].host
          /\ Turned(s, q) => y.gen # Unknown /\ \A b \in Addrs : srv'.gen[b] # y.gen
    <3> SUFFICES ASSUME NEW q \in Panes, NEW y, y = Made(s, q)
                 PROVE  /\ y # None /\ y.gen # Unknown =>
                             /\ y.gen <= srv'.gens /\ srv'.work[<<y.gen, y.code>>] # None
                             /\ \A b \in Addrs : srv'.gen[b] = y.gen => b = s.op[q].host
                        /\ Turned(s, q) => y.gen # Unknown /\ \A b \in Addrs : srv'.gen[b] # y.gen
      OBVIOUS
    <3>1. CASE q = p
      BY <2>2, <2>4, <2>6, <3>1
    <3>2. CASE q # p
      BY <1>13, <2>1, <2>3, <3>2 DEF Lineage
    <3> QED
      BY <3>1, <3>2
  <2>8. \A q, m \in Panes : q # m /\ Made(s, q) # None /\ Made(s, q).gen # Unknown =>
          Made(s, q) # Made(s, m)
    BY <2>1, <2>2, <2>3, <2>5, <2>6 DEF Lineage
  <2> QED
    BY <2>1, <2>7, <2>8 DEF Lineage
<1>9. /\ past'.told = (past.told /\ g # Unknown) /\ past'.again = past.again
      /\ past' \in [told : BOOLEAN, again : BOOLEAN]
  BY <1>1
<1>10. g # Unknown => Continues(srv'.work, o.work, [code |-> c, gen |-> g])
  <2>1. w # None
    BY <1>4, PaneAssumption
  <2> QED
    BY <1>3, <1>4, <1>7, <2>1 DEF Continues
<1>11. WorkTrue(srv.work, rb) => WorkTrue(srv'.work, rb)
  <2>1. srv.work \in [Works -> Works \cup {None}]
    BY <1>1 DEF Servers
  <2> QED
    BY <1>1, <1>7, <2>1, WorkGrows
<1> HIDE DEF o
<1> QED
  BY <1>6, <1>7, <1>8, <1>9, <1>10, <1>11, <1>15, <1>16 DEF Advances, EngineInv, WorkInv

\* A daemon types the resume command, or turns the session down for its
\* generation.
LEMMA DaemonTypesAdvances ==
  ASSUME EngineInv, NEW p \in Panes, DaemonTypes(p)
  PROVE  Advances
<1> DEFINE o == rb.op[p]
           ans == IF srv.gen[o.host] # o.created.gen THEN "generation"
                  ELSE IF o.created.code \in srv.live[o.host] THEN "ok" ELSE "failed"
           x == [at |-> "resumed", ans |-> ans]
           s == [rb EXCEPT !.call[p] = x]
<1>1. /\ WindowOK(rb) /\ Lawful(rb) /\ rb.call[p].at = "resume" /\ rb' = s /\ UNCHANGED <<srv, past>>
  BY DEF EngineInv, DaemonTypes
<1>2. /\ o.created # None /\ o.created.gen # Unknown /\ o.resume # "generation"
      /\ Runs(rb, p) /\ o.host \in Addrs
  BY <1>1 DEF Lawful, Asks, WindowOK, Holds, Remembers
<1>3. x \in Calls /\ x.at = "resumed" /\ x.ans = ans
  BY DEF Calls
<1>4. ans = "generation" => srv.gen[o.host] # o.created.gen
  OBVIOUS
<1> HIDE DEF ans, x
<1>11. CallStep(rb, s, p, x)
  BY <1>1, <1>3, CallStepOK
<1>5. /\ s.call[p] = x /\ s.op = rb.op /\ s.terminal = rb.terminal
      /\ \A q \in Panes : q # p => s.call[q] = rb.call[q]
  BY <1>11 DEF CallStep
<1> HIDE DEF s
<1>6. Asks(s, p)
  BY <1>2, <1>3, <1>5 DEF Asks
<1>7. /\ WindowOK(s) /\ Lawful(s) /\ (ChoicesSpared(rb) => ChoicesSpared(s) /\ Keeps(rb, s))
      /\ WorkTrue(srv.work, rb) => WorkTrue(srv.work, s)
  BY <1>1, <1>2, <1>3, <1>6, <1>11, CallSound
<1>8. Led
  BY <1>1, <1>5, SamePanes DEF Led, Gives
<1>9. Barred
  BY <1>1, <1>5, RefusedTurned DEF Barred
<1>10. ASSUME Lineage(srv, rb) PROVE Lineage(srv, s)
  <2>1. Made(s, p) = o.created /\ Made(rb, p) = o.created
    BY <1>1, <1>3, <1>5 DEF Made
  <2>2. \A q \in Panes : q # p => Made(s, q) = Made(rb, q) /\ (Turned(s, q) <=> Turned(rb, q))
    BY <1>5 DEF Made, CallSession, Turned
  <2>3. Turned(s, p) => srv.gen[o.host] # o.created.gen
    BY <1>2, <1>3, <1>4, <1>5 DEF Turned
  <2>4. Turned(s, p) => \A b \in Addrs : srv.gen[b] # o.created.gen
    BY <1>2, <1>10, <2>1, <2>3 DEF Lineage
  <2>5. \A q \in Panes : Made(s, q) = Made(rb, q) /\ s.op[q].host = rb.op[q].host
    BY <1>5, <2>1, <2>2
  <2>6. \A q \in Panes : Turned(s, q) =>
          Made(s, q).gen # Unknown /\ \A b \in Addrs : srv.gen[b] # Made(s, q).gen
    BY <1>2, <1>10, <2>1, <2>2, <2>4 DEF Lineage
  <2> QED
    BY <1>10, <2>5, <2>6 DEF Lineage
<1> QED
  BY <1>1, <1>7, <1>8, <1>9, <1>10 DEF Advances, EngineInv, WorkInv

\* The session could not be identified: the operation ends where it was.
LEMMA UnidentifiedSound ==
  ASSUME NEW work, NEW r, WindowOK(r), NEW p \in Panes, r.call[p].at \in {"identify", "identified"},
         NEW x \in {"failed", "skipped"}
  PROVE  Sound(work, r, Finished([r EXCEPT !.op[p].resume = x], p))
<1> DEFINE o == [r.op[p] EXCEPT !.resume = x]
           t == [r EXCEPT !.op[p] = o]
<1>1. /\ r \in Windows /\ r.op \in [Panes -> Ops] /\ r.op[p] \in Ops /\ Runs(r, p)
  BY DEF WindowOK, Windows, Holds
<1>2. [r EXCEPT !.op[p].resume = x] = t
  BY <1>1
<1>3. /\ o \in Ops /\ o.status = r.op[p].status /\ o.created = r.op[p].created
      /\ o.host = r.op[p].host /\ o.work = r.op[p].work /\ o.resume # "generation"
  BY <1>1 DEF Ops
<1> HIDE DEF o
<1>4. /\ t \in Windows /\ t.op = [r.op EXCEPT ![p] = o] /\ t.call = r.call /\ t.host = r.host
      /\ t.terminal = r.terminal /\ t.batch = r.batch /\ t.lock = r.lock
  BY <1>1, <1>3 DEF Windows
<1> HIDE DEF t
<1>5. t.op[p] = o /\ \A q \in Panes : q # p => t.op[q] = r.op[q]
  BY <1>1, <1>4
<1>6. \A q \in Panes : Runs(t, q) <=> Runs(r, q)
  BY <1>3, <1>5 DEF Runs
<1>7. WindowOK(t) /\ Runs(t, p)
  <2>1. \A q \in Panes : Holds(t, q)
    BY <1>4, <1>6 DEF WindowOK, Holds, InBatch
  <2>2. \A q \in Panes : Remembers(t, q)
    BY <1>3, <1>5, <1>6 DEF WindowOK, Remembers, Runs
  <2> QED
    BY <1>1, <1>4, <1>6, <2>1, <2>2 DEF WindowOK, BatchHolds
<1>8. /\ t.op[p].created = r.op[p].created /\ t.op[p].work = r.op[p].work
      /\ t.op[p].host = r.op[p].host /\ t.op[p].resume # "generation" /\ t.batch = r.batch /\ t.call = r.call
  BY <1>3, <1>4, <1>5
<1>9. \A q \in Panes : q # p => t.op[q] = r.op[q]
  BY <1>5
<1>10. /\ \A q \in Panes : q # p => t.terminal[q] = r.terminal[q]
       /\ t.terminal[p] = r.terminal[p]
  BY <1>4
<1>12. Lawful(r) => ~Turned(r, p)
  BY <1>1 DEF Lawful, Asks, Turned
<1>11. Sound(work, r, Finished(t, p))
  BY <1>1, <1>7, <1>8, <1>9, <1>10, <1>12, EndSound
<1> QED
  BY <1>2, <1>11

\* The tail of an operation that left its pane alone is refused, or begins.
LEMMA TailSound ==
  ASSUME NEW work, NEW r, WindowOK(r), NEW p \in Panes,
         r.op[p].status = "done", r.op[p].created # None, ~r.op[p].repointed,
         r.terminal[p].terminated # None, NEW withResume \in BOOLEAN
  PROVE  /\ r.op[p].resume # "generation" => \A x \in {"failed", "skipped"} :
              Sound(work, r, [r EXCEPT !.op[p].resume = x])
         /\ r.lock = None /\ r.op[p].resume # "generation" =>
              Sound(work, r, [r EXCEPT !.op[p].status = "running", !.lock = p,
                                       !.call[p] = [at |-> "identify", resume |-> withResume]])
<1>1. /\ r \in Windows /\ r.op \in [Panes -> Ops] /\ r.call \in [Panes -> Calls] /\ r.op[p] \in Ops
      /\ ~Runs(r, p)
  BY DEF WindowOK, Windows, Runs
<1>2. ASSUME NEW o \in Ops, NEW s, s \in Windows, s.op = [r.op EXCEPT ![p] = o],
             s.terminal = r.terminal, s.batch = r.batch,
             o.created = r.op[p].created, o.work = r.op[p].work, o.host = r.op[p].host,
             o.repointed = FALSE, o.status # "none", o.resume # "generation",
             \/ o.status = "done" /\ s.call = r.call /\ s.lock = r.lock
             \/ /\ o.status = "running" /\ r.lock = None /\ s.lock = p
                /\ \A q \in Panes : IF q = p THEN s.call[q].at = "identify" ELSE s.call[q] = r.call[q]
      PROVE  Sound(work, r, s)
  <2>1. s.op[p] = o /\ \A q \in Panes : q # p => s.op[q] = r.op[q]
    BY <1>1, <1>2
  <2>2. r.lock = None => \A q \in Panes : ~Runs(r, q)
    BY RebuildAssumption DEF WindowOK, Holds, BatchHolds, InBatch
  <2>3. /\ \A q \in Panes : q # p => (Runs(s, q) <=> Runs(r, q))
        /\ Runs(s, p) <=> o.status = "running"
    BY <2>1 DEF Runs
  <2>4. WindowOK(s)
    <3>1. \A q \in Panes : Holds(s, q)
      BY <1>1, <1>2, <2>1, <2>2, <2>3 DEF WindowOK, Holds, InBatch
    <3>2. \A q \in Panes : Remembers(s, q)
      BY <1>2, <2>1, <2>3 DEF WindowOK, Remembers
    <3>3. BatchHolds(s)
      BY <1>2, RebuildAssumption DEF WindowOK, BatchHolds
    <3> QED
      BY <1>2, <3>1, <3>2, <3>3 DEF WindowOK
  <2>5. ChoicesSpared(r) => ChoicesSpared(s) /\ Keeps(r, s)
    <3>1. ChoicesSpared(r) => \A q \in Panes : Spared(s, q)
      BY <1>2, <2>1, <2>3 DEF ChoicesSpared, Spared
    <3> QED
      BY <1>2, <3>1 DEF ChoicesSpared, GroupsSpared, GroupSpared, Keeps
  <2>6. ASSUME Lawful(r) PROVE Lawful(s) /\ Descends(r, s)
    <3>1. r.call[p].at = "idle"
      BY <1>1 DEF WindowOK, Holds
    <3>2. s.call[p].at \in {"idle", "identify"} /\ \A q \in Panes : q # p => s.call[q] = r.call[q]
      BY <1>2, <3>1
    <3>3. \A q \in Panes : q # p => Asks(s, q) /\ Made(s, q) = Made(r, q) /\ (Turned(s, q) <=> Turned(r, q))
      BY <2>1, <2>3, <2>6, <3>2 DEF Lawful, Asks, Made, CallSession, Turned
    <3>4. Asks(s, p) /\ Made(s, p) = Made(r, p) /\ ~Turned(s, p)
      BY <1>2, <2>1, <3>1, <3>2 DEF Asks, Made, Turned
    <3> QED
      BY <1>2, <2>1, <3>3, <3>4 DEF Lawful, Descends
  <2>8. Gives(r, s)
    BY <1>2, SamePanes
  <2>7. ASSUME WorkTrue(work, r) PROVE WorkTrue(work, s)
    <3>1. \A q \in Panes : OpTrue(work, s, q)
      <4> SUFFICES ASSUME NEW q \in Panes PROVE OpTrue(work, s, q)
        OBVIOUS
      <4>1. OpTrue(work, r, q)
        BY <2>7 DEF WorkTrue
      <4>2. CASE q = p
        BY <1>2, <2>1, <4>1, <4>2 DEF OpTrue
      <4>3. CASE q # p
        BY <1>2, <2>1, <2>3, <4>1, <4>3 DEF OpTrue
      <4> QED
        BY <4>2, <4>3
    <3>2. \A i \in 1..Len(s.batch.groups) : GroupTrue(work, s, s.batch.groups[i])
      <4> SUFFICES ASSUME NEW i \in 1..Len(r.batch.groups) PROVE GroupTrue(work, s, r.batch.groups[i])
        BY <1>2
      <4>1. r.batch.groups \in Seq(Groups)
        BY <1>1 DEF Windows
      <4>2. r.batch.groups[i] \in Groups
        BY <4>1
      <4> DEFINE g == r.batch.groups[i]
      <4>3. GroupTrue(work, r, g) /\ g.source \in Panes
        BY <2>7, <4>2 DEF WorkTrue, Groups
      <4> HIDE DEF g
      <4>4. GroupTrue(work, s, g)
        BY <1>2, <2>1, <2>3, <4>3 DEF GroupTrue
      <4> QED
        BY <4>4 DEF g
    <3> QED
      BY <1>2, <2>7, <3>1, <3>2 DEF WorkTrue
  <2> QED
    BY <2>4, <2>5, <2>6, <2>7, <2>8 DEF Sound, Steady
<1>3. ASSUME r.op[p].resume # "generation", NEW x \in {"failed", "skipped"}
      PROVE  Sound(work, r, [r EXCEPT !.op[p].resume = x])
  <2> DEFINE o == [r.op[p] EXCEPT !.resume = x]
             s == [r EXCEPT !.op[p] = o]
  <2>1. /\ o \in Ops /\ o.created = r.op[p].created /\ o.work = r.op[p].work
        /\ o.host = r.op[p].host /\ o.repointed = FALSE /\ o.status = "done"
        /\ o.resume # "generation"
    BY <1>1 DEF Ops
  <2>2. [r EXCEPT !.op[p].resume = x] = s
    BY <1>1
  <2> HIDE DEF o
  <2>3. /\ s \in Windows /\ s.op = [r.op EXCEPT ![p] = o] /\ s.call = r.call
        /\ s.terminal = r.terminal /\ s.batch = r.batch /\ s.lock = r.lock
    BY <1>1, <2>1 DEF Windows
  <2> HIDE DEF s
  <2>4. Sound(work, r, s)
    BY <1>2, <2>1, <2>3
  <2> QED
    BY <2>2, <2>4
<1>4. ASSUME r.lock = None, r.op[p].resume # "generation"
      PROVE  Sound(work, r, [r EXCEPT !.op[p].status = "running", !.lock = p,
                                      !.call[p] = [at |-> "identify", resume |-> withResume]])
  <2> DEFINE o == [r.op[p] EXCEPT !.status = "running"]
             call == [at |-> "identify", resume |-> withResume]
             s == [r EXCEPT !.op[p] = o, !.lock = p, !.call[p] = call]
  <2>1. /\ o \in Ops /\ o.created = r.op[p].created /\ o.work = r.op[p].work
        /\ o.host = r.op[p].host /\ o.repointed = FALSE /\ o.status = "running"
        /\ o.resume # "generation"
    BY <1>1, <1>4 DEF Ops
  <2>2. call \in Calls /\ call.at = "identify"
    BY DEF Calls
  <2>3. [r EXCEPT !.op[p].status = "running", !.lock = p, !.call[p] = call] = s
    BY <1>1
  <2> HIDE DEF o, call
  <2>4. /\ s \in Windows /\ s.op = [r.op EXCEPT ![p] = o] /\ s.call = [r.call EXCEPT ![p] = call]
        /\ s.terminal = r.terminal /\ s.batch = r.batch /\ s.lock = p
    BY <1>1, <2>1, <2>2 DEF Windows
  <2> HIDE DEF s
  <2>5. \A q \in Panes : IF q = p THEN s.call[q].at = "identify" ELSE s.call[q] = r.call[q]
    BY <1>1, <2>2, <2>4
  <2>6. Sound(work, r, s)
    BY <1>2, <1>4, <2>1, <2>4, <2>5
  <2> QED
    BY <2>3, <2>6 DEF call
<1> QED
  BY <1>3, <1>4

LEMMA OperationAdvances ==
  ASSUME EngineInv, NEW p \in Panes,
         \/ \E plan \in Plans : rebuildPane(p, plan)
         \/ CreateAnswered(p) \/ CreateDuplicate(p) \/ CreateFails(p)
         \/ ResumeAnswered(p) \/ ResumeFails(p)
         \/ \E w \in BOOLEAN : resumeTail(p, w)
         \/ DaemonIdentifies(p) \/ IdentityAnswered(p) \/ IdentityFails(p)
  PROVE  Advances
<1> DEFINE o == rb.op[p]
           call == rb.call[p]
<1>1. /\ WindowOK(rb) /\ rb \in Windows /\ call \in Calls /\ o \in Ops
      /\ rb.op \in [Panes -> Ops] /\ rb.call \in [Panes -> Calls] /\ Lawful(rb)
  BY DEF EngineInv, WindowOK, Windows
<1>2. call.at # "idle" => Runs(rb, p) /\ o.resume # "generation"
  BY <1>1 DEF WindowOK, Holds, Lawful, Asks
<1>3. ASSUME call.at \in {"create", "created"} PROVE Sound(srv.work, rb, Finished(rb, p))
  <2>1. Runs(rb, p) /\ o.resume # "generation"
    BY <1>2, <1>3
  <2>2. ~Turned(rb, p)
    BY <1>1, <1>3, <2>1 DEF Turned
  <2> QED
    BY <1>1, <2>1, <2>2, EndSound
<1>4. ASSUME NEW plan \in Plans, rebuildPane(p, plan) PROVE Advances
  <2>1. CASE rb.lock # None \/ rb.host = None
    BY <1>1, <1>4, <2>1, RefusalSound, SpaAdvances DEF rebuildPane
  <2>2. CASE rb.lock = None /\ rb.host # None
    <3>1. \A q \in Panes : ~Runs(rb, q)
      BY <1>1, <2>2, RebuildAssumption DEF WindowOK, Holds, BatchHolds, InBatch
    <3>2. rb.terminal[p] # None /\ rb.terminal[p].terminated # None
      BY <1>4 DEF rebuildPane, Offered
    <3>3. Sound(srv.work, rb, [Begin(rb, p, plan) EXCEPT !.lock = p])
      BY <1>1, <2>2, <3>1, <3>2, BeginSound
    <3> QED
      BY <1>4, <2>2, <3>3, SpaAdvances DEF rebuildPane
  <2> QED
    BY <2>1, <2>2
<1>5. CASE CreateAnswered(p)
  <2> DEFINE t == [rb EXCEPT !.op[p].created = [code |-> rb.call[p].code, gen |-> rb.call[p].gen]]
             s == ResumeStep(t, p, rb.op[p].plan.runResume)
  <2>1. rb.call[p].at = "created" /\ Spa(s)
    BY <1>5 DEF CreateAnswered
  <2>2. /\ Sound(srv.work, rb, t) /\ Runs(t, p) /\ t.terminal = rb.terminal
        /\ t.op[p].created # None /\ t.call[p].at = "created"
        /\ \A q \in Panes : Turned(rb, q) => Turned(t, q)
    BY <1>1, <2>1, CreatedSound
  <2> HIDE DEF t
  <2>3. WindowOK(t)
    BY <2>2 DEF Sound, Steady
  <2>4. Sound(srv.work, t, s)
    BY <2>2, <2>3, ResumeStepSound
  <2> HIDE DEF s
  <2>5. Sound(srv.work, rb, s)
    BY <2>2, <2>4, SoundThrough
  <2> QED
    BY <2>1, <2>5, SpaAdvances
<1>8. ASSUME NEW x \in Calls, x.at \in {"create", "identified"}, Runs(rb, p),
             x.at = "create" => o.created = None, x.at = "identified" => o.created # None,
             Spa([rb EXCEPT !.call[p] = x])
      PROVE  Advances
  <2> DEFINE s == [rb EXCEPT !.call[p] = x]
  <2>1. CallStep(rb, s, p, x)
    BY <1>1, CallStepOK
  <2>2. Spa(s)
    BY <1>8
  <2> HIDE DEF s
  <2>3. Asks(s, p)
    BY <1>1, <1>2, <1>8, <2>1 DEF Asks, CallStep, Lawful
  <2>4. Sound(srv.work, rb, s)
    BY <1>1, <1>8, <2>1, <2>3, CallSound
  <2> QED
    BY <2>2, <2>4, SpaAdvances
<1>6. CASE CreateDuplicate(p)
  <2>1. Runs(rb, p) /\ o.created = None /\ call.at = "create"
    BY <1>1, <1>2, <1>6 DEF CreateDuplicate, Lawful, Asks
  <2>2. CASE rb.call[p].attempt < CREATE_ATTEMPT_CAP /\ rb.host = rb.op[p].host
    <3> DEFINE x == [call EXCEPT !.attempt = @ + 1]
    <3>1. call \in [at : {"create"}, attempt : 1..CREATE_ATTEMPT_CAP]
      BY <1>1, <1>6 DEF CreateDuplicate, Calls, NoCall
    <3>2. x \in Calls /\ x.at = "create"
      <4>1. call.attempt + 1 \in 1..CREATE_ATTEMPT_CAP
        BY <2>2, <3>1, RebuildAssumption
      <4>2. x \in [at : {"create"}, attempt : 1..CREATE_ATTEMPT_CAP]
        BY <3>1, <4>1
      <4> QED
        BY <4>2 DEF Calls
    <3>3. Spa([rb EXCEPT !.call[p] = x])
      <4>1. [rb EXCEPT !.call[p].attempt = @ + 1] = [rb EXCEPT !.call[p] = x]
        BY <1>1
      <4> QED
        BY <1>6, <2>2, <4>1 DEF CreateDuplicate
    <3> HIDE DEF x
    <3> QED
      BY <1>8, <2>1, <3>2, <3>3
  <2>3. CASE ~(rb.call[p].attempt < CREATE_ATTEMPT_CAP /\ rb.host = rb.op[p].host)
    BY <1>3, <1>6, <2>1, <2>3, SpaAdvances DEF CreateDuplicate
  <2> QED
    BY <2>2, <2>3
<1>7. CASE CreateFails(p)
  BY <1>3, <1>7, SpaAdvances DEF CreateFails
<1>10. CASE ResumeAnswered(p)
  <2>1. Runs(rb, p) /\ rb.call[p].ans \in Results
    BY <1>1, <1>2, <1>10 DEF ResumeAnswered, Calls, NoCall, Results
  <2>3. /\ rb.call[p].ans = "generation" => Turned(rb, p)
        /\ rb.call[p].ans \notin {"failed", "generation"} => ~Turned(rb, p)
    BY <1>1, <1>2, <1>10 DEF ResumeAnswered, Turned, Lawful, Asks
  <2>2. Sound(srv.work, rb, RepointStep(rb, p, rb.call[p].ans))
    BY <1>1, <2>1, <2>3, RepointStepSound
  <2> QED
    BY <1>10, <2>2, SpaAdvances DEF ResumeAnswered
<1>11. CASE ResumeFails(p)
  <2>1. Runs(rb, p) /\ "failed" \in Results
    BY <1>2, <1>11 DEF ResumeFails, Results
  <2>2. Sound(srv.work, rb, RepointStep(rb, p, "failed"))
    BY <1>1, <2>1, RepointStepSound
  <2> QED
    BY <1>11, <2>2, SpaAdvances DEF ResumeFails
<1>12. ASSUME NEW w \in BOOLEAN, resumeTail(p, w) PROVE Advances
  <2>1. /\ o.status = "done" /\ o.created # None /\ ~o.repointed
        /\ rb.terminal[p].terminated # None
    BY <1>12 DEF resumeTail, TailOffered
  <2>2. CASE o.resume = "generation"
    <3>1. Sound(srv.work, rb, rb) /\ Spa(rb)
      BY <1>1, <1>12, <2>2, SameSound DEF resumeTail
    <3> QED
      BY <3>1, SpaAdvances
  <2>3. CASE /\ o.resume # "generation"
             /\ rb.lock # None \/ rb.host # o.host \/ o.created.gen = Unknown
    <3>1. Sound(srv.work, rb, [rb EXCEPT !.op[p].resume = IF w THEN "failed" ELSE "skipped"])
      <4>1. (IF w THEN "failed" ELSE "skipped") \in {"failed", "skipped"}
        OBVIOUS
      <4> QED
        BY <1>1, <2>1, <2>3, <4>1, TailSound
    <3> QED
      BY <1>12, <2>3, <3>1, SpaAdvances DEF resumeTail
  <2>4. CASE /\ o.resume # "generation"
             /\ ~(rb.lock # None \/ rb.host # o.host \/ o.created.gen = Unknown)
    <3>1. Sound(srv.work, rb, [rb EXCEPT !.op[p].status = "running", !.lock = p,
                                         !.call[p] = [at |-> "identify", resume |-> w]])
      BY <1>1, <2>1, <2>4, TailSound
    <3> QED
      BY <1>12, <2>4, <3>1, SpaAdvances DEF resumeTail
  <2> QED
    BY <2>2, <2>3, <2>4
<1>13. CASE DaemonIdentifies(p)
  <2> DEFINE x == [at |-> "identified", resume |-> call.resume,
                   same |-> /\ o.created.code \in srv.live[o.host]
                            /\ srv.gen[o.host] = o.created.gen]
  <2>1. call.resume \in BOOLEAN
    BY <1>1, <1>13 DEF DaemonIdentifies, Calls, NoCall
  <2>2. x \in Calls /\ x.at = "identified"
    BY <2>1 DEF Calls
  <2>3. Spa([rb EXCEPT !.call[p] = x]) /\ Runs(rb, p) /\ o.created # None
    BY <1>1, <1>2, <1>13 DEF DaemonIdentifies, Spa, Lawful, Asks
  <2> QED
    BY <1>8, <2>2, <2>3
<1>14. ASSUME call.at \in {"identify", "identified"}
       PROVE  /\ Runs(rb, p) /\ o.created # None
              /\ Sound(srv.work, rb, Finished([rb EXCEPT !.op[p].resume =
                          IF rb.call[p].resume THEN "failed" ELSE "skipped"], p))
  <2>1. (IF rb.call[p].resume THEN "failed" ELSE "skipped") \in {"failed", "skipped"}
    OBVIOUS
  <2>2. Runs(rb, p) /\ o.created # None
    BY <1>1, <1>2, <1>14 DEF Lawful, Asks
  <2> QED
    BY <1>1, <1>14, <2>1, <2>2, UnidentifiedSound
<1>15. CASE IdentityAnswered(p)
  <2>1. CASE rb.call[p].same
    <3>1. Sound(srv.work, rb, ResumeStep(rb, p, rb.call[p].resume))
      BY <1>1, <1>14, <1>15, ResumeStepSound DEF IdentityAnswered
    <3> QED
      BY <1>15, <2>1, <3>1, SpaAdvances DEF IdentityAnswered
  <2>2. CASE ~rb.call[p].same
    BY <1>14, <1>15, <2>2, SpaAdvances DEF IdentityAnswered
  <2> QED
    BY <2>1, <2>2
<1>16. CASE IdentityFails(p)
  BY <1>14, <1>16, SpaAdvances DEF IdentityFails
<1> QED
  BY <1>4, <1>5, <1>6, <1>7, <1>10, <1>11, <1>12, <1>13, <1>15, <1>16

\* Of every lost session that a batch finds, there is one group.
LEMMA GroupsOfOK ==
  ASSUME EngineInv, NEW bindings, bindings = {Binding(rb.terminal[p]) : p \in Candidates},
         Candidates # {},
         NEW order \in [1..Cardinality(bindings) -> bindings],
         NEW source \in [bindings -> Candidates],
         \A b \in bindings : Binding(rb.terminal[source[b]]) = b
  PROVE  LET groups == GroupsOf(order, source)
         IN /\ groups \in Seq(Groups) /\ groups # <<>>
            /\ \A i \in 1..Len(groups) :
                 /\ groups[i].binding = order[i] /\ i \in DOMAIN order
                 /\ groups[i].source \in groups[i].members
                 /\ \A m \in groups[i].members : LET c == rb.terminal[m] IN
                      /\ c # None /\ c.terminated # None /\ c.cwd # None /\ c.gen # Unknown
                      /\ Binding(c) = groups[i].binding
<1>1. /\ rb.terminal \in [Panes -> PaneContents \cup {None}] /\ Candidates \subseteq Panes
      /\ \A p \in Candidates : rb.terminal[p] # None /\ rb.terminal[p] \in PaneContents
  BY DEF EngineInv, WindowOK, Windows, Candidates
<1>2. bindings \subseteq Bindings
  BY <1>1 DEF Binding, Bindings, PaneContents
<1>3. IsFiniteSet(bindings)
  <2>1. IsFiniteSet(Codes) /\ IsFiniteSet(Gens) /\ IsFiniteSet({Unknown})
    <3>1. 1 \in Int /\ MaxCode \in Int /\ MaxGen \in Int
      BY PaneAssumption
    <3>2. IsFiniteSet(1..MaxCode) /\ IsFiniteSet(1..MaxGen)
      BY <3>1, FS_Interval
    <3> QED
      BY <3>2, FS_Singleton DEF Codes, Gens
  <2>2. IsFiniteSet(Gens \cup {Unknown})
    BY <2>1, FS_Union
  <2>3. IsFiniteSet(Bindings)
    BY <2>1, <2>2, FS_Product DEF Bindings
  <2> QED
    BY <1>2, <2>3, FS_Subset
<1>4. Cardinality(bindings) \in Nat /\ Cardinality(bindings) # 0
  BY <1>3, FS_CardinalityType, FS_EmptySet
<1> DEFINE n == Cardinality(bindings)
           groups == GroupsOf(order, source)
<1>5. /\ DOMAIN order = 1..n
      /\ groups = [i \in 1..n |->
                     [binding |-> order[i], source |-> source[order[i]],
                      members |-> {p \in Candidates : Binding(rb.terminal[p]) = order[i]}]]
  BY DEF GroupsOf
<1>6. \A i \in 1..n : order[i] \in bindings /\ source[order[i]] \in Candidates
  OBVIOUS
<1> HIDE DEF n, groups
<1>7. ASSUME NEW i \in 1..n
      PROVE  /\ groups[i] \in Groups /\ groups[i].binding = order[i]
             /\ groups[i].source \in groups[i].members
             /\ \A m \in groups[i].members : m \in Candidates /\ Binding(rb.terminal[m]) = order[i]
  <2> DEFINE members == {p \in Candidates : Binding(rb.terminal[p]) = order[i]}
  <2>1. groups[i] = [binding |-> order[i], source |-> source[order[i]], members |-> members]
    BY <1>5
  <2>2. order[i] \in Bindings /\ source[order[i]] \in Panes /\ members \in SUBSET Panes
    BY <1>1, <1>2, <1>6
  <2>3. Binding(rb.terminal[source[order[i]]]) = order[i] /\ source[order[i]] \in Candidates
    BY <1>6
  <2>4. source[order[i]] \in members
    BY <2>3
  <2>5. \A m \in members : m \in Candidates /\ Binding(rb.terminal[m]) = order[i]
    OBVIOUS
  <2> HIDE DEF members
  <2>6. groups[i] \in Groups
    BY <2>1, <2>2 DEF Groups
  <2> QED
    BY <2>1, <2>4, <2>5, <2>6
<1>8. n \in Nat \ {0}
  BY <1>4 DEF n
<1>9. groups \in Seq(Groups) /\ Len(groups) = n /\ groups # <<>>
  <2>1. \A i \in 1..n : groups[i] \in Groups
    BY <1>7
  <2>2. DOMAIN groups = 1..n /\ groups = [i \in 1..n |-> groups[i]]
    BY <1>5
  <2>3. groups \in [1..n -> Groups]
    BY <2>1, <2>2
  <2> QED
    BY <1>8, <2>3
<1>10. \A m \in Candidates : LET c == rb.terminal[m] IN
         c # None /\ c.terminated # None /\ c.cwd # None /\ c.gen # Unknown
  BY PaneAssumption DEF Candidates, Rebuildable, Reasons
<1>11. \A i \in 1..Len(groups) :
         /\ groups[i].binding = order[i] /\ i \in DOMAIN order
         /\ groups[i].source \in groups[i].members
         /\ \A m \in groups[i].members : LET c == rb.terminal[m] IN
              /\ c # None /\ c.terminated # None /\ c.cwd # None /\ c.gen # Unknown
              /\ Binding(c) = groups[i].binding
  BY <1>5, <1>7, <1>9, <1>10
<1> QED
  BY <1>9, <1>11 DEF groups

LEMMA BatchAdvances ==
  ASSUME EngineInv, runBatchRebuild \/ BatchGroupStarts
  PROVE  Advances
<1>1. WindowOK(rb) /\ rb \in Windows /\ rb.batch.groups \in Seq(Groups)
  BY DEF EngineInv, WindowOK, Windows
<1>2. CASE runBatchRebuild
  <2> DEFINE bindings == {Binding(rb.terminal[p]) : p \in Candidates}
  <2>5. PICK order \in [1..Cardinality(bindings) -> bindings], source \in [bindings -> Candidates] :
        /\ \A i, j \in DOMAIN order : order[i] = order[j] => i = j
        /\ \A b \in bindings : Binding(rb.terminal[source[b]]) = b
        /\ Spa([rb EXCEPT !.lock = "batch",
                          !.batch = [groups |-> GroupsOf(order, source), running |-> TRUE]])
    BY <1>2 DEF runBatchRebuild
  <2> DEFINE groups == GroupsOf(order, source)
             s == [rb EXCEPT !.lock = "batch", !.batch = [groups |-> groups, running |-> TRUE]]
  <2>1. Candidates # {} /\ rb.lock = None /\ Spa(s)
    BY <1>2, <2>5 DEF runBatchRebuild
  <2>2. /\ groups \in Seq(Groups) /\ groups # <<>>
        /\ \A i \in 1..Len(groups) :
             /\ groups[i].binding = order[i] /\ i \in DOMAIN order
             /\ groups[i].source \in groups[i].members
             /\ \A m \in groups[i].members : LET c == rb.terminal[m] IN
                  /\ c # None /\ c.terminated # None /\ c.cwd # None /\ c.gen # Unknown
                  /\ Binding(c) = groups[i].binding
    BY <2>1, <2>5, GroupsOfOK
  <2> HIDE DEF groups
  <2>3. \A i, j \in 1..Len(groups) : groups[i].binding = groups[j].binding => i = j
    <3>1. \A i, j \in DOMAIN order : order[i] = order[j] => i = j
      BY <2>5
    <3> QED
      BY <2>2, <3>1
  <2>4. Sound(srv.work, rb, s)
    BY <1>1, <2>1, <2>2, <2>3, BatchSound
  <2> QED
    BY <2>1, <2>4, SpaAdvances
<1>3. CASE BatchGroupStarts
  <2> DEFINE g == Head(rb.batch.groups)
             p == g.source
             plan == [runResume |-> /\ rb.terminal[p] # None /\ rb.terminal[p].agent # None
                                    /\ ~rb.terminal[p].unverified]
  <2>1. /\ rb.batch.running /\ rb.call[p].at = "idle"
        /\ Spa(IF rb.host = None \/ ~bindingUnchanged(rb, p, g.binding)
               THEN RepointMembers(publishRefusal(rb, p), p, "skipped")
               ELSE Begin(rb, p, plan))
    BY <1>3 DEF BatchGroupStarts
  <2>2. p \in Panes
    <3>1. rb.batch.groups # <<>>
      BY <1>1, <2>1 DEF WindowOK, BatchHolds
    <3>2. Head(rb.batch.groups) \in Groups
      BY <1>1, <3>1
    <3> QED
      BY <3>2 DEF Groups
  <2>3. \A q \in Panes : ~Runs(rb, q)
    BY <1>1, <2>1, RebuildAssumption DEF WindowOK, Holds, BatchHolds, InBatch
  <2>4. CASE rb.host = None \/ ~bindingUnchanged(rb, p, g.binding)
    <3> DEFINE s == RepointMembers(publishRefusal(rb, p), p, "skipped")
    <3>1. /\ Steady(srv.work, rb, s)
          /\ \A m \in Panes : s.terminal[m] = rb.terminal[m]
                            \/ (rb.host # None /\ m \in Head(rb.batch.groups).members \ {p})
      BY <1>1, <2>1, <2>2, <2>3, RefusedGroupSound
    <3>2. Spa(s) /\ rb' = s
      BY <2>1, <2>4 DEF Spa
    <3> HIDE DEF s
    <3>3. Led
      <4> SUFFICES ASSUME NEW m \in Panes PROVE GivenTo(rb, s, m) \/ FollowsEarlier(m)
        BY <3>2 DEF Led
      <4> QED
        BY <1>3, <2>4, <3>1 DEF GivenTo, BindingNow, FollowsEarlier
    <3> QED
      BY <3>1, <3>2, <3>3, SpaSettles
  <2>5. CASE rb.host # None /\ bindingUnchanged(rb, p, g.binding)
    <3> DEFINE t == Begin(rb, p, plan)
    <3>1. plan \in Plans
      <4>1. rb.terminal[p] # None => rb.terminal[p].unverified \in BOOLEAN
        <5>1. rb.terminal[p] \in PaneContents \cup {None}
          BY <1>1, <2>2 DEF Windows
        <5> QED
          BY <5>1 DEF PaneContents
      <4> QED
        BY <4>1 DEF Plans
    <3> HIDE DEF plan
    <3>2. Sound(srv.work, rb, [t EXCEPT !.lock = "batch"])
      BY <1>1, <2>1, <2>2, <2>3, <2>5, <3>1, BeginSound DEF bindingUnchanged
    <3>3. [t EXCEPT !.lock = "batch"] = t
      BY <1>1, <2>1 DEF Begin, WindowOK, BatchHolds, Windows
    <3> HIDE DEF t
    <3>4. Sound(srv.work, rb, t)
      BY <3>2, <3>3
    <3> QED
      BY <2>1, <2>5, <3>4, SpaAdvances DEF t
  <2> QED
    BY <2>4, <2>5
<1> QED
  BY <1>2, <1>3

LEMMA EngineStarts == RebuildInit => EngineInv /\ WorkInv /\ Lineage(srv, rb)
<1> SUFFICES ASSUME RebuildInit PROVE EngineInv /\ WorkInv /\ Lineage(srv, rb)
  OBVIOUS
<1>1. 1 \in Codes /\ 1 \in Gens /\ 2 \in Gens /\ (CHOOSE x \in Addrs : TRUE) \in Addrs
  BY PaneAssumption, RebuildAssumption DEF Codes, Gens
<1>2. PICK code \in [Panes -> Codes], agent \in Agents \cup {None} :
        rb = [terminal |-> [p \in Panes |->
                              [Attached(code[p], 1) EXCEPT
                                 !.terminated = "tmux-restarted", !.cwd = <<1, code[p]>>,
                                 !.cwdSource = "pane-probe", !.recGen = 1, !.agent = agent]],
              op |-> [p \in Panes |-> NoOp], lock |-> None,
              call |-> [p \in Panes |-> NoCall], batch |-> NoBatch,
              host |-> CHOOSE x \in Addrs : TRUE]
  BY DEF RebuildInit
<1>3. /\ rb.op = [p \in Panes |-> NoOp] /\ rb.lock = None /\ rb.call = [p \in Panes |-> NoCall]
      /\ rb.batch = NoBatch /\ rb.host \in Addrs
      /\ \A p \in Panes : LET c == rb.terminal[p] IN
           /\ c \in PaneContents /\ c.cwd = <<1, code[p]>> /\ c.gen = 1 /\ c.code = code[p]
  <2>1. ASSUME NEW p \in Panes
        PROVE  LET c == rb.terminal[p] IN
                 /\ c \in PaneContents /\ c.cwd = <<1, code[p]>> /\ c.gen = 1 /\ c.code = code[p]
    <3>1. rb.terminal[p] = [code |-> code[p], gen |-> 1, terminated |-> "tmux-restarted",
                            cwd |-> <<1, code[p]>>, cwdSource |-> "pane-probe", agent |-> agent,
                            unverified |-> FALSE, recGen |-> 1]
      BY <1>2 DEF Attached
    <3>2. code[p] \in Codes /\ <<1, code[p]>> \in Works
      BY <1>1 DEF Works
    <3> QED
      BY <1>1, <3>1, <3>2 DEF PaneContents, Reasons, CwdSources
  <2> QED
    BY <1>1, <1>2, <2>1
<1>4. /\ NoOp \in Ops /\ NoOp.status = "none" /\ NoOp.created = None /\ NoOp.resume = "skipped"
      /\ NoCall \in Calls /\ NoCall.at = "idle"
      /\ NoBatch \in [groups : Seq(Groups), running : BOOLEAN]
      /\ NoBatch.groups = <<>> /\ NoBatch.running = FALSE
  BY DEF NoOp, EmptyOp, Ops, Plans, NoCall, Calls, NoBatch
<1>5. rb \in Windows
  <2>1. rb.terminal \in [Panes -> PaneContents \cup {None}]
    BY <1>2, <1>3
  <2>2. rb = [terminal |-> rb.terminal, op |-> rb.op, lock |-> rb.lock, call |-> rb.call,
              batch |-> rb.batch, host |-> rb.host]
    BY <1>2
  <2> QED
    BY <1>3, <1>4, <2>1, <2>2 DEF Windows
<1>6. \A p \in Panes : ~Runs(rb, p)
  BY <1>3, <1>4 DEF Runs
<1>7. WindowOK(rb)
  BY <1>3, <1>4, <1>5, <1>6, RebuildAssumption DEF WindowOK, BatchHolds, Holds, Remembers
<1>12. PICK n \in Gens, gen \in FirstGens :
         /\ \A a \in Addrs : gen[a] <= n
         /\ srv = [gen |-> gen, live |-> [a \in Addrs |-> {}], gens |-> n,
                   work |-> [w \in Works |-> IF w[1] = 1 THEN w ELSE None]]
  BY DEF RebuildInit
<1>8. srv \in Servers /\ \A x \in Works : x[1] = 1 => srv.work[x] = x
  <2>1. gen \in [Addrs -> Gens] /\ [a \in Addrs |-> {}] \in [Addrs -> SUBSET Codes]
    BY DEF FirstGens
  <2> QED
    BY <1>1, <1>12, <2>1 DEF Servers, Works
<1>9. past \in [told : BOOLEAN, again : BOOLEAN]
  BY DEF RebuildInit
<1>10. ChoicesSpared(rb)
  BY <1>3, <1>4, <1>6 DEF ChoicesSpared, GroupsSpared, Spared
<1>11. WorkTrue(srv.work, rb)
  <2>1. \A p \in Panes : Shows(srv.work, rb.terminal[p])
    <3> SUFFICES ASSUME NEW p \in Panes PROVE Shows(srv.work, rb.terminal[p])
      OBVIOUS
    <3>1. <<1, code[p]>> \in Works
      BY <1>1 DEF Works
    <3> QED
      BY <1>1, <1>3, <1>8, <3>1 DEF Shows
  <2>2. \A p \in Panes : OpTrue(srv.work, rb, p)
    BY <1>3, <1>4, <1>6 DEF OpTrue
  <2> QED
    BY <1>3, <1>4, <2>1, <2>2 DEF WorkTrue
<1>13. Lawful(rb)
  BY <1>3, <1>4, <1>6 DEF Lawful, Asks
<1>14. Lineage(srv, rb)
  <2>1. \A p \in Panes : Made(rb, p) = None /\ ~Turned(rb, p)
    BY <1>3, <1>4 DEF Made, Turned
  <2>2. \A a, b \in Addrs : srv.gen[a] = srv.gen[b] => a = b
    BY <1>12 DEF FirstGens
  <2> QED
    BY <1>12, <2>1, <2>2 DEF Lineage
<1> QED
  BY <1>7, <1>8, <1>9, <1>10, <1>11, <1>13, <1>14 DEF EngineInv, WorkInv

LEMMA EngineSteps == EngineInv /\ [RebuildNext]_rebuildVars => Advances
<1> SUFFICES ASSUME EngineInv, [RebuildNext]_rebuildVars PROVE Advances
  OBVIOUS
<1>1. CASE UNCHANGED rebuildVars
  <2>1. Sound(srv.work, rb, rb) /\ Spa(rb)
    BY <1>1, SameSound DEF rebuildVars, Spa, EngineInv
  <2> QED
    BY <2>1, SpaAdvances
<1>2. ASSUME NEW p \in Panes, NEW c \in Codes, SelectOther(p, c) PROVE Advances
  BY <1>2, SelectAdvances
<1>3. ASSUME NEW p \in Panes, DaemonCreates(p) PROVE Advances
  BY <1>3, DaemonCreatesAdvances
<1>4. ASSUME NEW p \in Panes, DaemonTypes(p) PROVE Advances
  BY <1>4, DaemonTypesAdvances
<1> QED
  BY <1>1, <1>2, <1>3, <1>4, EnvironmentAdvances, OperationAdvances, BatchAdvances DEF RebuildNext

\* The lineage of the sessions is what the refusal of one rests on; the rest
\* of the invariant keeps the engine, its panes and their work.
LEMMA EngineKeepsInv == RebuildSpec => [](EngineInv /\ WorkInv /\ Lineage(srv, rb))
<1>1. EngineInv /\ WorkInv /\ Lineage(srv, rb) /\ [RebuildNext]_rebuildVars =>
        (EngineInv /\ WorkInv /\ Lineage(srv, rb))'
  BY EngineSteps DEF Advances
<1> QED
  BY <1>1, EngineStarts, PTL DEF RebuildSpec

LEMMA EngineInvMeans == EngineInv => RebuildTypeOK /\ OneOperationAtATime
<1> SUFFICES ASSUME EngineInv PROVE RebuildTypeOK /\ OneOperationAtATime
  OBVIOUS
<1>1. WindowOK(rb) /\ rb \in Windows /\ srv \in Servers
  BY DEF EngineInv, WindowOK
<1>2. RebuildTypeOK
  BY <1>1 DEF EngineInv, RebuildTypeOK, Windows, Servers
<1>3. Cardinality(Running) <= 1
  <2>1. CASE Running = {}
    BY <2>1, FS_EmptySet
  <2>2. ASSUME NEW p \in Running PROVE Cardinality(Running) <= 1
    <3>2. p \in Panes /\ Runs(rb, p) /\ \A q \in Running : q \in Panes /\ Runs(rb, q)
      BY <2>2 DEF Running, Runs
    <3>3. \A q \in Running : q = p
      BY <1>1, <3>2, OneRuns
    <3>1. Running = {p}
      BY <2>2, <3>3
    <3> QED
      <4>1. Cardinality({p}) = 1
        BY FS_Singleton
      <4> QED
        BY <3>1, <4>1
  <2> QED
    BY <2>1, <2>2
<1>4. \A p \in Running : rb.lock = p \/ (rb.lock = "batch" /\ InBatch(rb, p))
  BY <1>1 DEF Running, Runs, WindowOK, Holds, BatchHolds, InBatch
<1> QED
  BY <1>2, <1>3, <1>4 DEF OneOperationAtATime

\* The engine lock (rebuild/engine.ts, rebuild/batch.ts): one rebuild, tail
\* or batch group runs at a time, for any number of panes, and whoever runs
\* holds the lock.
THEOREM OneOperationAlways == RebuildSpec => []OneOperationAtATime
BY EngineKeepsInv, EngineInvMeans, PTL

\* Once a session is refused, a pane that comes to show it follows an earlier
\* operation in a refused group: a session given otherwise was made by an
\* operation that is not turned down, and no other operation made the same, or
\* is one of a server that runs.
LEMMA RefusedDetached ==
  ASSUME EngineInv, Lineage(srv, rb), Led, Barred,
         NEW s \in Refused(rb) \cup Refused(rb'), NEW m \in Panes,
         BindingNow(rb', m) = <<s.code, s.gen>>
  PROVE  BindingNow(rb, m) = <<s.code, s.gen>> \/ FollowsEarlier(m)
<1>1. WindowOK(rb) /\ Lawful(rb)
  BY DEF EngineInv
<1>2. PICK q \in Panes : Turned(rb, q) /\ Made(rb, q) = s
  <2>1. ASSUME s \in Refused(rb) PROVE \E q \in Panes : Turned(rb, q) /\ Made(rb, q) = s
    <3> PICK q \in Panes : rb.op[q].created # None /\ rb.op[q].resume = "generation"
                           /\ s = rb.op[q].created
      BY <2>1 DEF Refused
    <3>1. Turned(rb, q) /\ Made(rb, q) = s
      BY <1>1, RefusedTurned
    <3> QED
      BY <3>1
  <2>2. ASSUME s \in Refused(rb') PROVE \E q \in Panes : Turned(rb, q) /\ Made(rb, q) = s
    <3> PICK q \in Panes : rb'.op[q].created # None /\ rb'.op[q].resume = "generation"
                           /\ s = rb'.op[q].created
      BY <2>2 DEF Refused
    <3> QED
      BY DEF Barred
  <2> QED
    BY <2>1, <2>2
<1>3. s \in Sessions /\ s # None /\ <<s.code, s.gen>> # None
  <2>1. s # None
    BY <1>2, TurnedMade
  <2>2. s \in Sessions
    BY <1>1, <1>2, <2>1, MadeTyped
  <2> QED
    BY <2>1, <2>2, RebuildAssumption DEF Sessions, Bindings
<1>4. s.gen # Unknown /\ \A a \in Addrs : srv.gen[a] # s.gen
  BY <1>2 DEF Lineage
<1>5. ASSUME NEW p \in Panes, Made(rb, p) # None, ~Turned(rb, p),
             <<s.code, s.gen>> = PairOf(Made(rb, p))
      PROVE  FALSE
  <2>1. Made(rb, p) \in Sessions
    BY <1>1, <1>5, MadeTyped
  <2>2. Made(rb, p) = s
    BY <1>3, <1>5, <2>1 DEF Sessions, PairOf
  <2> QED
    BY <1>2, <1>3, <1>4, <1>5, <2>2 DEF Lineage
<1>6. ASSUME Arrives(m) PROVE FALSE
  BY <1>4, <1>6 DEF Arrives, BindingNow, Binding
<1>7. GivenTo(rb, rb', m) \/ FollowsEarlier(m)
  BY <1>6 DEF Led
<1> QED
  BY <1>3, <1>5, <1>7 DEF GivenTo

\* A session whose daemon refused the resume for its generation is never shown
\* by a pane that did not show it, whether by a rebuild, a tail, a batch, a
\* session list or the user (retryResume and attachAnyway in
\* rebuild/engine.ts), but for the panes of a batch group that is itself
\* refused, which follow an earlier operation of their source (runGroup in
\* rebuild/batch.ts).
THEOREM RefusedStaysDetached == RebuildSpec => RefusedSessionStaysDetached
<1>1. EngineInv /\ Lineage(srv, rb) /\ [RebuildNext]_rebuildVars =>
        [\A s \in Refused(rb) \cup Refused(rb'), m \in Panes :
            BindingNow(rb', m) = <<s.code, s.gen>>
                => BindingNow(rb, m) = <<s.code, s.gen>> \/ FollowsEarlier(m)]_rebuildVars
  BY EngineSteps, RefusedDetached DEF Advances
<1> QED
  BY <1>1, EngineKeepsInv, PTL DEF RebuildSpec, RefusedSessionStaysDetached

\* A pane that the user has given a session keeps it, whatever rebuild, tail
\* or batch runs at the time (bindingUnchanged in rebuild/engine.ts and
\* rebuild/batch.ts), unless that session is the one taken for lost.
THEOREM UserChoiceAlwaysKept == RebuildSpec => UserChoiceKept
<1>1. EngineInv /\ [RebuildNext]_rebuildVars =>
        [~past.again => \A p \in Panes : rb.terminal[p] # None /\ rb.terminal[p].terminated = None =>
           \/ rb'.terminal[p] = None
           \/ /\ rb'.terminal[p].code = rb.terminal[p].code
              /\ rb.terminal[p].gen \in {Unknown, rb'.terminal[p].gen}]_rebuildVars
  BY EngineSteps DEF Advances, Keeps
<1> QED
  BY <1>1, EngineKeepsInv, PTL DEF RebuildSpec, UserChoiceKept

\* Every pane shows the work that its record describes, whatever rebuilds,
\* batches and late tails have re-pointed it (rebuild/engine.ts,
\* rebuild/batch.ts), and the probes write the directory and the generation
\* of the session that the pane shows (rebuild/cwd-probe.ts,
\* rebuild/provenance-probe.ts, rebuild/reconcile.ts).
THEOREM PanesAlwaysSound == RebuildSpec /\ ProbeSpec => []PanesSound
<1>1. WorkInv => PaneShowsItsWork
  BY DEF WorkInv, WorkTrue, Shows, PaneShowsItsWork
<1>2. EngineInv /\ WorkInv /\ ProbeInv => PanesSound
  BY <1>1, EngineInvMeans, ProbeInvMeans DEF PanesSound
<1> QED
  BY <1>2, EngineKeepsInv, ProbesKeepInv, PTL
=============================================================================
