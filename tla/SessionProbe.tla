---------------------------- MODULE SessionProbe ----------------------------
(***************************************************************************)
(* How the panes of one host learn what runs in their session: sessions     *)
(* payloads and hook events arrive over the event socket, and two probes    *)
(* ask the daemon for a session's working directory and for its agent.      *)
(* A payload, an event and an answer describe the tmux server of the moment *)
(* the daemon wrote them and are applied later, when that server may be     *)
(* gone and its session codes in use again.                                *)
(***************************************************************************)
EXTENDS PaneRecord

VARIABLES tmux,    \* the daemon's tmux server: generation, live codes, agents
          pane,    \* the panes of the tab store
          gate,    \* attachReady: a payload has arrived on this connection
          seen,    \* the generation that payload named
          frames,  \* event frames under way on the socket
          cwdCall, \* cwd probes in flight, by binding
          provCall,\* provenance probes in flight, by binding
          prov,    \* the provenance scheduler: cooldowns, timers, triggers
          disowned \* bindings whose server is gone, per probe

probeVars == <<tmux, pane, gate, seen, frames, cwdCall, provCall, prov, disowned>>

Keys == Codes \X (Gens \cup {Unknown})
Idle == [at |-> "idle"]
Asked == [at |-> "asked"]

CONSTANT MaxFrames      \* bound: frames under way

ASSUME ProbeAssumption == MaxFrames \in Nat

Frames == [type : {"hook"}, code : Codes, gen : Gens, agent : Agents]
          \cup [type : {"sessions"}, codes : SUBSET Codes, gen : Gens \cup {Unknown}]
          \cup [type : {"replay"}, code : Codes, agent : Agents]

ProbeCalls == {Idle, Asked}
              \cup [at : {"answered"}, gen : Gens \cup {Unknown}, cwd : Works,
                    agent : Agents \cup {None}]

ProbeTypeOK ==
    /\ pane \in [Panes -> PaneContents]
    /\ tmux \in [gen : Gens, live : SUBSET Codes, agent : [Codes -> Agents \cup {None}]]
    /\ gate \in BOOLEAN /\ seen \in Gens \cup {Unknown}
    /\ frames \in Seq(Frames) /\ Len(frames) <= MaxFrames
    /\ cwdCall \in [Keys -> ProbeCalls] /\ provCall \in [Keys -> ProbeCalls]
    /\ prov \in [cooling : SUBSET Keys, pending : SUBSET Keys, timer : SUBSET Keys,
                 owed : SUBSET Keys]
    /\ disowned \in [cwd : SUBSET Keys, prov : SUBSET Keys]

ProbeInit ==
    /\ tmux = [gen |-> 1, live |-> Codes, agent |-> [c \in Codes |-> None]]
    /\ pane \in [Panes -> {Attached(1, 1), Attached(1, Unknown),
                           [CwdField(Attached(1, 1), <<1, 1>>) EXCEPT !.agent = CHOOSE a \in Agents : TRUE]}]
    /\ gate = FALSE /\ seen = Unknown /\ frames = <<>>
    /\ cwdCall = [k \in Keys |-> Idle] /\ provCall = [k \in Keys |-> Idle]
    /\ prov = [cooling |-> {}, pending |-> {}, timer |-> {}, owed |-> {}]
    /\ disowned = [cwd |-> {}, prov |-> {}]

-----------------------------------------------------------------------------
(* The daemon.                                                             *)

TmuxRestart ==
    /\ tmux.gen < MaxGen
    /\ tmux' = [gen |-> tmux.gen + 1, live |-> Codes, agent |-> [c \in Codes |-> None]]
    /\ UNCHANGED <<pane, gate, seen, frames, cwdCall, provCall, prov, disowned>>

SessionClosed(c) ==
    /\ c \in tmux.live
    /\ tmux' = [tmux EXCEPT !.live = @ \ {c}]
    /\ UNCHANGED <<pane, gate, seen, frames, cwdCall, provCall, prov, disowned>>

\* An agent starts in a session.  Its hook event carries the provenance; the
\* event is lost when nobody listens.
AgentStarts(c, a) ==
    /\ c \in tmux.live /\ tmux.agent[c] # a /\ Len(frames) < MaxFrames
    /\ tmux' = [tmux EXCEPT !.agent[c] = a]
    /\ \/ frames' = Append(frames, [type |-> "hook", code |-> c, gen |-> tmux.gen, agent |-> a])
       \/ frames' = frames
    /\ UNCHANGED <<pane, gate, seen, cwdCall, provCall, prov, disowned>>

\* The daemon sends the list of sessions; it may not know its generation.
SendSessions ==
    /\ Len(frames) < MaxFrames
    /\ \E g \in {tmux.gen, Unknown} :
         frames' = Append(frames, [type |-> "sessions", codes |-> tmux.live, gen |-> g])
    /\ UNCHANGED <<tmux, pane, gate, seen, cwdCall, provCall, prov, disowned>>

\* On subscription the daemon replays the last event of a session, without
\* its provenance.
SendReplay(c) ==
    /\ Len(frames) < MaxFrames /\ c \in tmux.live /\ tmux.agent[c] # None
    /\ frames' = Append(frames, [type |-> "replay", code |-> c, agent |-> tmux.agent[c]])
    /\ UNCHANGED <<tmux, pane, gate, seen, cwdCall, provCall, prov, disowned>>

AnswerOf(k) == [at |-> "answered", gen |-> tmux.gen, cwd |-> <<tmux.gen, k[1]>>, agent |-> tmux.agent[k[1]]]

AnswerCwd(k) ==
    /\ cwdCall[k] = Asked /\ k[1] \in tmux.live
    /\ \E g \in {tmux.gen, Unknown} : cwdCall' = [cwdCall EXCEPT ![k] = [AnswerOf(k) EXCEPT !.gen = g]]
    /\ UNCHANGED <<tmux, pane, gate, seen, frames, provCall, prov, disowned>>

AnswerProvenance(k) ==
    /\ provCall[k] = Asked /\ k[1] \in tmux.live
    /\ \E g \in {tmux.gen, Unknown} : provCall' = [provCall EXCEPT ![k] = [AnswerOf(k) EXCEPT !.gen = g]]
    /\ UNCHANGED <<tmux, pane, gate, seen, frames, cwdCall, prov, disowned>>

-----------------------------------------------------------------------------
(* Which bindings want a probe.                                            *)

WantsCwd(panes, k) ==
    \E p \in Panes : acceptsSessionScopedWrite(panes[p], k[1], k[2]) /\ panes[p].cwd = None

WantsProvenance(panes, k) ==
    \E p \in Panes : /\ acceptsSessionScopedWrite(panes[p], k[1], k[2])
                     /\ panes[p].agent = None \/ panes[p].unverified

LiveBindings(panes) == {Binding(panes[p]) : p \in {q \in Panes : panes[q].terminated = None}}

\* probeSessionCwd for a set of bindings.
CwdCalls(panes, keys) ==
    [k \in Keys |-> IF k \in keys /\ cwdCall[k] = Idle /\ k \notin disowned.cwd /\ WantsCwd(panes, k)
                    THEN Asked ELSE cwdCall[k]]

\* probeSessionProvenance for a set of bindings: a request at once, or a
\* trigger remembered for the end of the request or of the cooldown.
Triggered(panes, keys) == {k \in keys : k \notin disowned.prov /\ WantsProvenance(panes, k)}
Startable(panes, keys) ==
    {k \in Triggered(panes, keys) : provCall[k] = Idle /\ k \notin prov.cooling}

ProvCalls(panes, keys) ==
    [k \in Keys |-> IF k \in Startable(panes, keys) THEN Asked ELSE provCall[k]]

\* Seeded fault: a trigger that meets a request in flight is not remembered.
BugProvTriggers(panes, keys) ==
    LET start == Startable(panes, keys)
        wait == {k \in Triggered(panes, keys) \ start : provCall[k] = Idle}
    IN [prov EXCEPT !.pending = (@ \ start) \cup wait,
                    !.timer = (@ \ start) \cup wait,
                    !.owed = (@ \ start) \cup (Triggered(panes, keys) \ start)]

ProvTriggers(panes, keys) ==
    LET start == Startable(panes, keys)
        wait == Triggered(panes, keys) \ start
    IN [prov EXCEPT !.pending = (@ \ start) \cup wait,
                    !.timer = (@ \ start) \cup {k \in wait : provCall[k] = Idle},
                    !.owed = (@ \ start) \cup wait]

-----------------------------------------------------------------------------
(* Frames.                                                                 *)

\* A sessions frame settles the panes, then opens the gate and probes.
HandleSessions ==
    /\ frames # <<>> /\ Head(frames).type = "sessions"
    /\ LET f == Head(frames)
           panes == [p \in Panes |-> Reconcile(pane[p], f.codes, f.gen)]
       IN /\ pane' = panes
          /\ cwdCall' = CwdCalls(panes, LiveBindings(panes))
          /\ provCall' = ProvCalls(panes, LiveBindings(panes))
          /\ prov' = ProvTriggers(panes, LiveBindings(panes))
          /\ seen' = f.gen
    /\ gate' = TRUE /\ frames' = Tail(frames)
    /\ UNCHANGED <<tmux, disowned>>

\* A hook frame with provenance writes the record of the binding it names
\* (writeProvenanceRecord), then the bindings of its session are probed.
HandleHook ==
    /\ frames # <<>> /\ Head(frames).type = "hook"
    /\ LET f == Head(frames)
           panes == setPaneRebuild(pane, f.code, f.gen,
                        [p \in Panes |-> AgentGroup(pane[p], f.agent, <<f.gen, f.code>>, f.gen)])
           keys == {k \in LiveBindings(panes) : k[1] = f.code}
       IN /\ pane' = panes
          /\ provCall' = IF gate THEN ProvCalls(panes, keys) ELSE provCall
          /\ prov' = IF gate THEN ProvTriggers(panes, keys) ELSE prov
    /\ frames' = Tail(frames)
    /\ UNCHANGED <<tmux, gate, seen, cwdCall, disowned>>

\* A replayed event of another agent puts the recorded one under suspicion,
\* in the live panes of every generation that recorded one.
HandleReplay ==
    /\ frames # <<>> /\ Head(frames).type = "replay"
    /\ LET f == Head(frames)
           doubted == {pane[p].gen : p \in {q \in Panes : /\ pane[q].code = f.code
                                                          /\ pane[q].agent \notin {None, f.agent}
                                                          /\ ~pane[q].unverified}}
           panes == [p \in Panes |->
                        IF \E g \in doubted : acceptsSessionScopedWrite(pane[p], f.code, g)
                        THEN FlagUnverified(pane[p]) ELSE pane[p]]
           keys == {k \in LiveBindings(panes) : k[1] = f.code}
       IN /\ pane' = panes
          /\ provCall' = IF gate THEN ProvCalls(panes, keys) ELSE provCall
          /\ prov' = IF gate THEN ProvTriggers(panes, keys) ELSE prov
    /\ frames' = Tail(frames)
    /\ UNCHANGED <<tmux, gate, seen, cwdCall, disowned>>

\* The socket drops: frames under way are lost and the gate closes.
SocketLost ==
    /\ gate \/ frames # <<>>
    /\ gate' = FALSE /\ frames' = <<>> /\ seen' = Unknown
    /\ UNCHANGED <<tmux, pane, cwdCall, provCall, prov, disowned>>

-----------------------------------------------------------------------------
(* Probe answers.                                                          *)

\* Seeded fault: the answer's generation is not compared with the binding's.
BugCwdAnswered(k) ==
    /\ cwdCall[k] \notin {Idle, Asked}
    /\ pane' = setPaneRebuild(pane, k[1], k[2], [p \in Panes |-> ProbeCwd(pane[p], cwdCall[k].cwd)])
    /\ cwdCall' = [cwdCall EXCEPT ![k] = Idle]
    /\ UNCHANGED <<tmux, gate, seen, frames, provCall, prov, disowned>>

\* An answer of another generation disowns the binding, one of an unknown
\* generation decides nothing, and the panes are looked at again.
CwdAnswered(k) ==
    /\ cwdCall[k] \notin {Idle, Asked}
    /\ LET a == cwdCall[k]
           ours == a.gen # Unknown /\ a.gen = k[2]
       IN /\ pane' = IF ours /\ WantsCwd(pane, k)
                     THEN setPaneRebuild(pane, k[1], k[2], [p \in Panes |-> ProbeCwd(pane[p], a.cwd)])
                     ELSE pane
          /\ disowned' = IF ~ours /\ Unknown \notin {a.gen, k[2]}
                         THEN [disowned EXCEPT !.cwd = @ \cup {k}] ELSE disowned
    /\ cwdCall' = [cwdCall EXCEPT ![k] = Idle]
    /\ UNCHANGED <<tmux, gate, seen, frames, provCall, prov>>

CwdFailed(k) ==
    /\ cwdCall[k] # Idle
    /\ cwdCall' = [cwdCall EXCEPT ![k] = Idle]
    /\ UNCHANGED <<tmux, pane, gate, seen, frames, provCall, prov, disowned>>

\* finally: the cooldown starts, and a trigger that came meanwhile gets a timer.
ProvFinished(k) ==
    /\ provCall' = [provCall EXCEPT ![k] = Idle]
    /\ prov' = [prov EXCEPT !.cooling = @ \cup {k},
                            !.timer = IF k \in prov.pending THEN @ \cup {k} ELSE @]

ProvenanceAnswered(k) ==
    /\ provCall[k] \notin {Idle, Asked}
    /\ LET a == provCall[k]
           ours == a.gen # Unknown /\ a.gen = k[2]
       IN /\ pane' = IF ours /\ a.agent # None /\ WantsProvenance(pane, k)
                     THEN setPaneRebuild(pane, k[1], k[2],
                              [p \in Panes |-> AgentBackfill(pane[p], a.agent, a.cwd, a.gen)])
                     ELSE pane
          /\ disowned' = IF ~ours /\ Unknown \notin {a.gen, k[2]}
                         THEN [disowned EXCEPT !.prov = @ \cup {k}] ELSE disowned
    /\ ProvFinished(k)
    /\ UNCHANGED <<tmux, gate, seen, frames, cwdCall>>

ProvenanceFailed(k) ==
    /\ provCall[k] # Idle
    /\ ProvFinished(k)
    /\ UNCHANGED <<tmux, pane, gate, seen, frames, cwdCall, disowned>>

\* COOLDOWN_MS have passed.
CooldownOver(k) ==
    /\ k \in prov.cooling
    /\ prov' = [prov EXCEPT !.cooling = @ \ {k}]
    /\ UNCHANGED <<tmux, pane, gate, seen, frames, cwdCall, provCall, disowned>>

\* The deferred run checks everything again before it spends a request.
runDeferred(k) ==
    /\ k \in prov.timer /\ k \notin prov.cooling
    /\ LET go == /\ provCall[k] = Idle /\ k \notin disowned.prov /\ gate
                 /\ WantsProvenance(pane, k)
       IN /\ provCall' = IF go THEN [provCall EXCEPT ![k] = Asked] ELSE provCall
          /\ prov' = [prov EXCEPT !.timer = @ \ {k},
                                  !.pending = IF go THEN @ \ {k} ELSE @,
                                  !.owed = @ \ {k}]
    /\ UNCHANGED <<tmux, pane, gate, seen, frames, cwdCall, disowned>>

-----------------------------------------------------------------------------
(* The user.                                                               *)

\* A dead pane is given a session the daemon lists; its terminal mounts when
\* the gate is open and probes the session.
SelectSession(p, c) ==
    /\ pane[p].terminated # None /\ gate /\ c \in tmux.live
    /\ LET panes == [pane EXCEPT ![p] = Attached(c, seen)]
           keys == {<<c, seen>>}
       IN /\ pane' = panes
          /\ cwdCall' = CwdCalls(panes, keys)
          /\ provCall' = ProvCalls(panes, keys)
          /\ prov' = ProvTriggers(panes, keys)
    /\ UNCHANGED <<tmux, gate, seen, frames, disowned>>

\* The directory typed into a dead pane's record.
EditCwd(p) ==
    /\ pane[p].terminated # None /\ pane[p].cwdSource # "user"
    /\ pane' = setPaneRebuildForPane(pane, p, <<1, 1>>)
    /\ UNCHANGED <<tmux, gate, seen, frames, cwdCall, provCall, prov, disowned>>

ProbeNext ==
    \/ TmuxRestart \/ SendSessions \/ SocketLost
    \/ HandleSessions \/ HandleHook \/ HandleReplay
    \/ \E c \in Codes : SessionClosed(c) \/ SendReplay(c)
                        \/ \E a \in Agents : AgentStarts(c, a)
    \/ \E k \in Keys : \/ AnswerCwd(k) \/ CwdAnswered(k) \/ CwdFailed(k)
                       \/ AnswerProvenance(k) \/ ProvenanceAnswered(k) \/ ProvenanceFailed(k)
                       \/ CooldownOver(k) \/ runDeferred(k)
    \/ \E p \in Panes : EditCwd(p) \/ \E c \in Codes : SelectSession(p, c)

ProbeSpec == ProbeInit /\ [][ProbeNext]_probeVars

-----------------------------------------------------------------------------
(* Properties.                                                             *)

\* A directory that the code recorded for a pane is one of the session that
\* the record names, never of the session that has taken over its code after
\* a tmux restart: the probes ask by code, and the answer may be of another
\* server.
CwdOfOwnSession ==
    \A p \in Panes : pane[p].cwdSource \notin {None, "user"} /\ pane[p].recGen # Unknown =>
        pane[p].cwd = <<pane[p].recGen, pane[p].code>>

\* While the attach gate is open, a live pane of a known generation belongs to
\* the tmux server of the payload that opened it: a terminal never attaches to
\* the session that reuses its code.
AttachedToSeenServer ==
    gate /\ seen # Unknown =>
        \A p \in Panes : pane[p].terminated = None => pane[p].gen = seen

\* A trigger of the provenance probe is served by a later request or dropped
\* by a deferred run, never forgotten: as long as it is owed, a request is in
\* flight or a timer is armed.
NoTriggerLost == \A k \in prov.owed : provCall[k] # Idle \/ k \in prov.timer
=============================================================================
