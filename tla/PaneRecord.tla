----------------------------- MODULE PaneRecord -----------------------------
(***************************************************************************)
(* Terminal panes of one host as the tab store keeps them: the binding to a *)
(* tmux session (its code and the generation of the tmux server), the       *)
(* reason it is dead, and the record a rebuild starts from.  Session codes  *)
(* encode tmux ids, which start over with a new tmux server, so that a code *)
(* alone names a different session in every generation.                     *)
(*                                                                         *)
(* A working directory is represented by the session it belongs to; a       *)
(* session that a rebuild creates continues the work of the one it          *)
(* replaces.                                                               *)
(***************************************************************************)
EXTENDS Integers, FiniteSets, Sequences, TLC

CONSTANTS Panes,       \* pane ids
          MaxCode,     \* bound: sessions of one tmux server
          MaxGen,      \* bound: tmux servers started
          Agents,      \* agent identities: type and session id
          None

Codes == 1..MaxCode
Gens == 1..MaxGen
Unknown == 0                    \* the empty tmux instance
Works == Gens \X Codes

Reasons == {"session-closed", "tmux-restarted", "host-removed"}
CwdSources == {"agent-session-start", "agent-backfill", "pane-probe", "user"}

PaneContents ==
    [code : Codes, gen : Gens \cup {Unknown}, terminated : Reasons \cup {None},
     cwd : Works \cup {None}, cwdSource : CwdSources \cup {None},
     agent : Agents \cup {None}, unverified : BOOLEAN,
     recGen : Gens \cup {Unknown, None}]      \* generation in the record

ASSUME PaneAssumption ==
    /\ MaxCode \in Nat \ {0} /\ MaxGen \in Nat \ {0}
    /\ Agents # {}
    /\ None \notin Agents /\ None \notin Reasons /\ None \notin CwdSources
    /\ None \notin Gens \cup {Unknown} /\ None \notin Works /\ None \notin PaneContents

Attached(code, gen) ==
    [code |-> code, gen |-> gen, terminated |-> None, cwd |-> None, cwdSource |-> None,
     agent |-> None, unverified |-> FALSE, recGen |-> None]

Binding(c) == <<c.code, c.gen>>

\* generationMatchesLegacy: an unknown generation matches any.
generationMatchesLegacy(recorded, expected) == recorded = Unknown \/ recorded = expected

bindingMatchesLegacy(c, code, gen) == c.code = code /\ generationMatchesLegacy(c.gen, gen)

\* Session-scoped writes reach live panes of the binding only.
acceptsSessionScopedWrite(c, code, gen) ==
    bindingMatchesLegacy(c, code, gen) /\ c.terminated = None

-----------------------------------------------------------------------------
(* applyRebuildPatch, one operator per kind of patch.                      *)

\* A record starts with the generation of its pane.
RecordGen(c) == IF c.recGen = None THEN c.gen ELSE c.recGen

WriteRecord(c, gen, agent, cwd, source) ==
    [c EXCEPT !.recGen = gen, !.agent = agent, !.cwd = cwd, !.cwdSource = source,
              !.unverified = FALSE]

\* An agent that announced its start replaces the whole record.
AgentGroup(c, agent, cwd, gen) ==
    WriteRecord(c, gen, agent, cwd, IF cwd = None THEN None ELSE "agent-session-start")

\* What the daemon remembers fills a missing agent, replaces one under
\* suspicion, confirms a matching one, and otherwise changes nothing.
AgentBackfill(c, agent, cwd, gen) ==
    LET takesCwd == cwd # None /\ (c.cwd = None \/ c.cwdSource = "pane-probe")
        keepsUserCwd == c.cwd # None /\ c.cwdSource = "user"
        source == IF cwd = None THEN None ELSE "agent-backfill"
    IN IF c.agent = None
       THEN IF takesCwd THEN WriteRecord(c, gen, agent, cwd, source)
            ELSE WriteRecord(c, gen, agent, c.cwd, c.cwdSource)
       ELSE IF c.unverified /\ c.agent # agent
       THEN IF keepsUserCwd THEN WriteRecord(c, gen, agent, c.cwd, c.cwdSource)
            ELSE WriteRecord(c, gen, agent, cwd, source)
       ELSE [c EXCEPT !.unverified = FALSE]

CwdField(c, cwd) == [c EXCEPT !.cwd = cwd, !.cwdSource = "user", !.recGen = RecordGen(c)]

ProbeCwd(c, cwd) ==
    IF c.cwd # None THEN c
    ELSE [c EXCEPT !.cwd = cwd, !.cwdSource = "pane-probe", !.recGen = RecordGen(c)]

FlagUnverified(c) == [c EXCEPT !.unverified = TRUE]

\* The panes of the binding become what the patch makes of them.
setPaneRebuild(panes, code, gen, patched) ==
    [p \in Panes |-> IF acceptsSessionScopedWrite(panes[p], code, gen)
                     THEN patched[p] ELSE panes[p]]

\* A user's edit is of one pane, dead or not.
setPaneRebuildForPane(panes, p, cwd) == [panes EXCEPT ![p] = CwdField(@, cwd)]

-----------------------------------------------------------------------------
(* What a sessions payload does to the panes.                              *)

markTerminated(c, reason) == [c EXCEPT !.terminated = reason]

\* Only a pane without a generation takes one, and never the unknown one.
adoptTmuxInstance(c, gen) == IF c.gen = Unknown THEN [c EXCEPT !.gen = gen] ELSE c

\* Seeded fault: a pane whose session code is still listed stays attached,
\* whichever tmux server lists it.
BugReconcile(c, codes, gen) ==
    IF c.terminated # None THEN c
    ELSE IF c.code \notin codes THEN markTerminated(c, "session-closed") ELSE adoptTmuxInstance(c, gen)

\* reconcileSessionsPayload with the writes its decisions cause: a missing
\* session or another generation ends the pane, an unknown generation adopts
\* the reported one, and a daemon that reports none decides nothing.
Reconcile(c, codes, gen) ==
    IF c.terminated # None THEN c
    ELSE IF c.code \notin codes THEN markTerminated(c, "session-closed")
    ELSE IF c.gen # Unknown /\ gen # Unknown /\ gen # c.gen THEN markTerminated(c, "tmux-restarted")
    ELSE adoptTmuxInstance(c, gen)

\* classifyRecord: dead, with a directory to start in.
Rebuildable(c) == c.terminated \in {"session-closed", "tmux-restarted"} /\ c.cwd # None

markHostTerminated(c) == IF c.terminated # None THEN c ELSE markTerminated(c, "host-removed")

=============================================================================
