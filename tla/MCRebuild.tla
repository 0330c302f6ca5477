------------------------------ MODULE MCRebuild ------------------------------
(***************************************************************************)
(* The rebuild engine and the session probes for TLC.  They share no        *)
(* variables; a behaviour is one of the engine or one of the probes.        *)
(***************************************************************************)
EXTENDS Rebuild, SessionProbe

CONSTANTS MaxRebuildSteps, MaxProbeSteps   \* bounds: steps of a behaviour

VARIABLES focus, steps

MCInit ==
    /\ RebuildInit /\ ProbeInit /\ steps = 0
    /\ \/ focus = "rebuild" /\ pane = [p \in Panes |-> Attached(1, 1)]
       \/ focus = "probe" /\ \A p \in Panes : rb.terminal[p].code = 1 /\ rb.terminal[p].agent = None

MCNext ==
    /\ steps' = steps + 1 /\ UNCHANGED focus
    /\ \/ /\ focus = "rebuild" /\ steps < MaxRebuildSteps
          /\ RebuildNext /\ UNCHANGED probeVars
       \/ /\ focus = "probe" /\ steps < MaxProbeSteps
          /\ ProbeNext /\ UNCHANGED rebuildVars

MCSpec == MCInit /\ [][MCNext]_<<rebuildVars, probeVars, focus, steps>>

\* What a pane shows and records is its own: a rebuild never points it at the
\* work of another pane (rebuild/engine.ts), a directory answered late is that
\* of the session it shows (rebuild/cwd-probe.ts), and it is attached only to a tmux
\* server that has been seen (rebuild/reconcile.ts).
PanesSound == RebuildTypeOK /\ ProbeTypeOK /\ PaneShowsItsWork /\ CwdOfOwnSession /\ AttachedToSeenServer
=============================================================================
