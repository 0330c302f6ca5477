---------------------------- MODULE CommandSlots ----------------------------
(***************************************************************************)
(* Quick commands: the commands and the slots they are bound to, and the   *)
(* places a command is run from.  The hover popover and the context menu   *)
(* of a workspace guess the host or ask for it; the host page knows it;    *)
(* the new-tab form only makes a session.  A click makes a session, sends  *)
(* the command's keys to it and opens a tab; the three are separate calls, *)
(* and the host, the workspace or the place may go away between them.      *)
(*                                                                         *)
(* A call for a host that is not stored any more goes to the active host   *)
(* (getDaemonBase).                                                        *)
(***************************************************************************)
EXTENDS Integers, Sequences, FiniteSets, FiniteSetsExt, SequencesExt, Lists

CONSTANTS SlotHosts, NoHost, Cmds, MaxClicks, MaxSessionTabs

ASSUME SlotAssumption == NoHost \notin SlotHosts /\ MaxClicks \in Nat /\ MaxSessionTabs \in Nat

VARIABLES slotHosts,    \* stored hosts
          usable,       \* hosts that are connected with tmux running
          activeHost,   \* the active host
          wsLive,       \* the workspace exists
          wsTabs,       \* hosts of the workspace's session panes, in tab order
          place,        \* the mounted places, each with the click it works on
          clicks,       \* clicks so far, in order
          keysSent,         \* keys sent: the click and the host they reached
          bindings,     \* slots each command is bound to; absent commands have none
          global,       \* the commands
          moduleOn,     \* the quick-commands module is enabled
          retryToast    \* click whose retry the toast offers, 0 for none

slotVars == <<slotHosts, usable, activeHost, wsLive, wsTabs, place, clicks, keysSent,
              bindings, global, moduleOn, retryToast>>
worldVars == <<slotHosts, usable, activeHost>>
cmdVars == <<bindings, global, moduleOn>>

WorkspacePlaces == {"popover", "menu"}
Places == WorkspacePlaces \cup {"page", "form"}
\* The host whose page is shown, and whose form is open.
PageHost == CHOOSE h \in SlotHosts : TRUE
Unmounted == [mounted |-> FALSE, run |-> 0]

SlotsInit ==
    /\ slotHosts = SlotHosts /\ usable = SlotHosts /\ activeHost \in SlotHosts
    /\ wsLive = TRUE /\ wsTabs \in {<<>>} \cup {<<h>> : h \in SlotHosts}
    /\ place = [p \in Places |-> Unmounted] /\ clicks = <<>> /\ keysSent = {}
    /\ global = Cmds /\ bindings = [c \in Cmds |-> {"workspace", "host"}]
    /\ moduleOn = TRUE /\ retryToast = 0

getDaemonBase(h) == IF h \in slotHosts THEN h ELSE activeHost

-----------------------------------------------------------------------------
(* Commands and their bindings.                                            *)

SlotOf(p) == IF p = "page" THEN "host" ELSE "workspace"
getBoundCommands(slot) == {c \in global : slot \in bindings[c]}
Visible(p) == p = "form" \/ (moduleOn /\ getBoundCommands(SlotOf(p)) # {})

setBinding(c, targets) == bindings' = [bindings EXCEPT ![c] = targets]

\* The edit dialog's save: the command is added or replaced, then bound.
addCommand(c, targets) ==
    /\ global' = global \cup {c} /\ setBinding(c, targets)
    /\ UNCHANGED <<worldVars, wsLive, wsTabs, place, clicks, keysSent, moduleOn, retryToast>>

\* Seeded fault: removing a command leaves its binding.
BugRemoveCommand(c) ==
    /\ c \in global /\ global' = global \ {c}
    /\ UNCHANGED <<worldVars, wsLive, wsTabs, place, clicks, keysSent, bindings, moduleOn, retryToast>>
removeCommand(c) ==
    /\ c \in global /\ global' = global \ {c} /\ setBinding(c, {})
    /\ UNCHANGED <<worldVars, wsLive, wsTabs, place, clicks, keysSent, moduleOn, retryToast>>

ToggleModule ==
    /\ moduleOn' = ~moduleOn
    /\ UNCHANGED <<worldVars, wsLive, wsTabs, place, clicks, keysSent, bindings, global, retryToast>>

-----------------------------------------------------------------------------
(* Hosts and the workspace change under the clicks.                        *)

\* The removal closes the host's tabs or leaves them as terminated panes.
removeHost(h) ==
    /\ h \in slotHosts /\ Cardinality(slotHosts) > 1
    /\ slotHosts' = slotHosts \ {h} /\ usable' = usable \ {h}
    /\ activeHost' \in IF activeHost = h THEN slotHosts' ELSE {activeHost}
    /\ wsTabs' \in {wsTabs, Without(wsTabs, {h})}
    /\ UNCHANGED <<cmdVars, wsLive, place, clicks, keysSent, retryToast>>

\* The undo of a removal brings the host back under its id, with a tab that
\* was closed, into the workspace if that is still there.
restoreHost(h) ==
    /\ h \notin slotHosts /\ slotHosts' = slotHosts \cup {h}
    /\ wsTabs' \in {wsTabs} \cup IF wsLive /\ Len(wsTabs) < MaxSessionTabs THEN {Append(wsTabs, h)} ELSE {}
    /\ activeHost' \in {activeHost, h}
    /\ UNCHANGED <<cmdVars, usable, wsLive, place, clicks, keysSent, retryToast>>

HostStatus(h) ==
    /\ h \in slotHosts
    /\ usable' = IF h \in usable THEN usable \ {h} ELSE usable \cup {h}
    /\ UNCHANGED <<cmdVars, slotHosts, activeHost, wsLive, wsTabs, place, clicks, keysSent, retryToast>>

\* The host most of the workspace's session panes are on; on a tie the
\* active tab's, when it is a winner, else the first of the winners.
inferWorkspaceHostId(active) ==
    LET count(h) == Cardinality({i \in DOMAIN wsTabs : wsTabs[i] = h})
        winners == {h \in ToSet(wsTabs) : \A g \in ToSet(wsTabs) : count(g) <= count(h)}
    IN  IF wsTabs = <<>> THEN NoHost
        ELSE IF active \in winners THEN active
        ELSE wsTabs[Min({i \in DOMAIN wsTabs : wsTabs[i] \in winners})]

-----------------------------------------------------------------------------
(* A click and its three calls.  asked is the host it is for, made the one *)
(* that made the session.                                                  *)

At(n) == clicks[n].at
Put(n, at) == [clicks EXCEPT ![n].at = at]

\* A place that goes away settles its picker with no host.
Settled(p, cs) ==
    LET n == place[p].run
    IN  IF n # 0 /\ cs[n].at = "picking" THEN [cs EXCEPT ![n].at = "done"] ELSE cs

Mount(p) ==
    /\ ~place[p].mounted /\ (p \in WorkspacePlaces => wsLive)
    /\ place' = [place EXCEPT ![p] = [mounted |-> TRUE, run |-> 0]]
    /\ UNCHANGED <<worldVars, cmdVars, wsLive, wsTabs, clicks, keysSent, retryToast>>

\* Seeded fault: a place that goes away leaves its picker unanswered.
BugUnmount(p) ==
    /\ place[p].mounted /\ place' = [place EXCEPT ![p] = Unmounted]
    /\ UNCHANGED <<worldVars, cmdVars, wsLive, wsTabs, clicks, keysSent, retryToast>>
Unmount(p) ==
    /\ place[p].mounted /\ place' = [place EXCEPT ![p] = Unmounted] /\ clicks' = Settled(p, clicks)
    /\ UNCHANGED <<worldVars, cmdVars, wsLive, wsTabs, keysSent, retryToast>>

\* Deleting the workspace closes its tabs and takes its row's places away.
WorkspaceRemoved ==
    /\ wsLive /\ wsLive' = FALSE /\ wsTabs' = <<>>
    /\ place' = [p \in Places |-> IF p \in WorkspacePlaces THEN Unmounted ELSE place[p]]
    /\ clicks' = Settled("popover", Settled("menu", clicks))
    /\ UNCHANGED <<worldVars, cmdVars, keysSent, retryToast>>

\* The run is over: its place is free again, and the menu closes, whichever
\* instance of it is open by then.
Freed(n) ==
    [p \in Places |-> IF clicks[n].place # p THEN place[p]
                      ELSE IF p = "menu" THEN Unmounted
                      ELSE IF place[p].run = n THEN [place[p] EXCEPT !.run = 0] ELSE place[p]]
Finished(n, at) ==
    /\ place' = Freed(n)
    /\ clicks' = LET cs == Put(n, at)
                 IN  IF clicks[n].place = "menu" /\ place["menu"].run # n THEN Settled("menu", cs) ELSE cs

\* The page's owner workspace is taken at the click.
NewClick(p, c, h, at) ==
    [place |-> p, cmd |-> c, asked |-> h, made |-> IF at = "creating" THEN getDaemonBase(h) ELSE NoHost,
     inWs |-> p # "form" /\ wsLive, at |-> at]
Take(p, c, h, at) ==
    /\ clicks' = Append(clicks, NewClick(p, c, h, at))
    /\ place' = [place EXCEPT ![p].run = Len(clicks')]
    /\ UNCHANGED <<worldVars, cmdVars, wsLive, wsTabs, keysSent, retryToast>>

\* A chip of a workspace: straight to the session, or the picker first.
runWorkspaceSlot(p, c) ==
    \E active \in ToSet(wsTabs) \cup {NoHost} :
    LET h == inferWorkspaceHostId(active)
    IN  /\ p \in WorkspacePlaces /\ place[p].mounted /\ Visible(p) /\ place[p].run = 0
        /\ c \in getBoundCommands("workspace") /\ Len(clicks) < MaxClicks
        /\ Take(p, c, h, IF h = NoHost THEN "picking" ELSE "creating")

PickHost(n, h) ==
    LET p == clicks[n].place
    IN  /\ At(n) = "picking" /\ place[p].run = n /\ Visible(p) /\ h \in slotHosts
        /\ clicks' = [clicks EXCEPT ![n].at = "creating", ![n].asked = h, ![n].made = h]
        /\ UNCHANGED <<worldVars, cmdVars, wsLive, wsTabs, place, keysSent, retryToast>>

CancelPicker(n) ==
    /\ At(n) = "picking" /\ place[clicks[n].place].run = n /\ Visible(clicks[n].place)
    /\ Finished(n, "done")
    /\ UNCHANGED <<worldVars, cmdVars, wsLive, wsTabs, keysSent, retryToast>>

\* The popover that loses its chips settles its picker; the menu waits
\* until it is closed.
HiddenEffect(n) ==
    /\ At(n) = "picking" /\ clicks[n].place = "popover" /\ ~Visible("popover")
    /\ Finished(n, "done")
    /\ UNCHANGED <<worldVars, cmdVars, wsLive, wsTabs, keysSent, retryToast>>

\* Seeded fault: the host is only looked at when the command is clicked.
BugAssertHostLive(n) == TRUE
assertHostLive(n) == clicks[n].asked \in slotHosts
assertContextLive(n) == wsLive
Live(n) == IF clicks[n].place = "page" THEN assertHostLive(n) ELSE assertContextLive(n)

\* A chip of the host page; the chip may be a render behind the host.
runHostSlot(c) ==
    /\ place["page"].mounted /\ Visible("page") /\ place["page"].run = 0
    /\ c \in getBoundCommands("host") /\ Len(clicks) < MaxClicks
    /\ IF PageHost \in slotHosts THEN Take("page", c, PageHost, "creating")
       ELSE /\ retryToast' = 0
            /\ UNCHANGED <<worldVars, cmdVars, wsLive, wsTabs, place, clicks, keysSent>>

isHostLive(h) == h \in slotHosts /\ h \in usable

\* The new-tab form; it has no command to send.
handleCreate(c) ==
    /\ place["form"].mounted /\ place["form"].run = 0 /\ isHostLive(PageHost) /\ Len(clicks) < MaxClicks
    /\ Take("form", c, PageHost, "creating")

\* The new session's daemon answers: no session, one with a blank code, or
\* one with a code.  The toast of a failure takes the place of a retry.
CreateFailed(n) ==
    /\ At(n) = "creating" /\ Finished(n, "done")
    /\ retryToast' = IF clicks[n].place = "form" THEN retryToast ELSE 0
    /\ UNCHANGED <<worldVars, cmdVars, wsLive, wsTabs, keysSent>>

\* The keys go out; a blank code is a failure for the page, not for a
\* workspace, whose keys are then refused.
executeCommand(n) == keysSent' = keysSent \cup {[click |-> n, to |-> getDaemonBase(clicks[n].asked)]}

CreateAnswered(n, blank) ==
    /\ At(n) = "creating" /\ clicks[n].place # "form"
    /\ IF Live(n) /\ ~(blank /\ clicks[n].place = "page")
       THEN executeCommand(n) /\ clicks' = Put(n, "sending") /\ UNCHANGED <<place, retryToast>>
       ELSE Finished(n, "done") /\ retryToast' = 0 /\ UNCHANGED keysSent
    /\ UNCHANGED <<worldVars, cmdVars, wsLive, wsTabs>>

\* The form takes the session when it is still there and the host still is.
onCreated(n, blank) ==
    /\ At(n) = "creating" /\ clicks[n].place = "form"
    /\ Finished(n, IF place["form"].run = n /\ ~blank /\ isHostLive(clicks[n].asked) THEN "attached" ELSE "done")
    /\ UNCHANGED <<worldVars, cmdVars, wsLive, wsTabs, keysSent, retryToast>>

\* The tab of the session: in its workspace, which must still be there
\* when the click came from it.
switchOk(n) == clicks[n].place = "page" \/ wsLive
switchToSession(n) ==
    wsTabs' = IF clicks[n].inWs /\ wsLive THEN Append(wsTabs, clicks[n].asked) ELSE wsTabs

SendAnswered(n, ok) ==
    /\ At(n) = "sending" /\ Len(wsTabs) < MaxSessionTabs
    /\ Finished(n, IF ~switchOk(n) THEN "done" ELSE IF ok THEN "shown" ELSE "unsent")
    /\ IF switchOk(n) THEN switchToSession(n) ELSE UNCHANGED wsTabs
    /\ retryToast' = IF ok /\ switchOk(n) THEN retryToast ELSE IF switchOk(n) THEN n ELSE 0
    /\ UNCHANGED <<worldVars, cmdVars, wsLive, keysSent>>

\* The toast's retry; only the page looks at its host again.
Retry ==
    /\ retryToast # 0 /\ retryToast' = 0
    /\ IF clicks[retryToast].place = "page" /\ ~assertHostLive(retryToast) THEN UNCHANGED keysSent
       ELSE executeCommand(retryToast)
    /\ UNCHANGED <<worldVars, cmdVars, wsLive, wsTabs, place, clicks>>

SlotsInput ==
    \/ \E c \in Cmds : \/ \E targets \in SUBSET {"workspace", "host"} : addCommand(c, targets)
                       \/ removeCommand(c) \/ runHostSlot(c) \/ handleCreate(c)
                       \/ \E p \in WorkspacePlaces : runWorkspaceSlot(p, c)
    \/ ToggleModule \/ WorkspaceRemoved \/ Retry
    \/ \E h \in SlotHosts : removeHost(h) \/ restoreHost(h) \/ HostStatus(h)
    \/ \E p \in Places : Mount(p) \/ Unmount(p)
    \/ \E n \in DOMAIN clicks : CancelPicker(n) \/ \E h \in SlotHosts : PickHost(n, h)

SlotsProgress ==
    \E n \in DOMAIN clicks :
        \/ HiddenEffect(n) \/ CreateFailed(n)
        \/ \E b \in BOOLEAN : CreateAnswered(n, b) \/ onCreated(n, b) \/ SendAnswered(n, b)

SlotsSpec == SlotsInit /\ [][SlotsInput \/ SlotsProgress]_slotVars

-----------------------------------------------------------------------------
(* Properties.                                                             *)

\* Keys sent for a click on a host's page reach that host and no other, at
\* the first try and at a retry, although a call for a removed host goes to
\* the active host: the host is looked at after every wait.
PageKeysGoHome ==
    \A s \in keysSent : clicks[s.click].place = "page" => s.to = clicks[s.click].asked

\* A run that waits for its picker still has the place that shows it, so
\* that it can be answered or closed: no wait outlives its place.
PickSettles ==
    \A n \in DOMAIN clicks : At(n) = "picking" => place[clicks[n].place].run = n

\* No slot is bound to a command that is gone.
BindingsSound == \A c \in Cmds : bindings[c] # {} => c \in global

CommandsSound == PageKeysGoHome /\ PickSettles /\ BindingsSound

=============================================================================
