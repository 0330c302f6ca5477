--------------------------- MODULE WorkspaceShell ---------------------------
(***************************************************************************)
(* The tab and workspace shell of one SPA window: the handlers behind the  *)
(* tab bar, the activity bar, the context menus, the keyboard shortcuts,   *)
(* the router, the panes and the messages from other windows, each one the *)
(* composition of store operations (TabStore, WorkspaceStore) its code     *)
(* performs.  Handlers run to completion; a drag and the hand-over of a    *)
(* workspace to another window span several events and keep what they read *)
(* when they began.                                                        *)
(***************************************************************************)
EXTENDS WorkspaceStore

CONSTANTS SettingsOf(_)     \* the settings content of a workspace

ASSUME SettingsAssumption == \A w \in WsIds : SettingsOf(w) \in Contents

VARIABLES ui,       \* the two stores and the closed-tab history
          drag,     \* the drag in progress in the activity bar
          moving,   \* workspace whose hand-over is awaited, as prepared
          migrate   \* workspace of the open migrate dialog

shellVars == <<ui, drag, moving, migrate>>

NoDrag == [tab |-> None, from |-> None, pinned |-> FALSE]

ShellTypeOK ==
    /\ Open(ui) \subseteq TabIds /\ \A t \in Open(ui) : ui.tabs[t] \in Tabs
    /\ ui.order \in Seq(TabIds) /\ ui.visits \in Seq(TabIds)
    /\ ui.active \in TabIds \cup {None}
    /\ \A i \in DOMAIN ui.wss : ui.wss[i] \in Workspaces
    /\ ui.aws \in WsIds \cup {None}
    /\ Len(ui.closed) <= CLOSED_TABS_MAX
    /\ drag.from \in WsIds \cup {None} /\ drag.tab \in TabIds \cup {None}
    /\ moving.ws \in WsIds \cup {None} /\ migrate \in WsIds \cup {None}

ShellInit ==
    /\ ui = [tabs |-> <<>>, order |-> <<>>, active |-> None, visits |-> <<>>,
             closed |-> <<>>, wss |-> <<>>, aws |-> None]
    /\ drag = NoDrag
    /\ moving = [ws |-> None, tabs |-> {}]
    /\ migrate = None

\* An id generateId has not handed out to a tab this window still knows.
FreshTab(t) ==
    /\ t \notin Open(ui) /\ t \notin ToSet(ui.visits)
    /\ \A i \in DOMAIN ui.closed : ui.closed[i].id # t
    /\ \A i \in DOMAIN ui.wss : t \notin ToSet(ui.wss[i].tabs)

Step(s) == ui' = s /\ UNCHANGED <<drag, moving, migrate>>

-----------------------------------------------------------------------------
(* Selecting.                                                              *)

SelectTab(s, t) ==
    LET w == findWorkspaceByTab(s, t)
        s1 == setActiveTab(s, t)
    IN IF w = None THEN s1 ELSE setWorkspaceActiveTab(setActiveWorkspace(s1, w), w, t)

handleSelectTab(t) == t \in ToSet(getVisibleTabIds(ui)) /\ Step(SelectTab(ui, t))

handleSelectWorkspace(w) ==
    /\ HasWs(ui, w)
    /\ LET ws == Ws(ui, w)
           s1 == setActiveWorkspace(ui, w)
       IN Step(IF ws.active # None /\ ws.active \in Open(ui) THEN setActiveTab(s1, ws.active)
               ELSE IF ws.tabs # <<>> THEN setActiveTab(s1, ws.tabs[1])
               ELSE setActiveTab(s1, None))

handleSelectHome ==
    LET s1 == setActiveWorkspace(ui, None)
    IN Step(IF StandaloneOrder(ui) # <<>> THEN SelectTab(s1, StandaloneOrder(ui)[1])
            ELSE setActiveTab(s1, None))

\* activateTab of useShortcuts: the workspace is not switched.
Activate(s, t) ==
    LET w == findWorkspaceByTab(s, t)
        s1 == setActiveTab(s, t)
    IN IF w # None /\ Ws(s, w).active # t THEN setWorkspaceActiveTab(s1, w, t) ELSE s1

\* switch-tab-n and switch-tab-last.
ShortcutSwitchTab(i) ==
    /\ i \in DOMAIN getVisibleTabIds(ui)
    /\ Step(Activate(ui, getVisibleTabIds(ui)[i]))

ShortcutCycleTab(delta) ==
    LET visible == getVisibleTabIds(ui)
        at == IF ui.active = None THEN 0 ELSE Position(visible, ui.active)
    IN /\ visible # <<>>
       /\ Step(Activate(ui, IF at = 0 THEN visible[1]
                            ELSE visible[((at - 1 + delta + Len(visible)) % Len(visible)) + 1]))

\* The workspace's remembered tab, else its first one; nothing is selected
\* when it has none.
SwitchTo(w) ==
    LET ws == Ws(ui, w)
        t == IF ws.active # None THEN ws.active
             ELSE IF ws.tabs # <<>> THEN ws.tabs[1] ELSE None
        s1 == setActiveWorkspace(ui, w)
    IN IF t = None THEN s1 ELSE Activate(s1, t)

ShortcutSwitchWorkspace(i) == i \in DOMAIN ui.wss /\ Step(SwitchTo(ui.wss[i].id))

ShortcutCycleWorkspace(delta) ==
    LET at == WsIndex(ui, ui.aws)
        n == Len(ui.wss)
    IN /\ n > 0 /\ ui.aws # None
       /\ Step(SwitchTo(ui.wss[((at - 1 + delta + n) % n) + 1].id))

-----------------------------------------------------------------------------
(* Opening.                                                                *)

handleAddTab(t) ==
    /\ FreshTab(t)
    /\ Step(insertTab(setActiveTab(addTab(ui, t, createTab(NewTab), None), t), t, ui.aws, None))

handleAddTabToWorkspace(w, t) ==
    /\ HasWs(ui, w) /\ FreshTab(t)
    /\ Step(SelectTab(insertTab(addTab(ui, t, createTab(NewTab), None), t, w, None), t))

OpenSingletonAndSelect(s, content, w, t) ==
    LET id == SingletonId(s, content, t)
        s1 == openSingletonTab(s, content, None, t)
    IN SelectTab(insertTab(s1, id, w, None), id)

\* handleOpenHosts, handleOpenSettings and openWsSettings.
openSingletonAndSelect(content, w, t) ==
    FreshTab(t) /\ Step(OpenSingletonAndSelect(ui, content, w, t))

\* open-settings, open-hosts, open-history: inserted, not selected.
ShortcutOpenSingleton(content, t) ==
    /\ FreshTab(t)
    /\ Step(insertTab(openSingletonTab(ui, content, None, t), SingletonId(ui, content, t),
                      ui.aws, None))

openClusteredTab(content, w, t) ==
    /\ FreshTab(t) /\ HasWs(ui, w)
    /\ LET after == computeClusterInsertTarget(ui, w, {content})
       IN Step(insertTab(openSingletonTab(ui, content, after, t),
                         SingletonId(ui, content, t), w, after))

openBrowserTab(b, t) ==
    /\ FreshTab(t)
    /\ LET order == IF HasWs(ui, ui.aws)
                    THEN Within(Ws(ui, ui.aws).tabs, Open(ui)) ELSE ui.order
           after == IF ui.active = None THEN None
                    ELSE findInsertTarget(ui, order, ui.active, Browsers)
       IN Step(insertTab(setActiveTab(addTab(ui, t, createTab(b), after), t), t, ui.aws, after))

\* A session tab, opened by the session panel.
OpenSessionTab(c, t) ==
    /\ FreshTab(t) /\ c \in Sessions
    /\ Step(SelectTab(insertTab(addTab(ui, t, createTab(c), None), t, ui.aws, None), t))

\* The URL names a tab: unknown tabs leave nothing selected.
RouteToTab(t) == Step(setActiveTab(ui, IF t \in Open(ui) THEN t ELSE None))

\* The URL names a workspace's settings; the workspace may not exist any more.
RouteToWorkspaceSettings(w, t) ==
    /\ FreshTab(t)
    /\ LET s1 == setActiveWorkspace(ui, w)
       IN Step(insertTab(openSingletonTab(s1, SettingsOf(w), None, t),
                         SingletonId(s1, SettingsOf(w), t), w, None))

ReopenClosedTab ==
    /\ LastClosed(ui) # 0
    /\ LET r == ui.closed[LastClosed(ui)]
           s1 == reopenLast(ui)
       IN Step(insertTab(setActiveTab(addTab(s1, r.id, r.tab, None), r.id), r.id, ui.aws, None))

-----------------------------------------------------------------------------
(* Closing, pinning, locking, reordering.                                  *)

\* closeTab of tab-lifecycle.ts: a dirty editor asks first, and the user may
\* keep the tab.
handleCloseTab(t) == t \in Open(ui) /\ Step(closeTabInWorkspace(ui, t, FALSE))

\* closeOthers and closeRight close the unlocked ones from left to right.
CloseAll(s, seq) ==
    LET go[i \in 0..Len(seq)] ==
            IF i = 0 THEN s ELSE closeTabInWorkspace(go[i - 1], seq[i], FALSE)
    IN go[Len(seq)]

Unlocked == {t \in Open(ui) : ~ui.tabs[t].locked}

handleCloseOthers(t) ==
    /\ t \in ToSet(getVisibleTabIds(ui))
    /\ Step(CloseAll(ui, Within(getVisibleTabIds(ui), Unlocked \ {t})))

handleCloseRight(t) ==
    LET visible == getVisibleTabIds(ui)
        at == Position(visible, t)
    IN at # 0 /\ Step(CloseAll(ui, Within(SubSeq(visible, at + 1, Len(visible)), Unlocked)))

handleTogglePin(t) == t \in Open(ui) /\ Step(togglePin(ui, t))

handleToggleLock(t) == t \in Open(ui) /\ Step(toggleLock(ui, t))

\* A drag in the tab bar moves a tab within its zone, pinned or normal, and
\* reports the visible tabs in their new order.
TabBarOrder(i, j) ==
    LET visible == getVisibleTabIds(ui)
        pins == Within(visible, {t \in Open(ui) : ui.tabs[t].pinned})
        normal == Without(visible, {t \in Open(ui) : ui.tabs[t].pinned})
    IN IF i \in DOMAIN pins THEN arrayMove(pins, i, j) \o normal
       ELSE pins \o arrayMove(normal, i - Len(pins), j - Len(pins))

SameZone(i, j) ==
    LET visible == getVisibleTabIds(ui)
        pins == Len(Within(visible, {t \in Open(ui) : ui.tabs[t].pinned}))
    IN i \in DOMAIN visible /\ j \in DOMAIN visible /\ (i <= pins <=> j <= pins)

handleReorderTabs(i, j) ==
    /\ i # j /\ SameZone(i, j)
    /\ Step(IF ui.aws # None THEN reorderWorkspaceTabs(ui, ui.aws, TabBarOrder(i, j))
            ELSE reorderTabs(ui, TabBarOrder(i, j)))

handleMergeToTab(t, target) ==
    /\ t # target /\ {t, target} \subseteq ToSet(getVisibleTabIds(ui))
    /\ Len(ui.tabs[t].leaves) = 1 /\ Len(ui.tabs[target].leaves) \in 2..(MaxLeaves - 1)
    /\ ~ui.tabs[t].locked /\ ~ui.tabs[target].locked
    /\ LET s1 == splitPane(ui, target, 1, getPrimaryPane(ui.tabs[t]))
       IN Step(SelectTab(closeTabInWorkspace(s1, t, FALSE), target))

-----------------------------------------------------------------------------
(* Panes.                                                                  *)

SplitPaneBlank(t, i) ==
    /\ HasPane(ui, t, i) /\ Len(ui.tabs[t].leaves) < MaxLeaves
    /\ Step(splitPane(ui, t, i, NewTab))

\* The new-tab page of a pane is replaced by what the user picks.
PickPaneContent(t, i, c) ==
    /\ HasPane(ui, t, i) /\ ui.tabs[t].leaves[i] = NewTab
    /\ Step(setPaneContent(ui, t, i, c))

\* The pane menu refuses to close the last pane of a tab.
PaneMenuClose(t, i) ==
    /\ HasPane(ui, t, i) /\ Len(ui.tabs[t].leaves) > 1
    /\ Step(closePane(ui, t, i))

PaneMenuDetach(t, i, fresh) ==
    /\ HasPane(ui, t, i) /\ Len(ui.tabs[t].leaves) > 1 /\ FreshTab(fresh)
    /\ LET s1 == detachPane(ui, t, i, t, fresh)
           w == findWorkspaceByTab(ui, t)
       IN Step(setActiveTab(IF w = None THEN s1 ELSE insertTab(s1, fresh, w, t), fresh))

PaneSwap(t, i, j) ==
    /\ i # j /\ HasPane(ui, t, i) /\ HasPane(ui, t, j)
    /\ Step(swapPaneContent(ui, t, i, j))

ApplyLayout(t, panes) ==
    t \in Open(ui) /\ t = ui.active /\ Step(applyLayout(ui, t, panes))

\* The new-tab page takes the content of a single-pane tab, which then closes
\* without a history record.
moveTabContentIntoPane(source, t, i) ==
    /\ source # t /\ source \in Open(ui) /\ ~ui.tabs[source].locked
    /\ Len(ui.tabs[source].leaves) = 1
    /\ getPrimaryPane(ui.tabs[source]) \in Sessions
    /\ HasPane(ui, t, i) /\ ui.tabs[t].leaves[i] = NewTab
    /\ Step(closeTabInWorkspace(setPaneContent(ui, t, i, getPrimaryPane(ui.tabs[source])),
                                source, TRUE))

\* Deleting a stored file closes the panes that show it through the tab store
\* alone, also when the pane is the only one of its tab.
DeleteStoredFile(t, i) ==
    /\ HasPane(ui, t, i)
    /\ ui.tabs[t].leaves[i] \notin Sessions \cup Browsers \cup {NewTab}
    /\ Step(closePane(ui, t, i))

-----------------------------------------------------------------------------
(* Workspaces.                                                             *)

\* The first workspace offers to take over the open tabs.
handleAddWorkspace(w, t) ==
    /\ ~HasWs(ui, w) /\ migrate = None /\ FreshTab(t)
    /\ IF ui.wss = <<>> /\ ui.order # <<>>
       THEN migrate' = w /\ ui' = addWorkspace(ui, w)
       ELSE /\ ui' = OpenSingletonAndSelect(addWorkspace(ui, w), SettingsOf(w), w, t)
            /\ UNCHANGED migrate
    /\ UNCHANGED <<drag, moving>>

InsertAll(s, seq, w) ==
    LET go[i \in 0..Len(seq)] ==
            IF i = 0 THEN s ELSE insertTab(go[i - 1], seq[i], w, None)
    IN go[Len(seq)]

handleMigrateConfirm(t) ==
    /\ migrate # None /\ FreshTab(t)
    /\ ui' = OpenSingletonAndSelect(InsertAll(ui, ui.order, migrate), SettingsOf(migrate), migrate, t)
    /\ migrate' = None
    /\ UNCHANGED <<drag, moving>>

handleMigrateSkip ==
    /\ migrate # None
    /\ ui' = setActiveWorkspace(ui, None) /\ migrate' = None
    /\ UNCHANGED <<drag, moving>>

\* The delete dialog lists the workspace's tabs but its settings page; the
\* checked ones are closed, the others become standalone.
DeleteWorkspace(w, checked) ==
    LET listed == {t \in Open(ui) : /\ t \in ToSet(Ws(ui, w).tabs)
                                    /\ \A x \in WsIds : getPrimaryPane(ui.tabs[t]) # SettingsOf(x)}
        s1 == removeWorkspace(CloseAll(ui, Within(Ws(ui, w).tabs, checked)), w)
        next == IF ~HasWs(s1, s1.aws) THEN None
                ELSE IF Ws(s1, s1.aws).active # None THEN Ws(s1, s1.aws).active
                ELSE IF Ws(s1, s1.aws).tabs # <<>> THEN Ws(s1, s1.aws).tabs[1] ELSE None
    IN /\ HasWs(ui, w) /\ checked \subseteq listed
       /\ Step(IF checked # listed THEN setActiveWorkspace(s1, None)
               ELSE IF next # None THEN setActiveTab(s1, next) ELSE s1)

-----------------------------------------------------------------------------
(* Dragging in the activity bar.                                           *)

DragStart(t) ==
    /\ drag = NoDrag /\ t \in Open(ui)
    /\ drag' = [tab |-> t, from |-> findWorkspaceByTab(ui, t), pinned |-> ui.tabs[t].pinned]
    /\ UNCHANGED <<ui, moving, migrate>>

\* Crossing into another workspace's tab list moves the tab at once: it is
\* removed from the workspace the drag remembers, inserted before the tab it
\* hovers over, and the drag remembers the new workspace.
CrossWorkspaceDragOver(over) ==
    LET to == findWorkspaceByTab(ui, over)
        s1 == removeTabFromWorkspace(ui, drag.from, drag.tab)
        at == Position(Ws(s1, to).tabs, over)
    IN /\ drag.tab # None /\ over # drag.tab /\ over \in Open(ui)
       /\ ~drag.pinned /\ drag.from # None /\ to # None /\ drag.from # to
       /\ ui' = insertTab(s1, drag.tab, to, IF at > 1 THEN Ws(s1, to).tabs[at - 1] ELSE First)
       /\ drag' = [drag EXCEPT !.from = to]
       /\ UNCHANGED <<moving, migrate>>

MoveTabToWorkspace(s, t, w, after) ==
    LET from == findWorkspaceByTab(s, t)
        s1 == insertTab(s, t, w, after)
        emptied == from # None /\ from # w /\ (~HasWs(s1, from) \/ Ws(s1, from).tabs = <<>>)
    IN IF t = s1.active \/ (emptied /\ s.aws = from) THEN setActiveWorkspace(s1, w) ELSE s1

MoveTabToStandalone(s, t, w) ==
    LET s1 == removeTabFromWorkspace(s, w, t)
        emptied == ~HasWs(s1, w) \/ Ws(s1, w).tabs = <<>>
    IN IF t = s1.active \/ (s.aws = w /\ emptied) THEN setActiveWorkspace(s1, None) ELSE s1

DragEnd(s) == drag.tab # None /\ drag' = NoDrag /\ ui' = s /\ UNCHANGED <<moving, migrate>>

\* computeDragEndAction for a drop on a tab: reorder within the zone, or move
\* to the zone of the tab dropped on.  A pinned tab only moves in its zone.
DropOnTab(over) ==
    LET to == findWorkspaceByTab(ui, over)
        zone == IF to = None THEN StandaloneOrder(ui) ELSE Ws(ui, to).tabs
        i == Position(zone, drag.tab)
        moved == arrayMove(zone, i, Position(zone, over))
    IN /\ over # drag.tab /\ over \in Open(ui)
       /\ DragEnd(IF to = drag.from
                  THEN IF i = 0 \/ Position(zone, over) = 0 THEN ui
                       ELSE IF to = None
                            THEN reorderTabs(ui, reorderStandaloneTabOrder(ui.order, moved))
                            ELSE reorderWorkspaceTabs(ui, to, moved)
                  ELSE IF drag.pinned THEN ui
                  ELSE IF to = None THEN MoveTabToStandalone(ui, drag.tab, drag.from)
                  ELSE MoveTabToWorkspace(ui, drag.tab, to, over))

DropOnWorkspaceHeader(w) ==
    DragEnd(IF drag.pinned \/ w = drag.from THEN ui
            ELSE MoveTabToWorkspace(ui, drag.tab, w, First))

DropOnHomeHeader ==
    DragEnd(IF drag.pinned \/ drag.from = None THEN ui
            ELSE MoveTabToStandalone(ui, drag.tab, drag.from))

DropNowhere == DragEnd(ui)

\* A drag of a workspace row reorders the workspaces.
DragWorkspace(i, j) ==
    /\ i # j /\ {i, j} \subseteq DOMAIN ui.wss
    /\ Step(reorderWorkspaces(ui, arrayMove([k \in DOMAIN ui.wss |-> ui.wss[k].id], i, j)))

-----------------------------------------------------------------------------
(* Other windows.                                                          *)

\* tearOff: the tab is closed first and sent only when it is gone.
TearOffTab(t) == t \in Open(ui) /\ ~ui.tabs[t].locked /\ handleCloseTab(t)

\* The hand-over of a workspace awaits the main process with the tabs it
\* prepared; they are removed only once it has answered.
WorkspaceHandOver(w) ==
    /\ moving.ws = None /\ HasWs(ui, w)
    /\ ToSet(Ws(ui, w).tabs) \cap Open(ui) # {}
    /\ moving' = [ws |-> w, tabs |-> ToSet(Ws(ui, w).tabs)]
    /\ UNCHANGED <<ui, drag, migrate>>

WorkspaceHandOverFailed ==
    /\ moving.ws # None
    /\ moving' = [ws |-> None, tabs |-> {}]
    /\ UNCHANGED <<ui, drag, migrate>>

\* Seeded fault: the active tab is left alone when its workspace is removed.
BugRemoveWorkspaceFromStore(s, gone, w) ==
    removeWorkspace([s EXCEPT !.tabs = [t \in DOMAIN @ \ gone |-> @[t]],
                              !.order = Without(@, gone)], w)

removeWorkspaceFromStore(s, gone, w) ==
    LET s1 == [s EXCEPT !.tabs = [t \in DOMAIN @ \ gone |-> @[t]],
                        !.order = Without(@, gone),
                        !.active = None]
        s2 == removeWorkspace(s1, w)
        next == IF HasWs(s2, s2.aws) /\ Ws(s2, s2.aws).active # None THEN Ws(s2, s2.aws).active
                ELSE IF HasWs(s2, s2.aws) /\ Ws(s2, s2.aws).tabs # <<>>
                     THEN Ws(s2, s2.aws).tabs[1]
                ELSE IF s2.order # <<>> THEN s2.order[1] ELSE None
    IN IF next = None THEN s2 ELSE setActiveTab(s2, next)

WorkspaceHandOverDone ==
    /\ moving.ws # None
    /\ ui' = removeWorkspaceFromStore(ui, moving.tabs, moving.ws)
    /\ moving' = [ws |-> None, tabs |-> {}]
    /\ UNCHANGED <<drag, migrate>>

\* A torn-off tab or workspace replaces what the new window loaded from the
\* shared storage, before anything was visited in it; a merged one joins what
\* the window shows.
NoTabs(s) == [s EXCEPT !.tabs = <<>>, !.order = <<>>, !.active = None]

TabReceived(t, c, replace) ==
    LET s1 == IF replace THEN NoTabs(ui) ELSE ui
    IN /\ replace => ui.visits = <<>>
       /\ Step(insertTab(setActiveTab(addTab(s1, t, createTab(c), None), t), t, ui.aws, None))

\* A workspace with one tab; one that is already here by id is not imported
\* again, its tabs are.  Nothing asks which workspace lists the tab here.
WorkspaceReceived(w, t, c, replace) ==
    LET s0 == IF replace THEN [NoTabs(ui) EXCEPT !.wss = <<>>, !.aws = None] ELSE ui
        s1 == addTab(s0, t, createTab(c), None)
        s2 == importWorkspace(s1, [id |-> w, tabs |-> <<t>>, active |-> t])
        s3 == IF replace THEN setActiveWorkspace(s2, w) ELSE s2
    IN /\ replace => ui.visits = <<>>
       /\ Step(setActiveTab(s3, t))

\* The window gives its tabs away, or is a new one that takes another's.
Replaced ==
    \/ WorkspaceHandOverDone
    \/ \E t \in TabIds, c \in Sessions :
          TabReceived(t, c, TRUE) \/ \E w \in WsIds : WorkspaceReceived(w, t, c, TRUE)

-----------------------------------------------------------------------------
SelectNext ==
    \/ \E t \in TabIds : handleSelectTab(t) \/ RouteToTab(t)
    \/ \E w \in WsIds : handleSelectWorkspace(w)
    \/ handleSelectHome
    \/ \E i \in 1..Cardinality(TabIds) : ShortcutSwitchTab(i)
    \/ \E d \in {-1, 1} : ShortcutCycleTab(d) \/ ShortcutCycleWorkspace(d)
    \/ \E i \in 1..Cardinality(WsIds) : ShortcutSwitchWorkspace(i)

OpenNext == \E t \in TabIds :
    \/ handleAddTab(t)
    \/ \E w \in WsIds : handleAddTabToWorkspace(w, t) \/ RouteToWorkspaceSettings(w, t)
    \/ \E c \in Contents \ (Sessions \cup Browsers \cup {NewTab}), w \in WsIds :
          openSingletonAndSelect(c, w, t) \/ ShortcutOpenSingleton(c, t) \/ openClusteredTab(c, w, t)
    \/ \E b \in Browsers : openBrowserTab(b, t)
    \/ \E c \in Sessions : OpenSessionTab(c, t)
    \/ ReopenClosedTab

CloseNext == \E t \in TabIds :
    \/ handleCloseTab(t) \/ handleCloseOthers(t) \/ handleCloseRight(t)
    \/ handleTogglePin(t) \/ handleToggleLock(t)
    \/ \E x \in TabIds : handleMergeToTab(t, x)

PaneNext == \E t \in TabIds, i \in 1..MaxLeaves :
    \/ SplitPaneBlank(t, i) \/ PaneMenuClose(t, i) \/ DeleteStoredFile(t, i)
    \/ \E c \in Contents : PickPaneContent(t, i, c)
    \/ \E x \in TabIds : PaneMenuDetach(t, i, x) \/ moveTabContentIntoPane(x, t, i)
    \/ \E j \in 1..MaxLeaves : PaneSwap(t, i, j)
    \/ i <= 2 /\ ApplyLayout(t, i)

WorkspaceNext ==
    \/ \E w \in WsIds, t \in TabIds : handleAddWorkspace(w, t)
    \/ \E t \in TabIds : handleMigrateConfirm(t)
    \/ handleMigrateSkip
    \/ \E w \in WsIds, checked \in SUBSET TabIds : DeleteWorkspace(w, checked)
    \/ \E i, j \in 1..Cardinality(WsIds) : DragWorkspace(i, j)

DragNext ==
    \/ \E i, j \in 1..Cardinality(TabIds) : handleReorderTabs(i, j)
    \/ \E t \in TabIds : DragStart(t) \/ CrossWorkspaceDragOver(t) \/ DropOnTab(t)
    \/ \E w \in WsIds : DropOnWorkspaceHeader(w)
    \/ DropOnHomeHeader
    \/ DropNowhere

WindowNext ==
    \/ \E t \in TabIds : TearOffTab(t)
    \/ \E w \in WsIds : WorkspaceHandOver(w)
    \/ WorkspaceHandOverFailed
    \/ WorkspaceHandOverDone
    \/ \E t \in TabIds, c \in Sessions : TabReceived(t, c, FALSE) \/ TabReceived(t, c, TRUE)
    \/ \E t \in TabIds, c \in Sessions, w \in WsIds, r \in BOOLEAN :
          WorkspaceReceived(w, t, c, r)

ShellNext == SelectNext \/ OpenNext \/ CloseNext \/ PaneNext \/ WorkspaceNext
             \/ DragNext \/ WindowNext

ShellSpec == ShellInit /\ [][ShellNext]_shellVars

-----------------------------------------------------------------------------
(* Properties.                                                             *)

\* The active tab is an open tab, whatever handler, route, shortcut or message
\* selected it or took it away.
ActiveTabOpen == ui.active \in Open(ui) \cup {None}

\* The tabs that more than one workspace lists.
Shared(s) ==
    {t \in TabIds : \E i, j \in DOMAIN s.wss :
        i # j /\ t \in ToSet(s.wss[i].tabs) \cap ToSet(s.wss[j].tabs)}

\* The step brings t along with a workspace merged from another window.
BroughtAlong(t) == \E w \in WsIds, c \in Sessions : WorkspaceReceived(w, t, c, FALSE)

\* A workspace lists a tab once.
ListedOnce == \A i \in DOMAIN ui.wss : IsInjective(ui.wss[i].tabs)

\* The tab a workspace remembers as its active one is one of its own tabs:
\* the switch to the workspace selects it without looking again.
WorkspaceActiveIsMember ==
    \A i \in DOMAIN ui.wss : ui.wss[i].active \in ToSet(ui.wss[i].tabs) \cup {None}

\* The tab order lists open tabs only, each once.
OrderSound == ToSet(ui.order) \subseteq Open(ui) /\ IsInjective(ui.order)

\* A locked tab leaves the window only with the workspace it was handed over
\* with, or when the window takes over another's: no close, merge, move, layout or deletion takes it away.
LockedTabKept ==
    [][\A t \in Open(ui) : ui.tabs[t].locked /\ ~Replaced => t \in Open(ui)']_shellVars

\* The tab list is well formed and agrees with itself: ActiveTabOpen and OrderSound after every
\* handler, drag, hand-over and migration.
TabsSound == ShellTypeOK /\ ActiveTabOpen /\ OrderSound

\* Every step leaves workspaces that agree with the tabs.  A workspace lists a
\* tab once, and the tab it remembers as active is its own.  And no handler,
\* drag or hand-over puts a tab into a second workspace: insertTab takes it from
\* the others ("singleton tab dedup"), and so does a drag still in flight.  Only
\* a workspace merged from another window does: it is imported with the tabs it
\* lists, also those that a workspace here has got by then.
WorkspacesSound ==
    [][/\ ListedOnce' /\ WorkspaceActiveIsMember'
       /\ \A t \in Shared(ui)' \ Shared(ui) : BroughtAlong(t)]_shellVars
=============================================================================
