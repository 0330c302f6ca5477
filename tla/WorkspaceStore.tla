--------------------------- MODULE WorkspaceStore ---------------------------
(***************************************************************************)
(* The workspace store (spa/src/features/workspace/store.ts) and the pure  *)
(* functions on orders and drags that its callers use, as operators on the *)
(* same state record as TabStore: s.wss is the sequence of workspaces,     *)
(* s.aws the active workspace.                                             *)
(***************************************************************************)
EXTENDS TabStore, FiniteSets

CONSTANT WsIds

ASSUME WsAssumption == None \notin WsIds

Workspaces == [id : WsIds, tabs : Seq(TabIds), active : TabIds \cup {None}]

WsIndex(s, w) == Position([i \in DOMAIN s.wss |-> s.wss[i].id], w)

HasWs(s, w) == WsIndex(s, w) # 0

Ws(s, w) == s.wss[WsIndex(s, w)]

\* findWorkspaceByTab: the first workspace that lists the tab, None otherwise.
findWorkspaceByTab(s, t) ==
    LET hits == {i \in DOMAIN s.wss : t \in ToSet(s.wss[i].tabs)}
    IN IF hits = {} THEN None ELSE s.wss[CHOOSE i \in hits : \A j \in hits : i <= j].id

isStandaloneTab(s, t) == findWorkspaceByTab(s, t) = None

StandaloneOrder(s) == Within(s.order, {t \in TabIds : isStandaloneTab(s, t)})

addWorkspace(s, w) ==
    [s EXCEPT !.wss = Append(@, [id |-> w, tabs |-> <<>>, active |-> None]),
              !.aws = IF @ = None THEN w ELSE @]

removeWorkspace(s, w) ==
    IF ~HasWs(s, w) THEN s
    ELSE LET rest == Without(s.wss, {x \in ToSet(s.wss) : x.id = w})
         IN [s EXCEPT !.wss = rest,
                      !.aws = IF @ # w THEN @
                              ELSE IF rest = <<>> THEN None ELSE rest[1].id]

setActiveWorkspace(s, w) == [s EXCEPT !.aws = w]

UpdateWs(s, w, F(_)) ==
    [s EXCEPT !.wss = [i \in DOMAIN s.wss |-> IF s.wss[i].id = w THEN F(s.wss[i]) ELSE s.wss[i]]]

DropTab(ws, t) == [ws EXCEPT !.tabs = Drop(@, t), !.active = IF @ = t THEN None ELSE @]

removeTabFromWorkspace(s, w, t) == UpdateWs(s, w, LAMBDA ws : DropTab(ws, t))

setWorkspaceActiveTab(s, w, t) == UpdateWs(s, w, LAMBDA ws : [ws EXCEPT !.active = t])

\* The members of order that occur in seq, once each, in the order given.
Restricted(order, seq) == Within(Distinct(order), ToSet(seq))

\* A stale order keeps the tabs it misses, at the end.
reorderWorkspaceTabs(s, w, order) ==
    UpdateWs(s, w, LAMBDA ws :
        LET kept == Restricted(order, ws.tabs)
        IN [ws EXCEPT !.tabs = kept \o Without(ws.tabs, ToSet(kept))])

reorderWorkspaces(s, ids) ==
    LET known == Within(ids, {w \in WsIds : HasWs(s, w)})
        missing == Without(s.wss, {x \in ToSet(s.wss) : x.id \in ToSet(ids)})
    IN [s EXCEPT !.wss = [i \in DOMAIN known |-> Ws(s, known[i])] \o
                         (IF Len(known) < Len(s.wss) THEN missing ELSE <<>>)]

\* The position of afterTabId: First puts the tab first (null in the code),
\* None at the end (undefined), a tab id after that tab.
First == "first"

\* Seeded fault: the tab stays listed in the workspace it comes from.
BugInsertTab(s, t, w, after) ==
    IF w = None \/ ~HasWs(s, w) THEN s
    ELSE UpdateWs(s, w, LAMBDA ws :
            IF t \in ToSet(ws.tabs) THEN [ws EXCEPT !.active = t]
            ELSE [ws EXCEPT !.active = t, !.tabs = Append(@, t)])

\* Inserting into a workspace removes the tab from every other one; a target
\* that no longer exists leaves the store alone.
insertTab(s, t, w, after) ==
    IF w = None \/ ~HasWs(s, w) THEN s
    ELSE LET at(tabs) == IF after = First THEN 0
                         ELSE IF Position(tabs, after) # 0 THEN Position(tabs, after)
                         ELSE Len(tabs)
             into(ws) == IF t \in ToSet(ws.tabs) THEN [ws EXCEPT !.active = t]
                         ELSE [ws EXCEPT !.active = t,
                                         !.tabs = InsertAfter(ws.tabs, at(ws.tabs), t)]
         IN [s EXCEPT !.wss = [i \in DOMAIN s.wss |->
                IF s.wss[i].id = w THEN into(s.wss[i])
                ELSE IF t \in ToSet(s.wss[i].tabs) THEN DropTab(s.wss[i], t) ELSE s.wss[i]]]

-----------------------------------------------------------------------------
\* Seeded fault: the successor is taken from the whole tab order.
BugNextTab(s, t) ==
    LET rest == Drop(s.order, t) IN IF rest = <<>> THEN None ELSE rest[1]

\* The tab that takes over when t closes: the most recently visited one in
\* the same scope, else its neighbour there.
NextTab(s, t) ==
    LET w == findWorkspaceByTab(s, t)
        ordered == IF w # None THEN Ws(s, w).tabs ELSE StandaloneOrder(s)
        rest == Drop(ordered, t)
        recent == {i \in DOMAIN s.visits : s.visits[i] \in ToSet(rest)}
        least(a, b) == IF a < b THEN a ELSE b
    IN IF recent # {} THEN s.visits[CHOOSE i \in recent : \A j \in recent : j <= i]
       ELSE IF rest = <<>> THEN None
       ELSE IF Position(ordered, t) = 0 THEN None
       ELSE rest[least(Position(ordered, t), Len(rest))]

\* Seeded fault: a locked tab is closed like any other.
BugCloseTabInWorkspace(s, t, skipHistory) ==
    IF t \notin Open(s) THEN s
    ELSE LET s1 == [s EXCEPT !.tabs[t].locked = FALSE] IN closeTab(s1, t)

closeTabInWorkspace(s, t, skipHistory) ==
    IF t \notin Open(s) \/ s.tabs[t].locked THEN s
    ELSE LET w == findWorkspaceByTab(s, t)
             next == NextTab(s, t)
             wasWsActive == w # None /\ Ws(s, w).active = t
             s1 == IF skipHistory THEN s ELSE recordClose(s, t)
             s2 == IF w = None THEN s1 ELSE removeTabFromWorkspace(s1, w, t)
             s3 == closeTab(s2, t)
             s4 == IF s.active = t THEN setActiveTab(s3, next) ELSE s3
         IN IF wasWsActive /\ next # None THEN setWorkspaceActiveTab(s4, w, next) ELSE s4

importWorkspace(s, ws) == IF HasWs(s, ws.id) THEN s ELSE [s EXCEPT !.wss = Append(@, ws)]

-----------------------------------------------------------------------------
\* getVisibleTabIds: what the tab bar shows.
getVisibleTabIds(s) ==
    IF s.wss # <<>> /\ s.aws = None THEN StandaloneOrder(s)
    ELSE IF s.wss # <<>> /\ s.active # None /\ isStandaloneTab(s, s.active) THEN <<s.active>>
    ELSE IF s.wss # <<>> /\ HasWs(s, s.aws)
         THEN Within(Ws(s, s.aws).tabs, Open(s))
    ELSE s.order

\* reorderStandaloneTabOrder: the standalone subset replaced in place.
reorderStandaloneTabOrder(current, newOrder) ==
    LET picked == Restricted(newOrder, current)
        firstAt == CHOOSE i \in DOMAIN current :
                     /\ current[i] \in ToSet(picked)
                     /\ \A j \in 1..(i - 1) : current[j] \notin ToSet(picked)
    IN IF picked = <<>> THEN current
       ELSE SubSeq(current, 1, firstAt - 1) \o picked \o
            Without(SubSeq(current, firstAt, Len(current)), ToSet(picked))

\* arrayMove of @dnd-kit: the element at i moves to position j.
arrayMove(seq, i, j) == InsertAfter(RemoveAt(seq, i), j - 1, seq[i])

\* findInsertTarget: the first tab right of the anchor that shows one of the kind.
findInsertTarget(s, order, anchor, kind) ==
    LET i == Position(order, anchor)
        hits == {j \in (i + 1)..Len(order) :
                    order[j] \in Open(s) /\ getPrimaryPane(s.tabs[order[j]]) \in kind}
    IN IF i = 0 \/ hits = {} THEN anchor
       ELSE order[CHOOSE j \in hits : \A k \in hits : j <= k]

computeClusterInsertTarget(s, w, kind) ==
    LET inWs == w # None /\ HasWs(s, w)
        anchor == IF inWs THEN Ws(s, w).active ELSE s.active
        order == IF inWs THEN Within(Ws(s, w).tabs, Open(s)) ELSE s.order
    IN IF anchor = None \/ anchor \notin ToSet(order) THEN None
       ELSE findInsertTarget(s, order, anchor, kind)

=============================================================================
