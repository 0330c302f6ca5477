---------------------------- MODULE BrowserViews ----------------------------
(***************************************************************************)
(* Browser panes of the application: the panes in the windows' renderers,  *)
(* the calls they send to the main process in order, the manager of the    *)
(* native views with its idle timers, its limit on background views and    *)
(* the snapshots of discarded views, and mini windows.                     *)
(* Pages are opaque; bounds, history and metrics are left out.             *)
(***************************************************************************)
EXTENDS Integers, FiniteSets, Sequences, Lists

CONSTANTS Panes, Minis,       \* browser panes; panes of mini windows
          Wins, Owner,        \* windows, and the window each pane is in
          Pages, NoPage, MaxBackground, MaxCalls

VARIABLES mounted,    \* panes shown by their renderer
          winOpen,    \* windows that are open
          calls,      \* per window: calls under way to the main process
          views,      \* the manager's views
          viewOrder,  \* view panes, least recently active first
          timers,     \* panes with an idle timer
          saved,      \* snapshots of discarded views: the page of each
          page        \* page each pane was last at, NoPage when it starts anew

viewVars == <<mounted, winOpen, calls, views, viewOrder, timers, saved, page>>

AllPanes == Panes \cup Minis

ASSUME ViewAssumption ==
    /\ IsFiniteSet(AllPanes) /\ Panes \cap Minis = {} /\ Owner \in [AllPanes -> Wins]
    /\ NoPage \notin Pages /\ MaxBackground \in Nat

NoView == [at |-> "none", url |-> NoPage]
Background(v) == {p \in AllPanes : v[p].at = "background"}

ViewsInit ==
    /\ mounted = {} /\ winOpen = Wins /\ calls = [w \in Wins |-> <<>>]
    /\ views = [p \in AllPanes |-> NoView] /\ viewOrder = <<>> /\ timers = {}
    /\ saved = [p \in AllPanes |-> NoPage] /\ page = [p \in AllPanes |-> NoPage]

-----------------------------------------------------------------------------
(* The manager.  Its operators work on a record of its state.              *)

Mgr == [views |-> views, viewOrder |-> viewOrder, timers |-> timers, saved |-> saved, page |-> page]

\* Seeded fault: a view that is shown again keeps its idle timer.
BugActivate(m, p) == [m EXCEPT !.views[p].at = "active", !.viewOrder = Append(Drop(@, p), p)]

activate(m, p) ==
    [m EXCEPT !.views[p].at = "active", !.viewOrder = Append(Drop(@, p), p), !.timers = @ \ {p}]

\* A view that is there is shown again; a discarded one starts from its
\* snapshot, else from the address of its pane.
open(m, p, u) ==
    IF m.views[p].at # "none" THEN activate(m, p)
    ELSE LET start == IF m.saved[p] # NoPage THEN m.saved[p] ELSE u
         IN [m EXCEPT !.views[p] = [at |-> "active", url |-> start], !.viewOrder = Append(Drop(@, p), p),
                      !.saved[p] = NoPage, !.timers = @ \ {p},
                      !.page[p] = IF @ = NoPage THEN u ELSE @]

discard(m, p) ==
    [m EXCEPT !.saved[p] = m.views[p].url, !.views[p] = NoView, !.viewOrder = Drop(@, p), !.timers = @ \ {p}]

Oldest(m) == Within(m.viewOrder, Background(m.views))[1]

\* Seeded fault: the limit is compared one too high.
BugEnforceMaxBackground(m) ==
    IF Cardinality(Background(m.views)) > MaxBackground + 1 THEN discard(m, Oldest(m)) ELSE m

\* One view at a time goes to the background: at most one is too many.
enforceMaxBackground(m) ==
    IF Cardinality(Background(m.views)) > MaxBackground THEN discard(m, Oldest(m)) ELSE m

background(m, p) ==
    IF m.views[p].at = "none" THEN m
    ELSE enforceMaxBackground([m EXCEPT !.views[p].at = "background", !.timers = @ \cup {p}])

navigate(m, p, u) ==
    IF m.views[p].at = "none" THEN m ELSE [m EXCEPT !.views[p].url = u, !.page[p] = u]

\* A discarded view has no entry and keeps its snapshot.
destroy(m, p) ==
    IF m.views[p].at = "none" THEN m
    ELSE [m EXCEPT !.views[p] = NoView, !.viewOrder = Drop(@, p), !.timers = @ \ {p}, !.page[p] = NoPage]

SetMgr(m) ==
    /\ views' = m.views /\ viewOrder' = m.viewOrder /\ timers' = m.timers
    /\ saved' = m.saved /\ page' = m.page

-----------------------------------------------------------------------------
(* The renderers.                                                          *)

Call(w, cs) == calls' = [calls EXCEPT ![w] = @ \o cs]
CanCall(p) == Owner[p] \in winOpen /\ Len(calls[Owner[p]]) < MaxCalls

\* A browser pane is shown, or its tab was switched away from.
MountPane(p, u) ==
    /\ p \in Panes \ mounted /\ CanCall(p)
    /\ mounted' = mounted \cup {p} /\ Call(Owner[p], <<[op |-> "open", p |-> p, u |-> u]>>)
    /\ UNCHANGED <<winOpen, views, viewOrder, timers, saved, page>>

UnmountPane(p) ==
    /\ p \in mounted /\ CanCall(p)
    /\ mounted' = mounted \ {p} /\ Call(Owner[p], <<[op |-> "close", p |-> p, u |-> NoPage]>>)
    /\ UNCHANGED <<winOpen, views, viewOrder, timers, saved, page>>

\* Closing its tab destroys the view before the pane unmounts.
CloseBrowserTab(p) ==
    /\ p \in Panes /\ CanCall(p) /\ mounted' = mounted \ {p}
    /\ Call(Owner[p], <<[op |-> "destroy", p |-> p, u |-> NoPage]>> \o
                      (IF p \in mounted THEN <<[op |-> "close", p |-> p, u |-> NoPage]>> ELSE <<>>))
    /\ UNCHANGED <<winOpen, views, viewOrder, timers, saved, page>>

\* The address bar.
NavigatePane(p, u) ==
    /\ p \in mounted /\ CanCall(p)
    /\ Call(Owner[p], <<[op |-> "navigate", p |-> p, u |-> u]>>)
    /\ UNCHANGED <<mounted, winOpen, views, viewOrder, timers, saved, page>>

\* The main process handles the next call of a window.
HandleCall(w) ==
    LET c == Head(calls[w])
    IN /\ calls[w] # <<>>
       /\ SetMgr(CASE c.op = "open" -> open(Mgr, c.p, c.u)
                   [] c.op = "close" -> background(Mgr, c.p)
                   [] c.op = "navigate" -> navigate(Mgr, c.p, c.u)
                   [] c.op = "destroy" -> destroy(Mgr, c.p))
       /\ calls' = [calls EXCEPT ![w] = Tail(@)]
       /\ UNCHANGED <<mounted, winOpen>>

-----------------------------------------------------------------------------
(* The main process on its own.                                            *)

\* A link inside a page.
FollowLink(p, u) ==
    /\ views[p].at # "none"
    /\ SetMgr(navigate(Mgr, p, u))
    /\ UNCHANGED <<mounted, winOpen, calls>>

IdleTimeout(p) ==
    /\ p \in timers
    /\ SetMgr(IF views[p].at = "none" THEN [Mgr EXCEPT !.timers = @ \ {p}] ELSE discard(Mgr, p))
    /\ UNCHANGED <<mounted, winOpen, calls>>

\* Views use too much memory: the oldest background view goes.
checkMemoryLimit ==
    /\ Background(views) # {}
    /\ SetMgr(discard(Mgr, Oldest(Mgr)))
    /\ UNCHANGED <<mounted, winOpen, calls>>

\* A window closes with its renderer and its views; snapshots stay.
CloseWin(w) ==
    LET gone == {p \in Panes : Owner[p] = w /\ views[p].at # "none"}
    IN /\ w \in winOpen /\ winOpen' = winOpen \ {w}
       /\ mounted' = {p \in mounted : Owner[p] # w}
       /\ calls' = [calls EXCEPT ![w] = <<>>]
       /\ SetMgr([Mgr EXCEPT !.views = [p \in AllPanes |-> IF p \in gone THEN NoView ELSE @[p]],
                             !.page = [p \in AllPanes |-> IF p \in gone THEN NoPage ELSE @[p]],
                             !.viewOrder = Without(@, gone),
                             !.timers = @ \ gone])

\* A page popped out into a window of its own, and that window closed or
\* moved back to a tab of its parent.
OpenMini(p, u) ==
    /\ p \in Minis /\ views[p].at = "none"
    /\ SetMgr(open(Mgr, p, u))
    /\ UNCHANGED <<mounted, winOpen, calls>>

CloseMini(p) ==
    /\ p \in Minis /\ views[p].at # "none"
    /\ SetMgr(destroy(Mgr, p))
    /\ UNCHANGED <<mounted, winOpen, calls>>

ViewsInput ==
    \/ \E p \in AllPanes, u \in Pages : MountPane(p, u) \/ NavigatePane(p, u) \/ FollowLink(p, u) \/ OpenMini(p, u)
    \/ \E p \in AllPanes : UnmountPane(p) \/ CloseBrowserTab(p) \/ CloseMini(p)
    \/ \E w \in Wins : CloseWin(w)

ViewsProgress ==
    \/ \E w \in Wins : HandleCall(w)
    \/ \E p \in AllPanes : IdleTimeout(p)
    \/ checkMemoryLimit

ViewsSpec == ViewsInit /\ [][ViewsInput \/ ViewsProgress]_viewVars

-----------------------------------------------------------------------------
(* Properties.                                                             *)

\* A pane that is shown, with no call under way, has an active view at the
\* page the pane was left at: no idle timer, memory check or limit takes the
\* view away, and a discarded view comes back where it was.
ShownViewKept ==
    \A p \in mounted : calls[Owner[p]] = <<>> => views[p] = [at |-> "active", url |-> page[p]]

\* However panes come and go, no more views than the limit stay in memory
\* without being shown.
BackgroundBounded == Cardinality(Background(views)) <= MaxBackground

\* The two promises of the view manager: ShownViewKept and BackgroundBounded,
\* while calls, idle timers, discards and closing windows interleave.
ViewsSound == ShownViewKept /\ BackgroundBounded
=============================================================================
