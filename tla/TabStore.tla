------------------------------ MODULE TabStore ------------------------------
(***************************************************************************)
(* The tab store of the SPA (spa/src/stores/useTabStore.ts), the closed-   *)
(* tab history and the helpers that pick a position for a new tab.         *)
(*                                                                         *)
(* A store operation is a synchronous update of the whole store, so it is  *)
(* written as an operator from a state record to a state record; the       *)
(* handlers of WorkspaceShell compose them.  A tab keeps its flags and the *)
(* contents of its leaves, in layout order: what the split tree itself     *)
(* does with geometry and nesting is left out.                             *)
(***************************************************************************)
EXTENDS Integers, Sequences, SequencesExt, TLC, Lists

CONSTANTS TabIds,          \* what generateId may return for a tab
          Contents,        \* pane contents
          Sessions,        \* contents of kind tmux-session
          Browsers,        \* contents of kind browser
          NewTab,          \* the new-tab content
          CLOSED_TABS_MAX, \* length of the closed-tab history
          MaxLeaves,       \* bound: panes in one tab
          None             \* null, undefined

ASSUME ContentAssumption ==
    /\ Sessions \cup Browsers \cup {NewTab} \subseteq Contents
    /\ Sessions \cap Browsers = {} /\ NewTab \notin Sessions \cup Browsers
    /\ None \notin TabIds \cup Contents
    /\ CLOSED_TABS_MAX \in Nat \ {0} /\ MaxLeaves \in Nat \ {0}

Tabs == [pinned : BOOLEAN, locked : BOOLEAN, leaves : Seq(Contents)]

\* Position of x in seq, 0 when absent (indexOf, shifted by one).
Position(seq, x) ==
    IF \E i \in DOMAIN seq : seq[i] = x
    THEN CHOOSE i \in DOMAIN seq : seq[i] = x /\ \A j \in 1..(i - 1) : seq[j] # x
    ELSE 0

InsertAfter(seq, i, x) == SubSeq(seq, 1, i) \o <<x>> \o SubSeq(seq, i + 1, Len(seq))

\* The tabs with one more, or with one replaced.
WithTab(tabs, id, tab) ==
    [t \in DOMAIN tabs \cup {id} |-> IF t = id THEN tab ELSE tabs[t]]

createTab(content) == [pinned |-> FALSE, locked |-> FALSE, leaves |-> <<content>>]

getPrimaryPane(tab) == tab.leaves[1]

\* Sessions and browsers are never singletons.
contentMatches(a, b) == a = b /\ a \notin Sessions \cup Browsers

Open(s) == DOMAIN s.tabs

Pinned(s, t) == t \in Open(s) /\ s.tabs[t].pinned

-----------------------------------------------------------------------------
\* The index after which addTab puts a tab: after its anchor, and past the
\* pinned group when an unpinned tab is anchored to a pinned one.
AddPosition(s, tab, after) ==
    LET i == Position(s.order, after)
        pinnedRun == {j \in i..Len(s.order) :
                        \A k \in (i + 1)..j : Pinned(s, s.order[k])}
    IN IF i = 0 THEN Len(s.order)
       ELSE IF ~tab.pinned /\ Pinned(s, after)
            THEN CHOOSE j \in pinnedRun : \A k \in pinnedRun : k <= j
            ELSE i

addTab(s, id, tab, after) ==
    IF id \in Open(s) THEN s
    ELSE [s EXCEPT !.tabs = WithTab(s.tabs, id, tab),
                   !.order = InsertAfter(@, AddPosition(s, tab, after), id),
                   !.active = IF @ = None THEN id ELSE @]

setActiveTab(s, id) ==
    IF id = None THEN [s EXCEPT !.active = None]
    ELSE IF id \notin Open(s) \/ id = s.active THEN s
    ELSE [s EXCEPT !.active = id,
                   !.visits = IF s.active # None
                              THEN Append(Drop(@, id), s.active)
                              ELSE Drop(@, id)]

closeTab(s, id) ==
    IF id \notin Open(s) \/ s.tabs[id].locked THEN s
    ELSE [s EXCEPT !.tabs = [t \in DOMAIN @ \ {id} |-> @[t]],
                   !.order = Drop(@, id),
                   !.active = IF @ = id THEN None ELSE @,
                   !.visits = Drop(@, id)]

\* The open tab that already shows a singleton content, None if there is none.
SingletonHit(s, content) ==
    LET hits == {i \in DOMAIN s.order :
                    s.order[i] \in Open(s)
                    /\ contentMatches(getPrimaryPane(s.tabs[s.order[i]]), content)}
    IN IF hits = {} THEN None ELSE s.order[CHOOSE i \in hits : \A j \in hits : i <= j]

\* The id openSingletonTab returns when fresh is the id createTab would draw.
SingletonId(s, content, fresh) ==
    IF SingletonHit(s, content) # None THEN SingletonHit(s, content) ELSE fresh

openSingletonTab(s, content, after, fresh) ==
    IF SingletonHit(s, content) # None
    THEN setActiveTab(s, SingletonHit(s, content))
    ELSE setActiveTab(addTab(s, fresh, createTab(content), after), fresh)

\* Seeded fault: the tab keeps its old place in the order besides the new one.
BugTogglePin(s, id) ==
    IF id \notin Open(s) THEN s
    ELSE [s EXCEPT !.tabs[id].pinned = ~@, !.order = InsertAfter(@, 0, id)]

togglePin(s, id) ==
    IF id \notin Open(s) THEN s
    ELSE LET rest == Drop(s.order, id)
             normal == {i \in DOMAIN rest : ~Pinned(s, rest[i])}
             at == IF normal = {} THEN Len(rest)
                   ELSE (CHOOSE i \in normal : \A j \in normal : i <= j) - 1
         IN [s EXCEPT !.tabs[id].pinned = ~@,
                      !.order = InsertAfter(rest, at, id)]

toggleLock(s, id) ==
    IF id \notin Open(s) THEN s ELSE [s EXCEPT !.tabs[id].locked = ~@]

reorderTabs(s, order) == [s EXCEPT !.order = order]

-----------------------------------------------------------------------------
(* Pane operations, on the i-th leaf of a tab.                             *)

HasPane(s, id, i) == id \in Open(s) /\ i \in DOMAIN s.tabs[id].leaves

setPaneContent(s, id, i, content) ==
    IF ~HasPane(s, id, i) THEN s ELSE [s EXCEPT !.tabs[id].leaves[i] = content]

splitPane(s, id, i, content) ==
    IF ~HasPane(s, id, i) THEN s
    ELSE [s EXCEPT !.tabs[id].leaves = InsertAfter(@, i, content)]

\* Removing the only pane closes the tab, in the tab store alone.
closePane(s, id, i) ==
    IF ~HasPane(s, id, i) THEN s
    ELSE IF Len(s.tabs[id].leaves) = 1 THEN closeTab(s, id)
    ELSE [s EXCEPT !.tabs[id].leaves = RemoveAt(@, i)]

detachPane(s, id, i, after, fresh) ==
    IF ~HasPane(s, id, i) \/ Len(s.tabs[id].leaves) = 1 THEN s
    ELSE LET content == s.tabs[id].leaves[i]
             at == IF Position(s.order, after) = 0 THEN Len(s.order)
                   ELSE Position(s.order, after)
             kept == [s.tabs EXCEPT ![id].leaves = RemoveAt(s.tabs[id].leaves, i)]
         IN [s EXCEPT !.tabs = WithTab(kept, fresh, createTab(content)),
                      !.order = InsertAfter(@, at, fresh)]

swapPaneContent(s, id, i, j) ==
    IF ~HasPane(s, id, i) \/ ~HasPane(s, id, j) THEN s
    ELSE [s EXCEPT !.tabs[id].leaves[i] = s.tabs[id].leaves[j],
                   !.tabs[id].leaves[j] = s.tabs[id].leaves[i]]

\* The single layout keeps the first pane, a split layout the first two, with
\* a new-tab pane for a missing one.
applyLayout(s, id, panes) ==
    IF id \notin Open(s) THEN s
    ELSE [s EXCEPT !.tabs[id].leaves =
            [i \in 1..panes |-> IF i \in DOMAIN @ THEN @[i] ELSE NewTab]]

-----------------------------------------------------------------------------
(* Closed-tab history (useHistoryStore.ts).                                *)

Newest(seq, n) == IF Len(seq) > n THEN SubSeq(seq, Len(seq) - n + 1, Len(seq)) ELSE seq

\* Seeded fault: the history is not trimmed.
BugRecordClose(s, id) ==
    [s EXCEPT !.closed = Append(@, [id |-> id, tab |-> s.tabs[id], reopened |-> FALSE])]

recordClose(s, id) ==
    [s EXCEPT !.closed = Newest(Append(@, [id |-> id, tab |-> s.tabs[id], reopened |-> FALSE]),
                                CLOSED_TABS_MAX)]

\* Index of the record reopenLast takes, 0 when every record was reopened.
LastClosed(s) ==
    LET left == {i \in DOMAIN s.closed : ~s.closed[i].reopened}
    IN IF left = {} THEN 0 ELSE CHOOSE i \in left : \A j \in left : j <= i

reopenLast(s) == [s EXCEPT !.closed[LastClosed(s)].reopened = TRUE]

=============================================================================
