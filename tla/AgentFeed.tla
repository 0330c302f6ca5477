------------------------------ MODULE AgentFeed ------------------------------
(***************************************************************************)
(* What the windows of one client make of the agent events of a host: the  *)
(* agent store of each window, the record of seen events they share in     *)
(* local storage, desktop notifications and their debounce.                *)
(*                                                                         *)
(* A window handles an event in one task; reading and writing local        *)
(* storage inside it is taken as atomic.  Settings, focus and the presence *)
(* of a tab are a choice.  An event is a "hook", a "quiet" hook (marked    *)
(* silent, or an idle Notification) or the "replay" of a pane's state that *)
(* a new connection begins with.                                           *)
(***************************************************************************)
EXTENDS Integers, FiniteSets, Sequences, SequencesExt

CONSTANTS Windows, Agents,   \* windows of the client, sessions of the host
          Nobody, MaxTs, MaxFeed

ASSUME FeedAssumption == IsFiniteSet(Agents) /\ Nobody \notin Agents /\ Nobody \notin Windows

VARIABLES frames,    \* daemon: status of each session's agent, or "none"
          clock,     \* broadcast timestamps given out
          feed,      \* per window: connected, and events under way
          agent,     \* per window and session: the agent store
          active,    \* per window: session of the active tab
          seen,      \* local storage: last event dispatched, 0 when unknown
          silent,    \* per window: sessions whose errors are debounced
          removed,   \* window that removed the host with its undo, or none
          told, twice  \* events notified since the last clear, and again

feedVars == <<frames, clock, feed, agent, active, seen, silent, removed, told, twice>>

Statuses == {"running", "waiting", "idle", "error"}
NoAgent == [status |-> "none", ts |-> 0, kind |-> "none", unread |-> FALSE]
Kept == [by |-> Nobody, store |-> [s \in Agents |-> NoAgent]]

FeedInit ==
    /\ frames = [s \in Agents |-> "none"] /\ clock = 0
    /\ feed = [w \in Windows |-> [up |-> TRUE, q |-> <<>>]]
    /\ agent = [w \in Windows |-> [s \in Agents |-> NoAgent]]
    /\ active = [w \in Windows |-> Nobody]
    /\ seen = [s \in Agents |-> 0]
    /\ silent = [w \in Windows |-> {}]
    /\ removed = Kept /\ told = {} /\ twice = {}

\* The daemon derives a status from a hook and broadcasts it; "clear" ends it.
Hook(s, st, kind) ==
    LET e == [s |-> s, st |-> st, kind |-> kind, ts |-> clock + 1]
    IN /\ clock < MaxTs /\ clock' = clock + 1
       /\ (st = "clear" => frames[s] # "none" /\ kind = "hook")
       /\ \A w \in Windows : Len(feed[w].q) < MaxFeed
       /\ frames' = [frames EXCEPT ![s] = IF st = "clear" THEN "none" ELSE st]
       /\ feed' = [w \in Windows |-> IF feed[w].up THEN [feed[w] EXCEPT !.q = Append(@, e)] ELSE feed[w]]
       /\ UNCHANGED <<agent, active, seen, silent, removed, told, twice>>

-----------------------------------------------------------------------------
(* The dispatcher.  Every operator below yields a record of the shared and *)
(* of the window's own state that one task of the window leaves behind.    *)

Client(w) == [agent |-> agent[w], seen |-> seen, silent |-> silent[w], told |-> told, twice |-> twice]

\* Seeded fault: an event counts as new to every window that has not seen it.
BugShouldDispatch(c, s, ts) == c.seen[s] # 0 /\ ts >= c.seen[s]

\* The first event of a session is recorded and not dispatched.
shouldDispatch(c, s, ts) == c.seen[s] # 0 /\ ts > c.seen[s]

\* A debounced error stays silent, and starts its window again.
shouldNotify(c, e, wanted) ==
    /\ e.st \in {"waiting", "idle", "error"} /\ e.kind = "hook" /\ wanted
    /\ (e.st = "error" => e.s \notin c.silent)

\* The subscription to the last events: told when both agree.
Dispatch(c, e, wanted) ==
    LET new == shouldDispatch(c, e.s, e.ts)
        tell == new /\ shouldNotify(c, e, wanted)
    IN [agent |-> c.agent,
        seen |-> [c.seen EXCEPT ![e.s] = IF @ = 0 \/ new THEN e.ts ELSE @],
        silent |-> c.silent \cup (IF tell /\ e.st = "error" THEN {e.s} ELSE {}),
        told |-> c.told \cup (IF tell THEN {<<e.s, e.ts>>} ELSE {}),
        twice |-> c.twice \cup (IF tell /\ <<e.s, e.ts>> \in c.told THEN {e.s} ELSE {})]

\* Sessions leave the store: their debounce and their seen event go too.
Forget(c, S) ==
    LET had == {s \in S : c.agent[s].ts # 0}
    IN [agent |-> [s \in Agents |-> IF s \in S THEN NoAgent ELSE c.agent[s]],
        seen |-> [s \in Agents |-> IF s \in had THEN 0 ELSE c.seen[s]],
        silent |-> c.silent \ had,
        told |-> {x \in c.told : x[1] \notin had},
        twice |-> c.twice]

\* Seeded fault: an agent that runs again leaves its session unread.
BugUnread(e, old, isActive) == old \/ (e.st \in {"waiting", "error", "idle"} /\ ~isActive)

\* What wants attention is unread unless it is looked at; running ends that.
Unread(e, old, isActive) ==
    IF e.st = "running" THEN FALSE
    ELSE old \/ ((e.st \in {"waiting", "error"} \/ (e.st = "idle" /\ e.kind # "quiet")) /\ ~isActive)

handleNormalizedEvent(c, e, isActive, wanted) ==
    IF e.st = "clear" THEN Forget(c, {e.s})
    ELSE LET d == IF e.ts = c.agent[e.s].ts THEN c ELSE Dispatch(c, e, wanted)
         IN [d EXCEPT !.agent[e.s] = [status |-> e.st, ts |-> e.ts, kind |-> e.kind,
                                      unread |-> Unread(e, @.unread, isActive)]]

Become(w, c) ==
    /\ agent' = [agent EXCEPT ![w] = c.agent]
    /\ silent' = [silent EXCEPT ![w] = c.silent]
    /\ seen' = c.seen /\ told' = c.told /\ twice' = c.twice

Receive(w, wanted) ==
    /\ feed[w].q # <<>>
    /\ LET e == Head(feed[w].q)
       IN Become(w, handleNormalizedEvent(Client(w), e, active[w] = e.s, wanted))
    /\ feed' = [feed EXCEPT ![w].q = Tail(@)]
    /\ UNCHANGED <<frames, clock, active, removed>>

\* The sessions list, or agent.status.cleared, says the session is gone.
clearSession(w, s) ==
    /\ agent[w][s].ts # 0 /\ feed[w].up
    /\ Become(w, Forget(Client(w), {s}))
    /\ UNCHANGED <<frames, clock, feed, active, removed>>

-----------------------------------------------------------------------------
(* Connections, windows and the user.                                      *)

\* A connection breaks and what was under way is lost.
Disconnect(w) ==
    /\ feed[w].up
    /\ feed' = [feed EXCEPT ![w] = [up |-> FALSE, q |-> <<>>]]
    /\ UNCHANGED <<frames, clock, agent, active, seen, silent, removed, told, twice>>

\* A new connection begins with the state of every agent, newly stamped, in
\* whatever order.
Replays(live, t) ==
    [i \in DOMAIN live |-> [s |-> live[i], st |-> frames[live[i]], kind |-> "replay", ts |-> t]]

Connect(w) ==
    /\ ~feed[w].up /\ removed.by = Nobody /\ clock < MaxTs
    /\ clock' = clock + 1
    /\ \E live \in SetToSeqs({s \in Agents : frames[s] # "none"}) :
          feed' = [feed EXCEPT ![w] = [up |-> TRUE, q |-> Replays(live, clock + 1)]]
    /\ UNCHANGED <<frames, agent, active, seen, silent, removed, told, twice>>

\* Reloading a window loses its stores, not local storage.
Reload(w) ==
    /\ feed' = [feed EXCEPT ![w] = [up |-> FALSE, q |-> <<>>]]
    /\ agent' = [agent EXCEPT ![w] = [s \in Agents |-> NoAgent]]
    /\ silent' = [silent EXCEPT ![w] = {}]
    /\ removed' = IF removed.by = w THEN Kept ELSE removed
    /\ UNCHANGED <<frames, clock, active, seen, told, twice>>

\* The active session changes: the subscription to the tabs marks it as read.
setActive(w, s) ==
    /\ active[w] # s
    /\ active' = [active EXCEPT ![w] = s]
    /\ agent' = IF s = Nobody THEN agent ELSE [agent EXCEPT ![w][s].unread = FALSE]
    /\ UNCHANGED <<frames, clock, feed, seen, silent, removed, told, twice>>

\* A click on a notification of s in window w finds or opens its tab and marks
\* it as read, also when it was active already.
handleNotificationClick(w, s) ==
    /\ \E e \in told : e[1] = s
    /\ active' = [active EXCEPT ![w] = s]
    /\ agent' = [agent EXCEPT ![w][s].unread = FALSE]
    /\ UNCHANGED <<frames, clock, feed, seen, silent, removed, told, twice>>

WindowEnds(w, s) ==
    /\ s \in silent[w]
    /\ silent' = [silent EXCEPT ![w] = @ \ {s}]
    /\ UNCHANGED <<frames, clock, feed, agent, active, seen, removed, told, twice>>

\* Deleting the host in one window; every window closes its connection.
removeFeedHost(w) ==
    /\ removed.by = Nobody
    /\ removed' = [by |-> w, store |-> agent[w]]
    /\ Become(w, Forget(Client(w), Agents))
    /\ feed' = [x \in Windows |-> [up |-> FALSE, q |-> <<>>]]
    /\ UNCHANGED <<frames, clock, active>>

\* The undo puts the agents of the host back; the dispatcher sees their last
\* events as new ones, one session after the other.  What it does for one
\* session neither reads nor writes what it keeps of another.
undoRemove(wanted) ==
    LET old == removed.store
        back == {s \in Agents : old[s].ts # 0}
        Restored(s) == [s |-> s, st |-> old[s].status, kind |-> old[s].kind, ts |-> old[s].ts]
        c == Client(removed.by)
        d(s) == Dispatch(c, Restored(s), wanted)
    IN /\ removed.by # Nobody /\ removed' = Kept
       /\ Become(removed.by,
                 [agent |-> [s \in Agents |-> IF s \in back THEN old[s] ELSE c.agent[s]],
                  seen |-> [s \in Agents |-> IF s \in back THEN d(s).seen[s] ELSE c.seen[s]],
                  silent |-> c.silent \cup UNION {d(s).silent : s \in back},
                  told |-> c.told \cup UNION {d(s).told : s \in back},
                  twice |-> c.twice \cup UNION {d(s).twice : s \in back}])
       /\ UNCHANGED <<frames, clock, feed, active>>

FeedInput ==
    \/ \E s \in Agents : \/ \E st \in Statuses \cup {"clear"}, k \in {"hook", "quiet"} : Hook(s, st, k)
                         \/ \E w \in Windows : clearSession(w, s) \/ setActive(w, s)
                                                 \/ handleNotificationClick(w, s)
    \/ \E w \in Windows : Disconnect(w) \/ Reload(w) \/ setActive(w, Nobody) \/ removeFeedHost(w)
    \/ \E wanted \in BOOLEAN : undoRemove(wanted)

FeedProgress ==
    \E w \in Windows : \/ \E wanted \in BOOLEAN : Receive(w, wanted)
                       \/ Connect(w)
                       \/ \E s \in Agents : WindowEnds(w, s)

FeedSpec == FeedInit /\ [][FeedInput \/ FeedProgress]_feedVars

-----------------------------------------------------------------------------
(* Properties.                                                             *)

\* One event is notified once, however many windows receive it and however
\* often they reconnect or reload, as long as its session is not cleared.
NotifiedOnce == twice = {}

\* A session is unread only while its agent wants something: an agent that
\* runs again or has gone leaves no unread mark, in any window.
UnreadWantsAttention ==
    \A w \in Windows, s \in Agents : agent[w][s].unread => agent[w][s].status \in {"waiting", "idle", "error"}

\* The two promises to a user with several windows: NotifiedOnce and
\* UnreadWantsAttention.
FeedSound == NotifiedOnce /\ UnreadWantsAttention
=============================================================================
