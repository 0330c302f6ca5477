------------------------------ MODULE HostLink ------------------------------
(***************************************************************************)
(* The event connection of one host: its entry in the host store, the      *)
(* connection state machine that checks the daemon's health, the event     *)
(* socket with its ticket, the attach gate, and one terminal pane that     *)
(* waits behind the gate.  Hosts share nothing but the list they are in,   *)
(* so one host is modelled; others remain when it is removed.              *)
(*                                                                         *)
(* The epochs of the code only tell a current check, timer or ticket from  *)
(* a superseded one: here each carries a flag.                             *)
(***************************************************************************)
EXTENDS Integers, FiniteSets

CONSTANTS Endpoints, Gone,
          FastRetries,    \* checks made at once
          MaxLoops        \* bound on checks under way, superseded ones included

VARIABLES hostCfg,    \* the endpoint in the host store, or Gone
          ent,        \* entry of the connection hook, or Gone
          rt,         \* runtime of the host: status and attach gate
          term,       \* a terminal pane of the host
          up          \* the daemon is reachable

linkVars == <<hostCfg, ent, rt, term, up>>

NoRuntime == [status |-> "none", attach |-> FALSE]
NoTicket == [cur |-> FALSE, at |-> "none"]
Loop(n) == [cur |-> TRUE, n |-> n, at |-> "check", lvl |-> "none"]

\* A lazy connection: the first health check opens it.
Entry(e) == [cfg |-> e, loops |-> {Loop(0)}, req |-> NoTicket, pend |-> FALSE,
             sock |-> "none", fresh |-> FALSE, gaveUp |-> FALSE]

\* What a connection's checks and its entry can be.
Checks == [cur : BOOLEAN, n : 0..FastRetries, at : {"check", "timer"}, lvl : {"none", "unreachable", "refused"}]
Entries == [cfg : Endpoints, loops : SUBSET Checks, req : [cur : BOOLEAN, at : {"none", "wait"}], pend : BOOLEAN,
            sock : {"none", "opening", "open"}, fresh : BOOLEAN, gaveUp : BOOLEAN]

ASSUME LinkAssumption == FastRetries \in Nat \ {0} /\ Gone \notin Endpoints /\ Gone \notin Entries

LinkInit ==
    /\ hostCfg \in Endpoints /\ ent = Entry(hostCfg)
    /\ rt = NoRuntime /\ up = TRUE
    /\ term = [at |-> "waiting", url |-> hostCfg]

-----------------------------------------------------------------------------
(* ConnectionStateMachine.                                                 *)

\* trigger: what runs is superseded, its timer cleared, and checks start.
trigger(x) ==
    [x EXCEPT !.loops = {[l EXCEPT !.cur = FALSE] : l \in {k \in @ : k.at = "check"}} \cup {Loop(0)},
              !.gaveUp = FALSE]

\* connect: one attempt at a time; a ticket from the health check is used at
\* once, else one is fetched.
connect(x) ==
    IF x.req.at = "wait" THEN x
    ELSE IF x.pend THEN [x EXCEPT !.pend = FALSE, !.sock = "opening", !.fresh = FALSE]
    ELSE [x EXCEPT !.req = [cur |-> TRUE, at |-> "wait"]]

\* Seeded fault: an attempt that was superseded while it waited for its
\* ticket ends without handing over.
BugHandOver(x) == x

\* The attempt a superseded one kept from starting starts when that ends.
handOver(x) == connect(x)

supersede(x) == [x EXCEPT !.sock = "none", !.fresh = FALSE, !.req.cur = FALSE]

reconnect(x, ticket) == connect(supersede([x EXCEPT !.pend = @ \/ ticket]))

\* onStateChange: the gate is closed before a new socket is asked for.
onStateChange(x, result, ticket) ==
    /\ rt' = [status |-> IF result \in {"connected", "auth-error"} THEN result ELSE "disconnected",
              attach |-> rt.attach /\ result # "connected"]
    /\ ent' = IF result = "connected" THEN reconnect(x, ticket) ELSE x

Results == IF up THEN {"connected", "auth-error"} ELSE {"unreachable", "refused"}

\* After the fast checks the background retries begin: for ever when the
\* daemon cannot be reached, until a deadline when it refuses.
NextLoop(l, result) ==
    IF result \in {"connected", "auth-error"} THEN {}
    ELSE IF l.n < FastRetries - 1 THEN {[l EXCEPT !.n = @ + 1]}
    ELSE IF l.n = FastRetries THEN {[l EXCEPT !.at = "timer"]}
    ELSE {[l EXCEPT !.n = FastRetries, !.at = "timer", !.lvl = result]}

\* A superseded check changes nothing.
CheckAnswers(l, result, ticket) ==
    /\ ent # Gone /\ l \in ent.loops /\ l.at = "check" /\ result \in Results
    /\ (result # "connected" => ~ticket)
    /\ IF l.cur THEN onStateChange([ent EXCEPT !.loops = (@ \ {l}) \cup NextLoop(l, result)], result, ticket)
       ELSE ent' = [ent EXCEPT !.loops = @ \ {l}] /\ UNCHANGED rt
    /\ UNCHANGED <<hostCfg, term, up>>

\* The timer of the background retry, before or after the deadline.
TimerFires(l, late) ==
    /\ ent # Gone /\ l \in ent.loops /\ l.at = "timer"
    /\ late => l.lvl = "refused"
    /\ ent' = IF late THEN [ent EXCEPT !.loops = @ \ {l}, !.gaveUp = TRUE]
              ELSE [ent EXCEPT !.loops = (@ \ {l}) \cup {[l EXCEPT !.at = "check"]}]
    /\ UNCHANGED <<hostCfg, rt, term, up>>

-----------------------------------------------------------------------------
(* connectHostEvents and its callbacks in the hook.                        *)

\* The socket is gone: the gate closes and the state machine takes over.
onClose(x) == rt' = [status |-> "reconnecting", attach |-> FALSE] /\ ent' = trigger(x)

\* A ticket answers an attempt that may have been superseded meanwhile.
TicketAnswers(ok) ==
    LET x == [ent EXCEPT !.req = NoTicket]
    IN /\ ent # Gone /\ ent.req.at = "wait" /\ (ok => up)
       /\ IF ~ent.req.cur THEN ent' = handOver(x) /\ UNCHANGED rt
          ELSE IF ok THEN ent' = [x EXCEPT !.pend = FALSE, !.sock = "opening", !.fresh = FALSE] /\ UNCHANGED rt
          ELSE onClose(x)
       /\ UNCHANGED <<hostCfg, term, up>>

SockOpens ==
    /\ ent # Gone /\ ent.sock = "opening" /\ up
    /\ ent' = [ent EXCEPT !.sock = "open"]
    /\ rt' = [rt EXCEPT !.status = "connected"]
    /\ UNCHANGED <<hostCfg, term, up>>

SockCloses ==
    /\ ent # Gone /\ ent.sock \in {"opening", "open"} /\ Cardinality(ent.loops) < MaxLoops
    /\ onClose([ent EXCEPT !.sock = "none", !.fresh = FALSE])
    /\ UNCHANGED <<hostCfg, term, up>>

\* The first thing a daemon sends is its sessions: the panes are reconciled
\* with them, and only then may a terminal attach.
SessionsFrame ==
    /\ ent # Gone /\ ent.sock = "open"
    /\ ent' = [ent EXCEPT !.fresh = TRUE]
    /\ rt' = [rt EXCEPT !.attach = TRUE]
    /\ UNCHANGED <<hostCfg, term, up>>

-----------------------------------------------------------------------------
(* The host list and the effects that follow it.                           *)

updateHost(e) ==
    /\ hostCfg # e /\ hostCfg # Gone
    /\ hostCfg' = e
    /\ UNCHANGED <<ent, rt, term, up>>

\* Adding a host, or undoing its removal, which brings its pane back: the
\* effects of a click run before anything else does.
addHost(e) ==
    /\ hostCfg = Gone /\ hostCfg' = e
    /\ ent' = Entry(e) /\ rt' = [rt EXCEPT !.attach = FALSE]
    /\ term' = [at |-> "waiting", url |-> e]
    /\ UNCHANGED up

\* Deleting a host closes its panes, and its runtime and connection go.
removeHost ==
    /\ hostCfg # Gone /\ hostCfg' = Gone
    /\ ent' = Gone /\ rt' = NoRuntime
    /\ term' = [at |-> "closed", url |-> Gone]
    /\ UNCHANGED up

\* Render and effects, children first.  The pane's latch starts again with
\* another address and lets it try while the gate it sees is open.
LatchTerm ==
    IF term.url # hostCfg THEN [at |-> IF rt.attach THEN "ticket" ELSE "waiting", url |-> hostCfg]
    ELSE IF term.at = "waiting" /\ rt.attach THEN [term EXCEPT !.at = "ticket"]
    ELSE term

\* The hook replaces the connection of a changed host by a new one behind a
\* closed gate.
useMultiHostEventWs ==
    IF ent.cfg = hostCfg THEN UNCHANGED <<ent, rt>>
    ELSE ent' = Entry(hostCfg) /\ rt' = [rt EXCEPT !.attach = FALSE]

Rerender ==
    /\ ent # Gone /\ (LatchTerm # term \/ ent.cfg # hostCfg)
    /\ term' = LatchTerm
    /\ useMultiHostEventWs
    /\ UNCHANGED <<hostCfg, up>>

\* The reconnect button, of a pane that lost its socket or of the host page.
manualRetry ==
    /\ ent # Gone /\ Cardinality(ent.loops) < MaxLoops
    /\ ent' = trigger(ent)
    /\ UNCHANGED <<hostCfg, rt, term, up>>

-----------------------------------------------------------------------------
(* connectTerminal.                                                        *)

\* Seeded fault: a ticket is taken for the permission to attach.
BugCanReconnect == TRUE

canReconnect == hostCfg # Gone /\ rt.status \in {"none", "connected"} /\ rt.attach

\* The gate is asked again after the ticket was awaited.
TermTicket(ok) ==
    /\ term.at = "ticket"
    /\ term' = [term EXCEPT !.at = IF ok /\ canReconnect THEN "socket" ELSE "retry"]
    /\ UNCHANGED <<hostCfg, ent, rt, up>>

TermRetry ==
    /\ term.at = "retry" /\ canReconnect
    /\ term' = [term EXCEPT !.at = "ticket"]
    /\ UNCHANGED <<hostCfg, ent, rt, up>>

TermCloses ==
    /\ term.at = "socket"
    /\ term' = [term EXCEPT !.at = "retry"]
    /\ UNCHANGED <<hostCfg, ent, rt, up>>

\* The daemon goes away or comes back.
DaemonToggles == up' = ~up /\ UNCHANGED <<hostCfg, ent, rt, term>>

LinkInput ==
    \/ \E e \in Endpoints : updateHost(e) \/ addHost(e)
    \/ removeHost \/ manualRetry \/ DaemonToggles \/ SockCloses \/ TermCloses
    \/ TicketAnswers(FALSE) \/ TermTicket(FALSE)

Loops == IF ent = Gone THEN {} ELSE ent.loops
ChecksRun == \E l \in Loops, r \in {"connected", "auth-error", "unreachable", "refused"}, t \in BOOLEAN :
                CheckAnswers(l, r, t)
TimersRun == \E l \in Loops, late \in BOOLEAN : TimerFires(l, late)

LinkProgress ==
    \/ ChecksRun \/ TimersRun \/ TicketAnswers(up) \/ TermTicket(TRUE)
    \/ SockOpens \/ SessionsFrame \/ Rerender \/ TermRetry

LinkSpec == LinkInit /\ [][LinkInput \/ LinkProgress]_linkVars

\* Promises settle, timers fire and effects run.
LinkFairness ==
    /\ WF_linkVars(ChecksRun) /\ WF_linkVars(TimersRun) /\ WF_linkVars(TicketAnswers(up))
    /\ WF_linkVars(SockOpens) /\ WF_linkVars(Rerender)

-----------------------------------------------------------------------------
(* Properties.                                                             *)

\* A terminal attaches to a session only after the panes of its host were
\* reconciled with the sessions that the current connection, to the current
\* endpoint, has reported: codes may mean other sessions since.
AttachAfterReconcile ==
    [][term.at = "ticket" /\ term'.at = "socket" =>
          ent # Gone /\ ent.cfg = term.url /\ ent.sock = "open" /\ ent.fresh]_linkVars

\* A daemon that stays reachable is connected again and again, whatever was
\* superseded on the way, unless it refuses the token or refused for too long.
LinkRecovers ==
    <>[](up /\ ent # Gone) => []<>(ent # Gone /\ (ent.sock = "open" \/ rt.status = "auth-error" \/ ent.gaveUp))
=============================================================================
