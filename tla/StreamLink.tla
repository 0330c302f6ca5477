----------------------------- MODULE StreamLink -----------------------------
(***************************************************************************)
(* The stream connection of one session: relay events, the manager that    *)
(* opens a socket when the relay connects, the stream store, the           *)
(* conversation view and the hand-off between terminal and stream.         *)
(* Message texts, costs and models are left out; messages are "none",      *)
(* "live" or "history", the last thing that wrote them.                    *)
(***************************************************************************)
EXTENDS Integers, FiniteSets

CONSTANTS Requests,     \* control requests the relay may send
          MaxSockets    \* bound on sockets opened

ASSUME SocketsAssumption == MaxSockets \in Nat

VARIABLES relay,        \* relayStatus of the session: "absent", "off", "on"
          tickets,      \* ticket requests under way (pendingFetches)
          sockets,      \* state of each socket opened so far
          activeConn,   \* activeConns: index of the socket, 0 for none
          stream,       \* entry of the stream store
          progress,     \* handoffProgress: "none", "starting" or a stage
          daemonMode,   \* mode of the session at the daemon
          jobs,         \* requests under way: "handoff", "sessions", "history"
          asked,        \* control requests sent so far
          born          \* sockets created since the relay last connected

streamVars == <<relay, tickets, sockets, activeConn, stream, progress, daemonMode, jobs, asked, born>>

NoStream == [there |-> FALSE, conn |-> 0, ctl |-> {}, streaming |-> FALSE, msgs |-> "none"]
Live(i) == i # 0 /\ sockets[i] \in {"opening", "open"}

StreamInit ==
    /\ relay = "absent" /\ tickets = 0 /\ sockets = [i \in 1..MaxSockets |-> "unused"]
    /\ activeConn = 0 /\ stream = NoStream /\ progress = "none" /\ daemonMode = "terminal"
    /\ jobs = {} /\ asked = {} /\ born = 0

\* Closing a socket takes effect later.
Close(i) == IF Live(i) THEN [sockets EXCEPT ![i] = "closing"] ELSE sockets
setConn(i) == [stream EXCEPT !.there = TRUE, !.conn = i]

-----------------------------------------------------------------------------
(* The manager's subscription to the relay status.                         *)

\* Seeded fault: a ticket that is under way is not remembered.
BugWantTicket == tickets < 2

\* One ticket at a time, however often the relay comes and goes meanwhile.
WantTicket == tickets = 0

RelayUp ==
    /\ relay # "on" /\ relay' = "on" /\ born' = 0
    /\ IF WantTicket THEN tickets' = tickets + 1 ELSE UNCHANGED tickets
    /\ UNCHANGED <<sockets, activeConn, stream, progress, daemonMode, jobs, asked>>

RelayDown ==
    /\ relay # "off" /\ relay' = "off"
    /\ IF relay = "on" THEN sockets' = Close(activeConn) /\ activeConn' = 0 /\ stream' = setConn(0)
       ELSE UNCHANGED <<sockets, activeConn, stream>>
    /\ UNCHANGED <<tickets, progress, daemonMode, jobs, asked, born>>

\* Removing the host: the store closes what it knows, then the subscription
\* sees the relay gone, and writes the session again without a connection.
clearHost ==
    /\ relay # "absent" \/ stream.there
    /\ relay' = "absent" /\ progress' = "none"
    /\ sockets' = [i \in 1..MaxSockets |-> IF Live(i) /\ i \in {stream.conn, activeConn} THEN "closing" ELSE sockets[i]]
    /\ stream' = IF relay = "absent" THEN NoStream ELSE [NoStream EXCEPT !.there = TRUE]
    /\ activeConn' = IF relay = "absent" THEN activeConn ELSE 0
    /\ UNCHANGED <<tickets, daemonMode, jobs, asked, born>>

\* The ticket comes; a relay that has gone meanwhile gets no socket.
TicketComes(ok) ==
    /\ tickets > 0 /\ tickets' = tickets - 1
    /\ IF ok /\ relay = "on"
       THEN \E i \in 1..MaxSockets :
               /\ sockets[i] = "unused" /\ \A k \in 1..(i - 1) : sockets[k] # "unused"
               /\ sockets' = [sockets EXCEPT ![i] = "opening"]
               /\ stream' = setConn(i) /\ activeConn' = i /\ born' = born + 1
       ELSE UNCHANGED <<sockets, stream, activeConn, born>>
    /\ UNCHANGED <<relay, progress, daemonMode, jobs, asked>>

SocketOpens(i) ==
    /\ sockets[i] = "opening" /\ sockets' = [sockets EXCEPT ![i] = "open"]
    /\ UNCHANGED <<relay, tickets, activeConn, stream, progress, daemonMode, jobs, asked, born>>

\* onclose of whatever socket drops the connection of the session.
SocketCloses(i) ==
    /\ sockets[i] \in {"opening", "open", "closing"} /\ sockets' = [sockets EXCEPT ![i] = "closed"]
    /\ stream' = setConn(0) /\ activeConn' = 0
    /\ UNCHANGED <<relay, tickets, progress, daemonMode, jobs, asked, born>>

\* A message: of the conversation, the end of a turn, or a control request.
MessageComes(i, kind, r) ==
    /\ sockets[i] = "open" /\ r \notin asked
    /\ stream' = CASE kind = "message" -> [stream EXCEPT !.there = TRUE, !.msgs = "live"]
                   [] kind = "result" -> [stream EXCEPT !.there = TRUE, !.streaming = FALSE]
                   [] kind = "control" -> [stream EXCEPT !.there = TRUE, !.ctl = @ \cup {r}]
    /\ asked' = IF kind = "control" THEN asked \cup {r} ELSE asked
    /\ UNCHANGED <<relay, tickets, sockets, activeConn, progress, daemonMode, jobs, born>>

-----------------------------------------------------------------------------
(* The conversation view, shown while the relay is connected.              *)

handleSend ==
    /\ relay = "on"
    /\ stream' = [stream EXCEPT !.there = TRUE, !.msgs = "live", !.streaming = TRUE]
    /\ UNCHANGED <<relay, tickets, sockets, activeConn, progress, daemonMode, jobs, asked, born>>

\* Allow, deny or answer: the request is resolved whether or not a socket
\* could take the answer.
handleAnswer(r) ==
    /\ relay = "on" /\ r \in stream.ctl
    /\ stream' = [stream EXCEPT !.ctl = @ \ {r}]
    /\ UNCHANGED <<relay, tickets, sockets, activeConn, progress, daemonMode, jobs, asked, born>>

handleHandoff ==
    /\ "handoff" \notin jobs /\ jobs' = jobs \cup {"handoff"} /\ progress' = "starting"
    /\ UNCHANGED <<relay, tickets, sockets, activeConn, stream, daemonMode, asked, born>>

\* The daemon hands over, in either direction, or answers with an error.
HandoffAnswers(ok) ==
    /\ "handoff" \in jobs /\ jobs' = jobs \ {"handoff"}
    /\ IF ok THEN daemonMode' \in {"terminal", "stream"} /\ UNCHANGED progress
       ELSE progress' = "none" /\ UNCHANGED daemonMode
    /\ UNCHANGED <<relay, tickets, sockets, activeConn, stream, asked, born>>

\* A hand-off event: a stage, a failure, or the end of the hand-off.
HandoffEvent(value) ==
    /\ progress' = IF value = "stage" THEN value ELSE "none"
    /\ jobs' = IF value = "connected" THEN jobs \cup {"sessions"} ELSE jobs
    /\ <<progress', jobs'>> # <<progress, jobs>>
    /\ UNCHANGED <<relay, tickets, sockets, activeConn, stream, daemonMode, asked, born>>

\* The session list decides between the history and clearing the stream.
SessionsFetched ==
    /\ "sessions" \in jobs
    /\ IF daemonMode = "stream" THEN jobs' = (jobs \ {"sessions"}) \cup {"history"} /\ UNCHANGED <<sockets, stream>>
       ELSE jobs' = jobs \ {"sessions"} /\ sockets' = Close(stream.conn) /\ stream' = NoStream
    /\ UNCHANGED <<relay, tickets, activeConn, progress, daemonMode, asked, born>>

HistoryFetched(ok) ==
    /\ "history" \in jobs /\ jobs' = jobs \ {"history"}
    /\ IF ok THEN stream' = [stream EXCEPT !.there = TRUE, !.msgs = "history"] ELSE UNCHANGED stream
    /\ UNCHANGED <<relay, tickets, sockets, activeConn, progress, daemonMode, asked, born>>

StreamInput ==
    \/ RelayUp \/ RelayDown \/ clearHost \/ handleSend \/ handleHandoff
    \/ \E v \in {"stage", "failed", "connected"} : HandoffEvent(v)
    \/ \E i \in 1..MaxSockets, k \in {"message", "result", "control"}, r \in Requests : MessageComes(i, k, r)
    \/ \E r \in Requests : handleAnswer(r)

StreamProgress ==
    \/ \E ok \in BOOLEAN : TicketComes(ok) \/ HandoffAnswers(ok) \/ HistoryFetched(ok)
    \/ SessionsFetched
    \/ \E i \in 1..MaxSockets : SocketOpens(i) \/ SocketCloses(i)

StreamLinkSpec == StreamInit /\ [][StreamInput \/ StreamProgress]_streamVars

-----------------------------------------------------------------------------
(* Properties.                                                             *)

\* The relay's connection brings the session at most one socket, however
\* relay events and tickets cross, so that no message arrives twice; and the
\* socket the view sends into is the manager's own and never one the
\* application has closed.
OneStream ==
    /\ relay = "on" => born <= 1
    /\ stream.conn # 0 => stream.conn = activeConn /\ Live(stream.conn)

=============================================================================
