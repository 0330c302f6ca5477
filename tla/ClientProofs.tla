---------------------------- MODULE ClientProofs ----------------------------
(***************************************************************************)
(* Proofs about what a client shares with its hosts and its daemon, each   *)
(* for every value of its constants: its connections, which are the stream *)
(* of a session (StreamLink), the agent events in its windows (AgentFeed)  *)
(* and the event connection and terminal of a host (HostLink); its         *)
(* settings and their sync (SettingsSync) and workspace snapshots          *)
(* (WorkspaceSnapshot); and the pages that talk to a host: the resume      *)
(* templates (ResumeTemplates), the test of the status line                *)
(* (StatuslineTest), the dialog that adds a host (AddHost) and the         *)
(* performance monitor (MonitorPage).                                      *)
(***************************************************************************)
EXTENDS MCSettings, HostLink, AgentFeed, StreamLink, TLAPS, FiniteSetTheorems

(***************************************************************************)
(* The stream of a session.                                               *)
(***************************************************************************)

Streams == [there : BOOLEAN, conn : 0..MaxSockets, ctl : SUBSET Requests, streaming : BOOLEAN,
            msgs : {"none", "live", "history"}]

StreamTypeOK ==
    /\ relay \in {"absent", "off", "on"} /\ tickets \in {0, 1}
    /\ sockets \in [1..MaxSockets -> {"unused", "opening", "open", "closing", "closed"}]
    /\ activeConn \in 0..MaxSockets /\ stream \in Streams
    /\ progress \in {"none", "starting", "stage"} /\ daemonMode \in {"terminal", "stream"}
    /\ jobs \subseteq {"handoff", "sessions", "history"} /\ asked \subseteq Requests
    /\ born \in Nat

\* A ticket under way is a socket to come: together they are at most one.
OneComing == relay = "on" => tickets + born <= 1

\* The stream's connection is the manager's, and the application has not
\* closed it.
ConnIsActive == stream.conn # 0 => stream.conn = activeConn /\ Live(stream.conn)

StreamIndInv == StreamTypeOK /\ OneComing /\ ConnIsActive

\* Setting the connection of a stream yields a stream with that connection.
LEMMA SetConn ==
  ASSUME stream \in Streams, NEW i \in 0..MaxSockets
  PROVE  setConn(i) \in Streams /\ setConn(i).conn = i
  BY SocketsAssumption DEF Streams, setConn

\* Closing a socket leaves every socket in one of its states.
LEMMA CloseSockets ==
  ASSUME StreamTypeOK, NEW i \in 0..MaxSockets
  PROVE  Close(i) \in [1..MaxSockets -> {"unused", "opening", "open", "closing", "closed"}]
  BY SocketsAssumption DEF StreamTypeOK, Close, Live

\* A stream without a connection, there or not.
LEMMA NoConn ==
  /\ NoStream \in Streams /\ NoStream.conn = 0
  /\ [NoStream EXCEPT !.there = TRUE] \in Streams /\ [NoStream EXCEPT !.there = TRUE].conn = 0
  <1>1. NoStream \in Streams /\ NoStream.conn = 0 BY SocketsAssumption DEF NoStream, Streams
  <1> QED BY <1>1 DEF Streams

\* No socket is open to begin with, and no ticket under way.
LEMMA StreamInitInv == StreamInit => StreamIndInv
  BY SocketsAssumption DEF StreamInit, StreamIndInv, StreamTypeOK, Streams, OneComing, ConnIsActive, NoStream, Live

\* Every step of the relay, the manager, the view and the daemon keeps it.
LEMMA StreamNextInv ==
  ASSUME StreamIndInv, [StreamInput \/ StreamProgress]_streamVars
  PROVE  StreamIndInv'
  <1> USE SocketsAssumption
  <1> USE DEF StreamIndInv, StreamTypeOK, Streams, OneComing, ConnIsActive, Live
  <1>0. 0 \in 0..MaxSockets /\ \A i \in 1..MaxSockets : i \in 0..MaxSockets OBVIOUS
  <1>1. CASE RelayUp BY <1>1 DEF RelayUp, WantTicket
  <1>2. CASE RelayDown BY <1>0, <1>2, SetConn, CloseSockets DEF RelayDown
  <1>3. CASE clearHost
    <2>1. stream' \in Streams /\ stream'.conn = 0 BY <1>3, NoConn DEF clearHost
    <2> QED BY <1>3, <2>1 DEF clearHost
  <1>4. ASSUME NEW ok \in BOOLEAN, TicketComes(ok) PROVE StreamIndInv'
    <2>1. CASE ok /\ relay = "on"
      <3>1. PICK i \in 1..MaxSockets : sockets[i] = "unused" /\ sockets' = [sockets EXCEPT ![i] = "opening"]
                                       /\ stream' = setConn(i) /\ activeConn' = i /\ born' = born + 1
        BY <1>4, <2>1 DEF TicketComes
      <3> QED BY <1>0, <1>4, <2>1, <3>1, SetConn DEF TicketComes
    <2>2. CASE ~(ok /\ relay = "on") BY <1>4, <2>2 DEF TicketComes
    <2> QED BY <2>1, <2>2
  <1>5. ASSUME NEW i \in 1..MaxSockets, SocketOpens(i) PROVE StreamIndInv' BY <1>5 DEF SocketOpens
  <1>15. ASSUME NEW i \in 1..MaxSockets, SocketCloses(i) PROVE StreamIndInv'
    BY <1>0, <1>15, SetConn DEF SocketCloses
  <1>6. ASSUME NEW i \in 1..MaxSockets, NEW k \in {"message", "result", "control"}, NEW r \in Requests,
               MessageComes(i, k, r)
        PROVE  StreamIndInv'
    BY <1>6 DEF MessageComes
  <1>7. CASE handleSend BY <1>7 DEF handleSend
  <1>8. ASSUME NEW r \in Requests, handleAnswer(r) PROVE StreamIndInv' BY <1>8 DEF handleAnswer
  <1>9. CASE handleHandoff BY <1>9 DEF handleHandoff
  <1>10. ASSUME NEW ok \in BOOLEAN, HandoffAnswers(ok) PROVE StreamIndInv' BY <1>10 DEF HandoffAnswers
  <1>11. ASSUME NEW v \in {"stage", "failed", "connected"}, HandoffEvent(v) PROVE StreamIndInv'
    <2>1. progress' \in {"none", "starting", "stage"} BY <1>11 DEF HandoffEvent
    <2>2. jobs' \subseteq {"handoff", "sessions", "history"} BY <1>11 DEF HandoffEvent
    <2> QED BY <1>11, <2>1, <2>2 DEF HandoffEvent
  <1>12. CASE SessionsFetched
    <2>1. CASE daemonMode = "stream"
      <3>0. jobs' = (jobs \ {"sessions"}) \cup {"history"} BY <1>12, <2>1 DEF SessionsFetched
      <3>1. jobs' \subseteq {"handoff", "sessions", "history"} BY <3>0
      <3> QED BY <1>12, <2>1, <3>1 DEF SessionsFetched
    <2>2. CASE daemonMode # "stream"
      <3>1. sockets' \in [1..MaxSockets -> {"unused", "opening", "open", "closing", "closed"}]
        BY <1>12, <2>2, CloseSockets DEF SessionsFetched
      <3>2. jobs' \subseteq {"handoff", "sessions", "history"} BY <1>12, <2>2 DEF SessionsFetched
      <3>3. stream' \in Streams /\ stream'.conn = 0 BY <1>12, <2>2, NoConn DEF SessionsFetched
      <3> QED BY <1>12, <2>2, <3>1, <3>2, <3>3 DEF SessionsFetched
    <2> QED BY <2>1, <2>2
  <1>13. ASSUME NEW ok \in BOOLEAN, HistoryFetched(ok) PROVE StreamIndInv'
    <2>1. stream' \in Streams /\ stream'.conn = stream.conn
      <3>1. stream' = stream \/ stream' = [stream EXCEPT !.there = TRUE, !.msgs = "history"]
        BY <1>13 DEF HistoryFetched
      <3> QED BY <3>1
    <2>2. jobs' \subseteq {"handoff", "sessions", "history"} BY <1>13 DEF HistoryFetched
    <2> QED BY <1>13, <2>1, <2>2 DEF HistoryFetched
  <1>14. CASE UNCHANGED streamVars BY <1>14 DEF streamVars
  <1> QED BY <1>1, <1>2, <1>3, <1>4, <1>5, <1>15, <1>6, <1>7, <1>8, <1>9, <1>10, <1>11, <1>12, <1>13, <1>14
          DEF StreamInput, StreamProgress

\* One relay connection brings a session at most one socket, and the view
\* sends into the manager's own socket and never into a closed one.
THEOREM StreamAlwaysOne == StreamLinkSpec => []OneStream
  <1>1. StreamIndInv => OneStream
    BY DEF StreamIndInv, StreamTypeOK, OneComing, ConnIsActive, OneStream
  <1> QED BY <1>1, StreamInitInv, StreamNextInv, PTL DEF StreamLinkSpec

(***************************************************************************)
(* The agent events of a host in the windows of a client.                 *)
(***************************************************************************)

EventKinds == {"hook", "quiet", "replay"}
Events == [s : Agents, st : Statuses \cup {"clear"}, kind : EventKinds, ts : Nat]
AgentRecords == [status : Statuses \cup {"none"}, ts : Nat, kind : EventKinds \cup {"none"}, unread : BOOLEAN]
Stores == [Agents -> AgentRecords]
Clients == [agent : Stores, seen : [Agents -> Nat], silent : SUBSET Agents,
            told : SUBSET (Agents \X Nat), twice : SUBSET Agents]

FeedTypeOK ==
    /\ frames \in [Agents -> Statuses \cup {"none"}] /\ clock \in Nat
    /\ feed \in [Windows -> [up : BOOLEAN, q : Seq(Events)]]
    /\ agent \in [Windows -> Stores]
    /\ active \in [Windows -> Agents \cup {Nobody}]
    /\ seen \in [Agents -> Nat]
    /\ silent \in [Windows -> SUBSET Agents]
    /\ removed \in [by : Windows \cup {Nobody}, store : Stores]
    /\ told \in SUBSET (Agents \X Nat)

\* What was notified of a session is at or before the last event recorded
\* for it, so that no later dispatch takes it for a new one.
Recorded(sn, td) == \A s \in Agents, t \in Nat : <<s, t>> \in td => sn[s] # 0 /\ t <= sn[s]

\* An unread mark in a store belongs to an agent that wants something.
Attention(st) == \A s \in Agents : st[s].unread => st[s].status \in {"waiting", "idle", "error"}

\* The marks the undo of a removal brings back are as sound as those in use.
FeedIndInv ==
    /\ FeedTypeOK /\ twice = {} /\ Recorded(seen, told)
    /\ \A w \in Windows : Attention(agent[w])
    /\ Attention(removed.store)

\* What one window works with, when the invariant holds of it.
SoundClient(c) == c \in Clients /\ c.twice = {} /\ Recorded(c.seen, c.told) /\ Attention(c.agent)

\* An event under way or one the undo dispatches again.
LEMMA DispatchSound ==
  ASSUME NEW c, SoundClient(c), NEW e, e.s \in Agents, e.ts \in Nat, NEW wanted
  PROVE  LET d == Dispatch(c, e, wanted)
         IN /\ SoundClient(d) /\ d.agent = c.agent
            /\ \A s \in Agents : s # e.s => d.seen[s] = c.seen[s]
            /\ d.seen[e.s] >= c.seen[e.s] /\ (c.seen[e.s] # 0 => d.seen[e.s] # 0)
            /\ d.told \subseteq c.told \cup {<<e.s, e.ts>>}
  <1> DEFINE d == Dispatch(c, e, wanted)
             new == shouldDispatch(c, e.s, e.ts)
             tell == new /\ shouldNotify(c, e, wanted)
  <1>1. /\ d.agent = c.agent
        /\ d.seen = [c.seen EXCEPT ![e.s] = IF @ = 0 \/ new THEN e.ts ELSE @]
        /\ d.silent = c.silent \cup (IF tell /\ e.st = "error" THEN {e.s} ELSE {})
        /\ d.told = c.told \cup (IF tell THEN {<<e.s, e.ts>>} ELSE {})
        /\ d.twice = c.twice \cup (IF tell /\ <<e.s, e.ts>> \in c.told THEN {e.s} ELSE {})
        /\ d = [agent |-> d.agent, seen |-> d.seen, silent |-> d.silent, told |-> d.told, twice |-> d.twice]
    BY DEF Dispatch
  <1>2. new => c.seen[e.s] # 0 /\ e.ts > c.seen[e.s] BY DEF shouldDispatch
  <1>3. tell => new OBVIOUS
  <1> HIDE DEF d, new, tell
  <1>4. c.seen \in [Agents -> Nat] /\ c.told \subseteq Agents \X Nat /\ c.silent \subseteq Agents /\ c.agent \in Stores
    BY DEF SoundClient, Clients
  <1>5. d.seen \in [Agents -> Nat] BY <1>1, <1>4
  <1>6. /\ \A s \in Agents : s # e.s => d.seen[s] = c.seen[s]
        /\ d.seen[e.s] >= c.seen[e.s] /\ (c.seen[e.s] # 0 => d.seen[e.s] # 0)
        /\ (tell => d.seen[e.s] = e.ts /\ e.ts # 0)
    BY <1>1, <1>2, <1>3, <1>4
  <1>7. d.told \subseteq c.told \cup {<<e.s, e.ts>>} /\ d.told \subseteq Agents \X Nat BY <1>1, <1>4
  <1>8. d.twice = {}
    <2>1. ASSUME tell PROVE <<e.s, e.ts>> \notin c.told BY <2>1, <1>2, <1>3, <1>4 DEF SoundClient, Recorded
    <2> QED BY <1>1, <2>1 DEF SoundClient
  <1>9. Recorded(d.seen, d.told)
    <2> SUFFICES ASSUME NEW s \in Agents, NEW t \in Nat, <<s, t>> \in d.told
                 PROVE  d.seen[s] # 0 /\ t <= d.seen[s]
      BY DEF Recorded
    <2>1. CASE <<s, t>> \in c.told
      <3>1. c.seen[s] # 0 /\ t <= c.seen[s] BY <2>1 DEF SoundClient, Recorded
      <3>2. c.seen[s] \in Nat /\ d.seen[s] \in Nat BY <1>4, <1>5
      <3>3. d.seen[s] >= c.seen[s] /\ d.seen[s] # 0 BY <1>6, <3>1, <3>2
      <3> QED BY <3>1, <3>2, <3>3
    <2>2. CASE <<s, t>> \notin c.told
      <3>1. tell /\ s = e.s /\ t = e.ts BY <2>2, <1>1
      <3> QED BY <3>1, <1>6
    <2> QED BY <2>1, <2>2
  <1>10. d.silent \subseteq Agents BY <1>1, <1>4
  <1>11. SoundClient(d) BY <1>1, <1>4, <1>5, <1>7, <1>8, <1>9, <1>10 DEF SoundClient, Clients
  <1> QED BY <1>1, <1>6, <1>7, <1>11 DEF d

\* Sessions that leave take with them what was recorded and notified of them.
LEMMA ForgetSound ==
  ASSUME NEW c, SoundClient(c), NEW S \in SUBSET Agents
  PROVE  SoundClient(Forget(c, S))
  <1> DEFINE had == {s \in S : c.agent[s].ts # 0}
             f == Forget(c, S)
  <1>1. /\ f.agent = [s \in Agents |-> IF s \in S THEN NoAgent ELSE c.agent[s]]
        /\ f.seen = [s \in Agents |-> IF s \in had THEN 0 ELSE c.seen[s]]
        /\ f.silent = c.silent \ had
        /\ f.told = {x \in c.told : x[1] \notin had}
        /\ f.twice = c.twice
        /\ f = [agent |-> f.agent, seen |-> f.seen, silent |-> f.silent, told |-> f.told, twice |-> f.twice]
    BY DEF Forget
  <1> HIDE DEF had, f
  <1>2. c.seen \in [Agents -> Nat] /\ c.told \subseteq Agents \X Nat /\ c.silent \subseteq Agents /\ c.agent \in Stores
    BY DEF SoundClient, Clients
  <1>3. f.agent \in Stores /\ Attention(f.agent)
    <2>1. NoAgent \in AgentRecords /\ ~NoAgent.unread BY DEF NoAgent, AgentRecords
    <2> QED BY <1>1, <1>2, <2>1 DEF Stores, Attention, SoundClient
  <1>4. f.seen \in [Agents -> Nat] /\ f.silent \subseteq Agents /\ f.told \subseteq Agents \X Nat BY <1>1, <1>2
  <1>5. Recorded(f.seen, f.told)
    <2> SUFFICES ASSUME NEW s \in Agents, NEW t \in Nat, <<s, t>> \in f.told
                 PROVE  f.seen[s] # 0 /\ t <= f.seen[s]
      BY DEF Recorded
    <2>1. <<s, t>> \in c.told /\ s \notin had BY <1>1
    <2> QED BY <1>1, <2>1 DEF SoundClient, Recorded
  <1> QED BY <1>1, <1>3, <1>4, <1>5 DEF SoundClient, Clients, f

\* One task of the window for one event.
LEMMA EventSound ==
  ASSUME NEW c, SoundClient(c), NEW e \in Events, NEW isActive \in BOOLEAN, NEW wanted
  PROVE  SoundClient(handleNormalizedEvent(c, e, isActive, wanted))
  <1> DEFINE h == handleNormalizedEvent(c, e, isActive, wanted)
             d == IF e.ts = c.agent[e.s].ts THEN c ELSE Dispatch(c, e, wanted)
             r == [status |-> e.st, ts |-> e.ts, kind |-> e.kind,
                   unread |-> Unread(e, d.agent[e.s].unread, isActive)]
  <1>0. e.s \in Agents /\ e.ts \in Nat /\ e.st \in Statuses \cup {"clear"} /\ e.kind \in EventKinds BY DEF Events
  <1>1. CASE e.st = "clear" BY <1>0, <1>1, ForgetSound DEF handleNormalizedEvent
  <1>2. CASE e.st # "clear"
    <2>1. h = [d EXCEPT !.agent[e.s] = r] BY <1>2 DEF handleNormalizedEvent
    <2>2. SoundClient(d) /\ d.agent = c.agent BY <1>0, DispatchSound
    <2> HIDE DEF d, h
    <2>3. d \in Clients /\ d.agent \in Stores BY <2>2 DEF SoundClient, Clients
    <2>4. d.agent[e.s].unread \in BOOLEAN /\ (d.agent[e.s].unread => d.agent[e.s].status \in {"waiting", "idle", "error"})
      BY <1>0, <2>2, <2>3 DEF Stores, AgentRecords, SoundClient, Attention
    <2>5. r \in AgentRecords /\ (r.unread => r.status \in {"waiting", "idle", "error"})
      <3>1. Unread(e, d.agent[e.s].unread, isActive) \in BOOLEAN BY <2>4 DEF Unread
      <3>2. e.st = "running" => ~Unread(e, d.agent[e.s].unread, isActive) BY DEF Unread
      <3>3. e.st \in Statuses BY <1>0, <1>2
      <3>4. e.st # "running" => e.st \in {"waiting", "idle", "error"} BY <3>3 DEF Statuses
      <3>5. r \in AgentRecords BY <1>0, <3>1, <3>3 DEF AgentRecords
      <3> QED BY <3>2, <3>4, <3>5
    <2> HIDE DEF r
    <2>6. h.agent = [d.agent EXCEPT ![e.s] = r] /\ h.seen = d.seen /\ h.told = d.told /\ h.twice = d.twice
          /\ h \in Clients
      BY <1>0, <2>1, <2>3, <2>5 DEF Clients, Stores
    <2>7. Attention(h.agent) BY <1>0, <2>2, <2>3, <2>5, <2>6 DEF Attention, SoundClient, Stores
    <2> QED BY <2>2, <2>6, <2>7 DEF SoundClient, h
  <1> QED BY <1>1, <1>2

\* A window of a sound state works with a sound client, and puts one back.
LEMMA WindowSound ==
  ASSUME FeedIndInv, NEW w \in Windows
  PROVE  SoundClient(Client(w))
  BY DEF FeedIndInv, FeedTypeOK, SoundClient, Client, Clients

\* A window whose store becomes a sound one leaves every window typed.
LEMMA BecomeSound ==
  ASSUME FeedIndInv, NEW w \in Windows, NEW c, SoundClient(c), Become(w, c)
  PROVE  /\ agent' \in [Windows -> Stores] /\ \A x \in Windows : Attention(agent'[x])
         /\ silent' \in [Windows -> SUBSET Agents] /\ seen' \in [Agents -> Nat]
         /\ told' \in SUBSET (Agents \X Nat) /\ twice' = {} /\ Recorded(seen', told')
  BY DEF FeedIndInv, FeedTypeOK, SoundClient, Become, Clients

\* Before anything happened.
LEMMA FeedInitInv == FeedInit => FeedIndInv
  <1>1. NoAgent \in AgentRecords /\ ~NoAgent.unread BY DEF NoAgent, AgentRecords
  <1> QED BY <1>1 DEF FeedInit, FeedIndInv, FeedTypeOK, Kept, Stores, Recorded, Attention, Events

\* What happens to the connection of a window.
LEMMA FeedSteps ==
  ASSUME NEW f \in [up : BOOLEAN, q : Seq(Events)]
  PROVE  /\ \A e \in Events : [f EXCEPT !.q = Append(@, e)] \in [up : BOOLEAN, q : Seq(Events)]
         /\ f.q # <<>> => /\ Head(f.q) \in Events
                          /\ [f EXCEPT !.q = Tail(@)] \in [up : BOOLEAN, q : Seq(Events)]
  <1>1. f.q \in Seq(Events) OBVIOUS
  <1>2. \A e \in Events : Append(f.q, e) \in Seq(Events) BY <1>1
  <1>3. f.q # <<>> => Head(f.q) \in Events /\ Tail(f.q) \in Seq(Events) BY <1>1
  <1> QED BY <1>2, <1>3

\* Every step of the daemon, of a window and of its user keeps it.
LEMMA FeedNextInv ==
  ASSUME FeedIndInv, [FeedInput \/ FeedProgress]_feedVars
  PROVE  FeedIndInv'
  <1>0. /\ frames \in [Agents -> Statuses \cup {"none"}] /\ clock \in Nat
        /\ feed \in [Windows -> [up : BOOLEAN, q : Seq(Events)]]
        /\ agent \in [Windows -> Stores]
        /\ active \in [Windows -> Agents \cup {Nobody}]
        /\ silent \in [Windows -> SUBSET Agents]
        /\ removed \in [by : Windows \cup {Nobody}, store : Stores]
    BY DEF FeedIndInv, FeedTypeOK
  <1>a. NoAgent \in AgentRecords /\ ~NoAgent.unread BY DEF NoAgent, AgentRecords
  <1>1. ASSUME NEW s \in Agents, NEW st \in Statuses \cup {"clear"}, NEW k \in {"hook", "quiet"}, Hook(s, st, k)
        PROVE  FeedIndInv'
    <2> DEFINE e == [s |-> s, st |-> st, kind |-> k, ts |-> clock + 1]
    <2>1. e \in Events BY <1>0 DEF Events, EventKinds
    <2>2. feed' = [w \in Windows |-> IF feed[w].up THEN [feed[w] EXCEPT !.q = Append(@, e)] ELSE feed[w]]
      BY <1>1 DEF Hook
    <2> HIDE DEF e
    <2>3. feed' \in [Windows -> [up : BOOLEAN, q : Seq(Events)]]
      <3> DEFINE F == [up : BOOLEAN, q : Seq(Events)]
      <3>1. \A w \in Windows : feed[w] \in F /\ [feed[w] EXCEPT !.q = Append(@, e)] \in F
        BY <1>0, <2>1, FeedSteps
      <3> HIDE DEF F
      <3>2. feed' \in [Windows -> F] BY <2>2, <3>1
      <3> QED BY <3>2 DEF F
    <2>4. frames' \in [Agents -> Statuses \cup {"none"}] /\ clock' \in Nat BY <1>0, <1>1 DEF Hook
    <2> QED BY <1>1, <2>3, <2>4 DEF Hook, FeedIndInv, FeedTypeOK
  <1>2. ASSUME NEW w \in Windows, NEW wanted \in BOOLEAN, Receive(w, wanted) PROVE FeedIndInv'
    <2> DEFINE e == Head(feed[w].q)
               c == handleNormalizedEvent(Client(w), e, active[w] = e.s, wanted)
    <2>1. feed[w].q \in Seq(Events) /\ feed[w].q # <<>> BY <1>0, <1>2 DEF Receive
    <2>2. e \in Events BY <2>1
    <2>3. SoundClient(c) BY <2>2, WindowSound, EventSound
    <2>4. Become(w, c) BY <1>2 DEF Receive
    <2>5. feed' \in [Windows -> [up : BOOLEAN, q : Seq(Events)]]
      <3> DEFINE F == [up : BOOLEAN, q : Seq(Events)]
      <3>1. feed \in [Windows -> F] /\ [feed[w] EXCEPT !.q = Tail(@)] \in F BY <1>0, <2>1, FeedSteps
      <3>2. feed' = [feed EXCEPT ![w] = [feed[w] EXCEPT !.q = Tail(@)]] BY <1>2 DEF Receive
      <3> HIDE DEF F
      <3>3. feed' \in [Windows -> F] BY <3>1, <3>2
      <3> QED BY <3>3 DEF F
    <2> HIDE DEF c
    <2> QED BY <1>2, <2>3, <2>4, <2>5, BecomeSound DEF Receive, FeedIndInv, FeedTypeOK
  <1>3. ASSUME NEW w \in Windows, NEW s \in Agents, clearSession(w, s) PROVE FeedIndInv'
    <2>1. SoundClient(Forget(Client(w), {s})) BY WindowSound, ForgetSound
    <2>2. Become(w, Forget(Client(w), {s})) BY <1>3 DEF clearSession
    <2> QED BY <1>3, <2>1, <2>2, BecomeSound DEF clearSession, FeedIndInv, FeedTypeOK
  <1>4. ASSUME NEW w \in Windows, Disconnect(w) PROVE FeedIndInv'
    <2>1. [up |-> FALSE, q |-> <<>>] \in [up : BOOLEAN, q : Seq(Events)] OBVIOUS
    <2>2. feed' \in [Windows -> [up : BOOLEAN, q : Seq(Events)]] BY <1>0, <1>4, <2>1 DEF Disconnect
    <2> QED BY <1>4, <2>2 DEF Disconnect, FeedIndInv, FeedTypeOK
  <1>5. ASSUME NEW w \in Windows, Connect(w) PROVE FeedIndInv'
    <2> DEFINE L == {s \in Agents : frames[s] # "none"}
    <2>1. PICK live \in SetToSeqs(L) : feed' = [feed EXCEPT ![w] = [up |-> TRUE, q |-> Replays(live, clock + 1)]]
      BY <1>5 DEF Connect
    <2>2. Cardinality(L) \in Nat BY FeedAssumption, FS_Subset, FS_CardinalityType
    <2>3. live \in [1..Cardinality(L) -> L] BY <2>1 DEF SetToSeqs
    <2>4. \A i \in 1..Cardinality(L) : live[i] \in Agents /\ frames[live[i]] \in Statuses
      BY <1>0, <2>3
    <2>5. Replays(live, clock + 1) \in [1..Cardinality(L) -> Events]
      BY <1>0, <2>3, <2>4 DEF Replays, Events, EventKinds
    <2>6. Replays(live, clock + 1) \in Seq(Events)
      <3> DEFINE n == Cardinality(L)
      <3> HIDE DEF n
      <3>1. n \in Nat /\ Replays(live, clock + 1) \in [1..n -> Events] BY <2>2, <2>5 DEF n
      <3> QED BY <3>1
    <2>7. feed' \in [Windows -> [up : BOOLEAN, q : Seq(Events)]] BY <1>0, <2>1, <2>6
    <2>8. clock' \in Nat BY <1>0, <1>5 DEF Connect
    <2> QED BY <1>5, <2>7, <2>8 DEF Connect, FeedIndInv, FeedTypeOK
  <1>6. ASSUME NEW w \in Windows, Reload(w) PROVE FeedIndInv'
    <2>1. feed' \in [Windows -> [up : BOOLEAN, q : Seq(Events)]] BY <1>0, <1>6 DEF Reload
    <2>2. Kept \in [by : Windows \cup {Nobody}, store : Stores] /\ Attention(Kept.store)
      BY <1>a DEF Kept, Stores, Attention
    <2>3. removed' \in [by : Windows \cup {Nobody}, store : Stores] /\ Attention(removed'.store)
      BY <1>0, <1>6, <2>2 DEF Reload, FeedIndInv
    <2>4. agent' \in [Windows -> Stores] /\ \A x \in Windows : Attention(agent'[x])
      BY <1>0, <1>6, <1>a DEF Reload, FeedIndInv, Stores, Attention
    <2>5. silent' \in [Windows -> SUBSET Agents] BY <1>0, <1>6 DEF Reload
    <2> QED BY <1>6, <2>1, <2>3, <2>4, <2>5 DEF Reload, FeedIndInv, FeedTypeOK
  <1>7. ASSUME NEW w \in Windows, NEW s \in Agents, agent' = [agent EXCEPT ![w][s].unread = FALSE]
        PROVE  agent' \in [Windows -> Stores] /\ \A x \in Windows : Attention(agent'[x])
    <2>1. agent[w] \in Stores /\ agent[w][s] \in AgentRecords BY <1>0 DEF Stores
    <2>2. [agent[w][s] EXCEPT !.unread = FALSE] \in AgentRecords BY <2>1 DEF AgentRecords
    <2>3. ~[agent[w][s] EXCEPT !.unread = FALSE].unread BY <2>1 DEF AgentRecords
    <2>4. agent' = [agent EXCEPT ![w] = [agent[w] EXCEPT ![s] = [agent[w][s] EXCEPT !.unread = FALSE]]]
      BY <1>7, <1>0, <2>1
    <2> DEFINE r == [agent[w][s] EXCEPT !.unread = FALSE]
    <2> HIDE DEF r
    <2>5. agent' = [agent EXCEPT ![w] = [agent[w] EXCEPT ![s] = r]] BY <2>4 DEF r
    <2>6. r \in AgentRecords /\ ~r.unread BY <2>2, <2>3 DEF r
    <2> QED BY <1>0, <2>5, <2>6 DEF Stores, Attention, FeedIndInv
  <1>8. ASSUME NEW w \in Windows, NEW s \in Agents \cup {Nobody}, setActive(w, s) PROVE FeedIndInv'
    <2>1. agent' \in [Windows -> Stores] /\ \A x \in Windows : Attention(agent'[x])
      <3>1. CASE s = Nobody BY <1>0, <1>8, <3>1 DEF setActive, FeedIndInv
      <3>2. CASE s # Nobody BY <1>7, <1>8, <3>2 DEF setActive
      <3> QED BY <3>1, <3>2
    <2>2. active' \in [Windows -> Agents \cup {Nobody}] BY <1>0, <1>8 DEF setActive
    <2> QED BY <1>8, <2>1, <2>2 DEF setActive, FeedIndInv, FeedTypeOK
  <1>9. ASSUME NEW w \in Windows, NEW s \in Agents, handleNotificationClick(w, s) PROVE FeedIndInv'
    <2>1. agent' \in [Windows -> Stores] /\ \A x \in Windows : Attention(agent'[x])
      BY <1>7, <1>9 DEF handleNotificationClick
    <2>2. active' \in [Windows -> Agents \cup {Nobody}] BY <1>0, <1>9 DEF handleNotificationClick
    <2> QED BY <1>9, <2>1, <2>2 DEF handleNotificationClick, FeedIndInv, FeedTypeOK
  <1>10. ASSUME NEW w \in Windows, NEW s \in Agents, WindowEnds(w, s) PROVE FeedIndInv'
    <2>1. silent' \in [Windows -> SUBSET Agents] BY <1>0, <1>10 DEF WindowEnds
    <2> QED BY <1>10, <2>1 DEF WindowEnds, FeedIndInv, FeedTypeOK
  <1>11. ASSUME NEW w \in Windows, removeFeedHost(w) PROVE FeedIndInv'
    <2>1. SoundClient(Forget(Client(w), Agents)) BY WindowSound, ForgetSound
    <2>2. Become(w, Forget(Client(w), Agents)) BY <1>11 DEF removeFeedHost
    <2>3. removed' \in [by : Windows \cup {Nobody}, store : Stores] /\ Attention(removed'.store)
      BY <1>0, <1>11 DEF removeFeedHost, FeedIndInv
    <2>4. feed' \in [Windows -> [up : BOOLEAN, q : Seq(Events)]] BY <1>11 DEF removeFeedHost
    <2> QED BY <1>11, <2>1, <2>2, <2>3, <2>4, BecomeSound DEF removeFeedHost, FeedIndInv, FeedTypeOK
  <1>12. ASSUME NEW wanted \in BOOLEAN, undoRemove(wanted) PROVE FeedIndInv'
    <2> DEFINE old == removed.store
               back == {s \in Agents : old[s].ts # 0}
               Restored(s) == [s |-> s, st |-> old[s].status, kind |-> old[s].kind, ts |-> old[s].ts]
               c == Client(removed.by)
               d(s) == Dispatch(c, Restored(s), wanted)
               n == [agent |-> [s \in Agents |-> IF s \in back THEN old[s] ELSE c.agent[s]],
                     seen |-> [s \in Agents |-> IF s \in back THEN d(s).seen[s] ELSE c.seen[s]],
                     silent |-> c.silent \cup UNION {d(s).silent : s \in back},
                     told |-> c.told \cup UNION {d(s).told : s \in back},
                     twice |-> c.twice \cup UNION {d(s).twice : s \in back}]
    <2>1. removed.by \in Windows /\ removed' = Kept /\ Become(removed.by, n)
      BY <1>0, <1>12 DEF undoRemove
    <2>2. SoundClient(c) BY <2>1, WindowSound
    <2>3. old \in Stores /\ Attention(old) BY <1>0 DEF FeedIndInv
    <2>4. \A s \in back : SoundClient(d(s)) /\ d(s).told \subseteq c.told \cup {<<s, old[s].ts>>}
                          /\ d(s).seen[s] >= c.seen[s] /\ (c.seen[s] # 0 => d(s).seen[s] # 0)
      <3> TAKE s \in back
      <3>1. Restored(s).s = s /\ Restored(s).ts = old[s].ts /\ s \in Agents OBVIOUS
      <3>2. Restored(s).ts \in Nat BY <2>3, <3>1 DEF Stores, AgentRecords
      <3> QED BY <2>2, <3>1, <3>2, DispatchSound
    <2> HIDE DEF d, c
    <2>5. SoundClient(n)
      <3>1. c \in Clients /\ c.twice = {} /\ \A s \in back : d(s) \in Clients /\ d(s).twice = {}
        BY <2>2, <2>4 DEF SoundClient
      <3>2. n.agent \in Stores /\ Attention(n.agent)
        BY <2>2, <2>3, <3>1 DEF SoundClient, Clients, Stores, Attention
      <3>3. n.seen \in [Agents -> Nat] BY <3>1 DEF Clients
      <3>4. n.silent \subseteq Agents /\ n.told \subseteq Agents \X Nat /\ n.twice = {} BY <3>1 DEF Clients
      <3>5. Recorded(n.seen, n.told)
        <4> SUFFICES ASSUME NEW s \in Agents, NEW t \in Nat, <<s, t>> \in n.told
                     PROVE  n.seen[s] # 0 /\ t <= n.seen[s]
          BY DEF Recorded
        <4>0. c.seen[s] \in Nat /\ (s \in back => d(s).seen[s] \in Nat) BY <3>1 DEF Clients
        <4>1. n.seen[s] = IF s \in back THEN d(s).seen[s] ELSE c.seen[s] OBVIOUS
        <4>2. CASE <<s, t>> \in c.told
          <5>1. c.seen[s] # 0 /\ t <= c.seen[s] BY <2>2, <4>2 DEF SoundClient, Recorded
          <5>2. s \in back => d(s).seen[s] >= c.seen[s] /\ d(s).seen[s] # 0 BY <2>4, <5>1
          <5> HIDE DEF n, back
          <5> QED BY <4>0, <4>1, <5>1, <5>2
        <4>3. CASE <<s, t>> \notin c.told
          <5>1. PICK r \in back : <<s, t>> \in d(r).told BY <4>3
          <5>2. r = s BY <2>4, <4>3, <5>1
          <5>3. d(s).seen[s] # 0 /\ t <= d(s).seen[s] BY <2>4, <5>1, <5>2 DEF SoundClient, Recorded
          <5> HIDE DEF n, back
          <5> QED BY <4>1, <5>1, <5>2, <5>3
        <4> QED BY <4>2, <4>3
      <3> QED BY <3>2, <3>3, <3>4, <3>5 DEF SoundClient, Clients
    <2>6. Kept \in [by : Windows \cup {Nobody}, store : Stores] /\ Attention(Kept.store)
      BY <1>a DEF Kept, Stores, Attention
    <2> HIDE DEF n
    <2> QED BY <1>12, <2>1, <2>5, <2>6, BecomeSound DEF undoRemove, FeedIndInv, FeedTypeOK
  <1>13. CASE UNCHANGED feedVars BY <1>13 DEF feedVars, FeedIndInv, FeedTypeOK
  <1> QED BY <1>1, <1>2, <1>3, <1>4, <1>5, <1>6, <1>8, <1>9, <1>10, <1>11, <1>12, <1>13
          DEF FeedInput, FeedProgress

\* An event is notified once however many windows receive it, and an agent
\* that runs again or has gone leaves no unread mark in any window, the ones
\* the undo of a removal restores included.
THEOREM FeedAlwaysSound == FeedSpec => []FeedSound
  <1>1. FeedIndInv => FeedSound
    BY DEF FeedIndInv, FeedTypeOK, Attention, FeedSound, NotifiedOnce, UnreadWantsAttention
  <1> QED BY <1>1, FeedInitInv, FeedNextInv, PTL DEF FeedSpec

(***************************************************************************)
(* The event connection and a terminal of a host.                         *)
(***************************************************************************)

LinkTypeOK ==
    /\ hostCfg \in Endpoints \cup {Gone}
    /\ ent \in Entries \cup {Gone}
    /\ rt \in [status : {"none", "connected", "auth-error", "disconnected", "reconnecting"}, attach : BOOLEAN]
    /\ term \in [at : {"waiting", "ticket", "retry", "socket", "closed"}, url : Endpoints \cup {Gone}]
    /\ up \in BOOLEAN

\* The entry lives as long as the host, and the pane follows the endpoint of
\* the entry, not the one in the host list, which may be ahead of both.
Follows ==
    /\ hostCfg = Gone <=> ent = Gone
    /\ ent # Gone => ent.cfg = term.url

\* The gate is open only above a socket that has brought its sessions, and a
\* ticket is asked for only when there is no socket.
Gated ==
    /\ rt.attach => ent # Gone /\ ent.sock = "open" /\ ent.fresh
    /\ ent # Gone /\ ent.req.at = "wait" => ent.sock = "none"

LinkIndInv == LinkTypeOK /\ Follows /\ Gated

\* What a step makes of an entry.
Waits(x) == x.req.at = "wait" => x.sock = "none"

\* A new entry of the manager is typed and waits for no ticket.
LEMMA EntrySound ==
  ASSUME NEW e \in Endpoints
  PROVE  Entry(e) \in Entries /\ Entry(e).cfg = e /\ Waits(Entry(e))
  <1>1. Loop(0) \in Checks BY LinkAssumption DEF Loop, Checks
  <1> QED BY <1>1 DEF Entry, Entries, NoTicket, Waits

\* Starting the checks again leaves the socket and the ticket alone.
LEMMA TriggerSound ==
  ASSUME NEW x \in Entries
  PROVE  /\ trigger(x) \in Entries /\ trigger(x).cfg = x.cfg /\ trigger(x).sock = x.sock
         /\ trigger(x).fresh = x.fresh /\ trigger(x).req = x.req
  <1> DEFINE L == {[l EXCEPT !.cur = FALSE] : l \in {k \in x.loops : k.at = "check"}} \cup {Loop(0)}
  <1>1. Loop(0) \in Checks BY LinkAssumption DEF Loop, Checks
  <1>2. x.loops \subseteq Checks BY DEF Entries
  <1>3. \A l \in x.loops : [l EXCEPT !.cur = FALSE] \in Checks BY <1>2 DEF Checks
  <1>4. L \subseteq Checks BY <1>1, <1>3
  <1>5. trigger(x) = [x EXCEPT !.loops = L, !.gaveUp = FALSE] BY DEF trigger
  <1> HIDE DEF L
  <1> QED BY <1>4, <1>5 DEF Entries

\* An attempt with a ticket opens a socket; without one it asks for one.
LEMMA ConnectSound ==
  ASSUME NEW x \in Entries, Waits(x), x.sock = "none"
  PROVE  connect(x) \in Entries /\ connect(x).cfg = x.cfg /\ Waits(connect(x))
  <1>1. CASE x.req.at = "wait" BY <1>1 DEF connect
  <1>2. CASE x.req.at # "wait" /\ x.pend
    <2>1. connect(x) = [x EXCEPT !.pend = FALSE, !.sock = "opening", !.fresh = FALSE] BY <1>2 DEF connect
    <2> QED BY <1>2, <2>1 DEF Entries, Waits
  <1>3. CASE x.req.at # "wait" /\ ~x.pend
    <2> DEFINE q == [cur |-> TRUE, at |-> "wait"]
    <2>1. connect(x) = [x EXCEPT !.req = q] BY <1>3 DEF connect
    <2>2. q \in [cur : BOOLEAN, at : {"none", "wait"}] OBVIOUS
    <2> HIDE DEF q
    <2> QED BY <2>1, <2>2 DEF Entries, Waits
  <1> QED BY <1>1, <1>2, <1>3

\* A connection that is replaced loses its socket first.
LEMMA ReconnectSound ==
  ASSUME NEW x \in Entries, NEW ticket \in BOOLEAN
  PROVE  reconnect(x, ticket) \in Entries /\ reconnect(x, ticket).cfg = x.cfg /\ Waits(reconnect(x, ticket))
  <1> DEFINE y == [x EXCEPT !.pend = @ \/ ticket]
  <1>1. y \in Entries /\ y.cfg = x.cfg BY DEF Entries
  <1> HIDE DEF y
  <1>2. supersede(y) \in Entries /\ supersede(y).cfg = y.cfg /\ supersede(y).sock = "none"
    <2> DEFINE z == [y EXCEPT !.sock = "none", !.fresh = FALSE]
    <2>1. z \in Entries /\ z.cfg = y.cfg /\ z.sock = "none" /\ z.req = y.req BY <1>1 DEF Entries
    <2>2. supersede(y) = [z EXCEPT !.req = [z.req EXCEPT !.cur = FALSE]] BY <1>1 DEF supersede, Entries
    <2> HIDE DEF z
    <2>3. [z.req EXCEPT !.cur = FALSE] \in [cur : BOOLEAN, at : {"none", "wait"}] BY <2>1 DEF Entries
    <2> QED BY <2>1, <2>2, <2>3 DEF Entries
  <1> QED BY <1>1, <1>2, ConnectSound DEF reconnect, y, Waits

\* The next check, or the timer before it.
LEMMA NextLoopSound ==
  ASSUME NEW l \in Checks, NEW result \in {"connected", "auth-error", "unreachable", "refused"}
  PROVE  NextLoop(l, result) \subseteq Checks
  <1>1. l.n \in 0..FastRetries /\ FastRetries \in 0..FastRetries BY LinkAssumption DEF Checks
  <1>2. l.n < FastRetries - 1 => [l EXCEPT !.n = @ + 1] \in Checks
    <2>1. l.n < FastRetries - 1 => l.n + 1 \in 0..FastRetries BY <1>1, LinkAssumption
    <2> QED BY <2>1 DEF Checks
  <1>3. [l EXCEPT !.at = "timer"] \in Checks BY DEF Checks
  <1>4. result \in {"unreachable", "refused"} => [l EXCEPT !.n = FastRetries, !.at = "timer", !.lvl = result] \in Checks
    BY <1>1 DEF Checks
  <1> QED BY <1>2, <1>3, <1>4 DEF NextLoop

\* At the start the host has its entry, and the terminal waits.
LEMMA LinkInitInv == LinkInit => LinkIndInv
  <1> SUFFICES ASSUME LinkInit PROVE LinkIndInv OBVIOUS
  <1>1. hostCfg \in Endpoints /\ ent = Entry(hostCfg) /\ rt = NoRuntime /\ up = TRUE
        /\ term = [at |-> "waiting", url |-> hostCfg]
    BY DEF LinkInit
  <1>2. ent \in Entries /\ ent.cfg = hostCfg /\ Waits(ent) BY <1>1, EntrySound
  <1>3. ent # Gone /\ hostCfg # Gone BY <1>1, <1>2, LinkAssumption
  <1> QED BY <1>1, <1>2, <1>3 DEF LinkIndInv, LinkTypeOK, Follows, Gated, NoRuntime, Waits

\* Every step of the checks, the socket, the user and the terminal keeps it.
LEMMA LinkNextInv ==
  ASSUME LinkIndInv, [LinkInput \/ LinkProgress]_linkVars
  PROVE  LinkIndInv'
  <1> DEFINE Rts == [status : {"none", "connected", "auth-error", "disconnected", "reconnecting"}, attach : BOOLEAN]
             Terms == [at : {"waiting", "ticket", "retry", "socket", "closed"}, url : Endpoints \cup {Gone}]
  <1>0. /\ hostCfg \in Endpoints \cup {Gone} /\ ent \in Entries \cup {Gone}
        /\ rt \in Rts /\ term \in Terms /\ up \in BOOLEAN
        /\ (hostCfg = Gone <=> ent = Gone) /\ (ent # Gone => ent.cfg = term.url)
        /\ (rt.attach => ent # Gone /\ ent.sock = "open" /\ ent.fresh)
        /\ (ent # Gone => ent \in Entries /\ Waits(ent))
    BY DEF LinkIndInv, LinkTypeOK, Follows, Gated, Waits
  <1>a. \A x \in Entries : x # Gone BY LinkAssumption
  <1> HIDE DEF Rts, Terms
  \* A step within an entry: the host and the pane stay.
  <1>b. ASSUME ent # Gone, ent' \in Entries, ent'.cfg = ent.cfg, Waits(ent'), UNCHANGED <<hostCfg, term>>,
               up' \in BOOLEAN, rt' \in Rts, rt'.attach => ent'.sock = "open" /\ ent'.fresh
        PROVE  LinkIndInv'
    BY <1>0, <1>a, <1>b DEF LinkIndInv, LinkTypeOK, Follows, Gated, Waits, Rts, Terms
  \* The gate closes and the checks start again.
  <1>c. ASSUME ent # Gone, NEW x \in Entries, x.cfg = ent.cfg, Waits(x), onClose(x), UNCHANGED <<hostCfg, term, up>>
        PROVE  LinkIndInv'
    <2>1. ent' \in Entries /\ ent'.cfg = ent.cfg /\ Waits(ent') BY <1>c, TriggerSound DEF onClose, Waits
    <2>2. rt' \in Rts /\ ~rt'.attach BY <1>c DEF onClose, Rts
    <2> QED BY <1>0, <1>b, <1>c, <2>1, <2>2
  <1>1. ASSUME NEW l \in Loops, NEW r \in {"connected", "auth-error", "unreachable", "refused"}, NEW t \in BOOLEAN,
               CheckAnswers(l, r, t)
        PROVE  LinkIndInv'
    <2>1. ent # Gone /\ ent \in Entries /\ Waits(ent) /\ l \in ent.loops /\ UNCHANGED <<hostCfg, term, up>>
      BY <1>0, <1>1 DEF CheckAnswers
    <2>2. l \in Checks /\ ent.loops \subseteq Checks BY <2>1 DEF Entries
    <2>3. CASE ~l.cur
      <3>1. ent' = [ent EXCEPT !.loops = @ \ {l}] /\ UNCHANGED rt BY <1>1, <2>3 DEF CheckAnswers
      <3>2. ent' \in Entries /\ ent'.cfg = ent.cfg /\ Waits(ent') /\ ent'.sock = ent.sock /\ ent'.fresh = ent.fresh
        BY <2>1, <3>1 DEF Entries, Waits
      <3> QED BY <1>0, <1>b, <2>1, <3>1, <3>2
    <2>4. CASE l.cur
      <3> DEFINE L == (ent.loops \ {l}) \cup NextLoop(l, r)
                 x == [ent EXCEPT !.loops = L]
      <3>1. onStateChange(x, r, t) BY <1>1, <2>4 DEF CheckAnswers
      <3>2. L \subseteq Checks BY <2>2, NextLoopSound
      <3> HIDE DEF L
      <3>3. x \in Entries /\ x.cfg = ent.cfg /\ Waits(x) /\ x.sock = ent.sock /\ x.fresh = ent.fresh
        BY <2>1, <3>2 DEF Entries, Waits
      <3> HIDE DEF x
      <3>4. rt' \in Rts /\ (rt'.attach <=> rt.attach /\ r # "connected")
        <4>1. rt.attach \in BOOLEAN BY <1>0 DEF Rts
        <4> QED BY <3>1, <4>1 DEF onStateChange, Rts
      <3>5. CASE r = "connected"
        <4>1. ent' = reconnect(x, t) BY <3>1, <3>5 DEF onStateChange
        <4> QED BY <1>0, <1>b, <2>1, <3>3, <3>4, <3>5, <4>1, ReconnectSound
      <3>6. CASE r # "connected"
        <4>1. ent' = x BY <3>1, <3>6 DEF onStateChange
        <4> QED BY <1>0, <1>b, <2>1, <3>3, <3>4, <4>1
      <3> QED BY <3>5, <3>6
    <2> QED BY <2>3, <2>4
  <1>2. ASSUME NEW l \in Loops, NEW late \in BOOLEAN, TimerFires(l, late) PROVE LinkIndInv'
    <2>1. ent # Gone /\ ent \in Entries /\ Waits(ent) /\ l \in ent.loops /\ UNCHANGED <<hostCfg, rt, term, up>>
      BY <1>0, <1>2 DEF TimerFires
    <2>2. l \in Checks /\ ent.loops \subseteq Checks BY <2>1 DEF Entries
    <2>3. [l EXCEPT !.at = "check"] \in Checks BY <2>2 DEF Checks
    <2>4. ent' \in Entries /\ ent'.cfg = ent.cfg /\ ent'.req = ent.req /\ ent'.sock = ent.sock /\ ent'.fresh = ent.fresh
      <3>1. CASE late
        <4>1. ent' = [ent EXCEPT !.loops = @ \ {l}, !.gaveUp = TRUE] BY <1>2, <3>1 DEF TimerFires
        <4> QED BY <2>1, <4>1 DEF Entries
      <3>2. CASE ~late
        <4> DEFINE L == (ent.loops \ {l}) \cup {[l EXCEPT !.at = "check"]}
        <4>1. ent' = [ent EXCEPT !.loops = L] BY <1>2, <3>2 DEF TimerFires
        <4>2. L \subseteq Checks BY <2>2, <2>3
        <4> HIDE DEF L
        <4> QED BY <2>1, <4>1, <4>2 DEF Entries
      <3> QED BY <3>1, <3>2
    <2> QED BY <1>0, <1>b, <2>1, <2>4 DEF Waits
  <1>3. ASSUME NEW ok \in BOOLEAN, TicketAnswers(ok) PROVE LinkIndInv'
    <2> DEFINE x == [ent EXCEPT !.req = NoTicket]
    <2>1. ent # Gone /\ ent \in Entries /\ ent.sock = "none" /\ UNCHANGED <<hostCfg, term, up>>
      BY <1>0, <1>3 DEF TicketAnswers, Waits
    <2>2. x \in Entries /\ x.cfg = ent.cfg /\ x.sock = "none" /\ Waits(x) /\ x.req.at = "none"
      BY <2>1 DEF Entries, NoTicket, Waits
    <2>3. ~rt.attach BY <1>0, <2>1
    <2>4. CASE ~ent.req.cur
      <3>1. ent' = connect(x) /\ UNCHANGED rt BY <1>3, <2>4 DEF TicketAnswers, handOver
      <3> HIDE DEF x
      <3> QED BY <1>0, <1>b, <2>1, <2>2, <2>3, <3>1, ConnectSound
    <2>5. CASE ent.req.cur /\ ok
      <3>1. ent' = [x EXCEPT !.pend = FALSE, !.sock = "opening", !.fresh = FALSE] /\ UNCHANGED rt
        BY <1>3, <2>5 DEF TicketAnswers
      <3> HIDE DEF x
      <3>2. ent' \in Entries /\ ent'.cfg = ent.cfg /\ Waits(ent')
        BY <2>2, <3>1 DEF Entries, Waits
      <3> QED BY <1>0, <1>b, <2>1, <2>3, <3>1, <3>2
    <2>6. CASE ent.req.cur /\ ~ok
      <3>1. onClose(x) BY <1>3, <2>6 DEF TicketAnswers
      <3> QED BY <1>c, <2>1, <2>2, <3>1
    <2> QED BY <2>4, <2>5, <2>6
  <1>4. CASE SockOpens
    <2>1. ent # Gone /\ ent \in Entries /\ Waits(ent) /\ ent.sock = "opening" /\ UNCHANGED <<hostCfg, term, up>>
          /\ ent' = [ent EXCEPT !.sock = "open"] /\ rt' = [rt EXCEPT !.status = "connected"]
      BY <1>0, <1>4 DEF SockOpens
    <2>2. ent' \in Entries /\ ent'.cfg = ent.cfg /\ Waits(ent') BY <2>1 DEF Entries, Waits
    <2>3. rt' \in Rts /\ ~rt'.attach BY <1>0, <2>1 DEF Rts
    <2> QED BY <1>0, <1>b, <2>1, <2>2, <2>3
  <1>5. CASE SockCloses
    <2> DEFINE x == [ent EXCEPT !.sock = "none", !.fresh = FALSE]
    <2>1. ent # Gone /\ ent \in Entries /\ UNCHANGED <<hostCfg, term, up>> /\ onClose(x)
      BY <1>0, <1>5 DEF SockCloses
    <2>2. x \in Entries /\ x.cfg = ent.cfg /\ Waits(x) BY <2>1 DEF Entries, Waits
    <2> QED BY <1>c, <2>1, <2>2
  <1>6. CASE SessionsFrame
    <2>1. ent # Gone /\ ent \in Entries /\ Waits(ent) /\ ent.sock = "open" /\ UNCHANGED <<hostCfg, term, up>>
          /\ ent' = [ent EXCEPT !.fresh = TRUE] /\ rt' = [rt EXCEPT !.attach = TRUE]
      BY <1>0, <1>6 DEF SessionsFrame
    <2>2. ent' \in Entries /\ ent'.cfg = ent.cfg /\ Waits(ent') /\ ent'.sock = "open" /\ ent'.fresh
      BY <2>1 DEF Entries, Waits
    <2>3. rt' \in Rts BY <1>0, <2>1 DEF Rts
    <2> QED BY <1>0, <1>b, <2>1, <2>2, <2>3
  <1>7. ASSUME NEW e \in Endpoints, updateHost(e) PROVE LinkIndInv'
    BY <1>0, <1>7, LinkAssumption DEF updateHost, LinkIndInv, LinkTypeOK, Follows, Gated, Waits, Rts, Terms
  <1>8. ASSUME NEW e \in Endpoints, addHost(e) PROVE LinkIndInv'
    <2>1. ent' = Entry(e) /\ ent' \in Entries /\ ent'.cfg = e /\ Waits(ent') /\ hostCfg' = e /\ up' = up
      BY <1>8, EntrySound DEF addHost
    <2>2. rt' \in Rts /\ ~rt'.attach BY <1>0, <1>8 DEF addHost, Rts
    <2>3. term' \in Terms /\ term'.url = e BY <1>8 DEF addHost, Terms
    <2>4. ent' # Gone /\ hostCfg' # Gone BY <1>a, <2>1, LinkAssumption
    <2> QED BY <1>0, <2>1, <2>2, <2>3, <2>4 DEF LinkIndInv, LinkTypeOK, Follows, Gated, Waits, Rts, Terms
  <1>9. CASE removeHost
    <2>1. hostCfg' = Gone /\ ent' = Gone /\ up' = up BY <1>9 DEF removeHost
    <2>2. rt' \in Rts /\ ~rt'.attach BY <1>9 DEF removeHost, NoRuntime, Rts
    <2>3. term' \in Terms BY <1>9 DEF removeHost, Terms
    <2> QED BY <1>0, <2>1, <2>2, <2>3 DEF LinkIndInv, LinkTypeOK, Follows, Gated, Waits, Rts, Terms
  <1>10. CASE Rerender
    <2>1. ent # Gone /\ hostCfg \in Endpoints /\ hostCfg # Gone /\ term' = LatchTerm /\ useMultiHostEventWs /\ UNCHANGED <<hostCfg, up>>
      BY <1>0, <1>10 DEF Rerender
    <2>2. term' \in Terms /\ term'.url = hostCfg
      BY <1>0, <2>1 DEF LatchTerm, Terms
    <2>3. CASE ent.cfg = hostCfg
      BY <1>0, <2>1, <2>2, <2>3 DEF useMultiHostEventWs, LinkIndInv, LinkTypeOK, Follows, Gated, Waits, Rts, Terms
    <2>4. CASE ent.cfg # hostCfg
      <3>1. ent' \in Entries /\ ent'.cfg = hostCfg /\ Waits(ent')
        BY <2>1, <2>4, EntrySound DEF useMultiHostEventWs
      <3>2. rt' \in Rts /\ ~rt'.attach BY <1>0, <2>1, <2>4 DEF useMultiHostEventWs, Rts
      <3>3. ent' # Gone BY <1>a, <3>1
      <3> QED BY <1>0, <2>1, <2>2, <3>1, <3>2, <3>3 DEF LinkIndInv, LinkTypeOK, Follows, Gated, Waits, Rts, Terms
    <2> QED BY <2>3, <2>4
  <1>11. CASE manualRetry
    <2>1. ent # Gone /\ ent \in Entries /\ Waits(ent) /\ ent' = trigger(ent) /\ UNCHANGED <<hostCfg, rt, term, up>>
      BY <1>0, <1>11 DEF manualRetry
    <2>2. ent' \in Entries /\ ent'.cfg = ent.cfg /\ Waits(ent') /\ ent'.sock = ent.sock /\ ent'.fresh = ent.fresh
      BY <2>1, TriggerSound DEF Waits
    <2> QED BY <1>0, <1>b, <2>1, <2>2
  <1>12. ASSUME NEW ok \in BOOLEAN, TermTicket(ok) \/ TermRetry \/ TermCloses PROVE LinkIndInv'
    <2>1. UNCHANGED <<hostCfg, ent, rt, up>> BY <1>12 DEF TermTicket, TermRetry, TermCloses
    <2>2. term' \in Terms /\ term'.url = term.url
      BY <1>0, <1>12 DEF TermTicket, TermRetry, TermCloses, Terms
    <2> QED BY <1>0, <2>1, <2>2 DEF LinkIndInv, LinkTypeOK, Follows, Gated, Waits, Rts, Terms
  <1>13. CASE DaemonToggles
    BY <1>0, <1>13 DEF DaemonToggles, LinkIndInv, LinkTypeOK, Follows, Gated, Waits, Rts, Terms
  <1>14. CASE UNCHANGED linkVars
    BY <1>0, <1>14 DEF linkVars, LinkIndInv, LinkTypeOK, Follows, Gated, Waits, Rts, Terms
  <1>15. up \in BOOLEAN BY <1>0
  <1> QED BY <1>1, <1>2, <1>3, <1>4, <1>5, <1>6, <1>7, <1>8, <1>9, <1>10, <1>11, <1>12, <1>13, <1>14, <1>15
          DEF LinkInput, LinkProgress, ChecksRun, TimersRun

\* A terminal attaches only behind the gate of the current connection, to the
\* endpoint that connection has reported the sessions of, whatever was edited,
\* replaced or removed while the terminal waited for its ticket.
THEOREM AttachedAfterReconcile == LinkSpec => AttachAfterReconcile
  <1>1. ASSUME LinkIndInv, [LinkInput \/ LinkProgress]_linkVars, term.at = "ticket", term'.at = "socket"
        PROVE  ent # Gone /\ ent.cfg = term.url /\ ent.sock = "open" /\ ent.fresh
    <2>1. rt.attach
      <3>1. ASSUME NEW e \in Endpoints, updateHost(e) \/ addHost(e) PROVE FALSE
        BY <1>1, <3>1 DEF updateHost, addHost
      <3>2. term' = term \/ term' = LatchTerm \/ term'.at \in {"closed", "ticket", "retry"} \/ TermTicket(TRUE)
        <4> DEFINE Ok == term' = term \/ term' = LatchTerm \/ term'.at \in {"closed", "ticket", "retry"} \/ TermTicket(TRUE)
        <4>1. removeHost \/ TermRetry \/ TermCloses \/ TermTicket(FALSE) => Ok
          BY <1>1 DEF removeHost, TermRetry, TermCloses, TermTicket, LinkIndInv, LinkTypeOK
        <4>2. manualRetry \/ DaemonToggles \/ SockCloses \/ SockOpens \/ SessionsFrame \/ UNCHANGED linkVars => Ok
          BY DEF manualRetry, DaemonToggles, SockCloses, SockOpens, SessionsFrame, linkVars
        <4>3. TicketAnswers(FALSE) \/ TicketAnswers(up) => Ok BY DEF TicketAnswers
        <4>4. Rerender => Ok BY DEF Rerender
        <4>5. ChecksRun \/ TimersRun => Ok BY DEF ChecksRun, TimersRun, CheckAnswers, TimerFires
        <4> HIDE DEF Ok
        <4>6. TermTicket(TRUE) => Ok BY DEF Ok
        <4>7. Ok BY <1>1, <3>1, <4>1, <4>2, <4>3, <4>4, <4>5, <4>6 DEF LinkInput, LinkProgress
        <4> QED BY <4>7 DEF Ok
      <3>3. LatchTerm.at # "socket"
        BY <1>1 DEF LatchTerm, LinkIndInv, LinkTypeOK
      <3>4. TermTicket(TRUE) => rt.attach BY <1>1 DEF TermTicket, canReconnect, LinkIndInv, LinkTypeOK
      <3> QED BY <1>1, <3>2, <3>3, <3>4
    <2> QED BY <1>1, <2>1 DEF LinkIndInv, Follows, Gated
  <1>2. LinkIndInv /\ [LinkInput \/ LinkProgress]_linkVars
        => [term.at = "ticket" /\ term'.at = "socket" =>
              ent # Gone /\ ent.cfg = term.url /\ ent.sock = "open" /\ ent.fresh]_linkVars
    BY <1>1
  <1> QED BY <1>2, LinkInitInv, LinkNextInv, PTL DEF LinkSpec, AttachAfterReconcile

-----------------------------------------------------------------------------
(* Settings sync.  The safety snapshot of an operation under way is the   *)
(* newest there is, since nothing takes another one meanwhile; so neither *)
(* the compactions that have decided before it was taken nor those that   *)
(* decide later evict it.                                                 *)

Bundles == UNION {[D -> Values] : D \in SUBSET Fields}
Pendings == [fields : SUBSET Fields, b : Bundles]
Providers == {"off", "daemon", "file"}
SyStores ==
    [data : [Fields -> Values], token : {Token, Null}, home : SUBSET Values, last : Bundles \cup {Null}, provider : Providers,
     enabled : SUBSET Mods, pending : Pendings \cup {Null}, edited : SUBSET Fields, unpushed : Bundles \cup {Null}]

SnapRecs == [id : Nat, ts : Nat, b : Bundles, trigger : {"manual", "pre"}, pristine : BOOLEAN]
CompactJobs == [at : {"list", "delete"}, evict : SUBSET Nat, by : Nat]
Libs == [snaps : SUBSET SnapRecs, next : Nat, compact : SUBSET CompactJobs]

Pulls == [at : {"pull"}, last : Bundles \cup {Null}, ms : SUBSET Mods]
Pushes == [at : {"push"}, b : Bundles, last : Bundles \cup {Null}]
Imports ==
    [at : {"import"}, b : Bundles, last : Bundles \cup {Null}, ms : SUBSET Mods, p : Providers, pre : Nat]
Restores == [at : {"restore"}, m : SnapRecs, pre : Nat]

SyncTyped ==
    /\ sy \in SyStores /\ srv \in Bundles \cup {Null} /\ lib \in Libs /\ now \in Nat
    /\ op \in {Standby} \cup Pulls \cup Pushes \cup Imports \cup Restores

\* Snapshots have numbers of their own, given out before the next one, and so
\* have those a compaction is about to delete; one is of the session's start.
LibSound(l) ==
    /\ \A m, n \in l.snaps : m.id = n.id => m = n
    /\ \A m \in l.snaps : m.id < l.next
    /\ \A j \in l.compact : \A i \in j.evict : i < l.next
    /\ \A m, n \in l.snaps : m.pristine /\ n.pristine => m = n

\* Snapshot p is a safety snapshot, the newest, and nothing is to delete it.
Safe(l, p) ==
    /\ \E m \in l.snaps : m.id = p /\ m.trigger = "pre" /\ ~m.pristine
    /\ p + 1 = l.next /\ \A j \in l.compact : p \notin j.evict

Guards(o, l) == o.at \in {"import", "restore"} /\ o.pre # 0 => Safe(l, o.pre)

TokenTrue(s) == s.token # Null => s.data[HostField] \in s.home

SyncInv == SyncTyped /\ TokenTrue(sy) /\ LibSound(lib) /\ lib.next # 0 /\ Guards(op, lib)

\* A function on fields is a bundle.
LEMMA IsBundle ==
    ASSUME NEW D \in SUBSET Fields, NEW f \in [D -> Values]
    PROVE  f \in Bundles /\ DOMAIN f = D
  BY DEF Bundles

\* A bundle has values for its fields.
LEMMA BundleParts ==
    ASSUME NEW b \in Bundles
    PROVE  DOMAIN b \subseteq Fields /\ b \in [DOMAIN b -> Values] /\ \A f \in DOMAIN b : b[f] \in Values
  BY DEF Bundles

\* What the settings of modules serialize to.
LEMMA Serialized ==
    ASSUME NEW s \in SyStores, NEW ms \in SUBSET Mods
    PROVE  serialize(s, ms) \in Bundles
  <1>1. serialize(s, ms) \in [FieldsOf(ms) -> Values] /\ FieldsOf(ms) \in SUBSET Fields
    BY DEF serialize, FieldsOf, SyStores
  <1> QED BY <1>1, IsBundle

\* Replacing settings keeps the token true, and changes nothing else.
LEMMA Replaced ==
    ASSUME NEW s \in SyStores, NEW b \in Bundles, TokenTrue(s)
    PROVE  LET z == fullReplace(s, b)
           IN /\ z \in SyStores /\ TokenTrue(z)
              /\ \A f \in Fields : z.data[f] = IF f \in DOMAIN b THEN b[f] ELSE s.data[f]
  <1> DEFINE d == [f \in Fields |-> IF f \in DOMAIN b THEN b[f] ELSE s.data[f]]
             k == mergeHosts(s, d)
             h == IF k = Null THEN {} ELSE s.home
             e == s.edited \ DOMAIN b
  <1>1. d \in [Fields -> Values]
    BY BundleParts DEF SyStores
  <1>2. k \in {Token, Null} /\ h \in SUBSET Values /\ (k # Null => d[HostField] \in h)
    BY <1>1, SyncAssumption DEF mergeHosts, TokenTrue, SyStores
  <1>3. fullReplace(s, b) = [s EXCEPT !.data = d, !.token = k, !.edited = e, !.home = h]
    BY DEF fullReplace
  <1>4. e \in SUBSET Fields /\ \A f \in Fields : d[f] = IF f \in DOMAIN b THEN b[f] ELSE s.data[f]
    BY DEF SyStores
  <1> HIDE DEF d, k, e, h
  <1>5. [s EXCEPT !.data = d, !.token = k, !.edited = e, !.home = h] \in SyStores
    BY <1>1, <1>2, <1>4 DEF SyStores
  <1>6. /\ [s EXCEPT !.data = d, !.token = k, !.edited = e, !.home = h].data = d
        /\ [s EXCEPT !.data = d, !.token = k, !.edited = e, !.home = h].token = k
        /\ [s EXCEPT !.data = d, !.token = k, !.edited = e, !.home = h].home = h
    BY DEF SyStores
  <1> QED BY <1>2, <1>3, <1>4, <1>5, <1>6 DEF TokenTrue

\* A pull leaves alone what the user has changed since the baseline.
LEMMA Pulled ==
    ASSUME NEW s \in SyStores, NEW last \in Bundles, NEW b \in Bundles, NEW ms \in SUBSET Mods, TokenTrue(s)
    PROVE  LET z == pull(s, last, b, ms)
           IN /\ z \in SyStores /\ TokenTrue(z)
              /\ \A f \in Fields : Covers(last, Owner[f]) /\ s.data[f] # last[f] => z.data[f] = s.data[f]
  <1> DEFINE both == {f \in DOMAIN b : Owner[f] \in ms}
             clash == {Owner[f] : f \in Conflicts(s, last, b, ms)}
             D == {g \in both : Owner[g] \notin clash}
             merged == [f \in D |-> IF Covers(last, Owner[f]) THEN mergeCollection(last[f], s.data[f], b[f]) ELSE b[f]]
  <1>1. D \in SUBSET Fields
    BY BundleParts
  <1>2. ASSUME NEW f \in D PROVE merged[f] \in Values
    <2>1. b[f] \in Values /\ s.data[f] \in Values
      BY <1>1, BundleParts DEF SyStores
    <2> QED BY <2>1 DEF mergeCollection
  <1>3. merged \in Bundles /\ DOMAIN merged = D
    <2>1. merged \in [D -> Values]
      BY <1>2
    <2> HIDE DEF merged, D
    <2> QED BY <1>1, <2>1, IsBundle
  <1>4. ASSUME NEW f \in D, Covers(last, Owner[f]), s.data[f] # last[f] PROVE merged[f] = s.data[f]
    <2>1. f \in DOMAIN b \cap FieldsOf(ms) /\ f \notin Conflicts(s, last, b, ms)
      BY <1>1 DEF FieldsOf
    <2>2. ~detectConflict(last[f], s.data[f], b[f])
      BY <1>4, <2>1 DEF Conflicts
    <2> QED BY <1>4, <2>2 DEF detectConflict, mergeCollection
  <1>5. pull(s, last, b, ms) = fullReplace(s, merged)
    BY DEF pull
  <1> HIDE DEF merged, D
  <1> QED BY <1>3, <1>4, <1>5, Replaced

\* The first pull replaces whole modules.
LEMMA PulledFirst ==
    ASSUME NEW s \in SyStores, NEW b \in Bundles, NEW ms \in SUBSET Mods, TokenTrue(s)
    PROVE  pullFirst(s, b, ms) \in SyStores /\ TokenTrue(pullFirst(s, b, ms))
  <1> DEFINE f == [x \in DOMAIN b \cap FieldsOf(ms) |-> b[x]]
  <1>1. DOMAIN b \cap FieldsOf(ms) \in SUBSET Fields /\ f \in [DOMAIN b \cap FieldsOf(ms) -> Values]
    BY BundleParts
  <1>2. f \in Bundles
    BY <1>1, IsBundle
  <1>3. pullFirst(s, b, ms) = fullReplace(s, f)
    BY DEF pullFirst
  <1> HIDE DEF f
  <1> QED BY <1>2, <1>3, Replaced

\* A baseline that advances in part is a bundle.
LEMMA PartialBaseline ==
    ASSUME NEW last \in Bundles \cup {Null}, NEW b \in Bundles, NEW conflicts
    PROVE  buildPartialBaseline(last, b, conflicts) \in Bundles
  <1> DEFINE clash == {Owner[f] : f \in conflicts}
             moved == {f \in DOMAIN b : Owner[f] \notin clash}
             prev == IF last = Null THEN {} ELSE DOMAIN last
             g == [f \in moved \cup prev |-> IF f \in moved THEN b[f] ELSE last[f]]
  <1>1. moved \cup prev \in SUBSET Fields
    BY BundleParts
  <1>2. ASSUME NEW f \in moved \cup prev PROVE g[f] \in Values
    BY BundleParts
  <1>3. g \in [moved \cup prev -> Values]
    BY <1>2
  <1>4. buildPartialBaseline(last, b, conflicts) = g
    BY DEF buildPartialBaseline
  <1> HIDE DEF g, moved, prev
  <1> QED BY <1>1, <1>3, <1>4, IsBundle

\* Conflicts that wait for the user change no setting.
LEMMA PendingSet ==
    ASSUME NEW s \in SyStores, NEW b \in Bundles, NEW conflicts \in SUBSET Fields, TokenTrue(s)
    PROVE  LET z == setPendingConflicts(s, b, conflicts)
           IN z \in SyStores /\ TokenTrue(z) /\ z.data = s.data
  <1> DEFINE D == {g \in DOMAIN b : \E c \in conflicts : Owner[c] = Owner[g]}
             f == [x \in D |-> b[x]]
             w == [fields |-> conflicts, b |-> f]
  <1>1. D \in SUBSET Fields /\ f \in [D -> Values]
    BY BundleParts
  <1>2. f \in Bundles
    BY <1>1, IsBundle
  <1> HIDE DEF f
  <1>3. w \in Pendings
    BY <1>2 DEF Pendings
  <1>4. setPendingConflicts(s, b, conflicts) = [s EXCEPT !.pending = w]
    BY DEF setPendingConflicts, f
  <1> HIDE DEF w
  <1>5. /\ [s EXCEPT !.pending = w] \in SyStores /\ [s EXCEPT !.pending = w].data = s.data
        /\ [s EXCEPT !.pending = w].token = s.token /\ [s EXCEPT !.pending = w].home = s.home
    BY <1>3 DEF SyStores
  <1> QED BY <1>4, <1>5 DEF TokenTrue

\* A snapshot that is taken has a number of its own; a safety snapshot is safe.
LEMMA Created ==
    ASSUME NEW l \in Libs, LibSound(l), NEW b \in Bundles, NEW why \in {"manual", "pre"}, now \in Nat
    PROVE  LET z == createSnapshot(l, b, why)
           IN z \in Libs /\ LibSound(z) /\ z.next = l.next + 1 /\ (why = "pre" => Safe(z, l.next))
  <1> DEFINE r == [id |-> l.next, ts |-> now, b |-> b, trigger |-> why, pristine |-> FALSE]
             j == [at |-> "list", evict |-> {}, by |-> l.next]
             S == l.snaps \cup {r}
             J == l.compact \cup {j}
             z == [l EXCEPT !.snaps = S, !.next = l.next + 1, !.compact = J]
  <1>1. l.next \in Nat /\ l.snaps \subseteq SnapRecs /\ l.compact \subseteq CompactJobs
    BY DEF Libs
  <1>2. r \in SnapRecs /\ r.id = l.next /\ r.trigger = why /\ ~r.pristine
    BY <1>1 DEF SnapRecs
  <1>3. j \in CompactJobs /\ j.evict = {}
    BY <1>1 DEF CompactJobs
  <1>4. createSnapshot(l, b, why) = z
    BY DEF createSnapshot
  <1> HIDE DEF r, j
  <1>5. z \in Libs /\ z.snaps = S /\ z.next = l.next + 1 /\ z.compact = J
    <2>1. S \in SUBSET SnapRecs /\ J \in SUBSET CompactJobs /\ l.next + 1 \in Nat
      BY <1>1, <1>2, <1>3
    <2> HIDE DEF S, J
    <2> QED BY <2>1 DEF Libs
  <1> HIDE DEF z
  <1>6. LibSound(z)
    <2>1. \A m \in l.snaps : m.id \in Nat /\ m.id < l.next
      BY <1>1 DEF LibSound, SnapRecs
    <2>2. \A k \in l.compact : k.evict \subseteq Nat
      BY <1>1 DEF CompactJobs
    <2> QED BY <1>1, <1>2, <1>3, <1>5, <2>1, <2>2 DEF LibSound
  <1>7. ASSUME why = "pre" PROVE Safe(z, l.next)
    BY <1>1, <1>2, <1>3, <1>5, <1>7 DEF LibSound, Safe
  <1> QED BY <1>4, <1>5, <1>6, <1>7

\* A new session demotes the snapshots of the earlier ones.
LEMMA Rotated ==
    ASSUME NEW l \in Libs, LibSound(l), NEW b \in Bundles, now \in Nat
    PROVE  LET z == rotateSessionPristine(l, b)
           IN z \in Libs /\ LibSound(z) /\ z.next = l.next + 1
  <1> DEFINE r == [id |-> l.next, ts |-> now, b |-> b, trigger |-> "pre", pristine |-> TRUE]
             j == [at |-> "list", evict |-> {}, by |-> l.next]
             T == {[m EXCEPT !.pristine = FALSE] : m \in l.snaps}
             J == l.compact \cup {j}
             z == [l EXCEPT !.snaps = T \cup {r}, !.next = l.next + 1, !.compact = J]
  <1>1. l.next \in Nat /\ l.snaps \subseteq SnapRecs /\ l.compact \subseteq CompactJobs
    BY DEF Libs
  <1>2. r \in SnapRecs /\ r.id = l.next
    BY <1>1 DEF SnapRecs
  <1>3. j \in CompactJobs /\ j.evict = {}
    BY <1>1 DEF CompactJobs
  <1>4. rotateSessionPristine(l, b) = z
    BY DEF rotateSessionPristine
  <1>5. \A m \in T : m \in SnapRecs /\ ~m.pristine /\ \E x \in l.snaps : m = [x EXCEPT !.pristine = FALSE] /\ m.id = x.id
    BY <1>1 DEF SnapRecs
  <1> HIDE DEF r, j, T
  <1>6. z \in Libs /\ z.snaps = T \cup {r} /\ z.next = l.next + 1 /\ z.compact = J
    <2> DEFINE S == T \cup {r}
    <2>1. S \in SUBSET SnapRecs /\ J \in SUBSET CompactJobs /\ l.next + 1 \in Nat
      BY <1>1, <1>2, <1>3, <1>5
    <2>2. z = [l EXCEPT !.snaps = S, !.next = l.next + 1, !.compact = J]
      OBVIOUS
    <2> HIDE DEF S, J, z
    <2>3. z \in Libs /\ z.snaps = S /\ z.next = l.next + 1 /\ z.compact = J
      BY <2>1, <2>2 DEF Libs
    <2> QED BY <2>3 DEF S
  <1> HIDE DEF z
  <1>7. LibSound(z)
    <2>1. \A m \in l.snaps : m.id \in Nat /\ m.id < l.next
      BY <1>1 DEF LibSound, SnapRecs
    <2>2. \A k \in l.compact : k.evict \subseteq Nat
      BY <1>1 DEF CompactJobs
    <2>3. \A m \in T : m.id \in Nat /\ m.id < l.next
      BY <1>5, <2>1
    <2>4. \A m, n \in T : m.id = n.id => m = n
      BY <1>5 DEF LibSound
    <2>5. \A m, n \in T \cup {r} : m.id = n.id => m = n
      BY <1>1, <1>2, <2>3, <2>4
    <2>6. \A m, n \in T \cup {r} : m.pristine /\ n.pristine => m = n
      BY <1>5
    <2>7. \A m \in T \cup {r} : m.id < l.next + 1
      BY <1>1, <1>2, <2>3
    <2>8. \A k \in J : \A i \in k.evict : i < l.next + 1
      BY <1>1, <1>3, <2>2 DEF LibSound
    <2> QED BY <1>6, <2>5, <2>6, <2>7, <2>8 DEF LibSound
  <1> QED BY <1>4, <1>6, <1>7

\* A compaction that decides now keeps the newest safety snapshot.
LEMMA NewestKept ==
    ASSUME NEW l \in Libs, LibSound(l), NEW p \in Nat, Safe(l, p)
    PROVE  p \notin {m.id : m \in computeCompaction(l.snaps)}
  <1> DEFINE S == {m \in {x \in l.snaps : isPreOp(x)} : ~m.pristine}
  <1>1. \A m \in l.snaps : m.id \in Nat /\ m.id < l.next /\ l.next = p + 1
    BY DEF LibSound, Safe, Libs, SnapRecs
  <1>2. PICK w \in l.snaps : w.id = p /\ w.trigger = "pre" /\ ~w.pristine
    BY DEF Safe
  <1>3. w \in S
    BY <1>2 DEF isPreOp
  <1>4. {x \in S : x.id > w.id} = {}
    BY <1>1, <1>2
  <1>5. Cardinality({x \in S : x.id > w.id}) < PreOpMax
    BY <1>4, FS_EmptySet, SyncAssumption
  <1>6. w \in KeptPreOp(S)
    BY <1>3, <1>5 DEF KeptPreOp, NewestOf
  <1>7. w \notin computeCompaction(l.snaps)
    BY <1>6 DEF computeCompaction
  <1>8. computeCompaction(l.snaps) \subseteq l.snaps
    BY DEF computeCompaction
  <1> QED BY <1>2, <1>7, <1>8 DEF LibSound

\* A compaction decides, or deletes what it has decided.
LEMMA CompactKeeps ==
    ASSUME SyncInv, NEW j \in lib.compact, CompactList(j) \/ CompactDelete(j)
    PROVE  SyncInv'
  <1>1. /\ lib \in Libs /\ LibSound(lib) /\ lib.snaps \subseteq SnapRecs /\ lib.compact \subseteq CompactJobs
        /\ lib.next \in Nat /\ UNCHANGED <<sy, op, srv, now>>
    BY DEF SyncInv, SyncTyped, Libs, CompactList, CompactDelete
  <1>2. CASE CompactList(j)
    <2> DEFINE e == {m.id : m \in computeCompaction(lib.snaps)}
               k == [j EXCEPT !.at = "delete", !.evict = e]
               J == (lib.compact \ {j}) \cup {k}
    <2>1. computeCompaction(lib.snaps) \subseteq lib.snaps
      BY DEF computeCompaction
    <2>2. e \subseteq Nat /\ \A i \in e : i < lib.next
      BY <1>1, <2>1 DEF SnapRecs, LibSound
    <2>3. ASSUME NEW p \in Nat, Safe(lib, p) PROVE p \notin e
      BY <1>1, <2>3, NewestKept
    <2>4. lib' = [lib EXCEPT !.compact = J]
      BY <1>2 DEF CompactList
    <2> HIDE DEF e
    <2>5. k \in CompactJobs /\ k.evict = e
      BY <1>1, <2>2 DEF CompactJobs
    <2> HIDE DEF k
    <2>6. lib' \in Libs /\ lib'.snaps = lib.snaps /\ lib'.next = lib.next /\ lib'.compact = J
      BY <1>1, <2>4, <2>5 DEF Libs
    <2>7. LibSound(lib')
      BY <1>1, <2>2, <2>5, <2>6 DEF LibSound
    <2>8. Guards(op, lib')
      <3>1. SUFFICES ASSUME op.at \in {"import", "restore"}, op.pre # 0 PROVE Safe(lib', op.pre)
        BY DEF Guards
      <3>2. Safe(lib, op.pre) /\ op.pre \in Nat
        BY <3>1 DEF SyncInv, SyncTyped, Guards, Imports, Restores, Standby, Pulls, Pushes
      <3> QED BY <2>3, <2>5, <2>6, <3>2 DEF Safe
    <2> QED BY <1>1, <2>6, <2>7, <2>8 DEF SyncInv, SyncTyped
  <1>3. CASE CompactDelete(j)
    <2> DEFINE S == {m \in lib.snaps : m.id \notin j.evict}
               J == lib.compact \ {j}
    <2>1. lib' = [lib EXCEPT !.snaps = S, !.compact = J]
      BY <1>3 DEF CompactDelete
    <2>2. lib' \in Libs /\ lib'.snaps = S /\ lib'.next = lib.next /\ lib'.compact = J
      BY <1>1, <2>1 DEF Libs
    <2>3. LibSound(lib')
      BY <1>1, <2>2 DEF LibSound
    <2>4. Guards(op, lib')
      BY <2>2 DEF SyncInv, Guards, Safe
    <2> QED BY <1>1, <2>2, <2>3, <2>4 DEF SyncInv, SyncTyped
  <1> QED BY <1>2, <1>3

\* Before anything happened.
LEMMA SyncStart ==
    ASSUME SyncInit
    PROVE  SyncInv
  <1>0. PICK v \in Values : \E i \in {Fresh, Synced(v)} :
            /\ sy = [data |-> [f \in Fields |-> v], token |-> Token, home |-> {v}, last |-> i.last, provider |-> i.provider,
                     enabled |-> i.enabled, pending |-> Null, edited |-> {}, unpushed |-> Null]
            /\ srv = i.srv
    BY DEF SyncInit
  <1>1. PICK i \in {Fresh, Synced(v)} :
            /\ sy = [data |-> [f \in Fields |-> v], token |-> Token, home |-> {v}, last |-> i.last, provider |-> i.provider,
                     enabled |-> i.enabled, pending |-> Null, edited |-> {}, unpushed |-> Null]
            /\ srv = i.srv
    BY <1>0
  <1> DEFINE d == [f \in Fields |-> v]
  <1>2. d \in [Fields -> Values] /\ d[HostField] = v
    BY SyncAssumption
  <1>3. d \in Bundles
    BY <1>2, IsBundle
  <1>4. i.last \in Bundles \cup {Null} /\ i.srv \in Bundles \cup {Null} /\ i.provider \in Providers /\ i.enabled \subseteq Mods
    BY <1>3 DEF Fresh, Synced, Providers
  <1>5. sy = [data |-> d, token |-> Token, home |-> {v}, last |-> i.last, provider |-> i.provider,
              enabled |-> i.enabled, pending |-> Null, edited |-> {}, unpushed |-> Null]
    BY <1>1
  <1> HIDE DEF d
  <1>6. sy \in SyStores /\ TokenTrue(sy)
    BY <1>2, <1>4, <1>5 DEF SyStores, TokenTrue
  <1>7. lib \in Libs /\ LibSound(lib) /\ lib.next # 0 /\ now \in Nat
    BY DEF SyncInit, Libs, LibSound
  <1>8. op = Standby /\ op.at = "standby"
    BY DEF SyncInit, Standby
  <1> QED BY <1>1, <1>4, <1>6, <1>7, <1>8 DEF SyncInv, SyncTyped, Guards

\* What an operation under way consists of.
LEMMA OpParts ==
    ASSUME SyncTyped
    PROVE  /\ op.at = "pull" => op \in Pulls
           /\ op.at = "push" => op \in Pushes
           /\ op.at = "import" => op \in Imports
           /\ op.at = "restore" => op \in Restores
           /\ op = Standby => op.at = "standby"
  BY DEF SyncTyped, Standby, Pulls, Pushes, Imports, Restores

\* A step that leaves the snapshots and the operation alone.
LEMMA Local ==
    ASSUME SyncInv, sy' \in SyStores, TokenTrue(sy'), srv' \in Bundles \cup {Null}, now' \in Nat,
           UNCHANGED <<op, lib>>
    PROVE  SyncInv'
  BY DEF SyncInv, SyncTyped

\* A step that ends an operation and leaves the snapshots alone, or starts a sync.
LEMMA OpStep ==
    ASSUME SyncInv, sy' \in SyStores, TokenTrue(sy'), srv' \in Bundles \cup {Null}, UNCHANGED <<now, lib>>,
           op' \in {Standby} \cup Pulls \cup Pushes
    PROVE  SyncInv'
  <1>1. op'.at \notin {"import", "restore"}
    BY DEF Standby, Pulls, Pushes
  <1> QED BY <1>1 DEF SyncInv, SyncTyped, Guards

\* A bundle without some of its fields.
LEMMA Part ==
    ASSUME NEW b \in Bundles, NEW D, D \subseteq DOMAIN b
    PROVE  [f \in D |-> b[f]] \in Bundles
  <1>1. D \in SUBSET Fields /\ [f \in D |-> b[f]] \in [D -> Values]
    BY BundleParts
  <1> QED BY <1>1, IsBundle

\* What the user changes in the settings keeps it.
LEMMA UserEdits ==
    ASSUME SyncInv,
           \/ \E f \in Fields, v \in Values : EditSetting(f, v) \/ OtherDevicePushes(f, v)
           \/ \E v \in {Token, Null} : EditToken(v)
           \/ \E p \in Providers : setActiveProvider(p)
           \/ \E m \in Mods : toggleModule(m)
           \/ \E remote \in SUBSET Fields : handleResolveConflicts(remote)
           \/ Dismiss \/ ResolvePushed \/ Tick
    PROVE  SyncInv'
  <1>0. /\ sy \in SyStores /\ TokenTrue(sy) /\ srv \in Bundles \cup {Null} /\ now \in Nat
        /\ sy.data \in [Fields -> Values] /\ sy.home \subseteq Values /\ sy.enabled \subseteq Mods
    BY DEF SyncInv, SyncTyped, SyStores
  <1>1. ASSUME NEW f \in Fields, NEW v \in Values, EditSetting(f, v) PROVE SyncInv'
    <2> DEFINE d == [sy.data EXCEPT ![f] = v]
               k == IF f = HostField /\ sy.token # Null THEN sy.home \cup {v} ELSE sy.home
    <2>1. sy' = [sy EXCEPT !.data = d, !.edited = sy.edited \cup {f}, !.home = k]
      BY <1>1 DEF EditSetting
    <2>2. d \in [Fields -> Values] /\ k \in SUBSET Values /\ (sy.token # Null => d[HostField] \in k)
      BY <1>0, SyncAssumption DEF TokenTrue
    <2> HIDE DEF d, k
    <2>3. sy' \in SyStores /\ sy'.data = d /\ sy'.home = k /\ sy'.token = sy.token
      BY <1>0, <2>1, <2>2 DEF SyStores
    <2> QED BY <1>0, <1>1, <2>2, <2>3, Local DEF EditSetting, TokenTrue
  <1>2. ASSUME NEW f \in Fields, NEW v \in Values, OtherDevicePushes(f, v) PROVE SyncInv'
    <2>1. CASE srv = Null
      <3>1. srv' = [g \in Fields |-> v]
        BY <1>2, <2>1 DEF OtherDevicePushes
      <3>2. srv' \in Bundles
        BY <3>1, IsBundle
      <3> QED BY <1>0, <1>2, <3>2, Local DEF OtherDevicePushes
    <2>2. CASE srv # Null
      <3> DEFINE D == DOMAIN srv \cup {f}
                 r == [g \in D |-> IF g = f THEN v ELSE srv[g]]
      <3>1. srv' = r
        BY <1>2, <2>2 DEF OtherDevicePushes
      <3>2. D \in SUBSET Fields /\ r \in [D -> Values]
        BY <1>0, <2>2, BundleParts
      <3> HIDE DEF D, r
      <3>3. r \in Bundles
        BY <3>2, IsBundle
      <3> QED BY <1>0, <1>2, <3>1, <3>3, Local DEF OtherDevicePushes
    <2> QED BY <2>1, <2>2
  <1>3. ASSUME NEW p \in Providers, setActiveProvider(p) PROVE SyncInv'
    <2> DEFINE e == IF sy.enabled = {} /\ p # "off" THEN Mods ELSE sy.enabled
    <2>1. sy' = [sy EXCEPT !.provider = p, !.last = Null, !.enabled = e] /\ e \in SUBSET Mods
      BY <1>0, <1>3 DEF setActiveProvider
    <2> HIDE DEF e
    <2>2. sy' \in SyStores /\ sy'.data = sy.data /\ sy'.token = sy.token /\ sy'.home = sy.home
      BY <1>0, <2>1 DEF SyStores
    <2> QED BY <1>0, <1>3, <2>2, Local DEF setActiveProvider, TokenTrue
  <1>4. ASSUME NEW m \in Mods, toggleModule(m) PROVE SyncInv'
    <2> DEFINE e == IF m \in sy.enabled THEN sy.enabled \ {m} ELSE sy.enabled \cup {m}
    <2>1. sy' = [sy EXCEPT !.enabled = e] /\ e \in SUBSET Mods
      BY <1>0, <1>4 DEF toggleModule
    <2> HIDE DEF e
    <2>2. sy' \in SyStores /\ sy'.data = sy.data /\ sy'.token = sy.token /\ sy'.home = sy.home
      BY <1>0, <2>1 DEF SyStores
    <2> QED BY <1>0, <1>4, <2>2, Local DEF toggleModule, TokenTrue
  <1>5. ASSUME NEW remote \in SUBSET Fields, handleResolveConflicts(remote) PROVE SyncInv'
    <2> DEFINE b == sy.pending.b
               c == [f \in remote \cap DOMAIN b |-> b[f]]
               z == fullReplace(sy, c)
               u == IF sy.provider = "daemon" THEN serialize(z, sy.enabled) ELSE z.unpushed
    <2>1. b \in Bundles
      BY <1>0, <1>5 DEF handleResolveConflicts, SyStores, Pendings
    <2>2. c \in Bundles
      BY <2>1, Part
    <2>3. sy' = [z EXCEPT !.last = b, !.pending = Null, !.unpushed = u]
      BY <1>5 DEF handleResolveConflicts, fieldMerge
    <2> HIDE DEF b, c
    <2>4. z \in SyStores /\ TokenTrue(z)
      BY <1>0, <2>2, Replaced
    <2> HIDE DEF z
    <2>5. u \in Bundles \cup {Null}
      BY <1>0, <2>4, Serialized DEF SyStores
    <2> HIDE DEF u
    <2>6. sy' \in SyStores /\ sy'.data = z.data /\ sy'.token = z.token /\ sy'.home = z.home
      BY <2>1, <2>3, <2>4, <2>5 DEF SyStores
    <2> QED BY <1>0, <1>5, <2>4, <2>6, Local DEF handleResolveConflicts, TokenTrue
  <1>6. CASE Dismiss
    <2>1. sy' = [sy EXCEPT !.pending = Null]
      BY <1>6 DEF Dismiss
    <2>2. sy' \in SyStores /\ sy'.data = sy.data /\ sy'.token = sy.token /\ sy'.home = sy.home
      BY <1>0, <2>1 DEF SyStores
    <2> QED BY <1>0, <1>6, <2>2, Local DEF Dismiss, TokenTrue
  <1>7. CASE ResolvePushed
    <2>1. sy' = [sy EXCEPT !.unpushed = Null] /\ srv' \in Bundles \cup {Null}
      BY <1>0, <1>7 DEF ResolvePushed, SyStores
    <2>2. sy' \in SyStores /\ sy'.data = sy.data /\ sy'.token = sy.token /\ sy'.home = sy.home
      BY <1>0, <2>1 DEF SyStores
    <2> QED BY <1>0, <1>7, <2>1, <2>2, Local DEF ResolvePushed, TokenTrue
  <1>9. ASSUME NEW v \in {Token, Null}, EditToken(v) PROVE SyncInv'
    <2> DEFINE k == IF v = Null THEN {} ELSE {sy.data[HostField]}
    <2>1. sy' = [sy EXCEPT !.token = v, !.home = k]
      BY <1>9 DEF EditToken
    <2>2. k \in SUBSET Values /\ (v # Null => sy.data[HostField] \in k)
      BY <1>0, SyncAssumption
    <2> HIDE DEF k
    <2>3. sy' \in SyStores /\ sy'.data = sy.data /\ sy'.home = k /\ sy'.token = v
      BY <1>0, <2>1, <2>2 DEF SyStores
    <2> QED BY <1>0, <1>9, <2>2, <2>3, Local DEF EditToken, TokenTrue
  <1>8. CASE Tick
    <2>1. now' \in Nat
      BY <1>0, <1>8 DEF Tick
    <2> QED BY <1>0, <1>8, <2>1, Local DEF Tick
  <1> QED BY <1>1, <1>2, <1>3, <1>4, <1>5, <1>6, <1>7, <1>8, <1>9

\* What a pull or an import leaves of the local settings.
LEMMA SettingsPulled ==
    ASSUME NEW s \in SyStores, TokenTrue(s), NEW last \in Bundles \cup {Null}, NEW b \in Bundles, NEW ms \in SUBSET Mods
    PROVE  LET z == IF last = Null THEN pullFirst(s, b, ms) ELSE pull(s, last, b, ms)
           IN /\ z \in SyStores /\ TokenTrue(z)
              /\ last # Null => \A f \in Fields : Covers(last, Owner[f]) /\ s.data[f] # last[f] => z.data[f] = s.data[f]
  BY Pulled, PulledFirst

\* The steps of a sync.
LEMMA SyncSteps ==
    ASSUME SyncInv, handleSyncNow \/ SyncPulled \/ SyncPushed \/ SyncFails
    PROVE  SyncInv'
  <1>0. /\ sy \in SyStores /\ TokenTrue(sy) /\ srv \in Bundles \cup {Null} /\ now \in Nat /\ SyncTyped
        /\ lib \in Libs /\ LibSound(lib) /\ lib.next # 0
    BY DEF SyncInv, SyncTyped
  <1>1. CASE handleSyncNow
    <2>1. op' \in Pulls
      BY <1>0, <1>1 DEF handleSyncNow, Pulls, SyStores
    <2> QED BY <1>0, <1>1, <2>1, OpStep DEF handleSyncNow
  <1>2. CASE SyncFails
    <2>1. srv' \in Bundles \cup {Null}
      BY <1>0, <1>2, OpParts DEF SyncFails, Pushes
    <2> QED BY <1>0, <1>2, <2>1, OpStep DEF SyncFails
  <1>3. CASE SyncPulled
    <2> DEFINE clash == IF op.last # Null /\ srv # Null THEN Conflicts(sy, op.last, srv, op.ms) ELSE {}
               s == IF srv = Null THEN sy
                    ELSE IF op.last = Null THEN pullFirst(sy, srv, op.ms) ELSE pull(sy, op.last, srv, op.ms)
    <2>1. op \in Pulls /\ op.last \in Bundles \cup {Null} /\ op.ms \subseteq Mods
      BY <1>0, <1>3, OpParts DEF SyncPulled, Pulls
    <2>2. s \in SyStores /\ TokenTrue(s)
      BY <1>0, <2>1, SettingsPulled
    <2>3. \/ /\ clash # {} /\ op' = Standby
             /\ sy' = IF sy.provider # "daemon" THEN s
                      ELSE setPendingConflicts(Finish(s, buildPartialBaseline(op.last, srv, clash)), srv, clash)
          \/ clash = {} /\ sy' = s /\ op' = [at |-> "push", b |-> serialize(s, op.ms), last |-> op.last]
      BY <1>3 DEF SyncPulled
    <2>4. clash \subseteq Fields /\ (clash # {} => srv \in Bundles)
      BY <1>0 DEF Conflicts, FieldsOf
    <2>5. UNCHANGED <<srv, lib, now>>
      BY <1>3 DEF SyncPulled
    <2> HIDE DEF s, clash
    <2>6. CASE clash = {} /\ sy' = s /\ op' = [at |-> "push", b |-> serialize(s, op.ms), last |-> op.last]
      <3>1. op' \in Pushes
        BY <2>1, <2>2, <2>6, Serialized DEF Pushes
      <3> QED BY <1>0, <2>2, <2>5, <2>6, <3>1, OpStep
    <2>7. CASE /\ clash # {} /\ op' = Standby
               /\ sy' = IF sy.provider # "daemon" THEN s
                        ELSE setPendingConflicts(Finish(s, buildPartialBaseline(op.last, srv, clash)), srv, clash)
      <3> DEFINE p == buildPartialBaseline(op.last, srv, clash)
      <3>1. p \in Bundles
        BY <2>1, <2>4, <2>7, PartialBaseline
      <3> HIDE DEF p
      <3>2. Finish(s, p) \in SyStores /\ TokenTrue(Finish(s, p))
        BY <2>2, <3>1 DEF Finish, SyStores, TokenTrue
      <3>3. sy' \in SyStores /\ TokenTrue(sy')
        <4>1. /\ setPendingConflicts(Finish(s, p), srv, clash) \in SyStores
              /\ TokenTrue(setPendingConflicts(Finish(s, p), srv, clash))
          BY <2>4, <2>7, <3>2, PendingSet
        <4> QED BY <2>2, <2>7, <4>1 DEF p
      <3> QED BY <1>0, <2>5, <2>7, <3>3, OpStep
    <2> QED BY <2>3, <2>6, <2>7
  <1>4. CASE SyncPushed
    <2>1. op \in Pushes /\ op.b \in Bundles
      BY <1>0, <1>4, OpParts DEF SyncPushed, Pushes
    <2> DEFINE s == Finish(sy, op.b)
               e == {f \in s.edited : f \notin DOMAIN op.b \/ sy.data[f] # op.b[f]}
    <2>2. s \in SyStores /\ s.data = sy.data /\ s.token = sy.token /\ s.home = sy.home
      BY <1>0, <2>1 DEF Finish, SyStores
    <2>3. sy' = [s EXCEPT !.edited = e]
      BY <1>4 DEF SyncPushed
    <2> HIDE DEF s
    <2>4. e \in SUBSET Fields
      BY <2>2 DEF SyStores
    <2> HIDE DEF e
    <2>5. sy' \in SyStores /\ sy'.data = sy.data /\ sy'.token = sy.token /\ sy'.home = sy.home
      BY <2>2, <2>3, <2>4 DEF SyStores
    <2>6. srv' = op.b /\ op' = Standby /\ now' = now
      BY <1>4 DEF SyncPushed
    <2>7. lib' = lib \/ lib' = createSnapshot(lib, op.b, "manual")
      BY <1>4 DEF SyncPushed
    <2>8. lib' \in Libs /\ LibSound(lib') /\ lib'.next # 0
      BY <1>0, <2>1, <2>7, Created DEF Libs
    <2>9. Guards(op', lib')
      BY <2>6 DEF Guards, Standby
    <2> QED BY <1>0, <2>1, <2>5, <2>6, <2>8, <2>9 DEF SyncInv, SyncTyped, TokenTrue
  <1> QED BY <1>1, <1>2, <1>3, <1>4

\* An operation that takes a safety snapshot first, or goes on without one.
LEMMA SafetyTaken ==
    ASSUME SyncInv, UNCHANGED <<sy, srv, now>>, op' \in Imports \cup Restores,
           \/ lib' = createSnapshot(lib, serialize(sy, Mods), "pre") /\ op'.pre = lib.next
           \/ lib' = lib /\ op'.pre = 0
    PROVE  SyncInv'
  <1>0. /\ sy \in SyStores /\ TokenTrue(sy) /\ srv \in Bundles \cup {Null} /\ now \in Nat
        /\ lib \in Libs /\ LibSound(lib) /\ lib.next # 0 /\ lib.next \in Nat
    BY DEF SyncInv, SyncTyped, Libs
  <1>1. CASE lib' = lib /\ op'.pre = 0
    BY <1>0, <1>1 DEF SyncInv, SyncTyped, Guards
  <1>2. CASE lib' = createSnapshot(lib, serialize(sy, Mods), "pre") /\ op'.pre = lib.next
    <2>1. serialize(sy, Mods) \in Bundles
      BY <1>0, Serialized
    <2>2. lib' \in Libs /\ LibSound(lib') /\ lib'.next = lib.next + 1 /\ Safe(lib', lib.next)
      BY <1>0, <1>2, <2>1, Created
    <2>3. Guards(op', lib') /\ lib'.next # 0
      BY <1>0, <1>2, <2>2 DEF Guards
    <2> QED BY <1>0, <2>2, <2>3 DEF SyncInv, SyncTyped
  <1> QED BY <1>1, <1>2

\* Imports, restores and the session's snapshot keep it.
LEMMA SafetySteps ==
    ASSUME SyncInv,
           \/ \E v \in Values, ms \in SUBSET Mods \ {{}} : handleFileChange([f \in FieldsOf(ms) |-> v])
           \/ \E m \in lib.snaps : runRestore(m)
           \/ ensureSessionPristine \/ applyImport \/ restoreFromSnapshot
    PROVE  SyncInv'
  <1>0. /\ sy \in SyStores /\ TokenTrue(sy) /\ srv \in Bundles \cup {Null} /\ now \in Nat /\ SyncTyped
        /\ lib \in Libs /\ LibSound(lib) /\ lib.next # 0 /\ lib.next \in Nat /\ lib.snaps \subseteq SnapRecs
        /\ sy.last \in Bundles \cup {Null} /\ sy.enabled \subseteq Mods /\ sy.provider \in Providers
    BY DEF SyncInv, SyncTyped, Libs, SyStores
  <1>1. ASSUME NEW v \in Values, NEW ms \in SUBSET Mods, handleFileChange([f \in FieldsOf(ms) |-> v]) PROVE SyncInv'
    <2> DEFINE b == [f \in FieldsOf(ms) |-> v]
    <2>1. b \in Bundles
      <3>1. FieldsOf(ms) \in SUBSET Fields /\ b \in [FieldsOf(ms) -> Values]
        BY DEF FieldsOf
      <3> QED BY <3>1, IsBundle
    <2>2. handleFileChange(b)
      BY <1>1
    <2> HIDE DEF b
    <2>3. UNCHANGED <<sy, srv, now>>
      BY <2>2 DEF handleFileChange
    <2>4. \/ /\ lib' = createSnapshot(lib, serialize(sy, Mods), "pre")
             /\ op' = [at |-> "import", b |-> b, last |-> sy.last, ms |-> sy.enabled, p |-> sy.provider, pre |-> lib.next]
          \/ /\ op' = [at |-> "import", b |-> b, last |-> sy.last, ms |-> sy.enabled, p |-> sy.provider, pre |-> 0]
             /\ lib' = lib
      BY <2>2 DEF handleFileChange
    <2>5. /\ op' \in Imports
          /\ \/ lib' = createSnapshot(lib, serialize(sy, Mods), "pre") /\ op'.pre = lib.next
             \/ lib' = lib /\ op'.pre = 0
      BY <1>0, <2>1, <2>4 DEF Imports
    <2> QED BY <2>3, <2>5, SafetyTaken
  <1>2. ASSUME NEW m \in lib.snaps, runRestore(m) PROVE SyncInv'
    <2>1. /\ op' \in Restores
          /\ \/ lib' = createSnapshot(lib, serialize(sy, Mods), "pre") /\ op'.pre = lib.next
             \/ lib' = lib /\ op'.pre = 0
      BY <1>0, <1>2 DEF runRestore, Restores
    <2>2. UNCHANGED <<sy, srv, now>>
      BY <1>2 DEF runRestore
    <2> QED BY <2>1, <2>2, SafetyTaken
  <1>3. CASE ensureSessionPristine
    <2>1. lib' = rotateSessionPristine(lib, serialize(sy, Mods)) /\ UNCHANGED <<sy, op, srv, now>> /\ op = Standby
      BY <1>3 DEF ensureSessionPristine
    <2>2. serialize(sy, Mods) \in Bundles
      BY <1>0, Serialized
    <2>3. lib' \in Libs /\ LibSound(lib') /\ lib'.next = lib.next + 1
      BY <1>0, <2>1, <2>2, Rotated
    <2>4. Guards(op', lib') /\ lib'.next # 0
      BY <1>0, <2>1, <2>3 DEF Guards, Standby
    <2> QED BY <1>0, <2>1, <2>3, <2>4 DEF SyncInv, SyncTyped
  <1>4. CASE applyImport
    <2> DEFINE clash == IF op.last = Null THEN {} ELSE Conflicts(sy, op.last, op.b, op.ms)
               s == IF op.last = Null THEN pullFirst(sy, op.b, op.ms) ELSE pull(sy, op.last, op.b, op.ms)
               p == buildPartialBaseline(op.last, op.b, clash)
    <2>1. op \in Imports /\ op.b \in Bundles /\ op.last \in Bundles \cup {Null} /\ op.ms \subseteq Mods
      BY <1>0, <1>4, OpParts DEF applyImport, Imports
    <2>2. s \in SyStores /\ TokenTrue(s)
      BY <1>0, <2>1, SettingsPulled
    <2>3. clash \subseteq Fields
      BY DEF Conflicts, FieldsOf
    <2>4. /\ op' = Standby /\ UNCHANGED <<srv, lib, now>>
          /\ \/ sy' = s \/ sy' = [s EXCEPT !.last = op.b]
             \/ sy' = setPendingConflicts([s EXCEPT !.last = p], op.b, clash)
      BY <1>4 DEF applyImport
    <2>5. p \in Bundles
      BY <2>1, PartialBaseline
    <2> HIDE DEF s, clash, p
    <2>6. \A l \in Bundles : [s EXCEPT !.last = l] \in SyStores /\ TokenTrue([s EXCEPT !.last = l])
      BY <2>2 DEF SyStores, TokenTrue
    <2>7. /\ setPendingConflicts([s EXCEPT !.last = p], op.b, clash) \in SyStores
          /\ TokenTrue(setPendingConflicts([s EXCEPT !.last = p], op.b, clash))
      BY <2>1, <2>3, <2>5, <2>6, PendingSet
    <2>8. sy' \in SyStores /\ TokenTrue(sy')
      BY <2>1, <2>2, <2>4, <2>6, <2>7
    <2> QED BY <1>0, <2>4, <2>8, OpStep
  <1>5. CASE restoreFromSnapshot
    <2>1. PICK failed \in {{}} \cup {{m} : m \in Mods} :
              sy' = [fullReplace(sy, [f \in DOMAIN op.m.b \ FieldsOf(failed) |-> op.m.b[f]]) EXCEPT !.pending = Null]
      BY <1>5 DEF restoreFromSnapshot
    <2> DEFINE c == [f \in DOMAIN op.m.b \ FieldsOf(failed) |-> op.m.b[f]]
               z == fullReplace(sy, c)
    <2>2. op.m.b \in Bundles
      BY <1>0, <1>5, OpParts DEF restoreFromSnapshot, Restores, SnapRecs
    <2>3. c \in Bundles
      BY <2>2, Part
    <2>4. sy' = [z EXCEPT !.pending = Null]
      BY <2>1
    <2> HIDE DEF c
    <2>5. z \in SyStores /\ TokenTrue(z)
      BY <1>0, <2>3, Replaced
    <2> HIDE DEF z
    <2>6. sy' \in SyStores /\ TokenTrue(sy')
      BY <2>4, <2>5 DEF SyStores, TokenTrue
    <2>7. op' = Standby /\ UNCHANGED <<srv, lib, now>>
      BY <1>5 DEF restoreFromSnapshot
    <2> QED BY <1>0, <2>6, <2>7, OpStep
  <1> QED BY <1>1, <1>2, <1>3, <1>4, <1>5

\* The invariant holds throughout.
LEMMA SyncKeepsInv == SyncSpec => []SyncInv
  <1>1. ASSUME SyncInv, [SyncInput \/ SyncProgress]_syncVars PROVE SyncInv'
    <2>1. CASE UNCHANGED syncVars
      BY <1>1, <2>1 DEF syncVars, SyncInv, SyncTyped
    <2>2. CASE SyncInput
      BY <1>1, <2>2, UserEdits, SyncSteps, SafetySteps DEF SyncInput, Providers
    <2>3. CASE SyncProgress
      BY <1>1, <2>3, UserEdits, SyncSteps, SafetySteps, CompactKeeps DEF SyncProgress
    <2> QED BY <1>1, <2>1, <2>2, <2>3
  <1> QED BY <1>1, SyncStart, PTL DEF SyncSpec

\* No sync, import, resolved conflict or restore leaves a token with an endpoint
\* that the user's own edits have not put it beside, and none is
\* under way whose safety snapshot compaction has deleted: for any settings,
\* modules, bundles and snapshots, and any clock (mergeHostsPreservingTokens,
\* computeCompaction, rotateSessionPristine).
THEOREM StoredStateAlwaysSafe == SyncSpec => []StoredStateSafe
  <1>1. SyncInv => StoredStateSafe
    <2>1. SUFFICES ASSUME SyncInv PROVE StoredStateSafe
      OBVIOUS
    <2>2. SyncTypeOK
      BY <2>1 DEF SyncInv, SyncTyped, LibSound, SyncTypeOK, SyStores, Providers, Standby, Pulls, Pushes, Imports, Restores
    <2>3. TokenOfEndpoint
      BY <2>1 DEF SyncInv, TokenTrue, TokenOfEndpoint
    <2>4. SafetySnapshotKept
      BY <2>1 DEF SyncInv, Guards, Safe, LibSound, SafetySnapshotKept
    <2> QED BY <2>2, <2>3, <2>4 DEF StoredStateSafe
  <1> QED BY <1>1, SyncKeepsInv, PTL

\* A sync or an import with a baseline never overwrites what the user changed
\* since: for any settings, modules and bundles, and whatever was edited or
\* pushed by others during its requests (engine.pull, mergeCollection).
THEOREM EditsAlwaysSurvive == SyncSpec => EditsSurvivePull
  <1>1. ASSUME SyncInv, SyncPulled \/ applyImport, op.last # Null,
               NEW f \in sy.edited, Covers(op.last, Owner[f]), sy.data[f] # op.last[f]
        PROVE  sy'.data[f] = sy.data[f]
    <2>0. /\ sy \in SyStores /\ TokenTrue(sy) /\ srv \in Bundles \cup {Null} /\ SyncTyped /\ f \in Fields
      BY <1>1 DEF SyncInv, SyncTyped, SyStores
    <2>1. CASE SyncPulled
      <3> DEFINE clash == IF op.last # Null /\ srv # Null THEN Conflicts(sy, op.last, srv, op.ms) ELSE {}
                 s == IF srv = Null THEN sy
                      ELSE IF op.last = Null THEN pullFirst(sy, srv, op.ms) ELSE pull(sy, op.last, srv, op.ms)
                 p == buildPartialBaseline(op.last, srv, clash)
      <3>1. op.last \in Bundles /\ op.ms \subseteq Mods
        BY <1>1, <2>0, <2>1, OpParts DEF SyncPulled, Pulls
      <3>2. s \in SyStores /\ TokenTrue(s) /\ s.data[f] = sy.data[f]
        BY <1>1, <2>0, <3>1, SettingsPulled
      <3>3. \/ sy' = s
            \/ clash # {} /\ sy' = setPendingConflicts(Finish(s, p), srv, clash)
        BY <2>1 DEF SyncPulled
      <3>4. clash \subseteq Fields /\ (clash # {} => srv \in Bundles)
        BY <2>0 DEF Conflicts, FieldsOf
      <3> HIDE DEF s, clash
      <3>5. CASE clash # {} /\ sy' = setPendingConflicts(Finish(s, p), srv, clash)
        <4>1. p \in Bundles
          BY <3>1, <3>4, <3>5, PartialBaseline
        <4> HIDE DEF p
        <4>2. Finish(s, p) \in SyStores /\ TokenTrue(Finish(s, p)) /\ Finish(s, p).data = s.data
          BY <3>2, <4>1 DEF Finish, SyStores, TokenTrue
        <4>3. setPendingConflicts(Finish(s, p), srv, clash).data = Finish(s, p).data
          BY <3>4, <3>5, <4>2, PendingSet
        <4> QED BY <3>2, <3>5, <4>2, <4>3
      <3> QED BY <3>2, <3>3, <3>5
    <2>2. CASE applyImport
      <3> DEFINE clash == IF op.last = Null THEN {} ELSE Conflicts(sy, op.last, op.b, op.ms)
                 s == IF op.last = Null THEN pullFirst(sy, op.b, op.ms) ELSE pull(sy, op.last, op.b, op.ms)
                 p == buildPartialBaseline(op.last, op.b, clash)
      <3>1. op.last \in Bundles /\ op.ms \subseteq Mods /\ op.b \in Bundles
        BY <1>1, <2>0, <2>2, OpParts DEF applyImport, Imports
      <3>2. s \in SyStores /\ TokenTrue(s) /\ s.data[f] = sy.data[f]
        BY <1>1, <2>0, <3>1, SettingsPulled
      <3>3. \/ sy' = s \/ sy' = [s EXCEPT !.last = op.b]
            \/ sy' = setPendingConflicts([s EXCEPT !.last = p], op.b, clash)
        BY <2>2 DEF applyImport
      <3>4. clash \subseteq Fields /\ p \in Bundles
        BY <3>1, PartialBaseline DEF Conflicts, FieldsOf
      <3> HIDE DEF s, clash, p
      <3>5. \A l \in Bundles : /\ [s EXCEPT !.last = l] \in SyStores /\ TokenTrue([s EXCEPT !.last = l])
                               /\ [s EXCEPT !.last = l].data = s.data
        BY <3>2 DEF SyStores, TokenTrue
      <3>6. setPendingConflicts([s EXCEPT !.last = p], op.b, clash).data = s.data
        <4> DEFINE z == [s EXCEPT !.last = p]
        <4>1. z \in SyStores /\ TokenTrue(z) /\ z.data = s.data
          BY <3>4, <3>5
        <4> HIDE DEF z
        <4>2. setPendingConflicts(z, op.b, clash).data = z.data
          BY <3>1, <3>4, <4>1, PendingSet
        <4> QED BY <4>1, <4>2 DEF z
      <3> QED BY <3>1, <3>2, <3>3, <3>5, <3>6
    <2> QED BY <1>1, <2>1, <2>2
  <1>2. SyncInv => [(SyncPulled \/ applyImport) /\ op.last # Null =>
            \A f \in sy.edited : Covers(op.last, Owner[f]) /\ sy.data[f] # op.last[f]
                                    => sy'.data[f] = sy.data[f]]_syncVars
    BY <1>1
  <1> QED BY <1>2, SyncKeepsInv, PTL DEF EditsSurvivePull

-----------------------------------------------------------------------------
(* Workspace snapshots.  A record that a restore found alive is of the name *)
(* that the snapshot has; and while a restore builds the snapshot it will *)
(* leave behind, every tab is in that snapshot or was opened meanwhile.   *)

SnapSessions == [host : SnapHosts, code : Codes, name : Names]
SnapPanes == [host : SnapHosts, code : Codes, name : Names, term : BOOLEAN]
PaneMaps == UNION {[D -> SnapPanes] : D \in SUBSET SnapTabs}
Desks == [tabs : PaneMaps, active : SnapTabs \cup {None}, ws : SUBSET SnapTabs, wsActive : SnapTabs \cup {None}]
Metas == UNION {[D -> [name : Names, restorable : BOOLEAN]] : D \in SUBSET Keys}
Snaps == [desk : Desks, meta : Metas]
Builds == [desk : Desks, meta : Metas, hosts : SUBSET SnapHosts]
Outcomes == [status : {"failed"}] \cup [status : {"reattached", "rebuilt"}, to : SnapSessions]
Remaps == UNION {[D -> Outcomes] : D \in SUBSET Keys}

Kinds == {"sessions", "layout", "all"}
EnsureJobs ==
    [at : {"ensure"}, kind : Kinds, snap : Snaps, hosts : SUBSET SnapHosts, create : SUBSET Keys, remap : Remaps,
     opened : SUBSET SnapTabs, mine : BOOLEAN]
BuildJobs ==
    [at : {"build"}, kind : Kinds, snap : Snaps, remap : Remaps, b : Builds, opened : SUBSET SnapTabs, mine : BOOLEAN]

Captures == [b : Builds, mine : BOOLEAN]

SnapTyped ==
    /\ desk \in Desks /\ tmux \subseteq SnapSessions /\ seenSessions \subseteq SnapSessions
    /\ saved \in [snap : Snaps \cup {None}, prev : Snaps \cup {None}]
    /\ caps \subseteq Captures
    /\ job \in {Off} \cup EnsureJobs \cup BuildJobs
    /\ section \in [busy : BOOLEAN, snap : Snaps \cup {None}, edit : Keys \cup {None}]
    /\ opLock \in {None, "snapshot", "rebuild"}

\* A session that was found alive has the name of its record.
Matched(remap, snap) ==
    \A k \in DOMAIN remap : remap[k].status = "reattached" =>
        k \in DOMAIN snap.meta /\ remap[k].to.name = snap.meta[k].name

\* What the restore will replace is in the snapshot it has begun to build.
Covered == job.at = "build" => DOMAIN desk.tabs \subseteq DOMAIN job.b.desk.tabs \cup job.opened

SnapInv ==
    /\ SnapTyped /\ Consistent(desk) /\ Covered
    /\ \A s, u \in tmux : KeyOf(s) = KeyOf(u) => s = u
    /\ job.at # "off" <=> opLock = "snapshot"
    /\ job.at # "off" => Matched(job.remap, job.snap)

\* What a snapshot, a desk and a map of panes consist of.
LEMMA DeskParts ==
    ASSUME NEW d \in Desks
    PROVE  /\ DOMAIN d.tabs \subseteq SnapTabs /\ d.tabs \in [DOMAIN d.tabs -> SnapPanes]
           /\ d.active \in SnapTabs \cup {None} /\ d.wsActive \in SnapTabs \cup {None} /\ d.ws \subseteq SnapTabs
           /\ \A t \in DOMAIN d.tabs : d.tabs[t] \in SnapPanes
  BY DEF Desks, PaneMaps

\* A map of panes is one.
LEMMA PaneMap ==
    ASSUME NEW D \in SUBSET SnapTabs, NEW f \in [D -> SnapPanes]
    PROVE  f \in PaneMaps /\ DOMAIN f = D
  BY DEF PaneMaps

\* A record of sessions.
LEMMA MetaMap ==
    ASSUME NEW D \in SUBSET Keys, NEW f \in [D -> [name : Names, restorable : BOOLEAN]]
    PROVE  f \in Metas /\ DOMAIN f = D
  BY DEF Metas

\* The empty map is of every kind.
LEMMA EmptyMaps == << >> \in PaneMaps /\ << >> \in Metas /\ << >> \in Remaps /\ DOMAIN << >> = {}
  <1>1. DOMAIN << >> = {} /\ << >> = [x \in {} |-> x]
    OBVIOUS
  <1>2. << >> \in [{} -> SnapPanes] /\ << >> \in [{} -> [name : Names, restorable : BOOLEAN]] /\ << >> \in [{} -> Outcomes]
    BY <1>1
  <1>3. {} \in SUBSET SnapTabs /\ {} \in SUBSET Keys
    OBVIOUS
  <1> QED BY <1>1, <1>2, <1>3 DEF PaneMaps, Metas, Remaps

\* Merging two maps of a kind yields one, with the later answer where there are two.
LEMMA Merged ==
    ASSUME NEW K, NEW R, NEW D \in SUBSET K, NEW E \in SUBSET K, NEW f \in [D -> R], NEW g \in [E -> R]
    PROVE  /\ Merge(f, g) \in [D \cup E -> R] /\ D \cup E \in SUBSET K
           /\ \A k \in D \cup E : Merge(f, g)[k] = IF k \in E THEN g[k] ELSE f[k]
  BY DEF Merge

\* A snapshot under way: a host adds what it says of its sessions.
LEMMA HostBuilt ==
    ASSUME NEW b \in Builds, NEW h \in SnapHosts, NEW live \in SessionLists(h), NEW known \in BOOLEAN,
           tmux \subseteq SnapSessions
    PROVE  BuildHost(b, h, live, known) \in Builds /\ BuildHost(b, h, live, known).desk = b.desk
  <1> DEFINE K == collectTmuxPanesByHost(b.desk, h)
             m == HostMeta(b.desk, h, live, known)
  <1>2. b.desk \in Desks /\ b.meta \in Metas /\ b.hosts \subseteq SnapHosts
    BY DEF Builds
  <1>3. K \in SUBSET Keys
    BY <1>2, DeskParts DEF collectTmuxPanesByHost, PaneKeys, KeyOf, SnapPanes, Keys
  <1>4. ASSUME NEW k \in K PROVE CachedName(b.desk, k) \in Names
    <2>1. PICK t \in DOMAIN b.desk.tabs : k = KeyOf(b.desk.tabs[t])
      BY DEF collectTmuxPanesByHost, PaneKeys
    <2>2. b.desk.tabs[t].name \in Names
      BY <1>2, <2>1, DeskParts DEF SnapPanes
    <2> QED BY <2>1, <2>2 DEF CachedName
  <1>5. m \in [K -> [name : Names, restorable : BOOLEAN]]
    <2>1. live \subseteq SnapSessions
      BY DEF SessionLists
    <2>2. ASSUME NEW k \in K
          PROVE  (IF {x \in live : KeyOf(x) = k} = {} THEN [name |-> CachedName(b.desk, k), restorable |-> FALSE]
                  ELSE [name |-> (CHOOSE x \in {x \in live : KeyOf(x) = k} : TRUE).name, restorable |-> known])
                    \in [name : Names, restorable : BOOLEAN]
      <3>1. {x \in live : KeyOf(x) = k} # {} => (CHOOSE x \in {x \in live : KeyOf(x) = k} : TRUE).name \in Names
        BY <2>1 DEF SnapSessions
      <3> QED BY <1>4, <3>1
    <2> QED BY <2>2 DEF HostMeta
  <1>6. PICK D \in SUBSET Keys : b.meta \in [D -> [name : Names, restorable : BOOLEAN]]
    BY <1>2 DEF Metas
  <1> HIDE DEF K, m
  <1>7. Merge(b.meta, m) \in Metas
    <2> DEFINE R == [name : Names, restorable : BOOLEAN]
               f == b.meta
    <2>1. m \in [K -> R] /\ f \in [D -> R]
      BY <1>5, <1>6
    <2> HIDE DEF R, f
    <2>2. Merge(f, m) \in [D \cup K -> R] /\ D \cup K \in SUBSET Keys
      BY <1>3, <2>1 DEF Merge
    <2> QED BY <2>2, MetaMap DEF R, f
  <1>8. BuildHost(b, h, live, known) = [b EXCEPT !.meta = Merge(b.meta, m), !.hosts = b.hosts \ {h}]
    BY DEF m, BuildHost
  <1> QED BY <1>2, <1>7, <1>8 DEF Builds

\* The snapshots of an earlier session are snapshots.
LEMMA EarlierSnaps == Earlier \subseteq Snaps
  <1> DEFINE K(f) == {KeyOf(f[t]) : t \in SnapTabs}
             meta(f) == [k \in K(f) |->
                           [name |-> f[CHOOSE t \in SnapTabs : KeyOf(f[t]) = k].name, restorable |-> TRUE]]
  <1>1. ASSUME NEW f \in [SnapTabs -> [host : SnapHosts, code : Codes, name : Names, term : {FALSE}]]
        PROVE  SnapOf(f) \in Snaps
    <2>1. f \in [SnapTabs -> SnapPanes]
      BY DEF SnapPanes
    <2>2. f \in PaneMaps
      BY <2>1, PaneMap
    <2>3. [NoDesk EXCEPT !.tabs = f, !.ws = SnapTabs] \in Desks
      BY <2>2 DEF NoDesk, Desks
    <2>4. \A t \in SnapTabs : f[t].name \in Names /\ KeyOf(f[t]) \in Keys
      BY <1>1 DEF KeyOf, Keys
    <2>5. \A k \in K(f) : (CHOOSE t \in SnapTabs : KeyOf(f[t]) = k) \in SnapTabs
      OBVIOUS
    <2>6. meta(f) \in [K(f) -> [name : Names, restorable : BOOLEAN]]
      BY <2>4, <2>5
    <2>7. K(f) \in SUBSET Keys
      BY <2>4
    <2>8. SnapOf(f) = [desk |-> [NoDesk EXCEPT !.tabs = f, !.ws = SnapTabs], meta |-> meta(f)]
      BY DEF SnapOf
    <2> HIDE DEF meta, K
    <2>9. meta(f) \in Metas
      BY <2>6, <2>7, MetaMap
    <2> QED BY <2>3, <2>8, <2>9 DEF Snaps
  <1> QED BY <1>1 DEF Earlier

\* Before anything happened.
LEMMA SnapStart ==
    ASSUME SnapInit
    PROVE  SnapInv
  <1>1. NoDesk \in Desks /\ Consistent(NoDesk)
    BY EmptyMaps DEF NoDesk, Desks, Consistent
  <1>2. ASSUME NEW t \in SnapTabs PROVE Foreign(t) \in Snaps
    <2>1. [NoDesk EXCEPT !.ws = {t}] \in Desks
      BY <1>1 DEF Desks
    <2> QED BY <2>1, EmptyMaps DEF Foreign, Snaps
  <1>3. saved \in [snap : Snaps \cup {None}, prev : Snaps \cup {None}]
    <2>1. Earlier \subseteq Snaps
      BY EarlierSnaps
    <2> QED BY <1>2, <2>1 DEF SnapInit
  <1>4. section \in [busy : BOOLEAN, snap : Snaps \cup {None}, edit : Keys \cup {None}]
    BY <1>3 DEF SnapInit
  <1>5. job.at = "off" /\ job = Off /\ caps = {} /\ opLock = None
    BY DEF SnapInit, Off
  <1> QED BY <1>1, <1>3, <1>4, <1>5, SnapAssumption DEF SnapInit, SnapInv, SnapTyped, Covered

\* What a restore that is under way consists of.
LEMMA JobParts ==
    ASSUME SnapTyped
    PROVE  /\ job.at \in {"off", "ensure", "build"} /\ (job = Off <=> job.at = "off")
           /\ job.at = "ensure" => job \in EnsureJobs
           /\ job.at = "build" => job \in BuildJobs
           /\ job.at # "off" => job.snap \in Snaps /\ job.remap \in Remaps /\ job.mine \in BOOLEAN /\ job.kind \in Kinds
  BY DEF SnapTyped, Off, EnsureJobs, BuildJobs

\* A step that leaves the stores, the hosts and the restore alone.
LEMMA Aside ==
    ASSUME SnapInv, UNCHANGED <<desk, tmux, seenSessions>>,
           saved' \in [snap : Snaps \cup {None}, prev : Snaps \cup {None}],
           caps' \subseteq Captures,
           section' \in [busy : BOOLEAN, snap : Snaps \cup {None}, edit : Keys \cup {None}],
           opLock' \in {None, "snapshot", "rebuild"},
           \/ UNCHANGED job
           \/ job # Off /\ job' = [job EXCEPT !.mine = FALSE],
           opLock' = "snapshot" <=> opLock = "snapshot"
    PROVE  SnapInv'
  <1>1. CASE UNCHANGED job
    BY <1>1 DEF SnapInv, SnapTyped, Consistent, Covered, Matched
  <1>2. CASE job # Off /\ job' = [job EXCEPT !.mine = FALSE]
    <2>1. job' \in EnsureJobs \cup BuildJobs
      BY <1>2 DEF SnapInv, SnapTyped, EnsureJobs, BuildJobs
    <2>2. /\ job'.at = job.at /\ job'.remap = job.remap /\ job'.snap = job.snap
          /\ job.at = "build" => job'.b = job.b /\ job'.opened = job.opened
      BY <1>2 DEF SnapInv, SnapTyped, EnsureJobs, BuildJobs
    <2> QED BY <2>1, <2>2 DEF SnapInv, SnapTyped, Consistent, Covered, Matched
  <1> QED BY <1>1, <1>2

\* The desk of a capture that begins.
LEMMA BuildBegins ==
    ASSUME NEW d \in Desks
    PROVE  Building(d) \in Builds /\ Building(d).desk = d
  <1>1. HostsOf(d) \subseteq SnapHosts
    BY DeskParts DEF HostsOf, PaneKeys, KeyOf, SnapPanes
  <1> QED BY <1>1, EmptyMaps DEF Building, Builds

\* The section, its captures and the other operations keep it.
LEMMA SectionKeeps ==
    ASSUME SnapInv,
           \/ handleCapture \/ Remount \/ OtherOperation
           \/ \E c \in caps : Captured(c) \/ \E h \in SnapHosts : CaptureHost(c, h)
           \/ \E k \in Keys : EditCell(k)
           \/ \E known \in BOOLEAN : handleCommitCwd(known)
    PROVE  SnapInv'
  <1> USE DEF SnapInv
  <1>1. CASE handleCapture
    <2>1. caps' \subseteq Captures
      <3>1. Building(desk) \in Builds
        BY BuildBegins DEF SnapTyped
      <3>2. [b |-> Building(desk), mine |-> TRUE] \in Captures
        BY <3>1 DEF Captures
      <3> QED BY <1>1, <3>2 DEF handleCapture, SnapTyped
    <2>2. section' \in [busy : BOOLEAN, snap : Snaps \cup {None}, edit : Keys \cup {None}]
      BY <1>1 DEF handleCapture, SnapTyped
    <2> QED BY <1>1, <2>1, <2>2, Aside DEF handleCapture, SnapTyped
  <1>2. ASSUME NEW c \in caps, Captured(c) PROVE SnapInv'
    <2>1. c \in Captures /\ c.b \in Builds /\ caps' = caps \ {c}
      BY <1>2 DEF Captured, SnapTyped, Captures
    <2>2. [desk |-> c.b.desk, meta |-> c.b.meta] \in Snaps
      BY <2>1 DEF Builds, Snaps
    <2>3. saved' \in [snap : Snaps \cup {None}, prev : Snaps \cup {None}] /\ saved'.snap \in Snaps
      BY <1>2, <2>2 DEF Captured, SnapTyped
    <2>4. section' \in [busy : BOOLEAN, snap : Snaps \cup {None}, edit : Keys \cup {None}]
      BY <1>2, <2>3 DEF Captured, SnapTyped
    <2>5. caps' \subseteq Captures
      BY <2>1 DEF SnapTyped
    <2> QED BY <1>2, <2>3, <2>4, <2>5, Aside DEF Captured, SnapTyped
  <1>3. CASE Remount
    <2>1. section' \in [busy : BOOLEAN, snap : Snaps \cup {None}, edit : Keys \cup {None}]
      BY <1>3 DEF Remount, SnapTyped
    <2>2. caps' \subseteq Captures
      <3>1. ASSUME NEW c \in caps PROVE [c EXCEPT !.mine = FALSE] \in Captures
        <4>1. c \in Captures
          BY DEF SnapTyped
        <4> QED BY <4>1 DEF Captures
      <3> QED BY <1>3, <3>1 DEF Remount
    <2> QED BY <1>3, <2>1, <2>2, Aside DEF Remount, SnapTyped
  <1>4. CASE OtherOperation
    BY <1>4, Aside, SnapAssumption DEF OtherOperation, SnapTyped
  <1>5. ASSUME NEW h \in SnapHosts, NEW c \in caps, CaptureHost(c, h) PROVE SnapInv'
    <2>1. c \in Captures /\ c.b \in Builds
      BY DEF SnapTyped, Captures
    <2>2. PICK live \in SessionLists(h), known \in BOOLEAN :
              caps' = (caps \ {c}) \cup {[c EXCEPT !.b = BuildHost(c.b, h, live, known)]}
      BY <1>5 DEF CaptureHost
    <2>3. BuildHost(c.b, h, live, known) \in Builds
      BY <2>1, HostBuilt DEF SnapTyped
    <2>4. caps' \subseteq Captures
      BY <2>1, <2>2, <2>3 DEF SnapTyped, Captures
    <2> QED BY <1>5, <2>4, Aside DEF CaptureHost, SnapTyped
  <1>6. ASSUME NEW k \in Keys, EditCell(k) PROVE SnapInv'
    <2>1. section' \in [busy : BOOLEAN, snap : Snaps \cup {None}, edit : Keys \cup {None}]
      BY <1>6 DEF EditCell, SnapTyped
    <2> QED BY <1>6, <2>1, Aside DEF EditCell, SnapTyped
  <1>7. ASSUME NEW known \in BOOLEAN, handleCommitCwd(known) PROVE SnapInv'
    <2>1. CASE saved' = saved /\ section' = [section EXCEPT !.edit = None]
      <3>1. section' \in [busy : BOOLEAN, snap : Snaps \cup {None}, edit : Keys \cup {None}]
        BY <2>1 DEF SnapTyped
      <3> QED BY <1>7, <2>1, <3>1, Aside DEF handleCommitCwd, SnapTyped
    <2>2. CASE /\ saved.snap # None /\ section.edit \in DOMAIN saved.snap.meta
               /\ saved' = [saved EXCEPT !.snap.meta[section.edit].restorable = known]
               /\ section' = [section EXCEPT !.snap = saved'.snap, !.edit = None]
      <3> DEFINE e == section.edit
                 m == saved.snap.meta
                 n == [m EXCEPT ![e] = [m[e] EXCEPT !.restorable = known]]
                 z == [saved.snap EXCEPT !.meta = n]
      <3>1. saved.snap \in Snaps
        BY <2>2 DEF SnapTyped
      <3>2. PICK D \in SUBSET Keys : m \in [D -> [name : Names, restorable : BOOLEAN]]
        BY <3>1 DEF Snaps, Metas
      <3>3. n \in [D -> [name : Names, restorable : BOOLEAN]]
        BY <2>2, <3>2
      <3>4. n \in Metas
        BY <3>3, MetaMap
      <3>5. z \in Snaps
        BY <3>1, <3>4 DEF Snaps
      <3>6. saved' = [saved EXCEPT !.snap = z]
        BY <2>2
      <3> HIDE DEF z
      <3>7. saved' \in [snap : Snaps \cup {None}, prev : Snaps \cup {None}] /\ saved'.snap \in Snaps
        BY <3>5, <3>6 DEF SnapTyped
      <3>8. section' \in [busy : BOOLEAN, snap : Snaps \cup {None}, edit : Keys \cup {None}]
        BY <2>2, <3>7 DEF SnapTyped
      <3> QED BY <1>7, <3>7, <3>8, Aside DEF handleCommitCwd, SnapTyped
    <2> QED BY <1>7, <2>1, <2>2 DEF handleCommitCwd
  <1> QED BY <1>1, <1>2, <1>3, <1>4, <1>5, <1>6, <1>7

\* Whoever opens and closes tabs, and whatever becomes of the sessions.
LEMMA UserKeeps ==
    ASSUME SnapInv,
           \/ \E t \in SnapTabs : CloseSnapTab(t) \/ \E s \in tmux : OpenTab(t, s)
           \/ \E h \in SnapHosts : (\E ended \in BOOLEAN : TmuxRestarts(h, ended)) \/ (\E n \in Names : SessionStarts(h, n))
    PROVE  SnapInv'
  <1>1. desk \in Desks /\ DOMAIN desk.tabs \subseteq SnapTabs /\ desk.tabs \in [DOMAIN desk.tabs -> SnapPanes]
    BY DeskParts DEF SnapInv, SnapTyped
  <1>2. ASSUME NEW t \in SnapTabs, CloseSnapTab(t) PROVE SnapInv'
    <2> DEFINE left == DOMAIN desk.tabs \ {t}
               f == [u \in left |-> desk.tabs[u]]
    <2>1. f \in PaneMaps /\ DOMAIN f = left
      BY <1>1, PaneMap
    <2>2. /\ desk'.tabs = f /\ desk'.ws = desk.ws \ {t}
          /\ desk'.active = (IF desk.active = t THEN None ELSE desk.active)
          /\ desk'.wsActive = (IF desk.wsActive = t THEN None ELSE desk.wsActive)
          /\ desk' = [tabs |-> desk'.tabs, active |-> desk'.active, ws |-> desk'.ws, wsActive |-> desk'.wsActive]
      BY <1>2 DEF CloseSnapTab
    <2> HIDE DEF f
    <2>3. desk' \in Desks
      BY <1>1, <2>1, <2>2 DEF Desks
    <2>4. Consistent(desk') /\ DOMAIN desk'.tabs \subseteq DOMAIN desk.tabs
      BY <2>1, <2>2 DEF SnapInv, Consistent
    <2> QED BY <1>2, <2>3, <2>4 DEF CloseSnapTab, SnapInv, SnapTyped, Covered, Matched
  <1>3. ASSUME NEW t \in SnapTabs, NEW s \in tmux, OpenTab(t, s) PROVE SnapInv'
    <2> DEFINE D == DOMAIN desk.tabs \cup {t}
               f == [u \in D |-> IF u = t THEN Pane(s) ELSE desk.tabs[u]]
    <2>1. Pane(s) \in SnapPanes
      BY DEF Pane, SnapPanes, SnapSessions, SnapInv, SnapTyped
    <2>2. f \in [D -> SnapPanes] /\ D \in SUBSET SnapTabs
      BY <1>1, <2>1
    <2>3. f \in PaneMaps /\ DOMAIN f = D
      BY <2>2, PaneMap
    <2>4. desk' = [tabs |-> f, active |-> t, ws |-> desk.ws \cup {t}, wsActive |-> t]
      BY <1>3 DEF OpenTab
    <2> HIDE DEF f
    <2>5. desk' \in Desks /\ Consistent(desk') /\ DOMAIN desk'.tabs = DOMAIN desk.tabs \cup {t}
      BY <1>1, <2>3, <2>4 DEF Desks, Consistent, SnapInv
    <2>6. CASE job.at = "build"
      <3>1. job \in BuildJobs /\ job' = [job EXCEPT !.opened = job.opened \cup {t}]
        BY <1>3, <2>6, JobParts DEF OpenTab, SnapInv
      <3>2. job' \in BuildJobs /\ job'.at = "build" /\ job'.b = job.b /\ job'.opened = job.opened \cup {t}
            /\ job'.remap = job.remap /\ job'.snap = job.snap
        BY <3>1 DEF BuildJobs
      <3> QED BY <1>3, <2>5, <2>6, <3>2 DEF OpenTab, SnapInv, SnapTyped, Covered, Matched
    <2>7. CASE job.at # "build"
      BY <1>3, <2>5, <2>7 DEF OpenTab, SnapInv, SnapTyped, Covered, Matched
    <2> QED BY <2>6, <2>7
  <1>4. ASSUME NEW h \in SnapHosts, NEW ended \in BOOLEAN, TmuxRestarts(h, ended) PROVE SnapInv'
    <2> DEFINE f == [t \in DOMAIN desk.tabs |-> [desk.tabs[t] EXCEPT !.term = desk.tabs[t].term \/ (ended /\ desk.tabs[t].host = h)]]
    <2>1. ASSUME NEW t \in DOMAIN desk.tabs PROVE f[t] \in SnapPanes
      <3>1. desk.tabs[t] \in SnapPanes
        BY <1>1
      <3>2. (desk.tabs[t].term \/ (ended /\ desk.tabs[t].host = h)) \in BOOLEAN
        BY Zenon
      <3> DEFINE b == desk.tabs[t].term \/ (ended /\ desk.tabs[t].host = h)
      <3>3. f[t] = [desk.tabs[t] EXCEPT !.term = b]
        OBVIOUS
      <3> HIDE DEF b, f
      <3> QED BY <3>1, <3>2, <3>3 DEF SnapPanes, b
    <2>2. f \in PaneMaps /\ DOMAIN f = DOMAIN desk.tabs
      <3>1. f \in [DOMAIN desk.tabs -> SnapPanes]
        BY <2>1
      <3> HIDE DEF f
      <3> QED BY <1>1, <3>1, PaneMap
    <2>3. desk' = [desk EXCEPT !.tabs = f]
      BY <1>4 DEF TmuxRestarts
    <2> HIDE DEF f
    <2>4. desk' \in Desks /\ Consistent(desk') /\ DOMAIN desk'.tabs = DOMAIN desk.tabs
      BY <1>1, <2>2, <2>3 DEF Desks, Consistent, SnapInv
    <2> QED BY <1>4, <2>4 DEF TmuxRestarts, SnapInv, SnapTyped, Covered, Matched
  <1>5. ASSUME NEW h \in SnapHosts, NEW n \in Names, SessionStarts(h, n) PROVE SnapInv'
    <2>1. PICK c \in NextCode(h, tmux) : tmux' = tmux \cup {[host |-> h, code |-> c, name |-> n]}
      BY <1>5 DEF SessionStarts
    <2>2. c \in Codes /\ \A s \in tmux : KeyOf(s) # <<h, c>>
      BY DEF NextCode, KeyOf
    <2>3. tmux' \subseteq SnapSessions /\ \A s, u \in tmux' : KeyOf(s) = KeyOf(u) => s = u
      BY <2>1, <2>2 DEF SnapInv, SnapTyped, SnapSessions, KeyOf
    <2> QED BY <1>5, <2>3 DEF SessionStarts, SnapInv, SnapTyped, Consistent, Covered, Matched
  <1> QED BY <1>2, <1>3, <1>4, <1>5

\* A map of outcomes.
LEMMA RemapMap ==
    ASSUME NEW D \in SUBSET Keys, NEW f \in [D -> Outcomes]
    PROVE  f \in Remaps /\ DOMAIN f = D
  BY DEF Remaps

\* Outcomes that match, merged with more of them.
LEMMA MoreOutcomes ==
    ASSUME NEW r \in Remaps, NEW D \in SUBSET Keys, NEW f \in [D -> Outcomes], NEW snap,
           Matched(r, snap), Matched(f, snap)
    PROVE  Merge(r, f) \in Remaps /\ Matched(Merge(r, f), snap)
  <1>1. PICK E \in SUBSET Keys : r \in [E -> Outcomes]
    BY DEF Remaps
  <1> DEFINE g == Merge(r, f)
  <1>2. DOMAIN r = E /\ DOMAIN f = D
    BY <1>1
  <1>3. g \in [E \cup D -> Outcomes] /\ \A k \in E \cup D : g[k] = IF k \in D THEN f[k] ELSE r[k]
    BY <1>1, <1>2 DEF Merge
  <1> HIDE DEF g
  <1>4. E \cup D \in SUBSET Keys /\ DOMAIN g = E \cup D
    BY <1>3
  <1>5. g \in Remaps
    BY <1>3, <1>4, RemapMap
  <1>6. ASSUME NEW k \in DOMAIN g, g[k].status = "reattached" PROVE k \in DOMAIN snap.meta /\ g[k].to.name = snap.meta[k].name
    BY <1>2, <1>3, <1>4, <1>6 DEF Matched
  <1> QED BY <1>5, <1>6 DEF Matched, g

\* The outcomes that the list of a host decides.
Listed(K, snap, live) ==
    [k \in K |-> IF Alive(k, snap.meta[k], live) = {} THEN Failed
                 ELSE Reattached(CHOOSE s \in Alive(k, snap.meta[k], live) : TRUE)]

\* They match the records of the snapshot.
LEMMA ListOutcomes ==
    ASSUME NEW snap \in Snaps, NEW K \in SUBSET DOMAIN snap.meta, NEW live \in SUBSET SnapSessions
    PROVE  K \in SUBSET Keys /\ Listed(K, snap, live) \in [K -> Outcomes] /\ Matched(Listed(K, snap, live), snap)
  <1> DEFINE f == Listed(K, snap, live)
  <1>1. K \in SUBSET Keys
    BY DEF Snaps, Metas
  <1>2. Failed \in Outcomes /\ Failed.status # "reattached"
    BY DEF Failed, Outcomes
  <1>3. ASSUME NEW k \in K
        PROVE  f[k] \in Outcomes /\ (f[k].status = "reattached" => f[k].to.name = snap.meta[k].name)
    <2> DEFINE A == Alive(k, snap.meta[k], live)
               s == CHOOSE x \in A : TRUE
    <2>1. CASE A = {}
      BY <1>2, <2>1 DEF Listed
    <2>2. CASE A # {}
      <3>1. s \in A
        BY <2>2
      <3>2. s \in SnapSessions /\ s.name = snap.meta[k].name
        BY <3>1 DEF Alive
      <3>3. f[k] = Reattached(s)
        BY <2>2 DEF Listed
      <3> HIDE DEF s
      <3>4. Reattached(s) \in Outcomes /\ Reattached(s).to = s
        BY <3>2 DEF Reattached, Outcomes
      <3> QED BY <3>2, <3>3, <3>4
    <2> QED BY <2>1, <2>2
  <1>4. f \in [K -> Outcomes] /\ DOMAIN f = K
    <2>1. DOMAIN f = K /\ f = [k \in K |-> f[k]]
      BY DEF Listed
    <2> HIDE DEF f
    <2> QED BY <1>3, <2>1
  <1> QED BY <1>1, <1>3, <1>4 DEF Matched

\* A step of ensureSessions: outcomes that match, and sessions created.
LEMMA JobStep ==
    ASSUME SnapInv, job.at = "ensure", UNCHANGED <<desk, saved, caps, opLock, section, seenSessions>>,
           NEW hs \in SUBSET SnapHosts, NEW cr \in SUBSET Keys, NEW r \in Remaps, Matched(r, job.snap),
           job' = [job EXCEPT !.hosts = hs, !.create = cr, !.remap = r],
           tmux' \subseteq SnapSessions, \A s, u \in tmux' : KeyOf(s) = KeyOf(u) => s = u
    PROVE  SnapInv'
  <1>1. job \in EnsureJobs
    BY JobParts DEF SnapInv
  <1>2. job' \in EnsureJobs /\ job'.at = "ensure" /\ job'.remap = r /\ job'.snap = job.snap
    BY <1>1 DEF EnsureJobs
  <1> QED BY <1>2 DEF SnapInv, SnapTyped, Consistent, Covered

\* The lists of the hosts and the sessions created keep it.
LEMMA EnsureKeeps ==
    ASSUME SnapInv,
           \/ \E h \in SnapHosts : EnsureList(h)
           \/ \E k \in Keys : job.at = "ensure" /\ EnsureCreate(k)
    PROVE  SnapInv'
  <1>1. ASSUME job.at = "ensure"
        PROVE  /\ job \in EnsureJobs /\ job.snap \in Snaps /\ job.remap \in Remaps /\ Matched(job.remap, job.snap)
               /\ job.hosts \subseteq SnapHosts /\ job.create \subseteq Keys /\ tmux \subseteq SnapSessions
    BY <1>1, JobParts DEF SnapInv, SnapTyped, EnsureJobs
  <1>2. ASSUME NEW h \in SnapHosts, EnsureList(h) PROVE SnapInv'
    <2> DEFINE mine == {k \in DOMAIN job.snap.meta : k[1] = h}
               live == {s \in tmux : s.host = h}
               dead == {k \in mine : /\ Alive(k, job.snap.meta[k], live) = {} /\ job.snap.meta[k].restorable
                                      /\ job.kind # "layout"}
               f == Listed(mine \ dead, job.snap, live)
               g == [k \in mine |-> Failed]
    <2>1. job.at = "ensure"
      BY <1>2 DEF EnsureList
    <2>2. mine \subseteq Keys
      BY <1>1, <2>1 DEF Snaps, Metas
    <2>3. mine \ dead \in SUBSET Keys /\ f \in [mine \ dead -> Outcomes] /\ Matched(f, job.snap)
      <3>1. mine \ dead \in SUBSET DOMAIN job.snap.meta /\ live \in SUBSET SnapSessions
        BY <1>1, <2>1
      <3> HIDE DEF dead, live, mine
      <3> QED BY <1>1, <2>1, <3>1, ListOutcomes
    <2>4. g \in [mine -> Outcomes] /\ Matched(g, job.snap)
      BY DEF Failed, Outcomes, Matched
    <2>5. \/ job' = [job EXCEPT !.hosts = job.hosts \ {h}, !.create = dead, !.remap = Merge(job.remap, f)]
          \/ job' = [job EXCEPT !.hosts = job.hosts \ {h}, !.remap = Merge(job.remap, g)]
      BY <1>2 DEF EnsureList, Listed
    <2>6. UNCHANGED <<desk, tmux, saved, caps, opLock, section, seenSessions>>
      BY <1>2 DEF EnsureList
    <2>7. dead \subseteq Keys
      BY <2>2
    <2> HIDE DEF f, g, dead, live, mine
    <2>8. /\ Merge(job.remap, f) \in Remaps /\ Matched(Merge(job.remap, f), job.snap)
          /\ Merge(job.remap, g) \in Remaps /\ Matched(Merge(job.remap, g), job.snap)
      BY <1>1, <2>1, <2>2, <2>3, <2>4, MoreOutcomes
    <2>9. CASE job' = [job EXCEPT !.hosts = job.hosts \ {h}, !.create = dead, !.remap = Merge(job.remap, f)]
      BY <1>1, <2>1, <2>6, <2>7, <2>8, <2>9, JobStep DEF SnapInv
    <2>10. CASE job' = [job EXCEPT !.hosts = job.hosts \ {h}, !.remap = Merge(job.remap, g)]
      <3>1. job' = [job EXCEPT !.hosts = job.hosts \ {h}, !.create = job.create, !.remap = Merge(job.remap, g)]
        BY <1>1, <2>1, <2>10 DEF EnsureJobs
      <3> QED BY <1>1, <2>1, <2>6, <2>8, <3>1, JobStep DEF SnapInv
    <2> QED BY <2>5, <2>9, <2>10
  <1>3. ASSUME NEW k \in Keys, job.at = "ensure", EnsureCreate(k) PROVE SnapInv'
    <2> DEFINE one(o) == [x \in {k} |-> o]
    <2>1. UNCHANGED <<desk, saved, caps, opLock, section, seenSessions>> /\ job.create \ {k} \in SUBSET Keys
      BY <1>1, <1>3 DEF EnsureCreate
    <2>2. ASSUME NEW o \in Outcomes, o.status # "reattached", NEW T \in SUBSET SnapSessions, tmux' = T,
                 \A s, u \in T : KeyOf(s) = KeyOf(u) => s = u,
                 job' = [job EXCEPT !.create = job.create \ {k}, !.remap = Merge(job.remap, one(o))]
          PROVE  SnapInv'
      <3>1. one(o) \in [{k} -> Outcomes] /\ Matched(one(o), job.snap) /\ {k} \in SUBSET Keys
        BY <2>2 DEF Matched
      <3> HIDE DEF one
      <3>2. Merge(job.remap, one(o)) \in Remaps /\ Matched(Merge(job.remap, one(o)), job.snap)
        BY <1>1, <1>3, <3>1, MoreOutcomes
      <3>3. job' = [job EXCEPT !.hosts = job.hosts, !.create = job.create \ {k}, !.remap = Merge(job.remap, one(o))]
        BY <1>1, <1>3, <2>2 DEF EnsureJobs
      <3>4. job.hosts \in SUBSET SnapHosts /\ tmux' \subseteq SnapSessions /\ \A s, u \in tmux' : KeyOf(s) = KeyOf(u) => s = u
        BY <1>1, <1>3, <2>2
      <3> QED BY <1>3, <2>1, <3>2, <3>3, <3>4, JobStep
    <2>3. CASE /\ job' = [job EXCEPT !.create = job.create \ {k}, !.remap = Merge(job.remap, one(Failed))] /\ UNCHANGED tmux
      <3>1. Failed \in Outcomes /\ Failed.status # "reattached"
        BY DEF Failed, Outcomes
      <3> QED BY <1>1, <1>3, <2>2, <2>3, <3>1 DEF SnapInv
    <2>4. ASSUME NEW c \in NextCode(k[1], tmux), NEW n \in Names,
                 tmux' = tmux \cup {[host |-> k[1], code |-> c, name |-> n]},
                 job' = [job EXCEPT !.create = job.create \ {k},
                                    !.remap = Merge(job.remap, one(Rebuilt([host |-> k[1], code |-> c, name |-> n])))]
          PROVE  SnapInv'
      <3> DEFINE s == [host |-> k[1], code |-> c, name |-> n]
      <3>1. c \in Codes /\ k[1] \in SnapHosts /\ \A u \in tmux : KeyOf(u) # <<k[1], c>>
        BY DEF NextCode, KeyOf, Keys
      <3>2. s \in SnapSessions /\ KeyOf(s) = <<k[1], c>>
        BY <3>1 DEF SnapSessions, KeyOf
      <3>3. tmux' = tmux \cup {s}
        BY <2>4
      <3>4. job' = [job EXCEPT !.create = job.create \ {k}, !.remap = Merge(job.remap, one(Rebuilt(s)))]
        BY <2>4
      <3> HIDE DEF s, one
      <3>5. Rebuilt(s) \in Outcomes /\ Rebuilt(s).status # "reattached"
        BY <3>2 DEF Rebuilt, Outcomes
      <3>6. tmux \cup {s} \in SUBSET SnapSessions /\ \A x, u \in tmux \cup {s} : KeyOf(x) = KeyOf(u) => x = u
        BY <1>1, <1>3, <3>1, <3>2 DEF SnapInv
      <3> QED BY <2>2, <3>3, <3>4, <3>5, <3>6
    <2>5. \/ /\ job' = [job EXCEPT !.create = job.create \ {k}, !.remap = Merge(job.remap, one(Failed))] /\ UNCHANGED tmux
          \/ \E c \in NextCode(k[1], tmux), n \in Names :
                /\ tmux' = tmux \cup {[host |-> k[1], code |-> c, name |-> n]}
                /\ job' = [job EXCEPT !.create = job.create \ {k},
                                      !.remap = Merge(job.remap, one(Rebuilt([host |-> k[1], code |-> c, name |-> n])))]
      BY <1>3 DEF EnsureCreate
    <2> QED BY <2>3, <2>4, <2>5
  <1> QED BY <1>2, <1>3

\* A layout whose panes follow their sessions has the same tabs.
LEMMA LayoutRemapped ==
    ASSUME NEW d \in Desks, NEW r \in Remaps, NEW only \in BOOLEAN
    PROVE  LET e == [d EXCEPT !.tabs = remapLayoutSessions(d.tabs, r, only)]
           IN /\ e \in Desks /\ DOMAIN e.tabs = DOMAIN d.tabs /\ (Consistent(d) <=> Consistent(e))
              /\ e.tabs = remapLayoutSessions(d.tabs, r, only)
  <1> DEFINE f == remapLayoutSessions(d.tabs, r, only)
  <1>1. ASSUME NEW t \in DOMAIN d.tabs PROVE f[t] \in SnapPanes
    <2> DEFINE p == d.tabs[t]
    <2>1. p \in SnapPanes /\ f[t] = remapPane(p, r, only)
      BY DeskParts DEF remapLayoutSessions
    <2> HIDE DEF p, f
    <2>2. CASE KeyOf(p) \notin DOMAIN r \/ (only /\ ~p.term)
      BY <2>1, <2>2 DEF remapPane
    <2>3. CASE ~(KeyOf(p) \notin DOMAIN r \/ (only /\ ~p.term)) /\ r[KeyOf(p)].status = "failed"
      <3>1. f[t] = [p EXCEPT !.term = TRUE]
        BY <2>1, <2>3 DEF remapPane
      <3> QED BY <2>1, <3>1 DEF SnapPanes
    <2>4. CASE ~(KeyOf(p) \notin DOMAIN r \/ (only /\ ~p.term)) /\ r[KeyOf(p)].status # "failed"
      <3>1. f[t] = Pane(r[KeyOf(p)].to)
        BY <2>1, <2>4 DEF remapPane
      <3>2. r[KeyOf(p)] \in Outcomes
        BY <2>4 DEF Remaps
      <3>3. r[KeyOf(p)].to \in SnapSessions
        BY <2>4, <3>2 DEF Outcomes
      <3> QED BY <3>1, <3>3 DEF Pane, SnapPanes, SnapSessions
    <2> QED BY <2>2, <2>3, <2>4
  <1>2. DOMAIN f = DOMAIN d.tabs /\ f = [t \in DOMAIN d.tabs |-> f[t]]
    BY DEF remapLayoutSessions
  <1> HIDE DEF f
  <1>3. f \in PaneMaps
    <2>1. f \in [DOMAIN d.tabs -> SnapPanes]
      BY <1>1, <1>2
    <2> QED BY <2>1, DeskParts, PaneMap
  <1> QED BY <1>2, <1>3 DEF Desks, Consistent, f

\* The session store has only sessions, and for every session that a record
\* was found to be it has the one of that code that was set last.
LEMMA StoreSynced ==
    ASSUME NEW r \in Remaps, seenSessions \subseteq SnapSessions, NEW z \in syncSessionStore(r)
    PROVE  /\ z \subseteq SnapSessions
           /\ \A k \in DOMAIN r : r[k].status # "failed" =>
                 \E j \in DOMAIN r : r[j] # Failed /\ r[j].to \in z /\ KeyOf(r[j].to) = KeyOf(r[k].to)
  <1>1. \A k \in DOMAIN r : r[k] \in Outcomes
    BY DEF Remaps
  <1>2. ASSUME NEW k \in DOMAIN r, r[k] # Failed PROVE r[k].to \in SnapSessions
    <2>1. r[k].status # "failed"
      BY <1>1, <1>2 DEF Failed, Outcomes
    <2> QED BY <1>1, <2>1 DEF Outcomes
  <1>3. Found(r) \subseteq SnapSessions
    BY <1>2 DEF Found
  <1>4. PICK l \in SUBSET Found(r) :
             /\ \A n \in Found(r) : \E s \in l : \A u \in l : KeyOf(u) = KeyOf(n) <=> u = s
             /\ z = {s \in seenSessions : KeyOf(s) \notin DOMAIN r /\ \A n \in Found(r) : KeyOf(n) # KeyOf(s)} \cup l
    BY DEF syncSessionStore
  <1>5. z \subseteq SnapSessions /\ l \subseteq z
    BY <1>3, <1>4
  <1>6. ASSUME NEW k \in DOMAIN r, r[k].status # "failed"
        PROVE  \E j \in DOMAIN r : r[j] # Failed /\ r[j].to \in z /\ KeyOf(r[j].to) = KeyOf(r[k].to)
    <2>1. r[k] # Failed
      BY <1>6 DEF Failed
    <2>2. r[k].to \in Found(r)
      BY <2>1 DEF Found
    <2>3. PICK s \in l : KeyOf(s) = KeyOf(r[k].to)
      BY <1>4, <2>2
    <2>4. s \in Found(r) /\ s \in z
      BY <1>4, <1>5
    <2> QED BY <2>3, <2>4 DEF Found
  <1> QED BY <1>5, <1>6

\* The end of an operation keeps it, if the stores stay sound.
LEMMA ReleaseKeeps ==
    ASSUME SnapInv, job.at # "off", Release, UNCHANGED <<tmux, caps>>,
           desk' \in Desks, Consistent(desk'), seenSessions' \subseteq SnapSessions,
           saved' \in [snap : Snaps \cup {None}, prev : Snaps \cup {None}]
    PROVE  SnapInv'
  <1>1. section' \in [busy : BOOLEAN, snap : Snaps \cup {None}, edit : Keys \cup {None}]
    <2>1. saved'.snap \in Snaps \cup {None}
      OBVIOUS
    <2> QED BY <2>1 DEF Release, SnapInv, SnapTyped
  <1>2. job' = Off /\ job'.at = "off" /\ opLock' = None
    BY DEF Release, Off
  <1> QED BY <1>1, <1>2, SnapAssumption DEF SnapInv, SnapTyped, Covered

\* Starting an operation keeps it.
LEMMA StartKeeps ==
    ASSUME SnapInv, NEW kind \in Kinds, NEW s \in Snaps, Start(kind, s)
    PROVE  SnapInv'
  <1>1. /\ {k[1] : k \in DOMAIN s.meta} \subseteq SnapHosts
        /\ << >> \in Remaps /\ DOMAIN << >> = {}
    BY EmptyMaps DEF Snaps, Metas, Keys
  <1>2. job' \in EnsureJobs /\ job'.at = "ensure" /\ job'.remap = << >> /\ job'.snap = s
    BY <1>1 DEF Start, EnsureJobs
  <1>3. Matched(job'.remap, job'.snap)
    BY <1>1, <1>2 DEF Matched
  <1>4. section' \in [busy : BOOLEAN, snap : Snaps \cup {None}, edit : Keys \cup {None}]
    BY DEF Start, SnapInv, SnapTyped
  <1> QED BY <1>2, <1>3, <1>4 DEF Start, SnapInv, SnapTyped, Consistent, Covered

\* Rebuilding sessions, and the restore that builds what undo brings back.
LEMMA RestoreKeepsInv ==
    ASSUME SnapInv,
           \/ rebuildAllSessions \/ StartBuild \/ applySnapshotRestore
           \/ \E h \in SnapHosts : PrevHost(h)
    PROVE  SnapInv'
  <1>0. /\ desk \in Desks /\ Consistent(desk) /\ seenSessions \subseteq SnapSessions /\ tmux \subseteq SnapSessions
        /\ saved \in [snap : Snaps \cup {None}, prev : Snaps \cup {None}]
    BY DEF SnapInv, SnapTyped
  <1>1. CASE rebuildAllSessions
    <2>1. job.at = "ensure" /\ job.remap \in Remaps
      BY <1>1, JobParts DEF rebuildAllSessions, Ensured, SnapInv
    <2>2. desk' = [desk EXCEPT !.tabs = remapLayoutSessions(desk.tabs, job.remap, TRUE)]
      BY <1>1 DEF rebuildAllSessions, RebuildTabs
    <2>3. desk' \in Desks /\ Consistent(desk')
      BY <1>0, <2>1, <2>2, LayoutRemapped
    <2>4. seenSessions' \subseteq SnapSessions
      BY <1>0, <1>1, <2>1, StoreSynced DEF rebuildAllSessions
    <2>5. saved' = saved /\ Release /\ UNCHANGED <<tmux, caps>>
      BY <1>1 DEF rebuildAllSessions
    <2> QED BY <1>0, <2>1, <2>3, <2>4, <2>5, ReleaseKeeps
  <1>2. CASE StartBuild
    <2>1. job.at = "ensure" /\ job \in EnsureJobs
      BY <1>2, JobParts DEF StartBuild, Ensured, SnapInv
    <2>2. job' \in BuildJobs /\ job'.at = "build" /\ job'.b.desk = desk /\ job'.remap = job.remap /\ job'.snap = job.snap
      BY <1>0, <1>2, <2>1, BuildBegins DEF StartBuild, EnsureJobs, BuildJobs
    <2> QED BY <1>2, <2>1, <2>2 DEF StartBuild, SnapInv, SnapTyped, Consistent, Covered
  <1>3. CASE applySnapshotRestore
    <2> DEFINE target == [job.snap.desk EXCEPT !.tabs = remapLayoutSessions(job.snap.desk.tabs, job.remap, FALSE)]
    <2>1. /\ job \in BuildJobs /\ job.at = "build" /\ job.snap \in Snaps /\ job.remap \in Remaps
          /\ job.b \in Builds
      BY <1>3, JobParts DEF applySnapshotRestore, SnapInv, BuildJobs
    <2>2. target \in Desks
      BY <2>1, LayoutRemapped DEF Snaps
    <2>3. /\ desk' = desk \/ (Consistent(target) /\ desk' = target)
          /\ seenSessions' = seenSessions \/ seenSessions' \in syncSessionStore(job.remap)
      BY <1>3 DEF applySnapshotRestore, replaceTabSnapshot
    <2>4. desk' \in Desks /\ Consistent(desk') /\ seenSessions' \subseteq SnapSessions
      BY <1>0, <2>1, <2>2, <2>3, StoreSynced
    <2>5. [desk |-> job.b.desk, meta |-> job.b.meta] \in Snaps
      BY <2>1 DEF Builds, Snaps
    <2>6. saved' \in [snap : Snaps \cup {None}, prev : Snaps \cup {None}]
      BY <1>0, <1>3, <2>5 DEF applySnapshotRestore
    <2>7. Release /\ UNCHANGED <<tmux, caps>> /\ job.at # "off"
      BY <1>3 DEF applySnapshotRestore
    <2> QED BY <2>4, <2>6, <2>7, ReleaseKeeps
  <1>4. ASSUME NEW h \in SnapHosts, PrevHost(h) PROVE SnapInv'
    <2>1. job \in BuildJobs /\ job.at = "build" /\ job.b \in Builds
      BY <1>4, JobParts DEF PrevHost, SnapInv, BuildJobs
    <2>2. PICK live \in SessionLists(h), known \in BOOLEAN : job' = [job EXCEPT !.b = BuildHost(job.b, h, live, known)]
      BY <1>4 DEF PrevHost
    <2>3. BuildHost(job.b, h, live, known) \in Builds /\ BuildHost(job.b, h, live, known).desk = job.b.desk
      BY <1>0, <2>1, HostBuilt
    <2>4. /\ job' \in BuildJobs /\ job'.at = "build" /\ job'.b.desk = job.b.desk /\ job'.opened = job.opened
          /\ job'.remap = job.remap /\ job'.snap = job.snap
      BY <2>1, <2>2, <2>3 DEF BuildJobs
    <2> QED BY <1>4, <2>1, <2>4 DEF PrevHost, SnapInv, SnapTyped, Consistent, Covered
  <1> QED BY <1>1, <1>2, <1>3, <1>4

\* The invariant holds throughout.
LEMMA SnapKeepsInv == SnapSpec => []SnapInv
  <1>1. ASSUME SnapInv, [SnapInput \/ SnapProgress]_snapVars PROVE SnapInv'
    <2>1. CASE UNCHANGED snapVars
      BY <1>1, <2>1 DEF snapVars, SnapInv, SnapTyped, Consistent, Covered, Matched
    <2>2. CASE SnapInput
      <3>1. ASSUME NEW kind \in {"sessions", "layout", "all"}, StartRestore(kind) PROVE SnapInv'
        <4>1. section.snap \in Snaps
          BY <1>1, <3>1 DEF StartRestore, SnapInv, SnapTyped
        <4> QED BY <1>1, <3>1, <4>1, StartKeeps DEF StartRestore, Kinds
      <3>2. CASE undoLastRestore
        <4>1. saved.prev \in Snaps
          BY <1>1, <3>2 DEF undoLastRestore, SnapInv, SnapTyped
        <4> QED BY <1>1, <3>2, <4>1, StartKeeps DEF undoLastRestore, Kinds
      <3>3. CASE \/ handleCapture \/ Remount \/ OtherOperation
                 \/ (\E k \in Keys : EditCell(k)) \/ (\E known \in BOOLEAN : handleCommitCwd(known))
        BY <1>1, <3>3, SectionKeeps
      <3>4. CASE \/ \E t \in SnapTabs : CloseSnapTab(t) \/ \E s \in tmux : OpenTab(t, s)
                 \/ \E h \in SnapHosts : (\E ended \in BOOLEAN : TmuxRestarts(h, ended)) \/ (\E n \in Names : SessionStarts(h, n))
        BY <1>1, <3>4, UserKeeps
      <3> QED BY <2>2, <3>1, <3>2, <3>3, <3>4 DEF SnapInput
    <2>3. CASE SnapProgress
      <3>1. CASE \E h \in SnapHosts : EnsureList(h) \/ PrevHost(h) \/ \E c \in caps : CaptureHost(c, h)
        BY <1>1, <3>1, SectionKeeps, EnsureKeeps, RestoreKeepsInv
      <3>2. CASE \E k \in Keys : job.at = "ensure" /\ EnsureCreate(k)
        BY <1>1, <3>2, EnsureKeeps
      <3>3. CASE \E c \in caps : Captured(c)
        BY <1>1, <3>3, SectionKeeps
      <3>4. CASE rebuildAllSessions \/ StartBuild \/ applySnapshotRestore
        BY <1>1, <3>4, RestoreKeepsInv
      <3> QED BY <2>3, <3>1, <3>2, <3>3, <3>4 DEF SnapProgress
    <2> QED BY <1>1, <2>1, <2>2, <2>3
  <1> QED BY <1>1, SnapStart, PTL DEF SnapSpec

\* Whatever snapshots are restored and undone, and whichever write fails, the
\* tabs a workspace or the navigation names are open, and codes are unique:
\* for any hosts, tabs, codes and sessions (replaceTabSnapshot, buildSnapshot).
THEOREM NavigationAlwaysSound == SnapSpec => []NavigationSound
  <1>1. SnapInv => NavigationSound
    <2>1. SUFFICES ASSUME SnapInv PROVE NavigationSound
      OBVIOUS
    <2>2. DOMAIN desk.tabs \subseteq SnapTabs /\ \A t \in DOMAIN desk.tabs : desk.tabs[t] \in SnapPanes
      BY <2>1, DeskParts DEF SnapInv, SnapTyped
    <2>3. \A t \in DOMAIN desk.tabs : KeyOf(desk.tabs[t]) \in Keys /\ desk.tabs[t].name \in Names
      BY <2>2 DEF SnapPanes, KeyOf, Keys
    <2>4. job # Off <=> opLock = "snapshot"
      BY <2>1, JobParts DEF SnapInv
    <2> QED BY <2>1, <2>2, <2>3, <2>4 DEF SnapInv, SnapTyped, NavigationSound, SnapTypeOK
  <1> QED BY <1>1, SnapKeepsInv, PTL

\* A restore replaces no tab that undo would not bring back; it points a pane
\* that was found alive only to a session of its recorded name; the session
\* store knows the session of every pane it points, or the session of another
\* record that was given the same code meanwhile; and a rebuild leaves alone
\* what runs: for any steps of the user, the hosts and other operations during
\* its requests (applySnapshotRestore, syncSessionStore, rebuildAllSessions).
THEOREM RestoreAlwaysKeepsWork == SnapSpec => RestoreKeepsWork
  <1>1. ASSUME SnapInv, applySnapshotRestore, desk' # desk
        PROVE  /\ \A t \in DOMAIN desk.tabs : t \in DOMAIN saved'.prev.desk.tabs \/ t \in job.opened
               /\ \A t \in DOMAIN desk'.tabs :
                     LET p == desk'.tabs[t]
                         k == KeyOf(job.snap.desk.tabs[t])
                     IN ~p.term /\ k \in DOMAIN job.remap =>
                          /\ \E s \in seenSessions' :
                                /\ KeyOf(s) = KeyOf(p)
                                /\ s.name # p.name => \E j \in DOMAIN job.remap \ {k} : job.remap[j] # Failed /\ job.remap[j].to = s
                          /\ job.remap[k].status = "reattached" => p.name = job.snap.meta[k].name
    <2>1. /\ job.at = "build" /\ job.snap \in Snaps /\ job.remap \in Remaps /\ job \in BuildJobs
          /\ seenSessions \subseteq SnapSessions /\ Matched(job.remap, job.snap)
      BY <1>1, JobParts DEF applySnapshotRestore, SnapInv, SnapTyped
    <2>2. saved'.prev.desk = job.b.desk
      BY <1>1 DEF applySnapshotRestore, SnapInv, SnapTyped
    <2>3. \A t \in DOMAIN desk.tabs : t \in DOMAIN saved'.prev.desk.tabs \/ t \in job.opened
      BY <1>1, <2>1, <2>2 DEF SnapInv, Covered
    <2> DEFINE target == [job.snap.desk EXCEPT !.tabs = remapLayoutSessions(job.snap.desk.tabs, job.remap, FALSE)]
    <2>4. desk' = target /\ seenSessions' \in syncSessionStore(job.remap)
      <3>1. \E throws \in BOOLEAN :
               /\ desk' = replaceTabSnapshot(desk, target, throws)
               /\ seenSessions' \in IF throws \/ ~Consistent(target) THEN {seenSessions} ELSE syncSessionStore(job.remap)
        BY <1>1 DEF applySnapshotRestore
      <3> HIDE DEF target
      <3> QED BY <1>1, <3>1 DEF replaceTabSnapshot
    <2>5. desk'.tabs = remapLayoutSessions(job.snap.desk.tabs, job.remap, FALSE)
      BY <2>1, <2>4, LayoutRemapped DEF Snaps
    <2>6. ASSUME NEW t \in DOMAIN desk'.tabs, ~desk'.tabs[t].term, KeyOf(job.snap.desk.tabs[t]) \in DOMAIN job.remap
          PROVE  LET p == desk'.tabs[t]
                     k == KeyOf(job.snap.desk.tabs[t])
                 IN /\ \E s \in seenSessions' :
                          /\ KeyOf(s) = KeyOf(p)
                          /\ s.name # p.name => \E j \in DOMAIN job.remap \ {k} : job.remap[j] # Failed /\ job.remap[j].to = s
                    /\ job.remap[k].status = "reattached" => p.name = job.snap.meta[k].name
      <3> DEFINE q == job.snap.desk.tabs[t]
                 k == KeyOf(q)
                 to == job.remap[k].to
      <3>1. t \in DOMAIN job.snap.desk.tabs /\ desk'.tabs[t] = remapPane(q, job.remap, FALSE) /\ q \in SnapPanes
        BY <2>1, <2>5, DeskParts DEF remapLayoutSessions, Snaps
      <3>2. job.remap[k] \in Outcomes
        BY <2>1, <2>6 DEF Remaps
      <3>3. job.remap[k].status # "failed"
        <4>1. SUFFICES ASSUME job.remap[k].status = "failed" PROVE desk'.tabs[t].term
          BY <2>6
        <4>2. desk'.tabs[t] = [q EXCEPT !.term = TRUE]
          BY <2>6, <3>1, <4>1 DEF remapPane
        <4> QED BY <3>1, <4>2 DEF SnapPanes
      <3>4. desk'.tabs[t] = Pane(to)
        BY <2>6, <3>1, <3>3 DEF remapPane
      <3>5. to \in SnapSessions
        BY <3>2, <3>3 DEF Outcomes
      <3>6. desk'.tabs[t].host = to.host /\ desk'.tabs[t].code = to.code /\ desk'.tabs[t].name = to.name
        BY <3>4 DEF Pane
      <3>7. PICK j \in DOMAIN job.remap :
                 job.remap[j] # Failed /\ job.remap[j].to \in seenSessions' /\ KeyOf(job.remap[j].to) = KeyOf(to)
        BY <2>1, <2>4, <2>6, <3>3, StoreSynced
      <3>8. KeyOf(to) = KeyOf(desk'.tabs[t])
        BY <3>6 DEF KeyOf
      <3>9. j = k => job.remap[j].to.name = desk'.tabs[t].name
        BY <3>6
      <3>10. job.remap[k].status = "reattached" => desk'.tabs[t].name = job.snap.meta[k].name
        BY <2>1, <2>6, <3>6 DEF Matched
      <3> HIDE DEF k, to, q
      <3>11. \E s \in seenSessions' :
                /\ KeyOf(s) = KeyOf(desk'.tabs[t])
                /\ s.name # desk'.tabs[t].name => \E i \in DOMAIN job.remap \ {k} : job.remap[i] # Failed /\ job.remap[i].to = s
        <4>1. job.remap[j].to \in seenSessions' /\ j \in DOMAIN job.remap
          BY <3>7
        <4> QED BY <3>7, <3>8, <3>9, <4>1
      <3> QED BY <3>10, <3>11 DEF k, q
    <2> QED BY <2>3, <2>6
  <1>2. ASSUME SnapInv, rebuildAllSessions
        PROVE  /\ DOMAIN desk'.tabs = DOMAIN desk.tabs
               /\ \A t \in DOMAIN desk.tabs : ~desk.tabs[t].term => desk'.tabs[t] = desk.tabs[t]
    <2>1. desk \in Desks /\ job.remap \in Remaps
      BY <1>2, JobParts DEF rebuildAllSessions, Ensured, SnapInv, SnapTyped
    <2>2. desk' = [desk EXCEPT !.tabs = remapLayoutSessions(desk.tabs, job.remap, TRUE)]
      BY <1>2 DEF rebuildAllSessions, RebuildTabs
    <2>3. desk'.tabs = remapLayoutSessions(desk.tabs, job.remap, TRUE)
      BY <2>1, <2>2, LayoutRemapped
    <2> QED BY <2>3 DEF remapLayoutSessions, remapPane
  <1>3. SnapInv => [UndoHoldsTabs /\ PaneKeepsItsSession /\ RebuildLeavesLivePanes]_snapVars
    <2>1. SnapInv => UndoHoldsTabs /\ PaneKeepsItsSession
      BY <1>1 DEF UndoHoldsTabs, PaneKeepsItsSession
    <2>2. SnapInv => RebuildLeavesLivePanes
      BY <1>2 DEF RebuildLeavesLivePanes
    <2> QED BY <2>1, <2>2
  <1> QED BY <1>3, SnapKeepsInv, PTL DEF RestoreKeepsWork

-----------------------------------------------------------------------------
(* The resume templates.  A pending result waits for the live request of  *)
(* its row, which carries its host and word; request numbers are unique.  *)

Verdicts == {"none", "pending", "resolved", "unresolved", "unverifiable"}
TplTests == [rev : Nat \ {0}, row : Rows, host : TplHosts, word : Words]

TplTypeOK ==
    /\ tplHosts \subseteq TplHosts /\ tplHosts # {} /\ picked \in TplHosts
    /\ stored \in [Rows -> Words] /\ draft \in [Rows -> Words \cup {NoWord}]
    /\ results \in [Rows -> [host : TplHosts \cup {NoWord}, word : Words \cup {NoWord}, verdict : Verdicts]]
    /\ liveRequest \in [Rows -> Nat] /\ requestSeq \in Nat /\ testsAsked \subseteq TplTests
    /\ wrote \in [Rows -> Nat]

TplInv ==
    /\ TplTypeOK
    /\ \A q \in testsAsked : q.rev <= wrote[q.row] /\ \A p \in testsAsked : p.rev = q.rev => p = q
    /\ \A r \in Rows : wrote[r] <= requestSeq /\ liveRequest[r] \in {0, wrote[r]}
    /\ \A r \in Rows : results[r].verdict = "pending" =>
           /\ liveRequest[r] = wrote[r]
           /\ \E q \in testsAsked : /\ q.row = r /\ q.rev = wrote[r]
                                    /\ q.host = results[r].host /\ q.word = results[r].word

\* The pages of a host begin without a test under way.
LEMMA TplStart ==
    ASSUME TplInit
    PROVE  TplInv
  <1>1. Default \in Words
    BY TplAssumption DEF Default
  <1> QED BY <1>1, TplAssumption DEF TplInit, TplInv, TplTypeOK, NoResult, Verdicts

\* The host of the page is one of the hosts, the words shown are words.
LEMMA HostPicked ==
    ASSUME TplTypeOK
    PROVE  hostId \in TplHosts /\ \A r \in Rows : liveValue(r) \in Words
  <1>1. hostId \in TplHosts
    BY DEF TplTypeOK, hostId
  <1>2. \A r \in Rows : liveValue(r) \in Words
    BY DEF TplTypeOK, liveValue
  <1> QED BY <1>1, <1>2

\* Edits, reverts, the choice of a host and the removal of one keep it.
LEMMA TplUserSteps ==
    ASSUME TplInv,
           \/ \E r \in Rows : handleCommit(r) \/ handleRevert(r)
           \/ \E r \in Rows, w \in Words : handleChange(r, w) \/ setTemplate(r, w)
           \/ \E h \in TplHosts : handleHostChange(h) \/ TplHostRemoved(h)
           \/ handleResetAll
    PROVE  TplInv'
  <1>1. Default \in Words /\ NoResult \in [host : TplHosts \cup {NoWord}, word : Words \cup {NoWord}, verdict : Verdicts]
        /\ NoResult.verdict # "pending"
    BY TplAssumption DEF Default, NoResult, Verdicts
  <1> HIDE DEF NoResult, Default
  <1>2. ASSUME NEW r \in Rows, handleCommit(r) PROVE TplInv'
    BY <1>2 DEF handleCommit, TplInv, TplTypeOK, Clear
  <1>3. ASSUME NEW r \in Rows, handleRevert(r) PROVE TplInv'
    BY <1>1, <1>3 DEF handleRevert, TplInv, TplTypeOK, Clear
  <1>4. ASSUME NEW r \in Rows, NEW w \in Words, handleChange(r, w) PROVE TplInv'
    BY <1>1, <1>4 DEF handleChange, TplInv, TplTypeOK, Clear
  <1>5. ASSUME NEW r \in Rows, NEW w \in Words, setTemplate(r, w) PROVE TplInv'
    BY <1>5 DEF setTemplate, TplInv, TplTypeOK
  <1>6. ASSUME NEW h \in TplHosts, handleHostChange(h) PROVE TplInv'
    BY <1>1, <1>6 DEF handleHostChange, TplInv, TplTypeOK
  <1>7. ASSUME NEW h \in TplHosts, TplHostRemoved(h) PROVE TplInv'
    BY <1>7 DEF TplHostRemoved, TplInv, TplTypeOK
  <1>8. CASE handleResetAll
    BY <1>1, <1>8 DEF handleResetAll, TplInv, TplTypeOK
  <1> QED BY <1>2, <1>3, <1>4, <1>5, <1>6, <1>7, <1>8

\* A new test takes a new number and is the row's last.
LEMMA RunTestKeeps ==
    ASSUME TplInv, NEW r \in Rows, runTest(r)
    PROVE  TplInv'
  <1> DEFINE n == requestSeq + 1
             h == hostId
             w == liveValue(r)
             q == [rev |-> n, row |-> r, host |-> h, word |-> w]
             x == [host |-> h, word |-> w, verdict |-> "pending"]
  <1>1. /\ requestSeq' = n /\ liveRequest' = [liveRequest EXCEPT ![r] = n] /\ testsAsked' = testsAsked \cup {q}
        /\ results' = [results EXCEPT ![r] = x] /\ wrote' = [wrote EXCEPT ![r] = n]
        /\ UNCHANGED <<tplHosts, picked, stored, draft>>
    BY DEF runTest
  <1>2. h \in TplHosts /\ w \in Words
    BY HostPicked DEF TplInv
  <1>3. n \in Nat /\ \A s \in Rows : wrote[s] \in Nat /\ wrote[s] < n
    BY DEF TplInv, TplTypeOK
  <1> HIDE DEF n, h, w
  <1>4. q \in TplTests /\ q.rev = n /\ q.row = r /\ q.host = h /\ q.word = w
    BY <1>2, <1>3 DEF TplTests
  <1>5. x \in [host : TplHosts \cup {NoWord}, word : Words \cup {NoWord}, verdict : Verdicts]
        /\ x.host = h /\ x.word = w
    BY <1>2 DEF Verdicts
  <1> HIDE DEF q, x
  <1>6. TplTypeOK'
    BY <1>1, <1>3, <1>4, <1>5 DEF TplInv, TplTypeOK
  <1>7. \A p \in testsAsked : p \in TplTests /\ p.rev \in Nat /\ p.row \in Rows /\ p.rev < n
    BY <1>3 DEF TplInv, TplTypeOK, TplTests
  <1>8. \A s \in Rows : wrote'[s] = IF s = r THEN n ELSE wrote[s]
    BY <1>1 DEF TplInv, TplTypeOK
  <1>9. \A p \in testsAsked' : p.rev <= wrote'[p.row] /\ \A o \in testsAsked' : o.rev = p.rev => o = p
    BY <1>1, <1>3, <1>4, <1>7, <1>8 DEF TplInv
  <1>10. \A s \in Rows : wrote'[s] <= requestSeq' /\ liveRequest'[s] \in {0, wrote'[s]}
    BY <1>1, <1>3, <1>8 DEF TplInv, TplTypeOK
  <1>11. ASSUME NEW s \in Rows, results'[s].verdict = "pending"
         PROVE  /\ liveRequest'[s] = wrote'[s]
                /\ \E p \in testsAsked' : /\ p.row = s /\ p.rev = wrote'[s]
                                          /\ p.host = results'[s].host /\ p.word = results'[s].word
    <2>1. CASE s = r
      BY <1>1, <1>4, <1>5, <1>8, <2>1 DEF TplInv, TplTypeOK
    <2>2. CASE s # r
      BY <1>1, <1>8, <1>11, <2>2 DEF TplInv, TplTypeOK
    <2> QED BY <2>1, <2>2
  <1> QED BY <1>6, <1>9, <1>10, <1>11 DEF TplInv

\* An answer ends the test of its row or belongs to one that was replaced.
LEMMA AnswerKeeps ==
    ASSUME TplInv, NEW q \in testsAsked, NEW v \in {"resolved", "unresolved", "unverifiable"}, TestAnswers(q, v)
    PROVE  TplInv'
  <1> DEFINE x == [host |-> q.host, word |-> q.word, verdict |-> v]
  <1>1. settle(q, v) /\ testsAsked' = testsAsked \ {q}
        /\ UNCHANGED <<tplHosts, picked, stored, draft, liveRequest, requestSeq>>
    BY DEF TestAnswers
  <1>2. q \in TplTests /\ q.row \in Rows /\ q.host \in TplHosts /\ q.word \in Words /\ q.rev \in Nat
    BY DEF TplInv, TplTypeOK, TplTests
  <1>3. wrote' = wrote
    <2>1. wrote' = wrote \/ (liveRequest[q.row] = q.rev /\ wrote' = [wrote EXCEPT ![q.row] = q.rev])
      BY <1>1 DEF settle
    <2>2. wrote \in [Rows -> Nat] /\ liveRequest[q.row] \in {0, wrote[q.row]} /\ q.rev # 0
      BY <1>2 DEF TplInv, TplTypeOK, TplTests
    <2> QED BY <1>2, <2>1, <2>2
  <1>4. /\ results' = results \/ results' = [results EXCEPT ![q.row] = NoResult] \/ results' = [results EXCEPT ![q.row] = x]
        /\ results' = results => liveRequest[q.row] # q.rev
                                 \/ ~(results[q.row].host = q.host /\ results[q.row].word = q.word)
                                 \/ results[q.row] = NoResult \/ results[q.row] = x
    BY <1>1, <1>2 DEF settle, Clear, TplInv, TplTypeOK
  <1>5. /\ x \in [host : TplHosts \cup {NoWord}, word : Words \cup {NoWord}, verdict : Verdicts] /\ x.verdict # "pending"
        /\ NoResult \in [host : TplHosts \cup {NoWord}, word : Words \cup {NoWord}, verdict : Verdicts]
        /\ NoResult.verdict # "pending"
    BY <1>2 DEF Verdicts, NoResult
  <1> HIDE DEF x, NoResult
  <1>6. TplTypeOK'
    BY <1>1, <1>2, <1>3, <1>4, <1>5 DEF TplInv, TplTypeOK
  <1>7. ASSUME NEW r \in Rows, results'[r].verdict = "pending"
        PROVE  /\ liveRequest'[r] = wrote'[r]
               /\ \E p \in testsAsked' : /\ p.row = r /\ p.rev = wrote'[r]
                                         /\ p.host = results'[r].host /\ p.word = results'[r].word
    <2>1. results'[r] = results[r] /\ (r = q.row => results' = results)
      BY <1>2, <1>4, <1>5, <1>7 DEF TplInv, TplTypeOK
    <2>2. PICK p \in testsAsked : p.row = r /\ p.rev = wrote[r] /\ p.host = results[r].host /\ p.word = results[r].word
      BY <1>7, <2>1 DEF TplInv
    <2>3. liveRequest[r] = wrote[r]
      BY <1>7, <2>1 DEF TplInv
    <2>4. p # q
      BY <1>4, <1>5, <1>7, <2>1, <2>2, <2>3
    <2> QED BY <1>1, <1>3, <2>1, <2>2, <2>3, <2>4
  <1> QED BY <1>1, <1>3, <1>6, <1>7 DEF TplInv

\* A row shows the verdict of its last test, and one that it shows as pending
\* has its request under way, for any hosts, rows and words and any number of
\* tests (settle in ResumeTemplateSettings).
THEOREM VerdictsAlwaysLast == TplSpec => []VerdictOfLastTest
  <1>1. ASSUME TplInv, [TplInput \/ TplProgress]_tplVars PROVE TplInv'
    <2>1. CASE TplInput
      BY <1>1, <2>1, TplUserSteps, RunTestKeeps DEF TplInput
    <2>2. CASE TplProgress
      BY <1>1, <2>2, AnswerKeeps DEF TplProgress
    <2>3. CASE UNCHANGED tplVars
      BY <1>1, <2>3 DEF tplVars, TplInv, TplTypeOK
    <2> QED BY <1>1, <2>1, <2>2, <2>3
  <1>2. TplInv => VerdictOfLastTest
    BY DEF TplInv, VerdictOfLastTest, shownResult
  <1> QED BY <1>1, <1>2, TplStart, PTL DEF TplSpec

-----------------------------------------------------------------------------
(* Adding a host.  A token that a daemon has is one it has accepted, and a *)
(* call that saves a host and was answered well carries such a token.     *)

Stages == {"closed", "idle", "error", "pairing", "paired", "manual", "saving"}
DlgRecs ==
    [n : Nat, stage : Stages, useToken : BOOLEAN, at : HostEndpoints \cup {NoEndpoint},
     token : Tokens \cup {NoToken}, secret : HostEndpoints \cup {NoEndpoint}]
DialogCalls ==
    [kind : {"verify", "health", "confirm"}, n : Nat, at : HostEndpoints, token : Tokens \cup {NoToken},
     useToken : BOOLEAN, secret : HostEndpoints \cup {NoEndpoint}, ans : {"none", "no", "ok", "pairing", "lost"}]
Hosts == [id : Nat, at : HostEndpoints, token : Tokens \cup {NoToken}, edited : BOOLEAN]

AddTypeOK ==
    /\ dlg \in DlgRecs /\ flight \subseteq DialogCalls /\ savedHosts \subseteq Hosts /\ IsFiniteSet(savedHosts)
    /\ daemonTok \in [HostEndpoints -> Tokens \cup {NoToken}] /\ everTok \in [HostEndpoints -> SUBSET Tokens]

\* The call saves what the daemon takes.
CallTrue(c, ever) == c.kind = "confirm" => c.token # NoToken /\ (c.ans = "ok" => c.token \in ever[c.at])

AddInv ==
    /\ AddTypeOK /\ HostsSound
    /\ \A e \in HostEndpoints : daemonTok[e] # NoToken => daemonTok[e] \in everTok[e]
    /\ \A c \in flight : CallTrue(c, everTok)

\* What the invariant says of the parts.
LEMMA AddParts ==
    ASSUME AddInv
    PROVE  /\ dlg \in DlgRecs /\ flight \subseteq DialogCalls /\ savedHosts \subseteq Hosts /\ IsFiniteSet(savedHosts)
           /\ daemonTok \in [HostEndpoints -> Tokens \cup {NoToken}] /\ everTok \in [HostEndpoints -> SUBSET Tokens]
           /\ dlg.n \in Nat /\ dlg.at \in HostEndpoints \cup {NoEndpoint} /\ dlg.token \in Tokens \cup {NoToken}
           /\ dlg.useToken \in BOOLEAN /\ dlg.secret \in HostEndpoints \cup {NoEndpoint} /\ dlg.stage \in Stages
  BY DEF AddInv, AddTypeOK, DlgRecs

\* A step of the dialog: its calls are about what its fields say.
LEMMA DialogStep ==
    ASSUME AddInv, UNCHANGED <<daemonTok, everTok, savedHosts>>, dlg' \in DlgRecs, flight' \subseteq DialogCalls,
           \A c \in flight' : c \in flight \/ CallTrue(c, everTok)
    PROVE  AddInv'
  BY DEF AddInv, AddTypeOK, HostsSound, CallTrue

\* Switching between pairing and token leaves the dialog typed.
LEMMA Toggled ==
    ASSUME NEW d \in DlgRecs, NEW b \in BOOLEAN
    PROVE  handleToggleToken(d, b) \in DlgRecs
  <1>1. CASE b
    <2>1. handleToggleToken(d, b) = [d EXCEPT !.useToken = b, !.stage = "manual", !.secret = NoEndpoint]
      BY <1>1 DEF handleToggleToken
    <2> QED BY <2>1 DEF DlgRecs, Stages
  <1>2. CASE ~b
    <2>1. handleToggleToken(d, b) = [d EXCEPT !.useToken = b, !.stage = "idle", !.secret = @]
      BY <1>2 DEF handleToggleToken
    <2> QED BY <2>1 DEF DlgRecs, Stages
  <1> QED BY <1>1, <1>2

\* A call of the dialog goes out with what its fields say.
LEMMA Sent ==
    ASSUME AddInv, NEW kind \in {"verify", "health", "confirm"}, Send(kind), dlg.at # NoEndpoint,
           kind = "confirm" => dlg.token # NoToken
    PROVE  flight' \subseteq DialogCalls /\ \A c \in flight' : c \in flight \/ CallTrue(c, everTok)
  <1> DEFINE c == [kind |-> kind, n |-> dlg.n, at |-> dlg.at, token |-> dlg.token,
                   useToken |-> dlg.useToken, secret |-> dlg.secret, ans |-> "none"]
  <1>1. flight' = flight \cup {c}
    BY DEF Send
  <1>2. c \in DialogCalls /\ CallTrue(c, everTok)
    BY AddParts DEF DialogCalls, CallTrue
  <1> HIDE DEF c
  <1> QED BY <1>1, <1>2, AddParts

\* What the user does in the dialog keeps it.
LEMMA DialogKeeps ==
    ASSUME AddInv,
           \/ \E n \in 1..MaxDialogs : OpenDialog(n)
           \/ CloseDialog \/ handleConfirm \/ CheckHealth
           \/ \E e \in HostEndpoints : handlePair(e)
           \/ \E b \in BOOLEAN : ToggleToken(b)
           \/ \E e \in HostEndpoints, k \in Tokens : EditFields(e, k)
    PROVE  AddInv'
  <1>1. ASSUME NEW n \in 1..MaxDialogs, OpenDialog(n) PROVE AddInv'
    <2>1. n \in Nat
      BY AddAssumption
    <2>2. Closed \in DlgRecs
      BY DEF Closed, DlgRecs, Stages
    <2>3. dlg' \in DlgRecs
      BY <1>1, <2>1, <2>2 DEF OpenDialog, DlgRecs, Stages
    <2> QED BY <1>1, <2>3, AddParts, DialogStep DEF OpenDialog
  <1>2. CASE CloseDialog
    <2>1. dlg' \in DlgRecs
      <3>1. dlg' = [dlg EXCEPT !.stage = "closed"]
        BY <1>2 DEF CloseDialog
      <3> QED BY <3>1, AddParts DEF DlgRecs, Stages
    <2> QED BY <1>2, <2>1, AddParts, DialogStep DEF CloseDialog
  <1>3. CASE handleConfirm
    <2>1. dlg' \in DlgRecs
      <3>1. dlg' = [dlg EXCEPT !.stage = "saving"]
        BY <1>3 DEF handleConfirm
      <3> QED BY <3>1, AddParts DEF DlgRecs, Stages
    <2>2. Send("confirm") /\ dlg.at # NoEndpoint /\ dlg.token # NoToken /\ UNCHANGED <<daemonTok, everTok, savedHosts>>
      BY <1>3 DEF handleConfirm
    <2> QED BY <2>1, <2>2, Sent, DialogStep
  <1>4. CASE CheckHealth
    <2>1. Send("health") /\ dlg.at # NoEndpoint /\ UNCHANGED <<dlg, daemonTok, everTok, savedHosts>>
      BY <1>4 DEF CheckHealth
    <2> QED BY <2>1, AddParts, Sent, DialogStep
  <1>5. ASSUME NEW e \in HostEndpoints, handlePair(e) PROVE AddInv'
    <2> DEFINE c == [kind |-> "verify", n |-> dlg.n, at |-> e, token |-> NoToken,
                     useToken |-> FALSE, secret |-> NoEndpoint, ans |-> "none"]
    <2>1. flight' = flight \cup {c} /\ dlg' = [dlg EXCEPT !.stage = "pairing"] /\ UNCHANGED <<daemonTok, everTok, savedHosts>>
      BY <1>5 DEF handlePair
    <2>2. c \in DialogCalls /\ CallTrue(c, everTok)
      BY AddParts DEF DialogCalls, CallTrue
    <2> HIDE DEF c
    <2>3. dlg' \in DlgRecs
      BY <2>1, AddParts DEF DlgRecs, Stages
    <2> QED BY <2>1, <2>2, <2>3, AddParts, DialogStep
  <1>6. ASSUME NEW b \in BOOLEAN, ToggleToken(b) PROVE AddInv'
    <2>1. dlg' \in DlgRecs
      BY <1>6, AddParts, Toggled DEF ToggleToken
    <2> QED BY <1>6, <2>1, AddParts, DialogStep DEF ToggleToken
  <1>7. ASSUME NEW e \in HostEndpoints, NEW k \in Tokens, EditFields(e, k) PROVE AddInv'
    <2>1. dlg' \in DlgRecs
      <3>1. dlg' = [dlg EXCEPT !.at = e, !.token = k]
        BY <1>7 DEF EditFields
      <3> QED BY <3>1, AddParts DEF DlgRecs, Stages
    <2> QED BY <1>7, <2>1, AddParts, DialogStep DEF EditFields
  <1> QED BY <1>1, <1>2, <1>3, <1>4, <1>5, <1>6, <1>7

\* The answers of a call; only a good one to a confirmation saves a host.
LEMMA AnswersKeep ==
    ASSUME AddInv, NEW c \in flight,
           CallLost(c) \/ HealthAnswered(c) \/ \E k \in Tokens : VerifyAnswered(c, k)
    PROVE  AddInv'
  <1>1. c \in DialogCalls
    BY AddParts
  <1>2. CASE CallLost(c)
    <2> DEFINE l == [c EXCEPT !.ans = "lost"]
    <2>1. flight' = (flight \ {c}) \cup {l} /\ UNCHANGED <<dlg, daemonTok, everTok, savedHosts>>
      BY <1>2 DEF CallLost
    <2>2. l \in DialogCalls /\ CallTrue(l, everTok)
      BY <1>1 DEF AddInv, CallTrue, DialogCalls
    <2> HIDE DEF l
    <2> QED BY <2>1, <2>2, AddParts, DialogStep
  <1>3. CASE HealthAnswered(c)
    <2>1. dlg' = dlg \/ dlg' = handleToggleToken(dlg, FALSE)
      BY <1>3 DEF HealthAnswered, ForDialog
    <2>2. dlg' \in DlgRecs
      BY <2>1, AddParts, Toggled
    <2> QED BY <1>3, <2>2, AddParts, DialogStep DEF HealthAnswered
  <1>4. ASSUME NEW k \in Tokens, VerifyAnswered(c, k) PROVE AddInv'
    <2>1. \/ dlg' = dlg \/ dlg' = [dlg EXCEPT !.stage = "idle"]
          \/ dlg' = [dlg EXCEPT !.stage = "paired", !.at = c.at, !.token = k, !.secret = c.at]
      BY <1>4 DEF VerifyAnswered, ForDialog
    <2>2. c.at \in HostEndpoints
      BY <1>1 DEF DialogCalls
    <2>3. dlg' \in DlgRecs
      <3>1. CASE dlg' = [dlg EXCEPT !.stage = "paired", !.at = c.at, !.token = k, !.secret = c.at]
        BY <2>2, <3>1, AddParts DEF DlgRecs, Stages
      <3>2. CASE dlg' = [dlg EXCEPT !.stage = "idle"]
        BY <3>2, AddParts DEF DlgRecs, Stages
      <3> QED BY <2>1, <3>1, <3>2, AddParts
    <2> QED BY <1>4, <2>3, AddParts, DialogStep DEF VerifyAnswered
  <1> QED BY <1>2, <1>3, <1>4

\* A daemon takes the call, or is reset.
LEMMA DaemonKeeps ==
    ASSUME AddInv, (\E c \in flight : DaemonAnswers(c)) \/ \E e \in HostEndpoints : DaemonReset(e)
    PROVE  AddInv'
  <1>1. ASSUME NEW c \in flight, DaemonAnswers(c) PROVE AddInv'
    <2> DEFINE sets == c.kind = "confirm" /\ ~c.useToken /\ Accepts(c)
               ans == IF ~Accepts(c) THEN "no" ELSE IF c.kind = "health" /\ daemonTok[c.at] = NoToken THEN "pairing" ELSE "ok"
               a == [c EXCEPT !.ans = ans]
    <2>1. /\ flight' = (flight \ {c}) \cup {a} /\ UNCHANGED <<dlg, savedHosts>>
          /\ daemonTok' = IF sets THEN [daemonTok EXCEPT ![c.at] = c.token] ELSE daemonTok
          /\ everTok' = IF sets THEN [everTok EXCEPT ![c.at] = @ \cup {c.token}] ELSE everTok
      BY <1>1 DEF DaemonAnswers
    <2>2. c \in DialogCalls /\ CallTrue(c, everTok) /\ c.at \in HostEndpoints /\ c.token \in Tokens \cup {NoToken}
      BY AddParts DEF AddInv, DialogCalls
    <2>3. c.kind = "confirm" /\ ans = "ok" => sets \/ (c.token = daemonTok[c.at] /\ c.token # NoToken)
      BY <2>2 DEF Accepts, CallTrue
    <2>4. sets => c.token \in Tokens
      BY <2>2 DEF CallTrue
    <2>5. ans \in {"none", "no", "ok", "pairing", "lost"}
      OBVIOUS
    <2> HIDE DEF sets, ans
    <2>6. a = [kind |-> c.kind, n |-> c.n, at |-> c.at, token |-> c.token, useToken |-> c.useToken,
               secret |-> c.secret, ans |-> ans]
      BY <2>2 DEF DialogCalls
    <2>7. a \in DialogCalls
      BY <2>2, <2>5, <2>6 DEF DialogCalls
    <2> HIDE DEF a
    <2>8. \A e \in HostEndpoints : /\ daemonTok'[e] = IF sets /\ e = c.at THEN c.token ELSE daemonTok[e]
                                   /\ everTok'[e] = IF sets /\ e = c.at THEN everTok[e] \cup {c.token} ELSE everTok[e]
      BY <2>1, <2>2, AddParts
    <2>9. AddTypeOK'
      <3>1. daemonTok' \in [HostEndpoints -> Tokens \cup {NoToken}] /\ everTok' \in [HostEndpoints -> SUBSET Tokens]
        <4>1. CASE sets
          BY <2>1, <2>2, <2>4, <4>1, AddParts
        <4>2. CASE ~sets
          BY <2>1, <4>2, AddParts
        <4> QED BY <4>1, <4>2
      <3> QED BY <2>1, <2>7, <3>1, AddParts DEF AddTypeOK
    <2>10. \A e \in HostEndpoints : daemonTok'[e] # NoToken => daemonTok'[e] \in everTok'[e]
      BY <2>8 DEF AddInv
    <2>11. \A b \in flight' : CallTrue(b, everTok')
      <3>1. \A b \in flight : CallTrue(b, everTok')
        <4>1. \A b \in flight : b.at \in HostEndpoints /\ CallTrue(b, everTok)
          BY AddParts DEF AddInv, DialogCalls
        <4> QED BY <2>8, <4>1 DEF CallTrue
      <3>2. CallTrue(a, everTok')
        <4>1. a.kind = c.kind /\ a.token = c.token /\ a.at = c.at /\ a.ans = ans
          BY <2>6
        <4>2. c.kind = "confirm" => c.token # NoToken
          BY <2>2 DEF CallTrue
        <4>3. c.kind = "confirm" /\ ans = "ok" => c.token \in everTok'[c.at]
          BY <2>2, <2>3, <2>8 DEF AddInv
        <4> QED BY <4>1, <4>2, <4>3 DEF CallTrue
      <3> QED BY <2>1, <3>1, <3>2
    <2>12. HostsSound'
      <3>1. \A h \in savedHosts : h.at \in HostEndpoints
        BY AddParts DEF Hosts
      <3> QED BY <2>1, <2>8, <3>1 DEF AddInv, HostsSound
    <2> QED BY <2>9, <2>10, <2>11, <2>12 DEF AddInv
  <1>2. ASSUME NEW e \in HostEndpoints, DaemonReset(e) PROVE AddInv'
    BY <1>2, AddParts DEF DaemonReset, AddInv, AddTypeOK, HostsSound, CallTrue
  <1> QED BY <1>1, <1>2

\* A host of the store is replaced by h1, or h1 is added.
LEMMA HostSaved ==
    ASSUME AddInv, NEW h1 \in Hosts, NEW S \in SUBSET savedHosts, savedHosts' = (savedHosts \ S) \cup {h1},
           ~h1.edited => h1.token \in everTok[h1.at] \cup {NoToken} /\ \A g \in savedHosts \ S : g.edited \/ g.at # h1.at,
           UNCHANGED <<daemonTok, everTok>>, dlg' \in DlgRecs, flight' \subseteq flight
    PROVE  AddInv'
  <1>1. savedHosts' \subseteq Hosts /\ IsFiniteSet(savedHosts')
    <2>1. IsFiniteSet(savedHosts \ S)
      BY AddParts, FS_Difference
    <2> QED BY <2>1, AddParts, FS_AddElement
  <1>2. AddTypeOK'
    BY <1>1, AddParts DEF AddTypeOK
  <1>3. HostsSound'
    BY DEF AddInv, HostsSound
  <1> QED BY <1>2, <1>3 DEF AddInv

\* The answer to the call that saves a host keeps it: the host is stored with
\* the token that the daemon took.
LEMMA ConfirmKeeps ==
    ASSUME AddInv, NEW c \in flight, ConfirmAnswered(c)
    PROVE  AddInv'
  <1>1. /\ c.kind = "confirm" /\ flight' = flight \ {c} /\ UNCHANGED <<daemonTok, everTok>>
        /\ c \in DialogCalls /\ CallTrue(c, everTok)
    BY AddParts DEF ConfirmAnswered, AddInv
  <1>2. CASE c.ans # "ok"
    <2>1. \/ dlg' = dlg \/ dlg' = [dlg EXCEPT !.stage = "manual"]
          \/ dlg' = [dlg EXCEPT !.stage = "idle", !.secret = NoEndpoint]
      BY <1>2 DEF ConfirmAnswered, ForDialog
    <2>2. dlg' \in DlgRecs
      <3>1. CASE dlg' = [dlg EXCEPT !.stage = "manual"]
        BY <3>1, AddParts DEF DlgRecs, Stages
      <3>2. CASE dlg' = [dlg EXCEPT !.stage = "idle", !.secret = NoEndpoint]
        BY <3>2, AddParts DEF DlgRecs, Stages
      <3> QED BY <2>1, <3>1, <3>2, AddParts
    <2> QED BY <1>1, <1>2, <2>2, AddParts, DialogStep DEF ConfirmAnswered
  <1>3. CASE c.ans = "ok"
    <2>1. Save(c) /\ ForDialog(c, [dlg EXCEPT !.stage = "closed"])
      BY <1>3 DEF ConfirmAnswered
    <2>2. dlg' \in DlgRecs
      <3>1. dlg' = dlg \/ dlg' = [dlg EXCEPT !.stage = "closed"]
        BY <2>1 DEF ForDialog
      <3>2. CASE dlg' = [dlg EXCEPT !.stage = "closed"]
        BY <3>2, AddParts DEF DlgRecs, Stages
      <3> QED BY <3>1, <3>2, AddParts
    <2>3. c.token \in Tokens /\ c.token \in everTok[c.at] /\ c.at \in HostEndpoints
      BY <1>1, <1>3 DEF CallTrue, DialogCalls
    <2>4. CASE AtEndpoint(c.at) # {}
      <3>1. PICK h \in AtEndpoint(c.at) : savedHosts' = (savedHosts \ {h}) \cup {[h EXCEPT !.token = c.token]}
        BY <2>1, <2>4 DEF Save
      <3> DEFINE h1 == [id |-> h.id, at |-> h.at, token |-> c.token, edited |-> h.edited]
      <3>2. h \in savedHosts /\ h.at = c.at /\ h \in Hosts
        BY AddParts DEF AtEndpoint
      <3>3. savedHosts' = (savedHosts \ {h}) \cup {h1}
        BY <3>1, <3>2 DEF Hosts
      <3>4. h1 \in Hosts /\ h1.at = c.at /\ h1.token = c.token /\ h1.edited = h.edited
        BY <2>3, <3>2 DEF Hosts
      <3> HIDE DEF h1
      <3>5. ~h1.edited => h1.token \in everTok[h1.at] \cup {NoToken} /\ \A g \in savedHosts \ {h} : g.edited \/ g.at # h1.at
        BY <2>3, <3>2, <3>4 DEF AddInv, HostsSound
      <3>6. {h} \in SUBSET savedHosts /\ flight' \subseteq flight
        BY <1>1, <3>2
      <3> QED BY <1>1, <2>2, <3>3, <3>4, <3>5, <3>6, HostSaved
    <2>5. CASE AtEndpoint(c.at) = {}
      <3> DEFINE h1 == [id |-> Cardinality(savedHosts) + 1, at |-> c.at, token |-> c.token, edited |-> FALSE]
      <3>1. savedHosts' = (savedHosts \ {}) \cup {h1}
        BY <2>1, <2>5 DEF Save
      <3>2. Cardinality(savedHosts) \in Nat
        BY AddParts, FS_CardinalityType
      <3>3. h1 \in Hosts /\ h1.at = c.at /\ h1.token = c.token
        BY <2>3, <3>2 DEF Hosts
      <3> HIDE DEF h1
      <3>4. \A g \in savedHosts \ {} : g.at # h1.at
        BY <2>5, <3>3 DEF AtEndpoint
      <3>5. {} \in SUBSET savedHosts /\ flight' \subseteq flight
        BY <1>1
      <3> QED BY <1>1, <2>2, <2>3, <3>1, <3>3, <3>4, <3>5, HostSaved
    <2> QED BY <2>4, <2>5
  <1> QED BY <1>2, <1>3

\* Editing the address of a stored host, or storing another token, keeps it.
LEMMA EditHostKeeps ==
    ASSUME AddInv, NEW h \in savedHosts,
           \/ \E e \in HostEndpoints : EditHostAddress(h, e)
           \/ \E k \in Tokens \cup {NoToken} : SaveToken(h, k)
    PROVE  AddInv'
  <1>1. h \in Hosts /\ {h} \in SUBSET savedHosts
    BY AddParts DEF Hosts
  <1>2. ASSUME NEW e \in HostEndpoints, EditHostAddress(h, e) PROVE AddInv'
    <2> DEFINE h1 == [h EXCEPT !.at = e, !.edited = TRUE]
    <2>1. savedHosts' = (savedHosts \ {h}) \cup {h1}
      BY <1>2 DEF EditHostAddress
    <2>2. h1 \in Hosts /\ h1.edited
      BY <1>1 DEF Hosts
    <2> HIDE DEF h1
    <2>3. flight' \subseteq flight /\ dlg' \in DlgRecs /\ UNCHANGED <<daemonTok, everTok>>
      BY <1>2, AddParts DEF EditHostAddress
    <2> QED BY <1>1, <2>1, <2>2, <2>3, HostSaved
  <1>3. ASSUME NEW k \in Tokens \cup {NoToken}, SaveToken(h, k) PROVE AddInv'
    <2> DEFINE h1 == [h EXCEPT !.token = k]
    <2>1. savedHosts' = (savedHosts \ {h}) \cup {h1}
      BY <1>3 DEF SaveToken
    <2>2. h1 \in Hosts /\ h1.edited = h.edited /\ h1.at = h.at /\ h1.token = k
      BY <1>1 DEF Hosts
    <2> HIDE DEF h1
    <2>3. flight' \subseteq flight /\ dlg' \in DlgRecs /\ UNCHANGED <<daemonTok, everTok>>
      BY <1>3, AddParts DEF SaveToken
    <2>4. ~h.edited => k \in everTok[h.at] \cup {NoToken}
      BY <1>3 DEF SaveToken
    <2>5. ~h1.edited => h1.token \in everTok[h1.at] \cup {NoToken} /\ \A g \in savedHosts \ {h} : g.edited \/ g.at # h1.at
      BY <2>2, <2>4 DEF AddInv, HostsSound
    <2> QED BY <1>1, <2>1, <2>2, <2>3, <2>5, HostSaved
  <1> QED BY <1>2, <1>3

\* A stored host whose address was not edited has a token that its daemon has
\* accepted, or the empty one, and is the only such host at its endpoint, for any daemons,
\* tokens, dialogs and calls under way (AddHostDialog and the host's page).
THEOREM HostsAlwaysSound == AddSpec => []HostsSound
  <1>1. ASSUME AddInv, [AddInput \/ AddProgress]_addVars PROVE AddInv'
    <2>1. CASE AddInput
      BY <1>1, <2>1, DialogKeeps, DaemonKeeps, EditHostKeeps DEF AddInput
    <2>2. CASE AddProgress
      BY <1>1, <2>2, AnswersKeep, DaemonKeeps, ConfirmKeeps DEF AddProgress
    <2>3. CASE UNCHANGED addVars
      BY <1>1, <2>3 DEF addVars, AddInv, AddTypeOK, HostsSound, CallTrue
    <2> QED BY <1>1, <2>1, <2>2, <2>3
  <1>2. AddInit => AddInv
    <2>1. SUFFICES ASSUME AddInit PROVE AddInv
      OBVIOUS
    <2>2. dlg \in DlgRecs
      BY <2>1 DEF AddInit, Closed, DlgRecs, Stages
    <2>3. IsFiniteSet(savedHosts)
      BY <2>1, FS_EmptySet DEF AddInit
    <2>4. \A e \in HostEndpoints : everTok[e] = {daemonTok[e]} \ {NoToken}
      BY <2>1 DEF AddInit
    <2>5. AddTypeOK
      BY <2>1, <2>2, <2>3 DEF AddInit, AddTypeOK
    <2> QED BY <2>1, <2>4, <2>5 DEF AddInit, AddInv, HostsSound
  <1>3. AddInv => HostsSound
    BY DEF AddInv
  <1> QED BY <1>1, <1>2, <1>3, PTL DEF AddSpec

-----------------------------------------------------------------------------
(* The status line test.  The run that holds the guard is the only one that *)
(* works or listens, as long as no request has outlived its timeout, and  *)
(* what the stream and the event have reported is what the stages show.   *)

TestStatuses == {"untested", "running", "passed", "failed", "skipped"}

TestTypeOK ==
    /\ mountedTest \in BOOLEAN /\ stages \in [1..5 -> TestStatuses] /\ shownRunning \in BOOLEAN
    /\ runningRef \in 0..MaxRuns /\ lastRun \in 0..MaxRuns
    /\ work \in [Runs -> {"none", "fetch", "stream", "done", "failed"}]
    /\ waiting \in [Runs -> {"none", "race", "grace", "rejected", "over"}]
    /\ stage4 \in [Runs -> {"pending", "armed", "fired", "cancelled"}] /\ subscribed \subseteq Runs
    /\ sse \in [Runs -> 0..4] /\ ccStatus \subseteq Runs /\ outlived \subseteq Runs

\* The guard is held by the run that is waited for.
Guarded(r) == waiting[r] \in {"race", "grace", "rejected"} <=> runningRef = r

\* A run that was not started yet has left no trace.
Unstarted(r) ==
    /\ work[r] = "none" /\ waiting[r] = "none" /\ sse[r] = 0 /\ stage4[r] = "pending" /\ r \notin subscribed

\* Only a run that is waited for works or listens.
Attended(r) ==
    /\ work[r] \in {"fetch", "stream"} => waiting[r] = "race"
    /\ r \in subscribed => runningRef = r

\* What the run has reported so far is shown.
Reported(r) ==
    /\ sse[r] >= 2 => stages[1] = "passed"
    /\ sse[r] >= 3 => stages[2] = "passed"
    /\ sse[r] >= 4 => stages[3] = "passed" /\ stage4[r] # "pending"
    /\ stage4[r] = "fired" => stages[4] = "passed" /\ stages[5] = "passed"
    /\ stage4[r] # "cancelled"
    /\ waiting[r] = "grace" => sse[r] = 4

\* No stage is shown as running while no run holds the guard.
Calm == runningRef = 0 /\ mountedTest /\ outlived = {} => \A n \in 1..5 : stages[n] # "running"

TestInv ==
    /\ TestTypeOK /\ Calm
    /\ \A r \in Runs : Guarded(r) /\ (r > lastRun => Unstarted(r))
    /\ runningRef # 0 => shownRunning
    /\ outlived = {} => \A r \in Runs : Attended(r) /\ (mountedTest /\ waiting[r] \in {"race", "grace"} => Reported(r))

\* The actions of the stream read on.
LEMMA StreamKeeps ==
    ASSUME TestInv, NEW r \in Runs, Responds(r) \/ InitEvent(r) \/ Stage1Passed(r) \/ Stage2Passed(r) \/ Stage3Passed(r)
    PROVE  TestInv' /\ (runningRef = 0 /\ outlived = {} => stages' = stages)
  <1>1. runningRef = 0 => outlived # {}
    BY TestAssumption DEF TestInv, TestTypeOK, Attended, Guarded, Responds, InitEvent, Stage1Passed, Stage2Passed, Stage3Passed, Runs
  <1>2. CASE Responds(r)
    BY <1>2, <1>1 DEF Responds, TestInv, TestTypeOK, Calm, Guarded, Unstarted, Attended, Reported
  <1>3. CASE InitEvent(r)
    BY <1>3, <1>1 DEF InitEvent, armNonce, fireStage4, Show, Armed, streamRest, TestInv, TestTypeOK, Calm, Guarded,
                      Unstarted, Attended, Reported, TestStatuses
  <1>4. CASE Stage1Passed(r)
    BY <1>4, <1>1 DEF Stage1Passed, armNonce, fireStage4, Show, Armed, streamRest, TestInv, TestTypeOK, Calm, Guarded,
                      Unstarted, Attended, Reported, TestStatuses
  <1>5. CASE Stage2Passed(r)
    BY <1>5, <1>1 DEF Stage2Passed, Show, streamRest, TestInv, TestTypeOK, Calm, Guarded,
                      Unstarted, Attended, Reported, TestStatuses
  <1>6. CASE Stage3Passed(r)
    BY <1>6, <1>1 DEF Stage3Passed, Show, streamRest, TestInv, TestTypeOK, Calm, Guarded,
                      Unstarted, Attended, Reported, TestStatuses
  <1> QED BY <1>2, <1>3, <1>4, <1>5, <1>6

\* The end of a run that was waited for, with no stage left running.
LEMMA EndedKeeps ==
    ASSUME TestInv, NEW r \in Runs, waiting[r] \in {"race", "grace"}, Ended(r),
           stages' \in [1..5 -> TestStatuses], ~mountedTest => stages' = stages,
           mountedTest /\ outlived = {} => \A n \in 1..5 : stages'[n] # "running",
           work' \in [Runs -> {"none", "fetch", "stream", "done", "failed"}],
           outlived' = {} => outlived = {} /\ work'[r] \notin {"fetch", "stream"},
           stage4' \in [Runs -> {"pending", "armed", "fired", "cancelled"}], outlived' \subseteq Runs,
           \A q \in Runs \ {r} : work'[q] = work[q] /\ stage4'[q] = stage4[q],
           UNCHANGED <<mountedTest, lastRun, sse, ccStatus>>
    PROVE  TestInv'
  <1>1. /\ runningRef = r /\ runningRef' = 0 /\ shownRunning' \in BOOLEAN /\ (shownRunning' <=> ~mountedTest)
        /\ subscribed' = subscribed \ {r} /\ waiting' = [waiting EXCEPT ![r] = "over"]
    <2>1. runningRef = r /\ r # 0
      BY DEF TestInv, Guarded, Runs
    <2>2. shownRunning
      BY <2>1 DEF TestInv
    <2>3. shownRunning' = (shownRunning /\ ~mountedTest)
      BY DEF Ended
    <2>4. shownRunning' \in BOOLEAN /\ (shownRunning' <=> ~mountedTest)
      BY <2>2, <2>3
    <2> QED BY <2>1, <2>4 DEF Ended
  <1>2. r <= lastRun
    BY TestAssumption DEF TestInv, TestTypeOK, Unstarted, Runs
  <1>3. TestTypeOK'
    BY <1>1, TestAssumption DEF TestInv, TestTypeOK
  <1>4. Calm'
    BY <1>1 DEF Calm
  <1>5. \A q \in Runs : Guarded(q)' /\ (q > lastRun' => Unstarted(q)')
    BY <1>1, <1>2 DEF TestInv, TestTypeOK, Guarded, Unstarted, Runs
  <1>6. outlived' = {} => \A q \in Runs : Attended(q)' /\ waiting'[q] \notin {"race", "grace"}
    BY <1>1 DEF TestInv, TestTypeOK, Attended, Guarded
  <1> QED BY <1>1, <1>3, <1>4, <1>5, <1>6 DEF TestInv

\* The request and its stream are over.
LEMMA WorkOverKeeps ==
    ASSUME TestInv, NEW r \in Runs, work[r] \in {"fetch", "stream"}, NEW s4, WorkOver(r, s4),
           s4 \in [Runs -> {"pending", "armed", "fired", "cancelled"}], \A q \in Runs \ {r} : s4[q] = stage4[q],
           stages' \in [1..5 -> TestStatuses], ~mountedTest => stages' = stages,
           outlived = {} /\ s4[r] = "armed" => stage4[r] = "armed" /\ stages' = stages /\ sse[r] = 4,
           mountedTest /\ outlived = {} /\ s4[r] # "armed" => \A n \in 1..5 : stages'[n] # "running"
    PROVE  TestInv' /\ (runningRef = 0 => outlived # {})
  <1>1. runningRef = 0 => outlived # {}
    BY TestAssumption DEF TestInv, TestTypeOK, Attended, Guarded, Runs
  <1>2. /\ work' = [work EXCEPT ![r] = "done"] /\ stage4' = s4
        /\ UNCHANGED <<mountedTest, lastRun, sse, ccStatus, outlived>>
    BY DEF WorkOver
  <1>3. /\ work' \in [Runs -> {"none", "fetch", "stream", "done", "failed"}] /\ outlived' \subseteq Runs
        /\ work'[r] = "done" /\ \A q \in Runs \ {r} : work'[q] = work[q]
    BY <1>2 DEF TestInv, TestTypeOK
  <1>4. CASE waiting[r] = "race" /\ ~(mountedTest /\ s4[r] = "armed")
    <2>1. Ended(r)
      BY <1>4 DEF WorkOver
    <2>2. mountedTest /\ outlived = {} => \A n \in 1..5 : stages'[n] # "running"
      BY <1>4
    <2> QED BY <1>1, <1>2, <1>3, <1>4, <2>1, <2>2, EndedKeeps
  <1>5. CASE ~(waiting[r] = "race" /\ ~(mountedTest /\ s4[r] = "armed"))
    <2>1. /\ UNCHANGED <<subscribed, runningRef, shownRunning>>
          /\ waiting' = [waiting EXCEPT ![r] = IF @ = "race" THEN "grace" ELSE @]
      BY <1>5 DEF WorkOver
    <2>2. r <= lastRun
      BY TestAssumption DEF TestInv, TestTypeOK, Unstarted, Runs
    <2>3. TestTypeOK'
      BY <1>2, <1>3, <2>1 DEF TestInv, TestTypeOK
    <2>4. \A q \in Runs : Guarded(q)' /\ (q > lastRun' => Unstarted(q)')
      BY <1>2, <1>3, <2>1, <2>2 DEF TestInv, TestTypeOK, Guarded, Unstarted, Runs
    <2>5. outlived = {} => waiting[r] = "race" /\ stages' = stages /\ sse[r] = 4 /\ stage4[r] = "armed" /\ s4[r] = "armed"
      BY <1>5 DEF TestInv, Attended
    <2>6. outlived' = {} => \A q \in Runs : Attended(q)' /\ (mountedTest' /\ waiting'[q] \in {"race", "grace"} => Reported(q)')
      <3>1. SUFFICES ASSUME outlived = {}, NEW q \in Runs
                     PROVE  Attended(q)' /\ (mountedTest' /\ waiting'[q] \in {"race", "grace"} => Reported(q)')
        BY <1>2
      <3>2. waiting'[q] \in {"race", "grace"} => waiting[q] \in {"race", "grace"}
        BY <2>1, <2>5 DEF TestInv, TestTypeOK
      <3>3. stage4'[q] = stage4[q] /\ sse'[q] = sse[q]
        <4>1. s4[q] = stage4[q]
          BY <2>5, <3>1
        <4> QED BY <1>2, <4>1
      <3>4. Attended(q)'
        BY <1>2, <1>3, <2>1, <3>1 DEF TestInv, TestTypeOK, Attended
      <3> QED BY <1>2, <2>1, <2>5, <3>1, <3>2, <3>3, <3>4 DEF TestInv, TestTypeOK, Reported
    <2>7. Calm'
      BY <1>2, <2>1, <2>5 DEF TestInv, Calm
    <2> QED BY <1>1, <2>1, <2>3, <2>4, <2>6, <2>7 DEF TestInv
  <1> QED BY <1>4, <1>5

\* Skipping the rest leaves no stage running where those before have passed.
LEMMA Skipped ==
    ASSUME stages \in [1..5 -> TestStatuses], NEW n \in 1..5,
           Show(failThenSkipRest(stages, n))
    PROVE  /\ stages' \in [1..5 -> TestStatuses]
           /\ ~mountedTest => stages' = stages
           /\ mountedTest /\ (\A k \in 1..5 : k < n => stages[k] = "passed") => \A k \in 1..5 : stages'[k] # "running"
  BY DEF Show, failThenSkipRest, TestStatuses

\* Cancelling the timer of the fourth stage leaves those of other runs alone.
LEMMA Withdrawn ==
    ASSUME TestInv, NEW r \in Runs
    PROVE  /\ Cancelled(r) \in [Runs -> {"pending", "armed", "fired", "cancelled"}] /\ Cancelled(r)[r] # "armed"
           /\ \A q \in Runs \ {r} : Cancelled(r)[q] = stage4[q]
  BY DEF TestInv, TestTypeOK, Cancelled

\* A refused request or a failed stage ends the run and skips the later stages.
LEMMA Failures ==
    ASSUME TestInv, NEW r \in Runs, Refused(r) \/ StageFailed(r)
    PROVE  TestInv' /\ (runningRef = 0 /\ outlived = {} => stages' = stages)
  <1>1. work[r] \in {"fetch", "stream"} /\ WorkOver(r, Cancelled(r))
    BY DEF Refused, StageFailed
  <1>2. PICK n \in 1..3 : /\ Show(failThenSkipRest(stages, n))
                          /\ n > 1 => n = sse[r]
    BY DEF Refused, StageFailed
  <1>3. outlived = {} /\ mountedTest => \A k \in 1..5 : k < n => stages[k] = "passed"
    BY <1>1, <1>2 DEF TestInv, TestTypeOK, Attended, Reported
  <1>4. stages \in [1..5 -> TestStatuses]
    BY DEF TestInv, TestTypeOK
  <1>5. /\ stages' \in [1..5 -> TestStatuses]
        /\ ~mountedTest => stages' = stages
        /\ mountedTest /\ outlived = {} => \A k \in 1..5 : stages'[k] # "running"
    BY <1>2, <1>3, <1>4, Skipped
  <1> DEFINE s4 == Cancelled(r)
  <1>6. /\ s4 \in [Runs -> {"pending", "armed", "fired", "cancelled"}] /\ s4[r] # "armed"
        /\ \A q \in Runs \ {r} : s4[q] = stage4[q]
    BY Withdrawn
  <1>7. WorkOver(r, s4)
    BY <1>1
  <1> HIDE DEF s4
  <1>8. outlived = {} /\ s4[r] = "armed" => stage4[r] = "armed" /\ stages' = stages /\ sse[r] = 4
    BY <1>6
  <1>9. mountedTest /\ outlived = {} /\ s4[r] # "armed" => \A k \in 1..5 : stages'[k] # "running"
    BY <1>5
  <1> QED BY <1>1, <1>5, <1>6, <1>7, <1>8, <1>9, WorkOverKeeps

\* The end of the stream keeps it.
LEMMA DoneKeeps ==
    ASSUME TestInv, NEW r \in Runs, StreamDone(r)
    PROVE  TestInv' /\ stages' = stages
  <1>1. work[r] = "stream" /\ sse[r] = 4 /\ WorkOver(r, stage4) /\ stages' = stages
    BY DEF StreamDone
  <1>2. mountedTest /\ outlived = {} /\ stage4[r] # "armed" => \A n \in 1..5 : stages'[n] # "running"
    BY <1>1 DEF TestInv, TestTypeOK, Attended, Reported
  <1>3. stages \in [1..5 -> TestStatuses] /\ stage4 \in [Runs -> {"pending", "armed", "fired", "cancelled"}]
    BY DEF TestInv, TestTypeOK
  <1> QED BY <1>1, <1>2, <1>3, WorkOverKeeps

\* The timeout of the whole run keeps it, though a request may outlive it.
LEMMA TimeoutKeeps ==
    ASSUME TestInv, NEW r \in Runs, OverallTimeout(r)
    PROVE  TestInv' /\ runningRef = r
  <1>1. /\ waiting[r] = "race" /\ Ended(r) /\ UNCHANGED <<mountedTest, lastRun, stage4, sse, ccStatus>>
        /\ work' = [work EXCEPT ![r] = IF @ = "stream" THEN "done" ELSE @]
        /\ outlived' = IF work[r] = "fetch" THEN outlived \cup {r} ELSE outlived
    BY DEF OverallTimeout
  <1>2. stages \in [1..5 -> TestStatuses] /\ stage4 \in [Runs -> {"pending", "armed", "fired", "cancelled"}]
    BY DEF TestInv, TestTypeOK
  <1>3. /\ stages' \in [1..5 -> TestStatuses]
        /\ ~mountedTest => stages' = stages
        /\ mountedTest => \A k \in 1..5 : stages'[k] # "running"
    <2>1. CASE FirstPending = {}
      <3>1. \A k \in 1..5 : stages[k] = "passed"
        BY <2>1 DEF FirstPending
      <3> QED BY <1>2, <2>1, <3>1 DEF OverallTimeout
    <2>2. CASE FirstPending # {}
      <3>1. PICK n \in FirstPending : Show(failThenSkipRest(stages, n))
        BY <2>2 DEF OverallTimeout
      <3>2. n \in 1..5 /\ \A k \in 1..5 : k < n => stages[k] = "passed"
        BY <3>1 DEF FirstPending
      <3> QED BY <1>2, <3>1, <3>2, Skipped
    <2> QED BY <2>1, <2>2
  <1>4. /\ work' \in [Runs -> {"none", "fetch", "stream", "done", "failed"}] /\ outlived' \subseteq Runs
        /\ outlived' = {} => outlived = {} /\ work'[r] \notin {"fetch", "stream"}
        /\ \A q \in Runs \ {r} : work'[q] = work[q] /\ stage4'[q] = stage4[q]
    BY <1>1 DEF TestInv, TestTypeOK
  <1>5. runningRef = r
    BY <1>1 DEF TestInv, Guarded
  <1>6. waiting[r] \in {"race", "grace"} /\ stage4' \in [Runs -> {"pending", "armed", "fired", "cancelled"}]
    BY <1>1, <1>2
  <1>7. mountedTest /\ outlived = {} => \A n \in 1..5 : stages'[n] # "running"
    BY <1>3
  <1>8. UNCHANGED <<mountedTest, lastRun, sse, ccStatus>>
    BY <1>1
  <1> QED BY <1>1, <1>3, <1>4, <1>5, <1>6, <1>7, <1>8, EndedKeeps

\* The end of the grace time for the status event keeps it.
LEMMA GraceKeeps ==
    ASSUME TestInv, NEW r \in Runs, GraceFired(r) \/ GraceTimeout(r)
    PROVE  TestInv' /\ runningRef = r
  <1>1. waiting[r] = "grace" /\ Ended(r) /\ UNCHANGED <<mountedTest, lastRun, sse, ccStatus, work, outlived>>
    BY DEF GraceFired, GraceTimeout
  <1>2. stages \in [1..5 -> TestStatuses] /\ stage4 \in [Runs -> {"pending", "armed", "fired", "cancelled"}]
    BY DEF TestInv, TestTypeOK
  <1>3. /\ stage4' \in [Runs -> {"pending", "armed", "fired", "cancelled"}]
        /\ \A q \in Runs \ {r} : stage4'[q] = stage4[q]
    BY <1>2, Withdrawn DEF GraceFired, GraceTimeout
  <1>4. outlived = {} /\ mountedTest => Reported(r) /\ \A k \in 1..3 : stages[k] = "passed"
    BY <1>1 DEF TestInv, Reported
  <1>5. /\ stages' \in [1..5 -> TestStatuses]
        /\ ~mountedTest => stages' = stages
        /\ mountedTest /\ outlived = {} => \A k \in 1..5 : stages'[k] # "running"
    <2>1. CASE GraceFired(r)
      BY <1>2, <1>4, <2>1 DEF GraceFired, Reported
    <2>2. CASE GraceTimeout(r)
      <3>1. Show(failThenSkipRest(stages, 4))
        BY <2>2 DEF GraceTimeout
      <3>2. outlived = {} /\ mountedTest => \A k \in 1..5 : k < 4 => stages[k] = "passed"
        BY <1>4
      <3> QED BY <1>2, <3>1, <3>2, Skipped
    <2> QED BY <2>1, <2>2
  <1>6. /\ work' \in [Runs -> {"none", "fetch", "stream", "done", "failed"}] /\ outlived' \subseteq Runs
        /\ outlived' = {} => outlived = {} /\ work'[r] \notin {"fetch", "stream"}
    BY <1>1 DEF TestInv, TestTypeOK, Attended
  <1>7. runningRef = r
    BY <1>1 DEF TestInv, Guarded
  <1>8. waiting[r] \in {"race", "grace"} /\ UNCHANGED <<mountedTest, lastRun, sse, ccStatus>>
    BY <1>1
  <1>9. \A q \in Runs \ {r} : work'[q] = work[q] /\ stage4'[q] = stage4[q]
    BY <1>1, <1>3
  <1> QED BY <1>1, <1>3, <1>5, <1>6, <1>7, <1>8, <1>9, EndedKeeps

\* A stream that breaks off keeps it.
LEMMA BreaksKeeps ==
    ASSUME TestInv, NEW r \in Runs, StreamBreaks(r)
    PROVE  TestInv' /\ stages' = stages
  BY DEF StreamBreaks, TestInv, TestTypeOK, Calm, Guarded, Unstarted, Attended, Reported, Runs

\* Whatever ends a run or its stream keeps it.
LEMMA Endings ==
    ASSUME TestInv, NEW r \in Runs, StreamDone(r) \/ Refused(r) \/ StageFailed(r) \/ OverallTimeout(r)
                                     \/ GraceFired(r) \/ GraceTimeout(r) \/ StreamBreaks(r)
    PROVE  TestInv' /\ (runningRef = 0 /\ outlived = {} => stages' = stages)
  <1>1. r # 0
    BY DEF Runs
  <1> QED BY <1>1, DoneKeeps, Failures, TimeoutKeeps, GraceKeeps, BreaksKeeps

\* A new run, leaving the page and a status event keep it.
LEMMA TestOthers ==
    ASSUME TestInv, run \/ UnmountTest \/ \E r \in Runs : TestEvent(r)
    PROVE  TestInv' /\ (runningRef = 0 /\ runningRef' = 0 /\ outlived = {} => stages' = stages)
  <1>1. CASE run
    <2>1. lastRun + 1 \in Runs
      BY <1>1, TestAssumption DEF run, TestInv, TestTypeOK, Runs
    <2>2. TestInv'
      BY <1>1, <2>1 DEF run, INITIAL, TestInv, TestTypeOK, Calm, Guarded, Unstarted, Attended, Reported, TestStatuses, Runs
    <2> QED BY <1>1, <2>1, <2>2 DEF run, Runs
  <1>2. CASE UnmountTest
    BY <1>2 DEF UnmountTest, TestInv, TestTypeOK, Calm, Guarded, Unstarted, Attended, Reported
  <1>3. ASSUME NEW r \in Runs, TestEvent(r)
        PROVE  TestInv' /\ (runningRef = 0 /\ outlived = {} => stages' = stages)
    <2>1. CASE r \in subscribed /\ mountedTest
      <3>1. /\ stage4' = fireStage4(r) /\ stages' = [stages EXCEPT ![4] = "passed", ![5] = "passed"]
            /\ ccStatus' = ccStatus \cup {r}
            /\ UNCHANGED <<mountedTest, shownRunning, runningRef, lastRun, work, waiting, subscribed, sse, outlived>>
        BY <1>3, <2>1 DEF TestEvent, Show
      <3>2. outlived = {} => runningRef = r /\ r # 0
        BY <2>1 DEF TestInv, Attended, Runs
      <3>3. r <= lastRun
        BY <2>1, TestAssumption DEF TestInv, TestTypeOK, Unstarted, Runs
      <3>4. /\ stages' \in [1..5 -> TestStatuses] /\ stage4' \in [Runs -> {"pending", "armed", "fired", "cancelled"}]
            /\ \A q \in Runs \ {r} : stage4'[q] = stage4[q]
            /\ stage4'[r] = "cancelled" => stage4[r] = "cancelled"
            /\ stage4'[r] # "pending"
            /\ \A k \in 1..3 : stages'[k] = stages[k]
            /\ stages'[4] = "passed" /\ stages'[5] = "passed"
        BY <3>1 DEF fireStage4, TestInv, TestTypeOK, TestStatuses
      <3>5. TestTypeOK'
        BY <3>1, <3>4 DEF TestInv, TestTypeOK
      <3>6. Calm'
        BY <3>1, <3>4 DEF TestInv, Calm
      <3>7. \A q \in Runs : Guarded(q)' /\ (q > lastRun' => Unstarted(q)')
        <4>1. SUFFICES ASSUME NEW q \in Runs PROVE Guarded(q)' /\ (q > lastRun' => Unstarted(q)')
          OBVIOUS
        <4>2. Guarded(q) /\ (q > lastRun => Unstarted(q))
          BY DEF TestInv
        <4>3. q > lastRun => q # r
          BY <3>3 DEF TestInv, TestTypeOK, Runs
        <4> QED BY <3>1, <3>4, <4>2, <4>3 DEF Guarded, Unstarted
      <3>8. outlived' = {} => \A q \in Runs : Attended(q)' /\ (mountedTest' /\ waiting'[q] \in {"race", "grace"} => Reported(q)')
        BY <3>1, <3>2, <3>4 DEF TestInv, Guarded, Attended, Reported
      <3> QED BY <3>1, <3>2, <3>5, <3>6, <3>7, <3>8 DEF TestInv
    <2>2. CASE ~(r \in subscribed /\ mountedTest)
      BY <1>3, <2>2 DEF TestEvent, TestInv, TestTypeOK, Calm, Guarded, Unstarted, Attended, Reported
    <2> QED BY <2>1, <2>2
  <1> QED BY <1>1, <1>2, <1>3

\* The invariant holds throughout.
LEMMA TestKeepsInv == TestSpec => []TestInv
  <1>1. TestInit => TestInv
    <2>1. SUFFICES ASSUME TestInit PROVE TestInv
      OBVIOUS
    <2>2. TestTypeOK
      <3>1. INITIAL \in [1..5 -> TestStatuses] /\ 0 \in 0..MaxRuns
        BY TestAssumption DEF INITIAL, TestStatuses
      <3>2. mountedTest \in BOOLEAN /\ shownRunning \in BOOLEAN
        BY <2>1, Zenon DEF TestInit
      <3>3. /\ stages \in [1..5 -> TestStatuses] /\ runningRef \in 0..MaxRuns /\ lastRun \in 0..MaxRuns
            /\ subscribed \subseteq Runs /\ ccStatus \subseteq Runs /\ outlived \subseteq Runs
        BY <2>1, <3>1 DEF TestInit
      <3>4. /\ work \in [Runs -> {"none", "fetch", "stream", "done", "failed"}]
            /\ waiting \in [Runs -> {"none", "race", "grace", "rejected", "over"}]
            /\ stage4 \in [Runs -> {"pending", "armed", "fired", "cancelled"}]
            /\ sse \in [Runs -> 0..4]
        BY <2>1 DEF TestInit
      <3> QED BY <3>2, <3>3, <3>4 DEF TestTypeOK
    <2>3. Calm
      BY <2>1 DEF TestInit, INITIAL, Calm
    <2>4. \A r \in Runs : r # 0
      BY DEF Runs
    <2> QED BY <2>1, <2>2, <2>3, <2>4 DEF TestInit, TestInv, Guarded, Unstarted, Attended, Reported
  <1>2. ASSUME TestInv, [TestInput \/ TestProgress]_testVars PROVE TestInv'
    <2>1. CASE TestInput \/ TestProgress
      BY <1>2, <2>1, StreamKeeps, Endings, TestOthers DEF TestInput, TestProgress
    <2>2. CASE UNCHANGED testVars
      BY <1>2, <2>2 DEF testVars, TestInv, TestTypeOK, Calm, Guarded, Unstarted, Attended, Reported
    <2> QED BY <1>2, <2>1, <2>2
  <1> QED BY <1>1, <1>2, PTL DEF TestSpec

\* Once no run is under way nothing changes the stages that are shown, unless
\* a request has outlived its timeout (useStatuslineTest).
THEOREM FinishedRunAlwaysStands == TestSpec => FinishedRunStands
  <1>1. TestInv /\ [TestInput \/ TestProgress]_testVars =>
            [runningRef = 0 /\ runningRef' = 0 /\ outlived = {} => stages' = stages]_testVars
    BY StreamKeeps, Endings, TestOthers DEF TestInput, TestProgress
  <1> QED BY <1>1, TestKeepsInv, PTL DEF TestSpec, FinishedRunStands

-----------------------------------------------------------------------------
(* The performance monitor.  Snapshots are of the addresses that the key  *)
(* names under which they were loaded; requests for other hosts are under *)
(* way only while that key is the one of the page; and a draft that is    *)
(* typed or shown is of the host that is shown.                           *)

Targets == MonHosts \X (MonAddrs \cup {NoAddr})
Loaded == [host : MonHosts, key : Targets, snapKey : MonHosts \X SUBSET Targets, cfg : Int,
           snaps : UNION {[D -> MonAddrs \cup {NoAddr}] : D \in SUBSET MonHosts}]
Submissions == [key : Targets, val : Int, at : {"sent", "taken"}]

MonRecs ==
    [addr : [MonHosts -> MonAddrs \cup {NoAddr}], active : MonHosts, rows : SUBSET MonHosts,
     data : Loaded \cup {NoData}, err : MonHosts \cup {NoMonHost},
     draft : [val : Int, of : Targets \cup {<<NoMonHost, NoAddr>>}], dirty : BOOLEAN,
     load : [at : {"config", "snapshot", "timer"}, cfg : Int], sec : SUBSET MonHosts, subs : SUBSET Submissions]

\* The data are of the host they name, at the addresses of their keys.
DataTrue(d) ==
    d # NoData =>
        /\ d.host \in DOMAIN d.snaps /\ d.key = <<d.host, d.snaps[d.host]>> /\ d.snapKey[1] = d.host
        /\ \A h \in DOMAIN d.snaps, a \in MonAddrs \cup {NoAddr} : <<h, a>> \in d.snapKey[2] => d.snaps[h] = a

\* Requests for other hosts belong to the data that is shown.
SecondaryTrue(s) == s.sec # {} => s.data # NoData /\ s.data.snapKey = SnapKey(s) /\ s.active \notin s.sec

\* A draft that is typed or shown is of the host that is shown.
DraftTrue(s) == s.dirty \/ Ready(s) => s.draft.of = ActiveKey(s)

MonSound(s) == s \in MonRecs /\ DataTrue(s.data) /\ SecondaryTrue(s) /\ DraftTrue(s)

MonInv == MonSound(mon) /\ mon.active \in Configured(mon) /\ daemonCfg \in [MonAddrs -> Int]

\* What a render reads of the hosts and panes.
LEMMA SameKeys ==
    ASSUME NEW s, NEW t, s.addr = t.addr, s.active = t.active, s.rows = t.rows
    PROVE  ActiveKey(s) = ActiveKey(t) /\ SnapKey(s) = SnapKey(t)
                /\ collectSnapshotHostTargets(s) = collectSnapshotHostTargets(t)
  BY DEF ActiveKey, SnapKey, snapshotHostTargetKey, collectSnapshotHostTargets, Configured

\* The keys of a render name its host and the addresses of the hosts it shows.
LEMMA KeysTyped ==
    ASSUME NEW s \in MonRecs
    PROVE  /\ ActiveKey(s) \in Targets /\ SnapKey(s) \in MonHosts \X SUBSET Targets
           /\ ActiveKey(s) = <<s.active, s.addr[s.active]>> /\ SnapKey(s)[1] = s.active
           /\ collectSnapshotHostTargets(s) \subseteq MonHosts
           /\ \A h \in collectSnapshotHostTargets(s) : <<h, s.addr[h]>> \in SnapKey(s)[2]
           /\ \A h \in MonHosts, a \in MonAddrs \cup {NoAddr} : <<h, a>> \in SnapKey(s)[2] => a = s.addr[h]
  <1>1. s.active \in MonHosts /\ s.addr \in [MonHosts -> MonAddrs \cup {NoAddr}] /\ s.rows \subseteq MonHosts
    BY DEF MonRecs
  <1>2. collectSnapshotHostTargets(s) \subseteq MonHosts
    BY DEF collectSnapshotHostTargets, Configured
  <1>3. /\ SnapKey(s) = <<s.active, {<<h, s.addr[h]>> : h \in collectSnapshotHostTargets(s)}>>
        /\ ActiveKey(s) = <<s.active, s.addr[s.active]>>
    BY DEF SnapKey, ActiveKey, snapshotHostTargetKey
  <1> QED BY <1>1, <1>2, <1>3 DEF Targets

\* What the page shows is what it asked for.
LEMMA ShownTrue ==
    ASSUME NEW s, MonSound(s)
    PROVE  /\ Ready(s) => s.data.snaps[s.active] = s.addr[s.active] /\ s.draft.of = ActiveKey(s)
           /\ \A h \in DOMAIN rowSnapshots(s) : rowSnapshots(s)[h] = s.addr[h]
  <1>1. s \in MonRecs /\ DataTrue(s.data) /\ DraftTrue(s)
    BY DEF MonSound
  <1>2. s.active \in MonHosts /\ s.data \in Loaded \cup {NoData}
    BY <1>1 DEF MonRecs
  <1>3. s.data.host = s.active => s.data # NoData /\ s.data \in Loaded
    BY <1>2, MonAssumption DEF NoData
  <1>4. ActiveKey(s) = <<s.active, s.addr[s.active]>>
    BY <1>1, KeysTyped
  <1>5. Ready(s) => s.data.snaps[s.active] = s.addr[s.active] /\ s.draft.of = ActiveKey(s)
    BY <1>1, <1>3, <1>4 DEF Ready, DataTrue, DraftTrue
  <1>6. ASSUME NEW h \in DOMAIN rowSnapshots(s) PROVE rowSnapshots(s)[h] = s.addr[h]
    <2> DEFINE none == Keep(<<>>, {})
    <2>1. DOMAIN none = {}
      BY DEF Keep
    <2> HIDE DEF none
    <2>2. \/ rowSnapshots(s) = none
          \/ s.data.host = s.active /\ s.data.snapKey = SnapKey(s)
             /\ rowSnapshots(s) = Keep(s.data.snaps, collectSnapshotHostTargets(s))
          \/ Ready(s) /\ rowSnapshots(s) = Keep(s.data.snaps, {s.active})
      BY DEF rowSnapshots, none
    <2>3. CASE rowSnapshots(s) = none
      BY <1>6, <2>1, <2>3
    <2>4. CASE s.data.host = s.active /\ s.data.snapKey = SnapKey(s)
               /\ rowSnapshots(s) = Keep(s.data.snaps, collectSnapshotHostTargets(s))
      <3>1. h \in DOMAIN s.data.snaps /\ h \in collectSnapshotHostTargets(s) /\ rowSnapshots(s)[h] = s.data.snaps[h]
        BY <1>6, <2>4 DEF Keep
      <3>2. <<h, s.addr[h]>> \in s.data.snapKey[2] /\ h \in MonHosts
        BY <1>1, <2>4, <3>1, KeysTyped
      <3>3. s.addr[h] \in MonAddrs \cup {NoAddr}
        BY <1>1, <3>2 DEF MonRecs
      <3> QED BY <1>1, <1>3, <2>4, <3>1, <3>2, <3>3 DEF DataTrue
    <2>5. CASE Ready(s) /\ rowSnapshots(s) = Keep(s.data.snaps, {s.active})
      <3>1. h = s.active /\ rowSnapshots(s)[h] = s.data.snaps[h]
        BY <1>6, <2>5 DEF Keep
      <3> QED BY <1>5, <2>5, <3>1
    <2> QED BY <2>2, <2>3, <2>4, <2>5
  <1> QED BY <1>5, <1>6

\* Starting to load changes neither the hosts, the data nor the draft.
LEMMA LoadStarts ==
    ASSUME NEW s \in MonRecs
    PROVE  LET l == StartLoad(s)
           IN /\ l \in MonRecs /\ l.addr = s.addr /\ l.active = s.active /\ l.rows = s.rows /\ l.data = s.data
              /\ l.sec = s.sec /\ l.draft = s.draft /\ l.dirty = s.dirty
  <1> DEFINE err == IF s.err = s.active THEN NoMonHost ELSE s.err
  <1>1. err \in MonHosts \cup {NoMonHost} /\ StartLoad(s) = [s EXCEPT !.load = FreshLoad, !.err = err]
    BY DEF MonRecs, StartLoad
  <1>2. FreshLoad \in [at : {"config", "snapshot", "timer"}, cfg : Int]
    BY DEF FreshLoad, MinCfg
  <1> HIDE DEF err
  <1> QED BY <1>1, <1>2 DEF MonRecs

\* A render with its effects.
LEMMA CommitKeeps ==
    ASSUME MonInv, NEW s \in MonRecs, NEW reload \in BOOLEAN, Commit(s, reload), DataTrue(s.data),
           ~reload /\ SnapKey(s) = SnapKey(mon) => SecondaryTrue(s),
           s.dirty /\ ActiveKey(s) = ActiveKey(mon) => s.draft.of = ActiveKey(s),
           s.active \in Configured(s), daemonCfg' = daemonCfg
    PROVE  MonInv'
  <1> DEFINE a == [s EXCEPT !.dirty = @ /\ ActiveKey(s) = ActiveKey(mon)]
             c == [a EXCEPT !.sec = {}]
             b == IF reload \/ SnapKey(s) # SnapKey(mon) THEN StartLoad(c) ELSE a
             d == [val |-> b.data.cfg, of |-> ActiveKey(b)]
  <1>1. mon' = [b EXCEPT !.draft = IF Ready(b) /\ ~b.dirty THEN d ELSE @]
    BY DEF Commit
  <1>2. /\ a \in MonRecs /\ a.addr = s.addr /\ a.active = s.active /\ a.rows = s.rows /\ a.data = s.data
        /\ a.sec = s.sec /\ a.draft = s.draft /\ (a.dirty <=> s.dirty /\ ActiveKey(s) = ActiveKey(mon))
    <2> DEFINE still == s.dirty /\ ActiveKey(s) = ActiveKey(mon)
    <2>1. still \in BOOLEAN
      OBVIOUS
    <2> HIDE DEF still
    <2>2. a = [s EXCEPT !.dirty = still]
      BY DEF still
    <2>3. /\ a \in MonRecs /\ a.addr = s.addr /\ a.active = s.active /\ a.rows = s.rows /\ a.data = s.data
          /\ a.sec = s.sec /\ a.draft = s.draft /\ a.dirty = still
      BY <2>1, <2>2 DEF MonRecs
    <2> QED BY <2>3 DEF still
  <1> HIDE DEF a
  <1>3. /\ c \in MonRecs /\ c.addr = a.addr /\ c.active = a.active /\ c.rows = a.rows /\ c.data = a.data
        /\ c.sec = {} /\ c.draft = a.draft /\ c.dirty = a.dirty
    BY <1>2 DEF MonRecs
  <1> HIDE DEF c
  <1>4. LET l == StartLoad(c)
        IN /\ l \in MonRecs /\ l.addr = c.addr /\ l.active = c.active /\ l.rows = c.rows /\ l.data = c.data
           /\ l.sec = c.sec /\ l.draft = c.draft /\ l.dirty = c.dirty
    BY <1>3, LoadStarts
  <1>5. /\ b \in MonRecs /\ b.addr = s.addr /\ b.active = s.active /\ b.rows = s.rows /\ b.data = s.data
        /\ b.draft = s.draft /\ b.dirty = a.dirty
        /\ b.sec # {} => b.sec = s.sec /\ ~reload /\ SnapKey(s) = SnapKey(mon)
    BY <1>2, <1>3, <1>4
  <1> HIDE DEF b
  <1>6. ActiveKey(b) = ActiveKey(s) /\ SnapKey(b) = SnapKey(s)
    BY <1>5, SameKeys
  <1>7. Ready(b) => d \in [val : Int, of : Targets \cup {<<NoMonHost, NoAddr>>}]
    <2>1. SUFFICES ASSUME Ready(b) PROVE d \in [val : Int, of : Targets \cup {<<NoMonHost, NoAddr>>}]
      OBVIOUS
    <2>2. b.data.host = b.active /\ b.active \in MonHosts /\ b.data \in Loaded \cup {NoData}
      BY <1>5, <2>1 DEF Ready, MonRecs
    <2>3. b.data \in Loaded
      BY <2>2, MonAssumption DEF NoData
    <2> QED BY <1>5, <2>3, KeysTyped DEF Loaded
  <1> DEFINE e == IF Ready(b) /\ ~b.dirty THEN d ELSE b.draft
  <1>8. e \in [val : Int, of : Targets \cup {<<NoMonHost, NoAddr>>}] /\ mon' = [b EXCEPT !.draft = e]
    BY <1>1, <1>5, <1>7 DEF MonRecs
  <1>9. e.of = IF Ready(b) /\ ~b.dirty THEN ActiveKey(b) ELSE b.draft.of
    OBVIOUS
  <1> HIDE DEF e, d
  <1>10. /\ mon' \in MonRecs /\ mon'.addr = b.addr /\ mon'.active = b.active /\ mon'.rows = b.rows /\ mon'.data = b.data
         /\ mon'.sec = b.sec /\ mon'.draft = e /\ mon'.dirty = b.dirty
    BY <1>5, <1>8 DEF MonRecs
  <1>11. ActiveKey(mon') = ActiveKey(s) /\ SnapKey(mon') = SnapKey(s)
    <2>1. ActiveKey(mon') = ActiveKey(b) /\ SnapKey(mon') = SnapKey(b)
      BY <1>10, SameKeys
    <2> QED BY <1>6, <2>1
  <1>12. Ready(mon') <=> Ready(b)
    BY <1>6, <1>10, <1>11 DEF Ready
  <1>13. DraftTrue(mon')
    BY <1>2, <1>5, <1>6, <1>9, <1>10, <1>11, <1>12 DEF DraftTrue
  <1>14. SecondaryTrue(mon')
    BY <1>5, <1>10, <1>11 DEF SecondaryTrue
  <1>15. mon'.active \in Configured(mon')
    BY <1>5, <1>10 DEF Configured
  <1> QED BY <1>5, <1>10, <1>13, <1>14, <1>15 DEF MonSound, MonInv

\* A step that only ends or starts requests, or edits the draft of this host.
LEMMA RequestsKeep ==
    ASSUME MonInv, mon' \in MonRecs, mon'.addr = mon.addr, mon'.active = mon.active, mon'.rows = mon.rows,
           mon'.data = mon.data, mon'.sec \subseteq mon.sec, daemonCfg' \in [MonAddrs -> Int],
           mon'.draft.of = ActiveKey(mon) \/ (mon'.draft = mon.draft /\ (mon'.dirty => mon.dirty))
    PROVE  MonInv'
  <1>1. ActiveKey(mon') = ActiveKey(mon) /\ SnapKey(mon') = SnapKey(mon)
    BY SameKeys
  <1>2. Ready(mon') <=> Ready(mon)
    BY <1>1 DEF Ready
  <1>3. mon'.active \in Configured(mon')
    BY DEF MonInv, Configured
  <1> QED BY <1>1, <1>2, <1>3 DEF MonInv, MonSound, SecondaryTrue, DraftTrue

\* What the invariant says of the parts.
LEMMA MonParts ==
    ASSUME MonInv
    PROVE  /\ mon \in MonRecs /\ daemonCfg \in [MonAddrs -> Int]
           /\ DataTrue(mon.data) /\ SecondaryTrue(mon) /\ DraftTrue(mon)
           /\ mon.active \in Configured(mon) /\ mon.active \in MonHosts /\ mon.addr[mon.active] \in MonAddrs
           /\ mon.addr \in [MonHosts -> MonAddrs \cup {NoAddr}] /\ mon.load.cfg \in Int /\ mon.subs \subseteq Submissions
           /\ mon.draft.val \in Int
  BY DEF MonInv, MonSound, Configured, MonRecs

\* The configuration, a failed load, the timer and a failed request keep it.
LEMMA LoadSteps ==
    ASSUME MonInv, ConfigFetched \/ LoadFailed \/ LoadTimerFires \/ \E h \in MonHosts : SecondaryFailed(h)
    PROVE  MonInv'
  <1>1. mon \in MonRecs /\ daemonCfg' = daemonCfg /\ daemonCfg \in [MonAddrs -> Int]
    BY MonParts DEF ConfigFetched, LoadFailed, LoadTimerFires, SecondaryFailed
  <1>2. CASE ConfigFetched
    <2> DEFINE l == [at |-> "snapshot", cfg |-> daemonCfg[mon.addr[mon.active]]]
    <2>1. mon' = [mon EXCEPT !.load = l]
      BY <1>2 DEF ConfigFetched
    <2>2. l \in [at : {"config", "snapshot", "timer"}, cfg : Int]
      BY MonParts
    <2> HIDE DEF l
    <2>3. /\ mon' \in MonRecs /\ mon'.addr = mon.addr /\ mon'.active = mon.active /\ mon'.rows = mon.rows
          /\ mon'.data = mon.data /\ mon'.sec = mon.sec /\ mon'.draft = mon.draft /\ mon'.dirty = mon.dirty
      BY <1>1, <2>1, <2>2 DEF MonRecs
    <2> QED BY <1>1, <2>3, RequestsKeep
  <1>3. CASE LoadFailed
    <2> DEFINE l == [mon.load EXCEPT !.at = "timer"]
               e == mon.active
    <2>1. mon' = [mon EXCEPT !.load = l, !.err = e]
      BY <1>3 DEF LoadFailed
    <2>2. l \in [at : {"config", "snapshot", "timer"}, cfg : Int] /\ e \in MonHosts
      BY <1>1 DEF MonRecs
    <2> HIDE DEF l, e
    <2>3. /\ mon' \in MonRecs /\ mon'.addr = mon.addr /\ mon'.active = mon.active /\ mon'.rows = mon.rows
          /\ mon'.data = mon.data /\ mon'.sec = mon.sec /\ mon'.draft = mon.draft /\ mon'.dirty = mon.dirty
      BY <1>1, <2>1, <2>2 DEF MonRecs
    <2> QED BY <1>1, <2>3, RequestsKeep
  <1>4. CASE LoadTimerFires
    <2>1. mon' = StartLoad(mon)
      BY <1>4 DEF LoadTimerFires
    <2> QED BY <1>1, <2>1, LoadStarts, RequestsKeep
  <1>5. ASSUME NEW h \in MonHosts, SecondaryFailed(h) PROVE MonInv'
    <2> DEFINE sec == mon.sec \ {h}
               e == mon.active
    <2>1. mon' = [mon EXCEPT !.sec = sec, !.err = e]
      BY <1>5 DEF SecondaryFailed
    <2>2. sec \subseteq mon.sec /\ sec \subseteq MonHosts /\ e \in MonHosts
      BY <1>1 DEF MonRecs
    <2> HIDE DEF sec, e
    <2>3. /\ mon' \in MonRecs /\ mon'.addr = mon.addr /\ mon'.active = mon.active /\ mon'.rows = mon.rows
          /\ mon'.data = mon.data /\ mon'.sec = sec /\ mon'.draft = mon.draft /\ mon'.dirty = mon.dirty
      BY <1>1, <2>1, <2>2 DEF MonRecs
    <2> QED BY <1>1, <2>2, <2>3, RequestsKeep
  <1> QED BY <1>2, <1>3, <1>4, <1>5

\* A snapshot of the active host: what is kept was asked for under this key.
LEMMA SnapshotKeeps ==
    ASSUME MonInv, SnapshotFetched
    PROVE  MonInv'
  <1> DEFINE kept == preserveSecondarySnapshots(mon)
             snaps == [h \in DOMAIN kept \cup {mon.active} |-> IF h = mon.active THEN mon.addr[h] ELSE kept[h]]
             data == [host |-> mon.active, key |-> ActiveKey(mon), snapKey |-> SnapKey(mon), cfg |-> mon.load.cfg,
                      snaps |-> snaps]
             load == [mon.load EXCEPT !.at = "timer"]
             sec == mon.sec \cup (collectSnapshotHostTargets(mon) \ {mon.active})
             s == [mon EXCEPT !.data = data, !.load = load, !.sec = sec]
  <1>1. Commit(s, FALSE) /\ daemonCfg' = daemonCfg
    BY DEF SnapshotFetched
  <1>2. /\ DOMAIN kept \subseteq MonHosts /\ \A h \in DOMAIN kept : kept[h] \in MonAddrs \cup {NoAddr}
        /\ \A h \in DOMAIN kept, a \in MonAddrs \cup {NoAddr} : <<h, a>> \in SnapKey(mon)[2] => kept[h] = a
    <2>1. CASE mon.data # NoData /\ mon.data.snapKey = SnapKey(mon)
      <3>1. kept = Keep(mon.data.snaps, collectSnapshotHostTargets(mon) \ {mon.active})
        BY <2>1 DEF preserveSecondarySnapshots
      <3>2. mon.data \in Loaded
        BY <2>1, MonParts DEF MonRecs
      <3>3. PICK D \in SUBSET MonHosts : mon.data.snaps \in [D -> MonAddrs \cup {NoAddr}]
        BY <3>2 DEF Loaded
      <3>4. DOMAIN kept \subseteq D /\ \A h \in DOMAIN kept : kept[h] = mon.data.snaps[h]
        BY <3>1, <3>3 DEF Keep
      <3>5. \A h \in D, a \in MonAddrs \cup {NoAddr} : <<h, a>> \in SnapKey(mon)[2] => mon.data.snaps[h] = a
        BY <2>1, <3>3, MonParts DEF DataTrue
      <3> HIDE DEF kept
      <3> QED BY <3>3, <3>4, <3>5
    <2>2. CASE ~(mon.data # NoData /\ mon.data.snapKey = SnapKey(mon))
      <3>1. kept = Keep(<<>>, {})
        BY <2>2 DEF preserveSecondarySnapshots
      <3>2. DOMAIN kept = {}
        BY <3>1 DEF Keep
      <3> HIDE DEF kept
      <3> QED BY <3>2
    <2> QED BY <2>1, <2>2
  <1> HIDE DEF kept
  <1>3. /\ snaps \in [DOMAIN kept \cup {mon.active} -> MonAddrs \cup {NoAddr}]
        /\ snaps[mon.active] = mon.addr[mon.active]
        /\ \A h \in DOMAIN kept \ {mon.active} : snaps[h] = kept[h]
    BY <1>2, MonParts
  <1>4. DOMAIN snaps = DOMAIN kept \cup {mon.active} /\ DOMAIN snaps \in SUBSET MonHosts
    BY <1>2, MonParts
  <1> HIDE DEF snaps
  <1>5. data \in Loaded /\ data.host = mon.active /\ data.key = ActiveKey(mon) /\ data.snapKey = SnapKey(mon) /\ data.snaps = snaps
    <2>1. snaps \in UNION {[D -> MonAddrs \cup {NoAddr}] : D \in SUBSET MonHosts}
      BY <1>3, <1>4
    <2>2. ActiveKey(mon) \in Targets /\ SnapKey(mon) \in MonHosts \X SUBSET Targets
      BY MonParts, KeysTyped
    <2> QED BY <2>1, <2>2, MonParts DEF Loaded
  <1> HIDE DEF data
  <1>6. DataTrue(data)
    <2>1. data.host \in DOMAIN data.snaps /\ data.key = <<data.host, data.snaps[data.host]>> /\ data.snapKey[1] = data.host
      BY <1>3, <1>4, <1>5, MonParts, KeysTyped
    <2>2. ASSUME NEW h \in DOMAIN data.snaps, NEW a \in MonAddrs \cup {NoAddr}, <<h, a>> \in data.snapKey[2]
          PROVE  data.snaps[h] = a
      <3>1. CASE h = mon.active
        BY <1>3, <1>5, <2>2, <3>1, MonParts, KeysTyped
      <3>2. CASE h # mon.active
        BY <1>2, <1>3, <1>4, <1>5, <2>2, <3>2
      <3> QED BY <3>1, <3>2
    <2> QED BY <2>1, <2>2 DEF DataTrue
  <1>7. data # NoData
    BY <1>5, MonParts, MonAssumption DEF NoData
  <1>8. load \in [at : {"config", "snapshot", "timer"}, cfg : Int] /\ sec \subseteq MonHosts /\ mon.active \notin sec
    <2>1. load \in [at : {"config", "snapshot", "timer"}, cfg : Int] /\ mon.sec \subseteq MonHosts
      BY MonParts DEF MonRecs
    <2>2. mon.active \notin mon.sec
      BY MonParts DEF SecondaryTrue
    <2> QED BY <2>1, <2>2, MonParts, KeysTyped
  <1> HIDE DEF load, sec
  <1>9. /\ s \in MonRecs /\ s.addr = mon.addr /\ s.active = mon.active /\ s.rows = mon.rows
        /\ s.data = data /\ s.sec = sec /\ s.draft = mon.draft /\ s.dirty = mon.dirty
    BY <1>5, <1>8, MonParts DEF MonRecs
  <1> HIDE DEF s
  <1>10. ActiveKey(s) = ActiveKey(mon) /\ SnapKey(s) = SnapKey(mon)
    BY <1>9, SameKeys
  <1>11. SecondaryTrue(s)
    BY <1>5, <1>7, <1>8, <1>9, <1>10 DEF SecondaryTrue
  <1>12. s.dirty /\ ActiveKey(s) = ActiveKey(mon) => s.draft.of = ActiveKey(s)
    BY <1>9, <1>10, MonParts DEF DraftTrue
  <1>13. s.active \in Configured(s)
    BY <1>9, MonParts DEF Configured
  <1> QED BY <1>1, <1>6, <1>9, <1>11, <1>12, <1>13, CommitKeeps

\* A snapshot of another host is of an address under the key of the page.
LEMMA SecondaryKeeps ==
    ASSUME MonInv, NEW h \in MonHosts, SecondaryAnswered(h)
    PROVE  MonInv'
  <1> DEFINE snaps == [x \in DOMAIN mon.data.snaps \cup {h} |-> IF x = h THEN mon.addr[h] ELSE mon.data.snaps[x]]
             data == IF mon.data.host # mon.active THEN mon.data ELSE [mon.data EXCEPT !.snaps = snaps]
             sec == mon.sec \ {h}
             s == [mon EXCEPT !.sec = sec, !.data = data]
  <1>1. Commit(s, FALSE) /\ daemonCfg' = daemonCfg /\ h \in mon.sec
    BY DEF SecondaryAnswered
  <1>2. mon.data # NoData /\ mon.data.snapKey = SnapKey(mon) /\ h # mon.active /\ mon.data \in Loaded
    <2>1. mon.data # NoData /\ mon.data.snapKey = SnapKey(mon) /\ mon.active \notin mon.sec
      BY <1>1, MonParts DEF SecondaryTrue
    <2> QED BY <1>1, <2>1, MonParts DEF MonRecs
  <1>3. mon.addr[h] \in MonAddrs \cup {NoAddr}
    BY MonParts
  <1>4. data \in Loaded /\ data.snapKey = mon.data.snapKey /\ DataTrue(data)
    <2>1. CASE mon.data.host # mon.active
      BY <1>2, <2>1, MonParts
    <2>2. CASE mon.data.host = mon.active
      <3>1. PICK D \in SUBSET MonHosts : mon.data.snaps \in [D -> MonAddrs \cup {NoAddr}]
        BY <1>2 DEF Loaded
      <3>2. /\ snaps \in [D \cup {h} -> MonAddrs \cup {NoAddr}] /\ snaps[h] = mon.addr[h]
            /\ \A x \in D \ {h} : snaps[x] = mon.data.snaps[x]
        BY <1>3, <3>1
      <3>3. DOMAIN snaps = D \cup {h} /\ D \cup {h} \in SUBSET MonHosts /\ DOMAIN mon.data.snaps = D
        BY <3>1
      <3> HIDE DEF snaps
      <3>4. snaps \in UNION {[E -> MonAddrs \cup {NoAddr}] : E \in SUBSET MonHosts}
        BY <3>2, <3>3
      <3>5. /\ data \in Loaded /\ data.snapKey = mon.data.snapKey /\ data.host = mon.data.host
            /\ data.key = mon.data.key /\ data.snaps = snaps
        BY <1>2, <2>2, <3>4 DEF Loaded
      <3> HIDE DEF data
      <3>6. /\ mon.active \in D /\ mon.data.key = <<mon.active, mon.data.snaps[mon.active]>> /\ mon.data.snapKey[1] = mon.active
            /\ \A x \in D, a \in MonAddrs \cup {NoAddr} : <<x, a>> \in mon.data.snapKey[2] => mon.data.snaps[x] = a
        BY <1>2, <2>2, <3>3, MonParts DEF DataTrue
      <3>7. \A a \in MonAddrs \cup {NoAddr} : <<h, a>> \in mon.data.snapKey[2] => a = mon.addr[h]
        BY <1>2, MonParts, KeysTyped
      <3>8. \A x \in D \cup {h}, a \in MonAddrs \cup {NoAddr} : <<x, a>> \in data.snapKey[2] => data.snaps[x] = a
        BY <3>2, <3>5, <3>6, <3>7
      <3>9. DataTrue(data)
        BY <1>2, <2>2, <3>2, <3>3, <3>5, <3>6, <3>8 DEF DataTrue
      <3> QED BY <3>5, <3>9
    <2> QED BY <2>1, <2>2
  <1>5. data # NoData
    <2>1. data.host \in MonHosts
      BY <1>4 DEF Loaded
    <2> QED BY <2>1, MonAssumption DEF NoData
  <1> HIDE DEF data
  <1>6. sec \subseteq MonHosts /\ mon.active \notin sec
    BY MonParts DEF MonRecs, SecondaryTrue
  <1> HIDE DEF sec
  <1>7. /\ s \in MonRecs /\ s.addr = mon.addr /\ s.active = mon.active /\ s.rows = mon.rows
        /\ s.data = data /\ s.sec = sec /\ s.draft = mon.draft /\ s.dirty = mon.dirty
    BY <1>4, <1>6, MonParts DEF MonRecs
  <1> HIDE DEF s
  <1>8. ActiveKey(s) = ActiveKey(mon) /\ SnapKey(s) = SnapKey(mon)
    BY <1>7, SameKeys
  <1>9. SecondaryTrue(s)
    BY <1>2, <1>4, <1>5, <1>6, <1>7, <1>8 DEF SecondaryTrue
  <1>10. s.dirty /\ ActiveKey(s) = ActiveKey(mon) => s.draft.of = ActiveKey(s)
    BY <1>7, <1>8, MonParts DEF DraftTrue
  <1>11. s.active \in Configured(s)
    BY <1>7, MonParts DEF Configured
  <1> QED BY <1>1, <1>4, <1>7, <1>9, <1>10, <1>11, CommitKeeps

\* The settings: what is typed, submitted, taken and answered.
LEMMA SettingsKeep ==
    ASSUME MonInv, (\E v \in Drafts : TypeDraft(v)) \/ submitConfig
                   \/ \E q \in mon.subs : ConfigTaken(q) \/ SubmitFailed(q)
    PROVE  MonInv'
  <1>1. mon \in MonRecs /\ daemonCfg \in [MonAddrs -> Int] /\ ActiveKey(mon) \in Targets
    BY MonParts, KeysTyped
  <1>2. ASSUME NEW v \in Drafts, TypeDraft(v) PROVE MonInv'
    <2> DEFINE d == [val |-> v, of |-> ActiveKey(mon)]
    <2>1. mon' = [mon EXCEPT !.draft = d, !.dirty = TRUE] /\ daemonCfg' = daemonCfg
      BY <1>2 DEF TypeDraft
    <2>2. d \in [val : Int, of : Targets \cup {<<NoMonHost, NoAddr>>}] /\ d.of = ActiveKey(mon)
      BY <1>1 DEF Drafts
    <2> HIDE DEF d
    <2>3. /\ mon' \in MonRecs /\ mon'.addr = mon.addr /\ mon'.active = mon.active /\ mon'.rows = mon.rows
          /\ mon'.data = mon.data /\ mon'.sec = mon.sec /\ mon'.draft = d
      BY <1>1, <2>1, <2>2 DEF MonRecs
    <2> QED BY <1>1, <2>1, <2>2, <2>3, RequestsKeep
  <1>3. CASE submitConfig /\ mon.draft.val = 0
    <2> DEFINE s == [mon EXCEPT !.dirty = FALSE]
    <2>1. Commit(s, FALSE) /\ daemonCfg' = daemonCfg
      BY <1>3 DEF submitConfig
    <2>2. /\ s \in MonRecs /\ s.addr = mon.addr /\ s.active = mon.active /\ s.rows = mon.rows
          /\ s.data = mon.data /\ s.sec = mon.sec /\ s.draft = mon.draft /\ ~s.dirty
      BY <1>1 DEF MonRecs
    <2> HIDE DEF s
    <2>3. ActiveKey(s) = ActiveKey(mon) /\ SnapKey(s) = SnapKey(mon)
      BY <2>2, SameKeys
    <2>4. SecondaryTrue(s) /\ s.active \in Configured(s) /\ DataTrue(s.data)
      BY <2>2, <2>3, MonParts DEF SecondaryTrue, Configured
    <2> QED BY <2>1, <2>2, <2>4, CommitKeeps
  <1>4. CASE submitConfig /\ mon.draft.val # 0
    <2> DEFINE subs == mon.subs \cup {[key |-> ActiveKey(mon), val |-> clampNumber(mon.draft.val), at |-> "sent"]}
    <2>1. mon' = [mon EXCEPT !.subs = subs] /\ daemonCfg' = daemonCfg
      BY <1>4 DEF submitConfig
    <2>2. clampNumber(mon.draft.val) \in Int
      BY MonParts DEF clampNumber, MinCfg, MaxCfg
    <2>3. subs \subseteq Submissions
      BY <1>1, <2>2, MonParts DEF Submissions
    <2> HIDE DEF subs
    <2>4. /\ mon' \in MonRecs /\ mon'.addr = mon.addr /\ mon'.active = mon.active /\ mon'.rows = mon.rows
          /\ mon'.data = mon.data /\ mon'.sec = mon.sec /\ mon'.draft = mon.draft /\ mon'.dirty = mon.dirty
      BY <1>1, <2>1, <2>3 DEF MonRecs
    <2> QED BY <1>1, <2>1, <2>4, RequestsKeep
  <1>5. ASSUME NEW q \in mon.subs, ConfigTaken(q) PROVE MonInv'
    <2> DEFINE t == [q EXCEPT !.at = "taken"]
               subs == (mon.subs \ {q}) \cup {t}
    <2>1. mon' = [mon EXCEPT !.subs = subs] /\ daemonCfg' = [daemonCfg EXCEPT ![q.key[2]] = q.val]
      BY <1>5 DEF ConfigTaken
    <2>2. q \in Submissions /\ q.val \in Int
      BY MonParts DEF Submissions
    <2>3. t \in Submissions
      BY <2>2 DEF Submissions
    <2>4. subs \subseteq Submissions
      BY <2>3, MonParts
    <2> HIDE DEF subs
    <2>5. /\ mon' \in MonRecs /\ mon'.addr = mon.addr /\ mon'.active = mon.active /\ mon'.rows = mon.rows
          /\ mon'.data = mon.data /\ mon'.sec = mon.sec /\ mon'.draft = mon.draft /\ mon'.dirty = mon.dirty
      BY <1>1, <2>1, <2>4 DEF MonRecs
    <2>6. daemonCfg' \in [MonAddrs -> Int]
      BY <1>1, <2>1, <2>2
    <2> QED BY <2>5, <2>6, RequestsKeep
  <1>6. ASSUME NEW q \in mon.subs, SubmitFailed(q) PROVE MonInv'
    <2> DEFINE subs == mon.subs \ {q}
               e == IF ActiveKey(mon) = q.key THEN mon.active ELSE mon.err
    <2>1. mon' = [mon EXCEPT !.subs = subs, !.err = e] /\ daemonCfg' = daemonCfg
      BY <1>6 DEF SubmitFailed
    <2>2. subs \subseteq Submissions /\ e \in MonHosts \cup {NoMonHost}
      BY <1>1 DEF MonRecs
    <2> HIDE DEF subs, e
    <2>3. /\ mon' \in MonRecs /\ mon'.addr = mon.addr /\ mon'.active = mon.active /\ mon'.rows = mon.rows
          /\ mon'.data = mon.data /\ mon'.sec = mon.sec /\ mon'.draft = mon.draft /\ mon'.dirty = mon.dirty
      BY <1>1, <2>1, <2>2 DEF MonRecs
    <2> QED BY <1>1, <2>1, <2>3, RequestsKeep
  <1> QED BY <1>2, <1>3, <1>4, <1>5, <1>6

\* The answer to a change reaches the page only while its host is shown.
LEMMA ChangeAnswered ==
    ASSUME MonInv, NEW q \in mon.subs, SubmitAnswered(q)
    PROVE  MonInv'
  <1> DEFINE subs == mon.subs \ {q}
             r == [mon EXCEPT !.subs = subs]
  <1>1. daemonCfg' = daemonCfg /\ q \in Submissions /\ daemonCfg \in [MonAddrs -> Int]
    BY MonParts DEF SubmitAnswered
  <1>2. /\ r \in MonRecs /\ r.addr = mon.addr /\ r.active = mon.active /\ r.rows = mon.rows /\ r.subs = subs
        /\ r.data = mon.data /\ r.sec = mon.sec /\ r.draft = mon.draft /\ r.dirty = mon.dirty /\ r.err = mon.err
    BY MonParts DEF MonRecs
  <1>3. CASE ActiveKey(mon) # q.key
    <2>1. mon' = r
      BY <1>3 DEF SubmitAnswered
    <2> HIDE DEF r
    <2> QED BY <1>1, <1>2, <2>1, RequestsKeep
  <1>4. CASE ActiveKey(mon) = q.key
    <2> DEFINE data == IF Ready(mon) THEN [r.data EXCEPT !.cfg = q.val] ELSE r.data
               typed == [val |-> q.val, of |-> q.key]
               e == IF r.err = mon.active THEN NoMonHost ELSE r.err
               s == [r EXCEPT !.data = data, !.draft = typed, !.dirty = FALSE, !.err = e]
    <2>1. Commit(s, TRUE)
      BY <1>4 DEF SubmitAnswered
    <2>2. data \in Loaded \cup {NoData} /\ DataTrue(data)
      <3>1. CASE Ready(mon)
        <4>1. mon.data \in Loaded /\ mon.data # NoData
          BY <3>1, MonParts, MonAssumption DEF MonRecs, Ready, NoData
        <4>2. q.val \in Int
          BY <1>1 DEF Submissions
        <4>3. /\ data \in Loaded /\ data.host = mon.data.host /\ data.key = mon.data.key
              /\ data.snapKey = mon.data.snapKey /\ data.snaps = mon.data.snaps
          BY <1>2, <3>1, <4>1, <4>2 DEF Loaded
        <4> HIDE DEF data
        <4> QED BY <4>1, <4>3, MonParts DEF DataTrue
      <3>2. CASE ~Ready(mon)
        BY <1>2, <3>2, MonParts DEF MonRecs
      <3> QED BY <3>1, <3>2
    <2>3. typed \in [val : Int, of : Targets \cup {<<NoMonHost, NoAddr>>}] /\ e \in MonHosts \cup {NoMonHost}
      BY <1>1, <1>2 DEF Submissions, MonRecs
    <2> HIDE DEF data, typed, e, r
    <2>4. s \in MonRecs /\ s.addr = r.addr /\ s.active = r.active /\ s.data = data /\ ~s.dirty
      BY <1>2, <2>2, <2>3 DEF MonRecs
    <2> HIDE DEF s
    <2>5. s.active \in Configured(s)
      BY <1>2, <2>4, MonParts DEF Configured
    <2> QED BY <1>1, <2>1, <2>2, <2>4, <2>5, CommitKeeps
  <1> QED BY <1>3, <1>4

\* Hosts and panes change: the draft of another host is dropped, and so are
\* the requests for targets that are no longer those of the page.
LEMMA HostsKeep ==
    ASSUME MonInv, NEW s \in MonRecs, Commit(s, FALSE), daemonCfg' = daemonCfg,
           s.data = mon.data, s.sec = mon.sec, s.draft = mon.draft, s.dirty = mon.dirty, s.active \in Configured(s)
    PROVE  MonInv'
  <1>1. DataTrue(s.data)
    BY MonParts
  <1>2. SnapKey(s) = SnapKey(mon) => SecondaryTrue(s)
    <2>1. SnapKey(s)[1] = s.active /\ SnapKey(mon)[1] = mon.active
      BY MonParts, KeysTyped
    <2> QED BY <2>1, MonParts DEF SecondaryTrue
  <1>3. s.dirty /\ ActiveKey(s) = ActiveKey(mon) => s.draft.of = ActiveKey(s)
    BY MonParts DEF DraftTrue
  <1> QED BY <1>1, <1>2, <1>3, CommitKeeps

\* Switching, removing and editing hosts, and changing the panes, keep it.
LEMMA HostSteps ==
    ASSUME MonInv, \/ \E h \in MonHosts : SwitchHost(h) \/ MonHostRemoved(h) \/ RowsChange(h)
                   \/ \E h \in MonHosts, a \in MonAddrs : EditAddress(h, a)
    PROVE  MonInv'
  <1>1. ASSUME NEW h \in MonHosts, SwitchHost(h) PROVE MonInv'
    <2> DEFINE s == [mon EXCEPT !.active = h]
    <2>1. Commit(s, FALSE) /\ daemonCfg' = daemonCfg /\ h \in Configured(mon)
      BY <1>1 DEF SwitchHost
    <2>2. /\ s \in MonRecs /\ s.addr = mon.addr /\ s.active = h /\ s.data = mon.data /\ s.sec = mon.sec
          /\ s.draft = mon.draft /\ s.dirty = mon.dirty
      BY MonParts DEF MonRecs
    <2> HIDE DEF s
    <2>3. s.active \in Configured(s)
      BY <2>1, <2>2 DEF Configured
    <2> QED BY <2>1, <2>2, <2>3, HostsKeep
  <1>2. ASSUME NEW h \in MonHosts, NEW a \in MonAddrs, EditAddress(h, a) PROVE MonInv'
    <2> DEFINE addr == [mon.addr EXCEPT ![h] = a]
               s == [mon EXCEPT !.addr = addr]
    <2>1. Commit(s, FALSE) /\ daemonCfg' = daemonCfg
      BY <1>2 DEF EditAddress
    <2>2. addr \in [MonHosts -> MonAddrs \cup {NoAddr}] /\ addr[mon.active] # NoAddr
      BY MonParts, MonAssumption
    <2> HIDE DEF addr
    <2>3. /\ s \in MonRecs /\ s.addr = addr /\ s.active = mon.active /\ s.data = mon.data /\ s.sec = mon.sec
          /\ s.draft = mon.draft /\ s.dirty = mon.dirty
      BY <2>2, MonParts DEF MonRecs
    <2> HIDE DEF s
    <2>4. s.active \in Configured(s)
      BY <2>2, <2>3, MonParts DEF Configured
    <2> QED BY <2>1, <2>3, <2>4, HostsKeep
  <1>3. ASSUME NEW h \in MonHosts, MonHostRemoved(h) PROVE MonInv'
    <2> DEFINE addr == [mon.addr EXCEPT ![h] = NoAddr]
               s == [mon EXCEPT !.addr = addr]
    <2>1. addr \in [MonHosts -> MonAddrs \cup {NoAddr}] /\ \A g \in MonHosts \ {h} : addr[g] = mon.addr[g]
      BY MonParts
    <2>2. PICK next \in IF mon.active # h THEN {mon.active} ELSE Configured(s) : Commit([s EXCEPT !.active = next], FALSE)
      BY <1>3 DEF MonHostRemoved
    <2> HIDE DEF addr
    <2>3. /\ s \in MonRecs /\ s.addr = addr /\ s.active = mon.active /\ s.data = mon.data /\ s.sec = mon.sec
          /\ s.draft = mon.draft /\ s.dirty = mon.dirty
      BY <2>1, MonParts DEF MonRecs
    <2> HIDE DEF s
    <2>4. next \in MonHosts /\ addr[next] # NoAddr
      BY <2>1, <2>2, <2>3, MonParts DEF Configured
    <2> DEFINE t == [s EXCEPT !.active = next]
    <2>5. Commit(t, FALSE) /\ daemonCfg' = daemonCfg
      BY <1>3, <2>2 DEF MonHostRemoved
    <2>6. /\ t \in MonRecs /\ t.addr = addr /\ t.active = next /\ t.data = mon.data /\ t.sec = mon.sec
          /\ t.draft = mon.draft /\ t.dirty = mon.dirty
      BY <2>3, <2>4 DEF MonRecs
    <2> HIDE DEF t
    <2>7. t.active \in Configured(t)
      BY <2>4, <2>6 DEF Configured
    <2> QED BY <2>5, <2>6, <2>7, HostsKeep
  <1>4. ASSUME NEW h \in MonHosts, RowsChange(h) PROVE MonInv'
    <2> DEFINE rows == IF h \in mon.rows THEN mon.rows \ {h} ELSE mon.rows \cup {h}
               s == [mon EXCEPT !.rows = rows]
    <2>1. Commit(s, FALSE) /\ daemonCfg' = daemonCfg
      BY <1>4 DEF RowsChange
    <2>2. rows \subseteq MonHosts
      BY MonParts DEF MonRecs
    <2> HIDE DEF rows
    <2>3. /\ s \in MonRecs /\ s.addr = mon.addr /\ s.active = mon.active /\ s.data = mon.data /\ s.sec = mon.sec
          /\ s.draft = mon.draft /\ s.dirty = mon.dirty
      BY <2>2, MonParts DEF MonRecs
    <2> HIDE DEF s
    <2>4. s.active \in Configured(s)
      BY <2>3, MonParts DEF Configured
    <2> QED BY <2>1, <2>3, <2>4, HostsKeep
  <1> QED BY <1>1, <1>2, <1>3, <1>4

\* The monitor shows and edits the daemon at the address its host has now, for
\* any hosts, addresses and requests under way (MemoryMonitorPage).
THEOREM MonitorAlwaysTruthful == MonSpec => []MonitorTruthful
  <1>1. MonInit => MonInv
    <2>1. SUFFICES ASSUME MonInit PROVE MonInv
      OBVIOUS
    <2>2. PICK h \in MonHosts, a \in MonAddrs :
              mon = [addr |-> [x \in MonHosts |-> a], active |-> h, rows |-> MonHosts, data |-> NoData,
                     err |-> NoMonHost, draft |-> NoDraft, dirty |-> FALSE,
                     load |-> FreshLoad, sec |-> {}, subs |-> {}]
      BY <2>1 DEF MonInit
    <2>3. /\ FreshLoad \in [at : {"config", "snapshot", "timer"}, cfg : Int]
          /\ NoDraft \in [val : Int, of : Targets \cup {<<NoMonHost, NoAddr>>}]
      BY DEF FreshLoad, NoDraft, MinCfg
    <2>4. /\ mon \in MonRecs /\ mon.data = NoData /\ mon.sec = {} /\ ~mon.dirty
          /\ mon.active = h /\ mon.addr = [x \in MonHosts |-> a]
      BY <2>2, <2>3 DEF MonRecs
    <2>5. ~Ready(mon)
      BY <2>4, MonAssumption DEF Ready, NoData
    <2>6. mon.active \in Configured(mon)
      BY <2>4, MonAssumption DEF Configured
    <2>7. daemonCfg \in [MonAddrs -> Int]
      BY <2>1 DEF MonInit, MinCfg
    <2> QED BY <2>4, <2>5, <2>6, <2>7 DEF MonInv, MonSound, DataTrue, SecondaryTrue, DraftTrue
  <1>2. ASSUME MonInv, [MonInput \/ MonProgress]_monVars PROVE MonInv'
    <2>1. CASE MonInput
      BY <1>2, <2>1, SettingsKeep, HostSteps DEF MonInput
    <2>2. CASE MonProgress
      BY <1>2, <2>2, LoadSteps, SnapshotKeeps, SecondaryKeeps, SettingsKeep, ChangeAnswered DEF MonProgress
    <2>3. CASE UNCHANGED monVars
      <3>1. MonSound(mon')
        BY <1>2, <2>3 DEF monVars, MonInv
      <3>2. mon'.active \in Configured(mon') /\ daemonCfg' \in [MonAddrs -> Int]
        BY <1>2, <2>3 DEF monVars, MonInv
      <3> QED BY <3>1, <3>2 DEF MonInv
    <2> QED BY <1>2, <2>1, <2>2, <2>3
  <1>3. MonInv => MonitorTruthful
    BY ShownTrue DEF MonInv, MonitorTruthful
  <1> QED BY <1>1, <1>2, <1>3, PTL DEF MonSpec

\* The pages of a host, however the steps of the four components interleave.
THEOREM HostPagesAlwaysSound == TplSpec /\ TestSpec /\ AddSpec /\ MonSpec => []HostPagesSound
  <1>1. TestInv => SpinnerOfRun
    <2>1. SUFFICES ASSUME TestInv, mountedTest, outlived = {}, \E n \in 1..5 : stages[n] = "running"
                   PROVE  \E r \in Runs : waiting[r] \in {"race", "grace", "rejected"}
      BY DEF SpinnerOfRun
    <2>2. runningRef # 0 /\ runningRef \in Runs
      BY <2>1, TestAssumption DEF TestInv, TestTypeOK, Calm, Runs
    <2> QED BY <2>1, <2>2 DEF TestInv, Guarded
  <1>2. VerdictOfLastTest /\ SpinnerOfRun /\ HostsSound /\ MonitorTruthful => HostPagesSound
    BY DEF HostPagesSound
  <1> QED BY <1>1, <1>2, VerdictsAlwaysLast, TestKeepsInv, HostsAlwaysSound, MonitorAlwaysTruthful, PTL
=============================================================================
