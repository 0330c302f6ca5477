------------------------------- MODULE AddHost -------------------------------
(***************************************************************************)
(* Adding a host: the dialog with its pairing and token routes, the calls  *)
(* it has under way, the daemons they go to, the hosts that are stored and *)
(* the edits of a stored host.  An endpoint stands for address and port.   *)
(* A dialog that is closed leaves its calls running; dialogs are numbered. *)
(***************************************************************************)
EXTENDS Integers, FiniteSets

CONSTANTS HostEndpoints, Tokens, NoToken, MaxDialogs, MaxHosts

ASSUME AddAssumption == NoToken \notin Tokens /\ MaxDialogs \in Nat

VARIABLES dlg,        \* the dialog
          flight,     \* calls under way
          daemonTok,  \* token of each daemon, NoToken while it is pairing
          everTok,    \* tokens each daemon has accepted so far
          savedHosts  \* stored hosts

addVars == <<dlg, flight, daemonTok, everTok, savedHosts>>

NoEndpoint == "nowhere"
Closed == [n |-> 0, stage |-> "closed", useToken |-> FALSE, at |-> NoEndpoint, token |-> NoToken, secret |-> NoEndpoint]

AddInit ==
    /\ dlg = Closed /\ flight = {} /\ savedHosts = {}
    /\ daemonTok \in [HostEndpoints -> Tokens \cup {NoToken}]
    /\ everTok = [e \in HostEndpoints |-> {daemonTok[e]} \ {NoToken}]

\* A call of the dialog under way: what it was started with.
Send(kind) ==
    flight' = flight \cup {[kind |-> kind, n |-> dlg.n, at |-> dlg.at, token |-> dlg.token,
                            useToken |-> dlg.useToken, secret |-> dlg.secret, ans |-> "none"]}

-----------------------------------------------------------------------------
(* The dialog.                                                             *)

OpenDialog(n) ==
    /\ dlg.stage = "closed" /\ n \in 1..MaxDialogs /\ n > dlg.n /\ \A k \in 1..MaxDialogs : k > dlg.n => n <= k
    /\ dlg' = [Closed EXCEPT !.n = n, !.stage = "idle"]
    /\ UNCHANGED <<flight, daemonTok, everTok, savedHosts>>

\* Escape, the backdrop or the cancel button, at any time.
CloseDialog ==
    /\ dlg.stage # "closed" /\ dlg' = [dlg EXCEPT !.stage = "closed"]
    /\ UNCHANGED <<flight, daemonTok, everTok, savedHosts>>

\* The address comes from the pairing code and is set with the answer.
handlePair(e) ==
    /\ dlg.stage \in {"idle", "error"} /\ ~dlg.useToken
    /\ dlg' = [dlg EXCEPT !.stage = "pairing"]
    /\ flight' = flight \cup {[kind |-> "verify", n |-> dlg.n, at |-> e, token |-> NoToken,
                               useToken |-> FALSE, secret |-> NoEndpoint, ans |-> "none"]}
    /\ UNCHANGED <<daemonTok, everTok, savedHosts>>

handleToggleToken(d, checked) ==
    [d EXCEPT !.useToken = checked, !.stage = IF checked THEN "manual" ELSE "idle",
              !.secret = IF checked THEN NoEndpoint ELSE @]

ToggleToken(checked) ==
    /\ dlg.stage \notin {"closed", "saving"} /\ dlg.useToken # checked
    /\ dlg' = handleToggleToken(dlg, checked)
    /\ UNCHANGED <<flight, daemonTok, everTok, savedHosts>>

\* Address and token fields, and the button that makes a token.
EditFields(e, k) ==
    /\ dlg.stage \in {"paired", "manual"} /\ dlg' = [dlg EXCEPT !.at = e, !.token = k]
    /\ UNCHANGED <<flight, daemonTok, everTok, savedHosts>>

\* After a pause in typing the daemon's mode is asked for; the callback
\* knows the token of the moment the pause began.
CheckHealth ==
    /\ dlg.stage = "manual" /\ dlg.useToken /\ dlg.at # NoEndpoint
    /\ Send("health") /\ UNCHANGED <<dlg, daemonTok, everTok, savedHosts>>

handleConfirm ==
    /\ dlg.stage \in {"paired", "manual"} /\ dlg.at # NoEndpoint /\ dlg.token # NoToken
    /\ dlg' = [dlg EXCEPT !.stage = "saving"] /\ Send("confirm")
    /\ UNCHANGED <<daemonTok, everTok, savedHosts>>

-----------------------------------------------------------------------------
(* The daemons.                                                            *)

\* A daemon in pairing mode takes the first token set up with a secret it
\* gave out; the token route needs the token it has.
Accepts(c) ==
    CASE c.kind = "verify" -> daemonTok[c.at] = NoToken
      [] c.kind = "health" -> TRUE
      [] c.kind = "confirm" -> IF c.useToken THEN daemonTok[c.at] = c.token
                               ELSE daemonTok[c.at] = NoToken /\ c.secret = c.at

DaemonAnswers(c) ==
    /\ c.ans = "none"
    /\ LET sets == c.kind = "confirm" /\ ~c.useToken /\ Accepts(c)
           ans == IF ~Accepts(c) THEN "no"
                  ELSE IF c.kind = "health" /\ daemonTok[c.at] = NoToken THEN "pairing" ELSE "ok"
       IN /\ flight' = (flight \ {c}) \cup {[c EXCEPT !.ans = ans]}
          /\ daemonTok' = IF sets THEN [daemonTok EXCEPT ![c.at] = c.token] ELSE daemonTok
          /\ everTok' = IF sets THEN [everTok EXCEPT ![c.at] = @ \cup {c.token}] ELSE everTok
    /\ UNCHANGED <<dlg, savedHosts>>

\* The operator of a daemon sets it to pairing mode again.
DaemonReset(e) ==
    /\ daemonTok[e] # NoToken /\ daemonTok' = [daemonTok EXCEPT ![e] = NoToken]
    /\ UNCHANGED <<dlg, flight, everTok, savedHosts>>

\* The call fails on the way, before or after the daemon has handled it.
CallLost(c) ==
    /\ c.ans # "lost" /\ flight' = (flight \ {c}) \cup {[c EXCEPT !.ans = "lost"]}
    /\ UNCHANGED <<dlg, daemonTok, everTok, savedHosts>>

-----------------------------------------------------------------------------
(* Answers.  State is only kept by the dialog that made the call.          *)

ForDialog(c, d) == dlg' = IF dlg.n = c.n /\ dlg.stage # "closed" THEN d ELSE dlg

VerifyAnswered(c, k) ==
    /\ c.kind = "verify" /\ c.ans # "none" /\ flight' = flight \ {c}
    /\ ForDialog(c, IF c.ans = "ok" THEN [dlg EXCEPT !.stage = "paired", !.at = c.at, !.token = k, !.secret = c.at]
                    ELSE [dlg EXCEPT !.stage = "idle"])
    /\ UNCHANGED <<daemonTok, everTok, savedHosts>>

\* A daemon in pairing mode switches an empty form back to pairing.
HealthAnswered(c) ==
    /\ c.kind = "health" /\ c.ans # "none" /\ flight' = flight \ {c}
    /\ ForDialog(c, IF c.ans = "pairing" /\ c.token = NoToken THEN handleToggleToken(dlg, FALSE) ELSE dlg)
    /\ UNCHANGED <<daemonTok, everTok, savedHosts>>

AtEndpoint(e) == {h \in savedHosts : h.at = e}

\* Seeded fault: a host is always added.
BugSave(c) == savedHosts' = savedHosts \cup {[id |-> Cardinality(savedHosts) + 1, at |-> c.at, token |-> c.token, edited |-> FALSE]}

\* The stored hosts are looked at after the call: one at this endpoint gets
\* the token, else a host is added.
Save(c) ==
    IF AtEndpoint(c.at) # {}
    THEN \E h \in AtEndpoint(c.at) : savedHosts' = (savedHosts \ {h}) \cup {[h EXCEPT !.token = c.token]}
    ELSE savedHosts' = savedHosts \cup {[id |-> Cardinality(savedHosts) + 1, at |-> c.at, token |-> c.token, edited |-> FALSE]}

ConfirmAnswered(c) ==
    /\ c.kind = "confirm" /\ c.ans # "none" /\ flight' = flight \ {c}
    /\ IF c.ans = "ok"
       THEN /\ Cardinality(savedHosts) < MaxHosts /\ Save(c)
            /\ ForDialog(c, [dlg EXCEPT !.stage = "closed"])
       ELSE /\ UNCHANGED savedHosts
            /\ ForDialog(c, IF c.useToken THEN [dlg EXCEPT !.stage = "manual"]
                            ELSE [dlg EXCEPT !.stage = "idle", !.secret = NoEndpoint])
    /\ UNCHANGED <<daemonTok, everTok>>

\* The address of a stored host edited on its page; the token stays.
EditHostAddress(h, e) ==
    /\ h \in savedHosts /\ e # h.at
    /\ savedHosts' = (savedHosts \ {h}) \cup {[h EXCEPT !.at = e, !.edited = TRUE]}
    /\ UNCHANGED <<dlg, flight, daemonTok, everTok>>

\* TokenField: an empty token is stored as it is, any other one after the
\* daemon at the address of that moment has accepted it; the daemon may be
\* reset and the address edited before the answer is there.
SaveToken(h, k) ==
    /\ h \in savedHosts /\ k # h.token
    /\ \/ k = NoToken
       \/ k \in everTok[h.at]
       \/ h.edited /\ \E e \in HostEndpoints : k \in everTok[e]
    /\ savedHosts' = (savedHosts \ {h}) \cup {[h EXCEPT !.token = k]}
    /\ UNCHANGED <<dlg, flight, daemonTok, everTok>>

AddInput ==
    \/ \E n \in 1..MaxDialogs : OpenDialog(n)
    \/ CloseDialog \/ handleConfirm \/ CheckHealth
    \/ \E e \in HostEndpoints : handlePair(e) \/ DaemonReset(e)
    \/ \E b \in BOOLEAN : ToggleToken(b)
    \/ \E e \in HostEndpoints, k \in Tokens : EditFields(e, k)
    \/ \E h \in savedHosts : \/ \E e \in HostEndpoints : EditHostAddress(h, e)
                             \/ \E k \in Tokens \cup {NoToken} : SaveToken(h, k)

AddProgress ==
    \E c \in flight :
        \/ DaemonAnswers(c) \/ CallLost(c) \/ HealthAnswered(c) \/ ConfirmAnswered(c)
        \/ \E k \in Tokens : VerifyAnswered(c, k)

AddSpec == AddInit /\ [][AddInput \/ AddProgress]_addVars

-----------------------------------------------------------------------------
(* Properties.                                                             *)

\* Whatever was clicked while calls were under way, and however many dialogs
\* were closed before their answer came: a stored host whose address was not
\* edited has a token that its daemon has accepted, or the empty one that the
\* user stored, and no two such hosts are at the same endpoint.
HostsSound ==
    \A h \in savedHosts : ~h.edited =>
        /\ h.token \in everTok[h.at] \cup {NoToken}
        /\ \A g \in savedHosts \ {h} : g.edited \/ g.at # h.at
=============================================================================
