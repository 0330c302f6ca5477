---------------------------- MODULE SessionNames ----------------------------
(***************************************************************************)
(* The names panes show for the sessions of one host.  The rename popover  *)
(* asks the daemon to rename the session of a pane; other clients rename   *)
(* sessions too, and the tmux server restarts, after which its session     *)
(* codes name other sessions.  Names reach the panes in sessions frames,   *)
(* in order, and in the answers of renames, at any time.                   *)
(***************************************************************************)
EXTENDS Integers, Sequences, FiniteSets

CONSTANTS NamePanes, NameCodes, SessNames, NoPane,
          MaxServers, MaxNameFrames      \* bounds: tmux servers, frames under way

NoGen == 0                    \* the empty tmux instance

VARIABLES server,   \* the tmux server: generation and name of each live session
          had,      \* names each session has had: <<generation, code, name>>
          known,    \* the session store: the last payload
          shown,    \* the panes
          target,   \* pane the rename popover is open for
          renames,  \* renames under way
          lists     \* sessions frames under way

nameVars == <<server, had, known, shown, target, renames, lists>>

Now(s) == {<<s.gen, c, s.name[c]>> : c \in DOMAIN s.name}

NamesInit ==
    /\ \E f \in [NameCodes -> SessNames] :
          /\ \A c, d \in NameCodes : c # d => f[c] # f[d]
          /\ server = [gen |-> 1, name |-> f] /\ known = server /\ had = Now(server)
          /\ \E c \in NameCodes, g \in {1, NoGen} :
                shown = [p \in NamePanes |-> [code |-> c, gen |-> g, name |-> f[c], dead |-> FALSE, record |-> f[c]]]
    /\ target = NoPane /\ renames = {} /\ lists = <<>>

-----------------------------------------------------------------------------
(* The daemon.                                                             *)

Becomes(s) == server' = s /\ had' = had \cup Now(s)

Restart(f) ==
    /\ server.gen < MaxServers /\ \A c, d \in NameCodes : c # d => f[c] # f[d]
    /\ Becomes([gen |-> server.gen + 1, name |-> f]) /\ UNCHANGED <<known, shown, target, renames, lists>>

\* Another client renames, or the host page, which waits for the next list.
RenamedElsewhere(c, n) ==
    /\ c \in DOMAIN server.name /\ \A d \in DOMAIN server.name : server.name[d] # n
    /\ Becomes([server EXCEPT !.name[c] = n]) /\ UNCHANGED <<known, shown, target, renames, lists>>

SessionEnds(c) ==
    /\ c \in DOMAIN server.name
    /\ Becomes([server EXCEPT !.name = [d \in DOMAIN @ \ {c} |-> @[d]]])
    /\ UNCHANGED <<known, shown, target, renames, lists>>

SendList ==
    /\ Len(lists) < MaxNameFrames /\ lists' = Append(lists, server)
    /\ UNCHANGED <<server, had, known, shown, target, renames>>

\* The request names a code: the session that has it now is renamed, and the
\* answer carries the generation of the server.
DaemonRenames(r) ==
    /\ r.at = "sent" /\ r.code \in DOMAIN server.name
    /\ \A d \in DOMAIN server.name \ {r.code} : server.name[d] # r.name
    /\ Becomes([server EXCEPT !.name[r.code] = r.name])
    /\ renames' = (renames \ {r}) \cup {[r EXCEPT !.at = "done", !.gen = server.gen]}
    /\ UNCHANGED <<known, shown, target, lists>>

-----------------------------------------------------------------------------
(* The panes.                                                              *)

\* Both the name shown and the name in the record follow the session.
applySessionName(c, n) == [c EXCEPT !.name = n, !.record = n]

sessionBindingMatches(c, code, gen) == c.code = code /\ c.gen \in {gen, NoGen}

\* Seeded fault: every pane of the code takes the name, of any server.
BugUpdateSessionCache(panes, code, n, gen) ==
    [p \in NamePanes |-> IF panes[p].code = code THEN applySessionName(panes[p], n) ELSE panes[p]]

updateSessionCache(panes, code, n, gen) ==
    [p \in NamePanes |-> IF sessionBindingMatches(panes[p], code, gen) THEN applySessionName(panes[p], n) ELSE panes[p]]

\* The panes without a generation adopt it, the names are updated, and the
\* panes whose session is not in the list, or of another server, are ended.
\* The decisions were made from the panes before these writes.
ListArrives ==
    /\ lists # <<>>
    /\ LET f == Head(lists)
           adopt(c) == IF c.gen = NoGen /\ ~c.dead /\ c.code \in DOMAIN f.name THEN [c EXCEPT !.gen = f.gen] ELSE c
           named(c) == IF c.code \in DOMAIN f.name /\ sessionBindingMatches(c, c.code, f.gen)
                       THEN applySessionName(c, f.name[c.code]) ELSE c
           ended(c) == c.code \notin DOMAIN f.name \/ c.gen \notin {f.gen, NoGen}
       IN /\ shown' = [p \in NamePanes |-> [named(adopt(shown[p])) EXCEPT !.dead = @ \/ ended(shown[p])]]
          /\ known' = f
    /\ lists' = Tail(lists) /\ UNCHANGED <<server, had, target, renames>>

\* A session of the host page opens in a pane, with the name in the store.
handleOpen(p, c) ==
    /\ c \in DOMAIN known.name
    /\ shown' = [shown EXCEPT ![p] = [code |-> c, gen |-> known.gen, name |-> known.name[c], dead |-> FALSE,
                                      record |-> known.name[c]]]
    /\ UNCHANGED <<server, had, known, target, renames, lists>>

-----------------------------------------------------------------------------
(* The popover.                                                            *)

openRenameForTab(p) == target # p /\ target' = p /\ UNCHANGED <<server, had, known, shown, renames, lists>>

handleRenameCancel == target # NoPane /\ target' = NoPane /\ UNCHANGED <<server, had, known, shown, renames, lists>>

\* The record of a pane that is dead gets the name its rebuild will use.
handleEditRebuildField(p, n) == n # shown[p].record /\ shown' = [shown EXCEPT ![p].record = n] /\ UNCHANGED renames

\* Of a pane that runs the session is renamed, of a dead one only the record.
commitName(p, n) ==
    /\ target = p
    /\ \/ shown[p].dead /\ handleEditRebuildField(p, n)
       \/ /\ ~shown[p].dead /\ n # shown[p].name /\ \A r \in renames : r.pane # p
          /\ renames' = renames \cup {[pane |-> p, code |-> shown[p].code, gen |-> shown[p].gen, name |-> n, at |-> "sent"]}
          /\ UNCHANGED shown
    /\ UNCHANGED <<server, had, known, target, lists>>

\* The panes of the server that answered take the name, and the popover closes.
renameBoundSession(r) ==
    /\ r.at = "done" /\ renames' = renames \ {r} /\ target' = NoPane
    /\ shown' = updateSessionCache(shown, r.code, r.name, r.gen)
    /\ UNCHANGED <<server, had, known, lists>>

\* No such session, the name is taken, or no answer: the popover shows it.
RenameFailed(r) == renames' = renames \ {r} /\ UNCHANGED <<server, had, known, shown, target, lists>>

NamesInput ==
    \/ \E f \in [NameCodes -> SessNames] : Restart(f)
    \/ \E c \in NameCodes, n \in SessNames : RenamedElsewhere(c, n)
    \/ \E c \in NameCodes : SessionEnds(c) \/ \E p \in NamePanes : handleOpen(p, c)
    \/ \E p \in NamePanes, n \in SessNames : commitName(p, n)
    \/ \E p \in NamePanes : openRenameForTab(p)
    \/ handleRenameCancel

NamesProgress ==
    \/ SendList \/ ListArrives
    \/ \E r \in renames : DaemonRenames(r) \/ renameBoundSession(r) \/ RenameFailed(r)

NamesSpec == NamesInit /\ [][NamesInput \/ NamesProgress]_nameVars

-----------------------------------------------------------------------------
(* Properties.                                                             *)

\* A pane that knows its tmux server never shows a name that its own session
\* has not had, whichever server a rename reached and however late its answer
\* or a list arrives.
NamesTrue == \A p \in NamePanes : shown[p].gen # NoGen => <<shown[p].gen, shown[p].code, shown[p].name>> \in had
=============================================================================
