------------------------------ MODULE FileOpen ------------------------------
(***************************************************************************)
(* Opening a file that is clicked in a terminal or in the file tree        *)
(* (lib/file-open, the file-path opener and the path cache).  A relative   *)
(* path is resolved by the daemon, the file is looked for at its path and  *)
(* then in the directories the agents reported, and if it is not found a   *)
(* popup offers two searches.  Several clicks are under way at a time and  *)
(* share one popup, one accumulator of hits and the cache.  A path is      *)
(* abstracted to the click whose file it names; the cache holds one        *)
(* working directory per host.                                             *)
(***************************************************************************)
EXTENDS Integers, Sequences, SequencesExt, FiniteSets, Lists

CONSTANTS OpenHosts, OpenWss, NoWs, Dirs, OpenSessions, NoSession,
          MAX_DIRS_PER_SCOPE,
          MaxOpens            \* bound on the clicks of a behaviour

ASSUME OpenAssumption == MAX_DIRS_PER_SCOPE \in Nat

VARIABLES opens,      \* the clicks, in order
          popup,      \* what the popup shows and its token, 0 if there is none
          mergedHits, \* click whose hits each layer holds, 0 for no hits
          searches,   \* searches under way
          entries,    \* path cache of each host
          opened,     \* tabs opened
          activeWs, ask, auto   \* active workspace; popupOnMissingFile and autoSearchLayer1

openVars == <<opens, popup, mergedHits, searches, entries, opened, activeWs, ask, auto>>

Layers == {"session", "workspace"}
NoHits == [l \in Layers |-> 0]

\* shows counts the missing files the popup reported, last is the token given
\* last; alone says that the popup has been about one click since it was
\* mounted, done which searches of it have answered and with which hits.
NoPopup == [of |-> 0, mode |-> "none", hits |-> NoHits, token |-> 0, last |-> 0, shows |-> 0,
            alone |-> TRUE, done |-> NoHits]

OpenInit ==
    /\ opens = <<>> /\ popup = NoPopup /\ mergedHits = NoHits /\ searches = {}
    /\ entries = [h \in OpenHosts |-> <<>>] /\ opened = {}
    /\ activeWs = NoWs /\ ask \in BOOLEAN /\ auto \in BOOLEAN /\ (auto => ask)

Ids == DOMAIN opens

-----------------------------------------------------------------------------
(* The path cache.                                                         *)

InDir(list, d) == {x \in ToSet(list) : x.dir = d}
OfSession(list, sess) == {x \in ToSet(list) : x.sess = sess}

upsertEntry(list, e) ==
    LET next == <<e>> \o Without(list, InDir(list, e.dir))
    IN SubSeq(next, 1, IF Len(next) > MAX_DIRS_PER_SCOPE THEN MAX_DIRS_PER_SCOPE ELSE Len(next))

rankCandidates(list, sess) ==
    IF sess = NoSession THEN list
    ELSE Within(list, OfSession(list, sess)) \o Without(list, OfSession(list, sess))

\* An agent reports a directory it works in.
handlePathHintEvent(h, sess, d) ==
    /\ entries' = [entries EXCEPT ![h] = upsertEntry(@, [dir |-> d, sess |-> sess])]
    /\ UNCHANGED <<opens, popup, mergedHits, searches, opened, activeWs, ask, auto>>

\* The session is gone from its host.
clearBySession(h, sess) ==
    /\ OfSession(entries[h], sess) # {}
    /\ entries' = [entries EXCEPT ![h] = Without(@, OfSession(@, sess))]
    /\ UNCHANGED <<opens, popup, mergedHits, searches, opened, activeWs, ask, auto>>

pruneStaleCandidate(h, d) == entries' = [entries EXCEPT ![h] = Without(@, InDir(@, d))]

-----------------------------------------------------------------------------
(* The popup.                                                              *)

\* A mounted popup is rendered again under its token.
showFileNotFoundPopup(o, mode, hits, done, missing) ==
    LET mounted == popup.token # 0
    IN popup' = [of |-> o, mode |-> mode, hits |-> hits, shows |-> popup.shows + missing,
                 token |-> IF mounted THEN popup.token ELSE popup.last + 1,
                 last |-> IF mounted THEN popup.last ELSE popup.last + 1,
                 alone |-> ~mounted \/ (popup.alone /\ popup.of = o), done |-> done]

\* tryOpenFile reports a missing file: the hits of earlier ones are dropped.
ShowMissing(o, mode) == showFileNotFoundPopup(o, mode, NoHits, NoHits, 1) /\ mergedHits' = NoHits

hideFileNotFoundPopup == popup' = [popup EXCEPT !.of = 0, !.mode = "none", !.hits = NoHits, !.token = 0]

Dismiss ==
    /\ popup.token # 0 /\ hideFileNotFoundPopup
    /\ UNCHANGED <<opens, mergedHits, searches, entries, opened, activeWs, ask, auto>>

OpenTab(o, path) == opened' = opened \cup {[of |-> o, ws |-> opens[o].target, path |-> path]}

\* A hit is opened with the host and the workspace of the click shown.
onOpenPath(path) ==
    /\ \/ popup.mode = "layer1-multi" /\ path = popup.of
       \/ \E l \in Layers : popup.hits[l] = path
    /\ hideFileNotFoundPopup /\ OpenTab(popup.of, path)
    /\ UNCHANGED <<opens, mergedHits, searches, entries, activeWs, ask, auto>>

CtaButton(layer) ==
    /\ popup.mode \in {"ask-expand", "layer1-multi"}
    /\ layer = "session" => opens[popup.of].sess # NoSession
    /\ searches' = searches \cup {[of |-> popup.of, layer |-> layer, token |-> popup.token]}
    /\ UNCHANGED <<opens, popup, mergedHits, entries, opened, activeWs, ask, auto>>

\* Seeded fault: an answer for a popup that was dismissed is shown.
BugAborted(s) == FALSE

\* The popup the search belongs to was dismissed.
Aborted(s) == s.token # popup.token

\* A search of the popup ends, with hits or with an error that counts as none.
\* The layers are merged, and the popup shows the click of the search.
runExpandedSearch(s, found) ==
    /\ searches' = searches \ {s}
    /\ IF Aborted(s) THEN UNCHANGED <<popup, mergedHits>>
       ELSE LET n == IF found THEN s.of ELSE 0
            IN /\ mergedHits' = [mergedHits EXCEPT ![s.layer] = n]
               /\ showFileNotFoundPopup(s.of, "expanded", mergedHits', [popup.done EXCEPT ![s.layer] = n], 0)
    /\ UNCHANGED <<opens, entries, opened, activeWs, ask, auto>>

-----------------------------------------------------------------------------
(* A click.                                                                *)

\* Seeded fault: the tab goes to the workspace that is active now.
BugTarget(ws) == activeWs

\* A click in a standalone tab uses the workspace that is active once its
\* path is resolved.
Target(ws) == IF ws # NoWs THEN ws ELSE activeWs

\* A path goes to the daemon, a relative or home path is resolved first.
openPath(h, ws, sess, path) ==
    /\ Len(opens) < MaxOpens /\ (path # "absolute" => sess # NoSession)
    /\ path = "absolute" => Target(ws) # NoWs
    /\ opens' = Append(opens, [host |-> h, ws |-> ws, sess |-> sess, path |-> path, cands |-> <<>>, verified |-> 0,
                               target |-> IF path = "absolute" THEN Target(ws) ELSE NoWs,
                               at |-> IF path = "absolute" THEN "stat" ELSE "resolve"])
    /\ UNCHANGED <<popup, mergedHits, searches, entries, opened, activeWs, ask, auto>>

Resolved(o) ==
    /\ opens[o].at = "resolve"
    /\ opens' = [opens EXCEPT ![o] = [@ EXCEPT !.target = Target(opens[o].ws),
                                               !.at = IF Target(opens[o].ws) = NoWs THEN "done" ELSE "stat"]]
    /\ UNCHANGED <<popup, mergedHits, searches, entries, opened, activeWs, ask, auto>>

\* No answer in time, or a bad one: a home path opens as a new buffer, a
\* relative one does not open.
ResolveFailed(o) ==
    /\ opens[o].at = "resolve" /\ opens' = [opens EXCEPT ![o] = [@ EXCEPT !.target = Target(opens[o].ws), !.at = "done"]]
    /\ IF opens[o].path = "home" /\ Target(opens[o].ws) # NoWs
       THEN opened' = opened \cup {[of |-> o, ws |-> Target(opens[o].ws), path |-> o]}
       ELSE UNCHANGED opened
    /\ UNCHANGED <<popup, mergedHits, searches, entries, activeWs, ask, auto>>

FileFound(o) ==
    /\ opens[o].at = "stat" /\ opens' = [opens EXCEPT ![o] = [@ EXCEPT !.at = "done"]] /\ OpenTab(o, o)
    /\ UNCHANGED <<popup, mergedHits, searches, entries, activeWs, ask, auto>>

FileMissing(o) ==
    LET cands == IF auto THEN rankCandidates(entries[opens[o].host], opens[o].sess) ELSE <<>>
    IN /\ opens[o].at = "stat"
       /\ opens' = [opens EXCEPT ![o] = [@ EXCEPT !.cands = cands, !.at = IF ask /\ cands # <<>> THEN "cand" ELSE "done"]]
       /\ IF ask /\ cands = <<>> THEN ShowMissing(o, "ask-expand") ELSE UNCHANGED <<popup, mergedHits>>
       /\ UNCHANGED <<searches, entries, opened, activeWs, ask, auto>>

\* A candidate is there or not; one that is not is forgotten.  After the last,
\* a single one opens and several are offered.
CandidateAnswered(o, found) ==
    /\ opens[o].at = "cand"
    /\ LET n == opens[o].verified + (IF found THEN 1 ELSE 0)
           last == Len(opens[o].cands) = 1
       IN /\ opens' = [opens EXCEPT ![o] = [@ EXCEPT !.cands = Tail(opens[o].cands), !.verified = n,
                                                     !.at = IF last THEN "done" ELSE "cand"]]
          /\ IF found THEN UNCHANGED entries ELSE pruneStaleCandidate(opens[o].host, Head(opens[o].cands).dir)
          /\ IF last /\ n = 1 THEN OpenTab(o, o) ELSE UNCHANGED opened
          /\ IF last /\ n # 1 THEN ShowMissing(o, IF n = 0 THEN "ask-expand" ELSE "layer1-multi")
             ELSE UNCHANGED <<popup, mergedHits>>
    /\ UNCHANGED <<searches, activeWs, ask, auto>>

\* Any other error ends the click.
StatFailed(o) ==
    /\ opens[o].at \in {"stat", "cand"} /\ opens' = [opens EXCEPT ![o] = [@ EXCEPT !.at = "done"]]
    /\ UNCHANGED <<popup, mergedHits, searches, entries, opened, activeWs, ask, auto>>

SwitchWorkspace(w) ==
    /\ w # activeWs /\ activeWs' = w
    /\ UNCHANGED <<opens, popup, mergedHits, searches, entries, opened, ask, auto>>

OpenInput ==
    \/ \E h \in OpenHosts, w \in OpenWss \cup {NoWs}, s \in OpenSessions \cup {NoSession},
          p \in {"absolute", "relative", "home"} : openPath(h, w, s, p)
    \/ \E h \in OpenHosts, s \in OpenSessions : clearBySession(h, s) \/ \E d \in Dirs : handlePathHintEvent(h, s, d)
    \/ \E w \in OpenWss \cup {NoWs} : SwitchWorkspace(w)
    \/ \E l \in Layers : CtaButton(l)
    \/ \E p \in Ids : onOpenPath(p)
    \/ Dismiss

OpenProgress ==
    \/ \E o \in Ids : \/ Resolved(o) \/ ResolveFailed(o) \/ FileFound(o) \/ FileMissing(o) \/ StatFailed(o)
                      \/ \E f \in BOOLEAN : CandidateAnswered(o, f)
    \/ \E s \in searches, f \in BOOLEAN : runExpandedSearch(s, f)

OpenSpec == OpenInit /\ [][OpenInput \/ OpenProgress]_openVars

-----------------------------------------------------------------------------
(* Properties.                                                             *)

\* A click that names a workspace opens its tab there, whatever becomes active
\* while the daemon is asked (createFilePathOpener).
OpensWhereClicked == \A t \in opened : opens[t.of].ws # NoWs => t.ws = opens[t.of].ws

\* Only a file that was found missing brings the popup up: the answer of a
\* search of a popup that was dismissed never does (runExpandedSearch).
StaysDismissed == popup.last <= popup.shows

\* While the popup is about one click, it shows what each of its searches
\* found, whichever ends last, and nothing found for another click.
SearchesMerge == popup.mode = "expanded" /\ popup.alone => popup.hits = popup.done /\ popup.hits \in [Layers -> {0, popup.of}]

\* The cache of a host never exceeds its limit nor offers a directory twice.
CacheSound ==
    \A h \in OpenHosts : /\ Len(entries[h]) <= MAX_DIRS_PER_SCOPE
                         /\ \A i, j \in DOMAIN entries[h] : i # j => entries[h][i].dir # entries[h][j].dir

FilesSound == OpensWhereClicked /\ StaysDismissed /\ SearchesMerge /\ CacheSound
=============================================================================
