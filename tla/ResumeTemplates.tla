-------------------------- MODULE ResumeTemplates --------------------------
(***************************************************************************)
(* The settings of resume commands: one template per row, edited as a      *)
(* draft, kept in the store, and tested against a host.  A template is     *)
(* represented by its command word, the only part a test is about.         *)
(***************************************************************************)
EXTENDS Integers, FiniteSets

CONSTANTS TplHosts, Rows, Words, NoWord, MaxTests

ASSUME TplAssumption == NoWord \notin Words /\ Words # {} /\ TplHosts # {}

VARIABLES tplHosts,   \* configured hosts
          picked,     \* host chosen to test against
          stored,     \* template of each row in the store
          draft,      \* uncommitted edit of each row, NoWord for none
          results,    \* result of each row
          liveRequest, requestSeq,   \* live request of each row, 0 for none
          testsAsked, \* requests under way
          wrote       \* request each result was written by

tplVars == <<tplHosts, picked, stored, draft, results, liveRequest, requestSeq, testsAsked, wrote>>

NoResult == [host |-> NoWord, word |-> NoWord, verdict |-> "none"]
Default == CHOOSE w \in Words : TRUE

TplInit ==
    /\ tplHosts = TplHosts /\ picked \in TplHosts
    /\ stored = [r \in Rows |-> Default] /\ draft = [r \in Rows |-> NoWord]
    /\ results = [r \in Rows |-> NoResult] /\ liveRequest = [r \in Rows |-> 0]
    /\ requestSeq = 0 /\ testsAsked = {} /\ wrote = [r \in Rows |-> 0]

\* The picked host, or the first one when that is gone.
hostId == IF picked \in tplHosts THEN picked ELSE CHOOSE h \in tplHosts : TRUE

liveValue(r) == IF draft[r] # NoWord THEN draft[r] ELSE stored[r]

shownResult(r) ==
    IF results[r].host = hostId /\ results[r].word = liveValue(r) THEN results[r] ELSE NoResult

Clear(f, r, none) == [f EXCEPT ![r] = none]

-----------------------------------------------------------------------------
(* The user.                                                               *)

handleChange(r, w) ==
    /\ draft' = [draft EXCEPT ![r] = w] /\ results' = Clear(results, r, NoResult)
    /\ liveRequest' = Clear(liveRequest, r, 0)
    /\ UNCHANGED <<tplHosts, picked, stored, requestSeq, testsAsked, wrote>>

\* Enter, or leaving the field after an edit.
handleCommit(r) ==
    /\ draft[r] # NoWord
    /\ stored' = [stored EXCEPT ![r] = draft[r]] /\ draft' = Clear(draft, r, NoWord)
    /\ UNCHANGED <<tplHosts, picked, results, liveRequest, requestSeq, testsAsked, wrote>>

handleRevert(r) ==
    /\ draft' = Clear(draft, r, NoWord) /\ results' = Clear(results, r, NoResult)
    /\ liveRequest' = Clear(liveRequest, r, 0)
    /\ UNCHANGED <<tplHosts, picked, stored, requestSeq, testsAsked, wrote>>

handleHostChange(h) ==
    /\ h \in tplHosts /\ picked' = h
    /\ results' = [r \in Rows |-> NoResult] /\ liveRequest' = [r \in Rows |-> 0]
    /\ UNCHANGED <<tplHosts, stored, draft, requestSeq, testsAsked, wrote>>

handleResetAll ==
    /\ stored' = [r \in Rows |-> Default] /\ draft' = [r \in Rows |-> NoWord]
    /\ results' = [r \in Rows |-> NoResult] /\ liveRequest' = [r \in Rows |-> 0]
    /\ UNCHANGED <<tplHosts, picked, requestSeq, testsAsked, wrote>>

\* The button is off while the row's shown result is pending.
runTest(r) ==
    /\ requestSeq < MaxTests /\ shownResult(r).verdict # "pending"
    /\ requestSeq' = requestSeq + 1 /\ liveRequest' = [liveRequest EXCEPT ![r] = requestSeq + 1]
    /\ testsAsked' = testsAsked \cup {[rev |-> requestSeq + 1, row |-> r, host |-> hostId, word |-> liveValue(r)]}
    /\ results' = [results EXCEPT ![r] = [host |-> hostId, word |-> liveValue(r), verdict |-> "pending"]]
    /\ wrote' = [wrote EXCEPT ![r] = requestSeq + 1]
    /\ UNCHANGED <<tplHosts, picked, stored, draft>>

-----------------------------------------------------------------------------
(* Other windows and the host store.                                       *)

setTemplate(r, w) ==
    /\ stored' = [stored EXCEPT ![r] = w]
    /\ UNCHANGED <<tplHosts, picked, draft, results, liveRequest, requestSeq, testsAsked, wrote>>

TplHostRemoved(h) ==
    /\ h \in tplHosts /\ tplHosts # {h} /\ tplHosts' = tplHosts \ {h}
    /\ UNCHANGED <<picked, stored, draft, results, liveRequest, requestSeq, testsAsked, wrote>>

-----------------------------------------------------------------------------
(* Answers.  A failed request gives the verdict unverifiable.              *)

\* Seeded fault: only the host and the word are compared.
BugSettle(q, verdict) ==
    IF hostId # q.host \/ liveValue(q.row) # q.word
    THEN IF results[q.row].host = q.host /\ results[q.row].word = q.word
         THEN results' = Clear(results, q.row, NoResult) /\ UNCHANGED wrote
         ELSE UNCHANGED <<results, wrote>>
    ELSE results' = [results EXCEPT ![q.row] = [host |-> q.host, word |-> q.word, verdict |-> verdict]]
         /\ wrote' = [wrote EXCEPT ![q.row] = q.rev]

settle(q, verdict) ==
    IF liveRequest[q.row] # q.rev THEN UNCHANGED <<results, wrote>>
    ELSE IF hostId # q.host \/ liveValue(q.row) # q.word
    THEN IF results[q.row].host = q.host /\ results[q.row].word = q.word
         THEN results' = Clear(results, q.row, NoResult) /\ UNCHANGED wrote
         ELSE UNCHANGED <<results, wrote>>
    ELSE results' = [results EXCEPT ![q.row] = [host |-> q.host, word |-> q.word, verdict |-> verdict]]
         /\ wrote' = [wrote EXCEPT ![q.row] = q.rev]

TestAnswers(q, verdict) ==
    /\ settle(q, verdict) /\ testsAsked' = testsAsked \ {q}
    /\ UNCHANGED <<tplHosts, picked, stored, draft, liveRequest, requestSeq>>

TplInput ==
    \/ \E r \in Rows : handleCommit(r) \/ handleRevert(r) \/ runTest(r)
    \/ \E r \in Rows, w \in Words : handleChange(r, w) \/ setTemplate(r, w)
    \/ \E h \in TplHosts : handleHostChange(h) \/ TplHostRemoved(h)
    \/ handleResetAll

TplProgress == \E q \in testsAsked, v \in {"resolved", "unresolved", "unverifiable"} : TestAnswers(q, v)

TplSpec == TplInit /\ [][TplInput \/ TplProgress]_tplVars

-----------------------------------------------------------------------------
(* Properties.                                                             *)

\* What a row shows is the state of its last test: an answer that arrives
\* after the row was edited, the host switched or the templates reset never
\* replaces the result of a later test, and never leaves the row without an
\* end: a row shown as pending has its request under way.
VerdictOfLastTest ==
    \A r \in Rows : LET shown == shownResult(r) IN
        shown # NoResult =>
            /\ \A q \in testsAsked : q.row = r => q.rev <= wrote[r]
            /\ shown.verdict = "pending" => \E q \in testsAsked : q.rev = wrote[r]
=============================================================================
