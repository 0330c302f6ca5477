---------------------------- MODULE RepoAdmission ----------------------------
(***************************************************************************)
(* Admission of an execution under the per-repository lock: the keyed      *)
(* mutex and WithRepoLock (execution/admission.go) around the durable cut  *)
(* of Accept (execution/launch.go), called from any number of goroutines,  *)
(* for any dispatches, several of them for the same dispatch.  The rows    *)
(* are those of ExecutionStore; meanwhile the terminal handler and the     *)
(* reconciler may decide any row.                                          *)
(*                                                                         *)
(* The keyed mutex is two levels: a map from repository to mutex, read and *)
(* extended under k.mu, and the mutex found there.  Mutexes are named      *)
(* after the caller that created them.                                     *)
(***************************************************************************)
EXTENDS ExecutionStore

CONSTANTS
    Callers,        \* the calls of Accept
    DispatchOf,     \* the dispatch of each call
    RepoPath,       \* the canonical repository of each dispatch
    Nobody          \* no caller

ASSUME AdmissionAssumption ==
    /\ DispatchOf \in [Callers -> Dispatches]
    /\ RepoPath \in [Dispatches -> Repos]
    /\ Nobody \notin Callers

VARIABLES
    pc,             \* where each call is
    mutexOf,        \* keyedMutex.locks: the mutex of each repository
    handle,         \* the mutex a call has got from the map
    holder          \* the call that holds a mutex

callVars == <<pc, mutexOf, handle, holder>>
admissionVars == <<storeVars, callVars>>

Repo(c) == RepoPath[DispatchOf[c]]

\* The points of the call between m.Lock and the deferred unlock.
Holding == {"check", "snapshot", "insert", "launch", "unlock"}

-----------------------------------------------------------------------------
Goto(c, from, to) == pc[c] = from /\ pc' = [pc EXCEPT ![c] = to]

\* Seeded fault: a mutex is created on every call.
BugFreshMutex(c) ==
    /\ Goto(c, "lookup", "lock")
    /\ mutexOf' = [mutexOf EXCEPT ![Repo(c)] = c]
    /\ handle' = [handle EXCEPT ![c] = c]
    /\ UNCHANGED <<storeVars, holder>>

\* lock(key), under k.mu: the mutex of the repository, created when missing.
Lookup(c) ==
    /\ Goto(c, "lookup", "lock")
    /\ mutexOf' = [mutexOf EXCEPT ![Repo(c)] = IF @ = Nobody THEN c ELSE @]
    /\ handle' = [handle EXCEPT ![c] = mutexOf'[Repo(c)]]
    /\ UNCHANGED <<storeVars, holder>>

\* m.Lock().
Lock(c) ==
    /\ Goto(c, "lock", "check")
    /\ holder[handle[c]] = Nobody
    /\ holder' = [holder EXCEPT ![handle[c]] = c]
    /\ UNCHANGED <<storeVars, mutexOf, handle>>

\* HasLiveByRepo finds the repository free.
CheckFree(c) ==
    /\ Goto(c, "check", "snapshot")
    /\ ~HasLiveByRepo(Repo(c))
    /\ UNCHANGED <<storeVars, mutexOf, handle, holder>>

\* Seeded fault: the error path returns without unlocking.
BugBusyLeaksLock(c) ==
    /\ Goto(c, "check", "done")
    /\ UNCHANGED <<storeVars, mutexOf, handle, holder>>

\* The repository is busy, or the query fails.
CheckFails(c) ==
    /\ Goto(c, "check", "unlock")
    /\ UNCHANGED <<storeVars, mutexOf, handle, holder>>

\* The git snapshot of HEAD and of the dirty flag; it fails outside a work tree.
Snapshot(c) ==
    /\ pc[c] = "snapshot"
    /\ \E to \in {"insert", "unlock"} : pc' = [pc EXCEPT ![c] = to]
    /\ UNCHANGED <<storeVars, mutexOf, handle, holder>>

\* fn: the row and its accepted report.
Upsert(c) ==
    /\ Goto(c, "insert", IF Exists(DispatchOf[c]) THEN "unlock" ELSE "launch")
    /\ UpsertByDispatchWithReport(DispatchOf[c], Repo(c))
    /\ UNCHANGED <<mutexOf, handle, holder>>

UpsertFails(c) ==
    /\ Goto(c, "insert", "unlock")
    /\ UNCHANGED <<storeVars, mutexOf, handle, holder>>

\* fn: the launch is over, and the row running, failed, or as it was when
\* the transaction is refused or fails.
Launch(c) ==
    /\ Goto(c, "launch", "unlock")
    /\ \/ \E code \in Codes : MarkLaunchedWithReport(DispatchOf[c], code)
       \/ UpdateStatusWithReport(DispatchOf[c])
       \/ UNCHANGED storeVars
    /\ UNCHANGED <<mutexOf, handle, holder>>

\* The deferred unlock.
Unlock(c) ==
    /\ Goto(c, "unlock", "done")
    /\ holder' = [holder EXCEPT ![handle[c]] = Nobody]
    /\ UNCHANGED <<storeVars, mutexOf, handle>>

\* Reject, after the call and so without the lock.
RejectCall(c) ==
    /\ pc[c] = "done"
    /\ ~Exists(DispatchOf[c])
    /\ InsertRejectedWithReports(DispatchOf[c], Repo(c))
    /\ UNCHANGED callVars

\* The terminal handler or the reconciler decides a row, without the lock.
Decided(d) ==
    /\ \E to \in Terminal : MarkTerminalWithReport(d, to, "exit_only")
    /\ UNCHANGED callVars

-----------------------------------------------------------------------------
AdmissionInit ==
    /\ StoreInit
    /\ pc = [c \in Callers |-> "lookup"]
    /\ mutexOf = [r \in Repos |-> Nobody]
    /\ handle = [c \in Callers |-> Nobody]
    /\ holder = [c \in Callers |-> Nobody]

Call(c) ==
    \/ Lookup(c) \/ Lock(c) \/ CheckFree(c) \/ CheckFails(c) \/ Snapshot(c)
    \/ Upsert(c) \/ UpsertFails(c) \/ Launch(c) \/ Unlock(c)

AdmissionNext == (\E c \in Callers : Call(c) \/ RejectCall(c)) \/ (\E d \in Dispatches : Decided(d))

\* A goroutine is scheduled, and a Go mutex does not starve a waiter for
\* ever; with one call each, weak fairness is enough.
AdmissionSpec == AdmissionInit /\ [][AdmissionNext]_admissionVars /\ \A c \in Callers : WF_admissionVars(Call(c))

-----------------------------------------------------------------------------
AdmissionTypeOK ==
    /\ row \in [Dispatches -> Row]
    /\ pc \in [Callers -> Holding \cup {"lookup", "lock", "done"}]
    /\ mutexOf \in [Repos -> Callers \cup {Nobody}]
    /\ handle \in [Callers -> Callers \cup {Nobody}]
    /\ holder \in [Callers -> Callers \cup {Nobody}]

(* Every call returns: a rejected or failed admission never leaks the lock *)
(* and so never blocks a later one (admission.go:85).                      *)
Returns == \A c \in Callers : pc[c] = "lookup" ~> pc[c] = "done"

\* A call past the map has the repository's mutex, one that is inside holds
\* it, and one that is past the live check has the repository to itself.
MutexRight ==
    \A c \in Callers : pc[c] \notin {"lookup"} =>
        handle[c] = mutexOf[Repo(c)] /\ handle[c] \in Callers

Exclusive == \A c \in Callers : pc[c] \in Holding => holder[handle[c]] = c

StillFree == \A c \in Callers : pc[c] \in {"snapshot", "insert"} => ~HasLiveByRepo(Repo(c))

\* The inductive invariant of the proofs.
AdmissionInv == AdmissionTypeOK /\ MutexRight /\ Exclusive /\ StillFree /\ SingleLive
=============================================================================
