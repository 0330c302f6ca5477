----------------------------- MODULE MCAdmission -----------------------------
(***************************************************************************)
(* The execution store and the admission that guards it.  A behaviour is   *)
(* one of the store under its most general client, or one of the calls of  *)
(* Accept: three of them, two for one repository with a dispatch each, and *)
(* a third that delivers one of these again.  Dispatches share nothing in  *)
(* the store, so the client of the first kind works on one of them.        *)
(***************************************************************************)
EXTENDS RepoAdmission, TLC

CONSTANTS c1, c2, c3, d1, d2, r1

VARIABLE focus

mcVars == <<admissionVars, focus>>

MCDispatchOf == c1 :> d1 @@ c2 :> d2 @@ c3 :> d1
MCRepoOf == d1 :> r1 @@ d2 :> r1

MCInit ==
    \/ focus = "admission" /\ AdmissionInit
    \/ /\ focus = "store" /\ StoreInit
       /\ pc = [c \in Callers |-> "done"] /\ holder = [c \in Callers |-> Nobody]
       /\ mutexOf = [r \in Repos |-> Nobody] /\ handle = [c \in Callers |-> Nobody]

MCStore == focus = "store" /\ StoreNext /\ row'[d2] = row[d2] /\ UNCHANGED <<callVars, focus>>

MCCalls == focus = "admission" /\ AdmissionNext /\ UNCHANGED focus

MCCall(c) == focus = "admission" /\ Call(c) /\ UNCHANGED focus

MCSpec == MCInit /\ [][MCStore \/ MCCalls]_mcVars /\ \A c \in Callers : WF_mcVars(MCCall(c))
=============================================================================
