--------------------------- MODULE ExecutionStream ---------------------------
(***************************************************************************)
(* What the execution store promises to the consumer of its reports        *)
(* (Ploom): per dispatch, an append-only sequence of lifecycle statuses    *)
(* that starts with accepted, never has a hole, follows the execution      *)
(* state machine of internal/module/execution/states.go and ends, once, in *)
(* completed or failed.  No rows, no sequence numbers, no outbox.          *)
(*                                                                         *)
(* A stream is a function on 1 .. 3 whose unused places hold NoReport, so  *)
(* that appending is filling the first free place.                         *)
(***************************************************************************)
EXTENDS Naturals

CONSTANT Dispatches

VARIABLE stream

None == "no report"
Empty == [i \in 1 .. 3 |-> None]

Init == stream = [d \in Dispatches |-> Empty]

\* A dispatch is admitted.
Accept(d) ==
    /\ stream[d] = Empty
    /\ stream' = [stream EXCEPT ![d][1] = "accepted"]

\* A dispatch is refused: accepted and failed appear together.
Reject(d) ==
    /\ stream[d] = Empty
    /\ stream' = [stream EXCEPT ![d][1] = "accepted", ![d][2] = "failed"]

\* The execution runs, or fails before it ever ran.
Start(d) ==
    /\ stream[d][1] = "accepted"
    /\ stream[d][2] = None
    /\ \E st \in {"running", "failed"} : stream' = [stream EXCEPT ![d][2] = st]

\* A running execution ends.
Finish(d) ==
    /\ stream[d][2] = "running"
    /\ stream[d][3] = None
    /\ \E st \in {"completed", "failed"} : stream' = [stream EXCEPT ![d][3] = st]

Next == \E d \in Dispatches : Accept(d) \/ Reject(d) \/ Start(d) \/ Finish(d)

Spec == Init /\ [][Next]_stream
=============================================================================
