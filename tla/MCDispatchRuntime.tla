-------------------------- MODULE MCDispatchRuntime --------------------------
(* Bounds for DispatchRuntime: one dispatch for what concerns one row, two *)
(* dispatches of one repository for what concerns the repository.  An      *)
(* agent ends well, with an error result, or with an exit code only.       *)
EXTENDS DispatchRuntime

CONSTANT r1

MCRepoOf == [d \in Dispatches |-> r1]

MCExits == {[code |-> "zero", result |-> "ok"], [code |-> "zero", result |-> "error"],
            [code |-> "nonzero", result |-> "none"]}
=============================================================================
