--------------------------- MODULE MCReportSender ---------------------------
(* Bounds for ReportSender: one or two dispatches, one repository and one  *)
(* session code (the sender looks at neither), and a few faults.  The      *)
(* dispatches are interchangeable, which only the safety run makes use of. *)
EXTENDS ReportSender, TLC

Symmetry == Permutations(Dispatches)
=============================================================================
