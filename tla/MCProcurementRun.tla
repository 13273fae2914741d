-------------------------- MODULE MCProcurementRun --------------------------
(* Symmetry of ProcurementRun: calls differ only in their name. *)
EXTENDS ProcurementRun, TLC

MCSymmetry == Permutations(Calls)
=============================================================================
