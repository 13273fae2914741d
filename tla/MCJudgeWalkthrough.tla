------------------------- MODULE MCJudgeWalkthrough -------------------------
(* Symmetry of JudgeWalkthrough: phases in progress differ only in name. *)
EXTENDS JudgeWalkthrough, TLC

MCSymmetry == Permutations(Flights)
=============================================================================
