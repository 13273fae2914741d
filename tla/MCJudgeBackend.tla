--------------------------- MODULE MCJudgeBackend ---------------------------
(* Symmetry of JudgeBackend: the actors and identifiers differ only in name. *)
EXTENDS JudgeBackend, TLC

MCSymmetry == Permutations(Requests) \cup Permutations(EventIds)
                  \cup Permutations(Deliveries)
=============================================================================
