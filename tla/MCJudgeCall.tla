----------------------------- MODULE MCJudgeCall -----------------------------
(* Symmetry of JudgeCall: sessions, requests and keys differ only in name. *)
EXTENDS JudgeCall, TLC

MCSymmetry == Permutations(Sessions) \cup Permutations(Requests) \cup Permutations(Keys)
=============================================================================
