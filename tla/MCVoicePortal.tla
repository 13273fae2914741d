---------------------------- MODULE MCVoicePortal ----------------------------
(* Symmetry of VoicePortal: handlers and addresses differ only in name. *)
EXTENDS VoicePortal, TLC

MCSymmetry == Permutations(Logins) \cup Permutations(Starts) \cup Permutations(Sources)
=============================================================================
