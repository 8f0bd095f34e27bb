------------------------------- MODULE MCSseHub -------------------------------
(* Small instances of SseHub for TLC. *)
EXTENDS SseHub, TLC

Symmetry == Permutations(Users) \cup Permutations(Responses) \cup Permutations(Subjects)
=============================================================================
