------------------------------- MODULE MCSurveys -------------------------------
(* Small instances of Surveys for TLC. *)
EXTENDS Surveys, TLC

Symmetry == Permutations(Requests)
=============================================================================
