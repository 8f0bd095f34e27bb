----------------------------- MODULE MCConferences -----------------------------
(* A small instance of Conferences for TLC. *)
EXTENDS Conferences
=============================================================================
