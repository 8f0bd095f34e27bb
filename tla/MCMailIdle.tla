------------------------------ MODULE MCMailIdle ------------------------------
(* A small instance of MailIdle for TLC; liveness rules symmetry out. *)
EXTENDS MailIdle
=============================================================================
