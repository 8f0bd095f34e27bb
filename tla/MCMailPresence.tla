---------------------------- MODULE MCMailPresence ----------------------------
(* A small instance of MailPresence for TLC. *)
EXTENDS MailPresence, TLC

Symmetry == Permutations(Responses) \cup Permutations(Subjects) \cup Permutations(Imap)
=============================================================================
