---------------------------- MODULE MCNotifications ----------------------------
(* Small instances of Notifications for TLC. *)
EXTENDS Notifications, TLC

Symmetry == Permutations(Users) \cup Permutations(Ids) \cup Permutations(Calls)
=============================================================================
