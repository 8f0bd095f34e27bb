--------------------------- MODULE MCTldrawRooms ---------------------------
(* A small instance of TldrawRooms for TLC; liveness rules symmetry out. *)
EXTENDS TldrawRooms
=============================================================================
