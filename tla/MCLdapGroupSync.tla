---- MODULE MCLdapGroupSync ----
(* Instances of LdapGroupSync for TLC. *)
EXTENDS LdapGroupSync

====
