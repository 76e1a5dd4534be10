------------------------- MODULE MCAuditedRepository -------------------------
(***************************************************************************)
(* Instances of AuditedRepository for TLC: a call, a group, a registration *)
(* of the service's and a seeded one.                                      *)
(***************************************************************************)
EXTENDS AuditedRepository, TLC

CONSTANTS c1, g1, f1, s1

=============================================================================
