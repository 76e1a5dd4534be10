-------------------------- MODULE MCSaveRegistration --------------------------
(***************************************************************************)
(* Instances of SaveRegistration for TLC: two submissions that draw from   *)
(* two references, and a case officer's call in between.                   *)
(***************************************************************************)
EXTENDS SaveRegistration, TLC

CONSTANTS c1, c2, c3, f1, f2

=============================================================================
