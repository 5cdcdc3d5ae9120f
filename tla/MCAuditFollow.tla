--------------------------- MODULE MCAuditFollow ---------------------------
(***************************************************************************)
(* Model-checking instances of AuditFollow.                                *)
(***************************************************************************)
EXTENDS AuditFollow
=============================================================================
