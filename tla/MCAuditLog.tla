----------------------------- MODULE MCAuditLog -----------------------------
(***************************************************************************)
(* Model-checking instances of AuditLog.                                   *)
(***************************************************************************)
EXTENDS AuditLog
=============================================================================
