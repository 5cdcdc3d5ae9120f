---------------------------- MODULE MCWorkspace ----------------------------
(***************************************************************************)
(* Model-checking instances of Workspace.                                  *)
(***************************************************************************)
EXTENDS Workspace
=============================================================================
