----------------------------- MODULE MCService -----------------------------
(***************************************************************************)
(* Model-checking instance of Service: any three requests to a node of     *)
(* either role.                                                            *)
(***************************************************************************)
EXTENDS Service
=============================================================================
