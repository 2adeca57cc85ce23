---------------------------- MODULE MCWorkspace ----------------------------
(* Workspace for TLC; the constants are given in the configuration. *)
EXTENDS Workspace
=============================================================================
