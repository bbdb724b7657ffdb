---------------------------- MODULE MCWorkspace ----------------------------
(* Model-checking instance of Workspace.                                   *)
EXTENDS Workspace
=============================================================================
