--------------------------- MODULE MCThreadGroups ---------------------------
(* Model-checking instance of ThreadGroups.                                *)
EXTENDS ThreadGroups
=============================================================================
