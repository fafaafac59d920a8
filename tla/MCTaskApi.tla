------------------------------ MODULE MCTaskApi -------------------------------
(* Three requests for up to three tasks. *)
EXTENDS TaskApi
=============================================================================
