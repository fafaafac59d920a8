------------------------------ MODULE MCConsole -------------------------------
(* Two requests: two clicks, or a click and its repetition by another client. *)
EXTENDS Console

\* A way through every kind of status the page tells apart: under way, stopped
\* for an operator, and ended.
SomeStages == {"QUEUED", "SUBMITTING", "RECONCILIATION_REQUIRED", "FAILED"}
=============================================================================
