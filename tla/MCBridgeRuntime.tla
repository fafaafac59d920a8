--------------------------- MODULE MCBridgeRuntime ---------------------------
(* Instances of BridgeRuntime for TLC.  The requests of a kind differ in     *)
(* nothing but their name; the orders of their closures do not depend on it. *)
EXTENDS BridgeRuntime, TLC

CONSTANTS c1, c2, c3, d1, d2, d3

RequestSymmetry == Permutations({c1, c2, c3}) \cup Permutations({d1, d2, d3})
=============================================================================
