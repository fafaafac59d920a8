------------------------------ MODULE MCDownload ------------------------------
(* Instances of Download for TLC. *)
EXTENDS Download, TLC

CONSTANTS w1, w2, id1, v1, v2

SlotSymmetry == Permutations({w1, w2}) \cup Permutations({v1, v2})
=============================================================================
