------------------------------ MODULE MCBridge ------------------------------
(***************************************************************************)
(* Instances of Bridge for TLC: three interchangeable threads, two         *)
(* identifiers so that a second Provider task would show.                  *)
(***************************************************************************)
EXTENDS Bridge, TLC

CONSTANTS h1, h2, h3, id1, id2

ThreadSymmetry == Permutations({h1, h2, h3})
=============================================================================
