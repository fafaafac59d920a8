---------------------------- MODULE MCSubmission ----------------------------
(***************************************************************************)
(* Instances of Submission for TLC: two interchangeable slots; two         *)
(* identifiers, so that a second Provider task would show.                 *)
(***************************************************************************)
EXTENDS Submission, TLC

CONSTANTS w1, w2, id1, id2

SlotSymmetry == Permutations({w1, w2})
=============================================================================
