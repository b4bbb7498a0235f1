---------------------------- MODULE MCRecognizer ----------------------------
(***************************************************************************)
(* Instances of Recognizer for TLC.  A unit of time is half a second.      *)
(***************************************************************************)
EXTENDS Recognizer, TLC

CONSTANTS milk, tea

TwoProducts == {milk, tea}
ProductSymmetry == Permutations(Products)
=============================================================================
