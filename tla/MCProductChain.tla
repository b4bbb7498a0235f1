--------------------------- MODULE MCProductChain ---------------------------
(***************************************************************************)
(* Instances of ProductChain for TLC.  The durations are on a scale of     *)
(* their own that keeps their order, and by how much the debounce and the  *)
(* time to decide fall short of a cooldown and a tracking period: nothing  *)
(* else about them matters to the comparisons.                             *)
(***************************************************************************)
EXTENDS ProductChain, TLC

CONSTANTS milk, tea

TwoProducts == {milk, tea}
OneProduct == {milk}
=============================================================================
