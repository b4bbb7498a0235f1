-------------------------- MODULE MCObstacleDetector --------------------------
(***************************************************************************)
(* Instances of ObstacleDetector for TLC.                                  *)
(***************************************************************************)
EXTENDS ObstacleDetector, TLC

CONSTANTS person, cart, unknown

ThreeObjects == {person, cart, unknown}
WithoutId == {unknown}
ObjectSymmetry == Permutations(Objects \ Unidentified)
=============================================================================
