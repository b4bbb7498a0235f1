---------------------------- MODULE MCAlarmChain ----------------------------
(***************************************************************************)
(* Instances of AlarmChain for TLC.                                        *)
(***************************************************************************)
EXTENDS AlarmChain, TLC

CONSTANTS t1, t2, milk

TwoThreads == {t1, t2}

OneProduct == {milk}
WithObstacles == {"START_SESSION", "CHECKOUT", "OBSTACLE_DANGER"}
=============================================================================
