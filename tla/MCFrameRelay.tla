---------------------------- MODULE MCFrameRelay ----------------------------
(***************************************************************************)
(* Instances of FrameRelay for TLC.                                        *)
(***************************************************************************)
EXTENDS FrameRelay
=============================================================================
