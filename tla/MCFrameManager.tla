---------------------------- MODULE MCFrameManager ----------------------------
(* TLC instance of FrameManager. *)
EXTENDS FrameManager

CONSTANTS g1, g2

MCTwoCells == <<g1, g2>>
=============================================================================
