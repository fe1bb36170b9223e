-------------------------------- MODULE MCHarq --------------------------------
(* TLC instances of Harq. *)
EXTENDS Harq

\* One bearer for each of two UEs.
TwoUEs == <<1, 2>>
=============================================================================
