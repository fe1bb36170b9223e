------------------------------ MODULE MCHandover ------------------------------
(* TLC instance of Handover. *)
EXTENDS Handover

CONSTANTS u1, u2, g1, h1, h2, mc

\* Every UE may use every home base station.
MCAllPermitted == Nodes \X UEs
=============================================================================
