----------------------------- MODULE MCSimulator -----------------------------
(* TLC instance of Simulator. *)
EXTENDS Simulator

\* Half milliseconds: now (+0), a half that rounds both ways, and the delay
\* of a transmission (1 ms).
MCDelays == {0, 1, 2}
=============================================================================
