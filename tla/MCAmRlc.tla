------------------------------- MODULE MCAmRlc -------------------------------
(* TLC instance of AmRlc. *)
EXTENDS AmRlc

\* A packet that the small grants cut into three.
MCSizes == {3}

\* Cut after one byte; a PDU of three bytes and the start of the next.
MCFewGrants == {9, 21}
=============================================================================
