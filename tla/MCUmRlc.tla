------------------------------- MODULE MCUmRlc -------------------------------
(* TLC instances of UmRlc. *)
EXTENDS UmRlc

\* A packet cut in two, and one larger than every grant.
MCSizes == {4, 11}

\* Too small for anything, three bytes, and a PDU and the start of the next.
MCGrants == {8, 11, 18}
=============================================================================
