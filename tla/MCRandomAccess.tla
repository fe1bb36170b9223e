--------------------------- MODULE MCRandomAccess ---------------------------
(* TLC instance of RandomAccess. *)
EXTENDS RandomAccess

CONSTANTS u1, u2, p1, p2, r1, r2

MCNbCcchRBs == [t \in {"BASELINE", "ENHANCED"} |-> IF t = "BASELINE" THEN 1 ELSE 2]

Symmetry == Permutations(UEs) \cup Permutations(Preambles)
            \cup Permutations(RARs)
=============================================================================
