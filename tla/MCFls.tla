-------------------------------- MODULE MCFls --------------------------------
(* TLC instances of FlsScheduler: three RBs, a filter with two coefficients. *)
EXTENDS FlsScheduler, TLC

CONSTANTS rt1, rt2, be1, u1, u2

MCDestination == rt1 :> u1 @@ rt2 :> u2 @@ be1 :> u1

\* The last RB is bad for u2: with it a block carries less than without.
MCTBSize ==
    [b \in {rt1, rt2, be1} |->
        [rbs \in SUBSET (0..2) \ {{}} |->
            IF MCDestination[b] = u2 /\ 2 \in rbs THEN <<16, 16, 16>>[Cardinality(rbs)]
            ELSE <<16, 42, 90>>[Cardinality(rbs)]]]

Sends(sizes, max) == [sizes |-> sizes, max |-> max]

\* One bearer with small packets, which the filter may forget, and large ones;
\* and two that compete.
MCScenarios ==
    {[offered |-> rt1 :> Sends({1, 34}, 2) @@ rt2 :> Sends({}, 0), sleepers |-> {}],
     [offered |-> rt1 :> Sends({34}, 1) @@ rt2 :> Sends({20}, 1), sleepers |-> {u2}]}
=============================================================================
