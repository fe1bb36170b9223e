------------------------------- MODULE MCUplink -------------------------------
(* TLC instances of UplinkScheduler: a carrier of three RBs, round robin blocks *)
(* of one RB (the code's five, to scale).                                       *)
EXTENDS UplinkScheduler

\* Good on all RBs, best in the middle, with MCS 9; good on the left and useless
\* on the right, with MCS 1.
Good == [metric |-> [s \in RBs |-> IF s = 1 THEN 3 ELSE 2], mcs |-> 2]
Uneven == [metric |-> [s \in RBs |-> 1 - s], mcs |-> 1]

MCChannels == {Good, Uneven}

\* The bytes of these rows of TransportBlockSizeTable.
MCTBSize == <<<<3, 7, 11>>, <<17, 37, 57>>>>

MCReserved == {{}, {0}}

MCSizes == {13}

Scenario(sched, gnbs, channels, packets, lossy) ==
    [scheduler |-> sched, gnbs |-> gnbs, channels |-> channels,
     packets |-> packets, lossy |-> lossy]

\* Two UEs compete, they move to another gNB and back, one loses bursts.
MCScenarios ==
    {Scenario("MT", {1}, {Good, Uneven}, <<2, 1>>, {}),
     Scenario("FME", {1}, {Good, Uneven}, <<1, 1>>, {}),
     Scenario("RR", {1}, {Good, Uneven}, <<1, 1>>, {}),
     Scenario("MT", {1, 2}, {Uneven}, <<1, 1>>, {}),
     Scenario("MT", {1}, {Good}, <<0, 1>>, {2})}
===============================================================================
