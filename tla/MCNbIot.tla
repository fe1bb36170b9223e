------------------------------- MODULE MCNbIot -------------------------------
(* TLC instances of NbIot: two CE classes whose opportunities alternate, apart *)
(* or one right after the other.                                               *)
EXTENDS NbIot

CONSTANTS u1, u2

MCUEs == <<u1, u2>>
PerClass(a, b) == [c \in 0..1 |-> IF c = 0 THEN a ELSE b]

MCSubcarriers == PerClass(2, 1)
MCPeriod == PerClass(6, 6)
MCScenarios == {
    [m_timeOffset |-> PerClass(2, 4), CEClassStatic |-> [u \in {u1, u2} |-> 0]],
    [m_timeOffset |-> PerClass(2, 3), CEClassStatic |-> [u \in {u1, u2} |-> IF u = u1 THEN 0 ELSE 1]]}
MCWindow == PerClass(1, 1)
MCDuration == PerClass(2, 3)
MCWaits == PerClass({3, 4}, {5})
MCMaxTx == PerClass(1, 1)
MCTBSize == [u \in {u1, u2} |-> <<2, 4>>]
=============================================================================
