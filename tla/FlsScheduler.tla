----------------------------- MODULE FlsScheduler -----------------------------
(***************************************************************************)
(* The two-level downlink scheduler (dl-fls-packet-scheduler.cpp).  Every  *)
(* ten calls its control law gives each real-time bearer a quota of bytes; *)
(* in every call real-time bearers with a quota left are served first, and *)
(* the RBs they leave go to best-effort bearers in a second pass, with an  *)
(* allocation map and a burst of its own.  One millisecond later the UEs   *)
(* receive the bursts.                                                     *)
(*                                                                         *)
(* Without MBSFN and HARQ.  Metrics are numbers greater than 0 of which    *)
(* only the order on an RB matters: it is a free choice.  Best-effort      *)
(* bearers have no state here but what waits in a TTI; what the receivers  *)
(* make of a burst is in UmRlc.                                            *)
(***************************************************************************)
EXTENDS MacQueue, FiniteSets

CONSTANTS
    RealTime,       \* bearers of applications TRACE_BASED and VOIP
    BestEffort,     \* bearers of applications CBR and INFINITE_BUFFER
    UEs,
    GetDestination, \* the UE of each bearer
    NbOfRBs,
    TBSize,         \* bytes of a block by bearer and RBs: the MCS follows from their CQI
    M,              \* m_nbOfCoefficients of QoSForFLS
    Waiting,        \* bytes best-effort bearers have to send in a TTI, 0 for none
    MaxWaiting,     \* bound of the model: packets that wait for a bearer
    Scenarios       \* for each real-time bearer the sizes of its packets and how
                    \* many may wait, and the UEs that are not always active

Bearers == RealTime \cup BestEffort
RBs == 0..(NbOfRBs - 1)

ASSUME FlsAssumption ==
    /\ RealTime \cap BestEffort = {} /\ IsFiniteSet(Bearers)
    /\ GetDestination \in [Bearers -> UEs]
    /\ NbOfRBs \in Nat \ {0} /\ TBSize \in [Bearers -> [(SUBSET RBs) \ {{}} -> Nat]]
    /\ M \in Nat /\ M >= 3
    /\ Waiting \subseteq Nat /\ MaxWaiting \in Nat
    /\ \A s \in Scenarios :
        /\ s.offered \in [RealTime -> [sizes : SUBSET (Nat \ {0}), max : 0..MaxWaiting]]
        /\ s.sleepers \subseteq UEs

VARIABLES
    scenario,           \* fixed
    m_runControlLaw, m_subFrameCounter,
    m_queue,            \* of each real-time bearer
    m_dataToTransmit,   \* the quota of each real-time bearer, or what is left of it
    m_q, m_u,           \* queue sizes and quotas of the last M - 1 frames, latest first
    m_transmittedBytes, \* of each real-time bearer since the last call
    m_nodeState,        \* of each UE
    air,                \* bursts sent and not received, in their order
    m_channelsForRx,    \* the RBs each UE will look at
    quota, granted,     \* history: quota of the frame, bytes granted since
    waited              \* history: calls in a row with packets and without a quota

scheduler == <<m_runControlLaw, m_subFrameCounter, m_dataToTransmit, m_q, m_u,
               m_transmittedBytes, quota, granted, waited>>
vars == <<scenario, scheduler, m_queue, m_nodeState, air, m_channelsForRx>>

Zeros == [i \in 1..(M - 1) |-> 0]

Init ==
    /\ scenario \in Scenarios
    /\ m_runControlLaw = TRUE
    /\ m_subFrameCounter = 0
    /\ m_queue = [b \in RealTime |-> EmptyQueue]
    /\ m_dataToTransmit = [b \in RealTime |-> 0]
    /\ m_q = [b \in RealTime |-> Zeros]
    /\ m_u = [b \in RealTime |-> Zeros]
    /\ m_transmittedBytes = [b \in RealTime |-> 0]
    /\ m_nodeState = [u \in UEs |-> "ACTIVE"]
    /\ air = <<>>
    /\ m_channelsForRx = [u \in UEs |-> {}]
    /\ quota = [b \in RealTime |-> 0]
    /\ granted = [b \in RealTime |-> 0]
    /\ waited = [b \in RealTime |-> 0]

\* An application sends a packet.  Here and below: what happens between a call
\* of the scheduler and the reception of its bursts could as well happen after.
ApplicationSends(b, size) ==
    /\ air = <<>>
    /\ Len(m_queue[b].elements) < scenario.offered[b].max
    /\ m_queue' = [m_queue EXCEPT ![b] = Enqueue(@, Packet(0, size))]
    /\ UNCHANGED <<scenario, scheduler, m_nodeState, air, m_channelsForRx>>

\* A UE falls asleep or is between two cells, or wakes up.
SetNodeState(u) ==
    /\ air = <<>>
    /\ m_nodeState' = [m_nodeState EXCEPT
                        ![u] = IF @ = "ACTIVE" THEN "INACTIVE" ELSE "ACTIVE"]
    /\ UNCHANGED <<scenario, scheduler, m_queue, air, m_channelsForRx>>

-----------------------------------------------------------------------------
(***************************************************************************)
(* The quota                                                               *)
(***************************************************************************)

\* Mutant of Debited: what was sent is not taken off.
Debited_Never(b) == m_dataToTransmit[b]

\* What is left of a quota after the last call.
Debited(b) ==
    IF m_transmittedBytes[b] >= m_dataToTransmit[b] THEN 0
    ELSE m_dataToTransmit[b] - m_transmittedBytes[b]

Powers[n \in 0..M] == IF n = 0 THEN 1 ELSE 2 * Powers[n - 1]

\* The filter coefficients 1, 1/2, 1/4, ... in units of 1/Unit.
Unit == Powers[M - 1]
Coefficient(i) == Powers[M - i]

Sum(f, n) ==
    LET sum[i \in 0..n] == IF i = 0 THEN 0 ELSE sum[i - 1] + f[i]
    IN  sum[n]

\* The filter: what this frame should send, in units of 1/Unit bytes, from the
\* queue now, the queues q and the quotas u of earlier frames.
Filter(size, q, u) ==
    LET data == (Unit - Coefficient(2)) * size
                + Sum([i \in 1..(M - 1) |-> q[i] * Coefficient(i + 1)], M - 1)
                - Sum([i \in 1..(M - 2) |-> q[i] * Coefficient(i + 2)], M - 2)
                - Sum([i \in 1..(M - 1) |-> u[i] * Coefficient(i + 1)], M - 1)
    IN  IF data < 0 THEN 0 ELSE data

\* Mutant of RunControlLaw: nothing is added to what the filter says.
RunControlLaw_NoFloor(queue, q, u) ==
    (Filter(QueueSizeWithOverhead(queue), q, u) + Unit - 1) \div Unit

\* A bearer with packets gets the bytes to send the first of them at least, and
\* whole packets of what the filter says.
RunControlLaw(queue, q, u) ==
    LET data == Filter(QueueSizeWithOverhead(queue), q, u)
        minData == Remaining(Head(queue.elements)) + Overhead
        maxData == GetByte(queue, data \div Unit)
        bytes == (data + Unit - 1) \div Unit
    IN  IF queue.elements = <<>> THEN bytes
        ELSE IF data < minData * Unit THEN minData
        ELSE IF data < maxData * Unit THEN maxData
        ELSE bytes

\* Mutant of Shift: nothing is forgotten.
Shift_Grows(history, x) == <<x>> \o history

\* UpdateQ, UpdateU
Shift(history, x) == <<x>> \o SubSeq(history, 1, M - 2)

-----------------------------------------------------------------------------
(***************************************************************************)
(* The allocation                                                          *)
(***************************************************************************)

\* A flow gets no more RBs when its block holds its data.
Served(b, rbs, data) == rbs # {} /\ TBSize[b][rbs] >= data

\* Mutant of Leftover: the second pass begins at the first RB again.
Leftover_FromStart(a, s) == [a EXCEPT !.free = 0]

\* At RB s all flows are served: the second pass may begin there.
Leftover(a, s) == [a EXCEPT !.free = s]

\* The flow that comes first in an order.
First(order, flows) == CHOOSE b \in flows : \A c \in flows : order[b] <= order[c]

\* RB s goes to the flow not yet served whose metric is best.
GiveRB(a, s, data, order) ==
    LET open == {b \in DOMAIN a.rbs : ~Served(b, a.rbs[b], data[b])}
    IN  IF open = {} THEN Leftover(a, s)
        ELSE [a EXCEPT !.rbs[First(order, open)] = @ \cup {s}]

\* RBsAllocation, from RB first on; rank[s] orders the flows by their metrics on
\* RB s.  free is NbOfRBs if no RB is left.
RBsAllocation(flows, data, rank, first) ==
    LET given[s \in 0..NbOfRBs] == \* after the RBs below s
            IF s = 0 THEN [rbs |-> [b \in flows |-> {}], free |-> NbOfRBs]
            ELSE IF s - 1 < first \/ given[s - 1].free < NbOfRBs THEN given[s - 1]
            ELSE GiveRB(given[s - 1], s - 1, data, rank[s - 1])
    IN  given[NbOfRBs]

Orders(flows) ==
    {order \in [flows -> 1..Cardinality(flows)] :
        \A b, c \in flows : order[b] = order[c] => b = c}

\* What a pass may give the flows it selected, whatever their metrics are.
Pass(flows, data, first) ==
    IF flows = {} THEN {[rbs |-> <<>>, free |-> first]}
    ELSE {RBsAllocation(flows, data, rank, first) : rank \in [RBs -> Orders(flows)]}

\* The bytes a real-time bearer gets.
Block(b, rbs) ==
    IF b \in DOMAIN rbs /\ rbs[b] # {} THEN TBSize[b][rbs[b]] ELSE 0

\* The RBs of a pass by UE: the allocation map.
MapOf(rbs) ==
    [u \in UEs |-> UNION {rbs[b] : b \in {x \in DOMAIN rbs : GetDestination[x] = u}}]

\* Mutant of Looks: every UE takes the map, also one it says nothing about.
Looks_All(channels, map) == map

\* SendIdealControlMessage: the map goes to the UEs it names, and takes the
\* place of what they knew.
Looks(channels, map) == [u \in UEs |-> IF map[u] = {} THEN channels[u] ELSE map[u]]

\* DoStopSchedule sends a burst if a pass has flows; second tells the burst of a
\* second pass, data is history.
Burst(rbs, data, second) ==
    IF DOMAIN rbs = {} THEN <<>>
    ELSE <<[rbs |-> rbs, data |-> [b \in DOMAIN rbs |-> data[b]], second |-> second]>>

Active(b) == m_nodeState[GetDestination[b]] = "ACTIVE"

\* The flows of the two passes.
Select_RT_FlowsToSchedule(queue, data) ==
    {b \in RealTime : queue[b].elements # <<>> /\ Active(b) /\ data[b] > 0}

Select_NRT_FlowsToSchedule(waiting) == {b \in BestEffort : waiting[b] > 0 /\ Active(b)}

\* DoSchedule; drops are the packets of each queue that have expired, waiting
\* what best-effort bearers have to send.
DoSchedule(drops, waiting) ==
    LET law == m_runControlLaw
        queue == [b \in RealTime |-> CheckForDropPackets(m_queue[b], drops[b])]
        data == [b \in RealTime |->
                    IF law THEN RunControlLaw(queue[b], m_q[b], m_u[b]) ELSE Debited(b)]
        rt == Select_RT_FlowsToSchedule(queue, data)
        be == Select_NRT_FlowsToSchedule(waiting)
    IN  /\ air = <<>>
        /\ \A b \in RealTime : drops[b] <= Len(m_queue[b].elements)
        /\ m_subFrameCounter' = (m_subFrameCounter + 1) % 10
        /\ m_runControlLaw' = (m_subFrameCounter + 1 = 10)
        /\ m_dataToTransmit' = data
        /\ m_q' = [b \in RealTime |->
                IF law THEN Shift(m_q[b], QueueSizeWithOverhead(queue[b])) ELSE m_q[b]]
        /\ m_u' = [b \in RealTime |-> IF law THEN Shift(m_u[b], data[b]) ELSE m_u[b]]
        /\ \E first \in Pass(rt, data, 0) :
            \E second \in Pass(IF first.free = NbOfRBs THEN {} ELSE be, waiting, first.free) :
                /\ m_transmittedBytes' = [b \in RealTime |-> Block(b, first.rbs)]
                /\ air' = Burst(first.rbs, data, FALSE) \o Burst(second.rbs, waiting, rt # {})
                /\ m_channelsForRx' =
                        Looks(Looks(m_channelsForRx, MapOf(first.rbs)), MapOf(second.rbs))
        /\ m_queue' = [b \in RealTime |-> FillBurst(queue[b], m_transmittedBytes'[b]).queue]
        /\ quota' = IF law THEN data ELSE quota
        /\ granted' = [b \in RealTime |->
                (IF law THEN 0 ELSE granted[b]) + m_transmittedBytes'[b]]
        /\ waited' = [b \in RealTime |->
                IF queue[b].elements # <<>> /\ data[b] = 0 THEN waited[b] + 1 ELSE 0]
        /\ UNCHANGED <<scenario, m_nodeState>>

\* StartRx: every UE receives the first burst and forgets its RBs.
StartRx ==
    /\ air # <<>>
    /\ air' = Tail(air)
    /\ m_channelsForRx' = [u \in UEs |-> {}]
    /\ UNCHANGED <<scenario, scheduler, m_queue, m_nodeState>>

Next ==
    \/ \E b \in RealTime : \E size \in scenario.offered[b].sizes : ApplicationSends(b, size)
    \/ \E u \in scenario.sleepers : SetNodeState(u)
    \/ \E drops \in [RealTime -> 0..MaxWaiting], waiting \in [BestEffort -> Waiting] :
            DoSchedule(drops, waiting)
    \/ StartRx

Spec == Init /\ [][Next]_vars

-----------------------------------------------------------------------------
(***************************************************************************)
(* Properties                                                              *)
(***************************************************************************)

TypeOK ==
    /\ m_runControlLaw \in BOOLEAN /\ m_subFrameCounter \in 0..9
    /\ \A b \in RealTime :
        /\ CountersAgree(m_queue[b]) /\ OnlyHeadIsFragmented(m_queue[b])
        /\ m_q[b] \in [1..(M - 1) -> Nat] /\ m_u[b] \in [1..(M - 1) -> Nat]
    /\ {m_dataToTransmit, m_transmittedBytes, quota, granted, waited} \subseteq [RealTime -> Nat]
    /\ Len(air) <= 2 /\ m_channelsForRx \in [UEs -> SUBSET RBs]

\* The two passes of a TTI share its RBs: none is given twice, and a best-effort
\* bearer gets one only when every real-time bearer that has packets, a quota
\* and an active UE has a block for all of its quota.
BestEffortGetsLeftovers ==
    /\ \A i, j \in DOMAIN air : \A b \in DOMAIN air[i].rbs, c \in DOMAIN air[j].rbs :
            <<i, b>> # <<j, c>> => air[i].rbs[b] \cap air[j].rbs[c] = {}
    /\ Len(air) = 2 =>
            \A b \in DOMAIN air[1].rbs : Served(b, air[1].rbs[b], air[1].data[b])

\* Within a frame a bearer gets a block only while what it got before is less
\* than its quota, although what a call sends is taken off in the next one.
QuotaKept ==
    \A b \in RealTime :
        m_transmittedBytes[b] > 0 => granted[b] - m_transmittedBytes[b] < quota[b]

\* A bearer with packets is without a quota for less than a frame, whatever the
\* filter remembers of frames in which it was given more than it needed.
WaitsLessThanAFrame == \A b \in RealTime : waited[b] < 10

\* A block is checked for errors on the RBs it was sent on, with two exceptions:
\* a UE that gets a real-time and a best-effort block in a TTI looks for the
\* first on the RBs of the second; and the burst of a second pass comes when
\* every UE has forgotten its RBs: it is taken without a check.
CheckedOnOwnRBs ==
    air # <<>> =>
        \A u \in UEs :
            \/ m_channelsForRx[u] = MapOf(air[1].rbs)[u]
            \/ Len(air) = 2 /\ MapOf(air[2].rbs)[u] # {}
            \/ air[1].second
=============================================================================
