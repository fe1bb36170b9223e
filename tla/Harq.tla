--------------------------------- MODULE Harq ---------------------------------
(***************************************************************************)
(* HARQ on the downlink of one cell, with _harq_active_ set: the transmit  *)
(* processes of the HarqManager in every UserEquipmentRecord of the gNB,   *)
(* the receive processes of the HarqManager in every UE, the part of       *)
(* DownlinkPacketScheduler that chooses what is sent, and UePhy::StartRx.  *)
(*                                                                         *)
(* Time advances one TTI in two steps: "rx", in which the UEs receive the  *)
(* burst of the last TTI and acknowledge it, and "tx", in which the gNB    *)
(* schedules (FrameManager shows that this is the order).  Control         *)
(* messages are ideal: they are delivered inside the call that sends them. *)
(*                                                                         *)
(* Resource blocks are counted: which ones a metric prefers is left out.   *)
(* One user per RB, the default of m_maxUsersPerRB.  Unicast bearers only. *)
(***************************************************************************)
EXTENDS Integers, Sequences, FiniteSetsExt, Functions

CONSTANTS
    NbUEs,      \* UEs are numbered in the order of their registration
    UEOf,       \* the UE of each radio bearer, in the order of the RRC container
    NbRBs,                  \* RBs of the cell
    m_maxProcesses,         \* 8 in the code
    m_maxRetransmissions,   \* 4 in the code: transmissions of a block, in all
    m_retransmissionDelay   \* 8 TTIs in the code

UEs == 1..NbUEs
Bearers == DOMAIN UEOf
Pids == 0..(m_maxProcesses - 1)

\* With a single transmission CreateRxProcess would keep a block whose process
\* the gNB erases at once.
ASSUME HarqAssumption ==
    /\ NbUEs \in Nat /\ NbRBs \in Nat \ {0}
    /\ UEOf \in Seq(UEs)
    /\ m_maxProcesses \in Nat \ {0}
    /\ m_maxRetransmissions \in Nat \ {0, 1}
    /\ m_retransmissionDelay \in Nat

VARIABLES
    m_txProcesses,  \* per UE: pid -> process, with
                    \*   rbs: the flow's list of allocated RBs (its length),
                    \*   age: TTIs since lastTxTime, counted up to TooOld,
                    \*   firstRbs, decoded: history, what the first
                    \*   transmission used and whether the UE has the block
    m_rxProcesses,  \* per UE: pid -> numRx
    allocation,     \* per UE: what the last allocation map gave it
    m_flowsToSchedule,  \* the bearers selected in this TTI
    phase

vars == <<m_txProcesses, m_rxProcesses, allocation, m_flowsToSchedule, phase>>

TooOld == m_retransmissionDelay + 1
NoProcesses == [p \in {} |-> 0]
HARQ_NO_PID_AVAILABLE == -1

\* The pid a UE keeps of the map (m_harqPidForRx: the last record wins), the
\* flows in the burst as <<bearer, pid>>.
NoAllocation == [pid |-> HARQ_NO_PID_AVAILABLE, flows |-> {}]

Init ==
    /\ m_txProcesses = [u \in UEs |-> NoProcesses]
    /\ m_rxProcesses = [u \in UEs |-> NoProcesses]
    /\ allocation = [u \in UEs |-> NoAllocation]
    /\ m_flowsToSchedule = {}
    /\ phase = "tx"

-----------------------------------------------------------------------------
(***************************************************************************)
(* HarqManager, the transmitting side                                      *)
(***************************************************************************)

\* The first pid without a process.
GetPidForNewTx(tx) ==
    LET free == Pids \ DOMAIN tx
    IN  IF free = {} THEN HARQ_NO_PID_AVAILABLE ELSE Min(free)

NewTransmission(tx, pid, b, rbs) ==
    [p \in DOMAIN tx \cup {pid} |->
        IF p = pid THEN [bearer |-> b, numTx |-> 1, age |-> 0, rbs |-> rbs,
                         firstRbs |-> rbs, decoded |-> FALSE]
        ELSE tx[p]]

\* Mutant: the retransmission counter does not move.
Retransmission_NotCounted(process) == [process EXCEPT !.age = 0]

Retransmission(process) ==
    [process EXCEPT !.numTx = @ + 1, !.age = 0]

ReceiveAck(tx, ack, pid) ==
    IF ack THEN Restrict(tx, DOMAIN tx \ {pid}) ELSE tx

\* Mutant: a process is given up one transmission too early.
DropExhausted_Early(tx) ==
    Restrict(tx, {p \in DOMAIN tx : tx[p].numTx < m_maxRetransmissions - 1})

\* Mutant: the limit is passed before the process is erased.
DropExhausted_Late(tx) ==
    Restrict(tx, {p \in DOMAIN tx : tx[p].numTx <= m_maxRetransmissions})

\* GetFlowsForRetransmission, first part: processes with no transmission
\* left are erased, whatever their age.
DropExhausted(tx) ==
    Restrict(tx, {p \in DOMAIN tx : tx[p].numTx < m_maxRetransmissions})

\* Mutant: several processes of one bearer in one TTI.
FlowsForRetransmission_SameBearer(tx, early) ==
    {p \in DOMAIN tx : tx[p].age > m_retransmissionDelay \/ p \in early}

\* Second part: the processes whose delay has passed, at most one per
\* bearer.  Times are doubles: after exactly m_retransmissionDelay the
\* comparison may go either way, and early says which it does.
FlowsForRetransmission(tx, early) ==
    LET due == {p \in DOMAIN tx : tx[p].age > m_retransmissionDelay \/ p \in early}
    IN  {p \in due : \A q \in due : q < p => tx[q].bearer # tx[p].bearer}

MaybeDue(tx) == {p \in DOMAIN tx : tx[p].age = m_retransmissionDelay}

-----------------------------------------------------------------------------
(***************************************************************************)
(* DownlinkPacketScheduler                                                 *)
(***************************************************************************)

\* The flows for retransmission, as <<UE, pid>>, and the order in which they are
\* looked at: UE by UE and pid by pid.
AllForRetransmission(tx, early) ==
    {f \in UEs \X Pids : f[2] \in FlowsForRetransmission(tx[f[1]], early[f[1]])}

Before(f, g) == f[1] < g[1] \/ (f[1] = g[1] /\ f[2] < g[2])

\* The RBs that these flows had, and get again.
NbRequiredRBs(tx, flows) == MapThenSumSet(LAMBDA f : tx[f[1]][f[2]].rbs, flows)

\* Retransmissions come first: each in its turn gets as many RBs as it had, or
\* none if there are not as many left by then.
IsGranted(tx, flows, granted) ==
    \A f \in flows :
        f \in granted <=>
            /\ tx[f[1]][f[2]].rbs > 0
            /\ tx[f[1]][f[2]].rbs
                <= NbRBs - NbRequiredRBs(tx, {g \in granted : Before(g, f)})

\* New data: a UE with a free pid and without a retransmission in this TTI.
Eligible(active, pids, granted) ==
    {b \in active : /\ pids[UEOf[b]] # HARQ_NO_PID_AVAILABLE
                    /\ UEOf[b] \notin {f[1] : f \in granted}}

\* The RBs each flow with new data gets: whatever the metrics prefer.
NewAllocations(eligible, free) ==
    {alloc \in [eligible -> 0..NbRBs] : SumFunction(alloc) <= free}

\* The processes of a UE of which those in asked were to be sent again and those
\* in resent were: the list of RBs is emptied before it is filled again.
\* Finalize the allocation: one process for the new flows, because insert()
\* does nothing for a second flow with the same pid.
Finalize(tx, pid, alloc, new, asked, resent) ==
    LET sent == [p \in DOMAIN tx |->
                    IF p \in resent THEN Retransmission(tx[p])
                    ELSE IF p \in asked THEN [tx[p] EXCEPT !.rbs = 0]
                    ELSE tx[p]]
    IN  IF new = {} THEN sent
        ELSE NewTransmission(sent, pid, Min(new), alloc[Min(new)])

\* The allocation map as the UE keeps it: new flows come before
\* retransmissions in the map.
MapOf(tx, pid, new, resent) ==
    IF new \cup resent = {} THEN NoAllocation
    ELSE [pid   |-> IF resent # {} THEN Max(resent) ELSE pid,
          flows |-> {<<b, pid>> : b \in new} \cup {<<tx[p].bearer, p>> : p \in resent}]

\* RBsAllocation.  The pids are read before the exhausted processes go.
RBsAllocation(active, early) ==
    LET pids == [u \in UEs |-> GetPidForNewTx(m_txProcesses[u])]
        tx == [u \in UEs |-> DropExhausted(m_txProcesses[u])]
        flows == AllForRetransmission(tx, early)
        of(u, S) == {p \in Pids : <<u, p>> \in S}
    IN  \E granted \in SUBSET flows :
          /\ IsGranted(tx, flows, granted)
          /\ LET eligible == Eligible(active, pids, granted) IN
              \E alloc \in NewAllocations(eligible, NbRBs - NbRequiredRBs(tx, granted)) :
                LET new == [u \in UEs |-> {b \in eligible : UEOf[b] = u /\ alloc[b] > 0}]
                IN  /\ m_txProcesses' = [u \in UEs |->
                          Finalize(tx[u], pids[u], alloc, new[u], of(u, flows), of(u, granted))]
                    /\ allocation' = [u \in UEs |->
                          MapOf(tx[u], pids[u], new[u], of(u, granted))]

\* DoSchedule with the bearers that have packets for an active UE; without
\* any, RBsAllocation is not called and nothing is retransmitted either.
DoSchedule(active) ==
    /\ phase = "tx"
    /\ IF active = {}
       THEN UNCHANGED <<m_txProcesses, allocation>>
       ELSE \E early \in [UEs -> SUBSET Pids] :
                /\ \A u \in UEs : early[u] \subseteq MaybeDue(DropExhausted(m_txProcesses[u]))
                /\ RBsAllocation(active, early)
    /\ m_flowsToSchedule' = active
    /\ phase' = "rx"
    /\ UNCHANGED m_rxProcesses

-----------------------------------------------------------------------------
(***************************************************************************)
(* UePhy::StartRx                                                          *)
(***************************************************************************)

\* Mutant: the process of a decoded block is kept.
RxAfter_KeepsDecoded(rx, pid, phyError) ==
    IF ~phyError THEN rx
    ELSE IF pid \notin DOMAIN rx THEN [p \in DOMAIN rx \cup {pid} |->
                                        IF p = pid THEN 1 ELSE rx[p]]
    ELSE IF rx[pid] + 1 = m_maxRetransmissions THEN Restrict(rx, DOMAIN rx \ {pid})
    ELSE [rx EXCEPT ![pid] = @ + 1]

\* DeleteRxProcess on success, CreateRxProcess or UpdateRxProcess on error.
RxAfter(rx, pid, phyError) ==
    IF ~phyError THEN Restrict(rx, DOMAIN rx \ {pid})
    ELSE IF pid \notin DOMAIN rx THEN [p \in DOMAIN rx \cup {pid} |->
                                        IF p = pid THEN 1 ELSE rx[p]]
    ELSE IF rx[pid] + 1 = m_maxRetransmissions THEN Restrict(rx, DOMAIN rx \ {pid})
    ELSE [rx EXCEPT ![pid] = @ + 1]

\* A TTI passes, and every block of a decoded burst is known to the UE.
Later(u, tx, ok) ==
    [p \in DOMAIN tx |->
        [tx[p] EXCEPT !.age = IF @ < TooOld THEN @ + 1 ELSE TooOld,
                      !.decoded = @ \/ (ok /\ <<tx[p].bearer, p>> \in allocation[u].flows)]]

\* The UEs in errors fail to decode.  A UE with an allocation updates its
\* receive process and sends an ACK or NACK, which ReceiveAck handles at
\* once; both concern the one pid it kept.
StartRx(errors) ==
    LET addressed == {u \in UEs : allocation[u] # NoAllocation}
    IN  /\ phase = "rx"
        /\ errors \subseteq addressed
        /\ m_rxProcesses' = [u \in UEs |->
                IF u \in addressed
                THEN RxAfter(m_rxProcesses[u], allocation[u].pid, u \in errors)
                ELSE m_rxProcesses[u]]
        /\ m_txProcesses' = [u \in UEs |->
                IF u \in addressed
                THEN ReceiveAck(Later(u, m_txProcesses[u], u \notin errors),
                                u \notin errors, allocation[u].pid)
                ELSE Later(u, m_txProcesses[u], FALSE)]
        /\ allocation' = [u \in UEs |-> NoAllocation]
        /\ m_flowsToSchedule' = {}
        /\ phase' = "tx"

Next ==
    \/ \E active \in SUBSET Bearers : DoSchedule(active)
    \/ \E errors \in SUBSET UEs : StartRx(errors)

Spec == Init /\ [][Next]_vars

\* FrameManager runs both in every TTI, and sources that keep sending (infinite
\* buffer) all have data again and again.
Fairness ==
    /\ []<>(phase = "tx") /\ []<>(phase = "rx")
    /\ []<>(m_flowsToSchedule = Bearers)

FairSpec == Spec /\ Fairness

-----------------------------------------------------------------------------
(***************************************************************************)
(* Properties                                                              *)
(***************************************************************************)

\* The shape of the state.
TypeOK ==
    /\ \A u \in UEs :
        /\ DOMAIN m_txProcesses[u] \subseteq Pids
        /\ \A p \in DOMAIN m_txProcesses[u] :
            m_txProcesses[u][p] \in
                [bearer : Bearers, numTx : 1..m_maxRetransmissions, age : 0..TooOld,
                 rbs : 0..NbRBs, firstRbs : 1..NbRBs, decoded : BOOLEAN]
        /\ DOMAIN m_rxProcesses[u] \subseteq Pids
        /\ \A p \in DOMAIN m_rxProcesses[u] :
            m_rxProcesses[u][p] \in 1..(m_maxRetransmissions - 1)
        /\ allocation[u].pid \in Pids \cup {HARQ_NO_PID_AVAILABLE}
    /\ m_flowsToSchedule \subseteq Bearers
    /\ phase \in {"rx", "tx"}

\* Both ends count the transmissions of a block alike: once the burst has
\* been received and answered, the UE holds the signal of a process of the
\* gNB as many times as it was sent, and of nothing else.  Otherwise
\* GetCombinedSinr combines the signals of different blocks, or reads past
\* the end of a vector when they have different numbers of RBs.
SoftCombiningInStep ==
    phase = "tx" =>
        \A u \in UEs :
            /\ \A p \in DOMAIN m_rxProcesses[u] :
                /\ p \in DOMAIN m_txProcesses[u]
                /\ m_txProcesses[u][p].numTx = m_rxProcesses[u][p]
            /\ \A p \in DOMAIN m_txProcesses[u] \ DOMAIN m_rxProcesses[u] :
                m_txProcesses[u][p].numTx = m_maxRetransmissions

\* A block the UE has decoded is never sent again: its process has gone.
NotSentOnceDecoded ==
    phase = "tx" => \A u \in UEs : \A p \in DOMAIN m_txProcesses[u] :
                        ~m_txProcesses[u][p].decoded

\* The UE and the gNB agree on every process once a burst has been answered.
BothEndsAgree == TypeOK /\ SoftCombiningInStep /\ NotSentOnceDecoded

\* What is left to be said while a burst is on its way: the process of the block
\* in it is one transmission ahead of the UE, and every other one is settled.
Settled(u, p) ==
    /\ p \in DOMAIN m_rxProcesses[u] =>
        /\ p \in DOMAIN m_txProcesses[u]
        /\ m_txProcesses[u][p].numTx = m_rxProcesses[u][p]
    /\ p \in DOMAIN m_txProcesses[u] =>
        /\ ~m_txProcesses[u][p].decoded
        /\ p \notin DOMAIN m_rxProcesses[u] =>
                m_txProcesses[u][p].numTx = m_maxRetransmissions

UnderWay(u, p) ==
    /\ p \in DOMAIN m_txProcesses[u]
    /\ ~m_txProcesses[u][p].decoded
    /\ allocation[u].flows = {<<m_txProcesses[u][p].bearer, p>>}
    /\ m_txProcesses[u][p].numTx =
            IF p \in DOMAIN m_rxProcesses[u] THEN m_rxProcesses[u][p] + 1 ELSE 1

IInv ==
    /\ TypeOK
    /\ \A u \in UEs :
        /\ \A p \in DOMAIN m_txProcesses[u] : UEOf[m_txProcesses[u][p].bearer] = u
        /\ allocation[u] # NoAllocation => phase = "rx" /\ allocation[u].pid \in Pids
        /\ \A p \in Pids :
            IF allocation[u] # NoAllocation /\ p = allocation[u].pid
            THEN UnderWay(u, p) ELSE Settled(u, p)

\* A block is given up only after its last transmission failed: every
\* process that goes was acknowledged in this step, or had been sent
\* m_maxRetransmissions times.
NotGivenUpEarly ==
    [][\A u \in UEs : \A p \in DOMAIN m_txProcesses[u] \ DOMAIN m_txProcesses'[u] :
            \/ m_txProcesses[u][p].numTx = m_maxRetransmissions
            \/ allocation[u].pid = p /\ p \notin DOMAIN m_rxProcesses'[u]]_vars

\* Every transmit process ends, by an ACK or because it was sent often
\* enough: every pid becomes free again and again, so a UE whose channel is
\* bad is not cut off for good.  The one way out of this is a process whose
\* list of RBs was lost (see SameNumberOfRBs): it is never sent again, nor is
\* any process of the bearer behind it.
LostItsRBs(u) == \E p \in DOMAIN m_txProcesses[u] : m_txProcesses[u][p].rbs = 0

EveryProcessEnds ==
    \A u \in UEs : \A p \in Pids :
        []<>(p \notin DOMAIN m_txProcesses[u] \/ LostItsRBs(u))

\* "Every HARQ retransmission requires the same number of RBs [...] as the
\* original transmission" (downlink-packet-scheduler.cpp:504): a process
\* that waits to be sent again knows that number.
SameNumberOfRBs ==
    \A u \in UEs : \A p \in DOMAIN m_txProcesses[u] :
        m_txProcesses[u][p].rbs = m_txProcesses[u][p].firstRbs
=============================================================================
