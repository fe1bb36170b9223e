--------------------------- MODULE UplinkScheduler ---------------------------
(***************************************************************************)
(* The uplink of gNBs: applications queue packets at the UEs, a UE reports *)
(* what it has (UeMacEntity::SendSchedulingRequest), the scheduler of its  *)
(* gNB (uplink-packet-scheduler.cpp and the schedulers derived from it)    *)
(* grants resource blocks for what was reported, and the UE fills the      *)
(* grant from the queue it has by then (ScheduleUplinkTransmission).       *)
(*                                                                         *)
(* The bearers are acknowledged ones, as Application::Start creates them:  *)
(* Rlc(u) is the AmRlcEntity of UE u.  A burst is received, and all of it  *)
(* acknowledged, or lost, before the next allocation; how the receiver     *)
(* puts packets together is left to AmRlc.                                 *)
(*                                                                         *)
(* The exception that an allocation outside the carrier raises is not      *)
(* caught: it ends the simulation.                                         *)
(***************************************************************************)
EXTENDS Integers, Sequences, FiniteSets, FiniteSetsExt, SequencesExt

CONSTANTS
    UEs, GNBs,
    NbOfRBs,        \* of the uplink carrier
    NbPrbToAssign,  \* 5 in RoundRobinUplinkPacketScheduler
    Channels,       \* what a UE may see: metric of each RB, and mcs
    TBSize,         \* TBSize[mcs][n]: bytes that n RBs carry
    Reserved,       \* sets of RBs the random access may have reserved
    Sizes,          \* sizes of the packets applications send
    RetxTimer, MAX_AMD_RETX,
    Scenarios       \* what an instance of the model looks at: the scheduler,
                    \* the gNBs, the channels, packets at most queued at each
                    \* UE (a bound), the UEs whose bursts may be lost

RBs == 0..(NbOfRBs - 1)

ASSUME UplinkAssumption ==
    /\ NbOfRBs \in Nat \ {0} /\ NbPrbToAssign \in Nat \ {0}
    /\ Channels # {}
    /\ \A ch \in Channels :
        /\ DOMAIN ch.metric = RBs
        /\ \A n \in 1..NbOfRBs : TBSize[ch.mcs][n] \in Nat \ {0}
    /\ \A R \in Reserved : R \subseteq RBs
    /\ Sizes \subseteq Nat \ {0}
    /\ \A sc \in Scenarios : /\ sc.scheduler \in {"MT", "FME", "RR"}
                             /\ sc.gnbs \subseteq GNBs /\ sc.channels \subseteq Channels
                             /\ sc.packets \in [UEs -> Nat] /\ sc.lossy \subseteq UEs
    /\ RetxTimer \in Nat /\ RetxTimer > 1

VARIABLES
    scenario,               \* one of Scenarios
    m_userEquipmentRecords, \* of each gNB, in their order
    m_roundRobinId,         \* of the round robin scheduler of each gNB
    m_schedulingRequest,    \* of the record of each UE
    active,                 \* the UE is in STATE_ACTIVE
    m_queue, m_sentAMDs,    \* the bearer of each UE
    nbPackets,              \* packets queued so far
    aborted                 \* an exception has ended the simulation

bearers == <<m_queue, m_sentAMDs, nbPackets>>
vars == <<scenario, m_userEquipmentRecords, m_roundRobinId, m_schedulingRequest,
          active, bearers, aborted>>

\* A sequence number no record has; what it is compared with are records.
NextSn(u) == 1 + Max({0} \cup {m_sentAMDs[u][i].sn : i \in 1..Len(m_sentAMDs[u])})

\* The bearer of one UE; the receiver is not looked at here.
Rlc(u) == INSTANCE AmRlc WITH
    m_queue <- m_queue[u], m_sentAMDs <- m_sentAMDs[u], m_vt_s <- NextSn(u),
    Grants <- {}, MaxInAir <- 1, MaxPackets <- 0, MaxRetx <- 0,
    air <- <<>>, m_receivedAMDs <- <<>>, received <- <<>>,
    sizeOf <- <<>>, arrived <- <<>>, dropped <- {}, overrun <- {}

Mac == INSTANCE MacQueue

\* GetQueueSize of the bearer.
QueueSize(q) == Mac!QueueSizeWithOverhead(q)

Init ==
    /\ scenario \in Scenarios
    /\ \E cell \in [UEs -> scenario.gnbs], order \in SetToSeqs(UEs) :
        m_userEquipmentRecords =
            [g \in GNBs |-> SelectSeq(order, LAMBDA u : cell[u] = g)]
    /\ m_roundRobinId = [g \in GNBs |-> 0]
    /\ m_schedulingRequest = [u \in UEs |-> 0]
    /\ active = [u \in UEs |-> TRUE]
    /\ m_queue = [u \in UEs |-> Mac!EmptyQueue]
    /\ m_sentAMDs = [u \in UEs |-> <<>>]
    /\ nbPackets = [u \in UEs |-> 0]
    /\ aborted = FALSE

-----------------------------------------------------------------------------
(***************************************************************************)
(* The reports                                                             *)
(***************************************************************************)


\* SendSchedulingRequest of a UE with queue q: packets up to expired, and
\* records sent too often, are dropped; then the report goes to the gNB if the
\* UE is active, and is not sent at all otherwise.
SendSchedulingRequest(u, q, isActive, expired) ==
    LET n == Cardinality({i \in 1..Len(q.elements) : q.elements[i].id <= expired})
        after == Mac!CheckForDropPackets(q, n)
        gone(r) == r.id <= expired \/ r.retx > MAX_AMD_RETX
    IN  /\ m_queue' = [m_queue EXCEPT ![u] = after]
        /\ m_sentAMDs' = [m_sentAMDs EXCEPT ![u] = SelectSeq(@, LAMBDA r : ~gone(r))]
        /\ m_schedulingRequest' =
            IF isActive THEN [m_schedulingRequest EXCEPT ![u] = QueueSize(after)]
            ELSE m_schedulingRequest

\* RadioBearer::Enqueue at a UE.
Enqueue(u, size) ==
    /\ nbPackets[u] < scenario.packets[u]
    /\ nbPackets' = [nbPackets EXCEPT ![u] = @ + 1]
    /\ \E expired \in 0..nbPackets[u] :
        SendSchedulingRequest(u,
            Mac!Enqueue(m_queue[u], Mac!Packet(nbPackets[u] + 1, size)), active[u], expired)
    /\ UNCHANGED <<scenario, m_userEquipmentRecords, m_roundRobinId, active, aborted>>

\* The end of a random access: MakeActive, then a report.
ReceiveMessage4(u) ==
    /\ ~active[u]
    /\ active' = [active EXCEPT ![u] = TRUE]
    /\ \E expired \in 0..nbPackets[u] :
        SendSchedulingRequest(u, m_queue[u], TRUE, expired)
    /\ UNCHANGED <<scenario, m_userEquipmentRecords, m_roundRobinId, nbPackets, aborted>>

\* MakeActive without a report: the end of a handover, or an application
\* towards the UE starts.
MakeActive(u) ==
    /\ ~active[u]
    /\ active' = [active EXCEPT ![u] = TRUE]
    /\ UNCHANGED <<scenario, m_userEquipmentRecords, m_roundRobinId, m_schedulingRequest,
                   bearers, aborted>>

\* The idle timer, or the start of a handover.
GoesInactive(u) ==
    /\ active[u]
    /\ active' = [active EXCEPT ![u] = FALSE]
    /\ UNCHANGED <<scenario, m_userEquipmentRecords, m_roundRobinId, m_schedulingRequest,
                   bearers, aborted>>

\* RegisterUserEquipment, as in Handover, where no multicast destination is.
RegisterUserEquipment(list, u) == IF Len(list) = 1 THEN <<u>> \o list ELSE Append(list, u)

\* A handover gives the UE a new record, on which nothing is reported.
TransferBearerInfo(u, g) ==
    /\ ~active[u]
    /\ ~Contains(m_userEquipmentRecords[g], u)
    /\ m_userEquipmentRecords' = [h \in GNBs |->
            LET list == SelectSeq(m_userEquipmentRecords[h], LAMBDA v : v # u)
            IN  IF h = g THEN RegisterUserEquipment(list, u) ELSE list]
    /\ m_schedulingRequest' = [m_schedulingRequest EXCEPT ![u] = 0]
    /\ UNCHANGED <<scenario, m_roundRobinId, active, bearers, aborted>>

-----------------------------------------------------------------------------
(***************************************************************************)
(* RBsAllocation.  users is the list SelectUsersToSchedule makes of the    *)
(* records with a report, channel[u] what the gNB knows of a UE's channel. *)
(* The result is, for each of users, the list of its RBs and the bytes     *)
(* they are taken to carry (m_transmittedData).                            *)
(***************************************************************************)

UsersToSchedule(g) ==
    SelectSeq(m_userEquipmentRecords[g], LAMBDA u : m_schedulingRequest[u] > 0)

NoGrant == [rbs |-> <<>>, bytes |-> 0]

From(s, n) == [i \in 1..n |-> s + i - 1]

Bytes(ch, n) == TBSize[ch.mcs][n]

CeilDiv(a, b) == (a + b - 1) \div b

\* The user with the greatest metric on RB s, the first of them.
Best(S, users, channel, s) ==
    CHOOSE k \in S : \A l \in S :
        LET mk == channel[users[k]].metric[s]
            ml == channel[users[l]].metric[s]
        IN  mk > ml \/ (mk = ml /\ k <= l)

\* Mutant: the search starts from a metric of one.
Candidates_AboveOne(users, channel, done, s) ==
    {k \in 1..Len(users) \ done : channel[users[k]].metric[s] > 1}

Candidates(users, channel, done, s) ==
    {k \in 1..Len(users) \ done : channel[users[k]].metric[s] > 0}

\* UplinkPacketScheduler: at the first free RB that is not reserved, the user
\* with the best positive metric there gets all RBs up to the end of the
\* carrier, or as many as it needs if each of them were sent alone.
MaximumThroughput(users, channel, reserved) ==
    LET turn(a, s) ==
            LET C == Candidates(users, channel, a.done, s)
                k == Best(C, users, channel, s)
                ch == channel[users[k]]
                data == m_schedulingRequest[users[k]]
                left == NbOfRBs - s
                needed == CeilDiv(data, Bytes(ch, 1))
                give(n) == [a.given EXCEPT ![k] =
                    [rbs |-> From(s, n), bytes |-> Bytes(ch, Min({n, NbOfRBs}))]]
            IN  IF s # a.next THEN a
                ELSE IF s \in reserved \/ C = {} THEN [a EXCEPT !.next = s + 1]
                ELSE IF Bytes(ch, left) <= data
                THEN [a EXCEPT !.next = NbOfRBs, !.given = give(left)]
                ELSE [next |-> s + needed, done |-> a.done \cup {k}, given |-> give(needed)]
    IN  FoldLeft(turn, [next |-> 0, done |-> {}, given |-> [k \in 1..Len(users) |-> NoGrant]],
                 From(0, NbOfRBs)).given

\* Mutant: the right neighbour is not looked at.
Expand_TakesRight(e, metric) ==
    IF ~e.made \/ e.free = {} THEN e
    ELSE [e EXCEPT !.rbs = Append(@, e.right), !.right = @ + 1, !.free = @ \ {e.right}]

\* One turn of the expansion: the better one of the free neighbours of the
\* RBs of e, the right one when they are equal.
Expand(e, metric) ==
    LET free(s) == s \in e.free
        l == e.left
        r == e.right
    IN  IF ~e.made \/ e.free = {} THEN e
        ELSE IF free(r) /\ (free(l) => metric[r] >= metric[l])
        THEN [e EXCEPT !.rbs = Append(@, r), !.right = @ + 1, !.free = @ \ {r}]
        ELSE IF free(l)
        THEN [e EXCEPT !.rbs = Append(@, l), !.left = @ - 1, !.free = @ \ {l}]
        ELSE [e EXCEPT !.made = FALSE]

\* EnhancedUplinkPacketScheduler: the best pair of a free RB and a user that
\* has none starts a block that grows on both sides to what the user needs,
\* rounded down.  A user whose block meets others before that keeps the RBs
\* and gets no grant.
FirstMaximumExpansion(users, channel) ==
    LET required == [k \in 1..Len(users) |->
            m_schedulingRequest[users[k]] \div Bytes(channel[users[k]], 1)]
        turn(a, i) ==
            LET metric(k, s) == channel[users[k]].metric[s]
                pairs == {p \in a.free \X (1..Len(users)) :
                            required[p[2]] > 0 /\ a.given[p[2]].rbs = <<>>}
                best == CHOOSE p \in pairs : \A o \in pairs :
                    \/ metric(p[2], p[1]) > metric(o[2], o[1])
                    \/ /\ metric(p[2], p[1]) = metric(o[2], o[1])
                       /\ p[1] < o[1] \/ (p[1] = o[1] /\ p[2] <= o[2])
                s == best[1]
                k == best[2]
                ch == channel[users[k]]
                e == FoldLeft(LAMBDA x, j : Expand(x, ch.metric),
                        [rbs |-> <<s>>, left |-> s - 1, right |-> s + 1,
                         free |-> a.free \ {s}, made |-> TRUE],
                        From(1, required[k] - 1))
            IN  IF pairs = {} THEN a
                ELSE [free |-> e.free,
                      given |-> [a.given EXCEPT ![k] =
                        [rbs |-> e.rbs, bytes |-> IF e.made THEN Bytes(ch, Len(e.rbs)) ELSE 0]]]
    IN  FoldLeft(turn, [free |-> RBs, given |-> [k \in 1..Len(users) |-> NoGrant]],
                 From(1, Len(users))).given

\* RoundRobinUplinkPacketScheduler: blocks of equal length, up to the end of
\* the carrier or beyond it.
Block(users) == Max({NbPrbToAssign, NbOfRBs \div Len(users)})

\* How many blocks: one each if they are longer than NbPrbToAssign.
NbOfBlocks(users) ==
    IF NbOfRBs \div Len(users) > NbPrbToAssign THEN Len(users)
    ELSE CeilDiv(NbOfRBs, NbPrbToAssign)

\* Mutant: the index does not wrap around.
Turn_NoWrap(users, id, block) == id + block

\* The user a block goes to.
Turn(users, id, block) ==
    (((IF id >= Len(users) THEN 0 ELSE id) + block - 1) % Len(users)) + 1

\* A user that gets several blocks is taken to send what the last one carries.
RoundRobin(users, channel, id) ==
    [k \in 1..Len(users) |->
        LET mine == SelectSeq(From(1, NbOfBlocks(users)), LAMBDA b : Turn(users, id, b) = k)
        IN  IF mine = <<>> THEN NoGrant
            ELSE [rbs |-> FlattenSeq([i \in 1..Len(mine) |->
                            From((mine[i] - 1) * Block(users), Block(users))]),
                  bytes |-> Bytes(channel[users[k]], Block(users))]]

RBsAllocation(users, channel, reserved, id) ==
    CASE scenario.scheduler = "MT" -> MaximumThroughput(users, channel, reserved)
      [] scenario.scheduler = "FME" -> FirstMaximumExpansion(users, channel)
      [] scenario.scheduler = "RR" -> RoundRobin(users, channel, id)

-----------------------------------------------------------------------------
(***************************************************************************)
(* A TTI                                                                   *)
(***************************************************************************)

\* The RBs of an allocation that are not in the carrier.
OutsideCarrier(given) ==
    {k \in DOMAIN given : \E i \in 1..Len(given[k].rbs) : given[k].rbs[i] \notin RBs}

\* Mutant: a grant is not taken off the report.
StillRequested_Keeps(request, bytes) == request

\* DoStopSchedule: the report is reduced by what was granted.
StillRequested(request, bytes) == Max({0, request - bytes})

\* ScheduleUplinkTransmission: the UE fills what its RBs carry.
Filled(u, bytes) ==
    Rlc(u)!AfterRetransmissions(Rlc(u)!Retransmissions(bytes), bytes)

\* The acknowledgements of a burst that was received.
Acknowledged(u, filled) == 
    FoldLeft(LAMBDA sent, pdu : Rlc(u)!ReceiveArq(sent, pdu), filled.sent, filled.burst)

\* DoSchedule of a gNB, the PDCCH map it sends and what the UEs make of it;
\* the bursts of the UEs in lost are not received.
DoSchedule(g, channel, reserved, lost) ==
    LET users == UsersToSchedule(g)
        given == RBsAllocation(users, channel, reserved, m_roundRobinId[g])
        granted == {users[k] : k \in {j \in 1..Len(users) : given[j].bytes > 0}}
        grantOf(u) == given[CHOOSE k \in 1..Len(users) : users[k] = u]
        filled == [u \in granted |-> Filled(u, Bytes(channel[u], Len(grantOf(u).rbs)))]
    IN  /\ users # <<>>
        /\ IF OutsideCarrier(given) # {}
           THEN /\ aborted' = TRUE
                /\ UNCHANGED <<m_roundRobinId, m_schedulingRequest, bearers>>
           ELSE /\ lost \subseteq granted
                /\ m_roundRobinId' = IF scenario.scheduler # "RR" THEN m_roundRobinId
                    ELSE [m_roundRobinId EXCEPT
                            ![g] = Turn(users, @, NbOfBlocks(users))]
                /\ m_schedulingRequest' = [u \in UEs |->
                    IF u \in granted THEN StillRequested(m_schedulingRequest[u], grantOf(u).bytes)
                    ELSE m_schedulingRequest[u]]
                /\ m_queue' = [u \in UEs |->
                    IF u \in granted THEN filled[u].queue ELSE m_queue[u]]
                /\ m_sentAMDs' = [u \in UEs |->
                    IF u \notin granted THEN m_sentAMDs[u]
                    ELSE IF u \in lost THEN filled[u].sent
                    ELSE Acknowledged(u, filled[u])]
                /\ UNCHANGED <<nbPackets, aborted>>
        /\ UNCHANGED <<scenario, m_userEquipmentRecords, active>>

Tti(g) ==
    \E channel \in [ToSet(UsersToSchedule(g)) -> scenario.channels], reserved \in Reserved :
        \E lost \in SUBSET scenario.lossy : DoSchedule(g, channel, reserved, lost)

Next ==
    /\ ~aborted
    /\ \/ \E u \in UEs :
            \/ \E size \in Sizes : Enqueue(u, size)
            \/ ReceiveMessage4(u)
            \/ MakeActive(u)
            \/ GoesInactive(u)
            \/ \E g \in scenario.gnbs : TransferBearerInfo(u, g)
       \/ \E g \in GNBs : Tti(g)

Spec == Init /\ [][Next]_vars

-----------------------------------------------------------------------------
(***************************************************************************)
(* Properties                                                              *)
(***************************************************************************)

TypeOK ==
    /\ \A u \in UEs : \E g \in GNBs : Contains(m_userEquipmentRecords[g], u)
    /\ \A g \in GNBs : m_roundRobinId[g] \in 0..Cardinality(UEs)
    /\ m_schedulingRequest \in [UEs -> Nat]
    /\ active \in [UEs -> BOOLEAN] /\ aborted \in BOOLEAN
    /\ \A u \in UEs : nbPackets[u] \in 0..scenario.packets[u]

\* What the gNB asks for is more than the UE has.
OverReported(u) == m_schedulingRequest[u] > QueueSize(m_queue[u])

\* What waits at the UE and the gNB does not know of.
Unreported(u) == Max({0, QueueSize(m_queue[u]) - m_schedulingRequest[u]})

\* Only two things make a gNB ask a UE for more than the UE has: the UE drops
\* packets while it cannot say so, or is granted several blocks.
NotExceeded(u) ==
    OverReported(u)' =>
        \/ OverReported(u)
        \/ ~active'[u] /\ Len(m_queue'[u].elements) <= Len(m_queue[u].elements)
                       /\ nbPackets'[u] # nbPackets[u]
        \/ scenario.scheduler = "RR" /\ \E g \in GNBs :
                LET users == UsersToSchedule(g)
                IN  Contains(users, u) /\ NbOfBlocks(users) > Len(users)

\* What the gNB does not know of grows by at most a header with each grant,
\* unless the UE cannot report, has a new record or has lost bursts.
LagsByHeaders(u) ==
    active[u] /\ u \notin scenario.lossy => Unreported(u)' <= Unreported(u) + Mac!Overhead

\* The report a gNB keeps follows the queue of the UE, although the gNB only
\* subtracts what it grants and the UE fills grants as it likes.
ReportTracksQueue == [][\A u \in UEs : NotExceeded(u) /\ LagsByHeaders(u)]_vars

\* Bytes of the packets that wait and of the records that are due.
Waiting(u) ==
    FoldLeft(LAMBDA acc, e : acc + Mac!Remaining(e), 0, m_queue[u].elements)
    + FoldLeft(LAMBDA acc, r : IF r.timer = 0 THEN acc + r.size ELSE acc, 0, m_sentAMDs[u])

\* The size a UE reports is never less than that, although AmRlcEntity adds the
\* records to it when they become due and nothing takes them off.
QueueSizeCovers == \A u \in UEs : Waiting(u) <= m_queue[u].queueSize

\* No RB is given to two users in a TTI, whatever the channels and the reports
\* are.
OneUserPerRB ==
    \A g \in GNBs, reserved \in Reserved :
      \A channel \in [ToSet(UsersToSchedule(g)) -> scenario.channels] :
        LET users == UsersToSchedule(g)
            given == RBsAllocation(users, channel, reserved, m_roundRobinId[g])
        IN  users # <<>> => \A j, k \in 1..Len(users) :
                j # k => ToSet(given[j].rbs) \cap ToSet(given[k].rbs) = {}

\* As long as a gNB has a report of a UE that can be heard on the carrier, each
\* TTI takes something off some report: no report is asked about for ever,
\* whichever UE it is of.  First maximum expansion keeps reports of less than
\* what one RB carries.
EveryTtiServesAReport ==
    \A g \in GNBs :
      \A channel \in [ToSet(UsersToSchedule(g)) -> scenario.channels] :
        LET users == UsersToSchedule(g)
            given == RBsAllocation(users, channel, {}, m_roundRobinId[g])
            heard(u) == channel[u].metric[0] > 0
            aRB(u) == scenario.scheduler = "FME" =>
                        m_schedulingRequest[u] >= Bytes(channel[u], 1)
        IN  (\E u \in ToSet(users) : heard(u) /\ aRB(u)) =>
                \/ OutsideCarrier(given) # {}
                \/ \E k \in DOMAIN given : given[k].bytes > 0
=============================================================================
