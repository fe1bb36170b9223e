-------------------------------- MODULE UmRlc --------------------------------
(***************************************************************************)
(* One radio bearer in unacknowledged mode: the MAC queue, the sending     *)
(* UmRlcEntity, the bursts on the air and the receiving UmRlcEntity        *)
(* (protocolStack/rlc/um-rlc-entity.cpp).                                  *)
(*                                                                         *)
(* A burst is lost as a whole when the PHY cannot decode it.  Without HARQ *)
(* (_harq_active_ in load-parameters.h) at most one burst of a bearer is   *)
(* on the air; with HARQ a burst that failed is sent again later and       *)
(* others overtake it.                                                     *)
(*                                                                         *)
(* The sequence number of a UM PDU is left out: nothing reads it.          *)
(***************************************************************************)
EXTENDS MacQueue, FiniteSets, SequencesExt

CONSTANTS
    Sizes,      \* sizes of the packets applications send
    Grants,     \* bytes a scheduler grants in one TTI
    MaxPackets, \* bound of the model
    MaxInAir    \* bursts on the air at a time, with HARQ

ASSUME UmRlcAssumption ==
    /\ Sizes \subseteq Nat \ {0} /\ Grants \subseteq Nat
    /\ MaxPackets \in Nat /\ MaxInAir \in Nat \ {0}

VARIABLES
    harq_active,        \* fixed by the scenario
    m_queue,
    air,                \* bursts sent, neither received nor lost
    m_incomingPacket,   \* the fragments the receiver keeps
    received,           \* ids passed to the sink, in order
    sizeOf,             \* history: the size of every packet, by id
    arrived             \* history: the bytes of each packet that arrived

vars == <<harq_active, m_queue, air, m_incomingPacket, received, sizeOf, arrived>>

Ids == 1..Len(sizeOf)

Init ==
    /\ harq_active \in BOOLEAN
    /\ m_queue = EmptyQueue
    /\ air = <<>>
    /\ m_incomingPacket = <<>>
    /\ received = <<>>
    /\ sizeOf = <<>>
    /\ arrived = <<>>

\* An application hands a packet to the bearer.
ApplicationSends(size) ==
    /\ Len(sizeOf) < MaxPackets
    /\ m_queue' = Enqueue(m_queue, Packet(Len(sizeOf) + 1, size))
    /\ sizeOf' = Append(sizeOf, size)
    /\ arrived' = Append(arrived, {})
    /\ UNCHANGED <<harq_active, air, m_incomingPacket, received>>

\* The scheduler serves the bearer, which has packets, with a grant.
TransmissionProcedure(grant) ==
    LET s == FillBurst(m_queue, grant)
    IN  /\ m_queue.elements # <<>>
        /\ Len(air) < IF harq_active THEN MaxInAir ELSE 1
        /\ m_queue' = s.queue
        /\ air' = IF s.burst = <<>> THEN air
                  ELSE Append(air, [pdus |-> s.burst, grant |-> grant])
        /\ UNCHANGED <<harq_active, m_incomingPacket, received, sizeOf, arrived>>

\* The schedulers that know deadlines drop what has expired.
DropExpired(n) ==
    /\ n <= Len(m_queue.elements)
    /\ m_queue' = CheckForDropPackets(m_queue, n)
    /\ UNCHANGED <<harq_active, air, m_incomingPacket, received, sizeOf, arrived>>

-----------------------------------------------------------------------------
(***************************************************************************)
(* ReceptionProcedure; the state is what the receiver keeps and has passed *)
(* on.                                                                     *)
(***************************************************************************)

\* Mutant: fragments of another packet stay.
ForgetOther_Never(incoming, pdu) == incoming

\* A PDU of another packet makes the receiver forget the fragments it has.
ForgetOther(incoming, pdu) ==
    IF incoming # <<>> /\ incoming[1].id # pdu.id THEN <<>> ELSE incoming

\* Mutant: the last fragment completes the packet whatever came before.
Reassembled_Always(fragments, pdu) == TRUE

\* All fragments are there when they are as many as the last one's number says.
Reassembled(fragments, pdu) == Len(fragments) = pdu.number + 1

Receive(s, pdu) ==
    LET kept == ForgetOther(s.incoming, pdu)
        fragments == Append(kept, pdu)
    IN  IF ~pdu.isFragment
        THEN [incoming |-> kept, received |-> Append(s.received, pdu.id)]
        ELSE IF ~pdu.latest
        THEN [incoming |-> fragments, received |-> s.received]
        ELSE [incoming |-> <<>>,
              received |-> IF Reassembled(fragments, pdu)
                           THEN Append(s.received, pdu.id) ELSE s.received]

\* What comes of the PDUs of a burst.
ReceiveAll(s, burst) ==
    LET states[j \in 0..Len(burst)] ==
            IF j = 0 THEN s ELSE Receive(states[j - 1], burst[j])
    IN  states[Len(burst)]

BytesOf(burst, id) ==
    UNION {burst[i].startByte..burst[i].endByte :
                i \in {j \in 1..Len(burst) : burst[j].id = id}}

\* The i-th burst is decoded, and each of its PDUs handled in turn.
ReceptionProcedure(i) ==
    LET burst == air[i].pdus
        s == ReceiveAll([incoming |-> m_incomingPacket, received |-> received], burst)
    IN  /\ m_incomingPacket' = s.incoming
        /\ received' = s.received
        /\ arrived' = [id \in Ids |-> arrived[id] \cup BytesOf(burst, id)]
        /\ air' = RemoveAt(air, i)
        /\ UNCHANGED <<harq_active, m_queue, sizeOf>>

\* The i-th burst is not decoded, and not sent again any more.
Lose(i) ==
    /\ air' = RemoveAt(air, i)
    /\ UNCHANGED <<harq_active, m_queue, m_incomingPacket, received, sizeOf, arrived>>

Next ==
    \/ \E size \in Sizes : ApplicationSends(size)
    \/ \E grant \in Grants : TransmissionProcedure(grant)
    \/ \E n \in 1..MaxPackets : DropExpired(n)
    \/ \E i \in 1..Len(air) : ReceptionProcedure(i) \/ Lose(i)

Spec == Init /\ [][Next]_vars

\* A burst is received or lost within its TTI (or given up by HARQ), and a
\* bearer with packets is served again and again with some useful grant.
Fairness ==
    /\ WF_vars(\E i \in 1..Len(air) : ReceptionProcedure(i) \/ Lose(i))
    /\ SF_vars(\E grant \in {g \in Grants : g > Overhead} : TransmissionProcedure(grant))

FairSpec == Spec /\ Fairness

-----------------------------------------------------------------------------
(***************************************************************************)
(* Properties                                                              *)
(***************************************************************************)

PduType(p) ==
    /\ p.id \in Ids /\ p.startByte \in Nat /\ p.endByte \in Nat /\ p.number \in Nat
    /\ p.startByte <= p.endByte /\ p.endByte < sizeOf[p.id]
    /\ p.isFragment \in BOOLEAN /\ p.latest \in BOOLEAN

\* The shape of the state; the receiver keeps fragments of one packet.
TypeOK ==
    /\ \A i \in 1..Len(air) : \A j \in 1..Len(air[i].pdus) : PduType(air[i].pdus[j])
    /\ \A i \in 1..Len(m_incomingPacket) :
        /\ PduType(m_incomingPacket[i])
        /\ m_incomingPacket[i].id = m_incomingPacket[1].id
    /\ \A i \in 1..Len(received) : received[i] \in Ids

\* The queue size the schedulers ask for is the number of bytes that wait,
\* however packets are queued, cut, sent and dropped, and only the first
\* packet is ever cut.
QueueAccounting == CountersAgree(m_queue) /\ OnlyHeadIsFragmented(m_queue)

BurstSize(burst) ==
    LET bytes[j \in 0..Len(burst)] ==
            IF j = 0 THEN 0 ELSE bytes[j - 1] + PduSize(burst[j])
    IN  bytes[Len(burst)]

\* A burst never takes more bytes than the scheduler granted, headers
\* included.
FitsTheGrant == \A i \in 1..Len(air) : BurstSize(air[i].pdus) <= air[i].grant

\* What the schedulers rely on: the counters tell what waits, a grant is kept.
SizesKept == TypeOK /\ QueueAccounting /\ FitsTheGrant

\* A packet is passed on only if every byte of it has arrived, although the
\* receiver only counts fragments and bursts are lost or overtake each other.
OnlyWholePackets ==
    \A i \in 1..Len(received) : arrived[received[i]] = 0..(sizeOf[received[i]] - 1)

\* No packet is passed on twice.
DeliveredOnce == \A i, j \in 1..Len(received) : received[i] = received[j] => i = j

\* Without HARQ packets are passed on in the order of their arrival.
DeliveredInOrder ==
    ~harq_active => \A i, j \in 1..Len(received) : i < j => received[i] < received[j]

\* What the sink is promised: packets are whole, none comes twice, and without
\* HARQ they come in order.
DeliveredWholeOnceInOrder == OnlyWholePackets /\ DeliveredOnce /\ DeliveredInOrder

\* Without HARQ a packet of which every byte has arrived has been passed on:
\* a loss costs the packets it hits and no other.
WholePacketsAreDelivered ==
    ~harq_active => \A id \in Ids : arrived[id] = 0..(sizeOf[id] - 1)
                                => \E i \in 1..Len(received) : received[i] = id

\* What the sink is promised: nothing wrong is passed on and nothing whole kept.
SinkServed == DeliveredWholeOnceInOrder /\ WholePacketsAreDelivered

\* Every packet leaves the queue, even one larger than every grant.
EveryPacketLeaves ==
    \A id \in 1..MaxPackets :
        (\E i \in 1..Len(m_queue.elements) : m_queue.elements[i].id = id)
            ~> (\A i \in 1..Len(m_queue.elements) : m_queue.elements[i].id # id)

-----------------------------------------------------------------------------
(***************************************************************************)
(* The bearer is a PacketService.  A packet may still be delivered while   *)
(* each of its bytes waits, is on the air or is kept by the receiver; one  *)
(* byte that was dropped, lost or forgotten loses the packet for good.     *)
(***************************************************************************)

WaitingBytes(q, id) ==
    UNION {q.elements[i].offset..(q.elements[i].size - 1) :
                i \in {j \in 1..Len(q.elements) : q.elements[j].id = id}}

Intact ==
    {id \in Ids : 0..(sizeOf[id] - 1) \subseteq
                    WaitingBytes(m_queue, id) \cup BytesOf(m_incomingPacket, id)
                        \cup UNION {BytesOf(air[i].pdus, id) : i \in 1..Len(air)}}

Service == INSTANCE PacketService WITH
    ordered <- ~harq_active,
    accepted <- Len(sizeOf),
    pending <- Intact,
    delivered <- received

\* Through cuts, drops and losses, and with bursts that overtake each other, what the
\* sink sees is a service of whole packets.
ImplementsService == Service!Spec
=============================================================================
