------------------------------- MODULE MacQueue -------------------------------
(***************************************************************************)
(* The queue of a radio bearer (flows/MacQueue.cpp): packets wait in the   *)
(* order of their arrival, and the first one may have been sent in part.   *)
(*                                                                         *)
(* A queue is a record: elements, the counters queueSize and nbDataPackets *)
(* the code keeps beside them.  The time stamp of an element is left out:  *)
(* it only decides when CheckForDropPackets drops the element, and         *)
(* elements expire in their order.                                         *)
(***************************************************************************)
EXTENDS Integers, Sequences

Overhead == 8   \* RLC (2), MAC (3) and CRC (3)

EmptyQueue == [elements |-> <<>>, queueSize |-> 0, nbDataPackets |-> 0]

Packet(id, size) ==
    [id |-> id, size |-> size, offset |-> 0, number |-> 0, fragmentation |-> FALSE]

Enqueue(q, p) ==
    [elements |-> Append(q.elements, p),
     queueSize |-> q.queueSize + p.size,
     nbDataPackets |-> q.nbDataPackets + 1]

\* What of an element has not been sent.
Remaining(e) == e.size - e.offset

\* Mutant: the head is not cut.
HasPacketFor_Uncut(q, availableBytes) ==
    q.elements # <<>> /\ availableBytes >= Remaining(q.elements[1]) + Overhead

\* GetPacketToTramsit returns a packet, not nullptr.
HasPacketFor(q, availableBytes) == q.elements # <<>> /\ availableBytes > Overhead

\* The RLC header of what is sent; endByte is the last byte of it.
Pdu(e, endByte, isFragment, latest) ==
    [id |-> e.id, startByte |-> e.offset, endByte |-> endByte,
     number |-> e.number, isFragment |-> isFragment, latest |-> latest]

\* Bytes of a PDU on the air.
PduSize(pdu) == pdu.endByte - pdu.startByte + 1 + Overhead

\* Case 1: the head does not fit and leaves a fragment behind.
Fragment(q, availableBytes) ==
    LET e == Head(q.elements)
        sent == availableBytes - Overhead
    IN  [queue |->
            [elements |-> [q.elements EXCEPT
                ![1] = [e EXCEPT !.offset = @ + sent, !.number = @ + 1,
                                 !.fragmentation = TRUE]],
             queueSize |-> q.queueSize - sent,
             nbDataPackets |-> q.nbDataPackets],
         pdu |-> Pdu(e, e.offset + sent - 1, TRUE, FALSE)]

\* Case 2: the head, or what is left of it, fits and leaves the queue.
Whole(q) ==
    LET e == Head(q.elements)
    IN  [queue |-> [elements |-> Tail(q.elements),
                    queueSize |-> q.queueSize - Remaining(e),
                    nbDataPackets |-> q.nbDataPackets - 1],
         pdu |-> Pdu(e, e.size - 1, e.fragmentation, TRUE)]

\* Mutant: the fit is tested without the headers.
GetPacketToTramsit_NoOverhead(q, availableBytes) ==
    IF Remaining(Head(q.elements)) > availableBytes
    THEN Fragment(q, availableBytes)
    ELSE Whole(q)

GetPacketToTramsit(q, availableBytes) ==
    IF Remaining(Head(q.elements)) + Overhead > availableBytes
    THEN Fragment(q, availableBytes)
    ELSE Whole(q)

\* A turn of the loop of UmRlcEntity::TransmissionProcedure takes one PDU, or ends.
Turn(s) ==
    IF ~HasPacketFor(s.queue, s.left) THEN s
    ELSE LET t == GetPacketToTramsit(s.queue, s.left)
         IN  [queue |-> t.queue, left |-> s.left - PduSize(t.pdu),
              burst |-> Append(s.burst, t.pdu)]

\* What the loop takes from the queue for a grant.
FillBurst(q, grant) ==
    LET turns[i \in 0..(grant \div Overhead)] ==
            IF i = 0 THEN [queue |-> q, left |-> grant, burst |-> <<>>]
            ELSE Turn(turns[i - 1])
    IN  turns[grant \div Overhead]

\* Mutant: the whole size of an element is taken off the counter.
DropHead_WholeSize(q) ==
    [elements |-> Tail(q.elements),
     queueSize |-> q.queueSize - Head(q.elements).size,
     nbDataPackets |-> q.nbDataPackets - 1]

DropHead(q) ==
    [elements |-> Tail(q.elements),
     queueSize |-> q.queueSize - Remaining(Head(q.elements)),
     nbDataPackets |-> q.nbDataPackets - 1]

\* The first n elements have expired: the loop of CheckForDropPackets stops
\* at the first one that has not.
CheckForDropPackets(q, n) ==
    LET dropped[i \in 0..n] == IF i = 0 THEN q ELSE DropHead(dropped[i - 1])
    IN  dropped[n]

\* GetQueueSizeWithMACHoverhead
QueueSizeWithOverhead(q) == q.queueSize + q.nbDataPackets * Overhead

\* GetByte: what the first packets take on the air, as many as it takes to
\* reach byte.
GetByte(q, byte) ==
    LET bytes[i \in 0..Len(q.elements)] ==
            IF i = 0 THEN 0
            ELSE IF bytes[i - 1] > 0 /\ bytes[i - 1] >= byte THEN bytes[i - 1]
            ELSE bytes[i - 1] + Remaining(q.elements[i]) + Overhead
    IN  bytes[Len(q.elements)]

\* What is left of all elements.
Bytes(elements) ==
    LET bytes[i \in 0..Len(elements)] ==
            IF i = 0 THEN 0 ELSE bytes[i - 1] + Remaining(elements[i])
    IN  bytes[Len(elements)]

\* The counters agree with the elements.
CountersAgree(q) ==
    /\ q.nbDataPackets = Len(q.elements)
    /\ q.queueSize = Bytes(q.elements)

\* Only the head may have been sent in part, and something is left of it.
OnlyHeadIsFragmented(q) ==
    \A i \in 1..Len(q.elements) :
        LET e == q.elements[i] IN
            /\ 0 <= e.offset /\ e.offset < e.size
            /\ e.fragmentation <=> e.offset > 0
            /\ e.fragmentation => i = 1 /\ e.number > 0
=============================================================================
