-------------------------------- MODULE AmRlc --------------------------------
(***************************************************************************)
(* One radio bearer in acknowledged mode: the MAC queue, the AmRlcEntity   *)
(* of the sender, the bursts on the air and the AmRlcEntity of the         *)
(* receiver (protocolStack/rlc/am-rlc-entity.cpp).  An acknowledgement is  *)
(* an ideal control message: ReceptionProcedure calls the sender.          *)
(*                                                                         *)
(* The sender keeps an AmdRecord for each PDU that is not acknowledged.    *)
(* The size of a record's packet is kept beside its byte range because the *)
(* code changes one without the other: a segment cut off for a             *)
(* retransmission is stored with its MAC header and CRC.                   *)
(*                                                                         *)
(* Without HARQ one burst is on the air at a time (MaxInAir = 1).  Sources *)
(* with an infinite buffer are left out: they keep no record.              *)
(***************************************************************************)
EXTENDS MacQueue, FiniteSets, SequencesExt

CONSTANTS
    Sizes,          \* sizes of the packets applications send
    Grants,         \* bytes a scheduler grants in one TTI
    RetxTimer,      \* 10 in AmdRecord::AmdRecord
    MAX_AMD_RETX,   \* 5 in the code
    MaxPackets,     \* bound of the model
    MaxRetx,        \* bound of the model: no grant while a record was sent again more often
    MaxInAir        \* bursts on the air at a time

ASSUME AmRlcAssumption ==
    /\ Sizes \subseteq Nat \ {0} /\ Grants \subseteq Nat
    /\ RetxTimer \in Nat \ {0} /\ MAX_AMD_RETX \in Nat
    /\ MaxPackets \in Nat /\ MaxRetx \in Nat /\ MaxInAir \in Nat \ {0}

VARIABLES
    m_queue,
    m_vt_s,         \* the next sequence number
    m_sentAMDs,     \* records of the PDUs not acknowledged
    air,            \* bursts sent, neither received nor lost
    m_receivedAMDs, \* fragments the receiver keeps, sorted
    received,       \* ids passed to the sink, in order
    sizeOf,         \* history: the size of every packet, by id
    arrived,        \* history: the bytes of each packet that arrived
    dropped,        \* history: ids one end has given up
    overrun         \* history: ids a segment of which got bytes it does not have

vars == <<m_queue, m_vt_s, m_sentAMDs, air, m_receivedAMDs, received,
          sizeOf, arrived, dropped, overrun>>

Ids == 1..Len(sizeOf)

\* The timer of a record has passed zero; how far makes no difference.
TimerPassed == -1

Init ==
    /\ m_queue = EmptyQueue
    /\ m_vt_s = 0
    /\ m_sentAMDs = <<>>
    /\ air = <<>>
    /\ m_receivedAMDs = <<>>
    /\ received = <<>>
    /\ sizeOf = <<>>
    /\ arrived = <<>>
    /\ dropped = {}
    /\ overrun = {}

ApplicationSends(size) ==
    /\ Len(sizeOf) < MaxPackets
    /\ m_queue' = Enqueue(m_queue, Packet(Len(sizeOf) + 1, size))
    /\ sizeOf' = Append(sizeOf, size)
    /\ arrived' = Append(arrived, {})
    /\ UNCHANGED <<m_vt_s, m_sentAMDs, air, m_receivedAMDs, received, dropped, overrun>>

-----------------------------------------------------------------------------
(***************************************************************************)
(* TransmissionProcedure.  In the loops, s is a record: left, the bytes    *)
(* still available, burst, sent (m_sentAMDs), queue and sn; overrun is for *)
(* the history.                                                            *)
(***************************************************************************)

\* Headers a PDU gets on top of its record: MAC (3) and CRC (3).
MacAndCrc == 6

\* What goes on the air for a record.
OnAir(r) == [id |-> r.id, sn |-> r.sn, startByte |-> r.startByte, endByte |-> r.endByte,
             isFragment |-> r.isFragment, latest |-> r.latest, size |-> r.size + MacAndCrc]

\* The record fits: it is sent as it is.
SendAgain(s, i) ==
    LET r == s.sent[i]
    IN  [s EXCEPT !.sent[i].retx = @ + 1,
                  !.burst = Append(@, OnAir(r)),
                  !.left = @ - (r.size + MacAndCrc)]

\* Mutant: the rest of a segmented record is not kept.
Segment_LosesRest(s, i) ==
    LET r == s.sent[i]
        sentBytes == s.left - 7
        p1 == [r EXCEPT !.endByte = r.startByte + sentBytes - 1, !.isFragment = TRUE,
                        !.latest = FALSE, !.size = 2 + sentBytes,
                        !.retx = @ + 1, !.timer = RetxTimer]
    IN  [s EXCEPT !.sent[i] = p1, !.burst = Append(@, OnAir(p1)), !.left = 0]

\* Mutant: the RLC header is taken off the rest with each segment.
Segment_HeaderTwice(s, i) ==
    LET r == s.sent[i]
        sentBytes == s.left - 7
        p1 == [r EXCEPT !.endByte = r.startByte + sentBytes - 1, !.isFragment = TRUE,
                        !.latest = FALSE, !.size = 2 + sentBytes,
                        !.retx = @ + 1, !.timer = RetxTimer]
        p2 == [r EXCEPT !.startByte = @ + sentBytes, !.isFragment = TRUE,
                        !.size = @ - p1.size, !.retx = @ + 1]
    IN  [s EXCEPT !.sent = InsertAt([@ EXCEPT ![i] = p2], i,
                                    [p1 EXCEPT !.size = @ + MacAndCrc]),
                  !.burst = Append(@, OnAir(p1)), !.left = 0]

\* It does not fit: a segment p1 is cut off and sent, and becomes a record of
\* its own in front of the rest, p2.  p1 is stored with the headers it was
\* sent with.
Segment(s, i) ==
    LET r == s.sent[i]
        sentBytes == s.left - 7
        p1 == [r EXCEPT !.endByte = r.startByte + sentBytes - 1, !.isFragment = TRUE,
                        !.latest = FALSE, !.size = 2 + sentBytes,
                        !.retx = @ + 1, !.timer = RetxTimer]
        p2 == [r EXCEPT !.startByte = @ + sentBytes, !.isFragment = TRUE,
                        !.size = @ - sentBytes, !.retx = @ + 1]
    IN  [s EXCEPT !.sent = InsertAt([@ EXCEPT ![i] = p2], i,
                                    [p1 EXCEPT !.size = @ + MacAndCrc]),
                  !.burst = Append(@, OnAir(p1)),
                  !.left = 0,
                  !.overrun = IF p1.endByte > r.endByte THEN {r.id} ELSE {}]

\* One turn of step 1, for the i-th record.
Retransmit(s, i) ==
    IF s.left <= 0 \/ s.sent[i].timer # 0 THEN s
    ELSE IF s.sent[i].size + MacAndCrc <= s.left THEN SendAgain(s, i)
    ELSE IF s.left > 8 THEN Segment(s, i)
    ELSE [s EXCEPT !.left = 0]

Indices(seq) == [i \in 1..Len(seq) |-> i]

\* Step 1: the records whose timer is zero, as far as the grant reaches.
Retransmissions(grant) ==
    FoldLeft(Retransmit,
             [left |-> grant, burst |-> <<>>, sent |-> m_sentAMDs,
              queue |-> m_queue, sn |-> m_vt_s, overrun |-> {}],
             Indices(m_sentAMDs))

\* The record of a PDU of the queue.
AmdRecord(pdu, sn) ==
    [id |-> pdu.id, sn |-> sn, startByte |-> pdu.startByte, endByte |-> pdu.endByte,
     isFragment |-> pdu.isFragment, latest |-> pdu.latest,
     size |-> PduSize(pdu) - MacAndCrc, retx |-> 0, timer |-> RetxTimer]

\* One turn of step 2.
SendNew(s, i) ==
    IF ~HasPacketFor(s.queue, s.left) THEN s
    ELSE LET t == GetPacketToTramsit(s.queue, s.left)
             r == AmdRecord(t.pdu, s.sn)
         IN  [s EXCEPT !.queue = t.queue, !.left = @ - PduSize(t.pdu), !.sn = @ + 1,
                       !.burst = Append(@, OnAir(r)), !.sent = Append(@, r)]

\* The end of the procedure: every timer goes down, and a record that becomes
\* due for retransmission adds its size to the queue's counter.
Tick(s) ==
    [s EXCEPT
        !.sent = [i \in 1..Len(@) |-> [@[i] EXCEPT !.timer =
                    IF @ = TimerPassed THEN @ ELSE @ - 1]],
        !.queue.queueSize = @ + FoldLeft(
                LAMBDA acc, r : IF r.timer = 1 THEN acc + r.size ELSE acc, 0, s.sent)]

\* Step 2 is left out, and the timers with it, when step 1 used the grant up.
AfterRetransmissions(s, grant) ==
    IF s.left <= 0 THEN s
    ELSE Tick(FoldLeft(SendNew, s, [i \in 1..(grant \div Overhead) |-> i]))

\* It does not look at how often a record was sent: CheckForDropPackets does, which
\* a downlink scheduler calls first and a UE when it reports, not when it is granted.
TransmissionProcedure(grant) ==
    LET s == AfterRetransmissions(Retransmissions(grant), grant)
    IN  /\ m_sentAMDs # <<>> \/ m_queue.elements # <<>>
        /\ \A i \in 1..Len(m_sentAMDs) : m_sentAMDs[i].retx <= MaxRetx
        /\ Len(air) < MaxInAir
        /\ m_queue' = s.queue
        /\ m_vt_s' = s.sn
        /\ m_sentAMDs' = s.sent
        /\ air' = IF s.burst = <<>> THEN air
                  ELSE Append(air, [pdus |-> s.burst, grant |-> grant])
        /\ overrun' = overrun \cup s.overrun
        /\ UNCHANGED <<m_receivedAMDs, received, sizeOf, arrived, dropped>>

\* CheckForDropPackets of the queue and of the entity: the packets up to id
\* have expired (0: none), and records sent too often go too.
CheckForDrop(id) ==
    LET gone(r) == r.id <= id \/ r.retx > MAX_AMD_RETX
        n == Cardinality({i \in 1..Len(m_queue.elements) : m_queue.elements[i].id <= id})
    IN  /\ id = 0 => \E i \in 1..Len(m_sentAMDs) : gone(m_sentAMDs[i])
        /\ m_queue' = CheckForDropPackets(m_queue, n)
        /\ m_sentAMDs' = SelectSeq(m_sentAMDs, LAMBDA r : ~gone(r))
        /\ dropped' = dropped \cup 1..id
                \cup {m_sentAMDs[i].id : i \in {j \in 1..Len(m_sentAMDs) : gone(m_sentAMDs[j])}}
        /\ UNCHANGED <<m_vt_s, air, m_receivedAMDs, received, sizeOf, arrived, overrun>>

-----------------------------------------------------------------------------
(***************************************************************************)
(* ReceptionProcedure; s is a record: list (m_receivedAMDs), received,     *)
(* sent (m_sentAMDs of the other end, which is told), the packets up to    *)
(* expired are beyond their deadline, and gone is for the history.         *)
(***************************************************************************)

\* Mutant: every record with the number goes.
ReceiveArq_WholeNumber(sent, pdu) == SelectSeq(sent, LAMBDA r : r.sn # pdu.sn)

\* ReceiveArqRlcIdealControlMessage: the first record with this sequence
\* number and start byte goes.
ReceiveArq(sent, pdu) ==
    RemoveFirstMatch(sent, LAMBDA r : r.sn = pdu.sn /\ r.startByte = pdu.startByte)

\* Mutant: segments of one PDU stay in the order of their arrival.
InsertAMDIntoReceptionList_BySn(list, pdu) ==
    LET later == {i \in 1..Len(list) : pdu.sn < list[i].sn}
    IN  IF later = {} THEN Append(list, pdu)
        ELSE InsertAt(list, CHOOSE i \in later : \A j \in later : i <= j, pdu)

\* By sequence number, then by byte range.
InsertAMDIntoReceptionList(list, pdu) ==
    LET later == {i \in 1..Len(list) :
                    \/ pdu.sn < list[i].sn
                    \/ pdu.sn = list[i].sn /\ pdu.endByte < list[i].startByte}
    IN  IF later = {} THEN Append(list, pdu)
        ELSE InsertAt(list, CHOOSE i \in later : \A j \in later : i <= j, pdu)

\* Mutant: gaps between fragments are not noticed.
Walk_SkipsGaps(w, pdu) ==
    IF pdu.id # w.current
    THEN IF pdu.startByte = 0
         THEN [w EXCEPT !.current = pdu.id, !.expected = pdu.endByte + 1]
         ELSE [w EXCEPT !.expected = 0]
    ELSE IF pdu.latest THEN [w EXCEPT !.whole = Append(@, pdu.id), !.expected = 0]
    ELSE [w EXCEPT !.expected = pdu.endByte + 1]

\* The loop of ReceptionProcedureEnd over the sorted list: w is the packet it
\* is in, the byte that must come next, and the packets found whole.
Walk(w, pdu) ==
    IF pdu.id # w.current
    THEN IF pdu.startByte = 0
         THEN [w EXCEPT !.current = pdu.id, !.expected = pdu.endByte + 1]
         ELSE [w EXCEPT !.expected = 0]
    ELSE IF pdu.startByte # w.expected THEN w
    ELSE IF pdu.latest THEN [w EXCEPT !.whole = Append(@, pdu.id), !.expected = 0]
    ELSE [w EXCEPT !.expected = pdu.endByte + 1]

\* ReceptionProcedureEnd: whole packets are passed on, and what is left of those
\* beyond their deadline is deleted.
ReceptionProcedureEnd(s) ==
    LET w == FoldLeft(Walk, [current |-> 0, expected |-> 0, whole |-> <<>>], s.list)
        kept == SelectSeq(s.list, LAMBDA p : ~Contains(w.whole, p.id))
    IN  [s EXCEPT !.received = @ \o w.whole,
                  !.list = SelectSeq(kept, LAMBDA p : p.id > s.expired),
                  !.gone = @ \cup {id \in 1..s.expired : \E k \in 1..Len(kept) : kept[k].id = id}]

\* One PDU: it is acknowledged, passed on when it is no fragment, and
\* otherwise sorted in.
Receive(s, pdu) ==
    LET acked == [s EXCEPT !.sent = ReceiveArq(@, pdu)]
    IN  IF ~pdu.isFragment
        THEN [acked EXCEPT !.received = Append(@, pdu.id)]
        ELSE ReceptionProcedureEnd([acked EXCEPT !.list = InsertAMDIntoReceptionList(@, pdu)])

BytesOf(burst, id) ==
    UNION {burst[i].startByte..burst[i].endByte :
                i \in {j \in 1..Len(burst) : burst[j].id = id}}

\* The i-th burst is decoded, when the packets up to expired are beyond their
\* deadline (0: none of which a fragment is there).
ReceptionProcedure(i, expired) ==
    LET burst == air[i].pdus
        s == FoldLeft(Receive, [list |-> m_receivedAMDs, received |-> received,
                                sent |-> m_sentAMDs, expired |-> expired, gone |-> {}], burst)
    IN  /\ expired > 0 => expired \in s.gone
        /\ m_receivedAMDs' = s.list
        /\ received' = s.received
        /\ m_sentAMDs' = s.sent
        /\ arrived' = [id \in Ids |-> arrived[id] \cup BytesOf(burst, id)]
        /\ air' = RemoveAt(air, i)
        /\ dropped' = dropped \cup s.gone
        /\ UNCHANGED <<m_queue, m_vt_s, sizeOf, overrun>>

\* The i-th burst is not decoded, and not sent again by HARQ.
Lose(i) ==
    /\ air' = RemoveAt(air, i)
    /\ UNCHANGED <<m_queue, m_vt_s, m_sentAMDs, m_receivedAMDs, received,
                   sizeOf, arrived, dropped, overrun>>

Next ==
    \/ \E size \in Sizes : ApplicationSends(size)
    \/ \E grant \in Grants : TransmissionProcedure(grant)
    \/ \E id \in 0..Len(sizeOf) : CheckForDrop(id)
    \/ \E i \in 1..Len(air) :
        Lose(i) \/ \E expired \in 0..Len(sizeOf) : ReceptionProcedure(i, expired)

Spec == Init /\ [][Next]_vars

-----------------------------------------------------------------------------
(***************************************************************************)
(* Properties                                                              *)
(***************************************************************************)

\* The shape of the state.
TypeOK ==
    /\ m_vt_s \in Nat
    /\ \A i \in 1..Len(m_sentAMDs) :
        LET r == m_sentAMDs[i] IN
            /\ r.id \in Ids /\ r.sn \in 0..(m_vt_s - 1) /\ r.startByte \in Nat
            /\ r.size > 0 /\ r.retx \in 0..(MaxRetx + 1)
            /\ r.timer \in TimerPassed..RetxTimer
    /\ \A i \in 1..Len(m_receivedAMDs) : m_receivedAMDs[i].isFragment
    /\ \A i \in 1..Len(received) : received[i] \in Ids
    /\ dropped \subseteq Ids /\ overrun \subseteq Ids

\* Nothing is forgotten: a byte of a packet that neither end has given up
\* waits in the queue, is in a record that is not acknowledged, or arrived.
NoByteForgotten ==
    \A id \in Ids \ dropped : \A b \in 0..(sizeOf[id] - 1) :
        \/ b \in arrived[id]
        \/ \E i \in 1..Len(m_queue.elements) :
            m_queue.elements[i].id = id /\ m_queue.elements[i].offset <= b
        \/ \E i \in 1..Len(m_sentAMDs) :
            /\ m_sentAMDs[i].id = id
            /\ b \in m_sentAMDs[i].startByte..m_sentAMDs[i].endByte

\* A packet is passed on only if every byte of it has arrived.
OnlyWholePackets ==
    \A i \in 1..Len(received) : 0..(sizeOf[received[i]] - 1) \subseteq arrived[received[i]]

\* Without HARQ no packet is passed on twice, whatever is retransmitted.
DeliveredOnce == \A i, j \in 1..Len(received) : received[i] = received[j] => i = j

\* What the sink is promised, however often PDUs are sent again and cut.
DeliveredWholeOnce == OnlyWholePackets /\ DeliveredOnce

\* A packet of which every byte has been acknowledged, so that the sender will
\* send nothing of it again, has been passed on, or given up; unless a segment
\* was cut beyond its last byte.
AcknowledgedIsDelivered ==
    \A id \in Ids \ (dropped \cup overrun) :
        \/ \E i \in 1..Len(m_queue.elements) : m_queue.elements[i].id = id
        \/ \E i \in 1..Len(m_sentAMDs) : m_sentAMDs[i].id = id
        \/ Contains(received, id)

\* A record loses the timer that makes it due only after it was sent again:
\* every PDU that is lost gets one retransmission at least.
SentAgainOnce ==
    \A i \in 1..Len(m_sentAMDs) :
        m_sentAMDs[i].timer = TimerPassed => m_sentAMDs[i].retx > 0

\* What acknowledged mode is for: no byte is lost without being sent again, and
\* what the sender forgets the receiver has passed on.
NothingLost == NoByteForgotten /\ AcknowledgedIsDelivered /\ SentAgainOnce

\* The list the walk of ReceptionProcedureEnd relies on: fragments are sorted
\* by sequence number, and those of one PDU by their bytes.
ReceptionListSorted ==
    \A i, j \in 1..Len(m_receivedAMDs) :
        LET p == m_receivedAMDs[i]
            q == m_receivedAMDs[j]
        IN  i < j /\ p.id \notin overrun
                => p.sn < q.sn \/ (p.sn = q.sn /\ p.endByte < q.startByte)

\* The walk over the sorted list passes on whole packets, each once.
ReassembledOnce == ReceptionListSorted /\ DeliveredWholeOnce

\* A burst takes at most one byte more than the scheduler granted, however PDUs
\* are sent again, segmented and followed by new ones: the byte that the cut of
\* a retransmitted segment does not count.
GrantExceededByOne ==
    \A i \in 1..Len(air) :
        FoldLeft(LAMBDA acc, p : acc + p.size, 0, air[i].pdus) <= air[i].grant + 1

\* The sizes of records and bursts, cut and cut again.
SizesKept == TypeOK /\ GrantExceededByOne
=============================================================================
