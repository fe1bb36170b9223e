---------------------------- MODULE UmRlc_proofs ----------------------------
(***************************************************************************)
(* Proofs about a bearer in unacknowledged mode, for any packets, grants   *)
(* and losses and any number of bursts that overtake each other.           *)
(*                                                                         *)
(* The invariant speaks of pairs of PDUs: of two PDUs of a packet one was  *)
(* cut before the other, and the next byte follows exactly where the next  *)
(* number does.  A queue has gone on from every PDU that was cut from it.  *)
(* The receiver counts fragments: pairs that are apart and a count that is *)
(* right leave no byte out.                                                *)
(*                                                                         *)
(* The last part shows that a bearer implements PacketService, in which    *)
(* there are no bytes.                                                     *)
(***************************************************************************)
EXTENDS UmRlc, DataStructures_proofs, FiniteSetTheorems

-----------------------------------------------------------------------------
(***************************************************************************)
(* The size of a burst                                                     *)
(***************************************************************************)

\* The size of a PDU is a natural number when it has a byte.
LEMMA PduSizeIs ==
    ASSUME NEW p \in Pdus
    PROVE  PduSize(p) \in Int
BY DEF Pdus, PduSize, Overhead

\* The function f holds the sizes of the first PDUs together.
Measures(f, b) ==
    /\ f \in [0..Len(b) -> Int]
    /\ f[0] = 0
    /\ \A j \in 1..Len(b) : f[j] = f[j - 1] + PduSize(b[j])

\* The recursion behind BurstSize.
LEMMA BurstSizeRecursion ==
    ASSUME NEW b \in Seq(Pdus)
    PROVE  \E f : Measures(f, b) /\ BurstSize(b) = f[Len(b)]
<1> DEFINE Eq(g) == g = [j \in 0..Len(b) |->
                            IF j = 0 THEN 0 ELSE g[j - 1] + PduSize(b[j])]
           step == [j \in 1..Len(b) |-> [x \in Int |-> x + PduSize(b[j])]]
<1>1. \A j \in 1..Len(b) : PduSize(b[j]) \in Int
  BY PduSizeIs
<1>2. PICK f \in [0..Len(b) -> Int] : Iterates(f, 0, step, Len(b))
  <2>1. step \in [1..Len(b) -> [Int -> Int]]
    BY <1>1
  <2>2. Len(b) \in Nat /\ 0 \in Int
    OBVIOUS
  <2> HIDE DEF step
  <2> QED
    BY <2>1, <2>2, Recursion
<1>3. Eq(f)
  <2>1. f = [j \in 0..Len(b) |-> f[j]]
    OBVIOUS
  <2>2. ASSUME NEW j \in 1..Len(b)
        PROVE  f[j] = f[j - 1] + PduSize(b[j])
    <3>1. f[j - 1] \in Int
      OBVIOUS
    <3>2. f[j] = step[j][f[j - 1]]
      BY <1>2 DEF Iterates
    <3> QED
      BY <3>1, <3>2
  <2>3. f[0] = 0
    BY <1>2 DEF Iterates
  <2>4. \A j \in 0..Len(b) : f[j] = IF j = 0 THEN 0 ELSE f[j - 1] + PduSize(b[j])
    BY <2>2, <2>3
  <2> QED
    BY <2>1, <2>4
<1>4. PICK g : g = CHOOSE h : Eq(h)
  OBVIOUS
<1>5. Eq(g)
  <2> HIDE DEF Eq
  <2> QED
    BY <1>3, <1>4
<1>6. BurstSize(b) = g[Len(b)]
  BY <1>4 DEF BurstSize
<1>7. Len(b) \in Nat /\ g[0] = 0
      /\ \A j \in 1..Len(b) : g[j] = g[j - 1] + PduSize(b[j])
  BY <1>5
<1>8. \A j \in 0..Len(b) : g[j] \in Int
  <2>1. \A j \in 1..Len(b) : g[j - 1] \in Int => g[j] \in Int
    BY <1>1, <1>7
  <2>2. g[0] \in Int
    BY <1>7
  <2> HIDE DEF Eq, step
  <2> QED
    BY <1>7, <2>1, <2>2, Along
<1>9. g \in [0..Len(b) -> Int]
  BY <1>5, <1>8
<1> QED
  BY <1>6, <1>7, <1>9 DEF Measures

\* A PDU that is appended adds its size.
LEMMA BurstSizeAppend ==
    ASSUME NEW b \in Seq(Pdus), NEW p \in Pdus
    PROVE  /\ BurstSize(b) \in Int
           /\ BurstSize(Append(b, p)) = BurstSize(b) + PduSize(p)
<1>1. PICK f : Measures(f, b) /\ BurstSize(b) = f[Len(b)]
  BY BurstSizeRecursion
<1>2. PICK c \in Seq(Pdus) : c = Append(b, p)
  <2>1. Append(b, p) \in Seq(Pdus)
    OBVIOUS
  <2> QED
    BY <2>1
<1>3. PICK g : Measures(g, c) /\ BurstSize(c) = g[Len(c)]
  BY BurstSizeRecursion
<1>4. /\ Len(b) \in Nat /\ Len(c) = Len(b) + 1 /\ c[Len(b) + 1] = p
      /\ \A j \in 1..Len(b) : c[j] = b[j]
  BY <1>2
<1>5. \A j \in 0..Len(b) : g[j] = f[j]
  <2> DEFINE S == {j \in 0..Len(b) : g[j] = f[j]}
             k == [j \in 0..Len(b) |-> j]
  <2>1. k[0] \in S
    BY <1>1, <1>3, <1>4 DEF Measures
  <2>2. ASSUME NEW j \in 1..Len(b), k[j - 1] \in S
        PROVE  k[j] \in S
    <3>1. g[j - 1] = f[j - 1]
      BY <2>2
    <3>2. g[j] = g[j - 1] + PduSize(c[j]) /\ c[j] = b[j]
      BY <1>3, <1>4 DEF Measures
    <3>3. f[j] = f[j - 1] + PduSize(b[j])
      BY <1>1 DEF Measures
    <3> QED
      BY <3>1, <3>2, <3>3
  <2>3. \A j \in 0..Len(b) : k[j] \in S
    <3> HIDE DEF S, k
    <3> QED
      BY <1>4, <2>1, <2>2, Along
  <2> QED
    BY <2>3
<1>6. g[Len(b) + 1] = g[Len(b)] + PduSize(p)
  <2>1. Len(b) + 1 \in 1..Len(c) /\ (Len(b) + 1) - 1 = Len(b)
    BY <1>4
  <2>2. g[Len(b) + 1] = g[(Len(b) + 1) - 1] + PduSize(c[Len(b) + 1])
    BY <1>3, <2>1 DEF Measures
  <2> QED
    BY <1>4, <2>1, <2>2
<1>7. f[Len(b)] \in Int /\ g[Len(b)] = f[Len(b)]
  BY <1>1, <1>4, <1>5 DEF Measures
<1> QED
  BY <1>1, <1>2, <1>3, <1>4, <1>6, <1>7

\* An empty burst has no bytes.
LEMMA BurstSizeEmpty == BurstSize(<<>>) = 0
<1>1. PICK b \in Seq(Pdus) : b = <<>>
  <2>1. <<>> \in Seq(Pdus)
    OBVIOUS
  <2> QED
    BY <2>1
<1>2. PICK f : Measures(f, b) /\ BurstSize(b) = f[Len(b)]
  BY BurstSizeRecursion
<1> QED
  BY <1>1, <1>2 DEF Measures

-----------------------------------------------------------------------------
(***************************************************************************)
(* What is cut from the queue                                              *)
(***************************************************************************)

\* The sizes of the packets so far.
PacketSizes == Seq(Nat \ {0})

\* The queue holds the last packets, in their order.
QueueRight(q, sz) ==
    /\ q \in Queues
    /\ Len(q.elements) <= Len(sz)
    /\ \A i \in 1..Len(q.elements) :
        /\ q.elements[i].id = Len(sz) - Len(q.elements) + i
        /\ q.elements[i].size = sz[q.elements[i].id]
        /\ q.elements[i].offset = 0 => q.elements[i].number = 0

\* The id of the head, or of the next packet.
FirstId(q, sz) == Len(sz) - Len(q.elements) + 1

\* A PDU is a range of the bytes of its packet.
PduRight(p, sz) ==
    /\ p \in Pdus /\ p.id \in 1..Len(sz)
    /\ p.startByte <= p.endByte /\ p.endByte < sz[p.id]
    /\ p.latest <=> p.endByte = sz[p.id] - 1
    /\ p.startByte = 0 <=> p.number = 0
    /\ p.isFragment <=> ~ (p.latest /\ p.startByte = 0)

\* The queue has gone on from a PDU: its packet has left, or more of it is cut.
GoneOn(p, q, sz) ==
    \/ p.id < FirstId(q, sz)
    \/ /\ q.elements # <<>> /\ p.id = q.elements[1].id
       /\ p.endByte < q.elements[1].offset /\ p.number < q.elements[1].number
       /\ p.endByte + 1 = q.elements[1].offset <=> p.number + 1 = q.elements[1].number

\* The PDU p of a packet was cut before r, and is next to it exactly if the numbers are.
Earlier(p, r) ==
    /\ p.endByte < r.startByte /\ p.number < r.number
    /\ p.endByte + 1 = r.startByte <=> p.number + 1 = r.number

Precedes(p, r) == p.id < r.id \/ (p.id = r.id /\ Earlier(p, r))

Apart(p, r) == p.id = r.id => Earlier(p, r) \/ Earlier(r, p)

\* The PDU that is taken from the queue is a range of its packet that follows all that was
\* taken before, and the queue goes on from all of them.
LEMMA TakenIs ==
    ASSUME NEW sz \in PacketSizes, NEW q, QueueRight(q, sz),
           NEW left \in Nat, HasPacketFor(q, left), NEW t,
           t = GetPacketToTramsit(q, left)
    PROVE  /\ QueueRight(t.queue, sz)
           /\ PduRight(t.pdu, sz)
           /\ PduSize(t.pdu) <= left
           /\ GoneOn(t.pdu, t.queue, sz)
           /\ FirstId(q, sz) <= t.pdu.id /\ FirstId(q, sz) <= FirstId(t.queue, sz)
           /\ \A r \in Pdus : GoneOn(r, q, sz) =>
                  Precedes(r, t.pdu) /\ GoneOn(r, t.queue, sz)
<1>1. q \in Queues /\ q.elements # <<>> /\ left > Overhead
  BY DEF QueueRight, HasPacketFor
<1>2. PICK fs \in Seq(Elements) : fs = q.elements
  BY <1>1, QueueHas
<1>3. /\ fs # <<>> /\ Len(fs) \in Nat /\ Len(fs) > 0 /\ fs[1] \in Elements
      /\ Head(fs) = fs[1]
  BY <1>1, <1>2
<1>4. PICK e \in Elements : e = fs[1]
  BY <1>3
<1>5. /\ e.id \in Nat /\ e.size \in Nat /\ e.offset \in Nat /\ e.number \in Nat
      /\ e.offset < e.size /\ e.fragmentation \in BOOLEAN
      /\ e = [id |-> e.id, size |-> e.size, offset |-> e.offset, number |-> e.number,
              fragmentation |-> e.fragmentation]
  BY DEF Elements
<1>6. PICK n \in Nat, m \in Nat : n = Len(sz) /\ m = Len(fs) /\ m <= n /\ m > 0
  <2>1. Len(sz) \in Nat
    BY DEF PacketSizes
  <2> QED
    BY <1>2, <1>3, <2>1 DEF QueueRight
<1>7. /\ e.id = n - m + 1 /\ e.id \in 1..n /\ e.size = sz[e.id]
      /\ e.offset = 0 => e.number = 0
  <2>1. 1 \in 1..m
    BY <1>6
  <2>2. /\ fs[1].id = n - m + 1 /\ fs[1].size = sz[fs[1].id]
        /\ fs[1].offset = 0 => fs[1].number = 0
    BY <1>2, <1>6, <2>1 DEF QueueRight
  <2> QED
    BY <1>4, <1>6, <2>2
<1>8. /\ e.fragmentation <=> e.offset > 0
      /\ e.offset > 0 => e.number > 0
  <2>1. Marked(fs[1], 1)
    BY <1>1, <1>2, <1>3, QueueHas
  <2> QED
    BY <1>4, <2>1 DEF Marked
<1>9. FirstId(q, sz) = e.id
  BY <1>2, <1>6, <1>7 DEF FirstId
<1>10. ASSUME NEW r \in Pdus, GoneOn(r, q, sz)
       PROVE  \/ r.id < e.id
              \/ /\ r.id = e.id /\ r.endByte < e.offset /\ r.number < e.number
                 /\ r.endByte + 1 = e.offset <=> r.number + 1 = e.number
  BY <1>2, <1>4, <1>9, <1>10 DEF GoneOn
<1>11. CASE Remaining(Head(q.elements)) + Overhead > left
  <2>1. t = Fragment(q, left)
    BY <1>11 DEF GetPacketToTramsit
  <2>2. /\ Fragment(q, left).queue \in Queues
        /\ Fragment(q, left).pdu \in Pdus
        /\ PduSize(Fragment(q, left).pdu) = left
    BY <1>1, <1>11, FragmentIs
  <2>3. PICK sent \in Nat : sent = left - Overhead /\ sent > 0
    BY <1>1 DEF Overhead
  <2>4. e.offset + sent < e.size
    <3>1. Remaining(e) + Overhead > left
      BY <1>2, <1>3, <1>4, <1>11
    <3> QED
      BY <1>5, <2>3, <3>1 DEF Remaining, Overhead
  <2>5. PICK d : d = [e EXCEPT !.offset = @ + sent, !.number = @ + 1, !.fragmentation = TRUE]
    OBVIOUS
  <2>6. d = [id |-> e.id, size |-> e.size, offset |-> e.offset + sent,
             number |-> e.number + 1, fragmentation |-> TRUE]
    BY <1>5, <2>5
  <2>7. PICK p : p = t.pdu
    OBVIOUS
  <2>8. p = [id |-> e.id, startByte |-> e.offset, endByte |-> e.offset + sent - 1,
             number |-> e.number, isFragment |-> TRUE, latest |-> FALSE]
    BY <1>2, <1>3, <1>4, <2>1, <2>3, <2>7 DEF Fragment, Pdu
  <2>9. PICK es : es = [fs EXCEPT ![1] = d]
    OBVIOUS
  <2>10. t.queue.elements = es
    BY <1>2, <1>3, <1>4, <2>1, <2>3, <2>5, <2>9 DEF Fragment
  <2>11. /\ Len(es) = m /\ es[1] = d /\ es # <<>>
         /\ \A i \in 1..m : i # 1 => es[i] = fs[i]
    BY <1>2, <1>3, <1>6, <2>9
  <2>12. QueueRight(t.queue, sz)
    <3>1. ASSUME NEW i \in 1..m
          PROVE  /\ es[i].id = n - m + i
                 /\ es[i].size = sz[es[i].id]
                 /\ es[i].offset = 0 => es[i].number = 0
      <4>1. CASE i = 1
        <5>1. d.id = n - m + 1 /\ d.size = sz[d.id] /\ d.offset # 0
          BY <1>5, <1>7, <2>3, <2>6
        <5> QED
          BY <2>11, <4>1, <5>1
      <4>2. CASE i # 1
        <5>1. /\ fs[i].id = n - m + i /\ fs[i].size = sz[fs[i].id]
              /\ fs[i].offset = 0 => fs[i].number = 0
          BY <1>2, <1>6 DEF QueueRight
        <5> QED
          BY <2>11, <4>2, <5>1
      <4> QED
        BY <4>1, <4>2
    <3> QED
      BY <1>6, <2>1, <2>2, <2>10, <2>11, <3>1 DEF QueueRight
  <2>13. FirstId(t.queue, sz) = e.id
    BY <1>6, <1>7, <2>10, <2>11 DEF FirstId
  <2>14. PduRight(p, sz)
    <3>1. p \in Pdus /\ p.id \in 1..Len(sz)
      BY <1>6, <1>7, <2>1, <2>2, <2>7, <2>8
    <3>2. p.startByte <= p.endByte /\ p.endByte < sz[p.id] /\ p.endByte # sz[p.id] - 1
      BY <1>5, <1>7, <2>3, <2>4, <2>8
    <3>3. p.startByte = 0 <=> p.number = 0
      BY <1>5, <1>7, <1>8, <2>8
    <3>4. p.latest = FALSE /\ p.isFragment = TRUE
      BY <2>8
    <3> QED
      BY <3>1, <3>2, <3>3, <3>4 DEF PduRight
  <2>15. PduSize(t.pdu) <= left
    BY <2>1, <2>2
  <2>16. GoneOn(p, t.queue, sz)
    <3>1. /\ p.id = d.id /\ p.endByte < d.offset /\ p.number < d.number
          /\ p.endByte + 1 = d.offset /\ p.number + 1 = d.number
      BY <1>5, <2>3, <2>6, <2>8
    <3> QED
      BY <2>10, <2>11, <3>1 DEF GoneOn
  <2>17. ASSUME NEW r \in Pdus, GoneOn(r, q, sz)
         PROVE  Precedes(r, p) /\ GoneOn(r, t.queue, sz)
    <3>1. CASE r.id < e.id
      BY <2>8, <2>13, <3>1 DEF Precedes, GoneOn
    <3>2. CASE /\ r.id = e.id /\ r.endByte < e.offset /\ r.number < e.number
               /\ r.endByte + 1 = e.offset <=> r.number + 1 = e.number
      <4>1. Precedes(r, p)
        BY <2>8, <3>2 DEF Precedes, Earlier
      <4>2. /\ r.id = d.id /\ r.endByte < d.offset /\ r.number < d.number
            /\ r.endByte + 1 # d.offset /\ r.number + 1 # d.number
        <5>1. r.endByte \in Nat /\ r.number \in Nat
          BY DEF Pdus
        <5>2. PICK f \in Nat, c \in Nat, u \in Nat, v \in Nat :
                  f = e.offset /\ c = e.number /\ u = r.endByte /\ v = r.number
          BY <1>5, <5>1
        <5>3. d.id = e.id /\ d.offset = f + sent /\ d.number = c + 1
          BY <2>6, <5>2
        <5>4. r.id = e.id /\ u < f /\ v < c
          BY <3>2, <5>2
        <5>5. u < f + sent /\ u + 1 # f + sent /\ v < c + 1 /\ v + 1 # c + 1
          BY <2>3, <5>4
        <5> QED
          BY <5>2, <5>3, <5>4, <5>5
      <4> QED
        BY <2>10, <2>11, <4>1, <4>2 DEF GoneOn
    <3> QED
      BY <1>10, <2>17, <3>1, <3>2
  <2>18. FirstId(q, sz) <= p.id /\ FirstId(q, sz) <= FirstId(t.queue, sz)
    BY <1>5, <1>9, <2>8, <2>13
  <2> QED
    BY <2>7, <2>12, <2>14, <2>15, <2>16, <2>17, <2>18
<1>12. CASE ~ (Remaining(Head(q.elements)) + Overhead > left)
  <2>1. t = Whole(q)
    BY <1>12 DEF GetPacketToTramsit
  <2>2. /\ Whole(q).queue \in Queues
        /\ Whole(q).pdu \in Pdus
        /\ PduSize(Whole(q).pdu) = Remaining(Head(q.elements)) + Overhead
    BY <1>1, WholeIs
  <2>3. PICK p : p = t.pdu
    OBVIOUS
  <2>4. p = [id |-> e.id, startByte |-> e.offset, endByte |-> e.size - 1,
             number |-> e.number, isFragment |-> e.fragmentation, latest |-> TRUE]
    BY <1>2, <1>3, <1>4, <2>1, <2>3 DEF Whole, Pdu
  <2>5. PICK es \in Seq(Elements) : es = Tail(fs)
    <3>1. Tail(fs) \in Seq(Elements)
      BY <1>3
    <3> QED
      BY <3>1
  <2>6. t.queue.elements = es
    BY <1>2, <2>1, <2>5 DEF Whole
  <2>7. Len(es) = m - 1 /\ \A i \in 1..(m - 1) : es[i] = fs[i + 1]
    BY <1>3, <1>6, <2>5
  <2>8. QueueRight(t.queue, sz)
    <3>1. ASSUME NEW i \in 1..(m - 1)
          PROVE  /\ es[i].id = n - (m - 1) + i
                 /\ es[i].size = sz[es[i].id]
                 /\ es[i].offset = 0 => es[i].number = 0
      <4>1. i + 1 \in 1..m
        BY <1>6
      <4>2. /\ fs[i + 1].id = n - m + (i + 1) /\ fs[i + 1].size = sz[fs[i + 1].id]
            /\ fs[i + 1].offset = 0 => fs[i + 1].number = 0
        BY <1>2, <1>6, <4>1 DEF QueueRight
      <4>3. n - m + (i + 1) = n - (m - 1) + i
        BY <1>6
      <4> QED
        BY <2>7, <4>2, <4>3
    <3>2. m - 1 <= n
      BY <1>6
    <3> QED
      BY <1>6, <2>1, <2>2, <2>6, <2>7, <3>1, <3>2 DEF QueueRight
  <2>9. FirstId(t.queue, sz) = e.id + 1
    BY <1>6, <1>7, <2>6, <2>7 DEF FirstId
  <2>10. PduRight(p, sz)
    <3>1. p \in Pdus /\ p.id \in 1..Len(sz)
      BY <1>6, <1>7, <2>1, <2>2, <2>3, <2>4
    <3>2. p.startByte <= p.endByte /\ p.endByte < sz[p.id] /\ p.endByte = sz[p.id] - 1
      BY <1>5, <1>7, <2>4
    <3>3. p.startByte = 0 <=> p.number = 0
      BY <1>5, <1>7, <1>8, <2>4
    <3>4. p.latest = TRUE
      BY <2>4
    <3>5. p.isFragment <=> ~ (p.startByte = 0)
      BY <1>5, <1>8, <2>4
    <3> QED
      BY <3>1, <3>2, <3>3, <3>4, <3>5 DEF PduRight
  <2>11. PduSize(t.pdu) <= left
    <3>1. Remaining(e) \in Nat
      BY RemainingIs
    <3>2. PduSize(t.pdu) = Remaining(e) + Overhead
      BY <1>2, <1>3, <1>4, <2>1, <2>2
    <3> QED
      BY <1>2, <1>3, <1>4, <1>12, <3>1, <3>2 DEF Overhead
  <2>12. GoneOn(p, t.queue, sz)
    BY <1>5, <2>4, <2>9 DEF GoneOn
  <2>13. ASSUME NEW r \in Pdus, GoneOn(r, q, sz)
         PROVE  Precedes(r, p) /\ GoneOn(r, t.queue, sz)
    <3>0. r.id \in Nat
      BY DEF Pdus
    <3>1. CASE r.id < e.id
      <4>1. r.id < e.id + 1
        BY <1>5, <3>0, <3>1
      <4> QED
        BY <2>4, <2>9, <3>1, <4>1 DEF Precedes, GoneOn
    <3>2. CASE /\ r.id = e.id /\ r.endByte < e.offset /\ r.number < e.number
               /\ r.endByte + 1 = e.offset <=> r.number + 1 = e.number
      <4>1. Precedes(r, p)
        BY <2>4, <3>2 DEF Precedes, Earlier
      <4>2. r.id < e.id + 1
        BY <1>5, <3>2
      <4> QED
        BY <2>9, <4>1, <4>2 DEF GoneOn
    <3> QED
      BY <1>10, <2>13, <3>1, <3>2
  <2>14. FirstId(q, sz) <= p.id /\ FirstId(q, sz) <= FirstId(t.queue, sz)
    BY <1>5, <1>9, <2>4, <2>9
  <2> QED
    BY <2>3, <2>8, <2>10, <2>11, <2>12, <2>13, <2>14
<1> QED
  BY <1>11, <1>12

\* What the loop of TransmissionProcedure has done with the queue q0.
Filling(s, q0, grant, sz) ==
    /\ s \in Bursts
    /\ QueueRight(s.queue, sz)
    /\ BurstSize(s.burst) + s.left <= grant
    /\ FirstId(q0, sz) <= FirstId(s.queue, sz)
    /\ \A j \in 1..Len(s.burst) :
        /\ PduRight(s.burst[j], sz) /\ GoneOn(s.burst[j], s.queue, sz)
        /\ FirstId(q0, sz) <= s.burst[j].id
        /\ \A l \in 1..Len(s.burst) : j < l => Precedes(s.burst[j], s.burst[l])
    /\ \A r \in Pdus : GoneOn(r, q0, sz) =>
            /\ GoneOn(r, s.queue, sz)
            /\ \A j \in 1..Len(s.burst) : Precedes(r, s.burst[j])

\* A turn keeps it.
LEMMA TurnFills ==
    ASSUME NEW sz \in PacketSizes, NEW q0, NEW grant \in Nat, NEW s, Filling(s, q0, grant, sz),
           FirstId(q0, sz) \in Int
    PROVE  Filling(Turn(s), q0, grant, sz)
<1>1. CASE ~ HasPacketFor(s.queue, s.left)
  BY <1>1 DEF Turn
<1>2. CASE HasPacketFor(s.queue, s.left)
  <2>1. PICK b \in Seq(Pdus), q \in Queues, left \in Nat :
            s.burst = b /\ s.queue = q /\ s.left = left
    BY DEF Filling, Bursts
  <2>2. PICK t : t = GetPacketToTramsit(q, left)
    OBVIOUS
  <2>3. QueueRight(q, sz) /\ HasPacketFor(q, left)
    BY <1>2, <2>1 DEF Filling
  <2>4. PICK p \in Pdus : p = t.pdu /\ PduRight(p, sz)
    <3>1. PduRight(t.pdu, sz)
      BY <2>2, <2>3, TakenIs
    <3> QED
      BY <3>1 DEF PduRight
  <2>5. PICK q1 : q1 = t.queue
    OBVIOUS
  <2>6. /\ QueueRight(q1, sz) /\ PduSize(p) <= left
        /\ GoneOn(p, q1, sz)
        /\ FirstId(q, sz) <= p.id /\ FirstId(q, sz) <= FirstId(q1, sz)
        /\ \A r \in Pdus : GoneOn(r, q, sz) => Precedes(r, p) /\ GoneOn(r, q1, sz)
    BY <2>2, <2>3, <2>4, <2>5, TakenIs
  <2>7. PICK c \in Seq(Pdus) : c = Append(b, p)
    <3>1. Append(b, p) \in Seq(Pdus)
      BY <2>1, <2>4
    <3> QED
      BY <3>1
  <2>8. /\ Len(b) \in Nat /\ Len(c) = Len(b) + 1 /\ c[Len(b) + 1] = p
        /\ \A j \in 1..Len(b) : c[j] = b[j]
        /\ \A j \in 1..Len(c) : j \in 1..Len(b) \/ j = Len(b) + 1
    BY <2>1, <2>4, <2>7
  <2>9. PICK size \in Int : size = PduSize(p) /\ left - size \in Nat
    <3>1. PduSize(p) \in Int
      BY <2>4, PduSizeIs
    <3> QED
      BY <2>1, <2>6, <3>1
  <2>10. Turn(s) = [queue |-> q1, left |-> left - size, burst |-> c]
    BY <1>2, <2>1, <2>2, <2>4, <2>5, <2>7, <2>9 DEF Turn
  <2>11. q1 \in Queues
    BY <2>6 DEF QueueRight
  <2>12. BurstSize(c) + (left - size) <= grant
    <3>1. BurstSize(b) \in Int /\ BurstSize(c) = BurstSize(b) + size
      BY <2>1, <2>4, <2>7, <2>9, BurstSizeAppend
    <3>2. BurstSize(b) + left <= grant
      BY <2>1 DEF Filling
    <3> QED
      BY <2>1, <2>9, <3>1, <3>2
  <2>13. /\ FirstId(q0, sz) <= FirstId(q1, sz)
         /\ FirstId(q0, sz) <= p.id
    <3>1. FirstId(q0, sz) <= FirstId(q, sz)
      BY <2>1 DEF Filling
    <3>2. FirstId(q, sz) \in Int /\ FirstId(q1, sz) \in Int
      <4>1. /\ q.elements \in Seq(Elements) /\ q1.elements \in Seq(Elements)
            /\ Len(sz) \in Nat
        BY <2>1, <2>11, QueueHas DEF PacketSizes
      <4>2. Len(q.elements) \in Nat /\ Len(q1.elements) \in Nat
        BY <4>1
      <4> QED
        BY <4>1, <4>2 DEF FirstId
    <3>3. p.id \in Nat
      BY <2>4 DEF Pdus
    <3> QED
      BY <2>6, <3>1, <3>2, <3>3
  <2>14. ASSUME NEW j \in 1..Len(c)
         PROVE  /\ PduRight(c[j], sz) /\ GoneOn(c[j], q1, sz)
                /\ FirstId(q0, sz) <= c[j].id
                /\ \A l \in 1..Len(c) : j < l => Precedes(c[j], c[l])
    <3>1. CASE j \in 1..Len(b)
      <4>1. /\ c[j] = b[j] /\ c[j] \in Pdus
            /\ PduRight(b[j], sz) /\ GoneOn(b[j], q, sz)
            /\ FirstId(q0, sz) <= b[j].id
            /\ \A l \in 1..Len(b) : j < l => Precedes(b[j], b[l])
        BY <2>1, <2>7, <2>8, <3>1 DEF Filling
      <4>2. Precedes(c[j], p) /\ GoneOn(c[j], q1, sz)
        BY <2>6, <4>1
      <4> QED
        BY <2>8, <4>1, <4>2
    <3>2. CASE j = Len(b) + 1
      BY <2>4, <2>6, <2>8, <2>13, <3>2
    <3> QED
      BY <2>8, <3>1, <3>2
  <2>15. ASSUME NEW r \in Pdus, GoneOn(r, q0, sz)
         PROVE  /\ GoneOn(r, q1, sz)
                /\ \A j \in 1..Len(c) : Precedes(r, c[j])
    <3>1. GoneOn(r, q, sz) /\ \A j \in 1..Len(b) : Precedes(r, b[j])
      BY <2>1, <2>15 DEF Filling
    <3> QED
      BY <2>6, <2>8, <3>1
  <2>16. Turn(s) \in Bursts
    BY <2>7, <2>9, <2>10, <2>11 DEF Bursts
  <2> QED
    BY <2>6, <2>10, <2>12, <2>13, <2>14, <2>15, <2>16 DEF Filling
<1> QED
  BY <1>1, <1>2

\* What FillBurst makes of a queue and a grant.
LEMMA FillBurstFills ==
    ASSUME NEW sz \in PacketSizes, NEW q, QueueRight(q, sz), NEW grant \in Nat
    PROVE  Filling(FillBurst(q, grant), q, grant, sz)
<1>1. PICK n \in Nat : n = grant \div Overhead
  <2>1. grant \div Overhead \in Nat
    BY DEF Overhead
  <2> QED
    BY <2>1
<1>2. q \in Queues
  BY DEF QueueRight
<1>3. PICK f \in [0..n -> Bursts] :
            /\ FillBurst(q, grant) = f[n]
            /\ f[0] = [queue |-> q, left |-> grant, burst |-> <<>>]
            /\ \A i \in 1..n : f[i] = Turn(f[i - 1])
  BY <1>1, <1>2, FillBurstRecursion
<1>4. FirstId(q, sz) \in Int
  <2>1. q.elements \in Seq(Elements) /\ Len(sz) \in Nat
    BY <1>2, QueueHas DEF PacketSizes
  <2>2. Len(q.elements) \in Nat
    BY <2>1
  <2> QED
    BY <2>1, <2>2 DEF FirstId
<1> DEFINE S == {s \in Bursts : Filling(s, q, grant, sz)}
<1>5. f[0] \in S
  <2>1. f[0].queue = q /\ f[0].left = grant /\ f[0].burst = <<>> /\ f[0] \in Bursts
    BY <1>3
  <2>2. BurstSize(f[0].burst) = 0
    BY <2>1, BurstSizeEmpty
  <2>3. Len(f[0].burst) = 0
    BY <2>1
  <2> QED
    BY <1>4, <2>1, <2>2, <2>3 DEF Filling
<1>6. ASSUME NEW i \in 1..n, f[i - 1] \in S
      PROVE  f[i] \in S
  <2>1. Filling(f[i - 1], q, grant, sz)
    BY <1>6
  <2>2. Filling(f[i], q, grant, sz)
    BY <1>3, <1>4, <2>1, TurnFills
  <2> QED
    BY <2>2
<1>7. \A i \in 0..n : f[i] \in S
  <2> HIDE DEF S
  <2> QED
    BY <1>5, <1>6, Along
<1>8. f[n] \in S
  BY <1>7
<1> QED
  BY <1>3, <1>8

\* Packets that expire leave a queue that has gone on.
LEMMA DropsGoOn ==
    ASSUME NEW sz \in PacketSizes, NEW q, QueueRight(q, sz),
           NEW n \in Nat, n <= Len(q.elements), NEW new, new = CheckForDropPackets(q, n)
    PROVE  /\ QueueRight(new, sz)
           /\ FirstId(q, sz) <= FirstId(new, sz)
           /\ \A r \in Pdus : GoneOn(r, q, sz) => GoneOn(r, new, sz)
<1>1. q \in Queues
  BY DEF QueueRight
<1>2. PICK es \in Seq(Elements) : es = q.elements
  BY <1>1, QueueHas
<1>3. PICK m \in Nat, k \in Nat : m = Len(es) /\ k = Len(sz) /\ m <= k /\ n <= m
  <2>1. Len(es) \in Nat /\ Len(sz) \in Nat
    BY DEF PacketSizes
  <2> QED
    BY <1>2, <2>1 DEF QueueRight
<1>4. /\ new \in Queues
      /\ Len(new.elements) = m - n
      /\ \A j \in 1..(m - n) : new.elements[j] = es[n + j]
  BY <1>1, <1>2, <1>3, CheckForDropPacketsIs
<1>5. PICK fs \in Seq(Elements) : fs = new.elements
  BY <1>4, QueueHas
<1>6. QueueRight(new, sz)
  <2>1. ASSUME NEW i \in 1..(m - n)
        PROVE  /\ fs[i].id = k - (m - n) + i
               /\ fs[i].size = sz[fs[i].id]
               /\ fs[i].offset = 0 => fs[i].number = 0
    <3>1. n + i \in 1..m /\ k - m + (n + i) = k - (m - n) + i
      BY <1>3
    <3>2. /\ es[n + i].id = k - m + (n + i)
          /\ es[n + i].size = sz[es[n + i].id]
          /\ es[n + i].offset = 0 => es[n + i].number = 0
      BY <1>2, <1>3, <3>1 DEF QueueRight
    <3>3. fs[i] = es[n + i]
      BY <1>4, <1>5
    <3> QED
      BY <3>1, <3>2, <3>3
  <2>2. m - n <= k
    BY <1>3
  <2> QED
    BY <1>3, <1>4, <1>5, <2>1, <2>2 DEF QueueRight
<1>7. FirstId(q, sz) = k - m + 1 /\ FirstId(new, sz) = k - (m - n) + 1
  BY <1>2, <1>3, <1>4 DEF FirstId
<1>8. ASSUME NEW r \in Pdus, GoneOn(r, q, sz)
      PROVE  GoneOn(r, new, sz)
  <2>0. r.id \in Nat
    BY DEF Pdus
  <2>1. CASE r.id < FirstId(q, sz)
    BY <1>3, <1>7, <2>0, <2>1 DEF GoneOn
  <2>2. CASE ~ (r.id < FirstId(q, sz))
    <3>1. /\ es # <<>> /\ r.id = es[1].id
          /\ r.endByte < es[1].offset /\ r.number < es[1].number
          /\ r.endByte + 1 = es[1].offset <=> r.number + 1 = es[1].number
      BY <1>2, <1>8, <2>2 DEF GoneOn
    <3>2. es[1].id = k - m + 1
      <4>1. 1 \in 1..m
        BY <1>3, <3>1
      <4> QED
        BY <1>2, <1>3, <4>1 DEF QueueRight
    <3>3. CASE n = 0
      <4>1. 1 \in 1..(m - n) /\ n + 1 = 1 /\ m > 0
        BY <1>3, <3>1, <3>3
      <4>2. fs[1] = es[1] /\ fs # <<>>
        BY <1>4, <1>5, <4>1, <3>3
      <4> QED
        BY <1>5, <3>1, <4>2 DEF GoneOn
    <3>4. CASE n # 0
      <4>1. k - m + 1 < k - (m - n) + 1
        BY <1>3, <3>4
      <4> QED
        BY <1>7, <3>1, <3>2, <4>1 DEF GoneOn
    <3> QED
      BY <3>3, <3>4
  <2> QED
    BY <2>1, <2>2
<1>9. FirstId(q, sz) <= FirstId(new, sz)
  BY <1>3, <1>7
<1> QED
  BY <1>6, <1>8, <1>9

\* A packet of this size joins the queue.
Joins(q, sz, size, new, szn) ==
    /\ size \in Nat \ {0}
    /\ new = Enqueue(q, Packet(Len(sz) + 1, size))
    /\ szn = Append(sz, size)

\* The packet of an application joins the queue as the last one.
LEMMA EnqueueGoesOn ==
    ASSUME NEW sz \in PacketSizes, NEW q, QueueRight(q, sz),
           NEW size, NEW new, NEW szn, Joins(q, sz, size, new, szn)
    PROVE  /\ QueueRight(new, szn)
           /\ FirstId(new, szn) = FirstId(q, sz)
           /\ \A r \in Pdus : GoneOn(r, q, sz) => GoneOn(r, new, szn)
<1>0. /\ size \in Nat \ {0} /\ new = Enqueue(q, Packet(Len(sz) + 1, size))
      /\ szn = Append(sz, size)
  BY DEF Joins
<1>1. q \in Queues
  BY DEF QueueRight
<1>2. PICK es \in Seq(Elements) : es = q.elements
  BY <1>1, QueueHas
<1>3. PICK m \in Nat, k \in Nat : m = Len(es) /\ k = Len(sz) /\ m <= k
  <2>1. Len(es) \in Nat /\ Len(sz) \in Nat
    BY DEF PacketSizes
  <2> QED
    BY <1>2, <2>1 DEF QueueRight
<1>4. Len(szn) = k + 1 /\ szn[k + 1] = size /\ \A i \in 1..k : szn[i] = sz[i]
  BY <1>0, <1>3 DEF PacketSizes
<1>5. PICK p : p = Packet(k + 1, size)
  OBVIOUS
<1>6. p = [id |-> k + 1, size |-> size, offset |-> 0, number |-> 0, fragmentation |-> FALSE]
  BY <1>5 DEF Packet
<1>7. p \in Elements
  BY <1>0, <1>3, <1>6 DEF Elements
<1>8. new \in Queues /\ new.elements = Append(es, p)
  <2>1. k + 1 \in Nat /\ size \in Nat /\ size > 0
    BY <1>0, <1>3
  <2> QED
    BY <1>0, <1>1, <1>2, <1>3, <1>5, <2>1, EnqueueIs
<1>9. PICK fs \in Seq(Elements) : fs = Append(es, p)
  <2>1. Append(es, p) \in Seq(Elements)
    BY <1>7
  <2> QED
    BY <2>1
<1>10. Len(fs) = m + 1 /\ fs[m + 1] = p /\ \A i \in 1..m : fs[i] = es[i]
  BY <1>3, <1>7, <1>9
<1>11. ASSUME NEW i \in 1..(m + 1)
       PROVE  /\ fs[i].id = (k + 1) - (m + 1) + i
              /\ fs[i].size = szn[fs[i].id]
              /\ fs[i].offset = 0 => fs[i].number = 0
  <2>1. CASE i = m + 1
    <3>1. (k + 1) - (m + 1) + i = k + 1
      BY <1>3, <2>1
    <3> QED
      BY <1>4, <1>6, <1>10, <2>1, <3>1
  <2>2. CASE i # m + 1
    <3>1. i \in 1..m /\ k - m + i = (k + 1) - (m + 1) + i /\ k - m + i \in 1..k
      BY <1>3, <2>2
    <3>2. /\ es[i].id = k - m + i /\ es[i].size = sz[es[i].id]
          /\ es[i].offset = 0 => es[i].number = 0
      BY <1>2, <1>3, <3>1 DEF QueueRight
    <3> QED
      BY <1>4, <1>10, <3>1, <3>2
  <2> QED
    BY <2>1, <2>2
<1>12. QueueRight(new, szn)
  <2>1. m + 1 <= k + 1
    BY <1>3
  <2>2. new.elements = fs /\ new \in Queues /\ Len(szn) = k + 1 /\ Len(fs) = m + 1
    BY <1>4, <1>8, <1>9, <1>10
  <2> QED
    BY <1>11, <2>1, <2>2 DEF QueueRight
<1>13. FirstId(new, szn) = FirstId(q, sz)
  <2>1. (k + 1) - (m + 1) + 1 = k - m + 1
    BY <1>3
  <2> QED
    BY <1>2, <1>3, <1>4, <1>8, <1>9, <1>10, <2>1 DEF FirstId
<1>14. ASSUME NEW r \in Pdus, GoneOn(r, q, sz)
       PROVE  GoneOn(r, new, szn)
  <2>1. es # <<>> => fs # <<>> /\ fs[1] = es[1]
    <3>1. es # <<>> => 1 \in 1..m
      BY <1>3
    <3>2. fs # <<>>
      BY <1>10, <1>3
    <3> QED
      BY <1>10, <3>1, <3>2
  <2> QED
    BY <1>2, <1>8, <1>9, <1>13, <1>14, <2>1 DEF GoneOn
<1> QED
  BY <1>12, <1>13, <1>14

-----------------------------------------------------------------------------
(***************************************************************************)
(* Counting fragments                                                      *)
(***************************************************************************)

\* The bytes of a PDU.
BytesIn(p) == p.startByte..p.endByte

\* PDUs of the packet x, each cut at another time, of which the last is the last of
\* the packet.
Fragments(fs, x, sz) ==
    /\ fs \in Seq(Pdus) /\ Len(fs) > 0
    /\ \A i \in 1..Len(fs) : PduRight(fs[i], sz) /\ fs[i].id = x
    /\ \A i, j \in 1..Len(fs) : i # j => Apart(fs[i], fs[j])
    /\ fs[Len(fs)].latest

\* Their bytes.
Covered(fs) == UNION {BytesIn(fs[i]) : i \in 1..Len(fs)}

\* The numbers of the fragments are different, and the last has the largest.
LEMMA NumbersDiffer ==
    ASSUME NEW sz \in PacketSizes, NEW x, NEW fs, Fragments(fs, x, sz)
    PROVE  /\ \A i \in 1..Len(fs) : fs[i].number \in 0..fs[Len(fs)].number
           /\ \A i, j \in 1..Len(fs) : i # j => fs[i].number # fs[j].number
<1>1. fs \in Seq(Pdus) /\ Len(fs) \in Nat /\ Len(fs) > 0
  BY DEF Fragments
<1>2. PICK n \in Nat : n = Len(fs) /\ n > 0
  BY <1>1
<1>3. \A i \in 1..n : fs[i].number \in Nat /\ fs[i].endByte \in Nat /\ fs[i].startByte \in Nat
  <2>1. \A i \in 1..n : fs[i] \in Pdus
    BY <1>1, <1>2
  <2>2. \A p \in Pdus : p.number \in Nat /\ p.endByte \in Nat /\ p.startByte \in Nat
    BY DEF Pdus
  <2> QED
    BY <2>1, <2>2
<1>4. ASSUME NEW i \in 1..n, NEW j \in 1..n, i # j
      PROVE  Earlier(fs[i], fs[j]) \/ Earlier(fs[j], fs[i])
  BY <1>2, <1>4 DEF Fragments, Apart
<1>5. ASSUME NEW i \in 1..n, i # n
      PROVE  fs[i].number < fs[n].number
  <2>1. /\ fs[n].endByte = sz[x] - 1 /\ fs[i].startByte <= fs[i].endByte
        /\ fs[i].endByte < sz[x]
    <3>1. PduRight(fs[n], sz) /\ fs[n].id = x /\ PduRight(fs[i], sz) /\ fs[i].id = x
      BY <1>2 DEF Fragments
    <3>2. fs[n].latest
      BY <1>2 DEF Fragments
    <3> QED
      BY <3>1, <3>2 DEF PduRight
  <2>2. sz[x] \in Nat
    <3>1. x \in 1..Len(sz)
      BY <1>2 DEF Fragments, PduRight
    <3> QED
      BY <3>1 DEF PacketSizes
  <2>3. ~ (fs[n].endByte < fs[i].startByte)
    BY <1>3, <2>1, <2>2
  <2>4. ~ Earlier(fs[n], fs[i])
    BY <2>3 DEF Earlier
  <2>5. Earlier(fs[i], fs[n])
    BY <1>2, <1>4, <1>5, <2>4
  <2> QED
    BY <2>5 DEF Earlier
<1>6. \A i \in 1..n : fs[i].number \in 0..fs[n].number
  <2>1. fs[n].number \in Nat
    BY <1>2, <1>3
  <2> QED
    BY <1>3, <1>5, <2>1
<1>7. ASSUME NEW i \in 1..n, NEW j \in 1..n, i # j
      PROVE  fs[i].number # fs[j].number
  BY <1>3, <1>4, <1>7 DEF Earlier
<1> QED
  BY <1>2, <1>6, <1>7

\* They are as many as the last number says exactly if no number is left out.
LEMMA CountIs ==
    ASSUME NEW sz \in PacketSizes, NEW x, NEW fs, Fragments(fs, x, sz)
    PROVE  Len(fs) = fs[Len(fs)].number + 1
               <=> \A m \in 0..fs[Len(fs)].number : \E i \in 1..Len(fs) : fs[i].number = m
<1>1. PICK n \in Nat, N \in Nat : n = Len(fs) /\ n > 0 /\ N = fs[Len(fs)].number
  <2>1. Len(fs) \in Nat /\ Len(fs) > 0 /\ fs[Len(fs)] \in Pdus
    BY DEF Fragments
  <2> QED
    BY <2>1 DEF Pdus
<1>2. PICK f : f = [i \in 1..n |-> fs[i].number]
  OBVIOUS
<1>3. f \in Injection(1..n, 0..N)
  <2>1. f \in [1..n -> 0..N]
    BY <1>1, <1>2, NumbersDiffer
  <2>2. \A i, j \in 1..n : f[i] = f[j] => i = j
    BY <1>1, <1>2, NumbersDiffer
  <2> QED
    BY <2>1, <2>2 DEF Injection, IsInjective
<1>4. /\ IsFiniteSet(1..n) /\ Cardinality(1..n) = n
      /\ IsFiniteSet(0..N) /\ Cardinality(0..N) = N + 1
  <2>1. IsFiniteSet(1..n) /\ Cardinality(1..n) = IF 1 > n THEN 0 ELSE n - 1 + 1
    BY FS_Interval
  <2>2. IsFiniteSet(0..N) /\ Cardinality(0..N) = IF 0 > N THEN 0 ELSE N - 0 + 1
    BY FS_Interval
  <2> QED
    BY <1>1, <2>1, <2>2
<1>5. Cardinality(1..n) = Cardinality(0..N) <=> f \in Surjection(1..n, 0..N)
  BY <1>3, <1>4, FS_Injection
<1>6. f \in Surjection(1..n, 0..N) <=> \A m \in 0..N : \E i \in 1..n : f[i] = m
  <2>1. f \in [1..n -> 0..N]
    BY <1>3 DEF Injection
  <2> QED
    BY <2>1 DEF Surjection
<1>7. (\A m \in 0..N : \E i \in 1..n : f[i] = m)
            <=> (\A m \in 0..N : \E i \in 1..n : fs[i].number = m)
  BY <1>2
<1> QED
  BY <1>1, <1>4, <1>5, <1>6, <1>7

\* No number is left out exactly if no byte is.
LEMMA NumbersAreBytes ==
    ASSUME NEW sz \in PacketSizes, NEW x, NEW fs, Fragments(fs, x, sz)
    PROVE  (\A m \in 0..fs[Len(fs)].number : \E i \in 1..Len(fs) : fs[i].number = m)
               <=> Covered(fs) = 0..(sz[x] - 1)
<1>1. PICK n \in Nat, N \in Nat : n = Len(fs) /\ n > 0 /\ N = fs[Len(fs)].number
  <2>1. Len(fs) \in Nat /\ Len(fs) > 0 /\ fs[Len(fs)] \in Pdus
    BY DEF Fragments
  <2> QED
    BY <2>1 DEF Pdus
<1>2. PICK size \in Nat : size = sz[x] /\ size > 0
  <2>1. PduRight(fs[n], sz) /\ fs[n].id = x
    BY <1>1 DEF Fragments
  <2>2. x \in 1..Len(sz)
    BY <2>1 DEF PduRight
  <2>3. sz[x] \in Nat \ {0}
    BY <2>2 DEF PacketSizes
  <2> QED
    BY <2>3
<1>3. ASSUME NEW i \in 1..n
      PROVE  /\ fs[i].number \in 0..N
             /\ fs[i].startByte \in Nat /\ fs[i].endByte \in Nat
             /\ fs[i].startByte <= fs[i].endByte /\ fs[i].endByte < size
             /\ fs[i].latest <=> fs[i].endByte = size - 1
             /\ fs[i].startByte = 0 <=> fs[i].number = 0
  <2>1. PduRight(fs[i], sz) /\ fs[i].id = x
    BY <1>1 DEF Fragments
  <2>2. fs[i] \in Pdus
    BY <2>1 DEF PduRight
  <2>3. fs[i].startByte \in Nat /\ fs[i].endByte \in Nat
    BY <2>2 DEF Pdus
  <2>4. fs[i].number \in 0..N
    BY <1>1, NumbersDiffer
  <2> QED
    BY <1>2, <2>1, <2>3, <2>4 DEF PduRight
<1>4. \A i, j \in 1..n : i # j => fs[i].number # fs[j].number
  BY <1>1, NumbersDiffer
<1>5. \A i, j \in 1..n : i # j => Earlier(fs[i], fs[j]) \/ Earlier(fs[j], fs[i])
  BY <1>1 DEF Fragments, Apart
<1>6. \A b : b \in Covered(fs) <=> \E i \in 1..n : b \in fs[i].startByte..fs[i].endByte
  BY <1>1 DEF Covered, BytesIn
<1>7. fs[n].endByte = size - 1 /\ fs[n].number = N
  BY <1>1, <1>3 DEF Fragments
<1>8. ASSUME \A m \in 0..N : \E i \in 1..n : fs[i].number = m
      PROVE  Covered(fs) = 0..(size - 1)
  <2> DEFINE S == {m \in 0..N : \E i \in 1..n : /\ fs[i].number = m
                                              /\ 0..fs[i].endByte \subseteq Covered(fs)}
             k == [m \in 0..N |-> m]
  <2>1. k[0] \in S
    <3>1. PICK i \in 1..n : fs[i].number = 0
      BY <1>8
    <3>2. fs[i].startByte = 0
      BY <1>3, <3>1
    <3>3. 0..fs[i].endByte \subseteq Covered(fs)
      BY <1>6, <3>2
    <3> QED
      BY <3>1, <3>3
  <2>2. ASSUME NEW m \in 1..N, k[m - 1] \in S
        PROVE  k[m] \in S
    <3>1. m - 1 \in 0..N /\ m \in 0..N /\ k[m - 1] = m - 1 /\ k[m] = m
      OBVIOUS
    <3>2. PICK i \in 1..n : fs[i].number = m - 1 /\ 0..fs[i].endByte \subseteq Covered(fs)
      BY <2>2, <3>1
    <3>3. PICK j \in 1..n : fs[j].number = m
      BY <1>8, <3>1
    <3>4. i # j
      BY <3>2, <3>3
    <3>5. fs[i].endByte + 1 = fs[j].startByte
      <4>1. ~ (fs[j].number < fs[i].number) /\ fs[i].number + 1 = fs[j].number
        BY <3>2, <3>3
      <4>2. Earlier(fs[i], fs[j])
        BY <1>5, <3>4, <4>1 DEF Earlier
      <4> QED
        BY <4>1, <4>2 DEF Earlier
    <3>6. 0..fs[j].endByte \subseteq Covered(fs)
      <4> SUFFICES ASSUME NEW b \in 0..fs[j].endByte
                   PROVE  b \in Covered(fs)
        OBVIOUS
      <4>1. b \in 0..fs[i].endByte \/ b \in fs[j].startByte..fs[j].endByte
        BY <1>3, <3>5
      <4> QED
        BY <1>6, <3>2, <4>1
    <3> QED
      BY <3>1, <3>3, <3>6
  <2>3. \A m \in 0..N : k[m] \in S
    <3> HIDE DEF S, k
    <3> QED
      BY <2>1, <2>2, Along
  <2>4. N \in S
    BY <2>3
  <2>5. PICK i \in 1..n : fs[i].number = N /\ 0..fs[i].endByte \subseteq Covered(fs)
    BY <2>4
  <2>6. i = n
    BY <1>1, <1>4, <1>7, <2>5
  <2>7. Covered(fs) \subseteq 0..(size - 1)
    <3> SUFFICES ASSUME NEW b \in Covered(fs)
                 PROVE  b \in 0..(size - 1)
      OBVIOUS
    <3>1. PICK j \in 1..n : b \in fs[j].startByte..fs[j].endByte
      BY <1>6
    <3> QED
      BY <1>2, <1>3, <3>1
  <2> QED
    BY <1>7, <2>5, <2>6, <2>7
<1>9. ASSUME Covered(fs) = 0..(size - 1)
      PROVE  \A m \in 0..N : \E i \in 1..n : fs[i].number = m
  <2> DEFINE S == {m \in 0..N : \E i \in 1..n : fs[i].number = m}
             k == [m \in 0..N |-> m]
  <2>1. k[0] \in S
    <3>1. 0 \in Covered(fs)
      BY <1>2, <1>9
    <3>2. PICK i \in 1..n : 0 \in fs[i].startByte..fs[i].endByte
      BY <1>6, <3>1
    <3>3. fs[i].number = 0
      BY <1>3, <3>2
    <3> QED
      BY <3>3
  <2>2. ASSUME NEW m \in 1..N, k[m - 1] \in S
        PROVE  k[m] \in S
    <3>1. m - 1 \in 0..N /\ m \in 0..N /\ k[m - 1] = m - 1 /\ k[m] = m
      OBVIOUS
    <3>2. PICK i \in 1..n : fs[i].number = m - 1
      BY <2>2, <3>1
    <3>3. i # n
      BY <1>7, <3>2
    <3>4. fs[i].endByte + 1 \in 0..(size - 1)
      <4>1. ~ (fs[i].endByte = size - 1)
        <5>1. n \in 1..n
          BY <1>1
        <5>2. Earlier(fs[i], fs[n]) \/ Earlier(fs[n], fs[i])
          BY <1>5, <3>3, <5>1
        <5>3. ~ (fs[n].number < fs[i].number)
          BY <1>7, <3>1, <3>2
        <5>4. fs[i].endByte < fs[n].startByte /\ fs[n].startByte <= fs[n].endByte
          BY <1>3, <5>1, <5>2, <5>3 DEF Earlier
        <5>5. fs[n].startByte \in Nat /\ fs[i].endByte \in Nat
          BY <1>3, <5>1
        <5> QED
          BY <1>2, <1>7, <5>4, <5>5
      <4> QED
        BY <1>2, <1>3, <4>1
    <3>5. PICK j \in 1..n : fs[i].endByte + 1 \in fs[j].startByte..fs[j].endByte
      BY <1>6, <1>9, <3>4
    <3>6. i # j
      BY <1>3, <3>5
    <3>7. Earlier(fs[i], fs[j])
      <4>1. ~ (fs[j].endByte < fs[i].startByte)
        BY <1>3, <3>5
      <4> QED
        BY <1>5, <3>6, <4>1 DEF Earlier
    <3>8. fs[i].endByte + 1 = fs[j].startByte
      BY <1>3, <3>5, <3>7 DEF Earlier
    <3>9. fs[j].number = m
      BY <3>2, <3>7, <3>8 DEF Earlier
    <3> QED
      BY <3>1, <3>9
  <2>3. \A m \in 0..N : k[m] \in S
    <3> HIDE DEF S, k
    <3> QED
      BY <2>1, <2>2, Along
  <2> QED
    BY <2>3
<1> QED
  BY <1>1, <1>2, <1>8, <1>9

\* The receiver's count is right: fragments are as many as the last number says exactly
\* if every byte of the packet is there.
LEMMA CountedIsWhole ==
    ASSUME NEW sz \in PacketSizes, NEW x, NEW fs, Fragments(fs, x, sz)
    PROVE  Len(fs) = fs[Len(fs)].number + 1 <=> Covered(fs) = 0..(sz[x] - 1)
BY CountIs, NumbersAreBytes

-----------------------------------------------------------------------------
(***************************************************************************)
(* The receiver                                                            *)
(***************************************************************************)

\* The PDUs of the set P, which are on the air, were cut from the queue at different
\* times.
OnTheAir(P, q, sz) ==
    /\ \A p \in P : PduRight(p, sz) /\ GoneOn(p, q, sz)
    /\ \A p, r \in P : p # r => Apart(p, r)

\* The receiver keeps fragments of one packet, the last of it never.
FragmentsRight(inc, q, sz) ==
    /\ inc \in Seq(Pdus)
    /\ \A j \in 1..Len(inc) :
        /\ PduRight(inc[j], sz) /\ GoneOn(inc[j], q, sz)
        /\ inc[j].isFragment /\ ~inc[j].latest /\ inc[j].id = inc[1].id
    /\ \A j, k \in 1..Len(inc) : j # k => Apart(inc[j], inc[k])

\* What has arrived are bytes of the packet, and those the receiver keeps.
ArrivedRight(inc, arr, sz) ==
    /\ DOMAIN arr = 1..Len(sz)
    /\ \A id \in 1..Len(sz) : arr[id] \subseteq 0..(sz[id] - 1)
    /\ \A j \in 1..Len(inc) : BytesIn(inc[j]) \subseteq arr[inc[j].id]

\* A packet that was passed on is whole, has left the queue and is passed on once: its
\* last PDU is not on the air.
ReceivedRight(rec, arr, P, q, sz) ==
    /\ rec \in Seq(1..Len(sz))
    /\ \A i \in 1..Len(rec) :
        /\ arr[rec[i]] = 0..(sz[rec[i]] - 1) /\ rec[i] < FirstId(q, sz)
        /\ \A p \in P : p.latest => rec[i] # p.id
        /\ \A j \in 1..Len(rec) : rec[i] = rec[j] => i = j

\* Without HARQ PDUs arrive in the order in which they were cut.
InTurn(inc, rec, arr, P, q, sz) ==
    /\ \A p \in P : /\ \A j \in 1..Len(inc) : Precedes(inc[j], p)
                    /\ \A i \in 1..Len(rec) : rec[i] < p.id
    /\ \A i, j \in 1..Len(rec) : i < j => rec[i] < rec[j]
    /\ \A id \in 1..Len(sz) : /\ arr[id] = 0..(sz[id] - 1) => \E i \in 1..Len(rec) : rec[i] = id
                              /\ (FirstId(q, sz) <= id \/ \E p \in P : p.id <= id)
                                     => arr[id] = BytesOf(inc, id)

ReceiverRight(inc, rec, arr, P, q, sz) ==
    /\ FragmentsRight(inc, q, sz)
    /\ \A p \in P : \A j \in 1..Len(inc) : Apart(p, inc[j])
    /\ ArrivedRight(inc, arr, sz)
    /\ ReceivedRight(rec, arr, P, q, sz)

\* The last PDU of a packet is on the air only when the packet has left the queue, and no
\* PDU of the packet was cut after it.
LEMMA LatestIsLast ==
    ASSUME NEW sz \in PacketSizes, NEW q, QueueRight(q, sz), NEW p, PduRight(p, sz), p.latest
    PROVE  /\ GoneOn(p, q, sz) => p.id < FirstId(q, sz)
           /\ \A r : PduRight(r, sz) /\ p.id = r.id => ~ Earlier(p, r)
<1>1. /\ p.id \in 1..Len(sz) /\ p.endByte = sz[p.id] - 1 /\ sz[p.id] \in Nat
      /\ Len(sz) \in Nat
  <2>1. p.id \in 1..Len(sz) /\ p.endByte = sz[p.id] - 1
    BY DEF PduRight
  <2> QED
    BY <2>1 DEF PacketSizes
<1>2. ASSUME GoneOn(p, q, sz), ~ (p.id < FirstId(q, sz))
      PROVE  FALSE
  <2>1. q.elements # <<>> /\ p.id = q.elements[1].id /\ p.endByte < q.elements[1].offset
    BY <1>2 DEF GoneOn
  <2>2. q.elements \in Seq(Elements)
    BY QueueHas DEF QueueRight
  <2>3. 1 \in 1..Len(q.elements)
    BY <2>1, <2>2
  <2>4. q.elements[1] \in Elements /\ q.elements[1].size = sz[q.elements[1].id]
    <3>1. q.elements[1] \in Elements
      BY <2>2, <2>3
    <3> QED
      BY <2>3, <3>1 DEF QueueRight
  <2>5. /\ q.elements[1].offset \in Nat /\ q.elements[1].offset < sz[p.id]
    BY <2>1, <2>4 DEF Elements
  <2> QED
    BY <1>1, <2>1, <2>5
<1>3. ASSUME NEW r, PduRight(r, sz), p.id = r.id, Earlier(p, r)
      PROVE  FALSE
  <2>1. r.startByte <= r.endByte /\ r.endByte < sz[p.id] /\ p.endByte < r.startByte
    BY <1>3 DEF PduRight, Earlier
  <2>2. r \in Pdus
    BY <1>3 DEF PduRight
  <2>3. r.startByte \in Nat /\ r.endByte \in Nat
    BY <2>2 DEF Pdus
  <2> QED
    BY <1>1, <2>1, <2>3
<1> QED
  BY <1>2, <1>3

\* The fragments the receiver still has when a PDU comes.
StillKept(inc, p, kept) ==
    \/ kept = inc /\ \A j \in 1..Len(inc) : inc[j].id = p.id
    \/ kept = <<>> /\ \A j \in 1..Len(inc) : inc[j].id # p.id

\* What comes of a PDU.
Outcome(inc, rec, p, kept, new) ==
    /\ StillKept(inc, p, kept)
    /\ \/ /\ ~p.isFragment
          /\ new = [incoming |-> kept, received |-> Append(rec, p.id)]
       \/ /\ p.isFragment /\ ~p.latest
          /\ new = [incoming |-> Append(kept, p), received |-> rec]
       \/ /\ p.isFragment /\ p.latest /\ Len(Append(kept, p)) = p.number + 1
          /\ new = [incoming |-> <<>>, received |-> Append(rec, p.id)]
       \/ /\ p.isFragment /\ p.latest /\ Len(Append(kept, p)) # p.number + 1
          /\ new = [incoming |-> <<>>, received |-> rec]

\* Receive does one of four things.
LEMMA ReceiveIs ==
    ASSUME NEW s, NEW p, NEW new, new = Receive(s, p), s.incoming \in Seq(Pdus),
           \A j \in 1..Len(s.incoming) : s.incoming[j].id = s.incoming[1].id
    PROVE  \E kept \in Seq(Pdus) : Outcome(s.incoming, s.received, p, kept, new)
<1>1. PICK kept : kept = ForgetOther(s.incoming, p)
  OBVIOUS
<1>2. kept \in Seq(Pdus) /\ StillKept(s.incoming, p, kept)
  <2>1. CASE s.incoming # <<>> /\ s.incoming[1].id # p.id
    <3>1. kept = <<>>
      BY <1>1, <2>1 DEF ForgetOther
    <3> QED
      BY <2>1, <3>1 DEF StillKept
  <2>2. CASE ~ (s.incoming # <<>> /\ s.incoming[1].id # p.id)
    <3>1. kept = s.incoming
      BY <1>1, <2>2 DEF ForgetOther
    <3>2. ASSUME NEW j \in 1..Len(s.incoming)
          PROVE  s.incoming[j].id = p.id
      <4>1. s.incoming # <<>>
        OBVIOUS
      <4> QED
        BY <2>2, <4>1
    <3> QED
      BY <3>1, <3>2 DEF StillKept
  <2> QED
    BY <2>1, <2>2
<1>3. Outcome(s.incoming, s.received, p, kept, new)
  BY <1>1, <1>2 DEF Outcome, Receive, Reassembled
<1> QED
  BY <1>2, <1>3

\* The fragments that are kept, and their bytes.
LEMMA KeptFragments ==
    ASSUME NEW sz \in PacketSizes, NEW q, NEW inc, FragmentsRight(inc, q, sz),
           NEW p, PduRight(p, sz), NEW kept, StillKept(inc, p, kept),
           \A j \in 1..Len(inc) : Apart(p, inc[j])
    PROVE  /\ FragmentsRight(kept, q, sz)
           /\ \A j \in 1..Len(kept) : kept[j].id = p.id /\ Apart(p, kept[j])
           /\ \A j \in 1..Len(kept) : j \in 1..Len(inc) /\ kept[j] = inc[j]
           /\ BytesOf(inc, p.id) = Covered(kept)
           /\ Covered(Append(kept, p)) = Covered(kept) \cup BytesIn(p)
<1>1. kept \in Seq(Pdus) /\ Len(kept) \in Nat /\ p \in Pdus
  <2>1. inc \in Seq(Pdus) /\ <<>> \in Seq(Pdus)
    BY DEF FragmentsRight
  <2>2. kept \in Seq(Pdus)
    BY <2>1 DEF StillKept
  <2> QED
    BY <2>2 DEF PduRight
<1>2. /\ \A j \in 1..Len(kept) : kept[j].id = p.id
      /\ \A j \in 1..Len(kept) : j \in 1..Len(inc) /\ kept[j] = inc[j]
  BY DEF StillKept
<1>3. FragmentsRight(kept, q, sz)
  <2>1. CASE kept = inc
    BY <2>1
  <2>2. CASE kept = <<>>
    BY <1>1, <2>2 DEF FragmentsRight
  <2> QED
    BY <2>1, <2>2 DEF StillKept
<1>4. BytesOf(inc, p.id) = Covered(kept)
  <2>1. BytesOf(inc, p.id) = UNION {BytesIn(inc[i]) : i \in {j \in 1..Len(inc) : inc[j].id = p.id}}
    BY DEF BytesOf, BytesIn
  <2>2. CASE kept = inc /\ \A j \in 1..Len(inc) : inc[j].id = p.id
    <3>1. {j \in 1..Len(inc) : inc[j].id = p.id} = 1..Len(kept)
      BY <2>2
    <3> QED
      BY <2>1, <2>2, <3>1 DEF Covered
  <2>3. CASE kept = <<>> /\ \A j \in 1..Len(inc) : inc[j].id # p.id
    <3>1. {j \in 1..Len(inc) : inc[j].id = p.id} = {} /\ 1..Len(kept) = {}
      BY <2>3
    <3> QED
      BY <2>1, <3>1 DEF Covered
  <2> QED
    BY <2>2, <2>3 DEF StillKept
<1>5. Covered(Append(kept, p)) = Covered(kept) \cup BytesIn(p)
  <2>1. PICK fs \in Seq(Pdus) : fs = Append(kept, p)
    <3>1. Append(kept, p) \in Seq(Pdus)
      BY <1>1
    <3> QED
      BY <3>1
  <2>2. /\ Len(fs) = Len(kept) + 1 /\ fs[Len(kept) + 1] = p
        /\ \A j \in 1..Len(kept) : fs[j] = kept[j]
        /\ \A j \in 1..Len(fs) : j \in 1..Len(kept) \/ j = Len(kept) + 1
        /\ Len(kept) + 1 \in 1..Len(fs) /\ \A j \in 1..Len(kept) : j \in 1..Len(fs)
    BY <1>1, <2>1
  <2>3. ASSUME NEW b
        PROVE  b \in Covered(fs) <=> b \in Covered(kept) \/ b \in BytesIn(p)
    <3>1. b \in Covered(fs) <=> \E j \in 1..Len(fs) : b \in BytesIn(fs[j])
      BY DEF Covered
    <3>2. b \in Covered(kept) <=> \E j \in 1..Len(kept) : b \in BytesIn(kept[j])
      BY DEF Covered
    <3> QED
      BY <2>2, <3>1, <3>2
  <2> QED
    BY <2>1, <2>3
<1> QED
  BY <1>2, <1>3, <1>4, <1>5

\* With the last PDU of the packet the fragments that were kept can be counted.
LEMMA FragmentsAre ==
    ASSUME NEW sz \in PacketSizes, NEW q, NEW kept, FragmentsRight(kept, q, sz),
           NEW p, PduRight(p, sz), p.latest,
           \A j \in 1..Len(kept) : kept[j].id = p.id /\ Apart(p, kept[j])
    PROVE  Len(Append(kept, p)) = p.number + 1
               <=> Covered(Append(kept, p)) = 0..(sz[p.id] - 1)
<1>1. kept \in Seq(Pdus) /\ Len(kept) \in Nat /\ p \in Pdus
  BY DEF FragmentsRight, PduRight
<1>2. PICK fs \in Seq(Pdus) : fs = Append(kept, p)
  <2>1. Append(kept, p) \in Seq(Pdus)
    BY <1>1
  <2> QED
    BY <2>1
<1>3. /\ Len(fs) = Len(kept) + 1 /\ fs[Len(fs)] = p
      /\ \A j \in 1..Len(kept) : fs[j] = kept[j]
      /\ \A j \in 1..Len(fs) : j \in 1..Len(kept) \/ j = Len(fs)
  BY <1>1, <1>2
<1>4. \A r : Apart(p, r) => Apart(r, p)
  BY DEF Apart
<1>5. ASSUME NEW i \in 1..Len(fs), NEW j \in 1..Len(fs), i # j
      PROVE  Apart(fs[i], fs[j])
  BY <1>3, <1>4, <1>5 DEF FragmentsRight
<1>6. \A i \in 1..Len(fs) : PduRight(fs[i], sz) /\ fs[i].id = p.id
  BY <1>3 DEF FragmentsRight
<1>7. Fragments(fs, p.id, sz)
  BY <1>1, <1>3, <1>5, <1>6 DEF Fragments
<1>8. Len(fs) = fs[Len(fs)].number + 1 <=> Covered(fs) = 0..(sz[p.id] - 1)
  BY <1>7, CountedIsWhole
<1> QED
  BY <1>2, <1>3, <1>8

\* The bytes of p have arrived too.
Arrive(arr, p) ==
    [id \in DOMAIN arr |-> arr[id] \cup IF id = p.id THEN BytesIn(p) ELSE {}]

\* A PDU is received: the fragments and the bytes.
LEMMA FragmentsArrive ==
    ASSUME NEW sz \in PacketSizes, NEW q, NEW inc, FragmentsRight(inc, q, sz),
           NEW arr, ArrivedRight(inc, arr, sz),
           NEW p, PduRight(p, sz), GoneOn(p, q, sz),
           \A j \in 1..Len(inc) : Apart(p, inc[j]),
           NEW rec, NEW kept, NEW new,
           Outcome(inc, rec, p, kept, new)
    PROVE  /\ FragmentsRight(new.incoming, q, sz)
           /\ ArrivedRight(new.incoming, Arrive(arr, p), sz)
           /\ \A j \in 1..Len(new.incoming) :
                   new.incoming[j] = p \/ \E k \in 1..Len(inc) : new.incoming[j] = inc[k]
<1>1. /\ FragmentsRight(kept, q, sz)
      /\ \A j \in 1..Len(kept) : kept[j].id = p.id /\ Apart(p, kept[j])
      /\ \A j \in 1..Len(kept) : j \in 1..Len(inc) /\ kept[j] = inc[j]
  BY KeptFragments DEF Outcome
<1>2. p \in Pdus /\ p.id \in 1..Len(sz) /\ kept \in Seq(Pdus) /\ Len(kept) \in Nat
  BY <1>1 DEF PduRight, FragmentsRight
<1>3. PICK fs \in Seq(Pdus) : fs = Append(kept, p)
  <2>1. Append(kept, p) \in Seq(Pdus)
    BY <1>2
  <2> QED
    BY <2>1
<1>4. /\ Len(fs) = Len(kept) + 1 /\ fs[Len(kept) + 1] = p
      /\ \A j \in 1..Len(kept) : fs[j] = kept[j]
      /\ \A j \in 1..Len(fs) : j \in 1..Len(kept) \/ j = Len(kept) + 1
      /\ fs[1].id = p.id
  <2>1. /\ Len(fs) = Len(kept) + 1 /\ fs[Len(kept) + 1] = p
        /\ \A j \in 1..Len(kept) : fs[j] = kept[j]
        /\ \A j \in 1..Len(fs) : j \in 1..Len(kept) \/ j = Len(kept) + 1
        /\ 1 \in 1..Len(fs)
    BY <1>2, <1>3
  <2>2. fs[1].id = p.id
    BY <1>1, <2>1
  <2> QED
    BY <2>1, <2>2
<1>5. \/ new.incoming = kept
      \/ new.incoming = fs /\ p.isFragment /\ ~p.latest
      \/ new.incoming = <<>>
  BY <1>3 DEF Outcome
<1>6. FragmentsRight(new.incoming, q, sz)
  <2>1. CASE new.incoming = kept
    BY <1>1, <2>1
  <2>2. CASE new.incoming = fs /\ p.isFragment /\ ~p.latest
    <3>1. \A j \in 1..Len(fs) :
            /\ PduRight(fs[j], sz) /\ GoneOn(fs[j], q, sz)
            /\ fs[j].isFragment /\ ~fs[j].latest /\ fs[j].id = fs[1].id
      BY <1>1, <1>4, <2>2 DEF FragmentsRight
    <3>2. \A r : Apart(p, r) => Apart(r, p)
      BY DEF Apart
    <3>3. ASSUME NEW i \in 1..Len(fs), NEW j \in 1..Len(fs), i # j
          PROVE  Apart(fs[i], fs[j])
      BY <1>1, <1>4, <3>2, <3>3 DEF FragmentsRight
    <3> QED
      BY <2>2, <3>1, <3>3 DEF FragmentsRight
  <2>3. CASE new.incoming = <<>>
    BY <2>3 DEF FragmentsRight
  <2> QED
    BY <1>5, <2>1, <2>2, <2>3
<1>7. \A j \in 1..Len(new.incoming) :
            new.incoming[j] = p \/ \E k \in 1..Len(inc) : new.incoming[j] = inc[k]
  <2>1. CASE new.incoming = kept
    BY <1>1, <2>1
  <2>2. CASE new.incoming = fs
    BY <1>1, <1>4, <2>2
  <2>3. CASE new.incoming = <<>>
    BY <2>3
  <2> QED
    BY <1>5, <2>1, <2>2, <2>3
<1>8. /\ DOMAIN Arrive(arr, p) = 1..Len(sz)
      /\ \A id \in 1..Len(sz) : /\ arr[id] \subseteq Arrive(arr, p)[id]
                                /\ id # p.id => Arrive(arr, p)[id] = arr[id]
      /\ Arrive(arr, p)[p.id] = arr[p.id] \cup BytesIn(p)
  BY <1>2 DEF Arrive, ArrivedRight
<1>9. BytesIn(p) \subseteq 0..(sz[p.id] - 1)
  <2>1. p.startByte \in Nat /\ p.endByte \in Nat /\ p.endByte < sz[p.id]
    BY <1>2 DEF PduRight, Pdus
  <2>2. sz[p.id] \in Nat
    BY <1>2 DEF PacketSizes
  <2> QED
    BY <2>1, <2>2 DEF BytesIn
<1>10. ASSUME NEW j \in 1..Len(new.incoming)
       PROVE  BytesIn(new.incoming[j]) \subseteq Arrive(arr, p)[new.incoming[j].id]
  <2>1. CASE new.incoming[j] = p
    BY <1>8, <2>1
  <2>2. CASE \E k \in 1..Len(inc) : new.incoming[j] = inc[k]
    <3>1. PICK k \in 1..Len(inc) : new.incoming[j] = inc[k]
      BY <2>2
    <3>2. BytesIn(inc[k]) \subseteq arr[inc[k].id]
      BY DEF ArrivedRight
    <3>3. inc[k].id \in 1..Len(sz)
      <4>1. FragmentsRight(new.incoming, q, sz)
        BY <1>6
      <4>2. PduRight(new.incoming[j], sz)
        BY <4>1 DEF FragmentsRight
      <4> QED
        BY <3>1, <4>2 DEF PduRight
    <3> QED
      BY <1>8, <3>1, <3>2, <3>3
  <2> QED
    BY <1>7, <2>1, <2>2
<1>11. ASSUME NEW id \in 1..Len(sz)
       PROVE  Arrive(arr, p)[id] \subseteq 0..(sz[id] - 1)
  BY <1>8, <1>9 DEF ArrivedRight
<1>12. ArrivedRight(new.incoming, Arrive(arr, p), sz)
  BY <1>8, <1>10, <1>11 DEF ArrivedRight
<1> QED
  BY <1>6, <1>7, <1>12

\* A packet is passed on with its last PDU, and only when all of it has arrived.
LEMMA PassedOnWhole ==
    ASSUME NEW sz \in PacketSizes, NEW q, NEW inc, FragmentsRight(inc, q, sz),
           NEW arr, ArrivedRight(inc, arr, sz),
           NEW p, PduRight(p, sz),
           \A j \in 1..Len(inc) : Apart(p, inc[j]),
           NEW rec, NEW kept, NEW new,
           Outcome(inc, rec, p, kept, new),
           ArrivedRight(new.incoming, Arrive(arr, p), sz)
    PROVE  \/ new.received = rec
           \/ /\ new.received = Append(rec, p.id) /\ p.latest
              /\ Arrive(arr, p)[p.id] = 0..(sz[p.id] - 1)
<1>1. /\ FragmentsRight(kept, q, sz)
      /\ \A j \in 1..Len(kept) : kept[j].id = p.id /\ Apart(p, kept[j])
      /\ \A j \in 1..Len(kept) : j \in 1..Len(inc) /\ kept[j] = inc[j]
      /\ Covered(Append(kept, p)) = Covered(kept) \cup BytesIn(p)
  BY KeptFragments DEF Outcome
<1>2. p.id \in 1..Len(sz)
  BY DEF PduRight
<1>3. /\ Arrive(arr, p)[p.id] = arr[p.id] \cup BytesIn(p)
      /\ Arrive(arr, p)[p.id] \subseteq 0..(sz[p.id] - 1)
  <2>1. Arrive(arr, p)[p.id] = arr[p.id] \cup BytesIn(p)
    BY <1>2 DEF Arrive, ArrivedRight
  <2>2. Arrive(arr, p)[p.id] \subseteq 0..(sz[p.id] - 1)
    BY <1>2 DEF ArrivedRight
  <2> QED
    BY <2>1, <2>2
<1>4. Covered(kept) \subseteq arr[p.id]
  <2>1. \A j \in 1..Len(kept) : BytesIn(kept[j]) \subseteq arr[p.id]
    BY <1>1 DEF ArrivedRight
  <2> QED
    BY <2>1 DEF Covered
<1>5. CASE ~p.isFragment
  <2>1. p.latest /\ p.startByte = 0 /\ p.endByte = sz[p.id] - 1
    BY <1>5 DEF PduRight
  <2>2. BytesIn(p) = 0..(sz[p.id] - 1)
    BY <2>1 DEF BytesIn
  <2>3. Arrive(arr, p)[p.id] = 0..(sz[p.id] - 1)
    BY <1>3, <2>2
  <2>4. new.received = Append(rec, p.id)
    BY <1>5 DEF Outcome
  <2> QED
    BY <2>1, <2>3, <2>4
<1>6. CASE p.isFragment /\ p.latest /\ Len(Append(kept, p)) = p.number + 1
  <2>1. Covered(Append(kept, p)) = 0..(sz[p.id] - 1)
    <3>1. p.latest /\ Len(Append(kept, p)) = p.number + 1
      BY <1>6
    <3>2. \A j \in 1..Len(kept) : kept[j].id = p.id /\ Apart(p, kept[j])
      BY <1>1
    <3>3. FragmentsRight(kept, q, sz) /\ PduRight(p, sz) /\ p.latest
      BY <1>1, <3>1
    <3>4. Len(Append(kept, p)) = p.number + 1
              <=> Covered(Append(kept, p)) = 0..(sz[p.id] - 1)
      BY <3>2, <3>3, FragmentsAre
    <3> QED
      BY <3>1, <3>4
  <2>2. Arrive(arr, p)[p.id] = 0..(sz[p.id] - 1)
    BY <1>1, <1>3, <1>4, <2>1
  <2>3. new.received = Append(rec, p.id)
    BY <1>6 DEF Outcome
  <2> QED
    BY <1>6, <2>2, <2>3
<1>7. CASE p.isFragment /\ ~p.latest
  BY <1>7 DEF Outcome
<1>8. CASE p.isFragment /\ p.latest /\ Len(Append(kept, p)) # p.number + 1
  BY <1>8 DEF Outcome
<1> QED
  BY <1>5, <1>6, <1>7, <1>8

\* What was passed on stays right.
LEMMA PacketsArrive ==
    ASSUME NEW sz \in PacketSizes, NEW q, QueueRight(q, sz),
           NEW P, OnTheAir(P, q, sz), NEW p \in P,
           NEW arr, NEW rec, ReceivedRight(rec, arr, P, q, sz),
           \A id \in 1..Len(sz) : /\ arr[id] \subseteq Arrive(arr, p)[id]
                                  /\ Arrive(arr, p)[id] \subseteq 0..(sz[id] - 1),
           NEW new,
           \/ new = rec
           \/ /\ new = Append(rec, p.id) /\ p.latest
              /\ Arrive(arr, p)[p.id] = 0..(sz[p.id] - 1)
    PROVE  ReceivedRight(new, Arrive(arr, p), P \ {p}, q, sz)
<1>1. /\ rec \in Seq(1..Len(sz)) /\ Len(rec) \in Nat
      /\ \A i \in 1..Len(rec) : rec[i] \in 1..Len(sz)
  BY DEF ReceivedRight
<1>2. PICK arr2 : arr2 = Arrive(arr, p)
  OBVIOUS
<1>3. ASSUME NEW i \in 1..Len(rec)
      PROVE  /\ arr2[rec[i]] = 0..(sz[rec[i]] - 1) /\ rec[i] < FirstId(q, sz)
             /\ \A r \in P : r.latest => rec[i] # r.id
             /\ \A j \in 1..Len(rec) : rec[i] = rec[j] => i = j
  <2>1. /\ arr[rec[i]] = 0..(sz[rec[i]] - 1) /\ rec[i] < FirstId(q, sz)
        /\ \A r \in P : r.latest => rec[i] # r.id
        /\ \A j \in 1..Len(rec) : rec[i] = rec[j] => i = j
    BY DEF ReceivedRight
  <2> QED
    BY <1>1, <1>2, <2>1
<1>4. CASE new = rec
  BY <1>1, <1>2, <1>3, <1>4 DEF ReceivedRight
<1>5. CASE new = Append(rec, p.id) /\ p.latest /\ arr2[p.id] = 0..(sz[p.id] - 1)
  <2>1. PduRight(p, sz) /\ GoneOn(p, q, sz) /\ p.id \in 1..Len(sz)
    BY DEF OnTheAir, PduRight
  <2>2. p.id < FirstId(q, sz)
    BY <1>5, <2>1, LatestIsLast
  <2>3. ASSUME NEW r \in P \ {p}, r.latest
        PROVE  p.id # r.id
    <3>1. PduRight(r, sz) /\ Apart(p, r)
      BY <2>3 DEF OnTheAir
    <3>2. p.id = r.id => ~ Earlier(p, r) /\ ~ Earlier(r, p)
      BY <1>5, <2>1, <2>3, <3>1, LatestIsLast
    <3> QED
      BY <3>1, <3>2 DEF Apart
  <2>4. PICK fs \in Seq(1..Len(sz)) : fs = new
    <3>1. Append(rec, p.id) \in Seq(1..Len(sz))
      BY <1>1, <2>1
    <3> QED
      BY <1>5, <3>1
  <2>5. /\ Len(fs) = Len(rec) + 1 /\ fs[Len(rec) + 1] = p.id
        /\ \A i \in 1..Len(rec) : fs[i] = rec[i] /\ i # Len(rec) + 1
        /\ \A i \in 1..Len(fs) : i \in 1..Len(rec) \/ i = Len(rec) + 1
    BY <1>1, <1>5, <2>1, <2>4
  <2>6. ASSUME NEW i \in 1..Len(fs)
        PROVE  /\ arr2[fs[i]] = 0..(sz[fs[i]] - 1) /\ fs[i] < FirstId(q, sz)
               /\ \A r \in P \ {p} : r.latest => fs[i] # r.id
               /\ \A j \in 1..Len(fs) : fs[i] = fs[j] => i = j
    <3>1. CASE i \in 1..Len(rec)
      <4>1. rec[i] # p.id
        BY <1>3, <1>5, <3>1
      <4>2. fs[i] = rec[i]
        BY <2>5, <3>1
      <4>3. /\ arr2[fs[i]] = 0..(sz[fs[i]] - 1) /\ fs[i] < FirstId(q, sz)
            /\ \A r \in P : r.latest => fs[i] # r.id
        BY <1>3, <3>1, <4>2
      <4>4. ASSUME NEW j \in 1..Len(fs), fs[i] = fs[j]
            PROVE  i = j
        <5>1. j \in 1..Len(rec)
          BY <2>5, <4>1, <4>2, <4>4
        <5>2. rec[i] = rec[j]
          BY <2>5, <4>2, <4>4, <5>1
        <5> QED
          BY <1>3, <3>1, <5>1, <5>2
      <4> QED
        BY <4>3, <4>4
    <3>2. CASE i = Len(rec) + 1
      <4>1. \A j \in 1..Len(rec) : rec[j] # p.id
        BY <1>3, <1>5
      <4> QED
        BY <1>5, <2>2, <2>3, <2>5, <3>2, <4>1
    <3> QED
      BY <2>5, <3>1, <3>2
  <2> QED
    BY <1>2, <2>4, <2>6 DEF ReceivedRight
<1> QED
  BY <1>2, <1>4, <1>5

\* Where the queue stands.
LEMMA FirstIdIs ==
    ASSUME NEW sz \in PacketSizes, NEW q, QueueRight(q, sz)
    PROVE  /\ FirstId(q, sz) \in Nat \ {0}
           /\ \A p \in Pdus : GoneOn(p, q, sz) => p.id <= FirstId(q, sz)
<1>1. q.elements \in Seq(Elements) /\ Len(q.elements) \in Nat /\ Len(sz) \in Nat
  <2>1. q.elements \in Seq(Elements)
    BY QueueHas DEF QueueRight
  <2> QED
    BY <2>1 DEF PacketSizes
<1>2. FirstId(q, sz) \in Nat \ {0}
  BY <1>1 DEF FirstId, QueueRight
<1>3. ASSUME NEW p \in Pdus, GoneOn(p, q, sz)
      PROVE  p.id <= FirstId(q, sz)
  <2>1. p.id \in Nat
    BY DEF Pdus
  <2>2. CASE p.id < FirstId(q, sz)
    BY <1>2, <2>1, <2>2
  <2>3. CASE q.elements # <<>> /\ p.id = q.elements[1].id
    <3>1. 1 \in 1..Len(q.elements)
      BY <1>1, <2>3
    <3>2. q.elements[1].id = Len(sz) - Len(q.elements) + 1
      BY <3>1 DEF QueueRight
    <3> QED
      BY <1>2, <2>1, <2>3, <3>2 DEF FirstId
  <2> QED
    BY <1>3, <2>2, <2>3 DEF GoneOn
<1> QED
  BY <1>2, <1>3

\* The bytes of a packet among PDUs that are all of it, or none of it.
LEMMA BytesOfOne ==
    ASSUME NEW b, NEW id
    PROVE  /\ (\A j \in 1..Len(b) : b[j].id = id) => BytesOf(b, id) = Covered(b)
           /\ (\A j \in 1..Len(b) : b[j].id # id) => BytesOf(b, id) = {}
<1>1. BytesOf(b, id) = UNION {BytesIn(b[i]) : i \in {j \in 1..Len(b) : b[j].id = id}}
  BY DEF BytesOf, BytesIn
<1>2. ASSUME \A j \in 1..Len(b) : b[j].id = id
      PROVE  BytesOf(b, id) = Covered(b)
  <2>1. {j \in 1..Len(b) : b[j].id = id} = 1..Len(b)
    BY <1>2
  <2> QED
    BY <1>1, <2>1 DEF Covered
<1>3. ASSUME \A j \in 1..Len(b) : b[j].id # id
      PROVE  BytesOf(b, id) = {}
  <2>1. {j \in 1..Len(b) : b[j].id = id} = {}
    BY <1>3
  <2> QED
    BY <1>1, <2>1
<1> QED
  BY <1>2, <1>3

\* With the bytes of p the packet is whole.
Completes(p, inc, sz) == BytesOf(inc, p.id) \cup BytesIn(p) = 0..(sz[p.id] - 1)

\* Without HARQ a packet is passed on as soon as all of it has arrived.
LEMMA WholeIsPassedOn ==
    ASSUME NEW sz \in PacketSizes, NEW q, NEW inc, FragmentsRight(inc, q, sz),
           NEW p, PduRight(p, sz), \A j \in 1..Len(inc) : Apart(p, inc[j]),
           NEW rec, NEW kept, NEW new,
           Outcome(inc, rec, p, kept, new),
           Completes(p, inc, sz)
    PROVE  new.received = Append(rec, p.id)
<1>1. /\ FragmentsRight(kept, q, sz)
      /\ \A j \in 1..Len(kept) : kept[j].id = p.id /\ Apart(p, kept[j])
      /\ Covered(Append(kept, p)) = 0..(sz[p.id] - 1)
      /\ BytesOf(inc, p.id) = Covered(kept)
  <2>1. StillKept(inc, p, kept)
    BY DEF Outcome
  <2>2. /\ FragmentsRight(kept, q, sz)
        /\ \A j \in 1..Len(kept) : kept[j].id = p.id /\ Apart(p, kept[j])
        /\ BytesOf(inc, p.id) = Covered(kept)
        /\ Covered(Append(kept, p)) = Covered(kept) \cup BytesIn(p)
    BY <2>1, KeptFragments
  <2>3. Covered(Append(kept, p)) = 0..(sz[p.id] - 1)
    BY <2>2 DEF Completes
  <2> QED
    BY <2>2, <2>3
<1>2. CASE p.latest
  <2>1. Len(Append(kept, p)) = p.number + 1
            <=> Covered(Append(kept, p)) = 0..(sz[p.id] - 1)
    BY <1>1, <1>2, FragmentsAre
  <2>2. Len(Append(kept, p)) = p.number + 1
    BY <1>1, <2>1
  <2> QED
    BY <1>2, <2>2 DEF Outcome
<1>3. CASE ~p.latest
  <2>1. p.id \in 1..Len(sz) /\ sz[p.id] \in Nat \ {0}
    BY DEF PduRight, PacketSizes
  <2>2. ASSUME NEW r, PduRight(r, sz), ~r.latest, r.id = p.id
        PROVE  sz[p.id] - 1 \notin BytesIn(r)
    <3>1. r.endByte # sz[p.id] - 1 /\ r.endByte < sz[p.id] /\ r \in Pdus
      BY <2>2 DEF PduRight
    <3>2. r.startByte \in Nat /\ r.endByte \in Nat
      BY <3>1 DEF Pdus
    <3> QED
      BY <2>1, <3>1, <3>2 DEF BytesIn
  <2>3. sz[p.id] - 1 \notin BytesIn(p)
    BY <1>3, <2>2
  <2>4. \A j \in 1..Len(kept) : sz[p.id] - 1 \notin BytesIn(kept[j])
    BY <1>1, <2>2 DEF FragmentsRight
  <2>5. sz[p.id] - 1 \notin Covered(kept)
    BY <2>4 DEF Covered
  <2>6. sz[p.id] - 1 \in 0..(sz[p.id] - 1)
    BY <2>1
  <2>7. sz[p.id] - 1 \in BytesOf(inc, p.id) \cup BytesIn(p)
    BY <2>6 DEF Completes
  <2> QED
    BY <1>1, <2>3, <2>5, <2>7
<1> QED
  BY <1>2, <1>3

\* Without HARQ, what follows from the order of arrival stays when the first PDU of those
\* on the air is received.
LEMMA TurnsArrive ==
    ASSUME NEW sz \in PacketSizes, NEW q, QueueRight(q, sz),
           NEW P, OnTheAir(P, q, sz), NEW p \in P, \A r \in P \ {p} : Precedes(p, r),
           NEW inc, FragmentsRight(inc, q, sz), \A j \in 1..Len(inc) : Apart(p, inc[j]),
           NEW arr, ArrivedRight(inc, arr, sz),
           NEW rec, rec \in Seq(1..Len(sz)), InTurn(inc, rec, arr, P, q, sz),
           NEW kept, NEW new, Outcome(inc, rec, p, kept, new)
    PROVE  InTurn(new.incoming, new.received, Arrive(arr, p), P \ {p}, q, sz)
<1>1. PduRight(p, sz) /\ GoneOn(p, q, sz) /\ p \in Pdus /\ p.id \in 1..Len(sz)
  BY DEF OnTheAir, PduRight
<1>2. /\ FragmentsRight(kept, q, sz)
      /\ \A j \in 1..Len(kept) : kept[j].id = p.id /\ Apart(p, kept[j])
      /\ BytesOf(inc, p.id) = Covered(kept)
      /\ Covered(Append(kept, p)) = Covered(kept) \cup BytesIn(p)
  BY <1>1, KeptFragments DEF Outcome
<1>3. /\ ArrivedRight(new.incoming, Arrive(arr, p), sz)
      /\ \A j \in 1..Len(new.incoming) :
            new.incoming[j] = p \/ \E k \in 1..Len(inc) : new.incoming[j] = inc[k]
  <2>1. ArrivedRight(new.incoming, Arrive(arr, p), sz)
    BY <1>1, FragmentsArrive
  <2>2. ASSUME NEW j \in 1..Len(new.incoming)
        PROVE  new.incoming[j] = p \/ \E k \in 1..Len(inc) : new.incoming[j] = inc[k]
    BY <1>1, FragmentsArrive
  <2> QED
    BY <2>1, <2>2
<1>4. \/ new.received = rec
      \/ new.received = Append(rec, p.id) /\ p.latest
  <2>1. ArrivedRight(new.incoming, Arrive(arr, p), sz)
    BY <1>3
  <2>2. PduRight(p, sz)
    BY <1>1
  <2> QED
    BY <2>1, <2>2, PassedOnWhole
<1>5. ASSUME NEW r \in P \ {p}
      PROVE  /\ PduRight(r, sz) /\ p.id <= r.id /\ r.id \in Nat
             /\ p.latest => p.id < r.id
             /\ \A i \in 1..Len(rec) : rec[i] < r.id
             /\ \A k \in 1..Len(inc) : Precedes(inc[k], r)
  <2>1. PduRight(r, sz) /\ Precedes(p, r)
    BY DEF OnTheAir
  <2>2. r.id \in Nat /\ p.id \in Nat
    BY <1>1, <2>1 DEF PduRight
  <2>3. p.latest => p.id < r.id
    <3>1. CASE p.latest
      <4>1. p.id = r.id => ~ Earlier(p, r)
        BY <1>1, <2>1, <3>1, LatestIsLast
      <4> QED
        BY <2>1, <4>1 DEF Precedes
    <3> QED
      BY <3>1
  <2>4. p.id <= r.id
    BY <2>1, <2>2 DEF Precedes
  <2> QED
    BY <2>1, <2>2, <2>3, <2>4 DEF InTurn
<1>6. /\ \A i \in 1..Len(rec) : rec[i] < p.id /\ rec[i] \in Nat
      /\ Len(rec) \in Nat /\ p.id \in Nat
  BY <1>1 DEF InTurn
<1>7. PICK fs \in Seq(1..Len(sz)) : fs = new.received
  <2>1. Append(rec, p.id) \in Seq(1..Len(sz))
    BY <1>1
  <2> QED
    BY <1>4, <2>1
<1>8. /\ \A i \in 1..Len(rec) : i \in 1..Len(fs) /\ fs[i] = rec[i]
      /\ \A i \in 1..Len(fs) :
            i \in 1..Len(rec) \/ (i = Len(rec) + 1 /\ fs[i] = p.id /\ p.latest)
  <2>1. CASE fs = rec
    BY <2>1
  <2>2. CASE fs = Append(rec, p.id) /\ p.latest
    BY <1>1, <1>6, <2>2
  <2> QED
    BY <1>4, <1>7, <2>1, <2>2
<1>9. ASSUME NEW r \in P \ {p}
      PROVE  /\ \A j \in 1..Len(new.incoming) : Precedes(new.incoming[j], r)
             /\ \A i \in 1..Len(fs) : fs[i] < r.id
  <2>1. Precedes(p, r)
    OBVIOUS
  <2>2. \A j \in 1..Len(new.incoming) : Precedes(new.incoming[j], r)
    BY <1>3, <1>5, <2>1
  <2>3. \A i \in 1..Len(fs) : fs[i] < r.id
    BY <1>5, <1>8
  <2> QED
    BY <2>2, <2>3
<1>10. ASSUME NEW i \in 1..Len(fs), NEW j \in 1..Len(fs), i < j
       PROVE  fs[i] < fs[j]
  <2>1. i \in 1..Len(rec)
    <3>1. /\ i \in 1..Len(rec) \/ i = Len(rec) + 1
          /\ j \in 1..Len(rec) \/ j = Len(rec) + 1
      BY <1>8
    <3> QED
      BY <1>6, <1>10, <3>1
  <2>2. CASE j \in 1..Len(rec)
    <3>1. rec[i] < rec[j]
      BY <1>10, <2>1, <2>2 DEF InTurn
    <3> QED
      BY <1>8, <2>1, <2>2, <3>1
  <2>3. CASE j \notin 1..Len(rec)
    <3>1. fs[j] = p.id /\ fs[i] = rec[i]
      BY <1>8, <2>1, <2>3
    <3> QED
      BY <1>6, <2>1, <3>1
  <2> QED
    BY <2>2, <2>3
<1>11. PICK arr2 : arr2 = Arrive(arr, p)
  OBVIOUS
<1>12. /\ arr2[p.id] = arr[p.id] \cup BytesIn(p)
       /\ \A id \in 1..Len(sz) : id # p.id => arr2[id] = arr[id]
  BY <1>1, <1>11 DEF Arrive, ArrivedRight
<1>13. arr[p.id] = BytesOf(inc, p.id)
  <2>1. \E r \in P : r.id <= p.id
    BY <1>6
  <2> QED
    BY <1>1, <2>1 DEF InTurn
<1>14. ASSUME NEW id \in 1..Len(sz), arr2[id] = 0..(sz[id] - 1)
       PROVE  \E i \in 1..Len(fs) : fs[i] = id
  <2>1. CASE id = p.id
    <3>1. Completes(p, inc, sz)
      BY <1>12, <1>13, <1>14, <2>1 DEF Completes
    <3>2. new.received = Append(rec, p.id)
      BY <1>1, <3>1, WholeIsPassedOn
    <3>3. Len(rec) + 1 \in 1..Len(fs) /\ fs[Len(rec) + 1] = p.id
      BY <1>1, <1>6, <1>7, <3>2
    <3> QED
      BY <2>1, <3>3
  <2>2. CASE id # p.id
    <3>1. arr[id] = 0..(sz[id] - 1)
      BY <1>12, <1>14, <2>2
    <3>2. PICK i \in 1..Len(rec) : rec[i] = id
      BY <3>1 DEF InTurn
    <3> QED
      BY <1>8, <3>2
  <2> QED
    BY <2>1, <2>2
<1>15. ASSUME NEW id \in 1..Len(sz),
              FirstId(q, sz) <= id \/ \E r \in P \ {p} : r.id <= id
       PROVE  arr2[id] = BytesOf(new.incoming, id)
  <2>1. FirstId(q, sz) \in Nat \ {0} /\ p.id <= FirstId(q, sz)
    BY <1>1, FirstIdIs
  <2>2. CASE id = p.id
    <3>1. ~p.latest
      <4>1. CASE FirstId(q, sz) <= id
        <5>1. ~ (p.id < FirstId(q, sz))
          BY <1>6, <2>1, <2>2, <4>1
        <5> QED
          BY <1>1, <5>1, LatestIsLast
      <4>2. CASE \E r \in P \ {p} : r.id <= id
        <5>1. PICK r \in P \ {p} : r.id <= p.id
          BY <2>2, <4>2
        <5>2. ~ (p.id < r.id)
          BY <1>5, <1>6, <5>1
        <5> QED
          BY <1>5, <5>2
      <4> QED
        BY <1>15, <4>1, <4>2
    <3>2. p.isFragment
      BY <1>1, <3>1 DEF PduRight
    <3>3. new.incoming = Append(kept, p)
      BY <3>1, <3>2 DEF Outcome
    <3>4. \A j \in 1..Len(new.incoming) : new.incoming[j].id = p.id
      <4>1. kept \in Seq(Pdus)
        BY <1>2 DEF FragmentsRight
      <4>2. \A j \in 1..Len(Append(kept, p)) :
                \/ j \in 1..Len(kept) /\ Append(kept, p)[j] = kept[j]
                \/ Append(kept, p)[j] = p
        BY <1>1, <4>1
      <4> QED
        BY <1>2, <3>3, <4>2
    <3>5. BytesOf(new.incoming, p.id) = Covered(Append(kept, p))
      BY <3>3, <3>4, BytesOfOne
    <3> QED
      BY <1>2, <1>12, <1>13, <2>2, <3>5
  <2>3. CASE id # p.id
    <3>1. p.id < id
      <4>1. CASE FirstId(q, sz) <= id
        BY <1>6, <2>1, <2>3, <4>1
      <4>2. CASE \E r \in P \ {p} : r.id <= id
        BY <1>5, <1>6, <2>3, <4>2
      <4> QED
        BY <1>15, <4>1, <4>2
    <3>2. \A k \in 1..Len(inc) : inc[k].id # id
      <4>1. ASSUME NEW k \in 1..Len(inc)
            PROVE  inc[k].id # id
        <5>1. Precedes(inc[k], p)
          BY DEF InTurn
        <5>2. inc[k].id \in Nat
          BY DEF FragmentsRight, PduRight
        <5>3. inc[k].id <= p.id
          BY <1>6, <5>1, <5>2 DEF Precedes
        <5> QED
          BY <1>6, <3>1, <5>2, <5>3
      <4> QED
        BY <4>1
    <3>3. \A k \in 1..Len(new.incoming) : new.incoming[k].id # id
      BY <1>3, <2>3, <3>2
    <3>4. arr2[id] = arr[id]
      BY <1>12, <2>3
    <3>5. arr[id] = BytesOf(inc, id)
      <4>1. FirstId(q, sz) <= id \/ \E r \in P : r.id <= id
        BY <1>15
      <4> QED
        BY <4>1 DEF InTurn
    <3>6. BytesOf(inc, id) = {} /\ BytesOf(new.incoming, id) = {}
      BY <3>2, <3>3, BytesOfOne
    <3> QED
      BY <3>4, <3>5, <3>6
  <2> QED
    BY <2>2, <2>3
<1> QED
  BY <1>7, <1>9, <1>10, <1>11, <1>14, <1>15 DEF InTurn

\* A PDU is received.
LEMMA PduArrives ==
    ASSUME NEW sz \in PacketSizes, NEW q, QueueRight(q, sz),
           NEW P, OnTheAir(P, q, sz), NEW p \in P,
           NEW inc, NEW rec, NEW arr, ReceiverRight(inc, rec, arr, P, q, sz),
           NEW new, new = Receive([incoming |-> inc, received |-> rec], p)
    PROVE  /\ ReceiverRight(new.incoming, new.received, Arrive(arr, p), P \ {p}, q, sz)
           /\ (\A r \in P \ {p} : Precedes(p, r)) /\ InTurn(inc, rec, arr, P, q, sz)
                  => InTurn(new.incoming, new.received, Arrive(arr, p), P \ {p}, q, sz)
<1>1. /\ FragmentsRight(inc, q, sz) /\ ArrivedRight(inc, arr, sz)
      /\ ReceivedRight(rec, arr, P, q, sz)
      /\ \A r \in P : \A j \in 1..Len(inc) : Apart(r, inc[j])
  BY DEF ReceiverRight
<1>2. PduRight(p, sz) /\ GoneOn(p, q, sz) /\ \A j \in 1..Len(inc) : Apart(p, inc[j])
  BY <1>1 DEF OnTheAir
<1>3. PICK kept \in Seq(Pdus) : Outcome(inc, rec, p, kept, new)
  <2>1. inc \in Seq(Pdus) /\ \A j \in 1..Len(inc) : inc[j].id = inc[1].id
    BY <1>1 DEF FragmentsRight
  <2> QED
    BY <2>1, ReceiveIs
<1>4. /\ FragmentsRight(new.incoming, q, sz)
      /\ ArrivedRight(new.incoming, Arrive(arr, p), sz)
      /\ \A j \in 1..Len(new.incoming) :
            new.incoming[j] = p \/ \E k \in 1..Len(inc) : new.incoming[j] = inc[k]
  BY <1>1, <1>2, <1>3, FragmentsArrive
<1>5. \/ new.received = rec
      \/ /\ new.received = Append(rec, p.id) /\ p.latest
         /\ Arrive(arr, p)[p.id] = 0..(sz[p.id] - 1)
  BY <1>1, <1>2, <1>3, <1>4, PassedOnWhole
<1>6. ReceivedRight(new.received, Arrive(arr, p), P \ {p}, q, sz)
  <2>1. \A id \in 1..Len(sz) : /\ arr[id] \subseteq Arrive(arr, p)[id]
                               /\ Arrive(arr, p)[id] \subseteq 0..(sz[id] - 1)
    BY <1>1, <1>4 DEF ArrivedRight, Arrive
  <2> QED
    BY <1>1, <1>5, <2>1, PacketsArrive
<1>7. ASSUME NEW r \in P \ {p}, NEW j \in 1..Len(new.incoming)
      PROVE  Apart(r, new.incoming[j])
  <2>1. Apart(r, p) /\ \A k \in 1..Len(inc) : Apart(r, inc[k])
    BY <1>1 DEF OnTheAir
  <2> QED
    BY <1>4, <2>1
<1>8. ASSUME \A r \in P \ {p} : Precedes(p, r), InTurn(inc, rec, arr, P, q, sz)
      PROVE  InTurn(new.incoming, new.received, Arrive(arr, p), P \ {p}, q, sz)
  <2>1. rec \in Seq(1..Len(sz))
    BY <1>1 DEF ReceivedRight
  <2> QED
    BY <1>1, <1>2, <1>3, <1>8, <2>1, TurnsArrive
<1>9. ReceiverRight(new.incoming, new.received, Arrive(arr, p), P \ {p}, q, sz)
  BY <1>4, <1>6, <1>7 DEF ReceiverRight
<1> QED
  BY <1>8, <1>9

\* What the receiver keeps and has passed on.
Receptions == [incoming : Seq(Pdus), received : Seq(Nat)]

\* The recursion behind ReceiveAll.
LEMMA ReceiveAllRecursion ==
    ASSUME NEW s \in Receptions, NEW b \in Seq(Pdus)
    PROVE  \E g : /\ g \in [0..Len(b) -> Receptions]
                  /\ g[0] = s
                  /\ \A j \in 1..Len(b) : g[j] = Receive(g[j - 1], b[j])
                  /\ ReceiveAll(s, b) = g[Len(b)]
<1> DEFINE Eq(g) == g = [j \in 0..Len(b) |->
                            IF j = 0 THEN s ELSE Receive(g[j - 1], b[j])]
           step == [j \in 1..Len(b) |-> [x \in Receptions |-> Receive(x, b[j])]]
<1>1. ASSUME NEW x \in Receptions, NEW p \in Pdus
      PROVE  Receive(x, p) \in Receptions
  <2>1. x.incoming \in Seq(Pdus) /\ x.received \in Seq(Nat) /\ p.id \in Nat
    BY DEF Receptions, Pdus
  <2>2. PICK kept : kept = ForgetOther(x.incoming, p)
    OBVIOUS
  <2>3. kept \in Seq(Pdus)
    BY <2>1, <2>2 DEF ForgetOther
  <2>4. /\ Append(kept, p) \in Seq(Pdus) /\ <<>> \in Seq(Pdus)
        /\ Append(x.received, p.id) \in Seq(Nat)
    BY <2>1, <2>3
  <2> QED
    BY <2>1, <2>2, <2>3, <2>4 DEF Receive, Receptions
<1>2. PICK f \in [0..Len(b) -> Receptions] : Iterates(f, s, step, Len(b))
  <2>1. step \in [1..Len(b) -> [Receptions -> Receptions]]
    BY <1>1
  <2>2. Len(b) \in Nat
    OBVIOUS
  <2> HIDE DEF step
  <2> QED
    BY <2>1, <2>2, Recursion
<1>3. Eq(f)
  <2>1. f = [j \in 0..Len(b) |-> f[j]]
    OBVIOUS
  <2>2. ASSUME NEW j \in 1..Len(b)
        PROVE  f[j] = Receive(f[j - 1], b[j])
    <3>1. f[j - 1] \in Receptions
      OBVIOUS
    <3>2. f[j] = step[j][f[j - 1]]
      BY <1>2 DEF Iterates
    <3> QED
      BY <3>1, <3>2
  <2>3. f[0] = s
    BY <1>2 DEF Iterates
  <2>4. \A j \in 0..Len(b) : f[j] = IF j = 0 THEN s ELSE Receive(f[j - 1], b[j])
    BY <2>2, <2>3
  <2> QED
    BY <2>1, <2>4
<1>4. PICK g : g = CHOOSE h : Eq(h)
  OBVIOUS
<1>5. Eq(g)
  <2> HIDE DEF Eq
  <2> QED
    BY <1>3, <1>4
<1>6. ReceiveAll(s, b) = g[Len(b)]
  BY <1>4 DEF ReceiveAll
<1>7. /\ Len(b) \in Nat /\ g[0] = s
      /\ \A j \in 1..Len(b) : g[j] = Receive(g[j - 1], b[j])
  BY <1>5
<1>8. \A j \in 0..Len(b) : g[j] \in Receptions
  <2>1. \A j \in 1..Len(b) : g[j - 1] \in Receptions => g[j] \in Receptions
    BY <1>1, <1>7
  <2>2. g[0] \in Receptions
    BY <1>7
  <2> HIDE DEF Eq, step
  <2> QED
    BY <1>7, <2>1, <2>2, Along
<1>9. g \in [0..Len(b) -> Receptions]
  BY <1>5, <1>8
<1> QED
  BY <1>6, <1>7, <1>9

\* With fewer PDUs on the air the receiver is as it should be.
LEMMA FewerOnTheAir ==
    ASSUME NEW sz, NEW q, NEW P, NEW R, R \subseteq P, NEW inc, NEW rec, NEW arr
    PROVE  /\ ReceiverRight(inc, rec, arr, P, q, sz) => ReceiverRight(inc, rec, arr, R, q, sz)
           /\ InTurn(inc, rec, arr, P, q, sz) => InTurn(inc, rec, arr, R, q, sz)
<1>1. ASSUME ReceiverRight(inc, rec, arr, P, q, sz)
      PROVE  ReceiverRight(inc, rec, arr, R, q, sz)
  <2>1. /\ FragmentsRight(inc, q, sz) /\ ArrivedRight(inc, arr, sz)
        /\ \A p \in R : \A j \in 1..Len(inc) : Apart(p, inc[j])
    BY <1>1 DEF ReceiverRight
  <2>2. ReceivedRight(rec, arr, R, q, sz)
    BY <1>1 DEF ReceiverRight, ReceivedRight
  <2> QED
    BY <2>1, <2>2 DEF ReceiverRight
<1>2. ASSUME InTurn(inc, rec, arr, P, q, sz)
      PROVE  InTurn(inc, rec, arr, R, q, sz)
  BY <1>2 DEF InTurn
<1> QED
  BY <1>1, <1>2

\* Only the values of the history matter.
LEMMA SameArrived ==
    ASSUME NEW sz, NEW q, NEW P, NEW inc, NEW rec, NEW arr,
           ReceiverRight(inc, rec, arr, P, q, sz),
           NEW arr2, DOMAIN arr2 = 1..Len(sz), \A id \in 1..Len(sz) : arr2[id] = arr[id],
           \A j \in 1..Len(inc) : inc[j].id \in 1..Len(sz)
    PROVE  /\ ReceiverRight(inc, rec, arr2, P, q, sz)
           /\ InTurn(inc, rec, arr, P, q, sz) => InTurn(inc, rec, arr2, P, q, sz)
<1>1. ArrivedRight(inc, arr2, sz)
  BY DEF ReceiverRight, ArrivedRight
<1>2. ReceivedRight(rec, arr2, P, q, sz)
  <2>1. \A i \in 1..Len(rec) : rec[i] \in 1..Len(sz)
    BY DEF ReceiverRight, ReceivedRight
  <2> QED
    BY <2>1 DEF ReceiverRight, ReceivedRight
<1>3. InTurn(inc, rec, arr, P, q, sz) => InTurn(inc, rec, arr2, P, q, sz)
  BY DEF InTurn
<1> QED
  BY <1>1, <1>2, <1>3 DEF ReceiverRight

\* The bytes of a burst have arrived too.
ArriveAll(arr, b, sz) == [id \in 1..Len(sz) |-> arr[id] \cup BytesOf(b, id)]

\* The burst b is received.
Receives(inc, rec, b, new) == new = ReceiveAll([incoming |-> inc, received |-> rec], b)

\* The PDUs of the burst b are among P, in the order in which they were cut, and those
\* of R are the others.
Leaves(b, P, R) ==
    /\ b \in Seq(Pdus) /\ \A j \in 1..Len(b) : b[j] \in P
    /\ \A j, k \in 1..Len(b) : j < k => Precedes(b[j], b[k])
    /\ \A r \in R : r \in P /\ \A k \in 1..Len(b) : r # b[k]

\* All PDUs on the air are of the burst b.
Alone(b, P) == \A r \in P : \E k \in 1..Len(b) : r = b[k]

\* A burst is received.
LEMMA BurstArrives ==
    ASSUME NEW sz \in PacketSizes, NEW q, QueueRight(q, sz),
           NEW P, OnTheAir(P, q, sz),
           NEW b, NEW R, Leaves(b, P, R),
           NEW inc, NEW rec, NEW arr, ReceiverRight(inc, rec, arr, P, q, sz),
           NEW new, Receives(inc, rec, b, new),
           NEW arr2, arr2 = ArriveAll(arr, b, sz)
    PROVE  /\ ReceiverRight(new.incoming, new.received, arr2, R, q, sz)
           /\ Alone(b, P) /\ InTurn(inc, rec, arr, P, q, sz)
                  => InTurn(new.incoming, new.received, arr2, R, q, sz)
<1> DEFINE ordered == Alone(b, P) /\ InTurn(inc, rec, arr, P, q, sz)
<1> USE DEF Leaves, Alone
<1>1. PICK s \in Receptions : s = [incoming |-> inc, received |-> rec]
  <2>1. inc \in Seq(Pdus) /\ rec \in Seq(1..Len(sz))
    BY DEF ReceiverRight, FragmentsRight, ReceivedRight
  <2>2. rec \in Seq(Nat)
    <3>1. \A x \in 1..Len(sz) : x \in Nat
      OBVIOUS
    <3> QED
      BY <2>1, <3>1
  <2> QED
    BY <2>1, <2>2 DEF Receptions
<1>2. PICK g : /\ g \in [0..Len(b) -> Receptions]
               /\ g[0] = s
               /\ \A j \in 1..Len(b) : g[j] = Receive(g[j - 1], b[j])
               /\ new = g[Len(b)]
  BY <1>1, ReceiveAllRecursion DEF Receives
<1> DEFINE Left(j) == {r \in P : \A k \in 1..j : r # b[k]}
           U(j, id) == UNION {BytesIn(b[i]) : i \in {k \in 1..j : b[k].id = id}}
           A(j) == [id \in 1..Len(sz) |-> arr[id] \cup U(j, id)]
           Right(j) ==
               /\ ReceiverRight(g[j].incoming, g[j].received, A(j), Left(j), q, sz)
               /\ ordered => InTurn(g[j].incoming, g[j].received, A(j), Left(j), q, sz)
           S == {j \in 0..Len(b) : Right(j)}
           m == [j \in 0..Len(b) |-> j]
<1>3. Len(b) \in Nat
  OBVIOUS
<1>4. m[0] \in S
  <2>1. Left(0) = P
    OBVIOUS
  <2>2. DOMAIN A(0) = 1..Len(sz) /\ \A id \in 1..Len(sz) : A(0)[id] = arr[id]
    OBVIOUS
  <2>3. \A j \in 1..Len(inc) : inc[j].id \in 1..Len(sz)
    BY DEF ReceiverRight, FragmentsRight, PduRight
  <2>4. /\ ReceiverRight(inc, rec, A(0), P, q, sz)
        /\ ordered => InTurn(inc, rec, A(0), P, q, sz)
    <3> HIDE DEF A
    <3> QED
      BY <2>2, <2>3, SameArrived
  <2>5. g[0].incoming = inc /\ g[0].received = rec /\ m[0] = 0 /\ 0 \in 0..Len(b)
    BY <1>1, <1>2
  <2> HIDE DEF A, Left
  <2> QED
    BY <2>1, <2>4, <2>5
<1>5. ASSUME NEW j \in 1..Len(b), m[j - 1] \in S
      PROVE  m[j] \in S
  <2>1. /\ j - 1 \in 0..Len(b) /\ j \in 0..Len(b) /\ m[j] = j /\ m[j - 1] = j - 1
    OBVIOUS
  <2>2. Right(j - 1)
    <3> HIDE DEF Right
    <3> QED
      BY <1>5, <2>1
  <2>3. ASSUME NEW k \in 1..Len(b), k < j
        PROVE  b[k] # b[j]
    <3>1. Precedes(b[k], b[j]) /\ b[j] \in Pdus
      BY <2>3
    <3>2. b[j].id \in Nat /\ b[j].number \in Nat
      BY <3>1 DEF Pdus
    <3> QED
      BY <3>1, <3>2 DEF Precedes, Earlier
  <2>4. b[j] \in Left(j - 1)
    <3>1. \A k \in 1..(j - 1) : k \in 1..Len(b) /\ k < j
      BY <1>3
    <3> QED
      BY <2>3, <3>1
  <2>5. Left(j) = Left(j - 1) \ {b[j]}
    <3>1. \A k : k \in 1..j <=> k \in 1..(j - 1) \/ k = j
      OBVIOUS
    <3> QED
      BY <3>1
  <2>6. OnTheAir(Left(j - 1), q, sz)
    BY DEF OnTheAir
  <2>7. ordered => \A r \in Left(j - 1) \ {b[j]} : Precedes(b[j], r)
    <3> SUFFICES ASSUME ordered, NEW r \in Left(j - 1) \ {b[j]}
                 PROVE  Precedes(b[j], r)
      OBVIOUS
    <3>1. PICK k \in 1..Len(b) : r = b[k]
      OBVIOUS
    <3>2. j < k
      <4>1. k \notin 1..(j - 1) /\ k # j
        BY <3>1
      <4> QED
        BY <4>1
    <3> QED
      BY <3>1, <3>2
  <2>8. Arrive(A(j - 1), b[j]) = A(j)
    <3>1. ASSUME NEW id \in 1..Len(sz)
          PROVE  A(j)[id] = A(j - 1)[id] \cup IF id = b[j].id THEN BytesIn(b[j]) ELSE {}
      <4>1. U(j, id) = U(j - 1, id) \cup IF id = b[j].id THEN BytesIn(b[j]) ELSE {}
        <5>1. CASE id = b[j].id
          <6>1. {k \in 1..j : b[k].id = id} = {k \in 1..(j - 1) : b[k].id = id} \cup {j}
            BY <5>1
          <6> QED
            BY <5>1, <6>1
        <5>2. CASE id # b[j].id
          <6>1. {k \in 1..j : b[k].id = id} = {k \in 1..(j - 1) : b[k].id = id}
            BY <5>2
          <6> QED
            BY <5>2, <6>1
        <5> QED
          BY <5>1, <5>2
      <4> HIDE DEF U
      <4> QED
        BY <4>1
    <3>2. DOMAIN A(j - 1) = 1..Len(sz) /\ A(j) = [id \in 1..Len(sz) |-> A(j)[id]]
      OBVIOUS
    <3> HIDE DEF A
    <3> QED
      BY <3>1, <3>2 DEF Arrive
  <2>9. g[j] = Receive([incoming |-> g[j - 1].incoming, received |-> g[j - 1].received], b[j])
    <3>1. g[j - 1] \in Receptions
      BY <1>2, <2>1
    <3>2. g[j - 1] = [incoming |-> g[j - 1].incoming, received |-> g[j - 1].received]
      BY <3>1 DEF Receptions
    <3> QED
      BY <1>2, <3>2
  <2>10. Right(j)
    <3> HIDE DEF A, Left, S, m
    <3>1. PICK X, a, p, i, r, x : /\ X = Left(j - 1) /\ a = A(j - 1) /\ p = b[j]
                                 /\ i = g[j - 1].incoming /\ r = g[j - 1].received
                                 /\ x = g[j]
      OBVIOUS
    <3>2. /\ ReceiverRight(i, r, a, X, q, sz) /\ OnTheAir(X, q, sz) /\ p \in X
          /\ x = Receive([incoming |-> i, received |-> r], p)
      BY <2>2, <2>4, <2>6, <2>9, <3>1
    <3>3. /\ ReceiverRight(x.incoming, x.received, Arrive(a, p), X \ {p}, q, sz)
          /\ (\A y \in X \ {p} : Precedes(p, y)) /\ InTurn(i, r, a, X, q, sz)
                 => InTurn(x.incoming, x.received, Arrive(a, p), X \ {p}, q, sz)
      BY <3>2, PduArrives
    <3>4. ordered => InTurn(x.incoming, x.received, Arrive(a, p), X \ {p}, q, sz)
      BY <2>2, <2>7, <3>1, <3>3
    <3>5. Arrive(a, p) = A(j) /\ X \ {p} = Left(j)
      BY <2>5, <2>8, <3>1
    <3> QED
      BY <3>1, <3>3, <3>4, <3>5
  <2> HIDE DEF Right
  <2> QED
    BY <2>1, <2>10
<1>6. Len(b) \in S
  <2>1. \A j \in 0..Len(b) : m[j] \in S
    <3> HIDE DEF S, m
    <3> QED
      BY <1>3, <1>4, <1>5, Along
  <2>2. m[Len(b)] = Len(b) /\ Len(b) \in 0..Len(b)
    BY <1>3
  <2> HIDE DEF S, m
  <2> QED
    BY <2>1, <2>2
<1>7. Right(Len(b))
  <2> HIDE DEF Right
  <2> QED
    BY <1>6
<1>8. A(Len(b)) = arr2
  <2>1. \A id : U(Len(b), id) = BytesOf(b, id)
    BY DEF BytesOf, BytesIn
  <2> HIDE DEF U
  <2> QED
    BY <2>1 DEF ArriveAll
<1>9. R \subseteq Left(Len(b))
  OBVIOUS
<1>10. PICK X : X = Left(Len(b))
  OBVIOUS
<1>11. /\ ReceiverRight(new.incoming, new.received, arr2, X, q, sz)
       /\ ordered => InTurn(new.incoming, new.received, arr2, X, q, sz)
  <2> HIDE DEF A, Left
  <2> QED
    BY <1>2, <1>7, <1>8, <1>10
<1> QED
  BY <1>9, <1>10, <1>11, FewerOnTheAir

\* No PDU precedes itself, and one that precedes another is apart from it.
LEMMA PrecedesIs ==
    ASSUME NEW p \in Pdus, NEW r \in Pdus
    PROVE  ~ Precedes(p, p) /\ (Precedes(p, r) => Apart(p, r) /\ Apart(r, p))
<1>1. p.id \in Nat /\ p.number \in Nat /\ r.id \in Nat
  BY DEF Pdus
<1> QED
  BY <1>1 DEF Precedes, Apart, Earlier

\* When the queue goes on, and PDUs that were cut from it go on the air, the receiver is
\* as it should be.
LEMMA ReceiverGoesOn ==
    ASSUME NEW sz \in PacketSizes, NEW q, QueueRight(q, sz), NEW q2, QueueRight(q2, sz),
           FirstId(q, sz) <= FirstId(q2, sz),
           \A r \in Pdus : GoneOn(r, q, sz) => GoneOn(r, q2, sz),
           NEW P, NEW R,
           \A p \in R : p \in P \/ /\ p \in Pdus /\ FirstId(q, sz) <= p.id
                                   /\ \A r \in Pdus : GoneOn(r, q, sz) => Precedes(r, p),
           NEW inc, NEW rec, NEW arr, ReceiverRight(inc, rec, arr, P, q, sz)
    PROVE  /\ ReceiverRight(inc, rec, arr, R, q2, sz)
           /\ InTurn(inc, rec, arr, P, q, sz) => InTurn(inc, rec, arr, R, q2, sz)
<1>1. /\ FragmentsRight(inc, q, sz) /\ ArrivedRight(inc, arr, sz)
      /\ ReceivedRight(rec, arr, P, q, sz)
      /\ \A p \in P : \A j \in 1..Len(inc) : Apart(p, inc[j])
  BY DEF ReceiverRight
<1>2. FirstId(q, sz) \in Nat /\ FirstId(q2, sz) \in Nat
  BY FirstIdIs
<1>3. \A j \in 1..Len(inc) : inc[j] \in Pdus /\ GoneOn(inc[j], q, sz)
  BY <1>1 DEF FragmentsRight, PduRight
<1>4. FragmentsRight(inc, q2, sz)
  BY <1>1, <1>3 DEF FragmentsRight
<1>5. ASSUME NEW p \in R, NEW j \in 1..Len(inc)
      PROVE  Apart(p, inc[j])
  <2>1. CASE p \in P
    BY <1>1, <2>1
  <2>2. CASE p \notin P
    <3>1. p \in Pdus /\ Precedes(inc[j], p)
      BY <1>3, <2>2
    <3> QED
      BY <1>3, <3>1, PrecedesIs
  <2> QED
    BY <2>1, <2>2
<1>6. \A i \in 1..Len(rec) : rec[i] \in Nat /\ rec[i] < FirstId(q, sz)
  BY <1>1 DEF ReceivedRight
<1>7. \A p \in R : p \notin P => p.id \in Nat
  BY DEF Pdus
<1>8. ReceivedRight(rec, arr, R, q2, sz)
  <2>1. \A i \in 1..Len(rec) : rec[i] < FirstId(q2, sz)
    BY <1>2, <1>6
  <2>2. \A i \in 1..Len(rec) : \A p \in R : p.latest => rec[i] # p.id
    <3>1. ASSUME NEW i \in 1..Len(rec), NEW p \in R, p.latest
          PROVE  rec[i] # p.id
      <4>1. CASE p \in P
        BY <1>1, <3>1, <4>1 DEF ReceivedRight
      <4>2. CASE p \notin P
        BY <1>2, <1>6, <1>7, <4>2
      <4> QED
        BY <4>1, <4>2
    <3> QED
      BY <3>1
  <2> QED
    BY <1>1, <2>1, <2>2 DEF ReceivedRight
<1>9. ASSUME InTurn(inc, rec, arr, P, q, sz)
      PROVE  InTurn(inc, rec, arr, R, q2, sz)
  <2>1. ASSUME NEW p \in R
        PROVE  /\ \A j \in 1..Len(inc) : Precedes(inc[j], p)
               /\ \A i \in 1..Len(rec) : rec[i] < p.id
    <3>1. CASE p \in P
      BY <1>9, <3>1 DEF InTurn
    <3>2. CASE p \notin P
      BY <1>2, <1>3, <1>6, <1>7, <3>2
    <3> QED
      BY <3>1, <3>2
  <2>2. ASSUME NEW id \in 1..Len(sz), FirstId(q2, sz) <= id \/ \E p \in R : p.id <= id
        PROVE  FirstId(q, sz) <= id \/ \E p \in P : p.id <= id
    <3>1. CASE FirstId(q2, sz) <= id
      BY <1>2, <3>1
    <3>2. CASE \E p \in R : p.id <= id
      BY <1>2, <1>7, <3>2
    <3> QED
      BY <2>2, <3>1, <3>2
  <2> QED
    BY <1>9, <2>1, <2>2 DEF InTurn
<1> QED
  BY <1>1, <1>4, <1>5, <1>8, <1>9 DEF ReceiverRight

\* The bytes of each packet that arrived.
Histories(arr, sz) == arr \in Seq(SUBSET Nat) /\ Len(arr) = Len(sz)

\* Nothing of the last packet arrived.
NothingYet(arr, arr2) == arr2 = Append(arr, {})

\* A packet joins the queue: the receiver is as it should be, and nothing of the packet
\* has arrived.
LEMMA ReceiverSeesMore ==
    ASSUME NEW sz \in PacketSizes, NEW q, QueueRight(q, sz),
           NEW size, NEW q2, NEW sz2, Joins(q, sz, size, q2, sz2),
           NEW arr, Histories(arr, sz), NEW arr2, NothingYet(arr, arr2),
           NEW P, NEW inc, NEW rec, ReceiverRight(inc, rec, arr, P, q, sz)
    PROVE  /\ sz2 \in PacketSizes /\ Histories(arr2, sz2)
           /\ \A r : PduRight(r, sz) => PduRight(r, sz2)
           /\ ReceiverRight(inc, rec, arr2, P, q2, sz2)
           /\ InTurn(inc, rec, arr, P, q, sz) => InTurn(inc, rec, arr2, P, q2, sz2)
<1>1. PICK n \in Nat : n = Len(sz)
  BY DEF PacketSizes
<1>2. /\ sz2 \in PacketSizes /\ Len(sz2) = n + 1
      /\ \A id \in 1..n : sz2[id] = sz[id] /\ id \in 1..Len(sz2)
      /\ sz2[n + 1] = size
      /\ \A id \in 1..Len(sz2) : id \in 1..n \/ id = n + 1
      /\ size \in Nat \ {0}
  BY <1>1 DEF PacketSizes, Joins
<1>3. /\ arr2 \in Seq(SUBSET Nat) /\ Len(arr2) = n + 1 /\ DOMAIN arr2 = 1..(n + 1)
      /\ \A id \in 1..n : arr2[id] = arr[id]
      /\ arr2[n + 1] = {}
  BY <1>1 DEF Histories, NothingYet
<1>4. /\ FirstId(q2, sz2) = FirstId(q, sz)
      /\ \A r \in Pdus : GoneOn(r, q, sz) => GoneOn(r, q2, sz2)
  BY EnqueueGoesOn
<1>5. ASSUME NEW r, PduRight(r, sz)
      PROVE  PduRight(r, sz2)
  <2>1. r.id \in 1..n
    BY <1>1, <1>5 DEF PduRight
  <2> QED
    BY <1>2, <1>5, <2>1 DEF PduRight
<1>6. /\ FragmentsRight(inc, q, sz) /\ ArrivedRight(inc, arr, sz)
      /\ ReceivedRight(rec, arr, P, q, sz)
      /\ \A p \in P : \A j \in 1..Len(inc) : Apart(p, inc[j])
  BY DEF ReceiverRight
<1>7. \A j \in 1..Len(inc) : inc[j] \in Pdus /\ inc[j].id \in 1..n
  BY <1>1, <1>6 DEF FragmentsRight, PduRight
<1>8. FragmentsRight(inc, q2, sz2)
  BY <1>4, <1>5, <1>6, <1>7 DEF FragmentsRight
<1>9. ArrivedRight(inc, arr2, sz2)
  <2>1. \A id \in 1..Len(sz2) : arr2[id] \subseteq 0..(sz2[id] - 1)
    <3>1. \A id \in 1..n : arr[id] \subseteq 0..(sz[id] - 1)
      BY <1>1, <1>6 DEF ArrivedRight
    <3> QED
      BY <1>2, <1>3, <3>1
  <2>2. \A j \in 1..Len(inc) : BytesIn(inc[j]) \subseteq arr2[inc[j].id]
    BY <1>3, <1>6, <1>7 DEF ArrivedRight
  <2> QED
    BY <1>2, <1>3, <2>1, <2>2 DEF ArrivedRight
<1>10. ReceivedRight(rec, arr2, P, q2, sz2)
  <2>1. /\ rec \in Seq(1..n)
        /\ \A i \in 1..Len(rec) :
            /\ arr[rec[i]] = 0..(sz[rec[i]] - 1) /\ rec[i] < FirstId(q, sz)
            /\ \A p \in P : p.latest => rec[i] # p.id
            /\ \A j \in 1..Len(rec) : rec[i] = rec[j] => i = j
    BY <1>1, <1>6 DEF ReceivedRight
  <2>2. rec \in Seq(1..Len(sz2))
    <3>1. \A x \in 1..n : x \in 1..Len(sz2)
      BY <1>2
    <3> QED
      BY <2>1, <3>1
  <2>3. \A i \in 1..Len(rec) : arr2[rec[i]] = 0..(sz2[rec[i]] - 1)
    <3>1. \A i \in 1..Len(rec) : rec[i] \in 1..n
      BY <2>1
    <3> QED
      BY <1>2, <1>3, <2>1, <3>1
  <2> QED
    BY <1>4, <2>1, <2>2, <2>3 DEF ReceivedRight
<1>11. ASSUME InTurn(inc, rec, arr, P, q, sz)
       PROVE  InTurn(inc, rec, arr2, P, q2, sz2)
  <2>1. ASSUME NEW id \in 1..Len(sz2), arr2[id] = 0..(sz2[id] - 1)
        PROVE  \E i \in 1..Len(rec) : rec[i] = id
    <3>1. CASE id \in 1..n
      <4>1. arr[id] = 0..(sz[id] - 1)
        BY <1>2, <1>3, <2>1, <3>1
      <4> QED
        BY <1>1, <1>11, <3>1, <4>1 DEF InTurn
    <3>2. CASE id = n + 1
      <4>1. 0 \in 0..(sz2[id] - 1)
        BY <1>2, <3>2
      <4> QED
        BY <1>3, <2>1, <3>2, <4>1
    <3> QED
      BY <1>2, <3>1, <3>2
  <2>2. ASSUME NEW id \in 1..Len(sz2), FirstId(q2, sz2) <= id \/ \E p \in P : p.id <= id
        PROVE  arr2[id] = BytesOf(inc, id)
    <3>1. CASE id \in 1..n
      <4>1. arr[id] = BytesOf(inc, id)
        BY <1>1, <1>4, <1>11, <2>2, <3>1 DEF InTurn
      <4> QED
        BY <1>3, <3>1, <4>1
    <3>2. CASE id = n + 1
      <4>1. \A j \in 1..Len(inc) : inc[j].id # id
        BY <1>7, <3>2
      <4> QED
        BY <1>3, <3>2, <4>1, BytesOfOne
    <3> QED
      BY <1>2, <3>1, <3>2
  <2> QED
    BY <1>11, <2>1, <2>2 DEF InTurn
<1>12. Histories(arr2, sz2)
  BY <1>2, <1>3 DEF Histories
<1> QED
  BY <1>2, <1>5, <1>6, <1>8, <1>9, <1>10, <1>11, <1>12 DEF ReceiverRight

-----------------------------------------------------------------------------
(***************************************************************************)
(* The inductive invariant                                                 *)
(***************************************************************************)

\* Bursts that were sent.
SentBursts == [pdus : Seq(Pdus), grant : Nat]

\* The bursts on the air keep their grants, and their PDUs are in the order in which they
\* were cut.
AirRight(a, q, sz) ==
    /\ a \in Seq(SentBursts)
    /\ \A i \in 1..Len(a) : BurstSize(a[i].pdus) <= a[i].grant
    /\ \A i \in 1..Len(a) : \A j \in 1..Len(a[i].pdus) :
        /\ PduRight(a[i].pdus[j], sz) /\ GoneOn(a[i].pdus[j], q, sz)
        /\ \A k \in 1..Len(a) : \A l \in 1..Len(a[k].pdus) :
               i < k \/ (i = k /\ j < l) => Precedes(a[i].pdus[j], a[k].pdus[l])

PdusOf(a) == UNION {{a[i].pdus[j] : j \in 1..Len(a[i].pdus)} : i \in 1..Len(a)}

\* An element is taken out of a sequence.
LEMMA RemoveAtIs ==
    ASSUME NEW T, NEW s \in Seq(T), NEW i \in 1..Len(s), NEW r, r = RemoveAt(s, i)
    PROVE  /\ r \in Seq(T) /\ Len(r) = Len(s) - 1
           /\ \A k \in 1..Len(r) : r[k] = IF k < i THEN s[k] ELSE s[k + 1]
<1>1. PICK n \in Nat : n = Len(s)
  OBVIOUS
<1>2. PICK a : a = SubSeq(s, 1, i - 1)
  OBVIOUS
<1>3. PICK b : b = SubSeq(s, i + 1, n)
  OBVIOUS
<1>4. /\ a \in Seq(T) /\ Len(a) = i - 1 /\ \A k \in 1..(i - 1) : a[k] = s[k]
  <2>1. \A k \in 1..(i - 1) : s[k] \in T
    BY <1>1
  <2> QED
    BY <1>1, <1>2, <2>1
<1>5. /\ b \in Seq(T) /\ Len(b) = n - i /\ \A k \in 1..(n - i) : b[k] = s[i + k]
  <2>1. \A k \in (i + 1)..n : s[k] \in T
    BY <1>1
  <2> QED
    BY <1>1, <1>3, <2>1
<1>6. r = a \o b
  BY <1>1, <1>2, <1>3 DEF RemoveAt
<1>7. r \in Seq(T) /\ Len(r) = n - 1
  BY <1>1, <1>4, <1>5, <1>6
<1>8. ASSUME NEW k \in 1..(n - 1)
      PROVE  r[k] = IF k < i THEN s[k] ELSE s[k + 1]
  <2>1. CASE k < i
    <3>1. k \in 1..Len(a)
      BY <1>1, <1>4, <2>1
    <3> QED
      BY <1>4, <1>5, <1>6, <2>1, <3>1
  <2>2. CASE ~ (k < i)
    <3>1. k \in (Len(a) + 1)..(Len(a) + Len(b)) /\ k - Len(a) \in 1..(n - i)
      BY <1>1, <1>4, <1>5, <2>2
    <3>2. r[k] = b[k - Len(a)]
      BY <1>4, <1>5, <1>6, <3>1
    <3>3. i + (k - Len(a)) = k + 1
      BY <1>1, <1>4
    <3> QED
      BY <1>5, <2>2, <3>1, <3>2, <3>3
  <2> QED
    BY <2>1, <2>2
<1> QED
  BY <1>1, <1>7, <1>8

\* The PDUs on the air are those of the bursts.
LEMMA PdusOfIs ==
    ASSUME NEW a, NEW p
    PROVE  p \in PdusOf(a) <=> \E i \in 1..Len(a) : \E j \in 1..Len(a[i].pdus) : p = a[i].pdus[j]
<1>1. PICK S : S = {{a[i].pdus[j] : j \in 1..Len(a[i].pdus)} : i \in 1..Len(a)}
  OBVIOUS
<1>2. p \in PdusOf(a) <=> \E B \in S : p \in B
  BY <1>1 DEF PdusOf
<1>3. (\E B \in S : p \in B) <=> \E i \in 1..Len(a) : p \in {a[i].pdus[j] : j \in 1..Len(a[i].pdus)}
  BY <1>1
<1> QED
  BY <1>2, <1>3

\* The PDUs on the air were cut from the queue at different times.
LEMMA PdusAreOnTheAir ==
    ASSUME NEW a, NEW q, NEW sz, AirRight(a, q, sz)
    PROVE  OnTheAir(PdusOf(a), q, sz)
<1>1. \A p \in PdusOf(a) : \E i \in 1..Len(a) : \E j \in 1..Len(a[i].pdus) : p = a[i].pdus[j]
  BY DEF PdusOf
<1>2. \A p \in PdusOf(a) : PduRight(p, sz) /\ GoneOn(p, q, sz)
  BY <1>1 DEF AirRight
<1>3. ASSUME NEW p \in PdusOf(a), NEW r \in PdusOf(a), p # r
      PROVE  Apart(p, r)
  <2>0. PICK i \in 1..Len(a) : \E j \in 1..Len(a[i].pdus) : p = a[i].pdus[j]
    BY <1>1
  <2>1. PICK j \in 1..Len(a[i].pdus) : p = a[i].pdus[j]
    BY <2>0
  <2>7. PICK k \in 1..Len(a) : \E l \in 1..Len(a[k].pdus) : r = a[k].pdus[l]
    BY <1>1
  <2>2. PICK l \in 1..Len(a[k].pdus) : r = a[k].pdus[l]
    BY <2>7
  <2>3. p \in Pdus /\ r \in Pdus
    BY <1>2 DEF PduRight
  <2>4. Len(a) \in Nat /\ Len(a[i].pdus) \in Nat /\ Len(a[k].pdus) \in Nat
    <3>1. /\ a \in Seq(SentBursts)
      BY DEF AirRight
    <3>2. a[i] \in SentBursts /\ a[k] \in SentBursts
      BY <3>1
    <3>3. a[i].pdus \in Seq(Pdus) /\ a[k].pdus \in Seq(Pdus)
      BY <3>2 DEF SentBursts
    <3> QED
      BY <3>1, <3>3
  <2>5. (i < k \/ (i = k /\ j < l)) \/ (k < i \/ (k = i /\ l < j))
    BY <1>3, <2>1, <2>2, <2>4
  <2>6. Precedes(p, r) \/ Precedes(r, p)
    BY <2>1, <2>2, <2>5 DEF AirRight
  <2> QED
    BY <2>3, <2>6, PrecedesIs
<1> QED
  BY <1>2, <1>3 DEF OnTheAir

\* The queue goes on: the bursts on the air are right.
LEMMA AirGoesOn ==
    ASSUME NEW a, NEW q, NEW sz, AirRight(a, q, sz), NEW q2, NEW sz2,
           \A r \in Pdus : GoneOn(r, q, sz) => GoneOn(r, q2, sz2),
           \A r : PduRight(r, sz) => PduRight(r, sz2)
    PROVE  AirRight(a, q2, sz2)
<1>1. \A i \in 1..Len(a) : \A j \in 1..Len(a[i].pdus) : a[i].pdus[j] \in Pdus
  BY DEF AirRight, PduRight
<1> QED
  BY <1>1 DEF AirRight

\* The burst b goes on the air.
Sends(a, b, grant, c) == grant \in Nat /\ c = Append(a, [pdus |-> b, grant |-> grant])

\* A burst goes on the air.
LEMMA AirGrows ==
    ASSUME NEW sz \in PacketSizes, NEW q, NEW a, AirRight(a, q, sz),
           NEW grant, NEW s, Filling(s, q, grant, sz),
           NEW c, Sends(a, s.burst, grant, c)
    PROVE  /\ AirRight(c, s.queue, sz)
           /\ \A p \in PdusOf(c) : p \in PdusOf(a) \/ \E j \in 1..Len(s.burst) : p = s.burst[j]
<1>1. PICK b \in Seq(Pdus) : b = s.burst
  BY DEF Filling, Bursts
<1>0. grant \in Nat
  BY DEF Sends
<1>2. PICK x \in SentBursts : x = [pdus |-> b, grant |-> grant]
  BY <1>0 DEF SentBursts
<1>3. PICK n \in Nat : n = Len(a) /\ a \in Seq(SentBursts)
  <2>1. a \in Seq(SentBursts)
    BY DEF AirRight
  <2>2. Len(a) \in Nat
    BY <2>1
  <2> QED
    BY <2>1, <2>2
<1>4. /\ c \in Seq(SentBursts) /\ Len(c) = n + 1
      /\ \A i \in 1..n : c[i] = a[i]
      /\ c[n + 1] = x
      /\ \A i \in 1..Len(c) : i \in 1..n \/ i = n + 1
  BY <1>1, <1>2, <1>3 DEF Sends
<1>5. x.pdus = b /\ x.grant = grant
  BY <1>2
<1>6. BurstSize(b) <= grant /\ grant \in Nat
  <2>1. BurstSize(b) + s.left <= grant /\ s.left \in Nat
    BY <1>1 DEF Filling, Bursts
  <2>2. BurstSize(b) \in Int
    <3>1. PICK f : Measures(f, b) /\ BurstSize(b) = f[Len(b)]
      BY BurstSizeRecursion
    <3> QED
      BY <3>1 DEF Measures
  <2> QED
    BY <1>0, <2>1, <2>2
<1>7. ASSUME NEW i \in 1..n, NEW j \in 1..Len(a[i].pdus)
      PROVE  /\ a[i].pdus[j] \in Pdus
             /\ PduRight(a[i].pdus[j], sz) /\ GoneOn(a[i].pdus[j], s.queue, sz)
             /\ \A l \in 1..Len(b) : Precedes(a[i].pdus[j], b[l])
  <2>1. PduRight(a[i].pdus[j], sz) /\ GoneOn(a[i].pdus[j], q, sz)
    BY <1>3 DEF AirRight
  <2>2. a[i].pdus[j] \in Pdus
    BY <2>1 DEF PduRight
  <2> QED
    BY <1>1, <2>1, <2>2 DEF Filling
<1>8. ASSUME NEW j \in 1..Len(b)
      PROVE  /\ PduRight(b[j], sz) /\ GoneOn(b[j], s.queue, sz)
             /\ \A l \in 1..Len(b) : j < l => Precedes(b[j], b[l])
  BY <1>1 DEF Filling
<1>9. \A i \in 1..Len(c) : BurstSize(c[i].pdus) <= c[i].grant
  BY <1>3, <1>4, <1>5, <1>6 DEF AirRight
<1>10. ASSUME NEW i \in 1..Len(c), NEW j \in 1..Len(c[i].pdus)
       PROVE  /\ PduRight(c[i].pdus[j], sz) /\ GoneOn(c[i].pdus[j], s.queue, sz)
              /\ \A k \in 1..Len(c) : \A l \in 1..Len(c[k].pdus) :
                   i < k \/ (i = k /\ j < l) => Precedes(c[i].pdus[j], c[k].pdus[l])
  <2>1. CASE i \in 1..n
    <3>1. c[i] = a[i] /\ j \in 1..Len(a[i].pdus)
      BY <1>4, <2>1
    <3>2. ASSUME NEW k \in 1..Len(c), NEW l \in 1..Len(c[k].pdus),
                 i < k \/ (i = k /\ j < l)
          PROVE  Precedes(c[i].pdus[j], c[k].pdus[l])
      <4>1. CASE k \in 1..n
        <5>1. c[k] = a[k]
          BY <1>4, <4>1
        <5> QED
          BY <1>3, <2>1, <3>1, <3>2, <4>1, <5>1 DEF AirRight
      <4>2. CASE k = n + 1
        <5>1. c[k].pdus = b
          BY <1>4, <1>5, <4>2
        <5> QED
          BY <1>7, <2>1, <3>1, <5>1
      <4> QED
        BY <1>4, <4>1, <4>2
    <3> QED
      BY <1>7, <2>1, <3>1, <3>2
  <2>2. CASE i = n + 1
    <3>1. c[i].pdus = b /\ j \in 1..Len(b)
      BY <1>4, <1>5, <2>2
    <3>2. ASSUME NEW k \in 1..Len(c), NEW l \in 1..Len(c[k].pdus),
                 i < k \/ (i = k /\ j < l)
          PROVE  Precedes(c[i].pdus[j], c[k].pdus[l])
      <4>1. k = i /\ j < l
        BY <1>4, <2>2, <3>2
      <4> QED
        BY <1>8, <3>1, <4>1
    <3> QED
      BY <1>8, <3>1, <3>2
  <2> QED
    BY <1>4, <2>1, <2>2
<1>11. ASSUME NEW p \in PdusOf(c)
       PROVE  p \in PdusOf(a) \/ \E j \in 1..Len(s.burst) : p = s.burst[j]
  <2>0. PICK i \in 1..Len(c) : \E j \in 1..Len(c[i].pdus) : p = c[i].pdus[j]
    BY DEF PdusOf
  <2>1. PICK j \in 1..Len(c[i].pdus) : p = c[i].pdus[j]
    BY <2>0
  <2>2. CASE i \in 1..n
    <3>1. p = a[i].pdus[j] /\ j \in 1..Len(a[i].pdus) /\ i \in 1..Len(a)
      BY <1>3, <1>4, <2>1, <2>2
    <3> QED
      BY <3>1, PdusOfIs
  <2>3. CASE i = n + 1
    BY <1>1, <1>4, <1>5, <2>1, <2>3
  <2> QED
    BY <1>4, <2>2, <2>3
<1> QED
  BY <1>4, <1>9, <1>10, <1>11 DEF AirRight

\* A burst leaves the air.
LEMMA AirShrinks ==
    ASSUME NEW q, NEW sz, NEW a, AirRight(a, q, sz), NEW i \in 1..Len(a),
           NEW c, c = RemoveAt(a, i)
    PROVE  /\ AirRight(c, q, sz) /\ Len(c) = Len(a) - 1 /\ Len(a) \in Nat
           /\ a[i].pdus \in Seq(Pdus)
           /\ \A j \in 1..Len(a[i].pdus) : a[i].pdus[j] \in PdusOf(a)
           /\ \A j, k \in 1..Len(a[i].pdus) : j < k => Precedes(a[i].pdus[j], a[i].pdus[k])
           /\ \A p \in PdusOf(c) : p \in PdusOf(a) /\ \A j \in 1..Len(a[i].pdus) : p # a[i].pdus[j]
<1>1. PICK n \in Nat : n = Len(a) /\ a \in Seq(SentBursts)
  <2>1. a \in Seq(SentBursts)
    BY DEF AirRight
  <2>2. Len(a) \in Nat
    BY <2>1
  <2> QED
    BY <2>1, <2>2
<1>2. /\ c \in Seq(SentBursts) /\ Len(c) = n - 1
      /\ \A k \in 1..Len(c) : c[k] = IF k < i THEN a[k] ELSE a[k + 1]
  <2>1. /\ c \in Seq(SentBursts) /\ Len(c) = Len(a) - 1
        /\ \A k \in 1..Len(c) : c[k] = IF k < i THEN a[k] ELSE a[k + 1]
    BY <1>1, RemoveAtIs
  <2> QED
    BY <1>1, <2>1
<1> DEFINE At(k) == IF k < i THEN k ELSE k + 1
<1>3. ASSUME NEW k \in 1..Len(c)
      PROVE  /\ At(k) \in 1..Len(a) /\ At(k) # i /\ c[k] = a[At(k)]
             /\ \A l \in 1..Len(c) : k < l => At(k) < At(l)
  <2>1. Len(c) = n - 1 /\ c[k] = IF k < i THEN a[k] ELSE a[k + 1]
    BY <1>2
  <2>2. c[k] = a[At(k)]
    BY <2>1
  <2> QED
    BY <1>1, <2>1, <2>2
<1> HIDE DEF At
<1>4. AirRight(c, q, sz)
  <2>1. \A k \in 1..Len(c) : BurstSize(c[k].pdus) <= c[k].grant
    BY <1>3 DEF AirRight
  <2>2. ASSUME NEW k \in 1..Len(c), NEW j \in 1..Len(c[k].pdus)
        PROVE  /\ PduRight(c[k].pdus[j], sz) /\ GoneOn(c[k].pdus[j], q, sz)
               /\ \A m \in 1..Len(c) : \A l \in 1..Len(c[m].pdus) :
                    k < m \/ (k = m /\ j < l) => Precedes(c[k].pdus[j], c[m].pdus[l])
    <3>1. PICK x \in 1..Len(a) : x = At(k) /\ c[k] = a[x]
      BY <1>3
    <3>2. ASSUME NEW m \in 1..Len(c), NEW l \in 1..Len(c[m].pdus), k < m \/ (k = m /\ j < l)
          PROVE  Precedes(c[k].pdus[j], c[m].pdus[l])
      <4>1. PICK y \in 1..Len(a) : y = At(m) /\ c[m] = a[y]
        BY <1>3
      <4>2. x < y \/ (x = y /\ j < l)
        BY <1>3, <3>1, <3>2, <4>1
      <4> QED
        BY <3>1, <4>1, <4>2 DEF AirRight
    <3> QED
      BY <3>1, <3>2 DEF AirRight
  <2> QED
    BY <1>2, <2>1, <2>2 DEF AirRight
<1>5. a[i].pdus \in Seq(Pdus)
  <2>1. a[i] \in SentBursts
    BY <1>1
  <2> QED
    BY <2>1 DEF SentBursts
<1>6. \A j \in 1..Len(a[i].pdus) : a[i].pdus[j] \in PdusOf(a)
  BY DEF PdusOf
<1>7. \A j, k \in 1..Len(a[i].pdus) : j < k => Precedes(a[i].pdus[j], a[i].pdus[k])
  BY DEF AirRight
<1>8. ASSUME NEW p \in PdusOf(c)
      PROVE  p \in PdusOf(a) /\ \A j \in 1..Len(a[i].pdus) : p # a[i].pdus[j]
  <2>0. PICK k \in 1..Len(c) : \E l \in 1..Len(c[k].pdus) : p = c[k].pdus[l]
    BY DEF PdusOf
  <2>1. PICK l \in 1..Len(c[k].pdus) : p = c[k].pdus[l]
    BY <2>0
  <2>2. PICK x \in 1..Len(a) : x = At(k) /\ c[k] = a[x] /\ x # i
    BY <1>3
  <2>3. p \in PdusOf(a)
    BY <2>1, <2>2 DEF PdusOf
  <2>4. ASSUME NEW j \in 1..Len(a[i].pdus)
        PROVE  p # a[i].pdus[j]
    <3>1. p \in Pdus
      BY <2>1, <2>2 DEF AirRight, PduRight
    <3>2. x < i \/ i < x
      BY <1>1, <2>2
    <3>3. Precedes(p, a[i].pdus[j]) \/ Precedes(a[i].pdus[j], p)
      BY <2>1, <2>2, <3>2 DEF AirRight
    <3> QED
      BY <3>1, <3>3, PrecedesIs
  <2> QED
    BY <2>3, <2>4
<1> QED
  BY <1>1, <1>2, <1>4, <1>5, <1>6, <1>7, <1>8

IInv ==
    /\ harq_active \in BOOLEAN
    /\ sizeOf \in PacketSizes
    /\ QueueRight(m_queue, sizeOf)
    /\ AirRight(air, m_queue, sizeOf)
    /\ ~harq_active => Len(air) <= 1
    /\ Histories(arrived, sizeOf)
    /\ ReceiverRight(m_incomingPacket, received, arrived, PdusOf(air), m_queue, sizeOf)
    /\ ~harq_active =>
            InTurn(m_incomingPacket, received, arrived, PdusOf(air), m_queue, sizeOf)

\* The invariant holds when the bearer is set up.
LEMMA Initially == ASSUME Init PROVE IInv
<1>1. /\ harq_active \in BOOLEAN /\ m_queue = EmptyQueue
      /\ air = <<>> /\ m_incomingPacket = <<>> /\ received = <<>>
      /\ sizeOf = <<>> /\ arrived = <<>>
  BY DEF Init
<1>2. /\ sizeOf \in PacketSizes /\ Len(sizeOf) = 0
      /\ Histories(arrived, sizeOf) /\ DOMAIN arrived = 1..0
  BY <1>1 DEF PacketSizes, Histories
<1>3. QueueRight(m_queue, sizeOf)
  <2>1. m_queue \in Queues
    BY <1>1, EmptyQueueIs
  <2>2. Len(m_queue.elements) = 0
    BY <1>1 DEF EmptyQueue
  <2> QED
    BY <1>2, <2>1, <2>2 DEF QueueRight
<1>4. AirRight(air, m_queue, sizeOf) /\ Len(air) = 0
  BY <1>1 DEF AirRight
<1>5. PdusOf(air) = {}
  BY <1>4 DEF PdusOf
<1>6. m_incomingPacket \in Seq(Pdus) /\ Len(m_incomingPacket) = 0
  BY <1>1
<1>7. received \in Seq(1..Len(sizeOf)) /\ Len(received) = 0
  BY <1>1
<1>8. FragmentsRight(m_incomingPacket, m_queue, sizeOf)
  BY <1>6 DEF FragmentsRight
<1>9. ArrivedRight(m_incomingPacket, arrived, sizeOf)
  BY <1>2, <1>6 DEF ArrivedRight
<1>10. ReceivedRight(received, arrived, PdusOf(air), m_queue, sizeOf)
  BY <1>7 DEF ReceivedRight
<1>11. ReceiverRight(m_incomingPacket, received, arrived, PdusOf(air), m_queue, sizeOf)
  BY <1>5, <1>8, <1>9, <1>10 DEF ReceiverRight
<1>12. InTurn(m_incomingPacket, received, arrived, PdusOf(air), m_queue, sizeOf)
  BY <1>2, <1>5, <1>7 DEF InTurn
<1> QED
  BY <1>1, <1>2, <1>3, <1>4, <1>11, <1>12 DEF IInv

\* The parts of the invariant in the next state.
LEMMA Primed ==
    /\ (Histories(arrived, sizeOf))' <=> Histories(arrived', sizeOf')
    /\ (AirRight(air, m_queue, sizeOf))' <=> AirRight(air', m_queue', sizeOf')
    /\ (QueueRight(m_queue, sizeOf))' <=> QueueRight(m_queue', sizeOf')
    /\ (ReceiverRight(m_incomingPacket, received, arrived, PdusOf(air), m_queue, sizeOf))'
        <=> ReceiverRight(m_incomingPacket', received', arrived', PdusOf(air'), m_queue',
                          sizeOf')
    /\ (InTurn(m_incomingPacket, received, arrived, PdusOf(air), m_queue, sizeOf))'
        <=> InTurn(m_incomingPacket', received', arrived', PdusOf(air'), m_queue', sizeOf')
BY DEF AirRight, QueueRight, ReceiverRight, InTurn, PdusOf, FragmentsRight, ArrivedRight,
       ReceivedRight, PduRight, GoneOn, Precedes, Apart, Earlier, FirstId, BytesIn, BytesOf,
       SentBursts, Histories, Pdus, Queues, Elements, BurstSize, PduSize, CountersAgree,
       OnlyHeadIsFragmented, Remaining, Bytes, Overhead

\* An application hands a packet to the bearer.
LEMMA SendKeeps ==
    ASSUME IInv, NEW size \in Sizes, ApplicationSends(size)
    PROVE  IInv'
<1>1. /\ sizeOf \in PacketSizes /\ QueueRight(m_queue, sizeOf)
      /\ AirRight(air, m_queue, sizeOf)
      /\ Histories(arrived, sizeOf)
      /\ ReceiverRight(m_incomingPacket, received, arrived, PdusOf(air), m_queue, sizeOf)
      /\ ~harq_active =>
            InTurn(m_incomingPacket, received, arrived, PdusOf(air), m_queue, sizeOf)
  BY DEF IInv
<1>2. Joins(m_queue, sizeOf, size, m_queue', sizeOf')
  <2>1. size \in Nat \ {0}
    BY UmRlcAssumption
  <2> QED
    BY <2>1 DEF Joins, ApplicationSends
<1>3. /\ NothingYet(arrived, arrived')
      /\ harq_active' = harq_active /\ air' = air
      /\ m_incomingPacket' = m_incomingPacket /\ received' = received
  BY DEF ApplicationSends, NothingYet
<1>4. /\ QueueRight(m_queue', sizeOf')
      /\ \A r \in Pdus : GoneOn(r, m_queue, sizeOf) => GoneOn(r, m_queue', sizeOf')
  BY <1>1, <1>2, EnqueueGoesOn
<1>5. /\ sizeOf' \in PacketSizes /\ Histories(arrived', sizeOf')
      /\ \A r : PduRight(r, sizeOf) => PduRight(r, sizeOf')
      /\ ReceiverRight(m_incomingPacket, received, arrived', PdusOf(air), m_queue', sizeOf')
      /\ InTurn(m_incomingPacket, received, arrived, PdusOf(air), m_queue, sizeOf)
            => InTurn(m_incomingPacket, received, arrived', PdusOf(air), m_queue', sizeOf')
  BY <1>1, <1>2, <1>3, ReceiverSeesMore
<1>6. AirRight(air, m_queue', sizeOf')
  BY <1>1, <1>4, <1>5, AirGoesOn
<1> QED
  BY <1>1, <1>3, <1>4, <1>5, <1>6, Primed DEF IInv

\* The queue goes on and bursts are sent.
LEMMA QueueGoesOnKeeps ==
    ASSUME IInv, UNCHANGED <<harq_active, m_incomingPacket, received, sizeOf, arrived>>,
           QueueRight(m_queue', sizeOf), FirstId(m_queue, sizeOf) <= FirstId(m_queue', sizeOf),
           \A r \in Pdus : GoneOn(r, m_queue, sizeOf) => GoneOn(r, m_queue', sizeOf),
           AirRight(air', m_queue', sizeOf), ~harq_active => Len(air') <= 1,
           \A p \in PdusOf(air') : p \in PdusOf(air) \/
               /\ p \in Pdus /\ FirstId(m_queue, sizeOf) <= p.id
               /\ \A r \in Pdus : GoneOn(r, m_queue, sizeOf) => Precedes(r, p)
    PROVE  IInv'
<1>1. /\ sizeOf \in PacketSizes /\ QueueRight(m_queue, sizeOf)
      /\ ReceiverRight(m_incomingPacket, received, arrived, PdusOf(air), m_queue, sizeOf)
      /\ ~harq_active =>
            InTurn(m_incomingPacket, received, arrived, PdusOf(air), m_queue, sizeOf)
  BY DEF IInv
<1>2. /\ ReceiverRight(m_incomingPacket, received, arrived, PdusOf(air'), m_queue', sizeOf)
      /\ InTurn(m_incomingPacket, received, arrived, PdusOf(air), m_queue, sizeOf)
            => InTurn(m_incomingPacket, received, arrived, PdusOf(air'), m_queue', sizeOf)
  BY <1>1, ReceiverGoesOn
<1> QED
  BY <1>1, <1>2, Primed DEF IInv

\* The bearer is served.
LEMMA TransmissionKeeps ==
    ASSUME IInv, NEW grant \in Grants, TransmissionProcedure(grant)
    PROVE  IInv'
<1>1. /\ sizeOf \in PacketSizes /\ QueueRight(m_queue, sizeOf)
      /\ AirRight(air, m_queue, sizeOf) /\ harq_active \in BOOLEAN
      /\ ~harq_active => Len(air) <= 1
  BY DEF IInv
<1>2. grant \in Nat
  BY UmRlcAssumption
<1>3. PICK s : s = FillBurst(m_queue, grant)
  OBVIOUS
<1>4. /\ m_queue' = s.queue
      /\ air' = IF s.burst = <<>> THEN air
                ELSE Append(air, [pdus |-> s.burst, grant |-> grant])
      /\ UNCHANGED <<harq_active, m_incomingPacket, received, sizeOf, arrived>>
      /\ Len(air) < IF harq_active THEN MaxInAir ELSE 1
  BY <1>3 DEF TransmissionProcedure
<1>5. Filling(s, m_queue, grant, sizeOf)
  BY <1>1, <1>2, <1>3, FillBurstFills
<1>6. /\ QueueRight(s.queue, sizeOf) /\ FirstId(m_queue, sizeOf) <= FirstId(s.queue, sizeOf)
      /\ \A r \in Pdus : GoneOn(r, m_queue, sizeOf) => GoneOn(r, s.queue, sizeOf)
  BY <1>5 DEF Filling
<1>7. ASSUME NEW j \in 1..Len(s.burst)
      PROVE  /\ s.burst[j] \in Pdus /\ FirstId(m_queue, sizeOf) <= s.burst[j].id
             /\ \A r \in Pdus : GoneOn(r, m_queue, sizeOf) => Precedes(r, s.burst[j])
  BY <1>5 DEF Filling, PduRight
<1>8. CASE s.burst = <<>>
  <2>1. air' = air
    BY <1>4, <1>8
  <2>2. AirRight(air, s.queue, sizeOf)
    BY <1>1, <1>6, AirGoesOn
  <2> QED
    BY <1>1, <1>4, <1>6, <2>1, <2>2, QueueGoesOnKeeps
<1>9. CASE s.burst # <<>>
  <2>1. Sends(air, s.burst, grant, air')
    BY <1>2, <1>4, <1>9 DEF Sends
  <2>2. /\ AirRight(air', s.queue, sizeOf)
        /\ \A p \in PdusOf(air') :
                p \in PdusOf(air) \/ \E j \in 1..Len(s.burst) : p = s.burst[j]
    <3>1. sizeOf \in PacketSizes /\ AirRight(air, m_queue, sizeOf)
      BY <1>1
    <3>2. AirRight(air', s.queue, sizeOf)
      BY <1>5, <2>1, <3>1, AirGrows
    <3>3. \A p \in PdusOf(air') :
              p \in PdusOf(air) \/ \E j \in 1..Len(s.burst) : p = s.burst[j]
      BY <1>5, <2>1, <3>1, AirGrows
    <3> QED
      BY <3>2, <3>3
  <2>3. ~harq_active => Len(air') <= 1
    <3>1. air \in Seq(SentBursts)
      BY <1>1 DEF AirRight
    <3>2. Len(air') = Len(air) + 1 /\ Len(air) \in Nat
      BY <2>1, <3>1 DEF Sends
    <3> QED
      BY <1>4, <3>2
  <2>4. \A p \in PdusOf(air') : p \in PdusOf(air) \/
            /\ p \in Pdus /\ FirstId(m_queue, sizeOf) <= p.id
            /\ \A r \in Pdus : GoneOn(r, m_queue, sizeOf) => Precedes(r, p)
    BY <1>7, <2>2
  <2> QED
    BY <1>4, <1>6, <2>2, <2>3, <2>4, QueueGoesOnKeeps
<1> QED
  BY <1>8, <1>9

\* Packets expire.
LEMMA DropKeeps ==
    ASSUME IInv, NEW n \in 1..MaxPackets, DropExpired(n)
    PROVE  IInv'
<1>1. /\ sizeOf \in PacketSizes /\ QueueRight(m_queue, sizeOf)
      /\ AirRight(air, m_queue, sizeOf) /\ (~harq_active => Len(air) <= 1)
  BY DEF IInv
<1>2. /\ n \in Nat /\ n <= Len(m_queue.elements)
      /\ m_queue' = CheckForDropPackets(m_queue, n) /\ air' = air
      /\ UNCHANGED <<harq_active, m_incomingPacket, received, sizeOf, arrived>>
  BY DEF DropExpired
<1>3. /\ QueueRight(m_queue', sizeOf) /\ FirstId(m_queue, sizeOf) <= FirstId(m_queue', sizeOf)
      /\ \A r \in Pdus : GoneOn(r, m_queue, sizeOf) => GoneOn(r, m_queue', sizeOf)
  BY <1>1, <1>2, DropsGoOn
<1>4. AirRight(air, m_queue', sizeOf)
  BY <1>1, <1>3, AirGoesOn
<1> QED
  BY <1>1, <1>2, <1>3, <1>4, QueueGoesOnKeeps

\* A burst is lost.
LEMMA LossKeeps ==
    ASSUME IInv, NEW i \in 1..Len(air), Lose(i)
    PROVE  IInv'
<1>1. /\ AirRight(air, m_queue, sizeOf) /\ (~harq_active => Len(air) <= 1)
      /\ ReceiverRight(m_incomingPacket, received, arrived, PdusOf(air), m_queue, sizeOf)
      /\ ~harq_active =>
            InTurn(m_incomingPacket, received, arrived, PdusOf(air), m_queue, sizeOf)
  BY DEF IInv
<1>2. /\ air' = RemoveAt(air, i)
      /\ UNCHANGED <<harq_active, m_queue, m_incomingPacket, received, sizeOf, arrived>>
  BY DEF Lose
<1>3. /\ AirRight(air', m_queue, sizeOf) /\ Len(air') = Len(air) - 1 /\ Len(air) \in Nat
      /\ PdusOf(air') \subseteq PdusOf(air)
  BY <1>1, <1>2, AirShrinks
<1>4. /\ ReceiverRight(m_incomingPacket, received, arrived, PdusOf(air'), m_queue, sizeOf)
      /\ ~harq_active =>
            InTurn(m_incomingPacket, received, arrived, PdusOf(air'), m_queue, sizeOf)
  BY <1>1, <1>3, FewerOnTheAir
<1>5. ~harq_active => Len(air') <= 1
  BY <1>1, <1>3
<1> QED
  BY <1>2, <1>3, <1>4, <1>5, Primed DEF IInv

\* A burst is received.
LEMMA ReceptionKeeps ==
    ASSUME IInv, NEW i \in 1..Len(air), ReceptionProcedure(i)
    PROVE  IInv'
<1>1. /\ sizeOf \in PacketSizes /\ QueueRight(m_queue, sizeOf) /\ harq_active \in BOOLEAN
      /\ AirRight(air, m_queue, sizeOf) /\ (~harq_active => Len(air) <= 1)
      /\ Histories(arrived, sizeOf)
      /\ ReceiverRight(m_incomingPacket, received, arrived, PdusOf(air), m_queue, sizeOf)
      /\ ~harq_active =>
            InTurn(m_incomingPacket, received, arrived, PdusOf(air), m_queue, sizeOf)
  BY DEF IInv
<1>2. PICK b : b = air[i].pdus
  OBVIOUS
<1>3. PICK new : Receives(m_incomingPacket, received, b, new)
  BY DEF Receives
<1>4. /\ m_incomingPacket' = new.incoming /\ received' = new.received
      /\ arrived' = [id \in 1..Len(sizeOf) |-> arrived[id] \cup BytesOf(b, id)]
      /\ arrived' = ArriveAll(arrived, b, sizeOf)
      /\ air' = RemoveAt(air, i) /\ UNCHANGED <<harq_active, m_queue, sizeOf>>
  BY <1>2, <1>3 DEF ReceptionProcedure, Ids, ArriveAll, Receives
<1>5. /\ AirRight(air', m_queue, sizeOf) /\ Len(air') = Len(air) - 1 /\ Len(air) \in Nat
      /\ b \in Seq(Pdus) /\ \A j \in 1..Len(b) : b[j] \in PdusOf(air)
      /\ \A j, k \in 1..Len(b) : j < k => Precedes(b[j], b[k])
      /\ \A p \in PdusOf(air') : p \in PdusOf(air) /\ \A j \in 1..Len(b) : p # b[j]
  <2>1. AirRight(air', m_queue, sizeOf) /\ Len(air') = Len(air) - 1 /\ Len(air) \in Nat
    BY <1>1, <1>4, AirShrinks
  <2>2. /\ b \in Seq(Pdus) /\ \A j \in 1..Len(b) : b[j] \in PdusOf(air)
        /\ \A j, k \in 1..Len(b) : j < k => Precedes(b[j], b[k])
    BY <1>1, <1>2, <1>4, AirShrinks
  <2>3. ASSUME NEW p \in PdusOf(air')
        PROVE  p \in PdusOf(air) /\ \A j \in 1..Len(b) : p # b[j]
    BY <1>1, <1>2, <1>4, AirShrinks
  <2> QED
    BY <2>1, <2>2, <2>3
<1>6. OnTheAir(PdusOf(air), m_queue, sizeOf)
  BY <1>1, PdusAreOnTheAir
<1>8. ASSUME ~harq_active, NEW r \in PdusOf(air)
      PROVE  \E k \in 1..Len(b) : r = b[k]
  <2>1. PICK k \in 1..Len(air) : \E j \in 1..Len(air[k].pdus) : r = air[k].pdus[j]
    BY DEF PdusOf
  <2>2. k = i
    BY <1>1, <1>5, <1>8
  <2> QED
    BY <1>2, <2>1, <2>2
<1>9. /\ ReceiverRight(new.incoming, new.received, arrived', PdusOf(air'), m_queue, sizeOf)
      /\ ~harq_active =>
            InTurn(new.incoming, new.received, arrived', PdusOf(air'), m_queue, sizeOf)
  <2>1. PICK P, R : P = PdusOf(air) /\ R = PdusOf(air')
    OBVIOUS
  <2>3. /\ sizeOf \in PacketSizes /\ QueueRight(m_queue, sizeOf)
        /\ OnTheAir(P, m_queue, sizeOf)
        /\ Leaves(b, P, R)
        /\ ReceiverRight(m_incomingPacket, received, arrived, P, m_queue, sizeOf)
        /\ Receives(m_incomingPacket, received, b, new)
        /\ arrived' = ArriveAll(arrived, b, sizeOf)
    BY <1>1, <1>3, <1>4, <1>5, <1>6, <2>1 DEF Leaves
  <2>2. /\ ReceiverRight(new.incoming, new.received, arrived', R, m_queue, sizeOf)
        /\ Alone(b, P) /\ InTurn(m_incomingPacket, received, arrived, P, m_queue, sizeOf)
            => InTurn(new.incoming, new.received, arrived', R, m_queue, sizeOf)
    BY <2>3, BurstArrives
  <2> QED
    BY <1>1, <1>8, <2>1, <2>2 DEF Alone
<1>10. Histories(arrived', sizeOf)
  <2>1. Len(sizeOf) \in Nat
    BY <1>1 DEF PacketSizes
  <2>2. \A id \in 1..Len(sizeOf) : arrived'[id] \subseteq 0..(sizeOf[id] - 1)
    BY <1>9 DEF ReceiverRight, ArrivedRight
  <2>3. \A id \in 1..Len(sizeOf) : arrived'[id] \in SUBSET Nat
    BY <2>2
  <2> QED
    BY <1>4, <2>1, <2>3 DEF Histories
<1>11. ~harq_active => Len(air') <= 1
  BY <1>1, <1>5
<1> QED
  BY <1>1, <1>4, <1>5, <1>9, <1>10, <1>11, Primed DEF IInv

\* Every step keeps the invariant.
LEMMA Steps == IInv /\ [Next]_vars => IInv'
<1> SUFFICES ASSUME IInv, [Next]_vars
             PROVE  IInv'
  OBVIOUS
<1>1. CASE UNCHANGED vars
  BY <1>1, Primed DEF vars, IInv
<1>2. CASE Next
  BY <1>2, SendKeeps, TransmissionKeeps, DropKeeps, LossKeeps, ReceptionKeeps DEF Next
<1> QED
  BY <1>1, <1>2

\* What is promised follows from the invariant.
LEMMA SizesFollow == ASSUME IInv PROVE SizesKept
<1>1. /\ sizeOf \in PacketSizes /\ QueueRight(m_queue, sizeOf)
      /\ AirRight(air, m_queue, sizeOf)
      /\ ReceiverRight(m_incomingPacket, received, arrived, PdusOf(air), m_queue, sizeOf)
  BY DEF IInv
<1>2. ASSUME NEW p, PduRight(p, sizeOf)
      PROVE  PduType(p)
  <2>1. p \in Pdus
    BY <1>2 DEF PduRight
  <2>2. /\ p.startByte \in Nat /\ p.endByte \in Nat /\ p.number \in Nat
        /\ p.isFragment \in BOOLEAN /\ p.latest \in BOOLEAN
    BY <2>1 DEF Pdus
  <2> QED
    BY <1>2, <2>2 DEF PduRight, PduType, Ids
<1>3. FragmentsRight(m_incomingPacket, m_queue, sizeOf)
  BY <1>1 DEF ReceiverRight
<1>4. TypeOK
  <2>1. \A i \in 1..Len(air) : \A j \in 1..Len(air[i].pdus) : PduType(air[i].pdus[j])
    BY <1>1, <1>2 DEF AirRight
  <2>2. \A i \in 1..Len(m_incomingPacket) :
            /\ PduType(m_incomingPacket[i])
            /\ m_incomingPacket[i].id = m_incomingPacket[1].id
    BY <1>2, <1>3 DEF FragmentsRight
  <2>3. \A i \in 1..Len(received) : received[i] \in Ids
    BY <1>1 DEF ReceiverRight, ReceivedRight, Ids
  <2> QED
    BY <2>1, <2>2, <2>3 DEF TypeOK
<1>5. QueueAccounting
  BY <1>1 DEF QueueRight, Queues, QueueAccounting
<1>6. FitsTheGrant
  BY <1>1 DEF AirRight, FitsTheGrant
<1> QED
  BY <1>4, <1>5, <1>6 DEF SizesKept

\* What the sink is promised follows from the invariant.
LEMMA SinkFollows == ASSUME IInv PROVE SinkServed
<1>1. /\ ReceivedRight(received, arrived, PdusOf(air), m_queue, sizeOf)
      /\ ~harq_active =>
            InTurn(m_incomingPacket, received, arrived, PdusOf(air), m_queue, sizeOf)
  BY DEF IInv, ReceiverRight
<1>2. OnlyWholePackets /\ DeliveredOnce
  BY <1>1 DEF ReceivedRight, OnlyWholePackets, DeliveredOnce
<1>3. DeliveredInOrder
  BY <1>1 DEF InTurn, DeliveredInOrder
<1>4. WholePacketsAreDelivered
  BY <1>1 DEF InTurn, WholePacketsAreDelivered, Ids
<1> QED
  BY <1>2, <1>3, <1>4 DEF SinkServed, DeliveredWholeOnceInOrder

-----------------------------------------------------------------------------
\* The invariant holds in every state of the bearer.
THEOREM Invariant == Spec => []IInv
<1>1. Init => IInv
  BY Initially
<1>2. IInv /\ [Next]_vars => IInv'
  BY Steps
<1> QED
  BY <1>1, <1>2, PTL DEF Spec

\* The counters the schedulers read are what waits, only the head of the queue is ever cut,
\* and no burst takes more than its grant (MacQueue, UmRlcEntity::TransmissionProcedure).
THEOREM Accounting == Spec => []SizesKept
<1>1. IInv => SizesKept
  BY SizesFollow
<1> QED
  BY <1>1, Invariant, PTL

\* What the receiving entity passes to the sink is whole, once, and without HARQ in order
\* and not left out (UmRlcEntity::ReceptionProcedure).
THEOREM Sink == Spec => []SinkServed
<1>1. IInv => SinkServed
  BY SinkFollows
<1> QED
  BY <1>1, Invariant, PTL

-----------------------------------------------------------------------------
(***************************************************************************)
(* The packets that may still be delivered                                 *)
(***************************************************************************)

\* Byte x of the packet waits in the queue; one of the PDUs of the set P has it; it may
\* still reach the sink.
Waits(q, id, x) ==
    \E i \in 1..Len(q.elements) :
        q.elements[i].id = id /\ x \in q.elements[i].offset..(q.elements[i].size - 1)

Flies(P, id, x) == \E p \in P : p.id = id /\ x \in BytesIn(p)

Remains(q, P, inc, id, x) == Waits(q, id, x) \/ x \in BytesOf(inc, id) \/ Flies(P, id, x)

\* The packets all of whose bytes may reach the sink.
StillWhole(q, P, inc, sz) ==
    {id \in 1..Len(sz) : \A x \in 0..(sz[id] - 1) : Remains(q, P, inc, id, x)}

\* The bytes of a packet among PDUs are those of its PDUs.
LEMMA BytesOfIs ==
    ASSUME NEW b, NEW id, NEW x
    PROVE  x \in BytesOf(b, id) <=> \E j \in 1..Len(b) : b[j].id = id /\ x \in BytesIn(b[j])
<1>1. PICK S : S = {BytesIn(b[i]) : i \in {j \in 1..Len(b) : b[j].id = id}}
  OBVIOUS
<1>2. x \in BytesOf(b, id) <=> \E B \in S : x \in B
  BY <1>1 DEF BytesOf, BytesIn
<1>3. (\E B \in S : x \in B) <=> \E i \in {j \in 1..Len(b) : b[j].id = id} : x \in BytesIn(b[i])
  BY <1>1
<1> QED
  BY <1>2, <1>3

\* The bytes on the air are those of the PDUs on the air.
LEMMA FlyingBytes ==
    ASSUME NEW a, NEW id, NEW x
    PROVE  x \in UNION {BytesOf(a[i].pdus, id) : i \in 1..Len(a)} <=> Flies(PdusOf(a), id, x)
<1>1. x \in UNION {BytesOf(a[i].pdus, id) : i \in 1..Len(a)}
        <=> \E i \in 1..Len(a) : x \in BytesOf(a[i].pdus, id)
  <2>1. PICK S : S = {BytesOf(a[i].pdus, id) : i \in 1..Len(a)}
    OBVIOUS
  <2>2. x \in UNION S <=> \E B \in S : x \in B
    OBVIOUS
  <2>3. (\E B \in S : x \in B) <=> \E i \in 1..Len(a) : x \in BytesOf(a[i].pdus, id)
    BY <2>1
  <2> QED
    BY <2>1, <2>2, <2>3
<1>2. ASSUME NEW i \in 1..Len(a), x \in BytesOf(a[i].pdus, id)
      PROVE  Flies(PdusOf(a), id, x)
  <2>1. PICK j \in 1..Len(a[i].pdus) : a[i].pdus[j].id = id /\ x \in BytesIn(a[i].pdus[j])
    BY <1>2, BytesOfIs
  <2>2. a[i].pdus[j] \in PdusOf(a)
    BY PdusOfIs
  <2> QED
    BY <2>1, <2>2 DEF Flies
<1>3. ASSUME Flies(PdusOf(a), id, x)
      PROVE  \E i \in 1..Len(a) : x \in BytesOf(a[i].pdus, id)
  <2>1. PICK p \in PdusOf(a) : p.id = id /\ x \in BytesIn(p)
    BY <1>3 DEF Flies
  <2>2. PICK i \in 1..Len(a) : \E j \in 1..Len(a[i].pdus) : p = a[i].pdus[j]
    BY <2>1, PdusOfIs
  <2>3. x \in BytesOf(a[i].pdus, id)
    BY <2>1, <2>2, BytesOfIs
  <2> QED
    BY <2>3
<1> QED
  BY <1>1, <1>2, <1>3

\* What Intact says of a queue, of bursts and of fragments.
LEMMA IntactOnes ==
    ASSUME NEW q, NEW a, NEW inc, NEW sz
    PROVE  {id \in 1..Len(sz) : 0..(sz[id] - 1) \subseteq
                WaitingBytes(q, id) \cup BytesOf(inc, id)
                    \cup UNION {BytesOf(a[i].pdus, id) : i \in 1..Len(a)}}
             = StillWhole(q, PdusOf(a), inc, sz)
<1>1. ASSUME NEW id, NEW x
      PROVE  x \in WaitingBytes(q, id) <=> Waits(q, id, x)
  <2>1. PICK S : S = {q.elements[i].offset..(q.elements[i].size - 1) :
                                    i \in {j \in 1..Len(q.elements) : q.elements[j].id = id}}
    OBVIOUS
  <2>2. x \in WaitingBytes(q, id) <=> \E B \in S : x \in B
    BY <2>1 DEF WaitingBytes
  <2>3. (\E B \in S : x \in B) <=> \E i \in {j \in 1..Len(q.elements) : q.elements[j].id = id} :
                                        x \in q.elements[i].offset..(q.elements[i].size - 1)
    BY <2>1
  <2> QED
    BY <2>2, <2>3 DEF Waits
<1>2. ASSUME NEW id, NEW x
      PROVE  x \in WaitingBytes(q, id) \cup BytesOf(inc, id)
                    \cup UNION {BytesOf(a[i].pdus, id) : i \in 1..Len(a)}
                <=> Remains(q, PdusOf(a), inc, id, x)
  BY <1>1, FlyingBytes DEF Remains
<1>3. ASSUME NEW id
      PROVE  0..(sz[id] - 1) \subseteq WaitingBytes(q, id) \cup BytesOf(inc, id)
                    \cup UNION {BytesOf(a[i].pdus, id) : i \in 1..Len(a)}
               <=> \A x \in 0..(sz[id] - 1) : Remains(q, PdusOf(a), inc, id, x)
  BY <1>2
<1> QED
  BY <1>3 DEF StillWhole
\* The first byte of a packet of the queue that waits.
FirstByte(q, sz, id) == IF id = FirstId(q, sz) THEN q.elements[1].offset ELSE 0

\* The bytes that wait: all of the packets in the queue but what of the head is cut.
LEMMA WaitsIs ==
    ASSUME NEW sz \in PacketSizes, NEW q, QueueRight(q, sz)
    PROVE  /\ \A id \in FirstId(q, sz)..Len(sz) :
                /\ id \in 1..Len(sz) /\ FirstByte(q, sz, id) \in Nat
                /\ \A x : Waits(q, id, x) <=> x \in FirstByte(q, sz, id)..(sz[id] - 1)
           /\ \A id, x : Waits(q, id, x) => id \in FirstId(q, sz)..Len(sz)
<1>1. q \in Queues
  BY DEF QueueRight
<1>2. PICK es \in Seq(Elements) : es = q.elements
  BY <1>1, QueueHas
<1>3. PICK m \in Nat, k \in Nat : m = Len(es) /\ k = Len(sz) /\ m <= k
  <2>1. Len(es) \in Nat /\ Len(sz) \in Nat
    BY DEF PacketSizes
  <2> QED
    BY <1>2, <2>1 DEF QueueRight
<1>4. FirstId(q, sz) = k - m + 1
  BY <1>2, <1>3 DEF FirstId
<1>5. ASSUME NEW i \in 1..m
      PROVE  /\ es[i].id = k - m + i /\ es[i].size = sz[k - m + i]
             /\ es[i].offset \in Nat /\ (es[i].offset > 0 => i = 1)
  <2>1. es[i].id = k - m + i /\ es[i].size = sz[es[i].id]
    BY <1>2, <1>3 DEF QueueRight
  <2>2. es[i] \in Elements
    BY <1>3
  <2>3. es[i].offset \in Nat
    BY <2>2 DEF Elements
  <2>4. Marked(es[i], i)
    BY <1>1, <1>2, <1>3, QueueHas
  <2> QED
    BY <2>1, <2>3, <2>4 DEF Marked
<1>6. ASSUME NEW id \in (k - m + 1)..k
      PROVE  /\ id \in 1..k /\ FirstByte(q, sz, id) \in Nat
             /\ \A x : Waits(q, id, x) <=> x \in FirstByte(q, sz, id)..(sz[id] - 1)
  <2>1. PICK i \in 1..m : i = id - (k - m)
    BY <1>3
  <2>2. es[i].id = id /\ es[i].size = sz[id] /\ es[i].offset \in Nat
    <3>1. k - m + i = id
      BY <1>3, <2>1
    <3> QED
      BY <1>5, <3>1
  <2>3. FirstByte(q, sz, id) = es[i].offset
    <3>1. CASE i = 1
      <4>1. id = FirstId(q, sz)
        BY <1>3, <1>4, <2>1, <3>1
      <4> QED
        BY <1>2, <3>1, <4>1 DEF FirstByte
    <3>2. CASE i # 1
      <4>1. id # FirstId(q, sz)
        BY <1>3, <1>4, <2>1, <3>2
      <4>2. es[i].offset \in Nat /\ (es[i].offset > 0 => i = 1)
        BY <1>5
      <4>3. es[i].offset = 0
        BY <3>2, <4>2
      <4> QED
        BY <4>1, <4>3 DEF FirstByte
    <3> QED
      BY <3>1, <3>2
  <2>4. ASSUME NEW j \in 1..m, es[j].id = id
        PROVE  j = i
    <3>1. k - m + j = id
      BY <1>5, <2>4
    <3> QED
      BY <1>3, <2>1, <3>1
  <2>5. \A x : Waits(q, id, x) <=> x \in es[i].offset..(es[i].size - 1)
    BY <1>2, <1>3, <2>2, <2>4 DEF Waits
  <2> QED
    BY <1>3, <2>2, <2>3, <2>5
<1>7. ASSUME NEW id, NEW x, Waits(q, id, x)
      PROVE  id \in (k - m + 1)..k
  <2>1. PICK i \in 1..m : es[i].id = id
    BY <1>2, <1>3, <1>7 DEF Waits
  <2> QED
    BY <1>3, <1>5, <2>1
<1> QED
  BY <1>3, <1>4, <1>6, <1>7

\* A PDU that was cut last from the head of the queue.
LEMMA CutLast ==
    ASSUME NEW sz \in PacketSizes, NEW q, QueueRight(q, sz), NEW id \in FirstId(q, sz)..Len(sz),
           FirstByte(q, sz, id) > 0
    PROVE  \E r \in Pdus : /\ GoneOn(r, q, sz) /\ r.id = id /\ id = FirstId(q, sz)
                           /\ r.endByte + 1 = FirstByte(q, sz, id)
<1>1. q \in Queues
  BY DEF QueueRight
<1>2. PICK es \in Seq(Elements) : es = q.elements
  BY <1>1, QueueHas
<1>3. PICK m \in Nat, k \in Nat : m = Len(es) /\ k = Len(sz) /\ m <= k
  <2>1. Len(es) \in Nat /\ Len(sz) \in Nat
    BY DEF PacketSizes
  <2> QED
    BY <1>2, <2>1 DEF QueueRight
<1>4. FirstId(q, sz) = k - m + 1
  BY <1>2, <1>3 DEF FirstId
<1>5. id = FirstId(q, sz) /\ es[1].offset = FirstByte(q, sz, id)
  BY <1>2 DEF FirstByte
<1>6. 1 \in 1..m
  BY <1>3, <1>4
<1>7. es[1].id = id /\ es[1] \in Elements
  <2>1. es[1].id = k - m + 1
    BY <1>2, <1>3, <1>6 DEF QueueRight
  <2> QED
    BY <1>3, <1>4, <1>5, <1>6, <2>1
<1>8. es[1].offset \in Nat \ {0} /\ es[1].number \in Nat \ {0} /\ id \in Nat
  <2>1. Marked(es[1], 1)
    BY <1>1, <1>2, <1>3, <1>6, QueueHas
  <2>2. es[1].offset \in Nat /\ es[1].number \in Nat /\ es[1].id \in Nat
    BY <1>7 DEF Elements
  <2> QED
    BY <1>5, <1>7, <2>1, <2>2 DEF Marked
<1>9. PICK r : r = [id |-> id, startByte |-> 0, endByte |-> es[1].offset - 1,
                    number |-> es[1].number - 1, isFragment |-> TRUE, latest |-> FALSE]
  OBVIOUS
<1>10. /\ r.id = id /\ r.endByte = es[1].offset - 1 /\ r.number = es[1].number - 1
       /\ r \in Pdus
  BY <1>8, <1>9 DEF Pdus
<1>11. es # <<>>
  BY <1>3, <1>6
<1>12. GoneOn(r, q, sz)
  BY <1>2, <1>7, <1>8, <1>10, <1>11 DEF GoneOn
<1> QED
  BY <1>5, <1>8, <1>10, <1>12

\* No byte comes back to the queue.
LEMMA NoByteComesBack ==
    ASSUME NEW sz \in PacketSizes, NEW q, QueueRight(q, sz), NEW q2, QueueRight(q2, sz),
           FirstId(q, sz) <= FirstId(q2, sz),
           \A r \in Pdus : GoneOn(r, q, sz) => GoneOn(r, q2, sz),
           NEW id, NEW x, Waits(q2, id, x)
    PROVE  Waits(q, id, x)
<1>1. FirstId(q, sz) \in Int /\ FirstId(q2, sz) \in Int /\ Len(sz) \in Nat
  <2>1. q.elements \in Seq(Elements) /\ q2.elements \in Seq(Elements)
    BY QueueHas DEF QueueRight
  <2> QED
    BY <2>1 DEF FirstId, PacketSizes
<1>2. /\ id \in FirstId(q2, sz)..Len(sz) /\ FirstByte(q2, sz, id) \in Nat
      /\ x \in FirstByte(q2, sz, id)..(sz[id] - 1)
  BY WaitsIs
<1>3. id \in FirstId(q, sz)..Len(sz)
  BY <1>1, <1>2
<1>4. id \in 1..Len(sz) /\ FirstByte(q, sz, id) \in Nat
  BY <1>3, WaitsIs
<1>5. FirstByte(q, sz, id) <= FirstByte(q2, sz, id)
  <2>1. CASE FirstByte(q, sz, id) = 0
    BY <1>2, <2>1
  <2>2. CASE FirstByte(q, sz, id) > 0
    <3>1. PICK r \in Pdus : /\ GoneOn(r, q, sz) /\ r.id = id
                            /\ r.endByte + 1 = FirstByte(q, sz, id)
      BY <1>3, <2>2, CutLast
    <3>2. GoneOn(r, q2, sz)
      BY <3>1
    <3>3. ~ (r.id < FirstId(q2, sz))
      BY <1>1, <1>2, <3>1
    <3>4. id = q2.elements[1].id /\ r.endByte < q2.elements[1].offset /\ q2.elements # <<>>
      BY <3>1, <3>2, <3>3 DEF GoneOn
    <3>5. FirstByte(q2, sz, id) = q2.elements[1].offset
      <4>1. q2.elements \in Seq(Elements)
        BY QueueHas DEF QueueRight
      <4>2. 1 \in 1..Len(q2.elements)
        BY <3>4, <4>1
      <4>3. q2.elements[1].id = FirstId(q2, sz)
        BY <4>2 DEF QueueRight, FirstId
      <4> QED
        BY <3>4, <4>3 DEF FirstByte
    <3>6. r.endByte \in Nat
      BY DEF Pdus
    <3> QED
      BY <1>2, <1>4, <3>1, <3>4, <3>5, <3>6
  <2> QED
    BY <1>4, <2>1, <2>2
<1>6. sz[id] \in Nat
  BY <1>4 DEF PacketSizes
<1>7. x \in FirstByte(q, sz, id)..(sz[id] - 1)
  BY <1>2, <1>4, <1>5, <1>6
<1> QED
  BY <1>3, <1>7, WaitsIs

\* The bytes that go on the air have waited.
LEMMA SentBytesWaited ==
    ASSUME NEW sz \in PacketSizes, NEW q, QueueRight(q, sz),
           NEW p, PduRight(p, sz), FirstId(q, sz) <= p.id,
           \A r \in Pdus : GoneOn(r, q, sz) => Precedes(r, p),
           NEW x \in BytesIn(p)
    PROVE  Waits(q, p.id, x)
<1>1. /\ p.id \in 1..Len(sz) /\ p.startByte \in Nat /\ p.endByte \in Nat /\ p.endByte < sz[p.id]
      /\ p.id \in Nat /\ x \in p.startByte..p.endByte /\ Len(sz) \in Nat /\ sz[p.id] \in Nat
  <2>1. p \in Pdus /\ p.id \in 1..Len(sz) /\ p.endByte < sz[p.id]
    BY DEF PduRight
  <2>2. p.startByte \in Nat /\ p.endByte \in Nat /\ p.id \in Nat
    BY <2>1 DEF Pdus
  <2> QED
    BY <2>1, <2>2 DEF BytesIn, PacketSizes
<1>2. FirstId(q, sz) \in Int
  <2>1. q.elements \in Seq(Elements)
    BY QueueHas DEF QueueRight
  <2> QED
    BY <1>1, <2>1 DEF FirstId
<1>3. p.id \in FirstId(q, sz)..Len(sz)
  BY <1>1, <1>2
<1>4. FirstByte(q, sz, p.id) \in Nat
  BY <1>3, WaitsIs
<1>5. FirstByte(q, sz, p.id) <= p.startByte
  <2>1. CASE FirstByte(q, sz, p.id) = 0
    BY <1>1, <2>1
  <2>2. CASE FirstByte(q, sz, p.id) > 0
    <3>1. PICK r \in Pdus : /\ GoneOn(r, q, sz) /\ r.id = p.id
                            /\ r.endByte + 1 = FirstByte(q, sz, p.id)
      BY <1>3, <2>2, CutLast
    <3>2. Precedes(r, p) /\ ~ (r.id < p.id)
      BY <1>1, <3>1
    <3>3. r.endByte < p.startByte
      BY <3>2 DEF Precedes, Earlier
    <3>4. r.endByte \in Nat
      BY DEF Pdus
    <3> QED
      BY <1>1, <1>4, <3>1, <3>3, <3>4
  <2> QED
    BY <1>4, <2>1, <2>2
<1>6. x \in FirstByte(q, sz, p.id)..(sz[p.id] - 1)
  BY <1>1, <1>4, <1>5
<1> QED
  BY <1>3, <1>6, WaitsIs

\* An element joins the second of two sequences.
LEMMA AppendBehind ==
    ASSUME NEW r \in Seq(Nat), NEW s \in Seq(Nat), NEW x \in Nat
    PROVE  Append(r \o s, x) = r \o Append(s, x)
<1>1. PICK k \in Nat, m \in Nat : k = Len(r) /\ m = Len(s)
  <2>1. Len(r) \in Nat /\ Len(s) \in Nat
    OBVIOUS
  <2> QED
    BY <2>1
<1>2. PICK rs : rs = r \o s /\ rs \in Seq(Nat)
  <2>1. r \o s \in Seq(Nat)
    OBVIOUS
  <2> QED
    BY <2>1
<1>3. PICK sx : sx = Append(s, x) /\ sx \in Seq(Nat)
  <2>1. Append(s, x) \in Seq(Nat)
    OBVIOUS
  <2> QED
    BY <2>1
<1>4. /\ Len(rs) = k + m /\ \A i \in 1..k : rs[i] = r[i]
      /\ \A i \in 1..m : rs[k + i] = s[i]
  BY <1>1, <1>2
<1>5. Len(sx) = m + 1 /\ sx[m + 1] = x /\ \A i \in 1..m : sx[i] = s[i]
  BY <1>1, <1>3
<1>6. PICK A : A = Append(rs, x) /\ A \in Seq(Nat)
  <2>1. Append(rs, x) \in Seq(Nat)
    BY <1>2
  <2> QED
    BY <2>1
<1>7. PICK B : B = r \o sx /\ B \in Seq(Nat)
  <2>1. r \o sx \in Seq(Nat)
    BY <1>3
  <2> QED
    BY <2>1
<1>8. Len(A) = k + m + 1 /\ A[k + m + 1] = x /\ \A i \in 1..(k + m) : A[i] = rs[i]
  BY <1>1, <1>2, <1>4, <1>6
<1>9. /\ Len(B) = k + (m + 1) /\ \A i \in 1..k : B[i] = r[i]
      /\ \A i \in 1..(m + 1) : B[k + i] = sx[i]
  <2>1. Len(sx) = m + 1
    BY <1>5
  <2> QED
    BY <1>1, <1>3, <1>7, <2>1
<1>10. ASSUME NEW i \in 1..(k + m + 1)
       PROVE  A[i] = B[i]
  <2>1. CASE i \in 1..k
    <3>1. i \in 1..(k + m)
      BY <2>1
    <3> QED
      BY <1>4, <1>8, <1>9, <2>1, <3>1
  <2>2. CASE i = k + m + 1
    <3>1. m + 1 \in 1..(m + 1) /\ i = k + (m + 1)
      BY <2>2
    <3> QED
      BY <1>5, <1>8, <1>9, <2>2, <3>1
  <2>3. CASE i \notin 1..k /\ i # k + m + 1
    <3>1. PICK j \in 1..m : i = k + j
      <4>1. i - k \in 1..m /\ i = k + (i - k)
        BY <2>3
      <4> QED
        BY <4>1
    <3>2. i \in 1..(k + m) /\ j \in 1..(m + 1)
      BY <3>1
    <3> QED
      BY <1>4, <1>5, <1>8, <1>9, <3>1, <3>2
  <2> QED
    BY <2>1, <2>2, <2>3
<1>11. Len(A) = Len(B) /\ \A i \in 1..Len(A) : A[i] = B[i]
  BY <1>8, <1>9, <1>10
<1>12. A = B
  BY <1>6, <1>7, <1>11, SeqEqual
<1> QED
  BY <1>2, <1>3, <1>6, <1>7, <1>12

\* What has been passed on before does not change what comes of a PDU.
LEMMA ReceiveAdds ==
    ASSUME NEW s \in Receptions, NEW t \in Receptions, NEW rec \in Seq(Nat), NEW p \in Pdus,
           s.incoming = t.incoming, s.received = rec \o t.received
    PROVE  /\ Receive(s, p).incoming = Receive(t, p).incoming
           /\ Receive(s, p).received = rec \o Receive(t, p).received
<1>1. PICK kept : kept = ForgetOther(t.incoming, p)
  OBVIOUS
<1>2. PICK old \in Seq(Nat) : old = t.received
  BY DEF Receptions
<1>3. p.id \in Nat
  BY DEF Pdus
<1>4. Append(s.received, p.id) = rec \o Append(t.received, p.id)
  <2>1. Append(rec \o old, p.id) = rec \o Append(old, p.id)
    BY <1>3, AppendBehind
  <2> QED
    BY <1>2, <2>1
<1>5. CASE ~p.isFragment
  <2>1. /\ Receive(s, p).incoming = kept /\ Receive(t, p).incoming = kept
        /\ Receive(s, p).received = Append(s.received, p.id)
        /\ Receive(t, p).received = Append(t.received, p.id)
    BY <1>1, <1>5 DEF Receive
  <2> QED
    BY <1>4, <2>1
<1>6. CASE p.isFragment /\ ~p.latest
  <2>1. /\ Receive(s, p) = [incoming |-> Append(kept, p), received |-> s.received]
        /\ Receive(t, p) = [incoming |-> Append(kept, p), received |-> t.received]
    BY <1>1, <1>6 DEF Receive
  <2> QED
    BY <2>1
<1>7. CASE p.isFragment /\ p.latest /\ Reassembled(Append(kept, p), p)
  <2>1. /\ Receive(s, p).incoming = <<>> /\ Receive(t, p).incoming = <<>>
        /\ Receive(s, p).received = Append(s.received, p.id)
        /\ Receive(t, p).received = Append(t.received, p.id)
    BY <1>1, <1>7 DEF Receive
  <2> QED
    BY <1>4, <2>1
<1>8. CASE p.isFragment /\ p.latest /\ ~Reassembled(Append(kept, p), p)
  <2>1. /\ Receive(s, p) = [incoming |-> <<>>, received |-> s.received]
        /\ Receive(t, p) = [incoming |-> <<>>, received |-> t.received]
    BY <1>1, <1>8 DEF Receive
  <2> QED
    BY <2>1
<1> QED
  BY <1>5, <1>6, <1>7, <1>8

\* Nor does it change what comes of a burst.
LEMMA ReceiveAllAdds ==
    ASSUME NEW inc \in Seq(Pdus), NEW rec \in Seq(Nat), NEW b \in Seq(Pdus),
           NEW new, Receives(inc, rec, b, new), NEW fresh, Receives(inc, <<>>, b, fresh)
    PROVE  /\ new.incoming = fresh.incoming
           /\ new.received = rec \o fresh.received /\ fresh.received \in Seq(Nat)
<1>1. PICK s \in Receptions : s = [incoming |-> inc, received |-> rec]
  BY DEF Receptions
<1>2. PICK t \in Receptions : t = [incoming |-> inc, received |-> <<>>]
  <2>1. <<>> \in Seq(Nat)
    OBVIOUS
  <2> QED
    BY <2>1 DEF Receptions
<1>3. PICK g : /\ g \in [0..Len(b) -> Receptions]
               /\ g[0] = s
               /\ \A j \in 1..Len(b) : g[j] = Receive(g[j - 1], b[j])
               /\ new = g[Len(b)]
  <2>1. new = ReceiveAll(s, b)
    BY <1>1 DEF Receives
  <2>2. \E f \in [0..Len(b) -> Receptions] :
            /\ f[0] = s
            /\ \A j \in 1..Len(b) : f[j] = Receive(f[j - 1], b[j])
            /\ ReceiveAll(s, b) = f[Len(b)]
    BY ReceiveAllRecursion
  <2> QED
    BY <2>1, <2>2
<1>4. PICK h : /\ h \in [0..Len(b) -> Receptions]
               /\ h[0] = t
               /\ \A j \in 1..Len(b) : h[j] = Receive(h[j - 1], b[j])
               /\ fresh = h[Len(b)]
  <2>1. fresh = ReceiveAll(t, b)
    BY <1>2 DEF Receives
  <2>2. \E f \in [0..Len(b) -> Receptions] :
            /\ f[0] = t
            /\ \A j \in 1..Len(b) : f[j] = Receive(f[j - 1], b[j])
            /\ ReceiveAll(t, b) = f[Len(b)]
    BY ReceiveAllRecursion
  <2> QED
    BY <2>1, <2>2
<1>5. PICK n \in Nat : n = Len(b)
  OBVIOUS
<1> DEFINE Same(j) == g[j].incoming = h[j].incoming /\ g[j].received = rec \o h[j].received
           S == {j \in 0..n : Same(j)}
           m == [j \in 0..n |-> j]
<1>6. m[0] \in S
  <2>1. rec \o <<>> = rec
    OBVIOUS
  <2>2. Same(0)
    BY <1>1, <1>2, <1>3, <1>4, <2>1
  <2> QED
    BY <1>5, <2>2
<1>7. ASSUME NEW j \in 1..n, m[j - 1] \in S
      PROVE  m[j] \in S
  <2>1. j - 1 \in 0..n /\ j \in 0..n /\ m[j] = j /\ m[j - 1] = j - 1
    BY <1>5
  <2>2. Same(j - 1)
    BY <1>7, <2>1
  <2>3. PICK x \in Receptions, y \in Receptions, p \in Pdus :
            x = g[j - 1] /\ y = h[j - 1] /\ p = b[j]
    <3>1. g[j - 1] \in Receptions /\ h[j - 1] \in Receptions
      BY <1>3, <1>4, <1>5, <2>1
    <3>2. b[j] \in Pdus
      BY <1>5
    <3> QED
      BY <3>1, <3>2
  <2>4. /\ Receive(x, p).incoming = Receive(y, p).incoming
        /\ Receive(x, p).received = rec \o Receive(y, p).received
    <3>1. x.incoming = y.incoming /\ x.received = rec \o y.received
      BY <2>2, <2>3
    <3> HIDE DEF Same, S, m
    <3> QED
      BY <3>1, ReceiveAdds
  <2>5. g[j] = Receive(x, p) /\ h[j] = Receive(y, p)
    BY <1>3, <1>4, <1>5, <2>3
  <2>6. Same(j)
    BY <2>4, <2>5
  <2> HIDE DEF Same
  <2> QED
    BY <2>1, <2>6
<1>8. n \in S
  <2>1. m[n] = n /\ n \in 0..n
    BY <1>5
  <2> HIDE DEF S, m
  <2>2. \A j \in 0..n : m[j] \in S
    BY <1>6, <1>7, Along
  <2> QED
    BY <2>1, <2>2
<1>9. fresh \in Receptions
  BY <1>4, <1>5
<1> QED
  BY <1>3, <1>4, <1>5, <1>8, <1>9 DEF Receptions

\* The bytes the receiver keeps.
KeptBytes(inc, sz) == [id \in 1..Len(sz) |-> BytesOf(inc, id)]

\* A burst is received: what is passed on was kept or is in the burst, whole, and so are the
\* bytes that are kept now.
LEMMA BurstPassesOnWhole ==
    ASSUME NEW sz \in PacketSizes, NEW q, QueueRight(q, sz),
           NEW P, OnTheAir(P, q, sz), NEW b, NEW R, Leaves(b, P, R),
           NEW inc, NEW rec, NEW arr, ReceiverRight(inc, rec, arr, P, q, sz),
           NEW fresh, Receives(inc, <<>>, b, fresh)
    PROVE  /\ \A i \in 1..Len(fresh.received) :
                /\ fresh.received[i] \in 1..Len(sz)
                /\ BytesOf(inc, fresh.received[i]) \cup BytesOf(b, fresh.received[i])
                        = 0..(sz[fresh.received[i]] - 1)
           /\ \A id : BytesOf(fresh.incoming, id) \subseteq BytesOf(inc, id) \cup BytesOf(b, id)
<1>1. FragmentsRight(inc, q, sz) /\ \A p \in P : \A j \in 1..Len(inc) : Apart(p, inc[j])
  BY DEF ReceiverRight
<1>2. PICK a : a = KeptBytes(inc, sz)
  OBVIOUS
<1>3. PICK a2 : a2 = ArriveAll(a, b, sz)
  OBVIOUS
<1>4. ArrivedRight(inc, a, sz)
  <2>1. DOMAIN a = 1..Len(sz)
    BY <1>2 DEF KeptBytes
  <2>2. ASSUME NEW id \in 1..Len(sz), NEW x \in a[id]
        PROVE  x \in 0..(sz[id] - 1)
    <3>1. x \in BytesOf(inc, id)
      BY <1>2 DEF KeptBytes
    <3>2. PICK j \in 1..Len(inc) : inc[j].id = id /\ x \in BytesIn(inc[j])
      BY <3>1, BytesOfIs
    <3>3. PduRight(inc[j], sz)
      BY <1>1 DEF FragmentsRight
    <3>4. inc[j].startByte \in Nat /\ inc[j].endByte \in Nat /\ inc[j].endByte < sz[id]
      BY <3>2, <3>3 DEF PduRight, Pdus
    <3>5. sz[id] \in Nat
      BY DEF PacketSizes
    <3> QED
      BY <3>2, <3>4, <3>5 DEF BytesIn
  <2>3. ASSUME NEW j \in 1..Len(inc), NEW x \in BytesIn(inc[j])
        PROVE  x \in a[inc[j].id]
    <3>1. inc[j].id \in 1..Len(sz)
      BY <1>1 DEF FragmentsRight, PduRight
    <3>2. x \in BytesOf(inc, inc[j].id)
      BY BytesOfIs
    <3> QED
      BY <1>2, <3>1, <3>2 DEF KeptBytes
  <2> QED
    BY <2>1, <2>2, <2>3 DEF ArrivedRight
<1>5. ReceivedRight(<<>>, a, P, q, sz)
  BY DEF ReceivedRight
<1>6. ReceiverRight(inc, <<>>, a, P, q, sz)
  BY <1>1, <1>4, <1>5 DEF ReceiverRight
<1>7. ReceiverRight(fresh.incoming, fresh.received, a2, R, q, sz)
  BY <1>3, <1>6, BurstArrives
<1>8. \A id \in 1..Len(sz) : a2[id] = BytesOf(inc, id) \cup BytesOf(b, id)
  BY <1>2, <1>3 DEF ArriveAll, KeptBytes
<1>9. /\ FragmentsRight(fresh.incoming, q, sz) /\ ArrivedRight(fresh.incoming, a2, sz)
      /\ ReceivedRight(fresh.received, a2, R, q, sz)
  BY <1>7 DEF ReceiverRight
<1>10. ASSUME NEW i \in 1..Len(fresh.received)
       PROVE  /\ fresh.received[i] \in 1..Len(sz)
              /\ a2[fresh.received[i]] = 0..(sz[fresh.received[i]] - 1)
  BY <1>9 DEF ReceivedRight
<1>11. ASSUME NEW id, NEW x \in BytesOf(fresh.incoming, id)
       PROVE  x \in BytesOf(inc, id) \cup BytesOf(b, id)
  <2>1. PICK j \in 1..Len(fresh.incoming) :
            fresh.incoming[j].id = id /\ x \in BytesIn(fresh.incoming[j])
    BY BytesOfIs
  <2>2. x \in a2[id]
    BY <1>9, <2>1 DEF ArrivedRight
  <2>3. id \in 1..Len(sz)
    BY <1>9, <2>1 DEF FragmentsRight, PduRight
  <2> QED
    BY <1>8, <2>2, <2>3
<1> QED
  BY <1>8, <1>10, <1>11

\* A packet that may still be delivered waits, or its last byte is on the air.
LEMMA LastByteRemains ==
    ASSUME NEW sz \in PacketSizes, NEW q, QueueRight(q, sz),
           NEW P, \A p \in P : PduRight(p, sz),
           NEW inc, FragmentsRight(inc, q, sz),
           NEW id \in StillWhole(q, P, inc, sz)
    PROVE  /\ id \in 1..Len(sz)
           /\ FirstId(q, sz) <= id \/ \E p \in P : p.latest /\ p.id = id
<1>1. id \in 1..Len(sz) /\ \A x \in 0..(sz[id] - 1) : Remains(q, P, inc, id, x)
  BY DEF StillWhole
<1>2. PICK x \in Nat : x = sz[id] - 1 /\ x \in 0..(sz[id] - 1)
  <2>1. sz[id] \in Nat \ {0}
    BY <1>1 DEF PacketSizes
  <2>2. sz[id] - 1 \in Nat /\ sz[id] - 1 \in 0..(sz[id] - 1)
    BY <2>1
  <2> QED
    BY <2>2
<1>3. CASE Waits(q, id, x)
  <2>1. id \in FirstId(q, sz)..Len(sz)
    BY <1>3, WaitsIs
  <2> QED
    BY <1>1, <2>1
<1>4. ASSUME NEW p, PduRight(p, sz), p.id = id, x \in BytesIn(p)
      PROVE  p.latest
  <2>1. p.endByte < sz[id] /\ (p.latest <=> p.endByte = sz[id] - 1) /\ p \in Pdus
    BY <1>4 DEF PduRight
  <2>2. p.endByte \in Nat /\ p.startByte \in Nat /\ x <= p.endByte
    BY <1>4, <2>1 DEF Pdus, BytesIn
  <2>3. sz[id] \in Nat
    BY <1>1 DEF PacketSizes
  <2> QED
    BY <1>2, <2>1, <2>2, <2>3
<1>5. CASE x \in BytesOf(inc, id)
  <2>1. PICK j \in 1..Len(inc) : inc[j].id = id /\ x \in BytesIn(inc[j])
    BY <1>5, BytesOfIs
  <2>2. PduRight(inc[j], sz) /\ ~inc[j].latest
    BY DEF FragmentsRight
  <2> QED
    BY <1>4, <2>1, <2>2
<1>6. CASE Flies(P, id, x)
  <2>1. PICK p \in P : p.id = id /\ x \in BytesIn(p)
    BY <1>6 DEF Flies
  <2> QED
    BY <1>1, <1>4, <2>1
<1>7. Remains(q, P, inc, id, x)
  BY <1>1, <1>2
<1> QED
  BY <1>3, <1>5, <1>6, <1>7 DEF Remains

\* A packet that may still be delivered has not been, and in order what was is older.
LEMMA NotYetDelivered ==
    ASSUME NEW sz \in PacketSizes, NEW q, QueueRight(q, sz),
           NEW P, \A p \in P : PduRight(p, sz),
           NEW inc, NEW rec, NEW arr, ReceiverRight(inc, rec, arr, P, q, sz),
           NEW id \in StillWhole(q, P, inc, sz), NEW i \in 1..Len(rec)
    PROVE  rec[i] # id /\ (InTurn(inc, rec, arr, P, q, sz) => rec[i] < id)
<1>1. FragmentsRight(inc, q, sz) /\ ReceivedRight(rec, arr, P, q, sz)
  BY DEF ReceiverRight
<1>2. /\ id \in 1..Len(sz)
      /\ FirstId(q, sz) <= id \/ \E p \in P : p.latest /\ p.id = id
  BY <1>1, LastByteRemains
<1>3. rec[i] \in 1..Len(sz) /\ rec[i] < FirstId(q, sz) /\ \A p \in P : p.latest => rec[i] # p.id
  BY <1>1 DEF ReceivedRight
<1>4. FirstId(q, sz) \in Nat
  BY FirstIdIs
<1>5. rec[i] # id
  BY <1>2, <1>3, <1>4
<1>6. ASSUME InTurn(inc, rec, arr, P, q, sz)
      PROVE  rec[i] < id
  <2>1. \A p \in P : rec[i] < p.id
    BY <1>6 DEF InTurn
  <2> QED
    BY <1>2, <1>3, <1>4, <2>1
<1> QED
  BY <1>5, <1>6

\* Intact, now and in the next state.
LEMMA IntactIs ==
    /\ Intact = StillWhole(m_queue, PdusOf(air), m_incomingPacket, sizeOf)
    /\ Intact' = StillWhole(m_queue', PdusOf(air'), m_incomingPacket', sizeOf')
<1>1. Intact = StillWhole(m_queue, PdusOf(air), m_incomingPacket, sizeOf)
  BY IntactOnes DEF Intact, Ids
<1>2. Intact' = {id \in 1..Len(sizeOf') : 0..(sizeOf'[id] - 1) \subseteq
                    WaitingBytes(m_queue', id) \cup BytesOf(m_incomingPacket', id)
                        \cup UNION {BytesOf(air'[i].pdus, id) : i \in 1..Len(air')}}
  BY DEF Intact, Ids, WaitingBytes, BytesOf
<1>3. Intact' = StillWhole(m_queue', PdusOf(air'), m_incomingPacket', sizeOf')
  BY <1>2, IntactOnes
<1> QED
  BY <1>1, <1>3

\* What was delivered is not delivered again.
LEMMA DeliveredIsOver ==
    ASSUME NEW sz \in PacketSizes, NEW q, QueueRight(q, sz), NEW a, AirRight(a, q, sz),
           NEW inc, NEW rec, NEW arr, ReceiverRight(inc, rec, arr, PdusOf(a), q, sz),
           NEW W, W = StillWhole(q, PdusOf(a), inc, sz)
    PROVE  /\ rec \in Seq(Nat) /\ \A i \in 1..Len(rec) : rec[i] \notin W
           /\ \A i, j \in 1..Len(rec) : i # j => rec[i] # rec[j]
           /\ InTurn(inc, rec, arr, PdusOf(a), q, sz) =>
                /\ \A i, j \in 1..Len(rec) : i < j => rec[i] < rec[j]
                /\ \A i \in 1..Len(rec) : \A id \in W : rec[i] < id
<1>1. PICK P : P = PdusOf(a) /\ \A p \in P : PduRight(p, sz)
  <2>1. OnTheAir(PdusOf(a), q, sz)
    BY PdusAreOnTheAir
  <2> QED
    BY <2>1 DEF OnTheAir
<1>2. ReceiverRight(inc, rec, arr, P, q, sz) /\ W = StillWhole(q, P, inc, sz)
  BY <1>1
<1>3. ASSUME NEW id \in W, NEW i \in 1..Len(rec)
      PROVE  rec[i] # id /\ (InTurn(inc, rec, arr, P, q, sz) => rec[i] < id)
  BY <1>1, <1>2, NotYetDelivered
<1>4. /\ rec \in Seq(Nat)
      /\ \A i, j \in 1..Len(rec) : i # j => rec[i] # rec[j]
  <2>1. ReceivedRight(rec, arr, P, q, sz)
    BY <1>2 DEF ReceiverRight
  <2>2. rec \in Seq(1..Len(sz))
    BY <2>1 DEF ReceivedRight
  <2>3. \A i, j \in 1..Len(rec) : i # j => rec[i] # rec[j]
    BY <2>1 DEF ReceivedRight
  <2> QED
    BY <2>2, <2>3
<1>5. InTurn(inc, rec, arr, P, q, sz) => \A i, j \in 1..Len(rec) : i < j => rec[i] < rec[j]
  BY DEF InTurn
<1> QED
  BY <1>1, <1>3, <1>4, <1>5

\* What joins a sequence is its end.
LEMMA EndIs ==
    ASSUME NEW r \in Seq(Nat), NEW s \in Seq(Nat), NEW t, t = r \o s
    PROVE  /\ SubSeq(t, Len(r) + 1, Len(t)) = s
           /\ \A i \in 1..Len(s) : s[i] = t[Len(r) + i]
           /\ Len(t) = Len(r) + Len(s)
<1>1. PICK k \in Nat, m \in Nat : k = Len(r) /\ m = Len(s)
  <2>1. Len(r) \in Nat /\ Len(s) \in Nat
    OBVIOUS
  <2> QED
    BY <2>1
<1>2. t \in Seq(Nat) /\ Len(t) = k + m /\ \A i \in 1..m : t[k + i] = s[i]
  BY <1>1
<1>3. PICK e : e = SubSeq(t, k + 1, k + m)
  OBVIOUS
<1>4. e \in Seq(Nat) /\ Len(e) = m /\ \A i \in 1..m : e[i] = t[k + i]
  <2>1. \A i \in (k + 1)..(k + m) : t[i] \in Nat
    BY <1>2
  <2> QED
    BY <1>1, <1>2, <1>3, <2>1
<1>5. Len(e) = Len(s) /\ \A i \in 1..Len(e) : e[i] = s[i]
  BY <1>1, <1>2, <1>4
<1>6. e = s
  BY <1>4, <1>5, SeqEqual
<1> QED
  BY <1>1, <1>2, <1>3, <1>6

\* A step of the bearer in which nothing new is handed over settles packets that may still
\* be delivered.
LEMMA SettleIs ==
    ASSUME IInv, IInv', harq_active' = harq_active, sizeOf' = sizeOf,
           NEW s \in Seq(Nat), received' = received \o s,
           \A i \in 1..Len(s) : s[i] \in Intact, Intact' \subseteq Intact
    PROVE  Service!Settle
<1>1. /\ received \in Seq(Nat)
      /\ \A i \in 1..Len(received') : received'[i] \notin Intact'
      /\ \A i, j \in 1..Len(received') : i # j => received'[i] # received'[j]
      /\ ~harq_active =>
            /\ \A i, j \in 1..Len(received') : i < j => received'[i] < received'[j]
            /\ \A i \in 1..Len(received') : \A id \in Intact' : received'[i] < id
  <2>1. received \in Seq(Nat)
    <3>1. received \in Seq(1..Len(sizeOf))
      BY DEF IInv, ReceiverRight, ReceivedRight
    <3> QED
      BY <3>1
  <2>2. /\ sizeOf' \in PacketSizes /\ QueueRight(m_queue', sizeOf')
        /\ AirRight(air', m_queue', sizeOf')
        /\ ReceiverRight(m_incomingPacket', received', arrived', PdusOf(air'), m_queue', sizeOf')
        /\ ~harq_active =>
              InTurn(m_incomingPacket', received', arrived', PdusOf(air'), m_queue', sizeOf')
    BY Primed DEF IInv
  <2>3. Intact' = StillWhole(m_queue', PdusOf(air'), m_incomingPacket', sizeOf')
    BY IntactIs
  <2>4. /\ \A i \in 1..Len(received') : received'[i] \notin Intact'
        /\ \A i, j \in 1..Len(received') : i # j => received'[i] # received'[j]
        /\ InTurn(m_incomingPacket', received', arrived', PdusOf(air'), m_queue', sizeOf') =>
            /\ \A i, j \in 1..Len(received') : i < j => received'[i] < received'[j]
            /\ \A i \in 1..Len(received') : \A id \in Intact' : received'[i] < id
    <3>1. PICK z, q, a, inc, rec, arr, W :
              /\ z = sizeOf' /\ q = m_queue' /\ a = air' /\ inc = m_incomingPacket'
              /\ rec = received' /\ arr = arrived' /\ W = Intact'
      OBVIOUS
    <3>2. /\ z \in PacketSizes /\ QueueRight(q, z) /\ AirRight(a, q, z)
          /\ ReceiverRight(inc, rec, arr, PdusOf(a), q, z)
          /\ W = StillWhole(q, PdusOf(a), inc, z)
      BY <2>2, <2>3, <3>1
    <3>3. /\ \A i \in 1..Len(rec) : rec[i] \notin W
          /\ \A i, j \in 1..Len(rec) : i # j => rec[i] # rec[j]
          /\ InTurn(inc, rec, arr, PdusOf(a), q, z) =>
                /\ \A i, j \in 1..Len(rec) : i < j => rec[i] < rec[j]
                /\ \A i \in 1..Len(rec) : \A id \in W : rec[i] < id
      BY <3>2, DeliveredIsOver
    <3> QED
      BY <3>1, <3>3
  <2> QED
    BY <2>1, <2>2, <2>4
<1>2. PICK k \in Nat, m \in Nat : k = Len(received) /\ m = Len(s)
  <2>1. Len(received) \in Nat /\ Len(s) \in Nat
    BY <1>1
  <2> QED
    BY <2>1
<1>3. PICK t, D, E : t = received' /\ E = Intact' /\ D = Intact \ E
  OBVIOUS
<1>4. /\ SubSeq(t, Len(received) + 1, Len(t)) = s
      /\ Len(t) = k + m /\ \A i \in 1..m : s[i] = t[k + i]
  <2>1. received \in Seq(Nat) /\ t = received \o s
    BY <1>1, <1>3
  <2>2. /\ SubSeq(t, Len(received) + 1, Len(t)) = s
        /\ \A i \in 1..Len(s) : s[i] = t[Len(received) + i]
        /\ Len(t) = Len(received) + Len(s)
    BY <2>1, EndIs
  <2> QED
    BY <1>2, <2>2
<1>5. /\ \A i \in 1..(k + m) : t[i] \notin E
      /\ \A i, j \in 1..(k + m) : i # j => t[i] # t[j]
      /\ ~harq_active => /\ \A i, j \in 1..(k + m) : i < j => t[i] < t[j]
                         /\ \A i \in 1..(k + m) : \A id \in E : t[i] < id
  BY <1>1, <1>3, <1>4
<1>6. \A i \in 1..m : k + i \in 1..(k + m)
  OBVIOUS
<1>7. s \in Seq(D)
  <2>1. \A i \in 1..m : s[i] \in D
    BY <1>2, <1>3, <1>4, <1>5, <1>6
  <2> QED
    BY <1>2, <2>1
<1>8. \A i, j \in 1..Len(s) : i # j => s[i] # s[j]
  <2>1. ASSUME NEW i \in 1..m, NEW j \in 1..m, i # j
        PROVE  s[i] # s[j]
    <3>1. k + i \in 1..(k + m) /\ k + j \in 1..(k + m)
      BY <1>6
    <3>2. k + i # k + j
      BY <2>1
    <3> QED
      BY <1>4, <1>5, <3>1, <3>2
  <2> QED
    BY <1>2, <2>1
<1>9. ~harq_active => /\ \A i, j \in 1..Len(s) : i < j => s[i] < s[j]
                      /\ \A i \in 1..Len(s) : \A id \in Intact' : s[i] < id
  <2>1. ASSUME ~harq_active, NEW i \in 1..m, NEW j \in 1..m, i < j
        PROVE  s[i] < s[j]
    <3>1. k + i \in 1..(k + m) /\ k + j \in 1..(k + m)
      BY <1>6
    <3>2. k + i < k + j
      BY <2>1
    <3> QED
      BY <1>4, <1>5, <2>1, <3>1, <3>2
  <2>2. ASSUME ~harq_active, NEW i \in 1..m, NEW id \in E
        PROVE  s[i] < id
    BY <1>4, <1>5, <1>6, <2>2
  <2> QED
    BY <1>2, <1>3, <2>1, <2>2
<1> DEFINE new == SubSeq(received', Len(received) + 1, Len(received'))
<1>10. new = s /\ s \in Seq(Intact \ Intact')
  BY <1>3, <1>4, <1>7
<1>11. UNCHANGED <<~harq_active, Len(sizeOf)>>
  BY Zenon
<1>12. /\ new \in Seq(Intact \ Intact') /\ received' = received \o new
       /\ \A i, j \in 1..Len(new) : i # j => new[i] # new[j]
  <2> HIDE DEF new
  <2> QED
    BY <1>8, <1>10
<1>13. ~harq_active => /\ \A i, j \in 1..Len(new) : i < j => new[i] < new[j]
                       /\ \A i \in 1..Len(new) : \A id \in Intact' : new[i] < id
  <2> HIDE DEF new
  <2> QED
    BY <1>9, <1>10
<1> QED
  BY <1>11, <1>12, <1>13, Zenon DEF Service!Settle

\* Nor is anything settled wrongly where nothing is delivered.
LEMMA NothingDelivered ==
    ASSUME IInv, IInv', harq_active' = harq_active, sizeOf' = sizeOf, received' = received,
           m_incomingPacket' = m_incomingPacket,
           \A id, x : Waits(m_queue', id, x) => Waits(m_queue, id, x),
           \A p \in PdusOf(air') : p \in PdusOf(air) \/
                \A x \in BytesIn(p) : Waits(m_queue, p.id, x)
    PROVE  Service!Settle
<1>1. Intact' \subseteq Intact
  <2>1. ASSUME NEW id, NEW x, Remains(m_queue', PdusOf(air'), m_incomingPacket', id, x)
        PROVE  Remains(m_queue, PdusOf(air), m_incomingPacket, id, x)
    BY <2>1 DEF Remains, Flies
  <2>2. \A id \in Intact' : id \in Intact
    BY <2>1, IntactIs DEF StillWhole
  <2> QED
    BY <2>2
<1>2. received \in Seq(Nat)
  <2>1. received \in Seq(1..Len(sizeOf))
    BY DEF IInv, ReceiverRight, ReceivedRight
  <2> QED
    BY <2>1
<1>3. PICK s \in Seq(Nat) : s = <<>>
  <2>1. <<>> \in Seq(Nat)
    OBVIOUS
  <2> QED
    BY <2>1
<1>4. received' = received \o s /\ \A i \in 1..Len(s) : s[i] \in Intact
  <2>1. received \o <<>> = received
    BY <1>2
  <2> QED
    BY <1>3, <2>1
<1> QED
  BY <1>1, <1>3, <1>4, SettleIs

\* An application hands a packet over.
LEMMA SendIsAccept ==
    ASSUME IInv, NEW size \in Sizes, ApplicationSends(size)
    PROVE  Service!Accept
<1>1. /\ sizeOf \in PacketSizes /\ QueueRight(m_queue, sizeOf)
  BY DEF IInv
<1>2. PICK n \in Nat : n = Len(sizeOf)
  <2>1. Len(sizeOf) \in Nat
    BY <1>1 DEF PacketSizes
  <2> QED
    BY <2>1
<1>3. /\ sizeOf' = Append(sizeOf, size) /\ size \in Nat \ {0}
      /\ m_queue' = Enqueue(m_queue, Packet(n + 1, size))
      /\ harq_active' = harq_active /\ air' = air
      /\ m_incomingPacket' = m_incomingPacket /\ received' = received
  BY <1>2, UmRlcAssumption DEF ApplicationSends
<1>4. /\ Len(sizeOf') = n + 1 /\ sizeOf'[n + 1] = size
      /\ \A id \in 1..n : sizeOf'[id] = sizeOf[id]
  BY <1>1, <1>2, <1>3 DEF PacketSizes
<1>5. PICK es \in Seq(Elements), m \in Nat : es = m_queue.elements /\ m = Len(es)
  <2>1. m_queue.elements \in Seq(Elements) /\ Len(m_queue.elements) \in Nat
    BY <1>1, QueueHas DEF QueueRight
  <2> QED
    BY <2>1
<1>6. PICK e : e = Packet(n + 1, size)
  OBVIOUS
<1>7. e.id = n + 1 /\ e.offset = 0 /\ e.size = size /\ e \in Elements
  BY <1>3, <1>6 DEF Packet, Elements
<1>8. PICK es2 \in Seq(Elements) : es2 = m_queue'.elements /\ es2 = Append(es, e)
  <2>1. m_queue'.elements = Append(es, e)
    BY <1>3, <1>5, <1>6 DEF Enqueue
  <2>2. Append(es, e) \in Seq(Elements)
    BY <1>7
  <2> QED
    BY <2>1, <2>2
<1>9. /\ Len(es2) = m + 1 /\ es2[m + 1] = e /\ \A i \in 1..m : es2[i] = es[i]
  BY <1>5, <1>8
<1>10. ASSUME NEW id \in 1..n, NEW x
       PROVE  Waits(m_queue', id, x) <=> Waits(m_queue, id, x)
  <2>1. \A i \in 1..m : i \in 1..(m + 1)
    OBVIOUS
  <2>2. \A i \in 1..(m + 1) : es2[i].id = id => i \in 1..m
    BY <1>7, <1>9
  <2> QED
    BY <1>5, <1>8, <1>9, <2>1, <2>2 DEF Waits
<1>11. ASSUME NEW x \in 0..(size - 1)
       PROVE  Waits(m_queue', n + 1, x)
  <2>1. m + 1 \in 1..Len(es2)
    BY <1>9
  <2> QED
    BY <1>7, <1>8, <1>9, <2>1 DEF Waits
<1>12. Intact' = Intact \cup {n + 1}
  <2>1. ASSUME NEW id \in 1..n, NEW x
        PROVE  Remains(m_queue', PdusOf(air'), m_incomingPacket', id, x)
                  <=> Remains(m_queue, PdusOf(air), m_incomingPacket, id, x)
    BY <1>3, <1>10 DEF Remains
  <2>2. ASSUME NEW id \in 1..n
        PROVE  id \in Intact' <=> id \in Intact
    <3>1. id \in 1..Len(sizeOf) /\ id \in 1..Len(sizeOf') /\ sizeOf'[id] = sizeOf[id]
      BY <1>2, <1>4
    <3> QED
      BY <2>1, <3>1, IntactIs DEF StillWhole
  <2>3. n + 1 \in Intact'
    <3>1. n + 1 \in 1..Len(sizeOf') /\ sizeOf'[n + 1] = size
      BY <1>4
    <3>2. \A x \in 0..(size - 1) :
            Remains(m_queue', PdusOf(air'), m_incomingPacket', n + 1, x)
      BY <1>11 DEF Remains
    <3> QED
      BY <3>1, <3>2, IntactIs DEF StillWhole
  <2>4. Intact \subseteq 1..n /\ Intact' \subseteq 1..(n + 1)
    <3>1. Intact \subseteq 1..Len(sizeOf) /\ Intact' \subseteq 1..Len(sizeOf')
      BY IntactIs DEF StillWhole
    <3> QED
      BY <1>2, <1>4, <3>1
  <2>5. \A id \in 1..(n + 1) : id \in 1..n \/ id = n + 1
    OBVIOUS
  <2>6. \A id : id \in Intact' <=> id \in Intact \cup {n + 1}
    BY <2>2, <2>3, <2>4, <2>5
  <2> QED
    BY <2>6
<1>13. Len(sizeOf') = Len(sizeOf) + 1 /\ Intact' = Intact \cup {Len(sizeOf')}
  BY <1>2, <1>4, <1>12
<1> HIDE DEF Intact
<1> QED
  BY <1>3, <1>13 DEF Service!Accept

\* The bearer is served: what goes on the air has waited.
LEMMA TransmissionIsSettle ==
    ASSUME IInv, IInv', NEW grant \in Grants, TransmissionProcedure(grant)
    PROVE  Service!Settle
<1>1. /\ sizeOf \in PacketSizes /\ QueueRight(m_queue, sizeOf)
      /\ AirRight(air, m_queue, sizeOf)
  BY DEF IInv
<1>2. grant \in Nat
  BY UmRlcAssumption
<1>3. PICK s : s = FillBurst(m_queue, grant)
  OBVIOUS
<1>4. /\ m_queue' = s.queue
      /\ air' = IF s.burst = <<>> THEN air
                ELSE Append(air, [pdus |-> s.burst, grant |-> grant])
      /\ harq_active' = harq_active /\ m_incomingPacket' = m_incomingPacket
      /\ received' = received /\ sizeOf' = sizeOf
  BY <1>3 DEF TransmissionProcedure
<1>5. Filling(s, m_queue, grant, sizeOf)
  BY <1>1, <1>2, <1>3, FillBurstFills
<1>6. \A id, x : Waits(m_queue', id, x) => Waits(m_queue, id, x)
  <2>1. PICK q2 : q2 = s.queue
    OBVIOUS
  <2>2. /\ QueueRight(q2, sizeOf) /\ FirstId(m_queue, sizeOf) <= FirstId(q2, sizeOf)
        /\ \A r \in Pdus : GoneOn(r, m_queue, sizeOf) => GoneOn(r, q2, sizeOf)
    BY <1>5, <2>1 DEF Filling
  <2>3. \A id, x : Waits(q2, id, x) => Waits(m_queue, id, x)
    BY <1>1, <2>2, NoByteComesBack
  <2> QED
    BY <1>4, <2>1, <2>3
<1>7. ASSUME NEW j \in 1..Len(s.burst)
      PROVE  \A x \in BytesIn(s.burst[j]) : Waits(m_queue, s.burst[j].id, x)
  <2>1. PICK p : p = s.burst[j]
    OBVIOUS
  <2>2. /\ PduRight(p, sizeOf) /\ FirstId(m_queue, sizeOf) <= p.id
        /\ \A r \in Pdus : GoneOn(r, m_queue, sizeOf) => Precedes(r, p)
    BY <1>5, <2>1 DEF Filling
  <2>3. \A x \in BytesIn(p) : Waits(m_queue, p.id, x)
    BY <1>1, <2>2, SentBytesWaited
  <2> QED
    BY <2>1, <2>3
<1>8. \A p \in PdusOf(air') : p \in PdusOf(air) \/ \E j \in 1..Len(s.burst) : p = s.burst[j]
  <2>1. CASE s.burst = <<>>
    <3>1. air' = air
      BY <1>4, <2>1
    <3> QED
      BY <3>1
  <2>2. CASE s.burst # <<>>
    <3>1. PICK c : c = air' /\ Sends(air, s.burst, grant, c)
      BY <1>2, <1>4, <2>2 DEF Sends
    <3>2. \A p \in PdusOf(c) : p \in PdusOf(air) \/ \E j \in 1..Len(s.burst) : p = s.burst[j]
      BY <1>1, <1>5, <3>1, AirGrows
    <3> QED
      BY <3>1, <3>2
  <2> QED
    BY <2>1, <2>2
<1>9. \A p \in PdusOf(air') : p \in PdusOf(air) \/ \A x \in BytesIn(p) : Waits(m_queue, p.id, x)
  BY <1>7, <1>8
<1> QED
  BY <1>4, <1>6, <1>9, NothingDelivered

\* Packets expire: no byte comes back.
LEMMA DropIsSettle ==
    ASSUME IInv, IInv', NEW n \in 1..MaxPackets, DropExpired(n)
    PROVE  Service!Settle
<1>1. sizeOf \in PacketSizes /\ QueueRight(m_queue, sizeOf)
  BY DEF IInv
<1>2. /\ n \in Nat /\ n <= Len(m_queue.elements) /\ air' = air
      /\ m_queue' = CheckForDropPackets(m_queue, n)
      /\ harq_active' = harq_active /\ m_incomingPacket' = m_incomingPacket
      /\ received' = received /\ sizeOf' = sizeOf
  BY DEF DropExpired
<1>3. PICK q2 : q2 = CheckForDropPackets(m_queue, n)
  OBVIOUS
<1>4. /\ QueueRight(q2, sizeOf) /\ FirstId(m_queue, sizeOf) <= FirstId(q2, sizeOf)
      /\ \A r \in Pdus : GoneOn(r, m_queue, sizeOf) => GoneOn(r, q2, sizeOf)
  BY <1>1, <1>2, <1>3, DropsGoOn
<1>5. \A id, x : Waits(q2, id, x) => Waits(m_queue, id, x)
  BY <1>1, <1>4, NoByteComesBack
<1>6. \A id, x : Waits(m_queue', id, x) => Waits(m_queue, id, x)
  BY <1>2, <1>3, <1>5
<1>7. \A p \in PdusOf(air') : p \in PdusOf(air)
  BY <1>2
<1> QED
  BY <1>2, <1>6, <1>7, NothingDelivered

\* A burst is lost.
LEMMA LossIsSettle ==
    ASSUME IInv, IInv', NEW i \in 1..Len(air), Lose(i)
    PROVE  Service!Settle
<1>1. AirRight(air, m_queue, sizeOf)
  BY DEF IInv
<1>2. /\ air' = RemoveAt(air, i) /\ m_queue' = m_queue
      /\ harq_active' = harq_active /\ m_incomingPacket' = m_incomingPacket
      /\ received' = received /\ sizeOf' = sizeOf
  BY DEF Lose
<1>3. \A p \in PdusOf(air') : p \in PdusOf(air)
  <2>1. PICK c : c = RemoveAt(air, i)
    OBVIOUS
  <2>2. \A p \in PdusOf(c) : p \in PdusOf(air)
    BY <1>1, <2>1, AirShrinks
  <2> QED
    BY <1>2, <2>1, <2>2
<1>4. \A id, x : Waits(m_queue', id, x) => Waits(m_queue, id, x)
  BY <1>2
<1> QED
  BY <1>2, <1>3, <1>4, NothingDelivered

\* A burst is received: what is passed on was whole, and what is kept was there.
LEMMA ReceptionIsSettle ==
    ASSUME IInv, IInv', NEW i \in 1..Len(air), ReceptionProcedure(i)
    PROVE  Service!Settle
<1>1. /\ sizeOf \in PacketSizes /\ QueueRight(m_queue, sizeOf)
      /\ AirRight(air, m_queue, sizeOf)
      /\ ReceiverRight(m_incomingPacket, received, arrived, PdusOf(air), m_queue, sizeOf)
  BY DEF IInv
<1>2. PICK b, inc, rec : b = air[i].pdus /\ inc = m_incomingPacket /\ rec = received
  OBVIOUS
<1>3. PICK new, fresh : Receives(inc, rec, b, new) /\ Receives(inc, <<>>, b, fresh)
  BY DEF Receives
<1>4. /\ m_incomingPacket' = new.incoming /\ received' = new.received
      /\ air' = RemoveAt(air, i) /\ m_queue' = m_queue
      /\ harq_active' = harq_active /\ sizeOf' = sizeOf
  BY <1>2, <1>3 DEF ReceptionProcedure, Receives
<1>5. PICK P, R, c : P = PdusOf(air) /\ R = PdusOf(c) /\ c = RemoveAt(air, i) /\ c = air'
  BY <1>4
<1>6. Leaves(b, P, R)
  <2>1. /\ b \in Seq(Pdus) /\ \A j \in 1..Len(b) : b[j] \in P
        /\ \A j, k \in 1..Len(b) : j < k => Precedes(b[j], b[k])
        /\ \A p \in R : p \in P /\ \A j \in 1..Len(b) : p # b[j]
    <3>1. PICK a : a = air /\ AirRight(a, m_queue, sizeOf) /\ i \in 1..Len(a)
      BY <1>1
    <3>2. /\ a[i].pdus \in Seq(Pdus) /\ \A j \in 1..Len(a[i].pdus) : a[i].pdus[j] \in PdusOf(a)
          /\ \A j, k \in 1..Len(a[i].pdus) : j < k => Precedes(a[i].pdus[j], a[i].pdus[k])
          /\ \A p \in PdusOf(RemoveAt(a, i)) :
                p \in PdusOf(a) /\ \A j \in 1..Len(a[i].pdus) : p # a[i].pdus[j]
      BY <3>1, AirShrinks
    <3> QED
      BY <1>2, <1>5, <3>1, <3>2
  <2> QED
    BY <2>1 DEF Leaves
<1>7. OnTheAir(P, m_queue, sizeOf)
  BY <1>1, <1>5, PdusAreOnTheAir
<1>8. ReceiverRight(inc, rec, arrived, P, m_queue, sizeOf)
  BY <1>1, <1>2, <1>5
<1>9. inc \in Seq(Pdus) /\ rec \in Seq(Nat) /\ b \in Seq(Pdus)
  <2>1. rec \in Seq(1..Len(sizeOf)) /\ inc \in Seq(Pdus)
    BY <1>8 DEF ReceiverRight, ReceivedRight, FragmentsRight
  <2> QED
    BY <1>6, <2>1 DEF Leaves
<1>10. /\ new.incoming = fresh.incoming /\ new.received = rec \o fresh.received
       /\ fresh.received \in Seq(Nat)
  BY <1>3, <1>9, ReceiveAllAdds
<1>11. /\ \A k \in 1..Len(fresh.received) :
            /\ fresh.received[k] \in 1..Len(sizeOf)
            /\ BytesOf(inc, fresh.received[k]) \cup BytesOf(b, fresh.received[k])
                    = 0..(sizeOf[fresh.received[k]] - 1)
       /\ \A id : BytesOf(fresh.incoming, id) \subseteq BytesOf(inc, id) \cup BytesOf(b, id)
  BY <1>1, <1>3, <1>6, <1>7, <1>8, BurstPassesOnWhole
<1>12. ASSUME NEW id, NEW x \in BytesOf(b, id)
       PROVE  Flies(P, id, x)
  <2>1. PICK j \in 1..Len(b) : b[j].id = id /\ x \in BytesIn(b[j])
    BY BytesOfIs
  <2>2. b[j] \in P
    BY <1>6 DEF Leaves
  <2> QED
    BY <2>1, <2>2 DEF Flies
<1>13. Intact = StillWhole(m_queue, P, inc, sizeOf)
  BY <1>2, <1>5, IntactIs
<1>14. \A k \in 1..Len(fresh.received) : fresh.received[k] \in Intact
  <2>1. ASSUME NEW k \in 1..Len(fresh.received)
        PROVE  fresh.received[k] \in Intact
    <3>1. PICK id : id = fresh.received[k]
      OBVIOUS
    <3>2. id \in 1..Len(sizeOf) /\ BytesOf(inc, id) \cup BytesOf(b, id) = 0..(sizeOf[id] - 1)
      BY <1>11, <3>1
    <3>3. \A x \in 0..(sizeOf[id] - 1) : Remains(m_queue, P, inc, id, x)
      BY <1>12, <3>2 DEF Remains
    <3> QED
      BY <1>13, <3>1, <3>2, <3>3 DEF StillWhole
  <2> QED
    BY <2>1
<1>15. Intact' \subseteq Intact
  <2>1. Intact' = StillWhole(m_queue, R, fresh.incoming, sizeOf)
    <3>1. Intact' = StillWhole(m_queue', PdusOf(air'), m_incomingPacket', sizeOf')
      BY IntactIs
    <3> QED
      BY <1>4, <1>5, <1>10, <3>1
  <2>2. ASSUME NEW id, NEW x, Remains(m_queue, R, fresh.incoming, id, x)
        PROVE  Remains(m_queue, P, inc, id, x)
    <3>1. Flies(R, id, x) => Flies(P, id, x)
      BY <1>6 DEF Leaves, Flies
    <3> QED
      BY <1>11, <1>12, <2>2, <3>1 DEF Remains
  <2> QED
    BY <1>13, <2>1, <2>2 DEF StillWhole
<1>16. PICK s \in Seq(Nat) : s = fresh.received
  BY <1>10
<1>17. /\ received' = received \o s /\ \A k \in 1..Len(s) : s[k] \in Intact
  BY <1>2, <1>4, <1>10, <1>14, <1>16
<1> QED
  BY <1>4, <1>15, <1>17, SettleIs

\* The bearer starts as a service.
LEMMA InitImplements == Init => Service!Init
<1> SUFFICES ASSUME Init
             PROVE  Service!Init
  OBVIOUS
<1>1. harq_active \in BOOLEAN /\ sizeOf = <<>> /\ received = <<>>
  BY DEF Init
<1>2. Len(sizeOf) = 0 /\ Intact = {}
  BY <1>1 DEF Intact, Ids
<1> HIDE DEF Intact
<1>3. (~harq_active) \in BOOLEAN
  BY <1>1
<1> QED
  BY <1>1, <1>2, <1>3, Zenon DEF Service!Init

\* Every step of the bearer is a step of the service.
LEMMA NextImplements == IInv /\ [Next]_vars => [Service!Next]_(Service!vars)
<1> SUFFICES ASSUME IInv, [Next]_vars
             PROVE  [Service!Next]_(Service!vars)
  OBVIOUS
<1>1. IInv'
  BY Steps
<1>2. CASE UNCHANGED vars
  <2>1. /\ harq_active' = harq_active /\ sizeOf' = sizeOf /\ received' = received
        /\ m_queue' = m_queue /\ air' = air /\ m_incomingPacket' = m_incomingPacket
    BY <1>2 DEF vars
  <2>2. Intact' = Intact
    BY <2>1, IntactIs
  <2>3. UNCHANGED <<~harq_active, Len(sizeOf), received>>
    BY <2>1, Zenon
  <2> HIDE DEF Intact
  <2> QED
    BY <2>2, <2>3, Zenon DEF Service!vars
<1>3. CASE Next
  <2>1. Service!Accept \/ Service!Settle
    BY <1>1, <1>3, SendIsAccept, TransmissionIsSettle, DropIsSettle, LossIsSettle,
       ReceptionIsSettle DEF Next
  <2> QED
    BY <2>1 DEF Service!Next
<1> QED
  BY <1>2, <1>3

\* The bearer in unacknowledged mode implements the service: through cuts, drops, losses and
\* bursts that overtake each other the sink gets whole packets, each once, and without HARQ
\* none before an older one has had its outcome (um-rlc-entity.cpp).
THEOREM BearerIsAService == Spec => ImplementsService
<1>1. Init => Service!Init
  BY InitImplements
<1>2. IInv /\ [Next]_vars => [Service!Next]_(Service!vars)
  BY NextImplements
<1> QED
  BY <1>1, <1>2, Invariant, PTL DEF Spec, ImplementsService, Service!Spec
=============================================================================
