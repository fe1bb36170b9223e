----------------------------- MODULE Harq_proofs -----------------------------
(***************************************************************************)
(* Proofs about HARQ, for any number of UEs, RBs, pids and transmissions.  *)
(* Each UE has one bearer: two that are served in one TTI share a pid, and *)
(* what NewTransmission does with the second takes both ends out of step.  *)
(***************************************************************************)
EXTENDS Harq, WellFoundedInduction, TLAPS

OneBearerPerUE == \A b, c \in Bearers : UEOf[b] = UEOf[c] => b = c

Process == [bearer : Bearers, numTx : 1..m_maxRetransmissions, age : 0..TooOld,
            rbs : 0..NbRBs, firstRbs : 1..NbRBs, decoded : BOOLEAN]

-----------------------------------------------------------------------------
(***************************************************************************)
(* What the operators return.                                              *)
(***************************************************************************)

\* Min of a non-empty set of naturals is one of its elements.
LEMMA MinInSet ==
    ASSUME NEW S, S \subseteq Nat, S # {}
    PROVE  Min(S) \in S
<1> DEFINE R == OpToRel(<, Nat)
<1>1. IsWellFoundedOn(R, Nat)
  BY NatLessThanWellFounded
<1>2. \A x, y \in Nat : y < x => <<y, x>> \in R
  BY DEF OpToRel
<1> HIDE DEF R
<1>3. PICK x \in S : \A y \in S : ~(<<y, x>> \in R)
  BY <1>1, WFMin
<1>4. ASSUME NEW y \in S
      PROVE  x <= y
  <2>1. x \in Nat /\ y \in Nat
    BY <1>3
  <2>2. ~(y < x)
    BY <1>2, <1>3, <2>1
  <2> QED
    BY <2>1, <2>2
<1> QED
  BY <1>4 DEF Min

\* The pid for a new transmission has no process.
LEMMA PidForNewTx ==
    ASSUME NEW tx
    PROVE  \/ GetPidForNewTx(tx) = HARQ_NO_PID_AVAILABLE
           \/ GetPidForNewTx(tx) \in Pids \ DOMAIN tx
<1> DEFINE free == Pids \ DOMAIN tx
<1>1. free \subseteq Nat
  BY HarqAssumption DEF Pids
<1>2. free # {} => Min(free) \in free
  BY <1>1, MinInSet
<1> QED
  BY <1>2 DEF GetPidForNewTx

\* If all processes of a UE are of one bearer, one of them is due at most.
LEMMA OneRetransmission ==
    ASSUME NEW tx, DOMAIN tx \subseteq Pids, NEW early, early \subseteq DOMAIN tx,
           \A p, q \in DOMAIN tx : tx[p].bearer = tx[q].bearer,
           NEW p \in FlowsForRetransmission(tx, early),
           NEW q \in FlowsForRetransmission(tx, early)
    PROVE  p \in DOMAIN tx /\ p = q
<1>1. p \in DOMAIN tx /\ q \in DOMAIN tx /\ ~(p < q) /\ ~(q < p)
  BY DEF FlowsForRetransmission
<1>2. p \in Nat /\ q \in Nat
  BY <1>1, HarqAssumption DEF Pids
<1> QED
  BY <1>1, <1>2

-----------------------------------------------------------------------------
(***************************************************************************)
(* What DoSchedule does to a UE.                                           *)
(***************************************************************************)

\* A process that is not sent keeps all but, maybe, its list of RBs.
NotSent(f, tx, p) == f[p] = tx[p] \/ f[p] = [tx[p] EXCEPT !.rbs = 0]

NothingSent(u, tx) ==
    /\ DOMAIN m_txProcesses'[u] = DOMAIN tx
    /\ \A p \in DOMAIN tx : NotSent(m_txProcesses'[u], tx, p)
    /\ allocation'[u] = NoAllocation

SentAgain(u, tx, r) ==
    /\ r \in DOMAIN tx
    /\ DOMAIN m_txProcesses'[u] = DOMAIN tx
    /\ m_txProcesses'[u][r] = Retransmission(tx[r])
    /\ \A p \in DOMAIN tx \ {r} : NotSent(m_txProcesses'[u], tx, p)
    /\ allocation'[u] = [pid |-> r, flows |-> {<<tx[r].bearer, r>>}]

SentFirst(u, tx, pid, b, rbs) ==
    /\ pid \in Pids \ DOMAIN m_txProcesses[u]
    /\ b \in Bearers /\ UEOf[b] = u /\ rbs \in 1..NbRBs
    /\ DOMAIN m_txProcesses'[u] = DOMAIN tx \cup {pid}
    /\ m_txProcesses'[u][pid] = [bearer |-> b, numTx |-> 1, age |-> 0, rbs |-> rbs,
                                 firstRbs |-> rbs, decoded |-> FALSE]
    /\ \A p \in DOMAIN tx : NotSent(m_txProcesses'[u], tx, p)
    /\ allocation'[u] = [pid |-> pid, flows |-> {<<b, pid>>}]

\* The processes f that Finalize leaves of the processes tx.
Finalized(f, tx, pid, alloc, new, resent) ==
    /\ new = {} =>
        /\ DOMAIN f = DOMAIN tx
        /\ \A p \in resent : f[p] = Retransmission(tx[p])
        /\ \A p \in DOMAIN tx \ resent : NotSent(f, tx, p)
    /\ new # {} =>
        /\ DOMAIN f = DOMAIN tx \cup {pid}
        /\ f[pid] = [bearer |-> Min(new), numTx |-> 1, age |-> 0,
                     rbs |-> alloc[Min(new)], firstRbs |-> alloc[Min(new)],
                     decoded |-> FALSE]
        /\ \A p \in DOMAIN tx \ (resent \cup {pid}) : NotSent(f, tx, p)

\* Finalize leaves the processes like this.
LEMMA FinalizedUE ==
    ASSUME NEW tx, NEW pid, NEW alloc, NEW new, NEW asked, NEW resent,
           resent \subseteq asked, asked \subseteq DOMAIN tx
    PROVE  Finalized(Finalize(tx, pid, alloc, new, asked, resent), tx, pid, alloc, new, resent)
<1> DEFINE f == Finalize(tx, pid, alloc, new, asked, resent)
<1> SUFFICES Finalized(f, tx, pid, alloc, new, resent)
  OBVIOUS
<1> DEFINE sent == [p \in DOMAIN tx |->
                        IF p \in resent THEN Retransmission(tx[p])
                        ELSE IF p \in asked THEN [tx[p] EXCEPT !.rbs = 0]
                        ELSE tx[p]]
<1>1. /\ DOMAIN sent = DOMAIN tx
      /\ \A p \in resent : sent[p] = Retransmission(tx[p])
      /\ \A p \in DOMAIN tx \ resent : NotSent(sent, tx, p)
  BY DEF NotSent
<1>2. ASSUME NEW p, f[p] = sent[p], NotSent(sent, tx, p)
      PROVE  NotSent(f, tx, p)
  BY <1>2 DEF NotSent
<1>3. CASE new = {}
  <2>1. f = sent
    BY <1>3 DEF Finalize
  <2> HIDE DEF sent, f
  <2>2. \A p \in DOMAIN tx \ resent : NotSent(f, tx, p)
    BY <1>1, <1>2, <2>1
  <2> QED
    BY <1>1, <1>3, <2>1, <2>2 DEF Finalized
<1>4. CASE new # {}
  <2>1. f = NewTransmission(sent, pid, Min(new), alloc[Min(new)])
    BY <1>4 DEF Finalize
  <2> HIDE DEF sent, f
  <2>2. /\ DOMAIN f = DOMAIN tx \cup {pid}
        /\ f[pid] = [bearer |-> Min(new), numTx |-> 1, age |-> 0,
                     rbs |-> alloc[Min(new)], firstRbs |-> alloc[Min(new)],
                     decoded |-> FALSE]
        /\ \A p \in DOMAIN tx \ {pid} : f[p] = sent[p]
    BY <1>1, <2>1 DEF NewTransmission
  <2>3. \A p \in DOMAIN tx \ (resent \cup {pid}) : NotSent(f, tx, p)
    BY <1>1, <1>2, <2>2
  <2> QED
    BY <1>4, <2>2, <2>3 DEF Finalized
<1> QED
  BY <1>3, <1>4

\* The three ways DoSchedule may treat a UE: no burst, one block sent again,
\* or one sent for the first time.
LEMMA ScheduledUE ==
    ASSUME OneBearerPerUE, IInv,
           NEW active \in SUBSET Bearers, NEW early \in [UEs -> SUBSET Pids],
           \A u \in UEs : early[u] \subseteq MaybeDue(DropExhausted(m_txProcesses[u])),
           RBsAllocation(active, early),
           NEW u \in UEs
    PROVE  LET tx == DropExhausted(m_txProcesses[u]) IN
           \/ NothingSent(u, tx)
           \/ \E r \in Pids : SentAgain(u, tx, r)
           \/ \E pid \in Pids, b \in Bearers, rbs \in 1..NbRBs : SentFirst(u, tx, pid, b, rbs)
<1> DEFINE tx == [v \in UEs |-> DropExhausted(m_txProcesses[v])]
           pids == [v \in UEs |-> GetPidForNewTx(m_txProcesses[v])]
           flows == AllForRetransmission(tx, early)
           of(v, S) == {p \in Pids : <<v, p>> \in S}
<1>1. PICK granted \in SUBSET flows :
        LET eligible == Eligible(active, pids, granted) IN
        \E alloc \in NewAllocations(eligible, NbRBs - NbRequiredRBs(tx, granted)) :
            LET new == [v \in UEs |-> {b \in eligible : UEOf[b] = v /\ alloc[b] > 0}]
            IN  /\ m_txProcesses' = [v \in UEs |->
                      Finalize(tx[v], pids[v], alloc, new[v], of(v, flows), of(v, granted))]
                /\ allocation' = [v \in UEs |->
                      MapOf(tx[v], pids[v], new[v], of(v, granted))]
  BY DEF RBsAllocation
<1> DEFINE eligible == Eligible(active, pids, granted)
<1>2. PICK alloc \in NewAllocations(eligible, NbRBs - NbRequiredRBs(tx, granted)) :
        /\ m_txProcesses' = [v \in UEs |->
              Finalize(tx[v], pids[v], alloc, {b \in eligible : UEOf[b] = v /\ alloc[b] > 0},
                       of(v, flows), of(v, granted))]
        /\ allocation' = [v \in UEs |->
              MapOf(tx[v], pids[v], {b \in eligible : UEOf[b] = v /\ alloc[b] > 0},
                    of(v, granted))]
  BY <1>1
<1> DEFINE t == tx[u]
           new == {b \in eligible : UEOf[b] = u /\ alloc[b] > 0}
           asked == of(u, flows)
           resent == of(u, granted)
           pid == pids[u]
<1>3. /\ m_txProcesses'[u] = Finalize(t, pid, alloc, new, asked, resent)
      /\ allocation'[u] = MapOf(t, pid, new, resent)
  BY <1>2
<1>4. /\ t = DropExhausted(m_txProcesses[u])
      /\ DOMAIN t \subseteq DOMAIN m_txProcesses[u]
      /\ DOMAIN t \subseteq Pids
      /\ \A p \in DOMAIN t : t[p] = m_txProcesses[u][p]
  BY DEF DropExhausted, Restrict, IInv, TypeOK
<1>5. /\ asked \subseteq DOMAIN t
      /\ \A p, q \in asked : p = q
  <2>1. asked \subseteq FlowsForRetransmission(t, early[u])
    BY DEF AllForRetransmission
  <2>2. early[u] \subseteq DOMAIN t
    BY <1>4 DEF MaybeDue
  <2>3. \A p, q \in DOMAIN t : t[p].bearer = t[q].bearer
    <3>1. \A p \in DOMAIN t : t[p].bearer \in Bearers /\ UEOf[t[p].bearer] = u
      BY <1>4 DEF IInv, TypeOK
    <3> QED
      BY <3>1 DEF OneBearerPerUE
  <2> HIDE DEF t, asked
  <2> QED
    BY <1>4, <2>1, <2>2, <2>3, OneRetransmission
<1>6. resent \subseteq asked
  BY <1>1
<1>7. /\ new \subseteq Bearers
      /\ \A b \in new : UEOf[b] = u /\ alloc[b] \in 1..NbRBs
      /\ \A b, c \in new : b = c
      /\ new # {} => resent = {} /\ pid \in Pids \ DOMAIN m_txProcesses[u]
  <2>1. eligible \subseteq Bearers /\ alloc \in [eligible -> 0..NbRBs]
    BY <1>2 DEF Eligible, NewAllocations
  <2>2. \A b \in new : /\ b \in Bearers /\ UEOf[b] = u /\ alloc[b] \in 1..NbRBs
                       /\ pids[u] # HARQ_NO_PID_AVAILABLE
                       /\ u \notin {f[1] : f \in granted}
    BY <2>1, HarqAssumption DEF Eligible
  <2>3. pids[u] # HARQ_NO_PID_AVAILABLE => pids[u] \in Pids \ DOMAIN m_txProcesses[u]
    BY PidForNewTx
  <2>4. resent # {} => u \in {f[1] : f \in granted}
    <3> SUFFICES ASSUME NEW p \in resent
                 PROVE  u \in {f[1] : f \in granted}
      OBVIOUS
    <3>1. <<u, p>> \in granted /\ <<u, p>>[1] = u
      OBVIOUS
    <3> QED
      BY <3>1
  <2> QED
    BY <2>2, <2>3, <2>4 DEF OneBearerPerUE
<1> HIDE DEF t, new, asked, resent, pid, tx, pids, flows, eligible
<1> DEFINE f == m_txProcesses'[u]
<1>8. Finalized(f, t, pid, alloc, new, resent)
  BY <1>3, <1>4, <1>5, <1>6, FinalizedUE
<1>9. CASE new = {} /\ resent = {}
  <2>1. allocation'[u] = NoAllocation
    BY <1>3, <1>9 DEF MapOf
  <2>2. NothingSent(u, t)
    BY <1>8, <1>9, <2>1 DEF NothingSent, Finalized
  <2> QED
    BY <1>4, <2>2
<1>10. CASE new = {} /\ resent # {}
  <2>1. PICK r \in resent : resent = {r}
    BY <1>5, <1>6, <1>10
  <2>2. r \in DOMAIN t /\ r \in Pids
    BY <1>4, <1>5, <1>6, <2>1
  <2>3. Max(resent) = r
    BY <2>1, <2>2, HarqAssumption DEF Max, Pids
  <2>4. allocation'[u] = [pid |-> r, flows |-> {<<t[r].bearer, r>>}]
    BY <1>3, <1>10, <2>1, <2>3 DEF MapOf
  <2>5. SentAgain(u, t, r)
    BY <1>8, <1>10, <2>1, <2>2, <2>4 DEF SentAgain, Finalized
  <2> QED
    BY <1>4, <2>2, <2>5
<1>11. CASE new # {}
  <2>1. PICK b \in new : new = {b}
    BY <1>7, <1>11
  <2>2. Min(new) = b
    BY <1>7, <2>1, HarqAssumption DEF Min, Bearers
  <2>3. allocation'[u] = [pid |-> pid, flows |-> {<<b, pid>>}]
    BY <1>3, <1>7, <1>11, <2>1 DEF MapOf
  <2>4. pid \notin DOMAIN t /\ pid \in Pids /\ b \in Bearers /\ alloc[b] \in 1..NbRBs
    BY <1>4, <1>7, <1>11, <2>1
  <2>5. SentFirst(u, t, pid, b, alloc[b])
    <3>1. DOMAIN t \ (resent \cup {pid}) = DOMAIN t
      BY <1>7, <1>11, <2>4
    <3> QED
      BY <1>7, <1>8, <1>11, <2>1, <2>2, <2>3, <2>4, <3>1 DEF SentFirst, Finalized
  <2> QED
    BY <1>4, <2>4, <2>5
<1> QED
  BY <1>9, <1>10, <1>11

-----------------------------------------------------------------------------
(***************************************************************************)
(* The inductive invariant, UE by UE.                                      *)
(***************************************************************************)

UEInv(u) ==
    /\ DOMAIN m_txProcesses[u] \subseteq Pids
    /\ \A p \in DOMAIN m_txProcesses[u] : /\ m_txProcesses[u][p] \in Process
                                          /\ UEOf[m_txProcesses[u][p].bearer] = u
    /\ DOMAIN m_rxProcesses[u] \subseteq Pids
    /\ \A p \in DOMAIN m_rxProcesses[u] : m_rxProcesses[u][p] \in 1..(m_maxRetransmissions - 1)
    /\ allocation[u].pid \in Pids \cup {HARQ_NO_PID_AVAILABLE}
    /\ allocation[u] # NoAllocation => phase = "rx" /\ allocation[u].pid \in Pids
    /\ \A p \in Pids : IF allocation[u] # NoAllocation /\ p = allocation[u].pid
                       THEN UnderWay(u, p) ELSE Settled(u, p)

\* IInv says the same of every UE, and says nothing that relates two of them.
LEMMA IInvUEByUE ==
    IInv <=> /\ \A u \in UEs : UEInv(u)
             /\ m_flowsToSchedule \subseteq Bearers
             /\ phase \in {"rx", "tx"}
BY DEF IInv, TypeOK, UEInv, Process

\* A process keeps its shape when it is not sent, is sent again, or grows older.
LEMMA ProcessNotSent ==
    ASSUME NEW x \in Process, NEW y, y = x \/ y = [x EXCEPT !.rbs = 0]
    PROVE  y \in Process /\ y.bearer = x.bearer /\ y.numTx = x.numTx /\ y.decoded = x.decoded
BY HarqAssumption DEF Process

\* (Retransmission counts one more, and restarts its age.)
LEMMA ProcessSentAgain ==
    ASSUME NEW x \in Process, x.numTx < m_maxRetransmissions,
           NEW y, y = Retransmission(x)
    PROVE  /\ y \in Process /\ y.bearer = x.bearer
           /\ y.numTx = x.numTx + 1 /\ y.decoded = x.decoded
<1>1. x.numTx + 1 \in 1..m_maxRetransmissions /\ 0 \in 0..TooOld
  BY HarqAssumption DEF Process, TooOld
<1>2. PICK n \in 1..m_maxRetransmissions : n = x.numTx + 1
  BY <1>1
<1>3. PICK a \in 0..TooOld : a = 0
  BY <1>1
<1>4. y = [x EXCEPT !.numTx = n, !.age = a]
  BY <1>2, <1>3, Zenon DEF Retransmission
<1>5. y \in Process /\ y.bearer = x.bearer /\ y.numTx = n /\ y.decoded = x.decoded
  BY <1>4, Zenon DEF Process
<1> QED
  BY <1>2, <1>5

Older(x, d) == [x EXCEPT !.age = IF @ < TooOld THEN @ + 1 ELSE TooOld,
                         !.decoded = @ \/ d]

\* (A TTI passes: only the age, and whether the block is known, change.)
LEMMA ProcessLater ==
    ASSUME NEW x \in Process, NEW d \in BOOLEAN, NEW y, y = Older(x, d)
    PROVE  /\ y \in Process /\ y.bearer = x.bearer
           /\ y.numTx = x.numTx /\ y.decoded = (x.decoded \/ d)
<1> DEFINE age == IF x.age < TooOld THEN x.age + 1 ELSE TooOld
<1>1. age \in 0..TooOld /\ (x.decoded \/ d) \in BOOLEAN
  BY HarqAssumption DEF Process, TooOld
<1>2. ASSUME NEW a \in 0..TooOld, NEW e \in BOOLEAN,
             NEW z, z = [x EXCEPT !.age = a, !.decoded = e]
      PROVE  z \in Process /\ z.bearer = x.bearer /\ z.numTx = x.numTx /\ z.decoded = e
  BY <1>2, Zenon DEF Process
<1>3. y = [x EXCEPT !.age = age, !.decoded = x.decoded \/ d]
  BY Zenon DEF Older
<1> HIDE DEF age
<1> QED
  BY <1>1, <1>2, <1>3, Zenon

-----------------------------------------------------------------------------
(***************************************************************************)
(* Each step keeps it.                                                     *)
(***************************************************************************)

\* What DropExhausted takes has been sent as often as it may be; between two
\* bursts the UE has forgotten it already.
LEMMA Dropped ==
    ASSUME NEW u \in UEs, UEInv(u), allocation[u] = NoAllocation,
           NEW tx, tx = DropExhausted(m_txProcesses[u])
    PROVE  /\ DOMAIN tx \subseteq DOMAIN m_txProcesses[u]
           /\ \A p \in DOMAIN tx : tx[p] = m_txProcesses[u][p] /\ tx[p].numTx < m_maxRetransmissions
           /\ \A p \in DOMAIN m_txProcesses[u] \ DOMAIN tx :
                m_txProcesses[u][p].numTx = m_maxRetransmissions
           /\ DOMAIN m_rxProcesses[u] \subseteq DOMAIN tx
           /\ \A p \in DOMAIN tx : /\ p \in DOMAIN m_rxProcesses[u]
                                   /\ tx[p].numTx = m_rxProcesses[u][p]
                                   /\ ~tx[p].decoded
<1>1. /\ DOMAIN tx = {p \in DOMAIN m_txProcesses[u] : m_txProcesses[u][p].numTx < m_maxRetransmissions}
      /\ \A p \in DOMAIN tx : tx[p] = m_txProcesses[u][p]
  BY DEF DropExhausted, Restrict
<1>2. \A p \in DOMAIN m_txProcesses[u] : m_txProcesses[u][p].numTx \in 1..m_maxRetransmissions
  BY DEF UEInv, Process
<1>3. \A p \in Pids : Settled(u, p)
  BY DEF UEInv
<1>4. \A p \in DOMAIN m_rxProcesses[u] : p \in DOMAIN tx /\ tx[p].numTx = m_rxProcesses[u][p]
  BY <1>1, <1>3, HarqAssumption DEF UEInv, Settled
<1>5. \A p \in DOMAIN tx : /\ p \in DOMAIN m_rxProcesses[u] /\ ~tx[p].decoded
  BY <1>1, <1>2, <1>3, HarqAssumption DEF UEInv, Settled
<1> QED
  BY <1>1, <1>2, <1>4, <1>5, HarqAssumption

\* DoSchedule: the process of the block that is sent is one transmission ahead of
\* its UE, and every other process is as it was.
LEMMA ScheduleKeepsUEInv ==
    ASSUME OneBearerPerUE, IInv, NEW active \in SUBSET Bearers, DoSchedule(active),
           NEW u \in UEs
    PROVE  UEInv(u)'
<1>1. UEInv(u) /\ phase = "tx" /\ phase' = "rx" /\ m_rxProcesses' = m_rxProcesses
  BY IInvUEByUE DEF DoSchedule
<1>2. allocation[u] = NoAllocation
  BY <1>1 DEF UEInv
<1>3. CASE active = {}
  <2>1. m_txProcesses' = m_txProcesses /\ allocation' = allocation
    BY <1>3 DEF DoSchedule
  <2> QED
    BY <1>1, <1>2, <2>1 DEF UEInv, Settled, UnderWay
<1>4. CASE active # {}
  <2>1. PICK early \in [UEs -> SUBSET Pids] :
            /\ \A v \in UEs : early[v] \subseteq MaybeDue(DropExhausted(m_txProcesses[v]))
            /\ RBsAllocation(active, early)
    BY <1>4 DEF DoSchedule
  <2> DEFINE tx == DropExhausted(m_txProcesses[u])
             f == m_txProcesses'[u]
  <2>2. \/ NothingSent(u, tx)
        \/ \E r \in Pids : SentAgain(u, tx, r)
        \/ \E pid \in Pids, b \in Bearers, rbs \in 1..NbRBs : SentFirst(u, tx, pid, b, rbs)
    BY <2>1, ScheduledUE
  <2>3. /\ DOMAIN tx \subseteq Pids
        /\ \A p \in DOMAIN tx : tx[p] \in Process /\ UEOf[tx[p].bearer] = u
    BY <1>1, <1>2, Dropped DEF UEInv
  <2> HIDE DEF tx
  <2>4. /\ DOMAIN m_rxProcesses[u] \subseteq DOMAIN tx
        /\ \A p \in DOMAIN tx : /\ p \in DOMAIN m_rxProcesses[u]
                                /\ tx[p].numTx < m_maxRetransmissions
                                /\ tx[p].numTx = m_rxProcesses[u][p]
                                /\ ~tx[p].decoded
    BY <1>1, <1>2, Dropped DEF tx
  <2>5. ASSUME NEW p \in DOMAIN tx, p \in DOMAIN f, NotSent(f, tx, p)
        PROVE  /\ f[p] \in Process /\ UEOf[f[p].bearer] = u
               /\ Settled(u, p)'
    <3>1. /\ f[p] \in Process /\ f[p].bearer = tx[p].bearer
          /\ f[p].numTx = tx[p].numTx /\ f[p].decoded = tx[p].decoded
      BY <2>3, <2>5, ProcessNotSent DEF NotSent
    <3> QED
      BY <1>1, <2>3, <2>4, <2>5, <3>1 DEF Settled
  <2>6. ASSUME NEW p \in Pids, p \notin DOMAIN tx, p \notin DOMAIN f
        PROVE  Settled(u, p)'
    BY <1>1, <2>4, <2>6 DEF Settled
  <2>7. /\ DOMAIN m_rxProcesses'[u] \subseteq Pids
        /\ \A p \in DOMAIN m_rxProcesses'[u] :
                m_rxProcesses'[u][p] \in 1..(m_maxRetransmissions - 1)
    BY <1>1 DEF UEInv
  <2>8. CASE NothingSent(u, tx)
    <3>1. /\ DOMAIN f = DOMAIN tx /\ \A p \in DOMAIN tx : NotSent(f, tx, p)
          /\ allocation'[u] = NoAllocation
      BY <2>8 DEF NothingSent
    <3> HIDE DEF f
    <3>2. /\ DOMAIN f \subseteq Pids
          /\ \A p \in DOMAIN f : f[p] \in Process /\ UEOf[f[p].bearer] = u
      BY <2>3, <2>5, <3>1
    <3>3. \A p \in Pids : Settled(u, p)'
      BY <2>5, <2>6, <3>1
    <3> QED
      BY <1>1, <2>7, <3>1, <3>2, <3>3 DEF UEInv, f, NoAllocation
  <2>9. CASE \E r \in Pids : SentAgain(u, tx, r)
    <3>1. PICK r \in Pids : SentAgain(u, tx, r)
      BY <2>9
    <3>2. /\ r \in DOMAIN tx /\ DOMAIN f = DOMAIN tx /\ f[r] = Retransmission(tx[r])
          /\ \A p \in DOMAIN tx \ {r} : NotSent(f, tx, p)
          /\ allocation'[u] = [pid |-> r, flows |-> {<<tx[r].bearer, r>>}]
      BY <3>1 DEF SentAgain
    <3>3. /\ f[r] \in Process /\ f[r].bearer = tx[r].bearer
          /\ f[r].numTx = tx[r].numTx + 1 /\ f[r].decoded = tx[r].decoded
      BY <2>3, <2>4, <3>2, ProcessSentAgain
    <3>4. UnderWay(u, r)'
      BY <1>1, <2>3, <2>4, <3>2, <3>3 DEF UnderWay
    <3> HIDE DEF f
    <3>5. /\ DOMAIN f \subseteq Pids
          /\ \A p \in DOMAIN f : f[p] \in Process /\ UEOf[f[p].bearer] = u
      BY <2>3, <2>5, <3>2, <3>3
    <3>6. \A p \in Pids \ {r} : Settled(u, p)'
      BY <2>5, <2>6, <3>2
    <3>7. allocation'[u].pid = r /\ allocation'[u] # NoAllocation
      BY <3>2, HarqAssumption DEF NoAllocation, HARQ_NO_PID_AVAILABLE, Pids
    <3> QED
      BY <1>1, <2>7, <3>4, <3>5, <3>6, <3>7 DEF UEInv, f
  <2>10. CASE \E pid \in Pids, b \in Bearers, rbs \in 1..NbRBs : SentFirst(u, tx, pid, b, rbs)
    <3>1. PICK pid \in Pids, b \in Bearers, rbs \in 1..NbRBs : SentFirst(u, tx, pid, b, rbs)
      BY <2>10
    <3>2. /\ pid \notin DOMAIN m_txProcesses[u] /\ UEOf[b] = u
          /\ DOMAIN f = DOMAIN tx \cup {pid}
          /\ f[pid] = [bearer |-> b, numTx |-> 1, age |-> 0, rbs |-> rbs,
                       firstRbs |-> rbs, decoded |-> FALSE]
          /\ \A p \in DOMAIN tx : NotSent(f, tx, p)
          /\ allocation'[u] = [pid |-> pid, flows |-> {<<b, pid>>}]
      BY <3>1 DEF SentFirst
    <3>3. pid \notin DOMAIN tx
      BY <1>1, <1>2, <3>2, Dropped DEF tx
    <3>4. f[pid] \in Process /\ f[pid].bearer = b /\ f[pid].numTx = 1 /\ ~f[pid].decoded
      BY <3>2, HarqAssumption DEF Process, TooOld
    <3>5. UnderWay(u, pid)'
      BY <1>1, <2>4, <3>2, <3>3, <3>4 DEF UnderWay
    <3> HIDE DEF f
    <3>6. /\ DOMAIN f \subseteq Pids
          /\ \A p \in DOMAIN f : f[p] \in Process /\ UEOf[f[p].bearer] = u
      BY <2>3, <2>5, <3>2, <3>4
    <3>7. \A p \in Pids \ {pid} : Settled(u, p)'
      BY <2>5, <2>6, <3>2
    <3>8. allocation'[u].pid = pid /\ allocation'[u] # NoAllocation
      BY <3>2, HarqAssumption DEF NoAllocation, HARQ_NO_PID_AVAILABLE, Pids
    <3> QED
      BY <1>1, <2>7, <3>5, <3>6, <3>7, <3>8 DEF UEInv, f
  <2> QED
    BY <2>2, <2>8, <2>9, <2>10
<1> QED
  BY <1>3, <1>4

\* What Later makes of the processes of a UE.
LEMMA LaterProcesses ==
    ASSUME NEW u \in UEs, UEInv(u), NEW ok \in BOOLEAN,
           NEW f, f = Later(u, m_txProcesses[u], ok)
    PROVE  /\ DOMAIN f = DOMAIN m_txProcesses[u]
           /\ \A p \in DOMAIN f :
                /\ f[p] \in Process /\ UEOf[f[p].bearer] = u
                /\ f[p].numTx = m_txProcesses[u][p].numTx
                /\ f[p].decoded => \/ m_txProcesses[u][p].decoded
                                   \/ ok /\ <<m_txProcesses[u][p].bearer, p>> \in allocation[u].flows
<1>1. DOMAIN f = DOMAIN m_txProcesses[u]
  BY DEF Later
<1>2. ASSUME NEW p \in DOMAIN f
      PROVE  /\ f[p] \in Process /\ UEOf[f[p].bearer] = u
             /\ f[p].numTx = m_txProcesses[u][p].numTx
             /\ f[p].decoded => \/ m_txProcesses[u][p].decoded
                                \/ ok /\ <<m_txProcesses[u][p].bearer, p>> \in allocation[u].flows
  <2> DEFINE x == m_txProcesses[u][p]
             d == ok /\ <<x.bearer, p>> \in allocation[u].flows
  <2>1. x \in Process /\ UEOf[x.bearer] = u
    BY <1>1 DEF UEInv
  <2>2. f[p] = Older(x, d)
    BY <1>1, Zenon DEF Later, Older
  <2>3. PICK y : y = x
    OBVIOUS
  <2>4. PICK e \in BOOLEAN : e = d
    OBVIOUS
  <2>5. f[p] = Older(y, e)
    BY <2>2, <2>3, <2>4, Zenon
  <2> HIDE DEF x, d
  <2>6. /\ f[p] \in Process /\ f[p].bearer = y.bearer
        /\ f[p].numTx = y.numTx /\ f[p].decoded = (y.decoded \/ e)
    BY <2>1, <2>3, <2>5, ProcessLater
  <2> QED
    BY <2>1, <2>3, <2>4, <2>6 DEF x, d
<1> QED
  BY <1>1, <1>2

\* UePhy::StartRx: the answer brings the process of the block that was sent into
\* step again, whether it was decoded or not.
LEMMA StartRxKeepsUEInv ==
    ASSUME IInv, NEW errors, StartRx(errors), NEW u \in UEs
    PROVE  UEInv(u)'
<1> DEFINE addressed == {v \in UEs : allocation[v] # NoAllocation}
           pid == allocation[u].pid
           f == Later(u, m_txProcesses[u], u \in addressed /\ u \notin errors)
           tx == m_txProcesses'[u]
           rx == m_rxProcesses'[u]
<1>1. /\ UEInv(u)
      /\ allocation'[u] = NoAllocation
      /\ rx = IF u \in addressed THEN RxAfter(m_rxProcesses[u], pid, u \in errors)
                                 ELSE m_rxProcesses[u]
  BY IInvUEByUE DEF StartRx
<1>2. tx = IF u \in addressed
           THEN ReceiveAck(Later(u, m_txProcesses[u], u \notin errors), u \notin errors, pid)
           ELSE Later(u, m_txProcesses[u], FALSE)
  BY DEF StartRx
<1>3. /\ DOMAIN f = DOMAIN m_txProcesses[u]
      /\ \A p \in DOMAIN f :
            /\ f[p] \in Process /\ UEOf[f[p].bearer] = u
            /\ f[p].numTx = m_txProcesses[u][p].numTx
            /\ f[p].decoded => \/ m_txProcesses[u][p].decoded
                               \/ /\ u \in addressed /\ u \notin errors
                                  /\ <<m_txProcesses[u][p].bearer, p>> \in allocation[u].flows
  <2>1. PICK ok \in BOOLEAN : ok = (u \in addressed /\ u \notin errors)
    OBVIOUS
  <2>2. f = Later(u, m_txProcesses[u], ok)
    BY <2>1, Zenon
  <2> HIDE DEF f, tx, rx, addressed
  <2>3. UEInv(u)
    BY <1>1
  <2>4. /\ DOMAIN f = DOMAIN m_txProcesses[u]
        /\ \A p \in DOMAIN f :
            /\ f[p] \in Process /\ UEOf[f[p].bearer] = u
            /\ f[p].numTx = m_txProcesses[u][p].numTx
            /\ f[p].decoded => \/ m_txProcesses[u][p].decoded
                               \/ ok /\ <<m_txProcesses[u][p].bearer, p>> \in allocation[u].flows
    BY <2>2, <2>3, LaterProcesses
  <2> QED
    BY <2>1, <2>4
<1>4. SUFFICES /\ DOMAIN tx \subseteq DOMAIN f /\ \A p \in DOMAIN tx : tx[p] = f[p]
               /\ DOMAIN rx \subseteq Pids
               /\ \A p \in DOMAIN rx : rx[p] \in 1..(m_maxRetransmissions - 1)
               /\ \A p \in Pids : Settled(u, p)'
  <2>1. UEInv(u)' <=> /\ DOMAIN tx \subseteq Pids
                      /\ \A p \in DOMAIN tx : tx[p] \in Process /\ UEOf[tx[p].bearer] = u
                      /\ DOMAIN rx \subseteq Pids
                      /\ \A p \in DOMAIN rx : rx[p] \in 1..(m_maxRetransmissions - 1)
                      /\ \A p \in Pids : Settled(u, p)'
    BY <1>1 DEF UEInv, NoAllocation
  <2> HIDE DEF tx, rx, f, addressed
  <2>2. DOMAIN tx \subseteq Pids /\ \A p \in DOMAIN tx : tx[p] \in Process /\ UEOf[tx[p].bearer] = u
    BY <1>1, <1>3, <1>4 DEF UEInv
  <2> QED
    BY <1>4, <2>1, <2>2
<1>5. CASE u \notin addressed
  <2>1. tx = f /\ rx = m_rxProcesses[u]
    BY <1>1, <1>2, <1>5
  <2>2. \A p \in Pids : Settled(u, p)
    BY <1>1, <1>5 DEF UEInv
  <2>3. \A p \in Pids : Settled(u, p)'
    <3> HIDE DEF f
    <3> QED
      BY <1>3, <1>5, <2>1, <2>2 DEF Settled
  <2> QED
    BY <1>1, <2>1, <2>3 DEF UEInv
<1>6. ASSUME u \in addressed
      PROVE  /\ pid \in Pids
             /\ UnderWay(u, pid)
             /\ \A p \in Pids \ {pid} : Settled(u, p)
             /\ \A p \in DOMAIN f \ {pid} : ~f[p].decoded
  <2>1. /\ pid \in Pids /\ UnderWay(u, pid)
        /\ \A p \in Pids \ {pid} : Settled(u, p)
    BY <1>1, <1>6 DEF UEInv
  <2>2. \A p \in DOMAIN f \ {pid} : <<m_txProcesses[u][p].bearer, p>> \notin allocation[u].flows
    BY <2>1 DEF UnderWay
  <2>3. \A p \in DOMAIN f \ {pid} : ~m_txProcesses[u][p].decoded
    BY <1>1, <1>3, <2>1 DEF UEInv, Settled
  <2> HIDE DEF f, pid
  <2> QED
    BY <1>3, <2>1, <2>2, <2>3
<1>7. CASE u \in addressed /\ u \notin errors
  <2>1. /\ tx = Restrict(f, DOMAIN f \ {pid})
        /\ rx = Restrict(m_rxProcesses[u], DOMAIN m_rxProcesses[u] \ {pid})
    BY <1>1, <1>2, <1>7 DEF ReceiveAck, RxAfter
  <2>2. /\ DOMAIN tx = DOMAIN f \ {pid} /\ \A p \in DOMAIN tx : tx[p] = f[p]
        /\ DOMAIN rx = DOMAIN m_rxProcesses[u] \ {pid}
        /\ \A p \in DOMAIN rx : rx[p] = m_rxProcesses[u][p]
    <3> HIDE DEF f, tx, rx
    <3> QED
      BY <2>1 DEF Restrict
  <2>3. \A p \in Pids : Settled(u, p)'
    <3> HIDE DEF f
    <3> QED
      BY <1>3, <1>6, <1>7, <2>2 DEF Settled
  <2> HIDE DEF f, tx, rx
  <2> QED
    BY <1>1, <2>2, <2>3 DEF UEInv
<1>8. CASE u \in addressed /\ u \in errors
  <2>1. tx = f /\ rx = RxAfter(m_rxProcesses[u], pid, TRUE)
    BY <1>1, <1>2, <1>8 DEF ReceiveAck
  <2>2. \A p \in DOMAIN f : ~f[p].decoded
    <3>1. pid \in DOMAIN f /\ ~m_txProcesses[u][pid].decoded
      BY <1>3, <1>6, <1>8 DEF UnderWay
    <3> HIDE DEF f
    <3> QED
      BY <1>3, <1>6, <1>8, <3>1
  <2>3. /\ pid \in Pids /\ pid \in DOMAIN tx
        /\ tx[pid].numTx = IF pid \in DOMAIN m_rxProcesses[u]
                           THEN m_rxProcesses[u][pid] + 1 ELSE 1
    <3>1. /\ pid \in Pids /\ pid \in DOMAIN m_txProcesses[u]
          /\ m_txProcesses[u][pid].numTx = IF pid \in DOMAIN m_rxProcesses[u]
                                           THEN m_rxProcesses[u][pid] + 1 ELSE 1
      BY <1>6, <1>8 DEF UnderWay
    <3> HIDE DEF f
    <3> QED
      BY <1>3, <2>1, <3>1
  <2>4. \A p \in Pids \ {pid} :
            /\ p \in DOMAIN m_rxProcesses[u] => /\ p \in DOMAIN tx
                                                /\ tx[p].numTx = m_rxProcesses[u][p]
            /\ p \in DOMAIN tx => \/ p \in DOMAIN m_rxProcesses[u]
                                \/ tx[p].numTx = m_maxRetransmissions
    <3>1. \A p \in Pids \ {pid} : Settled(u, p)
      BY <1>6, <1>8
    <3> HIDE DEF f, pid
    <3> QED
      BY <1>3, <2>1, <3>1 DEF Settled
  <2>5. CASE pid \notin DOMAIN m_rxProcesses[u]
    <3>1. /\ DOMAIN rx = DOMAIN m_rxProcesses[u] \cup {pid} /\ rx[pid] = 1
          /\ \A p \in DOMAIN rx \ {pid} : rx[p] = m_rxProcesses[u][p]
      BY <2>1, <2>5 DEF RxAfter
    <3>2. \A p \in Pids : Settled(u, p)'
      BY <2>1, <2>2, <2>3, <2>4, <2>5, <3>1 DEF Settled
    <3> HIDE DEF f, tx, rx, pid
    <3> QED
      BY <1>1, <2>1, <2>3, <3>1, <3>2, HarqAssumption DEF UEInv
  <2>6. CASE /\ pid \in DOMAIN m_rxProcesses[u]
             /\ m_rxProcesses[u][pid] + 1 = m_maxRetransmissions
    <3>1. /\ DOMAIN rx = DOMAIN m_rxProcesses[u] \ {pid}
          /\ \A p \in DOMAIN rx : rx[p] = m_rxProcesses[u][p]
      BY <2>1, <2>6 DEF RxAfter, Restrict
    <3>2. \A p \in Pids : Settled(u, p)'
      BY <2>1, <2>2, <2>3, <2>4, <2>6, <3>1 DEF Settled
    <3> HIDE DEF f, tx, rx, pid
    <3> QED
      BY <1>1, <2>1, <3>1, <3>2 DEF UEInv
  <2>7. CASE /\ pid \in DOMAIN m_rxProcesses[u]
             /\ m_rxProcesses[u][pid] + 1 # m_maxRetransmissions
    <3>1. rx = [m_rxProcesses[u] EXCEPT ![pid] = @ + 1]
      BY <2>1, <2>7 DEF RxAfter
    <3>2. /\ DOMAIN rx = DOMAIN m_rxProcesses[u] /\ rx[pid] = m_rxProcesses[u][pid] + 1
          /\ \A p \in DOMAIN rx \ {pid} : rx[p] = m_rxProcesses[u][p]
      BY <2>7, <3>1
    <3>3. \A p \in Pids : Settled(u, p)'
      BY <2>1, <2>2, <2>3, <2>4, <2>7, <3>2 DEF Settled
    <3> HIDE DEF f, tx, rx, pid
    <3> QED
      BY <1>1, <2>1, <2>7, <3>2, <3>3, HarqAssumption DEF UEInv
  <2> QED
    BY <2>5, <2>6, <2>7
<1> QED
  BY <1>5, <1>7, <1>8

-----------------------------------------------------------------------------
(***************************************************************************)
(* The theorems.                                                           *)
(***************************************************************************)

\* At the start there is no process.
LEMMA InitIInv == Init => IInv
<1> SUFFICES ASSUME Init PROVE IInv
  OBVIOUS
<1>1. ASSUME NEW u \in UEs
      PROVE  UEInv(u)
  <2>1. /\ DOMAIN m_txProcesses[u] = {} /\ DOMAIN m_rxProcesses[u] = {}
        /\ allocation[u] = NoAllocation /\ NoAllocation.pid = HARQ_NO_PID_AVAILABLE
    BY DEF Init, NoProcesses, NoAllocation
  <2> QED
    BY <2>1 DEF UEInv, Settled
<1> QED
  BY <1>1, IInvUEByUE DEF Init

\* Both actions keep the invariant, because they keep it for every UE.
LEMMA NextKeepsIInv ==
    ASSUME OneBearerPerUE, IInv, [Next]_vars
    PROVE  IInv'
<1>1. ASSUME NEW active \in SUBSET Bearers, DoSchedule(active)
      PROVE  IInv'
  <2>1. \A u \in UEs : UEInv(u)'
    BY <1>1, ScheduleKeepsUEInv
  <2>2. (m_flowsToSchedule \subseteq Bearers /\ phase \in {"rx", "tx"})'
    BY <1>1 DEF DoSchedule
  <2> QED
    BY <2>1, <2>2 DEF IInv, TypeOK, UEInv, Process
<1>2. ASSUME NEW errors \in SUBSET UEs, StartRx(errors)
      PROVE  IInv'
  <2>1. \A u \in UEs : UEInv(u)'
    BY <1>2, StartRxKeepsUEInv
  <2>2. (m_flowsToSchedule \subseteq Bearers /\ phase \in {"rx", "tx"})'
    BY <1>2 DEF StartRx
  <2> QED
    BY <2>1, <2>2 DEF IInv, TypeOK, UEInv, Process
<1>3. CASE UNCHANGED vars
  BY <1>3 DEF vars, IInv, TypeOK, UnderWay, Settled
<1> QED
  BY <1>1, <1>2, <1>3 DEF Next

\* The inductive invariant holds: in every state the processes of the two ends
\* match, but for the one block that is on its way.
THEOREM HarqInvariant ==
    ASSUME OneBearerPerUE
    PROVE  Spec => []IInv
<1>1. IInv /\ [Next]_vars => IInv'
  BY NextKeepsIInv
<1> QED
  BY InitIInv, <1>1, PTL DEF Spec

\* While each UE has one bearer, the UE and the gNB count the transmissions of
\* every block alike, whatever is lost: GetCombinedSinr combines the signals of
\* one block, and no block is sent again once the UE has decoded it.
THEOREM HarqInStep ==
    ASSUME OneBearerPerUE
    PROVE  Spec => []BothEndsAgree
<1>1. IInv => BothEndsAgree
  <2> SUFFICES ASSUME IInv, phase = "tx"
               PROVE  SoftCombiningInStep /\ NotSentOnceDecoded
    BY DEF IInv, BothEndsAgree, SoftCombiningInStep, NotSentOnceDecoded
  <2>1. ASSUME NEW u \in UEs
        PROVE  /\ \A p \in Pids : Settled(u, p)
               /\ DOMAIN m_txProcesses[u] \subseteq Pids
               /\ DOMAIN m_rxProcesses[u] \subseteq Pids
    BY IInvUEByUE DEF UEInv
  <2> QED
    BY <2>1 DEF Settled, SoftCombiningInStep, NotSentOnceDecoded
<1> QED
  BY HarqInvariant, <1>1, PTL

\* A process goes when its block was acknowledged or had been sent
\* m_maxRetransmissions times, and never before.
THEOREM HarqGivesUpLast ==
    ASSUME OneBearerPerUE
    PROVE  Spec => NotGivenUpEarly
<1> DEFINE Kept(u, p) == \/ m_txProcesses[u][p].numTx = m_maxRetransmissions
                         \/ allocation[u].pid = p /\ p \notin DOMAIN m_rxProcesses'[u]
           A == \A u \in UEs : \A p \in DOMAIN m_txProcesses[u] \ DOMAIN m_txProcesses'[u] :
                    Kept(u, p)
<1>1. ASSUME IInv, NEW active \in SUBSET Bearers, DoSchedule(active), NEW u \in UEs,
             NEW p \in DOMAIN m_txProcesses[u] \ DOMAIN m_txProcesses'[u]
      PROVE  Kept(u, p)
  <2>1. UEInv(u) /\ allocation[u] = NoAllocation
    BY <1>1, IInvUEByUE DEF UEInv, DoSchedule
  <2>2. active # {}
    BY <1>1 DEF DoSchedule
  <2>3. PICK early \in [UEs -> SUBSET Pids] :
            /\ \A v \in UEs : early[v] \subseteq MaybeDue(DropExhausted(m_txProcesses[v]))
            /\ RBsAllocation(active, early)
    BY <1>1, <2>2 DEF DoSchedule
  <2> DEFINE tx == DropExhausted(m_txProcesses[u])
  <2>4. \/ NothingSent(u, tx)
        \/ \E r \in Pids : SentAgain(u, tx, r)
        \/ \E pid \in Pids, b \in Bearers, rbs \in 1..NbRBs : SentFirst(u, tx, pid, b, rbs)
    BY <1>1, <2>3, ScheduledUE
  <2>5. \A q \in DOMAIN m_txProcesses[u] \ DOMAIN tx :
            m_txProcesses[u][q].numTx = m_maxRetransmissions
    BY <2>1, Dropped
  <2> HIDE DEF tx
  <2>6. DOMAIN tx \subseteq DOMAIN m_txProcesses'[u]
    BY <2>4 DEF NothingSent, SentAgain, SentFirst
  <2> QED
    BY <1>1, <2>5, <2>6
<1>2. ASSUME IInv, NEW errors \in SUBSET UEs, StartRx(errors), NEW u \in UEs,
             NEW p \in DOMAIN m_txProcesses[u] \ DOMAIN m_txProcesses'[u]
      PROVE  Kept(u, p)
  <2> DEFINE addressed == {v \in UEs : allocation[v] # NoAllocation}
             pid == allocation[u].pid
             f(ok) == Later(u, m_txProcesses[u], ok)
  <2>1. /\ m_txProcesses'[u] = IF u \in addressed
                               THEN ReceiveAck(f(u \notin errors), u \notin errors, pid)
                               ELSE f(FALSE)
        /\ m_rxProcesses'[u] = IF u \in addressed
                               THEN RxAfter(m_rxProcesses[u], pid, u \in errors)
                               ELSE m_rxProcesses[u]
    BY <1>2 DEF StartRx
  <2>2. \A ok : DOMAIN f(ok) = DOMAIN m_txProcesses[u]
    BY DEF Later
  <2> HIDE DEF addressed, f
  <2>3. u \in addressed /\ u \notin errors
    BY <1>2, <2>1, <2>2 DEF ReceiveAck
  <2>4. /\ DOMAIN m_txProcesses'[u] = DOMAIN m_txProcesses[u] \ {pid}
        /\ DOMAIN m_rxProcesses'[u] = DOMAIN m_rxProcesses[u] \ {pid}
    BY <2>1, <2>2, <2>3 DEF ReceiveAck, RxAfter, Restrict
  <2> QED
    BY <1>2, <2>4
<1>3. IInv /\ [Next]_vars => [A]_vars
  BY <1>1, <1>2 DEF Next
<1> QED
  BY HarqInvariant, <1>3, PTL DEF Spec, NotGivenUpEarly
=============================================================================
