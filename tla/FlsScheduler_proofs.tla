------------------------- MODULE FlsScheduler_proofs -------------------------
(***************************************************************************)
(* The two-level scheduler keeps its promises for any number of bearers,   *)
(* UEs, RBs and filter coefficients, any sizes of packets and of blocks,   *)
(* and any order of the metrics.                                           *)
(*                                                                         *)
(* What the two passes give is known from an induction over the RBs        *)
(* (RBsAllocationIs); the quotas are numbers because the filter's sums     *)
(* are (FilterIs).  The inductive invariant relates, per bearer, what is   *)
(* left of the quota to the bytes granted in the frame, and the calls it   *)
(* has waited to the place in the frame.                                   *)
(***************************************************************************)
EXTENDS FlsScheduler, DataStructures_proofs, FiniteSetTheorems

-----------------------------------------------------------------------------
(***************************************************************************)
(* The quota                                                               *)
(***************************************************************************)

\* The powers of two are positive.
LEMMA PowersAre == \A n \in 0..M : Powers[n] \in Nat /\ Powers[n] > 0
<1> DEFINE Eq(g) == g = [n \in 0..M |-> IF n = 0 THEN 1 ELSE 2 * g[n - 1]]
           Pos == {x \in Nat : x > 0}
           step == [n \in 1..M |-> [x \in Pos |-> 2 * x]]
<1>1. M \in Nat
  BY FlsAssumption
<1>2. PICK f \in [0..M -> Pos] : Iterates(f, 1, step, M)
  <2>1. step \in [1..M -> [Pos -> Pos]] /\ 1 \in Pos
    OBVIOUS
  <2> HIDE DEF step, Pos
  <2> QED
    BY <1>1, <2>1, Recursion
<1>3. Eq(f)
  <2>1. f = [n \in 0..M |-> f[n]]
    OBVIOUS
  <2>2. ASSUME NEW n \in 1..M
        PROVE  f[n] = 2 * f[n - 1]
    <3>1. f[n - 1] \in Pos
      BY <1>1
    <3>2. f[n] = step[n][f[n - 1]]
      BY <1>2 DEF Iterates
    <3> QED
      BY <3>1, <3>2
  <2>3. f[0] = 1
    BY <1>2 DEF Iterates
  <2>4. \A n \in 0..M : f[n] = IF n = 0 THEN 1 ELSE 2 * f[n - 1]
    BY <1>1, <2>2, <2>3
  <2> QED
    BY <2>1, <2>4
<1>4. Powers = CHOOSE g : Eq(g)
  BY DEF Powers
<1>5. Eq(Powers)
  <2> HIDE DEF Eq
  <2> QED
    BY <1>3, <1>4
<1>6. Powers[0] = 1 /\ \A n \in 1..M : Powers[n] = 2 * Powers[n - 1]
  <2>1. 0 \in 0..M /\ \A n \in 1..M : n \in 0..M /\ n # 0
    BY <1>1
  <2>2. \A n \in 0..M : Powers[n] = IF n = 0 THEN 1 ELSE 2 * Powers[n - 1]
    BY <1>5
  <2> QED
    BY <2>1, <2>2
<1>7. \A n \in 0..M : Powers[n] \in Pos
  <2>1. Powers[0] \in Pos
    BY <1>6
  <2>2. \A n \in 1..M : Powers[n - 1] \in Pos => Powers[n] \in Pos
    BY <1>6
  <2>3. PICK k : k = Powers
    OBVIOUS
  <2> HIDE DEF Eq, step, Pos
  <2>4. \A n \in 0..M : k[n] \in Pos
    BY <1>1, <2>1, <2>2, <2>3, Along
  <2> QED
    BY <2>3, <2>4
<1> QED
  BY <1>7

\* The sum of integers is an integer.
LEMMA SumIs ==
    ASSUME NEW n \in Nat, NEW x \in [1..n -> Int]
    PROVE  Sum(x, n) \in Int
<1> DEFINE Eq(g) == g = [i \in 0..n |-> IF i = 0 THEN 0 ELSE g[i - 1] + x[i]]
           step == [i \in 1..n |-> [y \in Int |-> y + x[i]]]
<1>1. PICK f \in [0..n -> Int] : Iterates(f, 0, step, n)
  <2>1. step \in [1..n -> [Int -> Int]] /\ 0 \in Int
    OBVIOUS
  <2> HIDE DEF step
  <2> QED
    BY <2>1, Recursion
<1>2. Eq(f)
  <2>1. f = [i \in 0..n |-> f[i]]
    OBVIOUS
  <2>2. ASSUME NEW i \in 1..n
        PROVE  f[i] = f[i - 1] + x[i]
    <3>1. f[i - 1] \in Int
      OBVIOUS
    <3>2. f[i] = step[i][f[i - 1]]
      BY <1>1 DEF Iterates
    <3> QED
      BY <3>1, <3>2
  <2>3. f[0] = 0
    BY <1>1 DEF Iterates
  <2>4. \A i \in 0..n : f[i] = IF i = 0 THEN 0 ELSE f[i - 1] + x[i]
    BY <2>2, <2>3
  <2> QED
    BY <2>1, <2>4
<1>3. PICK g : g = CHOOSE h : Eq(h)
  OBVIOUS
<1>4. Eq(g)
  <2> HIDE DEF Eq
  <2> QED
    BY <1>2, <1>3
<1>5. Sum(x, n) = g[n]
  BY <1>3 DEF Sum
<1>6. g[0] = 0 /\ \A i \in 1..n : g[i] = g[i - 1] + x[i]
  <2>1. 0 \in 0..n /\ \A i \in 1..n : i \in 0..n /\ i # 0
    OBVIOUS
  <2>2. \A i \in 0..n : g[i] = IF i = 0 THEN 0 ELSE g[i - 1] + x[i]
    BY <1>4
  <2> QED
    BY <2>1, <2>2
<1>7. \A i \in 0..n : g[i] \in Int
  <2>1. g[0] \in Int
    BY <1>6
  <2>2. \A i \in 1..n : g[i - 1] \in Int => g[i] \in Int
    BY <1>6
  <2> HIDE DEF Eq, step
  <2> QED
    BY <2>1, <2>2, Along
<1> QED
  BY <1>5, <1>7

\* The queue sizes and quotas a filter remembers.
Memory == [1..(M - 1) -> Nat]

\* The filter gives a natural number: what is negative is cut off.
LEMMA FilterIs ==
    ASSUME NEW size \in Nat, NEW q \in Memory, NEW u \in Memory
    PROVE  Filter(size, q, u) \in Nat
<1> DEFINE a == [i \in 1..(M - 1) |-> q[i] * Coefficient(i + 1)]
           b == [i \in 1..(M - 2) |-> q[i] * Coefficient(i + 2)]
           c == [i \in 1..(M - 1) |-> u[i] * Coefficient(i + 1)]
<1>1. M \in Nat /\ M - 1 \in Nat /\ M - 2 \in Nat /\ M >= 3
  BY FlsAssumption
<1>2. \A i \in 1..M : Coefficient(i) \in Int
  BY <1>1, PowersAre DEF Coefficient
<1>3. Unit \in Int /\ Coefficient(2) \in Int
  BY <1>1, <1>2, PowersAre DEF Unit
<1>4. /\ a \in [1..(M - 1) -> Int] /\ b \in [1..(M - 2) -> Int]
      /\ c \in [1..(M - 1) -> Int]
  <2>1. \A i \in 1..(M - 1) : /\ q[i] \in Int /\ u[i] \in Int
                              /\ Coefficient(i + 1) \in Int
    BY <1>1, <1>2 DEF Memory
  <2>2. \A i \in 1..(M - 2) : q[i] \in Int /\ Coefficient(i + 2) \in Int
    BY <1>1, <1>2 DEF Memory
  <2>3. \A x, y \in Int : x * y \in Int
    OBVIOUS
  <2> QED
    BY <2>1, <2>2, <2>3
<1> HIDE DEF a, b, c
<1>5. Sum(a, M - 1) \in Int /\ Sum(b, M - 2) \in Int /\ Sum(c, M - 1) \in Int
  BY <1>1, <1>4, SumIs
<1>6. PICK d : d = (Unit - Coefficient(2)) * size
                    + Sum(a, M - 1) - Sum(b, M - 2) - Sum(c, M - 1)
  OBVIOUS
<1>7. d \in Int
  BY <1>3, <1>5, <1>6
<1>8. Filter(size, q, u) = IF d < 0 THEN 0 ELSE d
  BY <1>6 DEF Filter, a, b, c
<1> QED
  BY <1>7, <1>8

\* The quotient of natural numbers, and when it is not 0.
LEMMA DivIs ==
    ASSUME NEW x \in Nat, NEW k \in Nat, k > 0
    PROVE  x \div k \in Nat /\ (x >= k => x \div k > 0)
  OBVIOUS

\* What the control law gives is a number of bytes, and not none if a packet waits.
LEMMA RunControlLawIs ==
    ASSUME NEW queue \in Queues, NEW q \in Memory, NEW u \in Memory
    PROVE  /\ RunControlLaw(queue, q, u) \in Nat
           /\ queue.elements # <<>> => RunControlLaw(queue, q, u) > 0
<1>1. PICK data \in Nat : data = Filter(QueueSizeWithOverhead(queue), q, u)
  BY QueueSizeIs, FilterIs
<1>2. PICK k \in Nat : k = Unit /\ k > 0
  <2>1. M - 1 \in 0..M
    BY FlsAssumption
  <2>2. Unit \in Nat /\ Unit > 0
    BY <2>1, PowersAre DEF Unit
  <2> QED
    BY <2>2
<1>3. PICK bytes \in Nat : bytes = (data + k - 1) \div k /\ (data >= 1 => bytes > 0)
  <2>1. data + k - 1 \in Nat /\ (data >= 1 => data + k - 1 >= k)
    BY <1>2
  <2>2. (data + k - 1) \div k \in Nat
    BY <1>2, <2>1, DivIs
  <2>3. data >= 1 => (data + k - 1) \div k > 0
    BY <1>2, <2>1, DivIs
  <2> QED
    BY <2>2, <2>3
<1>4. PICK maxData \in Nat : maxData = GetByte(queue, data \div k)
  <2>1. data \div k \in Nat
    BY <1>2, DivIs
  <2> QED
    BY <2>1, GetByteIs
<1>5. CASE queue.elements = <<>>
  BY <1>1, <1>2, <1>3, <1>5 DEF RunControlLaw
<1>6. CASE queue.elements # <<>>
  <2>1. PICK minData \in Nat :
            minData = Remaining(Head(queue.elements)) + Overhead /\ minData > 0
    <3>1. Head(queue.elements) \in Elements
      BY <1>6, QueueHas
    <3>2. Remaining(Head(queue.elements)) \in Nat
      BY <3>1, RemainingIs
    <3> QED
      BY <3>2 DEF Overhead
  <2>2. RunControlLaw(queue, q, u) =
            IF data < minData * k THEN minData
            ELSE IF data < maxData * k THEN maxData ELSE bytes
    BY <1>1, <1>2, <1>3, <1>4, <1>6, <2>1 DEF RunControlLaw
  <2>3. maxData = 0 => maxData * k = 0
    BY <1>2
  <2>4. minData * k >= 1
    BY <1>2, <2>1
  <2>5. minData * k \in Nat /\ maxData * k \in Nat
    BY <1>2
  <2> QED
    BY <1>3, <1>4, <2>1, <2>2, <2>3, <2>4, <2>5
<1> QED
  BY <1>5, <1>6

\* A filter remembers as many frames after a frame as before it.
LEMMA ShiftIs ==
    ASSUME NEW history \in Memory, NEW x \in Nat
    PROVE  Shift(history, x) \in Memory
<1>1. M \in Nat /\ M >= 3
  BY FlsAssumption
<1>2. history \in Seq(Nat) /\ Len(history) = M - 1
  BY <1>1 DEF Memory
<1>3. PICK s : s = SubSeq(history, 1, M - 2)
  OBVIOUS
<1>4. s \in Seq(Nat) /\ Len(s) = M - 2
  BY <1>1, <1>2, <1>3
<1>5. PICK t : t = <<x>> \o s
  OBVIOUS
<1>6. t \in Seq(Nat) /\ Len(t) = M - 1
  BY <1>1, <1>4, <1>5
<1>7. t \in [1..(M - 1) -> Nat]
  BY <1>1, <1>6
<1> QED
  BY <1>3, <1>5, <1>7 DEF Shift, Memory

-----------------------------------------------------------------------------
(***************************************************************************)
(* The allocation                                                          *)
(***************************************************************************)

\* The block of RBs of this cell has a size.
LEMMA BlocksAre ==
    ASSUME NEW b \in Bearers, NEW rbs \in SUBSET RBs, rbs # {}
    PROVE  TBSize[b][rbs] \in Nat
<1>1. TBSize \in [Bearers -> [(SUBSET RBs) \ {{}} -> Nat]]
  BY FlsAssumption
<1>2. rbs \in (SUBSET RBs) \ {{}}
  OBVIOUS
<1> QED
  BY <1>1, <1>2

\* One of the flows comes first.
LEMMA FirstIs ==
    ASSUME NEW flows \in SUBSET Bearers, NEW order \in Orders(flows),
           NEW open \in SUBSET flows, open # {}
    PROVE  First(order, open) \in open
<1>1. order \in [flows -> 1..Cardinality(flows)]
  BY DEF Orders
<1>2. Cardinality(flows) \in Nat
  <2>1. IsFiniteSet(Bearers)
    BY FlsAssumption
  <2>2. IsFiniteSet(flows)
    BY <2>1, FS_Subset
  <2> QED
    BY <2>2, FS_CardinalityType
<1>3. \A b \in open : order[b] \in Nat
  BY <1>1, <1>2
<1>4. PICK T : T = {order[b] : b \in open}
  OBVIOUS
<1>5. T \subseteq Nat /\ T # {}
  BY <1>3, <1>4
<1>6. PICK x \in T : \A y \in T : x <= y
  BY <1>5, LeastNatural
<1>7. \E b \in open : \A c \in open : order[b] <= order[c]
  BY <1>4, <1>6
<1> QED
  BY <1>7 DEF First

Allocations(flows) == [rbs : [flows -> SUBSET RBs], free : 0..NbOfRBs]

\* What a pass that began at RB first has given of the RBs below s.
IsGiven(a, flows, data, first, s) ==
    /\ a \in Allocations(flows)
    /\ \A b \in flows : \A rb \in a.rbs[b] : first <= rb /\ rb < s /\ rb < a.free
    /\ \A b, c \in flows : b # c => a.rbs[b] \cap a.rbs[c] = {}
    /\ a.free < NbOfRBs => \A b \in flows : Served(b, a.rbs[b], data[b])

\* An RB that is given leaves an allocation, which stays the one of the RBs looked at.
LEMMA GiveRBIs ==
    ASSUME NEW flows \in SUBSET Bearers, NEW data, NEW first \in Nat,
           NEW order \in Orders(flows), NEW s \in RBs, NEW a \in Allocations(flows)
    PROVE  /\ GiveRB(a, s, data, order) \in Allocations(flows)
           /\ IsGiven(a, flows, data, first, s) /\ first <= s /\ ~ (a.free < NbOfRBs)
                => IsGiven(GiveRB(a, s, data, order), flows, data, first, s + 1)
<1>1. PICK n \in Nat : n = NbOfRBs /\ RBs = 0..(n - 1)
  BY FlsAssumption DEF RBs
<1>2. /\ a.rbs \in [flows -> SUBSET RBs] /\ a.free \in 0..n /\ s \in Nat /\ s < n
      /\ a = [rbs |-> a.rbs, free |-> a.free]
  BY <1>1 DEF Allocations
<1>3. PICK open : open = {b \in flows : ~Served(b, a.rbs[b], data[b])}
  OBVIOUS
<1>4. DOMAIN a.rbs = flows
  BY <1>2
<1>5. PICK new : new = GiveRB(a, s, data, order)
  OBVIOUS
<1>6. CASE open = {}
  <2>1. new = [a EXCEPT !.free = s]
    BY <1>3, <1>4, <1>5, <1>6 DEF GiveRB, Leftover
  <2>2. new = [rbs |-> a.rbs, free |-> s]
    BY <1>2, <2>1
  <2>3. new \in Allocations(flows)
    BY <1>1, <1>2, <2>2 DEF Allocations
  <2>4. ASSUME IsGiven(a, flows, data, first, s)
        PROVE  IsGiven(new, flows, data, first, s + 1)
    <3>1. \A b \in flows : \A rb \in a.rbs[b] : first <= rb /\ rb < s /\ rb < s + 1
      BY <1>1, <1>2, <2>4 DEF IsGiven
    <3>2. \A b \in flows : Served(b, a.rbs[b], data[b])
      BY <1>3, <1>6
    <3>3. \A b, c \in flows : b # c => a.rbs[b] \cap a.rbs[c] = {}
      BY <2>4 DEF IsGiven
    <3> QED
      BY <2>2, <2>3, <3>1, <3>2, <3>3 DEF IsGiven
  <2> QED
    BY <1>5, <2>3, <2>4
<1>7. CASE open # {}
  <2>1. PICK f \in flows : f = First(order, open) /\ f \in open
    <3>1. open \in SUBSET flows
      BY <1>3
    <3>2. First(order, open) \in open
      BY <1>7, <3>1, FirstIs
    <3> QED
      BY <3>1, <3>2
  <2>2. new = [a EXCEPT !.rbs[f] = @ \cup {s}]
    BY <1>3, <1>4, <1>5, <1>7, <2>1 DEF GiveRB
  <2>3. PICK r : r = [a.rbs EXCEPT ![f] = @ \cup {s}]
    OBVIOUS
  <2>4. new = [rbs |-> r, free |-> a.free]
    BY <1>2, <2>2, <2>3
  <2>5. /\ r \in [flows -> SUBSET RBs] /\ r[f] = a.rbs[f] \cup {s}
        /\ \A b \in flows : b # f => r[b] = a.rbs[b]
    BY <1>2, <2>1, <2>3
  <2>6. new \in Allocations(flows)
    BY <1>1, <1>2, <2>4, <2>5 DEF Allocations
  <2>7. ASSUME IsGiven(a, flows, data, first, s), first <= s, ~ (a.free < NbOfRBs)
        PROVE  IsGiven(new, flows, data, first, s + 1)
    <3>1. /\ a.free = n
          /\ \A b \in flows : \A rb \in a.rbs[b] : rb \in Nat /\ first <= rb /\ rb < s
      BY <1>1, <1>2, <2>7 DEF IsGiven
    <3>2. \A b \in flows : \A rb \in r[b] : first <= rb /\ rb < s + 1 /\ rb < n
      BY <1>2, <2>5, <2>7, <3>1
    <3>3. \A b, c \in flows : b # c => r[b] \cap r[c] = {}
      <4>1. \A b \in flows : s \notin a.rbs[b]
        BY <1>2, <3>1
      <4>2. \A b, c \in flows : b # c => a.rbs[b] \cap a.rbs[c] = {}
        BY <2>7 DEF IsGiven
      <4> QED
        BY <2>5, <4>1, <4>2
    <3> QED
      BY <1>1, <2>4, <2>6, <3>1, <3>2, <3>3 DEF IsGiven
  <2> QED
    BY <1>5, <2>6, <2>7
<1> QED
  BY <1>6, <1>7

\* The allocation gives no RB twice and none before it begins.
LEMMA RBsAllocationIs ==
    ASSUME NEW flows \in SUBSET Bearers, NEW data, NEW first \in Nat,
           NEW rank \in [RBs -> Orders(flows)]
    PROVE  IsGiven(RBsAllocation(flows, data, rank, first), flows, data, first, NbOfRBs)
<1> DEFINE start == [rbs |-> [b \in flows |-> {}], free |-> NbOfRBs]
           T(a, s) == IF s < first \/ a.free < NbOfRBs THEN a
                      ELSE GiveRB(a, s, data, rank[s])
           Eq(g) == g = [s \in 0..NbOfRBs |->
                            IF s = 0 THEN start ELSE T(g[s - 1], s - 1)]
           step == [s \in 1..NbOfRBs |-> [a \in Allocations(flows) |-> T(a, s - 1)]]
<1>1. NbOfRBs \in Nat /\ RBs = 0..(NbOfRBs - 1)
  BY FlsAssumption DEF RBs
<1>2. start \in Allocations(flows) /\ IsGiven(start, flows, data, first, 0)
  <2>1. start \in Allocations(flows)
    BY <1>1 DEF Allocations
  <2> QED
    BY <1>1, <2>1 DEF IsGiven
<1> HIDE DEF start
<1>3. ASSUME NEW s \in 1..NbOfRBs, NEW a \in Allocations(flows)
      PROVE  /\ T(a, s - 1) \in Allocations(flows)
             /\ IsGiven(a, flows, data, first, s - 1)
                    => IsGiven(T(a, s - 1), flows, data, first, s)
  <2>1. PICK r \in RBs : r = s - 1 /\ r \in Nat /\ r + 1 = s
    BY <1>1
  <2>2. rank[r] \in Orders(flows)
    BY <2>1
  <2>3. CASE r < first \/ a.free < NbOfRBs
    <3>1. T(a, s - 1) = a
      BY <2>1, <2>3
    <3>2. IsGiven(a, flows, data, first, r) => IsGiven(a, flows, data, first, r + 1)
      <4> SUFFICES ASSUME IsGiven(a, flows, data, first, r),
                          NEW b \in flows, NEW rb \in a.rbs[b]
                   PROVE  rb < r + 1
        BY DEF IsGiven
      <4>1. a.rbs \in [flows -> SUBSET RBs]
        BY DEF Allocations
      <4>2. rb \in Nat /\ rb < r
        BY <1>1, <4>1 DEF IsGiven
      <4> QED
        BY <2>1, <4>2
    <3> QED
      BY <2>1, <3>1, <3>2
  <2>4. CASE ~ (r < first \/ a.free < NbOfRBs)
    <3>1. T(a, s - 1) = GiveRB(a, r, data, rank[r]) /\ first <= r
      BY <2>1, <2>4
    <3>2. /\ GiveRB(a, r, data, rank[r]) \in Allocations(flows)
          /\ IsGiven(a, flows, data, first, r)
                => IsGiven(GiveRB(a, r, data, rank[r]), flows, data, first, r + 1)
      BY <2>2, <2>4, <3>1, GiveRBIs
    <3> QED
      BY <2>1, <3>1, <3>2
  <2> QED
    BY <2>3, <2>4
<1> HIDE DEF T
<1>4. PICK f \in [0..NbOfRBs -> Allocations(flows)] : Iterates(f, start, step, NbOfRBs)
  <2>1. step \in [1..NbOfRBs -> [Allocations(flows) -> Allocations(flows)]]
    BY <1>3
  <2> HIDE DEF step
  <2> QED
    BY <1>1, <1>2, <2>1, Recursion
<1>5. Eq(f)
  <2>1. f = [s \in 0..NbOfRBs |-> f[s]]
    OBVIOUS
  <2>2. ASSUME NEW s \in 1..NbOfRBs
        PROVE  f[s] = T(f[s - 1], s - 1)
    <3>1. f[s - 1] \in Allocations(flows)
      BY <1>1
    <3>2. f[s] = step[s][f[s - 1]]
      BY <1>4 DEF Iterates
    <3> QED
      BY <3>1, <3>2
  <2>3. f[0] = start
    BY <1>4 DEF Iterates
  <2>4. \A s \in 0..NbOfRBs : f[s] = IF s = 0 THEN start ELSE T(f[s - 1], s - 1)
    BY <1>1, <2>2, <2>3
  <2> QED
    BY <2>1, <2>4
<1>6. PICK g : g = CHOOSE h : Eq(h)
  OBVIOUS
<1>7. Eq(g)
  <2> HIDE DEF Eq
  <2> QED
    BY <1>5, <1>6
<1>8. RBsAllocation(flows, data, rank, first) = g[NbOfRBs]
  BY <1>6 DEF RBsAllocation, start, T
<1>9. g[0] = start /\ \A s \in 1..NbOfRBs : g[s] = T(g[s - 1], s - 1)
  <2>1. 0 \in 0..NbOfRBs /\ \A s \in 1..NbOfRBs : s \in 0..NbOfRBs /\ s # 0
    BY <1>1
  <2>2. \A s \in 0..NbOfRBs : g[s] = IF s = 0 THEN start ELSE T(g[s - 1], s - 1)
    BY <1>7
  <2> QED
    BY <2>1, <2>2
<1>10. \A s \in 0..NbOfRBs : IsGiven(g[s], flows, data, first, s)
  <2> DEFINE S == {s \in 0..NbOfRBs : IsGiven(g[s], flows, data, first, s)}
             k == [s \in 0..NbOfRBs |-> s]
  <2>1. k[0] \in S
    BY <1>1, <1>2, <1>9
  <2>2. ASSUME NEW s \in 1..NbOfRBs, k[s - 1] \in S
        PROVE  k[s] \in S
    <3>1. s - 1 \in 0..NbOfRBs /\ s \in 0..NbOfRBs
      BY <1>1
    <3>2. IsGiven(g[s - 1], flows, data, first, s - 1)
      BY <2>2, <3>1
    <3>3. g[s - 1] \in Allocations(flows)
      BY <3>2 DEF IsGiven
    <3>4. IsGiven(T(g[s - 1], s - 1), flows, data, first, s)
      BY <1>3, <3>2, <3>3
    <3> QED
      BY <1>9, <3>1, <3>4
  <2>3. \A s \in 0..NbOfRBs : k[s] \in S
    <3> HIDE DEF S, k
    <3> QED
      BY <1>1, <2>1, <2>2, Along
  <2> QED
    BY <2>3
<1> QED
  BY <1>1, <1>8, <1>10

\* What a pass that began at RB first has given, none of it if it has no flows.
IsPass(a, flows, data, first) ==
    /\ DOMAIN a.rbs = flows /\ a.free \in 0..NbOfRBs
    /\ \A b \in flows : /\ a.rbs[b] \in SUBSET RBs
                         /\ \A rb \in a.rbs[b] : first <= rb /\ rb < a.free
    /\ \A b, c \in flows : b # c => a.rbs[b] \cap a.rbs[c] = {}
    /\ a.free < NbOfRBs => \A b \in flows : Served(b, a.rbs[b], data[b])

\* What a pass may give its flows, whatever their metrics are.
LEMMA PassIs ==
    ASSUME NEW flows \in SUBSET Bearers, NEW data, NEW first \in 0..NbOfRBs,
           NEW a \in Pass(flows, data, first)
    PROVE  IsPass(a, flows, data, first)
<1>1. NbOfRBs \in Nat
  BY FlsAssumption
<1>2. CASE flows = {}
  <2>1. a.rbs = <<>> /\ a.free = first
    BY <1>2 DEF Pass
  <2>2. DOMAIN a.rbs = {}
    BY <2>1
  <2> QED
    BY <1>2, <2>1, <2>2 DEF IsPass
<1>3. CASE flows # {}
  <2>1. PICK rank \in [RBs -> Orders(flows)] :
            a = RBsAllocation(flows, data, rank, first)
    BY <1>3 DEF Pass
  <2>2. IsGiven(a, flows, data, first, NbOfRBs)
    BY <1>1, <2>1, RBsAllocationIs
  <2>3. a.rbs \in [flows -> SUBSET RBs] /\ a.free \in 0..NbOfRBs
    BY <2>2 DEF IsGiven, Allocations
  <2> QED
    BY <2>2, <2>3 DEF IsGiven, IsPass
<1> QED
  BY <1>2, <1>3

-----------------------------------------------------------------------------
(***************************************************************************)
(* The bursts                                                              *)
(***************************************************************************)

\* A burst gives no RB twice.
BurstRight(x) ==
    /\ \A b \in DOMAIN x.rbs : x.rbs[b] \in SUBSET RBs
    /\ \A b, c \in DOMAIN x.rbs : b # c => x.rbs[b] \cap x.rbs[c] = {}

\* The second burst x of a TTI comes after y: it is marked, and has no RB of y, which
\* serves its flows.
Follows(x, y) ==
    /\ x.second
    /\ \A b \in DOMAIN x.rbs, c \in DOMAIN y.rbs : x.rbs[b] \cap y.rbs[c] = {}
    /\ \A c \in DOMAIN y.rbs : Served(c, y.rbs[c], y.data[c])

\* What every UE looks at when the bursts are sent, with the two exceptions.
LooksRight(bursts, channels) ==
    \A u \in UEs :
        \/ channels[u] = MapOf(bursts[1].rbs)[u]
        \/ Len(bursts) = 2 /\ MapOf(bursts[2].rbs)[u] # {}
        \/ bursts[1].second

\* There are at most two bursts.
AirRight(bursts, channels) ==
    /\ channels \in [UEs -> SUBSET RBs]
    /\ \/ bursts = <<>> /\ \A u \in UEs : channels[u] = {}
       \/ \E y : bursts = <<y>> /\ BurstRight(y) /\ LooksRight(bursts, channels)
       \/ \E x, y : /\ bursts = <<y, x>> /\ BurstRight(x) /\ BurstRight(y)
                    /\ Follows(x, y) /\ LooksRight(bursts, channels)

\* The map of a pass names RBs of the cell.
LEMMA MapIs ==
    ASSUME NEW a, NEW flows, NEW data, NEW first, IsPass(a, flows, data, first)
    PROVE  /\ MapOf(a.rbs) \in [UEs -> SUBSET RBs]
           /\ flows = {} => \A u \in UEs : MapOf(a.rbs)[u] = {}
<1>1. DOMAIN a.rbs = flows /\ \A b \in flows : a.rbs[b] \in SUBSET RBs
  BY DEF IsPass
<1>2. ASSUME NEW u \in UEs
      PROVE  MapOf(a.rbs)[u] \in SUBSET RBs /\ (flows = {} => MapOf(a.rbs)[u] = {})
  <2>1. MapOf(a.rbs)[u] =
            UNION {a.rbs[b] : b \in {x \in flows : GetDestination[x] = u}}
    BY <1>1 DEF MapOf
  <2> QED
    BY <1>1, <2>1
<1>3. PICK map : map = MapOf(a.rbs)
  OBVIOUS
<1>4. map = [u \in UEs |-> map[u]]
  BY <1>3 DEF MapOf
<1> QED
  BY <1>2, <1>3, <1>4

\* Lists of at most one element, one after the other.
LEMMA ShortLists ==
    ASSUME NEW x, NEW y
    PROVE  /\ <<>> \o <<>> = <<>> /\ <<>> \o <<x>> = <<x>>
           /\ <<y>> \o <<>> = <<y>> /\ <<y>> \o <<x>> = <<y, x>>
<1>1. PICK T : T = {x, y}
  OBVIOUS
<1>2. <<>> \in Seq(T) /\ <<x>> \in Seq(T) /\ <<y>> \in Seq(T) /\ <<y, x>> \in Seq(T)
  BY <1>1
<1>3. <<>> \o <<>> = <<>> /\ <<>> \o <<x>> = <<x>> /\ <<y>> \o <<>> = <<y>>
  BY <1>2, ConcatEmptySeq
<1>4. PICK a \in Seq(T), b \in Seq(T) : a = <<y>> /\ b = <<x>>
  BY <1>2
<1>5. PICK s : s = a \o b
  OBVIOUS
<1>6. s \in Seq(T) /\ Len(s) = 2 /\ s[1] = y /\ s[2] = x
  <2>1. Len(a) = 1 /\ a[1] = y /\ Len(b) = 1 /\ b[1] = x
    BY <1>4
  <2>2. /\ s \in Seq(T) /\ Len(s) = Len(a) + Len(b)
        /\ \A i \in 1..(Len(a) + Len(b)) : s[i] = IF i <= Len(a) THEN a[i] ELSE b[i - Len(a)]
    BY <1>5, ConcatProperties
  <2>3. /\ s \in Seq(T) /\ Len(s) = 1 + 1
        /\ \A i \in 1..(1 + 1) : s[i] = IF i <= 1 THEN a[i] ELSE b[i - 1]
    BY <2>1, <2>2
  <2> QED
    BY <2>1, <2>3
<1>7. s = <<y, x>>
  BY <1>2, <1>6
<1> QED
  BY <1>3, <1>4, <1>5, <1>7

\* The bursts of a call and what the UEs look at, if they looked at nothing before.
LEMMA BurstsAre ==
    ASSUME NEW rt \in SUBSET RealTime, NEW be \in SUBSET BestEffort, NEW data, NEW waiting,
           NEW one, NEW two, IsPass(one, rt, data, 0), IsPass(two, be, waiting, one.free),
           be # {} => one.free < NbOfRBs,
           NEW channels \in [UEs -> SUBSET RBs], \A u \in UEs : channels[u] = {}
    PROVE  AirRight(Burst(one.rbs, data, FALSE) \o Burst(two.rbs, waiting, rt # {}),
                    Looks(Looks(channels, MapOf(one.rbs)), MapOf(two.rbs)))
<1>1. PICK y : y = [rbs |-> one.rbs, data |-> [b \in DOMAIN one.rbs |-> data[b]],
                    second |-> FALSE]
  OBVIOUS
<1>2. PICK x : x = [rbs |-> two.rbs, data |-> [b \in DOMAIN two.rbs |-> waiting[b]],
                    second |-> rt # {}]
  OBVIOUS
<1>3. PICK m1, m2 : m1 = MapOf(one.rbs) /\ m2 = MapOf(two.rbs)
  OBVIOUS
<1>4. PICK ch : ch = Looks(Looks(channels, m1), m2)
  OBVIOUS
<1>5. m1 \in [UEs -> SUBSET RBs] /\ m2 \in [UEs -> SUBSET RBs]
  BY <1>3, MapIs
<1>6. \A u \in UEs : ch[u] = IF m2[u] # {} THEN m2[u] ELSE m1[u]
  BY <1>4 DEF Looks
<1>7. ch \in [UEs -> SUBSET RBs]
  <2>1. ch = [u \in UEs |-> ch[u]]
    BY <1>4 DEF Looks
  <2>2. \A u \in UEs : ch[u] \in SUBSET RBs
    BY <1>5, <1>6
  <2> QED
    BY <2>1, <2>2
<1>8. BurstRight(y) /\ BurstRight(x)
  BY <1>1, <1>2 DEF BurstRight, IsPass
<1>9. /\ DOMAIN one.rbs = rt /\ DOMAIN two.rbs = be
      /\ Burst(one.rbs, data, FALSE) = IF rt = {} THEN <<>> ELSE <<y>>
      /\ Burst(two.rbs, waiting, rt # {}) = IF be = {} THEN <<>> ELSE <<x>>
  BY <1>1, <1>2 DEF IsPass, Burst
<1>10. PICK bursts :
          /\ bursts = Burst(one.rbs, data, FALSE) \o Burst(two.rbs, waiting, rt # {})
          /\ bursts = (IF rt = {} THEN <<>> ELSE <<y>>) \o (IF be = {} THEN <<>> ELSE <<x>>)
  BY <1>9
<1>11. rt = {} => \A u \in UEs : m1[u] = {}
  BY <1>3, MapIs
<1>12. be = {} => \A u \in UEs : m2[u] = {}
  BY <1>3, MapIs
<1>13. CASE rt = {} /\ be = {}
  <2>1. bursts = <<>>
    BY <1>10, <1>13, ShortLists
  <2>2. \A u \in UEs : ch[u] = {}
    BY <1>6, <1>11, <1>12, <1>13
  <2>3. AirRight(bursts, ch)
    BY <1>7, <2>1, <2>2 DEF AirRight
  <2> QED
    BY <1>3, <1>4, <1>10, <2>3
<1>14. CASE rt = {} /\ be # {}
  <2>1. bursts = <<x>>
    BY <1>10, <1>14, ShortLists
  <2>2. bursts[1].rbs = two.rbs
    BY <1>2, <2>1
  <2>3. \A u \in UEs : ch[u] = m2[u]
    BY <1>6, <1>11, <1>14
  <2>4. LooksRight(bursts, ch)
    BY <1>3, <2>2, <2>3 DEF LooksRight
  <2>5. AirRight(bursts, ch)
    BY <1>7, <1>8, <2>1, <2>4 DEF AirRight
  <2> QED
    BY <1>3, <1>4, <1>10, <2>5
<1>15. CASE rt # {} /\ be = {}
  <2>1. bursts = <<y>>
    BY <1>10, <1>15, ShortLists
  <2>2. bursts[1].rbs = one.rbs
    BY <1>1, <2>1
  <2>3. \A u \in UEs : ch[u] = m1[u]
    BY <1>6, <1>12, <1>15
  <2>4. LooksRight(bursts, ch)
    BY <1>3, <2>2, <2>3 DEF LooksRight
  <2>5. AirRight(bursts, ch)
    BY <1>7, <1>8, <2>1, <2>4 DEF AirRight
  <2> QED
    BY <1>3, <1>4, <1>10, <2>5
<1>16. CASE rt # {} /\ be # {}
  <2>1. bursts = <<y, x>>
    BY <1>10, <1>16, ShortLists
  <2>2. bursts[1].rbs = one.rbs /\ bursts[2].rbs = two.rbs /\ Len(bursts) = 2
    BY <1>1, <1>2, <2>1
  <2>3. LooksRight(bursts, ch)
    <3> SUFFICES ASSUME NEW u \in UEs
                 PROVE  ch[u] = m1[u] \/ m2[u] # {}
      BY <1>3, <2>2 DEF LooksRight
    <3> QED
      BY <1>6
  <2>4. Follows(x, y)
    <3>1. x.second
      BY <1>2, <1>16
    <3>2. ASSUME NEW b \in be, NEW c \in rt
          PROVE  two.rbs[b] \cap one.rbs[c] = {}
      <4> SUFFICES ASSUME NEW rb \in two.rbs[b], rb \in one.rbs[c]
                   PROVE  FALSE
        OBVIOUS
      <4>1. one.free <= rb /\ rb < one.free /\ rb \in RBs /\ one.free \in 0..NbOfRBs
        BY DEF IsPass
      <4>2. rb \in Int /\ one.free \in Int
        BY <4>1, FlsAssumption DEF RBs
      <4> QED
        BY <4>1, <4>2
    <3>3. \A c \in rt : Served(c, one.rbs[c], data[c])
      BY <1>16 DEF IsPass
    <3> QED
      BY <1>1, <1>2, <1>9, <3>1, <3>2, <3>3 DEF Follows
  <2>5. AirRight(bursts, ch)
    BY <1>7, <1>8, <2>1, <2>3, <2>4 DEF AirRight
  <2> QED
    BY <1>3, <1>4, <1>10, <2>5
<1> QED
  BY <1>13, <1>14, <1>15, <1>16

\* The next burst is received.
LEMMA ReceivedAre ==
    ASSUME NEW bursts, NEW channels, AirRight(bursts, channels), bursts # <<>>
    PROVE  AirRight(Tail(bursts), [u \in UEs |-> {}])
<1>1. PICK ch : ch = [u \in UEs |-> {}]
  OBVIOUS
<1>2. ch \in [UEs -> SUBSET RBs] /\ \A u \in UEs : ch[u] = {}
  BY <1>1
<1>3. CASE \E y : bursts = <<y>>
  <2>1. Tail(bursts) = <<>>
    BY <1>3
  <2> QED
    BY <1>1, <1>2, <2>1 DEF AirRight
<1>4. CASE \E x, y : bursts = <<y, x>> /\ BurstRight(x) /\ Follows(x, y)
  <2>1. PICK x, y : bursts = <<y, x>> /\ BurstRight(x) /\ Follows(x, y)
    BY <1>4
  <2>2. PICK t : t = Tail(bursts)
    OBVIOUS
  <2>3. t = <<x>> /\ t[1] = x
    BY <2>1, <2>2
  <2>4. LooksRight(t, ch)
    BY <2>1, <2>3 DEF LooksRight, Follows
  <2>5. AirRight(t, ch)
    BY <1>2, <2>1, <2>3, <2>4 DEF AirRight
  <2> QED
    BY <1>1, <2>2, <2>5
<1> QED
  BY <1>3, <1>4 DEF AirRight

\* What the properties say of the bursts.
LEMMA AirMeaning ==
    ASSUME AirRight(air, m_channelsForRx)
    PROVE  BestEffortGetsLeftovers /\ CheckedOnOwnRBs /\ Len(air) <= 2
<1>1. CASE air = <<>>
  BY <1>1 DEF BestEffortGetsLeftovers, CheckedOnOwnRBs
<1>2. ASSUME NEW y, air = <<y>>, BurstRight(y), LooksRight(air, m_channelsForRx)
      PROVE  BestEffortGetsLeftovers /\ CheckedOnOwnRBs /\ Len(air) <= 2
  <2>1. Len(air) = 1 /\ DOMAIN air = {1} /\ air[1] = y
    BY <1>2
  <2>2. BestEffortGetsLeftovers
    BY <1>2, <2>1 DEF BestEffortGetsLeftovers, BurstRight
  <2> QED
    BY <1>2, <2>1, <2>2 DEF CheckedOnOwnRBs, LooksRight
<1>3. ASSUME NEW x, NEW y, air = <<y, x>>, BurstRight(x), BurstRight(y), Follows(x, y),
             LooksRight(air, m_channelsForRx)
      PROVE  BestEffortGetsLeftovers /\ CheckedOnOwnRBs /\ Len(air) <= 2
  <2>1. Len(air) = 2 /\ DOMAIN air = {1, 2} /\ air[1] = y /\ air[2] = x
    BY <1>3
  <2>2. BestEffortGetsLeftovers
    <3>1. ASSUME NEW i \in DOMAIN air, NEW j \in DOMAIN air,
                 NEW b \in DOMAIN air[i].rbs, NEW c \in DOMAIN air[j].rbs,
                 <<i, b>> # <<j, c>>
          PROVE  air[i].rbs[b] \cap air[j].rbs[c] = {}
      <4>1. CASE i = j
        BY <1>3, <2>1, <3>1, <4>1 DEF BurstRight
      <4>2. CASE i = 1 /\ j = 2
        BY <1>3, <2>1, <4>2 DEF Follows
      <4>3. CASE i = 2 /\ j = 1
        BY <1>3, <2>1, <4>3 DEF Follows
      <4> QED
        BY <2>1, <4>1, <4>2, <4>3
    <3>2. \A b \in DOMAIN air[1].rbs : Served(b, air[1].rbs[b], air[1].data[b])
      BY <1>3, <2>1 DEF Follows
    <3> QED
      BY <3>1, <3>2 DEF BestEffortGetsLeftovers
  <2> QED
    BY <1>3, <2>1, <2>2 DEF CheckedOnOwnRBs, LooksRight
<1> QED
  BY <1>1, <1>2, <1>3 DEF AirRight

-----------------------------------------------------------------------------
(***************************************************************************)
(* The inductive invariant                                                 *)
(***************************************************************************)

\* The control law runs in the call that finds the counter at 0.
ClockRight ==
    /\ m_subFrameCounter \in 0..9
    /\ m_runControlLaw \in BOOLEAN
    /\ m_runControlLaw <=> m_subFrameCounter = 0

StateRight ==
    /\ scenario \in Scenarios
    /\ m_nodeState \in [UEs -> {"ACTIVE", "INACTIVE"}]
    /\ m_queue \in [RealTime -> Queues]
    /\ m_q \in [RealTime -> Memory] /\ m_u \in [RealTime -> Memory]

NumbersRight ==
    /\ m_dataToTransmit \in [RealTime -> Nat]
    /\ m_transmittedBytes \in [RealTime -> Nat]
    /\ quota \in [RealTime -> Nat]
    /\ granted \in [RealTime -> Nat]
    /\ waited \in [RealTime -> Nat]

\* A quota that is not used up is what of the bearer's bytes in this frame, the last
\* call excepted, has not been granted.
QuotaRight ==
    \A b \in RealTime :
        /\ m_transmittedBytes[b] <= granted[b]
        /\ m_transmittedBytes[b] > 0 => m_dataToTransmit[b] > 0
        /\ m_dataToTransmit[b] > 0 =>
                granted[b] - m_transmittedBytes[b] + m_dataToTransmit[b] = quota[b]

\* A bearer with packets has waited no longer than since the law ran.
WaitRight ==
    \A b \in RealTime :
        waited[b] <= IF m_subFrameCounter = 0 THEN 9 ELSE m_subFrameCounter - 1

IInv ==
    /\ ClockRight /\ StateRight /\ NumbersRight /\ QuotaRight /\ WaitRight
    /\ AirRight(air, m_channelsForRx)

\* The parts of the invariant say of the next state what they say of this one.
LEMMA AirRightNext ==
    (AirRight(air, m_channelsForRx))' <=> AirRight(air', m_channelsForRx')
  BY DEF AirRight, BurstRight, Follows, LooksRight, MapOf, Served, RBs

\* The scenario begins with empty queues, and no bearer has a quota.
LEMMA InitRight == Init => IInv
<1> SUFFICES ASSUME Init
             PROVE  IInv
  OBVIOUS
<1>1. M \in Nat /\ M >= 3
  BY FlsAssumption
<1>2. ClockRight
  BY DEF Init, ClockRight
<1>3. Zeros \in Memory
  BY <1>1 DEF Zeros, Memory
<1>4. StateRight
  BY <1>3, EmptyQueueIs DEF Init, StateRight
<1>5. NumbersRight /\ QuotaRight /\ WaitRight
  BY DEF Init, NumbersRight, QuotaRight, WaitRight
<1>6. AirRight(air, m_channelsForRx)
  BY DEF Init, AirRight
<1> QED
  BY <1>2, <1>4, <1>5, <1>6 DEF IInv

\* A packet of an application joins a queue and changes nothing else.
LEMMA ApplicationSendsRight ==
    ASSUME IInv, NEW b \in RealTime, NEW size \in scenario.offered[b].sizes,
           ApplicationSends(b, size)
    PROVE  IInv'
<1>1. size \in Nat /\ size > 0
  <2>1. scenario.offered \in [RealTime -> [sizes : SUBSET (Nat \ {0}), max : 0..MaxWaiting]]
    BY FlsAssumption DEF IInv, StateRight
  <2> QED
    BY <2>1
<1>2. PICK q \in Queues : q = m_queue[b]
  BY DEF IInv, StateRight
<1>3. Enqueue(q, Packet(0, size)) \in Queues
  BY <1>1, EnqueueIs
<1>4. m_queue' \in [RealTime -> Queues]
  BY <1>2, <1>3 DEF ApplicationSends, IInv, StateRight
<1>5. StateRight'
  BY <1>4 DEF ApplicationSends, IInv, StateRight, scheduler
<1>6. (ClockRight /\ NumbersRight /\ QuotaRight /\ WaitRight)'
  BY DEF ApplicationSends, IInv, ClockRight, NumbersRight, QuotaRight, WaitRight, scheduler
<1>7. AirRight(air', m_channelsForRx')
  BY DEF ApplicationSends, IInv
<1> QED
  BY <1>5, <1>6, <1>7, AirRightNext DEF IInv

\* A UE that falls asleep or wakes up changes nothing the invariant is about.
LEMMA SetNodeStateRight ==
    ASSUME IInv, NEW u \in UEs, SetNodeState(u)
    PROVE  IInv'
<1>1. StateRight'
  BY DEF SetNodeState, IInv, StateRight, scheduler
<1>2. (ClockRight /\ NumbersRight /\ QuotaRight /\ WaitRight)'
  BY DEF SetNodeState, IInv, ClockRight, NumbersRight, QuotaRight, WaitRight, scheduler
<1>3. AirRight(air', m_channelsForRx')
  BY DEF SetNodeState, IInv
<1> QED
  BY <1>1, <1>2, <1>3, AirRightNext DEF IInv

\* The first burst is received, every UE forgets its RBs, and the second comes next.
LEMMA StartRxRight ==
    ASSUME IInv, StartRx
    PROVE  IInv'
<1>1. StateRight'
  BY DEF StartRx, IInv, StateRight, scheduler
<1>2. (ClockRight /\ NumbersRight /\ QuotaRight /\ WaitRight)'
  BY DEF StartRx, IInv, ClockRight, NumbersRight, QuotaRight, WaitRight, scheduler
<1>3. AirRight(Tail(air), [u \in UEs |-> {}])
  BY ReceivedAre DEF StartRx, IInv
<1>4. AirRight(air', m_channelsForRx')
  BY <1>3 DEF StartRx
<1> QED
  BY <1>1, <1>2, <1>4, AirRightNext DEF IInv

\* The counter of the calls goes round.
LEMMA RoundIs ==
    ASSUME NEW n \in 0..9
    PROVE  (n + 1) % 10 = IF n = 9 THEN 0 ELSE n + 1
<1>1. PICK m \in Nat : m = n + 1 /\ m \in 1..10
  OBVIOUS
<1>2. m % 10 = IF m = 10 THEN 0 ELSE m
  BY <1>1
<1> QED
  BY <1>1, <1>2

\* A call of the scheduler.
LEMMA DoScheduleRight ==
    ASSUME IInv, NEW drops \in [RealTime -> 0..MaxWaiting],
           NEW waiting \in [BestEffort -> Waiting], DoSchedule(drops, waiting)
    PROVE  IInv'
<1> DEFINE law == m_runControlLaw
           queue == [b \in RealTime |-> CheckForDropPackets(m_queue[b], drops[b])]
           data == [b \in RealTime |->
                        IF law THEN RunControlLaw(queue[b], m_q[b], m_u[b]) ELSE Debited(b)]
           rt == Select_RT_FlowsToSchedule(queue, data)
           be == Select_NRT_FlowsToSchedule(waiting)
           flows(one) == IF one.free = NbOfRBs THEN {} ELSE be
<1>0. ClockRight /\ StateRight /\ NumbersRight /\ QuotaRight /\ WaitRight
  BY DEF IInv
<1>1. \A b \in RealTime : queue[b] \in Queues
  <2> SUFFICES ASSUME NEW b \in RealTime
               PROVE  CheckForDropPackets(m_queue[b], drops[b]) \in Queues
    OBVIOUS
  <2>1. drops[b] <= Len(m_queue[b].elements)
    BY DEF DoSchedule
  <2>2. PICK q \in Queues, n \in Nat : q = m_queue[b] /\ n = drops[b]
    BY <1>0, FlsAssumption DEF StateRight
  <2> QED
    BY <2>1, <2>2, CheckForDropPacketsIs
<1>2. ASSUME NEW b \in RealTime
      PROVE  data[b] \in Nat /\ (law /\ queue[b].elements # <<>> => data[b] > 0)
  <2> HIDE DEF queue
  <2>1. m_q[b] \in Memory /\ m_u[b] \in Memory /\ queue[b] \in Queues
    BY <1>0, <1>1 DEF StateRight
  <2>2. /\ RunControlLaw(queue[b], m_q[b], m_u[b]) \in Nat
        /\ queue[b].elements # <<>> => RunControlLaw(queue[b], m_q[b], m_u[b]) > 0
    BY <2>1, RunControlLawIs
  <2>3. Debited(b) \in Nat
    BY <1>0 DEF NumbersRight, Debited
  <2> QED
    BY <2>2, <2>3
<1>3. /\ m_dataToTransmit' = data
      /\ quota' = IF law THEN data ELSE quota
      /\ granted' = [b \in RealTime |->
                        (IF law THEN 0 ELSE granted[b]) + m_transmittedBytes'[b]]
      /\ waited' = [b \in RealTime |->
                IF queue[b].elements # <<>> /\ data[b] = 0 THEN waited[b] + 1 ELSE 0]
      /\ m_queue' = [b \in RealTime |-> FillBurst(queue[b], m_transmittedBytes'[b]).queue]
  BY DEF DoSchedule
<1>4. /\ m_q' = [b \in RealTime |->
                IF law THEN Shift(m_q[b], QueueSizeWithOverhead(queue[b])) ELSE m_q[b]]
      /\ m_u' = [b \in RealTime |-> IF law THEN Shift(m_u[b], data[b]) ELSE m_u[b]]
      /\ m_subFrameCounter' = (m_subFrameCounter + 1) % 10
      /\ m_runControlLaw' = (m_subFrameCounter + 1 = 10)
      /\ scenario' = scenario /\ m_nodeState' = m_nodeState /\ air = <<>>
  BY DEF DoSchedule
<1>5. PICK one \in Pass(rt, data, 0) : \E two \in Pass(flows(one), waiting, one.free) :
        /\ m_transmittedBytes' = [b \in RealTime |-> Block(b, one.rbs)]
        /\ air' = Burst(one.rbs, data, FALSE) \o Burst(two.rbs, waiting, rt # {})
        /\ m_channelsForRx' =
                Looks(Looks(m_channelsForRx, MapOf(one.rbs)), MapOf(two.rbs))
  BY DEF DoSchedule
<1>6. rt \in SUBSET RealTime /\ be \in SUBSET BestEffort /\ \A b \in rt : data[b] > 0
  BY DEF Select_RT_FlowsToSchedule, Select_NRT_FlowsToSchedule
<1> HIDE DEF law, queue, data, rt, be
<1>7. PICK two \in Pass(flows(one), waiting, one.free) :
        /\ m_transmittedBytes' = [b \in RealTime |-> Block(b, one.rbs)]
        /\ air' = Burst(one.rbs, data, FALSE) \o Burst(two.rbs, waiting, rt # {})
        /\ m_channelsForRx' =
                Looks(Looks(m_channelsForRx, MapOf(one.rbs)), MapOf(two.rbs))
  BY <1>5
<1>8. IsPass(one, rt, data, 0)
  <2>1. rt \in SUBSET Bearers /\ 0 \in 0..NbOfRBs
    BY <1>6, FlsAssumption DEF Bearers
  <2> QED
    BY <2>1, PassIs
<1>9. PICK nrt : nrt = flows(one)
  OBVIOUS
<1>10. nrt \in SUBSET BestEffort /\ (nrt # {} => one.free # NbOfRBs)
  BY <1>6, <1>9
<1> HIDE DEF flows
<1>11. IsPass(two, nrt, waiting, one.free)
  <2>1. nrt \in SUBSET Bearers /\ one.free \in 0..NbOfRBs
    BY <1>8, <1>10 DEF Bearers, IsPass
  <2> QED
    BY <1>9, <2>1, PassIs
<1>12. ASSUME NEW b \in RealTime
       PROVE  /\ m_transmittedBytes'[b] \in Nat
              /\ m_transmittedBytes'[b] > 0 => data[b] > 0
  <2>1. m_transmittedBytes'[b] = Block(b, one.rbs)
    BY <1>7
  <2>2. DOMAIN one.rbs = rt /\ \A c \in rt : one.rbs[c] \in SUBSET RBs
    BY <1>8 DEF IsPass
  <2>3. CASE b \in rt /\ one.rbs[b] # {}
    <3>1. b \in Bearers /\ one.rbs[b] \in SUBSET RBs
      BY <2>2, <2>3 DEF Bearers
    <3>2. TBSize[b][one.rbs[b]] \in Nat
      BY <2>3, <3>1, BlocksAre
    <3> QED
      BY <1>6, <2>1, <2>2, <2>3, <3>2 DEF Block
  <2>4. CASE ~ (b \in rt /\ one.rbs[b] # {})
    <3>1. m_transmittedBytes'[b] = 0
      BY <2>1, <2>2, <2>4 DEF Block
    <3> QED
      BY <3>1
  <2> QED
    BY <2>3, <2>4
<1>13. AirRight(air', m_channelsForRx')
  <2>1. /\ m_channelsForRx \in [UEs -> SUBSET RBs]
        /\ \A u \in UEs : m_channelsForRx[u] = {}
    BY <1>4 DEF IInv, AirRight
  <2>2. nrt # {} => one.free < NbOfRBs
    <3>1. one.free \in 0..NbOfRBs
      BY <1>8 DEF IsPass
    <3>2. NbOfRBs \in Nat
      BY FlsAssumption
    <3> QED
      BY <1>10, <3>1, <3>2
  <2> QED
    BY <1>6, <1>7, <1>8, <1>10, <1>11, <2>1, <2>2, BurstsAre
<1>14. StateRight'
  <2>1. ASSUME NEW b \in RealTime
        PROVE  FillBurst(queue[b], m_transmittedBytes'[b]).queue \in Queues
    <3>1. FillBurst(queue[b], m_transmittedBytes'[b]) \in Bursts
      BY <1>1, <1>12, FillBurstIs
    <3> QED
      BY <3>1 DEF Bursts
  <2>2. m_queue' \in [RealTime -> Queues]
    BY <1>3, <2>1
  <2>3. ASSUME NEW b \in RealTime
        PROVE  /\ Shift(m_q[b], QueueSizeWithOverhead(queue[b])) \in Memory
               /\ Shift(m_u[b], data[b]) \in Memory
               /\ m_q[b] \in Memory /\ m_u[b] \in Memory
    <3>1. m_q[b] \in Memory /\ m_u[b] \in Memory
      BY <1>0 DEF StateRight
    <3>2. QueueSizeWithOverhead(queue[b]) \in Nat /\ data[b] \in Nat
      BY <1>1, <1>2, QueueSizeIs
    <3> QED
      BY <3>1, <3>2, ShiftIs
  <2>4. m_q' \in [RealTime -> Memory] /\ m_u' \in [RealTime -> Memory]
    BY <1>4, <2>3
  <2> QED
    BY <1>0, <1>4, <2>2, <2>4 DEF StateRight
<1>15. ClockRight'
  <2>1. m_subFrameCounter \in 0..9
    BY <1>0 DEF ClockRight
  <2>2. m_subFrameCounter' = IF m_subFrameCounter = 9 THEN 0 ELSE m_subFrameCounter + 1
    BY <1>4, <2>1, RoundIs
  <2>3. m_runControlLaw' \in BOOLEAN /\ (m_runControlLaw' <=> m_subFrameCounter = 9)
    <3>1. m_subFrameCounter + 1 = 10 <=> m_subFrameCounter = 9
      BY <2>1
    <3>2. m_runControlLaw' = (m_subFrameCounter + 1 = 10)
      BY <1>4
    <3> QED
      BY <3>1, <3>2, Zenon
  <2> QED
    BY <2>1, <2>2, <2>3 DEF ClockRight
<1>16. data \in [RealTime -> Nat]
  <2>1. data = [b \in RealTime |-> data[b]]
    BY DEF data
  <2> QED
    BY <1>2, <2>1
<1>17. NumbersRight'
  <2>1. m_transmittedBytes' \in [RealTime -> Nat]
    BY <1>7, <1>12
  <2>2. m_dataToTransmit' \in [RealTime -> Nat] /\ quota' \in [RealTime -> Nat]
    BY <1>0, <1>3, <1>16 DEF NumbersRight
  <2>3. granted' \in [RealTime -> Nat] /\ waited' \in [RealTime -> Nat]
    BY <1>0, <1>3, <1>12 DEF NumbersRight
  <2> QED
    BY <2>1, <2>2, <2>3 DEF NumbersRight
<1>18. QuotaRight'
  <2> SUFFICES ASSUME NEW b \in RealTime
               PROVE  /\ m_transmittedBytes'[b] <= granted'[b]
                      /\ m_transmittedBytes'[b] > 0 => data[b] > 0
                      /\ data[b] > 0 =>
                            granted'[b] - m_transmittedBytes'[b] + data[b] = quota'[b]
    BY <1>3 DEF QuotaRight
  <2>1. /\ m_transmittedBytes'[b] \in Nat /\ m_transmittedBytes[b] \in Nat
        /\ data[b] \in Nat /\ granted[b] \in Nat /\ quota[b] \in Nat
        /\ m_dataToTransmit[b] \in Nat
    BY <1>0, <1>2, <1>12 DEF NumbersRight
  <2>2. granted'[b] = (IF law THEN 0 ELSE granted[b]) + m_transmittedBytes'[b]
    BY <1>3
  <2>3. CASE law
    BY <1>3, <1>12, <2>1, <2>2, <2>3
  <2>4. CASE ~ law
    <3>1. data[b] = Debited(b)
      BY <2>4 DEF data
    <3>2. /\ m_transmittedBytes[b] <= granted[b]
          /\ m_dataToTransmit[b] > 0 =>
                granted[b] - m_transmittedBytes[b] + m_dataToTransmit[b] = quota[b]
      BY <1>0 DEF QuotaRight
    <3>3. data[b] > 0 => data[b] = m_dataToTransmit[b] - m_transmittedBytes[b]
      BY <3>1 DEF Debited
    <3>4. quota' = quota
      BY <1>3, <2>4
    <3> QED
      BY <1>12, <2>1, <2>2, <2>4, <3>2, <3>3, <3>4
  <2> QED
    BY <2>3, <2>4
<1>19. WaitRight'
  <2> SUFFICES ASSUME NEW b \in RealTime
               PROVE  waited'[b] <= IF m_subFrameCounter' = 0 THEN 9
                                    ELSE m_subFrameCounter' - 1
    BY DEF WaitRight
  <2>1. /\ waited[b] \in Nat /\ m_subFrameCounter \in 0..9
        /\ law <=> m_subFrameCounter = 0
        /\ waited[b] <= IF m_subFrameCounter = 0 THEN 9 ELSE m_subFrameCounter - 1
    BY <1>0 DEF NumbersRight, ClockRight, WaitRight, law
  <2>2. /\ waited'[b] \in {waited[b] + 1, 0}
        /\ m_subFrameCounter = 0 => waited'[b] = 0
    BY <1>2, <1>3, <2>1
  <2>3. m_subFrameCounter' = IF m_subFrameCounter = 9 THEN 0 ELSE m_subFrameCounter + 1
    BY <1>4, <2>1, RoundIs
  <2> QED
    BY <2>1, <2>2, <2>3
<1> QED
  BY <1>13, <1>14, <1>15, <1>17, <1>18, <1>19, AirRightNext DEF IInv

\* Every step keeps the invariant.
LEMMA StepRight == IInv /\ [Next]_vars => IInv'
<1> SUFFICES ASSUME IInv, [Next]_vars
             PROVE  IInv'
  OBVIOUS
<1>1. ASSUME NEW b \in RealTime, NEW size \in scenario.offered[b].sizes,
             ApplicationSends(b, size)
      PROVE  IInv'
  BY <1>1, ApplicationSendsRight
<1>2. ASSUME NEW u \in scenario.sleepers, SetNodeState(u)
      PROVE  IInv'
  <2>1. u \in UEs
    BY FlsAssumption DEF IInv, StateRight
  <2> QED
    BY <1>2, <2>1, SetNodeStateRight
<1>3. ASSUME NEW drops \in [RealTime -> 0..MaxWaiting],
             NEW waiting \in [BestEffort -> Waiting], DoSchedule(drops, waiting)
      PROVE  IInv'
  BY <1>3, DoScheduleRight
<1>4. CASE StartRx
  BY <1>4, StartRxRight
<1>5. CASE UNCHANGED vars
  <2>1. (ClockRight /\ StateRight /\ NumbersRight /\ QuotaRight /\ WaitRight)'
    BY <1>5 DEF IInv, ClockRight, StateRight, NumbersRight, QuotaRight, WaitRight, vars,
                scheduler
  <2>2. AirRight(air', m_channelsForRx')
    BY <1>5 DEF IInv, vars
  <2> QED
    BY <2>1, <2>2, AirRightNext DEF IInv
<1> QED
  BY <1>1, <1>2, <1>3, <1>4, <1>5 DEF Next

\* What the invariant says in the words of the runs.
LEMMA Meaning ==
    IInv => /\ TypeOK /\ BestEffortGetsLeftovers /\ QuotaKept
            /\ WaitsLessThanAFrame /\ CheckedOnOwnRBs
<1> SUFFICES ASSUME IInv
             PROVE  /\ TypeOK /\ BestEffortGetsLeftovers /\ QuotaKept
                    /\ WaitsLessThanAFrame /\ CheckedOnOwnRBs
  OBVIOUS
<1>1. BestEffortGetsLeftovers /\ CheckedOnOwnRBs /\ Len(air) <= 2
  BY AirMeaning DEF IInv
<1>2. TypeOK
  <2>1. \A b \in RealTime : CountersAgree(m_queue[b]) /\ OnlyHeadIsFragmented(m_queue[b])
    BY DEF IInv, StateRight, Queues
  <2>2. m_channelsForRx \in [UEs -> SUBSET RBs]
    BY DEF IInv, AirRight
  <2> QED
    BY <1>1, <2>1, <2>2 DEF IInv, TypeOK, StateRight, NumbersRight, ClockRight, Memory
<1>3. QuotaKept
  <2> SUFFICES ASSUME NEW b \in RealTime, m_transmittedBytes[b] > 0
               PROVE  granted[b] - m_transmittedBytes[b] < quota[b]
    BY DEF QuotaKept
  <2>1. /\ m_transmittedBytes[b] \in Nat /\ granted[b] \in Nat
        /\ m_dataToTransmit[b] \in Nat /\ quota[b] \in Nat
    BY DEF IInv, NumbersRight
  <2>2. /\ m_dataToTransmit[b] > 0
        /\ granted[b] - m_transmittedBytes[b] + m_dataToTransmit[b] = quota[b]
    BY DEF IInv, QuotaRight
  <2> QED
    BY <2>1, <2>2
<1>4. WaitsLessThanAFrame
  <2> SUFFICES ASSUME NEW b \in RealTime
               PROVE  waited[b] < 10
    BY DEF WaitsLessThanAFrame
  <2>1. /\ waited[b] \in Nat /\ m_subFrameCounter \in 0..9
        /\ waited[b] <= IF m_subFrameCounter = 0 THEN 9 ELSE m_subFrameCounter - 1
    BY DEF IInv, NumbersRight, ClockRight, WaitRight
  <2> QED
    BY <2>1
<1> QED
  BY <1>1, <1>2, <1>3, <1>4

\* The state of the scheduler is inductive: what is left of a quota, how long a
\* bearer has waited, and what the bursts of the TTI give to whom.
THEOREM Invariant == Spec => []IInv
<1>1. Init => IInv
  BY InitRight
<1>2. IInv /\ [Next]_vars => IInv'
  BY StepRight
<1> QED
  BY <1>1, <1>2, PTL DEF Spec

\* The queues' counters agree with what waits, and every counter, quota and
\* remembered size is a number of bytes.
THEOREM Typed == Spec => []TypeOK
<1>1. IInv => TypeOK
  BY Meaning
<1> QED
  BY <1>1, Invariant, PTL

\* The passes of DoSchedule share the RBs of a TTI, and best effort gets what the
\* real-time bearers leave.
THEOREM Leftovers == Spec => []BestEffortGetsLeftovers
<1>1. IInv => BestEffortGetsLeftovers
  BY Meaning
<1> QED
  BY <1>1, Invariant, PTL

\* A block is given only while the quota of RunControlLaw is not used up.
THEOREM Quota == Spec => []QuotaKept
<1>1. IInv => QuotaKept
  BY Meaning
<1> QED
  BY <1>1, Invariant, PTL

\* RunControlLaw leaves no bearer with packets without a quota for a frame.
THEOREM Wait == Spec => []WaitsLessThanAFrame
<1>1. IInv => WaitsLessThanAFrame
  BY Meaning
<1> QED
  BY <1>1, Invariant, PTL

\* UePhy::StartRx checks a block on the RBs it was sent on, the two exceptions
\* granted.
THEOREM OwnRBs == Spec => []CheckedOnOwnRBs
<1>1. IInv => CheckedOnOwnRBs
  BY Meaning
<1> QED
  BY <1>1, Invariant, PTL
=============================================================================
