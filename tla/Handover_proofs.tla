--------------------------- MODULE Handover_proofs ---------------------------
(***************************************************************************)
(* A UE is registered, listens and is served in its target cell only, and  *)
(* the events that end its detachment, its activity and its handover are   *)
(* scheduled, for any number of UEs, cells and channels, whatever          *)
(* handovers, wake-ups and idle timers come in which order.                *)
(*                                                                         *)
(* A transfer stays ahead of the next position update of its UE in the     *)
(* calendar, so that the update that decides on a further handover sees    *)
(* the cell the last one led to: this is what makes the invariant          *)
(* inductive.                                                              *)
(***************************************************************************)
EXTENDS Handover, DataStructures_proofs, FiniteSetTheorems

-----------------------------------------------------------------------------
(***************************************************************************)
(* Device lists                                                            *)
(***************************************************************************)

\* The device d is in the list once at most.
AtMostOnce(list, d) ==
    \A i, j \in 1..Len(list) : list[i] = d /\ list[j] = d => i = j

\* Counting a device in a list.
LEMMA CountIs ==
    ASSUME NEW list \in Seq(Devices), NEW d
    PROVE  /\ Count(list, d) <= 1 <=> AtMostOnce(list, d)
           /\ Count(list, d) = 0 <=> ~Has(list, d)
           /\ Count(list, d) = 1 <=> AtMostOnce(list, d) /\ Has(list, d)
           /\ Count(list, d) \in Nat
<1>1. PICK S : S = {i \in 1..Len(list) : list[i] = d}
  OBVIOUS
<1>2. IsFiniteSet(1..Len(list)) /\ S \subseteq 1..Len(list)
  BY <1>1, FS_Interval
<1>3. IsFiniteSet(S) /\ Cardinality(S) \in Nat
  BY <1>2, FS_Subset, FS_CardinalityType
<1>4. Cardinality(S) = 0 <=> S = {}
  BY <1>3, FS_EmptySet
<1>5. Cardinality(S) = 1 <=> \E x : S = {x}
  BY <1>3, FS_Singleton
<1>6. S = {} <=> ~Has(list, d)
  BY <1>1 DEF Has
<1>7. (\E x : S = {x}) <=> S # {} /\ AtMostOnce(list, d)
  <2>1. ASSUME NEW x, S = {x}
        PROVE  S # {} /\ AtMostOnce(list, d)
    <3>1. x \in S /\ \A i \in S : i = x
      BY <2>1
    <3>2. ASSUME NEW i \in 1..Len(list), NEW j \in 1..Len(list), list[i] = d, list[j] = d
          PROVE  i = j
      <4>1. i \in S /\ j \in S
        BY <1>1, <3>2
      <4> QED
        BY <3>1, <4>1
    <3> QED
      BY <3>1, <3>2 DEF AtMostOnce
  <2>2. ASSUME NEW x \in S, AtMostOnce(list, d)
        PROVE  S = {x}
    BY <1>1, <2>2 DEF AtMostOnce
  <2> QED
    BY <2>1, <2>2
<1>8. S = {} => AtMostOnce(list, d)
  BY <1>1 DEF AtMostOnce
<1>9. Cardinality(S) <= 1 <=> Cardinality(S) = 0 \/ Cardinality(S) = 1
  BY <1>3
<1>10. Count(list, d) = Cardinality(S)
  BY <1>1 DEF Count
<1> QED
  BY <1>3, <1>4, <1>5, <1>6, <1>7, <1>8, <1>9, <1>10

\* The end of the list that belongs to the multicast destinations.
LEMMA MulticastTailIs ==
    ASSUME NEW list \in Seq(Devices)
    PROVE  /\ MulticastTail(list) \in 0..Len(list)
           /\ \A i \in (Len(list) - MulticastTail(list) + 1)..Len(list) :
                list[i] \in MulticastDestinations
           /\ MulticastTail(list) < Len(list) =>
                list[Len(list) - MulticastTail(list)] \notin MulticastDestinations
<1>1. PICK L \in Nat : L = Len(list)
  OBVIOUS
<1>2. PICK S : S = {i \in 1..L : \A j \in i..L : list[j] \in MulticastDestinations}
  OBVIOUS
<1>3. MulticastTail(list) = Cardinality(S)
  BY <1>1, <1>2 DEF MulticastTail
<1>4. CASE S = {}
  <2>1. Cardinality(S) = 0
    BY <1>4, FS_EmptySet
  <2>2. L > 0 => list[L] \notin MulticastDestinations
    BY <1>2, <1>4
  <2> QED
    BY <1>1, <1>3, <2>1, <2>2
<1>5. CASE S # {}
  <2>1. S \subseteq Nat
    BY <1>2
  <2>2. PICK m \in S : \A i \in S : m <= i
    BY <1>5, <2>1, LeastNatural
  <2>3. m \in 1..L /\ \A j \in m..L : list[j] \in MulticastDestinations
    BY <1>2
  <2>4. S = m..L
    BY <1>2, <2>2, <2>3
  <2>5. Cardinality(S) = L - m + 1
    BY <1>1, <2>3, <2>4, FS_Interval
  <2>6. m > 1 => list[m - 1] \notin MulticastDestinations
    <3> SUFFICES ASSUME m > 1, list[m - 1] \in MulticastDestinations
                 PROVE  FALSE
      OBVIOUS
    <3>1. m - 1 \in 1..L
      BY <2>3
    <3>2. \A j \in (m - 1)..L : j = m - 1 \/ j \in m..L
      BY <2>3
    <3>3. m - 1 \in S
      BY <1>2, <2>3, <3>1, <3>2
    <3> QED
      BY <2>2, <2>3, <3>3
  <2>7. L - Cardinality(S) + 1 = m /\ L - Cardinality(S) = m - 1
    BY <1>1, <2>3, <2>5
  <2> QED
    BY <1>1, <1>3, <2>3, <2>5, <2>6, <2>7
<1> QED
  BY <1>4, <1>5

\* A list with the device d inserted at the place p.
LEMMA InsertAtIs ==
    ASSUME NEW list \in Seq(Devices), NEW p \in 1..(Len(list) + 1), NEW d \in Devices
    PROVE  LET new == InsertAt(list, p, d) IN
           /\ new \in Seq(Devices)
           /\ Len(new) = Len(list) + 1
           /\ \A i \in 1..(p - 1) : new[i] = list[i]
           /\ new[p] = d
           /\ \A i \in (p + 1)..(Len(list) + 1) : new[i] = list[i - 1]
<1>1. PICK n \in Nat : n = Len(list)
  OBVIOUS
<1>2. PICK a : a = SubSeq(list, 1, p - 1)
  OBVIOUS
<1>3. PICK b : b = SubSeq(list, p, n)
  OBVIOUS
<1>4. a \in Seq(Devices) /\ Len(a) = p - 1 /\ \A i \in 1..(p - 1) : a[i] = list[i]
  BY <1>1, <1>2
<1>5. /\ b \in Seq(Devices) /\ Len(b) = n - p + 1
      /\ \A i \in 1..(n - p + 1) : b[i] = list[p + i - 1]
  BY <1>1, <1>3
<1>6. PICK c : c = a \o <<d>>
  OBVIOUS
<1>7. c \in Seq(Devices) /\ Len(c) = p /\ c[p] = d /\ \A i \in 1..(p - 1) : c[i] = list[i]
  <2>1. <<d>> \in Seq(Devices) /\ Len(<<d>>) = 1 /\ <<d>>[1] = d
    OBVIOUS
  <2> QED
    BY <1>4, <1>6, <2>1
<1>8. PICK new : new = c \o b
  OBVIOUS
<1>9. new \in Seq(Devices) /\ Len(new) = n + 1
  <2>1. new \in Seq(Devices)
    BY <1>5, <1>7, <1>8
  <2>2. Len(new) = Len(c) + Len(b)
    <3>1. c \in Seq(Devices) /\ b \in Seq(Devices)
      BY <1>5, <1>7
    <3> QED
      BY <3>1, <1>8
  <2> QED
    BY <1>1, <1>5, <1>7, <2>1, <2>2
<1>10. \A i \in 1..p : new[i] = c[i]
  BY <1>1, <1>5, <1>7, <1>8
<1>11. \A i \in (p + 1)..(n + 1) : new[i] = b[i - p]
  BY <1>1, <1>5, <1>7, <1>8
<1>12. ASSUME NEW i \in (p + 1)..(n + 1)
       PROVE  new[i] = list[i - 1]
  <2>1. i - p \in 1..(n - p + 1) /\ p + (i - p) - 1 = i - 1
    BY <1>1
  <2> QED
    BY <1>5, <1>11, <2>1
<1>13. InsertAt(list, p, d) = new
  BY <1>1, <1>2, <1>3, <1>6, <1>8 DEF InsertAt
<1>14. /\ new[p] = d
       /\ \A i \in 1..(p - 1) : new[i] = list[i]
  BY <1>1, <1>7, <1>10
<1> QED
  BY <1>1, <1>9, <1>12, <1>13, <1>14

\* Who is in it, and the order it keeps: a UE goes before the multicast
\* destinations, a multicast destination behind the UEs.
LEMMA InsertKeeps ==
    ASSUME NEW list \in Seq(Devices), NEW p \in 1..(Len(list) + 1), NEW d \in Devices
    PROVE  LET new == InsertAt(list, p, d) IN
           /\ new \in Seq(Devices)
           /\ \A x : Has(new, x) <=> x = d \/ Has(list, x)
           /\ \A x : AtMostOnce(list, x) /\ (x = d => ~Has(list, x)) => AtMostOnce(new, x)
           /\ (/\ UEsFirst(list)
               /\ d \in MulticastDestinations =>
                    \A i \in p..Len(list) : list[i] \in MulticastDestinations
               /\ d \notin MulticastDestinations =>
                    \A i \in 1..(p - 1) : list[i] \notin MulticastDestinations)
              => UEsFirst(new)
<1>1. PICK new : new = InsertAt(list, p, d)
  OBVIOUS
<1>2. PICK n \in Nat : n = Len(list)
  OBVIOUS
<1>3. /\ new \in Seq(Devices)
      /\ Len(new) = n + 1
      /\ \A i \in 1..(p - 1) : new[i] = list[i]
      /\ new[p] = d
      /\ \A i \in (p + 1)..(n + 1) : new[i] = list[i - 1]
  BY <1>1, <1>2, InsertAtIs
<1>4. ASSUME NEW i \in 1..(n + 1), i # p
      PROVE  \E a \in 1..n : new[i] = list[a] /\ (i < p => a = i) /\ (i > p => a = i - 1)
  <2>1. CASE i < p
    <3>1. i \in 1..n /\ new[i] = list[i]
      BY <1>2, <1>3, <2>1
    <3> QED
      BY <2>1, <3>1
  <2>2. CASE i > p
    <3>1. i - 1 \in 1..n /\ new[i] = list[i - 1]
      BY <1>2, <1>3, <2>2
    <3> QED
      BY <2>2, <3>1
  <2> QED
    BY <1>4, <2>1, <2>2
<1>5. ASSUME NEW x
      PROVE  Has(new, x) <=> x = d \/ Has(list, x)
  <2>1. ASSUME NEW i \in 1..(n + 1), new[i] = x, x # d
        PROVE  \E a \in 1..n : list[a] = x
    <3>1. i # p
      BY <1>3, <2>1
    <3> QED
      BY <1>4, <2>1, <3>1
  <2>2. ASSUME NEW a \in 1..n, list[a] = x
        PROVE  \E i \in 1..(n + 1) : new[i] = x
    <3>1. CASE a < p
      <4>1. a \in 1..(p - 1) /\ a \in 1..(n + 1)
        BY <3>1
      <4> QED
        BY <1>3, <2>2, <4>1
    <3>2. CASE a >= p
      <4>1. a + 1 \in (p + 1)..(n + 1) /\ a + 1 \in 1..(n + 1) /\ (a + 1) - 1 = a
        BY <3>2
      <4> QED
        BY <1>3, <2>2, <4>1
    <3> QED
      BY <3>1, <3>2
  <2>3. p \in 1..(n + 1)
    BY <1>2
  <2> QED
    BY <1>2, <1>3, <2>1, <2>2, <2>3 DEF Has
<1>6. ASSUME NEW x, AtMostOnce(list, x), x = d => ~Has(list, x)
      PROVE  AtMostOnce(new, x)
  <2> SUFFICES ASSUME NEW i \in 1..(n + 1), NEW j \in 1..(n + 1), new[i] = x, new[j] = x
               PROVE  i = j
    BY <1>3 DEF AtMostOnce
  <2>1. ASSUME NEW l \in 1..(n + 1), new[l] = x, x = d
        PROVE  l = p
    <3> SUFFICES ASSUME l # p PROVE FALSE
      OBVIOUS
    <3>1. PICK a \in 1..n : new[l] = list[a]
      BY <1>4
    <3> QED
      BY <1>2, <1>6, <2>1, <3>1 DEF Has
  <2>2. CASE x = d
    BY <2>1, <2>2
  <2>3. CASE x # d
    <3>1. i # p /\ j # p
      BY <1>3, <2>3
    <3>2. PICK a \in 1..n : new[i] = list[a] /\ (i < p => a = i) /\ (i > p => a = i - 1)
      BY <1>4, <3>1
    <3>3. PICK b \in 1..n : new[j] = list[b] /\ (j < p => b = j) /\ (j > p => b = j - 1)
      BY <1>4, <3>1
    <3>4. a = b
      BY <1>2, <1>6, <3>2, <3>3 DEF AtMostOnce
    <3> QED
      BY <3>1, <3>2, <3>3, <3>4
  <2> QED
    BY <2>2, <2>3
<1>7. ASSUME UEsFirst(list),
             d \in MulticastDestinations =>
                \A i \in p..Len(list) : list[i] \in MulticastDestinations,
             d \notin MulticastDestinations =>
                \A i \in 1..(p - 1) : list[i] \notin MulticastDestinations
      PROVE  UEsFirst(new)
  <2> SUFFICES ASSUME NEW i \in 1..(n + 1), NEW j \in 1..(n + 1), i < j,
                      new[i] \in MulticastDestinations
               PROVE  new[j] \in MulticastDestinations
    BY <1>3 DEF UEsFirst
  <2>1. CASE i = p
    <3>1. j - 1 \in p..n /\ new[j] = list[j - 1]
      BY <1>3, <2>1
    <3> QED
      BY <1>2, <1>3, <1>7, <2>1, <3>1
  <2>2. CASE j = p
    <3>1. i \in 1..(p - 1) /\ new[i] = list[i]
      BY <1>3, <2>2
    <3> QED
      BY <1>3, <1>7, <2>2, <3>1
  <2>3. CASE i # p /\ j # p
    <3>1. PICK a \in 1..n : new[i] = list[a] /\ (i < p => a = i) /\ (i > p => a = i - 1)
      BY <1>4, <2>3
    <3>2. PICK b \in 1..n : new[j] = list[b] /\ (j < p => b = j) /\ (j > p => b = j - 1)
      BY <1>4, <2>3
    <3>3. a < b
      BY <2>3, <3>1, <3>2
    <3> QED
      BY <1>2, <1>7, <3>1, <3>2, <3>3 DEF UEsFirst
  <2> QED
    BY <2>1, <2>2, <2>3
<1> QED
  BY <1>1, <1>3, <1>5, <1>6, <1>7

\* A device is added to a list of a cell: a multicast destination is registered
\* while there are none but such.
LEMMA ListedIs ==
    ASSUME NEW kind, NEW list \in Seq(Devices), NEW d \in Devices
    PROVE  /\ Listed(kind, list, d) \in Seq(Devices)
           /\ \A x : Has(Listed(kind, list, d), x) <=> x = d \/ Has(list, x)
           /\ \A x : AtMostOnce(list, x) /\ (x = d => ~Has(list, x)) =>
                    AtMostOnce(Listed(kind, list, d), x)
           /\ (/\ UEsFirst(list)
               /\ kind = "records" /\ d \in MulticastDestinations =>
                    \A i \in 1..Len(list) : list[i] \in MulticastDestinations)
              => UEsFirst(Listed(kind, list, d))
<1>1. PICK tail \in 0..Len(list) : tail = MulticastTail(list)
  BY MulticastTailIs
<1>2. PICK n \in Nat : n = Len(list)
  OBVIOUS
<1>3. PICK p : p = IF kind = "records" THEN RecordPosition(list) ELSE n - tail + 1
  OBVIOUS
<1>4. p = n - tail + 1 \/ (kind = "records" /\ p = 1 /\ n # 0)
  BY <1>1, <1>2, <1>3 DEF RecordPosition
<1>5. p \in 1..(Len(list) + 1)
  BY <1>1, <1>2, <1>4
<1>6. Listed(kind, list, d) = InsertAt(list, p, d)
  BY <1>1, <1>2, <1>3 DEF Listed, AddDevice, RegisterUserEquipment
<1>7. ASSUME UEsFirst(list),
             kind = "records" /\ d \in MulticastDestinations =>
                \A i \in 1..Len(list) : list[i] \in MulticastDestinations
      PROVE  /\ d \in MulticastDestinations =>
                    \A i \in p..Len(list) : list[i] \in MulticastDestinations
             /\ d \notin MulticastDestinations =>
                    \A i \in 1..(p - 1) : list[i] \notin MulticastDestinations
  <2>1. CASE p = 1 /\ kind = "records"
    <3>1. \A i \in p..Len(list) : i \in 1..Len(list)
      BY <1>2, <2>1
    <3>2. 1..(p - 1) = {}
      BY <2>1
    <3> QED
      BY <1>7, <2>1, <3>1, <3>2
  <2>2. CASE p = n - tail + 1
    <3>1. \A i \in p..n : list[i] \in MulticastDestinations
      BY <1>1, <1>2, <2>2, MulticastTailIs
    <3>2. ASSUME NEW i \in 1..(p - 1), list[i] \in MulticastDestinations
          PROVE  FALSE
      <4>1. n - tail \in 1..n /\ i \in 1..n /\ i <= n - tail /\ tail < n
        BY <1>1, <1>2, <2>2
      <4>2. list[n - tail] \notin MulticastDestinations
        BY <1>1, <1>2, <4>1, MulticastTailIs
      <4>3. i # n - tail
        BY <3>2, <4>2
      <4>4. i < n - tail
        BY <4>1, <4>3
      <4> QED
        BY <1>2, <1>7, <3>2, <4>1, <4>2, <4>4 DEF UEsFirst
    <3> QED
      BY <1>2, <3>1, <3>2
  <2> QED
    BY <1>4, <2>1, <2>2
<1> HIDE DEF Devices
<1>8. LET new == InsertAt(list, p, d) IN
           /\ new \in Seq(Devices)
           /\ \A x : Has(new, x) <=> x = d \/ Has(list, x)
           /\ \A x : AtMostOnce(list, x) /\ (x = d => ~Has(list, x)) => AtMostOnce(new, x)
           /\ (/\ UEsFirst(list)
               /\ d \in MulticastDestinations =>
                    \A i \in p..Len(list) : list[i] \in MulticastDestinations
               /\ d \notin MulticastDestinations =>
                    \A i \in 1..(p - 1) : list[i] \notin MulticastDestinations)
              => UEsFirst(new)
  BY <1>5, InsertKeeps
<1> QED
  BY <1>6, <1>7, <1>8

\* A device is taken from a list.
LEMMA ListWithoutIs ==
    ASSUME NEW list \in Seq(Devices), NEW d
    PROVE  /\ Without(list, d) \in Seq(Devices)
           /\ \A x : Has(Without(list, d), x) <=> x # d /\ Has(list, x)
           /\ \A x : AtMostOnce(list, x) => AtMostOnce(Without(list, d), x)
           /\ UEsFirst(list) => UEsFirst(Without(list, d))
<1>1. PICK D : D = {d}
  OBVIOUS
<1>2. PICK new : new = Kept(list, D)
  OBVIOUS
<1>3. PICK h \in [1..Len(new) -> 1..Len(list)] :
        /\ \A i \in 1..Len(new) : new[i] = list[h[i]] /\ list[h[i]] \notin D
        /\ \A i, j \in 1..Len(new) : i < j => h[i] < h[j]
        /\ \A m \in 1..Len(list) : list[m] \notin D => \E i \in 1..Len(new) : h[i] = m
  BY <1>2, KeptIs
<1>4. new \in Seq(Devices)
  BY <1>2, KeptIs
<1>5. \A x : Has(new, x) <=> x # d /\ Has(list, x)
  BY <1>1, <1>3, SMTT(20) DEF Has
<1>6. ASSUME NEW x, AtMostOnce(list, x)
      PROVE  AtMostOnce(new, x)
  <2> SUFFICES ASSUME NEW i \in 1..Len(new), NEW j \in 1..Len(new), new[i] = x, new[j] = x
               PROVE  i = j
    BY DEF AtMostOnce
  <2>1. h[i] = h[j]
    BY <1>3, <1>6, SMTT(20) DEF AtMostOnce
  <2>2. i \in Int /\ j \in Int /\ h[i] \in Int /\ h[j] \in Int
    BY <1>3
  <2>3. ~(h[i] < h[j]) /\ ~(h[j] < h[i])
    BY <2>1, <2>2
  <2>4. ~(i < j) /\ ~(j < i)
    BY <1>3, <2>3
  <2> QED
    BY <2>2, <2>4
<1>7. UEsFirst(list) => UEsFirst(new)
  BY <1>3 DEF UEsFirst
<1>8. new = Without(list, d)
  BY <1>1, <1>2 DEF Without
<1> QED
  BY <1>4, <1>5, <1>6, <1>7, <1>8

\* The recursion behind ListOf.
Lists(l, kind, devices) ==
    /\ l[0] = <<>>
    /\ \A i \in 1..Len(devices) : l[i] = Listed(kind, l[i - 1], devices[i])

\* The list a cell keeps is built by the recursion of ListOf.
LEMMA ListRecursion ==
    ASSUME NEW kind, NEW devices \in Seq(Devices)
    PROVE  \E l \in [0..Len(devices) -> Seq(Devices)] :
                ListOf(kind, devices) = l[Len(devices)] /\ Lists(l, kind, devices)
<1> DEFINE Eq(l) == l = [i \in 0..Len(devices) |->
                            IF i = 0 THEN <<>> ELSE Listed(kind, l[i - 1], devices[i])]
           step == [i \in 1..Len(devices) |->
                        [q \in Seq(Devices) |-> Listed(kind, q, devices[i])]]
<1>1. /\ Len(devices) \in Nat /\ <<>> \in Seq(Devices)
      /\ \A i \in 1..Len(devices) : devices[i] \in Devices
  OBVIOUS
<1>2. \A i \in 1..Len(devices), q \in Seq(Devices) : Listed(kind, q, devices[i]) \in Seq(Devices)
  BY <1>1, ListedIs
<1>3. PICK f \in [0..Len(devices) -> Seq(Devices)] : Iterates(f, <<>>, step, Len(devices))
  <2>1. step \in [1..Len(devices) -> [Seq(Devices) -> Seq(Devices)]]
    BY <1>2
  <2> HIDE DEF step
  <2> QED
    BY <1>1, <2>1, Recursion
<1>4. Eq(f)
  <2>1. f = [i \in 0..Len(devices) |-> f[i]]
    OBVIOUS
  <2>2. ASSUME NEW i \in 1..Len(devices)
        PROVE  f[i] = Listed(kind, f[i - 1], devices[i])
    <3>1. f[i - 1] \in Seq(Devices)
      BY <1>1
    <3>2. f[i] = step[i][f[i - 1]]
      BY <1>3 DEF Iterates
    <3> QED
      BY <3>1, <3>2
  <2>3. \A i \in 0..Len(devices) :
            f[i] = IF i = 0 THEN <<>> ELSE Listed(kind, f[i - 1], devices[i])
    BY <1>1, <1>3, <2>2 DEF Iterates
  <2> QED
    BY <2>1, <2>3
<1>5. PICK l : l = CHOOSE g : Eq(g)
  OBVIOUS
<1>6. Eq(l)
  <2> HIDE DEF Eq
  <2> QED
    BY <1>4, <1>5
<1>7. ListOf(kind, devices) = l[Len(devices)]
  BY <1>5 DEF ListOf
<1>8. Lists(l, kind, devices)
  BY <1>1, <1>6 DEF Lists
<1>9. l \in [0..Len(devices) -> Seq(Devices)]
  <2> DEFINE P == {i \in Nat : i <= Len(devices) => l[i] \in Seq(Devices)}
  <2>1. 0 \in P
    BY <1>1, <1>8 DEF Lists
  <2>2. ASSUME NEW i \in Nat, i \in P
        PROVE  i + 1 \in P
    <3> SUFFICES ASSUME i + 1 <= Len(devices)
                 PROVE  l[i + 1] \in Seq(Devices)
      OBVIOUS
    <3>1. l[i] \in Seq(Devices) /\ i + 1 \in 1..Len(devices)
      BY <1>1, <2>2
    <3>2. l[i + 1] = Listed(kind, l[i], devices[i + 1])
      BY <1>1, <1>8, <3>1 DEF Lists
    <3> QED
      BY <1>2, <3>1, <3>2
  <2> HIDE DEF P
  <2>3. \A i \in Nat : i \in P
    BY <2>1, <2>2, Induction
  <2>4. \A i \in 0..Len(devices) : l[i] \in Seq(Devices)
    BY <1>1, <2>3 DEF P
  <2> QED
    BY <1>6, <2>4
<1> QED
  BY <1>7, <1>8, <1>9

\* A list that was filled with distinct devices, in the records the multicast
\* destinations first.
LEMMA ListOfIs ==
    ASSUME NEW kind, NEW devices \in Seq(Devices),
           \A i, j \in 1..Len(devices) : devices[i] = devices[j] => i = j,
           kind = "records" =>
                \A i, j \in 1..Len(devices) :
                    i < j /\ devices[j] \in MulticastDestinations =>
                        devices[i] \in MulticastDestinations
    PROVE  /\ ListOf(kind, devices) \in Seq(Devices)
           /\ \A x : Has(ListOf(kind, devices), x) <=> Has(devices, x)
           /\ \A x : AtMostOnce(ListOf(kind, devices), x)
           /\ UEsFirst(ListOf(kind, devices))
<1>1. PICK l \in [0..Len(devices) -> Seq(Devices)] :
            ListOf(kind, devices) = l[Len(devices)] /\ Lists(l, kind, devices)
  BY ListRecursion
<1> DEFINE Right(n) == /\ \A x : Has(l[n], x) <=> \E i \in 1..n : devices[i] = x
                       /\ \A x : AtMostOnce(l[n], x)
                       /\ UEsFirst(l[n])
           P == {n \in Nat : n <= Len(devices) => Right(n)}
<1>2. 0 \in P
  <2>1. l[0] = <<>> /\ Len(l[0]) = 0
    BY <1>1 DEF Lists
  <2> QED
    BY <2>1 DEF Has, AtMostOnce, UEsFirst
<1>3. ASSUME NEW n \in Nat, n \in P
      PROVE  n + 1 \in P
  <2> SUFFICES ASSUME n + 1 <= Len(devices)
               PROVE  Right(n + 1)
    OBVIOUS
  <2>1. Len(devices) \in Nat /\ n \in 0..Len(devices) /\ n + 1 \in 1..Len(devices)
    OBVIOUS
  <2>2. PICK q \in Seq(Devices) : q = l[n]
    BY <2>1
  <2>3. PICK d \in Devices : d = devices[n + 1]
    BY <2>1
  <2>4. /\ \A x : Has(q, x) <=> \E i \in 1..n : devices[i] = x
        /\ \A x : AtMostOnce(q, x)
        /\ UEsFirst(q)
    BY <1>3, <2>1, <2>2
  <2>5. PICK new : new = Listed(kind, q, d)
    OBVIOUS
  <2>11. l[n + 1] = new
    <3>1. l[n + 1] = Listed(kind, l[(n + 1) - 1], devices[n + 1])
      BY <1>1, <2>1 DEF Lists
    <3> QED
      BY <2>2, <2>3, <2>5, <3>1
  <2>6. ~Has(q, d)
    <3> SUFFICES ASSUME NEW i \in 1..n, devices[i] = d PROVE FALSE
      BY <2>4
    <3>1. i \in 1..Len(devices) /\ i # n + 1
      BY <2>1
    <3> QED
      BY <2>1, <2>3, <3>1
  <2>7. ASSUME kind = "records", d \in MulticastDestinations, NEW a \in 1..Len(q)
        PROVE  q[a] \in MulticastDestinations
    <3>1. Has(q, q[a])
      BY DEF Has
    <3>2. PICK i \in 1..n : devices[i] = q[a]
      BY <2>4, <3>1
    <3>3. i \in 1..Len(devices) /\ i < n + 1
      BY <2>1
    <3> QED
      BY <2>1, <2>3, <2>7, <3>2, <3>3
  <2>8. \A x : Has(new, x) <=> \E i \in 1..(n + 1) : devices[i] = x
    <3>1. \A x : Has(new, x) <=> x = d \/ Has(q, x)
      BY <2>5, ListedIs
    <3>2. \A i \in 1..(n + 1) : i = n + 1 \/ i \in 1..n
      OBVIOUS
    <3>3. n + 1 \in 1..(n + 1) /\ \A i \in 1..n : i \in 1..(n + 1)
      OBVIOUS
    <3> QED
      BY <2>3, <2>4, <3>1, <3>2, <3>3
  <2>9. \A x : AtMostOnce(new, x)
    <3>1. \A x : AtMostOnce(q, x) /\ (x = d => ~Has(q, x)) => AtMostOnce(new, x)
      BY <2>5, ListedIs
    <3> QED
      BY <2>4, <2>6, <3>1
  <2>10. UEsFirst(new)
    <3>1. (/\ UEsFirst(q)
           /\ kind = "records" /\ d \in MulticastDestinations =>
                \A i \in 1..Len(q) : q[i] \in MulticastDestinations) => UEsFirst(new)
      BY <2>5, ListedIs
    <3> QED
      BY <2>4, <2>7, <3>1
  <2> QED
    BY <2>11, <2>8, <2>9, <2>10
<1> HIDE DEF P
<1>4. Len(devices) \in Nat
  OBVIOUS
<1>5. Len(devices) \in P
  BY <1>2, <1>3, <1>4, Induction
<1>6. Right(Len(devices))
  BY <1>4, <1>5 DEF P
<1> QED
  BY <1>1, <1>4, <1>6 DEF Has

-----------------------------------------------------------------------------
(***************************************************************************)
(* The events of a UE                                                      *)
(***************************************************************************)

Events == [ts : Nat, kind : {"UpdateUserPosition", "MakeActive", "SetNodeState"}, ue : UEs]
          \cup [ts : Nat, kind : {"TransferBearerInfo"}, ue : UEs, target : Nodes]

Named(kind, ue) == {e \in Events : e.kind = kind /\ e.ue = ue}

IsPending(cal, kind, ue) == \E e \in EventsOf(cal) : e.kind = kind /\ e.ue = ue

\* The events of a UE that has this target and is in this state: one position
\* update, at most one transfer, which is served before it and leads elsewhere,
\* at most one idle timer, and the event that ends the state.
PendingRight(cal, ue, target, state) ==
    /\ Once(cal, Named("UpdateUserPosition", ue))
    /\ \E e \in EventsOf(cal) : e.kind = "UpdateUserPosition" /\ e.ue = ue /\ e.ts <= MaxTime
    /\ Once(cal, Named("TransferBearerInfo", ue))
    /\ Ahead(cal, Named("TransferBearerInfo", ue), Named("UpdateUserPosition", ue))
    /\ \A e \in EventsOf(cal) :
            e.kind = "TransferBearerInfo" /\ e.ue = ue => e.target # target
    /\ Once(cal, Named("SetNodeState", ue))
    /\ state = "DETACHED" => IsPending(cal, "MakeActive", ue)
    /\ state = "ACTIVE" => IsPending(cal, "SetNodeState", ue)

\* The events a step schedules.
LEMMA NewEvents ==
    ASSUME NEW ts \in Nat, NEW ue \in UEs
    PROVE  /\ \A kind \in {"UpdateUserPosition", "MakeActive", "SetNodeState"} :
                /\ UeAt(ts, kind, ue) \in Events
                /\ UeAt(ts, kind, ue).ts = ts
                /\ UeAt(ts, kind, ue).kind = kind
                /\ UeAt(ts, kind, ue).ue = ue
           /\ \A target \in Nodes :
                /\ TransferAt(ts, ue, target) \in Events
                /\ TransferAt(ts, ue, target).ts = ts
                /\ TransferAt(ts, ue, target).kind = "TransferBearerInfo"
                /\ TransferAt(ts, ue, target).ue = ue
                /\ TransferAt(ts, ue, target).target = target
BY DEF Events, UeAt, TransferAt

\* The fields of an event.
LEMMA EventFields ==
    ASSUME NEW e \in Events
    PROVE  /\ e.ts \in Nat /\ e.ue \in UEs
           /\ e.kind \in {"UpdateUserPosition", "MakeActive", "SetNodeState", "TransferBearerInfo"}
           /\ e.kind = "TransferBearerInfo" => e.target \in Nodes
BY DEF Events

\* One more event, e.
LEMMA Inserted ==
    ASSUME NEW cal, IsCalendar(cal, Events), NEW e \in Events
    PROVE  LET new == InsertEvent(cal, e) IN
           /\ IsCalendar(new, Events)
           /\ EventsOf(new) = EventsOf(cal) \cup {e}
           /\ \A kind, ue :
                /\ Once(cal, Named(kind, ue))
                /\ e.kind = kind /\ e.ue = ue => ~IsPending(cal, kind, ue)
                => Once(new, Named(kind, ue))
           /\ \A kind, kind2, ue :
                /\ kind # kind2
                /\ Ahead(cal, Named(kind, ue), Named(kind2, ue))
                /\ e.kind = kind /\ e.ue = ue => ~IsPending(cal, kind2, ue)
                /\ e.kind = kind2 /\ e.ue = ue =>
                        \A x \in EventsOf(cal) : x.kind = kind /\ x.ue = ue => x.ts <= e.ts
                => Ahead(new, Named(kind, ue), Named(kind2, ue))
<1>1. PICK new : new = InsertEvent(cal, e)
  OBVIOUS
<1>2. e.ts \in Nat
  BY EventFields
<1>3. IsCalendar(new, Events) /\ EventsOf(new) = EventsOf(cal) \cup {e}
  BY <1>1, <1>2, InsertIs
<1>4. ASSUME NEW kind, NEW ue, Once(cal, Named(kind, ue)),
             e.kind = kind /\ e.ue = ue => ~IsPending(cal, kind, ue)
      PROVE  Once(new, Named(kind, ue))
  <2>1. PICK X : X = Named(kind, ue)
    OBVIOUS
  <2>2. e \in X => EventsOf(cal) \cap X = {}
    BY <1>4, <2>1 DEF Named, IsPending
  <2>3. \A Y : Once(cal, Y) /\ (e \in Y => EventsOf(cal) \cap Y = {}) => Once(new, Y)
    BY <1>1, <1>2, InsertIs
  <2> QED
    BY <1>4, <2>1, <2>2, <2>3
<1>5. ASSUME NEW kind, NEW kind2, NEW ue, kind # kind2,
             Ahead(cal, Named(kind, ue), Named(kind2, ue)),
             e.kind = kind /\ e.ue = ue => ~IsPending(cal, kind2, ue),
             e.kind = kind2 /\ e.ue = ue =>
                \A x \in EventsOf(cal) : x.kind = kind /\ x.ue = ue => x.ts <= e.ts
      PROVE  Ahead(new, Named(kind, ue), Named(kind2, ue))
  <2>1. PICK X, Y : X = Named(kind, ue) /\ Y = Named(kind2, ue)
    OBVIOUS
  <2>2. e \in X => EventsOf(cal) \cap Y = {} /\ e \notin Y
    BY <1>5, <2>1 DEF Named, IsPending
  <2>3. e \in Y => \A x \in EventsOf(cal) \cap X : x.ts <= e.ts
    BY <1>5, <2>1 DEF Named
  <2>4. Ahead(cal, X, Y)
    BY <1>5, <2>1
  <2>5. Ahead(new, X, Y)
    BY <1>1, <1>2, <2>2, <2>3, <2>4, InsertIs
  <2> QED
    BY <2>1, <2>5
<1> QED
  BY <1>1, <1>3, <1>4, <1>5

\* The first event is served.
LEMMA Served ==
    ASSUME NEW cal, IsCalendar(cal, Events), ~IsEmpty(cal)
    PROVE  LET new == RemoveEvent(cal) IN
           /\ IsCalendar(new, Events)
           /\ EventsOf(cal) = EventsOf(new) \cup {GetEvent(cal)}
           /\ GetEvent(cal) \in Events
           /\ \A e \in EventsOf(cal) : GetEvent(cal).ts <= e.ts
           /\ \A kind, ue : Once(cal, Named(kind, ue)) =>
                /\ Once(new, Named(kind, ue))
                /\ GetEvent(cal).kind = kind /\ GetEvent(cal).ue = ue =>
                        ~IsPending(new, kind, ue)
           /\ \A kind, kind2, ue : Ahead(cal, Named(kind, ue), Named(kind2, ue)) =>
                /\ Ahead(new, Named(kind, ue), Named(kind2, ue))
                /\ GetEvent(cal).kind = kind2 /\ GetEvent(cal).ue = ue =>
                        ~IsPending(cal, kind, ue)
<1>1. PICK new : new = RemoveEvent(cal)
  OBVIOUS
<1>2. PICK f : f = GetEvent(cal)
  OBVIOUS
<1>3. /\ IsCalendar(new, Events)
      /\ EventsOf(cal) = EventsOf(new) \cup {f}
  BY <1>1, <1>2, RemoveIs
<1>4. f \in EventsOf(cal) /\ \A e \in EventsOf(cal) : f.ts <= e.ts
  BY <1>2, FirstEvent
<1>5. \A e \in EventsOf(cal) : e \in Events
  BY EventTypes
<1>6. \A e \in EventsOf(new) : e \in Events
  BY <1>3, <1>5
<1>7. ASSUME NEW kind, NEW ue, Once(cal, Named(kind, ue))
      PROVE  /\ Once(new, Named(kind, ue))
             /\ f.kind = kind /\ f.ue = ue => ~IsPending(new, kind, ue)
  <2>1. PICK X : X = Named(kind, ue)
    OBVIOUS
  <2>2. f.kind = kind /\ f.ue = ue => f \in X
    BY <1>4, <1>5, <2>1 DEF Named
  <2>3. EventsOf(new) \cap X = {} => ~IsPending(new, kind, ue)
    BY <1>6, <2>1 DEF Named, IsPending
  <2>4. Once(cal, X)
    BY <1>7, <2>1
  <2>5. Once(new, X) /\ (f \in X => EventsOf(new) \cap X = {})
    BY <1>1, <1>2, <2>4, RemoveIs
  <2> QED
    BY <2>1, <2>2, <2>3, <2>5
<1>8. ASSUME NEW kind, NEW kind2, NEW ue, Ahead(cal, Named(kind, ue), Named(kind2, ue))
      PROVE  /\ Ahead(new, Named(kind, ue), Named(kind2, ue))
             /\ f.kind = kind2 /\ f.ue = ue => ~IsPending(cal, kind, ue)
  <2>1. PICK X, Y : X = Named(kind, ue) /\ Y = Named(kind2, ue)
    OBVIOUS
  <2>2. f.kind = kind2 /\ f.ue = ue => f \in Y
    BY <1>4, <1>5, <2>1 DEF Named
  <2>3. EventsOf(cal) \cap X = {} => ~IsPending(cal, kind, ue)
    BY <1>5, <2>1 DEF Named, IsPending
  <2>4. Ahead(cal, X, Y)
    BY <1>8, <2>1
  <2>5. Ahead(new, X, Y) /\ (f \in Y => EventsOf(cal) \cap X = {})
    BY <1>1, <1>2, <2>4, RemoveIs
  <2> QED
    BY <2>1, <2>2, <2>3, <2>5
<1> QED
  BY <1>1, <1>2, <1>3, <1>4, <1>5, <1>7, <1>8

\* The events of the set D are taken out.
LEMMA TakenOut ==
    ASSUME NEW cal, IsCalendar(cal, Events), NEW D
    PROVE  LET new == WithoutEvents(cal, D) IN
           /\ IsCalendar(new, Events)
           /\ EventsOf(new) = EventsOf(cal) \ D
           /\ \A kind, ue : Once(cal, Named(kind, ue)) => Once(new, Named(kind, ue))
           /\ \A kind, kind2, ue : Ahead(cal, Named(kind, ue), Named(kind2, ue)) =>
                                    Ahead(new, Named(kind, ue), Named(kind2, ue))
           /\ ~IsEmpty(cal) /\ GetEvent(cal) \notin D =>
                ~IsEmpty(new) /\ GetEvent(new) = GetEvent(cal)
<1>1. PICK new : new = WithoutEvents(cal, D)
  OBVIOUS
<1>2. /\ IsCalendar(new, Events)
      /\ EventsOf(new) = EventsOf(cal) \ D
      /\ \A X : Once(cal, X) => Once(new, X)
      /\ \A X, Y : Ahead(cal, X, Y) => Ahead(new, X, Y)
      /\ ~IsEmpty(cal) /\ GetEvent(cal) \notin D => GetEvent(new) = GetEvent(cal)
  BY <1>1, WithoutIs
<1>3. ASSUME ~IsEmpty(cal), GetEvent(cal) \notin D
      PROVE  ~IsEmpty(new)
  <2>1. GetEvent(cal) \in EventsOf(cal)
    BY <1>3, FirstEvent
  <2>2. GetEvent(cal) \in EventsOf(new)
    BY <1>2, <1>3, <2>1
  <2> QED
    BY <2>2, NotEmpty
<1> QED
  BY <1>1, <1>2, <1>3

\* What concerns another UE leaves the events of a UE right.
LEMMA OtherInserted ==
    ASSUME NEW cal, IsCalendar(cal, Events), NEW ue, NEW target, NEW state,
           PendingRight(cal, ue, target, state), NEW e \in Events, e.ue # ue
    PROVE  PendingRight(InsertEvent(cal, e), ue, target, state)
<1>1. PICK new : new = InsertEvent(cal, e)
  OBVIOUS
<1>2. /\ EventsOf(new) = EventsOf(cal) \cup {e}
      /\ \A kind : Once(cal, Named(kind, ue)) => Once(new, Named(kind, ue))
  BY <1>1, Inserted
<1>3. Ahead(new, Named("TransferBearerInfo", ue), Named("UpdateUserPosition", ue))
  BY <1>1, Inserted DEF PendingRight
<1> QED
  BY <1>1, <1>2, <1>3 DEF PendingRight, IsPending

\* What is pending for a UE stays pending when an event of another UE is served.
LEMMA OtherServed ==
    ASSUME NEW cal, IsCalendar(cal, Events), NEW ue, NEW target, NEW state,
           PendingRight(cal, ue, target, state), ~IsEmpty(cal), GetEvent(cal).ue # ue
    PROVE  PendingRight(RemoveEvent(cal), ue, target, state)
<1>1. PICK new : new = RemoveEvent(cal)
  OBVIOUS
<1>2. /\ EventsOf(cal) = EventsOf(new) \cup {GetEvent(cal)}
      /\ \A kind : Once(cal, Named(kind, ue)) => Once(new, Named(kind, ue))
  BY <1>1, Served
<1>3. Ahead(new, Named("TransferBearerInfo", ue), Named("UpdateUserPosition", ue))
  BY <1>1, Served DEF PendingRight
<1> QED
  BY <1>1, <1>2, <1>3 DEF PendingRight, IsPending

\* What is pending for a UE stays pending when events of other UEs are taken out.
LEMMA OtherTakenOut ==
    ASSUME NEW cal, IsCalendar(cal, Events), NEW ue, NEW target, NEW state,
           PendingRight(cal, ue, target, state), NEW D, \A e \in D : e.ue # ue
    PROVE  PendingRight(WithoutEvents(cal, D), ue, target, state)
<1>1. PICK new : new = WithoutEvents(cal, D)
  OBVIOUS
<1>2. /\ EventsOf(new) = EventsOf(cal) \ D
      /\ \A kind : Once(cal, Named(kind, ue)) => Once(new, Named(kind, ue))
  BY <1>1, TakenOut
<1>3. Ahead(new, Named("TransferBearerInfo", ue), Named("UpdateUserPosition", ue))
  BY <1>1, TakenOut DEF PendingRight
<1> QED
  BY <1>1, <1>2, <1>3 DEF PendingRight, IsPending

-----------------------------------------------------------------------------
(***************************************************************************)
(* The operations on the calendar                                          *)
(***************************************************************************)

\* The calendar, when the UEs have these targets and are in these states.
CalendarRight(cal, target, state) ==
    /\ IsCalendar(cal, Events)
    /\ \A ue \in UEs : PendingRight(cal, ue, target[ue], state[ue])

\* The event served is one of a UE, at most MaxTime.
LEMMA ServedIs ==
    ASSUME NEW cal, NEW target, NEW state, CalendarRight(cal, target, state), ~IsEmpty(cal)
    PROVE  GetEvent(cal) \in Events /\ GetEvent(cal).ts <= MaxTime
<1>1. GetEvent(cal) \in Events /\ \A e \in EventsOf(cal) : GetEvent(cal).ts <= e.ts
  BY Served DEF CalendarRight
<1>2. PICK e \in EventsOf(cal) : e.ts <= MaxTime
  BY <1>1, EventFields DEF CalendarRight, PendingRight
<1>3. e \in Events
  BY EventTypes DEF CalendarRight
<1> QED
  BY <1>1, <1>2, <1>3, EventFields, BoundsAssumption

\* A position update that leads to no handover.
LEMMA UpdateKeeps ==
    ASSUME NEW cal, NEW target, NEW state, CalendarRight(cal, target, state), ~IsEmpty(cal),
           NEW f, f = GetEvent(cal), f.kind = "UpdateUserPosition", f.ts < MaxTime
    PROVE  CalendarRight(RemoveEvent(InsertAll(cal, <<UeAt(f.ts + 1, "UpdateUserPosition", f.ue)>>)),
                         target, state)
<1>1. f \in Events /\ f.ts \in Nat /\ f.ue \in UEs /\ f.ts + 1 \in Nat
  BY ServedIs, EventFields
<1>2. PICK n : n = UeAt(f.ts + 1, "UpdateUserPosition", f.ue)
  OBVIOUS
<1>3. n \in Events /\ n.ts = f.ts + 1 /\ n.kind = "UpdateUserPosition" /\ n.ue = f.ue
  BY <1>1, <1>2, NewEvents
<1>4. PICK c1 : c1 = RemoveEvent(cal)
  OBVIOUS
<1>5. PICK c2 : c2 = InsertEvent(c1, n)
  OBVIOUS
<1>6. RemoveEvent(InsertAll(cal, <<n>>)) = c2
  BY <1>1, <1>3, <1>4, <1>5, RemoveInsertAll DEF CalendarRight
<1>7. IsCalendar(c1, Events) /\ IsCalendar(c2, Events)
  BY <1>3, <1>4, <1>5, Served, Inserted DEF CalendarRight
<1>8. ASSUME NEW u \in UEs, u # f.ue
      PROVE  PendingRight(c2, u, target[u], state[u])
  <2>1. PendingRight(c1, u, target[u], state[u])
    BY <1>4, <1>8, OtherServed DEF CalendarRight
  <2> QED
    BY <1>3, <1>5, <1>7, <1>8, <2>1, OtherInserted
<1>9. PendingRight(c2, f.ue, target[f.ue], state[f.ue])
  <2>1. PICK u : u = f.ue
    OBVIOUS
  <2>2. PendingRight(cal, u, target[u], state[u]) /\ IsCalendar(cal, Events)
    BY <1>1, <2>1 DEF CalendarRight
  <2>3. /\ EventsOf(cal) = EventsOf(c1) \cup {f}
        /\ \A kind : Once(cal, Named(kind, u)) => Once(c1, Named(kind, u))
    BY <1>4, <2>2, Served
  <2>4. ~IsPending(c1, "UpdateUserPosition", u)
    BY <1>4, <2>1, <2>2, Served DEF PendingRight
  <2>5. /\ ~IsPending(cal, "TransferBearerInfo", u)
        /\ Ahead(c1, Named("TransferBearerInfo", u), Named("UpdateUserPosition", u))
    BY <1>4, <2>1, <2>2, Served DEF PendingRight
  <2>6. EventsOf(c2) = EventsOf(c1) \cup {n}
    BY <1>3, <1>5, <1>7, Inserted
  <2>7. Once(c2, Named("UpdateUserPosition", u))
    BY <1>3, <1>5, <1>7, <2>2, <2>3, <2>4, Inserted DEF PendingRight
  <2>8. \A kind \in {"TransferBearerInfo", "SetNodeState"} :
            Once(c1, Named(kind, u)) => Once(c2, Named(kind, u))
    BY <1>3, <1>5, <1>7, Inserted
  <2>9. ~IsPending(c1, "TransferBearerInfo", u)
    BY <2>3, <2>5 DEF IsPending
  <2>10. Ahead(c2, Named("TransferBearerInfo", u), Named("UpdateUserPosition", u))
    BY <1>3, <1>5, <1>7, <2>5, <2>9, Inserted DEF IsPending
  <2>11. n \in EventsOf(c2) /\ n.ts <= MaxTime
    BY <1>1, <1>3, <2>6, BoundsAssumption
  <2>12. \A e \in EventsOf(c2) : e.kind = "TransferBearerInfo" /\ e.ue = u => e.target # target[u]
    BY <1>3, <2>6, <2>9 DEF IsPending
  <2>13. \A kind \in {"MakeActive", "SetNodeState"} :
            IsPending(cal, kind, u) => IsPending(c2, kind, u)
    BY <2>3, <2>6 DEF IsPending
  <2> QED
    BY <1>3, <2>1, <2>2, <2>3, <2>7, <2>8, <2>10, <2>11, <2>12, <2>13 DEF PendingRight
<1> QED
  BY <1>2, <1>6, <1>7, <1>8, <1>9 DEF CalendarRight

\* A position update that leads to a handover.
LEMMA HandoverKeeps ==
    ASSUME NEW cal, NEW target, NEW state, CalendarRight(cal, target, state), ~IsEmpty(cal),
           NEW f, f = GetEvent(cal), f.kind = "UpdateUserPosition", f.ts < MaxTime,
           NEW new \in Nodes, new # target[f.ue],
           NEW state2, state2[f.ue] = "DETACHED",
           \A u \in UEs : u # f.ue => state2[u] = state[u]
    PROVE  CalendarRight(RemoveEvent(InsertAll(cal, <<TransferAt(f.ts + 1, f.ue, new),
                                                      UeAt(f.ts + m_detachTime, "MakeActive", f.ue),
                                                      UeAt(f.ts + 1, "UpdateUserPosition", f.ue)>>)),
                         target, state2)
<1>1. f \in Events /\ f.ts \in Nat /\ f.ue \in UEs /\ f.ts + 1 \in Nat
  BY ServedIs, EventFields
<1>2. f.ts + m_detachTime \in Nat /\ f.ts <= f.ts + m_detachTime
  BY <1>1, TimerAssumption
<1>3. PICK t : t = TransferAt(f.ts + 1, f.ue, new)
  OBVIOUS
<1>4. PICK m : m = UeAt(f.ts + m_detachTime, "MakeActive", f.ue)
  OBVIOUS
<1>5. PICK n : n = UeAt(f.ts + 1, "UpdateUserPosition", f.ue)
  OBVIOUS
<1>6. t \in Events /\ t.ts = f.ts + 1 /\ t.kind = "TransferBearerInfo" /\ t.ue = f.ue /\ t.target = new
  BY <1>1, <1>3, NewEvents
<1>7. m \in Events /\ m.ts = f.ts + m_detachTime /\ m.kind = "MakeActive" /\ m.ue = f.ue
  BY <1>1, <1>2, <1>4, NewEvents
<1>8. n \in Events /\ n.ts = f.ts + 1 /\ n.kind = "UpdateUserPosition" /\ n.ue = f.ue
  BY <1>1, <1>5, NewEvents
<1>9. PICK c1 : c1 = RemoveEvent(cal)
  OBVIOUS
<1>10. PICK c2 : c2 = InsertEvent(c1, t)
  OBVIOUS
<1>11. PICK c3 : c3 = InsertEvent(c2, m)
  OBVIOUS
<1>12. PICK c4 : c4 = InsertEvent(c3, n)
  OBVIOUS
<1>13. RemoveEvent(InsertAll(cal, <<t, m, n>>)) = c4
  <2>1. IsCalendar(cal, Events)
    BY DEF CalendarRight
  <2>2. f.ts <= t.ts /\ f.ts <= m.ts /\ f.ts <= n.ts
    BY <1>1, <1>2, <1>6, <1>7, <1>8
  <2>3. t.ts \in Nat /\ m.ts \in Nat /\ n.ts \in Nat
    BY <1>1, <1>2, <1>6, <1>7, <1>8
  <2> QED
    BY <1>6, <1>7, <1>8, <1>9, <1>10, <1>11, <1>12, <2>1, <2>2, <2>3, RemoveInsertAll
<1>14. IsCalendar(c1, Events)
  BY <1>9, Served DEF CalendarRight
<1>15. IsCalendar(c2, Events)
  BY <1>6, <1>10, <1>14, Inserted
<1>16. IsCalendar(c3, Events)
  BY <1>7, <1>11, <1>15, Inserted
<1>17. IsCalendar(c4, Events)
  BY <1>8, <1>12, <1>16, Inserted
<1>18. ASSUME NEW u \in UEs, u # f.ue
       PROVE  PendingRight(c4, u, target[u], state2[u])
  <2>1. PendingRight(c1, u, target[u], state2[u])
    BY <1>9, <1>18, OtherServed DEF CalendarRight
  <2>2. PendingRight(c2, u, target[u], state2[u])
    BY <1>6, <1>10, <1>14, <1>18, <2>1, OtherInserted
  <2>3. PendingRight(c3, u, target[u], state2[u])
    BY <1>7, <1>11, <1>15, <1>18, <2>2, OtherInserted
  <2> QED
    BY <1>8, <1>12, <1>16, <1>18, <2>3, OtherInserted
<1>19. PendingRight(c4, f.ue, target[f.ue], state2[f.ue])
  <2>1. PICK u : u = f.ue
    OBVIOUS
  <2>2. PendingRight(cal, u, target[u], state[u]) /\ IsCalendar(cal, Events)
    BY <1>1, <2>1 DEF CalendarRight
  <2>3. /\ EventsOf(cal) = EventsOf(c1) \cup {f}
        /\ EventsOf(c2) = EventsOf(c1) \cup {t}
        /\ EventsOf(c3) = EventsOf(c2) \cup {m}
        /\ EventsOf(c4) = EventsOf(c3) \cup {n}
    BY <1>6, <1>7, <1>8, <1>9, <1>10, <1>11, <1>12, <1>14, <1>15, <1>16, <2>2, Served, Inserted, SMTT(20)
  <2>4. ~IsPending(c1, "UpdateUserPosition", u)
    BY <1>9, <2>1, <2>2, Served DEF PendingRight
  <2>5. /\ ~IsPending(cal, "TransferBearerInfo", u)
        /\ Ahead(c1, Named("TransferBearerInfo", u), Named("UpdateUserPosition", u))
    BY <1>9, <2>1, <2>2, Served DEF PendingRight
  <2>6. ~IsPending(c1, "TransferBearerInfo", u)
    BY <2>3, <2>5 DEF IsPending
  <2>7. \A kind : Once(cal, Named(kind, u)) => Once(c1, Named(kind, u))
    BY <1>9, <2>2, Served
  <2>8. /\ Once(c1, Named("UpdateUserPosition", u))
        /\ Once(c1, Named("TransferBearerInfo", u))
        /\ Once(c1, Named("SetNodeState", u))
    BY <2>2, <2>7 DEF PendingRight
  <2>9. /\ Once(c2, Named("UpdateUserPosition", u))
        /\ Once(c2, Named("TransferBearerInfo", u))
        /\ Once(c2, Named("SetNodeState", u))
    BY <1>6, <1>10, <1>14, <2>6, <2>8, Inserted
  <2>10. /\ Once(c3, Named("UpdateUserPosition", u))
         /\ Once(c3, Named("TransferBearerInfo", u))
         /\ Once(c3, Named("SetNodeState", u))
    BY <1>7, <1>11, <1>15, <2>9, Inserted
  <2>11. ~IsPending(c3, "UpdateUserPosition", u)
    BY <1>6, <1>7, <2>3, <2>4 DEF IsPending
  <2>12. /\ Once(c4, Named("UpdateUserPosition", u))
         /\ Once(c4, Named("TransferBearerInfo", u))
         /\ Once(c4, Named("SetNodeState", u))
    BY <1>8, <1>12, <1>16, <2>10, <2>11, Inserted
  <2>13. Ahead(c2, Named("TransferBearerInfo", u), Named("UpdateUserPosition", u))
    BY <1>6, <1>10, <1>14, <2>4, <2>5, Inserted
  <2>14. Ahead(c3, Named("TransferBearerInfo", u), Named("UpdateUserPosition", u))
    BY <1>7, <1>11, <1>15, <2>13, Inserted
  <2>15. \A x \in EventsOf(c3) : x.kind = "TransferBearerInfo" /\ x.ue = u => x = t
    BY <1>7, <2>3, <2>6 DEF IsPending
  <2>16. t.ts <= n.ts
    BY <1>1, <1>6, <1>8
  <2>17. Ahead(c4, Named("TransferBearerInfo", u), Named("UpdateUserPosition", u))
    BY <1>8, <1>12, <1>16, <2>14, <2>15, <2>16, Inserted
  <2>18. n \in EventsOf(c4) /\ n.ts <= MaxTime
    BY <1>1, <1>8, <2>3, BoundsAssumption
  <2>19. \A e \in EventsOf(c4) : e.kind = "TransferBearerInfo" /\ e.ue = u => e.target # target[u]
    BY <1>6, <1>8, <2>1, <2>3, <2>15
  <2>20. IsPending(c4, "MakeActive", u)
    BY <1>7, <2>1, <2>3 DEF IsPending
  <2> QED
    BY <1>8, <2>1, <2>12, <2>17, <2>18, <2>19, <2>20 DEF PendingRight
<1> QED
  BY <1>3, <1>4, <1>5, <1>13, <1>17, <1>18, <1>19 DEF CalendarRight

\* A UE becomes idle, whatever is scheduled.
LEMMA IdleKeeps ==
    ASSUME NEW cal, NEW target, NEW state, CalendarRight(cal, target, state), NEW state2,
           \A u \in UEs : state2[u] = state[u] \/ state2[u] = "IDLE"
    PROVE  CalendarRight(cal, target, state2)
BY DEF CalendarRight, PendingRight

\* A transfer: the UE may have any target afterwards.
LEMMA TransferKeeps ==
    ASSUME NEW cal, NEW target, NEW state, CalendarRight(cal, target, state), ~IsEmpty(cal),
           NEW f, f = GetEvent(cal), f.kind = "TransferBearerInfo",
           NEW target2, \A u \in UEs : u # f.ue => target2[u] = target[u]
    PROVE  CalendarRight(RemoveEvent(InsertAll(cal, <<>>)), target2, state)
<1>1. PICK c1 : c1 = RemoveEvent(cal)
  OBVIOUS
<1>2. RemoveEvent(InsertAll(cal, <<>>)) = c1
  BY <1>1, RemoveInsertAll DEF CalendarRight
<1>3. IsCalendar(c1, Events) /\ IsCalendar(cal, Events)
  BY <1>1, Served DEF CalendarRight
<1>4. ASSUME NEW u \in UEs, u # f.ue
      PROVE  PendingRight(c1, u, target2[u], state[u])
  BY <1>1, <1>4, OtherServed DEF CalendarRight
<1>5. ASSUME NEW u \in UEs, u = f.ue
      PROVE  PendingRight(c1, u, target2[u], state[u])
  <2>1. PendingRight(cal, u, target[u], state[u])
    BY DEF CalendarRight
  <2>2. EventsOf(cal) = EventsOf(c1) \cup {f}
    BY <1>1, <1>3, Served
  <2>3. ~IsPending(c1, "TransferBearerInfo", u)
    BY <1>1, <1>3, <1>5, <2>1, Served DEF PendingRight
  <2>4. \A kind : Once(cal, Named(kind, u)) => Once(c1, Named(kind, u))
    BY <1>1, <1>3, Served
  <2>5. Ahead(c1, Named("TransferBearerInfo", u), Named("UpdateUserPosition", u))
    BY <1>1, <1>3, <2>1, Served DEF PendingRight
  <2>6. \A kind : kind # "TransferBearerInfo" /\ IsPending(cal, kind, u) => IsPending(c1, kind, u)
    BY <2>2 DEF IsPending
  <2>7. \E e \in EventsOf(c1) : e.kind = "UpdateUserPosition" /\ e.ue = u /\ e.ts <= MaxTime
    BY <2>1, <2>2 DEF PendingRight
  <2>8. \A e \in EventsOf(c1) : e.kind = "TransferBearerInfo" /\ e.ue = u => e.target # target2[u]
    BY <2>3 DEF IsPending
  <2> QED
    BY <2>1, <2>4, <2>5, <2>6, <2>7, <2>8 DEF PendingRight
<1> QED
  BY <1>2, <1>3, <1>4, <1>5 DEF CalendarRight

\* The end of a detachment or of an activity, for a UE that is in neither.
LEMMA EndKeeps ==
    ASSUME NEW cal, NEW target, NEW state, CalendarRight(cal, target, state), ~IsEmpty(cal),
           NEW f, f = GetEvent(cal),
           \/ f.kind = "MakeActive" /\ state[f.ue] # "DETACHED"
           \/ f.kind = "SetNodeState" /\ state[f.ue] = "IDLE"
    PROVE  CalendarRight(RemoveEvent(cal), target, state)
<1>1. PICK c1 : c1 = RemoveEvent(cal)
  OBVIOUS
<1>2. IsCalendar(c1, Events) /\ IsCalendar(cal, Events)
  BY <1>1, Served DEF CalendarRight
<1>3. ASSUME NEW u \in UEs, u # f.ue
      PROVE  PendingRight(c1, u, target[u], state[u])
  BY <1>1, <1>3, OtherServed DEF CalendarRight
<1>4. ASSUME NEW u \in UEs, u = f.ue
      PROVE  PendingRight(c1, u, target[u], state[u])
  <2>1. PendingRight(cal, u, target[u], state[u])
    BY DEF CalendarRight
  <2>2. EventsOf(cal) = EventsOf(c1) \cup {f}
    BY <1>1, <1>2, Served
  <2>3. \A kind : Once(cal, Named(kind, u)) => Once(c1, Named(kind, u))
    BY <1>1, <1>2, Served
  <2>4. Ahead(c1, Named("TransferBearerInfo", u), Named("UpdateUserPosition", u))
    BY <1>1, <1>2, <2>1, Served DEF PendingRight
  <2>5. \A kind : kind # f.kind /\ IsPending(cal, kind, u) => IsPending(c1, kind, u)
    BY <2>2 DEF IsPending
  <2>6. \E e \in EventsOf(c1) : e.kind = "UpdateUserPosition" /\ e.ue = u /\ e.ts <= MaxTime
    BY <2>1, <2>2 DEF PendingRight
  <2>7. \A e \in EventsOf(c1) : e.kind = "TransferBearerInfo" /\ e.ue = u => e.target # target[u]
    BY <2>1, <2>2 DEF PendingRight
  <2>8. state[u] = "DETACHED" => IsPending(c1, "MakeActive", u)
    BY <1>4, <2>1, <2>5 DEF PendingRight
  <2>9. state[u] = "ACTIVE" => IsPending(c1, "SetNodeState", u)
    BY <1>4, <2>1, <2>5 DEF PendingRight
  <2> QED
    BY <2>1, <2>3, <2>4, <2>6, <2>7, <2>8, <2>9 DEF PendingRight
<1> QED
  BY <1>1, <1>2, <1>3, <1>4 DEF CalendarRight

\* The idle timer of a UE is started again; the UE may be active then.
LEMMA ActivityKeeps ==
    ASSUME NEW cal, NEW target, NEW state, CalendarRight(cal, target, state),
           NEW now \in Nat, NEW ue \in UEs,
           NEW state2, state2[ue] = state[ue] \/ state2[ue] = "ACTIVE" \/ state2[ue] = "IDLE",
           \A u \in UEs : u # ue => state2[u] = state[u]
    PROVE  /\ CalendarRight(SetLastActivity(cal, now, ue), target, state2)
           /\ ~IsEmpty(cal) /\ GetEvent(cal).kind # "SetNodeState" /\ GetEvent(cal).ts <= now =>
                /\ ~IsEmpty(SetLastActivity(cal, now, ue))
                /\ GetEvent(SetLastActivity(cal, now, ue)) = GetEvent(cal)
<1>1. now + m_activityTimeout \in Nat /\ now <= now + m_activityTimeout
  BY TimerAssumption
<1>2. PICK n : n = UeAt(now + m_activityTimeout, "SetNodeState", ue)
  OBVIOUS
<1>3. n \in Events /\ n.ts = now + m_activityTimeout /\ n.kind = "SetNodeState" /\ n.ue = ue
  BY <1>1, <1>2, NewEvents
<1>4. PICK D : D = IdleTimers(ue)
  OBVIOUS
<1>5. \A e \in D : e.ue = ue /\ e.kind = "SetNodeState"
  BY <1>4 DEF IdleTimers
<1>6. ASSUME NEW e \in Events, e.kind = "SetNodeState", e.ue = ue
      PROVE  e \in D
  BY <1>4, <1>6 DEF IdleTimers, Events
<1>7. PICK c1 : c1 = WithoutEvents(cal, D)
  OBVIOUS
<1>8. PICK c2 : c2 = InsertEvent(c1, n)
  OBVIOUS
<1>9. c2 = SetLastActivity(cal, now, ue)
  BY <1>2, <1>4, <1>7, <1>8 DEF SetLastActivity
<1>10. IsCalendar(cal, Events) /\ IsCalendar(c1, Events) /\ EventsOf(c1) = EventsOf(cal) \ D
  BY <1>7, TakenOut DEF CalendarRight
<1>11. IsCalendar(c2, Events) /\ EventsOf(c2) = EventsOf(c1) \cup {n}
  BY <1>3, <1>8, <1>10, Inserted
<1>12. ASSUME NEW u \in UEs, u # ue
       PROVE  PendingRight(c2, u, target[u], state2[u])
  <2>1. PendingRight(cal, u, target[u], state2[u])
    BY <1>12 DEF CalendarRight
  <2>2. \A e \in D : e.ue # u
    BY <1>5, <1>12
  <2>3. PendingRight(c1, u, target[u], state2[u])
    BY <1>7, <1>10, <2>1, <2>2, OtherTakenOut
  <2> QED
    BY <1>3, <1>8, <1>10, <1>12, <2>3, OtherInserted
<1>13. PendingRight(c2, ue, target[ue], state2[ue])
  <2>1. PendingRight(cal, ue, target[ue], state[ue])
    BY DEF CalendarRight
  <2>2. ~IsPending(c1, "SetNodeState", ue)
    <3>1. \A e \in EventsOf(c1) : e \in Events
      BY <1>10, EventTypes
    <3> QED
      BY <1>6, <1>10, <3>1 DEF IsPending
  <2>3. \A kind : Once(cal, Named(kind, ue)) => Once(c1, Named(kind, ue))
    BY <1>7, <1>10, TakenOut
  <2>4. /\ Once(c1, Named("UpdateUserPosition", ue))
        /\ Once(c1, Named("TransferBearerInfo", ue))
        /\ Once(c1, Named("SetNodeState", ue))
    BY <2>1, <2>3 DEF PendingRight
  <2>5. /\ Once(c2, Named("UpdateUserPosition", ue))
        /\ Once(c2, Named("TransferBearerInfo", ue))
        /\ Once(c2, Named("SetNodeState", ue))
    BY <1>3, <1>8, <1>10, <2>2, <2>4, Inserted
  <2>6. Ahead(c1, Named("TransferBearerInfo", ue), Named("UpdateUserPosition", ue))
    BY <1>7, <1>10, <2>1, TakenOut DEF PendingRight
  <2>7. Ahead(c2, Named("TransferBearerInfo", ue), Named("UpdateUserPosition", ue))
    BY <1>3, <1>8, <1>10, <2>6, Inserted
  <2>8. \E e \in EventsOf(c2) : e.kind = "UpdateUserPosition" /\ e.ue = ue /\ e.ts <= MaxTime
    BY <1>5, <1>10, <1>11, <2>1 DEF PendingRight
  <2>9. \A e \in EventsOf(c2) : e.kind = "TransferBearerInfo" /\ e.ue = ue => e.target # target[ue]
    BY <1>3, <1>10, <1>11, <2>1 DEF PendingRight
  <2>10. IsPending(cal, "MakeActive", ue) => IsPending(c2, "MakeActive", ue)
    BY <1>5, <1>10, <1>11 DEF IsPending
  <2>11. IsPending(c2, "SetNodeState", ue)
    BY <1>3, <1>11 DEF IsPending
  <2>12. state2[ue] = "DETACHED" => state[ue] = "DETACHED"
    OBVIOUS
  <2> QED
    BY <2>1, <2>5, <2>7, <2>8, <2>9, <2>10, <2>11, <2>12 DEF PendingRight
<1>14. ASSUME ~IsEmpty(cal), GetEvent(cal).kind # "SetNodeState", GetEvent(cal).ts <= now
       PROVE  ~IsEmpty(c2) /\ GetEvent(c2) = GetEvent(cal)
  <2>1. GetEvent(cal) \notin D
    BY <1>5, <1>14
  <2>2. ~IsEmpty(c1) /\ GetEvent(c1) = GetEvent(cal)
    BY <1>7, <1>10, <1>14, <2>1, TakenOut
  <2>3. GetEvent(cal).ts \in Nat
    BY ServedIs, EventFields, <1>14
  <2>4. GetEvent(c1).ts <= n.ts /\ n.ts \in Nat
    BY <1>1, <1>3, <1>14, <2>2, <2>3
  <2>5. GetEvent(c2) = GetEvent(cal)
    BY <1>3, <1>8, <1>10, <2>2, <2>4, RemoveInsert
  <2>6. n \in EventsOf(c2)
    BY <1>11
  <2> QED
    BY <2>5, <2>6, NotEmpty
<1> QED
  BY <1>9, <1>11, <1>12, <1>13, <1>14 DEF CalendarRight

-----------------------------------------------------------------------------
(***************************************************************************)
(* The lists of the cells                                                  *)
(***************************************************************************)

\* A list of the cell n when the UEs have these targets: a UE is in it at most
\* once, and only if the cell is its target.
ListRight(list, n, target) ==
    /\ list \in Seq(Devices)
    /\ UEsFirst(list)
    /\ \A ue \in UEs : AtMostOnce(list, ue) /\ (Has(list, ue) => n = target[ue])

\* The records and the bearers of the cells: those of the UEs they are the target of.
RecordsRight(records, bearers, target) ==
    /\ records = [n \in Nodes |-> records[n]]
    /\ bearers \in [Nodes -> SUBSET UEs]
    /\ \A n \in Nodes : ListRight(records[n], n, target)
    /\ \A n \in Nodes, ue \in UEs :
            /\ n = target[ue] => Has(records[n], ue)
            /\ ue \in bearers[n] <=> n = target[ue]

\* The listeners of a kind of channel.
ListenersRight(lists, target) ==
    /\ lists = [n \in Nodes |-> lists[n]]
    /\ \A n \in Nodes : ListRight(lists[n], n, target)

\* A UE is added to a list of its target cell.
LEMMA UEAdded ==
    ASSUME NEW list, NEW n, NEW target, ListRight(list, n, target), NEW ue \in UEs,
           ~Has(list, ue), NEW target2, n = target2[ue],
           \A u \in UEs : u # ue => target2[u] = target[u]
    PROVE  /\ ListRight(AddDevice(list, ue), n, target2)
           /\ ListRight(RegisterUserEquipment(list, ue), n, target2)
           /\ \A u \in UEs :
                /\ Has(AddDevice(list, ue), u) <=> u = ue \/ Has(list, u)
                /\ Has(RegisterUserEquipment(list, ue), u) <=> u = ue \/ Has(list, u)
<1>1. ue \in Devices /\ ue \notin MulticastDestinations /\ list \in Seq(Devices)
  BY DevicesAssumption DEF Devices, ListRight
<1>2. ASSUME NEW kind
      PROVE  /\ ListRight(Listed(kind, list, ue), n, target2)
             /\ \A u \in UEs : Has(Listed(kind, list, ue), u) <=> u = ue \/ Has(list, u)
  <2>1. PICK new : new = Listed(kind, list, ue)
    OBVIOUS
  <2>2. new \in Seq(Devices) /\ \A x : Has(new, x) <=> x = ue \/ Has(list, x)
    BY <1>1, <2>1, ListedIs
  <2>3. ASSUME NEW u \in UEs
        PROVE  AtMostOnce(new, u)
    <3>1. AtMostOnce(list, u) /\ (u = ue => ~Has(list, u))
      BY DEF ListRight
    <3> QED
      BY <1>1, <2>1, <3>1, ListedIs
  <2>4. UEsFirst(new)
    BY <1>1, <2>1, ListedIs DEF ListRight
  <2>5. \A u \in UEs : Has(new, u) => n = target2[u]
    BY <2>2 DEF ListRight
  <2> QED
    BY <2>1, <2>2, <2>3, <2>4, <2>5 DEF ListRight
<1>3. /\ Listed("records", list, ue) = RegisterUserEquipment(list, ue)
      /\ Listed("Dl", list, ue) = AddDevice(list, ue)
  BY DEF Listed
<1> QED
  BY <1>2, <1>3

\* A UE is taken from a list of the cell that was its target.
LEMMA UETaken ==
    ASSUME NEW list, NEW n, NEW target, ListRight(list, n, target), NEW ue \in UEs,
           NEW target2, \A u \in UEs : u # ue => target2[u] = target[u]
    PROVE  /\ ListRight(Without(list, ue), n, target2)
           /\ \A u \in UEs : Has(Without(list, ue), u) <=> u # ue /\ Has(list, u)
<1>1. list \in Seq(Devices)
  BY DEF ListRight
<1>2. PICK new : new = Without(list, ue)
  OBVIOUS
<1>3. /\ new \in Seq(Devices)
      /\ \A x : Has(new, x) <=> x # ue /\ Has(list, x)
      /\ \A x : AtMostOnce(list, x) => AtMostOnce(new, x)
      /\ UEsFirst(list) => UEsFirst(new)
  BY <1>1, <1>2, ListWithoutIs
<1> QED
  BY <1>2, <1>3 DEF ListRight

\* A list of a third cell.
LEMMA OtherList ==
    ASSUME NEW list, NEW n, NEW target, ListRight(list, n, target), NEW ue \in UEs,
           ~Has(list, ue), NEW target2, \A u \in UEs : u # ue => target2[u] = target[u]
    PROVE  ListRight(list, n, target2)
BY DEF ListRight

\* The listeners of a kind of channel after a transfer.
LEMMA ListenersMoved ==
    ASSUME NEW lists, NEW target, ListenersRight(lists, target), NEW ue \in UEs,
           NEW old \in Nodes, NEW new \in Nodes, old = target[ue], new # old,
           NEW target2, target2[ue] = new, \A u \in UEs : u # ue => target2[u] = target[u]
    PROVE  ListenersRight(Moved(lists, old, new, ue), target2)
<1>1. PICK after : after = Moved(lists, old, new, ue)
  OBVIOUS
<1>2. /\ lists = [n \in Nodes |-> lists[n]]
      /\ \A n \in Nodes : ListRight(lists[n], n, target)
      /\ \A n \in Nodes : n # old => ~Has(lists[n], ue)
  BY DEF ListenersRight, ListRight
<1>3. CASE Has(lists[old], ue)
  <2>1. after = [n \in Nodes |-> IF n = old THEN Without(lists[n], ue)
                                 ELSE IF n = new THEN AddDevice(lists[n], ue) ELSE lists[n]]
    BY <1>1, <1>2, <1>3 DEF Moved
  <2>2. ListRight(Without(lists[old], ue), old, target2)
    BY <1>2, UETaken
  <2>3. ListRight(AddDevice(lists[new], ue), new, target2)
    BY <1>2, UEAdded
  <2>4. \A n \in Nodes : n # old => ListRight(lists[n], n, target2)
    BY <1>2, OtherList
  <2> QED
    BY <1>1, <2>1, <2>2, <2>3, <2>4 DEF ListenersRight
<1>4. CASE ~Has(lists[old], ue)
  <2>1. \A n \in Nodes : ~Has(lists[n], ue)
    BY <1>2, <1>4
  <2>2. \A n \in Nodes : ListRight(lists[n], n, target2)
    BY <1>2, <2>1, OtherList
  <2>3. after = lists
    BY <1>1, <1>4 DEF Moved
  <2> QED
    BY <1>1, <1>2, <2>2, <2>3 DEF ListenersRight
<1> QED
  BY <1>3, <1>4

\* The records and the bearers after a transfer.
LEMMA RecordsMoved ==
    ASSUME NEW records, NEW bearers, NEW target, RecordsRight(records, bearers, target),
           NEW ue \in UEs, NEW old \in Nodes, NEW new \in Nodes, old = target[ue], new # old,
           NEW target2, target2[ue] = new, \A u \in UEs : u # ue => target2[u] = target[u],
           NEW records2,
           records2 = [n \in Nodes |->
                LET list == IF n = new THEN RegisterUserEquipment(records[n], ue) ELSE records[n]
                IN  IF n = old THEN Without(list, ue) ELSE list],
           NEW bearers2,
           bearers2 = [n \in Nodes |->
                IF n = old THEN bearers[n] \ {ue}
                ELSE IF n = new /\ ue \in bearers[old] THEN bearers[n] \cup {ue}
                ELSE bearers[n]]
    PROVE  RecordsRight(records2, bearers2, target2)
<1>1. /\ \A n \in Nodes : ListRight(records[n], n, target)
      /\ \A n \in Nodes, u \in UEs : Has(records[n], u) <=> n = target[u]
      /\ \A n \in Nodes, u \in UEs : u \in bearers[n] <=> n = target[u]
  BY DEF RecordsRight, ListRight
<1>2. bearers2 \in [Nodes -> SUBSET UEs]
  BY DEF RecordsRight
<1>3. \A n \in Nodes, u \in UEs : u \in bearers2[n] <=> n = target2[u]
  BY <1>1
<1>4. /\ records2 = [n \in Nodes |-> records2[n]]
      /\ records2[old] = Without(records[old], ue)
      /\ records2[new] = RegisterUserEquipment(records[new], ue)
      /\ \A n \in Nodes : n # old /\ n # new => records2[n] = records[n]
  OBVIOUS
<1>5. /\ ListRight(records2[old], old, target2)
      /\ \A u \in UEs : Has(records2[old], u) <=> u # ue /\ Has(records[old], u)
  <2>1. PICK list : list = records[old]
    OBVIOUS
  <2>2. ListRight(list, old, target)
    BY <1>1, <2>1
  <2>3. /\ ListRight(Without(list, ue), old, target2)
        /\ \A u \in UEs : Has(Without(list, ue), u) <=> u # ue /\ Has(list, u)
    BY <2>2, UETaken
  <2> QED
    BY <1>4, <2>1, <2>3
<1>6. /\ ListRight(records2[new], new, target2)
      /\ \A u \in UEs : Has(records2[new], u) <=> u = ue \/ Has(records[new], u)
  BY <1>1, <1>4, UEAdded
<1>7. ASSUME NEW n \in Nodes, n # old, n # new
      PROVE  ListRight(records2[n], n, target2)
  BY <1>1, <1>4, <1>7, OtherList
<1>8. \A n \in Nodes, u \in UEs : n = target2[u] => Has(records2[n], u)
  BY <1>1, <1>4, <1>5, <1>6
<1> QED
  BY <1>2, <1>3, <1>4, <1>5, <1>6, <1>7, <1>8 DEF RecordsRight

-----------------------------------------------------------------------------
(***************************************************************************)
(* The start                                                               *)
(***************************************************************************)

\* Some of the devices, in the order of all of them.
LEMMA OrderedIs ==
    ASSUME NEW order \in SetToSeqs(Devices), NEW S, S \subseteq Devices
    PROVE  LET some == Kept(order, Devices \ S) IN
           /\ some \in Seq(Devices)
           /\ \A i, j \in 1..Len(some) : some[i] = some[j] => i = j
           /\ \A x : Has(some, x) <=> x \in S
<1>1. IsFiniteSet(Devices) /\ Cardinality(Devices) \in Nat
  BY DevicesAssumption, FS_CardinalityType
<1>2. PICK n \in Nat : n = Cardinality(Devices)
  BY <1>1
<1>3. order \in [1..n -> Devices] /\ \A i, j \in 1..n : i # j => order[i] # order[j]
  BY <1>2 DEF SetToSeqs
<1>4. order \in Seq(Devices) /\ Len(order) = n
  BY <1>3
<1>5. \A d \in Devices : \E i \in 1..n : order[i] = d
  <2>1. order \in Injection(1..n, Devices)
    BY <1>3 DEF Injection, IsInjective
  <2>2. Cardinality(1..n) = n
    BY FS_Interval
  <2>3. order \in Surjection(1..n, Devices)
    BY <1>1, <1>2, <2>1, <2>2, FS_Injection
  <2> QED
    BY <2>3 DEF Surjection
<1>6. PICK D : D = Devices \ S
  OBVIOUS
<1>7. PICK some : some = Kept(order, D)
  OBVIOUS
<1>8. PICK h \in [1..Len(some) -> 1..Len(order)] :
        /\ \A i \in 1..Len(some) : some[i] = order[h[i]] /\ order[h[i]] \notin D
        /\ \A i, j \in 1..Len(some) : i < j => h[i] < h[j]
        /\ \A m \in 1..Len(order) : order[m] \notin D => \E i \in 1..Len(some) : h[i] = m
  <2>1. PICK o \in Seq(Devices) : o = order
    BY <1>4
  <2>2. some = Kept(o, D)
    BY <1>7, <2>1
  <2>3. \E h \in [1..Len(some) -> 1..Len(o)] :
            /\ \A i \in 1..Len(some) : some[i] = o[h[i]] /\ o[h[i]] \notin D
            /\ \A i, j \in 1..Len(some) : i < j => h[i] < h[j]
            /\ \A m \in 1..Len(o) : o[m] \notin D => \E i \in 1..Len(some) : h[i] = m
    BY <2>2, KeptIs, SMTT(20)
  <2> QED
    BY <2>1, <2>3
<1>9. some \in Seq(Devices)
  BY <1>4, <1>7, KeptIs
<1>10. ASSUME NEW i \in 1..Len(some), NEW j \in 1..Len(some), some[i] = some[j]
       PROVE  i = j
  <2>1. h[i] \in 1..n /\ h[j] \in 1..n
    BY <1>4, <1>8
  <2>2. h[i] = h[j]
    BY <1>3, <1>8, <1>10, <2>1
  <2>3. ~(h[i] < h[j]) /\ ~(h[j] < h[i])
    BY <2>1, <2>2
  <2>4. ~(i < j) /\ ~(j < i)
    BY <1>8, <2>3
  <2> QED
    BY <2>4
<1>11. ASSUME NEW x
       PROVE  Has(some, x) <=> x \in S
  <2>1. ASSUME NEW i \in 1..Len(some), some[i] = x
        PROVE  x \in S
    <3>1. x \in Devices /\ x \notin D
      BY <1>3, <1>4, <1>8, <2>1
    <3> QED
      BY <1>6, <3>1
  <2>2. ASSUME x \in S
        PROVE  \E i \in 1..Len(some) : some[i] = x
    <3>1. PICK m \in 1..n : order[m] = x
      BY <1>5, <2>2
    <3>2. PICK i \in 1..Len(some) : h[i] = m
      BY <1>4, <1>6, <1>8, <2>2, <3>1
    <3> QED
      BY <1>8, <3>1, <3>2
  <2> QED
    BY <2>1, <2>2 DEF Has
<1> QED
  BY <1>6, <1>7, <1>9, <1>10, <1>11

\* The records of a cell are filled with its multicast destinations, then with
\* its UEs.
LEMMA RecordsFilled ==
    ASSUME NEW order \in SetToSeqs(Devices), NEW M, M \subseteq MulticastDestinations,
           NEW U, U \subseteq UEs
    PROVE  LET list == ListOf("records", Kept(order, Devices \ M) \o Kept(order, Devices \ U)) IN
           /\ list \in Seq(Devices)
           /\ UEsFirst(list)
           /\ \A x : AtMostOnce(list, x)
           /\ \A x : Has(list, x) <=> x \in M \cup U
<1>1. PICK a, b : a = Kept(order, Devices \ M) /\ b = Kept(order, Devices \ U)
  OBVIOUS
<1>2. M \subseteq Devices /\ U \subseteq Devices /\ M \cap U = {}
  BY DevicesAssumption DEF Devices
<1>3. /\ a \in Seq(Devices)
      /\ \A i, j \in 1..Len(a) : a[i] = a[j] => i = j
      /\ \A x : Has(a, x) <=> x \in M
  BY <1>1, <1>2, OrderedIs
<1>4. /\ b \in Seq(Devices)
      /\ \A i, j \in 1..Len(b) : b[i] = b[j] => i = j
      /\ \A x : Has(b, x) <=> x \in U
  BY <1>1, <1>2, OrderedIs
<1>5. PICK s : s = a \o b
  OBVIOUS
<1>6. PICK m \in Nat, n \in Nat : m = Len(a) /\ n = Len(b)
  BY <1>3, <1>4
<1>7. s \in Seq(Devices) /\ Len(s) = m + n
  <2>1. a \in Seq(Devices) /\ b \in Seq(Devices)
    BY <1>3, <1>4
  <2> QED
    BY <1>5, <1>6, <2>1
<1>8. \A i \in 1..m : s[i] = a[i] /\ s[i] \in M
  <2>1. \A i \in 1..m : s[i] = a[i]
    BY <1>3, <1>4, <1>5, <1>6
  <2>2. \A i \in 1..m : a[i] \in M
    BY <1>3, <1>6 DEF Has
  <2> QED
    BY <2>1, <2>2
<1>9. \A i \in (m + 1)..(m + n) : s[i] = b[i - m] /\ s[i] \in U
  <2>1. \A i \in (m + 1)..(m + n) : s[i] = b[i - m]
    BY <1>3, <1>4, <1>5, <1>6
  <2>2. \A i \in 1..n : b[i] \in U
    BY <1>4, <1>6 DEF Has
  <2>3. \A i \in (m + 1)..(m + n) : i - m \in 1..n
    OBVIOUS
  <2> QED
    BY <2>1, <2>2, <2>3
<1>10. \A i \in 1..(m + n) : i \in 1..m \/ i \in (m + 1)..(m + n)
  OBVIOUS
<1>11. ASSUME NEW i \in 1..(m + n), NEW j \in 1..(m + n), s[i] = s[j]
       PROVE  i = j
  <2>1. i \in 1..m <=> j \in 1..m
    BY <1>2, <1>8, <1>9, <1>10, <1>11
  <2>2. CASE i \in 1..m
    BY <1>3, <1>6, <1>8, <1>11, <2>1, <2>2
  <2>3. CASE i \in (m + 1)..(m + n)
    <3>1. j \in (m + 1)..(m + n)
      BY <1>10, <2>1, <2>3
    <3>2. i - m \in 1..n /\ j - m \in 1..n
      BY <2>3, <3>1
    <3>3. b[i - m] = b[j - m]
      BY <1>9, <1>11, <2>3, <3>1
    <3>4. i - m = j - m
      BY <1>4, <1>6, <3>2, <3>3
    <3> QED
      BY <3>4
  <2> QED
    BY <1>10, <2>2, <2>3
<1>12. ASSUME NEW i \in 1..(m + n), NEW j \in 1..(m + n), i < j, s[j] \in MulticastDestinations
       PROVE  s[i] \in MulticastDestinations
  <2>1. j \in 1..m
    BY <1>9, <1>10, <1>12, DevicesAssumption
  <2>2. i \in 1..m
    BY <1>12, <2>1
  <2> QED
    BY <1>8, <2>2
<1>13. ASSUME NEW x
       PROVE  Has(s, x) <=> x \in M \cup U
  <2>1. ASSUME NEW i \in 1..(m + n), s[i] = x
        PROVE  x \in M \cup U
    BY <1>8, <1>9, <1>10, <2>1
  <2>2. ASSUME x \in M
        PROVE  \E i \in 1..(m + n) : s[i] = x
    <3>1. PICK i \in 1..m : a[i] = x
      BY <1>3, <1>6, <2>2 DEF Has
    <3>2. i \in 1..(m + n) /\ s[i] = x
      BY <1>8, <3>1
    <3> QED
      BY <3>2
  <2>3. ASSUME x \in U
        PROVE  \E i \in 1..(m + n) : s[i] = x
    <3>1. PICK i \in 1..n : b[i] = x
      BY <1>4, <1>6, <2>3 DEF Has
    <3>2. i + m \in (m + 1)..(m + n) /\ i + m \in 1..(m + n) /\ (i + m) - m = i
      OBVIOUS
    <3> QED
      BY <1>9, <3>1, <3>2
  <2> QED
    BY <1>7, <2>1, <2>2, <2>3 DEF Has
<1>14. PICK list : list = ListOf("records", s)
  OBVIOUS
<1>15. /\ list \in Seq(Devices)
       /\ \A x : Has(list, x) <=> Has(s, x)
       /\ \A x : AtMostOnce(list, x)
       /\ UEsFirst(list)
  BY <1>7, <1>11, <1>12, <1>14, ListOfIs
<1> QED
  BY <1>1, <1>5, <1>13, <1>14, <1>15

\* The first position updates.
LEMMA FirstUpdates ==
    ASSUME NEW target, NEW state, \A u \in UEs : state[u] = "IDLE",
           NEW n \in Nat, NEW ues \in [1..n -> UEs],
           \A i, j \in 1..n : ues[i] = ues[j] => i = j,
           \A u \in UEs : \E i \in 1..n : ues[i] = u,
           NEW es \in Seq(Events), Len(es) = n,
           \A i \in 1..n : es[i] = UeAt(1, "UpdateUserPosition", ues[i])
    PROVE  CalendarRight(InsertEvents(EmptyCalendar, 1, es), target, state)
<1>1. ASSUME NEW i \in 1..n
      PROVE  /\ es[i] \in Events /\ es[i].ts = 1
             /\ es[i].kind = "UpdateUserPosition" /\ es[i].ue = ues[i]
  <2>1. PICK ts \in Nat, u \in UEs :
            /\ ts = 1 /\ u = ues[i] /\ es[i] = UeAt(ts, "UpdateUserPosition", u)
    OBVIOUS
  <2>2. PICK e : e = UeAt(ts, "UpdateUserPosition", u)
    OBVIOUS
  <2>3. e \in Events /\ e.ts = ts /\ e.kind = "UpdateUserPosition" /\ e.ue = u
    BY <2>2, NewEvents
  <2>4. es[i] = e
    BY <2>1, <2>2
  <2> QED
    BY <2>1, <2>3, <2>4
<1>2. PICK cal : cal = InsertEvents(EmptyCalendar, 1, es)
  OBVIOUS
<1>3. CASE n = 0
  <2>1. es = <<>>
    BY <1>3
  <2>2. cal = [t \in {} |-> <<>>] /\ DOMAIN cal = {}
    BY <1>2, <2>1 DEF InsertEvents, EmptyCalendar
  <2>3. IsCalendar(cal, Events)
    BY <2>2 DEF IsCalendar
  <2>4. UEs = {}
    BY <1>3
  <2> QED
    BY <1>2, <2>3, <2>4 DEF CalendarRight
<1>4. CASE n > 0
  <2>1. es # <<>> /\ <<>> \o es = es
    BY <1>4
  <2>2. cal = [t \in {1} |-> es] /\ DOMAIN cal = {1} /\ cal[1] = es
    <3>1. DOMAIN EmptyCalendar = {}
      BY DEF EmptyCalendar
    <3>2. cal = [t \in {} \cup {1} |-> IF t = 1 THEN <<>> \o es ELSE EmptyCalendar[t]]
      BY <1>2, <2>1, <3>1 DEF InsertEvents, QueueAt
    <3> QED
      BY <2>1, <3>2
  <2>3. IsCalendar(cal, Events)
    BY <1>1, <2>1, <2>2 DEF IsCalendar
  <2>4. ASSUME NEW e
        PROVE  e \in EventsOf(cal) <=> \E i \in 1..n : e = es[i]
    BY <2>2, EventPlaces
  <2>5. ASSUME NEW u \in UEs
        PROVE  PendingRight(cal, u, target[u], state[u])
    <3>1. PICK i \in 1..n : ues[i] = u
      OBVIOUS
    <3>2. es[i] \in EventsOf(cal) /\ es[i].kind = "UpdateUserPosition" /\ es[i].ue = u
          /\ es[i].ts <= MaxTime
      BY <1>1, <2>4, <3>1, BoundsAssumption
    <3>3. \A k \in 1..n : es[k].kind = "UpdateUserPosition" /\ es[k].ue = ues[k]
      BY <1>1
    <3>4. Once(cal, Named("UpdateUserPosition", u))
      BY <2>2, <3>3 DEF Once, Named
    <3>5. /\ Once(cal, Named("TransferBearerInfo", u))
          /\ Once(cal, Named("SetNodeState", u))
          /\ Ahead(cal, Named("TransferBearerInfo", u), Named("UpdateUserPosition", u))
      BY <2>2, <3>3 DEF Once, Ahead, Named
    <3>6. \A e \in EventsOf(cal) : e.kind # "TransferBearerInfo"
      BY <2>4, <3>3
    <3> QED
      BY <3>2, <3>4, <3>5, <3>6 DEF PendingRight
  <2> QED
    BY <1>2, <2>3, <2>5 DEF CalendarRight
<1> QED
  BY <1>3, <1>4

-----------------------------------------------------------------------------
(***************************************************************************)
(* The inductive invariant                                                 *)
(***************************************************************************)

\* The listeners of every kind of channel.
AttachedRight(attached, target) ==
    /\ attached = [k \in ChannelKinds |-> attached[k]]
    /\ \A k \in ChannelKinds : ListenersRight(attached[k], target)

IInv ==
    /\ CalendarRight(m_events, m_targetNode, m_state)
    /\ m_currentTs \in 0..MaxTime
    /\ m_state \in [UEs -> States]
    /\ m_targetNode \in [UEs -> Nodes]
    /\ m_targetNodeRecord = m_targetNode
    /\ RecordsRight(m_userEquipmentRecords, m_bearers, m_targetNode)
    /\ AttachedRight(m_attachedDevices, m_targetNode)
    /\ inputs \in [UEs -> 0..MaxInputs]

\* The operators of the invariant on the values of the next state.
LEMMA CalendarRightNext ==
    CalendarRight(m_events, m_targetNode, m_state)'
        <=> CalendarRight(m_events', m_targetNode', m_state')
BY DEF CalendarRight, PendingRight, IsCalendar, Once, Ahead, IsPending, EventsOf, Named, Events, Nodes

\* The invariant of the records in the next state is that of the next records.
LEMMA RecordsRightNext ==
    RecordsRight(m_userEquipmentRecords, m_bearers, m_targetNode)'
        <=> RecordsRight(m_userEquipmentRecords', m_bearers', m_targetNode')
BY DEF RecordsRight, ListRight, UEsFirst, AtMostOnce, Has, Devices, Nodes

\* The invariant of the attached devices in the next state is that of the next lists.
LEMMA AttachedRightNext ==
    AttachedRight(m_attachedDevices, m_targetNode)'
        <=> AttachedRight(m_attachedDevices', m_targetNode')
BY DEF AttachedRight, ListenersRight, ListRight, UEsFirst, AtMostOnce, Has, Devices, Nodes

\* The scenario sets it up.
LEMMA InitRight == Init => IInv
<1> SUFFICES ASSUME Init PROVE IInv
  OBVIOUS
<1>1. PICK order \in SetToSeqs(Devices), cell \in [MulticastDestinations -> GNBs],
           attached \in SUBSET UEs :
        /\ m_userEquipmentRecords = [n \in Nodes |->
                ListOf("records", Kept(order, Devices \ {d \in MulticastDestinations : cell[d] = n})
                                  \o Kept(order, Devices \ {u \in UEs : m_targetNode[u] = n}))]
        /\ m_attachedDevices = [k \in ChannelKinds |-> [n \in Nodes |->
                ListOf(k, Kept(order, Devices \ ({d \in MulticastDestinations : cell[d] = n}
                                \cup ({u \in UEs : m_targetNode[u] = n} \cap attached))))]]
        /\ m_events = InsertEvents(EmptyCalendar, 1,
                [i \in 1..Len(Kept(order, Devices \ UEs)) |->
                    UeAt(1, "UpdateUserPosition", Kept(order, Devices \ UEs)[i])])
  BY Zenon DEF Init
<1>2. m_targetNode \in [UEs -> Nodes] /\ m_state = [u \in UEs |-> "IDLE"]
  BY DEF Init
<1>3. CalendarRight(m_events, m_targetNode, m_state)
  <2>1. PICK U : U = UEs
    OBVIOUS
  <2>2. PICK ues : ues = Kept(order, Devices \ U)
    OBVIOUS
  <2>3. U \subseteq Devices
    BY <2>1 DEF Devices
  <2>4. /\ ues \in Seq(Devices)
        /\ \A i, j \in 1..Len(ues) : ues[i] = ues[j] => i = j
        /\ \A x : Has(ues, x) <=> x \in U
    BY <2>2, <2>3, OrderedIs
  <2>5. PICK n \in Nat : n = Len(ues)
    BY <2>4
  <2>6. ues \in [1..n -> UEs] /\ \A u \in UEs : \E i \in 1..n : ues[i] = u
    BY <2>1, <2>4, <2>5 DEF Has
  <2>7. PICK es : es = [i \in 1..n |-> UeAt(1, "UpdateUserPosition", ues[i])]
    OBVIOUS
  <2>8. \A i \in 1..n : UeAt(1, "UpdateUserPosition", ues[i]) \in Events
    BY <2>6, NewEvents
  <2>9. es \in Seq(Events) /\ Len(es) = n
    BY <2>7, <2>8
  <2>10. m_events = InsertEvents(EmptyCalendar, 1, es)
    BY <1>1, <2>1, <2>2, <2>5, <2>7
  <2>11. \A u \in UEs : m_state[u] = "IDLE"
    BY <1>2
  <2>12. /\ \A i, j \in 1..n : ues[i] = ues[j] => i = j
         /\ \A i \in 1..n : es[i] = UeAt(1, "UpdateUserPosition", ues[i])
    BY <2>4, <2>5, <2>7
  <2> QED
    BY <2>6, <2>9, <2>10, <2>11, <2>12, FirstUpdates
<1>4. RecordsRight(m_userEquipmentRecords, m_bearers, m_targetNode)
  <2>1. m_bearers = [n \in Nodes |-> {u \in UEs : m_targetNode[u] = n}]
    BY DEF Init
  <2>2. ASSUME NEW n \in Nodes
        PROVE  /\ ListRight(m_userEquipmentRecords[n], n, m_targetNode)
               /\ \A u \in UEs : n = m_targetNode[u] => Has(m_userEquipmentRecords[n], u)
    <3>1. PICK M, U : M = {d \in MulticastDestinations : cell[d] = n}
                      /\ U = {u \in UEs : m_targetNode[u] = n}
      OBVIOUS
    <3>2. PICK list : list = ListOf("records", Kept(order, Devices \ M) \o Kept(order, Devices \ U))
      OBVIOUS
    <3>3. m_userEquipmentRecords[n] = list
      BY <1>1, <3>1, <3>2
    <3>4. M \subseteq MulticastDestinations /\ U \subseteq UEs
      BY <3>1
    <3>5. /\ list \in Seq(Devices)
          /\ UEsFirst(list)
          /\ \A x : AtMostOnce(list, x)
          /\ \A x : Has(list, x) <=> x \in M \cup U
      BY <3>2, <3>4, RecordsFilled
    <3>6. \A u \in UEs : u \in M \cup U <=> n = m_targetNode[u]
      BY <3>1, DevicesAssumption
    <3> QED
      BY <3>3, <3>5, <3>6 DEF ListRight
  <2> QED
    BY <1>1, <2>1, <2>2 DEF RecordsRight
<1>5. AttachedRight(m_attachedDevices, m_targetNode)
  <2>1. ASSUME NEW k \in ChannelKinds, NEW n \in Nodes
        PROVE  ListRight(m_attachedDevices[k][n], n, m_targetNode)
    <3>1. PICK S : S = {d \in MulticastDestinations : cell[d] = n}
                       \cup ({u \in UEs : m_targetNode[u] = n} \cap attached)
      OBVIOUS
    <3>2. PICK devices : devices = Kept(order, Devices \ S)
      OBVIOUS
    <3>3. PICK list : list = ListOf(k, devices)
      OBVIOUS
    <3>4. m_attachedDevices[k][n] = list
      BY <1>1, <3>1, <3>2, <3>3
    <3>5. S \subseteq Devices
      BY <3>1 DEF Devices
    <3>6. /\ devices \in Seq(Devices)
          /\ \A i, j \in 1..Len(devices) : devices[i] = devices[j] => i = j
          /\ \A x : Has(devices, x) <=> x \in S
      BY <3>2, <3>5, OrderedIs
    <3>7. k # "records"
      BY ChannelsAssumption
    <3>8. /\ list \in Seq(Devices)
          /\ \A x : Has(list, x) <=> Has(devices, x)
          /\ \A x : AtMostOnce(list, x)
          /\ UEsFirst(list)
      BY <3>3, <3>6, <3>7, ListOfIs
    <3>9. \A u \in UEs : u \in S => n = m_targetNode[u]
      BY <3>1, DevicesAssumption
    <3> QED
      BY <3>4, <3>6, <3>8, <3>9 DEF ListRight
  <2> QED
    BY <1>1, <2>1 DEF AttachedRight, ListenersRight
<1>6. /\ m_currentTs \in 0..MaxTime
      /\ m_state \in [UEs -> States]
      /\ m_targetNodeRecord = m_targetNode
      /\ inputs \in [UEs -> 0..MaxInputs]
  BY BoundsAssumption DEF Init, States
<1> QED
  BY <1>2, <1>3, <1>4, <1>5, <1>6 DEF IInv

\* A position update.
LEMMA UpdateRight == IInv /\ UpdateUserPosition => IInv'
<1> SUFFICES ASSUME IInv, UpdateUserPosition
             PROVE  IInv'
  OBVIOUS
<1>1. PICK f : f = GetEvent(m_events)
  OBVIOUS
<1>2. PICK ue : ue = f.ue
  OBVIOUS
<1>3. /\ ~IsEmpty(m_events) /\ f.kind = "UpdateUserPosition" /\ m_currentTs' = f.ts
      /\ f.ts < MaxTime /\ UNCHANGED <<network, inputs>>
  BY <1>1 DEF UpdateUserPosition, Serve, Now
<1>4. CalendarRight(m_events, m_targetNode, m_state)
  BY DEF IInv
<1>5. f \in Events /\ f.ts \in 0..MaxTime /\ ue \in UEs
  BY <1>1, <1>2, <1>3, <1>4, ServedIs, EventFields, BoundsAssumption
<1>6. PICK next : next = UeAt(f.ts + 1, "UpdateUserPosition", ue)
  OBVIOUS
<1>7. \/ Done(<<next>>) /\ UNCHANGED m_state
      \/ \E target \in {n \in Nodes \ {m_targetNode[ue]} : <<n, ue>> \in Permitted} :
            /\ m_state[ue] # "DETACHED"
            /\ m_state' = [m_state EXCEPT ![ue] = "DETACHED"]
            /\ Done(Append(HandoverEvents(ue, target), next))
  BY <1>1, <1>2, <1>6 DEF UpdateUserPosition, TheUE, Now
<1>8. CalendarRight(m_events', m_targetNode, m_state') /\ m_state' \in [UEs -> States]
  <2>1. CASE Done(<<next>>) /\ UNCHANGED m_state
    <3>1. m_events' = RemoveEvent(InsertAll(m_events, <<UeAt(f.ts + 1, "UpdateUserPosition", f.ue)>>))
      BY <1>2, <1>6, <2>1 DEF Done
    <3>2. CalendarRight(RemoveEvent(InsertAll(m_events, <<UeAt(f.ts + 1, "UpdateUserPosition", f.ue)>>)),
                        m_targetNode, m_state)
      BY <1>1, <1>3, <1>4, UpdateKeeps
    <3> QED
      BY <2>1, <3>1, <3>2 DEF IInv
  <2>2. CASE \E target \in {n \in Nodes \ {m_targetNode[ue]} : <<n, ue>> \in Permitted} :
                /\ m_state[ue] # "DETACHED"
                /\ m_state' = [m_state EXCEPT ![ue] = "DETACHED"]
                /\ Done(Append(HandoverEvents(ue, target), next))
    <3>1. PICK target \in Nodes :
                /\ target # m_targetNode[ue]
                /\ m_state' = [m_state EXCEPT ![ue] = "DETACHED"]
                /\ Done(Append(HandoverEvents(ue, target), next))
      BY <2>2
    <3>2. /\ m_state' \in [UEs -> States] /\ m_state'[ue] = "DETACHED"
          /\ \A u \in UEs : u # ue => m_state'[u] = m_state[u]
      BY <1>5, <3>1 DEF IInv, States
    <3>3. Append(HandoverEvents(ue, target), next) =
            <<TransferAt(f.ts + 1, f.ue, target), UeAt(f.ts + m_detachTime, "MakeActive", f.ue),
              UeAt(f.ts + 1, "UpdateUserPosition", f.ue)>>
      <4>1. PICK t, m : /\ t = TransferAt(f.ts + 1, f.ue, target)
                        /\ m = UeAt(f.ts + m_detachTime, "MakeActive", f.ue)
        OBVIOUS
      <4>2. HandoverEvents(ue, target) = <<t, m>>
        BY <1>1, <1>2, <4>1 DEF HandoverEvents, Now
      <4>3. Append(<<t, m>>, next) = <<t, m, next>>
        <5>1. PICK E : E = {t, m, next}
          OBVIOUS
        <5>2. <<t, m>> \in Seq(E) /\ next \in E /\ <<t, m, next>> \in Seq(E)
          BY <5>1
        <5>6. Append(<<t, m>>, next) \in Seq(E)
          BY <5>2
        <5>3. PICK a \in Seq(E) : a = Append(<<t, m>>, next)
          BY <5>6
        <5>4. Len(a) = 3 /\ a[1] = t /\ a[2] = m /\ a[3] = next
          BY <5>2, <5>3
        <5>5. a = <<t, m, next>>
          BY <5>2, <5>4
        <5> QED
          BY <5>3, <5>5
      <4> QED
        BY <1>2, <1>6, <4>1, <4>2, <4>3
    <3>4. m_events' = RemoveEvent(InsertAll(m_events,
            <<TransferAt(f.ts + 1, f.ue, target), UeAt(f.ts + m_detachTime, "MakeActive", f.ue),
              UeAt(f.ts + 1, "UpdateUserPosition", f.ue)>>))
      BY <3>1, <3>3 DEF Done
    <3>5. CalendarRight(RemoveEvent(InsertAll(m_events,
            <<TransferAt(f.ts + 1, f.ue, target), UeAt(f.ts + m_detachTime, "MakeActive", f.ue),
              UeAt(f.ts + 1, "UpdateUserPosition", f.ue)>>)), m_targetNode, m_state')
      BY <1>1, <1>2, <1>3, <1>4, <3>1, <3>2, HandoverKeeps
    <3> QED
      BY <3>2, <3>4, <3>5
  <2> QED
    BY <1>7, <2>1, <2>2
<1>9. CalendarRight(m_events, m_targetNode, m_state)'
  BY <1>3, <1>8, CalendarRightNext DEF network
<1> QED
  BY <1>3, <1>5, <1>8, <1>9 DEF IInv, network, AttachedRight, RecordsRight

\* A transfer.
LEMMA TransferRight == IInv /\ TransferBearerInfo => IInv'
<1> SUFFICES ASSUME IInv, TransferBearerInfo
             PROVE  IInv'
  OBVIOUS
<1>1. PICK f : f = GetEvent(m_events)
  OBVIOUS
<1>2. PICK ue, old, new : ue = f.ue /\ old = m_targetNode[ue] /\ new = f.target
  OBVIOUS
<1>3. /\ ~IsEmpty(m_events) /\ f.kind = "TransferBearerInfo" /\ m_currentTs' = f.ts
      /\ UNCHANGED <<m_state, inputs>>
      /\ m_events' = RemoveEvent(InsertAll(m_events, <<>>))
  BY <1>1 DEF TransferBearerInfo, Serve, Now, Done
<1>4. /\ CalendarRight(m_events, m_targetNode, m_state)
      /\ RecordsRight(m_userEquipmentRecords, m_bearers, m_targetNode)
      /\ AttachedRight(m_attachedDevices, m_targetNode)
      /\ m_targetNode \in [UEs -> Nodes] /\ m_targetNodeRecord = m_targetNode
  BY DEF IInv
<1>5. f \in Events /\ f.ts \in 0..MaxTime /\ ue \in UEs /\ new \in Nodes /\ old \in Nodes
  BY <1>1, <1>2, <1>3, <1>4, ServedIs, EventFields, BoundsAssumption
<1>6. new # old
  <2>1. f \in EventsOf(m_events)
    BY <1>1, <1>3, <1>4, FirstEvent DEF CalendarRight
  <2> QED
    BY <1>2, <1>3, <1>4, <1>5, <2>1 DEF CalendarRight, PendingRight
<1>7. CASE ~Transferable(old, new)
  <2>1. UNCHANGED network
    BY <1>1, <1>2, <1>7 DEF TransferBearerInfo, TheUE
  <2>2. CalendarRight(m_events', m_targetNode, m_state)
    BY <1>1, <1>3, <1>4, TransferKeeps
  <2>3. CalendarRight(m_events, m_targetNode, m_state)'
    BY <1>3, <2>1, <2>2, CalendarRightNext DEF network
  <2> QED
    BY <1>3, <1>5, <2>1, <2>3 DEF IInv, network, AttachedRight, RecordsRight
<1>8. CASE Transferable(old, new)
  <2>1. m_targetNode' = [m_targetNode EXCEPT ![ue] = new]
    BY <1>1, <1>2, <1>8 DEF TransferBearerInfo, TheUE
  <2>2. m_targetNodeRecord' = [m_targetNodeRecord EXCEPT ![ue] = RecordAfter(old, new)]
    BY <1>1, <1>2, <1>8 DEF TransferBearerInfo, TheUE
  <2>3. m_attachedDevices' = [k \in ChannelKinds |-> Moved(m_attachedDevices[k], old, new, ue)]
    BY <1>1, <1>2, <1>8 DEF TransferBearerInfo, TheUE
  <2>4. m_userEquipmentRecords' = [n \in Nodes |->
            LET list == IF n = new THEN RegisterUserEquipment(m_userEquipmentRecords[n], ue)
                        ELSE m_userEquipmentRecords[n]
            IN  IF n = old THEN Without(list, ue) ELSE list]
    BY <1>1, <1>2, <1>8 DEF TransferBearerInfo, TheUE
  <2>5. m_bearers' = [n \in Nodes |->
            IF n = old THEN m_bearers[n] \ {ue}
            ELSE IF n = new /\ ue \in m_bearers[old] THEN m_bearers[n] \cup {ue}
            ELSE m_bearers[n]]
    BY <1>1, <1>2, <1>8 DEF TransferBearerInfo, TheUE
  <2>6. /\ m_targetNode' \in [UEs -> Nodes] /\ m_targetNode'[ue] = new
        /\ \A u \in UEs : u # ue => m_targetNode'[u] = m_targetNode[u]
    BY <1>4, <1>5, <2>1
  <2>7. m_targetNodeRecord' = m_targetNode'
    BY <1>4, <1>6, <2>1, <2>2 DEF RecordAfter
  <2>8. CalendarRight(m_events', m_targetNode', m_state)
    BY <1>1, <1>2, <1>3, <1>4, <2>6, TransferKeeps
  <2>9. RecordsRight(m_userEquipmentRecords', m_bearers', m_targetNode')
    <3>1. PICK records, bearers, target : /\ records = m_userEquipmentRecords
                                          /\ bearers = m_bearers /\ target = m_targetNode
      OBVIOUS
    <3>2. PICK records2, bearers2, target2 : /\ records2 = m_userEquipmentRecords'
                                             /\ bearers2 = m_bearers' /\ target2 = m_targetNode'
      OBVIOUS
    <3>3. RecordsRight(records, bearers, target) /\ old = target[ue]
      BY <1>2, <1>4, <3>1
    <3>4. target2[ue] = new /\ \A u \in UEs : u # ue => target2[u] = target[u]
      BY <2>6, <3>1, <3>2
    <3>5. records2 = [n \in Nodes |->
                LET list == IF n = new THEN RegisterUserEquipment(records[n], ue) ELSE records[n]
                IN  IF n = old THEN Without(list, ue) ELSE list]
      BY <2>4, <3>1, <3>2
    <3>6. bearers2 = [n \in Nodes |->
                IF n = old THEN bearers[n] \ {ue}
                ELSE IF n = new /\ ue \in bearers[old] THEN bearers[n] \cup {ue}
                ELSE bearers[n]]
      BY <2>5, <3>1, <3>2
    <3>7. RecordsRight(records2, bearers2, target2)
      BY <1>5, <1>6, <3>3, <3>4, <3>5, <3>6, RecordsMoved
    <3> QED
      BY <3>2, <3>7
  <2>10. AttachedRight(m_attachedDevices', m_targetNode')
    <3>1. ASSUME NEW k \in ChannelKinds
          PROVE  ListenersRight(Moved(m_attachedDevices[k], old, new, ue), m_targetNode')
      <4>1. ListenersRight(m_attachedDevices[k], m_targetNode)
        BY <1>4 DEF AttachedRight
      <4> QED
        BY <1>2, <1>5, <1>6, <2>6, <4>1, ListenersMoved
    <3> QED
      BY <2>3, <3>1 DEF AttachedRight
  <2>11. /\ CalendarRight(m_events, m_targetNode, m_state)'
         /\ RecordsRight(m_userEquipmentRecords, m_bearers, m_targetNode)'
         /\ AttachedRight(m_attachedDevices, m_targetNode)'
    BY <1>3, <2>8, <2>9, <2>10, CalendarRightNext, RecordsRightNext, AttachedRightNext
  <2> QED
    BY <1>3, <1>5, <2>6, <2>7, <2>11 DEF IInv
<1> QED
  BY <1>7, <1>8

\* A UE is woken up at the time now, in its target cell; its timer is started if
\* the cell has a scheduler.
LEMMA WokenRight ==
    ASSUME NEW cal, NEW target, NEW state, CalendarRight(cal, target, state),
           NEW now \in Nat, NEW ue \in UEs, NEW cal2, NEW state2,
           \/ state2[ue] = "ACTIVE" /\ cal2 = SetLastActivity(cal, now, ue)
           \/ state2[ue] = "IDLE" /\ cal2 = cal,
           \A u \in UEs : u # ue => state2[u] = state[u]
    PROVE  /\ CalendarRight(cal2, target, state2)
           /\ ~IsEmpty(cal) /\ GetEvent(cal).kind # "SetNodeState" /\ GetEvent(cal).ts <= now =>
                ~IsEmpty(cal2) /\ GetEvent(cal2) = GetEvent(cal)
<1>1. CASE state2[ue] = "ACTIVE" /\ cal2 = SetLastActivity(cal, now, ue)
  <2>1. CalendarRight(cal2, target, state2)
    BY <1>1, ActivityKeeps
  <2>2. ~IsEmpty(cal) /\ GetEvent(cal).kind # "SetNodeState" /\ GetEvent(cal).ts <= now =>
            ~IsEmpty(cal2) /\ GetEvent(cal2) = GetEvent(cal)
    BY <1>1, ActivityKeeps
  <2> QED
    BY <2>1, <2>2
<1>2. CASE state2[ue] = "IDLE" /\ cal2 = cal
  <2>1. \A u \in UEs : state2[u] = state[u] \/ state2[u] = "IDLE"
    BY <1>2
  <2>2. CalendarRight(cal, target, state2)
    BY <2>1, IdleKeeps
  <2> QED
    BY <1>2, <2>2
<1> QED
  BY <1>1, <1>2

\* The end of a detachment.
LEMMA ActiveRight == IInv /\ MakeActive => IInv'
<1> SUFFICES ASSUME IInv, MakeActive
             PROVE  IInv'
  OBVIOUS
<1>1. PICK f : f = GetEvent(m_events)
  OBVIOUS
<1>2. PICK ue : ue = f.ue
  OBVIOUS
<1>3. /\ ~IsEmpty(m_events) /\ f.kind = "MakeActive" /\ m_currentTs' = f.ts
      /\ UNCHANGED <<network, inputs>>
      /\ m_state' = Activated(ue)
      /\ m_events' = RemoveEvent(Watched(m_events, f.ts, ue))
  BY <1>1, <1>2 DEF MakeActive, Serve, Now, TheUE
<1>4. CalendarRight(m_events, m_targetNode, m_state) /\ m_state \in [UEs -> States]
  BY DEF IInv
<1>5. f \in Events /\ f.ts \in 0..MaxTime /\ ue \in UEs /\ f.ts \in Nat
  BY <1>1, <1>2, <1>3, <1>4, ServedIs, EventFields, BoundsAssumption
<1>6. PICK cal : cal = Watched(m_events, f.ts, ue)
  OBVIOUS
<1>7. PICK state : state = m_state'
  OBVIOUS
<1>8. /\ state \in [UEs -> States] /\ state[ue] # "DETACHED"
      /\ \A u \in UEs : u # ue => state[u] = m_state[u]
      /\ \/ state[ue] = "ACTIVE" /\ cal = SetLastActivity(m_events, f.ts, ue)
         \/ state[ue] = "IDLE" /\ cal = m_events
  BY <1>3, <1>4, <1>5, <1>6, <1>7 DEF Activated, Watched, States
<1>9. /\ CalendarRight(cal, m_targetNode, state)
      /\ ~IsEmpty(m_events) /\ GetEvent(m_events).kind # "SetNodeState"
         /\ GetEvent(m_events).ts <= f.ts =>
            ~IsEmpty(cal) /\ GetEvent(cal) = GetEvent(m_events)
  BY <1>4, <1>5, <1>8, WokenRight
<1>10. ~IsEmpty(cal) /\ GetEvent(cal) = f
  BY <1>1, <1>3, <1>5, <1>9
<1>11. CalendarRight(RemoveEvent(cal), m_targetNode, state)
  BY <1>2, <1>3, <1>8, <1>9, <1>10, EndKeeps
<1>12. CalendarRight(m_events', m_targetNode', m_state')
  BY <1>3, <1>6, <1>7, <1>11 DEF network
<1>13. CalendarRight(m_events, m_targetNode, m_state)'
  BY <1>12, CalendarRightNext
<1> QED
  BY <1>3, <1>5, <1>7, <1>8, <1>13 DEF IInv, network, AttachedRight, RecordsRight

\* The idle timer.
LEMMA TimerRight == IInv /\ SetNodeState => IInv'
<1> SUFFICES ASSUME IInv, SetNodeState
             PROVE  IInv'
  OBVIOUS
<1>1. PICK f : f = GetEvent(m_events)
  OBVIOUS
<1>2. PICK ue : ue = f.ue
  OBVIOUS
<1>3. /\ ~IsEmpty(m_events) /\ f.kind = "SetNodeState" /\ m_currentTs' = f.ts
      /\ UNCHANGED <<network, inputs>>
      /\ m_state' = [m_state EXCEPT ![ue] = "IDLE"]
      /\ m_events' = RemoveEvent(InsertAll(m_events, <<>>))
  BY <1>1, <1>2 DEF SetNodeState, Serve, Now, TheUE, Done
<1>4. CalendarRight(m_events, m_targetNode, m_state) /\ m_state \in [UEs -> States]
  BY DEF IInv
<1>5. f \in Events /\ f.ts \in 0..MaxTime /\ ue \in UEs
  BY <1>1, <1>2, <1>3, <1>4, ServedIs, EventFields, BoundsAssumption
<1>6. PICK state : state = m_state'
  OBVIOUS
<1>7. /\ state \in [UEs -> States] /\ state[ue] = "IDLE"
      /\ \A u \in UEs : state[u] = m_state[u] \/ state[u] = "IDLE"
  BY <1>3, <1>4, <1>5, <1>6 DEF States
<1>8. CalendarRight(m_events, m_targetNode, state)
  BY <1>4, <1>7, IdleKeeps
<1>9. CalendarRight(RemoveEvent(m_events), m_targetNode, state)
  BY <1>1, <1>2, <1>3, <1>7, <1>8, EndKeeps
<1>10. m_events' = RemoveEvent(m_events)
  BY <1>3, <1>4, RemoveInsertAll DEF CalendarRight
<1>11. CalendarRight(m_events, m_targetNode, m_state)'
  BY <1>3, <1>6, <1>9, <1>10, CalendarRightNext DEF network
<1> QED
  BY <1>3, <1>5, <1>6, <1>7, <1>11 DEF IInv, network, AttachedRight, RecordsRight

\* An input of a UE.
LEMMA InputRight ==
    ASSUME IInv, NEW ue \in UEs, Input(ue)
    PROVE  /\ m_currentTs \in Nat /\ m_currentTs' = m_currentTs
           /\ inputs' \in [UEs -> 0..MaxInputs]
BY BoundsAssumption DEF IInv, Input

\* A UE is woken up by an input.
LEMMA InputWakesRight ==
    ASSUME IInv, NEW ue \in UEs, m_state' = Activated(ue),
           m_events' = Watched(m_events, m_currentTs, ue), UNCHANGED m_targetNode
    PROVE  CalendarRight(m_events, m_targetNode, m_state)' /\ m_state' \in [UEs -> States]
<1>1. PICK cal2, state2 : cal2 = m_events' /\ state2 = m_state'
  OBVIOUS
<1>2. /\ CalendarRight(m_events, m_targetNode, m_state)
      /\ m_state \in [UEs -> States] /\ m_currentTs \in Nat
  BY BoundsAssumption DEF IInv
<1>3. /\ state2 \in [UEs -> States]
      /\ \A u \in UEs : u # ue => state2[u] = m_state[u]
      /\ \/ state2[ue] = "ACTIVE" /\ cal2 = SetLastActivity(m_events, m_currentTs, ue)
         \/ state2[ue] = "IDLE" /\ cal2 = m_events
  BY <1>1, <1>2 DEF Activated, Watched, States
<1>4. CalendarRight(cal2, m_targetNode, state2)
  BY <1>2, <1>3, WokenRight
<1> QED
  BY <1>1, <1>3, <1>4, CalendarRightNext

\* The listeners when an application starts.
LEMMA ListenersJoined ==
    ASSUME NEW lists, NEW target, ListenersRight(lists, target), NEW ue \in UEs,
           NEW node \in Nodes, node = target[ue], ~Has(lists[node], ue)
    PROVE  ListenersRight([lists EXCEPT ![node] = AddDevice(@, ue)], target)
<1>1. PICK list : list = lists[node]
  OBVIOUS
<1>2. ListRight(list, node, target)
  BY <1>1 DEF ListenersRight
<1>3. ListRight(AddDevice(list, ue), node, target)
  BY <1>1, <1>2, UEAdded
<1>4. PICK after : after = [lists EXCEPT ![node] = AddDevice(@, ue)]
  OBVIOUS
<1>5. /\ lists = [n \in Nodes |-> lists[n]]
      /\ \A n \in Nodes : ListRight(lists[n], n, target)
  BY DEF ListenersRight
<1>6. after = [n \in Nodes |-> IF n = node THEN AddDevice(list, ue) ELSE lists[n]]
  BY <1>1, <1>4, <1>5
<1> QED
  BY <1>3, <1>4, <1>5, <1>6 DEF ListenersRight

\* The steps of a UE that are not events.
LEMMA InputsRight ==
    ASSUME IInv, NEW ue \in UEs,
           ReceiveMessage4(ue) \/ ApplicationStarts(ue) \/ SendSchedulingRequest(ue)
    PROVE  IInv'
<1>1. CASE ReceiveMessage4(ue)
  <2>1. /\ Input(ue) /\ m_state' = Activated(ue)
        /\ m_events' = Watched(m_events, m_currentTs, ue) /\ UNCHANGED network
    BY <1>1 DEF ReceiveMessage4
  <2>2. CalendarRight(m_events, m_targetNode, m_state)' /\ m_state' \in [UEs -> States]
    BY <2>1, InputWakesRight DEF network
  <2> QED
    BY <2>1, <2>2, InputRight DEF IInv, network, AttachedRight, RecordsRight
<1>2. CASE ApplicationStarts(ue)
  <2>1. PICK node : node = m_targetNode[ue]
    OBVIOUS
  <2>2. /\ Input(ue) /\ m_state' = Activated(ue)
        /\ m_events' = Watched(m_events, m_currentTs, ue)
        /\ UNCHANGED <<m_targetNode, m_targetNodeRecord, m_userEquipmentRecords, m_bearers>>
    BY <1>2 DEF ApplicationStarts
  <2>3. m_attachedDevices' = [k \in ChannelKinds |->
            IF /\ ~Has(m_attachedDevices[k][node], ue)
               /\ \/ k = "Dl"
                  \/ k = "McDl" /\ Has(m_attachedDevices["Dl"][node], ue)
            THEN [m_attachedDevices[k] EXCEPT ![node] = AddDevice(@, ue)]
            ELSE m_attachedDevices[k]]
    BY <1>2, <2>1 DEF ApplicationStarts
  <2>4. CalendarRight(m_events, m_targetNode, m_state)' /\ m_state' \in [UEs -> States]
    BY <2>2, InputWakesRight
  <2>5. AttachedRight(m_attachedDevices', m_targetNode)
    <3>1. node \in Nodes /\ AttachedRight(m_attachedDevices, m_targetNode)
      BY <2>1 DEF IInv
    <3>2. ASSUME NEW k \in ChannelKinds
          PROVE  ListenersRight(m_attachedDevices'[k], m_targetNode)
      <4>1. ListenersRight(m_attachedDevices[k], m_targetNode)
        BY <3>1 DEF AttachedRight
      <4>2. ~Has(m_attachedDevices[k][node], ue) =>
                ListenersRight([m_attachedDevices[k] EXCEPT ![node] = AddDevice(@, ue)], m_targetNode)
        BY <2>1, <3>1, <4>1, ListenersJoined
      <4> QED
        BY <2>3, <4>1, <4>2
    <3> QED
      BY <2>3, <3>2 DEF AttachedRight
  <2>6. AttachedRight(m_attachedDevices, m_targetNode)'
    BY <2>2, <2>5, AttachedRightNext
  <2> QED
    BY <2>2, <2>4, <2>6, InputRight DEF IInv, RecordsRight
<1>3. CASE SendSchedulingRequest(ue)
  <2>1. /\ Input(ue) /\ UNCHANGED <<m_state, network>>
        /\ m_events' = SetLastActivity(m_events, m_currentTs, ue)
    BY <1>3 DEF SendSchedulingRequest
  <2>2. m_currentTs \in Nat /\ CalendarRight(m_events, m_targetNode, m_state)
    BY <2>1, InputRight DEF IInv
  <2>3. CalendarRight(m_events', m_targetNode, m_state)
    <3>1. m_state[ue] \in {m_state[ue], "ACTIVE", "IDLE"}
      OBVIOUS
    <3> QED
      BY <2>1, <2>2, <3>1, ActivityKeeps
  <2>4. CalendarRight(m_events, m_targetNode, m_state)'
    BY <2>1, <2>3, CalendarRightNext DEF network
  <2> QED
    BY <2>1, <2>4, InputRight DEF IInv, network, AttachedRight, RecordsRight
<1> QED
  BY <1>1, <1>2, <1>3

\* Every step keeps the invariant.
LEMMA StepRight == IInv /\ [Next]_vars => IInv'
<1>1. ASSUME IInv, UNCHANGED vars
      PROVE  IInv'
  <2>1. UNCHANGED <<m_events, m_currentTs, m_state, network, inputs>>
    BY <1>1 DEF vars
  <2>2. /\ CalendarRight(m_events, m_targetNode, m_state)'
        /\ RecordsRight(m_userEquipmentRecords, m_bearers, m_targetNode)'
        /\ AttachedRight(m_attachedDevices, m_targetNode)'
    BY <1>1, <2>1, CalendarRightNext, RecordsRightNext, AttachedRightNext DEF IInv, network
  <2> QED
    BY <1>1, <2>1, <2>2 DEF IInv, network
<1> QED
  BY <1>1, UpdateRight, TransferRight, ActiveRight, TimerRight, InputsRight DEF Next

\* The invariant holds in every state.
THEOREM Invariant == Spec => []IInv
BY InitRight, StepRight, PTL DEF Spec

-----------------------------------------------------------------------------
(***************************************************************************)
(* What follows from it                                                    *)
(***************************************************************************)

\* A UE has one event of a kind at most.
LEMMA PendingOnce ==
    ASSUME NEW cal, IsCalendar(cal, Events), NEW kind, NEW ue, Once(cal, Named(kind, ue)),
           NEW S, S = {e \in EventsOf(cal) : e.kind = kind /\ e.ue = ue}
    PROVE  Cardinality(S) <= 1 /\ (S # {} => Cardinality(S) = 1)
<1>1. ASSUME NEW x \in S, NEW y \in S
      PROVE  x = y
  <2>1. x \in EventsOf(cal) /\ y \in EventsOf(cal)
    OBVIOUS
  <2>2. x \in Named(kind, ue) /\ y \in Named(kind, ue)
    BY <2>1, EventTypes DEF Named
  <2>3. PICK t \in DOMAIN cal : \E i \in 1..Len(cal[t]) : x = cal[t][i]
    BY <2>1, EventPlaces
  <2>4. PICK u \in DOMAIN cal : \E j \in 1..Len(cal[u]) : y = cal[u][j]
    BY <2>1, EventPlaces
  <2> QED
    BY <2>2, <2>3, <2>4 DEF Once
<1>2. CASE S = {}
  BY <1>2, FS_EmptySet
<1>3. CASE S # {}
  <2>1. PICK x \in S : S = {x}
    BY <1>1, <1>3
  <2>2. Cardinality(S) = 1
    BY <2>1, FS_Singleton
  <2> QED
    BY <2>2
<1> QED
  BY <1>2, <1>3

\* The lists of every cell are right: each UE is registered in its target cell,
\* attached there only, once, and before the multicast destinations.
LEMMA ListsFollow == IInv => CellListsRight
<1> SUFFICES ASSUME IInv PROVE CellListsRight
  OBVIOUS
<1>1. TypeOK
  <2>1. \A e \in EventsOf(m_events) : e.ts \in Nat /\ e.ue \in UEs
    BY EventTypes, EventFields DEF IInv, CalendarRight
  <2>2. m_currentTs \in 0..(MaxTime + m_activityTimeout)
    BY BoundsAssumption, TimerAssumption DEF IInv
  <2>3. m_userEquipmentRecords \in [Nodes -> Seq(Devices)] /\ m_bearers \in [Nodes -> SUBSET UEs]
    BY DEF IInv, RecordsRight, ListRight
  <2>4. m_attachedDevices \in [ChannelKinds -> [Nodes -> Seq(Devices)]]
    <3>1. \A k \in ChannelKinds : m_attachedDevices[k] \in [Nodes -> Seq(Devices)]
      BY DEF IInv, AttachedRight, ListenersRight, ListRight
    <3> QED
      BY <3>1 DEF IInv, AttachedRight
  <2> QED
    BY <2>1, <2>2, <2>3, <2>4 DEF TypeOK, IInv
<1>2. ServedByTarget
  <2> SUFFICES ASSUME NEW ue \in UEs, NEW n \in Nodes
               PROVE  /\ Count(m_userEquipmentRecords[n], ue) = IF n = m_targetNode[ue] THEN 1 ELSE 0
                      /\ ue \in m_bearers[n] <=> n = m_targetNode[ue]
    BY DEF ServedByTarget, IInv
  <2>1. PICK list : list = m_userEquipmentRecords[n]
    OBVIOUS
  <2>2. list \in Seq(Devices) /\ AtMostOnce(list, ue) /\ (Has(list, ue) <=> n = m_targetNode[ue])
    BY <2>1 DEF IInv, RecordsRight, ListRight
  <2>3. /\ Count(list, ue) = 0 <=> ~Has(list, ue)
        /\ Count(list, ue) = 1 <=> AtMostOnce(list, ue) /\ Has(list, ue)
    BY <2>2, CountIs
  <2> QED
    BY <2>1, <2>2, <2>3 DEF IInv, RecordsRight
<1>3. AttachedAtTarget
  <2> SUFFICES ASSUME NEW ue \in UEs, NEW k \in ChannelKinds, NEW n \in Nodes
               PROVE  Count(m_attachedDevices[k][n], ue) <= IF n = m_targetNode[ue] THEN 1 ELSE 0
    BY DEF AttachedAtTarget
  <2>1. PICK list : list = m_attachedDevices[k][n]
    OBVIOUS
  <2>2. list \in Seq(Devices) /\ AtMostOnce(list, ue) /\ (Has(list, ue) => n = m_targetNode[ue])
    BY <2>1 DEF IInv, AttachedRight, ListenersRight, ListRight
  <2>3. /\ Count(list, ue) = 0 <=> ~Has(list, ue)
        /\ Count(list, ue) <= 1 <=> AtMostOnce(list, ue)
    BY <2>2, CountIs
  <2> QED
    BY <2>1, <2>2, <2>3
<1>4. MulticastLast
  BY DEF MulticastLast, IInv, RecordsRight, AttachedRight, ListenersRight, ListRight
<1> QED
  BY <1>1, <1>2, <1>3, <1>4 DEF CellListsRight, InItsCellOnly

\* The events that take a UE from one state to the next are there.
LEMMA EventsFollow == IInv => EventsPending
<1> SUFFICES ASSUME IInv, NEW ue \in UEs
             PROVE  /\ Cardinality(PendingOf("TransferBearerInfo", ue)) <= 1
                    /\ \A e \in PendingOf("TransferBearerInfo", ue) : e.target # m_targetNode[ue]
                    /\ m_state[ue] = "DETACHED" => PendingOf("MakeActive", ue) # {}
                    /\ m_state[ue] = "ACTIVE" => Cardinality(PendingOf("SetNodeState", ue)) = 1
  BY DEF EventsPending, OneTransfer, DetachEnds, ActiveIsTimed
<1>1. IsCalendar(m_events, Events) /\ PendingRight(m_events, ue, m_targetNode[ue], m_state[ue])
  BY DEF IInv, CalendarRight
<1>2. Cardinality(PendingOf("TransferBearerInfo", ue)) <= 1
  BY <1>1, PendingOnce DEF PendingOf, PendingRight
<1>3. PendingOf("SetNodeState", ue) # {} => Cardinality(PendingOf("SetNodeState", ue)) = 1
  BY <1>1, PendingOnce DEF PendingOf, PendingRight
<1> QED
  BY <1>1, <1>2, <1>3 DEF PendingOf, PendingRight, IsPending

\* Whatever handovers, wake-ups and idle timers come in which order, each UE is
\* registered once, in its target cell, and listens to channels of this cell
\* only, before its multicast destinations.
THEOREM CellLists == Spec => []CellListsRight
BY Invariant, ListsFollow, PTL

\* A UE has at most one transfer under way, and it leads to another cell; the
\* events that end a detachment and an activity are always scheduled.
THEOREM Pending == Spec => []EventsPending
BY Invariant, EventsFollow, PTL
=============================================================================
