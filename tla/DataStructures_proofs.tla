------------------------ MODULE DataStructures_proofs ------------------------
(***************************************************************************)
(* Facts about the two data structures the components are built on, the    *)
(* calendar and the queue of a bearer, which the proofs about the          *)
(* components cite.                                                        *)
(*                                                                         *)
(* What the operations of the calendar do to the events in it and to their *)
(* order, for any number of events.  A component's proof speaks of the set *)
(* of events that are scheduled, of kinds of events that are scheduled at  *)
(* most once, and of kinds that are served before others.                  *)
(*                                                                         *)
(* What the operations of the queue keep, for any number of packets of any *)
(* size: its counters tell what waits, and only the first packet is ever   *)
(* cut.                                                                    *)
(*                                                                         *)
(* The induction over the length of a list is drawn from the fact that the *)
(* natural numbers are well founded, with a set in place of a predicate.   *)
(***************************************************************************)
EXTENDS EventCalendar, MacQueue, WellFoundedInduction, SequenceTheorems, TLAPS

\* A calendar of events of the set E: the queue of a millisecond is not empty and
\* holds events of this millisecond only.
IsCalendar(cal, E) ==
    /\ cal = [t \in DOMAIN cal |-> cal[t]]
    /\ DOMAIN cal \subseteq Nat
    /\ \A t \in DOMAIN cal : /\ cal[t] \in Seq(E)
                             /\ cal[t] # <<>>
                             /\ \A i \in 1..Len(cal[t]) : cal[t][i].ts = t

\* There is at most one event of the set X.
Once(cal, X) ==
    \A t, u \in DOMAIN cal : \A i \in 1..Len(cal[t]), j \in 1..Len(cal[u]) :
        cal[t][i] \in X /\ cal[u][j] \in X => t = u /\ i = j

\* Every event of the set X is served before every event of the set Y.
Ahead(cal, X, Y) ==
    \A t, u \in DOMAIN cal : \A i \in 1..Len(cal[t]), j \in 1..Len(cal[u]) :
        cal[t][i] \in X /\ cal[u][j] \in Y => t < u \/ (t = u /\ i < j)

-----------------------------------------------------------------------------
(***************************************************************************)
(* Induction                                                               *)
(***************************************************************************)

\* A set of natural numbers that is not empty has a least element.
LEMMA LeastNatural ==
    ASSUME NEW T, T \subseteq Nat, T # {}
    PROVE  \E x \in T : \A y \in T : x <= y
<1>1. PICK R : R = OpToRel(<, Nat)
  OBVIOUS
<1>2. \A a, b \in Nat : a < b => <<a, b>> \in R
  BY <1>1 DEF OpToRel
<1>3. IsWellFoundedOn(R, Nat)
  BY <1>1, NatLessThanWellFounded
<1>4. PICK x \in T : \A y \in T : ~ (<<y, x>> \in R)
  BY <1>3, WFMin
<1>5. ASSUME NEW y \in T
      PROVE  x <= y
  <2>1. x \in Nat /\ y \in Nat
    OBVIOUS
  <2>2. <<y, x>> \notin R
    BY <1>4
  <2>3. ~ (y < x)
    BY <1>2, <2>1, <2>2
  <2> QED
    BY <2>1, <2>3
<1> QED
  BY <1>5

\* Induction over the natural numbers.
LEMMA Induction ==
    ASSUME NEW P, 0 \in P, \A n \in Nat : n \in P => n + 1 \in P
    PROVE  \A n \in Nat : n \in P
<1> DEFINE T == {n \in Nat : n \notin P}
<1> SUFFICES ASSUME T # {}
             PROVE  FALSE
  OBVIOUS
<1>1. PICK x \in T : \A y \in T : x <= y
  BY LeastNatural
<1>2. x \in Nat /\ x # 0 /\ x \notin P
  OBVIOUS
<1>3. x - 1 \in Nat /\ x - 1 \notin T
  BY <1>1, <1>2
<1>4. x - 1 \in P
  BY <1>3
<1>5. (x - 1) + 1 \in P
  BY <1>3, <1>4
<1> QED
  BY <1>2, <1>5

\* The function f on 0..n starts with base and goes on with these steps.
Iterates(f, base, step, n) == f[0] = base /\ \A i \in 1..n : f[i] = step[i][f[i - 1]]

\* A recursive function whose steps stay in the set S exists.
LEMMA Recursion ==
    ASSUME NEW S, NEW base \in S, NEW n \in Nat, NEW step \in [1..n -> [S -> S]]
    PROVE  \E f \in [0..n -> S] : Iterates(f, base, step, n)
<1> DEFINE Upto(k) == {f \in [0..k -> S] : /\ f[0] = base
                                          /\ \A i \in 1..k : f[i] = step[i][f[i - 1]]}
           P == {k \in Nat : k <= n => Upto(k) # {}}
<1>1. 0 \in P
  <2>1. [i \in 0..0 |-> base] \in Upto(0)
    OBVIOUS
  <2> QED
    BY <2>1
<1>2. ASSUME NEW k \in Nat, k \in P
      PROVE  k + 1 \in P
  <2> SUFFICES ASSUME k + 1 <= n
               PROVE  Upto(k + 1) # {}
    OBVIOUS
  <2>1. PICK f \in Upto(k) : TRUE
    BY <1>2
  <2>2. f \in [0..k -> S] /\ f[0] = base /\ \A i \in 1..k : f[i] = step[i][f[i - 1]]
    BY <2>1
  <2> DEFINE g == [i \in 0..(k + 1) |-> IF i = k + 1 THEN step[k + 1][f[k]] ELSE f[i]]
  <2>3. step[k + 1] \in [S -> S] /\ f[k] \in S
    BY <2>2
  <2>4. g \in [0..(k + 1) -> S]
    BY <2>2, <2>3
  <2>5. g[0] = base
    BY <2>2
  <2>6. ASSUME NEW i \in 1..(k + 1)
        PROVE  g[i] = step[i][g[i - 1]]
    <3>1. CASE i = k + 1
      BY <3>1
    <3>2. CASE i # k + 1
      BY <3>2, <2>2
    <3> QED
      BY <3>1, <3>2
  <2>7. g \in Upto(k + 1)
    BY <2>4, <2>5, <2>6
  <2> QED
    BY <2>7
<1> HIDE DEF P
<1>3. \A k \in Nat : k \in P
  BY <1>1, <1>2, Induction
<1>4. PICK f \in Upto(n) : TRUE
  BY <1>3 DEF P
<1> QED
  BY <1>4 DEF Iterates

\* What holds of the first of n + 1 values and is passed on from each to the next
\* holds of all.
LEMMA Along ==
    ASSUME NEW S, NEW k, NEW n \in Nat, k[0] \in S,
           \A i \in 1..n : k[i - 1] \in S => k[i] \in S
    PROVE  \A i \in 0..n : k[i] \in S
<1> DEFINE P == {i \in Nat : i <= n => k[i] \in S}
<1>1. 0 \in P
  OBVIOUS
<1>2. ASSUME NEW i \in Nat, i \in P
      PROVE  i + 1 \in P
  <2>1. CASE i + 1 <= n
    <3>1. k[i] \in S /\ i + 1 \in 1..n /\ (i + 1) - 1 = i
      BY <1>2, <2>1
    <3>2. k[i + 1] \in S
      BY <3>1
    <3> QED
      BY <3>2
  <2>2. CASE ~ (i + 1 <= n)
    BY <2>2
  <2> QED
    BY <2>1, <2>2
<1> HIDE DEF P
<1>3. \A i \in Nat : i \in P
  BY <1>1, <1>2, Induction
<1> QED
  BY <1>3 DEF P

-----------------------------------------------------------------------------
(***************************************************************************)
(* Kept                                                                    *)
(***************************************************************************)

\* The recursion behind Kept.
Keeps(k, s, D) ==
    /\ k[0] = <<>>
    /\ \A i \in 1..Len(s) : k[i] = Keep(k[i - 1], s[i], D)

\* What Kept keeps is built by its recursion.
LEMMA KeptRecursion ==
    ASSUME NEW T, NEW s \in Seq(T), NEW D
    PROVE  \E k \in [0..Len(s) -> Seq(T)] : Kept(s, D) = k[Len(s)] /\ Keeps(k, s, D)
<1> DEFINE Eq(k) == k = [i \in 0..Len(s) |-> IF i = 0 THEN <<>> ELSE Keep(k[i - 1], s[i], D)]
           step == [i \in 1..Len(s) |-> [q \in Seq(T) |-> Keep(q, s[i], D)]]
<1>1. Len(s) \in Nat /\ <<>> \in Seq(T) /\ \A i \in 1..Len(s) : s[i] \in T
  OBVIOUS
<1>2. \A i \in 1..Len(s), q \in Seq(T) : Keep(q, s[i], D) \in Seq(T)
  BY DEF Keep
<1>3. PICK f \in [0..Len(s) -> Seq(T)] : Iterates(f, <<>>, step, Len(s))
  <2>1. step \in [1..Len(s) -> [Seq(T) -> Seq(T)]]
    BY <1>2
  <2> HIDE DEF step
  <2> QED
    BY <1>1, <2>1, Recursion
<1>4. Eq(f)
  <2>1. f = [i \in 0..Len(s) |-> f[i]]
    OBVIOUS
  <2>2. ASSUME NEW i \in 1..Len(s)
        PROVE  f[i] = Keep(f[i - 1], s[i], D)
    <3>1. f[i - 1] \in Seq(T)
      BY <1>1
    <3>2. f[i] = step[i][f[i - 1]]
      BY <1>3 DEF Iterates
    <3> QED
      BY <3>1, <3>2
  <2>3. \A i \in 0..Len(s) : f[i] = IF i = 0 THEN <<>> ELSE Keep(f[i - 1], s[i], D)
    BY <1>1, <1>3, <2>2 DEF Iterates
  <2> QED
    BY <2>1, <2>3
<1>5. PICK k : k = CHOOSE g : Eq(g)
  OBVIOUS
<1>6. Eq(k)
  <2> HIDE DEF Eq
  <2> QED
    BY <1>4, <1>5
<1>7. Kept(s, D) = k[Len(s)]
  BY <1>5 DEF Kept
<1>8. Keeps(k, s, D)
  BY <1>1, <1>6 DEF Keeps
<1>9. k \in [0..Len(s) -> Seq(T)]
  <2> DEFINE P == {i \in Nat : i <= Len(s) => k[i] \in Seq(T)}
  <2>1. 0 \in P
    BY <1>1, <1>8 DEF Keeps
  <2>2. ASSUME NEW i \in Nat, i \in P
        PROVE  i + 1 \in P
    <3> SUFFICES ASSUME i + 1 <= Len(s)
                 PROVE  k[i + 1] \in Seq(T)
      OBVIOUS
    <3>1. k[i] \in Seq(T) /\ i + 1 \in 1..Len(s)
      BY <1>1, <2>2
    <3>2. k[i + 1] = Keep(k[i], s[i + 1], D)
      BY <1>1, <1>8, <3>1 DEF Keeps
    <3> QED
      BY <1>2, <3>1, <3>2
  <2> HIDE DEF P
  <2>3. \A i \in Nat : i \in P
    BY <2>1, <2>2, Induction
  <2>4. \A i \in 0..Len(s) : k[i] \in Seq(T)
    BY <1>1, <2>3 DEF P
  <2> QED
    BY <1>6, <2>4
<1> QED
  BY <1>7, <1>8, <1>9

\* Kept takes a subsequence: the places h of the elements that are not in the set
\* D, in their order.
LEMMA KeptIs ==
    ASSUME NEW T, NEW s \in Seq(T), NEW D
    PROVE  /\ Kept(s, D) \in Seq(T)
           /\ \E h \in [1..Len(Kept(s, D)) -> 1..Len(s)] :
                /\ \A i \in 1..Len(Kept(s, D)) : Kept(s, D)[i] = s[h[i]] /\ s[h[i]] \notin D
                /\ \A i, j \in 1..Len(Kept(s, D)) : i < j => h[i] < h[j]
                /\ \A m \in 1..Len(s) : s[m] \notin D =>
                        \E i \in 1..Len(Kept(s, D)) : h[i] = m
<1>1. PICK k \in [0..Len(s) -> Seq(T)] : Kept(s, D) = k[Len(s)] /\ Keeps(k, s, D)
  BY KeptRecursion
<1> DEFINE Embeds(h, q, n) ==
                /\ \A i \in 1..Len(q) : q[i] = s[h[i]] /\ s[h[i]] \notin D
                /\ \A i, j \in 1..Len(q) : i < j => h[i] < h[j]
                /\ \A m \in 1..n : s[m] \notin D => \E i \in 1..Len(q) : h[i] = m
           P == {n \in Nat : n <= Len(s) =>
                    \E h \in [1..Len(k[n]) -> 1..n] : Embeds(h, k[n], n)}
<1>2. 0 \in P
  <2>1. k[0] = <<>> /\ Len(k[0]) = 0
    BY <1>1 DEF Keeps
  <2>2. [i \in 1..0 |-> 0] \in [1..Len(k[0]) -> 1..0]
    BY <2>1
  <2>3. Embeds([i \in 1..0 |-> 0], k[0], 0)
    BY <2>1
  <2> QED
    BY <2>2, <2>3
<1>3. ASSUME NEW n \in Nat, n \in P
      PROVE  n + 1 \in P
  <2> SUFFICES ASSUME n + 1 <= Len(s)
               PROVE  \E h \in [1..Len(k[n + 1]) -> 1..(n + 1)] : Embeds(h, k[n + 1], n + 1)
    OBVIOUS
  <2>0. Len(s) \in Nat /\ n \in 0..Len(s) /\ n + 1 \in 1..Len(s)
    OBVIOUS
  <2>1. PICK h \in [1..Len(k[n]) -> 1..n] : Embeds(h, k[n], n)
    BY <1>3, <2>0
  <2>2. k[n] \in Seq(T) /\ s[n + 1] \in T
    BY <2>0
  <2>3. k[n + 1] = Keep(k[n], s[n + 1], D)
    <3>1. k[n + 1] = Keep(k[(n + 1) - 1], s[n + 1], D)
      BY <1>1, <2>0 DEF Keeps
    <3> QED
      BY <3>1
  <2>4. CASE s[n + 1] \in D
    <3>1. k[n + 1] = k[n]
      BY <2>3, <2>4 DEF Keep
    <3>2. h \in [1..Len(k[n]) -> 1..(n + 1)]
      BY <2>0, <2>1
    <3>3. Embeds(h, k[n], n + 1)
      BY <2>0, <2>1, <2>4, SMTT(20)
    <3>4. h \in [1..Len(k[n + 1]) -> 1..(n + 1)] /\ Embeds(h, k[n + 1], n + 1)
      BY <3>1, <3>2, <3>3
    <3> HIDE DEF Embeds
    <3> QED
      BY <3>4
  <2>5. CASE s[n + 1] \notin D
    <3> DEFINE q == k[n]
               L == Len(q)
               g == [i \in 1..(L + 1) |-> IF i = L + 1 THEN n + 1 ELSE h[i]]
    <3>1. k[n + 1] = Append(q, s[n + 1])
      BY <2>3, <2>5 DEF Keep
    <3>2. /\ L \in Nat
          /\ Len(k[n + 1]) = L + 1
          /\ k[n + 1][L + 1] = s[n + 1]
          /\ \A i \in 1..L : k[n + 1][i] = q[i]
      BY <2>2, <3>1
    <3>3. \A i \in 1..L : h[i] \in 1..n
      BY <2>1
    <3>4. g \in [1..(L + 1) -> 1..(n + 1)]
      BY <2>0, <3>2, <3>3
    <3>5. \A i \in 1..(L + 1) : k[n + 1][i] = s[g[i]] /\ s[g[i]] \notin D
      BY <2>1, <2>5, <3>2
    <3>6. \A i, j \in 1..(L + 1) : i < j => g[i] < g[j]
      BY <2>1, <3>2, <3>3
    <3>7. \A m \in 1..(n + 1) : s[m] \notin D => \E i \in 1..(L + 1) : g[i] = m
      <4> SUFFICES ASSUME NEW m \in 1..(n + 1), s[m] \notin D
                   PROVE  \E i \in 1..(L + 1) : g[i] = m
        OBVIOUS
      <4>1. CASE m = n + 1
        <5>1. L + 1 \in 1..(L + 1) /\ g[L + 1] = n + 1
          BY <3>2
        <5> QED
          BY <4>1, <5>1
      <4>2. CASE m \in 1..n
        <5>1. PICK i \in 1..L : h[i] = m
          BY <2>1, <4>2
        <5>2. i \in 1..(L + 1) /\ g[i] = m
          BY <3>2, <5>1
        <5> QED
          BY <5>2
      <4>3. m = n + 1 \/ m \in 1..n
        OBVIOUS
      <4> QED
        BY <4>1, <4>2, <4>3
    <3>8. Embeds(g, k[n + 1], n + 1)
      BY <3>2, <3>5, <3>6, <3>7
    <3> QED
      BY <3>2, <3>4, <3>8
  <2> QED
    BY <2>4, <2>5
<1>4. Len(s) \in Nat
  OBVIOUS
<1>5. Len(s) \in P
  <2> HIDE DEF P
  <2> QED
    BY <1>2, <1>3, <1>4, Induction
<1>6. k[Len(s)] \in Seq(T)
  BY <1>1, <1>4
<1> QED
  BY <1>1, <1>4, <1>5, <1>6

-----------------------------------------------------------------------------
(***************************************************************************)
(* The events of a calendar                                                *)
(***************************************************************************)

\* The events are those in the queues.
LEMMA EventPlaces ==
    ASSUME NEW cal, NEW e
    PROVE  e \in EventsOf(cal) <=> \E t \in DOMAIN cal : \E i \in 1..Len(cal[t]) : e = cal[t][i]
BY DEF EventsOf

\* Their types.
LEMMA EventTypes ==
    ASSUME NEW E, NEW cal, IsCalendar(cal, E), NEW e \in EventsOf(cal)
    PROVE  e \in E /\ e.ts \in DOMAIN cal /\ e.ts \in Nat
<1>1. PICK t \in DOMAIN cal : \E i \in 1..Len(cal[t]) : e = cal[t][i]
  BY EventPlaces
<1>2. PICK i \in 1..Len(cal[t]) : e = cal[t][i]
  BY <1>1
<1>3. cal[t] \in Seq(E) /\ cal[t][i].ts = t /\ t \in Nat
  BY DEF IsCalendar
<1> QED
  BY <1>2, <1>3

\* The event that is served next is one of the earliest.
LEMMA FirstEvent ==
    ASSUME NEW E, NEW cal, IsCalendar(cal, E), ~IsEmpty(cal)
    PROVE  /\ FirstKey(cal) \in DOMAIN cal
           /\ \A t \in DOMAIN cal : FirstKey(cal) <= t
           /\ cal[FirstKey(cal)] \in Seq(E)
           /\ cal[FirstKey(cal)] # <<>>
           /\ GetEvent(cal) = cal[FirstKey(cal)][1]
           /\ GetEvent(cal) \in EventsOf(cal)
           /\ GetEvent(cal).ts = FirstKey(cal)
           /\ \A e \in EventsOf(cal) : GetEvent(cal).ts <= e.ts
<1>1. DOMAIN cal \subseteq Nat /\ DOMAIN cal # {}
  BY DEF IsCalendar, IsEmpty
<1>2. \E t \in DOMAIN cal : \A s \in DOMAIN cal : t <= s
  BY <1>1, LeastNatural
<1>3. FirstKey(cal) \in DOMAIN cal /\ \A s \in DOMAIN cal : FirstKey(cal) <= s
  BY <1>2 DEF FirstKey
<1>4. PICK q : q = cal[FirstKey(cal)]
  OBVIOUS
<1>5. /\ q \in Seq(E) /\ q # <<>>
      /\ \A i \in 1..Len(q) : q[i].ts = FirstKey(cal)
  BY <1>3, <1>4 DEF IsCalendar
<1>6. Head(q) = q[1] /\ 1 \in 1..Len(q)
  BY <1>5
<1>7. GetEvent(cal) = q[1]
  BY <1>4, <1>6 DEF GetEvent
<1>8. GetEvent(cal) \in EventsOf(cal)
  BY <1>3, <1>4, <1>6, <1>7, EventPlaces
<1>9. \A e \in EventsOf(cal) : FirstKey(cal) <= e.ts
  BY <1>3, EventTypes
<1> QED
  BY <1>3, <1>4, <1>5, <1>6, <1>7, <1>8, <1>9

\* A calendar with an event is not empty.
LEMMA NotEmpty ==
    ASSUME NEW cal, NEW e \in EventsOf(cal)
    PROVE  ~IsEmpty(cal)
BY EventPlaces DEF IsEmpty

\* InsertEvent puts the event behind those of its millisecond.
LEMMA InsertIs ==
    ASSUME NEW E, NEW cal, IsCalendar(cal, E), NEW e \in E, e.ts \in Nat
    PROVE  /\ IsCalendar(InsertEvent(cal, e), E)
           /\ EventsOf(InsertEvent(cal, e)) = EventsOf(cal) \cup {e}
           /\ \A X : /\ Once(cal, X)
                     /\ e \in X => EventsOf(cal) \cap X = {}
                     => Once(InsertEvent(cal, e), X)
           /\ \A X, Y : /\ Ahead(cal, X, Y)
                        /\ e \in X => EventsOf(cal) \cap Y = {} /\ e \notin Y
                        /\ e \in Y => \A x \in EventsOf(cal) \cap X : x.ts <= e.ts
                        => Ahead(InsertEvent(cal, e), X, Y)
<1>1. PICK q : q = QueueAt(cal, e.ts)
  OBVIOUS
<1>2. PICK new : new = InsertEvent(cal, e)
  OBVIOUS
<1>3. q \in Seq(E) /\ \A i \in 1..Len(q) : q[i].ts = e.ts
  BY <1>1 DEF QueueAt, IsCalendar
<1>4. /\ DOMAIN new = DOMAIN cal \cup {e.ts}
      /\ new[e.ts] = Append(q, e)
      /\ \A t \in DOMAIN cal : t # e.ts => new[t] = cal[t]
      /\ new = [t \in DOMAIN new |-> new[t]]
  BY <1>1, <1>2 DEF InsertEvent
<1>5. /\ Append(q, e) \in Seq(E) /\ Append(q, e) # <<>>
      /\ Len(Append(q, e)) = Len(q) + 1
      /\ Append(q, e)[Len(q) + 1] = e
      /\ \A i \in 1..Len(q) : Append(q, e)[i] = q[i]
      /\ Len(q) \in Nat
  BY <1>3, SMTT(30)
<1>6. IsCalendar(new, E)
  <2>1. DOMAIN new \subseteq Nat
    BY <1>4 DEF IsCalendar
  <2>2. ASSUME NEW t \in DOMAIN new
        PROVE  new[t] \in Seq(E) /\ new[t] # <<>> /\ \A i \in 1..Len(new[t]) : new[t][i].ts = t
    <3>1. CASE t = e.ts
      <4>1. \A i \in 1..(Len(q) + 1) : Append(q, e)[i].ts = e.ts
        <5>1. \A i \in 1..(Len(q) + 1) : i \in 1..Len(q) \/ i = Len(q) + 1
          BY <1>5
        <5> QED
          BY <1>3, <1>5, <5>1
      <4> QED
        BY <1>4, <1>5, <3>1, <4>1
    <3>2. CASE t # e.ts
      BY <1>4, <3>2 DEF IsCalendar
    <3> QED
      BY <3>1, <3>2
  <2> QED
    BY <1>4, <2>1, <2>2 DEF IsCalendar
\* A place of the new calendar is one of the old or the new place.
<1>7. ASSUME NEW t \in DOMAIN new, NEW i \in 1..Len(new[t])
      PROVE  \/ t = e.ts /\ i = Len(q) + 1 /\ new[t][i] = e
             \/ /\ t \in DOMAIN cal /\ i \in 1..Len(cal[t]) /\ new[t][i] = cal[t][i]
                /\ t = e.ts => i <= Len(q)
  <2>1. CASE t = e.ts
    <3>1. i \in 1..(Len(q) + 1)
      BY <1>4, <1>5, <2>1
    <3>2. CASE i = Len(q) + 1
      BY <1>4, <1>5, <2>1, <3>2
    <3>3. CASE i \in 1..Len(q)
      <4>1. t \in DOMAIN cal /\ q = cal[t]
        BY <1>1, <1>3, <2>1, <3>3 DEF QueueAt
      <4> QED
        BY <1>4, <1>5, <2>1, <3>3, <4>1
    <3> QED
      BY <1>5, <3>1, <3>2, <3>3
  <2>2. CASE t # e.ts
    BY <1>4, <2>2
  <2> QED
    BY <2>1, <2>2
<1>8. EventsOf(new) = EventsOf(cal) \cup {e}
  <2>1. ASSUME NEW x \in EventsOf(new)
        PROVE  x \in EventsOf(cal) \cup {e}
    <3>1. PICK t \in DOMAIN new : \E i \in 1..Len(new[t]) : x = new[t][i]
      BY <2>1, EventPlaces
    <3>2. PICK i \in 1..Len(new[t]) : x = new[t][i]
      BY <3>1
    <3> QED
      BY <1>7, <3>2, EventPlaces
  <2>2. e \in EventsOf(new)
    <3>1. e.ts \in DOMAIN new /\ Len(q) + 1 \in 1..Len(new[e.ts]) /\ e = new[e.ts][Len(q) + 1]
      BY <1>4, <1>5
    <3> QED
      BY <3>1, EventPlaces
  <2>3. ASSUME NEW x \in EventsOf(cal)
        PROVE  x \in EventsOf(new)
    <3>1. PICK t \in DOMAIN cal : \E i \in 1..Len(cal[t]) : x = cal[t][i]
      BY <2>3, EventPlaces
    <3>2. PICK i \in 1..Len(cal[t]) : x = cal[t][i]
      BY <3>1
    <3>3. t \in DOMAIN new /\ i \in 1..Len(new[t]) /\ x = new[t][i]
      <4>1. CASE t = e.ts
        <5>1. q = cal[t]
          BY <1>1, <4>1 DEF QueueAt
        <5> QED
          BY <1>4, <1>5, <3>2, <4>1, <5>1
      <4>2. CASE t # e.ts
        BY <1>4, <3>2, <4>2
      <4> QED
        BY <4>1, <4>2
    <3> QED
      BY <3>3, EventPlaces
  <2> QED
    BY <2>1, <2>2, <2>3
<1>9. ASSUME NEW X, Once(cal, X), e \in X => EventsOf(cal) \cap X = {}
      PROVE  Once(new, X)
  <2> SUFFICES ASSUME NEW t \in DOMAIN new, NEW u \in DOMAIN new,
                      NEW i \in 1..Len(new[t]), NEW j \in 1..Len(new[u]),
                      new[t][i] \in X, new[u][j] \in X
               PROVE  t = u /\ i = j
    BY DEF Once
  <2>1. CASE t \in DOMAIN cal /\ i \in 1..Len(cal[t]) /\ new[t][i] = cal[t][i]
             /\ u \in DOMAIN cal /\ j \in 1..Len(cal[u]) /\ new[u][j] = cal[u][j]
    BY <1>9, <2>1 DEF Once
  <2>2. CASE t \in DOMAIN cal /\ i \in 1..Len(cal[t]) /\ new[t][i] = cal[t][i] /\ new[u][j] = e
    BY <1>9, <2>2, EventPlaces
  <2>3. CASE u \in DOMAIN cal /\ j \in 1..Len(cal[u]) /\ new[u][j] = cal[u][j] /\ new[t][i] = e
    BY <1>9, <2>3, EventPlaces
  <2> QED
    BY <1>7, <2>1, <2>2, <2>3
<1>10. ASSUME NEW X, NEW Y, Ahead(cal, X, Y),
              e \in X => EventsOf(cal) \cap Y = {} /\ e \notin Y,
              e \in Y => \A x \in EventsOf(cal) \cap X : x.ts <= e.ts
       PROVE  Ahead(new, X, Y)
  <2> SUFFICES ASSUME NEW t \in DOMAIN new, NEW u \in DOMAIN new,
                      NEW i \in 1..Len(new[t]), NEW j \in 1..Len(new[u]),
                      new[t][i] \in X, new[u][j] \in Y
               PROVE  t < u \/ (t = u /\ i < j)
    BY DEF Ahead
  <2>1. CASE t \in DOMAIN cal /\ i \in 1..Len(cal[t]) /\ new[t][i] = cal[t][i]
             /\ u \in DOMAIN cal /\ j \in 1..Len(cal[u]) /\ new[u][j] = cal[u][j]
    BY <1>10, <2>1 DEF Ahead
  <2>2. CASE /\ t \in DOMAIN cal /\ i \in 1..Len(cal[t]) /\ new[t][i] = cal[t][i]
             /\ t = e.ts => i <= Len(q)
             /\ u = e.ts /\ j = Len(q) + 1 /\ new[u][j] = e
    <3>1. cal[t][i] \in EventsOf(cal) \cap X
      BY <2>2, EventPlaces
    <3>2. cal[t][i].ts = t /\ t \in Nat
      BY <2>2 DEF IsCalendar
    <3>3. t <= u
      BY <1>10, <2>2, <3>1, <3>2
    <3> QED
      BY <1>5, <2>2, <3>2, <3>3
  <2>3. CASE new[t][i] = e
    <3>1. new[u][j] # e /\ u \in DOMAIN cal /\ j \in 1..Len(cal[u]) /\ new[u][j] = cal[u][j]
      BY <1>7, <1>10, <2>3
    <3> QED
      BY <1>10, <2>3, <3>1, EventPlaces
  <2> QED
    BY <1>7, <2>1, <2>2, <2>3
<1> QED
  BY <1>2, <1>6, <1>8, <1>9, <1>10

\* RemoveEvent takes the event that was served next, and leaves the others in their
\* order.
LEMMA RemoveIs ==
    ASSUME NEW E, NEW cal, IsCalendar(cal, E), ~IsEmpty(cal)
    PROVE  /\ IsCalendar(RemoveEvent(cal), E)
           /\ EventsOf(cal) = EventsOf(RemoveEvent(cal)) \cup {GetEvent(cal)}
           /\ \A X : Once(cal, X) =>
                        /\ Once(RemoveEvent(cal), X)
                        /\ GetEvent(cal) \in X => EventsOf(RemoveEvent(cal)) \cap X = {}
           /\ \A X, Y : Ahead(cal, X, Y) =>
                        /\ Ahead(RemoveEvent(cal), X, Y)
                        /\ GetEvent(cal) \in Y => EventsOf(cal) \cap X = {}
<1>1. PICK f : f = FirstKey(cal)
  OBVIOUS
<1>2. PICK new : new = RemoveEvent(cal)
  OBVIOUS
<1>3. /\ f \in DOMAIN cal
      /\ \A t \in DOMAIN cal : f <= t
      /\ cal[f] \in Seq(E) /\ cal[f] # <<>>
      /\ GetEvent(cal) = cal[f][1]
      /\ GetEvent(cal) \in EventsOf(cal)
  BY <1>1, FirstEvent
<1>4. PICK r : r = Tail(cal[f])
  OBVIOUS
<1>5. /\ r \in Seq(E)
      /\ Len(r) \in Nat
      /\ Len(cal[f]) = Len(r) + 1
      /\ \A i \in 1..Len(r) : r[i] = cal[f][i + 1]
  BY <1>3, <1>4
<1>6. DOMAIN cal \subseteq Nat /\ cal = [t \in DOMAIN cal |-> cal[t]]
  BY DEF IsCalendar
<1>7. /\ r = <<>> => new = [t \in DOMAIN cal \ {f} |-> cal[t]]
      /\ r # <<>> => new = [cal EXCEPT ![f] = r]
  BY <1>1, <1>2, <1>4 DEF RemoveEvent
<1>8. /\ DOMAIN new \subseteq DOMAIN cal
      /\ \A t \in DOMAIN cal : t # f => t \in DOMAIN new /\ new[t] = cal[t]
      /\ r # <<>> => f \in DOMAIN new
      /\ f \in DOMAIN new => r # <<>> /\ new[f] = r
      /\ new = [t \in DOMAIN new |-> new[t]]
  <2>1. CASE r = <<>>
    BY <1>7, <2>1
  <2>2. CASE r # <<>>
    BY <1>3, <1>6, <1>7, <2>2
  <2> QED
    BY <2>1, <2>2
\* A place of the new calendar is one of the old, one before it in the queue that
\* was served.
<1>9. ASSUME NEW t \in DOMAIN new, NEW i \in 1..Len(new[t])
      PROVE  /\ t \in DOMAIN cal /\ t \in Nat
             /\ \E a \in 1..Len(cal[t]) : /\ new[t][i] = cal[t][a]
                                          /\ t = f => a = i + 1
                                          /\ t # f => a = i
  <2>1. t \in DOMAIN cal /\ t \in Nat
    BY <1>6, <1>8
  <2>2. CASE t = f
    <3>1. new[t] = r /\ i + 1 \in 1..Len(cal[t]) /\ new[t][i] = cal[t][i + 1]
      BY <1>5, <1>8, <2>2
    <3> QED
      BY <2>1, <2>2, <3>1
  <2>3. CASE t # f
    BY <1>8, <2>1, <2>3
  <2> QED
    BY <2>2, <2>3
<1>10. ASSUME NEW t \in DOMAIN cal, NEW i \in 1..Len(cal[t]), t # f \/ i # 1
       PROVE  \E j \in 1..Len(new[t]) : t \in DOMAIN new /\ new[t][j] = cal[t][i]
  <2>1. CASE t = f
    <3>1. i - 1 \in 1..Len(r) /\ (i - 1) + 1 = i
      BY <1>5, <1>10, <2>1
    <3>2. r # <<>>
      BY <1>5, <3>1
    <3>3. t \in DOMAIN new /\ new[t] = r
      BY <1>8, <2>1, <3>2
    <3>4. r[i - 1] = cal[t][i]
      BY <1>5, <2>1, <3>1
    <3> QED
      BY <3>1, <3>3, <3>4
  <2>2. CASE t # f
    BY <1>8, <2>2
  <2> QED
    BY <2>1, <2>2
<1>11. IsCalendar(new, E)
  <2>1. ASSUME NEW t \in DOMAIN new
        PROVE  new[t] \in Seq(E) /\ new[t] # <<>> /\ \A i \in 1..Len(new[t]) : new[t][i].ts = t
    <3>1. new[t] \in Seq(E) /\ new[t] # <<>>
      <4>1. CASE t = f
        BY <1>5, <1>8, <4>1
      <4>2. CASE t # f
        BY <1>8, <4>2 DEF IsCalendar
      <4> QED
        BY <4>1, <4>2
    <3>2. ASSUME NEW i \in 1..Len(new[t])
          PROVE  new[t][i].ts = t
      BY <1>9 DEF IsCalendar
    <3> QED
      BY <3>1, <3>2
  <2> QED
    BY <1>6, <1>8, <2>1 DEF IsCalendar
<1>12. EventsOf(cal) = EventsOf(new) \cup {GetEvent(cal)}
  <2>1. ASSUME NEW x \in EventsOf(new)
        PROVE  x \in EventsOf(cal)
    <3>1. PICK t \in DOMAIN new : \E i \in 1..Len(new[t]) : x = new[t][i]
      BY EventPlaces
    <3>2. PICK i \in 1..Len(new[t]) : x = new[t][i]
      BY <3>1
    <3> QED
      BY <1>9, <3>2, EventPlaces
  <2>2. ASSUME NEW x \in EventsOf(cal), x # GetEvent(cal)
        PROVE  x \in EventsOf(new)
    <3>1. PICK t \in DOMAIN cal : \E i \in 1..Len(cal[t]) : x = cal[t][i]
      BY EventPlaces
    <3>2. PICK i \in 1..Len(cal[t]) : x = cal[t][i]
      BY <3>1
    <3>3. t # f \/ i # 1
      BY <1>3, <2>2, <3>2
    <3> QED
      BY <1>10, <3>2, <3>3, EventPlaces
  <2> QED
    BY <1>3, <2>1, <2>2
<1>13. ASSUME NEW X, Once(cal, X)
       PROVE  /\ Once(new, X)
              /\ GetEvent(cal) \in X => EventsOf(new) \cap X = {}
  <2>1. ASSUME NEW t \in DOMAIN new, NEW u \in DOMAIN new,
               NEW i \in 1..Len(new[t]), NEW j \in 1..Len(new[u]),
               new[t][i] \in X, new[u][j] \in X
        PROVE  t = u /\ i = j
    <3>1. PICK a \in 1..Len(cal[t]) : /\ new[t][i] = cal[t][a]
                                      /\ t = f => a = i + 1
                                      /\ t # f => a = i
      BY <1>9
    <3>2. PICK b \in 1..Len(cal[u]) : /\ new[u][j] = cal[u][b]
                                      /\ u = f => b = j + 1
                                      /\ u # f => b = j
      BY <1>9
    <3>3. t \in DOMAIN cal /\ u \in DOMAIN cal
      BY <1>9
    <3>4. t = u /\ a = b
      BY <1>13, <2>1, <3>1, <3>2, <3>3 DEF Once
    <3> QED
      BY <3>1, <3>2, <3>4
  <2>2. ASSUME GetEvent(cal) \in X, NEW x \in EventsOf(new) \cap X
        PROVE  FALSE
    <3>1. PICK t \in DOMAIN new : \E i \in 1..Len(new[t]) : x = new[t][i]
      BY <2>2, EventPlaces
    <3>2. PICK i \in 1..Len(new[t]) : x = new[t][i]
      BY <3>1
    <3>3. 1 \in 1..Len(cal[f])
      BY <1>5
    <3>4. PICK a \in 1..Len(cal[t]) : /\ new[t][i] = cal[t][a]
                                      /\ t = f => a = i + 1
      BY <1>9
    <3>5. t = f /\ a = 1
      BY <1>3, <1>9, <1>13, <2>2, <3>2, <3>3, <3>4 DEF Once
    <3> QED
      BY <3>4, <3>5
  <2> QED
    BY <2>1, <2>2 DEF Once
<1>14. ASSUME NEW X, NEW Y, Ahead(cal, X, Y)
       PROVE  /\ Ahead(new, X, Y)
              /\ GetEvent(cal) \in Y => EventsOf(cal) \cap X = {}
  <2>1. ASSUME NEW t \in DOMAIN new, NEW u \in DOMAIN new,
               NEW i \in 1..Len(new[t]), NEW j \in 1..Len(new[u]),
               new[t][i] \in X, new[u][j] \in Y
        PROVE  t < u \/ (t = u /\ i < j)
    <3>1. PICK a \in 1..Len(cal[t]) : /\ new[t][i] = cal[t][a]
                                      /\ t = f => a = i + 1
                                      /\ t # f => a = i
      BY <1>9
    <3>2. PICK b \in 1..Len(cal[u]) : /\ new[u][j] = cal[u][b]
                                      /\ u = f => b = j + 1
                                      /\ u # f => b = j
      BY <1>9
    <3>3. t \in DOMAIN cal /\ u \in DOMAIN cal
      BY <1>9
    <3>4. t < u \/ (t = u /\ a < b)
      BY <1>14, <2>1, <3>1, <3>2, <3>3 DEF Ahead
    <3> QED
      BY <3>1, <3>2, <3>4
  <2>2. ASSUME GetEvent(cal) \in Y, NEW x \in EventsOf(cal) \cap X
        PROVE  FALSE
    <3>1. PICK t \in DOMAIN cal : \E i \in 1..Len(cal[t]) : x = cal[t][i]
      BY <2>2, EventPlaces
    <3>2. PICK i \in 1..Len(cal[t]) : x = cal[t][i]
      BY <3>1
    <3>3. t < f \/ (t = f /\ i < 1)
      BY <1>3, <1>5, <1>14, <2>2, <3>2 DEF Ahead
    <3>4. f <= t /\ t \in Nat /\ f \in Nat
      BY <1>3, <1>6
    <3> QED
      BY <3>3, <3>4
  <2> QED
    BY <2>1, <2>2 DEF Ahead
<1> QED
  BY <1>2, <1>11, <1>12, <1>13, <1>14

\* WithoutEvents takes the events of the set D out, and leaves the others in their
\* order.
LEMMA WithoutIs ==
    ASSUME NEW E, NEW cal, IsCalendar(cal, E), NEW D
    PROVE  /\ IsCalendar(WithoutEvents(cal, D), E)
           /\ EventsOf(WithoutEvents(cal, D)) = EventsOf(cal) \ D
           /\ \A X : Once(cal, X) => Once(WithoutEvents(cal, D), X)
           /\ \A X, Y : Ahead(cal, X, Y) => Ahead(WithoutEvents(cal, D), X, Y)
           /\ ~IsEmpty(cal) /\ GetEvent(cal) \notin D =>
                GetEvent(WithoutEvents(cal, D)) = GetEvent(cal)
<1>1. PICK new : new = WithoutEvents(cal, D)
  OBVIOUS
<1>2. PICK k : k = [t \in DOMAIN cal |-> Kept(cal[t], D)]
  OBVIOUS
<1>3. /\ DOMAIN new = {t \in DOMAIN cal : k[t] # <<>>}
      /\ \A t \in DOMAIN new : new[t] = k[t]
      /\ new = [t \in DOMAIN new |-> new[t]]
  <2>1. new = [t \in {s \in DOMAIN cal : k[s] # <<>>} |-> k[t]]
    BY <1>1, <1>2 DEF WithoutEvents
  <2> QED
    BY <2>1
\* The places of a queue of the new calendar in that of the old.
<1>4. ASSUME NEW t \in DOMAIN cal
      PROVE  /\ k[t] \in Seq(E)
             /\ \E h \in [1..Len(k[t]) -> 1..Len(cal[t])] :
                /\ \A i \in 1..Len(k[t]) : k[t][i] = cal[t][h[i]] /\ cal[t][h[i]] \notin D
                /\ \A i, j \in 1..Len(k[t]) : i < j => h[i] < h[j]
                /\ \A m \in 1..Len(cal[t]) : cal[t][m] \notin D =>
                        \E i \in 1..Len(k[t]) : h[i] = m
  <2>1. PICK s \in Seq(E) : s = cal[t]
    BY DEF IsCalendar
  <2>2. k[t] = Kept(s, D)
    BY <1>2, <2>1
  <2> QED
    BY <2>1, <2>2, KeptIs
<1>elements. ASSUME NEW t \in DOMAIN cal, NEW i \in 1..Len(k[t])
      PROVE  \E m \in 1..Len(cal[t]) : k[t][i] = cal[t][m] /\ k[t][i] \notin D
  <2>1. PICK h \in [1..Len(k[t]) -> 1..Len(cal[t])] :
                \A n \in 1..Len(k[t]) : k[t][n] = cal[t][h[n]] /\ cal[t][h[n]] \notin D
    BY <1>4
  <2>2. h[i] \in 1..Len(cal[t]) /\ k[t][i] = cal[t][h[i]] /\ k[t][i] \notin D
    BY <2>1
  <2> QED
    BY <2>2
<1>5. IsCalendar(new, E)
  <2>1. ASSUME NEW t \in DOMAIN new
        PROVE  new[t] \in Seq(E) /\ new[t] # <<>> /\ \A i \in 1..Len(new[t]) : new[t][i].ts = t
    <3>1. t \in DOMAIN cal /\ k[t] # <<>> /\ new[t] = k[t]
      BY <1>3
    <3>2. \A i \in 1..Len(k[t]) : \E m \in 1..Len(cal[t]) : k[t][i] = cal[t][m]
      BY <1>elements, <3>1
    <3>3. \A m \in 1..Len(cal[t]) : cal[t][m].ts = t
      BY <3>1 DEF IsCalendar
    <3> QED
      BY <1>4, <3>1, <3>2, <3>3
  <2>2. DOMAIN new \subseteq Nat
    BY <1>3 DEF IsCalendar
  <2> QED
    BY <1>3, <2>1, <2>2 DEF IsCalendar
<1>6. EventsOf(new) = EventsOf(cal) \ D
  <2>1. ASSUME NEW x \in EventsOf(new)
        PROVE  x \in EventsOf(cal) \ D
    <3>1. PICK t \in DOMAIN new : \E i \in 1..Len(new[t]) : x = new[t][i]
      BY EventPlaces
    <3>2. PICK i \in 1..Len(new[t]) : x = new[t][i]
      BY <3>1
    <3>3. t \in DOMAIN cal /\ new[t] = k[t]
      BY <1>3
    <3>4. \E m \in 1..Len(cal[t]) : x = cal[t][m] /\ x \notin D
      BY <1>elements, <3>2, <3>3
    <3> QED
      BY <3>3, <3>4, EventPlaces
  <2>2. ASSUME NEW x \in EventsOf(cal) \ D
        PROVE  x \in EventsOf(new)
    <3>1. PICK t \in DOMAIN cal : \E m \in 1..Len(cal[t]) : x = cal[t][m]
      BY EventPlaces
    <3>2. PICK m \in 1..Len(cal[t]) : x = cal[t][m]
      BY <3>1
    <3>3. PICK i \in 1..Len(k[t]) : k[t][i] = x
      BY <1>4, <2>2, <3>2
    <3>4. k[t] # <<>>
      BY <1>4, <3>3
    <3>5. t \in DOMAIN new /\ new[t] = k[t]
      BY <1>3, <3>4
    <3> QED
      BY <3>3, <3>5, EventPlaces
  <2> QED
    BY <2>1, <2>2
\* Two places of the new calendar come from two of the old in the same order.
<1>7. ASSUME NEW t \in DOMAIN new, NEW u \in DOMAIN new,
             NEW i \in 1..Len(new[t]), NEW j \in 1..Len(new[u])
      PROVE  /\ t \in DOMAIN cal /\ u \in DOMAIN cal
             /\ \E a \in 1..Len(cal[t]), b \in 1..Len(cal[u]) :
                    /\ new[t][i] = cal[t][a] /\ new[u][j] = cal[u][b]
                    /\ t = u /\ i < j => a < b
                    /\ t = u /\ j < i => b < a
                    /\ t = u /\ i = j => a = b
  <2>1. /\ t \in DOMAIN cal /\ new[t] = k[t]
        /\ u \in DOMAIN cal /\ new[u] = k[u]
    BY <1>3
  <2>2. PICK h \in [1..Len(k[t]) -> 1..Len(cal[t])] :
                /\ \A n \in 1..Len(k[t]) : k[t][n] = cal[t][h[n]] /\ cal[t][h[n]] \notin D
                /\ \A m, n \in 1..Len(k[t]) : m < n => h[m] < h[n]
    BY <1>4, <2>1
  <2>3. PICK g \in [1..Len(k[u]) -> 1..Len(cal[u])] :
                \A n \in 1..Len(k[u]) : k[u][n] = cal[u][g[n]]
    BY <1>4, <2>1
  <2>4. CASE t = u
    <3>1. h[i] \in 1..Len(cal[t]) /\ h[j] \in 1..Len(cal[u])
      BY <2>1, <2>2, <2>4
    <3>2. new[t][i] = cal[t][h[i]] /\ new[u][j] = cal[u][h[j]]
      BY <2>1, <2>2, <2>4
    <3>3. (i < j => h[i] < h[j]) /\ (j < i => h[j] < h[i])
      BY <2>1, <2>2, <2>4
    <3> QED
      BY <2>1, <3>1, <3>2, <3>3
  <2>5. CASE t # u
    <3>1. h[i] \in 1..Len(cal[t]) /\ g[j] \in 1..Len(cal[u])
      BY <2>1, <2>2, <2>3
    <3>2. new[t][i] = cal[t][h[i]] /\ new[u][j] = cal[u][g[j]]
      BY <2>1, <2>2, <2>3
    <3> QED
      BY <2>1, <2>5, <3>1, <3>2
  <2> QED
    BY <2>4, <2>5
<1>8. ASSUME NEW t \in DOMAIN new
      PROVE  \A i \in 1..Len(new[t]) : i \in Nat
  OBVIOUS
<1>9. ASSUME NEW X, Once(cal, X)
      PROVE  Once(new, X)
  <2> SUFFICES ASSUME NEW t \in DOMAIN new, NEW u \in DOMAIN new,
                      NEW i \in 1..Len(new[t]), NEW j \in 1..Len(new[u]),
                      new[t][i] \in X, new[u][j] \in X
               PROVE  t = u /\ i = j
    BY DEF Once
  <2>1. PICK a \in 1..Len(cal[t]), b \in 1..Len(cal[u]) :
                    /\ new[t][i] = cal[t][a] /\ new[u][j] = cal[u][b]
                    /\ t = u /\ i < j => a < b
                    /\ t = u /\ j < i => b < a
    BY <1>7
  <2>2. t \in DOMAIN cal /\ u \in DOMAIN cal
    BY <1>7
  <2>3. t = u /\ a = b
    BY <1>9, <2>1, <2>2 DEF Once
  <2>4. i \in Nat /\ j \in Nat /\ a \in Nat /\ b \in Nat
    OBVIOUS
  <2> QED
    BY <2>1, <2>3, <2>4
<1>10. ASSUME NEW X, NEW Y, Ahead(cal, X, Y)
       PROVE  Ahead(new, X, Y)
  <2> SUFFICES ASSUME NEW t \in DOMAIN new, NEW u \in DOMAIN new,
                      NEW i \in 1..Len(new[t]), NEW j \in 1..Len(new[u]),
                      new[t][i] \in X, new[u][j] \in Y
               PROVE  t < u \/ (t = u /\ i < j)
    BY DEF Ahead
  <2>1. PICK a \in 1..Len(cal[t]), b \in 1..Len(cal[u]) :
                    /\ new[t][i] = cal[t][a] /\ new[u][j] = cal[u][b]
                    /\ t = u /\ j < i => b < a
                    /\ t = u /\ i = j => a = b
    BY <1>7
  <2>2. t \in DOMAIN cal /\ u \in DOMAIN cal
    BY <1>7
  <2>3. t < u \/ (t = u /\ a < b)
    BY <1>10, <2>1, <2>2 DEF Ahead
  <2>4. i \in Nat /\ j \in Nat /\ a \in Nat /\ b \in Nat
    OBVIOUS
  <2> QED
    BY <2>1, <2>3, <2>4
<1>11. ASSUME ~IsEmpty(cal), GetEvent(cal) \notin D
       PROVE  GetEvent(new) = GetEvent(cal)
  <2>1. PICK f : f = FirstKey(cal)
    OBVIOUS
  <2>2. /\ f \in DOMAIN cal
        /\ \A t \in DOMAIN cal : f <= t
        /\ cal[f] \in Seq(E) /\ cal[f] # <<>>
        /\ GetEvent(cal) = cal[f][1]
    BY <1>11, <2>1, FirstEvent
  <2>3. PICK h \in [1..Len(k[f]) -> 1..Len(cal[f])] :
                /\ \A i \in 1..Len(k[f]) : k[f][i] = cal[f][h[i]] /\ cal[f][h[i]] \notin D
                /\ \A i, j \in 1..Len(k[f]) : i < j => h[i] < h[j]
                /\ \A m \in 1..Len(cal[f]) : cal[f][m] \notin D =>
                        \E i \in 1..Len(k[f]) : h[i] = m
    BY <1>4, <2>2
  <2>4. 1 \in 1..Len(cal[f])
    BY <2>2
  <2>5. PICK i \in 1..Len(k[f]) : h[i] = 1
    BY <1>11, <2>2, <2>3, <2>4
  <2>6. 1 \in 1..Len(k[f]) /\ Len(cal[f]) \in Nat /\ i \in Nat
    BY <1>4, <2>2, <2>5
  <2>7. h[1] \in 1..Len(cal[f])
    BY <2>3, <2>6
  <2>8. h[1] = 1
    <3>1. 1 < i => h[1] < h[i]
      BY <2>3, <2>5, <2>6
    <3> QED
      BY <2>5, <2>6, <2>7, <3>1
  <2>9. k[f][1] = GetEvent(cal)
    BY <2>2, <2>3, <2>6, <2>8
  <2>10. f \in DOMAIN new /\ new[f] = k[f]
    <3>1. k[f] # <<>>
      BY <1>4, <2>2, <2>6
    <3> QED
      BY <1>3, <2>2, <3>1
  <2>11. FirstKey(new) = f
    <3>1. \A t \in DOMAIN new : f <= t
      BY <1>3, <2>2
    <3>2. DOMAIN new \subseteq Nat
      BY <1>5 DEF IsCalendar
    <3> QED
      BY <2>10, <3>1, <3>2 DEF FirstKey
  <2> QED
    BY <1>4, <2>2, <2>6, <2>9, <2>10, <2>11 DEF GetEvent
<1> QED
  BY <1>1, <1>5, <1>6, <1>9, <1>10, <1>11

\* An event that is not earlier than the one that is served may as well be inserted
\* after this was removed.
LEMMA RemoveInsert ==
    ASSUME NEW E, NEW cal, IsCalendar(cal, E), ~IsEmpty(cal),
           NEW e \in E, e.ts \in Nat, GetEvent(cal).ts <= e.ts
    PROVE  /\ RemoveEvent(InsertEvent(cal, e)) = InsertEvent(RemoveEvent(cal), e)
           /\ GetEvent(InsertEvent(cal, e)) = GetEvent(cal)
<1>1. PICK f : f = FirstKey(cal)
  OBVIOUS
<1>2. PICK new : new = InsertEvent(cal, e)
  OBVIOUS
<1>3. PICK old : old = RemoveEvent(cal)
  OBVIOUS
<1>4. PICK q : q = QueueAt(cal, e.ts)
  OBVIOUS
<1>5. /\ f \in DOMAIN cal /\ f \in Nat
      /\ \A t \in DOMAIN cal : f <= t
      /\ cal[f] \in Seq(E) /\ cal[f] # <<>>
      /\ f <= e.ts
      /\ GetEvent(cal) = Head(cal[f])
      /\ DOMAIN cal \subseteq Nat
      /\ cal = [t \in DOMAIN cal |-> cal[t]]
  BY <1>1, FirstEvent DEF IsCalendar, GetEvent
<1>6. q \in Seq(E) /\ (e.ts \in DOMAIN cal => q = cal[e.ts]) /\ (e.ts \notin DOMAIN cal => q = <<>>)
  BY <1>4 DEF QueueAt, IsCalendar
<1>7. /\ DOMAIN new = DOMAIN cal \cup {e.ts}
      /\ new[e.ts] = Append(q, e)
      /\ \A t \in DOMAIN cal : t # e.ts => new[t] = cal[t]
      /\ new = [t \in DOMAIN new |-> new[t]]
  BY <1>2, <1>4 DEF InsertEvent
<1>8. FirstKey(new) = f
  <2>1. f \in DOMAIN new /\ \A t \in DOMAIN new : f <= t
    BY <1>5, <1>7
  <2>2. DOMAIN new \subseteq Nat
    BY <1>5, <1>7
  <2> QED
    BY <2>1, <2>2 DEF FirstKey
<1>9. PICK r : r = Tail(cal[f])
  OBVIOUS
<1>10. r \in Seq(E)
  BY <1>5, <1>9
<1>11. /\ r = <<>> => old = [t \in DOMAIN cal \ {f} |-> cal[t]]
       /\ r # <<>> => old = [cal EXCEPT ![f] = r]
  BY <1>1, <1>3, <1>9 DEF RemoveEvent
<1>12. PICK p : p = Tail(new[f])
  OBVIOUS
<1>13. /\ p = <<>> => RemoveEvent(new) = [t \in DOMAIN new \ {f} |-> new[t]]
       /\ p # <<>> => RemoveEvent(new) = [new EXCEPT ![f] = p]
  BY <1>8, <1>12 DEF RemoveEvent
<1>14. InsertEvent(old, e) = [t \in DOMAIN old \cup {e.ts} |->
                    IF t = e.ts THEN Append(QueueAt(old, e.ts), e) ELSE old[t]]
  BY DEF InsertEvent
<1>15. CASE e.ts = f
  <2>1. q = cal[f] /\ new[f] = Append(cal[f], e)
    BY <1>5, <1>6, <1>7, <1>15
  <2>2. p = Append(r, e) /\ p # <<>> /\ Head(new[f]) = Head(cal[f])
    BY <1>5, <1>9, <1>10, <1>12, <2>1
  <2>3. RemoveEvent(new) = [new EXCEPT ![f] = p]
    BY <1>13, <2>2
  <2>4. DOMAIN new = DOMAIN cal /\ \A t \in DOMAIN cal : t # f => new[t] = cal[t]
    BY <1>5, <1>7, <1>15
  <2>5. QueueAt(old, f) = r /\ DOMAIN old \cup {f} = DOMAIN cal
        /\ \A t \in DOMAIN cal : t # f => old[t] = cal[t]
    <3>1. CASE r = <<>>
      BY <1>5, <1>11, <3>1 DEF QueueAt
    <3>2. CASE r # <<>>
      <4>1. old = [t \in DOMAIN cal |-> IF t = f THEN r ELSE cal[t]]
        BY <1>5, <1>11, <3>2
      <4> QED
        BY <1>5, <4>1 DEF QueueAt
    <3> QED
      BY <3>1, <3>2
  <2>6. InsertEvent(old, e) = [t \in DOMAIN cal |-> IF t = f THEN p ELSE cal[t]]
    BY <1>14, <1>15, <2>2, <2>5
  <2>7. RemoveEvent(new) = [t \in DOMAIN cal |-> IF t = f THEN p ELSE cal[t]]
    BY <1>7, <2>3, <2>4
  <2> QED
    BY <1>2, <1>3, <1>5, <1>8, <2>2, <2>6, <2>7 DEF GetEvent
<1>16. CASE e.ts # f
  <2>1. new[f] = cal[f] /\ p = r
    BY <1>5, <1>7, <1>9, <1>12, <1>16
  <2>2. QueueAt(old, e.ts) = q
    <3>1. CASE r = <<>>
      BY <1>6, <1>11, <1>16, <3>1 DEF QueueAt
    <3>2. CASE r # <<>>
      <4>1. old = [t \in DOMAIN cal |-> IF t = f THEN r ELSE cal[t]]
        BY <1>5, <1>11, <3>2
      <4> QED
        BY <1>6, <1>16, <4>1 DEF QueueAt
    <3> QED
      BY <3>1, <3>2
  <2>3. CASE r = <<>>
    <3>1. RemoveEvent(new) = [t \in DOMAIN new \ {f} |-> new[t]]
      BY <1>13, <2>1, <2>3
    <3>2. old = [t \in DOMAIN cal \ {f} |-> cal[t]]
      BY <1>11, <2>3
    <3>3. DOMAIN old \cup {e.ts} = DOMAIN new \ {f}
      BY <1>7, <1>16, <3>2
    <3>4. \A t \in DOMAIN new \ {f} :
            new[t] = IF t = e.ts THEN Append(QueueAt(old, e.ts), e) ELSE old[t]
      BY <1>7, <2>2, <3>2
    <3>5. RemoveEvent(new) = InsertEvent(old, e)
      BY <1>14, <3>1, <3>3, <3>4
    <3> QED
      BY <1>2, <1>3, <1>5, <1>8, <2>1, <3>5 DEF GetEvent
  <2>4. CASE r # <<>>
    <3>1. RemoveEvent(new) = [t \in DOMAIN new |-> IF t = f THEN r ELSE new[t]]
      BY <1>7, <1>13, <2>1, <2>4
    <3>2. old = [t \in DOMAIN cal |-> IF t = f THEN r ELSE cal[t]]
      BY <1>5, <1>11, <2>4
    <3>3. DOMAIN old \cup {e.ts} = DOMAIN new
      BY <1>7, <3>2
    <3>4. \A t \in DOMAIN new : (IF t = f THEN r ELSE new[t])
            = IF t = e.ts THEN Append(QueueAt(old, e.ts), e) ELSE old[t]
      BY <1>5, <1>7, <1>16, <2>2, <3>2
    <3>5. RemoveEvent(new) = InsertEvent(old, e)
      BY <1>14, <3>1, <3>3, <3>4
    <3> QED
      BY <1>2, <1>3, <1>5, <1>8, <2>1, <3>5 DEF GetEvent
  <2> QED
    BY <2>3, <2>4
<1> QED
  BY <1>15, <1>16

\* The recursion behind InsertAll.
Inserts(k, cal, es) ==
    /\ k[0] = cal
    /\ \A i \in 1..Len(es) : k[i] = InsertEvent(k[i - 1], es[i])

\* The calendar with all the events is built by the recursion of InsertAll.
LEMMA InsertAllRecursion ==
    ASSUME NEW E, NEW cal, IsCalendar(cal, E), NEW es \in Seq(E),
           \A i \in 1..Len(es) : es[i].ts \in Nat
    PROVE  \E k : /\ InsertAll(cal, es) = k[Len(es)]
                  /\ Inserts(k, cal, es)
                  /\ \A i \in 0..Len(es) : IsCalendar(k[i], E)
<1> DEFINE S == {c \in UNION {[D -> Seq(E)] : D \in SUBSET Nat} : IsCalendar(c, E)}
           Eq(k) == k = [i \in 0..Len(es) |->
                            IF i = 0 THEN cal ELSE InsertEvent(k[i - 1], es[i])]
           step == [i \in 1..Len(es) |-> [c \in S |-> InsertEvent(c, es[i])]]
<1>1. ASSUME NEW c
      PROVE  c \in S <=> IsCalendar(c, E)
  <2>1. ASSUME IsCalendar(c, E)
        PROVE  c \in [DOMAIN c -> Seq(E)] /\ DOMAIN c \in SUBSET Nat
    BY <2>1 DEF IsCalendar
  <2> QED
    BY <2>1
<1>2. Len(es) \in Nat /\ \A i \in 1..Len(es) : es[i] \in E /\ es[i].ts \in Nat
  OBVIOUS
<1>3. cal \in S /\ \A i \in 1..Len(es), c \in S : InsertEvent(c, es[i]) \in S
  <2> HIDE DEF S
  <2>1. ASSUME NEW i \in 1..Len(es), NEW c \in S
        PROVE  InsertEvent(c, es[i]) \in S
    <3>1. IsCalendar(c, E) /\ es[i] \in E /\ es[i].ts \in Nat
      BY <1>1, <1>2
    <3>2. IsCalendar(InsertEvent(c, es[i]), E)
      BY <3>1, InsertIs
    <3> QED
      BY <1>1, <3>2
  <2> QED
    BY <1>1, <2>1
<1> HIDE DEF S
<1>4. PICK f \in [0..Len(es) -> S] : Iterates(f, cal, step, Len(es))
  <2>1. step \in [1..Len(es) -> [S -> S]]
    BY <1>3
  <2> HIDE DEF step
  <2> QED
    BY <1>2, <1>3, <2>1, Recursion
<1>5. Eq(f)
  <2>1. f = [i \in 0..Len(es) |-> f[i]]
    OBVIOUS
  <2>2. ASSUME NEW i \in 1..Len(es)
        PROVE  f[i] = InsertEvent(f[i - 1], es[i])
    <3>1. f[i - 1] \in S
      BY <1>2
    <3>2. f[i] = step[i][f[i - 1]]
      BY <1>4 DEF Iterates
    <3> QED
      BY <3>1, <3>2
  <2>3. \A i \in 0..Len(es) : f[i] = IF i = 0 THEN cal ELSE InsertEvent(f[i - 1], es[i])
    BY <1>2, <1>4, <2>2 DEF Iterates
  <2> QED
    BY <2>1, <2>3
<1>6. PICK k : k = CHOOSE g : Eq(g)
  OBVIOUS
<1>7. Eq(k)
  <2> HIDE DEF Eq
  <2> QED
    BY <1>5, <1>6
<1>8. InsertAll(cal, es) = k[Len(es)]
  BY <1>6 DEF InsertAll
<1>9. Inserts(k, cal, es)
  BY <1>2, <1>7 DEF Inserts
<1>10. \A i \in 0..Len(es) : IsCalendar(k[i], E)
  <2> DEFINE P == {i \in Nat : i <= Len(es) => IsCalendar(k[i], E)}
  <2>1. 0 \in P
    BY <1>2, <1>9 DEF Inserts
  <2>2. ASSUME NEW i \in Nat, i \in P
        PROVE  i + 1 \in P
    <3> SUFFICES ASSUME i + 1 <= Len(es)
                 PROVE  IsCalendar(k[i + 1], E)
      OBVIOUS
    <3>1. IsCalendar(k[i], E) /\ i + 1 \in 1..Len(es)
      BY <1>2, <2>2
    <3>2. k[i + 1] = InsertEvent(k[i], es[i + 1])
      BY <1>9, <3>1 DEF Inserts
    <3>3. es[i + 1] \in E /\ es[i + 1].ts \in Nat
      BY <1>2, <3>1
    <3> QED
      BY <3>1, <3>2, <3>3, InsertIs
  <2> HIDE DEF P
  <2>3. \A i \in Nat : i \in P
    BY <2>1, <2>2, Induction
  <2> QED
    BY <1>2, <2>3 DEF P
<1> QED
  BY <1>8, <1>9, <1>10

\* Lists of up to three events.
LEMMA InsertAllShort ==
    ASSUME NEW E, NEW cal, IsCalendar(cal, E)
    PROVE  /\ InsertAll(cal, <<>>) = cal
           /\ \A a \in E : a.ts \in Nat => InsertAll(cal, <<a>>) = InsertEvent(cal, a)
           /\ \A a, b \in E : a.ts \in Nat /\ b.ts \in Nat =>
                InsertAll(cal, <<a, b>>) = InsertEvent(InsertEvent(cal, a), b)
           /\ \A a, b, c \in E : a.ts \in Nat /\ b.ts \in Nat /\ c.ts \in Nat =>
                InsertAll(cal, <<a, b, c>>) =
                    InsertEvent(InsertEvent(InsertEvent(cal, a), b), c)
<1>1. InsertAll(cal, <<>>) = cal
  <2>0. <<>> \in Seq(E)
    OBVIOUS
  <2>1. PICK es \in Seq(E) : es = <<>>
    BY <2>0
  <2>2. PICK k : InsertAll(cal, es) = k[Len(es)] /\ Inserts(k, cal, es)
    <3>1. \A i \in 1..Len(es) : es[i].ts \in Nat
      BY <2>1
    <3> QED
      BY <3>1, InsertAllRecursion
  <2> QED
    BY <2>1, <2>2 DEF Inserts
<1>2. ASSUME NEW a \in E, a.ts \in Nat
      PROVE  InsertAll(cal, <<a>>) = InsertEvent(cal, a)
  <2>0. <<a>> \in Seq(E)
    OBVIOUS
  <2>1. PICK es \in Seq(E) : es = <<a>>
    BY <2>0
  <2>2. Len(es) = 1 /\ es[1] = a
    BY <2>1
  <2>3. PICK k : InsertAll(cal, es) = k[Len(es)] /\ Inserts(k, cal, es)
    <3>1. \A i \in 1..Len(es) : es[i].ts \in Nat
      BY <1>2, <2>2
    <3> QED
      BY <3>1, InsertAllRecursion
  <2> QED
    BY <2>1, <2>2, <2>3 DEF Inserts
<1>3. ASSUME NEW a \in E, NEW b \in E, a.ts \in Nat, b.ts \in Nat
      PROVE  InsertAll(cal, <<a, b>>) = InsertEvent(InsertEvent(cal, a), b)
  <2>0. <<a, b>> \in Seq(E)
    OBVIOUS
  <2>1. PICK es \in Seq(E) : es = <<a, b>>
    BY <2>0
  <2>2. Len(es) = 2 /\ es[1] = a /\ es[2] = b
    BY <2>1
  <2>3. PICK k : InsertAll(cal, es) = k[Len(es)] /\ Inserts(k, cal, es)
    <3>1. \A i \in 1..Len(es) : es[i].ts \in Nat
      BY <1>3, <2>2
    <3> QED
      BY <3>1, InsertAllRecursion
  <2>4. k[1] = InsertEvent(cal, a) /\ k[2] = InsertEvent(k[1], b)
    BY <2>2, <2>3 DEF Inserts
  <2> QED
    BY <2>1, <2>2, <2>3, <2>4
<1>4. ASSUME NEW a \in E, NEW b \in E, NEW c \in E, a.ts \in Nat, b.ts \in Nat, c.ts \in Nat
      PROVE  InsertAll(cal, <<a, b, c>>) = InsertEvent(InsertEvent(InsertEvent(cal, a), b), c)
  <2>0. <<a, b, c>> \in Seq(E)
    OBVIOUS
  <2>1. PICK es \in Seq(E) : es = <<a, b, c>>
    BY <2>0
  <2>2. Len(es) = 3 /\ es[1] = a /\ es[2] = b /\ es[3] = c
    BY <2>1
  <2>3. PICK k : InsertAll(cal, es) = k[Len(es)] /\ Inserts(k, cal, es)
    <3>1. \A i \in 1..Len(es) : es[i].ts \in Nat
      BY <1>4, <2>2
    <3> QED
      BY <3>1, InsertAllRecursion
  <2>4. k[1] = InsertEvent(cal, a) /\ k[2] = InsertEvent(k[1], b) /\ k[3] = InsertEvent(k[2], c)
    BY <2>2, <2>3 DEF Inserts
  <2> QED
    BY <2>1, <2>2, <2>3, <2>4
<1> QED
  BY <1>1, <1>2, <1>3, <1>4

\* Events are scheduled while the first one is served: the calendar that is left
\* is that of the events behind it with the new ones.
LEMMA RemoveInsertAll ==
    ASSUME NEW E, NEW cal, IsCalendar(cal, E), ~IsEmpty(cal)
    PROVE  /\ RemoveEvent(InsertAll(cal, <<>>)) = RemoveEvent(cal)
           /\ \A a \in E : a.ts \in Nat /\ GetEvent(cal).ts <= a.ts =>
                RemoveEvent(InsertAll(cal, <<a>>)) = InsertEvent(RemoveEvent(cal), a)
           /\ \A a, b, c \in E :
                /\ a.ts \in Nat /\ b.ts \in Nat /\ c.ts \in Nat
                /\ GetEvent(cal).ts <= a.ts /\ GetEvent(cal).ts <= b.ts /\ GetEvent(cal).ts <= c.ts
                => RemoveEvent(InsertAll(cal, <<a, b, c>>)) =
                    InsertEvent(InsertEvent(InsertEvent(RemoveEvent(cal), a), b), c)
<1>1. ASSUME NEW c, IsCalendar(c, E), ~IsEmpty(c), GetEvent(c) = GetEvent(cal),
             NEW e \in E, e.ts \in Nat, GetEvent(cal).ts <= e.ts
      PROVE  /\ IsCalendar(InsertEvent(c, e), E)
             /\ ~IsEmpty(InsertEvent(c, e))
             /\ GetEvent(InsertEvent(c, e)) = GetEvent(cal)
             /\ RemoveEvent(InsertEvent(c, e)) = InsertEvent(RemoveEvent(c), e)
  <2>1. e \in EventsOf(InsertEvent(c, e)) /\ IsCalendar(InsertEvent(c, e), E)
    BY <1>1, InsertIs
  <2>2. ~IsEmpty(InsertEvent(c, e))
    BY <2>1, NotEmpty
  <2> QED
    BY <1>1, <2>1, <2>2, RemoveInsert
<1>2. ASSUME NEW a \in E, a.ts \in Nat, GetEvent(cal).ts <= a.ts
      PROVE  RemoveEvent(InsertAll(cal, <<a>>)) = InsertEvent(RemoveEvent(cal), a)
  <2>1. InsertAll(cal, <<a>>) = InsertEvent(cal, a)
    BY <1>2, InsertAllShort
  <2> QED
    BY <1>1, <1>2, <2>1
<1>3. ASSUME NEW a \in E, NEW b \in E, NEW c \in E,
             a.ts \in Nat, b.ts \in Nat, c.ts \in Nat,
             GetEvent(cal).ts <= a.ts, GetEvent(cal).ts <= b.ts, GetEvent(cal).ts <= c.ts
      PROVE  RemoveEvent(InsertAll(cal, <<a, b, c>>)) =
                InsertEvent(InsertEvent(InsertEvent(RemoveEvent(cal), a), b), c)
  <2>1. InsertAll(cal, <<a, b, c>>) = InsertEvent(InsertEvent(InsertEvent(cal, a), b), c)
    BY <1>3, InsertAllShort
  <2>2. PICK x : x = InsertEvent(cal, a)
    OBVIOUS
  <2>3. /\ IsCalendar(x, E) /\ ~IsEmpty(x) /\ GetEvent(x) = GetEvent(cal)
        /\ RemoveEvent(x) = InsertEvent(RemoveEvent(cal), a)
    BY <1>1, <1>3, <2>2
  <2>4. PICK y : y = InsertEvent(x, b)
    OBVIOUS
  <2>5. /\ IsCalendar(y, E) /\ ~IsEmpty(y) /\ GetEvent(y) = GetEvent(cal)
        /\ RemoveEvent(y) = InsertEvent(RemoveEvent(x), b)
    BY <1>1, <1>3, <2>3, <2>4
  <2>6. RemoveEvent(InsertEvent(y, c)) = InsertEvent(RemoveEvent(y), c)
    BY <1>1, <1>3, <2>5
  <2> QED
    BY <2>1, <2>2, <2>3, <2>4, <2>5, <2>6
<1>4. InsertAll(cal, <<>>) = cal
  BY InsertAllShort
<1> QED
  BY <1>2, <1>3, <1>4

\* The events of a list.
EventsIn(es) == {es[i] : i \in 1..Len(es)}

\* Any number of events are scheduled.
LEMMA InsertAllIs ==
    ASSUME NEW E, NEW cal, IsCalendar(cal, E), NEW es \in Seq(E),
           \A i \in 1..Len(es) : es[i].ts \in Nat
    PROVE  /\ IsCalendar(InsertAll(cal, es), E)
           /\ EventsOf(InsertAll(cal, es)) = EventsOf(cal) \cup EventsIn(es)
           /\ \A X : /\ Once(cal, X)
                     /\ \A i, j \in 1..Len(es) : es[i] \in X /\ es[j] \in X => i = j
                     /\ EventsIn(es) \cap X # {} => EventsOf(cal) \cap X = {}
                     => Once(InsertAll(cal, es), X)
           /\ \A X, Y : /\ Ahead(cal, X, Y)
                        /\ EventsIn(es) \cap (X \cup Y) = {}
                        => Ahead(InsertAll(cal, es), X, Y)
<1>1. PICK k : /\ InsertAll(cal, es) = k[Len(es)]
               /\ Inserts(k, cal, es)
               /\ \A i \in 0..Len(es) : IsCalendar(k[i], E)
  BY InsertAllRecursion
<1>2. Len(es) \in Nat /\ k[0] = cal
  BY <1>1 DEF Inserts
<1>3. ASSUME NEW i \in 1..Len(es)
      PROVE  /\ IsCalendar(k[i - 1], E)
             /\ es[i] \in E /\ es[i].ts \in Nat
             /\ k[i] = InsertEvent(k[i - 1], es[i])
  <2>1. i - 1 \in 0..Len(es)
    BY <1>2
  <2> QED
    BY <1>1, <2>1 DEF Inserts
<1>4. ASSUME NEW n \in 0..Len(es)
      PROVE  EventsOf(k[n]) = EventsOf(cal) \cup {es[j] : j \in 1..n}
  <2> DEFINE Right(i) == EventsOf(k[i]) = EventsOf(cal) \cup {es[j] : j \in 1..i}
             P == {i \in Nat : i <= Len(es) => Right(i)}
  <2>1. 0 \in P
    BY <1>2
  <2>2. ASSUME NEW i \in Nat, i \in P
        PROVE  i + 1 \in P
    <3> SUFFICES ASSUME i + 1 <= Len(es)
                 PROVE  Right(i + 1)
      OBVIOUS
    <3>1. i + 1 \in 1..Len(es) /\ (i + 1) - 1 = i
      BY <1>2
    <3>2. EventsOf(k[i + 1]) = EventsOf(k[i]) \cup {es[i + 1]}
      BY <1>3, <3>1, InsertIs
    <3>3. Right(i)
      BY <2>2, <3>1
    <3>4. 1..(i + 1) = 1..i \cup {i + 1}
      OBVIOUS
    <3> QED
      BY <3>2, <3>3, <3>4
  <2> HIDE DEF P
  <2>3. \A i \in Nat : i \in P
    BY <2>1, <2>2, Induction
  <2> QED
    BY <1>2, <2>3 DEF P
<1>5. IsCalendar(k[Len(es)], E) /\ EventsOf(k[Len(es)]) = EventsOf(cal) \cup EventsIn(es)
  BY <1>1, <1>2, <1>4 DEF EventsIn
<1>6. ASSUME NEW X, Once(cal, X),
             \A i, j \in 1..Len(es) : es[i] \in X /\ es[j] \in X => i = j,
             EventsIn(es) \cap X # {} => EventsOf(cal) \cap X = {}
      PROVE  Once(k[Len(es)], X)
  <2> DEFINE S == {c \in {k[i] : i \in 0..Len(es)} : Once(c, X)}
  <2>1. k[0] \in S
    BY <1>2, <1>6
  <2>2. ASSUME NEW i \in 1..Len(es), k[i - 1] \in S
        PROVE  k[i] \in S
    <3>1. i - 1 \in 0..Len(es) /\ i \in 0..Len(es)
      BY <1>2
    <3>2. EventsOf(k[i - 1]) = EventsOf(cal) \cup {es[j] : j \in 1..(i - 1)}
      BY <1>4, <3>1
    <3>3. ASSUME es[i] \in X
          PROVE  EventsOf(k[i - 1]) \cap X = {}
      <4>1. EventsOf(cal) \cap X = {}
        BY <1>6, <3>3 DEF EventsIn
      <4>2. \A j \in 1..(i - 1) : j \in 1..Len(es) /\ j # i
        BY <1>2
      <4>3. \A j \in 1..(i - 1) : es[j] \notin X
        BY <1>6, <3>3, <4>2
      <4> QED
        BY <3>2, <4>1, <4>3
    <3>4. PICK c, d : c = k[i - 1] /\ d = k[i]
      OBVIOUS
    <3>5. IsCalendar(c, E) /\ es[i] \in E /\ es[i].ts \in Nat /\ d = InsertEvent(c, es[i])
      BY <1>3, <3>4
    <3>6. Once(c, X) /\ (es[i] \in X => EventsOf(c) \cap X = {})
      BY <2>2, <3>3, <3>4
    <3>7. Once(d, X)
      BY <3>5, <3>6, InsertIs
    <3> QED
      BY <3>1, <3>4, <3>7
  <2> HIDE DEF S
  <2>3. \A i \in 0..Len(es) : k[i] \in S
    BY <1>2, <2>1, <2>2, Along
  <2> QED
    BY <1>2, <2>3 DEF S
<1>7. ASSUME NEW X, NEW Y, Ahead(cal, X, Y), EventsIn(es) \cap (X \cup Y) = {}
      PROVE  Ahead(k[Len(es)], X, Y)
  <2> DEFINE S == {c \in {k[i] : i \in 0..Len(es)} : Ahead(c, X, Y)}
  <2>1. k[0] \in S
    BY <1>2, <1>7
  <2>2. ASSUME NEW i \in 1..Len(es), k[i - 1] \in S
        PROVE  k[i] \in S
    <3>1. i - 1 \in 0..Len(es) /\ i \in 0..Len(es)
      BY <1>2
    <3>2. PICK c, d : c = k[i - 1] /\ d = k[i]
      OBVIOUS
    <3>3. IsCalendar(c, E) /\ es[i] \in E /\ es[i].ts \in Nat /\ d = InsertEvent(c, es[i])
      BY <1>3, <3>2
    <3>4. es[i] \notin X /\ es[i] \notin Y
      BY <1>7 DEF EventsIn
    <3>5. Ahead(c, X, Y)
      BY <2>2, <3>2
    <3>6. Ahead(d, X, Y)
      BY <3>3, <3>4, <3>5, InsertIs
    <3> QED
      BY <3>1, <3>2, <3>6
  <2> HIDE DEF S
  <2>3. \A i \in 0..Len(es) : k[i] \in S
    BY <1>2, <2>1, <2>2, Along
  <2> QED
    BY <1>2, <2>3 DEF S
<1> QED
  BY <1>1, <1>5, <1>6, <1>7

\* Any number of events, none of them earlier than the one that is served, may as
\* well be scheduled after this was removed.
LEMMA RemoveAllInserted ==
    ASSUME NEW E, NEW cal, IsCalendar(cal, E), ~IsEmpty(cal), NEW es \in Seq(E),
           \A i \in 1..Len(es) : es[i].ts \in Nat /\ GetEvent(cal).ts <= es[i].ts
    PROVE  RemoveEvent(InsertAll(cal, es)) = InsertAll(RemoveEvent(cal), es)
<1>1. PICK k : /\ InsertAll(cal, es) = k[Len(es)]
               /\ Inserts(k, cal, es)
               /\ \A i \in 0..Len(es) : IsCalendar(k[i], E)
  BY InsertAllRecursion
<1>2. IsCalendar(RemoveEvent(cal), E)
  BY RemoveIs
<1>3. PICK l : /\ InsertAll(RemoveEvent(cal), es) = l[Len(es)]
               /\ Inserts(l, RemoveEvent(cal), es)
  BY <1>2, InsertAllRecursion
<1> DEFINE Right(i) == ~IsEmpty(k[i]) /\ GetEvent(k[i]) = GetEvent(cal) /\ RemoveEvent(k[i]) = l[i]
           P == {i \in Nat : i <= Len(es) => Right(i)}
<1>4. 0 \in P
  BY <1>1, <1>3 DEF Inserts
<1>5. ASSUME NEW i \in Nat, i \in P
      PROVE  i + 1 \in P
  <2> SUFFICES ASSUME i + 1 <= Len(es)
               PROVE  Right(i + 1)
    OBVIOUS
  <2>1. Len(es) \in Nat /\ i + 1 \in 1..Len(es) /\ (i + 1) - 1 = i /\ i \in 0..Len(es)
    OBVIOUS
  <2>2. PICK c, d, e : c = k[i] /\ d = k[i + 1] /\ e = es[i + 1]
    OBVIOUS
  <2>3. d = InsertEvent(c, e) /\ l[i + 1] = InsertEvent(l[i], e)
    BY <1>1, <1>3, <2>1, <2>2 DEF Inserts
  <2>4. e \in E /\ e.ts \in Nat /\ GetEvent(cal).ts <= e.ts /\ IsCalendar(c, E)
    BY <1>1, <2>1, <2>2
  <2>5. ~IsEmpty(c) /\ GetEvent(c) = GetEvent(cal) /\ RemoveEvent(c) = l[i]
    BY <1>5, <2>1, <2>2
  <2>6. /\ RemoveEvent(d) = InsertEvent(RemoveEvent(c), e)
        /\ GetEvent(d) = GetEvent(c)
    BY <2>3, <2>4, <2>5, RemoveInsert
  <2>7. e \in EventsOf(d)
    BY <2>3, <2>4, InsertIs
  <2> QED
    BY <2>2, <2>3, <2>5, <2>6, <2>7, NotEmpty
<1> HIDE DEF P
<1>6. Len(es) \in Nat
  OBVIOUS
<1>7. Len(es) \in P
  BY <1>4, <1>5, <1>6, Induction
<1> QED
  BY <1>1, <1>3, <1>6, <1>7 DEF P

-----------------------------------------------------------------------------
(***************************************************************************)
(* The queue of a bearer                                                   *)
(***************************************************************************)

Elements ==
    {e \in [id : Nat, size : Nat, offset : Nat, number : Nat, fragmentation : BOOLEAN] :
        e.offset < e.size}

Queues ==
    {q \in [elements : Seq(Elements), queueSize : Int, nbDataPackets : Int] :
        CountersAgree(q) /\ OnlyHeadIsFragmented(q)}

-----------------------------------------------------------------------------
(***************************************************************************)
(* The sums                                                                *)
(***************************************************************************)

\* Something is left of every element.
LEMMA RemainingIs ==
    ASSUME NEW e \in Elements
    PROVE  Remaining(e) \in Nat /\ Remaining(e) > 0
  BY DEF Elements, Remaining

\* The function f holds the sums of what is left of the first elements.
Adds(f, es) ==
    /\ f \in [0..Len(es) -> Nat]
    /\ f[0] = 0
    /\ \A i \in 1..Len(es) : f[i] = f[i - 1] + Remaining(es[i])

\* The recursion behind Bytes.
LEMMA BytesRecursion ==
    ASSUME NEW es \in Seq(Elements)
    PROVE  \E f : Adds(f, es) /\ Bytes(es) = f[Len(es)]
<1> DEFINE Eq(g) == g = [i \in 0..Len(es) |->
                            IF i = 0 THEN 0 ELSE g[i - 1] + Remaining(es[i])]
           step == [i \in 1..Len(es) |-> [x \in Nat |-> x + Remaining(es[i])]]
<1>1. Len(es) \in Nat /\ \A i \in 1..Len(es) : Remaining(es[i]) \in Nat
  BY RemainingIs
<1>2. PICK f \in [0..Len(es) -> Nat] : Iterates(f, 0, step, Len(es))
  <2>1. step \in [1..Len(es) -> [Nat -> Nat]]
    BY <1>1
  <2> HIDE DEF step
  <2> QED
    BY <1>1, <2>1, Recursion
<1>3. Eq(f)
  <2>1. f = [i \in 0..Len(es) |-> f[i]]
    OBVIOUS
  <2>2. ASSUME NEW i \in 1..Len(es)
        PROVE  f[i] = f[i - 1] + Remaining(es[i])
    <3>1. f[i - 1] \in Nat
      BY <1>1
    <3>2. f[i] = step[i][f[i - 1]]
      BY <1>2 DEF Iterates
    <3> QED
      BY <3>1, <3>2
  <2>3. f[0] = 0
    BY <1>2 DEF Iterates
  <2>4. \A i \in 0..Len(es) : f[i] = IF i = 0 THEN 0 ELSE f[i - 1] + Remaining(es[i])
    BY <1>1, <2>2, <2>3
  <2> QED
    BY <2>1, <2>4
<1>4. PICK g : g = CHOOSE h : Eq(h)
  OBVIOUS
<1>5. Eq(g)
  <2> HIDE DEF Eq
  <2> QED
    BY <1>3, <1>4
<1>6. Bytes(es) = g[Len(es)]
  BY <1>4 DEF Bytes
<1>7. g[0] = 0 /\ \A i \in 1..Len(es) : g[i] = g[i - 1] + Remaining(es[i])
  BY <1>1, <1>5
<1>8. \A i \in 0..Len(es) : g[i] \in Nat
  <2>1. \A i \in 1..Len(es) : g[i - 1] \in Nat => g[i] \in Nat
    BY <1>1, <1>7
  <2>2. g[0] \in Nat
    BY <1>7
  <2> HIDE DEF Eq, step
  <2> QED
    BY <1>1, <2>1, <2>2, Along
<1>9. Adds(g, es)
  BY <1>5, <1>7, <1>8 DEF Adds
<1> QED
  BY <1>6, <1>9

\* Two lists of sums that differ by c at the start and take the same steps, the
\* second d places later, differ by c all the way.
LEMMA SameSteps ==
    ASSUME NEW es \in Seq(Elements), NEW fs \in Seq(Elements), NEW f, NEW g,
           Adds(f, es), Adds(g, fs), NEW d \in Nat, NEW c \in Nat,
           d + Len(es) <= Len(fs), g[d] = c,
           \A i \in 1..Len(es) : fs[d + i] = es[i]
    PROVE  g[d + Len(es)] = c + f[Len(es)]
<1> DEFINE P == {i \in Nat : i <= Len(es) => g[d + i] = c + f[i]}
<1>0. Len(es) \in Nat /\ Len(fs) \in Nat
  OBVIOUS
<1>1. 0 \in P
  BY DEF Adds
<1>2. ASSUME NEW i \in Nat, i \in P
      PROVE  i + 1 \in P
  <2> SUFFICES ASSUME i + 1 <= Len(es)
               PROVE  g[d + (i + 1)] = c + f[i + 1]
    OBVIOUS
  <2>1. i + 1 \in 1..Len(es) /\ d + (i + 1) \in 1..Len(fs) /\ i \in 0..Len(es)
    BY <1>0
  <2>2. f[i + 1] = f[(i + 1) - 1] + Remaining(es[i + 1])
    BY <2>1 DEF Adds
  <2>3. g[d + (i + 1)] = g[(d + (i + 1)) - 1] + Remaining(fs[d + (i + 1)])
    BY <2>1 DEF Adds
  <2>4. (i + 1) - 1 = i /\ (d + (i + 1)) - 1 = d + i
    OBVIOUS
  <2>5. g[d + i] = c + f[i]
    BY <1>2, <2>1
  <2>6. fs[d + (i + 1)] = es[i + 1] /\ es[i + 1] \in Elements
    BY <2>1
  <2>7. Remaining(es[i + 1]) \in Nat /\ f[i] \in Nat
    BY <2>1, <2>6, RemainingIs DEF Adds
  <2> QED
    BY <2>2, <2>3, <2>4, <2>5, <2>6, <2>7
<1> HIDE DEF P
<1>3. \A i \in Nat : i \in P
  BY <1>1, <1>2, Induction
<1> QED
  BY <1>0, <1>3 DEF P

\* What is left of the elements grows by what is left of the one that is appended.
LEMMA BytesAppend ==
    ASSUME NEW es \in Seq(Elements), NEW e \in Elements
    PROVE  /\ Bytes(es) \in Nat /\ Bytes(<<>>) = 0
           /\ Bytes(Append(es, e)) = Bytes(es) + Remaining(e)
<1>1. PICK f : Adds(f, es) /\ Bytes(es) = f[Len(es)]
  BY BytesRecursion
<1>2. PICK fs \in Seq(Elements) : fs = Append(es, e)
  <2>1. Append(es, e) \in Seq(Elements)
    OBVIOUS
  <2> QED
    BY <2>1
<1>3. PICK g : Adds(g, fs) /\ Bytes(fs) = g[Len(fs)]
  BY BytesRecursion
<1>4. /\ Len(es) \in Nat /\ Len(fs) = Len(es) + 1 /\ fs[Len(es) + 1] = e
      /\ \A i \in 1..Len(es) : fs[0 + i] = es[i]
  BY <1>2
<1>5. g[0] = 0 /\ g[Len(fs)] = g[Len(fs) - 1] + Remaining(fs[Len(fs)])
  BY <1>3, <1>4 DEF Adds
<1>6. 0 \in Nat /\ 0 + Len(es) <= Len(fs)
  BY <1>4
<1>7. g[0 + Len(es)] = 0 + f[Len(es)]
  BY <1>1, <1>3, <1>4, <1>5, <1>6, SameSteps
<1>8. f[Len(es)] \in Nat
  BY <1>1, <1>4 DEF Adds
<1>9. Bytes(<<>>) = 0
  <2>1. PICK z \in Seq(Elements) : z = <<>>
    <3>1. <<>> \in Seq(Elements)
      OBVIOUS
    <3> QED
      BY <3>1
  <2>2. PICK h : Adds(h, z) /\ Bytes(z) = h[Len(z)]
    BY BytesRecursion
  <2> QED
    BY <2>1, <2>2 DEF Adds
<1> QED
  BY <1>1, <1>2, <1>3, <1>4, <1>5, <1>7, <1>8, <1>9, RemainingIs

\* What is left of the elements is what is left of the first and of the others.
LEMMA BytesTail ==
    ASSUME NEW fs \in Seq(Elements), fs # <<>>
    PROVE  /\ Bytes(Tail(fs)) \in Nat
           /\ Bytes(fs) = Remaining(fs[1]) + Bytes(Tail(fs))
<1>1. PICK es \in Seq(Elements) : es = Tail(fs)
  <2>1. Tail(fs) \in Seq(Elements)
    OBVIOUS
  <2> QED
    BY <2>1
<1>2. PICK f : Adds(f, es) /\ Bytes(es) = f[Len(es)]
  BY BytesRecursion
<1>3. PICK g : Adds(g, fs) /\ Bytes(fs) = g[Len(fs)]
  BY BytesRecursion
<1>4. /\ Len(es) \in Nat /\ Len(fs) = 1 + Len(es) /\ fs[1] \in Elements
      /\ \A i \in 1..Len(es) : fs[1 + i] = es[i]
  BY <1>1
<1>5. g[1] = Remaining(fs[1]) /\ Remaining(fs[1]) \in Nat
  <2>1. g[1] = g[1 - 1] + Remaining(fs[1]) /\ g[0] = 0
    BY <1>3, <1>4 DEF Adds
  <2> QED
    BY <2>1, <1>4, RemainingIs
<1>6. PICK c \in Nat, d \in Nat : c = Remaining(fs[1]) /\ d = 1
  BY <1>5
<1>7. g[d + Len(es)] = c + f[Len(es)]
  <2>1. Adds(f, es) /\ Adds(g, fs)
    BY <1>2, <1>3
  <2>2. /\ d + Len(es) <= Len(fs) /\ g[d] = c
        /\ \A i \in 1..Len(es) : fs[d + i] = es[i]
    BY <1>4, <1>5, <1>6
  <2> QED
    BY <2>1, <2>2, SameSteps
<1>8. f[Len(es)] \in Nat
  BY <1>2, <1>4 DEF Adds
<1> QED
  BY <1>1, <1>2, <1>3, <1>4, <1>6, <1>7, <1>8

\* A change of the first element changes the sum as it changes the element.
LEMMA BytesHead ==
    ASSUME NEW fs \in Seq(Elements), fs # <<>>, NEW e \in Elements
    PROVE  /\ [fs EXCEPT ![1] = e] \in Seq(Elements)
           /\ Len([fs EXCEPT ![1] = e]) = Len(fs)
           /\ Bytes([fs EXCEPT ![1] = e]) = Bytes(fs) - Remaining(fs[1]) + Remaining(e)
<1>1. PICK n \in Nat : n = Len(fs) /\ n > 0
  OBVIOUS
<1>2. PICK gs \in Seq(Elements) : gs = [fs EXCEPT ![1] = e]
  <2>1. fs \in [1..n -> Elements]
    BY <1>1
  <2>2. [fs EXCEPT ![1] = e] \in [1..n -> Elements]
    BY <2>1
  <2>3. [fs EXCEPT ![1] = e] \in Seq(Elements)
    BY <2>2
  <2> QED
    BY <2>3
<1>3. gs # <<>> /\ gs[1] = e /\ Len(gs) = n /\ \A i \in 2..n : gs[i] = fs[i]
  BY <1>1, <1>2
<1>4. Tail(gs) = Tail(fs)
  BY <1>1, <1>3
<1>5. /\ Bytes(gs) = Remaining(gs[1]) + Bytes(Tail(gs))
      /\ Bytes(fs) = Remaining(fs[1]) + Bytes(Tail(fs))
      /\ Bytes(Tail(fs)) \in Nat
  BY <1>3, BytesTail
<1>6. Remaining(fs[1]) \in Nat /\ Remaining(e) \in Nat
  BY <1>1, RemainingIs
<1>7. Bytes(gs) = Bytes(fs) - Remaining(fs[1]) + Remaining(e)
  <2>1. Bytes(gs) = Remaining(e) + Bytes(Tail(fs))
    BY <1>3, <1>4, <1>5
  <2>2. PICK a \in Nat, b \in Nat, c \in Nat :
            a = Remaining(fs[1]) /\ b = Remaining(e) /\ c = Bytes(Tail(fs))
    BY <1>5, <1>6
  <2>3. Bytes(gs) = b + c /\ Bytes(fs) = a + c
    BY <1>5, <2>1, <2>2
  <2>4. b + c = (a + c) - a + b
    OBVIOUS
  <2> QED
    BY <2>2, <2>3, <2>4
<1> QED
  BY <1>1, <1>2, <1>3, <1>7

-----------------------------------------------------------------------------
(***************************************************************************)
(* The operations                                                          *)
(***************************************************************************)

\* The mark of an element says that it was sent in part, and only the head has it.
Marked(e, i) ==
    /\ e.fragmentation <=> e.offset > 0
    /\ e.fragmentation => i = 1 /\ e.number > 0

\* A record of the elements with counters that agree with them is a queue.
LEMMA QueueIs ==
    ASSUME NEW es \in Seq(Elements), NEW size, NEW n,
           size = Bytes(es), n = Len(es), \A i \in 1..Len(es) : Marked(es[i], i)
    PROVE  [elements |-> es, queueSize |-> size, nbDataPackets |-> n] \in Queues
<1>1. PICK q : q = [elements |-> es, queueSize |-> size, nbDataPackets |-> n]
  OBVIOUS
<1>2. PICK f : Adds(f, es) /\ Bytes(es) = f[Len(es)]
  BY BytesRecursion
<1>3. size \in Int /\ n \in Int
  BY <1>2 DEF Adds
<1>4. q \in [elements : Seq(Elements), queueSize : Int, nbDataPackets : Int]
  BY <1>1, <1>3
<1>5. CountersAgree(q)
  BY <1>1 DEF CountersAgree
<1>6. ASSUME NEW i \in 1..Len(es)
      PROVE  es[i].offset \in Nat /\ es[i].offset < es[i].size
  <2>1. es[i] \in Elements
    OBVIOUS
  <2> QED
    BY <2>1 DEF Elements
<1>7. OnlyHeadIsFragmented(q)
  <2> SUFFICES ASSUME NEW i \in 1..Len(es)
               PROVE  /\ 0 <= es[i].offset /\ es[i].offset < es[i].size
                      /\ Marked(es[i], i)
    BY <1>1 DEF OnlyHeadIsFragmented, Marked
  <2> QED
    BY <1>6
<1> QED
  BY <1>1, <1>4, <1>5, <1>7 DEF Queues

\* A queue is the record of its elements and of two counters that agree with them.
LEMMA QueueHas ==
    ASSUME NEW q \in Queues
    PROVE  /\ q.elements \in Seq(Elements)
           /\ q.nbDataPackets = Len(q.elements)
           /\ q.queueSize = Bytes(q.elements) /\ q.queueSize \in Nat
           /\ \A i \in 1..Len(q.elements) : Marked(q.elements[i], i)
           /\ q = [elements |-> q.elements, queueSize |-> q.queueSize,
                   nbDataPackets |-> q.nbDataPackets]
<1>1. /\ q \in [elements : Seq(Elements), queueSize : Int, nbDataPackets : Int]
      /\ CountersAgree(q) /\ OnlyHeadIsFragmented(q)
  BY DEF Queues
<1>2. PICK f : Adds(f, q.elements) /\ Bytes(q.elements) = f[Len(q.elements)]
  BY <1>1, BytesRecursion
<1>3. q.queueSize = Bytes(q.elements) /\ q.nbDataPackets = Len(q.elements)
  BY <1>1 DEF CountersAgree
<1>4. Len(q.elements) \in 0..Len(q.elements)
  BY <1>1
<1>5. q.queueSize \in Nat
  BY <1>2, <1>3, <1>4 DEF Adds
<1>6. \A i \in 1..Len(q.elements) : Marked(q.elements[i], i)
  BY <1>1 DEF OnlyHeadIsFragmented, Marked
<1> QED
  BY <1>1, <1>3, <1>5, <1>6

\* The queue of a new bearer is a queue.
LEMMA EmptyQueueIs == EmptyQueue \in Queues
<1>1. PICK es \in Seq(Elements) : es = <<>>
  <2>1. <<>> \in Seq(Elements)
    OBVIOUS
  <2> QED
    BY <2>1
<1>2. PICK f : Adds(f, es) /\ Bytes(es) = f[Len(es)]
  BY BytesRecursion
<1>3. Len(es) = 0 /\ Bytes(es) = 0 /\ \A i \in 1..Len(es) : Marked(es[i], i)
  BY <1>1, <1>2 DEF Adds
<1>4. [elements |-> es, queueSize |-> 0, nbDataPackets |-> 0] \in Queues
  BY <1>3, QueueIs
<1> QED
  BY <1>1, <1>4 DEF EmptyQueue

\* A packet joins the queue.
LEMMA EnqueueIs ==
    ASSUME NEW q \in Queues, NEW id \in Nat, NEW size \in Nat, size > 0
    PROVE  /\ Enqueue(q, Packet(id, size)) \in Queues
           /\ Enqueue(q, Packet(id, size)).elements = Append(q.elements, Packet(id, size))
<1>1. PICK p : p = Packet(id, size)
  OBVIOUS
<1>2. p \in Elements /\ \A i \in Nat : Marked(p, i)
  BY <1>1 DEF Packet, Elements, Marked
<1>3. PICK es \in Seq(Elements) : es = Append(q.elements, p)
  <2>1. Append(q.elements, p) \in Seq(Elements)
    BY <1>2, QueueHas
  <2> QED
    BY <2>1
<1>4. /\ q.elements \in Seq(Elements) /\ Len(es) = Len(q.elements) + 1
      /\ es[Len(q.elements) + 1] = p
      /\ \A i \in 1..Len(q.elements) : es[i] = q.elements[i]
  BY <1>2, <1>3, QueueHas
<1>5. Bytes(es) = q.queueSize + p.size
  <2>1. Bytes(es) = Bytes(q.elements) + Remaining(p)
    BY <1>2, <1>3, <1>4, BytesAppend
  <2>2. Remaining(p) = p.size
    BY <1>1 DEF Remaining, Packet
  <2> QED
    BY <2>1, <2>2, QueueHas
<1>6. ASSUME NEW i \in 1..Len(es)
      PROVE  Marked(es[i], i)
  <2>1. CASE i = Len(q.elements) + 1
    BY <1>2, <1>4, <2>1
  <2>2. CASE i # Len(q.elements) + 1
    <3>1. i \in 1..Len(q.elements)
      BY <1>4, <2>2
    <3> QED
      BY <1>4, <3>1, QueueHas
  <2> QED
    BY <2>1, <2>2
<1>7. PICK n : n = q.nbDataPackets + 1
  OBVIOUS
<1>8. PICK m : m = q.queueSize + p.size
  OBVIOUS
<1>9. n = Len(es) /\ m = Bytes(es)
  BY <1>4, <1>5, <1>7, <1>8, QueueHas
<1>10. [elements |-> es, queueSize |-> m, nbDataPackets |-> n] \in Queues
  BY <1>6, <1>9, QueueIs
<1> QED
  BY <1>1, <1>3, <1>7, <1>8, <1>10 DEF Enqueue

\* The first element leaves the queue.
LEMMA DropHeadIs ==
    ASSUME NEW q \in Queues, q.elements # <<>>
    PROVE  /\ DropHead(q) \in Queues
           /\ DropHead(q).elements = Tail(q.elements)
           /\ Len(DropHead(q).elements) = Len(q.elements) - 1
<1>1. PICK fs \in Seq(Elements) : fs = q.elements
  BY QueueHas
<1>2. PICK es \in Seq(Elements) : es = Tail(fs)
  <2>1. Tail(fs) \in Seq(Elements)
    BY <1>1
  <2> QED
    BY <2>1
<1>3. /\ fs # <<>> /\ Head(fs) = fs[1] /\ fs[1] \in Elements
      /\ Len(es) \in Nat /\ Len(fs) = Len(es) + 1
      /\ \A i \in 1..Len(es) : es[i] = fs[i + 1]
  BY <1>1, <1>2
<1>4. Bytes(es) = q.queueSize - Remaining(Head(fs))
  <2>1. Bytes(fs) = Remaining(fs[1]) + Bytes(es) /\ Bytes(es) \in Nat
    BY <1>2, <1>3, BytesTail
  <2>2. Bytes(fs) = q.queueSize /\ Remaining(fs[1]) \in Nat
    BY <1>1, <1>3, QueueHas, RemainingIs
  <2> QED
    BY <1>3, <2>1, <2>2
<1>5. ASSUME NEW i \in 1..Len(es)
      PROVE  Marked(es[i], i)
  <2>1. i + 1 \in 1..Len(fs) /\ i + 1 # 1 /\ es[i] = fs[i + 1]
    BY <1>3
  <2>2. Marked(fs[i + 1], i + 1)
    BY <1>1, <2>1, QueueHas
  <2> QED
    BY <2>1, <2>2 DEF Marked
<1>6. Len(es) = q.nbDataPackets - 1
  BY <1>1, <1>3, QueueHas
<1>7. PICK n, m : n = q.nbDataPackets - 1 /\ m = q.queueSize - Remaining(Head(fs))
  OBVIOUS
<1>8. [elements |-> es, queueSize |-> m, nbDataPackets |-> n] \in Queues
  BY <1>4, <1>5, <1>6, <1>7, QueueIs
<1> QED
  BY <1>1, <1>2, <1>3, <1>7, <1>8 DEF DropHead

\* The loop of CheckForDropPackets.
LEMMA CheckForDropPacketsIs ==
    ASSUME NEW q \in Queues, NEW n \in Nat, n <= Len(q.elements)
    PROVE  /\ CheckForDropPackets(q, n) \in Queues
           /\ Len(CheckForDropPackets(q, n).elements) = Len(q.elements) - n
           /\ \A j \in 1..(Len(q.elements) - n) :
                   CheckForDropPackets(q, n).elements[j] = q.elements[n + j]
<1> DEFINE L == Len(q.elements)
           Eq(g) == g = [i \in 0..n |-> IF i = 0 THEN q ELSE DropHead(g[i - 1])]
           T(c) == IF c.elements # <<>> THEN DropHead(c) ELSE c
           step == [i \in 1..n |-> [c \in Queues |-> T(c)]]
           Rest(c, i) == /\ Len(c.elements) = L - i
                         /\ \A j \in 1..(L - i) : c.elements[j] = q.elements[i + j]
<1>0. L \in Nat
  BY QueueHas
<1>1. \A c \in Queues : T(c) \in Queues
  BY DropHeadIs
<1>2. PICK f \in [0..n -> Queues] : Iterates(f, q, step, n)
  <2>1. step \in [1..n -> [Queues -> Queues]]
    BY <1>1
  <2> HIDE DEF step
  <2> QED
    BY <2>1, Recursion
<1>3. ASSUME NEW i \in 1..n
      PROVE  f[i] = T(f[i - 1])
  <2>1. f[i - 1] \in Queues
    OBVIOUS
  <2>2. f[i] = step[i][f[i - 1]]
    BY <1>2 DEF Iterates
  <2> QED
    BY <2>1, <2>2
<1>4. ASSUME NEW i \in 1..n, Rest(f[i - 1], i - 1)
      PROVE  f[i] = DropHead(f[i - 1]) /\ Rest(f[i], i)
  <2>1. f[i - 1] \in Queues /\ i \in Nat
    OBVIOUS
  <2>2. L - (i - 1) > 0 /\ (L - (i - 1)) - 1 = L - i
    BY <1>0
  <2>3. f[i - 1].elements # <<>>
    BY <1>4, <2>2
  <2>4. f[i] = DropHead(f[i - 1])
    BY <1>3, <2>3
  <2>5. PICK es \in Seq(Elements) : es = f[i - 1].elements /\ es # <<>>
    <3>1. f[i - 1].elements \in Seq(Elements)
      BY <2>1, QueueHas
    <3> QED
      BY <2>3, <3>1
  <2>6. f[i].elements = Tail(es) /\ Len(es) = L - (i - 1)
    BY <1>4, <2>1, <2>3, <2>4, <2>5, DropHeadIs
  <2>7. Len(Tail(es)) = L - i
    <3>1. Len(es) \in Nat /\ Len(Tail(es)) = Len(es) - 1
      BY <2>5
    <3> QED
      BY <1>0, <2>2, <2>6, <3>1
  <2>8. ASSUME NEW j \in 1..(L - i)
        PROVE  Tail(es)[j] = q.elements[i + j]
    <3>1. j + 1 \in 1..(L - (i - 1)) /\ (i - 1) + (j + 1) = i + j
      BY <1>0
    <3>2. Tail(es)[j] = es[j + 1]
      BY <1>0, <2>2, <2>5, <2>6, <3>1
    <3>3. es[j + 1] = q.elements[(i - 1) + (j + 1)]
      BY <1>4, <2>5, <3>1
    <3> QED
      BY <3>1, <3>2, <3>3
  <2> QED
    BY <2>4, <2>6, <2>7, <2>8
<1>5. \A i \in 0..n : Rest(f[i], i)
  <2> DEFINE S == {i \in 0..n : Rest(f[i], i)}
             k == [i \in 0..n |-> i]
  <2>1. k[0] \in S
    BY <1>0, <1>2 DEF Iterates
  <2>2. ASSUME NEW i \in 1..n, k[i - 1] \in S
        PROVE  k[i] \in S
    <3> HIDE DEF Rest
    <3>1. Rest(f[i - 1], i - 1)
      BY <2>2
    <3> QED
      BY <1>4, <3>1
  <2>3. \A i \in 0..n : k[i] \in S
    <3> HIDE DEF S, k
    <3> QED
      BY <2>1, <2>2, Along
  <2> QED
    BY <2>3
<1>6. Eq(f)
  <2>1. f = [i \in 0..n |-> f[i]]
    OBVIOUS
  <2>2. ASSUME NEW i \in 1..n
        PROVE  f[i] = DropHead(f[i - 1])
    <3>1. i - 1 \in 0..n
      OBVIOUS
    <3> QED
      BY <1>4, <1>5, <3>1
  <2>3. f[0] = q
    BY <1>2 DEF Iterates
  <2>4. \A i \in 0..n : f[i] = IF i = 0 THEN q ELSE DropHead(f[i - 1])
    BY <2>2, <2>3
  <2> QED
    BY <2>1, <2>4
<1>7. PICK g : g = CHOOSE h : Eq(h)
  OBVIOUS
<1>8. Eq(g)
  <2> HIDE DEF Eq
  <2> QED
    BY <1>6, <1>7
<1>9. CheckForDropPackets(q, n) = g[n]
  BY <1>7 DEF CheckForDropPackets
<1>10. \A i \in 0..n : g[i] = f[i]
  <2> DEFINE S == {i \in 0..n : g[i] = f[i]}
             k == [i \in 0..n |-> i]
  <2>1. k[0] \in S
    BY <1>6, <1>8
  <2>2. ASSUME NEW i \in 1..n, k[i - 1] \in S
        PROVE  k[i] \in S
    <3>1. g[i - 1] = f[i - 1]
      BY <2>2
    <3>2. g[i] = DropHead(g[i - 1])
      BY <1>8
    <3>3. f[i] = DropHead(f[i - 1])
      BY <1>6
    <3> QED
      BY <3>1, <3>2, <3>3
  <2>3. \A i \in 0..n : k[i] \in S
    <3> HIDE DEF S, k
    <3> QED
      BY <2>1, <2>2, Along
  <2> QED
    BY <2>3
<1>11. g[n] = f[n] /\ f[n] \in Queues /\ Rest(f[n], n)
  <2> HIDE DEF Rest
  <2> QED
    BY <1>5, <1>10
<1> QED
  BY <1>9, <1>11

\* The headers of what is sent.
Pdus ==
    [id : Nat, startByte : Nat, endByte : Nat, number : Nat,
     isFragment : BOOLEAN, latest : BOOLEAN]

\* The head is cut.
LEMMA FragmentIs ==
    ASSUME NEW q \in Queues, q.elements # <<>>, NEW availableBytes \in Nat,
           availableBytes > Overhead,
           Remaining(Head(q.elements)) + Overhead > availableBytes
    PROVE  /\ Fragment(q, availableBytes).queue \in Queues
           /\ Fragment(q, availableBytes).pdu \in Pdus
           /\ PduSize(Fragment(q, availableBytes).pdu) = availableBytes
<1>1. PICK fs \in Seq(Elements) : fs = q.elements
  BY QueueHas
<1>2. PICK e \in Elements : e = Head(fs)
  <2>1. Head(fs) \in Elements
    BY <1>1
  <2> QED
    BY <2>1
<1>3. fs # <<>> /\ fs[1] = e /\ Len(fs) \in Nat /\ Len(fs) > 0
  BY <1>1, <1>2
<1>4. PICK sent \in Nat : sent = availableBytes - Overhead /\ sent > 0
  BY DEF Overhead
<1>5. sent < Remaining(e)
  <2>1. Remaining(e) + Overhead > availableBytes /\ Remaining(e) \in Nat
    BY <1>1, <1>2, RemainingIs
  <2> QED
    BY <1>4, <2>1 DEF Overhead
<1>6. /\ e.id \in Nat /\ e.size \in Nat /\ e.offset \in Nat /\ e.number \in Nat
      /\ e = [id |-> e.id, size |-> e.size, offset |-> e.offset, number |-> e.number,
              fragmentation |-> e.fragmentation]
  BY DEF Elements
<1>7. PICK d : d = [e EXCEPT !.offset = @ + sent, !.number = @ + 1, !.fragmentation = TRUE]
  OBVIOUS
<1>8. d = [id |-> e.id, size |-> e.size, offset |-> e.offset + sent,
           number |-> e.number + 1, fragmentation |-> TRUE]
  BY <1>6, <1>7
<1>9. d \in Elements /\ Remaining(d) = Remaining(e) - sent
  <2>1. e.offset + sent < e.size
    BY <1>5, <1>6 DEF Remaining
  <2> QED
    BY <1>6, <1>8, <2>1 DEF Elements, Remaining
<1>10. Marked(d, 1)
  BY <1>4, <1>6, <1>8 DEF Marked
<1>11. PICK es \in Seq(Elements) :
          /\ es = [fs EXCEPT ![1] = d] /\ Len(es) = Len(fs)
          /\ Bytes(es) = Bytes(fs) - Remaining(fs[1]) + Remaining(d)
  BY <1>3, <1>9, BytesHead
<1>12. \A i \in 1..Len(es) : Marked(es[i], i)
  <2> SUFFICES ASSUME NEW i \in 1..Len(es)
               PROVE  Marked(es[i], i)
    OBVIOUS
  <2>1. CASE i = 1
    <3>1. es[1] = d
      BY <1>3, <1>11
    <3> QED
      BY <1>10, <2>1, <3>1
  <2>2. CASE i # 1
    <3>1. es[i] = fs[i]
      BY <1>3, <1>11, <2>2
    <3> QED
      BY <1>1, <1>11, <3>1, QueueHas
  <2> QED
    BY <2>1, <2>2
<1>13. q.queueSize - sent = Bytes(es)
  <2>1. q.queueSize = Bytes(fs) /\ q.queueSize \in Nat
    BY <1>1, QueueHas
  <2>2. Remaining(e) \in Nat
    BY RemainingIs
  <2> QED
    BY <1>3, <1>9, <1>11, <2>1, <2>2
<1>14. q.nbDataPackets = Len(es)
  BY <1>1, <1>11, QueueHas
<1>15. PICK m, n : m = q.queueSize - sent /\ n = q.nbDataPackets
  OBVIOUS
<1>16. [elements |-> es, queueSize |-> m, nbDataPackets |-> n] \in Queues
  BY <1>12, <1>13, <1>14, <1>15, QueueIs
<1>17. Fragment(q, availableBytes).queue
            = [elements |-> es, queueSize |-> m, nbDataPackets |-> n]
  BY <1>1, <1>2, <1>4, <1>7, <1>11, <1>15 DEF Fragment
<1>18. PICK p : p = Fragment(q, availableBytes).pdu
  OBVIOUS
<1>19. p = [id |-> e.id, startByte |-> e.offset, endByte |-> e.offset + sent - 1,
            number |-> e.number, isFragment |-> TRUE, latest |-> FALSE]
  BY <1>1, <1>2, <1>4, <1>18 DEF Fragment, Pdu
<1>20. p \in Pdus /\ PduSize(p) = sent + Overhead
  BY <1>4, <1>6, <1>19 DEF Pdus, PduSize, Overhead
<1> QED
  BY <1>4, <1>16, <1>17, <1>18, <1>20 DEF Overhead

\* The head is sent as a whole, or the last of it.
LEMMA WholeIs ==
    ASSUME NEW q \in Queues, q.elements # <<>>
    PROVE  /\ Whole(q).queue \in Queues
           /\ Whole(q).pdu \in Pdus
           /\ PduSize(Whole(q).pdu) = Remaining(Head(q.elements)) + Overhead
<1>1. Whole(q).queue = DropHead(q)
  BY DEF Whole, DropHead
<1>2. PICK e \in Elements : e = Head(q.elements)
  <2>1. Head(q.elements) \in Elements
    BY QueueHas
  <2> QED
    BY <2>1
<1>3. PICK p : p = Whole(q).pdu
  OBVIOUS
<1>4. p = [id |-> e.id, startByte |-> e.offset, endByte |-> e.size - 1,
           number |-> e.number, isFragment |-> e.fragmentation, latest |-> TRUE]
  BY <1>2, <1>3 DEF Whole, Pdu
<1>5. p \in Pdus /\ PduSize(p) = Remaining(e) + Overhead
  BY <1>4 DEF Elements, Pdus, PduSize, Remaining, Overhead
<1> QED
  BY <1>1, <1>2, <1>3, <1>5, DropHeadIs

\* What the loop of TransmissionProcedure works on.
Bursts == [queue : Queues, left : Nat, burst : Seq(Pdus)]

\* A turn of the loop that fills a burst leaves a queue, and takes what it sends off the
\* grant.
LEMMA TurnIs ==
    ASSUME NEW s \in Bursts
    PROVE  /\ Turn(s) \in Bursts
           /\ \/ Turn(s) = s
              \/ \E p \in Pdus : /\ Turn(s).burst = Append(s.burst, p)
                                  /\ Turn(s).left = s.left - PduSize(p)
<1>1. CASE ~ HasPacketFor(s.queue, s.left)
  BY <1>1 DEF Turn
<1>2. CASE HasPacketFor(s.queue, s.left)
  <2>1. PICK q \in Queues, left \in Nat : q = s.queue /\ left = s.left
    BY DEF Bursts
  <2>2. q.elements # <<>> /\ left > Overhead
    BY <1>2, <2>1 DEF HasPacketFor
  <2>3. PICK t : t = GetPacketToTramsit(q, left)
    OBVIOUS
  <2>4. t.queue \in Queues /\ t.pdu \in Pdus /\ left - PduSize(t.pdu) \in Nat
    <3>1. CASE Remaining(Head(q.elements)) + Overhead > left
      <4>1. t = Fragment(q, left)
        BY <2>3, <3>1 DEF GetPacketToTramsit
      <4>2. t.queue \in Queues /\ t.pdu \in Pdus /\ PduSize(t.pdu) = left
        BY <2>2, <3>1, <4>1, FragmentIs
      <4> QED
        BY <4>2
    <3>2. CASE ~ (Remaining(Head(q.elements)) + Overhead > left)
      <4>1. t = Whole(q)
        BY <2>3, <3>2 DEF GetPacketToTramsit
      <4>2. PICK size : size = Remaining(Head(q.elements)) + Overhead
        OBVIOUS
      <4>3. t.queue \in Queues /\ t.pdu \in Pdus /\ PduSize(t.pdu) = size
        BY <2>2, <4>1, <4>2, WholeIs
      <4>4. size \in Nat
        <5>1. Head(q.elements) \in Elements
          BY <2>2, QueueHas
        <5> QED
          BY <4>2, <5>1, RemainingIs DEF Overhead
      <4> QED
        BY <3>2, <4>2, <4>3, <4>4
    <3> QED
      BY <3>1, <3>2
  <2>5. Turn(s) = [queue |-> t.queue, left |-> left - PduSize(t.pdu),
                   burst |-> Append(s.burst, t.pdu)]
    BY <1>2, <2>1, <2>3 DEF Turn
  <2>6. Append(s.burst, t.pdu) \in Seq(Pdus)
    BY <2>4 DEF Bursts
  <2> QED
    BY <2>1, <2>4, <2>5, <2>6 DEF Bursts
<1> QED
  BY <1>1, <1>2

\* The turns of FillBurst.
LEMMA FillBurstRecursion ==
    ASSUME NEW q \in Queues, NEW grant \in Nat, NEW n \in Nat, n = grant \div Overhead
    PROVE  \E f \in [0..n -> Bursts] :
                /\ FillBurst(q, grant) = f[n]
                /\ f[0] = [queue |-> q, left |-> grant, burst |-> <<>>]
                /\ \A i \in 1..n : f[i] = Turn(f[i - 1])
<1> DEFINE start == [queue |-> q, left |-> grant, burst |-> <<>>]
           Eq(g) == g = [i \in 0..n |-> IF i = 0 THEN start ELSE Turn(g[i - 1])]
           step == [i \in 1..n |-> [s \in Bursts |-> Turn(s)]]
<1>1. start \in Bursts /\ \A s \in Bursts : Turn(s) \in Bursts
  <2>1. <<>> \in Seq(Pdus)
    OBVIOUS
  <2> QED
    BY <2>1, TurnIs DEF Bursts
<1>2. PICK f \in [0..n -> Bursts] : Iterates(f, start, step, n)
  <2>1. step \in [1..n -> [Bursts -> Bursts]]
    BY <1>1
  <2> HIDE DEF step, start
  <2> QED
    BY <1>1, <2>1, Recursion
<1>3. Eq(f)
  <2>1. f = [i \in 0..n |-> f[i]]
    OBVIOUS
  <2>2. ASSUME NEW i \in 1..n
        PROVE  f[i] = Turn(f[i - 1])
    <3>1. f[i - 1] \in Bursts
      OBVIOUS
    <3>2. f[i] = step[i][f[i - 1]]
      BY <1>2 DEF Iterates
    <3> QED
      BY <3>1, <3>2
  <2>3. f[0] = start
    BY <1>2 DEF Iterates
  <2>4. \A i \in 0..n : f[i] = IF i = 0 THEN start ELSE Turn(f[i - 1])
    <3> HIDE DEF start
    <3> QED
      BY <2>2, <2>3
  <2> HIDE DEF start
  <2> QED
    BY <2>1, <2>4
<1>4. PICK g : g = CHOOSE h : Eq(h)
  OBVIOUS
<1>5. Eq(g)
  <2> HIDE DEF Eq
  <2> QED
    BY <1>3, <1>4
<1>6. FillBurst(q, grant) = g[n]
  BY <1>4 DEF FillBurst
<1>7. g[0] = start /\ \A i \in 1..n : g[i] = Turn(g[i - 1])
  <2> HIDE DEF start
  <2>1. 0 \in 0..n /\ \A i \in 1..n : i \in 0..n /\ i # 0
    OBVIOUS
  <2>2. \A i \in 0..n : g[i] = IF i = 0 THEN start ELSE Turn(g[i - 1])
    BY <1>5
  <2> QED
    BY <2>1, <2>2
<1>8. \A i \in 0..n : g[i] \in Bursts
  <2>1. g[0] \in Bursts
    BY <1>1, <1>7
  <2>2. \A i \in 1..n : g[i - 1] \in Bursts => g[i] \in Bursts
    BY <1>1, <1>7
  <2> HIDE DEF Eq, step, start
  <2> QED
    BY <2>1, <2>2, Along
<1>9. g \in [0..n -> Bursts]
  <2> HIDE DEF start
  <2> QED
    BY <1>5, <1>8
<1> QED
  BY <1>6, <1>7, <1>9

\* What FillBurst leaves in the queue.
LEMMA FillBurstIs ==
    ASSUME NEW q \in Queues, NEW grant \in Nat
    PROVE  FillBurst(q, grant) \in Bursts
<1>1. PICK n \in Nat : n = grant \div Overhead
  <2>1. grant \div Overhead \in Nat
    BY DEF Overhead
  <2> QED
    BY <2>1
<1>2. PICK f \in [0..n -> Bursts] : FillBurst(q, grant) = f[n]
  <2>1. \E f \in [0..n -> Bursts] :
            /\ FillBurst(q, grant) = f[n]
            /\ f[0] = [queue |-> q, left |-> grant, burst |-> <<>>]
            /\ \A i \in 1..n : f[i] = Turn(f[i - 1])
    BY <1>1, FillBurstRecursion
  <2> QED
    BY <2>1, Zenon
<1>3. n \in 0..n
  OBVIOUS
<1> QED
  BY <1>2, <1>3

-----------------------------------------------------------------------------
(***************************************************************************)
(* What the schedulers ask for                                             *)
(***************************************************************************)

\* The queue size with the overhead is a natural number.
LEMMA QueueSizeIs ==
    ASSUME NEW q \in Queues
    PROVE  QueueSizeWithOverhead(q) \in Nat
<1>1. q.queueSize \in Nat /\ q.nbDataPackets \in Nat
  BY QueueHas
<1>2. PICK a \in Nat, b \in Nat : a = q.queueSize /\ b = q.nbDataPackets
  BY <1>1
<1>3. a + b * 8 \in Nat
  OBVIOUS
<1> QED
  BY <1>2, <1>3 DEF QueueSizeWithOverhead, Overhead

\* GetByte is a natural number.
LEMMA GetByteIs ==
    ASSUME NEW q \in Queues, NEW byte \in Nat
    PROVE  GetByte(q, byte) \in Nat
<1>1. PICK es \in Seq(Elements) : es = q.elements
  BY QueueHas
<1>2. PICK n \in Nat : n = Len(es)
  OBVIOUS
<1> DEFINE T(x, i) == IF x > 0 /\ x >= byte THEN x ELSE x + Remaining(es[i]) + Overhead
           Eq(g) == g = [i \in 0..n |-> IF i = 0 THEN 0 ELSE T(g[i - 1], i)]
           step == [i \in 1..n |-> [x \in Nat |-> T(x, i)]]
<1>3. \A i \in 1..n, x \in Nat : T(x, i) \in Nat
  <2>1. \A i \in 1..n : Remaining(es[i]) \in Nat
    BY <1>2, RemainingIs
  <2> QED
    BY <2>1 DEF Overhead
<1> HIDE DEF T
<1>4. PICK f \in [0..n -> Nat] : Iterates(f, 0, step, n)
  <2>1. step \in [1..n -> [Nat -> Nat]]
    BY <1>3
  <2> HIDE DEF step
  <2> QED
    BY <2>1, Recursion
<1>5. Eq(f)
  <2>1. f = [i \in 0..n |-> f[i]]
    OBVIOUS
  <2>2. ASSUME NEW i \in 1..n
        PROVE  f[i] = T(f[i - 1], i)
    <3>1. f[i - 1] \in Nat
      OBVIOUS
    <3>2. f[i] = step[i][f[i - 1]]
      BY <1>4 DEF Iterates
    <3> QED
      BY <3>1, <3>2
  <2>3. f[0] = 0
    BY <1>4 DEF Iterates
  <2>4. \A i \in 0..n : f[i] = IF i = 0 THEN 0 ELSE T(f[i - 1], i)
    BY <2>2, <2>3
  <2> QED
    BY <2>1, <2>4
<1>6. PICK g : g = CHOOSE h : Eq(h)
  OBVIOUS
<1>7. Eq(g)
  <2> HIDE DEF Eq
  <2> QED
    BY <1>5, <1>6
<1>8. GetByte(q, byte) = g[n]
  BY <1>1, <1>2, <1>6 DEF GetByte, T
<1>9. g[0] = 0 /\ \A i \in 1..n : g[i] = T(g[i - 1], i)
  <2>1. 0 \in 0..n /\ \A i \in 1..n : i \in 0..n /\ i # 0
    OBVIOUS
  <2>2. \A i \in 0..n : g[i] = IF i = 0 THEN 0 ELSE T(g[i - 1], i)
    BY <1>7
  <2> QED
    BY <2>1, <2>2
<1>10. \A i \in 0..n : g[i] \in Nat
  <2>1. g[0] \in Nat
    BY <1>9
  <2>2. \A i \in 1..n : g[i - 1] \in Nat => g[i] \in Nat
    BY <1>3, <1>9
  <2> HIDE DEF Eq, step
  <2> QED
    BY <2>1, <2>2, Along
<1> QED
  BY <1>8, <1>10
=============================================================================
