--------------------------- MODULE Simulator_proofs ---------------------------
(***************************************************************************)
(* Proofs about the event loop.                                            *)
(***************************************************************************)
EXTENDS Simulator, SequenceTheorems, TLAPS

-----------------------------------------------------------------------------
(***************************************************************************)
(* The calendar.                                                           *)
(***************************************************************************)

\* begin() of a non-empty map is its smallest key, and the only one.
LEMMA FirstKeyIsLeast ==
    ASSUME NEW cal, DOMAIN cal \subseteq Nat, WellOrdered(DOMAIN cal),
           DOMAIN cal # {}
    PROVE  /\ FirstKey(cal) \in DOMAIN cal
           /\ \A s \in DOMAIN cal : FirstKey(cal) <= s
<1>1. \E t \in DOMAIN cal : \A s \in DOMAIN cal : t <= s
  BY DEF WellOrdered
<1> QED
  BY <1>1 DEF FirstKey

\* There is only one smallest key.
LEMMA FirstKeyUnique ==
    ASSUME NEW cal, DOMAIN cal \subseteq Nat,
           NEW t \in DOMAIN cal, \A s \in DOMAIN cal : t <= s
    PROVE  FirstKey(cal) = t
<1>1. /\ FirstKey(cal) \in DOMAIN cal
      /\ \A s \in DOMAIN cal : FirstKey(cal) <= s
  BY DEF FirstKey
<1> QED
  BY <1>1

\* A new key keeps the keys well ordered.
LEMMA WellOrderedInsert ==
    ASSUME NEW D, D \subseteq Nat, WellOrdered(D), NEW x \in Nat
    PROVE  WellOrdered(D \cup {x})
<1> SUFFICES ASSUME NEW S, S \subseteq D \cup {x}, S # {}
             PROVE  \E t \in S : \A s \in S : t <= s
  BY DEF WellOrdered
<1>1. CASE S \ {x} = {}
  <2>1. S = {x}
    BY <1>1
  <2> QED
    BY <2>1
<1>2. CASE S \ {x} # {}
  <2>1. PICK t \in S \ {x} : \A s \in S \ {x} : t <= s
    BY <1>2 DEF WellOrdered
  <2>2. t \in Nat
    BY <2>1
  <2>3. CASE x \in S /\ x < t
    <3>1. \A s \in S : x <= s
      BY <2>1, <2>2, <2>3
    <3> QED BY <2>3, <3>1
  <2>4. CASE ~(x \in S /\ x < t)
    <3>1. \A s \in S : t <= s
      BY <2>1, <2>2, <2>4
    <3> QED BY <2>1, <3>1
  <2> QED
    BY <2>3, <2>4
<1> QED
  BY <1>1, <1>2

\* What InsertEvent does to the map: the event goes to the end of the queue
\* of its time stamp, the other queues stay.
LEMMA InsertEventProperties ==
    ASSUME NEW cal, NEW e \in EventType,
           \A t \in DOMAIN cal : cal[t] \in Seq(EventType) \ {<<>>}
    PROVE  /\ DOMAIN InsertEvent(cal, e) = DOMAIN cal \cup {e.ts}
           /\ \A t \in DOMAIN cal : t # e.ts => InsertEvent(cal, e)[t] = cal[t]
           /\ InsertEvent(cal, e)[e.ts] = Append(QueueAt(cal, e.ts), e)
           /\ QueueAt(cal, e.ts) \in Seq(EventType)
           /\ \A t \in DOMAIN InsertEvent(cal, e) :
                InsertEvent(cal, e)[t] \in Seq(EventType) \ {<<>>}
<1> DEFINE new == InsertEvent(cal, e)
<1>1. /\ DOMAIN new = DOMAIN cal \cup {e.ts}
      /\ \A t \in DOMAIN cal : t # e.ts => new[t] = cal[t]
      /\ new[e.ts] = Append(QueueAt(cal, e.ts), e)
  BY DEF InsertEvent
<1>2. QueueAt(cal, e.ts) \in Seq(EventType)
  BY DEF QueueAt
<1>3. Append(QueueAt(cal, e.ts), e) \in Seq(EventType) \ {<<>>}
  BY <1>2
<1> QED
  BY <1>1, <1>2, <1>3

\* What RemoveEvent does to the map: the queue of the first key loses its
\* head, the key goes when nothing is left, the other queues stay.
LEMMA RemoveEventProperties ==
    ASSUME NEW cal, DOMAIN cal \subseteq Nat, WellOrdered(DOMAIN cal),
           DOMAIN cal # {},
           \A t \in DOMAIN cal : cal[t] \in Seq(EventType) \ {<<>>}
    PROVE  LET k == FirstKey(cal) IN
           /\ DOMAIN RemoveEvent(cal) \in {DOMAIN cal, DOMAIN cal \ {k}}
           /\ \A t \in DOMAIN cal \ {k} : RemoveEvent(cal)[t] = cal[t]
           /\ k \in DOMAIN RemoveEvent(cal) =>
                /\ RemoveEvent(cal)[k] = Tail(cal[k])
                /\ Tail(cal[k]) # <<>>
           /\ \A t \in DOMAIN RemoveEvent(cal) :
                RemoveEvent(cal)[t] \in Seq(EventType) \ {<<>>}
<1> DEFINE k == FirstKey(cal)
           new == RemoveEvent(cal)
<1>1. k \in DOMAIN cal
  BY FirstKeyIsLeast
<1>2. Tail(cal[k]) \in Seq(EventType)
  BY <1>1
<1>3. CASE Tail(cal[k]) = <<>>
  <2>1. new = [t \in DOMAIN cal \ {k} |-> cal[t]]
    BY <1>3 DEF RemoveEvent
  <2> QED
    BY <2>1
<1>4. CASE Tail(cal[k]) # <<>>
  <2>1. new = [cal EXCEPT ![k] = Tail(@)]
    BY <1>4 DEF RemoveEvent
  <2>2. /\ DOMAIN new = DOMAIN cal
        /\ new[k] = Tail(cal[k])
        /\ \A t \in DOMAIN cal \ {k} : new[t] = cal[t]
    BY <1>1, <2>1
  <2> QED
    BY <1>2, <1>4, <2>2
<1> QED
  BY <1>3, <1>4

-----------------------------------------------------------------------------
(***************************************************************************)
(* The inductive invariant.                                                *)
(***************************************************************************)

\* While an event runs, the first key of the map is the current time.
LEMMA RunningKey ==
    ASSUME IInv, Running
    PROVE  /\ FirstKey(m_events) = m_currentTs
           /\ m_currentTs \in DOMAIN m_events
           /\ m_events[m_currentTs] \in Seq(EventType) \ {<<>>}
           /\ m_events[m_currentTs][1] = [ts |-> m_currentTs, uid |-> m_currentUid]
<1> DEFINE k == FirstKey(m_events)
<1>1. /\ k \in DOMAIN m_events
      /\ m_events[k] \in Seq(EventType) \ {<<>>}
  BY FirstKeyIsLeast DEF IInv, TypeOK, KeysWellOrdered, RunningEventIsFirst, IsEmpty
<1>2. m_events[k][1] = [ts |-> m_currentTs, uid |-> m_currentUid]
  BY <1>1 DEF IInv, RunningEventIsFirst, GetEvent
<1>3. m_events[k][1].ts = k
  BY <1>1 DEF IInv, Filed
<1> QED
  BY <1>1, <1>2, <1>3

\* The rounding of DoSchedule never moves an event into the past.
LEMMA TimeStampsNotInThePast ==
    ASSUME NEW now \in Nat, NEW d \in Nat, NEW ts \in TimeStamps(now, d)
    PROVE  ts \in Nat /\ now <= ts
BY DEF TimeStamps

\* A call of DoSchedule, at setup or by a handler, keeps the invariant.
LEMMA ScheduleKeepsIInv ==
    ASSUME IInv, NEW d \in Delays, DoSchedule(d),
           UNCHANGED <<deleted, m_currentTs, m_currentUid, m_stop, pc>>
    PROVE  IInv'
<1> USE DEF EventType
<1>0. /\ d \in Nat
      /\ m_currentTs \in Nat
      /\ m_lastAssignedUid \in Nat
      /\ DOMAIN m_events \subseteq Nat
      /\ \A t \in DOMAIN m_events : m_events[t] \in Seq(EventType) \ {<<>>}
  BY DelaysAssumption DEF IInv, TypeOK
<1>1. PICK ts \in TimeStamps(m_currentTs, d) :
        m_events' = InsertEvent(m_events, [ts |-> ts, uid |-> m_lastAssignedUid])
  BY DEF DoSchedule
<1>2. ts \in Nat /\ m_currentTs <= ts
  BY <1>0, <1>1, TimeStampsNotInThePast
<1> DEFINE e == [ts |-> ts, uid |-> m_lastAssignedUid]
<1>3. e \in EventType /\ e.ts = ts /\ e.uid = m_lastAssignedUid
  BY <1>0, <1>2
<1>4. /\ DOMAIN m_events' = DOMAIN m_events \cup {ts}
      /\ \A t \in DOMAIN m_events : t # ts => m_events'[t] = m_events[t]
      /\ m_events'[ts] = Append(QueueAt(m_events, ts), e)
      /\ QueueAt(m_events, ts) \in Seq(EventType)
      /\ \A t \in DOMAIN m_events' : m_events'[t] \in Seq(EventType) \ {<<>>}
  <2>1. m_events' = InsertEvent(m_events, e)
    BY <1>1
  <2> HIDE DEF e
  <2>2. PICK x \in EventType : x = e /\ x.ts = ts
    BY <1>3
  <2>3. /\ DOMAIN InsertEvent(m_events, x) = DOMAIN m_events \cup {x.ts}
        /\ \A t \in DOMAIN m_events : t # x.ts => InsertEvent(m_events, x)[t] = m_events[t]
        /\ InsertEvent(m_events, x)[x.ts] = Append(QueueAt(m_events, x.ts), x)
        /\ QueueAt(m_events, x.ts) \in Seq(EventType)
        /\ \A t \in DOMAIN InsertEvent(m_events, x) :
                InsertEvent(m_events, x)[t] \in Seq(EventType) \ {<<>>}
    BY <1>0, InsertEventProperties
  <2> QED
    BY <2>1, <2>2, <2>3
<1>5. /\ ts \in DOMAIN m_events => QueueAt(m_events, ts) = m_events[ts]
      /\ ts \notin DOMAIN m_events => QueueAt(m_events, ts) = <<>>
  BY DEF QueueAt
<1>6. /\ Running' = Running
      /\ Served' = Served
      /\ m_lastAssignedUid' = m_lastAssignedUid + 1
  BY <1>0 DEF Running, Served, DoSchedule, IInv, TypeOK
<1> HIDE DEF e
<1>7. TypeOK'
  BY <1>0, <1>2, <1>4 DEF IInv, TypeOK, DoSchedule
<1>8. KeysWellOrdered'
  BY <1>0, <1>2, <1>4, WellOrderedInsert DEF IInv, KeysWellOrdered
<1>9. Filed'
  <2> SUFFICES ASSUME NEW t \in DOMAIN m_events'
               PROVE  /\ \A i \in 1..Len(m_events'[t]) :
                           /\ m_events'[t][i].ts = t
                           /\ m_events'[t][i].uid < m_lastAssignedUid'
                      /\ \A i, j \in 1..Len(m_events'[t]) :
                           i < j => m_events'[t][i].uid < m_events'[t][j].uid
    BY DEF Filed
  <2>1. \A s \in DOMAIN m_events :
          /\ \A i \in 1..Len(m_events[s]) :
               /\ m_events[s][i].ts = s
               /\ m_events[s][i].uid < m_lastAssignedUid
               /\ m_events[s][i].uid < m_lastAssignedUid'
          /\ \A i, j \in 1..Len(m_events[s]) :
               i < j => m_events[s][i].uid < m_events[s][j].uid
    <3> SUFFICES ASSUME NEW s \in DOMAIN m_events, NEW i \in 1..Len(m_events[s])
                 PROVE  /\ m_events[s][i].ts = s
                        /\ m_events[s][i].uid < m_lastAssignedUid
                        /\ m_events[s][i].uid < m_lastAssignedUid'
      BY DEF IInv, Filed
    <3>1. /\ m_events[s][i].ts = s
          /\ m_events[s][i].uid < m_lastAssignedUid
      BY DEF IInv, Filed
    <3>2. m_events[s][i].uid \in Nat
      <4>1. m_events[s] \in Seq(EventType)
        BY <1>0
      <4>2. m_events[s][i] \in EventType
        BY <4>1, ElementOfSeq
      <4> QED
        BY <4>2
    <3> QED
      BY <1>0, <1>6, <3>1, <3>2
  <2>2. CASE t # ts
    BY <1>4, <2>1, <2>2
  <2>3. CASE t = ts
    <3> DEFINE q == QueueAt(m_events, ts)
    <3>1. /\ \A i \in 1..Len(q) :
               /\ q[i].ts = ts
               /\ q[i].uid < m_lastAssignedUid
               /\ q[i].uid < m_lastAssignedUid'
          /\ \A i, j \in 1..Len(q) : i < j => q[i].uid < q[j].uid
      BY <1>5, <2>1
    <3>2. /\ Len(m_events'[ts]) = Len(q) + 1
          /\ Len(q) \in Nat
          /\ \A i \in 1..Len(q) : m_events'[ts][i] = q[i]
          /\ m_events'[ts][Len(q) + 1] = e
      BY <1>4
    <3> HIDE DEF q
    <3>3. \A i \in 1..Len(m_events'[ts]) : i \in 1..Len(q) \/ i = Len(q) + 1
      BY <3>2
    <3>4. ASSUME NEW i \in 1..Len(m_events'[ts])
          PROVE  /\ m_events'[ts][i].ts = ts
                 /\ m_events'[ts][i].uid < m_lastAssignedUid'
      <4>1. CASE i \in 1..Len(q)
        BY <3>1, <3>2, <4>1
      <4>2. CASE i = Len(q) + 1
        BY <1>0, <1>3, <1>6, <3>2, <4>2
      <4> QED BY <3>3, <4>1, <4>2
    <3>5. ASSUME NEW i \in 1..Len(m_events'[ts]), NEW j \in 1..Len(m_events'[ts]), i < j
          PROVE  m_events'[ts][i].uid < m_events'[ts][j].uid
      <4>1. i \in 1..Len(q)
        BY <3>2, <3>5
      <4>2. CASE j \in 1..Len(q)
        BY <3>1, <3>2, <3>5, <4>1, <4>2
      <4>3. CASE j = Len(q) + 1
        BY <1>3, <3>1, <3>2, <4>1, <4>3
      <4> QED BY <3>3, <4>2, <4>3
    <3> QED
      BY <2>3, <3>4, <3>5
  <2> QED
    BY <2>2, <2>3
<1>10. NotInThePast'
  BY <1>2, <1>4 DEF IInv, NotInThePast
<1>11. Running =>
         /\ m_currentTs \in DOMAIN m_events
         /\ m_events'[m_currentTs][1] = m_events[m_currentTs][1]
         /\ m_events[m_currentTs][1] = [ts |-> m_currentTs, uid |-> m_currentUid]
  <2> SUFFICES ASSUME Running
               PROVE  m_events'[m_currentTs][1] = m_events[m_currentTs][1]
    BY RunningKey
  <2>1. /\ m_currentTs \in DOMAIN m_events
        /\ m_events[m_currentTs] \in Seq(EventType) \ {<<>>}
    BY RunningKey
  <2>2. CASE ts # m_currentTs
    BY <1>4, <2>1, <2>2
  <2>3. CASE ts = m_currentTs
    <3>1. m_events'[ts] = Append(m_events[ts], e)
      BY <1>4, <1>5, <2>1, <2>3
    <3> QED
      BY <1>3, <2>1, <2>3, <3>1
  <2> QED
    BY <2>2, <2>3
<1>12. RunningEventIsFirst'
  <2> SUFFICES ASSUME Running
               PROVE  /\ DOMAIN m_events' # {}
                      /\ GetEvent(m_events') = [ts |-> m_currentTs, uid |-> m_currentUid]
    BY <1>6 DEF RunningEventIsFirst, IsEmpty
  <2>1. FirstKey(m_events') = m_currentTs
    BY <1>0, <1>2, <1>4, <1>10, <1>11, FirstKeyUnique DEF NotInThePast
  <2> QED
    BY <1>4, <1>11, <2>1 DEF GetEvent
<1>13. NothingOvertakes'
  <2> SUFFICES ASSUME Served > 0, m_currentTs \in DOMAIN m_events',
                      NEW i \in 1..Len(m_events'[m_currentTs])
               PROVE  (i = 1 /\ Running) \/ m_currentUid < m_events'[m_currentTs][i].uid
    BY <1>6, <1>0 DEF IInv, TypeOK, NothingOvertakes
  <2>1. m_currentUid < m_lastAssignedUid
    BY DEF IInv, NothingOvertakes
  <2>2. CASE ts # m_currentTs
    BY <1>4, <2>2 DEF IInv, NothingOvertakes
  <2>3. CASE ts = m_currentTs
    <3> DEFINE q == QueueAt(m_events, ts)
    <3>1. /\ Len(m_events'[ts]) = Len(q) + 1
          /\ Len(q) \in Nat
          /\ \A j \in 1..Len(q) : m_events'[ts][j] = q[j]
          /\ m_events'[ts][Len(q) + 1] = e
      BY <1>4
    <3>2. \A j \in 1..Len(q) : (j = 1 /\ Running) \/ m_currentUid < q[j].uid
      BY <1>5, <2>3 DEF IInv, NothingOvertakes
    <3> HIDE DEF q
    <3> QED
      BY <1>3, <2>1, <2>3, <3>1, <3>2
  <2> QED
    BY <2>2, <2>3
<1> QED
  BY <1>7, <1>8, <1>9, <1>10, <1>12, <1>13 DEF IInv

\* The event ProcessOneEvent takes, when it takes one.
LEMMA FirstEvent ==
    ASSUME IInv, ~IsEmpty(m_events)
    PROVE  /\ FirstKey(m_events) \in DOMAIN m_events
           /\ \A t \in DOMAIN m_events : FirstKey(m_events) <= t
           /\ m_events[FirstKey(m_events)] \in Seq(EventType) \ {<<>>}
           /\ GetEvent(m_events) = m_events[FirstKey(m_events)][1]
           /\ GetEvent(m_events) \in EventType
           /\ GetEvent(m_events).ts = FirstKey(m_events)
           /\ GetEvent(m_events).uid < m_lastAssignedUid
<1> DEFINE k == FirstKey(m_events)
<1>1. /\ k \in DOMAIN m_events
      /\ \A t \in DOMAIN m_events : k <= t
      /\ m_events[k] \in Seq(EventType) \ {<<>>}
  BY FirstKeyIsLeast DEF IInv, TypeOK, KeysWellOrdered, IsEmpty
<1>2. GetEvent(m_events) = m_events[k][1]
  BY <1>1 DEF GetEvent
<1>3. 1 \in 1..Len(m_events[k])
  BY <1>1
<1>4. m_events[k][1] \in EventType
  BY <1>1, <1>3, ElementOfSeq
<1>5. m_events[k][1].ts = k /\ m_events[k][1].uid < m_lastAssignedUid
  BY <1>1, <1>3 DEF IInv, Filed
<1> QED
  BY <1>1, <1>2, <1>4, <1>5

LEMMA ProcessOneEventKeepsIInv ==
    ASSUME IInv, ProcessOneEvent
    PROVE  IInv'
<1> DEFINE k == FirstKey(m_events)
           next == GetEvent(m_events)
<1>1. /\ k \in DOMAIN m_events
      /\ \A t \in DOMAIN m_events : k <= t
      /\ m_events[k] \in Seq(EventType) \ {<<>>}
      /\ next = m_events[k][1]
      /\ next \in EventType
      /\ next.ts = k
      /\ next.uid < m_lastAssignedUid
  BY FirstEvent DEF ProcessOneEvent
<1> HIDE DEF next
<1>2. /\ m_currentTs' = k
      /\ m_currentUid' = next.uid
      /\ m_events' = m_events
      /\ m_lastAssignedUid' = m_lastAssignedUid
      /\ pc = "loop"
      /\ pc' \in {"handler", "skip"}
      /\ m_unscheduledEvents' = m_unscheduledEvents - 1
      /\ UNCHANGED <<deleted, m_stop>>
  BY <1>1 DEF ProcessOneEvent, next
<1>3. k \in Nat /\ next.uid \in Nat /\ next = [ts |-> k, uid |-> next.uid]
  BY <1>1 DEF IInv, TypeOK, EventType
<1>4. TypeOK'
  BY <1>2, <1>3 DEF IInv, TypeOK
<1>5. KeysWellOrdered' /\ Filed'
  BY <1>2 DEF IInv, KeysWellOrdered, Filed
<1>6. NotInThePast'
  BY <1>1, <1>2 DEF NotInThePast
<1>7. RunningEventIsFirst'
  <2>1. GetEvent(m_events') = [ts |-> m_currentTs', uid |-> m_currentUid']
    BY <1>2, <1>3 DEF next
  <2>2. DOMAIN m_events' # {}
    BY <1>1, <1>2
  <2> QED
    BY <2>1, <2>2 DEF RunningEventIsFirst, IsEmpty
<1>8. NothingOvertakes'
  <2>1. Served' = Served + 1 /\ Served \in Int /\ Served >= 0
    BY <1>2 DEF Served, IInv, TypeOK, NothingOvertakes
  <2>2. \A i \in 1..Len(m_events[k]) : i = 1 \/ next.uid < m_events[k][i].uid
    BY <1>1 DEF IInv, Filed
  <2> QED
    BY <1>1, <1>2, <1>3, <2>1, <2>2 DEF NothingOvertakes, Running
<1> QED
  BY <1>4, <1>5, <1>6, <1>7, <1>8 DEF IInv

LEMMA FinishEventKeepsIInv ==
    ASSUME IInv, FinishEvent
    PROVE  IInv'
<1> DEFINE k == m_currentTs
           q == m_events[k]
<1>0. Running
  BY DEF FinishEvent, Running
<1>1. /\ FirstKey(m_events) = k
      /\ k \in DOMAIN m_events
      /\ q \in Seq(EventType) \ {<<>>}
      /\ q[1].uid = m_currentUid
  BY <1>0, RunningKey
<1>2. /\ DOMAIN m_events' \in {DOMAIN m_events, DOMAIN m_events \ {k}}
      /\ \A t \in DOMAIN m_events \ {k} : m_events'[t] = m_events[t]
      /\ k \in DOMAIN m_events' => /\ m_events'[k] = Tail(q)
                                  /\ Tail(q) # <<>>
      /\ \A t \in DOMAIN m_events' : m_events'[t] \in Seq(EventType) \ {<<>>}
  <2>1. DOMAIN m_events # {}
    BY <1>1
  <2> QED
    BY <1>1, <2>1, RemoveEventProperties
    DEF FinishEvent, IInv, TypeOK, KeysWellOrdered
<1>3. DOMAIN m_events' \subseteq DOMAIN m_events
  BY <1>2
<1>4. /\ Len(Tail(q)) = Len(q) - 1
      /\ Len(q) \in Nat
      /\ \A i \in 1..Len(Tail(q)) : i + 1 \in 1..Len(q) /\ Tail(q)[i] = q[i + 1]
  BY <1>1
<1>5. /\ pc' = "loop"
      /\ ~Running'
      /\ UNCHANGED <<deleted, m_currentTs, m_currentUid, m_lastAssignedUid,
                     m_unscheduledEvents, m_stop>>
      /\ Served' = Served
  BY DEF FinishEvent, Running, Served
<1> HIDE DEF q
<1>6. TypeOK'
  BY <1>2, <1>3, <1>5 DEF IInv, TypeOK
<1>7. KeysWellOrdered'
  BY <1>3 DEF IInv, KeysWellOrdered, WellOrdered
<1>8. Filed'
  <2> SUFFICES ASSUME NEW t \in DOMAIN m_events'
               PROVE  /\ \A i \in 1..Len(m_events'[t]) :
                           /\ m_events'[t][i].ts = t
                           /\ m_events'[t][i].uid < m_lastAssignedUid
                      /\ \A i, j \in 1..Len(m_events'[t]) :
                           i < j => m_events'[t][i].uid < m_events'[t][j].uid
    BY <1>5 DEF Filed
  <2>1. t \in DOMAIN m_events
    BY <1>3
  <2>2. CASE t # k
    BY <1>2, <2>1, <2>2 DEF IInv, Filed
  <2>3. CASE t = k
    <3>1. m_events'[k] = Tail(q)
      BY <1>2, <2>3
    <3>2. /\ \A i \in 1..Len(q) :
               /\ q[i].ts = k
               /\ q[i].uid < m_lastAssignedUid
          /\ \A i, j \in 1..Len(q) : i < j => q[i].uid < q[j].uid
      BY <1>1 DEF IInv, Filed, q
    <3>3. \A i, j \in 1..Len(Tail(q)) : i < j => i + 1 < j + 1
      BY <1>4
    <3> QED
      BY <1>4, <2>3, <3>1, <3>2, <3>3
  <2> QED
    BY <2>2, <2>3
<1>9. NotInThePast'
  BY <1>3, <1>5 DEF IInv, NotInThePast
<1>10. RunningEventIsFirst'
  BY <1>5 DEF RunningEventIsFirst
<1>11. NothingOvertakes'
  <2>1. Served \in Int /\ Served > 0 /\ m_currentUid < m_lastAssignedUid
    BY <1>0 DEF IInv, TypeOK, Served, NothingOvertakes
  <2> SUFFICES ASSUME k \in DOMAIN m_events', NEW i \in 1..Len(m_events'[k])
               PROVE  m_currentUid < m_events'[k][i].uid
    BY <1>5, <2>1 DEF NothingOvertakes
  <2>2. m_events'[k][i] = q[i + 1] /\ i + 1 \in 1..Len(q) /\ i + 1 > 1
    BY <1>2, <1>4
  <2>3. 1 \in 1..Len(q)
    BY <2>2
  <2>4. q[1].uid < q[i + 1].uid
    BY <1>1, <2>2, <2>3 DEF IInv, Filed, q
  <2> QED
    BY <1>1, <2>2, <2>4
<1> QED
  BY <1>6, <1>7, <1>8, <1>9, <1>10, <1>11 DEF IInv

LEMMA InitIInv == Init => IInv
<1> SUFFICES ASSUME Init
             PROVE  IInv
  OBVIOUS
<1>1. DOMAIN m_events = {}
  BY DEF Init, EmptyCalendar
<1>2. ~Running /\ Served = 0
  BY DEF Init, Running, Served
<1>3. TypeOK
  <2>1. m_stop \in BOOLEAN
    BY DEF Init
  <2>2. deleted \subseteq Nat /\ pc = "setup"
    BY DEF Init
  <2>3. /\ DOMAIN m_events \subseteq Nat
        /\ \A t \in DOMAIN m_events : m_events[t] \in Seq(EventType) \ {<<>>}
    BY <1>1
  <2>4. /\ m_currentTs \in Nat /\ m_currentUid \in Nat
        /\ m_lastAssignedUid \in Nat /\ m_unscheduledEvents \in Int
    BY DEF Init
  <2> QED
    BY <2>1, <2>2, <2>3, <2>4 DEF TypeOK
<1>4. KeysWellOrdered
  BY <1>1 DEF KeysWellOrdered, WellOrdered
<1>5. Filed /\ NotInThePast
  BY <1>1 DEF Filed, NotInThePast
<1>6. RunningEventIsFirst /\ NothingOvertakes
  BY <1>2 DEF RunningEventIsFirst, NothingOvertakes
<1> QED
  BY <1>3, <1>4, <1>5, <1>6 DEF IInv

LEMMA NextKeepsIInv == IInv /\ [Next]_vars => IInv'
<1> SUFFICES ASSUME IInv, [Next]_vars
             PROVE  IInv'
  OBVIOUS
<1>1. ASSUME NEW d \in Delays, SetupSchedule(d)
      PROVE  IInv'
  BY <1>1, ScheduleKeepsIInv DEF SetupSchedule
<1>2. ASSUME NEW d \in Delays, HandlerSchedules(d)
      PROVE  IInv'
  BY <1>2, ScheduleKeepsIInv DEF HandlerSchedules
<1>3. ASSUME NEW u \in 0..(m_lastAssignedUid - 1), MarkDeleted(u)
      PROVE  IInv'
  <2>1. TypeOK'
    BY <1>3 DEF IInv, TypeOK, MarkDeleted
  <2> QED
    BY <1>3, <2>1 DEF IInv, MarkDeleted, KeysWellOrdered, Filed, NotInThePast,
                      RunningEventIsFirst, NothingOvertakes, Running, Served
<1>4. CASE Run
  BY <1>4 DEF IInv, Run, TypeOK, KeysWellOrdered, Filed, NotInThePast,
              RunningEventIsFirst, NothingOvertakes, Running, Served
<1>5. CASE ProcessOneEvent
  BY <1>5, ProcessOneEventKeepsIInv
<1>6. CASE Stop
  BY <1>6 DEF IInv, Stop, TypeOK, KeysWellOrdered, Filed, NotInThePast,
              RunningEventIsFirst, NothingOvertakes, Running, Served
<1>7. CASE FinishEvent
  BY <1>7, FinishEventKeepsIInv
<1>8. CASE Return
  BY <1>8 DEF IInv, Return, TypeOK, KeysWellOrdered, Filed, NotInThePast,
              RunningEventIsFirst, NothingOvertakes, Running, Served
<1>9. CASE UNCHANGED vars
  BY <1>9 DEF IInv, vars, TypeOK, KeysWellOrdered, Filed, NotInThePast,
              RunningEventIsFirst, NothingOvertakes, Running, Served
<1> QED
  BY <1>1, <1>2, <1>3, <1>4, <1>5, <1>6, <1>7, <1>8, <1>9 DEF Next

\* The inductive invariant holds in every reachable state, for every set of
\* delays and any number of events.
THEOREM InductiveInvariant == Spec => []IInv
<1> QED
  BY InitIInv, NextKeepsIInv, PTL DEF Spec

\* The state keeps its type; in particular the map never holds an empty queue
\* that GetEvent would call front() on.
THEOREM TypeCorrect == Spec => []TypeOK
<1>1. IInv => TypeOK
  BY DEF IInv
<1> QED
  BY <1>1, InductiveInvariant, PTL

\* RemoveEvent always removes the event that ran: it is still first when its
\* handler returns, whatever the handler scheduled.
THEOREM RunningEventStaysFirst == Spec => []RunningEventIsFirst
<1>1. IInv => RunningEventIsFirst
  BY DEF IInv
<1> QED
  BY <1>1, InductiveInvariant, PTL

\* Handlers run in the order of event_compare, so time never goes back, the
\* events of one millisecond run in the order they were scheduled, and none
\* runs twice.
THEOREM EventsRunInOrder == Spec => DispatchOrder
<1> DEFINE InOrder == ProcessOneEvent =>
        \/ m_currentTs < m_currentTs'
        \/ m_currentTs = m_currentTs' /\ m_currentUid < m_currentUid'
        \/ Served = 0
<1>1. ASSUME IInv, ProcessOneEvent, Served # 0
      PROVE  \/ m_currentTs < m_currentTs'
             \/ m_currentTs = m_currentTs' /\ m_currentUid < m_currentUid'
  <2> DEFINE k == FirstKey(m_events)
  <2>1. /\ k \in DOMAIN m_events
        /\ m_events[k] \in Seq(EventType) \ {<<>>}
        /\ m_currentTs' = k
        /\ m_currentUid' = m_events[k][1].uid
        /\ ~Running
    BY <1>1, FirstEvent DEF ProcessOneEvent, Running
  <2>2. m_currentTs \in Nat /\ k \in Nat /\ m_currentTs <= k
    BY <1>1, <2>1 DEF IInv, TypeOK, NotInThePast
  <2>3. CASE m_currentTs = k
    <3>1. Served > 0
      BY <1>1 DEF IInv, TypeOK, NothingOvertakes, Served
    <3>2. 1 \in 1..Len(m_events[k])
      BY <2>1
    <3>3. m_currentUid < m_events[k][1].uid
      BY <1>1, <2>1, <2>3, <3>1, <3>2 DEF IInv, NothingOvertakes
    <3> QED
      BY <2>1, <2>3, <3>3
  <2> QED
    BY <2>1, <2>2, <2>3
<1>2. IInv /\ [Next]_vars => [InOrder]_vars
  BY <1>1
<1> QED
  BY <1>2, InductiveInvariant, PTL DEF Spec, DispatchOrder

-----------------------------------------------------------------------------
(***************************************************************************)
(* The event loop implements EventOrder.                                   *)
(***************************************************************************)

\* The value EventOrder's pending has in a state of the loop.
Pending == {e \in EventsOf(m_events) : ~(Running /\ e = GetEvent(m_events))}

-----------------------------------------------------------------------------
(***************************************************************************)
(* The events of a calendar.                                               *)
(***************************************************************************)

\* An event is in the calendar if it is somewhere in the queue of its key.
LEMMA InEventsOf ==
    ASSUME NEW cal, NEW e
    PROVE  e \in EventsOf(cal)
              <=> \E t \in DOMAIN cal : \E i \in 1..Len(cal[t]) : e = cal[t][i]
BY DEF EventsOf

\* InsertEvent adds one event.
LEMMA InsertedEvents ==
    ASSUME NEW cal, NEW e \in EventType,
           \A t \in DOMAIN cal : cal[t] \in Seq(EventType) \ {<<>>}
    PROVE  EventsOf(InsertEvent(cal, e)) = EventsOf(cal) \cup {e}
<1> DEFINE new == InsertEvent(cal, e)
           q == QueueAt(cal, e.ts)
<1>1. /\ DOMAIN new = DOMAIN cal \cup {e.ts}
      /\ \A t \in DOMAIN cal : t # e.ts => new[t] = cal[t]
      /\ new[e.ts] = Append(q, e)
      /\ q \in Seq(EventType)
  BY InsertEventProperties
<1>2. /\ Len(q) \in Nat
      /\ Len(new[e.ts]) = Len(q) + 1
      /\ \A i \in 1..Len(q) : new[e.ts][i] = q[i]
      /\ new[e.ts][Len(q) + 1] = e
  BY <1>1
<1>3. /\ e.ts \in DOMAIN cal => q = cal[e.ts]
      /\ e.ts \notin DOMAIN cal => q = <<>>
  BY DEF QueueAt
<1> HIDE DEF new, q
<1>4. ASSUME NEW f \in EventsOf(new)
      PROVE  f \in EventsOf(cal) \cup {e}
  <2>1. PICK t \in DOMAIN new : \E i \in 1..Len(new[t]) : f = new[t][i]
    BY <1>4, InEventsOf
  <2>2. CASE t # e.ts
    <3>1. t \in DOMAIN cal /\ new[t] = cal[t]
      BY <1>1, <2>1, <2>2
    <3> QED
      BY <2>1, <3>1, InEventsOf
  <2>3. CASE t = e.ts
    <3>1. PICK i \in 1..Len(new[e.ts]) : f = new[e.ts][i]
      BY <2>1, <2>3
    <3>2. i \in 1..Len(q) \/ i = Len(q) + 1
      BY <1>2, <3>1
    <3>3. CASE i \in 1..Len(q)
      <4>1. f = q[i] /\ Len(q) # 0
        BY <1>2, <3>1, <3>3
      <4>2. e.ts \in DOMAIN cal /\ q = cal[e.ts]
        BY <1>3, <4>1
      <4> QED
        BY <3>3, <4>1, <4>2, InEventsOf
    <3> QED
      BY <1>2, <3>1, <3>2, <3>3
  <2> QED
    BY <2>2, <2>3
<1>5. ASSUME NEW f \in EventsOf(cal)
      PROVE  f \in EventsOf(new)
  <2>1. PICK t \in DOMAIN cal : \E i \in 1..Len(cal[t]) : f = cal[t][i]
    BY <1>5, InEventsOf
  <2>2. PICK i \in 1..Len(cal[t]) : f = cal[t][i]
    BY <2>1
  <2>3. CASE t # e.ts
    <3>1. t \in DOMAIN new /\ new[t] = cal[t]
      BY <1>1, <2>3
    <3> QED
      BY <2>2, <3>1, InEventsOf
  <2>4. CASE t = e.ts
    <3>1. t \in DOMAIN new /\ i \in 1..Len(new[t]) /\ new[t][i] = f
      BY <1>1, <1>2, <1>3, <2>2, <2>4
    <3> QED
      BY <3>1, InEventsOf
  <2> QED
    BY <2>3, <2>4
<1>6. e \in EventsOf(new)
  <2>1. Len(q) + 1 \in 1..Len(new[e.ts]) /\ e.ts \in DOMAIN new
    BY <1>1, <1>2
  <2> QED
    BY <1>2, <2>1, InEventsOf
<1> QED
  BY <1>4, <1>5, <1>6 DEF new

\* RemoveEvent takes the first event out, of which there is no second.
LEMMA RemovedEvents ==
    ASSUME IInv, ~IsEmpty(m_events)
    PROVE  EventsOf(RemoveEvent(m_events)) = EventsOf(m_events) \ {GetEvent(m_events)}
<1> DEFINE k == FirstKey(m_events)
           q == m_events[k]
           new == RemoveEvent(m_events)
<1>1. /\ k \in DOMAIN m_events
      /\ q \in Seq(EventType) \ {<<>>}
      /\ GetEvent(m_events) = q[1]
      /\ q[1].ts = k
  BY FirstEvent
<1>2. /\ DOMAIN new \in {DOMAIN m_events, DOMAIN m_events \ {k}}
      /\ \A t \in DOMAIN m_events \ {k} : new[t] = m_events[t]
      /\ k \in DOMAIN new => new[k] = Tail(q)
  BY RemoveEventProperties DEF IInv, TypeOK, KeysWellOrdered, IsEmpty
<1>3. k \notin DOMAIN new => Tail(q) = <<>>
  BY <1>1 DEF RemoveEvent
<1>4. /\ Len(q) \in Nat \ {0}
      /\ Len(Tail(q)) = Len(q) - 1
      /\ \A i \in 1..Len(Tail(q)) : Tail(q)[i] = q[i + 1]
  BY <1>1
<1>5. /\ \A i \in 2..Len(q) : q[i] # q[1]
      /\ \A t \in DOMAIN m_events \ {k} : \A i \in 1..Len(m_events[t]) : m_events[t][i] # q[1]
  <2>1. \A i \in 2..Len(q) : q[1].uid < q[i].uid
    BY <1>1, <1>4 DEF IInv, Filed
  <2>2. q[1].uid \in Nat
    <3>1. q[1] \in EventType
      BY <1>1, <1>4, ElementOfSeq
    <3> QED
      BY <3>1 DEF EventType
  <2>3. \A t \in DOMAIN m_events : \A i \in 1..Len(m_events[t]) : m_events[t][i].ts = t
    BY DEF IInv, Filed
  <2> QED
    BY <1>1, <2>1, <2>2, <2>3
<1> HIDE DEF q, new
<1>6. ASSUME NEW f \in EventsOf(new)
      PROVE  f \in EventsOf(m_events) \ {q[1]}
  <2>1. PICK t \in DOMAIN new : \E i \in 1..Len(new[t]) : f = new[t][i]
    BY <1>6, InEventsOf
  <2>2. PICK i \in 1..Len(new[t]) : f = new[t][i]
    BY <2>1
  <2>3. t \in DOMAIN m_events
    BY <1>2, <2>1
  <2>4. CASE t # k
    <3>1. new[t] = m_events[t]
      BY <1>2, <2>3, <2>4
    <3>2. f \in EventsOf(m_events)
      BY <2>2, <2>3, <3>1, InEventsOf
    <3> QED
      BY <1>5, <2>2, <2>3, <2>4, <3>1, <3>2
  <2>5. CASE t = k
    <3>1. i + 1 \in 2..Len(q) /\ i + 1 \in 1..Len(q) /\ f = q[i + 1]
      BY <1>2, <1>4, <2>2, <2>5
    <3>2. f \in EventsOf(m_events)
      BY <1>1, <3>1, InEventsOf DEF q
    <3> QED
      BY <1>5, <3>1, <3>2
  <2> QED
    BY <2>4, <2>5
<1>7. ASSUME NEW f \in EventsOf(m_events), f # q[1]
      PROVE  f \in EventsOf(new)
  <2>1. PICK t \in DOMAIN m_events : \E i \in 1..Len(m_events[t]) : f = m_events[t][i]
    BY <1>7, InEventsOf
  <2>2. PICK i \in 1..Len(m_events[t]) : f = m_events[t][i]
    BY <2>1
  <2>3. CASE t # k
    <3>1. t \in DOMAIN new /\ new[t] = m_events[t]
      BY <1>2, <2>3
    <3> QED
      BY <2>2, <3>1, InEventsOf
  <2>4. CASE t = k
    <3>1. i \in 1..Len(q) /\ f = q[i] /\ i # 1
      BY <1>7, <2>2, <2>4 DEF q
    <3>2. i - 1 \in 1..Len(Tail(q)) /\ Tail(q)[i - 1] = f
      BY <1>4, <3>1
    <3>3. k \in DOMAIN new
      <4>1. Len(Tail(q)) # 0
        BY <1>4, <3>2
      <4>2. Tail(q) # <<>>
        BY <4>1
      <4> QED
        BY <1>3, <4>2 DEF q, new
    <3>4. new[k] = Tail(q)
      BY <1>2, <3>3
    <3> QED
      BY <3>2, <3>3, <3>4, InEventsOf
  <2> QED
    BY <2>3, <2>4
<1> QED
  BY <1>1, <1>6, <1>7 DEF q, new

-----------------------------------------------------------------------------
(***************************************************************************)
(* Each step of the loop is a step of EventOrder.                          *)
(***************************************************************************)

LEMMA InitImplements == Init => Order!Init
<1> SUFFICES ASSUME Init
             PROVE  Order!Init
  OBVIOUS
<1>1. EventsOf(m_events) = {}
  BY DEF Init, EmptyCalendar, EventsOf
<1>2. Served = 0
  BY DEF Init, Served
<1> QED
  BY <1>1, <1>2 DEF Init, Order!Init

LEMMA ScheduleImplements ==
    ASSUME IInv, IInv', NEW d \in Delays, DoSchedule(d), pc \in {"setup", "handler"},
           UNCHANGED <<deleted, m_currentTs, m_currentUid, m_stop, pc>>
    PROVE  Order!Submit
<1>1. PICK ts \in TimeStamps(m_currentTs, d) :
        m_events' = InsertEvent(m_events, [ts |-> ts, uid |-> m_lastAssignedUid])
  BY DEF DoSchedule
<1>2. /\ d \in Nat /\ m_currentTs \in Nat /\ m_lastAssignedUid \in Nat
      /\ \A t \in DOMAIN m_events : m_events[t] \in Seq(EventType) \ {<<>>}
  BY DelaysAssumption DEF IInv, TypeOK
<1>3. ts \in Nat /\ m_currentTs <= ts
  BY <1>1, <1>2, TimeStampsNotInThePast
<1> DEFINE e == [ts |-> ts, uid |-> m_lastAssignedUid]
<1>4. /\ e \in EventType /\ e \in [ts : Nat, uid : Int]
      /\ e.ts = ts /\ e.uid = m_lastAssignedUid
  BY <1>2, <1>3 DEF EventType
<1>5. EventsOf(m_events') = EventsOf(m_events) \cup {e}
  <2> HIDE DEF e
  <2> QED BY <1>1, <1>2, <1>4, InsertedEvents DEF e
<1>6. Running' = Running /\ Served' = Served
  BY <1>2 DEF Running, Served, DoSchedule, IInv, TypeOK
<1>7. Running => /\ GetEvent(m_events') = GetEvent(m_events)
                 /\ GetEvent(m_events).uid = m_currentUid
                 /\ m_currentUid < m_lastAssignedUid
  <2> SUFFICES ASSUME Running
               PROVE  /\ GetEvent(m_events') = GetEvent(m_events)
                      /\ GetEvent(m_events).uid = m_currentUid
                      /\ m_currentUid < m_lastAssignedUid
    OBVIOUS
  <2>1. GetEvent(m_events) = [ts |-> m_currentTs, uid |-> m_currentUid]
    BY DEF IInv, RunningEventIsFirst
  <2>2. GetEvent(m_events') = [ts |-> m_currentTs, uid |-> m_currentUid]
    BY <1>6 DEF IInv, RunningEventIsFirst
  <2> QED
    BY <2>1, <2>2 DEF IInv, NothingOvertakes
<1> HIDE DEF e
<1>8. Running => e # GetEvent(m_events)
  BY <1>2, <1>4, <1>7 DEF IInv, TypeOK
<1>9. Pending' = Pending \cup {e}
  BY <1>5, <1>6, <1>7, <1>8 DEF Pending
<1>10. /\ m_lastAssignedUid' = m_lastAssignedUid + 1
       /\ UNCHANGED <<deleted, m_currentTs, m_currentUid, m_stop, pc>>
  BY DEF DoSchedule
<1> QED
  BY <1>3, <1>4, <1>6, <1>9, <1>10 DEF Order!Submit, Order!Event, Pending

LEMMA ProcessOneEventImplements ==
    ASSUME IInv, IInv', ProcessOneEvent
    PROVE  Order!Serve
<1> DEFINE k == FirstKey(m_events)
           next == GetEvent(m_events)
<1>1. /\ k \in DOMAIN m_events
      /\ \A t \in DOMAIN m_events : k <= t
      /\ m_events[k] \in Seq(EventType) \ {<<>>}
      /\ next = m_events[k][1]
      /\ next \in EventType
      /\ next.ts = k
  BY FirstEvent DEF ProcessOneEvent
<1>2. ~Running /\ Running' /\ m_events' = m_events
  BY DEF ProcessOneEvent, Running
<1>3. Pending = EventsOf(m_events) /\ Pending' = Pending \ {next}
  BY <1>2 DEF Pending
<1>4. next \in Pending
  <2>1. 1 \in 1..Len(m_events[k])
    BY <1>1
  <2> QED
    BY <1>1, <1>3, <2>1, InEventsOf
<1>5. \A f \in Pending \ {next} : Order!Before(next, f)
  <2> SUFFICES ASSUME NEW f \in Pending, f # next
               PROVE  next.ts < f.ts \/ (next.ts = f.ts /\ next.uid < f.uid)
    BY DEF Order!Before
  <2>1. PICK t \in DOMAIN m_events : \E i \in 1..Len(m_events[t]) : f = m_events[t][i]
    BY <1>3, InEventsOf
  <2>2. PICK i \in 1..Len(m_events[t]) : f = m_events[t][i]
    BY <2>1
  <2>3. f.ts = t /\ t \in Nat /\ k \in Nat
    BY <1>1, <2>2 DEF IInv, Filed, TypeOK
  <2>4. CASE t = k
    <3>1. i # 1 /\ 1 \in 1..Len(m_events[k]) /\ 1 < i
      BY <1>1, <2>2, <2>4
    <3>2. next.uid < f.uid
      BY <1>1, <2>2, <2>4, <3>1 DEF IInv, Filed
    <3> QED
      BY <1>1, <2>3, <2>4, <3>2
  <2> QED
    BY <1>1, <2>3, <2>4
<1>6. Served' # 0 /\ next = [ts |-> next.ts, uid |-> next.uid]
  BY <1>1, <1>2 DEF IInv, NothingOvertakes, EventType
<1>7. /\ pc = "loop" /\ ~m_stop
      /\ m_currentTs' = next.ts /\ m_currentUid' = next.uid
      /\ pc' = IF next.uid \in deleted THEN "skip" ELSE "handler"
      /\ UNCHANGED <<deleted, m_lastAssignedUid, m_stop>>
  BY DEF ProcessOneEvent
<1> HIDE DEF next
<1> QED
  BY <1>3, <1>4, <1>5, <1>6, <1>7 DEF Order!Serve, Pending

LEMMA FinishEventImplements ==
    ASSUME IInv, FinishEvent
    PROVE  Order!Finish
<1>1. Running /\ ~Running' /\ Served' = Served
  BY DEF FinishEvent, Running, Served
<1>2. ~IsEmpty(m_events)
  BY <1>1 DEF IInv, RunningEventIsFirst
<1>3. EventsOf(m_events') = EventsOf(m_events) \ {GetEvent(m_events)}
  BY <1>2, RemovedEvents DEF FinishEvent
<1>4. Pending' = Pending
  BY <1>1, <1>3 DEF Pending
<1> QED
  BY <1>1, <1>4 DEF FinishEvent, Order!Finish, Pending

LEMMA NextImplements == IInv /\ IInv' /\ [Next]_vars => [Order!Next]_Order!vars
<1> SUFFICES ASSUME IInv, IInv', [Next]_vars
             PROVE  [Order!Next]_Order!vars
  OBVIOUS
<1>1. ASSUME NEW d \in Delays, SetupSchedule(d)
      PROVE  Order!Submit
  BY <1>1, ScheduleImplements DEF SetupSchedule
<1>2. ASSUME NEW d \in Delays, HandlerSchedules(d)
      PROVE  Order!Submit
  BY <1>2, ScheduleImplements DEF HandlerSchedules
<1>3. ASSUME NEW u \in 0..(m_lastAssignedUid - 1), MarkDeleted(u)
      PROVE  Order!Withdraw
  <2>1. Pending' = Pending /\ Served' = Served
    BY <1>3 DEF MarkDeleted, Pending, Running, Served
  <2> QED
    BY <1>3, <2>1 DEF MarkDeleted, Order!Withdraw, Pending
<1>4. CASE Stop
  <2>1. Pending' = Pending /\ Served' = Served
    BY <1>4 DEF Stop, Pending, Running, Served
  <2> QED
    BY <1>4, <2>1 DEF Stop, Order!Halt, Order!Next, Pending
<1>5. CASE Run
  <2>1. Pending' = Pending /\ Served' = Served
    BY <1>5 DEF Run, Pending, Running, Served
  <2> QED
    BY <1>5, <2>1 DEF Run, Order!Open, Order!Next, Pending
<1>6. CASE ProcessOneEvent
  BY <1>6, ProcessOneEventImplements DEF Order!Next
<1>7. CASE FinishEvent
  BY <1>7, FinishEventImplements DEF Order!Next
<1>8. CASE Return
  <2>1. Pending' = Pending /\ Served' = Served
    BY <1>8 DEF Return, Pending, Running, Served
  <2>2. IsEmpty(m_events) => Pending = {}
    BY DEF IsEmpty, EventsOf, Pending
  <2> QED
    BY <1>8, <2>1, <2>2 DEF Return, Order!Close, Order!Next, Pending
<1>9. CASE UNCHANGED vars
  <2>1. Pending' = Pending /\ Served' = Served
    BY <1>9 DEF vars, Pending, Running, Served
  <2> QED
    BY <1>9, <2>1 DEF vars, Order!vars, Pending
<1> QED
  BY <1>1, <1>2, <1>3, <1>4, <1>5, <1>6, <1>7, <1>8, <1>9 DEF Next, Order!Next

\* The loop with its map of queues implements EventOrder: events are served
\* one at a time, each at most once, always the least pending one in the order
\* of event_compare, for any delays and any number of events.
THEOREM LoopImplementsOrder == Spec => ImplementsOrder
<1> QED
  BY InitImplements, NextImplements, InductiveInvariant, PTL
  DEF Spec, ImplementsOrder, Order!Spec

-----------------------------------------------------------------------------
(***************************************************************************)
(* No event is pushed back.                                                *)
(***************************************************************************)

\* Where the events of the calendar are: in the queue of their time stamp.
LEMMA PlaceOfEvent ==
    ASSUME IInv, NEW e \in EventsOf(m_events)
    PROVE  /\ e.ts \in DOMAIN m_events
           /\ e.ts \in Nat
           /\ e.uid < m_lastAssignedUid
           /\ e \in EventType
           /\ \E j \in 1..Len(m_events[e.ts]) : m_events[e.ts][j] = e
<1>1. PICK t \in DOMAIN m_events : \E i \in 1..Len(m_events[t]) : e = m_events[t][i]
  BY InEventsOf
<1>2. PICK i \in 1..Len(m_events[t]) : e = m_events[t][i]
  BY <1>1
<1>3. e.ts = t /\ e.uid < m_lastAssignedUid
  BY <1>2 DEF IInv, Filed
<1>4. m_events[t] \in Seq(EventType) /\ t \in Nat
  BY DEF IInv, TypeOK
<1>5. e \in EventType
  BY <1>2, <1>4, ElementOfSeq
<1> QED
  BY <1>2, <1>3, <1>4, <1>5

\* A new event goes behind all that wait in its millisecond.
LEMMA ScheduleNotPushedBack ==
    ASSUME IInv, NEW d \in Delays, DoSchedule(d), ~FinishEvent
    PROVE  NeverPushedBack
<1>1. PICK ts \in TimeStamps(m_currentTs, d) :
        m_events' = InsertEvent(m_events, [ts |-> ts, uid |-> m_lastAssignedUid])
  BY DEF DoSchedule
<1>2. /\ d \in Nat /\ m_currentTs \in Nat /\ m_lastAssignedUid \in Nat
      /\ \A t \in DOMAIN m_events : m_events[t] \in Seq(EventType) \ {<<>>}
  BY DelaysAssumption DEF IInv, TypeOK
<1>3. ts \in Nat
  BY <1>1, <1>2, TimeStampsNotInThePast
<1>4. PICK x \in EventType : x = [ts |-> ts, uid |-> m_lastAssignedUid]
  BY <1>2, <1>3 DEF EventType
<1>5. m_events' = InsertEvent(m_events, x) /\ x.ts = ts /\ x.uid = m_lastAssignedUid
  BY <1>1, <1>4
<1>6. EventsOf(m_events') = EventsOf(m_events) \cup {x}
  BY <1>2, <1>5, InsertedEvents
<1>7. /\ \A t \in DOMAIN m_events : t # ts => m_events'[t] = m_events[t]
      /\ m_events'[ts] = Append(QueueAt(m_events, ts), x)
      /\ QueueAt(m_events, ts) \in Seq(EventType)
  BY <1>2, <1>5, InsertEventProperties
<1>8. SUFFICES ASSUME NEW e \in EventsOf(m_events),
                      NEW f \in AheadOf(m_events', e) \ AheadOf(m_events, e)
               PROVE  f.ts < e.ts
  BY <1>6 DEF NeverPushedBack
<1>9. /\ e.ts \in DOMAIN m_events
      /\ e.uid < m_lastAssignedUid
      /\ e # x
  BY <1>2, <1>5, PlaceOfEvent DEF EventType
<1>10. CASE \E i, j \in 1..Len(m_events'[e.ts]) :
                i < j /\ m_events'[e.ts][i] = f /\ m_events'[e.ts][j] = e
  <2> DEFINE q == m_events[e.ts]
  <2>1. PICK i, j \in 1..Len(m_events'[e.ts]) :
            i < j /\ m_events'[e.ts][i] = f /\ m_events'[e.ts][j] = e
    BY <1>10
  <2>2. i \in 1..Len(q) /\ j \in 1..Len(q) /\ q[i] = f /\ q[j] = e
    <3>1. CASE e.ts # ts
      BY <1>7, <1>9, <2>1, <3>1
    <3>2. CASE e.ts = ts
      <4>1. QueueAt(m_events, ts) = q /\ q \in Seq(EventType)
        BY <1>2, <1>9, <3>2 DEF QueueAt
      <4>2. /\ Len(m_events'[ts]) = Len(q) + 1
            /\ Len(q) \in Nat
            /\ \A k \in 1..Len(q) : m_events'[ts][k] = q[k]
            /\ m_events'[ts][Len(q) + 1] = x
        BY <1>7, <4>1
      <4> HIDE DEF q
      <4>3. j # Len(q) + 1
        BY <1>9, <2>1, <3>2, <4>2
      <4>4. i \in 1..Len(q) /\ j \in 1..Len(q)
        BY <2>1, <3>2, <4>2, <4>3
      <4> QED
        BY <2>1, <3>2, <4>2, <4>4
    <3> QED
      BY <3>1, <3>2
  <2>3. f \in EventsOf(m_events)
    BY <1>9, <2>2, InEventsOf
  <2>4. f \in AheadOf(m_events, e)
    BY <2>1, <2>2, <2>3 DEF AheadOf
  <2> QED
    BY <2>4
<1> QED
  BY <1>10 DEF AheadOf

\* RemoveEvent takes the running event out and changes no order.
LEMMA FinishNotPushedBack ==
    ASSUME IInv, FinishEvent
    PROVE  NeverPushedBack
<1> DEFINE k == FirstKey(m_events)
<1>1. ~IsEmpty(m_events) /\ GetEvent(m_events) = RunningEvent
  BY DEF FinishEvent, IInv, RunningEventIsFirst, Running, RunningEvent
<1>2. EventsOf(m_events') = EventsOf(m_events) \ {RunningEvent}
  BY <1>1, RemovedEvents DEF FinishEvent
<1>3. /\ \A t \in DOMAIN m_events \ {k} : m_events'[t] = m_events[t]
      /\ k \in DOMAIN m_events' => m_events'[k] = Tail(m_events[k])
      /\ DOMAIN m_events' \in {DOMAIN m_events, DOMAIN m_events \ {k}}
  BY <1>1, RemoveEventProperties DEF FinishEvent, IInv, TypeOK, KeysWellOrdered, IsEmpty
<1>4. m_events[k] \in Seq(EventType) \ {<<>>}
  BY <1>1, FirstEvent
<1>5. SUFFICES ASSUME NEW e \in EventsOf(m_events), e \in EventsOf(m_events'),
                      NEW f \in AheadOf(m_events', e) \ AheadOf(m_events, e)
               PROVE  f.ts < e.ts
  BY <1>2 DEF NeverPushedBack
<1>6. e.ts \in DOMAIN m_events
  BY PlaceOfEvent
<1>7. e.ts \in DOMAIN m_events'
  <2>1. PICK t \in DOMAIN m_events' : \E i \in 1..Len(m_events'[t]) : e = m_events'[t][i]
    BY <1>5, InEventsOf
  <2>2. PICK i \in 1..Len(m_events'[t]) : e = m_events'[t][i]
    BY <2>1
  <2>3. t \in DOMAIN m_events
    BY <1>3
  <2>4. CASE t # k
    <3>1. m_events'[t] = m_events[t]
      BY <1>3, <2>3, <2>4
    <3>2. e.ts = t
      BY <2>2, <2>3, <3>1 DEF IInv, Filed
    <3> QED
      BY <3>2
  <2>5. CASE t = k
    <3>1. m_events'[t] = Tail(m_events[t])
      BY <1>3, <2>5
    <3>2. i + 1 \in 1..Len(m_events[t]) /\ e = m_events[t][i + 1]
      BY <1>4, <2>2, <2>5, <3>1
    <3>3. e.ts = t
      BY <2>3, <3>2 DEF IInv, Filed
    <3> QED
      BY <3>3
  <2> QED
    BY <2>4, <2>5
<1>8. CASE \E i, j \in 1..Len(m_events'[e.ts]) :
                i < j /\ m_events'[e.ts][i] = f /\ m_events'[e.ts][j] = e
  <2> DEFINE q == m_events[e.ts]
  <2>1. PICK i, j \in 1..Len(m_events'[e.ts]) :
            i < j /\ m_events'[e.ts][i] = f /\ m_events'[e.ts][j] = e
    BY <1>8
  <2>2. \E m, n \in 1..Len(q) : m < n /\ q[m] = f /\ q[n] = e
    <3>1. CASE e.ts # k
      <4>1. m_events'[e.ts] = q
        BY <1>3, <1>6, <3>1
      <4> QED
        BY <2>1, <4>1
    <3>2. CASE e.ts = k
      <4>1. m_events'[k] = Tail(q) /\ q \in Seq(EventType) \ {<<>>}
        BY <1>3, <1>4, <1>7, <3>2
      <4>2. /\ Len(q) \in Nat
            /\ Len(Tail(q)) = Len(q) - 1
            /\ \A n \in 1..Len(Tail(q)) : Tail(q)[n] = q[n + 1]
        BY <4>1
      <4> HIDE DEF q
      <4>3. i \in 1..Len(Tail(q)) /\ j \in 1..Len(Tail(q))
        BY <2>1, <3>2, <4>1
      <4>4. i + 1 \in 1..Len(q) /\ j + 1 \in 1..Len(q) /\ i + 1 < j + 1
        BY <2>1, <4>2, <4>3
      <4>5. q[i + 1] = f /\ q[j + 1] = e
        BY <2>1, <3>2, <4>1, <4>2, <4>3
      <4> QED
        BY <4>4, <4>5
    <3> QED
      BY <3>1, <3>2
  <2>3. f \in EventsOf(m_events)
    BY <1>6, <2>2, InEventsOf
  <2>4. f \in AheadOf(m_events, e)
    BY <2>2, <2>3 DEF AheadOf
  <2> QED
    BY <2>4
<1> QED
  BY <1>8 DEF AheadOf

\* An event that waits is never lost, and only an event of an earlier
\* millisecond gets in front of it: however many events the handlers of a
\* millisecond go on to schedule, those that wait in it keep their place.
THEOREM EventsKeepTheirPlace == Spec => [][NeverPushedBack]_vars
<1>1. ASSUME IInv, [Next]_vars
      PROVE  [NeverPushedBack]_vars
  <2>1. CASE FinishEvent
    BY <1>1, <2>1, FinishNotPushedBack
  <2>2. CASE ~FinishEvent /\ m_events' = m_events
    BY <2>2 DEF NeverPushedBack
  <2>3. ASSUME NEW d \in Delays, DoSchedule(d), ~FinishEvent
        PROVE  NeverPushedBack
    BY <1>1, <2>3, ScheduleNotPushedBack
  <2> QED
    BY <1>1, <2>1, <2>2, <2>3
    DEF Next, vars, SetupSchedule, HandlerSchedules, Run, ProcessOneEvent, MarkDeleted, Stop, Return
<1> QED
  BY <1>1, InductiveInvariant, PTL DEF Spec
=============================================================================
