------------------------- MODULE FrameManager_proofs -------------------------
(***************************************************************************)
(* The frame clock keeps receptions, counters and time in step, and calls  *)
(* every gNB exactly once for every opportunity, for any number of gNBs    *)
(* and of TTIs, whatever the schedulers send.                              *)
(*                                                                         *)
(* The calendar never holds more than two queues, those of this            *)
(* millisecond and of the next.  The invariant says which three shapes     *)
(* they can have: the clock is about to move, behind the bursts of the     *)
(* last TTI; a subframe is about to end; or some gNBs are still to be      *)
(* called.                                                                 *)
(***************************************************************************)
EXTENDS FrameManager, FiniteSetTheorems, SequenceTheorems, TLAPS

T == m_TTICounter

\* The calendar that holds the queues cur and nxt for the milliseconds t and t + 1,
\* and no key for one that is empty.
Keys(t, cur, nxt) == {x \in {t, t + 1} : IF x = t THEN cur # <<>> ELSE nxt # <<>>}

TwoQueues(t, cur, nxt) == [s \in Keys(t, cur, nxt) |-> IF s = t THEN cur ELSE nxt]

\* What is in the air when n is the TTI.
Bursts(n) ==
    [ts : {n}, kind : {"StartRx"}, gnb : Cells, dir : {DL, UL}, tti : {n} \cap (1..MaxTTI)]

\* The calls of the subframe n not yet made when k of them were.
Calls(k, ts, n) ==
    [i \in 1..(Len(GNBs) - k) |-> AllocationAt(ts, AllocationCall(n), GNBs[k + i])]

\* Frames and subframes number the TTI.
InSubframe == /\ m_nbSubframes \in 1..10
              /\ T \in 1..MaxTTI
              /\ m_nbFrames \in Nat
              /\ T = 10 * (m_nbFrames - 1) + m_nbSubframes

\* Between two frames, of which the last had ten subframes.
BetweenFrames(nbFrames) == /\ T = 10 * nbFrames
                           /\ nbFrames \in Nat
                           /\ m_nbSubframes = IF T = 0 THEN 0 ELSE 10

\* The first k gNBs were called for all opportunities of T TTIs, the others for
\* those before T.
CalledFor(k) ==
    \A i \in 1..Len(GNBs), d \in {DL, UL} :
        allocations[GNBs[i]][d] =
            IF i <= k THEN Cardinality(Opportunities(d, T))
                      ELSE Cardinality(Opportunities(d, T - 1))

\* The counters when an event of this kind ends the queue, behind the bursts b.
ClockPhase(kind, b) ==
    \/ kind = "Start" /\ b = <<>> /\ T = 0 /\ m_nbFrames = 0 /\ m_nbSubframes = 0
    \/ kind = "StartFrame" /\ b = <<>> /\ BetweenFrames(m_nbFrames)
    \/ kind = "StartSubframe" /\ b = <<>> /\ BetweenFrames(m_nbFrames - 1)
    \/ kind = "StartSubframe" /\ InSubframe /\ m_nbSubframes # 10
    \/ kind = "StopFrame" /\ InSubframe /\ m_nbSubframes = 10

\* The first shape: bursts, and behind them the event that moves the clock.
Clock(b, kind) ==
    /\ m_events = TwoQueues(T, Append(b, At(T, kind)), <<>>)
    /\ ClockPhase(kind, b)
    /\ CalledFor(Len(GNBs))

\* The second: StopSubframe, and behind it the bursts that end with the subframe.
Stopping(b) ==
    /\ m_events = TwoQueues(T, <<At(T, "StopSubframe")>> \o b, <<>>)
    /\ InSubframe
    /\ CalledFor(Len(GNBs))

\* The third: k gNBs were called, the others will be in this millisecond.
Allocating(k, b) ==
    /\ m_events = TwoQueues(T - 1, Calls(k, T - 1, m_nbSubframes),
                            <<At(T, "StopSubframe")>> \o b)
    /\ AllocationCall(m_nbSubframes) # None
    /\ InSubframe
    /\ CalledFor(k)

Shape ==
    \/ \E b \in Seq(Bursts(T)), kind \in ClockCalls : Clock(b, kind)
    \/ \E b \in Seq(Bursts(T)) : Stopping(b)
    \/ \E k \in 0..(Len(GNBs) - 1), b \in Seq(Bursts(T)) : Allocating(k, b)

\* The types of all but the calendar, whose shape is its type.
Typed ==
    /\ m_currentTs \in Nat
    /\ m_frameStructure \in Structures
    /\ m_TDDFrameConfiguration \in Configs
    /\ m_nbFrames \in Nat
    /\ m_nbSubframes \in 0..10
    /\ m_TTICounter \in 0..MaxTTI
    /\ allocations \in [Cells -> [{DL, UL} -> 0..MaxTTI]]

\* The inductive invariant.
IInv == Typed /\ Shape

-----------------------------------------------------------------------------
(***************************************************************************)
(* The calendar of two queues                                              *)
(***************************************************************************)

\* A queue is not shortened by what is put behind it.
LEMMA ConcatEmpty ==
    ASSUME NEW q \in Seq(Events), NEW r \in Seq(Events)
    PROVE  /\ q \o r \in Seq(Events)
           /\ q # <<>> => /\ q \o r # <<>>
                          /\ Head(q \o r) = Head(q)
                          /\ Tail(q \o r) = Tail(q) \o r
                          /\ Tail(q) \in Seq(Events)
           /\ r # <<>> => q \o r # <<>>
           /\ q \o <<>> = q
           /\ <<>> \o r = r
OBVIOUS

\* A key is there when its queue is not empty.
LEMMA KeysChange ==
    ASSUME NEW t \in Int, NEW cur, NEW nxt, NEW q, q # <<>>
    PROVE  /\ Keys(t, cur, nxt) \cup {t} = Keys(t, q, nxt)
           /\ Keys(t, cur, nxt) \cup {t + 1} = Keys(t, cur, q)
           /\ cur # <<>> => Keys(t, cur, nxt) = Keys(t, q, nxt)
           /\ cur # <<>> => Keys(t, cur, nxt) \ {t} = Keys(t, <<>>, nxt)
BY DEF Keys

\* The queues of the two milliseconds.
LEMMA TwoQueuesAt ==
    ASSUME NEW t \in Int, NEW cur, NEW nxt
    PROVE  /\ QueueAt(TwoQueues(t, cur, nxt), t) = cur
           /\ QueueAt(TwoQueues(t, cur, nxt), t + 1) = nxt
           /\ DOMAIN TwoQueues(t, cur, nxt) = Keys(t, cur, nxt)
<1>1. t \in Keys(t, cur, nxt) <=> cur # <<>>
  BY DEF Keys
<1>2. t + 1 \in Keys(t, cur, nxt) <=> nxt # <<>>
  BY DEF Keys
<1> QED
  BY <1>1, <1>2 DEF TwoQueues, QueueAt

\* The first key is the present millisecond.
LEMMA TwoQueuesFirst ==
    ASSUME NEW t \in Int, NEW cur, NEW nxt, cur # <<>>
    PROVE  /\ FirstKey(TwoQueues(t, cur, nxt)) = t
           /\ t \in DOMAIN TwoQueues(t, cur, nxt)
           /\ TwoQueues(t, cur, nxt)[t] = cur
           /\ ~IsEmpty(TwoQueues(t, cur, nxt))
           /\ GetEvent(TwoQueues(t, cur, nxt)) = Head(cur)
<1> DEFINE cal == TwoQueues(t, cur, nxt)
<1>1. t \in DOMAIN cal /\ \A s \in DOMAIN cal : s \in {t, t + 1}
  BY DEF TwoQueues, Keys
<1>2. cal[t] = cur
  BY <1>1 DEF TwoQueues
<1> HIDE DEF cal
<1>3. FirstKey(cal) = t
  BY <1>1 DEF FirstKey
<1> QED
  BY <1>1, <1>2, <1>3 DEF IsEmpty, GetEvent, cal

\* Inserting for this millisecond lengthens the first queue.
LEMMA InsertNow ==
    ASSUME NEW t \in Int, NEW cur \in Seq(Events), NEW nxt \in Seq(Events),
           NEW es \in Seq(Events)
    PROVE  InsertEvents(TwoQueues(t, cur, nxt), t, es) = TwoQueues(t, cur \o es, nxt)
<1>1. CASE es = <<>>
  BY <1>1, ConcatEmpty DEF InsertEvents
<1>2. CASE es # <<>>
  <2>1. PICK q : q = cur \o es
    OBVIOUS
  <2>0. q # <<>>
    BY <1>2, <2>1, ConcatEmpty
  <2>2. QueueAt(TwoQueues(t, cur, nxt), t) = cur
    BY TwoQueuesAt
  <2>3. DOMAIN TwoQueues(t, cur, nxt) \cup {t} = Keys(t, q, nxt)
    <3>1. Keys(t, cur, nxt) \cup {t} = Keys(t, q, nxt)
      BY <2>0 DEF Keys
    <3> QED
      BY <3>1, TwoQueuesAt
  <2>4. InsertEvents(TwoQueues(t, cur, nxt), t, es) =
            [s \in Keys(t, q, nxt) |-> IF s = t THEN q ELSE TwoQueues(t, cur, nxt)[s]]
    BY <1>2, <2>1, <2>2, <2>3 DEF InsertEvents
  <2>5. \A s \in Keys(t, q, nxt) : s # t => TwoQueues(t, cur, nxt)[s] = nxt
    BY DEF TwoQueues, Keys
  <2> QED
    BY <2>1, <2>4, <2>5 DEF TwoQueues
<1> QED
  BY <1>1, <1>2

\* Inserting for the next millisecond lengthens the second.
LEMMA InsertNext ==
    ASSUME NEW t \in Int, NEW cur \in Seq(Events), NEW nxt \in Seq(Events),
           NEW es \in Seq(Events)
    PROVE  InsertEvents(TwoQueues(t, cur, nxt), t + 1, es) = TwoQueues(t, cur, nxt \o es)
<1>1. CASE es = <<>>
  BY <1>1, ConcatEmpty DEF InsertEvents
<1>2. CASE es # <<>>
  <2>1. PICK q : q = nxt \o es
    OBVIOUS
  <2>0. q # <<>>
    BY <1>2, <2>1, ConcatEmpty
  <2>2. QueueAt(TwoQueues(t, cur, nxt), t + 1) = nxt
    BY TwoQueuesAt
  <2>3. DOMAIN TwoQueues(t, cur, nxt) \cup {t + 1} = Keys(t, cur, q)
    <3>1. Keys(t, cur, nxt) \cup {t + 1} = Keys(t, cur, q)
      BY <2>0 DEF Keys
    <3> QED
      BY <3>1, TwoQueuesAt
  <2>4. InsertEvents(TwoQueues(t, cur, nxt), t + 1, es) =
            [s \in Keys(t, cur, q) |-> IF s = t + 1 THEN q ELSE TwoQueues(t, cur, nxt)[s]]
    BY <1>2, <2>1, <2>2, <2>3 DEF InsertEvents
  <2>5. \A s \in Keys(t, cur, q) : s # t + 1 => s = t /\ TwoQueues(t, cur, nxt)[s] = cur
    BY DEF TwoQueues, Keys
  <2>6. InsertEvents(TwoQueues(t, cur, nxt), t + 1, es) =
            [s \in Keys(t, cur, q) |-> IF s = t THEN cur ELSE q]
    BY <2>4, <2>5
  <2> QED
    BY <2>1, <2>6 DEF TwoQueues
<1> QED
  BY <1>1, <1>2

\* The loop removes the event it served.
LEMMA RemoveNow ==
    ASSUME NEW t \in Int, NEW cur \in Seq(Events), NEW nxt \in Seq(Events), cur # <<>>
    PROVE  RemoveEvent(TwoQueues(t, cur, nxt)) = TwoQueues(t, Tail(cur), nxt)
<1>1. PICK cal : cal = TwoQueues(t, cur, nxt)
  OBVIOUS
<1>2. /\ FirstKey(cal) = t
      /\ cal = [s \in Keys(t, cur, nxt) |-> IF s = t THEN cur ELSE nxt]
      /\ cal[t] = cur
      /\ DOMAIN cal = Keys(t, cur, nxt)
  <2>1. FirstKey(cal) = t /\ cal[t] = cur
    BY <1>1, TwoQueuesFirst
  <2>2. cal = [s \in Keys(t, cur, nxt) |-> IF s = t THEN cur ELSE nxt]
    BY <1>1 DEF TwoQueues
  <2> QED
    BY <2>1, <2>2
<1>3. PICK q : q = Tail(cur)
  OBVIOUS
<1>4. CASE q = <<>>
  <2>1. Keys(t, cur, nxt) \ {t} = Keys(t, q, nxt)
    BY <1>4, KeysChange
  <2>2. RemoveEvent(cal) = [s \in Keys(t, q, nxt) |-> cal[s]]
    BY <1>2, <1>3, <1>4, <2>1 DEF RemoveEvent
  <2>3. \A s \in Keys(t, q, nxt) : s # t /\ cal[s] = nxt
    BY <1>2, <1>4, <2>1
  <2> QED
    BY <1>1, <1>3, <2>2, <2>3 DEF TwoQueues
<1>5. CASE q # <<>>
  <2>1. Keys(t, cur, nxt) = Keys(t, q, nxt)
    BY <1>5, KeysChange
  <2>2. RemoveEvent(cal) = [cal EXCEPT ![t] = q]
    BY <1>2, <1>3, <1>5 DEF RemoveEvent
  <2> QED
    BY <1>1, <1>2, <1>3, <2>1, <2>2 DEF TwoQueues
<1> QED
  BY <1>4, <1>5

\* When the first queue is exhausted the next millisecond begins.
LEMMA NextMillisecond ==
    ASSUME NEW t \in Int, NEW nxt
    PROVE  TwoQueues(t, <<>>, nxt) = TwoQueues(t + 1, nxt, <<>>)
<1>1. Keys(t, <<>>, nxt) = Keys(t + 1, nxt, <<>>)
  BY DEF Keys
<1>2. \A s \in Keys(t, <<>>, nxt) : s = t + 1 /\ s # t
  BY DEF Keys
<1> QED
  BY <1>1, <1>2 DEF TwoQueues

\* What a handler that schedules events leaves in the calendar.
LEMMA Scheduled ==
    ASSUME NEW t \in Int, NEW cur \in Seq(Events), NEW nxt \in Seq(Events),
           NEW now \in Seq(Events), NEW next \in Seq(Events),
           cur # <<>>, Head(cur).ts = t,
           m_events = TwoQueues(t, cur, nxt), Schedule(now, next)
    PROVE  m_events' = TwoQueues(t, Tail(cur) \o now, nxt \o next)
<1>1. Now = t
  BY TwoQueuesFirst DEF Now
<1>2. PICK q \in Seq(Events), r \in Seq(Events) : q = cur \o now /\ r = nxt \o next
  BY ConcatEmpty
<1>3. q # <<>> /\ Tail(q) = Tail(cur) \o now
  BY <1>2, ConcatEmpty
<1>4. InsertEvents(m_events, Now, now) = TwoQueues(t, q, nxt)
  BY <1>1, <1>2, InsertNow
<1>5. InsertEvents(TwoQueues(t, q, nxt), Now + 1, next) = TwoQueues(t, q, r)
  <2>1. InsertEvents(TwoQueues(t, q, nxt), t + 1, next) = TwoQueues(t, q, nxt \o next)
    BY InsertNext
  <2> QED
    BY <1>1, <1>2, <2>1
<1>6. RemoveEvent(TwoQueues(t, q, r)) = TwoQueues(t, Tail(q), r)
  BY <1>3, RemoveNow
<1> QED
  BY <1>2, <1>3, <1>4, <1>5, <1>6 DEF Schedule

-----------------------------------------------------------------------------
(***************************************************************************)
(* Opportunities                                                           *)
(***************************************************************************)

\* The direction d may be used in the TTI n.
Opportunity(d, n) == \/ m_frameStructure = "FDD"
                     \/ TDDConfiguration[m_TDDFrameConfiguration + 1][PositionOf(n)] = d

\* One more TTI is one more opportunity or none.
LEMMA OpportunityStep ==
    ASSUME NEW n \in Nat \ {0}, NEW d
    PROVE  Cardinality(Opportunities(d, n)) =
             IF Opportunity(d, n) THEN Cardinality(Opportunities(d, n - 1)) + 1
                                  ELSE Cardinality(Opportunities(d, n - 1))
<1>1. IsFiniteSet(Opportunities(d, n - 1))
  <2>1. IsFiniteSet(1..(n - 1))
    BY FS_Interval
  <2>2. Opportunities(d, n - 1) \subseteq 1..(n - 1)
    BY DEF Opportunities
  <2> QED
    BY <2>1, <2>2, FS_Subset
<1>2. CASE Opportunity(d, n)
  <2>1. Opportunities(d, n) = Opportunities(d, n - 1) \cup {n}
    BY <1>2 DEF Opportunities, Opportunity
  <2>2. n \notin Opportunities(d, n - 1)
    BY DEF Opportunities
  <2> QED
    BY <1>1, <1>2, <2>1, <2>2, FS_AddElement
<1>3. CASE ~Opportunity(d, n)
  <2>1. Opportunities(d, n) = Opportunities(d, n - 1)
    BY <1>3 DEF Opportunities, Opportunity
  <2> QED
    BY <1>3, <2>1
<1> QED
  BY <1>2, <1>3

\* There are no more opportunities than TTIs.
LEMMA OpportunitiesBounded ==
    ASSUME NEW n \in Nat, NEW d
    PROVE  Cardinality(Opportunities(d, n)) \in 0..n
<1>1. IsFiniteSet(1..n) /\ Cardinality(1..n) = n
  BY FS_Interval
<1>2. Opportunities(d, n) \subseteq 1..n
  BY DEF Opportunities
<1>3. IsFiniteSet(Opportunities(d, n)) /\ Cardinality(Opportunities(d, n)) <= n
  BY <1>1, <1>2, FS_Subset
<1> QED
  BY <1>3, FS_CardinalityType

\* The subframe counter gives the place of the TTI in its frame.
LEMMA PositionIsSubframe ==
    ASSUME NEW n \in Nat, NEW frame \in Nat, NEW sub \in 1..10, n = 10 * (frame - 1) + sub
    PROVE  PositionOf(n) = sub
BY DEF PositionOf

\* The call of a subframe is for the directions that may be used in it.
LEMMA CallIsOpportunity ==
    ASSUME NEW n \in Nat, PositionOf(n) \in 1..10, NEW d \in {DL, UL}
    PROVE  Opportunity(d, n) <=>
             \/ AllocationCall(PositionOf(n)) = "ResourceBlocksAllocation"
             \/ AllocationCall(PositionOf(n)) = "DownlinkResourceBlockAllocation" /\ d = DL
             \/ AllocationCall(PositionOf(n)) = "UplinkResourceBlockAllocation" /\ d = UL
BY DEF Opportunity, AllocationCall, GetSubFrameType, None, DL, UL

-----------------------------------------------------------------------------
(***************************************************************************)
(* The queues of the three shapes                                          *)
(***************************************************************************)

\* Every queue is a queue of events.
LEMMA EventTypes ==
    ASSUME Typed
    PROVE  /\ \A ts \in Nat, kind \in ClockCalls : At(ts, kind) \in Events
           /\ \A ts \in Nat, kind \in AllocationCalls, g \in Cells :
                AllocationAt(ts, kind, g) \in Events
           /\ Bursts(T) \subseteq Events
           /\ Seq(Bursts(T)) \subseteq Seq(Events)
<1>1. Bursts(T) \subseteq Events
  BY DEF Bursts, Events, Typed, T
<1>2. \A ts \in Nat, kind \in ClockCalls : At(ts, kind) \in Events
  BY DEF At, Events
<1>3. \A ts \in Nat, kind \in AllocationCalls, g \in Cells :
                AllocationAt(ts, kind, g) \in Events
  BY DEF AllocationAt, Events
<1>4. Seq(Bursts(T)) \subseteq Seq(Events)
  BY <1>1
<1> QED
  BY <1>1, <1>2, <1>3, <1>4

\* The queue of an end of subframe and of what is received behind it.
LEMMA StopQueue ==
    ASSUME Typed, NEW b \in Seq(Bursts(T))
    PROVE  LET q == <<At(T, "StopSubframe")>> \o b IN
           /\ q \in Seq(Events)
           /\ q # <<>>
           /\ Head(q) = At(T, "StopSubframe")
           /\ Tail(q) = b
<1>1. b \in Seq(Events)
  BY EventTypes
<1>2. At(T, "StopSubframe") \in Events
  <2>1. T \in Nat /\ "StopSubframe" \in ClockCalls
    BY MaxTTIAssumption DEF Typed, T, ClockCalls
  <2> QED
    BY <2>1, EventTypes
<1> QED
  BY <1>1, <1>2

\* The queue of an event of the clock behind what is received before it.
LEMMA ClockQueue ==
    ASSUME Typed, NEW b \in Seq(Bursts(T)), NEW kind \in ClockCalls
    PROVE  LET q == Append(b, At(T, kind)) IN
           /\ q \in Seq(Events)
           /\ q # <<>>
           /\ b = <<>> => Head(q) = At(T, kind) /\ Tail(q) = <<>>
           /\ b # <<>> => /\ Head(q) = Head(b)
                          /\ Tail(q) = Append(Tail(b), At(T, kind))
                          /\ Head(b) \in Bursts(T)
                          /\ Tail(b) \in Seq(Bursts(T))
<1>1. b \in Seq(Events)
  BY EventTypes
<1>2. At(T, kind) \in Events
  <2>1. T \in Nat
    BY MaxTTIAssumption DEF Typed, T
  <2> QED
    BY <2>1, EventTypes
<1> QED
  BY <1>1, <1>2

\* What is left of the n events f when the first k were taken.
Suffix(f, n, k) == [i \in 1..(n - k) |-> f[k + i]]

\* Its first event, and what is left when this is taken as well.
LEMMA SuffixTail ==
    ASSUME NEW n \in Nat, NEW f \in [1..n -> Events], NEW k \in 0..(n - 1)
    PROVE  /\ Suffix(f, n, k) \in Seq(Events)
           /\ Suffix(f, n, k) # <<>>
           /\ Head(Suffix(f, n, k)) = f[k + 1]
           /\ Tail(Suffix(f, n, k)) = Suffix(f, n, k + 1)
<1>0. PICK q : q = Suffix(f, n, k) /\ q = [i \in 1..(n - k) |-> f[k + i]]
  BY DEF Suffix
<1>1. q \in Seq(Events) /\ Len(q) = n - k
  <2>1. n - k \in Nat /\ \A i \in 1..(n - k) : k + i \in 1..n
    OBVIOUS
  <2> QED
    BY <1>0, <2>1
<1>2. /\ q # <<>>
      /\ Tail(q) \in Seq(Events)
      /\ Len(Tail(q)) = n - (k + 1)
      /\ \A i \in 1..Len(Tail(q)) : Tail(q)[i] = q[i + 1]
  <2>1. q # <<>>
    BY <1>1
  <2> QED
    BY <1>1, <2>1, HeadTailProperties
<1>3. \A i \in 1..(n - (k + 1)) : q[i + 1] = f[(k + 1) + i]
  <2> TAKE i \in 1..(n - (k + 1))
  <2>1. i + 1 \in 1..(n - k) /\ k + (i + 1) = (k + 1) + i
    OBVIOUS
  <2> QED
    BY <1>0, <2>1
<1>4. Tail(q) = [i \in 1..(n - (k + 1)) |-> f[(k + 1) + i]]
  <2>1. PICK r : r = [i \in 1..(n - (k + 1)) |-> f[(k + 1) + i]]
    OBVIOUS
  <2>2. PICK m \in Nat : m = n - (k + 1)
    OBVIOUS
  <2>3. \A i \in 1..m : (k + 1) + i \in 1..n
    BY <2>2
  <2>4. r \in Seq(Events) /\ Len(r) = m
    BY <2>1, <2>2, <2>3
  <2>5. \A i \in 1..Len(r) : Tail(q)[i] = r[i]
    BY <1>2, <1>3, <2>1, <2>2, <2>4
  <2> QED
    BY <1>2, <2>1, <2>2, <2>4, <2>5, SeqEqual
<1>5. Head(q) = f[k + 1]
  BY <1>0, <1>1
<1> QED
  BY <1>0, <1>1, <1>2, <1>4, <1>5 DEF Suffix

\* The queue of the calls still to be made.
LEMMA CallsQueue ==
    ASSUME Typed, T # 0, NEW n \in 1..10, AllocationCall(n) # None,
           NEW k \in 0..(Len(GNBs) - 1)
    PROVE  /\ Calls(k, T - 1, n) \in Seq(Events)
           /\ Calls(k, T - 1, n) # <<>>
           /\ Head(Calls(k, T - 1, n)) = AllocationAt(T - 1, AllocationCall(n), GNBs[k + 1])
           /\ k + 1 <= Len(GNBs) - 1 => Tail(Calls(k, T - 1, n)) = Calls(k + 1, T - 1, n)
           /\ k + 1 = Len(GNBs) => Tail(Calls(k, T - 1, n)) = <<>>
<1>1. AllocationCall(n) \in AllocationCalls
  BY DEF AllocationCall, AllocationCalls, None
<1>2. \A i \in 1..Len(GNBs) : GNBs[i] \in Cells
  BY CellsAssumption
<1>3. Len(GNBs) \in Nat /\ T - 1 \in Nat
  BY CellsAssumption DEF Typed, T
<1>4. \A i \in 1..Len(GNBs) : AllocationAt(T - 1, AllocationCall(n), GNBs[i]) \in Events
  BY <1>1, <1>2, <1>3, EventTypes
<1> DEFINE f == [i \in 1..Len(GNBs) |-> AllocationAt(T - 1, AllocationCall(n), GNBs[i])]
<1>5. f \in [1..Len(GNBs) -> Events]
  BY <1>4
<1>6. \A j \in 0..Len(GNBs) : Calls(j, T - 1, n) = Suffix(f, Len(GNBs), j)
  BY <1>3 DEF Calls, Suffix
<1>7. f[k + 1] = AllocationAt(T - 1, AllocationCall(n), GNBs[k + 1])
  BY <1>3
<1> HIDE DEF f
<1>8. /\ Suffix(f, Len(GNBs), k) \in Seq(Events)
      /\ Suffix(f, Len(GNBs), k) # <<>>
      /\ Head(Suffix(f, Len(GNBs), k)) = f[k + 1]
      /\ Tail(Suffix(f, Len(GNBs), k)) = Suffix(f, Len(GNBs), k + 1)
  BY <1>3, <1>5, SuffixTail
<1>9. k \in 0..Len(GNBs) /\ k + 1 \in 0..Len(GNBs)
  BY <1>3
<1>10. Suffix(f, Len(GNBs), Len(GNBs)) = <<>>
  BY <1>3 DEF Suffix
<1> QED
  BY <1>6, <1>7, <1>8, <1>9, <1>10

-----------------------------------------------------------------------------
(***************************************************************************)
(* The invariant                                                           *)
(***************************************************************************)

\* Nothing was sent and no cell called before the clock starts.
LEMMA IInvInit == Init => IInv
<1> SUFFICES ASSUME Init PROVE IInv
  OBVIOUS
<1>1. Typed
  BY StructureAssumption, MaxTTIAssumption DEF Init, Typed
<1>2. m_events = TwoQueues(T, Append(<<>>, At(T, "Start")), <<>>)
  <2>1. m_events = [s \in {0} |-> <<At(0, "Start")>>]
    BY DEF Init, InsertEvent, EmptyCalendar, QueueAt, At
  <2>2. Keys(0, <<At(0, "Start")>>, <<>>) = {0}
    BY DEF Keys
  <2>3. T = 0
    BY DEF Init, T
  <2> QED
    BY <2>1, <2>2, <2>3 DEF TwoQueues
<1>3. ClockPhase("Start", <<>>)
  BY DEF Init, ClockPhase, T
<1>4. CalledFor(Len(GNBs))
  <2>1. \A d : Cardinality(Opportunities(d, 0)) = 0
    BY OpportunitiesBounded
  <2> QED
    BY <2>1, CellsAssumption DEF Init, CalledFor, T
<1>5. <<>> \in Seq(Bursts(T)) /\ "Start" \in ClockCalls
  BY DEF ClockCalls
<1> QED
  BY <1>1, <1>2, <1>3, <1>4, <1>5 DEF IInv, Shape, Clock

\* The next event, when a burst is the first in the queue of the clock.
LEMMA BurstNext ==
    ASSUME Typed, NEW b \in Seq(Bursts(T)), NEW kind \in ClockCalls, Clock(b, kind), b # <<>>
    PROVE  /\ GetEvent(m_events) \in Bursts(T)
           /\ ~IsEmpty(m_events)
<1>1. PICK q : /\ q = Append(b, At(T, kind))
               /\ q # <<>>
               /\ Head(q) \in Bursts(T)
  BY ClockQueue
<1>2. T \in Int /\ m_events = TwoQueues(T, q, <<>>)
  BY <1>1 DEF Typed, T, Clock
<1> QED
  BY <1>1, <1>2, TwoQueuesFirst

\* The next event, when nothing is in front of the clock.
LEMMA ClockNext ==
    ASSUME Typed, NEW kind \in ClockCalls, Clock(<<>>, kind)
    PROVE  /\ GetEvent(m_events) = At(T, kind)
           /\ ~IsEmpty(m_events)
<1>1. PICK q : /\ q = Append(<<>>, At(T, kind))
               /\ q # <<>>
               /\ Head(q) = At(T, kind)
  <2>1. <<>> \in Seq(Bursts(T))
    OBVIOUS
  <2> QED
    BY <2>1, ClockQueue
<1>2. T \in Int /\ m_events = TwoQueues(T, q, <<>>)
  BY <1>1 DEF Typed, T, Clock
<1> QED
  BY <1>1, <1>2, TwoQueuesFirst

\* The next event, at the end of a subframe.
LEMMA StopNext ==
    ASSUME Typed, NEW b \in Seq(Bursts(T)), Stopping(b)
    PROVE  /\ GetEvent(m_events) = At(T, "StopSubframe")
           /\ ~IsEmpty(m_events)
<1>1. T \in Int
  BY DEF Typed, T
<1> QED
  BY <1>1, StopQueue, TwoQueuesFirst DEF Stopping

\* The next event, while gNBs are still to be called.
LEMMA CallNext ==
    ASSUME Typed, NEW b \in Seq(Bursts(T)), NEW k \in 0..(Len(GNBs) - 1), Allocating(k, b)
    PROVE  /\ GetEvent(m_events) =
                AllocationAt(T - 1, AllocationCall(m_nbSubframes), GNBs[k + 1])
           /\ ~IsEmpty(m_events)
<1>1. T - 1 \in Int /\ T # 0 /\ m_nbSubframes \in 1..10 /\ AllocationCall(m_nbSubframes) # None
  BY DEF Typed, T, Allocating, InSubframe
<1>2. m_events = TwoQueues(T - 1, Calls(k, T - 1, m_nbSubframes),
                            <<At(T, "StopSubframe")>> \o b)
  BY DEF Allocating
<1>3. /\ Calls(k, T - 1, m_nbSubframes) # <<>>
      /\ Head(Calls(k, T - 1, m_nbSubframes)) =
            AllocationAt(T - 1, AllocationCall(m_nbSubframes), GNBs[k + 1])
  BY <1>1, CallsQueue
<1> QED
  BY <1>1, <1>2, <1>3, TwoQueuesFirst

\* Most handlers leave the counters and the calls made alone.
Unmoved == UNCHANGED <<setup, m_nbFrames, m_nbSubframes, m_TTICounter, allocations>>

\* Then everything said of them stays true.
LEMMA UnmovedKeeps ==
    ASSUME Typed, Unmoved
    PROVE  /\ T' = T /\ m_nbSubframes' = m_nbSubframes /\ m_nbFrames' = m_nbFrames
           /\ InSubframe' <=> InSubframe
           /\ \A k : CalledFor(k)' <=> CalledFor(k)
           /\ \A kind, b : ClockPhase(kind, b)' <=> ClockPhase(kind, b)
           /\ Bursts(T)' = Bursts(T)
           /\ m_currentTs' \in Nat => Typed'
BY DEF Unmoved, setup, T, InSubframe, CalledFor, ClockPhase, BetweenFrames, Bursts, Typed,
       Opportunities

\* A reception takes its burst out of the queue.
LEMMA ReceptionStep ==
    ASSUME Typed, NEW b \in Seq(Bursts(T)), NEW kind \in ClockCalls, Clock(b, kind), b # <<>>,
           Next
    PROVE  IInv'
<1>1. GetEvent(m_events).kind = "StartRx" /\ Now = T
  BY BurstNext DEF Bursts, Now
<1>2. StartRx
  BY <1>1 DEF Next, Start, StartFrame, StopFrame, StartSubframe, StopSubframe,
      ResourceBlocksAllocation, DownlinkResourceBlockAllocation, UplinkResourceBlockAllocation,
      Allocate, Serve
<1>3. PICK q \in Seq(Events) : /\ q = Append(b, At(T, kind))
                               /\ q # <<>>
                               /\ Head(q) = Head(b)
                               /\ Tail(q) = Append(Tail(b), At(T, kind))
                               /\ Head(b) \in Bursts(T)
                               /\ Tail(b) \in Seq(Bursts(T))
  BY ClockQueue
<1>4. Unmoved /\ Schedule(<<>>, <<>>) /\ m_currentTs' = T
  BY <1>1, <1>2 DEF StartRx, Serve, Unmoved
<1>5. m_events' = TwoQueues(T, Append(Tail(b), At(T, kind)), <<>>)
  <2>1. T \in Int /\ Head(q).ts = T /\ m_events = TwoQueues(T, q, <<>>)
    BY <1>3 DEF Bursts, Clock, Typed, T
  <2>2. Tail(q) \in Seq(Events) /\ <<>> \in Seq(Events)
    BY <1>3
  <2>4. q # <<>> /\ Schedule(<<>>, <<>>)
    BY <1>3, <1>4
  <2>3. m_events' = TwoQueues(T, Tail(q) \o <<>>, <<>> \o <<>>)
    BY <2>1, <2>2, <2>4, Scheduled, ZenonT(60)
  <2> QED
    BY <1>3, <2>2, <2>3, ConcatEmpty
<1>6. ClockPhase(kind, Tail(b))
  BY DEF Clock, ClockPhase
<1>7. Clock(Tail(b), kind)'
  BY <1>4, <1>5, <1>6, UnmovedKeeps DEF Clock
<1>8. Tail(b) \in Seq(Bursts(T)')
  BY <1>3, <1>4, UnmovedKeeps
<1>9. Typed'
  <2>1. T \in Nat
    BY MaxTTIAssumption DEF Typed, T
  <2> QED
    BY <1>4, <2>1, UnmovedKeeps
<1> QED
  BY <1>7, <1>8, <1>9 DEF IInv, Shape

\* An event of the clock replaces itself by another of the same millisecond.
LEMMA ClockReplaced ==
    ASSUME Typed, NEW kind \in ClockCalls, Clock(<<>>, kind), NEW kind2 \in ClockCalls,
           Schedule(<<At(Now, kind2)>>, <<>>)
    PROVE  /\ Now = T
           /\ m_events' = TwoQueues(T, Append(<<>>, At(T, kind2)), <<>>)
<1>1. T \in Nat
  BY MaxTTIAssumption DEF Typed, T
<1>2. Now = T
  BY ClockNext DEF Now, At
<1>3. PICK q \in Seq(Events), r \in Seq(Events) :
        /\ q = Append(<<>>, At(T, kind)) /\ q # <<>>
        /\ Head(q) = At(T, kind) /\ Tail(q) = <<>>
        /\ r = <<At(T, kind2)>>
  <2>1. <<>> \in Seq(Bursts(T))
    OBVIOUS
  <2>2. <<At(T, kind2)>> \in Seq(Events)
    BY <1>1, EventTypes
  <2> QED
    BY <2>1, <2>2, ClockQueue
<1>4. m_events = TwoQueues(T, q, <<>>) /\ Head(q).ts = T
  BY <1>3 DEF Clock, At
<1>5. Schedule(r, <<>>)
  BY <1>2, <1>3
<1>6. m_events' = TwoQueues(T, Tail(q) \o r, <<>> \o <<>>)
  <2>1. T \in Int /\ <<>> \in Seq(Events)
    BY <1>1
  <2>2. q # <<>>
    BY <1>3
  <2> QED
    BY <1>4, <1>5, <2>1, <2>2, Scheduled, ZenonT(60)
<1>7. Tail(q) \o r = Append(<<>>, At(T, kind2)) /\ <<>> \o <<>> = <<>>
  BY <1>3, ConcatEmpty
<1> QED
  BY <1>2, <1>6, <1>7

\* Start, StopFrame and StartFrame.
LEMMA FrameStep ==
    ASSUME Typed, NEW kind \in {"Start", "StopFrame", "StartFrame"}, Clock(<<>>, kind), Next
    PROVE  IInv'
<1>1. GetEvent(m_events).kind = kind /\ Now = T /\ T \in Nat /\ kind \in ClockCalls
  <2>1. kind \in ClockCalls
    BY DEF ClockCalls
  <2>2. T \in Nat
    BY MaxTTIAssumption DEF Typed, T
  <2>3. GetEvent(m_events).kind = kind /\ Now = T
    BY <2>1, ClockNext DEF Now, At
  <2> QED
    BY <2>1, <2>2, <2>3
<1>2. <<>> \in Seq(Bursts(T)') /\ {"StartFrame", "StartSubframe"} \subseteq ClockCalls
  BY DEF ClockCalls
<1>3. ClockPhase(kind, <<>>) /\ CalledFor(Len(GNBs))
  BY DEF Clock
<1>4. CASE kind = "Start"
  <2>1. Start
    BY <1>1, <1>4 DEF Next, StartRx, StartFrame, StopFrame, StartSubframe, StopSubframe,
      ResourceBlocksAllocation, DownlinkResourceBlockAllocation, UplinkResourceBlockAllocation,
      Allocate, Serve
  <2>2. Unmoved /\ Schedule(<<At(Now, "StartFrame")>>, <<>>) /\ m_currentTs' = T
    BY <1>1, <2>1 DEF Start, Serve, Unmoved
  <2>3. m_events' = TwoQueues(T, Append(<<>>, At(T, "StartFrame")), <<>>)
    BY <1>1, <1>2, <2>2, ClockReplaced
  <2>4. ClockPhase("StartFrame", <<>>)
    BY <1>3, <1>4 DEF ClockPhase, BetweenFrames
  <2>5. Clock(<<>>, "StartFrame")' /\ Typed'
    BY <1>1, <1>3, <2>2, <2>3, <2>4, UnmovedKeeps DEF Clock
  <2> QED
    BY <1>2, <2>5 DEF IInv, Shape
<1>5. CASE kind = "StopFrame"
  <2>1. StopFrame
    BY <1>1, <1>5 DEF Next, StartRx, StartFrame, Start, StartSubframe, StopSubframe,
      ResourceBlocksAllocation, DownlinkResourceBlockAllocation, UplinkResourceBlockAllocation,
      Allocate, Serve
  <2>2. Unmoved /\ Schedule(<<At(Now, "StartFrame")>>, <<>>) /\ m_currentTs' = T
    BY <1>1, <2>1 DEF StopFrame, Serve, Unmoved
  <2>3. m_events' = TwoQueues(T, Append(<<>>, At(T, "StartFrame")), <<>>)
    BY <1>1, <1>2, <2>2, ClockReplaced
  <2>4. ClockPhase("StartFrame", <<>>)
    BY <1>3, <1>5 DEF ClockPhase, BetweenFrames, InSubframe
  <2>5. Clock(<<>>, "StartFrame")' /\ Typed'
    BY <1>1, <1>3, <2>2, <2>3, <2>4, UnmovedKeeps DEF Clock
  <2> QED
    BY <1>2, <2>5 DEF IInv, Shape
<1>6. CASE kind = "StartFrame"
  <2>1. StartFrame
    BY <1>1, <1>6 DEF Next, StartRx, StopFrame, Start, StartSubframe, StopSubframe,
      ResourceBlocksAllocation, DownlinkResourceBlockAllocation, UplinkResourceBlockAllocation,
      Allocate, Serve
  <2>2. /\ Schedule(<<At(Now, "StartSubframe")>>, <<>>)
        /\ m_currentTs' = T /\ T' = T
        /\ m_nbFrames' = m_nbFrames + 1
        /\ m_frameStructure' = m_frameStructure
        /\ m_TDDFrameConfiguration' = m_TDDFrameConfiguration
        /\ m_nbSubframes' = m_nbSubframes
        /\ m_TTICounter' = m_TTICounter
        /\ allocations' = allocations
    BY <1>1, <2>1 DEF StartFrame, Serve, setup, T
  <2>3. m_events' = TwoQueues(T, Append(<<>>, At(T, "StartSubframe")), <<>>)
    BY <1>1, <1>2, <2>2, ClockReplaced
  <2>4. BetweenFrames(m_nbFrames)
    BY <1>3, <1>6 DEF ClockPhase
  <2>5. Typed'
    <3>1. m_nbFrames' \in Nat
      BY <2>2 DEF Typed
    <3>2. m_currentTs' \in Nat
      BY <1>1, <2>2
    <3> QED
      BY <2>2, <3>1, <3>2 DEF Typed
  <2>6. ClockPhase("StartSubframe", <<>>)'
    BY <1>1, <2>2, <2>4, <2>5 DEF ClockPhase, BetweenFrames, Typed
  <2>7. CalledFor(Len(GNBs))'
    BY <1>3, <2>2 DEF CalledFor, Opportunities, T
  <2>8. Clock(<<>>, "StartSubframe")'
    BY <2>2, <2>3, <2>6, <2>7 DEF Clock
  <2> QED
    BY <1>2, <2>5, <2>8 DEF IInv, Shape
<1> QED
  BY <1>4, <1>5, <1>6

\* StopSubframe puts its successor behind what is received.
LEMMA StopSubframeStep ==
    ASSUME Typed, NEW b \in Seq(Bursts(T)), Stopping(b), Next
    PROVE  IInv'
<1>1. T \in Nat
  BY MaxTTIAssumption DEF Typed, T
<1>2. GetEvent(m_events).kind = "StopSubframe" /\ Now = T
  BY StopNext DEF Now, At
<1>3. StopSubframe
  BY <1>2 DEF Next, Start, StartFrame, StopFrame, StartSubframe, StartRx,
      ResourceBlocksAllocation, DownlinkResourceBlockAllocation, UplinkResourceBlockAllocation,
      Allocate, Serve
<1>4. PICK kind \in {"StopFrame", "StartSubframe"} :
        kind = IF m_nbSubframes = 10 THEN "StopFrame" ELSE "StartSubframe"
  OBVIOUS
<1>5. kind \in ClockCalls
  BY DEF ClockCalls
<1>6. Unmoved /\ Schedule(<<At(T, kind)>>, <<>>) /\ m_currentTs' = T
  BY <1>2, <1>3, <1>4 DEF StopSubframe, Serve, Unmoved
<1>7. PICK q \in Seq(Events), r \in Seq(Events) :
        /\ q = <<At(T, "StopSubframe")>> \o b /\ q # <<>>
        /\ Head(q) = At(T, "StopSubframe") /\ Tail(q) = b
        /\ r = <<At(T, kind)>>
  <2>1. <<At(T, kind)>> \in Seq(Events)
    BY <1>1, <1>5, EventTypes
  <2> QED
    BY <2>1, StopQueue
<1>8. m_events' = TwoQueues(T, b \o r, <<>> \o <<>>)
  <2>1. T \in Int /\ <<>> \in Seq(Events)
    BY <1>1
  <2>2. m_events = TwoQueues(T, q, <<>>) /\ Head(q).ts = T /\ Schedule(r, <<>>)
    BY <1>6, <1>7 DEF Stopping, At
  <2>3. m_events' = TwoQueues(T, Tail(q) \o r, <<>> \o <<>>)
    <3>1. q # <<>>
      BY <1>7
    <3> QED
      BY <2>1, <2>2, <3>1, Scheduled, ZenonT(60)
  <2> QED
    BY <1>7, <2>3
<1>9. m_events' = TwoQueues(T, Append(b, At(T, kind)), <<>>)
  <2>1. b \o r = Append(b, At(T, kind))
    BY <1>7
  <2>2. <<>> \o <<>> = <<>>
    BY ConcatEmpty
  <2> QED
    BY <1>8, <2>1, <2>2
<1>10. ClockPhase(kind, b)
  BY <1>4 DEF Stopping, ClockPhase
<1>11. Clock(b, kind)'
  BY <1>6, <1>9, <1>10, UnmovedKeeps DEF Clock, Stopping
<1>12. Typed' /\ b \in Seq(Bursts(T)')
  BY <1>1, <1>6, UnmovedKeeps
<1> QED
  BY <1>5, <1>11, <1>12 DEF IInv, Shape

\* The count of opportunities depends on the setup alone.
LEMMA CalledForNext ==
    ASSUME NEW k \in Int, setup' = setup,
           \A i \in 1..Len(GNBs), d \in {DL, UL} :
                allocations'[GNBs[i]][d] =
                    IF i <= k THEN Cardinality(Opportunities(d, T'))
                              ELSE Cardinality(Opportunities(d, T' - 1))
    PROVE  CalledFor(k)'
<1>1. \A d : /\ Opportunities(d, T)' = Opportunities(d, T')
             /\ Opportunities(d, T - 1)' = Opportunities(d, T' - 1)
  BY DEF Opportunities, setup
<1>2. \A d : /\ Cardinality(Opportunities(d, T))' = Cardinality(Opportunities(d, T'))
             /\ Cardinality(Opportunities(d, T - 1))' = Cardinality(Opportunities(d, T' - 1))
  BY <1>1
<1> QED
  BY <1>2 DEF CalledFor

\* StartSubframe opens a TTI: every gNB has still to be called for it, or none.
LEMMA StartSubframeStep ==
    ASSUME Typed, Clock(<<>>, "StartSubframe"), Next
    PROVE  IInv'
<1>1. T \in Nat
  BY MaxTTIAssumption DEF Typed, T
<1>2. GetEvent(m_events).kind = "StartSubframe" /\ Now = T
  <2>1. "StartSubframe" \in ClockCalls
    BY DEF ClockCalls
  <2> QED
    BY <2>1, ClockNext DEF Now, At
<1>3. StartSubframe
  BY <1>2 DEF Next, Start, StartFrame, StopFrame, StopSubframe, StartRx,
      ResourceBlocksAllocation, DownlinkResourceBlockAllocation, UplinkResourceBlockAllocation,
      Allocate, Serve
<1>4. /\ m_TTICounter < MaxTTI
      /\ T' = T + 1
      /\ m_TTICounter' = m_TTICounter + 1
      /\ m_nbSubframes' = NextSubframe(m_nbSubframes)
      /\ m_currentTs' = T
      /\ m_frameStructure' = m_frameStructure
      /\ m_TDDFrameConfiguration' = m_TDDFrameConfiguration
      /\ m_nbFrames' = m_nbFrames
      /\ allocations' = allocations
      /\ Schedule(ResourceAllocation(m_nbSubframes'), <<At(T + 1, "StopSubframe")>>)
  BY <1>2, <1>3 DEF StartSubframe, Serve, setup, T
<1>5. InSubframe' /\ T = T' - 1
  <2>1. \/ BetweenFrames(m_nbFrames - 1)
        \/ InSubframe /\ m_nbSubframes # 10
    BY DEF Clock, ClockPhase
  <2>2. m_nbSubframes' \in 1..10 /\ T' = 10 * (m_nbFrames' - 1) + m_nbSubframes'
    BY <1>1, <1>4, <2>1 DEF BetweenFrames, InSubframe, NextSubframe, Typed
  <2> QED
    BY <1>1, <1>4, <2>2, MaxTTIAssumption DEF InSubframe, Typed, T
<1>6. Typed'
  <2>1. m_nbSubframes' \in 0..10 /\ m_TTICounter' \in 0..MaxTTI /\ m_nbFrames' \in Nat
    BY <1>4, <1>5, MaxTTIAssumption DEF InSubframe, T
  <2> QED
    BY <1>1, <1>4, <2>1 DEF Typed
<1>7. CalledFor(0)'
  <2>1. \A i \in 1..Len(GNBs), d \in {DL, UL} :
            allocations[GNBs[i]][d] = Cardinality(Opportunities(d, T))
    BY CellsAssumption DEF Clock, CalledFor
  <2>2. \A i \in 1..Len(GNBs), d \in {DL, UL} :
            allocations'[GNBs[i]][d] = Cardinality(Opportunities(d, T' - 1))
    BY <1>4, <1>5, <2>1
  <2>3. setup' = setup
    BY <1>4 DEF setup
  <2> QED
    BY <2>2, <2>3, CalledForNext
<1>8. PICK n \in 1..10 : n = m_nbSubframes' /\ PositionOf(T + 1) = n
  <2>1. m_nbSubframes' \in 1..10 /\ m_nbFrames' \in Nat
        /\ T + 1 = 10 * (m_nbFrames' - 1) + m_nbSubframes'
    BY <1>4, <1>5 DEF InSubframe
  <2>2. PICK n, frame \in Nat : n = m_nbSubframes' /\ frame = m_nbFrames'
    BY <2>1
  <2>3. n \in 1..10
    BY <2>1, <2>2
  <2>5. T + 1 = 10 * (frame - 1) + n
    BY <2>1, <2>2
  <2>6. T + 1 \in Nat
    BY <1>1
  <2>4. PositionOf(T + 1) = n
    BY <2>2, <2>3, <2>5, <2>6, PositionIsSubframe
  <2> QED
    BY <2>2, <2>3, <2>4
<1>9. PICK calls, stop : calls = ResourceAllocation(n) /\ stop = <<At(T + 1, "StopSubframe")>>
  OBVIOUS
<1>10. stop \in Seq(Events) /\ <<>> \o stop = stop
  BY <1>1, <1>9, EventTypes DEF ClockCalls
<1>11. ASSUME calls \in Seq(Events)
       PROVE  m_events' = TwoQueues(T, calls, stop)
  <2>1. PICK q \in Seq(Events) : /\ q = Append(<<>>, At(T, "StartSubframe")) /\ q # <<>>
                                 /\ Head(q) = At(T, "StartSubframe") /\ Tail(q) = <<>>
    <3>1. <<>> \in Seq(Bursts(T)) /\ "StartSubframe" \in ClockCalls
      BY DEF ClockCalls
    <3> QED
      BY <3>1, ClockQueue
  <2>2. m_events = TwoQueues(T, q, <<>>) /\ Head(q).ts = T /\ Schedule(calls, stop)
    BY <1>4, <1>8, <1>9, <2>1 DEF Clock, At
  <2>3. T \in Int /\ <<>> \in Seq(Events)
    BY <1>1
  <2>4. m_events' = TwoQueues(T, Tail(q) \o calls, <<>> \o stop)
    <3>1. q # <<>> /\ stop \in Seq(Events)
      BY <1>10, <2>1
    <3> QED
      BY <1>11, <2>2, <2>3, <3>1, Scheduled, ZenonT(60)
  <2>5. Tail(q) \o calls = calls
    BY <1>11, <2>1
  <2> QED
    BY <1>10, <2>4, <2>5
<1>12. CASE AllocationCall(n) = None \/ Len(GNBs) = 0
  <2>1. calls = <<>> /\ calls \in Seq(Events)
    BY <1>9, <1>12 DEF ResourceAllocation
  <2>2. m_events' = TwoQueues(T + 1, stop, <<>>)
    BY <1>1, <1>11, <2>1, NextMillisecond
  <2>3. stop = <<At(T', "StopSubframe")>> \o <<>>
    BY <1>4, <1>9
  <2>4. CalledFor(Len(GNBs))'
    <3>1. CASE Len(GNBs) = 0
      BY <3>1 DEF CalledFor
    <3>2. CASE AllocationCall(n) = None
      <4>1. \A d \in {DL, UL} : ~Opportunity(d, T + 1)
        BY <1>1, <1>8, <3>2, CallIsOpportunity DEF None
      <4>2. \A d \in {DL, UL} :
                Cardinality(Opportunities(d, T + 1)) = Cardinality(Opportunities(d, T))
        BY <1>1, <4>1, OpportunityStep
      <4>3. \A i \in 1..Len(GNBs), d \in {DL, UL} :
                allocations[GNBs[i]][d] = Cardinality(Opportunities(d, T))
        BY CellsAssumption DEF Clock, CalledFor
      <4>4. \A i \in 1..Len(GNBs), d \in {DL, UL} :
                allocations'[GNBs[i]][d] = Cardinality(Opportunities(d, T + 1))
        BY <1>4, <4>2, <4>3
      <4>5. Len(GNBs) \in Int /\ setup' = setup
        BY <1>4, CellsAssumption DEF setup
      <4> QED
        BY <1>4, <4>4, <4>5, CalledForNext
    <3> QED
      BY <1>12, <3>1, <3>2
  <2>5. Stopping(<<>>)' /\ <<>> \in Seq(Bursts(T)')
    BY <1>4, <1>5, <2>2, <2>3, <2>4 DEF Stopping
  <2> QED
    BY <1>6, <2>5 DEF IInv, Shape
<1>13. CASE AllocationCall(n) # None /\ Len(GNBs) # 0
  <2>1. calls = [i \in 1..Len(GNBs) |-> AllocationAt(T, AllocationCall(n), GNBs[i])]
    BY <1>2, <1>9, <1>13 DEF ResourceAllocation
  <2>2. calls \in Seq(Events)
    <3>1. \A i \in 1..Len(GNBs) : AllocationAt(T, AllocationCall(n), GNBs[i]) \in Events
      <4>1. AllocationCall(n) \in AllocationCalls
        BY <1>13 DEF AllocationCall, AllocationCalls, None
      <4> QED
        BY <1>1, <4>1, EventTypes, CellsAssumption
    <3> QED
      BY <2>1, <3>1, CellsAssumption
  <2>3. calls = Calls(0, T, n)
    BY <2>1, CellsAssumption DEF Calls
  <2>4. m_events' = TwoQueues(T, Calls(0, T, n), <<At(T + 1, "StopSubframe")>> \o <<>>)
    BY <1>9, <1>11, <2>2, <2>3
  <2>5. AllocationCall(m_nbSubframes)' = AllocationCall(n)
    BY <1>4, <1>8 DEF AllocationCall, GetSubFrameType
  <2>6. Calls(0, T - 1, m_nbSubframes)' = Calls(0, T, n)
    BY <1>4, <1>5, <1>8, <2>5 DEF Calls
  <2>7. Allocating(0, <<>>)'
    BY <1>4, <1>5, <1>7, <1>13, <2>4, <2>5, <2>6 DEF Allocating
  <2>8. 0 \in 0..(Len(GNBs) - 1) /\ <<>> \in Seq(Bursts(T)')
    BY <1>13, CellsAssumption
  <2> QED
    BY <1>6, <2>7, <2>8 DEF IInv, Shape
<1> QED
  BY <1>12, <1>13

\* The handler of a call is the one for the directions of the subframe.
LEMMA CallHandler ==
    ASSUME Typed, NEW b \in Seq(Bursts(T)), NEW k \in 0..(Len(GNBs) - 1), Allocating(k, b),
           Next
    PROVE  \E dirs \in SUBSET {DL, UL} :
             /\ Allocate(AllocationCall(m_nbSubframes), dirs)
             /\ \A d \in {DL, UL} : d \in dirs <=> Opportunity(d, T)
<1>1. /\ AllocationCall(m_nbSubframes) \in AllocationCalls
      /\ GetEvent(m_events).kind = AllocationCall(m_nbSubframes)
  <2>1. AllocationCall(m_nbSubframes) \in AllocationCalls
    BY DEF Allocating, AllocationCall, AllocationCalls, None
  <2>2. GetEvent(m_events).kind = AllocationCall(m_nbSubframes)
    BY CallNext DEF AllocationAt
  <2> QED
    BY <2>1, <2>2
<1>2. PositionOf(T) = m_nbSubframes /\ T \in Nat /\ m_nbSubframes \in 1..10
  BY PositionIsSubframe, MaxTTIAssumption DEF Allocating, InSubframe
<1>3. \A d \in {DL, UL} : Opportunity(d, T) <=>
             \/ AllocationCall(m_nbSubframes) = "ResourceBlocksAllocation"
             \/ AllocationCall(m_nbSubframes) = "DownlinkResourceBlockAllocation" /\ d = DL
             \/ AllocationCall(m_nbSubframes) = "UplinkResourceBlockAllocation" /\ d = UL
  BY <1>2, CallIsOpportunity
<1>4. \/ ResourceBlocksAllocation
      \/ DownlinkResourceBlockAllocation
      \/ UplinkResourceBlockAllocation
  BY <1>1 DEF Next, Start, StartFrame, StopFrame, StartSubframe, StopSubframe, StartRx, Serve,
      AllocationCalls
<1>5. CASE ResourceBlocksAllocation
  <2>1. /\ Allocate("ResourceBlocksAllocation", {DL, UL})
        /\ AllocationCall(m_nbSubframes) = "ResourceBlocksAllocation"
    BY <1>1, <1>5 DEF ResourceBlocksAllocation, Allocate, Serve
  <2> QED
    BY <1>3, <2>1
<1>6. CASE DownlinkResourceBlockAllocation
  <2>1. /\ Allocate("DownlinkResourceBlockAllocation", {DL})
        /\ AllocationCall(m_nbSubframes) = "DownlinkResourceBlockAllocation"
    BY <1>1, <1>6 DEF DownlinkResourceBlockAllocation, Allocate, Serve
  <2> QED
    BY <1>3, <2>1
<1>7. CASE UplinkResourceBlockAllocation
  <2>1. /\ Allocate("UplinkResourceBlockAllocation", {UL})
        /\ AllocationCall(m_nbSubframes) = "UplinkResourceBlockAllocation"
    BY <1>1, <1>7 DEF UplinkResourceBlockAllocation, Allocate, Serve
  <2> QED
    BY <1>3, <2>1
<1> QED
  BY <1>4, <1>5, <1>6, <1>7

\* The call of a gNB: it is made once for the TTI, and what is sent is received in
\* the next millisecond, behind the end of the subframe.
LEMMA CallStep ==
    ASSUME Typed, NEW b \in Seq(Bursts(T)), NEW k \in 0..(Len(GNBs) - 1), Allocating(k, b),
           Next
    PROVE  IInv'
<1> DEFINE g == GNBs[k + 1]
<1>1. /\ T \in 1..MaxTTI /\ T - 1 \in Nat /\ T # 0 /\ T \in Nat
      /\ m_nbSubframes \in 1..10
      /\ AllocationCall(m_nbSubframes) # None
      /\ Len(GNBs) \in Nat
      /\ g \in Cells
  BY MaxTTIAssumption, CellsAssumption DEF Allocating, InSubframe
<1>2. GetEvent(m_events).gnb = g /\ Now = T - 1
  BY CallNext DEF AllocationAt, Now
<1>3. PICK dirs \in SUBSET {DL, UL} :
        /\ Allocate(AllocationCall(m_nbSubframes), dirs)
        /\ \A d \in {DL, UL} : d \in dirs <=> Opportunity(d, T)
  BY CallHandler
<1>4. PICK sent \in Transmissions(dirs) :
        Schedule(<<>>, [i \in 1..Len(sent) |-> StartTx(g, sent[i])])
  BY <1>2, <1>3 DEF Allocate
<1>5. /\ allocations' = [h \in Cells |-> [d \in {DL, UL} |->
                IF h = g /\ d \in dirs THEN allocations[h][d] + 1 ELSE allocations[h][d]]]
      /\ m_currentTs' = T - 1 /\ T' = T
      /\ m_TTICounter' = m_TTICounter
      /\ m_frameStructure' = m_frameStructure
      /\ m_TDDFrameConfiguration' = m_TDDFrameConfiguration
      /\ m_nbFrames' = m_nbFrames
      /\ m_nbSubframes' = m_nbSubframes
  BY <1>2, <1>3 DEF Allocate, Serve, setup, T
<1> HIDE DEF g
<1>6. PICK r \in Seq(Bursts(T)) : Schedule(<<>>, r)
  <2>1. sent \in Seq({DL, UL})
    <3>1. {DL, UL} # {} /\ <<>> \in Seq({DL, UL})
      OBVIOUS
    <3>2. <<DL>> \in Seq({DL, UL}) /\ <<UL>> \in Seq({DL, UL}) /\ <<DL, UL>> \in Seq({DL, UL})
      OBVIOUS
    <3>3. sent \in {<<>>, <<DL>>, <<UL>>, <<DL, UL>>}
      BY DEF Transmissions
    <3> QED
      BY <3>1, <3>2, <3>3
  <2>2. \A d \in {DL, UL} : StartTx(g, d) \in Bursts(T)
    BY <1>1, <1>2 DEF StartTx, BurstAt, Bursts, T
  <2>3. [i \in 1..Len(sent) |-> StartTx(g, sent[i])] \in Seq(Bursts(T))
    BY <2>1, <2>2
  <2> QED
    BY <1>4, <2>3

<1>7. /\ b \o r \in Seq(Bursts(T))
      /\ (<<At(T, "StopSubframe")>> \o b) \o r = <<At(T, "StopSubframe")>> \o (b \o r)
  OBVIOUS
<1>8. m_events' = TwoQueues(T - 1, Tail(Calls(k, T - 1, m_nbSubframes)),
                            <<At(T, "StopSubframe")>> \o (b \o r))
  <2>1. PICK cur \in Seq(Events), nxt \in Seq(Events) :
            /\ cur = Calls(k, T - 1, m_nbSubframes)
            /\ nxt = <<At(T, "StopSubframe")>> \o b
            /\ cur # <<>>
            /\ Head(cur).ts = T - 1
    <3>1. /\ Calls(k, T - 1, m_nbSubframes) \in Seq(Events)
          /\ Calls(k, T - 1, m_nbSubframes) # <<>>
          /\ Head(Calls(k, T - 1, m_nbSubframes)) =
                AllocationAt(T - 1, AllocationCall(m_nbSubframes), GNBs[k + 1])
      BY <1>1, CallsQueue
    <3>2. Head(Calls(k, T - 1, m_nbSubframes)).ts = T - 1
      BY <3>1 DEF AllocationAt
    <3>3. <<At(T, "StopSubframe")>> \o b \in Seq(Events)
      BY StopQueue
    <3> QED
      BY <3>1, <3>2, <3>3
  <2>2. m_events = TwoQueues(T - 1, cur, nxt)
    BY <2>1 DEF Allocating
  <2>3. T - 1 \in Int /\ <<>> \in Seq(Events) /\ r \in Seq(Events)
    BY <1>1, EventTypes
  <2>4. m_events' = TwoQueues(T - 1, Tail(cur) \o <<>>, nxt \o r)
    <3>1. PICK t \in Int : t = T - 1
      BY <2>3
    <3>2. cur # <<>> /\ Head(cur).ts = t /\ m_events = TwoQueues(t, cur, nxt)
      BY <2>1, <2>2, <3>1
    <3>3. m_events' = TwoQueues(t, Tail(cur) \o <<>>, nxt \o r)
      BY <1>6, <2>3, <3>2, Scheduled, ZenonT(60)
    <3> QED
      BY <3>1, <3>3
  <2>5. Tail(cur) \o <<>> = Tail(cur)
    BY <2>1
  <2> QED
    BY <1>7, <2>1, <2>4, <2>5
<1>9. \A i \in 1..Len(GNBs), d \in {DL, UL} :
        allocations'[GNBs[i]][d] =
            IF i <= k + 1 THEN Cardinality(Opportunities(d, T))
                          ELSE Cardinality(Opportunities(d, T - 1))
  <2> TAKE i \in 1..Len(GNBs), d \in {DL, UL}
  <2>1. GNBs[i] \in Cells
    BY CellsAssumption
  <2>2. allocations[GNBs[i]][d] = IF i <= k THEN Cardinality(Opportunities(d, T))
                                            ELSE Cardinality(Opportunities(d, T - 1))
    BY DEF Allocating, CalledFor
  <2>3. GNBs[i] = g <=> i = k + 1
    BY CellsAssumption, <1>1 DEF g
  <2>4. allocations'[GNBs[i]][d] =
            IF i = k + 1 /\ d \in dirs THEN allocations[GNBs[i]][d] + 1
                                       ELSE allocations[GNBs[i]][d]
    BY <1>5, <2>1, <2>3
  <2>5. Cardinality(Opportunities(d, T)) =
            IF d \in dirs THEN Cardinality(Opportunities(d, T - 1)) + 1
                          ELSE Cardinality(Opportunities(d, T - 1))
    BY <1>1, <1>3, OpportunityStep
  <2> QED
    BY <2>2, <2>4, <2>5
<1>10. CalledFor(k + 1)'
  <2>1. k + 1 \in Int /\ setup' = setup
    BY <1>5 DEF setup
  <2> QED
    BY <1>5, <1>9, <2>1, CalledForNext
<1>11. Typed'
  <2>1. \A h \in Cells, d \in {DL, UL} : allocations'[h][d] \in 0..MaxTTI
    <3> TAKE h \in Cells, d \in {DL, UL}
    <3>1. PICK i \in 1..Len(GNBs) : GNBs[i] = h
      BY CellsAssumption DEF Cells
    <3>2. /\ Cardinality(Opportunities(d, T)) \in 0..MaxTTI
          /\ Cardinality(Opportunities(d, T - 1)) \in 0..MaxTTI
      BY <1>1, MaxTTIAssumption, OpportunitiesBounded
    <3> QED
      BY <1>9, <3>1, <3>2
  <2>2. allocations' \in [Cells -> [{DL, UL} -> 0..MaxTTI]]
    BY <1>5, <2>1
  <2>3. m_currentTs' \in Nat
    BY <1>1, <1>5
  <2> QED
    BY <1>5, <2>2, <2>3 DEF Typed
<1>12. InSubframe'
  BY <1>5 DEF Allocating, InSubframe
<1>13. b \o r \in Seq(Bursts(T)')
  BY <1>5, <1>7 DEF Bursts
<1>14. CASE k + 1 <= Len(GNBs) - 1
  <2>1. AllocationCall(m_nbSubframes)' = AllocationCall(m_nbSubframes)
    BY <1>5 DEF AllocationCall, GetSubFrameType
  <2>2. Calls(k + 1, T - 1, m_nbSubframes)' = Calls(k + 1, T - 1, m_nbSubframes)
    BY <1>5, <2>1 DEF Calls
  <2>3. Tail(Calls(k, T - 1, m_nbSubframes)) = Calls(k + 1, T - 1, m_nbSubframes)
    BY <1>1, <1>14, CallsQueue
  <2>4. Allocating(k + 1, b \o r)'
    BY <1>1, <1>5, <1>8, <1>10, <1>12, <2>1, <2>2, <2>3 DEF Allocating
  <2>5. k + 1 \in 0..(Len(GNBs) - 1)
    BY <1>1, <1>14
  <2> QED
    BY <1>11, <1>13, <2>4, <2>5 DEF IInv, Shape
<1>15. CASE k + 1 = Len(GNBs)
  <2>1. Tail(Calls(k, T - 1, m_nbSubframes)) = <<>>
    BY <1>1, <1>15, CallsQueue
  <2>2. m_events' = TwoQueues((T - 1) + 1, <<At(T, "StopSubframe")>> \o (b \o r), <<>>)
    <3>0. PICK q : q = <<At(T, "StopSubframe")>> \o (b \o r)
      OBVIOUS
    <3>1. PICK t \in Int : t = T - 1
      BY <1>1
    <3>2. m_events' = TwoQueues(t, <<>>, q)
      BY <1>8, <2>1, <3>0, <3>1
    <3>3. TwoQueues(t, <<>>, q) = TwoQueues(t + 1, q, <<>>)
      BY <3>1, NextMillisecond
    <3> QED
      BY <3>0, <3>1, <3>2, <3>3
  <2>3. (T - 1) + 1 = T
    BY <1>1
  <2>4. Stopping(b \o r)'
    BY <1>5, <1>10, <1>12, <1>15, <2>2, <2>3 DEF Stopping
  <2> QED
    BY <1>11, <1>13, <2>4 DEF IInv, Shape
<1> QED
  BY <1>1, <1>14, <1>15

\* No step breaks the invariant.
LEMMA IInvNext == IInv /\ [Next]_vars => IInv'
<1> SUFFICES ASSUME IInv, [Next]_vars PROVE IInv'
  OBVIOUS
<1>1. Typed /\ Shape
  BY DEF IInv
<1>2. CASE Next
  <2>1. ASSUME NEW b \in Seq(Bursts(T)), NEW kind \in ClockCalls, Clock(b, kind)
        PROVE  IInv'
    <3>1. CASE b # <<>>
      BY <1>1, <1>2, <2>1, <3>1, ReceptionStep
    <3>2. CASE b = <<>>
      <4>1. Clock(<<>>, kind)
        BY <2>1, <3>2
      <4>2. kind \in {"Start", "StartFrame", "StopFrame"} \/ kind = "StartSubframe"
        BY <4>1 DEF Clock, ClockPhase
      <4> QED
        BY <1>1, <1>2, <4>1, <4>2, FrameStep, StartSubframeStep
    <3> QED
      BY <3>1, <3>2
  <2>2. ASSUME NEW b \in Seq(Bursts(T)), Stopping(b)
        PROVE  IInv'
    BY <1>1, <1>2, <2>2, StopSubframeStep
  <2>3. ASSUME NEW k \in 0..(Len(GNBs) - 1), NEW b \in Seq(Bursts(T)), Allocating(k, b)
        PROVE  IInv'
    BY <1>1, <1>2, <2>3, CallStep
  <2> QED
    BY <1>1, <2>1, <2>2, <2>3 DEF Shape
<1>3. CASE UNCHANGED vars
  <2>1. Unmoved /\ m_events' = m_events /\ m_currentTs' = m_currentTs
    BY <1>3 DEF vars, Unmoved
  <2>2. Typed' /\ T' = T /\ Bursts(T)' = Bursts(T)
    BY <1>1, <2>1, UnmovedKeeps DEF Typed
  <2>3. \A b, kind : Clock(b, kind) => Clock(b, kind)'
    BY <1>1, <2>1, UnmovedKeeps DEF Clock
  <2>4. \A b : Stopping(b) => Stopping(b)'
    BY <1>1, <2>1, UnmovedKeeps DEF Stopping
  <2>5. ASSUME NEW k, NEW b, Allocating(k, b)
        PROVE  Allocating(k, b)'
    <3>1. AllocationCall(m_nbSubframes)' = AllocationCall(m_nbSubframes)
      BY <2>1 DEF Unmoved, setup, AllocationCall, GetSubFrameType
    <3>2. Calls(k, T - 1, m_nbSubframes)' = Calls(k, T - 1, m_nbSubframes)
      BY <2>1, <2>2, <3>1 DEF Calls
    <3> QED
      BY <1>1, <2>1, <2>5, <3>1, <3>2, UnmovedKeeps DEF Allocating
  <2> QED
    BY <1>1, <2>2, <2>3, <2>4, <2>5 DEF IInv, Shape
<1> QED
  BY <1>2, <1>3

\* The invariant holds in every reachable state.
LEMMA IInvariant == Spec => []IInv
<1> QED
  BY IInvInit, IInvNext, PTL DEF Spec

-----------------------------------------------------------------------------
(***************************************************************************)
(* What follows from it                                                    *)
(***************************************************************************)

\* Both queues hold events only.
LEMMA CalendarTyped ==
    ASSUME NEW t \in Int, NEW cur \in Seq(Events), NEW nxt \in Seq(Events),
           m_events = TwoQueues(t, cur, nxt)
    PROVE  \A s \in DOMAIN m_events : m_events[s] \in Seq(Events)
BY DEF TwoQueues

\* What the calendar holds is in one of the two queues.
LEMMA CalendarEvents ==
    ASSUME NEW t \in Int, NEW cur, NEW nxt, m_events = TwoQueues(t, cur, nxt),
           NEW e \in EventsOf(m_events)
    PROVE  \/ \E i \in 1..Len(cur) : e = cur[i]
           \/ \E i \in 1..Len(nxt) : e = nxt[i]
<1>1. PICK s \in DOMAIN m_events : \E i \in 1..Len(m_events[s]) : e = m_events[s][i]
  BY DEF EventsOf
<1>2. m_events[s] = cur \/ m_events[s] = nxt
  BY DEF TwoQueues
<1> QED
  BY <1>1, <1>2

\* The calendar is well typed in every shape.
LEMMA IInvTypes == IInv => TypeOK
<1> SUFFICES ASSUME IInv PROVE TypeOK
  OBVIOUS
<1>1. Typed /\ Shape /\ T \in Nat /\ T \in Int /\ <<>> \in Seq(Events)
  BY MaxTTIAssumption DEF IInv, Typed, T
<1>2. \A s \in DOMAIN m_events : m_events[s] \in Seq(Events)
  <2>1. ASSUME NEW b \in Seq(Bursts(T)), NEW kind \in ClockCalls, Clock(b, kind)
        PROVE  \A s \in DOMAIN m_events : m_events[s] \in Seq(Events)
    BY <1>1, <2>1, ClockQueue, CalendarTyped DEF Clock
  <2>2. ASSUME NEW b \in Seq(Bursts(T)), Stopping(b)
        PROVE  \A s \in DOMAIN m_events : m_events[s] \in Seq(Events)
    BY <1>1, <2>2, StopQueue, CalendarTyped DEF Stopping
  <2>3. ASSUME NEW k \in 0..(Len(GNBs) - 1), NEW b \in Seq(Bursts(T)), Allocating(k, b)
        PROVE  \A s \in DOMAIN m_events : m_events[s] \in Seq(Events)
    <3>1. T # 0 /\ m_nbSubframes \in 1..10 /\ AllocationCall(m_nbSubframes) # None
      BY <2>3 DEF Allocating, InSubframe
    <3>2. Calls(k, T - 1, m_nbSubframes) \in Seq(Events)
      BY <1>1, <3>1, CallsQueue
    <3>3. <<At(T, "StopSubframe")>> \o b \in Seq(Events)
      BY <1>1, StopQueue
    <3>4. PICK t \in Int : t = T - 1
      BY <1>1
    <3> QED
      BY <2>3, <3>2, <3>3, <3>4, CalendarTyped DEF Allocating
  <2> QED
    BY <1>1, <2>1, <2>2, <2>3 DEF Shape
<1> QED
  BY <1>1, <1>2 DEF Typed, TypeOK

\* When an event of the clock is next, or a burst.
LEMMA ClockMeaning ==
    ASSUME Typed, NEW b \in Seq(Bursts(T)), NEW kind \in ClockCalls, Clock(b, kind)
    PROVE  ReceptionBeforeAllocation /\ CountersAgree /\ EveryCellEveryTTI
<1>1. CASE b # <<>>
  <2>1. GetEvent(m_events) \in Bursts(T)
    BY <1>1, BurstNext
  <2>2. /\ GetEvent(m_events).kind = "StartRx"
        /\ GetEvent(m_events).ts = T
        /\ GetEvent(m_events).tti = T
    BY <2>1 DEF Bursts
  <2>3. InSubframe
    BY <1>1 DEF Clock, ClockPhase
  <2> QED
    BY <2>2, <2>3 DEF ReceptionBeforeAllocation, CountersAgree, EveryCellEveryTTI, NextIs,
        AllocationCalls, InSubframe, Now, T
<1>2. CASE b = <<>>
  <2>1. GetEvent(m_events).kind = kind
    BY <1>2, ClockNext DEF At
  <2>2. kind \in {"Start", "StartFrame", "StopFrame", "StartSubframe"}
    BY DEF Clock, ClockPhase
  <2> QED
    BY <2>1, <2>2 DEF ReceptionBeforeAllocation, CountersAgree, EveryCellEveryTTI, NextIs,
        AllocationCalls
<1> QED
  BY <1>1, <1>2

\* When the end of a subframe is next.
LEMMA StopMeaning ==
    ASSUME Typed, NEW b \in Seq(Bursts(T)), Stopping(b)
    PROVE  ReceptionBeforeAllocation /\ CountersAgree /\ EveryCellEveryTTI
<1>1. GetEvent(m_events).kind = "StopSubframe" /\ GetEvent(m_events).ts = T
  BY StopNext DEF At
<1>2. ReceptionBeforeAllocation
  BY <1>1 DEF ReceptionBeforeAllocation, NextIs, AllocationCalls
<1>3. CountersAgree
  BY <1>1 DEF CountersAgree, NextIs, AllocationCalls, Now, T, Stopping, InSubframe
<1>4. EveryCellEveryTTI
  <2>1. \A g \in Cells : \E i \in 1..Len(GNBs) : GNBs[i] = g
    BY CellsAssumption DEF Cells
  <2>2. \A i \in 1..Len(GNBs), d \in {DL, UL} :
            allocations[GNBs[i]][d] = Cardinality(Opportunities(d, T))
    BY CellsAssumption DEF Stopping, CalledFor
  <2> QED
    BY <2>1, <2>2 DEF EveryCellEveryTTI, T
<1> QED
  BY <1>2, <1>3, <1>4

\* When the call of a gNB is next.
LEMMA CallMeaning ==
    ASSUME Typed, NEW k \in 0..(Len(GNBs) - 1), NEW b \in Seq(Bursts(T)), Allocating(k, b)
    PROVE  ReceptionBeforeAllocation /\ CountersAgree /\ EveryCellEveryTTI
<1>1. /\ GetEvent(m_events).kind = AllocationCall(m_nbSubframes)
      /\ GetEvent(m_events).ts = T - 1
  BY CallNext DEF AllocationAt
<1>2. AllocationCall(m_nbSubframes) \in AllocationCalls
  BY DEF Allocating, AllocationCall, AllocationCalls, None
<1>3. ASSUME NEW e \in EventsOf(m_events), e.kind = "StartRx"
      PROVE  e.tti = T
  <2>1. PICK cur : cur = Calls(k, T - 1, m_nbSubframes)
    OBVIOUS
  <2>2. PICK nxt : nxt = <<At(T, "StopSubframe")>> \o b
    OBVIOUS
  <2>3. PICK t \in Int : t = T - 1
    BY DEF Typed, T
  <2>4. \/ \E i \in 1..Len(cur) : e = cur[i]
        \/ \E i \in 1..Len(nxt) : e = nxt[i]
    <3>1. m_events = TwoQueues(t, cur, nxt)
      BY <2>1, <2>2, <2>3 DEF Allocating
    <3> QED
      BY <3>1, CalendarEvents
  <2>5. \A i \in 1..Len(cur) : cur[i].kind # "StartRx"
    BY <1>2, <2>1, CellsAssumption DEF Calls, AllocationAt, AllocationCalls
  <2>6. PICK i \in 1..Len(nxt) : e = nxt[i]
    BY <1>3, <2>4, <2>5
  <2>7. i # 1
    BY <1>3, <2>2, <2>6 DEF At
  <2>8. e \in Bursts(T)
    BY <2>2, <2>6, <2>7
  <2> QED
    BY <2>8 DEF Bursts
<1>4. ReceptionBeforeAllocation
  BY <1>3 DEF ReceptionBeforeAllocation, BurstsInTheAir, T
<1>5. CountersAgree
  BY <1>1, <1>2 DEF CountersAgree, NextIs, AllocationCalls, Now, T, Allocating, InSubframe
<1>6. EveryCellEveryTTI
  BY <1>1, <1>2 DEF EveryCellEveryTTI, NextIs, AllocationCalls
<1> QED
  BY <1>4, <1>5, <1>6

\* In every shape.
LEMMA IInvMeaning == IInv => ReceptionBeforeAllocation /\ CountersAgree /\ EveryCellEveryTTI
BY ClockMeaning, StopMeaning, CallMeaning DEF IInv, Shape

\* Receptions, counters and time keep in step: when a gNB is called everything sent
\* before was received (StopSubframe puts StartSubframe behind the bursts), and what
\* StartFrame, StartSubframe and StopSubframe count is the TTI and the time, for any
\* number of gNBs and of TTIs.
THEOREM FrameTtisInStep == Spec => []TtisInStep
<1>1. IInv => TtisInStep
  BY IInvTypes, IInvMeaning DEF TtisInStep
<1> QED
  BY <1>1, IInvariant, PTL

\* ResourceAllocation calls every gNB of the containers exactly once for every subframe
\* and direction of the frame structure, and for no other.
THEOREM FrameCallsEveryCell == Spec => []EveryCellEveryTTI
<1>1. IInv => EveryCellEveryTTI
  BY IInvMeaning
<1> QED
  BY <1>1, IInvariant, PTL
=============================================================================
