------------------------------ MODULE Simulator ------------------------------
(***************************************************************************)
(* The discrete-event loop (core/eventScheduler/simulator.cpp).  One       *)
(* thread: Run takes the first event of the calendar, runs its handler and *)
(* then removes it.  The event stays in the calendar while its handler     *)
(* runs, and RemoveEvent removes whatever is first by then: the loop is    *)
(* correct only as long as no handler puts an event in front of itself.    *)
(*                                                                         *)
(* A handler is any sequence of the calls a handler makes to the           *)
(* scheduler: DoSchedule, MarkDeleted of an event it holds, Stop.          *)
(***************************************************************************)
EXTENDS EventCalendar, FiniteSets

CONSTANTS
    Delays,   \* the delays passed to Schedule, in half milliseconds
    MaxUid    \* bound of the model: how many events are ever scheduled

ASSUME DelaysAssumption == Delays \subseteq Nat
ASSUME MaxUidAssumption == MaxUid \in Nat

VARIABLES
    m_events,           \* the calendar
    deleted,            \* uids of the events whose m_deleted is set
    m_currentTs,        \* Now(), in milliseconds
    m_currentUid,
    m_lastAssignedUid,  \* the uid the next event gets
    m_unscheduledEvents,
    m_stop,
    pc  \* "setup": the scenario is being built; "loop": Run tests its
        \* condition; "handler": RunEvent; "skip": the event was deleted;
        \* "done": Run has returned

vars == <<m_events, deleted, m_currentTs, m_currentUid, m_lastAssignedUid,
          m_unscheduledEvents, m_stop, pc>>

\* Simulator::Simulator; m_currentUid is 0 although nothing has run.
Init ==
    /\ m_events = EmptyCalendar
    /\ deleted = {}
    /\ m_currentTs = 0
    /\ m_currentUid = 0
    /\ m_lastAssignedUid = 0
    /\ m_unscheduledEvents = 0
    /\ m_stop = FALSE
    /\ pc = "setup"

-----------------------------------------------------------------------------
(***************************************************************************)
(* Operations                                                              *)
(***************************************************************************)

\* round((time + Now()) * 1000).  A delay half-way between two milliseconds
\* goes to either: time and Now() are doubles.
TimeStamps(now, d) == {now + d \div 2, now + (d + 1) \div 2}

DoSchedule(d) ==
    /\ m_lastAssignedUid < MaxUid
    /\ \E ts \in TimeStamps(m_currentTs, d) :
        m_events' = InsertEvent(m_events, [ts |-> ts, uid |-> m_lastAssignedUid])
    /\ m_lastAssignedUid' = m_lastAssignedUid + 1
    /\ m_unscheduledEvents' = m_unscheduledEvents + 1

\* main() builds the scenario: constructors and SetStop schedule events.
SetupSchedule(d) ==
    /\ pc = "setup"
    /\ DoSchedule(d)
    /\ UNCHANGED <<deleted, m_currentTs, m_currentUid, m_stop, pc>>

\* main() calls Run.
Run ==
    /\ pc = "setup"
    /\ pc' = "loop"
    /\ UNCHANGED <<m_events, deleted, m_currentTs, m_currentUid,
                   m_lastAssignedUid, m_unscheduledEvents, m_stop>>

\* Run's condition holds, and ProcessOneEvent up to the call of RunEvent.
ProcessOneEvent ==
    /\ pc = "loop"
    /\ ~IsEmpty(m_events)
    /\ ~m_stop
    /\ LET next == GetEvent(m_events) IN
        /\ m_currentTs' = next.ts
        /\ m_currentUid' = next.uid
        /\ pc' = IF next.uid \in deleted THEN "skip" ELSE "handler"
    /\ m_unscheduledEvents' = m_unscheduledEvents - 1
    /\ UNCHANGED <<m_events, deleted, m_lastAssignedUid, m_stop>>

HandlerSchedules(d) ==
    /\ pc = "handler"
    /\ DoSchedule(d)
    /\ UNCHANGED <<deleted, m_currentTs, m_currentUid, m_stop, pc>>

\* A handler cancels an event it kept a pointer to (the reservation events
\* of a random access manager, the activity timer of a UE): one that waits,
\* one that has long run, or the running one itself.
MarkDeleted(u) ==
    /\ pc = "handler"
    /\ deleted' = deleted \cup {u}
    /\ UNCHANGED <<m_events, m_currentTs, m_currentUid, m_lastAssignedUid,
                   m_unscheduledEvents, m_stop, pc>>

Stop ==
    /\ pc = "handler"
    /\ m_stop' = TRUE
    /\ UNCHANGED <<m_events, deleted, m_currentTs, m_currentUid,
                   m_lastAssignedUid, m_unscheduledEvents, pc>>

\* RunEvent has returned, or was not called; the end of ProcessOneEvent.
FinishEvent ==
    /\ pc \in {"handler", "skip"}
    /\ m_events' = RemoveEvent(m_events)
    /\ pc' = "loop"
    /\ UNCHANGED <<deleted, m_currentTs, m_currentUid, m_lastAssignedUid,
                   m_unscheduledEvents, m_stop>>

\* Run returns.
Return ==
    /\ pc = "loop"
    /\ IsEmpty(m_events) \/ m_stop
    /\ pc' = "done"
    /\ UNCHANGED <<m_events, deleted, m_currentTs, m_currentUid,
                   m_lastAssignedUid, m_unscheduledEvents, m_stop>>

Next ==
    \/ \E d \in Delays : SetupSchedule(d) \/ HandlerSchedules(d)
    \/ \E u \in 0..(m_lastAssignedUid - 1) : MarkDeleted(u)
    \/ Run \/ ProcessOneEvent \/ Stop \/ FinishEvent \/ Return

Spec == Init /\ [][Next]_vars

\* The loop is ordinary sequential code that keeps running, and a handler
\* returns; how often a handler schedules is up to the handler.
Fairness ==
    /\ WF_vars(Run)
    /\ WF_vars(ProcessOneEvent)
    /\ WF_vars(FinishEvent)
    /\ WF_vars(Return)

FairSpec == Spec /\ Fairness

-----------------------------------------------------------------------------
(***************************************************************************)
(* Properties                                                              *)
(***************************************************************************)

Running == pc \in {"handler", "skip"}

\* How many events ProcessOneEvent has taken so far.
Served == m_lastAssignedUid - m_unscheduledEvents

EventType == [ts : Nat, uid : Nat]

\* The shape of the state; the map never holds an empty queue (GetEvent
\* would call front() on it).
TypeOK ==
    /\ DOMAIN m_events \subseteq Nat
    /\ \A t \in DOMAIN m_events : m_events[t] \in Seq(EventType) \ {<<>>}
    /\ deleted \subseteq Nat
    /\ m_currentTs \in Nat
    /\ m_currentUid \in Nat
    /\ m_lastAssignedUid \in Nat
    /\ m_unscheduledEvents \in Int
    /\ m_stop \in BOOLEAN
    /\ pc \in {"setup", "loop", "handler", "skip", "done"}

\* Every event is filed under its own time stamp, and the queue of a
\* millisecond is in the order in which its events were scheduled.
Filed ==
    \A t \in DOMAIN m_events :
        /\ \A i \in 1..Len(m_events[t]) :
            /\ m_events[t][i].ts = t
            /\ m_events[t][i].uid < m_lastAssignedUid
        /\ \A i, j \in 1..Len(m_events[t]) :
            i < j => m_events[t][i].uid < m_events[t][j].uid

\* Nothing is ever filed in the past, whatever the handlers schedule.
NotInThePast == \A t \in DOMAIN m_events : m_currentTs <= t

\* From the moment ProcessOneEvent reads the first event to the moment it
\* calls RemoveEvent, the first event is the one that runs: RemoveEvent
\* removes the event that was served and no other, even when the handler
\* schedules events for the current millisecond or rounds a delay to it.
RunningEventIsFirst ==
    Running => /\ ~IsEmpty(m_events)
               /\ GetEvent(m_events) = [ts |-> m_currentTs, uid |-> m_currentUid]

\* Handlers run in the order of event_compare: a step that starts an event
\* starts one with a later time stamp than the event before it, or one
\* scheduled after it for the same millisecond.  No event runs twice.
\* (Before the first event there is none to compare with.)
DispatchOrder ==
    [][ProcessOneEvent =>
        \/ m_currentTs < m_currentTs'
        \/ m_currentTs = m_currentTs' /\ m_currentUid < m_currentUid'
        \/ Served = 0]_vars

\* What makes DispatchOrder inductive: the events still to be served come
\* after the one served last.
NothingOvertakes ==
    /\ Served >= 0
    /\ Running => Served > 0
    /\ Served > 0 =>
        /\ m_currentUid < m_lastAssignedUid
        /\ \A t \in DOMAIN m_events : t = m_currentTs =>
            \A i \in 1..Len(m_events[t]) :
                (i = 1 /\ Running) \/ m_currentUid < m_events[t][i].uid

\* Every non-empty subset of D has a least element.
WellOrdered(D) == \A S \in SUBSET D : S # {} => \E t \in S : \A s \in S : t <= s

\* The keys of the map, being finitely many, can be searched for a least one.
KeysWellOrdered == WellOrdered(DOMAIN m_events)

IInv ==
    /\ TypeOK
    /\ KeysWellOrdered
    /\ Filed
    /\ NotInThePast
    /\ RunningEventIsFirst
    /\ NothingOvertakes

\* The event that runs, when one does.
RunningEvent == [ts |-> m_currentTs, uid |-> m_currentUid]

\* The events of a calendar that are served before its event e.
AheadOf(cal, e) ==
    {f \in EventsOf(cal) :
        \/ f.ts < e.ts
        \/ \E i, j \in 1..Len(cal[e.ts]) : i < j /\ cal[e.ts][i] = f /\ cal[e.ts][j] = e}

\* Whatever a handler does, only an event of an earlier millisecond gets in front
\* of one that waits; and an event leaves the calendar when it has run, and then
\* only.  So an event whose millisecond has come is served after as many others
\* as are ahead of it by then, however many the handlers of its millisecond go on
\* to schedule.  (One whose millisecond has not come waits for as long as
\* handlers schedule earlier ones.)
NeverPushedBack ==
    \A e \in EventsOf(m_events) :
        /\ e \in EventsOf(m_events') <=> ~(FinishEvent /\ e = RunningEvent)
        /\ e \in EventsOf(m_events') =>
            \A f \in AheadOf(m_events', e) \ AheadOf(m_events, e) : f.ts < e.ts

\* The events of a millisecond are served in turn: none is pushed back or lost,
\* and each one that waits when its millisecond has come is started (or passed
\* over because it was deleted) unless a handler stops the simulation first.
\* Nothing is said of later milliseconds: a chain of events without delay keeps
\* the clock from ever getting there.
ServedInTurn ==
    /\ [][NeverPushedBack]_vars
    /\ \A u \in 0..(MaxUid - 1) :
        [ts |-> m_currentTs, uid |-> u] \in EventsOf(m_events)
            ~> (Running /\ m_currentUid = u) \/ m_stop

-----------------------------------------------------------------------------
(***************************************************************************)
(* The loop implements EventOrder.  The event that runs is no longer       *)
(* pending although it is still in the calendar, and m_currentUid is 0     *)
(* before any event was served.                                            *)
(***************************************************************************)

Order == INSTANCE EventOrder WITH
    pending <- {e \in EventsOf(m_events) : ~(Running /\ e = GetEvent(m_events))},
    withdrawn <- deleted,
    current <- [ts |-> m_currentTs,
                uid |-> IF Served = 0 THEN -1 ELSE m_currentUid],
    clock <- m_currentTs,
    nextUid <- m_lastAssignedUid,
    halted <- m_stop,
    mode <- pc

\* The map of queues serves events exactly as the order of event_compare
\* prescribes.
ImplementsOrder == Order!Spec
=============================================================================
