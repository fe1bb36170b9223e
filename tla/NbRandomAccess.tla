---------------------------- MODULE NbRandomAccess ----------------------------
(***************************************************************************)
(* The random access of NB-IoT (ue-nb-iot-random-access.cpp and            *)
(* enb-nb-iot-random-access.cpp): coverage enhancement (CE) classes with   *)
(* opportunities of their own, preambles that last several subframes, and  *)
(* attempts that no timeout watches: the gNB itself schedules the next     *)
(* attempt of a UE whose preamble collided.                                *)
(*                                                                         *)
(* Messages, calendar and frame clock are as in RandomAccess.  What other  *)
(* parts of a gNB and of a UE do in these events is left to NbIot.         *)
(***************************************************************************)
EXTENDS EventCalendar, FiniteSets, FiniteSetsExt, SequencesExt

CONSTANTS
    UEs, Classes,
    m_subcarriers,       \* preambles of each class
    m_resPeriodicity, m_rarWindow,                \* of each class
    Scenarios,           \* m_timeOffset of each class with CEClassStatic of each UE
    PreambleDuration,    \* of each class: ceil(5.6 * m_preambleRep)
    Waits,               \* of each class: what a UE may wait after a collision
    m_maxPreambleTx,     \* of each class
    m_maxFailedAttempts,
    m_activityTimeout,
    MaxPackets,          \* bound of the model: packets of each UE
    MaxTTI               \* bound of the model: the simulation stops in this TTI

UESet == ToSet(UEs)

\* A UE whose preamble collided waits for longer than it takes until an answer
\* would have come.  Nothing in the code keeps an offset between 1 and the period,
\* as it is here.  With an offset of 0 SetRachReservedSubChannels schedules itself
\* in the past, and RemoveEvent then removes the new event in the place of the
\* running one; with an offset behind the first period UEs send preambles before
\* the first opportunity of their class, in those of other classes.
ASSUME NbRandomAccessAssumption ==
    /\ Classes = 0..(Cardinality(Classes) - 1) /\ Classes # {}
    /\ \A c \in Classes :
        /\ {m_subcarriers[c], m_resPeriodicity[c], m_rarWindow[c], m_maxPreambleTx[c]}
                \subseteq Nat \ {0}
        /\ PreambleDuration[c] \in Nat /\ PreambleDuration[c] > 1
        /\ Waits[c] # {} /\ \A w \in Waits[c] : w >= PreambleDuration[c]
    /\ Scenarios # {}
    /\ Scenarios \subseteq [m_timeOffset : [Classes -> Nat \ {0}],
                            CEClassStatic : [UESet -> Classes]]
    /\ \A s \in Scenarios, c \in Classes : s.m_timeOffset[c] <= m_resPeriodicity[c]
    /\ {m_maxFailedAttempts, m_activityTimeout} \subseteq Nat \ {0}
    /\ {MaxPackets, MaxTTI} \subseteq Nat

VARIABLES
    m_events,                \* the calendar
    m_currentTs,             \* Now(), in milliseconds
    m_TTICounter,            \* of the FrameManager
    scenario,                \* the one that runs
    m_RAOindex,              \* gNB: opportunities written down, of each class
    m_tonesReservedForRach,  \* gNB: TTIs of the opportunities of each class
    m_savedRachSessions,     \* gNB: the messages 1 received, by TTI
    m_state,                 \* of every UE: "IDLE" or "ACTIVE"
    m_RaProcedureActive,     \* of every UE
    m_nbFailedAttempts, m_nbFailedAttemptsCE, m_CEClassDynamic, \* of every UE
    packets                  \* of every UE: packets so far

clock == <<m_events, m_currentTs, m_TTICounter>>
rach == <<scenario, m_RAOindex, m_tonesReservedForRach>>
attempts == <<m_nbFailedAttempts, m_nbFailedAttemptsCE, m_CEClassDynamic>>
raVars == <<clock, rach, m_savedRachSessions, m_state, m_RaProcedureActive, attempts, packets>>

-----------------------------------------------------------------------------
\* TTI of the first opportunity of each class, as the scenario sets it.
m_timeOffset == scenario.m_timeOffset

\* The class each UE is in by its place in the cell, drawn by the scenario.
CEClassStatic == scenario.CEClassStatic

At(ts, kind) == [ts |-> ts, kind |-> kind]
UeAt(ts, kind, ue) == [ts |-> ts, kind |-> kind, ue |-> ue]

UeKinds == {"StartRaProcedure", "ReStartRaProcedure", "SendMessage1",
            "SendMessage3", "SendMessage4", "SetNodeState"}

Now == GetEvent(m_events).ts
NextIs(kind) == ~IsEmpty(m_events) /\ GetEvent(m_events).kind = kind
Serve(kind) == NextIs(kind) /\ m_currentTs' = Now
TheUE == GetEvent(m_events).ue

Schedule(cal, es) == FoldLeft(InsertEvent, cal, es)

\* The handler scheduled es and the loop removes its event.
Done(es) == m_events' = RemoveEvent(Schedule(m_events, es))

\* A calendar without the idle timer of the UE.
WithoutIdleTimer(cal, ue) ==
    LET rest == [t \in DOMAIN cal |->
                    SelectSeq(cal[t], LAMBDA e : ~(e.kind = "SetNodeState" /\ e.ue = ue))]
    IN  [t \in {s \in DOMAIN rest : rest[s] # <<>>} |-> rest[t]]

SetLastActivity(cal, now, ue) ==
    InsertEvent(WithoutIdleTimer(cal, ue), UeAt(now + m_activityTimeout, "SetNodeState", ue))

RaInit ==
    /\ m_events = Schedule(EmptyCalendar,
            <<At(0, "SetRachReservedSubChannels"), At(0, "CheckCollisions"),
              At(0, "StartSubframe")>>)
    /\ m_currentTs = 0
    /\ m_TTICounter = 0
    /\ scenario \in Scenarios
    /\ m_RAOindex = [c \in Classes |-> 0]
    /\ m_tonesReservedForRach = [c \in Classes |-> {}]
    /\ m_savedRachSessions = [t \in {} |-> <<>>]
    /\ m_state = [u \in UESet |-> "IDLE"]
    /\ m_RaProcedureActive = [u \in UESet |-> FALSE]
    /\ m_nbFailedAttempts = [u \in UESet |-> 0]
    /\ m_nbFailedAttemptsCE = [u \in UESet |-> 0]
    /\ m_CEClassDynamic = [u \in UESet |-> CEClassStatic[u]]
    /\ packets = [u \in UESet |-> 0]

-----------------------------------------------------------------------------
(***************************************************************************)
(* The UE                                                                  *)
(***************************************************************************)

\* The gNB keeps the RACH clear in this TTI, for whatever class.
isRachOpportunity == \E c \in Classes : m_TTICounter \in m_tonesReservedForRach[c]

SessionAt(t) ==
    IF t \in DOMAIN m_savedRachSessions THEN m_savedRachSessions[t] ELSE <<>>

\* TTIs until the next multiple of the period of class c.
UntilNext(c) ==
    IF m_TTICounter < m_timeOffset[c] THEN m_timeOffset[c] - m_TTICounter
    ELSE m_resPeriodicity[c] - ((m_TTICounter - m_timeOffset[c]) % m_resPeriodicity[c])

\* Mutant: the opportunity of another class is taken.
AtOpportunity_Any(c) == isRachOpportunity

AtOpportunity(c) ==
    isRachOpportunity /\ (m_TTICounter - m_timeOffset[c]) % m_resPeriodicity[c] = 0

\* SendMessage1: the preamble reaches the gNB at once (ReceiveMessage1), or the
\* UE waits for the next opportunity of its class.
SendMessage1(ue) ==
    LET c == m_CEClassDynamic[ue]
    IN  IF AtOpportunity(c)
        THEN /\ \E p \in 1..m_subcarriers[c] :
                m_savedRachSessions' =
                    [t \in DOMAIN m_savedRachSessions \cup {m_TTICounter} |->
                        IF t = m_TTICounter
                        THEN Append(SessionAt(t), [ue |-> ue, class |-> c, preamble |-> p])
                        ELSE m_savedRachSessions[t]]
             /\ Done(<<>>)
        ELSE /\ Done(<<UeAt(Now + UntilNext(c), "SendMessage1", ue)>>)
             /\ UNCHANGED m_savedRachSessions

SendMessage1Again ==
    /\ Serve("SendMessage1")
    /\ SendMessage1(TheUE)
    /\ UNCHANGED <<m_TTICounter, rach, m_state, m_RaProcedureActive, attempts, packets>>

StartRaProcedure ==
    /\ Serve("StartRaProcedure")
    /\ \/ /\ m_state[TheUE] = "ACTIVE"
          /\ m_events' = RemoveEvent(SetLastActivity(m_events, Now, TheUE))
          /\ UNCHANGED <<m_savedRachSessions, m_RaProcedureActive>>
       \/ /\ m_state[TheUE] # "ACTIVE" /\ m_RaProcedureActive[TheUE]
          /\ Done(<<>>)
          /\ UNCHANGED <<m_savedRachSessions, m_RaProcedureActive>>
       \/ /\ m_state[TheUE] # "ACTIVE" /\ ~m_RaProcedureActive[TheUE]
          /\ m_RaProcedureActive' = [m_RaProcedureActive EXCEPT ![TheUE] = TRUE]
          /\ SendMessage1(TheUE)
    /\ UNCHANGED <<m_TTICounter, rach, m_state, attempts, packets>>

\* Mutant: there is always a next class.
NextClass_Always(ue) ==
    IF m_nbFailedAttemptsCE[ue] + 1 >= m_maxPreambleTx[m_CEClassDynamic[ue]]
    THEN m_CEClassDynamic[ue] + 1 ELSE m_CEClassDynamic[ue]

\* The UE goes up a class after it has failed often enough in its own.
NextClass(ue) ==
    IF m_nbFailedAttemptsCE[ue] + 1 >= m_maxPreambleTx[m_CEClassDynamic[ue]]
       /\ m_CEClassDynamic[ue] + 1 < Cardinality(Classes)
    THEN m_CEClassDynamic[ue] + 1 ELSE m_CEClassDynamic[ue]

\* The preamble collided: the UE starts again, or gives up.
ReStartRaProcedure ==
    /\ Serve("ReStartRaProcedure")
    /\ LET ue == TheUE
           c == m_CEClassDynamic[ue]
       IN  IF ~m_RaProcedureActive[ue]
           THEN /\ Done(<<>>)
                /\ UNCHANGED <<m_RaProcedureActive, attempts>>
           ELSE /\ m_RaProcedureActive' = [m_RaProcedureActive EXCEPT ![ue] = FALSE]
                /\ \/ /\ m_nbFailedAttempts[ue] + 1 < m_maxFailedAttempts
                      /\ m_nbFailedAttempts' = [m_nbFailedAttempts EXCEPT ![ue] = @ + 1]
                      /\ m_CEClassDynamic' = [m_CEClassDynamic EXCEPT ![ue] = NextClass(ue)]
                      /\ m_nbFailedAttemptsCE' = [m_nbFailedAttemptsCE EXCEPT
                            ![ue] = IF NextClass(ue) = c THEN @ + 1 ELSE 0]
                      /\ Done(<<UeAt(Now, "StartRaProcedure", ue)>>)
                   \/ /\ m_nbFailedAttempts[ue] + 1 >= m_maxFailedAttempts
                      /\ m_nbFailedAttempts' = [m_nbFailedAttempts EXCEPT ![ue] = 0]
                      /\ m_nbFailedAttemptsCE' = [m_nbFailedAttemptsCE EXCEPT ![ue] = 0]
                      /\ m_CEClassDynamic' = [m_CEClassDynamic EXCEPT ![ue] = CEClassStatic[ue]]
                      /\ Done(<<>>)
    /\ UNCHANGED <<m_TTICounter, rach, m_savedRachSessions, m_state, packets>>

\* Message 3 is received at once; the gNB answers a millisecond later.
SendMessage3 ==
    /\ Serve("SendMessage3")
    /\ Done(<<UeAt(Now + 1, "SendMessage4", TheUE)>>)
    /\ UNCHANGED <<m_TTICounter, rach, m_savedRachSessions, m_state, m_RaProcedureActive,
                   attempts, packets>>

\* Message 4 reaches the UE at once (ReceiveMessage4): MakeActive, and
\* SendSchedulingRequest, which restarts the idle timer.
SendMessage4 ==
    /\ Serve("SendMessage4")
    /\ m_state' = [m_state EXCEPT ![TheUE] = "ACTIVE"]
    /\ m_RaProcedureActive' = [m_RaProcedureActive EXCEPT ![TheUE] = FALSE]
    /\ m_nbFailedAttempts' = [m_nbFailedAttempts EXCEPT ![TheUE] = 0]
    /\ m_nbFailedAttemptsCE' = [m_nbFailedAttemptsCE EXCEPT ![TheUE] = 0]
    /\ m_CEClassDynamic' = [m_CEClassDynamic EXCEPT ![TheUE] = CEClassStatic[TheUE]]
    /\ m_events' = RemoveEvent(SetLastActivity(m_events, Now, TheUE))
    /\ UNCHANGED <<m_TTICounter, rach, m_savedRachSessions, packets>>

\* The idle timer.
SetNodeState ==
    /\ Serve("SetNodeState")
    /\ m_state' = [m_state EXCEPT ![TheUE] = "IDLE"]
    /\ Done(<<>>)
    /\ UNCHANGED <<m_TTICounter, rach, m_savedRachSessions, m_RaProcedureActive, attempts,
                   packets>>

-----------------------------------------------------------------------------
(***************************************************************************)
(* The gNB                                                                 *)
(***************************************************************************)

\* The TTI in which the next opportunity of class c begins.
NextRao(c) == m_RAOindex[c] * m_resPeriodicity[c] + m_timeOffset[c]

NextStartTime == Min({NextRao(c) : c \in Classes})

\* The classes whose opportunity begins in the next TTI.
Begins == {c \in Classes : NextRao(c) = m_TTICounter + 1}

\* Opportunities are written down one TTI before they begin; then the gNB looks
\* again at once, for what comes after them.
SetRachReservedSubChannels ==
    /\ Serve("SetRachReservedSubChannels")
    /\ IF m_TTICounter < NextStartTime - 1
       THEN UNCHANGED rach
       ELSE /\ m_tonesReservedForRach' = [c \in Classes |->
                IF c \in Begins
                THEN m_tonesReservedForRach[c]
                     \cup (m_TTICounter + 1)..(m_TTICounter + PreambleDuration[c] - 1)
                ELSE m_tonesReservedForRach[c]]
            /\ m_RAOindex' = [c \in Classes |->
                IF c \in Begins THEN m_RAOindex[c] + 1 ELSE m_RAOindex[c]]
            /\ UNCHANGED scenario
    /\ Done(<<At(Now + NextStartTime - m_TTICounter - 1, "SetRachReservedSubChannels")>>)
    /\ UNCHANGED <<m_TTICounter, m_savedRachSessions, m_state, m_RaProcedureActive, attempts,
                   packets>>

Collides(session, k) ==
    \E i \in DOMAIN session : session[i].class = k.class
                              /\ session[i].preamble = k.preamble /\ session[i].ue # k.ue

\* The messages of a session in the order of the events they lead to: those
\* that collided, then the others, each by class.
InOrder(session) ==
    LET of(c) == SelectSeq(session, LAMBDA k : k.class = c)
        byClass == FlattenSeq([c \in 1..Cardinality(Classes) |-> of(c - 1)])
    IN  SelectSeq(byClass, LAMBDA k : Collides(session, k))
        \o SelectSeq(byClass, LAMBDA k : ~Collides(session, k))

\* What a message leads to: a UE that collided starts again after a wait, the
\* others are told when to send message 3 (SendMessage2, ReceiveMessage2).
Answer(session, k) ==
    IF Collides(session, k)
    THEN {UeAt(Now + w, "ReStartRaProcedure", k.ue) : w \in Waits[k.class]}
    ELSE {UeAt(Now + PreambleDuration[k.class] + r, "SendMessage3", k.ue) :
            r \in 0..(m_rarWindow[k.class] - 1)}

Answers(session) ==
    LET s == InOrder(session)
    IN  {es \in [DOMAIN s -> UNION {Answer(session, s[i]) : i \in DOMAIN s}] :
            \A i \in DOMAIN s : es[i] \in Answer(session, s[i])}

\* Mutant: the session that is answered is kept.
AfterCheck_Keeps(t) == m_savedRachSessions

AfterCheck(t) == [s \in DOMAIN m_savedRachSessions \ {t} |-> m_savedRachSessions[s]]

\* Mutant: the next check is due when the opportunity begins.
NextCheck_Early == At(Now + NextStartTime - m_TTICounter, "CheckCollisions")

\* The next check is due one TTI after the next opportunity that is not yet
\* written down has begun.
NextCheck == At(Now + NextStartTime - m_TTICounter + 1, "CheckCollisions")

\* A check answers the oldest session, and no other.
CheckCollisions ==
    /\ Serve("CheckCollisions")
    /\ IF DOMAIN m_savedRachSessions = {}
       THEN Done(<<NextCheck>>) /\ UNCHANGED m_savedRachSessions
       ELSE LET t == Min(DOMAIN m_savedRachSessions)
            IN  /\ m_savedRachSessions' = AfterCheck(t)
                /\ \E es \in Answers(m_savedRachSessions[t]) : Done(Append(es, NextCheck))
    /\ UNCHANGED <<m_TTICounter, rach, m_state, m_RaProcedureActive, attempts, packets>>

-----------------------------------------------------------------------------
(***************************************************************************)
(* The frame clock (FrameManager) and the applications                     *)
(***************************************************************************)

StartSubframe ==
    /\ Serve("StartSubframe")
    /\ m_TTICounter < MaxTTI
    /\ m_TTICounter' = m_TTICounter + 1
    /\ Done(<<At(Now, "ResourceBlocksAllocation"), At(Now + 1, "StopSubframe")>>)
    /\ UNCHANGED <<rach, m_savedRachSessions, m_state, m_RaProcedureActive, attempts, packets>>

StopSubframe ==
    /\ Serve("StopSubframe")
    /\ Done(<<At(Now, "StartSubframe")>>)
    /\ UNCHANGED <<m_TTICounter, rach, m_savedRachSessions, m_state, m_RaProcedureActive,
                   attempts, packets>>

\* The scheduler is called; the UEs it tells to report restart their idle timer.
ResourceBlocksAllocation(asked) ==
    /\ Serve("ResourceBlocksAllocation")
    /\ m_events' = RemoveEvent(FoldLeft(LAMBDA cal, u : SetLastActivity(cal, Now, u),
                                        m_events, SelectSeq(UEs, LAMBDA u : u \in asked)))
    /\ UNCHANGED <<m_TTICounter, rach, m_savedRachSessions, m_state, m_RaProcedureActive,
                   attempts, packets>>

\* The application of the UE sends a packet: it schedules the random access, and
\* the bearer reports the packet if the UE is active.
PacketArrives(ue) ==
    /\ packets[ue] < MaxPackets
    /\ packets' = [packets EXCEPT ![ue] = @ + 1]
    /\ LET cal == InsertEvent(m_events, UeAt(m_currentTs, "StartRaProcedure", ue))
       IN  m_events' = IF m_state[ue] = "ACTIVE"
                       THEN SetLastActivity(cal, m_currentTs, ue) ELSE cal
    /\ UNCHANGED <<m_currentTs, m_TTICounter, rach, m_savedRachSessions, m_state,
                   m_RaProcedureActive, attempts>>
=============================================================================
