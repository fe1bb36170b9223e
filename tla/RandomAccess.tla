----------------------------- MODULE RandomAccess -----------------------------
(***************************************************************************)
(* The random access procedure: the four messages between the UEs of a     *)
(* cell (ue-baseline-random-access.cpp) and its gNB                        *)
(* (gnb-baseline-random-access.cpp), the radio resources the gNB keeps for *)
(* them, and the uplink scheduler that has to leave these alone.           *)
(*                                                                         *)
(* The enhanced procedure (ue- and gnb-enhanced-random-access.cpp) differs *)
(* in what the gNB makes of a session: a UE chooses one of several         *)
(* responses (RARs) to its preamble, and the gNB keeps a resource for each *)
(* response of a preamble it received.                                     *)
(*                                                                         *)
(* Every message is an ideal one, received within the event that sends it; *)
(* what takes time is scheduled on the calendar, together with the frame   *)
(* clock: a TTI begins in the middle of its millisecond, so the TTI        *)
(* counter is the number of the millisecond for the events before          *)
(* StartSubframe and one more for those after it.                          *)
(***************************************************************************)
EXTENDS EventCalendar, FiniteSets, SequencesExt

CONSTANTS
    UEs, Preambles,
    Types,            \* of the managers: "BASELINE", "ENHANCED" or both
    RARs,             \* the responses a UE may choose, as many as m_nbRARs
    NbRBs,            \* uplink RBs of the cell
    NbRachRBs,        \* RBs of a RACH opportunity (6)
    NbCcchRBs,        \* of each type: RBs below this one may carry message 3
                      \* (0.75 of all, or 0.9)
    m_ripInt, m_PreambleDuration,
    m_responseWindowDelay, m_responseWindowDuration,
    m_RAProcedureTimeout, m_activityTimeout,
    Backoffs,         \* the waiting times before a new attempt
    m_maxFailedAttempts,
    MaxInputs,        \* bound of the model: packets and applications per UE
    MaxTTI            \* bound of the model: the simulation stops in this TTI

\* How far ahead the opportunities are written down.
PredictionWindow ==
    m_PreambleDuration + m_responseWindowDelay + 2 * m_responseWindowDuration

\* The values of the code keep these orders: the timeout (5 s) is longer than
\* any attempt (14 ms), and the idle timer (10 s) longer than the timeout; when a
\* session is answered the opportunities of its window are known (5 + 5 <= 14), and
\* TTI 1, in which none is written down yet, has none (one in 5 TTIs, of 1 TTI).
ASSUME TimerAssumption ==
    /\ m_RAProcedureTimeout > m_ripInt + m_responseWindowDelay + m_responseWindowDuration + 1
    /\ m_activityTimeout > m_RAProcedureTimeout
    /\ m_ripInt + m_responseWindowDuration <= PredictionWindow
    /\ 1 % m_ripInt >= m_PreambleDuration
ASSUME NumberAssumption ==
    /\ Types \subseteq {"BASELINE", "ENHANCED"} /\ IsFiniteSet(RARs)
    /\ {m_ripInt, m_PreambleDuration, m_responseWindowDelay,
        m_responseWindowDuration, m_maxFailedAttempts} \subseteq Nat \ {0}
    /\ {m_RAProcedureTimeout, m_activityTimeout} \cup Backoffs \subseteq Nat
    /\ {NbRBs, MaxInputs, MaxTTI} \subseteq Nat /\ NbRachRBs \in 1..NbRBs
    /\ \A t \in Types : NbCcchRBs[t] \in 0..NbRBs

RBs == 0..(NbRBs - 1)
RachRBs == 0..(NbRachRBs - 1)

VARIABLES
    m_type,                  \* the manager of the cell, fixed by the scenario
    m_events,                \* the calendar
    m_currentTs,             \* Now(), in milliseconds
    m_TTICounter,            \* of the FrameManager
    m_RBsReservedForRach,    \* gNB: pairs <<TTI, RB>>
    m_RBsReservedForCCCH,    \* gNB: pairs <<TTI, RB>>
    m_savedRachSessions,     \* gNB: the messages 1 received, by TTI
    m_state,                 \* of every UE: "IDLE" or "ACTIVE"
    m_RaProcedureActive,     \* of every UE
    m_nbFailedAttempts,      \* of every UE
    granted,                 \* history: the RBs granted for the current TTI
    inputs                   \* of every UE: packets and applications so far

gnb == <<m_RBsReservedForRach, m_RBsReservedForCCCH, m_savedRachSessions>>
ue_ == <<m_state, m_RaProcedureActive, m_nbFailedAttempts>>
vars == <<m_type, m_events, m_currentTs, m_TTICounter, gnb, ue_, granted, inputs>>

-----------------------------------------------------------------------------
(***************************************************************************)
(* Events                                                                  *)
(***************************************************************************)

At(ts, kind) == [ts |-> ts, kind |-> kind]
UeAt(ts, kind, ue) == [ts |-> ts, kind |-> kind, ue |-> ue]

\* ReceiveMessage2: message 3 is sent in the millisecond numbered as its TTI.
\* tti and rb are history values: the resource granted.
Msg3At(tti, ue, rb) ==
    [ts |-> tti, kind |-> "SendMessage3", ue |-> ue, tti |-> tti, rb |-> rb]

UeKinds == {"StartRaProcedure", "ReStartRaProcedure", "SendMessage1",
            "SendMessage3", "SendMessage4", "SetNodeState"}

Now == GetEvent(m_events).ts
NextIs(kind) == ~IsEmpty(m_events) /\ GetEvent(m_events).kind = kind
Serve(kind) == NextIs(kind) /\ m_currentTs' = Now /\ UNCHANGED m_type
TheUE == GetEvent(m_events).ue

\* The handler scheduled es and the loop removes its event.
Done(es) == m_events' = RemoveEvent(InsertAll(m_events, es))

\* The old timer is marked deleted, the new one started.
IdleTimers(ue) == [ts : Nat, kind : {"SetNodeState"}, ue : {ue}]

SetLastActivity(cal, now, ue) ==
    InsertEvent(WithoutEvents(cal, IdleTimers(ue)),
                UeAt(now + m_activityTimeout, "SetNodeState", ue))

Init ==
    /\ m_type \in Types
    /\ m_events = InsertAll(EmptyCalendar,
            <<At(0, "StartSubframe"),
              At(1, "SetRachReservedSubChannels"), At(1, "CheckCollisions")>>)
    /\ m_currentTs = 0
    /\ m_TTICounter = 0
    /\ m_RBsReservedForRach = {}
    /\ m_RBsReservedForCCCH = {}
    /\ m_savedRachSessions = [t \in {} |-> <<>>]
    /\ m_state = [u \in UEs |-> "IDLE"]
    /\ m_RaProcedureActive = [u \in UEs |-> FALSE]
    /\ m_nbFailedAttempts = [u \in UEs |-> 0]
    /\ granted = {}
    /\ inputs = [u \in UEs |-> 0]

-----------------------------------------------------------------------------
(***************************************************************************)
(* The UE                                                                  *)
(***************************************************************************)

\* UeRandomAccess::isRachOpportunity, asked of the gNB.
isRachOpportunity == \E r \in m_RBsReservedForRach : r[1] = m_TTICounter

SessionAt(tti) ==
    IF tti \in DOMAIN m_savedRachSessions THEN m_savedRachSessions[tti] ELSE <<>>

\* SetMaxRAR: the response a preamble asks for.
SelectedRar == IF m_type = "ENHANCED" THEN RARs ELSE {"the only one"}

\* SendMessage1: the preamble reaches the gNB at once (ReceiveMessage1), or
\* the UE tries again in the next millisecond.  The result is what SendMessage1
\* schedules.
SendMessage1(ue, es) ==
    IF isRachOpportunity
    THEN /\ \E p \in Preambles, rar \in SelectedRar :
            m_savedRachSessions' =
                [t \in DOMAIN m_savedRachSessions \cup {m_TTICounter} |->
                    IF t = m_TTICounter
                    THEN Append(SessionAt(t), [ue |-> ue, preamble |-> p, selectedRar |-> rar])
                    ELSE m_savedRachSessions[t]]
         /\ Done(es)
    ELSE /\ Done(Append(es, UeAt(Now + 1, "SendMessage1", ue)))
         /\ UNCHANGED m_savedRachSessions

SendMessage1Again ==
    /\ Serve("SendMessage1")
    /\ SendMessage1(TheUE, <<>>)
    /\ UNCHANGED <<m_TTICounter, m_RBsReservedForRach, m_RBsReservedForCCCH,
                   ue_, granted, inputs>>

\* Mutant of StartRaProcedure: an attempt under way does not stop another.
StartRaProcedure_Twice ==
    /\ Serve("StartRaProcedure")
    /\ IF m_state[TheUE] = "ACTIVE"
       THEN /\ m_events' = RemoveEvent(SetLastActivity(m_events, Now, TheUE))
            /\ UNCHANGED <<m_savedRachSessions, m_RaProcedureActive>>
       ELSE /\ m_RaProcedureActive' = [m_RaProcedureActive EXCEPT ![TheUE] = TRUE]
            /\ SendMessage1(TheUE, <<UeAt(Now + m_RAProcedureTimeout,
                                          "ReStartRaProcedure", TheUE)>>)
    /\ UNCHANGED <<m_TTICounter, m_RBsReservedForRach, m_RBsReservedForCCCH,
                   m_state, m_nbFailedAttempts, granted, inputs>>

\* Mutant of StartRaProcedure: every call starts a timeout.
StartRaProcedure_WatchesAgain ==
    /\ Serve("StartRaProcedure")
    /\ LET watch == UeAt(Now + m_RAProcedureTimeout, "ReStartRaProcedure", TheUE) IN
        \/ /\ m_state[TheUE] = "ACTIVE"
           /\ m_events' = RemoveEvent(SetLastActivity(m_events, Now, TheUE))
           /\ UNCHANGED <<m_savedRachSessions, m_RaProcedureActive>>
        \/ /\ m_state[TheUE] /= "ACTIVE" /\ m_RaProcedureActive[TheUE]
           /\ Done(<<watch>>)
           /\ UNCHANGED <<m_savedRachSessions, m_RaProcedureActive>>
        \/ /\ m_state[TheUE] /= "ACTIVE" /\ ~m_RaProcedureActive[TheUE]
           /\ m_RaProcedureActive' = [m_RaProcedureActive EXCEPT ![TheUE] = TRUE]
           /\ SendMessage1(TheUE, <<watch>>)
    /\ UNCHANGED <<m_TTICounter, m_RBsReservedForRach, m_RBsReservedForCCCH,
                   m_state, m_nbFailedAttempts, granted, inputs>>

StartRaProcedure ==
    /\ Serve("StartRaProcedure")
    /\ \/ /\ m_state[TheUE] = "ACTIVE"
          /\ m_events' = RemoveEvent(SetLastActivity(m_events, Now, TheUE))
          /\ UNCHANGED <<m_savedRachSessions, m_RaProcedureActive>>
       \/ /\ m_state[TheUE] /= "ACTIVE" /\ m_RaProcedureActive[TheUE]
          /\ Done(<<>>)
          /\ UNCHANGED <<m_savedRachSessions, m_RaProcedureActive>>
       \/ /\ m_state[TheUE] /= "ACTIVE" /\ ~m_RaProcedureActive[TheUE]
          /\ m_RaProcedureActive' = [m_RaProcedureActive EXCEPT ![TheUE] = TRUE]
          /\ SendMessage1(TheUE, <<UeAt(Now + m_RAProcedureTimeout,
                                        "ReStartRaProcedure", TheUE)>>)
    /\ UNCHANGED <<m_TTICounter, m_RBsReservedForRach, m_RBsReservedForCCCH,
                   m_state, m_nbFailedAttempts, granted, inputs>>

\* Mutant of ReStartRaProcedure: the failures are not reset.
ReStartRaProcedure_NoReset ==
    /\ Serve("ReStartRaProcedure")
    /\ \/ /\ ~m_RaProcedureActive[TheUE]
          /\ Done(<<>>)
          /\ UNCHANGED <<m_RaProcedureActive, m_nbFailedAttempts>>
       \/ /\ m_RaProcedureActive[TheUE]
          /\ m_RaProcedureActive' = [m_RaProcedureActive EXCEPT ![TheUE] = FALSE]
          /\ m_nbFailedAttempts' = [m_nbFailedAttempts EXCEPT ![TheUE] = @ + 1]
          /\ IF m_nbFailedAttempts[TheUE] + 1 < m_maxFailedAttempts
             THEN \E waitingTime \in Backoffs :
                    Done(<<UeAt(Now + waitingTime, "StartRaProcedure", TheUE)>>)
             ELSE Done(<<>>)
    /\ UNCHANGED <<m_TTICounter, gnb, m_state, granted, inputs>>

\* The attempt has timed out, unless message 4 ended it: the UE waits and
\* starts again, or gives up.
ReStartRaProcedure ==
    /\ Serve("ReStartRaProcedure")
    /\ \/ /\ ~m_RaProcedureActive[TheUE]
          /\ Done(<<>>)
          /\ UNCHANGED <<m_RaProcedureActive, m_nbFailedAttempts>>
       \/ /\ m_RaProcedureActive[TheUE]
          /\ m_RaProcedureActive' = [m_RaProcedureActive EXCEPT ![TheUE] = FALSE]
          /\ IF m_nbFailedAttempts[TheUE] + 1 < m_maxFailedAttempts
             THEN /\ m_nbFailedAttempts' = [m_nbFailedAttempts EXCEPT ![TheUE] = @ + 1]
                  /\ \E waitingTime \in Backoffs :
                        Done(<<UeAt(Now + waitingTime, "StartRaProcedure", TheUE)>>)
             ELSE /\ m_nbFailedAttempts' = [m_nbFailedAttempts EXCEPT ![TheUE] = 0]
                  /\ Done(<<>>)
    /\ UNCHANGED <<m_TTICounter, gnb, m_state, granted, inputs>>

\* Message 3 is received at once; the gNB answers a millisecond later.
SendMessage3 ==
    /\ Serve("SendMessage3")
    /\ Done(<<UeAt(Now + 1, "SendMessage4", TheUE)>>)
    /\ UNCHANGED <<m_TTICounter, gnb, ue_, granted, inputs>>

\* Message 4 reaches the UE at once (ReceiveMessage4): MakeActive, and
\* SendSchedulingRequest, which restarts the idle timer once more.
SendMessage4 ==
    /\ Serve("SendMessage4")
    /\ m_state' = [m_state EXCEPT ![TheUE] = "ACTIVE"]
    /\ m_RaProcedureActive' = [m_RaProcedureActive EXCEPT ![TheUE] = FALSE]
    /\ m_nbFailedAttempts' = [m_nbFailedAttempts EXCEPT ![TheUE] = 0]
    /\ m_events' = RemoveEvent(SetLastActivity(m_events, Now, TheUE))
    /\ UNCHANGED <<m_TTICounter, gnb, granted, inputs>>

\* The idle timer.
SetNodeState ==
    /\ Serve("SetNodeState")
    /\ m_state' = [m_state EXCEPT ![TheUE] = "IDLE"]
    /\ Done(<<>>)
    /\ UNCHANGED <<m_TTICounter, gnb, m_RaProcedureActive, m_nbFailedAttempts,
                   granted, inputs>>

-----------------------------------------------------------------------------
(***************************************************************************)
(* The gNB                                                                 *)
(***************************************************************************)

NotOld(map) == {r \in map : r[1] >= m_TTICounter}

SetRachReservedSubChannels ==
    /\ Serve("SetRachReservedSubChannels")
    /\ m_RBsReservedForRach' = NotOld(m_RBsReservedForRach)
            \cup {tti \in m_TTICounter..(m_TTICounter + PredictionWindow) :
                    tti % m_ripInt < m_PreambleDuration} \X RachRBs
    /\ LET next == IF \E r \in m_RBsReservedForRach' : r[1] = m_TTICounter
                   THEN m_ripInt ELSE 1
       IN  Done(<<At(Now + next, "SetRachReservedSubChannels")>>)
    /\ UNCHANGED <<m_TTICounter, m_RBsReservedForCCCH, m_savedRachSessions,
                   ue_, granted, inputs>>

\* The resources of the response window that may be given to a message 3, TTI by TTI.
RBsForCCCH ==
    LET n == NbCcchRBs[m_type]
    IN  Kept([i \in 1..(m_responseWindowDuration * n) |->
                <<m_TTICounter + 1 + ((i - 1) \div n), (i - 1) % n>>],
             m_RBsReservedForRach \cup m_RBsReservedForCCCH)

Collides(session, k) ==
    \E i \in 1..Len(session) :
        /\ session[i].preamble = k.preamble /\ session[i].ue /= k.ue
        /\ session[i].selectedRar = k.selectedRar

\* A response sent, with the resource of a message 3.
Respond(acc, k, resource) == [acc EXCEPT !.rar = Append(@, [ue |-> k.ue, at |-> resource])]

\* Mutant of Answer: the resource stays in the queue.
Answer_KeepsResource(session, acc, k) ==
    IF Collides(session, k) \/ acc.free = <<>> THEN acc
    ELSE [Respond(acc, k, Head(acc.free)) EXCEPT !.reserved = @ \cup {Head(acc.free)}]

\* One message of a session: a response with the next free resource, none if
\* there is no resource or the preamble collides.  The first message of a
\* preamble that collides takes a resource all the same.
Answer(session, acc, k) ==
    IF acc.free = <<>> THEN acc
    ELSE IF ~Collides(session, k)
    THEN [Respond(acc, k, Head(acc.free)) EXCEPT
            !.free = Tail(@), !.reserved = @ \cup {Head(acc.free)}]
    ELSE IF <<k.preamble, k.selectedRar>> \in acc.collided THEN acc
    ELSE [acc EXCEPT !.free = Tail(@), !.collided = @ \cup {<<k.preamble, k.selectedRar>>}]

m_nbRARs == Cardinality(RARs)

\* Mutant of Grouped: resources kept for a preamble are offered to the next.
Grouped_KeepsFree(acc, p) ==
    IF acc.groups[p] # <<>> \/ Len(acc.free) < m_nbRARs THEN acc
    ELSE LET group == SubSeq(acc.free, 1, m_nbRARs)
         IN  [acc EXCEPT !.groups[p] = group, !.reserved = @ \cup ToSet(group)]

\* The first message of a preamble makes the gNB keep a resource for each of
\* its responses, or none if there are fewer.
Grouped(acc, p) ==
    IF p \in acc.seen \/ Len(acc.free) < m_nbRARs THEN acc
    ELSE LET group == SubSeq(acc.free, 1, m_nbRARs)
         IN  [acc EXCEPT !.groups[p] = group, !.seen = @ \cup {p},
                         !.reserved = @ \cup ToSet(group),
                         !.free = SubSeq(@, m_nbRARs + 1, Len(@))]

\* One message of a session in the enhanced procedure: the resources come from
\* those of its preamble.
AnswerEnhanced(session, acc, k) ==
    LET with == Grouped(acc, k.preamble)
        group == with.groups[k.preamble]
        rest == [with EXCEPT !.groups[k.preamble] = Tail(@)]
    IN  IF group = <<>> THEN with
        ELSE IF ~Collides(session, k) THEN Respond(rest, k, Head(group))
        ELSE IF <<k.preamble, k.selectedRar>> \in acc.collided THEN with
        ELSE [rest EXCEPT !.collided = @ \cup {<<k.preamble, k.selectedRar>>}]

Unanswered(free) ==
    [free |-> free, collided |-> {}, rar |-> <<>>, reserved |-> {},
     seen |-> {}, groups |-> [p \in Preambles |-> <<>>]]

\* The responses to a session (m_rarQueue) and the resources kept for them.
Responses(session) ==
    LET answered[i \in 0..Len(session)] ==
            IF i = 0 THEN Unanswered(RBsForCCCH)
            ELSE IF m_type = "ENHANCED"
            THEN AnswerEnhanced(session, answered[i - 1], session[i])
            ELSE Answer(session, answered[i - 1], session[i])
    IN  answered[Len(session)]

\* Mutant of Erase: the session is kept.
Erase_Keeps(tti) == m_savedRachSessions

Erase(tti) == [t \in DOMAIN m_savedRachSessions \ {tti} |-> m_savedRachSessions[t]]

\* Mutant of CcchFrom: the reservations for the next TTI go with the old ones.
CcchFrom_Next(map) == {r \in map : r[1] > m_TTICounter + 1}

\* m_RBsReservedForCCCH after deleteOldElements.
CcchFrom(map) == NotOld(map)

\* The session whose response window opens now is answered: resources are kept
\* for the messages 3, and every response (message 2) makes its UE schedule
\* message 3 for the TTI it was given (ReceiveMessage2).
CheckCollisions ==
    /\ Serve("CheckCollisions")
    /\ LET verifyTime == m_TTICounter - m_responseWindowDelay
           result == Responses(SessionAt(verifyTime))
           rar == result.rar
       IN  /\ m_savedRachSessions' = Erase(verifyTime)
           /\ m_RBsReservedForCCCH' =
                CcchFrom(m_RBsReservedForCCCH \cup result.reserved)
           /\ Done(Append([i \in 1..Len(rar) |->
                            Msg3At(rar[i].at[1], rar[i].ue, rar[i].at[2])],
                          At(Now + 1, "CheckCollisions")))
    /\ UNCHANGED <<m_TTICounter, m_RBsReservedForRach, ue_, granted, inputs>>

\* Mutant of Reserved: the RACH is forgotten.
Reserved_OnlyCcch == {rb \in RBs : <<m_TTICounter, rb>> \in m_RBsReservedForCCCH}

\* GetReservedSubChannels
Reserved == {rb \in RBs : <<m_TTICounter, rb>> \in m_RBsReservedForRach
                                               \cup m_RBsReservedForCCCH}

\* UplinkPacketScheduler::RBsAllocation for any requests and channels: an
\* allocation starts at an RB that is not reserved, but then takes the RBs
\* that follow, reserved or not.
ResourceBlocksAllocation ==
    /\ Serve("ResourceBlocksAllocation")
    /\ granted' \in {S \in SUBSET RBs : \A rb \in S \cap Reserved : rb - 1 \in S}
    /\ Done(<<>>)
    /\ UNCHANGED <<m_TTICounter, gnb, ue_, inputs>>

-----------------------------------------------------------------------------
(***************************************************************************)
(* The frame clock (FrameManager) and the applications                     *)
(***************************************************************************)

StartSubframe ==
    /\ Serve("StartSubframe")
    /\ m_TTICounter < MaxTTI
    /\ m_TTICounter' = m_TTICounter + 1
    /\ Done(<<At(Now, "ResourceBlocksAllocation"), At(Now + 1, "StopSubframe")>>)
    /\ UNCHANGED <<gnb, ue_, granted, inputs>>

StopSubframe ==
    /\ Serve("StopSubframe")
    /\ granted' = {}
    /\ Done(<<At(Now, "StartSubframe")>>)
    /\ UNCHANGED <<m_TTICounter, gnb, ue_, inputs>>

\* An input of the UE, in the current millisecond.
Input(ue) ==
    /\ inputs[ue] < MaxInputs
    /\ inputs' = [inputs EXCEPT ![ue] = @ + 1]
    /\ UNCHANGED <<m_type, m_currentTs, m_TTICounter, gnb, m_RaProcedureActive,
                   m_nbFailedAttempts, granted>>

\* A packet is created for the UE or by it: the application schedules
\* StartRaProcedure, and the bearer of an uplink packet sends a scheduling
\* request if the UE is active.
PacketArrives(ue) ==
    /\ Input(ue)
    /\ \E uplink \in BOOLEAN :
        LET cal == InsertEvent(m_events, UeAt(m_currentTs, "StartRaProcedure", ue))
        IN  m_events' = IF uplink /\ m_state[ue] = "ACTIVE"
                        THEN SetLastActivity(cal, m_currentTs, ue) ELSE cal
    /\ UNCHANGED m_state

\* An application towards the UE starts: MakeActive.
ApplicationStarts(ue) ==
    /\ Input(ue)
    /\ m_state' = [m_state EXCEPT ![ue] = "ACTIVE"]
    /\ m_events' = SetLastActivity(m_events, m_currentTs, ue)

Next ==
    \/ StartRaProcedure \/ SendMessage1Again \/ ReStartRaProcedure
    \/ SendMessage3 \/ SendMessage4 \/ SetNodeState
    \/ SetRachReservedSubChannels \/ CheckCollisions
    \/ ResourceBlocksAllocation \/ StartSubframe \/ StopSubframe
    \/ \E ue \in UEs : PacketArrives(ue) \/ ApplicationStarts(ue)

Spec == Init /\ [][Next]_vars

-----------------------------------------------------------------------------
(***************************************************************************)
(* Properties                                                              *)
(***************************************************************************)

Pending(kind) == {e \in EventsOf(m_events) : e.kind = kind}
PendingOf(kinds, ue) ==
    {e \in EventsOf(m_events) : e.kind \in kinds \cap UeKinds /\ e.ue = ue}
SavedOf(ue) ==
    {t \in DOMAIN m_savedRachSessions :
        \E i \in 1..Len(m_savedRachSessions[t]) : m_savedRachSessions[t][i].ue = ue}

TypeOK ==
    /\ \A e \in EventsOf(m_events) :
        /\ e.ts \in Nat
        /\ e.kind \in UeKinds => e.ue \in UEs
        /\ e.kind = "SendMessage3" => e.tti \in Nat /\ e.rb \in RBs
    /\ m_currentTs \in Nat
    /\ m_TTICounter \in 0..MaxTTI
    /\ m_RBsReservedForRach \subseteq Nat \X RBs
    /\ m_RBsReservedForCCCH \subseteq Nat \X RBs
    /\ \A t \in DOMAIN m_savedRachSessions :
        m_savedRachSessions[t] \in Seq([ue : UEs, preamble : Preambles, selectedRar : SelectedRar])
    /\ m_state \in [UEs -> {"IDLE", "ACTIVE"}]
    /\ m_RaProcedureActive \in [UEs -> BOOLEAN]
    /\ m_nbFailedAttempts \in [UEs -> 0..(m_maxFailedAttempts - 1)]
    /\ granted \subseteq RBs
    /\ inputs \in [UEs -> 0..MaxInputs]

\* No two UEs were told to send message 3 on the same RB of the same TTI, and
\* none on an RB of a RACH opportunity, although the opportunities are written
\* down only some TTIs ahead and the windows of two sessions may overlap (not
\* with the intervals of the code, whose windows follow each other).
Msg3Exclusive ==
    /\ \A e, f \in Pending("SendMessage3") :
        e /= f => <<e.tti, e.rb>> /= <<f.tti, f.rb>>
    /\ \A e \in Pending("SendMessage3") :
        ~(e.tti % m_ripInt < m_PreambleDuration /\ e.rb \in RachRBs)

\* Until message 3 is sent its resource stays reserved, whatever old
\* reservations are deleted meanwhile: the uplink scheduler of that TTI sees it.
ReservationHeld ==
    \A e \in Pending("SendMessage3") : <<e.tti, e.rb>> \in m_RBsReservedForCCCH

\* Message 3 is sent while the TTI counter shows the TTI it was given: its
\* event, scheduled by a time, runs before the next subframe starts.
Msg3InItsTTI ==
    NextIs("SendMessage3") => m_TTICounter = GetEvent(m_events).tti

\* The resource of a message 3 is there when it is used, and used in time.
Msg3HasItsResource == ReservationHeld /\ Msg3InItsTTI

\* Every preamble received is looked at: a session is kept only until its
\* response window opens, and the check that answers it is still to come.
NoPreambleForgotten ==
    \A t \in DOMAIN m_savedRachSessions :
        \E e \in Pending("CheckCollisions") : e.ts <= t + m_responseWindowDelay

\* While an attempt is under way exactly one timeout watches it, although
\* timeouts of attempts that succeeded are never cancelled.
AttemptWatched ==
    \A ue \in UEs :
        m_RaProcedureActive[ue] =>
            Cardinality(PendingOf({"ReStartRaProcedure"}, ue)) = 1

\* An attempt is in one place at a time: a message 1 to be repeated, a preamble
\* the gNB keeps, a message 3 or a message 4; and nothing of an attempt outlives
\* it.
OneMessagePending ==
    \A ue \in UEs :
        Cardinality(SavedOf(ue))
        + Cardinality(PendingOf({"SendMessage1", "SendMessage3", "SendMessage4"}, ue))
            <= IF m_RaProcedureActive[ue] THEN 1 ELSE 0

\* A timeout never races a late answer: whatever is pending of an attempt, or can
\* still come of a preamble the gNB keeps, comes before the timeout that watches it,
\* however long the UE waited for an opportunity; and the timeout comes in time.
AnswersInTime ==
    \A ue \in UEs : \A r \in PendingOf({"ReStartRaProcedure"}, ue) :
        /\ r.ts \in m_currentTs..(m_currentTs + m_RAProcedureTimeout)
        /\ \A e \in PendingOf({"SendMessage1", "SendMessage3", "SendMessage4"}, ue) : e.ts < r.ts
        /\ \A t \in SavedOf(ue) :
            t + m_responseWindowDelay + m_responseWindowDuration + 1 < r.ts

\* The uplink scheduler grants no RB of a RACH opportunity in its TTI.
RachKeptClear ==
    m_TTICounter % m_ripInt < m_PreambleDuration => granted \cap RachRBs = {}

\* Everything an attempt needs of the cell is kept for it.
ResourcesKept == Msg3Exclusive /\ Msg3HasItsResource /\ NoPreambleForgotten /\ RachKeptClear

\* An attempt is in one place, watched, and answered before its timeout or never.
AttemptInOnePlace == AttemptWatched /\ OneMessagePending /\ AnswersInTime
=============================================================================
