----------------------------- MODULE Applications -----------------------------
(***************************************************************************)
(* The sources of packets (flows/application/) and what they do to the UE  *)
(* at the radio end of them: every packet is followed, in the same         *)
(* millisecond, by a call that wakes the UE up or sets its idle timer      *)
(* anew.  A source is a chain of events, each of which schedules the next. *)
(*                                                                         *)
(* One UE, which no handover detaches.  What becomes of a packet in the    *)
(* queue of its bearer is in UmRlc and AmRlc, the messages of an attempt   *)
(* are in RandomAccess: here an attempt ends after some time, well or not. *)
(* Stop() of an application does nothing and is left out.                  *)
(***************************************************************************)
EXTENDS EventCalendar, FiniteSetsExt, SequencesExt

CONSTANTS
    Apps,
    Type,           \* of each application: CBR, VOIP, FTP2 or TRACE_BASED
    Downlink,       \* the applications whose destination is the UE
    StartTimes,     \* the times an application may start at
    Duration,       \* of each application
    Packets,        \* packets in a burst of an FTP2 application, at most
    GetInterval,    \* of each CBR application
    PacketInterval, \* 20 ms: between the packets of a spurt of VoIP
    Draws,          \* the durations a random variable may give: spurts and
                    \* pauses of VoIP, intervals of FTP2
    Frames,         \* of each TRACE_BASED application: [type, time, packets]
    RaDelays,       \* how long an attempt may take
    m_activityTimeout,
    MaxReports      \* no report is sent after this time

Of(type) == {a \in Apps : Type[a] = type}

ASSUME ApplicationsAssumption ==
    /\ Type \in [Apps -> {"CBR", "VOIP", "FTP2", "TRACE_BASED"}]
    /\ Of("TRACE_BASED") \subseteq Downlink /\ Downlink \subseteq Apps
    /\ StartTimes \subseteq Nat /\ Duration \in [Apps -> Nat]
    /\ {Packets, PacketInterval, m_activityTimeout} \cup RaDelays \subseteq Nat \ {0}
    /\ \A a \in Of("CBR") : GetInterval[a] \in Nat \ {0}
    /\ Draws \subseteq Nat
    /\ \A a \in Of("TRACE_BASED") : \A i \in DOMAIN Frames[a] : Frames[a][i].packets > 0

VARIABLES
    m_events,       \* the calendar
    m_currentTs,
    m_startTime,    \* of each application: fixed when the scenario is built
    m_state,        \* of the UE
    m_RaProcedureActive,
    m_stateON,      \* of each VOIP application
    m_endState,
    iter,           \* of each TRACE_BASED application: the next frame
    m_frameCounter,
    lastQueued,     \* history: when a packet was queued last, -1 for never
    abandoned       \* history: an attempt failed since

ueVars == <<m_state, m_RaProcedureActive>>
sourceVars == <<m_stateON, m_endState, iter, m_frameCounter>>
history == <<lastQueued, abandoned>>
vars == <<m_events, m_currentTs, m_startTime, ueVars, sourceVars, history>>

-----------------------------------------------------------------------------
(***************************************************************************)
(* Events                                                                  *)
(***************************************************************************)

At(ts, kind) == [ts |-> ts, kind |-> kind]
AppAt(ts, kind, a) == [ts |-> ts, kind |-> kind, app |-> a]

Now == GetEvent(m_events).ts
Serve(kind) ==
    ~IsEmpty(m_events) /\ GetEvent(m_events).kind = kind /\ m_currentTs' = Now
TheApp == GetEvent(m_events).app

Schedule(cal, es) == FoldLeft(InsertEvent, cal, es)
\* The calendar is cal when the handler returns and the loop removes its event.
Done(cal) == m_events' = RemoveEvent(cal)

WithoutIdleTimer(cal) ==
    LET rest == [t \in DOMAIN cal |-> SelectSeq(cal[t], LAMBDA e : e.kind # "SetNodeState")]
    IN  [t \in {s \in DOMAIN rest : rest[s] # <<>>} |-> rest[t]]

\* Mutant of SetLastActivity: a timer that runs is left alone.
SetLastActivity_Once(cal, now) ==
    IF WithoutIdleTimer(cal) # cal THEN cal
    ELSE InsertEvent(cal, At(now + m_activityTimeout, "SetNodeState"))

\* The old timer is marked deleted, which the loop skips.
SetLastActivity(cal, now) ==
    InsertEvent(WithoutIdleTimer(cal), At(now + m_activityTimeout, "SetNodeState"))

Init ==
    /\ m_startTime \in [Apps -> StartTimes]
    /\ m_events = FoldSet(LAMBDA a, cal : InsertEvent(cal, AppAt(m_startTime[a], "Start", a)),
                          EmptyCalendar, Apps)
    /\ m_currentTs = 0
    /\ m_state = "IDLE" /\ m_RaProcedureActive = FALSE
    /\ m_stateON = [a \in Of("VOIP") |-> FALSE]
    /\ m_endState = [a \in Of("VOIP") |-> 0]
    /\ iter = [a \in Of("TRACE_BASED") |-> 1]
    /\ m_frameCounter = [a \in Of("TRACE_BASED") |-> 0]
    /\ lastQueued = -1 /\ abandoned = FALSE

-----------------------------------------------------------------------------
(***************************************************************************)
(* The UE                                                                  *)
(***************************************************************************)

\* MakeActive: the gNB has a downlink scheduler in every scenario.
MakeActive(cal, now) ==
    /\ m_state' = "ACTIVE"
    /\ Done(SetLastActivity(cal, now))

\* Mutant of StartRaProcedure: a UE that is awake takes no notice.
StartRaProcedure_OnlyIdle ==
    /\ Serve("StartRaProcedure")
    /\ IF m_state # "ACTIVE" /\ ~m_RaProcedureActive
       THEN /\ m_RaProcedureActive' = TRUE
            /\ \E d \in RaDelays :
                Done(InsertEvent(m_events, At(Now + d, "AttemptEnds")))
       ELSE Done(m_events) /\ UNCHANGED m_RaProcedureActive
    /\ UNCHANGED <<m_startTime, m_state, sourceVars, history>>

StartRaProcedure ==
    /\ Serve("StartRaProcedure")
    /\ \/ /\ m_state # "ACTIVE" /\ ~m_RaProcedureActive
          /\ m_RaProcedureActive' = TRUE
          /\ \E d \in RaDelays :
                Done(InsertEvent(m_events, At(Now + d, "AttemptEnds")))
       \/ /\ m_state # "ACTIVE" /\ m_RaProcedureActive
          /\ Done(m_events) /\ UNCHANGED m_RaProcedureActive
       \/ /\ m_state = "ACTIVE"
          /\ Done(SetLastActivity(m_events, Now)) /\ UNCHANGED m_RaProcedureActive
    /\ UNCHANGED <<m_startTime, m_state, sourceVars, history>>

\* The attempt succeeds: the report that goes with message 4 sets the timer a
\* second time, to the same time.
ReceiveMessage4 ==
    /\ Serve("AttemptEnds")
    /\ MakeActive(m_events, Now)
    /\ m_RaProcedureActive' = FALSE
    /\ UNCHANGED <<m_startTime, sourceVars, history>>

\* Or the last of its tries failed: the UE gives up until a packet comes.
ReStartRaProcedure ==
    /\ Serve("AttemptEnds")
    /\ Done(m_events)
    /\ m_RaProcedureActive' = FALSE
    /\ abandoned' = TRUE
    /\ UNCHANGED <<m_startTime, m_state, sourceVars, lastQueued>>

\* A UE that has a grant reports what is left to send, in any TTI.
SendSchedulingRequest ==
    /\ m_state = "ACTIVE" /\ ~IsEmpty(m_events)
    /\ \E now \in m_currentTs..Now :
        /\ now <= MaxReports
        /\ m_events' = SetLastActivity(m_events, now)
        /\ m_currentTs' = now
    /\ UNCHANGED <<m_startTime, ueVars, sourceVars, history>>

SetNodeState ==
    /\ Serve("SetNodeState")
    /\ m_state' = "IDLE" /\ Done(m_events)
    /\ UNCHANGED <<m_startTime, m_RaProcedureActive, sourceVars, history>>

-----------------------------------------------------------------------------
(***************************************************************************)
(* The applications                                                        *)
(***************************************************************************)

\* Mutant of Start: the bearer of a sleeping UE is made without waking it up.
Start_Asleep ==
    /\ Serve("Start")
    /\ Done(InsertEvent(m_events, AppAt(Now, "Send", TheApp))) /\ UNCHANGED m_state
    /\ UNCHANGED <<m_startTime, m_RaProcedureActive, sourceVars, history>>

\* Start makes the bearers; the UE at the end of a downlink bearer is awake at
\* once, without a random access.  DoStart sends the first packet whatever the
\* stop time.
Start ==
    LET send == InsertEvent(m_events, AppAt(Now, "Send", TheApp))
    IN  /\ Serve("Start")
        /\ IF TheApp \in Downlink
           THEN MakeActive(send, Now)
           ELSE Done(send) /\ UNCHANGED m_state
        /\ UNCHANGED <<m_startTime, m_RaProcedureActive, sourceVars, history>>

GetStopTime(a) == m_startTime[a] + Duration[a]

\* ScheduleTransmit: the next call of Send, unless it is not before the end.
ScheduleTransmit(cal, a, time) ==
    IF Now + time < GetStopTime(a) THEN InsertEvent(cal, AppAt(Now + time, "Send", a))
    ELSE cal

\* Mutant of Trace: only packets for a UE that is awake are announced.
Trace_Awake(cal, n) ==
    IF m_state # "ACTIVE" THEN cal
    ELSE Schedule(cal, [i \in 1..n |-> At(Now, "StartRaProcedure")])

\* Trace, for n packets: the UE at the radio end is to start an attempt.  The
\* code does it only with _APP_TRACING_, which load-parameters.h defines as true.
Trace(cal, n) == Schedule(cal, [i \in 1..n |-> At(Now, "StartRaProcedure")])

\* Packets are queued and the next call of Send follows after some time.
Sends(a, n, time) ==
    /\ Done(ScheduleTransmit(Trace(m_events, n), a, time))
    /\ lastQueued' = Now /\ abandoned' = FALSE

CBR_Send ==
    /\ Serve("Send") /\ Type[TheApp] = "CBR"
    /\ Sends(TheApp, 1, GetInterval[TheApp])
    /\ UNCHANGED <<m_startTime, ueVars, sourceVars>>

\* The packet after the end of a spurt is sent, and ends it.
VoIP_Send ==
    /\ Serve("Send") /\ Type[TheApp] = "VOIP"
    /\ \E end \in IF m_stateON[TheApp] THEN {m_endState[TheApp]} ELSE {Now + d : d \in Draws} :
        /\ m_endState' = [m_endState EXCEPT ![TheApp] = end]
        /\ m_stateON' = [m_stateON EXCEPT ![TheApp] = Now <= end]
        /\ \/ Now <= end /\ Sends(TheApp, 1, PacketInterval)
           \/ Now > end /\ \E d \in Draws : Sends(TheApp, 1, d)
    /\ UNCHANGED <<m_startTime, ueVars, iter, m_frameCounter>>

\* The interval is rounded to milliseconds and may be 0; the logarithm of a
\* draw of 0 is infinite: then no other burst follows.
FTP2_Send ==
    /\ Serve("Send") /\ Type[TheApp] = "FTP2"
    /\ \E d \in Draws \cup {Duration[TheApp]} : Sends(TheApp, Packets, d)
    /\ UNCHANGED <<m_startTime, ueVars, sourceVars>>

\* Mutant of TimeToSend: the time since the frame before, of whatever type.
TimeToSend_Any(frames) ==
    [i \in DOMAIN frames |->
        IF frames[i].type = "B" \/ i = 1 THEN 0
        ELSE frames[i].time - frames[i - 1].time]

\* LoadDefaultTrace: a B frame goes with the frame before it, another one a
\* while after the last that is not a B frame.
TimeToSend(frames) ==
    [i \in DOMAIN frames |->
        IF frames[i].type = "B" THEN 0
        ELSE frames[i].time
                - Max({0} \cup {frames[j].time : j \in {k \in 1..(i - 1) : frames[k].type # "B"}})]

\* The frames a call of Send sends: those up to the next one that has to wait.
Following(a, n) == ((iter[a] - 1 + n) % Len(Frames[a])) + 1
FramesToSend(a) ==
    Min({n \in 1..Len(Frames[a]) : TimeToSend(Frames[a])[Following(a, n)] # 0})

\* Mutant of WaitsFor: the time that goes with the frame just sent.
WaitsFor_Sent(a, n) == Max({1, TimeToSend(Frames[a])[Following(a, n - 1)]})

WaitsFor(a, n) == TimeToSend(Frames[a])[Following(a, n)]

\* Packets of a UE that is not awake are thrown away, and do not wake it up.
TraceBased_Send ==
    /\ Serve("Send") /\ Type[TheApp] = "TRACE_BASED"
    /\ LET a == TheApp
           n == FramesToSend(a)
           sent == MapThenSumSet(LAMBDA i : Frames[a][Following(a, i)].packets, 0..(n - 1))
       IN  /\ iter' = [iter EXCEPT ![a] = Following(a, n)]
           /\ m_frameCounter' = [m_frameCounter EXCEPT ![a] = @ + n]
           /\ \/ m_state = "ACTIVE" /\ Sends(a, sent, WaitsFor(a, n))
              \/ /\ m_state # "ACTIVE"
                 /\ Done(ScheduleTransmit(m_events, a, WaitsFor(a, n)))
                 /\ UNCHANGED history
    /\ UNCHANGED <<m_startTime, ueVars, m_stateON, m_endState>>

Next ==
    \/ Start \/ CBR_Send \/ VoIP_Send \/ FTP2_Send \/ TraceBased_Send
    \/ StartRaProcedure \/ ReceiveMessage4 \/ ReStartRaProcedure
    \/ SendSchedulingRequest \/ SetNodeState

Spec == Init /\ [][Next]_vars

-----------------------------------------------------------------------------
(***************************************************************************)
(* Properties                                                              *)
(***************************************************************************)

Pending(kind) == {e \in EventsOf(m_events) : e.kind = kind}
SendsOf(a) == {e \in Pending("Send") : e.app = a}

TypeOK ==
    /\ m_currentTs \in Nat /\ lastQueued \in Nat \cup {-1} /\ abandoned \in BOOLEAN
    /\ \A e \in EventsOf(m_events) : m_currentTs <= e.ts
    /\ m_state \in {"IDLE", "ACTIVE"} /\ m_RaProcedureActive \in BOOLEAN
    /\ m_stateON \in [Of("VOIP") -> BOOLEAN] /\ m_endState \in [Of("VOIP") -> Nat]
    /\ \A a \in Of("TRACE_BASED") : iter[a] \in DOMAIN Frames[a] /\ m_frameCounter[a] \in Nat

\* Within the idle timeout after a packet was queued its UE is awake or about
\* to wake up, whatever order the packet, the timer and the end of an attempt
\* come in, unless the attempt failed; and an attempt in progress will end.
PacketsWake ==
    /\ TypeOK
    /\ (m_state # "ACTIVE" /\ ~abandoned /\ lastQueued >= 0
        /\ m_currentTs < lastQueued + m_activityTimeout)
        => m_RaProcedureActive \/ Pending("StartRaProcedure") # {}
    /\ m_RaProcedureActive <=> Pending("AttemptEnds") # {}

\* No frame of a stream is thrown away: it never lets its UE fall asleep if its
\* frames come in less than the idle timeout.  A UE asleep would hear nothing of
\* it ever again.
StreamIsHeard ==
    \A a \in Of("TRACE_BASED") :
        (\A i \in DOMAIN Frames[a] : TimeToSend(Frames[a])[i] < m_activityTimeout)
            => (SendsOf(a) # {} => m_state = "ACTIVE")

\* Streams keep pace with their trace, round after round, although no call of
\* Send looks at the clock: the frame to be sent next is due at its time in the
\* trace, counted from the start and the rounds played.  A source has one call
\* of Send pending at most, before its end but for the first.
PlaybackKeepsPace ==
    \A a \in Apps :
        /\ Cardinality(SendsOf(a)) <= 1
        /\ \A e \in SendsOf(a) :
            /\ e.ts < GetStopTime(a) \/ e.ts = m_startTime[a]
            /\ Type[a] = "TRACE_BASED" =>
                LET frames == Frames[a]
                    round == Max({frames[i].time :
                                i \in {j \in DOMAIN frames : frames[j].type # "B"}})
                IN  e.ts = m_startTime[a] + frames[iter[a]].time - frames[1].time
                            + (m_frameCounter[a] \div Len(frames)) * round
=============================================================================
