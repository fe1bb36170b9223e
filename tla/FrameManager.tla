----------------------------- MODULE FrameManager -----------------------------
(***************************************************************************)
(* The frame clock of the simulation (componentManagers/FrameManager.cpp), *)
(* the allocation calls it makes on every gNB (device/GNodeB.cpp) and the  *)
(* delivery of what they transmit (channel/RadioChannel.cpp), all driven   *)
(* by the calendar of the event loop.  A step is one event: its handler    *)
(* runs to completion, schedules further events, and the event is then     *)
(* removed.                                                                *)
(*                                                                         *)
(* Everything that happens inside one millisecond is ordered only by the   *)
(* order of the Schedule calls, which is what the properties are about.    *)
(***************************************************************************)
EXTENDS EventCalendar, FiniteSets

CONSTANTS
    GNBs,       \* the gNBs of NetworkManager, then its home gNBs: a sequence
    Structures, \* the frame structures a scenario may set: "FDD", "TDD"
    Configs,    \* the TDD configurations a scenario may set
    MaxTTI      \* bound of the model: the simulation stops after this TTI

\* enum SubFrameType of TDDConfiguration.h
DL == 0
UL == 1
Special == 2

TDDConfiguration ==
    << <<DL, Special, UL, UL, UL, DL, Special, UL, UL, UL>>,
       <<DL, Special, UL, UL, DL, DL, Special, UL, UL, DL>>,
       <<DL, Special, UL, DL, DL, DL, Special, UL, DL, DL>>,
       <<DL, Special, UL, UL, UL, DL, DL, DL, DL, DL>>,
       <<DL, Special, UL, UL, DL, DL, DL, DL, DL, DL>>,
       <<DL, Special, UL, DL, DL, DL, DL, DL, DL, DL>>,
       <<DL, Special, UL, UL, UL, DL, Special, UL, UL, DL>> >>

\* SetTDDFrameConfiguration tests for "less than 0 and greater than 6" and so
\* accepts every number; only these have a row in the table.
ASSUME StructureAssumption == Structures \subseteq {"FDD", "TDD"} /\ Configs \subseteq 0..6
ASSUME MaxTTIAssumption == MaxTTI \in Nat

Cells == {GNBs[i] : i \in DOMAIN GNBs}

\* A gNB is added when it is created, to one of the two containers.
ASSUME CellsAssumption ==
    /\ GNBs \in Seq(Cells)
    /\ \A i, j \in DOMAIN GNBs : GNBs[i] = GNBs[j] => i = j

VARIABLES
    m_events,       \* the calendar
    m_currentTs,    \* Now(), in milliseconds
    m_frameStructure,
    m_TDDFrameConfiguration,
    m_nbFrames,
    m_nbSubframes,
    m_TTICounter,
    allocations     \* history: the TTIs each gNB was called to allocate, by
                    \* direction

setup == <<m_frameStructure, m_TDDFrameConfiguration>>
vars == <<m_events, m_currentTs, setup, m_nbFrames, m_nbSubframes,
          m_TTICounter, allocations>>

-----------------------------------------------------------------------------
(***************************************************************************)
(* Events.  The field tti of a burst is a history value: the TTI in which  *)
(* it was sent.                                                            *)
(***************************************************************************)

At(ts, kind) == [ts |-> ts, kind |-> kind]
AllocationAt(ts, kind, g) == [ts |-> ts, kind |-> kind, gnb |-> g]
BurstAt(ts, g, dir, tti) ==
    [ts |-> ts, kind |-> "StartRx", gnb |-> g, dir |-> dir, tti |-> tti]

\* GetSubFrameType (1 <= nbSubFrame <= 10)
GetSubFrameType(nbSubFrame) == TDDConfiguration[m_TDDFrameConfiguration + 1][nbSubFrame]

\* The subframe, 1..10, a TTI falls in.
PositionOf(tti) == ((tti - 1) % 10) + 1

Init ==
    /\ m_events = InsertEvent(EmptyCalendar, At(0, "Start"))
    /\ m_currentTs = 0
    /\ m_frameStructure \in Structures
    /\ m_TDDFrameConfiguration \in Configs
    /\ m_nbFrames = 0
    /\ m_nbSubframes = 0
    /\ m_TTICounter = 0
    /\ allocations = [g \in Cells |-> [d \in {DL, UL} |-> 0]]

-----------------------------------------------------------------------------
(***************************************************************************)
(* Handlers                                                                *)
(***************************************************************************)

\* The event that runs now, and what the calendar holds when its handler has
\* scheduled some events for this millisecond and some for the next, and the
\* loop has removed it.
Now == GetEvent(m_events).ts
Serve(kind) == /\ ~IsEmpty(m_events)
               /\ GetEvent(m_events).kind = kind
               /\ m_currentTs' = Now

\* Mutant of Schedule: what falls in this millisecond is called at once, as the
\* commented-out direct calls of ResourceAllocation did.
Schedule_CallsDirectly(now, next) ==
    LET rest == RemoveEvent(m_events)
        first == IF now = <<>> THEN rest
                 ELSE [t \in DOMAIN rest \cup {Now} |->
                        IF t = Now THEN now \o QueueAt(rest, t) ELSE rest[t]]
    IN  m_events' = InsertEvents(first, Now + 1, next)

Schedule(now, next) ==
    m_events' = RemoveEvent(InsertEvents(InsertEvents(m_events, Now, now), Now + 1, next))

Start ==
    /\ Serve("Start")
    /\ Schedule(<<At(Now, "StartFrame")>>, <<>>)
    /\ UNCHANGED <<setup, m_nbFrames, m_nbSubframes, m_TTICounter, allocations>>

StartFrame ==
    /\ Serve("StartFrame")
    /\ m_nbFrames' = m_nbFrames + 1
    /\ Schedule(<<At(Now, "StartSubframe")>>, <<>>)
    /\ UNCHANGED <<setup, m_nbSubframes, m_TTICounter, allocations>>

\* Mutant of StopFrame: the next frame is not scheduled.
StopFrame_Forgets ==
    /\ Serve("StopFrame")
    /\ Schedule(<<>>, <<>>)
    /\ UNCHANGED <<setup, m_nbFrames, m_nbSubframes, m_TTICounter, allocations>>

StopFrame ==
    /\ Serve("StopFrame")
    /\ Schedule(<<At(Now, "StartFrame")>>, <<>>)
    /\ UNCHANGED <<setup, m_nbFrames, m_nbSubframes, m_TTICounter, allocations>>

None == "NULL"

\* Mutant: special subframes are used as well.
AllocationCall_Special(n) ==
    IF m_frameStructure = "FDD" THEN "ResourceBlocksAllocation"
    ELSE IF GetSubFrameType(n) = DL THEN "DownlinkResourceBlockAllocation"
    ELSE "UplinkResourceBlockAllocation"

\* ResourceAllocation: the call it schedules in the subframe n for each gNB; none
\* in a special subframe of TDD.
AllocationCall(n) ==
    IF m_frameStructure = "FDD" THEN "ResourceBlocksAllocation"
    ELSE IF GetSubFrameType(n) = DL THEN "DownlinkResourceBlockAllocation"
    ELSE IF GetSubFrameType(n) = UL THEN "UplinkResourceBlockAllocation"
    ELSE None

ResourceAllocation(n) ==
    IF AllocationCall(n) = None THEN <<>>
    ELSE [i \in 1..Len(GNBs) |-> AllocationAt(Now, AllocationCall(n), GNBs[i])]

NextSubframe(n) == IF n = 10 THEN 1 ELSE n + 1

\* Mutant of StartSubframe: the end of the subframe is scheduled first and
\* the allocation calls one millisecond later, behind it.
StartSubframe_AllocatesLate ==
    /\ Serve("StartSubframe")
    /\ m_TTICounter < MaxTTI
    /\ m_TTICounter' = m_TTICounter + 1
    /\ m_nbSubframes' = NextSubframe(m_nbSubframes)
    /\ LET calls == ResourceAllocation(m_nbSubframes') IN
        Schedule(<<>>, <<At(Now + 1, "StopSubframe")>>
                       \o [i \in 1..Len(calls) |-> [calls[i] EXCEPT !.ts = Now + 1]])
    /\ UNCHANGED <<setup, m_nbFrames, allocations>>

StartSubframe ==
    /\ Serve("StartSubframe")
    /\ m_TTICounter < MaxTTI
    /\ m_TTICounter' = m_TTICounter + 1
    /\ m_nbSubframes' = NextSubframe(m_nbSubframes)
    /\ Schedule(ResourceAllocation(m_nbSubframes'), <<At(Now + 1, "StopSubframe")>>)
    /\ UNCHANGED <<setup, m_nbFrames, allocations>>

\* Mutant of StopSubframe: a frame ends after nine subframes.
StopSubframe_ShortFrame ==
    /\ Serve("StopSubframe")
    /\ Schedule(<<At(Now, IF m_nbSubframes = 9 THEN "StopFrame" ELSE "StartSubframe")>>, <<>>)
    /\ UNCHANGED <<setup, m_nbFrames, m_nbSubframes, m_TTICounter, allocations>>

StopSubframe ==
    /\ Serve("StopSubframe")
    /\ Schedule(<<At(Now, IF m_nbSubframes = 10 THEN "StopFrame" ELSE "StartSubframe")>>, <<>>)
    /\ UNCHANGED <<setup, m_nbFrames, m_nbSubframes, m_TTICounter, allocations>>

\* RadioChannel::StartTx: what is sent is received one millisecond later.
StartTx(g, dir) == BurstAt(Now + 1, g, dir, m_TTICounter)

\* What may be sent when the schedulers of some directions are called, downlink
\* first: a scheduler may allocate nothing (no UE, no data), or the gNB transmits
\* (DL) or a UE it granted does (UL).  One burst stands for all that a call sends
\* in a direction one after the other: one of each UE that was granted RBs, two
\* of a gNB with two passes.
Transmissions(dirs) ==
    {sent \in {<<>>, <<DL>>, <<UL>>, <<DL, UL>>} : \A i \in 1..Len(sent) : sent[i] \in dirs}

Allocate(kind, dirs) ==
    /\ Serve(kind)
    /\ LET g == GetEvent(m_events).gnb IN
        /\ \E sent \in Transmissions(dirs) :
            Schedule(<<>>, [i \in 1..Len(sent) |-> StartTx(g, sent[i])])
        /\ allocations' = [h \in Cells |-> [d \in {DL, UL} |->
                IF h = g /\ d \in dirs THEN allocations[h][d] + 1 ELSE allocations[h][d]]]
    /\ UNCHANGED <<setup, m_nbFrames, m_nbSubframes, m_TTICounter>>

ResourceBlocksAllocation == Allocate("ResourceBlocksAllocation", {DL, UL})
DownlinkResourceBlockAllocation == Allocate("DownlinkResourceBlockAllocation", {DL})
UplinkResourceBlockAllocation == Allocate("UplinkResourceBlockAllocation", {UL})

\* RadioChannel::StartRx: every attached device receives the burst; the
\* answers (ACKs, CQIs) are handled within the same event.
StartRx ==
    /\ Serve("StartRx")
    /\ Schedule(<<>>, <<>>)
    /\ UNCHANGED <<setup, m_nbFrames, m_nbSubframes, m_TTICounter, allocations>>

Next ==
    \/ Start \/ StartFrame \/ StopFrame \/ StartSubframe \/ StopSubframe
    \/ ResourceBlocksAllocation
    \/ DownlinkResourceBlockAllocation
    \/ UplinkResourceBlockAllocation
    \/ StartRx

Spec == Init /\ [][Next]_vars

\* The event loop runs the next event.
FairSpec == Spec /\ WF_vars(Next)

-----------------------------------------------------------------------------
(***************************************************************************)
(* Properties                                                              *)
(***************************************************************************)

AllocationCalls == {"ResourceBlocksAllocation", "DownlinkResourceBlockAllocation",
                    "UplinkResourceBlockAllocation"}
ClockCalls == {"Start", "StartFrame", "StopFrame", "StartSubframe", "StopSubframe"}

\* The kind of the event that runs next.
NextIs(kinds) == ~IsEmpty(m_events) /\ GetEvent(m_events).kind \in kinds

BurstsInTheAir == {e \in EventsOf(m_events) : e.kind = "StartRx"}

Events ==
    [ts : Nat, kind : ClockCalls]
    \cup [ts : Nat, kind : AllocationCalls, gnb : Cells]
    \cup [ts : Nat, kind : {"StartRx"}, gnb : Cells, dir : {DL, UL}, tti : 1..MaxTTI]

TypeOK ==
    /\ \A t \in DOMAIN m_events : m_events[t] \in Seq(Events)
    /\ m_currentTs \in Nat
    /\ m_frameStructure \in Structures
    /\ m_TDDFrameConfiguration \in Configs
    /\ m_nbFrames \in Nat
    /\ m_nbSubframes \in 0..10
    /\ m_TTICounter \in 0..MaxTTI
    /\ allocations \in [Cells -> [{DL, UL} -> 0..MaxTTI]]

\* When a gNB is called to allocate a TTI, everything sent in earlier TTIs has
\* been received: the scheduler sees every ACK, CQI and scheduling request of
\* the previous TTI.  Only the order of events within the millisecond gives
\* this: StopSubframe was scheduled before the bursts, but it schedules
\* StartSubframe anew, behind them.
ReceptionBeforeAllocation ==
    NextIs(AllocationCalls) => \A e \in BurstsInTheAir : e.tti = m_TTICounter

\* Whenever an allocation or a reception reads them, the frame and subframe
\* counters together number the TTIs, and the TTI is the time: the frame
\* counter is ahead of the subframe counter only between StartFrame and
\* StartSubframe.  (GetCoverShiftIndex computes from them m_TTICounter + 10.)
\* So a burst is received while they still show the subframe it was sent in,
\* which StartRx reads (isMbsfnSubframe).
CountersAgree ==
    NextIs(AllocationCalls \cup {"StartRx", "StopSubframe"}) =>
        /\ 10 * (m_nbFrames - 1) + m_nbSubframes = m_TTICounter
        /\ m_nbSubframes \in 1..10
        /\ Now = IF NextIs(AllocationCalls) THEN m_TTICounter - 1 ELSE m_TTICounter
        /\ NextIs({"StartRx"}) => GetEvent(m_events).tti = m_TTICounter

\* Receptions, counters and time keep in step, although each is moved by an event
\* of its own within the same millisecond.
TtisInStep == TypeOK /\ ReceptionBeforeAllocation /\ CountersAgree

\* The TTIs up to n in which the direction d may be used.
Opportunities(d, n) ==
    {t \in 1..n : \/ m_frameStructure = "FDD"
                  \/ TDDConfiguration[m_TDDFrameConfiguration + 1][PositionOf(t)] = d}

\* By the end of a subframe every gNB was called exactly once for each
\* direction of each subframe so far, and for no other: no cell is skipped,
\* called twice or called for the wrong direction although the direction is
\* read in one event and the call runs in a later one.
EveryCellEveryTTI ==
    NextIs({"StopSubframe"}) =>
        \A g \in Cells, d \in {DL, UL} :
            allocations[g][d] = Cardinality(Opportunities(d, m_TTICounter))

\* The clock never stops: every TTI up to the bound is reached.
ClockRuns == <>(m_TTICounter = MaxTTI)
=============================================================================
