------------------------------- MODULE Handover -------------------------------
(***************************************************************************)
(* The states of a UE and its handover: the position updates that decide   *)
(* on it (device/UserEquipment.cpp, protocolStack/rrc/ho), the procedure   *)
(* that moves the UE between cells (componentManagers/NetworkManager.cpp), *)
(* the records of the gNBs (device/GNodeB.cpp) and the devices attached to *)
(* their channels (channel/RadioChannel.cpp).                              *)
(*                                                                         *)
(* Positions and powers are abstracted to the decision they lead to.  The  *)
(* channel realizations that a handover creates, deletes and switches are  *)
(* data of the propagation models and left out.                            *)
(***************************************************************************)
EXTENDS EventCalendar, FiniteSets, SequencesExt

CONSTANTS
    UEs, MulticastDestinations,
    GNBs, HeNBs,          \* macro and home base stations
    Permitted,            \* pairs <<node, UE>>: CheckHandoverPermissions
    WithDLScheduler,      \* the nodes that have a downlink scheduler
    ChannelKinds,         \* channels that exist: of "Dl", "McDl", "Ul"
    m_detachTime, m_activityTimeout,
    MaxInputs,            \* bound of the model: inputs per UE
    MaxTime               \* bound of the model: last millisecond

Nodes == GNBs \cup HeNBs
Devices == UEs \cup MulticastDestinations
None == "NULL"

\* A node is a UE or a multicast destination, and there are finitely many.
ASSUME DevicesAssumption == UEs \cap MulticastDestinations = {} /\ IsFiniteSet(Devices)
ASSUME ChannelsAssumption == ChannelKinds \subseteq {"Dl", "McDl", "Ul"}
ASSUME PermittedAssumption == Permitted \subseteq Nodes \X UEs
                              /\ GNBs \X UEs \subseteq Permitted
ASSUME TimerAssumption == {m_detachTime, m_activityTimeout} \subseteq Nat \ {0}
ASSUME BoundsAssumption == MaxInputs \in Nat /\ MaxTime \in Nat \ {0}

VARIABLES
    m_events,               \* the calendar
    m_currentTs,
    m_state,                \* of every UE
    m_targetNode,           \* of every UE
    m_targetNodeRecord,     \* of every UE: the node its record belongs to
    m_userEquipmentRecords, \* of every node: the devices, in order
    m_attachedDevices,      \* of every channel: the devices, in order
    m_bearers,              \* of every node: the UEs it keeps bearers of
    inputs                  \* of every UE

network == <<m_targetNode, m_targetNodeRecord, m_userEquipmentRecords,
             m_attachedDevices, m_bearers>>
vars == <<m_events, m_currentTs, m_state, network, inputs>>

-----------------------------------------------------------------------------
(***************************************************************************)
(* Device lists                                                            *)
(***************************************************************************)

\* How many devices at the end of the list are multicast destinations.
MulticastTail(list) ==
    Cardinality({i \in 1..Len(list) :
        \A j \in i..Len(list) : list[j] \in MulticastDestinations})

\* Mutant of AddDevice: at the end.
AddDevice_Last(list, d) == Append(list, d)

\* RadioChannel::AddDevice: before the multicast destinations at the end.
AddDevice(list, d) == InsertAt(list, Len(list) - MulticastTail(list) + 1, d)

\* RegisterUserEquipment: the same walk, but the first element is not looked
\* at: if the walk gets there the device is inserted before it.
RecordPosition(list) ==
    LET tail == MulticastTail(list)
    IN  IF list /= <<>> /\ tail >= Len(list) - 1 THEN 1 ELSE Len(list) - tail + 1

RegisterUserEquipment(list, d) == InsertAt(list, RecordPosition(list), d)

\* Mutant of Without: the device stays in the list.
Without_Keeps(list, d) == list

\* DelDevice, DeleteUserEquipment
Without(list, d) == Kept(list, {d})

Has(list, d) == \E i \in 1..Len(list) : list[i] = d
Count(list, d) == Cardinality({i \in 1..Len(list) : list[i] = d})

-----------------------------------------------------------------------------
(***************************************************************************)
(* Events                                                                  *)
(***************************************************************************)

UeAt(ts, kind, ue) == [ts |-> ts, kind |-> kind, ue |-> ue]
TransferAt(ts, ue, target) ==
    [ts |-> ts, kind |-> "TransferBearerInfo", ue |-> ue, target |-> target]

Now == GetEvent(m_events).ts
Serve(kind) == /\ ~IsEmpty(m_events)
               /\ GetEvent(m_events).kind = kind
               /\ m_currentTs' = Now
TheUE == GetEvent(m_events).ue

Done(es) == m_events' = RemoveEvent(InsertAll(m_events, es))

\* SetLastActivity: the old timer is marked deleted, the new one started.
IdleTimers(ue) == [ts : Nat, kind : {"SetNodeState"}, ue : {ue}]

SetLastActivity(cal, now, ue) ==
    InsertEvent(WithoutEvents(cal, IdleTimers(ue)),
                UeAt(now + m_activityTimeout, "SetNodeState", ue))

\* A list of a cell after these devices were added to it, one after the other.
Listed(kind, list, d) ==
    IF kind = "records" THEN RegisterUserEquipment(list, d) ELSE AddDevice(list, d)

ListOf(kind, devices) ==
    LET list[i \in 0..Len(devices)] ==
            IF i = 0 THEN <<>> ELSE Listed(kind, list[i - 1], devices[i])
    IN  list[Len(devices)]

\* A scenario registers the multicast destinations of a cell, then its UEs,
\* attaches some of them to its channels in any order and starts the first
\* position updates.
Init ==
    /\ m_targetNode \in {f \in [UEs -> Nodes] : \A u \in UEs : <<f[u], u>> \in Permitted}
    /\ \E order \in SetToSeqs(Devices), cell \in [MulticastDestinations -> GNBs],
          attached \in SUBSET UEs :
        LET ues(n) == {u \in UEs : m_targetNode[u] = n}
            destinations(n) == {d \in MulticastDestinations : cell[d] = n}
            ordered(S) == Kept(order, Devices \ S) IN
        /\ m_userEquipmentRecords = [n \in Nodes |->
                ListOf("records", ordered(destinations(n)) \o ordered(ues(n)))]
        /\ m_attachedDevices = [k \in ChannelKinds |-> [n \in Nodes |->
                ListOf(k, ordered(destinations(n) \cup (ues(n) \cap attached)))]]
        /\ m_events = InsertEvents(EmptyCalendar, 1,
                [i \in 1..Len(ordered(UEs)) |->
                    UeAt(1, "UpdateUserPosition", ordered(UEs)[i])])
    /\ m_targetNodeRecord = m_targetNode
    /\ m_bearers = [n \in Nodes |-> {u \in UEs : m_targetNode[u] = n}]
    /\ m_state = [u \in UEs |-> "IDLE"]
    /\ m_currentTs = 0
    /\ inputs = [u \in UEs |-> 0]

-----------------------------------------------------------------------------
(***************************************************************************)
(* Handover                                                                *)
(***************************************************************************)

\* Mutant of HandoverEvents: an idle UE is detached like an active one, but
\* nothing ends it.
HandoverEvents_ActiveOnly(ue, target) ==
    <<TransferAt(Now + 1, ue, target)>>
    \o IF m_state[ue] = "ACTIVE" THEN <<UeAt(Now + m_detachTime, "MakeActive", ue)>>
       ELSE <<>>

\* HandoverProcedure: what it schedules.
HandoverEvents(ue, target) ==
    <<TransferAt(Now + 1, ue, target), UeAt(Now + m_detachTime, "MakeActive", ue)>>

\* Mutant of UpdateUserPosition: the next update is scheduled first.
UpdateUserPosition_SchedulesFirst ==
    /\ Serve("UpdateUserPosition")
    /\ Now < MaxTime
    /\ LET ue == TheUE
           next == UeAt(Now + 1, "UpdateUserPosition", ue) IN
        \/ /\ Done(<<next>>)
           /\ UNCHANGED m_state
        \/ \E target \in {n \in Nodes \ {m_targetNode[ue]} : <<n, ue>> \in Permitted} :
            /\ m_state[ue] /= "DETACHED"
            /\ m_state' = [m_state EXCEPT ![ue] = "DETACHED"]
            /\ Done(<<next>> \o HandoverEvents(ue, target))
    /\ UNCHANGED <<network, inputs>>

\* CheckHandoverNeed finds a better node that admits the UE, or none; a UE
\* that is detached is not handed over again.
UpdateUserPosition ==
    /\ Serve("UpdateUserPosition")
    /\ Now < MaxTime
    /\ LET ue == TheUE
           next == UeAt(Now + 1, "UpdateUserPosition", ue) IN
        \/ /\ Done(<<next>>)
           /\ UNCHANGED m_state
        \/ \E target \in {n \in Nodes \ {m_targetNode[ue]} : <<n, ue>> \in Permitted} :
            /\ m_state[ue] /= "DETACHED"
            /\ m_state' = [m_state EXCEPT ![ue] = "DETACHED"]
            /\ Done(Append(HandoverEvents(ue, target), next))
    /\ UNCHANGED <<network, inputs>>

\* One kind of channel: the UE moves if it was attached.
Moved(lists, old, new, ue) ==
    IF Has(lists[old], ue)
    THEN [lists EXCEPT ![new] = AddDevice(@, ue), ![old] = Without(@, ue)]
    ELSE lists

\* Mutant of RecordAfter: deleting the old record forgets the new one.
RecordAfter_Forgets(old, new) == None

\* RegisterUserEquipment sets the UE's record, DeleteUserEquipment resets it
\* if it is the one it deletes.
RecordAfter(old, new) == IF old = new THEN None ELSE new

\* TransferBearerInfo does nothing between two home base stations.
Transferable(old, new) == old \in GNBs \/ new \in GNBs

TransferBearerInfo ==
    /\ Serve("TransferBearerInfo")
    /\ LET ue == TheUE
           old == m_targetNode[ue]
           new == GetEvent(m_events).target IN
        IF Transferable(old, new)
        THEN /\ m_attachedDevices' =
                [k \in ChannelKinds |-> Moved(m_attachedDevices[k], old, new, ue)]
             /\ m_userEquipmentRecords' =
                [n \in Nodes |->
                    LET list == IF n = new
                                THEN RegisterUserEquipment(m_userEquipmentRecords[n], ue)
                                ELSE m_userEquipmentRecords[n]
                    IN  IF n = old THEN Without(list, ue) ELSE list]
             /\ m_targetNodeRecord' = [m_targetNodeRecord EXCEPT ![ue] = RecordAfter(old, new)]
             /\ m_targetNode' = [m_targetNode EXCEPT ![ue] = new]
             /\ m_bearers' = [n \in Nodes |->
                    IF n = old THEN m_bearers[n] \ {ue}
                    ELSE IF n = new /\ ue \in m_bearers[old] THEN m_bearers[n] \cup {ue}
                    ELSE m_bearers[n]]
        ELSE UNCHANGED network
    /\ Done(<<>>)
    /\ UNCHANGED <<m_state, inputs>>

\* NetworkNode::MakeActive in the target node of the UE.
Activated(ue) ==
    [m_state EXCEPT ![ue] = IF m_targetNode[ue] \in WithDLScheduler
                            THEN "ACTIVE" ELSE "IDLE"]

\* Mutant of Watched: the idle timer is not started.
Watched_Not(cal, now, ue) == cal

Watched(cal, now, ue) ==
    IF m_targetNode[ue] \in WithDLScheduler THEN SetLastActivity(cal, now, ue) ELSE cal

MakeActive ==
    /\ Serve("MakeActive")
    /\ m_state' = Activated(TheUE)
    /\ m_events' = RemoveEvent(Watched(m_events, Now, TheUE))
    /\ UNCHANGED <<network, inputs>>

\* The idle timer.
SetNodeState ==
    /\ Serve("SetNodeState")
    /\ m_state' = [m_state EXCEPT ![TheUE] = "IDLE"]
    /\ Done(<<>>)
    /\ UNCHANGED <<network, inputs>>

-----------------------------------------------------------------------------
(***************************************************************************)
(* Inputs of a UE, in the current millisecond                              *)
(***************************************************************************)

Input(ue) == /\ inputs[ue] < MaxInputs
             /\ inputs' = [inputs EXCEPT ![ue] = @ + 1]
             /\ UNCHANGED m_currentTs

\* Message 4 of a random access arrives, or an uplink bearer starts: MakeActive
\* in whatever state the UE is.
ReceiveMessage4(ue) ==
    /\ Input(ue)
    /\ m_state' = Activated(ue)
    /\ m_events' = Watched(m_events, m_currentTs, ue)
    /\ UNCHANGED network

\* An application towards the UE starts.
ApplicationStarts(ue) ==
    /\ Input(ue)
    /\ m_state' = Activated(ue)
    /\ m_events' = Watched(m_events, m_currentTs, ue)
    /\ LET node == m_targetNode[ue] IN
        m_attachedDevices' = [k \in ChannelKinds |->
            IF /\ ~Has(m_attachedDevices[k][node], ue)
               /\ \/ k = "Dl"
                  \/ k = "McDl" /\ Has(m_attachedDevices["Dl"][node], ue)
            THEN [m_attachedDevices[k] EXCEPT ![node] = AddDevice(@, ue)]
            ELSE m_attachedDevices[k]]
    /\ UNCHANGED <<m_targetNode, m_targetNodeRecord, m_userEquipmentRecords, m_bearers>>

\* SendSchedulingRequest of an active UE.
SendSchedulingRequest(ue) ==
    /\ m_state[ue] = "ACTIVE"
    /\ Input(ue)
    /\ m_events' = SetLastActivity(m_events, m_currentTs, ue)
    /\ UNCHANGED <<m_state, network>>

Next ==
    \/ UpdateUserPosition \/ TransferBearerInfo \/ MakeActive \/ SetNodeState
    \/ \E ue \in UEs : ReceiveMessage4(ue) \/ ApplicationStarts(ue)
                       \/ SendSchedulingRequest(ue)

Spec == Init /\ [][Next]_vars

-----------------------------------------------------------------------------
(***************************************************************************)
(* Properties                                                              *)
(***************************************************************************)

States == {"IDLE", "ACTIVE", "DETACHED"}
PendingOf(kind, ue) == {e \in EventsOf(m_events) : e.kind = kind /\ e.ue = ue}

\* Types: the record pointer of a UE always leads to a node (SetTargetNodeRecord
\* is never left with the NULL of DeleteUserEquipment).
TypeOK ==
    /\ \A e \in EventsOf(m_events) : e.ts \in Nat /\ e.ue \in UEs
    /\ m_currentTs \in 0..(MaxTime + m_activityTimeout)
    /\ m_state \in [UEs -> States]
    /\ m_targetNode \in [UEs -> Nodes]
    /\ m_targetNodeRecord \in [UEs -> Nodes]
    /\ m_userEquipmentRecords \in [Nodes -> Seq(Devices)]
    /\ m_attachedDevices \in [ChannelKinds -> [Nodes -> Seq(Devices)]]
    /\ m_bearers \in [Nodes -> SUBSET UEs]
    /\ inputs \in [UEs -> 0..MaxInputs]

\* Whatever handovers follow each other, a UE is registered once, in the cell
\* it has for its target, its record pointer leads there, and that cell and no
\* other keeps its bearers: what the schedulers and the link adaptation of the
\* cell rely on when they follow GetTargetNodeRecord.
ServedByTarget ==
    \A ue \in UEs :
        /\ m_targetNodeRecord[ue] = m_targetNode[ue]
        /\ \A n \in Nodes :
            /\ Count(m_userEquipmentRecords[n], ue) = IF n = m_targetNode[ue] THEN 1 ELSE 0
            /\ ue \in m_bearers[n] <=> n = m_targetNode[ue]

\* A UE listens to no channel but those of its target cell, once each: no burst
\* of a former cell reaches it, and none twice.
AttachedAtTarget ==
    \A ue \in UEs, k \in ChannelKinds, n \in Nodes :
        Count(m_attachedDevices[k][n], ue) <= IF n = m_targetNode[ue] THEN 1 ELSE 0

\* Both: the UE is in its target cell and in no other.
InItsCellOnly == ServedByTarget /\ AttachedAtTarget

\* A UE has at most one transfer under way, and it leads to another cell: a
\* position update that decides on a handover sees the target of the last one,
\* although the UE may have left the detached state before its transfer.
OneTransfer ==
    \A ue \in UEs :
        /\ Cardinality(PendingOf("TransferBearerInfo", ue)) <= 1
        /\ \A e \in PendingOf("TransferBearerInfo", ue) : e.target /= m_targetNode[ue]

\* A detached UE will be made active again, whatever else wakes it or puts it
\* to sleep meanwhile.
DetachEnds ==
    \A ue \in UEs : m_state[ue] = "DETACHED" => PendingOf("MakeActive", ue) /= {}

\* An active UE has exactly one idle timer, also after a handover.
ActiveIsTimed ==
    \A ue \in UEs :
        m_state[ue] = "ACTIVE" => Cardinality(PendingOf("SetNodeState", ue)) = 1

\* The events that bring a UE from one state to the next are there, once each,
\* in whatever order handovers, wake-ups and the idle timer come, also when the
\* transfer does nothing.
EventsPending == OneTransfer /\ DetachEnds /\ ActiveIsTimed

\* In the records of a cell and on its channels the UEs come before the multicast
\* destinations, however often UEs leave the cell and come back ("UEs should be
\* inserted before multicast destinations").
UEsFirst(list) ==
    \A i, j \in 1..Len(list) :
        i < j /\ list[i] \in MulticastDestinations => list[j] \in MulticastDestinations

MulticastLast ==
    \A n \in Nodes :
        /\ UEsFirst(m_userEquipmentRecords[n])
        /\ \A k \in ChannelKinds : UEsFirst(m_attachedDevices[k][n])

\* The lists of a cell: who is in them, once, and in their order.
CellListsRight == TypeOK /\ InItsCellOnly /\ MulticastLast
=============================================================================
