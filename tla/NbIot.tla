-------------------------------- MODULE NbIot --------------------------------
(***************************************************************************)
(* A cell of NB-IoT, as scenarios/nb-cell.h builds it: UEs send packets,   *)
(* wake up by the random access (NbRandomAccess), report what waits, and   *)
(* are given resource units (NbUplinkScheduler) until the idle timer puts  *)
(* them to sleep.                                                          *)
(*                                                                         *)
(* The two parts meet where the scheduler stands still during the random   *)
(* access, where message 4 reports, and where the scheduler makes a UE     *)
(* report again lest its idle timer run out.  Packets do not expire.       *)
(***************************************************************************)
EXTENDS NbRandomAccess

CONSTANTS Schedulers, NbOfSubcarriers, RUs, TBSize, ttiLength, NULL,
          Sizes      \* sizes of the packets applications send

ASSUME NbUplinkAssumption ==
    /\ Schedulers \subseteq {"FIFO", "RR"}
    /\ {NbOfSubcarriers, ttiLength} \cup RUs \subseteq Nat \ {0}
    /\ RUs # {} /\ IsInjective(UEs) /\ NULL \notin UESet
    /\ \A u \in UESet, n \in RUs : TBSize[u][n] \in Nat \ {0}

VARIABLES scheduler, m_schedulingRequest, m_queue, m_RUmap, m_roundRobinId, waiting

Scheduler == INSTANCE NbUplinkScheduler

schedulerVars == <<scheduler, m_schedulingRequest, m_queue, m_RUmap, m_roundRobinId, waiting>>
vars == <<raVars, schedulerVars>>

Init == RaInit /\ Scheduler!SchedulerInit

-----------------------------------------------------------------------------
\* Mutant: the UEs are never asked to report again.
Asked_Never(now) == {{}}

\* The UEs SelectUsersToSchedule makes report again: it compares the duration
\* of the idle timer, not the time it runs out, with Now().  The times are
\* doubles: a difference of exactly 2 ms is found to be less or not.
Asked(now) ==
    LET reported == {u \in UESet : m_schedulingRequest[u] > 0 /\ m_state[u] = "ACTIVE"}
    IN  {S \in {{}, reported} :
            /\ m_activityTimeout - now < 2 => S = reported
            /\ m_activityTimeout - now > 2 => S = {}}

\* UplinkResourceBlockAllocation of the gNB.
UplinkResourceBlockAllocation ==
    \E asked \in Asked(Now) :
        /\ ResourceBlocksAllocation(asked)
        /\ Scheduler!DoSchedule(m_TTICounter, isRachOpportunity, asked)

\* CBR::Send
Send(u) ==
    /\ PacketArrives(u)
    /\ \E size \in Sizes : Scheduler!Enqueue(u, size, m_state[u] = "ACTIVE")

ReceiveMessage4 == SendMessage4 /\ Scheduler!SendSchedulingRequest(TheUE)

RandomAccess ==
    /\ \/ StartRaProcedure \/ SendMessage1Again \/ ReStartRaProcedure
       \/ SendMessage3 \/ SetNodeState
       \/ SetRachReservedSubChannels \/ CheckCollisions
       \/ StartSubframe \/ StopSubframe
    /\ UNCHANGED schedulerVars

Next ==
    \/ RandomAccess
    \/ ReceiveMessage4
    \/ UplinkResourceBlockAllocation
    \/ \E u \in UESet : Send(u)

Spec == Init /\ [][Next]_vars

-----------------------------------------------------------------------------
(***************************************************************************)
(* Properties                                                              *)
(***************************************************************************)

PendingOf(kinds, ue) ==
    {e \in EventsOf(m_events) : e.kind \in kinds \cap UeKinds /\ e.ue = ue}

SavedOf(ue) ==
    {t \in DOMAIN m_savedRachSessions :
        \E i \in DOMAIN m_savedRachSessions[t] : m_savedRachSessions[t][i].ue = ue}

TypeOK ==
    /\ \A e \in EventsOf(m_events) : e.ts \in Nat /\ (e.kind \in UeKinds => e.ue \in UESet)
    /\ m_TTICounter \in 0..MaxTTI
    /\ m_RAOindex \in [Classes -> Nat]
    /\ m_state \in [UESet -> {"IDLE", "ACTIVE"}]
    /\ m_RaProcedureActive \in [UESet -> BOOLEAN]
    /\ m_nbFailedAttempts \in [UESet -> 0..(m_maxFailedAttempts - 1)]
    /\ \A u \in UESet : m_CEClassDynamic[u] \in CEClassStatic[u]..Max(Classes)
    /\ m_schedulingRequest \in [UESet -> Nat] /\ waiting \in [UESet -> Nat]
    /\ \A s \in Scheduler!Subcarriers :
        m_RUmap[s] # Scheduler!Free => m_RUmap[s].left \in RUs \cup 1..Max(RUs)
    /\ m_roundRobinId \in 0..Len(UEs)

\* Counters and classes keep their range, and an attempt is in exactly one place:
\* a message 1 to be sent, a preamble the gNB keeps, a new start, a message 3 or a
\* message 4.  No timeout watches it: were it in none, the UE would never send
\* again; and message 4, which reads the first packet of the UE, finds one.
AttemptInOnePlace ==
    /\ TypeOK
    /\ \A u \in UESet :
        LET places == Cardinality(SavedOf(u)) + Cardinality(
                PendingOf({"SendMessage1", "ReStartRaProcedure", "SendMessage3", "SendMessage4"}, u))
        IN  /\ places = (IF m_RaProcedureActive[u] THEN 1 ELSE 0)
            /\ PendingOf({"SendMessage4"}, u) # {} => waiting[u] > 0

\* A preamble may be sent for some class in TTI t.
Opportunity(t) ==
    \E c \in Classes :
        t >= m_timeOffset[c] /\ (t - m_timeOffset[c]) % m_resPeriodicity[c] = 0

\* The opportunities so far that began in TTI 1 or one TTI after another: each may
\* be written down before the check that is due then looks for the next one.
Unchecked ==
    {t \in 1..(m_TTICounter - 2) : Opportunity(t) /\ (t = 1 \/ Opportunity(t - 1))}

\* A preamble is sent when the gNB keeps the RACH clear for its class, although
\* the UE asks only whether it does for any; and it is answered in the TTI after
\* its opportunity, although a check answers only one session, unless
\* opportunities begin one right after another.  Each time they do, one session
\* has no check, and no more than one: it takes the check of the next session,
\* which takes that of the one after it, and so on until no preamble comes.
PreambleAnswered ==
    /\ \A t \in DOMAIN m_savedRachSessions : \A i \in DOMAIN m_savedRachSessions[t] :
        t \in m_tonesReservedForRach[m_savedRachSessions[t][i].class]
    /\ LET late == {t \in DOMAIN m_savedRachSessions : m_TTICounter > t + 1}
       IN  Cardinality(late) <= Cardinality(Unchecked)

\* No UE goes to sleep while the gNB has a report of it, although the gNB
\* compares the wrong time, and the packets may have come long ago.
AwakeWhileReported ==
    \A u \in UESet : m_schedulingRequest[u] > 0 => m_state[u] = "ACTIVE"

\* The copies the scheduler keeps do not outlive what they were made of: a user
\* is queued once, is taken off when its report is served and not before, and
\* has one subcarrier at most; a run that ends finds its user queued and with a
\* report, so no grant is lost.
CopiesAreCurrent ==
    LET running == {s \in Scheduler!Subcarriers : m_RUmap[s] # Scheduler!Free}
        queued == {m_queue[i].ue : i \in DOMAIN m_queue}
    IN  /\ IsInjective([i \in DOMAIN m_queue |-> m_queue[i].ue])
        /\ \A u \in queued : m_schedulingRequest[u] > 0
        /\ \A s \in running : m_RUmap[s].ue \in queued
        /\ \A s, r \in running : m_RUmap[s].ue = m_RUmap[r].ue => s = r
        /\ \A u \in UESet : m_schedulingRequest[u] <= waiting[u]
=============================================================================
