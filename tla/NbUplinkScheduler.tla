-------------------------- MODULE NbUplinkScheduler --------------------------
(***************************************************************************)
(* The uplink schedulers of an NB-IoT gNB (nb-uplink-packet-scheduler.cpp, *)
(* nb-fifo-uplink-packet-scheduler.cpp and                                 *)
(* nb-roundrobin-uplink-packet-scheduler.cpp).                             *)
(*                                                                         *)
(* A UE gets one subcarrier for as many allocations as it needs resource   *)
(* units (RUs); only when the last one is over it is told to transmit, and *)
(* its report is reduced.  The scheduler keeps copies of what it reads of  *)
(* a user: one in its queue, one with the subcarrier.                      *)
(***************************************************************************)
EXTENDS Integers, Sequences, FiniteSets, FiniteSetsExt, SequencesExt

CONSTANTS
    UEs,            \* of the gNB, in the order of their records
    Schedulers,     \* "FIFO", "RR" or both
    NbOfSubcarriers,
    RUs,            \* the numbers of RUs an allocation may have
    TBSize,         \* TBSize[u][n]: bytes that n RUs carry at the place of u
    ttiLength,      \* an allocation every so many TTIs
    NULL

Users == ToSet(UEs)
Subcarriers == 1..NbOfSubcarriers

VARIABLES
    scheduler,              \* the one the scenario chose
    m_schedulingRequest,    \* of the record of each UE: what it reported
    m_queue,                \* copies of users: [ue, data]
    m_RUmap,                \* of each subcarrier: Free or the user that has it,
                            \* with the RUs left and the size of its block
    m_roundRobinId,
    waiting                 \* of each UE: what it would report

Free == [ue |-> NULL]

SchedulerInit ==
    /\ scheduler \in Schedulers
    /\ m_schedulingRequest = [u \in Users |-> 0]
    /\ m_queue = <<>>
    /\ m_RUmap = [s \in Subcarriers |-> Free]
    /\ m_roundRobinId = 0
    /\ waiting = [u \in Users |-> 0]

-----------------------------------------------------------------------------
\* RadioBearer::Enqueue: the packet waits, and is reported if the UE is active.
Enqueue(u, size, active) ==
    /\ waiting' = [waiting EXCEPT ![u] = @ + size]
    /\ m_schedulingRequest' = IF active THEN [m_schedulingRequest EXCEPT ![u] = waiting'[u]]
                              ELSE m_schedulingRequest
    /\ UNCHANGED <<scheduler, m_queue, m_RUmap, m_roundRobinId>>

\* SendSchedulingRequest of an active UE.
SendSchedulingRequest(u) ==
    /\ m_schedulingRequest' = [m_schedulingRequest EXCEPT ![u] = waiting[u]]
    /\ UNCHANGED <<scheduler, m_queue, m_RUmap, m_roundRobinId, waiting>>

\* SelectUsersToSchedule; the UEs in asked were told to report again.
SelectUsersToSchedule(asked) ==
    LET reported == SelectSeq(UEs, LAMBDA u : m_schedulingRequest[u] > 0)
    IN  [i \in 1..Len(reported) |->
            [ue |-> reported[i],
             data |-> IF reported[i] \in asked THEN waiting[reported[i]]
                      ELSE m_schedulingRequest[reported[i]]]]

\* Mutant: a user is queued again with each report.
Updated_Twice(queue, u) == Append(queue, u)

\* A user is queued, or its copy in the queue is renewed.
Updated(queue, u) ==
    IF \E i \in DOMAIN queue : queue[i].ue = u.ue
    THEN [i \in DOMAIN queue |-> IF queue[i].ue = u.ue THEN u ELSE queue[i]]
    ELSE Append(queue, u)

\* nbAMCModule::GetNbOfRUsFromSize
GetNbOfRUsFromSize(u, data) ==
    LET enough == {n \in RUs : TBSize[u][n] >= data}
    IN  IF enough = {} THEN Max(RUs) ELSE Min(enough)

FreeSubcarriers(map) == {s \in Subcarriers : map[s] = Free}

Scheduled(map, u) == \E s \in Subcarriers : map[s].ue = u

\* The first free subcarrier, if there is one, goes to the user of entry e
\* unless it has one.
Assigned(map, e) ==
    IF FreeSubcarriers(map) = {} \/ Scheduled(map, e.ue) THEN map
    ELSE LET n == GetNbOfRUsFromSize(e.ue, e.data)
         IN  [map EXCEPT ![Min(FreeSubcarriers(map))] =
                [ue |-> e.ue, left |-> n, tbs |-> TBSize[e.ue][n], data |-> e.data]]

\* The FIFO scheduler walks the queue.  The round robin scheduler makes as many
\* turns as users are queued, from where it was, while subcarriers are free.
Started(queue) ==
    IF scheduler = "FIFO"
    THEN [map |-> FoldLeft(Assigned, m_RUmap, queue), id |-> m_roundRobinId]
    ELSE LET turn(a, e) ==
                LET id == IF a.id >= Len(queue) THEN 0 ELSE a.id
                IN  IF FreeSubcarriers(a.map) = {} THEN [a EXCEPT !.id = id]
                    ELSE [map |-> Assigned(a.map, queue[id + 1]), id |-> id + 1]
         IN  FoldLeft(turn, [map |-> m_RUmap, id |-> m_roundRobinId], queue)

\* The end of the last RU of a run: the user leaves the queue if what it had
\* when the run started fits.
Finished(a, run) ==
    IF run.data > run.tbs THEN a
    ELSE LET at == CHOOSE i \in DOMAIN a.queue : a.queue[i].ue = run.ue
         IN  [a EXCEPT !.queue = RemoveAt(@, at),
                       !.id = IF at - 1 < @ /\ scheduler = "RR" THEN @ - 1 ELSE @]

\* RUsAllocation: the queue is brought up to date, free subcarriers are given
\* away, and one RU of every run passes.  The grants are those of the runs that
\* end and whose user is among users.
RUsAllocation(users) ==
    LET queue == FoldLeft(Updated, m_queue, users)
        started == Started(queue)
        pass(a, s) ==
            LET run == a.map[s]
            IN  IF run = Free THEN a
                ELSE IF run.left > 1 THEN [a EXCEPT !.map[s].left = @ - 1]
                ELSE [Finished(a, run) EXCEPT
                        !.map[s] = Free,
                        !.granted = @ \cup {<<u, run.tbs>> : u \in
                            {v \in Users : v = run.ue /\ \E i \in DOMAIN users : users[i].ue = v}}]
    IN  FoldLeft(pass, [queue |-> queue, map |-> started.map, id |-> started.id, granted |-> {}],
                 [s \in 1..NbOfSubcarriers |-> s])

\* The bytes of the grant of u; zero if it has none.
Granted(grants, u) == Max({0} \cup {g[2] : g \in {h \in grants : h[1] = u}})

\* DoStopSchedule
StillRequested(request, bytes) == Max({0, request - bytes})

\* What a UE that is told to send may still have to send: its headers may take
\* all of the grant (ScheduleNbUplinkTransmission, and AmRlc).
Filled(w, bytes) == {w, Max({0, w - bytes})}

\* DoSchedule.  Without a report nothing happens, not even to runs under way,
\* and with one the runs stand still in the TTIs between two allocations and
\* in those of the random access.
DoSchedule(tti, isRachOpportunity, asked) ==
    LET users == SelectUsersToSchedule(asked)
        reports == [u \in Users |-> IF u \in asked THEN waiting[u] ELSE m_schedulingRequest[u]]
        after == RUsAllocation(users)
    IN  IF users = <<>> \/ tti % ttiLength # 0 \/ isRachOpportunity
        THEN /\ m_schedulingRequest' = reports
             /\ UNCHANGED <<scheduler, m_queue, m_RUmap, m_roundRobinId, waiting>>
        ELSE /\ m_queue' = after.queue
             /\ m_RUmap' = after.map
             /\ m_roundRobinId' = after.id
             /\ m_schedulingRequest' = [u \in Users |->
                    StillRequested(reports[u], Granted(after.granted, u))]
             /\ waiting' \in {w \in [Users -> UNION {Filled(waiting[u],
                                Granted(after.granted, u)) : u \in Users}] :
                    \A u \in Users : w[u] \in Filled(waiting[u], Granted(after.granted, u))}
             /\ UNCHANGED scheduler
=============================================================================
