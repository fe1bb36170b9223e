# A verification development for the 5G air simulator

`src/` is a discrete-event simulator of the 5G/LTE air interface in C++: a single
thread runs events from a calendar, and everything else (frames, schedulers, RLC
entities, random access, handover, applications) is a handler of an event that
schedules further events. There are no threads and nothing is persisted. What is
hard in this code is not parallelism but

* **order**: events of one millisecond run in the order of the `Schedule` calls that
  made them, and correctness often hangs on that order;
* **state that is read in one event and used in another** (a pid, a TTI counter, a
  target node, a report), while other handlers run in between;
* **loss, duplication and reordering** on the air interface, which HARQ and the RLC
  entities must repair;
* **timers that are never cancelled**, and **counters kept by hand** beside the data they
  count.

The modules here model those parts, TLC checks them on small instances, and TLAPS
proves what matters most for every instance. All paths below are under `src/src/`.

## 1. Inventory

| Component | State | Operations | Interacts with | What makes it correct |
|---|---|---|---|---|
| Event scheduler (`core/eventScheduler`) | map from time to a queue of events, time, uid counter, stop flag | `Schedule`, `MarkDeleted`, `Stop`, `Run` | every other component | events run once each, in the order of `event_compare`; the event that ran is the one removed; no event is lost, and those of a millisecond are served in turn |
| Frame clock (`componentManagers/FrameManager`) and delivery (`channel/RadioChannel`) | frame, subframe and TTI counters, frame structure, TDD configuration | `StartFrame`, `StartSubframe`, `StopSubframe`, `StopFrame`, `ResourceBlocksAllocation`; `StartTx`, `StartRx` | gNBs, schedulers, PHY, calendar | receptions of a TTI come before the allocations of the next; each gNB is called once per opportunity, in the allowed direction; the clock never stops |
| HARQ (`protocolStack/mac/harq-manager`, parts of `downlink-packet-scheduler`, `ue-phy`) | transmit processes per UE record, receive processes per UE | new transmission, retransmission, ACK, SINR combining | scheduler, PHY, ideal messages | both ends agree on process and transmission number; nothing decoded is sent again; nothing is given up early; every process ends |
| MAC queue (`flows/MacQueue`) | elements with fragment offset, size and packet counters | enqueue, cut, drop | RLC entities, schedulers | counters agree with the queue, order is kept |
| UM RLC (`protocolStack/rlc/um-rlc-entity`) | the queue; fragments at the receiver | `TransmissionProcedure`, `ReceptionProcedure` | bearer, PHY | bursts fit the grant; only whole packets, once, in order; no packet stays |
| AM RLC (`protocolStack/rlc/am-rlc-entity`) | records of what is not acknowledged; fragments received | as UM, with retransmission, segmentation and ACK | bearer, ACK message | as UM, and no byte is forgotten before it is delivered or given up |
| Random access, baseline (`protocolStack/mac/random-access`) | state, counters and timeout of each UE; sessions, reserved resources of the gNB | messages 1 to 4, collision check, reservation, restart | UE state, frame clock, uplink scheduler | a resource has one owner in a TTI; an attempt is in one place and watched; no preamble is forgotten |
| Handover and UE states (`componentManagers/NetworkManager`, `device/UserEquipment`, `device/GNodeB`, `rrc/ho`) | state and target of each UE, records of each node, devices of each channel, bearers | position update, `HandoverProcedure`, `TransferBearerInfo`, `MakeActive`, idle timer | channels, RRC, random access, applications | a UE is registered, attached and served in exactly its target cell; it becomes active again; it has one idle timer |
| Random access, enhanced (the same files, `enhanced-*`) | as baseline, and the responses the gNB prepared for each preamble | as baseline; the UE chooses among responses | as baseline | as baseline; a response keeps a resource for every group of contenders |
| Random access, NB-IoT (`*-nb-iot-random-access`) | coverage class and counters of each UE; opportunities, reserved subcarriers and saved preambles of each class | messages 1 to 4, change of class, new attempt from the gNB | UE state, NB scheduler (stands still during the RACH), idle timer | an attempt is in one place though no timeout watches it; a preamble is answered in the TTI after its opportunity, unless opportunities begin one right after another |
| Uplink schedulers (`mac/packet-scheduler/*uplink*`, parts of `gnb-mac-entity`, `ue-mac-entity`) | reports per record, users to schedule, round-robin index | report, `SelectUsersToSchedule`, `RBsAllocation` of three schedulers, grant, filling of the grant | random access, RLC, handover | RBs have one user; a report follows the queue it stands for; every TTI serves some report |
| NB-IoT uplink schedulers (`nb-*uplink-packet-scheduler`) | queue of copies of users, running resource units | report, allocation, end of a run | NB random access, idle timer | copies are current, a run ends with its grant, no UE sleeps while a report of it is kept |
| FLS scheduler (`dl-fls-packet-scheduler`) | quotas, data sent, filter, frame counter | control law, two passes, `DoStopSchedule` | bearers, PHY of the UEs | passes share the RBs, quotas are kept and refilled, a block is checked on its own RBs |
| Applications and sinks (`flows/application`) | next packet, start and stop time, position in the trace | `Start`, `DoStart`, `ScheduleTransmit`, `Send` | bearers, random access, idle timer | packets wake their UE, a stream keeps its UE awake, chains of events keep pace and end |
| TM RLC (`rlc/tm-rlc-entity`) | - | - | - | dead code: the lines that would create the entity are commented out (`radio-bearer.cpp:50`, `radio-bearer-sink.cpp:40`) |
| Radio bearers and sinks, RRC containers | average rate, lists of bearers | `UpdateAverageTransmissionRate`, add and delete | schedulers, handover | a packet finds its bearer; rates follow what was sent |
| Downlink metric schedulers | metrics, groups of users | `ComputeSchedulingMetric`, grouping for MU-MIMO | HARQ, AMC | an RB has one user, or one group |
| MAC entities and ideal messages | pointers | build and dispatch messages | all of MAC and PHY | messages reach their node |
| AMC, CQI managers | last report | create, send and store feedback | gNB records, HARQ | the scheduler uses the last report |
| PHY, SINR, interference, error models, propagation | powers, gains, SINR | `StartTx`, `StartRx` | channels, HARQ | numeric |
| Mobility and topology | positions, cells, buildings | `UpdatePosition` | handover | numeric |
| QoS parameters, classifier | parameters, five fields | getters, comparison | bearers | - |
| Multicast and MBSFN, gateway | destinations, sources, pattern | registration, MBSFN subframes | frame clock, schedulers | MBSFN subframes are left to multicast |
| Spectrum, packets, headers, protocol stack, utilities, scenarios, tests | data and pointers | constructors, getters | all | - |

`PROJECT.json` lists every one of them with its sources and status, and under `hazards`
every place of the code that is hard to test, with the properties that watch it or the
reason why none does yet.

## 2. Modules

`EventCalendar` is extended by every module whose actions are event handlers; a step of
those modules is *serve the first event*: its handler runs to completion, its `Schedule`
calls are inserted in their order, and the event is removed. Modules are composed

* by a shared calendar: the frame clock is part of `FrameManager` and, reduced to the TTI counter,
  of `RandomAccess` and `NbRandomAccess`;
* by extension: `UmRlc`, `AmRlc` and `FlsScheduler` extend `MacQueue`; `NbIot` extends
  `NbRandomAccess`;
* by instances on shared variables: `NbIot` instantiates `NbUplinkScheduler` on the attempt and
  the queue of the random access; `UplinkScheduler` has one instance of `AmRlc` per UE, so that
  a grant is filled by the operators the `am_rlc` run checks.

| Module | Models | State to code |
|---|---|---|
| `EventCalendar` | `calendar.cpp` as operators on the map | `DOMAIN cal` is the keys of `std::map`, `cal[t]` the `std::queue` |
| `EventOrder` | abstract specification: a set of pending events served in the order of `event_compare` | - |
| `Simulator` | `simulator.cpp`, `make-event.h` | `pc` is the place in `ProcessOneEvent`: before, inside or after the handler; the handler is any sequence of `DoSchedule`, `MarkDeleted`, `Stop` |
| `DataStructures_proofs` | lemmas on the calendar (which events are in it, how often and in which order after an operation) and on the MAC queue (what its operations and the filling of a burst keep); induction and recursion | - |
| `Simulator_proofs` | the inductive invariant of `Simulator`, what follows from it, and that it implements `EventOrder` | - |
| `FrameManager` | frame clock, allocation calls, delivery one millisecond later | `nbFrames`, `nbSubframes`, `TTICounter`; the calendar holds the scheduled handlers |
| `FrameManager_proofs` | the shapes of the calendar of `FrameManager` and what follows from them | - |
| `Harq` | processes of both ends, choice of what is sent, reception and ACK | one TTI is "rx" (receptions, ACKs) then "tx" (scheduling), the order `FrameManager` shows |
| `Harq_proofs` | the inductive invariant of `Harq` and what follows from it | - |
| `MacQueue` | the queue as operators on a record, and how a burst is filled from it | `m_queueSize`, `m_nbDataPackets`, fragment offset and number of the head |
| `UmRlc` | a bearer in UM: queue, sender, air, receiver | `air` is the sequence of bursts between `StartTx` and `StartRx` |
| `PacketService` | abstract specification: packets are accepted in order, stay pending, and are delivered or lost once and for good | - |
| `UmRlc_proofs` | the inductive invariant of `UmRlc`, what follows from it, and that it implements `PacketService` | - |
| `AmRlc` | a bearer in AM | `m_sentAMDs`, `m_receivedAMDs`; the ACK is the call it is in the code |
| `RandomAccess` | baseline and enhanced procedure (`m_type`): messages 1-4, collisions, reservations, timeouts, backoff, idle timer, the uplink scheduler as a user of the same RBs | `m_rachReservedSubChannels`, the CCCH allocation map, sessions, number of RBs kept for each response, the calendar |
| `RandomAccess_proofs` | the inductive invariant of `RandomAccess` and what follows from it | - |
| `Handover` | position update, detach, transfer, activation, idle timer; records, channels, bearers | `m_userEquipmentRecords` and `m_attachedDevices` as sequences, in the order of the code |
| `Handover_proofs` | the inductive invariant of `Handover` and what follows from it | - |
| `UplinkScheduler` | applications queue, a UE reports, one of the schedulers MT, FME and RR grants, the UE fills the grant, a handover moves the record | `m_schedulingRequest` is in the record of the gNB, `m_queue` and `m_sentAMDs` are the UE's AM entity |
| `NbRandomAccess` | NB-IoT random access | opportunities and reserved tones of each class, `m_savedRachSessions`, the calendar |
| `NbUplinkScheduler` | both NB-IoT schedulers | `m_RUmap[s]` is the run on a subcarrier with the copy of its user, `m_queue` the copies in the order of the code |
| `NbIot` | a cell of `scenarios/nb-cell.h` from packet to sleep | the two above, and what each UE has waiting |
| `FlsScheduler` | control law, both passes, what UEs look at when the bursts come | quota, filter states `m_q` and `m_u`, `m_channelsForRx`; `air` is the bursts of a TTI |
| `FlsScheduler_proofs` | the inductive invariant of `FlsScheduler` and what follows from it | - |
| `Applications` | CBR, VoIP, FTP2 and trace sources, start, stop, the idle timer and the wake-up of their UE | one chain of `Send` events per application in the calendar; an attempt is the event that ends it |

`MC*` modules give constants their values; `map` in `PROJECT.json` names for every
definition the lines it stands for. Definitions named `X_Something` are mutants of `X`:
the specification never uses them; a run with one in the place of `X` must find its
property violated.

Abstractions: sizes of packets and grants are small but go through the same arithmetic with the
real header sizes; whether a block is decoded, where a UE moves, when an application
sends, what a channel looks like and what a metric prefers are free choices, within the block sizes an instance gives. Times are
milliseconds. Where the code computes with doubles and only the comparison matters, the model
takes the comparison.

## 3. Runs

A property whose name covers several is a conjunction of named parts; the parts are given
in brackets.

| Run | Instance | Shows |
|---|---|---|
| `event_loop` | 4 events, delays 0, 0.5, 1 ms, set up or scheduled by handlers | types and well-formed calendar, the running event stays first, order (`DispatchOrder`), refinement of `EventOrder` (`ImplementsOrder`), events of a millisecond are served in turn (`ServedInTurn`: none is lost or pushed back, and those whose millisecond has come are started unless the simulation is stopped) |
| `frame_clock` | FDD and TDD 0-6, two gNBs, 22 TTIs (two frames and the start of a third) | `TtisInStep` (types, `ReceptionBeforeAllocation`, `CountersAgree`); each gNB is called once per opportunity and direction; the clock runs |
| `harq` | 2 UEs with one bearer each, 2 RBs, 2 pids, at most 4 transmissions, delay 1 | `BothEndsAgree` (types, `SoftCombiningInStep`, `NotSentOnceDecoded`), no early end, every process ends |
| `harq_rbs` | the same | a disagreement, section 4 |
| `um_rlc` | 2 packets, one larger than every grant; grants below and above the headers; 1 burst on the air, or 3 with HARQ | `SizesKept` (types, counters, bursts fit), `SinkServed` (whole, once, in order without HARQ), refinement of `PacketService` (`ImplementsService`), a packet larger than every grant leaves |
| `am_rlc` | 2 packets of 3 bytes retransmitted side by side and cut again, one retransmission more than `CheckForDropPackets` lets pass | `SizesKept`, `NothingLost` (`NoByteForgotten`, `AcknowledgedIsDelivered`, `SentAgainOnce`), `ReassembledOnce` (sorted list, whole and once) |
| `random_access` | both procedures; 2 UEs, 2 preambles, 2 responses, 2 inputs each, opportunity every 2 TTIs, window after 1 TTI for 3, timeout 8, idle timer 9, backoff 0 or 2, 2 failed attempts, 18 TTIs; 2 RBs of which 1 (baseline) or 2 (enhanced) may carry message 3 | `ResourcesKept` (`Msg3Exclusive`, `Msg3HasItsResource`, `NoPreambleForgotten`, `RachKeptClear`), `AttemptInOnePlace` (`AttemptWatched`, `OneMessagePending`, `AnswersInTime`) |
| `handover` | 2 UEs, a macro cell, two home base stations (one without downlink scheduler), a multicast destination, detach time 2, idle timer 3, one input per UE, 6 ms | `CellListsRight` (types, `InItsCellOnly`, `MulticastLast`), `EventsPending` (`OneTransfer`, `DetachEnds`, `ActiveIsTimed`) |
| `uplink` | 3 RBs, 2 UEs; each scheduler with up to 2 packets per UE, MT with a handover to a second gNB, MT with lost bursts | the queue size covers what waits, one user per RB, every TTI serves a report, the report follows the queue (`ReportTracksQueue`) |
| `nb_iot` | 2 UEs, 1 subcarrier, runs of 1 or 2 units, 3 packets, 24 TTIs, both schedulers; opportunities of the two classes every 6 TTIs, from 2 and 4 on with both UEs starting in class 0, or from 2 and 3 on with one UE in each | `AttemptInOnePlace` (types and ranges included), `PreambleAnswered` (in the next TTI, but for one session after each opportunity that begins one TTI after another), sleep and the scheduler's copies |
| `fls` | 3 RBs, one of which is bad for a UE and makes its blocks smaller, 2 real-time bearers and a best-effort bearer that shares a UE, filter of length 3, any order of metrics on every RB | passes, quotas, the filter, reception |
| `applications` | one source of each kind on one UE, starting at 0, 1 or 9 ms, idle timeout 4 | `PacketsWake` (types, a packet wakes, an attempt ends), `StreamIsHeard`, `PlaybackKeepsPace` |

The bounds are the smallest at which the interesting cases happen. The event loop needs
three events for an order to be wrong and a fourth to be scheduled by a handler into the
queue of the running one. Two frames contain every transition between subframes, and the
third the one between frames of different parity. HARQ needs a process that is
retransmitted while another is acknowledged and the other UE competes for the RBs: two pids
and two UEs; four transmissions distinguish the first, the middle ones and the last. RLC bugs
need a packet of at least three fragments with one lost in the middle, hence sizes above twice
the smallest grant. In random access a collision needs two UEs and one preamble, and a response
that finds no resource needs fewer resources than preambles; 18 TTIs hold two complete attempts
of a UE with a timeout between them. A handover chain needs three cells and a second handover
before the detach time of the first is over. An uplink scheduler can give an RB twice only
to two users, needs three RBs to leave one between them, and reaches its rounds when there are
fewer users than blocks. In NB-IoT 24 TTIs hold a collision, the change of class, the
second attempt and the end of the grant; one subcarrier makes the second user wait. In the second scenario an
opportunity of class 1 always follows one of class 0, the check it would need is never scheduled, and 24 TTIs are
four rounds in which sessions wait for each other's checks; two UEs make one late session at a time. The FLS
filter has memory from two coefficients on (the scenarios of the code use 3, 5, 7 and 9), and
its frame is ten calls as in the code; a scenario lets at most `MaxWaiting` packets of a bearer wait, which
keeps its queue short for TLC and is any number in the proofs. The starts 0, 1 and 9 of an application make packets meet
the attempt, the awake UE and the UE that fell asleep. Deadlock checking is off where a bound
(`MaxTTI`, `MaxPackets`, `MaxInputs`, `MaxTime`, the packets of a scenario) or `Stop` ends the
behaviour; in `Harq` and `FlsScheduler` time goes on for ever and it is on.

**Fairness.** `Run` is a loop that never waits: as long as the calendar is not empty the next
event is served. `FairSpec` of `Simulator` and `FrameManager` is therefore weak fairness
of the step of the loop. That is enough for the events of the present millisecond and not for later ones, which
a chain of events without delay keeps waiting for ever; `ServedInTurn` claims no more than the first. The bound
on the number of events has no part in it: `NeverPushedBack`, its first half, is proved for any number, and it
follows that an event whose millisecond has come is served after as many others as are ahead of it by then. In `Harq` it is the frame clock that goes on: both phases of the TTI
come again and again, and so does a TTI in which every bearer has data to send
(`Fairness` names these states, not the scheduler's choices: which UE is served first and what is decoded stay
free). `EveryProcessEnds` excepts a UE that met the fault of `harq_rbs`, because its process
indeed never ends. In `UmRlc` the grants that can carry a byte are strongly fair, as with the
round-robin scheduler, which comes back to every bearer that waits; a metric scheduler
may starve a bearer and gives no such guarantee. A burst is received or lost, weakly fair,
because `StartRx` is an event of the calendar. The other modules state no fairness: what they
promise about progress is bounded in time or in calls and stated as an invariant
(`PreambleAnswered`, `WaitsLessThanAFrame`, `PacketsWake`), and `EveryTtiServesAReport` says of each
state that any allocation made in it takes something off a report.

## 4. Where code and text disagree

`harq_rbs` is a run with `expect: violation` and a finding that quotes the line: a
retransmission that does not fit clears its list of RBs and can never be sent again; its pid is
lost. A comment says every retransmission needs the same number of RBs.

Other things met while modelling. The models do what the code does in each, and
properties except it by name where it matters:

*Event loop.* Nothing limits the events without delay: a handler that always schedules another one, as that of
a trace of zero times does (`TraceBased.cpp:172`), keeps every later millisecond waiting for ever. `ServedInTurn`
claims nothing for those. A negative delay inserts an event in the past, in front of the one that
runs; `RemoveEvent` then removes the wrong one. `DelaysAssumption` excludes it; a NB-IoT offset of 0, below, does it.

*HARQ and RLC.* Two bearers of a UE served in one TTI get the same pid and
`NewTransmission` does not keep the second (`harq-manager.cpp:131`); the instance has one bearer
per UE. A retransmission timer of an AM record may pass from 0 to -1, where it no longer is due
(`am-rlc-entity.cpp:447`): a PDU retransmitted in the rest of a grant is retransmitted once only (`SentAgainOnce` says that it is
retransmitted at least once). The sizes of the records that become due are added to the
queue's counter (line 444) and never taken off: the schedulers see more with each loss, and `QueueSizeCovers` says only
that they never see less than what waits. A grant does not look at how often a record was sent: five downlink
schedulers call `CheckForDropPackets` first, others do not, and a UE does when it reports. Without that call a segment whose
size grew by headers is cut again and again, so the model has a bound `MaxRetx`, above `MAX_AMD_RETX`.
A segment cut for a retransmission is one byte larger than the grant (line 244), never more
(part of `SizesKept`). The record of such a segment keeps the MAC header and CRC in its size
(line 277), so a later cut of it may run past its last byte: `NothingLost` excepts the packets
this happens to (`overrun`). `GetFlowsForMulticastRetransmission` erases from the list it
iterates over (`downlink-packet-scheduler.cpp:271-297`); multicast processes are not modelled.

*Handover.* A handover between two home base stations transfers nothing (`NetworkManager.cpp:718`)
and the UE is detached for the same transfer again and again. Message 4, the start of
an application or the idle timer end the detached state of a handover before the 30 ms
line 677 announces. The power-based handover manager reads a null pointer when
no node qualifies (lines 69, 109, 162 of its file); the decision is a free choice in the model.

*Uplink.* Maximum throughput may ask for more RBs than are left behind the first free one, and `at`
then throws, uncaught: `aborted` and `OutsideCarrier` stand for it. Maximum throughput and
the others read the CQI of the record before a first report set it (`GNodeB.cpp:237`). Round robin
with six RBs and two users reads past the end of a vector, and serves a user
twice when the blocks are one more than the users, keeping one of the two grants only: `NotExceeded`
excepts it. It uses the CQI as if it were the SINR in dB (lines 110-111 of its file). Allocations run over
RBs reserved for message 3 (`uplink-packet-scheduler.cpp:240`); round robin and first maximum
expansion do not look at them at all. Each fragment costs a header that the report did not
count: `LagsByHeaders`. A report does not move with a handover: a UE that has nothing new to send keeps its
data until the next packet. First maximum expansion never serves less than the bytes of one RB.

*NB-IoT.* No timeout watches an attempt. A check answers one session and schedules the next one TTI after
the next opportunity *written down so far* (`enb-nb-iot-random-access.cpp:279-284`). One that begins in the following
TTI is not, because it is written down behind the check, so it gets no check of its own: with offsets 2 and 3 and a period
of 6 the check at 3 answers session 2, the one at 9 session 3, and session 8 waits until 15 if preambles go on coming. With each such pair of
opportunities one more session is left waiting; the same holds for an opportunity in TTI 1. `PreambleAnswered` counts them (`Unchecked`) and
claims that no other session is late. An offset of 0, which `scenarios/nb-cell.h:106` accepts, makes
`SetRachReservedSubChannels` schedule itself with a negative delay, and one behind the first period lets UEs send
preambles in the opportunities of other classes before the first of their own: `NbRandomAccessAssumption`
excludes both. Message 4 reads the first queued packet without
asking whether there is one; it finds one (`AttemptInOnePlace`) because packets do not expire there.
The first user of the FIFO scheduler keeps the subcarrier while it has data. Running
units stop while no user reports and during the RACH. Bytes reported during a run lose their
place in the queue. `gnb-mac-entity.cpp:228-229` casts every random access manager to the
NB-IoT type.

*FLS.* Bearers of the types WEB, FTP2 and external are never served. Every bearer's QoS is
cast to `QoSForFLS` before its type is known. The pid of every block is 0. The UEs have forgotten
their RBs when the burst of the second pass comes, so that best-effort blocks are taken without a check,
and a UE with blocks of both passes judges the first on the RBs of the second: the exceptions of
`CheckedOnOwnRBs`. With TDD the control law runs every ten downlink calls, not every frame. The code computes an
MCS from the CQI of the RBs a flow has so far; `TBSize` gives a size to every set of RBs, in any relation to each other, but the
same in every TTI.

*Applications.* A stream throws packets away while its UE is not active and does not wake it, so a
stream with a gap longer than the idle timeout would fall silent for good (`StreamIsHeard` has
the condition). An uplink stream reads the state of the gNB, which is never initialised; all
scenarios use streams downlink. A trace file that ends with a newline repeats its last line, its
comparison with 'PB' is never true, and a trace of zero times never ends. An application that is
started after its stop time sends one packet. The wake-up of a UE is part of the code that prints a
trace: with `_APP_TRACING_` off (`Application.cpp:428`; `load-parameters.h:66` has it on, as the model does) packets would wake nobody. A draw of 0 makes an FTP2 interval
infinite, and a short one rounds to 0, so nothing is said about progress there. `Stop` does nothing.
`FlowsManager` leaves its pointer uninitialised for types it does not know.

## 5. Proofs

`Simulator_proofs` proves for any set of delays and any number of events, from
`DelaysAssumption` (delays are not negative) and `MaxUidAssumption` alone:

* `InductiveInvariant`: `Spec => []IInv`;
* `TypeCorrect`: types, and no empty queue in the map;
* `RunningEventStaysFirst`: while a handler runs, its event is the first of the calendar,
  so that `RemoveEvent`, which removes whatever is first, removes the right one;
* `EventsRunInOrder`: events run in the order of `event_compare`, none twice;
* `EventsKeepTheirPlace`: `Spec => [][NeverPushedBack]_vars`, an event leaves the calendar only when it has run, and
  only events of an earlier millisecond get in front of it. `PlaceOfEvent` finds an event in
  the queue of its time stamp, the end of which is where a new one goes and the head of which is what `RemoveEvent` takes.

The invariant: `RunningEventIsFirst` is not inductive. A handler may insert at any time not
before now, so every key must be at least the current time; the event is the head of its
queue only because insertions go to the tail and uids grow, so every queue is sorted by uid
and every uid is below the counter; after `RemoveEvent` the next event is later only if all
that is left is later. `IInv` is the conjunction of these. That a smallest key exists is
stated as a conjunct, `WellOrdered(DOMAIN m_events)`, and kept by insertion and removal, because delays
need not be whole milliseconds there. `event_loop` checks
the two conjuncts that are properties of their own. The proof has a lemma per operation of the calendar, one per action, and
`NextKeepsIInv` combines them.

The same module proves `LoopImplementsOrder`: `Spec => ImplementsOrder`, the refinement of
`EventOrder`, in which there are no queues and no map, only a set of pending events. The mapping
takes the set of all events in the calendar, without the one that is running. `InsertedEvents`
and `RemovedEvents` say what the operations of the calendar do to that set, and each action is one of
`EventOrder` or a stutter: `RemoveEvent` stutters because its event left the set when it was
taken, and that is where the inductive invariant is needed, since what it removes must be that event.

`Harq_proofs` proves, for any number of UEs, RBs, pids, transmissions and any delay, whatever is
lost and whatever the metrics prefer:

* `HarqInvariant`: `Spec => []IInv`;
* `HarqInStep`: `BothEndsAgree`, the two ends count the transmissions of every block alike and
  no decoded block is sent again;
* `HarqGivesUpLast`: `NotGivenUpEarly`, a process goes only with an ACK or after its last transmission.

They assume `HarqAssumption` (at least two transmissions of a block: with one, the receive process
would outlive the block) and `OneBearerPerUE`. Without the latter they are false, see section 4: two bearers
served in one TTI share a pid. `BothEndsAgree` speaks only of the moments between two
bursts; the invariant adds what holds while one is on its way: the process of its block is one
transmission ahead of the UE (`UnderWay`) and all others are in step (`Settled`). It speaks of one
UE at a time (`IInvUEByUE`), although `RBsAllocation` serves all of them from the same RBs:
`ScheduledUE` shows that whatever the allocation, a UE is sent nothing, one block
again or one new block, because it has one process that is due at most
(`OneRetransmission`) and a UE that is sent a block again gets no new one. `Dropped` shows why the processes
that are erased when they were sent often enough are none the UE still combines.

`FrameManager_proofs` proves, for any gNBs, any number of TTIs, both frame structures, all TDD
configurations, and whatever the schedulers send:

* `FrameTtisInStep`: `TtisInStep`, in particular that all that was sent in a TTI was received before a
  gNB is called for the next, and that the counters of the frame clock, the TTI and the time agree;
* `FrameCallsEveryCell`: `EveryCellEveryTTI`, each gNB is called exactly once per opportunity.

They assume `CellsAssumption` (no gNB is twice in the containers) and `StructureAssumption`. Neither
property is inductive, because each depends on what is in the queues and in which order. The invariant
gives the calendar as a whole: it never holds more than the queues of this
millisecond and of the next (`TwoQueues`), and these have one of three shapes (`Shape`): the
bursts of the last TTI and behind them one event of the clock (`Clock`); the end of a subframe and behind
it its bursts (`Stopping`); the calls not yet made, with the end of the subframe and the bursts of the cells
already called in the next millisecond (`Allocating`). `Scheduled` says what a handler that schedules
events leaves of two queues, and each action leads from one shape to another. With `k` calls
made, the first `k` gNBs count one opportunity more than the others (`CalledFor`);
`OpportunityStep` counts them one TTI at a time.

`DataStructures_proofs` holds no results about the system, but the facts about the
operators of `EventCalendar` and `MacQueue` that the next four modules cite. A list of any length is treated by induction:
`LeastNatural` takes from the well-foundedness of the naturals that every set of them has a smallest
element, `Induction` and `Recursion` follow with a *set* in the place of the predicate, and
the sums and loops of the modules, which are recursive functions (in `InsertAll`, `Kept`, `FillBurst`,
`BurstSize`, ...), are thereby known to have the values their equations give. What
`InsertEvent`, `RemoveEvent` and the removal of an idle timer do to a calendar is said without places in
queues: which events are in it, that there is at most one of a kind (`Once`), that those of one kind come before
those of another (`Ahead`). What a queue keeps is that its counters are what waits and that only its head is cut.

`Handover_proofs` proves, for any UEs, base stations, multicast destinations, channels
and delays, whatever handovers are decided, whatever wakes a UE and whenever:

* `Invariant`: `Spec => []IInv`;
* `CellLists`: `CellListsRight`, a UE is registered once and in its target cell, listens to the channels
  of that cell only, once, and before the multicast destinations;
* `Pending`: `EventsPending`, there is at most one transfer of a UE, to another cell, and the events
  that end its detachment and its activity are scheduled.

They assume the assumptions of `Handover`: a UE is not a multicast destination, devices are finitely many (lists
are made of them), the channels are those of the code, delays are positive. Neither
property is inductive. A second decision before the transfer of the first would move a UE from a cell it is not in; what
prevents it is an order in the calendar, that the transfer is *ahead* of the next
position update of its UE (`PendingRight`), in the same millisecond too. The lists are not described by their length but by who is in them once
(`AtMostOnce`) and by a device that may not come behind a multicast destination; `InsertKeeps` and
`ListWithoutIs` say what attaching and detaching leave of that.

`FlsScheduler_proofs` proves, for any number of bearers, UEs, RBs and coefficients of the filter, any
packets, any block sizes and any order in which the metrics prefer the bearers:

* `Typed`: types, counters of the queues included;
* `Leftovers`: `BestEffortGetsLeftovers`, no RB twice, none for best effort while a real-time bearer
  of the first pass could use it;
* `Quota`: `QuotaKept`, a bearer that gets a block had got less than its quota;
* `Wait`: `WaitsLessThanAFrame`, a bearer with packets is without a quota for fewer than ten calls;
* `OwnRBs`: `CheckedOnOwnRBs`, with its two exceptions.

`RBsAllocationIs` is an induction over the RBs of a pass: no bearer has an RB of another or one behind the current, and
a pass that ends before its last RB has served every bearer (`IsGiven`). `FilterIs` keeps the control law
within the natural numbers. Two invariants say what no state shows by itself. Bytes are taken off a
quota one call after they were sent, when the queue has already lost them: what is left and not
taken off adds up to the quota (`QuotaRight`). And a bearer without a quota has waited for no more
calls than the frame is old (`WaitRight`), since the control law of the first call serves all.
`AirRight` says that the RBs a UE looks at are those of the last burst that names it.
`FlsAssumption` asks for what the code's types and its QoS parameters give: finitely many bearers, at least one RB, three
coefficients or more.

`UmRlc_proofs` proves, for packets and grants of any size, any cuts, drops and losses and, with HARQ, any number of bursts
that overtake each other:

* `Invariant`: `Spec => []IInv`;
* `Accounting`: `SizesKept`, what the schedulers read of a bearer is what waits, and no burst exceeds its grant;
* `Sink`: `SinkServed`, only whole packets are passed on, each once; without HARQ in order, and
  every packet whose bytes all arrived;
* `BearerIsAService`: `Spec => ImplementsService`, the refinement of `PacketService`.

The receiver never looks at bytes: it counts fragments and compares with the number of the last. That this is
enough needs the invariant. Every PDU of a packet is a range of its bytes, and of two PDUs one was cut before the other:
the next byte follows exactly where the next number does (`Apart`). The queue has gone on from every
PDU that was cut from it (`GoneOn`). Then the fragments kept have different numbers, and a count equal to the number of
the last one leaves no byte out (`NumbersAreBytes`, `CountedIsWhole`, with an injection of
the library's `FiniteSetTheorems` between fragments and numbers). Without HARQ nothing overtakes, so what is on the air comes behind all that
was received (`InTurn`), and a packet is complete when its last fragment comes, if it ever is.

In `PacketService` there are no bytes: packets are accepted, pending, and delivered or lost. The mapping takes for pending
the packets each byte of which waits in the queue, is on the air or is kept by the receiver (`Intact`). `ApplicationSends` is
`Accept`; every other step is `Settle`, or a stutter, which asks for three things the invariants alone do not say. No
packet becomes pending again: no byte comes back to a queue that has gone on (`NoByteComesBack`), what goes on the air has
waited (`SentBytesWaited`), and what the receiver keeps was kept or is in the burst. What is delivered was pending: `BurstPassesOnWhole`
applies the induction over the bursts to a receiver of which only the fragments at hand have arrived. And
what was delivered is never pending again, nor, in order, anything older: a pending packet waits or has its last byte on
the air (`LastByteRemains`).

`RandomAccess_proofs` proves, for any UEs, preambles and responses, any number of RBs, either manager, any
delays and waiting times within the assumptions, whatever UEs do and choose and whatever the uplink scheduler
grants:

* `Invariant`: `Spec => []IInv`;
* `Typed`: `TypeOK`;
* `ResourcesAreKept`: `ResourcesKept`, no two messages 3 on one RB, each on an RB that is reserved for it and in
  the TTI it was reserved in, no preamble forgotten, no RB of an opportunity granted;
* `Attempt`: `AttemptInOnePlace`, an attempt is watched by a timeout, has one message under way, and every message is
  due before the timeout.

They assume `TimerAssumption` and `NumberAssumption`. Both hold of the numbers in the code; two parts of the first were found
in the proof and are no more than that: the opportunities of a response window must be written down when the window is
shared out (`m_ripInt + m_responseWindowDuration <= PredictionWindow`, 5 + 5 <= 14), otherwise
message 3 would be put on the RBs of an opportunity; and TTI 1, in which none is written down yet, must
not be one (`1 % m_ripInt >= m_PreambleDuration`), because grants of that TTI would use it.

None of the three is inductive. That RBs of an opportunity are kept clear needs how far the map is known,
and that the handler that writes it down runs before the first allocation it matters for (`RachRight`,
`EarlyRight`: the events of a TTI that come before the start of its subframe are *ahead* of it in its
queue). That a session is answered once and none is skipped needs that `CheckCollisions` is never later than the
oldest session (`CheckRight`). That an attempt is in one place needs the time it began, which no
variable holds: it is the time stamp of the timeout less its delay, and `OnTime` says how far each
message can be from it: message 1 in the first opportunity, the session one interval later at most,
message 3 within the window behind it, message 4 in the TTI after that. So the timeout, longer
than all of them, finds nothing of its attempt under way, and the attempt that follows has its own message only.
That responses do not share a resource is about a fold over a session, written as a recursive function: `Shared` gives
what is free, reserved, and set aside for each preamble after every message, and that the
three have nothing in common; `Heard` gives whose message each response answers. `UeStep` and `CellStep` state once what the
handlers have in common, so that each action only has to say which events it takes and adds.

TLC checked `IInv` of each of the last four modules on an instance before its proof was begun.

Model-checked only:

* the invariants of `AmRlc`, `UplinkScheduler`, `NbIot` and `Applications`, and the action
  property `ReportTracksQueue` of `UplinkScheduler`. Nothing about them is beyond the method, they are next in the plan.
  Their steps go through the library's folds and `SelectSeq`, which no prover here
  can expand, so the loops must first be written as recursive functions, as was done
  for `MacQueue`, `UmRlc`, `FlsScheduler`, `Handover` and `RandomAccess`;
* every liveness property (the second half of `ServedInTurn`, `ClockRuns`, `EveryProcessEnds`, `EveryPacketLeaves`): no prover here handles
  fairness together with ENABLED.

## 6. Not modelled

Floating-point physics (propagation, interference, SINR, precoding, error models), mobility
and topology, tables (AMC, codebooks, traces), constructors of scenarios, printing and traces; the
TM RLC entity, which nothing creates.
Of the modelled components:

* HARQ: MU-MIMO, multicast processes, the new manager at a handover;
* RLC: infinite-buffer sources, which bypass queue and records;
* frame clock: the number of bursts a call sends (one stands for those of all granted UEs, and for both passes of FLS: they
  are received in the same millisecond one after the other), MBSFN patterns, the NB-IoT TTI length, channel realizations at a handover;
* random access: a handover during an attempt;
* schedulers: metrics, quality reports and power; MBSFN in FLS;
* NB-IoT: expiry of packets and downlink traffic (no scenario has either);
* applications: RTAD (FTP2 with another draw for the size of a burst), WEB (no scenario uses it, and its
  conversion of the logarithm of a negative number is undefined), infinite buffers (no events), multicast
  destinations, and the series of attempts of one random access, which ends well or not here.

The map covers less than a tenth of the lines of the repository, and it could not cover a third:
of some 84,000 lines about 27,800 are video traces, 5,900 channel models and their tables of
fading, 3,300 tables of transport blocks and CQI, 11,600 functions of scenarios and tests that create
objects; most of the rest are headers, constructors, accessors, geometry and floating-point
formulas, which have no behaviour a model checker could explore.

## 7. Plan

Done: the event loop, the frame clock and HARQ with proofs; MAC queue, UM and AM RLC; random access,
baseline, enhanced and NB-IoT; handover; uplink schedulers, NB-IoT ones included; FLS;
applications.

With proofs: also the calendar and the MAC queue as a library of lemmas, handover, FLS, UM RLC (with the refinement of `PacketService`) and random access.

Theorems to prove next, in this order: `AmRlc.SizesKept`, whose burst is filled by the operators
`DataStructures_proofs` knows, then `NothingLost`; `Applications.PacketsWake`, a timer in the calendar like the idle
timer of `RandomAccess`; `OneUserPerRB` and `QueueSizeCovers` of `UplinkScheduler`, an
induction over the RBs like that of FLS; the attempts of `NbIot`, with `OnTime` as a pattern although
no timeout watches them.

Then, each in the place of a run it contains, because the project is at the size that is checked in
reasonable time: `Harq` and `RandomAccess` with `Handover` (processes and messages that
outlive the cell they belong to), MBSFN subframes in `FrameManager` and `FlsScheduler`, MU-MIMO in
`Harq`.
