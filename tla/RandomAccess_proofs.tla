------------------------- MODULE RandomAccess_proofs -------------------------
(***************************************************************************)
(* Proofs about the random access procedure, for any number of UEs,        *)
(* preambles and RBs, either of the two managers, any delays that keep the *)
(* order of the code's, and any number of failed attempts: what an attempt *)
(* needs of the cell is kept for it until it is used, and an attempt is in *)
(* one place and watched by one timeout.                                   *)
(*                                                                         *)
(* The invariant describes the calendar: which events are pending, at most *)
(* once, and how late they can be when the timeout of the attempt is still *)
(* to come.                                                                *)
(***************************************************************************)
EXTENDS RandomAccess, DataStructures_proofs, FiniteSetTheorems

-----------------------------------------------------------------------------
(***************************************************************************)
(* The inductive invariant                                                 *)
(***************************************************************************)

Messages == [ue : UEs, preamble : Preambles, selectedRar : SelectedRar]

Resources == Nat \X RBs

Events == [ts : Nat, kind : {"StartSubframe", "StopSubframe", "SetRachReservedSubChannels",
                             "CheckCollisions", "ResourceBlocksAllocation"}]
          \cup [ts : Nat, kind : UeKinds \ {"SendMessage3"}, ue : UEs]
          \cup [ts : Nat, kind : {"SendMessage3"}, ue : UEs, tti : Nat, rb : RBs]

OfKinds(kinds) == {e \in Events : e.kind \in kinds}
OfUe(kinds, ue) == {e \in Events : e.kind \in kinds \cap UeKinds /\ e.ue = ue}

Clock == OfKinds({"StartSubframe", "StopSubframe"})
Watch(ue) == OfUe({"ReStartRaProcedure"}, ue)
Idle(ue) == OfUe({"SetNodeState"}, ue)
InFlight(ue) == OfUe({"SendMessage1", "SendMessage3", "SendMessage4"}, ue)

\* The events that run before StartSubframe in the millisecond numbered as their TTI.
EarlyKinds == {"SetRachReservedSubChannels", "CheckCollisions", "SendMessage1", "SendMessage3"}
Early(tti) == {e \in OfKinds(EarlyKinds) : e.ts <= tti}

\* The TTI is one of the RACH opportunities.
Opportunity(tti) == tti % m_ripInt < m_PreambleDuration

VariablesTyped ==
    /\ m_type \in Types
    /\ m_currentTs \in Nat
    /\ m_TTICounter \in 0..MaxTTI
    /\ m_RBsReservedForRach \subseteq Resources
    /\ m_RBsReservedForCCCH \subseteq Resources
    /\ DOMAIN m_savedRachSessions \subseteq Nat
    /\ \A t \in DOMAIN m_savedRachSessions : m_savedRachSessions[t] \in Seq(Messages)
    /\ m_state \in [UEs -> {"IDLE", "ACTIVE"}]
    /\ m_RaProcedureActive \in [UEs -> BOOLEAN]
    /\ m_nbFailedAttempts \in [UEs -> 0..(m_maxFailedAttempts - 1)]
    /\ granted \subseteq RBs
    /\ inputs \in [UEs -> 0..MaxInputs]

CalendarRight(cal, now) ==
    /\ IsCalendar(cal, Events)
    /\ \A e \in EventsOf(cal) : now <= e.ts

\* The frame clock is in one place, and the TTI counter follows it.
ClockRight(cal, now, tti, grants) ==
    /\ Once(cal, Clock)
    /\ EventsOf(cal) \cap Clock # {}
    /\ tti <= now + 1
    /\ \A e \in EventsOf(cal) :
        /\ e.kind \in {"StartSubframe", "StopSubframe"} => e.ts = tti
        /\ e.kind = "StartSubframe" => now = tti /\ grants = {}
        /\ e.kind = "ResourceBlocksAllocation" => e.ts + 1 = tti
    /\ Opportunity(tti) => grants \cap RachRBs = {}

EarlyRight(cal, tti) ==
    /\ \A e \in EventsOf(cal) : e.kind \in EarlyKinds => tti <= e.ts
    /\ Ahead(cal, Early(tti), OfKinds({"StartSubframe"}))

\* The opportunities of the TTIs from..to are written down.
Known(map, from, to) ==
    \A tti \in from..to : Opportunity(tti) => {tti} \X RachRBs \subseteq map

RachRight(cal, tti, map, saved) ==
    /\ Once(cal, OfKinds({"SetRachReservedSubChannels"}))
    /\ EventsOf(cal) \cap OfKinds({"SetRachReservedSubChannels"}) # {}
    /\ \A e \in EventsOf(cal) : e.kind = "SetRachReservedSubChannels" =>
        \/ e.ts = 1 /\ map = {} /\ DOMAIN saved = {}
        \/ Known(map, tti, e.ts - m_ripInt + PredictionWindow)
    /\ \A r \in map : Opportunity(r[1]) /\ r[2] \in RachRBs

CheckRight(cal, tti, saved) ==
    /\ Once(cal, OfKinds({"CheckCollisions"}))
    /\ EventsOf(cal) \cap OfKinds({"CheckCollisions"}) # {}
    /\ \A e \in EventsOf(cal) : e.kind = "CheckCollisions" =>
        /\ e.ts <= tti + 1
        /\ \A t \in DOMAIN saved : e.ts <= t + m_responseWindowDelay

Msg3Right(cal, map) ==
    /\ \A e \in EventsOf(cal) : e.kind = "SendMessage3" =>
        /\ e.ts = e.tti
        /\ <<e.tti, e.rb>> \in map
        /\ ~(Opportunity(e.tti) /\ e.rb \in RachRBs)
    /\ \A e, f \in EventsOf(cal) :
        /\ e.kind = "SendMessage3" /\ f.kind = "SendMessage3"
        /\ e.tti = f.tti /\ e.rb = f.rb
        => e = f

\* Message i of session t is one of the UE.
Saves(saved, t, i, ue) == t \in DOMAIN saved /\ i \in 1..Len(saved[t]) /\ saved[t][i].ue = ue

IsSaved(saved, ue) == \E t, i : Saves(saved, t, i, ue)

SavedOnce(saved, ue) ==
    \A t, i, u, j : Saves(saved, t, i, ue) /\ Saves(saved, u, j, ue) => t = u /\ i = j

\* The attempt that began at time since is as far as it can be.
OnTime(cal, saved, ue, since) ==
    /\ \A t, i : Saves(saved, t, i, ue) => t <= since + m_ripInt
    /\ \A e \in EventsOf(cal) \cap InFlight(ue) :
        /\ e.kind = "SendMessage1" =>
            e.ts > since /\ \A tti \in (since + 1)..(e.ts - 1) : ~Opportunity(tti)
        /\ e.kind = "SendMessage3" =>
            e.ts <= since + m_ripInt + m_responseWindowDelay + m_responseWindowDuration
        /\ e.kind = "SendMessage4" =>
            e.ts <= since + m_ripInt + m_responseWindowDelay + m_responseWindowDuration + 1

UeRight(cal, now, saved, ue, state, active) ==
    /\ Once(cal, Watch(ue)) /\ Once(cal, Idle(ue)) /\ Once(cal, InFlight(ue))
    /\ SavedOnce(saved, ue)
    /\ state = "ACTIVE" <=> EventsOf(cal) \cap Idle(ue) # {}
    /\ active => EventsOf(cal) \cap Watch(ue) # {}
    /\ ~active => EventsOf(cal) \cap InFlight(ue) = {} /\ ~IsSaved(saved, ue)
    /\ ~active /\ state # "ACTIVE" => EventsOf(cal) \cap Watch(ue) = {}
    /\ IsSaved(saved, ue) => EventsOf(cal) \cap InFlight(ue) = {}
    /\ \A r \in EventsOf(cal) \cap Watch(ue) :
        /\ r.ts - m_RAProcedureTimeout \in 0..now
        /\ \A e \in EventsOf(cal) \cap Idle(ue) : r.ts < e.ts
        /\ OnTime(cal, saved, ue, r.ts - m_RAProcedureTimeout)

CellRight(cal, now, tti, grants, rach, ccch, saved) ==
    /\ ClockRight(cal, now, tti, grants)
    /\ EarlyRight(cal, tti)
    /\ RachRight(cal, tti, rach, saved)
    /\ CheckRight(cal, tti, saved)
    /\ Msg3Right(cal, ccch)

IInv ==
    /\ VariablesTyped
    /\ CalendarRight(m_events, m_currentTs)
    /\ CellRight(m_events, m_currentTs, m_TTICounter, granted, m_RBsReservedForRach,
                 m_RBsReservedForCCCH, m_savedRachSessions)
    /\ \A ue \in UEs : UeRight(m_events, m_currentTs, m_savedRachSessions, ue,
                               m_state[ue], m_RaProcedureActive[ue])

-----------------------------------------------------------------------------
(***************************************************************************)
(* Events                                                                  *)
(***************************************************************************)

\* What the proofs use of the constants.
LEMMA Values ==
    /\ m_ripInt \in Nat \ {0} /\ m_PreambleDuration \in Nat \ {0}
    /\ m_responseWindowDelay \in Nat \ {0} /\ m_responseWindowDuration \in Nat \ {0}
    /\ m_maxFailedAttempts \in Nat \ {0}
    /\ m_RAProcedureTimeout \in Nat /\ m_activityTimeout \in Nat /\ Backoffs \subseteq Nat
    /\ NbRBs \in Nat /\ NbRachRBs \in Nat \ {0} /\ NbRachRBs <= NbRBs /\ RachRBs \subseteq RBs
    /\ MaxTTI \in Nat /\ MaxInputs \in Nat
    /\ \A t \in Types : NbCcchRBs[t] \in Nat /\ NbCcchRBs[t] <= NbRBs
    /\ PredictionWindow \in Nat /\ m_ripInt + m_responseWindowDuration <= PredictionWindow
    /\ m_RAProcedureTimeout
            > m_ripInt + m_responseWindowDelay + m_responseWindowDuration + 1
    /\ m_activityTimeout > m_RAProcedureTimeout
    /\ ~Opportunity(1)
BY NumberAssumption, TimerAssumption DEF PredictionWindow, RachRBs, RBs, Opportunity

\* The fields of an event.
LEMMA EventFields ==
    ASSUME NEW e \in Events
    PROVE  /\ e.ts \in Nat
           /\ e.kind \in UeKinds => e.ue \in UEs
           /\ e.kind = "SendMessage3" => e.tti \in Nat /\ e.rb \in RBs
           /\ e.kind = "ResourceBlocksAllocation" \/ e \in Clock
              \/ e.kind \in {"SetRachReservedSubChannels", "CheckCollisions"}
              \/ e.kind \in UeKinds
BY DEF Events, UeKinds, Clock, OfKinds

\* The kinds of events the invariant speaks of.
LEMMA EventKinds ==
    ASSUME NEW e \in Events
    PROVE  /\ e \in Clock <=> e.kind \in {"StartSubframe", "StopSubframe"}
           /\ \A kinds : e \in OfKinds(kinds) <=> e.kind \in kinds
           /\ \A ue : e \in Watch(ue) <=> e.kind = "ReStartRaProcedure" /\ e.ue = ue
           /\ \A ue : e \in Idle(ue) <=> e.kind = "SetNodeState" /\ e.ue = ue
           /\ \A ue : e \in InFlight(ue) <=>
                /\ e.kind \in {"SendMessage1", "SendMessage3", "SendMessage4"}
                /\ e.ue = ue
           /\ \A tti : e \in Early(tti) <=> e.kind \in EarlyKinds /\ e.ts <= tti
BY DEF Clock, OfKinds, Watch, Idle, InFlight, OfUe, UeKinds, Early

\* The events a step schedules.
LEMMA NewEvents ==
    ASSUME NEW ts \in Nat
    PROVE  /\ \A kind \in {"StartSubframe", "StopSubframe", "SetRachReservedSubChannels",
                           "CheckCollisions", "ResourceBlocksAllocation"} :
                /\ At(ts, kind) \in Events
                /\ At(ts, kind).ts = ts
                /\ At(ts, kind).kind = kind
           /\ \A kind \in UeKinds \ {"SendMessage3"}, ue \in UEs :
                /\ UeAt(ts, kind, ue) \in Events
                /\ UeAt(ts, kind, ue).ts = ts
                /\ UeAt(ts, kind, ue).kind = kind
                /\ UeAt(ts, kind, ue).ue = ue
           /\ \A ue \in UEs, rb \in RBs :
                /\ Msg3At(ts, ue, rb) \in Events
                /\ Msg3At(ts, ue, rb).ts = ts
                /\ Msg3At(ts, ue, rb).kind = "SendMessage3"
                /\ Msg3At(ts, ue, rb).ue = ue
                /\ Msg3At(ts, ue, rb).tti = ts
                /\ Msg3At(ts, ue, rb).rb = rb
BY DEF Events, At, UeAt, Msg3At

\* Of a kind that is pending once, two events are the same.
LEMMA OnceSame ==
    ASSUME NEW cal, NEW X, Once(cal, X),
           NEW e \in EventsOf(cal), NEW f \in EventsOf(cal), e \in X, f \in X
    PROVE  e = f
<1>1. PICK t \in DOMAIN cal : \E i \in 1..Len(cal[t]) : e = cal[t][i]
  BY EventPlaces
<1>2. PICK i \in 1..Len(cal[t]) : e = cal[t][i]
  BY <1>1
<1>3. PICK u \in DOMAIN cal : \E j \in 1..Len(cal[u]) : f = cal[u][j]
  BY EventPlaces
<1>4. PICK j \in 1..Len(cal[u]) : f = cal[u][j]
  BY <1>3
<1> QED
  BY <1>2, <1>4 DEF Once

\* Events of which there are none are behind all others.
LEMMA AheadOfNone ==
    ASSUME NEW cal, NEW X, NEW Y, EventsOf(cal) \cap Y = {}
    PROVE  Ahead(cal, X, Y)
<1>1. \A t \in DOMAIN cal : \A i \in 1..Len(cal[t]) : cal[t][i] \in EventsOf(cal)
  BY EventPlaces
<1>2. \A t \in DOMAIN cal : \A i \in 1..Len(cal[t]) : cal[t][i] \notin Y
  BY <1>1
<1> QED
  BY <1>2 DEF Ahead

\* A calendar from which some events have gone, stay having stayed, and in which
\* those of the list es were scheduled.
Moves(cal, new, stay, es) ==
    /\ IsCalendar(new, Events)
    /\ stay \subseteq EventsOf(cal)
    /\ EventsOf(new) = stay \cup EventsIn(es)
    /\ EventsOf(new) \subseteq Events
    /\ \A X : Once(cal, X) /\ EventsIn(es) \cap X = {} => Once(new, X)
    /\ \A X : /\ Once(cal, X) /\ stay \cap X = {}
              /\ \A i, j \in 1..Len(es) : es[i] \in X /\ es[j] \in X => i = j
              => Once(new, X)
    /\ \A X, Y : Ahead(cal, X, Y) /\ EventsIn(es) \cap (X \cup Y) = {} => Ahead(new, X, Y)

\* The lists of the steps.
LEMMA ShortLists ==
    /\ <<>> \in Seq(Events) /\ Len(<<>>) = 0 /\ EventsIn(<<>>) = {}
    /\ \A a \in Events : /\ <<a>> \in Seq(Events) /\ EventsIn(<<a>>) = {a}
                         /\ Len(<<a>>) = 1 /\ <<a>>[1] = a
    /\ \A a, b \in Events : /\ <<a, b>> \in Seq(Events) /\ EventsIn(<<a, b>>) = {a, b}
                            /\ Len(<<a, b>>) = 2 /\ <<a, b>>[1] = a /\ <<a, b>>[2] = b
    /\ \A es \in Seq(Events), a \in Events :
            /\ Append(es, a) \in Seq(Events) /\ EventsIn(Append(es, a)) = EventsIn(es) \cup {a}
            /\ Len(Append(es, a)) = Len(es) + 1
            /\ \A i \in 1..Len(es) : Append(es, a)[i] = es[i]
            /\ Append(es, a)[Len(es) + 1] = a
<1>1. <<>> \in Seq(Events) /\ Len(<<>>) = 0 /\ EventsIn(<<>>) = {}
  BY DEF EventsIn
<1>2. ASSUME NEW a \in Events
      PROVE  /\ <<a>> \in Seq(Events) /\ EventsIn(<<a>>) = {a}
             /\ Len(<<a>>) = 1 /\ <<a>>[1] = a
  <2>1. Len(<<a>>) = 1 /\ <<a>>[1] = a /\ 1..1 = {1}
    OBVIOUS
  <2>2. EventsIn(<<a>>) = {a}
    BY <2>1 DEF EventsIn
  <2> QED
    BY <2>1, <2>2
<1>3. ASSUME NEW a \in Events, NEW b \in Events
      PROVE  /\ <<a, b>> \in Seq(Events) /\ EventsIn(<<a, b>>) = {a, b}
             /\ Len(<<a, b>>) = 2 /\ <<a, b>>[1] = a /\ <<a, b>>[2] = b
  <2>1. Len(<<a, b>>) = 2 /\ <<a, b>>[1] = a /\ <<a, b>>[2] = b /\ 1..2 = {1, 2}
    OBVIOUS
  <2>2. EventsIn(<<a, b>>) = {a, b}
    BY <2>1 DEF EventsIn
  <2>3. <<a, b>> \in Seq(Events)
    OBVIOUS
  <2> QED
    BY <2>1, <2>2, <2>3
<1>4. ASSUME NEW es \in Seq(Events), NEW a \in Events
      PROVE  /\ Append(es, a) \in Seq(Events) /\ EventsIn(Append(es, a)) = EventsIn(es) \cup {a}
             /\ Len(Append(es, a)) = Len(es) + 1
             /\ \A i \in 1..Len(es) : Append(es, a)[i] = es[i]
             /\ Append(es, a)[Len(es) + 1] = a
  <2>1. PICK t : t = Append(es, a)
    OBVIOUS
  <2>2. /\ t \in Seq(Events) /\ Len(es) \in Nat /\ Len(t) = Len(es) + 1
        /\ \A i \in 1..Len(es) : t[i] = es[i]
        /\ t[Len(es) + 1] = a
    BY <2>1
  <2>3. EventsIn(t) = EventsIn(es) \cup {a}
    BY <2>2 DEF EventsIn
  <2> QED
    BY <2>1, <2>2, <2>3
<1> QED
  BY <1>1, <1>2, <1>3, <1>4

\* An event joins a list.
LEMMA Appended ==
    ASSUME NEW es \in Seq(Events), NEW a \in Events
    PROVE  /\ Append(es, a) \in Seq(Events) /\ EventsIn(Append(es, a)) = EventsIn(es) \cup {a}
           /\ Len(Append(es, a)) = Len(es) + 1
           /\ \A i \in 1..Len(es) : Append(es, a)[i] = es[i]
           /\ Append(es, a)[Len(es) + 1] = a
BY ShortLists

\* The first event is served, and those of the list es are scheduled meanwhile.
LEMMA Served ==
    ASSUME NEW cal, IsCalendar(cal, Events), ~IsEmpty(cal), NEW es \in Seq(Events),
           \A i \in 1..Len(es) : GetEvent(cal).ts <= es[i].ts
    PROVE  \E stay :
            /\ Moves(cal, RemoveEvent(InsertAll(cal, es)), stay, es)
            /\ GetEvent(cal) \in Events
            /\ EventsOf(cal) = stay \cup {GetEvent(cal)}
            /\ \A e \in EventsOf(cal) : GetEvent(cal).ts <= e.ts
            /\ \A X : Once(cal, X) /\ GetEvent(cal) \in X => stay \cap X = {}
            /\ \A X, Y : Ahead(cal, X, Y) /\ GetEvent(cal) \in Y => EventsOf(cal) \cap X = {}
<1>1. PICK f, rest, new : /\ f = GetEvent(cal) /\ rest = RemoveEvent(cal)
                          /\ new = RemoveEvent(InsertAll(cal, es))
  OBVIOUS
<1>2. f \in EventsOf(cal) /\ f \in Events /\ \A e \in EventsOf(cal) : f.ts <= e.ts
  BY <1>1, FirstEvent, EventTypes
<1>3. \A i \in 1..Len(es) : es[i] \in Events /\ es[i].ts \in Nat /\ f.ts <= es[i].ts
  BY <1>1, EventFields
<1>4. new = InsertAll(rest, es)
  BY <1>1, <1>3, RemoveAllInserted
<1>5. /\ IsCalendar(rest, Events)
      /\ EventsOf(cal) = EventsOf(rest) \cup {f}
      /\ \A X : Once(cal, X) => Once(rest, X) /\ (f \in X => EventsOf(rest) \cap X = {})
      /\ \A X, Y : Ahead(cal, X, Y) =>
            Ahead(rest, X, Y) /\ (f \in Y => EventsOf(cal) \cap X = {})
  BY <1>1, RemoveIs
<1>6. /\ IsCalendar(new, Events)
      /\ EventsOf(new) = EventsOf(rest) \cup EventsIn(es)
      /\ \A X : /\ Once(rest, X)
                /\ \A i, j \in 1..Len(es) : es[i] \in X /\ es[j] \in X => i = j
                /\ EventsIn(es) \cap X # {} => EventsOf(rest) \cap X = {}
                => Once(new, X)
      /\ \A X, Y : Ahead(rest, X, Y) /\ EventsIn(es) \cap (X \cup Y) = {} => Ahead(new, X, Y)
  BY <1>3, <1>4, <1>5, InsertAllIs
<1>7. EventsOf(new) \subseteq Events
  BY <1>6, EventTypes
<1>8. ASSUME NEW X, Once(cal, X), EventsIn(es) \cap X = {}
      PROVE  Once(new, X)
  <2>1. \A i \in 1..Len(es) : es[i] \notin X
    BY <1>8 DEF EventsIn
  <2> QED
    BY <1>5, <1>6, <1>8, <2>1
<1>9. Moves(cal, new, EventsOf(rest), es)
  BY <1>5, <1>6, <1>7, <1>8 DEF Moves
<1> QED
  BY <1>1, <1>2, <1>5, <1>9

\* One more event is scheduled outside of any event.
LEMMA Added ==
    ASSUME NEW cal, IsCalendar(cal, Events), NEW n \in Events
    PROVE  Moves(cal, InsertEvent(cal, n), EventsOf(cal), <<n>>)
<1>1. n.ts \in Nat
  BY EventFields
<1>2. PICK new : new = InsertEvent(cal, n)
  OBVIOUS
<1>3. /\ IsCalendar(new, Events)
      /\ EventsOf(new) = EventsOf(cal) \cup {n}
      /\ \A X : /\ Once(cal, X)
                /\ n \in X => EventsOf(cal) \cap X = {}
                => Once(new, X)
      /\ \A X, Y : /\ Ahead(cal, X, Y)
                   /\ n \in X => EventsOf(cal) \cap Y = {} /\ n \notin Y
                   /\ n \in Y => \A x \in EventsOf(cal) \cap X : x.ts <= n.ts
                   => Ahead(new, X, Y)
  BY <1>1, <1>2, InsertIs
<1>4. EventsIn(<<n>>) = {n}
  BY ShortLists
<1>5. EventsOf(new) \subseteq Events
  BY <1>3, EventTypes
<1> QED
  BY <1>2, <1>3, <1>4, <1>5 DEF Moves

\* The idle timer of a UE is started anew, in an event that does not concern it or
\* outside of any event.
LEMMA IdleTimerRestarted ==
    ASSUME NEW cal, IsCalendar(cal, Events), NEW now \in Nat, NEW ue \in UEs,
           NEW n, n = UeAt(now + m_activityTimeout, "SetNodeState", ue)
    PROVE  /\ n \in Events /\ n.ts = now + m_activityTimeout /\ n.kind = "SetNodeState" /\ n.ue = ue
           /\ Moves(cal, SetLastActivity(cal, now, ue), EventsOf(cal) \ Idle(ue), <<n>>)
           /\ ~IsEmpty(cal) /\ GetEvent(cal) \notin Idle(ue) /\ GetEvent(cal).ts <= now =>
                /\ ~IsEmpty(SetLastActivity(cal, now, ue))
                /\ GetEvent(SetLastActivity(cal, now, ue)) = GetEvent(cal)
<1>1. now + m_activityTimeout \in Nat /\ now <= now + m_activityTimeout
  BY Values
<1>2. n \in Events /\ n.ts = now + m_activityTimeout /\ n.kind = "SetNodeState" /\ n.ue = ue
  BY <1>1, NewEvents DEF UeKinds
<1>3. PICK D : D = IdleTimers(ue)
  OBVIOUS
<1>4. \A e \in Events : e \in D <=> e \in Idle(ue)
  BY <1>3 DEF IdleTimers, Idle, OfUe, Events, UeKinds
<1>5. PICK c : c = WithoutEvents(cal, D)
  OBVIOUS
<1>6. PICK new : new = InsertEvent(c, n)
  OBVIOUS
<1>7. new = SetLastActivity(cal, now, ue)
  BY <1>3, <1>5, <1>6 DEF SetLastActivity
<1>8. /\ IsCalendar(c, Events)
      /\ EventsOf(c) = EventsOf(cal) \ D
      /\ \A X : Once(cal, X) => Once(c, X)
      /\ \A X, Y : Ahead(cal, X, Y) => Ahead(c, X, Y)
      /\ ~IsEmpty(cal) /\ GetEvent(cal) \notin D => GetEvent(c) = GetEvent(cal)
  BY <1>5, WithoutIs
<1>9. \A e \in EventsOf(cal) : e \in Events
  BY EventTypes
<1>10. EventsOf(c) = EventsOf(cal) \ Idle(ue)
  BY <1>4, <1>8, <1>9
<1>11. Moves(c, new, EventsOf(c), <<n>>)
  BY <1>2, <1>6, <1>8, Added
<1>12. Moves(cal, new, EventsOf(cal) \ Idle(ue), <<n>>)
  BY <1>8, <1>10, <1>11 DEF Moves
<1>13. ASSUME ~IsEmpty(cal), GetEvent(cal) \notin Idle(ue), GetEvent(cal).ts <= now
       PROVE  ~IsEmpty(new) /\ GetEvent(new) = GetEvent(cal)
  <2>1. GetEvent(cal) \in EventsOf(cal)
    BY <1>13, FirstEvent
  <2>2. GetEvent(cal) \in EventsOf(c) /\ GetEvent(c) = GetEvent(cal) /\ GetEvent(cal).ts \in Nat
    BY <1>4, <1>8, <1>9, <1>13, <2>1, EventFields
  <2>3. ~IsEmpty(c)
    BY <2>2, NotEmpty
  <2>4. GetEvent(c).ts <= n.ts /\ n.ts \in Nat
    BY <1>1, <1>2, <1>13, <2>2
  <2>5. GetEvent(new) = GetEvent(c)
    BY <1>2, <1>6, <1>8, <2>3, <2>4, RemoveInsert
  <2>6. n \in EventsOf(new)
    BY <1>12, ShortLists, <1>2 DEF Moves
  <2> QED
    BY <2>2, <2>5, <2>6, NotEmpty
<1> QED
  BY <1>2, <1>7, <1>12, <1>13

\* The same in the event that is served then.
LEMMA ServedActive ==
    ASSUME NEW cal, IsCalendar(cal, Events), ~IsEmpty(cal), NEW ue \in UEs,
           GetEvent(cal) \notin Idle(ue),
           NEW n, n = UeAt(GetEvent(cal).ts + m_activityTimeout, "SetNodeState", ue)
    PROVE  \E stay :
            /\ Moves(cal, RemoveEvent(SetLastActivity(cal, GetEvent(cal).ts, ue)), stay, <<n>>)
            /\ GetEvent(cal) \in Events
            /\ EventsOf(cal) \ Idle(ue) = stay \cup {GetEvent(cal)}
            /\ stay \cap Idle(ue) = {}
            /\ \A e \in EventsOf(cal) : GetEvent(cal).ts <= e.ts
            /\ \A X : Once(cal, X) /\ GetEvent(cal) \in X => stay \cap X = {}
<1>1. PICK f : f = GetEvent(cal)
  OBVIOUS
<1>2. f \in EventsOf(cal) /\ f \in Events /\ \A e \in EventsOf(cal) : f.ts <= e.ts
  BY <1>1, FirstEvent, EventTypes
<1>3. f.ts \in Nat /\ f.ts <= f.ts
  BY <1>2, EventFields
<1>4. PICK D : D = IdleTimers(ue)
  OBVIOUS
<1>5. \A e \in Events : e \in D <=> e \in Idle(ue)
  BY <1>4 DEF IdleTimers, Idle, OfUe, Events, UeKinds
<1>6. PICK c : c = WithoutEvents(cal, D)
  OBVIOUS
<1>7. SetLastActivity(cal, f.ts, ue) = InsertEvent(c, n)
  BY <1>1, <1>4, <1>6 DEF SetLastActivity
<1>8. /\ IsCalendar(c, Events)
      /\ EventsOf(c) = EventsOf(cal) \ D
      /\ \A X : Once(cal, X) => Once(c, X)
      /\ \A X, Y : Ahead(cal, X, Y) => Ahead(c, X, Y)
      /\ GetEvent(c) = f
  BY <1>1, <1>2, <1>5, <1>6, WithoutIs
<1>9. \A e \in EventsOf(cal) : e \in Events
  BY EventTypes
<1>10. EventsOf(c) = EventsOf(cal) \ Idle(ue)
  BY <1>5, <1>8, <1>9
<1>11. f \in EventsOf(c)
  BY <1>1, <1>2, <1>10
<1>12. ~IsEmpty(c)
  BY <1>11, NotEmpty
<1>13. n \in Events /\ n.ts = f.ts + m_activityTimeout
  <2>1. n = UeAt(f.ts + m_activityTimeout, "SetNodeState", ue) /\ f.ts + m_activityTimeout \in Nat
    BY <1>1, <1>3, Values
  <2> QED
    BY <2>1, NewEvents DEF UeKinds
<1>14. n.ts \in Nat /\ f.ts <= n.ts
  BY <1>3, <1>13, Values
<1>15. PICK es : es = <<n>>
  OBVIOUS
<1>16. es \in Seq(Events) /\ \A i \in 1..Len(es) : es[i] = n
  BY <1>13, <1>15, ShortLists
<1>17. RemoveEvent(InsertEvent(c, n)) = RemoveEvent(InsertAll(c, es))
  BY <1>8, <1>13, <1>14, <1>15, InsertAllShort
<1>18. PICK stay :
            /\ Moves(c, RemoveEvent(InsertAll(c, es)), stay, es)
            /\ EventsOf(c) = stay \cup {f}
            /\ \A X : Once(c, X) /\ f \in X => stay \cap X = {}
  BY <1>8, <1>12, <1>14, <1>16, Served
<1>19. Moves(cal, RemoveEvent(InsertAll(c, es)), stay, es)
  BY <1>8, <1>18 DEF Moves
<1>20. stay \cap Idle(ue) = {}
  BY <1>10, <1>18
<1> QED
  BY <1>1, <1>2, <1>7, <1>8, <1>10, <1>15, <1>17, <1>18, <1>19, <1>20

-----------------------------------------------------------------------------
(***************************************************************************)
(* What a step leaves alone                                                *)
(***************************************************************************)

\* Time goes on to now2.
LEMMA TimeGoesOn ==
    ASSUME NEW cal, NEW new, NEW stay, NEW es, Moves(cal, new, stay, es),
           NEW now2 \in Nat,
           \A e \in EventsOf(cal) : now2 <= e.ts,
           \A e \in EventsIn(es) : now2 <= e.ts
    PROVE  CalendarRight(new, now2)
BY DEF Moves, CalendarRight

\* The frame clock, when its event stays.
LEMMA ClockKeeps ==
    ASSUME NEW cal, IsCalendar(cal, Events),
           NEW new, NEW stay, NEW es, Moves(cal, new, stay, es),
           NEW now \in Nat, NEW now2 \in Nat, now <= now2, NEW tti \in Nat, NEW grants,
           ClockRight(cal, now, tti, grants),
           \A e \in EventsOf(cal) : now2 <= e.ts /\ (e \in Clock => e \in stay),
           \A e \in EventsIn(es) : e \notin Clock /\ e.kind # "ResourceBlocksAllocation"
    PROVE  ClockRight(new, now2, tti, grants)
<1>1. Once(new, Clock)
  <2>1. EventsIn(es) \cap Clock = {}
    OBVIOUS
  <2> QED
    BY <2>1 DEF Moves, ClockRight
<1>2. EventsOf(new) \cap Clock # {}
  BY DEF Moves, ClockRight
<1>3. tti <= now2 + 1
  BY DEF ClockRight
<1>4. ASSUME NEW e \in EventsOf(new)
      PROVE  /\ e.kind \in {"StartSubframe", "StopSubframe"} => e.ts = tti
             /\ e.kind = "StartSubframe" => now2 = tti /\ grants = {}
             /\ e.kind = "ResourceBlocksAllocation" => e.ts + 1 = tti
  <2>1. e \in Events /\ (e \in EventsOf(cal) \/ e \in EventsIn(es))
    BY DEF Moves
  <2>2. CASE e \in EventsOf(cal)
    BY <2>1, <2>2, EventFields DEF ClockRight
  <2>3. CASE e \in EventsIn(es)
    BY <2>1, <2>3, EventKinds
  <2> QED
    BY <2>1, <2>2, <2>3
<1> QED
  BY <1>1, <1>2, <1>3, <1>4 DEF ClockRight

\* A step of a UE leaves what the cell does alone; a message 1 to be repeated is
\* scheduled for the next millisecond.
LEMMA CellKeeps ==
    ASSUME NEW cal, IsCalendar(cal, Events),
           NEW new, NEW stay, NEW es, Moves(cal, new, stay, es),
           NEW now \in Nat, NEW now2 \in Nat, now <= now2, NEW tti \in Nat, NEW grants,
           NEW rach, NEW ccch, NEW saved, NEW saved2,
           CellRight(cal, now, tti, grants, rach, ccch, saved),
           \A e \in EventsOf(cal) : now2 <= e.ts /\ (e.kind \notin UeKinds => e \in stay),
           \A e \in EventsIn(es) : /\ e.kind \in UeKinds \ {"SendMessage3"}
                                   /\ e.kind = "SendMessage1" => e.ts = now2 + 1,
           DOMAIN saved2 \subseteq DOMAIN saved \cup {tti},
           rach = {} => DOMAIN saved2 = DOMAIN saved
    PROVE  CellRight(new, now2, tti, grants, rach, ccch, saved2)
<1>1. \A e \in EventsOf(cal) : e \in Events
  BY EventTypes
<1>2. /\ stay \subseteq EventsOf(cal) /\ EventsOf(new) = stay \cup EventsIn(es)
      /\ EventsOf(new) \subseteq Events
      /\ \A X : Once(cal, X) /\ EventsIn(es) \cap X = {} => Once(new, X)
      /\ \A X, Y : Ahead(cal, X, Y) /\ EventsIn(es) \cap (X \cup Y) = {} => Ahead(new, X, Y)
  BY DEF Moves
<1>3. /\ ClockRight(cal, now, tti, grants) /\ EarlyRight(cal, tti) /\ RachRight(cal, tti, rach, saved)
      /\ CheckRight(cal, tti, saved) /\ Msg3Right(cal, ccch)
  BY DEF CellRight
<1>4. \A e \in EventsIn(es) : e \in Events /\ e.ts \in Nat
  BY <1>2, EventFields
<1>5. ClockRight(new, now2, tti, grants)
  <2>1. \A e \in EventsOf(cal) : e \in Clock => e \in stay
    BY <1>1, EventKinds DEF UeKinds
  <2>2. \A e \in EventsIn(es) : e \notin Clock /\ e.kind # "ResourceBlocksAllocation"
    BY <1>4, EventKinds DEF UeKinds
  <2> QED
    BY <1>3, <2>1, <2>2, ClockKeeps
<1>6. EarlyRight(new, tti)
  <2>1. \A e \in EventsIn(es) : e.kind \in EarlyKinds => e.ts = now2 + 1
    BY DEF EarlyKinds, UeKinds
  <2>2. tti <= now2 + 1
    BY <1>3 DEF ClockRight
  <2>3. \A e \in EventsOf(new) : e.kind \in EarlyKinds => tti <= e.ts
    BY <1>2, <1>3, <2>1, <2>2 DEF EarlyRight
  <2>4. CASE EventsOf(new) \cap OfKinds({"StartSubframe"}) = {}
    BY <2>3, <2>4, AheadOfNone DEF EarlyRight
  <2>5. CASE EventsOf(new) \cap OfKinds({"StartSubframe"}) # {}
    <3>1. PICK s \in EventsOf(new) : s.kind = "StartSubframe"
      BY <1>2, <2>5, EventKinds
    <3>2. now2 = tti
      BY <1>5, <3>1 DEF ClockRight
    <3>3. EventsIn(es) \cap Early(tti) = {}
      BY <1>4, <2>1, <3>2, EventKinds
    <3>4. EventsIn(es) \cap OfKinds({"StartSubframe"}) = {}
      BY <1>4, EventKinds DEF UeKinds
    <3> QED
      BY <1>2, <1>3, <2>3, <3>3, <3>4 DEF EarlyRight
  <2> QED
    BY <2>4, <2>5
<1>7. RachRight(new, tti, rach, saved2)
  <2>1. PICK X : X = OfKinds({"SetRachReservedSubChannels"})
    OBVIOUS
  <2>2. \A e \in Events : e \in X <=> e.kind = "SetRachReservedSubChannels"
    BY <2>1, EventKinds
  <2>3. EventsIn(es) \cap X = {}
    BY <1>4, <2>2 DEF UeKinds
  <2>4. EventsOf(new) \cap X = EventsOf(cal) \cap X
    BY <1>1, <1>2, <2>2, <2>3 DEF UeKinds
  <2>5. \A e \in EventsOf(new) : e.kind = "SetRachReservedSubChannels" => e \in EventsOf(cal)
    BY <1>2, <2>2, <2>4
  <2>6. Once(new, X) /\ EventsOf(new) \cap X # {}
    BY <1>2, <1>3, <2>1, <2>3, <2>4 DEF RachRight
  <2> QED
    BY <1>3, <2>1, <2>5, <2>6 DEF RachRight
<1>8. CheckRight(new, tti, saved2)
  <2>1. PICK X : X = OfKinds({"CheckCollisions"})
    OBVIOUS
  <2>2. \A e \in Events : e \in X <=> e.kind = "CheckCollisions"
    BY <2>1, EventKinds
  <2>3. EventsIn(es) \cap X = {}
    BY <1>4, <2>2 DEF UeKinds
  <2>4. EventsOf(new) \cap X = EventsOf(cal) \cap X
    BY <1>1, <1>2, <2>2, <2>3 DEF UeKinds
  <2>5. \A e \in EventsOf(new) : e.kind = "CheckCollisions" => e \in EventsOf(cal)
    BY <1>2, <2>2, <2>4
  <2>6. Once(new, X) /\ EventsOf(new) \cap X # {}
    BY <1>2, <1>3, <2>1, <2>3, <2>4 DEF CheckRight
  <2>7. ASSUME NEW e \in EventsOf(new), e.kind = "CheckCollisions"
        PROVE  e.ts <= tti + 1 /\ \A t \in DOMAIN saved2 : e.ts <= t + m_responseWindowDelay
    <3>1. e.ts \in Nat /\ e.ts <= tti + 1 /\ \A t \in DOMAIN saved : e.ts <= t + m_responseWindowDelay
      BY <1>1, <1>3, <2>5, <2>7, EventFields DEF CheckRight
    <3>2. e.ts <= tti + m_responseWindowDelay
      BY <3>1, Values
    <3> QED
      BY <3>1, <3>2
  <2> QED
    BY <2>1, <2>6, <2>7 DEF CheckRight
<1>9. Msg3Right(new, ccch)
  <2>1. \A e \in EventsOf(new) : e.kind = "SendMessage3" => e \in EventsOf(cal)
    BY <1>2
  <2> QED
    BY <1>3, <2>1 DEF Msg3Right
<1> QED
  BY <1>5, <1>6, <1>7, <1>8, <1>9 DEF CellRight

\* A UE that a step does not concern.
LEMMA UeKeeps ==
    ASSUME NEW cal, NEW new, NEW stay, NEW es, Moves(cal, new, stay, es),
           NEW now \in Nat, NEW now2 \in Nat, now <= now2,
           NEW saved, NEW saved2, NEW ue, NEW state, NEW active,
           UeRight(cal, now, saved, ue, state, active),
           EventsOf(cal) \cap (Watch(ue) \cup Idle(ue) \cup InFlight(ue)) \subseteq stay,
           EventsIn(es) \cap (Watch(ue) \cup Idle(ue) \cup InFlight(ue)) = {},
           \A t, i : Saves(saved2, t, i, ue) <=> Saves(saved, t, i, ue)
    PROVE  UeRight(new, now2, saved2, ue, state, active)
<1>1. PICK W, I, F : W = Watch(ue) /\ I = Idle(ue) /\ F = InFlight(ue)
  OBVIOUS
<1>2. /\ stay \subseteq EventsOf(cal) /\ EventsOf(new) = stay \cup EventsIn(es)
      /\ \A X : Once(cal, X) /\ EventsIn(es) \cap X = {} => Once(new, X)
  BY DEF Moves
<1>3. EventsIn(es) \cap W = {} /\ EventsIn(es) \cap I = {} /\ EventsIn(es) \cap F = {}
  BY <1>1
<1>4. /\ EventsOf(new) \cap W = EventsOf(cal) \cap W
      /\ EventsOf(new) \cap I = EventsOf(cal) \cap I
      /\ EventsOf(new) \cap F = EventsOf(cal) \cap F
  BY <1>1, <1>2, <1>3
<1>5. Once(new, W) /\ Once(new, I) /\ Once(new, F)
  BY <1>1, <1>2, <1>3 DEF UeRight
<1>6. SavedOnce(saved2, ue) /\ (IsSaved(saved2, ue) <=> IsSaved(saved, ue))
  BY DEF UeRight, SavedOnce, IsSaved
<1>7. ASSUME NEW since
      PROVE  OnTime(cal, saved, ue, since) => OnTime(new, saved2, ue, since)
  BY <1>1, <1>4 DEF OnTime
<1>8. ASSUME NEW r \in EventsOf(new) \cap W
      PROVE  /\ r.ts - m_RAProcedureTimeout \in 0..now2
             /\ \A e \in EventsOf(new) \cap I : r.ts < e.ts
             /\ OnTime(new, saved2, ue, r.ts - m_RAProcedureTimeout)
  <2>1. /\ r.ts - m_RAProcedureTimeout \in 0..now
        /\ \A e \in EventsOf(cal) \cap I : r.ts < e.ts
        /\ OnTime(cal, saved, ue, r.ts - m_RAProcedureTimeout)
    BY <1>1, <1>4, <1>8 DEF UeRight
  <2>2. r.ts - m_RAProcedureTimeout \in 0..now2
    BY <2>1
  <2> QED
    BY <1>4, <1>7, <2>1, <2>2
<1> QED
  BY <1>1, <1>4, <1>5, <1>6, <1>8 DEF UeRight

-----------------------------------------------------------------------------
(***************************************************************************)
(* The steps of a UE                                                       *)
(***************************************************************************)

\* Among as many TTIs as lie between two opportunities there is one.
LEMMA NextOpportunity ==
    ASSUME NEW since \in Nat
    PROVE  \E tti \in (since + 1)..(since + m_ripInt) : Opportunity(tti)
<1>1. PICK n \in Nat \ {0} : n = m_ripInt
  BY Values
<1>2. PICK q \in Nat, r \in 0..(n - 1) : since = n * q + r
  <2>1. since \div n \in Nat /\ since % n \in 0..(n - 1) /\ since = n * (since \div n) + (since % n)
    OBVIOUS
  <2> QED
    BY <2>1
<1>3. n * (q + 1) = n * q + n
  OBVIOUS
<1>4. (n * (q + 1)) % n = 0
  OBVIOUS
<1>5. PICK p \in Nat : p = n * q
  OBVIOUS
<1>6. PICK k \in Nat : k = p + n
  OBVIOUS
<1>7. k % n = 0
  BY <1>3, <1>4, <1>5, <1>6
<1>8. k \in (since + 1)..(since + n)
  BY <1>2, <1>5, <1>6
<1>9. Opportunity(k)
  BY <1>1, <1>7, Values DEF Opportunity
<1> QED
  BY <1>1, <1>8, <1>9

\* An event that precedes its subframe runs in the millisecond of the TTI counter.
LEMMA EarlyNext ==
    ASSUME IInv, NEW kind \in EarlyKinds, NextIs(kind)
    PROVE  GetEvent(m_events) \in EventsOf(m_events) /\ m_TTICounter = Now
<1>1. IsCalendar(m_events, Events) /\ ~IsEmpty(m_events) /\ GetEvent(m_events).kind = kind
  BY DEF IInv, CalendarRight, NextIs
<1>2. /\ GetEvent(m_events) \in EventsOf(m_events)
      /\ \A e \in EventsOf(m_events) : Now <= e.ts /\ e \in Events /\ e.ts \in Nat
  BY <1>1, FirstEvent, EventTypes DEF Now
<1>3. Now \in Nat /\ GetEvent(m_events).ts = Now
  BY <1>2 DEF Now
<1>4. m_TTICounter \in Nat
  BY Values DEF IInv, VariablesTyped
<1>5. m_TTICounter <= Now
  BY <1>1, <1>2, <1>3 DEF IInv, CellRight, EarlyRight
<1>6. PICK e \in EventsOf(m_events) : e \in Clock
  BY DEF IInv, CellRight, ClockRight
<1>7. e.kind \in {"StartSubframe", "StopSubframe"}
  BY <1>2, <1>6, EventKinds
<1>8. e.ts = m_TTICounter
  BY <1>7 DEF IInv, CellRight, ClockRight
<1> QED
  BY <1>2, <1>3, <1>4, <1>5, <1>8

\* The event that is served.
LEMMA ServedIs ==
    ASSUME IInv, NEW kind, Serve(kind)
    PROVE  /\ IsCalendar(m_events, Events) /\ ~IsEmpty(m_events)
           /\ GetEvent(m_events) \in Events /\ GetEvent(m_events) \in EventsOf(m_events)
           /\ GetEvent(m_events).kind = kind /\ GetEvent(m_events).ts = Now
           /\ Now \in Nat /\ m_currentTs' = Now /\ m_currentTs \in Nat /\ m_currentTs <= Now
           /\ m_TTICounter \in Nat /\ m_TTICounter <= Now + 1
           /\ \A e \in EventsOf(m_events) : e \in Events /\ e.ts \in Nat /\ Now <= e.ts
           /\ kind \in UeKinds => TheUE \in UEs /\ GetEvent(m_events).ue = TheUE
           /\ kind \in EarlyKinds => m_TTICounter = Now
           /\ m_type' = m_type /\ Messages' = Messages
<1>1. IsCalendar(m_events, Events) /\ ~IsEmpty(m_events) /\ GetEvent(m_events).kind = kind
  BY DEF IInv, CalendarRight, Serve, NextIs
<1>2. /\ GetEvent(m_events) \in EventsOf(m_events)
      /\ \A e \in EventsOf(m_events) : Now <= e.ts /\ e \in Events /\ e.ts \in Nat
  BY <1>1, FirstEvent, EventTypes DEF Now
<1>3. Now \in Nat /\ GetEvent(m_events).ts = Now
  BY <1>2 DEF Now
<1>4. m_currentTs' = Now /\ m_currentTs \in Nat /\ m_currentTs <= Now /\ m_type' = m_type
  BY <1>2, <1>3 DEF Serve, IInv, CalendarRight, VariablesTyped
<1>5. m_TTICounter \in Nat /\ m_TTICounter <= m_currentTs + 1
  BY <1>4, Values DEF IInv, VariablesTyped, CellRight, ClockRight
<1>6. kind \in UeKinds => TheUE \in UEs /\ GetEvent(m_events).ue = TheUE
  BY <1>1, <1>2, EventFields DEF TheUE
<1>7. kind \in EarlyKinds => m_TTICounter = Now
  BY EarlyNext DEF Serve
<1>8. Messages' = Messages
  BY <1>4 DEF Messages, SelectedRar
<1> QED
  BY <1>1, <1>2, <1>3, <1>4, <1>5, <1>6, <1>7, <1>8

\* A step of a UE, that of the event, keeps the invariant when it is right for this UE.
LEMMA UeStep ==
    ASSUME IInv, NEW kind \in UeKinds, Serve(kind), NEW stay, NEW es,
           Moves(m_events, m_events', stay, es),
           EventsOf(m_events) \ Idle(TheUE) \subseteq stay \cup {GetEvent(m_events)},
           \A e \in EventsIn(es) : /\ e.kind \in UeKinds \ {"SendMessage3"} /\ e.ue = TheUE
                                   /\ Now <= e.ts
                                   /\ e.kind = "SendMessage1" => e.ts = Now + 1,
           UNCHANGED <<m_TTICounter, m_RBsReservedForRach, m_RBsReservedForCCCH, granted>>,
           DOMAIN m_savedRachSessions' \subseteq DOMAIN m_savedRachSessions \cup {m_TTICounter},
           m_RBsReservedForRach = {} => DOMAIN m_savedRachSessions' = DOMAIN m_savedRachSessions,
           \A ue \in UEs \ {TheUE} :
                /\ m_state'[ue] = m_state[ue]
                /\ m_RaProcedureActive'[ue] = m_RaProcedureActive[ue]
                /\ \A t, i : Saves(m_savedRachSessions', t, i, ue)
                                <=> Saves(m_savedRachSessions, t, i, ue),
           UeRight(m_events', Now, m_savedRachSessions', TheUE, m_state'[TheUE],
                   m_RaProcedureActive'[TheUE]),
           VariablesTyped'
    PROVE  IInv'
<1>1. /\ IsCalendar(m_events, Events)
      /\ GetEvent(m_events) \in Events
      /\ GetEvent(m_events).kind = kind /\ GetEvent(m_events).ue = TheUE
      /\ Now \in Nat /\ m_currentTs' = Now /\ m_currentTs \in Nat /\ m_currentTs <= Now
      /\ m_TTICounter \in Nat
      /\ \A e \in EventsOf(m_events) : e \in Events /\ Now <= e.ts
  BY ServedIs
<1>2. CalendarRight(m_events', Now)
  BY <1>1, TimeGoesOn
<1>3. CellRight(m_events', Now, m_TTICounter, granted, m_RBsReservedForRach,
                m_RBsReservedForCCCH, m_savedRachSessions')
  <2>1. \A e \in EventsOf(m_events) : e.kind \notin UeKinds => e \in stay
    BY <1>1, EventKinds DEF UeKinds
  <2>2. CellRight(m_events, m_currentTs, m_TTICounter, granted, m_RBsReservedForRach,
                  m_RBsReservedForCCCH, m_savedRachSessions)
    BY DEF IInv
  <2>3. \A e \in EventsIn(es) : /\ e.kind \in UeKinds \ {"SendMessage3"}
                                /\ e.kind = "SendMessage1" => e.ts = Now + 1
    OBVIOUS
  <2> QED
    BY <1>1, <2>1, <2>2, <2>3, CellKeeps
<1>4. ASSUME NEW ue \in UEs, ue # TheUE
      PROVE  UeRight(m_events', Now, m_savedRachSessions', ue, m_state'[ue],
                     m_RaProcedureActive'[ue])
  <2>1. UeRight(m_events, m_currentTs, m_savedRachSessions, ue, m_state[ue],
                m_RaProcedureActive[ue])
    BY DEF IInv
  <2>2. \A e \in Events : e \in Watch(ue) \cup Idle(ue) \cup InFlight(ue) => e.ue = ue
    BY EventKinds
  <2>3. \A e \in Events : e \in Idle(TheUE) => e.ue = TheUE
    BY EventKinds
  <2>4. EventsOf(m_events) \cap (Watch(ue) \cup Idle(ue) \cup InFlight(ue)) \subseteq stay
    BY <1>1, <1>4, <2>2, <2>3
  <2>5. EventsIn(es) \subseteq Events
    BY DEF Moves
  <2>6. EventsIn(es) \cap (Watch(ue) \cup Idle(ue) \cup InFlight(ue)) = {}
    BY <1>4, <2>2, <2>5
  <2>7. \A t, i : Saves(m_savedRachSessions', t, i, ue) <=> Saves(m_savedRachSessions, t, i, ue)
    BY <1>4
  <2>8. UeRight(m_events', Now, m_savedRachSessions', ue, m_state[ue], m_RaProcedureActive[ue])
    BY <1>1, <2>1, <2>4, <2>6, <2>7, UeKeeps
  <2> QED
    BY <1>4, <2>8
<1>5. TheUE \in UEs
  BY ServedIs
<1>6. \A ue \in UEs : UeRight(m_events', Now, m_savedRachSessions', ue, m_state'[ue],
                              m_RaProcedureActive'[ue])
  BY <1>4
<1> QED
  BY <1>1, <1>2, <1>3, <1>6 DEF IInv

\* The RACH opportunities the gNB has written down are all there are.
LEMMA OpportunityKnown ==
    ASSUME IInv, m_TTICounter >= 1, ~isRachOpportunity
    PROVE  ~Opportunity(m_TTICounter)
<1>1. PICK s \in EventsOf(m_events) : s \in OfKinds({"SetRachReservedSubChannels"})
  BY DEF IInv, CellRight, RachRight
<1>2. s \in Events
  BY <1>1, EventTypes DEF IInv, CalendarRight
<1>3. s.kind = "SetRachReservedSubChannels" /\ s.ts \in Nat
  BY <1>1, <1>2, EventKinds, EventFields
<1>4. m_TTICounter <= s.ts /\ m_TTICounter \in Nat
  BY <1>3, Values DEF IInv, CellRight, EarlyRight, EarlyKinds, VariablesTyped
<1>5. CASE s.ts = 1
  <2>1. m_TTICounter = 1
    BY <1>4, <1>5
  <2> QED
    BY <2>1, Values
<1>6. CASE Known(m_RBsReservedForRach, m_TTICounter, s.ts - m_ripInt + PredictionWindow)
  <2>1. m_TTICounter \in m_TTICounter..(s.ts - m_ripInt + PredictionWindow)
    BY <1>3, <1>4, Values
  <2>2. Opportunity(m_TTICounter) => {m_TTICounter} \X RachRBs \subseteq m_RBsReservedForRach
    BY <1>6, <2>1 DEF Known
  <2>3. <<m_TTICounter, 0>> \in {m_TTICounter} \X RachRBs
    BY Values DEF RachRBs
  <2>4. <<m_TTICounter, 0>>[1] = m_TTICounter
    OBVIOUS
  <2> QED
    BY <2>2, <2>3, <2>4 DEF isRachOpportunity
<1> QED
  BY <1>1, <1>3, <1>5, <1>6 DEF IInv, CellRight, RachRight

\* A session is a list of messages.
LEMMA SessionIs ==
    ASSUME IInv, NEW t
    PROVE  SessionAt(t) \in Seq(Messages)
<1>1. CASE t \in DOMAIN m_savedRachSessions
  BY <1>1 DEF SessionAt, IInv, VariablesTyped
<1>2. CASE t \notin DOMAIN m_savedRachSessions
  <2>1. <<>> \in Seq(Messages)
    OBVIOUS
  <2> QED
    BY <1>2, <2>1 DEF SessionAt
<1> QED
  BY <1>1, <1>2

\* The sessions when message 1 of the UE was received.
SessionsWith(ue, p, rar) ==
    [t \in DOMAIN m_savedRachSessions \cup {m_TTICounter} |->
        IF t = m_TTICounter
        THEN Append(SessionAt(t), [ue |-> ue, preamble |-> p, selectedRar |-> rar])
        ELSE m_savedRachSessions[t]]

LEMMA MessageSaved ==
    ASSUME IInv, NEW ue \in UEs, NEW p \in Preambles, NEW rar \in SelectedRar
    PROVE  /\ DOMAIN SessionsWith(ue, p, rar) = DOMAIN m_savedRachSessions \cup {m_TTICounter}
           /\ DOMAIN SessionsWith(ue, p, rar) \subseteq Nat
           /\ \A t \in DOMAIN SessionsWith(ue, p, rar) :
                SessionsWith(ue, p, rar)[t] \in Seq(Messages)
           /\ \A u, t, i : Saves(SessionsWith(ue, p, rar), t, i, u) <=>
                \/ Saves(m_savedRachSessions, t, i, u)
                \/ u = ue /\ t = m_TTICounter /\ i = Len(SessionAt(m_TTICounter)) + 1
<1>1. PICK new : new = SessionsWith(ue, p, rar)
  OBVIOUS
<1>2. PICK m \in Messages : m = [ue |-> ue, preamble |-> p, selectedRar |-> rar]
  BY DEF Messages
<1>3. m.ue = ue
  BY <1>2
<1>4. m_TTICounter \in Nat /\ DOMAIN m_savedRachSessions \subseteq Nat
      /\ \A t \in DOMAIN m_savedRachSessions : m_savedRachSessions[t] \in Seq(Messages)
  BY Values DEF IInv, VariablesTyped
<1>5. PICK s \in Seq(Messages) : s = SessionAt(m_TTICounter)
  BY SessionIs
<1>6. Len(s) \in Nat /\ Append(s, m) \in Seq(Messages) /\ Len(Append(s, m)) = Len(s) + 1
      /\ (\A i \in 1..Len(s) : Append(s, m)[i] = s[i]) /\ Append(s, m)[Len(s) + 1] = m
  OBVIOUS
<1>7. DOMAIN new = DOMAIN m_savedRachSessions \cup {m_TTICounter}
  BY <1>1 DEF SessionsWith
<1>8. new[m_TTICounter] = Append(s, m)
  BY <1>1, <1>2, <1>5 DEF SessionsWith
<1>9. \A t \in DOMAIN m_savedRachSessions : t # m_TTICounter => new[t] = m_savedRachSessions[t]
  BY <1>1 DEF SessionsWith
<1>10. \A t \in DOMAIN new : new[t] \in Seq(Messages)
  BY <1>4, <1>6, <1>7, <1>8, <1>9
<1>11. ASSUME NEW u, NEW t, NEW i
       PROVE  Saves(new, t, i, u) <=>
                \/ Saves(m_savedRachSessions, t, i, u)
                \/ u = ue /\ t = m_TTICounter /\ i = Len(s) + 1
  <2>1. CASE t # m_TTICounter
    BY <1>7, <1>9, <2>1 DEF Saves
  <2>2. CASE t = m_TTICounter /\ t \in DOMAIN m_savedRachSessions
    <3>1. s = m_savedRachSessions[t]
      BY <1>5, <2>2 DEF SessionAt
    <3>2. i \in 1..(Len(s) + 1) <=> i \in 1..Len(s) \/ i = Len(s) + 1
      BY <1>6
    <3>3. i \in 1..Len(s) => i # Len(s) + 1
      BY <1>6
    <3> QED
      BY <1>3, <1>6, <1>7, <1>8, <2>2, <3>1, <3>2, <3>3 DEF Saves
  <2>3. CASE t = m_TTICounter /\ t \notin DOMAIN m_savedRachSessions
    <3>1. s = <<>> /\ Len(s) = 0
      BY <1>5, <2>3 DEF SessionAt
    <3>2. i \in 1..(Len(s) + 1) <=> i = 1
      BY <3>1
    <3> QED
      BY <1>3, <1>6, <1>7, <1>8, <2>3, <3>1, <3>2 DEF Saves
  <2> QED
    BY <2>1, <2>2, <2>3
<1> QED
  BY <1>1, <1>4, <1>5, <1>7, <1>10, <1>11

\* The UE is, or becomes, active; an attempt under way goes on, or ends here.
LEMMA UeWoken ==
    ASSUME NEW cal, NEW new, NEW stay, NEW n, Moves(cal, new, stay, <<n>>),
           NEW now \in Nat, NEW now2 \in Nat, now <= now2,
           NEW saved, NEW ue, NEW state, NEW active, NEW active2,
           UeRight(cal, now, saved, ue, state, active),
           n \in Events, n.kind = "SetNodeState", n.ue = ue, n.ts = now2 + m_activityTimeout,
           stay \cap Idle(ue) = {}, EventsOf(cal) \cap Watch(ue) \subseteq stay,
           \/ active2 = active /\ EventsOf(cal) \cap InFlight(ue) \subseteq stay
           \/ active2 = FALSE /\ stay \cap InFlight(ue) = {} /\ ~IsSaved(saved, ue)
    PROVE  UeRight(new, now2, saved, ue, "ACTIVE", active2)
<1>1. PICK W, I, F : W = Watch(ue) /\ I = Idle(ue) /\ F = InFlight(ue)
  OBVIOUS
<1>2. n \in I /\ n \notin W /\ n \notin F
  BY <1>1, EventKinds
<1>3. PICK es : es = <<n>>
  OBVIOUS
<1>4. EventsIn(es) = {n} /\ Len(es) = 1
  BY <1>3, ShortLists
<1>5. /\ stay \subseteq EventsOf(cal) /\ EventsOf(new) = stay \cup {n}
      /\ \A X : Once(cal, X) /\ n \notin X => Once(new, X)
      /\ \A X : Once(cal, X) /\ stay \cap X = {} => Once(new, X)
  BY <1>3, <1>4 DEF Moves
<1>6. /\ EventsOf(new) \cap W = EventsOf(cal) \cap W
      /\ EventsOf(new) \cap I = {n}
      /\ EventsOf(new) \cap F \subseteq EventsOf(cal) \cap F
  BY <1>1, <1>2, <1>5
<1>7. Once(cal, W) /\ Once(cal, I) /\ Once(cal, F) /\ SavedOnce(saved, ue)
  BY <1>1 DEF UeRight
<1>8. Once(new, W) /\ Once(new, I) /\ Once(new, F)
  BY <1>1, <1>2, <1>5, <1>7
<1>9. active2 => EventsOf(new) \cap W # {}
  BY <1>1, <1>6 DEF UeRight
<1>10. ~active2 => EventsOf(new) \cap F = {} /\ ~IsSaved(saved, ue)
  BY <1>1, <1>2, <1>5, <1>6 DEF UeRight
<1>11. IsSaved(saved, ue) => EventsOf(new) \cap F = {}
  BY <1>1, <1>6 DEF UeRight
<1>12. ASSUME NEW r \in EventsOf(new) \cap W
       PROVE  /\ r.ts - m_RAProcedureTimeout \in 0..now2
              /\ \A e \in EventsOf(new) \cap I : r.ts < e.ts
              /\ OnTime(new, saved, ue, r.ts - m_RAProcedureTimeout)
  <2>1. /\ r.ts - m_RAProcedureTimeout \in 0..now
        /\ OnTime(cal, saved, ue, r.ts - m_RAProcedureTimeout)
    BY <1>1, <1>6, <1>12 DEF UeRight
  <2>2. OnTime(new, saved, ue, r.ts - m_RAProcedureTimeout)
    BY <1>1, <1>6, <2>1 DEF OnTime
  <2>3. r \in Events
    BY <1>12 DEF Moves
  <2>4. r.ts \in Nat
    BY <2>3, EventFields
  <2>5. r.ts < n.ts /\ r.ts - m_RAProcedureTimeout \in 0..now2
    BY <2>1, <2>4, Values
  <2> QED
    BY <1>6, <2>2, <2>5
<1> QED
  BY <1>1, <1>6, <1>7, <1>8, <1>9, <1>10, <1>11, <1>12 DEF UeRight

\* The UE begins an attempt now: its timeout is started, and message 1 was received or
\* is to be repeated.
LEMMA UeBegins ==
    ASSUME NEW cal, NEW new, NEW stay, NEW es, Moves(cal, new, stay, es),
           NEW now \in Nat, NEW now2 \in Nat,
           NEW saved, NEW saved2, NEW ue, NEW state, state # "ACTIVE",
           UeRight(cal, now, saved, ue, state, FALSE),
           NEW w, EventsIn(es) \cap Watch(ue) = {w}, w.ts = now2 + m_RAProcedureTimeout,
           EventsIn(es) \cap Idle(ue) = {},
           \A e \in EventsIn(es) \cap InFlight(ue) : e.kind = "SendMessage1" /\ e.ts = now2 + 1,
           \A i, j \in 1..Len(es) : es[i] \in Watch(ue) /\ es[j] \in Watch(ue) => i = j,
           \A i, j \in 1..Len(es) : es[i] \in InFlight(ue) /\ es[j] \in InFlight(ue) => i = j,
           SavedOnce(saved2, ue),
           IsSaved(saved2, ue) => EventsIn(es) \cap InFlight(ue) = {},
           \A t, i : Saves(saved2, t, i, ue) => t \in Nat /\ t <= now2 + 1
    PROVE  UeRight(new, now2, saved2, ue, state, TRUE)
<1>1. PICK W, I, F : W = Watch(ue) /\ I = Idle(ue) /\ F = InFlight(ue)
  OBVIOUS
<1>2. /\ EventsOf(cal) \cap W = {} /\ EventsOf(cal) \cap I = {} /\ EventsOf(cal) \cap F = {}
      /\ Once(cal, W) /\ Once(cal, I) /\ Once(cal, F)
  BY <1>1 DEF UeRight
<1>3. stay \subseteq EventsOf(cal) /\ EventsOf(new) = stay \cup EventsIn(es)
  BY DEF Moves
<1>4. /\ EventsOf(new) \cap W = {w} /\ EventsOf(new) \cap I = {}
      /\ EventsOf(new) \cap F = EventsIn(es) \cap F
  BY <1>1, <1>2, <1>3
<1>5. Once(new, W) /\ Once(new, F) /\ Once(new, I)
  <2>1. stay \cap W = {} /\ stay \cap F = {} /\ EventsIn(es) \cap I = {}
    BY <1>1, <1>2, <1>3
  <2>2. \A i, j \in 1..Len(es) : es[i] \in W /\ es[j] \in W => i = j
    BY <1>1
  <2>3. \A i, j \in 1..Len(es) : es[i] \in F /\ es[j] \in F => i = j
    BY <1>1
  <2> QED
    BY <1>2, <2>1, <2>2, <2>3 DEF Moves
<1>6. w.ts - m_RAProcedureTimeout = now2 /\ now2 \in 0..now2
  BY Values
<1>7. OnTime(new, saved2, ue, now2)
  <2>1. \A t, i : Saves(saved2, t, i, ue) => t <= now2 + m_ripInt
    BY Values
  <2>2. ASSUME NEW e \in EventsOf(new) \cap F
        PROVE  /\ e.kind = "SendMessage1" /\ e.ts > now2
               /\ \A tti \in (now2 + 1)..(e.ts - 1) : ~Opportunity(tti)
    <3>1. e.kind = "SendMessage1" /\ e.ts = now2 + 1
      BY <1>1, <1>4, <2>2
    <3>2. (now2 + 1)..(e.ts - 1) = {}
      BY <3>1
    <3> QED
      BY <3>1, <3>2
  <2> QED
    BY <1>1, <2>1, <2>2 DEF OnTime
<1> QED
  BY <1>1, <1>4, <1>5, <1>6, <1>7 DEF UeRight

LEMMA StartRight == IInv /\ StartRaProcedure => IInv'
<1> SUFFICES ASSUME IInv, StartRaProcedure
             PROVE  IInv'
  OBVIOUS
<1> DEFINE f == GetEvent(m_events)
           ue == TheUE
<1>1. Serve("StartRaProcedure") /\ "StartRaProcedure" \in UeKinds
  BY DEF StartRaProcedure, UeKinds
<1>2. /\ IsCalendar(m_events, Events) /\ ~IsEmpty(m_events)
      /\ f \in Events /\ f \in EventsOf(m_events) /\ f.kind = "StartRaProcedure" /\ f.ts = Now
      /\ Now \in Nat /\ m_currentTs' = Now /\ m_currentTs \in Nat /\ m_currentTs <= Now
      /\ m_TTICounter \in Nat /\ m_TTICounter <= Now + 1
      /\ ue \in UEs /\ f.ue = ue /\ m_type' = m_type /\ Messages' = Messages
  BY <1>1, ServedIs
<1>3. f \notin Watch(ue) /\ f \notin Idle(ue) /\ f \notin InFlight(ue)
  BY <1>2, EventKinds
<1>4. VariablesTyped /\ UeRight(m_events, m_currentTs, m_savedRachSessions, ue, m_state[ue],
                                m_RaProcedureActive[ue])
  BY <1>2 DEF IInv
<1>5. UNCHANGED <<m_TTICounter, m_RBsReservedForRach, m_RBsReservedForCCCH, granted,
                  m_state, m_nbFailedAttempts, inputs>>
  BY DEF StartRaProcedure
<1>6. CASE m_state[ue] = "ACTIVE" /\ m_events' = RemoveEvent(SetLastActivity(m_events, Now, ue))
           /\ UNCHANGED <<m_savedRachSessions, m_RaProcedureActive>>
  <2>1. PICK n : n = UeAt(Now + m_activityTimeout, "SetNodeState", ue)
    OBVIOUS
  <2>2. PICK stay :
            /\ Moves(m_events, m_events', stay, <<n>>)
            /\ EventsOf(m_events) \ Idle(ue) = stay \cup {f}
            /\ stay \cap Idle(ue) = {}
    BY <1>2, <1>3, <1>6, <2>1, ServedActive
  <2>3. n \in Events /\ n.ts = Now + m_activityTimeout /\ n.kind = "SetNodeState" /\ n.ue = ue
    BY <1>2, <2>1, Values, NewEvents DEF UeKinds
  <2>4. EventsIn(<<n>>) = {n}
    BY <2>3, ShortLists
  <2>5. EventsOf(m_events) \cap Watch(ue) \subseteq stay
        /\ EventsOf(m_events) \cap InFlight(ue) \subseteq stay
    <3>1. \A e \in Events : e \in Watch(ue) \/ e \in InFlight(ue) => e \notin Idle(ue)
      BY EventKinds
    <3>2. EventsOf(m_events) \subseteq Events
      BY <1>2, EventTypes
    <3> QED
      BY <1>3, <2>2, <3>1, <3>2
  <2>6. UeRight(m_events', Now, m_savedRachSessions', ue, m_state'[ue], m_RaProcedureActive'[ue])
    <3>1. UeRight(m_events', Now, m_savedRachSessions, ue, "ACTIVE", m_RaProcedureActive[ue])
      BY <1>2, <1>4, <2>2, <2>3, <2>5, UeWoken
    <3> QED
      BY <1>5, <1>6, <3>1
  <2>7. VariablesTyped'
    BY <1>2, <1>4, <1>5, <1>6 DEF VariablesTyped, Resources
  <2>8. Now <= n.ts
    BY <1>2, <2>3, Values
  <2>9. n.kind \in UeKinds \ {"SendMessage3"} /\ n.kind # "SendMessage1"
    BY <2>3 DEF UeKinds
  <2> QED
    BY <1>1, <1>5, <1>6, <2>2, <2>3, <2>4, <2>6, <2>7, <2>8, <2>9, UeStep
<1>7. CASE m_RaProcedureActive[ue] /\ Done(<<>>)
           /\ UNCHANGED <<m_savedRachSessions, m_RaProcedureActive>>
  <2>1. PICK es : es = <<>>
    OBVIOUS
  <2>2. es \in Seq(Events) /\ Len(es) = 0 /\ EventsIn(es) = {}
    BY <2>1, ShortLists
  <2>3. PICK stay :
            /\ Moves(m_events, m_events', stay, es)
            /\ EventsOf(m_events) = stay \cup {f}
    <3>1. m_events' = RemoveEvent(InsertAll(m_events, es))
      BY <1>7, <2>1 DEF Done
    <3>2. \A i \in 1..Len(es) : f.ts <= es[i].ts
      BY <2>2
    <3> QED
      BY <1>2, <2>2, <3>1, <3>2, Served
  <2>4. UeRight(m_events', Now, m_savedRachSessions', ue, m_state'[ue], m_RaProcedureActive'[ue])
    <3>1. EventsOf(m_events) \cap (Watch(ue) \cup Idle(ue) \cup InFlight(ue)) \subseteq stay
      BY <1>3, <2>3
    <3>2. UeRight(m_events', Now, m_savedRachSessions, ue, m_state[ue], m_RaProcedureActive[ue])
      BY <1>2, <1>4, <2>2, <2>3, <3>1, UeKeeps
    <3> QED
      BY <1>5, <1>7, <3>2
  <2>5. VariablesTyped'
    BY <1>2, <1>4, <1>5, <1>7 DEF VariablesTyped, Resources
  <2> QED
    BY <1>1, <1>5, <1>7, <2>2, <2>3, <2>4, <2>5, UeStep
<1>8. CASE /\ m_state[ue] # "ACTIVE" /\ ~m_RaProcedureActive[ue]
           /\ m_RaProcedureActive' = [m_RaProcedureActive EXCEPT ![ue] = TRUE]
           /\ SendMessage1(ue, <<UeAt(Now + m_RAProcedureTimeout, "ReStartRaProcedure", ue)>>)
  <2>1. PICK w : w = UeAt(Now + m_RAProcedureTimeout, "ReStartRaProcedure", ue)
    OBVIOUS
  <2>2. /\ w \in Events /\ w.ts = Now + m_RAProcedureTimeout /\ w.kind = "ReStartRaProcedure"
        /\ w.ue = ue
    BY <1>2, <2>1, Values, NewEvents DEF UeKinds
  <2>3. w \in Watch(ue) /\ w \notin Idle(ue) /\ w \notin InFlight(ue)
    BY <2>2, EventKinds
  <2>4. PICK m : m = UeAt(Now + 1, "SendMessage1", ue)
    OBVIOUS
  <2>5. m \in Events /\ m.ts = Now + 1 /\ m.kind = "SendMessage1" /\ m.ue = ue
    BY <1>2, <2>4, NewEvents DEF UeKinds
  <2>6. m \in InFlight(ue) /\ m \notin Idle(ue) /\ m \notin Watch(ue)
    BY <2>5, EventKinds
  <2>7. PICK ws : ws = <<w>>
    OBVIOUS
  <2>8. ws \in Seq(Events) /\ EventsIn(ws) = {w} /\ Len(ws) = 1 /\ ws[1] = w
    BY <2>2, <2>7, ShortLists
  <2>9. UeRight(m_events, m_currentTs, m_savedRachSessions, ue, m_state[ue], FALSE)
    <3>1. m_RaProcedureActive[ue] = FALSE
      BY <1>2, <1>4, <1>8 DEF VariablesTyped
    <3> QED
      BY <1>4, <3>1
  <2>10. ~IsSaved(m_savedRachSessions, ue)
    BY <2>9 DEF UeRight
  <2>11. /\ m_RaProcedureActive' \in [UEs -> BOOLEAN] /\ m_RaProcedureActive'[ue] = TRUE
         /\ \A u \in UEs \ {ue} : m_RaProcedureActive'[u] = m_RaProcedureActive[u]
    BY <1>2, <1>4, <1>8 DEF VariablesTyped
  <2>12. SendMessage1(ue, ws)
    BY <1>8, <2>1, <2>7
  <2>13. w.kind \in UeKinds \ {"SendMessage3"} /\ w.kind # "SendMessage1" /\ Now <= w.ts
         /\ m.kind \in UeKinds \ {"SendMessage3"} /\ Now <= m.ts
    BY <1>2, <2>2, <2>5, Values DEF UeKinds
  <2>14. CASE isRachOpportunity
    <3>1. PICK p \in Preambles, rar \in SelectedRar :
                m_savedRachSessions' = SessionsWith(ue, p, rar)
      BY <2>12, <2>14 DEF SendMessage1, SessionsWith
    <3>2. PICK new : new = m_savedRachSessions'
      OBVIOUS
    <3>3. /\ DOMAIN new = DOMAIN m_savedRachSessions \cup {m_TTICounter}
          /\ DOMAIN new \subseteq Nat
          /\ \A t \in DOMAIN new : new[t] \in Seq(Messages)
          /\ \A u, t, i : Saves(new, t, i, u) <=>
                \/ Saves(m_savedRachSessions, t, i, u)
                \/ u = ue /\ t = m_TTICounter /\ i = Len(SessionAt(m_TTICounter)) + 1
      <4>1. new = SessionsWith(ue, p, rar)
        BY <3>1, <3>2
      <4>2. DOMAIN new = DOMAIN m_savedRachSessions \cup {m_TTICounter}
        BY <1>2, <4>1, MessageSaved
      <4>3. \A t \in DOMAIN new : new[t] \in Seq(Messages)
        BY <1>2, <4>1, MessageSaved
      <4>4. \A u, t, i : Saves(new, t, i, u) <=>
                \/ Saves(m_savedRachSessions, t, i, u)
                \/ u = ue /\ t = m_TTICounter /\ i = Len(SessionAt(m_TTICounter)) + 1
        BY <1>2, <4>1, MessageSaved
      <4>5. DOMAIN new \subseteq Nat
        BY <1>2, <4>1, MessageSaved
      <4> QED
        BY <4>2, <4>3, <4>4, <4>5
    <3>4. m_events' = RemoveEvent(InsertAll(m_events, ws))
      BY <2>12, <2>14 DEF SendMessage1, Done
    <3>5. PICK stay :
            /\ Moves(m_events, m_events', stay, ws)
            /\ EventsOf(m_events) = stay \cup {f}
      <4>1. \A i \in 1..Len(ws) : f.ts <= ws[i].ts
        BY <1>2, <2>8, <2>13
      <4> QED
        BY <1>2, <2>8, <3>4, <4>1, Served
    <3>6. \A t, i : Saves(new, t, i, ue) =>
                t = m_TTICounter /\ i = Len(SessionAt(m_TTICounter)) + 1
      BY <2>10, <3>3 DEF IsSaved
    <3>7. SavedOnce(new, ue) /\ \A t, i : Saves(new, t, i, ue) => t \in Nat /\ t <= Now + 1
      BY <1>2, <3>6 DEF SavedOnce
    <3>8. \A i, j \in 1..Len(ws) : i = j
      BY <2>8
    <3>9. EventsIn(ws) \cap Watch(ue) = {w} /\ EventsIn(ws) \cap Idle(ue) = {}
          /\ EventsIn(ws) \cap InFlight(ue) = {}
      BY <2>3, <2>8
    <3>10. UeRight(m_events', Now, new, ue, m_state[ue], TRUE)
      <4>1. \A e \in EventsIn(ws) \cap InFlight(ue) : e.kind = "SendMessage1" /\ e.ts = Now + 1
        BY <3>9
      <4>2. IsSaved(new, ue) => EventsIn(ws) \cap InFlight(ue) = {}
        BY <3>9
      <4>3. /\ \A i, j \in 1..Len(ws) : ws[i] \in Watch(ue) /\ ws[j] \in Watch(ue) => i = j
            /\ \A i, j \in 1..Len(ws) : ws[i] \in InFlight(ue) /\ ws[j] \in InFlight(ue) => i = j
        BY <3>8
      <4> QED
        BY <1>2, <1>8, <2>2, <2>9, <3>5, <3>7, <3>9, <4>1, <4>2, <4>3, UeBegins
    <3>11. VariablesTyped'
      BY <1>2, <1>4, <1>5, <2>11, <3>2, <3>3 DEF VariablesTyped, Resources
    <3>12. m_RBsReservedForRach # {}
      BY <2>14 DEF isRachOpportunity
    <3>13. \A u \in UEs \ {ue} : \A t, i :
                Saves(m_savedRachSessions', t, i, u) <=> Saves(m_savedRachSessions, t, i, u)
      BY <3>2, <3>3
    <3>14. UeRight(m_events', Now, m_savedRachSessions', ue, m_state'[ue], m_RaProcedureActive'[ue])
      BY <1>5, <2>11, <3>2, <3>10
    <3>15. DOMAIN m_savedRachSessions' \subseteq DOMAIN m_savedRachSessions \cup {m_TTICounter}
      BY <3>2, <3>3
    <3>16. \A e \in EventsIn(ws) : /\ e.kind \in UeKinds \ {"SendMessage3"} /\ e.ue = ue
                                   /\ Now <= e.ts
                                   /\ e.kind = "SendMessage1" => e.ts = Now + 1
      BY <2>2, <2>8, <2>13
    <3> QED
      BY <1>1, <1>5, <2>11, <3>5, <3>11, <3>12, <3>13, <3>14, <3>15, <3>16, UeStep, ZenonT(40)
  <2>15. CASE ~isRachOpportunity
    <3>1. PICK es : es = Append(ws, m)
      OBVIOUS
    <3>2. /\ es \in Seq(Events) /\ EventsIn(es) = {w, m} /\ Len(es) = 2
          /\ es[1] = w /\ es[2] = m
      <4>1. /\ es \in Seq(Events) /\ EventsIn(es) = EventsIn(ws) \cup {m}
            /\ Len(es) = Len(ws) + 1
            /\ \A i \in 1..Len(ws) : es[i] = ws[i]
            /\ es[Len(ws) + 1] = m
        BY <2>5, <2>8, <3>1, Appended
      <4>2. Len(es) = 2 /\ es[2] = m /\ es[1] = ws[1]
        BY <2>8, <4>1
      <4> QED
        BY <2>8, <4>1, <4>2
    <3>3. m_events' = RemoveEvent(InsertAll(m_events, es)) /\ UNCHANGED m_savedRachSessions
      BY <2>4, <2>12, <2>15, <3>1 DEF SendMessage1, Done
    <3>4. \A i \in 1..Len(es) : i = 1 \/ i = 2
      BY <3>2
    <3>5. PICK stay :
            /\ Moves(m_events, m_events', stay, es)
            /\ EventsOf(m_events) = stay \cup {f}
      <4>1. \A i \in 1..Len(es) : f.ts <= es[i].ts
        BY <1>2, <2>13, <3>2, <3>4
      <4> QED
        BY <1>2, <3>2, <3>3, <4>1, Served
    <3>6. /\ EventsIn(es) \cap Watch(ue) = {w} /\ EventsIn(es) \cap Idle(ue) = {}
          /\ EventsIn(es) \cap InFlight(ue) = {m}
      BY <2>3, <2>6, <3>2
    <3>7. /\ \A i, j \in 1..Len(es) : es[i] \in Watch(ue) /\ es[j] \in Watch(ue) => i = j
          /\ \A i, j \in 1..Len(es) : es[i] \in InFlight(ue) /\ es[j] \in InFlight(ue) => i = j
      BY <2>3, <2>6, <3>2, <3>4
    <3>8. SavedOnce(m_savedRachSessions, ue)
      BY <2>9 DEF UeRight
    <3>9. \A t, i : ~Saves(m_savedRachSessions, t, i, ue)
      BY <2>10 DEF IsSaved
    <3>10. UeRight(m_events', Now, m_savedRachSessions, ue, m_state[ue], TRUE)
      <4>1. \A e \in EventsIn(es) \cap InFlight(ue) : e.kind = "SendMessage1" /\ e.ts = Now + 1
        BY <2>5, <3>6
      <4>2. IsSaved(m_savedRachSessions, ue) => EventsIn(es) \cap InFlight(ue) = {}
        BY <2>10
      <4>3. \A t, i : Saves(m_savedRachSessions, t, i, ue) => t \in Nat /\ t <= Now + 1
        BY <3>9
      <4> QED
        BY <1>2, <1>8, <2>2, <2>9, <3>5, <3>6, <3>7, <3>8, <4>1, <4>2, <4>3, UeBegins
    <3>11. VariablesTyped'
      BY <1>2, <1>4, <1>5, <2>11, <3>3 DEF VariablesTyped, Resources
    <3>12. UeRight(m_events', Now, m_savedRachSessions', ue, m_state'[ue], m_RaProcedureActive'[ue])
      BY <1>5, <2>11, <3>3, <3>10
    <3>13. \A e \in EventsIn(es) : /\ e.kind \in UeKinds \ {"SendMessage3"} /\ e.ue = ue
                                   /\ Now <= e.ts
                                   /\ e.kind = "SendMessage1" => e.ts = Now + 1
      BY <2>2, <2>5, <2>13, <3>2
    <3> QED
      BY <1>1, <1>5, <2>11, <3>3, <3>5, <3>11, <3>12, <3>13, UeStep
  <2> QED
    BY <2>14, <2>15
<1> QED
  BY <1>6, <1>7, <1>8 DEF StartRaProcedure

\* A message 1 that is still to be sent is not later than the next opportunity.
LEMMA MessageOneInTime ==
    ASSUME NEW cal, NEW saved, NEW ue, NEW since \in Nat, OnTime(cal, saved, ue, since),
           NEW e \in EventsOf(cal), e \in Events, e.kind = "SendMessage1", e.ue = ue
    PROVE  e.ts > since /\ e.ts <= since + m_ripInt
<1>1. e \in InFlight(ue) /\ e.ts \in Nat
  BY EventKinds, EventFields
<1>2. e.ts > since /\ \A tti \in (since + 1)..(e.ts - 1) : ~Opportunity(tti)
  BY <1>1 DEF OnTime
<1>3. PICK tti \in (since + 1)..(since + m_ripInt) : Opportunity(tti)
  BY NextOpportunity
<1>4. ~(tti <= e.ts - 1)
  BY <1>2, <1>3
<1> QED
  BY <1>1, <1>2, <1>3, <1>4, Values

\* The attempt of the UE goes on with another message.
LEMMA UeProceeds ==
    ASSUME NEW cal, NEW new, NEW stay, NEW es, Moves(cal, new, stay, es),
           NEW now \in Nat, NEW now2 \in Nat, now <= now2,
           NEW saved, NEW saved2, NEW ue, NEW state, NEW active, active,
           UeRight(cal, now, saved, ue, state, active),
           EventsOf(cal) \cap (Watch(ue) \cup Idle(ue)) \subseteq stay,
           stay \cap InFlight(ue) = {},
           EventsIn(es) \cap Watch(ue) = {}, EventsIn(es) \cap Idle(ue) = {},
           \A i, j \in 1..Len(es) : es[i] \in InFlight(ue) /\ es[j] \in InFlight(ue) => i = j,
           SavedOnce(saved2, ue),
           IsSaved(saved2, ue) => EventsIn(es) \cap InFlight(ue) = {},
           \A r \in EventsOf(cal) \cap Watch(ue) :
                OnTime(new, saved2, ue, r.ts - m_RAProcedureTimeout)
    PROVE  UeRight(new, now2, saved2, ue, state, active)
<1>1. PICK W, I, F : W = Watch(ue) /\ I = Idle(ue) /\ F = InFlight(ue)
  OBVIOUS
<1>2. stay \subseteq EventsOf(cal) /\ EventsOf(new) = stay \cup EventsIn(es)
  BY DEF Moves
<1>3. /\ EventsOf(new) \cap W = EventsOf(cal) \cap W
      /\ EventsOf(new) \cap I = EventsOf(cal) \cap I
      /\ EventsOf(new) \cap F = EventsIn(es) \cap F
  BY <1>1, <1>2
<1>4. Once(new, W) /\ Once(new, I) /\ Once(new, F)
  <2>1. Once(cal, W) /\ Once(cal, I) /\ Once(cal, F)
    BY <1>1 DEF UeRight
  <2>2. EventsIn(es) \cap W = {} /\ EventsIn(es) \cap I = {} /\ stay \cap F = {}
    BY <1>1
  <2>3. \A i, j \in 1..Len(es) : es[i] \in F /\ es[j] \in F => i = j
    BY <1>1
  <2> QED
    BY <2>1, <2>2, <2>3 DEF Moves
<1>5. IsSaved(saved2, ue) => EventsOf(new) \cap F = {}
  BY <1>1, <1>3
<1>6. ASSUME NEW r \in EventsOf(new) \cap W
      PROVE  /\ r.ts - m_RAProcedureTimeout \in 0..now2
             /\ \A e \in EventsOf(new) \cap I : r.ts < e.ts
             /\ OnTime(new, saved2, ue, r.ts - m_RAProcedureTimeout)
  <2>1. /\ r.ts - m_RAProcedureTimeout \in 0..now
        /\ \A e \in EventsOf(cal) \cap I : r.ts < e.ts
    BY <1>1, <1>3, <1>6 DEF UeRight
  <2>2. r.ts - m_RAProcedureTimeout \in 0..now2
    BY <2>1
  <2> QED
    BY <1>1, <1>3, <1>6, <2>1, <2>2
<1>7. /\ state = "ACTIVE" <=> EventsOf(cal) \cap I # {}
      /\ EventsOf(cal) \cap W # {}
  BY <1>1 DEF UeRight
<1> QED
  BY <1>1, <1>3, <1>4, <1>5, <1>6, <1>7 DEF UeRight

\* Of the UE of the event that is served, and of the event.
LEMMA UeServed ==
    ASSUME IInv, NEW kind \in UeKinds, Serve(kind), NEW es \in Seq(Events),
           \A i \in 1..Len(es) : Now <= es[i].ts, Done(es)
    PROVE  \E stay :
            /\ Moves(m_events, m_events', stay, es)
            /\ EventsOf(m_events) = stay \cup {GetEvent(m_events)}
            /\ \A X : Once(m_events, X) /\ GetEvent(m_events) \in X => stay \cap X = {}
<1>1. /\ IsCalendar(m_events, Events) /\ ~IsEmpty(m_events) /\ GetEvent(m_events).ts = Now
  BY ServedIs
<1>2. \A i \in 1..Len(es) : GetEvent(m_events).ts <= es[i].ts
  BY <1>1
<1>3. m_events' = RemoveEvent(InsertAll(m_events, es))
  BY DEF Done
<1> QED
  BY <1>1, <1>2, <1>3, Served

LEMMA AgainRight == IInv /\ SendMessage1Again => IInv'
<1> SUFFICES ASSUME IInv, SendMessage1Again
             PROVE  IInv'
  OBVIOUS
<1>0. PICK f, ue : f = GetEvent(m_events) /\ ue = TheUE
  OBVIOUS
<1>1. Serve("SendMessage1") /\ "SendMessage1" \in UeKinds
  BY DEF SendMessage1Again, UeKinds
<1>2. /\ IsCalendar(m_events, Events)
      /\ f \in Events /\ f \in EventsOf(m_events) /\ f.kind = "SendMessage1" /\ f.ts = Now
      /\ Now \in Nat /\ m_currentTs' = Now /\ m_currentTs \in Nat /\ m_currentTs <= Now
      /\ m_TTICounter = Now
      /\ ue \in UEs /\ f.ue = ue /\ m_type' = m_type /\ Messages' = Messages
  BY <1>0, <1>1, ServedIs DEF EarlyKinds
<1>3. f \notin Watch(ue) /\ f \notin Idle(ue) /\ f \in InFlight(ue)
  BY <1>2, EventKinds
<1>4. VariablesTyped /\ UeRight(m_events, m_currentTs, m_savedRachSessions, ue, m_state[ue],
                                m_RaProcedureActive[ue])
  BY <1>2 DEF IInv
<1>5. UNCHANGED <<m_TTICounter, m_RBsReservedForRach, m_RBsReservedForCCCH, granted,
                  m_state, m_RaProcedureActive, m_nbFailedAttempts, inputs>>
  BY DEF SendMessage1Again, ue_
<1>6. m_RaProcedureActive[ue] /\ ~IsSaved(m_savedRachSessions, ue) /\ Once(m_events, InFlight(ue))
      /\ SavedOnce(m_savedRachSessions, ue)
  BY <1>2, <1>3, <1>4 DEF UeRight
<1>7. ASSUME NEW r \in EventsOf(m_events) \cap Watch(ue)
      PROVE  /\ r.ts - m_RAProcedureTimeout \in Nat
             /\ Now > r.ts - m_RAProcedureTimeout
             /\ Now <= r.ts - m_RAProcedureTimeout + m_ripInt
             /\ \A tti \in (r.ts - m_RAProcedureTimeout + 1)..(Now - 1) : ~Opportunity(tti)
  <2>1. PICK since : since = r.ts - m_RAProcedureTimeout
    OBVIOUS
  <2>2. since \in Nat /\ OnTime(m_events, m_savedRachSessions, ue, since)
    BY <1>2, <1>4, <1>7, <2>1 DEF UeRight
  <2>3. Now > since /\ Now <= since + m_ripInt
    BY <1>2, <2>2, MessageOneInTime
  <2>4. \A tti \in (since + 1)..(Now - 1) : ~Opportunity(tti)
    BY <1>2, <1>3, <2>2 DEF OnTime
  <2> QED
    BY <2>1, <2>2, <2>3, <2>4
<1>8. SendMessage1(ue, <<>>)
  BY <1>0 DEF SendMessage1Again
<1>9. PICK none : none = <<>>
  OBVIOUS
<1>10. none \in Seq(Events) /\ EventsIn(none) = {} /\ Len(none) = 0
  BY <1>9, ShortLists
<1>11. CASE isRachOpportunity
  <2>1. PICK p \in Preambles, rar \in SelectedRar :
                m_savedRachSessions' = SessionsWith(ue, p, rar)
    BY <1>8, <1>11 DEF SendMessage1, SessionsWith
  <2>2. PICK new : new = m_savedRachSessions'
    OBVIOUS
  <2>3. new = SessionsWith(ue, p, rar)
    BY <2>1, <2>2
  <2>4. DOMAIN new = DOMAIN m_savedRachSessions \cup {m_TTICounter}
    BY <1>2, <2>3, MessageSaved
  <2>5. \A t \in DOMAIN new : new[t] \in Seq(Messages)
    BY <1>2, <2>3, MessageSaved
  <2>6. \A u, t, i : Saves(new, t, i, u) <=>
                \/ Saves(m_savedRachSessions, t, i, u)
                \/ u = ue /\ t = m_TTICounter /\ i = Len(SessionAt(m_TTICounter)) + 1
    BY <1>2, <2>3, MessageSaved
  <2>7. DOMAIN new \subseteq Nat
    BY <1>2, <2>3, MessageSaved
  <2>8. Done(none)
    BY <1>8, <1>9, <1>11 DEF SendMessage1
  <2>9. PICK stay :
            /\ Moves(m_events, m_events', stay, none)
            /\ EventsOf(m_events) = stay \cup {f}
            /\ \A X : Once(m_events, X) /\ f \in X => stay \cap X = {}
    <3>1. \A i \in 1..Len(none) : Now <= none[i].ts
      BY <1>10
    <3> QED
      BY <1>0, <1>1, <1>10, <2>8, <3>1, UeServed
  <2>10. \A t, i : Saves(new, t, i, ue) =>
                t = m_TTICounter /\ i = Len(SessionAt(m_TTICounter)) + 1
    BY <1>6, <2>6 DEF IsSaved
  <2>11. SavedOnce(new, ue)
    BY <2>10 DEF SavedOnce
  <2>12. stay \cap InFlight(ue) = {}
    BY <1>3, <1>6, <2>9
  <2>13. EventsOf(m_events) \cap (Watch(ue) \cup Idle(ue)) \subseteq stay
    BY <1>3, <2>9
  <2>14. EventsOf(m_events') \cap InFlight(ue) = {}
    BY <1>10, <2>9, <2>12 DEF Moves
  <2>15. ASSUME NEW r \in EventsOf(m_events) \cap Watch(ue)
         PROVE  OnTime(m_events', new, ue, r.ts - m_RAProcedureTimeout)
    <3>1. \A t, i : Saves(new, t, i, ue) => t <= r.ts - m_RAProcedureTimeout + m_ripInt
      BY <1>2, <1>7, <2>10
    <3> QED
      BY <2>14, <3>1 DEF OnTime
  <2>16. UeRight(m_events', Now, new, ue, m_state[ue], m_RaProcedureActive[ue])
    <3>1. EventsIn(none) \cap Watch(ue) = {} /\ EventsIn(none) \cap Idle(ue) = {}
          /\ EventsIn(none) \cap InFlight(ue) = {}
      BY <1>10
    <3>2. \A i, j \in 1..Len(none) : none[i] \in InFlight(ue) /\ none[j] \in InFlight(ue) => i = j
      BY <1>10
    <3> QED
      BY <1>2, <1>4, <1>6, <2>9, <2>11, <2>12, <2>13, <2>15, <3>1, <3>2, UeProceeds
  <2>17. VariablesTyped'
    BY <1>2, <1>4, <1>5, <2>2, <2>5, <2>7 DEF VariablesTyped, Resources
  <2>18. m_RBsReservedForRach # {}
    BY <1>11 DEF isRachOpportunity
  <2>19. \A u \in UEs \ {ue} : \A t, i :
                Saves(m_savedRachSessions', t, i, u) <=> Saves(m_savedRachSessions, t, i, u)
    BY <2>2, <2>6
  <2>20. UeRight(m_events', Now, m_savedRachSessions', ue, m_state'[ue], m_RaProcedureActive'[ue])
    BY <1>5, <2>2, <2>16
  <2>21. DOMAIN m_savedRachSessions' \subseteq DOMAIN m_savedRachSessions \cup {m_TTICounter}
    BY <2>2, <2>4
  <2> QED
    BY <1>0, <1>1, <1>5, <1>10, <2>9, <2>17, <2>18, <2>19, <2>20, <2>21, UeStep
<1>12. CASE ~isRachOpportunity
  <2>1. PICK m : m = UeAt(Now + 1, "SendMessage1", ue)
    OBVIOUS
  <2>2. m \in Events /\ m.ts = Now + 1 /\ m.kind = "SendMessage1" /\ m.ue = ue
    BY <1>2, <2>1, NewEvents DEF UeKinds
  <2>3. m \in InFlight(ue) /\ m \notin Idle(ue) /\ m \notin Watch(ue)
    BY <2>2, EventKinds
  <2>4. PICK es : es = Append(none, m)
    OBVIOUS
  <2>5. es \in Seq(Events) /\ EventsIn(es) = {m} /\ Len(es) = 1 /\ es[1] = m
    <3>1. es \in Seq(Events) /\ EventsIn(es) = EventsIn(none) \cup {m} /\ Len(es) = Len(none) + 1
          /\ es[Len(none) + 1] = m
      BY <1>10, <2>2, <2>4, ShortLists
    <3> QED
      BY <1>10, <3>1
  <2>6. Done(es) /\ UNCHANGED m_savedRachSessions
    BY <1>0, <1>8, <1>9, <1>12, <2>1, <2>4 DEF SendMessage1
  <2>7. PICK stay :
            /\ Moves(m_events, m_events', stay, es)
            /\ EventsOf(m_events) = stay \cup {f}
            /\ \A X : Once(m_events, X) /\ f \in X => stay \cap X = {}
    <3>1. \A i \in 1..Len(es) : Now <= es[i].ts
      BY <1>2, <2>2, <2>5
    <3> QED
      BY <1>0, <1>1, <2>5, <2>6, <3>1, UeServed
  <2>8. stay \cap InFlight(ue) = {}
    BY <1>3, <1>6, <2>7
  <2>9. EventsOf(m_events) \cap (Watch(ue) \cup Idle(ue)) \subseteq stay
    BY <1>3, <2>7
  <2>10. EventsOf(m_events') \cap InFlight(ue) = {m}
    BY <2>3, <2>5, <2>7, <2>8 DEF Moves
  <2>11. ASSUME NEW r \in EventsOf(m_events) \cap Watch(ue)
         PROVE  OnTime(m_events', m_savedRachSessions, ue, r.ts - m_RAProcedureTimeout)
    <3>1. PICK since : since = r.ts - m_RAProcedureTimeout
      OBVIOUS
    <3>2. since \in Nat /\ Now > since /\ \A tti \in (since + 1)..(Now - 1) : ~Opportunity(tti)
      BY <1>7, <3>1
    <3>3. ~Opportunity(Now)
      BY <1>2, <1>12, <3>2, OpportunityKnown
    <3>4. \A tti \in (since + 1)..(m.ts - 1) : tti \in (since + 1)..(Now - 1) \/ tti = Now
      BY <1>2, <2>2, <3>2
    <3>5. m.ts > since /\ \A tti \in (since + 1)..(m.ts - 1) : ~Opportunity(tti)
      BY <1>2, <2>2, <3>2, <3>3, <3>4
    <3>6. \A t, i : ~Saves(m_savedRachSessions, t, i, ue)
      BY <1>6 DEF IsSaved
    <3>7. OnTime(m_events', m_savedRachSessions, ue, since)
      BY <2>2, <2>10, <3>5, <3>6 DEF OnTime
    <3> QED
      BY <3>1, <3>7
  <2>12. UeRight(m_events', Now, m_savedRachSessions, ue, m_state[ue], m_RaProcedureActive[ue])
    <3>1. EventsIn(es) \cap Watch(ue) = {} /\ EventsIn(es) \cap Idle(ue) = {}
      BY <2>3, <2>5
    <3>2. \A i, j \in 1..Len(es) : es[i] \in InFlight(ue) /\ es[j] \in InFlight(ue) => i = j
      BY <2>5
    <3> QED
      BY <1>2, <1>4, <1>6, <2>7, <2>8, <2>9, <2>11, <3>1, <3>2, UeProceeds
  <2>13. VariablesTyped'
    BY <1>2, <1>4, <1>5, <2>6 DEF VariablesTyped, Resources
  <2>14. UeRight(m_events', Now, m_savedRachSessions', ue, m_state'[ue], m_RaProcedureActive'[ue])
    BY <1>5, <2>6, <2>12
  <2>15. \A e \in EventsIn(es) : /\ e.kind \in UeKinds \ {"SendMessage3"} /\ e.ue = ue
                                 /\ Now <= e.ts
                                 /\ e.kind = "SendMessage1" => e.ts = Now + 1
    BY <1>2, <2>2, <2>5 DEF UeKinds
  <2> QED
    BY <1>0, <1>1, <1>5, <2>6, <2>7, <2>13, <2>14, <2>15, UeStep
<1> QED
  BY <1>11, <1>12

\* When the timeout of an attempt expires nothing of the attempt is left.
LEMMA NothingLate ==
    ASSUME IInv, Serve("ReStartRaProcedure")
    PROVE  /\ EventsOf(m_events) \cap InFlight(TheUE) = {}
           /\ ~IsSaved(m_savedRachSessions, TheUE)
<1> DEFINE latest == m_ripInt + m_responseWindowDelay + m_responseWindowDuration + 1
<1>0. PICK f, ue : f = GetEvent(m_events) /\ ue = TheUE
  OBVIOUS
<1>1. /\ f \in Events /\ f \in EventsOf(m_events) /\ f.kind = "ReStartRaProcedure" /\ f.ts = Now
      /\ Now \in Nat /\ ue \in UEs /\ f.ue = ue
      /\ \A e \in EventsOf(m_events) : e \in Events /\ e.ts \in Nat /\ Now <= e.ts
  BY <1>0, ServedIs DEF UeKinds
<1>2. UeRight(m_events, m_currentTs, m_savedRachSessions, ue, m_state[ue], m_RaProcedureActive[ue])
  BY <1>1 DEF IInv
<1>3. f \in Watch(ue)
  BY <1>1, EventKinds
<1>4. PICK since : since = Now - m_RAProcedureTimeout
  OBVIOUS
<1>5. m_currentTs \in Nat
  BY DEF IInv, VariablesTyped
<1>6. since \in Nat /\ OnTime(m_events, m_savedRachSessions, ue, since)
  BY <1>1, <1>2, <1>3, <1>4, <1>5 DEF UeRight
<1>7. since + latest < Now
  BY <1>1, <1>4, <1>6, Values
<1>8. ASSUME NEW e \in EventsOf(m_events) \cap InFlight(ue)
      PROVE  FALSE
  <2>1. e \in Events /\ e.ts \in Nat /\ Now <= e.ts
    BY <1>1, <1>8
  <2>2. e.ue = ue /\ e.kind \in {"SendMessage1", "SendMessage3", "SendMessage4"}
    BY <1>8, <2>1, EventKinds
  <2>3. e.kind = "SendMessage1" => e.ts <= since + m_ripInt
    BY <1>6, <1>8, <2>1, <2>2, MessageOneInTime
  <2>4. /\ e.kind = "SendMessage3" =>
            e.ts <= since + m_ripInt + m_responseWindowDelay + m_responseWindowDuration
        /\ e.kind = "SendMessage4" =>
            e.ts <= since + m_ripInt + m_responseWindowDelay + m_responseWindowDuration + 1
    BY <1>6, <1>8 DEF OnTime
  <2>5. e.ts <= since + latest
    BY <1>6, <2>1, <2>2, <2>3, <2>4, Values
  <2> QED
    BY <1>1, <1>6, <1>7, <2>1, <2>5, Values
<1>9. ASSUME NEW t, NEW i, Saves(m_savedRachSessions, t, i, ue)
      PROVE  FALSE
  <2>1. t \in DOMAIN m_savedRachSessions /\ t <= since + m_ripInt /\ t \in Nat
    BY <1>6, <1>9 DEF OnTime, Saves, IInv, VariablesTyped
  <2>2. PICK c \in EventsOf(m_events) : c \in OfKinds({"CheckCollisions"})
    BY DEF IInv, CellRight, CheckRight
  <2>3. c.kind = "CheckCollisions" /\ c.ts \in Nat /\ Now <= c.ts
    BY <1>1, <2>2, EventKinds
  <2>4. c.ts <= t + m_responseWindowDelay
    BY <2>1, <2>2, <2>3 DEF IInv, CellRight, CheckRight
  <2> QED
    BY <1>1, <1>6, <1>7, <2>1, <2>3, <2>4, Values
<1> QED
  BY <1>0, <1>8, <1>9 DEF IsSaved

LEMMA ReStartRight == IInv /\ ReStartRaProcedure => IInv'
<1> SUFFICES ASSUME IInv, ReStartRaProcedure
             PROVE  IInv'
  OBVIOUS
<1>0. PICK f, ue : f = GetEvent(m_events) /\ ue = TheUE
  OBVIOUS
<1>1. Serve("ReStartRaProcedure") /\ "ReStartRaProcedure" \in UeKinds
  BY DEF ReStartRaProcedure, UeKinds
<1>2. /\ IsCalendar(m_events, Events)
      /\ f \in Events /\ f \in EventsOf(m_events) /\ f.kind = "ReStartRaProcedure" /\ f.ts = Now
      /\ Now \in Nat /\ m_currentTs' = Now /\ m_currentTs \in Nat /\ m_currentTs <= Now
      /\ ue \in UEs /\ f.ue = ue /\ m_type' = m_type /\ Messages' = Messages
  BY <1>0, <1>1, ServedIs
<1>3. f \in Watch(ue) /\ f \notin Idle(ue) /\ f \notin InFlight(ue)
  BY <1>2, EventKinds
<1>4. VariablesTyped /\ UeRight(m_events, m_currentTs, m_savedRachSessions, ue, m_state[ue],
                                m_RaProcedureActive[ue])
  BY <1>2 DEF IInv
<1>5. UNCHANGED <<m_TTICounter, m_RBsReservedForRach, m_RBsReservedForCCCH, granted,
                  m_state, m_savedRachSessions, inputs>>
  BY DEF ReStartRaProcedure, gnb
<1>6. /\ m_RaProcedureActive' \in [UEs -> BOOLEAN] /\ ~m_RaProcedureActive'[ue]
      /\ \A u \in UEs \ {ue} : m_RaProcedureActive'[u] = m_RaProcedureActive[u]
      /\ m_nbFailedAttempts' \in [UEs -> 0..(m_maxFailedAttempts - 1)]
  <2>1. m_RaProcedureActive \in [UEs -> BOOLEAN]
        /\ m_nbFailedAttempts \in [UEs -> 0..(m_maxFailedAttempts - 1)]
    BY <1>4 DEF VariablesTyped
  <2>2. CASE ~m_RaProcedureActive[ue]
    BY <1>0, <1>2, <2>1, <2>2 DEF ReStartRaProcedure
  <2>3. CASE m_RaProcedureActive[ue]
    <3>1. m_RaProcedureActive' = [m_RaProcedureActive EXCEPT ![ue] = FALSE]
      BY <1>0, <2>3 DEF ReStartRaProcedure
    <3>2. \/ /\ m_nbFailedAttempts[ue] + 1 < m_maxFailedAttempts
             /\ m_nbFailedAttempts' = [m_nbFailedAttempts EXCEPT ![ue] = @ + 1]
          \/ m_nbFailedAttempts' = [m_nbFailedAttempts EXCEPT ![ue] = 0]
      BY <1>0, <2>3 DEF ReStartRaProcedure
    <3>3. m_nbFailedAttempts' \in [UEs -> 0..(m_maxFailedAttempts - 1)]
      BY <1>2, <2>1, <3>2, Values
    <3> QED
      BY <1>2, <2>1, <3>1, <3>3
  <2> QED
    BY <2>2, <2>3
<1>7. PICK es \in Seq(Events) :
        /\ Done(es) /\ \A i \in 1..Len(es) : Now <= es[i].ts
        /\ \A e \in EventsIn(es) : e.kind = "StartRaProcedure" /\ e.ue = ue /\ Now <= e.ts
  <2>1. CASE Done(<<>>)
    <3>1. PICK none : none = <<>>
      OBVIOUS
    <3>2. none \in Seq(Events) /\ EventsIn(none) = {} /\ Len(none) = 0
      BY <3>1, ShortLists
    <3>3. Done(none)
      BY <2>1, <3>1
    <3>4. \A i \in 1..Len(none) : Now <= none[i].ts
      BY <3>2
    <3> QED
      BY <3>2, <3>3, <3>4
  <2>2. CASE \E waitingTime \in Backoffs :
                Done(<<UeAt(Now + waitingTime, "StartRaProcedure", ue)>>)
    <3>1. PICK waitingTime \in Backoffs :
                Done(<<UeAt(Now + waitingTime, "StartRaProcedure", ue)>>)
      BY <2>2
    <3>2. Now + waitingTime \in Nat /\ Now <= Now + waitingTime
      BY <1>2, Values
    <3>3. PICK n : n = UeAt(Now + waitingTime, "StartRaProcedure", ue)
      OBVIOUS
    <3>4. n \in Events /\ n.ts = Now + waitingTime /\ n.kind = "StartRaProcedure" /\ n.ue = ue
      BY <1>2, <3>2, <3>3, NewEvents DEF UeKinds
    <3>5. PICK es : es = <<n>>
      OBVIOUS
    <3>6. es \in Seq(Events) /\ EventsIn(es) = {n} /\ Len(es) = 1 /\ es[1] = n
      BY <3>4, <3>5, ShortLists
    <3>7. Done(es)
      BY <3>1, <3>3, <3>5
    <3> QED
      BY <3>2, <3>4, <3>6, <3>7
  <2> QED
    BY <1>0, <2>1, <2>2 DEF ReStartRaProcedure
<1>8. PICK stay :
        /\ Moves(m_events, m_events', stay, es)
        /\ EventsOf(m_events) = stay \cup {f}
        /\ \A X : Once(m_events, X) /\ f \in X => stay \cap X = {}
  BY <1>0, <1>1, <1>7, UeServed
<1>9. UeRight(m_events', Now, m_savedRachSessions, ue, m_state[ue], m_RaProcedureActive'[ue])
  <2>1. PICK W, I, F : W = Watch(ue) /\ I = Idle(ue) /\ F = InFlight(ue)
    OBVIOUS
  <2>2. EventsOf(m_events) \cap F = {} /\ ~IsSaved(m_savedRachSessions, ue)
    BY <1>0, <1>1, <2>1, NothingLate
  <2>3. Once(m_events, W) /\ Once(m_events, I) /\ Once(m_events, F)
        /\ SavedOnce(m_savedRachSessions, ue)
        /\ (m_state[ue] = "ACTIVE" <=> EventsOf(m_events) \cap I # {})
    BY <1>4, <2>1 DEF UeRight
  <2>4. /\ stay \subseteq EventsOf(m_events) /\ EventsOf(m_events') = stay \cup EventsIn(es)
        /\ EventsOf(m_events') \subseteq Events
    BY <1>8 DEF Moves
  <2>5. stay \cap W = {}
    BY <1>3, <1>8, <2>1, <2>3
  <2>6. EventsIn(es) \cap W = {} /\ EventsIn(es) \cap I = {} /\ EventsIn(es) \cap F = {}
    <3>1. \A e \in EventsIn(es) : e \in Events
      BY <2>4
    <3> QED
      BY <1>7, <2>1, <3>1, EventKinds
  <2>7. /\ EventsOf(m_events') \cap W = {} /\ EventsOf(m_events') \cap F = {}
        /\ EventsOf(m_events') \cap I = EventsOf(m_events) \cap I
    BY <1>3, <1>8, <2>1, <2>2, <2>4, <2>5, <2>6
  <2>8. Once(m_events', W) /\ Once(m_events', I) /\ Once(m_events', F)
    BY <1>8, <2>3, <2>6 DEF Moves
  <2> QED
    BY <1>6, <2>1, <2>2, <2>3, <2>7, <2>8 DEF UeRight
<1>10. VariablesTyped'
  BY <1>2, <1>4, <1>5, <1>6 DEF VariablesTyped, Resources
<1>11. \A e \in EventsIn(es) : /\ e.kind \in UeKinds \ {"SendMessage3"} /\ e.ue = ue
                               /\ Now <= e.ts
                               /\ e.kind = "SendMessage1" => e.ts = Now + 1
  BY <1>7 DEF UeKinds
<1> QED
  BY <1>0, <1>1, <1>5, <1>6, <1>8, <1>9, <1>10, <1>11, UeStep

LEMMA Message3Right == IInv /\ SendMessage3 => IInv'
<1> SUFFICES ASSUME IInv, SendMessage3
             PROVE  IInv'
  OBVIOUS
<1>0. PICK f, ue : f = GetEvent(m_events) /\ ue = TheUE
  OBVIOUS
<1>1. Serve("SendMessage3") /\ "SendMessage3" \in UeKinds
  BY DEF SendMessage3, UeKinds
<1>2. /\ IsCalendar(m_events, Events)
      /\ f \in Events /\ f \in EventsOf(m_events) /\ f.kind = "SendMessage3" /\ f.ts = Now
      /\ Now \in Nat /\ m_currentTs' = Now /\ m_currentTs \in Nat /\ m_currentTs <= Now
      /\ ue \in UEs /\ f.ue = ue /\ m_type' = m_type /\ Messages' = Messages
  BY <1>0, <1>1, ServedIs
<1>3. f \notin Watch(ue) /\ f \notin Idle(ue) /\ f \in InFlight(ue)
  BY <1>2, EventKinds
<1>4. VariablesTyped /\ UeRight(m_events, m_currentTs, m_savedRachSessions, ue, m_state[ue],
                                m_RaProcedureActive[ue])
  BY <1>2 DEF IInv
<1>5. UNCHANGED <<m_TTICounter, m_RBsReservedForRach, m_RBsReservedForCCCH, granted,
                  m_state, m_savedRachSessions, m_RaProcedureActive, m_nbFailedAttempts, inputs>>
  BY DEF SendMessage3, gnb, ue_
<1>6. m_RaProcedureActive[ue] /\ ~IsSaved(m_savedRachSessions, ue) /\ Once(m_events, InFlight(ue))
      /\ SavedOnce(m_savedRachSessions, ue)
  BY <1>2, <1>3, <1>4 DEF UeRight
<1>7. PICK m : m = UeAt(Now + 1, "SendMessage4", ue)
  OBVIOUS
<1>8. m \in Events /\ m.ts = Now + 1 /\ m.kind = "SendMessage4" /\ m.ue = ue
  BY <1>2, <1>7, NewEvents DEF UeKinds
<1>9. m \in InFlight(ue) /\ m \notin Idle(ue) /\ m \notin Watch(ue)
  BY <1>8, EventKinds
<1>10. PICK es : es = <<m>>
  OBVIOUS
<1>11. es \in Seq(Events) /\ EventsIn(es) = {m} /\ Len(es) = 1 /\ es[1] = m
  BY <1>8, <1>10, ShortLists
<1>12. Done(es)
  BY <1>0, <1>7, <1>10 DEF SendMessage3
<1>13. PICK stay :
        /\ Moves(m_events, m_events', stay, es)
        /\ EventsOf(m_events) = stay \cup {f}
        /\ \A X : Once(m_events, X) /\ f \in X => stay \cap X = {}
  <2>1. \A i \in 1..Len(es) : Now <= es[i].ts
    BY <1>2, <1>8, <1>11
  <2> QED
    BY <1>0, <1>1, <1>11, <1>12, <2>1, UeServed
<1>14. stay \cap InFlight(ue) = {}
  BY <1>3, <1>6, <1>13
<1>15. EventsOf(m_events) \cap (Watch(ue) \cup Idle(ue)) \subseteq stay
  BY <1>3, <1>13
<1>16. EventsOf(m_events') \cap InFlight(ue) = {m}
  BY <1>9, <1>11, <1>13, <1>14 DEF Moves
<1>17. ASSUME NEW r \in EventsOf(m_events) \cap Watch(ue)
       PROVE  OnTime(m_events', m_savedRachSessions, ue, r.ts - m_RAProcedureTimeout)
  <2>1. PICK since : since = r.ts - m_RAProcedureTimeout
    OBVIOUS
  <2>2. since \in Nat /\ OnTime(m_events, m_savedRachSessions, ue, since)
    BY <1>2, <1>4, <1>17, <2>1 DEF UeRight
  <2>3. Now <= since + m_ripInt + m_responseWindowDelay + m_responseWindowDuration
    BY <1>2, <1>3, <2>2 DEF OnTime
  <2>4. m.ts <= since + m_ripInt + m_responseWindowDelay + m_responseWindowDuration + 1
    BY <1>2, <1>8, <2>2, <2>3, Values
  <2>5. \A t, i : ~Saves(m_savedRachSessions, t, i, ue)
    BY <1>6 DEF IsSaved
  <2>6. OnTime(m_events', m_savedRachSessions, ue, since)
    BY <1>8, <1>16, <2>4, <2>5 DEF OnTime
  <2> QED
    BY <2>1, <2>6
<1>18. UeRight(m_events', Now, m_savedRachSessions, ue, m_state[ue], m_RaProcedureActive[ue])
  <2>1. EventsIn(es) \cap Watch(ue) = {} /\ EventsIn(es) \cap Idle(ue) = {}
    BY <1>9, <1>11
  <2>2. \A i, j \in 1..Len(es) : es[i] \in InFlight(ue) /\ es[j] \in InFlight(ue) => i = j
    BY <1>11
  <2> QED
    BY <1>2, <1>4, <1>6, <1>13, <1>14, <1>15, <1>17, <2>1, <2>2, UeProceeds
<1>19. VariablesTyped'
  BY <1>2, <1>4, <1>5 DEF VariablesTyped, Resources
<1>20. UeRight(m_events', Now, m_savedRachSessions', ue, m_state'[ue], m_RaProcedureActive'[ue])
  BY <1>5, <1>18
<1>21. \A e \in EventsIn(es) : /\ e.kind \in UeKinds \ {"SendMessage3"} /\ e.ue = ue
                               /\ Now <= e.ts
                               /\ e.kind = "SendMessage1" => e.ts = Now + 1
  BY <1>2, <1>8, <1>11 DEF UeKinds
<1> QED
  BY <1>0, <1>1, <1>5, <1>13, <1>19, <1>20, <1>21, UeStep

LEMMA Message4Right == IInv /\ SendMessage4 => IInv'
<1> SUFFICES ASSUME IInv, SendMessage4
             PROVE  IInv'
  OBVIOUS
<1>0. PICK f, ue : f = GetEvent(m_events) /\ ue = TheUE
  OBVIOUS
<1>1. Serve("SendMessage4") /\ "SendMessage4" \in UeKinds
  BY DEF SendMessage4, UeKinds
<1>2. /\ IsCalendar(m_events, Events) /\ ~IsEmpty(m_events)
      /\ f \in Events /\ f \in EventsOf(m_events) /\ f.kind = "SendMessage4" /\ f.ts = Now
      /\ Now \in Nat /\ m_currentTs' = Now /\ m_currentTs \in Nat /\ m_currentTs <= Now
      /\ ue \in UEs /\ f.ue = ue /\ m_type' = m_type /\ Messages' = Messages
  BY <1>0, <1>1, ServedIs
<1>3. f \notin Watch(ue) /\ f \notin Idle(ue) /\ f \in InFlight(ue)
  BY <1>2, EventKinds
<1>4. VariablesTyped /\ UeRight(m_events, m_currentTs, m_savedRachSessions, ue, m_state[ue],
                                m_RaProcedureActive[ue])
  BY <1>2 DEF IInv
<1>5. UNCHANGED <<m_TTICounter, m_RBsReservedForRach, m_RBsReservedForCCCH, granted,
                  m_savedRachSessions, inputs>>
  BY DEF SendMessage4, gnb
<1>6. /\ m_state' \in [UEs -> {"IDLE", "ACTIVE"}] /\ m_state'[ue] = "ACTIVE"
      /\ m_RaProcedureActive' \in [UEs -> BOOLEAN] /\ m_RaProcedureActive'[ue] = FALSE
      /\ m_nbFailedAttempts' \in [UEs -> 0..(m_maxFailedAttempts - 1)]
      /\ \A u \in UEs \ {ue} : m_state'[u] = m_state[u]
                               /\ m_RaProcedureActive'[u] = m_RaProcedureActive[u]
  BY <1>0, <1>2, <1>4, Values DEF SendMessage4, VariablesTyped
<1>7. ~IsSaved(m_savedRachSessions, ue) /\ Once(m_events, InFlight(ue))
  BY <1>2, <1>3, <1>4 DEF UeRight
<1>8. PICK n : n = UeAt(Now + m_activityTimeout, "SetNodeState", ue)
  OBVIOUS
<1>9. n \in Events /\ n.ts = Now + m_activityTimeout /\ n.kind = "SetNodeState" /\ n.ue = ue
  BY <1>2, <1>8, Values, NewEvents DEF UeKinds
<1>10. m_events' = RemoveEvent(SetLastActivity(m_events, Now, ue))
  BY <1>0 DEF SendMessage4
<1>11. PICK stay :
        /\ Moves(m_events, m_events', stay, <<n>>)
        /\ EventsOf(m_events) \ Idle(ue) = stay \cup {f}
        /\ stay \cap Idle(ue) = {}
        /\ \A X : Once(m_events, X) /\ f \in X => stay \cap X = {}
  BY <1>0, <1>2, <1>3, <1>8, <1>10, ServedActive
<1>12. stay \cap InFlight(ue) = {}
  BY <1>3, <1>7, <1>11
<1>13. EventsOf(m_events) \cap Watch(ue) \subseteq stay
  <2>1. \A e \in Events : e \in Watch(ue) => e \notin Idle(ue)
    BY EventKinds
  <2>2. EventsOf(m_events) \subseteq Events
    BY <1>2, EventTypes
  <2> QED
    BY <1>3, <1>11, <2>1, <2>2
<1>14. UeRight(m_events', Now, m_savedRachSessions, ue, "ACTIVE", FALSE)
  BY <1>2, <1>4, <1>7, <1>9, <1>11, <1>12, <1>13, UeWoken
<1>15. UeRight(m_events', Now, m_savedRachSessions', ue, m_state'[ue], m_RaProcedureActive'[ue])
  BY <1>5, <1>6, <1>14
<1>16. VariablesTyped'
  BY <1>2, <1>4, <1>5, <1>6 DEF VariablesTyped, Resources
<1>17. EventsIn(<<n>>) = {n}
  BY <1>9, ShortLists
<1>18. \A e \in EventsIn(<<n>>) : /\ e.kind \in UeKinds \ {"SendMessage3"} /\ e.ue = ue
                                  /\ Now <= e.ts
                                  /\ e.kind = "SendMessage1" => e.ts = Now + 1
  BY <1>2, <1>9, <1>17, Values DEF UeKinds
<1> QED
  BY <1>0, <1>1, <1>5, <1>6, <1>11, <1>15, <1>16, <1>18, UeStep

LEMMA TimerRight == IInv /\ SetNodeState => IInv'
<1> SUFFICES ASSUME IInv, SetNodeState
             PROVE  IInv'
  OBVIOUS
<1>0. PICK f, ue : f = GetEvent(m_events) /\ ue = TheUE
  OBVIOUS
<1>1. Serve("SetNodeState") /\ "SetNodeState" \in UeKinds
  BY DEF SetNodeState, UeKinds
<1>2. /\ IsCalendar(m_events, Events)
      /\ f \in Events /\ f \in EventsOf(m_events) /\ f.kind = "SetNodeState" /\ f.ts = Now
      /\ Now \in Nat /\ m_currentTs' = Now /\ m_currentTs \in Nat /\ m_currentTs <= Now
      /\ ue \in UEs /\ f.ue = ue /\ m_type' = m_type /\ Messages' = Messages
      /\ \A e \in EventsOf(m_events) : e.ts \in Nat /\ Now <= e.ts
  BY <1>0, <1>1, ServedIs
<1>3. f \notin Watch(ue) /\ f \in Idle(ue) /\ f \notin InFlight(ue)
  BY <1>2, EventKinds
<1>4. VariablesTyped /\ UeRight(m_events, m_currentTs, m_savedRachSessions, ue, m_state[ue],
                                m_RaProcedureActive[ue])
  BY <1>2 DEF IInv
<1>5. UNCHANGED <<m_TTICounter, m_RBsReservedForRach, m_RBsReservedForCCCH, granted,
                  m_savedRachSessions, m_RaProcedureActive, m_nbFailedAttempts, inputs>>
  BY DEF SetNodeState, gnb
<1>6. /\ m_state' \in [UEs -> {"IDLE", "ACTIVE"}] /\ m_state'[ue] = "IDLE"
      /\ \A u \in UEs \ {ue} : m_state'[u] = m_state[u]
  BY <1>0, <1>2, <1>4 DEF SetNodeState, VariablesTyped
<1>7. PICK none : none = <<>>
  OBVIOUS
<1>8. none \in Seq(Events) /\ EventsIn(none) = {} /\ Len(none) = 0
  BY <1>7, ShortLists
<1>9. PICK stay :
        /\ Moves(m_events, m_events', stay, none)
        /\ EventsOf(m_events) = stay \cup {f}
        /\ \A X : Once(m_events, X) /\ f \in X => stay \cap X = {}
  <2>1. \A i \in 1..Len(none) : Now <= none[i].ts
    BY <1>8
  <2>2. Done(none)
    BY <1>7 DEF SetNodeState
  <2> QED
    BY <1>0, <1>1, <1>8, <2>1, <2>2, UeServed
<1>10. UeRight(m_events', Now, m_savedRachSessions, ue, "IDLE", m_RaProcedureActive[ue])
  <2>1. PICK W, I, F : W = Watch(ue) /\ I = Idle(ue) /\ F = InFlight(ue)
    OBVIOUS
  <2>2. EventsOf(m_events) \cap W = {}
    <3> SUFFICES ASSUME NEW r \in EventsOf(m_events) \cap W
                 PROVE  FALSE
      OBVIOUS
    <3>1. r.ts < f.ts
      BY <1>2, <1>3, <1>4, <2>1 DEF UeRight
    <3> QED
      BY <1>2, <3>1
  <2>3. ~m_RaProcedureActive[ue] /\ EventsOf(m_events) \cap F = {}
        /\ ~IsSaved(m_savedRachSessions, ue)
    BY <1>4, <2>1, <2>2 DEF UeRight
  <2>4. Once(m_events, W) /\ Once(m_events, I) /\ Once(m_events, F)
        /\ SavedOnce(m_savedRachSessions, ue)
    BY <1>4, <2>1 DEF UeRight
  <2>5. stay \cap I = {}
    BY <1>3, <1>9, <2>1, <2>4
  <2>6. EventsOf(m_events') = stay
    BY <1>8, <1>9 DEF Moves
  <2>7. /\ EventsOf(m_events') \cap W = {} /\ EventsOf(m_events') \cap F = {}
        /\ EventsOf(m_events') \cap I = {}
    BY <1>9, <2>2, <2>3, <2>5, <2>6
  <2>8. Once(m_events', W) /\ Once(m_events', I) /\ Once(m_events', F)
    BY <1>8, <1>9, <2>4 DEF Moves
  <2> QED
    BY <2>1, <2>3, <2>4, <2>7, <2>8 DEF UeRight
<1>11. VariablesTyped'
  BY <1>2, <1>4, <1>5, <1>6 DEF VariablesTyped, Resources
<1>12. UeRight(m_events', Now, m_savedRachSessions', ue, m_state'[ue], m_RaProcedureActive'[ue])
  BY <1>5, <1>6, <1>10
<1> QED
  BY <1>0, <1>1, <1>5, <1>6, <1>8, <1>9, <1>11, <1>12, UeStep

-----------------------------------------------------------------------------
(***************************************************************************)
(* The inputs                                                              *)
(***************************************************************************)

\* The invariant of a calendar and the states of the UEs, outside of any event.
Right(cal, state) ==
    /\ CalendarRight(cal, m_currentTs)
    /\ CellRight(cal, m_currentTs, m_TTICounter, granted, m_RBsReservedForRach,
                 m_RBsReservedForCCCH, m_savedRachSessions)
    /\ \A ue \in UEs : UeRight(cal, m_currentTs, m_savedRachSessions, ue, state[ue],
                               m_RaProcedureActive[ue])

\* A UE that the events that come and go do not concern.
LEMMA OtherKept ==
    ASSUME NEW cal, IsCalendar(cal, Events), NEW new, NEW stay, NEW es,
           Moves(cal, new, stay, es),
           NEW now \in Nat, NEW now2 \in Nat, now <= now2,
           NEW saved, NEW saved2, NEW ue, NEW state, NEW active,
           UeRight(cal, now, saved, ue, state, active),
           \A e \in EventsOf(cal) : e \in stay \/ e.kind \notin UeKinds \/ e.ue # ue,
           \A e \in EventsIn(es) : e.kind \notin UeKinds \/ e.ue # ue,
           \A t, i : Saves(saved2, t, i, ue) <=> Saves(saved, t, i, ue)
    PROVE  UeRight(new, now2, saved2, ue, state, active)
<1>1. \A e \in Events : e \in Watch(ue) \cup Idle(ue) \cup InFlight(ue) =>
            e.kind \in UeKinds /\ e.ue = ue
  BY EventKinds DEF UeKinds
<1>2. EventsOf(cal) \subseteq Events /\ EventsIn(es) \subseteq Events
  BY EventTypes DEF Moves
<1>3. EventsOf(cal) \cap (Watch(ue) \cup Idle(ue) \cup InFlight(ue)) \subseteq stay
  BY <1>1, <1>2
<1>4. EventsIn(es) \cap (Watch(ue) \cup Idle(ue) \cup InFlight(ue)) = {}
  BY <1>1, <1>2
<1> QED
  BY <1>3, <1>4, UeKeeps

\* StartRaProcedure is scheduled for now.
LEMMA PacketKept ==
    ASSUME IInv, NEW ue \in UEs, NEW s, s = UeAt(m_currentTs, "StartRaProcedure", ue)
    PROVE  Right(InsertEvent(m_events, s), m_state)
<1>1. IsCalendar(m_events, Events) /\ \A e \in EventsOf(m_events) : m_currentTs <= e.ts
  BY DEF IInv, CalendarRight
<1>2. m_currentTs \in Nat /\ m_TTICounter \in Nat
  BY Values DEF IInv, VariablesTyped
<1>3. s \in Events /\ s.ts = m_currentTs /\ s.kind = "StartRaProcedure" /\ s.ue = ue
  BY <1>2, NewEvents DEF UeKinds
<1>4. PICK cal : cal = InsertEvent(m_events, s)
  OBVIOUS
<1>5. PICK es : es = <<s>>
  OBVIOUS
<1>6. EventsIn(es) = {s}
  BY <1>3, <1>5, ShortLists
<1>7. PICK stay : stay = EventsOf(m_events)
  OBVIOUS
<1>8. Moves(m_events, cal, stay, es)
  BY <1>1, <1>3, <1>4, <1>5, <1>7, Added
<1>9. CalendarRight(cal, m_currentTs)
  BY <1>1, <1>2, <1>3, <1>6, <1>8, TimeGoesOn
<1>10. CellRight(cal, m_currentTs, m_TTICounter, granted, m_RBsReservedForRach,
                 m_RBsReservedForCCCH, m_savedRachSessions)
  <2>1. CellRight(m_events, m_currentTs, m_TTICounter, granted, m_RBsReservedForRach,
                  m_RBsReservedForCCCH, m_savedRachSessions)
    BY DEF IInv
  <2>2. \A e \in EventsIn(es) : /\ e.kind \in UeKinds \ {"SendMessage3"}
                                /\ e.kind = "SendMessage1" => e.ts = m_currentTs + 1
    BY <1>3, <1>6 DEF UeKinds
  <2> QED
    BY <1>1, <1>2, <1>7, <1>8, <2>1, <2>2, CellKeeps
<1>11. ASSUME NEW u \in UEs
       PROVE  UeRight(cal, m_currentTs, m_savedRachSessions, u, m_state[u], m_RaProcedureActive[u])
  <2>1. UeRight(m_events, m_currentTs, m_savedRachSessions, u, m_state[u], m_RaProcedureActive[u])
    BY DEF IInv
  <2>2. EventsIn(es) \cap (Watch(u) \cup Idle(u) \cup InFlight(u)) = {}
    BY <1>3, <1>6, EventKinds
  <2>3. EventsOf(m_events) \cap (Watch(u) \cup Idle(u) \cup InFlight(u)) \subseteq stay
    BY <1>7
  <2> QED
    BY <1>2, <1>8, <2>1, <2>2, <2>3, UeKeeps
<1> QED
  BY <1>4, <1>9, <1>10, <1>11 DEF Right

\* The UE is, or becomes, active.
LEMMA WokenRight ==
    ASSUME IInv, NEW cal, NEW state, Right(cal, state), NEW ue \in UEs,
           NEW state2, state2[ue] = "ACTIVE", \A u \in UEs \ {ue} : state2[u] = state[u]
    PROVE  Right(SetLastActivity(cal, m_currentTs, ue), state2)
<1>1. IsCalendar(cal, Events) /\ \A e \in EventsOf(cal) : m_currentTs <= e.ts
  BY DEF Right, CalendarRight
<1>2. m_currentTs \in Nat /\ m_TTICounter \in Nat
  BY Values DEF IInv, VariablesTyped
<1>3. PICK n : n = UeAt(m_currentTs + m_activityTimeout, "SetNodeState", ue)
  OBVIOUS
<1>4. PICK new, stay : /\ new = SetLastActivity(cal, m_currentTs, ue)
                       /\ stay = EventsOf(cal) \ Idle(ue)
  OBVIOUS
<1>5. /\ n \in Events /\ n.ts = m_currentTs + m_activityTimeout /\ n.kind = "SetNodeState"
      /\ n.ue = ue
      /\ Moves(cal, new, stay, <<n>>)
  BY <1>1, <1>2, <1>3, <1>4, IdleTimerRestarted
<1>6. PICK es : es = <<n>>
  OBVIOUS
<1>7. EventsIn(es) = {n}
  BY <1>5, <1>6, ShortLists
<1>8. \A e \in EventsOf(cal) : e \in Events
  BY <1>1, EventTypes
<1>9. Moves(cal, new, stay, es)
  BY <1>5, <1>6
<1>10. CalendarRight(new, m_currentTs)
  <2>1. \A e \in EventsIn(es) : m_currentTs <= e.ts
    BY <1>2, <1>5, <1>7, Values
  <2> QED
    BY <1>1, <1>2, <1>9, <2>1, TimeGoesOn
<1>11. CellRight(new, m_currentTs, m_TTICounter, granted, m_RBsReservedForRach,
                 m_RBsReservedForCCCH, m_savedRachSessions)
  <2>1. CellRight(cal, m_currentTs, m_TTICounter, granted, m_RBsReservedForRach,
                  m_RBsReservedForCCCH, m_savedRachSessions)
    BY DEF Right
  <2>2. \A e \in EventsIn(es) : /\ e.kind \in UeKinds \ {"SendMessage3"}
                                /\ e.kind = "SendMessage1" => e.ts = m_currentTs + 1
    BY <1>5, <1>7 DEF UeKinds
  <2>3. \A e \in EventsOf(cal) : e.kind \notin UeKinds => e \in stay
    BY <1>4, <1>8, EventKinds DEF UeKinds
  <2> QED
    BY <1>1, <1>2, <1>9, <2>1, <2>2, <2>3, CellKeeps
<1>12. ASSUME NEW u \in UEs, u # ue
       PROVE  UeRight(new, m_currentTs, m_savedRachSessions, u, state2[u], m_RaProcedureActive[u])
  <2>1. UeRight(cal, m_currentTs, m_savedRachSessions, u, state[u], m_RaProcedureActive[u])
    BY DEF Right
  <2>2. \A e \in EventsIn(es) : e.kind \notin UeKinds \/ e.ue # u
    BY <1>5, <1>7, <1>12
  <2>3. \A e \in EventsOf(cal) : e \in stay \/ e.kind \notin UeKinds \/ e.ue # u
    BY <1>4, <1>8, <1>12, EventKinds
  <2>4. UeRight(new, m_currentTs, m_savedRachSessions, u, state[u], m_RaProcedureActive[u])
    BY <1>1, <1>2, <1>9, <2>1, <2>2, <2>3, OtherKept
  <2> QED
    BY <1>12, <2>4
<1>13. UeRight(new, m_currentTs, m_savedRachSessions, ue, state2[ue], m_RaProcedureActive[ue])
  <2>1. UeRight(cal, m_currentTs, m_savedRachSessions, ue, state[ue], m_RaProcedureActive[ue])
    BY DEF Right
  <2>2. stay \cap Idle(ue) = {}
    BY <1>4
  <2>3. EventsOf(cal) \cap Watch(ue) \subseteq stay /\ EventsOf(cal) \cap InFlight(ue) \subseteq stay
    BY <1>4, <1>8, EventKinds
  <2>4. PICK active : active = m_RaProcedureActive[ue]
    OBVIOUS
  <2>5. UeRight(cal, m_currentTs, m_savedRachSessions, ue, state[ue], active)
    BY <2>1, <2>4
  <2>6. UeRight(new, m_currentTs, m_savedRachSessions, ue, "ACTIVE", active)
    <3>1. m_currentTs <= m_currentTs
      BY <1>2
    <3> QED
      BY <1>2, <1>5, <2>2, <2>3, <2>5, <3>1, UeWoken
  <2> QED
    BY <2>4, <2>6
<1> QED
  BY <1>4, <1>10, <1>11, <1>12, <1>13 DEF Right

LEMMA InputRight ==
    ASSUME IInv, NEW ue \in UEs, PacketArrives(ue) \/ ApplicationStarts(ue)
    PROVE  IInv'
<1>1. Right(m_events, m_state) /\ VariablesTyped
  BY DEF IInv, Right
<1>2. /\ Input(ue)
      /\ Right(m_events', m_state')
      /\ m_state' \in [UEs -> {"IDLE", "ACTIVE"}]
  <2>1. CASE PacketArrives(ue)
    <3>1. PICK cal : cal = InsertEvent(m_events, UeAt(m_currentTs, "StartRaProcedure", ue))
      OBVIOUS
    <3>2. Right(cal, m_state)
      BY <3>1, PacketKept
    <3>3. /\ Input(ue) /\ m_state' = m_state
          /\ \/ m_events' = cal
             \/ m_state[ue] = "ACTIVE" /\ m_events' = SetLastActivity(cal, m_currentTs, ue)
      BY <2>1, <3>1 DEF PacketArrives
    <3>4. CASE m_events' = cal
      BY <1>1, <3>2, <3>3, <3>4 DEF VariablesTyped
    <3>5. CASE m_state[ue] = "ACTIVE" /\ m_events' = SetLastActivity(cal, m_currentTs, ue)
      <4>1. Right(SetLastActivity(cal, m_currentTs, ue), m_state)
        BY <3>2, <3>5, WokenRight
      <4> QED
        BY <1>1, <3>3, <3>5, <4>1 DEF VariablesTyped
    <3> QED
      BY <3>3, <3>4, <3>5
  <2>2. CASE ApplicationStarts(ue)
    <3>1. /\ m_state' \in [UEs -> {"IDLE", "ACTIVE"}] /\ m_state'[ue] = "ACTIVE"
          /\ \A u \in UEs \ {ue} : m_state'[u] = m_state[u]
      BY <1>1, <2>2 DEF ApplicationStarts, VariablesTyped
    <3>2. Input(ue) /\ m_events' = SetLastActivity(m_events, m_currentTs, ue)
      BY <2>2 DEF ApplicationStarts
    <3>3. Right(SetLastActivity(m_events, m_currentTs, ue), m_state')
      BY <1>1, <3>1, WokenRight
    <3> QED
      BY <3>1, <3>2, <3>3
  <2> QED
    BY <2>1, <2>2
<1>3. inputs' \in [UEs -> 0..MaxInputs]
  <2>1. inputs \in [UEs -> 0..MaxInputs] /\ MaxInputs \in Nat
    BY <1>1, Values DEF VariablesTyped
  <2>2. inputs[ue] < MaxInputs /\ inputs' = [inputs EXCEPT ![ue] = inputs[ue] + 1]
    BY <1>2 DEF Input
  <2>3. inputs[ue] + 1 \in 0..MaxInputs
    BY <2>1, <2>2
  <2> QED
    BY <2>1, <2>2, <2>3
<1>4. /\ UNCHANGED <<m_type, m_currentTs, m_TTICounter, m_RBsReservedForRach,
                     m_RBsReservedForCCCH, m_savedRachSessions, m_RaProcedureActive,
                     m_nbFailedAttempts, granted>>
      /\ Messages' = Messages
  BY <1>2 DEF Input, gnb, Messages, SelectedRar
<1>5. VariablesTyped'
  BY <1>1, <1>2, <1>3, <1>4 DEF VariablesTyped, Resources
<1> QED
  BY <1>2, <1>4, <1>5 DEF IInv, Right

-----------------------------------------------------------------------------
(***************************************************************************)
(* The steps of the cell                                                   *)
(***************************************************************************)

\* Events scheduled before StartSubframe for a later millisecond.
LEMMA EarlyKeeps ==
    ASSUME NEW cal, NEW new, NEW stay, NEW es, Moves(cal, new, stay, es),
           NEW tti \in Nat, EarlyRight(cal, tti),
           \A e \in EventsIn(es) : /\ e.kind # "StartSubframe"
                                   /\ e.kind \in EarlyKinds => tti < e.ts
    PROVE  EarlyRight(new, tti)
<1>1. /\ stay \subseteq EventsOf(cal) /\ EventsOf(new) = stay \cup EventsIn(es)
      /\ EventsOf(new) \subseteq Events
      /\ \A X, Y : Ahead(cal, X, Y) /\ EventsIn(es) \cap (X \cup Y) = {} => Ahead(new, X, Y)
  BY DEF Moves
<1>2. \A e \in EventsIn(es) : e \in Events /\ e.ts \in Nat
  BY <1>1, EventFields
<1>3. PICK X, Y : X = Early(tti) /\ Y = OfKinds({"StartSubframe"})
  OBVIOUS
<1>4. EventsIn(es) \cap X = {} /\ EventsIn(es) \cap Y = {}
  BY <1>2, <1>3, EventKinds
<1>5. Ahead(new, X, Y)
  BY <1>1, <1>3, <1>4 DEF EarlyRight
<1>6. \A e \in EventsOf(new) : e.kind \in EarlyKinds => tti <= e.ts
  BY <1>1, <1>2 DEF EarlyRight
<1> QED
  BY <1>3, <1>5, <1>6 DEF EarlyRight

\* Sessions go, the TTIs go on, and SetRachReservedSubChannels is still to come.
LEMMA RachKeeps ==
    ASSUME NEW cal, NEW new, NEW stay, NEW es, Moves(cal, new, stay, es),
           NEW tti \in Nat, NEW tti2 \in Nat, tti <= tti2, NEW map, NEW saved, NEW saved2,
           RachRight(cal, tti, map, saved), DOMAIN saved2 \subseteq DOMAIN saved,
           \A e \in EventsOf(cal) : e.kind = "SetRachReservedSubChannels" => e \in stay,
           \A e \in EventsIn(es) : e.kind # "SetRachReservedSubChannels"
    PROVE  RachRight(new, tti2, map, saved2)
<1>1. /\ stay \subseteq EventsOf(cal) /\ EventsOf(new) = stay \cup EventsIn(es)
      /\ EventsOf(new) \subseteq Events
      /\ \A X : Once(cal, X) /\ EventsIn(es) \cap X = {} => Once(new, X)
  BY DEF Moves
<1>2. PICK X : X = OfKinds({"SetRachReservedSubChannels"})
  OBVIOUS
<1>3. \A e : e \in X => e \in Events /\ e.kind = "SetRachReservedSubChannels"
  BY <1>2 DEF OfKinds
<1>4. EventsIn(es) \cap X = {}
  BY <1>3
<1>5. EventsOf(cal) \cap X \subseteq EventsOf(new)
  BY <1>1, <1>3
<1>6. Once(new, X) /\ EventsOf(new) \cap X # {}
  BY <1>1, <1>2, <1>4, <1>5 DEF RachRight
<1>7. ASSUME NEW e \in EventsOf(new), e.kind = "SetRachReservedSubChannels"
      PROVE  \/ e.ts = 1 /\ map = {} /\ DOMAIN saved2 = {}
             \/ Known(map, tti2, e.ts - m_ripInt + PredictionWindow)
  <2>1. e \in EventsOf(cal) /\ e.ts \in Nat
    BY <1>1, <1>7, EventFields
  <2>2. CASE e.ts = 1 /\ map = {} /\ DOMAIN saved = {}
    BY <2>2
  <2>3. CASE Known(map, tti, e.ts - m_ripInt + PredictionWindow)
    <3>1. PICK to : to = e.ts - m_ripInt + PredictionWindow
      OBVIOUS
    <3>2. to \in Int
      BY <2>1, <3>1, Values
    <3>3. tti2..to \subseteq tti..to
      BY <3>2
    <3> QED
      BY <2>3, <3>1, <3>3 DEF Known
  <2> QED
    BY <1>7, <2>1, <2>2, <2>3 DEF RachRight
<1>8. \A r \in map : Opportunity(r[1]) /\ r[2] \in RachRBs
  BY DEF RachRight
<1> QED
  BY <1>2, <1>6, <1>7, <1>8 DEF RachRight

\* The TTIs go on, and CheckCollisions is still to come.
LEMMA CheckKeeps ==
    ASSUME NEW cal, NEW new, NEW stay, NEW es, Moves(cal, new, stay, es),
           NEW tti \in Nat, NEW tti2 \in Nat, tti <= tti2, NEW saved, CheckRight(cal, tti, saved),
           \A e \in EventsOf(cal) : e.kind = "CheckCollisions" => e \in stay,
           \A e \in EventsIn(es) : e.kind # "CheckCollisions"
    PROVE  CheckRight(new, tti2, saved)
<1>1. /\ stay \subseteq EventsOf(cal) /\ EventsOf(new) = stay \cup EventsIn(es)
      /\ EventsOf(new) \subseteq Events
      /\ \A X : Once(cal, X) /\ EventsIn(es) \cap X = {} => Once(new, X)
  BY DEF Moves
<1>2. PICK X : X = OfKinds({"CheckCollisions"})
  OBVIOUS
<1>3. \A e : e \in X => e \in Events /\ e.kind = "CheckCollisions"
  BY <1>2 DEF OfKinds
<1>4. EventsIn(es) \cap X = {}
  BY <1>3
<1>5. EventsOf(cal) \cap X \subseteq EventsOf(new)
  BY <1>1, <1>3
<1>6. Once(new, X) /\ EventsOf(new) \cap X # {}
  BY <1>1, <1>2, <1>4, <1>5 DEF CheckRight
<1>7. ASSUME NEW e \in EventsOf(new), e.kind = "CheckCollisions"
      PROVE  e.ts <= tti2 + 1 /\ \A t \in DOMAIN saved : e.ts <= t + m_responseWindowDelay
  <2>1. e \in EventsOf(cal) /\ e.ts \in Nat
    BY <1>1, <1>7, EventFields
  <2>2. e.ts <= tti + 1 /\ \A t \in DOMAIN saved : e.ts <= t + m_responseWindowDelay
    BY <1>7, <2>1 DEF CheckRight
  <2> QED
    BY <2>1, <2>2
<1> QED
  BY <1>2, <1>6, <1>7 DEF CheckRight

\* No message 3 is scheduled.
LEMMA Msg3Keeps ==
    ASSUME NEW cal, NEW new, NEW stay, NEW es, Moves(cal, new, stay, es),
           NEW map, Msg3Right(cal, map),
           \A e \in EventsIn(es) : e.kind # "SendMessage3"
    PROVE  Msg3Right(new, map)
<1>1. \A e \in EventsOf(new) : e.kind = "SendMessage3" => e \in EventsOf(cal)
  BY DEF Moves
<1> QED
  BY <1>1 DEF Msg3Right

\* A step of the cell that concerns no UE keeps the invariant when it is right for the cell.
LEMMA CellStep ==
    ASSUME IInv, NEW kind, kind \notin UeKinds, Serve(kind), NEW stay, NEW es,
           Moves(m_events, m_events', stay, es),
           EventsOf(m_events) = stay \cup {GetEvent(m_events)},
           \A e \in EventsIn(es) : Now <= e.ts /\ e.kind \notin UeKinds,
           UNCHANGED <<m_savedRachSessions, m_state, m_RaProcedureActive>>,
           CellRight(m_events', Now, m_TTICounter', granted', m_RBsReservedForRach',
                     m_RBsReservedForCCCH', m_savedRachSessions),
           VariablesTyped'
    PROVE  IInv'
<1>1. /\ IsCalendar(m_events, Events)
      /\ GetEvent(m_events).kind = kind
      /\ Now \in Nat /\ m_currentTs' = Now /\ m_currentTs \in Nat /\ m_currentTs <= Now
      /\ \A e \in EventsOf(m_events) : e \in Events /\ Now <= e.ts
  BY ServedIs
<1>2. CalendarRight(m_events', Now)
  BY <1>1, TimeGoesOn
<1>3. ASSUME NEW ue \in UEs
      PROVE  UeRight(m_events', Now, m_savedRachSessions, ue, m_state[ue], m_RaProcedureActive[ue])
  <2>1. UeRight(m_events, m_currentTs, m_savedRachSessions, ue, m_state[ue],
                m_RaProcedureActive[ue])
    BY DEF IInv
  <2>2. \A e \in EventsOf(m_events) : e \in stay \/ e.kind \notin UeKinds \/ e.ue # ue
    BY <1>1
  <2>3. \A e \in EventsIn(es) : e.kind \notin UeKinds \/ e.ue # ue
    OBVIOUS
  <2> QED
    BY <1>1, <2>1, <2>2, <2>3, OtherKept
<1> QED
  BY <1>1, <1>2, <1>3 DEF IInv

\* Of the cell and of the event.
LEMMA CellServed ==
    ASSUME IInv, NEW kind, Serve(kind), NEW es \in Seq(Events),
           \A i \in 1..Len(es) : Now <= es[i].ts, Done(es)
    PROVE  \E stay :
            /\ Moves(m_events, m_events', stay, es)
            /\ EventsOf(m_events) = stay \cup {GetEvent(m_events)}
            /\ \A X : Once(m_events, X) /\ GetEvent(m_events) \in X => stay \cap X = {}
            /\ \A X, Y : Ahead(m_events, X, Y) /\ GetEvent(m_events) \in Y =>
                            EventsOf(m_events) \cap X = {}
<1>1. /\ IsCalendar(m_events, Events) /\ ~IsEmpty(m_events) /\ GetEvent(m_events).ts = Now
  BY ServedIs
<1>2. \A i \in 1..Len(es) : GetEvent(m_events).ts <= es[i].ts
  BY <1>1
<1>3. m_events' = RemoveEvent(InsertAll(m_events, es))
  BY DEF Done
<1> QED
  BY <1>1, <1>2, <1>3, Served

LEMMA ReserveRight == IInv /\ SetRachReservedSubChannels => IInv'
<1> SUFFICES ASSUME IInv, SetRachReservedSubChannels
             PROVE  IInv'
  OBVIOUS
<1>0. PICK f : f = GetEvent(m_events)
  OBVIOUS
<1>1. Serve("SetRachReservedSubChannels") /\ "SetRachReservedSubChannels" \notin UeKinds
  BY DEF SetRachReservedSubChannels, UeKinds
<1>2. /\ IsCalendar(m_events, Events)
      /\ f \in Events /\ f \in EventsOf(m_events) /\ f.kind = "SetRachReservedSubChannels"
      /\ Now \in Nat /\ m_currentTs' = Now /\ m_currentTs \in Nat /\ m_currentTs <= Now
      /\ m_TTICounter = Now /\ m_type' = m_type /\ Messages' = Messages
      /\ \A e \in EventsOf(m_events) : e \in Events /\ e.ts \in Nat /\ Now <= e.ts
  BY <1>0, <1>1, ServedIs DEF EarlyKinds
<1>3. UNCHANGED <<m_TTICounter, m_RBsReservedForCCCH, m_savedRachSessions, granted,
                  m_state, m_RaProcedureActive, m_nbFailedAttempts, inputs>>
  BY DEF SetRachReservedSubChannels, ue_
<1>4. /\ VariablesTyped
      /\ ClockRight(m_events, m_currentTs, m_TTICounter, granted)
      /\ EarlyRight(m_events, m_TTICounter)
      /\ RachRight(m_events, m_TTICounter, m_RBsReservedForRach, m_savedRachSessions)
      /\ CheckRight(m_events, m_TTICounter, m_savedRachSessions)
      /\ Msg3Right(m_events, m_RBsReservedForCCCH)
  BY DEF IInv, CellRight
<1>5. PICK next \in 1..m_ripInt : Done(<<At(Now + next, "SetRachReservedSubChannels")>>)
  <2>1. m_ripInt \in 1..m_ripInt /\ 1 \in 1..m_ripInt
    BY Values
  <2> QED
    BY <2>1 DEF SetRachReservedSubChannels
<1>6. PICK n : n = At(Now + next, "SetRachReservedSubChannels")
  OBVIOUS
<1>7. n \in Events /\ n.ts = Now + next /\ n.kind = "SetRachReservedSubChannels"
  BY <1>2, <1>6, NewEvents
<1>8. PICK es : es = <<n>>
  OBVIOUS
<1>9. es \in Seq(Events) /\ EventsIn(es) = {n} /\ Len(es) = 1 /\ es[1] = n
  BY <1>7, <1>8, ShortLists
<1>10. Done(es)
  BY <1>5, <1>6, <1>8
<1>11. PICK stay :
        /\ Moves(m_events, m_events', stay, es)
        /\ EventsOf(m_events) = stay \cup {f}
        /\ \A X : Once(m_events, X) /\ f \in X => stay \cap X = {}
  <2>1. \A i \in 1..Len(es) : Now <= es[i].ts
    BY <1>2, <1>7, <1>9
  <2> QED
    BY <1>0, <1>1, <1>9, <1>10, <2>1, CellServed
<1>12. ClockRight(m_events', Now, m_TTICounter, granted)
  <2>1. \A e \in EventsOf(m_events) : Now <= e.ts /\ (e \in Clock => e \in stay)
    BY <1>2, <1>11, EventKinds
  <2>2. \A e \in EventsIn(es) : e \notin Clock /\ e.kind # "ResourceBlocksAllocation"
    BY <1>7, <1>9, EventKinds
  <2> QED
    BY <1>2, <1>4, <1>11, <2>1, <2>2, ClockKeeps
<1>13. EarlyRight(m_events', m_TTICounter)
  <2>1. \A e \in EventsIn(es) : /\ e.kind # "StartSubframe"
                                /\ e.kind \in EarlyKinds => m_TTICounter < e.ts
    BY <1>2, <1>7, <1>9
  <2> QED
    BY <1>2, <1>4, <1>11, <2>1, EarlyKeeps
<1>14. PICK window : window = {tti \in m_TTICounter..(m_TTICounter + PredictionWindow) :
                                  Opportunity(tti)}
  OBVIOUS
<1>15. m_RBsReservedForRach' = NotOld(m_RBsReservedForRach) \cup (window \X RachRBs)
  BY <1>14 DEF SetRachReservedSubChannels, Opportunity
<1>16. window \subseteq Nat
  BY <1>2, <1>14, Values
<1>17. \A r \in m_RBsReservedForRach' : Opportunity(r[1]) /\ r[2] \in RachRBs
  BY <1>4, <1>14, <1>15 DEF RachRight, NotOld
<1>18. RachRight(m_events', m_TTICounter, m_RBsReservedForRach', m_savedRachSessions)
  <2>1. PICK X : X = OfKinds({"SetRachReservedSubChannels"})
    OBVIOUS
  <2>2. \A e \in Events : e \in X <=> e.kind = "SetRachReservedSubChannels"
    BY <2>1, EventKinds
  <2>3. stay \cap X = {} /\ Once(m_events, X)
    BY <1>2, <1>4, <1>11, <2>1, <2>2 DEF RachRight
  <2>4. \A i, j \in 1..Len(es) : es[i] \in X /\ es[j] \in X => i = j
    BY <1>9
  <2>5. Once(m_events', X) /\ EventsOf(m_events') = stay \cup {n} /\ EventsOf(m_events') \subseteq Events
    BY <1>9, <1>11, <2>3, <2>4 DEF Moves
  <2>6. EventsOf(m_events') \cap X # {}
    BY <1>7, <2>2, <2>5
  <2>7. \A e \in EventsOf(m_events') : e.kind = "SetRachReservedSubChannels" => e = n
    BY <2>2, <2>3, <2>5
  <2>8. Known(m_RBsReservedForRach', m_TTICounter, n.ts - m_ripInt + PredictionWindow)
    <3>1. n.ts - m_ripInt + PredictionWindow <= m_TTICounter + PredictionWindow
          /\ n.ts - m_ripInt + PredictionWindow \in Int /\ m_TTICounter + PredictionWindow \in Int
      BY <1>2, <1>7, Values
    <3>2. PICK to, last \in Int : /\ to = n.ts - m_ripInt + PredictionWindow
                                  /\ last = m_TTICounter + PredictionWindow
      BY <3>1
    <3>3. to \in Int /\ to <= last
      BY <3>1, <3>2
    <3>4. \A tti \in m_TTICounter..to : Opportunity(tti) => tti \in window
      BY <1>2, <1>14, <3>2, <3>3
    <3>5. \A tti \in m_TTICounter..to :
            Opportunity(tti) => {tti} \X RachRBs \subseteq m_RBsReservedForRach'
      BY <1>15, <3>4
    <3> QED
      BY <3>2, <3>5 DEF Known
  <2> QED
    BY <1>17, <2>1, <2>5, <2>6, <2>7, <2>8 DEF RachRight
<1>19. CheckRight(m_events', m_TTICounter, m_savedRachSessions)
  <2>1. \A e \in EventsOf(m_events) : e.kind = "CheckCollisions" => e \in stay
    BY <1>2, <1>11
  <2>2. \A e \in EventsIn(es) : e.kind # "CheckCollisions"
    BY <1>7, <1>9
  <2> QED
    BY <1>2, <1>4, <1>11, <2>1, <2>2, CheckKeeps
<1>20. Msg3Right(m_events', m_RBsReservedForCCCH)
  <2>1. \A e \in EventsIn(es) : e.kind # "SendMessage3"
    BY <1>7, <1>9
  <2> QED
    BY <1>4, <1>11, <2>1, Msg3Keeps
<1>21. CellRight(m_events', Now, m_TTICounter', granted', m_RBsReservedForRach',
                 m_RBsReservedForCCCH', m_savedRachSessions)
  BY <1>3, <1>12, <1>13, <1>18, <1>19, <1>20 DEF CellRight
<1>22. VariablesTyped'
  <2>1. m_RBsReservedForRach' \subseteq Resources
    BY <1>4, <1>15, <1>16, Values DEF VariablesTyped, NotOld, Resources
  <2> QED
    BY <1>2, <1>3, <1>4, <2>1 DEF VariablesTyped, Resources
<1>23. \A e \in EventsIn(es) : Now <= e.ts /\ e.kind \notin UeKinds
  BY <1>1, <1>2, <1>7, <1>9
<1> QED
  BY <1>0, <1>1, <1>3, <1>11, <1>21, <1>22, <1>23, CellStep

LEMMA AllocateRight == IInv /\ ResourceBlocksAllocation => IInv'
<1> SUFFICES ASSUME IInv, ResourceBlocksAllocation
             PROVE  IInv'
  OBVIOUS
<1>0. PICK f : f = GetEvent(m_events)
  OBVIOUS
<1>1. Serve("ResourceBlocksAllocation") /\ "ResourceBlocksAllocation" \notin UeKinds
  BY DEF ResourceBlocksAllocation, UeKinds
<1>2. /\ IsCalendar(m_events, Events)
      /\ f \in Events /\ f \in EventsOf(m_events) /\ f.kind = "ResourceBlocksAllocation"
      /\ f.ts = Now /\ Now \in Nat /\ m_currentTs' = Now
      /\ m_currentTs \in Nat /\ m_currentTs <= Now
      /\ m_TTICounter \in Nat /\ m_type' = m_type /\ Messages' = Messages
      /\ \A e \in EventsOf(m_events) : e \in Events /\ e.ts \in Nat /\ Now <= e.ts
  BY <1>0, <1>1, ServedIs
<1>3. UNCHANGED <<m_TTICounter, m_RBsReservedForRach, m_RBsReservedForCCCH, m_savedRachSessions,
                  m_state, m_RaProcedureActive, m_nbFailedAttempts, inputs>>
  BY DEF ResourceBlocksAllocation, ue_, gnb
<1>4. /\ VariablesTyped
      /\ ClockRight(m_events, m_currentTs, m_TTICounter, granted)
      /\ EarlyRight(m_events, m_TTICounter)
      /\ RachRight(m_events, m_TTICounter, m_RBsReservedForRach, m_savedRachSessions)
      /\ CheckRight(m_events, m_TTICounter, m_savedRachSessions)
      /\ Msg3Right(m_events, m_RBsReservedForCCCH)
  BY DEF IInv, CellRight
<1>5. PICK none : none = <<>>
  OBVIOUS
<1>6. none \in Seq(Events) /\ EventsIn(none) = {} /\ Len(none) = 0
  BY <1>5, ShortLists
<1>7. PICK stay :
        /\ Moves(m_events, m_events', stay, none)
        /\ EventsOf(m_events) = stay \cup {f}
  <2>1. \A i \in 1..Len(none) : Now <= none[i].ts
    BY <1>6
  <2>2. Done(none)
    BY <1>5 DEF ResourceBlocksAllocation
  <2> QED
    BY <1>0, <1>1, <1>6, <2>1, <2>2, CellServed
<1>8. m_TTICounter = Now + 1
  BY <1>2, <1>4 DEF ClockRight
<1>9. granted' \subseteq RBs /\ \A rb \in granted' \cap Reserved : rb - 1 \in granted'
  BY DEF ResourceBlocksAllocation
<1>10. Opportunity(m_TTICounter) => RachRBs \subseteq Reserved
  <2> SUFFICES ASSUME Opportunity(m_TTICounter)
               PROVE  RachRBs \subseteq Reserved
    OBVIOUS
  <2>1. PICK s \in EventsOf(m_events) : s \in OfKinds({"SetRachReservedSubChannels"})
    BY <1>4 DEF RachRight
  <2>2. s.kind = "SetRachReservedSubChannels" /\ s.ts \in Nat
    BY <1>2, <2>1, EventKinds
  <2>3. m_TTICounter <= s.ts
    BY <1>4, <2>2 DEF EarlyRight, EarlyKinds
  <2>4. s.ts # 1
    <3> SUFFICES ASSUME s.ts = 1
                 PROVE  FALSE
      OBVIOUS
    <3>1. m_TTICounter = 1
      BY <1>2, <1>8, <2>3
    <3> QED
      BY <3>1, Values
  <2>5. Known(m_RBsReservedForRach, m_TTICounter, s.ts - m_ripInt + PredictionWindow)
    BY <1>4, <2>2, <2>4 DEF RachRight
  <2>6. m_TTICounter \in m_TTICounter..(s.ts - m_ripInt + PredictionWindow)
    BY <1>2, <2>2, <2>3, Values
  <2>7. {m_TTICounter} \X RachRBs \subseteq m_RBsReservedForRach
    BY <2>5, <2>6 DEF Known
  <2> QED
    BY <2>7, Values DEF Reserved
<1>11. Opportunity(m_TTICounter) => granted' \cap RachRBs = {}
  <2> SUFFICES ASSUME Opportunity(m_TTICounter), granted' \cap RachRBs # {}
               PROVE  FALSE
    OBVIOUS
  <2>1. granted' \cap RachRBs \subseteq Nat
    BY Values DEF RachRBs
  <2>2. PICK rb \in granted' \cap RachRBs : \A other \in granted' \cap RachRBs : rb <= other
    BY <2>1, LeastNatural
  <2>3. rb \in granted' \cap Reserved
    BY <1>10, <2>2
  <2>4. rb - 1 \in granted' /\ rb - 1 \in RBs
    BY <1>9, <2>3
  <2>5. rb - 1 \in RachRBs
    BY <2>2, <2>4, Values DEF RBs, RachRBs
  <2> QED
    BY <2>1, <2>2, <2>4, <2>5
<1>12. ClockRight(m_events', Now, m_TTICounter, granted')
  <2>1. /\ EventsOf(m_events') \subseteq EventsOf(m_events)
        /\ \A X : Once(m_events, X) => Once(m_events', X)
    BY <1>6, <1>7 DEF Moves
  <2>2. EventsOf(m_events') \cap Clock # {}
    BY <1>2, <1>4, <1>7, EventKinds DEF ClockRight, Moves
  <2>3. ASSUME NEW e \in EventsOf(m_events')
        PROVE  /\ e.kind \in {"StartSubframe", "StopSubframe"} => e.ts = m_TTICounter
               /\ e.kind # "StartSubframe"
               /\ e.kind = "ResourceBlocksAllocation" => e.ts + 1 = m_TTICounter
    BY <1>2, <1>4, <1>8, <2>1 DEF ClockRight
  <2> QED
    BY <1>4, <1>8, <1>11, <1>2, <2>1, <2>2, <2>3 DEF ClockRight
<1>13. EarlyRight(m_events', m_TTICounter)
  <2>1. \A e \in EventsIn(none) : /\ e.kind # "StartSubframe"
                                  /\ e.kind \in EarlyKinds => m_TTICounter < e.ts
    BY <1>6
  <2> QED
    BY <1>2, <1>4, <1>7, <2>1, EarlyKeeps
<1>14. RachRight(m_events', m_TTICounter, m_RBsReservedForRach, m_savedRachSessions)
  <2>1. \A e \in EventsOf(m_events) : e.kind = "SetRachReservedSubChannels" => e \in stay
    BY <1>2, <1>7
  <2>2. \A e \in EventsIn(none) : e.kind # "SetRachReservedSubChannels"
    BY <1>6
  <2> QED
    BY <1>2, <1>4, <1>7, <2>1, <2>2, RachKeeps
<1>15. CheckRight(m_events', m_TTICounter, m_savedRachSessions)
  <2>1. \A e \in EventsOf(m_events) : e.kind = "CheckCollisions" => e \in stay
    BY <1>2, <1>7
  <2>2. \A e \in EventsIn(none) : e.kind # "CheckCollisions"
    BY <1>6
  <2> QED
    BY <1>2, <1>4, <1>7, <2>1, <2>2, CheckKeeps
<1>16. Msg3Right(m_events', m_RBsReservedForCCCH)
  <2>1. \A e \in EventsIn(none) : e.kind # "SendMessage3"
    BY <1>6
  <2> QED
    BY <1>4, <1>7, <2>1, Msg3Keeps
<1>17. CellRight(m_events', Now, m_TTICounter', granted', m_RBsReservedForRach',
                 m_RBsReservedForCCCH', m_savedRachSessions)
  BY <1>3, <1>12, <1>13, <1>14, <1>15, <1>16 DEF CellRight
<1>18. VariablesTyped'
  BY <1>2, <1>3, <1>4, <1>9 DEF VariablesTyped, Resources
<1>19. \A e \in EventsIn(none) : Now <= e.ts /\ e.kind \notin UeKinds
  BY <1>6
<1> QED
  BY <1>0, <1>1, <1>3, <1>7, <1>17, <1>18, <1>19, CellStep

LEMMA StartOfSubframeRight == IInv /\ StartSubframe => IInv'
<1> SUFFICES ASSUME IInv, StartSubframe
             PROVE  IInv'
  OBVIOUS
<1>0. PICK f : f = GetEvent(m_events)
  OBVIOUS
<1>1. Serve("StartSubframe") /\ "StartSubframe" \notin UeKinds
  BY DEF StartSubframe, UeKinds
<1>2. /\ IsCalendar(m_events, Events)
      /\ f \in Events /\ f \in EventsOf(m_events) /\ f.kind = "StartSubframe"
      /\ f.ts = Now /\ Now \in Nat /\ m_currentTs' = Now
      /\ m_currentTs \in Nat /\ m_currentTs <= Now
      /\ m_TTICounter \in Nat /\ m_type' = m_type /\ Messages' = Messages
      /\ \A e \in EventsOf(m_events) : e \in Events /\ e.ts \in Nat /\ Now <= e.ts
  BY <1>0, <1>1, ServedIs
<1>3. UNCHANGED <<m_RBsReservedForRach, m_RBsReservedForCCCH, m_savedRachSessions, granted,
                  m_state, m_RaProcedureActive, m_nbFailedAttempts, inputs>>
  BY DEF StartSubframe, ue_, gnb
<1>4. /\ VariablesTyped
      /\ ClockRight(m_events, m_currentTs, m_TTICounter, granted)
      /\ EarlyRight(m_events, m_TTICounter)
      /\ RachRight(m_events, m_TTICounter, m_RBsReservedForRach, m_savedRachSessions)
      /\ CheckRight(m_events, m_TTICounter, m_savedRachSessions)
      /\ Msg3Right(m_events, m_RBsReservedForCCCH)
  BY DEF IInv, CellRight
<1>5. PICK a : a = At(Now, "ResourceBlocksAllocation")
  OBVIOUS
<1>6. PICK b : b = At(Now + 1, "StopSubframe")
  OBVIOUS
<1>7. /\ a \in Events /\ a.ts = Now /\ a.kind = "ResourceBlocksAllocation"
      /\ b \in Events /\ b.ts = Now + 1 /\ b.kind = "StopSubframe"
  BY <1>2, <1>5, <1>6, NewEvents
<1>8. PICK es : es = <<a, b>>
  OBVIOUS
<1>9. es \in Seq(Events) /\ EventsIn(es) = {a, b} /\ Len(es) = 2 /\ es[1] = a /\ es[2] = b
  BY <1>7, <1>8, ShortLists
<1>10. Done(es)
  BY <1>5, <1>6, <1>8 DEF StartSubframe
<1>11. PICK stay :
        /\ Moves(m_events, m_events', stay, es)
        /\ EventsOf(m_events) = stay \cup {f}
        /\ \A X : Once(m_events, X) /\ f \in X => stay \cap X = {}
        /\ \A X, Y : Ahead(m_events, X, Y) /\ f \in Y => EventsOf(m_events) \cap X = {}
  <2>1. \A i \in 1..Len(es) : i = 1 \/ i = 2
    BY <1>9
  <2>2. \A i \in 1..Len(es) : Now <= es[i].ts
    BY <1>2, <1>7, <1>9, <2>1
  <2> QED
    BY <1>0, <1>1, <1>9, <1>10, <2>2, CellServed
<1>12. Now = m_TTICounter /\ m_currentTs = m_TTICounter /\ granted = {}
  BY <1>2, <1>4 DEF ClockRight
<1>13. m_TTICounter' = m_TTICounter + 1 /\ m_TTICounter' \in 0..MaxTTI
       /\ m_TTICounter' \in Nat /\ m_TTICounter <= m_TTICounter'
  BY <1>2, <1>4, Values DEF StartSubframe, VariablesTyped
<1>14. /\ stay \subseteq EventsOf(m_events) /\ EventsOf(m_events') = stay \cup {a, b}
       /\ EventsOf(m_events') \subseteq Events
       /\ stay \cap Clock = {} /\ f \in Clock
  <2>1. f \in Clock /\ Once(m_events, Clock)
    BY <1>2, <1>4, EventKinds DEF ClockRight
  <2> QED
    BY <1>9, <1>11, <2>1 DEF Moves
<1>15. ClockRight(m_events', Now, m_TTICounter', granted)
  <2>1. a \notin Clock /\ b \in Clock
    BY <1>7, EventKinds
  <2>2. \A i, j \in 1..Len(es) : es[i] \in Clock /\ es[j] \in Clock => i = j
    <3>1. \A i \in 1..Len(es) : i = 1 \/ i = 2
      BY <1>9
    <3> QED
      BY <1>9, <2>1, <3>1
  <2>3. Once(m_events', Clock)
    BY <1>4, <1>11, <1>14, <2>2 DEF Moves, ClockRight
  <2>4. EventsOf(m_events') \cap Clock # {}
    BY <1>14, <2>1
  <2>5. ASSUME NEW e \in EventsOf(m_events')
        PROVE  /\ e.kind \in {"StartSubframe", "StopSubframe"} => e.ts = m_TTICounter'
               /\ e.kind # "StartSubframe"
               /\ e.kind = "ResourceBlocksAllocation" => e.ts + 1 = m_TTICounter'
    <3>1. CASE e \in stay
      <4>1. e \in Events /\ e \notin Clock
        BY <1>14, <3>1
      <4>2. e.kind \notin {"StartSubframe", "StopSubframe"}
        BY <4>1, EventKinds
      <4>3. e.kind # "ResourceBlocksAllocation"
        BY <1>2, <1>4, <1>12, <1>14, <3>1 DEF ClockRight
      <4> QED
        BY <4>2, <4>3
    <3>2. CASE e = a \/ e = b
      BY <1>2, <1>7, <1>12, <1>13, <3>2
    <3> QED
      BY <1>14, <3>1, <3>2
  <2>6. m_TTICounter' <= Now + 1 /\ granted \cap RachRBs = {}
    BY <1>2, <1>12, <1>13
  <2> QED
    BY <2>3, <2>4, <2>5, <2>6 DEF ClockRight
<1>16. EarlyRight(m_events', m_TTICounter')
  <2>1. PICK X, Y : X = Early(m_TTICounter) /\ Y = OfKinds({"StartSubframe"})
    OBVIOUS
  <2>2. f \in Y /\ Ahead(m_events, X, Y)
    BY <1>2, <1>4, <2>1, EventKinds DEF EarlyRight
  <2>3. EventsOf(m_events) \cap X = {}
    BY <1>11, <2>2
  <2>4. ASSUME NEW e \in EventsOf(m_events'), e.kind \in EarlyKinds
        PROVE  m_TTICounter' <= e.ts
    <3>1. e \in stay /\ e \in Events /\ e.ts \in Nat
      BY <1>7, <1>14, <2>4, EventFields DEF EarlyKinds
    <3>2. ~(e.ts <= m_TTICounter)
      BY <1>14, <2>1, <2>3, <2>4, <3>1, EventKinds
    <3> QED
      BY <1>2, <1>13, <3>1, <3>2
  <2>5. EventsOf(m_events') \cap Y = {}
    <3>1. \A e \in EventsOf(m_events') : e.kind # "StartSubframe"
      <4>1. \A e \in stay : e \in Events /\ e \notin Clock
        BY <1>14
      <4>2. \A e \in stay : e.kind # "StartSubframe"
        BY <4>1, EventKinds
      <4> QED
        BY <1>7, <1>14, <4>2
    <3> QED
      BY <1>14, <2>1, <3>1, EventKinds
  <2>6. Ahead(m_events', Early(m_TTICounter'), Y)
    BY <2>5, AheadOfNone
  <2> QED
    BY <2>1, <2>4, <2>6 DEF EarlyRight
<1>17. RachRight(m_events', m_TTICounter', m_RBsReservedForRach, m_savedRachSessions)
  <2>1. \A e \in EventsOf(m_events) : e.kind = "SetRachReservedSubChannels" => e \in stay
    BY <1>2, <1>11
  <2>2. \A e \in EventsIn(es) : e.kind # "SetRachReservedSubChannels"
    BY <1>7, <1>9
  <2> QED
    BY <1>2, <1>4, <1>11, <1>13, <2>1, <2>2, RachKeeps
<1>18. CheckRight(m_events', m_TTICounter', m_savedRachSessions)
  <2>1. \A e \in EventsOf(m_events) : e.kind = "CheckCollisions" => e \in stay
    BY <1>2, <1>11
  <2>2. \A e \in EventsIn(es) : e.kind # "CheckCollisions"
    BY <1>7, <1>9
  <2> QED
    BY <1>2, <1>4, <1>11, <1>13, <2>1, <2>2, CheckKeeps
<1>19. Msg3Right(m_events', m_RBsReservedForCCCH)
  <2>1. \A e \in EventsIn(es) : e.kind # "SendMessage3"
    BY <1>7, <1>9
  <2> QED
    BY <1>4, <1>11, <2>1, Msg3Keeps
<1>20. CellRight(m_events', Now, m_TTICounter', granted', m_RBsReservedForRach',
                 m_RBsReservedForCCCH', m_savedRachSessions)
  BY <1>3, <1>15, <1>16, <1>17, <1>18, <1>19 DEF CellRight
<1>21. VariablesTyped'
  BY <1>2, <1>3, <1>4, <1>13 DEF VariablesTyped, Resources
<1>22. \A e \in EventsIn(es) : Now <= e.ts /\ e.kind \notin UeKinds
  BY <1>2, <1>7, <1>9 DEF UeKinds
<1> QED
  BY <1>0, <1>1, <1>3, <1>11, <1>20, <1>21, <1>22, CellStep

LEMMA EndOfSubframeRight == IInv /\ StopSubframe => IInv'
<1> SUFFICES ASSUME IInv, StopSubframe
             PROVE  IInv'
  OBVIOUS
<1>0. PICK f : f = GetEvent(m_events)
  OBVIOUS
<1>1. Serve("StopSubframe") /\ "StopSubframe" \notin UeKinds
  BY DEF StopSubframe, UeKinds
<1>2. /\ IsCalendar(m_events, Events) /\ ~IsEmpty(m_events)
      /\ f \in Events /\ f \in EventsOf(m_events) /\ f.kind = "StopSubframe"
      /\ f.ts = Now /\ Now \in Nat /\ m_currentTs' = Now
      /\ m_currentTs \in Nat /\ m_currentTs <= Now
      /\ m_TTICounter \in Nat /\ m_type' = m_type /\ Messages' = Messages
      /\ \A e \in EventsOf(m_events) : e \in Events /\ e.ts \in Nat /\ Now <= e.ts
  BY <1>0, <1>1, ServedIs
<1>3. UNCHANGED <<m_TTICounter, m_RBsReservedForRach, m_RBsReservedForCCCH, m_savedRachSessions,
                  m_state, m_RaProcedureActive, m_nbFailedAttempts, inputs>>
      /\ granted' = {}
  BY DEF StopSubframe, ue_, gnb
<1>4. /\ VariablesTyped
      /\ ClockRight(m_events, m_currentTs, m_TTICounter, granted)
      /\ EarlyRight(m_events, m_TTICounter)
      /\ RachRight(m_events, m_TTICounter, m_RBsReservedForRach, m_savedRachSessions)
      /\ CheckRight(m_events, m_TTICounter, m_savedRachSessions)
      /\ Msg3Right(m_events, m_RBsReservedForCCCH)
  BY DEF IInv, CellRight
<1>5. PICK n : n = At(Now, "StartSubframe")
  OBVIOUS
<1>6. n \in Events /\ n.ts = Now /\ n.kind = "StartSubframe"
  BY <1>2, <1>5, NewEvents
<1>7. PICK es : es = <<n>>
  OBVIOUS
<1>8. es \in Seq(Events) /\ EventsIn(es) = {n} /\ Len(es) = 1 /\ es[1] = n
  BY <1>6, <1>7, ShortLists
<1>9. Done(es)
  BY <1>5, <1>7 DEF StopSubframe
<1>10. PICK stay :
        /\ Moves(m_events, m_events', stay, es)
        /\ EventsOf(m_events) = stay \cup {f}
        /\ \A X : Once(m_events, X) /\ f \in X => stay \cap X = {}
  <2>1. \A i \in 1..Len(es) : Now <= es[i].ts
    BY <1>2, <1>6, <1>8
  <2> QED
    BY <1>0, <1>1, <1>8, <1>9, <2>1, CellServed
<1>11. Now = m_TTICounter
  BY <1>2, <1>4 DEF ClockRight
<1>12. /\ stay \subseteq EventsOf(m_events) /\ EventsOf(m_events') = stay \cup {n}
       /\ EventsOf(m_events') \subseteq Events
       /\ stay \cap Clock = {}
  <2>1. f \in Clock /\ Once(m_events, Clock)
    BY <1>2, <1>4, EventKinds DEF ClockRight
  <2> QED
    BY <1>8, <1>10, <2>1 DEF Moves
<1>13. ClockRight(m_events', Now, m_TTICounter, {})
  <2>1. n \in Clock
    BY <1>6, EventKinds
  <2>2. \A i, j \in 1..Len(es) : es[i] \in Clock /\ es[j] \in Clock => i = j
    BY <1>8
  <2>3. Once(m_events', Clock)
    BY <1>4, <1>10, <1>12, <2>2 DEF Moves, ClockRight
  <2>4. EventsOf(m_events') \cap Clock # {}
    BY <1>12, <2>1
  <2>5. ASSUME NEW e \in EventsOf(m_events')
        PROVE  /\ e.kind \in {"StartSubframe", "StopSubframe"} => e.ts = m_TTICounter
               /\ e.kind = "ResourceBlocksAllocation" => e.ts + 1 = m_TTICounter
    <3>1. CASE e \in stay
      BY <1>4, <1>12, <3>1 DEF ClockRight
    <3>2. CASE e = n
      BY <1>6, <1>11, <3>2
    <3> QED
      BY <1>12, <3>1, <3>2
  <2>6. m_TTICounter <= Now + 1 /\ {} \cap RachRBs = {}
    BY <1>2, <1>11
  <2> QED
    BY <1>11, <2>3, <2>4, <2>5, <2>6 DEF ClockRight
<1>14. EarlyRight(m_events', m_TTICounter)
  <2>1. PICK X, Y : X = Early(m_TTICounter) /\ Y = OfKinds({"StartSubframe"})
    OBVIOUS
  <2>2. PICK rest : rest = RemoveEvent(m_events)
    OBVIOUS
  <2>3. m_events' = InsertEvent(rest, n)
    <3>1. m_events' = RemoveEvent(InsertAll(m_events, <<n>>))
      BY <1>7, <1>9 DEF Done
    <3>2. n.ts \in Nat /\ GetEvent(m_events).ts <= n.ts
      BY <1>0, <1>2, <1>6
    <3> QED
      BY <1>2, <1>6, <2>2, <3>1, <3>2, RemoveInsertAll
  <2>4. IsCalendar(rest, Events) /\ Ahead(rest, X, Y) /\ EventsOf(rest) \subseteq EventsOf(m_events)
    BY <1>2, <1>4, <2>1, <2>2, RemoveIs DEF EarlyRight
  <2>5. n \notin X
    BY <1>6, <2>1, EventKinds DEF EarlyKinds
  <2>6. \A x \in EventsOf(rest) \cap X : x.ts <= n.ts
    <3>1. \A x \in X : x.ts <= m_TTICounter
      BY <2>1 DEF Early
    <3> QED
      BY <1>6, <1>11, <3>1
  <2>7. n.ts \in Nat
    BY <1>2, <1>6
  <2>8. Ahead(InsertEvent(rest, n), X, Y)
    BY <1>6, <2>4, <2>5, <2>6, <2>7, InsertIs
  <2>9. \A e \in EventsOf(m_events') : e.kind \in EarlyKinds => m_TTICounter <= e.ts
    BY <1>4, <1>6, <1>12 DEF EarlyRight, EarlyKinds
  <2> QED
    BY <2>1, <2>3, <2>8, <2>9 DEF EarlyRight
<1>15. RachRight(m_events', m_TTICounter, m_RBsReservedForRach, m_savedRachSessions)
  <2>1. \A e \in EventsOf(m_events) : e.kind = "SetRachReservedSubChannels" => e \in stay
    BY <1>2, <1>10
  <2>2. \A e \in EventsIn(es) : e.kind # "SetRachReservedSubChannels"
    BY <1>6, <1>8
  <2> QED
    BY <1>2, <1>4, <1>10, <2>1, <2>2, RachKeeps
<1>16. CheckRight(m_events', m_TTICounter, m_savedRachSessions)
  <2>1. \A e \in EventsOf(m_events) : e.kind = "CheckCollisions" => e \in stay
    BY <1>2, <1>10
  <2>2. \A e \in EventsIn(es) : e.kind # "CheckCollisions"
    BY <1>6, <1>8
  <2> QED
    BY <1>2, <1>4, <1>10, <2>1, <2>2, CheckKeeps
<1>17. Msg3Right(m_events', m_RBsReservedForCCCH)
  <2>1. \A e \in EventsIn(es) : e.kind # "SendMessage3"
    BY <1>6, <1>8
  <2> QED
    BY <1>4, <1>10, <2>1, Msg3Keeps
<1>18. CellRight(m_events', Now, m_TTICounter', granted', m_RBsReservedForRach',
                 m_RBsReservedForCCCH', m_savedRachSessions)
  BY <1>3, <1>13, <1>14, <1>15, <1>16, <1>17 DEF CellRight
<1>19. VariablesTyped'
  BY <1>2, <1>3, <1>4 DEF VariablesTyped, Resources
<1>20. \A e \in EventsIn(es) : Now <= e.ts /\ e.kind \notin UeKinds
  BY <1>2, <1>6, <1>8 DEF UeKinds
<1> QED
  BY <1>0, <1>1, <1>3, <1>10, <1>18, <1>19, <1>20, CellStep

LEMMA InitRight == Init => IInv
<1> SUFFICES ASSUME Init
             PROVE  IInv
  OBVIOUS
<1>1. PICK a, b, c : /\ a = At(0, "StartSubframe") /\ b = At(1, "SetRachReservedSubChannels")
                     /\ c = At(1, "CheckCollisions")
  OBVIOUS
<1>2. /\ a \in Events /\ a.ts = 0 /\ a.kind = "StartSubframe"
      /\ b \in Events /\ b.ts = 1 /\ b.kind = "SetRachReservedSubChannels"
      /\ c \in Events /\ c.ts = 1 /\ c.kind = "CheckCollisions"
  BY <1>1, NewEvents
<1>3. PICK es : es = <<a, b, c>>
  OBVIOUS
<1>4. es \in Seq(Events) /\ Len(es) = 3 /\ es[1] = a /\ es[2] = b /\ es[3] = c
  BY <1>2, <1>3
<1>5. \A i \in 1..Len(es) : i = 1 \/ i = 2 \/ i = 3
  BY <1>4
<1>6. EventsIn(es) = {a, b, c}
  <2>1. 1 \in 1..Len(es) /\ 2 \in 1..Len(es) /\ 3 \in 1..Len(es)
    BY <1>4
  <2> QED
    BY <1>4, <1>5, <2>1 DEF EventsIn
<1>7. PICK none : none = EmptyCalendar
  OBVIOUS
<1>8. IsCalendar(none, Events) /\ DOMAIN none = {}
  BY <1>7 DEF IsCalendar, EmptyCalendar
<1>9. EventsOf(none) = {} /\ (\A X : Once(none, X)) /\ \A X, Y : Ahead(none, X, Y)
  BY <1>8 DEF EventsOf, Once, Ahead
<1>10. m_events = InsertAll(none, es)
  BY <1>1, <1>3, <1>7 DEF Init
<1>11. \A i \in 1..Len(es) : es[i].ts \in Nat
  BY <1>2, <1>4, <1>5
<1>12. /\ IsCalendar(m_events, Events)
       /\ EventsOf(m_events) = {a, b, c}
       /\ \A X : (\A i, j \in 1..Len(es) : es[i] \in X /\ es[j] \in X => i = j) => Once(m_events, X)
  BY <1>4, <1>6, <1>8, <1>9, <1>10, <1>11, InsertAllIs
<1>13. ASSUME NEW X, ~(a \in X /\ b \in X), ~(a \in X /\ c \in X), ~(b \in X /\ c \in X)
       PROVE  Once(m_events, X)
  BY <1>4, <1>5, <1>12, <1>13
<1>14. /\ m_type \in Types /\ m_currentTs = 0 /\ m_TTICounter = 0
       /\ m_RBsReservedForRach = {} /\ m_RBsReservedForCCCH = {}
       /\ m_savedRachSessions = [t \in {} |-> <<>>]
       /\ m_state = [u \in UEs |-> "IDLE"] /\ m_RaProcedureActive = [u \in UEs |-> FALSE]
       /\ m_nbFailedAttempts = [u \in UEs |-> 0] /\ granted = {} /\ inputs = [u \in UEs |-> 0]
  BY DEF Init
<1>15. DOMAIN m_savedRachSessions = {}
  BY <1>14
<1>16. VariablesTyped
  BY <1>14, <1>15, Values DEF VariablesTyped, Resources
<1>17. CalendarRight(m_events, m_currentTs)
  BY <1>2, <1>12, <1>14 DEF CalendarRight
<1>18. /\ a \in Clock /\ b \notin Clock /\ c \notin Clock
       /\ \A kinds : /\ a \in OfKinds(kinds) <=> "StartSubframe" \in kinds
                     /\ b \in OfKinds(kinds) <=> "SetRachReservedSubChannels" \in kinds
                     /\ c \in OfKinds(kinds) <=> "CheckCollisions" \in kinds
       /\ \A ue : {a, b, c} \cap (Watch(ue) \cup Idle(ue) \cup InFlight(ue)) = {}
  BY <1>2, EventKinds
<1>19. ClockRight(m_events, 0, 0, {})
  <2>1. Once(m_events, Clock)
    BY <1>13, <1>18
  <2> QED
    BY <1>2, <1>12, <1>18, <2>1 DEF ClockRight
<1>20. EarlyRight(m_events, 0)
  <2>1. EventsOf(m_events) \cap Early(0) = {}
    BY <1>2, <1>12, EventKinds DEF EarlyKinds
  <2>2. Ahead(m_events, Early(0), OfKinds({"StartSubframe"}))
    <3>1. \A t \in DOMAIN m_events : \A i \in 1..Len(m_events[t]) :
                m_events[t][i] \in EventsOf(m_events)
      BY EventPlaces
    <3>2. \A t \in DOMAIN m_events : \A i \in 1..Len(m_events[t]) : m_events[t][i] \notin Early(0)
      BY <2>1, <3>1
    <3> QED
      BY <3>2 DEF Ahead
  <2> QED
    BY <1>2, <1>12, <2>2 DEF EarlyRight, EarlyKinds
<1>21. RachRight(m_events, 0, {}, m_savedRachSessions)
  <2>1. Once(m_events, OfKinds({"SetRachReservedSubChannels"}))
    BY <1>13, <1>18
  <2> QED
    BY <1>2, <1>12, <1>15, <1>18, <2>1 DEF RachRight
<1>22. CheckRight(m_events, 0, m_savedRachSessions)
  <2>1. Once(m_events, OfKinds({"CheckCollisions"}))
    BY <1>13, <1>18
  <2> QED
    BY <1>2, <1>12, <1>15, <1>18, <2>1 DEF CheckRight
<1>23. Msg3Right(m_events, {})
  BY <1>2, <1>12 DEF Msg3Right
<1>24. ASSUME NEW ue \in UEs
       PROVE  UeRight(m_events, 0, m_savedRachSessions, ue, m_state[ue], m_RaProcedureActive[ue])
  <2>1. PICK W, I, F : W = Watch(ue) /\ I = Idle(ue) /\ F = InFlight(ue)
    OBVIOUS
  <2>2. EventsOf(m_events) \cap W = {} /\ EventsOf(m_events) \cap I = {}
        /\ EventsOf(m_events) \cap F = {}
    BY <1>12, <1>18, <2>1
  <2>3. Once(m_events, W) /\ Once(m_events, I) /\ Once(m_events, F)
    BY <1>12, <1>13, <2>2
  <2>4. SavedOnce(m_savedRachSessions, ue) /\ ~IsSaved(m_savedRachSessions, ue)
    BY <1>15 DEF SavedOnce, IsSaved, Saves
  <2>5. m_state[ue] = "IDLE" /\ m_RaProcedureActive[ue] = FALSE
    BY <1>14
  <2> QED
    BY <2>1, <2>2, <2>3, <2>4, <2>5 DEF UeRight
<1> QED
  BY <1>14, <1>16, <1>17, <1>19, <1>20, <1>21, <1>22, <1>23, <1>24 DEF IInv, CellRight

-----------------------------------------------------------------------------
(***************************************************************************)
(* The responses to a session                                              *)
(***************************************************************************)

\* The resources of the response window that opens now, and those still free.
Window == ((m_TTICounter + 1)..(m_TTICounter + m_responseWindowDuration)) \X RBs
FreeWindow == Window \ (m_RBsReservedForRach \cup m_RBsReservedForCCCH)

NoTwice(s) == \A i, j \in 1..Len(s) : s[i] = s[j] => i = j

\* How far the responses have come (Unanswered, Answer and AnswerEnhanced).
Accs ==
    [free : Seq(Window), collided : SUBSET (Preambles \X SelectedRar),
     rar : Seq([ue : UEs, at : Window]), reserved : SUBSET Window,
     seen : SUBSET Preambles, groups : [Preambles -> Seq(Window)]]

\* No resource is in two places: still free, given to a UE, or kept for a preamble.
Shared(free, reserved, rar, groups, seen) ==
    /\ NoTwice(free)
    /\ \A i \in 1..Len(free) : free[i] \in FreeWindow /\ free[i] \notin reserved
    /\ reserved \subseteq FreeWindow
    /\ \A i \in 1..Len(rar) : rar[i].at \in reserved
    /\ \A i, j \in 1..Len(rar) : rar[i].at = rar[j].at => i = j
    /\ \A p \in Preambles : NoTwice(groups[p])
    /\ \A p \in Preambles : \A i \in 1..Len(groups[p]) :
            /\ groups[p][i] \in reserved
            /\ \A j \in 1..Len(rar) : rar[j].at # groups[p][i]
    /\ \A p, q \in Preambles : \A i \in 1..Len(groups[p]), j \in 1..Len(groups[q]) :
            groups[p][i] = groups[q][j] => p = q
    /\ \A p \in Preambles : p \notin seen => groups[p] = <<>>

SharedBy(acc) == Shared(acc.free, acc.reserved, acc.rar, acc.groups, acc.seen)

\* The UEs of the first n messages of the session have at most one response.
Heard(rar, session, n) ==
    /\ \A i \in 1..Len(rar) : \E k \in 1..n : session[k].ue = rar[i].ue
    /\ \A i, j \in 1..Len(rar) : rar[i].ue = rar[j].ue => i = j

\* The messages of a session come from different UEs.
OfDifferentUes(session) ==
    \A i, j \in 1..Len(session) : session[i].ue = session[j].ue => i = j

\* The resources that can be given out are in the window, free and all different.
LEMMA FreeOnes ==
    ASSUME IInv
    PROVE  /\ RBsForCCCH \in Seq(Window)
           /\ NoTwice(RBsForCCCH)
           /\ \A i \in 1..Len(RBsForCCCH) : RBsForCCCH[i] \in FreeWindow
<1>1. PICK n, D : n = NbCcchRBs[m_type] /\ D = m_responseWindowDuration
  OBVIOUS
<1>2. n \in Nat /\ n <= NbRBs /\ D \in Nat /\ NbRBs \in Nat /\ m_TTICounter \in Nat
  BY <1>1, Values DEF IInv, VariablesTyped
<1>3. PICK reserved : reserved = m_RBsReservedForRach \cup m_RBsReservedForCCCH
  OBVIOUS
<1>4. PICK all : all = [i \in 1..(D * n) |-> <<m_TTICounter + 1 + ((i - 1) \div n), (i - 1) % n>>]
  OBVIOUS
<1>5. D * n \in Nat
  BY <1>2
<1>6. ASSUME NEW i \in 1..(D * n)
      PROVE  /\ n > 0 /\ i - 1 \in Nat
             /\ (i - 1) \div n \in 0..(D - 1) /\ (i - 1) % n \in 0..(n - 1)
             /\ i - 1 = n * ((i - 1) \div n) + ((i - 1) % n)
  <2>1. n > 0
    <3>1. CASE n = 0
      <4>1. D * n = 0
        BY <1>2, <3>1
      <4> QED
        BY <4>1
    <3> QED
      BY <1>2, <3>1
  <2>2. PICK a \in Nat : a = i - 1
    BY <1>5
  <2>3. a < D * n
    BY <1>5, <2>2
  <2>4. a % n \in 0..(n - 1) /\ a \div n \in Nat /\ a = n * (a \div n) + (a % n)
    BY <1>2, <2>1
  <2>5. a \div n < D
    <3>1. PICK q \in Nat : q = a \div n
      BY <2>4
    <3>2. n * q <= a
      BY <1>2, <2>4, <3>1
    <3>3. CASE q >= D
      <4>1. n * q >= n * D
        BY <1>2, <3>3, SMTT(30)
      <4>2. n * D = D * n
        BY <1>2
      <4> QED
        BY <1>2, <1>5, <2>3, <3>2, <4>1, <4>2
    <3> QED
      BY <1>2, <3>1, <3>3
  <2> QED
    BY <1>2, <2>1, <2>2, <2>4, <2>5
<1>7. Len(all) = D * n /\ \A i \in 1..(D * n) : all[i] \in Window
  <2>1. Len(all) = D * n
    BY <1>4, <1>5
  <2>2. ASSUME NEW i \in 1..(D * n)
        PROVE  all[i] \in Window
    <3>1. PICK q, r : q = (i - 1) \div n /\ r = (i - 1) % n
      OBVIOUS
    <3>2. q \in 0..(D - 1) /\ r \in 0..(n - 1)
      BY <1>6, <3>1
    <3>3. m_TTICounter + 1 + q \in (m_TTICounter + 1)..(m_TTICounter + D) /\ r \in RBs
      BY <1>2, <3>2 DEF RBs
    <3>4. all[i] = <<m_TTICounter + 1 + q, r>>
      BY <1>4, <3>1
    <3> QED
      BY <1>1, <3>3, <3>4 DEF Window
  <2> QED
    BY <2>1, <2>2
<1>8. all \in Seq(Window)
  BY <1>4, <1>5, <1>7, SeqDef
<1>9. ASSUME NEW i \in 1..(D * n), NEW j \in 1..(D * n), all[i] = all[j]
      PROVE  i = j
  <2>1. PICK q, r : q = (i - 1) \div n /\ r = (i - 1) % n
    OBVIOUS
  <2>2. PICK u, v : u = (j - 1) \div n /\ v = (j - 1) % n
    OBVIOUS
  <2>3. all[i] = <<m_TTICounter + 1 + q, r>> /\ all[j] = <<m_TTICounter + 1 + u, v>>
    BY <1>4, <2>1, <2>2
  <2>4. m_TTICounter + 1 + q = m_TTICounter + 1 + u /\ r = v
    <3>1. PICK x, y : x = m_TTICounter + 1 + q /\ y = m_TTICounter + 1 + u
      OBVIOUS
    <3>2. <<x, r>> = <<y, v>>
      BY <1>9, <2>3, <3>1
    <3>3. x = y /\ r = v
      BY <3>2
    <3> QED
      BY <3>1, <3>3
  <2>5. q \in Nat /\ u \in Nat /\ i - 1 = n * q + r /\ j - 1 = n * u + v /\ r \in Nat
    BY <1>6, <2>1, <2>2
  <2>6. q = u
    BY <1>2, <2>4, <2>5
  <2>7. i - 1 = j - 1
    BY <2>4, <2>5, <2>6
  <2> QED
    BY <1>5, <2>7
<1>10. PICK free : free = Kept(all, reserved)
  OBVIOUS
<1>11. free = RBsForCCCH
  BY <1>1, <1>3, <1>4, <1>10 DEF RBsForCCCH
<1>12. /\ free \in Seq(Window)
       /\ \E h \in [1..Len(free) -> 1..Len(all)] :
            /\ \A i \in 1..Len(free) : free[i] = all[h[i]] /\ all[h[i]] \notin reserved
            /\ \A i, j \in 1..Len(free) : i < j => h[i] < h[j]
  BY <1>8, <1>10, KeptIs
<1>13. PICK h \in [1..Len(free) -> 1..Len(all)] :
            /\ \A i \in 1..Len(free) : free[i] = all[h[i]] /\ all[h[i]] \notin reserved
            /\ \A i, j \in 1..Len(free) : i < j => h[i] < h[j]
  BY <1>12
<1>14. \A i \in 1..Len(free) : h[i] \in 1..(D * n) /\ h[i] \in Nat
  BY <1>5, <1>7, <1>13
<1>15. ASSUME NEW i \in 1..Len(free), NEW j \in 1..Len(free), free[i] = free[j]
       PROVE  i = j
  <2>1. h[i] = h[j]
    BY <1>9, <1>13, <1>14, <1>15
  <2>2. Len(free) \in Nat /\ ~(i < j) /\ ~(j < i)
    BY <1>12, <1>13, <1>14, <2>1
  <2> QED
    BY <2>2
<1>16. \A i \in 1..Len(free) : free[i] \in FreeWindow
  BY <1>3, <1>7, <1>13, <1>14 DEF FreeWindow
<1> QED
  BY <1>11, <1>12, <1>15, <1>16 DEF NoTwice

\* The first and the other elements of a list.
LEMMA HeadTail ==
    ASSUME NEW S, NEW s \in Seq(S), s # <<>>
    PROVE  /\ Len(s) \in Nat \ {0} /\ Head(s) = s[1] /\ s[1] \in S /\ 1 \in 1..Len(s)
           /\ Tail(s) \in Seq(S) /\ Len(Tail(s)) = Len(s) - 1
           /\ \A i \in 1..(Len(s) - 1) : Tail(s)[i] = s[i + 1] /\ i + 1 \in 1..Len(s)
           /\ NoTwice(s) => NoTwice(Tail(s)) /\ \A i \in 1..Len(Tail(s)) : Tail(s)[i] # Head(s)
<1>1. Len(s) \in Nat \ {0} /\ Head(s) = s[1] /\ 1 \in 1..Len(s)
  OBVIOUS
<1>2. /\ Head(s) \in S /\ Tail(s) \in Seq(S) /\ Len(Tail(s)) = Len(s) - 1
      /\ \A i \in 1..Len(Tail(s)) : Tail(s)[i] = s[i + 1]
  BY HeadTailProperties
<1>3. \A i \in 1..(Len(s) - 1) : i + 1 \in 1..Len(s)
  BY <1>1
<1>4. PICK rest, n : rest = Tail(s) /\ n = Len(s)
  OBVIOUS
<1>5. ASSUME NoTwice(s), NEW i \in 1..(n - 1), NEW j \in 1..(n - 1), rest[i] = rest[j]
      PROVE  i = j
  <2>1. s[i + 1] = s[j + 1] /\ i + 1 \in 1..n /\ j + 1 \in 1..n
    BY <1>2, <1>3, <1>4, <1>5
  <2>2. i + 1 = j + 1
    BY <1>4, <1>5, <2>1 DEF NoTwice
  <2> QED
    BY <1>1, <1>4, <2>2
<1>6. ASSUME NoTwice(s), NEW i \in 1..(n - 1)
      PROVE  rest[i] # s[1]
  <2>1. rest[i] = s[i + 1] /\ i + 1 \in 1..n /\ i + 1 # 1
    BY <1>1, <1>2, <1>3, <1>4
  <2> QED
    BY <1>1, <1>4, <1>6, <2>1 DEF NoTwice
<1>7. Len(rest) = n - 1 /\ Head(s) = s[1]
  BY <1>1, <1>2, <1>4
<1>8. NoTwice(s) => NoTwice(rest) /\ \A i \in 1..Len(rest) : rest[i] # Head(s)
  BY <1>5, <1>6, <1>7 DEF NoTwice
<1> QED
  BY <1>1, <1>2, <1>3, <1>4, <1>8

\* A list without its first elements, and these.
LEMMA FirstAndRest ==
    ASSUME NEW S, NEW s \in Seq(S), NEW m \in Nat, m <= Len(s)
    PROVE  /\ SubSeq(s, 1, m) \in Seq(S) /\ Len(SubSeq(s, 1, m)) = m
           /\ \A i \in 1..m : SubSeq(s, 1, m)[i] = s[i] /\ i \in 1..Len(s)
           /\ SubSeq(s, m + 1, Len(s)) \in Seq(S)
           /\ Len(SubSeq(s, m + 1, Len(s))) = Len(s) - m
           /\ \A i \in 1..(Len(s) - m) : /\ SubSeq(s, m + 1, Len(s))[i] = s[m + i]
                                         /\ m + i \in 1..Len(s)
           /\ NoTwice(s) => /\ NoTwice(SubSeq(s, 1, m))
                            /\ NoTwice(SubSeq(s, m + 1, Len(s)))
<1>1. Len(s) \in Nat /\ \A i \in 1..Len(s) : s[i] \in S
  OBVIOUS
<1>2. PICK a : a = SubSeq(s, 1, m)
  OBVIOUS
<1>3. a \in Seq(S) /\ Len(a) = m /\ \A i \in 1..m : a[i] = s[i] /\ i \in 1..Len(s)
  <2>1. \A i \in 1..m : s[i] \in S /\ i \in 1..Len(s) /\ 1 + i - 1 = i
    BY <1>1
  <2>2. /\ a \in Seq(S) /\ Len(a) = IF 1 <= m THEN m - 1 + 1 ELSE 0
        /\ \A i \in 1..(m - 1 + 1) : a[i] = s[1 + i - 1]
    BY <1>2, <2>1, SubSeqProperties
  <2>3. Len(a) = m /\ m - 1 + 1 = m
    BY <2>2
  <2> QED
    BY <2>1, <2>2, <2>3
<1>4. PICK n : n = Len(s)
  OBVIOUS
<1>5. PICK b : b = SubSeq(s, m + 1, n)
  OBVIOUS
<1>6. b \in Seq(S) /\ Len(b) = n - m /\ \A i \in 1..(n - m) : b[i] = s[m + i] /\ m + i \in 1..n
  <2>1. m + 1 \in Int /\ n \in Int /\ \A i \in (m + 1)..n : s[i] \in S
    BY <1>1, <1>4
  <2>2. /\ b \in Seq(S) /\ Len(b) = IF m + 1 <= n THEN n - (m + 1) + 1 ELSE 0
        /\ \A i \in 1..(n - (m + 1) + 1) : b[i] = s[m + 1 + i - 1]
    BY <1>5, <2>1, SubSeqProperties
  <2>3. Len(b) = n - m /\ n - (m + 1) + 1 = n - m
    BY <1>1, <1>4, <2>2
  <2>4. \A i \in 1..(n - m) : m + 1 + i - 1 = m + i /\ m + i \in 1..n
    BY <1>1, <1>4
  <2> QED
    BY <2>2, <2>3, <2>4
<1>7. ASSUME NoTwice(s), NEW i \in 1..m, NEW j \in 1..m, a[i] = a[j]
      PROVE  i = j
  <2>1. s[i] = s[j] /\ i \in 1..n /\ j \in 1..n
    BY <1>3, <1>4, <1>7
  <2> QED
    BY <1>4, <1>7, <2>1 DEF NoTwice
<1>8. ASSUME NoTwice(s), NEW i \in 1..(n - m), NEW j \in 1..(n - m), b[i] = b[j]
      PROVE  i = j
  <2>1. s[m + i] = s[m + j] /\ m + i \in 1..n /\ m + j \in 1..n
    BY <1>6, <1>8
  <2>2. m + i = m + j
    BY <1>4, <1>8, <2>1 DEF NoTwice
  <2> QED
    BY <1>1, <1>4, <2>2
<1>9. NoTwice(s) => NoTwice(a) /\ NoTwice(b)
  BY <1>3, <1>6, <1>7, <1>8 DEF NoTwice
<1> QED
  BY <1>2, <1>3, <1>4, <1>5, <1>6, <1>9

\* The free resource that is next is passed over.
LEMMA PassedOver ==
    ASSUME NEW free \in Seq(Window), free # <<>>, NEW reserved, NEW rar, NEW groups, NEW seen,
           Shared(free, reserved, rar, groups, seen)
    PROVE  Shared(Tail(free), reserved, rar, groups, seen)
<1>1. PICK rest : rest = Tail(free)
  OBVIOUS
<1>2. /\ Len(free) \in Nat \ {0} /\ Len(rest) = Len(free) - 1
      /\ \A i \in 1..(Len(free) - 1) : rest[i] = free[i + 1] /\ i + 1 \in 1..Len(free)
  BY <1>1, HeadTail
<1>3. NoTwice(rest)
  BY <1>1, HeadTail DEF Shared
<1>4. \A i \in 1..Len(rest) : rest[i] \in FreeWindow /\ rest[i] \notin reserved
  BY <1>2 DEF Shared
<1> QED
  BY <1>1, <1>3, <1>4 DEF Shared

\* It is given to a UE.
LEMMA GivenOut ==
    ASSUME NEW free \in Seq(Window), free # <<>>, NEW reserved, NEW groups, NEW seen,
           NEW rar \in Seq([ue : UEs, at : Window]), NEW ue \in UEs,
           NEW k, k = [ue |-> ue, at |-> Head(free)],
           Shared(free, reserved, rar, groups, seen)
    PROVE  Shared(Tail(free), reserved \cup {Head(free)}, Append(rar, k), groups, seen)
<1>1. PICK rest, x : rest = Tail(free) /\ x = Head(free)
  OBVIOUS
<1>2. /\ Len(free) \in Nat \ {0} /\ Len(rest) = Len(free) - 1 /\ x = free[1] /\ x \in Window
      /\ 1 \in 1..Len(free)
      /\ \A i \in 1..(Len(free) - 1) : rest[i] = free[i + 1] /\ i + 1 \in 1..Len(free)
  BY <1>1, HeadTail
<1>3. k \in [ue : UEs, at : Window] /\ k.at = x
  BY <1>1, <1>2
<1>4. PICK new : new = Append(rar, k)
  OBVIOUS
<1>5. /\ Len(rar) \in Nat /\ Len(new) = Len(rar) + 1 /\ new[Len(rar) + 1] = k
      /\ \A i \in 1..Len(rar) : new[i] = rar[i]
  BY <1>3, <1>4
<1>6. NoTwice(rest) /\ \A i \in 1..Len(rest) : rest[i] # x
  BY <1>1, HeadTail DEF Shared
<1>7. \A i \in 1..Len(rest) : rest[i] \in FreeWindow /\ rest[i] \notin reserved
  BY <1>2 DEF Shared
<1>8. x \in FreeWindow /\ x \notin reserved
  BY <1>2 DEF Shared
<1>9. \A i \in 1..Len(new) : i \in 1..Len(rar) \/ i = Len(rar) + 1
  BY <1>5
<1>10. \A i \in 1..Len(rar) : new[i].at \in reserved /\ new[i].at = rar[i].at
  BY <1>5 DEF Shared
<1>11. new[Len(rar) + 1].at = x
  BY <1>3, <1>5
<1>12. \A i \in 1..Len(new) : new[i].at \in reserved \cup {x}
  BY <1>9, <1>10, <1>11
<1>13. \A i, j \in 1..Len(new) : new[i].at = new[j].at => i = j
  <2>1. \A i, j \in 1..Len(rar) : new[i].at = new[j].at => i = j
    BY <1>10 DEF Shared
  <2> QED
    BY <1>8, <1>9, <1>10, <1>11, <2>1
<1>14. ASSUME NEW p \in Preambles, NEW i \in 1..Len(groups[p])
       PROVE  /\ groups[p][i] \in reserved \cup {x}
              /\ \A j \in 1..Len(new) : new[j].at # groups[p][i]
  <2>1. groups[p][i] \in reserved /\ \A j \in 1..Len(rar) : rar[j].at # groups[p][i]
    BY DEF Shared
  <2> QED
    BY <1>8, <1>9, <1>10, <1>11, <2>1
<1>15. reserved \cup {x} \subseteq FreeWindow
  BY <1>8 DEF Shared
<1>16. /\ \A p \in Preambles : NoTwice(groups[p]) /\ (p \notin seen => groups[p] = <<>>)
       /\ \A p, q \in Preambles : \A i \in 1..Len(groups[p]), j \in 1..Len(groups[q]) :
            groups[p][i] = groups[q][j] => p = q
  BY DEF Shared
<1>17. \A i \in 1..Len(rest) : rest[i] \in FreeWindow /\ rest[i] \notin reserved \cup {x}
  BY <1>6, <1>7
<1>18. Shared(rest, reserved \cup {x}, new, groups, seen)
  BY <1>6, <1>12, <1>13, <1>14, <1>15, <1>16, <1>17 DEF Shared
<1> QED
  BY <1>1, <1>4, <1>18

\* The first free resources are kept for a preamble.
LEMMA KeptForPreamble ==
    ASSUME NEW free \in Seq(Window), NEW m \in Nat, m <= Len(free),
           NEW reserved, NEW rar, NEW groups \in [Preambles -> Seq(Window)], NEW seen,
           NEW p \in Preambles, p \notin seen,
           Shared(free, reserved, rar, groups, seen)
    PROVE  Shared(SubSeq(free, m + 1, Len(free)), reserved \cup ToSet(SubSeq(free, 1, m)), rar,
                  [groups EXCEPT ![p] = SubSeq(free, 1, m)], seen \cup {p})
<1>1. PICK rest, group : rest = SubSeq(free, m + 1, Len(free)) /\ group = SubSeq(free, 1, m)
  OBVIOUS
<1>2. /\ group \in Seq(Window) /\ Len(group) = m
      /\ \A i \in 1..m : group[i] = free[i] /\ i \in 1..Len(free)
      /\ Len(rest) = Len(free) - m
      /\ \A i \in 1..(Len(free) - m) : rest[i] = free[m + i] /\ m + i \in 1..Len(free)
  BY <1>1, FirstAndRest
<1>3. PICK X : X = ToSet(group)
  OBVIOUS
<1>4. DOMAIN group = 1..m
  BY <1>2
<1>5. (\A x \in X : \E i \in 1..m : x = group[i]) /\ \A i \in 1..m : group[i] \in X
  BY <1>3, <1>4 DEF ToSet
<1>6. PICK new : new = [groups EXCEPT ![p] = group]
  OBVIOUS
<1>7. new[p] = group /\ \A q \in Preambles : q # p => new[q] = groups[q]
  BY <1>6
<1>8. NoTwice(rest) /\ NoTwice(group)
  BY <1>1, FirstAndRest DEF Shared
<1>9. \A x \in X : x \in FreeWindow /\ x \notin reserved
  BY <1>2, <1>5 DEF Shared
<1>10. ASSUME NEW i \in 1..Len(rest)
       PROVE  rest[i] \in FreeWindow /\ rest[i] \notin reserved \cup X
  <2>1. rest[i] = free[m + i] /\ m + i \in 1..Len(free)
    BY <1>2
  <2>2. rest[i] \notin X
    <3> SUFFICES ASSUME rest[i] \in X
                 PROVE  FALSE
      OBVIOUS
    <3>1. PICK j \in 1..m : rest[i] = group[j]
      BY <1>5
    <3>2. free[m + i] = free[j] /\ j \in 1..Len(free)
      BY <1>2, <2>1, <3>1
    <3>3. m + i = j
      BY <2>1, <3>2 DEF Shared, NoTwice
    <3> QED
      BY <1>2, <3>3
  <2> QED
    BY <2>1, <2>2 DEF Shared
<1>11. \A i \in 1..Len(rar) : rar[i].at \in reserved
  BY DEF Shared
<1>12. \A q \in Preambles : NoTwice(new[q])
  BY <1>7, <1>8 DEF Shared
<1>13. ASSUME NEW q \in Preambles, NEW i \in 1..Len(new[q])
       PROVE  new[q][i] \in reserved \cup X /\ \A j \in 1..Len(rar) : rar[j].at # new[q][i]
  <2>1. CASE q = p
    BY <1>2, <1>5, <1>7, <1>9, <1>11, <1>13, <2>1
  <2>2. CASE q # p
    BY <1>7, <1>13, <2>2 DEF Shared
  <2> QED
    BY <2>1, <2>2
<1>14. ASSUME NEW q \in Preambles, NEW r \in Preambles, NEW i \in 1..Len(new[q]),
              NEW j \in 1..Len(new[r]), new[q][i] = new[r][j]
       PROVE  q = r
  <2>1. \A s \in Preambles : s # p => \A l \in 1..Len(new[s]) : new[s][l] \in reserved
    BY <1>7 DEF Shared
  <2>2. \A l \in 1..Len(new[p]) : new[p][l] \notin reserved
    BY <1>2, <1>5, <1>7, <1>9
  <2>3. CASE q # p /\ r # p
    BY <1>7, <1>14, <2>3 DEF Shared
  <2>4. CASE q = p \/ r = p
    BY <1>14, <2>1, <2>2, <2>4
  <2> QED
    BY <2>3, <2>4
<1>15. \A q \in Preambles : q \notin seen \cup {p} => new[q] = <<>>
  BY <1>7 DEF Shared
<1>16. reserved \cup X \subseteq FreeWindow
  BY <1>9 DEF Shared
<1>17. \A i \in 1..Len(rar) : rar[i].at \in reserved \cup X
  BY <1>11
<1>18. \A i, j \in 1..Len(rar) : rar[i].at = rar[j].at => i = j
  BY DEF Shared
<1>19. Shared(rest, reserved \cup X, rar, new, seen \cup {p})
  BY <1>8, <1>10, <1>12, <1>13, <1>14, <1>15, <1>16, <1>17, <1>18 DEF Shared
<1> QED
  BY <1>1, <1>3, <1>6, <1>19

\* The next resource kept for a preamble is passed over, or given to a UE.
LEMMA TakenFromPreamble ==
    ASSUME NEW free, NEW reserved, NEW groups \in [Preambles -> Seq(Window)], NEW seen,
           NEW rar \in Seq([ue : UEs, at : Window]), NEW p \in Preambles, groups[p] # <<>>,
           NEW ue \in UEs, NEW k, k = [ue |-> ue, at |-> Head(groups[p])],
           Shared(free, reserved, rar, groups, seen)
    PROVE  /\ Shared(free, reserved, rar, [groups EXCEPT ![p] = Tail(groups[p])], seen)
           /\ Shared(free, reserved, Append(rar, k), [groups EXCEPT ![p] = Tail(groups[p])], seen)
<1>1. PICK old : old = groups[p]
  OBVIOUS
<1>2. PICK rest, x : rest = Tail(old) /\ x = Head(old)
  OBVIOUS
<1>3. /\ Len(old) \in Nat \ {0} /\ Len(rest) = Len(old) - 1 /\ x = old[1] /\ x \in Window
      /\ 1 \in 1..Len(old) /\ rest \in Seq(Window)
      /\ \A i \in 1..(Len(old) - 1) : rest[i] = old[i + 1] /\ i + 1 \in 1..Len(old)
  BY <1>1, <1>2, HeadTail
<1>4. PICK new : new = [groups EXCEPT ![p] = rest]
  OBVIOUS
<1>5. new[p] = rest /\ \A q \in Preambles : q # p => new[q] = groups[q]
  BY <1>4
<1>6. /\ NoTwice(old)
      /\ \A i \in 1..Len(old) : old[i] \in reserved /\ \A j \in 1..Len(rar) : rar[j].at # old[i]
  BY <1>1 DEF Shared
<1>7. NoTwice(rest) /\ \A i \in 1..Len(rest) : rest[i] # x
  BY <1>1, <1>2, <1>6, HeadTail
<1>8. ASSUME NEW q \in Preambles, NEW i \in 1..Len(new[q])
      PROVE  \E j \in 1..Len(groups[q]) : new[q][i] = groups[q][j]
  <2>1. CASE q = p
    <3>1. i \in 1..(Len(old) - 1) /\ new[q][i] = rest[i]
      BY <1>3, <1>5, <1>8, <2>1
    <3>2. rest[i] = old[i + 1] /\ i + 1 \in 1..Len(old)
      BY <1>3, <3>1
    <3> QED
      BY <1>1, <2>1, <3>1, <3>2
  <2>2. CASE q # p
    <3>1. new[q] = groups[q]
      BY <1>5, <2>2
    <3> QED
      BY <1>8, <3>1
  <2> QED
    BY <2>1, <2>2
<1>9. \A q \in Preambles : NoTwice(new[q])
  BY <1>5, <1>7 DEF Shared
<1>10. ASSUME NEW q \in Preambles, NEW i \in 1..Len(new[q])
       PROVE  new[q][i] \in reserved /\ \A j \in 1..Len(rar) : rar[j].at # new[q][i]
  <2>1. PICK m \in 1..Len(groups[q]) : new[q][i] = groups[q][m]
    BY <1>8
  <2> QED
    BY <2>1 DEF Shared
<1>11. \A q, r \in Preambles : \A i \in 1..Len(new[q]), j \in 1..Len(new[r]) :
            new[q][i] = new[r][j] => q = r
  BY <1>8 DEF Shared
<1>12. \A q \in Preambles : q \notin seen => new[q] = <<>>
  <2>1. p \in seen
    BY DEF Shared
  <2> QED
    BY <1>5, <2>1 DEF Shared
<1>13. Shared(free, reserved, rar, new, seen)
  BY <1>9, <1>10, <1>11, <1>12 DEF Shared
<1>14. PICK more : more = Append(rar, k)
  OBVIOUS
<1>15. k \in [ue : UEs, at : Window] /\ k.at = x
  BY <1>1, <1>2, <1>3
<1>16. /\ Len(rar) \in Nat /\ Len(more) = Len(rar) + 1 /\ more[Len(rar) + 1] = k
       /\ \A i \in 1..Len(rar) : more[i] = rar[i]
  BY <1>14, <1>15
<1>17. \A i \in 1..Len(more) : i \in 1..Len(rar) \/ i = Len(rar) + 1
  BY <1>16
<1>18. x \in reserved /\ \A j \in 1..Len(rar) : rar[j].at # x
  BY <1>3, <1>6
<1>19. \A i \in 1..Len(more) : more[i].at \in reserved
  BY <1>15, <1>16, <1>17, <1>18 DEF Shared
<1>20. \A i, j \in 1..Len(more) : more[i].at = more[j].at => i = j
  <2>1. \A i, j \in 1..Len(rar) : more[i].at = more[j].at => i = j
    BY <1>16 DEF Shared
  <2>2. \A i \in 1..Len(rar) : more[i].at # x
    BY <1>16, <1>18
  <2>3. more[Len(rar) + 1].at = x
    BY <1>15, <1>16
  <2> QED
    BY <1>17, <2>1, <2>2, <2>3
<1>21. ASSUME NEW q \in Preambles, NEW i \in 1..Len(new[q])
       PROVE  new[q][i] \in reserved /\ \A j \in 1..Len(more) : more[j].at # new[q][i]
  <2>1. new[q][i] \in reserved /\ \A j \in 1..Len(rar) : rar[j].at # new[q][i]
    BY <1>10
  <2>2. new[q][i] # x
    <3>1. CASE q = p
      BY <1>5, <1>7, <1>21, <3>1
    <3>2. CASE q # p
      <4>1. PICK j \in 1..Len(groups[q]) : new[q][i] = groups[q][j]
        BY <1>8
      <4>2. groups[q][j] # groups[p][1]
        BY <1>1, <1>3, <3>2 DEF Shared
      <4> QED
        BY <1>1, <1>3, <4>1, <4>2
    <3> QED
      BY <3>1, <3>2
  <2>3. \A j \in 1..Len(more) : more[j].at # new[q][i]
    BY <1>15, <1>16, <1>17, <2>1, <2>2
  <2> QED
    BY <2>1, <2>3
<1>22. Shared(free, reserved, more, new, seen)
  BY <1>11, <1>9, <1>12, <1>13, <1>19, <1>20, <1>21 DEF Shared
<1> QED
  BY <1>1, <1>2, <1>4, <1>13, <1>14, <1>22

\* The next message of the session got no response, or one.
LEMMA HeardNext ==
    ASSUME NEW session \in Seq(Messages), OfDifferentUes(session), NEW i \in 1..Len(session),
           NEW rar \in Seq([ue : UEs, at : Window]), Heard(rar, session, i - 1), NEW at \in Window,
           NEW k, k = [ue |-> session[i].ue, at |-> at]
    PROVE  /\ Heard(rar, session, i)
           /\ Heard(Append(rar, k), session, i)
           /\ Append(rar, k) \in Seq([ue : UEs, at : Window])
           /\ session[i].ue \in UEs /\ session[i].preamble \in Preambles
           /\ <<session[i].preamble, session[i].selectedRar>> \in Preambles \X SelectedRar
<1>1. session[i] \in Messages /\ Len(session) \in Nat /\ i \in Nat
  OBVIOUS
<1>2. /\ session[i].ue \in UEs /\ session[i].preamble \in Preambles
      /\ session[i].selectedRar \in SelectedRar
  BY <1>1 DEF Messages
<1>3. k \in [ue : UEs, at : Window] /\ k.ue = session[i].ue
  BY <1>2
<1>4. PICK new : new = Append(rar, k)
  OBVIOUS
<1>5. /\ new \in Seq([ue : UEs, at : Window])
      /\ Len(rar) \in Nat /\ Len(new) = Len(rar) + 1 /\ new[Len(rar) + 1] = k
      /\ \A j \in 1..Len(rar) : new[j] = rar[j]
  BY <1>3, <1>4
<1>6. \A j \in 1..Len(rar) : \E l \in 1..(i - 1) : session[l].ue = rar[j].ue
  BY DEF Heard
<1>7. \A l \in 1..(i - 1) : l \in 1..i /\ l \in 1..Len(session) /\ l # i
  BY <1>1
<1>8. Heard(rar, session, i)
  <2>1. \A j \in 1..Len(rar) : \E l \in 1..i : session[l].ue = rar[j].ue
    BY <1>6, <1>7
  <2>2. \A j, l \in 1..Len(rar) : rar[j].ue = rar[l].ue => j = l
    BY DEF Heard
  <2> QED
    BY <2>1, <2>2 DEF Heard
<1>9. \A j \in 1..Len(rar) : rar[j].ue # session[i].ue
  <2> SUFFICES ASSUME NEW j \in 1..Len(rar), rar[j].ue = session[i].ue
               PROVE  FALSE
    OBVIOUS
  <2>1. PICK l \in 1..(i - 1) : session[l].ue = rar[j].ue
    BY <1>6
  <2>2. l \in 1..Len(session) /\ l # i
    BY <1>7
  <2> QED
    BY <2>1, <2>2 DEF OfDifferentUes
<1>10. \A j \in 1..Len(new) : j \in 1..Len(rar) \/ j = Len(rar) + 1
  BY <1>5
<1>11. \A j \in 1..Len(new) : \E l \in 1..i : session[l].ue = new[j].ue
  <2>1. i \in 1..i
    BY <1>1
  <2>2. \A j \in 1..Len(rar) : \E l \in 1..i : session[l].ue = new[j].ue
    BY <1>5, <1>8 DEF Heard
  <2>3. session[i].ue = new[Len(rar) + 1].ue
    BY <1>3, <1>5
  <2>4. ASSUME NEW j \in 1..Len(new)
        PROVE  \E l \in 1..i : session[l].ue = new[j].ue
    <3>1. CASE j \in 1..Len(rar)
      BY <2>2, <3>1
    <3>2. CASE j = Len(rar) + 1
      BY <2>1, <2>3, <3>2
    <3> QED
      BY <1>10, <3>1, <3>2
  <2> QED
    BY <2>4
<1>12. \A j, l \in 1..Len(new) : new[j].ue = new[l].ue => j = l
  <2>1. \A j, l \in 1..Len(rar) : new[j].ue = new[l].ue => j = l
    BY <1>5 DEF Heard
  <2>2. \A j \in 1..Len(rar) : new[j].ue # session[i].ue
    BY <1>5, <1>9
  <2>3. new[Len(rar) + 1].ue = session[i].ue
    BY <1>3, <1>5
  <2> QED
    BY <1>10, <2>1, <2>2, <2>3
<1> QED
  BY <1>2, <1>4, <1>5, <1>8, <1>11, <1>12, SMTT(30) DEF Heard

\* What one message of a session makes of the responses so far.
LEMMA AnswerIs ==
    ASSUME NEW session \in Seq(Messages), OfDifferentUes(session), NEW i \in 1..Len(session),
           NEW acc \in Accs, SharedBy(acc), Heard(acc.rar, session, i - 1)
    PROVE  /\ Answer(session, acc, session[i]) \in Accs
           /\ SharedBy(Answer(session, acc, session[i]))
           /\ Heard(Answer(session, acc, session[i]).rar, session, i)
<1>1. PICK k, new : k = session[i] /\ new = Answer(session, acc, k)
  OBVIOUS
<1>2. /\ acc.free \in Seq(Window) /\ acc.rar \in Seq([ue : UEs, at : Window])
      /\ acc.collided \in SUBSET (Preambles \X SelectedRar) /\ acc.reserved \in SUBSET Window
      /\ acc.seen \in SUBSET Preambles /\ acc.groups \in [Preambles -> Seq(Window)]
  BY DEF Accs
<1>3. /\ k.ue \in UEs /\ <<k.preamble, k.selectedRar>> \in Preambles \X SelectedRar
      /\ \A at \in Window : \A r : r = [ue |-> k.ue, at |-> at] =>
            /\ Heard(acc.rar, session, i) /\ Heard(Append(acc.rar, r), session, i)
            /\ Append(acc.rar, r) \in Seq([ue : UEs, at : Window])
  <2>1. ASSUME NEW at \in Window
        PROVE  /\ k.ue \in UEs /\ <<k.preamble, k.selectedRar>> \in Preambles \X SelectedRar
               /\ \A r : r = [ue |-> k.ue, at |-> at] =>
                    /\ Heard(acc.rar, session, i) /\ Heard(Append(acc.rar, r), session, i)
                    /\ Append(acc.rar, r) \in Seq([ue : UEs, at : Window])
    BY <1>1, <1>2, HeardNext
  <2>2. k \in Messages
    BY <1>1
  <2>3. k.ue \in UEs /\ <<k.preamble, k.selectedRar>> \in Preambles \X SelectedRar
    BY <2>2 DEF Messages
  <2> QED
    BY <2>1, <2>3
<1>4. Heard(acc.rar, session, i)
  <2>1. \A j \in 1..Len(acc.rar) : \E l \in 1..i : session[l].ue = acc.rar[j].ue
    <3>1. \A l \in 1..(i - 1) : l \in 1..i
      OBVIOUS
    <3> QED
      BY <3>1 DEF Heard
  <2> QED
    BY <2>1 DEF Heard
<1>5. CASE new = acc
  BY <1>1, <1>4, <1>5
<1>6. CASE acc.free # <<>> /\ ~Collides(session, k)
  <2>1. PICK x, r : x = Head(acc.free) /\ r = [ue |-> k.ue, at |-> x]
    OBVIOUS
  <2>2. x \in Window /\ Tail(acc.free) \in Seq(Window)
    BY <1>2, <1>6, <2>1, HeadTail
  <2>3. new = [[acc EXCEPT !.rar = Append(acc.rar, r)] EXCEPT
                    !.free = Tail(acc.free), !.reserved = acc.reserved \cup {x}]
    BY <1>1, <1>6, <2>1 DEF Answer, Respond, Accs
  <2>4. Append(acc.rar, r) \in Seq([ue : UEs, at : Window]) /\ Heard(Append(acc.rar, r), session, i)
    BY <1>3, <2>1, <2>2
  <2>5. /\ new \in Accs /\ new.free = Tail(acc.free) /\ new.reserved = acc.reserved \cup {x}
        /\ new.rar = Append(acc.rar, r) /\ new.groups = acc.groups /\ new.seen = acc.seen
    BY <1>2, <2>2, <2>3, <2>4 DEF Accs
  <2>6. Shared(Tail(acc.free), acc.reserved \cup {x}, Append(acc.rar, r), acc.groups, acc.seen)
    BY <1>2, <1>3, <1>6, <2>1, GivenOut DEF SharedBy
  <2> QED
    BY <1>1, <2>4, <2>5, <2>6 DEF SharedBy
<1>7. CASE acc.free # <<>> /\ Collides(session, k) /\ <<k.preamble, k.selectedRar>> \notin acc.collided
  <2>1. new = [acc EXCEPT !.free = Tail(acc.free),
                          !.collided = acc.collided \cup {<<k.preamble, k.selectedRar>>}]
    BY <1>1, <1>7 DEF Answer
  <2>2. Tail(acc.free) \in Seq(Window)
    BY <1>2, <1>7, HeadTail
  <2>3. /\ new \in Accs /\ new.free = Tail(acc.free) /\ new.reserved = acc.reserved
        /\ new.rar = acc.rar /\ new.groups = acc.groups /\ new.seen = acc.seen
    BY <1>2, <1>3, <2>1, <2>2 DEF Accs
  <2>4. Shared(Tail(acc.free), acc.reserved, acc.rar, acc.groups, acc.seen)
    BY <1>2, <1>7, PassedOver DEF SharedBy
  <2> QED
    BY <1>1, <1>4, <2>3, <2>4 DEF SharedBy
<1> QED
  BY <1>1, <1>5, <1>6, <1>7 DEF Answer

\* The resources kept for a preamble when its first message is looked at.
LEMMA GroupedIs ==
    ASSUME NEW acc \in Accs, SharedBy(acc), NEW p \in Preambles
    PROVE  /\ Grouped(acc, p) \in Accs /\ SharedBy(Grouped(acc, p))
           /\ Grouped(acc, p).rar = acc.rar /\ Grouped(acc, p).collided = acc.collided
<1>1. PICK new : new = Grouped(acc, p)
  OBVIOUS
<1>2. /\ acc.free \in Seq(Window) /\ acc.rar \in Seq([ue : UEs, at : Window])
      /\ acc.collided \in SUBSET (Preambles \X SelectedRar) /\ acc.reserved \in SUBSET Window
      /\ acc.seen \in SUBSET Preambles /\ acc.groups \in [Preambles -> Seq(Window)]
  BY DEF Accs
<1>3. CASE new = acc
  BY <1>1, <1>3
<1>4. CASE p \notin acc.seen /\ ~(Len(acc.free) < m_nbRARs)
  <2>1. PICK m \in Nat : m = m_nbRARs
    BY NumberAssumption, FS_CardinalityType DEF m_nbRARs
  <2>2. m <= Len(acc.free)
    BY <1>2, <1>4, <2>1
  <2>3. PICK group, rest : /\ group = SubSeq(acc.free, 1, m)
                           /\ rest = SubSeq(acc.free, m + 1, Len(acc.free))
    OBVIOUS
  <2>4. group \in Seq(Window) /\ rest \in Seq(Window)
    BY <1>2, <2>2, <2>3, FirstAndRest
  <2>5. PICK X : X = ToSet(group)
    OBVIOUS
  <2>6. X \subseteq Window
    <3>1. DOMAIN group = 1..Len(group) /\ \A i \in 1..Len(group) : group[i] \in Window
      BY <2>4
    <3> QED
      BY <2>5, <3>1 DEF ToSet
  <2>7. new = [acc EXCEPT !.groups[p] = group, !.seen = acc.seen \cup {p},
                          !.reserved = acc.reserved \cup X, !.free = rest]
    BY <1>1, <1>4, <2>1, <2>3, <2>5 DEF Grouped
  <2>8. PICK groups \in [Preambles -> Seq(Window)] : groups = [acc.groups EXCEPT ![p] = group]
    BY <1>2, <2>4
  <2>9. /\ new \in Accs /\ new.free = rest /\ new.reserved = acc.reserved \cup X
        /\ new.rar = acc.rar /\ new.groups = groups /\ new.seen = acc.seen \cup {p}
        /\ new.collided = acc.collided
    BY <1>2, <2>4, <2>6, <2>7, <2>8 DEF Accs
  <2>10. Shared(rest, acc.reserved \cup X, acc.rar, groups, acc.seen \cup {p})
    BY <1>2, <1>4, <2>2, <2>3, <2>5, <2>8, KeptForPreamble DEF SharedBy
  <2> QED
    BY <1>1, <2>9, <2>10 DEF SharedBy
<1> QED
  BY <1>1, <1>3, <1>4 DEF Grouped

\* The same as AnswerIs in the enhanced procedure.
LEMMA AnswerEnhancedIs ==
    ASSUME NEW session \in Seq(Messages), OfDifferentUes(session), NEW i \in 1..Len(session),
           NEW acc \in Accs, SharedBy(acc), Heard(acc.rar, session, i - 1)
    PROVE  /\ AnswerEnhanced(session, acc, session[i]) \in Accs
           /\ SharedBy(AnswerEnhanced(session, acc, session[i]))
           /\ Heard(AnswerEnhanced(session, acc, session[i]).rar, session, i)
<1>1. PICK k, new : k = session[i] /\ new = AnswerEnhanced(session, acc, k)
  OBVIOUS
<1>2. k \in Messages
  BY <1>1
<1>3. /\ k.ue \in UEs /\ k.preamble \in Preambles
      /\ <<k.preamble, k.selectedRar>> \in Preambles \X SelectedRar
  BY <1>2 DEF Messages
<1>4. PICK with : with = Grouped(acc, k.preamble)
  OBVIOUS
<1>5. with \in Accs /\ SharedBy(with) /\ with.rar = acc.rar /\ with.collided = acc.collided
  BY <1>3, <1>4, GroupedIs
<1>6. /\ with.free \in Seq(Window) /\ with.rar \in Seq([ue : UEs, at : Window])
      /\ with.collided \in SUBSET (Preambles \X SelectedRar) /\ with.reserved \in SUBSET Window
      /\ with.seen \in SUBSET Preambles /\ with.groups \in [Preambles -> Seq(Window)]
  BY <1>5 DEF Accs
<1>7. Heard(with.rar, session, i)
  <2>1. \A j \in 1..Len(acc.rar) : \E l \in 1..i : session[l].ue = acc.rar[j].ue
    <3>1. \A l \in 1..(i - 1) : l \in 1..i
      OBVIOUS
    <3> QED
      BY <3>1 DEF Heard
  <2> QED
    BY <1>5, <2>1 DEF Heard
<1>8. CASE new = with
  BY <1>1, <1>5, <1>7, <1>8
<1>9. CASE with.groups[k.preamble] # <<>>
  <2>1. PICK group : group = with.groups[k.preamble]
    OBVIOUS
  <2>2. PICK x, r : x = Head(group) /\ r = [ue |-> k.ue, at |-> x]
    OBVIOUS
  <2>3. group \in Seq(Window) /\ x \in Window /\ Tail(group) \in Seq(Window)
    <3>1. group \in Seq(Window) /\ group # <<>>
      BY <1>3, <1>6, <1>9, <2>1
    <3> QED
      BY <2>2, <3>1, HeadTail
  <2>4. PICK groups \in [Preambles -> Seq(Window)] :
                groups = [with.groups EXCEPT ![k.preamble] = Tail(group)]
    BY <1>6, <2>3
  <2>5. PICK rest : rest = [with EXCEPT !.groups = groups]
    OBVIOUS
  <2>6. /\ rest \in Accs /\ rest.free = with.free /\ rest.reserved = with.reserved
        /\ rest.rar = with.rar /\ rest.groups = groups /\ rest.seen = with.seen
        /\ rest.collided = with.collided
    BY <1>5, <1>6, <2>5 DEF Accs
  <2>7. rest = [with EXCEPT !.groups[k.preamble] = Tail(with.groups[k.preamble])]
    BY <1>5, <2>1, <2>4, <2>5 DEF Accs
  <2>8. /\ Shared(with.free, with.reserved, with.rar, groups, with.seen)
        /\ Shared(with.free, with.reserved, Append(with.rar, r), groups, with.seen)
    BY <1>3, <1>5, <1>6, <1>9, <2>1, <2>2, <2>4, TakenFromPreamble DEF SharedBy
  <2>9. Append(with.rar, r) \in Seq([ue : UEs, at : Window])
        /\ Heard(Append(with.rar, r), session, i)
    BY <1>1, <1>5, <1>6, <2>2, <2>3, HeardNext
  <2>10. CASE new = Respond(rest, k, x)
    <3>1. new = [rest EXCEPT !.rar = Append(rest.rar, r)]
      BY <2>2, <2>10 DEF Respond
    <3>2. /\ new \in Accs /\ new.free = with.free /\ new.reserved = with.reserved
          /\ new.rar = Append(with.rar, r) /\ new.groups = groups /\ new.seen = with.seen
      BY <1>6, <2>6, <2>9, <3>1 DEF Accs
    <3> QED
      BY <1>1, <2>8, <2>9, <3>2 DEF SharedBy
  <2>11. CASE new = [rest EXCEPT !.collided = @ \cup {<<k.preamble, k.selectedRar>>}]
    <3>1. new = [rest EXCEPT !.collided = rest.collided \cup {<<k.preamble, k.selectedRar>>}]
      BY <2>11
    <3>2. /\ new \in Accs /\ new.free = with.free /\ new.reserved = with.reserved
          /\ new.rar = with.rar /\ new.groups = groups /\ new.seen = with.seen
      BY <1>3, <1>6, <2>6, <3>1 DEF Accs
    <3> QED
      BY <1>1, <1>7, <2>8, <3>2 DEF SharedBy
  <2>12. \/ new = with
         \/ new = Respond(rest, k, x)
         \/ new = [rest EXCEPT !.collided = @ \cup {<<k.preamble, k.selectedRar>>}]
    <3>1. new = IF with.groups[k.preamble] = <<>> THEN with
                ELSE IF ~Collides(session, k) THEN Respond(rest, k, Head(with.groups[k.preamble]))
                ELSE IF <<k.preamble, k.selectedRar>> \in acc.collided THEN with
                ELSE [rest EXCEPT !.collided = @ \cup {<<k.preamble, k.selectedRar>>}]
      BY <1>1, <1>4, <2>7 DEF AnswerEnhanced
    <3> QED
      BY <1>9, <2>1, <2>2, <3>1
  <2> QED
    BY <1>8, <2>10, <2>11, <2>12
<1>10. CASE with.groups[k.preamble] = <<>>
  <2>1. new = with
    BY <1>1, <1>4, <1>10 DEF AnswerEnhanced
  <2> QED
    BY <1>8, <2>1
<1> QED
  BY <1>9, <1>10

\* The responses to the session: as many steps as messages.
LEMMA ResponsesAre ==
    ASSUME IInv, NEW session \in Seq(Messages), OfDifferentUes(session)
    PROVE  /\ Responses(session) \in Accs
           /\ SharedBy(Responses(session))
           /\ Heard(Responses(session).rar, session, Len(session))
<1> DEFINE start == Unanswered(RBsForCCCH)
           next(acc, i) == IF m_type = "ENHANCED" THEN AnswerEnhanced(session, acc, session[i])
                                                  ELSE Answer(session, acc, session[i])
           n == Len(session)
           Eq(g) == g = [i \in 0..n |-> IF i = 0 THEN start ELSE next(g[i - 1], i)]
           S(i) == {acc \in Accs : SharedBy(acc) /\ Heard(acc.rar, session, i)}
           From(g) == g[0] = start /\ \A i \in 1..n : g[i] = next(g[i - 1], i)
<1>1. n \in Nat
  OBVIOUS
<1>2. start \in S(0)
  <2>1. PICK free \in Seq(Window) : free = RBsForCCCH
    BY FreeOnes
  <2>2. PICK none : none = <<>>
    OBVIOUS
  <2>3. none \in Seq(Window) /\ none \in Seq([ue : UEs, at : Window]) /\ Len(none) = 0
    BY <2>2
  <2>4. PICK groups \in [Preambles -> Seq(Window)] : groups = [p \in Preambles |-> none]
    BY <2>3
  <2>5. start = [free |-> free, collided |-> {}, rar |-> none, reserved |-> {},
                 seen |-> {}, groups |-> groups]
    BY <2>1, <2>2, <2>4 DEF Unanswered
  <2>6. start \in Accs
    BY <2>3, <2>5 DEF Accs
  <2>7. Shared(free, {}, none, groups, {})
    BY <2>1, <2>2, <2>3, <2>4, FreeOnes DEF Shared, NoTwice
  <2>8. SharedBy(start)
    BY <2>5, <2>7 DEF SharedBy
  <2>9. Heard(none, session, 0)
    BY <2>3 DEF Heard
  <2> QED
    BY <2>5, <2>6, <2>8, <2>9
<1>3. ASSUME NEW i \in 1..n, NEW acc \in S(i - 1)
      PROVE  next(acc, i) \in S(i)
  <2>1. acc \in Accs /\ SharedBy(acc) /\ Heard(acc.rar, session, i - 1)
    OBVIOUS
  <2>2. CASE m_type = "ENHANCED"
    <3>1. next(acc, i) = AnswerEnhanced(session, acc, session[i])
      BY <2>2
    <3> QED
      BY <2>1, <3>1, AnswerEnhancedIs
  <2>3. CASE m_type # "ENHANCED"
    <3>1. next(acc, i) = Answer(session, acc, session[i])
      BY <2>3
    <3> QED
      BY <2>1, <3>1, AnswerIs
  <2> QED
    BY <2>2, <2>3
<1>4. PICK f : Eq(f)
  <2> DEFINE Other(acc) == IF acc \in Accs THEN acc ELSE start
             step == [i \in 1..n |-> [acc \in Accs |-> Other(next(acc, i))]]
  <2>1. start \in Accs /\ \A i \in 1..n : \A acc \in S(i - 1) : next(acc, i) \in S(i)
    BY <1>2, <1>3
  <2>2. step \in [1..n -> [Accs -> Accs]]
    BY <2>1
  <2>3. PICK g \in [0..n -> Accs] : Iterates(g, start, step, n)
    <3> HIDE DEF step, start
    <3> QED
      BY <1>1, <2>1, <2>2, Recursion
  <2>4. ASSUME NEW i \in 1..n, g[i - 1] \in S(i - 1)
        PROVE  g[i] = next(g[i - 1], i) /\ g[i] \in S(i)
    <3>1. g[i] = step[i][g[i - 1]]
      BY <2>3 DEF Iterates
    <3>2. g[i - 1] \in Accs /\ next(g[i - 1], i) \in S(i)
      BY <2>1, <2>4
    <3>3. next(g[i - 1], i) \in Accs
      BY <3>2
    <3> HIDE DEF next, start
    <3> QED
      BY <3>1, <3>2, <3>3
  <2>5. \A i \in 0..n : g[i] \in S(i)
    <3> DEFINE P == {i \in Nat : i <= n => g[i] \in S(i)}
    <3>1. 0 \in P
      BY <1>2, <2>3 DEF Iterates
    <3>2. ASSUME NEW i \in Nat, i \in P
          PROVE  i + 1 \in P
      <4> SUFFICES ASSUME i + 1 <= n
                   PROVE  g[i + 1] \in S(i + 1)
        OBVIOUS
      <4>1. i + 1 \in 1..n /\ i + 1 - 1 = i /\ g[i] \in S(i)
        BY <1>1, <3>2
      <4> HIDE DEF S, next
      <4> QED
        BY <2>4, <4>1
    <3> HIDE DEF P
    <3>3. \A i \in Nat : i \in P
      BY <3>1, <3>2, Induction
    <3> QED
      BY <1>1, <3>3 DEF P
  <2>6. \A i \in 1..n : g[i] = next(g[i - 1], i)
    <3> HIDE DEF S, next
    <3>1. \A i \in 1..n : i - 1 \in 0..n
      BY <1>1
    <3> QED
      BY <2>4, <2>5, <3>1
  <2>7. g[0] = start /\ g = [i \in 0..n |-> g[i]]
    BY <2>3 DEF Iterates
  <2>8. \A i \in 0..n : g[i] = IF i = 0 THEN start ELSE next(g[i - 1], i)
    <3> TAKE i \in 0..n
    <3>1. CASE i = 0
      BY <2>7, <3>1
    <3>2. CASE i # 0
      <4>1. i \in 1..n
        BY <1>1, <3>2
      <4>2. g[i] = next(g[i - 1], i)
        BY <2>6, <4>1
      <4> HIDE DEF next
      <4> QED
        BY <3>2, <4>2
    <3> QED
      BY <3>1, <3>2
  <2> HIDE DEF next, start
  <2> QED
    BY <2>7, <2>8
<1>5. PICK k : k = CHOOSE g : Eq(g)
  OBVIOUS
<1>6. Eq(k)
  <2> HIDE DEF Eq
  <2> QED
    BY <1>4, <1>5
<1>7. Responses(session) = k[n]
  BY <1>5 DEF Responses
<1>8. From(k)
  <2> HIDE DEF next, start
  <2>1. 0 \in 0..n /\ \A i \in 1..n : i \in 0..n /\ i # 0
    BY <1>1
  <2> QED
    BY <1>6, <2>1
<1>9. k[n] \in S(n)
  <2> DEFINE P == {i \in Nat : i <= n => k[i] \in S(i)}
  <2>1. 0 \in P
    BY <1>2, <1>8
  <2>2. ASSUME NEW i \in Nat, i \in P
        PROVE  i + 1 \in P
    <3> SUFFICES ASSUME i + 1 <= n
                 PROVE  k[i + 1] \in S(i + 1)
      OBVIOUS
    <3>1. i + 1 \in 1..n /\ i + 1 - 1 = i /\ k[i] \in S(i)
      BY <1>1, <2>2
    <3>2. k[i + 1] = next(k[i], i + 1)
      <4> HIDE DEF next
      <4> QED
        BY <1>8, <3>1
    <3> HIDE DEF S, next
    <3> QED
      BY <1>3, <3>1, <3>2
  <2> HIDE DEF P
  <2>3. \A i \in Nat : i \in P
    BY <2>1, <2>2, Induction
  <2> QED
    BY <1>1, <2>3 DEF P
<1> QED
  BY <1>7, <1>9

\* The messages 3 that the responses make the UEs schedule.
LEMMA Messages3Are ==
    ASSUME m_TTICounter \in Nat, NEW rar \in Seq([ue : UEs, at : Window]),
           NEW msgs, msgs = [i \in 1..Len(rar) |-> Msg3At(rar[i].at[1], rar[i].ue, rar[i].at[2])]
    PROVE  /\ msgs \in Seq(Events) /\ Len(msgs) = Len(rar)
           /\ \A i \in 1..Len(rar) :
                /\ msgs[i].kind = "SendMessage3" /\ msgs[i].ue = rar[i].ue /\ rar[i].at \in Window
                /\ msgs[i].ts = msgs[i].tti /\ <<msgs[i].tti, msgs[i].rb>> = rar[i].at
                /\ msgs[i].ts \in (m_TTICounter + 1)..(m_TTICounter + m_responseWindowDuration)
<1>1. Len(rar) \in Nat /\ \A i \in 1..Len(rar) : rar[i] \in [ue : UEs, at : Window]
  <2>1. PICK A : A = [ue : UEs, at : Window]
    OBVIOUS
  <2>2. rar \in Seq(A)
    BY <2>1
  <2>3. Len(rar) \in Nat /\ \A i \in 1..Len(rar) : rar[i] \in A
    BY <2>2
  <2> QED
    BY <2>1, <2>3
<1>2. ASSUME NEW i \in 1..Len(rar)
      PROVE  /\ msgs[i] \in Events
             /\ msgs[i].kind = "SendMessage3" /\ msgs[i].ue = rar[i].ue /\ rar[i].at \in Window
             /\ msgs[i].ts = msgs[i].tti /\ <<msgs[i].tti, msgs[i].rb>> = rar[i].at
             /\ msgs[i].ts \in (m_TTICounter + 1)..(m_TTICounter + m_responseWindowDuration)
  <2>1. PICK at : at = rar[i].at
    OBVIOUS
  <2>2. at \in Window /\ rar[i].ue \in UEs
    BY <1>1, <2>1
  <2>3. PICK ts \in (m_TTICounter + 1)..(m_TTICounter + m_responseWindowDuration), rb \in RBs :
            at = <<ts, rb>>
    BY <2>2 DEF Window
  <2>4. at[1] = ts /\ at[2] = rb /\ ts \in Nat
    BY <2>3, Values
  <2>5. msgs[i] = Msg3At(ts, rar[i].ue, rb)
    BY <2>1, <2>4
  <2>6. PICK m : m = Msg3At(ts, rar[i].ue, rb)
    OBVIOUS
  <2>7. /\ m \in Events /\ m.ts = ts /\ m.kind = "SendMessage3" /\ m.ue = rar[i].ue
        /\ m.tti = ts /\ m.rb = rb
    BY <2>2, <2>4, <2>6, NewEvents
  <2> QED
    BY <2>1, <2>2, <2>3, <2>5, <2>6, <2>7
<1>3. Len(msgs) = Len(rar) /\ DOMAIN msgs = 1..Len(rar)
  BY <1>1
<1>4. msgs \in Seq(Events)
  BY <1>1, <1>2, <1>3, SeqDef
<1> QED
  BY <1>2, <1>3, <1>4

\* A session is removed.
LEMMA ErasedIs ==
    ASSUME IInv, NEW v
    PROVE  /\ DOMAIN Erase(v) = DOMAIN m_savedRachSessions \ {v}
           /\ \A t \in DOMAIN Erase(v) : Erase(v)[t] \in Seq(Messages)
           /\ \A t, i, ue : Saves(Erase(v), t, i, ue) <=> Saves(m_savedRachSessions, t, i, ue) /\ t # v
<1>1. PICK new : new = Erase(v)
  OBVIOUS
<1>2. /\ DOMAIN new = DOMAIN m_savedRachSessions \ {v}
      /\ \A t \in DOMAIN new : new[t] = m_savedRachSessions[t]
  BY <1>1 DEF Erase
<1>3. \A t \in DOMAIN new : new[t] \in Seq(Messages)
  BY <1>2 DEF IInv, VariablesTyped
<1>4. \A t, i, ue : Saves(new, t, i, ue) <=> Saves(m_savedRachSessions, t, i, ue) /\ t # v
  BY <1>2 DEF Saves
<1> QED
  BY <1>1, <1>2, <1>3, <1>4

\* The messages of the session that is answered.
LEMMA SessionHas ==
    ASSUME IInv, NEW v
    PROVE  /\ OfDifferentUes(SessionAt(v))
           /\ \A i \in 1..Len(SessionAt(v)) :
                Saves(m_savedRachSessions, v, i, SessionAt(v)[i].ue)
<1>1. PICK session \in Seq(Messages) : session = SessionAt(v)
  BY SessionIs
<1>2. \A i \in 1..Len(session) : session[i].ue \in UEs
  <2>1. \A i \in 1..Len(session) : session[i] \in Messages
    OBVIOUS
  <2> QED
    BY <2>1 DEF Messages
<1>3. \A i \in 1..Len(session) : Saves(m_savedRachSessions, v, i, session[i].ue)
  <2>1. CASE v \in DOMAIN m_savedRachSessions
    BY <1>1, <2>1 DEF SessionAt, Saves
  <2>2. CASE v \notin DOMAIN m_savedRachSessions
    <3>1. session = <<>>
      BY <1>1, <2>2 DEF SessionAt
    <3>2. Len(session) = 0
      BY <3>1
    <3> QED
      BY <3>2
  <2> QED
    BY <2>1, <2>2
<1>4. \A ue \in UEs : SavedOnce(m_savedRachSessions, ue)
  BY DEF IInv, UeRight
<1>5. OfDifferentUes(session)
  BY <1>2, <1>3, <1>4 DEF OfDifferentUes, SavedOnce
<1> QED
  BY <1>1, <1>3, <1>5

\* The opportunities of the response window that opens now are written down.
LEMMA WindowKnown ==
    ASSUME IInv, Serve("CheckCollisions"), DOMAIN m_savedRachSessions # {},
           NEW at \in FreeWindow
    PROVE  ~(Opportunity(at[1]) /\ at[2] \in RachRBs)
<1>1. /\ m_TTICounter = Now /\ Now \in Nat
      /\ \A e \in EventsOf(m_events) : e \in Events /\ e.ts \in Nat /\ Now <= e.ts
  BY ServedIs DEF EarlyKinds
<1>2. PICK s \in EventsOf(m_events) : s \in OfKinds({"SetRachReservedSubChannels"})
  BY DEF IInv, CellRight, RachRight
<1>3. s.kind = "SetRachReservedSubChannels" /\ s.ts \in Nat /\ Now <= s.ts
  BY <1>1, <1>2, EventKinds
<1>4. Known(m_RBsReservedForRach, m_TTICounter, s.ts - m_ripInt + PredictionWindow)
  BY <1>3 DEF IInv, CellRight, RachRight
<1>5. PICK ts \in (m_TTICounter + 1)..(m_TTICounter + m_responseWindowDuration), rb \in RBs :
            at = <<ts, rb>> /\ at \notin m_RBsReservedForRach
  BY DEF FreeWindow, Window
<1>6. ts \in m_TTICounter..(s.ts - m_ripInt + PredictionWindow)
  BY <1>1, <1>3, Values
<1>7. Opportunity(ts) => {ts} \X RachRBs \subseteq m_RBsReservedForRach
  BY <1>4, <1>6 DEF Known
<1>8. at[1] = ts /\ at[2] = rb
  BY <1>5
<1> QED
  BY <1>5, <1>7, <1>8

LEMMA CollisionsRight == IInv /\ CheckCollisions => IInv'
<1> SUFFICES ASSUME IInv, CheckCollisions
             PROVE  IInv'
  OBVIOUS
<1>0. PICK f, v, D : /\ f = GetEvent(m_events) /\ v = m_TTICounter - m_responseWindowDelay
                     /\ D = m_responseWindowDuration
  OBVIOUS
<1>1. Serve("CheckCollisions") /\ "CheckCollisions" \notin UeKinds
  BY DEF CheckCollisions, UeKinds
<1>2. /\ IsCalendar(m_events, Events)
      /\ f \in Events /\ f \in EventsOf(m_events) /\ f.kind = "CheckCollisions" /\ f.ts = Now
      /\ Now \in Nat /\ m_currentTs' = Now /\ m_currentTs \in Nat /\ m_currentTs <= Now
      /\ m_TTICounter = Now /\ m_type' = m_type /\ Messages' = Messages
      /\ \A e \in EventsOf(m_events) : e \in Events /\ e.ts \in Nat /\ Now <= e.ts
  BY <1>0, <1>1, ServedIs DEF EarlyKinds
<1>3. UNCHANGED <<m_TTICounter, m_RBsReservedForRach, granted,
                  m_state, m_RaProcedureActive, m_nbFailedAttempts, inputs>>
  BY DEF CheckCollisions, ue_
<1>4. /\ VariablesTyped
      /\ ClockRight(m_events, m_currentTs, m_TTICounter, granted)
      /\ EarlyRight(m_events, m_TTICounter)
      /\ RachRight(m_events, m_TTICounter, m_RBsReservedForRach, m_savedRachSessions)
      /\ CheckRight(m_events, m_TTICounter, m_savedRachSessions)
      /\ Msg3Right(m_events, m_RBsReservedForCCCH)
  BY DEF IInv, CellRight
<1>5. PICK session \in Seq(Messages) : session = SessionAt(v)
  BY SessionIs
<1>6. /\ OfDifferentUes(session)
      /\ \A i \in 1..Len(session) : Saves(m_savedRachSessions, v, i, session[i].ue)
  BY <1>5, SessionHas
<1>7. PICK result \in Accs : /\ result = Responses(session) /\ SharedBy(result)
                             /\ Heard(result.rar, session, Len(session))
  BY <1>6, ResponsesAre
<1>8. PICK rar \in Seq([ue : UEs, at : Window]), reserved \in SUBSET Window :
            rar = result.rar /\ reserved = result.reserved
  BY DEF Accs
<1>9. /\ reserved \subseteq FreeWindow
      /\ \A i \in 1..Len(rar) : rar[i].at \in reserved
      /\ \A i, j \in 1..Len(rar) : rar[i].at = rar[j].at => i = j
      /\ \A i \in 1..Len(rar) : \E k \in 1..Len(session) : session[k].ue = rar[i].ue
      /\ \A i, j \in 1..Len(rar) : rar[i].ue = rar[j].ue => i = j
  <2>1. Shared(result.free, reserved, rar, result.groups, result.seen)
    BY <1>7, <1>8 DEF SharedBy
  <2>2. /\ reserved \subseteq FreeWindow
        /\ \A i \in 1..Len(rar) : rar[i].at \in reserved
        /\ \A i, j \in 1..Len(rar) : rar[i].at = rar[j].at => i = j
    BY <2>1 DEF Shared
  <2>3. Heard(rar, session, Len(session))
    BY <1>7, <1>8
  <2> QED
    BY <2>2, <2>3 DEF Heard
<1>10. PICK msgs :
            msgs = [i \in 1..Len(rar) |-> Msg3At(rar[i].at[1], rar[i].ue, rar[i].at[2])]
  OBVIOUS
<1>11. /\ msgs \in Seq(Events) /\ Len(msgs) = Len(rar)
       /\ \A i \in 1..Len(rar) :
            /\ msgs[i].kind = "SendMessage3" /\ msgs[i].ue = rar[i].ue /\ rar[i].at \in Window
            /\ msgs[i].ts = msgs[i].tti /\ <<msgs[i].tti, msgs[i].rb>> = rar[i].at
            /\ msgs[i].ts \in (Now + 1)..(Now + D)
  <2>1. m_TTICounter \in Nat /\ m_TTICounter = Now /\ D = m_responseWindowDuration
    BY <1>0, <1>2
  <2>2. /\ msgs \in Seq(Events) /\ Len(msgs) = Len(rar)
        /\ \A i \in 1..Len(rar) :
             /\ msgs[i].kind = "SendMessage3" /\ msgs[i].ue = rar[i].ue /\ rar[i].at \in Window
             /\ msgs[i].ts = msgs[i].tti /\ <<msgs[i].tti, msgs[i].rb>> = rar[i].at
             /\ msgs[i].ts \in (m_TTICounter + 1)..(m_TTICounter + m_responseWindowDuration)
    BY <2>1, <1>10, Messages3Are
  <2> QED
    BY <2>1, <2>2
<1>12. PICK c : c = At(Now + 1, "CheckCollisions")
  OBVIOUS
<1>13. c \in Events /\ c.ts = Now + 1 /\ c.kind = "CheckCollisions"
  BY <1>2, <1>12, NewEvents
<1>14. PICK es : es = Append(msgs, c)
  OBVIOUS
<1>15. /\ es \in Seq(Events) /\ EventsIn(es) = EventsIn(msgs) \cup {c}
       /\ Len(es) = Len(rar) + 1 /\ Len(rar) \in Nat
       /\ \A i \in 1..Len(rar) : es[i] = msgs[i]
       /\ es[Len(rar) + 1] = c
  BY <1>11, <1>13, <1>14, ShortLists
<1>16. /\ m_savedRachSessions' = Erase(v)
       /\ m_RBsReservedForCCCH' = NotOld(m_RBsReservedForCCCH \cup reserved)
       /\ Done(es)
  BY <1>0, <1>5, <1>7, <1>8, <1>10, <1>12, <1>14 DEF CheckCollisions, CcchFrom
<1>17. \A e \in EventsIn(msgs) : \E i \in 1..Len(rar) : e = msgs[i]
  BY <1>11 DEF EventsIn
<1>18. \A i \in 1..Len(es) : i \in 1..Len(rar) \/ i = Len(rar) + 1
  BY <1>15
<1>19. \A e \in EventsIn(es) : /\ e.ts > Now
                               /\ e = c \/ e.kind = "SendMessage3"
  BY <1>2, <1>11, <1>13, <1>15, <1>17
<1>20. PICK stay :
        /\ Moves(m_events, m_events', stay, es)
        /\ EventsOf(m_events) = stay \cup {f}
        /\ \A X : Once(m_events, X) /\ f \in X => stay \cap X = {}
  <2>1. \A i \in 1..Len(es) : Now <= es[i].ts
    <3>1. ASSUME NEW i \in 1..Len(rar)
          PROVE  Now <= es[i].ts
      <4>1. PICK ts : ts = msgs[i].ts
        OBVIOUS
      <4>2. ts \in (Now + 1)..(Now + D)
        BY <1>11, <4>1
      <4>3. D \in Nat /\ Now <= ts
        BY <1>0, <1>2, <4>2, Values
      <4> QED
        BY <1>15, <4>1, <4>3
    <3>2. Now <= es[Len(rar) + 1].ts
      BY <1>2, <1>13, <1>15
    <3> QED
      BY <1>18, <3>1, <3>2
  <2> QED
    BY <1>0, <1>1, <1>15, <1>16, <2>1, CellServed
<1>21. /\ stay \subseteq EventsOf(m_events) /\ EventsOf(m_events') = stay \cup EventsIn(es)
       /\ EventsOf(m_events') \subseteq Events
  BY <1>20 DEF Moves
<1>22. CalendarRight(m_events', Now)
  <2>1. \A e \in EventsIn(es) : Now <= e.ts
    <3>1. \A e \in EventsIn(es) : e.ts \in Nat
      BY <1>21, EventFields
    <3> QED
      BY <1>2, <1>19, <3>1
  <2> QED
    BY <1>2, <1>20, <2>1, TimeGoesOn
<1>23. ClockRight(m_events', Now, m_TTICounter, granted)
  <2>1. \A e \in EventsOf(m_events) : Now <= e.ts /\ (e \in Clock => e \in stay)
    BY <1>2, <1>20, EventKinds
  <2>2. \A e \in EventsIn(es) : e \notin Clock /\ e.kind # "ResourceBlocksAllocation"
    BY <1>13, <1>19, <1>21, EventKinds
  <2> QED
    BY <1>2, <1>4, <1>20, <2>1, <2>2, ClockKeeps
<1>24. EarlyRight(m_events', m_TTICounter)
  <2>1. \A e \in EventsIn(es) : /\ e.kind # "StartSubframe"
                                /\ e.kind \in EarlyKinds => m_TTICounter < e.ts
    BY <1>2, <1>13, <1>19
  <2> QED
    BY <1>2, <1>4, <1>20, <2>1, EarlyKeeps
<1>25. DOMAIN Erase(v) = DOMAIN m_savedRachSessions \ {v}
       /\ (\A t \in DOMAIN Erase(v) : Erase(v)[t] \in Seq(Messages))
  BY ErasedIs
<1>26. \A t, i, ue : Saves(Erase(v), t, i, ue) <=> Saves(m_savedRachSessions, t, i, ue) /\ t # v
  BY ErasedIs
<1>27. RachRight(m_events', m_TTICounter, m_RBsReservedForRach, Erase(v))
  <2>1. \A e \in EventsOf(m_events) : e.kind = "SetRachReservedSubChannels" => e \in stay
    BY <1>2, <1>20
  <2>2. \A e \in EventsIn(es) : e.kind # "SetRachReservedSubChannels"
    BY <1>13, <1>19
  <2> QED
    BY <1>2, <1>4, <1>20, <1>25, <2>1, <2>2, RachKeeps
<1>28. CheckRight(m_events', m_TTICounter, Erase(v))
  <2>1. PICK X : X = OfKinds({"CheckCollisions"})
    OBVIOUS
  <2>2. \A e \in Events : e \in X <=> e.kind = "CheckCollisions"
    BY <2>1, EventKinds
  <2>3. stay \cap X = {} /\ Once(m_events, X)
    BY <1>2, <1>4, <1>20, <2>1, <2>2 DEF CheckRight
  <2>4. \A i, j \in 1..Len(es) : es[i] \in X /\ es[j] \in X => i = j
    <3>1. \A i \in 1..Len(rar) : es[i] \in Events /\ es[i] \notin X
      <4>1. \A i \in 1..Len(rar) : msgs[i] \in Events
        BY <1>11
      <4>2. \A i \in 1..Len(rar) : msgs[i].kind # "CheckCollisions"
        BY <1>11
      <4> QED
        BY <1>15, <2>2, <4>1, <4>2
    <3> QED
      BY <1>18, <3>1
  <2>5. Once(m_events', X)
    BY <1>20, <2>3, <2>4 DEF Moves
  <2>6. EventsOf(m_events') \cap X # {}
    BY <1>13, <1>15, <1>21, <2>2
  <2>7. \A e \in EventsOf(m_events') : e.kind = "CheckCollisions" => e = c
    BY <1>19, <1>21, <2>2, <2>3
  <2>8. \A t \in DOMAIN Erase(v) : c.ts <= t + m_responseWindowDelay
    <3> TAKE t \in DOMAIN Erase(v)
    <3>1. t \in DOMAIN m_savedRachSessions /\ t # v /\ t \in Nat
      BY <1>4, <1>25 DEF VariablesTyped
    <3>2. PICK delay \in Nat : delay = m_responseWindowDelay
      BY Values
    <3>3. Now <= t + delay
      BY <1>2, <1>4, <3>1, <3>2 DEF CheckRight
    <3>4. PICK now \in Nat : now = Now
      BY <1>2
    <3>5. v = now - delay
      BY <1>0, <1>2, <3>2, <3>4
    <3>6. \A m, n, d \in Nat : m # n - d /\ n <= m + d => n + 1 <= m + d
      OBVIOUS
    <3>7. t # now - delay /\ now <= t + delay
      BY <3>1, <3>3, <3>4, <3>5
    <3>8. now + 1 <= t + delay
      BY <3>1, <3>6, <3>7
    <3> QED
      BY <1>13, <3>2, <3>4, <3>8
  <2> QED
    BY <1>2, <1>13, <2>1, <2>5, <2>6, <2>7, <2>8 DEF CheckRight
<1>29. \A r \in reserved : /\ r \in FreeWindow /\ r[1] \in Nat /\ r[1] >= m_TTICounter
                           /\ r \in Resources
  <2> TAKE r \in reserved
  <2>1. r \in FreeWindow
    BY <1>9
  <2>2. PICK ts \in (m_TTICounter + 1)..(m_TTICounter + D), rb \in RBs : r = <<ts, rb>>
    BY <1>0, <2>1 DEF FreeWindow, Window
  <2>3. r[1] = ts /\ ts \in Nat /\ ts >= m_TTICounter
    BY <1>2, <2>2, Values
  <2> QED
    BY <2>1, <2>2, <2>3 DEF Resources
<1>30. Msg3Right(m_events', m_RBsReservedForCCCH')
  <2>1. ASSUME NEW e \in EventsOf(m_events'), e.kind = "SendMessage3"
        PROVE  \/ e \in EventsOf(m_events)
               \/ \E i \in 1..Len(rar) : e = msgs[i]
    BY <1>13, <1>15, <1>17, <1>21, <2>1
  <2>2. ASSUME NEW e \in EventsOf(m_events'), e.kind = "SendMessage3"
        PROVE  /\ e.ts = e.tti
               /\ <<e.tti, e.rb>> \in m_RBsReservedForCCCH'
               /\ ~(Opportunity(e.tti) /\ e.rb \in RachRBs)
    <3>1. CASE e \in EventsOf(m_events)
      <4>1. /\ e.ts = e.tti /\ <<e.tti, e.rb>> \in m_RBsReservedForCCCH
            /\ ~(Opportunity(e.tti) /\ e.rb \in RachRBs)
        BY <1>4, <2>2, <3>1 DEF Msg3Right
      <4>2. <<e.tti, e.rb>>[1] >= m_TTICounter
        BY <1>2, <3>1, <4>1
      <4> QED
        BY <1>16, <4>1, <4>2 DEF NotOld
    <3>2. CASE \E i \in 1..Len(rar) : e = msgs[i]
      <4>1. PICK i \in 1..Len(rar) : e = msgs[i]
        BY <3>2
      <4>2. PICK at : at = rar[i].at
        OBVIOUS
      <4>3. e.ts = e.tti /\ <<e.tti, e.rb>> = at /\ at \in reserved
        BY <1>9, <1>11, <4>1, <4>2
      <4>4. at \in m_RBsReservedForCCCH'
        BY <1>16, <1>29, <4>3 DEF NotOld
      <4>5. DOMAIN m_savedRachSessions # {}
        BY <1>6, <1>9 DEF Saves
      <4>6. ~(Opportunity(at[1]) /\ at[2] \in RachRBs)
        BY <1>1, <1>9, <4>3, <4>5, WindowKnown
      <4>7. at[1] = e.tti /\ at[2] = e.rb
        BY <4>3
      <4> QED
        BY <4>3, <4>4, <4>6, <4>7
    <3> QED
      BY <2>1, <2>2, <3>1, <3>2
  <2>3. ASSUME NEW e \in EventsOf(m_events), e.kind = "SendMessage3", NEW i \in 1..Len(rar)
        PROVE  <<e.tti, e.rb>> # <<msgs[i].tti, msgs[i].rb>>
    <3>1. <<e.tti, e.rb>> \in m_RBsReservedForCCCH
      BY <1>4, <2>3 DEF Msg3Right
    <3>2. rar[i].at \notin m_RBsReservedForCCCH
      BY <1>9 DEF FreeWindow
    <3> QED
      BY <1>11, <3>1, <3>2
  <2>4. ASSUME NEW e \in EventsOf(m_events'), NEW g \in EventsOf(m_events'),
               e.kind = "SendMessage3", g.kind = "SendMessage3", e.tti = g.tti, e.rb = g.rb
        PROVE  e = g
    <3>1. CASE e \in EventsOf(m_events) /\ g \in EventsOf(m_events)
      BY <1>4, <2>4, <3>1 DEF Msg3Right
    <3>2. ASSUME NEW i \in 1..Len(rar), NEW j \in 1..Len(rar), e = msgs[i], g = msgs[j]
          PROVE  e = g
      <4>1. rar[i].at = rar[j].at
        BY <1>11, <2>4, <3>2
      <4> QED
        BY <1>9, <3>2, <4>1
    <3>3. ASSUME NEW i \in 1..Len(rar), e \in EventsOf(m_events), g = msgs[i]
          PROVE  FALSE
      BY <2>3, <2>4, <3>3
    <3>4. ASSUME NEW i \in 1..Len(rar), g \in EventsOf(m_events), e = msgs[i]
          PROVE  FALSE
      BY <2>3, <2>4, <3>4
    <3>5. e \in EventsOf(m_events) \/ \E i \in 1..Len(rar) : e = msgs[i]
      BY <2>1, <2>4
    <3>6. g \in EventsOf(m_events) \/ \E i \in 1..Len(rar) : g = msgs[i]
      BY <2>1, <2>4
    <3> QED
      BY <3>1, <3>2, <3>3, <3>4, <3>5, <3>6
  <2> QED
    BY <2>2, <2>4 DEF Msg3Right
<1>31. CellRight(m_events', Now, m_TTICounter, granted, m_RBsReservedForRach,
                 m_RBsReservedForCCCH', Erase(v))
  BY <1>23, <1>24, <1>27, <1>28, <1>30 DEF CellRight
<1>32. ASSUME NEW ue \in UEs
       PROVE  UeRight(m_events', Now, Erase(v), ue, m_state[ue], m_RaProcedureActive[ue])
  <2>1. UeRight(m_events, m_currentTs, m_savedRachSessions, ue, m_state[ue],
                m_RaProcedureActive[ue])
    BY DEF IInv
  <2>2. CASE \A i : ~Saves(m_savedRachSessions, v, i, ue)
    <3>1. \A i \in 1..Len(rar) : rar[i].ue # ue
      BY <1>6, <1>9, <2>2
    <3>2. \A e \in EventsIn(es) : e.kind \notin UeKinds \/ e.ue # ue
      <4>1. \A e \in EventsIn(msgs) : e.ue # ue
        BY <1>11, <1>17, <3>1
      <4> QED
        BY <1>1, <1>13, <1>15, <4>1
    <3>3. \A e \in EventsOf(m_events) : e \in stay \/ e.kind \notin UeKinds \/ e.ue # ue
      BY <1>1, <1>2, <1>20
    <3>4. \A t, i : Saves(Erase(v), t, i, ue) <=> Saves(m_savedRachSessions, t, i, ue)
      BY <1>26, <2>2
    <3> QED
      BY <1>2, <1>20, <2>1, <3>2, <3>3, <3>4, OtherKept
  <2>3. CASE \E i : Saves(m_savedRachSessions, v, i, ue)
    <3>1. IsSaved(m_savedRachSessions, ue)
      BY <2>3 DEF IsSaved
    <3>2. /\ m_RaProcedureActive[ue] /\ EventsOf(m_events) \cap InFlight(ue) = {}
          /\ SavedOnce(m_savedRachSessions, ue)
      BY <2>1, <3>1 DEF UeRight
    <3>3. \A t, i : ~Saves(Erase(v), t, i, ue)
      BY <1>26, <2>3, <3>2 DEF SavedOnce
    <3>4. SavedOnce(Erase(v), ue) /\ ~IsSaved(Erase(v), ue)
      BY <3>3 DEF SavedOnce, IsSaved
    <3>5. EventsIn(es) \cap Watch(ue) = {} /\ EventsIn(es) \cap Idle(ue) = {}
      BY <1>13, <1>19, <1>21, EventKinds
    <3>6. EventsOf(m_events) \cap (Watch(ue) \cup Idle(ue)) \subseteq stay
      BY <1>2, <1>20, EventKinds
    <3>7. stay \cap InFlight(ue) = {}
      BY <1>21, <3>2
    <3>8. \A i, j \in 1..Len(es) : es[i] \in InFlight(ue) /\ es[j] \in InFlight(ue) => i = j
      <4>1. c \notin InFlight(ue)
        BY <1>13, EventKinds
      <4>2. \A i \in 1..Len(rar) : es[i] \in InFlight(ue) => rar[i].ue = ue
        <5>1. ASSUME NEW i \in 1..Len(rar), es[i] \in InFlight(ue)
              PROVE  rar[i].ue = ue
          <6>1. es[i] \in Events /\ es[i].ue = rar[i].ue
            BY <1>11, <1>15
          <6>2. es[i].ue = ue
            BY <5>1, <6>1, EventKinds
          <6> QED
            BY <6>1, <6>2
        <5> QED
          BY <5>1
      <4>3. \A i \in 1..Len(es) : es[i] \in InFlight(ue) => i \in 1..Len(rar) /\ rar[i].ue = ue
        BY <1>15, <1>18, <4>1, <4>2
      <4> QED
        BY <1>9, <4>3
    <3>9. ASSUME NEW r \in EventsOf(m_events) \cap Watch(ue)
          PROVE  OnTime(m_events', Erase(v), ue, r.ts - m_RAProcedureTimeout)
      <4>1. PICK since : since = r.ts - m_RAProcedureTimeout
        OBVIOUS
      <4>2. since \in Nat /\ OnTime(m_events, m_savedRachSessions, ue, since)
        BY <1>2, <2>1, <3>9, <4>1 DEF UeRight
      <4>3. v <= since + m_ripInt
        BY <2>3, <4>2 DEF OnTime
      <4>4. ASSUME NEW e \in EventsOf(m_events') \cap InFlight(ue)
            PROVE  /\ e.kind = "SendMessage3"
                   /\ e.ts <= since + m_ripInt + m_responseWindowDelay + m_responseWindowDuration
        <5>1. e \in EventsIn(es) /\ e # c
          BY <1>13, <1>21, <3>7, <4>4, EventKinds
        <5>2. e.kind = "SendMessage3"
          BY <1>19, <5>1
        <5>3. PICK i \in 1..Len(rar) : e = msgs[i]
          BY <1>15, <1>17, <5>1
        <5>4. e.ts \in (Now + 1)..(Now + D)
          BY <1>11, <5>3
        <5> QED
          BY <1>0, <1>2, <4>2, <4>3, <5>2, <5>4, Values
      <4>5. OnTime(m_events', Erase(v), ue, since)
        BY <3>3, <4>4 DEF OnTime
      <4> QED
        BY <4>1, <4>5
    <3> QED
      BY <1>2, <1>20, <2>1, <3>2, <3>4, <3>5, <3>6, <3>7, <3>8, <3>9, UeProceeds
  <2> QED
    BY <2>2, <2>3
<1>33. VariablesTyped'
  <2>1. m_RBsReservedForCCCH' \subseteq Resources
    BY <1>4, <1>16, <1>29 DEF NotOld, VariablesTyped
  <2>2. DOMAIN m_savedRachSessions' \subseteq Nat
        /\ \A t \in DOMAIN m_savedRachSessions' : m_savedRachSessions'[t] \in Seq(Messages)
    BY <1>4, <1>16, <1>25 DEF VariablesTyped
  <2> QED
    BY <1>2, <1>3, <1>4, <2>1, <2>2 DEF VariablesTyped, Resources
<1> QED
  BY <1>2, <1>3, <1>16, <1>22, <1>31, <1>32, <1>33 DEF IInv


-----------------------------------------------------------------------------
(***************************************************************************)
(* The theorems                                                            *)
(***************************************************************************)

LEMMA StutterRight == IInv /\ UNCHANGED vars => IInv'
<1> SUFFICES ASSUME IInv, UNCHANGED vars
             PROVE  IInv'
  OBVIOUS
<1>1. UNCHANGED <<m_type, m_events, m_currentTs, m_TTICounter, m_RBsReservedForRach,
                  m_RBsReservedForCCCH, m_savedRachSessions, m_state, m_RaProcedureActive,
                  m_nbFailedAttempts, granted, inputs>>
  BY DEF vars, gnb, ue_
<1>2. Messages' = Messages
  BY <1>1 DEF Messages, SelectedRar
<1>3. VariablesTyped'
  BY <1>1, <1>2 DEF IInv, VariablesTyped, Resources
<1>4. CalendarRight(m_events', m_currentTs')
  BY <1>1 DEF IInv
<1>5. CellRight(m_events', m_currentTs', m_TTICounter', granted', m_RBsReservedForRach',
                m_RBsReservedForCCCH', m_savedRachSessions')
  BY <1>1 DEF IInv
<1>6. \A ue \in UEs : UeRight(m_events', m_currentTs', m_savedRachSessions', ue,
                              m_state'[ue], m_RaProcedureActive'[ue])
  BY <1>1 DEF IInv
<1> QED
  BY <1>3, <1>4, <1>5, <1>6 DEF IInv

LEMMA StepRight == IInv /\ [Next]_vars => IInv'
<1> SUFFICES ASSUME IInv, [Next]_vars
             PROVE  IInv'
  OBVIOUS
<1>1. CASE StartRaProcedure
  BY <1>1, StartRight
<1>2. CASE SendMessage1Again
  BY <1>2, AgainRight
<1>3. CASE ReStartRaProcedure
  BY <1>3, ReStartRight
<1>4. CASE SendMessage3
  BY <1>4, Message3Right
<1>5. CASE SendMessage4
  BY <1>5, Message4Right
<1>6. CASE SetNodeState
  BY <1>6, TimerRight
<1>7. CASE SetRachReservedSubChannels
  BY <1>7, ReserveRight
<1>8. CASE CheckCollisions
  BY <1>8, CollisionsRight
<1>9. CASE ResourceBlocksAllocation
  BY <1>9, AllocateRight
<1>10. CASE StartSubframe
  BY <1>10, StartOfSubframeRight
<1>11. CASE StopSubframe
  BY <1>11, EndOfSubframeRight
<1>12. CASE \E ue \in UEs : PacketArrives(ue) \/ ApplicationStarts(ue)
  BY <1>12, InputRight
<1>13. CASE UNCHANGED vars
  BY <1>13, StutterRight
<1> QED
  BY <1>1, <1>2, <1>3, <1>4, <1>5, <1>6, <1>7, <1>8, <1>9, <1>10, <1>11, <1>12, <1>13 DEF Next

\* Whatever happens, the calendar holds the events the procedure counts on, each
\* at most once and in time: the frame clock, the two periodic events of the gNB
\* manager, and of every UE one timeout, one idle timer and one message.
THEOREM Invariant == Spec => []IInv
BY InitRight, StepRight, PTL DEF Spec

LEMMA TypedRight == IInv => TypeOK
<1> SUFFICES ASSUME IInv
             PROVE  TypeOK
  OBVIOUS
<1>1. VariablesTyped /\ EventsOf(m_events) \subseteq Events
  BY EventTypes DEF IInv, CalendarRight
<1>2. \A e \in EventsOf(m_events) :
        /\ e.ts \in Nat
        /\ e.kind \in UeKinds => e.ue \in UEs
        /\ e.kind = "SendMessage3" => e.tti \in Nat /\ e.rb \in RBs
  BY <1>1, EventFields
<1> QED
  BY <1>1, <1>2 DEF TypeOK, VariablesTyped, Messages, Resources

\* The variables keep their types: every reservation names an RB of the cell, every
\* event of a UE names one, and the failures counted stay below the limit.
THEOREM Typed == Spec => []TypeOK
BY Invariant, TypedRight, PTL

LEMMA ResourcesRight == IInv => ResourcesKept
<1> SUFFICES ASSUME IInv
             PROVE  ResourcesKept
  OBVIOUS
<1>1. /\ VariablesTyped
      /\ ClockRight(m_events, m_currentTs, m_TTICounter, granted)
      /\ CheckRight(m_events, m_TTICounter, m_savedRachSessions)
      /\ Msg3Right(m_events, m_RBsReservedForCCCH)
  BY DEF IInv, CellRight
<1>2. \A e \in Pending("SendMessage3") : e \in EventsOf(m_events) /\ e.kind = "SendMessage3"
  BY DEF Pending
<1>3. Msg3Exclusive
  <2>1. \A e, f \in Pending("SendMessage3") : e # f => ~(e.tti = f.tti /\ e.rb = f.rb)
    BY <1>1, <1>2 DEF Msg3Right
  <2>2. \A e, f \in Pending("SendMessage3") :
            e # f => <<e.tti, e.rb>> # <<f.tti, f.rb>>
    BY <2>1
  <2>3. \A e \in Pending("SendMessage3") : ~(Opportunity(e.tti) /\ e.rb \in RachRBs)
    BY <1>1, <1>2 DEF Msg3Right
  <2> QED
    BY <2>2, <2>3 DEF Msg3Exclusive, Opportunity
<1>4. ReservationHeld
  BY <1>1, <1>2 DEF Msg3Right, ReservationHeld
<1>5. Msg3InItsTTI
  <2> SUFFICES ASSUME NextIs("SendMessage3")
               PROVE  m_TTICounter = GetEvent(m_events).tti
    BY DEF Msg3InItsTTI
  <2>1. PICK f : f = GetEvent(m_events)
    OBVIOUS
  <2>2. f \in EventsOf(m_events) /\ f.kind = "SendMessage3" /\ m_TTICounter = f.ts
    BY <2>1, EarlyNext DEF NextIs, Now, EarlyKinds
  <2> QED
    BY <1>1, <2>1, <2>2 DEF Msg3Right
<1>6. NoPreambleForgotten
  <2>1. PICK c \in EventsOf(m_events) : c \in OfKinds({"CheckCollisions"})
    BY <1>1 DEF CheckRight
  <2>2. c \in Pending("CheckCollisions") /\ c.kind = "CheckCollisions"
    BY <2>1 DEF OfKinds, Pending
  <2> QED
    BY <1>1, <2>1, <2>2 DEF CheckRight, NoPreambleForgotten
<1>7. RachKeptClear
  BY <1>1 DEF ClockRight, RachKeptClear, Opportunity
<1> QED
  BY <1>3, <1>4, <1>5, <1>6, <1>7 DEF ResourcesKept, Msg3HasItsResource

\* What an attempt needs of the cell is kept for it: no two UEs send message 3 on
\* one RB of one TTI, nor any on a RACH opportunity; the reservation is there, and
\* the TTI the right one, when message 3 is sent; every preamble received is looked
\* at; and the uplink scheduler grants no RB of a RACH opportunity.
THEOREM ResourcesAreKept == Spec => []ResourcesKept
BY Invariant, ResourcesRight, PTL

\* A set of events that are pending at most once has at most one member.
LEMMA OnceCounted ==
    ASSUME NEW cal, NEW X, Once(cal, X), NEW S, S = EventsOf(cal) \cap X
    PROVE  /\ S = {} => Cardinality(S) = 0
           /\ S # {} => Cardinality(S) = 1
<1>1. CASE S = {}
  BY <1>1, FS_EmptySet
<1>2. CASE S # {}
  <2>1. PICK e : e \in S
    BY <1>2
  <2>2. S = {e}
    BY <2>1, OnceSame
  <2> QED
    BY <1>2, <2>2, FS_Singleton
<1> QED
  BY <1>1, <1>2

\* So has the set of the sessions that hold a message of a UE.
LEMMA SavedCounted ==
    ASSUME NEW ue, SavedOnce(m_savedRachSessions, ue)
    PROVE  /\ ~IsSaved(m_savedRachSessions, ue) => Cardinality(SavedOf(ue)) = 0
           /\ IsSaved(m_savedRachSessions, ue) => Cardinality(SavedOf(ue)) = 1
<1>1. \A t : t \in SavedOf(ue) <=> \E i : Saves(m_savedRachSessions, t, i, ue)
  BY DEF SavedOf, Saves
<1>2. CASE ~IsSaved(m_savedRachSessions, ue)
  <2>1. SavedOf(ue) = {}
    BY <1>1, <1>2 DEF IsSaved
  <2> QED
    BY <1>2, <2>1, FS_EmptySet
<1>3. CASE IsSaved(m_savedRachSessions, ue)
  <2>1. PICK t : t \in SavedOf(ue)
    BY <1>1, <1>3 DEF IsSaved
  <2>2. SavedOf(ue) = {t}
    BY <1>1, <2>1 DEF SavedOnce
  <2> QED
    BY <1>3, <2>2, FS_Singleton
<1> QED
  BY <1>2, <1>3

\* The events of a UE that are pending.
LEMMA PendingIs ==
    ASSUME IInv, NEW ue
    PROVE  /\ PendingOf({"ReStartRaProcedure"}, ue) = EventsOf(m_events) \cap Watch(ue)
           /\ PendingOf({"SendMessage1", "SendMessage3", "SendMessage4"}, ue)
                = EventsOf(m_events) \cap InFlight(ue)
<1>1. EventsOf(m_events) \subseteq Events
  BY EventTypes DEF IInv, CalendarRight
<1> QED
  BY <1>1 DEF PendingOf, Watch, InFlight, OfUe

LEMMA OnePlaceRight == IInv => AttemptWatched /\ OneMessagePending
<1> SUFFICES ASSUME IInv, NEW ue \in UEs
             PROVE  /\ m_RaProcedureActive[ue] =>
                        Cardinality(PendingOf({"ReStartRaProcedure"}, ue)) = 1
                    /\ Cardinality(SavedOf(ue))
                       + Cardinality(PendingOf({"SendMessage1", "SendMessage3",
                                                "SendMessage4"}, ue))
                        <= IF m_RaProcedureActive[ue] THEN 1 ELSE 0
  BY DEF AttemptWatched, OneMessagePending
<1>1. PICK watch, flying : /\ watch = PendingOf({"ReStartRaProcedure"}, ue)
                           /\ flying = PendingOf({"SendMessage1", "SendMessage3",
                                                  "SendMessage4"}, ue)
  OBVIOUS
<1>2. UeRight(m_events, m_currentTs, m_savedRachSessions, ue, m_state[ue],
              m_RaProcedureActive[ue])
  BY DEF IInv
<1>4. watch = EventsOf(m_events) \cap Watch(ue) /\ flying = EventsOf(m_events) \cap InFlight(ue)
  BY <1>1, PendingIs
<1>5. Once(m_events, Watch(ue)) /\ Once(m_events, InFlight(ue))
      /\ SavedOnce(m_savedRachSessions, ue)
  BY <1>2 DEF UeRight
<1>6. m_RaProcedureActive[ue] => Cardinality(watch) = 1
  BY <1>2, <1>4, <1>5, OnceCounted DEF UeRight
<1>7. /\ flying = {} => Cardinality(flying) = 0
      /\ flying # {} => Cardinality(flying) = 1
  BY <1>4, <1>5, OnceCounted
<1>8. /\ ~IsSaved(m_savedRachSessions, ue) => Cardinality(SavedOf(ue)) = 0
      /\ IsSaved(m_savedRachSessions, ue) => Cardinality(SavedOf(ue)) = 1
  BY <1>5, SavedCounted
<1>9. /\ IsSaved(m_savedRachSessions, ue) => flying = {}
      /\ ~m_RaProcedureActive[ue] => flying = {} /\ ~IsSaved(m_savedRachSessions, ue)
  BY <1>2, <1>4 DEF UeRight
<1>10. PICK n, k : n = Cardinality(SavedOf(ue)) /\ k = Cardinality(flying)
  OBVIOUS
<1>11. n \in {0, 1} /\ k \in {0, 1} /\ ~(n = 1 /\ k = 1)
       /\ (~m_RaProcedureActive[ue] => n = 0 /\ k = 0)
  BY <1>7, <1>8, <1>9, <1>10
<1>12. n + k <= IF m_RaProcedureActive[ue] THEN 1 ELSE 0
  BY <1>11
<1> QED
  BY <1>1, <1>6, <1>10, <1>12

LEMMA InTimeRight == IInv => AnswersInTime
<1> SUFFICES ASSUME IInv, NEW ue \in UEs, NEW r \in PendingOf({"ReStartRaProcedure"}, ue)
             PROVE  /\ r.ts \in m_currentTs..(m_currentTs + m_RAProcedureTimeout)
                    /\ \A e \in PendingOf({"SendMessage1", "SendMessage3", "SendMessage4"}, ue) :
                        e.ts < r.ts
                    /\ \A t \in SavedOf(ue) :
                        t + m_responseWindowDelay + m_responseWindowDuration + 1 < r.ts
  BY DEF AnswersInTime
<1>1. UeRight(m_events, m_currentTs, m_savedRachSessions, ue, m_state[ue],
              m_RaProcedureActive[ue])
  BY DEF IInv
<1>2. r \in EventsOf(m_events) \cap Watch(ue)
  BY PendingIs
<1>3. PICK since, timeout : since = r.ts - m_RAProcedureTimeout /\ timeout = m_RAProcedureTimeout
  OBVIOUS
<1>4. since \in 0..m_currentTs /\ OnTime(m_events, m_savedRachSessions, ue, since)
  BY <1>1, <1>2, <1>3 DEF UeRight
<1>5. m_currentTs \in Nat
      /\ \A e \in EventsOf(m_events) : e \in Events /\ e.ts \in Nat /\ m_currentTs <= e.ts
  BY EventTypes DEF IInv, CalendarRight, VariablesTyped
<1>6. /\ since \in Nat /\ r.ts = since + timeout /\ r.ts \in Nat /\ timeout \in Nat
      /\ timeout > m_ripInt + m_responseWindowDelay + m_responseWindowDuration + 1
  BY <1>2, <1>3, <1>4, <1>5, Values
<1>7. r.ts \in m_currentTs..(m_currentTs + m_RAProcedureTimeout)
  BY <1>2, <1>3, <1>4, <1>5, <1>6
<1>8. ASSUME NEW e \in PendingOf({"SendMessage1", "SendMessage3", "SendMessage4"}, ue)
      PROVE  e.ts < r.ts
  <2>1. e \in EventsOf(m_events) \cap InFlight(ue) /\ e \in Events /\ e.ts \in Nat
    BY <1>5, PendingIs
  <2>2. e.kind \in {"SendMessage1", "SendMessage3", "SendMessage4"} /\ e.ue = ue
    BY <2>1, EventKinds
  <2>3. e.kind = "SendMessage1" => e.ts <= since + m_ripInt
    BY <1>4, <1>6, <2>1, <2>2, MessageOneInTime
  <2>4. e.ts <= since + m_ripInt + m_responseWindowDelay + m_responseWindowDuration + 1
    BY <1>4, <1>6, <2>1, <2>2, <2>3, Values DEF OnTime
  <2> QED
    BY <1>6, <2>1, <2>4, Values
<1>9. ASSUME NEW t \in SavedOf(ue)
      PROVE  t + m_responseWindowDelay + m_responseWindowDuration + 1 < r.ts
  <2>1. \E i : Saves(m_savedRachSessions, t, i, ue)
    BY DEF SavedOf, Saves
  <2>2. t \in Nat
    BY DEF SavedOf, IInv, VariablesTyped
  <2>3. t <= since + m_ripInt
    BY <1>4, <2>1 DEF OnTime
  <2> QED
    BY <1>6, <2>2, <2>3, Values
<1> QED
  BY <1>7, <1>8, <1>9

\* An attempt is in one place, a message 1 to be repeated, a preamble the gNB keeps,
\* a message 3 or a message 4; exactly one timeout watches it, and comes after every
\* answer: no message of an attempt that timed out reaches the next one, although no
\* timeout is cancelled.
THEOREM Attempt == Spec => []AttemptInOnePlace
<1>1. IInv => AttemptInOnePlace
  BY OnePlaceRight, InTimeRight DEF AttemptInOnePlace
<1> QED
  BY <1>1, Invariant, PTL
=============================================================================
