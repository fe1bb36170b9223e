---------------------------- MODULE EventCalendar ----------------------------
(***************************************************************************)
(* The data structure behind the simulator's main loop                     *)
(* (core/eventScheduler/calendar.cpp): a std::map from the integer time    *)
(* stamp of an event, in milliseconds, to the FIFO queue of the events     *)
(* that bear this time stamp.  A calendar is a function whose domain is    *)
(* the set of keys of the map; a key whose queue became empty is erased.   *)
(*                                                                         *)
(* An event is any record with at least the fields ts (m_timeStamp) and    *)
(* uid (m_uid).                                                            *)
(***************************************************************************)
EXTENDS Integers, Sequences

\* Calendar::Calendar: a new map.
EmptyCalendar == [t \in {} |-> <<>>]

IsEmpty(cal) == DOMAIN cal = {}

\* The queue a time stamp is associated with; operator[] of the map makes an
\* empty one for a key it does not hold.
QueueAt(cal, t) == IF t \in DOMAIN cal THEN cal[t] ELSE <<>>

\* Mutant of FirstKey: the map is ordered the other way round.
FirstKey_Greatest(cal) == CHOOSE t \in DOMAIN cal : \A s \in DOMAIN cal : s <= t

\* begin(): the smallest key.
FirstKey(cal) == CHOOSE t \in DOMAIN cal : \A s \in DOMAIN cal : t <= s

\* Mutant of InsertEvent: the newest event of a millisecond is served first.
InsertEvent_AtFront(cal, e) ==
    [t \in DOMAIN cal \cup {e.ts} |->
        IF t = e.ts THEN <<e>> \o QueueAt(cal, t) ELSE cal[t]]

\* Mutant of InsertEvent: a new event goes right behind the one that runs.
InsertEvent_AsSecond(cal, e) ==
    [t \in DOMAIN cal \cup {e.ts} |->
        IF t # e.ts THEN cal[t]
        ELSE IF t \notin DOMAIN cal THEN <<e>>
        ELSE <<Head(cal[t]), e>> \o Tail(cal[t])]

InsertEvent(cal, e) ==
    [t \in DOMAIN cal \cup {e.ts} |->
        IF t = e.ts THEN Append(QueueAt(cal, t), e) ELSE cal[t]]

\* Several events of time stamp t, one after the other.
InsertEvents(cal, t, es) ==
    IF es = <<>> THEN cal
    ELSE [s \in DOMAIN cal \cup {t} |-> IF s = t THEN QueueAt(cal, t) \o es ELSE cal[s]]

\* The event a call of GetEvent returns, for a calendar that is not empty.
GetEvent(cal) == Head(cal[FirstKey(cal)])

\* Mutant of RemoveEvent: the key of an exhausted queue stays in the map.
RemoveEvent_KeepsKey(cal) == [cal EXCEPT ![FirstKey(cal)] = Tail(@)]

\* Mutant of RemoveEvent: the whole queue goes with its first event.
RemoveEvent_DropsQueue(cal) ==
    [t \in DOMAIN cal \ {FirstKey(cal)} |-> cal[t]]

\* Removes whatever event is first when it is called; the caller relies on
\* this being the event it got from GetEvent earlier.
RemoveEvent(cal) ==
    IF Tail(cal[FirstKey(cal)]) = <<>>
    THEN [t \in DOMAIN cal \ {FirstKey(cal)} |-> cal[t]]
    ELSE [cal EXCEPT ![FirstKey(cal)] = Tail(@)]

\* The list es scheduled, one event after the other.
InsertAll(cal, es) ==
    LET after[i \in 0..Len(es)] ==
            IF i = 0 THEN cal ELSE InsertEvent(after[i - 1], es[i])
    IN  after[Len(es)]

\* A queue without the events of the set dead, in the order it had.
Keep(kept, e, dead) == IF e \in dead THEN kept ELSE Append(kept, e)

Kept(queue, dead) ==
    LET kept[i \in 0..Len(queue)] ==
            IF i = 0 THEN <<>> ELSE Keep(kept[i - 1], queue[i], dead)
    IN  kept[Len(queue)]

\* MarkDeleted: the loop skips an event of the set dead when it comes to it, as
\* if it were not in the calendar.
WithoutEvents(cal, dead) ==
    [t \in {s \in DOMAIN cal : Kept(cal[s], dead) # <<>>} |-> Kept(cal[t], dead)]

\* The events in the calendar, in no order.
EventsOf(cal) == UNION {{cal[t][i] : i \in 1..Len(cal[t])} : t \in DOMAIN cal}
=============================================================================
