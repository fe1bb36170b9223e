------------------------------ MODULE EventOrder ------------------------------
(***************************************************************************)
(* What the event scheduler promises, without its calendar: a set of       *)
(* pending events, each served at most once, and always the least one in   *)
(* the order of event_compare (core/eventScheduler/event.h): by time       *)
(* stamp, and by uid among the events of one millisecond.  Time never runs *)
(* backwards and an event withdrawn before its turn is passed over.        *)
(***************************************************************************)
EXTENDS Integers

VARIABLES
    pending,    \* the events still to be served
    withdrawn,  \* the uids of the events marked deleted
    current,    \* the event served last
    clock,      \* the simulated time, in milliseconds
    nextUid,    \* uids are given in the order of submission
    halted,     \* Stop was called
    mode        \* "setup", "loop", "handler" or "skip", "done"

vars == <<pending, withdrawn, current, clock, nextUid, halted, mode>>

Event == [ts : Nat, uid : Int]

\* event_compare, read as "e is served before f".
Before(e, f) == \/ e.ts < f.ts
                \/ e.ts = f.ts /\ e.uid < f.uid

Init ==
    /\ pending = {}
    /\ withdrawn = {}
    /\ current = [ts |-> 0, uid |-> -1]
    /\ clock = 0
    /\ nextUid = 0
    /\ halted = FALSE
    /\ mode = "setup"

\* The scenario, before the loop starts, or a running handler asks for an
\* event now or later.  The new event is named through pending' so that the
\* time stamp needs no bound.
Submit ==
    /\ mode \in {"setup", "handler"}
    /\ \E e \in pending' :
        /\ e \in Event
        /\ e.uid = nextUid
        /\ e.ts >= clock
        /\ pending' = pending \cup {e}
    /\ nextUid' = nextUid + 1
    /\ UNCHANGED <<withdrawn, current, clock, halted, mode>>

Withdraw ==
    /\ mode = "handler"
    /\ \E u \in 0..(nextUid - 1) : withdrawn' = withdrawn \cup {u}
    /\ UNCHANGED <<pending, current, clock, nextUid, halted, mode>>

Halt ==
    /\ mode = "handler"
    /\ halted' = TRUE
    /\ UNCHANGED <<pending, withdrawn, current, clock, nextUid, mode>>

Open ==
    /\ mode = "setup"
    /\ mode' = "loop"
    /\ UNCHANGED <<pending, withdrawn, current, clock, nextUid, halted>>

\* The least pending event is served; a withdrawn one only moves the clock.
Serve ==
    /\ mode = "loop"
    /\ ~halted
    /\ \E e \in pending :
        /\ \A f \in pending \ {e} : Before(e, f)
        /\ pending' = pending \ {e}
        /\ current' = e
        /\ clock' = e.ts
        /\ mode' = IF e.uid \in withdrawn THEN "skip" ELSE "handler"
    /\ UNCHANGED <<withdrawn, nextUid, halted>>

Finish ==
    /\ mode \in {"handler", "skip"}
    /\ mode' = "loop"
    /\ UNCHANGED <<pending, withdrawn, current, clock, nextUid, halted>>

Close ==
    /\ mode = "loop"
    /\ pending = {} \/ halted
    /\ mode' = "done"
    /\ UNCHANGED <<pending, withdrawn, current, clock, nextUid, halted>>

Next == Submit \/ Withdraw \/ Halt \/ Open \/ Serve \/ Finish \/ Close

Spec == Init /\ [][Next]_vars
=============================================================================
