---------------------------- MODULE PacketService ----------------------------
(***************************************************************************)
(* What a bearer in unacknowledged mode promises its application, without  *)
(* fragments, grants and bursts: packets are numbered in the order in      *)
(* which they are handed over, wait for an outcome, and are delivered or   *)
(* lost, once and for good.  A service that keeps the order delivers a     *)
(* packet only when every older one has had its outcome.                   *)
(***************************************************************************)
EXTENDS Naturals, Sequences

VARIABLES
    ordered,    \* packets are delivered in the order of their numbers
    accepted,   \* the number of packets handed over
    pending,    \* the packets that may still be delivered
    delivered   \* the packets delivered, in order

vars == <<ordered, accepted, pending, delivered>>

Init ==
    /\ ordered \in BOOLEAN
    /\ accepted = 0
    /\ pending = {}
    /\ delivered = <<>>

Accept ==
    /\ accepted' = accepted + 1
    /\ pending' = pending \cup {accepted'}
    /\ UNCHANGED <<ordered, delivered>>

\* Some pending packets have their outcome: those that are new in delivered, in this
\* order, and others, which are lost.
Settle ==
    LET new == SubSeq(delivered', Len(delivered) + 1, Len(delivered'))
    IN  /\ pending' \subseteq pending
        /\ new \in Seq(pending \ pending')
        /\ delivered' = delivered \o new
        /\ \A i, j \in 1..Len(new) : i # j => new[i] # new[j]
        /\ ordered => /\ \A i, j \in 1..Len(new) : i < j => new[i] < new[j]
                      /\ \A i \in 1..Len(new) : \A id \in pending' : new[i] < id
        /\ UNCHANGED <<ordered, accepted>>

Next == Accept \/ Settle

Spec == Init /\ [][Next]_vars
=============================================================================
