------------------------------ MODULE SeatSpec ------------------------------
(***************************************************************************)
(* What sunfired promises about "clients", the number of machines that may *)
(* work under one token (README, the section on the limit of machines):    *)
(* machines are counted, not connections; a machine's place is free again  *)
(* as soon as its last connection is closed; a connection is turned away   *)
(* exactly when its machine is new and the places are all taken.           *)
(*                                                                         *)
(* The promise speaks of the connections that are really open.  Gateway    *)
(* keeps counters instead and implements this specification.               *)
(***************************************************************************)
EXTENDS Integers, FiniteSets

CONSTANTS Conns, Users, IPs, Limits

VARIABLES open,    \* the connections that occupy a place
          denied   \* the connections turned away because no place was left

vars == <<open, denied>>

\* A connection, and the limit that was in force when it was let in.
Holders == [conn : Conns, user : Users, ip : IPs, limit : Limits]

\* The machines at work under the token of user u.
Machines(u) == {o.ip : o \in {x \in open : x.user = u}}

Free(o) == o.ip \in Machines(o.user) \/ Cardinality(Machines(o.user)) < o.limit

Init == open = {} /\ denied = {}

Admit(o) ==
    /\ Free(o)
    /\ open' = open \cup {o}
    /\ UNCHANGED denied

Deny(o) ==
    /\ ~Free(o)
    /\ denied' = denied \cup {o}
    /\ UNCHANGED open

Leave(o) ==
    /\ open' = open \ {o}
    /\ UNCHANGED denied

Next == \E o \in Holders : Admit(o) \/ Deny(o) \/ Leave(o)

Spec == Init /\ [][Next]_vars
=============================================================================
