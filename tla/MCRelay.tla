------------------------------- MODULE MCRelay -------------------------------
(* Small instances of Relay.                                               *)
EXTENDS Relay, TLC

\* The user sends more than the target, or both the same.
MoreUp == [g \in {"user", "target"} |-> IF g = "user" THEN 2 ELSE 1]
TwoEach == [g \in {"user", "target"} |-> 2]
=============================================================================
