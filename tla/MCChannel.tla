----------------------------- MODULE MCChannel -----------------------------
(***************************************************************************)
(* What stands between a program and the gateway on the client's side, on  *)
(* small instances: the SOCKS front end with its counters, the record      *)
(* protocol of one connection, the log the monitor shows.  They share no   *)
(* state; a behaviour is of one of them, and the other two rest.           *)
(***************************************************************************)
EXTENDS Socks, Proto, LogRing

CONSTANTS t1, t2   \* tokens

VARIABLE part      \* front, record, log

MCTokens == {t1, t2}
ThreeUpOneDown == [c2s |-> 3, s2c |-> 1]

MCVars == <<part, vars, protoVars, ringVars>>

-----------------------------------------------------------------------------

\* The parts that rest are as at the start of some instance.
MCInit ==
    /\ part \in {"front", "record", "log"}
    /\ Init /\ ProtoInit /\ RingInit
    /\ part # "record" => token = t1 /\ tokens = {}
    /\ part # "log" => Len(lines) = 1

FrontNext == part = "front" /\ Next /\ UNCHANGED <<part, protoVars, ringVars>>
RecordNext == part = "record" /\ ProtoNext /\ UNCHANGED <<part, vars, ringVars>>
LogNext == part = "log" /\ RingNext /\ UNCHANGED <<part, vars, protoVars>>

MCNext == FrontNext \/ RecordNext \/ LogNext

\* Fairness of Socks, where it is the front end that moves.
MCFairness ==
    /\ \A c \in Conns :
        /\ WF_vars(part = "front" /\ Expires(c))
        /\ WF_vars(part = "front" /\ GoesOn(c))
        /\ SF_vars(part = "front" /\ Register(c))
    /\ WF_vars(part = "front" /\ Monitor)

MCFairSpec == MCInit /\ [][MCNext]_MCVars /\ MCFairness
=============================================================================
