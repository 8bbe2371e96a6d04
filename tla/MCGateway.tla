----------------------------- MODULE MCGateway ------------------------------
(* Small instances of Gateway.                                             *)
EXTENDS Gateway, TLC

\* The same settings for every user.
Uniform(allowed, limit, pin) ==
    [tokens |-> Users, allowed |-> [u \in Users |-> allowed],
     limit |-> [u \in Users |-> limit], pin |-> pin]

AnIP == CHOOSE i \in IPs : TRUE

\* One configuration, never reloaded: the runs about the assembly of sessions.
OneConfig == {Uniform(IPs, 1, FALSE)}
TwoPlaces == {Uniform(IPs, 2, FALSE)}

\* What reload may bring: another limit together with the pin.
Reloads == {Uniform(Addrs, 1, FALSE), Uniform(Addrs, 2, TRUE)}

\* The client of every session dials from one address, or from any.
OneHome == [s \in SIDs |-> {AnIP}]
AnyHome == [s \in SIDs |-> IPs]

ConnSymmetry == Permutations(Conns)
=============================================================================
