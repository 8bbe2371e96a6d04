------------------------------- MODULE MCHost -------------------------------
(* Small instances of the files of a host.                                  *)
EXTENDS Host

CONSTANTS
    n1, n2,              \* names of users or servers
    a1, a2,              \* addresses
    p1, p2               \* processes that update

MCNames == {n1, n2}
MCIPs == {a1, a2}
MCUpdaters == {p1, p2}
MCReleases == <<<<1, 0>>, <<1, 0, 1>>, <<1, 1>>>>

(* What the files may hold at first.  An older file may have a short key as *)
(* long as udp is off; another does not load.                               *)

User(n, t, on, ips) == [name |-> n, token |-> t, on |-> on, clients |-> 1, ips |-> ips]
Two == <<User(n1, 1, TRUE, {a1}), User(n2, 2, FALSE, {})>>
Server(key) == [listen |-> {"tcp"}, key |-> key, loopback |-> TRUE,
                pin |-> FALSE, users |-> Two]
MCServerFiles == {NoConfig, Server(1), [Server(0) EXCEPT !.listen = {"udp"}]}

Gw(n, key) == [name |-> n, gw |-> TRUE, token |-> "long", key |-> key]
Client(servers) == [servers |-> servers, transport |-> "auto", streams |-> 1,
                    loopback |-> TRUE]
MCClientFiles == {NoConfig, Client(<<Gw(n1, "long"), Gw(n2, "none")>>),
                Client(<<Gw(n1, "short")>>)}
MCClientEnvs == {NoConfig, Client(<<Gw(n1, "none")>>)}

=============================================================================
