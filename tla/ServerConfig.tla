---------------------------- MODULE ServerConfig ----------------------------
(***************************************************************************)
(* The settings of the gateway (internal/config) and the check the menu    *)
(* makes before it saves them.  An address is on or off, a key is missing, *)
(* short or long; the rest of a value does not matter here.                *)
(***************************************************************************)
EXTENDS Integers, Sequences, FiniteSetsExt

CONSTANTS Names, NoName,  \* names of users; the empty name
          IPs             \* addresses of clients

Kinds == {"tcp", "udp"}
NoKey == 0
ShortKey == 1             \* keys from 2 on have the length they should
BadToken == 0             \* an empty or short token

\* An entry of "users"; ips is empty when the user may come from anywhere.
Entries == [name : Names \cup {NoName}, token : Nat, on : BOOLEAN,
            clients : Int, ips : SUBSET IPs]

Configs == [listen : SUBSET Kinds, key : Nat, loopback : BOOLEAN,
            pin : BOOLEAN, users : Seq(Entries)]

Enabled(c) == {i \in DOMAIN c.users : c.users[i].on}

\* normalize: what Load accepts.  (It also trims, and fills in a missing
\* status address, which makes loopback TRUE.)
GoodUsers(us) ==
    /\ \A i \in DOMAIN us :
        us[i].name # NoName /\ us[i].token # BadToken /\ us[i].clients >= 0
    /\ \A i, j \in DOMAIN us : us[i].token = us[j].token => i = j

Normal(c) ==
    /\ c.listen # {}
    /\ "udp" \in c.listen => c.key > ShortKey
    /\ c.loopback
    /\ GoodUsers(c.users)
    /\ Enabled(c) # {}

\* checkServer: what the menu saves without a further question.
Checked(c) ==
    /\ c.listen # {}
    /\ ~ ("udp" \in c.listen /\ c.key = NoKey)
    /\ Enabled(c) # {}

-----------------------------------------------------------------------------
(* What the gateway asks of its settings, by the name of a user.            *)

Tokens(c) == {<<c.users[i].token, c.users[i].name>> : i \in Enabled(c)}

\* The first entry of that name, disabled or not: the loops of Allowed, Limit.
Named(c, user) == {i \in DOMAIN c.users : c.users[i].name = user}
First(c, user) == c.users[Min(Named(c, user))]

Allowed(c, user, ip) ==
    /\ Named(c, user) # {}
    /\ First(c, user).ips = {} \/ ip \in First(c, user).ips

Limit(c, user) == IF Named(c, user) = {} THEN 0 ELSE First(c, user).clients
=============================================================================
