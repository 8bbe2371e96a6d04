------------------------------ MODULE Gateway -------------------------------
(***************************************************************************)
(* sunfired, from an accepted connection to the end of its session:        *)
(* cmd/sunfired/main.go (serve, handle, live/reload, pinned, clients,      *)
(* sessions).  Every connection is served by a goroutine of its own; the   *)
(* goroutines meet in four mutex-protected tables: the live config, the    *)
(* pins, the seats (how many connections each machine has under a token)   *)
(* and the striped sessions that are still waiting for connections.        *)
(*                                                                         *)
(* One action is one critical section of a handler, with the local work    *)
(* that leads to it.  A pending session is named by the connection whose   *)
(* handler created it (sessions.at): the fields user, ip and limit of the  *)
(* Go struct are that connection's, and the pointer comparison in drop is  *)
(* a comparison of names.                                                  *)
(***************************************************************************)
EXTENDS Integers, FiniteSets

CONSTANTS
    Conns,      \* the connections that may arrive
    Users,      \* user names; a token is represented by its user
    IPs,        \* addresses of client machines
    NoHost,     \* a remote address net.ParseIP rejects (remoteIP returns nil)
    SIDs,       \* ids of striped sessions
    MaxStripe,  \* maxStripe
    Configs,    \* the configurations the file may hold
    Home,       \* Home[s]: the addresses the client of session s dials from
    None

Addrs == IPs \cup {NoHost}

Idx == 0 .. MaxStripe - 1

\* stripe.ParseHead: a start announces n >= 1 connections, a join carries an
\* index >= 1; neither is bounded above by the parser.  MaxStripe + 1 stands
\* for every value beyond the bound.
Heads ==
    [kind : {"plain", "bad"}, sid : {None}, arg : {0}]
        \cup [kind : {"start", "join"}, sid : SIDs, arg : 1 .. MaxStripe + 1]

Config == [tokens : SUBSET Users, allowed : [Users -> SUBSET Addrs],
           limit : [Users -> Nat], pin : BOOLEAN]

Limits == {g.limit[u] : g \in Configs, u \in Users}

Peer == [user : Users, ip : Addrs, limit : Nat, pin : BOOLEAN, head : Heads]

ASSUME ConstantsAssumption ==
    /\ IsFiniteSet(Conns) /\ IsFiniteSet(IPs)
    /\ MaxStripe \in Nat \ {0}
    /\ Configs \subseteq Config /\ Configs # {}
    /\ Home \in [SIDs -> SUBSET Addrs]
    /\ None \notin Conns \cup SIDs \cup Addrs \cup Configs \cup Peer
    /\ NoHost \notin IPs

\* One client dials all the connections of a session from one address.
SingleHomed == \A s \in SIDs : \A i, j \in Home[s] : i = j

\* No configuration lifts the limit (0 stands for "no limit").
LimitsPositive == \A l \in Limits : l > 0

VARIABLES
    cfg,     \* cur: the live configuration
    pc,      \* how far each handler has come
    snap,    \* the configuration serve handed to the handler
    who,     \* what the handler knows of its peer
    pins,    \* pinned.ip
    seats,   \* clients.m; an absent key is 0
    sess,    \* sessions.m
    size,    \* pending.n
    slot,    \* pending.conns
    got,     \* pending.got
    timer,   \* pending.timer
    leader   \* the handler that completed the session and serves it

tables == <<sess, size, slot, got, timer, leader>>
vars == <<cfg, pc, snap, who, pins, seats, tables>>

\* "kept": the handler has returned and the connection is in slot (keep = true).
\* "leaving": the deferred release is still due.
PCs == {"new", "accepted", "refused", "admitted", "denied", "seated",
        "serving", "kept", "leading", "ending", "leaving", "closed"}

\* armed: running; fired: the callback waits for the mutex; dropping: drop has
\* removed the session and returns its seats.
Timers == {"none", "armed", "fired", "stopped", "dropping"}

TypeOK ==
    /\ cfg \in Configs
    /\ pc \in [Conns -> PCs]
    /\ snap \in [Conns -> Configs \cup {None}]
    /\ who \in [Conns -> Peer \cup {None}]
    /\ pins \in [Users -> IPs \cup {None}]
    /\ seats \in [Users -> [IPs -> Nat]]
    /\ sess \in [SIDs -> Conns \cup {None}]
    /\ size \in [Conns -> 0 .. MaxStripe]
    /\ slot \in [Conns -> [Idx -> Conns \cup {None}]]
    /\ got \in [Conns -> Nat]
    /\ timer \in [Conns -> Timers]
    /\ leader \in [Conns -> Conns \cup {None}]

Init ==
    /\ cfg \in Configs
    /\ pc = [c \in Conns |-> "new"]
    /\ snap = [c \in Conns |-> None]
    /\ who = [c \in Conns |-> None]
    /\ pins = [u \in Users |-> None]
    /\ seats = [u \in Users |-> [i \in IPs |-> 0]]
    /\ sess = [s \in SIDs |-> None]
    /\ size = [c \in Conns |-> 0]
    /\ slot = [c \in Conns |-> [i \in Idx |-> None]]
    /\ got = [c \in Conns |-> 0]
    /\ timer = [c \in Conns |-> "none"]
    /\ leader = [c \in Conns |-> None]

-----------------------------------------------------------------------------
(* The live configuration and the way in.                                  *)

\* reload: a file that does not load leaves cur as it was.
Reload ==
    /\ cfg' \in Configs
    /\ UNCHANGED <<pc, snap, who, pins, seats, tables>>

\* serve: the handler works from the snapshot taken here.
Accept(c) ==
    /\ pc[c] = "new"
    /\ pc' = [pc EXCEPT ![c] = "accepted"]
    /\ snap' = [snap EXCEPT ![c] = cfg]
    /\ UNCHANGED <<cfg, who, pins, seats, tables>>

\* proto.Accept fails: no token fits, a damaged frame, handshakeTimeout.
HandshakeFail(c) ==
    /\ pc[c] = "accepted"
    /\ pc' = [pc EXCEPT ![c] = "refused"]
    /\ snap' = [snap EXCEPT ![c] = None]
    /\ UNCHANGED <<cfg, who, pins, seats, tables>>

\* Mutant: an address the server cannot read passes the pin.
PinFitsUnknown(u, i) == i = NoHost \/ pins[u] \in {None, i}

\* pinned.check
PinFits(u, i) == i # NoHost /\ pins[u] \in {None, i}

\* The rest of handle up to seats.acquire: proto.Accept finds the user, then
\* Allowed and the pin are checked, then the limit is read.
Handshake(c, u, i, h) ==
    /\ pc[c] = "accepted"
    /\ u \in snap[c].tokens
    /\ h.sid # None => i \in Home[h.sid]
    /\ snap' = [snap EXCEPT ![c] = None]
    /\ who' = [who EXCEPT ![c] = [user |-> u, ip |-> i, head |-> h,
                limit |-> snap[c].limit[u], pin |-> snap[c].pin]]
    /\ \/ /\ i \in snap[c].allowed[u]
          /\ snap[c].pin => PinFits(u, i)
          /\ pc' = [pc EXCEPT ![c] = "admitted"]
          /\ pins' = IF snap[c].pin THEN [pins EXCEPT ![u] = i] ELSE pins
       \/ /\ \/ i \notin snap[c].allowed[u]
             \/ snap[c].pin /\ ~PinFits(u, i)
          /\ pc' = [pc EXCEPT ![c] = "refused"]
          /\ UNCHANGED pins
    /\ UNCHANGED <<cfg, seats, tables>>

-----------------------------------------------------------------------------
(* Seats: clients.acquire and clients.release.                             *)

Counted(c) == who[c].limit > 0 /\ who[c].ip # NoHost

Machines(u) == {i \in IPs : seats[u][i] > 0}

\* Mutant of HasSeat: the limit counts connections, not machines.
HasSeatPerConn(u, i, l) == Cardinality(Machines(u)) < l

HasSeat(u, i, l) == seats[u][i] > 0 \/ Cardinality(Machines(u)) < l

Acquire(c) ==
    /\ pc[c] = "admitted"
    /\ LET w == who[c] IN
       \/ /\ ~Counted(c)
          /\ pc' = [pc EXCEPT ![c] = "seated"]
          /\ UNCHANGED seats
       \/ /\ Counted(c) /\ HasSeat(w.user, w.ip, w.limit)
          /\ pc' = [pc EXCEPT ![c] = "seated"]
          /\ seats' = [seats EXCEPT ![w.user][w.ip] = @ + 1]
       \/ /\ Counted(c) /\ ~HasSeat(w.user, w.ip, w.limit)
          /\ pc' = [pc EXCEPT ![c] = "denied"]
          /\ UNCHANGED seats
    /\ UNCHANGED <<cfg, snap, who, pins, tables>>

\* release with the user, address and limit the handler of c works with.
Release(c) ==
    IF Counted(c) /\ seats[who[c].user][who[c].ip] > 0
    THEN seats' = [seats EXCEPT ![who[c].user][who[c].ip] = @ - 1]
    ELSE UNCHANGED seats

-----------------------------------------------------------------------------
(* Striped sessions: sessions.at, start, join, ready, drop.                *)

Sid(c) == who[c].head.sid
Arg(c) == who[c].head.arg

\* at: the pending session of c's sid; a new one is named by c itself.
At(c) == IF sess[Sid(c)] = None THEN c ELSE sess[Sid(c)]

\* Mutant: whoever knows the sid may join.
AnyUser(c) == TRUE

SameUser(c) == who[At(c)].user = who[c].user

\* Mutants of CanStart: the announced number is not bounded; connections that
\* came early with an index beyond the announced number are not looked for.
CanStartUnbounded(c) == SameUser(c) /\ size[At(c)] = 0 /\ slot[At(c)][0] = None
CanStartUnseen(c) == Arg(c) <= MaxStripe /\ CanStartUnbounded(c)

CanStart(c) ==
    /\ Arg(c) <= MaxStripe
    /\ SameUser(c)
    /\ size[At(c)] = 0
    /\ slot[At(c)][0] = None
    /\ \A i \in Idx : i >= Arg(c) => slot[At(c)][i] = None

CanJoin(c) ==
    /\ Arg(c) < MaxStripe
    /\ SameUser(c)
    /\ slot[At(c)][Arg(c)] = None
    /\ size[At(c)] # 0 => Arg(c) < size[At(c)]

\* ready: all the announced connections are here.
Ready(n, g) == n # 0 /\ g >= n

\* Stop does not recall a callback that has already started.
Stop(t) == IF t = "fired" THEN "fired" ELSE "stopped"

\* Mutant of Place: the timeout of a new session is not set.
PlaceUntimed(c, i, n) ==
    LET k == At(c)
        whole == Ready(n, got[k] + 1)
    IN
    /\ slot' = [slot EXCEPT ![k][i] = c]
    /\ size' = [size EXCEPT ![k] = n]
    /\ got' = [got EXCEPT ![k] = @ + 1]
    /\ sess' = [sess EXCEPT ![Sid(c)] = IF whole THEN None ELSE k]
    /\ leader' = IF whole THEN [leader EXCEPT ![k] = c] ELSE leader
    /\ pc' = [pc EXCEPT ![c] = IF whole THEN "leading" ELSE "kept"]
    /\ UNCHANGED <<cfg, snap, who, pins, seats, timer>>

\* The end of start and of join: c takes slot i of its session, whose size is
\* n from now on; the handler that completes the session serves it.
Place(c, i, n) ==
    LET k == At(c) IN
    /\ slot' = [slot EXCEPT ![k][i] = c]
    /\ size' = [size EXCEPT ![k] = n]
    /\ got' = [got EXCEPT ![k] = @ + 1]
    /\ \/ /\ Ready(n, got[k] + 1)
          /\ sess' = [sess EXCEPT ![Sid(c)] = None]
          /\ timer' = [timer EXCEPT ![k] = Stop(timer[k])]
          /\ leader' = [leader EXCEPT ![k] = c]
          /\ pc' = [pc EXCEPT ![c] = "leading"]
       \/ /\ ~Ready(n, got[k] + 1)
          /\ sess' = [sess EXCEPT ![Sid(c)] = k]
          /\ timer' = IF k = c THEN [timer EXCEPT ![k] = "armed"] ELSE timer
          /\ pc' = [pc EXCEPT ![c] = "kept"]
          /\ UNCHANGED leader
    /\ UNCHANGED <<cfg, snap, who, pins, seats>>

Start(c) ==
    /\ pc[c] = "seated" /\ who[c].head.kind = "start"
    /\ CanStart(c)
    /\ Place(c, 0, Arg(c))

Join(c) ==
    /\ pc[c] = "seated" /\ who[c].head.kind = "join"
    /\ CanJoin(c)
    /\ Place(c, Arg(c), size[At(c)])

\* handle returns without keep: a bad head, too many connections, a session
\* of somebody else, a slot that is taken or out of range.
Reject(c) ==
    /\ pc[c] = "seated"
    /\ \/ who[c].head.kind = "bad"
       \/ who[c].head.kind = "start" /\ ~CanStart(c)
       \/ who[c].head.kind = "join" /\ ~CanJoin(c)
    /\ pc' = [pc EXCEPT ![c] = "leaving"]
    /\ UNCHANGED <<cfg, snap, who, pins, seats, tables>>

TimerFires(k) ==
    /\ timer[k] = "armed"
    /\ timer' = [timer EXCEPT ![k] = "fired"]
    /\ UNCHANGED <<cfg, pc, snap, who, pins, seats, sess, size, slot, got, leader>>

\* Mutant: drop does not ask whether the session is still in the map.
DropUnasked(k) ==
    /\ timer[k] = "fired"
    /\ timer' = [timer EXCEPT ![k] = "dropping"]
    /\ sess' = [sess EXCEPT ![Sid(k)] = None]
    /\ UNCHANGED <<cfg, pc, snap, who, pins, seats, size, slot, got, leader>>

Drop(k) ==
    /\ timer[k] = "fired"
    /\ \/ /\ sess[Sid(k)] # k
          /\ timer' = [timer EXCEPT ![k] = "stopped"]
          /\ UNCHANGED sess
       \/ /\ sess[Sid(k)] = k
          /\ timer' = [timer EXCEPT ![k] = "dropping"]
          /\ sess' = [sess EXCEPT ![Sid(k)] = None]
    /\ UNCHANGED <<cfg, pc, snap, who, pins, seats, size, slot, got, leader>>

Members(k) == {slot[k][i] : i \in Idx} \ {None}

\* Mutant: drop closes the connections and keeps their seats.
DropKeepsSeats(k, c) ==
    /\ timer[k] = "dropping"
    /\ c \in Members(k) /\ pc[c] = "kept"
    /\ pc' = [pc EXCEPT ![c] = "closed"]
    /\ UNCHANGED <<cfg, snap, who, pins, seats, tables>>

\* The last loop of drop, one seat at a time: p.user, p.ip and p.limit are
\* those of the connection that created the session.
DropRelease(k, c) ==
    /\ timer[k] = "dropping"
    /\ c \in Members(k) /\ pc[c] = "kept"
    /\ Release(k)
    /\ pc' = [pc EXCEPT ![c] = "closed"]
    /\ UNCHANGED <<cfg, snap, who, pins, tables>>

-----------------------------------------------------------------------------
(* Serving and the way out.                                                *)

\* serveOne for a plain connection.
Serve(c) ==
    /\ pc[c] = "seated" /\ who[c].head.kind = "plain"
    /\ pc' = [pc EXCEPT ![c] = "serving"]
    /\ UNCHANGED <<cfg, snap, who, pins, seats, tables>>

\* serveOne or serveStripe returns.
Finish(c) ==
    /\ \/ pc[c] = "serving" /\ pc' = [pc EXCEPT ![c] = "leaving"]
       \/ pc[c] = "leading" /\ pc' = [pc EXCEPT ![c] = "ending"]
    /\ UNCHANGED <<cfg, snap, who, pins, seats, tables>>

\* The deferred release of a connection that was not kept.
Leave(c) ==
    /\ pc[c] = "leaving"
    /\ Release(c)
    /\ pc' = [pc EXCEPT ![c] = "closed"]
    /\ UNCHANGED <<cfg, snap, who, pins, tables>>

\* Mutant: the loop leaves out the connection of the handler itself.
StripeReleaseOthers(k, c) ==
    /\ leader[k] # None /\ pc[leader[k]] = "ending"
    /\ c \in Members(k) /\ pc[c] = "kept"
    /\ Release(leader[k])
    /\ pc' = [pc EXCEPT ![c] = "closed"]
    /\ UNCHANGED <<cfg, snap, who, pins, tables>>

\* "for range conns": the handler that served session k returns one seat for
\* every connection, each time with its own user, address and limit.
StripeRelease(k, c) ==
    /\ leader[k] # None /\ pc[leader[k]] = "ending"
    /\ c \in Members(k)
    /\ \/ pc[c] = "kept"
       \/ c = leader[k] /\ \A d \in Members(k) \ {c} : pc[d] = "closed"
    /\ Release(leader[k])
    /\ pc' = [pc EXCEPT ![c] = "closed"]
    /\ UNCHANGED <<cfg, snap, who, pins, tables>>

HandlerStep(c) ==
    \/ HandshakeFail(c)
    \/ \E u \in Users, i \in Addrs, h \in Heads : Handshake(c, u, i, h)
    \/ Acquire(c) \/ Serve(c) \/ Start(c) \/ Join(c) \/ Reject(c) \/ Leave(c)

SessionStep(k) ==
    \/ Drop(k)
    \/ \E c \in Conns : DropRelease(k, c) \/ StripeRelease(k, c)

Next ==
    \/ Reload
    \/ \E c \in Conns : Accept(c) \/ HandlerStep(c) \/ Finish(c)
    \/ \E k \in Conns : TimerFires(k) \/ SessionStep(k)

\* A started goroutine runs; proto.Accept ends by handshakeTimeout; a timer
\* fires after sessionTimeout.  Nobody has to connect, end a session or
\* reload.
Fairness ==
    /\ \A c \in Conns : WF_vars(HandlerStep(c))
    /\ \A k \in Conns : WF_vars(TimerFires(k)) /\ WF_vars(SessionStep(k))

Spec == Init /\ [][Next]_vars
FairSpec == Spec /\ Fairness

-----------------------------------------------------------------------------
(* Properties.                                                             *)

\* The connections that occupy a place: admitted by acquire, not yet released.
Holding == {c \in Conns : pc[c] \in {"seated", "serving", "kept", "leading",
                                     "ending", "leaving"} /\ Counted(c)}

HoldersOf(u, i) == {c \in Holding : who[c].user = u /\ who[c].ip = i}

\* The counters are exact: at every moment, and while seats are returned one
\* by one, clients.m[u][i] is the number of connections of machine i that
\* still occupy a place under u's token.  Violated by a lost or a doubled
\* release, on any path out of handle, drop or serveStripe.
SeatsExact == \A u \in Users, i \in IPs : seats[u][i] = Cardinality(HoldersOf(u, i))

\* "A place is freed when the last connection from that address has closed"
\* (README; clients.release).  Weaker than SeatsExact: it waits until every
\* connection is closed and every seat has been returned that ever will be.
PlaceFreed ==
    (\A c \in Conns : pc[c] \in {"new", "accepted", "refused", "denied", "closed"})
        => \A u \in Users, i \in IPs : seats[u][i] = 0

\* A session is served only when every announced slot holds a connection and
\* no connection was taken in beyond the announced size (start, join, ready):
\* got, a mere counter, is what ready looks at.
ServedWhole == \A k \in Conns : leader[k] # None =>
    \A i \in Idx : (slot[k][i] # None) <=> (i < size[k])

\* A kept connection belongs to exactly one session, and that session is in
\* the map with a timer that will still act, is being served by a handler, or
\* is being dropped: no connection is left open with nobody to close it.
NoOrphan == \A c \in Conns : pc[c] = "kept" =>
    \E k \in Conns :
        /\ c \in Members(k)
        /\ \A j \in Conns \ {k} : c \notin Members(j)
        /\ \/ sess[Sid(k)] = k /\ timer[k] \in {"armed", "fired"}
           \/ leader[k] # None /\ pc[leader[k]] \in {"leading", "ending"}
           \/ timer[k] = "dropping"

\* The timeout and the last connection race for the session; one of them gets
\* it.  A session that is served is never dropped under its server's hands.
ServedOrDropped == \A k \in Conns : ~(leader[k] # None /\ timer[k] = "dropping")

\* All the connections of a session carry the token of one user.
OneUserPerStripe == \A k \in Conns :
    \A c, d \in Members(k) : who[c].user = who[d].user

\* With pin_client_ip on, all the connections let in under a token come from
\* one address, also when the first ones arrive together (pinned.check).
PinHolds == \A c, d \in Conns :
    LET past == PCs \ {"new", "accepted", "refused"} IN
    (/\ pc[c] \in past /\ pc[d] \in past
     /\ who[c].pin /\ who[d].pin /\ who[c].user = who[d].user)
        => who[c].ip = who[d].ip

\* Every accepted connection is decided on: it ends up closed, or part of a
\* session that is being served.  A session whose connections never all come
\* does not keep the ones that did (sessionTimeout).
Served(c) == \/ pc[c] = "serving"
             \/ \E k \in Conns : leader[k] # None /\ c \in Members(k)
Decided == \A c \in Conns :
    pc[c] = "accepted" ~> (pc[c] \in {"refused", "denied", "closed"} \/ Served(c))

\* A session is over when serveStripe has returned, or when drop has taken it
\* out of the map.
Over(k) == \/ leader[k] # None /\ pc[leader[k]] = "ending"
           \/ timer[k] = "dropping"

\* The seats of a session that is over come back, every one and for good: from
\* some moment on the counters are those of the connections that are not of
\* this session.  A seat that is never returned, by the loop of the leader or
\* by that of drop, keeps its machine a place for ever, whoever else comes.
SeatsReturned == \A k \in Conns :
    Over(k) ~> [](\A u \in Users, i \in IPs :
                    seats[u][i] = Cardinality(HoldersOf(u, i) \ Members(k)))

\* The counters decide as if the open connections themselves were counted.
Holder(c) == [conn |-> c, user |-> who[c].user, ip |-> who[c].ip, limit |-> who[c].limit]
Ledger == INSTANCE SeatSpec WITH
    open <- {Holder(c) : c \in Holding},
    denied <- {Holder(c) : c \in {d \in Conns : pc[d] = "denied"}}
ImplementsSeatSpec == Ledger!Spec
=============================================================================
