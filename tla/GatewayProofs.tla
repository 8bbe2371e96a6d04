---------------------------- MODULE GatewayProofs ----------------------------
(***************************************************************************)
(* Theorems about Gateway, for any number of connections, users, machines, *)
(* sessions and configurations.                                            *)
(***************************************************************************)
EXTENDS Gateway, FiniteSetTheorems, TLAPS

\* The handler has let its peer in: it knows user, address, limit and head.
Past == PCs \ {"new", "accepted", "refused"}

\* What a handler has read stays readable: a handler in proto.Accept holds a
\* configuration, one beyond it knows its peer.
Known == \A c \in Conns :
    /\ pc[c] = "accepted" => snap[c] \in Configs
    /\ pc[c] \in Past => who[c] \in Peer

\* Only handlers that know their peer create, complete or time a session.
Named ==
    /\ \A s \in SIDs : sess[s] # None => pc[sess[s]] \in Past
    /\ \A k \in Conns : timer[k] # "none" => pc[k] \in Past
    /\ \A k \in Conns : leader[k] # None => pc[leader[k]] \in Past

TypeInv == TypeOK /\ Known /\ Named

-----------------------------------------------------------------------------

LEMMA HeadFacts ==
    ASSUME NEW w \in Peer
    PROVE  /\ w.user \in Users /\ w.ip \in Addrs /\ w.limit \in Nat
           /\ w.pin \in BOOLEAN /\ w.head \in Heads
           /\ w.head.sid \in SIDs \cup {None}
           /\ w.head.kind \in {"start", "join"} =>
                w.head.sid \in SIDs /\ w.head.arg \in 1 .. MaxStripe + 1
BY DEF Peer, Heads

\* A configuration gives every user a limit.
LEMMA ConfigFacts ==
    ASSUME NEW g \in Configs, NEW u \in Users
    PROVE  g.limit[u] \in Nat /\ g.limit[u] \in Limits /\ g.pin \in BOOLEAN
<1>1. g \in Config
  BY ConstantsAssumption
<1> QED
  BY <1>1 DEF Config, Limits

\* release never takes a counter below zero.
LEMMA ReleaseType ==
    ASSUME seats \in [Users -> [IPs -> Nat]], NEW c \in Conns, who[c] \in Peer,
           Release(c)
    PROVE  seats' \in [Users -> [IPs -> Nat]]
<1>1. who[c].user \in Users /\ who[c].ip \in Addrs
  BY HeadFacts
<1>2. CASE Counted(c) /\ seats[who[c].user][who[c].ip] > 0
  <2>1. who[c].ip \in IPs
    BY <1>1, <1>2 DEF Counted, Addrs
  <2>2. seats' = [seats EXCEPT ![who[c].user][who[c].ip] = @ - 1]
    BY <1>2 DEF Release
  <2>3. seats[who[c].user][who[c].ip] - 1 \in Nat
    BY <1>1, <1>2, <2>1
  <2> QED
    BY <1>1, <2>1, <2>2, <2>3
<1>3. CASE ~(Counted(c) /\ seats[who[c].user][who[c].ip] > 0)
  BY <1>3 DEF Release
<1> QED
  BY <1>2, <1>3

LEMMA TypeInit == Init => TypeInv
BY ConstantsAssumption DEF Init, TypeInv, TypeOK, Known, Named, PCs, Past, Timers, Idx

\* The session of a connection: a connection of Conns that knows its peer.
LEMMA AtFacts ==
    ASSUME TypeInv, NEW c \in Conns, pc[c] \in Past, who[c].head.kind \in {"start", "join"}
    PROVE  /\ Sid(c) \in SIDs
           /\ At(c) \in Conns /\ pc[At(c)] \in Past
           /\ Arg(c) \in 1 .. MaxStripe + 1
<1>1. who[c] \in Peer
  BY DEF TypeInv, Known
<1>2. Sid(c) \in SIDs /\ Arg(c) \in 1 .. MaxStripe + 1
  BY <1>1, HeadFacts DEF Sid, Arg
<1> QED
  BY <1>2 DEF TypeInv, TypeOK, Named, At

LEMMA PlaceType ==
    ASSUME TypeInv, NEW c \in Conns, NEW i \in Idx, NEW n \in 0 .. MaxStripe,
           pc[c] = "seated", who[c].head.kind \in {"start", "join"}, Place(c, i, n)
    PROVE  TypeInv'
<1> DEFINE k == At(c)
<1>1. pc[c] \in Past
  BY DEF Past, PCs
<1>2. Sid(c) \in SIDs /\ k \in Conns /\ pc[k] \in Past
  BY <1>1, AtFacts
<1> HIDE DEF k
<1>3. /\ slot' = [slot EXCEPT ![k][i] = c]
      /\ size' = [size EXCEPT ![k] = n]
      /\ got' = [got EXCEPT ![k] = @ + 1]
      /\ UNCHANGED <<cfg, snap, who, pins, seats>>
  BY DEF Place, k
<1>4. slot' \in [Conns -> [Idx -> Conns \cup {None}]]
  <2>1. slot \in [Conns -> [Idx -> Conns \cup {None}]]
    BY DEF TypeInv, TypeOK
  <2> QED
    BY <1>2, <1>3, <2>1
<1>5. size' \in [Conns -> 0 .. MaxStripe] /\ got' \in [Conns -> Nat]
  BY <1>2, <1>3 DEF TypeInv, TypeOK
<1>6. CASE Ready(n, got[k] + 1)
  <2>1. /\ sess' = [sess EXCEPT ![Sid(c)] = None]
        /\ timer' = [timer EXCEPT ![k] = Stop(timer[k])]
        /\ leader' = [leader EXCEPT ![k] = c]
        /\ pc' = [pc EXCEPT ![c] = "leading"]
    BY <1>6 DEF Place, k
  <2>2. TypeOK'
    BY <1>2, <1>3, <1>4, <1>5, <2>1 DEF TypeInv, TypeOK, PCs, Timers, Stop
  <2>3. Known'
    BY <1>1, <1>3, <2>1 DEF TypeInv, TypeOK, Known, Past, PCs
  <2>4. Named'
    BY <1>1, <1>2, <2>1 DEF TypeInv, TypeOK, Named, Past, PCs
  <2> QED
    BY <2>2, <2>3, <2>4 DEF TypeInv
<1>7. CASE ~Ready(n, got[k] + 1)
  <2>1. /\ sess' = [sess EXCEPT ![Sid(c)] = k]
        /\ timer' = IF k = c THEN [timer EXCEPT ![k] = "armed"] ELSE timer
        /\ pc' = [pc EXCEPT ![c] = "kept"]
        /\ leader' = leader
    BY <1>7 DEF Place, k
  <2>2. TypeOK'
    BY <1>2, <1>3, <1>4, <1>5, <2>1 DEF TypeInv, TypeOK, PCs, Timers
  <2>3. Known'
    BY <1>1, <1>3, <2>1 DEF TypeInv, TypeOK, Known, Past, PCs
  <2>4. Named'
    BY <1>1, <1>2, <2>1 DEF TypeInv, TypeOK, Named, Past, PCs
  <2> QED
    BY <2>2, <2>3, <2>4 DEF TypeInv
<1> QED
  BY <1>6, <1>7

LEMMA ReleaseStepType ==
    ASSUME TypeInv, NEW k \in Conns, pc[k] \in Past, NEW c \in Conns,
           pc[c] \in Past, Release(k), pc' = [pc EXCEPT ![c] = "closed"],
           UNCHANGED <<cfg, snap, who, pins, tables>>
    PROVE  TypeInv'
<1>1. who[k] \in Peer
  BY DEF TypeInv, Known
<1>2. seats' \in [Users -> [IPs -> Nat]]
  BY <1>1, ReleaseType DEF TypeInv, TypeOK
<1>3. TypeOK'
  BY <1>2 DEF TypeInv, TypeOK, PCs, tables
<1>4. Known' /\ Named'
  BY DEF TypeInv, TypeOK, Known, Named, Past, PCs, tables
<1> QED
  BY <1>3, <1>4 DEF TypeInv

LEMMA HandshakeType ==
    ASSUME TypeInv, NEW c \in Conns, NEW u \in Users, NEW i \in Addrs, NEW h \in Heads,
           Handshake(c, u, i, h)
    PROVE  TypeInv'
<1> DEFINE w == [user |-> u, ip |-> i, head |-> h,
                 limit |-> snap[c].limit[u], pin |-> snap[c].pin]
<1>1. snap[c] \in Configs
  BY DEF TypeInv, Known, Handshake
<1>2. w \in Peer
  BY <1>1, ConfigFacts DEF Peer
<1>3. who' = [who EXCEPT ![c] = w] /\ snap' = [snap EXCEPT ![c] = None]
  BY DEF Handshake
<1> HIDE DEF w
<1>4. pc' = [pc EXCEPT ![c] = "admitted"] \/ pc' = [pc EXCEPT ![c] = "refused"]
  BY DEF Handshake
<1>5. pins' \in [Users -> IPs \cup {None}]
  <2>1. CASE snap[c].pin /\ PinFits(u, i)
    <3>1. i \in IPs
      BY <2>1 DEF PinFits, Addrs
    <3> QED
      BY <3>1 DEF Handshake, TypeInv, TypeOK
  <2>2. CASE ~snap[c].pin \/ ~PinFits(u, i)
    <3>1. UNCHANGED pins
      BY <2>2 DEF Handshake
    <3> QED
      BY <3>1 DEF TypeInv, TypeOK
  <2> QED
    BY <2>1, <2>2
<1>6. UNCHANGED <<cfg, seats, tables>> /\ pc[c] = "accepted"
  BY DEF Handshake
<1>7. TypeOK'
  BY <1>2, <1>3, <1>4, <1>5, <1>6 DEF TypeInv, TypeOK, PCs, tables
<1>8. Known'
  BY <1>2, <1>3, <1>4, <1>6 DEF TypeInv, TypeOK, Known, Past, PCs
<1>9. Named'
  <2>1. \A k \in Conns : pc[k] \in Past => pc'[k] \in Past
    BY <1>4, <1>6 DEF TypeInv, TypeOK, Past, PCs
  <2>2. UNCHANGED <<sess, timer, leader>>
    BY <1>6 DEF tables
  <2>3. /\ \A s \in SIDs : sess[s] \in Conns \cup {None}
        /\ \A k \in Conns : leader[k] \in Conns \cup {None}
    BY DEF TypeInv, TypeOK
  <2> QED
    BY <2>1, <2>2, <2>3 DEF TypeInv, Named
<1> QED
  BY <1>7, <1>8, <1>9 DEF TypeInv

LEMMA AcquireType ==
    ASSUME TypeInv, NEW c \in Conns, Acquire(c)
    PROVE  TypeInv'
<1>1. pc[c] = "admitted" /\ pc[c] \in Past /\ who[c] \in Peer
  BY DEF Acquire, TypeInv, Known, Past, PCs
<1>2. who[c].user \in Users /\ who[c].ip \in Addrs
  BY <1>1, HeadFacts
<1>3. pc' = [pc EXCEPT ![c] = "seated"] \/ pc' = [pc EXCEPT ![c] = "denied"]
  BY DEF Acquire
<1>4. seats' \in [Users -> [IPs -> Nat]]
  <2>1. CASE UNCHANGED seats
    BY <2>1 DEF TypeInv, TypeOK
  <2>2. CASE Counted(c) /\ seats' = [seats EXCEPT ![who[c].user][who[c].ip] = @ + 1]
    <3>1. who[c].ip \in IPs
      BY <1>2, <2>2 DEF Counted, Addrs
    <3>2. seats \in [Users -> [IPs -> Nat]]
      BY DEF TypeInv, TypeOK
    <3>3. seats[who[c].user][who[c].ip] + 1 \in Nat
      BY <1>2, <3>1, <3>2
    <3> QED
      BY <1>2, <2>2, <3>1, <3>2, <3>3
  <2> QED
    BY <2>1, <2>2 DEF Acquire
<1>5. UNCHANGED <<cfg, snap, who, pins, tables>>
  BY DEF Acquire
<1>6. TypeOK'
  BY <1>3, <1>4, <1>5 DEF TypeInv, TypeOK, PCs, tables
<1>7. Known'
  BY <1>1, <1>3, <1>5 DEF TypeInv, TypeOK, Known, Past, PCs
<1>8. Named'
  <2>1. \A d \in Conns : pc[d] \in Past => pc'[d] \in Past
    BY <1>1, <1>3 DEF TypeInv, TypeOK, Past, PCs
  <2> QED
    BY <1>5, <2>1 DEF TypeInv, TypeOK, Named, tables
<1> QED
  BY <1>6, <1>7, <1>8 DEF TypeInv

\* Every step keeps the types and what the handlers know.
LEMMA TypeStep == TypeInv /\ [Next]_vars => TypeInv'
<1> SUFFICES ASSUME TypeInv, [Next]_vars PROVE TypeInv'
  OBVIOUS
<1>1. CASE Reload
  BY <1>1 DEF Reload, TypeInv, TypeOK, Known, Named, tables
<1>2. ASSUME NEW c \in Conns, Accept(c) PROVE TypeInv'
  BY <1>2 DEF Accept, TypeInv, TypeOK, Known, Named, tables, Past, PCs
<1>3. ASSUME NEW c \in Conns, HandshakeFail(c) PROVE TypeInv'
  BY <1>3 DEF HandshakeFail, TypeInv, TypeOK, Known, Named, tables, Past, PCs
<1>4. ASSUME NEW c \in Conns, Acquire(c) PROVE TypeInv'
  BY <1>4, AcquireType
<1>5. ASSUME NEW c \in Conns, Serve(c) \/ Reject(c) \/ Finish(c) PROVE TypeInv'
  <2>1. /\ pc[c] \in {"seated", "serving", "leading"}
        /\ \E t \in {"serving", "leaving", "ending"} : pc' = [pc EXCEPT ![c] = t]
        /\ UNCHANGED <<cfg, snap, who, pins, seats, tables>>
    BY <1>5 DEF Serve, Reject, Finish
  <2> QED
    BY <2>1 DEF TypeInv, TypeOK, Known, Named, tables, Past, PCs
<1>6. ASSUME NEW c \in Conns, Start(c) PROVE TypeInv'
  <2>1. Arg(c) \in 0 .. MaxStripe /\ 0 \in Idx
    BY <1>6, AtFacts, ConstantsAssumption DEF Start, CanStart, Past, PCs, Idx
  <2> QED
    BY <1>6, <2>1, PlaceType DEF Start
<1>7. ASSUME NEW c \in Conns, Join(c) PROVE TypeInv'
  <2>1. At(c) \in Conns /\ Arg(c) \in Idx
    BY <1>7, AtFacts, ConstantsAssumption DEF Join, CanJoin, Past, PCs, Idx
  <2>2. size[At(c)] \in 0 .. MaxStripe
    BY <2>1 DEF TypeInv, TypeOK
  <2> QED
    BY <1>7, <2>1, <2>2, PlaceType DEF Join
<1>8. ASSUME NEW c \in Conns, Leave(c) PROVE TypeInv'
  BY <1>8, ReleaseStepType DEF Leave, Past, PCs
<1>9. ASSUME NEW k \in Conns, TimerFires(k) \/ Drop(k) PROVE TypeInv'
  <2>1. CASE TimerFires(k)
    BY <2>1 DEF TimerFires, TypeInv, TypeOK, Known, Named, Past, PCs, Timers
  <2>2. CASE Drop(k)
    <3>1. /\ pc' = pc /\ timer[k] # "none"
          /\ timer' = [timer EXCEPT ![k] = "stopped"] \/ timer' = [timer EXCEPT ![k] = "dropping"]
          /\ sess' = sess \/ sess' = [sess EXCEPT ![Sid(k)] = None]
          /\ UNCHANGED <<cfg, snap, who, pins, seats, size, slot, got, leader>>
      BY <2>2 DEF Drop
    <3>2. timer' \in [Conns -> Timers] /\ \A j \in Conns : timer'[j] # "none" => timer[j] # "none"
      BY <3>1 DEF TypeInv, TypeOK, Timers
    <3>3. /\ sess' \in [SIDs -> Conns \cup {None}]
          /\ \A i \in SIDs : sess'[i] # None => sess'[i] = sess[i]
      BY <3>1 DEF TypeInv, TypeOK
    <3> QED
      BY <3>1, <3>2, <3>3 DEF TypeInv, TypeOK, Known, Named
  <2> QED
    BY <1>9, <2>1, <2>2
<1>10. ASSUME NEW k \in Conns, NEW c \in Conns, DropRelease(k, c) PROVE TypeInv'
  <2>1. pc[k] \in Past
    BY <1>10 DEF DropRelease, TypeInv, Named
  <2> QED
    BY <1>10, <2>1, ReleaseStepType DEF DropRelease, Past, PCs
<1>11. ASSUME NEW k \in Conns, NEW c \in Conns, StripeRelease(k, c) PROVE TypeInv'
  <2>1. leader[k] \in Conns /\ pc[leader[k]] \in Past /\ pc[c] \in Past
    BY <1>11 DEF StripeRelease, TypeInv, TypeOK, Past, PCs
  <2> QED
    BY <1>11, <2>1, ReleaseStepType DEF StripeRelease
<1>12. CASE UNCHANGED vars
  BY <1>12 DEF vars, tables, TypeInv, TypeOK, Known, Named
<1> QED
  BY <1>1, <1>2, <1>3, HandshakeType, <1>4, <1>5, <1>6, <1>7, <1>8, <1>9, <1>10,
     <1>11, <1>12 DEF Next, HandlerStep, SessionStep

LEMMA TypeInvariant == Spec => []TypeInv
BY TypeInit, TypeStep, PTL DEF Spec

\* Every variable keeps its type: no counter of clients goes below zero, and
\* no index of a session leaves the slots it was made with (release, start, join).
THEOREM TypeCorrect == Spec => []TypeOK
<1>1. TypeInv => TypeOK
  BY DEF TypeInv
<1> QED
  BY <1>1, TypeInvariant, PTL

-----------------------------------------------------------------------------
(* Who belongs to a session.                                               *)

\* The connections in the slots of a session belong with its creator.
Slots == \A k \in Conns : \A c \in Members(k) :
    /\ pc[k] \in Past
    /\ pc[c] \in {"kept", "leading", "ending", "closed"}
    /\ Sid(c) \in SIDs /\ Sid(c) = Sid(k)
    /\ who[c].user = who[k].user

\* A session in the map is there under its creator's sid; it is served by one
\* of its connections.
Sessions ==
    /\ \A s \in SIDs : sess[s] # None => Sid(sess[s]) = s
    /\ \A k \in Conns : leader[k] # None => leader[k] \in Members(k)

SessInv == TypeInv /\ Slots /\ Sessions

LEMMA SessInit == Init => SessInv
<1> SUFFICES ASSUME Init PROVE SessInv
  OBVIOUS
<1>1. TypeInv
  BY TypeInit
<1>2. \A k \in Conns : Members(k) = {}
  BY DEF Init, Members
<1> QED
  BY <1>1, <1>2 DEF Init, SessInv, Slots, Sessions

LEMMA MembersPlaced ==
    ASSUME TypeInv, NEW c \in Conns, NEW k \in Conns, NEW i \in Idx,
           slot[k][i] = None, slot' = [slot EXCEPT ![k][i] = c]
    PROVE  /\ Members(k)' = Members(k) \cup {c}
           /\ \A j \in Conns \ {k} : Members(j)' = Members(j)
<1>1. slot \in [Conns -> [Idx -> Conns \cup {None}]] /\ None \notin Conns
  BY ConstantsAssumption DEF TypeInv, TypeOK
<1>2. slot'[k][i] = c /\ \A x \in Idx \ {i} : slot'[k][x] = slot[k][x]
  BY <1>1
<1>3. ASSUME NEW d \in Members(k)' PROVE d \in Members(k) \cup {c}
  <2>1. PICK x \in Idx : d = slot'[k][x] /\ d # None
    BY DEF Members
  <2> QED
    BY <1>2, <2>1 DEF Members
<1>4. ASSUME NEW d \in Members(k) PROVE d \in Members(k)'
  <2>1. PICK x \in Idx : d = slot[k][x] /\ d # None
    BY DEF Members
  <2> QED
    BY <1>2, <2>1 DEF Members
<1>5. c \in Members(k)'
  BY <1>1, <1>2 DEF Members
<1>6. \A j \in Conns \ {k} : Members(j)' = Members(j)
  BY <1>1 DEF Members
<1> QED
  BY <1>3, <1>4, <1>5, <1>6

\* A connection that takes a free slot belongs with the session's creator.
LEMMA PlaceSessions ==
    ASSUME SessInv, NEW c \in Conns, NEW i \in Idx, NEW n \in 0 .. MaxStripe,
           pc[c] = "seated", who[c].head.kind \in {"start", "join"},
           SameUser(c), slot[At(c)][i] = None, Place(c, i, n)
    PROVE  SessInv'
<1>1. pc[c] \in Past /\ TypeInv
  BY DEF Past, PCs, SessInv
<1>0. At(c) \in Conns
  BY <1>1, AtFacts
<1>2. PICK k \in Conns : /\ k = At(c) /\ Sid(c) \in SIDs /\ pc[k] \in Past
                         /\ Sid(k) = Sid(c)
  BY <1>0, <1>1, AtFacts DEF At, SessInv, Sessions
<1>3. who[k].user = who[c].user
  BY <1>2 DEF SameUser
<1>4. slot[k][i] = None
  BY <1>2
<1>5. /\ slot' = [slot EXCEPT ![k][i] = c]
      /\ pc' = [pc EXCEPT ![c] = "leading"] \/ pc' = [pc EXCEPT ![c] = "kept"]
      /\ sess' = [sess EXCEPT ![Sid(c)] = None] \/ sess' = [sess EXCEPT ![Sid(c)] = k]
      /\ leader' = [leader EXCEPT ![k] = c] \/ leader' = leader
      /\ UNCHANGED <<who, seats>>
  BY <1>2 DEF Place
<1>6. /\ pc \in [Conns -> PCs] /\ slot \in [Conns -> [Idx -> Conns \cup {None}]]
      /\ sess \in [SIDs -> Conns \cup {None}] /\ leader \in [Conns -> Conns \cup {None}]
      /\ None \notin Conns
  BY <1>1, ConstantsAssumption DEF TypeInv, TypeOK
<1>7. /\ Members(k)' = Members(k) \cup {c}
      /\ \A j \in Conns \ {k} : Members(j)' = Members(j)
  BY <1>1, <1>4, <1>5, MembersPlaced
<1>8. TypeInv'
  BY <1>1, PlaceType
<1>9. Slots'
  <2> SUFFICES ASSUME NEW j \in Conns, NEW d \in Members(j)'
               PROVE  /\ pc'[j] \in Past
                      /\ pc'[d] \in {"kept", "leading", "ending", "closed"}
                      /\ Sid(d) \in SIDs /\ Sid(d) = Sid(j)
                      /\ who[d].user = who[j].user
    BY <1>5 DEF Slots, Sid
  <2>1. CASE d \in Members(j)
    <3>1. d \in Conns
      BY <1>6, <2>1 DEF Members
    <3> QED
      BY <1>5, <1>6, <2>1, <3>1 DEF SessInv, Slots, Past, PCs
  <2>2. CASE j = k /\ d = c
    BY <1>2, <1>3, <1>5, <1>6, <2>2 DEF Past, PCs
  <2>3. CASE j = k
    BY <1>7, <2>1, <2>2, <2>3
  <2>4. CASE j # k
    BY <1>7, <2>1, <2>4
  <2> QED
    BY <2>3, <2>4
<1>10. Sessions'
  <2>1. \A s \in SIDs : sess'[s] # None => Sid(sess'[s]) = s
    BY <1>2, <1>5, <1>6 DEF SessInv, Sessions
  <2>2. ASSUME NEW j \in Conns, leader'[j] # None
        PROVE  leader'[j] \in Members(j)'
    <3>1. leader'[j] = leader[j] \/ (j = k /\ leader'[j] = c)
      BY <1>5, <1>6
    <3>2. CASE leader'[j] = leader[j]
      <4>1. leader'[j] \in Members(j)
        BY <2>2, <3>2 DEF SessInv, Sessions
      <4>2. CASE j = k
        BY <1>7, <4>1, <4>2
      <4>3. CASE j # k
        BY <1>7, <4>1, <4>3
      <4> QED
        BY <4>2, <4>3
    <3>3. CASE j = k /\ leader'[j] = c
      BY <1>7, <3>3
    <3> QED
      BY <3>1, <3>2, <3>3
  <2> QED
    BY <1>5, <2>1, <2>2 DEF Sessions, Sid
<1> QED
  BY <1>8, <1>9, <1>10 DEF SessInv

\* A step that leaves the sessions alone: what it may change is how far the
\* handlers of other connections have come.
LEMMA SessionsIdle ==
    ASSUME SessInv, TypeInv', UNCHANGED <<who, slot, sess, leader>>,
           \A c \in Conns : /\ pc'[c] \in Past <=> pc[c] \in Past
                            /\ pc[c] \in {"kept", "leading", "ending", "closed"}
                                => pc'[c] \in {"kept", "leading", "ending", "closed"}
    PROVE  Slots' /\ Sessions'
<1>1. \A k \in Conns : Members(k)' = Members(k) /\ Members(k) \subseteq Conns
  BY DEF Members, SessInv, TypeInv, TypeOK
<1>2. Slots'
  BY <1>1 DEF SessInv, Slots, Sid
<1>3. Sessions'
  BY <1>1 DEF SessInv, Sessions, Sid
<1> QED
  BY <1>2, <1>3

LEMMA HandshakeSessions ==
    ASSUME SessInv, TypeInv', NEW c \in Conns, NEW u \in Users, NEW i \in Addrs,
           NEW h \in Heads, Handshake(c, u, i, h)
    PROVE  SessInv'
<1> DEFINE w == [user |-> u, ip |-> i, head |-> h,
                 limit |-> snap[c].limit[u], pin |-> snap[c].pin]
<1>1. /\ pc[c] = "accepted" /\ snap[c] \in Configs
      /\ pc \in [Conns -> PCs] /\ who \in [Conns -> Peer \cup {None}]
      /\ sess \in [SIDs -> Conns \cup {None}] /\ None \notin Conns
  BY ConstantsAssumption DEF SessInv, TypeInv, TypeOK, Known, Handshake
<1>2. /\ who' = [who EXCEPT ![c] = w]
      /\ UNCHANGED <<seats, slot, sess, leader>>
  BY DEF Handshake, tables
<1> HIDE DEF w
<1>3. pc' = [pc EXCEPT ![c] = "admitted"] \/ pc' = [pc EXCEPT ![c] = "refused"]
  BY DEF Handshake
<1>4. \A k \in Conns : /\ Members(k)' = Members(k) /\ c \notin Members(k)
                       /\ Members(k) \subseteq Conns
  <2>1. \A k \in Conns : Members(k)' = Members(k)
    BY <1>2 DEF Members
  <2>2. \A k \in Conns : Members(k) \subseteq Conns
    BY DEF Members, SessInv, TypeInv, TypeOK
  <2>3. \A k \in Conns : c \notin Members(k)
    BY <1>1 DEF SessInv, Slots
  <2> QED
    BY <2>1, <2>2, <2>3
<1>5. \A k \in Conns : Members(k) # {} => pc[k] \in Past /\ k # c
  BY <1>1 DEF SessInv, Slots, Past, PCs
<1>6. Slots'
  BY <1>1, <1>2, <1>3, <1>4, <1>5 DEF SessInv, Slots, Sid, Past, PCs
<1>7. Sessions'
  <2>1. \A s \in SIDs : sess[s] # c
    BY <1>1 DEF SessInv, TypeInv, Named, Past, PCs
  <2>2. \A s \in SIDs : sess'[s] # None => who'[sess'[s]].head.sid = s
    BY <1>1, <1>2, <2>1 DEF SessInv, Sessions, Sid
  <2>3. \A k \in Conns : leader'[k] # None => leader'[k] \in Members(k)'
    BY <1>2, <1>4 DEF SessInv, Sessions
  <2> QED
    BY <2>2, <2>3 DEF Sessions, Sid
<1> QED
  BY <1>6, <1>7 DEF SessInv

LEMMA SessStep ==
    ASSUME SessInv, [Next]_vars
    PROVE  SessInv'
<1>0. TypeInv /\ TypeInv' /\ pc \in [Conns -> PCs]
  BY TypeStep DEF SessInv, TypeInv, TypeOK
<1>1. ASSUME /\ UNCHANGED <<who, slot, sess, leader>>
             /\ \A c \in Conns : /\ pc'[c] \in Past <=> pc[c] \in Past
                                 /\ pc[c] \in {"kept", "leading", "ending", "closed"}
                                     => pc'[c] \in {"kept", "leading", "ending", "closed"}
      PROVE  SessInv'
  BY <1>0, <1>1, SessionsIdle DEF SessInv
<1>2. CASE Reload \/ UNCHANGED vars
  BY <1>1, <1>2 DEF Reload, vars, tables
<1>3. ASSUME NEW c \in Conns, Accept(c) \/ HandshakeFail(c) PROVE SessInv'
  BY <1>0, <1>1, <1>3 DEF Accept, HandshakeFail, tables, Past, PCs
<1>4. ASSUME NEW c \in Conns, Acquire(c) PROVE SessInv'
  <2>1. /\ pc[c] = "admitted" /\ UNCHANGED <<who, tables>>
        /\ pc' = [pc EXCEPT ![c] = "seated"] \/ pc' = [pc EXCEPT ![c] = "denied"]
    BY <1>4 DEF Acquire
  <2> QED
    BY <1>0, <1>1, <2>1 DEF tables, Past, PCs
<1>5. ASSUME NEW c \in Conns, Serve(c) \/ Reject(c) \/ Finish(c) PROVE SessInv'
  <2>1. \/ /\ pc[c] \in {"seated", "serving"}
           /\ \E t \in {"serving", "leaving"} : pc' = [pc EXCEPT ![c] = t]
        \/ /\ pc[c] = "leading"
           /\ pc' = [pc EXCEPT ![c] = "ending"]
    BY <1>5 DEF Serve, Reject, Finish
  <2>2. UNCHANGED <<who, tables>>
    BY <1>5 DEF Serve, Reject, Finish
  <2> QED
    BY <1>0, <1>1, <2>1, <2>2 DEF tables, Past, PCs
<1>6. ASSUME NEW c \in Conns, Start(c) PROVE SessInv'
  <2>1. /\ Arg(c) \in 0 .. MaxStripe /\ 0 \in Idx /\ SameUser(c)
        /\ slot[At(c)][0] = None
    BY <1>0, <1>6, AtFacts, ConstantsAssumption DEF Start, CanStart, Past, PCs, Idx
  <2> QED
    BY <1>6, <2>1, PlaceSessions DEF Start
<1>7. ASSUME NEW c \in Conns, Join(c) PROVE SessInv'
  <2>1. /\ At(c) \in Conns /\ Arg(c) \in Idx /\ SameUser(c)
        /\ slot[At(c)][Arg(c)] = None
    BY <1>0, <1>7, AtFacts, ConstantsAssumption DEF Join, CanJoin, Past, PCs, Idx
  <2>2. size[At(c)] \in 0 .. MaxStripe
    BY <1>0, <2>1 DEF TypeInv, TypeOK
  <2> QED
    BY <1>7, <2>1, <2>2, PlaceSessions DEF Join
<1>8. ASSUME NEW c \in Conns, pc[c] \in Past, pc' = [pc EXCEPT ![c] = "closed"],
             UNCHANGED <<who, tables>>
      PROVE  SessInv'
  BY <1>0, <1>1, <1>8 DEF tables, Past, PCs
<1>9. ASSUME NEW c \in Conns, Leave(c) PROVE SessInv'
  BY <1>8, <1>9 DEF Leave, Past, PCs
<1>10. ASSUME NEW k \in Conns, TimerFires(k) PROVE SessInv'
  BY <1>1, <1>10 DEF TimerFires
<1>11. ASSUME NEW k \in Conns, Drop(k) PROVE SessInv'
  <2>1. /\ UNCHANGED <<pc, who, slot, leader>>
        /\ sess' = [sess EXCEPT ![Sid(k)] = None] \/ sess' = sess
    BY <1>11 DEF Drop
  <2>2. \A j \in Conns : Members(j)' = Members(j) /\ Members(j) \subseteq Conns
    BY <1>0, <2>1 DEF Members, TypeInv, TypeOK
  <2>3. Slots'
    BY <2>1, <2>2 DEF SessInv, Slots, Sid
  <2>4. Sessions'
    BY <1>0, <2>1, <2>2 DEF SessInv, Sessions, Sid, TypeInv, TypeOK
  <2> QED
    BY <1>0, <2>3, <2>4 DEF SessInv
<1>12. ASSUME NEW k \in Conns, NEW c \in Conns, DropRelease(k, c) \/ StripeRelease(k, c)
       PROVE  SessInv'
  <2>1. pc[c] \in Past
    BY <1>12 DEF DropRelease, StripeRelease, SessInv, Slots, Past, PCs
  <2> QED
    BY <1>8, <1>12, <2>1 DEF DropRelease, StripeRelease
<1> QED
  BY <1>0, <1>2, <1>3, HandshakeSessions, <1>4, <1>5, <1>6, <1>7, <1>9, <1>10,
     <1>11, <1>12 DEF Next, HandlerStep, SessionStep

LEMMA SessInvariant == Spec => []SessInv
BY SessInit, SessStep, PTL DEF Spec

\* Whoever knows the id of a session, only connections under the token of its
\* creator come into it (start, join: the comparison of users).
THEOREM OneUserInStripe == Spec => []OneUserPerStripe
<1>1. SessInv => OneUserPerStripe
  BY DEF SessInv, Slots, OneUserPerStripe
<1> QED
  BY <1>1, SessInvariant, PTL

-----------------------------------------------------------------------------
(* The pin.                                                                *)

\* Whoever was let in under a pinned token came from the address it is pinned
\* to, which is there to stay.
Pinned == \A c \in Conns : pc[c] \in Past /\ who[c].pin => pins[who[c].user] = who[c].ip

PinInv == TypeInv /\ Pinned

LEMMA PinStep == PinInv /\ [Next]_vars => PinInv'
<1> SUFFICES ASSUME PinInv, [Next]_vars PROVE PinInv'
  OBVIOUS
<1>0. TypeInv /\ TypeInv' /\ pc \in [Conns -> PCs]
  BY TypeStep DEF PinInv, TypeInv, TypeOK
<1>1. ASSUME UNCHANGED <<who, pins>>, \A c \in Conns : pc'[c] \in Past => pc[c] \in Past
      PROVE  PinInv'
  BY <1>0, <1>1 DEF PinInv, Pinned
<1>2. ASSUME NEW c \in Conns, NEW u \in Users, NEW i \in Addrs, NEW h \in Heads,
             Handshake(c, u, i, h)
      PROVE  PinInv'
  <2> DEFINE w == [user |-> u, ip |-> i, head |-> h,
                   limit |-> snap[c].limit[u], pin |-> snap[c].pin]
  <2>1. /\ who' = [who EXCEPT ![c] = w] /\ who \in [Conns -> Peer \cup {None}]
        /\ pins \in [Users -> IPs \cup {None}] /\ pc[c] = "accepted"
    BY <1>0, <1>2 DEF Handshake, TypeInv, TypeOK
  <2>2. w.pin = snap[c].pin /\ w.user = u /\ w.ip = i
    OBVIOUS
  <2> HIDE DEF w
  <2>3. CASE pc' = [pc EXCEPT ![c] = "refused"] /\ UNCHANGED pins
    BY <1>0, <2>1, <2>3 DEF PinInv, Pinned, Past, PCs
  <2>4. CASE /\ pc' = [pc EXCEPT ![c] = "admitted"]
             /\ snap[c].pin => PinFits(u, i)
             /\ pins' = IF snap[c].pin THEN [pins EXCEPT ![u] = i] ELSE pins
    <3>1. who'[c].pin => pins'[who'[c].user] = who'[c].ip
      BY <2>1, <2>2, <2>4
    <3>2. ASSUME NEW d \in Conns \ {c}, pc[d] \in Past, who[d].pin
          PROVE  pins'[who[d].user] = who[d].ip
      <4>1. pins[who[d].user] = who[d].ip /\ who[d] \in Peer
        BY <3>2 DEF PinInv, Pinned, TypeInv, Known
      <4>2. who[d].user \in Users /\ who[d].ip \in Addrs /\ who[d].ip # None
        BY <4>1, HeadFacts, ConstantsAssumption
      <4>3. snap[c].pin /\ who[d].user = u => who[d].ip = i
        BY <2>4, <4>1, <4>2 DEF PinFits
      <4> QED
        BY <2>1, <2>4, <4>1, <4>2, <4>3
    <3> QED
      BY <1>0, <2>1, <2>4, <3>1, <3>2 DEF PinInv, Pinned, Past, PCs
  <2> QED
    BY <1>2, <2>3, <2>4 DEF Handshake
<1>3. ASSUME NEW c \in Conns, Accept(c) \/ HandshakeFail(c) \/ Acquire(c) \/ Serve(c)
                \/ Reject(c) \/ Finish(c) \/ Leave(c)
      PROVE  PinInv'
  <2>1. /\ UNCHANGED <<who, pins>>
        /\ \/ pc[c] \in Past
           \/ pc' = [pc EXCEPT ![c] = "accepted"] \/ pc' = [pc EXCEPT ![c] = "refused"]
        /\ \E t \in PCs : pc' = [pc EXCEPT ![c] = t]
    BY <1>3 DEF Accept, HandshakeFail, Acquire, Serve, Reject, Finish, Leave, Past, PCs
  <2> QED
    BY <1>0, <1>1, <2>1 DEF Past, PCs
<1>4. ASSUME NEW c \in Conns, Start(c) \/ Join(c) PROVE PinInv'
  <2>1. /\ UNCHANGED <<who, pins>> /\ pc[c] = "seated"
        /\ \E t \in PCs : pc' = [pc EXCEPT ![c] = t]
    BY <1>4 DEF Start, Join, Place, PCs
  <2> QED
    BY <1>0, <1>1, <2>1 DEF Past, PCs
<1>5. ASSUME NEW k \in Conns, TimerFires(k) \/ Drop(k) PROVE PinInv'
  BY <1>1, <1>5 DEF TimerFires, Drop
<1>6. ASSUME NEW k \in Conns, NEW c \in Conns, DropRelease(k, c) \/ StripeRelease(k, c)
      PROVE  PinInv'
  <2>1. UNCHANGED <<who, pins>> /\ pc' = [pc EXCEPT ![c] = "closed"]
    BY <1>6 DEF DropRelease, StripeRelease
  <2>2. pc[c] \in Past
    BY <1>0, <1>6 DEF DropRelease, StripeRelease, TypeInv, Named, Past, PCs
  <2> QED
    BY <1>0, <1>1, <2>1, <2>2 DEF Past, PCs
<1>7. CASE Reload \/ UNCHANGED vars
  BY <1>1, <1>7 DEF Reload, vars
<1> QED
  BY <1>2, <1>3, <1>4, <1>5, <1>6, <1>7 DEF Next, HandlerStep, SessionStep

\* However many first connections come at once, and whatever is reloaded in
\* between: a token that is pinned lets in one address (pinned.check).
THEOREM PinIsKept == Spec => []PinHolds
<1>1. Init => PinInv
  BY TypeInit DEF Init, PinInv, Pinned, Past, PCs
<1>2. PinInv => PinHolds
  BY DEF PinInv, Pinned, PinHolds, Past
<1> QED
  BY <1>1, PinStep, <1>2, PTL DEF Spec

-----------------------------------------------------------------------------
(* SeatsExact.  A session returns its seats under the user, address and    *)
(* limit of one of its connections; that these are the seats its other     *)
(* connections took is what the invariant below adds.                      *)

\* Who belongs to the client of a session dials from its address, and every
\* limit was read from a configuration.
Peers == \A c \in Conns : pc[c] \in Past =>
    /\ who[c].limit \in Limits
    /\ Sid(c) # None => who[c].ip \in Home[Sid(c)]

SeatInv == SessInv /\ Peers /\ SeatsExact

LEMMA SlotsAlike ==
    ASSUME SingleHomed, LimitsPositive, SeatInv, NEW k \in Conns,
           NEW c \in Members(k), NEW d \in Conns, d = k \/ d \in Members(k)
    PROVE  /\ Counted(c) <=> Counted(d)
           /\ who[d].user = who[c].user /\ who[d].ip = who[c].ip
<1>1. /\ c \in Conns /\ pc[c] \in Past /\ pc[d] \in Past
      /\ Sid(c) \in SIDs /\ Sid(d) = Sid(c) /\ who[d].user = who[c].user
  BY DEF SeatInv, SessInv, Slots, Past, PCs, Members, TypeInv, TypeOK
<1>2. who[c].ip \in Home[Sid(c)] /\ who[d].ip \in Home[Sid(c)]
  BY <1>1, ConstantsAssumption DEF SeatInv, Peers
<1>3. who[c].ip = who[d].ip
  BY <1>1, <1>2 DEF SingleHomed
<1>4. who[c].limit > 0 /\ who[d].limit > 0
  BY <1>1 DEF SeatInv, Peers, LimitsPositive
<1> QED
  BY <1>1, <1>3, <1>4 DEF Counted

LEMMA HoldersFinite ==
    ASSUME NEW u \in Users, NEW i \in IPs
    PROVE  IsFiniteSet(HoldersOf(u, i)) /\ Cardinality(HoldersOf(u, i)) \in Nat
<1>1. HoldersOf(u, i) \subseteq Conns
  BY DEF HoldersOf, Holding
<1> QED
  BY <1>1, ConstantsAssumption, FS_Subset, FS_CardinalityType

\* A step that changes neither the counters nor who occupies a place.
LEMMA SeatsIdle ==
    ASSUME SeatsExact, UNCHANGED seats,
           \A c \in Conns : /\ (c \in Holding)' <=> c \in Holding
                            /\ c \in Holding => who'[c] = who[c]
    PROVE  SeatsExact'
<1> SUFFICES ASSUME NEW u \in Users, NEW i \in IPs
             PROVE  HoldersOf(u, i)' = HoldersOf(u, i)
  BY DEF SeatsExact
<1>1. \A c \in Holding : c \in Conns
  BY DEF Holding
<1>2. \A c \in Holding' : c \in Conns
  BY DEF Holding
<1> QED
  BY <1>1, <1>2 DEF HoldersOf

\* The seat that is returned was taken by the connection that leaves: d works
\* with the user, address and limit of c.
LEMMA SeatReturned ==
    ASSUME TypeInv, SeatsExact, NEW c \in Conns, NEW d \in Conns,
           pc[d] \in Past, pc[c] \in Past,
           Counted(c) => c \in Holding,
           Counted(c) <=> Counted(d),
           who[d].user = who[c].user, who[d].ip = who[c].ip,
           Release(d), pc' = [pc EXCEPT ![c] = "closed"], UNCHANGED who
    PROVE  SeatsExact'
<1>0. who[c] \in Peer
  BY DEF TypeInv, Known
<1>1. who[c].user \in Users /\ who[c].ip \in Addrs
  BY <1>0, HeadFacts
<1>2. pc \in [Conns -> PCs] /\ seats \in [Users -> [IPs -> Nat]]
  BY DEF TypeInv, TypeOK
<1>3. Holding' = Holding \ {c}
  BY <1>2 DEF Holding, Counted
<1>4. CASE ~Counted(c)
  <2>1. UNCHANGED seats
    BY <1>4 DEF Release
  <2>2. Holding' = Holding
    BY <1>3, <1>4 DEF Holding
  <2> QED
    BY <2>1, <2>2, SeatsIdle
<1>5. CASE Counted(c)
  <2>0. who[c].ip \in IPs
    BY <1>1, <1>5 DEF Counted, Addrs
  <2>1. PICK u \in Users, i \in IPs : u = who[c].user /\ i = who[c].ip
    BY <1>1, <2>0
  <2>2. c \in HoldersOf(u, i)
    BY <1>5, <2>1 DEF HoldersOf
  <2>3. seats[u][i] = Cardinality(HoldersOf(u, i)) /\ seats[u][i] > 0
    <3>1. Cardinality(HoldersOf(u, i)) # 0
      BY <2>1, <2>2, HoldersFinite, FS_EmptySet
    <3> QED
      BY <2>1, <3>1, HoldersFinite DEF SeatsExact
  <2>4. seats' = [seats EXCEPT ![u][i] = @ - 1]
    BY <1>5, <2>1, <2>3 DEF Release
  <2>5. HoldersOf(u, i)' = HoldersOf(u, i) \ {c}
    BY <1>3 DEF HoldersOf
  <2>6. seats'[u][i] = Cardinality(HoldersOf(u, i)')
    <3>1. Cardinality(HoldersOf(u, i) \ {c}) = Cardinality(HoldersOf(u, i)) - 1
      <4> DEFINE H == HoldersOf(u, i)
      <4>1. IsFiniteSet(H) /\ c \in H
        BY <2>1, <2>2, HoldersFinite
      <4> HIDE DEF H
      <4>2. Cardinality(H \ {c}) = Cardinality(H) - 1
        BY <4>1, FS_RemoveElement
      <4> QED
        BY <4>2 DEF H
    <3>2. seats'[u][i] = seats[u][i] - 1
      BY <1>2, <2>1, <2>4
    <3> QED
      BY <2>3, <2>5, <3>1, <3>2
  <2>7. ASSUME NEW v \in Users, NEW j \in IPs, ~(v = u /\ j = i)
        PROVE  seats'[v][j] = Cardinality(HoldersOf(v, j)')
    <3>1. c \notin HoldersOf(v, j)
      BY <2>1, <2>7 DEF HoldersOf
    <3>2. HoldersOf(v, j)' = HoldersOf(v, j)
      BY <1>3, <3>1 DEF HoldersOf
    <3>3. seats'[v][j] = seats[v][j]
      BY <1>2, <2>1, <2>4, <2>7
    <3> QED
      BY <3>2, <3>3 DEF SeatsExact
  <2> QED
    BY <2>6, <2>7 DEF SeatsExact
<1> QED
  BY <1>4, <1>5

\* acquire counts the connection it lets in, and only that one.
LEMMA SeatTaken ==
    ASSUME TypeInv, SeatsExact, NEW c \in Conns, Acquire(c)
    PROVE  SeatsExact'
<1>1. pc[c] = "admitted" /\ who[c] \in Peer /\ UNCHANGED who
  BY DEF Acquire, TypeInv, Known, Past, PCs
<1>2. who[c].user \in Users /\ who[c].ip \in Addrs
  BY <1>1, HeadFacts
<1>3. pc \in [Conns -> PCs] /\ seats \in [Users -> [IPs -> Nat]]
  BY DEF TypeInv, TypeOK
<1>4. CASE UNCHANGED seats /\ (~Counted(c) \/ pc' = [pc EXCEPT ![c] = "denied"])
  <2>1. pc' = [pc EXCEPT ![c] = "seated"] \/ pc' = [pc EXCEPT ![c] = "denied"]
    BY DEF Acquire
  <2>2. \A d \in Conns : (d \in Holding)' <=> d \in Holding
    BY <1>1, <1>3, <1>4, <2>1 DEF Holding, Counted
  <2> QED
    BY <1>1, <1>4, <2>2, SeatsIdle
<1>5. CASE /\ Counted(c) /\ pc' = [pc EXCEPT ![c] = "seated"]
           /\ seats' = [seats EXCEPT ![who[c].user][who[c].ip] = @ + 1]
  <2>0. who[c].ip \in IPs
    BY <1>2, <1>5 DEF Counted, Addrs
  <2>1. PICK u \in Users, i \in IPs : u = who[c].user /\ i = who[c].ip
    BY <1>2, <2>0
  <2>2. Holding' = Holding \cup {c}
    BY <1>1, <1>3, <1>5 DEF Holding, Counted
  <2>3. seats'[u][i] = Cardinality(HoldersOf(u, i)')
    <3> DEFINE H == HoldersOf(u, i)
    <3>1. IsFiniteSet(H) /\ c \notin H
      BY <1>1, <2>1, HoldersFinite DEF HoldersOf, Holding
    <3>2. H' = H \cup {c}
      BY <1>1, <2>1, <2>2 DEF HoldersOf
    <3>3. seats[u][i] = Cardinality(H) /\ seats'[u][i] = seats[u][i] + 1
      BY <1>3, <1>5, <2>1 DEF SeatsExact
    <3> HIDE DEF H
    <3>4. Cardinality(H \cup {c}) = Cardinality(H) + 1
      BY <3>1, FS_AddElement
    <3>5. seats'[u][i] = Cardinality(H')
      BY <3>2, <3>3, <3>4
    <3> QED
      BY <3>5 DEF H
  <2>4. ASSUME NEW v \in Users, NEW j \in IPs, ~(v = u /\ j = i)
        PROVE  seats'[v][j] = Cardinality(HoldersOf(v, j)')
    <3>1. HoldersOf(v, j)' = HoldersOf(v, j)
      BY <1>1, <2>1, <2>2, <2>4 DEF HoldersOf
    <3>2. seats'[v][j] = seats[v][j]
      BY <1>3, <1>5, <2>1, <2>4
    <3> QED
      BY <3>1, <3>2 DEF SeatsExact
  <2> QED
    BY <2>3, <2>4 DEF SeatsExact
<1> QED
  BY <1>4, <1>5 DEF Acquire

LEMMA SeatInit == Init => SeatInv
<1> SUFFICES ASSUME Init PROVE SeatInv
  OBVIOUS
<1>1. Peers
  BY DEF Init, Peers, Past, PCs
<1>2. \A u \in Users, i \in IPs : HoldersOf(u, i) = {}
  BY DEF Init, Holding, HoldersOf
<1>3. SeatsExact
  BY <1>2, FS_EmptySet DEF Init, SeatsExact
<1> QED
  BY SessInit, <1>1, <1>3 DEF SeatInv

LEMMA HandshakeSeats ==
    ASSUME SeatInv, SessInv', NEW c \in Conns, NEW u \in Users, NEW i \in Addrs,
           NEW h \in Heads, Handshake(c, u, i, h)
    PROVE  SeatInv'
<1> DEFINE w == [user |-> u, ip |-> i, head |-> h,
                 limit |-> snap[c].limit[u], pin |-> snap[c].pin]
<1>1. /\ pc[c] = "accepted" /\ snap[c] \in Configs
      /\ pc \in [Conns -> PCs] /\ who \in [Conns -> Peer \cup {None}]
  BY DEF SeatInv, SessInv, TypeInv, TypeOK, Known, Handshake
<1>2. /\ who' = [who EXCEPT ![c] = w] /\ w.limit \in Limits
      /\ h.sid # None => i \in Home[h.sid]
      /\ UNCHANGED seats
  BY <1>1, ConfigFacts DEF Handshake
<1>3. w.head = h /\ w.ip = i
  OBVIOUS
<1> HIDE DEF w
<1>4. pc' = [pc EXCEPT ![c] = "admitted"] \/ pc' = [pc EXCEPT ![c] = "refused"]
  BY DEF Handshake
<1>5. Peers'
  BY <1>1, <1>2, <1>3, <1>4 DEF SeatInv, Peers, Sid, Past, PCs
<1>6. \A d \in Conns : /\ (d \in Holding)' <=> d \in Holding
                       /\ d \in Holding => who'[d] = who[d]
  BY <1>1, <1>2, <1>4 DEF Holding, Counted
<1> QED
  BY <1>2, <1>5, <1>6, SeatsIdle DEF SeatInv

LEMMA SeatStep ==
    ASSUME SingleHomed, LimitsPositive, SeatInv, [Next]_vars
    PROVE  SeatInv'
<1>0. SessInv' /\ TypeInv /\ pc \in [Conns -> PCs]
  BY SessStep DEF SeatInv, SessInv, TypeInv, TypeOK
<1>1. ASSUME /\ UNCHANGED who
             /\ \A c \in Conns : pc'[c] \in Past <=> pc[c] \in Past
      PROVE  Peers'
  BY <1>1 DEF SeatInv, Peers, Sid
<1>2. ASSUME /\ UNCHANGED <<who, seats>>
             /\ \A c \in Conns : /\ pc'[c] \in Past <=> pc[c] \in Past
                                 /\ (c \in Holding)' <=> c \in Holding
      PROVE  SeatInv'
  BY <1>0, <1>1, <1>2, SeatsIdle DEF SeatInv
<1>3. CASE Reload \/ UNCHANGED vars
  BY <1>2, <1>3 DEF Reload, vars, Holding, Counted
<1>4. ASSUME NEW c \in Conns, Accept(c) \/ HandshakeFail(c) PROVE SeatInv'
  BY <1>0, <1>2, <1>4 DEF Accept, HandshakeFail, Holding, Counted, Past, PCs
<1>5. ASSUME NEW c \in Conns, Serve(c) \/ Reject(c) \/ Finish(c) PROVE SeatInv'
  <2>1. \/ /\ pc[c] \in {"seated", "serving"}
           /\ \E t \in {"serving", "leaving"} : pc' = [pc EXCEPT ![c] = t]
        \/ /\ pc[c] = "leading"
           /\ pc' = [pc EXCEPT ![c] = "ending"]
    BY <1>5 DEF Serve, Reject, Finish
  <2>2. UNCHANGED <<who, seats>>
    BY <1>5 DEF Serve, Reject, Finish
  <2> QED
    BY <1>0, <1>2, <2>1, <2>2 DEF Holding, Counted, Past, PCs
<1>6. ASSUME NEW c \in Conns, Acquire(c) PROVE SeatInv'
  <2>1. /\ pc[c] = "admitted" /\ UNCHANGED who
        /\ pc' = [pc EXCEPT ![c] = "seated"] \/ pc' = [pc EXCEPT ![c] = "denied"]
    BY <1>6 DEF Acquire
  <2>2. Peers'
    BY <1>0, <1>1, <2>1 DEF Past, PCs
  <2> QED
    BY <1>0, <1>6, <2>2, SeatTaken DEF SeatInv
<1>7. ASSUME NEW c \in Conns, Start(c) \/ Join(c) PROVE SeatInv'
  <2>1. /\ pc[c] = "seated" /\ UNCHANGED <<who, seats>>
        /\ pc' = [pc EXCEPT ![c] = "leading"] \/ pc' = [pc EXCEPT ![c] = "kept"]
    BY <1>7 DEF Start, Join, Place
  <2> QED
    BY <1>0, <1>2, <2>1 DEF Holding, Counted, Past, PCs
<1>8. ASSUME NEW c \in Conns, Leave(c) PROVE SeatInv'
  <2>1. /\ pc[c] = "leaving" /\ pc' = [pc EXCEPT ![c] = "closed"] /\ Release(c)
        /\ UNCHANGED who
    BY <1>8 DEF Leave
  <2>2. Peers'
    BY <1>0, <1>1, <2>1 DEF Past, PCs
  <2>3. SeatsExact'
    BY <1>0, <2>1, SeatReturned DEF SeatInv, Holding, Past, PCs
  <2> QED
    BY <1>0, <2>2, <2>3 DEF SeatInv
<1>9. ASSUME NEW k \in Conns, TimerFires(k) \/ Drop(k) PROVE SeatInv'
  BY <1>2, <1>9 DEF TimerFires, Drop, Holding, Counted
<1>10. ASSUME NEW k \in Conns, NEW c \in Members(k), NEW d \in Conns,
              d = k \/ d \in Members(k), pc[c] \in {"kept", "ending"}, Release(d),
              pc' = [pc EXCEPT ![c] = "closed"], UNCHANGED who
       PROVE  SeatInv'
  <2>1. c \in Conns /\ pc[c] \in Past /\ pc[d] \in Past
    BY <1>0, <1>10 DEF SeatInv, SessInv, Slots, Members, TypeInv, TypeOK, Past, PCs
  <2>2. Peers'
    BY <1>0, <1>1, <1>10, <2>1 DEF Past, PCs
  <2>3. /\ Counted(c) <=> Counted(d)
        /\ who[d].user = who[c].user /\ who[d].ip = who[c].ip
    BY <1>10, SlotsAlike
  <2>4. Counted(c) => c \in Holding
    BY <1>10, <2>1 DEF Holding
  <2>5. SeatsExact'
    BY <1>0, <1>10, <2>1, <2>3, <2>4, SeatReturned DEF SeatInv
  <2> QED
    BY <1>0, <2>2, <2>5 DEF SeatInv
<1>11. ASSUME NEW k \in Conns, NEW c \in Conns, DropRelease(k, c) PROVE SeatInv'
  BY <1>10, <1>11 DEF DropRelease
<1>12. ASSUME NEW k \in Conns, NEW c \in Conns, StripeRelease(k, c) PROVE SeatInv'
  <2>1. /\ leader[k] \in Members(k) /\ leader[k] \in Conns
        /\ pc[c] \in {"kept", "ending"}
    BY <1>0, <1>12 DEF StripeRelease, SeatInv, SessInv, Sessions, TypeInv, TypeOK
  <2> QED
    BY <1>10, <1>12, <2>1 DEF StripeRelease
<1> QED
  BY <1>0, <1>3, <1>4, HandshakeSeats, <1>5, <1>6, <1>7, <1>8, <1>9, <1>11,
     <1>12 DEF Next, HandlerStep, SessionStep

\* The counters of clients are exact, at every moment and for any number of
\* connections, when the connections of a session come from one address and
\* no configuration lifts the limit.  Without the first the run
\* GatewayTwoHomes shows a seat that is never freed.
THEOREM SeatsAreExact ==
    ASSUME SingleHomed, LimitsPositive
    PROVE  Spec => []SeatsExact
<1>1. Init => SeatInv
  BY SeatInit
<1>2. SeatInv /\ [Next]_vars => SeatInv'
  BY SeatStep
<1>3. SeatInv => SeatsExact
  BY DEF SeatInv
<1> QED
  BY <1>1, <1>2, <1>3, PTL DEF Spec

-----------------------------------------------------------------------------
(* The counters of clients implement the promise about machines (SeatSpec). *)

Open == {Holder(c) : c \in Holding}
Denied == {Holder(c) : c \in {d \in Conns : pc[d] = "denied"}}

LEMMA HolderFacts ==
    ASSUME NEW c
    PROVE  /\ Holder(c).conn = c /\ Holder(c).user = who[c].user
           /\ Holder(c).ip = who[c].ip /\ Holder(c).limit = who[c].limit
BY DEF Holder

\* A connection that occupies a place, or is to get one, is a holder.
LEMMA HolderType ==
    ASSUME SeatInv, NEW c \in Conns, pc[c] \in Past, Counted(c)
    PROVE  /\ Holder(c) \in Ledger!Holders
           /\ who[c].user \in Users /\ who[c].ip \in IPs
<1>1. who[c] \in Peer
  BY DEF SeatInv, SessInv, TypeInv, Known
<1>2. who[c].user \in Users /\ who[c].ip \in IPs
  BY <1>1, HeadFacts DEF Counted, Addrs
<1>3. who[c].limit \in Limits
  BY DEF SeatInv, Peers
<1> QED
  BY <1>2, <1>3 DEF Holder, Ledger!Holders

\* The machines whose counters are not zero are those of the open connections.
LEMMA SameMachines ==
    ASSUME SeatInv, NEW u \in Users
    PROVE  Ledger!Machines(u) = Machines(u)
<1>1. Ledger!Machines(u) = {o.ip : o \in {x \in Open : x.user = u}}
  BY DEF Ledger!Machines, Open
<1>2. \A c \in Holding : c \in Conns /\ pc[c] \in Past /\ who[c].ip \in IPs
  BY HolderType DEF Holding, Past, PCs
<1>3. \A i \in IPs : seats[u][i] > 0 <=> HoldersOf(u, i) # {}
  <2> SUFFICES ASSUME NEW i \in IPs PROVE seats[u][i] > 0 <=> HoldersOf(u, i) # {}
    OBVIOUS
  <2>1. seats[u][i] = Cardinality(HoldersOf(u, i))
    BY DEF SeatInv, SeatsExact
  <2>2. Cardinality(HoldersOf(u, i)) = 0 <=> HoldersOf(u, i) = {}
    BY HoldersFinite, FS_EmptySet
  <2> QED
    BY <2>1, <2>2, HoldersFinite
<1>4. ASSUME NEW i \in Ledger!Machines(u) PROVE i \in Machines(u)
  <2>1. PICK c \in Holding : who[c].user = u /\ who[c].ip = i
    BY <1>1, HolderFacts DEF Open
  <2>2. c \in HoldersOf(u, i) /\ i \in IPs
    BY <1>2, <2>1 DEF HoldersOf
  <2> QED
    BY <1>3, <2>2 DEF Machines
<1>5. ASSUME NEW i \in Machines(u) PROVE i \in Ledger!Machines(u)
  <2>1. PICK c \in Holding : who[c].user = u /\ who[c].ip = i
    BY <1>3 DEF Machines, HoldersOf
  <2>2. Holder(c) \in {x \in Open : x.user = u} /\ Holder(c).ip = i
    BY <2>1, HolderFacts DEF Open
  <2> QED
    BY <1>1, <2>2
<1> QED
  BY <1>4, <1>5

\* acquire decides as the ledger does.
LEMMA SameDecision ==
    ASSUME SeatInv, NEW c \in Conns, pc[c] \in Past, Counted(c)
    PROVE  Ledger!Free(Holder(c)) <=> HasSeat(who[c].user, who[c].ip, who[c].limit)
<1>1. who[c].user \in Users /\ who[c].ip \in IPs
  BY HolderType
<1>2. Ledger!Machines(who[c].user) = Machines(who[c].user)
  BY <1>1, SameMachines
<1>3. who[c].ip \in Machines(who[c].user) <=> seats[who[c].user][who[c].ip] > 0
  BY <1>1 DEF Machines
<1>4. Ledger!Cardinality(Machines(who[c].user)) = Cardinality(Machines(who[c].user))
  BY DEF Ledger!Cardinality, Cardinality
<1> QED
  BY <1>2, <1>3, <1>4, HolderFacts DEF Ledger!Free, HasSeat

\* A step that changes neither who occupies a place nor who was denied one.
LEMMA LedgerIdle ==
    ASSUME \A c \in Conns :
              /\ (c \in Holding)' <=> c \in Holding
              /\ pc'[c] = "denied" <=> pc[c] = "denied"
              /\ c \in Holding \/ pc[c] = "denied" => who'[c] = who[c]
    PROVE  Open' = Open /\ Denied' = Denied
<1>1. Holding' = Holding /\ Holding \subseteq Conns
  BY DEF Holding
<1>2. \A c \in Conns : c \in Holding \/ pc[c] = "denied" => (Holder(c))' = Holder(c)
  BY DEF Holder
<1> QED
  BY <1>1, <1>2 DEF Open, Denied

\* A connection gives up its place.
LEMMA LedgerLeaves ==
    ASSUME SeatInv, NEW c \in Conns, pc[c] \in Past \ {"denied"}, Counted(c) => c \in Holding,
           pc' = [pc EXCEPT ![c] = "closed"], UNCHANGED who
    PROVE  Ledger!Next \/ (Open' = Open /\ Denied' = Denied)
<1>0. pc \in [Conns -> PCs]
  BY DEF SeatInv, SessInv, TypeInv, TypeOK
<1>1. \A d \in Conns \ {c} : (d \in Holding)' <=> d \in Holding
  BY <1>0 DEF Holding, Counted
<1>2. \A d \in Conns : pc'[d] = "denied" <=> pc[d] = "denied"
  BY <1>0
<1>3. c \notin Holding'
  BY <1>0 DEF Holding
<1>4. CASE ~Counted(c)
  <2>1. c \notin Holding
    BY <1>4 DEF Holding
  <2> QED
    BY <1>1, <1>2, <1>3, <2>1, LedgerIdle
<1>5. CASE Counted(c)
  <2>1. c \in Holding /\ Holder(c) \in Ledger!Holders
    BY <1>5, HolderType
  <2>2. \A d : (Holder(d))' = Holder(d)
    BY DEF Holder
  <2>3. Holding' = Holding \ {c}
    BY <1>1, <1>3 DEF Holding
  <2>4. Open' = Open \ {Holder(c)}
    BY <2>2, <2>3, HolderFacts DEF Open
  <2>5. Denied' = Denied
    BY <1>2, <2>2 DEF Denied
  <2>6. Ledger!Leave(Holder(c))
    BY <2>4, <2>5 DEF Ledger!Leave, Open, Denied
  <2> QED
    BY <2>1, <2>6 DEF Ledger!Next
<1> QED
  BY <1>4, <1>5

LEMMA LedgerAcquires ==
    ASSUME SeatInv, NEW c \in Conns, Acquire(c)
    PROVE  Ledger!Next \/ (Open' = Open /\ Denied' = Denied)
<1>0. /\ pc \in [Conns -> PCs] /\ pc[c] = "admitted" /\ pc[c] \in Past /\ who' = who
  BY DEF SeatInv, SessInv, TypeInv, TypeOK, Acquire, Past, PCs
<1>1. \A d : (Holder(d))' = Holder(d)
  BY <1>0 DEF Holder
<1>2. CASE ~Counted(c)
  <2>1. pc' = [pc EXCEPT ![c] = "seated"]
    BY <1>2 DEF Acquire
  <2> QED
    BY <1>0, <1>2, <2>1, LedgerIdle DEF Holding, Counted
<1>3. CASE Counted(c) /\ HasSeat(who[c].user, who[c].ip, who[c].limit)
  <2>1. pc' = [pc EXCEPT ![c] = "seated"]
    BY <1>3 DEF Acquire
  <2>2. Holding' = Holding \cup {c} /\ \A d \in Conns : pc'[d] = "denied" <=> pc[d] = "denied"
    BY <1>0, <1>3, <2>1 DEF Holding, Counted
  <2>3. Open' = Open \cup {Holder(c)} /\ Denied' = Denied
    BY <1>1, <2>2 DEF Open, Denied
  <2>4. Ledger!Admit(Holder(c))
    BY <1>0, <1>3, <2>3, SameDecision DEF Ledger!Admit, Open, Denied
  <2> QED
    BY <1>0, <1>3, <2>4, HolderType DEF Ledger!Next
<1>4. CASE Counted(c) /\ ~HasSeat(who[c].user, who[c].ip, who[c].limit)
  <2>1. pc' = [pc EXCEPT ![c] = "denied"]
    BY <1>4 DEF Acquire
  <2>2. /\ Holding' = Holding
        /\ \A d \in Conns : pc'[d] = "denied" <=> (pc[d] = "denied" \/ d = c)
    BY <1>0, <2>1 DEF Holding, Counted
  <2>3. Open' = Open /\ Denied' = Denied \cup {Holder(c)}
    BY <1>1, <2>2 DEF Open, Denied
  <2>4. Ledger!Deny(Holder(c))
    BY <1>0, <1>4, <2>3, SameDecision DEF Ledger!Deny, Open, Denied
  <2>5. Holder(c) \in Ledger!Holders
    BY <1>0, <1>4, HolderType
  <2>6. \E o \in Ledger!Holders : Ledger!Deny(o)
    BY <2>4, <2>5 DEF Ledger!Deny, Ledger!Free
  <2> QED
    BY <2>6 DEF Ledger!Next
<1> QED
  BY <1>2, <1>3, <1>4

\* Every step is one of the ledger, or changes nothing that it sees.
LEMMA LedgerStep ==
    ASSUME SeatInv, [Next]_vars
    PROVE  Ledger!Next \/ (Open' = Open /\ Denied' = Denied)
<1>0. pc \in [Conns -> PCs] /\ who \in [Conns -> Peer \cup {None}]
  BY DEF SeatInv, SessInv, TypeInv, TypeOK
<1>1. CASE Reload \/ UNCHANGED vars
  BY <1>1, LedgerIdle DEF Reload, vars, Holding, Counted
<1>2. ASSUME NEW c \in Conns, Accept(c) \/ HandshakeFail(c)
      PROVE  Open' = Open /\ Denied' = Denied
  BY <1>0, <1>2, LedgerIdle DEF Accept, HandshakeFail, Holding, Counted
<1>3. ASSUME NEW c \in Conns, NEW u \in Users, NEW i \in Addrs, NEW h \in Heads,
             Handshake(c, u, i, h)
      PROVE  Open' = Open /\ Denied' = Denied
  <2>1. /\ pc[c] = "accepted" /\ \A d \in Conns \ {c} : who'[d] = who[d]
        /\ \E t \in {"admitted", "refused"} : pc' = [pc EXCEPT ![c] = t]
    BY <1>0, <1>3 DEF Handshake
  <2> QED
    BY <1>0, <2>1, LedgerIdle DEF Holding, Counted
<1>4. ASSUME NEW c \in Conns, Serve(c) \/ Reject(c) \/ Finish(c) \/ Start(c) \/ Join(c)
      PROVE  Open' = Open /\ Denied' = Denied
  <2>1. /\ pc[c] \in {"seated", "serving", "leading"} /\ who' = who
        /\ \E t \in {"serving", "leaving", "ending", "leading", "kept"} :
              pc' = [pc EXCEPT ![c] = t]
    BY <1>4 DEF Serve, Reject, Finish, Start, Join, Place
  <2> QED
    BY <1>0, <2>1, LedgerIdle DEF Holding, Counted
<1>5. ASSUME NEW c \in Conns, Leave(c)
      PROVE  Ledger!Next \/ (Open' = Open /\ Denied' = Denied)
  BY <1>5, LedgerLeaves DEF Leave, Holding, Past, PCs
<1>6. ASSUME NEW k \in Conns, TimerFires(k) \/ Drop(k)
      PROVE  Open' = Open /\ Denied' = Denied
  BY <1>6, LedgerIdle DEF TimerFires, Drop, Holding, Counted
<1>7. ASSUME NEW k \in Conns, NEW c \in Conns, DropRelease(k, c) \/ StripeRelease(k, c)
      PROVE  Ledger!Next \/ (Open' = Open /\ Denied' = Denied)
  <2>1. /\ pc[c] \in {"kept", "ending"} /\ who' = who
        /\ pc' = [pc EXCEPT ![c] = "closed"]
    BY <1>7 DEF DropRelease, StripeRelease
  <2> QED
    BY <2>1, LedgerLeaves DEF Holding, Past, PCs
<1> QED
  BY <1>1, <1>2, <1>3, LedgerAcquires, <1>4, <1>5, <1>6, <1>7
     DEF Next, HandlerStep, SessionStep

\* "A place is freed when the last connection from that address has closed" and
\* a machine is turned away only when all places are taken by others (README;
\* acquire, release): the counters decide as if the open connections were
\* counted, when a session comes from one address and no limit is lifted.
THEOREM CountersKeepLedger ==
    ASSUME SingleHomed, LimitsPositive
    PROVE  Spec => ImplementsSeatSpec
<1>1. Init => SeatInv /\ Ledger!Init
  <2>1. Init => Holding = {} /\ {d \in Conns : pc[d] = "denied"} = {}
    BY DEF Init, Holding
  <2> QED
    BY <2>1, SeatInit DEF Ledger!Init
<1>2. SeatInv /\ [Next]_vars => SeatInv'
  BY SeatStep
<1>3. SeatInv /\ [Next]_vars => [Ledger!Next]_(Ledger!vars)
  BY LedgerStep DEF Ledger!vars, Open, Denied
<1> QED
  BY <1>1, <1>2, <1>3, PTL DEF Spec, ImplementsSeatSpec, Ledger!Spec

-----------------------------------------------------------------------------
(* What becomes of the striped sessions, of the connections in their slots  *)
(* and of their timers.                                                     *)

Placed == {"kept", "leading", "ending", "closed"}
InCharge == {"leading", "ending", "closed"}

\* A connection that has not created a session is not the name of one; one
\* that has is in its own session, and past its handler's decision.
Fresh == \A k \in Conns : timer[k] = "none" =>
    /\ \A i \in Idx : slot[k][i] = None
    /\ size[k] = 0 /\ got[k] = 0 /\ leader[k] = None
    /\ \A s \in SIDs : sess[s] # k
Made == \A k \in Conns : timer[k] # "none" => pc[k] \in Placed

\* A session in the map has no leader, and a timer that will still act.
Pending == \A s \in SIDs : sess[s] # None =>
    leader[sess[s]] = None /\ timer[sess[s]] \in {"armed", "fired"}

\* Once a session has a leader its timer can do nothing more.
Led == \A k \in Conns : leader[k] # None =>
    timer[k] \in {"stopped", "fired"} /\ pc[leader[k]] \in InCharge

\* got is the number of slots that are taken, all of them below the size.
Filled(k) == {i \in Idx : slot[k][i] # None}
Sized == \A k \in Conns :
    /\ got[k] = Cardinality(Filled(k))
    /\ size[k] # 0 => \A i \in Filled(k) : i < size[k]

WholeInv == SessInv /\ Fresh /\ Made /\ Pending /\ Led /\ Sized /\ ServedWhole

\* Nobody is in two sessions.
Disjoint == \A j, k \in Conns : j # k => Members(j) \cap Members(k) = {}

OrphanInv == WholeInv /\ Disjoint /\ NoOrphan

-----------------------------------------------------------------------------

LEMMA FilledFinite ==
    ASSUME NEW k \in Conns
    PROVE  /\ IsFiniteSet(Filled(k)) /\ Cardinality(Filled(k)) \in Nat
           /\ Filled(k) \subseteq Idx
<1>1. IsFiniteSet(Idx)
  BY ConstantsAssumption, FS_Interval DEF Idx
<1>2. Filled(k) \subseteq Idx
  BY DEF Filled
<1> QED
  BY <1>1, <1>2, FS_Subset, FS_CardinalityType

LEMMA WholeInit == Init => OrphanInv
<1> SUFFICES ASSUME Init PROVE OrphanInv
  OBVIOUS
<1>1. \A k \in Conns : Members(k) = {} /\ Filled(k) = {}
  BY DEF Init, Members, Filled
<1>2. Sized
  BY <1>1, FS_EmptySet DEF Init, Sized
<1>3. Fresh /\ Made /\ Pending /\ Led /\ ServedWhole
  BY ConstantsAssumption DEF Init, Fresh, Made, Pending, Led, ServedWhole
<1>4. Disjoint /\ NoOrphan
  BY <1>1 DEF Init, Disjoint, NoOrphan
<1> QED
  BY SessInit, <1>2, <1>3, <1>4 DEF WholeInv, OrphanInv

\* What a step that leaves the sessions alone may do to their connections.
LEMMA WholeIdle ==
    ASSUME WholeInv, SessInv', UNCHANGED tables,
           \A c \in Conns : /\ pc[c] \in Placed => pc'[c] \in Placed
                            /\ pc[c] \in InCharge => pc'[c] \in InCharge
    PROVE  WholeInv'
<1>1. \A k \in Conns : leader[k] # None => leader[k] \in Conns
  BY DEF WholeInv, SessInv, TypeInv, TypeOK
<1>2. Fresh' /\ Made' /\ Pending' /\ Led'
  BY <1>1 DEF WholeInv, Fresh, Made, Pending, Led, tables
<1>3. Sized' /\ ServedWhole'
  BY DEF WholeInv, Sized, Filled, ServedWhole, tables
<1> QED
  BY <1>2, <1>3 DEF WholeInv

\* The session a connection comes to: its own, new one, or one that waits.
LEMMA SessionOf ==
    ASSUME WholeInv, NEW c \in Conns, pc[c] = "seated",
           who[c].head.kind \in {"start", "join"}
    PROVE  /\ At(c) \in Conns /\ Sid(c) \in SIDs
           /\ timer[c] = "none" /\ leader[At(c)] = None
           /\ At(c) # c => /\ sess[Sid(c)] = At(c)
                           /\ timer[At(c)] \in {"armed", "fired"}
                           /\ Sid(At(c)) = Sid(c)
<1>1. At(c) \in Conns /\ Sid(c) \in SIDs
  BY AtFacts DEF WholeInv, SessInv, Past, PCs
<1>2. timer[c] = "none"
  BY DEF WholeInv, Made, Placed
<1>3. CASE At(c) = c
  BY <1>1, <1>2, <1>3 DEF WholeInv, Fresh
<1>4. CASE At(c) # c
  BY <1>1, <1>2, <1>4 DEF At, WholeInv, Pending, SessInv, Sessions
<1> QED
  BY <1>1, <1>2, <1>3, <1>4

LEMMA PlaceWhole ==
    ASSUME WholeInv, SessInv', NEW c \in Conns, NEW i \in Idx, NEW n \in 0 .. MaxStripe,
           pc[c] = "seated", who[c].head.kind \in {"start", "join"},
           slot[At(c)][i] = None,
           n # 0 => i < n /\ \A x \in Filled(At(c)) : x < n,
           Place(c, i, n)
    PROVE  WholeInv'
<1>1. PICK k \in Conns : k = At(c)
  BY SessionOf
<1>2. /\ Sid(c) \in SIDs /\ timer[c] = "none" /\ leader[k] = None
      /\ k # c => /\ sess[Sid(c)] = k /\ timer[k] \in {"armed", "fired"}
                  /\ Sid(k) = Sid(c)
  BY <1>1, SessionOf
<1>3. /\ pc \in [Conns -> PCs] /\ slot \in [Conns -> [Idx -> Conns \cup {None}]]
      /\ sess \in [SIDs -> Conns \cup {None}] /\ leader \in [Conns -> Conns \cup {None}]
      /\ timer \in [Conns -> Timers] /\ got \in [Conns -> Nat]
      /\ size \in [Conns -> 0 .. MaxStripe] /\ None \notin Conns
      /\ MaxStripe \in Nat \ {0}
  BY ConstantsAssumption DEF WholeInv, SessInv, TypeInv, TypeOK
<1>4. /\ slot' = [slot EXCEPT ![k][i] = c] /\ size' = [size EXCEPT ![k] = n]
      /\ got' = [got EXCEPT ![k] = @ + 1] /\ slot[k][i] = None
  BY <1>1 DEF Place
<1>5. \/ /\ Ready(n, got[k] + 1) /\ sess' = [sess EXCEPT ![Sid(c)] = None]
         /\ timer' = [timer EXCEPT ![k] = Stop(timer[k])]
         /\ leader' = [leader EXCEPT ![k] = c] /\ pc' = [pc EXCEPT ![c] = "leading"]
      \/ /\ ~Ready(n, got[k] + 1) /\ sess' = [sess EXCEPT ![Sid(c)] = k]
         /\ timer' = IF k = c THEN [timer EXCEPT ![k] = "armed"] ELSE timer
         /\ leader' = leader /\ pc' = [pc EXCEPT ![c] = "kept"]
  BY <1>1 DEF Place
<1>6. \A j \in Conns \ {k} : /\ slot'[j] = slot[j] /\ size'[j] = size[j]
                             /\ got'[j] = got[j] /\ leader'[j] = leader[j]
                             /\ timer'[j] = timer[j]
  BY <1>3, <1>4, <1>5
<1>7. timer'[k] \in {"armed", "fired", "stopped"}
  BY <1>2, <1>3, <1>5 DEF Stop
<1>8. Fresh'
  <2> SUFFICES ASSUME NEW j \in Conns, timer'[j] = "none"
               PROVE  /\ \A x \in Idx : slot'[j][x] = None
                      /\ size'[j] = 0 /\ got'[j] = 0 /\ leader'[j] = None
                      /\ \A s \in SIDs : sess'[s] # j
    BY DEF Fresh
  <2>1. j # k
    BY <1>7
  <2>2. \A s \in SIDs : sess'[s] # j
    BY <1>2, <1>3, <1>5, <1>6, <2>1 DEF WholeInv, Fresh
  <2> QED
    BY <1>6, <2>1, <2>2 DEF WholeInv, Fresh
<1>9. Made'
  BY <1>2, <1>3, <1>5, <1>6 DEF WholeInv, Made, Placed
<1>10. Pending'
  <2> SUFFICES ASSUME NEW s \in SIDs, sess'[s] # None
               PROVE  leader'[sess'[s]] = None /\ timer'[sess'[s]] \in {"armed", "fired"}
    BY DEF Pending
  <2>1. CASE s = Sid(c)
    <3>1. sess'[s] = k /\ leader' = leader
      BY <1>2, <1>3, <1>5, <2>1
    <3>2. timer'[k] \in {"armed", "fired"}
      BY <1>2, <1>3, <1>5, <2>1
    <3> QED
      BY <1>2, <3>1, <3>2
  <2>2. CASE s # Sid(c)
    <3>1. sess'[s] = sess[s] /\ sess[s] \in Conns /\ Sid(sess[s]) = s
      BY <1>2, <1>3, <1>5, <2>2 DEF WholeInv, SessInv, Sessions
    <3>2. sess[s] # k
      BY <1>2, <2>2, <3>1 DEF WholeInv, Fresh
    <3> QED
      BY <1>6, <3>1, <3>2 DEF WholeInv, Pending
  <2> QED
    BY <2>1, <2>2
<1>11. Led'
  <2> SUFFICES ASSUME NEW j \in Conns, leader'[j] # None
               PROVE  timer'[j] \in {"stopped", "fired"} /\ pc'[leader'[j]] \in InCharge
    BY DEF Led
  <2>1. CASE j = k
    <3>1. leader'[k] = c /\ pc'[c] = "leading" /\ timer'[k] = Stop(timer[k])
      BY <1>2, <1>3, <1>5, <2>1
    <3> QED
      BY <2>1, <3>1 DEF Stop, InCharge
  <2>2. CASE j # k
    <3>1. leader'[j] = leader[j] /\ leader[j] \in Conns /\ pc[leader[j]] \in InCharge
      BY <1>3, <1>6, <2>2 DEF WholeInv, Led
    <3>2. leader[j] # c
      BY <3>1 DEF InCharge
    <3> QED
      BY <1>3, <1>5, <1>6, <2>2, <3>1, <3>2 DEF WholeInv, Led
  <2> QED
    BY <2>1, <2>2
<1>12. /\ Filled(k)' = Filled(k) \cup {i} /\ i \notin Filled(k)
       /\ \A j \in Conns \ {k} : Filled(j)' = Filled(j)
  BY <1>3, <1>4, <1>6 DEF Filled
<1>13. Cardinality(Filled(k)') = got[k] + 1 /\ got'[k] = got[k] + 1
  <2> DEFINE F == Filled(k)
  <2>1. IsFiniteSet(F) /\ i \notin F /\ got[k] = Cardinality(F)
    BY <1>12, FilledFinite DEF WholeInv, Sized
  <2> HIDE DEF F
  <2>2. Cardinality(F \cup {i}) = Cardinality(F) + 1
    BY <2>1, FS_AddElement
  <2> QED
    BY <1>3, <1>4, <1>12, <2>1, <2>2 DEF F
<1>14. size'[k] = n
  BY <1>3, <1>4
<1>15. n # 0 => \A x \in Filled(k)' : x < n
  BY <1>1, <1>12
<1>16. Sized'
  <2> SUFFICES ASSUME NEW j \in Conns
               PROVE  /\ got'[j] = Cardinality(Filled(j)')
                      /\ size'[j] # 0 => \A x \in Filled(j)' : x < size'[j]
    BY DEF Sized
  <2>1. CASE j = k
    BY <1>13, <1>14, <1>15, <2>1
  <2>2. CASE j # k
    BY <1>6, <1>12, <2>2 DEF WholeInv, Sized
  <2> QED
    BY <2>1, <2>2
<1>17. ServedWhole'
  <2> SUFFICES ASSUME NEW j \in Conns, leader'[j] # None
               PROVE  \A x \in Idx : (slot'[j][x] # None) <=> (x < size'[j])
    BY DEF ServedWhole
  <2>1. CASE j = k
    <3>1. n # 0 /\ got[k] + 1 >= n
      BY <1>2, <1>5, <2>1 DEF Ready
    <3> DEFINE F == Filled(k)'
               N == 0 .. n - 1
    <3>2. IsFiniteSet(N) /\ Cardinality(N) = n
      BY <3>1, FS_Interval
    <3>3. F \in SUBSET N
      BY <1>12, <1>15, <3>1, FilledFinite DEF Idx
    <3>4. Cardinality(F) >= n
      BY <1>13, <3>1
    <3> HIDE DEF F, N
    <3>5. F = N
      <4>1. Cardinality(F) <= n /\ Cardinality(F) \in Nat
        BY <3>2, <3>3, FS_Subset, FS_CardinalityType
      <4>2. Cardinality(F) = Cardinality(N)
        BY <3>2, <3>4, <4>1
      <4> QED
        BY <3>2, <3>3, <4>2, FS_Subset
    <3>6. \A x \in Idx : x \in N <=> x < n
      BY DEF N, Idx
    <3>7. \A x \in Idx : x \in F <=> slot'[k][x] # None
      BY DEF F, Filled
    <3> QED
      BY <1>14, <2>1, <3>5, <3>6, <3>7
  <2>2. CASE j # k
    BY <1>6, <2>2 DEF WholeInv, ServedWhole
  <2> QED
    BY <2>1, <2>2
<1> QED
  BY <1>8, <1>9, <1>10, <1>11, <1>16, <1>17 DEF WholeInv

\* Which connection a step closes, and how far the others come.
LEMMA WholeStep == WholeInv /\ [Next]_vars => WholeInv'
<1> SUFFICES ASSUME WholeInv, [Next]_vars PROVE WholeInv'
  OBVIOUS
<1>0. /\ SessInv' /\ pc \in [Conns -> PCs] /\ timer \in [Conns -> Timers]
      /\ sess \in [SIDs -> Conns \cup {None}]
  BY SessStep DEF WholeInv, SessInv, TypeInv, TypeOK
<1>1. CASE Reload \/ UNCHANGED vars
  BY <1>0, <1>1, WholeIdle DEF Reload, vars
<1>2. ASSUME NEW c \in Conns, Accept(c) \/ HandshakeFail(c) \/ Acquire(c) \/ Serve(c)
                \/ Reject(c) \/ Finish(c) \/ Leave(c)
      PROVE  WholeInv'
  <2>1. /\ UNCHANGED tables
        /\ \/ /\ pc[c] \notin Placed
              /\ \E t \in PCs : pc' = [pc EXCEPT ![c] = t]
           \/ pc' = [pc EXCEPT ![c] = "ending"]
    BY <1>2 DEF Accept, HandshakeFail, Acquire, Serve, Reject, Finish, Leave, PCs, Placed
  <2> QED
    BY <1>0, <2>1, WholeIdle DEF Placed, InCharge
<1>3. ASSUME NEW c \in Conns, NEW u \in Users, NEW i \in Addrs, NEW h \in Heads,
             Handshake(c, u, i, h)
      PROVE  WholeInv'
  <2>1. /\ UNCHANGED tables /\ pc[c] = "accepted"
        /\ \E t \in PCs : pc' = [pc EXCEPT ![c] = t]
    BY <1>3 DEF Handshake, PCs
  <2> QED
    BY <1>0, <2>1, WholeIdle DEF Placed, InCharge
<1>4. ASSUME NEW c \in Conns, Start(c) PROVE WholeInv'
  <2>1. /\ Arg(c) \in 1 .. MaxStripe /\ 0 \in Idx /\ slot[At(c)][0] = None
        /\ \A x \in Idx : x >= Arg(c) => slot[At(c)][x] = None
    BY <1>4, AtFacts, ConstantsAssumption
       DEF Start, CanStart, WholeInv, SessInv, Past, PCs, Idx
  <2>2. \A x \in Filled(At(c)) : x < Arg(c)
    BY <2>1 DEF Filled, Idx
  <2> QED
    BY <1>0, <1>4, <2>1, <2>2, PlaceWhole DEF Start
<1>5. ASSUME NEW c \in Conns, Join(c) PROVE WholeInv'
  <2>1. /\ At(c) \in Conns /\ Arg(c) \in Idx /\ slot[At(c)][Arg(c)] = None
        /\ size[At(c)] # 0 => Arg(c) < size[At(c)]
    BY <1>5, AtFacts, ConstantsAssumption
       DEF Join, CanJoin, WholeInv, SessInv, Past, PCs, Idx
  <2>2. size[At(c)] \in 0 .. MaxStripe
    BY <2>1 DEF WholeInv, SessInv, TypeInv, TypeOK
  <2>3. size[At(c)] # 0 => \A x \in Filled(At(c)) : x < size[At(c)]
    BY <2>1 DEF WholeInv, Sized
  <2> QED
    BY <1>0, <1>5, <2>1, <2>2, <2>3, PlaceWhole DEF Join
<1>6. ASSUME NEW k \in Conns, TimerFires(k) PROVE WholeInv'
  <2>1. /\ UNCHANGED <<pc, sess, size, slot, got, leader>>
        /\ timer[k] = "armed" /\ timer' = [timer EXCEPT ![k] = "fired"]
    BY <1>6 DEF TimerFires
  <2>2. Fresh' /\ Made' /\ Pending' /\ Led'
    BY <1>0, <2>1 DEF WholeInv, Fresh, Made, Pending, Led
  <2>3. Sized' /\ ServedWhole'
    BY <2>1 DEF WholeInv, Sized, Filled, ServedWhole
  <2> QED
    BY <1>0, <2>2, <2>3 DEF WholeInv
<1>7. ASSUME NEW k \in Conns, Drop(k) PROVE WholeInv'
  <2>1. /\ UNCHANGED <<pc, size, slot, got, leader>> /\ timer[k] = "fired"
        /\ \/ /\ sess[Sid(k)] # k /\ sess' = sess
              /\ timer' = [timer EXCEPT ![k] = "stopped"]
           \/ /\ sess[Sid(k)] = k /\ sess' = [sess EXCEPT ![Sid(k)] = None]
              /\ timer' = [timer EXCEPT ![k] = "dropping"]
    BY <1>7 DEF Drop
  <2>2. \A s \in SIDs : sess[s] = k => s = Sid(k)
    BY ConstantsAssumption DEF WholeInv, SessInv, Sessions
  <2>3. \A s \in SIDs : sess'[s] # k
    BY <1>0, <2>1, <2>2, ConstantsAssumption
  <2>4. \A s \in SIDs : sess'[s] # None => sess'[s] = sess[s] /\ sess[s] \in Conns
    BY <1>0, <2>1
  <2>5. Fresh' /\ Made' /\ Pending'
    <3>1. \A j \in Conns \ {k} : timer'[j] = timer[j]
      BY <1>0, <2>1
    <3>2. timer'[k] # "none"
      BY <1>0, <2>1
    <3>3. Fresh'
      BY <2>1, <2>4, <3>1, <3>2, ConstantsAssumption DEF WholeInv, Fresh
    <3>4. Made'
      BY <2>1, <3>1 DEF WholeInv, Made
    <3>5. Pending'
      BY <2>1, <2>3, <2>4, <3>1 DEF WholeInv, Pending
    <3> QED
      BY <3>3, <3>4, <3>5
  <2>6. Led'
    <3>1. leader[k] # None => Sid(k) \in SIDs
      BY DEF WholeInv, SessInv, Sessions, Slots
    <3>2. leader[k] # None => sess[Sid(k)] # k
      BY <3>1, ConstantsAssumption DEF WholeInv, Pending
    <3> QED
      BY <1>0, <2>1, <3>2 DEF WholeInv, Led
  <2>7. Sized' /\ ServedWhole'
    BY <2>1 DEF WholeInv, Sized, Filled, ServedWhole
  <2> QED
    BY <1>0, <2>5, <2>6, <2>7 DEF WholeInv
<1>8. ASSUME NEW k \in Conns, NEW c \in Conns, DropRelease(k, c) \/ StripeRelease(k, c)
      PROVE  WholeInv'
  <2>1. UNCHANGED tables /\ pc' = [pc EXCEPT ![c] = "closed"]
    BY <1>8 DEF DropRelease, StripeRelease
  <2> QED
    BY <1>0, <2>1, WholeIdle DEF Placed, InCharge
<1> QED
  BY <1>1, <1>2, <1>3, <1>4, <1>5, <1>6, <1>7, <1>8 DEF Next, HandlerStep, SessionStep

LEMMA WholeInvariant == Spec => []WholeInv
<1>1. Init => WholeInv
  BY WholeInit DEF OrphanInv
<1> QED
  BY <1>1, WholeStep, PTL DEF Spec

\* A session is served when every announced slot holds a connection, and with
\* no other: a count of connections (ready) is enough because start and join
\* take none beyond the announced size.
THEOREM StripesAreWhole == Spec => []ServedWhole
<1>1. WholeInv => ServedWhole
  BY DEF WholeInv
<1> QED
  BY <1>1, WholeInvariant, PTL

\* However late Stop comes for the timer (ready, drop): a session that is
\* served is not dropped.
THEOREM ServedNotDropped == Spec => []ServedOrDropped
<1>1. WholeInv => ServedOrDropped
  BY DEF WholeInv, Led, ServedOrDropped
<1> QED
  BY <1>1, WholeInvariant, PTL

-----------------------------------------------------------------------------
(* Nobody is left behind.                                                  *)

\* Somebody will close the connections of k: its timer, its leader, or drop.
Alive(k) ==
    \/ sess[Sid(k)] = k /\ timer[k] \in {"armed", "fired"}
    \/ leader[k] # None /\ pc[leader[k]] \in {"leading", "ending"}
    \/ timer[k] = "dropping"

\* A step that puts nobody into a slot.
LEMMA OrphanIdle ==
    ASSUME OrphanInv, WholeInv', UNCHANGED slot,
           \A d \in Conns : pc'[d] = "kept" => pc[d] = "kept",
           \A k \in Conns, d \in Conns :
                d \in Members(k) /\ pc'[d] = "kept" /\ Alive(k) => Alive(k)'
    PROVE  OrphanInv'
<1>1. \A k : Members(k)' = Members(k)
  BY DEF Members
<1>2. Disjoint'
  BY <1>1 DEF OrphanInv, Disjoint
<1>3. NoOrphan'
  <2> SUFFICES ASSUME NEW d \in Conns, pc'[d] = "kept"
               PROVE  \E k \in Conns :
                        /\ d \in Members(k)'
                        /\ \A j \in Conns \ {k} : d \notin Members(j)'
                        /\ Alive(k)'
    BY DEF NoOrphan, Alive
  <2>1. PICK k \in Conns : /\ d \in Members(k)
                           /\ \A j \in Conns \ {k} : d \notin Members(j)
                           /\ Alive(k)
    BY DEF OrphanInv, NoOrphan, Alive
  <2>2. Alive(k)'
    BY <2>1
  <2> QED
    BY <1>1, <2>1, <2>2
<1> QED
  BY <1>2, <1>3 DEF OrphanInv

LEMMA PlaceOrphan ==
    ASSUME OrphanInv, WholeInv', NEW c \in Conns, NEW i \in Idx, NEW n \in 0 .. MaxStripe,
           pc[c] = "seated", who[c].head.kind \in {"start", "join"},
           slot[At(c)][i] = None, Place(c, i, n)
    PROVE  OrphanInv'
<1>1. PICK k \in Conns : k = At(c)
  BY SessionOf DEF OrphanInv
<1>2. /\ Sid(c) \in SIDs /\ timer[c] = "none" /\ Sid(k) = Sid(c)
      /\ k # c => timer[k] \in {"armed", "fired"}
  BY <1>1, SessionOf DEF OrphanInv
<1>3. /\ pc \in [Conns -> PCs] /\ sess \in [SIDs -> Conns \cup {None}]
      /\ leader \in [Conns -> Conns \cup {None}] /\ timer \in [Conns -> Timers]
      /\ None \notin Conns /\ TypeInv
  BY ConstantsAssumption DEF OrphanInv, WholeInv, SessInv, TypeInv, TypeOK
<1>4. slot' = [slot EXCEPT ![k][i] = c] /\ slot[k][i] = None /\ UNCHANGED who
  BY <1>1 DEF Place
<1>5. \/ /\ sess' = [sess EXCEPT ![Sid(c)] = None]
         /\ timer' = [timer EXCEPT ![k] = Stop(timer[k])]
         /\ leader' = [leader EXCEPT ![k] = c] /\ pc' = [pc EXCEPT ![c] = "leading"]
      \/ /\ sess' = [sess EXCEPT ![Sid(c)] = k]
         /\ timer' = IF k = c THEN [timer EXCEPT ![k] = "armed"] ELSE timer
         /\ leader' = leader /\ pc' = [pc EXCEPT ![c] = "kept"]
  BY <1>1 DEF Place
<1>6. /\ Members(k)' = Members(k) \cup {c}
      /\ \A j \in Conns \ {k} : Members(j)' = Members(j)
  BY <1>3, <1>4, MembersPlaced
<1>7. \A j \in Conns : c \notin Members(j)
  BY DEF OrphanInv, WholeInv, SessInv, Slots
<1>8. Disjoint'
  BY <1>6, <1>7 DEF OrphanInv, Disjoint
<1>9. Alive(k)'
  BY <1>2, <1>3, <1>4, <1>5 DEF Alive, Sid
<1>10. ASSUME NEW j \in Conns \ {k}, Members(j) # {}, Alive(j) PROVE Alive(j)'
  <2>1. Sid(j) \in SIDs /\ (Sid(j))' = Sid(j)
    BY <1>4, <1>10 DEF OrphanInv, WholeInv, SessInv, Slots, Sid
  <2>2. timer'[j] = timer[j] /\ leader'[j] = leader[j]
    BY <1>3, <1>5
  <2>3. sess[Sid(j)] = j => sess'[Sid(j)] = j
    BY <1>1, <1>3, <1>5, <2>1 DEF At
  <2>4. leader[j] # None => leader[j] \in Conns /\ leader[j] # c
    BY <1>3 DEF OrphanInv, WholeInv, Led, InCharge
  <2>5. leader[j] # None => pc'[leader[j]] = pc[leader[j]]
    BY <1>3, <1>5, <2>4
  <2> QED
    BY <1>10, <2>1, <2>2, <2>3, <2>5 DEF Alive
<1>11. NoOrphan'
  <2> SUFFICES ASSUME NEW d \in Conns, pc'[d] = "kept"
               PROVE  \E j \in Conns :
                        /\ d \in Members(j)'
                        /\ \A x \in Conns \ {j} : d \notin Members(x)'
                        /\ Alive(j)'
    BY DEF NoOrphan, Alive
  <2>1. CASE d = c
    BY <1>6, <1>7, <1>9, <2>1
  <2>2. CASE d # c
    <3>1. pc[d] = "kept"
      BY <1>3, <1>5, <2>2
    <3>2. PICK j \in Conns : /\ d \in Members(j)
                             /\ \A x \in Conns \ {j} : d \notin Members(x)
                             /\ Alive(j)
      BY <3>1 DEF OrphanInv, NoOrphan, Alive
    <3>3. Alive(j)'
      BY <1>9, <1>10, <3>2
    <3>4. d \in Members(j)' /\ \A x \in Conns \ {j} : d \notin Members(x)'
      BY <1>6, <2>2, <3>2
    <3> QED
      BY <3>3, <3>4
  <2> QED
    BY <2>1, <2>2
<1> QED
  BY <1>8, <1>11 DEF OrphanInv

LEMMA OrphanStep == OrphanInv /\ [Next]_vars => OrphanInv'
<1> SUFFICES ASSUME OrphanInv, [Next]_vars PROVE OrphanInv'
  OBVIOUS
<1>0. /\ WholeInv' /\ pc \in [Conns -> PCs] /\ timer \in [Conns -> Timers]
      /\ sess \in [SIDs -> Conns \cup {None}] /\ leader \in [Conns -> Conns \cup {None}]
  BY WholeStep DEF OrphanInv, WholeInv, SessInv, TypeInv, TypeOK
<1>1. ASSUME NEW c \in Conns, UNCHANGED <<who, tables>>,
             \/ pc[c] \notin Placed /\ \E t \in PCs \ {"kept"} : pc' = [pc EXCEPT ![c] = t]
             \/ pc' = [pc EXCEPT ![c] = "ending"]
      PROVE  OrphanInv'
  <2>1. \A k \in Conns : leader[k] # None => pc[leader[k]] \in InCharge
    BY DEF OrphanInv, WholeInv, Led
  <2>2. \A d \in Conns : pc[d] \in {"leading", "ending"} => pc'[d] \in {"leading", "ending"}
    BY <1>0, <1>1 DEF Placed
  <2>3. \A k \in Conns : Alive(k) => Alive(k)'
    BY <1>0, <1>1, <2>1, <2>2 DEF Alive, Sid, tables
  <2> QED
    BY <1>0, <1>1, <2>3, OrphanIdle DEF tables
<1>2. CASE Reload \/ UNCHANGED vars
  <2>1. \A k \in Conns : Alive(k)' <=> Alive(k)
    BY <1>2 DEF Reload, vars, tables, Alive, Sid
  <2> QED
    BY <1>0, <1>2, <2>1, OrphanIdle DEF Reload, vars, tables
<1>3. ASSUME NEW c \in Conns, Accept(c) \/ HandshakeFail(c) \/ Acquire(c) \/ Serve(c)
                \/ Reject(c) \/ Finish(c) \/ Leave(c)
      PROVE  OrphanInv'
  <2>1. /\ UNCHANGED <<who, tables>>
        /\ \/ /\ pc[c] \notin Placed
              /\ \E t \in PCs \ {"kept"} : pc' = [pc EXCEPT ![c] = t]
           \/ pc' = [pc EXCEPT ![c] = "ending"]
    BY <1>3 DEF Accept, HandshakeFail, Acquire, Serve, Reject, Finish, Leave, PCs, Placed
  <2> QED
    BY <1>1, <2>1
<1>4. ASSUME NEW c \in Conns, NEW u \in Users, NEW i \in Addrs, NEW h \in Heads,
             Handshake(c, u, i, h)
      PROVE  OrphanInv'
  <2>1. /\ UNCHANGED tables /\ pc[c] = "accepted"
        /\ \E t \in {"admitted", "refused"} : pc' = [pc EXCEPT ![c] = t]
        /\ \A k \in Conns \ {c} : who'[k] = who[k]
    BY <1>4 DEF Handshake, OrphanInv, WholeInv, SessInv, TypeInv, TypeOK
  <2>2. \A k \in Conns : Members(k) # {} => k # c
    BY <2>1 DEF OrphanInv, WholeInv, SessInv, Slots, Past
  <2>3. \A k \in Conns : leader[k] # None => leader[k] # c
    BY <2>1 DEF OrphanInv, WholeInv, Led, InCharge
  <2>4. \A k \in Conns : Members(k) # {} /\ Alive(k) => Alive(k)'
    BY <1>0, <2>1, <2>2, <2>3 DEF Alive, Sid, tables
  <2> QED
    BY <1>0, <2>1, <2>4, OrphanIdle DEF tables
<1>5. ASSUME NEW c \in Conns, Start(c) PROVE OrphanInv'
  <2>1. Arg(c) \in 0 .. MaxStripe /\ 0 \in Idx /\ slot[At(c)][0] = None
    BY <1>5, AtFacts, ConstantsAssumption
       DEF Start, CanStart, OrphanInv, WholeInv, SessInv, Past, PCs, Idx
  <2> QED
    BY <1>0, <1>5, <2>1, PlaceOrphan DEF Start
<1>6. ASSUME NEW c \in Conns, Join(c) PROVE OrphanInv'
  <2>1. At(c) \in Conns /\ Arg(c) \in Idx /\ slot[At(c)][Arg(c)] = None
    BY <1>6, AtFacts, ConstantsAssumption
       DEF Join, CanJoin, OrphanInv, WholeInv, SessInv, Past, PCs, Idx
  <2>2. size[At(c)] \in 0 .. MaxStripe
    BY <2>1 DEF OrphanInv, WholeInv, SessInv, TypeInv, TypeOK
  <2> QED
    BY <1>0, <1>6, <2>1, <2>2, PlaceOrphan DEF Join
<1>7. ASSUME NEW k \in Conns, TimerFires(k) PROVE OrphanInv'
  <2>1. \A j \in Conns : Alive(j) => Alive(j)'
    BY <1>0, <1>7 DEF TimerFires, Alive, Sid
  <2> QED
    BY <1>0, <1>7, <2>1, OrphanIdle DEF TimerFires
<1>8. ASSUME NEW k \in Conns, Drop(k) PROVE OrphanInv'
  <2>1. /\ UNCHANGED <<pc, who, slot, leader>> /\ timer[k] = "fired"
        /\ \/ /\ sess[Sid(k)] # k /\ sess' = sess
              /\ timer' = [timer EXCEPT ![k] = "stopped"]
           \/ /\ sess[Sid(k)] = k /\ sess' = [sess EXCEPT ![Sid(k)] = None]
              /\ timer' = [timer EXCEPT ![k] = "dropping"]
    BY <1>8 DEF Drop
  <2>2. Alive(k) => Alive(k)'
    BY <1>0, <2>1 DEF Alive, Sid
  <2>3. ASSUME NEW j \in Conns \ {k}, Members(j) # {}, Alive(j) PROVE Alive(j)'
    <3>1. Sid(j) \in SIDs /\ timer'[j] = timer[j]
      BY <1>0, <2>1, <2>3 DEF OrphanInv, WholeInv, SessInv, Slots
    <3>2. sess[Sid(j)] = j => sess'[Sid(j)] = j
      BY <1>0, <2>1, <3>1
    <3> QED
      BY <2>1, <2>3, <3>1, <3>2 DEF Alive, Sid
  <2> QED
    BY <1>0, <2>1, <2>2, <2>3, OrphanIdle
<1>9. ASSUME NEW k \in Conns, NEW c \in Conns, DropRelease(k, c) \/ StripeRelease(k, c)
      PROVE  OrphanInv'
  <2>1. /\ UNCHANGED <<who, tables>> /\ pc' = [pc EXCEPT ![c] = "closed"]
        /\ \/ pc[c] = "kept"
           \/ /\ c = leader[k] /\ c \in Members(k)
              /\ \A d \in Members(k) \ {c} : pc[d] = "closed"
    BY <1>9 DEF DropRelease, StripeRelease
  <2>2. ASSUME NEW j \in Conns, NEW d \in Members(j), d \in Conns, pc'[d] = "kept",
               leader[j] # None
        PROVE  leader[j] # c
    <3>1. leader[j] \in Members(j) /\ pc[leader[j]] \in InCharge /\ d # c /\ pc[d] = "kept"
      BY <1>0, <2>1, <2>2 DEF OrphanInv, WholeInv, SessInv, Sessions, Led
    <3>2. CASE pc[c] = "kept"
      BY <3>1, <3>2 DEF InCharge
    <3>3. CASE /\ c = leader[k] /\ c \in Members(k)
               /\ \A e \in Members(k) \ {c} : pc[e] = "closed"
      <4>1. j # k
        BY <3>1, <3>3
      <4> QED
        BY <3>1, <3>3, <4>1 DEF OrphanInv, Disjoint
    <3> QED
      BY <2>1, <3>2, <3>3
  <2>3. ASSUME NEW j \in Conns, NEW d \in Conns, d \in Members(j), pc'[d] = "kept", Alive(j)
        PROVE  Alive(j)'
    <3>1. leader[j] # None => leader[j] \in Conns /\ pc'[leader[j]] = pc[leader[j]]
      BY <1>0, <2>1, <2>2, <2>3
    <3> QED
      BY <2>1, <2>3, <3>1 DEF Alive, Sid, tables
  <2> QED
    BY <1>0, <2>1, <2>3, OrphanIdle DEF tables
<1> QED
  BY <1>2, <1>3, <1>4, <1>5, <1>6, <1>7, <1>8, <1>9 DEF Next, HandlerStep, SessionStep

\* A connection whose handler has returned and left it to a session (keep) is
\* in one session only, and somebody will close it: the timer, drop, or the
\* handler that serves the session.
THEOREM NobodyLeftBehind == Spec => []NoOrphan
<1>1. OrphanInv => NoOrphan
  BY DEF OrphanInv
<1> QED
  BY WholeInit, OrphanStep, <1>1, PTL DEF Spec
=============================================================================
