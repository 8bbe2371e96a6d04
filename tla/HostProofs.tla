----------------------------- MODULE HostProofs -----------------------------
(***************************************************************************)
(* Theorems about the files of a host: for any names and releases, any     *)
(* files that are there at first and any bounds; of a file that is         *)
(* replaced by way of a temporary one, for any number of writers.          *)
(***************************************************************************)
EXTENDS Host, SequenceTheorems, TLAPS

-----------------------------------------------------------------------------
(* Lists.                                                                   *)

\* Without its entry i, a list has the others in their order.
LEMMA Removed ==
    ASSUME NEW S, NEW s \in Seq(S), NEW i \in DOMAIN s
    PROVE  LET r == SubSeq(s, 1, i - 1) \o SubSeq(s, i + 1, Len(s))
           IN  /\ r \in Seq(S) /\ Len(r) = Len(s) - 1
               /\ \A j \in 1 .. Len(s) - 1 : r[j] = s[IF j < i THEN j ELSE j + 1]
<1> DEFINE a == SubSeq(s, 1, i - 1)
           b == SubSeq(s, i + 1, Len(s))
<1>1. i \in 1 .. Len(s) /\ Len(s) \in Nat
  OBVIOUS
<1>2. a \in Seq(S) /\ Len(a) = i - 1 /\ \A j \in 1 .. i - 1 : a[j] = s[j]
  OBVIOUS
<1>3. b \in Seq(S) /\ Len(b) = Len(s) - i /\ \A j \in 1 .. Len(s) - i : b[j] = s[i + j]
  OBVIOUS
<1> HIDE DEF a, b
<1>4. /\ a \o b \in Seq(S) /\ Len(a \o b) = Len(s) - 1
      /\ \A j \in 1 .. Len(s) - 1 :
            (a \o b)[j] = IF j < i THEN a[j] ELSE b[j - (i - 1)]
  <2>1. /\ a \o b \in Seq(S) /\ Len(a \o b) = Len(a) + Len(b)
        /\ \A j \in 1 .. Len(a) + Len(b) :
              (a \o b)[j] = IF j <= Len(a) THEN a[j] ELSE b[j - Len(a)]
    BY <1>2, <1>3, ConcatProperties
  <2>2. Len(a) + Len(b) = Len(s) - 1
    BY <1>1, <1>2, <1>3
  <2>3. \A j \in 1 .. Len(s) - 1 : j <= Len(a) <=> j < i
    BY <1>1, <1>2
  <2> QED
    BY <1>2, <2>1, <2>2
<1>5. ASSUME NEW j \in 1 .. Len(s) - 1
      PROVE  (a \o b)[j] = s[IF j < i THEN j ELSE j + 1]
  <2>1. CASE j < i
    BY <1>1, <1>2, <1>4, <2>1
  <2>2. CASE ~ (j < i)
    <3>1. j - (i - 1) \in 1 .. Len(s) - i /\ i + (j - (i - 1)) = j + 1
      BY <1>1, <2>2
    <3> QED
      BY <1>3, <1>4, <2>2, <3>1
  <2> QED
    BY <2>1, <2>2
<1> QED
  BY <1>4, <1>5 DEF a, b

-----------------------------------------------------------------------------
(* The settings of the gateway, through the changes of the menu.            *)

Distinct(us) == \A i, j \in DOMAIN us : us[i].name = us[j].name => i = j

\* No token has been drawn that is greater than n.
Drawn(us, n) == \A i \in DOMAIN us : us[i].token <= n

\* What normalize asks of the entries.
Users(us) == us \in Seq(G!Entries) /\ G!GoodUsers(us)

\* A list whose entries have their name, token and limit from those of another.
From(vs, us) == \E k \in [DOMAIN vs -> DOMAIN us] :
    /\ \A i, j \in DOMAIN vs : k[i] = k[j] => i = j
    /\ \A j \in DOMAIN vs : /\ vs[j].name = us[k[j]].name
                            /\ vs[j].token = us[k[j]].token
                            /\ vs[j].clients = us[k[j]].clients

LEMMA UsersFrom ==
    ASSUME NEW us, Users(us), NEW vs \in Seq(G!Entries), NEW n, From(vs, us)
    PROVE  /\ Users(vs)
           /\ Drawn(us, n) => Drawn(vs, n)
           /\ Distinct(us) => Distinct(vs)
<1>0. PICK k \in [DOMAIN vs -> DOMAIN us] :
        /\ \A i, j \in DOMAIN vs : k[i] = k[j] => i = j
        /\ \A j \in DOMAIN vs : /\ vs[j].name = us[k[j]].name
                                /\ vs[j].token = us[k[j]].token
                                /\ vs[j].clients = us[k[j]].clients
  BY DEF From
<1>1. G!GoodUsers(vs)
  <2>1. \A j \in DOMAIN vs : k[j] \in DOMAIN us
    OBVIOUS
  <2>2. \A j \in DOMAIN vs :
          vs[j].name # NoName /\ vs[j].token # G!BadToken /\ vs[j].clients >= 0
    BY <1>0, <2>1 DEF Users, G!GoodUsers
  <2>3. ASSUME NEW i \in DOMAIN vs, NEW j \in DOMAIN vs, vs[i].token = vs[j].token
        PROVE  i = j
    <3>1. us[k[i]].token = us[k[j]].token
      BY <1>0, <2>3
    <3>2. k[i] = k[j]
      BY <2>1, <3>1 DEF Users, G!GoodUsers
    <3> QED
      BY <1>0, <3>2
  <2> QED
    BY <2>2, <2>3 DEF G!GoodUsers
<1>2. Drawn(us, n) => Drawn(vs, n)
  BY <1>0 DEF Drawn
<1>3. Distinct(us) => Distinct(vs)
  BY <1>0 DEF Distinct
<1> QED
  BY <1>1, <1>2, <1>3 DEF Users

\* delUser
LEMMA UserRemoved ==
    ASSUME NEW us, Users(us), NEW i \in DOMAIN us, NEW n
    PROVE  LET vs == G!RemoveAt(us, i)
           IN  /\ Users(vs)
               /\ Drawn(us, n) => Drawn(vs, n)
               /\ Distinct(us) => Distinct(vs)
<1> DEFINE vs == G!RemoveAt(us, i)
           k == [j \in DOMAIN vs |-> IF j < i THEN j ELSE j + 1]
<1>1. us \in Seq(G!Entries)
  BY DEF Users
<1>2. /\ vs \in Seq(G!Entries) /\ Len(vs) = Len(us) - 1
      /\ \A j \in 1 .. Len(us) - 1 : vs[j] = us[IF j < i THEN j ELSE j + 1]
  BY <1>1, Removed DEF G!RemoveAt
<1> HIDE DEF vs
<1>3. DOMAIN vs = 1 .. Len(us) - 1 /\ DOMAIN us = 1 .. Len(us) /\ Len(us) \in Nat
  BY <1>1, <1>2
<1>4. k \in [DOMAIN vs -> DOMAIN us] /\ \A a, b \in DOMAIN vs : k[a] = k[b] => a = b
  BY <1>3
<1>5. \A j \in DOMAIN vs : vs[j] = us[k[j]]
  BY <1>2
<1> HIDE DEF k
<1>6. Users(vs) /\ (Drawn(us, n) => Drawn(vs, n)) /\ (Distinct(us) => Distinct(vs))
  <2>1. From(vs, us)
    BY <1>4, <1>5 DEF From
  <2> QED
    BY <1>2, <2>1, UsersFrom
<1> QED
  BY <1>6 DEF vs

\* toggleUser
LEMMA UserToggled ==
    ASSUME NEW us, Users(us), NEW i \in DOMAIN us, NEW n,
           NEW e \in G!Entries, e.name = us[i].name, e.token = us[i].token,
           e.clients = us[i].clients
    PROVE  LET vs == [us EXCEPT ![i] = e]
           IN  /\ Users(vs)
               /\ Drawn(us, n) => Drawn(vs, n)
               /\ Distinct(us) => Distinct(vs)
<1> DEFINE vs == [us EXCEPT ![i] = e]
           k == [j \in DOMAIN vs |-> j]
<1>1. us \in Seq(G!Entries)
  BY DEF Users
<1>2. vs \in Seq(G!Entries) /\ DOMAIN vs = DOMAIN us
      /\ \A j \in DOMAIN us : vs[j] = IF j = i THEN e ELSE us[j]
  BY <1>1
<1> HIDE DEF vs
<1>3. k \in [DOMAIN vs -> DOMAIN us] /\ \A a, b \in DOMAIN vs : k[a] = k[b] => a = b
  BY <1>2
<1>4. \A j \in DOMAIN vs : /\ vs[j].name = us[k[j]].name
                           /\ vs[j].token = us[k[j]].token
                           /\ vs[j].clients = us[k[j]].clients
  BY <1>2
<1> HIDE DEF k
<1>5. Users(vs) /\ (Drawn(us, n) => Drawn(vs, n)) /\ (Distinct(us) => Distinct(vs))
  <2>1. From(vs, us)
    BY <1>3, <1>4 DEF From
  <2> QED
    BY <1>2, <2>1, UsersFrom
<1> QED
  BY <1>5 DEF vs

\* addUser, with a name nobody has and a token nobody had.
LEMMA UserAdded ==
    ASSUME NEW us, Users(us), NEW e \in G!Entries, e.name # NoName,
           NEW n \in Nat, Drawn(us, n), e.token = n + 1, e.clients = 0,
           \A i \in DOMAIN us : us[i].name # e.name
    PROVE  LET vs == Append(us, e)
           IN  /\ Users(vs)
               /\ Drawn(vs, n + 1)
               /\ Distinct(us) => Distinct(vs)
<1> DEFINE vs == Append(us, e)
           m == Len(us) + 1
<1>1. us \in Seq(G!Entries) /\ G!GoodUsers(us) /\ Len(us) \in Nat /\ DOMAIN us = 1 .. Len(us)
  BY DEF Users
<1>2. /\ vs \in Seq(G!Entries) /\ DOMAIN vs = 1 .. m /\ vs[m] = e
      /\ \A j \in 1 .. Len(us) : vs[j] = us[j]
  BY <1>1
<1>3. \A i \in DOMAIN us : us[i].token \in Int /\ us[i].token <= n
  <2>1. \A i \in DOMAIN us : us[i] \in G!Entries
    BY <1>1
  <2>2. \A x \in G!Entries : x.token \in Int
    BY DEF G!Entries
  <2> QED
    BY <2>1, <2>2 DEF Drawn
<1> HIDE DEF vs
<1>4. \A j \in DOMAIN vs : \/ j = m /\ vs[j] = e
                           \/ j \in DOMAIN us /\ vs[j] = us[j]
  BY <1>1, <1>2
<1>5. G!GoodUsers(vs)
  BY <1>1, <1>3, <1>4 DEF G!GoodUsers, G!BadToken
<1>6. Drawn(vs, n + 1)
  BY <1>3, <1>4 DEF Drawn
<1>7. Distinct(us) => Distinct(vs)
  BY <1>4 DEF Distinct
<1> QED
  BY <1>5, <1>6, <1>7 DEF Users, vs

-----------------------------------------------------------------------------
(* The gateway, its menu and its file.                                      *)

\* All the settings there are: of the file, of the disk, of the menu and its
\* temporary file, of the service.
GSettings == {seen, cfg, live, read, boot, tmp["menu"].data} \cup maybe

\* None of them is torn, and addUser has drawn no token that is in one.
GHeld == \A c \in GSettings : c # NoConfig => c \in G!Configs /\ Drawn(c.users, issued)

\* What the menu shows is good but for what it warns of; saving is saving that.
GMenu ==
    /\ at # "closed" => cfg.loopback /\ G!GoodUsers(cfg.users)
    /\ tmp["menu"].stage # "none" <=> at = "saving"
    /\ at = "saving" => tmp["menu"].data = cfg
    /\ at = "apply" => seen = cfg
    /\ at \in {"saving", "apply"} => (anyway <=> ~ G!Checked(cfg))

\* A file that loads, and of which the service has been told, is on its way to
\* the service: as a signal that waits, as what reload has in hand, or it is
\* there.
GOnItsWay ==
    svc # "off" /\ ~ untold /\ G!Loadable =>
        hup \/ (IF read = NoConfig THEN live = seen ELSE read = seen)

GService ==
    /\ svc = "off" => /\ boot = NoConfig /\ live = NoConfig /\ read = NoConfig
                      /\ sockets = {} /\ hup = FALSE
    /\ svc # "off" => boot # NoConfig /\ live # NoConfig
    /\ svc = "loaded" => read = NoConfig /\ hup = FALSE

GatewayInv == G!TypeOK /\ GHeld /\ GMenu /\ GService /\ GOnItsWay

\* Nobody has two entries, in any of the settings.
GNames == \A c \in GSettings : c # NoConfig => Distinct(c.users)

LEMMA DefaultServer ==
    /\ G!defaultServer \in G!Configs /\ G!defaultServer.users = <<>>
    /\ G!defaultServer # NoConfig
<1>1. <<>> \in Seq(G!Entries)
  OBVIOUS
<1>2. G!defaultServer \in G!Configs /\ G!defaultServer.users = <<>>
  BY <1>1 DEF G!defaultServer, G!Configs, G!ShortKey
<1> QED
  BY <1>2, HostAssumption DEF G!Assumption

LEMMA GHeldKept ==
    ASSUME GatewayInv, issued' \in Nat, issued <= issued',
           GSettings' \subseteq GSettings \cup {NoConfig, G!defaultServer}
    PROVE  GHeld'
<1> SUFFICES ASSUME NEW c \in GSettings', c # NoConfig
             PROVE  c \in G!Configs /\ Drawn(c.users, issued')
  BY DEF GHeld
<1>1. c \in G!Configs /\ Drawn(c.users, issued)
  BY DefaultServer DEF GatewayInv, GHeld, Drawn
<1>2. \A i \in DOMAIN c.users : c.users[i].token \in Int
  <2>1. c.users \in Seq(G!Entries)
    BY <1>1 DEF G!Configs
  <2>2. \A e \in G!Entries : e.token \in Int
    BY DEF G!Entries
  <2> QED
    BY <2>1, <2>2
<1>3. issued \in Int
  BY DEF GatewayInv, G!TypeOK
<1> QED
  BY <1>1, <1>2, <1>3 DEF Drawn

\* The file as it is, or as a reader gets it.
LEMMA GFileFacts ==
    ASSUME GatewayInv
    PROVE  /\ seen \in G!Configs \cup {NoConfig} /\ maybe \subseteq G!Configs \cup {NoConfig}
           /\ tmp = [w \in {"menu"} |-> tmp["menu"]]
           /\ tmp["menu"] = [stage |-> tmp["menu"].stage, data |-> tmp["menu"].data]
           /\ tmp["menu"].stage \in {"none", "created", "written", "synced"}
           /\ tmp["menu"].data \in G!Configs \cup {NoConfig}
BY DEF GatewayInv, GHeld, GSettings, G!TypeOK, G!File!TypeOK, G!File!Temps, G!Menu

\* Every step but a change in the menu only passes settings on.
LEMMA GPassesOn ==
    ASSUME GatewayInv,
           \/ G!Open \/ G!Leave \/ G!Save \/ G!Saving \/ G!SaveFails
           \/ G!Runs \/ G!ServiceDies \/ G!MenuKilled \/ G!PowerFails \/ G!Flush
    PROVE  GatewayInv' /\ GSettings' \subseteq GSettings \cup {NoConfig, G!defaultServer}
<1> USE DEF G!file, G!service, G!menu, G!budget
<1>1. ASSUME issued' = issued, GSettings' \subseteq GSettings \cup {NoConfig, G!defaultServer},
             G!TypeOK', GMenu', GService', GOnItsWay'
      PROVE  GatewayInv' /\ GSettings' \subseteq GSettings \cup {NoConfig, G!defaultServer}
  <2>1. GHeld'
    BY <1>1, GHeldKept DEF GatewayInv, G!TypeOK
  <2> QED
    BY <1>1, <2>1 DEF GatewayInv
<1>2. CASE G!Open
  <2>1. issued' = issued /\ GSettings' \subseteq GSettings \cup {NoConfig, G!defaultServer}
    BY <1>2 DEF G!Open, GSettings
  <2>2. G!TypeOK'
    BY <1>2, HostAssumption, DefaultServer DEF G!Open, GatewayInv, G!TypeOK,
       G!ServiceTypeOK, G!File!TypeOK, G!Loadable, G!Assumption
  <2>3. GMenu'
    BY <1>2 DEF G!Open, GatewayInv, GMenu, G!Loadable, G!Normal, G!GoodUsers,
       G!defaultServer
  <2>4. GService' /\ GOnItsWay'
    BY <1>2 DEF G!Open, GatewayInv, GService, GOnItsWay, G!Loadable
  <2> QED
    BY <1>1, <2>1, <2>2, <2>3, <2>4
<1>3. CASE G!Leave
  <2>1. issued' = issued /\ GSettings' \subseteq GSettings \cup {NoConfig, G!defaultServer}
    BY <1>3, GFileFacts DEF G!Leave, G!Closed, GSettings
  <2>2. G!TypeOK'
    BY <1>3 DEF G!Leave, G!Closed, GatewayInv, G!TypeOK, G!ServiceTypeOK, G!File!TypeOK
  <2>3. GMenu'
    BY <1>3 DEF G!Leave, G!Closed, GatewayInv, GMenu
  <2>4. GService' /\ GOnItsWay'
    BY <1>3 DEF G!Leave, GatewayInv, GService, GOnItsWay, G!Loadable
  <2> QED
    BY <1>1, <2>1, <2>2, <2>3, <2>4
<1>4. CASE G!Save
  <2>1. issued' = issued /\ GSettings' \subseteq GSettings \cup {NoConfig, G!defaultServer}
    BY <1>4 DEF G!Save, G!File!Create, GSettings
  <2>2. G!TypeOK'
    BY <1>4 DEF G!Save, G!File!Create, G!File!Temps, GatewayInv, G!TypeOK,
       G!ServiceTypeOK, G!File!TypeOK
  <2>3. GMenu'
    BY <1>4, GFileFacts DEF G!Save, G!File!Create, G!Menu, GatewayInv, GMenu
  <2>4. GService' /\ GOnItsWay'
    BY <1>4 DEF G!Save, G!File!Create, GatewayInv, GService, GOnItsWay, G!Loadable
  <2> QED
    BY <1>1, <2>1, <2>2, <2>3, <2>4
<1>5. CASE G!SaveStep
  <2>1. issued' = issued /\ GSettings' \subseteq GSettings \cup {NoConfig, G!defaultServer}
    BY <1>5, GFileFacts DEF G!SaveStep, G!File!Write, G!File!Sync, GSettings
  <2>2. G!TypeOK'
    BY <1>5 DEF G!SaveStep, G!File!Write, G!File!Sync, G!File!Temps, GatewayInv,
       G!TypeOK, G!ServiceTypeOK, G!File!TypeOK
  <2>3. GMenu'
    BY <1>5, GFileFacts DEF G!SaveStep, G!File!Write, G!File!Sync, GatewayInv, GMenu
  <2>4. GService' /\ GOnItsWay'
    BY <1>5 DEF G!SaveStep, G!File!Write, G!File!Sync, GatewayInv, GService, GOnItsWay,
       G!Loadable
  <2> QED
    BY <1>1, <2>1, <2>2, <2>3, <2>4
<1>6. CASE G!Saved
  <2>1. issued' = issued /\ GSettings' \subseteq GSettings \cup {NoConfig, G!defaultServer}
    BY <1>6 DEF G!Saved, G!File!Rename, G!File!Renamed, G!File!NoTemp, G!Menu,
       GSettings
  <2>2. G!TypeOK'
    BY <1>6 DEF G!Saved, G!File!Rename, G!File!Renamed, G!File!NoTemp, G!File!Temps,
       GatewayInv, G!TypeOK, G!ServiceTypeOK, G!File!TypeOK
  <2>3. GMenu'
    BY <1>6, GFileFacts DEF G!Saved, G!File!Rename, G!File!Renamed, G!File!NoTemp,
       G!Menu, GatewayInv, GMenu
  <2>4. GService' /\ GOnItsWay'
    BY <1>6 DEF G!Saved, GatewayInv, GService, GOnItsWay
  <2> QED
    BY <1>1, <2>1, <2>2, <2>3, <2>4
<1>7. CASE G!Apply
  <2>1. issued' = issued /\ GSettings' \subseteq GSettings \cup {NoConfig, G!defaultServer}
    BY <1>7 DEF G!Apply, G!Signal, G!Off, GSettings
  <2>2. G!TypeOK'
    <3>1. G!ServiceTypeOK'
      BY <1>7 DEF G!Apply, G!Signal, G!Off, GatewayInv, G!TypeOK, G!ServiceTypeOK
    <3>2. untold' \in BOOLEAN /\ UNCHANGED <<systemd, seen, maybe, tmp, cfg, dirty, anyway,
                                            issued, edits, faults>>
      BY <1>7 DEF G!Apply, GatewayInv, G!TypeOK
    <3>3. at = "apply" /\ at' = "main"
      BY <1>7 DEF G!Apply
    <3> QED
      BY <3>1, <3>2, <3>3 DEF GatewayInv, G!TypeOK, G!File!TypeOK
  <2>3. GMenu'
    BY <1>7 DEF G!Apply, GatewayInv, GMenu
  <2>4. GService' /\ GOnItsWay'
    BY <1>7 DEF G!Apply, G!Signal, G!Off, GatewayInv, GService, GOnItsWay, G!Loadable
  <2> QED
    BY <1>1, <2>1, <2>2, <2>3, <2>4
<1>8. CASE G!SaveFails
  <2>1. issued' = issued /\ GSettings' \subseteq GSettings \cup {NoConfig, G!defaultServer}
    BY <1>8 DEF G!SaveFails, G!File!Discard, G!File!NoTemp, GSettings
  <2>0. faults' \in 0 .. MaxFaults
    BY <1>8, HostAssumption DEF G!SaveFails, GatewayInv, G!TypeOK, G!Assumption
  <2>2. G!TypeOK'
    BY <1>8, <2>0 DEF G!SaveFails, G!File!Discard, G!File!NoTemp, G!File!Temps,
       GatewayInv, G!TypeOK, G!ServiceTypeOK, G!File!TypeOK
  <2>3. GMenu'
    BY <1>8, GFileFacts DEF G!SaveFails, G!File!Discard, G!File!NoTemp, G!Menu,
       GatewayInv, GMenu
  <2>4. GService' /\ GOnItsWay'
    BY <1>8 DEF G!SaveFails, G!File!Discard, GatewayInv, GService, GOnItsWay,
       G!Loadable
  <2> QED
    BY <1>1, <2>1, <2>2, <2>3, <2>4
<1>9. CASE G!Runs
  <2>0. /\ issued' = issued /\ GSettings' \subseteq GSettings \cup {NoConfig, G!defaultServer}
        /\ UNCHANGED <<systemd, seen, maybe, tmp, at, cfg, dirty, anyway, issued, edits, faults>>
    BY <1>9 DEF G!Runs, G!Starts, G!Start, G!CatchHup, G!Listen, G!ReloadLoads,
       G!ReloadSets, GSettings
  <2>1. GMenu'
    BY <2>0 DEF GatewayInv, GMenu
  <2>2. ASSUME G!ServiceTypeOK', untold' \in BOOLEAN PROVE G!TypeOK'
    BY <2>0, <2>2 DEF GatewayInv, G!TypeOK, G!File!TypeOK
  <2>3. G!Loadable' = G!Loadable
    BY <2>0 DEF G!Loadable
  <2>4. CASE G!Starts
    <3>1. G!ServiceTypeOK' /\ untold' \in BOOLEAN
      BY <2>4, GFileFacts DEF G!Starts, G!Start, GatewayInv, G!TypeOK, G!ServiceTypeOK
    <3>2. GService'
      BY <2>4, HostAssumption DEF G!Starts, G!Start, GatewayInv, GService, G!Loadable,
         G!Assumption
    <3>3. GOnItsWay'
      BY <2>0, <2>4 DEF G!Starts, G!Start, GatewayInv, GService, GOnItsWay
    <3> QED
      BY <1>1, <2>0, <2>1, <2>2, <3>1, <3>2, <3>3
  <2>5. CASE G!CatchHup /\ untold' = untold
    <3>1. G!ServiceTypeOK' /\ untold' \in BOOLEAN
      BY <2>5 DEF G!CatchHup, GatewayInv, G!TypeOK, G!ServiceTypeOK
    <3>2. GService'
      BY <2>5 DEF G!CatchHup, GatewayInv, GService
    <3>3. GOnItsWay'
      BY <2>0, <2>3, <2>5 DEF G!CatchHup, GatewayInv, GOnItsWay
    <3> QED
      BY <1>1, <2>0, <2>1, <2>2, <3>1, <3>2, <3>3
  <2>6. CASE G!Listen /\ untold' = untold
    <3>1. G!ServiceTypeOK' /\ untold' \in BOOLEAN
      BY <2>6 DEF G!Listen, GatewayInv, G!TypeOK, G!ServiceTypeOK, GService, G!Configs
    <3>2. GService'
      BY <2>6 DEF G!Listen, GatewayInv, GService
    <3>3. GOnItsWay'
      BY <2>0, <2>3, <2>6 DEF G!Listen, GatewayInv, GOnItsWay
    <3> QED
      BY <1>1, <2>0, <2>1, <2>2, <3>1, <3>2, <3>3
  <2>7. CASE G!ReloadLoads /\ untold' = untold
    <3>1. G!ServiceTypeOK' /\ untold' \in BOOLEAN
      <4>1. read' \in G!Configs \cup {NoConfig}
        BY <2>7 DEF G!ReloadLoads, G!Loadable
      <4> QED
        BY <2>7, <4>1 DEF G!ReloadLoads, GatewayInv, G!TypeOK, G!ServiceTypeOK
    <3>2. GService'
      BY <2>7 DEF G!ReloadLoads, GatewayInv, GService
    <3>3. GOnItsWay'
      BY <2>0, <2>7, HostAssumption DEF G!ReloadLoads, GOnItsWay, G!Loadable,
         G!Assumption
    <3> QED
      BY <1>1, <2>0, <2>1, <2>2, <3>1, <3>2, <3>3
  <2>8. CASE G!ReloadSets /\ untold' = untold
    <3>1. G!ServiceTypeOK' /\ untold' \in BOOLEAN
      BY <2>8 DEF G!ReloadSets, GatewayInv, G!TypeOK, G!ServiceTypeOK
    <3>2. GService'
      BY <2>8 DEF G!ReloadSets, GatewayInv, GService
    <3>3. GOnItsWay'
      BY <2>0, <2>3, <2>8 DEF G!ReloadSets, GatewayInv, GOnItsWay
    <3> QED
      BY <1>1, <2>0, <2>1, <2>2, <3>1, <3>2, <3>3
  <2> QED
    BY <1>9, <2>4, <2>5, <2>6, <2>7, <2>8 DEF G!Runs
<1>10. CASE G!ServiceDies
  <2>1. issued' = issued /\ GSettings' \subseteq GSettings \cup {NoConfig, G!defaultServer}
    BY <1>10 DEF G!ServiceDies, G!Die, G!Off, G!AcceptFails, GSettings
  <2>0. faults' \in 0 .. MaxFaults
    BY <1>10, HostAssumption DEF G!ServiceDies, GatewayInv, G!TypeOK, G!Assumption
  <2>2. G!TypeOK'
    <3>1. G!ServiceTypeOK'
      BY <1>10 DEF G!ServiceDies, G!Die, G!Off, G!AcceptFails, GatewayInv, G!TypeOK,
         G!ServiceTypeOK
    <3> QED
      BY <1>10, <2>0, <3>1 DEF G!ServiceDies, GatewayInv, G!TypeOK, G!File!TypeOK
  <2>3. GMenu'
    BY <1>10 DEF G!ServiceDies, GatewayInv, GMenu
  <2>4. GService' /\ GOnItsWay'
    BY <1>10 DEF G!ServiceDies, G!Die, G!Off, G!AcceptFails, GatewayInv, GService,
       GOnItsWay, G!Loadable
  <2> QED
    BY <1>1, <2>1, <2>2, <2>3, <2>4
<1>11. CASE G!MenuKilled
  <2>1. issued' = issued /\ GSettings' \subseteq GSettings \cup {NoConfig, G!defaultServer}
    BY <1>11, GFileFacts DEF G!MenuKilled, G!Closed, G!File!Discard, G!File!NoTemp,
       GSettings
  <2>0. faults' \in 0 .. MaxFaults
    BY <1>11, HostAssumption DEF G!MenuKilled, GatewayInv, G!TypeOK, G!Assumption
  <2>2. G!TypeOK'
    <3>1. G!File!TypeOK'
      <4>1. CASE at = "saving"
        BY <1>11 DEF G!MenuKilled, G!File!Discard, G!File!NoTemp, G!File!Temps,
           GatewayInv, G!TypeOK, G!File!TypeOK
      <4>2. CASE at # "saving"
        BY <1>11, <4>2 DEF G!MenuKilled, GatewayInv, G!TypeOK, G!File!TypeOK
      <4> QED
        BY <4>1, <4>2
    <3> QED
      BY <1>11, <2>0, <3>1 DEF G!MenuKilled, G!Closed, GatewayInv, G!TypeOK,
         G!ServiceTypeOK
  <2>3. GMenu'
    BY <1>11, GFileFacts DEF G!MenuKilled, G!Closed, G!File!Discard, G!File!NoTemp,
       G!Menu, GatewayInv, GMenu
  <2>4. GService' /\ GOnItsWay'
    BY <1>11 DEF G!MenuKilled, G!File!Discard, GatewayInv, GService, GOnItsWay,
       G!Loadable
  <2> QED
    BY <1>1, <2>1, <2>2, <2>3, <2>4
<1>12. CASE G!PowerFails
  <2>1. issued' = issued /\ GSettings' \subseteq GSettings \cup {NoConfig, G!defaultServer}
    BY <1>12 DEF G!PowerFails, G!Closed, G!Off, G!File!PowerLoss, G!File!NoTemp,
       G!Menu, GSettings
  <2>0. faults' \in 0 .. MaxFaults
    BY <1>12, HostAssumption DEF G!PowerFails, GatewayInv, G!TypeOK, G!Assumption
  <2>2. G!TypeOK'
    BY <1>12, <2>0 DEF G!PowerFails, G!Closed, G!Off, G!File!PowerLoss, G!File!NoTemp,
       G!File!Temps, GatewayInv, G!TypeOK, G!ServiceTypeOK, G!File!TypeOK
  <2>3. GMenu'
    BY <1>12 DEF G!PowerFails, G!Closed, G!File!PowerLoss, G!File!NoTemp, G!Menu, GMenu
  <2>4. GService' /\ GOnItsWay'
    BY <1>12 DEF G!PowerFails, G!Off, GService, GOnItsWay
  <2> QED
    BY <1>1, <2>1, <2>2, <2>3, <2>4
<1>13. CASE G!Flush
  <2>1. issued' = issued /\ GSettings' \subseteq GSettings \cup {NoConfig, G!defaultServer}
    BY <1>13, GFileFacts DEF G!Flush, G!File!Flush, GSettings
  <2>2. G!TypeOK'
    BY <1>13 DEF G!Flush, G!File!Flush, GatewayInv, G!TypeOK, G!ServiceTypeOK,
       G!File!TypeOK
  <2>3. GMenu'
    BY <1>13 DEF G!Flush, G!File!Flush, GatewayInv, GMenu
  <2>4. GService' /\ GOnItsWay'
    BY <1>13 DEF G!Flush, G!File!Flush, GatewayInv, GService, GOnItsWay, G!Loadable
  <2> QED
    BY <1>1, <2>1, <2>2, <2>3, <2>4
<1> QED
  BY <1>2, <1>3, <1>4, <1>5, <1>6, <1>7, <1>8, <1>9, <1>10, <1>11, <1>12, <1>13
     DEF G!Saving

\* A change in the menu.
LEMMA GEdited ==
    ASSUME GatewayInv, at = "main", NEW c \in G!Configs, G!Edit(c),
           c.loopback, G!GoodUsers(c.users),
           issued' \in Nat, issued <= issued', Drawn(c.users, issued')
    PROVE  GatewayInv' /\ (GNames /\ Distinct(c.users) => GNames')
<1> USE DEF G!file, G!service, G!menu, G!budget
<1>1. c # NoConfig
  BY HostAssumption DEF G!Assumption
<1>2. /\ cfg' = c /\ dirty' = TRUE /\ edits' \in 0 .. MaxEdits
      /\ UNCHANGED <<systemd, seen, maybe, tmp, svc, boot, live, sockets, hup, read,
                     at, anyway, untold, faults>>
  BY HostAssumption DEF G!Edit, GatewayInv, G!TypeOK, G!Assumption
<1>3. GSettings' \subseteq GSettings \cup {c}
  BY <1>2 DEF GSettings
<1>4. G!TypeOK'
  BY <1>1, <1>2 DEF GatewayInv, G!TypeOK, G!File!TypeOK, G!ServiceTypeOK
<1>5. GHeld'
  <2> SUFFICES ASSUME NEW d \in GSettings, d # NoConfig PROVE Drawn(d.users, issued')
    BY <1>3 DEF GHeld, GatewayInv
  <2>1. d \in G!Configs /\ Drawn(d.users, issued)
    BY DEF GatewayInv, GHeld
  <2>2. \A i \in DOMAIN d.users : d.users[i].token \in Int
    <3>1. d.users \in Seq(G!Entries)
      BY <2>1 DEF G!Configs
    <3>2. \A e \in G!Entries : e.token \in Int
      BY DEF G!Entries
    <3> QED
      BY <3>1, <3>2
  <2>3. issued \in Int
    BY DEF GatewayInv, G!TypeOK
  <2> QED
    BY <2>1, <2>2, <2>3 DEF Drawn
<1>6. GMenu' /\ GService' /\ GOnItsWay'
  BY <1>2 DEF GatewayInv, GMenu, GService, GOnItsWay, G!Loadable
<1>7. GNames /\ Distinct(c.users) => GNames'
  BY <1>3 DEF GNames
<1> QED
  BY <1>4, <1>5, <1>6, <1>7 DEF GatewayInv

LEMMA GChanged ==
    ASSUME GatewayInv, at = "main", G!Change
    PROVE  GatewayInv' /\ (GNames => GNames')
<1>1. /\ cfg \in G!Configs /\ cfg.loopback /\ Drawn(cfg.users, issued) /\ issued \in Nat
      /\ Users(cfg.users) /\ (GNames => Distinct(cfg.users))
  <2>1. cfg # NoConfig
    BY DEF GatewayInv, G!TypeOK
  <2>2. cfg \in GSettings
    BY DEF GSettings
  <2>3. cfg \in G!Configs /\ Drawn(cfg.users, issued)
    BY <2>1, <2>2 DEF GatewayInv, GHeld
  <2> QED
    BY <2>2, <2>3 DEF GatewayInv, G!TypeOK, GMenu, GNames, Users, G!Configs
<1>2. /\ cfg = [listen |-> cfg.listen, key |-> cfg.key, loopback |-> cfg.loopback,
                pin |-> cfg.pin, users |-> cfg.users]
      /\ cfg.listen \subseteq G!Kinds /\ cfg.key \in Nat /\ cfg.pin \in BOOLEAN
      /\ cfg.users \in Seq(G!Entries)
  BY <1>1 DEF G!Configs
<1>3. ASSUME NEW us \in Seq(G!Entries), G!GoodUsers(us),
             G!Edit([cfg EXCEPT !.users = us]), issued' \in {issued, issued + 1},
             Drawn(us, issued'), Distinct(cfg.users) => Distinct(us)
      PROVE  GatewayInv' /\ (GNames => GNames')
  <2> DEFINE c == [cfg EXCEPT !.users = us]
  <2>1. c \in G!Configs /\ c.users = us /\ c.loopback
    BY <1>1, <1>2 DEF G!Configs
  <2>2. issued' \in Nat /\ issued <= issued'
    BY <1>1, <1>3
  <2>3. G!Edit(c)
    BY <1>3
  <2> HIDE DEF c
  <2> QED
    BY <1>1, <1>3, <2>1, <2>3, GEdited
<1>4. ASSUME NEW c \in G!Configs, c.users = cfg.users, c.loopback = cfg.loopback,
             G!Edit(c), issued' = issued
      PROVE  GatewayInv' /\ (GNames => GNames')
  <2>1. issued' \in Nat /\ issued <= issued'
    BY <1>1, <1>4
  <2> QED
    BY <1>1, <1>4, <2>1, GEdited DEF Users
<1>5. ASSUME NEW n \in Names, G!addUser(n) PROVE GatewayInv' /\ (GNames => GNames')
  <2> DEFINE e == G!NewUser(n)
             us == Append(cfg.users, e)
  <2>1. e \in G!Entries /\ e.name = n /\ n # NoName /\ e.token = issued + 1 /\ e.clients = 0
    BY <1>1, HostAssumption DEF G!NewUser, G!Entries, G!Assumption
  <2> HIDE DEF e
  <2>2. Users(us) /\ Drawn(us, issued + 1) /\ (Distinct(cfg.users) => Distinct(us))
    BY <1>1, <1>5, <2>1, UserAdded DEF G!addUser
  <2>3. G!Edit([cfg EXCEPT !.users = us]) /\ issued' = issued + 1
    BY <1>5 DEF G!addUser, e
  <2> HIDE DEF us
  <2> QED
    BY <1>3, <2>2, <2>3 DEF Users
<1>6. ASSUME NEW i \in DOMAIN cfg.users, G!toggleUser(i) PROVE GatewayInv' /\ (GNames => GNames')
  <2> DEFINE u == cfg.users[i]
             e == [u EXCEPT !.on = ~ @]
             us == [cfg.users EXCEPT ![i] = e]
  <2>1. u \in G!Entries
    BY <1>2
  <2>2. e \in G!Entries /\ e.name = u.name /\ e.token = u.token /\ e.clients = u.clients
    BY <2>1 DEF G!Entries
  <2>3. G!Edit([cfg EXCEPT !.users = us]) /\ issued' = issued
    BY <1>6, <1>2 DEF G!toggleUser
  <2> HIDE DEF e
  <2>4. Users(us) /\ Drawn(us, issued) /\ (Distinct(cfg.users) => Distinct(us))
    BY <1>1, <2>2, UserToggled
  <2> HIDE DEF us
  <2> QED
    BY <1>3, <2>3, <2>4 DEF Users
<1>7. ASSUME NEW i \in DOMAIN cfg.users, G!delUser(i) PROVE GatewayInv' /\ (GNames => GNames')
  <2> DEFINE us == G!RemoveAt(cfg.users, i)
  <2>1. Users(us) /\ Drawn(us, issued) /\ (Distinct(cfg.users) => Distinct(us))
    BY <1>1, UserRemoved
  <2>2. G!Edit([cfg EXCEPT !.users = us]) /\ issued' = issued
    BY <1>7 DEF G!delUser
  <2> HIDE DEF us
  <2> QED
    BY <1>3, <2>1, <2>2 DEF Users
<1>8. CASE G!setKey
  <2>1. PICK k \in G!ShortKey + 1 .. MaxKey : G!Edit([cfg EXCEPT !.key = k]) /\ issued' = issued
    BY <1>8 DEF G!setKey
  <2>2. k \in Nat
    BY HostAssumption DEF G!ShortKey
  <2> DEFINE c == [cfg EXCEPT !.key = k]
  <2>3. c \in G!Configs /\ c.users = cfg.users /\ c.loopback = cfg.loopback
    BY <1>1, <1>2, <2>2 DEF G!Configs
  <2>4. G!Edit(c)
    BY <2>1
  <2> HIDE DEF c
  <2> QED
    BY <1>4, <2>1, <2>3, <2>4
<1>9. ASSUME NEW kind \in G!Kinds, G!setListen(kind) PROVE GatewayInv' /\ (GNames => GNames')
  <2> DEFINE keys == IF kind = "udp" /\ cfg.key = G!NoKey
                     THEN {G!NoKey, G!ShortKey + 1} ELSE {cfg.key}
             c(k) == [cfg EXCEPT !.listen = @ \cup {kind}, !.key = k]
  <2>1. keys \subseteq Nat
    BY <1>2 DEF G!NoKey, G!ShortKey
  <2>2. PICK k \in keys : G!Edit(c(k)) /\ issued' = issued
    BY <1>9 DEF G!setListen
  <2>3. c(k) \in G!Configs /\ c(k).users = cfg.users /\ c(k).loopback = cfg.loopback
    BY <1>1, <1>2, <2>1, <2>2 DEF G!Configs
  <2> HIDE DEF c
  <2> QED
    BY <1>4, <2>2, <2>3
<1>10. ASSUME NEW kind \in G!Kinds, G!clearListen(kind) PROVE GatewayInv' /\ (GNames => GNames')
  <2> DEFINE c == [cfg EXCEPT !.listen = @ \ {kind}]
  <2>1. c \in G!Configs /\ c.users = cfg.users /\ c.loopback = cfg.loopback
    BY <1>1, <1>2 DEF G!Configs
  <2>2. G!Edit(c) /\ issued' = issued
    BY <1>10 DEF G!clearListen
  <2> HIDE DEF c
  <2> QED
    BY <1>4, <2>1, <2>2
<1>11. CASE G!togglePin
  <2> DEFINE c == [cfg EXCEPT !.pin = ~ @]
  <2>1. c \in G!Configs /\ c.users = cfg.users /\ c.loopback = cfg.loopback
    BY <1>1, <1>2 DEF G!Configs
  <2>2. G!Edit(c) /\ issued' = issued
    BY <1>11 DEF G!togglePin
  <2> HIDE DEF c
  <2> QED
    BY <1>4, <2>1, <2>2
<1> QED
  BY <1>5, <1>6, <1>7, <1>8, <1>9, <1>10, <1>11 DEF G!Change

LEMMA GNamesKept ==
    ASSUME GatewayInv, GNames, GSettings' \subseteq GSettings \cup {NoConfig, G!defaultServer}
    PROVE  GNames'
BY DefaultServer DEF GNames, Distinct

\* Every step of the gateway.
LEMMA GatewayStep ==
    ASSUME GatewayInv, G!Next
    PROVE  GatewayInv' /\ (GNames => GNames')
BY GPassesOn, GChanged, GNamesKept DEF G!Next

LEMMA GatewayStarts ==
    ASSUME G!Init
    PROVE  GatewayInv
<1> USE DEF G!File!Begin, G!File!NoTemp, G!ServiceInit
<1>1. PICK f \in ServerFiles : seen = f /\ maybe = {f} /\ tmp = [w \in {"menu"} |-> G!File!NoTemp]
  BY DEF G!Init, G!Menu
<1>2. f \in G!Configs \cup {NoConfig} /\ (f # NoConfig => Drawn(f.users, issued))
  BY HostAssumption DEF G!Init, G!Assumption, G!OldTokens, Drawn
<1>3. GSettings = {f, NoConfig}
  BY <1>1 DEF G!Init, GSettings
<1>4. GHeld
  BY <1>2, <1>3 DEF GHeld
<1>5. G!File!TypeOK
  BY <1>1, <1>2 DEF G!File!TypeOK, G!File!Temps, G!Menu
<1>6. edits \in 0 .. MaxEdits /\ faults \in 0 .. MaxFaults /\ issued \in Nat
  BY HostAssumption DEF G!Init, G!Assumption, G!OldTokens
<1>7. G!TypeOK
  BY <1>5, <1>6 DEF G!Init, G!TypeOK, G!ServiceTypeOK
<1>8. GMenu /\ GService /\ GOnItsWay
  BY <1>1 DEF G!Init, GMenu, GService, GOnItsWay
<1> QED
  BY <1>4, <1>7, <1>8 DEF GatewayInv

LEMMA GNamesStart ==
    ASSUME G!Init, \A f \in ServerFiles \ {NoConfig} : Distinct(f.users)
    PROVE  GNames
<1>1. PICK f \in ServerFiles : seen = f /\ maybe = {f} /\ tmp["menu"].data = NoConfig
  BY DEF G!Init, G!Menu, G!File!Begin, G!File!NoTemp
<1>2. GSettings = {f, NoConfig}
  BY <1>1 DEF G!Init, G!ServiceInit, GSettings
<1> QED
  BY <1>2 DEF GNames

LEMMA GatewayApplied ==
    ASSUME GatewayInv
    PROVE  G!AcceptedLoads /\ G!UpToDate
<1>1. ASSUME at = "apply", ~ anyway
      PROVE  G!Loadable \/ (cfg.key = G!ShortKey /\ "udp" \in cfg.listen)
  <2>1. seen = cfg /\ G!Checked(cfg) /\ cfg.loopback /\ G!GoodUsers(cfg.users)
    BY <1>1 DEF GatewayInv, GMenu
  <2>2. cfg \in G!Configs /\ cfg.key \in Nat
    BY <1>1, HostAssumption DEF GatewayInv, G!TypeOK, G!Configs
  <2>3. cfg.key # G!NoKey => cfg.key = G!ShortKey \/ cfg.key > G!ShortKey
    BY <2>2 DEF G!NoKey, G!ShortKey
  <2> QED
    BY <2>1, <2>2, <2>3 DEF G!Checked, G!Normal, G!Loadable
<1>2. G!UpToDate
  BY DEF GatewayInv, GOnItsWay, G!UpToDate, G!Running
<1> QED
  BY <1>1, <1>2 DEF G!AcceptedLoads

LEMMA GatewayRules ==
    ASSUME GatewayInv, GNames
    PROVE  G!OwnRules
<1> SUFFICES ASSUME NEW c \in {cfg, live} \ {NoConfig}, NEW i \in G!Enabled(c)
             PROVE  LET u == c.users[i]
                    IN  /\ G!Limit(c, u.name) = u.clients
                        /\ \A ip \in IPs : G!Allowed(c, u.name, ip) <=> (u.ips = {} \/ ip \in u.ips)
  BY DEF G!OwnRules
<1> DEFINE u == c.users[i]
<1>1. i \in DOMAIN c.users /\ i \in Int /\ Distinct(c.users)
  <2>1. c \in GSettings
    BY DEF GSettings
  <2>2. c \in G!Configs /\ Distinct(c.users)
    BY <2>1 DEF GatewayInv, GHeld, GNames
  <2>3. c.users \in Seq(G!Entries)
    BY <2>2 DEF G!Configs
  <2> QED
    BY <2>2, <2>3 DEF G!Enabled
<1>2. G!Named(c, u.name) = {i}
  BY <1>1 DEF G!Named, Distinct
<1>3. G!Min({i}) = i
  BY <1>1 DEF G!Min
<1>4. G!First(c, u.name) = u
  BY <1>2, <1>3 DEF G!First
<1> HIDE DEF u
<1> QED
  BY <1>2, <1>4 DEF G!Limit, G!Allowed, u

\* The settings file of the gateway is replaced as a whole.
LEMMA GatewayFile ==
    ASSUME GatewayInv, G!Next
    PROVE  \/ seen' \in G!Configs /\ maybe' = maybe \cup {seen'}
           \/ seen' = seen /\ maybe' = {seen}
           \/ seen' \in maybe /\ maybe' = {seen'}
           \/ UNCHANGED <<seen, maybe>>
<1> USE DEF G!file
<1>1. CASE G!Saved
  <2>1. at = "saving" /\ tmp["menu"].data = cfg /\ cfg \in G!Configs
    BY <1>1 DEF G!Saved, GatewayInv, GMenu, G!TypeOK
  <2> QED
    BY <1>1, <2>1 DEF G!Saved, G!File!Rename, G!File!Renamed, G!Menu
<1>2. CASE G!PowerFails
  BY <1>2 DEF G!PowerFails, G!File!PowerLoss
<1>3. CASE G!Flush
  BY <1>3 DEF G!Flush, G!File!Flush
<1>4. CASE \/ G!Open \/ G!Leave \/ G!Save \/ G!SaveStep \/ G!Apply \/ G!SaveFails
           \/ G!Runs \/ G!ServiceDies \/ G!MenuKilled
  BY <1>4 DEF G!Open, G!Leave, G!Save, G!SaveStep, G!Apply, G!SaveFails, G!Runs,
     G!ServiceDies, G!MenuKilled, G!File!Create, G!File!Write, G!File!Sync,
     G!File!Discard
<1>5. CASE G!Change
  BY <1>5 DEF G!Change, G!addUser, G!toggleUser, G!delUser, G!setKey, G!setListen,
     G!clearListen, G!togglePin, G!Edit
<1> QED
  BY <1>1, <1>2, <1>3, <1>4, <1>5 DEF G!Next, G!Saving

-----------------------------------------------------------------------------
(* The client, its menu and its file.                                       *)

CSettings == {seen, cfg, boot, env, tmp["menu"].data} \cup maybe

CHeld == \A c \in CSettings : c # NoConfig => c \in C!Configs

\* The questions of the menu let nothing through that normalize refuses, but
\* for a list without servers.
Servers(ss) ==
    /\ ss \in Seq(C!Entries)
    /\ \A i \in DOMAIN ss : C!GoodServer(ss[i])
    /\ Distinct(ss)

CMenu ==
    /\ env # NoConfig => C!Normal(env)
    /\ at # "closed" => cfg.loopback /\ cfg.streams >= 1 /\ Servers(cfg.servers)
    /\ tmp["menu"].stage # "none" <=> at = "saving"
    /\ at = "saving" => tmp["menu"].data = cfg
    /\ at = "apply" => seen = cfg
    /\ at \in {"saving", "apply"} => (anyway <=> ~ C!Checked(cfg))

ClientInv == C!TypeOK /\ CHeld /\ CMenu /\ C!UpToDate

\* A list whose entries are those of another, each at most once.
LEMMA ServersFrom ==
    ASSUME NEW ss, Servers(ss), NEW rs \in Seq(C!Entries), NEW k \in [DOMAIN rs -> DOMAIN ss],
           \A i, j \in DOMAIN rs : k[i] = k[j] => i = j,
           \A j \in DOMAIN rs : rs[j] = ss[k[j]]
    PROVE  Servers(rs)
<1>1. \A j \in DOMAIN rs : C!GoodServer(rs[j])
  BY DEF Servers
<1>2. Distinct(rs)
  BY DEF Servers, Distinct
<1> QED
  BY <1>1, <1>2 DEF Servers

\* delServer
LEMMA ServerRemoved ==
    ASSUME NEW ss, Servers(ss), NEW i \in DOMAIN ss
    PROVE  Servers(C!RemoveAt(ss, i))
<1> DEFINE rs == C!RemoveAt(ss, i)
           k == [j \in DOMAIN rs |-> IF j < i THEN j ELSE j + 1]
<1>1. ss \in Seq(C!Entries)
  BY DEF Servers
<1>2. /\ rs \in Seq(C!Entries) /\ Len(rs) = Len(ss) - 1
      /\ \A j \in 1 .. Len(ss) - 1 : rs[j] = ss[IF j < i THEN j ELSE j + 1]
  BY <1>1, Removed DEF C!RemoveAt
<1> HIDE DEF rs
<1>3. DOMAIN rs = 1 .. Len(ss) - 1 /\ DOMAIN ss = 1 .. Len(ss) /\ Len(ss) \in Nat
  BY <1>1, <1>2
<1>4. k \in [DOMAIN rs -> DOMAIN ss] /\ \A a, b \in DOMAIN rs : k[a] = k[b] => a = b
  BY <1>3
<1>5. \A j \in DOMAIN rs : rs[j] = ss[k[j]]
  BY <1>2
<1> HIDE DEF k
<1>6. Servers(rs)
  BY <1>2, <1>4, <1>5, ServersFrom
<1> QED
  BY <1>6 DEF rs

\* move
LEMMA ServersSwapped ==
    ASSUME NEW ss, Servers(ss), NEW i \in DOMAIN ss, NEW j \in DOMAIN ss
    PROVE  Servers(C!Swapped(ss, i, j))
<1> DEFINE rs == C!Swapped(ss, i, j)
           k == [n \in DOMAIN ss |-> IF n = j THEN i ELSE IF n = i THEN j ELSE n]
<1>1. ss \in Seq(C!Entries)
  BY DEF Servers
<1>2. rs \in Seq(C!Entries) /\ DOMAIN rs = DOMAIN ss /\ \A n \in DOMAIN ss : rs[n] = ss[k[n]]
  BY <1>1 DEF C!Swapped
<1>3. k \in [DOMAIN ss -> DOMAIN ss] /\ \A a, b \in DOMAIN ss : k[a] = k[b] => a = b
  OBVIOUS
<1> HIDE DEF rs, k
<1>4. Servers(rs)
  BY <1>2, <1>3, ServersFrom
<1> QED
  BY <1>4 DEF rs

\* editServer: entry i is another one, with the same name or a free one.
LEMMA ServerEdited ==
    ASSUME NEW ss, Servers(ss), NEW i \in DOMAIN ss, NEW e \in C!Entries, C!GoodServer(e),
           e.name = ss[i].name \/ \A j \in DOMAIN ss : ss[j].name # e.name
    PROVE  Servers([ss EXCEPT ![i] = e])
<1> DEFINE rs == [ss EXCEPT ![i] = e]
<1>1. ss \in Seq(C!Entries)
  BY DEF Servers
<1>2. /\ rs \in Seq(C!Entries) /\ DOMAIN rs = DOMAIN ss
      /\ \A j \in DOMAIN ss : rs[j] = IF j = i THEN e ELSE ss[j]
  BY <1>1
<1> HIDE DEF rs
<1>3. Servers(rs)
  BY <1>2 DEF Servers, Distinct
<1> QED
  BY <1>3 DEF rs

\* addServer, with a free name.
LEMMA ServerAdded ==
    ASSUME NEW ss, Servers(ss), NEW e \in C!Entries, C!GoodServer(e),
           \A j \in DOMAIN ss : ss[j].name # e.name
    PROVE  Servers(Append(ss, e))
<1> DEFINE rs == Append(ss, e)
           m == Len(ss) + 1
<1>1. ss \in Seq(C!Entries) /\ DOMAIN ss = 1 .. Len(ss) /\ Len(ss) \in Nat
  BY DEF Servers
<1>2. /\ rs \in Seq(C!Entries) /\ DOMAIN rs = 1 .. m /\ rs[m] = e
      /\ \A j \in 1 .. Len(ss) : rs[j] = ss[j]
  BY <1>1
<1> HIDE DEF rs
<1>3. \A j \in DOMAIN rs : \/ j = m /\ rs[j] = e
                           \/ j \in DOMAIN ss /\ rs[j] = ss[j]
  BY <1>1, <1>2
<1>4. Servers(rs)
  BY <1>2, <1>3 DEF Servers, Distinct
<1> QED
  BY <1>4 DEF rs

LEMMA CFileFacts ==
    ASSUME ClientInv
    PROVE  /\ seen \in C!Configs \cup {NoConfig} /\ maybe \subseteq C!Configs \cup {NoConfig}
           /\ tmp = [w \in {"menu"} |-> tmp["menu"]]
           /\ tmp["menu"] = [stage |-> tmp["menu"].stage, data |-> tmp["menu"].data]
           /\ tmp["menu"].stage \in {"none", "created", "written", "synced"}
           /\ tmp["menu"].data \in C!Configs \cup {NoConfig}
BY DEF ClientInv, CHeld, CSettings, C!TypeOK, C!File!TypeOK, C!File!Temps, C!Menu

LEMMA DefaultClient ==
    /\ C!Default \in C!Configs /\ C!Default # NoConfig
    /\ C!Default.loopback /\ C!Default.streams >= 1 /\ Servers(C!Default.servers)
<1>1. <<>> \in Seq(C!Entries) /\ DOMAIN <<>> = {}
  OBVIOUS
<1>2. C!Default \in C!Configs
  BY <1>1 DEF C!Default, C!Configs, C!Transports
<1>3. Servers(C!Default.servers)
  BY <1>1 DEF C!Default, Servers, Distinct
<1>4. NoConfig \notin C!Configs
  BY HostAssumption DEF C!Assumption
<1>5. C!Default.loopback /\ C!Default.streams >= 1
  BY DEF C!Default
<1> QED
  BY <1>2, <1>3, <1>4, <1>5

LEMMA CHeldKept ==
    ASSUME ClientInv, CSettings' \subseteq CSettings \cup {NoConfig, C!Default}
    PROVE  CHeld'
BY DefaultClient DEF ClientInv, CHeld

\* Every step but a change in the menu only passes settings on.
LEMMA CPassesOn ==
    ASSUME ClientInv,
           \/ C!Open \/ C!Leave \/ C!Save \/ C!Saving \/ C!SaveFails
           \/ C!Start \/ C!ServiceDies \/ C!MenuKilled \/ C!PowerFails \/ C!Flush
    PROVE  ClientInv'
<1> USE DEF C!file, C!service, C!menu, C!fixed, C!Menu, C!File!NoTemp, C!File!Temps
<1>1. ASSUME CSettings' \subseteq CSettings \cup {NoConfig, C!Default},
             C!TypeOK', CMenu', C!UpToDate'
      PROVE  ClientInv'
  <2>1. CHeld'
    BY <1>1, CHeldKept
  <2> QED
    BY <1>1, <2>1 DEF ClientInv
<1>2. CASE C!Open
  <2>1. /\ cfg' \in {seen, env, C!Default} /\ cfg' # NoConfig /\ at' = "main"
        /\ UNCHANGED <<systemd, env, seen, maybe, tmp, svc, boot, untold, edits, faults>>
    BY <1>2, HostAssumption DEF C!Open, C!create, C!Loadable, C!Assumption
  <2>2. CSettings' \subseteq CSettings \cup {NoConfig, C!Default}
    BY <2>1 DEF CSettings
  <2>3. cfg' \in C!Configs
    BY <2>1, DefaultClient DEF ClientInv, CHeld, CSettings
  <2>4. C!TypeOK'
    BY <1>2, <2>1, <2>3 DEF C!Open, C!create, ClientInv, C!TypeOK, C!File!TypeOK
  <2>5. ASSUME NEW c \in C!Configs, C!Normal(c)
        PROVE  c.loopback /\ c.streams >= 1 /\ Servers(c.servers)
    BY <2>5 DEF C!Normal, Servers, Distinct, C!Configs
  <2>6. cfg'.loopback /\ cfg'.streams >= 1 /\ Servers(cfg'.servers)
    <3>1. CASE C!Loadable /\ cfg' = seen
      BY <2>5, <3>1 DEF C!Loadable
    <3>2. CASE cfg' = env
      BY <2>1, <2>3, <2>5, <3>2 DEF ClientInv, CMenu
    <3>3. CASE cfg' = C!Default
      BY <3>3, DefaultClient
    <3> QED
      BY <1>2, <3>1, <3>2, <3>3 DEF C!Open, C!create
  <2>7. CMenu'
    BY <1>2, <2>6 DEF C!Open, ClientInv, CMenu
  <2>8. C!UpToDate'
    BY <2>1 DEF ClientInv, C!UpToDate, C!Loaded, C!Loadable
  <2> QED
    BY <1>1, <2>2, <2>4, <2>7, <2>8
<1>3. CASE C!Leave
  <2>1. CSettings' \subseteq CSettings \cup {NoConfig, C!Default}
    BY <1>3, CFileFacts DEF C!Leave, C!Closed, CSettings
  <2>2. edits' \in 0 .. MaxEdits /\ faults' \in 0 .. MaxFaults
    BY <1>3, HostAssumption DEF C!Leave, ClientInv, C!TypeOK
  <2>3. C!File!TypeOK'
    BY <1>3 DEF C!Leave, ClientInv, C!TypeOK, C!File!TypeOK
  <2>4. C!TypeOK'
    BY <1>3, <2>3 DEF C!Leave, C!Closed, ClientInv, C!TypeOK
  <2>5. CMenu'
    BY <1>3 DEF C!Leave, C!Closed, ClientInv, CMenu
  <2>6. C!UpToDate'
    BY <1>3 DEF C!Leave, ClientInv, C!UpToDate, C!Loaded, C!Loadable
  <2> QED
    BY <1>1, <2>1, <2>4, <2>5, <2>6
<1>4. CASE C!Save
  <2>1. CSettings' \subseteq CSettings \cup {NoConfig, C!Default}
    BY <1>4, CFileFacts DEF C!Save, C!File!Create, CSettings
  <2>2. edits' \in 0 .. MaxEdits /\ faults' \in 0 .. MaxFaults
    BY <1>4, HostAssumption DEF C!Save, ClientInv, C!TypeOK
  <2>3. C!File!TypeOK'
    BY <1>4 DEF C!Save, C!File!Create, ClientInv, C!TypeOK, C!File!TypeOK
  <2>4. C!TypeOK'
    BY <1>4, <2>3 DEF C!Save, ClientInv, C!TypeOK
  <2>5. CMenu'
    BY <1>4, CFileFacts DEF C!Save, C!File!Create, ClientInv, CMenu
  <2>6. C!UpToDate'
    BY <1>4 DEF C!Save, C!File!Create, ClientInv, C!UpToDate, C!Loaded, C!Loadable
  <2> QED
    BY <1>1, <2>1, <2>4, <2>5, <2>6
<1>5. CASE C!SaveStep
  <2>1. CSettings' \subseteq CSettings \cup {NoConfig, C!Default}
    BY <1>5, CFileFacts DEF C!SaveStep, C!File!Write, C!File!Sync, CSettings
  <2>2. edits' \in 0 .. MaxEdits /\ faults' \in 0 .. MaxFaults
    BY <1>5, HostAssumption DEF C!SaveStep, ClientInv, C!TypeOK
  <2>3. C!File!TypeOK'
    BY <1>5 DEF C!SaveStep, C!File!Write, C!File!Sync, ClientInv, C!TypeOK,
       C!File!TypeOK
  <2>4. C!TypeOK'
    BY <1>5, <2>3 DEF C!SaveStep, ClientInv, C!TypeOK
  <2>5. CMenu'
    BY <1>5, CFileFacts DEF C!SaveStep, C!File!Write, C!File!Sync, ClientInv, CMenu
  <2>6. C!UpToDate'
    BY <1>5 DEF C!SaveStep, C!File!Write, C!File!Sync, ClientInv, C!UpToDate, C!Loaded,
       C!Loadable
  <2> QED
    BY <1>1, <2>1, <2>4, <2>5, <2>6
<1>6. CASE C!Saved
  <2>1. CSettings' \subseteq CSettings \cup {NoConfig, C!Default}
    BY <1>6 DEF C!Saved, C!File!Rename, C!File!Renamed, CSettings
  <2>2. edits' \in 0 .. MaxEdits /\ faults' \in 0 .. MaxFaults
    BY <1>6, HostAssumption DEF C!Saved, ClientInv, C!TypeOK
  <2>3. C!File!TypeOK'
    BY <1>6, CFileFacts DEF C!Saved, C!File!Rename, C!File!Renamed, C!File!TypeOK
  <2>4. C!TypeOK'
    BY <1>6, <2>3 DEF C!Saved, ClientInv, C!TypeOK
  <2>5. CMenu'
    BY <1>6, CFileFacts DEF C!Saved, C!File!Rename, C!File!Renamed, ClientInv, CMenu
  <2>6. C!UpToDate'
    BY <1>6 DEF C!Saved, C!UpToDate
  <2> QED
    BY <1>1, <2>1, <2>4, <2>5, <2>6
<1>7. CASE C!Restart
  <2>1. CSettings' \subseteq CSettings \cup {NoConfig, C!Default}
    BY <1>7, CFileFacts DEF C!Restart, C!Off, CSettings
  <2>2. edits' \in 0 .. MaxEdits /\ faults' \in 0 .. MaxFaults
    BY <1>7, HostAssumption DEF C!Restart, ClientInv, C!TypeOK
  <2>3. C!File!TypeOK'
    BY <1>7 DEF C!Restart, ClientInv, C!TypeOK, C!File!TypeOK
  <2>4. C!TypeOK'
    BY <1>7, <2>3 DEF C!Restart, C!Off, ClientInv, C!TypeOK
  <2>5. CMenu'
    BY <1>7 DEF C!Restart, ClientInv, CMenu
  <2>6. C!UpToDate'
    BY <1>7 DEF C!Restart, C!Off, ClientInv, C!UpToDate, C!Loaded, C!Loadable
  <2> QED
    BY <1>1, <2>1, <2>4, <2>5, <2>6
<1>8. CASE C!SaveFails
  <2>1. CSettings' \subseteq CSettings \cup {NoConfig, C!Default}
    BY <1>8, CFileFacts DEF C!SaveFails, C!File!Discard, CSettings
  <2>2. edits' \in 0 .. MaxEdits /\ faults' \in 0 .. MaxFaults
    BY <1>8, HostAssumption DEF C!SaveFails, ClientInv, C!TypeOK, C!Assumption
  <2>3. C!File!TypeOK'
    BY <1>8 DEF C!SaveFails, C!File!Discard, ClientInv, C!TypeOK, C!File!TypeOK
  <2>4. C!TypeOK'
    BY <1>8, <2>2, <2>3 DEF C!SaveFails, ClientInv, C!TypeOK
  <2>5. CMenu'
    BY <1>8, CFileFacts DEF C!SaveFails, C!File!Discard, ClientInv, CMenu
  <2>6. C!UpToDate'
    BY <1>8 DEF C!SaveFails, C!File!Discard, ClientInv, C!UpToDate, C!Loaded,
       C!Loadable
  <2> QED
    BY <1>1, <2>1, <2>4, <2>5, <2>6
<1>9. CASE C!Start
  <2>1. CSettings' \subseteq CSettings \cup {NoConfig, C!Default}
    BY <1>9 DEF C!Start, C!Loaded, CSettings
  <2>2. edits' \in 0 .. MaxEdits /\ faults' \in 0 .. MaxFaults
    BY <1>9, HostAssumption DEF C!Start, ClientInv, C!TypeOK
  <2>3. C!File!TypeOK'
    BY <1>9 DEF C!Start, ClientInv, C!TypeOK, C!File!TypeOK
  <2>4. C!TypeOK'
    BY <1>9, <2>3 DEF C!Start, C!Loaded, C!Loadable, ClientInv, C!TypeOK
  <2>5. CMenu'
    BY <1>9 DEF C!Start, ClientInv, CMenu
  <2>6. C!UpToDate'
    BY <1>9 DEF C!Start, C!Loaded, C!UpToDate, C!Loaded
  <2> QED
    BY <1>1, <2>1, <2>4, <2>5, <2>6
<1>10. CASE C!ServiceDies
  <2>1. CSettings' \subseteq CSettings \cup {NoConfig, C!Default}
    BY <1>10, CFileFacts DEF C!ServiceDies, C!Off, CSettings
  <2>2. edits' \in 0 .. MaxEdits /\ faults' \in 0 .. MaxFaults
    BY <1>10, HostAssumption DEF C!ServiceDies, ClientInv, C!TypeOK, C!Assumption
  <2>3. C!File!TypeOK'
    BY <1>10 DEF C!ServiceDies, ClientInv, C!TypeOK, C!File!TypeOK
  <2>4. C!TypeOK'
    BY <1>10, <2>2, <2>3 DEF C!ServiceDies, C!Off, ClientInv, C!TypeOK
  <2>5. CMenu'
    BY <1>10 DEF C!ServiceDies, ClientInv, CMenu
  <2>6. C!UpToDate'
    BY <1>10 DEF C!ServiceDies, C!Off, C!UpToDate
  <2> QED
    BY <1>1, <2>1, <2>4, <2>5, <2>6
<1>11. CASE C!MenuKilled
  <2>1. CSettings' \subseteq CSettings \cup {NoConfig, C!Default}
    BY <1>11, CFileFacts DEF C!MenuKilled, C!Closed, C!File!Discard, CSettings
  <2>2. edits' \in 0 .. MaxEdits /\ faults' \in 0 .. MaxFaults
    BY <1>11, HostAssumption DEF C!MenuKilled, ClientInv, C!TypeOK, C!Assumption
  <2>3. C!File!TypeOK'
    <3>1. CASE at = "saving"
      BY <1>11 DEF C!MenuKilled, C!File!Discard, ClientInv, C!TypeOK, C!File!TypeOK
    <3>2. CASE at # "saving"
      BY <1>11, <3>2 DEF C!MenuKilled, ClientInv, C!TypeOK, C!File!TypeOK
    <3> QED
      BY <3>1, <3>2
  <2>4. C!TypeOK'
    BY <1>11, <2>2, <2>3 DEF C!MenuKilled, C!Closed, ClientInv, C!TypeOK
  <2>5. CMenu'
    BY <1>11, CFileFacts DEF C!MenuKilled, C!Closed, C!File!Discard, ClientInv, CMenu
  <2>6. C!UpToDate'
    BY <1>11 DEF C!MenuKilled, C!File!Discard, ClientInv, C!UpToDate, C!Loaded,
       C!Loadable
  <2> QED
    BY <1>1, <2>1, <2>4, <2>5, <2>6
<1>12. CASE C!PowerFails
  <2>1. CSettings' \subseteq CSettings \cup {NoConfig, C!Default}
    BY <1>12 DEF C!PowerFails, C!Closed, C!Off, C!File!PowerLoss, CSettings
  <2>2. edits' \in 0 .. MaxEdits /\ faults' \in 0 .. MaxFaults
    BY <1>12, HostAssumption DEF C!PowerFails, ClientInv, C!TypeOK, C!Assumption
  <2>3. C!File!TypeOK'
    BY <1>12, CFileFacts DEF C!PowerFails, C!File!PowerLoss, C!File!TypeOK
  <2>4. C!TypeOK'
    BY <1>12, <2>2, <2>3 DEF C!PowerFails, C!Closed, C!Off, ClientInv, C!TypeOK
  <2>5. CMenu'
    BY <1>12 DEF C!PowerFails, C!Closed, C!File!PowerLoss, ClientInv, CMenu
  <2>6. C!UpToDate'
    BY <1>12 DEF C!PowerFails, C!Off, C!UpToDate
  <2> QED
    BY <1>1, <2>1, <2>4, <2>5, <2>6
<1>13. CASE C!Flush
  <2>1. CSettings' \subseteq CSettings \cup {NoConfig, C!Default}
    BY <1>13, CFileFacts DEF C!Flush, C!File!Flush, CSettings
  <2>2. edits' \in 0 .. MaxEdits /\ faults' \in 0 .. MaxFaults
    BY <1>13, HostAssumption DEF C!Flush, ClientInv, C!TypeOK
  <2>3. C!File!TypeOK'
    BY <1>13, CFileFacts DEF C!Flush, C!File!Flush, C!File!TypeOK
  <2>4. C!TypeOK'
    BY <1>13, <2>3 DEF C!Flush, ClientInv, C!TypeOK
  <2>5. CMenu'
    BY <1>13 DEF C!Flush, C!File!Flush, ClientInv, CMenu
  <2>6. C!UpToDate'
    BY <1>13 DEF C!Flush, C!File!Flush, ClientInv, C!UpToDate, C!Loaded, C!Loadable
  <2> QED
    BY <1>1, <2>1, <2>4, <2>5, <2>6
<1> QED
  BY <1>2, <1>3, <1>4, <1>5, <1>6, <1>7, <1>8, <1>9, <1>10, <1>11, <1>12, <1>13
     DEF C!Saving

\* A change in the menu.
LEMMA CEdited ==
    ASSUME ClientInv, at = "main", NEW c \in C!Configs, C!Edit(c),
           c.loopback, c.streams >= 1, Servers(c.servers)
    PROVE  ClientInv'
<1> USE DEF C!file, C!service, C!menu, C!fixed
<1>1. c # NoConfig
  BY HostAssumption DEF C!Assumption
<1>2. /\ cfg' = c /\ dirty' = TRUE /\ edits' \in 0 .. MaxEdits
      /\ UNCHANGED <<systemd, env, seen, maybe, tmp, svc, boot, at, anyway, untold, faults>>
  BY HostAssumption DEF C!Edit, ClientInv, C!TypeOK, C!Assumption
<1>3. C!TypeOK'
  BY <1>1, <1>2 DEF ClientInv, C!TypeOK, C!File!TypeOK
<1>4. CHeld'
  BY <1>2 DEF ClientInv, CHeld, CSettings
<1>5. CMenu' /\ C!UpToDate'
  BY <1>2 DEF ClientInv, CMenu, C!UpToDate, C!Loaded, C!Loadable
<1> QED
  BY <1>3, <1>4, <1>5 DEF ClientInv

LEMMA CChanged ==
    ASSUME ClientInv, C!Change
    PROVE  ClientInv'
<1>1. /\ at = "main" /\ cfg \in C!Configs /\ cfg.loopback /\ cfg.streams >= 1
      /\ Servers(cfg.servers)
  BY DEF C!Change, ClientInv, C!TypeOK, CMenu
<1>2. /\ cfg = [servers |-> cfg.servers, transport |-> cfg.transport,
                streams |-> cfg.streams, loopback |-> cfg.loopback]
      /\ cfg.servers \in Seq(C!Entries) /\ cfg.transport \in C!Transports
      /\ cfg.streams \in Nat /\ cfg.loopback \in BOOLEAN
  BY <1>1 DEF C!Configs
<1>3. ASSUME NEW ss, Servers(ss), C!Edit([cfg EXCEPT !.servers = ss])
      PROVE  ClientInv'
  <2> DEFINE c == [cfg EXCEPT !.servers = ss]
  <2>1. c \in C!Configs /\ c.servers = ss /\ c.loopback /\ c.streams >= 1
    BY <1>1, <1>2, <1>3 DEF C!Configs, Servers
  <2>2. C!Edit(c)
    BY <1>3
  <2> HIDE DEF c
  <2> QED
    BY <1>1, <1>3, <2>1, <2>2, CEdited
<1>4. ASSUME NEW name \in Names, C!addServer(name) PROVE ClientInv'
  <2>1. PICK k \in {"none", "long"} :
            C!Edit([cfg EXCEPT !.servers =
                Append(@, [name |-> name, gw |-> TRUE, token |-> "long", key |-> k])])
    BY <1>4 DEF C!addServer
  <2> DEFINE e == [name |-> name, gw |-> TRUE, token |-> "long", key |-> k]
             ss == Append(cfg.servers, e)
  <2>2. e \in C!Entries /\ C!GoodServer(e) /\ e.name = name
    BY HostAssumption DEF C!Entries, C!Secrets, C!GoodServer, C!Assumption
  <2>3. C!Edit([cfg EXCEPT !.servers = ss])
    BY <2>1
  <2> HIDE DEF e
  <2>4. Servers(ss)
    BY <1>1, <1>4, <2>2, ServerAdded DEF C!addServer, C!freeName
  <2> HIDE DEF ss
  <2> QED
    BY <1>3, <2>3, <2>4
<1>5. ASSUME NEW i \in DOMAIN cfg.servers, C!editServer(i) PROVE ClientInv'
  <2>1. PICK name \in Names, k \in {cfg.servers[i].key, "long"} :
          /\ name = cfg.servers[i].name \/ C!freeName(name)
          /\ C!Edit([cfg EXCEPT !.servers[i].name = name, !.servers[i].key = k])
    BY <1>5 DEF C!editServer
  <2> DEFINE s == cfg.servers[i]
             e == [s EXCEPT !.name = name, !.key = k]
             ss == [cfg.servers EXCEPT ![i] = e]
  <2>2. s \in C!Entries /\ C!GoodServer(s)
    BY <1>1, <1>2 DEF Servers
  <2>3. name # NoName
    BY HostAssumption DEF C!Assumption
  <2>4. e \in C!Entries /\ C!GoodServer(e) /\ e.name = name
    BY <2>2, <2>3 DEF C!Entries, C!GoodServer
  <2>5. [cfg EXCEPT !.servers[i].name = name, !.servers[i].key = k]
        = [cfg EXCEPT !.servers = ss]
    OBVIOUS
  <2>6. C!Edit([cfg EXCEPT !.servers = ss])
    BY <2>1
  <2> HIDE DEF e
  <2>7. Servers(ss)
    BY <1>1, <2>1, <2>4, ServerEdited DEF C!freeName
  <2> HIDE DEF ss
  <2> QED
    BY <1>3, <2>6, <2>7
<1>6. ASSUME NEW i \in DOMAIN cfg.servers, C!delServer(i) PROVE ClientInv'
  <2> DEFINE ss == C!RemoveAt(cfg.servers, i)
  <2>1. Servers(ss)
    BY <1>1, ServerRemoved
  <2>2. C!Edit([cfg EXCEPT !.servers = ss])
    BY <1>6 DEF C!delServer
  <2> HIDE DEF ss
  <2> QED
    BY <1>3, <2>1, <2>2
<1>7. ASSUME NEW i \in DOMAIN cfg.servers, NEW j \in DOMAIN cfg.servers, C!move(i, j)
      PROVE  ClientInv'
  <2> DEFINE ss == C!Swapped(cfg.servers, i, j)
  <2>1. Servers(ss)
    BY <1>1, ServersSwapped
  <2>2. C!Edit([cfg EXCEPT !.servers = ss])
    BY <1>7 DEF C!move
  <2> HIDE DEF ss
  <2> QED
    BY <1>3, <2>1, <2>2
<1>8. CASE C!transport
  <2>1. PICK t \in C!Transports : C!Edit([cfg EXCEPT !.transport = t])
    BY <1>8 DEF C!transport
  <2> DEFINE c == [cfg EXCEPT !.transport = t]
  <2>2. c \in C!Configs /\ c.servers = cfg.servers /\ c.loopback /\ c.streams >= 1
    BY <1>1, <1>2 DEF C!Configs
  <2>3. C!Edit(c)
    BY <2>1
  <2> HIDE DEF c
  <2> QED
    BY <1>1, <2>2, <2>3, CEdited
<1>9. CASE C!setStreams
  <2>1. PICK n \in {1, 2} : C!Edit([cfg EXCEPT !.streams = n])
    BY <1>9 DEF C!setStreams
  <2> DEFINE c == [cfg EXCEPT !.streams = n]
  <2>2. c \in C!Configs /\ c.servers = cfg.servers /\ c.loopback /\ c.streams >= 1
    BY <1>1, <1>2 DEF C!Configs
  <2>3. C!Edit(c)
    BY <2>1
  <2> HIDE DEF c
  <2> QED
    BY <1>1, <2>2, <2>3, CEdited
<1>10. CASE C!setSocks
  <2> DEFINE c == [cfg EXCEPT !.loopback = TRUE]
  <2>1. c \in C!Configs /\ c.servers = cfg.servers /\ c.loopback /\ c.streams >= 1
    BY <1>1, <1>2
  <2>2. C!Edit(c)
    BY <1>10 DEF C!setSocks
  <2> HIDE DEF c
  <2> QED
    BY <1>1, <2>1, <2>2, CEdited
<1> QED
  BY <1>4, <1>5, <1>6, <1>7, <1>8, <1>9, <1>10 DEF C!Change

\* Every step of the client.
LEMMA ClientStep ==
    ASSUME ClientInv, C!Next
    PROVE  ClientInv'
BY CPassesOn, CChanged DEF C!Next

LEMMA ClientStarts ==
    ASSUME C!Init
    PROVE  ClientInv
<1> USE DEF C!File!Begin, C!File!NoTemp
<1>1. PICK f \in ClientFiles : seen = f /\ maybe = {f} /\ tmp = [w \in {"menu"} |-> C!File!NoTemp]
  BY DEF C!Init, C!Menu
<1>2. /\ {f, env} \subseteq C!Configs \cup {NoConfig}
      /\ env # NoConfig => C!Normal(env)
  BY HostAssumption DEF C!Init, C!Assumption
<1>3. CHeld
  BY <1>1, <1>2 DEF C!Init, CHeld, CSettings
<1>4. C!File!TypeOK
  BY <1>1, <1>2 DEF C!File!TypeOK, C!File!Temps, C!Menu
<1>5. edits \in 0 .. MaxEdits /\ faults \in 0 .. MaxFaults
  BY HostAssumption DEF C!Init, C!Assumption
<1>6. C!TypeOK
  BY <1>2, <1>4, <1>5 DEF C!Init, C!TypeOK
<1>7. CMenu /\ C!UpToDate
  BY <1>1, <1>2 DEF C!Init, CMenu, C!UpToDate
<1> QED
  BY <1>3, <1>6, <1>7 DEF ClientInv

LEMMA ClientApplied ==
    ASSUME ClientInv
    PROVE  C!AcceptedLoads /\ C!UpToDate
<1> SUFFICES ASSUME at = "apply", ~ anyway PROVE C!Loadable
  BY DEF ClientInv, C!AcceptedLoads
<1>1. seen = cfg /\ cfg \in C!Configs /\ C!Checked(cfg)
  BY DEF ClientInv, CMenu, C!TypeOK
<1>2. cfg.loopback /\ cfg.streams >= 1 /\ Servers(cfg.servers)
  BY DEF ClientInv, CMenu
<1> QED
  BY <1>1, <1>2 DEF C!Loadable, C!Normal, C!Checked, Servers, Distinct

\* The settings file of the client is replaced as a whole.
LEMMA ClientFile ==
    ASSUME ClientInv, C!Next
    PROVE  \/ seen' \in C!Configs /\ maybe' = maybe \cup {seen'}
           \/ seen' = seen /\ maybe' = {seen}
           \/ seen' \in maybe /\ maybe' = {seen'}
           \/ UNCHANGED <<seen, maybe>>
<1> USE DEF C!file
<1>1. CASE C!Saved
  <2>1. at = "saving" /\ tmp["menu"].data = cfg /\ cfg \in C!Configs
    BY <1>1 DEF C!Saved, ClientInv, CMenu, C!TypeOK
  <2> QED
    BY <1>1, <2>1 DEF C!Saved, C!File!Rename, C!File!Renamed, C!Menu
<1>2. CASE C!PowerFails
  BY <1>2 DEF C!PowerFails, C!File!PowerLoss
<1>3. CASE C!Flush
  BY <1>3 DEF C!Flush, C!File!Flush
<1>4. CASE \/ C!Open \/ C!Leave \/ C!Save \/ C!SaveStep \/ C!Restart \/ C!SaveFails
           \/ C!Start \/ C!ServiceDies \/ C!MenuKilled
  BY <1>4 DEF C!Open, C!Leave, C!Save, C!SaveStep, C!Restart, C!SaveFails, C!Start,
     C!ServiceDies, C!MenuKilled, C!File!Create, C!File!Write, C!File!Sync,
     C!File!Discard
<1>5. CASE C!Change
  BY <1>5 DEF C!Change, C!addServer, C!editServer, C!delServer, C!move, C!transport,
     C!setStreams, C!setSocks, C!Edit
<1> QED
  BY <1>1, <1>2, <1>3, <1>4, <1>5 DEF C!Next, C!Saving

-----------------------------------------------------------------------------
(* The program and its updates.                                             *)

\* The program is a published one, or a part of one that dpkg did not write.
UFile ==
    /\ {seen} \cup maybe \subseteq U!Versions \cup {Torn}
    /\ Torn \in maybe => ~ dpkg
    /\ seen = Torn => ~ dpkg /\ faults > 0

\* Whoever installs a package has it whole; whoever does it without dpkg has a
\* temporary file for the version of that package.
UStage(u) ==
    /\ at[u] \in {"downloaded", "replacing"} => deb[u] \in U!Packages /\ deb[u].whole
    /\ at[u] = "replacing" => ~ dpkg /\ tmp[u].data \in U!Versions
    /\ tmp[u].stage # "none" => at[u] = "replacing"

UStages == \A u \in Updaters : UStage(u)

UpdateInv == U!TypeOK /\ UFile /\ UStages

\* A step of one updater leaves the others where they are.
LEMMA UStagesKept ==
    ASSUME UpdateInv, dpkg' = dpkg, NEW w \in Updaters, UStage(w)',
           \A u \in Updaters \ {w} :
               at'[u] = at[u] /\ deb'[u] = deb[u] /\ tmp'[u] = tmp[u]
    PROVE  UStages'
<1> SUFFICES ASSUME NEW u \in Updaters \ {w} PROVE UStage(u)'
  BY DEF UStages
<1>1. UStage(u)
  BY DEF UpdateInv, UStages
<1>2. at'[u] = at[u] /\ deb'[u] = deb[u] /\ tmp'[u] = tmp[u]
  OBVIOUS
<1> QED
  BY <1>1, <1>2 DEF UStage


LEMMA UpdateStep ==
    ASSUME UpdateInv, U!Next
    PROVE  UpdateInv'
<1> USE DEF U!file, U!File!Temps, U!File!NoTemp
<1>1. /\ at \in [Updaters -> {"idle", "checked", "downloaded", "replacing"}]
      /\ deb \in [Updaters -> U!Packages \cup {NoConfig}]
      /\ tmp \in [Updaters -> U!File!Temps] /\ Torn \notin U!Versions
  BY HostAssumption DEF UpdateInv, U!TypeOK, U!File!TypeOK, U!Assumption
<1>2. ASSUME NEW w \in Updaters, U!Check(w) PROVE UpdateInv'
  <2>1. UStage(w)
    BY DEF UpdateInv, UStages
  <2>2. UStage(w)' /\ dpkg' = dpkg
    BY <1>1, <1>2, <2>1 DEF U!Check, UStage
  <2>3. \A u \in Updaters \ {w} :
            at'[u] = at[u] /\ deb'[u] = deb[u] /\ tmp'[u] = tmp[u]
    BY <1>1, <1>2 DEF U!Check
  <2>4. UFile'
    BY <1>2 DEF U!Check, UpdateInv, UFile
  <2>5. U!File!TypeOK'
    BY <1>2 DEF U!Check, UpdateInv, U!TypeOK, U!File!TypeOK
  <2>6. /\ current' \in [Updaters -> U!Versions]
        /\ lat' \in [Updaters -> [version : U!Versions, sum : BOOLEAN]]
    <3>1. seen \in U!Versions
      BY <1>2 DEF U!Check, UpdateInv, UFile
    <3>2. Releases[latest] \in U!Versions
      BY DEF UpdateInv, U!TypeOK, U!Versions
    <3> QED
      BY <1>2, <3>1, <3>2 DEF U!Check, UpdateInv, U!TypeOK
  <2>7. U!TypeOK'
    BY <1>2, <2>5, <2>6 DEF U!Check, UpdateInv, U!TypeOK
  <2> QED
    BY <2>2, <2>3, <2>4, <2>7, UStagesKept DEF UpdateInv
<1>3. ASSUME NEW w \in Updaters, U!download(w) PROVE UpdateInv'
  <2>1. UNCHANGED <<dpkg, latest, seen, maybe, tmp, current, lat, faults>>
    BY <1>3 DEF U!download
  <2>2. at[w] = "checked" /\ \A u \in Updaters \ {w} : at'[u] = at[u] /\ deb'[u] = deb[u]
    BY <1>1, <1>3 DEF U!download
  <2>3. ASSUME NEW p \in U!Arrives(w) PROVE p \in U!Packages
    <3>1. Releases[latest] \in U!Versions /\ lat[w].version \in U!Versions
      BY DEF UpdateInv, U!TypeOK, U!Versions
    <3> QED
      BY <3>1 DEF U!Arrives, U!Packages
  <2>4. \/ /\ at' = [at EXCEPT ![w] = "downloaded"]
           /\ \E p \in U!Packages : p.whole /\ deb' = [deb EXCEPT ![w] = p]
        \/ at' = [at EXCEPT ![w] = "idle"] /\ deb' = deb
    BY <1>3, <2>3 DEF U!download, U!Matches
  <2>5. UStage(w)'
    BY <1>1, <2>1, <2>2, <2>4 DEF UpdateInv, UStages, UStage
  <2>6. UStages'
    BY <2>1, <2>2, <2>5, UStagesKept
  <2>7. UFile'
    BY <2>1 DEF UpdateInv, UFile
  <2>8. U!TypeOK'
    <3>1. U!File!TypeOK'
      BY <2>1 DEF UpdateInv, U!TypeOK, U!File!TypeOK
    <3>2. /\ at' \in [Updaters -> {"idle", "checked", "downloaded", "replacing"}]
          /\ deb' \in [Updaters -> U!Packages \cup {NoConfig}]
      BY <1>1, <2>4
    <3> QED
      BY <2>1, <3>1, <3>2 DEF UpdateInv, U!TypeOK
  <2> QED
    BY <2>6, <2>7, <2>8 DEF UpdateInv
<1>4. ASSUME NEW w \in Updaters, U!InstallByDpkg(w) PROVE UpdateInv'
  <2>1. UStage(w)
    BY DEF UpdateInv, UStages
  <2>2. UStage(w)' /\ dpkg' = dpkg
    BY <1>1, <1>4, <2>1 DEF U!InstallByDpkg, U!Done, UStage
  <2>3. \A u \in Updaters \ {w} :
            at'[u] = at[u] /\ deb'[u] = deb[u] /\ tmp'[u] = tmp[u]
    BY <1>1, <1>4 DEF U!InstallByDpkg, U!Done
  <2>4. UFile'
    BY <1>1, <1>4, <2>1 DEF U!InstallByDpkg, UpdateInv, UFile, UStage, U!Packages
  <2>5. U!File!TypeOK'
    BY <1>4, <2>4 DEF U!InstallByDpkg, UpdateInv, U!TypeOK, U!File!TypeOK, UFile
  <2>6. U!TypeOK'
    BY <1>4, <2>5 DEF U!InstallByDpkg, U!Done, UpdateInv, U!TypeOK
  <2> QED
    BY <2>2, <2>3, <2>4, <2>6, UStagesKept DEF UpdateInv
<1>5. ASSUME NEW w \in Updaters, U!replaceSelf(w) PROVE UpdateInv'
  <2>1. UStage(w)
    BY DEF UpdateInv, UStages
  <2>2. UStage(w)' /\ dpkg' = dpkg
    BY <1>1, <1>5, <2>1 DEF U!replaceSelf, U!File!Create, UStage, U!Packages
  <2>3. \A u \in Updaters \ {w} :
            at'[u] = at[u] /\ deb'[u] = deb[u] /\ tmp'[u] = tmp[u]
    BY <1>1, <1>5 DEF U!replaceSelf, U!File!Create
  <2>4. UFile'
    BY <1>5 DEF U!replaceSelf, U!File!Create, UpdateInv, UFile
  <2>5. U!File!TypeOK'
    BY <1>5, <2>1 DEF U!replaceSelf, U!File!Create, UpdateInv, U!TypeOK, U!File!TypeOK,
       UStage, U!Packages
  <2>6. U!TypeOK'
    BY <1>5, <2>5 DEF U!replaceSelf, UpdateInv, U!TypeOK
  <2> QED
    BY <2>2, <2>3, <2>4, <2>6, UStagesKept DEF UpdateInv
<1>6. ASSUME NEW w \in Updaters, U!extractBin(w) PROVE UpdateInv'
  <2>1. UStage(w)
    BY DEF UpdateInv, UStages
  <2>2. UStage(w)' /\ dpkg' = dpkg
    BY <1>6, <2>1 DEF U!extractBin, U!File!Write, UStage
  <2>3. \A u \in Updaters \ {w} :
            at'[u] = at[u] /\ deb'[u] = deb[u] /\ tmp'[u] = tmp[u]
    BY <1>1, <1>6 DEF U!extractBin, U!File!Write
  <2>4. UFile'
    BY <1>6 DEF U!extractBin, U!File!Write, UpdateInv, UFile
  <2>5. U!File!TypeOK'
    BY <1>6 DEF U!extractBin, U!File!Write, UpdateInv, U!TypeOK, U!File!TypeOK
  <2>6. U!TypeOK'
    BY <1>6, <2>5 DEF U!extractBin, UpdateInv, U!TypeOK
  <2> QED
    BY <2>2, <2>3, <2>4, <2>6, UStagesKept DEF UpdateInv
<1>7. ASSUME NEW w \in Updaters, U!Replaced(w) PROVE UpdateInv'
  <2>1. UStage(w)
    BY DEF UpdateInv, UStages
  <2>2. UStage(w)' /\ dpkg' = dpkg
    BY <1>1, <1>7 DEF U!Replaced, U!File!Rename, U!Done, UStage
  <2>3. \A u \in Updaters \ {w} :
            at'[u] = at[u] /\ deb'[u] = deb[u] /\ tmp'[u] = tmp[u]
    BY <1>7 DEF U!Replaced, U!File!Rename, U!Done
  <2>4. UFile'
    BY <1>1, <1>7, <2>1 DEF U!Replaced, U!File!Rename, U!File!Renamed, U!Done,
       UpdateInv, UFile, UStage
  <2>5. U!File!TypeOK'
    BY <1>7 DEF U!Replaced, U!File!Rename, U!File!Renamed, UpdateInv, U!TypeOK,
       U!File!TypeOK
  <2>6. U!TypeOK'
    BY <1>7, <2>5 DEF U!Replaced, U!Done, UpdateInv, U!TypeOK
  <2> QED
    BY <2>2, <2>3, <2>4, <2>6, UStagesKept DEF UpdateInv
<1>8. ASSUME NEW w \in Updaters, U!ReplaceFails(w) PROVE UpdateInv'
  <2>1. UStage(w)
    BY DEF UpdateInv, UStages
  <2>2. UStage(w)' /\ dpkg' = dpkg
    BY <1>1, <1>8 DEF U!ReplaceFails, U!File!Discard, U!Done, UStage
  <2>3. \A u \in Updaters \ {w} :
            at'[u] = at[u] /\ deb'[u] = deb[u] /\ tmp'[u] = tmp[u]
    BY <1>1, <1>8 DEF U!ReplaceFails, U!File!Discard, U!Done
  <2>4. UFile'
    BY <1>8 DEF U!ReplaceFails, U!File!Discard, U!Done, UpdateInv, UFile
  <2>5. U!File!TypeOK'
    BY <1>8 DEF U!ReplaceFails, U!File!Discard, UpdateInv, U!TypeOK, U!File!TypeOK
  <2>6. U!TypeOK'
    BY <1>8, <2>5 DEF U!ReplaceFails, U!Done, UpdateInv, U!TypeOK
  <2> QED
    BY <2>2, <2>3, <2>4, <2>6, UStagesKept DEF UpdateInv
<1>9. CASE U!Publish \/ U!Flush
  <2>1. UNCHANGED <<dpkg, seen, tmp, at, current, lat, deb, faults>>
    BY <1>9 DEF U!Publish, U!Flush, U!File!Flush
  <2>2. UStages'
    BY <2>1 DEF UpdateInv, UStages, UStage
  <2>3. maybe' \subseteq maybe \cup {seen} /\ maybe' # {}
    BY <1>9 DEF U!Publish, U!Flush, U!File!Flush, UpdateInv, U!TypeOK, U!File!TypeOK
  <2>4. UFile'
    BY <2>1, <2>3 DEF UpdateInv, UFile
  <2>5. latest' \in DOMAIN Releases
    BY <1>9 DEF U!Publish, U!Flush, UpdateInv, U!TypeOK
  <2> QED
    BY <2>1, <2>2, <2>3, <2>4, <2>5 DEF UpdateInv, U!TypeOK, U!File!TypeOK
<1>10. CASE U!PowerFails
  <2>1. faults' \in 0 .. MaxFaults /\ faults' > 0
    BY <1>10, HostAssumption DEF U!PowerFails, UpdateInv, U!TypeOK, U!Assumption
  <2>2. UFile'
    BY <1>10, <2>1 DEF U!PowerFails, U!File!PowerLoss, UpdateInv, UFile
  <2>3. UStages'
    BY <1>10 DEF U!PowerFails, U!File!PowerLoss, UStages, UStage
  <2>4. U!TypeOK'
    BY <1>10, <2>1 DEF U!PowerFails, U!File!PowerLoss, UpdateInv, U!TypeOK,
       U!File!TypeOK
  <2> QED
    BY <2>2, <2>3, <2>4 DEF UpdateInv
<1> QED
  BY <1>2, <1>3, <1>4, <1>5, <1>6, <1>7, <1>8, <1>9, <1>10 DEF U!Next

LEMMA UpdateStarts ==
    ASSUME U!Init
    PROVE  UpdateInv
<1> USE DEF U!File!Begin, U!File!NoTemp, U!File!Temps
<1>1. Releases[1] \in U!Versions /\ Torn \notin U!Versions /\ 1 \in DOMAIN Releases
  BY HostAssumption DEF U!Assumption, U!Versions
<1>2. faults \in 0 .. MaxFaults
  BY HostAssumption DEF U!Init, U!Assumption
<1>3. U!TypeOK
  BY <1>1, <1>2 DEF U!Init, U!TypeOK, U!File!TypeOK
<1>4. UFile /\ UStages
  BY <1>1 DEF U!Init, UFile, UStages, UStage
<1> QED
  BY <1>3, <1>4 DEF UpdateInv

-----------------------------------------------------------------------------
(* The host, whatever it is.                                                *)

HostInv ==
    /\ role \in {"gateway", "client", "update"}
    /\ role = "gateway" => GatewayInv
    /\ role = "client" => ClientInv
    /\ role = "update" => UpdateInv

\* The role never changes, and only its own part takes steps.
LEMMA HostStep ==
    ASSUME HostInv, Next
    PROVE  /\ HostInv' /\ role' = role
           /\ role = "gateway" => G!Next
           /\ role = "client" => C!Next
<1>1. CASE GatewayNext
  BY <1>1, GatewayStep DEF GatewayNext, HostInv
<1>2. CASE ClientNext
  BY <1>2, ClientStep DEF ClientNext, HostInv
<1>3. CASE UpdateNext
  BY <1>3, UpdateStep DEF UpdateNext, HostInv
<1> QED
  BY <1>1, <1>2, <1>3 DEF Next

LEMMA HostStutters ==
    ASSUME UNCHANGED vars
    PROVE  /\ HostInv => HostInv'
           /\ GNames => GNames'
<1> USE DEF vars, files, menus, gateway, update
<1>1. GatewayInv => GatewayInv'
  BY DEF GatewayInv, G!TypeOK, G!ServiceTypeOK, G!File!TypeOK, GHeld, GSettings, GMenu,
     GService, GOnItsWay, G!Loadable
<1>2. ClientInv => ClientInv'
  BY DEF ClientInv, C!TypeOK, C!File!TypeOK, CHeld, CSettings, CMenu, C!UpToDate,
     C!Loaded, C!Loadable
<1>3. UpdateInv => UpdateInv'
  BY DEF UpdateInv, U!TypeOK, U!File!TypeOK, UFile, UStages, UStage
<1>4. GNames => GNames'
  BY DEF GNames, GSettings
<1>5. role' = role
  OBVIOUS
<1> QED
  BY <1>1, <1>2, <1>3, <1>4 DEF HostInv

LEMMA HostInvariant == Spec => []HostInv
<1>1. Init => HostInv
  BY GatewayStarts, ClientStarts, UpdateStarts DEF Init, HostInv
<1>2. HostInv /\ [Next]_vars => HostInv'
  BY HostStep, HostStutters
<1> QED
  BY <1>1, <1>2, PTL DEF Spec

\* Whatever the menus, the service and the updates do, and whatever is cut
\* short: every variable stays within its type. In particular the menu has
\* settings in hand exactly as long as it is open.
THEOREM HostTypes == Spec => []TypeOK
<1>1. HostInv => TypeOK
  BY DEF HostInv, GatewayInv, ClientInv, UpdateInv, TypeOK
<1> QED
  BY <1>1, HostInvariant, PTL

\* checkServer, apply and reload; save and restart: what a menu saves without a
\* question is what the service loads, but for the short key of an old file;
\* and once the service has been told of a file it can load, it has that file
\* as soon as no signal is left to handle: the client as a whole, the gateway
\* in cur, which is all but the addresses and the key of its listeners.
THEOREM MenusApply == Spec => []Applied
<1>1. HostInv => Applied
  BY GatewayApplied, ClientApplied DEF HostInv, Applied
<1> QED
  BY <1>1, HostInvariant, PTL

\* Allowed and Limit look a user up by name, and addUser lets no name in twice:
\* the rules of a token are those of its own entry, in the menu and in the
\* service. A file made by hand may have a name twice (normalize does not look
\* at that), hence the premise.
THEOREM RulesAreOwn ==
    ASSUME \A f \in ServerFiles \ {NoConfig} : Distinct(f.users)
    PROVE  Spec => []OwnRules
<1> DEFINE Inv == HostInv /\ (role = "gateway" => GNames)
<1>1. Init => Inv
  <2>1. Init => HostInv
    BY GatewayStarts, ClientStarts, UpdateStarts DEF Init, HostInv
  <2> QED
    BY <2>1, GNamesStart DEF Init
<1>2. Inv /\ [Next]_vars => Inv'
  <2> SUFFICES ASSUME Inv, [Next]_vars PROVE Inv'
    OBVIOUS
  <2>1. CASE Next
    BY <2>1, HostStep, GatewayStep DEF HostInv
  <2>2. CASE UNCHANGED vars
    BY <2>2, HostStutters DEF vars
  <2> QED
    BY <2>1, <2>2
<1>3. Inv => OwnRules
  BY GatewayRules DEF HostInv, OwnRules
<1> QED
  BY <1>1, <1>2, <1>3, PTL DEF Spec

\* install and replaceSelf: whatever fails, and whoever else updates at the same
\* time, the program is a whole published one; only the power can leave less,
\* and only where dpkg is missing.
THEOREM ProgramStaysWhole == Spec => []ProgramWhole
<1>1. HostInv => ProgramWhole
  BY DEF HostInv, UpdateInv, UFile, ProgramWhole, U!ProgramWhole
<1> QED
  BY <1>1, HostInvariant, PTL

\* "An interrupted write will not spoil the working settings" (saveJSON;
\* Config.Save): the files of the gateway and of the client are FileSpec's, one
\* whole value replaced in one step by another that was saved.
THEOREM SettingsStayWhole == Spec => FilesWhole
<1> DEFINE value == IF role = "update" THEN NoConfig ELSE seen
           earlier == IF role = "update" THEN {NoConfig} ELSE maybe
<1>1. Init => Whole!Init
  <2>1. ASSUME role = "gateway", G!Init PROVE Whole!Init
    <3>1. PICK f \in ServerFiles : seen = f /\ maybe = {f}
      BY <2>1 DEF G!Init, G!File!Begin
    <3>2. f \in G!Configs \cup {NoConfig}
      BY HostAssumption DEF G!Assumption
    <3> QED
      BY <2>1, <3>1, <3>2 DEF Whole!Init
  <2>2. ASSUME role = "client", C!Init PROVE Whole!Init
    <3>1. PICK f \in ClientFiles : seen = f /\ maybe = {f}
      BY <2>2 DEF C!Init, C!File!Begin
    <3>2. f \in C!Configs \cup {NoConfig}
      BY HostAssumption DEF C!Assumption
    <3> QED
      BY <2>2, <3>1, <3>2 DEF Whole!Init
  <2>3. ASSUME role = "update" PROVE Whole!Init
    BY <2>3 DEF Whole!Init
  <2> QED
    BY <2>1, <2>2, <2>3 DEF Init
<1>2. HostInv /\ [Next]_vars => [Whole!Next]_(Whole!vars)
  <2> SUFFICES ASSUME HostInv, [Next]_vars
               PROVE  Whole!Next \/ (value' = value /\ earlier' = earlier)
    BY DEF Whole!vars
  <2>1. ASSUME role # "update", role' = role,
               \/ seen' \in G!Configs \cup C!Configs /\ maybe' = maybe \cup {seen'}
               \/ seen' = seen /\ maybe' = {seen}
               \/ seen' \in maybe /\ maybe' = {seen'}
               \/ UNCHANGED <<seen, maybe>>
        PROVE  Whole!Next \/ (value' = value /\ earlier' = earlier)
    BY <2>1 DEF Whole!Next, Whole!Replace, Whole!Settle, Whole!Revert
  <2>2. CASE Next /\ role = "gateway"
    BY <2>1, <2>2, HostStep, GatewayFile DEF HostInv
  <2>3. CASE Next /\ role = "client"
    BY <2>1, <2>3, HostStep, ClientFile DEF HostInv
  <2>4. CASE Next /\ role = "update"
    BY <2>4, HostStep
  <2>5. CASE UNCHANGED vars
    BY <2>5 DEF vars, files
  <2> QED
    BY <2>2, <2>3, <2>4, <2>5 DEF HostInv
<1> QED
  BY <1>1, <1>2, HostInvariant, PTL DEF Spec, FilesWhole, Whole!Spec

-----------------------------------------------------------------------------
(* A file that is replaced by way of a temporary one, whoever does it: for  *)
(* any number of writers, as when a menu is open in two terminals.          *)

CONSTANTS Writers, Contents, Syncs

Disk == INSTANCE SafeFile WITH NoFile <- NoConfig
Promise == INSTANCE FileSpec WITH value <- seen, earlier <- maybe, NoFile <- NoConfig

\* Nothing but whole values is ready to take the place of the file.
Ready ==
    /\ tmp \in [Writers -> Disk!Temps]
    /\ \A w \in Writers : tmp[w].stage # "none" => tmp[w].data \in Contents

LEMMA ReadyStep == Ready /\ [Disk!Next]_(Disk!vars) => Ready'
<1> SUFFICES ASSUME Ready, [Disk!Next]_(Disk!vars) PROVE Ready'
  OBVIOUS
<1>1. Disk!NoTemp \in Disk!Temps /\ Disk!NoTemp.stage = "none"
  BY DEF Disk!NoTemp, Disk!Temps
<1>2. ASSUME NEW w \in Writers, NEW t \in Disk!Temps, tmp' = [tmp EXCEPT ![w] = t],
             t.stage # "none" => t.data \in Contents
      PROVE  Ready'
  BY <1>2 DEF Ready
<1>3. ASSUME NEW w \in Writers, NEW c \in Contents, Disk!Create(w, c) PROVE Ready'
  <2> DEFINE t == [stage |-> "created", data |-> c]
  <2>1. t \in Disk!Temps /\ t.data \in Contents /\ tmp' = [tmp EXCEPT ![w] = t]
    BY <1>3 DEF Disk!Create, Disk!Temps
  <2> HIDE DEF t
  <2> QED
    BY <1>2, <2>1
<1>4. ASSUME NEW w \in Writers, Disk!Write(w) \/ Disk!Sync(w) PROVE Ready'
  <2>1. PICK to \in {"written", "synced"} :
            tmp' = [tmp EXCEPT ![w] = [tmp[w] EXCEPT !.stage = to]]
    BY <1>4 DEF Disk!Write, Disk!Sync
  <2> DEFINE t == [tmp[w] EXCEPT !.stage = to]
  <2>2. tmp[w] \in Disk!Temps /\ tmp[w].data \in Contents
    BY <1>4 DEF Ready, Disk!Write, Disk!Sync
  <2>3. t \in Disk!Temps /\ t.data \in Contents
    BY <2>2 DEF Disk!Temps
  <2>4. tmp' = [tmp EXCEPT ![w] = t]
    BY <2>1
  <2> HIDE DEF t
  <2> QED
    BY <1>2, <2>3, <2>4
<1>5. ASSUME NEW w \in Writers, Disk!Rename(w) \/ Disk!Discard(w) PROVE Ready'
  <2>1. tmp' = [tmp EXCEPT ![w] = Disk!NoTemp]
    BY <1>5 DEF Disk!Rename, Disk!Discard
  <2> QED
    BY <1>1, <1>2, <2>1
<1>6. CASE Disk!Flush \/ UNCHANGED Disk!vars
  BY <1>6 DEF Disk!Flush, Disk!vars, Ready
<1>7. CASE Disk!PowerLoss
  BY <1>1, <1>7 DEF Disk!PowerLoss, Ready
<1> QED
  BY <1>3, <1>4, <1>5, <1>6, <1>7 DEF Disk!Next

\* "An interruption will not spoil the working settings" (saveJSON): because
\* Sync comes before Rename, the file is replaced in one step by a whole value,
\* and after the power has failed it is one of the whole values it had.
THEOREM SyncedFileIsWhole ==
    ASSUME Syncs = TRUE
    PROVE  Disk!Spec => Promise!Spec
<1>1. Disk!Init => Ready /\ Promise!Init
  BY DEF Disk!Init, Disk!Begin, Disk!NoTemp, Disk!Temps, Ready, Promise!Init
<1>2. Ready /\ [Disk!Next]_(Disk!vars) => [Promise!Next]_(Promise!vars)
  <2> SUFFICES ASSUME Ready, [Disk!Next]_(Disk!vars)
               PROVE  Promise!Next \/ UNCHANGED <<seen, maybe>>
    BY DEF Promise!vars
  <2>1. ASSUME NEW w \in Writers, Disk!Rename(w) PROVE Promise!Replace
    BY <2>1 DEF Disk!Rename, Disk!Renamed, Ready, Promise!Replace
  <2>2. CASE Disk!Flush
    BY <2>2 DEF Disk!Flush, Promise!Next, Promise!Settle
  <2>3. CASE Disk!PowerLoss
    BY <2>3 DEF Disk!PowerLoss, Promise!Next, Promise!Revert
  <2>4. ASSUME NEW w \in Writers,
               \/ \E c \in Contents : Disk!Create(w, c)
               \/ Disk!Write(w) \/ Disk!Sync(w) \/ Disk!Discard(w)
        PROVE  UNCHANGED <<seen, maybe>>
    BY <2>4 DEF Disk!Create, Disk!Write, Disk!Sync, Disk!Discard
  <2> QED
    BY <2>1, <2>2, <2>3, <2>4 DEF Disk!Next, Disk!vars, Promise!Next
<1> QED
  BY <1>1, <1>2, ReadyStep, PTL DEF Disk!Spec, Promise!Spec
=============================================================================
