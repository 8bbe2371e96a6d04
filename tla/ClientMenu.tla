----------------------------- MODULE ClientMenu -----------------------------
(***************************************************************************)
(* The settings of the client (internal/clientconf), its menu              *)
(* (sunfire -menu), and the service that reads them when it starts.  There *)
(* is no reload: the menu restarts the service.  An old installation has   *)
(* client.env instead, with one server; the service falls back on it, the  *)
(* menu offers to take it over.                                            *)
(***************************************************************************)
EXTENDS Naturals, Sequences, SequencesExt

CONSTANTS
    Names, NoName,   \* names of servers; the empty name
    NoConfig,        \* there is no file; the service is not running
    Torn,            \* a file of which the disk has only a part
    Files,           \* what client.conf may be before the menu is opened
    Envs,            \* what client.env may give: NoConfig, or one server
    MaxServers,      \* bound: entries the menu adds up to
    MaxEdits,        \* bound: changes in the menu
    MaxFaults        \* bound: crashes, kills, failed writes

\* A secret is missing, too short, or of the right length.
Secrets == {"none", "short", "long"}
Entries == [name : Names \cup {NoName}, gw : BOOLEAN,
            token : Secrets, key : Secrets]
Transports == {"auto", "tcp", "udp"}
Configs == [servers : Seq(Entries), transport : Transports,
            streams : Nat, loopback : BOOLEAN]

\* normalize: what Load accepts.  (It also trims and fills in what is missing.)
GoodServer(s) == s.name # NoName /\ s.gw /\ s.token = "long" /\ s.key # "short"

Normal(c) ==
    /\ c.loopback /\ c.streams >= 1
    /\ c.servers # <<>>
    /\ \A i \in DOMAIN c.servers : GoodServer(c.servers[i])
    /\ \A i, j \in DOMAIN c.servers :
        c.servers[i].name = c.servers[j].name => i = j

\* FromEnvFile normalizes what it has read.
Assumption ==
    /\ NoConfig \notin Configs /\ Torn \notin Configs \cup {NoConfig}
    /\ Files \cup Envs \subseteq Configs \cup {NoConfig}
    /\ \A e \in Envs \ {NoConfig} : Normal(e)
    /\ NoName \notin Names
    /\ {MaxEdits, MaxFaults} \subseteq Nat

VARIABLES
    systemd,         \* is systemctl installed?
    env,             \* client.env, as FromEnvFile reads it
    seen, maybe, tmp, \* client.conf, see SafeFile
    svc, boot,       \* the service: off or serving, and its settings
    at,              \* the menu: closed, main, saving, apply
    cfg, dirty,      \* m.cfg, m.dirty
    anyway,          \* the last save was confirmed although no server is left
    untold,          \* the service has not been restarted on a replaced file
    edits, faults

file == <<seen, maybe, tmp>>
service == <<svc, boot>>
menu == <<at, cfg, dirty, anyway>>
fixed == <<systemd, env>>
vars == <<fixed, file, service, menu, untold, edits, faults>>

Menu == "menu"
File == INSTANCE SafeFile
        WITH Writers <- {Menu}, Contents <- Configs,
             NoFile <- NoConfig, Syncs <- TRUE

Loadable == seen \in Configs /\ Normal(seen)

\* load: client.env only if there is no client.conf.
Loaded == IF Loadable THEN seen
          ELSE IF seen = NoConfig THEN env ELSE NoConfig

TypeOK ==
    /\ systemd \in BOOLEAN /\ env \in Configs \cup {NoConfig}
    /\ File!TypeOK
    /\ svc \in {"off", "serving"}
    /\ boot \in Configs \cup {NoConfig} /\ (boot = NoConfig <=> svc = "off")
    /\ at \in {"closed", "main", "saving", "apply"}
    /\ cfg \in Configs \cup {NoConfig} /\ (cfg = NoConfig <=> at = "closed")
    /\ dirty \in BOOLEAN /\ anyway \in BOOLEAN /\ untold \in BOOLEAN
    /\ edits \in 0 .. MaxEdits /\ faults \in 0 .. MaxFaults

Init ==
    /\ systemd \in BOOLEAN /\ env \in Envs
    /\ \E f \in Files : File!Begin(f)
    /\ svc = "off" /\ boot = NoConfig
    /\ at = "closed" /\ cfg = NoConfig /\ dirty = FALSE /\ anyway = FALSE
    /\ untold = FALSE /\ edits = 0 /\ faults = 0

-----------------------------------------------------------------------------
(* Opening and leaving.                                                     *)

Default == [servers |-> <<>>, transport |-> "auto", streams |-> 1,
            loopback |-> TRUE]

\* create: without a file, take over client.env or begin with the defaults.
create == cfg' \in {env, Default} \ {NoConfig} /\ dirty' = TRUE

Open ==
    /\ at = "closed"
    /\ \/ Loadable /\ cfg' = seen /\ dirty' = FALSE
       \/ seen = NoConfig /\ create
    /\ at' = "main" /\ anyway' = FALSE
    /\ UNCHANGED <<fixed, file, service, untold, edits, faults>>

Closed == at' = "closed" /\ cfg' = NoConfig /\ dirty' = FALSE /\ anyway' = FALSE

Leave == at = "main" /\ Closed
         /\ UNCHANGED <<fixed, file, service, untold, edits, faults>>

-----------------------------------------------------------------------------
(* The changes.                                                             *)

Edit(c) ==
    /\ edits < MaxEdits
    /\ cfg' = c /\ dirty' = TRUE /\ edits' = edits + 1
    /\ UNCHANGED <<fixed, file, service, at, anyway, untold, faults>>

freeName(v) == \A i \in DOMAIN cfg.servers : cfg.servers[i].name # v

\* The questions let only good answers through; a key may be left out.
addServer(name) ==
    /\ freeName(name) /\ Len(cfg.servers) < MaxServers
    /\ \E k \in {"none", "long"} :
        Edit([cfg EXCEPT !.servers =
            Append(@, [name |-> name, gw |-> TRUE, token |-> "long", key |-> k])])

\* An empty answer keeps what was there, the name and the key among others.
editServer(i) ==
    \E name \in Names, k \in {cfg.servers[i].key, "long"} :
        /\ name = cfg.servers[i].name \/ freeName(name)
        /\ Edit([cfg EXCEPT !.servers[i].name = name, !.servers[i].key = k])

delServer(i) == Edit([cfg EXCEPT !.servers = RemoveAt(@, i)])

Swapped(s, i, j) == [s EXCEPT ![i] = s[j], ![j] = s[i]]

\* The order of the list is the order of failover.
move(i, j) ==
    /\ j \in DOMAIN cfg.servers /\ (j = i + 1 \/ i = j + 1)
    /\ Edit([cfg EXCEPT !.servers = Swapped(@, i, j)])

transport == \E t \in Transports : Edit([cfg EXCEPT !.transport = t])
setStreams == \E n \in {1, 2} : Edit([cfg EXCEPT !.streams = n])
setSocks == Edit([cfg EXCEPT !.loopback = TRUE])

Change ==
    /\ at = "main"
    /\ \/ \E n \in Names : addServer(n)
       \/ \E i \in DOMAIN cfg.servers : editServer(i) \/ delServer(i)
       \/ \E i, j \in DOMAIN cfg.servers : move(i, j)
       \/ transport \/ setStreams \/ setSocks

-----------------------------------------------------------------------------
(* Saving and restarting.                                                   *)

\* save asks again if no server is left.
Checked(c) == c.servers # <<>>

Save ==
    /\ at = "main"
    /\ at' = "saving" /\ anyway' = ~ Checked(cfg)
    /\ File!Create(Menu, cfg)
    /\ UNCHANGED <<fixed, service, cfg, dirty, untold, edits, faults>>

SaveStep ==
    /\ at = "saving"
    /\ File!Write(Menu) \/ File!Sync(Menu)
    /\ UNCHANGED <<fixed, service, menu, untold, edits, faults>>

Saved ==
    /\ at = "saving"
    /\ File!Rename(Menu)
    /\ at' = "apply" /\ dirty' = FALSE /\ untold' = TRUE
    /\ UNCHANGED <<fixed, service, cfg, anyway, edits, faults>>

SaveFails ==
    /\ at = "saving" /\ faults < MaxFaults
    /\ File!Discard(Menu)
    /\ at' = "main" /\ faults' = faults + 1
    /\ UNCHANGED <<fixed, service, cfg, dirty, anyway, untold, edits>>

\* Mutant of Off: the settings of the last run are still there.
OffKeeps == svc' = "off" /\ UNCHANGED boot

Off == svc' = "off" /\ boot' = NoConfig

\* Mutant of Restart: start, which does nothing to a service that runs.
StartOnly ==
    /\ at = "apply"
    /\ at' = "main"
    /\ untold' = (untold /\ ~ systemd)
    /\ UNCHANGED <<fixed, file, service, cfg, dirty, anyway, edits, faults>>

\* systemctl restart ends the service; Start is systemd's.
Restart ==
    /\ at = "apply"
    /\ at' = "main"
    /\ IF systemd THEN Off /\ untold' = FALSE ELSE UNCHANGED <<service, untold>>
    /\ UNCHANGED <<fixed, file, cfg, dirty, anyway, edits, faults>>

-----------------------------------------------------------------------------
(* The service, and what may go wrong from outside.                         *)

Start ==
    /\ svc = "off" /\ Loaded # NoConfig
    /\ svc' = "serving" /\ boot' = Loaded /\ untold' = FALSE
    /\ UNCHANGED <<fixed, file, menu, edits, faults>>

\* No server answers at the start, the address is taken, a fault.
ServiceDies ==
    /\ svc = "serving" /\ faults < MaxFaults /\ faults' = faults + 1
    /\ Off
    /\ UNCHANGED <<fixed, file, menu, untold, edits>>

MenuKilled ==
    /\ at # "closed" /\ faults < MaxFaults /\ faults' = faults + 1
    /\ Closed
    /\ IF at = "saving" THEN File!Discard(Menu) ELSE UNCHANGED file
    /\ UNCHANGED <<fixed, service, untold, edits>>

PowerFails ==
    /\ faults < MaxFaults /\ faults' = faults + 1
    /\ File!PowerLoss /\ Closed /\ Off /\ untold' = FALSE
    /\ UNCHANGED <<fixed, edits>>

Flush == File!Flush /\ UNCHANGED <<fixed, service, menu, untold, edits, faults>>

Saving == SaveStep \/ Saved \/ Restart

Next ==
    \/ Open \/ Leave \/ Change
    \/ Save \/ Saving \/ SaveFails
    \/ Start \/ ServiceDies \/ MenuKilled \/ PowerFails \/ Flush

Spec == Init /\ [][Next]_vars

\* systemd starts the service; the menu goes on once it has begun to save.
Fairness == WF_vars(Start) /\ WF_vars(Saving)

FairSpec == Spec /\ Fairness

-----------------------------------------------------------------------------
(* Properties.                                                              *)

\* A service that has been restarted on the last file runs on it, or on
\* client.env as long as there is no file.
UpToDate == svc = "serving" /\ ~ untold /\ Loaded # NoConfig => boot = Loaded

\* What the menu saves without a question is what the service accepts.
AcceptedLoads == at = "apply" /\ ~ anyway => Loadable

\* A client whose settings load comes back, and has them, however it ended.
Settled == Loaded = NoConfig \/ untold \/ (svc = "serving" /\ boot = Loaded)
FollowsFile == []<>Settled
=============================================================================
