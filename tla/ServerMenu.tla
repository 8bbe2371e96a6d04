----------------------------- MODULE ServerMenu -----------------------------
(***************************************************************************)
(* The settings menu of the gateway (sunfired -menu), the file it writes   *)
(* and the service that reads it.  A screen and its questions are one      *)
(* action each; Ctrl+D in any of them leaves the menu, a cancelled one     *)
(* changes nothing.  Saving goes step by step: the power may fail and the  *)
(* menu may be killed between any two.                                     *)
(***************************************************************************)
EXTENDS Service, SequencesExt

CONSTANTS
    Torn,        \* a file of which the disk has only a part
    Files,       \* what the file may be before the menu is opened
    MaxUsers,    \* bound: entries the menu adds up to
    MaxKey,      \* bound: the last key anybody thinks of
    MaxEdits,    \* bound: changes in the menu
    MaxFaults    \* bound: crashes, kills, failed writes

OldTokens == 10  \* bound: tokens an old file has, from 1 on

Assumption ==
    /\ NoConfig \notin Configs /\ Torn \notin Configs \cup {NoConfig}
    /\ Files \subseteq Configs \cup {NoConfig}
    /\ \A f \in Files \ {NoConfig} : \A i \in DOMAIN f.users :
        f.users[i].token <= OldTokens
    /\ NoName \notin Names
    /\ {MaxKey, MaxEdits, MaxFaults} \subseteq Nat

VARIABLES
    systemd,     \* is systemctl installed?
    maybe, tmp,  \* of the file, see SafeFile
    at,          \* the menu: closed, main, saving, apply
    cfg, dirty,  \* m.cfg, m.dirty
    anyway,      \* the last save was confirmed against checkServer
    untold,      \* the service has not been told of a replaced file
    issued,      \* the last token drawn
    edits, faults

file == <<seen, maybe, tmp>>
menu == <<at, cfg, dirty, anyway>>
budget == <<issued, edits, faults>>
vars == <<systemd, file, service, menu, untold, budget>>

Menu == "menu"
File == INSTANCE SafeFile
        WITH Writers <- {Menu}, Contents <- Configs,
             NoFile <- NoConfig, Syncs <- TRUE

TypeOK ==
    /\ systemd \in BOOLEAN /\ untold \in BOOLEAN
    /\ File!TypeOK /\ ServiceTypeOK
    /\ at \in {"closed", "main", "saving", "apply"}
    /\ cfg \in Configs \cup {NoConfig} /\ (cfg = NoConfig <=> at = "closed")
    /\ dirty \in BOOLEAN /\ anyway \in BOOLEAN
    /\ issued \in Nat /\ edits \in 0 .. MaxEdits /\ faults \in 0 .. MaxFaults

Init ==
    /\ systemd \in BOOLEAN
    /\ \E f \in Files : File!Begin(f)
    /\ ServiceInit
    /\ at = "closed" /\ cfg = NoConfig /\ dirty = FALSE /\ anyway = FALSE
    /\ untold = FALSE
    /\ issued = OldTokens /\ edits = 0 /\ faults = 0

-----------------------------------------------------------------------------
(* Opening and leaving.                                                     *)

defaultServer == [listen |-> Kinds, key |-> ShortKey + 1, loopback |-> TRUE,
                  pin |-> FALSE, users |-> <<>>]

\* A file that does not load cannot be opened either.
Open ==
    /\ at = "closed"
    /\ \/ Loadable /\ cfg' = seen /\ dirty' = FALSE
       \/ seen = NoConfig /\ cfg' = defaultServer /\ dirty' = TRUE
    /\ at' = "main" /\ anyway' = FALSE
    /\ UNCHANGED <<systemd, file, service, untold, budget>>

Closed == at' = "closed" /\ cfg' = NoConfig /\ dirty' = FALSE /\ anyway' = FALSE

Leave ==
    /\ at = "main" /\ Closed
    /\ UNCHANGED <<systemd, file, service, untold, budget>>

-----------------------------------------------------------------------------
(* The changes.                                                             *)

Edit(c) ==
    /\ at = "main" /\ edits < MaxEdits
    /\ cfg' = c /\ dirty' = TRUE /\ edits' = edits + 1
    /\ UNCHANGED <<systemd, file, service, at, anyway, untold, faults>>

NewUser(name) == [name |-> name, token |-> issued + 1, on |-> TRUE,
                  clients |-> 0, ips |-> {}]

\* Mutant of addUser: the name may be taken.
addUserAgain(name) ==
    /\ Len(cfg.users) < MaxUsers
    /\ Edit([cfg EXCEPT !.users = Append(@, NewUser(name))])
    /\ issued' = issued + 1

addUser(name) ==
    /\ \A i \in DOMAIN cfg.users : cfg.users[i].name # name
    /\ Len(cfg.users) < MaxUsers
    /\ Edit([cfg EXCEPT !.users = Append(@, NewUser(name))])
    /\ issued' = issued + 1

toggleUser(i) ==
    Edit([cfg EXCEPT !.users[i].on = ~ @]) /\ UNCHANGED issued

delUser(i) ==
    Edit([cfg EXCEPT !.users = RemoveAt(@, i)]) /\ UNCHANGED issued

\* genKey draws a new key, setKey asks for one of the right length.
setKey ==
    \E k \in ShortKey + 1 .. MaxKey :
        Edit([cfg EXCEPT !.key = k]) /\ UNCHANGED issued

\* Without a key, udp offers to draw one.
setListen(kind) ==
    LET key == IF kind = "udp" /\ cfg.key = NoKey
               THEN {NoKey, ShortKey + 1} ELSE {cfg.key}
    IN \E k \in key :
        /\ Edit([cfg EXCEPT !.listen = @ \cup {kind}, !.key = k])
        /\ UNCHANGED issued

clearListen(kind) ==
    Edit([cfg EXCEPT !.listen = @ \ {kind}]) /\ UNCHANGED issued

togglePin == Edit([cfg EXCEPT !.pin = ~ @]) /\ UNCHANGED issued

Change ==
    \/ \E n \in Names : addUser(n)
    \/ \E i \in DOMAIN cfg.users : toggleUser(i) \/ delUser(i)
    \/ setKey
    \/ \E k \in Kinds : setListen(k) \/ clearListen(k)
    \/ togglePin

-----------------------------------------------------------------------------
(* Saving and applying.                                                     *)

\* The operator may insist on what checkServer refuses.
Save ==
    /\ at = "main"
    /\ at' = "saving"
    /\ anyway' = ~ Checked(cfg)
    /\ File!Create(Menu, cfg)
    /\ UNCHANGED <<systemd, service, cfg, dirty, untold, budget>>

SaveStep ==
    /\ at = "saving"
    /\ File!Write(Menu) \/ File!Sync(Menu)
    /\ UNCHANGED <<systemd, service, menu, untold, budget>>

Saved ==
    /\ at = "saving"
    /\ File!Rename(Menu)
    /\ at' = "apply" /\ dirty' = FALSE /\ untold' = TRUE
    /\ UNCHANGED <<systemd, service, cfg, anyway, budget>>

SaveFails ==
    /\ at = "saving" /\ faults < MaxFaults
    /\ File!Discard(Menu)
    /\ at' = "main" /\ faults' = faults + 1
    /\ UNCHANGED <<systemd, service, cfg, dirty, anyway, untold, issued, edits>>

\* apply: systemctl reload, which fails when the service does not run;
\* then restart, which leaves it to be started.
Apply ==
    /\ at = "apply"
    /\ at' = "main"
    /\ IF systemd
       THEN /\ untold' = FALSE
            /\ IF svc = "off" THEN UNCHANGED service ELSE Signal
       ELSE UNCHANGED <<service, untold>>
    /\ UNCHANGED <<systemd, file, cfg, dirty, anyway, budget>>

-----------------------------------------------------------------------------
(* The service, and what may go wrong from outside.                         *)

\* A service that starts reads the file as it is.
Starts == Start /\ untold' = FALSE

Runs ==
    /\ \/ Starts
       \/ (CatchHup \/ Listen \/ ReloadLoads \/ ReloadSets) /\ UNCHANGED untold
    /\ UNCHANGED <<systemd, file, menu, budget>>

ServiceDies ==
    /\ faults < MaxFaults /\ faults' = faults + 1
    /\ Die \/ \E k \in Kinds : AcceptFails(k)
    /\ UNCHANGED <<systemd, file, menu, untold, issued, edits>>

\* Ctrl+C, a lost ssh connection.
MenuKilled ==
    /\ at # "closed" /\ faults < MaxFaults /\ faults' = faults + 1
    /\ Closed
    /\ IF at = "saving" THEN File!Discard(Menu) ELSE UNCHANGED file
    /\ UNCHANGED <<systemd, service, untold, issued, edits>>

PowerFails ==
    /\ faults < MaxFaults /\ faults' = faults + 1
    /\ File!PowerLoss
    /\ Closed /\ Off /\ untold' = FALSE
    /\ UNCHANGED <<systemd, issued, edits>>

Flush == File!Flush /\ UNCHANGED <<systemd, service, menu, untold, budget>>

Saving == SaveStep \/ Saved \/ Apply

Next ==
    \/ Open \/ Leave \/ (at = "main" /\ Change)
    \/ Save \/ Saving \/ SaveFails
    \/ Runs \/ ServiceDies \/ MenuKilled \/ PowerFails \/ Flush

Spec == Init /\ [][Next]_vars

\* The processes of systemd and of the service go on; the menu does when it
\* has begun to save.
Fairness ==
    /\ WF_vars(Runs)
    /\ WF_vars(Saving)

FairSpec == Spec /\ Fairness

-----------------------------------------------------------------------------
(* Properties.                                                              *)

\* Once the service has been told of the last file, and has no signal left to
\* handle, cur is that file: reload neither loses a signal nor keeps what it
\* has read before the rename.  cur decides on users, rules, limits and the
\* pin; the listen addresses and the transport key in force are those of boot,
\* and wait for a restart, as the comment at reload says.
UpToDate ==
    Running /\ ~ hup /\ read = NoConfig /\ ~ untold /\ Loadable => live = seen

\* What the menu saves without asking is what the service accepts at its
\* start, but for one case: a file may hold a short key as long as udp is
\* off, and checkServer does not look at its length when udp is switched on.
AcceptedLoads ==
    at = "apply" /\ ~ anyway =>
        Loadable \/ (cfg.key = ShortKey /\ "udp" \in cfg.listen)

\* The rules of a token are those of its own entry, through every change in
\* the menu: Allowed and Limit look them up by name.
OwnRules ==
    \A c \in {cfg, live} \ {NoConfig} : \A i \in Enabled(c) :
        LET u == c.users[i]
        IN /\ Limit(c, u.name) = u.clients
           /\ \A ip \in IPs : Allowed(c, u.name, ip) <=> (u.ips = {} \/ ip \in u.ips)

\* A gateway whose settings load comes back, and has them in cur, however it
\* ended.  Addresses and key are those of its start, as in UpToDate.
Settled == ~ Loadable \/ untold \/ (svc = "serving" /\ live = seen)
FollowsFile == []<>Settled
=============================================================================
