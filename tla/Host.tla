-------------------------------- MODULE Host --------------------------------
(***************************************************************************)
(* The files of a host: it is a gateway with its menu, a client with its   *)
(* menu, or it updates the program.  The three have the temporary file and *)
(* the faults in common (SafeFile), and never meet.                        *)
(***************************************************************************)
EXTENDS Integers, Sequences

CONSTANTS
    Names, NoName,       \* names of users or servers
    IPs,                 \* addresses of clients
    Updaters, Releases,  \* of the update
    ServerFiles, ClientFiles, ClientEnvs,  \* what the files may be at first
    NoConfig, Torn,
    MaxEntries, MaxKey, MaxEdits, MaxFaults

VARIABLES
    role,                                              \* gateway, client, update
    seen, maybe, tmp, at, faults,                      \* of all three
    systemd, svc, boot, cfg, dirty, anyway, untold, edits, \* of both menus
    live, sockets, hup, read, issued,                  \* of the gateway
    env,                                               \* of the client
    dpkg, latest, current, lat, deb                    \* of the update

files == <<seen, maybe, tmp, at, faults>>
menus == <<systemd, svc, boot, cfg, dirty, anyway, untold, edits>>
gateway == <<live, sockets, hup, read, issued>>
update == <<dpkg, latest, current, lat, deb>>
vars == <<role, files, menus, gateway, env, update>>

-----------------------------------------------------------------------------

G == INSTANCE ServerMenu WITH Files <- ServerFiles, MaxUsers <- MaxEntries
C == INSTANCE ClientMenu
     WITH Files <- ClientFiles, Envs <- ClientEnvs, MaxServers <- MaxEntries
U == INSTANCE Update WITH NoFile <- NoConfig

ASSUME HostAssumption == G!Assumption /\ C!Assumption /\ U!Assumption

-----------------------------------------------------------------------------

NoGateway == /\ live = NoConfig /\ sockets = {} /\ hup = FALSE
             /\ read = NoConfig /\ issued = 0
NoMenu == /\ systemd = FALSE /\ svc = "off" /\ boot = NoConfig /\ cfg = NoConfig
          /\ dirty = FALSE /\ anyway = FALSE /\ untold = FALSE /\ edits = 0
NoUpdate == dpkg = FALSE /\ latest = 0 /\ current = 0 /\ lat = 0 /\ deb = 0

Init ==
    \/ role = "gateway" /\ G!Init /\ env = NoConfig /\ NoUpdate
    \/ role = "client" /\ C!Init /\ NoGateway /\ NoUpdate
    \/ role = "update" /\ U!Init /\ NoMenu /\ NoGateway /\ env = NoConfig

GatewayNext == role = "gateway" /\ G!Next /\ UNCHANGED <<role, env, update>>
ClientNext == role = "client" /\ C!Next /\ UNCHANGED <<role, gateway, update>>
UpdateNext == role = "update" /\ U!Next /\ UNCHANGED <<role, menus, gateway, env>>

Next == GatewayNext \/ ClientNext \/ UpdateNext

Spec == Init /\ [][Next]_vars

gatewayVars == G!vars
clientVars == C!vars

Fairness ==
    /\ WF_gatewayVars(role = "gateway" /\ G!Runs)
    /\ WF_gatewayVars(role = "gateway" /\ G!Saving)
    /\ WF_clientVars(role = "client" /\ C!Start)
    /\ WF_clientVars(role = "client" /\ C!Saving)

FairSpec == Spec /\ Fairness

-----------------------------------------------------------------------------
(* Properties.                                                              *)

TypeOK ==
    /\ role = "gateway" => G!TypeOK
    /\ role = "client" => C!TypeOK
    /\ role = "update" => U!TypeOK

\* "An interrupted write will not spoil the working settings" (menu.go,
\* saveJSON; clientconf.go, Save): whatever is interrupted and whenever, a
\* settings file is one of those somebody saved, whole.
Whole == INSTANCE FileSpec
         WITH value <- IF role = "update" THEN NoConfig ELSE seen,
              earlier <- IF role = "update" THEN {NoConfig} ELSE maybe,
              Contents <- G!Configs \cup C!Configs, NoFile <- NoConfig
FilesWhole == Whole!Spec

\* What a menu saves without a question is what the service accepts, and once
\* it has been told, what it has: the client all of it, since it is restarted;
\* the gateway in cur, while its listen addresses and its key stay those of
\* its start (checkServer, apply, reload; save, restart).  See ServerMenu and
\* ClientMenu.
Applied ==
    /\ role = "gateway" => G!AcceptedLoads /\ G!UpToDate
    /\ role = "client" => C!AcceptedLoads /\ C!UpToDate

\* A token is served by the rules of its own entry (Allowed, Limit).
OwnRules == role = "gateway" => G!OwnRules

\* A service whose settings load comes back, and has them (the gateway: in
\* cur), however it ended.
FollowsFile ==
    []<>(/\ role = "gateway" => G!Settled
         /\ role = "client" => C!Settled)

\* Nothing but the power can leave half a program (install, replaceSelf).
ProgramWhole == role = "update" => U!ProgramWhole
=============================================================================
