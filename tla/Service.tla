------------------------------ MODULE Service ------------------------------
(***************************************************************************)
(* The life of sunfired: run, its listeners and the reload by SIGHUP.      *)
(* systemd (scripts/build-deb.sh: Restart=always) starts it again whenever *)
(* it has ended.  What it serves is in Gateway; here it only matters which *)
(* settings it has.                                                        *)
(***************************************************************************)
EXTENDS ServerConfig

CONSTANTS NoConfig   \* reload has nothing in hand; the file is not there

VARIABLES
    seen,      \* main.conf, as a reader gets it
    svc,       \* off; loaded: Load is done, SIGHUP not yet caught; caught;
               \* serving
    boot,      \* the cfg of run: addresses and key of the listeners
    live,      \* cur
    sockets,   \* the listeners whose serve is still running
    hup,       \* a signal waits in the channel (its capacity is one)
    read       \* what reload has loaded and not yet put into cur

service == <<svc, boot, live, sockets, hup, read>>

Running == svc \in {"caught", "serving"}
Loadable == seen \in Configs /\ Normal(seen)

ServiceTypeOK ==
    /\ svc \in {"off", "loaded", "caught", "serving"}
    /\ {boot, live, read} \subseteq Configs \cup {NoConfig}
    /\ sockets \in SUBSET Kinds
    /\ hup \in BOOLEAN

Off == /\ svc' = "off" /\ boot' = NoConfig /\ live' = NoConfig
       /\ sockets' = {} /\ hup' = FALSE /\ read' = NoConfig

ServiceInit == /\ svc = "off" /\ boot = NoConfig /\ live = NoConfig
               /\ sockets = {} /\ hup = FALSE /\ read = NoConfig

-----------------------------------------------------------------------------
(* run.  A file that does not load ends it at once, and systemd tries       *)
(* again: nothing happens until the file is another.                        *)

Start ==
    /\ svc = "off" /\ Loadable
    /\ svc' = "loaded" /\ boot' = seen /\ live' = seen
    /\ UNCHANGED <<sockets, hup, read>>

CatchHup ==
    /\ svc = "loaded"
    /\ svc' = "caught"
    /\ UNCHANGED <<boot, live, sockets, hup, read>>

Listen ==
    /\ svc = "caught"
    /\ svc' = "serving" /\ sockets' = boot.listen
    /\ UNCHANGED <<boot, live, hup, read>>

\* An address is taken, a fault, kill -9: the process is gone.
Die == svc # "off" /\ Off

\* Accept fails and serve of that listener returns.  run has the first error
\* at once, but waits (wg.Wait) until the last serve has returned.
AcceptFails(k) ==
    /\ svc = "serving" /\ k \in sockets
    /\ IF sockets = {k}
       THEN Off
       ELSE /\ sockets' = sockets \ {k}
            /\ UNCHANGED <<svc, boot, live, hup, read>>

-----------------------------------------------------------------------------
(* SIGHUP and reload, in a goroutine of its own.                            *)

\* Mutant of Signal: a channel without a buffer, and reload is busy.
SignalUnbuffered ==
    IF svc = "loaded"
    THEN Off
    ELSE hup' = (hup \/ read = NoConfig) /\ UNCHANGED <<svc, boot, live, sockets, read>>

\* Before signal.Notify the signal kills the process; afterwards a second
\* one is dropped while one is waiting.
Signal == IF svc = "loaded"
          THEN Off
          ELSE hup' = TRUE /\ UNCHANGED <<svc, boot, live, sockets, read>>

ReloadLoads ==
    /\ Running /\ hup /\ read = NoConfig
    /\ hup' = FALSE
    /\ read' = IF Loadable THEN seen ELSE NoConfig
    /\ UNCHANGED <<svc, boot, live, sockets>>

ReloadSets ==
    /\ read # NoConfig
    /\ live' = read /\ read' = NoConfig
    /\ UNCHANGED <<svc, boot, sockets, hup>>
=============================================================================
