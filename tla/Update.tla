------------------------------- MODULE Update -------------------------------
(***************************************************************************)
(* sunfire -update and sunfired -update (internal/selfupdate): look up the *)
(* latest release, download the package, compare its sum, and have dpkg    *)
(* install it or, without dpkg, replace the program from it.  Two updates  *)
(* may run at once, releases appear between any two steps, and what is     *)
(* downloaded may be cut short or be another package by then.              *)
(***************************************************************************)
EXTENDS Integers, Sequences

CONSTANTS
    Updaters,    \* processes that run -update
    Releases,    \* versions in the order in which they are published
    NoFile, Torn,
    MaxFaults    \* bound: power failures

\* A version is a sequence of up to three parts; Odd is one that is no number.
Odd == -1
Part(v, i) == IF i \in DOMAIN v THEN v[i] ELSE 0

\* The parts that can be compared, and differ: the first of them decides.
Differ(a, b) == {i \in 1 .. 3 : /\ Odd \notin {Part(a, i), Part(b, i)}
                                /\ Part(a, i) # Part(b, i)}
Newer(a, b) == \E i \in Differ(a, b) :
                  /\ \A j \in Differ(a, b) : i <= j
                  /\ Part(a, i) > Part(b, i)

Versions == {Releases[i] : i \in DOMAIN Releases}

Assumption == 1 \in DOMAIN Releases /\ Torn \notin Versions /\ MaxFaults \in Nat

VARIABLES
    dpkg,            \* is dpkg installed?
    latest,          \* number of the latest release
    seen, maybe, tmp, \* the program, see SafeFile
    at,              \* of each updater: idle, checked, downloaded, replacing
    current,         \* of each updater: its own version
    lat,             \* of each updater: version, and is the sum known?
    deb,             \* of each updater: the package downloaded; whole, cut
    faults

file == <<seen, maybe, tmp>>
vars == <<dpkg, latest, file, at, current, lat, deb, faults>>

\* replaceSelf closes its temporary file without Sync.
File == INSTANCE SafeFile
        WITH Writers <- Updaters, Contents <- Versions, Syncs <- FALSE

Packages == [version : Versions, whole : BOOLEAN]

TypeOK ==
    /\ dpkg \in BOOLEAN /\ latest \in DOMAIN Releases
    /\ File!TypeOK
    /\ at \in [Updaters -> {"idle", "checked", "downloaded", "replacing"}]
    /\ current \in [Updaters -> Versions]
    /\ lat \in [Updaters -> [version : Versions, sum : BOOLEAN]]
    /\ deb \in [Updaters -> Packages \cup {NoFile}]
    /\ faults \in 0 .. MaxFaults

Init ==
    /\ dpkg \in BOOLEAN /\ latest = 1
    /\ File!Begin(Releases[1])
    /\ at = [u \in Updaters |-> "idle"]
    /\ current = [u \in Updaters |-> Releases[1]]
    /\ lat = [u \in Updaters |-> [version |-> Releases[1], sum |-> FALSE]]
    /\ deb = [u \in Updaters |-> NoFile]
    /\ faults = 0

-----------------------------------------------------------------------------

Publish ==
    /\ latest + 1 \in DOMAIN Releases
    /\ latest' = latest + 1
    /\ UNCHANGED <<dpkg, file, at, current, lat, deb, faults>>

\* Run up to download: the program starts, and goes on if a release is newer.
\* The list of sums may be missing or not be fetched.
Check(u) ==
    /\ at[u] = "idle" /\ seen # Torn
    /\ Newer(Releases[latest], seen)
    /\ current' = [current EXCEPT ![u] = seen]
    /\ \E known \in BOOLEAN :
        lat' = [lat EXCEPT ![u] = [version |-> Releases[latest], sum |-> known]]
    /\ at' = [at EXCEPT ![u] = "checked"]
    /\ UNCHANGED <<dpkg, latest, file, deb, faults>>

\* What arrives under the link of the release.
Arrives(u) == [version : {lat[u].version, Releases[latest]}, whole : BOOLEAN]

\* Mutant of Matches: the sum is not compared.
MatchesAny(p, u) == TRUE

Matches(p, u) == p.whole /\ p.version = lat[u].version

download(u) ==
    /\ at[u] = "checked"
    /\ \/ /\ lat[u].sum
          /\ \E p \in Arrives(u) :
                /\ Matches(p, u)
                /\ deb' = [deb EXCEPT ![u] = p]
          /\ at' = [at EXCEPT ![u] = "downloaded"]
       \/ /\ at' = [at EXCEPT ![u] = "idle"]
          /\ UNCHANGED deb
    /\ UNCHANGED <<dpkg, latest, file, current, lat, faults>>

-----------------------------------------------------------------------------
(* install.  Run removes the package in the end, whatever came of it.       *)

Done(u) == /\ at' = [at EXCEPT ![u] = "idle"]
           /\ deb' = [deb EXCEPT ![u] = NoFile]
           /\ UNCHANGED <<dpkg, latest, current, lat, faults>>

\* dpkg -i, which writes and syncs on its own account; or it fails.
InstallByDpkg(u) ==
    /\ at[u] = "downloaded" /\ dpkg
    /\ \/ /\ seen' = (IF deb[u].whole THEN deb[u].version ELSE Torn)
          /\ maybe' = {seen'}
          /\ UNCHANGED tmp
       \/ UNCHANGED file
    /\ Done(u)

replaceSelf(u) ==
    /\ at[u] = "downloaded" /\ ~ dpkg
    /\ File!Create(u, deb[u].version)
    /\ at' = [at EXCEPT ![u] = "replacing"]
    /\ UNCHANGED <<dpkg, latest, current, lat, deb, faults>>

\* A package that is cut short ends in an error of the archive readers.
extractBin(u) ==
    /\ at[u] = "replacing" /\ deb[u].whole
    /\ File!Write(u)
    /\ UNCHANGED <<dpkg, latest, at, current, lat, deb, faults>>

Replaced(u) == at[u] = "replacing" /\ File!Rename(u) /\ Done(u)

ReplaceFails(u) == at[u] = "replacing" /\ File!Discard(u) /\ Done(u)

PowerFails ==
    /\ faults < MaxFaults /\ faults' = faults + 1
    /\ File!PowerLoss
    /\ at' = [u \in Updaters |-> "idle"]
    /\ deb' = [u \in Updaters |-> NoFile]
    /\ UNCHANGED <<dpkg, latest, current, lat>>

Flush == File!Flush /\ UNCHANGED <<dpkg, latest, at, current, lat, deb, faults>>

Next ==
    \/ \E u \in Updaters :
        \/ Check(u) \/ download(u) \/ InstallByDpkg(u)
        \/ replaceSelf(u) \/ extractBin(u) \/ Replaced(u) \/ ReplaceFails(u)
    \/ Publish \/ PowerFails \/ Flush

Spec == Init /\ [][Next]_vars

-----------------------------------------------------------------------------
(* Properties.                                                              *)

\* Only the power can leave something else than a whole published program,
\* and only where dpkg did not install it: every other failure, in whatever
\* step and with another update under way, leaves the program that was there.
ProgramWhole == seen \in Versions \/ (seen = Torn /\ faults > 0 /\ ~ dpkg)
=============================================================================
