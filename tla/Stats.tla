------------------------------- MODULE Stats -------------------------------
(***************************************************************************)
(* The counters of a process (internal/stats): connections are opened and  *)
(* closed under the name of a user, or on the client of a host, while a    *)
(* monitor reads them one after the other.  Only the table of users has a  *)
(* mutex; the counters are atomic each on its own.                         *)
(***************************************************************************)
EXTENDS Integers, FiniteSets

CONSTANTS Conns, Names, None,
          MaxBytes   \* bound: of the traffic of a user

Assumption == IsFiniteSet(Conns) /\ None \notin Conns /\ MaxBytes \in Nat
ASSUME StatsAssumption == Assumption

VARIABLES
    users,           \* r.users; a user is known by the connection that made it
    conns, total, bytes, \* of every user (bytes: up and down)
    st,              \* of each connection: none, missed, found, counted, open,
                     \* closed
    name, obj,       \* its name and its user
    reading,         \* Snapshot, under RLock: the names still to be read
    field,           \* the counter it reads next; idle
    row,             \* what it has read of one of them
    taken,           \* the rows it has so far
    shown            \* the rows of the last snapshot

counters == <<users, conns, total, bytes>>
handles == <<st, name, obj>>
monitor == <<reading, field, row, taken, shown>>
statsVars == <<counters, handles, monitor>>

NoRow == [name |-> None, total |-> 0, bytes |-> 0]
Rows == [name : Names \cup {None}, total : Nat, bytes : Nat]

StatsTypeOK ==
    /\ users \in [Names -> Conns \cup {None}]
    /\ conns \in [Conns -> Nat] /\ total \in [Conns -> Nat]
    /\ bytes \in [Conns -> 0 .. MaxBytes]
    /\ st \in [Conns -> {"none", "missed", "found", "counted", "open", "closed"}]
    /\ name \in [Conns -> Names \cup {None}] /\ obj \in [Conns -> Conns \cup {None}]
    /\ reading \subseteq Names /\ field \in {"idle", "total", "bytes"}
    /\ {row} \cup taken \cup shown \subseteq Rows

StatsInit ==
    /\ users = [n \in Names |-> None]
    /\ conns = [c \in Conns |-> 0] /\ total = conns /\ bytes = conns
    /\ st = [c \in Conns |-> "none"]
    /\ name = [c \in Conns |-> None] /\ obj = name
    /\ reading = {} /\ field = "idle" /\ row = NoRow
    /\ taken = {} /\ shown = {}

-----------------------------------------------------------------------------
(* Open: user, then two increments.                                         *)

Has(c, u, stage) == /\ obj' = [obj EXCEPT ![c] = u]
                    /\ st' = [st EXCEPT ![c] = stage]

\* Under RLock, which others may hold as well.
Lookup(c, n) ==
    /\ st[c] = "none"
    /\ Has(c, users[n], IF users[n] = None THEN "missed" ELSE "found")
    /\ name' = [name EXCEPT ![c] = n]
    /\ UNCHANGED <<counters, monitor>>

\* Mutant of Create: no second look under Lock.
CreateAnyway(c) ==
    /\ st[c] = "missed" /\ field = "idle"
    /\ users' = [users EXCEPT ![name[c]] = c] /\ Has(c, c, "found")
    /\ UNCHANGED <<conns, total, bytes, name, monitor>>

\* Under Lock, so not in the midst of a snapshot.  Somebody may have made the
\* user between the two locks.
Create(c) ==
    /\ st[c] = "missed" /\ field = "idle"
    /\ LET n == name[c]
           u == IF users[n] = None THEN c ELSE users[n]
       IN users' = [users EXCEPT ![n] = u] /\ Has(c, u, "found")
    /\ UNCHANGED <<conns, total, bytes, name, monitor>>

\* Mutant of AddConns: only the total is counted.
AddConnsNot(c) ==
    /\ st[c] = "found" /\ st' = [st EXCEPT ![c] = "counted"]
    /\ UNCHANGED <<users, conns, total, bytes, name, obj, monitor>>

AddConns(c) ==
    /\ st[c] = "found" /\ st' = [st EXCEPT ![c] = "counted"]
    /\ conns' = [conns EXCEPT ![obj[c]] = @ + 1]
    /\ UNCHANGED <<users, total, bytes, name, obj, monitor>>

AddTotal(c) ==
    /\ st[c] = "counted" /\ st' = [st EXCEPT ![c] = "open"]
    /\ total' = [total EXCEPT ![obj[c]] = @ + 1]
    /\ UNCHANGED <<users, conns, bytes, name, obj, monitor>>

\* Up and Down.
Traffic(c) ==
    /\ st[c] = "open" /\ bytes[obj[c]] < MaxBytes
    /\ bytes' = [bytes EXCEPT ![obj[c]] = @ + 1]
    /\ UNCHANGED <<users, conns, total, handles, monitor>>

\* Mutant of Close: the last one removes the user from the table.
CloseForgets(c) ==
    /\ st[c] = "open" /\ field = "idle"
    /\ st' = [st EXCEPT ![c] = "closed"]
    /\ conns' = [conns EXCEPT ![obj[c]] = @ - 1]
    /\ users' = [users EXCEPT ![name[c]] = IF conns[obj[c]] = 1 THEN None ELSE @]
    /\ UNCHANGED <<total, bytes, name, obj, monitor>>

\* Only the first Close of a connection counts (done).
Close(c) ==
    /\ st[c] \in {"open", "closed"}
    /\ st' = [st EXCEPT ![c] = "closed"]
    /\ conns' = [conns EXCEPT ![obj[c]] = IF st[c] = "open" THEN @ - 1 ELSE @]
    /\ UNCHANGED <<users, total, bytes, name, obj, monitor>>

-----------------------------------------------------------------------------
(* Snapshot.  The number of open connections, which is only shown, is left *)
(* out.                                                                     *)

SnapshotBegins ==
    /\ field = "idle" /\ field' = "total"
    /\ reading' = {n \in Names : users[n] # None} /\ reading' # {}
    /\ UNCHANGED <<row, taken, shown>>

ReadTotal(n) ==
    /\ field = "total" /\ field' = "bytes"
    /\ row' = [name |-> n, total |-> total[users[n]], bytes |-> 0]
    /\ reading' = reading \ {n}
    /\ UNCHANGED <<taken, shown>>

\* The rows are sorted in the end, which does not matter here.
ReadBytes ==
    LET rows == taken \cup {[row EXCEPT !.bytes = bytes[users[row.name]]]}
    IN /\ field = "bytes"
       /\ IF reading = {}
          THEN field' = "idle" /\ shown' = rows /\ taken' = {}
          ELSE field' = "total" /\ taken' = rows /\ UNCHANGED shown
       /\ row' = NoRow
       /\ UNCHANGED reading

\* The order of a map is any order.
Snapshot ==
    /\ SnapshotBegins \/ (\E n \in reading : ReadTotal(n)) \/ ReadBytes
    /\ UNCHANGED <<counters, handles>>

StatsNext ==
    \/ \E c \in Conns :
        \/ \E n \in Names : Lookup(c, n)
        \/ Create(c) \/ AddConns(c) \/ AddTotal(c) \/ Traffic(c) \/ Close(c)
    \/ Snapshot

StatsSpec == StatsInit /\ [][StatsNext]_statsVars

-----------------------------------------------------------------------------
(* Properties.                                                              *)

Counting(n, stages) == {c \in Conns : name[c] = n /\ st[c] \in stages}

\* The counters of a name are exact, whoever of several connections that open
\* at once has made the user: no count goes to a user that is not in the table.
Counted ==
    \A n \in Names :
        LET now  == Counting(n, {"counted", "open"})
            ever == Counting(n, {"open", "closed"})
        IN IF users[n] = None
           THEN now \cup ever = {}
           ELSE /\ conns[users[n]] = Cardinality(now)
                /\ total[users[n]] = Cardinality(ever)

\* What the speed of the monitor is computed from (tui.go, frame) never goes
\* back from one snapshot to the next, nor does a name disappear.
MeterForward ==
    [][\A r \in shown : \E s \in shown' :
            s.name = r.name /\ s.total >= r.total /\ s.bytes >= r.bytes]_shown
=============================================================================
