----------------------------- MODULE SocksProofs -----------------------------
(***************************************************************************)
(* Theorems about the counters of a process (Stats) and the handlers of    *)
(* the SOCKS front end (Socks), for any number of connections and names.   *)
(***************************************************************************)
EXTENDS Socks, FiniteSetTheorems, TLAPS

\* A connection that has found its user goes on with that of its name.
Found == {"found", "counted", "open", "closed"}

Types ==
    /\ users \in [Names -> Conns \cup {None}]
    /\ conns \in [Conns -> Int] /\ total \in [Conns -> Nat] /\ bytes \in [Conns -> Nat]
    /\ st \in [Conns -> {"none", "missed"} \cup Found]
    /\ name \in [Conns -> Names \cup {None}] /\ obj \in [Conns -> Conns \cup {None}]

Bound == \A c \in Conns :
    /\ st[c] # "none" => name[c] \in Names
    /\ st[c] \in Found => users[name[c]] \in Conns /\ obj[c] = users[name[c]]

\* A user of the table was made by a connection of that name, and one that is
\* not in the table has counted nothing.
Makers == \A n \in Names : users[n] # None =>
    name[users[n]] = n /\ st[users[n]] \in Found
Unused == \A c \in Conns : st[c] \notin Found => conns[c] = 0 /\ total[c] = 0

CountInv == Types /\ Bound /\ Makers /\ Unused /\ Counted

-----------------------------------------------------------------------------

LEMMA CountingFinite ==
    ASSUME Assumption, NEW n, NEW S
    PROVE  /\ IsFiniteSet(Counting(n, S)) /\ Cardinality(Counting(n, S)) \in Nat
           /\ Counting(n, S) \subseteq Conns
<1>1. Counting(n, S) \subseteq Conns
  BY DEF Counting
<1> QED
  BY <1>1, FS_Subset, FS_CardinalityType DEF Assumption

\* A connection comes into or goes out of what is counted.
LEMMA OneMore ==
    ASSUME NEW S, IsFiniteSet(S), NEW c, c \notin S
    PROVE  Cardinality(S \cup {c}) = Cardinality(S) + 1
BY FS_AddElement

LEMMA OneLess ==
    ASSUME NEW S, IsFiniteSet(S), NEW c, c \in S
    PROVE  Cardinality(S \ {c}) = Cardinality(S) - 1
BY FS_RemoveElement

LEMMA CountInit ==
    ASSUME Assumption, StatsInit
    PROVE  CountInv
<1>1. Counted
  BY DEF StatsInit, Counted, Counting
<1>2. Types /\ Bound /\ Makers /\ Unused
  BY DEF StatsInit, Types, Bound, Makers, Unused, Found
<1> QED
  BY <1>1, <1>2 DEF CountInv

\* A step that changes neither the counters nor what they count.
LEMMA CountIdle ==
    ASSUME Counted, UNCHANGED <<users, conns, total>>,
           \A n \in Names, S \in {{"counted", "open"}, {"open", "closed"}} :
                Counting(n, S)' = Counting(n, S)
    PROVE  Counted'
BY DEF Counted

LEMMA LookupCount ==
    ASSUME Assumption, CountInv, NEW c \in Conns, NEW n \in Names, Lookup(c, n)
    PROVE  CountInv'
<1>1. /\ st[c] = "none" /\ name' = [name EXCEPT ![c] = n]
      /\ obj' = [obj EXCEPT ![c] = users[n]]
      /\ st' = [st EXCEPT ![c] = IF users[n] = None THEN "missed" ELSE "found"]
      /\ UNCHANGED counters
  BY DEF Lookup, Has
<1>2. Types
  BY DEF CountInv
<1>3. Types'
  BY <1>1, <1>2 DEF Types, Found, counters
<1>4. Bound' /\ Makers'
  BY <1>1, <1>2, Assumption DEF Assumption, CountInv, Types, Bound, Makers, Found, counters
<1>5. Unused'
  BY <1>1, <1>2 DEF CountInv, Types, Unused, Found, counters
<1>6. \A m \in Names, S \in {{"counted", "open"}, {"open", "closed"}} :
          Counting(m, S)' = Counting(m, S)
  BY <1>1, <1>2 DEF Types, Counting, Found
<1> QED
  BY <1>1, <1>3, <1>4, <1>5, <1>6, CountIdle DEF CountInv, counters

LEMMA CreateCount ==
    ASSUME Assumption, CountInv, NEW c \in Conns, Create(c)
    PROVE  CountInv'
<1>1. PICK n \in Names : n = name[c]
  BY DEF Create, CountInv, Bound
<1> DEFINE u == IF users[n] = None THEN c ELSE users[n]
<1>2. /\ st[c] = "missed" /\ users' = [users EXCEPT ![n] = u]
      /\ obj' = [obj EXCEPT ![c] = u] /\ st' = [st EXCEPT ![c] = "found"]
      /\ UNCHANGED <<conns, total, bytes, name>>
  BY <1>1 DEF Create, Has
<1>3. Types
  BY DEF CountInv
<1>4. u \in Conns /\ users'[n] = u
  BY <1>2, <1>3 DEF Types
<1>5. users[n] = u \/ (users[n] = None /\ u = c)
  BY <1>4
<1> HIDE DEF u
<1>6. Types'
  BY <1>2, <1>3, <1>4 DEF Types, Found
<1>7. \A m \in Names : m # n => users'[m] = users[m]
  BY <1>2, <1>3 DEF Types
<1>8. Bound'
  <2> SUFFICES ASSUME NEW d \in Conns
               PROVE  /\ st'[d] # "none" => name'[d] \in Names
                      /\ st'[d] \in Found => /\ users'[name'[d]] \in Conns
                                             /\ obj'[d] = users'[name'[d]]
    BY DEF Bound
  <2>1. CASE d = c
    BY <1>1, <1>2, <1>3, <1>4, <2>1 DEF Types
  <2>2. CASE d # c
    <3>1. st'[d] = st[d] /\ name'[d] = name[d] /\ obj'[d] = obj[d]
      BY <1>2, <1>3, <2>2 DEF Types
    <3>2. st[d] \in Found => users'[name[d]] = users[name[d]]
      BY <1>4, <1>5, <1>7, Assumption DEF Assumption, CountInv, Bound, Found
    <3> QED
      BY <3>1, <3>2 DEF CountInv, Bound, Found
  <2> QED
    BY <2>1, <2>2
<1>9. Makers'
  <2> SUFFICES ASSUME NEW m \in Names, users'[m] # None
               PROVE  name'[users'[m]] = m /\ st'[users'[m]] \in Found
    BY DEF Makers
  <2>1. CASE m = n /\ u = c
    BY <1>1, <1>2, <1>3, <1>4, <2>1 DEF Types, Found
  <2>2. CASE users'[m] = users[m]
    <3>1. users[m] \in Conns /\ name[users[m]] = m /\ st[users[m]] \in Found
      BY <1>3, <2>2 DEF CountInv, Types, Makers
    <3> QED
      BY <1>2, <1>3, <2>2, <3>1 DEF Types, Found
  <2> QED
    BY <1>4, <1>5, <1>7, <2>1, <2>2
<1>10. Unused'
  BY <1>2, <1>3 DEF CountInv, Types, Unused, Found
<1>11. \A m \in Names, S \in {{"counted", "open"}, {"open", "closed"}} :
          Counting(m, S)' = Counting(m, S)
  BY <1>2, <1>3 DEF Types, Counting
<1>12. Counted'
  <2> SUFFICES ASSUME NEW m \in Names
               PROVE  LET now  == Counting(m, {"counted", "open"})'
                          ever == Counting(m, {"open", "closed"})'
                      IN IF users'[m] = None
                         THEN now \cup ever = {}
                         ELSE /\ conns'[users'[m]] = Cardinality(now)
                              /\ total'[users'[m]] = Cardinality(ever)
    BY DEF Counted
  <2>1. CASE users'[m] = users[m]
    BY <1>2, <1>11, <2>1 DEF CountInv, Counted
  <2>2. CASE m = n /\ users[n] = None /\ u = c
    <3>1. conns[c] = 0 /\ total[c] = 0 /\ users'[m] = c
      BY <1>2, <1>4, <2>2 DEF CountInv, Unused, Found
    <3>2. Counting(m, {"counted", "open"}) = {} /\ Counting(m, {"open", "closed"}) = {}
      BY <2>2 DEF CountInv, Counted
    <3>3. c # None
      BY DEF Assumption
    <3> QED
      BY <1>2, <1>11, <3>1, <3>2, <3>3, FS_EmptySet
  <2> QED
    BY <1>4, <1>5, <1>7, <2>1, <2>2
<1> QED
  BY <1>6, <1>8, <1>9, <1>10, <1>12 DEF CountInv

\* c has found its user u under the name n, which nobody else has.
LEMMA UserOf ==
    ASSUME Assumption, CountInv, NEW c \in Conns, st[c] \in Found
    PROVE  \E n \in Names, u \in Conns :
              /\ n = name[c] /\ u = obj[c] /\ users[n] = u /\ users[n] # None
              /\ st[u] \in Found
              /\ \A m \in Names \ {n} : users[m] # u
              /\ conns[u] = Cardinality(Counting(n, {"counted", "open"}))
              /\ total[u] = Cardinality(Counting(n, {"open", "closed"}))
<1>1. PICK n \in Names, u \in Conns : n = name[c] /\ u = obj[c] /\ users[n] = u
  BY DEF CountInv, Bound, Found
<1>2. users[n] # None
  BY <1>1 DEF Assumption
<1>3. name[u] = n /\ st[u] \in Found
  BY <1>1, <1>2 DEF CountInv, Makers
<1>4. \A m \in Names \ {n} : users[m] # u
  BY <1>1, <1>2, <1>3 DEF CountInv, Makers
<1>5. /\ conns[u] = Cardinality(Counting(n, {"counted", "open"}))
      /\ total[u] = Cardinality(Counting(n, {"open", "closed"}))
  BY <1>1, <1>2 DEF CountInv, Counted
<1> QED
  BY <1>1, <1>2, <1>3, <1>4, <1>5

\* What all the later steps of a connection leave alone.
LEMMA StageStep ==
    ASSUME CountInv, NEW c \in Conns, NEW t \in Found, st[c] \in Found,
           st' = [st EXCEPT ![c] = t], UNCHANGED <<users, name, obj>>
    PROVE  Bound' /\ Makers'
<1>1. Types
  BY DEF CountInv
<1>2. \A d \in Conns : st'[d] \in Found <=> st[d] \in Found
  BY <1>1 DEF Types
<1>3. \A d \in Conns : st'[d] = "none" <=> st[d] = "none"
  BY <1>1 DEF Types, Found
<1>4. Bound'
  BY <1>2, <1>3 DEF CountInv, Bound
<1>5. Makers'
  <2>1. \A n \in Names : users[n] # None => users[n] \in Conns
    BY <1>1 DEF Types
  <2> QED
    BY <1>2, <2>1 DEF CountInv, Makers
<1> QED
  BY <1>4, <1>5

LEMMA AddConnsCount ==
    ASSUME Assumption, CountInv, NEW c \in Conns, AddConns(c)
    PROVE  CountInv'
<1>1. /\ st[c] = "found" /\ st' = [st EXCEPT ![c] = "counted"]
      /\ conns' = [conns EXCEPT ![obj[c]] = @ + 1]
      /\ UNCHANGED <<users, total, bytes, name, obj>> /\ Types
  BY DEF AddConns, CountInv
<1>2. PICK n \in Names, u \in Conns :
              /\ n = name[c] /\ u = obj[c] /\ users[n] = u /\ users[n] # None
              /\ st[u] \in Found /\ \A m \in Names \ {n} : users[m] # u
              /\ conns[u] = Cardinality(Counting(n, {"counted", "open"}))
              /\ total[u] = Cardinality(Counting(n, {"open", "closed"}))
  BY <1>1, UserOf DEF Found
<1>3. /\ conns'[u] = conns[u] + 1
      /\ \A d \in Conns \ {u} : conns'[d] = conns[d]
  BY <1>1, <1>2 DEF Types
<1>4. Types'
  BY <1>1, <1>2 DEF Types, Found
<1>5. Bound' /\ Makers'
  BY <1>1, StageStep DEF Found
<1>6. Unused'
  BY <1>1, <1>2, <1>3 DEF CountInv, Types, Unused, Found
<1>7. /\ Counting(n, {"counted", "open"})' = Counting(n, {"counted", "open"}) \cup {c}
      /\ c \notin Counting(n, {"counted", "open"})
      /\ Counting(n, {"open", "closed"})' = Counting(n, {"open", "closed"})
      /\ \A m \in Names \ {n}, S \in {{"counted", "open"}, {"open", "closed"}} :
            Counting(m, S)' = Counting(m, S)
  BY <1>1, <1>2 DEF Types, Counting
<1>8. conns'[u] = Cardinality(Counting(n, {"counted", "open"})')
  <2>1. IsFiniteSet(Counting(n, {"counted", "open"}))
    BY CountingFinite
  <2> QED
    BY <1>2, <1>3, <1>7, <2>1, OneMore
<1>9. Counted'
  <2>1. ASSUME NEW m \in Names \ {n}, users[m] # None
        PROVE  users[m] \in Conns \ {u}
    BY <1>1, <1>2, <2>1 DEF Types
  <2> QED
    BY <1>1, <1>2, <1>3, <1>7, <1>8, <2>1 DEF CountInv, Counted
<1> QED
  BY <1>4, <1>5, <1>6, <1>9 DEF CountInv

LEMMA AddTotalCount ==
    ASSUME Assumption, CountInv, NEW c \in Conns, AddTotal(c)
    PROVE  CountInv'
<1>1. /\ st[c] = "counted" /\ st' = [st EXCEPT ![c] = "open"]
      /\ total' = [total EXCEPT ![obj[c]] = @ + 1]
      /\ UNCHANGED <<users, conns, bytes, name, obj>> /\ Types
  BY DEF AddTotal, CountInv
<1>2. PICK n \in Names, u \in Conns :
              /\ n = name[c] /\ u = obj[c] /\ users[n] = u /\ users[n] # None
              /\ st[u] \in Found /\ \A m \in Names \ {n} : users[m] # u
              /\ conns[u] = Cardinality(Counting(n, {"counted", "open"}))
              /\ total[u] = Cardinality(Counting(n, {"open", "closed"}))
  BY <1>1, UserOf DEF Found
<1>3. /\ total'[u] = total[u] + 1
      /\ \A d \in Conns \ {u} : total'[d] = total[d]
  BY <1>1, <1>2 DEF Types
<1>4. Types'
  BY <1>1, <1>2 DEF Types, Found
<1>5. Bound' /\ Makers'
  BY <1>1, StageStep DEF Found
<1>6. Unused'
  BY <1>1, <1>2, <1>3 DEF CountInv, Types, Unused, Found
<1>7. /\ Counting(n, {"open", "closed"})' = Counting(n, {"open", "closed"}) \cup {c}
      /\ c \notin Counting(n, {"open", "closed"})
      /\ Counting(n, {"counted", "open"})' = Counting(n, {"counted", "open"})
      /\ \A m \in Names \ {n}, S \in {{"counted", "open"}, {"open", "closed"}} :
            Counting(m, S)' = Counting(m, S)
  BY <1>1, <1>2 DEF Types, Counting
<1>8. total'[u] = Cardinality(Counting(n, {"open", "closed"})')
  <2>1. IsFiniteSet(Counting(n, {"open", "closed"}))
    BY CountingFinite
  <2> QED
    BY <1>2, <1>3, <1>7, <2>1, OneMore
<1>9. Counted'
  <2>1. ASSUME NEW m \in Names \ {n}, users[m] # None
        PROVE  users[m] \in Conns \ {u}
    BY <1>1, <1>2, <2>1 DEF Types
  <2> QED
    BY <1>1, <1>2, <1>3, <1>7, <1>8, <2>1 DEF CountInv, Counted
<1> QED
  BY <1>4, <1>5, <1>6, <1>9 DEF CountInv

LEMMA CloseCount ==
    ASSUME Assumption, CountInv, NEW c \in Conns, Close(c)
    PROVE  CountInv'
<1>1. /\ st[c] \in {"open", "closed"} /\ st' = [st EXCEPT ![c] = "closed"]
      /\ conns' = [conns EXCEPT ![obj[c]] = IF st[c] = "open" THEN @ - 1 ELSE @]
      /\ UNCHANGED <<users, total, bytes, name, obj>> /\ Types
  BY DEF Close, CountInv
<1>2. PICK n \in Names, u \in Conns :
              /\ n = name[c] /\ u = obj[c] /\ users[n] = u /\ users[n] # None
              /\ st[u] \in Found /\ \A m \in Names \ {n} : users[m] # u
              /\ conns[u] = Cardinality(Counting(n, {"counted", "open"}))
              /\ total[u] = Cardinality(Counting(n, {"open", "closed"}))
  BY <1>1, UserOf DEF Found
<1>3. Types'
  BY <1>1, <1>2 DEF Types, Found
<1>4. Bound' /\ Makers'
  BY <1>1, StageStep DEF Found
<1>5. \A m \in Names : Counting(m, {"open", "closed"})' = Counting(m, {"open", "closed"})
  BY <1>1 DEF Types, Counting
<1>6. CASE st[c] = "closed"
  <2>1. conns' = conns /\ st' = st
    BY <1>1, <1>2, <1>6 DEF Types
  <2>2. Unused'
    BY <1>1, <2>1 DEF CountInv, Unused
  <2>3. Counted'
    <3>1. \A m \in Names, S \in {{"counted", "open"}, {"open", "closed"}} :
              Counting(m, S)' = Counting(m, S)
      BY <1>1, <2>1 DEF Counting
    <3> QED
      BY <1>1, <2>1, <3>1, CountIdle DEF CountInv
  <2> QED
    BY <1>3, <1>4, <2>2, <2>3 DEF CountInv
<1>7. CASE st[c] = "open"
  <2>1. /\ conns'[u] = conns[u] - 1
        /\ \A d \in Conns \ {u} : conns'[d] = conns[d]
    BY <1>1, <1>2, <1>7 DEF Types
  <2>2. Unused'
    BY <1>1, <1>2, <2>1 DEF CountInv, Types, Unused, Found
  <2>3. /\ Counting(n, {"counted", "open"})' = Counting(n, {"counted", "open"}) \ {c}
        /\ c \in Counting(n, {"counted", "open"})
        /\ \A m \in Names \ {n} :
              Counting(m, {"counted", "open"})' = Counting(m, {"counted", "open"})
    BY <1>1, <1>2, <1>7 DEF Types, Counting
  <2>4. conns'[u] = Cardinality(Counting(n, {"counted", "open"})')
    <3>1. IsFiniteSet(Counting(n, {"counted", "open"}))
      BY CountingFinite
    <3> QED
      BY <1>2, <2>1, <2>3, <3>1, OneLess
  <2>5. Counted'
    <3>1. ASSUME NEW m \in Names \ {n}, users[m] # None
          PROVE  users[m] \in Conns \ {u}
      BY <1>1, <1>2, <3>1 DEF Types
    <3>2. ASSUME NEW m \in Names \ {n}, users[m] # None
          PROVE  /\ conns'[users[m]] = Cardinality(Counting(m, {"counted", "open"})')
                 /\ total'[users[m]] = Cardinality(Counting(m, {"open", "closed"})')
      BY <1>1, <1>5, <2>1, <2>3, <3>1, <3>2 DEF CountInv, Counted
    <3>3. ASSUME NEW m \in Names, users[m] = None
          PROVE  Counting(m, {"counted", "open"})' \cup Counting(m, {"open", "closed"})' = {}
      BY <1>2, <1>5, <2>3, <3>3 DEF CountInv, Counted
    <3>4. total'[u] = Cardinality(Counting(n, {"open", "closed"})')
      BY <1>1, <1>2, <1>5
    <3> QED
      BY <1>1, <1>2, <2>4, <3>2, <3>3, <3>4 DEF Counted
  <2> QED
    BY <1>3, <1>4, <2>2, <2>5 DEF CountInv
<1> QED
  BY <1>1, <1>6, <1>7

LEMMA CountStep ==
    ASSUME Assumption, CountInv, [StatsNext]_statsVars
    PROVE  CountInv'
<1>1. ASSUME UNCHANGED <<users, conns, total, handles>>, Types' PROVE CountInv'
  <2>1. Bound' /\ Makers' /\ Unused'
    BY <1>1 DEF CountInv, Bound, Makers, Unused, handles
  <2>2. Counted'
    BY <1>1 DEF CountInv, Counted, Counting, handles
  <2> QED
    BY <1>1, <2>1, <2>2 DEF CountInv
<1>2. ASSUME NEW c \in Conns, Traffic(c) PROVE CountInv'
  <2>1. obj[c] \in Conns
    BY <1>2 DEF Traffic, CountInv, Bound, Found
  <2>2. Types'
    BY <1>2, <2>1 DEF Traffic, CountInv, Types, handles
  <2> QED
    BY <1>1, <1>2, <2>2 DEF Traffic, handles
<1>3. CASE Snapshot \/ UNCHANGED statsVars
  <2>1. UNCHANGED <<counters, handles>>
    BY <1>3 DEF Snapshot, statsVars
  <2>2. Types'
    BY <2>1 DEF CountInv, Types, counters, handles
  <2> QED
    BY <1>1, <2>1, <2>2 DEF counters
<1> QED
  BY <1>2, <1>3, LookupCount, CreateCount, AddConnsCount, AddTotalCount, CloseCount
     DEF StatsNext

\* The open connections and the sessions of a name are counted exactly, however
\* many connections open and close under it at once (user, Open, Close).
THEOREM CountersAreExact == StatsSpec => []Counted
<1>1. StatsInit => CountInv
  BY CountInit, StatsAssumption
<1>2. CountInv /\ [StatsNext]_statsVars => CountInv'
  BY CountStep, StatsAssumption
<1>3. CountInv => Counted
  BY DEF CountInv
<1> QED
  BY <1>1, <1>2, <1>3, PTL DEF StatsSpec

-----------------------------------------------------------------------------
(* What the monitor reads.                                                 *)

\* A row says no more than the counters do by now.
Below(r) ==
    /\ r \in Rows /\ r.name \in Names /\ users[r.name] \in Conns
    /\ r.total <= total[users[r.name]] /\ r.bytes <= bytes[users[r.name]]

Covers(s, r) == s.name = r.name /\ s.total >= r.total /\ s.bytes >= r.bytes

\* A snapshot under way will have a row for every one that is shown: taken
\* already, being read, or still to be read.
MeterInv ==
    /\ \A r \in shown \cup taken : Below(r)
    /\ \A n \in reading : n \in Names /\ users[n] \in Conns
    /\ field = "bytes" =>
         /\ Below([row EXCEPT !.bytes = 0]) /\ row \in Rows
         /\ \A r \in shown : r.name = row.name => r.total <= row.total
    /\ field # "idle" => \A r \in shown :
         r.name \in reading \/ (field = "bytes" /\ r.name = row.name)
         \/ \E s \in taken : Covers(s, r)

LEMMA RowFacts ==
    ASSUME NEW r \in Rows, NEW b \in Nat
    PROVE  /\ [r EXCEPT !.bytes = b] \in Rows
           /\ [r EXCEPT !.bytes = b].name = r.name
           /\ [r EXCEPT !.bytes = b].total = r.total
           /\ [r EXCEPT !.bytes = b].bytes = b
           /\ r.total \in Nat /\ r.bytes \in Nat
BY DEF Rows

\* Connections never take back what has been counted, nor a user.
LEMMA CountersGrow ==
    ASSUME Assumption, CountInv, CountInv', NEW c \in Conns,
           \/ \E n \in Names : Lookup(c, n)
           \/ Create(c) \/ AddConns(c) \/ AddTotal(c) \/ Traffic(c) \/ Close(c)
    PROVE  /\ UNCHANGED monitor
           /\ \A n \in Names : users[n] \in Conns => users'[n] = users[n]
           /\ \A u \in Conns : total'[u] >= total[u] /\ bytes'[u] >= bytes[u]
<1>1. Types
  BY DEF CountInv
<1>2. CASE (\E n \in Names : Lookup(c, n)) \/ AddConns(c) \/ Close(c)
  BY <1>1, <1>2 DEF Types, Lookup, AddConns, Close, counters
<1>3. CASE Create(c)
  BY <1>1, <1>3 DEF Types, Create, Assumption
<1>4. CASE AddTotal(c) \/ Traffic(c)
  BY <1>1, <1>4 DEF Types, AddTotal, Traffic
<1> QED
  BY <1>2, <1>3, <1>4

LEMMA MeterStep ==
    ASSUME Assumption, CountInv, CountInv', MeterInv, [StatsNext]_statsVars
    PROVE  /\ MeterInv'
           /\ shown' # shown => \A r \in shown : \E s \in shown' : Covers(s, r)
<1>0. Types
  BY DEF CountInv
<1>1. ASSUME NEW c \in Conns,
             \/ \E n \in Names : Lookup(c, n)
             \/ Create(c) \/ AddConns(c) \/ AddTotal(c) \/ Traffic(c) \/ Close(c)
      PROVE  MeterInv' /\ shown' = shown
  <2>1. /\ UNCHANGED monitor
        /\ \A n \in Names : users[n] \in Conns => users'[n] = users[n]
        /\ \A u \in Conns : total'[u] >= total[u] /\ bytes'[u] >= bytes[u]
    BY <1>1, CountersGrow
  <2>2. /\ \A u \in Conns : total[u] \in Nat /\ bytes[u] \in Nat
        /\ \A u \in Conns : total'[u] \in Nat /\ bytes'[u] \in Nat
    BY DEF CountInv, Types
  <2>3. ASSUME NEW r, Below(r) PROVE Below(r)'
    BY <2>1, <2>2, <2>3 DEF Below, Rows
  <2> QED
    BY <2>1, <2>3 DEF MeterInv, monitor
<1>2. CASE SnapshotBegins /\ UNCHANGED <<counters, handles>>
  <2>1. /\ reading' = {n \in Names : users[n] # None} /\ field' = "total"
        /\ UNCHANGED <<row, taken, shown, counters>>
    BY <1>2 DEF SnapshotBegins
  <2>2. \A n \in reading' : n \in Names /\ users'[n] \in Conns
    BY <1>0, <2>1 DEF Types, counters
  <2>3. \A r \in shown : r.name \in reading'
    BY <2>1, Assumption DEF Assumption, MeterInv, Below
  <2> QED
    BY <2>1, <2>2, <2>3 DEF MeterInv, Below, counters
<1>3. ASSUME NEW n \in reading, ReadTotal(n), UNCHANGED <<counters, handles>>
      PROVE  MeterInv' /\ shown' = shown
  <2>1. /\ field = "total" /\ field' = "bytes" /\ reading' = reading \ {n}
        /\ row' = [name |-> n, total |-> total[users[n]], bytes |-> 0]
        /\ UNCHANGED <<users, total, bytes, taken, shown>>
    BY <1>3 DEF ReadTotal, counters
  <2>2. n \in Names /\ users[n] \in Conns /\ total[users[n]] \in Nat /\ bytes[users[n]] \in Nat
    BY <1>0 DEF MeterInv, Types
  <2>3. row' \in Rows /\ row'.name = n /\ row'.total = total[users[n]]
    BY <2>1, <2>2 DEF Rows
  <2>4. Below([row EXCEPT !.bytes = 0])'
    <3>1. /\ [row' EXCEPT !.bytes = 0] \in Rows
          /\ [row' EXCEPT !.bytes = 0].name = n /\ [row' EXCEPT !.bytes = 0].bytes = 0
          /\ [row' EXCEPT !.bytes = 0].total = total[users[n]]
      BY <2>3, RowFacts
    <3> QED
      BY <2>1, <2>2, <3>1 DEF Below
  <2>5. \A r \in shown : Below(r)
    BY DEF MeterInv
  <2>6. \A r \in shown' : r.name = row'.name => r.total <= row'.total
    BY <2>1, <2>3, <2>5 DEF Below
  <2>7. \A r \in shown' : \/ r.name \in reading' \/ r.name = row'.name
                         \/ \E s \in taken' : Covers(s, r)
    BY <2>1, <2>3 DEF MeterInv
  <2>8. \A r \in shown' \cup taken' : Below(r)'
    BY <2>1 DEF MeterInv, Below
  <2>9. \A m \in reading' : m \in Names /\ users'[m] \in Conns
    BY <2>1 DEF MeterInv
  <2> QED
    BY <2>1, <2>3, <2>4, <2>6, <2>7, <2>8, <2>9 DEF MeterInv
<1>4. CASE ReadBytes /\ UNCHANGED <<counters, handles>>
  <2> DEFINE r0 == [row EXCEPT !.bytes = bytes[users[row.name]]]
  <2>1. row \in Rows /\ Below([row EXCEPT !.bytes = 0]) /\ field = "bytes"
    BY <1>4 DEF ReadBytes, MeterInv
  <2>2. row.name \in Names /\ users[row.name] \in Conns /\ row.total <= total[users[row.name]]
    BY <2>1, RowFacts DEF Below
  <2>3. bytes[users[row.name]] \in Nat
    BY <1>0, <2>2 DEF Types
  <2>4. /\ r0 \in Rows /\ r0.name = row.name /\ r0.total = row.total
        /\ r0.bytes = bytes[users[row.name]]
    BY <2>1, <2>3, RowFacts
  <2>5. /\ UNCHANGED <<users, total, bytes, reading>>
        /\ \/ /\ reading = {} /\ field' = "idle" /\ shown' = taken \cup {r0} /\ taken' = {}
           \/ /\ reading # {} /\ field' = "total" /\ taken' = taken \cup {r0}
              /\ shown' = shown
    BY <1>4 DEF ReadBytes, counters
  <2> HIDE DEF r0
  <2>6. Below(r0)
    BY <2>2, <2>3, <2>4 DEF Below
  <2>7. \A r \in shown : r.name = row.name => Covers(r0, r)
    <3>1. \A r \in shown : Below(r) /\ (r.name = row.name => r.total <= row.total)
      BY <2>1 DEF MeterInv
    <3>2. row.total \in Nat /\ \A r \in Rows : r.total \in Nat /\ r.bytes \in Nat
      BY <2>1 DEF Rows
    <3> QED
      BY <2>3, <2>4, <3>1, <3>2 DEF Below, Covers
  <2>8. \A r \in shown : r.name \in reading \/ \E s \in taken \cup {r0} : Covers(s, r)
    BY <2>1, <2>7 DEF MeterInv
  <2>9. \A r \in shown' \cup taken' : Below(r)'
    <3>1. \A r \in shown' \cup taken' : Below(r)
      BY <2>5, <2>6 DEF MeterInv
    <3> QED
      BY <2>5, <3>1 DEF Below
  <2>10. \A m \in reading' : m \in Names /\ users'[m] \in Conns
    BY <2>5 DEF MeterInv
  <2>11. MeterInv'
    BY <2>5, <2>8, <2>9, <2>10 DEF MeterInv
  <2> QED
    BY <2>5, <2>8, <2>11
<1>5. CASE UNCHANGED statsVars
  BY <1>5 DEF statsVars, counters, monitor, MeterInv, Below
<1>6. ASSUME UNCHANGED shown PROVE shown' # shown => FALSE
  BY <1>6
<1>7. CASE Snapshot
  <2>1. SnapshotBegins => shown' = shown
    BY DEF SnapshotBegins
  <2> QED
    BY <1>2, <1>3, <1>4, <1>7, <2>1 DEF Snapshot
<1> QED
  BY <1>1, <1>5, <1>7 DEF StatsNext, statsVars, monitor

\* The speeds of the monitor are differences of what two snapshots show: they
\* are never negative, and no name is lost, although a snapshot reads counters
\* one by one while sessions open, transfer and close (Snapshot, meter.frame).
THEOREM MetersGoForward == StatsSpec => MeterForward
<1>1. StatsInit => CountInv /\ MeterInv
  BY CountInit, StatsAssumption DEF StatsInit, MeterInv
<1>2. CountInv /\ MeterInv /\ [StatsNext]_statsVars => (CountInv /\ MeterInv)'
  BY CountStep, MeterStep, StatsAssumption
<1>3. CountInv /\ MeterInv /\ [StatsNext]_statsVars
        => [\A r \in shown : \E s \in shown' :
              s.name = r.name /\ s.total >= r.total /\ s.bytes >= r.bytes]_shown
  BY CountStep, MeterStep, StatsAssumption DEF Covers
<1> QED
  BY <1>1, <1>2, <1>3, PTL DEF StatsSpec, MeterForward

-----------------------------------------------------------------------------
(* The front end.                                                          *)

\* What has been done for c by the time its handler is where it is.
Stage(c) ==
    /\ pc[c] \in {"none", "greet", "request", "dial"} =>
         st[c] = "none" /\ dst[c] = "none" /\ replies[c] = <<>>
    /\ pc[c] = "register" =>
         st[c] \in {"none", "missed", "found", "counted"} /\ dst[c] = "open"
         /\ replies[c] = <<>>
    /\ pc[c] = "reply" => st[c] = "open" /\ dst[c] = "open" /\ replies[c] = <<>>
    /\ pc[c] \in {"lift", "splice"} =>
         st[c] = "open" /\ dst[c] = "open" /\ replies[c] = <<"OK">>
    /\ pc[c] = "splice" => deadline[c] = "off"
    /\ pc[c] = "hang" =>
         st[c] = "open" /\ dst[c] = "open" /\ replies[c] \in {<<>>, <<"OK">>}
    /\ pc[c] = "done" =>
         \/ /\ st[c] = "closed" /\ dst[c] = "closed" /\ replies[c] \in {<<>>, <<"OK">>}
         \/ /\ st[c] = "none" /\ dst[c] = "none"
            /\ replies[c] \in {<<>>, <<"refused">>, <<"unsupported">>}

Answers == {<<>>, <<"OK">>, <<"refused">>, <<"unsupported">>}

SocksTypes ==
    /\ pc \in [Conns -> {"none", "greet", "request", "dial", "register", "reply",
                          "lift", "splice", "hang", "done"}]
    /\ deadline \in [Conns -> {"set", "passed", "off"}]
    /\ dst \in [Conns -> {"none", "open", "closed"}]
    /\ st \in [Conns -> {"none", "missed"} \cup Found]
    /\ replies \in [Conns -> Answers]

SocksInv == SocksTypes /\ \A c \in Conns : Stage(c)

\* A handler changes what belongs to its own connection.
LEMMA StageOnly ==
    ASSUME SocksInv, SocksTypes', NEW c \in Conns, Stage(c)',
           \A e \in Conns \ {c} :
                /\ pc'[e] = pc[e] /\ deadline'[e] = deadline[e] /\ dst'[e] = dst[e]
                /\ st'[e] = st[e] /\ replies'[e] = replies[e]
    PROVE  SocksInv'
BY DEF SocksInv, Stage

\* The steps of DialTarget and counted.Close that count.
LEMMA CountersStep ==
    ASSUME SocksTypes, NEW c \in Conns,
           \/ \E n \in Names : Lookup(c, n)
           \/ Create(c) \/ AddConns(c) \/ AddTotal(c) \/ Close(c) \/ Traffic(c)
    PROVE  /\ st' \in [Conns -> {"none", "missed"} \cup Found]
           /\ \A e \in Conns \ {c} : st'[e] = st[e]
BY DEF SocksTypes, Found, Lookup, Create, AddConns, AddTotal, Close, Traffic, Has, handles

LEMMA SocksStep ==
    ASSUME SocksInv, [Next]_vars
    PROVE  SocksInv'
<1>0. SocksTypes /\ \A x : Append(<<>>, x) = <<x>>
  BY DEF SocksInv
<1>1. ASSUME NEW c \in Conns, Serve(c) \/ Greet(c) \/ NotRead(c) PROVE SocksInv'
  <2>1. /\ pc[c] \in {"none", "greet", "request"}
        /\ \E p \in {"greet", "request", "done"} : pc' = [pc EXCEPT ![c] = p]
        /\ deadline' = [deadline EXCEPT ![c] = "set"] \/ deadline' = deadline
        /\ UNCHANGED <<dst, st, replies>>
    BY <1>1 DEF Serve, Greet, NotRead, Goes, statsVars, handles
  <2>2. SocksTypes' /\ Stage(c)'
    BY <1>0, <2>1 DEF SocksInv, SocksTypes, Stage, Answers
  <2> QED
    BY <1>0, <2>1, <2>2, StageOnly DEF SocksTypes
<1>2. ASSUME NEW c \in Conns, readRequest(c) PROVE SocksInv'
  <2>1. /\ pc[c] = "request" /\ replies[c] = <<>>
        /\ \/ pc' = [pc EXCEPT ![c] = "dial"] /\ replies' = replies
           \/ /\ pc' = [pc EXCEPT ![c] = "done"]
              /\ \/ replies' = replies
                 \/ replies' = [replies EXCEPT ![c] = <<"unsupported">>]
        /\ UNCHANGED <<deadline, dst, st>>
    BY <1>0, <1>2 DEF readRequest, reply, Goes, statsVars, handles, SocksInv, Stage
  <2>2. SocksTypes' /\ Stage(c)'
    BY <1>0, <2>1 DEF SocksInv, SocksTypes, Stage, Answers
  <2> QED
    BY <1>0, <2>1, <2>2, StageOnly DEF SocksTypes
<1>3. ASSUME NEW c \in Conns, Dialled(c) PROVE SocksInv'
  <2>1. /\ pc[c] = "dial" /\ replies[c] = <<>>
        /\ \/ /\ pc' = [pc EXCEPT ![c] = "register"] /\ replies' = replies
              /\ dst' = [dst EXCEPT ![c] = "open"]
           \/ /\ pc' = [pc EXCEPT ![c] = "done"] /\ dst' = dst
              /\ \/ replies' = replies
                 \/ replies' = [replies EXCEPT ![c] = <<"refused">>]
        /\ UNCHANGED <<deadline, st>>
    BY <1>0, <1>3 DEF Dialled, reply, Goes, statsVars, handles, SocksInv, Stage
  <2>2. SocksTypes' /\ Stage(c)'
    BY <1>0, <2>1 DEF SocksInv, SocksTypes, Stage, Answers
  <2> QED
    BY <1>0, <2>1, <2>2, StageOnly DEF SocksTypes
<1>4. ASSUME NEW c \in Conns, Register(c) PROVE SocksInv'
  <2>1. /\ pc[c] = "register" /\ UNCHANGED <<deadline, dst, replies>>
        /\ \/ /\ UNCHANGED pc
              /\ st'[c] \in {"missed", "found", "counted"}
           \/ pc' = [pc EXCEPT ![c] = "reply"] /\ st'[c] = "open"
    BY <1>0, <1>4 DEF Register, Goes, SocksTypes, Lookup, Create, AddConns, AddTotal, Has
  <2>2. SocksTypes' /\ Stage(c)'
    BY <1>0, <1>4, <2>1, CountersStep DEF SocksInv, SocksTypes, Stage, Answers, Register
  <2> QED
    BY <1>0, <1>4, <2>1, <2>2, StageOnly, CountersStep DEF SocksTypes, Register
<1>5. ASSUME NEW c \in Conns, replyOK(c) PROVE SocksInv'
  <2>0. pc[c] = "reply" /\ replies[c] = <<>>
    BY <1>0, <1>5 DEF replyOK, Goes, SocksInv, Stage
  <2>1. /\ pc[c] = "reply" /\ replies[c] = <<>>
        /\ \/ /\ pc' = [pc EXCEPT ![c] = "lift"]
              /\ replies' = [replies EXCEPT ![c] = <<"OK">>]
           \/ pc' = [pc EXCEPT ![c] = "hang"] /\ replies' = replies
        /\ UNCHANGED <<deadline, dst, st>>
    BY <2>0, <1>5 DEF replyOK, reply, Goes, statsVars, handles
  <2>2. SocksTypes' /\ Stage(c)'
    BY <1>0, <2>1 DEF SocksInv, SocksTypes, Stage, Answers
  <2> QED
    BY <1>0, <2>1, <2>2, StageOnly DEF SocksTypes
<1>6. ASSUME NEW c \in Conns, Lift(c) \/ SpliceEnds(c) PROVE SocksInv'
  <2>1. /\ \/ /\ pc[c] = "lift" /\ pc' = [pc EXCEPT ![c] = "splice"]
              /\ deadline' = [deadline EXCEPT ![c] = "off"]
           \/ /\ pc[c] = "splice" /\ pc' = [pc EXCEPT ![c] = "hang"]
              /\ deadline' = deadline
        /\ UNCHANGED <<dst, st, replies>>
    BY <1>6 DEF Lift, SpliceEnds, Goes, statsVars, handles
  <2>2. SocksTypes' /\ Stage(c)'
    BY <1>0, <2>1 DEF SocksInv, SocksTypes, Stage, Answers
  <2> QED
    BY <1>0, <2>1, <2>2, StageOnly DEF SocksTypes
<1>7. ASSUME NEW c \in Conns, Hang(c) PROVE SocksInv'
  <2>1. /\ pc[c] = "hang" /\ pc' = [pc EXCEPT ![c] = "done"]
        /\ dst' = [dst EXCEPT ![c] = "closed"] /\ st'[c] = "closed"
        /\ UNCHANGED <<deadline, replies>>
    BY <1>0, <1>7 DEF Hang, Goes, Close, SocksTypes
  <2>2. SocksTypes' /\ Stage(c)'
    BY <1>0, <1>7, <2>1, CountersStep DEF SocksInv, SocksTypes, Stage, Answers, Hang
  <2> QED
    BY <1>0, <1>7, <2>1, <2>2, StageOnly, CountersStep DEF SocksTypes, Hang
<1>8. ASSUME NEW c \in Conns, Expires(c) PROVE SocksInv'
  <2>1. /\ deadline[c] = "set" /\ deadline' = [deadline EXCEPT ![c] = "passed"]
        /\ UNCHANGED <<pc, dst, st, replies>>
    BY <1>8 DEF Expires, statsVars, handles
  <2>2. SocksTypes' /\ Stage(c)'
    BY <1>0, <2>1 DEF SocksInv, SocksTypes, Stage
  <2> QED
    BY <1>0, <2>1, <2>2, StageOnly DEF SocksTypes
<1>9. ASSUME UNCHANGED <<handlers, st>> PROVE SocksInv'
  BY <1>9 DEF SocksInv, SocksTypes, Stage, handlers
<1>10. ASSUME NEW c \in Conns, Transfers(c) PROVE SocksInv'
  BY <1>9, <1>10 DEF Transfers, Traffic, handles
<1>11. CASE Monitor \/ UNCHANGED vars
  BY <1>9, <1>11 DEF Monitor, Snapshot, vars, statsVars, handles
<1> QED
  BY <1>1, <1>2, <1>3, <1>4, <1>5, <1>6, <1>7, <1>8, <1>10, <1>11
     DEF Next, GoesOn, ReadTimesOut, Leaves

LEMMA SocksAlways == Spec => []SocksInv
<1>1. Init => SocksInv
  <2> SUFFICES ASSUME Init PROVE SocksInv
    OBVIOUS
  <2>0. \A c \in Conns : /\ pc[c] = "none" /\ dst[c] = "none" /\ st[c] = "none"
                          /\ replies[c] = <<>>
    BY DEF Init, StatsInit
  <2>1. SocksTypes
    BY DEF Init, StatsInit, SocksTypes, Answers, Found
  <2>2. \A c \in Conns : Stage(c)
    BY <2>0 DEF Stage
  <2> QED
    BY <2>1, <2>2 DEF SocksInv
<1> QED
  BY <1>1, SocksStep, PTL DEF Spec

\* However a handler ends, and also when DialTarget returns long after the
\* deadline: no stream and no count is left behind, and the program got one
\* answer at most (handle, DialTarget, counted.Close).
THEOREM HandlersAreTidy == Spec => []Tidy
<1>2. SocksInv => Tidy
  <2>1. \A a \in Answers : Len(a) <= 1
    BY DEF Answers
  <2>2. <<"OK">> # <<"refused">> /\ <<"OK">> # <<"unsupported">> /\ <<"OK">> # <<>>
    OBVIOUS
  <2>3. ASSUME SocksInv, NEW c \in Conns
        PROVE  /\ pc[c] = "done" => dst[c] # "open" /\ st[c] \in {"none", "closed"}
               /\ Len(replies[c]) <= 1
               /\ pc[c] = "splice" => /\ replies[c] = <<"OK">> /\ deadline[c] = "off"
                                      /\ dst[c] = "open" /\ st[c] = "open"
    BY <2>1, <2>3 DEF SocksInv, SocksTypes, Stage
  <2>4. ASSUME SocksInv, NEW c \in Conns, replies[c] = <<"OK">>
        PROVE  dst[c] # "none"
    BY <2>2, <2>4 DEF SocksInv, SocksTypes, Stage
  <2> QED
    BY <2>3, <2>4 DEF Tidy
<1> QED
  BY <1>2, SocksAlways, PTL

\* A step of a handler is one of the counters, or leaves them alone.
LEMMA CountersUsed == Spec => StatsSpec
<1>1. Init => StatsInit
  BY DEF Init
<1>2. [Next]_vars => [StatsNext]_statsVars
  BY DEF Next, Serve, Greet, readRequest, Register, GoesOn, SpliceEnds, Leaves,
         Expires, Transfers, Monitor, ReadTimesOut, NotRead, Dialled, replyOK, Lift,
         Hang, StatsNext, vars
<1> QED
  BY <1>1, <1>2, PTL DEF Spec, StatsSpec

\* The front end uses the counters as they are meant to be used, so that they
\* are exact in the client as well: whoever is shown as connected is.
THEOREM FrontEndCounts == Spec => []Counted
BY CountersUsed, CountersAreExact

\* And what its monitor draws from two snapshots (Reg of gwDialer) is never
\* negative.
THEOREM FrontEndMeters == Spec => MeterForward
BY CountersUsed, MetersGoForward

-----------------------------------------------------------------------------
(* Types.                                                                   *)

\* Nothing is counted on a user that is not in the table, and no counter goes
\* past what the clock of the model allows.
Held ==
    /\ \A u \in Conns : (\A n \in Names : users[n] # u) => conns[u] = 0
    /\ bytes \in [Conns -> 0 .. MaxBytes]
    /\ field \in {"idle", "total", "bytes"} /\ row \in Rows

LEMMA HeldStep ==
    ASSUME Assumption, CountInv, CountInv', MeterInv, Held, [StatsNext]_statsVars
    PROVE  Held'
<1>0. /\ Types /\ Types' /\ NoRow \in Rows /\ MaxBytes \in Nat
      /\ bytes \in [Conns -> 0 .. MaxBytes] /\ row \in Rows
  BY DEF CountInv, NoRow, Rows, Assumption, Held
<1>1. ASSUME UNCHANGED <<users, conns, bytes>>,
             field' \in {"idle", "total", "bytes"}, row' \in Rows
      PROVE  Held'
  BY <1>1 DEF Held
<1>2. ASSUME NEW c \in Conns, (\E n \in Names : Lookup(c, n)) \/ AddTotal(c)
      PROVE  Held'
  BY <1>1, <1>2 DEF Held, Lookup, AddTotal, counters, monitor
<1>3. ASSUME NEW c \in Conns, Create(c)
      PROVE  Held'
  <2>1. name[c] \in Names
    BY <1>3 DEF Create, CountInv, Bound
  <2>2. PICK u \in Conns : /\ users' = [users EXCEPT ![name[c]] = u]
                           /\ users[name[c]] \in {None, u}
                           /\ UNCHANGED <<conns, bytes, field, row>>
    BY <1>0, <1>3, <2>1 DEF Create, Types, monitor
  <2>3. ASSUME NEW v \in Conns, \A n \in Names : users'[n] # v
        PROVE  conns'[v] = 0
    <3>1. \A n \in Names : users[n] # v
      BY <1>0, <2>1, <2>2, <2>3 DEF Types, Assumption
    <3> QED
      BY <2>2, <3>1 DEF Held
  <2> QED
    BY <2>2, <2>3 DEF Held
<1>4. ASSUME NEW c \in Conns, AddConns(c) \/ Close(c)
      PROVE  Held'
  <2>1. st[c] \in Found /\ UNCHANGED <<users, bytes, field, row>>
    BY <1>4 DEF AddConns, Close, Found, monitor
  <2>2. name[c] \in Names /\ obj[c] \in Conns /\ users[name[c]] = obj[c]
    BY <2>1 DEF CountInv, Bound, Found
  <2>3. \A u \in Conns : u # obj[c] => conns'[u] = conns[u]
    BY <1>0, <1>4 DEF AddConns, Close, Types
  <2> QED
    BY <2>1, <2>2, <2>3 DEF Held
<1>5. ASSUME NEW c \in Conns, Traffic(c)
      PROVE  Held'
  <2>1. /\ UNCHANGED <<users, conns, field, row>> /\ bytes[obj[c]] < MaxBytes
        /\ bytes' = [bytes EXCEPT ![obj[c]] = @ + 1]
    BY <1>5 DEF Traffic, monitor
  <2>2. bytes' \in [Conns -> 0 .. MaxBytes]
    <3>1. \A u \in Conns : bytes[u] \in 0 .. MaxBytes
      BY <1>0
    <3>2. \A u \in Conns : u = obj[c] => bytes[u] + 1 \in 0 .. MaxBytes
      BY <1>0, <2>1, <3>1
    <3> QED
      BY <1>0, <2>1, <3>1, <3>2
  <2> QED
    BY <2>1, <2>2 DEF Held
<1>6. CASE Snapshot
  <2>1. UNCHANGED <<users, conns, bytes>>
    BY <1>6 DEF Snapshot, counters
  <2>2. CASE SnapshotBegins
    BY <1>0, <1>1, <2>1, <2>2 DEF SnapshotBegins
  <2>3. ASSUME NEW n \in reading, ReadTotal(n)
        PROVE  Held'
    <3>1. n \in Names /\ users[n] \in Conns /\ total[users[n]] \in Nat
      BY <1>0 DEF MeterInv, Types
    <3>2. row' \in Rows /\ field' = "bytes"
      BY <2>3, <3>1 DEF ReadTotal, Rows
    <3> QED
      BY <1>1, <2>1, <3>2
  <2>4. CASE ReadBytes
    BY <1>0, <1>1, <2>1, <2>4 DEF ReadBytes
  <2> QED
    BY <1>6, <2>2, <2>3, <2>4 DEF Snapshot
<1>7. CASE UNCHANGED statsVars
  BY <1>1, <1>7 DEF Held, statsVars, counters, monitor
<1> QED
  BY <1>2, <1>3, <1>4, <1>5, <1>6, <1>7 DEF StatsNext

\* Every variable of the front end and of its counters keeps its type; in
\* particular the number of open connections of a user is never negative.
THEOREM FrontEndTypes == Spec => []SocksTypeOK
<1>1. StatsInit => CountInv /\ MeterInv /\ Held
  BY CountInit, StatsAssumption DEF StatsInit, MeterInv, Held, NoRow, Rows, Assumption
<1>2. CountInv /\ MeterInv /\ Held /\ [StatsNext]_statsVars => (CountInv /\ MeterInv /\ Held)'
  BY CountStep, MeterStep, HeldStep, StatsAssumption
<1>3. Spec => StatsSpec
  BY CountersUsed
<1>4. SocksInv /\ CountInv /\ MeterInv /\ Held => SocksTypeOK
  <2> SUFFICES ASSUME SocksInv, CountInv, MeterInv, Held PROVE SocksTypeOK
    OBVIOUS
  <2>1. Types /\ SocksTypes
    BY DEF CountInv, SocksInv
  <2>2. ASSUME NEW u \in Conns PROVE conns[u] \in Nat
    <3>1. CASE \E n \in Names : users[n] = u
      <4>1. PICK n \in Names : users[n] = u
        BY <3>1
      <4>2. u # None
        BY StatsAssumption DEF Assumption
      <4>3. conns[u] = Cardinality(Counting(n, {"counted", "open"}))
        BY <4>1, <4>2 DEF CountInv, Counted
      <4> QED
        BY <4>3, CountingFinite, StatsAssumption
    <3>2. CASE \A n \in Names : users[n] # u
      BY <3>2 DEF Held
    <3> QED
      BY <3>1, <3>2
  <2>3. conns \in [Conns -> Nat]
    BY <2>1, <2>2 DEF Types
  <2>4. {row} \cup taken \cup shown \subseteq Rows /\ reading \subseteq Names
    BY DEF Held, MeterInv, Below
  <2>5. \A c \in Conns : replies[c] \in Seq(Codes)
    <3> TAKE c \in Conns
    <3>1. replies[c] \in Answers
      BY <2>1 DEF SocksTypes
    <3>2. <<>> \in Seq(Codes) /\ \A x \in Codes : <<x>> \in Seq(Codes)
      OBVIOUS
    <3>3. \A a \in Answers : a = <<>> \/ \E x \in Codes : a = <<x>>
      BY DEF Answers, Codes
    <3> QED
      BY <3>1, <3>2, <3>3
  <2> QED
    BY <2>1, <2>3, <2>4, <2>5 DEF Types, SocksTypes, Held, StatsTypeOK, SocksTypeOK, Found
<1> QED
  BY <1>1, <1>2, <1>3, <1>4, SocksAlways, PTL DEF StatsSpec
=============================================================================
