--------------------------- MODULE FailoverProofs ---------------------------
(***************************************************************************)
(* Theorems about Failover, for any number of sessions and servers and any *)
(* thresholds: its types, and that a server is given up only after as many *)
(* recent reports about it as the threshold says.                          *)
(*                                                                         *)
(* The argument.  The pool remembers of a run of failures its length and   *)
(* its beginning.  The log knows every report: as long as the run is not   *)
(* older than the window, its last "fails" reports are in the log, and     *)
(* none of them is older than the run.  A new current server means a new   *)
(* log, so fails must be 0 while the pool is probing.                      *)
(***************************************************************************)
EXTENDS Failover, SequenceTheorems, WellFoundedInduction, TLAPS

Reports == [age : 0 .. FailWindow, ok : BOOLEAN]

Types ==
    /\ health \in [Servers -> Health]
    /\ cur \in 0 .. N /\ active \in 0 .. N
    /\ rest \in [Servers -> 0 .. Cooldown]
    /\ fails \in 0 .. FailThreshold - 1 /\ age \in 0 .. FailWindow + 1
    /\ lock \in Procs \cup {None}
    /\ todo \subseteq Servers
    /\ pc \in [Procs -> PCs]
    /\ link \in [Procs -> 0 .. N]
    /\ fate \in [Procs -> {"ok", "fail"}]
    /\ left \in [Procs -> 0 .. DialTimeout]
    /\ log \in Seq(Reports)

\* Until run has chosen the first server there are no sessions.
Booting == pc[Main] # "ready" =>
    fails = 0 /\ log = <<>> /\ \A s \in Sessions : pc[s] = "idle"

\* Who probes holds the mutex, has a candidate, and no run of failures is on.
Locking ==
    /\ \A p \in Procs : pc[p] \in {"pick", "probing"} <=> lock = p
    /\ lock # None => todo # {} /\ fails = 0

\* The log: no longer than needed, the oldest report first.
Logging ==
    /\ Len(log) <= FailThreshold
    /\ \A j, k \in 1 .. Len(log) : j < k => log[j].age >= log[k].age

\* The reports of the run that is on.
Recent == fails > 0 /\ age <= FailWindow =>
    /\ Len(log) >= fails
    /\ \A j \in 1 .. Len(log) : j > Len(log) - fails => log[j].age <= age

IInv == Types /\ Booting /\ Locking /\ Logging /\ Recent

-----------------------------------------------------------------------------
(* The candidates and the log.                                             *)

LEMMA Constants ==
    /\ N \in Nat \ {0} /\ FailThreshold \in Nat \ {0} /\ Cooldown \in Nat
    /\ FailWindow \in Nat /\ DialTimeout \in Nat
    /\ Main \notin Sessions /\ Main \in Procs /\ None \notin Procs /\ Sessions \subseteq Procs
BY FailoverAssumption DEF Procs

LEMMA CandidateFirst ==
    ASSUME todo \subseteq Servers, todo # {}
    PROVE  Candidate \in todo
<1>1. todo \subseteq Nat
  BY Constants DEF Servers
<1>2. IsWellFoundedOn(OpToRel(<, Nat), Nat)
  BY NatLessThanWellFounded
<1>3. PICK i \in todo : \A j \in todo : ~ (<<j, i>> \in OpToRel(<, Nat))
  BY <1>1, <1>2, WFMin
<1>4. \A j \in todo : i <= j
  <2> TAKE j \in todo
  <2>1. <<j, i>> \in Nat \X Nat /\ <<j, i>>[1] = j /\ <<j, i>>[2] = i
    BY <1>1
  <2>2. ~ (j < i)
    BY <2>1, <1>3 DEF OpToRel
  <2> QED
    BY <2>1, <2>2
<1> QED
  BY <1>4 DEF Candidate, Min

LEMMA CandidatesSome ==
    ASSUME NEW r
    PROVE  Candidates(r) \subseteq Servers /\ Candidates(r) # {}
<1>1. 1 \in Servers
  BY Constants DEF Servers
<1> QED
  BY <1>1 DEF Candidates

LEMMA FunctionIsSeq ==
    ASSUME NEW T, NEW m \in Nat, NEW f \in [1 .. m -> T]
    PROVE  f \in Seq(T)
OBVIOUS

LEMMA ReportsType ==
    ASSUME NEW l \in Seq(Reports)
    PROVE  /\ Len(l) \in Nat
           /\ \A j \in 1 .. Len(l) : /\ l[j] \in Reports /\ l[j].age \in 0 .. FailWindow
                                     /\ l[j].age \in Int /\ l[j].ok \in BOOLEAN
<1>1. Len(l) \in Nat /\ \A j \in 1 .. Len(l) : l[j] \in Reports
  BY LenProperties, ElementOfSeq
<1>2. \A r \in Reports : r.age \in 0 .. FailWindow /\ r.ok \in BOOLEAN
  BY DEF Reports
<1>3. \A a \in 0 .. FailWindow : a \in Int
  OBVIOUS
<1> QED
  BY <1>1, <1>2, <1>3

\* A new report is the last of the log, and the oldest one may have to go.
LEMMA LoggedIs ==
    ASSUME log \in Seq(Reports), Len(log) <= FailThreshold
    PROVE  /\ Logged \in Seq(Reports) /\ Len(Logged) \in Nat
           /\ Len(Logged) = IF Len(log) = FailThreshold THEN FailThreshold ELSE Len(log) + 1
           /\ Logged[Len(Logged)].age = 0
           /\ \A j \in 1 .. Len(Logged) - 1 :
                Logged[j] = log[j + (IF Len(log) = FailThreshold THEN 1 ELSE 0)]
<1> DEFINE r == [age |-> 0, ok |-> FALSE]
           l == Append(log, r)
<1>1. r \in Reports /\ r.age = 0
  <2>1. 0 \in 0 .. FailWindow
    BY Constants
  <2> QED
    BY <2>1 DEF Reports
<1>2. Len(log) \in Nat /\ FailThreshold \in Nat \ {0}
  BY Constants, LenProperties
<1> HIDE DEF r
<1>3. /\ l \in Seq(Reports) /\ Len(l) = Len(log) + 1 /\ l[Len(log) + 1] = r
      /\ \A j \in 1 .. Len(log) : l[j] = log[j]
  BY <1>1, AppendProperties
<1>4. Logged = IF Len(l) > FailThreshold THEN Tail(l) ELSE l
  BY DEF Logged, r
<1> HIDE DEF l
<1>5. CASE Len(log) = FailThreshold
  <2>1. Logged = Tail(l) /\ l # <<>>
    BY <1>2, <1>3, <1>4, <1>5, EmptySeq
  <2>2. /\ Logged \in Seq(Reports) /\ Len(Logged) = Len(l) - 1
        /\ \A j \in 1 .. Len(Logged) : Logged[j] = l[j + 1]
    BY <2>1, <1>3, HeadTailProperties
  <2>3. Len(Logged) = FailThreshold /\ FailThreshold \in 1 .. Len(Logged)
    BY <2>2, <1>2, <1>3, <1>5
  <2>4. Logged[Len(Logged)] = r
    BY <2>2, <2>3, <1>3, <1>5
  <2>5. ASSUME NEW j \in 1 .. Len(Logged) - 1
        PROVE  Logged[j] = log[j + 1]
    <3>1. j \in 1 .. Len(Logged) /\ j + 1 \in 1 .. Len(log)
      BY <2>3, <1>2, <1>5
    <3> QED
      BY <3>1, <2>2, <1>3
  <2> QED
    BY <2>2, <2>3, <2>4, <2>5, <1>1, <1>2, <1>5
<1>6. CASE Len(log) # FailThreshold
  <2>1. Logged = l
    BY <1>2, <1>3, <1>4, <1>6
  <2> QED
    BY <2>1, <1>1, <1>2, <1>3, <1>6
<1> QED
  BY <1>5, <1>6

\* That a connection has succeeded is noted at the last report.
LEMMA NotedIs ==
    ASSUME log \in Seq(Reports), log # <<>>, NEW l, l = [log EXCEPT ![Len(log)].ok = TRUE]
    PROVE  /\ l \in Seq(Reports) /\ Len(l) = Len(log)
           /\ \A j \in 1 .. Len(log) : l[j].age = log[j].age
<1> DEFINE r == [log[Len(log)] EXCEPT !.ok = TRUE]
<1>1. Len(log) \in 1 .. Len(log) /\ Len(log) \in Nat
  BY ReportsType, EmptySeq
<1>2. log[Len(log)] \in Reports
  BY <1>1, ReportsType
<1>3. r \in Reports /\ r.age = log[Len(log)].age
  BY <1>2 DEF Reports
<1>4. l = [log EXCEPT ![Len(log)] = r]
  OBVIOUS
<1> HIDE DEF r
<1>5. /\ l \in Seq(Reports) /\ Len(l) = Len(log)
      /\ \A j \in 1 .. Len(log) : l[j] = IF j = Len(log) THEN r ELSE log[j]
  <2>1. /\ [log EXCEPT ![Len(log)] = r] \in Seq(Reports)
        /\ Len([log EXCEPT ![Len(log)] = r]) = Len(log)
        /\ \A j \in 1 .. Len(log) : [log EXCEPT ![Len(log)] = r][j] = IF j = Len(log) THEN r ELSE log[j]
    BY <1>1, <1>3, ExceptSeq
  <2> QED
    BY <2>1, <1>4
<1> QED
  BY <1>3, <1>5

\* A tick makes every report older; n of them have become too old.
LEMMA AgedIs ==
    ASSUME log \in Seq(Reports), NEW n \in 0 .. Len(log),
           \A j \in DOMAIN log : log[j].age < FailWindow <=> j > n,
           log' = [j \in 1 .. Len(log) - n |-> [log[j + n] EXCEPT !.age = @ + 1]]
    PROVE  /\ log' \in Seq(Reports) /\ Len(log') = Len(log) - n
           /\ \A j \in 1 .. Len(log') : j + n \in 1 .. Len(log) /\ log'[j].age = log[j + n].age + 1
<1>1. Len(log) \in Nat /\ DOMAIN log = 1 .. Len(log) /\ FailWindow \in Nat
  BY LenProperties, Constants
<1> DEFINE m == Len(log) - n
<1>2. m \in Nat /\ \A j \in 1 .. m : j + n \in 1 .. Len(log) /\ j + n > n
  BY <1>1
<1>3. ASSUME NEW j \in 1 .. m
      PROVE  log'[j] \in Reports /\ log'[j].age = log[j + n].age + 1
  <2>1. log[j + n] \in Reports /\ log[j + n].age \in 0 .. FailWindow /\ log[j + n].age < FailWindow
    BY <1>1, <1>2, ReportsType
  <2>2. log[j + n].age + 1 \in 0 .. FailWindow
    BY <2>1, <1>1
  <2>3. log'[j] = [log[j + n] EXCEPT !.age = @ + 1]
    OBVIOUS
  <2> QED
    BY <2>1, <2>2, <2>3 DEF Reports
<1>4. log' \in [1 .. m -> Reports]
  BY <1>3
<1> HIDE DEF m
<1>5. log' \in Seq(Reports) /\ Len(log') = m
  <2>1. log' \in Seq(Reports)
    BY <1>2, <1>4, FunctionIsSeq
  <2>2. DOMAIN log' = 1 .. m
    BY <1>4
  <2> QED
    BY <2>1, <2>2, <1>2, LenProperties
<1> QED
  BY <1>2, <1>3, <1>5 DEF m

-----------------------------------------------------------------------------
(* Steps that leave the run of failures and the log alone.                 *)

\* A session is somewhere only when the client has started.
LEMMA Started ==
    ASSUME IInv, NEW s \in Sessions, pc[s] # "idle"
    PROVE  pc[Main] = "ready"
BY DEF IInv, Booting

LEMMA QuietStep ==
    ASSUME IInv, Types', UNCHANGED <<fails, age, log, lock, todo>>, NEW p \in Procs,
           \A q \in Procs : q # p => pc'[q] = pc[q],
           pc'[p] \in {"pick", "probing"} <=> pc[p] \in {"pick", "probing"},
           pc[Main] = "ready" => pc'[Main] = "ready",
           p # Main => pc[Main] = "ready"
    PROVE  IInv'
<1> USE DEF IInv
<1>1. Booting'
  <2>1. CASE p = Main
    <3>1. \A s \in Sessions : pc'[s] = pc[s]
      BY <2>1, Constants
    <3> QED
      BY <3>1 DEF Booting
  <2>2. CASE p # Main
    BY <2>2 DEF Booting
  <2> QED
    BY <2>1, <2>2
<1>2. Locking'
  BY DEF Locking
<1>3. Logging' /\ Recent'
  BY DEF Logging, Recent
<1> QED
  BY <1>1, <1>2, <1>3

LEMMA ChangeStep ==
    ASSUME IInv, NEW i \in Servers, NEW h \in Health, Change(i, h)
    PROVE  IInv'
<1>1. health' \in [Servers -> Health] /\ UNCHANGED <<pool, lock, todo, active, local, log>>
  BY DEF Change, IInv, Types
<1> QED
  BY <1>1 DEF IInv, Types, Booting, Locking, Logging, Recent, pool, local

LEMMA ProbeStartStep ==
    ASSUME IInv, NEW p \in Procs, ProbeStart(p)
    PROVE  IInv'
<1>1. /\ pc[p] = "pick" /\ pc' = [pc EXCEPT ![p] = "probing"]
      /\ UNCHANGED <<health, cur, rest, fails, age, lock, todo, active, link, log>>
  BY DEF ProbeStart, pool
<1>2. fate' \in [Procs -> {"ok", "fail"}] /\ left' \in [Procs -> 0 .. DialTimeout]
  <2>1. PICK f \in {"ok", "fail"}, t \in {0, DialTimeout} :
            fate' = [fate EXCEPT ![p] = f] /\ left' = [left EXCEPT ![p] = t]
    BY DEF ProbeStart
  <2>2. t \in 0 .. DialTimeout
    BY Constants
  <2> QED
    BY <2>1, <2>2 DEF IInv, Types
<1>3. pc' \in [Procs -> PCs] /\ pc'[p] = "probing" /\ \A q \in Procs : q # p => pc'[q] = pc[q]
  BY <1>1 DEF IInv, Types, PCs
<1>4. Types'
  BY <1>1, <1>2, <1>3 DEF IInv, Types
<1>5. p # Main => pc[Main] = "ready"
  BY <1>1, Started DEF Procs
<1>6. pc[Main] = "ready" => pc'[Main] = "ready"
  BY <1>1, <1>3, Constants
<1> QED
  BY <1>1, <1>3, <1>4, <1>5, <1>6, QuietStep

LEMMA UseStep ==
    ASSUME IInv, NEW p \in Procs, Use(p)
    PROVE  IInv'
<1>1. /\ pc[p] = "use" /\ active' = link[p]
      /\ pc' = [pc EXCEPT ![p] = IF p = Main THEN "ready" ELSE "redial"]
      /\ UNCHANGED <<health, cur, rest, fails, age, lock, todo, link, fate, left, log>>
  BY DEF Use, pool
<1>2. /\ pc' \in [Procs -> PCs] /\ pc'[p] \in {"ready", "redial"}
      /\ p = Main => pc'[p] = "ready"
      /\ \A q \in Procs : q # p => pc'[q] = pc[q]
  BY <1>1 DEF IInv, Types, PCs
<1>3. Types'
  BY <1>1, <1>2 DEF IInv, Types
<1>4. p # Main => pc[Main] = "ready"
  BY <1>1, Started DEF Procs
<1>5. pc[Main] = "ready" => pc'[Main] = "ready"
  BY <1>2, Constants
<1> QED
  BY <1>1, <1>2, <1>3, <1>4, <1>5, QuietStep

LEMMA AttemptQuiet ==
    ASSUME IInv, NEW s \in Sessions, NEW stage \in {"dialing", "redialing"}, Attempt(s, stage),
           pc[s] \notin {"pick", "probing"}, pc[Main] = "ready"
    PROVE  IInv'
<1>1. /\ link' = [link EXCEPT ![s] = active] /\ pc' = [pc EXCEPT ![s] = stage]
      /\ UNCHANGED <<health, cur, rest, fails, age, lock, todo, active, log>>
  BY DEF Attempt, pool
<1>2. fate' \in [Procs -> {"ok", "fail"}] /\ left' \in [Procs -> 0 .. DialTimeout]
  <2>1. PICK f \in {"ok", "fail"}, t \in {0, DialTimeout} :
            fate' = [fate EXCEPT ![s] = f] /\ left' = [left EXCEPT ![s] = t]
    BY DEF Attempt
  <2>2. t \in 0 .. DialTimeout
    BY Constants
  <2> QED
    BY <2>1, <2>2 DEF IInv, Types
<1>3. s \in Procs /\ s # Main
  BY Constants
<1>4. pc' \in [Procs -> PCs] /\ pc'[s] = stage /\ \A q \in Procs : q # s => pc'[q] = pc[q]
  BY <1>1, <1>3 DEF IInv, Types, PCs
<1>5. Types'
  BY <1>1, <1>2, <1>4 DEF IInv, Types
<1> QED
  BY <1>1, <1>3, <1>4, <1>5, Constants, QuietStep

LEMMA BeginStep ==
    ASSUME IInv, NEW s \in Sessions, Begin(s)
    PROVE  IInv'
BY AttemptQuiet DEF Begin

LEMMA RedialStep ==
    ASSUME IInv, NEW s \in Sessions, Redial(s)
    PROVE  IInv'
BY AttemptQuiet, Started DEF Redial

LEMMA ReturnStep ==
    ASSUME IInv, NEW s \in Sessions, Return(s)
    PROVE  IInv'
<1>1. /\ pc[s] \in {"erred", "open"} /\ link' = [link EXCEPT ![s] = 0]
      /\ pc' = [pc EXCEPT ![s] = IF Busy THEN "rested" ELSE "idle"]
      /\ UNCHANGED <<health, cur, rest, fails, age, lock, todo, active, fate, left, log>>
  BY DEF Return, pool
<1>2. s \in Procs /\ s # Main /\ 0 \in 0 .. N
  BY Constants
<1>3. /\ pc' \in [Procs -> PCs] /\ pc'[s] \in {"rested", "idle"}
      /\ \A q \in Procs : q # s => pc'[q] = pc[q]
  BY <1>1, <1>2 DEF IInv, Types, PCs
<1>4. Types'
  BY <1>1, <1>2, <1>3 DEF IInv, Types
<1>5. pc[Main] = "ready"
  BY <1>1, Started
<1> QED
  BY <1>1, <1>2, <1>3, <1>4, <1>5, Constants, QuietStep

-----------------------------------------------------------------------------
(* The steps of the pool.                                                  *)

LEMMA BootStep ==
    ASSUME IInv, Boot
    PROVE  IInv'
<1> USE DEF IInv
<1>1. /\ pc[Main] = "boot" /\ lock = None /\ lock' = Main /\ todo' = Candidates(rest)
      /\ pc' = [pc EXCEPT ![Main] = "pick"]
      /\ UNCHANGED <<health, cur, rest, fails, age, active, link, fate, left, log>>
  BY DEF Boot, pool
<1>2. todo' \subseteq Servers /\ todo' # {}
  BY <1>1, CandidatesSome
<1>3. /\ pc' \in [Procs -> PCs] /\ pc'[Main] = "pick"
      /\ \A q \in Procs : q # Main => pc'[q] = pc[q]
  BY <1>1, Constants DEF Types, PCs
<1>4. Types'
  BY <1>1, <1>2, <1>3, Constants DEF Types
<1>5. fails = 0 /\ log = <<>> /\ \A s \in Sessions : pc[s] = "idle" /\ s \in Procs /\ s # Main
  BY <1>1, Constants DEF Booting
<1>6. Booting'
  BY <1>1, <1>3, <1>5 DEF Booting
<1>7. Locking'
  <2>1. \A p \in Procs : pc[p] \notin {"pick", "probing"}
    BY <1>1, Constants DEF Locking
  <2> QED
    BY <2>1, <1>1, <1>2, <1>3, <1>5 DEF Locking
<1>8. Logging' /\ Recent'
  BY <1>1 DEF Logging, Recent
<1> QED
  BY <1>4, <1>6, <1>7, <1>8

LEMMA OKStep ==
    ASSUME IInv, NEW s \in Sessions, OK(s)
    PROVE  IInv'
<1> USE DEF IInv
<1>1. /\ pc[s] = "ok" /\ lock = None /\ fails' = 0 /\ age' = 0 /\ log' = <<>>
      /\ pc' = [pc EXCEPT ![s] = "open"]
      /\ UNCHANGED <<health, cur, rest, lock, todo, active, link, fate, left>>
  BY DEF OK
<1>2. s \in Procs /\ s # Main /\ FailThreshold \in Nat \ {0} /\ FailWindow \in Nat /\ None \notin Procs
  BY Constants
<1>3. /\ pc' \in [Procs -> PCs] /\ pc'[s] = "open"
      /\ \A q \in Procs : q # s => pc'[q] = pc[q]
  BY <1>1, <1>2 DEF Types, PCs
<1>4. Types'
  <2>1. fails' \in 0 .. FailThreshold - 1 /\ age' \in 0 .. FailWindow + 1 /\ log' \in Seq(Reports)
    BY <1>1, <1>2
  <2> QED
    BY <2>1, <1>1, <1>3 DEF Types
<1>5. Booting'
  BY <1>1, <1>2, <1>3, Started, Constants DEF Booting
<1>6. Locking'
  BY <1>1, <1>2, <1>3 DEF Locking
<1>7. Logging' /\ Recent'
  BY <1>1, <1>2, LenProperties DEF Logging, Recent
<1> QED
  BY <1>4, <1>5, <1>6, <1>7

\* Adding a report keeps the log in order, and the run within it.
LEMMA LoggedStep ==
    ASSUME IInv, log' = Logged
    PROVE  /\ log' \in Seq(Reports) /\ Logging'
           /\ fails' = FailCount /\ age' = (IF Fresh THEN 0 ELSE age) /\ ~Enough => Recent'
           /\ Enough => Len(log') = FailThreshold
<1> USE DEF IInv
<1> DEFINE d == IF Len(log) = FailThreshold THEN 1 ELSE 0
           n == Len(Logged)
<1>1. log \in Seq(Reports) /\ Len(log) \in Nat /\ Len(log) <= FailThreshold /\ FailThreshold \in Nat \ {0}
      /\ fails \in Nat /\ age \in Nat /\ fails <= FailThreshold - 1
  BY Constants, ReportsType DEF Types, Logging
<1>2. /\ Logged \in Seq(Reports) /\ n \in Nat /\ n = Len(log) + 1 - d
      /\ Logged[n].age = 0
      /\ \A j \in 1 .. n - 1 : Logged[j] = log[j + d]
  BY <1>1, LoggedIs
<1>3. d \in {0, 1} /\ (d = 1 <=> Len(log) = FailThreshold) /\ n >= 1 /\ n <= FailThreshold
  BY <1>1, <1>2
<1> HIDE DEF d, n
<1>4. \A j \in 1 .. n - 1 : j + d \in 1 .. Len(log)
  BY <1>1, <1>2, <1>3
<1>5. \A j \in 1 .. n : Logged[j].age \in Int /\ Logged[j].age >= 0
  <2>1. \A j \in 1 .. n : Logged[j].age \in 0 .. FailWindow
    BY <1>2, ReportsType DEF n
  <2> QED
    BY <2>1, Constants
<1>6. Logging'
  <2>1. ASSUME NEW j \in 1 .. n, NEW k \in 1 .. n, j < k
        PROVE  Logged[j].age >= Logged[k].age
    <3>1. CASE k = n
      BY <3>1, <1>2, <1>5
    <3>2. CASE k # n
      <4>1. j \in 1 .. n - 1 /\ k \in 1 .. n - 1 /\ j + d < k + d
        <5>1. n \in Nat /\ d \in Nat
          BY <1>2, <1>3
        <5> QED
          BY <5>1, <3>2, <2>1
      <4>2. log[j + d].age >= log[k + d].age
        BY <4>1, <1>4 DEF Logging
      <4> QED
        BY <4>1, <4>2, <1>2
    <3> QED
      BY <3>1, <3>2
  <2> QED
    BY <2>1, <1>3 DEF Logging, n
<1>7. ASSUME fails' = FailCount, age' = (IF Fresh THEN 0 ELSE age), ~Enough
      PROVE  Recent'
  <2>1. FailCount \in Nat /\ FailCount < FailThreshold /\ FailCount >= 1
    BY <1>1, <1>7 DEF Enough, FailCount
  <2>2. CASE Fresh
    <3>1. fails' = 1 /\ age' = 0
      BY <2>2, <1>7 DEF FailCount
    <3>2. \A j \in 1 .. n : j > n - 1 => j = n
      BY <1>2
    <3> QED
      BY <3>1, <3>2, <1>2, <1>3 DEF Recent, n
  <2>3. CASE ~Fresh
    <3>1. fails > 0 /\ age <= FailWindow /\ fails' = fails + 1 /\ age' = age
      BY <2>3, <1>1, <1>7, Constants DEF Fresh, FailCount
    <3>2. Len(log) >= fails /\ \A j \in 1 .. Len(log) : j > Len(log) - fails => log[j].age <= age
      BY <3>1 DEF Recent
    <3>3. n >= fails + 1
      BY <3>1, <3>2, <2>1, <1>1, <1>2, <1>3, <1>7
    <3>4. ASSUME NEW j \in 1 .. n, j > n - (fails + 1)
          PROVE  Logged[j].age <= age
      <4>1. CASE j = n
        BY <4>1, <1>1, <1>2
      <4>2. CASE j # n
        <5>1. j \in 1 .. n - 1 /\ j + d > Len(log) - fails
          BY <4>2, <3>4, <1>1, <1>2, <1>3
        <5> QED
          BY <5>1, <3>2, <1>2, <1>4
      <4> QED
        BY <4>1, <4>2
    <3> QED
      BY <3>1, <3>3, <3>4 DEF Recent, n
  <2> QED
    BY <2>2, <2>3
<1>8. ASSUME Enough
      PROVE  n = FailThreshold
  <2>0. n \in Nat /\ n >= 1 /\ n <= FailThreshold /\ FailThreshold \in Nat
    BY <1>1, <1>2, <1>3
  <2>1. CASE Fresh
    <3>1. 1 >= FailThreshold
      BY <2>1, <1>8 DEF Enough, FailCount
    <3> QED
      BY <3>1, <2>0
  <2>2. CASE ~Fresh
    <3>1. fails > 0 /\ age <= FailWindow
      BY <2>2, <1>1, Constants DEF Fresh
    <3>2. Len(log) >= fails /\ fails + 1 >= FailThreshold
      BY <3>1, <2>2, <1>8 DEF Recent, Enough, FailCount
    <3>3. CASE Len(log) = FailThreshold
      BY <3>3, <2>0, <1>2, <1>3
    <3>4. CASE Len(log) # FailThreshold
      <4>1. n = Len(log) + 1
        BY <3>4, <1>1, <1>2, <1>3
      <4> QED
        BY <4>1, <3>2, <2>0, <1>1
    <3> QED
      BY <3>3, <3>4
  <2> QED
    BY <2>1, <2>2
<1> QED
  BY <1>2, <1>6, <1>7, <1>8 DEF n

LEMMA FailedOnStep ==
    ASSUME IInv, NEW s \in Sessions, FailedOn(s)
    PROVE  IInv' /\ (pc'[s] = "pick" => Len(log') = FailThreshold)
<1> USE DEF IInv
<1>1. pc[s] = "failed" /\ lock = None /\ UNCHANGED <<health, active, fate, left>>
  BY DEF FailedOn
<1>2. /\ s \in Procs /\ s # Main /\ None \notin Procs /\ pc[Main] = "ready"
      /\ FailThreshold \in Nat \ {0} /\ FailWindow \in Nat /\ Cooldown \in Nat
      /\ fails \in Nat /\ age \in 0 .. FailWindow + 1
  BY <1>1, Started, Constants DEF Types
<1>3. CASE /\ pc' = [pc EXCEPT ![s] = "use"] /\ link' = [link EXCEPT ![s] = cur]
           /\ UNCHANGED <<pool, lock, todo, log>>
  <2>1. /\ pc' \in [Procs -> PCs] /\ pc'[s] = "use"
        /\ \A q \in Procs : q # s => pc'[q] = pc[q]
    BY <1>2, <1>3 DEF Types, PCs
  <2>2. Types' /\ UNCHANGED <<fails, age>>
    BY <2>1, <1>1, <1>3 DEF Types, pool
  <2> QED
    BY <2>1, <2>2, <1>1, <1>2, <1>3, Constants, QuietStep
<1>4. CASE /\ ~Enough /\ fails' = FailCount /\ age' = (IF Fresh THEN 0 ELSE age) /\ log' = Logged
           /\ pc' = [pc EXCEPT ![s] = "use"]
           /\ UNCHANGED <<cur, rest, lock, todo, link>>
  <2>1. /\ pc' \in [Procs -> PCs] /\ pc'[s] = "use" /\ pc'[Main] = "ready"
        /\ \A q \in Procs : q # s => pc'[q] = pc[q]
    BY <1>2, <1>4, Constants DEF Types, PCs
  <2>2. log' \in Seq(Reports) /\ Logging' /\ Recent'
    BY <1>4, LoggedStep
  <2>3. fails' \in 0 .. FailThreshold - 1 /\ age' \in 0 .. FailWindow + 1
    BY <1>2, <1>4 DEF FailCount, Enough
  <2>4. Types'
    BY <2>1, <2>2, <2>3, <1>1, <1>4 DEF Types
  <2>5. Booting' /\ Locking'
    BY <2>1, <1>1, <1>2, <1>4 DEF Booting, Locking
  <2> QED
    BY <2>1, <2>2, <2>4, <2>5
<1>5. CASE /\ Enough /\ fails' = 0 /\ age' = 0 /\ log' = Logged
           /\ rest' = [rest EXCEPT ![cur] = Cooldown] /\ todo' = Candidates(rest') /\ lock' = s
           /\ pc' = [pc EXCEPT ![s] = "pick"]
           /\ UNCHANGED <<cur, link>>
  <2>1. /\ pc' \in [Procs -> PCs] /\ pc'[s] = "pick" /\ pc'[Main] = "ready"
        /\ \A q \in Procs : q # s => pc'[q] = pc[q]
    BY <1>2, <1>5, Constants DEF Types, PCs
  <2>2. log' \in Seq(Reports) /\ Logging' /\ Len(log') = FailThreshold
    BY <1>5, LoggedStep
  <2>3. fails' \in 0 .. FailThreshold - 1 /\ age' \in 0 .. FailWindow + 1
    BY <1>2, <1>5
  <2>4. todo' \subseteq Servers /\ todo' # {}
    BY <1>5, CandidatesSome
  <2>5. rest' \in [Servers -> 0 .. Cooldown]
    <3>1. Cooldown \in 0 .. Cooldown
      BY <1>2
    <3> QED
      BY <3>1, <1>5 DEF Types
  <2>6. Types'
    BY <2>1, <2>2, <2>3, <2>4, <2>5, <1>1, <1>2, <1>5 DEF Types
  <2>7. Booting' /\ Recent'
    BY <2>1, <1>5 DEF Booting, Recent
  <2>8. Locking'
    <3>1. \A p \in Procs : pc[p] \notin {"pick", "probing"}
      BY <1>1, <1>2 DEF Locking
    <3> QED
      BY <3>1, <2>1, <2>4, <1>5 DEF Locking
  <2> QED
    BY <2>2, <2>6, <2>7, <2>8
<1> QED
  BY <1>3, <1>4, <1>5 DEF FailedOn

LEMMA ProbeEndStep ==
    ASSUME IInv, NEW p \in Procs, ProbeEnd(p)
    PROVE  IInv'
<1> USE DEF IInv
<1>1. /\ pc[p] = "probing" /\ fate' = [fate EXCEPT ![p] = "ok"]
      /\ UNCHANGED <<health, fails, age, active, left>>
  BY DEF ProbeEnd
<1>2. /\ lock = p /\ lock # None /\ todo # {} /\ fails = 0 /\ Candidate \in todo /\ Candidate \in Servers
      /\ Servers = 1 .. N /\ N \in Nat /\ Cooldown \in Nat /\ FailThreshold \in Nat \ {0}
      /\ Main \in Procs /\ Main \notin Sessions /\ None \notin Procs
  BY <1>1, Constants, CandidateFirst DEF Types, Locking, Servers
<1>3. /\ p # Main => pc[Main] = "ready"
      /\ p = Main => log = <<>>
  BY <1>1, Started DEF Procs, Booting
<1>4. fate' \in [Procs -> {"ok", "fail"}]
  BY <1>1 DEF Types
<1>5. 0 \in 0 .. Cooldown /\ Cooldown \in 0 .. Cooldown /\ Candidate \in 0 .. N /\ <<>> \in Seq(Reports)
      /\ Len(<<>>) = 0
  BY <1>2
\* What holds whenever the goroutine gets on, and the log is kept or emptied.
<1>6. ASSUME pc' = [pc EXCEPT ![p] = pc'[p]], pc'[p] \in PCs \ {"ready"}, log' \in {log, <<>>}
      PROVE  /\ pc' \in [Procs -> PCs] /\ \A q \in Procs : q # p => pc'[q] = pc[q]
             /\ Booting' /\ Logging' /\ Recent' /\ log' \in Seq(Reports)
  <2>1. pc' \in [Procs -> PCs] /\ \A q \in Procs : q # p => pc'[q] = pc[q]
    BY <1>6 DEF Types
  <2>2. Logging' /\ log' \in Seq(Reports)
    <3>1. CASE log' = log
      BY <3>1 DEF Logging, Types
    <3>2. CASE log' = <<>>
      BY <3>2, <1>2, <1>5 DEF Logging
    <3> QED
      BY <3>1, <3>2, <1>6
  <2>3. Recent'
    BY <1>1, <1>2 DEF Recent
  <2>4. Booting'
    <3>1. CASE p = Main
      <4>1. \A s \in Sessions : pc'[s] = "idle"
        BY <3>1, <2>1, <1>1, Constants DEF Booting
      <4> QED
        BY <4>1, <3>1, <1>1, <1>2, <1>3, <1>6 DEF Booting
    <3>2. CASE p # Main
      BY <3>2, <2>1, <1>2, <1>3 DEF Booting
    <3> QED
      BY <3>1, <3>2
  <2> QED
    BY <2>1, <2>2, <2>3, <2>4
<1>7. CASE Choose(p)
  <2>1. /\ cur' = Candidate /\ rest' = [rest EXCEPT ![Candidate] = 0]
        /\ link' = [link EXCEPT ![p] = Candidate]
        /\ pc' = [pc EXCEPT ![p] = "use"] /\ pc'[p] = "use"
        /\ lock' = None /\ todo' = {} /\ log' = <<>>
    BY <1>7 DEF Choose, Types
  <2>2. /\ pc' \in [Procs -> PCs] /\ \A q \in Procs : q # p => pc'[q] = pc[q]
        /\ Booting' /\ Logging' /\ Recent' /\ log' \in Seq(Reports)
    BY <2>1, <1>6 DEF PCs
  <2>3. /\ rest' \in [Servers -> 0 .. Cooldown] /\ link' \in [Procs -> 0 .. N] /\ cur' \in 0 .. N
    BY <2>1, <1>2, <1>5 DEF Types
  <2>4. Types'
    BY <2>1, <2>2, <2>3, <1>1, <1>4 DEF Types
  <2>5. Locking'
    BY <2>1, <2>2, <1>1, <1>2 DEF Locking
  <2> QED
    BY <2>2, <2>4, <2>5
<1>8. CASE Refused(p) /\ (Continue(p) \/ GiveUp(p))
  <2>1. /\ rest' = [rest EXCEPT ![Candidate] = Cooldown] /\ todo' = Others /\ UNCHANGED <<cur, link>>
        /\ Others \subseteq todo
    BY <1>8 DEF Refused, Others
  <2>2. /\ rest' \in [Servers -> 0 .. Cooldown] /\ todo' \subseteq Servers
    BY <2>1, <1>5 DEF Types
  <2>3. CASE Continue(p)
    <3>1. pc' = [pc EXCEPT ![p] = "pick"] /\ pc'[p] = "pick" /\ lock' = lock /\ log' = log /\ todo' # {}
      BY <2>1, <2>3 DEF Continue, Types
    <3>2. /\ pc' \in [Procs -> PCs] /\ \A q \in Procs : q # p => pc'[q] = pc[q]
          /\ Booting' /\ Logging' /\ Recent' /\ log' \in Seq(Reports)
      BY <3>1, <1>6 DEF PCs
    <3>3. Types'
      BY <2>1, <2>2, <3>1, <3>2, <1>1, <1>4 DEF Types
    <3>4. Locking'
      BY <3>1, <3>2, <1>1, <1>2 DEF Locking
    <3> QED
      BY <3>2, <3>3, <3>4
  <2>4. CASE GiveUp(p)
    <3>1. /\ pc' = [pc EXCEPT ![p] = pc'[p]] /\ pc'[p] \in {"exit", "erred"}
          /\ lock' = None /\ log' = <<>>
      BY <2>4 DEF GiveUp, Types
    <3>2. /\ pc' \in [Procs -> PCs] /\ \A q \in Procs : q # p => pc'[q] = pc[q]
          /\ Booting' /\ Logging' /\ Recent' /\ log' \in Seq(Reports)
      BY <3>1, <1>6 DEF PCs
    <3>3. Types'
      BY <2>1, <2>2, <3>1, <3>2, <1>1, <1>4 DEF Types
    <3>4. Locking'
      BY <3>1, <3>2, <1>1, <1>2 DEF Locking
    <3> QED
      BY <3>2, <3>3, <3>4
  <2> QED
    BY <2>3, <2>4, <1>8
<1> QED
  BY <1>7, <1>8 DEF ProbeEnd, Continue, GiveUp

LEMMA AttemptEndStep ==
    ASSUME IInv, NEW s \in Sessions, AttemptEnd(s)
    PROVE  IInv'
<1> USE DEF IInv
<1>1. /\ pc[s] \in {"dialing", "redialing"} /\ fate' = [fate EXCEPT ![s] = "ok"]
      /\ UNCHANGED <<health, cur, rest, fails, age, lock, todo, active, link, left>>
      /\ \E w \in {"ok", "open", "failed", "erred"} : pc' = [pc EXCEPT ![s] = w]
      /\ \/ log' = log
         \/ log # <<>> /\ log' = [log EXCEPT ![Len(log)].ok = TRUE]
  <2>1. /\ fate' = [fate EXCEPT ![s] = "ok"]
        /\ UNCHANGED <<health, cur, rest, fails, age, lock, todo, active, link, left>>
    BY DEF AttemptEnd, pool
  <2>2. CASE /\ pc[s] \in {"dialing", "redialing"} /\ fate[s] = "ok"
             /\ pc' = [pc EXCEPT ![s] = IF pc[s] = "dialing" THEN "ok" ELSE "open"]
             /\ log' = IF link[s] = cur /\ log # <<>>
                       THEN [log EXCEPT ![Len(log)].ok = TRUE] ELSE log
    <3>1. \/ log' = log
          \/ log # <<>> /\ log' = [log EXCEPT ![Len(log)].ok = TRUE]
      BY <2>2
    <3>2. \E w \in {"ok", "open", "failed", "erred"} : pc' = [pc EXCEPT ![s] = w]
      <4>1. CASE pc[s] = "dialing"
        BY <2>2, <4>1
      <4>2. CASE pc[s] # "dialing"
        BY <2>2, <4>2
      <4> QED
        BY <4>1, <4>2
    <3> QED
      BY <2>1, <2>2, <3>1, <3>2
  <2>3. CASE pc[s] = "dialing" /\ pc' = [pc EXCEPT ![s] = "failed"] /\ log' = log
    BY <2>1, <2>3
  <2>4. CASE pc[s] = "redialing" /\ pc' = [pc EXCEPT ![s] = "erred"] /\ log' = log
    BY <2>1, <2>4
  <2> QED
    BY <2>2, <2>3, <2>4 DEF AttemptEnd
<1>2. s \in Procs /\ s # Main /\ pc[Main] = "ready"
  BY <1>1, Started, Constants
<1>3. /\ pc' \in [Procs -> PCs] /\ pc'[s] \in {"ok", "open", "failed", "erred"}
      /\ \A q \in Procs : q # s => pc'[q] = pc[q]
  BY <1>1, <1>2 DEF Types, PCs
<1>4. /\ log' \in Seq(Reports) /\ Len(log') = Len(log)
      /\ \A j \in 1 .. Len(log) : log'[j].age = log[j].age
  <2>1. log \in Seq(Reports)
    BY DEF Types
  <2> QED
    BY <2>1, <1>1, NotedIs
<1>5. Types'
  BY <1>1, <1>3, <1>4 DEF Types
<1>6. Booting' /\ Locking'
  BY <1>1, <1>2, <1>3, Constants DEF Booting, Locking
<1>7. Logging'
  BY <1>4 DEF Logging
<1>8. Recent'
  BY <1>1, <1>4 DEF Recent
<1> QED
  BY <1>5, <1>6, <1>7, <1>8

LEMMA TickStep ==
    ASSUME IInv, Tick
    PROVE  IInv'
<1> USE DEF IInv
<1>1. /\ pc' = [p \in Procs |-> IF pc[p] = "rested" THEN "idle" ELSE pc[p]]
      /\ left' = [p \in Procs |-> Minus(left[p])]
      /\ rest' = [i \in Servers |-> Minus(rest[i])]
      /\ age' = IF fails = 0 \/ age > FailWindow THEN age ELSE age + 1
      /\ UNCHANGED <<health, cur, fails, lock, todo, active, link, fate>>
  BY DEF Tick
<1>2. PICK n \in 0 .. Len(log) :
        /\ \A j \in DOMAIN log : log[j].age < FailWindow <=> j > n
        /\ log' = [j \in 1 .. Len(log) - n |-> [log[j + n] EXCEPT !.age = @ + 1]]
  BY DEF Tick
<1>3. log \in Seq(Reports) /\ Len(log) \in Nat /\ DOMAIN log = 1 .. Len(log)
      /\ FailWindow \in Nat /\ FailThreshold \in Nat \ {0} /\ fails \in Nat /\ age \in 0 .. FailWindow + 1
  BY Constants, LenProperties DEF Types
<1>4. /\ log' \in Seq(Reports) /\ Len(log') = Len(log) - n
      /\ \A j \in 1 .. Len(log') : j + n \in 1 .. Len(log) /\ log'[j].age = log[j + n].age + 1
  BY <1>2, <1>3, AgedIs
<1>5. \A j \in 1 .. Len(log) : log[j].age \in Int
  BY <1>3, ReportsType
<1>6. Types'
  <2>1. \A a \in Nat : \A x \in 0 .. a : Minus(x) \in 0 .. a
    BY DEF Minus
  <2>2. left' \in [Procs -> 0 .. DialTimeout] /\ rest' \in [Servers -> 0 .. Cooldown]
    BY <2>1, <1>1, Constants DEF Types
  <2>3. pc' \in [Procs -> PCs]
    BY <1>1 DEF Types, PCs
  <2>4. age' \in 0 .. FailWindow + 1
    BY <1>1, <1>3
  <2> QED
    BY <2>2, <2>3, <2>4, <1>1, <1>4 DEF Types
<1>7. \A p \in Procs : pc'[p] = IF pc[p] = "rested" THEN "idle" ELSE pc[p]
  BY <1>1
<1>8. Booting'
  <2>1. ASSUME pc'[Main] # "ready"
        PROVE  fails' = 0 /\ log' = <<>> /\ \A s \in Sessions : pc'[s] = "idle"
    <3>1. pc[Main] # "ready"
      BY <2>1, <1>7, Constants
    <3>2. fails = 0 /\ Len(log) = 0 /\ \A s \in Sessions : pc[s] = "idle"
      BY <3>1, <1>3, EmptySeq DEF Booting
    <3>3. log' = <<>>
      BY <3>2, <1>2, <1>3, <1>4, EmptySeq
    <3> QED
      BY <3>2, <3>3, <1>1, <1>7, Constants
  <2> QED
    BY <2>1 DEF Booting
<1>9. Locking'
  BY <1>1, <1>7 DEF Locking
<1>10. Logging'
  <2>1. Len(log') <= FailThreshold
    BY <1>3, <1>4 DEF Logging
  <2>2. ASSUME NEW j \in 1 .. Len(log'), NEW k \in 1 .. Len(log'), j < k
        PROVE  log'[j].age >= log'[k].age
    <3>1. j + n \in 1 .. Len(log) /\ k + n \in 1 .. Len(log) /\ j + n < k + n
      BY <2>2, <1>3, <1>4
    <3>2. log[j + n].age >= log[k + n].age
      BY <3>1 DEF Logging
    <3>3. log'[j].age = log[j + n].age + 1 /\ log'[k].age = log[k + n].age + 1
      BY <1>4
    <3>4. log[j + n].age \in Int /\ log[k + n].age \in Int
      BY <3>1, <1>5
    <3>5. \A x, y \in Int : x >= y => x + 1 >= y + 1
      OBVIOUS
    <3>6. log[j + n].age + 1 >= log[k + n].age + 1
      BY <3>2, <3>4, <3>5
    <3> QED
      BY <3>3, <3>6
  <2> QED
    BY <2>1, <2>2 DEF Logging
<1>11. Recent'
  <2> SUFFICES ASSUME fails > 0, age' <= FailWindow
               PROVE  /\ Len(log') >= fails
                      /\ \A j \in 1 .. Len(log') : j > Len(log') - fails => log'[j].age <= age'
    BY <1>1 DEF Recent
  <2>1. age' = age + 1 /\ age < FailWindow
    BY <1>1, <1>3
  <2>2. Len(log) >= fails /\ \A j \in 1 .. Len(log) : j > Len(log) - fails => log[j].age <= age
    BY <2>1, <1>3 DEF Recent
  <2>3. n <= Len(log) - fails
    <3> SUFFICES ASSUME n > Len(log) - fails
                 PROVE  FALSE
      BY <1>3
    <3>1. n \in 1 .. Len(log)
      BY <2>2, <1>3
    <3>2. log[n].age <= age /\ ~ (log[n].age < FailWindow)
      BY <3>1, <2>2, <1>2, <1>3
    <3> QED
      BY <3>1, <3>2, <2>1, <1>3, <1>5
  <2>4. ASSUME NEW j \in 1 .. Len(log'), j > Len(log') - fails
        PROVE  log'[j].age <= age'
    <3>1. j + n \in 1 .. Len(log) /\ j + n > Len(log) - fails
      BY <2>4, <1>3, <1>4
    <3>2. log[j + n].age <= age
      BY <3>1, <2>2
    <3> QED
      BY <3>1, <3>2, <2>1, <1>3, <1>4, <1>5
  <2> QED
    BY <2>3, <2>4, <1>3, <1>4
<1> QED
  BY <1>6, <1>8, <1>9, <1>10, <1>11

-----------------------------------------------------------------------------
(* The theorems.                                                           *)

LEMMA Initially == Init => IInv
<1> SUFFICES ASSUME Init
             PROVE  IInv
  OBVIOUS
<1>1. Types
  <2>1. /\ 0 \in 0 .. N /\ 0 \in 0 .. Cooldown /\ 0 \in 0 .. FailThreshold - 1
        /\ 0 \in 0 .. FailWindow + 1 /\ 0 \in 0 .. DialTimeout
    BY Constants
  <2>2. <<>> \in Seq(Reports)
    OBVIOUS
  <2>3. pc \in [Procs -> PCs]
    BY DEF Init, PCs
  <2> QED
    BY <2>1, <2>2, <2>3 DEF Init, Types
<1>2. \A p \in Procs : pc[p] = IF p = Main THEN "boot" ELSE "idle"
  BY DEF Init
<1>3. Booting /\ Locking
  BY <1>2, Constants DEF Init, Booting, Locking
<1>4. Logging /\ Recent
  <2>1. Len(log) = 0 /\ fails = 0
    BY DEF Init
  <2> QED
    BY <2>1, Constants DEF Logging, Recent
<1> QED
  BY <1>1, <1>3, <1>4 DEF IInv

LEMMA Inductive ==
    ASSUME IInv, [Next]_vars
    PROVE  IInv'
<1>1. CASE UNCHANGED vars
  BY <1>1 DEF vars, pool, local, IInv, Types, Booting, Locking, Logging, Recent
<1>2. CASE \E i \in Servers, h \in Health : Change(i, h)
  BY <1>2, ChangeStep
<1>3. ASSUME NEW p \in Procs, Step(p)
      PROVE  IInv'
  BY <1>3, ProbeStartStep, ProbeEndStep, UseStep DEF Step
<1>4. CASE Boot \/ Step(Main) \/ Tick
  BY <1>3, <1>4, BootStep, TickStep, Constants
<1>5. CASE \E s \in Sessions : Begin(s) \/ FailedOn(s) \/ OK(s) \/ SessionStep(s)
  BY <1>3, <1>5, BeginStep, FailedOnStep, OKStep, RedialStep, AttemptEndStep, ReturnStep, Constants
     DEF SessionStep
<1> QED
  BY <1>1, <1>2, <1>4, <1>5 DEF Next

LEMMA Invariant == Spec => []IInv
<1>1. IInv /\ [Next]_vars => IInv'
  BY Inductive
<1> QED
  BY <1>1, Initially, PTL DEF Spec

\* The types; the count of failures stays below the threshold.
THEOREM FailoverTypes == Spec => []TypeOK
<1>1. IInv => TypeOK
  BY DEF IInv, Types, Logging, Reports, TypeOK
<1> QED
  BY <1>1, Invariant, PTL

\* The pool gives a server up only after FailThreshold reports about that very
\* server within the window, with no OK between them, whatever sessions report
\* in what order and whenever the current server changes in between.
THEOREM FailoverJustified == Spec => SwitchJustified
<1>1. ASSUME IInv, [Next]_vars, NEW s \in Sessions, pc[s] = "failed", pc'[s] = "pick"
      PROVE  Len(log') = FailThreshold
  <2>0. s \in Procs /\ s # Main /\ pc \in [Procs -> PCs]
    BY <1>1, Constants DEF IInv, Types
  <2>1. pc'[s] # pc[s]
    BY <1>1
  <2>2. CASE UNCHANGED pc
    BY <2>1, <2>2
  <2>3. CASE Boot \/ Tick
    BY <2>0, <2>1, <2>3, <1>1 DEF Boot, Tick
  <2>4. CASE Step(Main)
    BY <2>0, <2>1, <2>4 DEF Step, ProbeStart, ProbeEnd, Choose, Continue, GiveUp, Use
  <2>5. ASSUME NEW t \in Sessions, Begin(t) \/ FailedOn(t) \/ OK(t) \/ SessionStep(t), t # s
        PROVE  FALSE
    <3>1. t \in Procs /\ \A x : [pc EXCEPT ![t] = x][s] = pc[s]
      BY <2>0, <2>5, Constants
    <3>2. \E x : pc' = [pc EXCEPT ![t] = x]
      BY <2>5 DEF Begin, Attempt, FailedOn, OK, SessionStep, Step, ProbeStart, ProbeEnd, Choose,
                  Continue, GiveUp, Use, Redial, AttemptEnd, Return
    <3> QED
      BY <3>1, <3>2, <2>1
  <2>6. CASE FailedOn(s)
    BY <2>6, <1>1, FailedOnStep
  <2>7. CASE Begin(s) \/ OK(s) \/ SessionStep(s)
    BY <2>7, <1>1 DEF Begin, OK, SessionStep, Step, ProbeStart, ProbeEnd, Use, Redial, AttemptEnd, Return
  <2>8. CASE UNCHANGED vars \/ \E i \in Servers, h \in Health : Change(i, h)
    BY <2>2, <2>8 DEF vars, local, Change
  <2> QED
    BY <2>3, <2>4, <2>5, <2>6, <2>7, <2>8, <1>1 DEF Next
<1>2. IInv /\ [Next]_vars =>
        [\A s \in Sessions : pc[s] = "failed" /\ pc'[s] = "pick" => Len(log') = FailThreshold]_vars
  BY <1>1
<1> QED
  BY <1>2, Invariant, PTL DEF Spec, SwitchJustified
=============================================================================
