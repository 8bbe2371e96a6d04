------------------------------ MODULE Failover ------------------------------
(***************************************************************************)
(* How sunfire chooses its server: failover.Pool, whose operations run     *)
(* under one mutex, probes included, and gwDialer of cmd/sunfire/main.go,  *)
(* which keeps a link of its own and feeds the pool with what it sees.     *)
(*                                                                         *)
(* Every SOCKS session calls DialTarget from its own goroutine.  Steps of  *)
(* the program take no time; what takes time is a dial or a probe that     *)
(* runs into its timeout.  One Tick is ten seconds: dialTimeout is 1,      *)
(* failWindow 2, cooldown 6.                                               *)
(***************************************************************************)
EXTENDS Integers, Sequences, FiniteSetsExt

CONSTANTS
    Sessions,       \* goroutines of the SOCKS server
    Main,           \* run(), which picks the first server
    N,              \* number of servers; the list is 1 .. N
    FailThreshold, FailWindow, Cooldown, DialTimeout,
    Outages,        \* how a server may be down: refusing connections, silent
    Loss,           \* what may be lost on the way to a healthy server
    Datagram,       \* transport udp: Dial sends a frame and waits for nothing
    Busy,           \* does every user connect again within a tick?
    Unstable,       \* may servers change after the start?
    None

Servers == 1 .. N
Procs == Sessions \cup {Main}
Health == {"up"} \cup Outages

ASSUME FailoverAssumption ==
    /\ N \in Nat \ {0} /\ Main \notin Sessions /\ None \notin Procs
    /\ FailThreshold \in Nat \ {0} /\ Cooldown \in Nat \ {0}
    /\ FailWindow \in Nat /\ DialTimeout \in Nat
    /\ Outages \subseteq {"refusing", "silent"} /\ Loss \subseteq {"dial", "probe"}
    /\ {Datagram, Busy, Unstable} \subseteq BOOLEAN

VARIABLES
    health,   \* of each server: it answers, refuses connections, or is silent
    cur,      \* Pool.cur, 0 when none is chosen
    rest,     \* Pool.until: ticks until a server counts as healthy again
    fails,    \* Pool.fails
    age,      \* ticks since Pool.firstBad; 0 while fails is 0
    lock,     \* who holds Pool.mu
    todo,     \* the candidates pick has not probed yet; it takes the first
    active,   \* gwDialer.cur
    pc, link, \* per goroutine: where it is, the server it dials or reports
    fate,     \* how its dial or probe will end
    left,     \* ticks until it does
    log       \* history: the reports about cur within failWindow and since
              \* the last OK; ok: a connection to cur has succeeded since

pool == <<cur, rest, fails, age>>
local == <<pc, link, fate, left>>
vars == <<health, pool, lock, todo, active, local, log>>

PCs == {"boot", "ready", "exit", "idle", "dialing", "ok", "failed", "pick",
        "probing", "use", "redial", "redialing", "erred", "open", "rested"}

TypeOK ==
    /\ health \in [Servers -> Health]
    /\ cur \in 0 .. N /\ active \in 0 .. N
    /\ rest \in [Servers -> 0 .. Cooldown]
    /\ fails \in 0 .. FailThreshold - 1 /\ age \in 0 .. FailWindow + 1
    /\ lock \in Procs \cup {None}
    /\ todo \subseteq Servers
    /\ pc \in [Procs -> PCs]
    /\ link \in [Procs -> 0 .. N]
    /\ fate \in [Procs -> {"ok", "fail"}]
    /\ left \in [Procs -> 0 .. DialTimeout]
    /\ log \in Seq([age : 0 .. FailWindow, ok : BOOLEAN]) /\ Len(log) <= FailThreshold

Init ==
    /\ health \in [Servers -> Health]
    /\ cur = 0 /\ active = 0 /\ fails = 0 /\ age = 0
    /\ rest = [i \in Servers |-> 0]
    /\ lock = None /\ todo = {}
    /\ pc = [p \in Procs |-> IF p = Main THEN "boot" ELSE "idle"]
    /\ link = [p \in Procs |-> 0]
    /\ fate = [p \in Procs |-> "ok"]
    /\ left = [p \in Procs |-> 0]
    /\ log = <<>>

-----------------------------------------------------------------------------
(* The network.                                                            *)

\* A server goes down, comes back, or falls silent.
Change(i, h) ==
    /\ Unstable /\ health[i] # h
    /\ health' = [health EXCEPT ![i] = h]
    /\ UNCHANGED <<pool, lock, todo, active, local, log>>

\* How an exchange with server i, a dial or a probe, ends and how long it takes.
Exchange(what, i, f, t) ==
    \/ health[i] = "up" /\ f = "ok" /\ t = 0
    \/ health[i] = "up" /\ what \in Loss /\ f = "fail" /\ t = DialTimeout
    \/ health[i] = "refusing" /\ f = "fail" /\ t = 0
    \/ health[i] = "silent" /\ f = "fail" /\ t = DialTimeout

Dial(i, f, t) == IF Datagram THEN f = "ok" /\ t = 0 ELSE Exchange("dial", i, f, t)

-----------------------------------------------------------------------------
(* Pool: pick, failed and OK.                                              *)

\* candidates: the healthy servers, or all of them.
Candidates(r) ==
    LET live == {i \in Servers : r[i] = 0}
    IN  IF live = {} THEN Servers ELSE live

\* pick goes through them in the order of the list.
Candidate == Min(todo)
Others == todo \ {Candidate}

\* Mutant of Fresh: the window is forgotten.
FreshEver == fails = 0

\* A failure older than the window starts a new run of failures.
Fresh == fails = 0 \/ age > FailWindow
FailCount == IF Fresh THEN 1 ELSE fails + 1

\* Mutant of Enough: one failure more.
EnoughLate == FailCount > FailThreshold

\* Is the run of failures long enough to give the server up?
Enough == FailCount >= FailThreshold

\* History: the last FailThreshold reports.
Logged == LET l == Append(log, [age |-> 0, ok |-> FALSE])
          IN  IF Len(l) > FailThreshold THEN Tail(l) ELSE l

\* Pick, called once by run.
Boot ==
    /\ pc[Main] = "boot" /\ lock = None
    /\ lock' = Main
    /\ todo' = Candidates(rest)
    /\ pc' = [pc EXCEPT ![Main] = "pick"]
    /\ UNCHANGED <<health, pool, active, link, fate, left, log>>

\* FailedOn, up to the first probe.
FailedOn(s) ==
    /\ pc[s] = "failed" /\ lock = None
    /\ \/ /\ cur # link[s]
          /\ pc' = [pc EXCEPT ![s] = "use"]
          /\ link' = [link EXCEPT ![s] = cur]
          /\ UNCHANGED <<pool, lock, todo, log>>
       \/ /\ cur = link[s] /\ ~Enough
          /\ fails' = FailCount
          /\ age' = IF Fresh THEN 0 ELSE age
          /\ log' = Logged
          /\ pc' = [pc EXCEPT ![s] = "use"]
          /\ UNCHANGED <<cur, rest, lock, todo, link>>
       \/ /\ cur = link[s] /\ Enough
          /\ fails' = 0 /\ age' = 0
          /\ log' = Logged
          /\ rest' = [rest EXCEPT ![cur] = Cooldown]
          /\ todo' = Candidates(rest')
          /\ lock' = s
          /\ pc' = [pc EXCEPT ![s] = "pick"]
          /\ UNCHANGED <<cur, link>>
    /\ UNCHANGED <<health, active, fate, left>>

\* The next round of the loop in pick.
ProbeStart(p) ==
    /\ pc[p] = "pick"
    /\ \E f \in {"ok", "fail"}, t \in {0, DialTimeout} :
        /\ Exchange("probe", Candidate, f, t)
        /\ fate' = [fate EXCEPT ![p] = f]
        /\ left' = [left EXCEPT ![p] = t]
    /\ pc' = [pc EXCEPT ![p] = "probing"]
    /\ UNCHANGED <<health, pool, lock, todo, active, link, log>>

\* The first server that answers becomes the current one.
Choose(p) ==
    /\ fate[p] = "ok"
    /\ cur' = Candidate
    /\ rest' = [rest EXCEPT ![Candidate] = 0]
    /\ link' = [link EXCEPT ![p] = Candidate]
    /\ pc' = [pc EXCEPT ![p] = "use"]
    /\ lock' = None /\ todo' = {} /\ log' = <<>>

Refused(p) ==
    /\ fate[p] = "fail"
    /\ rest' = [rest EXCEPT ![Candidate] = Cooldown]
    /\ todo' = Others
    /\ UNCHANGED <<cur, link>>

Continue(p) ==
    /\ Refused(p) /\ Others # {}
    /\ pc' = [pc EXCEPT ![p] = "pick"]
    /\ UNCHANGED <<lock, log>>

\* Mutant of GiveUp: the error is returned with the mutex held.
GiveUpHeld(p) ==
    /\ Refused(p) /\ Others = {}
    /\ pc' = [pc EXCEPT ![p] = IF p = Main THEN "exit" ELSE "erred"]
    /\ log' = <<>> /\ UNCHANGED lock

\* No candidate answers: run ends, a session gets an error.
GiveUp(p) ==
    /\ Refused(p) /\ Others = {}
    /\ pc' = [pc EXCEPT ![p] = IF p = Main THEN "exit" ELSE "erred"]
    /\ lock' = None /\ log' = <<>>

ProbeEnd(p) ==
    /\ pc[p] = "probing" /\ left[p] = 0
    /\ Choose(p) \/ Continue(p) \/ GiveUp(p)
    /\ fate' = [fate EXCEPT ![p] = "ok"]
    /\ UNCHANGED <<health, fails, age, active, left>>

OK(s) ==
    /\ pc[s] = "ok" /\ lock = None
    /\ fails' = 0 /\ age' = 0
    /\ log' = <<>>
    /\ pc' = [pc EXCEPT ![s] = "open"]
    /\ UNCHANGED <<health, cur, rest, lock, todo, active, link, fate, left>>

-----------------------------------------------------------------------------
(* gwDialer: DialTarget, next, use.                                        *)

\* active() and the dial to that server, first or second attempt.
Attempt(s, stage) ==
    /\ link' = [link EXCEPT ![s] = active]
    /\ \E f \in {"ok", "fail"}, t \in {0, DialTimeout} :
        /\ Dial(active, f, t)
        /\ fate' = [fate EXCEPT ![s] = f]
        /\ left' = [left EXCEPT ![s] = t]
    /\ pc' = [pc EXCEPT ![s] = stage]
    /\ UNCHANGED <<health, pool, lock, todo, active, log>>

Begin(s) ==
    /\ pc[s] \in {"idle", "rested"} /\ pc[Main] = "ready"
    /\ Attempt(s, "dialing")

\* Mutant of Use: the answer of the pool is not kept by the dialer.
UseOnce(p) ==
    /\ pc[p] = "use"
    /\ active' = IF p = Main THEN link[p] ELSE active
    /\ pc' = [pc EXCEPT ![p] = IF p = Main THEN "ready" ELSE "redial"]
    /\ UNCHANGED <<health, pool, lock, todo, link, fate, left, log>>

\* use: the link of the dialer follows the answer of the pool.
Use(p) ==
    /\ pc[p] = "use"
    /\ active' = link[p]
    /\ pc' = [pc EXCEPT ![p] = IF p = Main THEN "ready" ELSE "redial"]
    /\ UNCHANGED <<health, pool, lock, todo, link, fate, left, log>>

\* next reads the link again: it may be another one by now.
Redial(s) == pc[s] = "redial" /\ Attempt(s, "redialing")

\* The first attempt is reported to the pool, the second one is not.
AttemptEnd(s) ==
    /\ left[s] = 0
    /\ \/ /\ pc[s] \in {"dialing", "redialing"} /\ fate[s] = "ok"
          /\ pc' = [pc EXCEPT ![s] = IF pc[s] = "dialing" THEN "ok" ELSE "open"]
          /\ log' = IF link[s] = cur /\ log # <<>>
                    THEN [log EXCEPT ![Len(log)].ok = TRUE] ELSE log
       \/ /\ pc[s] = "dialing" /\ fate[s] = "fail"
          /\ pc' = [pc EXCEPT ![s] = "failed"]
          /\ UNCHANGED log
       \/ /\ pc[s] = "redialing" /\ fate[s] = "fail"
          /\ pc' = [pc EXCEPT ![s] = "erred"]
          /\ UNCHANGED log
    /\ fate' = [fate EXCEPT ![s] = "ok"]
    /\ UNCHANGED <<health, pool, lock, todo, active, link, left>>

\* The SOCKS session is over: refused, or closed by its user.
Return(s) ==
    /\ pc[s] \in {"erred", "open"}
    /\ pc' = [pc EXCEPT ![s] = IF Busy THEN "rested" ELSE "idle"]
    /\ link' = [link EXCEPT ![s] = 0]
    /\ UNCHANGED <<health, pool, lock, todo, active, fate, left, log>>

-----------------------------------------------------------------------------
(* Time.                                                                   *)

\* p has something to do that takes no time.
Urgent(p) ==
    \/ pc[p] \in {"pick", "use", "redial", "erred"}
    \/ pc[p] \in {"dialing", "redialing", "probing"} /\ left[p] = 0
    \/ pc[p] \in {"boot", "ok", "failed"} /\ lock = None
    \/ Busy /\ pc[p] = "idle" /\ pc[Main] = "ready"

Minus(x) == IF x = 0 THEN 0 ELSE x - 1

Tick ==
    /\ \A p \in Procs : ~Urgent(p)
    /\ pc' = [p \in Procs |-> IF pc[p] = "rested" THEN "idle" ELSE pc[p]]
    /\ left' = [p \in Procs |-> Minus(left[p])]
    /\ rest' = [i \in Servers |-> Minus(rest[i])]
    /\ age' = IF fails = 0 \/ age > FailWindow THEN age ELSE age + 1
    \* the oldest reports are too old now
    /\ \E n \in 0 .. Len(log) :
        /\ \A j \in DOMAIN log : log[j].age < FailWindow <=> j > n
        /\ log' = [j \in 1 .. Len(log) - n |-> [log[j + n] EXCEPT !.age = @ + 1]]
    /\ UNCHANGED <<health, cur, fails, lock, todo, active, link, fate>>

Step(p) == ProbeStart(p) \/ ProbeEnd(p) \/ Use(p)

SessionStep(s) == Step(s) \/ Redial(s) \/ AttemptEnd(s) \/ Return(s)

Next ==
    \/ \E i \in Servers, h \in Health : Change(i, h)
    \/ Boot \/ Step(Main) \/ Tick
    \/ \E s \in Sessions : Begin(s) \/ FailedOn(s) \/ OK(s) \/ SessionStep(s)

\* Goroutines run, the mutex is handed to whoever waits for it long enough,
\* time passes whenever it may again and again, and users go on opening and
\* closing sessions.
Fairness ==
    /\ WF_vars(Boot) /\ WF_vars(Step(Main)) /\ SF_vars(Tick)
    /\ \A s \in Sessions :
        /\ WF_vars(Begin(s)) /\ WF_vars(SessionStep(s))
        /\ SF_vars(FailedOn(s)) /\ SF_vars(OK(s))

Spec == Init /\ [][Next]_vars
FairSpec == Spec /\ Fairness

-----------------------------------------------------------------------------
(* Properties.                                                             *)

\* The pool gives a server up only after FailThreshold reports about that very
\* server within failWindow, with no OK between them, however the reports of
\* several sessions and a switch in between are interleaved (FailedOn, failed).
SwitchJustified == [][\A s \in Sessions :
    pc[s] = "failed" /\ pc'[s] = "pick" => Len(log') = FailThreshold]_vars

\* "Any successful connection breaks the run of failures": the reports that
\* make the pool give a server up have no successful connection between them.
StreakUnbroken == [][\A s \in Sessions :
    pc[s] = "failed" /\ pc'[s] = "pick" =>
        \A j \in 1 .. Len(log') - 1 : ~log'[j].ok]_vars

\* When one server is up for good and the others are down for good, the client
\* ends up on it and stays, whatever was interleaved before: stale answers of
\* the pool, late successes, servers that cool down.  (The link of the dialer
\* and the current server of the pool need not be the same for that.)
FailsOver == \A i \in Servers :
    (/\ <>[](\A j \in Servers : health[j] = "up" <=> j = i)
     /\ [](pc[Main] # "exit"))
        => <>[](active = i)

\* A session that has reported a failure gets its answer: nobody waits for the
\* pool's mutex for ever, although probes run under it.
Answered == \A s \in Sessions : pc[s] = "failed" ~> pc[s] \in {"idle", "rested", "open"}
=============================================================================
