------------------------------- MODULE Socks -------------------------------
(***************************************************************************)
(* The SOCKS front end of the client (internal/socks): a handler for every *)
(* local connection, and the dialer behind it, which counts the session    *)
(* (cmd/sunfire: DialTarget, counted).  The deadline of thirty seconds is  *)
(* set before the greeting and lifted before the splice, so that it runs   *)
(* while DialTarget, which knows nothing of it, may take longer.           *)
(***************************************************************************)
EXTENDS Stats, Sequences

VARIABLES
    pc,         \* of each handler: none, greet, request, dial, register,
                \* reply, lift, splice, hang (Close), done
    deadline,   \* of its connection: set, passed, off
    dst,        \* the stream through the gateway: none, open, closed
    replies     \* codes the program was sent

handlers == <<pc, deadline, dst, replies>>
vars == <<statsVars, handlers>>

Codes == {"OK", "refused", "unsupported"}

SocksTypeOK ==
    /\ StatsTypeOK
    /\ pc \in [Conns -> {"none", "greet", "request", "dial", "register", "reply",
                         "lift", "splice", "hang", "done"}]
    /\ deadline \in [Conns -> {"set", "passed", "off"}]
    /\ dst \in [Conns -> {"none", "open", "closed"}]
    /\ \A c \in Conns : replies[c] \in Seq(Codes)

Init ==
    /\ StatsInit
    /\ pc = [c \in Conns |-> "none"] /\ deadline = [c \in Conns |-> "off"]
    /\ dst = [c \in Conns |-> "none"]
    /\ replies = [c \in Conns |-> <<>>]

Goes(c, to) == pc' = [pc EXCEPT ![c] = to]

\* After the deadline nothing can be read or written.
InTime(c) == deadline[c] # "passed"

-----------------------------------------------------------------------------

\* Mutant of Serve: no deadline.
ServeUntimed(c) ==
    /\ pc[c] = "none" /\ Goes(c, "greet")
    /\ UNCHANGED <<deadline, dst, replies, statsVars>>

Serve(c) ==
    /\ pc[c] = "none" /\ Goes(c, "greet")
    /\ deadline' = [deadline EXCEPT ![c] = "set"]
    /\ UNCHANGED <<dst, replies, statsVars>>

\* Not version 5, or the answer cannot be written: the end.
Greet(c) ==
    /\ pc[c] = "greet" /\ InTime(c)
    /\ Goes(c, "request") \/ Goes(c, "done")
    /\ UNCHANGED <<deadline, dst, replies, statsVars>>

reply(c, code) == replies' = [replies EXCEPT ![c] = Append(@, code)]

readRequest(c) ==
    /\ pc[c] = "request" /\ InTime(c)
    /\ \/ Goes(c, "dial") /\ UNCHANGED replies
       \/ Goes(c, "done") /\ (reply(c, "unsupported") \/ UNCHANGED replies)
    /\ UNCHANGED <<deadline, dst, statsVars>>

\* A read ends with an error: the program said too little in time, or has gone.
NotRead(c) ==
    /\ pc[c] \in {"greet", "request"} /\ Goes(c, "done")
    /\ UNCHANGED <<deadline, dst, replies, statsVars>>
ReadTimesOut(c) == ~ InTime(c) /\ NotRead(c)

\* DialTarget returns, whenever it does.
Dialled(c) ==
    /\ pc[c] = "dial"
    /\ \/ /\ Goes(c, "register") /\ dst' = [dst EXCEPT ![c] = "open"]
          /\ UNCHANGED replies
       \/ /\ Goes(c, "done") /\ UNCHANGED dst
          /\ (InTime(c) /\ reply(c, "refused")) \/ UNCHANGED replies
    /\ UNCHANGED <<deadline, statsVars>>

\* The end of DialTarget: reg.Open(host).
Register(c) ==
    /\ pc[c] = "register"
    /\ \/ /\ \/ \E n \in Names : Lookup(c, n)
             \/ Create(c) \/ AddConns(c)
          /\ UNCHANGED pc
       \/ AddTotal(c) /\ Goes(c, "reply")
    /\ UNCHANGED <<deadline, dst, replies>>

\* Mutant of replyOK: the answer fails and dst.Close is forgotten.
replyLeaks(c) ==
    /\ pc[c] = "reply"
    /\ \/ InTime(c) /\ reply(c, "OK") /\ Goes(c, "lift")
       \/ Goes(c, "done") /\ UNCHANGED replies
    /\ UNCHANGED <<deadline, dst, statsVars>>

replyOK(c) ==
    /\ pc[c] = "reply"
    /\ \/ InTime(c) /\ reply(c, "OK") /\ Goes(c, "lift")
       \/ Goes(c, "hang") /\ UNCHANGED replies
    /\ UNCHANGED <<deadline, dst, statsVars>>

\* SetDeadline(time.Time{}) also undoes one that has just passed.
Lift(c) ==
    /\ pc[c] = "lift" /\ Goes(c, "splice")
    /\ deadline' = [deadline EXCEPT ![c] = "off"]
    /\ UNCHANGED <<dst, replies, statsVars>>

\* The splice itself is in Relay.  It goes on as long as both sides like, or
\* until the connection below it fails.
SpliceEnds(c) ==
    /\ pc[c] = "splice" /\ Goes(c, "hang")
    /\ UNCHANGED <<deadline, dst, replies, statsVars>>

\* The deferred closes: counted.Close, then the connection.
Hang(c) ==
    /\ pc[c] = "hang" /\ Goes(c, "done")
    /\ dst' = [dst EXCEPT ![c] = "closed"]
    /\ Close(c)
    /\ UNCHANGED <<deadline, replies>>

-----------------------------------------------------------------------------
(* The program, the clock, the monitor.                                     *)

Leaves(c) == NotRead(c)

Expires(c) ==
    /\ deadline[c] = "set" /\ pc[c] \notin {"hang", "done"}
    /\ deadline' = [deadline EXCEPT ![c] = "passed"]
    /\ UNCHANGED <<pc, dst, replies, statsVars>>

Transfers(c) == pc[c] = "splice" /\ Traffic(c) /\ UNCHANGED handlers

Monitor == Snapshot /\ UNCHANGED handlers

\* What a handler does of itself.
GoesOn(c) ==
    \/ ReadTimesOut(c) \/ Dialled(c) \/ replyOK(c) \/ Lift(c) \/ Hang(c)

Next ==
    \/ \E c \in Conns :
        \/ Serve(c) \/ Greet(c) \/ readRequest(c) \/ Register(c)
        \/ GoesOn(c) \/ SpliceEnds(c)
        \/ Leaves(c) \/ Expires(c) \/ Transfers(c)
    \/ Monitor

Spec == Init /\ [][Next]_vars

\* Time passes, DialTarget returns (it has timeouts of its own), snapshots
\* come to an end.  A Lock that waits lets no new RLock pass, so that Open
\* gets it in the end.  Nothing is assumed of the programs.
Fairness ==
    /\ \A c \in Conns : /\ WF_vars(Expires(c)) /\ WF_vars(GoesOn(c))
                         /\ SF_vars(Register(c))
    /\ WF_vars(Monitor)

FairSpec == Spec /\ Fairness

-----------------------------------------------------------------------------
(* Properties.                                                              *)

\* Whatever a handler met on its way, and when: a stream through the gateway
\* that DialTarget has opened, late ones included, is closed and taken from
\* the counters before the handler is done; the program gets one answer at
\* most, OK only with a stream; a session that is spliced has no deadline.
Tidy ==
    \A c \in Conns :
        /\ pc[c] = "done" => dst[c] # "open" /\ st[c] \in {"none", "closed"}
        /\ Len(replies[c]) <= 1
        /\ replies[c] = <<"OK">> => dst[c] # "none"
        /\ pc[c] = "splice" => /\ replies[c] = <<"OK">> /\ deadline[c] = "off"
                               /\ dst[c] = "open" /\ st[c] = "open"

\* A program that says nothing, or too little, does not hold its handler.
HandshakeEnds ==
    \A c \in Conns : pc[c] # "none" ~> pc[c] \in {"splice", "hang", "done"}
=============================================================================
