-------------------------------- MODULE Relay --------------------------------
(***************************************************************************)
(* A session once it is open: the program of the user, the SOCKS server of *)
(* sunfire, sunfired, and the target.  Both sides run splice, two copying  *)
(* goroutines that pass on data and the end of the data (cmd/sunfired and  *)
(* internal/socks have the same splice and pipe).                          *)
(*                                                                         *)
(*   user  --local--  client  --gate--  server  --remote--  target         *)
(*                                                                         *)
(* Each link carries two channels, up and down.  The gate is a tcp         *)
(* connection, or a stripe: Stripe models how it works inside, here it is  *)
(* a channel whose CloseWrite waits and which may lose one of its          *)
(* connections; or it is a KCP session over udp, which tells the other end *)
(* nothing of a Close and knows no half-close.  A channel counts what is   *)
(* in it, buffers of the system and queues included: the order is          *)
(* StreamSpec's, and TCP's and KCP's.                                      *)
(***************************************************************************)
EXTENDS Naturals, Sequences

CONSTANTS
    Total,   \* Total[g]: chunks program g may send
    Cap,     \* chunks a channel holds before a write blocks
    Gates,   \* kinds of gate: "tcp", "stripe", "udp"
    Lossy    \* may the gate lose a connection?

ASSUME RelayAssumption ==
    /\ Total \in [{"user", "target"} -> Nat] /\ Cap \in Nat \ {0}
    /\ Gates \subseteq {"tcp", "stripe", "udp"} /\ Gates # {} /\ Lossy \in BOOLEAN

Links == {"local", "gate", "remote"}
Dirs == {"up", "down"}
Channels == Links \X Dirs
Sides == {"client", "server"}
Pipes == Sides \X Dirs
Programs == {"user", "target"}

VARIABLES
    gate,     \* what the gate is made of
    data,     \* of each channel: the chunks in it
    end,      \* open; fin: the writer has ended it; cut: one connection of the
              \* stripe is lost; lost: closed by the reader or reset
    run,      \* of each side: the server dials, then splice, then the two
              \* Closes; refused: the server has closed without a target
    pipe,     \* of each copying goroutine: where it is
    phase,    \* of each program: open, half closed, closed
    sent, rcvd, \* of each program: chunks
    told      \* of each program: how its reading ended

network == <<data, end>>
programs == <<phase, sent, rcvd, told>>
vars == <<gate, network, run, pipe, programs>>

TypeOK ==
    /\ gate \in Gates
    /\ data \in [Channels -> 0 .. Cap]
    /\ end \in [Channels -> {"open", "fin", "cut", "lost"}]
    /\ run \in [Sides -> {"dial", "splice", "closing", "closed", "refused"}]
    /\ pipe \in [Pipes -> {"read", "write", "end", "done"}]
    /\ phase \in [Programs -> {"open", "half", "closed"}]
    /\ sent["user"] \in 0 .. Total["user"] /\ rcvd["target"] \in 0 .. sent["user"]
    /\ sent["target"] \in 0 .. Total["target"] /\ rcvd["user"] \in 0 .. sent["target"]
    /\ told \in [Programs -> {"none", "EOF", "error"}]

Init ==
    /\ gate \in Gates
    /\ data = [c \in Channels |-> 0]
    /\ end = [c \in Channels |-> "open"]
    /\ run = [s \in Sides |-> IF s = "server" THEN "dial" ELSE "splice"]
    /\ pipe = [p \in Pipes |-> "read"]
    /\ phase = [g \in Programs |-> "open"]
    /\ sent = [g \in Programs |-> 0] /\ rcvd = [g \in Programs |-> 0]
    /\ told = [g \in Programs |-> "none"]

-----------------------------------------------------------------------------
(* Channels.                                                               *)

\* The links of a side, the one towards the user first.
Near(s) == IF s = "client" THEN "local" ELSE "gate"
Far(s) == IF s = "client" THEN "gate" ELSE "remote"

Src(p) == <<IF p[2] = "up" THEN Near(p[1]) ELSE Far(p[1]), p[2]>>
Dst(p) == <<IF p[2] = "up" THEN Far(p[1]) ELSE Near(p[1]), p[2]>>

Out(g) == IF g = "user" THEN <<"local", "up">> ELSE <<"remote", "down">>
In(g) == IF g = "user" THEN <<"local", "down">> ELSE <<"remote", "up">>

\* Everything the writer of c has sent was read, and that was the end of it.
Over(c) == end[c] = "fin" /\ data[c] = 0

\* Something got lost: a connection, or the session as a whole.
Torn == run["server"] = "refused" \/ \E c \in Channels : end[c] \in {"cut", "lost"}

\* One end closes a link on which it writes to o and reads from i.  What it
\* has written still arrives, unless it leaves something unread or the other
\* end goes on writing: then the connection is reset and any part is lost.
HangupTcp(o, i) ==
    LET left == IF Over(i) THEN "fin" ELSE "lost" IN
    \/ /\ end[o] \in {"open", "fin"}
       /\ end' = [end EXCEPT ![o] = "fin", ![i] = left]
       /\ data' = [data EXCEPT ![i] = 0]
    \/ /\ end[o] \in {"cut", "lost"} \/ ~Over(i)
       /\ end' = [end EXCEPT ![o] = "lost", ![i] = left]
       /\ \E n \in 0 .. data[o] : data' = [data EXCEPT ![o] = n, ![i] = 0]

\* Close of a KCP session: the last of what was written may not be sent again
\* if it is lost, and the other end sees a link on which nothing happens.
HangupUdp(o) ==
    /\ \E n \in 0 .. data[o] : data' = [data EXCEPT ![o] = n]
    /\ UNCHANGED end

Mute(l) == l = "gate" /\ gate = "udp"
Hangup(o, i) == IF Mute(o[1]) THEN HangupUdp(o) ELSE HangupTcp(o, i)

-----------------------------------------------------------------------------
(* The programs at both ends.                                              *)

\* There is a target once the server has dialled it.
Connected(g) == g = "user" \/ run["server"] \notin {"dial", "refused"}

Send(g) ==
    /\ Connected(g) /\ phase[g] = "open" /\ sent[g] < Total[g]
    /\ end[Out(g)] = "open" /\ data[Out(g)] < Cap
    /\ data' = [data EXCEPT ![Out(g)] = @ + 1]
    /\ sent' = [sent EXCEPT ![g] = @ + 1]
    /\ UNCHANGED <<gate, end, run, pipe, phase, rcvd, told>>

Shutdown(g) ==
    /\ Connected(g) /\ phase[g] = "open"
    /\ phase' = [phase EXCEPT ![g] = "half"]
    /\ end' = [end EXCEPT ![Out(g)] = IF @ = "open" THEN "fin" ELSE @]
    /\ UNCHANGED <<gate, data, run, pipe, sent, rcvd, told>>

Receive(g) ==
    /\ Connected(g) /\ phase[g] # "closed" /\ told[g] = "none"
    /\ \/ /\ data[In(g)] > 0
          /\ data' = [data EXCEPT ![In(g)] = @ - 1]
          /\ rcvd' = [rcvd EXCEPT ![g] = @ + 1]
          /\ UNCHANGED told
       \/ /\ data[In(g)] = 0 /\ end[In(g)] \in {"fin", "lost"}
          /\ told' = [told EXCEPT ![g] = IF end[In(g)] = "fin" THEN "EOF" ELSE "error"]
          /\ UNCHANGED <<data, rcvd>>
    /\ UNCHANGED <<gate, end, run, pipe, phase, sent>>

\* A program closes its connection, perhaps before it was told the end.
Close(g) ==
    /\ Connected(g) /\ phase[g] # "closed"
    /\ phase' = [phase EXCEPT ![g] = "closed"]
    /\ Hangup(Out(g), In(g))
    /\ UNCHANGED <<gate, run, pipe, sent, rcvd, told>>

-----------------------------------------------------------------------------
(* The gate.                                                               *)

\* A stripe loses one of its connections.
Cut ==
    /\ Lossy /\ gate = "stripe"
    /\ end' = [c \in Channels |->
                IF c[1] = "gate" /\ end[c] \in {"open", "fin"} THEN "cut" ELSE end[c]]
    /\ UNCHANGED <<gate, data, run, pipe, programs>>

\* The only connection is reset.
Reset ==
    /\ Lossy /\ gate = "tcp"
    /\ end' = [c \in Channels |-> IF c[1] = "gate" THEN "lost" ELSE end[c]]
    /\ data' = [c \in Channels |-> IF c[1] = "gate" THEN 0 ELSE data[c]]
    /\ UNCHANGED <<gate, run, pipe, programs>>

-----------------------------------------------------------------------------
(* serveOne, splice and pipe.                                              *)

\* serveOne on the server: the dial to the target succeeds or fails.
DialTarget ==
    /\ run["server"] = "dial"
    /\ run' = [run EXCEPT !["server"] = "splice"]
    /\ UNCHANGED <<gate, network, pipe, programs>>

\* No target: the link to the client is closed.
DialFails ==
    /\ run["server"] = "dial"
    /\ run' = [run EXCEPT !["server"] = "refused"]
    /\ Hangup(<<"gate", "down">>, <<"gate", "up">>)
    /\ UNCHANGED <<gate, pipe, programs>>

\* Mutant of ReadSrc: a chunk that comes together with the end is forgotten.
ReadSrcForgets(p) ==
    /\ run[p[1]] = "splice" /\ pipe[p] = "read"
    /\ data' = [data EXCEPT ![Src(p)] = IF @ = 0 THEN 0 ELSE @ - 1]
    /\ pipe' = [pipe EXCEPT ![p] =
                 IF end[Src(p)] = "open" THEN "write" ELSE "end"]
    /\ data[Src(p)] > 0 \/ end[Src(p)] # "open"
    /\ UNCHANGED <<gate, end, run, programs>>

\* The loop of io.CopyBuffer: a chunk, the end, or an error.  The reader of a
\* stripe that was cut gets what precedes the lost chunk and then an error.
ReadSrc(p) ==
    /\ run[p[1]] = "splice" /\ pipe[p] = "read"
    /\ \/ /\ data[Src(p)] > 0
          /\ data' = [data EXCEPT ![Src(p)] = @ - 1]
          /\ pipe' = [pipe EXCEPT ![p] = "write"]
       \/ /\ \/ data[Src(p)] = 0 /\ end[Src(p)] \in {"fin", "lost"}
             \/ end[Src(p)] = "cut"
          /\ pipe' = [pipe EXCEPT ![p] = "end"]
          /\ UNCHANGED data
    /\ UNCHANGED <<gate, end, run, programs>>

\* Mutant of WriteDst: a chunk is written again.
WriteTwice(p) ==
    /\ pipe[p] = "write"
    /\ \/ /\ end[Dst(p)] \in {"open", "cut"} /\ data[Dst(p)] < Cap
          /\ data' = [data EXCEPT ![Dst(p)] = @ + 1]
          /\ pipe' \in {pipe, [pipe EXCEPT ![p] = "read"]}
       \/ /\ end[Dst(p)] \in {"cut", "lost"}
          /\ pipe' = [pipe EXCEPT ![p] = "end"]
          /\ UNCHANGED data
    /\ UNCHANGED <<gate, end, run, programs>>

\* What was written after the other end had gone may still seem to succeed.
WriteDst(p) ==
    /\ pipe[p] = "write"
    /\ \/ /\ end[Dst(p)] \in {"open", "cut"} /\ data[Dst(p)] < Cap
          /\ data' = [data EXCEPT ![Dst(p)] = @ + 1]
          /\ pipe' = [pipe EXCEPT ![p] = "read"]
       \/ /\ end[Dst(p)] = "lost"
          /\ pipe' = [pipe EXCEPT ![p] = "read"]
          /\ UNCHANGED data
       \/ /\ end[Dst(p)] \in {"cut", "lost"}
          /\ pipe' = [pipe EXCEPT ![p] = "end"]
          /\ UNCHANGED data
    /\ UNCHANGED <<gate, end, run, programs>>

\* The CloseWrite of a stripe has to write markers behind all that is queued,
\* to the connections it still has; that of a tcp connection does not wait.
Waits(p) == gate = "stripe" /\ Dst(p)[1] = "gate" /\ end[Dst(p)] # "lost" /\ data[Dst(p)] = Cap

\* Mutant of CloseWrite: the end is not passed on.
CloseWriteSkipped(p) ==
    /\ pipe[p] = "end" /\ ~Waits(p)
    /\ pipe' = [pipe EXCEPT ![p] = "done"]
    /\ UNCHANGED <<gate, network, run, programs>>

\* The copy is over, whatever ended it: the end travels on, but not over udp
\* ("does without it", halfConn).
CloseWrite(p) ==
    /\ pipe[p] = "end" /\ ~Waits(p)
    /\ pipe' = [pipe EXCEPT ![p] = "done"]
    /\ end' = [end EXCEPT ![Dst(p)] =
                IF @ = "open" /\ ~Mute(Dst(p)[1]) THEN "fin" ELSE @]
    /\ UNCHANGED <<gate, data, run, programs>>

\* Mutant of Spliced: splice waits for one of its goroutines.
SplicedOne(s) == \E d \in Dirs : pipe[<<s, d>>] = "done"

Spliced(s) == \A d \in Dirs : pipe[<<s, d>>] = "done"

\* splice returns and the far connection is closed first, then the near one
\* (the order of the defers in handle and serveOne).
CloseFar(s) ==
    /\ run[s] = "splice" /\ Spliced(s)
    /\ run' = [run EXCEPT ![s] = "closing"]
    /\ Hangup(<<Far(s), "up">>, <<Far(s), "down">>)
    /\ UNCHANGED <<gate, pipe, programs>>

CloseNear(s) ==
    /\ run[s] = "closing"
    /\ run' = [run EXCEPT ![s] = "closed"]
    /\ Hangup(<<Near(s), "down">>, <<Near(s), "up">>)
    /\ UNCHANGED <<gate, pipe, programs>>

PipeStep(p) == ReadSrc(p) \/ WriteDst(p) \/ CloseWrite(p)

\* The goroutine that serves the session, on either side.
SideStep(s) ==
    \/ s = "server" /\ (DialTarget \/ DialFails)
    \/ CloseFar(s) \/ CloseNear(s)

Next ==
    \/ \E g \in Programs : Send(g) \/ Shutdown(g) \/ Receive(g) \/ Close(g)
    \/ Cut \/ Reset
    \/ \E p \in Pipes : PipeStep(p)
    \/ \E s \in Sides : SideStep(s)

\* The goroutines of both sides run; a dial ends by its timeout.
Fairness ==
    /\ \A p \in Pipes : WF_vars(PipeStep(p))
    /\ \A s \in Sides : WF_vars(SideStep(s))

Spec == Init /\ [][Next]_vars
FairSpec == Spec /\ Fairness

\* The programs read, and close once they have been told the end.
ProgramsRead == \A g \in Programs :
    WF_vars(Receive(g) \/ (told[g] # "none" /\ Close(g)))

-----------------------------------------------------------------------------
(* Properties.                                                             *)

\* From one program to the other the relay is a stream: everything in order,
\* and an end that was announced by the writer, after everything it sent,
\* unless a connection was cut, reset or closed too early (splice, pipe and
\* the CloseWrite of halfConn and countConn on both sides).
Up == INSTANCE StreamSpec WITH Total <- Total["user"],
    accepted <- sent["user"], ended <- phase["user"] # "open",
    delivered <- [j \in 1 .. rcvd["target"] |-> j], torn <- Torn, result <- told["target"]
Down == INSTANCE StreamSpec WITH Total <- Total["target"],
    accepted <- sent["target"], ended <- phase["target"] # "open",
    delivered <- [j \in 1 .. rcvd["user"] |-> j], torn <- Torn, result <- told["user"]
RelayIsStream == Up!Spec /\ Down!Spec

\* The relay tears nothing by itself: a side that closes its connections when
\* its two goroutines are done, or passes on an end, destroys no data and cuts
\* no answer short.
RelayTearsNothing ==
    [][(pipe' # pipe \/ \E s \in Sides : run[s] = "splice" /\ run'[s] = "closing")
        /\ ~Torn => ~Torn']_vars

\* When one of the programs has closed its connection, both sides come to
\* their end, and with the server's the seat: no goroutine and no place is
\* kept by a session nobody takes part in.
SessionEnds == ProgramsRead =>
    ((\E g \in Programs : phase[g] = "closed")
        ~> (\A s \in Sides : run[s] \in {"closed", "refused"}))

\* The same where the gate is not udp, no connection of a stripe is lost and
\* one of the programs, whichever, reads to the end: the other may go at any
\* moment.
SessionEndsForOne ==
    /\ gate # "udp" /\ [](\A c \in Channels : end[c] # "cut")
    /\ \E g \in Programs : [](phase[g] = "closed" => told[g] # "none")
    => SessionEnds

\* "Without it the end of the stream does not reach the other side and the
\* connections hang" (CloseWrite of counted and countConn): when a program has
\* ended its side of a session that nothing tears, the other is told.
Learns(g) == told[g] # "none" \/ phase[g] = "closed"
EndReaches == ProgramsRead /\ []~Torn =>
    /\ phase["target"] = "half" ~> Learns("user")
    /\ phase["user"] = "half" /\ Connected("target") ~> Learns("target")
=============================================================================
