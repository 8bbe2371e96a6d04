------------------------------- MODULE Stripe -------------------------------
(***************************************************************************)
(* internal/stripe: one stream laid out over several connections.  Chunk k *)
(* travels by connection k mod N.  The module follows one direction: the   *)
(* goroutine that writes ("pipe"), the N writer goroutines behind bounded  *)
(* channels, CloseWrite and Close, the connections, and the other side's   *)
(* Read with its drain.                                                    *)
(*                                                                         *)
(* A connection carries whole chunks; 0 is the end marker, and Part is the *)
(* beginning of an item whose rest was never sent.                         *)
(***************************************************************************)
EXTENDS Integers, Sequences

CONSTANTS
    N,         \* connections of the stripe
    Total,     \* chunks the caller may write
    QueueLen,  \* queueLen: chunks a channel holds
    Wire,      \* items a connection holds before a write blocks
    Lossy,     \* may the network reset a connection?
    Hasty      \* may Close be called while the pipe is still writing?

ASSUME StripeAssumption ==
    /\ {N, QueueLen, Wire} \subseteq Nat \ {0} /\ Total \in Nat
    /\ {Lossy, Hasty} \subseteq BOOLEAN

Conns == 0 .. N - 1
Marker == 0
Part == -1
Items == {Part, Marker} \cup 1 .. Total

VARIABLES
    sent,     \* chunks handed to the channels; wpos is sent % N
    pipe,     \* the goroutine that calls Write and then CloseWrite
    shut,     \* closeWrite: wonce, quit closed, channels closed, all waited for
    closer,   \* Close
    chan,     \* the channels
    wr, hold, \* the writers, and the chunk each is writing
    err,      \* s.err is set
    link,     \* a connection is up, closed by its sender, or reset
    wire,     \* what has been sent and not yet read
    got,      \* the chunks Read has returned
    rd,       \* Read: reading, draining, through, closed
    rpos,     \* the connection Read or drain looks at next
    rerr      \* what Read returned at the end

sender == <<sent, pipe, shut, closer>>
writers == <<chan, wr, hold, err>>
net == <<link, wire>>
reader == <<got, rd, rpos, rerr>>
vars == <<sender, writers, net, reader>>

quit == shut # "no"                 \* s.quit is closed
closed == shut \in {"wait", "done"} \* s.closed: so are the channels

TypeOK ==
    /\ sent \in 0 .. Total
    /\ pipe \in {"idle", "send", "half", "wait", "over", "failed"}
    /\ shut \in {"no", "quit", "wait", "done"}
    /\ closer \in {"no", "waiting", "closed", "done"}
    /\ \A i \in Conns :
        /\ chan[i] \in Seq(1 .. Total) /\ Len(chan[i]) <= QueueLen
        /\ wire[i] \in Seq(Items) /\ Len(wire[i]) <= Wire + 1
    /\ wr \in [Conns -> {"range", "write", "broken", "mark", "done"}]
    /\ hold \in [Conns -> 0 .. Total]
    /\ err \in BOOLEAN
    /\ link \in [Conns -> {"up", "fin", "reset"}]
    /\ got \in Seq(Items) /\ Len(got) <= Total
    /\ rd \in {"read", "drain", "ended", "closed"}
    /\ rpos \in Conns
    /\ rerr \in {"none", "EOF", "error"}

Init ==
    /\ sent = 0 /\ pipe = "idle" /\ shut = "no" /\ closer = "no"
    /\ chan = [i \in Conns |-> <<>>]
    /\ wr = [i \in Conns |-> "range"]
    /\ hold = [i \in Conns |-> 0]
    /\ err = FALSE
    /\ link = [i \in Conns |-> "up"]
    /\ wire = [i \in Conns |-> <<>>]
    /\ got = <<>> /\ rd = "read" /\ rpos = 0 /\ rerr = "none"

-----------------------------------------------------------------------------
(* Write, CloseWrite, Close.                                               *)

\* The head of Write: the pipe holds wmu from here to the end of the call.
BeginWrite ==
    /\ pipe = "idle" /\ sent < Total
    /\ pipe' = IF closed \/ err THEN "half" ELSE "send"
    /\ UNCHANGED <<sent, shut, closer, writers, net, reader>>

\* The connection of the next chunk.
Turn == sent % N

\* One chunk goes into its channel; the call returns or has another chunk.
Send ==
    /\ pipe = "send"
    /\ Len(chan[Turn]) < QueueLen
    /\ chan' = [chan EXCEPT ![Turn] = Append(@, sent + 1)]
    /\ sent' = sent + 1
    /\ \/ pipe' = IF err THEN "half" ELSE "idle"
       \/ sent' < Total /\ pipe' = "send"
    /\ UNCHANGED <<shut, closer, wr, hold, err, net, reader>>

\* The other branch of the select.
SendQuits ==
    /\ pipe = "send" /\ quit
    /\ pipe' = "half"
    /\ UNCHANGED <<sent, shut, closer, writers, net, reader>>

\* The source of the pipe has ended: it goes on to CloseWrite.
SourceEnds ==
    /\ pipe = "idle"
    /\ pipe' = "half"
    /\ UNCHANGED <<sent, shut, closer, writers, net, reader>>

\* wonce lets one caller through; it closes quit and asks for wmu.
Once == IF shut = "no" THEN "quit" ELSE shut

CloseWrite ==
    /\ pipe = "half"
    /\ pipe' = "wait"
    /\ shut' = Once
    /\ UNCHANGED <<sent, closer, writers, net, reader>>

\* Mutant of Shut: the channels are closed without the mutex.
ShutUnlocked ==
    /\ shut = "quit"
    /\ shut' = "wait"
    /\ UNCHANGED <<sent, pipe, closer, writers, net, reader>>

\* closeWrite under wmu: no Write is under way.
Shut ==
    /\ shut = "quit" /\ pipe # "send"
    /\ shut' = "wait"
    /\ UNCHANGED <<sent, pipe, closer, writers, net, reader>>

\* wg.Wait
Waited ==
    /\ shut = "wait" /\ \A i \in Conns : wr[i] = "done"
    /\ shut' = "done"
    /\ UNCHANGED <<sent, pipe, closer, writers, net, reader>>

CloseWriteReturns ==
    /\ pipe = "wait" /\ shut = "done"
    /\ pipe' = IF err THEN "failed" ELSE "over"
    /\ UNCHANGED <<sent, shut, closer, writers, net, reader>>

Close ==
    /\ closer = "no"
    /\ Hasty \/ pipe \in {"over", "failed"}
    /\ closer' = "waiting"
    /\ shut' = Once
    /\ UNCHANGED <<sent, pipe, writers, net, reader>>

\* What the other side finds of an item whose write is cut short: nothing or
\* its beginning.
Torn(i) == IF wr[i] \in {"write", "mark"} THEN {<<>>, <<Part>>} ELSE {<<>>}

\* Mutant of CloseConns: there is no closeGrace.
CloseConnsWaiting ==
    /\ closer = "waiting" /\ shut = "done"
    /\ closer' = "closed"
    /\ link' = [i \in Conns |-> IF link[i] = "up" THEN "fin" ELSE link[i]]
    /\ UNCHANGED <<sent, pipe, shut, writers, wire, reader>>

\* The connections are closed once everything is written or closeGrace is over.
CloseConns ==
    /\ closer = "waiting"
    /\ closer' = "closed"
    /\ link' = [i \in Conns |-> IF link[i] = "up" THEN "fin" ELSE link[i]]
    /\ \E t \in [Conns -> {<<>>, <<Part>>}] :
        /\ \A i \in Conns : t[i] \in (IF link[i] = "up" THEN Torn(i) ELSE {<<>>})
        /\ wire' = [i \in Conns |-> wire[i] \o t[i]]
    /\ UNCHANGED <<sent, pipe, shut, writers, reader>>

CloseReturns ==
    /\ closer = "closed" /\ shut = "done"
    /\ closer' = "done"
    /\ UNCHANGED <<sent, pipe, shut, writers, net, reader>>

-----------------------------------------------------------------------------
(* writer                                                                  *)

\* Mutant of Take: a writer that has failed no longer empties its channel.
TakeWhole(i) ==
    /\ wr[i] = "range" /\ chan[i] # <<>>
    /\ chan' = [chan EXCEPT ![i] = Tail(@)]
    /\ wr' = [wr EXCEPT ![i] = "write"]
    /\ hold' = [hold EXCEPT ![i] = Head(chan[i])]
    /\ UNCHANGED <<sender, err, net, reader>>

\* The next chunk of the channel; a broken writer throws it away.
Take(i) ==
    /\ chan[i] # <<>>
    /\ chan' = [chan EXCEPT ![i] = Tail(@)]
    /\ \/ /\ wr[i] = "range"
          /\ wr' = [wr EXCEPT ![i] = "write"]
          /\ hold' = [hold EXCEPT ![i] = Head(chan[i])]
       \/ wr[i] = "broken" /\ UNCHANGED <<wr, hold>>
    /\ UNCHANGED <<sender, err, net, reader>>

\* Mutant of Ranged: the end of the channel is seen before its last chunks.
RangedEarly(i) ==
    /\ closed
    /\ \/ wr[i] = "range" /\ wr' = [wr EXCEPT ![i] = "mark"]
       \/ wr[i] = "broken" /\ wr' = [wr EXCEPT ![i] = "done"]
    /\ UNCHANGED <<sender, chan, hold, err, net, reader>>

\* The channel is closed and empty: the end marker follows, unless broken.
Ranged(i) ==
    /\ closed /\ chan[i] = <<>>
    /\ \/ wr[i] = "range" /\ wr' = [wr EXCEPT ![i] = "mark"]
       \/ wr[i] = "broken" /\ wr' = [wr EXCEPT ![i] = "done"]
    /\ UNCHANGED <<sender, chan, hold, err, net, reader>>

\* Mutant of Failed: only the log hears of the error.
FailedUntold(i) ==
    /\ link[i] # "up"
    /\ UNCHANGED <<err, wire>>

\* A write to a connection succeeds, fails, or waits for room.
Written(i, item) ==
    /\ link[i] = "up" /\ Len(wire[i]) < Wire
    /\ wire' = [wire EXCEPT ![i] = Append(@, item)]
    /\ UNCHANGED err
Failed(i) ==
    /\ link[i] # "up"
    /\ err' = TRUE
    /\ UNCHANGED wire

Put(i) ==
    /\ wr[i] = "write"
    /\ \/ Written(i, hold[i]) /\ wr' = [wr EXCEPT ![i] = "range"]
       \/ Failed(i) /\ wr' = [wr EXCEPT ![i] = "broken"]
    /\ hold' = [hold EXCEPT ![i] = 0]
    /\ UNCHANGED <<sender, chan, link, reader>>

\* Mutant of PutMarker: one marker is enough for the whole stripe.
PutOneMarker(i) ==
    /\ wr[i] = "mark"
    /\ IF i = sent % N THEN Written(i, Marker) \/ Failed(i) ELSE UNCHANGED <<err, wire>>
    /\ wr' = [wr EXCEPT ![i] = "done"]
    /\ UNCHANGED <<sender, chan, hold, link, reader>>

PutMarker(i) ==
    /\ wr[i] = "mark"
    /\ Written(i, Marker) \/ Failed(i)
    /\ wr' = [wr EXCEPT ![i] = "done"]
    /\ UNCHANGED <<sender, chan, hold, link, reader>>

-----------------------------------------------------------------------------
(* The network, and the other side.                                        *)

\* A connection is lost with what is on its way.
Reset(i) ==
    /\ Lossy /\ link[i] = "up"
    /\ link' = [link EXCEPT ![i] = "reset"]
    /\ wire' = [wire EXCEPT ![i] = <<>>]
    /\ UNCHANGED <<sender, writers, reader>>

\* Mutant of Following: no return to the first connection.
FollowingPast(i) == i + 1

Following(i) == (i + 1) % N

\* Read returns an error or the end, for good.
End(e) == rd' = "ended" /\ rerr' = e

ReadChunk ==
    /\ rd = "read" /\ wire[rpos] # <<>> /\ Head(wire[rpos]) > 0
    /\ got' = Append(got, Head(wire[rpos]))
    /\ wire' = [wire EXCEPT ![rpos] = Tail(@)]
    /\ rpos' = Following(rpos)
    /\ UNCHANGED <<sender, writers, link, rd, rerr>>

\* The marker: drain starts with the connection after this one.
ReadMarker ==
    /\ rd = "read" /\ wire[rpos] # <<>> /\ Head(wire[rpos]) = Marker
    /\ wire' = [wire EXCEPT ![rpos] = Tail(@)]
    /\ IF N = 1 THEN End("EOF") ELSE rd' = "drain" /\ UNCHANGED rerr
    /\ rpos' = Following(rpos)
    /\ UNCHANGED <<sender, writers, link, got>>

\* A connection that ends where a chunk could begin gives io.EOF, which Read
\* hands on like the end of the stream; one that ends elsewhere an error.
ReadFails ==
    /\ rd = "read"
    /\ \/ wire[rpos] = <<>> /\ link[rpos] = "fin" /\ End("EOF")
       \/ wire[rpos] = <<>> /\ link[rpos] = "reset" /\ End("error")
       \/ wire[rpos] # <<>> /\ Head(wire[rpos]) = Part /\ End("error")
    /\ UNCHANGED <<sender, writers, net, got, rpos>>

\* drain, one connection: a header is read, or the connection has ended.
Drain ==
    /\ rd = "drain"
    /\ wire[rpos] # <<>> \/ link[rpos] # "up"
    /\ wire' = [wire EXCEPT ![rpos] = IF @ = <<>> THEN @ ELSE Tail(@)]
    /\ rpos' = Following(rpos)
    \* all but the connection of the first marker, Len(got) % N, are visited
    /\ IF Following(rpos) = Len(got) % N
       THEN End("EOF") ELSE UNCHANGED <<rd, rerr>>
    /\ UNCHANGED <<sender, writers, link, got>>

\* The reader's own destination has failed: it does not read any more.
Abandon ==
    /\ Lossy /\ rd = "read"
    /\ rd' = "ended"
    /\ UNCHANGED <<sender, writers, net, got, rpos, rerr>>

\* The other side's Close.
PeerClose ==
    /\ rd = "ended"
    /\ rd' = "closed"
    /\ link' = [i \in Conns |-> IF link[i] = "up" THEN "reset" ELSE link[i]]
    /\ wire' = [i \in Conns |-> <<>>]
    /\ UNCHANGED <<sender, writers, got, rpos, rerr>>

-----------------------------------------------------------------------------

PipeStep == BeginWrite \/ Send \/ SendQuits \/ CloseWrite \/ CloseWriteReturns
ShutStep == Shut \/ Waited
CloserStep == CloseConns \/ CloseReturns
WriterStep(i) == Take(i) \/ Ranged(i) \/ Put(i) \/ PutMarker(i)
ReaderStep == ReadChunk \/ ReadMarker \/ ReadFails \/ Drain

Done == closer = "done" /\ rd = "closed"

Next ==
    \/ PipeStep \/ SourceEnds \/ ShutStep \/ Close \/ CloserStep
    \/ \E i \in Conns : WriterStep(i) \/ Reset(i)
    \/ ReaderStep \/ Abandon \/ PeerClose
    \/ Done /\ UNCHANGED vars

Spec == Init /\ [][Next]_vars

\* The goroutines of the sending side run, and closeGrace passes.
Fairness ==
    /\ WF_vars(PipeStep) /\ WF_vars(ShutStep) /\ WF_vars(CloserStep)
    /\ \A i \in Conns : WF_vars(WriterStep(i))

FairSpec == Spec /\ Fairness

\* The other side reads until it is told the end, and closes after that.
PeerReads == WF_vars(ReaderStep) /\ WF_vars(PeerClose)

-----------------------------------------------------------------------------
(* Properties.                                                             *)

\* A Write never sends on a closed channel, which would be a panic, although
\* closeWrite runs in another goroutine (wmu, quit, closed).
NoPanic == pipe = "send" => ~closed

\* When the reader meets an end marker, nothing but end markers is still under
\* way on the other connections: drain throws no data away.
DrainsMarkers == rd = "drain" => \A i \in Conns :
    /\ chan[i] = <<>> /\ wr[i] # "write"
    /\ \A j \in DOMAIN wire[i] : wire[i][j] \in {Marker, Part}

\* When CloseWrite has reported success and no connection has been reset, every
\* chunk Write took has been read or is on its way, until the other side closes
\* what it has not read: a writer that failed is never forgotten (fail, failure).
NoSilentLoss ==
    pipe = "over" /\ rd # "closed" /\ (\A i \in Conns : link[i] # "reset") =>
        \A k \in 1 .. sent :
            \/ \E j \in DOMAIN got : got[j] = k
            \/ \E i \in Conns : \E j \in DOMAIN wire[i] : wire[i][j] = k

\* A connection was closed by its sender, or lost.
Tears == \E i \in Conns : link[i] # "up"

\* What the two ends see is a stream: in order, without gaps, and ended only
\* by the writer unless a connection was closed or lost first.
Stream == INSTANCE StreamSpec WITH
    accepted <- sent, ended <- closed, delivered <- got, torn <- Tears, result <- rerr
ImplementsStream == Stream!Spec

\* A Write that has begun returns, and so does CloseWrite, while the other
\* side reads or closes: nobody waits on a full channel for ever.
WritesReturn == PeerReads =>
    (pipe \in {"send", "wait"} ~> pipe \in {"over", "failed", "idle"})

\* The reader is told of the end once the writer has ended.
EndArrives == PeerReads => (shut = "done" ~> rd \in {"ended", "closed"})

\* Close returns even if the other side never reads again (closeGrace).
CloseEnds == closer = "waiting" ~> closer = "done"
=============================================================================
