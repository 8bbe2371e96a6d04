----------------------------- MODULE RelayProofs -----------------------------
(***************************************************************************)
(* Theorems about Relay, for any amount of data, size of the channels and  *)
(* kind of gate: its types, that the relay itself tears nothing, and that  *)
(* each direction is a stream.                                             *)
(*                                                                         *)
(* The argument.  The way from program g to the other one is a row of      *)
(* three channels, A(g), B(g), C(g), with a copying goroutine between      *)
(* neighbours, F(g) and S(g).  As long as nothing is torn, what g has sent *)
(* is what the other has received and what is somewhere on this way; and   *)
(* the end travels behind it: a station has seen the end only if all the   *)
(* stations before it are empty and have seen it too.                      *)
(***************************************************************************)
EXTENDS Relay, SequenceTheorems, TLAPS

Peer(g) == IF g = "user" THEN "target" ELSE "user"
Dir(g) == IF g = "user" THEN "up" ELSE "down"

A(g) == Out(g)
B(g) == <<"gate", Dir(g)>>
C(g) == In(Peer(g))
F(g) == <<IF g = "user" THEN "client" ELSE "server", Dir(g)>>
S(g) == <<IF g = "user" THEN "server" ELSE "client", Dir(g)>>

\* What a goroutine has read and not yet written.
Hand(p) == IF pipe[p] = "write" THEN 1 ELSE 0
OnTheWay(g) == data[A(g)] + Hand(F(g)) + data[B(g)] + Hand(S(g)) + data[C(g)]

Types ==
    /\ gate \in Gates
    /\ data \in [Channels -> 0 .. Cap]
    /\ end \in [Channels -> {"open", "fin", "cut", "lost"}]
    /\ run \in [Sides -> {"dial", "splice", "closing", "closed", "refused"}]
    /\ pipe \in [Pipes -> {"read", "write", "end", "done"}]
    /\ phase \in [Programs -> {"open", "half", "closed"}]
    /\ sent \in [Programs -> Nat] /\ rcvd \in [Programs -> Nat]
    /\ told \in [Programs -> {"none", "EOF", "error"}]

\* A side closes its links when both its goroutines are done; only the server
\* dials; over udp no end is ever seen.
Closing ==
    /\ run["client"] \in {"splice", "closing", "closed"}
    /\ \A s \in Sides : run[s] \in {"closing", "closed"} => Spliced(s)
    /\ gate = "udp" => \A g \in Programs : end[B(g)] = "open"

Counted(g) ==
    /\ sent[g] <= Total[g]
    /\ rcvd[Peer(g)] + OnTheWay(g) <= sent[g]
    /\ ~Torn => rcvd[Peer(g)] + OnTheWay(g) = sent[g]

Ends(g) ==
    /\ end[A(g)] = "fin" => phase[g] # "open"
    /\ pipe[F(g)] \in {"end", "done"} => Over(A(g))
    /\ end[B(g)] = "fin" => pipe[F(g)] = "done"
    /\ pipe[S(g)] \in {"end", "done"} => Over(B(g))
    /\ end[C(g)] = "fin" => pipe[S(g)] = "done"

IInv ==
    /\ Types /\ Closing
    /\ \A g \in Programs : Counted(g)
    /\ ~Torn => \A g \in Programs : Ends(g)

-----------------------------------------------------------------------------
(* The map: two ways of three channels and two goroutines each.            *)

LEMMA Ways ==
    /\ Peer("user") = "target" /\ Peer("target") = "user" /\ Programs = {"user", "target"}
    /\ A("user") = <<"local", "up">> /\ A("target") = <<"remote", "down">>
    /\ B("user") = <<"gate", "up">> /\ B("target") = <<"gate", "down">>
    /\ C("user") = <<"remote", "up">> /\ C("target") = <<"local", "down">>
    /\ F("user") = <<"client", "up">> /\ F("target") = <<"server", "down">>
    /\ S("user") = <<"server", "up">> /\ S("target") = <<"client", "down">>
BY DEF Peer, Programs, A, B, C, F, S, Out, In, Dir

LEMMA Stations ==
    ASSUME NEW g \in Programs
    PROVE  /\ Peer(g) \in Programs /\ Peer(g) # g /\ Peer(Peer(g)) = g
           /\ Programs = {g, Peer(g)}
           /\ {A(g), B(g), C(g)} \subseteq Channels
           /\ F(g) \in Pipes /\ S(g) \in Pipes
           /\ Out(g) = A(g) /\ In(Peer(g)) = C(g) /\ In(g) = C(Peer(g))
           /\ Src(F(g)) = A(g) /\ Dst(F(g)) = B(g)
           /\ Src(S(g)) = B(g) /\ Dst(S(g)) = C(g)
           /\ ~Mute(A(g)[1]) /\ ~Mute(C(g)[1]) /\ (Mute(B(g)[1]) <=> gate = "udp")
<1>1. CASE g = "user"
  BY <1>1 DEF Programs, Peer, Dir, A, B, C, F, S, Out, In, Src, Dst, Near, Far, Mute,
              Channels, Links, Dirs, Pipes, Sides
<1>2. CASE g = "target"
  BY <1>2 DEF Programs, Peer, Dir, A, B, C, F, S, Out, In, Src, Dst, Near, Far, Mute,
              Channels, Links, Dirs, Pipes, Sides
<1> QED
  BY <1>1, <1>2 DEF Programs

\* No channel and no goroutine has two places.
LEMMA Apart ==
    ASSUME NEW g \in Programs, NEW h \in Programs
    PROVE  /\ A(g) # B(h) /\ A(g) # C(h) /\ B(g) # C(h) /\ F(g) # S(h)
           /\ g # h => A(g) # A(h) /\ B(g) # B(h) /\ C(g) # C(h) /\ F(g) # F(h) /\ S(g) # S(h)
<1>1. CASE g = "user" /\ h = "user"
  BY <1>1, Ways
<1>2. CASE g = "user" /\ h = "target"
  BY <1>2, Ways
<1>3. CASE g = "target" /\ h = "user"
  BY <1>3, Ways
<1>4. CASE g = "target" /\ h = "target"
  BY <1>4, Ways
<1> QED
  BY <1>1, <1>2, <1>3, <1>4 DEF Programs

LEMMA Everything ==
    /\ \A c \in Channels : \E g \in Programs : c \in {A(g), B(g), C(g)}
    /\ \A p \in Pipes : \E g \in Programs : p \in {F(g), S(g)}
<1>1. \A c \in Channels : \/ c \in {A("user"), B("user"), C("user")}
                          \/ c \in {A("target"), B("target"), C("target")}
  BY Ways DEF Channels, Links, Dirs
<1>2. \A p \in Pipes : p \in {F("user"), S("user")} \/ p \in {F("target"), S("target")}
  BY Ways DEF Pipes, Sides, Dirs
<1> QED
  BY <1>1, <1>2 DEF Programs

\* What the two sides close.
LEMMA Doors ==
    /\ <<Far("client"), "up">> = B("user") /\ <<Far("client"), "down">> = B("target")
    /\ <<Near("client"), "up">> = A("user") /\ <<Near("client"), "down">> = C("target")
    /\ <<Far("server"), "up">> = C("user") /\ <<Far("server"), "down">> = A("target")
    /\ <<Near("server"), "up">> = B("user") /\ <<Near("server"), "down">> = B("target")
    /\ Spliced("client") <=> pipe[F("user")] = "done" /\ pipe[S("target")] = "done"
    /\ Spliced("server") <=> pipe[S("user")] = "done" /\ pipe[F("target")] = "done"
BY Ways DEF Far, Near, Spliced, Dirs

LEMMA TypesAt ==
    ASSUME Types, NEW g \in Programs
    PROVE  /\ data[A(g)] \in Nat /\ data[B(g)] \in Nat /\ data[C(g)] \in Nat
           /\ Hand(F(g)) \in {0, 1} /\ Hand(S(g)) \in {0, 1}
           /\ sent[g] \in Nat /\ rcvd[g] \in Nat /\ rcvd[Peer(g)] \in Nat
           /\ Cap \in Nat \ {0} /\ Total[g] \in Nat
<1>1. data[A(g)] \in 0 .. Cap /\ data[B(g)] \in 0 .. Cap /\ data[C(g)] \in 0 .. Cap
  BY Stations DEF Types
<1>2. Cap \in Nat \ {0} /\ Total[g] \in Nat
  BY RelayAssumption DEF Programs
<1>3. sent[g] \in Nat /\ rcvd[g] \in Nat /\ rcvd[Peer(g)] \in Nat
  BY Stations DEF Types
<1> QED
  BY <1>1, <1>2, <1>3 DEF Hand

-----------------------------------------------------------------------------
(* What a Close of a link does.                                            *)

Gone(c) == end[c] \in {"cut", "lost"}

LEMMA Untorn == ~Torn <=> run["server"] # "refused" /\ \A c \in Channels : ~Gone(c)
BY DEF Torn, Gone

LEMMA HangupEffect ==
    ASSUME Types, NEW o \in Channels, NEW i \in Channels, o # i, Hangup(o, i)
    PROVE  /\ data' \in [Channels -> 0 .. Cap]
           /\ end' \in [Channels -> {"open", "fin", "cut", "lost"}]
           /\ \A c \in Channels : data'[c] <= data[c] /\ (Gone(c) => Gone(c)')
           /\ Mute(o[1]) => end' = end
           /\ ~Mute(o[1]) /\ ~Gone(i)' => Over(i)
           /\ ~Mute(o[1]) /\ ~Gone(o)' /\ ~Gone(i)' =>
                /\ \A c \in Channels : data'[c] = data[c]
                /\ \A c \in Channels : end'[c] = IF c = o THEN "fin" ELSE end[c]
           /\ ~Gone(o) /\ Over(i) => \A c \in Channels : ~Gone(c) => ~Gone(c)'
<1>1. /\ data \in [Channels -> 0 .. Cap] /\ end \in [Channels -> {"open", "fin", "cut", "lost"}]
      /\ Cap \in Nat
  BY RelayAssumption DEF Types
<1>2. ASSUME NEW n \in 0 .. data[o]
      PROVE  n \in 0 .. Cap /\ n <= data[o]
  BY <1>1
<1>3. \A c \in Channels : data[c] \in Nat
  BY <1>1
<1>4. CASE Mute(o[1])
  <2>1. PICK n \in 0 .. data[o] : data' = [data EXCEPT ![o] = n]
    BY <1>4 DEF Hangup, HangupUdp
  <2>2. end' = end
    BY <1>4 DEF Hangup, HangupUdp
  <2>3. data' \in [Channels -> 0 .. Cap] /\ \A c \in Channels : data'[c] <= data[c]
    BY <2>1, <1>1, <1>2, <1>3
  <2> QED
    BY <2>2, <2>3, <1>1, <1>4 DEF Gone
<1>5. CASE ~Mute(o[1])
  <2> DEFINE left == IF Over(i) THEN "fin" ELSE "lost"
  <2>1. left \in {"fin", "lost"} /\ (Over(i) => end[i] = "fin" /\ data[i] = 0)
    BY DEF Over
  <2>2. \/ /\ end[o] \in {"open", "fin"}
           /\ end' = [end EXCEPT ![o] = "fin", ![i] = left]
           /\ data' = [data EXCEPT ![i] = 0]
        \/ /\ end[o] \in {"cut", "lost"} \/ ~Over(i)
           /\ end' = [end EXCEPT ![o] = "lost", ![i] = left]
           /\ \E n \in 0 .. data[o] : data' = [data EXCEPT ![o] = n, ![i] = 0]
    BY <1>5 DEF Hangup, HangupTcp
  <2>3. CASE /\ end[o] \in {"open", "fin"}
             /\ end' = [end EXCEPT ![o] = "fin", ![i] = left]
             /\ data' = [data EXCEPT ![i] = 0]
    <3>1. end' \in [Channels -> {"open", "fin", "cut", "lost"}] /\ data' \in [Channels -> 0 .. Cap]
      BY <2>1, <2>3, <1>1
    <3>2. \A c \in Channels : end'[c] = IF c = o THEN "fin" ELSE IF c = i THEN left ELSE end[c]
      BY <2>3, <1>1
    <3>3. \A c \in Channels : data'[c] = IF c = i THEN 0 ELSE data[c]
      BY <2>3, <1>1
    <3>4. ~Gone(i)' => Over(i)
      BY <3>2 DEF Gone
    <3>5. \A c \in Channels : Gone(c) => Gone(c)'
      BY <3>2, <2>1, <2>3 DEF Gone
    <3> HIDE DEF left
    <3>6. \A c \in Channels : data'[c] <= data[c]
      BY <3>3, <1>3
    <3>7. Over(i) => left = "fin"
      BY DEF left
    <3>8. ~Gone(i)' => \A c \in Channels : end'[c] = IF c = o THEN "fin" ELSE end[c]
      BY <3>2, <3>4, <3>7, <2>1
    <3>9. ~Gone(i)' => \A c \in Channels : data'[c] = data[c]
      BY <3>3, <3>4, <2>1
    <3>10. Over(i) => \A c \in Channels : ~Gone(c) => ~Gone(c)'
      BY <3>2, <3>7 DEF Gone
    <3> QED
      BY <3>1, <3>4, <3>5, <3>6, <3>8, <3>9, <3>10, <1>5
  <2>4. CASE /\ end[o] \in {"cut", "lost"} \/ ~Over(i)
             /\ end' = [end EXCEPT ![o] = "lost", ![i] = left]
             /\ \E n \in 0 .. data[o] : data' = [data EXCEPT ![o] = n, ![i] = 0]
    <3>1. PICK n \in 0 .. data[o] : data' = [data EXCEPT ![o] = n, ![i] = 0]
      BY <2>4
    <3>2. end' \in [Channels -> {"open", "fin", "cut", "lost"}] /\ data' \in [Channels -> 0 .. Cap]
      BY <2>1, <2>4, <3>1, <1>1, <1>2
    <3>3. \A c \in Channels : end'[c] = IF c = o THEN "lost" ELSE IF c = i THEN left ELSE end[c]
      BY <2>4, <1>1
    <3>4. \A c \in Channels : data'[c] = IF c = i THEN 0 ELSE IF c = o THEN n ELSE data[c]
      BY <3>1, <1>1
    <3>5. \A c \in Channels : Gone(c) => Gone(c)'
      BY <3>3, <2>1 DEF Gone
    <3>6. Gone(o)' /\ (~Gone(i)' => Over(i)) /\ (Gone(o) \/ ~Over(i))
      BY <3>3, <2>4 DEF Gone
    <3> HIDE DEF left
    <3>7. \A c \in Channels : data'[c] <= data[c]
      BY <3>4, <1>2, <1>3
    <3> QED
      BY <3>2, <3>5, <3>6, <3>7, <1>5
  <2> QED
    BY <2>2, <2>3, <2>4
<1> QED
  BY <1>4, <1>5

\* A Close keeps the invariant if whoever writes to the channel it ends is done.
LEMMA HangupStep ==
    ASSUME IInv, NEW o \in Channels, NEW i \in Channels, o # i, o[1] = i[1], Hangup(o, i),
           UNCHANGED <<gate, pipe, sent, rcvd, told>>,
           run' \in [Sides -> {"dial", "splice", "closing", "closed", "refused"}],
           run["server"] = "refused" => run'["server"] = "refused",
           run'["client"] \in {"splice", "closing", "closed"},
           \A s \in Sides : run'[s] \in {"closing", "closed"} => Spliced(s),
           phase' \in [Programs -> {"open", "half", "closed"}],
           \A g \in Programs : phase[g] # "open" => phase'[g] # "open",
           Mute(o[1]) => Torn',
           ~Torn' => \A g \in Programs :
                /\ o = A(g) => phase'[g] # "open"
                /\ o = B(g) => pipe[F(g)] = "done"
                /\ o = C(g) => pipe[S(g)] = "done"
    PROVE  IInv' /\ (Torn => Torn')
<1> USE DEF IInv
<1>1. /\ data' \in [Channels -> 0 .. Cap]
      /\ end' \in [Channels -> {"open", "fin", "cut", "lost"}]
      /\ \A c \in Channels : data'[c] <= data[c] /\ (Gone(c) => Gone(c)')
      /\ Mute(o[1]) => end' = end
  BY HangupEffect
<1>2. Torn => Torn'
  BY <1>1 DEF Torn, Gone
<1>3. ASSUME ~Torn'
      PROVE  /\ \A c \in Channels : data'[c] = data[c]
             /\ \A c \in Channels : end'[c] = IF c = o THEN "fin" ELSE end[c]
             /\ Over(i)
  <2>1. ~Gone(o)' /\ ~Gone(i)'
    BY <1>3 DEF Torn, Gone
  <2>2. ~Mute(o[1])
    BY <1>3
  <2> QED
    BY <2>1, <2>2, HangupEffect
<1>4. Types'
  BY <1>1 DEF Types
<1>5. Closing'
  <2>1. ASSUME gate = "udp", NEW g \in Programs
        PROVE  end'[B(g)] = "open"
    <3>1. end[B(g)] = "open" /\ B(g) \in Channels /\ Mute(B(g)[1])
      BY <2>1, Stations DEF Closing
    <3>2. CASE Mute(o[1])
      BY <3>1, <3>2, <1>1
    <3>3. CASE ~Mute(o[1])
      <4>1. B(g) # o /\ B(g) # i
        BY <3>1, <3>3
      <4>2. end'[B(g)] = end[B(g)]
        BY <4>1, <3>1, <3>3 DEF Hangup, HangupTcp, Types
      <4> QED
        BY <4>2, <3>1
    <3> QED
      BY <3>2, <3>3
  <2> QED
    BY <2>1 DEF Closing, Spliced
<1>6. ASSUME NEW g \in Programs
      PROVE  Counted(g)'
  <2>1. /\ data[A(g)] \in Nat /\ data[B(g)] \in Nat /\ data[C(g)] \in Nat
        /\ Hand(F(g)) \in Nat /\ Hand(S(g)) \in Nat /\ sent[g] \in Nat /\ rcvd[Peer(g)] \in Nat
    BY TypesAt
  <2>2. /\ data'[A(g)] \in Nat /\ data'[B(g)] \in Nat /\ data'[C(g)] \in Nat
        /\ data'[A(g)] <= data[A(g)] /\ data'[B(g)] <= data[B(g)] /\ data'[C(g)] <= data[C(g)]
    BY <1>1, <1>4, TypesAt, Stations, RelayAssumption
  <2>3. Hand(F(g))' = Hand(F(g)) /\ Hand(S(g))' = Hand(S(g))
    BY DEF Hand, F, S
  <2>4. OnTheWay(g)' = data'[A(g)] + Hand(F(g)) + data'[B(g)] + Hand(S(g)) + data'[C(g)]
    BY <2>3 DEF OnTheWay, A, B, C
  <2>5. rcvd'[Peer(g)] + OnTheWay(g)' <= sent'[g] /\ sent'[g] <= Total[g]
    BY <2>1, <2>2, <2>4 DEF Counted, OnTheWay
  <2>6. ASSUME ~Torn'
        PROVE  rcvd'[Peer(g)] + OnTheWay(g)' = sent'[g]
    <3>1. OnTheWay(g)' = OnTheWay(g)
      BY <2>4, <2>6, <1>3, Stations DEF OnTheWay
    <3> QED
      BY <3>1, <2>6, <1>2 DEF Counted
  <2> QED
    BY <2>5, <2>6 DEF Counted, Peer
<1>7. ASSUME ~Torn', NEW g \in Programs
      PROVE  Ends(g)'
  <2>1. Ends(g) /\ {A(g), B(g), C(g)} \subseteq Channels
    BY <1>2, <1>7, Stations
  <2>2. \A c \in Channels : Over(c) => Over(c)'
    BY <1>3, <1>7 DEF Over
  <2>3. end'[A(g)] = "fin" => phase'[g] # "open"
    BY <2>1, <1>3, <1>7 DEF Ends
  <2>4. (end'[B(g)] = "fin" => pipe'[F(g)] = "done") /\ (end'[C(g)] = "fin" => pipe'[S(g)] = "done")
    BY <2>1, <1>3, <1>7 DEF Ends
  <2>5. /\ pipe'[F(g)] \in {"end", "done"} => Over(A(g))'
        /\ pipe'[S(g)] \in {"end", "done"} => Over(B(g))'
    BY <2>1, <2>2 DEF Ends
  <2> QED
    BY <2>3, <2>4, <2>5 DEF Ends, A, B, C, F, S, Over
<1> QED
  BY <1>2, <1>4, <1>5, <1>6, <1>7

LEMMA CloseStep ==
    ASSUME IInv, NEW g \in Programs, Close(g)
    PROVE  IInv' /\ (Torn => Torn')
<1> DEFINE h == Peer(g)
<1>1. /\ phase' = [phase EXCEPT ![g] = "closed"] /\ Hangup(A(g), C(h))
      /\ UNCHANGED <<gate, run, pipe, sent, rcvd, told>>
  BY Stations DEF Close
<1>2. /\ h \in Programs /\ A(g) \in Channels /\ C(h) \in Channels /\ A(g) # C(h)
      /\ A(g)[1] = C(h)[1] /\ ~Mute(A(g)[1])
  <2>1. A(g)[1] = C(h)[1]
    BY Ways DEF Programs
  <2> QED
    BY <2>1, Stations, Apart
<1>3. /\ phase' \in [Programs -> {"open", "half", "closed"}] /\ phase'[g] = "closed"
      /\ \A k \in Programs : phase[k] # "open" => phase'[k] # "open"
  BY <1>1 DEF IInv, Types
<1>4. \A k \in Programs : /\ A(g) = A(k) => phase'[k] # "open"
                          /\ A(g) # B(k) /\ A(g) # C(k)
  BY <1>3, Apart
<1>5. run \in [Sides -> {"dial", "splice", "closing", "closed", "refused"}]
      /\ run["client"] \in {"splice", "closing", "closed"}
      /\ \A s \in Sides : run[s] \in {"closing", "closed"} => Spliced(s)
  BY DEF IInv, Types, Closing
<1> HIDE DEF h
<1> QED
  BY <1>1, <1>2, <1>3, <1>4, <1>5, HangupStep

LEMMA DialFailsStep ==
    ASSUME IInv, DialFails
    PROVE  IInv' /\ (Torn => Torn')
<1>1. /\ run["server"] = "dial" /\ run' = [run EXCEPT !["server"] = "refused"]
      /\ Hangup(B("target"), B("user"))
      /\ UNCHANGED <<gate, pipe, programs>>
  BY Ways DEF DialFails
<1>2. B("target") \in Channels /\ B("user") \in Channels /\ B("target") # B("user")
      /\ B("target")[1] = B("user")[1]
  BY Ways, Stations
<1>3. /\ run' \in [Sides -> {"dial", "splice", "closing", "closed", "refused"}]
      /\ run'["server"] = "refused" /\ run'["client"] = run["client"]
  BY <1>1 DEF IInv, Types, Sides
<1>4. Torn'
  BY <1>3 DEF Torn
<1>5. /\ run'["client"] \in {"splice", "closing", "closed"}
      /\ \A s \in Sides : run'[s] \in {"closing", "closed"} => Spliced(s)
  BY <1>3 DEF IInv, Closing, Sides
<1>6. UNCHANGED <<gate, pipe, sent, rcvd, told, phase>> /\ phase \in [Programs -> {"open", "half", "closed"}]
  BY <1>1 DEF programs, IInv, Types
<1> QED
  BY <1>1, <1>2, <1>3, <1>4, <1>5, <1>6, HangupStep

\* A side that closes a link has seen the end of what it reads from it.
LEMMA ClosingAt ==
    ASSUME IInv, NEW s \in Sides, Spliced(s)
    PROVE  /\ ~Torn => Over(<<Far(s), "down">>) /\ Over(<<Near(s), "up">>)
           /\ <<Far(s), "up">> \in Channels /\ <<Far(s), "down">> \in Channels
           /\ <<Near(s), "up">> \in Channels /\ <<Near(s), "down">> \in Channels
           /\ \A g \in Programs : \A o \in {<<Far(s), "up">>, <<Near(s), "down">>} :
                /\ o # A(g)
                /\ o = B(g) => pipe[F(g)] = "done"
                /\ o = C(g) => pipe[S(g)] = "done"
<1> USE Doors, Ways
<1>1. ~Torn => Ends("user") /\ Ends("target")
  BY DEF IInv
<1>2. CASE s = "client"
  BY <1>1, <1>2, Stations DEF Ends, Programs
<1>3. CASE s = "server"
  BY <1>1, <1>3, Stations DEF Ends, Programs
<1> QED
  BY <1>2, <1>3 DEF Sides

LEMMA CloseFarStep ==
    ASSUME IInv, NEW s \in Sides, CloseFar(s)
    PROVE  IInv' /\ (Torn <=> Torn')
<1> DEFINE o == <<Far(s), "up">>
           i == <<Far(s), "down">>
<1>1. /\ run[s] = "splice" /\ Spliced(s) /\ run' = [run EXCEPT ![s] = "closing"]
      /\ Hangup(o, i)
      /\ UNCHANGED <<gate, pipe, programs>>
  BY DEF CloseFar
<1>2. /\ o \in Channels /\ i \in Channels /\ o # i /\ o[1] = i[1]
      /\ ~Torn => Over(i)
      /\ \A g \in Programs : /\ o # A(g)
                             /\ o = B(g) => pipe[F(g)] = "done"
                             /\ o = C(g) => pipe[S(g)] = "done"
  BY <1>1, ClosingAt
<1>3. /\ run' \in [Sides -> {"dial", "splice", "closing", "closed", "refused"}]
      /\ run["server"] = "refused" => run'["server"] = "refused"
      /\ run'["server"] = "refused" => run["server"] = "refused"
      /\ run'["client"] \in {"splice", "closing", "closed"}
      /\ \A t \in Sides : run'[t] \in {"closing", "closed"} => Spliced(t)
  BY <1>1 DEF IInv, Types, Closing, Sides
<1>4. UNCHANGED <<gate, pipe, sent, rcvd, told, phase>> /\ phase \in [Programs -> {"open", "half", "closed"}]
  BY <1>1 DEF programs, IInv, Types
<1> HIDE DEF o, i
<1>5. /\ \A c \in Channels : Gone(c) => Gone(c)'
      /\ ~Gone(o) /\ Over(i) => \A c \in Channels : ~Gone(c) => ~Gone(c)'
  BY <1>1, <1>2, HangupEffect DEF IInv
<1>6. Mute(o[1]) => Torn
  <2> SUFFICES ASSUME Mute(o[1]), ~Torn
               PROVE  FALSE
    OBVIOUS
  <2>1. gate = "udp" /\ end[i] = "fin" /\ i[1] = "gate"
    BY <1>2 DEF Mute, Over
  <2>2. i = B("user") \/ i = B("target")
    BY <1>2, <2>1, Ways DEF Channels, Dirs
  <2> QED
    BY <2>1, <2>2 DEF IInv, Closing, Programs
<1>7. Torn => Torn'
  BY <1>3, <1>5 DEF Torn, Gone
<1>8. ~Torn => ~Torn'
  BY <1>2, <1>3, <1>5 DEF Torn, Gone
<1>9. IInv'
  BY <1>1, <1>2, <1>3, <1>4, <1>6, <1>7, HangupStep
<1> QED
  BY <1>7, <1>8, <1>9

LEMMA CloseNearStep ==
    ASSUME IInv, NEW s \in Sides, CloseNear(s)
    PROVE  IInv' /\ (Torn => Torn')
<1> DEFINE o == <<Near(s), "down">>
           i == <<Near(s), "up">>
<1>1. /\ run[s] = "closing" /\ run' = [run EXCEPT ![s] = "closed"]
      /\ Hangup(o, i)
      /\ UNCHANGED <<gate, pipe, programs>>
  BY DEF CloseNear
<1>2. Spliced(s)
  BY <1>1 DEF IInv, Closing
<1>3. /\ o \in Channels /\ i \in Channels /\ o # i /\ o[1] = i[1]
      /\ ~Torn => Over(i)
      /\ \A g \in Programs : /\ o # A(g)
                             /\ o = B(g) => pipe[F(g)] = "done"
                             /\ o = C(g) => pipe[S(g)] = "done"
  BY <1>2, ClosingAt
<1>4. /\ run' \in [Sides -> {"dial", "splice", "closing", "closed", "refused"}]
      /\ run["server"] = "refused" => run'["server"] = "refused"
      /\ run'["client"] \in {"splice", "closing", "closed"}
      /\ \A t \in Sides : run'[t] \in {"closing", "closed"} => Spliced(t)
  BY <1>1, <1>2 DEF IInv, Types, Closing, Sides
<1>5. UNCHANGED <<gate, pipe, sent, rcvd, told, phase>> /\ phase \in [Programs -> {"open", "half", "closed"}]
  BY <1>1 DEF programs, IInv, Types
<1> HIDE DEF o, i
<1>6. \A c \in Channels : Gone(c) => Gone(c)'
  BY <1>1, <1>3, HangupEffect DEF IInv
<1>7. Mute(o[1]) => Torn
  <2> SUFFICES ASSUME Mute(o[1]), ~Torn
               PROVE  FALSE
    OBVIOUS
  <2>1. gate = "udp" /\ end[i] = "fin" /\ i[1] = "gate"
    BY <1>3 DEF Mute, Over
  <2>2. i = B("user") \/ i = B("target")
    BY <1>3, <2>1, Ways DEF Channels, Dirs
  <2> QED
    BY <2>1, <2>2 DEF IInv, Closing, Programs
<1>8. Torn => Torn'
  BY <1>4, <1>6 DEF Torn, Gone
<1>9. IInv'
  BY <1>1, <1>3, <1>4, <1>5, <1>7, <1>8, HangupStep
<1> QED
  BY <1>8, <1>9

-----------------------------------------------------------------------------
(* The other steps.                                                        *)

\* A way on which nothing moves.
LEMMA Unmoved ==
    ASSUME NEW g \in Programs, Counted(g), Torn => Torn',
           \A c \in {A(g), B(g), C(g)} : data'[c] = data[c],
           pipe'[F(g)] = pipe[F(g)], pipe'[S(g)] = pipe[S(g)],
           sent'[g] = sent[g], rcvd'[Peer(g)] = rcvd[Peer(g)]
    PROVE  Counted(g)'
<1>1. OnTheWay(g)' = OnTheWay(g)
  BY DEF OnTheWay, Hand, A, B, C, F, S
<1> QED
  BY <1>1 DEF Counted, Peer

\* A goroutine that moves only between states in which it holds nothing.
LEMMA Handless ==
    ASSUME NEW g \in Programs, Counted(g), Torn => Torn', UNCHANGED <<data, sent, rcvd>>,
           Hand(F(g))' = Hand(F(g)), Hand(S(g))' = Hand(S(g))
    PROVE  Counted(g)'
<1>1. OnTheWay(g)' = OnTheWay(g)
  BY DEF OnTheWay, A, B, C
<1> QED
  BY <1>1 DEF Counted, Peer

LEMMA SendStep ==
    ASSUME IInv, NEW g \in Programs, Send(g)
    PROVE  IInv' /\ (Torn <=> Torn')
<1> USE DEF IInv
<1>1. /\ sent[g] < Total[g] /\ end[A(g)] = "open" /\ data[A(g)] < Cap
      /\ data' = [data EXCEPT ![A(g)] = @ + 1] /\ sent' = [sent EXCEPT ![g] = @ + 1]
      /\ UNCHANGED <<gate, end, run, pipe, phase, rcvd, told>>
  BY Stations DEF Send
<1>2. Torn <=> Torn'
  BY <1>1 DEF Torn
<1>3. A(g) \in Channels /\ data[A(g)] \in Nat /\ Cap \in Nat /\ sent[g] \in Nat /\ Total[g] \in Nat
  BY Stations, TypesAt
<1>4. /\ \A c \in Channels : data'[c] = IF c = A(g) THEN data[c] + 1 ELSE data[c]
      /\ \A h \in Programs : sent'[h] = IF h = g THEN sent[h] + 1 ELSE sent[h]
  BY <1>1 DEF Types
<1>5. Types'
  <2>1. data[A(g)] + 1 \in 0 .. Cap /\ sent[g] + 1 \in Nat
    BY <1>1, <1>3
  <2>2. data' \in [Channels -> 0 .. Cap] /\ sent' \in [Programs -> Nat]
    BY <2>1, <1>1 DEF Types
  <2> QED
    BY <2>2, <1>1 DEF Types
<1>6. Closing'
  BY <1>1 DEF Closing, Spliced, B, Dir
<1>7. ASSUME NEW h \in Programs
      PROVE  Counted(h)'
  <2>1. CASE h = g
    <3>1. OnTheWay(g)' = data'[A(g)] + Hand(F(g)) + data'[B(g)] + Hand(S(g)) + data'[C(g)]
      BY <1>1 DEF OnTheWay, Hand, A, B, C, F, S
    <3>2. data'[A(g)] = data[A(g)] + 1 /\ data'[B(g)] = data[B(g)] /\ data'[C(g)] = data[C(g)]
      BY <1>4, Stations, Apart
    <3>3. OnTheWay(g)' = OnTheWay(g) + 1 /\ OnTheWay(g) \in Nat /\ rcvd[Peer(g)] \in Nat
      BY <3>1, <3>2, TypesAt DEF OnTheWay
    <3>4. rcvd'[Peer(g)] = rcvd[Peer(g)] /\ sent'[g] = sent[g] + 1
      BY <1>1, <1>4
    <3>5. /\ sent'[g] <= Total[g] /\ rcvd'[Peer(g)] + OnTheWay(g)' <= sent'[g]
          /\ ~Torn' => rcvd'[Peer(g)] + OnTheWay(g)' = sent'[g]
      BY <3>3, <3>4, <1>1, <1>2, <1>3 DEF Counted
    <3> QED
      BY <2>1, <3>5 DEF Counted, Peer
  <2>2. CASE h # g
    <3>1. \A c \in {A(h), B(h), C(h)} : data'[c] = data[c]
      BY <2>2, <1>4, Stations, Apart
    <3> QED
      BY <2>2, <3>1, <1>1, <1>2, <1>4, Unmoved
  <2> QED
    BY <2>1, <2>2
<1>8. ASSUME ~Torn', NEW h \in Programs
      PROVE  Ends(h)'
  <2>1. Ends(h) /\ {A(h), B(h), C(h)} \subseteq Channels
    BY <1>2, <1>8, Stations
  <2>2. \A c \in Channels : Over(c) => Over(c)'
    BY <1>1, <1>4 DEF Over
  <2> QED
    BY <2>1, <2>2, <1>1 DEF Ends, A, B, C, F, S, Over
<1> QED
  BY <1>2, <1>5, <1>6, <1>7, <1>8

LEMMA ShutdownStep ==
    ASSUME IInv, NEW g \in Programs, Shutdown(g)
    PROVE  IInv' /\ (Torn <=> Torn')
<1> USE DEF IInv
<1>1. /\ phase[g] = "open" /\ phase' = [phase EXCEPT ![g] = "half"]
      /\ end' = [end EXCEPT ![A(g)] = IF @ = "open" THEN "fin" ELSE @]
      /\ UNCHANGED <<gate, data, run, pipe, sent, rcvd, told>>
  BY Stations DEF Shutdown
<1>2. /\ \A c \in Channels : end'[c] = IF c = A(g) /\ end[c] = "open" THEN "fin" ELSE end[c]
      /\ \A h \in Programs : phase'[h] = IF h = g THEN "half" ELSE phase[h]
  BY <1>1 DEF Types
<1>3. Types'
  BY <1>1, Stations DEF Types
<1>4. Torn <=> Torn'
  BY <1>1, <1>2 DEF Torn
<1>5. Closing'
  BY <1>1, <1>2, Stations, Apart DEF Closing, Spliced, B, Dir
<1>6. ASSUME NEW h \in Programs
      PROVE  Counted(h)'
  BY <1>1, <1>4, Unmoved
<1>7. ASSUME ~Torn', NEW h \in Programs
      PROVE  Ends(h)'
  <2>1. Ends(h) /\ {A(h), B(h), C(h)} \subseteq Channels
    BY <1>4, <1>7, Stations
  <2>2. \A c \in Channels : Over(c) => Over(c)'
    BY <1>1, <1>2 DEF Over
  <2>3. end'[A(h)] = "fin" => phase'[h] # "open"
    BY <2>1, <1>1, <1>2, Apart DEF Ends
  <2>4. end'[B(h)] = end[B(h)] /\ end'[C(h)] = end[C(h)]
    BY <2>1, <1>2, Apart
  <2> QED
    BY <2>1, <2>2, <2>3, <2>4, <1>1 DEF Ends, A, B, C, F, S, Over
<1> QED
  BY <1>3, <1>4, <1>5, <1>6, <1>7

LEMMA ReceiveStep ==
    ASSUME IInv, NEW g \in Programs, Receive(g)
    PROVE  IInv' /\ (Torn <=> Torn')
<1> USE DEF IInv
<1> DEFINE h == Peer(g)
<1>1. /\ \/ /\ data[C(h)] > 0
            /\ data' = [data EXCEPT ![C(h)] = @ - 1] /\ rcvd' = [rcvd EXCEPT ![g] = @ + 1]
            /\ UNCHANGED told
         \/ /\ told' = [told EXCEPT ![g] = IF end[C(h)] = "fin" THEN "EOF" ELSE "error"]
            /\ UNCHANGED <<data, rcvd>>
      /\ UNCHANGED <<gate, end, run, pipe, phase, sent>>
  BY Stations DEF Receive
<1>2. h \in Programs /\ Peer(h) = g /\ C(h) \in Channels /\ h # g /\ Programs = {g, h}
  BY Stations
<1>3. Torn <=> Torn'
  BY <1>1 DEF Torn
<1>4. data[C(h)] \in 0 .. Cap /\ Cap \in Nat /\ rcvd[g] \in Nat
  BY <1>2, TypesAt DEF Types
<1>5. Types'
  <2>1. told' \in [Programs -> {"none", "EOF", "error"}]
    BY <1>1 DEF Types
  <2>2. data' \in [Channels -> 0 .. Cap] /\ rcvd' \in [Programs -> Nat]
    <3>1. CASE UNCHANGED <<data, rcvd>>
      BY <3>1 DEF Types
    <3>2. CASE data[C(h)] > 0 /\ data' = [data EXCEPT ![C(h)] = @ - 1] /\ rcvd' = [rcvd EXCEPT ![g] = @ + 1]
      <4>1. data[C(h)] - 1 \in 0 .. Cap /\ rcvd[g] + 1 \in Nat
        BY <3>2, <1>4
      <4> QED
        BY <4>1, <3>2 DEF Types
    <3> QED
      BY <3>1, <3>2, <1>1
  <2> QED
    BY <2>1, <2>2, <1>1 DEF Types
<1>6. Closing'
  BY <1>1 DEF Closing, Spliced, B, Dir
<1>7. Counted(g)' /\ Counted(h)' /\ \A c \in Channels : Over(c) => Over(c)'
  <2>1. CASE UNCHANGED <<data, rcvd>>
    BY <2>1, <1>1, <1>2, <1>3, Unmoved DEF Over
  <2>2. CASE data[C(h)] > 0 /\ data' = [data EXCEPT ![C(h)] = @ - 1] /\ rcvd' = [rcvd EXCEPT ![g] = @ + 1]
    <3>1. /\ \A c \in Channels : data'[c] = IF c = C(h) THEN data[c] - 1 ELSE data[c]
          /\ \A k \in Programs : rcvd'[k] = IF k = g THEN rcvd[k] + 1 ELSE rcvd[k]
      BY <2>2 DEF Types
    <3>2. Counted(h)'
      <4>1. OnTheWay(h)' = data'[A(h)] + Hand(F(h)) + data'[B(h)] + Hand(S(h)) + data'[C(h)]
        BY <1>1 DEF OnTheWay, Hand, A, B, C, F, S
      <4>2. data'[A(h)] = data[A(h)] /\ data'[B(h)] = data[B(h)] /\ data'[C(h)] = data[C(h)] - 1
        BY <3>1, <1>2, Stations, Apart
      <4>3. OnTheWay(h)' = OnTheWay(h) - 1 /\ OnTheWay(h) \in Nat
        BY <4>1, <4>2, <1>2, TypesAt DEF OnTheWay
      <4>4. rcvd'[Peer(h)] = rcvd[Peer(h)] + 1 /\ sent'[h] = sent[h] /\ sent[h] \in Nat /\ Total[h] \in Nat
        BY <3>1, <1>1, <1>2, TypesAt
      <4>5. /\ sent'[h] <= Total[h] /\ rcvd'[Peer(h)] + OnTheWay(h)' <= sent'[h]
            /\ ~Torn' => rcvd'[Peer(h)] + OnTheWay(h)' = sent'[h]
        BY <4>3, <4>4, <1>2, <1>3, <1>4 DEF Counted
      <4> QED
        BY <4>5 DEF Counted, Peer
    <3>3. Counted(g)'
      <4>1. \A c \in {A(g), B(g), C(g)} : data'[c] = data[c]
        BY <3>1, <1>2, Stations, Apart
      <4>2. rcvd'[h] = rcvd[h]
        BY <3>1, <1>2
      <4> QED
        BY <4>1, <4>2, <1>1, <1>3, Unmoved
    <3>4. \A c \in Channels : Over(c) => Over(c)'
      BY <2>2, <3>1, <1>1 DEF Over
    <3> QED
      BY <3>2, <3>3, <3>4
  <2> QED
    BY <2>1, <2>2, <1>1
<1>8. ASSUME ~Torn', NEW k \in Programs
      PROVE  Ends(k)'
  <2>1. Ends(k) /\ {A(k), B(k), C(k)} \subseteq Channels
    BY <1>3, <1>8, Stations
  <2> QED
    BY <2>1, <1>7, <1>1 DEF Ends, A, B, C, F, S, Over
<1> QED
  BY <1>2, <1>3, <1>5, <1>6, <1>7, <1>8

LEMMA DialTargetStep ==
    ASSUME IInv, DialTarget
    PROVE  IInv' /\ (Torn <=> Torn')
<1> USE DEF IInv
<1>1. /\ run["server"] = "dial" /\ run' = [run EXCEPT !["server"] = "splice"]
      /\ UNCHANGED <<gate, data, end, pipe, phase, sent, rcvd, told>>
  BY DEF DialTarget, network, programs
<1>2. run'["server"] = "splice" /\ run'["client"] = run["client"]
  BY <1>1 DEF Types, Sides
<1>3. Torn <=> Torn'
  BY <1>1, <1>2 DEF Torn
<1>4. Types'
  BY <1>1 DEF Types
<1>5. Closing'
  BY <1>1, <1>2 DEF Closing, Spliced, B, Dir, Sides
<1>6. \A g \in Programs : Counted(g)'
  BY <1>1, <1>3, Unmoved
<1>7. ~Torn' => \A g \in Programs : Ends(g)'
  BY <1>1, <1>3 DEF Ends, A, B, C, F, S, Over
<1> QED
  BY <1>3, <1>4, <1>5, <1>6, <1>7

LEMMA CutStep ==
    ASSUME IInv, Cut
    PROVE  IInv' /\ (Torn => Torn')
<1> USE DEF IInv
<1>1. /\ gate = "stripe"
      /\ end' = [c \in Channels |->
                   IF c[1] = "gate" /\ end[c] \in {"open", "fin"} THEN "cut" ELSE end[c]]
      /\ UNCHANGED <<gate, data, run, pipe, sent, rcvd, phase, told>>
  BY DEF Cut, programs
<1>2. Torn'
  <2>1. B("user") \in Channels /\ B("user")[1] = "gate"
    BY Ways, Stations
  <2>2. end'[B("user")] \in {"cut", "lost"}
    BY <2>1, <1>1 DEF Types
  <2> QED
    BY <2>1, <2>2 DEF Torn
<1>3. Types'
  BY <1>1 DEF Types
<1>4. Closing'
  BY <1>1 DEF Closing, Spliced
<1>5. \A g \in Programs : Counted(g)'
  BY <1>1, <1>2, Unmoved
<1> QED
  BY <1>2, <1>3, <1>4, <1>5

LEMMA ResetStep ==
    ASSUME IInv, Reset
    PROVE  IInv' /\ (Torn => Torn')
<1> USE DEF IInv
<1>1. /\ gate = "tcp"
      /\ end' = [c \in Channels |-> IF c[1] = "gate" THEN "lost" ELSE end[c]]
      /\ data' = [c \in Channels |-> IF c[1] = "gate" THEN 0 ELSE data[c]]
      /\ UNCHANGED <<gate, run, pipe, sent, rcvd, phase, told>>
  BY DEF Reset, programs
<1>2. Torn'
  <2>1. B("user") \in Channels /\ B("user")[1] = "gate"
    BY Ways, Stations
  <2>2. end'[B("user")] \in {"cut", "lost"}
    BY <2>1, <1>1
  <2> QED
    BY <2>1, <2>2 DEF Torn
<1>3. Types'
  <2>1. 0 \in 0 .. Cap
    BY RelayAssumption
  <2> QED
    BY <2>1, <1>1 DEF Types
<1>4. Closing'
  BY <1>1 DEF Closing, Spliced
<1>5. ASSUME NEW g \in Programs
      PROVE  Counted(g)'
  <2>1. OnTheWay(g)' = data'[A(g)] + Hand(F(g)) + data'[B(g)] + Hand(S(g)) + data'[C(g)]
    BY <1>1 DEF OnTheWay, Hand, A, B, C, F, S
  <2>2. \A c \in {A(g), B(g), C(g)} : data'[c] \in {0, data[c]}
    BY <1>1, Stations
  <2>3. rcvd[Peer(g)] + OnTheWay(g)' <= sent[g]
    BY <2>1, <2>2, TypesAt DEF Counted, OnTheWay
  <2> QED
    BY <2>3, <1>1, <1>2 DEF Counted, Peer
<1> QED
  BY <1>2, <1>3, <1>4, <1>5

\* A goroutine sits between two channels of one way.
LEMMA Place ==
    ASSUME NEW p \in Pipes
    PROVE  \E g \in Programs : \/ p = F(g) /\ Src(p) = A(g) /\ Dst(p) = B(g)
                               \/ p = S(g) /\ Src(p) = B(g) /\ Dst(p) = C(g)
<1>1. PICK g \in Programs : p \in {F(g), S(g)}
  BY Everything
<1> QED
  BY <1>1, Stations

LEMMA ReadSrcStep ==
    ASSUME IInv, NEW p \in Pipes, ReadSrc(p)
    PROVE  IInv' /\ (Torn <=> Torn')
<1> USE DEF IInv
<1> DEFINE c == Src(p)
<1>1. /\ pipe[p] = "read"
      /\ \/ /\ data[c] > 0
            /\ data' = [data EXCEPT ![c] = @ - 1] /\ pipe' = [pipe EXCEPT ![p] = "write"]
         \/ /\ Over(c) \/ Gone(c)
            /\ pipe' = [pipe EXCEPT ![p] = "end"] /\ data' = data
      /\ UNCHANGED <<gate, end, run, phase, sent, rcvd, told>>
  BY DEF ReadSrc, Over, Gone, programs
<1>2. PICK g \in Programs : \/ p = F(g) /\ c = A(g)
                            \/ p = S(g) /\ c = B(g)
  BY Place
<1>3. c \in Channels /\ data[c] \in 0 .. Cap /\ Cap \in Nat
  BY <1>2, Stations, RelayAssumption DEF Types
<1> HIDE DEF c
<1>4. Torn <=> Torn'
  BY <1>1 DEF Torn
<1>5. Types'
  <2>1. data[c] > 0 => data[c] - 1 \in 0 .. Cap
    BY <1>3
  <2>2. data' \in [Channels -> 0 .. Cap]
    BY <2>1, <1>1 DEF Types
  <2>3. pipe' \in [Pipes -> {"read", "write", "end", "done"}]
    BY <1>1 DEF Types
  <2> QED
    BY <2>2, <2>3, <1>1 DEF Types
<1>6. \A q \in Pipes : IF q = p THEN pipe'[q] \in {"write", "end"} ELSE pipe'[q] = pipe[q]
  BY <1>1 DEF Types
<1>7. Closing'
  <2>1. ASSUME NEW s \in Sides, Spliced(s)
        PROVE  Spliced(s)'
    <3>1. \A d \in Dirs : <<s, d>> \in Pipes
      BY DEF Pipes
    <3> QED
      BY <2>1, <3>1, <1>1, <1>6 DEF Spliced
  <2> QED
    BY <2>1, <1>1 DEF Closing, B, Dir
<1>8. ASSUME NEW h \in Programs
      PROVE  Counted(h)'
  <2>1. CASE h # g
    <3>1. F(h) # p /\ S(h) # p /\ c \notin {A(h), B(h), C(h)}
      BY <2>1, <1>2, Apart
    <3>2. \A d \in {A(h), B(h), C(h)} : data'[d] = data[d]
      BY <3>1, <1>1, <1>3, Stations DEF Types
    <3> QED
      BY <3>1, <3>2, <1>1, <1>4, <1>6, Stations, Unmoved
  <2>2. CASE h = g
    <3>1. OnTheWay(g)' = data'[A(g)] + Hand(F(g))' + data'[B(g)] + Hand(S(g))' + data'[C(g)]
      BY DEF OnTheWay, A, B, C
    <3>2. Hand(F(g))' = (IF pipe'[F(g)] = "write" THEN 1 ELSE 0)
          /\ Hand(S(g))' = (IF pipe'[S(g)] = "write" THEN 1 ELSE 0)
      BY DEF Hand, F, S
    <3>3. F(g) \in Pipes /\ S(g) \in Pipes /\ F(g) # S(g)
          /\ A(g) \in Channels /\ B(g) \in Channels /\ C(g) \in Channels
          /\ A(g) # B(g) /\ A(g) # C(g) /\ B(g) # C(g)
      BY Stations, Apart
    <3>4. CASE pipe' = [pipe EXCEPT ![p] = "end"] /\ data' = data
      <4>1. Hand(F(g))' = Hand(F(g)) /\ Hand(S(g))' = Hand(S(g))
        BY <3>2, <3>3, <3>4, <1>1, <1>6 DEF Hand
      <4> QED
        BY <4>1, <3>4, <2>2, <1>1, <1>4, Handless
    <3>5. CASE /\ data[c] > 0
               /\ data' = [data EXCEPT ![c] = @ - 1] /\ pipe' = [pipe EXCEPT ![p] = "write"]
      <4>1. /\ \A d \in Channels : data'[d] = IF d = c THEN data[d] - 1 ELSE data[d]
            /\ pipe'[p] = "write"
        BY <3>5 DEF Types
      <4>2. data'[C(g)] = data[C(g)]
        BY <4>1, <3>3, <1>2
      <4>3. \/ /\ data'[A(g)] = data[A(g)] - 1 /\ Hand(F(g)) = 0 /\ Hand(F(g))' = 1
               /\ data'[B(g)] = data[B(g)] /\ Hand(S(g))' = Hand(S(g))
            \/ /\ data'[B(g)] = data[B(g)] - 1 /\ Hand(S(g)) = 0 /\ Hand(S(g))' = 1
               /\ data'[A(g)] = data[A(g)] /\ Hand(F(g))' = Hand(F(g))
        BY <4>1, <3>2, <3>3, <1>1, <1>2, <1>6 DEF Hand
      <4>4. OnTheWay(g)' = OnTheWay(g)
        BY <4>2, <4>3, <3>1, TypesAt DEF OnTheWay
      <4> QED
        BY <4>4, <2>2, <1>1, <1>4 DEF Counted, Peer
    <3> QED
      BY <3>4, <3>5, <1>1
  <2> QED
    BY <2>1, <2>2
<1>9. ASSUME ~Torn', NEW h \in Programs
      PROVE  Ends(h)'
  <2>1. Ends(h) /\ {A(h), B(h), C(h)} \subseteq Channels /\ F(h) \in Pipes /\ S(h) \in Pipes
    BY <1>4, <1>9, Stations
  <2>2. \A d \in Channels : Over(d) => Over(d)'
    BY <1>1, <1>3 DEF Over, Types
  <2>3. ~Gone(c)
    BY <1>3, <1>4, <1>9 DEF Torn, Gone
  <2>4. pipe'[p] = "end" => Over(c)'
    BY <2>2, <2>3, <1>1, <1>3 DEF Types
  <2>5. /\ pipe'[F(h)] \in {"end", "done"} => Over(A(h))'
        /\ pipe'[S(h)] \in {"end", "done"} => Over(B(h))'
    BY <2>1, <2>2, <2>4, <1>2, <1>6, Apart DEF Ends
  <2>6. /\ end'[B(h)] = "fin" => pipe'[F(h)] = "done"
        /\ end'[C(h)] = "fin" => pipe'[S(h)] = "done"
    BY <2>1, <1>1, <1>6 DEF Ends
  <2> QED
    BY <2>1, <2>5, <2>6, <1>1 DEF Ends, A, B, C, F, S, Over
<1> QED
  BY <1>4, <1>5, <1>7, <1>8, <1>9

LEMMA WriteDstStep ==
    ASSUME IInv, NEW p \in Pipes, WriteDst(p)
    PROVE  IInv' /\ (Torn <=> Torn')
<1> USE DEF IInv
<1> DEFINE c == Dst(p)
<1>1. /\ pipe[p] = "write"
      /\ \/ /\ end[c] \in {"open", "cut"} /\ data[c] < Cap
            /\ data' = [data EXCEPT ![c] = @ + 1] /\ pipe' = [pipe EXCEPT ![p] = "read"]
         \/ /\ Gone(c) /\ data' = data
            /\ pipe' = [pipe EXCEPT ![p] = "read"] \/ pipe' = [pipe EXCEPT ![p] = "end"]
      /\ UNCHANGED <<gate, end, run, phase, sent, rcvd, told>>
  BY DEF WriteDst, Gone, programs
<1>2. PICK g \in Programs : \/ p = F(g) /\ c = B(g)
                            \/ p = S(g) /\ c = C(g)
  BY Place
<1>3. c \in Channels /\ data[c] \in 0 .. Cap /\ Cap \in Nat
  BY <1>2, Stations, RelayAssumption DEF Types
<1> HIDE DEF c
<1>4. (Torn <=> Torn') /\ (Gone(c) => Torn)
  BY <1>1, <1>3 DEF Torn, Gone
<1>5. Types'
  <2>1. data[c] < Cap => data[c] + 1 \in 0 .. Cap
    BY <1>3
  <2>2. data' \in [Channels -> 0 .. Cap]
    BY <2>1, <1>1 DEF Types
  <2>3. pipe' \in [Pipes -> {"read", "write", "end", "done"}]
    BY <1>1 DEF Types
  <2> QED
    BY <2>2, <2>3, <1>1 DEF Types
<1>6. \A q \in Pipes : IF q = p THEN pipe'[q] \in {"read", "end"} ELSE pipe'[q] = pipe[q]
  BY <1>1 DEF Types
<1>7. Closing'
  <2>1. ASSUME NEW s \in Sides, Spliced(s)
        PROVE  Spliced(s)'
    <3>1. \A d \in Dirs : <<s, d>> \in Pipes
      BY DEF Pipes
    <3> QED
      BY <2>1, <3>1, <1>1, <1>6 DEF Spliced
  <2> QED
    BY <2>1, <1>1 DEF Closing, B, Dir
<1>8. ASSUME NEW h \in Programs
      PROVE  Counted(h)'
  <2>1. CASE h # g
    <3>1. F(h) # p /\ S(h) # p /\ c \notin {A(h), B(h), C(h)}
      BY <2>1, <1>2, Apart
    <3>2. \A d \in {A(h), B(h), C(h)} : data'[d] = data[d]
      BY <3>1, <1>1, <1>3, Stations DEF Types
    <3> QED
      BY <3>1, <3>2, <1>1, <1>4, <1>6, Stations, Unmoved
  <2>2. CASE h = g
    <3>1. OnTheWay(g)' = data'[A(g)] + Hand(F(g))' + data'[B(g)] + Hand(S(g))' + data'[C(g)]
      BY DEF OnTheWay, A, B, C
    <3>2. Hand(F(g))' = (IF pipe'[F(g)] = "write" THEN 1 ELSE 0)
          /\ Hand(S(g))' = (IF pipe'[S(g)] = "write" THEN 1 ELSE 0)
      BY DEF Hand, F, S
    <3>3. F(g) \in Pipes /\ S(g) \in Pipes /\ F(g) # S(g)
          /\ A(g) \in Channels /\ B(g) \in Channels /\ C(g) \in Channels
          /\ A(g) # B(g) /\ A(g) # C(g) /\ B(g) # C(g)
      BY Stations, Apart
    <3>4. \/ Hand(F(g)) = 1 /\ Hand(F(g))' = 0 /\ Hand(S(g))' = Hand(S(g)) /\ c = B(g)
          \/ Hand(S(g)) = 1 /\ Hand(S(g))' = 0 /\ Hand(F(g))' = Hand(F(g)) /\ c = C(g)
      BY <3>2, <3>3, <1>1, <1>2, <1>6 DEF Hand
    <3>5. CASE Gone(c) /\ data' = data
      <4>1. rcvd[Peer(g)] + OnTheWay(g)' <= sent[g]
        BY <3>1, <3>4, <3>5, TypesAt DEF Counted, OnTheWay
      <4> QED
        BY <4>1, <3>5, <2>2, <1>1, <1>4 DEF Counted, Peer
    <3>6. CASE data' = [data EXCEPT ![c] = @ + 1]
      <4>1. \A d \in Channels : data'[d] = IF d = c THEN data[d] + 1 ELSE data[d]
        BY <3>6 DEF Types
      <4>2. data'[A(g)] = data[A(g)]
        BY <4>1, <3>3, <1>2
      <4>3. \/ /\ data'[B(g)] = data[B(g)] + 1 /\ Hand(F(g)) = 1 /\ Hand(F(g))' = 0
               /\ data'[C(g)] = data[C(g)] /\ Hand(S(g))' = Hand(S(g))
            \/ /\ data'[C(g)] = data[C(g)] + 1 /\ Hand(S(g)) = 1 /\ Hand(S(g))' = 0
               /\ data'[B(g)] = data[B(g)] /\ Hand(F(g))' = Hand(F(g))
        BY <4>1, <3>3, <3>4
      <4>4. OnTheWay(g)' = OnTheWay(g)
        BY <4>2, <4>3, <3>1, TypesAt DEF OnTheWay
      <4> QED
        BY <4>4, <2>2, <1>1, <1>4 DEF Counted, Peer
    <3> QED
      BY <3>5, <3>6, <1>1
  <2> QED
    BY <2>1, <2>2
<1>9. ASSUME ~Torn', NEW h \in Programs
      PROVE  Ends(h)'
  <2>1. Ends(h) /\ {A(h), B(h), C(h)} \subseteq Channels /\ F(h) \in Pipes /\ S(h) \in Pipes
    BY <1>4, <1>9, Stations
  <2>2. ~Gone(c) /\ pipe'[p] = "read" /\ end[c] = "open"
    BY <1>1, <1>3, <1>4, <1>9 DEF Types, Gone
  <2>3. \A d \in Channels : Over(d) => Over(d)'
    BY <2>2, <1>1, <1>3 DEF Over, Types
  <2>4. /\ pipe'[F(h)] \in {"end", "done"} => Over(A(h))'
        /\ pipe'[S(h)] \in {"end", "done"} => Over(B(h))'
    BY <2>1, <2>2, <2>3, <1>6 DEF Ends
  <2>5. /\ end'[B(h)] = "fin" => pipe'[F(h)] = "done"
        /\ end'[C(h)] = "fin" => pipe'[S(h)] = "done"
    BY <2>1, <1>1, <1>6 DEF Ends
  <2> QED
    BY <2>1, <2>4, <2>5, <1>1 DEF Ends, A, B, C, F, S, Over
<1> QED
  BY <1>4, <1>5, <1>7, <1>8, <1>9

LEMMA CloseWriteStep ==
    ASSUME IInv, NEW p \in Pipes, CloseWrite(p)
    PROVE  IInv' /\ (Torn <=> Torn')
<1> USE DEF IInv
<1> DEFINE c == Dst(p)
<1>1. /\ pipe[p] = "end" /\ pipe' = [pipe EXCEPT ![p] = "done"]
      /\ end' = [end EXCEPT ![c] = IF @ = "open" /\ ~Mute(c[1]) THEN "fin" ELSE @]
      /\ UNCHANGED <<gate, data, run, phase, sent, rcvd, told>>
  BY DEF CloseWrite, programs
<1>2. PICK g \in Programs : \/ p = F(g) /\ c = B(g)
                            \/ p = S(g) /\ c = C(g)
  BY Place
<1>3. c \in Channels
  BY <1>2, Stations
<1> HIDE DEF c
<1>4. \A d \in Channels : end'[d] = IF d = c /\ end[d] = "open" /\ ~Mute(c[1]) THEN "fin" ELSE end[d]
  BY <1>1, <1>3 DEF Types
<1>5. Torn <=> Torn'
  BY <1>1, <1>4 DEF Torn
<1>6. Types'
  BY <1>1, <1>3 DEF Types
<1>7. \A q \in Pipes : pipe'[q] = IF q = p THEN "done" ELSE pipe[q]
  BY <1>1 DEF Types
<1>8. Closing'
  <2>1. ASSUME NEW s \in Sides, Spliced(s)
        PROVE  Spliced(s)'
    <3>1. \A d \in Dirs : <<s, d>> \in Pipes
      BY DEF Pipes
    <3> QED
      BY <2>1, <3>1, <1>1, <1>7 DEF Spliced
  <2>2. ASSUME gate = "udp", NEW h \in Programs
        PROVE  end'[B(h)] = "open"
    <3>1. end[B(h)] = "open" /\ B(h) \in Channels /\ Mute(B(h)[1])
      BY <2>2, Stations DEF Closing
    <3> QED
      BY <3>1, <1>4
  <2> QED
    BY <2>1, <2>2, <1>1 DEF Closing, B, Dir
<1>9. ASSUME NEW h \in Programs
      PROVE  Counted(h)'
  <2>1. F(h) \in Pipes /\ S(h) \in Pipes
    BY Stations
  <2>2. Hand(F(h))' = (IF pipe'[F(h)] = "write" THEN 1 ELSE 0)
        /\ Hand(S(h))' = (IF pipe'[S(h)] = "write" THEN 1 ELSE 0)
    BY DEF Hand, F, S
  <2>3. Hand(F(h))' = Hand(F(h)) /\ Hand(S(h))' = Hand(S(h))
    BY <2>1, <2>2, <1>1, <1>7 DEF Hand
  <2> QED
    BY <2>3, <1>1, <1>5, Handless
<1>10. ASSUME ~Torn', NEW h \in Programs
       PROVE  Ends(h)'
  <2>1. Ends(h) /\ {A(h), B(h), C(h)} \subseteq Channels /\ F(h) \in Pipes /\ S(h) \in Pipes
    BY <1>5, <1>10, Stations
  <2>2. \A d \in Channels : Over(d) => Over(d)'
    BY <1>1, <1>4 DEF Over
  <2>3. /\ pipe'[F(h)] \in {"end", "done"} => Over(A(h))'
        /\ pipe'[S(h)] \in {"end", "done"} => Over(B(h))'
    BY <2>1, <2>2, <1>1, <1>7 DEF Ends
  <2>4. end'[B(h)] = "fin" => pipe'[F(h)] = "done"
    <3>1. B(h) = c => p = F(h)
      BY <1>2, Apart
    <3> QED
      BY <3>1, <2>1, <1>4, <1>7 DEF Ends
  <2>5. end'[C(h)] = "fin" => pipe'[S(h)] = "done"
    <3>1. C(h) = c => p = S(h)
      BY <1>2, Apart
    <3> QED
      BY <3>1, <2>1, <1>4, <1>7 DEF Ends
  <2>6. end'[A(h)] = "fin" => phase'[h] # "open"
    <3>1. A(h) # c
      BY <1>2, Apart
    <3> QED
      BY <3>1, <2>1, <1>1, <1>4 DEF Ends
  <2> QED
    BY <2>3, <2>4, <2>5, <2>6 DEF Ends, A, B, C, F, S, Over
<1> QED
  BY <1>5, <1>6, <1>8, <1>9, <1>10

-----------------------------------------------------------------------------
(* The theorems.                                                           *)

LEMMA Initially == Init => IInv
<1> SUFFICES ASSUME Init
             PROVE  IInv
  OBVIOUS
<1>1. Types
  <2>1. 0 \in 0 .. Cap /\ 0 \in Nat
    BY RelayAssumption
  <2> QED
    BY <2>1 DEF Init, Types
<1>2. Closing
  BY Stations DEF Init, Closing, Sides
<1>3. ~Torn
  BY DEF Init, Torn, Sides
<1>4. ASSUME NEW g \in Programs
      PROVE  Counted(g) /\ Ends(g)
  <2>1. /\ data[A(g)] = 0 /\ data[B(g)] = 0 /\ data[C(g)] = 0 /\ sent[g] = 0 /\ rcvd[Peer(g)] = 0
        /\ pipe[F(g)] = "read" /\ pipe[S(g)] = "read"
        /\ end[A(g)] = "open" /\ end[B(g)] = "open" /\ end[C(g)] = "open"
    BY Stations DEF Init
  <2>2. Total[g] \in Nat
    BY RelayAssumption DEF Programs
  <2> QED
    BY <2>1, <2>2 DEF Counted, OnTheWay, Hand, Ends
<1> QED
  BY <1>1, <1>2, <1>3, <1>4 DEF IInv

\* A step keeps the invariant, and nothing that is torn is mended.
LEMMA Step ==
    ASSUME IInv, [Next]_vars
    PROVE  IInv' /\ (Torn => Torn')
<1>1. CASE UNCHANGED vars
  <2>1. UNCHANGED <<gate, data, end, run, pipe, phase, sent, rcvd, told>>
    BY <1>1 DEF vars, network, programs
  <2>2. Torn <=> Torn'
    BY <2>1 DEF Torn
  <2>3. Types' /\ Closing'
    BY <2>1 DEF IInv, Types, Closing, Spliced, B, Dir
  <2>4. \A g \in Programs : Counted(g)'
    BY <2>1, <2>2, Unmoved DEF IInv
  <2>5. ~Torn' => \A g \in Programs : Ends(g)'
    BY <2>1, <2>2 DEF IInv, Ends, A, B, C, F, S, Over
  <2> QED
    BY <2>2, <2>3, <2>4, <2>5 DEF IInv
<1>2. CASE \E g \in Programs : Send(g) \/ Shutdown(g) \/ Receive(g) \/ Close(g)
  BY <1>2, SendStep, ShutdownStep, ReceiveStep, CloseStep
<1>3. CASE Cut \/ Reset
  BY <1>3, CutStep, ResetStep
<1>4. CASE \E p \in Pipes : PipeStep(p)
  BY <1>4, ReadSrcStep, WriteDstStep, CloseWriteStep DEF PipeStep
<1>5. CASE \E s \in Sides : SideStep(s)
  BY <1>5, DialTargetStep, DialFailsStep, CloseFarStep, CloseNearStep DEF SideStep
<1> QED
  BY <1>1, <1>2, <1>3, <1>4, <1>5 DEF Next

LEMMA Invariant == Spec => []IInv
<1>1. IInv /\ [Next]_vars => IInv'
  BY Step
<1> QED
  BY <1>1, Initially, PTL DEF Spec

\* The types; a program never receives more than the other has sent, and no
\* channel overflows.
THEOREM RelayTypes == Spec => []TypeOK
<1>1. IInv => TypeOK
  <2> SUFFICES ASSUME IInv
               PROVE  TypeOK
    OBVIOUS
  <2>1. ASSUME NEW g \in Programs
        PROVE  sent[g] \in 0 .. Total[g] /\ rcvd[Peer(g)] \in 0 .. sent[g]
    <3>1. /\ sent[g] \in Nat /\ rcvd[Peer(g)] \in Nat /\ Total[g] \in Nat /\ OnTheWay(g) >= 0
          /\ OnTheWay(g) \in Nat
      BY TypesAt DEF IInv, OnTheWay
    <3>2. sent[g] <= Total[g] /\ rcvd[Peer(g)] + OnTheWay(g) <= sent[g]
      BY DEF IInv, Counted
    <3> QED
      BY <3>1, <3>2
  <2>2. /\ sent["user"] \in 0 .. Total["user"] /\ rcvd["target"] \in 0 .. sent["user"]
        /\ sent["target"] \in 0 .. Total["target"] /\ rcvd["user"] \in 0 .. sent["target"]
    BY <2>1, Ways
  <2> QED
    BY <2>2 DEF IInv, Types, TypeOK
<1> QED
  BY <1>1, Invariant, PTL

\* splice, pipe and the Closes of both sides tear no session that was whole: a
\* side closes a link only when it has read everything that came over it.
THEOREM RelayIsGentle == Spec => RelayTearsNothing
<1>1. ASSUME IInv, [Next]_vars,
             pipe' # pipe \/ (\E s \in Sides : run[s] = "splice" /\ run'[s] = "closing")
      PROVE  ~Torn => ~Torn'
  <2>1. CASE UNCHANGED <<pipe, run>>
    BY <2>1, <1>1
  <2>2. CASE \E p \in Pipes : PipeStep(p)
    BY <2>2, <1>1, ReadSrcStep, WriteDstStep, CloseWriteStep DEF PipeStep
  <2>3. CASE \E s \in Sides : CloseFar(s)
    BY <2>3, <1>1, CloseFarStep
  <2>4. CASE DialTarget
    BY <2>4, <1>1, DialTargetStep
  <2>5. CASE DialFails
    <3>1. pipe' = pipe /\ run' = [run EXCEPT !["server"] = "refused"]
      BY <2>5 DEF DialFails
    <3>2. \A s \in Sides : run'[s] # "closing" \/ run'[s] = run[s]
      BY <3>1, <1>1 DEF IInv, Types
    <3> QED
      BY <3>1, <3>2, <1>1
  <2>6. CASE \E s \in Sides : CloseNear(s)
    <3>1. PICK t \in Sides : CloseNear(t)
      BY <2>6
    <3>2. pipe' = pipe /\ run' = [run EXCEPT ![t] = "closed"]
      BY <3>1 DEF CloseNear
    <3>3. \A s \in Sides : run'[s] # "closing" \/ run'[s] = run[s]
      BY <3>2, <1>1 DEF IInv, Types
    <3> QED
      BY <3>2, <3>3, <1>1
  <2>7. CASE \E g \in Programs : Send(g) \/ Shutdown(g) \/ Receive(g) \/ Close(g)
    BY <2>7, <2>1 DEF Send, Shutdown, Receive, Close
  <2>8. CASE Cut \/ Reset \/ UNCHANGED vars
    BY <2>8, <2>1 DEF Cut, Reset, vars
  <2> QED
    BY <2>2, <2>3, <2>4, <2>5, <2>6, <2>7, <2>8, <1>1 DEF Next, SideStep
<1>2. IInv /\ [Next]_vars =>
        [(pipe' # pipe \/ \E s \in Sides : run[s] = "splice" /\ run'[s] = "closing")
            /\ ~Torn => ~Torn']_vars
  BY <1>1
<1> QED
  BY <1>2, Invariant, PTL DEF Spec, RelayTearsNothing

-----------------------------------------------------------------------------
(* Each way is a stream.                                                   *)

\* Where the end has come through, everything that was sent has come before it.
LEMMA EndComesLast ==
    ASSUME IInv, ~Torn, NEW g \in Programs, end[C(g)] = "fin", data[C(g)] = 0
    PROVE  phase[g] # "open" /\ rcvd[Peer(g)] = sent[g]
<1>1. Ends(g)
  BY DEF IInv
<1>2. pipe[S(g)] = "done" /\ Over(B(g))
  BY <1>1 DEF Ends
<1>3. pipe[F(g)] = "done" /\ Over(A(g))
  BY <1>1, <1>2 DEF Ends, Over
<1>4. phase[g] # "open"
  BY <1>1, <1>3 DEF Ends, Over
<1>5. OnTheWay(g) = 0
  BY <1>2, <1>3 DEF OnTheWay, Hand, Over
<1>6. rcvd[Peer(g)] + OnTheWay(g) = sent[g] /\ rcvd[Peer(g)] \in Nat
  BY TypesAt DEF IInv, Counted
<1> QED
  BY <1>4, <1>5, <1>6

\* What a step may mean for the stream from g to the other program.
Same(g) == sent'[g] = sent[g] /\ rcvd'[Peer(g)] = rcvd[Peer(g)] /\ told'[Peer(g)] = told[Peer(g)]
Writes(g) ==
    /\ phase[g] = "open" /\ sent[g] < Total[g] /\ sent'[g] = sent[g] + 1
    /\ phase'[g] = phase[g] /\ rcvd'[Peer(g)] = rcvd[Peer(g)] /\ told'[Peer(g)] = told[Peer(g)]
    /\ Torn <=> Torn'
Delivers(g) ==
    /\ told[Peer(g)] = "none" /\ rcvd[Peer(g)] < sent[g] /\ rcvd'[Peer(g)] = rcvd[Peer(g)] + 1
    /\ sent'[g] = sent[g] /\ phase'[g] = phase[g] /\ told'[Peer(g)] = told[Peer(g)]
    /\ Torn <=> Torn'
Finishes(g) ==
    /\ told[Peer(g)] = "none"
    /\ \/ Torn /\ told'[Peer(g)] \in {"EOF", "error"}
       \/ phase[g] # "open" /\ rcvd[Peer(g)] = sent[g] /\ told'[Peer(g)] = "EOF"
    /\ sent'[g] = sent[g] /\ phase'[g] = phase[g] /\ rcvd'[Peer(g)] = rcvd[Peer(g)]
    /\ Torn <=> Torn'
EndsOrTears(g) ==
    /\ Same(g) /\ (Torn => Torn')
    /\ phase'[g] = phase[g] \/ phase'[g] # "open"

LEMMA StreamSteps ==
    ASSUME IInv, [Next]_vars, NEW g \in Programs
    PROVE  Writes(g) \/ Delivers(g) \/ Finishes(g) \/ EndsOrTears(g)
<1> DEFINE h == Peer(g)
<1>0. h \in Programs /\ Programs = {g, h} /\ g # h
  BY Stations
<1>1. Torn => Torn'
  BY Step
<1>2. CASE UNCHANGED <<phase, sent, rcvd, told>>
  BY <1>1, <1>2 DEF EndsOrTears, Same
<1>3. ASSUME NEW k \in Programs, Send(k)
      PROVE  Writes(g) \/ EndsOrTears(g)
  <2>1. Torn <=> Torn'
    BY <1>3, SendStep
  <2>2. /\ phase[k] = "open" /\ sent[k] < Total[k] /\ sent' = [sent EXCEPT ![k] = @ + 1]
        /\ UNCHANGED <<phase, rcvd, told>>
    BY <1>3 DEF Send
  <2>3. \A x \in Programs : sent'[x] = IF x = k THEN sent[x] + 1 ELSE sent[x]
    BY <2>2 DEF IInv, Types
  <2> QED
    BY <2>1, <2>2, <2>3 DEF Writes, EndsOrTears, Same
<1>4. ASSUME NEW k \in Programs, Shutdown(k) \/ Close(k)
      PROVE  EndsOrTears(g)
  <2>1. UNCHANGED <<sent, rcvd, told>>
    BY <1>4 DEF Shutdown, Close
  <2>2. phase' = [phase EXCEPT ![k] = "half"] \/ phase' = [phase EXCEPT ![k] = "closed"]
    BY <1>4 DEF Shutdown, Close
  <2>3. phase'[g] = phase[g] \/ phase'[g] # "open"
    BY <2>2 DEF IInv, Types
  <2> QED
    BY <2>1, <2>3, <1>1 DEF EndsOrTears, Same
<1>5. ASSUME NEW k \in Programs, Receive(k)
      PROVE  Delivers(g) \/ Finishes(g) \/ EndsOrTears(g)
  <2>1. Torn <=> Torn'
    BY <1>5, ReceiveStep
  <2>2. /\ told[k] = "none"
        /\ \/ /\ data[In(k)] > 0 /\ rcvd' = [rcvd EXCEPT ![k] = @ + 1] /\ told' = told
           \/ /\ data[In(k)] = 0 /\ end[In(k)] \in {"fin", "lost"} /\ rcvd' = rcvd
              /\ told' = [told EXCEPT ![k] = IF end[In(k)] = "fin" THEN "EOF" ELSE "error"]
        /\ UNCHANGED <<phase, sent>>
    BY <1>5 DEF Receive
  <2>3. CASE k = g
    <3>1. rcvd'[h] = rcvd[h] /\ told'[h] = told[h]
      BY <2>2, <2>3, <1>0 DEF IInv, Types
    <3> QED
      BY <3>1, <2>1, <2>2 DEF EndsOrTears, Same
  <2>4. CASE k = h
    <3>1. In(k) = C(g) /\ C(g) \in Channels
      BY <2>4, Stations
    <3>2. CASE data[C(g)] > 0 /\ rcvd' = [rcvd EXCEPT ![k] = @ + 1] /\ told' = told
      <4>1. rcvd'[h] = rcvd[h] + 1
        BY <3>2, <2>4, <1>0 DEF IInv, Types
      <4>2. rcvd[h] < sent[g]
        <5>1. rcvd[Peer(g)] + OnTheWay(g) <= sent[g]
          BY DEF IInv, Counted
        <5>2. OnTheWay(g) \in Nat /\ OnTheWay(g) >= data[C(g)] /\ data[C(g)] \in Nat
              /\ rcvd[Peer(g)] \in Nat /\ sent[g] \in Nat
          BY TypesAt DEF OnTheWay, IInv
        <5> QED
          BY <5>1, <5>2, <3>2
      <4> QED
        BY <4>1, <4>2, <3>2, <2>1, <2>2, <2>4 DEF Delivers
    <3>3. CASE /\ data[C(g)] = 0 /\ end[C(g)] \in {"fin", "lost"} /\ rcvd' = rcvd
               /\ told' = [told EXCEPT ![k] = IF end[C(g)] = "fin" THEN "EOF" ELSE "error"]
      <4>1. told'[h] = IF end[C(g)] = "fin" THEN "EOF" ELSE "error"
        BY <3>3, <2>4, <1>0 DEF IInv, Types
      <4>2. CASE Torn
        BY <4>1, <4>2, <3>3, <2>1, <2>2, <2>4 DEF Finishes
      <4>3. CASE ~Torn
        <5>1. end[C(g)] = "fin"
          BY <4>3, <3>1, <3>3 DEF Torn
        <5>2. phase[g] # "open" /\ rcvd[h] = sent[g]
          BY <5>1, <4>3, <3>3, EndComesLast
        <5> QED
          BY <5>1, <5>2, <4>1, <3>3, <2>1, <2>2, <2>4 DEF Finishes
      <4> QED
        BY <4>2, <4>3
    <3> QED
      BY <3>1, <3>2, <3>3, <2>2
  <2> QED
    BY <2>3, <2>4, <1>0
<1>6. CASE Cut \/ Reset
  BY <1>2, <1>6 DEF Cut, Reset, programs
<1>7. CASE \E p \in Pipes : PipeStep(p)
  BY <1>2, <1>7 DEF PipeStep, ReadSrc, WriteDst, CloseWrite, programs
<1>8. CASE \E s \in Sides : SideStep(s)
  BY <1>2, <1>8 DEF SideStep, DialTarget, DialFails, CloseFar, CloseNear, programs
<1>9. CASE UNCHANGED vars
  BY <1>2, <1>9 DEF vars, programs
<1> QED
  BY <1>3, <1>4, <1>5, <1>6, <1>7, <1>8, <1>9 DEF Next

\* What has been received, as a sequence.
LEMMA Counting ==
    ASSUME NEW n \in Nat
    PROVE  /\ Len([j \in 1 .. n |-> j]) = n
           /\ [j \in 1 .. n + 1 |-> j] = Append([j \in 1 .. n |-> j], n + 1)
<1> DEFINE s == [j \in 1 .. n |-> j]
           t == [j \in 1 .. n + 1 |-> j]
<1>1. s \in Seq(Nat) /\ Len(s) = n /\ t \in Seq(Nat) /\ Len(t) = n + 1
  <2>1. n + 1 \in Nat
    OBVIOUS
  <2>2. \A j \in 1 .. n + 1 : j \in Nat
    OBVIOUS
  <2>3. s \in Seq(Nat) /\ t \in Seq(Nat)
    BY <2>1, <2>2, IsASeq
  <2> QED
    BY <2>1, <2>3, LenProperties
<1>2. /\ Append(s, n + 1) \in Seq(Nat) /\ Len(Append(s, n + 1)) = n + 1
      /\ \A j \in 1 .. n : Append(s, n + 1)[j] = s[j]
      /\ Append(s, n + 1)[n + 1] = n + 1
  BY <1>1, AppendProperties
<1>3. \A j \in 1 .. n + 1 : t[j] = Append(s, n + 1)[j]
  <2> SUFFICES ASSUME NEW j \in 1 .. n + 1 PROVE t[j] = Append(s, n + 1)[j]
    OBVIOUS
  <2>1. CASE j = n + 1
    BY <2>1, <1>2
  <2>2. CASE j # n + 1
    <3>1. j \in 1 .. n
      BY <2>2
    <3> QED
      BY <3>1, <1>2
  <2> QED
    BY <2>1, <2>2
<1> HIDE DEF s
<1>4. t = Append(s, n + 1)
  <2> HIDE DEF t
  <2> QED
    BY <1>1, <1>2, <1>3, SeqEqual
<1> QED
  BY <1>1, <1>4 DEF s

LEMMA UpStep ==
    ASSUME IInv, [Next]_vars
    PROVE  [Up!Next]_(Up!vars)
<1>1. Writes("user") \/ Delivers("user") \/ Finishes("user") \/ EndsOrTears("user")
  BY StreamSteps DEF Programs
<1>2. rcvd["target"] \in Nat /\ Peer("user") = "target"
  BY Ways, TypesAt DEF IInv, Programs
<1>3. (Torn <=> Torn') => UNCHANGED Torn
  BY DEF Torn
<1>4. CASE Writes("user")
  <2>1. UNCHANGED <<phase["user"], rcvd["target"], told["target"]>> /\ UNCHANGED Torn
    BY <1>2, <1>3, <1>4 DEF Writes
  <2>2. phase["user"] = "open" /\ sent["user"] < Total["user"] /\ sent["user"]' = sent["user"] + 1
    BY <1>4 DEF Writes
  <2>3. Up!Write
    BY <2>1, <2>2 DEF Up!Write
  <2> QED
    BY <2>3 DEF Up!Next
<1>5. CASE Delivers("user")
  <2>1. Len([j \in 1 .. rcvd["target"] |-> j]) = rcvd["target"]
    BY <1>2, Counting
  <2>2. [j \in 1 .. rcvd["target"]' |-> j]
            = Append([j \in 1 .. rcvd["target"] |-> j], rcvd["target"] + 1)
    BY <1>2, <1>5, Counting DEF Delivers
  <2>3. UNCHANGED <<phase["user"], sent["user"], told["target"]>> /\ UNCHANGED Torn
    BY <1>2, <1>3, <1>5 DEF Delivers
  <2>4. told["target"] = "none" /\ rcvd["target"] < sent["user"]
    BY <1>2, <1>5 DEF Delivers
  <2>5. Up!Deliver
    BY <2>1, <2>2, <2>3, <2>4 DEF Up!Deliver
  <2> QED
    BY <2>5 DEF Up!Next
<1>6. CASE Finishes("user")
  <2>1. Len([j \in 1 .. rcvd["target"] |-> j]) = rcvd["target"]
    BY <1>2, Counting
  <2>2. UNCHANGED <<phase["user"], sent["user"], rcvd["target"]>> /\ UNCHANGED Torn
    BY <1>2, <1>3, <1>6 DEF Finishes
  <2>3. /\ told["target"] = "none"
        /\ \/ Torn /\ told["target"]' \in {"EOF", "error"}
           \/ /\ phase["user"] # "open" /\ rcvd["target"] = sent["user"]
              /\ told["target"]' = "EOF"
    BY <1>2, <1>6 DEF Finishes
  <2>4. Up!Finish
    BY <2>1, <2>2, <2>3 DEF Up!Finish
  <2> QED
    BY <2>4 DEF Up!Next
<1>7. CASE EndsOrTears("user")
  <2>1. UNCHANGED <<sent["user"], rcvd["target"], told["target"]>>
    BY <1>2, <1>7 DEF EndsOrTears, Same
  <2>2. phase["user"]' = phase["user"] \/ phase["user"]' # "open"
    BY <1>7 DEF EndsOrTears
  <2>3. CASE Torn'
    <3>1. Torn' = TRUE
      BY <2>3 DEF Torn
    <3>2. Up!Tear
      BY <2>1, <2>2, <3>1 DEF Up!Tear
    <3> QED
      BY <3>2 DEF Up!Next
  <2>4. CASE ~Torn'
    <3>1. UNCHANGED Torn
      BY <2>4, <1>3, <1>7 DEF EndsOrTears
    <3>2. CASE phase["user"]' = phase["user"]
      BY <2>1, <3>1, <3>2 DEF Up!vars
    <3>3. CASE phase["user"]' # "open"
      <4>1. Up!CloseWrite
        BY <2>1, <3>1, <3>3 DEF Up!CloseWrite
      <4> QED
        BY <4>1 DEF Up!Next
    <3> QED
      BY <2>2, <3>2, <3>3
  <2> QED
    BY <2>3, <2>4
<1> QED
  BY <1>1, <1>4, <1>5, <1>6, <1>7

LEMMA DownStep ==
    ASSUME IInv, [Next]_vars
    PROVE  [Down!Next]_(Down!vars)
<1>1. Writes("target") \/ Delivers("target") \/ Finishes("target") \/ EndsOrTears("target")
  BY StreamSteps DEF Programs
<1>2. rcvd["user"] \in Nat /\ Peer("target") = "user"
  BY Ways, TypesAt DEF IInv, Programs
<1>3. (Torn <=> Torn') => UNCHANGED Torn
  BY DEF Torn
<1>4. CASE Writes("target")
  <2>1. UNCHANGED <<phase["target"], rcvd["user"], told["user"]>> /\ UNCHANGED Torn
    BY <1>2, <1>3, <1>4 DEF Writes
  <2>2. phase["target"] = "open" /\ sent["target"] < Total["target"] /\ sent["target"]' = sent["target"] + 1
    BY <1>4 DEF Writes
  <2>3. Down!Write
    BY <2>1, <2>2 DEF Down!Write
  <2> QED
    BY <2>3 DEF Down!Next
<1>5. CASE Delivers("target")
  <2>1. Len([j \in 1 .. rcvd["user"] |-> j]) = rcvd["user"]
    BY <1>2, Counting
  <2>2. [j \in 1 .. rcvd["user"]' |-> j]
            = Append([j \in 1 .. rcvd["user"] |-> j], rcvd["user"] + 1)
    BY <1>2, <1>5, Counting DEF Delivers
  <2>3. UNCHANGED <<phase["target"], sent["target"], told["user"]>> /\ UNCHANGED Torn
    BY <1>2, <1>3, <1>5 DEF Delivers
  <2>4. told["user"] = "none" /\ rcvd["user"] < sent["target"]
    BY <1>2, <1>5 DEF Delivers
  <2>5. Down!Deliver
    BY <2>1, <2>2, <2>3, <2>4 DEF Down!Deliver
  <2> QED
    BY <2>5 DEF Down!Next
<1>6. CASE Finishes("target")
  <2>1. Len([j \in 1 .. rcvd["user"] |-> j]) = rcvd["user"]
    BY <1>2, Counting
  <2>2. UNCHANGED <<phase["target"], sent["target"], rcvd["user"]>> /\ UNCHANGED Torn
    BY <1>2, <1>3, <1>6 DEF Finishes
  <2>3. /\ told["user"] = "none"
        /\ \/ Torn /\ told["user"]' \in {"EOF", "error"}
           \/ /\ phase["target"] # "open" /\ rcvd["user"] = sent["target"]
              /\ told["user"]' = "EOF"
    BY <1>2, <1>6 DEF Finishes
  <2>4. Down!Finish
    BY <2>1, <2>2, <2>3 DEF Down!Finish
  <2> QED
    BY <2>4 DEF Down!Next
<1>7. CASE EndsOrTears("target")
  <2>1. UNCHANGED <<sent["target"], rcvd["user"], told["user"]>>
    BY <1>2, <1>7 DEF EndsOrTears, Same
  <2>2. phase["target"]' = phase["target"] \/ phase["target"]' # "open"
    BY <1>7 DEF EndsOrTears
  <2>3. CASE Torn'
    <3>1. Torn' = TRUE
      BY <2>3 DEF Torn
    <3>2. Down!Tear
      BY <2>1, <2>2, <3>1 DEF Down!Tear
    <3> QED
      BY <3>2 DEF Down!Next
  <2>4. CASE ~Torn'
    <3>1. UNCHANGED Torn
      BY <2>4, <1>3, <1>7 DEF EndsOrTears
    <3>2. CASE phase["target"]' = phase["target"]
      BY <2>1, <3>1, <3>2 DEF Down!vars
    <3>3. CASE phase["target"]' # "open"
      <4>1. Down!CloseWrite
        BY <2>1, <3>1, <3>3 DEF Down!CloseWrite
      <4> QED
        BY <4>1 DEF Down!Next
    <3> QED
      BY <2>2, <3>2, <3>3
  <2> QED
    BY <2>3, <2>4
<1> QED
  BY <1>1, <1>4, <1>5, <1>6, <1>7

LEMMA StreamsInit == Init => Up!Init /\ Down!Init
<1> SUFFICES ASSUME Init
             PROVE  Up!Init /\ Down!Init
  OBVIOUS
<1>1. \A g \in Programs : sent[g] = 0 /\ rcvd[g] = 0 /\ told[g] = "none" /\ phase[g] = "open"
  BY DEF Init
<1>2. Torn = FALSE
  BY DEF Init, Torn, Sides
<1>3. [j \in 1 .. 0 |-> j] = <<>>
  <2>1. [j \in 1 .. 0 |-> j] \in Seq(Nat)
    BY IsASeq
  <2>2. Len([j \in 1 .. 0 |-> j]) = 0
    BY Counting
  <2> QED
    BY <2>1, <2>2, EmptySeq
<1>4. (phase["user"] # "open") = FALSE /\ (phase["target"] # "open") = FALSE
  BY <1>1 DEF Programs
<1>5. /\ sent["user"] = 0 /\ rcvd["user"] = 0 /\ told["user"] = "none"
      /\ sent["target"] = 0 /\ rcvd["target"] = 0 /\ told["target"] = "none"
  BY <1>1 DEF Programs
<1> QED
  BY <1>2, <1>3, <1>4, <1>5 DEF Up!Init, Down!Init

\* Each direction of a session is the stream of StreamSpec, whatever the gate is
\* made of and whoever closes, cuts or half-closes when: what arrives is what was
\* sent, in order and without gaps, and a program is told "end of stream" only
\* after the last of it, unless a connection was lost.
THEOREM RelayImplementsStreams == Spec => RelayIsStream
<1>1. IInv /\ [Next]_vars => [Up!Next]_(Up!vars) /\ [Down!Next]_(Down!vars)
  BY UpStep, DownStep
<1>2. Init => Up!Init /\ Down!Init
  BY StreamsInit
<1>3. Spec => Up!Spec
  BY <1>1, <1>2, Invariant, PTL DEF Spec, Up!Spec
<1>4. Spec => Down!Spec
  BY <1>1, <1>2, Invariant, PTL DEF Spec, Down!Spec
<1> QED
  BY <1>3, <1>4 DEF RelayIsStream
=============================================================================
