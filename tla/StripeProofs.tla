---------------------------- MODULE StripeProofs ----------------------------
(***************************************************************************)
(* Theorems about Stripe, for any number of connections, chunks and sizes  *)
(* of the queues: its types, its safety invariants, and that it implements *)
(* StreamSpec.                                                             *)
(*                                                                         *)
(* The argument.  What travels by connection i is a chain: in the wire, in *)
(* the writer's hand and in the channel every chunk is N more than the one *)
(* before it.  The chain begins with Due(i), the chunk the reader will ask *)
(* this connection for, and ends just before NextIn(i), the chunk Write    *)
(* will hand to this connection.  So the reader gets the next chunk of the *)
(* stream or none, and meets a marker only when Due(i) = NextIn(i), that   *)
(* is when it has read all there is.                                       *)
(***************************************************************************)
EXTENDS Stripe, SequenceTheorems, TLAPS

\* How many connections after p it is i's turn.
Ahead(i, p) == i - p + (IF i < p THEN N ELSE 0)
NextIn(i) == sent + 1 + Ahead(i, Turn)
Due(i) == Len(got) + 1 + Ahead(i, rpos)

\* The chunks on the wire, without the marker or the torn item at its end.
Chunks(w) == IF w # <<>> /\ w[Len(w)] <= 0 THEN Len(w) - 1 ELSE Len(w)

\* The first n items of s are a, a + N, a + 2N...
Chain(s, n, a) ==
    /\ n > 0 => s[1] = a
    /\ \A j \in 1 .. n : j < n => s[j + 1] = s[j] + N
    /\ \A j, k \in 1 .. n : j < k => s[j] + N <= s[k]
\* ... and this is the one that follows.
After(s, n, a) == IF n = 0 THEN a ELSE s[n] + N

Queued(i) == IF chan[i] = <<>> THEN NextIn(i) ELSE chan[i][1]
Coming(i) == IF wr[i] = "write" THEN hold[i] ELSE Queued(i)
Arriving(i) == After(wire[i], Chunks(wire[i]), Due(i))

Types ==
    /\ sent \in 0 .. Total
    /\ pipe \in {"idle", "send", "half", "wait", "over", "failed"}
    /\ shut \in {"no", "quit", "wait", "done"}
    /\ closer \in {"no", "waiting", "closed", "done"}
    /\ chan \in [Conns -> Seq(1 .. Total)]
    /\ wr \in [Conns -> {"range", "write", "broken", "mark", "done"}]
    /\ hold \in [Conns -> 0 .. Total]
    /\ err \in BOOLEAN
    /\ link \in [Conns -> {"up", "fin", "reset"}]
    /\ wire \in [Conns -> Seq(Items)]
    /\ got \in Seq(Items)
    /\ rd \in {"read", "drain", "ended", "closed"}
    /\ rpos \in Conns
    /\ rerr \in {"none", "EOF", "error"}

\* How far the sending side is.
Phases ==
    /\ pipe = "send" => ~closed /\ sent < Total
    /\ shut = "done" => \A i \in Conns : wr[i] = "done"
    /\ pipe = "over" => shut = "done" /\ ~err
    /\ \A i \in Conns :
        /\ wr[i] \in {"mark", "done"} => closed /\ chan[i] = <<>>
        /\ wr[i] = "write" <=> hold[i] # 0
        /\ wr[i] = "broken" => link[i] # "up" /\ err

\* Markers and torn items are the last of their connection.
Wires == \A i \in Conns : LET w == wire[i] IN
    /\ \A j \in 1 .. Len(w) : w[j] <= 0 => j = Len(w)
    /\ \A j \in 1 .. Len(w) : w[j] = Marker => wr[i] = "done"
    /\ \A j \in 1 .. Len(w) : w[j] = Part => link[i] # "up"
    /\ link[i] = "reset" => w = <<>>

Room == \A i \in Conns :
    /\ Len(chan[i]) <= QueueLen
    /\ Len(wire[i]) <= Wire + (IF link[i] = "up" THEN 0 ELSE 1)

\* The sending half of the chain.
Laid == \A i \in Conns :
    /\ Chain(chan[i], Len(chan[i]), Queued(i))
    /\ After(chan[i], Len(chan[i]), NextIn(i)) = NextIn(i)
    /\ wr[i] = "write" => hold[i] + N = Queued(i)

\* The receiving half, as long as the reader follows it.
Flows(i) ==
    /\ Due(i) <= Coming(i)
    /\ link[i] # "reset" =>
        /\ Chain(wire[i], Chunks(wire[i]), Due(i))
        /\ Arriving(i) <= Coming(i)
        /\ wr[i] \in {"range", "write", "mark"} \/ (\E j \in 1 .. Len(wire[i]) : wire[i][j] = Marker)
             => Arriving(i) = Coming(i)

InOrder == Len(got) <= sent /\ \A j \in 1 .. Len(got) : got[j] = j

Reads ==
    /\ rd = "read" => \A i \in Conns : Flows(i)
    /\ rd = "drain" => closed /\ Len(got) = sent
    /\ DrainsMarkers
    /\ rd \in {"read", "drain"} => rerr = "none"

Holds(s, k) == \E j \in 1 .. Len(s) : s[j] = k

\* As long as nothing has failed every chunk is somewhere.
Kept == ~err /\ rd # "closed" /\ (\A i \in Conns : link[i] # "reset") =>
    \A k \in 1 .. sent :
        \/ k <= Len(got)
        \/ \E i \in Conns : Holds(chan[i], k) \/ hold[i] = k \/ Holds(wire[i], k)

IInv == Types /\ Phases /\ Wires /\ Room /\ Laid /\ InOrder /\ Reads /\ Kept

-----------------------------------------------------------------------------
(* Arithmetic: the connection that follows, and the turns until i's.       *)

LEMMA Multiple ==
    ASSUME NEW n \in Nat \ {0}, NEW a \in Int, a >= 1
    PROVE  n * a >= n
<1>1. n * (a - 1) >= 0
  OBVIOUS
<1>2. n * (a - 1) = n * a - n
  OBVIOUS
<1> QED
  BY <1>1, <1>2

LEMMA Division ==
    ASSUME NEW n \in Nat \ {0}
    PROVE  \A x \in Nat : /\ x % n \in 0 .. n - 1 /\ x \div n \in Nat
                          /\ x = n * (x \div n) + (x % n)
OBVIOUS

LEMMA Remainder ==
    ASSUME NEW n \in Nat \ {0}, NEW q \in Int, NEW r \in 0 .. n - 1,
           NEW p \in Int, NEW s \in 0 .. n - 1, n * q + r = n * p + s
    PROVE  r = s
<1>1. n * (q - p) = s - r /\ n * (p - q) = r - s
  OBVIOUS
<1>2. ~(q - p >= 1) /\ ~(p - q >= 1)
  BY <1>1, Multiple
<1>3. q = p
  BY <1>2
<1> QED
  BY <1>3

\* Counting up by one goes round 0 .. n - 1.
LEMMA Round ==
    ASSUME NEW n \in Nat \ {0}, NEW x \in Nat
    PROVE  /\ x % n \in 0 .. n - 1
           /\ (x + 1) % n = IF x % n = n - 1 THEN 0 ELSE (x % n) + 1
<1> DEFINE q == x \div n
           r == x % n
           p == (x + 1) \div n
           s == (x + 1) % n
<1>1. r \in 0 .. n - 1 /\ q \in Nat /\ x = n * q + r
  BY Division
<1>2. x + 1 \in Nat
  OBVIOUS
<1>3. s \in 0 .. n - 1 /\ p \in Nat /\ x + 1 = n * p + s
  BY <1>2, Division
<1> HIDE DEF p, q, r, s
<1>4. CASE r = n - 1
  <2>1. n * (q + 1) + 0 = n * p + s
    BY <1>1, <1>3, <1>4
  <2>2. s = 0
    BY <2>1, <1>1, <1>3, Remainder
  <2> QED
    BY <1>1, <1>4, <2>2 DEF r, s
<1>5. CASE r # n - 1
  <2>1. n * q + (r + 1) = n * p + s /\ r + 1 \in 0 .. n - 1
    BY <1>1, <1>3, <1>5
  <2>2. s = r + 1
    BY <2>1, <1>1, <1>3, Remainder
  <2> QED
    BY <1>1, <1>5, <2>2 DEF r, s
<1> QED
  BY <1>4, <1>5

LEMMA ConnsType ==
    /\ N \in Nat \ {0} /\ QueueLen \in Nat \ {0} /\ Wire \in Nat \ {0}
    /\ Total \in Nat /\ Conns = 0 .. N - 1 /\ 0 \in Conns
    /\ 1 .. Total \subseteq Items /\ Marker \in Items /\ Part \in Items
    /\ Items \subseteq Int
BY StripeAssumption DEF Conns, Items, Marker, Part

LEMMA FollowingType ==
    ASSUME NEW p \in Conns
    PROVE  Following(p) \in Conns /\ Following(p) = IF p = N - 1 THEN 0 ELSE p + 1
<1>1. p % N = p
  <2>1. p \in Nat /\ p < N /\ N \in Nat \ {0}
    BY ConnsType
  <2>2. N * 0 + p = N * (p \div N) + (p % N)
    <3>1. p = N * (p \div N) + (p % N) /\ N * 0 = 0
      BY <2>1, Division
    <3> QED
      BY <3>1, <2>1
  <2>3. p \div N \in Int /\ p % N \in 0 .. N - 1 /\ p \in 0 .. N - 1 /\ 0 \in Int
    BY <2>1, Division
  <2> QED
    BY <2>1, <2>2, <2>3, Remainder
<1>2. p \in Nat /\ N \in Nat \ {0} /\ Conns = 0 .. N - 1
  BY ConnsType
<1>3. (p + 1) % N = IF p % N = N - 1 THEN 0 ELSE (p % N) + 1
  BY <1>2, Round
<1> QED
  BY <1>1, <1>2, <1>3 DEF Following

LEMMA TurnType ==
    ASSUME sent \in Nat
    PROVE  Turn \in Conns /\ (sent + 1) % N = Following(Turn)
<1>1. Turn \in Conns /\ (sent + 1) % N = IF Turn = N - 1 THEN 0 ELSE Turn + 1
  BY ConnsType, Round DEF Turn
<1> QED
  BY <1>1, FollowingType

\* It is p's turn now, and that of every other connection comes one nearer.
LEMMA Nearer ==
    ASSUME NEW p \in Conns, NEW i \in Conns
    PROVE  /\ Ahead(i, p) \in 0 .. N - 1
           /\ (Ahead(i, p) = 0) <=> (i = p)
           /\ Ahead(i, Following(p)) = IF i = p THEN N - 1 ELSE Ahead(i, p) - 1
<1>1. N \in Nat \ {0} /\ i \in 0 .. N - 1 /\ p \in 0 .. N - 1
  BY ConnsType
<1>2. Following(p) = IF p = N - 1 THEN 0 ELSE p + 1
  BY FollowingType
<1>3. Ahead(i, p) \in 0 .. N - 1 /\ ((Ahead(i, p) = 0) <=> (i = p))
  BY <1>1 DEF Ahead
<1>4. Ahead(i, Following(p)) = IF i = p THEN N - 1 ELSE Ahead(i, p) - 1
  <2>1. CASE p = N - 1
    BY <1>1, <1>2, <2>1 DEF Ahead
  <2>2. CASE p # N - 1
    BY <1>1, <1>2, <2>2 DEF Ahead
  <2> QED
    BY <2>1, <2>2
<1> QED
  BY <1>3, <1>4

-----------------------------------------------------------------------------
(* Chains.                                                                 *)

LEMMA ChainAppend ==
    ASSUME NEW s \in Seq(Int), NEW a \in Int, NEW b \in Int,
           Chain(s, Len(s), a), After(s, Len(s), a) = b
    PROVE  /\ Chain(Append(s, b), Len(s) + 1, a)
           /\ After(Append(s, b), Len(s) + 1, a) = b + N
<1> DEFINE t == Append(s, b)
<1>1. /\ t \in Seq(Int) /\ Len(t) = Len(s) + 1 /\ t[Len(s) + 1] = b
      /\ \A j \in 1 .. Len(s) : t[j] = s[j]
  BY AppendProperties
<1>2. Len(s) \in Nat /\ N \in Nat /\ b \in Int /\ \A j \in 1 .. Len(s) : s[j] \in Int
  BY LenProperties, ElementOfSeq, ConnsType
<1> HIDE DEF t
<1>3. t[1] = a
  BY <1>1, <1>2 DEF Chain, After
<1>4. \A j \in 1 .. Len(s) + 1 : j < Len(s) + 1 => t[j + 1] = t[j] + N
  <2> SUFFICES ASSUME NEW j \in 1 .. Len(s) PROVE t[j + 1] = t[j] + N
    BY <1>2
  <2>1. CASE j = Len(s)
    <3>1. b = s[Len(s)] + N
      BY <1>2 DEF After
    <3> QED
      BY <3>1, <2>1, <1>1, <1>2
  <2>2. CASE j # Len(s)
    <3>1. j + 1 \in 1 .. Len(s) /\ s[j + 1] = s[j] + N
      BY <2>2, <1>2 DEF Chain
    <3> QED
      BY <3>1, <1>1
  <2> QED
    BY <2>1, <2>2
<1>5. \A j, k \in 1 .. Len(s) + 1 : j < k => t[j] + N <= t[k]
  <2> SUFFICES ASSUME NEW j \in 1 .. Len(s) + 1, NEW k \in 1 .. Len(s) + 1, j < k
               PROVE  t[j] + N <= t[k]
    OBVIOUS
  <2>1. j \in 1 .. Len(s) /\ t[j] = s[j]
    <3>1. j \in 1 .. Len(s)
      BY <1>2
    <3> QED
      BY <3>1, <1>1
  <2>2. CASE k = Len(s) + 1
    <3>1. s[Len(s)] + N = b
      BY <1>2, <2>1 DEF After
    <3>2. s[j] <= s[Len(s)]
      <4>1. Len(s) \in 1 .. Len(s) /\ s[j] \in Int /\ N >= 0
        BY <1>2, <2>1
      <4>2. j < Len(s) => s[j] + N <= s[Len(s)]
        BY <4>1, <2>1 DEF Chain
      <4> QED
        BY <4>1, <4>2, <1>2, <2>1
    <3>3. t[k] = b /\ t[j] = s[j] /\ s[j] \in Int /\ s[Len(s)] \in Int /\ N \in Nat
      <4>1. Len(s) \in 1 .. Len(s)
        BY <1>2, <2>1
      <4> QED
        BY <4>1, <2>1, <2>2, <1>1, <1>2
    <3> QED
      BY <3>1, <3>2, <3>3
  <2>3. CASE k # Len(s) + 1
    <3>1. k \in 1 .. Len(s)
      BY <2>3, <1>2
    <3>2. s[j] + N <= s[k]
      BY <3>1, <2>1 DEF Chain
    <3> QED
      BY <3>1, <3>2, <2>1, <1>1
  <2> QED
    BY <2>2, <2>3
<1> QED
  BY <1>1, <1>2, <1>3, <1>4, <1>5 DEF Chain, After, t

\* Only the first n items matter.
LEMMA ChainSame ==
    ASSUME NEW s, NEW t, NEW n \in Nat, NEW a \in Int,
           \A j \in 1 .. n : t[j] = s[j]
    PROVE  /\ Chain(s, n, a) => Chain(t, n, a)
           /\ After(t, n, a) = After(s, n, a)
BY DEF Chain, After

LEMMA ChainTail ==
    ASSUME NEW s \in Seq(Int), NEW a \in Int,
           NEW n \in 1 .. Len(s), Chain(s, n, a)
    PROVE  /\ Head(s) = a
           /\ Chain(Tail(s), n - 1, a + N)
           /\ After(Tail(s), n - 1, a + N) = After(s, n, a)
<1> DEFINE t == Tail(s)
<1>1. s # <<>> /\ Len(s) \in Nat /\ Head(s) = s[1]
  BY LenProperties
<1>2. t \in Seq(Int) /\ Len(t) = Len(s) - 1 /\ \A j \in 1 .. Len(t) : t[j] = s[j + 1]
  BY <1>1, HeadTailProperties
<1>3. N \in Nat /\ \A j \in 1 .. Len(s) : s[j] \in Int
  BY ElementOfSeq, ConnsType
<1> HIDE DEF t
<1>4. Chain(t, n - 1, a + N)
  <2>1. n - 1 > 0 => t[1] = a + N
    BY <1>2, <1>3 DEF Chain
  <2>2. ASSUME NEW j \in 1 .. n - 1, j < n - 1
        PROVE  t[j + 1] = t[j] + N
    <3>1. j + 1 \in 1 .. n /\ j + 1 < n /\ j \in 1 .. Len(t) /\ j + 1 \in 1 .. Len(t)
      BY <1>1, <1>2, <2>2
    <3>2. s[(j + 1) + 1] = s[j + 1] + N
      BY <3>1 DEF Chain
    <3> QED
      BY <3>1, <3>2, <1>2
  <2>3. ASSUME NEW j \in 1 .. n - 1, NEW k \in 1 .. n - 1, j < k
        PROVE  t[j] + N <= t[k]
    <3>1. j + 1 \in 1 .. n /\ k + 1 \in 1 .. n /\ j + 1 < k + 1
          /\ j \in 1 .. Len(t) /\ k \in 1 .. Len(t)
      BY <1>1, <1>2, <2>3
    <3>2. s[j + 1] + N <= s[k + 1]
      BY <3>1 DEF Chain
    <3>3. t[j] = s[j + 1] /\ t[k] = s[k + 1]
      BY <3>1, <1>2
    <3> QED
      BY <3>2, <3>3
  <2> QED
    BY <2>1, <2>2, <2>3 DEF Chain
<1> QED
  BY <1>1, <1>2, <1>3, <1>4 DEF Chain, After, t

\* The items of a wire after one has been sent or read.
LEMMA ChunksType ==
    ASSUME NEW w \in Seq(Items)
    PROVE  /\ Len(w) \in Nat /\ \A j \in 1 .. Len(w) : w[j] \in Items /\ w[j] \in Int
           /\ Chunks(w) \in 0 .. Len(w)
           /\ \A j \in 1 .. Len(w) : w[j] > 0 \/ w[j] = Marker \/ w[j] = Part
<1>1. Len(w) \in Nat /\ \A j \in 1 .. Len(w) : w[j] \in Items
  BY LenProperties, ElementOfSeq
<1>2. \A x \in Items : x \in Int /\ (x > 0 \/ x = Marker \/ x = Part)
  BY ConnsType DEF Items
<1>3. w # <<>> => Len(w) # 0
  BY EmptySeq
<1> QED
  BY <1>1, <1>2, <1>3 DEF Chunks

LEMMA ChunksAppend ==
    ASSUME NEW w \in Seq(Items), NEW b \in Items, \A j \in 1 .. Len(w) : w[j] > 0
    PROVE  /\ Chunks(w) = Len(w)
           /\ Append(w, b) \in Seq(Items) /\ Len(Append(w, b)) = Len(w) + 1
           /\ \A j \in 1 .. Len(w) : Append(w, b)[j] = w[j]
           /\ Append(w, b)[Len(w) + 1] = b
           /\ Chunks(Append(w, b)) = IF b > 0 THEN Len(w) + 1 ELSE Len(w)
<1> DEFINE t == Append(w, b)
<1>1. /\ t \in Seq(Items) /\ t # <<>> /\ Len(t) = Len(w) + 1 /\ t[Len(w) + 1] = b
      /\ \A j \in 1 .. Len(w) : t[j] = w[j]
  BY AppendProperties
<1>2. Len(w) \in Nat /\ (w # <<>> => Len(w) # 0) /\ b \in Int
      /\ \A j \in 1 .. Len(w) : w[j] \in Int
  BY ChunksType, EmptySeq, ConnsType
<1> HIDE DEF t
<1>3. Chunks(w) = Len(w)
  BY <1>2 DEF Chunks
<1>4. Chunks(t) = IF b > 0 THEN Len(w) + 1 ELSE Len(w)
  BY <1>1, <1>2 DEF Chunks
<1> QED
  BY <1>1, <1>3, <1>4 DEF t

LEMMA ChunksTail ==
    ASSUME NEW w \in Seq(Items), w # <<>>
    PROVE  /\ Head(w) = w[1] /\ Len(w) >= 1
           /\ Tail(w) \in Seq(Items) /\ Len(Tail(w)) = Len(w) - 1
           /\ \A j \in 1 .. Len(w) - 1 : Tail(w)[j] = w[j + 1]
           /\ Head(w) > 0 => Chunks(w) >= 1 /\ Chunks(Tail(w)) = Chunks(w) - 1
<1> DEFINE t == Tail(w)
<1>1. t \in Seq(Items) /\ Len(t) = Len(w) - 1 /\ \A j \in 1 .. Len(t) : t[j] = w[j + 1]
  BY HeadTailProperties
<1>2. Len(w) \in Nat /\ Len(w) # 0 /\ \A j \in 1 .. Len(w) : w[j] \in Int
  BY ChunksType, EmptySeq
<1>5. Head(w) = w[1]
  OBVIOUS
<1>3. t # <<>> => Len(t) # 0
  BY <1>1, EmptySeq
<1> HIDE DEF t
<1>4. ASSUME w[1] > 0
      PROVE  Chunks(w) >= 1 /\ Chunks(t) = Chunks(w) - 1
  <2>1. CASE Len(w) = 1
    BY <1>1, <1>2, <1>3, <1>4, <2>1 DEF Chunks
  <2>2. CASE Len(w) # 1
    <3>1. t[Len(t)] = w[Len(w)] /\ t # <<>>
      BY <1>1, <1>2, <2>2
    <3> QED
      BY <3>1, <1>1, <1>2, <2>2 DEF Chunks
  <2> QED
    BY <2>1, <2>2
<1> QED
  BY <1>1, <1>2, <1>4, <1>5 DEF t

LEMMA HoldsLonger ==
    ASSUME NEW w, NEW t, Len(w) \in Nat, Len(t) = Len(w) + 1, NEW k,
           \A j \in 1 .. Len(w) : t[j] = w[j]
    PROVE  (Holds(w, k) => Holds(t, k)) /\ (t[Len(w) + 1] = k => Holds(t, k))
<1>1. \A j \in 1 .. Len(w) : j \in 1 .. Len(t)
  OBVIOUS
<1>2. Len(w) + 1 \in 1 .. Len(t)
  OBVIOUS
<1> QED
  BY <1>1, <1>2 DEF Holds

LEMMA HoldsTail ==
    ASSUME NEW w \in Seq(Items), w # <<>>, NEW k, Holds(w, k), Head(w) # k
    PROVE  Holds(Tail(w), k)
<1>1. PICK j \in 1 .. Len(w) : w[j] = k
  BY DEF Holds
<1>2. j # 1 /\ Len(w) \in Nat
  BY <1>1, ChunksTail, ChunksType
<1>3. j - 1 \in 1 .. Len(w) - 1 /\ (j - 1) + 1 = j
  BY <1>2
<1>4. Tail(w)[j - 1] = k /\ j - 1 \in 1 .. Len(Tail(w))
  BY <1>1, <1>3, ChunksTail
<1> QED
  BY <1>4 DEF Holds

-----------------------------------------------------------------------------
(* Frames: what a step that touches only other state preserves.            *)

LEMMA LaidFrame ==
    ASSUME Laid, UNCHANGED <<sent, chan, hold>>,
           \A i \in Conns : wr'[i] = "write" => wr[i] = "write"
    PROVE  Laid'
BY DEF Laid, Queued, NextIn, Turn, Ahead, Chain, After

LEMMA FlowsSame ==
    ASSUME NEW i \in Conns, Flows(i), Due(i)' = Due(i),
           wire'[i] = wire[i], link'[i] = link[i], Coming(i)' = Coming(i),
           wr'[i] \in {"range", "write", "mark"} => wr[i] \in {"range", "write", "mark"}
    PROVE  Flows(i)'
BY DEF Flows, Arriving, Chain, After, Chunks

LEMMA FlowsFrame ==
    ASSUME NEW i \in Conns, Flows(i), UNCHANGED <<got, rpos>>,
           wire'[i] = wire[i], link'[i] = link[i], Coming(i)' = Coming(i),
           wr'[i] \in {"range", "write", "mark"} => wr[i] \in {"range", "write", "mark"}
    PROVE  Flows(i)'
<1>1. Due(i)' = Due(i)
  BY DEF Due, Ahead
<1> QED
  BY <1>1, FlowsSame

LEMMA ComingFrame ==
    ASSUME UNCHANGED <<sent, chan, wr, hold>>, NEW i \in Conns
    PROVE  Coming(i)' = Coming(i)
BY DEF Coming, Queued, NextIn, Turn, Ahead

\* Types, without its quantifiers over data.
LEMMA TypesAt ==
    ASSUME Types
    PROVE  /\ sent \in Nat /\ Turn \in Conns /\ rpos \in Conns /\ Len(got) \in Nat
           /\ \A i \in Conns :
               /\ chan[i] \in Seq(1 .. Total) /\ Len(chan[i]) \in Nat
               /\ \A j \in 1 .. Len(chan[i]) : chan[i][j] \in 1 .. Total
               /\ wire[i] \in Seq(Items) /\ Len(wire[i]) \in Nat
               /\ \A j \in 1 .. Len(wire[i]) : wire[i][j] \in Int
               /\ hold[i] \in Nat
               /\ chan[i] \in Seq(Int) /\ wire[i] \in Seq(Int)
<1>1. sent \in Nat /\ rpos \in Conns /\ Len(got) \in Nat
  BY LenProperties, ConnsType DEF Types
<1>2. Turn \in Conns
  BY <1>1, TurnType
<1>3. ASSUME NEW i \in Conns
      PROVE  /\ chan[i] \in Seq(1 .. Total) /\ Len(chan[i]) \in Nat
             /\ \A j \in 1 .. Len(chan[i]) : chan[i][j] \in 1 .. Total
             /\ wire[i] \in Seq(Items) /\ Len(wire[i]) \in Nat
             /\ \A j \in 1 .. Len(wire[i]) : wire[i][j] \in Int
             /\ hold[i] \in Nat
             /\ chan[i] \in Seq(Int) /\ wire[i] \in Seq(Int)
  <2>1. chan[i] \in Seq(1 .. Total) /\ wire[i] \in Seq(Items) /\ hold[i] \in Nat
    <3>1. hold[i] \in 0 .. Total
      BY DEF Types
    <3> QED
      BY <3>1 DEF Types
  <2>2. chan[i] \in Seq(Int) /\ wire[i] \in Seq(Int)
    BY <2>1, SeqMonotonic, ConnsType
  <2>3. Len(chan[i]) \in Nat /\ \A j \in 1 .. Len(chan[i]) : chan[i][j] \in 1 .. Total
    BY <2>1, LenProperties, ElementOfSeq
  <2>4. Len(wire[i]) \in Nat /\ \A j \in 1 .. Len(wire[i]) : wire[i][j] \in Int
    BY <2>1, ChunksType
  <2> QED
    BY <2>1, <2>2, <2>3, <2>4
<1> QED
  BY <1>1, <1>2, <1>3

\* The numbers the chain is made of.
LEMMA Numbers ==
    ASSUME Types, NEW i \in Conns
    PROVE  /\ Ahead(i, Turn) \in 0 .. N - 1 /\ Ahead(i, rpos) \in 0 .. N - 1
           /\ NextIn(i) \in Int /\ Due(i) \in Int /\ Queued(i) \in Int /\ Coming(i) \in Int
           /\ NextIn(i) > sent /\ Due(i) > Len(got)
<1>1. Ahead(i, Turn) \in 0 .. N - 1 /\ Ahead(i, rpos) \in 0 .. N - 1
  BY TypesAt, Nearer
<1>2. NextIn(i) \in Int /\ Due(i) \in Int /\ NextIn(i) > sent /\ Due(i) > Len(got)
  <2>1. sent \in Nat /\ Len(got) \in Nat /\ N \in Nat
    BY TypesAt, ConnsType
  <2> HIDE DEF Ahead
  <2> QED
    BY <1>1, <2>1 DEF NextIn, Due
<1>3. Queued(i) \in Int
  <2>1. chan[i] # <<>> => 1 \in 1 .. Len(chan[i])
    BY TypesAt, EmptySeq
  <2>2. chan[i] # <<>> => chan[i][1] \in Int
    BY <2>1, TypesAt, ConnsType
  <2> QED
    BY <2>2, <1>2 DEF Queued
<1>4. Coming(i) \in Int
  BY <1>3, TypesAt DEF Coming
<1> QED
  BY <1>1, <1>2, <1>3, <1>4

-----------------------------------------------------------------------------
(* The steps.                                                              *)

\* The pipe, CloseWrite and Close move on; nothing else changes.
Quiet == UNCHANGED <<sent, writers, net, reader>>

LEMMA QuietStep ==
    ASSUME IInv, Quiet, Types', Phases', closed => closed'
    PROVE  IInv'
<1> USE DEF IInv, Quiet, writers, net, reader
<1>1. Wires' /\ Room'
  BY DEF Wires, Room
<1>2. Laid'
  BY LaidFrame
<1>3. \A i \in Conns : Flows(i) => Flows(i)'
  BY FlowsFrame, ComingFrame
<1>4. InOrder' /\ Reads'
  BY <1>3 DEF InOrder, Reads, DrainsMarkers
<1>5. Kept'
  BY DEF Kept, Holds
<1> QED
  BY <1>1, <1>2, <1>4, <1>5

LEMMA PipeQuiet ==
    ASSUME IInv,
           BeginWrite \/ SendQuits \/ CloseWrite \/ CloseWriteReturns \/ SourceEnds
    PROVE  IInv'
<1> USE DEF IInv, Types, Phases, writers, net, reader, closed, quit
<1>1. CASE BeginWrite
  <2>1. sent < Total /\ UNCHANGED <<sent, shut, closer, writers, net, reader>>
        /\ pipe' = IF closed \/ err THEN "half" ELSE "send"
    BY <1>1 DEF BeginWrite
  <2>2. Types' /\ Phases' /\ Quiet /\ (closed => closed')
    BY <2>1 DEF Quiet
  <2> QED
    BY <2>2, QuietStep
<1>2. CASE SendQuits
  <2>1. Types' /\ Phases' /\ Quiet /\ (closed => closed')
    BY <1>2 DEF SendQuits, Quiet
  <2> QED
    BY <2>1, QuietStep
<1>3. CASE CloseWrite
  <2>1. pipe' = "wait" /\ shut' = Once /\ pipe = "half"
        /\ UNCHANGED <<sent, closer, writers, net, reader>>
    BY <1>3 DEF CloseWrite
  <2>2. Types' /\ Phases' /\ Quiet /\ (closed => closed')
    BY <2>1 DEF Quiet, Once
  <2> QED
    BY <2>2, QuietStep
<1>4. CASE CloseWriteReturns
  <2>1. Types' /\ Phases' /\ Quiet /\ (closed => closed')
    BY <1>4 DEF CloseWriteReturns, Quiet
  <2> QED
    BY <2>1, QuietStep
<1>5. CASE SourceEnds
  <2>1. Types' /\ Phases' /\ Quiet /\ (closed => closed')
    BY <1>5 DEF SourceEnds, Quiet
  <2> QED
    BY <2>1, QuietStep
<1> QED
  BY <1>1, <1>2, <1>3, <1>4, <1>5

LEMMA CloseQuiet ==
    ASSUME IInv, ShutStep \/ Close \/ CloseReturns \/ UNCHANGED vars
    PROVE  IInv'
<1> USE DEF IInv, Types, Phases, writers, net, reader, closed, quit
<1>1. CASE Shut
  <2>1. Types' /\ Phases' /\ Quiet /\ (closed => closed')
    BY <1>1 DEF Shut, Quiet
  <2> QED
    BY <2>1, QuietStep
<1>2. CASE Waited
  <2>1. Types' /\ Phases' /\ Quiet /\ (closed => closed')
    BY <1>2 DEF Waited, Quiet
  <2> QED
    BY <2>1, QuietStep
<1>3. CASE Close
  <2>1. closer' = "waiting" /\ shut' = Once
        /\ UNCHANGED <<sent, pipe, writers, net, reader>>
    BY <1>3 DEF Close
  <2>2. Types' /\ Phases' /\ Quiet /\ (closed => closed')
    BY <2>1 DEF Quiet, Once
  <2> QED
    BY <2>2, QuietStep
<1>4. CASE CloseReturns
  <2>1. Types' /\ Phases' /\ Quiet /\ (closed => closed')
    BY <1>4 DEF CloseReturns, Quiet
  <2> QED
    BY <2>1, QuietStep
<1>5. CASE UNCHANGED vars
  <2>1. Types' /\ Phases' /\ Quiet /\ (closed => closed')
    BY <1>5 DEF vars, sender, Quiet
  <2> QED
    BY <2>1, QuietStep
<1> QED
  BY <1>1, <1>2, <1>3, <1>4, <1>5 DEF ShutStep

LEMMA SendStep ==
    ASSUME IInv, Send
    PROVE  IInv'
<1> USE DEF IInv
<1>0. PICK t \in Conns : t = Turn
  BY TypesAt
<1>1. /\ pipe = "send" /\ ~closed /\ sent < Total /\ Len(chan[t]) < QueueLen
      /\ chan' = [chan EXCEPT ![t] = Append(@, sent + 1)]
      /\ sent' = sent + 1
      /\ \/ pipe' = IF err THEN "half" ELSE "idle"
         \/ sent' < Total /\ pipe' = "send"
      /\ UNCHANGED <<shut, closer, wr, hold, err, net, reader>>
  BY <1>0 DEF Send, Phases
<1>2. t \in Conns /\ sent + 1 \in 1 .. Total /\ chan \in [Conns -> Seq(1 .. Total)]
  BY <1>1, TypesAt, ConnsType DEF Types
<1>3. Turn' = Following(t)
  BY <1>0, <1>1, TurnType, TypesAt DEF Turn
<1>4. \A i \in Conns : chan'[i] = IF i = t THEN Append(chan[t], sent + 1) ELSE chan[i]
  BY <1>1, <1>2
<1>5. /\ chan'[t] \in Seq(1 .. Total) /\ Len(chan'[t]) = Len(chan[t]) + 1
      /\ \A j \in 1 .. Len(chan[t]) : chan'[t][j] = chan[t][j]
      /\ chan'[t][Len(chan[t]) + 1] = sent + 1 /\ chan'[t] # <<>>
  <2>1. chan[t] \in Seq(1 .. Total) /\ chan'[t] = Append(chan[t], sent + 1)
    BY <1>2, <1>4
  <2> QED
    BY <2>1, <1>2, AppendProperties
<1>6. Types' /\ Phases'
  BY <1>1, <1>2, <1>4, <1>5 DEF Types, Phases, closed, net, reader
<1>7. Wires'
  <2>1. UNCHANGED <<wire, link, wr>>
    BY <1>1 DEF net
  <2> QED
    BY <2>1 DEF Wires
<1>14. Room'
  <2> SUFFICES ASSUME NEW i \in Conns PROVE Len(chan'[i]) <= QueueLen
    BY <1>1 DEF Room, net
  <2>1. CASE i = t
    BY <2>1, <1>1, <1>2, <1>5, TypesAt, ConnsType
  <2>2. CASE i # t
    BY <2>2, <1>4 DEF Room
  <2> QED
    BY <2>1, <2>2
<1>8. NextIn(t) = sent + 1 /\ \A i \in Conns : NextIn(i)' = IF i = t THEN NextIn(i) + N ELSE NextIn(i)
  <2>1. Ahead(t, t) = 0
    BY <1>2, Nearer
  <2>2. ASSUME NEW i \in Conns
        PROVE  NextIn(i)' = IF i = t THEN NextIn(i) + N ELSE NextIn(i)
    <3>1. /\ Ahead(i, t) \in 0 .. N - 1 /\ ((Ahead(i, t) = 0) <=> (i = t))
          /\ Ahead(i, Following(t)) = IF i = t THEN N - 1 ELSE Ahead(i, t) - 1
      BY <1>2, Nearer
    <3>2. NextIn(i) = sent + 1 + Ahead(i, t) /\ NextIn(i)' = sent + 1 + 1 + Ahead(i, Following(t))
      BY <1>0, <1>1, <1>3 DEF NextIn
    <3>3. sent \in Nat /\ N \in Nat
      BY TypesAt, ConnsType
    <3> HIDE DEF Ahead, Following
    <3> QED
      BY <3>1, <3>2, <3>3
  <2>3. NextIn(t) = sent + 1
    BY <1>0, <2>1, TypesAt DEF NextIn
  <2> QED
    BY <2>2, <2>3
<1>9. \A i \in Conns : Queued(i)' = Queued(i) /\ Coming(i)' = Coming(i)
  <2>1. ASSUME NEW i \in Conns PROVE Queued(i)' = Queued(i)
    <3>1. CASE i # t
      BY <3>1, <1>4, <1>8 DEF Queued
    <3>2. CASE i = t /\ chan[t] = <<>>
      BY <3>2, <1>2, <1>5, <1>8, EmptySeq DEF Queued
    <3>3. CASE i = t /\ chan[t] # <<>>
      <4>1. 1 \in 1 .. Len(chan[t])
        BY <3>3, <1>2, EmptySeq
      <4> QED
        BY <3>3, <4>1, <1>5 DEF Queued
    <3> QED
      BY <3>1, <3>2, <3>3
  <2> QED
    BY <2>1, <1>1 DEF Coming
<1>10. Laid'
  <2> SUFFICES ASSUME NEW i \in Conns
               PROVE  /\ Chain(chan[i], Len(chan[i]), Queued(i))'
                      /\ (After(chan[i], Len(chan[i]), NextIn(i)) = NextIn(i))'
                      /\ (wr[i] = "write" => hold[i] + N = Queued(i))'
    BY DEF Laid
  <2>0. (wr[i] = "write" => hold[i] + N = Queued(i))'
    BY <1>1, <1>9 DEF Laid
  <2>1. CASE i # t
    <3>1. chan'[i] = chan[i] /\ NextIn(i)' = NextIn(i) /\ Queued(i)' = Queued(i)
      BY <2>1, <1>4, <1>8, <1>9
    <3> QED
      BY <3>1, <2>0 DEF Laid, Chain, After
  <2>2. CASE i = t
    <3>1. After(chan[t], Len(chan[t]), Queued(t)) = sent + 1
      <4>1. CASE chan[t] = <<>>
        BY <4>1, <1>2, <1>8, EmptySeq DEF After, Queued
      <4>2. CASE chan[t] # <<>>
        BY <4>2, <1>2, <1>8, EmptySeq DEF After, Laid
      <4> QED
        BY <4>1, <4>2
    <3>2. Chain(chan[t], Len(chan[t]), Queued(t))
      BY <1>2 DEF Laid
    <3>3. Queued(t) \in Int /\ chan[t] \in Seq(Int) /\ sent + 1 \in Int /\ t \in Conns
      BY <1>2, Numbers, TypesAt
    <3>4. /\ Chain(Append(chan[t], sent + 1), Len(chan[t]) + 1, Queued(t))
          /\ After(Append(chan[t], sent + 1), Len(chan[t]) + 1, Queued(t)) = sent + 1 + N
      BY <3>1, <3>2, <3>3, ChainAppend
    <3>5. chan'[t] = Append(chan[t], sent + 1) /\ Len(chan'[t]) = Len(chan[t]) + 1
      BY <1>4, <1>5, <3>3
    <3>6. Queued(t)' = Queued(t) /\ NextIn(t)' = sent + 1 + N
      BY <1>8, <1>9, <3>3
    <3>7. Chain(chan'[t], Len(chan'[t]), Queued(t)')
          /\ After(chan'[t], Len(chan'[t]), Queued(t)') = NextIn(t)'
      BY <3>4, <3>5, <3>6
    <3>8. Len(chan'[t]) # 0
      BY <3>3, <3>5, TypesAt
    <3> QED
      BY <2>2, <2>0, <3>7, <3>8 DEF Chain, After
  <2> QED
    BY <2>1, <2>2
<1>11. \A i \in Conns : Flows(i) => Flows(i)'
  BY <1>1, <1>9, FlowsFrame DEF net, reader
<1>12. InOrder' /\ Reads'
  BY <1>1, <1>11, TypesAt DEF InOrder, Reads, DrainsMarkers, reader, closed
<1>13. Kept'
  <2> SUFFICES ASSUME ~err', rd' # "closed", \A i \in Conns : link'[i] # "reset",
                      NEW k \in 1 .. sent'
               PROVE  \/ k <= Len(got')
                      \/ \E i \in Conns : Holds(chan'[i], k) \/ hold'[i] = k \/ Holds(wire'[i], k)
    BY DEF Kept, Holds
  <2>1. CASE k = sent + 1
    <3>1. Holds(chan'[t], k)
      BY <2>1, <1>2, <1>5, LenProperties DEF Holds
    <3> QED
      BY <3>1, <1>2
  <2>2. CASE k # sent + 1
    <3>1. \/ k <= Len(got)
          \/ \E i \in Conns : Holds(chan[i], k) \/ hold[i] = k \/ Holds(wire[i], k)
      <4>1. k \in 1 .. sent
        BY <2>2, <1>1, TypesAt
      <4>2. ~err /\ rd # "closed" /\ \A i \in Conns : link[i] # "reset"
        BY <1>1 DEF net, reader
      <4> QED
        BY <4>1, <4>2 DEF Kept
    <3>2. \A i \in Conns : Holds(chan[i], k) => Holds(chan'[i], k)
      BY <1>2, <1>4, <1>5, LenProperties DEF Holds
    <3> QED
      BY <3>1, <3>2, <1>1 DEF net, reader
  <2> QED
    BY <2>1, <2>2
<1> QED
  BY <1>6, <1>7, <1>10, <1>12, <1>13, <1>14

LEMMA TakeStep ==
    ASSUME IInv, NEW t \in Conns, Take(t)
    PROVE  IInv'
<1> USE DEF IInv
<1>1. /\ chan[t] # <<>> /\ chan' = [chan EXCEPT ![t] = Tail(@)]
      /\ \/ /\ wr[t] = "range" /\ wr' = [wr EXCEPT ![t] = "write"]
            /\ hold' = [hold EXCEPT ![t] = Head(chan[t])]
         \/ wr[t] = "broken" /\ UNCHANGED <<wr, hold>>
      /\ UNCHANGED <<sender, err, net, reader>>
  BY DEF Take
<1>2. /\ chan \in [Conns -> Seq(1 .. Total)] /\ hold \in [Conns -> 0 .. Total]
      /\ wr \in [Conns -> {"range", "write", "broken", "mark", "done"}]
      /\ chan[t] \in Seq(1 .. Total) /\ Len(chan[t]) \in Nat /\ Len(chan[t]) # 0
      /\ chan[t][1] \in 1 .. Total /\ Head(chan[t]) = chan[t][1]
  <2>1. chan[t] \in Seq(1 .. Total) /\ Len(chan[t]) \in Nat /\ Len(chan[t]) # 0
    BY <1>1, TypesAt, EmptySeq
  <2>2. chan[t][1] \in 1 .. Total
    BY <2>1, TypesAt
  <2> QED
    BY <2>1, <2>2 DEF Types
<1>3. \A i \in Conns : chan'[i] = IF i = t THEN Tail(chan[t]) ELSE chan[i]
  BY <1>1, <1>2
<1>4. /\ chan'[t] \in Seq(1 .. Total) /\ Len(chan'[t]) = Len(chan[t]) - 1
      /\ \A j \in 1 .. Len(chan[t]) - 1 : chan'[t][j] = chan[t][j + 1]
  <2>1. chan'[t] = Tail(chan[t])
    BY <1>3
  <2> QED
    BY <2>1, <1>1, <1>2, HeadTailProperties
<1>5. Types'
  <2>1. chan' \in [Conns -> Seq(1 .. Total)]
    <3>1. Tail(chan[t]) \in Seq(1 .. Total)
      BY <1>3, <1>4
    <3> QED
      BY <3>1, <1>1, <1>2
  <2>2. hold' \in [Conns -> 0 .. Total]
    <3>1. Head(chan[t]) \in 0 .. Total
      BY <1>2
    <3> QED
      BY <3>1, <1>1, <1>2
  <2>3. wr' \in [Conns -> {"range", "write", "broken", "mark", "done"}]
    BY <1>1, <1>2
  <2> QED
    BY <2>1, <2>2, <2>3, <1>1 DEF Types, sender, net, reader
<1>6. Phases'
  BY <1>1, <1>2, <1>3 DEF Phases, sender, net, reader, closed
<1>7. Wires' /\ Room'
  <2>1. \A i \in Conns : wr'[i] = "done" <=> wr[i] = "done"
    BY <1>1, <1>2
  <2>2. Wires'
    BY <1>1, <2>1 DEF Wires, net
  <2>3. ASSUME NEW i \in Conns PROVE Len(chan'[i]) <= QueueLen
    <3>1. Len(chan[i]) <= QueueLen /\ Len(chan[i]) \in Nat /\ QueueLen \in Nat
      BY TypesAt, ConnsType DEF Room
    <3> QED
      BY <3>1, <1>3, <1>4
  <2> QED
    BY <1>1, <2>2, <2>3 DEF Room, net
<1>8. \A i \in Conns : NextIn(i)' = NextIn(i)
  BY <1>1 DEF NextIn, Turn, Ahead, sender
\* Queued moves on by N, and Coming only for a writer that throws it away.
<1>9. Queued(t) = chan[t][1] /\ Queued(t)' = Queued(t) + N
  <2>1. Queued(t) = chan[t][1]
    BY <1>1 DEF Queued
  <2>2. CASE Len(chan[t]) = 1
    <3>1. chan'[t] = <<>>
      BY <2>2, <1>4, EmptySeq
    <3>2. NextIn(t) = chan[t][1] + N
      BY <2>2 DEF Laid, After
    <3> QED
      BY <2>1, <3>1, <3>2, <1>8 DEF Queued
  <2>3. CASE Len(chan[t]) # 1
    <3>0. Len(chan[t]) \in Nat /\ Len(chan[t]) # 0
      BY <1>2
    <3>1. 1 \in 1 .. Len(chan[t]) - 1 /\ 1 \in 1 .. Len(chan[t]) /\ 1 < Len(chan[t])
      <4>1. \A n \in Nat : n # 0 /\ n # 1 => 1 \in 1 .. n - 1 /\ 1 \in 1 .. n /\ 1 < n
        OBVIOUS
      <4> QED
        BY <2>3, <3>0, <4>1
    <3>3. chan'[t] # <<>>
      <4>1. Len(chan'[t]) # 0
        BY <1>4, <2>3, <3>0
      <4> QED
        BY <4>1, EmptySeq
    <3>2. chan'[t][1] = chan[t][1 + 1] /\ chan[t][1 + 1] = chan[t][1] + N
      BY <3>1, <1>4 DEF Laid, Chain
    <3> QED
      BY <2>1, <3>2, <3>3 DEF Queued
  <2> QED
    BY <2>1, <2>2, <2>3
<1>10. \A i \in Conns : i # t => Queued(i)' = Queued(i) /\ Coming(i)' = Coming(i)
  BY <1>1, <1>2, <1>3, <1>8 DEF Queued, Coming
<1>13. Laid'
  <2> SUFFICES ASSUME NEW i \in Conns
               PROVE  /\ Chain(chan[i], Len(chan[i]), Queued(i))'
                      /\ (After(chan[i], Len(chan[i]), NextIn(i)) = NextIn(i))'
                      /\ (wr[i] = "write" => hold[i] + N = Queued(i))'
    BY DEF Laid
  <2>1. CASE i # t
    <3>1. /\ chan'[i] = chan[i] /\ NextIn(i)' = NextIn(i) /\ Queued(i)' = Queued(i)
          /\ wr'[i] = wr[i] /\ hold'[i] = hold[i]
      BY <2>1, <1>1, <1>2, <1>3, <1>8, <1>10
    <3> QED
      BY <3>1 DEF Laid, Chain, After
  <2>2. CASE i = t
    <3>1. (wr[i] = "write" => hold[i] + N = Queued(i))'
      BY <2>2, <1>1, <1>2, <1>9
    <3>2. /\ Chain(Tail(chan[t]), Len(chan[t]) - 1, chan[t][1] + N)
          /\ After(Tail(chan[t]), Len(chan[t]) - 1, chan[t][1] + N) = After(chan[t], Len(chan[t]), chan[t][1])
      <4>1. Chain(chan[t], Len(chan[t]), chan[t][1]) /\ Len(chan[t]) \in 1 .. Len(chan[t])
        BY <1>2, <1>9 DEF Laid
      <4>2. chan[t] \in Seq(Int) /\ chan[t][1] \in Int
        BY <1>2, TypesAt
      <4> QED
        BY <4>1, <4>2, ChainTail
    <3>3. chan'[t] = Tail(chan[t]) /\ Len(chan'[t]) = Len(chan[t]) - 1 /\ Queued(t)' = chan[t][1] + N
      BY <1>3, <1>4, <1>9
    <3>4. After(chan[t], Len(chan[t]), chan[t][1]) = NextIn(t)'
      BY <1>2, <1>8 DEF Laid, After
    <3>5. Chain(chan'[t], Len(chan'[t]), Queued(t)')
          /\ After(chan'[t], Len(chan'[t]), Queued(t)') = NextIn(t)'
      BY <3>2, <3>3, <3>4
    <3> QED
      BY <2>2, <3>1, <3>5 DEF Chain, After
  <2> QED
    BY <2>1, <2>2
<1>14. ASSUME rd = "read" PROVE \A i \in Conns : Flows(i)'
  <2> SUFFICES ASSUME NEW i \in Conns PROVE Flows(i)'
    OBVIOUS
  <2>0. Flows(i) /\ UNCHANGED <<got, rpos>> /\ wire'[i] = wire[i] /\ link'[i] = link[i]
    BY <1>1, <1>14 DEF Reads, net, reader
  <2>1. CASE i # t
    <3>1. Coming(i)' = Coming(i) /\ wr'[i] = wr[i]
      BY <2>1, <1>1, <1>2, <1>10
    <3> QED
      BY <3>1, <2>0, FlowsFrame
  <2>2. CASE i = t /\ wr[t] = "range"
    <3>1. Coming(t)' = Coming(t)
      BY <1>1, <1>2, <1>9, <2>2 DEF Coming
    <3> QED
      BY <2>2, <3>1, <2>0, FlowsFrame
  <2>3. CASE i = t /\ wr[t] = "broken"
    <3>1. Coming(t) = Queued(t) /\ Coming(t)' = Queued(t)' /\ Queued(t)' = Queued(t) + N /\ wr'[t] = "broken"
      BY <1>1, <1>9, <2>3 DEF Coming
    <3>2. \A j \in 1 .. Len(wire[t]) : wire[t][j] # Marker
      BY <2>3 DEF Wires
    <3>3. Due(t) \in Int /\ Queued(t) \in Int /\ N \in Nat /\ Due(t)' = Due(t)
      BY <2>0, Numbers, ConnsType DEF Due, Ahead
    <3>4. Due(t)' <= Coming(t)'
      BY <3>1, <3>3, <2>0, <2>3 DEF Flows
    <3>5. link[t] # "reset" => Chain(wire[t], Chunks(wire[t]), Due(t)) /\ Arriving(t) <= Coming(t)
      BY <2>0, <2>3 DEF Flows
    <3>6. Arriving(t) \in Int /\ Arriving(t)' = Arriving(t)
      <4>1. Chunks(wire[t]) # 0 => Chunks(wire[t]) \in 1 .. Len(wire[t])
        BY TypesAt, ChunksType
      <4>2. Chunks(wire[t]) # 0 => wire[t][Chunks(wire[t])] \in Int
        BY <4>1, TypesAt
      <4> QED
        BY <4>2, <3>3, <2>0, <2>3 DEF Arriving, After, Chunks
    <3>7. link'[t] # "reset" =>
             Chain(wire[t], Chunks(wire[t]), Due(t))' /\ Arriving(t)' <= Coming(t)'
      <4>1. wire'[t] = wire[t] /\ link'[t] = link[t]
        BY <2>0, <2>3
      <4>2. Arriving(t) <= Coming(t) => Arriving(t)' <= Coming(t)'
        BY <3>1, <3>3, <3>6
      <4>3. Chain(wire[t], Chunks(wire[t]), Due(t)) => Chain(wire[t], Chunks(wire[t]), Due(t))'
        BY <4>1, <3>3 DEF Chain, Chunks
      <4> QED
        BY <4>1, <4>2, <4>3, <3>5
    <3>8. ~ (\E j \in 1 .. Len(wire[t]) : wire[t][j] = Marker)'
      BY <3>2, <2>0, <2>3
    <3> QED
      BY <2>3, <3>1, <3>4, <3>7, <3>8 DEF Flows
  <2> QED
    BY <2>1, <2>2, <2>3, <1>1
<1>15. Reads' /\ InOrder'
  <2>1. rd = rd' /\ got' = got /\ rerr' = rerr /\ sent' = sent /\ (closed' <=> closed) /\ wire' = wire
    BY <1>1 DEF reader, sender, closed, net
  <2>2. DrainsMarkers'
    BY <2>1, <1>1, <1>2, <1>3 DEF Reads, DrainsMarkers
  <2> QED
    BY <2>1, <2>2, <1>14 DEF Reads, InOrder
<1>16. Kept'
  <2> SUFFICES ASSUME ~err, rd # "closed", \A i \in Conns : link[i] # "reset",
                      NEW k \in 1 .. sent
               PROVE  \/ k <= Len(got)
                      \/ \E i \in Conns : Holds(chan'[i], k) \/ hold'[i] = k \/ Holds(wire[i], k)
    BY <1>1 DEF Kept, Holds, net, reader, sender
  <2>1. wr[t] = "range"
    BY <1>1 DEF Phases
  <2>2. /\ hold'[t] = chan[t][1] /\ hold[t] = 0
        /\ \A i \in Conns : i # t => hold'[i] = hold[i] /\ chan'[i] = chan[i]
    BY <1>1, <1>2, <1>3, <2>1 DEF Phases
  <2>3. Holds(chan[t], k) => Holds(chan'[t], k) \/ hold'[t] = k
    <3> SUFFICES ASSUME NEW j \in 1 .. Len(chan[t]), chan[t][j] = k, j # 1
                 PROVE  Holds(chan'[t], k)
      BY <2>2 DEF Holds
    <3>1. j - 1 \in 1 .. Len(chan[t]) - 1 /\ (j - 1) + 1 = j
      BY <1>2
    <3>2. chan'[t][j - 1] = k /\ j - 1 \in 1 .. Len(chan'[t])
      BY <3>1, <1>4
    <3> QED
      BY <3>2 DEF Holds
  <2>4. k # 0
    OBVIOUS
  <2> QED
    BY <2>2, <2>3, <2>4 DEF Kept
<1> QED
  BY <1>5, <1>6, <1>7, <1>13, <1>15, <1>16

LEMMA RangedStep ==
    ASSUME IInv, NEW t \in Conns, Ranged(t)
    PROVE  IInv'
<1> USE DEF IInv
<1>1. /\ closed /\ chan[t] = <<>>
      /\ \/ wr[t] = "range" /\ wr' = [wr EXCEPT ![t] = "mark"]
         \/ wr[t] = "broken" /\ wr' = [wr EXCEPT ![t] = "done"]
      /\ UNCHANGED <<sender, chan, hold, err, net, reader>>
  BY DEF Ranged
<1>2. wr \in [Conns -> {"range", "write", "broken", "mark", "done"}]
  BY DEF Types
<1>3. /\ \A i \in Conns : i # t => wr'[i] = wr[i]
      /\ \/ wr[t] = "range" /\ wr'[t] = "mark"
         \/ wr[t] = "broken" /\ wr'[t] = "done"
  BY <1>1, <1>2
<1>4. Types'
  <2>1. wr' \in [Conns -> {"range", "write", "broken", "mark", "done"}]
    BY <1>1, <1>2
  <2> QED
    BY <2>1, <1>1 DEF Types, sender, net, reader
<1>5. Phases'
  BY <1>1, <1>3 DEF Phases, sender, net, reader, closed
<1>6. Wires' /\ Room'
  BY <1>1, <1>3 DEF Wires, Room, net
<1>7. Laid'
  BY <1>1, <1>3, LaidFrame DEF sender
<1>8. \A i \in Conns : Coming(i)' = Coming(i)
  BY <1>1, <1>3 DEF Coming, Queued, NextIn, Turn, Ahead, sender
<1>9. \A i \in Conns : Flows(i) => Flows(i)'
  <2> SUFFICES ASSUME NEW i \in Conns, Flows(i) PROVE Flows(i)'
    OBVIOUS
  <2>1. wr'[i] \in {"range", "write", "mark"} => wr[i] \in {"range", "write", "mark"}
    BY <1>3
  <2> QED
    BY <2>1, <1>1, <1>8, FlowsFrame DEF net, reader
<1>10. Reads' /\ InOrder'
  <2>1. DrainsMarkers'
    BY <1>1, <1>3 DEF Reads, DrainsMarkers, net, reader
  <2> QED
    BY <2>1, <1>1, <1>9 DEF Reads, InOrder, sender, reader, closed
<1>11. Kept'
  BY <1>1 DEF Kept, Holds, net, reader, sender
<1> QED
  BY <1>4, <1>5, <1>6, <1>7, <1>10, <1>11

\* A chunk or a marker goes onto the wire.
LEMMA Appended ==
    ASSUME IInv, NEW t \in Conns, NEW b \in Items, Written(t, b), wr[t] # "done"
    PROVE  /\ wire[t] \in Seq(Items) /\ Len(wire[t]) \in Nat /\ link[t] = "up"
           /\ Len(wire[t]) < Wire
           /\ \A j \in 1 .. Len(wire[t]) : wire[t][j] > 0
           /\ \A i \in Conns : wire'[i] = IF i = t THEN Append(wire[t], b) ELSE wire[i]
           /\ wire' \in [Conns -> Seq(Items)]
           /\ err' = err
<1> USE DEF IInv
<1>1. link[t] = "up" /\ Len(wire[t]) < Wire /\ wire' = [wire EXCEPT ![t] = Append(@, b)] /\ err' = err
  BY DEF Written
<1>2. wire \in [Conns -> Seq(Items)] /\ wire[t] \in Seq(Items) /\ Len(wire[t]) \in Nat
  BY TypesAt DEF Types
<1>3. \A j \in 1 .. Len(wire[t]) : wire[t][j] > 0
  BY <1>1, <1>2, ChunksType DEF Wires
<1>4. Append(wire[t], b) \in Seq(Items)
  BY <1>2, AppendProperties
<1> QED
  BY <1>1, <1>2, <1>3, <1>4

LEMMA PutStep ==
    ASSUME IInv, NEW t \in Conns, Put(t)
    PROVE  IInv'
<1> USE DEF IInv
<1>1. /\ wr[t] = "write"
      /\ \/ Written(t, hold[t]) /\ wr' = [wr EXCEPT ![t] = "range"]
         \/ Failed(t) /\ wr' = [wr EXCEPT ![t] = "broken"]
      /\ hold' = [hold EXCEPT ![t] = 0]
      /\ UNCHANGED <<sender, chan, link, reader>>
  BY DEF Put
<1>2. /\ wr \in [Conns -> {"range", "write", "broken", "mark", "done"}]
      /\ hold \in [Conns -> 0 .. Total] /\ hold[t] \in 1 .. Total /\ hold[t] \in Items /\ Total \in Nat
  <2>1. /\ wr \in [Conns -> {"range", "write", "broken", "mark", "done"}]
        /\ hold \in [Conns -> 0 .. Total]
    BY DEF Types
  <2>2. hold[t] \in 0 .. Total /\ hold[t] # 0
    BY <1>1, <2>1 DEF Phases
  <2>3. hold[t] \in 1 .. Total
    BY <2>2, ConnsType
  <2> QED
    BY <2>1, <2>3, ConnsType
<1>3. /\ \A i \in Conns : i # t => wr'[i] = wr[i] /\ hold'[i] = hold[i]
      /\ hold'[t] = 0
  BY <1>1, <1>2
<1>4. hold' \in [Conns -> 0 .. Total]
  BY <1>1, <1>2
<1>5. \A i \in Conns : NextIn(i)' = NextIn(i) /\ Queued(i)' = Queued(i)
  BY <1>1 DEF Queued, NextIn, Turn, Ahead, sender
<1>6. \A i \in Conns : i # t => Coming(i)' = Coming(i)
  BY <1>3, <1>5 DEF Coming
<1>7. Laid' /\ InOrder' /\ Coming(t) = hold[t] /\ Coming(t)' = hold[t] + N
  <2>1. wr'[t] # "write"
    BY <1>1, <1>2
  <2>2. Laid'
    <3> SUFFICES ASSUME NEW i \in Conns
                 PROVE  /\ Chain(chan[i], Len(chan[i]), Queued(i))'
                        /\ (After(chan[i], Len(chan[i]), NextIn(i)) = NextIn(i))'
                        /\ (wr[i] = "write" => hold[i] + N = Queued(i))'
      BY DEF Laid
    <3>1. (wr[i] = "write" => hold[i] + N = Queued(i))'
      BY <1>3, <1>5, <2>1 DEF Laid
    <3>2. chan'[i] = chan[i] /\ NextIn(i)' = NextIn(i) /\ Queued(i)' = Queued(i)
      BY <1>1, <1>5
    <3> QED
      BY <3>1, <3>2 DEF Laid, Chain, After
  <2>3. Coming(t) = hold[t] /\ Coming(t)' = hold[t] + N
    BY <1>1, <1>5, <2>1 DEF Coming, Laid
  <2> QED
    BY <2>2, <2>3, <1>1 DEF InOrder, sender, reader
<1>8. CASE Failed(t)
  <2>1. link[t] # "up" /\ err' = TRUE /\ wire' = wire /\ wr' = [wr EXCEPT ![t] = "broken"] /\ wr'[t] = "broken"
    <3>1. ~Written(t, hold[t])
      BY <1>8 DEF Failed, Written
    <3> QED
      BY <3>1, <1>1, <1>2, <1>8 DEF Failed
  <2>2. Types'
    BY <1>1, <1>2, <1>4, <2>1 DEF Types, sender, reader
  <2>3. Phases'
    BY <1>1, <1>3, <2>1 DEF Phases, sender, reader, closed
  <2>4. Wires' /\ Room'
    BY <1>1, <1>3, <2>1 DEF Wires, Room
  <2>5. ASSUME NEW i \in Conns, Flows(i)
        PROVE  Flows(i)'
    <3>1. CASE i # t
      BY <3>1, <2>5, <2>1, <1>1, <1>3, <1>6, FlowsFrame DEF reader
    <3>2. CASE i = t
      <4>1. /\ Due(t)' = Due(t) /\ Arriving(t)' = Arriving(t) /\ link'[t] = link[t] /\ wire'[t] = wire[t]
            /\ (Chain(wire[t], Chunks(wire[t]), Due(t)) => Chain(wire[t], Chunks(wire[t]), Due(t))')
        BY <1>1, <2>1 DEF Due, Arriving, After, Chunks, Ahead, Chain, reader
      <4>2. ~ \E j \in 1 .. Len(wire'[t]) : wire'[t][j] = Marker
        BY <1>1, <2>1 DEF Wires
      <4>3. Due(t) \in Int /\ Coming(t) \in Int /\ N \in Nat /\ Coming(t)' = Coming(t) + N
        BY <1>7, Numbers, ConnsType
      <4>4. Due(t) <= Coming(t) => Due(t)' <= Coming(t)'
        BY <4>1, <4>3
      <4>5. Arriving(t) = Coming(t) => Arriving(t)' <= Coming(t)'
        BY <4>1, <4>3
      <4> QED
        BY <3>2, <2>1, <2>5, <1>1, <4>1, <4>2, <4>4, <4>5 DEF Flows
    <3> QED
      BY <3>1, <3>2
  <2>6. Reads'
    <3>1. DrainsMarkers'
      BY <1>1, <2>1 DEF Reads, DrainsMarkers, reader
    <3> QED
      BY <3>1, <1>1, <2>5 DEF Reads, sender, reader, closed
  <2>7. Kept'
    BY <2>1 DEF Kept
  <2> QED
    BY <2>2, <2>3, <2>4, <2>6, <2>7, <1>7
<1>9. CASE Written(t, hold[t])
  <2>1. /\ wire[t] \in Seq(Items) /\ Len(wire[t]) \in Nat /\ link[t] = "up" /\ Len(wire[t]) < Wire
        /\ \A j \in 1 .. Len(wire[t]) : wire[t][j] > 0
        /\ \A i \in Conns : wire'[i] = IF i = t THEN Append(wire[t], hold[t]) ELSE wire[i]
        /\ wire' \in [Conns -> Seq(Items)] /\ err' = err
    BY <1>1, <1>2, <1>9, Appended
  <2>2. wr' = [wr EXCEPT ![t] = "range"] /\ wr'[t] = "range"
    BY <1>1, <1>2, <2>1 DEF Failed
  <2>3. /\ Chunks(wire[t]) = Len(wire[t]) /\ Len(wire'[t]) = Len(wire[t]) + 1
        /\ \A j \in 1 .. Len(wire[t]) : wire'[t][j] = wire[t][j]
        /\ wire'[t][Len(wire[t]) + 1] = hold[t]
        /\ Chunks(wire'[t]) = Len(wire[t]) + 1
    <3>1. wire'[t] = Append(wire[t], hold[t]) /\ hold[t] > 0 /\ hold[t] \in Items
      BY <1>2, <2>1
    <3> QED
      BY <3>1, <2>1, ChunksAppend
  <2>4. Types'
    <3>1. wr' \in [Conns -> {"range", "write", "broken", "mark", "done"}] /\ err' \in BOOLEAN
      BY <2>1, <2>2 DEF Types
    <3> QED
      BY <3>1, <1>1, <1>2, <1>4, <2>1 DEF Types, sender, reader
  <2>5. Phases'
    <3>1. /\ pipe' = pipe /\ shut' = shut /\ sent' = sent /\ chan' = chan /\ link' = link /\ err' = err
          /\ hold' = [hold EXCEPT ![t] = 0] /\ closed' = closed /\ link[t] = "up"
          /\ \A i \in Conns : i # t => hold'[i] = hold[i] /\ wr'[i] = wr[i]
      BY <1>1, <1>3, <2>1, <2>2 DEF sender, closed
    <3>2. wr[t] = "write" /\ hold'[t] = 0 /\ wr'[t] = "range"
      BY <1>1, <1>2, <1>3, <2>2, <3>1
    <3>3. shut # "done" /\ pipe # "over"
      BY <3>2 DEF Phases
    <3>4. ASSUME NEW i \in Conns
          PROVE  /\ wr'[i] \in {"mark", "done"} => closed' /\ chan'[i] = <<>>
                 /\ wr'[i] = "write" <=> hold'[i] # 0
                 /\ wr'[i] = "broken" => link'[i] # "up" /\ err'
      <4>1. CASE i = t
        BY <4>1, <3>2
      <4>2. CASE i # t
        BY <4>2, <3>1 DEF Phases
      <4> QED
        BY <4>1, <4>2
    <3> QED
      BY <3>1, <3>3, <3>4 DEF Phases
  <2>6. Wires' /\ Room'
    <3>1. \A j \in 1 .. Len(wire'[t]) : wire'[t][j] > 0
      <4>1. hold[t] > 0
        BY <1>2
      <4>2. Len(wire[t]) \in Nat /\ \A j \in 1 .. Len(wire[t]) : wire[t][j] > 0
        BY <2>1
      <4>3. TAKE j \in 1 .. Len(wire'[t])
      <4>4. j \in 1 .. Len(wire[t]) \/ j = Len(wire[t]) + 1
        BY <4>2, <2>3
      <4>5. CASE j \in 1 .. Len(wire[t])
        BY <4>2, <4>5, <2>3
      <4>6. CASE j = Len(wire[t]) + 1
        BY <4>1, <4>6, <2>3
      <4> QED
        BY <4>4, <4>5, <4>6
    <3>2. \A i \in Conns : i # t => wire'[i] = wire[i]
      BY <2>1
    <3>3. Wires'
      <4>1. ASSUME NEW i \in Conns, i # t
            PROVE  wire'[i] = wire[i] /\ link'[i] = link[i] /\ (wr[i] = "done" => wr'[i] = "done")
        BY <4>1, <3>2, <1>1, <1>3
      <4>2. link'[t] # "reset" /\ \A j \in 1 .. Len(wire'[t]) :
                ~(wire'[t][j] <= 0) /\ wire'[t][j] # Marker /\ wire'[t][j] # Part
        <5>1. wire'[t] \in Seq(Items)
          BY <2>1
        <5>2. \A j \in 1 .. Len(wire'[t]) : wire'[t][j] \in Int
          BY <5>1, ChunksType
        <5>3. link'[t] # "reset"
          BY <1>1, <2>1
        <5> QED
          BY <5>2, <5>3, <3>1 DEF Marker, Part
      <4> QED
        BY <4>1, <4>2 DEF Wires
    <3>4. Len(wire'[t]) <= Wire
      BY <2>1, <2>3, ConnsType
    <3>5. \A i \in Conns : Len(wire'[i]) <= Wire + (IF link'[i] = "up" THEN 0 ELSE 1)
      <4>1. link'[t] = "up" /\ link' = link /\ Wire + 0 = Wire
        BY <1>1, <2>1, ConnsType
      <4>2. CASE \A i \in Conns : i # t => wire'[i] = wire[i]
        BY <4>1, <4>2, <3>4 DEF Room
      <4> QED
        BY <4>2, <3>2
    <3> QED
      BY <3>3, <3>5, <1>1 DEF Room
  <2>7. ASSUME NEW i \in Conns, Flows(i)
        PROVE  Flows(i)'
    <3>1. CASE i # t
      BY <3>1, <2>7, <2>1, <1>1, <1>3, <1>6, FlowsFrame DEF reader
    <3>2. CASE i = t
      <4>1. Due(t)' = Due(t) /\ Due(t) \in Int /\ link'[t] = "up" /\ N \in Nat
        BY <1>1, <2>1, Numbers, ConnsType DEF Due, Ahead, reader
      <4>2. Chain(wire[t], Len(wire[t]), Due(t)) /\ After(wire[t], Len(wire[t]), Due(t)) = hold[t]
        BY <3>2, <2>1, <2>3, <2>7, <1>1, <1>7 DEF Flows, Arriving
      <4>3. wire[t] \in Seq(Int) /\ hold[t] \in Int
        BY <1>2, TypesAt
      <4>4. /\ Chain(wire'[t], Len(wire[t]) + 1, Due(t))
            /\ After(wire'[t], Len(wire[t]) + 1, Due(t)) = hold[t] + N
        <5>1. wire'[t] = Append(wire[t], hold[t])
          BY <2>1
        <5> QED
          BY <4>1, <4>2, <4>3, <5>1, ChainAppend
      <4>5. Arriving(t)' = Coming(t)' /\ Chain(wire[t], Chunks(wire[t]), Due(t))'
        BY <4>1, <4>4, <2>3, <1>7 DEF Arriving, After, Chain
      <4>6. Due(t)' <= Coming(t)' /\ Coming(t)' \in Int
        BY <3>2, <4>1, <4>3, <2>7, <1>7, Numbers DEF Flows
      <4> QED
        BY <3>2, <4>5, <4>6 DEF Flows
    <3> QED
      BY <3>1, <3>2
  <2>8. Reads'
    <3>1. DrainsMarkers'
      BY <1>1 DEF Reads, DrainsMarkers, reader
    <3> QED
      BY <3>1, <1>1, <2>7 DEF Reads, sender, reader, closed
  <2>9. Kept'
    <3> SUFFICES ASSUME ~err, rd # "closed", \A i \in Conns : link[i] # "reset",
                        NEW k \in 1 .. sent
                 PROVE  \/ k <= Len(got)
                        \/ \E i \in Conns : Holds(chan[i], k) \/ hold'[i] = k \/ Holds(wire'[i], k)
      <4>1. /\ err' = err /\ rd' = rd /\ link' = link /\ sent' = sent /\ got' = got /\ chan' = chan
        BY <1>1, <2>1 DEF reader, sender
      <4> QED
        BY <4>1 DEF Kept, Holds
    <3>1. (hold[t] = k => Holds(wire'[t], k)) /\ (Holds(wire[t], k) => Holds(wire'[t], k))
      BY <2>1, <2>3, HoldsLonger
    <3>3. \A i \in Conns : i # t => wire'[i] = wire[i] /\ hold'[i] = hold[i]
      BY <2>1, <1>3
    <3> QED
      BY <3>1, <3>3 DEF Kept
  <2> QED
    BY <2>4, <2>5, <2>6, <2>8, <2>9, <1>7
<1> QED
  BY <1>1, <1>8, <1>9

LEMMA PutMarkerStep ==
    ASSUME IInv, NEW t \in Conns, PutMarker(t)
    PROVE  IInv'
<1> USE DEF IInv
<1>1. /\ wr[t] = "mark" /\ (Written(t, Marker) \/ Failed(t))
      /\ wr' = [wr EXCEPT ![t] = "done"]
      /\ UNCHANGED <<sender, chan, hold, link, reader>>
  BY DEF PutMarker
<1>2. wr \in [Conns -> {"range", "write", "broken", "mark", "done"}] /\ Marker \in Items
  BY ConnsType DEF Types
<1>3. wr'[t] = "done" /\ \A i \in Conns : i # t => wr'[i] = wr[i]
  BY <1>1, <1>2
<1>4. wr' \in [Conns -> {"range", "write", "broken", "mark", "done"}]
  BY <1>1, <1>2
<1>5. Laid' /\ InOrder' /\ \A i \in Conns : Coming(i)' = Coming(i)
  <2>1. Laid'
    BY <1>1, <1>3, LaidFrame DEF sender
  <2>2. \A i \in Conns : Coming(i)' = Coming(i)
    BY <1>1, <1>3 DEF Coming, Queued, NextIn, Turn, Ahead, sender
  <2> QED
    BY <2>1, <2>2, <1>1 DEF InOrder, sender, reader
<1>6. CASE Failed(t)
  <2>1. link[t] # "up" /\ err' = TRUE /\ wire' = wire
    <3>1. ~Written(t, Marker)
      BY <1>6 DEF Failed, Written
    <3> QED
      BY <3>1, <1>1, <1>6 DEF Failed
  <2>2. Types'
    BY <1>1, <1>4, <2>1 DEF Types, sender, reader
  <2>3. Phases'
    <3>1. shut # "done" /\ pipe # "over" /\ closed /\ chan[t] = <<>>
      BY <1>1 DEF Phases
    <3> QED
      BY <3>1, <1>1, <1>3, <2>1 DEF Phases, sender, reader, closed
  <2>4. Wires' /\ Room'
    BY <1>1, <1>3, <2>1 DEF Wires, Room
  <2>5. ASSUME NEW i \in Conns, Flows(i)
        PROVE  Flows(i)'
    <3>1. wr'[i] \in {"range", "write", "mark"} => wr[i] \in {"range", "write", "mark"}
      BY <1>3
    <3> QED
      BY <3>1, <2>5, <2>1, <1>1, <1>5, FlowsFrame DEF reader
  <2>6. Reads'
    <3>1. DrainsMarkers'
      BY <1>1, <1>3, <2>1 DEF Reads, DrainsMarkers, reader
    <3> QED
      BY <3>1, <1>1, <2>5 DEF Reads, sender, reader, closed
  <2>7. Kept'
    BY <2>1 DEF Kept
  <2> QED
    BY <2>2, <2>3, <2>4, <2>6, <2>7, <1>5
<1>7. CASE Written(t, Marker)
  <2>1. /\ wire[t] \in Seq(Items) /\ Len(wire[t]) \in Nat /\ link[t] = "up" /\ Len(wire[t]) < Wire
        /\ \A j \in 1 .. Len(wire[t]) : wire[t][j] > 0
        /\ \A i \in Conns : wire'[i] = IF i = t THEN Append(wire[t], Marker) ELSE wire[i]
        /\ wire' \in [Conns -> Seq(Items)] /\ err' = err
    BY <1>1, <1>2, <1>7, Appended
  <2>2. /\ Chunks(wire[t]) = Len(wire[t]) /\ Len(wire'[t]) = Len(wire[t]) + 1
        /\ \A j \in 1 .. Len(wire[t]) : wire'[t][j] = wire[t][j]
        /\ wire'[t][Len(wire[t]) + 1] = Marker
        /\ Chunks(wire'[t]) = Len(wire[t])
    <3>1. wire'[t] = Append(wire[t], Marker) /\ ~(Marker > 0)
      BY <2>1 DEF Marker
    <3> QED
      BY <3>1, <1>2, <2>1, ChunksAppend
  <2>3. \A i \in Conns : i # t => wire'[i] = wire[i]
    BY <2>1
  <2>4. Types'
    BY <1>1, <1>4, <2>1 DEF Types, sender, reader
  <2>5. Phases'
    <3>1. closed /\ chan[t] = <<>>
      BY <1>1 DEF Phases
    <3> QED
      BY <3>1, <1>1, <1>3, <2>1 DEF Phases, sender, reader, closed
  <2>6. Wires'
    <3>1. ASSUME NEW i \in Conns, i # t
          PROVE  wire'[i] = wire[i] /\ link'[i] = link[i] /\ wr[i] = wr'[i]
      BY <3>1, <2>3, <1>1, <1>3
    <3>2. ASSUME NEW j \in 1 .. Len(wire'[t])
          PROVE  /\ wire'[t][j] <= 0 => j = Len(wire'[t])
                 /\ wire'[t][j] # Part
      <4>1. CASE j \in 1 .. Len(wire[t])
        <5>1. wire[t][j] > 0 /\ wire[t][j] \in Int
          BY <4>1, <2>1, ChunksType
        <5> QED
          BY <5>1, <4>1, <2>2 DEF Part
      <4>2. CASE j = Len(wire[t]) + 1
        BY <4>2, <2>1, <2>2 DEF Marker, Part
      <4> QED
        BY <4>1, <4>2, <2>1, <2>2
    <3>3. link'[t] # "reset" /\ wr'[t] = "done"
      BY <1>1, <1>3, <2>1
    <3> QED
      BY <3>1, <3>2, <3>3 DEF Wires
  <2>7. Room'
    <3>1. Len(wire'[t]) <= Wire /\ link'[t] = "up" /\ link' = link /\ Wire + 0 = Wire
      BY <1>1, <2>1, <2>2, ConnsType
    <3> QED
      BY <3>1, <2>3, <1>1 DEF Room
  <2>8. ASSUME NEW i \in Conns, Flows(i)
        PROVE  Flows(i)'
    <3>1. CASE i # t
      <4>1. wr'[i] = wr[i] /\ wire'[i] = wire[i]
        BY <3>1, <1>3, <2>3
      <4> QED
        BY <4>1, <2>8, <1>1, <1>5, FlowsFrame DEF reader
    <3>2. CASE i = t
      <4>1. Due(t)' = Due(t) /\ Due(t) \in Int /\ link'[t] = "up"
        BY <1>1, <2>1, Numbers DEF Due, Ahead, reader
      <4>2. /\ Chain(wire[t], Len(wire[t]), Due(t)) /\ After(wire[t], Len(wire[t]), Due(t)) = Coming(t)
            /\ Due(t) <= Coming(t)
        BY <3>2, <2>1, <2>2, <2>8, <1>1 DEF Flows, Arriving
      <4>3. /\ Chain(wire'[t], Len(wire[t]), Due(t))
            /\ After(wire'[t], Len(wire[t]), Due(t)) = Coming(t)
        BY <4>1, <4>2, <2>1, <2>2, ChainSame
      <4>4. Arriving(t)' = Coming(t)' /\ Chain(wire[t], Chunks(wire[t]), Due(t))'
        BY <4>1, <4>3, <2>2, <1>5 DEF Arriving, After, Chain
      <4>5. Due(t)' <= Coming(t)' /\ Coming(t)' \in Int
        BY <4>1, <4>2, <1>5, Numbers
      <4> QED
        BY <3>2, <4>4, <4>5 DEF Flows
    <3> QED
      BY <3>1, <3>2
  <2>9. Reads'
    <3>1. ASSUME rd = "drain" PROVE \A j \in DOMAIN wire'[t] : wire'[t][j] \in {Marker, Part}
      <4>1. DOMAIN wire'[t] = 1 .. Len(wire'[t]) /\ DOMAIN wire[t] = 1 .. Len(wire[t])
        BY <2>1, LenProperties
      <4> QED
        BY <4>1, <3>1, <2>1, <2>2 DEF Reads, DrainsMarkers
    <3>2. DrainsMarkers'
      BY <3>1, <1>1, <1>3, <2>3 DEF Reads, DrainsMarkers, reader
    <3> QED
      BY <3>2, <1>1, <2>8 DEF Reads, sender, reader, closed
  <2>10. Kept'
    <3> SUFFICES ASSUME ~err, rd # "closed", \A i \in Conns : link[i] # "reset",
                        NEW k \in 1 .. sent
                 PROVE  \/ k <= Len(got)
                        \/ \E i \in Conns : Holds(chan[i], k) \/ hold[i] = k \/ Holds(wire'[i], k)
      <4>1. /\ err' = err /\ rd' = rd /\ link' = link /\ sent' = sent /\ got' = got /\ chan' = chan /\ hold' = hold
        BY <1>1, <2>1 DEF reader, sender
      <4> QED
        BY <4>1 DEF Kept, Holds
    <3>1. Holds(wire[t], k) => Holds(wire'[t], k)
      BY <2>1, <2>2, HoldsLonger
    <3> QED
      BY <3>1, <2>3 DEF Kept
  <2> QED
    BY <2>4, <2>5, <2>6, <2>7, <2>9, <2>10, <1>5
<1> QED
  BY <1>1, <1>6, <1>7

LEMMA ResetStep ==
    ASSUME IInv, NEW t \in Conns, Reset(t)
    PROVE  IInv'
<1> USE DEF IInv
<1>1. /\ link' = [link EXCEPT ![t] = "reset"] /\ wire' = [wire EXCEPT ![t] = <<>>]
      /\ UNCHANGED <<sender, writers, reader>>
  BY DEF Reset
<1>2. link \in [Conns -> {"up", "fin", "reset"}] /\ wire \in [Conns -> Seq(Items)] /\ <<>> \in Seq(Items)
  BY EmptySeq DEF Types
<1>3. link'[t] = "reset" /\ wire'[t] = <<>>
      /\ \A i \in Conns : i # t => link'[i] = link[i] /\ wire'[i] = wire[i]
  BY <1>1, <1>2
<1>4. Len(<<>>) = 0
  BY EmptySeq
<1>5. Types'
  <2>1. link' \in [Conns -> {"up", "fin", "reset"}]
    BY <1>1, <1>2
  <2>2. wire' \in [Conns -> Seq(Items)]
    BY <1>1, <1>2
  <2> QED
    BY <2>1, <2>2, <1>1 DEF Types, sender, writers, reader
<1>6. Phases'
  BY <1>1, <1>3 DEF Phases, sender, writers, closed
<1>7. Wires' /\ Room'
  <2>1. Wires'
    BY <1>1, <1>3, <1>4 DEF Wires, writers
  <2> QED
    BY <2>1, <1>1, <1>3, <1>4, ConnsType DEF Room, writers
<1>8. Laid' /\ InOrder'
  BY <1>1, LaidFrame DEF InOrder, sender, writers, reader
<1>9. \A i \in Conns : Flows(i) => Flows(i)'
  <2> SUFFICES ASSUME NEW i \in Conns, Flows(i) PROVE Flows(i)'
    OBVIOUS
  <2>1. Coming(i)' = Coming(i)
    BY <1>1, ComingFrame DEF sender, writers
  <2>2. CASE i # t
    BY <2>1, <2>2, <1>1, <1>3, FlowsFrame DEF reader, writers
  <2>3. CASE i = t
    <3>1. Due(t)' = Due(t)
      BY <1>1 DEF Due, Ahead, reader
    <3> QED
      BY <3>1, <2>1, <2>3, <1>3 DEF Flows
  <2> QED
    BY <2>2, <2>3
<1>10. Reads'
  <2>1. DrainsMarkers'
    BY <1>1, <1>3 DEF Reads, DrainsMarkers, writers, reader
  <2> QED
    BY <2>1, <1>1, <1>9 DEF Reads, sender, reader, closed
<1>11. Kept'
  BY <1>3 DEF Kept
<1> QED
  BY <1>5, <1>6, <1>7, <1>8, <1>10, <1>11

\* What is queued comes before what will be.
LEMMA Bounds ==
    ASSUME IInv, NEW i \in Conns
    PROVE  /\ Coming(i) <= NextIn(i)
           /\ chan[i] # <<>> => Coming(i) + N <= NextIn(i)
           /\ wr[i] = "write" => Coming(i) + N <= NextIn(i)
<1> USE DEF IInv
<1>1. NextIn(i) \in Int /\ Queued(i) \in Int /\ Coming(i) \in Int /\ N \in Nat
  BY Numbers, ConnsType
<1>2. chan[i] # <<>> => Queued(i) + N <= NextIn(i)
  <2> SUFFICES ASSUME chan[i] # <<>> PROVE Queued(i) + N <= NextIn(i)
    OBVIOUS
  <2>1. Len(chan[i]) \in Nat /\ Len(chan[i]) # 0
    BY TypesAt, EmptySeq
  <2>2. 1 \in 1 .. Len(chan[i]) /\ Len(chan[i]) \in 1 .. Len(chan[i])
    BY <2>1
  <2>3. chan[i][1] \in Int /\ chan[i][Len(chan[i])] \in Int
    BY <2>2, TypesAt
  <2>4. Queued(i) = chan[i][1] /\ NextIn(i) = chan[i][Len(chan[i])] + N
    BY <2>1 DEF Queued, Laid, After
  <2>5. 1 < Len(chan[i]) => chan[i][1] + N <= chan[i][Len(chan[i])]
    BY <2>2 DEF Laid, Chain
  <2>6. chan[i][1] <= chan[i][Len(chan[i])]
    BY <2>1, <2>2, <2>3, <2>5, <1>1
  <2> QED
    BY <2>3, <2>4, <2>6, <1>1
<1>3. Queued(i) <= NextIn(i)
  BY <1>1, <1>2 DEF Queued
<1>4. wr[i] = "write" => Coming(i) + N = Queued(i)
  BY DEF Coming, Laid
<1>5. wr[i] # "write" => Coming(i) = Queued(i)
  BY DEF Coming
<1> QED
  BY <1>1, <1>2, <1>3, <1>4, <1>5

\* The chunks of a wire lie between what is due and what is coming.
LEMMA OnTheWire ==
    ASSUME IInv, rd = "read", NEW i \in Conns, Chunks(wire[i]) # 0
    PROVE  /\ wire[i][1] = Due(i) /\ link[i] # "reset"
           /\ Due(i) + N <= Arriving(i) /\ Arriving(i) <= Coming(i) /\ Arriving(i) \in Int
<1> USE DEF IInv
<1> DEFINE n == Chunks(wire[i])
<1>1. n \in 1 .. Len(wire[i]) /\ Len(wire[i]) \in Nat
  BY TypesAt, ChunksType
<1>2. link[i] # "reset"
  BY <1>1, EmptySeq DEF Wires
<1>3. Chain(wire[i], n, Due(i)) /\ Arriving(i) <= Coming(i)
  BY <1>2 DEF Reads, Flows
<1>4. Due(i) \in Int /\ N \in Nat
  BY Numbers, ConnsType
<1>5. wire[i][n] \in Int /\ 1 \in 1 .. n
  BY <1>1, TypesAt
<1> HIDE DEF n
<1>6. wire[i][1] = Due(i)
  BY <1>1, <1>3 DEF Chain
<1>7. Arriving(i) = wire[i][n] + N
  BY <1>1 DEF Arriving, After, n
<1>8. 1 < n => wire[i][1] + N <= wire[i][n]
  BY <1>1, <1>3, <1>5 DEF Chain
<1>9. Due(i) <= wire[i][n]
  BY <1>1, <1>4, <1>5, <1>6, <1>8
<1> QED
  BY <1>2, <1>3, <1>4, <1>5, <1>6, <1>7, <1>9

\* The chunk at hand is the next one of the stream.
LEMMA HeadIsNext ==
    ASSUME IInv, rd = "read", wire[rpos] # <<>>, Head(wire[rpos]) > 0
    PROVE  Head(wire[rpos]) = Len(got) + 1 /\ Len(got) < sent
<1> USE DEF IInv
<1>0. PICK r \in Conns : r = rpos
  BY TypesAt
<1>1. Chunks(wire[r]) # 0 /\ Head(wire[r]) = wire[r][1]
  <2>1. wire[r] \in Seq(Items) /\ Chunks(wire[r]) \in Nat
    BY <1>0, TypesAt, ChunksType
  <2> QED
    BY <2>1, <1>0, ChunksTail
<1>2. wire[r][1] = Due(r) /\ Due(r) + N <= Arriving(r) /\ Arriving(r) <= Coming(r) /\ Arriving(r) \in Int
  BY <1>1, OnTheWire
<1>3. Due(r) = Len(got) + 1
  BY <1>0, Nearer, TypesAt DEF Due
<1>4. Coming(r) <= NextIn(r) /\ Coming(r) \in Int /\ NextIn(r) \in Int
  BY Bounds, Numbers
<1>5. NextIn(r) <= sent + N
  <2>1. Ahead(r, Turn) \in 0 .. N - 1
    BY Numbers
  <2>2. sent \in Nat /\ N \in Nat
    BY TypesAt, ConnsType
  <2> QED
    BY <2>1, <2>2 DEF NextIn
<1>6. sent \in Nat /\ Len(got) \in Nat /\ N \in Nat
  BY TypesAt, ConnsType
<1>7. Len(got) + 1 + N <= sent + N
  BY <1>2, <1>3, <1>4, <1>5, <1>6
<1>8. Len(got) < sent
  BY <1>6, <1>7
<1> QED
  BY <1>0, <1>1, <1>2, <1>3, <1>8

\* A marker is met only when everything has been read and nothing follows.
LEMMA MarkerIsEnd ==
    ASSUME IInv, rd = "read", wire[rpos] # <<>>, Head(wire[rpos]) = Marker
    PROVE  /\ closed /\ Len(got) = sent
           /\ \A i \in Conns : chan[i] = <<>> /\ wr[i] # "write" /\ Chunks(wire[i]) = 0
<1> USE DEF IInv
<1>0. PICK r \in Conns : r = rpos
  BY TypesAt
<1>1. wire[r] \in Seq(Items) /\ wire[r] # <<>> /\ wire[r][1] = Marker /\ Len(wire[r]) >= 1 /\ Len(wire[r]) \in Nat
  BY <1>0, TypesAt, ChunksTail
<1>2. Len(wire[r]) = 1 /\ wr[r] = "done" /\ link[r] # "reset"
  <2>1. 1 \in 1 .. Len(wire[r]) /\ wire[r][1] <= 0
    BY <1>1 DEF Marker
  <2>2. Len(wire[r]) = 1 /\ wr[r] = "done"
    BY <2>1, <1>1 DEF Wires
  <2>3. link[r] # "reset"
    BY <1>1 DEF Wires
  <2> QED
    BY <2>2, <2>3
<1>3. closed /\ chan[r] = <<>> /\ Coming(r) = NextIn(r)
  BY <1>2 DEF Phases, Coming, Queued
<1>4. Due(r) = NextIn(r)
  <2>1. Chunks(wire[r]) = 0
    BY <1>1, <1>2 DEF Chunks, Marker
  <2>2. Arriving(r) = Due(r)
    BY <2>1 DEF Arriving, After
  <2>3. \E j \in 1 .. Len(wire[r]) : wire[r][j] = Marker
    BY <1>1, <1>2
  <2>4. Arriving(r) = Coming(r)
    BY <2>3, <1>2 DEF Reads, Flows
  <2> QED
    BY <2>2, <2>4, <1>3
<1>5. Due(r) = Len(got) + 1
  BY <1>0, Nearer, TypesAt DEF Due
<1>6. Len(got) = sent /\ Turn = rpos
  <2>1. NextIn(r) = sent + 1 + Ahead(r, Turn) /\ Ahead(r, Turn) \in 0 .. N - 1
        /\ ((Ahead(r, Turn) = 0) <=> (r = Turn))
    BY TypesAt, Nearer DEF NextIn
  <2>2. Len(got) <= sent /\ Len(got) \in Nat /\ sent \in Nat
    BY TypesAt DEF InOrder
  <2>3. Len(got) = sent + Ahead(r, Turn)
    BY <2>1, <2>2, <1>4, <1>5
  <2> QED
    BY <2>1, <2>2, <2>3, <1>0
<1>7. ASSUME NEW i \in Conns
      PROVE  chan[i] = <<>> /\ wr[i] # "write" /\ Chunks(wire[i]) = 0
  <2>1. Due(i) = NextIn(i)
    BY <1>6 DEF Due, NextIn
  <2>2. Due(i) <= Coming(i)
    BY DEF Reads, Flows
  <2>3. NextIn(i) \in Int /\ Coming(i) \in Int /\ N \in Nat \ {0}
    BY Numbers, ConnsType
  <2>4. chan[i] = <<>> /\ wr[i] # "write"
    BY <2>1, <2>2, <2>3, Bounds
  <2>5. Chunks(wire[i]) = 0
    <3> SUFFICES ASSUME Chunks(wire[i]) # 0 PROVE FALSE
      OBVIOUS
    <3>1. Due(i) + N <= Arriving(i) /\ Arriving(i) <= Coming(i) /\ Arriving(i) \in Int
      BY OnTheWire
    <3>2. Coming(i) <= NextIn(i)
      BY Bounds
    <3> QED
      BY <3>1, <3>2, <2>1, <2>3
  <2> QED
    BY <2>4, <2>5
<1> QED
  BY <1>3, <1>6, <1>7

LEMMA AbandonStep ==
    ASSUME IInv, Abandon \/ ReadFails
    PROVE  IInv'
<1> USE DEF IInv
<1>1. /\ rd = "read" /\ rd' = "ended" /\ rerr' \in {"none", "EOF", "error"}
      /\ UNCHANGED <<sender, writers, net, got, rpos>>
  BY DEF Abandon, ReadFails, End, Types
<1>2. Types' /\ Phases' /\ Wires' /\ Room'
  BY <1>1 DEF Types, Phases, Wires, Room, sender, writers, net, closed
<1>3. Laid' /\ InOrder'
  BY <1>1, LaidFrame DEF InOrder, sender, writers
<1>4. Reads'
  BY <1>1 DEF Reads, DrainsMarkers
<1>5. Kept'
  BY <1>1 DEF Kept, Holds, sender, writers, net
<1> QED
  BY <1>2, <1>3, <1>4, <1>5

LEMMA PeerCloseStep ==
    ASSUME IInv, PeerClose
    PROVE  IInv'
<1> USE DEF IInv
<1>1. /\ rd' = "closed"
      /\ link' = [i \in Conns |-> IF link[i] = "up" THEN "reset" ELSE link[i]]
      /\ wire' = [i \in Conns |-> <<>>]
      /\ UNCHANGED <<sender, writers, got, rpos, rerr>>
  BY DEF PeerClose
<1>2. <<>> \in Seq(Items) /\ Len(<<>>) = 0 /\ Wire \in Nat
  BY EmptySeq, ConnsType
<1>3. \A i \in Conns : wire'[i] = <<>> /\ link'[i] = IF link[i] = "up" THEN "reset" ELSE link[i]
  BY <1>1
<1>4. Types'
  <2>1. link' \in [Conns -> {"up", "fin", "reset"}] /\ wire' \in [Conns -> Seq(Items)]
    BY <1>1, <1>2 DEF Types
  <2> QED
    BY <2>1, <1>1 DEF Types, sender, writers
<1>5. Phases'
  BY <1>1, <1>3 DEF Phases, sender, writers, closed
<1>6. Wires'
  BY <1>2, <1>3 DEF Wires
<1>7. Room'
  BY <1>1, <1>2, <1>3 DEF Room, writers
<1>8. Laid' /\ InOrder'
  BY <1>1, LaidFrame DEF InOrder, sender, writers
<1>9. Reads' /\ Kept'
  BY <1>1 DEF Reads, DrainsMarkers, Kept
<1> QED
  BY <1>4, <1>5, <1>6, <1>7, <1>8, <1>9

\* What CloseConns does to one connection.
LEMMA CloseConnsAt ==
    ASSUME IInv, CloseConns
    PROVE  /\ closer' = "closed" /\ UNCHANGED <<sent, pipe, shut, writers, reader>>
           /\ link' \in [Conns -> {"up", "fin", "reset"}] /\ wire' \in [Conns -> Seq(Items)]
           /\ \A i \in Conns :
               /\ link'[i] = IF link[i] = "up" THEN "fin" ELSE link[i]
               /\ \/ wire'[i] = wire[i]
                  \/ /\ wire'[i] = Append(wire[i], Part)
                     /\ link[i] = "up" /\ wr[i] \in {"write", "mark"}
                     /\ \A j \in 1 .. Len(wire[i]) : wire[i][j] > 0
<1> USE DEF IInv
<1>1. PICK t \in [Conns -> {<<>>, <<Part>>}] :
        /\ \A i \in Conns : t[i] \in (IF link[i] = "up" THEN Torn(i) ELSE {<<>>})
        /\ wire' = [i \in Conns |-> wire[i] \o t[i]]
  BY DEF CloseConns
<1>2. /\ closer' = "closed" /\ UNCHANGED <<sent, pipe, shut, writers, reader>>
      /\ link' = [i \in Conns |-> IF link[i] = "up" THEN "fin" ELSE link[i]]
  BY DEF CloseConns
<1>3. ASSUME NEW i \in Conns
      PROVE  /\ wire'[i] \in Seq(Items)
             /\ \/ wire'[i] = wire[i]
                \/ /\ wire'[i] = Append(wire[i], Part)
                   /\ link[i] = "up" /\ wr[i] \in {"write", "mark"}
                   /\ \A j \in 1 .. Len(wire[i]) : wire[i][j] > 0
  <2>1. wire[i] \in Seq(Items) /\ Part \in Items
    BY TypesAt, ConnsType
  <2>2. wire'[i] = wire[i] \o t[i]
    BY <1>1
  <2>3. CASE t[i] = <<>>
    <3>1. wire'[i] = wire[i]
      BY <2>1, <2>2, <2>3, ConcatEmptySeq
    <3> QED
      BY <3>1, <2>1
  <2>4. CASE t[i] # <<>>
    <3>1. t[i] = <<Part>> /\ link[i] = "up" /\ wr[i] \in {"write", "mark"}
      BY <2>4, <1>1 DEF Torn
    <3>2. wire'[i] = Append(wire[i], Part)
      BY <3>1, <2>1, <2>2, AppendIsConcat
    <3>3. \A j \in 1 .. Len(wire[i]) : wire[i][j] > 0
      BY <3>1, <2>1, ChunksType DEF Wires
    <3> QED
      BY <3>1, <3>2, <3>3, <2>1, AppendProperties
  <2> QED
    BY <2>3, <2>4
<1>4. wire' \in [Conns -> Seq(Items)]
  BY <1>1, <1>3
<1>5. link' \in [Conns -> {"up", "fin", "reset"}]
  BY <1>2 DEF Types
<1> QED
  BY <1>2, <1>3, <1>4, <1>5

LEMMA CloseConnsStep ==
    ASSUME IInv, CloseConns
    PROVE  IInv'
<1> USE DEF IInv
<1>1. /\ closer' = "closed" /\ UNCHANGED <<sent, pipe, shut, writers, reader>>
      /\ link' \in [Conns -> {"up", "fin", "reset"}] /\ wire' \in [Conns -> Seq(Items)]
      /\ \A i \in Conns : link'[i] = IF link[i] = "up" THEN "fin" ELSE link[i]
  BY CloseConnsAt
<1>2. ASSUME NEW i \in Conns
      PROVE  \/ wire'[i] = wire[i]
             \/ /\ link[i] = "up" /\ link'[i] = "fin" /\ wr[i] \in {"write", "mark"} /\ wr'[i] = wr[i]
                /\ wire'[i] \in Seq(Items) /\ Len(wire'[i]) = Len(wire[i]) + 1 /\ Len(wire[i]) \in Nat
                /\ \A j \in 1 .. Len(wire[i]) : wire[i][j] > 0 /\ wire'[i][j] = wire[i][j]
                /\ wire'[i][Len(wire[i]) + 1] = Part
                /\ Chunks(wire[i]) = Len(wire[i]) /\ Chunks(wire'[i]) = Len(wire[i])
  <2> SUFFICES ASSUME wire'[i] # wire[i]
               PROVE  /\ link[i] = "up" /\ link'[i] = "fin" /\ wr[i] \in {"write", "mark"} /\ wr'[i] = wr[i]
                      /\ wire'[i] \in Seq(Items) /\ Len(wire'[i]) = Len(wire[i]) + 1 /\ Len(wire[i]) \in Nat
                      /\ \A j \in 1 .. Len(wire[i]) : wire[i][j] > 0 /\ wire'[i][j] = wire[i][j]
                      /\ wire'[i][Len(wire[i]) + 1] = Part
                      /\ Chunks(wire[i]) = Len(wire[i]) /\ Chunks(wire'[i]) = Len(wire[i])
    OBVIOUS
  <2>1. /\ wire'[i] = Append(wire[i], Part) /\ link[i] = "up" /\ wr[i] \in {"write", "mark"}
        /\ \A j \in 1 .. Len(wire[i]) : wire[i][j] > 0
    BY CloseConnsAt
  <2>2. wire[i] \in Seq(Items) /\ Len(wire[i]) \in Nat /\ Part \in Items /\ ~(Part > 0)
    BY TypesAt, ConnsType DEF Part
  <2>3. link'[i] = "fin" /\ wr'[i] = wr[i]
    BY <2>1, <1>1 DEF writers
  <2> QED
    BY <2>1, <2>2, <2>3, ChunksAppend
<1>3. Types'
  BY <1>1 DEF Types, writers, reader
<1>4. Phases'
  BY <1>1 DEF Phases, writers, closed
<1>5. Laid' /\ InOrder'
  BY <1>1, LaidFrame DEF InOrder, writers, reader
<1>6. Wires'
  <2> SUFFICES ASSUME NEW i \in Conns
               PROVE  /\ \A j \in 1 .. Len(wire'[i]) : wire'[i][j] <= 0 => j = Len(wire'[i])
                      /\ \A j \in 1 .. Len(wire'[i]) : wire'[i][j] = Marker => wr'[i] = "done"
                      /\ \A j \in 1 .. Len(wire'[i]) : wire'[i][j] = Part => link'[i] # "up"
                      /\ link'[i] = "reset" => wire'[i] = <<>>
    BY DEF Wires
  <2>1. CASE wire'[i] = wire[i]
    BY <2>1, <1>1 DEF Wires, writers
  <2>2. CASE wire'[i] # wire[i]
    <3>1. ASSUME NEW j \in 1 .. Len(wire'[i])
          PROVE  (wire'[i][j] <= 0 => j = Len(wire'[i])) /\ wire'[i][j] # Marker
      <4>1. CASE j \in 1 .. Len(wire[i])
        <5>1. wire'[i][j] > 0 /\ wire'[i][j] \in Int
          BY <2>2, <4>1, <1>2, TypesAt
        <5> QED
          BY <5>1 DEF Marker
      <4>2. CASE j = Len(wire[i]) + 1
        BY <2>2, <4>2, <1>2 DEF Marker, Part
      <4> QED
        BY <2>2, <4>1, <4>2, <1>2
    <3> QED
      BY <3>1, <2>2, <1>2
  <2> QED
    BY <2>1, <2>2
<1>7. Room'
  <2>1. ASSUME NEW i \in Conns
        PROVE  Len(wire'[i]) <= Wire + (IF link'[i] = "up" THEN 0 ELSE 1)
    <3>1. Len(wire[i]) <= Wire + (IF link[i] = "up" THEN 0 ELSE 1) /\ Wire \in Nat /\ Len(wire[i]) \in Nat
      BY TypesAt, ConnsType DEF Room
    <3>2. link'[i] # "up"
      BY <1>1
    <3> QED
      BY <3>1, <3>2, <1>2
  <2> QED
    BY <2>1, <1>1 DEF Room, writers
<1>8. ASSUME NEW i \in Conns, Flows(i)
      PROVE  Flows(i)'
  <2>1. Due(i)' = Due(i) /\ Coming(i)' = Coming(i) /\ Due(i) \in Int /\ wr'[i] = wr[i]
    BY <1>1, ComingFrame, Numbers DEF Due, Ahead, writers, reader
  <2>2. link[i] = "reset" <=> link'[i] = "reset"
    BY <1>1
  <2>3. /\ Chain(wire[i], Chunks(wire[i]), Due(i)) => Chain(wire[i], Chunks(wire[i]), Due(i))'
        /\ Arriving(i)' = Arriving(i)
    <3>1. CASE wire'[i] = wire[i]
      BY <3>1, <2>1 DEF Arriving, Chain, After, Chunks
    <3>2. CASE wire'[i] # wire[i]
      <4>1. /\ Chunks(wire'[i]) = Chunks(wire[i]) /\ Chunks(wire[i]) \in Nat
            /\ \A j \in 1 .. Chunks(wire[i]) : wire'[i][j] = wire[i][j]
        BY <3>2, <1>2
      <4>2. /\ Chain(wire[i], Chunks(wire[i]), Due(i)) => Chain(wire'[i], Chunks(wire[i]), Due(i))
            /\ After(wire'[i], Chunks(wire[i]), Due(i)) = After(wire[i], Chunks(wire[i]), Due(i))
        BY <4>1, <2>1, ChainSame
      <4> QED
        BY <4>1, <4>2, <2>1 DEF Arriving, Chain, After
    <3> QED
      BY <3>1, <3>2
  <2>4. (\E j \in 1 .. Len(wire'[i]) : wire'[i][j] = Marker) =>
            wr[i] \in {"range", "write", "mark"} \/ \E j \in 1 .. Len(wire[i]) : wire[i][j] = Marker
    BY <1>2
  <2> QED
    BY <1>8, <2>1, <2>2, <2>3, <2>4 DEF Flows
<1>9. Reads'
  <2>1. ASSUME rd = "drain", NEW i \in Conns
        PROVE  \A j \in DOMAIN wire'[i] : wire'[i][j] \in {Marker, Part}
    <3>1. CASE wire'[i] = wire[i]
      BY <3>1, <2>1 DEF Reads, DrainsMarkers
    <3>2. CASE wire'[i] # wire[i]
      <4>1. DOMAIN wire'[i] = 1 .. Len(wire[i]) + 1 /\ DOMAIN wire[i] = 1 .. Len(wire[i])
        BY <3>2, <1>2, TypesAt, LenProperties
      <4>2. wr[i] # "write" /\ \A j \in 1 .. Len(wire[i]) : wire[i][j] \in {Marker, Part}
        BY <4>1, <2>1 DEF Reads, DrainsMarkers
      <4>3. /\ \A j \in 1 .. Len(wire[i]) : wire'[i][j] = wire[i][j]
            /\ wire'[i][Len(wire[i]) + 1] = Part /\ Len(wire[i]) \in Nat
        BY <3>2, <1>2
      <4> QED
        BY <4>1, <4>2, <4>3
    <3> QED
      BY <3>1, <3>2
  <2>2. DrainsMarkers'
    BY <2>1, <1>1 DEF Reads, DrainsMarkers, writers, reader
  <2> QED
    BY <2>2, <1>1, <1>8 DEF Reads, reader, closed
<1>10. Kept'
  <2> SUFFICES ASSUME ~err, rd # "closed", \A i \in Conns : link'[i] # "reset",
                      NEW k \in 1 .. sent
               PROVE  \/ k <= Len(got)
                      \/ \E i \in Conns : Holds(chan[i], k) \/ hold[i] = k \/ Holds(wire'[i], k)
    <3>1. err' = err /\ rd' = rd /\ sent' = sent /\ got' = got /\ chan' = chan /\ hold' = hold
      BY <1>1 DEF reader, writers
    <3> QED
      BY <3>1 DEF Kept, Holds
  <2>1. \A i \in Conns : Holds(wire[i], k) => Holds(wire'[i], k)
    <3> SUFFICES ASSUME NEW i \in Conns, Holds(wire[i], k) PROVE Holds(wire'[i], k)
      OBVIOUS
    <3>1. PICK j \in 1 .. Len(wire[i]) : wire[i][j] = k
      BY DEF Holds
    <3>2. j \in 1 .. Len(wire'[i]) /\ wire'[i][j] = k
      BY <3>1, <1>2
    <3> QED
      BY <3>2 DEF Holds
  <2>2. \A i \in Conns : link[i] # "reset"
    BY <1>1
  <2> QED
    BY <2>1, <2>2 DEF Kept
<1> QED
  BY <1>3, <1>4, <1>5, <1>6, <1>7, <1>9, <1>10

\* The reader takes the first item off a connection.
LEMMA Removed ==
    ASSUME IInv, NEW r \in Conns, wire[r] # <<>>, wire' = [wire EXCEPT ![r] = Tail(@)],
           UNCHANGED <<sender, writers, link>>,
           rpos' \in Conns, got' \in Seq(Items),
           rd' \in {"read", "drain", "ended", "closed"}, rerr' \in {"none", "EOF", "error"}
    PROVE  /\ Types' /\ Phases' /\ Wires' /\ Room' /\ Laid'
           /\ \A i \in Conns : wire'[i] = IF i = r THEN Tail(wire[r]) ELSE wire[i]
           /\ \A i \in Conns : Coming(i)' = Coming(i)
<1> USE DEF IInv
<1>1. wire \in [Conns -> Seq(Items)] /\ wire[r] \in Seq(Items) /\ Len(wire[r]) \in Nat
  BY TypesAt DEF Types
<1>2. /\ Tail(wire[r]) \in Seq(Items) /\ Len(Tail(wire[r])) = Len(wire[r]) - 1 /\ Len(wire[r]) >= 1
      /\ \A j \in 1 .. Len(wire[r]) - 1 : Tail(wire[r])[j] = wire[r][j + 1]
  BY <1>1, ChunksTail
<1>3. \A i \in Conns : wire'[i] = IF i = r THEN Tail(wire[r]) ELSE wire[i]
  BY <1>1
<1>4. Types'
  <2>1. wire' \in [Conns -> Seq(Items)]
    BY <1>1, <1>2
  <2> QED
    BY <2>1 DEF Types, sender, writers
<1>5. Phases'
  BY DEF Phases, sender, writers, closed
<1>6. Wires'
  <2>1. ASSUME NEW j \in 1 .. Len(wire'[r])
        PROVE  /\ wire'[r][j] <= 0 => j = Len(wire'[r])
               /\ wire'[r][j] = Marker => wr[r] = "done"
               /\ wire'[r][j] = Part => link[r] # "up"
    <3>1. j + 1 \in 1 .. Len(wire[r]) /\ wire'[r][j] = wire[r][j + 1] /\ Len(wire'[r]) = Len(wire[r]) - 1 /\ j \in Nat
      BY <1>1, <1>2, <1>3
    <3>2. /\ wire[r][j + 1] <= 0 => j + 1 = Len(wire[r])
          /\ wire[r][j + 1] = Marker => wr[r] = "done"
          /\ wire[r][j + 1] = Part => link[r] # "up"
      BY <3>1 DEF Wires
    <3>3. j + 1 = Len(wire[r]) => j = Len(wire'[r])
      <4>1. Len(wire'[r]) = Len(wire[r]) - 1 /\ j \in Nat
        BY <3>1
      <4>2. Len(wire[r]) \in Nat
        BY <1>1
      <4> QED
        BY <4>1, <4>2
    <3> QED
      BY <3>1, <3>2, <3>3
  <2>2. link[r] # "reset"
    BY DEF Wires
  <2>3. wr' = wr /\ link' = link
    BY DEF writers
  <2> QED
    BY <2>1, <2>2, <2>3, <1>3 DEF Wires
<1>7. Room'
  <2>1. ASSUME NEW i \in Conns
        PROVE  Len(wire'[i]) <= Wire + (IF link'[i] = "up" THEN 0 ELSE 1)
    <3>1. Len(wire[i]) <= Wire + (IF link[i] = "up" THEN 0 ELSE 1) /\ Wire \in Nat /\ Len(wire[i]) \in Nat
      BY TypesAt, ConnsType DEF Room
    <3> QED
      BY <3>1, <1>2, <1>3
  <2> QED
    BY <2>1 DEF Room, writers
<1>8. Laid' /\ \A i \in Conns : Coming(i)' = Coming(i)
  BY LaidFrame, ComingFrame DEF sender, writers
<1> QED
  BY <1>3, <1>4, <1>5, <1>6, <1>7, <1>8

\* What has not been read stays where it was.
LEMMA StillKept ==
    ASSUME IInv, NEW r \in Conns, wire[r] # <<>>,
           \A i \in Conns : wire'[i] = IF i = r THEN Tail(wire[r]) ELSE wire[i],
           UNCHANGED <<sender, writers, link>>, rd # "closed", Len(got') >= Len(got), Len(got') \in Nat,
           Head(wire[r]) > 0 => Head(wire[r]) <= Len(got')
    PROVE  Kept'
<1> USE DEF IInv
<1> SUFFICES ASSUME ~err, \A i \in Conns : link[i] # "reset", NEW k \in 1 .. sent, ~(k <= Len(got'))
             PROVE  \E i \in Conns : Holds(chan[i], k) \/ hold[i] = k \/ Holds(wire'[i], k)
  <2>1. err' = err /\ link' = link /\ sent' = sent /\ chan' = chan /\ hold' = hold
    BY DEF sender, writers
  <2> QED
    BY <2>1 DEF Kept, Holds
<1>1. ~(k <= Len(got)) /\ k \in Int /\ k > 0
  BY TypesAt
<1>2. wire[r] \in Seq(Items) /\ Head(wire[r]) \in Int
  BY TypesAt, HeadTailProperties, ConnsType
<1>3. Holds(wire[r], k) => Holds(Tail(wire[r]), k)
  <2>1. Head(wire[r]) # k
    BY <1>1, <1>2
  <2> QED
    BY <2>1, <1>2, HoldsTail
<1>4. \E i \in Conns : Holds(chan[i], k) \/ hold[i] = k \/ Holds(wire[i], k)
  BY <1>1 DEF Kept
<1> QED
  BY <1>3, <1>4

LEMMA ReadChunkStep ==
    ASSUME IInv, ReadChunk
    PROVE  IInv'
<1> USE DEF IInv
<1>0. PICK r \in Conns : r = rpos
  BY TypesAt
<1>1. /\ rd = "read" /\ wire[r] # <<>> /\ Head(wire[r]) > 0
      /\ got' = Append(got, Head(wire[r])) /\ wire' = [wire EXCEPT ![r] = Tail(@)]
      /\ rpos' = Following(r) /\ rd' = rd /\ rerr' = rerr
      /\ UNCHANGED <<sender, writers, link>>
  BY <1>0 DEF ReadChunk
<1>2. Head(wire[r]) = Len(got) + 1 /\ Len(got) < sent
  BY <1>0, <1>1, HeadIsNext
<1>3. wire[r] \in Seq(Items) /\ Head(wire[r]) \in Items /\ got \in Seq(Items) /\ Len(got) \in Nat /\ sent \in Nat
  BY <1>1, TypesAt, HeadTailProperties DEF Types
<1>4. /\ got' \in Seq(Items) /\ Len(got') = Len(got) + 1
      /\ \A j \in 1 .. Len(got) : got'[j] = got[j]
      /\ got'[Len(got) + 1] = Len(got) + 1
  BY <1>1, <1>2, <1>3, AppendProperties
<1>5. InOrder'
  BY <1>1, <1>2, <1>3, <1>4 DEF InOrder, sender
<1>6. /\ Types' /\ Phases' /\ Wires' /\ Room' /\ Laid'
      /\ \A i \in Conns : wire'[i] = IF i = r THEN Tail(wire[r]) ELSE wire[i]
      /\ \A i \in Conns : Coming(i)' = Coming(i)
  <2>1. rpos' \in Conns /\ rd' \in {"read", "drain", "ended", "closed"} /\ rerr' \in {"none", "EOF", "error"}
    BY <1>1, FollowingType DEF Types
  <2> QED
    BY <2>1, <1>1, <1>4, Removed
<1>7. ASSUME NEW i \in Conns
      PROVE  Flows(i)'
  <2>0. Flows(i)
    BY <1>1 DEF Reads
  <2>1. Due(i)' = IF i = r THEN Due(i) + N ELSE Due(i)
    <3>1. /\ Ahead(i, r) \in 0 .. N - 1 /\ ((Ahead(i, r) = 0) <=> (i = r))
          /\ Ahead(i, Following(r)) = IF i = r THEN N - 1 ELSE Ahead(i, r) - 1
      BY Nearer
    <3>2. Due(i) = Len(got) + 1 + Ahead(i, r) /\ Due(i)' = Len(got) + 1 + 1 + Ahead(i, Following(r))
      BY <1>0, <1>1, <1>4 DEF Due
    <3>3. N \in Nat
      BY ConnsType
    <3> HIDE DEF Ahead, Following
    <3> QED
      BY <3>1, <3>2, <3>3, <1>3
  <2>2. CASE i # r
    BY <2>0, <2>1, <2>2, <1>1, <1>6, FlowsSame DEF writers
  <2>3. CASE i = r
    <3> DEFINE n == Chunks(wire[r])
               t == Tail(wire[r])
    <3>1. n \in 1 .. Len(wire[r]) /\ Chunks(t) = n - 1 /\ n # 0
      BY <1>1, <1>3, ChunksTail, ChunksType
    <3>2. Due(r) + N <= Arriving(r) /\ Arriving(r) <= Coming(r) /\ Arriving(r) \in Int /\ link[r] # "reset"
      BY <1>1, <3>1, OnTheWire
    <3>3. Chain(t, n - 1, Due(r) + N) /\ After(t, n - 1, Due(r) + N) = After(wire[r], n, Due(r))
      <4>1. Chain(wire[r], n, Due(r)) /\ Due(r) \in Int /\ wire[r] \in Seq(Int)
        BY <2>0, <2>3, <3>2, Numbers, TypesAt DEF Flows
      <4> HIDE DEF n
      <4> QED
        BY <4>1, <3>1, ChainTail
    <3>4. wire'[r] = t /\ Due(r)' = Due(r) + N /\ Coming(r)' = Coming(r)
      BY <2>1, <2>3, <1>6
    <3>5. Arriving(r)' = Arriving(r) /\ Chain(wire[r], Chunks(wire[r]), Due(r))'
      BY <3>1, <3>3, <3>4 DEF Arriving, Chain, After
    <3>6. Due(r)' <= Coming(r)'
      <4>1. Due(r) \in Int /\ Coming(r) \in Int /\ N \in Nat
        BY Numbers, ConnsType
      <4> QED
        BY <4>1, <3>2, <3>4
    <3>7. (\E j \in 1 .. Len(wire'[r]) : wire'[r][j] = Marker) => \E j \in 1 .. Len(wire[r]) : wire[r][j] = Marker
      <4> SUFFICES ASSUME NEW j \in 1 .. Len(wire'[r]), wire'[r][j] = Marker
                   PROVE  \E l \in 1 .. Len(wire[r]) : wire[r][l] = Marker
        OBVIOUS
      <4>1. j \in 1 .. Len(wire[r]) - 1 /\ j + 1 \in 1 .. Len(wire[r])
        BY <1>1, <1>3, <3>4, ChunksTail, ChunksType
      <4>2. wire'[r][j] = wire[r][j + 1]
        BY <4>1, <1>1, <1>3, <3>4, ChunksTail
      <4> QED
        BY <4>1, <4>2
    <3>8. wr'[r] = wr[r] /\ link'[r] = link[r]
      BY <1>1 DEF writers
    <3> HIDE DEF n, t
    <3> QED
      BY <2>0, <2>3, <3>2, <3>4, <3>5, <3>6, <3>7, <3>8 DEF Flows
  <2> QED
    BY <2>2, <2>3
<1>8. Reads'
  BY <1>1, <1>7 DEF Reads, DrainsMarkers
<1>9. Kept'
  BY <1>1, <1>2, <1>3, <1>4, <1>6, StillKept
<1> QED
  BY <1>5, <1>6, <1>8, <1>9

LEMMA ReadMarkerStep ==
    ASSUME IInv, ReadMarker
    PROVE  IInv'
<1> USE DEF IInv
<1>0. PICK r \in Conns : r = rpos
  BY TypesAt
<1>1. /\ rd = "read" /\ wire[r] # <<>> /\ Head(wire[r]) = Marker
      /\ wire' = [wire EXCEPT ![r] = Tail(@)]
      /\ \/ rd' = "ended" /\ rerr' = "EOF"
         \/ rd' = "drain" /\ rerr' = rerr
      /\ rpos' = Following(r) /\ got' = got
      /\ UNCHANGED <<sender, writers, link>>
  BY <1>0 DEF ReadMarker, End
<1>2. /\ closed /\ Len(got) = sent
      /\ \A i \in Conns : chan[i] = <<>> /\ wr[i] # "write" /\ Chunks(wire[i]) = 0
  BY <1>0, <1>1, MarkerIsEnd
<1>3. /\ Types' /\ Phases' /\ Wires' /\ Room' /\ Laid'
      /\ \A i \in Conns : wire'[i] = IF i = r THEN Tail(wire[r]) ELSE wire[i]
  <2>1. /\ rpos' \in Conns /\ rd' \in {"read", "drain", "ended", "closed"} /\ rerr' \in {"none", "EOF", "error"}
        /\ got' \in Seq(Items)
    BY <1>1, FollowingType DEF Types
  <2> QED
    BY <2>1, <1>1, Removed
<1>4. InOrder'
  BY <1>1 DEF InOrder, sender
<1>5. DrainsMarkers'
  <2> SUFFICES ASSUME NEW i \in Conns, NEW j \in DOMAIN wire'[i]
               PROVE  wire'[i][j] \in {Marker, Part}
    BY <1>1, <1>2 DEF DrainsMarkers, writers
  <2>1. wire[i] \in Seq(Items) /\ Len(wire[i]) \in Nat /\ wire'[i] \in Seq(Items)
    BY TypesAt, <1>3 DEF Types
  <2>2. wire[i] # <<>> => Len(wire[i]) = 1 /\ wire[i][1] \in {Marker, Part}
    <3> SUFFICES ASSUME wire[i] # <<>> PROVE Len(wire[i]) = 1 /\ wire[i][1] \in {Marker, Part}
      OBVIOUS
    <3>1. Len(wire[i]) # 0 /\ Chunks(wire[i]) = 0
      BY <1>2, <2>1, EmptySeq
    <3>2. Len(wire[i]) = 1 /\ wire[i][1] <= 0
      BY <3>1, <2>1 DEF Chunks
    <3> QED
      BY <3>2, <2>1, ChunksType
  <2>3. CASE i = r
    <3>1. Len(wire'[r]) = 0
      <4>1. Len(wire[r]) = 1 /\ wire'[r] = Tail(wire[r]) /\ wire[r] \in Seq(Items)
        BY <1>1, <1>3, <2>1, <2>2, <2>3
      <4> QED
        BY <4>1, <1>1, ChunksTail
    <3> QED
      BY <3>1, <2>1, <2>3, LenProperties
  <2>4. CASE i # r
    <3>1. DOMAIN wire'[i] = 1 .. Len(wire[i]) /\ wire'[i] = wire[i]
      BY <1>3, <2>1, <2>4, LenProperties
    <3> QED
      BY <3>1, <2>1, <2>2, EmptySeq
  <2> QED
    BY <2>3, <2>4
<1>6. Reads'
  <2>1. rerr = "none"
    BY <1>1 DEF Reads
  <2> QED
    BY <2>1, <1>1, <1>2, <1>5 DEF Reads, sender, closed
<1>7. Kept'
  BY <1>1, <1>3, TypesAt, StillKept DEF Marker
<1> QED
  BY <1>3, <1>4, <1>6, <1>7

LEMMA DrainStep ==
    ASSUME IInv, Drain
    PROVE  IInv'
<1> USE DEF IInv
<1>0. PICK r \in Conns : r = rpos
  BY TypesAt
<1>1. /\ rd = "drain" /\ rpos' = Following(r) /\ got' = got
      /\ wire' = [wire EXCEPT ![r] = IF @ = <<>> THEN @ ELSE Tail(@)]
      /\ \/ rd' = "ended" /\ rerr' = "EOF"
         \/ rd' = "drain" /\ rerr' = rerr
      /\ UNCHANGED <<sender, writers, link>>
  BY <1>0 DEF Drain, End
<1>2. /\ rpos' \in Conns /\ rd' \in {"read", "drain", "ended", "closed"} /\ rerr' \in {"none", "EOF", "error"}
      /\ got' \in Seq(Items)
  BY <1>1, FollowingType DEF Types
<1>3. InOrder'
  BY <1>1 DEF InOrder, sender
<1>4. CASE wire[r] = <<>>
  <2>1. wire' = wire
    BY <1>1, <1>4 DEF Types
  <2>2. Types' /\ Phases'
    BY <2>1, <1>1, <1>2 DEF Types, Phases, sender, writers, closed
  <2>3. Wires' /\ Room' /\ Laid'
    BY <2>1, <1>1, LaidFrame DEF Wires, Room, sender, writers
  <2>4. Reads'
    BY <2>1, <1>1 DEF Reads, DrainsMarkers, sender, writers, closed
  <2>5. Kept'
    BY <2>1, <1>1 DEF Kept, Holds, sender, writers
  <2> QED
    BY <2>2, <2>3, <2>4, <2>5, <1>3
<1>5. CASE wire[r] # <<>>
  <2>1. wire' = [wire EXCEPT ![r] = Tail(@)]
    BY <1>1, <1>5
  <2>2. /\ Types' /\ Phases' /\ Wires' /\ Room' /\ Laid'
        /\ \A i \in Conns : wire'[i] = IF i = r THEN Tail(wire[r]) ELSE wire[i]
    BY <2>1, <1>1, <1>2, <1>5, Removed
  <2>3. wire[r] \in Seq(Items) /\ Len(wire[r]) \in Nat /\ Len(wire[r]) >= 1 /\ Head(wire[r]) = wire[r][1]
        /\ DOMAIN wire[r] = 1 .. Len(wire[r])
    BY <1>5, TypesAt, ChunksTail, LenProperties
  <2>4. ~(Head(wire[r]) > 0)
    <3>1. wire[r][1] \in {Marker, Part}
      BY <2>3, <1>1 DEF Reads, DrainsMarkers
    <3> QED
      BY <3>1, <2>3 DEF Marker, Part
  <2>5. \A j \in DOMAIN wire'[r] : wire'[r][j] \in {Marker, Part}
    <3>1. wire'[r] \in Seq(Items) /\ Len(wire'[r]) = Len(wire[r]) - 1 /\ DOMAIN wire'[r] = 1 .. Len(wire'[r])
          /\ \A j \in 1 .. Len(wire[r]) - 1 : wire'[r][j] = wire[r][j + 1]
      <4>1. wire'[r] = Tail(wire[r]) /\ wire[r] # <<>>
        BY <2>2, <2>3
      <4>2. DOMAIN Tail(wire[r]) = 1 .. Len(Tail(wire[r]))
        BY <2>3, <4>1, ChunksTail, LenProperties
      <4> QED
        BY <2>3, <4>1, <4>2, ChunksTail
    <3>2. \A j \in 1 .. Len(wire[r]) - 1 : j + 1 \in DOMAIN wire[r]
      BY <2>3
    <3>3. \A j \in DOMAIN wire[r] : wire[r][j] \in {Marker, Part}
      BY <1>1 DEF Reads, DrainsMarkers
    <3> QED
      <4> TAKE j \in DOMAIN wire'[r]
      <4>1. j \in 1 .. Len(wire[r]) - 1
        BY <3>1
      <4> QED
        BY <4>1, <3>1, <3>2, <3>3
  <2>6. Reads'
    <3>1. DrainsMarkers'
      BY <2>2, <2>5, <1>1 DEF Reads, DrainsMarkers, writers
    <3> QED
      BY <3>1, <1>1 DEF Reads, sender, closed
  <2>7. Kept'
    BY <1>1, <1>5, <2>2, <2>4, TypesAt, StillKept
  <2> QED
    BY <2>2, <2>6, <2>7, <1>3
<1> QED
  BY <1>4, <1>5

-----------------------------------------------------------------------------
(* The theorems.                                                           *)

LEMMA Initially ==
    ASSUME Init
    PROVE  IInv
<1>1. /\ sent = 0 /\ pipe = "idle" /\ shut = "no" /\ closer = "no" /\ err = FALSE
      /\ chan = [i \in Conns |-> <<>>] /\ wr = [i \in Conns |-> "range"]
      /\ hold = [i \in Conns |-> 0] /\ link = [i \in Conns |-> "up"]
      /\ wire = [i \in Conns |-> <<>>]
      /\ got = <<>> /\ rd = "read" /\ rpos = 0 /\ rerr = "none"
  BY DEF Init
<1>2. /\ N \in Nat \ {0} /\ Total \in Nat /\ QueueLen \in Nat /\ Wire \in Nat /\ 0 \in Conns
      /\ <<>> \in Seq(1 .. Total) /\ <<>> \in Seq(Items) /\ Len(<<>>) = 0
  BY ConnsType, EmptySeq
<1>3. Types
  BY <1>1, <1>2 DEF Types
<1>4. Phases /\ Room /\ Wires
  BY <1>1, <1>2 DEF Phases, Room, Wires, closed
<1>5. Turn = 0
  <2>1. 0 + 1 \in Nat /\ 0 % N \in 0 .. N - 1 /\ 0 = N * (0 \div N) + (0 % N) /\ 0 \div N \in Nat
    BY <1>2, Division
  <2>2. N * 0 + 0 = N * (0 \div N) + (0 % N)
    BY <1>2, <2>1
  <2>3. 0 % N = 0
    BY <1>2, <2>1, <2>2, Remainder
  <2> QED
    BY <1>1, <2>3 DEF Turn
<1>6. ASSUME NEW i \in Conns
      PROVE  /\ Len(chan[i]) = 0 /\ Len(wire[i]) = 0 /\ Chunks(wire[i]) = 0
             /\ Queued(i) = NextIn(i) /\ Coming(i) = NextIn(i) /\ NextIn(i) = Due(i) /\ Due(i) \in Int
  <2>1. chan[i] = <<>> /\ wire[i] = <<>> /\ wr[i] = "range"
    BY <1>1
  <2>2. NextIn(i) = Due(i)
    BY <1>1, <1>2, <1>5 DEF NextIn, Due
  <2>3. Due(i) \in Int
    BY <1>3, Numbers
  <2> QED
    BY <1>2, <2>1, <2>2, <2>3 DEF Queued, Coming, Chunks
<1>7. Laid
  BY <1>1, <1>6 DEF Laid, Chain, After
<1>8. \A i \in Conns : Flows(i)
  BY <1>6 DEF Flows, Chain, After, Arriving
<1>9. InOrder /\ Reads /\ Kept
  BY <1>1, <1>2, <1>8 DEF InOrder, Reads, DrainsMarkers, Kept
<1> QED
  BY <1>3, <1>4, <1>7, <1>9 DEF IInv

LEMMA Step ==
    ASSUME IInv, [Next]_vars
    PROVE  IInv'
<1>1. ASSUME NEW i \in Conns, WriterStep(i) \/ Reset(i)
      PROVE  IInv'
  BY <1>1, TakeStep, RangedStep, PutStep, PutMarkerStep, ResetStep DEF WriterStep
<1>2. CASE PipeStep \/ SourceEnds
  BY <1>2, PipeQuiet, SendStep DEF PipeStep
<1>3. CASE ShutStep \/ Close \/ CloserStep \/ UNCHANGED vars
  BY <1>3, CloseQuiet, CloseConnsStep DEF CloserStep
<1>4. CASE ReaderStep \/ Abandon \/ PeerClose
  BY <1>4, ReadChunkStep, ReadMarkerStep, DrainStep, AbandonStep, PeerCloseStep DEF ReaderStep
<1> QED
  BY <1>1, <1>2, <1>3, <1>4 DEF Next

LEMMA Invariant == Spec => []IInv
BY Initially, Step, PTL DEF Spec

\* Every variable keeps to its type, no channel holds more than queueLen
\* chunks, and what is read is never more than what there was to write.
THEOREM StripeTypes == Spec => []TypeOK
<1>1. ASSUME IInv PROVE TypeOK
  <2>1. Len(got) <= Total
    BY <1>1, TypesAt, ConnsType DEF IInv, InOrder, Types
  <2>2. ASSUME NEW i \in Conns
        PROVE  /\ chan[i] \in Seq(1 .. Total) /\ Len(chan[i]) <= QueueLen
               /\ wire[i] \in Seq(Items) /\ Len(wire[i]) <= Wire + 1
    <3>1. Len(wire[i]) \in Nat /\ Wire \in Nat
      BY <1>1, TypesAt, ConnsType DEF IInv
    <3>2. Len(wire[i]) <= Wire + (IF link[i] = "up" THEN 0 ELSE 1) /\ Len(chan[i]) <= QueueLen
      BY <1>1 DEF IInv, Room
    <3>3. Len(wire[i]) <= Wire + 1
      BY <3>1, <3>2
    <3> QED
      BY <1>1, <3>2, <3>3, TypesAt DEF IInv
  <2> QED
    BY <1>1, <2>1, <2>2 DEF IInv, Types, TypeOK
<1> QED
  BY <1>1, Invariant, PTL

\* Write never sends on a closed channel (Write, closeWrite).
THEOREM StripeNoPanic == Spec => []NoPanic
<1>1. IInv => NoPanic
  BY DEF IInv, Phases, NoPanic
<1> QED
  BY <1>1, Invariant, PTL

\* drain never throws data away (Read, drain).
THEOREM StripeDrains == Spec => []DrainsMarkers
<1>1. IInv => DrainsMarkers
  BY DEF IInv, Reads
<1> QED
  BY <1>1, Invariant, PTL

\* A CloseWrite that reports success has lost nothing (writer, fail, failure).
THEOREM StripeKeeps == Spec => []NoSilentLoss
<1>1. ASSUME IInv PROVE NoSilentLoss
  <2> SUFFICES ASSUME pipe = "over", rd # "closed", \A i \in Conns : link[i] # "reset", NEW k \in 1 .. sent
               PROVE  \/ \E j \in DOMAIN got : got[j] = k
                      \/ \E i \in Conns : \E j \in DOMAIN wire[i] : wire[i][j] = k
    BY DEF NoSilentLoss
  <2> USE <1>1 DEF IInv
  <2>1. ~err /\ \A i \in Conns : wr[i] = "done" /\ chan[i] = <<>> /\ hold[i] = 0
    BY DEF Phases
  <2>2. k # 0 /\ k \in Int /\ Len(got) \in Nat /\ k > 0
    BY TypesAt
  <2>3. k <= Len(got) \/ \E i \in Conns : Holds(wire[i], k)
    <3>1. ASSUME NEW i \in Conns PROVE ~Holds(chan[i], k) /\ hold[i] # k
      BY <2>1, <2>2, EmptySeq DEF Holds
    <3> QED
      BY <2>1, <3>1 DEF Kept
  <2>4. CASE k <= Len(got)
    <3>1. k \in 1 .. Len(got) /\ DOMAIN got = 1 .. Len(got)
      BY <2>2, <2>4, LenProperties DEF Types
    <3> QED
      BY <3>1 DEF InOrder
  <2>5. ASSUME NEW i \in Conns, Holds(wire[i], k)
        PROVE  \E j \in DOMAIN wire[i] : wire[i][j] = k
    <3>1. DOMAIN wire[i] = 1 .. Len(wire[i])
      BY TypesAt, LenProperties
    <3> QED
      BY <2>5, <3>1 DEF Holds
  <2> QED
    BY <2>3, <2>4, <2>5
<1> QED
  BY <1>1, Invariant, PTL

-----------------------------------------------------------------------------
(* The refinement.                                                         *)

LEMMA StreamInit ==
    ASSUME Init
    PROVE  Stream!Init
BY DEF Init, Stream!Init, closed, Tears

\* A step that neither end of the stream can see.
LEMMA Unseen ==
    ASSUME UNCHANGED <<sent, shut, got, link, rerr>>
    PROVE  UNCHANGED Stream!vars
BY DEF Stream!vars, closed, Tears

\* A step that tears the stream, or is taken when it is torn already.
LEMMA Tearing ==
    ASSUME UNCHANGED <<sent, got, rerr>>, Tears', closed' = closed
    PROVE  Stream!Tear
BY DEF Stream!Tear, closed

LEMMA PipeStream ==
    ASSUME IInv, PipeStep \/ SourceEnds
    PROVE  [Stream!Next]_(Stream!vars)
<1>1. CASE BeginWrite \/ SendQuits \/ CloseWriteReturns \/ SourceEnds
  BY <1>1, Unseen DEF BeginWrite, SendQuits, CloseWriteReturns, SourceEnds, writers, net, reader
<1>2. CASE Send
  <2>1. ~closed /\ sent < Total
    BY <1>2 DEF IInv, Phases, Send
  <2>2. sent' = sent + 1 /\ UNCHANGED <<shut, got, link, rerr>>
    BY <1>2 DEF Send, net, reader
  <2>3. Stream!Write
    BY <2>1, <2>2 DEF Stream!Write, closed, Tears
  <2> QED
    BY <2>3 DEF Stream!Next
<1>3. CASE CloseWrite
  <2>1. shut' = Once /\ UNCHANGED <<sent, got, link, rerr>>
    BY <1>3 DEF CloseWrite, net, reader
  <2>2. (closed' <=> closed) /\ (Tears' <=> Tears)
    BY <2>1 DEF Once, closed, Tears
  <2> QED
    BY <2>1, <2>2 DEF Stream!vars, closed, Tears
<1> QED
  BY <1>1, <1>2, <1>3 DEF PipeStep

LEMMA CloseStream ==
    ASSUME IInv, ShutStep \/ Close \/ CloserStep \/ UNCHANGED vars
    PROVE  [Stream!Next]_(Stream!vars)
<1>1. CASE CloseReturns \/ UNCHANGED vars
  BY <1>1, Unseen DEF CloseReturns, vars, sender, writers, net, reader
<1>2. CASE Shut \/ Waited
  <2>1. closed' = TRUE /\ UNCHANGED <<sent, got, link, rerr>>
    BY <1>2 DEF Shut, Waited, closed, net, reader
  <2>2. Stream!CloseWrite
    BY <2>1 DEF Stream!CloseWrite, Tears
  <2> QED
    BY <2>2 DEF Stream!Next
<1>3. CASE Close
  <2>1. shut' = Once /\ UNCHANGED <<sent, got, link, rerr>>
    BY <1>3 DEF Close, net, reader
  <2> QED
    BY <2>1 DEF Once, Stream!vars, closed, Tears
<1>4. CASE CloseConns
  <2>1. /\ UNCHANGED <<sent, shut, got, rerr>>
        /\ \A i \in Conns : link'[i] = IF link[i] = "up" THEN "fin" ELSE link[i]
    BY <1>4, CloseConnsAt DEF reader
  <2>2. Tears' /\ closed' = closed
    BY <2>1, ConnsType DEF Tears, closed
  <2> QED
    BY <2>1, <2>2, Tearing DEF Stream!Next
<1> QED
  BY <1>1, <1>2, <1>3, <1>4 DEF ShutStep, CloserStep

LEMMA WriterStream ==
    ASSUME IInv, NEW t \in Conns, WriterStep(t) \/ Reset(t)
    PROVE  [Stream!Next]_(Stream!vars)
<1>1. CASE WriterStep(t)
  BY <1>1, Unseen DEF WriterStep, Take, Ranged, Put, PutMarker, sender, net, reader
<1>2. CASE Reset(t)
  <2>1. UNCHANGED <<sent, shut, got, rerr>> /\ link'[t] = "reset"
    BY <1>2 DEF Reset, sender, reader, IInv, Types
  <2>2. Tears' /\ closed' = closed
    BY <2>1 DEF Tears, closed
  <2> QED
    BY <2>1, <2>2, Tearing DEF Stream!Next
<1> QED
  BY <1>1, <1>2

LEMMA ReaderStream ==
    ASSUME IInv, ReaderStep \/ Abandon \/ PeerClose
    PROVE  [Stream!Next]_(Stream!vars)
<1> USE DEF IInv
<1>0. rpos \in Conns /\ wire[rpos] \in Seq(Items)
  BY TypesAt
<1>1. CASE ReadChunk
  <2>1. Head(wire[rpos]) = Len(got) + 1 /\ Len(got) < sent /\ rerr = "none"
    BY <1>1, HeadIsNext DEF ReadChunk, Reads
  <2>2. got' = Append(got, Len(got) + 1) /\ UNCHANGED <<sent, shut, link, rerr>>
    BY <1>1, <2>1 DEF ReadChunk, sender
  <2>3. Stream!Deliver
    BY <2>1, <2>2 DEF Stream!Deliver, closed, Tears
  <2> QED
    BY <2>3 DEF Stream!Next
<1>2. CASE ReadMarker
  <2>1. closed /\ Len(got) = sent /\ rerr = "none" /\ UNCHANGED <<sent, shut, got, link>>
        /\ rerr' \in {rerr, "EOF"}
    BY <1>2, MarkerIsEnd DEF ReadMarker, End, Reads, sender
  <2>2. CASE rerr' = rerr
    BY <2>1, <2>2, Unseen
  <2>3. CASE rerr' = "EOF"
    BY <2>1, <2>3 DEF Stream!Finish, Stream!Next, closed, Tears
  <2> QED
    BY <2>1, <2>2, <2>3
<1>3. CASE ReadFails
  <2>1. rerr = "none" /\ rerr' \in {"EOF", "error"} /\ UNCHANGED <<sent, shut, got, link>>
    BY <1>3 DEF ReadFails, End, Reads, sender, net
  <2>2. link[rpos] # "up"
    <3>1. wire[rpos] # <<>> /\ Head(wire[rpos]) = Part => 1 \in 1 .. Len(wire[rpos]) /\ wire[rpos][1] = Part
      BY <1>0, ChunksTail, ChunksType
    <3> QED
      BY <1>0, <1>3, <3>1 DEF ReadFails, Wires
  <2>3. Tears
    BY <1>0, <2>2 DEF Tears
  <2> QED
    BY <2>1, <2>3 DEF Stream!Finish, Stream!Next, closed, Tears
<1>4. CASE Drain
  <2>1. closed /\ Len(got) = sent /\ rerr = "none" /\ UNCHANGED <<sent, shut, got, link>>
        /\ rerr' \in {rerr, "EOF"}
    BY <1>4 DEF Drain, End, Reads, sender
  <2>2. CASE rerr' = rerr
    BY <2>1, <2>2, Unseen
  <2>3. CASE rerr' = "EOF"
    BY <2>1, <2>3 DEF Stream!Finish, Stream!Next, closed, Tears
  <2> QED
    BY <2>1, <2>2, <2>3
<1>5. CASE Abandon
  BY <1>5, Unseen DEF Abandon, sender, net
<1>6. CASE PeerClose
  <2>1. UNCHANGED <<sent, shut, got, rerr>>
        /\ \A i \in Conns : link'[i] = IF link[i] = "up" THEN "reset" ELSE link[i]
    BY <1>6 DEF PeerClose, sender
  <2>2. Tears' /\ closed' = closed
    BY <2>1, ConnsType DEF Tears, closed
  <2> QED
    BY <2>1, <2>2, Tearing DEF Stream!Next
<1> QED
  BY <1>1, <1>2, <1>3, <1>4, <1>5, <1>6 DEF ReaderStep

\* Join gives a stream: in order, without gaps, ended by the writer alone
\* unless a connection was closed or lost first.
THEOREM StripeIsStream == Spec => ImplementsStream
<1>1. Init => Stream!Init
  BY StreamInit
<1>2. IInv /\ [Next]_vars => [Stream!Next]_(Stream!vars)
  <2> SUFFICES ASSUME IInv, [Next]_vars PROVE [Stream!Next]_(Stream!vars)
    OBVIOUS
  <2>1. ASSUME NEW i \in Conns, WriterStep(i) \/ Reset(i)
        PROVE  [Stream!Next]_(Stream!vars)
    BY <2>1, WriterStream
  <2>2. CASE PipeStep \/ SourceEnds
    BY <2>2, PipeStream
  <2>3. CASE ShutStep \/ Close \/ CloserStep \/ UNCHANGED vars
    BY <2>3, CloseStream
  <2>4. CASE ReaderStep \/ Abandon \/ PeerClose
    BY <2>4, ReaderStream
  <2> QED
    BY <2>1, <2>2, <2>3, <2>4 DEF Next
<1> QED
  BY <1>1, <1>2, Invariant, PTL DEF Spec, ImplementsStream, Stream!Spec
=============================================================================
