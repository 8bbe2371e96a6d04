----------------------------- MODULE ProtoProofs -----------------------------
(***************************************************************************)
(* Theorems about Proto, for any tokens, any lengths of what is written,   *)
(* of frames and of nonces, and any place where the connection is cut.     *)
(*                                                                         *)
(* The argument.  Nothing on the wire is numbered, but each end expects    *)
(* something: a nonce, a header or the data of the one it has read, and    *)
(* the units that follow those it knows.  What is under way leads from     *)
(* what the reader expects, part by part, to what the writer will send     *)
(* next.  Nonces are ordered by their highest digit that differs: those    *)
(* that were used are below the next one, and as many as parts sealed.     *)
(***************************************************************************)
EXTENDS Proto, FiniteSetTheorems, SequenceTheorems, WellFoundedInduction, TLAPS

\* There is a nonce for every part: the first frame, and one per unit at most.
EnoughNonces == \A d \in Dirs : 2 * (Total[d] + 1) <= Cardinality(Nonces)

-----------------------------------------------------------------------------
(* Nonces: a number whose first digit is the least.                         *)

Less(m, n) == \E i \in 1 .. Width :
    m[i] < n[i] /\ \A j \in 1 .. Width : j > i => m[j] = n[j]

Below(n) == {m \in Nonces : Less(m, n)}

LEMMA Least ==
    ASSUME NEW S, S \subseteq Nat, S # {}
    PROVE  \E i \in S : \A j \in S : i <= j
<1>1. IsWellFoundedOn(OpToRel(<, Nat), Nat)
  BY NatLessThanWellFounded
<1>2. PICK i \in S : \A j \in S : ~ (<<j, i>> \in OpToRel(<, Nat))
  BY <1>1, WFMin
<1>3. \A j \in S : i <= j
  <2> TAKE j \in S
  <2>1. <<j, i>> \in Nat \X Nat /\ <<j, i>>[1] = j /\ <<j, i>>[2] = i
    OBVIOUS
  <2>2. ~ (j < i)
    BY <2>1, <1>2 DEF OpToRel
  <2> QED
    BY <2>1, <2>2
<1> QED
  BY <1>3

\* Of two nonces one is the lesser.
LEMMA Comparable ==
    ASSUME ProtoAssumes, NEW m \in Nonces, NEW n \in Nonces, m # n
    PROVE  \E i \in 1 .. Width : m[i] # n[i] /\ \A j \in 1 .. Width : j > i => m[j] = n[j]
<1> DEFINE D == {k \in 0 .. Width : Width - k \in 1 .. Width /\ m[Width - k] # n[Width - k]}
<1>0. Width \in Nat
  BY DEF ProtoAssumes
<1>1. PICK i \in 1 .. Width : m[i] # n[i]
  <2>1. m = [i \in 1 .. Width |-> m[i]] /\ n = [i \in 1 .. Width |-> n[i]]
    BY DEF Nonces
  <2> QED
    BY <2>1
<1>2. Width - i \in 0 .. Width /\ Width - (Width - i) = i
  BY <1>0
<1>3. Width - i \in D /\ D \subseteq Nat
  BY <1>0, <1>1, <1>2
<1>4. PICK k \in D : \A l \in D : k <= l
  BY <1>3, Least
<1>5. Width - k \in 1 .. Width /\ m[Width - k] # n[Width - k] /\ k \in Nat
  BY <1>4
<1>6. ASSUME NEW j \in 1 .. Width, j > Width - k, m[j] # n[j]
      PROVE  FALSE
  <2>1. Width - j \in 0 .. Width /\ Width - (Width - j) = j
    BY <1>0
  <2>2. Width - j \in D
    BY <2>1, <1>6
  <2>3. k <= Width - j
    BY <2>2, <1>4
  <2> QED
    BY <2>3, <1>0, <1>5, <1>6
<1> QED
  BY <1>5, <1>6

LEMMA Irreflexive ==
    ASSUME ProtoAssumes, NEW n \in Nonces
    PROVE  ~ Less(n, n)
BY DEF Less, Nonces, ProtoAssumes

LEMMA DigitUp ==
    ASSUME ProtoAssumes, NEW x \in 0 .. Base - 1
    PROVE  (x + 1) % Base = IF x = Base - 1 THEN 0 ELSE x + 1
BY DEF ProtoAssumes

\* Every nonce is at most the last one.
Last == [i \in 1 .. Width |-> Base - 1]

LEMMA LastIsLast ==
    ASSUME ProtoAssumes, NEW m \in Nonces
    PROVE  m = Last \/ Less(m, Last)
<1>1. Last \in Nonces /\ Base \in Nat \ {0}
  BY DEF Last, Nonces, ProtoAssumes
<1>2. CASE m # Last
  <2>1. PICK i \in 1 .. Width : m[i] # Last[i] /\ \A j \in 1 .. Width : j > i => m[j] = Last[j]
    BY <1>1, <1>2, Comparable
  <2>2. m[i] \in 0 .. Base - 1 /\ Last[i] = Base - 1
    BY DEF Nonces, Last
  <2>3. m[i] < Last[i]
    BY <1>1, <2>1, <2>2
  <2> QED
    BY <2>1, <2>3 DEF Less
<1> QED
  BY <1>2

\* incNonce of any other: digits up to the first that is not the largest.
LEMMA Carry ==
    ASSUME ProtoAssumes, NEW n \in Nonces, n # Last
    PROVE  \E c \in 1 .. Width :
             /\ n[c] < Base - 1 /\ incNonce(n)[c] = n[c] + 1
             /\ \A j \in 1 .. Width : j < c => n[j] = Base - 1 /\ incNonce(n)[j] = 0
             /\ \A j \in 1 .. Width : j > c => incNonce(n)[j] = n[j]
<1>0. Base \in Nat \ {0} /\ Width \in Nat /\ \A i \in 1 .. Width : n[i] \in 0 .. Base - 1
  BY DEF ProtoAssumes, Nonces
<1> DEFINE S == {i \in 1 .. Width : n[i] # Base - 1}
<1>1. S \subseteq Nat /\ S # {}
  BY DEF Last, Nonces
<1>2. PICK c \in S : \A j \in S : c <= j
  BY <1>1, Least
<1>3. c \in 1 .. Width /\ n[c] # Base - 1 /\ \A j \in 1 .. Width : j < c => n[j] = Base - 1
  BY <1>2
<1>4. \A j \in 1 .. Width : incNonce(n)[j] =
        IF \A k \in 1 .. j - 1 : n[k] = Base - 1 THEN (n[j] + 1) % Base ELSE n[j]
  BY DEF incNonce
<1>5. n[c] < Base - 1 /\ incNonce(n)[c] = n[c] + 1
  <2>1. \A k \in 1 .. c - 1 : n[k] = Base - 1
    BY <1>3, <1>0
  <2>2. incNonce(n)[c] = (n[c] + 1) % Base
    BY <2>1, <1>3, <1>4
  <2>3. (n[c] + 1) % Base = n[c] + 1
    BY <1>0, <1>3, DigitUp
  <2> QED
    BY <2>2, <2>3, <1>0, <1>3
<1>6. ASSUME NEW j \in 1 .. Width, j < c
      PROVE  n[j] = Base - 1 /\ incNonce(n)[j] = 0
  <2>1. \A k \in 1 .. j - 1 : n[k] = Base - 1
    BY <1>3, <1>0, <1>6
  <2>2. incNonce(n)[j] = (n[j] + 1) % Base
    BY <2>1, <1>4
  <2>3. n[j] = Base - 1 /\ (n[j] + 1) % Base = 0
    BY <1>0, <1>3, <1>6, DigitUp
  <2> QED
    BY <2>2, <2>3
<1>7. ASSUME NEW j \in 1 .. Width, j > c
      PROVE  incNonce(n)[j] = n[j]
  <2>1. c \in 1 .. j - 1
    BY <1>3, <1>0, <1>7
  <2> QED
    BY <2>1, <1>3, <1>4
<1> QED
  BY <1>3, <1>5, <1>6, <1>7

LEMMA IncType ==
    ASSUME ProtoAssumes, NEW n \in Nonces
    PROVE  incNonce(n) \in Nonces
<1>1. Base \in Nat \ {0} /\ \A i \in 1 .. Width : n[i] \in 0 .. Base - 1
  BY DEF ProtoAssumes, Nonces
<1>2. \A i \in 1 .. Width : (n[i] + 1) % Base \in 0 .. Base - 1
  <2> TAKE i \in 1 .. Width
  <2>1. n[i] \in 0 .. Base - 1
    BY <1>1
  <2>2. (n[i] + 1) % Base = IF n[i] = Base - 1 THEN 0 ELSE n[i] + 1
    BY <2>1, DigitUp
  <2> QED
    BY <1>1, <2>1, <2>2
<1>3. \A i \in 1 .. Width : (IF \A j \in 1 .. i - 1 : n[j] = Base - 1
                             THEN (n[i] + 1) % Base ELSE n[i]) \in 0 .. Base - 1
  BY <1>1, <1>2
<1> QED
  BY <1>3 DEF incNonce, Nonces

\* A nonce and those before it come before the next one ...
LEMMA Rises ==
    ASSUME ProtoAssumes, NEW n \in Nonces, n # Last, NEW m \in Nonces, m = n \/ Less(m, n)
    PROVE  Less(m, incNonce(n))
<1> DEFINE o == incNonce(n)
<1>1. PICK c \in 1 .. Width :
             /\ n[c] < Base - 1 /\ o[c] = n[c] + 1
             /\ \A j \in 1 .. Width : j < c => n[j] = Base - 1 /\ o[j] = 0
             /\ \A j \in 1 .. Width : j > c => o[j] = n[j]
  BY Carry
<1> HIDE DEF o
<1>2. \A j \in 1 .. Width : m[j] \in Int /\ n[j] \in Int
  BY DEF Nonces, ProtoAssumes
<1>3. CASE m = n
  <2>1. m[c] < o[c]
    BY <1>1, <1>2, <1>3
  <2>2. \A j \in 1 .. Width : j > c => m[j] = o[j]
    BY <1>1, <1>3
  <2> QED
    BY <2>1, <2>2 DEF Less, o
<1>4. CASE Less(m, n)
  <2>1. PICK h \in 1 .. Width : m[h] < n[h] /\ \A j \in 1 .. Width : j > h => m[j] = n[j]
    BY <1>4 DEF Less
  <2>2. CASE h > c
    <3>1. m[h] < o[h] /\ \A j \in 1 .. Width : j > h => m[j] = o[j]
      BY <1>1, <2>1, <2>2
    <3> QED
      BY <3>1 DEF Less, o
  <2>3. CASE h <= c
    <3>1. m[c] <= n[c]
      BY <2>1, <2>3, <1>2
    <3>2. m[c] < o[c]
      BY <3>1, <1>1, <1>2
    <3>3. \A j \in 1 .. Width : j > c => m[j] = o[j]
      BY <2>1, <2>3, <1>1
    <3> QED
      BY <3>2, <3>3 DEF Less, o
  <2> QED
    BY <2>2, <2>3
<1> QED
  BY <1>3, <1>4

\* ... and there are no others.
LEMMA RisesByOne ==
    ASSUME ProtoAssumes, NEW n \in Nonces, n # Last, NEW m \in Nonces, Less(m, incNonce(n))
    PROVE  m = n \/ Less(m, n)
<1> DEFINE o == incNonce(n)
<1>1. PICK c \in 1 .. Width :
             /\ n[c] < Base - 1 /\ o[c] = n[c] + 1
             /\ \A j \in 1 .. Width : j < c => n[j] = Base - 1 /\ o[j] = 0
             /\ \A j \in 1 .. Width : j > c => o[j] = n[j]
  BY Carry
<1>0. Less(m, o)
  OBVIOUS
<1> HIDE DEF o
<1>2. Base \in Nat /\ \A j \in 1 .. Width : m[j] \in 0 .. Base - 1 /\ n[j] \in 0 .. Base - 1
  BY DEF Nonces, ProtoAssumes
<1>3. PICK h \in 1 .. Width : m[h] < o[h] /\ \A j \in 1 .. Width : j > h => m[j] = o[j]
  BY <1>0 DEF Less
<1>4. h >= c
  <2>1. ASSUME h < c PROVE FALSE
    <3>1. m[h] < 0 /\ m[h] \in 0 .. Base - 1
      BY <1>1, <1>2, <1>3, <2>1
    <3> QED
      BY <3>1, <1>2
  <2> QED
    BY <2>1
<1>5. \A j \in 1 .. Width : j > h => m[j] = n[j]
  BY <1>1, <1>3, <1>4
<1>6. CASE m[h] < n[h]
  BY <1>5, <1>6 DEF Less
<1>7. CASE ~ (m[h] < n[h])
  <2>1. h = c
    BY <1>1, <1>3, <1>4, <1>7
  <2>2. m[c] = n[c]
    BY <2>1, <1>1, <1>2, <1>3, <1>7
  <2>3. CASE m # n
    <3>1. PICK g \in 1 .. Width : m[g] # n[g] /\ \A j \in 1 .. Width : j > g => m[j] = n[j]
      BY <2>3, Comparable
    <3>2. g < c
      BY <3>1, <2>1, <2>2, <1>5
    <3>3. n[g] = Base - 1 /\ m[g] \in 0 .. Base - 1
      BY <3>2, <1>1, <1>2
    <3>4. m[g] < n[g]
      BY <3>1, <3>3, <1>2
    <3> QED
      BY <3>1, <3>4 DEF Less
  <2> QED
    BY <2>3
<1> QED
  BY <1>6, <1>7

-----------------------------------------------------------------------------
(* How many there are.                                                      *)

Few(n, k) == IsFiniteSet(Below(n)) /\ Cardinality(Below(n)) <= k

LEMMA FewZero ==
    ASSUME ProtoAssumes
    PROVE  Zero \in Nonces /\ Few(Zero, 0)
<1>1. Zero \in Nonces
  BY DEF Zero, Nonces, ProtoAssumes
<1>2. Below(Zero) = {}
  <2> SUFFICES ASSUME NEW m \in Nonces, Less(m, Zero) PROVE FALSE
    BY DEF Below
  <2>1. PICK i \in 1 .. Width : m[i] < Zero[i]
    BY DEF Less
  <2>2. m[i] \in 0 .. Base - 1 /\ Zero[i] = 0 /\ Base \in Nat
    BY DEF Nonces, Zero, ProtoAssumes
  <2> QED
    BY <2>1, <2>2
<1> QED
  BY <1>1, <1>2, FS_EmptySet DEF Few

LEMMA FewNext ==
    ASSUME ProtoAssumes, NEW n \in Nonces, n # Last, NEW k \in Nat, Few(n, k)
    PROVE  Few(incNonce(n), k + 1)
<1> DEFINE B == Below(n) \cup {n}
<1>1. IsFiniteSet(Below(n)) /\ Cardinality(Below(n)) \in Nat /\ Cardinality(Below(n)) <= k
  BY FS_CardinalityType DEF Few
<1>2. n \notin Below(n)
  BY Irreflexive DEF Below
<1>3. IsFiniteSet(B) /\ Cardinality(B) = Cardinality(Below(n)) + 1
  BY <1>1, <1>2, FS_AddElement
<1>4. Below(incNonce(n)) \subseteq B
  BY RisesByOne DEF Below
<1> HIDE DEF B
<1>5. /\ IsFiniteSet(Below(incNonce(n)))
      /\ Cardinality(Below(incNonce(n))) <= Cardinality(B)
      /\ Cardinality(Below(incNonce(n))) \in Nat
  BY <1>3, <1>4, FS_Subset, FS_CardinalityType
<1> QED
  BY <1>1, <1>3, <1>5 DEF Few

LEMMA FewLast ==
    ASSUME ProtoAssumes, NEW k \in Nat, Few(Last, k)
    PROVE  Cardinality(Nonces) <= k + 1 /\ Cardinality(Nonces) \in Nat
<1> DEFINE B == Below(Last) \cup {Last}
<1>0. Last \in Nonces
  BY DEF Last, Nonces, ProtoAssumes
<1>1. IsFiniteSet(Below(Last)) /\ Cardinality(Below(Last)) \in Nat /\ Cardinality(Below(Last)) <= k
  BY FS_CardinalityType DEF Few
<1>2. Last \notin Below(Last)
  BY <1>0, Irreflexive DEF Below
<1>3. IsFiniteSet(B) /\ Cardinality(B) = Cardinality(Below(Last)) + 1
  BY <1>1, <1>2, FS_AddElement
<1>4. Nonces \subseteq B
  BY LastIsLast DEF Below
<1> HIDE DEF B
<1>5. Cardinality(Nonces) <= Cardinality(B) /\ Cardinality(Nonces) \in Nat
  BY <1>3, <1>4, FS_Subset, FS_CardinalityType
<1> QED
  BY <1>1, <1>3, <1>5

-----------------------------------------------------------------------------
(* What the reader expects, the parts under way, and where they lead.       *)

Parts == [key : Tokens \X Dirs, nonce : Nonces, kind : {"head", "data"},
          body : Heads \cup Seq(Int)]
Expects == [nonce : Nonces, want : Heads \cup {Nothing}, unit : Int]
Expect(n, h, u) == [nonce |-> n, want |-> h, unit |-> u]

\* n units after the first a, and padding.
Run(a, n) == [i \in 1 .. n |-> a + i]
Pad(k) == [i \in 1 .. k |-> Padding]

\* A part opens and is what is expected; the target has one unit.
Fits(key, e, p) ==
    /\ p.key = key /\ p.nonce = e.nonce
    /\ e.want = Nothing => /\ p.kind = "head" /\ p.body \in Heads
                           /\ e.unit < 0 => p.body.len = 1
    /\ e.want # Nothing => /\ p.kind = "data"
                           /\ p.body = Run(e.unit, e.want.len) \o Pad(e.want.pad)
                           /\ e.unit < 0 => e.want.len = 1

After(e, p) ==
    IF e.want = Nothing THEN Expect(incNonce(e.nonce), p.body, e.unit)
    ELSE Expect(incNonce(e.nonce), Nothing, e.unit + e.want.len)

\* The units announced so far.
Extent(e) == IF e.want = Nothing THEN e.unit ELSE e.unit + e.want.len

Leads(key, w, from, said, to, cut) ==
    \E e \in [1 .. Len(w) + 1 -> Expects] :
        /\ e[1] = from
        /\ \A j \in 1 .. Len(w) : Fits(key, e[j], w[j]) /\ e[j + 1] = After(e[j], w[j])
        /\ \A j \in 1 .. Len(w) + 1 : Extent(e[j]) <= said
        /\ cut \/ e[Len(w) + 1] = to

LEMMA AfterType ==
    ASSUME ProtoAssumes, NEW key, NEW e \in Expects, NEW p, Fits(key, e, p)
    PROVE  After(e, p) \in Expects /\ Extent(After(e, p)) \in Int /\ Extent(e) \in Int
<1>1. /\ e.nonce \in Nonces /\ e.want \in Heads \cup {Nothing} /\ e.unit \in Int
      /\ incNonce(e.nonce) \in Nonces /\ Nothing \notin Heads
  BY IncType DEF Expects, ProtoAssumes
<1>2. \A h \in Heads : h.len \in Int
  BY DEF Heads
<1>3. CASE e.want = Nothing
  <2>1. p.body \in Heads
    BY <1>3 DEF Fits
  <2>2. After(e, p) = Expect(incNonce(e.nonce), p.body, e.unit)
    BY <1>3 DEF After
  <2>3. After(e, p) \in Expects /\ After(e, p).want = p.body /\ After(e, p).unit = e.unit
    BY <1>1, <2>1, <2>2 DEF Expect, Expects
  <2> QED
    BY <1>1, <1>2, <1>3, <2>1, <2>3 DEF Extent
<1>4. CASE e.want # Nothing
  <2>1. e.want.len \in Int
    BY <1>1, <1>2, <1>4
  <2>2. After(e, p) = Expect(incNonce(e.nonce), Nothing, e.unit + e.want.len)
    BY <1>4 DEF After
  <2>3. After(e, p) \in Expects /\ After(e, p).want = Nothing /\ After(e, p).unit = e.unit + e.want.len
    BY <1>1, <2>1, <2>2 DEF Expect, Expects
  <2> QED
    BY <1>1, <1>4, <2>1, <2>3 DEF Extent
<1> QED
  BY <1>3, <1>4

\* The writer adds a part.
LEMMA LeadsAppend ==
    ASSUME ProtoAssumes, NEW key, NEW w \in Seq(Parts), NEW from, NEW said \in Int,
           NEW to \in Expects, Leads(key, w, from, said, to, FALSE),
           NEW p \in Parts, Fits(key, to, p),
           NEW more \in Int, said <= more, Extent(After(to, p)) <= more
    PROVE  Leads(key, Append(w, p), from, more, After(to, p), FALSE)
<1>1. PICK e \in [1 .. Len(w) + 1 -> Expects] :
        /\ e[1] = from
        /\ \A j \in 1 .. Len(w) : Fits(key, e[j], w[j]) /\ e[j + 1] = After(e[j], w[j])
        /\ \A j \in 1 .. Len(w) + 1 : Extent(e[j]) <= said
        /\ e[Len(w) + 1] = to
  BY DEF Leads
<1> DEFINE n == Len(w)
           v == Append(w, p)
           f == [j \in 1 .. n + 2 |-> IF j <= n + 1 THEN e[j] ELSE After(to, p)]
<1>2. n \in Nat /\ Len(v) = n + 1 /\ v[n + 1] = p /\ \A j \in 1 .. n : v[j] = w[j]
  BY LenProperties, AppendProperties
<1>3. After(to, p) \in Expects
  BY AfterType
<1>4. \A j \in 1 .. n + 1 : Extent(e[j]) \in Int
  BY <1>1 DEF Expects, Extent, Heads
<1> HIDE DEF v
<1>5. f \in [1 .. Len(v) + 1 -> Expects] /\ f[1] = from /\ f[Len(v) + 1] = After(to, p)
  BY <1>1, <1>2, <1>3
<1>6. ASSUME NEW j \in 1 .. Len(v)
      PROVE  Fits(key, f[j], v[j]) /\ f[j + 1] = After(f[j], v[j])
  <2>1. CASE j \in 1 .. n
    <3>1. f[j] = e[j] /\ f[j + 1] = e[j + 1] /\ v[j] = w[j]
      BY <1>2, <2>1
    <3> QED
      BY <1>1, <2>1, <3>1
  <2>2. CASE j = n + 1
    <3>1. f[j] = to /\ f[j + 1] = After(to, p) /\ v[j] = p
      BY <1>1, <1>2, <2>2
    <3> QED
      BY <3>1
  <2> QED
    BY <1>2, <1>6, <2>1, <2>2
<1>7. ASSUME NEW j \in 1 .. Len(v) + 1
      PROVE  Extent(f[j]) <= more
  <2>1. CASE j \in 1 .. n + 1
    <3>1. f[j] = e[j] /\ Extent(e[j]) <= said /\ Extent(e[j]) \in Int
      BY <1>1, <1>2, <1>4, <2>1
    <3> QED
      BY <3>1
  <2>2. CASE j = n + 2
    BY <1>2, <2>2
  <2> QED
    BY <1>2, <1>7, <2>1, <2>2
<1> HIDE DEF f
<1> QED
  BY <1>5, <1>6, <1>7 DEF Leads, v

\* The reader takes a part: it fits, and the reader expects the next one.
LEMMA LeadsTail ==
    ASSUME ProtoAssumes, NEW key, NEW w \in Seq(Parts), w # <<>>, NEW from, NEW said \in Int,
           NEW to, NEW cut \in BOOLEAN, Leads(key, w, from, said, to, cut)
    PROVE  /\ from \in Expects /\ Fits(key, from, Head(w))
           /\ Extent(After(from, Head(w))) <= said
           /\ Leads(key, Tail(w), After(from, Head(w)), said, to, cut)
<1>1. PICK e \in [1 .. Len(w) + 1 -> Expects] :
        /\ e[1] = from
        /\ \A j \in 1 .. Len(w) : Fits(key, e[j], w[j]) /\ e[j + 1] = After(e[j], w[j])
        /\ \A j \in 1 .. Len(w) + 1 : Extent(e[j]) <= said
        /\ cut \/ e[Len(w) + 1] = to
  BY DEF Leads
<1> DEFINE n == Len(w)
           v == Tail(w)
           f == [j \in 1 .. n |-> e[j + 1]]
<1>2. /\ n \in Nat \ {0} /\ Len(v) = n - 1 /\ Head(w) = w[1]
      /\ \A j \in 1 .. n - 1 : v[j] = w[j + 1]
  BY LenProperties, EmptySeq, HeadTailProperties
<1>3. from \in Expects /\ Fits(key, from, Head(w)) /\ e[2] = After(from, Head(w))
  BY <1>1, <1>2
<1>4. Extent(After(from, Head(w))) <= said
  BY <1>1, <1>2, <1>3
<1> HIDE DEF v
<1>5. /\ f \in [1 .. Len(v) + 1 -> Expects] /\ f[1] = After(from, Head(w))
      /\ f[Len(v) + 1] = e[n + 1]
  BY <1>1, <1>2, <1>3
<1>6. ASSUME NEW j \in 1 .. Len(v)
      PROVE  Fits(key, f[j], v[j]) /\ f[j + 1] = After(f[j], v[j])
  <2>1. j + 1 \in 1 .. n /\ f[j] = e[j + 1] /\ f[j + 1] = e[(j + 1) + 1] /\ v[j] = w[j + 1]
    BY <1>2
  <2> QED
    BY <1>1, <2>1
<1>7. ASSUME NEW j \in 1 .. Len(v) + 1
      PROVE  Extent(f[j]) <= said
  <2>1. j + 1 \in 1 .. n + 1 /\ f[j] = e[j + 1]
    BY <1>2
  <2> QED
    BY <1>1, <2>1
<1>8. cut \/ f[Len(v) + 1] = to
  BY <1>1, <1>5
<1> HIDE DEF f
<1>9. Leads(key, v, After(from, Head(w)), said, to, cut)
  BY <1>5, <1>6, <1>7, <1>8 DEF Leads
<1> QED
  BY <1>3, <1>4, <1>9 DEF v

\* The connection is cut.
LEMMA LeadsCut ==
    ASSUME NEW key, NEW w \in Seq(Parts), NEW from, NEW said \in Int, NEW to,
           NEW cut \in BOOLEAN, Leads(key, w, from, said, to, cut),
           NEW k \in 0 .. Len(w), NEW more \in Int, said <= more
    PROVE  /\ SubSeq(w, 1, k) \in Seq(Parts)
           /\ Leads(key, SubSeq(w, 1, k), from, said, to, TRUE)
<1>1. PICK e \in [1 .. Len(w) + 1 -> Expects] :
        /\ e[1] = from
        /\ \A j \in 1 .. Len(w) : Fits(key, e[j], w[j]) /\ e[j + 1] = After(e[j], w[j])
        /\ \A j \in 1 .. Len(w) + 1 : Extent(e[j]) <= said
  BY DEF Leads
<1> DEFINE v == SubSeq(w, 1, k)
           f == [j \in 1 .. k + 1 |-> e[j]]
<1>2. Len(w) \in Nat
  BY LenProperties
<1>3. v \in Seq(Parts) /\ Len(v) = k /\ \A j \in 1 .. k : v[j] = w[j]
  BY <1>2, SubSeqProperties
<1> HIDE DEF v
<1>4. f \in [1 .. Len(v) + 1 -> Expects] /\ f[1] = from
  BY <1>1, <1>2, <1>3
<1>5. ASSUME NEW j \in 1 .. Len(v)
      PROVE  Fits(key, f[j], v[j]) /\ f[j + 1] = After(f[j], v[j])
  <2>1. j \in 1 .. Len(w) /\ f[j] = e[j] /\ f[j + 1] = e[j + 1] /\ v[j] = w[j]
    BY <1>2, <1>3
  <2> QED
    BY <1>1, <2>1
<1>6. ASSUME NEW j \in 1 .. Len(v) + 1
      PROVE  Extent(f[j]) <= said
  BY <1>1, <1>2, <1>3
<1> HIDE DEF f
<1>7. Leads(key, v, from, said, to, TRUE)
  BY <1>4, <1>5, <1>6 DEF Leads
<1> QED
  BY <1>3, <1>7 DEF v

LEMMA LeadsNowhere ==
    ASSUME NEW key, NEW from \in Expects, NEW said \in Int, NEW to, NEW cut \in BOOLEAN,
           Extent(from) <= said, cut \/ from = to
    PROVE  Leads(key, <<>>, from, said, to, cut)
<1> DEFINE f == [j \in 1 .. 1 |-> from]
<1>1. Len(<<>>) = 0 /\ f \in [1 .. Len(<<>>) + 1 -> Expects] /\ f[1] = from
  OBVIOUS
<1>2. \A j \in 1 .. Len(<<>>) + 1 : Extent(f[j]) <= said
  BY <1>1
<1> HIDE DEF f
<1> QED
  BY <1>1, <1>2 DEF Leads

LEMMA LeadsFrom ==
    ASSUME NEW key, NEW w, Len(w) \in Nat, NEW from, NEW said \in Int, NEW to, NEW cut \in BOOLEAN,
           Leads(key, w, from, said, to, cut)
    PROVE  /\ from \in Expects /\ Extent(from) <= said
           /\ Len(w) = 0 => cut \/ from = to
BY DEF Leads

LEMMA LeadsFurther ==
    ASSUME NEW key, NEW w \in Seq(Parts), NEW from, NEW said \in Int, NEW to, NEW cut \in BOOLEAN,
           Leads(key, w, from, said, to, cut), NEW more \in Int, said <= more
    PROVE  cut => \A t : Leads(key, w, from, said, t, cut)
BY DEF Leads

-----------------------------------------------------------------------------
(* The inductive invariant.                                                 *)

Types ==
    /\ token \in Tokens /\ tokens \subseteq Tokens /\ user \in Tokens \cup {Nothing}
    /\ dial \in {"new", "salted", "ready", "failed"}
    /\ accept \in {"new", "salted", "opened", "ready", "failed"}
    /\ enc \in [Dirs -> Nonces] /\ dec \in [Dirs -> Nonces]
    /\ wroteHead \in [Dirs -> BOOLEAN]
    /\ left \in [Dirs -> Nat] /\ sent \in [Dirs -> Nat]
    /\ \A d \in Dirs : left[d] + sent[d] <= Total[d]
    /\ hdr \in [Dirs -> Heads \cup {Nothing}]
    /\ readBuf \in [Dirs -> Seq(Nat)] /\ got \in [Dirs -> Seq(Nat)]
    /\ result \in [Dirs -> {"none", "EOF", "cut", "damaged"}]
    /\ wire \in [Dirs -> Seq(Parts)]
    /\ torn \in BOOLEAN

\* What has happened by the stage of Dial and of Accept.
Stages ==
    /\ dial # "ready" => left["c2s"] = 0 /\ sent["c2s"] = 0 /\ wire["c2s"] = <<>>
    /\ accept # "ready" => /\ left["s2c"] = 0 /\ sent["s2c"] = 0 /\ wire["s2c"] = <<>>
                           /\ got["c2s"] = <<>> /\ readBuf["c2s"] = <<>>
    /\ accept \in {"new", "salted"} => dec["c2s"] = Zero /\ hdr["c2s"] = Nothing
    /\ accept = "opened" => hdr["c2s"] # Nothing
    /\ accept \in {"opened", "ready"} => user = token /\ token \in tokens
    /\ \A d \in Dirs : result[d] # "damaged"

\* What was read is in order, and so is what is kept for the next Read.
Ordered == \A d \in Dirs :
    /\ got[d] = Run(0, Len(got[d]))
    /\ readBuf[d] = Run(Len(got[d]), Len(readBuf[d]))
    /\ Len(readBuf[d]) <= MaxPayload

\* Units known to the reader, and announced by the writer; the target has the
\* number zero.
Heard(d) == IF d = "c2s" /\ accept # "ready" THEN -1 ELSE Len(got[d]) + Len(readBuf[d])
Said(d) == IF d = "c2s" /\ dial # "ready" THEN -1 ELSE sent[d]

ReaderAt(d) == Expect(dec[d], hdr[d], Heard(d))
WriterAt(d) == Expect(enc[d], Nothing, Said(d))

Path(d) == Leads(<<token, d>>, wire[d], ReaderAt(d), Said(d), WriterAt(d), torn)

\* Is there a reader?  Accept may have failed.
Alive(d) == d = "s2c" \/ accept # "failed"

\* The reader follows the writer.
Following == \A d \in Dirs : Alive(d) => Path(d)

IInv == Types /\ Stages /\ Ordered /\ Following

-----------------------------------------------------------------------------
(* Helpers.                                                                 *)

LEMMA RunIs ==
    ASSUME NEW a \in Int, NEW n \in Nat
    PROVE  /\ Run(a, n) \in Seq(Int) /\ Len(Run(a, n)) = n
           /\ \A i \in 1 .. n : Run(a, n)[i] = a + i
           /\ a >= 0 => Run(a, n) \in Seq(Nat)
<1>1. Run(a, n) \in [1 .. n -> Int] /\ \A i \in 1 .. n : Run(a, n)[i] = a + i
  BY DEF Run
<1>2. Run(a, n) \in Seq(Int)
  BY <1>1
<1>3. Len(Run(a, n)) = n
  <2>1. DOMAIN Run(a, n) = 1 .. n
    BY <1>1
  <2> QED
    BY <1>2, <2>1, LenProperties
<1>4. ASSUME a >= 0
      PROVE  Run(a, n) \in Seq(Nat)
  <2>1. Run(a, n) \in [1 .. n -> Nat]
    BY <1>4 DEF Run
  <2> QED
    BY <2>1
<1> QED
  BY <1>1, <1>2, <1>3, <1>4

LEMMA NatSeq ==
    ASSUME NEW n \in Nat, NEW f \in [1 .. n -> Nat]
    PROVE  f \in Seq(Nat)
OBVIOUS

LEMMA RunZero ==
    ASSUME NEW n \in Nat
    PROVE  /\ Run(0, n) \in Seq(Int) /\ Len(Run(0, n)) = n
           /\ \A i \in 1 .. n : Run(0, n)[i] = i
<1>1. Run(0, n) \in [1 .. n -> Int] /\ \A i \in 1 .. n : Run(0, n)[i] = i
  BY DEF Run
<1>2. Run(0, n) \in Seq(Int) /\ DOMAIN Run(0, n) = 1 .. n
  BY <1>1
<1> QED
  BY <1>1, <1>2, LenProperties

LEMMA PadIs ==
    ASSUME NEW k \in {0, 1}
    PROVE  Pad(k) \in Seq(Int) /\ Len(Pad(k)) = k
<1>1. Pad(k) \in [1 .. k -> Int] /\ DOMAIN Pad(k) = 1 .. k /\ k \in Nat
  BY DEF Pad, Padding
<1>2. Pad(k) \in Seq(Int)
  BY <1>1
<1> QED
  BY <1>1, <1>2, LenProperties

\* Padding is cut off.
LEMMA RunPadded ==
    ASSUME NEW a \in Int, NEW n \in Nat, NEW k \in {0, 1}
    PROVE  /\ Run(a, n) \o Pad(k) \in Seq(Int)
           /\ SubSeq(Run(a, n) \o Pad(k), 1, n) = Run(a, n)
<1> DEFINE r == Run(a, n)
           p == Pad(k)
           b == r \o p
<1>1. r \in Seq(Int) /\ Len(r) = n /\ p \in Seq(Int) /\ Len(p) = k
  BY RunIs, PadIs
<1> HIDE DEF r, p
<1>2. b \in Seq(Int) /\ Len(b) = n + k /\ \A i \in 1 .. n : b[i] = r[i]
  BY <1>1, ConcatProperties
<1> HIDE DEF b
<1>3. /\ SubSeq(b, 1, n) \in Seq(Int) /\ Len(SubSeq(b, 1, n)) = n
      /\ \A i \in 1 .. n : SubSeq(b, 1, n)[i] = b[i]
  BY <1>2, SubSeqProperties
<1>4. SubSeq(b, 1, n) = r
  BY <1>1, <1>2, <1>3, SeqEqual
<1> QED
  BY <1>2, <1>4 DEF r, p, b

LEMMA RunSplit ==
    ASSUME NEW a \in Nat, NEW m \in Nat, NEW n \in 1 .. m
    PROVE  /\ Run(0, a) \o SubSeq(Run(a, m), 1, n) = Run(0, a + n)
           /\ SubSeq(Run(a, m), n + 1, m) = Run(a + n, m - n)
<1> DEFINE r == Run(a, m)
           x == SubSeq(r, 1, n)
           y == SubSeq(r, n + 1, m)
           z == Run(0, a)
<1>0. n \in Nat /\ m - n \in Nat /\ a + n \in Nat /\ a \in Int /\ n <= m
  OBVIOUS
<1>r. \A b \in Int, l \in Nat : /\ Run(b, l) \in Seq(Int) /\ Len(Run(b, l)) = l
                                /\ \A i \in 1 .. l : Run(b, l)[i] = b + i
  BY RunIs
<1>1. r \in Seq(Int) /\ Len(r) = m /\ \A i \in 1 .. m : r[i] = a + i
  BY <1>r
<1>2. z \in Seq(Int) /\ Len(z) = a /\ \A i \in 1 .. a : z[i] = i
  BY RunZero
<1> HIDE DEF r, z
<1>3. x \in Seq(Int) /\ Len(x) = n /\ \A i \in 1 .. n : x[i] = r[i]
  BY <1>0, <1>1, SubSeqProperties
<1>4. y \in Seq(Int) /\ Len(y) = m - n /\ \A i \in 1 .. m - n : y[i] = r[n + i]
  <2>1. n + 1 \in 1 .. m + 1
    BY <1>0
  <2>2. y \in Seq(Int) /\ Len(y) = (m - (n + 1)) + 1 /\ \A i \in 1 .. (m - (n + 1)) + 1 : y[i] = r[((n + 1) + i) - 1]
    BY <2>1, <1>0, <1>1, SubSeqProperties
  <2> QED
    BY <2>2, <1>0
<1> HIDE DEF x, y
<1>5. /\ z \o x \in Seq(Int) /\ Len(z \o x) = a + n
      /\ \A i \in 1 .. a + n : (z \o x)[i] = IF i <= a THEN z[i] ELSE x[i - a]
  <2>1. /\ z \o x \in Seq(Int) /\ Len(z \o x) = Len(z) + Len(x)
        /\ \A i \in 1 .. Len(z) + Len(x) :
              (z \o x)[i] = IF i <= Len(z) THEN z[i] ELSE x[i - Len(z)]
    BY <1>2, <1>3, ConcatProperties
  <2> QED
    BY <2>1, <1>2, <1>3
<1>6. z \o x = Run(0, a + n)
  <2>1. /\ Run(0, a + n) \in Seq(Int) /\ Len(Run(0, a + n)) = a + n
        /\ \A i \in 1 .. a + n : Run(0, a + n)[i] = i
    BY <1>0, RunZero
  <2>2. \A i \in 1 .. a + n : (z \o x)[i] = Run(0, a + n)[i]
    <3> TAKE i \in 1 .. a + n
    <3>3. i \in Int /\ (i <= a <=> ~ (i > a))
      BY <1>0
    <3>1. CASE i <= a
      BY <3>1, <1>2, <1>5, <2>1
    <3>2. CASE i > a
      <4>1. i - a \in 1 .. n /\ i - a \in 1 .. m /\ a + (i - a) = i
        BY <3>2, <1>0
      <4>2. x[i - a] = r[i - a] /\ r[i - a] = a + (i - a)
        BY <4>1, <1>1, <1>3
      <4>3. (z \o x)[i] = x[i - a]
        BY <3>2, <3>3, <1>5
      <4> QED
        BY <4>1, <4>2, <4>3, <2>1
    <3> QED
      BY <3>1, <3>2, <3>3
  <2> QED
    BY <2>1, <2>2, <1>5, SeqEqual
<1>7. y = Run(a + n, m - n)
  <2>1. /\ Run(a + n, m - n) \in Seq(Int) /\ Len(Run(a + n, m - n)) = m - n
        /\ \A i \in 1 .. m - n : Run(a + n, m - n)[i] = (a + n) + i
    <3>1. a + n \in Int /\ m - n \in Nat
      BY <1>0
    <3> QED
      BY <3>1, <1>r
  <2>2. \A i \in 1 .. m - n : y[i] = (a + n) + i
    <3> TAKE i \in 1 .. m - n
    <3>1. n + i \in 1 .. m
      BY <1>0
    <3> QED
      BY <3>1, <1>0, <1>1, <1>4
  <2> QED
    BY <2>1, <2>2, <1>4, SeqEqual
<1> QED
  BY <1>6, <1>7 DEF x, y, r, z

LEMMA AppendTwo ==
    ASSUME NEW S, NEW s \in Seq(S), NEW a \in S, NEW b \in S
    PROVE  s \o <<a, b>> = Append(Append(s, a), b)
<1> DEFINE t == <<a, b>>
           x == Append(s, a)
           y == Append(x, b)
<1>1. t \in Seq(S) /\ Len(t) = 2 /\ t[1] = a /\ t[2] = b /\ Len(s) \in Nat
  BY LenProperties
<1>2. x \in Seq(S) /\ Len(x) = Len(s) + 1 /\ x[Len(s) + 1] = a /\ \A i \in 1 .. Len(s) : x[i] = s[i]
  BY AppendProperties
<1> HIDE DEF t, x
<1>3. /\ y \in Seq(S) /\ Len(y) = Len(s) + 2 /\ y[Len(s) + 2] = b
      /\ \A i \in 1 .. Len(s) + 1 : y[i] = x[i]
  BY <1>1, <1>2, AppendProperties
<1> HIDE DEF y
<1>4. /\ s \o t \in Seq(S) /\ Len(s \o t) = Len(s) + 2
      /\ \A i \in 1 .. Len(s) + 2 : (s \o t)[i] = IF i <= Len(s) THEN s[i] ELSE t[i - Len(s)]
  <2>1. /\ s \o t \in Seq(S) /\ Len(s \o t) = Len(s) + Len(t)
        /\ \A i \in 1 .. Len(s) + Len(t) : (s \o t)[i] = IF i <= Len(s) THEN s[i] ELSE t[i - Len(s)]
    BY <1>1, ConcatProperties
  <2> QED
    BY <2>1, <1>1
<1>5. \A i \in 1 .. Len(s) + 2 : (s \o t)[i] = y[i]
  <2> TAKE i \in 1 .. Len(s) + 2
  <2>4. i <= Len(s) \/ i = Len(s) + 1 \/ i = Len(s) + 2
    BY <1>1
  <2>1. CASE i <= Len(s)
    BY <2>1, <1>1, <1>2, <1>3, <1>4
  <2>2. CASE i = Len(s) + 1
    <3>1. i - Len(s) = 1 /\ ~ (i <= Len(s)) /\ i \in 1 .. Len(s) + 1
      BY <2>2, <1>1
    <3> QED
      BY <3>1, <2>2, <1>1, <1>2, <1>3, <1>4
  <2>3. CASE i = Len(s) + 2
    <3>1. i - Len(s) = 2 /\ ~ (i <= Len(s))
      BY <2>3, <1>1
    <3> QED
      BY <3>1, <2>3, <1>1, <1>3, <1>4
  <2> QED
    BY <2>1, <2>2, <2>3, <2>4
<1> QED
  BY <1>3, <1>4, <1>5, SeqEqual DEF t, y, x

LEMMA PathSame ==
    ASSUME NEW d \in Dirs, Path(d),
           wire'[d] = wire[d], dec'[d] = dec[d], hdr'[d] = hdr[d],
           got'[d] = got[d], readBuf'[d] = readBuf[d], enc'[d] = enc[d], sent'[d] = sent[d],
           token' = token, torn' = torn,
           d = "c2s" => (accept' = "ready" <=> accept = "ready") /\ (dial' = "ready" <=> dial = "ready")
    PROVE  Path(d)'
<1>1. (Heard(d))' = Heard(d) /\ (Said(d))' = Said(d)
  BY DEF Heard, Said
<1> QED
  BY <1>1 DEF Path, ReaderAt, WriterAt

LEMMA TypesAt ==
    ASSUME Types, NEW d \in Dirs
    PROVE  /\ enc[d] \in Nonces /\ dec[d] \in Nonces /\ left[d] \in Nat /\ sent[d] \in Nat
           /\ left[d] + sent[d] <= Total[d] /\ hdr[d] \in Heads \cup {Nothing}
           /\ readBuf[d] \in Seq(Nat) /\ got[d] \in Seq(Nat) /\ wire[d] \in Seq(Parts)
           /\ Len(readBuf[d]) \in Nat /\ Len(got[d]) \in Nat /\ Len(wire[d]) \in Nat
           /\ Heard(d) \in Int /\ Said(d) \in Int /\ Said(d) >= -1
<1>1. /\ enc[d] \in Nonces /\ dec[d] \in Nonces /\ left[d] \in Nat /\ sent[d] \in Nat
      /\ left[d] + sent[d] <= Total[d] /\ hdr[d] \in Heads \cup {Nothing}
      /\ readBuf[d] \in Seq(Nat) /\ got[d] \in Seq(Nat) /\ wire[d] \in Seq(Parts)
  BY DEF Types
<1>2. Len(readBuf[d]) \in Nat /\ Len(got[d]) \in Nat /\ Len(wire[d]) \in Nat
  BY <1>1, LenProperties
<1>3. Heard(d) \in Int /\ Said(d) \in Int /\ Said(d) >= -1
  BY <1>1, <1>2 DEF Heard, Said
<1> QED
  BY <1>1, <1>2, <1>3

LEMMA WriterType ==
    ASSUME Types, NEW d \in Dirs
    PROVE  WriterAt(d) \in Expects /\ WriterAt(d).want = Nothing
           /\ WriterAt(d).unit = Said(d) /\ WriterAt(d).nonce = enc[d]
BY TypesAt DEF WriterAt, Expect, Expects

LEMMA DirsAre == Dirs = {"c2s", "s2c"} /\ "c2s" # "s2c"
BY DEF Dirs

-----------------------------------------------------------------------------
(* The steps.                                                               *)

LEMMA QuietStep ==
    ASSUME IInv, Types', Stages',
           UNCHANGED <<token, wire, dec, hdr, got, readBuf, enc, sent, torn>>,
           accept' = "ready" <=> accept = "ready", dial' = "ready" <=> dial = "ready",
           accept = "failed" => accept' = "failed"
    PROVE  IInv'
<1>1. Ordered'
  BY DEF IInv, Ordered
<1>2. Following'
  <2> SUFFICES ASSUME NEW d \in Dirs, Alive(d)' PROVE Path(d)'
    BY DEF Following
  <2>1. Path(d)
    BY DEF IInv, Following, Alive
  <2> QED
    BY <2>1, PathSame
<1> QED
  BY <1>1, <1>2 DEF IInv

\* A frame is put on the wire.
LEMMA Sealed ==
    ASSUME ProtoAssumes, IInv, NEW d \in Dirs, ~torn, torn' = torn,
           NEW n \in 1 .. MaxPayload, NEW pad \in {0, 1},
           sealFrame(d, <<token, d>>, Run(Said(d), n), pad),
           (Said(d))' = Said(d) + n, Said(d) < 0 => n = 1,
           UNCHANGED <<token, reader>>, accept' = accept
    PROVE  /\ enc' \in [Dirs -> Nonces] /\ wroteHead' \in [Dirs -> BOOLEAN]
           /\ wire' \in [Dirs -> Seq(Parts)]
           /\ \A o \in Dirs : o # d => wire'[o] = wire[o] /\ enc'[o] = enc[o]
           /\ Path(d) => Path(d)'
<1> DEFINE key == <<token, d>>
           chunk == Run(Said(d), n)
           next == incNonce(enc[d])
           head == Part(key, enc[d], "head", [len |-> Len(chunk), pad |-> pad])
           body == chunk \o Pad(pad)
           data == Part(key, next, "data", body)
           to == WriterAt(d)
           mid == After(to, head)
           end == After(mid, data)
<1>0. Types
  BY DEF IInv
<1>1. /\ enc' = [enc EXCEPT ![d] = incNonce(next)]
      /\ wroteHead' = [wroteHead EXCEPT ![d] = TRUE]
      /\ wire' = [wire EXCEPT ![d] = @ \o <<head, data>>]
  BY DEF sealFrame, Pad
<1>2. /\ enc[d] \in Nonces /\ next \in Nonces /\ incNonce(next) \in Nonces
      /\ wire[d] \in Seq(Parts) /\ Said(d) \in Int /\ n \in Nat
  BY <1>0, TypesAt, IncType, ProtoAssumes DEF ProtoAssumes
<1>3. /\ chunk \in Seq(Int) /\ Len(chunk) = n /\ body \in Seq(Int)
  BY <1>2, RunIs, RunPadded
<1>4. [len |-> Len(chunk), pad |-> pad] = [len |-> n, pad |-> pad] /\ [len |-> n, pad |-> pad] \in Heads
  BY <1>3 DEF Heads
<1>5. key \in Tokens \X Dirs
  BY <1>0 DEF Types
<1>6. head \in Parts /\ data \in Parts
  BY <1>2, <1>3, <1>4, <1>5 DEF Part, Parts
<1>8. Append(wire[d], head) \in Seq(Parts) /\ Append(Append(wire[d], head), data) \in Seq(Parts)
  BY <1>2, <1>6, AppendProperties
<1>9. /\ head.key = key /\ head.nonce = enc[d] /\ head.kind = "head"
      /\ head.body = [len |-> n, pad |-> pad]
      /\ data.key = key /\ data.nonce = next /\ data.kind = "data" /\ data.body = body
  BY <1>4 DEF Part
<1>10. /\ to \in Expects /\ to.want = Nothing /\ to.unit = Said(d) /\ to.nonce = enc[d]
  BY <1>0, WriterType
<1> HIDE DEF key, chunk, next, head, body, data, to
<1>7. wire[d] \o <<head, data>> = Append(Append(wire[d], head), data)
  BY <1>2, <1>6, AppendTwo
<1>11. Fits(key, to, head)
  BY <1>4, <1>9, <1>10 DEF Fits
<1>12. mid = Expect(next, [len |-> n, pad |-> pad], Said(d))
  BY <1>9, <1>10 DEF After, next
<1>13. /\ mid.nonce = next /\ mid.want = [len |-> n, pad |-> pad] /\ mid.unit = Said(d)
       /\ mid.want # Nothing /\ mid.want.len = n /\ mid.want.pad = pad /\ mid \in Expects
       /\ Extent(mid) = Said(d) + n
  <2>1. Nothing \notin Heads
    BY DEF ProtoAssumes
  <2>2. mid.nonce = next /\ mid.want = [len |-> n, pad |-> pad] /\ mid.unit = Said(d)
    BY <1>12 DEF Expect
  <2>3. mid.want # Nothing /\ mid.want.len = n /\ mid.want.pad = pad
    BY <1>4, <2>1, <2>2
  <2>4. mid \in Expects
    BY <1>10, <1>11, AfterType
  <2> QED
    BY <2>2, <2>3, <2>4 DEF Extent
<1>14. Fits(key, mid, data)
  BY <1>9, <1>13 DEF Fits, body, chunk
<1>15. end = Expect(incNonce(next), Nothing, Said(d) + n) /\ Extent(end) = Said(d) + n
  <2>1. end = Expect(incNonce(next), Nothing, Said(d) + n)
    BY <1>13 DEF After
  <2> QED
    BY <2>1 DEF Extent, Expect
<1>16. end = (WriterAt(d))'
  <2>1. enc'[d] = incNonce(next)
    BY <1>0, <1>1 DEF Types
  <2> QED
    BY <1>15, <2>1 DEF WriterAt
<1>17. Path(d) => Path(d)'
  <2> SUFFICES ASSUME Path(d) PROVE Path(d)'
    OBVIOUS
  <2>1. Said(d) + n \in Int /\ Said(d) <= Said(d) + n
    BY <1>2
  <2>2. Leads(key, wire[d], ReaderAt(d), Said(d), to, FALSE)
    <3>1. torn = FALSE
      BY <1>0 DEF Types
    <3> QED
      BY <3>1 DEF Path, key, to
  <2> HIDE DEF mid, end
  <2>3. Leads(key, Append(wire[d], head), ReaderAt(d), Said(d) + n, mid, FALSE)
    <3>1. Extent(mid) <= Said(d) + n
      BY <1>13, <2>1
    <3> QED
      BY <2>1, <2>2, <3>1, <1>2, <1>6, <1>10, <1>11, LeadsAppend DEF mid
  <2>4. Leads(key, Append(Append(wire[d], head), data), ReaderAt(d), Said(d) + n, end, FALSE)
    <3>1. Extent(end) <= Said(d) + n /\ Said(d) + n <= Said(d) + n
      BY <1>15, <2>1
    <3> QED
      BY <2>1, <2>3, <3>1, <1>6, <1>8, <1>13, <1>14, LeadsAppend DEF end
  <2>5. wire'[d] = Append(Append(wire[d], head), data)
    BY <1>0, <1>1, <1>7 DEF Types
  <2>6. (ReaderAt(d))' = ReaderAt(d)
    BY DEF ReaderAt, Heard, reader
  <2>7. torn' = FALSE
    BY <1>0 DEF Types
  <2> QED
    BY <2>4, <2>5, <2>6, <2>7, <1>16 DEF Path, key
<1>18. wire' \in [Dirs -> Seq(Parts)] /\ \A o \in Dirs : o # d => wire'[o] = wire[o] /\ enc'[o] = enc[o]
  BY <1>0, <1>1, <1>7, <1>8 DEF Types
<1>19. enc' \in [Dirs -> Nonces] /\ wroteHead' \in [Dirs -> BOOLEAN]
  BY <1>0, <1>1, <1>2 DEF Types
<1> QED
  BY <1>17, <1>18, <1>19

\* The next part under way opens, and is what the reader waits for.
LEMMA Comes ==
    ASSUME ProtoAssumes, IInv, NEW d \in Dirs, Alive(d), wire[d] # <<>>
    PROVE  /\ Head(wire[d]) \in Parts /\ Tail(wire[d]) \in Seq(Parts)
           /\ Head(wire[d]).key = <<token, d>> /\ Head(wire[d]).nonce = dec[d]
           /\ Fits(<<token, d>>, ReaderAt(d), Head(wire[d]))
           /\ Leads(<<token, d>>, Tail(wire[d]), After(ReaderAt(d), Head(wire[d])),
                    Said(d), WriterAt(d), torn)
<1>1. Path(d) /\ torn \in BOOLEAN /\ wire[d] \in Seq(Parts) /\ Said(d) \in Int
  BY TypesAt DEF IInv, Following, Types
<1>2. Head(wire[d]) \in Parts /\ Tail(wire[d]) \in Seq(Parts)
  BY <1>1, HeadTailProperties
<1>3. /\ Fits(<<token, d>>, ReaderAt(d), Head(wire[d]))
      /\ Leads(<<token, d>>, Tail(wire[d]), After(ReaderAt(d), Head(wire[d])),
               Said(d), WriterAt(d), torn)
  BY <1>1, LeadsTail DEF Path
<1> QED
  BY <1>2, <1>3 DEF Fits, ReaderAt, Expect

\* The reader has taken a part, and knows what to expect now.
LEMMA Taken ==
    ASSUME ProtoAssumes, IInv, NEW d \in Dirs, Alive(d), wire[d] # <<>>,
           wire' = [wire EXCEPT ![d] = Tail(@)],
           (ReaderAt(d))' = After(ReaderAt(d), Head(wire[d])),
           UNCHANGED <<token, dial, enc, sent, torn>>
    PROVE  wire' \in [Dirs -> Seq(Parts)] /\ Path(d)'
<1>1. Types
  BY DEF IInv
<1>2. wire'[d] = Tail(wire[d]) /\ wire' \in [Dirs -> Seq(Parts)]
  BY <1>1, Comes DEF Types
<1>3. (Said(d))' = Said(d) /\ (WriterAt(d))' = WriterAt(d)
  BY DEF Said, WriterAt
<1> QED
  BY <1>2, <1>3, Comes DEF Path

\* What is left to say when a step has changed one direction only.
LEMMA OneDir ==
    ASSUME IInv, Types', Stages', NEW d \in Dirs, Alive(d)' => Path(d)',
           \A o \in Dirs : o # d => /\ wire'[o] = wire[o] /\ dec'[o] = dec[o] /\ hdr'[o] = hdr[o]
                                    /\ got'[o] = got[o] /\ readBuf'[o] = readBuf[o]
                                    /\ enc'[o] = enc[o] /\ sent'[o] = sent[o],
           d # "c2s" => accept' = accept /\ dial' = dial, token' = token, torn' = torn,
           /\ got'[d] = Run(0, Len(got'[d]))
           /\ readBuf'[d] = Run(Len(got'[d]), Len(readBuf'[d]))
           /\ Len(readBuf'[d]) <= MaxPayload
    PROVE  IInv'
<1>1. Ordered'
  BY DEF IInv, Ordered
<1>2. Following'
  <2> SUFFICES ASSUME NEW o \in Dirs, Alive(o)', o # d PROVE Path(o)'
    BY DEF Following
  <2>1. o = "c2s" => accept' = accept /\ dial' = dial
    BY DirsAre
  <2>2. Alive(o)
    BY <2>1, DirsAre DEF Alive
  <2>3. Path(o)
    BY <2>2 DEF IInv, Following
  <2> QED
    BY <2>1, <2>3, PathSame
<1> QED
  BY <1>1, <1>2 DEF IInv

LEMMA Keys ==
    ASSUME IInv, NEW d \in Dirs
    PROVE  /\ Ready(d, "reader") => KeyOf(d, "reader") = <<token, d>> /\ Alive(d)
                                    /\ Heard(d) = Len(got[d]) + Len(readBuf[d])
           /\ Ready(d, "writer") => KeyOf(d, "writer") = <<token, d>> /\ Said(d) = sent[d]
           /\ d # "c2s" \/ accept = "ready" => Heard(d) = Len(got[d]) + Len(readBuf[d])
BY DirsAre DEF IInv, Stages, Ready, KeyOf, deriveKey, Alive, Heard, Said

LEMMA DialTargetStep ==
    ASSUME ProtoAssumes, IInv, DialTarget
    PROVE  IInv'
<1>0. Types /\ Stages
  BY DEF IInv
<1>1. dial = "salted" /\ UNCHANGED <<token, tokens, accept, user, reader, torn>>
  BY DEF DialTarget
<1>2. CASE torn
  <2>1. dial' = "failed" /\ UNCHANGED <<writer, wire>>
    BY <1>2 DEF DialTarget
  <2>2. Types'
    BY <1>0, <1>1, <2>1 DEF Types, reader, writer
  <2>3. Stages'
    BY <1>0, <1>1, <2>1 DEF Stages, reader, writer
  <2> QED
    BY <1>1, <2>1, <2>2, <2>3, QuietStep DEF reader, writer
<1>3. CASE ~torn
  <2>1. /\ dial' = "ready" /\ UNCHANGED <<left, sent>>
        /\ \E pad \in framePad("c2s") : sealFrame("c2s", deriveKey(token, "c2s"), <<0>>, pad)
    BY <1>3 DEF DialTarget
  <2>2. PICK pad \in {0, 1} : sealFrame("c2s", <<token, "c2s">>, <<0>>, pad)
    BY <2>1 DEF framePad, deriveKey
  <2>3. Said("c2s") = -1 /\ (Said("c2s"))' = 0 /\ sent["c2s"] = 0 /\ left["c2s"] = 0
    BY <1>0, <1>1, <2>1 DEF Said, Stages
  <2>4. <<0>> = Run(Said("c2s"), 1)
    <3>1. <<0>> \in Seq(Int) /\ Len(<<0>>) = 1 /\ <<0>>[1] = 0
      OBVIOUS
    <3>2. /\ Run(Said("c2s"), 1) \in Seq(Int) /\ Len(Run(Said("c2s"), 1)) = 1
          /\ Run(Said("c2s"), 1)[1] = Said("c2s") + 1
      <4>1. Said("c2s") \in Int /\ 1 \in Nat /\ 1 \in 1 .. 1
        BY <2>3
      <4> QED
        BY <4>1, RunIs
    <3> QED
      BY <2>3, <3>1, <3>2, SeqEqual
  <2>5. "c2s" \in Dirs /\ 1 \in 1 .. MaxPayload
    BY DirsAre DEF ProtoAssumes
  <2>6. sealFrame("c2s", <<token, "c2s">>, Run(Said("c2s"), 1), pad)
    BY <2>2, <2>4
  <2>7. (Said("c2s"))' = Said("c2s") + 1
    BY <2>3
  <2>8. /\ enc' \in [Dirs -> Nonces] /\ wroteHead' \in [Dirs -> BOOLEAN]
        /\ wire' \in [Dirs -> Seq(Parts)]
        /\ \A o \in Dirs : o # "c2s" => wire'[o] = wire[o] /\ enc'[o] = enc[o]
        /\ Path("c2s") => Path("c2s")'
    BY <1>1, <1>3, <2>5, <2>6, <2>7, Sealed
  <2>9. Types'
    BY <1>0, <1>1, <2>1, <2>8 DEF Types, reader
  <2>10. Stages'
    BY <1>0, <1>1, <2>1, <2>8, DirsAre DEF Stages, reader
  <2>11. Alive("c2s")' => Path("c2s")'
    BY <1>1, <2>5, <2>8 DEF IInv, Following, Alive
  <2>12. /\ got'["c2s"] = Run(0, Len(got'["c2s"]))
         /\ readBuf'["c2s"] = Run(Len(got'["c2s"]), Len(readBuf'["c2s"]))
         /\ Len(readBuf'["c2s"]) <= MaxPayload
    BY <1>1, <2>5 DEF IInv, Ordered, reader
  <2> QED
    BY <1>1, <2>1, <2>5, <2>8, <2>9, <2>10, <2>11, <2>12, OneDir DEF reader
<1> QED
  BY <1>2, <1>3

LEMMA WriteFrameStep ==
    ASSUME ProtoAssumes, IInv, NEW d \in Dirs, WriteFrame(d)
    PROVE  IInv'
<1>0. Types /\ Stages
  BY DEF IInv
<1> DEFINE n == MinOf(left[d], MaxPayload)
<1>1. /\ left[d] > 0 /\ ~torn /\ UNCHANGED <<ends, reader, torn>>
      /\ \E pad \in framePad(d) :
            sealFrame(d, KeyOf(d, "writer"), [i \in 1 .. n |-> sent[d] + i], pad)
      /\ left' = [left EXCEPT ![d] = @ - n]
      /\ sent' = [sent EXCEPT ![d] = @ + n]
  BY DEF WriteFrame
<1>2. left[d] \in Nat /\ sent[d] \in Nat /\ left[d] + sent[d] <= Total[d] /\ Total[d] \in Nat
  BY <1>0, TypesAt DEF ProtoAssumes
<1>3. n \in 1 .. MaxPayload /\ n <= left[d]
  BY <1>1, <1>2 DEF MinOf, ProtoAssumes
<1>4. Ready(d, "writer")
  <2>1. left[d] # 0
    BY <1>1, <1>2
  <2> QED
    BY <2>1, <1>0, DirsAre DEF Stages, Ready
<1>5. KeyOf(d, "writer") = <<token, d>> /\ Said(d) = sent[d] /\ (Said(d))' = sent'[d]
  <2>1. dial' = dial
    BY <1>1 DEF ends
  <2>2. d = "c2s" => dial = "ready"
    BY <1>4 DEF Ready
  <2> QED
    BY <2>1, <2>2, <1>4, Keys DEF Said
<1> HIDE DEF n
<1>6. PICK pad \in {0, 1} : sealFrame(d, <<token, d>>, Run(Said(d), n), pad)
  BY <1>1, <1>5 DEF framePad, Run
<1>7. (Said(d))' = Said(d) + n /\ ~ (Said(d) < 0)
  BY <1>0, <1>1, <1>2, <1>5 DEF Types
<1>8. /\ enc' \in [Dirs -> Nonces] /\ wroteHead' \in [Dirs -> BOOLEAN]
      /\ wire' \in [Dirs -> Seq(Parts)]
      /\ \A o \in Dirs : o # d => wire'[o] = wire[o] /\ enc'[o] = enc[o]
      /\ Path(d) => Path(d)'
  BY <1>1, <1>3, <1>6, <1>7, Sealed DEF ends
<1>9. /\ left' \in [Dirs -> Nat] /\ sent' \in [Dirs -> Nat]
      /\ \A o \in Dirs : left'[o] + sent'[o] <= Total[o]
      /\ \A o \in Dirs : o # d => left'[o] = left[o] /\ sent'[o] = sent[o]
  <2>1. left[d] - n \in Nat /\ sent[d] + n \in Nat /\ (left[d] - n) + (sent[d] + n) <= Total[d]
    BY <1>2, <1>3
  <2>2. left \in [Dirs -> Nat] /\ sent \in [Dirs -> Nat] /\ \A o \in Dirs : left[o] + sent[o] <= Total[o]
    BY <1>0 DEF Types
  <2>3. left' \in [Dirs -> Nat] /\ left'[d] = left[d] - n /\ \A o \in Dirs : o # d => left'[o] = left[o]
    BY <1>1, <2>1, <2>2
  <2>4. sent' \in [Dirs -> Nat] /\ sent'[d] = sent[d] + n /\ \A o \in Dirs : o # d => sent'[o] = sent[o]
    BY <1>1, <2>1, <2>2
  <2>5. \A o \in Dirs : left'[o] + sent'[o] <= Total[o]
    <3> TAKE o \in Dirs
    <3>1. CASE o = d
      BY <3>1, <2>1, <2>3, <2>4
    <3>2. CASE o # d
      BY <3>2, <2>2, <2>3, <2>4
    <3> QED
      BY <3>1, <3>2
  <2> QED
    BY <2>3, <2>4, <2>5
<1>10. Types'
  BY <1>0, <1>1, <1>8, <1>9 DEF Types, ends, reader
<1>11. Stages'
  <2>1. d = "c2s" => dial = "ready"
    BY <1>4 DEF Ready
  <2>2. d = "s2c" => accept = "ready"
    BY <1>4, DirsAre DEF Ready
  <2>3. /\ dial # "ready" => left'["c2s"] = 0 /\ sent'["c2s"] = 0 /\ wire'["c2s"] = <<>>
        /\ accept # "ready" => left'["s2c"] = 0 /\ sent'["s2c"] = 0 /\ wire'["s2c"] = <<>>
    BY <1>0, <1>8, <1>9, <2>1, <2>2, DirsAre DEF Stages
  <2> QED
    BY <1>0, <1>1, <2>3 DEF Stages, ends, reader
<1>12. Alive(d)' => Path(d)'
  BY <1>1, <1>8 DEF IInv, Following, Alive, ends
<1>13. /\ got'[d] = Run(0, Len(got'[d]))
       /\ readBuf'[d] = Run(Len(got'[d]), Len(readBuf'[d]))
       /\ Len(readBuf'[d]) <= MaxPayload
  BY <1>1 DEF IInv, Ordered, reader
<1> QED
  BY <1>1, <1>8, <1>9, <1>10, <1>11, <1>12, <1>13, OneDir DEF reader, ends

LEMMA AcceptHeaderStep ==
    ASSUME ProtoAssumes, IInv, AcceptHeader
    PROVE  IInv'
<1>0. Types /\ Stages /\ "c2s" \in Dirs
  BY DirsAre DEF IInv
<1> DEFINE part == Head(wire["c2s"])
<1>1. /\ accept = "salted" /\ wire["c2s"] # <<>>
      /\ wire' = [wire EXCEPT !["c2s"] = Tail(@)]
      /\ UNCHANGED <<token, tokens, dial, writer, readBuf, got, result, torn>>
      /\ \/ accept' = "failed" /\ UNCHANGED <<user, dec, hdr>>
         \/ /\ accept' = "opened" /\ user' \in Fitting(part)
            /\ dec' = [dec EXCEPT !["c2s"] = incNonce(Zero)]
            /\ hdr' = [hdr EXCEPT !["c2s"] = part.body]
  BY DEF AcceptHeader
<1>2. dec["c2s"] = Zero /\ hdr["c2s"] = Nothing /\ Heard("c2s") = -1
  BY <1>0, <1>1 DEF Stages, Heard
<1>3. Alive("c2s")
  BY <1>1 DEF Alive
<1>4. part.key = <<token, "c2s">> /\ Fits(<<token, "c2s">>, ReaderAt("c2s"), part)
      /\ Tail(wire["c2s"]) \in Seq(Parts)
  BY <1>0, <1>1, <1>3, Comes
<1>5. part.body \in Heads /\ After(ReaderAt("c2s"), part) = Expect(incNonce(Zero), part.body, -1)
  BY <1>2, <1>4 DEF Fits, After, ReaderAt, Expect
<1> HIDE DEF part
<1>6. \A o \in Dirs : o # "c2s" => /\ wire'[o] = wire[o] /\ dec'[o] = dec[o] /\ hdr'[o] = hdr[o]
                                   /\ got'[o] = got[o] /\ readBuf'[o] = readBuf[o]
                                   /\ enc'[o] = enc[o] /\ sent'[o] = sent[o]
  BY <1>0, <1>1 DEF Types, writer
<1>7. /\ got'["c2s"] = Run(0, Len(got'["c2s"]))
      /\ readBuf'["c2s"] = Run(Len(got'["c2s"]), Len(readBuf'["c2s"]))
      /\ Len(readBuf'["c2s"]) <= MaxPayload
  BY <1>0, <1>1 DEF IInv, Ordered
<1>8. wire' \in [Dirs -> Seq(Parts)]
  BY <1>0, <1>1, <1>4 DEF Types
<1>9. CASE accept' = "failed" /\ UNCHANGED <<user, dec, hdr>>
  <2>1. Types'
    BY <1>0, <1>1, <1>8, <1>9 DEF Types, writer
  <2>2. Stages'
    BY <1>0, <1>1, <1>6, <1>9, DirsAre DEF Stages, writer
  <2>3. ~ Alive("c2s")'
    BY <1>9 DEF Alive
  <2> QED
    BY <1>0, <1>1, <1>6, <1>7, <2>1, <2>2, <2>3, OneDir
<1>10. CASE /\ accept' = "opened" /\ user' \in Fitting(part)
            /\ dec' = [dec EXCEPT !["c2s"] = incNonce(Zero)]
            /\ hdr' = [hdr EXCEPT !["c2s"] = part.body]
  <2>1. user' = token /\ token \in tokens
    BY <1>4, <1>10 DEF Fitting, Opens, deriveKey
  <2>2. incNonce(Zero) \in Nonces
    BY FewZero, IncType
  <2>3. dec' \in [Dirs -> Nonces] /\ hdr' \in [Dirs -> Heads \cup {Nothing}]
    BY <1>0, <1>5, <1>10, <2>2 DEF Types
  <2>4. dec'["c2s"] = incNonce(Zero) /\ hdr'["c2s"] = part.body
    BY <1>0, <1>10 DEF Types
  <2>5. Types'
    BY <1>0, <1>1, <1>8, <1>10, <2>1, <2>3 DEF Types, writer
  <2>6. Stages'
    <3>1. hdr'["c2s"] # Nothing
      BY <1>5, <2>4 DEF ProtoAssumes
    <3> QED
      BY <3>1, <1>0, <1>1, <1>6, <1>10, <2>1, DirsAre DEF Stages, writer
  <2>7. (ReaderAt("c2s"))' = After(ReaderAt("c2s"), Head(wire["c2s"]))
    BY <1>5, <1>10, <2>4 DEF ReaderAt, Heard, part
  <2>8. Path("c2s")'
    BY <1>0, <1>1, <1>3, <2>7, Taken DEF writer
  <2> QED
    BY <1>0, <1>1, <1>6, <1>7, <2>5, <2>6, <2>8, OneDir
<1> QED
  BY <1>1, <1>9, <1>10

LEMMA AcceptTargetStep ==
    ASSUME ProtoAssumes, IInv, AcceptTarget
    PROVE  IInv'
<1>0. Types /\ Stages /\ "c2s" \in Dirs
  BY DirsAre DEF IInv
<1> DEFINE part == Head(wire["c2s"])
<1>1. /\ accept = "opened" /\ wire["c2s"] # <<>>
      /\ wire' = [wire EXCEPT !["c2s"] = Tail(@)]
      /\ hdr' = [hdr EXCEPT !["c2s"] = Nothing]
      /\ UNCHANGED <<token, tokens, dial, user, writer, readBuf, got, result, torn>>
  BY DEF AcceptTarget
<1>2. user = token /\ token \in tokens /\ hdr["c2s"] # Nothing /\ Heard("c2s") = -1
      /\ got["c2s"] = <<>> /\ readBuf["c2s"] = <<>>
  BY <1>0, <1>1 DEF Stages, Heard
<1>3. Alive("c2s")
  BY <1>1 DEF Alive
<1>4. /\ part.key = <<token, "c2s">> /\ part.nonce = dec["c2s"]
      /\ Fits(<<token, "c2s">>, ReaderAt("c2s"), part) /\ Tail(wire["c2s"]) \in Seq(Parts)
  BY <1>0, <1>1, <1>3, Comes
<1>5. accept' = "ready" /\ dec' = [dec EXCEPT !["c2s"] = incNonce(@)]
  BY <1>2, <1>4 DEF AcceptTarget, Opens, deriveKey
<1>6. After(ReaderAt("c2s"), part) = Expect(incNonce(dec["c2s"]), Nothing, 0)
  <2>1. /\ ReaderAt("c2s").want = hdr["c2s"] /\ ReaderAt("c2s").unit = -1
        /\ ReaderAt("c2s").nonce = dec["c2s"]
    BY <1>2 DEF ReaderAt, Expect
  <2>2. hdr["c2s"].len = 1
    BY <1>2, <1>4, <2>1 DEF Fits
  <2> QED
    BY <1>2, <2>1, <2>2 DEF After
<1> HIDE DEF part
<1>7. \A o \in Dirs : o # "c2s" => /\ wire'[o] = wire[o] /\ dec'[o] = dec[o] /\ hdr'[o] = hdr[o]
                                   /\ got'[o] = got[o] /\ readBuf'[o] = readBuf[o]
                                   /\ enc'[o] = enc[o] /\ sent'[o] = sent[o]
  BY <1>0, <1>1, <1>5 DEF Types, writer
<1>8. /\ got'["c2s"] = Run(0, Len(got'["c2s"]))
      /\ readBuf'["c2s"] = Run(Len(got'["c2s"]), Len(readBuf'["c2s"]))
      /\ Len(readBuf'["c2s"]) <= MaxPayload
  BY <1>0, <1>1 DEF IInv, Ordered
<1>9. dec' \in [Dirs -> Nonces] /\ dec'["c2s"] = incNonce(dec["c2s"])
      /\ hdr' \in [Dirs -> Heads \cup {Nothing}] /\ hdr'["c2s"] = Nothing
  BY <1>0, <1>1, <1>5, IncType DEF Types
<1>10. Types'
  <2>1. wire' \in [Dirs -> Seq(Parts)]
    BY <1>0, <1>1, <1>4 DEF Types
  <2> QED
    BY <1>0, <1>1, <1>5, <1>9, <2>1 DEF Types, writer
<1>11. Stages'
  BY <1>0, <1>1, <1>2, <1>5, <1>7, DirsAre DEF Stages, writer
<1>12. (ReaderAt("c2s"))' = After(ReaderAt("c2s"), Head(wire["c2s"]))
  <2>1. (Heard("c2s"))' = 0
    BY <1>1, <1>2, <1>5, EmptySeq DEF Heard
  <2> QED
    BY <1>6, <1>9, <2>1 DEF ReaderAt, part
<1>13. Path("c2s")'
  BY <1>0, <1>1, <1>3, <1>12, Taken DEF writer
<1> QED
  BY <1>0, <1>1, <1>7, <1>8, <1>10, <1>11, <1>13, OneDir

LEMMA ReadHeaderStep ==
    ASSUME ProtoAssumes, IInv, NEW d \in Dirs, ReadHeader(d)
    PROVE  IInv'
<1>0. Types /\ Stages
  BY DEF IInv
<1> DEFINE part == Head(wire[d])
<1>1. /\ Ready(d, "reader") /\ wire[d] # <<>> /\ readBuf[d] = <<>> /\ hdr[d] = Nothing
      /\ wire' = [wire EXCEPT ![d] = Tail(@)]
      /\ UNCHANGED <<ends, writer, got, torn>>
  BY DEF ReadHeader, Reading
<1>2. KeyOf(d, "reader") = <<token, d>> /\ Alive(d) /\ Heard(d) = Len(got[d]) + Len(readBuf[d])
  BY <1>1, Keys
<1>3. /\ part.key = <<token, d>> /\ part.nonce = dec[d]
      /\ Fits(<<token, d>>, ReaderAt(d), part) /\ Tail(wire[d]) \in Seq(Parts)
  BY <1>1, <1>2, Comes
<1>4. /\ part.kind = "head" /\ part.body \in Heads
      /\ After(ReaderAt(d), part) = Expect(incNonce(dec[d]), part.body, Heard(d))
  BY <1>1, <1>3 DEF Fits, After, ReaderAt, Expect
<1>5. part.body.len \in 1 .. MaxPayload
  BY <1>4 DEF Heads
<1>6. /\ dec' = [dec EXCEPT ![d] = incNonce(@)] /\ hdr' = [hdr EXCEPT ![d] = part.body]
      /\ UNCHANGED <<readBuf, result>>
  BY <1>2, <1>3, <1>4, <1>5 DEF ReadHeader, Opens, InBounds
<1> HIDE DEF part
<1>7. \A o \in Dirs : o # d => /\ wire'[o] = wire[o] /\ dec'[o] = dec[o] /\ hdr'[o] = hdr[o]
                               /\ got'[o] = got[o] /\ readBuf'[o] = readBuf[o]
                               /\ enc'[o] = enc[o] /\ sent'[o] = sent[o]
  BY <1>0, <1>1, <1>6 DEF Types, writer
<1>8. /\ got'[d] = Run(0, Len(got'[d])) /\ readBuf'[d] = Run(Len(got'[d]), Len(readBuf'[d]))
      /\ Len(readBuf'[d]) <= MaxPayload
  BY <1>1, <1>6 DEF IInv, Ordered
<1>9. dec' \in [Dirs -> Nonces] /\ dec'[d] = incNonce(dec[d])
      /\ hdr' \in [Dirs -> Heads \cup {Nothing}] /\ hdr'[d] = part.body
  BY <1>0, <1>4, <1>6, IncType DEF Types
<1>10. Types'
  <2>1. wire' \in [Dirs -> Seq(Parts)]
    BY <1>0, <1>1, <1>3 DEF Types
  <2> QED
    BY <1>0, <1>1, <1>6, <1>9, <2>1 DEF Types, writer, ends
<1>11. Stages'
  <2>1. d = "c2s" => accept = "ready"
    BY <1>1 DEF Ready
  <2>2. wire["s2c"] = <<>> => wire'["s2c"] = <<>>
    BY <1>1, <1>7, DirsAre
  <2>3. wire["c2s"] = <<>> => wire'["c2s"] = <<>>
    BY <1>1, <1>7, DirsAre
  <2>4. accept # "ready" => dec'["c2s"] = dec["c2s"] /\ hdr'["c2s"] = hdr["c2s"]
    BY <1>7, <2>1, DirsAre
  <2> QED
    BY <1>0, <1>1, <1>6, <2>2, <2>3, <2>4 DEF Stages, writer, ends
<1>12. (ReaderAt(d))' = After(ReaderAt(d), Head(wire[d]))
  <2>1. (Heard(d))' = Heard(d)
    BY <1>1, <1>6 DEF Heard, ends
  <2> QED
    BY <1>4, <1>9, <2>1 DEF ReaderAt, part
<1>13. Path(d)'
  BY <1>1, <1>2, <1>12, Taken DEF writer, ends
<1> QED
  BY <1>1, <1>7, <1>8, <1>10, <1>11, <1>13, OneDir DEF ends

LEMMA ReadDataStep ==
    ASSUME ProtoAssumes, IInv, NEW d \in Dirs, ReadData(d)
    PROVE  IInv'
<1>0. Types /\ Stages
  BY DEF IInv
<1> DEFINE part == Head(wire[d])
           n == hdr[d].len
<1>1. /\ Ready(d, "reader") /\ wire[d] # <<>> /\ readBuf[d] = <<>> /\ hdr[d] # Nothing
      /\ wire' = [wire EXCEPT ![d] = Tail(@)]
      /\ UNCHANGED <<ends, writer, got, torn>>
  BY DEF ReadData, Reading
<1>2. KeyOf(d, "reader") = <<token, d>> /\ Alive(d) /\ Heard(d) = Len(got[d]) + Len(readBuf[d])
  BY <1>1, Keys
<1>3. /\ part.key = <<token, d>> /\ part.nonce = dec[d]
      /\ Fits(<<token, d>>, ReaderAt(d), part) /\ Tail(wire[d]) \in Seq(Parts)
  BY <1>1, <1>2, Comes
<1>4. /\ Len(got[d]) \in Nat /\ Heard(d) = Len(got[d])
      /\ n \in 1 .. MaxPayload /\ hdr[d].pad \in {0, 1} /\ MaxPayload \in Nat
  <2>1. Len(got[d]) \in Nat /\ Len(readBuf[d]) = 0
    BY <1>0, <1>1, TypesAt, EmptySeq
  <2>2. hdr[d] \in Heads
    BY <1>0, <1>1, TypesAt
  <2> QED
    BY <1>2, <2>1, <2>2 DEF Heads, ProtoAssumes
<1>5. /\ part.body = Run(Heard(d), n) \o Pad(hdr[d].pad)
      /\ After(ReaderAt(d), part) = Expect(incNonce(dec[d]), Nothing, Heard(d) + n)
  BY <1>1, <1>3 DEF Fits, After, ReaderAt, Expect
<1>6. SubSeq(part.body, 1, n) = Run(Len(got[d]), n)
  <2> DEFINE a == Len(got[d])
             k == hdr[d].pad
  <2>1. a \in Int /\ n \in Nat /\ k \in {0, 1} /\ part.body = Run(a, n) \o Pad(k)
    <3>1. n \in Nat
      BY <1>4
    <3>2. a \in Int
      BY <1>4
    <3> QED
      BY <3>1, <3>2, <1>4, <1>5
  <2> HIDE DEF a, k, part, n
  <2>2. SubSeq(Run(a, n) \o Pad(k), 1, n) = Run(a, n)
    BY <2>1, RunPadded
  <2> QED
    BY <2>1, <2>2 DEF a
<1>7. /\ dec' = [dec EXCEPT ![d] = incNonce(@)] /\ hdr' = [hdr EXCEPT ![d] = Nothing]
      /\ readBuf' = [readBuf EXCEPT ![d] = Run(Len(got[d]), n)] /\ UNCHANGED result
  BY <1>2, <1>3, <1>6 DEF ReadData, Opens
<1> HIDE DEF part, n
<1>8. Run(Len(got[d]), n) \in Seq(Nat) /\ Len(Run(Len(got[d]), n)) = n
  <2> DEFINE a == Len(got[d])
  <2>1. a \in Int /\ a >= 0 /\ n \in Nat
    BY <1>4
  <2> HIDE DEF a
  <2>2. Run(a, n) \in Seq(Nat) /\ Len(Run(a, n)) = n
    BY <2>1, RunIs
  <2> QED
    BY <2>2 DEF a
<1>9. /\ dec' \in [Dirs -> Nonces] /\ dec'[d] = incNonce(dec[d])
      /\ hdr' \in [Dirs -> Heads \cup {Nothing}] /\ hdr'[d] = Nothing
      /\ readBuf' \in [Dirs -> Seq(Nat)] /\ readBuf'[d] = Run(Len(got[d]), n)
  BY <1>0, <1>7, <1>8, IncType DEF Types
<1>10. \A o \in Dirs : o # d => /\ wire'[o] = wire[o] /\ dec'[o] = dec[o] /\ hdr'[o] = hdr[o]
                                /\ got'[o] = got[o] /\ readBuf'[o] = readBuf[o]
                                /\ enc'[o] = enc[o] /\ sent'[o] = sent[o]
  BY <1>0, <1>1, <1>7 DEF Types, writer
<1>11. /\ got'[d] = Run(0, Len(got'[d])) /\ readBuf'[d] = Run(Len(got'[d]), Len(readBuf'[d]))
       /\ Len(readBuf'[d]) <= MaxPayload
  BY <1>1, <1>4, <1>8, <1>9 DEF IInv, Ordered
<1>12. Types'
  <2>1. wire' \in [Dirs -> Seq(Parts)]
    BY <1>0, <1>1, <1>3 DEF Types
  <2> QED
    BY <1>0, <1>1, <1>7, <1>9, <2>1 DEF Types, writer, ends
<1>13. Stages'
  <2>1. d = "c2s" => accept = "ready"
    BY <1>1 DEF Ready
  <2>2. wire["s2c"] = <<>> => wire'["s2c"] = <<>>
    BY <1>1, <1>10, DirsAre
  <2>3. wire["c2s"] = <<>> => wire'["c2s"] = <<>>
    BY <1>1, <1>10, DirsAre
  <2>4. accept # "ready" => /\ dec'["c2s"] = dec["c2s"] /\ hdr'["c2s"] = hdr["c2s"]
                            /\ readBuf'["c2s"] = readBuf["c2s"]
    BY <1>10, <2>1, DirsAre
  <2> QED
    BY <1>0, <1>1, <1>7, <2>2, <2>3, <2>4 DEF Stages, writer, ends
<1>14. (ReaderAt(d))' = After(ReaderAt(d), Head(wire[d]))
  <2>1. (Heard(d))' = Heard(d) + n
    <3>1. d # "c2s" \/ accept' = "ready"
      BY <1>1 DEF Ready, ends
    <3> QED
      BY <3>1, <1>1, <1>4, <1>8, <1>9 DEF Heard
  <2> QED
    BY <1>5, <1>9, <2>1 DEF ReaderAt, part
<1>15. Path(d)'
  BY <1>1, <1>2, <1>14, Taken DEF writer, ends
<1> QED
  BY <1>1, <1>10, <1>11, <1>12, <1>13, <1>15, OneDir DEF ends

LEMMA ReadStep ==
    ASSUME ProtoAssumes, IInv, NEW d \in Dirs, Read(d)
    PROVE  IInv'
<1>0. Types /\ Stages
  BY DEF IInv
<1>1. /\ readBuf[d] # <<>> /\ UNCHANGED <<ends, writer, dec, hdr, result, wire, torn>>
  BY DEF Read
<1>2. PICK n \in DOMAIN readBuf[d] :
        /\ got' = [got EXCEPT ![d] = @ \o SubSeq(readBuf[d], 1, n)]
        /\ readBuf' = [readBuf EXCEPT ![d] = SubSeq(@, n + 1, Len(@))]
  BY DEF Read
<1> DEFINE a == Len(got[d])
           m == Len(readBuf[d])
<1>3. /\ a \in Nat /\ m \in Nat /\ n \in 1 .. m /\ m <= MaxPayload /\ MaxPayload \in Nat
      /\ got[d] = Run(0, a) /\ readBuf[d] = Run(a, m)
  <2>1. readBuf[d] \in Seq(Nat) /\ a \in Nat /\ m \in Nat
    BY <1>0, TypesAt
  <2>2. n \in 1 .. m
    BY <1>2, <2>1, LenProperties
  <2> QED
    BY <2>1, <2>2 DEF IInv, Ordered, ProtoAssumes
<1> HIDE DEF a, m
<1>4. /\ got[d] \o SubSeq(readBuf[d], 1, n) = Run(0, a + n)
      /\ SubSeq(readBuf[d], n + 1, m) = Run(a + n, m - n)
  <2>1. /\ Run(0, a) \o SubSeq(Run(a, m), 1, n) = Run(0, a + n)
        /\ SubSeq(Run(a, m), n + 1, m) = Run(a + n, m - n)
    BY <1>3, RunSplit
  <2> QED
    BY <2>1, <1>3
<1>5. /\ a + n \in Nat /\ m - n \in Nat /\ m - n <= MaxPayload
      /\ (a + n) + (m - n) = a + m /\ 0 \in Int
  BY <1>3
<1>6. /\ Run(0, a + n) \in Seq(Nat) /\ Len(Run(0, a + n)) = a + n
      /\ Run(a + n, m - n) \in Seq(Nat) /\ Len(Run(a + n, m - n)) = m - n
  <2>1. Run(0, a + n) \in Seq(Nat)
    <3>1. Run(0, a + n) \in [1 .. a + n -> Nat]
      BY <1>5 DEF Run
    <3> QED
      BY <3>1, <1>5, NatSeq
  <2>2. Len(Run(0, a + n)) = a + n
    BY <1>5, RunZero
  <2>3. Run(a + n, m - n) \in Seq(Nat) /\ Len(Run(a + n, m - n)) = m - n
    <3>1. a + n \in Int /\ a + n >= 0
      BY <1>5
    <3> QED
      BY <3>1, <1>5, RunIs
  <2> QED
    BY <2>1, <2>2, <2>3
<1>7. /\ got' = [got EXCEPT ![d] = Run(0, a + n)]
      /\ readBuf' = [readBuf EXCEPT ![d] = Run(a + n, m - n)]
  <2>1. got' = [got EXCEPT ![d] = got[d] \o SubSeq(readBuf[d], 1, n)]
    BY <1>2
  <2>2. readBuf' = [readBuf EXCEPT ![d] = SubSeq(readBuf[d], n + 1, m)]
    BY <1>2 DEF m
  <2> QED
    BY <2>1, <2>2, <1>4
<1>8. /\ got' \in [Dirs -> Seq(Nat)] /\ got'[d] = Run(0, a + n)
      /\ readBuf' \in [Dirs -> Seq(Nat)] /\ readBuf'[d] = Run(a + n, m - n)
  BY <1>0, <1>6, <1>7 DEF Types
<1>9. \A o \in Dirs : o # d => got'[o] = got[o] /\ readBuf'[o] = readBuf[o]
  BY <1>0, <1>7 DEF Types
<1>10. /\ got'[d] = Run(0, Len(got'[d])) /\ readBuf'[d] = Run(Len(got'[d]), Len(readBuf'[d]))
       /\ Len(readBuf'[d]) <= MaxPayload
  BY <1>5, <1>6, <1>8
<1>11. Types'
  BY <1>0, <1>1, <1>8 DEF Types, writer, ends
<1>12. d = "c2s" => accept = "ready"
  BY <1>0, <1>1 DEF Stages
<1>13. Stages'
  <2>1. accept # "ready" => got'["c2s"] = got["c2s"] /\ readBuf'["c2s"] = readBuf["c2s"]
    BY <1>9, <1>12, DirsAre
  <2> QED
    BY <1>0, <1>1, <2>1 DEF Stages, writer, ends
<1>14. (Heard(d))' = Heard(d)
  <2>1. Len(got'[d]) + Len(readBuf'[d]) = Len(got[d]) + Len(readBuf[d])
    BY <1>5, <1>6, <1>8 DEF a, m
  <2> QED
    BY <1>1, <2>1 DEF Heard, ends
<1>15. Alive(d)' => Path(d)'
  <2>1. (ReaderAt(d))' = ReaderAt(d) /\ (Said(d))' = Said(d) /\ (WriterAt(d))' = WriterAt(d)
    BY <1>1, <1>14 DEF ReaderAt, Said, WriterAt, ends, writer
  <2>2. Alive(d)' => Path(d)
    BY <1>1 DEF IInv, Following, Alive, ends
  <2> QED
    BY <1>1, <2>1, <2>2 DEF Path, ends
<1> QED
  BY <1>1, <1>9, <1>10, <1>11, <1>13, <1>15, OneDir DEF ends, writer

LEMMA LocalSteps ==
    ASSUME ProtoAssumes, IInv,
           \/ DialSalt \/ AcceptSalt \/ AcceptFails
           \/ \E d \in Dirs : Write(d) \/ WriteCut(d) \/ ReadEnds(d)
    PROVE  IInv'
<1>0. Types /\ Stages
  BY DEF IInv
<1>1. CASE DialSalt
  <2>1. Types' /\ Stages'
    BY <1>0, <1>1 DEF DialSalt, Types, Stages, writer, reader
  <2> QED
    BY <1>1, <2>1, QuietStep DEF DialSalt, writer, reader
<1>2. CASE AcceptSalt
  <2>1. Types' /\ Stages'
    BY <1>0, <1>2 DEF AcceptSalt, Types, Stages, writer, reader
  <2> QED
    BY <1>2, <2>1, QuietStep DEF AcceptSalt, writer, reader
<1>3. CASE AcceptFails
  <2>1. Types' /\ Stages'
    BY <1>0, <1>3 DEF AcceptFails, Types, Stages, writer, reader
  <2> QED
    BY <1>3, <2>1, QuietStep DEF AcceptFails, writer, reader
<1>4. ASSUME NEW d \in Dirs, Write(d)
      PROVE  IInv'
  <2>1. PICK n \in 1 .. Total[d] - sent[d] : left' = [left EXCEPT ![d] = n]
    BY <1>4 DEF Write
  <2>2. /\ Ready(d, "writer") /\ left[d] = 0
        /\ UNCHANGED <<ends, enc, wroteHead, sent, sealed, reader, wire, torn>>
    BY <1>4 DEF Write
  <2>3. sent[d] \in Nat /\ Total[d] \in Nat /\ n \in Nat /\ n + sent[d] <= Total[d]
    BY <1>0, <2>1, TypesAt DEF ProtoAssumes
  <2>4. left' \in [Dirs -> Nat] /\ \A o \in Dirs : left'[o] + sent[o] <= Total[o]
    BY <1>0, <2>1, <2>3 DEF Types
  <2>5. Types'
    BY <1>0, <2>2, <2>4 DEF Types, ends, reader
  <2>6. Stages'
    <3>1. /\ dial # "ready" => left'["c2s"] = left["c2s"]
          /\ accept # "ready" => left'["s2c"] = left["s2c"]
      BY <1>0, <2>1, <2>2, DirsAre DEF Ready, Types
    <3> QED
      BY <1>0, <2>2, <3>1 DEF Stages, ends, reader
  <2> QED
    BY <2>2, <2>5, <2>6, QuietStep DEF ends, reader
<1>5. ASSUME NEW d \in Dirs, WriteCut(d)
      PROVE  IInv'
  <2>1. /\ left' = [left EXCEPT ![d] = 0]
        /\ UNCHANGED <<ends, enc, wroteHead, sent, sealed, reader, wire, torn>>
    BY <1>5 DEF WriteCut
  <2>2. /\ left' \in [Dirs -> Nat]
        /\ \A o \in Dirs : left'[o] = left[o] \/ left'[o] = 0
    BY <1>0, <2>1 DEF Types
  <2>3. \A o \in Dirs : left'[o] + sent[o] <= Total[o]
    <3> TAKE o \in Dirs
    <3>1. left[o] \in Nat /\ sent[o] \in Nat /\ left[o] + sent[o] <= Total[o] /\ Total[o] \in Nat
      BY <1>0, TypesAt DEF ProtoAssumes
    <3> QED
      BY <2>2, <3>1
  <2>4. Types'
    BY <1>0, <2>1, <2>2, <2>3 DEF Types, ends, reader
  <2>5. Stages'
    BY <1>0, <2>1, <2>2, DirsAre DEF Stages, ends, reader
  <2> QED
    BY <2>1, <2>4, <2>5, QuietStep DEF ends, reader
<1>6. ASSUME NEW d \in Dirs, ReadEnds(d)
      PROVE  IInv'
  <2>0. PICK r \in {"EOF", "cut"} : result' = [result EXCEPT ![d] = r]
    BY <1>6 DEF ReadEnds
  <2>1. /\ result \in [Dirs -> {"none", "EOF", "cut", "damaged"}]
        /\ \A o \in Dirs : result[o] # "damaged"
        /\ UNCHANGED <<ends, writer, dec, hdr, readBuf, got, wire, torn>>
    BY <1>0, <1>6 DEF ReadEnds, Types, Stages
  <2>2. /\ result' \in [Dirs -> {"none", "EOF", "cut", "damaged"}]
        /\ \A o \in Dirs : result'[o] # "damaged"
    BY <2>0, <2>1
  <2>3. Types' /\ Stages'
    BY <1>0, <2>1, <2>2 DEF Types, Stages, ends, writer
  <2> QED
    BY <2>1, <2>3, QuietStep DEF ends, writer
<1> QED
  BY <1>1, <1>2, <1>3, <1>4, <1>5, <1>6

LEMMA TearStep ==
    ASSUME IInv, Tear
    PROVE  IInv'
<1>0. Types /\ Stages
  BY DEF IInv
<1>1. ~torn /\ torn' = TRUE /\ UNCHANGED <<ends, writer, reader>>
  BY DEF Tear
<1>2. PICK up \in 0 .. Len(wire["c2s"]), down \in 0 .. Len(wire["s2c"]) :
        wire' = [c2s |-> SubSeq(wire["c2s"], 1, up), s2c |-> SubSeq(wire["s2c"], 1, down)]
  BY DEF Tear
<1>3. ASSUME NEW d \in Dirs
      PROVE  \E k \in 0 .. Len(wire[d]) : wire'[d] = SubSeq(wire[d], 1, k)
  <2>1. CASE d = "c2s"
    BY <1>2, <2>1
  <2>2. CASE d = "s2c"
    BY <1>2, <2>2
  <2> QED
    BY <2>1, <2>2, DirsAre
<1>4. ASSUME NEW d \in Dirs
      PROVE  wire'[d] \in Seq(Parts) /\ (Path(d) => Path(d)') /\ (wire[d] = <<>> => wire'[d] = <<>>)
  <2>1. PICK k \in 0 .. Len(wire[d]) : wire'[d] = SubSeq(wire[d], 1, k)
    BY <1>3
  <2>2. wire[d] \in Seq(Parts) /\ Said(d) \in Int /\ Said(d) <= Said(d) /\ torn \in BOOLEAN
        /\ Len(wire[d]) \in Nat
    <3>1. wire[d] \in Seq(Parts) /\ Said(d) \in Int /\ Len(wire[d]) \in Nat
      BY <1>0, TypesAt
    <3>2. Said(d) <= Said(d)
      BY <3>1
    <3>3. torn \in BOOLEAN
      BY <1>0 DEF Types
    <3> QED
      BY <3>1, <3>2, <3>3
  <2>3. wire'[d] \in Seq(Parts) /\ Len(wire'[d]) = k
    BY <2>1, <2>2, SubSeqProperties
  <2>4. wire[d] = <<>> => wire'[d] = <<>>
    BY <2>2, <2>3, EmptySeq
  <2>5. (ReaderAt(d))' = ReaderAt(d) /\ (Said(d))' = Said(d) /\ (WriterAt(d))' = WriterAt(d)
        /\ token' = token
    BY <1>1 DEF ReaderAt, Heard, Said, WriterAt, ends, reader, writer
  <2>6. Path(d) => Path(d)'
    <3> SUFFICES ASSUME Path(d) PROVE Path(d)'
      OBVIOUS
    <3>1. Leads(<<token, d>>, wire[d], ReaderAt(d), Said(d), WriterAt(d), torn)
      BY DEF Path
    <3>2. Leads(<<token, d>>, SubSeq(wire[d], 1, k), ReaderAt(d), Said(d), WriterAt(d), TRUE)
      BY <2>2, <3>1, LeadsCut
    <3> QED
      BY <1>1, <2>1, <2>5, <3>2 DEF Path
  <2> QED
    BY <2>3, <2>4, <2>6
<1>5. Types'
  <2>1. wire' \in [Dirs -> Seq(Parts)]
    <3>1. DOMAIN wire' = Dirs /\ wire' = [o \in DOMAIN wire' |-> wire'[o]]
      BY <1>2, DirsAre
    <3> QED
      BY <3>1, <1>4
  <2> QED
    BY <1>0, <1>1, <2>1 DEF Types, ends, writer, reader
<1>6. Stages'
  BY <1>0, <1>1, <1>4, DirsAre DEF Stages, ends, writer, reader
<1>7. Ordered'
  BY <1>1 DEF IInv, Ordered, reader
<1>8. Following'
  <2> SUFFICES ASSUME NEW d \in Dirs, Alive(d)' PROVE Path(d)'
    BY DEF Following
  <2>1. Path(d)
    BY <1>1 DEF IInv, Following, Alive, ends
  <2> QED
    BY <1>4, <2>1
<1> QED
  BY <1>5, <1>6, <1>7, <1>8 DEF IInv

LEMMA IInvInit ==
    ASSUME ProtoAssumes, ProtoInit
    PROVE  IInv
<1>1. Zero \in Nonces /\ <<>> \in Seq(Parts) /\ <<>> \in Seq(Nat) /\ Len(<<>>) = 0
  BY FewZero
<1>2. wire \in [Dirs -> Seq(Parts)] /\ \A d \in Dirs : wire[d] = <<>>
  <2>1. wire = [c2s |-> <<>>, s2c |-> <<>>] /\ DOMAIN wire = Dirs
    BY DirsAre DEF ProtoInit
  <2>2. \A d \in Dirs : wire[d] = <<>>
    BY <2>1, DirsAre
  <2>3. wire = [d \in Dirs |-> wire[d]]
    BY <2>1
  <2> QED
    BY <2>2, <2>3, <1>1
<1>3. Types
  <2>1. /\ enc \in [Dirs -> Nonces] /\ dec \in [Dirs -> Nonces]
        /\ hdr \in [Dirs -> Heads \cup {Nothing}]
        /\ readBuf \in [Dirs -> Seq(Nat)] /\ got \in [Dirs -> Seq(Nat)]
    BY <1>1 DEF ProtoInit
  <2>2. /\ left \in [Dirs -> Nat] /\ sent \in [Dirs -> Nat]
        /\ \A d \in Dirs : left[d] + sent[d] <= Total[d]
    BY DEF ProtoInit, ProtoAssumes
  <2>3. /\ wroteHead \in [Dirs -> BOOLEAN]
        /\ result \in [Dirs -> {"none", "EOF", "cut", "damaged"}]
    BY DEF ProtoInit
  <2> QED
    BY <1>2, <2>1, <2>2, <2>3 DEF ProtoInit, Types
<1>4. Stages
  BY <1>2, DirsAre DEF ProtoInit, Stages
<1>5. Ordered
  <2>1. Run(0, 0) = <<>>
    BY RunZero, EmptySeq
  <2> QED
    BY <1>1, <2>1 DEF ProtoInit, Ordered, ProtoAssumes
<1>6. Following
  <2> SUFFICES ASSUME NEW d \in Dirs PROVE Path(d)
    BY DEF Following
  <2>1. ReaderAt(d) = WriterAt(d) /\ Heard(d) = Said(d) /\ ReaderAt(d) \in Expects
        /\ Extent(ReaderAt(d)) <= Said(d)
    <3>1. Heard(d) = Said(d) /\ Said(d) \in Int /\ Said(d) <= Said(d)
      BY <1>1, DirsAre DEF ProtoInit, Heard, Said
    <3>2. dec[d] = Zero /\ enc[d] = Zero /\ hdr[d] = Nothing
      BY DEF ProtoInit
    <3>3. ReaderAt(d) = Expect(Zero, Nothing, Said(d)) /\ WriterAt(d) = ReaderAt(d)
      BY <3>1, <3>2 DEF ReaderAt, WriterAt
    <3>4. ReaderAt(d) \in Expects /\ Extent(ReaderAt(d)) = Said(d)
      BY <3>1, <3>3, <1>1 DEF Expect, Expects, Extent
    <3> QED
      BY <3>1, <3>3, <3>4
  <2>2. torn \in BOOLEAN /\ Said(d) \in Int
    BY <1>3, TypesAt DEF Types
  <2>3. Leads(<<token, d>>, <<>>, ReaderAt(d), Said(d), WriterAt(d), torn)
    BY <2>1, <2>2, LeadsNowhere
  <2> QED
    BY <1>2, <2>3 DEF Path
<1> QED
  BY <1>3, <1>4, <1>5, <1>6 DEF IInv

LEMMA IInvNext ==
    ASSUME ProtoAssumes, IInv, [ProtoNext]_protoVars
    PROVE  IInv'
<1>1. CASE UNCHANGED protoVars
  <2>1. UNCHANGED <<token, tokens, dial, accept, user, enc, dec, wroteHead, wire, left, sent,
                    hdr, readBuf, got, result, sealed, torn>>
    BY <1>1 DEF protoVars, ends, writer, reader
  <2>2. Types' /\ Stages'
    BY <2>1 DEF IInv, Types, Stages
  <2> QED
    BY <2>1, <2>2, QuietStep
<1>2. CASE ProtoNext
  BY <1>2, LocalSteps, DialTargetStep, AcceptHeaderStep, AcceptTargetStep, WriteFrameStep,
     ReadHeaderStep, ReadDataStep, ReadStep, TearStep DEF ProtoNext
<1> QED
  BY <1>1, <1>2

LEMMA Always == ProtoSpec => []IInv
<1>1. ProtoInit => IInv
  BY IInvInit, ProtoAssumption
<1>2. IInv /\ [ProtoNext]_protoVars => IInv'
  BY IInvNext, ProtoAssumption
<1> QED
  BY <1>1, <1>2, PTL DEF ProtoSpec

\* What is known of a direction by its number of units.
LEMMA Behind ==
    ASSUME ProtoAssumes, IInv, NEW d \in Dirs
    PROVE  Len(got[d]) <= sent[d]
<1>1. /\ wire[d] \in Seq(Parts) /\ Len(wire[d]) \in Nat /\ Said(d) \in Int /\ Heard(d) \in Int
      /\ sent[d] \in Nat /\ Len(got[d]) \in Nat /\ Len(readBuf[d]) \in Nat
      /\ hdr[d] \in Heads \cup {Nothing} /\ torn \in BOOLEAN
  BY TypesAt DEF IInv, Types
<1>2. CASE got[d] = <<>>
  BY <1>1, <1>2, EmptySeq
<1>3. CASE got[d] # <<>>
  <2>1. d = "c2s" => accept = "ready"
    BY <1>3 DEF IInv, Stages
  <2>2. Path(d) /\ Heard(d) = Len(got[d]) + Len(readBuf[d])
    BY <2>1, DirsAre DEF IInv, Following, Alive, Heard
  <2>3. Extent(ReaderAt(d)) <= Said(d)
    BY <1>1, <2>2, LeadsFrom DEF Path
  <2>4. Heard(d) <= Extent(ReaderAt(d)) /\ Extent(ReaderAt(d)) \in Int
    <3>1. ReaderAt(d).want = hdr[d] /\ ReaderAt(d).unit = Heard(d)
      BY DEF ReaderAt, Expect
    <3>2. hdr[d] # Nothing => hdr[d].len \in Nat
      BY <1>1 DEF Heads, ProtoAssumes
    <3> QED
      BY <1>1, <3>1, <3>2 DEF Extent
  <2>5. Said(d) <= sent[d]
    BY <1>1 DEF Said
  <2> DEFINE a == Len(got[d])
             b == Len(readBuf[d])
             h == Heard(d)
             x == Extent(ReaderAt(d))
             s == Said(d)
             t == sent[d]
  <2>6. /\ a \in Nat /\ b \in Nat /\ h \in Int /\ x \in Int /\ s \in Int /\ t \in Nat
        /\ h = a + b /\ h <= x /\ x <= s /\ s <= t
    BY <1>1, <2>2, <2>3, <2>4, <2>5
  <2> HIDE DEF a, b, h, x, s, t
  <2>7. a <= t
    BY <2>6
  <2> QED
    BY <2>7 DEF a, t
<1> QED
  BY <1>2, <1>3

-----------------------------------------------------------------------------
(* No nonce comes twice.                                                    *)

\* Frames a writer has sealed, at most: each has one unit or more.
Frames(d) == IF d = "c2s" /\ dial = "ready" THEN sent[d] + 1 ELSE sent[d]

\* The next nonce is above all that were used, and not too many were.
Fresh(d) == /\ Few(enc[d], 2 * Frames(d))
            /\ \A p \in sealed : p.key[2] = d => p.nonce \in Nonces /\ Less(p.nonce, enc[d])

\* Or there is nothing more to seal: only then may the nonce be back at zero.
Spent(d) == left[d] = 0 /\ sent[d] = Total[d] /\ (d = "c2s" => dial = "ready")

NonceInv == NonceOnce /\ \A d \in Dirs : Fresh(d) \/ Spent(d)

LEMMA NonceQuiet ==
    ASSUME NonceInv, UNCHANGED <<sealed, enc, sent>>, dial' = "ready" <=> dial = "ready",
           \A d \in Dirs : left'[d] = left[d] \/ left'[d] = 0 \/ sent[d] # Total[d]
    PROVE  NonceInv'
<1>1. NonceOnce'
  BY DEF NonceInv, NonceOnce, Opens
<1>2. \A d \in Dirs : (Frames(d))' = Frames(d)
  BY DEF Frames
<1>3. ASSUME NEW d \in Dirs
      PROVE  Fresh(d)' \/ Spent(d)'
  BY <1>2, <1>3 DEF NonceInv, Fresh, Spent, Few, Below
<1> QED
  BY <1>1, <1>3 DEF NonceInv

LEMMA NonceSeal ==
    ASSUME ProtoAssumes, EnoughNonces, Types, Types', NonceInv,
           NEW d \in Dirs, ~ Spent(d), NEW key, key[2] = d, NEW chunk, NEW pad,
           sealFrame(d, key, chunk, pad), Frames(d) + 1 <= (Frames(d))',
           \A o \in Dirs : o # d => left'[o] = left[o] /\ sent'[o] = sent[o],
           d # "c2s" => dial' = dial
    PROVE  NonceInv'
<1> DEFINE next == incNonce(enc[d])
           head == Part(key, enc[d], "head", [len |-> Len(chunk), pad |-> pad])
           data == Part(key, next, "data", chunk \o [i \in 1 .. pad |-> Padding])
           f == Frames(d)
           g == (Frames(d))'
           size == Cardinality(Nonces)
<1>1. /\ enc' = [enc EXCEPT ![d] = incNonce(next)] /\ sealed' = sealed \cup {head, data}
  BY DEF sealFrame
<1>2. head.key = key /\ head.nonce = enc[d] /\ data.key = key /\ data.nonce = next
  BY DEF Part
<1>3. enc[d] \in Nonces /\ next \in Nonces /\ incNonce(next) \in Nonces
  BY TypesAt, IncType
<1>4. Fresh(d)
  BY DEF NonceInv
<1>5. /\ sent[d] \in Nat /\ sent'[d] \in Nat /\ left'[d] \in Nat /\ Total[d] \in Nat
      /\ left'[d] + sent'[d] <= Total[d]
  BY DEF Types, ProtoAssumes
<1>6. f \in Nat /\ g \in Nat /\ f + 1 <= g
      /\ (g = sent'[d] \/ (g = sent'[d] + 1 /\ (d = "c2s" => dial' = "ready")))
      /\ (g = sent'[d] + 1 => d = "c2s" /\ dial' = "ready")
  BY <1>5 DEF Frames
<1>7. size >= 2 * (Total[d] + 1)
  BY DEF EnoughNonces
<1>8. Few(enc[d], 2 * f)
  BY <1>4 DEF Fresh
<1> HIDE DEF next, head, data, f, g
<1>9. enc[d] # Last
  <2> SUFFICES ASSUME enc[d] = Last PROVE FALSE
    OBVIOUS
  <2>1. 2 * f \in Nat
    BY <1>6
  <2>2. size <= 2 * f + 1 /\ size \in Nat
    BY <2>1, <1>8, FewLast
  <2> HIDE DEF size
  <2> QED
    BY <2>2, <1>5, <1>6, <1>7
<1>10. Few(next, 2 * f + 1)
  <2>1. 2 * f \in Nat
    BY <1>6
  <2> QED
    BY <2>1, <1>3, <1>8, <1>9, FewNext DEF next
<1>11. Less(enc[d], next) /\ \A m \in Nonces : Less(m, enc[d]) => Less(m, next)
  BY <1>3, <1>9, Rises DEF next
<1>12. enc'[d] = incNonce(next)
  BY <1>1 DEF Types
<1>13. \A p \in sealed : p.key = key => p.nonce # enc[d] /\ p.nonce # next
  BY <1>3, <1>4, <1>11, Irreflexive DEF Fresh
<1>14. enc[d] # next
  BY <1>3, <1>11, Irreflexive
<1>15. NonceOnce'
  <2> SUFFICES ASSUME NEW p \in sealed \cup {head, data}, NEW q \in sealed \cup {head, data},
                      p.key = q.key, p.nonce = q.nonce
               PROVE  p = q
    BY <1>1 DEF NonceOnce, Opens
  <2>1. CASE p \in sealed /\ q \in sealed
    BY <2>1 DEF NonceInv, NonceOnce, Opens
  <2>2. CASE p \in sealed /\ q \in {head, data}
    BY <2>2, <1>2, <1>13
  <2>3. CASE p \in {head, data} /\ q \in sealed
    BY <2>3, <1>2, <1>13
  <2>4. CASE p \in {head, data} /\ q \in {head, data}
    BY <2>4, <1>2, <1>14
  <2> QED
    BY <2>1, <2>2, <2>3, <2>4
<1>16. ASSUME next = Last
       PROVE  Spent(d)'
  <2>1. 2 * f + 1 \in Nat
    BY <1>6
  <2>2. size <= (2 * f + 1) + 1 /\ size \in Nat
    BY <2>1, <1>10, <1>16, FewLast
  <2>3. sent'[d] = Total[d] /\ left'[d] = 0 /\ (d = "c2s" => dial' = "ready")
    <3> HIDE DEF size
    <3>1. Total[d] + 1 <= f + 1
      BY <2>2, <1>5, <1>6, <1>7
    <3>2. Total[d] + 1 <= g
      BY <3>1, <1>5, <1>6
    <3> QED
      BY <3>2, <1>5, <1>6
  <2> QED
    BY <2>3 DEF Spent
<1>17. ASSUME next # Last
       PROVE  Fresh(d)'
  <2>1. 2 * f + 1 \in Nat
    BY <1>6
  <2>2. Few(incNonce(next), (2 * f + 1) + 1)
    BY <2>1, <1>3, <1>10, <1>17, FewNext
  <2>3. Few(incNonce(next), 2 * g)
    <3>1. Cardinality(Below(incNonce(next))) \in Nat
      BY <2>2, FS_CardinalityType DEF Few
    <3>2. Cardinality(Below(incNonce(next))) <= 2 * g
      BY <2>2, <3>1, <1>6 DEF Few
    <3> QED
      BY <2>2, <3>2 DEF Few
  <2>4. \A m \in Nonces : m = next \/ Less(m, next) => Less(m, incNonce(next))
    BY <1>3, <1>17, Rises
  <2>5. ASSUME NEW p \in sealed', p.key[2] = d
        PROVE  p.nonce \in Nonces /\ Less(p.nonce, incNonce(next))
    <3>1. CASE p \in sealed
      BY <3>1, <2>4, <2>5, <1>4, <1>11 DEF Fresh
    <3>2. CASE p = head \/ p = data
      BY <3>2, <2>4, <1>2, <1>3, <1>11
    <3> QED
      BY <3>1, <3>2, <2>5, <1>1
  <2> QED
    BY <2>3, <2>5, <1>12 DEF Fresh, g, Few, Below
<1>18. ASSUME NEW o \in Dirs, o # d
       PROVE  Fresh(o)' \/ Spent(o)'
  <2>1. o = "c2s" => dial' = dial
    BY <1>18, DirsAre
  <2>2. enc'[o] = enc[o] /\ sent'[o] = sent[o] /\ left'[o] = left[o]
    BY <1>1, <1>18 DEF Types
  <2>3. (Frames(o))' = Frames(o)
    BY <2>1, <2>2 DEF Frames
  <2>4. \A p \in sealed' : p.key[2] = o => p \in sealed
    BY <1>1, <1>2, <1>18
  <2> QED
    BY <2>1, <2>2, <2>3, <2>4 DEF NonceInv, Fresh, Spent, Few, Below
<1>19. Fresh(d)' \/ Spent(d)'
  BY <1>16, <1>17
<1> QED
  BY <1>15, <1>18, <1>19 DEF NonceInv

LEMMA NonceNext ==
    ASSUME ProtoAssumes, EnoughNonces, IInv, IInv', NonceInv, [ProtoNext]_protoVars
    PROVE  NonceInv'
<1>0. Types /\ Types' /\ Stages
  BY DEF IInv
<1>1. CASE DialTarget
  <2>1. dial = "salted" /\ left["c2s"] = 0 /\ sent["c2s"] = 0
    BY <1>0, <1>1 DEF DialTarget, Stages
  <2>2. CASE dial' = "failed" /\ UNCHANGED <<writer, wire>>
    BY <2>1, <2>2, NonceQuiet DEF writer
  <2>3. CASE dial' = "ready" /\ UNCHANGED <<left, sent>>
             /\ \E pad \in framePad("c2s") :
                    sealFrame("c2s", deriveKey(token, "c2s"), <<0>>, pad)
    <3>1. PICK pad : sealFrame("c2s", deriveKey(token, "c2s"), <<0>>, pad)
      BY <2>3
    <3>2. ~ Spent("c2s") /\ deriveKey(token, "c2s")[2] = "c2s" /\ "c2s" \in Dirs
      BY <2>1, DirsAre DEF Spent, deriveKey
    <3>3. Frames("c2s") + 1 <= (Frames("c2s"))'
      BY <2>1, <2>3 DEF Frames
    <3> QED
      BY <1>0, <2>3, <3>1, <3>2, <3>3, NonceSeal
  <2> QED
    BY <1>1, <2>2, <2>3 DEF DialTarget
<1>2. ASSUME NEW d \in Dirs, WriteFrame(d)
      PROVE  NonceInv'
  <2> DEFINE n == MinOf(left[d], MaxPayload)
             chunk == [i \in 1 .. n |-> sent[d] + i]
  <2>1. /\ left[d] > 0 /\ UNCHANGED <<ends, reader, torn>>
        /\ \E pad \in framePad(d) : sealFrame(d, KeyOf(d, "writer"), chunk, pad)
        /\ left' = [left EXCEPT ![d] = @ - n]
        /\ sent' = [sent EXCEPT ![d] = @ + n]
    BY <1>2 DEF WriteFrame
  <2>2. PICK pad : sealFrame(d, KeyOf(d, "writer"), chunk, pad)
    BY <2>1
  <2>3. n \in Nat /\ n >= 1 /\ sent[d] \in Nat
    BY <1>0, <2>1, TypesAt DEF MinOf, ProtoAssumes
  <2> HIDE DEF n, chunk
  <2>4. ~ Spent(d) /\ KeyOf(d, "writer")[2] = d
    <3>1. left[d] # 0
      BY <2>1
    <3> QED
      BY <3>1 DEF Spent, KeyOf, deriveKey
  <2>5. /\ sent'[d] = sent[d] + n
        /\ \A o \in Dirs : o # d => left'[o] = left[o] /\ sent'[o] = sent[o]
    BY <1>0, <2>1 DEF Types
  <2>6. Frames(d) + 1 <= (Frames(d))' /\ dial' = dial
    BY <2>1, <2>3, <2>5 DEF Frames, ends
  <2> QED
    BY <1>0, <2>2, <2>4, <2>5, <2>6, NonceSeal
<1>3. ASSUME NEW d \in Dirs, Write(d)
      PROVE  NonceInv'
  <2>1. PICK n \in 1 .. Total[d] - sent[d] : left' = [left EXCEPT ![d] = n]
    BY <1>3 DEF Write
  <2>2. UNCHANGED <<ends, enc, sent, sealed>>
    BY <1>3 DEF Write
  <2>3. sent[d] \in Nat /\ Total[d] \in Nat
    BY <1>0, TypesAt DEF ProtoAssumes
  <2>4. sent[d] # Total[d]
    BY <2>1, <2>3
  <2>5. \A o \in Dirs : left'[o] = left[o] \/ left'[o] = 0 \/ sent[o] # Total[o]
    BY <1>0, <2>1, <2>4 DEF Types
  <2> QED
    BY <2>2, <2>5, NonceQuiet DEF ends
<1>4. ASSUME NEW d \in Dirs, WriteCut(d)
      PROVE  NonceInv'
  <2>1. \A o \in Dirs : left'[o] = left[o] \/ left'[o] = 0 \/ sent[o] # Total[o]
    BY <1>0, <1>4 DEF WriteCut, Types
  <2> QED
    BY <1>4, <2>1, NonceQuiet DEF WriteCut, ends
<1>5. CASE \/ AcceptSalt \/ AcceptHeader \/ AcceptTarget \/ AcceptFails \/ Tear \/ UNCHANGED protoVars
           \/ \E d \in Dirs : ReadHeader(d) \/ ReadData(d) \/ Read(d) \/ ReadEnds(d)
  <2>1. UNCHANGED <<dial, enc, sent, left, sealed>>
    BY <1>5 DEF AcceptSalt, AcceptHeader, AcceptTarget, AcceptFails, Tear, ReadHeader, ReadData,
                Read, ReadEnds, protoVars, ends, writer
  <2> QED
    BY <2>1, NonceQuiet
<1>6. CASE DialSalt
  BY <1>6, NonceQuiet DEF DialSalt, writer
<1> QED
  BY <1>1, <1>2, <1>3, <1>4, <1>5, <1>6 DEF ProtoNext

-----------------------------------------------------------------------------
(* The theorems.                                                            *)

\* Every variable of the protocol keeps its type; in particular a Read never
\* holds back more than a frame, and no writer loses count of what is left.
THEOREM ProtoTypes == ProtoSpec => []ProtoTypeOK
<1>1. IInv => ProtoTypeOK
  <2> SUFFICES ASSUME IInv PROVE ProtoTypeOK
    OBVIOUS
  <2>1. Types /\ Ordered
    BY DEF IInv
  <2>2. \A d \in Dirs : left[d] + sent[d] \in 0 .. Total[d]
    <3> TAKE d \in Dirs
    <3>1. left[d] \in Nat /\ sent[d] \in Nat /\ left[d] + sent[d] <= Total[d] /\ Total[d] \in Nat
      BY <2>1, TypesAt, ProtoAssumption DEF ProtoAssumes
    <3> QED
      BY <3>1
  <2>3. \A d \in Dirs : /\ hdr[d] = Nothing \/ hdr[d].len \in 1 .. MaxPayload
                        /\ readBuf[d] \in Seq(Units) /\ Len(readBuf[d]) <= MaxPayload
                        /\ got[d] \in Seq(Units)
    BY <2>1 DEF Types, Ordered, Heads, Units
  <2> QED
    BY <2>1, <2>2, <2>3 DEF Types, ProtoTypeOK
<1> QED
  BY <1>1, Always, PTL

\* Accept settles on the client's token, and what Read returns is the start of
\* what the peer wrote, however it was cut into writes, frames and reads; no
\* part is ever refused as damaged.
THEOREM ProtoInStep == ProtoSpec => []InStep
<1>1. IInv => InStep
  <2> SUFFICES ASSUME IInv PROVE InStep
    OBVIOUS
  <2>1. /\ accept \in {"opened", "ready"} => user = token /\ token \in tokens
        /\ \A d \in Dirs : result[d] # "damaged"
    BY DEF IInv, Stages
  <2>2. \A d \in Dirs : Len(got[d]) <= sent[d]
    BY Behind, ProtoAssumption
  <2>3. \A d \in Dirs : got[d] = [i \in DOMAIN got[d] |-> i]
    <3> TAKE d \in Dirs
    <3>1. got[d] = Run(0, Len(got[d])) /\ got[d] \in Seq(Nat) /\ Len(got[d]) \in Nat
      BY TypesAt, ProtoAssumption DEF IInv, Ordered
    <3>2. DOMAIN got[d] = 1 .. Len(got[d])
      BY <3>1, LenProperties
    <3>3. Run(0, Len(got[d])) = [i \in 1 .. Len(got[d]) |-> i]
      BY <3>1 DEF Run
    <3> QED
      BY <3>1, <3>2, <3>3
  <2> QED
    BY <2>1, <2>2, <2>3 DEF InStep
<1> QED
  BY <1>1, Always, PTL

\* While there are nonces enough, no key seals two parts under one: the nonce
\* of a direction runs through values that were not used before, both parts of
\* a frame have one of their own, and the directions have different keys.
THEOREM NoncesAreUnique == ASSUME EnoughNonces PROVE ProtoSpec => []NonceOnce
<1>1. ProtoInit => NonceInv
  <2> SUFFICES ASSUME ProtoInit PROVE NonceInv
    OBVIOUS
  <2>1. sealed = {} /\ NonceOnce
    BY DEF ProtoInit, NonceOnce
  <2>2. ASSUME NEW d \in Dirs
        PROVE  Fresh(d)
    <3>1. enc[d] = Zero /\ Frames(d) = 0
      BY DEF ProtoInit, Frames
    <3>2. Few(enc[d], 2 * Frames(d))
      BY <3>1, FewZero, ProtoAssumption
    <3> QED
      BY <2>1, <3>2 DEF Fresh
  <2> QED
    BY <2>1, <2>2 DEF NonceInv
<1>2. IInv /\ IInv' /\ NonceInv /\ [ProtoNext]_protoVars => NonceInv'
  BY NonceNext, ProtoAssumption
<1>3. NonceInv => NonceOnce
  BY DEF NonceInv
<1> QED
  BY <1>1, <1>2, <1>3, Always, PTL DEF ProtoSpec

=============================================================================
