---------------------------- MODULE LogRingProofs ----------------------------
(***************************************************************************)
(* Theorems about LogRing, for rings of any size and Writes of any number  *)
(* of lines, more than the ring holds among them.                          *)
(*                                                                         *)
(* A line has the number of the lines before it; its place is the          *)
(* remainder of that.  The last lines of the log are as many as there are  *)
(* places, so no two of them have the same.                                *)
(***************************************************************************)
EXTENDS LogRing, SequenceTheorems, WellFoundedInduction, TLAPS

Size == Len(lines)

\* The place of line l.
Home(l) == ((l - 1) % Size) + 1

Types ==
    /\ Size \in Nat \ {0} /\ lines \in [1 .. Size -> 0 .. MaxLines]
    /\ lines \in Seq(0 .. MaxLines)
    /\ pos \in 0 .. Size - 1 /\ full \in BOOLEAN
    /\ logged \in 0 .. MaxLines

\* pos and full say how many lines there have been, as far as it matters.
Counted == pos = logged % Size /\ (full <=> logged >= Size)

\* Every one of the last lines is in its place.
Kept == \A l \in 1 .. logged : l > logged - Size => lines[Home(l)] = l

IInv == Types /\ Counted /\ Kept

-----------------------------------------------------------------------------
(* Remainders.                                                              *)

LEMMA AtLeastOne ==
    ASSUME NEW N \in Nat \ {0}, NEW a \in Int, a >= 1
    PROVE  N * a >= N
<1>1. N * (a - 1) >= 0
  OBVIOUS
<1>2. N * (a - 1) = N * a - N
  OBVIOUS
<1> QED
  BY <1>1, <1>2

LEMMA Division ==
    ASSUME NEW N \in Nat \ {0}, NEW x \in Nat
    PROVE  x % N \in 0 .. N - 1 /\ x \div N \in Nat /\ x = N * (x \div N) + (x % N)
OBVIOUS

LEMMA OneRemainder ==
    ASSUME NEW N \in Nat \ {0}, NEW q \in Int, NEW r \in 0 .. N - 1,
           NEW p \in Int, NEW s \in 0 .. N - 1, N * q + r = N * p + s
    PROVE  q = p /\ r = s
<1>1. N * (q - p) = s - r /\ N * (p - q) = r - s
  OBVIOUS
<1>2. ~ (q - p >= 1)
  BY <1>1, AtLeastOne
<1>3. ~ (p - q >= 1)
  BY <1>1, AtLeastOne
<1>4. q = p
  BY <1>2, <1>3
<1> QED
  BY <1>4

LEMMA Remainder ==
    ASSUME NEW N \in Nat \ {0}, NEW q \in Nat, NEW r \in 0 .. N - 1
    PROVE  (N * q + r) % N = r
<1> DEFINE x == N * q + r
<1>1. x \in Nat
  OBVIOUS
<1> HIDE DEF x
<1> DEFINE p == x \div N
           s == x % N
<1>2. s \in 0 .. N - 1 /\ p \in Nat /\ x = N * p + s
  BY <1>1, Division
<1> HIDE DEF p, s
<1>3. N * p + s = N * q + r
  BY <1>2 DEF x
<1>4. s = r
  BY <1>2, <1>3, OneRemainder
<1> QED
  BY <1>4 DEF x, s

\* A remainder may be taken before something is added.
LEMMA AddLater ==
    ASSUME NEW N \in Nat \ {0}, NEW x \in Nat, NEW k \in Nat
    PROVE  ((x % N) + k) % N = (x + k) % N
<1> DEFINE r == x % N
           q == x \div N
           y == r + k
<1>1. r \in 0 .. N - 1 /\ q \in Nat /\ x = N * q + r
  BY Division
<1> HIDE DEF r, q
<1>2. y \in Nat
  BY <1>1
<1>3. y % N \in 0 .. N - 1 /\ y \div N \in Nat /\ y = N * (y \div N) + (y % N)
  BY <1>2, Division
<1> DEFINE s == y % N
           p == y \div N
<1>4. s \in 0 .. N - 1 /\ p \in Nat /\ r + k = N * p + s
  BY <1>3
<1> HIDE DEF s, p, y
<1>5. x + k = N * q + (N * p + s)
  BY <1>1, <1>4
<1>6. N * q + (N * p + s) = N * (q + p) + s
  BY <1>1, <1>4
<1> DEFINE m == q + p
<1>7. m \in Nat /\ x + k = N * m + s
  BY <1>1, <1>4, <1>5, <1>6
<1> HIDE DEF m
<1>8. (x + k) % N = s
  BY <1>4, <1>7, Remainder
<1> QED
  BY <1>8 DEF r, s, y

\* Two numbers with the same remainder that are less than N apart are one.
LEMMA Apart ==
    ASSUME NEW N \in Nat \ {0}, NEW x \in Nat, NEW y \in Nat, x <= y, y - x < N,
           x % N = y % N
    PROVE  x = y
<1> DEFINE r == x % N
           q == x \div N
           p == y \div N
<1>1. r \in 0 .. N - 1 /\ q \in Nat /\ x = N * q + r
  BY Division
<1>2. p \in Nat /\ y = N * p + r
  BY Division
<1> HIDE DEF r, q, p
<1>3. N * (p - q) = y - x
  BY <1>1, <1>2
<1>4. ~ (p - q >= 1)
  BY <1>1, <1>2, <1>3, AtLeastOne
<1>5. ~ (q - p >= 1)
  <2>1. N * (q - p) = x - y
    BY <1>1, <1>2
  <2> QED
    BY <1>1, <1>2, <2>1, AtLeastOne
<1>6. q = p
  BY <1>1, <1>2, <1>4, <1>5
<1> QED
  BY <1>1, <1>2, <1>6

LEMMA Small ==
    ASSUME NEW N \in Nat \ {0}, NEW x \in 0 .. N - 1
    PROVE  x % N = x
<1>1. (N * 0 + x) % N = x
  BY Remainder
<1> QED
  BY <1>1

\* N less makes no difference.
LEMMA OneRound ==
    ASSUME NEW N \in Nat \ {0}, NEW x \in Nat, x >= N
    PROVE  (x - N) % N = x % N
<1> DEFINE y == x - N
<1>1. y \in Nat /\ x = y + N
  OBVIOUS
<1> DEFINE r == y % N
           q == y \div N
<1>2. r \in 0 .. N - 1 /\ q \in Nat /\ y = N * q + r
  BY <1>1, Division
<1> HIDE DEF y, r, q
<1>3. N * q + r + N = N * (q + 1) + r
  BY <1>2
<1>4. x = N * (q + 1) + r
  BY <1>1, <1>2, <1>3
<1>5. x % N = r
  BY <1>2, <1>4, Remainder
<1> QED
  BY <1>5 DEF y, r

LEMMA Least ==
    ASSUME NEW S \in SUBSET Nat, S # {}
    PROVE  \E i \in S : \A j \in S : i <= j
<1>1. PICK i \in S : \A j \in S : ~ (<<j, i>> \in OpToRel(<, Nat))
  BY NatLessThanWellFounded, WFMin
<1>2. ASSUME NEW j \in S PROVE i <= j
  <2>1. <<j, i>> \in Nat \X Nat /\ <<j, i>>[1] = j /\ <<j, i>>[2] = i
    OBVIOUS
  <2>2. ~ (j < i)
    BY <2>1, <1>1 DEF OpToRel
  <2> QED
    BY <2>2
<1> QED
  BY <1>2

LEMMA Greatest ==
    ASSUME NEW k \in Nat, NEW S \in SUBSET (0 .. k), S # {}
    PROVE  \E j \in S : \A h \in S : h <= j
<1> DEFINE T == {i \in 0 .. k : k - i \in S}
<1>1. T \in SUBSET Nat
  OBVIOUS
<1>2. \A j \in S : k - j \in T
  <2> TAKE j \in S
  <2>1. j \in 0 .. k /\ k - j \in 0 .. k /\ k - (k - j) = j
    OBVIOUS
  <2> QED
    BY <2>1
<1>3. T # {}
  BY <1>2
<1>4. PICK i \in T : \A u \in T : i <= u
  BY <1>1, <1>3, Least
<1>5. k - i \in S /\ i \in 0 .. k
  BY <1>4
<1>6. ASSUME NEW h \in S PROVE h <= k - i
  <2>1. i <= k - h /\ h \in 0 .. k
    BY <1>2, <1>4
  <2> QED
    BY <1>5, <2>1
<1> QED
  BY <1>5, <1>6

-----------------------------------------------------------------------------
(* A Write.  Line logged + 1 + j is the one that follows j others.          *)

\* The lines of a Write that come to place i.
Mine(i, k) == {j \in 0 .. k - 1 : Place(j) = i}

LEMMA PlaceIsHome ==
    ASSUME Types, Counted, NEW j \in Nat
    PROVE  Place(j) = ((logged + j) % Size) + 1 /\ Place(j) \in 1 .. Size
<1> DEFINE n == Size
           x == (logged + j) % n
<1>1. n \in Nat \ {0} /\ logged \in Nat /\ pos = logged % n
  BY LogRingAssumption DEF Types, Counted
<1>2. ((logged % n) + j) % n = x
  BY <1>1, AddLater
<1>3. x \in 0 .. n - 1
  BY <1>1, Division
<1>4. Place(j) = x + 1
  BY <1>1, <1>2 DEF Place, Size
<1> HIDE DEF x, n
<1>5. x + 1 \in 1 .. n
  BY <1>1, <1>3
<1> QED
  BY <1>4, <1>5 DEF x, n

LEMMA Chosen ==
    ASSUME NEW k \in Nat, NEW i, Mine(i, k) # {},
           NEW c, c = CHOOSE j \in Mine(i, k) : \A h \in Mine(i, k) : h <= j
    PROVE  c \in Mine(i, k) /\ \A h \in Mine(i, k) : h <= c
<1>1. Mine(i, k) \in SUBSET (0 .. k)
  BY DEF Mine
<1>2. \E j \in Mine(i, k) : \A h \in Mine(i, k) : h <= j
  BY <1>1, Greatest
<1> QED
  BY <1>2

\* The last lines of a Write go each to its place and stay there.
LEMMA NewLine ==
    ASSUME Types, Counted, NEW k \in Nat, NEW j \in 0 .. k - 1, j >= k - Size
    PROVE  /\ j \in Mine(Place(j), k)
           /\ \A h \in Mine(Place(j), k) : h <= j
<1>1. j \in Mine(Place(j), k)
  BY DEF Mine
<1>2. ASSUME NEW h \in Mine(Place(j), k), ~ (h <= j)
      PROVE  FALSE
  <2>1. h \in 0 .. k - 1 /\ j \in Nat /\ Place(h) = Place(j) /\ h - j < Size
    BY <1>2 DEF Mine, Types
  <2>2. Size \in Nat \ {0} /\ logged \in Nat
    BY LogRingAssumption DEF Types
  <2> DEFINE x == logged + j
             y == logged + h
  <2>3. x \in Nat /\ y \in Nat /\ x <= y /\ y - x < Size
    BY <1>2, <2>1, <2>2
  <2> HIDE DEF x, y
  <2>4. x % Size = y % Size
    <3> DEFINE a == x % Size
               b == y % Size
    <3>1. a \in 0 .. Size - 1 /\ b \in 0 .. Size - 1
      BY <2>2, <2>3, Division
    <3>2. Place(j) = a + 1 /\ Place(h) = b + 1
      BY <2>1, PlaceIsHome DEF x, y
    <3> HIDE DEF a, b
    <3>3. a = b
      BY <3>1, <3>2, <2>1
    <3> QED
      BY <3>3 DEF a, b
  <2>5. x = y
    BY <2>2, <2>3, <2>4, Apart
  <2> QED
    <3>1. logged + j = logged + h
      BY <2>5 DEF x, y
    <3>2. h \in Int /\ j \in Int /\ logged \in Int
      BY <2>1, <2>2
    <3>3. h = j
      BY <3>1, <3>2
    <3> QED
      BY <1>2, <3>2, <3>3
<1> QED
  BY <1>1, <1>2

\* A line that is still among the last ones after a Write keeps its place.
LEMMA OldLine ==
    ASSUME Types, Counted, NEW k \in Nat, NEW l \in 1 .. logged, l > logged + k - Size
    PROVE  Mine(Home(l), k) = {}
<1> SUFFICES ASSUME NEW j \in Mine(Home(l), k) PROVE FALSE
  OBVIOUS
<1>1. Size \in Nat \ {0} /\ logged \in Nat
  BY LogRingAssumption DEF Types
<1>2. j \in 0 .. k - 1 /\ Place(j) = Home(l)
  BY DEF Mine
<1> DEFINE x == l - 1
           y == logged + j
<1>3. x \in Nat /\ y \in Nat /\ x < y /\ y - x < Size
  BY <1>1, <1>2
<1> HIDE DEF x, y
<1>4. x % Size = y % Size
  <2> DEFINE a == x % Size
             b == y % Size
  <2>1. a \in 0 .. Size - 1 /\ b \in 0 .. Size - 1
    BY <1>1, <1>3, Division
  <2>2. Home(l) = a + 1 /\ Place(j) = b + 1
    BY <1>2, PlaceIsHome DEF Home, x, y
  <2> HIDE DEF a, b
  <2>3. a = b
    BY <2>1, <2>2, <1>2
  <2> QED
    BY <2>3 DEF a, b
<1>5. x <= y
  BY <1>3
<1>6. x = y
  BY <1>1, <1>3, <1>4, <1>5, Apart
<1> QED
  BY <1>3, <1>6

\* What Write does to the places, one by one.
LEMMA Written ==
    ASSUME Types, Counted, NEW k \in Nat \ {0}, WriteLines(k)
    PROVE  /\ Len(lines') = Size
           /\ lines' \in [1 .. Size -> 0 .. MaxLines] /\ lines' \in Seq(0 .. MaxLines)
           /\ logged' = logged + k /\ logged' \in 0 .. MaxLines
           /\ \A i \in 1 .. Size : Mine(i, k) = {} => lines'[i] = lines[i]
           /\ \A i \in 1 .. Size : \A c \in Mine(i, k) :
                (\A h \in Mine(i, k) : h <= c) => lines'[i] = logged + 1 + c
<1>0. /\ Size \in Nat \ {0} /\ lines \in [1 .. Size -> 0 .. MaxLines]
      /\ logged \in 0 .. MaxLines /\ MaxLines \in Nat
      /\ logged + k <= MaxLines /\ logged' = logged + k
  BY LogRingAssumption DEF Types, WriteLines
<1> DEFINE Last(i) == CHOOSE j \in Mine(i, k) : \A h \in Mine(i, k) : h <= j
           Line(i) == IF Mine(i, k) = {} THEN lines[i] ELSE logged + 1 + Last(i)
<1>1. lines' = [i \in 1 .. Size |-> Line(i)]
  BY <1>0 DEF WriteLines, Mine, Size
<1>2. ASSUME NEW i \in 1 .. Size, Mine(i, k) # {}
      PROVE  Last(i) \in Mine(i, k) /\ \A h \in Mine(i, k) : h <= Last(i)
  <2> DEFINE c == Last(i)
  <2>1. c = CHOOSE j \in Mine(i, k) : \A h \in Mine(i, k) : h <= j
    OBVIOUS
  <2> HIDE DEF c
  <2>2. c \in Mine(i, k) /\ \A h \in Mine(i, k) : h <= c
    BY <1>2, <2>1, Chosen
  <2> QED
    BY <2>2 DEF c
<1> HIDE DEF Last
<1>3. ASSUME NEW i \in 1 .. Size
      PROVE  Line(i) \in 0 .. MaxLines
  <2>1. CASE Mine(i, k) = {}
    BY <1>0, <2>1
  <2>2. CASE Mine(i, k) # {}
    <3>1. Last(i) \in 0 .. k - 1 /\ Line(i) = logged + 1 + Last(i)
      BY <1>2, <2>2 DEF Mine
    <3> HIDE DEF Line
    <3> QED
      BY <3>1, <1>0
  <2> QED
    BY <2>1, <2>2
<1>4. ASSUME NEW i \in 1 .. Size, NEW c \in Mine(i, k), \A h \in Mine(i, k) : h <= c
      PROVE  Line(i) = logged + 1 + c
  <2>1. Last(i) \in Mine(i, k) /\ \A h \in Mine(i, k) : h <= Last(i)
    BY <1>2
  <2>2. Last(i) = c
    BY <2>1, <1>4 DEF Mine
  <2> QED
    BY <2>2
<1>5. \A i \in 1 .. Size : Mine(i, k) = {} => Line(i) = lines[i]
  OBVIOUS
<1> HIDE DEF Line
<1>6. lines' \in [1 .. Size -> 0 .. MaxLines]
  BY <1>1, <1>3
<1>7. lines' \in Seq(0 .. MaxLines) /\ Len(lines') = Size
  <2>1. [i \in 1 .. Size |-> lines'[i]] \in Seq(0 .. MaxLines)
    BY <1>0, <1>6
  <2>2. lines' = [i \in 1 .. Size |-> lines'[i]]
    BY <1>6
  <2>3. Len([i \in 1 .. Size |-> lines'[i]]) = Size
    BY <1>0
  <2> HIDE DEF Size
  <2> QED
    BY <2>1, <2>2, <2>3
<1> QED
  BY <1>0, <1>1, <1>4, <1>5, <1>6, <1>7

LEMMA WriteStep ==
    ASSUME IInv, NEW k \in Nat \ {0}, WriteLines(k)
    PROVE  IInv'
<1>0. Types /\ Counted /\ Kept
  BY DEF IInv
<1>1. /\ Len(lines') = Size
      /\ lines' \in [1 .. Size -> 0 .. MaxLines] /\ lines' \in Seq(0 .. MaxLines)
      /\ logged' = logged + k /\ logged' \in 0 .. MaxLines
      /\ \A i \in 1 .. Size : Mine(i, k) = {} => lines'[i] = lines[i]
      /\ \A i \in 1 .. Size : \A c \in Mine(i, k) :
           (\A h \in Mine(i, k) : h <= c) => lines'[i] = logged + 1 + c
  BY <1>0, Written
<1>2. Size' = Size /\ Size \in Nat \ {0} /\ logged \in Nat /\ pos \in 0 .. Size - 1
  BY <1>0, <1>1, LogRingAssumption DEF Size, Types
<1>3. pos' = logged' % Size
  <2>1. pos = logged % Size /\ pos' = (pos + k) % Size
    BY <1>0 DEF Counted, WriteLines, Size
  <2>2. ((logged % Size) + k) % Size = (logged + k) % Size
    BY <1>2, AddLater
  <2> QED
    BY <1>1, <2>1, <2>2
<1>4. pos' \in 0 .. Size - 1
  <2>1. logged' \in Nat
    BY <1>1, <1>2
  <2> QED
    BY <1>2, <1>3, <2>1, Division
<1>5. full' <=> logged' >= Size
  <2>1. (full' <=> full \/ pos + k >= Size) /\ (full <=> logged >= Size)
    BY <1>0 DEF Counted, WriteLines, Size
  <2>2. CASE full
    BY <1>1, <1>2, <2>1, <2>2
  <2>3. CASE ~ full
    <3>1. logged \in 0 .. Size - 1
      BY <1>2, <2>1, <2>3
    <3>2. pos = logged
      BY <1>0, <1>2, <3>1, Small DEF Counted
    <3> QED
      BY <1>1, <1>2, <2>1, <2>3, <3>2
  <2> QED
    BY <2>2, <2>3
<1>6. ASSUME NEW l \in 1 .. logged + k, l > logged + k - Size
      PROVE  lines'[Home(l)] = l
  <2>1. CASE l <= logged
    <3>1. l \in 1 .. logged /\ l > logged - Size
      BY <1>2, <1>6, <2>1
    <3>2. Mine(Home(l), k) = {}
      BY <1>0, <1>6, <3>1, OldLine
    <3>3. Home(l) \in 1 .. Size
      <4>1. l - 1 \in Nat
        BY <3>1
      <4>2. (l - 1) % Size \in 0 .. Size - 1
        BY <1>2, <4>1, Division
      <4> QED
        BY <1>2, <4>2 DEF Home
    <3> QED
      BY <1>0, <1>1, <3>1, <3>2, <3>3 DEF Kept
  <2>2. CASE l > logged
    <3> DEFINE j == l - logged - 1
    <3>1. j \in 0 .. k - 1 /\ j >= k - Size /\ j \in Nat /\ logged + j = l - 1 /\ logged + 1 + j = l
      BY <1>2, <1>6, <2>2
    <3> HIDE DEF j
    <3>2. Place(j) = Home(l) /\ Place(j) \in 1 .. Size
      BY <1>0, <3>1, PlaceIsHome DEF Home
    <3>3. j \in Mine(Place(j), k) /\ \A h \in Mine(Place(j), k) : h <= j
      BY <1>0, <3>1, NewLine
    <3>4. lines'[Place(j)] = logged + 1 + j
      BY <1>1, <3>2, <3>3
    <3> QED
      BY <3>1, <3>2, <3>4
  <2> QED
    BY <1>2, <1>6, <2>1, <2>2
<1>7. Types'
  BY <1>1, <1>2, <1>4, <1>5 DEF Types, WriteLines
<1>8. Counted'
  BY <1>2, <1>3, <1>5 DEF Counted
<1>9. Kept'
  <2>1. \A l : Home(l)' = Home(l)
    BY <1>2 DEF Home
  <2> QED
    BY <1>1, <1>2, <1>6, <2>1 DEF Kept
<1> QED
  BY <1>7, <1>8, <1>9 DEF IInv

LEMMA RingStarts == RingInit => IInv
<1> SUFFICES ASSUME RingInit PROVE IInv
  OBVIOUS
<1>1. PICK n \in Sizes : HookLog(n)
  BY DEF RingInit
<1> DEFINE m == IF n < 1 THEN 1 ELSE n
<1>2. m \in Nat \ {0} /\ MaxLines \in Nat
  BY LogRingAssumption
<1>3. lines = [i \in 1 .. m |-> 0] /\ pos = 0 /\ full = FALSE /\ logged = 0
  BY <1>1 DEF HookLog, Empty, RingInit
<1> HIDE DEF m
<1>4. lines \in [1 .. m -> 0 .. MaxLines]
  BY <1>2, <1>3
<1>5. lines \in Seq(0 .. MaxLines)
  BY <1>2, <1>3
<1>6. Len(lines) = m
  BY <1>2, <1>3
<1>7. Types
  <2>1. m = Size /\ 0 \in 0 .. m - 1
    BY <1>2, <1>6 DEF Size
  <2>2. pos \in 0 .. Size - 1 /\ logged \in 0 .. MaxLines /\ full \in BOOLEAN
    <3>1. pos \in 0 .. Size - 1
      BY <1>3, <2>1
    <3>2. logged \in 0 .. MaxLines
      BY <1>2, <1>3
    <3> QED
      BY <1>3, <3>1, <3>2
  <2> QED
    BY <1>2, <1>4, <1>5, <2>1, <2>2 DEF Types
<1>8. Counted
  <2>1. 0 % m = 0
    BY <1>2, Small
  <2> QED
    <3>1. Size = m /\ ~ (0 >= m)
      BY <1>2, <1>6 DEF Size
    <3> QED
      BY <1>3, <2>1, <3>1 DEF Counted
<1>9. Kept
  BY <1>3 DEF Kept
<1> QED
  BY <1>7, <1>8, <1>9 DEF IInv

LEMMA RingStep == IInv /\ [RingNext]_ringVars => IInv'
<1> SUFFICES ASSUME IInv, [RingNext]_ringVars PROVE IInv'
  OBVIOUS
<1>1. CASE RingNext
  <2>1. PICK k \in 1 .. MaxLines : WriteLines(k)
    BY <1>1 DEF RingNext
  <2>2. k \in Nat \ {0}
    BY LogRingAssumption
  <2> QED
    BY <2>1, <2>2, WriteStep
<1>2. CASE UNCHANGED ringVars
  BY <1>2 DEF ringVars, IInv, Types, Counted, Kept, Home, Size
<1> QED
  BY <1>1, <1>2

LEMMA Always == RingSpec => []IInv
  BY RingStarts, RingStep, PTL DEF RingSpec

-----------------------------------------------------------------------------
(* The theorems.                                                            *)

\* The ring keeps its size, and pos is a place of it, however many lines a
\* Write brings (HookLog, Write).
THEOREM RingTypes == RingSpec => []RingTypeOK
<1>1. IInv => RingTypeOK
  <2> SUFFICES ASSUME IInv PROVE RingTypeOK
    OBVIOUS
  <2>1. lines # <<>>
    BY DEF IInv, Types, Size
  <2> QED
    BY <2>1 DEF IInv, Types, Size, RingTypeOK
<1> QED
  BY <1>1, Always, PTL

\* Where the line that LogLines shows at place i is found.
LEMMA Found ==
    ASSUME IInv, full, NEW i \in 1 .. Size
    PROVE  lines[IF i <= Size - pos THEN pos + i ELSE i - (Size - pos)]
             = logged - Size + i
<1>1. /\ Size \in Nat \ {0} /\ logged \in Nat /\ logged >= Size
      /\ pos = logged % Size /\ pos \in 0 .. Size - 1
  BY LogRingAssumption DEF IInv, Types, Counted
<1> DEFINE l == logged - Size + i
           old == logged - Size
<1>2. l \in 1 .. logged /\ l > logged - Size /\ old \in Nat /\ l - 1 = old + (i - 1) /\ i - 1 \in Nat
  BY <1>1
<1>3. lines[Home(l)] = l
  BY <1>2 DEF IInv, Kept
<1>4. old % Size = pos
  BY <1>1, OneRound
<1>5. (l - 1) % Size = (pos + (i - 1)) % Size
  <2> HIDE DEF l, old
  <2>1. ((old % Size) + (i - 1)) % Size = (old + (i - 1)) % Size
    BY <1>1, <1>2, AddLater
  <2> QED
    BY <1>2, <1>4, <2>1
<1> DEFINE x == pos + (i - 1)
<1>6. x \in Nat
  BY <1>1
<1>7. CASE i <= Size - pos
  <2>1. x \in 0 .. Size - 1
    BY <1>1, <1>7
  <2>2. x % Size = x
    BY <1>1, <2>1, Small
  <2>3. Home(l) = x + 1
    BY <1>5, <2>2 DEF Home
  <2>4. x + 1 = pos + i
    BY <1>1
  <2> QED
    BY <1>3, <1>7, <2>3, <2>4
<1>8. CASE ~ (i <= Size - pos)
  <2> DEFINE y == x - Size
  <2>1. x >= Size /\ y \in 0 .. Size - 1
    BY <1>1, <1>8
  <2>2. y % Size = x % Size /\ y % Size = y
    BY <1>1, <1>6, <2>1, OneRound, Small
  <2>3. Home(l) = y + 1
    BY <1>5, <2>2 DEF Home
  <2>4. y + 1 = i - (Size - pos)
    BY <1>1
  <2> QED
    BY <1>3, <1>8, <2>3, <2>4
<1> QED
  BY <1>7, <1>8

\* "The last lines of the log, from old to new" (LogLines): all of them until
\* the ring is full, then as many as it holds, wherever a Write starts again
\* at its beginning and even if one Write brings more than it holds.
THEOREM RingShowsTail == RingSpec => []RingIsTail
<1>1. IInv => RingIsTail
  <2> SUFFICES ASSUME IInv PROVE RingIsTail
    OBVIOUS
  <2> DEFINE n == IF logged < Len(lines) THEN logged ELSE Len(lines)
             tail == [i \in 1 .. n |-> logged - n + i]
             old == IF full THEN SubSeq(lines, pos + 1, Len(lines)) ELSE <<>>
             new == SubSeq(lines, 1, pos)
  <2>1. /\ Size \in Nat \ {0} /\ Size = Len(lines) /\ logged \in Nat
        /\ pos \in 0 .. Size - 1 /\ pos = logged % Size /\ (full <=> logged >= Size)
        /\ \A i \in 1 .. Size : lines[i] \in Nat
    BY LogRingAssumption DEF IInv, Types, Counted, Size
  <2>2. /\ new \in Seq(Nat) /\ Len(new) = pos
        /\ \A i \in 1 .. pos : new[i] = lines[i]
    BY <2>1, SubSeqProperties
  <2>3. tail \in Seq(Nat) /\ Len(tail) = n /\ n \in Nat
    <3>1. n \in Nat /\ n <= logged
      BY <2>1
    <3> HIDE DEF n
    <3>2. \A i \in 1 .. n : logged - n + i \in Nat
      BY <2>1, <3>1
    <3> QED
      BY <3>1, <3>2
  <2>4. CASE ~ full
    <3>1. pos = logged /\ n = logged
      <4>1. logged \in 0 .. Size - 1
        BY <2>1, <2>4
      <4> QED
        BY <2>1, <4>1, Small
    <3>2. LogLines = new
      <4>1. LogLines = <<>> \o new
        BY <2>4 DEF LogLines
      <4> QED
        BY <4>1, <2>2, ConcatEmptySeq
    <3>3. \A i \in 1 .. pos : new[i] = tail[i]
      <4> TAKE i \in 1 .. pos
      <4>1. i \in 1 .. logged /\ i > logged - Size /\ i - 1 \in 0 .. Size - 1
        BY <2>1, <3>1
      <4> DEFINE x == i - 1
      <4>2. Home(i) = i
        <5>1. x % Size = x /\ x + 1 = i
          BY <2>1, <4>1, Small
        <5>2. Home(i) = (x % Size) + 1
          BY DEF Home
        <5> HIDE DEF x
        <5> QED
          BY <5>1, <5>2
      <4>3. lines[i] = i
        BY <4>1, <4>2 DEF IInv, Kept
      <4>4. tail[i] = i
        BY <2>1, <3>1, <4>1
      <4> QED
        BY <2>2, <4>3, <4>4
    <3> HIDE DEF tail, new, n
    <3>4. new = tail
      BY <2>2, <2>3, <3>1, <3>3, SeqEqual
    <3> QED
      BY <3>2, <3>4 DEF RingIsTail, tail, n
  <2>5. CASE full
    <3>1. n = Size /\ old = SubSeq(lines, pos + 1, Size)
      BY <2>1, <2>5
    <3>2. /\ old \in Seq(Nat) /\ Len(old) = Size - pos
          /\ \A i \in 1 .. Size - pos : old[i] = lines[pos + i]
      <4>1. \A i \in pos + 1 .. Size : lines[i] \in Nat
        BY <2>1
      <4> DEFINE s == SubSeq(lines, pos + 1, Size)
      <4>2. /\ s \in Seq(Nat)
            /\ Len(s) = IF pos + 1 <= Size THEN Size - (pos + 1) + 1 ELSE 0
            /\ \A i \in 1 .. Size - (pos + 1) + 1 : s[i] = lines[pos + 1 + i - 1]
        BY <2>1, <4>1, SubSeqProperties
      <4> HIDE DEF s
      <4>3. Len(s) = Size - pos /\ Size - (pos + 1) + 1 = Size - pos
        BY <2>1, <4>2
      <4>4. \A i \in 1 .. Size - pos : s[i] = lines[pos + i]
        <5> TAKE i \in 1 .. Size - pos
        <5>1. pos + 1 + i - 1 = pos + i
          BY <2>1
        <5> QED
          BY <4>2, <4>3, <5>1
      <4> HIDE DEF old
      <4> QED
        BY <3>1, <4>2, <4>3, <4>4 DEF s
    <3>3. LogLines = old \o new
      BY DEF LogLines
    <3> HIDE DEF old, new
    <3>4. /\ LogLines \in Seq(Nat) /\ Len(LogLines) = (Size - pos) + pos
          /\ \A i \in 1 .. (Size - pos) + pos :
               LogLines[i] = IF i <= Size - pos THEN old[i] ELSE new[i - (Size - pos)]
      <4>1. /\ old \o new \in Seq(Nat) /\ Len(old \o new) = Len(old) + Len(new)
            /\ \A i \in 1 .. Len(old) + Len(new) :
                 (old \o new)[i] = IF i <= Len(old) THEN old[i] ELSE new[i - Len(old)]
        BY <2>2, <3>2, ConcatProperties
      <4>2. Len(old) = Size - pos /\ Len(new) = pos
        BY <2>2, <3>2
      <4> QED
        BY <3>3, <4>1, <4>2
    <3>5. (Size - pos) + pos = Size
      BY <2>1
    <3>6. \A i \in 1 .. Size : LogLines[i] = tail[i]
      <4> TAKE i \in 1 .. Size
      <4>1. LogLines[i] = lines[IF i <= Size - pos THEN pos + i ELSE i - (Size - pos)]
        <5>1. CASE i <= Size - pos
          BY <3>2, <3>4, <3>5, <5>1, <2>1
        <5>2. CASE ~ (i <= Size - pos)
          <6>1. i - (Size - pos) \in 1 .. pos
            BY <2>1, <5>2
          <6> QED
            BY <2>2, <3>4, <3>5, <5>2, <6>1
        <5> QED
          BY <5>1, <5>2
      <4>2. tail[i] = logged - Size + i
        BY <3>1
      <4> QED
        BY <2>5, <4>1, <4>2, Found
    <3> HIDE DEF tail, n
    <3>7. LogLines = tail
      BY <2>3, <3>1, <3>4, <3>5, <3>6, SeqEqual
    <3> QED
      BY <3>7 DEF RingIsTail, tail, n
  <2> QED
    BY <2>1, <2>4, <2>5
<1> QED
  BY <1>1, Always, PTL
=============================================================================
