------------------------------ MODULE LogRing ------------------------------
(***************************************************************************)
(* The ring of the last lines of the log (internal/stats: HookLog, Write   *)
(* and LogLines), which the monitor shows.  Lines are numbered in the      *)
(* order in which they are logged; a Write may bring several.              *)
(***************************************************************************)
EXTENDS Integers, Sequences

CONSTANTS Sizes,     \* what HookLog may be called with
          MaxLines   \* bound: lines logged

ASSUME LogRingAssumption == Sizes \subseteq Int /\ MaxLines \in Nat

VARIABLES lines, pos, full,  \* of ring
          logged             \* history: how many lines there have been

ringVars == <<lines, pos, full, logged>>

Empty == 0
HookLog(n) ==
    /\ lines = [i \in 1 .. (IF n < 1 THEN 1 ELSE n) |-> Empty]
    /\ pos = 0 /\ full = FALSE

RingInit == logged = 0 /\ \E n \in Sizes : HookLog(n)

RingTypeOK ==
    /\ lines \in Seq(0 .. MaxLines) /\ lines # <<>>
    /\ pos \in 0 .. Len(lines) - 1 /\ full \in BOOLEAN

\* The place of the line that follows k others (pos counts from zero).
Place(k) == ((pos + k) % Len(lines)) + 1

\* Mutant of WriteLines: the ring is full only when a line goes past its end.
WriteLateFull(k) ==
    /\ logged + k <= MaxLines
    /\ lines' = [i \in DOMAIN lines |->
                    LET mine == {j \in 0 .. k - 1 : Place(j) = i}
                    IN IF mine = {} THEN lines[i]
                       ELSE logged + 1 + (CHOOSE j \in mine : \A h \in mine : h <= j)]
    /\ pos' = (pos + k) % Len(lines)
    /\ full' = (full \/ pos + k > Len(lines))
    /\ logged' = logged + k

\* k lines, of which the last ones stay when the ring is shorter than that.
WriteLines(k) ==
    /\ logged + k <= MaxLines
    /\ lines' = [i \in DOMAIN lines |->
                    LET mine == {j \in 0 .. k - 1 : Place(j) = i}
                    IN IF mine = {} THEN lines[i]
                       ELSE logged + 1 + (CHOOSE j \in mine : \A h \in mine : h <= j)]
    /\ pos' = (pos + k) % Len(lines)
    /\ full' = (full \/ pos + k >= Len(lines))
    /\ logged' = logged + k

LogLines == (IF full THEN SubSeq(lines, pos + 1, Len(lines)) ELSE <<>>)
            \o SubSeq(lines, 1, pos)

RingNext == \E k \in 1 .. MaxLines : WriteLines(k)

RingSpec == RingInit /\ [][RingNext]_ringVars

-----------------------------------------------------------------------------

\* "The last lines of the log, from old to new": all there were, or as many
\* as the ring holds, wherever in a Write it starts again.
RingIsTail ==
    LET n == IF logged < Len(lines) THEN logged ELSE Len(lines)
    IN LogLines = [i \in 1 .. n |-> logged - n + i]
=============================================================================
