------------------------------ MODULE SafeFile ------------------------------
(***************************************************************************)
(* How a file is replaced by way of a temporary file next to it: saveJSON  *)
(* of internal/menu, Config.Save of internal/clientconf and, without the   *)
(* Sync, replaceSelf of internal/selfupdate.  Every writer has a temporary *)
(* file of its own (CreateTemp); any of its steps may fail, and then the   *)
(* temporary file is removed and the file stays as it was.                 *)
(*                                                                         *)
(* Programs see what they wrote at once; the disk has it later.  A rename  *)
(* reaches the disk as a whole, the data of a file only by Sync or in its  *)
(* own time: that is what maybe keeps.  A temporary file that outlives its *)
(* writer is litter that nobody reads, and is not modelled.                *)
(***************************************************************************)
CONSTANTS Writers,   \* processes that replace the file
          Contents,  \* whole values
          NoFile,    \* there is no file
          Torn,      \* an empty or incomplete file
          Syncs      \* does the writer call Sync before Close?

VARIABLES seen,      \* what a program that opens the file gets
          maybe,     \* what may be there after the power has failed
          tmp        \* of each writer: its temporary file

vars == <<seen, maybe, tmp>>

NoTemp == [stage |-> "none", data |-> NoFile]
Temps == [stage : {"none", "created", "written", "synced"},
          data : Contents \cup {NoFile}]

TypeOK ==
    /\ seen \in Contents \cup {NoFile, Torn}
    /\ maybe \subseteq Contents \cup {NoFile, Torn} /\ maybe # {}
    /\ tmp \in [Writers -> Temps]

Begin(v) == seen = v /\ maybe = {v} /\ tmp = [w \in Writers |-> NoTemp]

Init == \E v \in Contents \cup {NoFile} : Begin(v)

-----------------------------------------------------------------------------
(* The steps of a writer, in the order of the code.                         *)

Create(w, c) ==
    /\ tmp[w].stage = "none"
    /\ tmp' = [tmp EXCEPT ![w] = [stage |-> "created", data |-> c]]
    /\ UNCHANGED <<seen, maybe>>

Write(w) ==
    /\ tmp[w].stage = "created"
    /\ tmp' = [tmp EXCEPT ![w].stage = "written"]
    /\ UNCHANGED <<seen, maybe>>

Sync(w) ==
    /\ Syncs /\ tmp[w].stage = "written"
    /\ tmp' = [tmp EXCEPT ![w].stage = "synced"]
    /\ UNCHANGED <<seen, maybe>>

\* What Rename puts in place of the file, now and on the disk.
Renamed(w) == /\ seen' = tmp[w].data
              /\ maybe' = maybe \cup {tmp[w].data}
                           \cup (IF tmp[w].stage = "synced" THEN {} ELSE {Torn})

\* Mutant of Rename: before Sync.
RenameEarly(w) ==
    /\ tmp[w].stage = "written"
    /\ Renamed(w)
    /\ tmp' = [tmp EXCEPT ![w] = NoTemp]

Rename(w) ==
    /\ tmp[w].stage = (IF Syncs THEN "synced" ELSE "written")
    /\ Renamed(w)
    /\ tmp' = [tmp EXCEPT ![w] = NoTemp]

\* A step fails, or the writer is killed: the file itself is not touched.
Discard(w) ==
    /\ tmp[w].stage # "none"
    /\ tmp' = [tmp EXCEPT ![w] = NoTemp]
    /\ UNCHANGED <<seen, maybe>>

-----------------------------------------------------------------------------
(* The kernel writes back what it holds; the power fails.                   *)

Flush == maybe # {seen} /\ maybe' = {seen} /\ UNCHANGED <<seen, tmp>>

PowerLoss ==
    /\ seen' \in maybe
    /\ maybe' = {seen'}
    /\ tmp' = [w \in Writers |-> NoTemp]

-----------------------------------------------------------------------------
(* The file on its own: writers that do nothing else.                       *)

Next ==
    \/ \E w \in Writers :
        \/ \E c \in Contents : Create(w, c)
        \/ Write(w) \/ Sync(w) \/ Rename(w) \/ Discard(w)
    \/ Flush \/ PowerLoss

Spec == Init /\ [][Next]_vars
=============================================================================
