----------------------------- MODULE StreamSpec -----------------------------
(***************************************************************************)
(* One direction of a byte stream, as its two ends see it: what Join of    *)
(* internal/stripe promises, and what two programs expect of the relay.     *)
(* Chunks arrive in the order in which they were accepted, without gaps;   *)
(* the reader is told "end of stream" after the last one, unless the       *)
(* stream was torn, and then it may be told anything once.                 *)
(***************************************************************************)
EXTENDS Naturals, Sequences

CONSTANT Total   \* how many chunks the writer may write

VARIABLES accepted,   \* number of chunks taken from the writer
          ended,      \* the writer will write no more
          delivered,  \* the chunks the reader has got
          torn,       \* the stream was cut before its end
          result      \* what ended the reader's loop: "none", "EOF", "error"

vars == <<accepted, ended, delivered, torn, result>>

Init ==
    /\ accepted = 0 /\ delivered = <<>>
    /\ ended = FALSE /\ torn = FALSE /\ result = "none"

Write ==
    /\ ~ended /\ accepted < Total
    /\ accepted' = accepted + 1
    /\ UNCHANGED <<ended, delivered, torn, result>>

CloseWrite ==
    /\ ended' = TRUE
    /\ UNCHANGED <<accepted, delivered, torn, result>>

\* Whoever tears the stream, the writer among others, may end it thereby.
Tear ==
    /\ torn' = TRUE
    /\ ended' \in {ended, TRUE}
    /\ UNCHANGED <<accepted, delivered, result>>

Deliver ==
    /\ result = "none"
    /\ Len(delivered) < accepted
    /\ delivered' = Append(delivered, Len(delivered) + 1)
    /\ UNCHANGED <<accepted, ended, torn, result>>

Finish ==
    /\ result = "none"
    /\ \/ torn /\ result' \in {"EOF", "error"}
       \/ ended /\ Len(delivered) = accepted /\ result' = "EOF"
    /\ UNCHANGED <<accepted, ended, delivered, torn>>

Next == Write \/ CloseWrite \/ Tear \/ Deliver \/ Finish

Spec == Init /\ [][Next]_vars
=============================================================================
