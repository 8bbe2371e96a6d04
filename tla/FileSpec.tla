------------------------------ MODULE FileSpec ------------------------------
(***************************************************************************)
(* What the replacement of a settings file promises (menu.go: saveJSON     *)
(* "an interruption will not spoil the working settings"): the file is one *)
(* whole value, replaced in one step.  When the power fails it may go back *)
(* to a value it had before, never to anything else.                       *)
(***************************************************************************)
CONSTANTS Contents,  \* whole values
          NoFile     \* there is no file

VARIABLES value,     \* what a reader of the file gets
          earlier    \* what may be there after the power has failed

vars == <<value, earlier>>

Init == value \in Contents \cup {NoFile} /\ earlier = {value}

Replace == value' \in Contents /\ earlier' = earlier \cup {value'}

Settle == value' = value /\ earlier' = {value}

Revert == value' \in earlier /\ earlier' = {value'}

Next == Replace \/ Settle \/ Revert

Spec == Init /\ [][Next]_vars
=============================================================================
