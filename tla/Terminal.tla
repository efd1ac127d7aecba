------------------------------ MODULE Terminal ------------------------------
(***************************************************************************)
(* What job control promises about the terminal: the shell prompts only    *)
(* while it owns the terminal, it lends it to one group at a time and only *)
(* while it serves a line, and whoever had it gives it back to the shell   *)
(* and never to another group.                                             *)
(***************************************************************************)
CONSTANTS Group,   \* the process groups
          Shell    \* the one of the shell

VARIABLES owner,      \* the foreground group of the terminal
          prompting   \* the shell waits for a line

Init == owner = Shell /\ prompting = TRUE

Begin  == prompting /\ prompting' = FALSE /\ UNCHANGED owner
Lend   == ~prompting /\ owner = Shell /\ owner' \in Group \ {Shell} /\ UNCHANGED prompting
Return == owner # Shell /\ owner' = Shell /\ UNCHANGED prompting
Prompt == ~prompting /\ owner = Shell /\ prompting' = TRUE /\ UNCHANGED owner

Next == Begin \/ Lend \/ Return \/ Prompt
Spec == Init /\ [][Next]_<<owner, prompting>>
=============================================================================
