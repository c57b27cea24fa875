------------------------------ MODULE Simulator ------------------------------
(***************************************************************************)
(* What the simulator promises whoever starts it: it executes every        *)
(* program to its END, it shows each of their prints at most once, and it  *)
(* stops only when all of them are done, after which it shows one more     *)
(* print at most, the one that was in hand.  Module Kernel implements it.  *)
(***************************************************************************)
EXTENDS Sequences, Integers

CONSTANTS
  Programs,  \* the programs on the command line
  Prints     \* the prints they may execute

VARIABLES
  ended,     \* the programs executed to their END
  printed,   \* the prints shown, in order
  shutdown,  \* the simulator stops
  closed     \* nothing more is shown

vars == <<ended, printed, shutdown, closed>>

Init ==
  /\ ended = {}
  /\ printed = <<>>
  /\ shutdown = FALSE
  /\ closed = FALSE

(* A program reaches its END.                                              *)
EndOf(p) ==
  /\ p \notin ended
  /\ ended' = ended \cup {p}
  /\ UNCHANGED <<printed, shutdown, closed>>

Shown(r) == \E i \in 1..Len(printed) : printed[i] = r

(* A print not shown before is shown; after the stop it is the last.       *)
Show(r) ==
  /\ ~closed
  /\ ~Shown(r)
  /\ printed' = Append(printed, r)
  /\ closed' = shutdown
  /\ UNCHANGED <<ended, shutdown>>

(* All the programs are done.                                              *)
Stop ==
  /\ ended = Programs
  /\ shutdown' = TRUE
  /\ closed' \in {closed, TRUE}
  /\ UNCHANGED <<ended, printed>>

(* It has stopped with nothing in hand to show.                            *)
Close ==
  /\ shutdown
  /\ closed' = TRUE
  /\ UNCHANGED <<ended, printed, shutdown>>

Next ==
  \/ \E p \in Programs : EndOf(p)
  \/ \E r \in Prints : Show(r)
  \/ Stop
  \/ Close

Spec == Init /\ [][Next]_vars

=============================================================================
