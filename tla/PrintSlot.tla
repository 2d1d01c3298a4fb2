------------------------------ MODULE PrintSlot ------------------------------
(***************************************************************************)
(* What the console line of the server is for: a line that finds the slot  *)
(* empty is kept, whole, until it has been printed, exactly once; only     *)
(* then is the slot empty again.                                           *)
(***************************************************************************)
CONSTANTS
  Texts,    \* the lines
  NoText    \* an empty slot

VARIABLES
  slot,     \* the line that waits
  printed,  \* whether it has been printed already
  out       \* the line printed last

slotVars == <<slot, printed, out>>

Init ==
  /\ slot = NoText
  /\ printed = FALSE
  /\ out = NoText

Post(x) ==
  /\ slot = NoText
  /\ slot' = x
  /\ UNCHANGED <<printed, out>>

Show ==
  /\ slot # NoText
  /\ ~printed
  /\ printed' = TRUE
  /\ out' = slot
  /\ UNCHANGED slot

Empty ==
  /\ printed
  /\ slot' = NoText
  /\ printed' = FALSE
  /\ UNCHANGED out

Next == (\E x \in Texts : Post(x)) \/ Show \/ Empty

Spec == Init /\ [][Next]_slotVars
=============================================================================
