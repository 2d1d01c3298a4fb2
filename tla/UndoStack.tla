----------------------------- MODULE UndoStack -----------------------------
(***************************************************************************)
(* What the undo of the scenery editor promises (src/editor/src/undo.cpp): *)
(* of the editors started in one directory at most one has an undo stack;  *)
(* recording pushes its scenery, the oldest record giving way when there   *)
(* are MaxFiles of them, and undo makes the newest record the scenery.     *)
(***************************************************************************)
EXTENDS Naturals, Sequences

CONSTANTS Editors, Sceneries, Pointless, MaxFiles, Nobody,
          Lost  \* a record the system would not take, unnoticed

VARIABLES
  holder,   \* the editor that has the stack, or Nobody
  stack,    \* its records, the oldest first
  scenery   \* what each editor shows

svars == <<holder, stack, scenery>>

Init ==
  /\ holder = Nobody
  /\ stack = <<>>
  /\ scenery = [e \in Editors |-> Pointless]

Begin(e) ==
  /\ holder = Nobody
  /\ holder' = e
  /\ UNCHANGED <<stack, scenery>>

Edit(e) ==
  /\ \E s \in Sceneries : scenery' = [scenery EXCEPT ![e] = s]
  /\ UNCHANGED <<holder, stack>>

DropOldest ==
  /\ Len(stack) = MaxFiles
  /\ stack' = Tail(stack)
  /\ UNCHANGED <<holder, scenery>>

Record ==
  /\ holder # Nobody
  /\ Len(stack) < MaxFiles
  /\ \/ stack' = Append(stack, scenery[holder])
     \/ stack' = Append(stack, Lost)
  /\ UNCHANGED <<holder, scenery>>

(* What comes back of a lost record is whatever the file held before.      *)
TakeBack ==
  /\ stack # <<>>
  /\ stack[Len(stack)] # Pointless
  /\ \E s \in Sceneries :
       /\ stack[Len(stack)] \in {s, Lost}
       /\ scenery' = [scenery EXCEPT ![holder] = s]
  /\ stack' = SubSeq(stack, 1, Len(stack) - 1)
  /\ UNCHANGED holder

(* The editor is left, killed, or cannot read the record it is to take     *)
(* back.                                                                   *)
End ==
  /\ holder' = Nobody
  /\ stack' = <<>>
  /\ UNCHANGED scenery

Restart(e) ==
  /\ scenery' = [scenery EXCEPT ![e] = Pointless]
  /\ UNCHANGED <<holder, stack>>

Next ==
  \/ \E e \in Editors : Begin(e) \/ Edit(e) \/ Restart(e)
  \/ DropOldest \/ Record \/ TakeBack \/ End

Spec == Init /\ [][Next]_svars
=============================================================================
