------------------------- MODULE MessageSlot_proofs -------------------------
(***************************************************************************)
(* Proofs about MessageSlot, for any number of threads and lines: writers  *)
(* keep out of the buffer while a line waits, and the console implements   *)
(* PrintSlot.                                                              *)
(*                                                                         *)
(* WritersKeepOut is not inductive: that the flag is still false when a    *)
(* thread writes needs that no other thread can have set it since the test *)
(* (Mutex), and that the main thread only acts on a flag that is true      *)
(* (Printing).  Content says how much of the buffer holds what.            *)
(***************************************************************************)
EXTENDS MessageSlot, TLAPS

Mutex == \A t \in Threads : lock = t <=> at[t] \in InLock

Printing == main # "look" => messageWaiting

Content ==
  /\ \A t \in Threads : /\ at[t] # "out" => msg[t] \in Lines
                        /\ at[t] \in {"tail", "flag"} => message[1] = msg[t]
                        /\ at[t] = "flag" => message[2] = msg[t]
  /\ messageWaiting => message[1] \in Lines /\ message[2] = message[1]
  /\ main = "tail" => read = message[1]
  /\ main = "clear" => shown = message

IInv ==
  /\ TypeOK
  /\ Mutex
  /\ Printing
  /\ WritersKeepOut
  /\ Content

(* Initially no thread is in Message() and the buffer is empty.            *)
LEMMA InitIInv == Init => IInv
<1> SUFFICES ASSUME Init PROVE IInv
  OBVIOUS
<1>1. TypeOK
  BY DEF Init, TypeOK, Half, NoText
<1>2. Mutex
  BY SlotAssumption DEF Init, Mutex, InLock
<1>3. Printing /\ WritersKeepOut /\ Content
  BY DEF Init, Printing, WritersKeepOut, Writing, Content
<1> QED
  BY <1>1, <1>2, <1>3 DEF IInv

LEMMA MessageStep ==
  ASSUME IInv, NEW t \in Threads, Message(t) PROVE IInv'
<1> USE DEF Step, InLock, Writing
<1>0. TypeOK /\ Mutex /\ Printing /\ WritersKeepOut /\ Content
  BY DEF IInv
<1>1. CASE Enter(t)
  BY <1>0, <1>1, SlotAssumption
     DEF IInv, TypeOK, Mutex, Printing, WritersKeepOut, Content, Enter
<1>2. CASE Check(t)
  BY <1>0, <1>2 DEF IInv, TypeOK, Mutex, Printing, WritersKeepOut, Content, Check
<1>3. CASE CopyHead(t)
  BY <1>0, <1>3 DEF IInv, TypeOK, Mutex, Printing, WritersKeepOut, Content, CopyHead
<1>4. CASE CopyTail(t)
  BY <1>0, <1>4 DEF IInv, TypeOK, Mutex, Printing, WritersKeepOut, Content, CopyTail
<1>5. CASE SetWaiting(t)
  BY <1>0, <1>5
     DEF IInv, TypeOK, Mutex, Printing, WritersKeepOut, Content, SetWaiting
<1>6. CASE Leave(t)
  BY <1>0, <1>6, SlotAssumption
     DEF IInv, TypeOK, Mutex, Printing, WritersKeepOut, Content, Leave
<1> QED
  BY <1>1, <1>2, <1>3, <1>4, <1>5, <1>6 DEF Message

LEMMA CallStep ==
  ASSUME IInv, NEW t \in Threads, NEW l \in Lines, Call(t, l) PROVE IInv'
  BY DEF IInv, TypeOK, Mutex, Printing, WritersKeepOut, Content, Call, Step, InLock,
     Writing, Half

LEMMA MainStep ==
  ASSUME IInv, MainLoop PROVE IInv'
<1> USE DEF InLock, Writing
<1>0. TypeOK /\ Mutex /\ Printing /\ WritersKeepOut /\ Content
  BY DEF IInv
<1>1. CASE Look
  BY <1>0, <1>1 DEF IInv, TypeOK, Mutex, Printing, WritersKeepOut, Content, Look
<1>2. CASE PutsHead
  BY <1>0, <1>2 DEF IInv, TypeOK, Mutex, Printing, WritersKeepOut, Content, PutsHead
<1>3. CASE PutsTail
  <2>1. messageWaiting /\ read = message[1] /\ message = <<message[1], message[2]>>
    BY <1>0, <1>3 DEF TypeOK, Printing, Content, PutsTail
  <2> QED
    BY <1>0, <1>3, <2>1
       DEF IInv, TypeOK, Mutex, Printing, WritersKeepOut, Content, PutsTail
<1>4. CASE Clear
  BY <1>0, <1>4 DEF IInv, TypeOK, Mutex, Printing, WritersKeepOut, Content, Clear
<1> QED
  BY <1>1, <1>2, <1>3, <1>4 DEF MainLoop

LEMMA NextIInv == IInv /\ [Next]_vars => IInv'
<1> SUFFICES ASSUME IInv, [Next]_vars PROVE IInv'
  OBVIOUS
<1>1. CASE UNCHANGED vars
  BY <1>1 DEF vars, IInv, TypeOK, Mutex, Printing, WritersKeepOut, Content
<1> QED
  BY <1>1, MessageStep, CallStep, MainStep DEF Next

LEMMA Invariance == Spec => []IInv
  BY InitIInv, NextIInv, PTL DEF Spec

(* The buffer, the flag, the section and the program counters stay typed.  *)
THEOREM TypeCorrect == Spec => []TypeOK
<1>1. IInv => TypeOK
  BY DEF IInv
<1> QED
  BY <1>1, Invariance, PTL

(* No thread writes into message while a line waits in it or is printed,   *)
(* although the main thread never enters g_csMessage.                      *)
THEOREM WritersExcluded == Spec => []WritersKeepOut
<1>1. IInv => WritersKeepOut
  BY DEF IInv
<1> QED
  BY <1>1, Invariance, PTL

-----------------------------------------------------------------------------
(* A step of the program is a step of PrintSlot: setting the flag posts    *)
(* the line, the end of puts prints it, resetting the flag empties the     *)
(* slot; copying the line, half by half, happens while the slot is empty.  *)
LEMMA SlotStep ==
  ASSUME IInv, [Next]_vars PROVE [Slot!Next]_(Slot!slotVars)
<1> USE DEF Slot!slotVars
<1>0. TypeOK /\ Mutex /\ Printing /\ WritersKeepOut /\ Content
  BY DEF IInv
<1>1. ASSUME NEW t \in Threads, SetWaiting(t) PROVE Slot!Next
  <2>1. /\ at[t] = "flag" /\ ~messageWaiting /\ main = "look"
        /\ message = <<msg[t], msg[t]>> /\ msg[t] \in Lines
    BY <1>0, <1>1 DEF SetWaiting, Step, WritersKeepOut, Writing, Content, TypeOK
  <2>2. message \in Texts
    BY <2>1 DEF Texts
  <2>3. Slot!Post(message)
    BY <1>1, <2>1 DEF SetWaiting, Slot!Post
  <2> QED
    BY <2>2, <2>3 DEF Slot!Next
<1>2. CASE PutsTail
  <2>1. messageWaiting /\ message[1] \in Lines /\ message = <<message[1], message[2]>>
        /\ read = message[1] /\ main = "tail"
    BY <1>0, <1>2 DEF PutsTail, Printing, Content, TypeOK
  <2>2. message # NoText
    BY <2>1, SlotAssumption DEF NoText
  <2> QED
    BY <1>2, <2>1, <2>2 DEF PutsTail, Slot!Next, Slot!Show
<1>3. CASE Clear
  BY <1>3 DEF Clear, Slot!Next, Slot!Empty
<1>4. ASSUME NEW t \in Threads, Message(t), ~SetWaiting(t)
      PROVE  UNCHANGED Slot!slotVars
  <2>1. CASE Enter(t) \/ Check(t) \/ Leave(t)
    BY <2>1 DEF Enter, Check, Leave
  <2>2. CASE CopyHead(t) \/ CopyTail(t)
    BY <1>0, <2>2 DEF CopyHead, CopyTail, Step, WritersKeepOut, Writing
  <2> QED
    BY <1>4, <2>1, <2>2 DEF Message
<1>5. ASSUME NEW t \in Threads, NEW l \in Lines, Call(t, l)
      PROVE  UNCHANGED Slot!slotVars
  BY <1>5 DEF Call
<1>6. CASE Look \/ PutsHead
  BY <1>6 DEF Look, PutsHead
<1>7. CASE UNCHANGED vars
  BY <1>7 DEF vars
<1> QED
  BY <1>1, <1>2, <1>3, <1>4, <1>5, <1>6, <1>7 DEF Next, MainLoop

(* What the server prints is a line some callback stored, whole and once.  *)
THEOREM ImplementsSlot == Spec => SlotSpec
<1>1. Init => Slot!Init
  BY DEF Init, Slot!Init
<1>2. IInv /\ [Next]_vars => [Slot!Next]_(Slot!slotVars)
  BY SlotStep
<1> QED
  BY <1>1, <1>2, Invariance, PTL DEF Spec, SlotSpec, Slot!Spec
=============================================================================
