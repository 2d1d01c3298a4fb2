----------------------------- MODULE MessageSlot -----------------------------
(***************************************************************************)
(* The console line of the server (src/server/server.cpp:69-103, 176-186): *)
(* threads that run DirectPlay callbacks leave a line in message, and the  *)
(* main thread prints it.  The threads exclude one another by g_csMessage; *)
(* the main thread does not enter it and trusts the flag messageWaiting.   *)
(* SessionServer takes Message() and the printing as one step each; here   *)
(* they are taken apart.  A line is copied and printed in two halves.      *)
(*                                                                         *)
(* messageWaiting is a plain bool shared without a lock.  Its accesses are *)
(* taken to happen in program order, which is what the compiler this       *)
(* program is written for makes of them: calls of functions it cannot see  *)
(* into (Sleep, puts, sprintf, EnterCriticalSection) lie between them.     *)
(***************************************************************************)
EXTENDS Naturals

CONSTANTS
  Threads,   \* the threads that run callbacks
  Lines,     \* what they have to say
  NoLine,    \* the buffer before the first line
  Nobody     \* the critical section is free

ASSUME SlotAssumption ==
  /\ NoLine \notin Lines
  /\ Nobody \notin Threads

VARIABLES
  lock,            \* g_csMessage
  messageWaiting,
  message,         \* the two halves of the buffer
  at,              \* where in Message() each thread is
  msg,             \* the argument of that call
  main,            \* where the main loop is
  read,            \* the half of the line puts has printed so far
  shown            \* the line printed last

vars == <<lock, messageWaiting, message, at, msg, main, read, shown>>

Half  == Lines \cup {NoLine}
NoText == <<NoLine, NoLine>>
Texts == {<<l, l>> : l \in Lines}

InLock  == {"check", "head", "tail", "flag", "leave"}
Writing == {"head", "tail", "flag"}

TypeOK ==
  /\ lock \in Threads \cup {Nobody}
  /\ messageWaiting \in BOOLEAN
  /\ message \in Half \X Half
  /\ at \in [Threads -> {"out", "enter"} \cup InLock]
  /\ msg \in [Threads -> Half]
  /\ main \in {"look", "head", "tail", "clear"}
  /\ read \in Half
  /\ shown \in Half \X Half

Init ==
  /\ lock = Nobody
  /\ messageWaiting = FALSE
  /\ message = NoText
  /\ at = [t \in Threads |-> "out"]
  /\ msg = [t \in Threads |-> NoLine]
  /\ main = "look"
  /\ read = NoLine
  /\ shown = NoText

Step(t, from, to) ==
  /\ at[t] = from
  /\ at' = [at EXCEPT ![t] = to]
-----------------------------------------------------------------------------
(* Message() *)

Call(t, l) ==
  /\ Step(t, "out", "enter")
  /\ msg' = [msg EXCEPT ![t] = l]
  /\ UNCHANGED <<lock, messageWaiting, message, main, read, shown>>

(* Mutant of Enter: the threads do not exclude one another.                *)
EnterUnlocked(t) ==
  /\ Step(t, "enter", "check")
  /\ lock' = t
  /\ UNCHANGED <<messageWaiting, message, msg, main, read, shown>>

Enter(t) ==
  /\ lock = Nobody
  /\ Step(t, "enter", "check")
  /\ lock' = t
  /\ UNCHANGED <<messageWaiting, message, msg, main, read, shown>>

(* Mutant of Check: a line waits until the one before it is printed.       *)
WaitUntilPrinted(t) ==
  /\ ~messageWaiting
  /\ Step(t, "check", "head")
  /\ UNCHANGED <<lock, messageWaiting, message, msg, main, read, shown>>

(* A line that finds another one waiting is dropped.                       *)
Check(t) ==
  /\ Step(t, "check", IF messageWaiting THEN "leave" ELSE "head")
  /\ UNCHANGED <<lock, messageWaiting, message, msg, main, read, shown>>

CopyHead(t) ==
  /\ Step(t, "head", "tail")
  /\ message' = [message EXCEPT ![1] = msg[t]]
  /\ UNCHANGED <<lock, messageWaiting, msg, main, read, shown>>

CopyTail(t) ==
  /\ Step(t, "tail", "flag")
  /\ message' = [message EXCEPT ![2] = msg[t]]
  /\ UNCHANGED <<lock, messageWaiting, msg, main, read, shown>>

SetWaiting(t) ==
  /\ Step(t, "flag", "leave")
  /\ messageWaiting' = TRUE
  /\ UNCHANGED <<lock, message, msg, main, read, shown>>

Leave(t) ==
  /\ Step(t, "leave", "out")
  /\ lock' = Nobody
  /\ UNCHANGED <<messageWaiting, message, msg, main, read, shown>>
-----------------------------------------------------------------------------
(* The main thread *)

Look ==
  /\ main = "look"
  /\ messageWaiting
  /\ main' = "head"
  /\ UNCHANGED <<lock, messageWaiting, message, at, msg, read, shown>>

(* Mutant of PutsHead: messageWaiting is reset before puts has finished.   *)
ResetAndPutsHead ==
  /\ main = "head"
  /\ main' = "tail"
  /\ read' = message[1]
  /\ messageWaiting' = FALSE
  /\ UNCHANGED <<lock, message, at, msg, shown>>

PutsHead ==
  /\ main = "head"
  /\ main' = "tail"
  /\ read' = message[1]
  /\ UNCHANGED <<lock, messageWaiting, message, at, msg, shown>>

PutsTail ==
  /\ main = "tail"
  /\ main' = "clear"
  /\ shown' = <<read, message[2]>>
  /\ UNCHANGED <<lock, messageWaiting, message, at, msg, read>>

Clear ==
  /\ main = "clear"
  /\ main' = "look"
  /\ messageWaiting' = FALSE
  /\ UNCHANGED <<lock, message, at, msg, read, shown>>
-----------------------------------------------------------------------------
Message(t) ==
  \/ Enter(t)
  \/ Check(t)
  \/ CopyHead(t)
  \/ CopyTail(t)
  \/ SetWaiting(t)
  \/ Leave(t)

MainLoop == Look \/ PutsHead \/ PutsTail \/ Clear

Next ==
  \/ \E t \in Threads : Message(t) \/ \E l \in Lines : Call(t, l)
  \/ MainLoop

Spec == Init /\ [][Next]_vars

(* The scheduler runs every thread, and whoever waits for the critical     *)
(* section gets it in the end although others come back to it.             *)
FairSpec ==
  Spec /\ \A t \in Threads : WF_vars(Message(t)) /\ SF_vars(Enter(t))
-----------------------------------------------------------------------------
(* Properties *)

(* The flag alone keeps the main thread and the writers apart, although    *)
(* the main thread reads it, prints and resets it outside of the critical  *)
(* section (178-182): nobody writes while a line waits or is printed.      *)
WritersKeepOut ==
  \A t \in Threads : at[t] \in Writing => ~messageWaiting /\ main = "look"

(* So the console is a slot as PrintSlot describes it: what is printed     *)
(* is a line some thread stored, whole, and it is printed once.            *)
Slot ==
  INSTANCE PrintSlot WITH
    slot    <- IF messageWaiting THEN message ELSE NoText,
    printed <- main = "clear",
    out     <- shown

SlotSpec == Slot!Spec

(* Every call of Message() returns: a callback is never held up by the     *)
(* console, whether its line is stored or dropped, and even if the main    *)
(* thread does not print.                                                  *)
CallReturns == \A t \in Threads : (at[t] # "out") ~> (at[t] = "out")
=============================================================================
