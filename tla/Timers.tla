------------------------------- MODULE Timers -------------------------------
(***************************************************************************)
(* What nWorld promises to the events of the simulation: an event is armed *)
(* for at most one moment, arming it again replaces that moment, it may be *)
(* called off, and once simulation time has passed the moment it rings,    *)
(* once, the events that were due earlier before it.                       *)
(***************************************************************************)
EXTENDS Integers

CONSTANTS
  Events,   \* the nSimEvent objects
  Delays,   \* the delays they are launched with
  Times,    \* the values of simulation time
  Silence   \* no event rings

VARIABLES
  due,      \* a function from the events that are armed to their moments
  now,      \* simulation time
  rung      \* the event CheckQueue let ring last, Silence outside of it

timers == <<due, now, rung>>

Init ==
  /\ due = [e \in {} |-> 0]
  /\ now = 0
  /\ rung = Silence

Without(e) == [f \in DOMAIN due \ {e} |-> due[f]]

Arm(e, d) ==
  /\ d > 0
  /\ due' = [f \in DOMAIN due \cup {e} |-> IF f = e THEN now + d ELSE due[f]]
  /\ UNCHANGED <<now, rung>>

CallOff(e) ==
  /\ e \in DOMAIN due
  /\ due' = Without(e)
  /\ UNCHANGED <<now, rung>>

Ring(e) ==
  /\ e \in DOMAIN due
  /\ due[e] < now
  /\ \A f \in DOMAIN due : due[e] <= due[f]
  /\ due' = Without(e)
  /\ rung' = e
  /\ UNCHANGED now

Hush ==
  /\ rung' = Silence
  /\ UNCHANGED <<due, now>>

SetClock(t) ==
  /\ now' = t
  /\ UNCHANGED <<due, rung>>

Next ==
  \/ \E e \in Events : CallOff(e) \/ Ring(e) \/ \E d \in Delays : Arm(e, d)
  \/ Hush
  \/ \E t \in Times : SetClock(t)

Spec == Init /\ [][Next]_timers
=============================================================================
