-------------------------- MODULE SimEvents_proofs --------------------------
(***************************************************************************)
(* Proofs about SimEvents, for any scenery: the queue and the iterators of *)
(* the events agree, whatever scripts, states and events launch, launch    *)
(* again, abort or rewire while they call one another; the variables keep  *)
(* their types; an event that relaunches itself never ceases to; and a     *)
(* button that is held is forgotten only because another is pressed.       *)
(*                                                                         *)
(* QueueIndexed needs that a launch on the stack, in refNext or in an      *)
(* eventsMap names an event and a delay that is not negative; Wired says   *)
(* so.  The types of the rest, the states of the holders above all, need   *)
(* both and are proved after it.  The last two are about calls that have   *)
(* not returned: what they will do when they do makes up for what is not   *)
(* so while they are under way.                                            *)
(***************************************************************************)
EXTENDS SimEvents, SequenceTheorems, FiniteSetTheorems, WellFoundedInduction, TLAPS

QueueTypeOK ==
  /\ simTime \in Nat
  /\ queue \subseteq Nat \X Events
  /\ iterator \in [Events -> Nat]
  /\ inQueue \in [Events -> BOOLEAN]

Wired ==
  /\ next \in [Events -> Launch \cup {NoEvent}]
  /\ DOMAIN eventsMap = Holders
  /\ \A h \in Holders : \A s \in DOMAIN eventsMap[h] : eventsMap[h][s] \in Launch
  /\ pressed \in Holders \cup {NoHolder}
  /\ stack \in Seq(Frame)

IInv == QueueTypeOK /\ Wired /\ QueueIndexed

LEMMA InitIInv == Init => IInv
<1> SUFFICES ASSUME Init PROVE IInv
  OBVIOUS
<1>1. QueueTypeOK
  BY DEF Init, QueueTypeOK
<1>2. Wired
  BY SceneryAssumption DEF Init, Wired
<1>3. QueueIndexed
  BY DEF Init, QueueIndexed
<1> QED
  BY <1>1, <1>2, <1>3 DEF IInv

(* QueueIndexed, element by element.                                       *)
EntryAsPointed ==
  \A t \in Nat, e \in Events :
    <<t, e>> \in queue <=> inQueue[e] /\ iterator[e] = t

LEMMA Indexed == QueueTypeOK => (QueueIndexed <=> EntryAsPointed)
<1> SUFFICES ASSUME QueueTypeOK PROVE QueueIndexed <=> EntryAsPointed
  OBVIOUS
<1>1. ASSUME QueueIndexed, NEW t \in Nat, NEW e \in Events
      PROVE  <<t, e>> \in queue <=> inQueue[e] /\ iterator[e] = t
  BY <1>1 DEF QueueIndexed
<1>2. ASSUME EntryAsPointed PROVE QueueIndexed
  <2>1. ASSUME NEW x \in queue
        PROVE  x \in {<<iterator[e], e>> : e \in {f \in Events : inQueue[f]}}
    <3>1. PICK t \in Nat, e \in Events : x = <<t, e>>
      BY DEF QueueTypeOK
    <3> QED
      BY <3>1, <1>2 DEF EntryAsPointed
  <2>2. ASSUME NEW e \in {f \in Events : inQueue[f]}
        PROVE  <<iterator[e], e>> \in queue
    BY <1>2 DEF QueueTypeOK, EntryAsPointed
  <2> QED
    BY <2>1, <2>2 DEF QueueIndexed
<1> QED
  BY <1>1, <1>2 DEF EntryAsPointed

LEMMA IndexedNext == QueueTypeOK' => (QueueIndexed' <=> EntryAsPointed')
  BY Indexed, PTL

(* abort() and the loop of CheckQueue: e is taken out of the queue, and    *)
(* only e.                                                                 *)
LEMMA RemoveKeeps ==
  ASSUME QueueTypeOK, QueueIndexed, simTime' \in Nat,
         NEW e \in Events, RemoveFromQueue(e)
  PROVE  QueueTypeOK' /\ QueueIndexed'
<1>1. QueueTypeOK'
  BY DEF QueueTypeOK, RemoveFromQueue, Dequeued
<1>2. ASSUME NEW t \in Nat, NEW f \in Events
      PROVE  <<t, f>> \in queue' <=> inQueue'[f] /\ iterator'[f] = t
  <2>1. <<t, f>> \in queue <=> inQueue[f] /\ iterator[f] = t
    BY Indexed DEF EntryAsPointed
  <2>2. <<t, f>> \in Dequeued(e) <=> <<t, f>> \in queue /\ f # e
    BY <2>1 DEF Dequeued
  <2> QED
    BY <2>1, <2>2 DEF RemoveFromQueue, QueueTypeOK
<1> QED
  BY <1>1, <1>2, IndexedNext DEF EntryAsPointed

(* Execute(delay): whatever entry e had is replaced.                       *)
LEMMA ExecuteKeeps ==
  ASSUME QueueTypeOK, QueueIndexed, simTime' \in Nat,
         NEW e \in Events, NEW delay \in Nat, NEW callers \in Seq(Frame),
         Execute(e, delay, callers)
  PROVE  QueueTypeOK' /\ QueueIndexed' /\ stack' \in Seq(Frame)
<1>1. CASE delay > 0
  <2> DEFINE due == simTime + delay
  <2>1. /\ queue' = Dequeued(e) \cup {<<due, e>>}
        /\ iterator' = [iterator EXCEPT ![e] = due]
        /\ inQueue' = [inQueue EXCEPT ![e] = TRUE]
        /\ stack' = callers
    BY <1>1 DEF Execute
  <2>2. due \in Nat
    BY DEF QueueTypeOK
  <2>3. QueueTypeOK'
    <3>1. Dequeued(e) \subseteq Nat \X Events
      BY DEF QueueTypeOK, Dequeued
    <3>2. queue' \subseteq Nat \X Events
      BY <2>1, <2>2, <3>1
    <3> QED
      BY <2>1, <2>2, <3>2 DEF QueueTypeOK
  <2>4. ASSUME NEW t \in Nat, NEW f \in Events
        PROVE  <<t, f>> \in queue' <=> inQueue'[f] /\ iterator'[f] = t
    <3>1. <<t, f>> \in queue <=> inQueue[f] /\ iterator[f] = t
      BY Indexed DEF EntryAsPointed
    <3>2. <<t, f>> \in Dequeued(e) <=> <<t, f>> \in queue /\ f # e
      BY <3>1 DEF Dequeued
    <3>3. CASE f = e
      BY <2>1, <3>2, <3>3 DEF QueueTypeOK
    <3>4. CASE f # e
      BY <2>1, <3>1, <3>2, <3>4 DEF QueueTypeOK
    <3> QED
      BY <3>3, <3>4
  <2> QED
    BY <2>1, <2>3, <2>4, IndexedNext DEF EntryAsPointed
<1>2. CASE ~(delay > 0)
  <2>1. RemoveFromQueue(e) /\ stack' = <<BodyOf(e)>> \o callers
    BY <1>2 DEF Execute
  <2>2. <<BodyOf(e)>> \in Seq(Frame)
    BY DEF BodyOf, Frame
  <2> QED
    BY <2>1, <2>2, RemoveKeeps, ConcatProperties
<1> QED
  BY <1>1, <1>2

(* A step that leaves the queue alone.                                     *)
LEMMA IdleKeeps ==
  ASSUME QueueTypeOK, QueueIndexed, simTime' \in Nat, UNCHANGED queueVars
  PROVE  QueueTypeOK' /\ QueueIndexed'
  BY DEF QueueTypeOK, QueueIndexed, queueVars

LEMMA Pushed ==
  ASSUME NEW f \in Frame, NEW callers \in Seq(Frame)
  PROVE  <<f>> \o callers \in Seq(Frame)
  BY ConcatProperties

LEMMA SetStateKeeps ==
  ASSUME IInv, simTime' \in Nat, NEW h \in Holders, NEW s,
         NEW callers \in Seq(Frame), SetState(h, s, callers)
  PROVE  QueueTypeOK' /\ QueueIndexed' /\ stack' \in Seq(Frame)
<1> DEFINE end == [do |-> "state", holder |-> h]
           to  == eventsMap[h][s]
<1>1. end \in Frame
  BY DEF Frame
<1>2. <<end>> \o callers \in Seq(Frame)
  BY <1>1, Pushed
<1>3. QueueTypeOK /\ QueueIndexed
  BY DEF IInv
<1>4. CASE s \in DOMAIN eventsMap[h]
  <2>1. Execute(to[1], to[2], <<end>> \o callers)
    BY <1>4 DEF SetState
  <2>2. to[1] \in Events /\ to[2] \in Nat
    BY <1>4, SceneryAssumption DEF IInv, Wired, Launch
  <2> QED
    BY <2>1, <2>2, <1>2, <1>3, ExecuteKeeps
<1>5. CASE s \notin DOMAIN eventsMap[h]
  <2>1. stack' = <<end>> \o callers /\ UNCHANGED queueVars
    BY <1>5 DEF SetState
  <2> QED
    BY <2>1, <1>2, <1>3, IdleKeeps
<1> QED
  BY <1>4, <1>5

(* setlaunchevent, addstate and setmomentary                               *)
LEMMA WireKeeps ==
  ASSUME IInv, NEW c \in Commands, Wire(c), UNCHANGED <<pressed, queueVars, simTime>>,
         stack' \in Seq(Frame)
  PROVE  IInv'
<1>0. c \in Command /\ Wired /\ QueueTypeOK /\ QueueIndexed
  BY SceneryAssumption DEF IInv
<1>1. QueueTypeOK' /\ QueueIndexed'
  BY <1>0, IdleKeeps DEF QueueTypeOK
<1>2. CASE c.op = "setlaunchevent"
  <2>1. c.ev \in Events /\ c.to \in Launch
    BY <1>0, <1>2 DEF Command
  <2>2. next' = [next EXCEPT ![c.ev] = c.to] /\ UNCHANGED eventsMap
    BY <1>2 DEF Wire
  <2> QED
    BY <1>0, <1>1, <2>1, <2>2 DEF Wired, IInv
<1>3. CASE c.op = "addstate"
  <2>1. c.holder \in Holders /\ c.to \in Launch
    BY <1>0, <1>3 DEF Command
  <2> DEFINE m == [s \in DOMAIN eventsMap[c.holder] \cup {c.state} |->
                     IF s = c.state THEN c.to ELSE eventsMap[c.holder][s]]
  <2>2. eventsMap' = [eventsMap EXCEPT ![c.holder] = m] /\ UNCHANGED next
    BY <1>3 DEF Wire
  <2>3. \A s \in DOMAIN m : m[s] \in Launch
    BY <1>0, <2>1 DEF Wired
  <2> HIDE DEF m
  <2>4. DOMAIN eventsMap' = Holders
    BY <1>0, <2>2 DEF Wired
  <2>5. \A h \in Holders : eventsMap'[h] = IF h = c.holder THEN m ELSE eventsMap[h]
    BY <1>0, <2>2 DEF Wired
  <2>6. ASSUME NEW h \in Holders, NEW s \in DOMAIN eventsMap'[h]
        PROVE  eventsMap'[h][s] \in Launch
    BY <1>0, <2>3, <2>5 DEF Wired
  <2> QED
    BY <1>0, <1>1, <2>2, <2>4, <2>6 DEF Wired, IInv
<1>4. CASE c.op = "setmomentary"
  BY <1>0, <1>1, <1>4 DEF Wire, Wired, IInv
<1> QED
  BY <1>2, <1>3, <1>4 DEF Wire

(* Every command keeps the queue in order, with the callers typed.         *)
LEMMA CallKeeps ==
  ASSUME IInv, NEW c \in Commands, NEW callers \in Seq(Frame), Call(c, callers)
  PROVE  IInv'
<1>0. c \in Command /\ Wired /\ QueueTypeOK /\ QueueIndexed
  BY SceneryAssumption DEF IInv
<1>a. ASSUME UNCHANGED wireVars, UNCHANGED pressed, stack' \in Seq(Frame),
             QueueTypeOK', QueueIndexed'
      PROVE  IInv'
  BY <1>a, <1>0 DEF wireVars, Wired, IInv
<1>1. CASE c.op = "exec"
  <2>1. c.ev \in Events /\ c.delay \in Nat
    BY <1>0, <1>1, SceneryAssumption DEF Command
  <2>2. /\ Execute(c.ev, c.delay, callers)
        /\ UNCHANGED <<simTime, wireVars, pressed>>
    BY <1>1 DEF Call, Wire, heldVars
  <2> QED
    BY <2>1, <2>2, <1>0, <1>a, ExecuteKeeps DEF QueueTypeOK
<1>2. CASE c.op = "abort"
  <2>1. c.ev \in Events
    BY <1>0, <1>2 DEF Command
  <2>2. /\ RemoveFromQueue(c.ev) /\ stack' = callers
        /\ UNCHANGED <<simTime, wireVars, pressed>>
    BY <1>2 DEF Call, Wire, heldVars
  <2> QED
    BY <2>1, <2>2, <1>0, <1>a, RemoveKeeps DEF QueueTypeOK
<1>3. CASE c.op \in {"setlaunchevent", "addstate", "setmomentary"}
  <2>1. Wire(c) /\ stack' = callers /\ UNCHANGED <<pressed, queueVars, simTime>>
    BY <1>3 DEF Call, heldVars
  <2> QED
    BY <2>1, WireKeeps
<1>4. CASE c.op \in {"setstate", "changestate"}
  <2>1. c.holder \in Holders
    BY <1>0, <1>4 DEF Command
  <2>2. /\ \E s : SetState(c.holder, s, callers)
        /\ UNCHANGED <<simTime, wireVars, pressed>>
    BY <1>4 DEF Call, Wire
  <2> QED
    BY <2>1, <2>2, <1>0, <1>a, SetStateKeeps DEF QueueTypeOK
<1>5. CASE c.op = "releasemomentary"
  <2> DEFINE end == [do |-> "release"]
  <2>1. UNCHANGED <<simTime, wireVars, pressed>>
    BY <1>5 DEF Call, Wire
  <2>2. CASE pressed = NoHolder
    <3>1. stack' = callers /\ UNCHANGED queueVars
      BY <1>5, <2>2 DEF Call, Wire
    <3> QED
      BY <3>1, <2>1, <1>0, <1>a, IdleKeeps DEF QueueTypeOK
  <2>3. CASE pressed # NoHolder
    <3>1. SetState(pressed, 0, <<end>> \o callers)
      BY <1>5, <2>3 DEF Call, Wire
    <3>2. pressed \in Holders /\ <<end>> \o callers \in Seq(Frame)
      <4>1. end \in Frame
        BY DEF Frame
      <4> QED
        BY <4>1, <1>0, <2>3, Pushed DEF Wired
    <3> QED
      BY <3>1, <3>2, <2>1, <1>0, <1>a, SetStateKeeps DEF QueueTypeOK
  <2> QED
    BY <2>2, <2>3
<1>6. CASE c.op = "setsimtime"
  <2>1. /\ simTime' = c.time /\ stack' = callers
        /\ UNCHANGED <<queueVars, wireVars, pressed>>
    BY <1>6 DEF Call, Wire, heldVars
  <2>2. simTime' \in Nat
    BY <1>0, <1>6, <2>1, SceneryAssumption DEF Command, Times
  <2> QED
    BY <2>1, <2>2, <1>0, <1>a, IdleKeeps
<1>7. CASE c.op = "ask"
  <2>1. stack' = callers /\ UNCHANGED <<simTime, queueVars, wireVars, pressed>>
    BY <1>7 DEF Call, Wire, heldVars
  <2> QED
    BY <2>1, <1>0, <1>a, IdleKeeps DEF QueueTypeOK
<1> QED
  BY <1>0, <1>1, <1>2, <1>3, <1>4, <1>5, <1>6, <1>7 DEF Command

-----------------------------------------------------------------------------
LEMMA RunTopKeeps ==
  ASSUME IInv, RunTop PROVE IInv'
<1>0. Wired /\ QueueTypeOK /\ QueueIndexed
  BY DEF IInv
<1>a. ASSUME UNCHANGED wireVars, pressed' \in Holders \cup {NoHolder},
             stack' \in Seq(Frame), QueueTypeOK', QueueIndexed'
      PROVE  IInv'
  BY <1>a, <1>0 DEF wireVars, Wired, IInv
<1>b. stack # <<>> => Head(stack) \in Frame /\ Tail(stack) \in Seq(Frame)
  BY <1>0 DEF Wired
<1>c. UNCHANGED <<simTime, queueVars>> => QueueTypeOK' /\ QueueIndexed'
  BY <1>0, IdleKeeps DEF QueueTypeOK
<1>1. CASE RunCommand
  <2> DEFINE f == Head(stack)
             g == [f EXCEPT !.at = @ + 1]
             c == Body[f.ev][f.at]
  <2>1. f \in Frame /\ f.do = "body" /\ Tail(stack) \in Seq(Frame)
    BY <1>1, <1>b DEF RunCommand, Top
  <2>2. f.ev \in Events /\ f.at \in Nat \ {0} /\ g \in Frame
    BY <2>1 DEF Frame
  <2>3. f.at <= Len(Body[f.ev]) /\ Call(c, <<g>> \o Tail(stack))
    BY <1>1 DEF RunCommand
  <2>4. c \in Commands
    BY <2>2, <2>3, SceneryAssumption
  <2> QED
    BY <2>1, <2>2, <2>3, <2>4, Pushed, CallKeeps
<1>2. CASE Refuse
  BY <1>0, <1>2, <1>a, <1>b, <1>c DEF Refuse, Top, heldVars, Wired
<1>3. CASE LaunchNext
  <2> DEFINE f == Head(stack)
             to == next[f.ev]
  <2>1. f \in Frame /\ f.do = "body" /\ Tail(stack) \in Seq(Frame)
    BY <1>3, <1>b DEF LaunchNext, Top
  <2>2. f.ev \in Events
    BY <2>1 DEF Frame
  <2>3. UNCHANGED <<simTime, wireVars, pressed>>
    BY <1>3 DEF LaunchNext, heldVars
  <2>4. CASE to = NoEvent
    <3>1. stack' = Tail(stack) /\ UNCHANGED queueVars
      BY <1>3, <2>4 DEF LaunchNext
    <3> QED
      BY <3>1, <2>1, <2>3, <1>0, <1>a, <1>c DEF Wired
  <2>5. CASE to # NoEvent
    <3>1. Execute(to[1], to[2], Tail(stack))
      BY <1>3, <2>5 DEF LaunchNext
    <3>2. to[1] \in Events /\ to[2] \in Nat
      BY <1>0, <2>2, <2>5, SceneryAssumption DEF Wired, Launch
    <3> QED
      BY <3>1, <3>2, <2>1, <2>3, <1>0, <1>a, ExecuteKeeps DEF QueueTypeOK, Wired
  <2> QED
    BY <2>4, <2>5
<1>4. CASE EndSetState
  <2>1. Head(stack) \in Frame /\ Head(stack).do = "state"
    BY <1>4, <1>b DEF EndSetState, Top
  <2>2. Head(stack).holder \in Holders
    BY <2>1 DEF Frame
  <2>3. pressed' \in Holders \cup {NoHolder}
    BY <1>0, <1>4, <2>2 DEF EndSetState, Wired
  <2> QED
    BY <1>4, <2>3, <1>a, <1>b, <1>c DEF EndSetState, Top
<1>5. CASE EndRelease
  BY <1>5, <1>a, <1>b, <1>c DEF EndRelease, Top
<1>6. CASE RingNext
  <2>1. PICK x \in queue :
          /\ RemoveFromQueue(x[2])
          /\ stack' = <<BodyOf(x[2]), [do |-> "queue", ev |-> x[2]]>> \o Tail(stack)
    BY <1>6 DEF RingNext
  <2>2. x[2] \in Events
    BY <1>0 DEF QueueTypeOK
  <2>3. <<BodyOf(x[2]), [do |-> "queue", ev |-> x[2]]>> \in Seq(Frame)
    BY <2>2 DEF BodyOf, Frame
  <2>4. stack' \in Seq(Frame)
    BY <2>1, <2>3, <1>6, <1>b, ConcatProperties DEF RingNext, Top
  <2>5. UNCHANGED <<simTime, wireVars, pressed>>
    BY <1>6 DEF RingNext, heldVars
  <2> QED
    BY <2>1, <2>2, <2>4, <2>5, <1>0, <1>a, RemoveKeeps DEF QueueTypeOK, Wired
<1>7. CASE EndCheckQueue
  BY <1>0, <1>7, <1>a, <1>b, <1>c DEF EndCheckQueue, Top, heldVars, Wired
<1> QED
  BY <1>1, <1>2, <1>3, <1>4, <1>5, <1>6, <1>7 DEF RunTop

LEMMA FrameLoopKeeps ==
  ASSUME IInv,
         \/ \E c \in Commands : Input(c)
         \/ \E dt \in FrameTimes : StartUpdate(dt)
         \/ \E e \in Events : ExecuteDirectly(e) \/ \E d \in Delays : Depart(e, d)
         \/ CheckQueue
  PROVE  IInv'
<1>0. Wired /\ QueueTypeOK /\ QueueIndexed /\ <<>> \in Seq(Frame)
  BY DEF IInv
<1>a. ASSUME UNCHANGED wireVars, UNCHANGED pressed, stack' \in Seq(Frame),
             QueueTypeOK', QueueIndexed'
      PROVE  IInv'
  BY <1>a, <1>0 DEF wireVars, Wired, IInv
<1>1. ASSUME NEW c \in Commands, Input(c) PROVE IInv'
  BY <1>0, <1>1, CallKeeps DEF Input
<1>2. ASSUME NEW dt \in FrameTimes, StartUpdate(dt) PROVE IInv'
  <2>1. simTime' \in Nat
    BY <1>0, <1>2, SceneryAssumption DEF StartUpdate, QueueTypeOK
  <2> QED
    BY <1>0, <1>2, <1>a, <2>1, IdleKeeps DEF StartUpdate, heldVars
<1>3. ASSUME NEW e \in Events, ExecuteDirectly(e) PROVE IInv'
  <2>1. <<BodyOf(e)>> \in Seq(Frame)
    BY DEF BodyOf, Frame
  <2> QED
    BY <1>0, <1>3, <1>a, <2>1, IdleKeeps DEF ExecuteDirectly, heldVars, QueueTypeOK
<1>4. ASSUME NEW e \in Events, NEW d \in Delays, Depart(e, d) PROVE IInv'
  BY <1>0, <1>4, <1>a, ExecuteKeeps, SceneryAssumption
     DEF Depart, heldVars, QueueTypeOK
<1>5. CASE CheckQueue
  <2>1. <<[do |-> "queue", ev |-> NoEvent]>> \in Seq(Frame)
    BY DEF Frame
  <2> QED
    BY <1>0, <1>5, <1>a, <2>1, IdleKeeps DEF CheckQueue, heldVars, QueueTypeOK
<1> QED
  BY <1>1, <1>2, <1>3, <1>4, <1>5

LEMMA NextIInv == IInv /\ [Next]_vars => IInv'
<1> SUFFICES ASSUME IInv, [Next]_vars PROVE IInv'
  OBVIOUS
<1>1. CASE UNCHANGED vars
  BY <1>1 DEF vars, queueVars, wireVars, heldVars, IInv, QueueTypeOK, Wired,
     QueueIndexed
<1> QED
  BY <1>1, RunTopKeeps, FrameLoopKeeps DEF Next

(* The queue of the world and the iterators of the events agree in every   *)
(* scenery: erase (298-301) only gets iterators of entries that exist.     *)
THEOREM QueueAndIteratorsAgree == Spec => []QueueIndexed
<1>1. IInv => QueueIndexed
  BY DEF IInv
<1> QED
  BY <1>1, InitIInv, NextIInv, PTL DEF Spec

-----------------------------------------------------------------------------
(* The rest of the types.  That a state is never negative needs that the   *)
(* eventsMap of a holder has a last entry, as ChangeState expects.         *)
HoldersOK ==
  /\ momentary \in [Holders -> BOOLEAN]
  /\ state \in [Holders -> Nat]
  /\ \A h \in Holders : DOMAIN eventsMap[h] \subseteq States /\ DOMAIN eventsMap[h] # {}

LoopOK == simTime \in Times /\ result \in BOOLEAN /\ phase \in {"input", "update"}

TypeInv == IInv /\ HoldersOK /\ LoopOK

(* A finite set of numbers has a largest one: that with the fewest above.  *)
LEMMA Largest ==
  ASSUME NEW S, S \subseteq Nat, IsFiniteSet(S), S # {}
  PROVE  Max(S) \in S
<1> DEFINE above(x) == {y \in S : y > x}
           T == {above(x) : x \in S}
<1>1. T \subseteq FiniteSubsetsOf(S) /\ T # {}
  <2>1. \A x \in S : above(x) \in SUBSET S /\ IsFiniteSet(above(x))
    BY FS_Subset
  <2> QED
    BY <2>1 DEF FiniteSubsetsOf
<1>2. PICK A \in T : \A B \in T : ~(<<B, A>> \in StrictSubsetOrdering(S))
  BY <1>1, FS_StrictSubsetOrderingWellFounded, WFMin
<1>3. PICK x \in S : A = above(x)
  BY <1>2
<1>4. ASSUME NEW y \in S, y > x PROVE FALSE
  <2>1. x \in Nat /\ y \in Nat /\ \A z \in S : z \in Nat
    OBVIOUS
  <2>2. \A z \in S : z > y => z > x
    BY <1>4, <2>1
  <2>3. y \in above(x) /\ y \notin above(y) /\ above(y) \subseteq above(x)
    <3>1. ~(y > y)
      BY <2>1
    <3> QED
      BY <1>4, <2>2, <3>1, Zenon
  <2>4. <<above(y), above(x)>> \in StrictSubsetOrdering(S)
    BY <2>3 DEF StrictSubsetOrdering
  <2> QED
    BY <1>2, <1>3, <2>4
<1>5. \A y \in S : x >= y
  BY <1>4
<1> QED
  BY <1>5 DEF Max

LEMMA StateNatural ==
  ASSUME TypeInv, NEW h \in Holders, NEW by \in Int, NEW rot
  PROVE  ChangedState(h, by, rot) \in Nat
<1> DEFINE D == DOMAIN eventsMap[h]
           s == state[h] + by
           n == Max(D) + 1
<1>1. D \subseteq Nat /\ IsFiniteSet(D) /\ D # {}
  <2>1. D \in SUBSET States /\ D # {}
    BY DEF TypeInv, HoldersOK
  <2> QED
    BY <2>1, FS_Subset, SceneryAssumption
<1>2. n \in Nat \ {0}
  BY <1>1, Largest
<1>3. s \in Int
  BY DEF TypeInv, HoldersOK
<1>4. s % n \in Nat
  BY <1>2, <1>3
<1>5. Min({s, n}) \in Int
  BY <1>2, <1>3 DEF Min
<1>6. Max({0, Min({s, n})}) \in Nat
  <2> DEFINE m == Min({s, n})
  <2> HIDE DEF m
  <2>1. m \in Int
    BY <1>5 DEF m
  <2>2. Max({0, m}) \in Nat
    BY <2>1 DEF Max
  <2> QED
    BY <2>2 DEF m
<1> QED
  BY <1>4, <1>6 DEF ChangedState

LEMMA ExecuteAnswers ==
  ASSUME result \in BOOLEAN, NEW e, NEW delay, NEW callers, Execute(e, delay, callers)
  PROVE  result' \in BOOLEAN
BY DEF Execute

LEMMA SetStateTypes ==
  ASSUME TypeInv, NEW h \in Holders, NEW s \in Nat, NEW callers,
         SetState(h, s, callers)
  PROVE  state' \in [Holders -> Nat] /\ result' \in BOOLEAN
<1>1. state' \in [Holders -> Nat]
  BY DEF TypeInv, HoldersOK, SetState
<1>2. result \in BOOLEAN
  BY DEF TypeInv, LoopOK
<1>3. result' \in BOOLEAN
  BY <1>2, ExecuteAnswers DEF SetState
<1> QED
  BY <1>1, <1>3

LEMMA WireTypes ==
  ASSUME TypeInv, NEW c \in Commands, Wire(c), UNCHANGED state
  PROVE  HoldersOK'
<1>0. c \in Command /\ HoldersOK /\ Wired
  BY SceneryAssumption DEF TypeInv, IInv
<1>1. CASE c.op = "setlaunchevent"
  BY <1>0, <1>1 DEF Wire, HoldersOK
<1>2. CASE c.op = "addstate"
  <2>1. c.holder \in Holders /\ c.state \in States
    BY <1>0, <1>2 DEF Command
  <2> DEFINE m == [s \in DOMAIN eventsMap[c.holder] \cup {c.state} |->
                     IF s = c.state THEN c.to ELSE eventsMap[c.holder][s]]
  <2>2. eventsMap' = [eventsMap EXCEPT ![c.holder] = m] /\ UNCHANGED momentary
    BY <1>2 DEF Wire
  <2>3. DOMAIN m \subseteq States /\ DOMAIN m # {}
    BY <1>0, <2>1 DEF HoldersOK
  <2> HIDE DEF m
  <2>4. \A h \in Holders : eventsMap'[h] = IF h = c.holder THEN m ELSE eventsMap[h]
    BY <1>0, <2>2 DEF Wired
  <2> QED
    BY <1>0, <2>2, <2>3, <2>4 DEF HoldersOK
<1>3. CASE c.op = "setmomentary"
  <2>1. c.on \in BOOLEAN
    BY <1>0, <1>3 DEF Command
  <2>2. momentary' = [momentary EXCEPT ![c.holder] = c.on] /\ UNCHANGED eventsMap
    BY <1>3 DEF Wire
  <2> QED
    BY <1>0, <2>1, <2>2 DEF HoldersOK
<1> QED
  BY <1>1, <1>2, <1>3 DEF Wire

LEMMA CallTypes ==
  ASSUME TypeInv, NEW c \in Commands, NEW callers, Call(c, callers)
  PROVE  HoldersOK' /\ simTime' \in Times /\ result' \in BOOLEAN
<1>0. c \in Command /\ HoldersOK /\ LoopOK /\ Wired
  BY SceneryAssumption DEF TypeInv, IInv
<1>a. ASSUME UNCHANGED wireVars, state' \in [Holders -> Nat] PROVE HoldersOK'
  BY <1>0, <1>a DEF HoldersOK, wireVars
<1>1. CASE c.op = "exec"
  <2>1. /\ Execute(c.ev, c.delay, callers)
        /\ UNCHANGED <<simTime, wireVars, state>>
    BY <1>1 DEF Call, Wire, heldVars
  <2> QED
    BY <1>0, <1>a, <2>1, ExecuteAnswers DEF HoldersOK, LoopOK
<1>2. CASE c.op = "abort"
  <2>1. UNCHANGED <<simTime, wireVars, state, result>>
    BY <1>2 DEF Call, Wire, heldVars
  <2> QED
    BY <1>0, <1>a, <2>1 DEF HoldersOK, LoopOK
<1>3. CASE c.op \in {"setlaunchevent", "addstate", "setmomentary"}
  <2>1. Wire(c) /\ UNCHANGED <<simTime, state, result>>
    BY <1>3 DEF Call, heldVars
  <2> QED
    BY <1>0, <2>1, WireTypes DEF LoopOK
<1>4. CASE c.op = "setstate"
  <2>1. c.holder \in Holders /\ c.state \in Nat
    BY <1>0, <1>4, SceneryAssumption DEF Command
  <2>2. SetState(c.holder, c.state, callers) /\ UNCHANGED <<simTime, wireVars>>
    BY <1>4 DEF Call, Wire
  <2> QED
    BY <1>0, <1>a, <2>1, <2>2, SetStateTypes DEF LoopOK
<1>5. CASE c.op = "changestate"
  <2>1. c.holder \in Holders /\ c.by \in Int
    BY <1>0, <1>5 DEF Command
  <2>2. /\ SetState(c.holder, ChangedState(c.holder, c.by, c.rot), callers)
        /\ UNCHANGED <<simTime, wireVars>>
    BY <1>5 DEF Call, Wire
  <2>3. ChangedState(c.holder, c.by, c.rot) \in Nat
    BY <2>1, StateNatural
  <2> QED
    BY <1>0, <1>a, <2>1, <2>2, <2>3, SetStateTypes DEF LoopOK
<1>6. CASE c.op = "releasemomentary"
  <2>1. UNCHANGED <<simTime, wireVars>>
    BY <1>6 DEF Call, Wire
  <2>2. CASE pressed = NoHolder
    <3>1. UNCHANGED <<state, result>>
      BY <1>6, <2>2 DEF Call, Wire
    <3> QED
      BY <1>0, <1>a, <2>1, <3>1 DEF HoldersOK, LoopOK
  <2>3. CASE pressed # NoHolder
    <3>1. pressed \in Holders
      BY <1>0, <2>3 DEF Wired
    <3>2. SetState(pressed, 0, <<[do |-> "release"]>> \o callers)
      BY <1>6, <2>3 DEF Call, Wire
    <3> QED
      BY <1>0, <1>a, <2>1, <3>1, <3>2, SetStateTypes DEF LoopOK
  <2> QED
    BY <2>2, <2>3
<1>7. CASE c.op = "setsimtime"
  <2>1. simTime' = c.time /\ UNCHANGED <<wireVars, state, result>>
    BY <1>7 DEF Call, Wire, heldVars
  <2>2. c.time \in Times
    BY <1>0, <1>7 DEF Command
  <2> QED
    BY <1>0, <1>a, <2>1, <2>2 DEF HoldersOK, LoopOK
<1>8. CASE c.op = "ask"
  <2>1. result' \in BOOLEAN /\ UNCHANGED <<simTime, wireVars, state>>
    BY <1>8 DEF Call, Wire, heldVars
  <2> QED
    BY <1>0, <1>a, <2>1 DEF HoldersOK, LoopOK
<1> QED
  BY <1>0, <1>1, <1>2, <1>3, <1>4, <1>5, <1>6, <1>7, <1>8 DEF Command

LEMMA NextTypeInv == TypeInv /\ [Next]_vars => TypeInv'
<1> SUFFICES ASSUME TypeInv, [Next]_vars PROVE TypeInv'
  OBVIOUS
<1>0. IInv /\ HoldersOK /\ LoopOK
  BY DEF TypeInv
<1>1. IInv'
  BY <1>0, NextIInv
<1>2. ASSUME UNCHANGED <<wireVars, state>> PROVE HoldersOK'
  BY <1>0, <1>2 DEF HoldersOK, wireVars
<1>3. CASE UNCHANGED vars
  BY <1>0, <1>1, <1>2, <1>3 DEF vars, heldVars, LoopOK, TypeInv
<1>4. CASE RunCommand
  <2> DEFINE f == Head(stack)
  <2>1. /\ f.at <= Len(Body[f.ev]) /\ UNCHANGED phase
        /\ Call(Body[f.ev][f.at], <<[f EXCEPT !.at = @ + 1]>> \o Tail(stack))
    BY <1>4 DEF RunCommand
  <2>2. f \in Frame /\ f.do = "body"
    BY <1>0, <1>4, HeadTailProperties DEF RunCommand, Top, IInv, Wired
  <2>3. f.ev \in Events /\ f.at \in Nat \ {0}
    BY <2>2 DEF Frame
  <2>4. Body[f.ev][f.at] \in Commands
    <3>1. Body[f.ev] \in Seq(Commands)
      BY <2>3, SceneryAssumption
    <3> QED
      BY <2>1, <2>3, <3>1, ElementOfSeq, LenProperties
  <2>5. HoldersOK' /\ simTime' \in Times /\ result' \in BOOLEAN
    BY <2>1, <2>4, CallTypes
  <2> QED
    BY <1>0, <1>1, <2>1, <2>5 DEF TypeInv, LoopOK
<1>5. CASE Refuse \/ EndSetState \/ EndRelease \/ RingNext \/ EndCheckQueue
  <2>1. UNCHANGED <<wireVars, state, simTime, result, phase>>
    BY <1>5 DEF Refuse, EndSetState, EndRelease, RingNext, EndCheckQueue, heldVars
  <2> QED
    BY <1>0, <1>1, <1>2, <2>1 DEF TypeInv, LoopOK
<1>6. CASE LaunchNext
  <2>1. UNCHANGED <<wireVars, state, simTime, phase>>
    BY <1>6 DEF LaunchNext, heldVars
  <2>2. result' \in BOOLEAN
    BY <1>0, <1>6, ExecuteAnswers DEF LaunchNext, LoopOK
  <2> QED
    BY <1>0, <1>1, <1>2, <2>1, <2>2 DEF TypeInv, LoopOK
<1>7. ASSUME NEW c \in Commands, Input(c) PROVE TypeInv'
  <2>1. HoldersOK' /\ simTime' \in Times /\ result' \in BOOLEAN /\ UNCHANGED phase
    BY <1>7, CallTypes DEF Input
  <2> QED
    BY <1>0, <1>1, <2>1 DEF TypeInv, LoopOK
<1>8. ASSUME NEW dt \in FrameTimes, StartUpdate(dt) PROVE TypeInv'
  <2>1. UNCHANGED <<wireVars, state, result>> /\ phase' = "update"
    BY <1>8 DEF StartUpdate, heldVars
  <2>2. simTime' \in Times
    BY <1>0, <1>8, SceneryAssumption DEF StartUpdate, LoopOK, Times
  <2> QED
    BY <1>1, <1>2, <1>0, <2>1, <2>2 DEF TypeInv, LoopOK
<1>9. ASSUME NEW e \in Events, ExecuteDirectly(e) \/ \E d \in Delays : Depart(e, d)
      PROVE  TypeInv'
  <2>1. UNCHANGED <<wireVars, state, simTime, phase>>
    BY <1>9 DEF ExecuteDirectly, Depart, heldVars
  <2>2. result' \in BOOLEAN
    BY <1>0, <1>9, ExecuteAnswers DEF ExecuteDirectly, Depart, LoopOK
  <2> QED
    BY <1>0, <1>1, <1>2, <2>1, <2>2 DEF TypeInv, LoopOK
<1>10. CASE CheckQueue
  <2>1. UNCHANGED <<wireVars, state, simTime, result>> /\ phase' = "input"
    BY <1>10 DEF CheckQueue, heldVars
  <2> QED
    BY <1>0, <1>1, <1>2, <2>1 DEF TypeInv, LoopOK
<1> QED
  BY <1>3, <1>4, <1>5, <1>6, <1>7, <1>8, <1>9, <1>10 DEF Next, RunTop

LEMMA InitTypeInv == Init => TypeInv
<1> SUFFICES ASSUME Init PROVE TypeInv
  OBVIOUS
<1>1. HoldersOK
  BY SceneryAssumption DEF Init, HoldersOK
<1>2. LoopOK
  BY SceneryAssumption DEF Init, LoopOK, Times
<1> QED
  BY <1>1, <1>2, InitIInv DEF TypeInv

(* Times, queue, wiring and calls keep their types in every scenery; the   *)
(* state of a holder in particular is never negative, however events and   *)
(* scripts turn it by ChangeState while they rewire its eventsMap.         *)
THEOREM TypeCorrect == Spec => []TypeOK
<1>1. TypeInv => TypeOK
  BY DEF TypeInv, IInv, QueueTypeOK, Wired, HoldersOK, LoopOK, TypeOK
<1> QED
  BY <1>1, InitTypeInv, NextTypeInv, PTL DEF Spec

-----------------------------------------------------------------------------
(* What is on the stack: a call puts frames on it, a return takes the head *)
(* off.                                                                    *)
LEMMA OnTop ==
  ASSUME NEW f \in Frame, NEW calls \in Seq(Frame)
  PROVE  Range(<<f>> \o calls) = {f} \cup Range(calls)
<1>1. <<f>> \in Seq(Frame)
  OBVIOUS
<1>2. Range(<<f>>) = {f}
  <2>1. DOMAIN <<f>> = {1} /\ <<f>>[1] = f
    OBVIOUS
  <2> QED
    BY <2>1 DEF Range
<1> DEFINE one == <<f>>
<1> HIDE DEF one
<1>3. Range(one \o calls) = Range(one) \cup Range(calls)
  BY <1>1, RangeConcatenation DEF one
<1> QED
  BY <1>2, <1>3 DEF one

LEMMA TopAndRest ==
  ASSUME NEW calls \in Seq(Frame), calls # <<>>
  PROVE  /\ Head(calls) \in Frame /\ Tail(calls) \in Seq(Frame)
         /\ Range(calls) = {Head(calls)} \cup Range(Tail(calls))
<1>1. /\ Head(calls) \in Frame /\ Tail(calls) \in Seq(Frame)
      /\ calls = <<Head(calls)>> \o Tail(calls)
  OBVIOUS
<1> HIDE DEF Range
<1> QED
  BY <1>1, OnTop

LEMMA NothingRuns == Range(<<>>) = {}
  BY DEF Range

(* Whatever Execute, SetState or a command pushes, the callers stay, and   *)
(* what it pushes is the body of an event or the end of a SetState or      *)
(* ReleaseMomentary it names.                                              *)
LEMMA ExecutePushes ==
  ASSUME IInv, NEW e \in Events, NEW delay \in Nat, NEW callers \in Seq(Frame),
         Execute(e, delay, callers)
  PROVE  /\ stack' \in Seq(Frame)
         /\ \/ delay > 0 /\ Range(stack') = Range(callers)
            \/ delay = 0 /\ Range(stack') = {BodyOf(e)} \cup Range(callers)
         /\ \A x \in Events \ {e} : inQueue'[x] = inQueue[x]
         /\ delay > 0 => inQueue'[e]
<1>0. inQueue \in [Events -> BOOLEAN]
  BY DEF IInv, QueueTypeOK
<1>1. CASE delay > 0
  <2>1. stack' = callers /\ inQueue' = [inQueue EXCEPT ![e] = TRUE]
    BY <1>1 DEF Execute
  <2> QED
    BY <1>0, <1>1, <2>1
<1>2. CASE ~(delay > 0)
  <2>1. RemoveFromQueue(e) /\ stack' = <<BodyOf(e)>> \o callers /\ delay = 0
    BY <1>2 DEF Execute
  <2>2. BodyOf(e) \in Frame
    BY DEF BodyOf, Frame
  <2>3. stack' \in Seq(Frame) /\ Range(stack') = {BodyOf(e)} \cup Range(callers)
    BY <2>1, <2>2, OnTop, Pushed
  <2>4. \A x \in Events \ {e} : inQueue'[x] = inQueue[x]
    BY <1>0, <2>1 DEF RemoveFromQueue
  <2> QED
    BY <1>2, <2>1, <2>3, <2>4
<1> QED
  BY <1>1, <1>2

LEMMA SetStatePushes ==
  ASSUME IInv, NEW h \in Holders, NEW s, NEW callers \in Seq(Frame),
         SetState(h, s, callers)
  PROVE  /\ [do |-> "state", holder |-> h] \in Range(stack')
         /\ Range(callers) \subseteq Range(stack')
         /\ \A f \in Range(stack') :
              \/ f \in Range(callers)
              \/ f = [do |-> "state", holder |-> h]
              \/ f.do = "body"
<1> DEFINE end   == [do |-> "state", holder |-> h]
           calls == <<end>> \o callers
           to    == eventsMap[h][s]
<1>1. end \in Frame
  BY DEF Frame
<1>2. calls \in Seq(Frame) /\ Range(calls) = {end} \cup Range(callers)
  BY <1>1, OnTop, Pushed
<1> HIDE DEF calls
<1>3. CASE s \in DOMAIN eventsMap[h]
  <2>1. Execute(to[1], to[2], calls)
    BY <1>3 DEF SetState, calls
  <2>2. to[1] \in Events /\ to[2] \in Nat
    BY <1>3, SceneryAssumption DEF IInv, Wired, Launch
  <2>3. \/ Range(stack') = Range(calls)
        \/ Range(stack') = {BodyOf(to[1])} \cup Range(calls)
    BY <2>1, <2>2, <1>2, ExecutePushes
  <2>4. BodyOf(to[1]).do = "body"
    BY DEF BodyOf
  <2> QED
    BY <2>3, <2>4, <1>2
<1>4. CASE s \notin DOMAIN eventsMap[h]
  BY <1>2, <1>4 DEF SetState, calls
<1> QED
  BY <1>3, <1>4

-----------------------------------------------------------------------------
(* Events that repeat.  One that is launched waits in the queue or its     *)
(* commands are under way, at the end of which it launches itself.         *)
RunsBody(f, e) == f.do = "body" /\ f.ev = e /\ f.at <= Len(Body[e]) + 1

Runs(e, calls) == \E f \in Range(calls) : RunsBody(f, e)

Kept(e, calls) == inQueue[e] \/ Runs(e, calls)

RepeatInv == \A e \in Perpetual : next[e] = Launches[e]

LEMMA PerpetualIs ==
  ASSUME NEW e \in Perpetual
  PROVE  /\ e \in Events /\ Body[e] \in Seq(Commands) /\ Len(Body[e]) \in Nat
         /\ Launches[e] # NoEvent /\ Launches[e][1] = e
         /\ Launches[e][2] \in Nat /\ Launches[e][2] > 0
         /\ \A i \in 1..Len(Body[e]) : ~Boolean(Body[e][i])
         /\ \A c \in Commands : c.op \in {"abort", "setlaunchevent"} => c.ev # e
<1>1. e \in Events /\ Body[e] \in Seq(Commands) /\ Launches[e] \in Launch \cup {NoEvent}
  BY SceneryAssumption DEF Perpetual
<1>2. Len(Body[e]) \in Nat /\ DOMAIN Body[e] = 1..Len(Body[e])
  BY <1>1, LenProperties
<1>3. Launches[e] # NoEvent /\ Launches[e][1] = e /\ Launches[e][2] > 0
  BY DEF Perpetual
<1>4. Launches[e][2] \in Nat
  BY <1>1, <1>3, SceneryAssumption DEF Launch
<1> QED
  BY <1>1, <1>2, <1>3, <1>4 DEF Perpetual

LEMMA ExecuteRepeats ==
  ASSUME IInv, NEW e \in Perpetual, NEW x \in Events, NEW delay \in Nat,
         NEW callers \in Seq(Frame), Execute(x, delay, callers), Kept(e, callers)
  PROVE  Kept(e, stack)'
<1>1. inQueue \in [Events -> BOOLEAN] /\ e \in Events
  BY PerpetualIs DEF IInv, QueueTypeOK
<1>2. /\ \/ delay > 0 /\ Range(stack') = Range(callers)
         \/ delay = 0 /\ Range(stack') = {BodyOf(x)} \cup Range(callers)
      /\ x # e => inQueue'[e] = inQueue[e]
      /\ delay > 0 => inQueue'[x]
  BY <1>1, ExecutePushes
<1>3. RunsBody(BodyOf(e), e)
  BY PerpetualIs DEF RunsBody, BodyOf
<1> QED
  BY <1>2, <1>3 DEF Kept, Runs

LEMMA SetStateRepeats ==
  ASSUME IInv, NEW e \in Perpetual, NEW h \in Holders, NEW s,
         NEW callers \in Seq(Frame), SetState(h, s, callers), Kept(e, callers)
  PROVE  Kept(e, stack)'
<1> DEFINE end   == [do |-> "state", holder |-> h]
           calls == <<end>> \o callers
           to    == eventsMap[h][s]
<1>1. end \in Frame
  BY DEF Frame
<1>2. calls \in Seq(Frame) /\ Range(calls) = {end} \cup Range(callers)
  BY <1>1, OnTop, Pushed
<1>3. Kept(e, calls)
  BY <1>2 DEF Kept, Runs
<1> HIDE DEF calls
<1>4. CASE s \in DOMAIN eventsMap[h]
  <2>1. Execute(to[1], to[2], calls)
    BY <1>4 DEF SetState, calls
  <2>2. to[1] \in Events /\ to[2] \in Nat
    BY <1>4, SceneryAssumption DEF IInv, Wired, Launch
  <2> QED
    BY <2>1, <2>2, <1>2, <1>3, ExecuteRepeats
<1>5. CASE s \notin DOMAIN eventsMap[h]
  <2>1. stack' = calls /\ UNCHANGED inQueue
    BY <1>5 DEF SetState, calls, queueVars
  <2> QED
    BY <2>1, <1>3 DEF Kept
<1> QED
  BY <1>4, <1>5

(* No command takes a perpetual event from the queue, or its next launch.  *)
LEMMA CallRepeats ==
  ASSUME IInv, RepeatInv, NEW e \in Perpetual, NEW c \in Commands,
         NEW callers \in Seq(Frame), Call(c, callers), Kept(e, callers)
  PROVE  Kept(e, stack)'
<1>0. c \in Command /\ Wired /\ QueueTypeOK /\ next[e] = Launches[e] /\ e \in Events
  BY SceneryAssumption, PerpetualIs DEF IInv, RepeatInv
<1>a. ASSUME stack' = callers, UNCHANGED inQueue PROVE Kept(e, stack)'
  BY <1>a DEF Kept
<1>1. CASE c.op = "exec"
  <2>1. c.ev \in Events /\ c.delay \in Nat
    BY <1>0, <1>1, SceneryAssumption DEF Command
  <2>2. Execute(c.ev, c.delay, callers)
    BY <1>1 DEF Call, Wire
  <2> QED
    BY <2>1, <2>2, <1>0, ExecuteRepeats
<1>2. CASE c.op = "abort"
  <2>1. c.ev \in Events /\ c.ev # e
    BY <1>0, <1>2, PerpetualIs DEF Command
  <2>2. RemoveFromQueue(c.ev) /\ stack' = callers
    BY <1>2 DEF Call, Wire
  <2> QED
    BY <2>1, <2>2, <1>0 DEF RemoveFromQueue, Kept, QueueTypeOK
<1>3. CASE c.op \in {"setlaunchevent", "addstate", "setmomentary"}
  <2>1. Wire(c) /\ stack' = callers /\ UNCHANGED inQueue
    BY <1>3 DEF Call, queueVars
  <2> QED
    BY <2>1, <1>a
<1>4. CASE c.op \in {"setstate", "changestate"}
  <2>1. c.holder \in Holders
    BY <1>0, <1>4 DEF Command
  <2>2. (\E s : SetState(c.holder, s, callers))
    BY <1>4 DEF Call, Wire
  <2> QED
    BY <2>1, <2>2, <1>0, SetStateRepeats
<1>5. CASE c.op = "releasemomentary"
  <2> DEFINE end == [do |-> "release"]
  <2>2. CASE pressed = NoHolder
    <3>1. stack' = callers /\ UNCHANGED inQueue
      BY <1>5, <2>2 DEF Call, Wire, queueVars
    <3> QED
      BY <3>1, <1>a
  <2>3. CASE pressed # NoHolder
    <3>1. SetState(pressed, 0, <<end>> \o callers)
      BY <1>5, <2>3 DEF Call, Wire
    <3>2. end \in Frame /\ pressed \in Holders
      BY <1>0, <2>3 DEF Frame, Wired
    <3>3. /\ <<end>> \o callers \in Seq(Frame)
          /\ Range(<<end>> \o callers) = {end} \cup Range(callers)
      BY <3>2, OnTop, Pushed
    <3>4. Kept(e, <<end>> \o callers)
      BY <3>3 DEF Kept, Runs
    <3> QED
      BY <3>1, <3>2, <3>3, <3>4, SetStateRepeats
  <2> QED
    BY <2>2, <2>3
<1>6. CASE c.op \in {"setsimtime", "ask"}
  <2>1. stack' = callers /\ UNCHANGED inQueue
    BY <1>6 DEF Call, Wire, queueVars
  <2> QED
    BY <2>1, <1>0, <1>a
<1> QED
  BY <1>0, <1>1, <1>2, <1>3, <1>4, <1>5, <1>6 DEF Command

LEMMA RunTopRepeats ==
  ASSUME IInv, RepeatInv, NEW e \in Perpetual, RunTop, Kept(e, stack)
  PROVE  Kept(e, stack)'
<1> DEFINE f == Head(stack)
           rest == Tail(stack)
<1>0. /\ Wired /\ QueueTypeOK /\ stack # <<>>
      /\ f \in Frame /\ rest \in Seq(Frame) /\ Range(stack) = {f} \cup Range(rest)
      /\ next[e] = Launches[e] /\ e \in Events
  <2>1. stack # <<>>
    BY DEF RunTop, RunCommand, Refuse, LaunchNext, EndSetState, EndRelease, RingNext,
       EndCheckQueue, Top
  <2>2. stack \in Seq(Frame) /\ Wired /\ QueueTypeOK
    BY DEF IInv, Wired
  <2> QED
    BY <2>1, <2>2, TopAndRest, PerpetualIs DEF RepeatInv
<1> HIDE DEF f, rest
<1>1. RunsBody(f, e) \/ Kept(e, rest)
  BY <1>0 DEF Kept, Runs
<1>a. ASSUME stack' = rest, UNCHANGED inQueue, ~RunsBody(f, e)
      PROVE  Kept(e, stack)'
  BY <1>a, <1>0, <1>1 DEF Kept
<1>b. f.do # "body" => ~RunsBody(f, e)
  BY DEF RunsBody
<1>2. CASE RunCommand
  <2> DEFINE g == [f EXCEPT !.at = @ + 1]
             c == Body[f.ev][f.at]
             calls == <<g>> \o rest
  <2>1. f.do = "body" /\ f.at <= Len(Body[f.ev]) /\ Call(c, calls)
    BY <1>2 DEF RunCommand, Top, f, rest
  <2>2. f.ev \in Events /\ f.at \in Nat \ {0} /\ g \in Frame
    BY <2>1, <1>0 DEF Frame
  <2>3. c \in Commands
    BY <2>1, <2>2, SceneryAssumption
  <2>4. calls \in Seq(Frame) /\ Range(calls) = {g} \cup Range(rest)
    BY <2>2, <1>0, OnTop, Pushed
  <2>5. RunsBody(f, e) => RunsBody(g, e)
    <3>1. g.do = f.do /\ g.ev = f.ev /\ g.at = f.at + 1
      BY <2>1, <2>2, <1>0 DEF Frame
    <3> QED
      BY <3>1, <2>1, <2>2, PerpetualIs DEF RunsBody
  <2>6. Kept(e, calls)
    BY <1>1, <2>4, <2>5 DEF Kept, Runs
  <2> HIDE DEF calls, c
  <2> QED
    BY <2>1, <2>3, <2>4, <2>6, CallRepeats
<1>3. CASE Refuse
  <2>1. f.do = "body" /\ Refused(f) /\ stack' = rest /\ UNCHANGED inQueue
    BY <1>3 DEF Refuse, Top, f, rest, queueVars
  <2>2. f.at \in Nat
    BY <2>1, <1>0 DEF Frame
  <2>3. ~RunsBody(f, e)
    <3>1. SUFFICES ASSUME RunsBody(f, e) PROVE FALSE
      OBVIOUS
    <3>2. f.ev = e /\ f.at - 1 \in 1..Len(Body[e])
      BY <3>1, <2>1, <2>2, PerpetualIs DEF RunsBody, Refused
    <3> QED
      BY <3>2, <2>1, PerpetualIs DEF Refused
  <2> QED
    BY <2>1, <2>3, <1>a
<1>4. CASE LaunchNext
  <2> DEFINE to == next[f.ev]
  <2>1. f.do = "body"
    BY <1>4 DEF LaunchNext, Top, f
  <2>2. f.ev \in Events
    BY <2>1, <1>0 DEF Frame
  <2>3. CASE to = NoEvent
    <3>1. stack' = rest /\ UNCHANGED inQueue
      BY <1>4, <2>3 DEF LaunchNext, f, rest, queueVars
    <3>2. ~RunsBody(f, e)
      BY <2>3, <1>0, PerpetualIs DEF RunsBody
    <3> QED
      BY <3>1, <3>2, <2>1, <1>a
  <2>4. CASE to # NoEvent
    <3>1. Execute(to[1], to[2], rest)
      BY <1>4, <2>4 DEF LaunchNext, f, rest
    <3>2. to[1] \in Events /\ to[2] \in Nat
      BY <1>0, <2>2, <2>4, SceneryAssumption DEF Wired, Launch
    <3>3. CASE RunsBody(f, e)
      <4>1. to[1] = e /\ to[2] > 0
        BY <3>3, <1>0, PerpetualIs DEF RunsBody
      <4>2. inQueue'[e]
        BY <4>1, <3>1, <3>2, <1>0, ExecutePushes
      <4> QED
        BY <4>2, <2>1, <1>0 DEF Kept
    <3>4. CASE ~RunsBody(f, e)
      BY <3>1, <3>2, <3>4, <2>1, <1>0, <1>1, ExecuteRepeats
    <3> QED
      BY <3>3, <3>4
  <2> QED
    BY <2>3, <2>4
<1>5. CASE EndSetState \/ EndRelease \/ EndCheckQueue
  <2>1. f.do # "body" /\ stack' = rest /\ UNCHANGED inQueue
    BY <1>5 DEF EndSetState, EndRelease, EndCheckQueue, Top, f, rest, queueVars
  <2> QED
    BY <2>1, <1>a, <1>b
<1>6. CASE RingNext
  <2>1. PICK x \in queue :
          /\ RemoveFromQueue(x[2])
          /\ stack' = <<BodyOf(x[2]), [do |-> "queue", ev |-> x[2]]>> \o rest
    BY <1>6 DEF RingNext, rest
  <2> DEFINE loop == [do |-> "queue", ev |-> x[2]]
             two  == <<BodyOf(x[2]), loop>>
  <2>2. x[2] \in Events /\ f.do # "body"
    BY <1>0, <1>6 DEF QueueTypeOK, RingNext, Top, f
  <2>3. two \in Seq(Frame) /\ BodyOf(x[2]) \in Range(two)
    <3>1. two \in Seq(Frame)
      BY <2>2 DEF BodyOf, Frame
    <3>2. 1 \in DOMAIN two /\ two[1] = BodyOf(x[2])
      OBVIOUS
    <3> QED
      BY <3>1, <3>2 DEF Range
  <2> HIDE DEF two
  <2>4. Range(stack') = Range(two) \cup Range(rest)
    BY <2>1, <2>3, <1>0, RangeConcatenation DEF two
  <2>5. CASE x[2] = e
    <3>1. RunsBody(BodyOf(e), e)
      BY PerpetualIs DEF RunsBody, BodyOf
    <3> QED
      BY <3>1, <2>2, <2>3, <2>4, <2>5, <1>0 DEF Kept, Runs
  <2>6. CASE x[2] # e
    <3>1. inQueue'[e] = inQueue[e]
      BY <1>0, <2>1, <2>6 DEF RemoveFromQueue, QueueTypeOK
    <3> QED
      BY <3>1, <2>2, <2>4, <1>0, <1>1, <1>b DEF Kept, Runs
  <2> QED
    BY <2>5, <2>6
<1> QED
  BY <1>2, <1>3, <1>4, <1>5, <1>6 DEF RunTop

LEMMA FrameLoopRepeats ==
  ASSUME IInv, RepeatInv, NEW e \in Perpetual, Kept(e, stack),
         \/ \E c \in Commands : Input(c)
         \/ \E dt \in FrameTimes : StartUpdate(dt)
         \/ \E x \in Events : ExecuteDirectly(x) \/ \E d \in Delays : Depart(x, d)
         \/ CheckQueue
  PROVE  Kept(e, stack)'
<1>0. /\ next[e] = Launches[e] /\ <<>> \in Seq(Frame)
      /\ stack = <<>> => inQueue[e] /\ Kept(e, <<>>)
  BY NothingRuns DEF RepeatInv, Kept, Runs
<1>1. ASSUME NEW c \in Commands, Input(c) PROVE Kept(e, stack)'
  BY <1>0, <1>1, CallRepeats DEF Input
<1>2. ASSUME NEW x \in Events, NEW d \in Delays, Depart(x, d)
      PROVE  Kept(e, stack)'
  <2>1. Execute(x, d, <<>>) /\ stack = <<>> /\ d \in Nat
    BY <1>2, SceneryAssumption DEF Depart
  <2> QED
    BY <2>1, <1>0, ExecuteRepeats
<1>3. CASE \/ \E dt \in FrameTimes : StartUpdate(dt)
           \/ \E x \in Events : ExecuteDirectly(x)
           \/ CheckQueue
  <2>1. stack = <<>> /\ UNCHANGED inQueue
    BY <1>3 DEF StartUpdate, ExecuteDirectly, CheckQueue, queueVars
  <2> QED
    BY <2>1, <1>0 DEF Kept
<1> QED
  BY <1>1, <1>2, <1>3

(* What a perpetual event launches next is never rewired.                  *)
LEMMA LaunchStays == IInv /\ RepeatInv /\ [Next]_vars => RepeatInv'
<1> SUFFICES ASSUME IInv, RepeatInv, [Next]_vars, NEW e \in Perpetual
             PROVE  next'[e] = next[e]
  BY DEF RepeatInv
<1>1. ASSUME NEW c \in Commands, NEW callers, Call(c, callers) PROVE next'[e] = next[e]
  <2>1. Wire(c) \/ UNCHANGED wireVars
    BY <1>1 DEF Call
  <2>2. CASE Wire(c)
    BY <2>2, PerpetualIs DEF Wire, IInv, Wired
  <2> QED
    BY <2>1, <2>2 DEF wireVars
<1>2. CASE RunCommand
  <2> DEFINE f == Head(stack)
             c == Body[f.ev][f.at]
  <2>1. PICK callers : f.at <= Len(Body[f.ev]) /\ Call(c, callers)
    BY <1>2 DEF RunCommand
  <2>2. f \in Frame /\ f.do = "body"
    BY <1>2, TopAndRest DEF RunCommand, Top, IInv, Wired
  <2>3. f.ev \in Events /\ f.at \in Nat \ {0}
    BY <2>2 DEF Frame
  <2>4. c \in Commands
    BY <2>1, <2>3, SceneryAssumption
  <2> HIDE DEF c
  <2> QED
    BY <2>1, <2>4, <1>1
<1>3. ASSUME NEW c \in Commands, Input(c) PROVE next'[e] = next[e]
  BY <1>1, <1>3 DEF Input
<1>4. CASE UNCHANGED wireVars
  BY <1>4 DEF wireVars
<1>5. CASE UNCHANGED vars
  BY <1>5 DEF vars, wireVars
<1> QED
  BY <1>2, <1>3, <1>4, <1>5 DEF Next, RunTop, Refuse, LaunchNext, EndSetState,
     EndRelease, RingNext, EndCheckQueue, StartUpdate, ExecuteDirectly, Depart,
     CheckQueue

LEMMA NextRepeats ==
  ASSUME IInv, RepeatInv, [Next]_vars, NEW e \in Perpetual, Kept(e, stack)
  PROVE  Kept(e, stack)'
<1>1. CASE UNCHANGED vars
  BY <1>1 DEF vars, queueVars, Kept
<1>2. CASE Next
  BY <1>2, RunTopRepeats, FrameLoopRepeats DEF Next
<1> QED
  BY <1>1, <1>2

(* An event that relaunches itself goes on for ever: removing it from the  *)
(* queue when it rings (306-318) never takes its own next launch away, in  *)
(* any scenery in which nobody stops it.                                   *)
THEOREM Repeats == Spec => KeepsRepeating
<1>1. Init => IInv /\ RepeatInv
  BY InitIInv DEF Init, RepeatInv
<1>2. IInv /\ RepeatInv /\ [Next]_vars => IInv' /\ RepeatInv'
  BY NextIInv, LaunchStays
<1>3. Spec => [](IInv /\ RepeatInv)
  BY <1>1, <1>2, PTL DEF Spec
<1>4. ASSUME NEW e \in Perpetual
      PROVE  Spec => [](inQueue[e] => [](stack = <<>> => inQueue[e]))
  <2>1. inQueue[e] => Kept(e, stack)
    BY DEF Kept
  <2>2. IInv /\ RepeatInv /\ Kept(e, stack) /\ [Next]_vars => Kept(e, stack)'
    BY NextRepeats
  <2>3. Kept(e, stack) => (stack = <<>> => inQueue[e])
    BY NothingRuns DEF Kept, Runs
  <2> QED
    BY <1>3, <2>1, <2>2, <2>3, PTL DEF Spec
<1> QED
  BY <1>4 DEF KeepsRepeating

-----------------------------------------------------------------------------
(* The buttons.  What a step does to the state of the holders shows on the *)
(* stack: SetState has not returned.                                       *)
EndOf(h) == [do |-> "state", holder |-> h]

(* The command an event gives, and who waits for it to return.             *)
LEMMA BodyCommand ==
  ASSUME IInv, RunCommand
  PROVE  /\ Head(stack).do = "body" /\ Head(stack).ev \in Events
         /\ \E i \in DOMAIN Body[Head(stack).ev] : \E g \in Frame :
              /\ g.do = "body" /\ g.ev = Head(stack).ev
              /\ Body[g.ev][i] \in Commands
              /\ <<g>> \o Tail(stack) \in Seq(Frame)
              /\ Call(Body[g.ev][i], <<g>> \o Tail(stack))
<1> DEFINE f == Head(stack)
           g == [f EXCEPT !.at = @ + 1]
<1>1. /\ f \in Frame /\ Tail(stack) \in Seq(Frame)
      /\ f.do = "body" /\ f.at <= Len(Body[f.ev])
      /\ Call(Body[f.ev][f.at], <<g>> \o Tail(stack))
  BY TopAndRest DEF IInv, Wired, RunCommand, Top
<1>2. /\ f.ev \in Events /\ f.at \in Nat \ {0}
      /\ g \in Frame /\ g.do = "body" /\ g.ev = f.ev
  BY <1>1 DEF Frame
<1>3. Body[f.ev] \in Seq(Commands)
  BY <1>2, SceneryAssumption
<1>4. f.at \in DOMAIN Body[f.ev] /\ Body[f.ev][f.at] \in Commands
  BY <1>1, <1>2, <1>3
<1>5. <<g>> \o Tail(stack) \in Seq(Frame)
  BY <1>1, <1>2, Pushed
<1> HIDE DEF f, g
<1> QED
  BY <1>1, <1>2, <1>4, <1>5 DEF f

LEMMA CallShows ==
  ASSUME IInv, HoldersOK, NEW c \in Commands, NEW callers \in Seq(Frame), Call(c, callers)
  PROVE  /\ UNCHANGED pressed /\ Range(callers) \subseteq Range(stack')
         /\ \A h \in Holders : state'[h] # state[h] => SetUnderWay(h)'
<1>0. c \in Command /\ pressed \in Holders \cup {NoHolder} /\ state \in [Holders -> Nat]
  BY SceneryAssumption DEF IInv, Wired, HoldersOK
<1>1. UNCHANGED pressed
  BY <1>0 DEF Call, Wire, heldVars, Command
<1>2. ASSUME NEW g \in Holders, NEW s, NEW calls \in Seq(Frame), SetState(g, s, calls),
             Range(callers) \subseteq Range(calls)
      PROVE  /\ Range(callers) \subseteq Range(stack')
             /\ \A h \in Holders : state'[h] # state[h] => SetUnderWay(h)'
  <2>1. EndOf(g) \in Range(stack') /\ Range(calls) \subseteq Range(stack')
    BY <1>2, SetStatePushes DEF EndOf
  <2>2. \A h \in Holders \ {g} : state'[h] = state[h]
    BY <1>0, <1>2 DEF SetState
  <2> QED
    BY <1>2, <2>1, <2>2 DEF SetUnderWay, EndOf
<1>3. CASE c.op \in {"setstate", "changestate"}
  <2>1. c.holder \in Holders /\ \E s : SetState(c.holder, s, callers)
    BY <1>0, <1>3 DEF Command, Call, Wire
  <2> QED
    BY <2>1, <1>1, <1>2
<1>4. CASE c.op = "releasemomentary" /\ pressed # NoHolder
  <2> DEFINE let == [do |-> "release"]
  <2>1. SetState(pressed, 0, <<let>> \o callers)
    BY <1>4 DEF Call, Wire
  <2>2. let \in Frame /\ pressed \in Holders
    BY <1>0, <1>4 DEF Frame
  <2>3. <<let>> \o callers \in Seq(Frame) /\ Range(callers) \subseteq Range(<<let>> \o callers)
    BY <2>2, OnTop, Pushed
  <2> QED
    BY <2>1, <2>2, <2>3, <1>1, <1>2
<1>5. CASE c.op = "exec"
  <2>1. c.ev \in Events /\ c.delay \in Nat
    BY <1>0, <1>5, SceneryAssumption DEF Command
  <2>2. Execute(c.ev, c.delay, callers) /\ UNCHANGED state
    BY <1>5 DEF Call, Wire, heldVars
  <2>3. Range(callers) \subseteq Range(stack')
    BY <2>1, <2>2, ExecutePushes
  <2> QED
    BY <2>2, <2>3, <1>1
<1>6. CASE \/ c.op \in {"abort", "setlaunchevent", "addstate", "setmomentary"}
           \/ c.op \in {"setsimtime", "ask"}
           \/ c.op = "releasemomentary" /\ pressed = NoHolder
  <2>1. stack' = callers /\ UNCHANGED state
    BY <1>6 DEF Call, Wire, heldVars
  <2> QED
    BY <2>1, <1>1
<1> QED
  BY <1>0, <1>3, <1>4, <1>5, <1>6 DEF Command

(* Only the return of a SetState or of ReleaseMomentary changes pressed, and*)
(* only the first takes the end of a SetState off the stack.               *)
LEMMA StepShows ==
  ASSUME IInv, HoldersOK, Next, ~EndSetState, ~EndRelease
  PROVE  /\ UNCHANGED pressed
         /\ \A h \in Holders : SetUnderWay(h) \/ state'[h] # state[h] => SetUnderWay(h)'
<1> DEFINE f == Head(stack)
           rest == Tail(stack)
<1>0. /\ stack \in Seq(Frame) /\ <<>> \in Seq(Frame)
      /\ next \in [Events -> Launch \cup {NoEvent}] /\ queue \subseteq Nat \X Events
  BY DEF IInv, Wired, QueueTypeOK
<1>a. stack # <<>> => /\ f \in Frame /\ rest \in Seq(Frame)
                      /\ Range(stack) = {f} \cup Range(rest)
  BY <1>0, TopAndRest
<1>b. stack = <<>> => \A h : ~SetUnderWay(h)
  BY NothingRuns DEF SetUnderWay
<1>c. ASSUME UNCHANGED <<pressed, state>>, stack # <<>>, f.do # "state",
             Range(rest) \subseteq Range(stack')
      PROVE  /\ UNCHANGED pressed
             /\ \A h \in Holders : SetUnderWay(h) \/ state'[h] # state[h] => SetUnderWay(h)'
  <2>1. \A h : EndOf(h).do = "state"
    BY DEF EndOf
  <2>2. \A h : EndOf(h) # f
    BY <2>1, <1>c
  <2> HIDE DEF f, rest
  <2> QED
    BY <2>2, <1>a, <1>c DEF SetUnderWay, EndOf
<1>1. CASE RunCommand
  <2>1. PICK i \in DOMAIN Body[f.ev], g \in Frame :
           /\ f.do = "body" /\ Body[g.ev][i] \in Commands
           /\ <<g>> \o rest \in Seq(Frame)
           /\ Call(Body[g.ev][i], <<g>> \o rest)
    BY <1>1, BodyCommand
  <2> DEFINE c == Body[g.ev][i]
             calls == <<g>> \o rest
  <2>2. stack # <<>>
    BY <1>1 DEF RunCommand, Top
  <2>3. Range(rest) \subseteq Range(calls)
    BY <1>a, <2>2, OnTop
  <2> HIDE DEF c, calls, f, rest
  <2>5. /\ UNCHANGED pressed /\ Range(calls) \subseteq Range(stack')
        /\ \A h \in Holders : state'[h] # state[h] => SetUnderWay(h)'
    BY <2>1, CallShows DEF c, calls
  <2>6. \A h : EndOf(h) \in Range(stack) => EndOf(h) \in Range(rest)
    BY <2>1, <2>2, <1>a DEF EndOf
  <2> QED
    BY <2>3, <2>5, <2>6 DEF SetUnderWay, EndOf
<1>2. CASE Refuse \/ EndCheckQueue
  <2>1. /\ UNCHANGED <<pressed, state>> /\ stack # <<>> /\ f.do # "state" /\ stack' = rest
    BY <1>2 DEF Refuse, EndCheckQueue, Top, heldVars
  <2> QED
    BY <2>1, <1>c
<1>3. CASE LaunchNext
  <2> DEFINE to == next[f.ev]
  <2>1. f.do = "body" /\ stack # <<>> /\ UNCHANGED <<pressed, state>>
    BY <1>3 DEF LaunchNext, Top, heldVars
  <2>2. f.ev \in Events
    BY <2>1, <1>a DEF Frame
  <2>3. CASE to = NoEvent
    <3>1. stack' = rest
      BY <1>3, <2>3 DEF LaunchNext
    <3> QED
      BY <3>1, <2>1, <1>c
  <2>4. CASE to # NoEvent
    <3>1. Execute(to[1], to[2], rest)
      BY <1>3, <2>4 DEF LaunchNext
    <3>2. to[1] \in Events /\ to[2] \in Nat
      BY <1>0, <2>2, <2>4, SceneryAssumption DEF Launch
    <3>3. rest \in Seq(Frame)
      BY <2>1, <1>a
    <3> HIDE DEF rest, to
    <3>4. Range(rest) \subseteq Range(stack')
      BY <3>1, <3>2, <3>3, ExecutePushes
    <3> QED
      BY <3>4, <2>1, <1>c
  <2> QED
    BY <2>3, <2>4
<1>4. CASE RingNext
  <2>1. PICK x \in queue :
          stack' = <<BodyOf(x[2]), [do |-> "queue", ev |-> x[2]]>> \o rest
    BY <1>4 DEF RingNext
  <2> DEFINE two == <<BodyOf(x[2]), [do |-> "queue", ev |-> x[2]]>>
  <2>2. x[2] \in Events
    BY <1>0
  <2>3. two \in Seq(Frame)
    BY <2>2 DEF BodyOf, Frame
  <2>4. UNCHANGED <<pressed, state>> /\ stack # <<>> /\ f.do = "queue"
    BY <1>4 DEF RingNext, Top, heldVars
  <2>5. stack' = two \o rest
    BY <2>1
  <2> HIDE DEF two
  <2>6. Range(stack') = Range(two) \cup Range(rest)
    BY <2>3, <2>4, <2>5, <1>a, RangeConcatenation
  <2> QED
    BY <2>4, <2>6, <1>c
<1>5. CASE \E c \in Commands : Input(c)
  <2>1. PICK c \in Commands : stack = <<>> /\ Call(c, <<>>)
    BY <1>5 DEF Input
  <2> QED
    BY <2>1, <1>0, <1>b, CallShows
<1>6. CASE \/ \E dt \in FrameTimes : StartUpdate(dt)
           \/ \E e \in Events : ExecuteDirectly(e) \/ \E d \in Delays : Depart(e, d)
           \/ CheckQueue
  <2>1. stack = <<>> /\ UNCHANGED <<pressed, state>>
    BY <1>6 DEF StartUpdate, ExecuteDirectly, Depart, CheckQueue, heldVars
  <2> QED
    BY <2>1, <1>b
<1> QED
  BY <1>1, <1>2, <1>3, <1>4, <1>5, <1>6 DEF Next, RunTop

(* While ReleaseMomentary has not returned nothing runs above it but the   *)
(* SetState it called and quiet events, so that the button it lets go is   *)
(* still the one pressed names, and up.                                    *)
Releasing(calls) == \E f \in Range(calls) : f.do = "release"

CalmFrame(f, quiet, h) == (f.do = "body" /\ f.ev \in quiet) \/ f = EndOf(h)

Calm(calls, quiet, h) ==
  \A k \in DOMAIN calls :
    calls[k].do = "release" => \A j \in 1..(k - 1) : CalmFrame(calls[j], quiet, h)

QuietlyWired(quiet) ==
  /\ \A h \in Holders : momentary[h] => h \in Momentary
  /\ \A e \in quiet : AtOnce(next[e], quiet)
  /\ \A h \in Momentary :
       0 \in DOMAIN eventsMap[h] => AtOnce(eventsMap[h][0], quiet)

CalmRelease(quiet) ==
  Releasing(stack) => /\ pressed # NoHolder /\ state[pressed] = 0
                      /\ Calm(stack, quiet, pressed)

PressedInv(quiet) ==
  /\ TypeInv
  /\ QuietlyWired(quiet)
  /\ pressed # NoHolder => pressed \in Momentary
  /\ CalmRelease(quiet)

LEMMA CalmPushed ==
  ASSUME NEW quiet, NEW h, NEW calls \in Seq(Frame), NEW f \in Frame,
         Calm(calls, quiet, h), Releasing(calls) => CalmFrame(f, quiet, h)
  PROVE  /\ Calm(<<f>> \o calls, quiet, h)
         /\ Releasing(<<f>> \o calls) <=> f.do = "release" \/ Releasing(calls)
<1> DEFINE more == <<f>> \o calls
<1>1. /\ DOMAIN more = 1..(Len(calls) + 1) /\ Len(calls) \in Nat
      /\ DOMAIN calls = 1..Len(calls)
      /\ more[1] = f /\ \A k \in 2..(Len(calls) + 1) : more[k] = calls[k - 1]
  OBVIOUS
<1>2. Releasing(more) <=> f.do = "release" \/ Releasing(calls)
  BY OnTop DEF Releasing
<1> HIDE DEF more
<1>3. ASSUME NEW k \in DOMAIN more, more[k].do = "release", NEW j \in 1..(k - 1)
      PROVE  CalmFrame(more[j], quiet, h)
  <2>1. k \in 2..(Len(calls) + 1) /\ k - 1 \in DOMAIN calls /\ calls[k - 1].do = "release"
    BY <1>1, <1>3
  <2>2. Releasing(calls)
    BY <2>1 DEF Releasing, Range
  <2>3. CASE j = 1
    BY <1>1, <2>2, <2>3
  <2>4. CASE j # 1
    <3>1. j - 1 \in 1..((k - 1) - 1) /\ more[j] = calls[j - 1]
      BY <1>1, <2>1, <2>4
    <3> QED
      BY <2>1, <3>1 DEF Calm
  <2> QED
    BY <2>3, <2>4
<1>4. Calm(more, quiet, h)
  BY <1>3 DEF Calm
<1> QED
  BY <1>2, <1>4 DEF more

LEMMA CalmPopped ==
  ASSUME NEW quiet, NEW h, NEW calls \in Seq(Frame), calls # <<>>, Calm(calls, quiet, h)
  PROVE  /\ Calm(Tail(calls), quiet, h)
         /\ Releasing(Tail(calls)) => Releasing(calls) /\ CalmFrame(Head(calls), quiet, h)
<1> DEFINE rest == Tail(calls)
<1>1. /\ Len(calls) \in Nat \ {0} /\ DOMAIN calls = 1..Len(calls)
      /\ DOMAIN rest = 1..(Len(calls) - 1) /\ Head(calls) = calls[1]
      /\ \A k \in 1..(Len(calls) - 1) : rest[k] = calls[k + 1]
  OBVIOUS
<1> HIDE DEF rest
<1>2. ASSUME NEW k \in DOMAIN rest, rest[k].do = "release"
      PROVE  /\ Releasing(calls) /\ CalmFrame(Head(calls), quiet, h)
             /\ \A j \in 1..(k - 1) : CalmFrame(rest[j], quiet, h)
  <2>1. k + 1 \in DOMAIN calls /\ calls[k + 1].do = "release"
    BY <1>1, <1>2
  <2>2. \A j \in 1..((k + 1) - 1) : CalmFrame(calls[j], quiet, h)
    BY <2>1 DEF Calm
  <2>3. CalmFrame(calls[1], quiet, h)
    BY <2>2, <1>1
  <2>4. ASSUME NEW j \in 1..(k - 1) PROVE CalmFrame(rest[j], quiet, h)
    <3>1. j + 1 \in 1..((k + 1) - 1) /\ rest[j] = calls[j + 1]
      BY <1>1
    <3> QED
      BY <3>1, <2>2
  <2>5. Releasing(calls)
    BY <2>1 DEF Releasing, Range
  <2> QED
    BY <2>3, <2>4, <2>5, <1>1
<1>3. Calm(rest, quiet, h)
  BY <1>2 DEF Calm
<1>4. Releasing(rest) => Releasing(calls) /\ CalmFrame(Head(calls), quiet, h)
  BY <1>2 DEF Releasing, Range
<1> QED
  BY <1>3, <1>4 DEF rest

LEMMA CalmExecute ==
  ASSUME NEW quiet, NEW h, NEW calls \in Seq(Frame), Calm(calls, quiet, h),
         NEW e \in Events, NEW delay \in Delays, Execute(e, delay, calls),
         Releasing(calls) => AtOnce(<<e, delay>>, quiet)
  PROVE  Calm(stack', quiet, h) /\ (Releasing(stack') => Releasing(calls))
<1>1. CASE delay > 0
  BY <1>1 DEF Execute
<1>2. CASE ~(delay > 0)
  <2>1. stack' = <<BodyOf(e)>> \o calls
    BY <1>2 DEF Execute
  <2>2. BodyOf(e) \in Frame /\ BodyOf(e).do = "body" /\ BodyOf(e).ev = e
    BY DEF BodyOf, Frame
  <2>3. AtOnce(<<e, delay>>, quiet) => e \in quiet
    <3>1. <<e, delay>> # NoEvent
      BY SceneryAssumption DEF Launch
    <3>2. delay = 0
      BY <1>2, SceneryAssumption
    <3> QED
      BY <3>1, <3>2 DEF AtOnce
  <2>4. Releasing(calls) => CalmFrame(BodyOf(e), quiet, h)
    BY <2>2, <2>3 DEF CalmFrame
  <2> QED
    BY <2>1, <2>2, <2>4, CalmPushed
<1> QED
  BY <1>1, <1>2

LEMMA WireQuiet ==
  ASSUME NEW quiet, QuietEvents(quiet), TypeInv, QuietlyWired(quiet),
         NEW c \in Commands, Wire(c)
  PROVE  QuietlyWired(quiet)'
<1>0. /\ c \in Command /\ Momentary \subseteq Holders /\ quiet \subseteq Events
      /\ next \in [Events -> Launch \cup {NoEvent}] /\ DOMAIN eventsMap = Holders
      /\ momentary \in [Holders -> BOOLEAN]
  BY SceneryAssumption DEF TypeInv, IInv, Wired, HoldersOK, QuietEvents
<1>1. CASE c.op = "setlaunchevent"
  <2>1. /\ next' = [next EXCEPT ![c.ev] = c.to] /\ UNCHANGED <<eventsMap, momentary>>
        /\ c.ev \in quiet => AtOnce(c.to, quiet)
    BY <1>1 DEF Wire, QuietEvents
  <2>2. \A e \in quiet : AtOnce(next'[e], quiet)
    BY <2>1, <1>0 DEF QuietlyWired
  <2> QED
    BY <2>1, <2>2 DEF QuietlyWired
<1>2. CASE c.op = "addstate"
  <2> DEFINE old == eventsMap[c.holder]
             more == [s \in DOMAIN old \cup {c.state} |->
                        IF s = c.state THEN c.to ELSE old[s]]
  <2>1. /\ eventsMap' = [eventsMap EXCEPT ![c.holder] = more]
        /\ UNCHANGED <<next, momentary>>
        /\ c.holder \in Momentary /\ c.state = 0 => AtOnce(c.to, quiet)
    BY <1>2 DEF Wire, QuietEvents
  <2>2. ASSUME NEW h \in Momentary, 0 \in DOMAIN eventsMap'[h]
        PROVE  AtOnce(eventsMap'[h][0], quiet)
    <3>1. CASE h # c.holder
      <4>1. eventsMap'[h] = eventsMap[h]
        BY <2>1, <3>1, <1>0
      <4> QED
        BY <4>1, <2>2 DEF QuietlyWired
    <3>2. CASE h = c.holder
      <4>1. eventsMap'[h] = more
        BY <2>1, <3>2, <1>0
      <4>2. CASE c.state = 0
        BY <4>1, <4>2, <3>2, <2>1
      <4>3. CASE c.state # 0
        <5>1. 0 \in DOMAIN old /\ more[0] = old[0]
          BY <4>1, <4>3, <2>2
        <5> QED
          BY <4>1, <5>1, <3>2, <2>2 DEF QuietlyWired
      <4> QED
        BY <4>2, <4>3
    <3> QED
      BY <3>1, <3>2
  <2> QED
    BY <2>1, <2>2 DEF QuietlyWired
<1>3. CASE c.op = "setmomentary"
  <2>1. /\ momentary' = [momentary EXCEPT ![c.holder] = c.on] /\ ~c.on
        /\ UNCHANGED <<next, eventsMap>>
    BY <1>3 DEF Wire, QuietEvents
  <2>2. \A h \in Holders : momentary'[h] => momentary[h]
    BY <2>1, <1>0
  <2> QED
    BY <2>1, <2>2 DEF QuietlyWired
<1> QED
  BY <1>1, <1>2, <1>3 DEF Wire

LEMMA NextQuiet ==
  ASSUME NEW quiet, QuietEvents(quiet), TypeInv, QuietlyWired(quiet), Next
  PROVE  QuietlyWired(quiet)' /\ \A h \in Holders : momentary'[h] => momentary[h]
<1>1. ASSUME NEW c \in Commands, NEW callers, Call(c, callers)
      PROVE  Wire(c) \/ UNCHANGED wireVars
  BY <1>1 DEF Call
<1>2. (\E c \in Commands : Wire(c)) \/ UNCHANGED wireVars
  <2>1. CASE RunCommand
    <3>1. PICK i \in DOMAIN Body[Head(stack).ev], g \in Frame :
            /\ Body[g.ev][i] \in Commands
            /\ Call(Body[g.ev][i], <<g>> \o Tail(stack))
      BY <2>1, BodyCommand DEF TypeInv
    <3> DEFINE c == Body[g.ev][i]
               callers == <<g>> \o Tail(stack)
    <3>2. c \in Commands /\ Call(c, callers)
      BY <3>1
    <3> HIDE DEF c, callers
    <3> QED
      BY <3>2, <1>1
  <2>2. CASE \E c \in Commands : Input(c)
    BY <2>2, <1>1 DEF Input
  <2> QED
    BY <2>1, <2>2 DEF Next, RunTop, Refuse, LaunchNext, EndSetState, EndRelease,
       RingNext, EndCheckQueue, StartUpdate, ExecuteDirectly, Depart, CheckQueue
<1>3. CASE UNCHANGED wireVars
  BY <1>3 DEF wireVars, QuietlyWired
<1>4. ASSUME NEW c \in Commands, Wire(c)
      PROVE  \A h \in Holders : momentary'[h] => momentary[h]
  <2>1. momentary \in [Holders -> BOOLEAN]
    BY DEF TypeInv, HoldersOK
  <2>2. \/ UNCHANGED momentary
        \/ momentary' = [momentary EXCEPT ![c.holder] = c.on] /\ ~c.on
    BY <1>4 DEF Wire, QuietEvents
  <2> QED
    BY <2>1, <2>2
<1>5. UNCHANGED wireVars => \A h \in Holders : momentary'[h] => momentary[h]
  BY DEF wireVars
<1> QED
  BY <1>2, <1>3, <1>4, <1>5, WireQuiet

(* Whoever is being let go, the calls under way stay calm; a button is let *)
(* go only by somebody who is not being let go himself.                    *)
LEMMA CallCalm ==
  ASSUME NEW quiet, QuietEvents(quiet), PressedInv(quiet),
         NEW c \in Commands, NEW callers \in Seq(Frame), Call(c, callers),
         Releasing(callers) =>
           /\ pressed # NoHolder /\ state[pressed] = 0 /\ Calm(callers, quiet, pressed)
           /\ ~Sets(c) /\ (c.op = "exec" => AtOnce(<<c.ev, c.delay>>, quiet))
  PROVE  CalmRelease(quiet)'
<1>0. /\ c \in Command /\ IInv /\ HoldersOK /\ Momentary \subseteq Holders
      /\ pressed \in Holders \cup {NoHolder} /\ state \in [Holders -> Nat]
      /\ UNCHANGED pressed
  BY SceneryAssumption, CallShows DEF PressedInv, TypeInv, IInv, Wired, HoldersOK
<1>1. Calm(callers, quiet, pressed)
  BY DEF Calm, Releasing, Range
<1>2. CASE c.op = "exec"
  <2>1. c.ev \in Events /\ c.delay \in Delays
    BY <1>0, <1>2 DEF Command
  <2>2. Execute(c.ev, c.delay, callers) /\ UNCHANGED state
    BY <1>2 DEF Call, Wire, heldVars
  <2>3. Calm(stack', quiet, pressed) /\ (Releasing(stack') => Releasing(callers))
    BY <2>1, <2>2, <1>1, <1>2, CalmExecute
  <2> QED
    BY <2>2, <2>3, <1>0 DEF CalmRelease
<1>3. CASE c.op \in {"setstate", "changestate"}
  <2>1. ~Releasing(callers)
    BY <1>3 DEF Sets
  <2>2. c.holder \in Holders /\ \E s : SetState(c.holder, s, callers)
    BY <1>0, <1>3 DEF Command, Call, Wire
  <2>3. \A f \in Range(stack') :
          f \in Range(callers) \/ f = EndOf(c.holder) \/ f.do = "body"
    BY <2>2, <1>0, SetStatePushes DEF EndOf
  <2>4. EndOf(c.holder).do = "state"
    BY DEF EndOf
  <2> QED
    BY <2>1, <2>3, <2>4 DEF CalmRelease, Releasing
<1>4. CASE c.op = "releasemomentary" /\ pressed # NoHolder
  <2> DEFINE let == [do |-> "release"]
             end == EndOf(pressed)
             below == <<let>> \o callers
             calls == <<end>> \o below
             to == eventsMap[pressed][0]
  <2>1. SetState(pressed, 0, below)
    BY <1>4 DEF Call, Wire
  <2>2. /\ let \in Frame /\ end \in Frame /\ end.do = "state"
        /\ pressed \in Holders /\ pressed \in Momentary
    BY <1>0, <1>4 DEF Frame, EndOf, PressedInv
  <2>3. ~Releasing(callers)
    BY <1>4 DEF Sets
  <2>4. below \in Seq(Frame) /\ Calm(below, quiet, pressed)
    BY <2>2, <2>3, <1>1, Pushed, CalmPushed
  <2>5. CalmFrame(end, quiet, pressed)
    BY DEF CalmFrame
  <2> HIDE DEF below
  <2>6. calls \in Seq(Frame) /\ Calm(calls, quiet, pressed)
    BY <2>2, <2>4, <2>5, Pushed, CalmPushed
  <2>7. state'[pressed] = 0
    BY <2>1, <2>2, <1>0 DEF SetState
  <2>8. Calm(stack', quiet, pressed)
    <3>1. CASE 0 \in DOMAIN eventsMap[pressed]
      <4>1. Execute(to[1], to[2], calls)
        BY <3>1, <2>1 DEF SetState, EndOf
      <4>2. to \in Launch /\ AtOnce(to, quiet)
        BY <3>1, <2>2, <1>0 DEF IInv, Wired, PressedInv, QuietlyWired
      <4>3. to[1] \in Events /\ to[2] \in Delays /\ to = <<to[1], to[2]>>
        BY <4>2 DEF Launch
      <4> HIDE DEF to, calls
      <4> QED
        BY <4>1, <4>2, <4>3, <2>6, CalmExecute
    <3>2. CASE 0 \notin DOMAIN eventsMap[pressed]
      <4>1. stack' = calls
        BY <3>2, <2>1 DEF SetState, EndOf
      <4> QED
        BY <4>1, <2>6
    <3> QED
      BY <3>1, <3>2
  <2> QED
    BY <2>7, <2>8, <1>0, <1>4 DEF CalmRelease
<1>5. CASE \/ c.op \in {"abort", "setlaunchevent", "addstate", "setmomentary"}
           \/ c.op \in {"setsimtime", "ask"}
           \/ c.op = "releasemomentary" /\ pressed = NoHolder
  <2>1. stack' = callers /\ UNCHANGED state
    BY <1>5 DEF Call, Wire, heldVars
  <2> QED
    BY <2>1, <1>0 DEF CalmRelease
<1> QED
  BY <1>0, <1>2, <1>3, <1>4, <1>5 DEF Command

LEMMA RunTopCalm ==
  ASSUME NEW quiet, QuietEvents(quiet), PressedInv(quiet), RunTop
  PROVE  CalmRelease(quiet)' /\ (pressed' # NoHolder => pressed' \in Momentary)
<1> DEFINE f == Head(stack)
           rest == Tail(stack)
<1>0. /\ stack \in Seq(Frame) /\ stack # <<>> /\ IInv /\ HoldersOK
      /\ next \in [Events -> Launch \cup {NoEvent}] /\ queue \subseteq Nat \X Events
  BY DEF PressedInv, TypeInv, IInv, Wired, QueueTypeOK, RunTop, RunCommand, Refuse, LaunchNext,
     EndSetState, EndRelease, RingNext, EndCheckQueue, Top
<1>1. /\ f \in Frame /\ rest \in Seq(Frame)
      /\ Calm(rest, quiet, pressed)
      /\ Releasing(rest) => /\ pressed # NoHolder /\ state[pressed] = 0
                            /\ CalmFrame(f, quiet, pressed)
  <2>1. Calm(stack, quiet, pressed)
    BY DEF PressedInv, CalmRelease, Calm, Releasing, Range
  <2> QED
    BY <1>0, <2>1, TopAndRest, CalmPopped DEF PressedInv, CalmRelease
<1>2. EndOf(pressed).do = "state"
  BY DEF EndOf
<1>3. pressed # NoHolder => pressed \in Momentary
  BY DEF PressedInv
<1>a. ASSUME stack' = rest, UNCHANGED <<state, pressed>>
      PROVE  CalmRelease(quiet)' /\ (pressed' # NoHolder => pressed' \in Momentary)
  BY <1>a, <1>1, <1>3 DEF CalmRelease
<1>4. CASE RunCommand
  <2>1. PICK i \in DOMAIN Body[f.ev], g \in Frame :
          /\ f.do = "body" /\ f.ev \in Events /\ g.do = "body" /\ g.ev = f.ev
          /\ Body[g.ev][i] \in Commands
          /\ Call(Body[g.ev][i], <<g>> \o rest)
    BY <1>0, <1>4, BodyCommand
  <2> DEFINE c == Body[g.ev][i]
             calls == <<g>> \o rest
  <2>2. Releasing(rest) => g.ev \in quiet
    BY <2>1, <1>1, <1>2 DEF CalmFrame
  <2>3. Releasing(rest) => CalmFrame(g, quiet, pressed)
    BY <2>1, <2>2 DEF CalmFrame
  <2> HIDE DEF f, rest
  <2>4. /\ calls \in Seq(Frame) /\ Calm(calls, quiet, pressed)
        /\ Releasing(calls) => Releasing(rest)
    BY <2>1, <2>3, <1>1, Pushed, CalmPushed
  <2>5. Releasing(rest) => ~Sets(c) /\ (c.op = "exec" => AtOnce(<<c.ev, c.delay>>, quiet))
    BY <2>1, <2>2 DEF QuietEvents
  <2>6. c \in Commands /\ Call(c, calls)
    BY <2>1
  <2> HIDE DEF c, calls
  <2>7. CalmRelease(quiet)'
    BY <2>4, <2>5, <2>6, <1>1, CallCalm
  <2>8. UNCHANGED pressed
    BY <2>4, <2>6, <1>0, CallShows
  <2> QED
    BY <2>7, <2>8, <1>3
<1>5. CASE Refuse \/ EndCheckQueue
  BY <1>5, <1>a DEF Refuse, EndCheckQueue, heldVars
<1>6. CASE LaunchNext
  <2> DEFINE to == next[f.ev]
  <2>1. f.do = "body" /\ UNCHANGED <<state, pressed>>
    BY <1>6 DEF LaunchNext, Top, heldVars
  <2>2. f.ev \in Events
    BY <2>1, <1>1 DEF Frame
  <2>3. CASE to = NoEvent
    <3>1. stack' = rest
      BY <1>6, <2>3 DEF LaunchNext
    <3> QED
      BY <3>1, <2>1, <1>a
  <2>4. CASE to # NoEvent
    <3>1. Execute(to[1], to[2], rest)
      BY <1>6, <2>4 DEF LaunchNext
    <3>2. to \in Launch
      BY <1>0, <2>2, <2>4
    <3>3. Releasing(rest) => AtOnce(to, quiet)
      BY <2>1, <1>1, <1>2 DEF CalmFrame, PressedInv, QuietlyWired
    <3>4. to[1] \in Events /\ to[2] \in Delays /\ to = <<to[1], to[2]>>
      BY <3>2 DEF Launch
    <3> HIDE DEF to, rest, f
    <3>5. Calm(stack', quiet, pressed) /\ (Releasing(stack') => Releasing(rest))
      BY <3>1, <3>3, <3>4, <1>1, CalmExecute
    <3> QED
      BY <3>5, <2>1, <1>1, <1>3 DEF CalmRelease
  <2> QED
    BY <2>3, <2>4
<1>7. CASE EndSetState
  <2>1. f.do = "state" /\ stack' = rest /\ UNCHANGED state
    BY <1>7 DEF EndSetState, Top
  <2>2. f.holder \in Holders
    BY <2>1, <1>1 DEF Frame
  <2>3. pressed' = IF momentary[f.holder] /\ state[f.holder] # 0 THEN f.holder ELSE pressed
    BY <1>7 DEF EndSetState
  <2>4. pressed' # NoHolder => pressed' \in Momentary
    BY <2>2, <2>3, <1>3 DEF PressedInv, QuietlyWired
  <2>5. Releasing(rest) => UNCHANGED pressed
    <3>1. Releasing(rest) => f.holder = pressed /\ state[pressed] = 0
      BY <2>1, <1>1 DEF CalmFrame, EndOf
    <3> QED
      BY <3>1, <2>3
  <2> QED
    BY <2>1, <2>4, <2>5, <1>1 DEF CalmRelease
<1>8. CASE EndRelease
  <2>1. f.do = "release" /\ stack' = rest /\ pressed' = NoHolder
    BY <1>8 DEF EndRelease, Top
  <2>2. ~Releasing(rest)
    BY <2>1, <1>1, <1>2 DEF CalmFrame
  <2> QED
    BY <2>1, <2>2 DEF CalmRelease
<1>9. CASE RingNext
  <2>1. PICK x \in queue :
          stack' = <<BodyOf(x[2]), [do |-> "queue", ev |-> x[2]]>> \o rest
    BY <1>9 DEF RingNext
  <2> DEFINE two == <<BodyOf(x[2]), [do |-> "queue", ev |-> x[2]]>>
  <2>2. UNCHANGED pressed /\ f.do = "queue"
    BY <1>9 DEF RingNext, Top, heldVars
  <2>3. two \in Seq(Frame) /\ \A g \in Range(two) : g.do # "release"
    <3>1. x[2] \in Events
      BY <1>0
    <3>2. two \in Seq(Frame)
      BY <3>1 DEF BodyOf, Frame
    <3>3. DOMAIN two = {1, 2} /\ two[1].do = "body" /\ two[2].do = "queue"
      BY DEF BodyOf
    <3> QED
      BY <3>2, <3>3 DEF Range
  <2>4. ~Releasing(rest)
    BY <2>2, <1>1, <1>2 DEF CalmFrame
  <2>5. stack' = two \o rest
    BY <2>1
  <2> HIDE DEF two, rest
  <2>6. Range(stack') = Range(two) \cup Range(rest)
    BY <2>3, <2>5, <1>1, RangeConcatenation
  <2> QED
    BY <2>2, <2>3, <2>4, <2>6, <1>3 DEF CalmRelease, Releasing
<1> QED
  BY <1>4, <1>5, <1>6, <1>7, <1>8, <1>9 DEF RunTop

LEMMA FrameLoopCalm ==
  ASSUME NEW quiet, QuietEvents(quiet), PressedInv(quiet),
         \/ \E c \in Commands : Input(c)
         \/ \E dt \in FrameTimes : StartUpdate(dt)
         \/ \E e \in Events : ExecuteDirectly(e) \/ \E d \in Delays : Depart(e, d)
         \/ CheckQueue
  PROVE  CalmRelease(quiet)' /\ (pressed' # NoHolder => pressed' \in Momentary)
<1>0. /\ <<>> \in Seq(Frame) /\ IInv /\ HoldersOK /\ ~Releasing(<<>>)
      /\ Calm(<<>>, quiet, pressed) /\ (pressed # NoHolder => pressed \in Momentary)
  BY NothingRuns DEF PressedInv, TypeInv, Releasing, Calm
<1>1. ASSUME ~Releasing(stack'), UNCHANGED pressed
      PROVE  CalmRelease(quiet)' /\ (pressed' # NoHolder => pressed' \in Momentary)
  BY <1>0, <1>1 DEF CalmRelease
<1>2. ASSUME NEW c \in Commands, Input(c)
      PROVE  CalmRelease(quiet)' /\ (pressed' # NoHolder => pressed' \in Momentary)
  <2>1. Call(c, <<>>)
    BY <1>2 DEF Input
  <2> QED
    BY <2>1, <1>0, CallCalm, CallShows
<1>3. CASE \E dt \in FrameTimes : StartUpdate(dt)
  BY <1>0, <1>1, <1>3 DEF StartUpdate, heldVars
<1>4. ASSUME NEW e \in Events, NEW d \in Delays, Depart(e, d)
      PROVE  CalmRelease(quiet)' /\ (pressed' # NoHolder => pressed' \in Momentary)
  <2>1. Execute(e, d, <<>>) /\ UNCHANGED pressed
    BY <1>4 DEF Depart, heldVars
  <2> QED
    BY <2>1, <1>0, <1>1, CalmExecute
<1>5. ASSUME NEW f \in Frame, f.do \in {"body", "queue"}, stack' = <<f>>, UNCHANGED pressed
      PROVE  CalmRelease(quiet)' /\ (pressed' # NoHolder => pressed' \in Momentary)
  <2>1. Range(<<f>> \o <<>>) = {f}
    BY <1>0, OnTop, NothingRuns
  <2>2. <<f>> \o <<>> = <<f>>
    OBVIOUS
  <2> QED
    BY <2>1, <2>2, <1>1, <1>5 DEF Releasing
<1>6. ASSUME NEW e \in Events, ExecuteDirectly(e)
      PROVE  CalmRelease(quiet)' /\ (pressed' # NoHolder => pressed' \in Momentary)
  <2>1. BodyOf(e) \in Frame /\ BodyOf(e).do = "body"
    BY DEF BodyOf, Frame
  <2> QED
    BY <2>1, <1>5, <1>6 DEF ExecuteDirectly, heldVars
<1>7. CASE CheckQueue
  <2> DEFINE loop == [do |-> "queue", ev |-> NoEvent]
  <2>1. loop \in Frame /\ loop.do = "queue"
    BY DEF Frame
  <2> QED
    BY <2>1, <1>5, <1>7 DEF CheckQueue, heldVars
<1> QED
  BY <1>2, <1>3, <1>4, <1>6, <1>7

LEMMA NextPressed ==
  ASSUME NEW quiet, QuietEvents(quiet), PressedInv(quiet), [Next]_vars
  PROVE  PressedInv(quiet)'
<1>1. TypeInv'
  BY NextTypeInv DEF PressedInv
<1>2. CASE UNCHANGED vars
  BY <1>1, <1>2 DEF vars, wireVars, heldVars, PressedInv, QuietlyWired, CalmRelease
<1>3. CASE Next
  <2>1. QuietlyWired(quiet)'
    BY <1>3, NextQuiet DEF PressedInv
  <2>2. CalmRelease(quiet)' /\ (pressed' # NoHolder => pressed' \in Momentary)
    BY <1>3, RunTopCalm, FrameLoopCalm DEF Next
  <2> QED
    BY <1>1, <2>1, <2>2 DEF PressedInv
<1> QED
  BY <1>2, <1>3

(* A step that forgets a button is the end of the SetState of another.     *)
LEMMA NextForgets ==
  ASSUME NEW quiet, QuietEvents(quiet), PressedInv(quiet), [Next]_vars,
         NEW h \in Holders, ~Forgotten(h), Forgotten(h)'
  PROVE  pressed = h /\ \E g \in Holders \ {h} : pressed' = g /\ Held(g)'
<1>0. /\ IInv /\ HoldersOK /\ stack \in Seq(Frame) /\ state \in [Holders -> Nat]
      /\ QuietlyWired(quiet) /\ TypeInv
  BY DEF PressedInv, TypeInv, IInv, Wired, HoldersOK
<1>1. CASE UNCHANGED vars
  BY <1>1 DEF vars, wireVars, heldVars, Forgotten, Held, SetUnderWay
<1>2. CASE Next /\ ~EndSetState /\ ~EndRelease
  <2>1. /\ UNCHANGED pressed
        /\ SetUnderWay(h) \/ state'[h] # state[h] => SetUnderWay(h)'
    BY <1>0, <1>2, StepShows
  <2>2. momentary'[h] => momentary[h]
    BY <1>0, <1>2, NextQuiet
  <2> QED
    BY <2>1, <2>2 DEF Forgotten, Held
<1>3. CASE EndSetState \/ EndRelease
  <2> DEFINE f == Head(stack)
  <2>1. /\ stack # <<>> /\ stack' = Tail(stack) /\ UNCHANGED <<state, momentary>>
        /\ f.do \in {"state", "release"}
    BY <1>3 DEF EndSetState, EndRelease, Top, wireVars
  <2>2. f \in Frame /\ Range(stack) = {f} \cup Range(stack')
    BY <2>1, <1>0, TopAndRest
  <2>3. Held(h) /\ ~SetUnderWay(h)' /\ pressed' # h
    BY <2>1 DEF Forgotten, Held
  <2>4. SetUnderWay(h) => f = EndOf(h)
    BY <2>2, <2>3 DEF SetUnderWay, EndOf
  <2>5. CASE EndSetState
    <3> DEFINE g == f.holder
    <3>1. /\ f.do = "state" /\ Top("state")
          /\ pressed' = IF momentary[g] /\ state[g] # 0 THEN g ELSE pressed
      BY <2>5 DEF EndSetState, Top
    <3>2. g \in Holders
      BY <2>2, <3>1 DEF Frame
    <3>3. g # h
      BY <3>1, <2>3 DEF Held
    <3>4. pressed = h
      <4>1. f # EndOf(h)
        BY <3>3 DEF EndOf
      <4> QED
        BY <4>1, <2>3, <2>4 DEF Forgotten
    <3>5. pressed' = g /\ momentary[g] /\ state[g] # 0
      BY <3>1, <3>4, <2>3
    <3> QED
      BY <3>2, <3>3, <3>4, <3>5, <2>1 DEF Held
  <2>6. CASE EndRelease
    <3>1. f.do = "release"
      BY <2>6 DEF EndRelease, Top
    <3>2. pressed = h
      <4>1. f # EndOf(h)
        BY <3>1 DEF EndOf
      <4> QED
        BY <4>1, <2>3, <2>4 DEF Forgotten
    <3>3. Releasing(stack)
      BY <3>1, <2>2 DEF Releasing
    <3>4. state[h] = 0
      BY <3>2, <3>3 DEF PressedInv, CalmRelease
    <3> QED
      BY <3>4, <2>3 DEF Held
  <2> QED
    BY <1>3, <2>5, <2>6
<1> QED
  BY <1>1, <1>2, <1>3

(* In a scenery whose releases set no holder a button that is down is      *)
(* forgotten only because another is pressed in its place (43-44, 323-329):*)
(* however many buttons there are and whatever sets them, however the      *)
(* events that their states launch nest.                                   *)
THEOREM OnlyForAnother == ReleaseIsQuiet => (Spec => ForgottenOnlyForAnother)
<1> SUFFICES ASSUME ReleaseIsQuiet PROVE Spec => ForgottenOnlyForAnother
  OBVIOUS
<1>0. PICK quiet \in SUBSET Events : QuietEvents(quiet)
  BY DEF ReleaseIsQuiet
<1>1. Init => PressedInv(quiet)
  <2> SUFFICES ASSUME Init PROVE PressedInv(quiet)
    OBVIOUS
  <2>1. TypeInv
    BY InitTypeInv
  <2>2. QuietlyWired(quiet)
    BY <1>0 DEF Init, QuietlyWired, QuietEvents
  <2>3. CalmRelease(quiet) /\ pressed = NoHolder
    BY NothingRuns DEF Init, CalmRelease, Releasing
  <2> QED
    BY <2>1, <2>2, <2>3 DEF PressedInv
<1>2. PressedInv(quiet) /\ [Next]_vars => PressedInv(quiet)'
  BY <1>0, NextPressed
<1>3. PressedInv(quiet) /\ [Next]_vars =>
        [\A h \in Holders :
           ~Forgotten(h) /\ Forgotten(h)' =>
             pressed = h /\ \E g \in Holders \ {h} : pressed' = g /\ Held(g)']_vars
  BY <1>0, NextForgets
<1> QED
  BY <1>1, <1>2, <1>3, PTL DEF Spec, ForgottenOnlyForAnother
=============================================================================
