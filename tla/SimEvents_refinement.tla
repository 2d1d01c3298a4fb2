------------------------ MODULE SimEvents_refinement ------------------------
(***************************************************************************)
(* Proof that the queue of nWorld implements Timers, for any scenery.      *)
(* SimEvents_proofs shows that the queue and the iterators agree, so that  *)
(* Due is a function of the iterators.  What is left is where the loop of  *)
(* CheckQueue is: it is never called from an event, hence its frame can    *)
(* only be the last one of the stack.                                      *)
(***************************************************************************)
EXTENDS SimEvents_proofs

Outermost(calls) == \A i \in 1..(Len(calls) - 1) : calls[i].do # "queue"

RInv == IInv /\ Outermost(stack)

Armed == {e \in Events : inQueue[e]}

(* The abstract step that every step has to be, or none.                   *)
Rings == [Alarms!Next]_(Alarms!timers)

-----------------------------------------------------------------------------
(* Calls and returns of anything but CheckQueue leave its frame alone.     *)
LEMMA CallsAbove ==
  ASSUME NEW f \in Frame, f.do # "queue", NEW callers \in Seq(Frame),
         Outermost(callers)
  PROVE  /\ Outermost(<<f>> \o callers)
         /\ Bottom(<<f>> \o callers) = Bottom(callers)
<1> DEFINE calls == <<f>> \o callers
<1>1. /\ Len(calls) = Len(callers) + 1
      /\ calls[1] = f
      /\ \A i \in 2..Len(calls) : calls[i] = callers[i - 1]
      /\ calls \in Seq(Frame)
  OBVIOUS
<1>2. calls # <<>>
  BY <1>1, EmptySeq
<1> HIDE DEF calls
<1>3. Outermost(calls)
  BY <1>1 DEF Outermost
<1>4. Bottom(calls) = Bottom(callers)
  <2>1. CASE callers = <<>>
    <3>1. calls[Len(calls)] = f
      BY <1>1, <2>1, EmptySeq
    <3> QED
      BY <2>1, <3>1 DEF Bottom
  <2>2. CASE callers # <<>>
    <3>1. Len(callers) \in Nat \ {0}
      BY <2>2, EmptySeq
    <3>2. calls[Len(calls)] = callers[Len(callers)]
      BY <1>1, <3>1
    <3> QED
      BY <1>2, <2>2, <3>2 DEF Bottom
  <2> QED
    BY <2>1, <2>2
<1> QED
  BY <1>3, <1>4 DEF calls

LEMMA ReturnAbove ==
  ASSUME stack \in Seq(Frame), stack # <<>>, Head(stack).do # "queue",
         Outermost(stack)
  PROVE  /\ Tail(stack) \in Seq(Frame)
         /\ Outermost(Tail(stack))
         /\ Bottom(Tail(stack)) = Bottom(stack)
<1> DEFINE rest == Tail(stack)
<1>1. /\ rest \in Seq(Frame)
      /\ Len(rest) = Len(stack) - 1
      /\ \A i \in 1..Len(rest) : rest[i] = stack[i + 1]
      /\ Len(stack) \in Nat \ {0}
      /\ Head(stack) = stack[1]
  OBVIOUS
<1> HIDE DEF rest
<1>2. Outermost(rest)
  BY <1>1 DEF Outermost
<1>3. Bottom(rest) = Bottom(stack)
  <2>1. CASE Len(stack) = 1
    <3>1. rest = <<>>
      BY <1>1, <2>1, EmptySeq
    <3>2. stack[Len(stack)].do # "queue"
      BY <1>1, <2>1
    <3> QED
      BY <3>1, <3>2 DEF Bottom
  <2>2. CASE Len(stack) # 1
    <3>1. rest # <<>> /\ rest[Len(rest)] = stack[Len(stack)]
      BY <1>1, <2>2, EmptySeq
    <3> QED
      BY <3>1 DEF Bottom
  <2> QED
    BY <2>1, <2>2
<1> QED
  BY <1>1, <1>2, <1>3 DEF rest

(* The loop of CheckQueue is the innermost call only if it is the only one.*)
LEMMA LoopIsAlone ==
  ASSUME stack \in Seq(Frame), Outermost(stack), Top("queue")
  PROVE  /\ Len(stack) = 1
         /\ Tail(stack) = <<>>
<1>1. stack # <<>> /\ Head(stack).do = "queue"
  BY DEF Top
<1>2. Len(stack) \in Nat \ {0} /\ Head(stack) = stack[1]
  BY <1>1, EmptySeq
<1>3. Len(stack) = 1
  <2>1. stack[1].do = "queue"
    BY <1>1, <1>2
  <2>2. ~(1 <= Len(stack) - 1)
    BY <1>2, <2>1 DEF Outermost
  <2>3. ASSUME NEW n \in Nat \ {0}, ~(1 <= n - 1) PROVE n = 1
    BY <2>3
  <2> QED
    BY <1>2, <2>2, <2>3
<1>4. Tail(stack) \in Seq(Frame) /\ Len(Tail(stack)) = 0
  BY <1>1, <1>3, HeadTailProperties
<1> QED
  BY <1>3, <1>4, EmptySeq

-----------------------------------------------------------------------------
(* The queue as a function is what the iterators say.                      *)
Pointed == [e \in Armed |-> iterator[e]]

DueAsPointed == Due = Pointed

LEMMA DueIs == QueueTypeOK /\ QueueIndexed => DueAsPointed
<1> SUFFICES ASSUME QueueTypeOK, QueueIndexed
             PROVE  Due = Pointed
  BY DEF DueAsPointed
<1> DEFINE time(e) == (CHOOSE x \in queue : x[2] = e)[1]
<1>1. EntryAsPointed
  BY Indexed
<1>2. {x[2] : x \in queue} = Armed
  <2>1. ASSUME NEW x \in queue PROVE x[2] \in Armed
    BY <1>1 DEF QueueTypeOK, EntryAsPointed, Armed
  <2>2. ASSUME NEW e \in Armed PROVE \E x \in queue : x[2] = e
    <3>1. <<iterator[e], e>> \in queue
      BY <1>1 DEF QueueTypeOK, EntryAsPointed, Armed
    <3> QED
      BY <3>1
  <2> QED
    BY <2>1, <2>2
<1>3. ASSUME NEW e \in Armed PROVE time(e) = iterator[e]
  <2>1. <<iterator[e], e>> \in queue
    BY <1>1 DEF QueueTypeOK, EntryAsPointed, Armed
  <2>2. \A x \in queue : x[2] = e => x[1] = iterator[e]
    BY <1>1 DEF QueueTypeOK, EntryAsPointed
  <2>3. \E x \in queue : x[2] = e
    BY <2>1
  <2> QED
    BY <2>2, <2>3
<1>4. Due = [e \in {x[2] : x \in queue} |-> time(e)]
  BY DEF Due
<1> HIDE DEF time
<1> QED
  BY <1>2, <1>3, <1>4 DEF Pointed

LEMMA DueIsNext == QueueTypeOK' /\ QueueIndexed' => DueAsPointed'
  BY DueIs, PTL

-----------------------------------------------------------------------------
LEMMA Unarm ==
  ASSUME QueueTypeOK, QueueIndexed, simTime' \in Nat,
         NEW e \in Events, RemoveFromQueue(e)
  PROVE  /\ Due = Pointed
         /\ Due' = Alarms!Without(e)
<1>1. Due = Pointed /\ Due' = Pointed'
  BY RemoveKeeps, DueIs, DueIsNext DEF DueAsPointed
<1>2. Armed' = Armed \ {e}
  BY DEF RemoveFromQueue, Armed, QueueTypeOK
<1>3. \A f \in Armed' : iterator'[f] = iterator[f]
  BY <1>2 DEF RemoveFromQueue, Armed, QueueTypeOK
<1>4. Pointed' = [f \in Armed \ {e} |-> iterator[f]]
  BY <1>2, <1>3 DEF Pointed
<1>5. [f \in Armed \ {e} |-> iterator[f]] = [f \in Armed \ {e} |-> Pointed[f]]
  BY DEF Pointed
<1>6. DOMAIN Pointed = Armed
  BY DEF Pointed
<1> QED
  BY <1>1, <1>4, <1>5, <1>6 DEF Alarms!Without

LEMMA Arm ==
  ASSUME QueueTypeOK, QueueIndexed, UNCHANGED simTime,
         NEW e \in Events, NEW delay \in Nat, delay > 0,
         NEW callers \in Seq(Frame), Execute(e, delay, callers)
  PROVE  Due' = [f \in DOMAIN Due \cup {e} |->
                   IF f = e THEN simTime + delay ELSE Due[f]]
<1> DEFINE moment == simTime + delay
<1>1. Due = Pointed /\ Due' = Pointed'
  BY ExecuteKeeps, DueIs, DueIsNext DEF DueAsPointed, QueueTypeOK
<1>2. /\ iterator' = [iterator EXCEPT ![e] = moment]
      /\ inQueue' = [inQueue EXCEPT ![e] = TRUE]
  BY DEF Execute
<1> HIDE DEF moment
<1>3. Armed' = Armed \cup {e}
  BY <1>2 DEF Armed, QueueTypeOK
<1>4. \A f \in Armed' : iterator'[f] = IF f = e THEN moment ELSE iterator[f]
  BY <1>2, <1>3 DEF Armed, QueueTypeOK
<1>5. Pointed' = [f \in Armed \cup {e} |-> IF f = e THEN moment ELSE iterator[f]]
  BY <1>3, <1>4 DEF Pointed
<1>6. DOMAIN Pointed = Armed /\ \A f \in Armed : Pointed[f] = iterator[f]
  BY DEF Pointed
<1>7. Pointed' = [f \in DOMAIN Pointed \cup {e} |->
                    IF f = e THEN moment ELSE Pointed[f]]
  BY <1>5, <1>6
<1> QED
  BY <1>1, <1>7 DEF moment

(* A step that touches neither the queue, nor the time, nor the loop of    *)
(* CheckQueue.                                                             *)
LEMMA Silent ==
  ASSUME UNCHANGED <<queue, simTime>>, Bottom(stack') = Bottom(stack)
  PROVE  Rings
<1>1. Due' = Due
  BY DEF Due
<1> QED
  BY <1>1 DEF Rings, Alarms!timers

LEMMA RemoveRings ==
  ASSUME QueueTypeOK, QueueIndexed, UNCHANGED simTime,
         NEW e \in Events, RemoveFromQueue(e), Bottom(stack') = Bottom(stack)
  PROVE  Rings
<1>1. Due = Pointed /\ Due' = Alarms!Without(e)
  BY Unarm DEF QueueTypeOK
<1>2. CASE inQueue[e]
  <2>1. e \in DOMAIN Due
    BY <1>1, <1>2 DEF Pointed, Armed
  <2>2. Alarms!CallOff(e)
    BY <1>1, <2>1 DEF Alarms!CallOff
  <2> QED
    BY <2>2 DEF Rings, Alarms!Next
<1>3. CASE ~inQueue[e]
  <2>1. queue' = queue
    BY <1>3 DEF RemoveFromQueue, Dequeued
  <2> QED
    BY <2>1, Silent
<1> QED
  BY <1>2, <1>3

LEMMA ExecuteRings ==
  ASSUME QueueTypeOK, QueueIndexed, UNCHANGED simTime,
         NEW e \in Events, NEW delay \in Delays, NEW callers \in Seq(Frame),
         Outermost(callers), Bottom(callers) = Bottom(stack),
         Execute(e, delay, callers)
  PROVE  Rings /\ Outermost(stack')
<1>0. delay \in Nat
  BY SceneryAssumption
<1>1. CASE delay > 0
  <2>1. stack' = callers
    BY <1>1 DEF Execute
  <2>2. Alarms!Arm(e, delay)
    BY <1>0, <1>1, <2>1, Arm DEF Alarms!Arm
  <2> QED
    BY <2>1, <2>2 DEF Rings, Alarms!Next
<1>2. CASE ~(delay > 0)
  <2>1. RemoveFromQueue(e) /\ stack' = <<BodyOf(e)>> \o callers
    BY <1>2 DEF Execute
  <2>2. BodyOf(e) \in Frame /\ BodyOf(e).do # "queue"
    BY DEF BodyOf, Frame
  <2>3. Outermost(stack') /\ Bottom(stack') = Bottom(stack)
    BY <2>1, <2>2, CallsAbove
  <2> QED
    BY <2>1, <2>3, RemoveRings
<1> QED
  BY <1>1, <1>2

LEMMA SetStateRings ==
  ASSUME IInv, UNCHANGED simTime, NEW h \in Holders, NEW s,
         NEW callers \in Seq(Frame),
         Outermost(callers), Bottom(callers) = Bottom(stack),
         SetState(h, s, callers)
  PROVE  Rings /\ Outermost(stack')
<1> DEFINE end   == [do |-> "state", holder |-> h]
           calls == <<end>> \o callers
           to    == eventsMap[h][s]
<1>0. end \in Frame /\ end.do # "queue"
  BY DEF Frame
<1>1. /\ calls \in Seq(Frame)
      /\ Outermost(calls)
      /\ Bottom(calls) = Bottom(stack)
  BY <1>0, CallsAbove, Pushed
<1>2. CASE s \in DOMAIN eventsMap[h]
  <2>1. Execute(to[1], to[2], calls)
    BY <1>2 DEF SetState
  <2>2. to[1] \in Events /\ to[2] \in Delays
    BY <1>2 DEF IInv, Wired, Launch
  <2> QED
    BY <1>1, <2>1, <2>2, ExecuteRings DEF IInv
<1>3. CASE s \notin DOMAIN eventsMap[h]
  <2>1. stack' = calls /\ UNCHANGED queue
    BY <1>3 DEF SetState, queueVars
  <2> QED
    BY <1>1, <2>1, Silent
<1> QED
  BY <1>2, <1>3

(* Every command is a step of the timers, or none.                         *)
LEMMA CallRings ==
  ASSUME IInv, NEW c \in Commands, NEW callers \in Seq(Frame),
         Outermost(callers), Bottom(callers) = Bottom(stack),
         Call(c, callers)
  PROVE  Rings /\ Outermost(stack')
<1>0. c \in Command /\ Wired /\ QueueTypeOK /\ QueueIndexed
  BY SceneryAssumption DEF IInv
<1>1. CASE c.op = "exec"
  <2>1. c.ev \in Events /\ c.delay \in Delays
    BY <1>0, <1>1 DEF Command
  <2>2. Execute(c.ev, c.delay, callers) /\ UNCHANGED simTime
    BY <1>1 DEF Call, Wire
  <2> QED
    BY <2>1, <2>2, <1>0, ExecuteRings
<1>2. CASE c.op = "abort"
  <2>1. c.ev \in Events
    BY <1>0, <1>2 DEF Command
  <2>2. RemoveFromQueue(c.ev) /\ stack' = callers /\ UNCHANGED simTime
    BY <1>2 DEF Call, Wire
  <2> QED
    BY <2>1, <2>2, <1>0, RemoveRings
<1>3. CASE c.op \in {"setlaunchevent", "addstate", "setmomentary"}
  <2>1. stack' = callers /\ UNCHANGED <<queue, simTime>>
    BY <1>3 DEF Call, queueVars
  <2> QED
    BY <2>1, Silent
<1>4. CASE c.op \in {"setstate", "changestate"}
  <2>1. c.holder \in Holders
    BY <1>0, <1>4 DEF Command
  <2>2. (\E s : SetState(c.holder, s, callers)) /\ UNCHANGED simTime
    BY <1>4 DEF Call, Wire
  <2> QED
    BY <2>1, <2>2, SetStateRings
<1>5. CASE c.op = "releasemomentary"
  <2> DEFINE end == [do |-> "release"]
  <2>1. UNCHANGED simTime
    BY <1>5 DEF Call, Wire
  <2>2. CASE pressed = NoHolder
    <3>1. stack' = callers /\ UNCHANGED queue
      BY <1>5, <2>2 DEF Call, Wire, queueVars
    <3> QED
      BY <3>1, <2>1, Silent
  <2>3. CASE pressed # NoHolder
    <3>1. SetState(pressed, 0, <<end>> \o callers)
      BY <1>5, <2>3 DEF Call, Wire
    <3>2. end \in Frame /\ end.do # "queue" /\ pressed \in Holders
      BY <1>0, <2>3 DEF Frame, Wired
    <3>3. /\ <<end>> \o callers \in Seq(Frame)
          /\ Outermost(<<end>> \o callers)
          /\ Bottom(<<end>> \o callers) = Bottom(stack)
      BY <3>2, Pushed, CallsAbove
    <3> QED
      BY <2>1, <3>1, <3>2, <3>3, SetStateRings
  <2> QED
    BY <2>2, <2>3
<1>6. CASE c.op = "setsimtime"
  <2>1. simTime' = c.time /\ stack' = callers /\ UNCHANGED queue
    BY <1>6 DEF Call, Wire, queueVars
  <2>2. c.time \in Times
    BY <1>0, <1>6 DEF Command
  <2>3. Due' = Due
    BY <2>1 DEF Due
  <2>4. Alarms!SetClock(c.time)
    BY <2>1, <2>3 DEF Alarms!SetClock
  <2> QED
    BY <2>1, <2>2, <2>4 DEF Rings, Alarms!Next
<1>7. CASE c.op = "ask"
  <2>1. stack' = callers /\ UNCHANGED <<queue, simTime>>
    BY <1>7 DEF Call, Wire, queueVars
  <2> QED
    BY <2>1, Silent
<1> QED
  BY <1>0, <1>1, <1>2, <1>3, <1>4, <1>5, <1>6, <1>7 DEF Command

-----------------------------------------------------------------------------
(* The loop of CheckQueue takes out the earliest entry, which is due.      *)
LEMMA LoopRings ==
  ASSUME IInv, Outermost(stack), RingNext
  PROVE  Rings /\ Outermost(stack')
<1>0. QueueTypeOK /\ QueueIndexed /\ stack \in Seq(Frame)
  BY DEF IInv, Wired
<1>1. Tail(stack) = <<>>
  BY <1>0, LoopIsAlone DEF RingNext
<1>2. PICK x \in queue :
        /\ First(x) /\ x[1] < simTime
        /\ RemoveFromQueue(x[2])
        /\ stack' = <<BodyOf(x[2]), [do |-> "queue", ev |-> x[2]]>> \o Tail(stack)
  BY DEF RingNext
<1> DEFINE e == x[2]
           loop == [do |-> "queue", ev |-> e]
<1>3. e \in Events /\ x[1] \in Nat /\ x = <<x[1], e>>
  BY <1>0 DEF QueueTypeOK
<1>4. EntryAsPointed
  BY <1>0, Indexed
<1>5. e \in Armed /\ iterator[e] = x[1]
  BY <1>3, <1>4 DEF EntryAsPointed, Armed
<1>6. ASSUME NEW f \in Armed PROVE x[1] <= iterator[f]
  <2>1. <<iterator[f], f>> \in queue
    BY <1>0, <1>4 DEF EntryAsPointed, Armed, QueueTypeOK
  <2> QED
    BY <1>2, <2>1 DEF First
<1>7. UNCHANGED simTime
  BY DEF RingNext
<1>8. Due = Pointed /\ Due' = Alarms!Without(e)
  BY <1>0, <1>2, <1>3, <1>7, Unarm DEF QueueTypeOK
<1>9. stack' = <<BodyOf(e), loop>>
  <2>1. <<BodyOf(e), loop>> \in Seq(Frame)
    BY <1>3 DEF BodyOf, Frame
  <2> QED
    BY <1>1, <1>2, <2>1, ConcatEmptySeq
<1>10. Len(stack') = 2 /\ stack'[1] = BodyOf(e) /\ stack'[2] = loop /\ stack' # <<>>
  BY <1>9
<1>11. Bottom(stack') = e
  BY <1>10 DEF Bottom
<1>12. Outermost(stack')
  BY <1>10 DEF Outermost, BodyOf
<1>13. Alarms!Ring(e)
  <2>1. DOMAIN Due = Armed /\ \A f \in Armed : Due[f] = iterator[f]
    BY <1>8 DEF Pointed
  <2> QED
    BY <1>2, <1>5, <1>6, <1>7, <1>8, <1>11, <2>1 DEF Alarms!Ring
<1> QED
  BY <1>3, <1>12, <1>13 DEF Rings, Alarms!Next

LEMMA RunTopRings ==
  ASSUME IInv, Outermost(stack), RunTop
  PROVE  Rings /\ Outermost(stack')
<1>0. Wired /\ QueueTypeOK /\ QueueIndexed /\ stack \in Seq(Frame)
  BY DEF IInv, Wired
<1>a. ASSUME stack # <<>>, Head(stack).do # "queue"
      PROVE  /\ Head(stack) \in Frame
             /\ Tail(stack) \in Seq(Frame)
             /\ Outermost(Tail(stack))
             /\ Bottom(Tail(stack)) = Bottom(stack)
  BY <1>0, <1>a, ReturnAbove, HeadTailProperties
<1>1. CASE RunCommand
  <2> DEFINE f == Head(stack)
             g == [f EXCEPT !.at = @ + 1]
             c == Body[f.ev][f.at]
             calls == <<g>> \o Tail(stack)
  <2>1. stack # <<>> /\ f.do = "body"
    BY <1>1 DEF RunCommand, Top
  <2>2. f.ev \in Events /\ f.at \in Nat \ {0} /\ g \in Frame /\ g.do # "queue"
    BY <2>1, <1>a DEF Frame
  <2>3. f.at <= Len(Body[f.ev]) /\ Call(c, calls)
    BY <1>1 DEF RunCommand
  <2>4. c \in Commands
    BY <2>2, <2>3, SceneryAssumption
  <2>5. calls \in Seq(Frame) /\ Outermost(calls) /\ Bottom(calls) = Bottom(stack)
    BY <2>1, <2>2, <1>a, Pushed, CallsAbove
  <2> QED
    BY <2>3, <2>4, <2>5, CallRings
<1>2. CASE Refuse \/ EndSetState \/ EndRelease
  <2>1. stack # <<>> /\ Head(stack).do # "queue"
    BY <1>2 DEF Refuse, EndSetState, EndRelease, Top
  <2>2. stack' = Tail(stack) /\ UNCHANGED <<queue, simTime>>
    BY <1>2 DEF Refuse, EndSetState, EndRelease, queueVars
  <2> QED
    BY <2>1, <2>2, <1>a, Silent
<1>3. CASE LaunchNext
  <2> DEFINE f == Head(stack)
             to == next[f.ev]
  <2>1. stack # <<>> /\ f.do = "body" /\ UNCHANGED simTime
    BY <1>3 DEF LaunchNext, Top
  <2>2. f.ev \in Events
    BY <2>1, <1>a DEF Frame
  <2>3. CASE to = NoEvent
    <3>1. stack' = Tail(stack) /\ UNCHANGED queue
      BY <1>3, <2>3 DEF LaunchNext, queueVars
    <3> QED
      BY <3>1, <2>1, <1>a, Silent
  <2>4. CASE to # NoEvent
    <3>1. Execute(to[1], to[2], Tail(stack))
      BY <1>3, <2>4 DEF LaunchNext
    <3>2. to[1] \in Events /\ to[2] \in Delays
      BY <1>0, <2>2, <2>4 DEF Wired, Launch
    <3> QED
      BY <3>1, <3>2, <2>1, <1>0, <1>a, ExecuteRings
  <2> QED
    BY <2>3, <2>4
<1>4. CASE RingNext
  BY <1>4, LoopRings
<1>5. CASE EndCheckQueue
  <2>1. Tail(stack) = <<>>
    BY <1>0, <1>5, LoopIsAlone DEF EndCheckQueue
  <2>2. stack' = <<>> /\ UNCHANGED <<queue, simTime>>
    BY <1>5, <2>1 DEF EndCheckQueue, queueVars
  <2>3. Due' = Due /\ Bottom(stack') = NoEvent /\ Outermost(stack')
    BY <2>2, EmptySeq DEF Due, Bottom, Outermost
  <2>4. Alarms!Hush
    BY <2>2, <2>3 DEF Alarms!Hush
  <2> QED
    BY <2>3, <2>4 DEF Rings, Alarms!Next
<1> QED
  BY <1>1, <1>2, <1>3, <1>4, <1>5 DEF RunTop

LEMMA FrameLoopRings ==
  ASSUME IInv,
         \/ \E c \in Commands : Input(c)
         \/ \E dt \in FrameTimes : StartUpdate(dt)
         \/ \E e \in Events : ExecuteDirectly(e) \/ \E d \in Delays : Depart(e, d)
         \/ CheckQueue
  PROVE  Rings /\ Outermost(stack')
<1>0. /\ QueueTypeOK /\ QueueIndexed
      /\ <<>> \in Seq(Frame)
      /\ Outermost(<<>>)
      /\ Bottom(<<>>) = NoEvent
  BY EmptySeq DEF IInv, Outermost, Bottom
<1>1. ASSUME NEW c \in Commands, Input(c) PROVE Rings /\ Outermost(stack')
  BY <1>0, <1>1, CallRings DEF Input
<1>2. ASSUME NEW dt \in FrameTimes, StartUpdate(dt) PROVE Rings /\ Outermost(stack')
  <2>1. /\ stack = <<>> /\ stack' = stack /\ UNCHANGED queue
        /\ simTime' = simTime + dt /\ simTime + dt <= MaxTime
    BY <1>2 DEF StartUpdate, queueVars
  <2>2. simTime' \in Times
    BY <1>0, <2>1, SceneryAssumption DEF Times, QueueTypeOK
  <2>3. Due' = Due
    BY <2>1 DEF Due
  <2>4. Alarms!SetClock(simTime')
    BY <2>1, <2>3 DEF Alarms!SetClock
  <2> QED
    BY <1>0, <2>1, <2>2, <2>4 DEF Rings, Alarms!Next
<1>3. ASSUME NEW e \in Events, ExecuteDirectly(e) PROVE Rings /\ Outermost(stack')
  <2>1. stack = <<>> /\ stack' = <<BodyOf(e)>> /\ UNCHANGED <<queue, simTime>>
    BY <1>3 DEF ExecuteDirectly, queueVars
  <2>2. Outermost(stack') /\ Bottom(stack') = NoEvent
    BY <2>1 DEF Outermost, Bottom, BodyOf
  <2> QED
    BY <1>0, <2>1, <2>2, Silent
<1>4. ASSUME NEW e \in Events, NEW d \in Delays, Depart(e, d)
      PROVE  Rings /\ Outermost(stack')
  BY <1>0, <1>4, ExecuteRings DEF Depart
<1>5. CASE CheckQueue
  <2>1. /\ stack = <<>> /\ stack' = <<[do |-> "queue", ev |-> NoEvent]>>
        /\ UNCHANGED <<queue, simTime>>
    BY <1>5 DEF CheckQueue, queueVars
  <2>2. Outermost(stack') /\ Bottom(stack') = NoEvent
    BY <2>1 DEF Outermost, Bottom
  <2> QED
    BY <1>0, <2>1, <2>2, Silent
<1> QED
  BY <1>1, <1>2, <1>3, <1>4, <1>5

LEMMA NextRings == RInv /\ [Next]_vars => RInv' /\ Rings
<1> SUFFICES ASSUME RInv, [Next]_vars PROVE RInv' /\ Rings
  OBVIOUS
<1>1. IInv /\ Outermost(stack) /\ IInv'
  BY NextIInv DEF RInv
<1>2. CASE UNCHANGED vars
  <2>1. UNCHANGED <<queue, simTime, stack>>
    BY <1>2 DEF vars, queueVars
  <2> QED
    BY <1>1, <2>1, Silent DEF RInv, Outermost, Bottom
<1>3. CASE Next
  BY <1>1, <1>3, RunTopRings, FrameLoopRings DEF Next, RInv
<1> QED
  BY <1>2, <1>3

LEMMA InitRings == Init => RInv /\ Alarms!Init
<1> SUFFICES ASSUME Init PROVE RInv /\ Alarms!Init
  OBVIOUS
<1>1. IInv /\ queue = {} /\ simTime = 0 /\ stack = <<>>
  BY InitIInv DEF Init
<1>2. Outermost(stack) /\ Bottom(stack) = NoEvent
  BY <1>1, EmptySeq DEF Outermost, Bottom
<1>3. Armed = {}
  BY DEF Init, Armed
<1>4. Due = Pointed
  BY <1>1, DueIs DEF IInv, DueAsPointed
<1>5. Due = [e \in {} |-> 0]
  BY <1>3, <1>4 DEF Pointed
<1> QED
  BY <1>1, <1>2, <1>5 DEF RInv, Alarms!Init

(* The queue of the world keeps the promises of Timers in every scenery:   *)
(* an event rings once per launch, after its moment, earlier ones before   *)
(* it, whatever the events that ring do to the queue (306-318).            *)
THEOREM ImplementsTimers == Spec => TimersSpec
<1>1. RInv /\ [Next]_vars => RInv' /\ [Alarms!Next]_(Alarms!timers)
  BY NextRings DEF Rings
<1> QED
  BY <1>1, InitRings, PTL DEF Spec, TimersSpec, Alarms!Spec
=============================================================================
