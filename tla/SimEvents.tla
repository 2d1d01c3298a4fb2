------------------------------ MODULE SimEvents ------------------------------
(***************************************************************************)
(* The events of the simulator (eu07/code/src/simcore): nSimEvent and its  *)
(* subclasses, nStateHolder, and the queue of nWorld.  All of it runs in   *)
(* one thread, but the handlers call one another: an event launches its    *)
(* successor and the script commands it consists of, a command sets a      *)
(* state, a state launches an event.  stack holds the calls that have not  *)
(* returned, the innermost first; one step runs its head up to the next    *)
(* call or to its return.                                                  *)
(*                                                                         *)
(* The frame loop (main/main.cc:239-295) first runs scripts, input and     *)
(* network messages (phase "input"), then nWorld::Update: time advances,   *)
(* vehicles move and launch events (phase "update"), and CheckQueue runs.  *)
(***************************************************************************)
EXTENDS Integers, Sequences, FiniteSetsExt

CONSTANTS
  Events,        \* nSimEvent objects
  Holders,       \* nStateHolder objects
  Delays,        \* the delays events are launched with; 0 is at once
  States,        \* the values of nStateHolder::state
  Commands,      \* the commands that scripts, input and events give
  Body,          \* Body[e]: the commands of nSECommands e, in order
  Launches,      \* refNext and nextDelay once the scenery is built
  StateEvents,   \* eventsMap once the scenery is built
  Momentary,     \* the holders with momentary set then
  FrameTimes,    \* the values of dt
  MaxTime,       \* bound on simTime
  NoEvent, NoHolder   \* NULL

Times  == 0..MaxTime
Launch == Events \X Delays
Command ==
       [op : {"exec"}, ev : Events, delay : Delays]
  \cup [op : {"abort"}, ev : Events]
  \cup [op : {"setlaunchevent"}, ev : Events, to : Launch]
  \cup [op : {"addstate"}, holder : Holders, state : States, to : Launch]
  \cup [op : {"setmomentary"}, holder : Holders, on : BOOLEAN]
  \cup [op : {"setstate"}, holder : Holders, state : States]
  \cup [op : {"changestate"}, holder : Holders, by : Int, rot : BOOLEAN]
  \cup [op : {"setsimtime"}, time : Times]
  \cup [op : {"releasemomentary", "ask"}]

(* The frames of the stack: the commands of an event from the at-th on,    *)
(* the ends of SetState and of ReleaseMomentary, the loop of CheckQueue    *)
(* with its variable ev.                                                   *)
Frame ==
       [do : {"body"}, ev : Events, at : Nat \ {0}]
  \cup [do : {"state"}, holder : Holders]
  \cup [do : {"release"}]
  \cup [do : {"queue"}, ev : Events \cup {NoEvent}]

(* A holder that is asked to change its state has some, from 0 up, in a    *)
(* std::map.                                                               *)
ASSUME SceneryAssumption ==
  /\ Delays \subseteq Nat /\ 0 \in Delays
  /\ FrameTimes \subseteq Nat /\ MaxTime \in Nat
  /\ Commands \subseteq Command
  /\ Body \in [Events -> Seq(Commands)]
  /\ Launches \in [Events -> Launch \cup {NoEvent}]
  /\ DOMAIN StateEvents = Holders
  /\ \A h \in Holders : /\ DOMAIN StateEvents[h] \subseteq States
                        /\ DOMAIN StateEvents[h] # {}
                        /\ \A s \in DOMAIN StateEvents[h] : StateEvents[h][s] \in Launch
  /\ Momentary \subseteq Holders
  /\ States \subseteq Nat /\ IsFiniteSet(States)
  /\ NoEvent \notin Events \cup Launch /\ NoHolder \notin Holders

VARIABLES
  simTime,     \* nWorld::simTime
  queue,       \* nWorld::eventsQueue, its entries <<time, event>>
  iterator,    \* nSimEvent::queueIterator, by the time of the entry
  inQueue,     \* nSimEvent::inQueue
  next,        \* nSimEvent::refNext and nextDelay
  eventsMap,   \* nStateHolder::eventsMap
  momentary,   \* nStateHolder::momentary
  state,       \* nStateHolder::state
  pressed,     \* nWorld::momentary: the holder that is to be released
  stack,       \* the calls under way
  result,      \* what the last Execute or boolean command returned
  phase        \* the part of the frame loop that runs

queueVars == <<queue, iterator, inQueue>>
wireVars  == <<next, eventsMap, momentary>>
heldVars  == <<state, pressed>>
vars == <<simTime, queueVars, wireVars, heldVars, stack, result, phase>>

TypeOK ==
  /\ simTime \in Times
  /\ queue \subseteq Nat \X Events
  /\ iterator \in [Events -> Nat]
  /\ inQueue \in [Events -> BOOLEAN]
  /\ next \in [Events -> Launch \cup {NoEvent}]
  /\ DOMAIN eventsMap = Holders
  /\ \A h \in Holders : \A s \in DOMAIN eventsMap[h] : eventsMap[h][s] \in Launch
  /\ momentary \in [Holders -> BOOLEAN]
  /\ state \in [Holders -> Nat]
  /\ pressed \in Holders \cup {NoHolder}
  /\ stack \in Seq(Frame)
  /\ result \in BOOLEAN
  /\ phase \in {"input", "update"}

Init ==
  /\ simTime = 0
  /\ queue = {}
  /\ iterator = [e \in Events |-> 0]
  /\ inQueue = [e \in Events |-> FALSE]
  /\ next = Launches
  /\ eventsMap = StateEvents
  /\ momentary = [h \in Holders |-> h \in Momentary]
  /\ state = [h \in Holders |-> 0]
  /\ pressed = NoHolder
  /\ stack = <<>>
  /\ result = TRUE
  /\ phase = "input"
-----------------------------------------------------------------------------
(* nSimEvent *)

(* The queue without the entry the event points at.                        *)
Dequeued(e) == IF inQueue[e] THEN queue \ {<<iterator[e], e>>} ELSE queue

(* Once its entry is erased the iterator is as good as one never set.      *)
RemoveFromQueue(e) ==
  /\ queue' = Dequeued(e)
  /\ inQueue' = [inQueue EXCEPT ![e] = FALSE]
  /\ iterator' = [iterator EXCEPT ![e] = 0]

(* Execute() goes through the commands of e, then launches the next event. *)
BodyOf(e) == [do |-> "body", ev |-> e, at |-> 1]

(* Mutant of Execute: an event that waits already is queued once more.     *)
ExecuteAgain(e, delay, callers) ==
  IF delay > 0
  THEN /\ queue' = queue \cup {<<simTime + delay, e>>}
       /\ iterator' = [iterator EXCEPT ![e] = simTime + delay]
       /\ inQueue' = [inQueue EXCEPT ![e] = TRUE]
       /\ result' = TRUE
       /\ stack' = callers
  ELSE /\ RemoveFromQueue(e)
       /\ stack' = <<BodyOf(e)>> \o callers
       /\ UNCHANGED result

(* Execute(delay), called from callers.                                    *)
Execute(e, delay, callers) ==
  IF delay > 0
  THEN /\ queue' = Dequeued(e) \cup {<<simTime + delay, e>>}
       /\ iterator' = [iterator EXCEPT ![e] = simTime + delay]
       /\ inQueue' = [inQueue EXCEPT ![e] = TRUE]
       /\ result' = TRUE
       /\ stack' = callers
  ELSE /\ RemoveFromQueue(e)
       /\ stack' = <<BodyOf(e)>> \o callers
       /\ UNCHANGED result

-----------------------------------------------------------------------------
(* nStateHolder *)

SetState(h, s, callers) ==
  LET end == [do |-> "state", holder |-> h]
  IN /\ state' = [state EXCEPT ![h] = s]
     /\ IF s \in DOMAIN eventsMap[h]
        THEN Execute(eventsMap[h][s][1], eventsMap[h][s][2], <<end>> \o callers)
        ELSE stack' = <<end>> \o callers /\ UNCHANGED <<queueVars, result>>

(* Mutant of ChangedState: only the upper limit is kept.                   *)
OnlyUpperLimit(h, by, rot) ==
  LET s == state[h] + by
      n == Max(DOMAIN eventsMap[h]) + 1
  IN IF rot THEN s % n ELSE Min({s, n})

(* Without rotation the state may become one more than the last one that   *)
(* has an event: clamp() includes its upper limit n.                       *)
ChangedState(h, by, rot) ==
  LET s == state[h] + by
      n == Max(DOMAIN eventsMap[h]) + 1
  IN IF rot THEN s % n ELSE Max({0, Min({s, n})})
-----------------------------------------------------------------------------
(* The commands.  ask stands for any command of another object that        *)
(* answers yes or no, such as getbutton of the input server.               *)
Boolean(c) == c.op \in {"exec", "ask"}

Wire(c) ==
  \/ /\ c.op = "setlaunchevent"
     /\ next' = [next EXCEPT ![c.ev] = c.to]
     /\ UNCHANGED <<eventsMap, momentary>>
  \/ /\ c.op = "addstate"
     /\ eventsMap' = [eventsMap EXCEPT ![c.holder] =
                        [s \in DOMAIN @ \cup {c.state} |->
                           IF s = c.state THEN c.to ELSE @[s]]]
     /\ UNCHANGED <<next, momentary>>
  \/ /\ c.op = "setmomentary"
     /\ momentary' = [momentary EXCEPT ![c.holder] = c.on]
     /\ UNCHANGED <<next, eventsMap>>

Call(c, callers) ==
  \/ /\ c.op = "exec"
     /\ Execute(c.ev, c.delay, callers)
     /\ UNCHANGED <<simTime, wireVars, heldVars>>
  \/ /\ c.op = "abort"
     /\ RemoveFromQueue(c.ev)
     /\ stack' = callers
     /\ UNCHANGED <<simTime, wireVars, heldVars, result>>
  \/ /\ Wire(c)
     /\ stack' = callers
     /\ UNCHANGED <<simTime, queueVars, heldVars, result>>
  \/ /\ c.op = "setstate"
     /\ SetState(c.holder, c.state, callers)
     /\ UNCHANGED <<simTime, wireVars, pressed>>
  \/ /\ c.op = "changestate"
     /\ SetState(c.holder, ChangedState(c.holder, c.by, c.rot), callers)
     /\ UNCHANGED <<simTime, wireVars, pressed>>
  \/ /\ c.op = "releasemomentary"
     /\ IF pressed = NoHolder
        THEN stack' = callers /\ UNCHANGED <<queueVars, state, result>>
        ELSE SetState(pressed, 0, <<[do |-> "release"]>> \o callers)
     /\ UNCHANGED <<simTime, wireVars, pressed>>
  \/ /\ c.op = "setsimtime"
     /\ simTime' = c.time
     /\ stack' = callers
     /\ UNCHANGED <<queueVars, wireVars, heldVars, result>>
  \/ /\ c.op = "ask"
     /\ result' \in BOOLEAN
     /\ stack' = callers
     /\ UNCHANGED <<simTime, queueVars, wireVars, heldVars>>
-----------------------------------------------------------------------------
(* The steps of the innermost call *)

Top(do) == stack # <<>> /\ Head(stack).do = do

(* A boolean command that answered no ends the event.                      *)
Refused(f) == f.at > 1 /\ Boolean(Body[f.ev][f.at - 1]) /\ ~result

RunCommand ==
  /\ Top("body")
  /\ LET f == Head(stack)
     IN /\ ~Refused(f)
        /\ f.at <= Len(Body[f.ev])
        /\ Call(Body[f.ev][f.at], <<[f EXCEPT !.at = @ + 1]>> \o Tail(stack))
  /\ UNCHANGED phase

Refuse ==
  /\ Top("body")
  /\ Refused(Head(stack))
  /\ stack' = Tail(stack)
  /\ UNCHANGED <<simTime, queueVars, wireVars, heldVars, result, phase>>

LaunchNext ==
  /\ Top("body")
  /\ LET f == Head(stack)
     IN /\ ~Refused(f)
        /\ f.at > Len(Body[f.ev])
        /\ IF next[f.ev] = NoEvent
           THEN result' = TRUE /\ stack' = Tail(stack) /\ UNCHANGED queueVars
           ELSE Execute(next[f.ev][1], next[f.ev][2], Tail(stack))
  /\ UNCHANGED <<simTime, wireVars, heldVars, phase>>

(* Mutant of EndSetState: any other holder takes the pressed one's place.  *)
ForgetPressed ==
  /\ Top("state")
  /\ LET h == Head(stack).holder
     IN pressed' = IF momentary[h] /\ state[h] # 0 THEN h ELSE NoHolder
  /\ stack' = Tail(stack)
  /\ UNCHANGED <<simTime, queueVars, wireVars, state, result, phase>>

(* SetState looks at the state again after the event, which may have       *)
(* changed it.                                                             *)
EndSetState ==
  /\ Top("state")
  /\ LET h == Head(stack).holder
     IN pressed' = IF momentary[h] /\ state[h] # 0 THEN h ELSE pressed
  /\ stack' = Tail(stack)
  /\ UNCHANGED <<simTime, queueVars, wireVars, state, result, phase>>

EndRelease ==
  /\ Top("release")
  /\ pressed' = NoHolder
  /\ stack' = Tail(stack)
  /\ UNCHANGED <<simTime, queueVars, wireVars, state, result, phase>>

(* Entries with equal times are in no particular order.                    *)
First(x) == x \in queue /\ \A y \in queue : x[1] <= y[1]

(* Mutant of RingNext: the entry is never removed.                         *)
RingUnremoved ==
  /\ Top("queue")
  /\ \E x \in queue :
       /\ First(x) /\ x[1] < simTime
       /\ stack' = <<BodyOf(x[2]), [do |-> "queue", ev |-> x[2]]>> \o Tail(stack)
  /\ UNCHANGED <<simTime, queueVars, wireVars, heldVars, result, phase>>

(* Mutant of RingNext: the event is removed from the queue once it has run.*)
RingThenRemove ==
  /\ Top("queue")
  /\ LET e == Head(stack).ev
     IN IF e # NoEvent
        THEN /\ RemoveFromQueue(e)
             /\ stack' = <<[do |-> "queue", ev |-> NoEvent]>> \o Tail(stack)
        ELSE /\ \E x \in queue :
                  /\ First(x) /\ x[1] < simTime
                  /\ stack' = <<BodyOf(x[2]), [do |-> "queue", ev |-> x[2]]>>
                              \o Tail(stack)
             /\ UNCHANGED queueVars
  /\ UNCHANGED <<simTime, wireVars, heldVars, result, phase>>

(* Mutant of RingNext: the latest entry that is due comes first.           *)
RingLast ==
  /\ Top("queue")
  /\ \E x \in queue :
       /\ x[1] < simTime /\ \A y \in queue : y[1] <= x[1] \/ y[1] >= simTime
       /\ RemoveFromQueue(x[2])
       /\ stack' = <<BodyOf(x[2]), [do |-> "queue", ev |-> x[2]]>> \o Tail(stack)
  /\ UNCHANGED <<simTime, wireVars, heldVars, result, phase>>

RingNext ==
  /\ Top("queue")
  /\ \E x \in queue :
       /\ First(x) /\ x[1] < simTime
       /\ RemoveFromQueue(x[2])
       /\ stack' = <<BodyOf(x[2]), [do |-> "queue", ev |-> x[2]]>> \o Tail(stack)
  /\ UNCHANGED <<simTime, wireVars, heldVars, result, phase>>

EndCheckQueue ==
  /\ Top("queue")
  /\ \A x \in queue : x[1] >= simTime
  /\ stack' = Tail(stack)
  /\ UNCHANGED <<simTime, queueVars, wireVars, heldVars, result, phase>>

RunTop ==
  \/ RunCommand
  \/ Refuse
  \/ LaunchNext
  \/ EndSetState
  \/ EndRelease
  \/ RingNext
  \/ EndCheckQueue
-----------------------------------------------------------------------------
(* The frame loop *)

(* A script or a key gives a command, a click on a model launches an event.*)
Input(c) ==
  /\ stack = <<>> /\ phase = "input"
  /\ Call(c, <<>>)
  /\ UNCHANGED phase

(* nWorld::Update, up to the physics.                                      *)
StartUpdate(dt) ==
  /\ stack = <<>> /\ phase = "input"
  /\ simTime + dt <= MaxTime
  /\ simTime' = simTime + dt
  /\ phase' = "update"
  /\ UNCHANGED <<queueVars, wireVars, heldVars, stack, result>>

(* Vehicles and the network call Execute() itself, which leaves an entry   *)
(* of the event in the queue.                                              *)
ExecuteDirectly(e) ==
  /\ stack = <<>>
  /\ stack' = <<BodyOf(e)>>
  /\ UNCHANGED <<simTime, queueVars, wireVars, heldVars, result, phase>>

(* The stop of a train launches the events of the departure (554-573).     *)
Depart(e, delay) ==
  /\ stack = <<>> /\ phase = "update"
  /\ Execute(e, delay, <<>>)
  /\ UNCHANGED <<simTime, wireVars, heldVars, phase>>

CheckQueue ==
  /\ stack = <<>> /\ phase = "update"
  /\ stack' = <<[do |-> "queue", ev |-> NoEvent]>>
  /\ phase' = "input"
  /\ UNCHANGED <<simTime, queueVars, wireVars, heldVars, result>>

Next ==
  \/ RunTop
  \/ \E c \in Commands : Input(c)
  \/ \E dt \in FrameTimes : StartUpdate(dt)
  \/ \E e \in Events : ExecuteDirectly(e) \/ \E d \in Delays : Depart(e, d)
  \/ CheckQueue

Spec == Init /\ [][Next]_vars

(* The thread that runs a call runs it to its end.                         *)
FairSpec == Spec /\ WF_vars(RunTop)
-----------------------------------------------------------------------------
(* Properties *)

(* The queue holds exactly the entries the events point at: erase never    *)
(* gets an iterator that is gone (298-301), no event waits twice, and none *)
(* waits that abort() cannot find.                                         *)
QueueIndexed ==
  queue = {<<iterator[e], e>> : e \in {f \in Events : inQueue[f]}}

(* The queue as a function, and the event CheckQueue let ring last, which  *)
(* its frame at the bottom of the stack remembers.                         *)
Due == [e \in {x[2] : x \in queue} |-> (CHOOSE x \in queue : x[2] = e)[1]]

Bottom(calls) ==
  IF calls # <<>> /\ calls[Len(calls)].do = "queue" THEN calls[Len(calls)].ev
                                                   ELSE NoEvent

(* The queue keeps the promises of Timers: whatever the events that ring   *)
(* do to the queue, each rings once, late, in order and for its last       *)
(* launch only.                                                            *)
Alarms ==
  INSTANCE Timers WITH
    due     <- Due,
    now     <- simTime,
    rung    <- Bottom(stack),
    Silence <- NoEvent
TimersSpec == Alarms!Spec

(* Every call ends, the frame with it, as long as no chain of launches     *)
(* without delay leads back to its start: an event that relaunches itself  *)
(* with a delay waits for a later frame, it does not hold CheckQueue.      *)
FrameEnds == (stack # <<>>) ~> (stack = <<>>)

(* Events that relaunch themselves and that nobody stops.                  *)
Perpetual ==
  {e \in Events :
     /\ Launches[e] # NoEvent /\ Launches[e][1] = e /\ Launches[e][2] > 0
     /\ \A i \in DOMAIN Body[e] : ~Boolean(Body[e][i])
     /\ \A c \in Commands : c.op \in {"abort", "setlaunchevent"} => c.ev # e}

(* Such an event waits between any two calls once it has been launched:    *)
(* its removal from the queue never takes its own next launch away.        *)
KeepsRepeating ==
  \A e \in Perpetual : [](inQueue[e] => [](stack = <<>> => inQueue[e]))

(* The momentary holders are the buttons of the cab: a key or the mouse    *)
(* presses one, its next release lets pressed go (323-329).  A button that *)
(* is still down while pressed no longer names it will not be let go.      *)
SetUnderWay(h) == [do |-> "state", holder |-> h] \in Range(stack)

Held(h)      == momentary[h] /\ state[h] # 0
Forgotten(h) == Held(h) /\ pressed # h /\ ~SetUnderWay(h)

(* The scripts of the cab (utilities.tcl:166-196, 303e_ctrl.tcl:72-90) wire*)
(* the release of a button to events that set no holder, neither at once   *)
(* nor by what they launch at once, and make no holder momentary later.    *)
AtOnce(launch, events) ==
  launch # NoEvent /\ launch[2] = 0 => launch[1] \in events

Sets(c) == c.op \in {"setstate", "changestate", "releasemomentary"}

QuietEvents(quiet) ==
  /\ quiet \subseteq Events
  /\ \A e \in quiet :
       /\ AtOnce(Launches[e], quiet)
       /\ \A i \in DOMAIN Body[e] :
            LET c == Body[e][i]
            IN  ~Sets(c) /\ (c.op = "exec" => AtOnce(<<c.ev, c.delay>>, quiet))
  /\ \A h \in Momentary :
       0 \in DOMAIN StateEvents[h] => AtOnce(StateEvents[h][0], quiet)
  /\ \A c \in Commands :
       /\ c.op = "setmomentary" => ~c.on
       /\ c.op = "setlaunchevent" /\ c.ev \in quiet => AtOnce(c.to, quiet)
       /\ c.op = "addstate" /\ c.holder \in Momentary /\ c.state = 0 =>
            AtOnce(c.to, quiet)

ReleaseIsQuiet == \E quiet \in SUBSET Events : QuietEvents(quiet)

(* A button that is down is forgotten in one way only: pressed named it and*)
(* now names another that is down too.  No other call takes pressed away,  *)
(* the release of one button never forgets another, and none is forgotten  *)
(* because the events that its states launch set it again.                 *)
ForgottenOnlyForAnother ==
  [][\A h \in Holders :
       ~Forgotten(h) /\ Forgotten(h)' =>
         pressed = h /\ \E g \in Holders \ {h} : pressed' = g /\ Held(g)']_vars
=============================================================================
