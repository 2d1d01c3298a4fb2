------------------------------- MODULE Session -------------------------------
(***************************************************************************)
(* A session as one simulator sees it: the server (SessionServer) and the  *)
(* simulator's nDPlayClient (ndplayclient_main.cc).  The other players are *)
(* simulators too, but what they make of their messages is seen by nobody. *)
(*                                                                         *)
(* The client has two threads that meet at msgQueue only: DirectPlay's,    *)
(* which queues what was received, and the frame loop, which handles it.   *)
(* Handling a message is one step: the loop holds csPlayerContext, for     *)
(* which PushMessage waits, and nobody else looks at the trains.           *)
(*                                                                         *)
(* The simulator may connect again; to the server each connection is a     *)
(* player of its own, and netTrains, the id and the queue outlive it.      *)
(* Composed are the messages that say who is there: MOVETO, EVENT and      *)
(* TRAIN_EVENT change neither the id nor the set of trains.                *)
(***************************************************************************)
EXTENDS SessionServer

CONSTANTS
  Mine,     \* the connections the simulator makes
  Leavers,  \* bound: the players that may leave the session
  NameOf    \* the name of each player, which need not be unique

ASSUME SessionAssumption ==
  /\ Mine \subseteq Players
  /\ DOMAIN NameOf = Players
  /\ Reports = {}

VARIABLES
  handled,    \* how many messages of this connection are handled
  queue,      \* what earlier connections have left in msgQueue
  self,       \* dpnidLocalPlayer, initially 0
  netTrains,  \* the ids of netTrains
  halted      \* n_assert(pTrack) has ended the simulator

clientVars  == <<handled, queue, self, netTrains, halted>>
sessionVars == <<vars, clientVars>>

NoId == Nobody

ClientTypeOK ==
  /\ TypeOK
  /\ handled \in Nat
  /\ \A p \in Mine \cap Connected : handled <= Len(inbox[p])
  /\ queue \in Seq(Message)
  /\ self \in Mine \cup {NoId}
  /\ netTrains \subseteq Players
  /\ halted \in BOOLEAN

SessionInit ==
  /\ Init
  /\ handled = 0
  /\ queue = <<>>
  /\ self = NoId
  /\ netTrains = {}
  /\ halted = FALSE

-----------------------------------------------------------------------------
(* The connection *)

(* Bound: the simulator connects again when the server is done with its    *)
(* last connection.  (Connect fails while the client is connected.)        *)
MayConnect(p) ==
  p \in Mine => ~halted /\ \A q \in Mine \ {p} : pc[q] \in {"none", "gone"}

Connect(p) ==
  /\ MayConnect(p)
  /\ Join(p)
  /\ UNCHANGED clientVars

(* disconnect(), or the connection is lost.  The queue is not cleared: of  *)
(* the messages not handled yet those that were pushed stay.               *)
LoseConnection(p) ==
  /\ p \in Leavers
  /\ Disconnect(p)
  /\ IF p \in Mine
     THEN /\ \E pushed \in handled..Len(inbox[p]) :
               queue' = queue \o SubSeq(inbox[p], handled + 1, pushed)
          /\ handled' = 0
     ELSE UNCHANGED <<handled, queue>>
  /\ UNCHANGED <<self, netTrains, halted>>

-----------------------------------------------------------------------------
(* ProcessPendingMessages *)

(* The message at the front of msgQueue, if there is one: what was left,   *)
(* then what comes on this connection, in order.                           *)
FrontOfQueue ==
  IF queue # <<>>
  THEN {Head(queue)}
  ELSE {inbox[p][handled + 1] :
          p \in {q \in Mine \cap Connected : handled < Len(inbox[q])}}

(* The front of msgQueue is taken off.                                     *)
Pop(m) ==
  /\ ~halted
  /\ m \in FrontOfQueue
  /\ IF queue # <<>> THEN queue' = Tail(queue) /\ UNCHANGED handled
                     ELSE handled' = handled + 1 /\ UNCHANGED queue
  /\ UNCHANGED vars

(* SetTrack asserts that the track exists; a garbage trackID may be one.   *)
HandleSetId(m) ==
  /\ Pop(m)
  /\ m.type = "SET_ID"
  /\ self' = m.who
  /\ \/ UNCHANGED halted
     \/ m.pos = Garbage /\ halted' = TRUE
  /\ UNCHANGED netTrains

(* A name is found under the dynamics root if a net train was made for it. *)
NameTaken(p) == \E q \in netTrains : NameOf[q] = NameOf[p]

(* Mutant of IsNewcomer: the id of the own train is not looked at.         *)
IsNewcomerOrSelf(p) == ~NameTaken(p) /\ p \notin netTrains

IsNewcomer(p) == ~NameTaken(p) /\ p \notin netTrains /\ p # self

AddTrain(m) ==
  /\ Pop(m)
  /\ m.type = "CREATE_PLAYER"
  /\ IsNewcomer(m.who)
  /\ m.pos # Unplaced
  /\ netTrains' = netTrains \cup {m.who}
  /\ UNCHANGED <<self, halted>>

(* Getting no train now the player gets none ever.  A garbage position may *)
(* be off every track.                                                     *)
IgnoreTrain(m) ==
  /\ Pop(m)
  /\ m.type = "CREATE_PLAYER"
  /\ ~IsNewcomer(m.who) \/ m.pos \in {Unplaced, Garbage}
  /\ UNCHANGED <<self, netTrains, halted>>

(* The switch has no case for DESTROY_PLAYER: the train stays.             *)
IgnoreDestroyed(m) ==
  /\ Pop(m)
  /\ m.type = "DESTROY_PLAYER"
  /\ UNCHANGED <<self, netTrains, halted>>

ProcessPendingMessages ==
  \E m \in FrontOfQueue :
    HandleSetId(m) \/ AddTrain(m) \/ IgnoreTrain(m) \/ IgnoreDestroyed(m)

-----------------------------------------------------------------------------
ServerStep(p) == Callback(p) /\ UNCHANGED clientVars

SessionNext ==
  \/ \E p \in Players : ServerStep(p) \/ Connect(p) \/ LoseConnection(p)
  \/ ProcessPendingMessages

SessionSpec == SessionInit /\ [][SessionNext]_sessionVars

(* The server's threads and the frame loop keep running, and guaranteed    *)
(* messages arrive.                                                        *)
SessionFairness ==
  /\ \A p \in Players : WF_sessionVars(ServerStep(p))
  /\ WF_sessionVars(ProcessPendingMessages)

FairSessionSpec == SessionSpec /\ SessionFairness
-----------------------------------------------------------------------------
(* Properties *)

(* A simulator never makes a net train of its own player, which would      *)
(* stand inside its own train and follow its own reports: it compares ids  *)
(* (525), and depends on the server to give it its id before it announces  *)
(* it, and on the queue to keep that order across reconnections.           *)
NeverOwnTrain == self \notin netTrains

(* Of two players that stay in the session the simulator of the one that   *)
(* joined first comes to show the train of the other, if that one got a    *)
(* start point.  What may prevent it is a train of that name: of another   *)
(* player so called, or the one an earlier connection has left behind.     *)
LaterIsSeen ==
  \A p \in Players, q \in Mine :
    (\E i, j \in DOMAIN roster :
       i < j /\ roster[i] = q /\ roster[j] = p
             /\ train[p] # NoTrain /\ train[p].sp # NoPoint)
    ~> \/ p \in netTrains
       \/ NameTaken(p)
       \/ {p, q} \ Connected # {}
       \/ halted \/ crashed
=============================================================================
