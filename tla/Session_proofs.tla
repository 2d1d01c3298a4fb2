--------------------------- MODULE Session_proofs ---------------------------
(***************************************************************************)
(* Proofs about Session, for any number of players and of connections the  *)
(* simulator makes one after the other: the composition keeps every        *)
(* promise of the server, the client's variables keep their types, and the *)
(* simulator never makes a net train of itself.                            *)
(*                                                                         *)
(* The last one holds because of what the server tells a connection        *)
(* (ConnectionInv, on top of IInv and MailInv of SessionServer_proofs) and *)
(* because msgQueue keeps the order across connections (ClientInv): for    *)
(* each CREATE_PLAYER about an own player that is still in the queue, the  *)
(* id in force when the loop will come to it is that player's.             *)
(***************************************************************************)
EXTENDS Session, SessionServer_proofs

(* The server's side: of the simulator's connections one is in use, and    *)
(* the messages of a connection name no other connection of the simulator. *)
InUse == {p \in Mine : pc[p] \notin {"none", "gone"}}

OneInUse == \A p, q \in InUse : p = q

NotOfMine ==
  \A p \in Mine : /\ pc[p] \in {"world", "tell"} => todo[p] \cap Mine = {}
                  /\ pc[p] = "tell" => about[p] \notin Mine

OwnMail(p) ==
  \A i \in DOMAIN inbox[p] :
    LET m == inbox[p][i]
    IN  /\ m.type = "SET_ID" => m.who = p
        /\ m.type = "CREATE_PLAYER" /\ m.who \in Mine => m.who = p

ConnectionInv == OneInUse /\ NotOfMine /\ \A p \in Mine : OwnMail(p)

(* The client's side.  Messages of this connection are handled when those  *)
(* of earlier ones are, and once SET_ID has been the id is this            *)
(* connection's.                                                           *)
Backlog ==
  /\ Mine \cap Connected = {} => handled = 0
  /\ handled > 0 => queue = <<>>

IdOfConnection ==
  \A p \in Mine \cap Connected : \A i \in DOMAIN inbox[p] :
    i <= handled /\ inbox[p][i].type = "SET_ID" => self = p

(* From position k on the SET_IDs before position i are those of p.        *)
OnlyIds(p, k, i) ==
  \A l \in DOMAIN queue :
    k <= l /\ l < i /\ queue[l].type = "SET_ID" => queue[l].who = p

(* When the loop comes to position i the id will be p.                     *)
InForce(p, i) ==
  \/ self = p /\ OnlyIds(p, 1, i)
  \/ \E k \in DOMAIN queue :
       /\ k < i /\ queue[k].type = "SET_ID" /\ queue[k].who = p
       /\ OnlyIds(p, k, i)

QueueInv ==
  /\ \A i \in DOMAIN queue : queue[i].type = "SET_ID" => queue[i].who \in Mine
  /\ \A p \in Mine, i \in DOMAIN queue :
       queue[i].type = "CREATE_PLAYER" /\ queue[i].who = p => InForce(p, i)

ClientInv ==
  /\ Backlog
  /\ IdOfConnection
  /\ QueueInv
  /\ netTrains \cap Mine = {}

-----------------------------------------------------------------------------
(* The composition takes only steps of the server                          *)

LEMMA SessionSteps ==
  ASSUME [SessionNext]_sessionVars
  PROVE  \/ UNCHANGED sessionVars
         \/ ProcessPendingMessages
         \/ \E p \in Players : ServerStep(p) \/ Connect(p) \/ LoseConnection(p)
  BY DEF SessionNext

LEMMA HandlingLeavesServer ==
  ASSUME ProcessPendingMessages PROVE UNCHANGED vars
  BY DEF ProcessPendingMessages, HandleSetId, AddTrain, IgnoreTrain, IgnoreDestroyed,
     Pop

LEMMA StepOfServer == [SessionNext]_sessionVars => [Next]_vars
<1> SUFFICES ASSUME [SessionNext]_sessionVars PROVE [Next]_vars
  OBVIOUS
<1>1. ASSUME NEW p \in Players, ServerStep(p) PROVE Next
  BY <1>1 DEF ServerStep, Next
<1>2. ASSUME NEW p \in Players, Connect(p) PROVE Next
  BY <1>2 DEF Connect, Next, Network
<1>3. ASSUME NEW p \in Players, LoseConnection(p) PROVE Next
  BY <1>3 DEF LoseConnection, Next, Network
<1>4. CASE UNCHANGED sessionVars
  BY <1>4 DEF sessionVars
<1> QED
  BY <1>1, <1>2, <1>3, <1>4, SessionSteps, HandlingLeavesServer

(* With the client attached the server behaves as it does alone: all that  *)
(* is proved of SessionServer holds of a session.                          *)
THEOREM SessionServes == SessionSpec => Spec
<1>1. SessionInit => Init
  BY DEF SessionInit
<1> QED
  BY <1>1, StepOfServer, PTL DEF SessionSpec, Spec

-----------------------------------------------------------------------------
(* The server's side: ConnectionInv                                        *)

(* What a callback sends, and to whom.                                     *)
Sent(p, q, m) ==
  /\ inbox'[q] = Append(inbox[q], m)
  /\ m.type = "SET_ID" => m.who = q
  /\ m.type = "CREATE_PLAYER" =>
       \/ pc[p] = "announce" /\ q \in Connected /\ m.who = p
       \/ pc[p] = "tell" /\ q = p /\ m.who = about[p]

LEMMA CallbackMessages ==
  ASSUME IInv, NEW p \in Players, Callback(p), NEW q \in Players
  PROVE  inbox'[q] = inbox[q] \/ \E m \in Message : Sent(p, q, m)
<1>1. train[p] \in Train \/ train[p] = NoTrain
  BY DEF IInv, TypeOK
<1>2. CASE \/ Quiet \/ EnumPlayers(p)
           \/ \E r \in Players : SkipPlayer(p, r) \/ FetchContext(p, r)
  BY <1>2 DEF Quiet, EnumPlayers, SkipPlayer, FetchContext, netVars
<1>3. CASE SendSetId(p)
  <2> DEFINE x == IF train[p].sp = NoPoint THEN Garbage ELSE train[p].sp
             m == [type |-> "SET_ID", who |-> p, pos |-> x]
  <2>1. m \in Message
    <3>1. train[p] \in Train
      BY <1>3 DEF SendSetId, Goto, IInv, TypeOK, TrainLifetime, HasTrain, Creating
    <3>2. x \in Positions
      BY <3>1, PointsAreNats DEF Train, NoPoint
    <3> QED
      BY <3>2, MessageTypes
  <2>2. m.type = "SET_ID" /\ m.who = p
    OBVIOUS
  <2>3. SendTo(p, m) \/ UNCHANGED inbox
    BY <1>3 DEF SendSetId
  <2> HIDE DEF m
  <2> QED
    BY <2>1, <2>2, <2>3 DEF SendTo, Sent, IInv, TypeOK
<1>4. CASE TellAbout(p)
  <2> DEFINE a == about[p]
             x == IF train[a] = NoTrain THEN Garbage ELSE train[a].pos
             m == CreateMsg(a, x)
  <2>1. pc[p] = "tell" /\ a \in Players
    BY <1>4, Ground DEF TellAbout, Goto
  <2>2. m \in Message
    <3>1. x \in Positions
      BY <2>1, PointsAreNats DEF IInv, TypeOK, Train
    <3> QED
      BY <2>1, <3>1, MessageTypes
  <2>3. m.type = "CREATE_PLAYER" /\ m.who = a
    BY DEF CreateMsg
  <2>4. SendTo(p, m) \/ UNCHANGED inbox
    BY <1>4 DEF TellAbout
  <2> HIDE DEF m
  <2> QED
    BY <2>1, <2>2, <2>3, <2>4 DEF SendTo, Sent, IInv, TypeOK
<1>5. CASE Announce(p)
  <2> DEFINE m == CreateMsg(p, train[p].pos)
  <2>1. pc[p] = "announce"
    BY <1>5 DEF Announce, Goto
  <2>2. m \in Message
    <3>1. train[p] \in Train
      BY <2>1 DEF IInv, TypeOK, TrainLifetime, HasTrain, Creating
    <3> QED
      BY <3>1, MessageTypes DEF Train
  <2>3. m.type = "CREATE_PLAYER" /\ m.who = p
    BY DEF CreateMsg
  <2>4. SendToAll(m)
    BY <1>5 DEF Announce
  <2> HIDE DEF m
  <2> QED
    BY <2>1, <2>2, <2>3, <2>4 DEF SendToAll, Sent
<1>6. CASE SendDestroy(p)
  <2> DEFINE m == [type |-> "DESTROY_PLAYER", who |-> p]
  <2>1. m \in Message /\ m.type = "DESTROY_PLAYER"
    BY PointsAreNats, MessageTypes
  <2>2. SendToAll(m)
    BY <1>6 DEF SendDestroy
  <2> HIDE DEF m
  <2> QED
    BY <2>1, <2>2 DEF SendToAll, Sent
<1> QED
  BY <1>2, <1>3, <1>4, <1>5, <1>6, Ground, CallbackSends

(* A callback leaves the table alone, and neither begins nor comes back.   *)
LEMMA CallbackFrame ==
  ASSUME IInv, NEW p \in Players, Callback(p)
  PROVE  /\ UNCHANGED roster /\ Connected' = Connected
         /\ \A q \in Players : pc[q] \in {"none", "gone"} => pc'[q] = pc[q]
<1>1. UNCHANGED roster
  BY DEF Callback, IgnoreCreate, NewTrain, EnterPlayerLock, FindStartPoint,
     ClaimStartPoint, LeavePlayerLock, SendSetId, EnumPlayers, SkipPlayer,
     FetchContext, TellAbout, EndWorldState, Announce, ReturnFromCreate,
     RouteMoveTo, Route, IgnoreDestroy, Destroy, SendDestroy, ReleaseStartPoint,
     CrashOnRelease, DeleteTrain
<1>2. \A q \in Players : pc[q] \in {"none", "gone"} => pc'[q] = pc[q]
  BY Ground DEF Goto, Callback, IgnoreCreate, NewTrain, EnterPlayerLock, FindStartPoint,
     ClaimStartPoint, LeavePlayerLock, SendSetId, EnumPlayers, SkipPlayer,
     FetchContext, TellAbout, EndWorldState, Announce, ReturnFromCreate,
     RouteMoveTo, Route, IgnoreDestroy, Destroy, SendDestroy, ReleaseStartPoint,
     CrashOnRelease, DeleteTrain
<1> QED
  BY <1>1, <1>2 DEF Connected

LEMMA ConnectedInUse ==
  ASSUME MailInv, OneInUse
  PROVE  /\ Mine \cap Connected \subseteq InUse
         /\ \A p, q \in Mine \cap Connected : p = q
  BY DEF MailInv, Table, InUse, OneInUse, Creating, Receiving

LEMMA OwnMailAppend ==
  ASSUME TypeOK, NEW p \in Players, NEW m \in Message, OwnMail(p),
         inbox'[p] = Append(inbox[p], m),
         m.type = "SET_ID" => m.who = p,
         m.type = "CREATE_PLAYER" /\ m.who \in Mine => m.who = p
  PROVE  OwnMail(p)'
<1> DEFINE s == inbox[p]
           n == Len(s)
<1>1. s \in Seq(Message) /\ n \in Nat /\ DOMAIN s = 1..n
  BY LenProperties DEF TypeOK
<1>2. /\ Append(s, m) \in Seq(Message) /\ Len(Append(s, m)) = n + 1
      /\ Append(s, m)[n + 1] = m /\ \A i \in 1..n : Append(s, m)[i] = s[i]
  BY <1>1, AppendProperties
<1>3. DOMAIN inbox'[p] = 1..(n + 1)
  BY <1>2, LenProperties
<1> HIDE DEF n
<1>4. ASSUME NEW i \in 1..(n + 1)
      PROVE  /\ inbox'[p][i].type = "SET_ID" => inbox'[p][i].who = p
             /\ inbox'[p][i].type = "CREATE_PLAYER" /\ inbox'[p][i].who \in Mine
                  => inbox'[p][i].who = p
  <2>1. CASE i = n + 1
    BY <2>1, <1>2
  <2>2. CASE i \in 1..n
    BY <2>2, <1>1, <1>2 DEF OwnMail
  <2> QED
    BY <2>1, <2>2, <1>1
<1> QED
  BY <1>3, <1>4 DEF OwnMail

(* No two connections are in use: MayConnect waits for the last one.       *)
LEMMA ConnectConnection ==
  ASSUME IInv, ConnectionInv, NEW p \in Players, Connect(p)
  PROVE  ConnectionInv'
<1>1. /\ pc[p] = "none" /\ pc'[p] = "create" /\ MayConnect(p)
      /\ \A q \in Players \ {p} : pc'[q] = pc[q]
      /\ UNCHANGED <<inbox, todo, about>>
  BY Ground DEF Connect, Join, Goto, netVars, sendVars
<1>2. OneInUse'
  <2>0. Mine \subseteq Players
    BY SessionAssumption
  <2>1. CASE p \notin Mine
    BY <2>0, <2>1, <1>1 DEF ConnectionInv, OneInUse, InUse
  <2>2. CASE p \in Mine
    <3>1. \A q \in Mine \ {p} : pc'[q] \in {"none", "gone"}
      BY <2>0, <2>2, <1>1 DEF MayConnect
    <3> QED
      BY <3>1 DEF OneInUse, InUse
  <2> QED
    BY <2>1, <2>2
<1>3. NotOfMine'
  BY <1>1, SessionAssumption DEF ConnectionInv, NotOfMine
<1>4. \A q \in Mine : OwnMail(q)'
  BY <1>1 DEF ConnectionInv, OwnMail
<1> QED
  BY <1>2, <1>3, <1>4 DEF ConnectionInv

LEMMA LoseConnectionConnection ==
  ASSUME IInv, ConnectionInv, NEW p \in Players, LoseConnection(p)
  PROVE  ConnectionInv'
<1>1. /\ UNCHANGED <<pc, todo, about>> /\ inbox'[p] = <<>>
      /\ \A q \in Players \ {p} : inbox'[q] = inbox[q]
  BY DEF LoseConnection, Disconnect, sendVars, IInv, TypeOK
<1>2. OneInUse' /\ NotOfMine'
  BY <1>1 DEF ConnectionInv, OneInUse, InUse, NotOfMine
<1>3. ASSUME NEW q \in Mine PROVE OwnMail(q)'
  <2>1. CASE q = p
    BY <2>1, <1>1 DEF OwnMail
  <2>2. CASE q # p
    BY <2>2, <1>1, SessionAssumption DEF ConnectionInv, OwnMail
  <2> QED
    BY <2>1, <2>2
<1> QED
  BY <1>2, <1>3 DEF ConnectionInv

(* A newcomer that enumerates the players finds no other own connection.   *)
LEMMA CallbackNotOfMine ==
  ASSUME IInv, MailInv, ConnectionInv, NEW p \in Players, Callback(p)
  PROVE  NotOfMine'
<1>0. Mine \subseteq Players
  BY SessionAssumption
<1>1. CASE Quiet
  <2>1. UNCHANGED <<todo, about>>
    BY <1>1 DEF Quiet
  <2>2. \A q \in Players : pc'[q] \in {"world", "tell"} => pc'[q] = pc[q]
    BY <1>1, Ground DEF Quiet, Harmless, Goto
  <2> QED
    BY <1>0, <2>1, <2>2 DEF ConnectionInv, NotOfMine
<1>2. CASE EnumPlayers(p)
  <2>1. /\ pc[p] = "enum" /\ pc'[p] = "world" /\ todo'[p] = Connected \ {p}
        /\ \A q \in Players \ {p} : pc'[q] = pc[q] /\ todo'[q] = todo[q]
        /\ UNCHANGED about
    BY <1>2, Ground DEF EnumPlayers, Goto
  <2>2. p \in Mine => (Connected \ {p}) \cap Mine = {}
    BY <2>1, ConnectedInUse DEF ConnectionInv, OneInUse, InUse
  <2> QED
    BY <1>0, <2>1, <2>2 DEF ConnectionInv, NotOfMine
<1>3. ASSUME NEW q \in Players, SkipPlayer(p, q) PROVE NotOfMine'
  BY <1>0, <1>3, Ground DEF SkipPlayer, ConnectionInv, NotOfMine
<1>4. ASSUME NEW q \in Players, FetchContext(p, q) PROVE NotOfMine'
  BY <1>0, <1>4, Ground DEF FetchContext, Goto, ConnectionInv, NotOfMine
<1>5. CASE SendSetId(p) \/ TellAbout(p) \/ Announce(p) \/ SendDestroy(p)
  <2>1. /\ pc'[p] \in {"enum", "world", "return", "dlock"}
        /\ pc'[p] = "world" => pc[p] = "tell"
        /\ \A q \in Players \ {p} : pc'[q] = pc[q] /\ about'[q] = about[q]
        /\ UNCHANGED todo
    BY <1>5, Ground DEF SendSetId, TellAbout, Announce, SendDestroy, Goto, sendVars
  <2> QED
    BY <1>0, <2>1 DEF ConnectionInv, NotOfMine
<1> QED
  BY <1>1, <1>2, <1>3, <1>4, <1>5, Ground, CallbackSends

LEMMA CallbackConnection ==
  ASSUME IInv, MailInv, ConnectionInv, NEW p \in Players, Callback(p)
  PROVE  ConnectionInv'
<1>1. OneInUse'
  BY CallbackFrame, SessionAssumption DEF ConnectionInv, OneInUse, InUse
<1>2. ASSUME NEW q \in Mine PROVE OwnMail(q)'
  <2>1. q \in Players /\ OwnMail(q)
    BY SessionAssumption DEF ConnectionInv
  <2>2. CASE inbox'[q] = inbox[q]
    BY <2>1, <2>2 DEF OwnMail
  <2>3. ASSUME NEW m \in Message, Sent(p, q, m) PROVE OwnMail(q)'
    <3>1. m.type = "CREATE_PLAYER" /\ m.who \in Mine => m.who = q
      <4>1. CASE pc[p] = "announce" /\ q \in Connected /\ m.who = p
        BY <4>1, <2>1, ConnectedInUse DEF ConnectionInv, OneInUse, InUse
      <4>2. CASE pc[p] = "tell" /\ q = p /\ m.who = about[p]
        BY <4>2 DEF ConnectionInv, NotOfMine
      <4> QED
        BY <4>1, <4>2, <2>3 DEF Sent
    <3> QED
      BY <2>1, <2>3, <3>1, OwnMailAppend, Ground DEF Sent
  <2> QED
    BY <2>1, <2>2, <2>3, CallbackMessages
<1> QED
  BY <1>1, <1>2, CallbackNotOfMine DEF ConnectionInv

LEMMA NextConnection ==
  ASSUME IInv, MailInv, ConnectionInv, [SessionNext]_sessionVars PROVE ConnectionInv'
<1>1. CASE UNCHANGED vars
  <2>1. UNCHANGED <<pc, inbox, todo, about>>
    BY <1>1 DEF vars, netVars, sendVars
  <2> QED
    BY <2>1 DEF ConnectionInv, OneInUse, InUse, NotOfMine, OwnMail
<1>2. ASSUME NEW p \in Players, ServerStep(p) PROVE ConnectionInv'
  BY <1>2, CallbackConnection DEF ServerStep
<1> QED
  BY <1>1, <1>2, SessionSteps, HandlingLeavesServer, ConnectConnection,
     LoseConnectionConnection DEF sessionVars

-----------------------------------------------------------------------------
(* The client's side: ClientInv                                            *)

ClientIInv == IInv /\ MailInv /\ ConnectionInv /\ ClientTypeOK /\ ClientInv

LEMMA MyMail ==
  ASSUME ClientIInv, NEW p \in Mine
  PROVE  /\ p \in Players /\ inbox[p] \in Seq(Message)
         /\ Len(inbox[p]) \in Nat /\ DOMAIN inbox[p] = 1..Len(inbox[p])
         /\ IdFirst(p) /\ OwnMail(p)
         /\ handled \in Nat /\ (p \in Connected => handled <= Len(inbox[p]))
<1>1. p \in Players
  BY SessionAssumption
<1>2. inbox[p] \in Seq(Message)
  BY <1>1 DEF ClientIInv, IInv, TypeOK
<1>3. IdFirst(p)
  BY <1>1 DEF ClientIInv, MailInv, SetIdBeforeOwnCreate, IdFirst
<1> QED
  BY <1>1, <1>2, <1>3, LenProperties DEF ClientIInv, ConnectionInv, ClientTypeOK

(* What is handled of a connection stays handled when more is sent to it.  *)
LEMMA MoreMail ==
  ASSUME ClientIInv, UNCHANGED clientVars, Connected' = Connected, TypeOK',
         \A p \in Mine \cap Connected :
           \/ inbox'[p] = inbox[p]
           \/ \E m \in Message : inbox'[p] = Append(inbox[p], m)
  PROVE  ClientTypeOK' /\ ClientInv'
<1>1. ASSUME NEW p \in Mine \cap Connected
      PROVE  /\ Len(inbox'[p]) \in Nat /\ Len(inbox[p]) <= Len(inbox'[p])
             /\ \A i \in 1..Len(inbox[p]) : inbox'[p][i] = inbox[p][i]
             /\ DOMAIN inbox'[p] = 1..Len(inbox'[p])
  <2>1. inbox[p] \in Seq(Message) /\ Len(inbox[p]) \in Nat
        /\ DOMAIN inbox[p] = 1..Len(inbox[p])
    BY MyMail
  <2>2. CASE inbox'[p] = inbox[p]
    BY <2>1, <2>2
  <2>3. ASSUME NEW m \in Message, inbox'[p] = Append(inbox[p], m)
        PROVE  /\ Len(inbox'[p]) \in Nat /\ Len(inbox[p]) <= Len(inbox'[p])
               /\ \A i \in 1..Len(inbox[p]) : inbox'[p][i] = inbox[p][i]
               /\ DOMAIN inbox'[p] = 1..Len(inbox'[p])
    <3>1. /\ Append(inbox[p], m) \in Seq(Message)
          /\ Len(Append(inbox[p], m)) = Len(inbox[p]) + 1
          /\ \A i \in 1..Len(inbox[p]) : Append(inbox[p], m)[i] = inbox[p][i]
      BY <2>1, AppendProperties
    <3>2. DOMAIN Append(inbox[p], m) = 1..Len(Append(inbox[p], m))
      BY <3>1, LenProperties
    <3> QED
      BY <2>1, <2>3, <3>1, <3>2
  <2> QED
    BY <2>2, <2>3
<1>2. UNCHANGED <<handled, queue, self, netTrains, halted>>
  BY DEF clientVars
<1>3. \A p \in Mine \cap Connected : /\ handled \in Nat /\ handled <= Len(inbox[p])
                                     /\ Len(inbox[p]) \in Nat
                                     /\ DOMAIN inbox[p] = 1..Len(inbox[p])
  BY MyMail
<1>4. ClientTypeOK'
  <2>1. \A p \in Mine \cap Connected : handled <= Len(inbox'[p])
    BY <1>1, <1>3
  <2> QED
    BY <1>2, <2>1 DEF ClientIInv, ClientTypeOK
<1>5. IdOfConnection'
  <2> SUFFICES ASSUME NEW p \in Mine \cap Connected, NEW i \in DOMAIN inbox'[p],
                      i <= handled, inbox'[p][i].type = "SET_ID"
               PROVE  self = p
    BY <1>2 DEF IdOfConnection
  <2>1. i \in 1..Len(inbox[p])
    BY <1>1, <1>3
  <2>2. inbox[p][i].type = "SET_ID" /\ i \in DOMAIN inbox[p]
    BY <2>1, <1>1, <1>3
  <2> QED
    BY <2>2 DEF ClientIInv, ClientInv, IdOfConnection
<1>6. Backlog' /\ QueueInv' /\ (netTrains \cap Mine = {})'
  BY <1>2 DEF ClientIInv, ClientInv, Backlog, QueueInv, InForce, OnlyIds
<1> QED
  BY <1>4, <1>5, <1>6 DEF ClientInv

LEMMA CallbackClient ==
  ASSUME ClientIInv, TypeOK', NEW p \in Players, ServerStep(p)
  PROVE  ClientTypeOK' /\ ClientInv'
<1>1. Connected' = Connected /\ UNCHANGED clientVars
  BY CallbackFrame DEF ServerStep, ClientIInv
<1>2. \A q \in Mine \cap Connected :
        \/ inbox'[q] = inbox[q]
        \/ \E m \in Message : inbox'[q] = Append(inbox[q], m)
  BY CallbackMessages, SessionAssumption DEF ServerStep, ClientIInv, Sent
<1> QED
  BY <1>1, <1>2, MoreMail

(* A new connection begins with nothing handled.                           *)
LEMMA ConnectClient ==
  ASSUME ClientIInv, TypeOK', NEW p \in Players, Connect(p)
  PROVE  ClientTypeOK' /\ ClientInv'
<1>1. /\ pc[p] = "none" /\ MayConnect(p) /\ roster' = Append(roster, p)
      /\ UNCHANGED <<inbox, handled, queue, self, netTrains, halted>>
  BY DEF Connect, Join, Goto, netVars, clientVars
<1>2. Connected' = Connected \cup {p}
  BY <1>1, JoinTable DEF ClientIInv, IInv
<1>3. p \in Mine => handled = 0
  <2>1. p \in Mine => Mine \cap Connected = {}
    BY <1>1, ConnectedInUse DEF ClientIInv, ConnectionInv, InUse, MayConnect
  <2> QED
    BY <2>1 DEF ClientIInv, ClientInv, Backlog
<1>4. Len(inbox[p]) \in Nat
  BY LenProperties DEF ClientIInv, IInv, TypeOK
<1>5. ClientTypeOK'
  <2>1. \A q \in Mine \cap Connected' : handled <= Len(inbox[q])
    BY <1>2, <1>3, <1>4 DEF ClientIInv, ClientTypeOK
  <2> QED
    BY <1>1, <2>1 DEF ClientIInv, ClientTypeOK
<1>6. IdOfConnection'
  <2>1. CASE p \in Mine
    <3>1. handled = 0
      BY <2>1, <1>3
    <3>2. \A q \in Mine : \A i \in DOMAIN inbox[q] : ~(i <= 0)
      BY MyMail
    <3> QED
      BY <1>1, <3>1, <3>2 DEF IdOfConnection
  <2>2. CASE p \notin Mine
    BY <2>2, <1>1, <1>2 DEF ClientIInv, ClientInv, IdOfConnection
  <2> QED
    BY <2>1, <2>2
<1>7. Backlog'
  BY <1>1, <1>2, <1>3 DEF ClientIInv, ClientInv, Backlog
<1>8. QueueInv' /\ (netTrains \cap Mine = {})'
  BY <1>1 DEF ClientIInv, ClientInv, QueueInv, InForce, OnlyIds
<1> QED
  BY <1>5, <1>6, <1>7, <1>8 DEF ClientInv

(* The messages h+1..u of t go behind those of s.                          *)
LEMMA Chunk ==
  ASSUME NEW S, NEW s \in Seq(S), NEW t \in Seq(S),
         NEW h \in Nat, NEW u \in h..Len(t)
  PROVE  LET q == s \o SubSeq(t, h + 1, u)
         IN  /\ q \in Seq(S) /\ Len(s) \in Nat
             /\ DOMAIN s = 1..Len(s) /\ DOMAIN t = 1..Len(t)
             /\ DOMAIN q = 1..(Len(s) + (u - h))
             /\ \A i \in 1..Len(s) : q[i] = s[i]
             /\ \A j \in 1..(u - h) : q[Len(s) + j] = t[h + j]
<1> DEFINE n == Len(s)
           c == SubSeq(t, h + 1, u)
           q == s \o c
<1>1. n \in Nat /\ DOMAIN s = 1..n /\ Len(t) \in Nat /\ DOMAIN t = 1..Len(t)
  BY LenProperties
<1>2. /\ c \in Seq(S) /\ Len(c) = u - h
      /\ \A j \in 1..(u - h) : c[j] = t[h + j]
  <2>1. \A i \in (h + 1)..u : t[i] \in S
    BY <1>1
  <2>2. h + 1 \in Int /\ u \in Int /\ h \in Int /\ h <= u
    BY <1>1
  <2>3. /\ c \in Seq(S) /\ Len(c) = IF h + 1 <= u THEN u - (h + 1) + 1 ELSE 0
        /\ \A j \in 1..(u - (h + 1) + 1) : c[j] = t[(h + 1) + j - 1]
    BY <2>1, <2>2, SubSeqProperties
  <2> HIDE DEF c
  <2>4. u - (h + 1) + 1 = u - h /\ \A j \in 1..(u - h) : (h + 1) + j - 1 = h + j
    BY <2>2
  <2> QED
    BY <2>2, <2>3, <2>4
<1> HIDE DEF c
<1>3. /\ q \in Seq(S) /\ Len(q) = n + (u - h)
      /\ \A i \in 1..(n + (u - h)) : q[i] = IF i <= n THEN s[i] ELSE c[i - n]
  BY <1>2, ConcatProperties
<1>4. DOMAIN q = 1..(n + (u - h))
  BY <1>3, LenProperties
<1> HIDE DEF q, n
<1>5. \A i \in 1..n : q[i] = s[i]
  BY <1>1, <1>3
<1>6. ASSUME NEW j \in 1..(u - h) PROVE q[n + j] = t[h + j]
  <2>1. n + j \in 1..(n + (u - h)) /\ ~(n + j <= n) /\ (n + j) - n = j
    BY <1>1
  <2> QED
    BY <2>1, <1>2, <1>3
<1> QED
  BY <1>1, <1>3, <1>4, <1>5, <1>6 DEF q, c, n

(* The messages of a lost connection that were pushed come behind those of *)
(* earlier ones: a CREATE_PLAYER about its player after a SET_ID, be that  *)
(* still in the queue or handled already.                                  *)
LEMMA PushedQueue ==
  ASSUME ClientIInv, NEW c \in Mine \cap Connected, NEW u \in handled..Len(inbox[c]),
         queue' = queue \o SubSeq(inbox[c], handled + 1, u), UNCHANGED self
  PROVE  QueueInv' /\ queue' \in Seq(Message)
<1> DEFINE n == Len(queue)
           h == handled
           t == inbox[c]
<1>1. /\ t \in Seq(Message) /\ h \in Nat /\ IdFirst(c) /\ OwnMail(c)
      /\ queue \in Seq(Message) /\ Len(t) \in Nat /\ h <= Len(t)
  BY MyMail DEF ClientIInv, ClientTypeOK
<1>2. /\ queue' \in Seq(Message) /\ n \in Nat
      /\ DOMAIN queue = 1..n /\ DOMAIN t = 1..Len(t)
      /\ DOMAIN queue' = 1..(n + (u - h))
      /\ \A i \in 1..n : queue'[i] = queue[i]
      /\ \A j \in 1..(u - h) : queue'[n + j] = t[h + j]
  <2>1. t \in Seq(Message) /\ queue \in Seq(Message) /\ h \in Nat /\ u \in h..Len(t)
    BY <1>1
  <2>2. queue' = queue \o SubSeq(t, h + 1, u)
    OBVIOUS
  <2> HIDE DEF h, t
  <2>3. LET q == queue \o SubSeq(t, h + 1, u)
        IN  /\ q \in Seq(Message) /\ n \in Nat
            /\ DOMAIN queue = 1..n /\ DOMAIN t = 1..Len(t)
            /\ DOMAIN q = 1..(n + (u - h))
            /\ \A i \in 1..n : q[i] = queue[i]
            /\ \A j \in 1..(u - h) : q[n + j] = t[h + j]
    BY <2>1, Chunk
  <2> QED
    BY <2>2, <2>3
<1>3. h > 0 => n = 0 /\ \A i \in 1..h : t[i].type = "SET_ID" => self = c
  BY <1>1, <1>2 DEF ClientIInv, ClientInv, Backlog, IdOfConnection
<1>4. u \in Nat /\ h <= u /\ u <= Len(t)
  BY <1>1
<1>10. \A i \in 1..Len(t) :
         /\ t[i].type = "SET_ID" => t[i].who = c
         /\ t[i].type = "CREATE_PLAYER" /\ t[i].who \in Mine => t[i].who = c
         /\ t[i].type = "CREATE_PLAYER" /\ t[i].who = c
              => \E j \in 1..(i - 1) : t[j].type = "SET_ID"
  BY <1>1, <1>2 DEF OwnMail, IdFirst
<1>11. \A i \in 1..n : queue[i].type = "SET_ID" => queue[i].who \in Mine
  BY <1>2 DEF ClientIInv, ClientInv, QueueInv
<1> HIDE DEF n, h, t
<1>13. n \in Nat /\ h \in Nat /\ u \in Nat /\ Len(t) \in Nat /\ h <= u /\ u <= Len(t)
  BY <1>1, <1>2, <1>4
<1>5. ASSUME NEW i \in 1..(n + (u - h)), i \notin 1..n
      PROVE  i - n \in 1..(u - h) /\ queue'[i] = t[h + (i - n)]
             /\ h + (i - n) \in 1..Len(t)
  <2>1. i - n \in 1..(u - h) /\ n + (i - n) = i /\ h + (i - n) \in 1..Len(t)
    BY <1>1, <1>2, <1>4, <1>5
  <2> QED
    BY <2>1, <1>2
<1>6. ASSUME NEW i \in 1..(n + (u - h)), queue'[i].type = "SET_ID"
      PROVE  queue'[i].who \in Mine
  <2>1. CASE i \in 1..n
    BY <2>1, <1>2, <1>6, <1>11
  <2>2. CASE i \notin 1..n
    <3>1. queue'[i] = t[h + (i - n)] /\ h + (i - n) \in 1..Len(t)
      BY <2>2, <1>5
    <3> QED
      BY <3>1, <1>6, <1>10
  <2> QED
    BY <2>1, <2>2
<1>7. \A k, l \in 1..n : queue'[l] = queue[l]
  BY <1>2
<1>8. ASSUME NEW p \in Mine, NEW i \in 1..n, InForce(p, i) PROVE InForce(p, i)'
  <2>1. ASSUME NEW k, OnlyIds(p, k, i) PROVE OnlyIds(p, k, i)'
    <3> SUFFICES ASSUME NEW l \in 1..(n + (u - h)), k <= l, l < i,
                        queue'[l].type = "SET_ID"
                 PROVE  queue'[l].who = p
      BY <1>2 DEF OnlyIds
    <3>1. l \in 1..n
      BY <1>2
    <3> QED
      BY <3>1, <2>1, <1>2 DEF OnlyIds
  <2>2. 1..n \subseteq 1..(n + (u - h))
    BY <1>1, <1>2, <1>4
  <2>3. CASE self = p /\ OnlyIds(p, 1, i)
    BY <2>1, <2>3 DEF InForce
  <2>4. ASSUME NEW k \in 1..n, k < i, queue[k].type = "SET_ID", queue[k].who = p,
               OnlyIds(p, k, i)
        PROVE  InForce(p, i)'
    <3>1. OnlyIds(p, k, i)' /\ k \in DOMAIN queue' /\ queue'[k] = queue[k]
      BY <2>1, <2>2, <2>4, <1>2
    <3> QED
      BY <3>1, <2>4 DEF InForce
  <2> QED
    BY <2>3, <2>4, <1>2, <1>8 DEF InForce
<1>9. ASSUME NEW i \in 1..(n + (u - h)), i \notin 1..n,
             queue'[i].type = "CREATE_PLAYER", queue'[i].who \in Mine
      PROVE  queue'[i].who = c /\ InForce(c, i)'
  <2>1. PICK x \in 1..Len(t) : queue'[i] = t[x] /\ x = h + (i - n)
    BY <1>5, <1>9
  <2>2. t[x].who = c
    BY <2>1, <1>9, <1>10
  <2>3. PICK j \in 1..(x - 1) : t[j].type = "SET_ID"
    BY <2>1, <2>2, <1>9, <1>10
  <2>4. j \in Nat /\ 1 <= j /\ j < x /\ x <= Len(t) /\ j \in 1..Len(t) /\ x \in Nat
    BY <1>13
  <2>5. t[j].who = c
    BY <2>3, <2>4, <1>10
  <2>6. i \in Nat /\ x = (h + i) - n /\ n < i /\ i <= n + (u - h)
    BY <2>1, <1>9, <1>13
  <2>7. ASSUME NEW k \in Int, n < k PROVE OnlyIds(c, k, i)'
    <3> SUFFICES ASSUME NEW l \in 1..(n + (u - h)), k <= l, l < i,
                        queue'[l].type = "SET_ID"
                 PROVE  queue'[l].who = c
      BY <1>2 DEF OnlyIds
    <3>1. l \notin 1..n
      BY <2>7, <1>13
    <3>2. queue'[l] = t[h + (l - n)] /\ h + (l - n) \in 1..Len(t)
      BY <3>1, <1>5
    <3> QED
      BY <3>2, <1>10
  <2>8. CASE j <= h
    <3>1. h > 0 /\ j \in 1..h
      BY <2>8, <2>4, <1>13
    <3>2. n = 0 /\ self = c
      BY <3>1, <2>3, <1>3
    <3>3. OnlyIds(c, 1, i)'
      BY <3>2, <2>7
    <3> QED
      BY <2>1, <2>2, <3>2, <3>3 DEF InForce
  <2>9. CASE ~(j <= h)
    <3>1. PICK k \in Nat : k = n + (j - h) /\ n < k /\ k < i /\ j - h \in 1..(u - h)
                           /\ h + (j - h) = j /\ k \in 1..(n + (u - h))
      <4>1. /\ n + (j - h) \in Nat /\ n < n + (j - h) /\ n + (j - h) < i
            /\ j - h \in 1..(u - h) /\ h + (j - h) = j
            /\ n + (j - h) \in 1..(n + (u - h))
        BY <2>9, <2>4, <2>6, <1>13
      <4> QED
        BY <4>1
    <3>2. k \in DOMAIN queue' /\ queue'[k] = t[j]
      BY <3>1, <1>2
    <3>3. OnlyIds(c, k, i)'
      BY <3>1, <2>7
    <3> QED
      BY <2>1, <2>2, <2>3, <2>5, <3>1, <3>2, <3>3 DEF InForce
  <2> QED
    BY <2>1, <2>2, <2>8, <2>9
<1>12. ASSUME NEW p \in Mine, NEW i \in 1..(n + (u - h)),
              queue'[i].type = "CREATE_PLAYER", queue'[i].who = p
       PROVE  InForce(p, i)'
  <2>1. CASE i \in 1..n
    <3>1. InForce(p, i)
      BY <2>1, <1>2, <1>7, <1>12 DEF ClientIInv, ClientInv, QueueInv
    <3> QED
      BY <2>1, <3>1, <1>8
  <2>2. CASE i \notin 1..n
    BY <2>2, <1>9, <1>12
  <2> QED
    BY <2>1, <2>2
<1> QED
  BY <1>2, <1>6, <1>12 DEF QueueInv

(* Losing a connection of the simulator leaves none: what was handled of   *)
(* it no longer counts, and what was pushed is queued.                     *)
LEMMA LoseConnectionClient ==
  ASSUME ClientIInv, TypeOK', NEW p \in Players, LoseConnection(p)
  PROVE  ClientTypeOK' /\ ClientInv'
<1>1. /\ p \in Connected /\ Connected' = Connected \ {p}
      /\ UNCHANGED <<self, netTrains, halted>>
      /\ \A q \in Players \ {p} : inbox'[q] = inbox[q]
  <2>1. PICK i \in DOMAIN roster : roster[i] = p /\ roster' = RemoveAt(roster, i)
    BY DEF LoseConnection, Disconnect
  <2>2. Connected' = Connected \ {p}
    BY <2>1, LeaveTable DEF ClientIInv, IInv, MailInv, Table
  <2>3. UNCHANGED <<self, netTrains, halted>>
        /\ \A q \in Players \ {p} : inbox'[q] = inbox[q]
    BY DEF LoseConnection, Disconnect, ClientIInv, IInv, TypeOK
  <2>4. p \in Connected
    BY <2>1 DEF Connected
  <2> QED
    BY <2>2, <2>3, <2>4
<1>2. CASE p \in Mine
  <2>1. PICK u \in handled..Len(inbox[p]) :
          queue' = queue \o SubSeq(inbox[p], handled + 1, u)
    BY <1>2 DEF LoseConnection
  <2>2. QueueInv' /\ queue' \in Seq(Message)
    BY <1>1, <1>2, <2>1, PushedQueue
  <2>3. Mine \cap Connected' = {} /\ handled' = 0
    BY <1>1, <1>2, ConnectedInUse DEF ClientIInv, ConnectionInv, LoseConnection
  <2>4. ClientTypeOK'
    BY <1>1, <2>2, <2>3 DEF ClientIInv, ClientTypeOK
  <2>5. Backlog' /\ IdOfConnection' /\ (netTrains \cap Mine = {})'
    BY <1>1, <2>3 DEF ClientIInv, ClientInv, Backlog, IdOfConnection
  <2> QED
    BY <2>2, <2>4, <2>5 DEF ClientInv
<1>3. CASE p \notin Mine
  <2>1. UNCHANGED <<handled, queue>>
    BY <1>3 DEF LoseConnection
  <2>2. /\ Mine \cap Connected' = Mine \cap Connected
        /\ \A q \in Mine : inbox'[q] = inbox[q]
    BY <1>1, <1>3, SessionAssumption
  <2>3. ClientTypeOK'
    BY <1>1, <2>1, <2>2 DEF ClientIInv, ClientTypeOK
  <2>4. Backlog' /\ IdOfConnection'
    BY <1>1, <2>1, <2>2 DEF ClientIInv, ClientInv, Backlog, IdOfConnection
  <2>5. QueueInv' /\ (netTrains \cap Mine = {})'
    BY <1>1, <2>1 DEF ClientIInv, ClientInv, QueueInv, InForce, OnlyIds
  <2> QED
    BY <2>3, <2>4, <2>5 DEF ClientInv
<1> QED
  BY <1>2, <1>3

LEMMA HeadAndTail ==
  ASSUME NEW S, NEW s \in Seq(S), s # <<>>
  PROVE  /\ Len(s) \in Nat \ {0} /\ DOMAIN s = 1..Len(s)
         /\ Head(s) = s[1] /\ Tail(s) \in Seq(S)
         /\ DOMAIN Tail(s) = 1..(Len(s) - 1)
         /\ \A n \in 1..(Len(s) - 1) : Tail(s)[n] = s[n + 1]
<1>1. Len(s) \in Nat \ {0}
  BY EmptySeq
<1>2. Head(SubSeq(s, 1, Len(s))) = s[1]
  BY <1>1, HeadTailOfSubSeq
<1>3. SubSeq(s, 1, Len(s)) = s
  BY SubSeqFull
<1>4. DOMAIN Tail(s) = 1..Len(Tail(s))
  BY HeadTailProperties, LenProperties
<1> QED
  BY <1>1, <1>2, <1>3, <1>4, HeadTailProperties, LenProperties

(* The id the simulator has when m is handled.                             *)
IdAfter(m) == IF m.type = "SET_ID" THEN m.who ELSE self

(* What the loop may rely on of the message it takes, and what it keeps.   *)
Handled(m) ==
  /\ m \in Message
  /\ m.type = "CREATE_PLAYER" /\ m.who \in Mine => m.who = self
  /\ handled' \in Nat
  /\ \A p \in Mine \cap Connected : handled' <= Len(inbox[p])
  /\ queue' \in Seq(Message)
  /\ self' \in Mine \cup {NoId}
  /\ Backlog' /\ IdOfConnection' /\ QueueInv'

(* It takes a message an earlier connection has left.                      *)
LEMMA HandleQueued ==
  ASSUME ClientIInv, NEW m \in FrontOfQueue, Pop(m), self' = IdAfter(m), queue # <<>>
  PROVE  Handled(m)
<1> DEFINE n == Len(queue)
<1>1. /\ n \in Nat \ {0} /\ DOMAIN queue = 1..n /\ m = queue[1]
      /\ queue' \in Seq(Message) /\ DOMAIN queue' = 1..(n - 1)
      /\ \A i \in 1..(n - 1) : queue'[i] = queue[i + 1]
  BY HeadAndTail DEF ClientIInv, ClientTypeOK, FrontOfQueue, Pop
<1>2. /\ handled = 0 /\ handled' = 0
      /\ \A p \in Mine \cap Connected : 0 <= Len(inbox[p])
      /\ UNCHANGED <<roster, inbox>>
  BY DEF ClientIInv, ClientInv, ClientTypeOK, Backlog, Pop, vars, netVars
<1> HIDE DEF n
<1>3. m \in Message
  <2>1. 1 \in 1..n
    BY <1>1
  <2>2. queue \in [1..n -> Message]
    BY LenProperties DEF n, ClientIInv, ClientTypeOK
  <2> QED
    BY <1>1, <2>1, <2>2
<1>4. \A i \in 1..n : queue[i].type = "SET_ID" => queue[i].who \in Mine
  BY <1>1 DEF ClientIInv, ClientInv, QueueInv
<1>5. \A p \in Mine, i \in 1..n :
        queue[i].type = "CREATE_PLAYER" /\ queue[i].who = p => InForce(p, i)
  BY <1>1 DEF ClientIInv, ClientInv, QueueInv
<1>6. self' \in Mine \cup {NoId}
  <2>1. self \in Mine \cup {NoId} /\ 1 \in 1..n
    BY <1>1 DEF ClientIInv, ClientTypeOK
  <2> QED
    BY <2>1, <1>1, <1>4 DEF IdAfter
<1>7. ASSUME m.type = "CREATE_PLAYER", m.who \in Mine PROVE m.who = self
  <2>1. InForce(m.who, 1)
    <3>1. 1 \in 1..n
      BY <1>1
    <3> QED
      BY <3>1, <1>1, <1>5, <1>7
  <2>2. \A k \in 1..n : ~(k < 1)
    BY <1>1
  <2> QED
    BY <2>1, <2>2, <1>1 DEF InForce
<1>8. Backlog' /\ IdOfConnection'
  <2>1. \A p \in Mine : \A i \in DOMAIN inbox[p] : ~(i <= 0)
    BY MyMail
  <2>2. Connected' = Connected /\ inbox' = inbox
    BY <1>2 DEF Connected
  <2> QED
    BY <1>2, <2>1, <2>2 DEF Backlog, IdOfConnection
<1>9. \A i \in 1..(n - 1) : i \in Nat /\ i + 1 \in 1..n
  BY <1>1
<1>10. ASSUME NEW p \in Mine, NEW i \in 1..(n - 1), NEW k \in Nat,
              OnlyIds(p, k, i + 1)
       PROVE  /\ k = 0 \/ OnlyIds(p, k - 1, i)'
              /\ k <= 2 => OnlyIds(p, 1, i)'
  <2>1. ASSUME NEW l \in 1..(n - 1), k <= l + 1, l < i, queue'[l].type = "SET_ID"
        PROVE  queue'[l].who = p
    <3>1. l + 1 \in 1..n /\ queue'[l] = queue[l + 1] /\ l + 1 < i + 1
      BY <1>1, <1>9, <2>1
    <3> QED
      BY <3>1, <2>1, <1>1, <1>10 DEF OnlyIds
  <2>2. \A l \in 1..(n - 1) : /\ k - 1 <= l => k <= l + 1
                              /\ k <= 2 => k <= l + 1
    BY <1>9
  <2> QED
    BY <2>1, <2>2, <1>1 DEF OnlyIds
<1>11. ASSUME NEW p \in Mine, NEW i \in 1..(n - 1),
              queue'[i].type = "CREATE_PLAYER", queue'[i].who = p
       PROVE  InForce(p, i)'
  <2>1. InForce(p, i + 1)
    BY <1>1, <1>5, <1>9, <1>11
  <2>2. CASE self = p /\ OnlyIds(p, 1, i + 1)
    <3>1. OnlyIds(p, 1, i)'
      BY <2>2, <1>10
    <3>2. 1 \in 1..n /\ 1 <= 1 /\ 1 < i + 1
      BY <1>1, <1>9
    <3>3. m.type = "SET_ID" => m.who = p
      BY <3>2, <2>2, <1>1 DEF OnlyIds
    <3> QED
      BY <3>1, <3>3, <2>2 DEF InForce, IdAfter
  <2>3. ASSUME NEW k \in 1..n, k < i + 1, queue[k].type = "SET_ID", queue[k].who = p,
               OnlyIds(p, k, i + 1)
        PROVE  InForce(p, i)'
    <3>1. CASE k = 1
      <4>1. OnlyIds(p, 1, i)'
        BY <2>3, <3>1, <1>10
      <4>2. self' = p
        BY <2>3, <3>1, <1>1 DEF IdAfter
      <4> QED
        BY <4>1, <4>2 DEF InForce
    <3>2. CASE k # 1
      <4>1. PICK j \in 1..(n - 1) : k = j + 1
        <5>1. k - 1 \in 1..(n - 1) /\ k = (k - 1) + 1
          BY <3>2, <1>1
        <5> QED
          BY <5>1
      <4>2. k \in Nat /\ k # 0 /\ k - 1 = j /\ j < i
        BY <4>1, <2>3, <1>9
      <4>3. OnlyIds(p, j, i)'
        BY <4>2, <2>3, <1>10
      <4>4. queue'[j] = queue[k] /\ j \in DOMAIN queue'
        BY <4>1, <1>1
      <4> QED
        BY <4>2, <4>3, <4>4, <2>3 DEF InForce
    <3> QED
      BY <3>1, <3>2
  <2> QED
    BY <2>1, <2>2, <2>3, <1>1 DEF InForce
<1>12. QueueInv'
  <2>1. \A i \in 1..(n - 1) : queue'[i].type = "SET_ID" => queue'[i].who \in Mine
    BY <1>1, <1>4, <1>9
  <2> QED
    BY <2>1, <1>1, <1>11 DEF QueueInv
<1> QED
  BY <1>1, <1>2, <1>3, <1>6, <1>7, <1>8, <1>12 DEF Handled

(* It takes a message of this connection.                                  *)
LEMMA HandleReceived ==
  ASSUME ClientIInv, NEW m \in FrontOfQueue, Pop(m), self' = IdAfter(m), queue = <<>>
  PROVE  Handled(m)
<1>1. PICK c \in Mine \cap Connected :
        handled < Len(inbox[c]) /\ m = inbox[c][handled + 1]
  BY DEF FrontOfQueue
<1>2. /\ handled' = handled + 1 /\ UNCHANGED <<queue, roster, inbox>>
  BY DEF Pop, vars, netVars
<1>3. /\ handled \in Nat /\ handled + 1 \in 1..Len(inbox[c]) /\ Len(inbox[c]) \in Nat
      /\ DOMAIN inbox[c] = 1..Len(inbox[c])
      /\ inbox[c] \in [1..Len(inbox[c]) -> Message]
  BY <1>1, MyMail, LenProperties
<1>4. \A p \in Mine \cap Connected : p = c
  BY ConnectedInUse DEF ClientIInv, ConnectionInv
<1>5. m \in Message
  BY <1>1, <1>3
<1>6. /\ m.type = "SET_ID" => m.who = c
      /\ m.type = "CREATE_PLAYER" /\ m.who \in Mine => m.who = c
  BY <1>1, <1>3, MyMail DEF OwnMail
<1>7. ASSUME NEW i \in 1..handled, inbox[c][i].type = "SET_ID" PROVE self = c
  <2>1. i \in 1..Len(inbox[c]) /\ i <= handled
    BY <1>3
  <2> QED
    BY <2>1, <1>3, <1>7 DEF ClientIInv, ClientInv, IdOfConnection
<1>8. ASSUME m.type = "CREATE_PLAYER", m.who \in Mine PROVE m.who = self
  <2>1. m.who = c
    BY <1>6, <1>8
  <2>2. PICK j \in 1..((handled + 1) - 1) : inbox[c][j].type = "SET_ID"
    BY <2>1, <1>1, <1>3, <1>8, MyMail DEF IdFirst
  <2>3. j \in 1..handled
    BY <1>3
  <2> QED
    BY <2>1, <2>2, <2>3, <1>7
<1>9. Connected' = Connected /\ inbox' = inbox
  BY <1>2 DEF Connected
<1>10. IdOfConnection'
  <2> SUFFICES ASSUME NEW i \in 1..Len(inbox[c]), i <= handled + 1,
                      inbox[c][i].type = "SET_ID"
               PROVE  self' = c
    BY <1>2, <1>3, <1>4, <1>9 DEF IdOfConnection
  <2>1. CASE i = handled + 1
    BY <2>1, <1>1, <1>6 DEF IdAfter
  <2>2. CASE i # handled + 1
    <3>1. i \in 1..handled
      BY <2>2, <1>3
    <3>2. self = c
      BY <3>1, <1>7
    <3> QED
      BY <3>2, <1>6 DEF IdAfter
  <2> QED
    BY <2>1, <2>2
<1>11. Backlog'
  BY <1>1, <1>2, <1>9 DEF Backlog
<1>12. queue' \in Seq(Message) /\ QueueInv'
  <2>1. DOMAIN queue' = {} /\ queue' \in Seq(Message)
    BY <1>2, EmptySeq, LenProperties
  <2> QED
    BY <2>1 DEF QueueInv
<1>13. self' \in Mine \cup {NoId}
  BY <1>6 DEF IdAfter, ClientIInv, ClientTypeOK
<1>14. handled' \in Nat /\ \A p \in Mine \cap Connected : handled' <= Len(inbox[p])
  BY <1>2, <1>3, <1>4
<1> QED
  BY <1>5, <1>8, <1>10, <1>11, <1>12, <1>13, <1>14 DEF Handled

LEMMA ProcessClient ==
  ASSUME ClientIInv, ProcessPendingMessages
  PROVE  ClientTypeOK' /\ ClientInv'
<1>1. PICK m \in FrontOfQueue :
        HandleSetId(m) \/ AddTrain(m) \/ IgnoreTrain(m) \/ IgnoreDestroyed(m)
  BY DEF ProcessPendingMessages
<1>2. Pop(m) /\ self' = IdAfter(m)
  BY <1>1 DEF HandleSetId, AddTrain, IgnoreTrain, IgnoreDestroyed, IdAfter
<1>3. Handled(m)
  BY <1>2, HandleQueued, HandleReceived
<1>4. netTrains' \subseteq Players /\ netTrains' \cap Mine = {} /\ halted' \in BOOLEAN
  <2>1. CASE HandleSetId(m) \/ IgnoreTrain(m) \/ IgnoreDestroyed(m)
    <3>1. UNCHANGED netTrains /\ (halted' = halted \/ halted' = TRUE)
      BY <2>1 DEF HandleSetId, IgnoreTrain, IgnoreDestroyed
    <3> QED
      BY <3>1 DEF ClientIInv, ClientTypeOK, ClientInv
  <2>2. CASE AddTrain(m)
    <3>1. /\ m.type = "CREATE_PLAYER" /\ m.who # self /\ UNCHANGED halted
          /\ netTrains' = netTrains \cup {m.who}
      BY <2>2 DEF AddTrain, IsNewcomer
    <3>2. m.who \in Players /\ m.who \notin Mine
      BY <1>3, <3>1 DEF Handled, Message
    <3> QED
      BY <3>1, <3>2 DEF ClientIInv, ClientTypeOK, ClientInv
  <2> QED
    BY <1>1, <2>1, <2>2
<1>5. TypeOK' /\ Connected' = Connected /\ inbox' = inbox
  <2>1. UNCHANGED vars
    BY <1>2 DEF Pop
  <2> QED
    BY <2>1 DEF vars, playerVars, sendVars, netVars, mainVars, TypeOK, Connected,
       ClientIInv, IInv
<1> QED
  BY <1>3, <1>4, <1>5 DEF Handled, ClientTypeOK, ClientInv

-----------------------------------------------------------------------------
LEMMA InitClient == SessionInit => ClientIInv
<1> SUFFICES ASSUME SessionInit PROVE ClientIInv
  OBVIOUS
<1>1. IInv /\ MailInv
  BY InitIInv, InitMail DEF SessionInit
<1>2. /\ \A p \in Players : pc[p] = "none" /\ inbox[p] = <<>>
      /\ handled = 0 /\ queue = <<>> /\ self = NoId /\ netTrains = {} /\ halted = FALSE
      /\ Mine \cap Connected = {}
  BY DEF SessionInit, Init, Connected
<1>3. DOMAIN queue = {} /\ queue \in Seq(Message)
  BY <1>2, EmptySeq, LenProperties
<1>4. \A p \in Mine : pc[p] = "none" /\ DOMAIN inbox[p] = {}
  BY <1>2, SessionAssumption, EmptySeq, LenProperties
<1>5. ConnectionInv
  BY <1>4 DEF ConnectionInv, OneInUse, InUse, NotOfMine, OwnMail
<1>6. ClientTypeOK
  BY <1>1, <1>2, <1>3 DEF ClientTypeOK, IInv
<1>7. ClientInv
  BY <1>2, <1>3, <1>4 DEF ClientInv, Backlog, IdOfConnection, QueueInv
<1> QED
  BY <1>1, <1>5, <1>6, <1>7 DEF ClientIInv

LEMMA NextClient == ClientIInv /\ [SessionNext]_sessionVars => ClientIInv'
<1> SUFFICES ASSUME ClientIInv, [SessionNext]_sessionVars PROVE ClientIInv'
  OBVIOUS
<1>1. IInv' /\ MailInv' /\ ConnectionInv'
  BY StepOfServer, NextIInv, NextMail, NextConnection DEF ClientIInv
<1>2. TypeOK'
  BY <1>1 DEF IInv
<1>3. CASE UNCHANGED sessionVars
  <2>1. UNCHANGED <<roster, inbox, handled, queue, self, netTrains, halted>>
    BY <1>3 DEF sessionVars, clientVars, vars, netVars
  <2>2. Connected' = Connected
    BY <2>1 DEF Connected
  <2>3. ClientTypeOK'
    BY <2>1, <2>2, <1>2 DEF ClientIInv, ClientTypeOK
  <2>4. ClientInv'
    BY <2>1, <2>2 DEF ClientIInv, ClientInv, Backlog, IdOfConnection, QueueInv, InForce,
       OnlyIds
  <2> QED
    BY <2>3, <2>4, <1>1 DEF ClientIInv
<1>4. CASE ProcessPendingMessages
  BY <1>4, <1>1, ProcessClient DEF ClientIInv
<1>5. ASSUME NEW p \in Players, ServerStep(p) \/ Connect(p) \/ LoseConnection(p)
      PROVE  ClientIInv'
  BY <1>5, <1>1, <1>2, CallbackClient, ConnectClient, LoseConnectionClient
     DEF ClientIInv
<1> QED
  BY <1>3, <1>4, <1>5, SessionSteps

LEMMA ClientInvariance == SessionSpec => []ClientIInv
  BY InitClient, NextClient, PTL DEF SessionSpec

(* The variables of the client keep their types: no more messages of a     *)
(* connection are handled than it has brought, and the id is none or that  *)
(* of a connection of the simulator.                                       *)
THEOREM ClientTypeCorrect == SessionSpec => []ClientTypeOK
<1>1. ClientIInv => ClientTypeOK
  BY DEF ClientIInv
<1> QED
  BY <1>1, ClientInvariance, PTL

(* A simulator never makes a net train of its own player (517-541), by     *)
(* whatever connections it came: names need not be unique for that.        *)
THEOREM NeverOwn == SessionSpec => []NeverOwnTrain
<1>1. ClientIInv => NeverOwnTrain
  BY ServerAssumption DEF ClientIInv, ClientTypeOK, ClientInv, NeverOwnTrain, NoId
<1> QED
  BY <1>1, ClientInvariance, PTL
=============================================================================
