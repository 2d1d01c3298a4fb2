------------------------ MODULE SessionServer_proofs ------------------------
(***************************************************************************)
(* Proofs about SessionServer, for any set of players and any scenery:     *)
(* type correctness, the exclusive use of start points, the agreement of   *)
(* StartPoint::owner and Train::sp, and that the server implements         *)
(* StartPointPool.                                                         *)
(*                                                                         *)
(* The inductive invariant IInv adds to StartPointAgreement what the       *)
(* points of the callbacks imply: who is inside the critical section is    *)
(* the one the lock names, a Train exists from its creation to its         *)
(* deletion, and the start point a thread is about to take is still free.  *)
(*                                                                         *)
(* MailInv, below, is what the clients are told: the order of SET_ID and   *)
(* CREATE_PLAYER, that those who joined earlier know those who joined      *)
(* later, and that a departure is told to whoever knew of the player.      *)
(***************************************************************************)
EXTENDS SessionServer, SequenceTheorems, FiniteSetTheorems, TLAPS

HasTrain == (Creating \ {"create"}) \cup Receiving \cup (Destroying \ {"dunlock"})

Mutex == \A p \in Players : (lock = p) <=> (pc[p] \in InLock)

TrainLifetime == \A p \in Players : (train[p] # NoTrain) <=> (pc[p] \in HasTrain)

NotYetPlaced ==
  \A p \in Players :
    /\ pc[p] \in {"lock", "scan", "claim"} => train[p].sp = NoPoint
    /\ pc[p] = "claim" => found[p] \in Points /\ FirstFree(found[p])

Released ==
  \A p \in Players :
    pc[p] = "delete" => train[p].sp \in Points /\ owner[train[p].sp] = Nobody

ThreadData ==
  \A p \in Players : /\ pc[p] = "tell" => about[p] \in Players
                     /\ pc[p] = "move" => "MOVETO" \in Reports

IInv ==
  /\ TypeOK
  /\ ThreadData
  /\ Mutex
  /\ TrainLifetime
  /\ NotYetPlaced
  /\ Released
  /\ StartPointAgreement

-----------------------------------------------------------------------------
(* There are finitely many start points, numbered from 1, and 0 is none.   *)
LEMMA PointsAreNats ==
  /\ NumPoints \in Nat
  /\ Points \subseteq Nat
  /\ NoPoint \notin Points
  /\ \A s \in Points : s \in Positions
  /\ Unplaced \in Positions /\ Moved \in Positions /\ Garbage \in Positions
  BY ServerAssumption DEF NumPoints, Points, NoPoint, Positions, Unplaced, Moved,
     Garbage

(* Initially nobody has a start point and no callback runs.                *)
LEMMA InitIInv == Init => IInv
<1> SUFFICES ASSUME Init PROVE IInv
  OBVIOUS
<1>1. TypeOK
  <2>1. "none" \in Steps /\ <<>> \in Seq(Players) /\ <<>> \in Seq(Message)
    BY DEF Steps
  <2>2. NoPoint \in Points \cup {NoPoint} /\ {} \in SUBSET Players
        /\ {} \in SUBSET Datagram
    OBVIOUS
  <2> QED
    BY <2>1, <2>2 DEF Init, TypeOK
<1>2. \A p \in Players : pc[p] = "none" /\ lock # p /\ train[p] = NoTrain
  BY ServerAssumption DEF Init
<1>3. Mutex /\ TrainLifetime /\ NotYetPlaced /\ Released
  BY <1>2 DEF Mutex, TrainLifetime, NotYetPlaced, Released, HasTrain, InLock,
     Creating, Receiving, Destroying
<1>4. StartPointAgreement
  BY <1>2, ServerAssumption DEF Init, StartPointAgreement
<1> QED
  BY <1>1, <1>2, <1>3, <1>4 DEF IInv, ThreadData

-----------------------------------------------------------------------------
(* A step that moves one callback and leaves the trains, the points and    *)
(* the lock alone preserves the invariant when both ends of the move lie   *)
(* on the same side of the lock and of the Train's lifetime.               *)
LEMMA QuietMove ==
  ASSUME IInv, NEW p \in Players, NEW from \in Steps, NEW to \in Steps,
         Goto(p, from, to), UNCHANGED playerVars,
         from \in InLock <=> to \in InLock,
         from \in HasTrain <=> to \in HasTrain,
         to \notin {"lock", "scan", "claim", "delete"}, from # "delete"
  PROVE  Mutex' /\ TrainLifetime' /\ NotYetPlaced' /\ Released'
         /\ StartPointAgreement'
<1>1. pc \in [Players -> Steps] /\ pc' = [pc EXCEPT ![p] = to] /\ pc[p] = from
  BY DEF IInv, TypeOK, Goto
<1>2. UNCHANGED <<train, owner, lock, found>>
  BY DEF playerVars
<1>3. Mutex'
  BY <1>1, <1>2 DEF IInv, Mutex
<1>4. TrainLifetime'
  BY <1>1, <1>2 DEF IInv, TrainLifetime
<1>5. NotYetPlaced'
  BY <1>1, <1>2 DEF IInv, NotYetPlaced, FirstFree, FreePoints
<1>6. Released'
  BY <1>1, <1>2 DEF IInv, Released
<1>7. StartPointAgreement'
  BY <1>1, <1>2 DEF IInv, StartPointAgreement
<1> QED
  BY <1>3, <1>4, <1>5, <1>6, <1>7

(* A step that moves no callback and leaves the trains, the points and the *)
(* lock alone preserves the invariant.                                     *)
LEMMA NoMove ==
  ASSUME IInv, UNCHANGED pc, UNCHANGED playerVars
  PROVE  Mutex' /\ TrainLifetime' /\ NotYetPlaced' /\ Released'
         /\ StartPointAgreement'
  BY DEF IInv, playerVars, Mutex, TrainLifetime, NotYetPlaced, Released,
     StartPointAgreement, FirstFree, FreePoints

(* The five conjuncts of IInv beside TypeOK.                               *)
Agreements == Mutex /\ TrainLifetime /\ NotYetPlaced /\ Released
              /\ StartPointAgreement

(* A new Train has no start point yet, and its player owns none.           *)
LEMMA NewTrainStep ==
  ASSUME IInv, NEW p \in Players, NewTrain(p) PROVE Agreements'
<1> DEFINE t == [pos |-> Unplaced, sp |-> NoPoint]
<1>1. /\ pc[p] = "create" /\ pc' = [pc EXCEPT ![p] = "lock"]
      /\ train' = [train EXCEPT ![p] = t]
      /\ pc \in [Players -> Steps] /\ train \in [Players -> Train \cup {NoTrain}]
      /\ UNCHANGED <<owner, lock, found>>
  BY DEF IInv, TypeOK, NewTrain, Goto
<1>2. t \in Train /\ t.sp = NoPoint /\ t # NoTrain
  BY PointsAreNats, NoTrainAssumption DEF Train
<1>3. train[p] = NoTrain
  BY <1>1 DEF IInv, TrainLifetime, HasTrain, Creating, Receiving, Destroying
<1>4. Mutex'
  BY <1>1 DEF IInv, Mutex, InLock
<1>5. TrainLifetime'
  BY <1>1, <1>2 DEF IInv, TrainLifetime, HasTrain, Creating
<1>6. NotYetPlaced'
  BY <1>1, <1>2 DEF IInv, NotYetPlaced, FirstFree, FreePoints
<1>7. Released'
  BY <1>1 DEF IInv, Released
<1>8. StartPointAgreement'
  BY <1>1, <1>2, <1>3 DEF IInv, StartPointAgreement
<1> QED
  BY <1>4, <1>5, <1>6, <1>7, <1>8 DEF Agreements

(* Whoever enters the critical section finds nobody else in it.            *)
LEMMA EnterPlayerLockStep ==
  ASSUME IInv, NEW p \in Players, EnterPlayerLock(p) PROVE Agreements'
<1>1. /\ \/ pc[p] = "lock" /\ pc' = [pc EXCEPT ![p] = "scan"]
         \/ pc[p] = "dlock" /\ pc' = [pc EXCEPT ![p] = "release"]
      /\ lock = Nobody /\ lock' = p /\ pc \in [Players -> Steps]
      /\ UNCHANGED <<train, owner, found>>
  BY DEF IInv, TypeOK, EnterPlayerLock, Goto
<1>2. Mutex'
  BY <1>1, ServerAssumption DEF IInv, Mutex, InLock
<1>3. TrainLifetime'
  BY <1>1 DEF IInv, TrainLifetime, HasTrain, Creating, Destroying
<1>4. NotYetPlaced'
  BY <1>1 DEF IInv, NotYetPlaced, FirstFree, FreePoints
<1>5. Released' /\ StartPointAgreement'
  BY <1>1 DEF IInv, Released, StartPointAgreement
<1> QED
  BY <1>2, <1>3, <1>4, <1>5 DEF Agreements

(* The search ends at the first free point, or finds none.                 *)
LEMMA FindStartPointStep ==
  ASSUME IInv, NEW p \in Players, FindStartPoint(p) PROVE Agreements'
<1>1. /\ \/ /\ \E s \in Points : FirstFree(s) /\ found' = [found EXCEPT ![p] = s]
            /\ pc' = [pc EXCEPT ![p] = "claim"]
         \/ pc' = [pc EXCEPT ![p] = "unlock"] /\ UNCHANGED found
      /\ pc[p] = "scan" /\ pc \in [Players -> Steps]
      /\ found \in [Players -> Points \cup {NoPoint}]
      /\ UNCHANGED <<train, owner, lock>>
  BY DEF IInv, TypeOK, FindStartPoint, Goto
<1>2. Mutex'
  BY <1>1 DEF IInv, Mutex, InLock
<1>3. TrainLifetime'
  BY <1>1 DEF IInv, TrainLifetime, HasTrain, Creating
<1>4. NotYetPlaced'
  BY <1>1 DEF IInv, NotYetPlaced, FirstFree, FreePoints
<1>5. Released' /\ StartPointAgreement'
  BY <1>1 DEF IInv, Released, StartPointAgreement
<1> QED
  BY <1>2, <1>3, <1>4, <1>5 DEF Agreements

(* The point found is still free when it is taken: its finder has the      *)
(* lock, so nobody else is about to take or to release a point.            *)
LEMMA ClaimStartPointStep ==
  ASSUME IInv, NEW p \in Players, ClaimStartPoint(p) PROVE Agreements'
<1> DEFINE s == found[p]
           t == [pos |-> s, sp |-> s]
<1>1. /\ pc[p] = "claim" /\ pc' = [pc EXCEPT ![p] = "unlock"]
      /\ owner' = [owner EXCEPT ![s] = p] /\ train' = [train EXCEPT ![p] = t]
      /\ found' = [found EXCEPT ![p] = NoPoint]
      /\ pc \in [Players -> Steps] /\ train \in [Players -> Train \cup {NoTrain}]
      /\ owner \in [Points -> Players \cup {Nobody}]
      /\ found \in [Players -> Points \cup {NoPoint}]
      /\ UNCHANGED lock
  BY DEF IInv, TypeOK, ClaimStartPoint, Goto
<1>2. s \in Points /\ owner[s] = Nobody
  BY <1>1 DEF IInv, NotYetPlaced, FirstFree, FreePoints
<1>3. t \in Train /\ t.sp = s /\ t # NoTrain
  <2>1. s \in Positions /\ s \in Points
    BY <1>2, PointsAreNats
  <2>2. t \in Train /\ t.sp = s
    BY <2>1 DEF Train
  <2> QED
    BY <2>2, NoTrainAssumption
<1>4. \A q \in Players \ {p} : pc[q] \notin InLock
  BY <1>1 DEF IInv, Mutex, InLock
<1>5. \A x \in Points : owner[x] # p
  BY <1>1, PointsAreNats DEF IInv, NotYetPlaced, StartPointAgreement
<1>6. Mutex'
  BY <1>1 DEF IInv, Mutex, InLock
<1>7. TrainLifetime'
  BY <1>1, <1>3 DEF IInv, TrainLifetime, HasTrain, Creating
<1>8. NotYetPlaced'
  BY <1>1, <1>4 DEF IInv, NotYetPlaced, InLock
<1>9. Released'
  BY <1>1, <1>4 DEF IInv, Released, InLock
<1>10. StartPointAgreement'
  <2>1. ASSUME NEW x \in Points, NEW q \in Players, owner'[x] = q
        PROVE  train'[q] # NoTrain /\ train'[q].sp = x
    BY <1>1, <1>2, <1>3, <1>5, <2>1 DEF IInv, StartPointAgreement
  <2>2. ASSUME NEW q \in Players, train'[q] # NoTrain, pc'[q] # "delete",
               train'[q].sp # NoPoint
        PROVE  owner'[train'[q].sp] = q
    <3>1. CASE q = p
      BY <1>1, <1>2, <1>3, <3>1
    <3>2. CASE q # p
      <4>1. owner[train[q].sp] = q /\ train[q].sp \in Points
        BY <1>1, <2>2, <3>2 DEF IInv, StartPointAgreement, Train
      <4> QED
        BY <4>1, <1>1, <1>2, <3>2, ServerAssumption
    <3> QED
      BY <3>1, <3>2
  <2> QED
    BY <2>1, <2>2 DEF StartPointAgreement
<1> QED
  BY <1>6, <1>7, <1>8, <1>9, <1>10 DEF Agreements

(* The critical section is free when its only thread has left it.          *)
LEMMA LeavePlayerLockStep ==
  ASSUME IInv, NEW p \in Players, LeavePlayerLock(p) PROVE Agreements'
<1>1. /\ \/ pc[p] = "unlock" /\ pc' = [pc EXCEPT ![p] = "setid"]
         \/ pc[p] = "dunlock" /\ pc' = [pc EXCEPT ![p] = "gone"]
      /\ lock' = Nobody /\ pc \in [Players -> Steps]
      /\ UNCHANGED <<train, owner, found>>
  BY DEF IInv, TypeOK, LeavePlayerLock, Goto
<1>2. \A q \in Players \ {p} : pc[q] \notin InLock
  BY <1>1 DEF IInv, Mutex, InLock
<1>3. Mutex'
  BY <1>1, <1>2, ServerAssumption DEF IInv, Mutex, InLock
<1>4. TrainLifetime'
  BY <1>1 DEF IInv, TrainLifetime, HasTrain, Creating, Receiving, Destroying
<1>5. NotYetPlaced'
  BY <1>1 DEF IInv, NotYetPlaced, FirstFree, FreePoints
<1>6. Released' /\ StartPointAgreement'
  BY <1>1 DEF IInv, Released, StartPointAgreement
<1> QED
  BY <1>3, <1>4, <1>5, <1>6 DEF Agreements

(* A report of the position leaves the start point alone.                  *)
LEMMA ReceiveMoveToStep ==
  ASSUME IInv, NEW p \in Players, ReceiveMoveTo(p) PROVE Agreements'
<1>1. /\ pc[p] = "ready" /\ pc' = [pc EXCEPT ![p] = "move"]
      /\ train' = [train EXCEPT ![p] = [pos |-> Moved, sp |-> train[p].sp]]
      /\ pc \in [Players -> Steps] /\ train \in [Players -> Train \cup {NoTrain}]
      /\ UNCHANGED <<owner, lock, found>>
  BY DEF IInv, TypeOK, ReceiveMoveTo, Goto
<1>2. train[p] \in Train /\ train'[p] \in Train /\ train'[p].sp = train[p].sp
  BY <1>1, PointsAreNats DEF IInv, TrainLifetime, HasTrain, Receiving, Train
<1>3. train'[p] # NoTrain
  BY <1>2, NoTrainAssumption
<1>4. Mutex'
  BY <1>1 DEF IInv, Mutex, InLock
<1>5. TrainLifetime'
  BY <1>1, <1>3 DEF IInv, TrainLifetime, HasTrain, Receiving
<1>6. NotYetPlaced'
  BY <1>1 DEF IInv, NotYetPlaced, FirstFree, FreePoints
<1>7. Released'
  BY <1>1 DEF IInv, Released
<1>8. StartPointAgreement'
  BY <1>1, <1>2, <1>3, NoTrainAssumption DEF IInv, StartPointAgreement
<1> QED
  BY <1>4, <1>5, <1>6, <1>7, <1>8 DEF Agreements

(* Only the point of the departing player is freed.                        *)
LEMMA ReleaseStartPointStep ==
  ASSUME IInv, NEW p \in Players, ReleaseStartPoint(p) PROVE Agreements'
<1> DEFINE s == train[p].sp
<1>1. /\ pc[p] = "release" /\ pc' = [pc EXCEPT ![p] = "delete"]
      /\ s # NoPoint /\ owner' = [owner EXCEPT ![s] = Nobody]
      /\ pc \in [Players -> Steps] /\ train \in [Players -> Train \cup {NoTrain}]
      /\ owner \in [Points -> Players \cup {Nobody}]
      /\ UNCHANGED <<train, lock, found>>
  BY DEF IInv, TypeOK, ReleaseStartPoint, Goto
<1>2. train[p] # NoTrain /\ s \in Points /\ owner[s] = p
  BY <1>1 DEF IInv, TrainLifetime, HasTrain, Destroying, StartPointAgreement, Train
<1>3. \A q \in Players \ {p} : pc[q] \notin InLock
  BY <1>1 DEF IInv, Mutex, InLock
<1>4. Mutex'
  BY <1>1 DEF IInv, Mutex, InLock
<1>5. TrainLifetime'
  BY <1>1 DEF IInv, TrainLifetime, HasTrain, Destroying
<1>6. NotYetPlaced'
  BY <1>1, <1>3 DEF IInv, NotYetPlaced, InLock
<1>7. Released'
  BY <1>1, <1>2, <1>3 DEF IInv, Released, InLock
<1>8. StartPointAgreement'
  <2>1. ASSUME NEW x \in Points, NEW q \in Players, owner'[x] = q
        PROVE  train'[q] # NoTrain /\ train'[q].sp = x
    BY <1>1, <1>2, <2>1, ServerAssumption DEF IInv, StartPointAgreement
  <2>2. ASSUME NEW q \in Players, train'[q] # NoTrain, pc'[q] # "delete",
               train'[q].sp # NoPoint
        PROVE  owner'[train'[q].sp] = q
    <3>1. q # p
      BY <1>1, <2>2
    <3>2. owner[train[q].sp] = q /\ train[q].sp \in Points
      BY <1>1, <2>2, <3>1 DEF IInv, StartPointAgreement, Train
    <3> QED
      BY <3>1, <3>2, <1>1, <1>2
  <2> QED
    BY <2>1, <2>2 DEF StartPointAgreement
<1> QED
  BY <1>4, <1>5, <1>6, <1>7, <1>8 DEF Agreements

(* The Train is deleted when no start point names its player any more.     *)
LEMMA DeleteTrainStep ==
  ASSUME IInv, NEW p \in Players, DeleteTrain(p) PROVE Agreements'
<1>1. /\ pc[p] = "delete" /\ pc' = [pc EXCEPT ![p] = "dunlock"]
      /\ train' = [train EXCEPT ![p] = NoTrain]
      /\ pc \in [Players -> Steps] /\ train \in [Players -> Train \cup {NoTrain}]
      /\ UNCHANGED <<owner, lock, found>>
  BY DEF IInv, TypeOK, DeleteTrain, Goto
<1>2. \A x \in Points : owner[x] # p
  BY <1>1, ServerAssumption DEF IInv, Released, StartPointAgreement
<1>3. Mutex'
  BY <1>1 DEF IInv, Mutex, InLock
<1>4. TrainLifetime'
  BY <1>1 DEF IInv, TrainLifetime, HasTrain, Creating, Receiving, Destroying
<1>5. NotYetPlaced'
  BY <1>1 DEF IInv, NotYetPlaced, FirstFree, FreePoints
<1>6. Released'
  BY <1>1 DEF IInv, Released
<1>7. StartPointAgreement'
  BY <1>1, <1>2 DEF IInv, StartPointAgreement
<1> QED
  BY <1>3, <1>4, <1>5, <1>6, <1>7 DEF Agreements

-----------------------------------------------------------------------------
(* Types                                                                   *)

LEMMA AppendType ==
  ASSUME NEW S, NEW q \in Seq(S), NEW m \in S PROVE Append(q, m) \in Seq(S)
  OBVIOUS

LEMMA RemoveAtType ==
  ASSUME NEW S, NEW q \in Seq(S), NEW i \in DOMAIN q
  PROVE  RemoveAt(q, i) \in Seq(S)
<1>1. i \in 1..Len(q) /\ Len(q) \in Nat
  OBVIOUS
<1>2. SubSeq(q, 1, i - 1) \in Seq(S) /\ SubSeq(q, i + 1, Len(q)) \in Seq(S)
  BY <1>1, SubSeqProperties
<1> QED
  BY <1>2, ConcatProperties DEF RemoveAt

LEMMA MessageTypes ==
  ASSUME NEW p \in Players, NEW x \in Positions
  PROVE  /\ [type |-> "SET_ID", who |-> p, pos |-> x] \in Message
         /\ CreateMsg(p, x) \in Message
         /\ [type |-> "DESTROY_PLAYER", who |-> p] \in Message
  BY DEF Message, CreateMsg

(* Messages of the right type keep the queues of guaranteed messages typed.*)
LEMMA InboxType ==
  ASSUME TypeOK, NEW p \in Players, NEW m \in Message,
         SendTo(p, m) \/ SendToAll(m)
  PROVE  inbox' \in [Players -> Seq(Message)]
<1>1. \A q \in Players : Append(inbox[q], m) \in Seq(Message)
                        /\ inbox[q] \in Seq(Message)
  BY AppendType DEF TypeOK
<1>2. CASE SendTo(p, m)
  BY <1>1, <1>2 DEF SendTo, TypeOK
<1>3. CASE SendToAll(m)
  BY <1>1, <1>3 DEF SendToAll
<1> QED
  BY <1>2, <1>3

(* Only kinds that the clients send are routed; MOVETO is one of them      *)
(* whenever a thread is about to route it.                                 *)
LEMMA RouteType ==
  ASSUME TypeOK, NEW p \in Players, NEW kind \in Reports, Route(p, kind)
  PROVE  datagrams' \in [Players -> SUBSET Datagram]
<1>1. \A q \in Players : datagrams[q] \in SUBSET Datagram
  BY DEF TypeOK
<1>2. <<kind, p>> \in Datagram
  BY DEF Datagram
<1> QED
  BY <1>1, <1>2 DEF Route

(* The steps of a callback keep every variable in its type.                *)
LEMMA CallbackType ==
  ASSUME IInv, NEW p \in Players, Callback(p) PROVE TypeOK'
<1> USE DEF Goto, Steps, Creating, Receiving, Destroying
<1>0. TypeOK /\ TrainLifetime
  BY DEF IInv
<1>a. pc[p] \in HasTrain => train[p] \in Train /\ train[p].sp \in Positions
                            /\ train[p].pos \in Positions
  BY <1>0, PointsAreNats DEF TypeOK, TrainLifetime, Train, NoPoint, Positions,
     Points
<1>1. CASE IgnoreCreate(p)
  BY <1>0, <1>1 DEF TypeOK, IgnoreCreate, playerVars, sendVars, netVars, mainVars
<1>2. CASE NewTrain(p)
  <2>1. [pos |-> Unplaced, sp |-> NoPoint] \in Train
    BY PointsAreNats DEF Train
  <2> QED
    BY <1>0, <1>2, <2>1 DEF TypeOK, NewTrain, Say, sendVars, netVars, mainVars
<1>3. CASE EnterPlayerLock(p)
  BY <1>0, <1>3 DEF TypeOK, EnterPlayerLock, sendVars, netVars, mainVars
<1>4. CASE FindStartPoint(p)
  BY <1>0, <1>4 DEF TypeOK, FindStartPoint, sendVars, netVars, mainVars
<1>5. CASE ClaimStartPoint(p)
  <2>1. found[p] \in Points
    BY <1>5 DEF IInv, NotYetPlaced, ClaimStartPoint
  <2>2. [pos |-> found[p], sp |-> found[p]] \in Train
    BY <2>1, PointsAreNats DEF Train
  <2> QED
    BY <1>0, <1>5, <2>1, <2>2
       DEF TypeOK, ClaimStartPoint, sendVars, netVars, mainVars
<1>6. CASE LeavePlayerLock(p)
  BY <1>0, <1>6 DEF TypeOK, LeavePlayerLock, sendVars, netVars, mainVars
<1>7. CASE SendSetId(p)
  <2> DEFINE x == IF train[p].sp = NoPoint THEN Garbage ELSE train[p].sp
             m == [type |-> "SET_ID", who |-> p, pos |-> x]
  <2>1. x \in Positions
    BY <1>7, <1>a, PointsAreNats DEF SendSetId, HasTrain
  <2>2. m \in Message
    BY <2>1, MessageTypes
  <2>3. SendTo(p, m) \/ UNCHANGED inbox
    BY <1>7 DEF SendSetId
  <2>4. inbox' \in [Players -> Seq(Message)]
    BY <2>2, <2>3, <1>0, InboxType DEF TypeOK
  <2> QED
    BY <1>0, <1>7, <2>4 DEF TypeOK, SendSetId, playerVars, sendVars, mainVars
<1>8. CASE EnumPlayers(p)
  <2>1. Connected \subseteq Players
    BY <1>0 DEF TypeOK, Connected
  <2> QED
    BY <1>0, <1>8, <2>1 DEF TypeOK, EnumPlayers, playerVars, netVars, mainVars
<1>9. ASSUME NEW q \in Players, SkipPlayer(p, q) PROVE TypeOK'
  BY <1>0, <1>9 DEF TypeOK, SkipPlayer, playerVars, netVars, mainVars
<1>10. ASSUME NEW q \in Players, FetchContext(p, q) PROVE TypeOK'
  BY <1>0, <1>10 DEF TypeOK, FetchContext, playerVars, netVars, mainVars
<1>11. CASE TellAbout(p)
  <2> DEFINE q == about[p]
             x == IF train[q] = NoTrain THEN Garbage ELSE train[q].pos
             m == CreateMsg(q, x)
  <2>1. q \in Players
    BY <1>11 DEF IInv, ThreadData, TellAbout
  <2>2. x \in Positions
    BY <1>0, <2>1, PointsAreNats DEF TypeOK, Train
  <2>3. m \in Message
    BY <2>1, <2>2, MessageTypes
  <2>4. SendTo(p, m) \/ UNCHANGED inbox
    BY <1>11 DEF TellAbout
  <2>5. inbox' \in [Players -> Seq(Message)]
    BY <2>3, <2>4, <1>0, InboxType DEF TypeOK
  <2> QED
    BY <1>0, <1>11, <2>5 DEF TypeOK, TellAbout, playerVars, mainVars
<1>12. CASE EndWorldState(p)
  BY <1>0, <1>12 DEF TypeOK, EndWorldState, playerVars, sendVars, netVars, mainVars
<1>13. CASE Announce(p)
  <2>1. CreateMsg(p, train[p].pos) \in Message
    BY <1>13, <1>a, MessageTypes DEF Announce, HasTrain
  <2>2. inbox' \in [Players -> Seq(Message)]
    BY <2>1, <1>0, <1>13, InboxType DEF Announce
  <2> QED
    BY <1>0, <1>13, <2>2 DEF TypeOK, Announce, playerVars, sendVars, mainVars
<1>14. CASE ReturnFromCreate(p)
  BY <1>0, <1>14
     DEF TypeOK, ReturnFromCreate, playerVars, sendVars, netVars, mainVars
<1>15. CASE RouteMoveTo(p)
  <2>1. datagrams' \in [Players -> SUBSET Datagram]
    BY <1>0, <1>15, RouteType DEF RouteMoveTo, IInv, ThreadData
  <2> QED
    BY <1>0, <1>15, <2>1 DEF TypeOK, RouteMoveTo, Route, playerVars, sendVars, mainVars
<1>16. CASE IgnoreDestroy(p)
  BY <1>0, <1>16 DEF TypeOK, IgnoreDestroy, playerVars, sendVars, netVars, mainVars
<1>17. CASE Destroy(p)
  BY <1>0, <1>17 DEF TypeOK, Destroy, Say, playerVars, sendVars, netVars, mainVars
<1>18. CASE SendDestroy(p)
  <2>1. [type |-> "DESTROY_PLAYER", who |-> p] \in Message
    BY PointsAreNats, MessageTypes
  <2>2. inbox' \in [Players -> Seq(Message)]
    BY <2>1, <1>0, <1>18, InboxType DEF SendDestroy
  <2> QED
    BY <1>0, <1>18, <2>2 DEF TypeOK, SendDestroy, playerVars, sendVars, mainVars
<1>19. CASE ReleaseStartPoint(p)
  BY <1>0, <1>19 DEF TypeOK, ReleaseStartPoint, sendVars, netVars, mainVars
<1>20. CASE CrashOnRelease(p)
  BY <1>0, <1>20 DEF TypeOK, CrashOnRelease, playerVars, sendVars, netVars, mainVars
<1>21. CASE DeleteTrain(p)
  BY <1>0, <1>21 DEF TypeOK, DeleteTrain, sendVars, netVars, mainVars
<1> QED
  BY <1>1, <1>2, <1>3, <1>4, <1>5, <1>6, <1>7, <1>8, <1>9, <1>10, <1>11, <1>12,
     <1>13, <1>14, <1>15, <1>16, <1>17, <1>18, <1>19, <1>20, <1>21 DEF Callback

(* So do the steps of the network and of the main thread.                  *)
LEMMA NetworkType ==
  ASSUME IInv, NEW p \in Players, Network(p) PROVE TypeOK'
<1> USE DEF Goto, Steps, Creating, Receiving
<1>0. TypeOK /\ TrainLifetime
  BY DEF IInv
<1>1. CASE Join(p)
  <2>1. roster' \in Seq(Players)
    BY <1>0, <1>1, AppendType DEF TypeOK, Join
  <2> QED
    BY <1>0, <1>1, <2>1 DEF TypeOK, Join, playerVars, sendVars, netVars, mainVars
<1>2. CASE Disconnect(p)
  <2>1. roster' \in Seq(Players)
    BY <1>0, <1>2, RemoveAtType DEF TypeOK, Disconnect
  <2>2. <<>> \in Seq(Message)
    OBVIOUS
  <2> QED
    BY <1>0, <1>2, <2>1, <2>2 DEF TypeOK, Disconnect, playerVars, sendVars, mainVars
<1>3. CASE ReceiveMoveTo(p)
  <2>1. [pos |-> Moved, sp |-> train[p].sp] \in Train
    BY <1>0, <1>3, PointsAreNats DEF TypeOK, TrainLifetime, HasTrain, Train,
       ReceiveMoveTo
  <2> QED
    BY <1>0, <1>3, <2>1 DEF TypeOK, ReceiveMoveTo, sendVars, netVars, mainVars
<1>4. CASE ReceiveEvent(p)
  <2>1. PICK kind \in Reports \ {"MOVETO"} :
          Goto(p, "ready", "ready") /\ Route(p, kind)
    BY <1>4 DEF ReceiveEvent
  <2>2. datagrams' \in [Players -> SUBSET Datagram]
    BY <1>0, <2>1, RouteType
  <2> QED
    BY <1>0, <2>1, <2>2 DEF TypeOK, Route, playerVars, sendVars, mainVars
<1>5. ASSUME NEW d \in datagrams[p], TakeDatagram(p, d) PROVE TypeOK'
  BY <1>0, <1>5 DEF TypeOK, TakeDatagram, playerVars, sendVars, mainVars
<1> QED
  BY <1>1, <1>2, <1>3, <1>4, <1>5 DEF Network

LEMMA MainThreadType ==
  ASSUME IInv, MainThread \/ RequestExit PROVE TypeOK'
<1>0. TypeOK
  BY DEF IInv
<1>1. CASE PrintMessage
  BY <1>0, <1>1 DEF TypeOK, PrintMessage, playerVars, sendVars, netVars, mainVars
<1>2. CASE StopServer
  <2>1. <<>> \in Seq(Players) /\ <<>> \in Seq(Message)
    OBVIOUS
  <2> QED
    BY <1>0, <1>2, <2>1 DEF TypeOK, StopServer, playerVars, sendVars
<1>3. CASE EndMain
  BY <1>0, <1>3 DEF TypeOK, EndMain, playerVars, sendVars, netVars
<1>4. CASE RequestExit
  BY <1>0, <1>4 DEF TypeOK, RequestExit, playerVars, sendVars, netVars
<1> QED
  BY <1>1, <1>2, <1>3, <1>4 DEF MainThread

-----------------------------------------------------------------------------
(* Every step preserves the invariant                                      *)

LEMMA CallbackStep ==
  ASSUME IInv, NEW p \in Players, Callback(p) PROVE Agreements' /\ ThreadData'
<1> USE DEF Steps, Creating, Receiving, Destroying, InLock, HasTrain
<1>0. pc \in [Players -> Steps] /\ about \in [Players -> Players \cup {Nobody}]
      /\ ThreadData
  BY DEF IInv, TypeOK
<1>1. CASE IgnoreCreate(p)
  BY <1>0, <1>1, QuietMove DEF IgnoreCreate, Agreements, ThreadData, Goto, sendVars
<1>2. CASE NewTrain(p)
  BY <1>0, <1>2, NewTrainStep DEF NewTrain, ThreadData, Goto, sendVars
<1>3. CASE EnterPlayerLock(p)
  BY <1>0, <1>3, EnterPlayerLockStep DEF EnterPlayerLock, ThreadData, Goto, sendVars
<1>4. CASE FindStartPoint(p)
  BY <1>0, <1>4, FindStartPointStep DEF FindStartPoint, ThreadData, Goto, sendVars
<1>5. CASE ClaimStartPoint(p)
  BY <1>0, <1>5, ClaimStartPointStep DEF ClaimStartPoint, ThreadData, Goto, sendVars
<1>6. CASE LeavePlayerLock(p)
  BY <1>0, <1>6, LeavePlayerLockStep DEF LeavePlayerLock, ThreadData, Goto, sendVars
<1>7. CASE SendSetId(p)
  BY <1>0, <1>7, QuietMove DEF SendSetId, Agreements, ThreadData, Goto, sendVars
<1>8. CASE EnumPlayers(p)
  BY <1>0, <1>8, QuietMove DEF EnumPlayers, Agreements, ThreadData, Goto
<1>9. ASSUME NEW q \in Players, SkipPlayer(p, q) PROVE Agreements' /\ ThreadData'
  BY <1>0, <1>9, NoMove DEF SkipPlayer, Agreements, ThreadData
<1>10. ASSUME NEW q \in Players, FetchContext(p, q) PROVE Agreements' /\ ThreadData'
  BY <1>0, <1>10, QuietMove DEF FetchContext, Agreements, ThreadData, Goto
<1>11. CASE TellAbout(p)
  BY <1>0, <1>11, QuietMove DEF TellAbout, Agreements, ThreadData, Goto
<1>12. CASE EndWorldState(p)
  BY <1>0, <1>12, QuietMove DEF EndWorldState, Agreements, ThreadData, Goto, sendVars
<1>13. CASE Announce(p)
  BY <1>0, <1>13, QuietMove DEF Announce, Agreements, ThreadData, Goto, sendVars
<1>14. CASE ReturnFromCreate(p)
  BY <1>0, <1>14, QuietMove
     DEF ReturnFromCreate, Agreements, ThreadData, Goto, sendVars
<1>15. CASE RouteMoveTo(p)
  BY <1>0, <1>15, QuietMove
     DEF RouteMoveTo, Route, Agreements, ThreadData, Goto, sendVars
<1>16. CASE IgnoreDestroy(p)
  BY <1>0, <1>16, QuietMove DEF IgnoreDestroy, Agreements, ThreadData, Goto, sendVars
<1>17. CASE Destroy(p)
  BY <1>0, <1>17, QuietMove DEF Destroy, Agreements, ThreadData, Goto, sendVars
<1>18. CASE SendDestroy(p)
  BY <1>0, <1>18, QuietMove DEF SendDestroy, Agreements, ThreadData, Goto, sendVars
<1>19. CASE ReleaseStartPoint(p)
  BY <1>0, <1>19, ReleaseStartPointStep
     DEF ReleaseStartPoint, ThreadData, Goto, sendVars
<1>20. CASE CrashOnRelease(p)
  BY <1>0, <1>20, NoMove DEF CrashOnRelease, Agreements, ThreadData, sendVars
<1>21. CASE DeleteTrain(p)
  BY <1>0, <1>21, DeleteTrainStep DEF DeleteTrain, ThreadData, Goto, sendVars
<1> QED
  BY <1>1, <1>2, <1>3, <1>4, <1>5, <1>6, <1>7, <1>8, <1>9, <1>10, <1>11, <1>12,
     <1>13, <1>14, <1>15, <1>16, <1>17, <1>18, <1>19, <1>20, <1>21 DEF Callback

LEMMA NetworkStep ==
  ASSUME IInv, NEW p \in Players, Network(p) PROVE Agreements' /\ ThreadData'
<1> USE DEF Steps, Creating, Receiving, Destroying, InLock, HasTrain
<1>0. pc \in [Players -> Steps] /\ ThreadData
  BY DEF IInv, TypeOK
<1>1. CASE Join(p)
  BY <1>0, <1>1, QuietMove DEF Join, Agreements, ThreadData, Goto, sendVars
<1>2. CASE Disconnect(p)
  BY <1>0, <1>2, NoMove DEF Disconnect, Agreements, ThreadData, sendVars
<1>3. CASE ReceiveMoveTo(p)
  BY <1>0, <1>3, ReceiveMoveToStep DEF ReceiveMoveTo, ThreadData, Goto, sendVars
<1>4. CASE ReceiveEvent(p)
  BY <1>0, <1>4, QuietMove
     DEF ReceiveEvent, Route, Agreements, ThreadData, Goto, sendVars
<1>5. ASSUME NEW d \in datagrams[p], TakeDatagram(p, d)
      PROVE  Agreements' /\ ThreadData'
  BY <1>0, <1>5, NoMove DEF TakeDatagram, Agreements, ThreadData, sendVars
<1> QED
  BY <1>1, <1>2, <1>3, <1>4, <1>5 DEF Network

LEMMA MainThreadStep ==
  ASSUME IInv, MainThread \/ RequestExit PROVE Agreements' /\ ThreadData'
  BY NoMove DEF IInv, ThreadData, MainThread, PrintMessage, StopServer, EndMain,
     RequestExit, Agreements, sendVars

LEMMA NextIInv == IInv /\ [Next]_vars => IInv'
<1> SUFFICES ASSUME IInv, [Next]_vars PROVE IInv'
  OBVIOUS
<1>1. ASSUME NEW p \in Players, Callback(p) PROVE IInv'
  BY <1>1, CallbackType, CallbackStep DEF IInv, Agreements
<1>2. ASSUME NEW p \in Players, Network(p) PROVE IInv'
  BY <1>2, NetworkType, NetworkStep DEF IInv, Agreements
<1>3. CASE MainThread \/ RequestExit
  BY <1>3, MainThreadType, MainThreadStep DEF IInv, Agreements
<1>4. CASE UNCHANGED vars
  BY <1>4 DEF vars, playerVars, sendVars, netVars, mainVars, IInv, TypeOK, Mutex,
     TrainLifetime, NotYetPlaced, Released, StartPointAgreement, ThreadData,
     FirstFree, FreePoints
<1> QED
  BY <1>1, <1>2, <1>3, <1>4 DEF Next

-----------------------------------------------------------------------------
(* The theorems                                                            *)

LEMMA Invariance == Spec => []IInv
  BY InitIInv, NextIInv, PTL DEF Spec

(* Every variable of the server keeps its type, however many players come, *)
(* leave and report at once.                                               *)
THEOREM TypeCorrect == Spec => []TypeOK
<1>1. IInv => TypeOK
  BY DEF IInv
<1> QED
  BY <1>1, Invariance, PTL

(* The owner table and the start point pointers of the trains agree        *)
(* (583-592, 299-303), for any number of players and start points.         *)
THEOREM Agreement == Spec => []StartPointAgreement
<1>1. IInv => StartPointAgreement
  BY DEF IInv
<1> QED
  BY <1>1, Invariance, PTL

(* No two trains are ever put on one start point, not even the train whose *)
(* player is just leaving and the one that takes its point over.           *)
THEOREM Exclusive == Spec => []StartPointExclusive
<1>1. IInv => StartPointExclusive
  <2> SUFFICES ASSUME IInv, NEW p \in Players, NEW q \in Players, p # q,
                      train[p] # NoTrain, train[q] # NoTrain,
                      train[p].sp # NoPoint, train[p].sp = train[q].sp
               PROVE  FALSE
    BY DEF StartPointExclusive
  <2>1. train[p].sp \in Points
    BY DEF IInv, TypeOK, Train
  <2>2. pc[p] # "delete" => owner[train[p].sp] = p
    BY DEF IInv, StartPointAgreement
  <2>3. pc[q] # "delete" => owner[train[p].sp] = q
    BY DEF IInv, StartPointAgreement
  <2>4. pc[p] = "delete" => owner[train[p].sp] = Nobody
    BY DEF IInv, Released
  <2>5. pc[q] = "delete" => owner[train[p].sp] = Nobody
    BY DEF IInv, Released
  <2>6. ~(pc[p] = "delete" /\ pc[q] = "delete")
    BY DEF IInv, Mutex, InLock
  <2> QED
    BY <2>2, <2>3, <2>4, <2>5, <2>6, ServerAssumption
<1> QED
  BY <1>1, Invariance, PTL

-----------------------------------------------------------------------------
(* The server implements StartPointPool                                    *)

(* The callbacks between the two critical sections never touch the pool.   *)
LEMMA OwnerStep ==
  ASSUME [Next]_vars
  PROVE  \/ UNCHANGED owner
         \/ \E p \in Players : ClaimStartPoint(p) \/ ReleaseStartPoint(p)
<1>1. ASSUME NEW p \in Players, Callback(p),
             ~ClaimStartPoint(p), ~ReleaseStartPoint(p)
      PROVE  UNCHANGED owner
  BY <1>1
     DEF Callback, IgnoreCreate, NewTrain, EnterPlayerLock, FindStartPoint,
         LeavePlayerLock, SendSetId, EnumPlayers, SkipPlayer, FetchContext,
         TellAbout, EndWorldState, Announce, ReturnFromCreate, RouteMoveTo, Route,
         IgnoreDestroy, Destroy, SendDestroy, CrashOnRelease, DeleteTrain,
         playerVars
<1>2. ASSUME NEW p \in Players, Network(p) PROVE UNCHANGED owner
  BY <1>2 DEF Network, Join, Disconnect, ReceiveMoveTo, ReceiveEvent, Route,
     TakeDatagram, playerVars
<1>3. CASE MainThread \/ RequestExit
  BY <1>3 DEF MainThread, PrintMessage, StopServer, EndMain, RequestExit, playerVars
<1>4. CASE UNCHANGED vars
  BY <1>4 DEF vars, playerVars
<1> QED
  BY <1>1, <1>2, <1>3, <1>4 DEF Next

(* Taking the point the search found is a grant of the first free point to *)
(* a player without one; resetting the owner gives the point back.         *)
LEMMA PoolStep ==
  ASSUME IInv, [Next]_vars PROVE [Pool!Next]_owner
<1>1. ASSUME NEW p \in Players, ClaimStartPoint(p) PROVE Pool!Next
  <2>1. /\ pc[p] = "claim" /\ found[p] \in Points /\ FirstFree(found[p])
        /\ owner' = [owner EXCEPT ![found[p]] = p]
    BY <1>1 DEF ClaimStartPoint, Goto, IInv, NotYetPlaced
  <2>2. \A s \in Points : owner[s] # p
    BY <2>1, PointsAreNats DEF IInv, NotYetPlaced, StartPointAgreement
  <2>3. Pool!FirstFree(found[p])
    BY <2>1 DEF FirstFree, FreePoints, Points, Pool!FirstFree, Pool!Free, Pool!Points
  <2>4. Pool!Grant(p, found[p])
    BY <2>1, <2>2, <2>3 DEF Pool!Grant, Pool!Points, Points
  <2> QED
    BY <2>1, <2>4 DEF Pool!Next, Pool!Points, Points
<1>2. ASSUME NEW p \in Players, ReleaseStartPoint(p) PROVE Pool!Next
  <2>1. /\ pc[p] = "release" /\ train[p].sp # NoPoint
        /\ owner' = [owner EXCEPT ![train[p].sp] = Nobody]
    BY <1>2 DEF ReleaseStartPoint, Goto
  <2>2. train[p].sp \in Points /\ owner[train[p].sp] = p
    BY <2>1 DEF IInv, TypeOK, TrainLifetime, HasTrain, Destroying, Train,
       StartPointAgreement
  <2>3. Pool!GiveBack(p, train[p].sp)
    BY <2>1, <2>2 DEF Pool!GiveBack
  <2> QED
    BY <2>2, <2>3 DEF Pool!Next, Pool!Points, Points
<1> QED
  BY <1>1, <1>2, OwnerStep

(* The server hands out start points as the pool promises: the first free  *)
(* one, to a player that has none, and nobody else until it is given back. *)
THEOREM ImplementsPool == Spec => PoolSpec
<1>1. Init => Pool!Init
  BY DEF Init, Pool!Init, Points, Pool!Points
<1>2. IInv /\ [Next]_vars => [Pool!Next]_owner
  BY PoolStep
<1> QED
  BY <1>1, <1>2, Invariance, PTL DEF Spec, PoolSpec, Pool!Spec

-----------------------------------------------------------------------------
(* What the clients are told                                               *)
(*                                                                         *)
(* MailInv relates what has been sent to a player to where the callbacks   *)
(* of the others are.  The messages about q reach p from three threads: q  *)
(* itself announces its arrival and its departure, and p, when it is new,  *)
(* tells itself of q, long after it has enumerated the players.            *)

(* Who may still be sent messages: a player in the table has a callback    *)
(* that creates it or takes its reports, is there once, and nothing is     *)
(* under way to the others.                                                *)
Distinct == \A i, j \in DOMAIN roster : roster[i] = roster[j] => i = j

Table ==
  /\ Distinct
  /\ \A p \in Connected : pc[p] \in Creating \cup Receiving
  /\ \A p \in Players : p \notin Connected => inbox[p] = <<>>
  /\ Len(roster) <= MaxPlayers

(* A newcomer enumerates the others, never itself.                         *)
Others ==
  \A p \in Players : /\ pc[p] \in {"world", "tell"} => p \notin todo[p]
                     /\ pc[p] = "tell" => about[p] # p

HasId(p) == \E i \in DOMAIN inbox[p] : inbox[p][i].type = "SET_ID"

SetIdSent ==
  \A p \in Connected :
    pc[p] \in {"enum", "world", "tell", "announce", "return"} \cup Receiving
      => HasId(p)

Announced == {"return"} \cup Receiving

Earlier(p, q) ==
  \E i, j \in DOMAIN roster : i < j /\ roster[i] = p /\ roster[j] = q

EarlierIsTold ==
  \A p, q \in Players :
    Earlier(p, q) /\ pc[q] \in Announced => Told(p, q)

TellingAbout(p, q) == pc[p] = "tell" /\ about[p] = q

(* Only of players that were created somebody is, or is about to be, told. *)
OnlyCreated ==
  \A p, q \in Players :
    Told(p, q) \/ TellingAbout(p, q) => pc[q] \notin {"none", "create", "ignored"}

(* The broadcast of SendDestroy has been made.                             *)
Parting == {"dlock", "release", "delete", "dunlock"}

GoneIsTold ==
  \A p \in Connected, q \in Players :
    /\ pc[p] \in {"world", "tell"} /\ q \in todo[p] /\ pc[q] \in Parting
         => ToldGone(p, q)
    /\ (Told(p, q) \/ TellingAbout(p, q)) /\ pc[q] \in Parting \cup {"gone"}
         => ToldGone(p, q)

MailInv ==
  /\ Table
  /\ Others
  /\ SetIdSent
  /\ SetIdBeforeOwnCreate
  /\ EarlierIsTold
  /\ OnlyCreated
  /\ GoneIsTold

IdFirst(p) ==
  \A i \in DOMAIN inbox[p] :
    inbox[p][i].type = "CREATE_PLAYER" /\ inbox[p][i].who = p
      => \E j \in 1..(i - 1) : inbox[p][j].type = "SET_ID"

-----------------------------------------------------------------------------
(* What has been sent to a player grows by the message appended, ...       *)
LEMMA Delivery ==
  ASSUME TypeOK, NEW p \in Players, NEW m \in Message,
         inbox'[p] = Append(inbox[p], m)
  PROVE  /\ \A q : Told(p, q)' <=>
              Told(p, q) \/ (m.type = "CREATE_PLAYER" /\ m.who = q)
         /\ \A q : ToldGone(p, q)' <=>
              ToldGone(p, q) \/ (m.type = "DESTROY_PLAYER" /\ m.who = q)
         /\ HasId(p)' <=> HasId(p) \/ m.type = "SET_ID"
         /\ IdFirst(p) /\ (m.type = "CREATE_PLAYER" /\ m.who = p => HasId(p))
              => IdFirst(p)'
<1> DEFINE s == inbox[p]
           n == Len(s)
<1>1. s \in Seq(Message)
  BY DEF TypeOK
<1>2. n \in Nat /\ DOMAIN s = 1..n
  BY <1>1, LenProperties
<1>3. /\ DOMAIN inbox'[p] = 1..(n + 1) /\ inbox'[p][n + 1] = m
      /\ \A i \in 1..n : inbox'[p][i] = s[i]
  <2>1. /\ Append(s, m) \in Seq(Message) /\ Len(Append(s, m)) = n + 1
        /\ Append(s, m)[n + 1] = m /\ \A i \in 1..n : Append(s, m)[i] = s[i]
    BY <1>1, AppendProperties
  <2> QED
    BY <2>1, LenProperties
<1> HIDE DEF n
<1>4. \A i \in 1..(n + 1) : i \in 1..n \/ i = n + 1
  BY <1>2
<1>5. n + 1 \in 1..(n + 1) /\ 1..n \subseteq 1..(n + 1)
  BY <1>2
<1>6. \A q : Told(p, q)' <=>
         Told(p, q) \/ (m.type = "CREATE_PLAYER" /\ m.who = q)
  BY <1>2, <1>3, <1>4, <1>5 DEF Told
<1>7. \A q : ToldGone(p, q)' <=>
         ToldGone(p, q) \/ (m.type = "DESTROY_PLAYER" /\ m.who = q)
  BY <1>2, <1>3, <1>4, <1>5 DEF ToldGone
<1>8. HasId(p)' <=> HasId(p) \/ m.type = "SET_ID"
  BY <1>2, <1>3, <1>4, <1>5 DEF HasId
<1>9. ASSUME IdFirst(p), m.type = "CREATE_PLAYER" /\ m.who = p => HasId(p)
      PROVE  IdFirst(p)'
  <2> SUFFICES ASSUME NEW i \in 1..(n + 1), inbox'[p][i].type = "CREATE_PLAYER",
                      inbox'[p][i].who = p
               PROVE  \E j \in 1..(i - 1) : inbox'[p][j].type = "SET_ID"
    BY <1>3 DEF IdFirst
  <2>1. CASE i = n + 1
    <3>1. PICK j \in 1..n : s[j].type = "SET_ID"
      BY <1>2, <1>3, <1>9, <2>1 DEF HasId
    <3> QED
      BY <3>1, <2>1, <1>2, <1>3
  <2>2. CASE i \in 1..n
    <3>1. PICK j \in 1..(i - 1) : s[j].type = "SET_ID"
      BY <1>2, <1>3, <1>9, <2>2 DEF IdFirst
    <3> QED
      BY <3>1, <2>2, <1>2, <1>3
  <2> QED
    BY <2>1, <2>2, <1>4
<1> QED
  BY <1>6, <1>7, <1>8, <1>9

(* ... stays as it is when none is, and is nothing when it is thrown away. *)
LEMMA NoDelivery ==
  ASSUME NEW p, inbox'[p] = inbox[p]
  PROVE  /\ \A q : Told(p, q)' <=> Told(p, q)
         /\ \A q : ToldGone(p, q)' <=> ToldGone(p, q)
         /\ HasId(p)' <=> HasId(p)
         /\ IdFirst(p)' <=> IdFirst(p)
  BY DEF Told, ToldGone, HasId, IdFirst

LEMMA Nothing ==
  ASSUME NEW p
  PROVE  inbox[p] = <<>> => IdFirst(p) /\ \A q : ~Told(p, q) /\ ~ToldGone(p, q)
  BY DEF IdFirst, Told, ToldGone

(* A step that sends nothing and moves one callback, outside the messages  *)
(* the server sends about players.                                         *)
Harmless(p, from, to) ==
  /\ from \notin {"none", "gone"}
  /\ to \notin {"none", "create", "world", "tell"}
  /\ to = "ignored" => from = "create"
  /\ p \in Connected /\ from \in Creating \cup Receiving
       => to \in Creating \cup Receiving
  /\ to \in {"enum", "announce", "return"} \cup Receiving
       => from \in {"enum", "world", "tell", "announce", "return"} \cup Receiving
  /\ to \in Announced => from \in Announced
  /\ to \in Parting => from \in Parting
  /\ to \in Parting \cup {"gone"} => from \in Parting \cup {"gone", "ignored"}

Quiet == /\ UNCHANGED <<roster, inbox, todo, about>>
         /\ \/ UNCHANGED pc
            \/ \E p \in Players, from, to \in Steps :
                 Goto(p, from, to) /\ Harmless(p, from, to)

LEMMA Moves ==
  ASSUME NEW p
  PROVE  /\ p \notin Connected => /\ Harmless(p, "create", "ignored")
                                 /\ Harmless(p, "ready", "bye")
         /\ Harmless(p, "create", "lock") /\ Harmless(p, "lock", "scan")
         /\ Harmless(p, "scan", "claim") /\ Harmless(p, "scan", "unlock")
         /\ Harmless(p, "claim", "unlock") /\ Harmless(p, "unlock", "setid")
         /\ Harmless(p, "world", "announce") /\ Harmless(p, "return", "ready")
         /\ Harmless(p, "ready", "ready") /\ Harmless(p, "ready", "move")
         /\ Harmless(p, "move", "ready") /\ Harmless(p, "ignored", "gone")
         /\ Harmless(p, "dlock", "release") /\ Harmless(p, "release", "delete")
         /\ Harmless(p, "delete", "dunlock") /\ Harmless(p, "dunlock", "gone")
  BY DEF Harmless, Creating, Receiving, Announced, Parting

LEMMA Still ==
  ASSUME NEW p \in Players, NEW from \in Steps, NEW to \in Steps,
         Goto(p, from, to), Harmless(p, from, to),
         UNCHANGED <<roster, inbox, todo, about>>
  PROVE  Quiet
  BY DEF Quiet

(* The steps of a callback that are more than that.                        *)
LEMMA CallbackSends ==
  ASSUME TypeOK, NEW p \in Players, Callback(p)
  PROVE  \/ Quiet \/ SendSetId(p) \/ EnumPlayers(p) \/ TellAbout(p)
         \/ Announce(p) \/ SendDestroy(p)
         \/ \E q \in Players : SkipPlayer(p, q) \/ FetchContext(p, q)
<1> USE Moves, Still DEF Steps, Creating, Receiving, Destroying, playerVars, sendVars,
                        netVars, mainVars
<1>1. CASE IgnoreCreate(p)
  BY <1>1 DEF IgnoreCreate
<1>2. CASE NewTrain(p)
  BY <1>2 DEF NewTrain
<1>3. CASE EnterPlayerLock(p)
  BY <1>3 DEF EnterPlayerLock
<1>4. CASE FindStartPoint(p)
  BY <1>4 DEF FindStartPoint
<1>5. CASE ClaimStartPoint(p)
  BY <1>5 DEF ClaimStartPoint
<1>6. CASE LeavePlayerLock(p)
  BY <1>6 DEF LeavePlayerLock
<1>7. CASE EndWorldState(p)
  BY <1>7 DEF EndWorldState
<1>8. CASE ReturnFromCreate(p)
  BY <1>8 DEF ReturnFromCreate
<1>9. CASE RouteMoveTo(p)
  BY <1>9 DEF RouteMoveTo, Route
<1>10. CASE IgnoreDestroy(p)
  BY <1>10 DEF IgnoreDestroy
<1>11. CASE Destroy(p)
  BY <1>11 DEF Destroy
<1>12. CASE ReleaseStartPoint(p)
  BY <1>12 DEF ReleaseStartPoint
<1>13. CASE CrashOnRelease(p)
  BY <1>13 DEF CrashOnRelease, Quiet
<1>14. CASE DeleteTrain(p)
  BY <1>14 DEF DeleteTrain
<1> QED
  BY <1>1, <1>2, <1>3, <1>4, <1>5, <1>6, <1>7, <1>8, <1>9, <1>10, <1>11,
     <1>12, <1>13, <1>14 DEF Callback

LEMMA QuietSteps ==
  ASSUME TypeOK, [Next]_vars
  PROVE  \/ Quiet
         \/ StopServer
         \/ \E p \in Players :
              \/ Join(p) \/ Disconnect(p) \/ SendSetId(p) \/ EnumPlayers(p)
              \/ TellAbout(p) \/ Announce(p) \/ SendDestroy(p)
              \/ \E q \in Players : SkipPlayer(p, q) \/ FetchContext(p, q)
<1> USE Moves, Still DEF Steps, Creating, Receiving, Destroying, playerVars, sendVars,
                        netVars, mainVars
<1>1. ASSUME NEW p \in Players, Callback(p)
      PROVE  \/ Quiet \/ SendSetId(p) \/ EnumPlayers(p) \/ TellAbout(p)
             \/ Announce(p) \/ SendDestroy(p)
             \/ \E q \in Players : SkipPlayer(p, q) \/ FetchContext(p, q)
  BY <1>1, CallbackSends
<1>2. ASSUME NEW p \in Players, Network(p)
      PROVE  Quiet \/ Join(p) \/ Disconnect(p)
  <2>1. CASE ReceiveMoveTo(p)
    BY <2>1 DEF ReceiveMoveTo
  <2>2. CASE ReceiveEvent(p)
    BY <2>2 DEF ReceiveEvent, Route
  <2>3. ASSUME NEW d \in datagrams[p], TakeDatagram(p, d) PROVE Quiet
    BY <2>3 DEF TakeDatagram, Quiet
  <2> QED
    BY <1>2, <2>1, <2>2, <2>3 DEF Network
<1>3. CASE MainThread \/ RequestExit
  BY <1>3 DEF MainThread, PrintMessage, EndMain, RequestExit, Quiet
<1>4. CASE UNCHANGED vars
  BY <1>4 DEF vars, Quiet
<1> QED
  BY <1>1, <1>2, <1>3, <1>4 DEF Next

-----------------------------------------------------------------------------
(* The table of players                                                    *)

(* The elements behind the one removed move up.                            *)
LEMMA RemoveAtElements ==
  ASSUME NEW S, NEW s \in Seq(S), NEW i \in DOMAIN s
  PROVE  /\ Len(s) \in Nat \ {0} /\ DOMAIN s = 1..Len(s)
         /\ Len(RemoveAt(s, i)) = Len(s) - 1
         /\ DOMAIN RemoveAt(s, i) = 1..(Len(s) - 1)
         /\ \A k \in 1..(Len(s) - 1) :
              RemoveAt(s, i)[k] = IF k < i THEN s[k] ELSE s[k + 1]
<1> DEFINE n == Len(s)
           a == SubSeq(s, 1, i - 1)
           b == SubSeq(s, i + 1, n)
<1>1. n \in Nat /\ DOMAIN s = 1..n /\ i \in 1..n
  BY LenProperties
<1>2. a \in Seq(S) /\ Len(a) = i - 1 /\ \A k \in 1..(i - 1) : a[k] = s[k]
  BY <1>1, SubSeqProperties
<1>3. b \in Seq(S) /\ Len(b) = n - i /\ \A k \in 1..(n - i) : b[k] = s[i + k]
  BY <1>1, SubSeqProperties
<1>9. RemoveAt(s, i) = a \o b /\ n = Len(s)
  BY DEF RemoveAt
<1> HIDE DEF n, a, b
<1>4. /\ a \o b \in Seq(S) /\ Len(a \o b) = n - 1
      /\ \A k \in 1..(n - 1) : (a \o b)[k] = IF k <= i - 1 THEN a[k] ELSE b[k - (i - 1)]
  BY <1>1, <1>2, <1>3, ConcatProperties
<1>5. DOMAIN (a \o b) = 1..(n - 1)
  BY <1>4, LenProperties
<1>6. ASSUME NEW k \in 1..(n - 1)
      PROVE  (a \o b)[k] = IF k < i THEN s[k] ELSE s[k + 1]
  <2>1. CASE k < i
    BY <2>1, <1>1, <1>2, <1>4
  <2>2. CASE ~(k < i)
    <3>1. (a \o b)[k] = b[k - (i - 1)] /\ k - (i - 1) \in 1..(n - i)
      BY <2>2, <1>1, <1>4
    <3>2. b[k - (i - 1)] = s[i + (k - (i - 1))] /\ i + (k - (i - 1)) = k + 1
      BY <3>1, <1>1, <1>3
    <3> QED
      BY <2>2, <3>1, <3>2
  <2> QED
    BY <2>1, <2>2
<1> QED
  BY <1>9, <1>1, <1>4, <1>5, <1>6

(* A player joins behind all others.                                       *)
LEMMA JoinTable ==
  ASSUME TypeOK, NEW p \in Players, roster' = Append(roster, p)
  PROVE  /\ Connected' = Connected \cup {p}
         /\ Len(roster') = Len(roster) + 1 /\ Len(roster) \in Nat
         /\ Distinct /\ p \notin Connected => Distinct'
         /\ \A q, r : Earlier(q, r)' => Earlier(q, r) \/ r = p
<1> DEFINE n == Len(roster)
<1>1. n \in Nat /\ DOMAIN roster = 1..n
  BY LenProperties DEF TypeOK
<1>2. /\ Append(roster, p) \in Seq(Players) /\ Len(roster') = n + 1
      /\ roster'[n + 1] = p /\ \A i \in 1..n : roster'[i] = roster[i]
  BY AppendProperties DEF TypeOK
<1>3. DOMAIN roster' = 1..(n + 1)
  BY <1>2, LenProperties
<1> HIDE DEF n
<1>4. \A i \in 1..(n + 1) : i \in 1..n \/ i = n + 1
  BY <1>1
<1>5. n + 1 \in 1..(n + 1) /\ 1..n \subseteq 1..(n + 1)
  BY <1>1
<1>6. Connected' = Connected \cup {p}
  BY <1>1, <1>2, <1>3, <1>4, <1>5 DEF Connected
<1>7. Distinct /\ p \notin Connected => Distinct'
  BY <1>1, <1>2, <1>3, <1>4, <1>5 DEF Connected, Distinct
<1>8. ASSUME NEW q, NEW r, Earlier(q, r)', r # p PROVE Earlier(q, r)
  <2>1. PICK i \in 1..(n + 1), j \in 1..(n + 1) :
               i < j /\ roster'[i] = q /\ roster'[j] = r
    BY <1>8, <1>3 DEF Earlier
  <2>2. i \in 1..n /\ j \in 1..n
    BY <2>1, <1>1, <1>2, <1>8
  <2> QED
    BY <2>1, <2>2, <1>1, <1>2 DEF Earlier
<1>9. n = Len(roster)
  BY DEF n
<1> QED
  BY <1>1, <1>2, <1>6, <1>7, <1>8, <1>9

(* A player leaves, and the order of the others stays.                     *)
LEMMA LeaveTable ==
  ASSUME TypeOK, NEW i \in DOMAIN roster, roster' = RemoveAt(roster, i), Distinct
  PROVE  /\ Connected' = Connected \ {roster[i]}
         /\ Len(roster') = Len(roster) - 1 /\ Len(roster) \in Nat
         /\ Distinct'
         /\ \A q, r : Earlier(q, r)' => Earlier(q, r)
<1> DEFINE n == Len(roster)
           old(k) == IF k < i THEN k ELSE k + 1
<1>1. /\ n \in Nat \ {0} /\ DOMAIN roster = 1..n /\ i \in 1..n
      /\ Len(roster') = n - 1 /\ DOMAIN roster' = 1..(n - 1)
      /\ \A k \in 1..(n - 1) : roster'[k] = IF k < i THEN roster[k] ELSE roster[k + 1]
  BY RemoveAtElements DEF TypeOK
<1> HIDE DEF n
<1>2. \A k \in 1..(n - 1) : /\ old(k) \in 1..n /\ old(k) # i
                            /\ roster'[k] = roster[old(k)]
  BY <1>1
<1>3. \A k, l \in 1..(n - 1) : k < l <=> old(k) < old(l)
  BY <1>1
<1>4. \A m \in 1..n : m # i => \E k \in 1..(n - 1) : old(k) = m
  <2> SUFFICES ASSUME NEW m \in 1..n, m # i
               PROVE  \E k \in 1..(n - 1) : old(k) = m
    OBVIOUS
  <2>1. CASE m < i
    <3>1. m \in 1..(n - 1) /\ old(m) = m
      BY <2>1, <1>1
    <3> QED
      BY <3>1
  <2>2. CASE ~(m < i)
    <3>1. m - 1 \in 1..(n - 1) /\ old(m - 1) = m
      BY <2>2, <1>1
    <3> QED
      BY <3>1
  <2> QED
    BY <2>1, <2>2
<1>5. \A k, l \in 1..(n - 1) : old(k) = old(l) => k = l
  BY <1>1
<1> HIDE DEF old
<1>6. Connected' = Connected \ {roster[i]}
  <2>1. ASSUME NEW k \in 1..(n - 1)
        PROVE  roster'[k] \in Connected \ {roster[i]}
    BY <1>1, <1>2 DEF Connected, Distinct
  <2>2. ASSUME NEW m \in 1..n, roster[m] # roster[i]
        PROVE  \E k \in 1..(n - 1) : roster'[k] = roster[m]
    BY <2>2, <1>1, <1>2, <1>4
  <2>3. /\ Connected = {roster[m] : m \in 1..n}
        /\ Connected' = {roster'[k] : k \in 1..(n - 1)}
    BY <1>1 DEF Connected
  <2>4. Connected' \subseteq Connected \ {roster[i]}
    BY <2>1, <2>3
  <2>5. Connected \ {roster[i]} \subseteq Connected'
    BY <2>2, <2>3
  <2> QED
    BY <2>4, <2>5
<1>7. Distinct'
  BY <1>1, <1>2, <1>5 DEF Distinct
<1>8. \A q, r : Earlier(q, r)' => Earlier(q, r)
  BY <1>1, <1>2, <1>3 DEF Earlier
<1>9. n = Len(roster)
  BY DEF n
<1> QED
  BY <1>1, <1>6, <1>7, <1>8, <1>9

-----------------------------------------------------------------------------
(* Every step preserves MailInv                                            *)

(* What a message m to the players of R changes.                           *)
Post(R, m) ==
  inbox' = [q \in Players |-> IF q \in R THEN Append(inbox[q], m) ELSE inbox[q]]

LEMMA Posted ==
  ASSUME TypeOK, NEW R, NEW m \in Message, Post(R, m), NEW p \in Players
  PROVE  /\ \A q : Told(p, q)' <=>
              Told(p, q) \/ (p \in R /\ m.type = "CREATE_PLAYER" /\ m.who = q)
         /\ \A q : ToldGone(p, q)' <=>
              ToldGone(p, q) \/ (p \in R /\ m.type = "DESTROY_PLAYER" /\ m.who = q)
         /\ HasId(p)' <=> HasId(p) \/ (p \in R /\ m.type = "SET_ID")
         /\ IdFirst(p) /\ (m.type = "CREATE_PLAYER" /\ m.who = p => HasId(p))
              => IdFirst(p)'
<1>1. CASE p \in R
  <2>1. inbox'[p] = Append(inbox[p], m)
    BY <1>1 DEF Post
  <2> QED
    BY <1>1, <2>1, Delivery
<1>2. CASE p \notin R
  <2>1. inbox'[p] = inbox[p]
    BY <1>2 DEF Post
  <2> QED
    BY <1>2, <2>1, NoDelivery
<1> QED
  BY <1>1, <1>2

(* Only players in the table are sent anything.                            *)
LEMMA PostedTable ==
  ASSUME Table, NEW R \in SUBSET Connected, NEW m, Post(R, m), UNCHANGED roster,
         \A p \in Connected : pc'[p] \in Creating \cup Receiving
  PROVE  Table' /\ Connected' = Connected
<1>1. Connected' = Connected
  BY DEF Connected
<1>2. \A p \in Players : p \notin Connected => inbox'[p] = <<>>
  BY DEF Post, Table
<1>3. Distinct' /\ Len(roster') <= MaxPlayers
  BY DEF Table, Distinct
<1> QED
  BY <1>1, <1>2, <1>3 DEF Table

LEMMA Ground ==
  ASSUME IInv
  PROVE  /\ TypeOK /\ pc \in [Players -> Steps] /\ Connected \subseteq Players
         /\ todo \in [Players -> SUBSET Players]
         /\ about \in [Players -> Players \cup {Nobody}]
         /\ \A p \in Players : pc[p] = "tell" => about[p] \in Players
  BY DEF IInv, TypeOK, ThreadData, Connected

LEMMA QuietMail ==
  ASSUME IInv, MailInv, Quiet PROVE MailInv'
<1>1. UNCHANGED <<roster, inbox, todo, about>> /\ Connected' = Connected
  BY DEF Quiet, Connected
<1>2. /\ \A p, q : Told(p, q)' <=> Told(p, q)
      /\ \A p, q : ToldGone(p, q)' <=> ToldGone(p, q)
      /\ \A p : HasId(p)' <=> HasId(p)
      /\ \A p : IdFirst(p)' <=> IdFirst(p)
  BY <1>1, NoDelivery
<1>3. CASE UNCHANGED pc
  BY <1>1, <1>2, <1>3 DEF MailInv, Table, Distinct, Others, SetIdSent, Earlier,
     SetIdBeforeOwnCreate, IdFirst, EarlierIsTold, OnlyCreated, GoneIsTold, TellingAbout
<1>4. ASSUME NEW p \in Players, NEW from \in Steps, NEW to \in Steps,
             Goto(p, from, to), Harmless(p, from, to)
      PROVE  MailInv'
  <2>1. pc[p] = from /\ pc'[p] = to /\ \A q \in Players \ {p} : pc'[q] = pc[q]
    BY <1>4, Ground DEF Goto
  <2>2. \A q, r : TellingAbout(q, r)' /\ q \in Players => TellingAbout(q, r)
    BY <1>1, <1>4, <2>1 DEF TellingAbout, Harmless
  <2>3. Table'
    BY <1>1, <1>4, <2>1, Ground DEF MailInv, Table, Distinct, Harmless
  <2>4. Others'
    BY <1>1, <1>4, <2>1 DEF MailInv, Others, Harmless
  <2>5. SetIdSent'
    BY <1>1, <1>2, <1>4, <2>1, Ground DEF MailInv, SetIdSent, Harmless
  <2>6. SetIdBeforeOwnCreate'
    BY <1>1 DEF MailInv, SetIdBeforeOwnCreate
  <2>7. EarlierIsTold'
    BY <1>1, <1>2, <1>4, <2>1 DEF MailInv, EarlierIsTold, Earlier, Harmless
  <2>8. OnlyCreated'
    BY <1>2, <1>4, <2>1, <2>2 DEF MailInv, OnlyCreated, Harmless
  <2>9. GoneIsTold'
    BY <1>1, <1>2, <1>4, <2>1, <2>2, Ground
       DEF MailInv, GoneIsTold, OnlyCreated, Harmless, Parting
  <2> QED
    BY <2>3, <2>4, <2>5, <2>6, <2>7, <2>8, <2>9 DEF MailInv
<1> QED
  BY <1>3, <1>4 DEF Quiet

(* A player that joins has been sent nothing and nobody knows of it.       *)
LEMMA JoinMail ==
  ASSUME IInv, MailInv, NEW p \in Players, Join(p) PROVE MailInv'
<1>1. /\ pc[p] = "none" /\ pc'[p] = "create"
      /\ \A q \in Players \ {p} : pc'[q] = pc[q]
      /\ roster' = Append(roster, p) /\ UNCHANGED <<inbox, todo, about>>
      /\ Len(roster) < MaxPlayers
  BY Ground DEF Join, Goto, sendVars, netVars
<1>2. /\ \A q, r : Told(q, r)' <=> Told(q, r)
      /\ \A q, r : ToldGone(q, r)' <=> ToldGone(q, r)
      /\ \A q : HasId(q)' <=> HasId(q)
  BY <1>1, NoDelivery
<1>3. p \notin Connected
  BY <1>1 DEF MailInv, Table, Creating, Receiving
<1>4. /\ Connected' = Connected \cup {p} /\ Distinct'
      /\ Len(roster) \in Nat /\ Len(roster') = Len(roster) + 1
      /\ \A q, r : Earlier(q, r)' => Earlier(q, r) \/ r = p
  BY <1>1, <1>3, Ground, JoinTable DEF MailInv, Table
<1>5. \A q, r : TellingAbout(q, r)' /\ q \in Players => TellingAbout(q, r)
  BY <1>1 DEF TellingAbout
<1>6. MaxPlayers \in Nat
  BY ServerAssumption DEF MaxPlayers
<1>7. Table'
  BY <1>1, <1>4, <1>6, Ground DEF MailInv, Table, Creating
<1>8. Others'
  BY <1>1 DEF MailInv, Others
<1>9. SetIdSent'
  BY <1>1, <1>2, <1>4, Ground DEF MailInv, SetIdSent, Receiving
<1>10. SetIdBeforeOwnCreate'
  BY <1>1 DEF MailInv, SetIdBeforeOwnCreate
<1>11. EarlierIsTold'
  BY <1>1, <1>2, <1>4 DEF MailInv, EarlierIsTold, Announced, Receiving
<1>12. OnlyCreated'
  BY <1>1, <1>2, <1>5 DEF MailInv, OnlyCreated
<1>13. GoneIsTold'
  <2>1. \A q : ~Told(p, q)
    BY <1>3, Nothing DEF MailInv, Table
  <2> QED
    BY <1>1, <1>2, <1>4, <1>5, <2>1, Ground DEF MailInv, GoneIsTold, Parting,
       TellingAbout
<1> QED
  BY <1>7, <1>8, <1>9, <1>10, <1>11, <1>12, <1>13 DEF MailInv

(* What a player that has left was told counts no more.                    *)
LEMMA DisconnectMail ==
  ASSUME IInv, MailInv, NEW p \in Players, Disconnect(p) PROVE MailInv'
<1>1. PICK i \in DOMAIN roster : roster[i] = p /\ roster' = RemoveAt(roster, i)
  BY DEF Disconnect
<1>2. inbox'[p] = <<>> /\ UNCHANGED <<pc, todo, about>>
      /\ \A q \in Players \ {p} : inbox'[q] = inbox[q]
  BY Ground DEF Disconnect, sendVars, TypeOK
<1>3. \A q \in Players \ {p} : /\ \A r : Told(q, r)' <=> Told(q, r)
                               /\ \A r : ToldGone(q, r)' <=> ToldGone(q, r)
                               /\ HasId(q)' <=> HasId(q)
                               /\ IdFirst(q)' <=> IdFirst(q)
  BY <1>2, NoDelivery
<1>4. /\ Connected' = Connected \ {p} /\ Distinct'
      /\ Len(roster) \in Nat /\ Len(roster') = Len(roster) - 1
      /\ \A q, r : Earlier(q, r)' => Earlier(q, r)
  BY <1>1, Ground, LeaveTable DEF MailInv, Table
<1>5. IdFirst(p)' /\ \A r : ~Told(p, r)'
  BY <1>2 DEF IdFirst, Told
<1>6. \A q, r : TellingAbout(q, r)' <=> TellingAbout(q, r)
  BY <1>2 DEF TellingAbout
<1>7. MaxPlayers \in Nat
  BY ServerAssumption DEF MaxPlayers
<1>8. Table'
  BY <1>2, <1>4, <1>7 DEF MailInv, Table
<1>9. Others'
  BY <1>2 DEF MailInv, Others
<1>10. SetIdSent'
  BY <1>2, <1>3, <1>4, Ground DEF MailInv, SetIdSent
<1>11. SetIdBeforeOwnCreate'
  BY <1>3, <1>5 DEF MailInv, SetIdBeforeOwnCreate, IdFirst
<1>12. EarlierIsTold'
  <2> SUFFICES ASSUME NEW q \in Players, NEW r \in Players,
                      Earlier(q, r)', pc'[r] \in Announced
               PROVE  Told(q, r)'
    BY DEF EarlierIsTold
  <2>1. q \in Connected'
    BY DEF Earlier, Connected
  <2>2. Told(q, r)
    BY <1>2, <1>4 DEF MailInv, EarlierIsTold
  <2> QED
    BY <1>3, <1>4, <2>1, <2>2
<1>13. OnlyCreated'
  BY <1>2, <1>3, <1>5, <1>6 DEF MailInv, OnlyCreated
<1>14. GoneIsTold'
  BY <1>2, <1>3, <1>4, <1>6, Ground DEF MailInv, GoneIsTold
<1> QED
  BY <1>8, <1>9, <1>10, <1>11, <1>12, <1>13, <1>14 DEF MailInv

LEMMA StopMail ==
  ASSUME IInv, MailInv, StopServer PROVE MailInv'
<1>1. /\ roster' = <<>> /\ inbox' = [p \in Players |-> <<>>]
      /\ UNCHANGED <<pc, todo, about>>
  BY DEF StopServer, sendVars
<1>2. \A p \in Players : IdFirst(p)' /\ \A q : ~Told(p, q)'
  BY <1>1 DEF IdFirst, Told
<1>3. Connected' = {} /\ \A p, q : ~Earlier(p, q)'
  BY <1>1 DEF Connected, Earlier
<1>4. MaxPlayers \in Nat
  BY ServerAssumption DEF MaxPlayers
<1>5. Table'
  <2>1. Distinct' /\ Len(roster') = 0
    BY <1>1 DEF Distinct
  <2> QED
    BY <1>1, <1>3, <1>4, <2>1 DEF Table
<1>6. Others'
  BY <1>1 DEF MailInv, Others
<1>7. SetIdBeforeOwnCreate'
  BY <1>2 DEF SetIdBeforeOwnCreate, IdFirst
<1>8. OnlyCreated'
  BY <1>1, <1>2 DEF MailInv, OnlyCreated, TellingAbout
<1>9. SetIdSent' /\ EarlierIsTold' /\ GoneIsTold'
  BY <1>3 DEF SetIdSent, EarlierIsTold, GoneIsTold
<1> QED
  BY <1>5, <1>6, <1>7, <1>8, <1>9 DEF MailInv

LEMMA SendSetIdMail ==
  ASSUME IInv, MailInv, NEW p \in Players, SendSetId(p) PROVE MailInv'
<1> DEFINE x == IF train[p].sp = NoPoint THEN Garbage ELSE train[p].sp
           m == [type |-> "SET_ID", who |-> p, pos |-> x]
           R == {p} \cap Connected
<1>1. /\ pc[p] = "setid" /\ pc'[p] = "enum"
      /\ \A q \in Players \ {p} : pc'[q] = pc[q]
      /\ UNCHANGED <<roster, todo, about>>
  BY Ground DEF SendSetId, Goto, sendVars
<1>2. m \in Message
  <2>1. train[p] \in Train
    BY <1>1 DEF IInv, TypeOK, TrainLifetime, HasTrain, Creating
  <2>2. x \in Positions
    BY <2>1, PointsAreNats DEF Train, NoPoint
  <2> QED
    BY <2>2, MessageTypes
<1>3. Post(R, m)
  BY Ground DEF SendSetId, SendTo, Post, TypeOK
<1>4. m.type = "SET_ID"
  OBVIOUS
<1> HIDE DEF m, x
<1>5. \A q \in Players : /\ \A r : Told(q, r)' <=> Told(q, r)
                         /\ \A r : ToldGone(q, r)' <=> ToldGone(q, r)
                         /\ HasId(q)' <=> HasId(q) \/ q \in R
                         /\ IdFirst(q) => IdFirst(q)'
  BY <1>2, <1>3, <1>4, Ground, Posted
<1>6. Table' /\ Connected' = Connected
  BY <1>1, <1>3, Ground, PostedTable DEF MailInv, Table, Creating
<1>7. \A q, r : q \in Players /\ TellingAbout(q, r)' => TellingAbout(q, r)
  BY <1>1 DEF TellingAbout
<1>8. Others'
  BY <1>1 DEF MailInv, Others
<1>9. SetIdSent'
  BY <1>1, <1>5, <1>6, Ground DEF MailInv, SetIdSent
<1>10. SetIdBeforeOwnCreate'
  BY <1>5 DEF MailInv, SetIdBeforeOwnCreate, IdFirst
<1>11. EarlierIsTold'
  BY <1>1, <1>5 DEF MailInv, EarlierIsTold, Earlier, Announced, Receiving
<1>12. OnlyCreated'
  BY <1>1, <1>5, <1>7 DEF MailInv, OnlyCreated
<1>13. GoneIsTold'
  BY <1>1, <1>5, <1>6, <1>7, Ground DEF MailInv, GoneIsTold, Parting
<1> QED
  BY <1>6, <1>8, <1>9, <1>10, <1>11, <1>12, <1>13 DEF MailInv

(* The list a newcomer goes through holds players that have not left yet.  *)
LEMMA EnumPlayersMail ==
  ASSUME IInv, MailInv, NEW p \in Players, EnumPlayers(p) PROVE MailInv'
<1>1. /\ pc[p] = "enum" /\ pc'[p] = "world"
      /\ \A q \in Players \ {p} : pc'[q] = pc[q] /\ todo'[q] = todo[q]
      /\ todo'[p] = Connected \ {p}
      /\ UNCHANGED <<roster, inbox, about>>
  BY Ground DEF EnumPlayers, Goto, netVars
<1>2. /\ \A q, r : Told(q, r)' <=> Told(q, r)
      /\ \A q, r : ToldGone(q, r)' <=> ToldGone(q, r)
      /\ \A q : HasId(q)' <=> HasId(q)
      /\ Connected' = Connected
  BY <1>1, NoDelivery DEF Connected
<1>3. \A q, r : q \in Players /\ TellingAbout(q, r)' => TellingAbout(q, r)
  BY <1>1 DEF TellingAbout
<1>4. Table'
  BY <1>1, <1>2, Ground DEF MailInv, Table, Distinct, Creating
<1>5. Others'
  BY <1>1 DEF MailInv, Others
<1>6. SetIdSent'
  BY <1>1, <1>2, Ground DEF MailInv, SetIdSent
<1>7. SetIdBeforeOwnCreate'
  BY <1>1 DEF MailInv, SetIdBeforeOwnCreate
<1>8. EarlierIsTold'
  BY <1>1, <1>2 DEF MailInv, EarlierIsTold, Earlier, Announced, Receiving
<1>9. OnlyCreated'
  BY <1>1, <1>2, <1>3 DEF MailInv, OnlyCreated
<1>10. GoneIsTold'
  <2>1. \A q \in Connected : pc'[q] \notin Parting
    BY <1>1, Ground DEF MailInv, Table, Creating, Receiving, Parting
  <2>2. \A q \in Connected, r \in Players :
          /\ pc'[q] \in {"world", "tell"} /\ r \in todo'[q] /\ pc'[r] \in Parting
          => ToldGone(q, r)
    BY <1>1, <2>1, Ground DEF MailInv, GoneIsTold, Parting
  <2>3. \A q \in Connected, r \in Players :
          (Told(q, r) \/ TellingAbout(q, r)') /\ pc'[r] \in Parting \cup {"gone"}
          => ToldGone(q, r)
    BY <1>1, <1>3, Ground DEF MailInv, GoneIsTold, Parting
  <2> QED
    BY <1>2, <2>2, <2>3 DEF GoneIsTold
<1> QED
  BY <1>4, <1>5, <1>6, <1>7, <1>8, <1>9, <1>10 DEF MailInv

LEMMA SkipPlayerMail ==
  ASSUME IInv, MailInv, NEW p \in Players, NEW q \in Players, SkipPlayer(p, q)
  PROVE  MailInv'
<1>1. /\ UNCHANGED <<roster, pc, inbox, about>>
      /\ \A r \in Players : todo'[r] \subseteq todo[r]
  BY Ground DEF SkipPlayer, netVars
<1>2. /\ \A r, s : Told(r, s)' <=> Told(r, s)
      /\ \A r, s : ToldGone(r, s)' <=> ToldGone(r, s)
      /\ \A r : HasId(r)' <=> HasId(r)
      /\ \A r, s : TellingAbout(r, s)' <=> TellingAbout(r, s)
      /\ Connected' = Connected
  BY <1>1, NoDelivery DEF Connected, TellingAbout
<1>3. Table' /\ Others' /\ SetIdSent' /\ SetIdBeforeOwnCreate'
  BY <1>1, <1>2, Ground
     DEF MailInv, Table, Distinct, Others, SetIdSent, SetIdBeforeOwnCreate
<1>4. EarlierIsTold' /\ OnlyCreated'
  BY <1>1, <1>2 DEF MailInv, EarlierIsTold, Earlier, OnlyCreated
<1>5. GoneIsTold'
  BY <1>1, <1>2, Ground DEF MailInv, GoneIsTold
<1> QED
  BY <1>3, <1>4, <1>5 DEF MailInv

(* Fetching the context of a player that is leaving comes after it was     *)
(* enumerated, so the broadcast of its departure found the newcomer.       *)
LEMMA FetchContextMail ==
  ASSUME IInv, MailInv, NEW p \in Players, NEW q \in Players, FetchContext(p, q)
  PROVE  MailInv'
<1>1. /\ pc[p] = "world" /\ pc'[p] = "tell" /\ q \in todo[p]
      /\ pc[q] \in Receiving \cup Destroying
      /\ \A r \in Players \ {p} : /\ pc'[r] = pc[r] /\ todo'[r] = todo[r]
                                  /\ about'[r] = about[r]
      /\ todo'[p] = todo[p] \ {q} /\ about'[p] = q
      /\ UNCHANGED <<roster, inbox>>
  BY Ground DEF FetchContext, HasContext, Goto, netVars
<1>2. /\ \A r, s : Told(r, s)' <=> Told(r, s)
      /\ \A r, s : ToldGone(r, s)' <=> ToldGone(r, s)
      /\ \A r : HasId(r)' <=> HasId(r)
      /\ Connected' = Connected
  BY <1>1, NoDelivery DEF Connected
<1>3. \A r, s : r \in Players /\ TellingAbout(r, s)'
                  => TellingAbout(r, s) \/ (r = p /\ s = q)
  BY <1>1 DEF TellingAbout
<1>4. p # q
  BY <1>1 DEF MailInv, Others
<1>5. Table'
  BY <1>1, <1>2, Ground DEF MailInv, Table, Distinct, Creating
<1>6. Others'
  BY <1>1, <1>4 DEF MailInv, Others
<1>7. SetIdSent'
  BY <1>1, <1>2, Ground DEF MailInv, SetIdSent
<1>8. SetIdBeforeOwnCreate'
  BY <1>1 DEF MailInv, SetIdBeforeOwnCreate
<1>9. EarlierIsTold'
  BY <1>1, <1>2 DEF MailInv, EarlierIsTold, Earlier, Announced, Receiving
<1>10. OnlyCreated'
  BY <1>1, <1>2, <1>3 DEF MailInv, OnlyCreated, Receiving, Destroying
<1>11. GoneIsTold'
  <2>1. p \in Connected /\ pc[q] \in Parting => ToldGone(p, q)
    BY <1>1 DEF MailInv, GoneIsTold
  <2>2. pc'[q] \in Parting \cup {"gone"} => pc[q] \in Parting
    BY <1>1, <1>4 DEF Parting, Receiving, Destroying
  <2>3. \A r \in Connected, s \in Players :
          /\ pc'[r] \in {"world", "tell"} /\ s \in todo'[r] /\ pc'[s] \in Parting
          => ToldGone(r, s)
    BY <1>1, Ground DEF MailInv, GoneIsTold, Parting
  <2>4. \A r \in Connected, s \in Players :
          (Told(r, s) \/ TellingAbout(r, s)') /\ pc'[s] \in Parting \cup {"gone"}
          => ToldGone(r, s)
    BY <1>1, <1>3, <2>1, <2>2, Ground DEF MailInv, GoneIsTold, Parting
  <2> QED
    BY <1>2, <2>3, <2>4 DEF GoneIsTold
<1> QED
  BY <1>5, <1>6, <1>7, <1>8, <1>9, <1>10, <1>11 DEF MailInv

LEMMA TellAboutMail ==
  ASSUME IInv, MailInv, NEW p \in Players, TellAbout(p) PROVE MailInv'
<1> DEFINE a == about[p]
           x == IF train[a] = NoTrain THEN Garbage ELSE train[a].pos
           m == CreateMsg(a, x)
           R == {p} \cap Connected
<1>1. /\ pc[p] = "tell" /\ pc'[p] = "world"
      /\ \A q \in Players \ {p} : pc'[q] = pc[q] /\ about'[q] = about[q]
      /\ UNCHANGED <<roster, todo>>
  BY Ground DEF TellAbout, Goto
<1>2. a \in Players /\ a # p /\ TellingAbout(p, a)
  BY <1>1, Ground DEF MailInv, Others, TellingAbout
<1>3. m \in Message
  <2>1. x \in Positions
    BY <1>2, PointsAreNats DEF IInv, TypeOK, Train
  <2> QED
    BY <1>2, <2>1, MessageTypes
<1>4. Post(R, m)
  BY Ground DEF TellAbout, SendTo, Post, TypeOK
<1>5. m.type = "CREATE_PLAYER" /\ m.who = a
  BY DEF CreateMsg
<1> HIDE DEF m, x, a
<1>6. \A q \in Players :
        /\ \A r : Told(q, r)' <=> Told(q, r) \/ (q \in R /\ r = a)
        /\ \A r : ToldGone(q, r)' <=> ToldGone(q, r)
        /\ HasId(q)' <=> HasId(q)
  BY <1>3, <1>4, <1>5, Ground, Posted
<1>7. \A q \in Players \ {p} : IdFirst(q) => IdFirst(q)'
  <2> SUFFICES ASSUME NEW q \in Players \ {p}, IdFirst(q) PROVE IdFirst(q)'
    OBVIOUS
  <2>1. inbox'[q] = inbox[q]
    BY <1>4 DEF Post
  <2> QED
    BY <2>1, NoDelivery
<1>8. IdFirst(p) => IdFirst(p)'
  BY <1>2, <1>3, <1>4, <1>5, Ground, Posted
<1>9. Table' /\ Connected' = Connected
  BY <1>1, <1>4, Ground, PostedTable DEF MailInv, Table, Creating
<1>10. \A q, r : q \in Players /\ TellingAbout(q, r)' => TellingAbout(q, r)
  BY <1>1 DEF TellingAbout
<1>11. Others'
  BY <1>1 DEF MailInv, Others
<1>12. SetIdSent'
  BY <1>1, <1>6, <1>9, Ground DEF MailInv, SetIdSent
<1>13. SetIdBeforeOwnCreate'
  BY <1>7, <1>8 DEF MailInv, SetIdBeforeOwnCreate, IdFirst
<1>14. EarlierIsTold'
  BY <1>1, <1>6 DEF MailInv, EarlierIsTold, Earlier, Announced, Receiving
<1>15. OnlyCreated'
  BY <1>1, <1>2, <1>6, <1>10 DEF MailInv, OnlyCreated
<1>16. GoneIsTold'
  <2>1. \A q \in Connected, r \in Players :
          /\ pc'[q] \in {"world", "tell"} /\ r \in todo[q] /\ pc'[r] \in Parting
          => ToldGone(q, r)
    BY <1>1, Ground DEF MailInv, GoneIsTold, Parting
  <2>2. \A q \in Connected, r \in Players :
          (Told(q, r)' \/ TellingAbout(q, r)') /\ pc'[r] \in Parting \cup {"gone"}
          => ToldGone(q, r)
    BY <1>1, <1>2, <1>6, <1>10, Ground DEF MailInv, GoneIsTold, Parting
  <2> QED
    BY <1>1, <1>6, <1>9, <2>1, <2>2, Ground DEF GoneIsTold
<1> QED
  BY <1>9, <1>11, <1>12, <1>13, <1>14, <1>15, <1>16 DEF MailInv

LEMMA AnnounceMail ==
  ASSUME IInv, MailInv, NEW p \in Players, Announce(p) PROVE MailInv'
<1> DEFINE m == CreateMsg(p, train[p].pos)
           R == Connected
<1>1. /\ pc[p] = "announce" /\ pc'[p] = "return"
      /\ \A q \in Players \ {p} : pc'[q] = pc[q]
      /\ UNCHANGED <<roster, todo, about>>
  BY Ground DEF Announce, Goto, sendVars
<1>2. m \in Message
  <2>1. train[p] \in Train
    BY <1>1 DEF IInv, TypeOK, TrainLifetime, HasTrain, Creating
  <2> QED
    BY <2>1, MessageTypes DEF Train
<1>3. Post(R, m)
  BY DEF Announce, SendToAll, Post
<1>4. m.type = "CREATE_PLAYER" /\ m.who = p
  BY DEF CreateMsg
<1>5. p \in Connected => HasId(p)
  BY <1>1 DEF MailInv, SetIdSent
<1> HIDE DEF m
<1>6. \A q \in Players :
        /\ \A r : Told(q, r)' <=> Told(q, r) \/ (q \in R /\ r = p)
        /\ \A r : ToldGone(q, r)' <=> ToldGone(q, r)
        /\ HasId(q)' <=> HasId(q)
  BY <1>2, <1>3, <1>4, Ground, Posted
<1>7. \A q \in Players : IdFirst(q) => IdFirst(q)'
  <2> SUFFICES ASSUME NEW q \in Players, IdFirst(q) PROVE IdFirst(q)'
    OBVIOUS
  <2>1. CASE q \in Connected
    BY <2>1, <1>2, <1>3, <1>4, <1>5, Ground, Posted
  <2>2. CASE q \notin Connected
    <3>1. inbox'[q] = inbox[q]
      BY <2>2, <1>3 DEF Post
    <3> QED
      BY <3>1, NoDelivery
  <2> QED
    BY <2>1, <2>2
<1>8. Table' /\ Connected' = Connected
  BY <1>1, <1>3, Ground, PostedTable DEF MailInv, Table, Creating
<1>9. \A q, r : q \in Players /\ TellingAbout(q, r)' => TellingAbout(q, r)
  BY <1>1 DEF TellingAbout
<1>10. Others'
  BY <1>1 DEF MailInv, Others
<1>11. SetIdSent'
  BY <1>1, <1>6, <1>8, Ground DEF MailInv, SetIdSent
<1>12. SetIdBeforeOwnCreate'
  BY <1>7 DEF MailInv, SetIdBeforeOwnCreate, IdFirst
<1>13. EarlierIsTold'
  <2> SUFFICES ASSUME NEW q \in Players, NEW r \in Players,
                      Earlier(q, r)', pc'[r] \in Announced
               PROVE  Told(q, r)'
    BY DEF EarlierIsTold
  <2>1. q \in Connected /\ Earlier(q, r)
    BY <1>1 DEF Earlier, Connected
  <2>2. CASE r = p
    BY <2>1, <2>2, <1>6
  <2>3. CASE r # p
    BY <2>1, <2>3, <1>1, <1>6 DEF MailInv, EarlierIsTold
  <2> QED
    BY <2>2, <2>3
<1>14. OnlyCreated'
  BY <1>1, <1>6, <1>9 DEF MailInv, OnlyCreated
<1>15. GoneIsTold'
  BY <1>1, <1>6, <1>8, <1>9, Ground DEF MailInv, GoneIsTold, Parting
<1> QED
  BY <1>8, <1>10, <1>11, <1>12, <1>13, <1>14, <1>15 DEF MailInv

(* The broadcast reaches everybody in the session before a thread can find *)
(* the departing player at a point behind it.                              *)
LEMMA SendDestroyMail ==
  ASSUME IInv, MailInv, NEW p \in Players, SendDestroy(p) PROVE MailInv'
<1> DEFINE m == [type |-> "DESTROY_PLAYER", who |-> p]
           R == Connected
<1>1. /\ pc[p] = "bye" /\ pc'[p] = "dlock"
      /\ \A q \in Players \ {p} : pc'[q] = pc[q]
      /\ UNCHANGED <<roster, todo, about>>
  BY Ground DEF SendDestroy, Goto, sendVars
<1>2. m \in Message
  BY PointsAreNats, MessageTypes
<1>3. Post(R, m)
  BY DEF SendDestroy, SendToAll, Post
<1>4. m.type = "DESTROY_PLAYER" /\ m.who = p
  OBVIOUS
<1> HIDE DEF m
<1>5. \A q \in Players :
        /\ \A r : Told(q, r)' <=> Told(q, r)
        /\ \A r : ToldGone(q, r)' <=> ToldGone(q, r) \/ (q \in R /\ r = p)
        /\ HasId(q)' <=> HasId(q)
        /\ IdFirst(q) => IdFirst(q)'
  BY <1>2, <1>3, <1>4, Ground, Posted
<1>6. p \notin Connected
  BY <1>1 DEF MailInv, Table, Creating, Receiving
<1>7. Table' /\ Connected' = Connected
  BY <1>1, <1>3, <1>6, Ground, PostedTable DEF MailInv, Table
<1>8. \A q, r : q \in Players /\ TellingAbout(q, r)' => TellingAbout(q, r)
  BY <1>1 DEF TellingAbout
<1>9. Others'
  BY <1>1 DEF MailInv, Others
<1>10. SetIdSent'
  BY <1>1, <1>5, <1>6, <1>7, Ground DEF MailInv, SetIdSent
<1>11. SetIdBeforeOwnCreate'
  BY <1>5 DEF MailInv, SetIdBeforeOwnCreate, IdFirst
<1>12. EarlierIsTold'
  BY <1>1, <1>5 DEF MailInv, EarlierIsTold, Earlier, Announced, Receiving
<1>13. OnlyCreated'
  BY <1>1, <1>5, <1>8 DEF MailInv, OnlyCreated
<1>14. GoneIsTold'
  BY <1>1, <1>5, <1>6, <1>7, <1>8, Ground DEF MailInv, GoneIsTold, Parting
<1> QED
  BY <1>7, <1>9, <1>10, <1>11, <1>12, <1>13, <1>14 DEF MailInv

LEMMA InitMail == Init => MailInv
<1> SUFFICES ASSUME Init PROVE MailInv
  OBVIOUS
<1>1. /\ roster = <<>> /\ Connected = {}
      /\ \A p \in Players : pc[p] = "none" /\ inbox[p] = <<>>
  BY DEF Init, Connected
<1>2. \A p \in Players : IdFirst(p) /\ \A q : ~Told(p, q)
  BY <1>1, Nothing
<1>3. Table
  <2>1. Distinct /\ Len(roster) = 0 /\ MaxPlayers \in Nat
    BY <1>1, ServerAssumption DEF Distinct, MaxPlayers
  <2> QED
    BY <1>1, <2>1 DEF Table
<1>4. Others /\ SetIdSent /\ EarlierIsTold /\ GoneIsTold
  BY <1>1 DEF Others, SetIdSent, EarlierIsTold, Earlier, GoneIsTold
<1>5. SetIdBeforeOwnCreate /\ OnlyCreated
  BY <1>1, <1>2 DEF SetIdBeforeOwnCreate, IdFirst, OnlyCreated, TellingAbout
<1> QED
  BY <1>3, <1>4, <1>5 DEF MailInv

LEMMA NextMail ==
  ASSUME IInv, MailInv, [Next]_vars PROVE MailInv'
  BY Ground, QuietSteps, QuietMail, StopMail, JoinMail, DisconnectMail, SendSetIdMail,
     EnumPlayersMail, TellAboutMail, AnnounceMail, SendDestroyMail, SkipPlayerMail,
     FetchContextMail

LEMMA MailInvariance == Spec => [](IInv /\ MailInv)
<1>1. Init => IInv /\ MailInv
  BY InitIInv, InitMail
<1>2. IInv /\ MailInv /\ [Next]_vars => IInv' /\ MailInv'
  BY NextIInv, NextMail
<1> QED
  BY <1>1, <1>2, PTL DEF Spec

-----------------------------------------------------------------------------
(* A client is sent its SET_ID before its own CREATE_PLAYER (260-271),     *)
(* whatever the callbacks of the others do in between.                     *)
THEOREM SetIdFirst == Spec => []SetIdBeforeOwnCreate
<1>1. MailInv => SetIdBeforeOwnCreate
  BY DEF MailInv
<1> QED
  BY <1>1, MailInvariance, PTL

(* Of any two players in the session the one that joined first has been    *)
(* told of the other when the other's CREATE_PLAYER callback is over.      *)
THEOREM EarlierIsAlwaysTold == Spec => []EarlierKnowsLater
<1>1. TypeOK /\ MailInv => EarlierKnowsLater
  <2> SUFFICES ASSUME TypeOK, MailInv, NEW i \in DOMAIN roster, NEW j \in DOMAIN roster,
                      i < j, pc[roster[j]] \in Receiving
               PROVE  Told(roster[i], roster[j])
    BY DEF EarlierKnowsLater
  <2>1. roster[i] \in Players /\ roster[j] \in Players
    BY DEF TypeOK
  <2> QED
    BY <2>1 DEF MailInv, EarlierIsTold, Earlier, Announced
<1> QED
  BY <1>1, MailInvariance, PTL DEF IInv

(* Whoever has been told of a player is told of its departure (296-297),   *)
(* though neither the list of players a newcomer goes through nor their    *)
(* contexts are read inside the critical section.                          *)
THEOREM DepartureIsAlwaysTold == Spec => []DepartureIsTold
<1>1. MailInv => DepartureIsTold
  BY DEF MailInv, GoneIsTold, DepartureIsTold, Parting
<1> QED
  BY <1>1, MailInvariance, PTL

(* Only the search of FindStartPoint leads from "scan" to "unlock".        *)
LEMMA DeniedStep ==
  ASSUME TypeOK, [Next]_vars, NEW p \in Players, pc[p] = "scan", pc'[p] = "unlock"
  PROVE  FreePoints = {}
<1> USE DEF Goto, TypeOK
<1>1. ASSUME NEW q \in Players, Callback(q), q # p PROVE pc'[p] = pc[p]
  BY <1>1 DEF Callback, IgnoreCreate, NewTrain, EnterPlayerLock, FindStartPoint,
     ClaimStartPoint, LeavePlayerLock, SendSetId, EnumPlayers, SkipPlayer,
     FetchContext, TellAbout, EndWorldState, Announce, ReturnFromCreate,
     RouteMoveTo, Route, IgnoreDestroy, Destroy, SendDestroy, ReleaseStartPoint,
     CrashOnRelease, DeleteTrain
<1>2. ASSUME Callback(p) PROVE FreePoints = {}
  BY <1>2 DEF Callback, IgnoreCreate, NewTrain, EnterPlayerLock, FindStartPoint,
     ClaimStartPoint, LeavePlayerLock, SendSetId, EnumPlayers, SkipPlayer,
     FetchContext, TellAbout, EndWorldState, Announce, ReturnFromCreate,
     RouteMoveTo, Route, IgnoreDestroy, Destroy, SendDestroy, ReleaseStartPoint,
     CrashOnRelease, DeleteTrain
<1>3. ASSUME NEW q \in Players, Network(q) PROVE pc'[p] # "unlock"
  BY <1>3 DEF Network, Join, Disconnect, ReceiveMoveTo, ReceiveEvent, Route,
     TakeDatagram
<1>4. CASE MainThread \/ RequestExit
  BY <1>4 DEF MainThread, PrintMessage, StopServer, EndMain, RequestExit
<1>5. CASE UNCHANGED vars
  BY <1>5 DEF vars
<1> QED
  BY <1>1, <1>2, <1>3, <1>4, <1>5 DEF Next

(* Pigeons: the player itself (in hole 0) and the owners of the points     *)
(* would be more players than the table holds.                             *)
LEMMA Crowded ==
  ASSUME IInv, MailInv, SceneryCount < 1000, FreePoints = {},
         NEW p \in Players, pc[p] = "scan", p \in Connected,
         \A s \in Points : owner[s] \in Connected
  PROVE  FALSE
<1> DEFINE who(s) == IF s = 0 THEN p ELSE owner[s]
           f == [s \in 0..NumPoints |-> CHOOSE i \in DOMAIN roster : roster[i] = who(s)]
<1>1. Points = 1..NumPoints /\ NumPoints \in Nat /\ MaxPlayers = NumPoints
  BY ServerAssumption DEF Points, NumPoints, MaxPlayers
<1>2. Len(roster) \in Nat /\ DOMAIN roster = 1..Len(roster) /\ Len(roster) <= NumPoints
  BY <1>1, LenProperties DEF IInv, TypeOK, MailInv, Table
<1>3. \A s \in 0..NumPoints : s = 0 \/ s \in Points
  BY <1>1
<1>4. \A s \in 0..NumPoints : who(s) \in Connected
  BY <1>3
<1>5. ASSUME NEW s \in 0..NumPoints, NEW t \in 0..NumPoints, s # t
      PROVE  who(s) # who(t)
  <2>1. train[p].sp = NoPoint /\ NoPoint \notin Points
    BY PointsAreNats DEF IInv, NotYetPlaced
  <2>2. \A x \in Points : owner[x] \in Players /\ train[owner[x]].sp = x
    BY Ground DEF IInv, StartPointAgreement
  <2>3. \A x \in Points : owner[x] # p
    BY <2>1, <2>2
  <2> QED
    BY <1>3, <1>5, <2>2, <2>3
<1> HIDE DEF who
<1>6. \A s \in 0..NumPoints : f[s] \in DOMAIN roster /\ roster[f[s]] = who(s)
  <2> SUFFICES ASSUME NEW s \in 0..NumPoints
               PROVE  f[s] \in DOMAIN roster /\ roster[f[s]] = who(s)
    OBVIOUS
  <2>1. \E i \in DOMAIN roster : roster[i] = who(s)
    BY <1>4 DEF Connected
  <2> QED
    BY <2>1
<1>7. f \in [0..NumPoints -> 1..Len(roster)]
  BY <1>2, <1>6
<1>8. /\ IsFiniteSet(0..NumPoints) /\ Cardinality(0..NumPoints) = NumPoints + 1
      /\ IsFiniteSet(1..Len(roster)) /\ Cardinality(1..Len(roster)) = Len(roster)
  <2>1. \A a, b \in Int : /\ IsFiniteSet(a..b)
                         /\ Cardinality(a..b) = IF a > b THEN 0 ELSE b - a + 1
    BY FS_Interval
  <2> DEFINE n == Len(roster)
  <2>2. IsFiniteSet(0..NumPoints) /\ Cardinality(0..NumPoints) = NumPoints + 1
    BY <2>1, <1>1
  <2>3. IsFiniteSet(1..n) /\ Cardinality(1..n) = n
    <3>1. n \in Nat
      BY <1>2
    <3> HIDE DEF n
    <3> QED
      BY <2>1, <3>1
  <2> QED
    BY <2>2, <2>3
<1>9. \E s, t \in 0..NumPoints : s # t /\ f[s] = f[t]
  <2> DEFINE S == 0..NumPoints
             T == 1..Len(roster)
  <2>1. IsFiniteSet(S) /\ IsFiniteSet(T) /\ Cardinality(T) < Cardinality(S)
    BY <1>1, <1>2, <1>8
  <2>2. f \in [S -> T]
    BY <1>7
  <2> HIDE DEF S, T, f
  <2>3. \E s, t \in S : s # t /\ f[s] = f[t]
    BY <2>1, <2>2, FS_PigeonHole
  <2> QED
    BY <2>3 DEF S
<1> HIDE DEF f
<1> QED
  BY <1>5, <1>6, <1>9

(* A player is denied a start point only while somebody's departure is     *)
(* still to be handled, for every scenery the server reads: one of at most *)
(* 999 start points (160, 430).  Of a larger one it reads none.            *)
THEOREM Denied == SceneryCount < 1000 => (Spec => DeniedOnlyByDeparture)
<1> SUFFICES ASSUME SceneryCount < 1000 PROVE Spec => DeniedOnlyByDeparture
  OBVIOUS
<1> DEFINE A == \A p \in Players :
                  pc[p] = "scan" /\ pc'[p] = "unlock"
                    => \E q \in {p} \cup {owner[s] : s \in Points} : q \notin Connected
<1>1. IInv /\ MailInv /\ [Next]_vars => [A]_vars
  <2> SUFFICES ASSUME IInv, MailInv, [Next]_vars, NEW p \in Players,
                      pc[p] = "scan", pc'[p] = "unlock",
                      \A q \in {p} \cup {owner[s] : s \in Points} : q \in Connected
               PROVE  FALSE
    OBVIOUS
  <2>1. FreePoints = {}
    BY DeniedStep, Ground
  <2> QED
    BY <2>1, Crowded
<1> QED
  BY <1>1, MailInvariance, PTL DEF Spec, DeniedOnlyByDeparture

=============================================================================
