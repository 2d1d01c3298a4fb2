---------------------------- MODULE SessionServer ----------------------------
(***************************************************************************)
(* The multiplayer server (src/server/server.cpp).  DirectPlay calls       *)
(* DirectPlayMessageHandler from a pool of threads: the callbacks of one   *)
(* player follow one another (CREATE_PLAYER, then RECEIVEs, then           *)
(* DESTROY_PLAYER), those of different players interleave.  pc[p] is the   *)
(* point the callback of player p has reached; an action is one access to  *)
(* state that other threads see.                                           *)
(*                                                                         *)
(* DirectPlay itself is external.  roster is its table of players in the   *)
(* order they joined, inbox[p] the guaranteed messages sent to p, in       *)
(* order, and datagrams[p] the messages for p that may still be lost or    *)
(* overtaken.  The host's own CREATE/DESTROY_PLAYER leave the handler at   *)
(* once (lines 230-234, 290-292) and change nothing, so the host is not    *)
(* among Players.  A DPNID is never used twice in a session.               *)
(***************************************************************************)
EXTENDS Naturals, FiniteSets, SequencesExt

CONSTANTS
  Players,       \* the DPNIDs that ever appear in the session
  SceneryCount,  \* the number scenery.cfg starts with
  Reports,       \* the kinds of message the clients send
  MaxInFlight,   \* bound on the datagrams under way to one client
  MayExit,       \* whether anybody ends the session
  Nobody,        \* DPNID 0xFFFFFFFF, also: the critical section is free
  NoTrain        \* a player context that does not exist or was deleted

ASSUME ServerAssumption ==
  /\ SceneryCount \in Nat
  /\ Reports \subseteq {"MOVETO", "EVENT", "TRAIN_EVENT"}
  /\ MaxInFlight \in Nat
  /\ MayExit \in BOOLEAN
  /\ Nobody \notin Players

VARIABLES
  roster,          \* the players DirectPlay counts as connected
  pc,              \* where the callback of each player is
  train,           \* the Train object of each player
  owner,           \* g_StartPoints[s].owner
  lock,            \* g_csPlayerContext
  found,           \* the loop index i of SendWorldStateToNewPlayer
  todo,            \* what is left of aPlayers in SendWorldStateToNewPlayer
  about,           \* the pPlayerInfo that loop has fetched
  inbox,           \* guaranteed messages sent to each client
  datagrams,       \* unguaranteed messages sent to each client
  messageWaiting,  \* the console line waits for the main thread
  main,            \* the main thread: in its loop, in Close, ended
  requestExit,     \* g_RequestExit
  crashed          \* a null pointer was dereferenced

playerVars == <<train, owner, lock, found>>
sendVars   == <<todo, about>>
netVars    == <<inbox, datagrams>>
mainVars   == <<main, requestExit>>
vars == <<roster, pc, playerVars, sendVars, netVars, messageWaiting, mainVars,
          crashed>>

(* A scenery with 1000 start points or more is not read: no start point,   *)
(* and g_MaxPlayers keeps its default.  The host counts beside MaxPlayers. *)
NumPoints  == IF SceneryCount < 1000 THEN SceneryCount ELSE 0
MaxPlayers == IF SceneryCount < 1000 THEN SceneryCount ELSE 2

Points  == 1..NumPoints
NoPoint == 0                    \* Train::sp = NULL, or no free start point

(* A position (trackID, dist) is only where it came from: the track of a   *)
(* start point, the client's last MOVETO, the 0xFFFFFFFF of a new Train,   *)
(* or whatever uninitialised or freed memory holds.                        *)
Unplaced  == 0
Moved     == NumPoints + 1
Garbage   == NumPoints + 2
Positions == 0..(NumPoints + 2)
Train   == [pos : Positions, sp : Points \cup {NoPoint}]
Message == [type : {"SET_ID", "CREATE_PLAYER"}, who : Players, pos : Positions]
           \cup [type : {"DESTROY_PLAYER"}, who : Players]
Datagram == Reports \X Players

ASSUME NoTrainAssumption == NoTrain \notin Train

Creating   == {"create", "lock", "scan", "claim", "unlock", "setid", "enum",
               "world", "tell", "announce", "return"}
Receiving  == {"ready", "move"}
Destroying == {"bye", "dlock", "release", "delete", "dunlock"}
Steps      == {"none", "ignored", "gone"} \cup Creating \cup Receiving
              \cup Destroying
InLock     == {"scan", "claim", "unlock", "release", "delete", "dunlock"}

Connected == {roster[i] : i \in DOMAIN roster}

TypeOK ==
  /\ roster \in Seq(Players)
  /\ pc \in [Players -> Steps]
  /\ train \in [Players -> Train \cup {NoTrain}]
  /\ owner \in [Points -> Players \cup {Nobody}]
  /\ lock \in Players \cup {Nobody}
  /\ found \in [Players -> Points \cup {NoPoint}]
  /\ todo \in [Players -> SUBSET Players]
  /\ about \in [Players -> Players \cup {Nobody}]
  /\ inbox \in [Players -> Seq(Message)]
  /\ datagrams \in [Players -> SUBSET Datagram]
  /\ messageWaiting \in BOOLEAN
  /\ main \in {"loop", "closing", "ended"}
  /\ requestExit \in BOOLEAN
  /\ crashed \in BOOLEAN

Init ==
  /\ roster = <<>>
  /\ pc = [p \in Players |-> "none"]
  /\ train = [p \in Players |-> NoTrain]
  /\ owner = [s \in Points |-> Nobody]
  /\ lock = Nobody
  /\ found = [p \in Players |-> NoPoint]
  /\ todo = [p \in Players |-> {}]
  /\ about = [p \in Players |-> Nobody]
  /\ inbox = [p \in Players |-> <<>>]
  /\ datagrams = [p \in Players |-> {}]
  /\ messageWaiting = FALSE
  /\ main = "loop"
  /\ requestExit = FALSE
  /\ crashed = FALSE

-----------------------------------------------------------------------------
(* Helpers *)

(* The callback of p steps from one point to another, in a live process.   *)
Goto(p, from, to) ==
  /\ ~crashed
  /\ pc[p] = from
  /\ pc' = [pc EXCEPT ![p] = to]

SendTo(p, m) == inbox' = [inbox EXCEPT ![p] = Append(@, m)]

SendToAll(m) ==
  inbox' = [q \in Players |-> IF q \in Connected THEN Append(inbox[q], m)
                                                 ELSE inbox[q]]

CreateMsg(p, x) == [type |-> "CREATE_PLAYER", who |-> p, pos |-> x]

(* Message(): the line is dropped while another one waits to be printed.   *)
Say == messageWaiting' = TRUE

FreePoints == {s \in Points : owner[s] = Nobody}

(* Mutant of FirstFree: the search runs to the end and keeps the last.     *)
LastFree(s) == s \in FreePoints /\ \A t \in FreePoints : t <= s

FirstFree(s) == s \in FreePoints /\ \A t \in FreePoints : s <= t

(* GetPlayerContext(q): NOTREADY until q's CREATE_PLAYER callback returns, *)
(* an error once its DESTROY_PLAYER callback has, and during that callback *)
(* DirectPlay may still give the pointer.                                  *)
HasContext(q)   == pc[q] \in Receiving \cup Destroying
LacksContext(q) == pc[q] \notin Receiving

-----------------------------------------------------------------------------
(* DirectPlay: connections come and go *)

(* Mutant of Join: one player too many is admitted.                        *)
JoinOneTooMany(p) ==
  /\ main = "loop"
  /\ Len(roster) <= MaxPlayers
  /\ Goto(p, "none", "create")
  /\ roster' = Append(roster, p)
  /\ UNCHANGED <<playerVars, sendVars, netVars, messageWaiting, mainVars, crashed>>

(* The table holds at most dwMaxPlayers players, the host among them.      *)
Join(p) ==
  /\ main = "loop"
  /\ Len(roster) < MaxPlayers
  /\ Goto(p, "none", "create")
  /\ roster' = Append(roster, p)
  /\ UNCHANGED <<playerVars, sendVars, netVars, messageWaiting, mainVars, crashed>>

(* The client closes the connection, or DirectPlay finds it lost; what was *)
(* under way to it is gone.                                                *)
Disconnect(p) ==
  /\ ~crashed
  /\ \E i \in DOMAIN roster : roster[i] = p /\ roster' = RemoveAt(roster, i)
  /\ inbox' = [inbox EXCEPT ![p] = <<>>]
  /\ datagrams' = [datagrams EXCEPT ![p] = {}]
  /\ UNCHANGED <<pc, playerVars, sendVars, messageWaiting, mainVars, crashed>>

-----------------------------------------------------------------------------
(* DPN_MSGID_CREATE_PLAYER *)

(* GetClientInfo fails with INVALIDPLAYER for one that has left already.   *)
IgnoreCreate(p) ==
  /\ p \notin Connected
  /\ Goto(p, "create", "ignored")
  /\ UNCHANGED <<roster, playerVars, sendVars, netVars, messageWaiting, mainVars,
                 crashed>>

NewTrain(p) ==
  /\ p \in Connected
  /\ Goto(p, "create", "lock")
  /\ train' = [train EXCEPT ![p] = [pos |-> Unplaced, sp |-> NoPoint]]
  /\ Say
  /\ UNCHANGED <<roster, owner, lock, found, sendVars, netVars, mainVars, crashed>>

(* Mutant of EnterPlayerLock: PLAYER_LOCK() does not exclude the others.   *)
EnterWithoutLock(p) ==
  /\ \/ Goto(p, "lock", "scan")
     \/ Goto(p, "dlock", "release")
  /\ lock' = p
  /\ UNCHANGED <<roster, train, owner, found, sendVars, netVars, messageWaiting,
                 mainVars, crashed>>

EnterPlayerLock(p) ==
  /\ lock = Nobody
  /\ \/ Goto(p, "lock", "scan")
     \/ Goto(p, "dlock", "release")
  /\ lock' = p
  /\ UNCHANGED <<roster, train, owner, found, sendVars, netVars, messageWaiting,
                 mainVars, crashed>>

(* Mutant of FindStartPoint: where the search ended is taken, free or not. *)
FindPastTheEnd(p) ==
  /\ Goto(p, "scan", "claim")
  /\ \E s \in 1..(NumPoints + 1) :
       /\ FirstFree(s) \/ (FreePoints = {} /\ s = NumPoints + 1)
       /\ found' = [found EXCEPT ![p] = s]
  /\ UNCHANGED <<roster, train, owner, lock, sendVars, netVars, messageWaiting,
                 mainVars, crashed>>

FindStartPoint(p) ==
  /\ \/ /\ \E s \in Points : FirstFree(s) /\ found' = [found EXCEPT ![p] = s]
        /\ Goto(p, "scan", "claim")
     \/ /\ FreePoints = {}
        /\ Goto(p, "scan", "unlock")
        /\ UNCHANGED found
  /\ UNCHANGED <<roster, train, owner, lock, sendVars, netVars, messageWaiting,
                 mainVars, crashed>>

ClaimStartPoint(p) ==
  /\ Goto(p, "claim", "unlock")
  /\ owner' = [owner EXCEPT ![found[p]] = p]
  /\ train' = [train EXCEPT ![p] = [pos |-> found[p], sp |-> found[p]]]
  /\ found' = [found EXCEPT ![p] = NoPoint]
  /\ UNCHANGED <<roster, lock, sendVars, netVars, messageWaiting, mainVars,
                 crashed>>

(* Mutant of LeavePlayerLock: PLAYER_UNLOCK() is forgotten on the way out. *)
KeepPlayerLock(p) ==
  /\ \/ Goto(p, "unlock", "setid") /\ lock' = Nobody
     \/ Goto(p, "dunlock", "gone") /\ UNCHANGED lock
  /\ UNCHANGED <<roster, train, owner, found, sendVars, netVars, messageWaiting,
                 mainVars, crashed>>

LeavePlayerLock(p) ==
  /\ \/ Goto(p, "unlock", "setid")
     \/ Goto(p, "dunlock", "gone")
  /\ lock' = Nobody
  /\ UNCHANGED <<roster, train, owner, found, sendVars, netVars, messageWaiting,
                 mainVars, crashed>>

(* Mutant of SendSetId: a failed SendTo is not noticed.                    *)
ForgetSetId(p) ==
  /\ Goto(p, "setid", "enum")
  /\ UNCHANGED <<roster, playerVars, sendVars, netVars, messageWaiting, mainVars,
                 crashed>>

(* Mutant of SendSetId: the id goes to DPNID_ALL_PLAYERS_GROUP.            *)
SendSetIdToAll(p) ==
  /\ Goto(p, "setid", "enum")
  /\ SendToAll([type |-> "SET_ID", who |-> p,
                pos |-> IF train[p].sp = NoPoint THEN Garbage ELSE train[p].sp])
  /\ UNCHANGED <<roster, playerVars, sendVars, datagrams, messageWaiting, mainVars,
                 crashed>>

(* msgSetID.trackID and dist are uninitialised when no point was free.     *)
SendSetId(p) ==
  /\ Goto(p, "setid", "enum")
  /\ LET m == [type |-> "SET_ID", who |-> p,
               pos |-> IF train[p].sp = NoPoint THEN Garbage ELSE train[p].sp]
     IN IF p \in Connected THEN SendTo(p, m) ELSE UNCHANGED inbox
  /\ UNCHANGED <<roster, playerVars, sendVars, datagrams, messageWaiting, mainVars,
                 crashed>>

EnumPlayers(p) ==
  /\ Goto(p, "enum", "world")
  /\ todo' = [todo EXCEPT ![p] = Connected \ {p}]
  /\ UNCHANGED <<roster, playerVars, about, netVars, messageWaiting, mainVars,
                 crashed>>

(* Mutant of SkipPlayer: wait while GetPlayerContext says NOTREADY, as     *)
(* DisplayPlayers (507-515) does; two new players wait for each other.     *)
WaitForContext(p, q) ==
  /\ ~crashed
  /\ pc[p] = "world"
  /\ q \in todo[p]
  /\ LacksContext(q) /\ pc[q] \notin Creating
  /\ todo' = [todo EXCEPT ![p] = @ \ {q}]
  /\ UNCHANGED <<roster, pc, playerVars, about, netVars, messageWaiting, mainVars,
                 crashed>>

(* Line 638: a player whose context DirectPlay does not give is left out.  *)
SkipPlayer(p, q) ==
  /\ ~crashed
  /\ pc[p] = "world"
  /\ q \in todo[p]
  /\ LacksContext(q)
  /\ todo' = [todo EXCEPT ![p] = @ \ {q}]
  /\ UNCHANGED <<roster, pc, playerVars, about, netVars, messageWaiting, mainVars,
                 crashed>>

FetchContext(p, q) ==
  /\ Goto(p, "world", "tell")
  /\ q \in todo[p]
  /\ HasContext(q)
  /\ todo' = [todo EXCEPT ![p] = @ \ {q}]
  /\ about' = [about EXCEPT ![p] = q]
  /\ UNCHANGED <<roster, playerVars, netVars, messageWaiting, mainVars, crashed>>

(* SendCreatePlayerMsg to the new player reads the other player's Train    *)
(* outside the critical section; a deleted one yields anything.            *)
TellAbout(p) ==
  /\ Goto(p, "tell", "world")
  /\ about' = [about EXCEPT ![p] = Nobody]
  /\ LET q == about[p]
         x == IF train[q] = NoTrain THEN Garbage ELSE train[q].pos
     IN IF p \in Connected THEN SendTo(p, CreateMsg(q, x)) ELSE UNCHANGED inbox
  /\ UNCHANGED <<roster, playerVars, todo, datagrams, messageWaiting, mainVars,
                 crashed>>

EndWorldState(p) ==
  /\ todo[p] = {}
  /\ Goto(p, "world", "announce")
  /\ UNCHANGED <<roster, playerVars, sendVars, netVars, messageWaiting, mainVars,
                 crashed>>

(* Mutant of Announce: the broadcast goes to the new player only.          *)
AnnounceToSelf(p) ==
  /\ Goto(p, "announce", "return")
  /\ IF p \in Connected THEN SendTo(p, CreateMsg(p, train[p].pos))
                        ELSE UNCHANGED inbox
  /\ UNCHANGED <<roster, playerVars, sendVars, datagrams, messageWaiting, mainVars,
                 crashed>>

Announce(p) ==
  /\ Goto(p, "announce", "return")
  /\ SendToAll(CreateMsg(p, train[p].pos))
  /\ UNCHANGED <<roster, playerVars, sendVars, datagrams, messageWaiting, mainVars,
                 crashed>>

(* Only now does DirectPlay store pvPlayerContext.                         *)
ReturnFromCreate(p) ==
  /\ Goto(p, "return", "ready")
  /\ UNCHANGED <<roster, playerVars, sendVars, netVars, messageWaiting, mainVars,
                 crashed>>

-----------------------------------------------------------------------------
(* DPN_MSGID_RECEIVE *)

(* MOVETO stores the position without the critical section and falls       *)
(* through to the routing of the other kinds.                              *)
ReceiveMoveTo(p) ==
  /\ "MOVETO" \in Reports
  /\ Goto(p, "ready", "move")
  /\ train' = [train EXCEPT ![p] = [pos |-> Moved, sp |-> @.sp]]
  /\ UNCHANGED <<roster, owner, lock, found, sendVars, netVars, messageWaiting,
                 mainVars, crashed>>

(* RouteMessageToClients: to all, the sender too, and not guaranteed; a    *)
(* client for which MaxInFlight datagrams are under way loses this one.    *)
Route(p, kind) ==
  /\ datagrams' = [q \in Players |->
                     IF q \in Connected /\ Cardinality(datagrams[q]) < MaxInFlight
                     THEN datagrams[q] \cup {<<kind, p>>}
                     ELSE datagrams[q]]
  /\ UNCHANGED <<roster, playerVars, sendVars, inbox, messageWaiting, mainVars,
                 crashed>>

RouteMoveTo(p) == Goto(p, "move", "ready") /\ Route(p, "MOVETO")

ReceiveEvent(p) ==
  \E kind \in Reports \ {"MOVETO"} :
    Goto(p, "ready", "ready") /\ Route(p, kind)

(* A datagram reaches the client or is lost.                               *)
TakeDatagram(p, d) ==
  /\ ~crashed
  /\ d \in datagrams[p]
  /\ datagrams' = [datagrams EXCEPT ![p] = @ \ {d}]
  /\ UNCHANGED <<roster, pc, playerVars, sendVars, inbox, messageWaiting, mainVars,
                 crashed>>

-----------------------------------------------------------------------------
(* DPN_MSGID_DESTROY_PLAYER, after the player has left *)

(* pvPlayerContext is NULL for a player whose creation was ignored.        *)
IgnoreDestroy(p) ==
  /\ p \notin Connected
  /\ Goto(p, "ignored", "gone")
  /\ UNCHANGED <<roster, playerVars, sendVars, netVars, messageWaiting, mainVars,
                 crashed>>

Destroy(p) ==
  /\ p \notin Connected
  /\ Goto(p, "ready", "bye")
  /\ Say
  /\ UNCHANGED <<roster, playerVars, sendVars, netVars, mainVars, crashed>>

(* Mutant of SendDestroy: the broadcast goes to the known players only.    *)
TellReadyOnly(p) ==
  /\ Goto(p, "bye", "dlock")
  /\ inbox' = [q \in Players |->
                 IF q \in Connected /\ HasContext(q)
                 THEN Append(inbox[q], [type |-> "DESTROY_PLAYER", who |-> p])
                 ELSE inbox[q]]
  /\ UNCHANGED <<roster, playerVars, sendVars, datagrams, messageWaiting, mainVars,
                 crashed>>

SendDestroy(p) ==
  /\ Goto(p, "bye", "dlock")
  /\ SendToAll([type |-> "DESTROY_PLAYER", who |-> p])
  /\ UNCHANGED <<roster, playerVars, sendVars, datagrams, messageWaiting, mainVars,
                 crashed>>

(* Mutant of ReleaseStartPoint: the owner is not reset.                    *)
KeepStartPoint(p) ==
  /\ Goto(p, "release", "delete")
  /\ train[p].sp # NoPoint
  /\ UNCHANGED <<roster, playerVars, sendVars, netVars, messageWaiting, mainVars,
                 crashed>>

ReleaseStartPoint(p) ==
  /\ Goto(p, "release", "delete")
  /\ train[p].sp # NoPoint
  /\ owner' = [owner EXCEPT ![train[p].sp] = Nobody]
  /\ UNCHANGED <<roster, train, lock, found, sendVars, netVars, messageWaiting,
                 mainVars, crashed>>

(* Line 301 with pPlayerInfo->sp = NULL ends the process.                  *)
CrashOnRelease(p) ==
  /\ ~crashed
  /\ pc[p] = "release"
  /\ train[p].sp = NoPoint
  /\ crashed' = TRUE
  /\ UNCHANGED <<roster, pc, playerVars, sendVars, netVars, messageWaiting, mainVars>>

DeleteTrain(p) ==
  /\ Goto(p, "delete", "dunlock")
  /\ train' = [train EXCEPT ![p] = NoTrain]
  /\ UNCHANGED <<roster, owner, lock, found, sendVars, netVars, messageWaiting,
                 mainVars, crashed>>

-----------------------------------------------------------------------------
(* The main thread *)

PrintMessage ==
  /\ ~crashed
  /\ main = "loop"
  /\ messageWaiting
  /\ messageWaiting' = FALSE
  /\ UNCHANGED <<roster, pc, playerVars, sendVars, netVars, mainVars, crashed>>

(* Ctrl-C, or DPN_MSGID_TERMINATE_SESSION.                                 *)
RequestExit ==
  /\ ~crashed
  /\ MayExit
  /\ requestExit' = TRUE
  /\ UNCHANGED <<roster, pc, playerVars, sendVars, netVars, messageWaiting, main,
                 crashed>>

(* Close() disconnects everybody and waits for the callbacks to return.    *)
StopServer ==
  /\ ~crashed
  /\ main = "loop"
  /\ requestExit
  /\ main' = "closing"
  /\ roster' = <<>>
  /\ inbox' = [p \in Players |-> <<>>]
  /\ datagrams' = [p \in Players |-> {}]
  /\ UNCHANGED <<pc, playerVars, sendVars, messageWaiting, requestExit, crashed>>

EndMain ==
  /\ ~crashed
  /\ main = "closing"
  /\ \A p \in Players : pc[p] \in {"none", "gone"}
  /\ main' = "ended"
  /\ UNCHANGED <<roster, pc, playerVars, sendVars, netVars, messageWaiting,
                 requestExit, crashed>>

-----------------------------------------------------------------------------
Callback(p) ==
  \/ IgnoreCreate(p)
  \/ NewTrain(p)
  \/ EnterPlayerLock(p)
  \/ FindStartPoint(p)
  \/ ClaimStartPoint(p)
  \/ LeavePlayerLock(p)
  \/ SendSetId(p)
  \/ EnumPlayers(p)
  \/ \E q \in Players : SkipPlayer(p, q) \/ FetchContext(p, q)
  \/ TellAbout(p)
  \/ EndWorldState(p)
  \/ Announce(p)
  \/ ReturnFromCreate(p)
  \/ RouteMoveTo(p)
  \/ IgnoreDestroy(p)
  \/ Destroy(p)
  \/ SendDestroy(p)
  \/ ReleaseStartPoint(p)
  \/ CrashOnRelease(p)
  \/ DeleteTrain(p)

Network(p) ==
  \/ Join(p)
  \/ Disconnect(p)
  \/ ReceiveMoveTo(p)
  \/ ReceiveEvent(p)
  \/ \E d \in datagrams[p] : TakeDatagram(p, d)

MainThread == PrintMessage \/ StopServer \/ EndMain

Next ==
  \/ \E p \in Players : Callback(p) \/ Network(p)
  \/ MainThread
  \/ RequestExit

Spec == Init /\ [][Next]_vars

(* The pool keeps running every callback, a released critical section is   *)
(* taken in the end, the departure of a player is reported once the finite *)
(* backlog of its messages is, and the main thread never stops looping.    *)
Fairness ==
  /\ \A p \in Players : WF_vars(Callback(p)) /\ SF_vars(Destroy(p))
  /\ WF_vars(StopServer \/ EndMain)

FairSpec == Spec /\ Fairness
-----------------------------------------------------------------------------
(* Properties *)

(* No two trains are put on one start point: the search for a free point   *)
(* and the taking of it (583-592) are one critical section, and so are the *)
(* release of a point and the end of its train (301-302).                  *)
StartPointExclusive ==
  \A p, q \in Players :
    p # q /\ train[p] # NoTrain /\ train[q] # NoTrain
      => train[p].sp = NoPoint \/ train[p].sp # train[q].sp

(* The two records of who has which point, StartPoint::owner and Train::sp,*)
(* agree: an owner is a player with a train there, so no point stays taken *)
(* after its player, and a train keeps the point until it is released.     *)
StartPointAgreement ==
  /\ \A s \in Points, p \in Players :
       owner[s] = p => train[p] # NoTrain /\ train[p].sp = s
  /\ \A p \in Players :
       train[p] # NoTrain /\ pc[p] # "delete" /\ train[p].sp # NoPoint
         => owner[train[p].sp] = p

(* The server hands out points as StartPointPool says.                     *)
Pool == INSTANCE StartPointPool
PoolSpec == Pool!Spec

(* With as many players admitted as there are points (160, 430), a search  *)
(* comes up empty only if one of the owners, or the player itself, has     *)
(* left the session and its DESTROY_PLAYER is still to be handled.         *)
DeniedOnlyByDeparture ==
  [][\A p \in Players :
       pc[p] = "scan" /\ pc'[p] = "unlock"
         => \E q \in {p} \cup {owner[s] : s \in Points} : q \notin Connected]_vars

(* A client tells its own train from the others by the id SET_ID gave it:  *)
(* its own CREATE_PLAYER never comes first, whoever else is connecting.    *)
SetIdBeforeOwnCreate ==
  \A p \in Players : \A i \in DOMAIN inbox[p] :
    inbox[p][i].type = "CREATE_PLAYER" /\ inbox[p][i].who = p
      => \E j \in 1..(i - 1) : inbox[p][j].type = "SET_ID"

Told(p, q) ==
  \E i \in DOMAIN inbox[p] : inbox[p][i].type = "CREATE_PLAYER"
                            /\ inbox[p][i].who = q

(* Of two players in the session the one that joined first has been told   *)
(* of the other when the other's CREATE_PLAYER callback returns (270-271). *)
EarlierKnowsLater ==
  \A i, j \in DOMAIN roster :
    i < j /\ pc[roster[j]] \in Receiving => Told(roster[i], roster[j])

ToldGone(p, q) ==
  \E i \in DOMAIN inbox[p] : inbox[p][i].type = "DESTROY_PLAYER"
                            /\ inbox[p][i].who = q

(* Whoever has been told of a player is told when it has gone (296-297),   *)
(* though the broadcast may fall anywhere between the steps in which a     *)
(* newcomer enumerates the players and is told of each of them.            *)
DepartureIsTold ==
  \A p \in Connected, q \in Players :
    Told(p, q) /\ pc[q] \in {"dlock", "release", "delete", "dunlock", "gone"}
      => ToldGone(p, q)

(* "Tell this new player about the world state", "create player message    *)
(* for every connected player" (267, 566-567): with both callbacks over    *)
(* each of two players knows of the other.                                 *)
WorldStateComplete ==
  \A p, q \in Connected :
    pc[p] \in Receiving /\ pc[q] \in Receiving => Told(p, q)

(* The player context belongs to g_csPlayerContext (299-303) and the       *)
(* handler is to "be careful of thread synchronization problems with       *)
(* shared memory" (199-201): no thread reads a Train another one deleted.  *)
NoUseAfterDelete ==
  \A p \in Players : pc[p] = "tell" => train[about[p]] # NoTrain

(* The start point of a player that left is free again in the end, and its *)
(* context deleted, unless the server crashed.                             *)
DepartureIsHandled ==
  \A p \in Players :
    (pc[p] # "none" /\ p \notin Connected)
      ~> (crashed \/ (pc[p] = "gone" /\ \A s \in Points : owner[s] # p))

(* A requested exit ends the server: Close() waits for callbacks, and none *)
(* of them waits for another for ever.                                     *)
ShutdownEnds == requestExit ~> (main = "ended" \/ crashed)
=============================================================================
