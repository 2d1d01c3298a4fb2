---------------------------- MODULE RemoteServer ----------------------------
(***************************************************************************)
(* The remote server of the kernel: nRemoteServer, which the frame loop    *)
(* triggers, its nIpcServer, the nThread that listens, an nIpcMiniServer   *)
(* for each connection (src/eu07/code/src/kernel), and the shells that     *)
(* connect to it (nipcclient.cc, tools/nremoteshell.cc).  As built for     *)
(* POSIX: events are semaphores and the destructor joins the thread.       *)
(*                                                                         *)
(* Two threads run in the program.  The main thread is at                  *)
(*   closed, starting (waits for startup_event), open (between Triggers),  *)
(*   poll, recv (a recv that blocks), drain, waking, joining, deleting,    *)
(*   done, or aborted by n_error                                           *)
(* and the listener thread at                                              *)
(*   none, starting, create, listen, accept, nonblock, check, while,       *)
(*   harakiri, ended.                                                      *)
(*                                                                         *)
(* Of a socket the model keeps what was sent and not received and who      *)
(* closed it; one recv gets one message, whole.  The search of a port is   *)
(* left out: there is one server.  Of a script the model keeps what it     *)
(* does to the current object: it selects an object ("go", tclcmd_Sel),    *)
(* deletes one (tclcmd_Delete) or is the question for the prompt.  The     *)
(* objects lie side by side below the root and none is made again.         *)
(***************************************************************************)
EXTENDS Integers, Sequences

CONSTANTS
  Clients,   \* processes of nremoteshell, or that talk to the port as it does
  Wakeup,    \* the connection of n_listener_wakeup
  Dirs,      \* objects a script can make the current one
  Root,      \* the current one of the kernel
  None,      \* no object: of a refCwd whose object was deleted
  NoConn,    \* rcvrSocket is 0
  Asks,      \* bound: what each client may send after its handshake
  MaxSent    \* bound: and how many of them

(* What is sent: a message for the script server, the last one without its *)
(* zero at the end, or a command that starts with a '~'.                   *)
Messages ==
  [do : {"go"}, obj : Dirs] \cup [do : {"delete"}, obj : Dirs \ {Root}]
    \cup [do : {"prompt", "broken"}, obj : {None}]
Commands ==
  [do : {"handshake", "wrong port", "no port", "close", "unknown"}, obj : {None}]
Texts     == Messages \cup Commands
Handshake == [do |-> "handshake", obj |-> None]

ASSUME RemoteAssumption ==
  /\ Root \in Dirs /\ None \notin Dirs
  /\ Wakeup \notin Clients /\ NoConn \notin Clients \cup {Wakeup}
  /\ Asks \in [Clients -> SUBSET Texts]
  /\ MaxSent \in [Clients -> Nat]

VARIABLES
  main,      \* where the main thread is
  polled,    \* how many miniservers its Poll has polled
  lis,       \* where the listener thread is
  startup, shutdown, \* startup_event, shutdown_event are signalled
  stop,      \* stop_thread
  listening, \* listen() was called on the socket of the server
  backlog,   \* connections that wait for accept()
  minis,     \* miniServerList, in order of id: rcvrSocket, whether it blocks,
             \* and refCwd of the nClientContext of that id (Root if none)
  msgList,   \* of the nIpcServer
  up, down,  \* sent to the server, to the client, and not received
  hungup,    \* the client closed its socket
  closed,    \* the server closed its socket
  pc,        \* of each client: off, greet, wait, idle, gone
  asked,     \* what it sent last
  sent,      \* messages it sent
  alive,     \* the objects that exist
  here       \* of each client: the object its own scripts have made the
             \* current one, or the kernel's since that one was deleted

vars == <<main, polled, lis, startup, shutdown, stop, listening, backlog, minis,
          msgList, up, down, hungup, closed, pc, asked, sent, alive, here>>
threads == <<main, polled, lis, startup, shutdown, stop>>
shells  == <<pc, asked, sent>>
objects == <<alive, here>>
sockets == <<listening, backlog, up, down, hungup, closed>>

Conns    == Clients \cup {Wakeup}
Replies  == [text : Texts, dir : Dirs \cup {None}]
Mini     == [conn : Conns \cup {NoConn}, blocking : BOOLEAN, cwd : Dirs \cup {None}]
MainAt   == {"closed", "starting", "open", "poll", "recv", "drain", "waking",
             "joining", "deleting", "done", "aborted"}
ListenerAt == {"none", "starting", "create", "listen", "accept", "nonblock",
               "check", "while", "harakiri", "ended"}

TypeOK ==
  /\ main \in MainAt /\ lis \in ListenerAt
  /\ polled \in Nat
  /\ {startup, shutdown, stop, listening} \subseteq BOOLEAN
  /\ backlog \in Seq(Conns)
  /\ minis \in Seq(Mini)
  /\ msgList \in Seq([id : Nat \ {0}, text : Messages])
  /\ up \in [Clients -> Seq(Texts)]
  /\ down \in [Clients -> Seq(Replies)]
  /\ hungup \in [Conns -> BOOLEAN] /\ closed \in [Conns -> BOOLEAN]
  /\ pc \in [Clients -> {"off", "greet", "wait", "idle", "gone"}]
  /\ asked \in [Clients -> Texts]
  /\ sent \in [Clients -> Nat]
  /\ alive \subseteq Dirs
  /\ here \in [Clients -> Dirs]

Init ==
  /\ main = "closed" /\ polled = 0 /\ lis = "none"
  /\ startup = FALSE /\ shutdown = FALSE /\ stop = FALSE
  /\ listening = FALSE /\ backlog = <<>>
  /\ minis = <<>> /\ msgList = <<>>
  /\ up = [c \in Clients |-> <<>>] /\ down = [c \in Clients |-> <<>>]
  /\ hungup = [k \in Conns |-> FALSE] /\ closed = [k \in Conns |-> FALSE]
  /\ pc = [c \in Clients |-> "off"]
  /\ asked = [c \in Clients |-> Handshake]
  /\ sent = [c \in Clients |-> 0]
  /\ alive = Dirs /\ here = [c \in Clients |-> Root]

(* Poll, AnswerMsg and ~nIpcServer lock the miniServerList; only Poll does *)
(* so while something else may happen.                                     *)
Locked == main \in {"poll", "recv"}

-----------------------------------------------------------------------------
(* The listener thread: n_listener_tfunc *)

ThreadStarted ==
  /\ lis = "starting"
  /\ startup' = TRUE
  /\ lis' = "create"
  /\ UNCHANGED <<main, polled, shutdown, stop, minis, msgList, sockets, shells, objects>>

(* The constructor of an nIpcMiniServer.                                   *)
CreateMiniServer ==
  /\ lis = "create" /\ ~Locked
  /\ minis' = Append(minis, [conn |-> NoConn, blocking |-> FALSE, cwd |-> Root])
  /\ lis' = "listen"
  /\ UNCHANGED <<main, polled, startup, shutdown, stop, msgList, sockets, shells, objects>>

(* nIpcMiniServer::Listen: listen(), accept(), O_NONBLOCK.                 *)
Listen ==
  /\ lis = "listen"
  /\ listening' = TRUE
  /\ lis' = "accept"
  /\ UNCHANGED <<main, polled, startup, shutdown, stop, minis, msgList,
                 backlog, up, down, hungup, closed, shells, objects>>

Accept ==
  /\ lis = "accept" /\ backlog # <<>>
  /\ minis' = [minis EXCEPT ![Len(minis)].conn = Head(backlog),
                            ![Len(minis)].blocking = TRUE]
  /\ backlog' = Tail(backlog)
  /\ lis' = "nonblock"
  /\ UNCHANGED <<main, polled, startup, shutdown, stop, msgList,
                 listening, up, down, hungup, closed, shells, objects>>

SetNonBlocking ==
  /\ lis = "nonblock"
  /\ minis' = [minis EXCEPT ![Len(minis)].blocking = FALSE]
  /\ lis' = "check"
  /\ UNCHANGED <<main, polled, startup, shutdown, stop, msgList, sockets, shells, objects>>

(* CloseRcvrSocket of the miniservers in ids.                              *)
CloseSockets(ids) ==
  /\ closed' = [k \in Conns |-> closed[k] \/ \E i \in ids : minis[i].conn = k]
  /\ minis' = [i \in DOMAIN minis |->
                 IF i \in ids THEN [minis[i] EXCEPT !.conn = NoConn] ELSE minis[i]]

(* Is it the connection of the wakeup function?                            *)
Check ==
  /\ lis = "check"
  /\ IF stop THEN CloseSockets({Len(minis)}) ELSE UNCHANGED <<minis, closed>>
  /\ lis' = "while"
  /\ UNCHANGED <<main, polled, startup, shutdown, stop, msgList,
                 listening, backlog, up, down, hungup, shells, objects>>

While ==
  /\ lis = "while"
  /\ lis' = IF stop THEN "harakiri" ELSE "create"
  /\ UNCHANGED <<main, polled, startup, shutdown, stop, minis, msgList, sockets, shells, objects>>

ThreadHarakiri ==
  /\ lis = "harakiri" /\ shutdown
  /\ shutdown' = FALSE
  /\ lis' = "ended"
  /\ UNCHANGED <<main, polled, startup, stop, minis, msgList, sockets, shells, objects>>

Listener ==
  ThreadStarted \/ Listen \/ Accept \/ SetNonBlocking \/ Check \/ While \/ ThreadHarakiri

-----------------------------------------------------------------------------
(* The main thread *)

(* nRemoteServer::Open: the constructor of nIpcServer binds the socket and *)
(* that of nThread starts the thread and waits.                            *)
Open ==
  /\ main = "closed"
  /\ main' = "starting"
  /\ lis' = "starting"
  /\ UNCHANGED <<polled, startup, shutdown, stop, minis, msgList, sockets, shells, objects>>

Opened ==
  /\ main = "starting" /\ startup
  /\ startup' = FALSE
  /\ main' = "open"
  /\ UNCHANGED <<polled, lis, shutdown, stop, minis, msgList, sockets, shells, objects>>

(* Trigger polls the miniservers one after the other ...                   *)
Trigger ==
  /\ main = "open"
  /\ main' = "poll"
  /\ polled' = 0
  /\ UNCHANGED <<lis, startup, shutdown, stop, minis, msgList, sockets, shells, objects>>

Polling(i) ==
  /\ main \in {"poll", "recv"}
  /\ polled < Len(minis) /\ i = polled + 1

Data(k)  == k \in Clients /\ up[k] # <<>>
Quiet(k) == ~Data(k) /\ ~hungup[k]

(* ... nIpcMiniServer::Poll: there is no socket, or nothing to receive ... *)
PollNothing(i) ==
  /\ Polling(i) /\ main = "poll"
  /\ minis[i].conn # NoConn => Quiet(minis[i].conn) /\ ~minis[i].blocking
  /\ polled' = i
  /\ UNCHANGED <<main, lis, startup, shutdown, stop, minis, msgList, sockets, shells, objects>>

(* ... and nothing on a socket that is not in nonblocking mode yet ...     *)
PollBlocks(i) ==
  /\ Polling(i) /\ main = "poll"
  /\ minis[i].conn # NoConn /\ Quiet(minis[i].conn) /\ minis[i].blocking
  /\ main' = "recv"
  /\ UNCHANGED <<polled, lis, startup, shutdown, stop, minis, msgList, sockets, shells, objects>>

(* ... a message, which recv takes off the socket ...                      *)
Text(i) == Head(up[minis[i].conn])
Takes(i) ==
  /\ Polling(i) /\ Data(minis[i].conn)
  /\ main' = "poll"
  /\ polled' = i
  /\ up' = [up EXCEPT ![minis[i].conn] = Tail(@)]
  /\ UNCHANGED <<lis, startup, shutdown, stop, minis, listening, backlog, hungup, closed,
                 shells, objects>>

(* ... and which is for the script server ...                              *)
PollQueues(i) ==
  /\ Takes(i) /\ Text(i) \in Messages
  /\ msgList' = Append(msgList, [id |-> i, text |-> Text(i)])
  /\ UNCHANGED down

(* ... or a command, answered here: ~true, ~false and ~ok.  That the       *)
(* connection is to end then is a result of Poll nobody looks at ...       *)
PollAnswers(i) ==
  /\ Takes(i) /\ Text(i).do \in {"handshake", "wrong port", "close"}
  /\ down' = [down EXCEPT ![minis[i].conn] = Append(@, [text |-> Text(i), dir |-> None])]
  /\ UNCHANGED msgList

(* ... or no command, which is ignored ...                                 *)
PollIgnores(i) ==
  /\ Takes(i) /\ Text(i).do = "unknown"
  /\ UNCHANGED <<down, msgList>>

\* Mutant: every message goes to the server.
PollPasses(i) ==
  /\ Takes(i) /\ Text(i).do # "no port"
  /\ msgList' = Append(msgList, [id |-> i, text |-> Text(i)])
  /\ UNCHANGED down

PollReads(i) == PollQueues(i) \/ PollAnswers(i) \/ PollIgnores(i)

(* The miniservers are deleted, the socket of the server is closed, with   *)
(* it the connections nobody accepted, and the messages are dropped.       *)
CloseAll ==
  /\ closed' = [k \in Conns |-> \/ closed[k]
                                \/ \E i \in DOMAIN minis : minis[i].conn = k
                                \/ \E n \in DOMAIN backlog : backlog[n] = k]
  /\ minis' = <<>> /\ msgList' = <<>>
  /\ backlog' = <<>> /\ listening' = FALSE

(* ... or a handshake without a port: n_error ends the process ...         *)
PollAborts(i) ==
  /\ Polling(i) /\ Data(minis[i].conn) /\ Text(i).do = "no port"
  /\ main' = "aborted" /\ lis' = "ended"
  /\ CloseAll
  /\ UNCHANGED <<polled, startup, shutdown, stop, up, down, hungup, shells, objects>>

(* ... or the end of the connection.                                       *)
PollEnds(i) ==
  /\ Polling(i)
  /\ minis[i].conn # NoConn /\ ~Data(minis[i].conn) /\ hungup[minis[i].conn]
  /\ CloseSockets({i})
  /\ main' = "poll"
  /\ polled' = i
  /\ UNCHANGED <<lis, startup, shutdown, stop, msgList, listening, backlog, up, down, hungup, shells, objects>>

\* Mutant: Poll does not say that there are messages.
EndPollSilently ==
  /\ main = "poll" /\ polled = Len(minis)
  /\ main' = "open"
  /\ UNCHANGED <<polled, lis, startup, shutdown, stop, minis, msgList, sockets, shells, objects>>

EndPoll ==
  /\ main = "poll" /\ polled = Len(minis)
  /\ main' = IF msgList = <<>> THEN "open" ELSE "drain"
  /\ UNCHANGED <<polled, lis, startup, shutdown, stop, minis, msgList, sockets, shells, objects>>

(* GetClientCwd: if the old cwd has vanished, that of the kernel.          *)
InCwd(id) == IF minis[id].cwd = None THEN Root ELSE minis[id].cwd

(* A script selects an object that exists, or stays where it is; it        *)
(* deletes one that exists, and is at the root if that was its own         *)
(* (~nRoot): the current object of a script that ran in dir.               *)
After(text, dir) ==
  CASE text.do = "go"     -> IF text.obj \in alive THEN text.obj ELSE dir
    [] text.do = "delete" -> IF text.obj \in alive /\ text.obj = dir THEN Root ELSE dir
    [] OTHER              -> dir
Deleted(text) == IF text.do = "delete" THEN alive \cap {text.obj} ELSE {}

\* Mutant: the script runs in the cwd of the kernel, not in the client's.
CwdOfKernel(m) == After(m.text, Root)

(* The current object after the script of m ran in that of its client.     *)
CwdAfter(m) == After(m.text, InCwd(m.id))

(* PushCwd, Run or Prompt, SetClientCwd, PopCwd; ~nRoot invalidates the    *)
(* refCwd of the other contexts that refer to the object.                  *)
RunMsg(m) ==
  /\ alive' = alive \ Deleted(m.text)
  /\ minis' = [i \in DOMAIN minis |->
                 IF i = m.id THEN [minis[i] EXCEPT !.cwd = CwdAfter(m)]
                 ELSE IF minis[i].cwd \in Deleted(m.text)
                 THEN [minis[i] EXCEPT !.cwd = None]
                 ELSE minis[i]]
  /\ here' = [c \in Clients |->
                IF c = minis[m.id].conn THEN After(m.text, here[c])
                ELSE IF here[c] \in Deleted(m.text) THEN Root ELSE here[c]]

(* AnswerMsg finds the miniserver; Send does nothing without a socket.     *)
AnswerMsg(m, dir) ==
  LET c == minis[m.id].conn IN
    down' = IF c \in Clients
            THEN [down EXCEPT ![c] = Append(@, [text |-> m.text, dir |-> dir])]
            ELSE down

(* GetMsg, then the script and its answer, or "### comm error!".           *)
Answer ==
  /\ main = "drain" /\ msgList # <<>>
  /\ LET m == Head(msgList) IN
       \/ m.text.do # "broken" /\ RunMsg(m) /\ AnswerMsg(m, CwdAfter(m))
       \/ m.text.do = "broken" /\ AnswerMsg(m, None) /\ UNCHANGED <<minis, objects>>
  /\ msgList' = Tail(msgList)
  /\ UNCHANGED <<threads, listening, backlog, up, hungup, closed, shells>>

EndTrigger ==
  /\ main = "drain" /\ msgList = <<>>
  /\ main' = "open"
  /\ UNCHANGED <<polled, lis, startup, shutdown, stop, minis, msgList, sockets, shells, objects>>

(* nRemoteServer::Close deletes the contexts; ~nIpcServer deletes the      *)
(* nThread, which sets stop_thread ...                                     *)
Close ==
  /\ main = "open"
  /\ main' = "waking"
  /\ stop' = TRUE
  /\ minis' = [i \in DOMAIN minis |-> [minis[i] EXCEPT !.cwd = Root]]
  /\ UNCHANGED <<polled, lis, startup, shutdown, msgList, sockets, shells, objects>>

\* Mutant: the event of 1998, which is lost if nobody waits for it.
WakeUpEarly ==
  /\ main = "waking"
  /\ main' = "joining"
  /\ shutdown' = (lis = "harakiri")
  /\ IF listening
     THEN /\ backlog' = Append(backlog, Wakeup)
          /\ hungup' = [hungup EXCEPT ![Wakeup] = TRUE]
     ELSE UNCHANGED <<backlog, hungup>>
  /\ UNCHANGED <<polled, lis, startup, stop, minis, msgList, listening, up, down, closed, shells, objects>>

(* ... calls n_listener_wakeup, which connects to the server and hangs up  *)
(* (it only prints that no one listens), signals shutdown_event ...        *)
WakeUp ==
  /\ main = "waking"
  /\ main' = "joining"
  /\ shutdown' = TRUE
  /\ IF listening
     THEN /\ backlog' = Append(backlog, Wakeup)
          /\ hungup' = [hungup EXCEPT ![Wakeup] = TRUE]
     ELSE UNCHANGED <<backlog, hungup>>
  /\ UNCHANGED <<polled, lis, startup, stop, minis, msgList, listening, up, down, closed, shells, objects>>

(* ... and joins the thread.                                               *)
Join ==
  /\ main = "joining" /\ lis = "ended"
  /\ main' = "deleting"
  /\ UNCHANGED <<polled, lis, startup, shutdown, stop, minis, msgList, sockets, shells, objects>>

(* Then ~nIpcServer.                                                       *)
DeleteServer ==
  /\ main = "deleting"
  /\ main' = "done"
  /\ CloseAll
  /\ UNCHANGED <<polled, lis, startup, shutdown, stop, up, down, hungup, shells, objects>>

MainStep ==
  \/ Opened \/ Trigger \/ EndPoll \/ Answer \/ EndTrigger
  \/ WakeUp \/ Join \/ DeleteServer
  \/ \E i \in DOMAIN minis :
       \/ PollNothing(i) \/ PollBlocks(i) \/ PollReads(i)
       \/ PollAborts(i) \/ PollEnds(i)

-----------------------------------------------------------------------------
(* A shell: nIpcClient and the main of nremoteshell *)

Connect(c) ==
  /\ pc[c] = "off" /\ listening
  /\ pc' = [pc EXCEPT ![c] = "greet"]
  /\ backlog' = Append(backlog, c)
  /\ UNCHANGED <<threads, minis, msgList, listening, up, down, hungup, closed,
                 asked, sent, objects>>

(* A message is sent; the answer is waited for.                            *)
Say(c, text) ==
  /\ up' = [up EXCEPT ![c] = Append(@, text)]
  /\ asked' = [asked EXCEPT ![c] = text]
  /\ pc' = [pc EXCEPT ![c] = "wait"]
  /\ UNCHANGED <<threads, minis, msgList, listening, backlog, down, hungup, closed, objects>>

Greet(c) ==
  /\ pc[c] = "greet" /\ ~closed[c]
  /\ Say(c, Handshake)
  /\ UNCHANGED sent

SendMsg(c, text) ==
  /\ pc[c] = "idle" /\ ~closed[c] /\ sent[c] < MaxSent[c]
  /\ Say(c, text)
  /\ sent' = [sent EXCEPT ![c] = @ + 1]

Receive(c) ==
  /\ pc[c] = "wait" /\ down[c] # <<>>
  /\ down' = [down EXCEPT ![c] = Tail(@)]
  /\ pc' = [pc EXCEPT ![c] = "idle"]
  /\ UNCHANGED <<threads, minis, msgList, listening, backlog, up, hungup, closed,
                 asked, sent, objects>>

(* The connection failed, or the user leaves the shell.                    *)
Leave(c) ==
  /\ pc[c] \in {"greet", "wait", "idle"}
  /\ pc' = [pc EXCEPT ![c] = "gone"]
  /\ hungup' = [hungup EXCEPT ![c] = TRUE]
  /\ UNCHANGED <<threads, minis, msgList, listening, backlog, up, down, closed,
                 asked, sent, objects>>

Failed(c) == closed[c] /\ down[c] = <<>> /\ Leave(c)

Shell(c) ==
  \/ Connect(c) \/ Greet(c) \/ Receive(c) \/ Leave(c)
  \/ \E text \in Asks[c] : SendMsg(c, text)

Next ==
  \/ Open \/ Close \/ MainStep
  \/ CreateMiniServer \/ Listener
  \/ \E c \in Clients : Shell(c)

Spec == Init /\ [][Next]_vars

(* The frame loop triggers again and again and the listener runs; of the   *)
(* lock, which the frame loop holds during Poll only, it gets its share.   *)
(* A shell that connected goes on, or its process ends.                    *)
FairSpec ==
  /\ Spec
  /\ WF_vars(MainStep)
  /\ WF_vars(Listener)
  /\ SF_vars(CreateMiniServer)
  /\ \A c \in Clients :
       WF_vars(Greet(c)) /\ WF_vars(Receive(c)) /\ WF_vars(Failed(c))

-----------------------------------------------------------------------------
(* Properties *)

(* What a shell is sent answers what it asked last, and if that was a      *)
(* script, it ran in the object the shell's own scripts made the current   *)
(* one: nothing another shell does changes it, but for the deletion of     *)
(* that object, which leaves the kernel's (Trigger, AnswerMsg by client    *)
(* id, GetClientCwd and SetClientCwd).                                     *)
IsScript(text) == text \in Messages /\ text.do # "broken"
AnswerTo(c)    == [text |-> asked[c], dir |-> IF IsScript(asked[c]) THEN here[c] ELSE None]
AnswerIsMine ==
  [][\A c \in Clients : down'[c] \notin {down[c], <<>>} => down'[c] = <<AnswerTo(c)'>>]_vars

(* A shell that waits gets its answer or the end of the connection, also   *)
(* when the server is closed under it or another shell makes it abort.     *)
(* Two cases are exempt in which the code lets it wait for ever: a line    *)
(* that starts with a '~' and is no command is ignored without an answer   *)
(* (nipcminiserver.cc:133-135); and while a recv of the frame loop blocks, *)
(* which the comment on it says it does not (nipcminiserver.cc:57): a      *)
(* connection may be polled again before the listener has put it into      *)
(* nonblocking mode, and then all wait, the list locked, until that        *)
(* shell's user types something.                                           *)
Answered ==
  \A c \in Clients :
    pc[c] = "wait" /\ asked[c].do # "unknown" ~> (pc[c] # "wait" \/ main = "recv")

(* Close returns if the listener has called listen(): the wakeup function, *)
(* or a shell that connected before it, gets it out of accept(), and       *)
(* shutdown_event is not lost if it is signalled before the listener waits *)
(* for it (the hang-ups of 30-Oct-98 and 31-Oct-98, nthread.cc:64-76).     *)
CloseReturns == (main = "waking" /\ listening) ~> main = "done"

(* n_listener_wakeup wakes the listener, which then sees that it is to     *)
(* end: "Damit sollte accept() aufwachen ..., der Listener-Thread merkt    *)
(* dann, dass er sich beenden soll" (nipcserver.cc:59-68).                 *)
WakeupWakes == main = "joining" ~> main = "deleting"
=============================================================================
