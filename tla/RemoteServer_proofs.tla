------------------------ MODULE RemoteServer_proofs ------------------------
(***************************************************************************)
(* Proofs about the remote server, for any number of shells, objects and   *)
(* messages.  That an answer is one's own depends on where everything that *)
(* is under way is: the inductive invariant says of each shell that it has *)
(* one connection, that its one message or its answer is in one place, and *)
(* that the context of its connection is where the client is.              *)
(***************************************************************************)
EXTENDS RemoteServer, SequenceTheorems, TLAPS

Accepted(c) == \E i \in DOMAIN minis : minis[i].conn = c
Asking(c)   == \E n \in DOMAIN msgList : minis[msgList[n].id].conn = c

(* The server still answers.                                               *)
Serving == {"closed", "starting", "open", "poll", "recv", "drain"}

Shape ==
  /\ \A n \in DOMAIN msgList : msgList[n].id \in DOMAIN minis
  /\ lis \in {"listen", "accept", "nonblock", "check"} => Len(minis) > 0
  /\ lis \in {"listen", "accept"} =>
       /\ minis[Len(minis)].conn = NoConn
       /\ minis[Len(minis)].cwd = Root
       /\ \A n \in DOMAIN msgList : msgList[n].id # Len(minis)
  /\ main \in {"deleting", "done"} => lis = "ended"

OneConnection(c) ==
  /\ \A i, j \in DOMAIN minis : minis[i].conn = c /\ minis[j].conn = c => i = j
  /\ \A n, m \in DOMAIN backlog : backlog[n] = c /\ backlog[m] = c => n = m
  /\ \A n \in DOMAIN backlog : backlog[n] = c =>
       /\ ~Accepted(c)
       /\ here[c] = Root
       /\ down[c] = <<>>
       /\ pc[c] \notin {"idle", "off"}
  /\ pc[c] = "off" => ~Accepted(c) /\ here[c] = Root

OneMessage(c) ==
  /\ pc[c] \in {"off", "greet", "idle"} =>
       up[c] = <<>> /\ down[c] = <<>> /\ ~Asking(c)
  /\ up[c] # <<>> => up[c] = <<asked[c]>> /\ down[c] = <<>> /\ ~Asking(c)
  /\ down[c] # <<>> => Len(down[c]) = 1 /\ ~Asking(c)
  /\ \A n, m \in DOMAIN msgList :
       minis[msgList[n].id].conn = c /\ minis[msgList[m].id].conn = c => n = m
  /\ \A n \in DOMAIN msgList :
       minis[msgList[n].id].conn = c => msgList[n].text = asked[c]

OwnCwd(c) ==
  main \in Serving =>
    \A i \in DOMAIN minis : minis[i].conn = c => here[c] = InCwd(i)

Own(c) == OneConnection(c) /\ OneMessage(c) /\ OwnCwd(c)

IInv == TypeOK /\ Shape /\ \A c \in Clients : Own(c)

-----------------------------------------------------------------------------
LEMMA InitInv == Init => IInv
<1> SUFFICES ASSUME Init PROVE IInv
  OBVIOUS
<1> USE RemoteAssumption
<1>1. \A S : <<>> \in Seq(S)
  BY EmptySeq
<1>2. backlog \in Seq(Conns) /\ minis \in Seq(Mini)
      /\ msgList \in Seq([id : Nat \ {0}, text : Messages])
  BY <1>1 DEF Init
<1>3. up \in [Clients -> Seq(Texts)] /\ down \in [Clients -> Seq(Replies)]
  BY <1>1 DEF Init
<1>4. TypeOK
  <2>1. Handshake \in Texts
    BY DEF Texts, Commands, Handshake
  <2>2. asked \in [Clients -> Texts]
    BY <2>1 DEF Init
  <2> QED
    BY <1>2, <1>3, <2>2 DEF Init, TypeOK, MainAt, ListenerAt
<1>5. Shape /\ \A c \in Clients : Own(c)
  BY DEF Init, Shape, Own, OneConnection, OneMessage, OwnCwd, Accepted, Asking
<1> QED
  BY <1>4, <1>5 DEF IInv

(* A function on 1..n is a sequence.                                       *)
LEMMA Listed ==
  ASSUME NEW S, NEW n \in Nat, NEW f \in [1..n -> S]
  PROVE  f \in Seq(S) /\ Len(f) = n /\ DOMAIN f = 1..n
<1>1. f \in Seq(S)
  BY SeqDef
<1> QED
  BY <1>1, LenProperties

LEMMA First ==
  ASSUME NEW S, NEW s \in Seq(S), s # <<>>
  PROVE  /\ Len(s) \in Nat \ {0} /\ Head(s) = s[1] /\ Head(s) \in S
         /\ Tail(s) \in Seq(S) /\ Len(Tail(s)) = Len(s) - 1
         /\ DOMAIN Tail(s) = 1..(Len(s) - 1)
         /\ \A n \in 1..(Len(s) - 1) : Tail(s)[n] = s[n + 1]
<1>1. Len(s) \in Nat \ {0}
  BY EmptySeq
<1>2. Head(SubSeq(s, 1, Len(s))) = s[1]
  BY <1>1, HeadTailOfSubSeq
<1>3. SubSeq(s, 1, Len(s)) = s
  BY SubSeqFull
<1>4. DOMAIN Tail(s) = 1..Len(Tail(s))
  BY HeadTailProperties, LenProperties
<1> QED
  BY <1>1, <1>2, <1>3, <1>4, HeadTailProperties

LEMMA Lengths ==
  ASSUME TypeOK
  PROVE  /\ Len(minis) \in Nat /\ minis \in [1..Len(minis) -> Mini]
         /\ DOMAIN minis = 1..Len(minis)
         /\ Len(msgList) \in Nat /\ DOMAIN msgList = 1..Len(msgList)
         /\ msgList \in [1..Len(msgList) -> [id : Nat \ {0}, text : Messages]]
         /\ Len(backlog) \in Nat /\ DOMAIN backlog = 1..Len(backlog)
         /\ backlog \in [1..Len(backlog) -> Conns]
BY LenProperties DEF TypeOK

(* What is read from a socket, and what follows a script.                  *)
LEMMA Taken ==
  ASSUME TypeOK, NEW i \in DOMAIN minis, Data(minis[i].conn)
  PROVE  /\ minis[i].conn \in Clients
         /\ up[minis[i].conn] \in Seq(Texts) /\ up[minis[i].conn] # <<>>
         /\ Text(i) \in Texts /\ Text(i) = up[minis[i].conn][1]
         /\ Tail(up[minis[i].conn]) \in Seq(Texts)
BY First DEF TypeOK, Data, Text

LEMMA Ran ==
  ASSUME NEW text \in Messages, NEW dir \in Dirs
  PROVE  /\ After(text, dir) \in Dirs
         /\ Root \notin Deleted(text) /\ None \notin Deleted(text)
<1>1. text.do = "go" => text.obj \in Dirs
  BY DEF Messages
<1>2. text.do = "delete" => text.obj \in Dirs \ {Root}
  BY DEF Messages
<1> QED
  BY <1>1, <1>2, RemoteAssumption DEF After, Deleted

LEMMA WasIn ==
  ASSUME TypeOK, NEW i \in DOMAIN minis
  PROVE  InCwd(i) \in Dirs
BY Lengths, RemoteAssumption DEF InCwd, Mini

(* What CloseSockets, Close and the EXCEPTs of the listener do to the list *)
(* keeps its length.                                                       *)
LEMMA MinisKept ==
  ASSUME TypeOK, minis' \in [1..Len(minis) -> Mini]
  PROVE  /\ minis' \in Seq(Mini) /\ Len(minis') = Len(minis)
         /\ DOMAIN minis' = 1..Len(minis)
BY Lengths, Listed

(* The types are kept: steps that change no list, then the others, each    *)
(* with the type of the lists after it.                                    *)
LEMMA TypeQuiet ==
  ASSUME TypeOK,
         \/ ThreadStarted \/ Listen \/ While \/ ThreadHarakiri \/ Open \/ Opened
         \/ Trigger \/ EndPoll \/ EndTrigger \/ Join \/ UNCHANGED vars
  PROVE  TypeOK'
<1> USE DEF TypeOK, MainAt, ListenerAt, sockets, shells, objects
<1>1. CASE ThreadStarted
  BY <1>1 DEF ThreadStarted
<1>2. CASE Listen
  BY <1>2 DEF Listen
<1>3. CASE While
  BY <1>3 DEF While
<1>4. CASE ThreadHarakiri
  BY <1>4 DEF ThreadHarakiri
<1>5. CASE Open
  BY <1>5 DEF Open
<1>6. CASE Opened
  BY <1>6 DEF Opened
<1>7. CASE Trigger
  BY <1>7 DEF Trigger
<1>8. CASE EndPoll
  BY <1>8 DEF EndPoll
<1>9. CASE EndTrigger
  BY <1>9 DEF EndTrigger
<1>10. CASE Join
  BY <1>10 DEF Join
<1>11. CASE UNCHANGED vars
  BY <1>11 DEF vars
<1> QED
  BY <1>1, <1>2, <1>3, <1>4, <1>5, <1>6, <1>7, <1>8, <1>9, <1>10, <1>11

LEMMA TypeClosed ==
  ASSUME TypeOK, NEW ids, CloseSockets(ids)
  PROVE  minis' \in [1..Len(minis) -> Mini] /\ closed' \in [Conns -> BOOLEAN]
<1>1. ASSUME NEW i \in 1..Len(minis)
      PROVE  minis[i] \in Mini /\ [minis[i] EXCEPT !.conn = NoConn] \in Mini
  BY Lengths DEF Mini
<1> QED
  BY <1>1, Lengths DEF TypeOK, CloseSockets

LEMMA TypeListener ==
  ASSUME IInv, CreateMiniServer \/ Accept \/ SetNonBlocking \/ Check
  PROVE  TypeOK'
<1> USE DEF IInv
<1>1. CASE CreateMiniServer
  <2>1. [conn |-> NoConn, blocking |-> FALSE, cwd |-> Root] \in Mini
    BY RemoteAssumption DEF Mini
  <2>2. minis' \in Seq(Mini)
    BY <1>1, <2>1, AppendProperties DEF TypeOK, CreateMiniServer
  <2> QED
    BY <1>1, <2>2 DEF TypeOK, CreateMiniServer, ListenerAt, sockets, shells, objects
<1>2. CASE Accept
  <2>1. Head(backlog) \in Conns /\ Tail(backlog) \in Seq(Conns)
    BY <1>2, HeadTailProperties DEF TypeOK, Accept
  <2>2. minis' \in [1..Len(minis) -> Mini]
    BY <1>2, <2>1, Lengths DEF Accept, Mini
  <2>3. minis' \in Seq(Mini)
    BY <2>2, MinisKept
  <2> QED
    BY <1>2, <2>1, <2>3 DEF TypeOK, Accept, ListenerAt, shells, objects
<1>3. CASE SetNonBlocking
  <2>1. minis' \in [1..Len(minis) -> Mini]
    BY <1>3, Lengths DEF SetNonBlocking, Mini
  <2>2. minis' \in Seq(Mini)
    BY <2>1, MinisKept
  <2> QED
    BY <1>3, <2>2 DEF TypeOK, SetNonBlocking, ListenerAt, sockets, shells, objects
<1>4. CASE Check
  <2>1. closed' \in [Conns -> BOOLEAN]
    BY <1>4, TypeClosed DEF TypeOK, Check
  <2>2. minis' \in [1..Len(minis) -> Mini]
    BY <1>4, TypeClosed, Lengths DEF Check
  <2>3. minis' \in Seq(Mini)
    BY <2>2, MinisKept
  <2> QED
    BY <1>4, <2>1, <2>3 DEF TypeOK, Check, ListenerAt, shells, objects
<1> QED
  BY <1>1, <1>2, <1>3, <1>4

LEMMA TypePoll ==
  ASSUME IInv, NEW i \in DOMAIN minis,
         PollNothing(i) \/ PollBlocks(i) \/ PollReads(i) \/ PollEnds(i)
  PROVE  TypeOK'
<1> USE DEF IInv
<1>1. i \in Nat \ {0}
  BY Lengths
<1>2. CASE PollNothing(i) \/ PollBlocks(i)
  BY <1>1, <1>2 DEF TypeOK, PollNothing, PollBlocks, MainAt, sockets, shells, objects
<1>3. CASE PollReads(i)
  <2> DEFINE c == minis[i].conn
  <2>1. Takes(i) /\ Data(c)
    <3>1. Takes(i)
      BY <1>3 DEF PollReads, PollQueues, PollAnswers, PollIgnores
    <3> QED
      BY <3>1 DEF Takes
  <2>2. c \in Clients /\ Text(i) \in Texts /\ Tail(up[c]) \in Seq(Texts)
    BY <2>1, Taken
  <2>3. up' \in [Clients -> Seq(Texts)]
    BY <2>1, <2>2 DEF TypeOK, Takes
  <2>4. CASE PollAnswers(i)
    <3>1. [text |-> Text(i), dir |-> None] \in Replies
      BY <2>2 DEF Replies
    <3>2. Append(down[c], [text |-> Text(i), dir |-> None]) \in Seq(Replies)
      BY <2>2, <3>1, AppendProperties DEF TypeOK
    <3>3. down' \in [Clients -> Seq(Replies)]
      <4>1. down' = [down EXCEPT ![c] = Append(down[c], [text |-> Text(i), dir |-> None])]
        BY <2>4 DEF PollAnswers
      <4> QED
        BY <2>2, <3>2, <4>1 DEF TypeOK
    <3> QED
      BY <1>1, <2>1, <2>3, <2>4, <3>3 DEF TypeOK, PollAnswers, Takes, MainAt, shells, objects
  <2>5. CASE PollQueues(i)
    <3>1. [id |-> i, text |-> Text(i)] \in [id : Nat \ {0}, text : Messages]
      BY <1>1, <2>5 DEF PollQueues
    <3>2. msgList' \in Seq([id : Nat \ {0}, text : Messages])
      BY <2>5, <3>1, AppendProperties DEF TypeOK, PollQueues
    <3> QED
      BY <1>1, <2>1, <2>3, <2>5, <3>2 DEF TypeOK, PollQueues, Takes, MainAt, shells, objects
  <2>6. CASE PollIgnores(i)
    BY <1>1, <2>1, <2>3, <2>6 DEF TypeOK, PollIgnores, Takes, MainAt, shells, objects
  <2> QED
    BY <1>3, <2>4, <2>5, <2>6 DEF PollReads
<1>4. CASE PollEnds(i)
  <2>1. closed' \in [Conns -> BOOLEAN]
    BY <1>4, TypeClosed DEF PollEnds
  <2>2. minis' \in [1..Len(minis) -> Mini]
    BY <1>4, TypeClosed DEF PollEnds
  <2>3. minis' \in Seq(Mini)
    BY <2>2, MinisKept
  <2> QED
    BY <1>1, <1>4, <2>1, <2>3 DEF TypeOK, PollEnds, MainAt, shells, objects
<1> QED
  BY <1>2, <1>3, <1>4

(* The first of the messages, and what its answer does to the list.        *)
LEMMA Next1 ==
  ASSUME IInv, Answer
  PROVE  /\ msgList # <<>> /\ Head(msgList) = msgList[1] /\ 1 \in DOMAIN msgList
         /\ Head(msgList) \in [id : Nat \ {0}, text : Messages]
         /\ Head(msgList).id \in DOMAIN minis
         /\ Tail(msgList) \in Seq([id : Nat \ {0}, text : Messages])
<1>1. msgList # <<>>
  BY DEF Answer
<1>2. Head(msgList) = msgList[1] /\ Len(msgList) \in Nat \ {0}
  BY <1>1, First DEF IInv, TypeOK
<1>3. 1 \in DOMAIN msgList
  BY <1>2, Lengths DEF IInv
<1> QED
  BY <1>1, <1>2, <1>3, First DEF IInv, TypeOK, Shape

(* After a script every context is where it was, but for that of the       *)
(* script and those whose object it deleted.                               *)
LEMMA RunTypes ==
  ASSUME IInv, NEW m \in [id : Nat \ {0}, text : Messages], m.id \in DOMAIN minis,
         RunMsg(m)
  PROVE  /\ CwdAfter(m) \in Dirs
         /\ minis' \in [1..Len(minis) -> Mini]
         /\ here' \in [Clients -> Dirs] /\ alive' \subseteq Dirs
         /\ \A i \in DOMAIN minis :
              /\ minis'[i].conn = minis[i].conn
              /\ minis'[i].cwd = IF i = m.id THEN CwdAfter(m)
                                 ELSE IF minis[i].cwd \in Deleted(m.text) THEN None
                                 ELSE minis[i].cwd
<1>1. m.text \in Messages
  OBVIOUS
<1>2. CwdAfter(m) \in Dirs
  BY <1>1, WasIn, Ran DEF IInv, CwdAfter
<1>3. ASSUME NEW i \in 1..Len(minis)
      PROVE  /\ minis[i] \in Mini
             /\ \A d \in Dirs \cup {None} :
                  /\ [minis[i] EXCEPT !.cwd = d] \in Mini
                  /\ [minis[i] EXCEPT !.cwd = d].conn = minis[i].conn
                  /\ [minis[i] EXCEPT !.cwd = d].cwd = d
  BY Lengths DEF IInv, Mini
<1>4. minis' = [i \in 1..Len(minis) |->
                 IF i = m.id THEN [minis[i] EXCEPT !.cwd = CwdAfter(m)]
                 ELSE IF minis[i].cwd \in Deleted(m.text)
                 THEN [minis[i] EXCEPT !.cwd = None]
                 ELSE minis[i]]
  BY Lengths DEF IInv, RunMsg
<1>5. minis' \in [1..Len(minis) -> Mini]
  BY <1>2, <1>3, <1>4
<1>6. ASSUME NEW i \in DOMAIN minis
      PROVE  /\ minis'[i].conn = minis[i].conn
             /\ minis'[i].cwd = IF i = m.id THEN CwdAfter(m)
                                ELSE IF minis[i].cwd \in Deleted(m.text) THEN None
                                ELSE minis[i].cwd
  BY <1>2, <1>3, <1>4, Lengths DEF IInv
<1>7. ASSUME NEW c \in Clients PROVE After(m.text, here[c]) \in Dirs
  BY <1>1, Ran DEF IInv, TypeOK
<1>8. here' \in [Clients -> Dirs] /\ alive' \subseteq Dirs
  BY <1>7, RemoteAssumption DEF IInv, TypeOK, RunMsg
<1> QED
  BY <1>2, <1>5, <1>6, <1>8

LEMMA TypeMain ==
  ASSUME IInv, \/ Answer \/ Close \/ WakeUp \/ DeleteServer
               \/ \E i \in DOMAIN minis : PollAborts(i)
  PROVE  TypeOK'
<1> USE DEF IInv
<1>1. CASE Answer
  <2> DEFINE m == Head(msgList)
             c == minis[m.id].conn
  <2>1. /\ m \in [id : Nat \ {0}, text : Messages] /\ m.id \in DOMAIN minis
        /\ Tail(msgList) \in Seq([id : Nat \ {0}, text : Messages])
    BY <1>1, Next1
  <2>2. ASSUME NEW dir \in Dirs \cup {None}, AnswerMsg(m, dir)
        PROVE  down' \in [Clients -> Seq(Replies)]
    <3>1. [text |-> m.text, dir |-> dir] \in Replies
      BY <2>1 DEF Replies, Texts
    <3>2. c \in Clients =>
            Append(down[c], [text |-> m.text, dir |-> dir]) \in Seq(Replies)
      BY <3>1, AppendProperties DEF TypeOK
    <3> QED
      BY <2>2, <3>2 DEF TypeOK, AnswerMsg
  <2>3. CASE RunMsg(m) /\ AnswerMsg(m, CwdAfter(m))
    <3>1. /\ CwdAfter(m) \in Dirs /\ minis' \in [1..Len(minis) -> Mini]
          /\ here' \in [Clients -> Dirs] /\ alive' \subseteq Dirs
      BY <2>1, <2>3, RunTypes
    <3>2. minis' \in Seq(Mini)
      BY <3>1, MinisKept
    <3>3. down' \in [Clients -> Seq(Replies)]
      BY <2>2, <2>3, <3>1
    <3> QED
      BY <1>1, <2>1, <3>1, <3>2, <3>3 DEF TypeOK, Answer, threads, shells
  <2>4. CASE AnswerMsg(m, None) /\ UNCHANGED <<minis, objects>>
    <3>1. down' \in [Clients -> Seq(Replies)]
      BY <2>2, <2>4
    <3> QED
      BY <1>1, <2>1, <2>4, <3>1 DEF TypeOK, Answer, threads, shells, objects
  <2> QED
    BY <1>1, <2>3, <2>4 DEF Answer
<1>2. CASE Close
  <2>1. minis' \in [1..Len(minis) -> Mini]
    <3>1. Root \in Dirs
      BY RemoteAssumption
    <3>2. \A i \in 1..Len(minis) : [minis[i] EXCEPT !.cwd = Root] \in Mini
      BY <3>1, Lengths DEF Mini
    <3> QED
      BY <1>2, <3>2, Lengths DEF Close
  <2>2. minis' \in Seq(Mini)
    BY <2>1, MinisKept
  <2> QED
    BY <1>2, <2>2 DEF TypeOK, Close, MainAt, sockets, shells, objects
<1>3. CASE WakeUp
  <2>1. Append(backlog, Wakeup) \in Seq(Conns)
    BY AppendProperties DEF TypeOK, Conns
  <2> QED
    BY <1>3, <2>1 DEF TypeOK, WakeUp, MainAt, Conns, shells, objects
<1>4. ASSUME CloseAll
      PROVE  /\ minis' \in Seq(Mini) /\ backlog' \in Seq(Conns)
             /\ msgList' \in Seq([id : Nat \ {0}, text : Messages])
             /\ closed' \in [Conns -> BOOLEAN] /\ listening' = FALSE
  <2>1. \A S : <<>> \in Seq(S)
    BY EmptySeq
  <2> QED
    BY <1>4, <2>1 DEF CloseAll, TypeOK
<1>5. CASE DeleteServer
  BY <1>4, <1>5 DEF TypeOK, DeleteServer, MainAt, shells, objects
<1>6. ASSUME NEW i \in DOMAIN minis, PollAborts(i) PROVE TypeOK'
  <2>1. CloseAll
    BY <1>6 DEF PollAborts
  <2> QED
    BY <1>4, <1>6, <2>1 DEF TypeOK, PollAborts, MainAt, ListenerAt, shells, objects
<1> QED
  BY <1>1, <1>2, <1>3, <1>5, <1>6

LEMMA TypeShell ==
  ASSUME IInv, NEW c \in Clients, Shell(c)
  PROVE  TypeOK'
<1> USE DEF IInv
<1>1. CASE Connect(c)
  <2>1. Append(backlog, c) \in Seq(Conns)
    BY AppendProperties DEF TypeOK, Conns
  <2> QED
    BY <1>1, <2>1 DEF TypeOK, Connect, threads, objects
<1>2. CASE Greet(c)
  <2>0. Handshake \in Texts
    BY DEF Texts, Commands, Handshake
  <2>1. Append(up[c], Handshake) \in Seq(Texts)
    BY <2>0, AppendProperties DEF TypeOK
  <2>2. up' \in [Clients -> Seq(Texts)]
    BY <1>2, <2>1 DEF TypeOK, Greet, Say
  <2> QED
    BY <1>2, <2>0, <2>2 DEF TypeOK, Greet, Say, threads, objects
<1>3. ASSUME NEW text \in Asks[c], SendMsg(c, text) PROVE TypeOK'
  <2>0. text \in Texts
    BY RemoteAssumption
  <2>1. Append(up[c], text) \in Seq(Texts)
    BY <2>0, AppendProperties DEF TypeOK
  <2>2. up' \in [Clients -> Seq(Texts)]
    BY <1>3, <2>1 DEF TypeOK, SendMsg, Say
  <2> QED
    BY <1>3, <2>0, <2>2 DEF TypeOK, SendMsg, Say, threads, objects
<1>4. CASE Receive(c)
  <2>1. Tail(down[c]) \in Seq(Replies)
    BY <1>4, HeadTailProperties DEF TypeOK, Receive
  <2>2. down' \in [Clients -> Seq(Replies)]
    BY <1>4, <2>1 DEF TypeOK, Receive
  <2> QED
    BY <1>4, <2>2 DEF TypeOK, Receive, threads, objects
<1>5. CASE Leave(c)
  BY <1>5 DEF TypeOK, Leave, threads, objects
<1> QED
  BY <1>1, <1>2, <1>3, <1>4, <1>5 DEF Shell

LEMMA TypeNext == ASSUME IInv, [Next]_vars PROVE TypeOK'
BY TypeQuiet, TypeListener, TypePoll, TypeMain, TypeShell
   DEF IInv, Next, MainStep, Listener

-----------------------------------------------------------------------------
(* A step of others: c keeps its connection, what is under way for it and  *)
(* its place, or loses the connection.                                     *)
LEMMA OwnStays ==
  ASSUME IInv, NEW c \in Clients,
         \A i \in DOMAIN minis' : minis'[i].conn = c =>
           /\ i \in DOMAIN minis /\ minis[i].conn = c
           /\ main' \in Serving /\ here[c] = InCwd(i) => here'[c] = InCwd(i)',
         \A n, m \in DOMAIN backlog' : backlog'[n] = c /\ backlog'[m] = c => n = m,
         \A n \in DOMAIN backlog' : backlog'[n] = c => \E m \in DOMAIN backlog : backlog[m] = c,
         \A n, m \in DOMAIN msgList' :
           minis'[msgList'[n].id].conn = c /\ minis'[msgList'[m].id].conn = c => n = m,
         \A n \in DOMAIN msgList' : minis'[msgList'[n].id].conn = c =>
           \E m \in DOMAIN msgList :
             minis[msgList[m].id].conn = c /\ msgList[m].text = msgList'[n].text,
         up'[c] = up[c], down'[c] = down[c], pc'[c] = pc[c],
         asked'[c] = asked[c], here'[c] \in {here[c], Root},
         main' \in Serving => main \in Serving
  PROVE  Own(c)'
<1>1. OneConnection(c) /\ OneMessage(c) /\ OwnCwd(c)
  BY DEF IInv, Own
<1>2. (Accepted(c)' => Accepted(c)) /\ (Asking(c)' => Asking(c))
  BY DEF Accepted, Asking
<1>3. OneConnection(c)'
  BY <1>1, <1>2 DEF OneConnection
<1>4. OneMessage(c)'
  <2>1. \A n \in DOMAIN msgList' : minis'[msgList'[n].id].conn = c =>
          msgList'[n].text = asked'[c]
    BY <1>1 DEF OneMessage
  <2> QED
    BY <1>1, <1>2, <2>1 DEF OneMessage
<1>5. OwnCwd(c)'
  BY <1>1 DEF OwnCwd
<1> QED
  BY <1>3, <1>4, <1>5 DEF Own

LEMMA OwnKept ==
  ASSUME IInv, NEW c \in Clients,
         \A i \in DOMAIN minis' : minis'[i].conn = c =>
           /\ i \in DOMAIN minis /\ minis[i].conn = c
           /\ main' \in Serving => minis'[i].cwd = minis[i].cwd,
         \A n, m \in DOMAIN backlog' : backlog'[n] = c /\ backlog'[m] = c => n = m,
         \A n \in DOMAIN backlog' : backlog'[n] = c => \E m \in DOMAIN backlog : backlog[m] = c,
         \A n, m \in DOMAIN msgList' :
           minis'[msgList'[n].id].conn = c /\ minis'[msgList'[m].id].conn = c => n = m,
         \A n \in DOMAIN msgList' : minis'[msgList'[n].id].conn = c =>
           \E m \in DOMAIN msgList :
             minis[msgList[m].id].conn = c /\ msgList[m].text = msgList'[n].text,
         up'[c] = up[c], down'[c] = down[c], pc'[c] = pc[c],
         asked'[c] = asked[c], here'[c] = here[c],
         main' \in Serving => main \in Serving
  PROVE  Own(c)'
<1>1. \A i \in DOMAIN minis' : minis'[i].conn = c =>
        /\ i \in DOMAIN minis /\ minis[i].conn = c
        /\ main' \in Serving /\ here[c] = InCwd(i) => here'[c] = InCwd(i)'
  BY DEF InCwd
<1> QED
  BY <1>1, OwnStays

(* Nothing is sent, received or accepted; connections may be closed.       *)
LEMMA OwnFewer ==
  ASSUME IInv, NEW c \in Clients,
         DOMAIN minis' = DOMAIN minis,
         \A i \in DOMAIN minis : minis'[i].conn \in {minis[i].conn, NoConn},
         main' \in Serving => main \in Serving
           /\ \A i \in DOMAIN minis : minis'[i].cwd = minis[i].cwd,
         UNCHANGED <<msgList, backlog, up, down, pc, asked, here>>
  PROVE  Own(c)'
<1>1. c # NoConn
  BY RemoteAssumption
<1>2. OneConnection(c) /\ OneMessage(c) /\ Shape
  BY DEF IInv, Own
<1>3. \A i \in DOMAIN minis : minis'[i].conn = c => minis[i].conn = c
  BY <1>1
<1>4. \A n \in DOMAIN msgList : msgList[n].id \in DOMAIN minis
  BY <1>2 DEF Shape
<1>6. \A n, m \in DOMAIN msgList :
        minis'[msgList[n].id].conn = c /\ minis'[msgList[m].id].conn = c => n = m
  BY <1>2, <1>3, <1>4 DEF OneMessage
<1>7. \A n, m \in DOMAIN backlog : backlog[n] = c /\ backlog[m] = c => n = m
  BY <1>2 DEF OneConnection
<1> QED
  BY <1>3, <1>4, <1>6, <1>7, OwnKept

LEMMA OwnQuiet ==
  ASSUME IInv, NEW c \in Clients,
         \/ ThreadStarted \/ Listen \/ While \/ ThreadHarakiri \/ Open \/ Opened
         \/ Trigger \/ EndPoll \/ EndTrigger \/ Join \/ UNCHANGED vars
         \/ \E i \in DOMAIN minis : PollNothing(i) \/ PollBlocks(i)
  PROVE  Own(c)'
<1>1. UNCHANGED <<minis, msgList, backlog, up, down, pc, asked, here>>
  BY DEF ThreadStarted, Listen, While, ThreadHarakiri, Open, Opened, Trigger,
         EndPoll, EndTrigger, Join, vars, PollNothing, PollBlocks, sockets, shells, objects
<1>2. main' \in Serving => main \in Serving
  BY DEF ThreadStarted, Listen, While, ThreadHarakiri, Open, Opened, Trigger,
         EndPoll, EndTrigger, Join, vars, PollNothing, PollBlocks, Serving
<1> QED
  BY <1>1, <1>2, OwnFewer

LEMMA OwnCloses ==
  ASSUME IInv, NEW c \in Clients,
         \/ SetNonBlocking \/ Check \/ Close
         \/ \E i \in DOMAIN minis : PollEnds(i)
  PROVE  Own(c)'
<1> USE DEF IInv
<1>1. CASE SetNonBlocking
  <2>1. DOMAIN minis' = DOMAIN minis
        /\ \A i \in DOMAIN minis : minis'[i].conn = minis[i].conn
                                   /\ minis'[i].cwd = minis[i].cwd
    BY <1>1, Lengths DEF SetNonBlocking, Mini
  <2> QED
    BY <1>1, <2>1, OwnFewer DEF SetNonBlocking, sockets, shells, objects
<1>2. ASSUME NEW ids, CloseSockets(ids)
      PROVE  DOMAIN minis' = DOMAIN minis
             /\ \A i \in DOMAIN minis : minis'[i].conn \in {minis[i].conn, NoConn}
                                        /\ minis'[i].cwd = minis[i].cwd
  <2>1. ASSUME NEW i \in DOMAIN minis
        PROVE  /\ [minis[i] EXCEPT !.conn = NoConn].conn = NoConn
               /\ [minis[i] EXCEPT !.conn = NoConn].cwd = minis[i].cwd
    BY Lengths DEF Mini
  <2> QED
    BY <1>2, <2>1 DEF CloseSockets
<1>3. CASE Check
  <2>1. DOMAIN minis' = DOMAIN minis
        /\ \A i \in DOMAIN minis : minis'[i].conn \in {minis[i].conn, NoConn}
                                   /\ minis'[i].cwd = minis[i].cwd
    BY <1>2, <1>3 DEF Check
  <2> QED
    BY <1>3, <2>1, OwnFewer DEF Check, shells, objects
<1>4. ASSUME NEW i \in DOMAIN minis, PollEnds(i) PROVE Own(c)'
  <2>1. DOMAIN minis' = DOMAIN minis
        /\ \A j \in DOMAIN minis : minis'[j].conn \in {minis[j].conn, NoConn}
                                   /\ minis'[j].cwd = minis[j].cwd
    BY <1>2, <1>4 DEF PollEnds
  <2>2. main \in Serving
    BY <1>4 DEF PollEnds, Polling, Serving
  <2> QED
    BY <1>4, <2>1, <2>2, OwnFewer DEF PollEnds, shells, objects
<1>5. CASE Close
  <2>1. DOMAIN minis' = DOMAIN minis
        /\ \A i \in DOMAIN minis : minis'[i].conn = minis[i].conn
    BY <1>5, Lengths DEF Close, Mini
  <2>2. main' \notin Serving
    BY <1>5 DEF Close, Serving
  <2> QED
    BY <1>5, <2>1, <2>2, OwnFewer DEF Close, sockets, shells, objects
<1> QED
  BY <1>1, <1>3, <1>4, <1>5

LEMMA OwnListener ==
  ASSUME IInv, NEW c \in Clients, CreateMiniServer \/ Accept
  PROVE  Own(c)'
<1> USE DEF IInv
<1> DEFINE L == Len(minis)
<1>1. OneConnection(c) /\ OneMessage(c) /\ OwnCwd(c) /\ Shape
  BY DEF Own
<1>2. c # NoConn
  BY RemoteAssumption
<1>3. CASE CreateMiniServer
  <2>1. [conn |-> NoConn, blocking |-> FALSE, cwd |-> Root] \in Mini
    BY RemoteAssumption DEF Mini
  <2>2. minis' \in Seq(Mini) /\ Len(minis') = L + 1
        /\ \A i \in 1..L : minis'[i] = minis[i]
    BY <1>3, <2>1, AppendProperties DEF TypeOK, CreateMiniServer
  <2>3. minis'[L + 1] = [conn |-> NoConn, blocking |-> FALSE, cwd |-> Root]
    BY <1>3, <2>1, AppendProperties DEF TypeOK, CreateMiniServer
  <2>4. DOMAIN minis' = 1..(L + 1) /\ DOMAIN minis = 1..L /\ L \in Nat
    BY <2>2, LenProperties, Lengths
  <2>5. \A i \in DOMAIN minis' : minis'[i].conn = c =>
          i \in DOMAIN minis /\ minis[i].conn = c /\ minis'[i].cwd = minis[i].cwd
    BY <1>2, <2>2, <2>3, <2>4
  <2>6. \A n \in DOMAIN msgList : minis'[msgList[n].id] = minis[msgList[n].id]
    BY <1>1, <2>2, <2>4 DEF Shape
  <2>7. UNCHANGED <<msgList, backlog, up, down, pc, asked, here, main>>
    BY <1>3 DEF CreateMiniServer, sockets, shells, objects
  <2>9. \A n, m \in DOMAIN msgList :
          minis'[msgList[n].id].conn = c /\ minis'[msgList[m].id].conn = c => n = m
    BY <1>1, <2>6 DEF OneMessage
  <2>10. \A n, m \in DOMAIN backlog : backlog[n] = c /\ backlog[m] = c => n = m
    BY <1>1 DEF OneConnection
  <2> QED
    BY <2>5, <2>6, <2>7, <2>9, <2>10, OwnKept
<1>4. CASE Accept
  <2>1. backlog # <<>> /\ backlog \in Seq(Conns)
    BY <1>4 DEF Accept, TypeOK
  <2>2. L \in Nat /\ L > 0 /\ L \in DOMAIN minis /\ DOMAIN minis = 1..L
        /\ minis[L].conn = NoConn /\ minis[L].cwd = Root
        /\ \A n \in DOMAIN msgList : msgList[n].id \in DOMAIN minis /\ msgList[n].id # L
    BY <1>1, <1>4, Lengths DEF Accept, Shape
  <2>3. DOMAIN minis' = DOMAIN minis /\ minis'[L].conn = Head(backlog)
        /\ minis'[L].cwd = Root
        /\ \A i \in DOMAIN minis : i # L => minis'[i] = minis[i]
    BY <1>4, <2>2, Lengths DEF Accept, Mini
  <2>4. \A n \in DOMAIN msgList : minis'[msgList[n].id] = minis[msgList[n].id]
    BY <2>2, <2>3
  <2>5. UNCHANGED <<msgList, up, down, pc, asked, here, main>>
    BY <1>4 DEF Accept, shells, objects
  <2>6. Asking(c)' <=> Asking(c)
    BY <2>4, <2>5 DEF Asking
  <2>7. /\ DOMAIN backlog = 1..Len(backlog) /\ Len(backlog) \in Nat \ {0}
        /\ DOMAIN backlog' = 1..(Len(backlog) - 1) /\ Head(backlog) = backlog[1]
        /\ \A n \in DOMAIN backlog' : backlog'[n] = backlog[n + 1]
    BY <1>4, <2>1, First, Lengths DEF Accept
  <2>8. \A n, m \in DOMAIN backlog : backlog[n] = c /\ backlog[m] = c => n = m
    BY <1>1 DEF OneConnection
  <2>9. /\ \A n, m \in DOMAIN backlog' : backlog'[n] = c /\ backlog'[m] = c => n = m
        /\ \A n \in DOMAIN backlog' : backlog'[n] = c => backlog[n + 1] = c
    <3>1. \A n \in DOMAIN backlog' : n + 1 \in DOMAIN backlog /\ n \in Nat
      BY <2>7
    <3> QED
      BY <2>7, <2>8, <3>1
  <2>10. \A n, m \in DOMAIN msgList :
           minis'[msgList[n].id].conn = c /\ minis'[msgList[m].id].conn = c => n = m
    BY <1>1, <2>4 DEF OneMessage
  <2>11. CASE Head(backlog) # c
    <3>1. \A i \in DOMAIN minis' : minis'[i].conn = c =>
            i \in DOMAIN minis /\ minis[i].conn = c /\ minis'[i].cwd = minis[i].cwd
      BY <2>3, <2>11
    <3>2. \A n \in DOMAIN backlog' : backlog'[n] = c => n + 1 \in DOMAIN backlog
      BY <2>7
    <3> QED
      BY <2>4, <2>5, <2>9, <2>10, <3>1, <3>2, OwnKept
  <2>12. CASE Head(backlog) = c
    <3>1. ~Accepted(c) /\ here[c] = Root /\ pc[c] # "off"
      BY <1>1, <2>7, <2>12 DEF OneConnection
    <3>2. \A i \in DOMAIN minis' : minis'[i].conn = c => i = L
      BY <2>3, <3>1 DEF Accepted
    <3>3. \A n \in DOMAIN backlog' : backlog'[n] # c
      BY <2>7, <2>8, <2>12
    <3>4. OneConnection(c)'
      BY <2>5, <3>1, <3>2, <3>3 DEF OneConnection
    <3>5. OneMessage(c)'
      BY <1>1, <2>4, <2>5, <2>6 DEF OneMessage
    <3>6. OwnCwd(c)'
      BY <2>3, <2>5, <3>1, <3>2 DEF OwnCwd, InCwd
    <3> QED
      BY <3>4, <3>5, <3>6 DEF Own
  <2> QED
    BY <2>11, <2>12
<1> QED
  BY <1>3, <1>4

LEMMA OwnEnds ==
  ASSUME IInv, NEW c \in Clients,
         WakeUp \/ DeleteServer \/ \E i \in DOMAIN minis : PollAborts(i)
  PROVE  Own(c)'
<1> USE DEF IInv
<1>1. OneConnection(c) /\ OneMessage(c)
  BY DEF Own
<1>2. c # Wakeup /\ Wakeup \in Conns
  BY RemoteAssumption DEF Conns
<1>3. CASE WakeUp
  <2>1. UNCHANGED <<minis, msgList, up, down, pc, asked, here>> /\ main' \notin Serving
    BY <1>3 DEF WakeUp, Serving, shells, objects
  <2>2. CASE backlog' = backlog
    <3>1. UNCHANGED <<minis, msgList, backlog, up, down, pc, asked, here>>
      BY <2>1, <2>2
    <3> QED
      BY <2>1, <3>1, OwnFewer
  <2>3. CASE backlog' = Append(backlog, Wakeup)
    <3> DEFINE L == Len(backlog)
    <3>1. /\ backlog' \in Seq(Conns) /\ Len(backlog') = L + 1
          /\ \A n \in 1..L : backlog'[n] = backlog[n]
          /\ backlog'[L + 1] = Wakeup
      BY <1>2, <2>3, AppendProperties DEF TypeOK
    <3>2. DOMAIN backlog' = 1..(L + 1) /\ DOMAIN backlog = 1..L /\ L \in Nat
      BY <3>1, LenProperties, Lengths
    <3>3. \A n \in DOMAIN backlog' : backlog'[n] = c =>
            n \in DOMAIN backlog /\ backlog[n] = c
      BY <1>2, <3>1, <3>2
    <3>4. \A n, m \in DOMAIN backlog' : backlog'[n] = c /\ backlog'[m] = c => n = m
      BY <1>1, <3>3 DEF OneConnection
    <3>5. \A n, m \in DOMAIN msgList :
            minis[msgList[n].id].conn = c /\ minis[msgList[m].id].conn = c => n = m
      BY <1>1 DEF OneMessage
    <3> QED
      BY <2>1, <3>3, <3>4, <3>5, OwnKept
  <2> QED
    BY <1>3, <2>2, <2>3 DEF WakeUp
<1>4. CASE DeleteServer \/ \E i \in DOMAIN minis : PollAborts(i)
  <2>1. minis' = <<>> /\ msgList' = <<>> /\ backlog' = <<>>
    BY <1>4 DEF DeleteServer, PollAborts, CloseAll
  <2>2. DOMAIN minis' = {} /\ DOMAIN msgList' = {} /\ DOMAIN backlog' = {}
    BY <2>1
  <2>3. UNCHANGED <<up, down, pc, asked, here>> /\ main' \notin Serving
    BY <1>4 DEF DeleteServer, PollAborts, Serving, shells, objects
  <2> QED
    BY <2>2, <2>3, OwnKept
<1> QED
  BY <1>3, <1>4

(* A message of c goes from its connection into the msgList, where its     *)
(* answer will be looked for by the id; a command is answered at once or   *)
(* not at all.                                                             *)
LEMMA OwnReads ==
  ASSUME IInv, NEW c \in Clients, NEW i \in DOMAIN minis, PollReads(i)
  PROVE  Own(c)'
<1> USE DEF IInv
<1> DEFINE d == minis[i].conn
           M == Len(msgList)
<1>0. Takes(i) /\ Data(d)
  <2>1. Takes(i)
    BY DEF PollReads, PollQueues, PollAnswers, PollIgnores
  <2> QED
    BY <2>1 DEF Takes
<1>1. OneConnection(c) /\ OneMessage(c) /\ OwnCwd(c) /\ Shape
  BY DEF Own
<1>2. d \in Clients /\ up[d] # <<>> /\ OneConnection(d) /\ OneMessage(d)
  BY <1>0 DEF Data, Own
<1>3. up[d] = <<asked[d]>> /\ down[d] = <<>> /\ ~Asking(d)
      /\ pc[d] \notin {"off", "greet", "idle"}
  BY <1>2 DEF OneMessage
<1>4. Text(i) = asked[d] /\ Tail(up[d]) = <<>>
  BY <1>3 DEF Text
<1>5. UNCHANGED <<minis, backlog, pc, asked, here>>
      /\ main \in Serving /\ main' \in Serving
  BY <1>0 DEF Takes, Polling, Serving, shells, objects
<1>6. up'[d] = <<>> /\ \A e \in Clients : e # d => up'[e] = up[e]
  BY <1>0, <1>2, <1>4 DEF Takes, TypeOK
<1>7. \A n, m \in DOMAIN backlog : backlog[n] = c /\ backlog[m] = c => n = m
  BY <1>1 DEF OneConnection
<1>8. \A n, m \in DOMAIN msgList :
        minis[msgList[n].id].conn = c /\ minis[msgList[m].id].conn = c => n = m
  BY <1>1 DEF OneMessage
<1>9. Accepted(d) /\ \A n \in DOMAIN backlog : backlog[n] # d
  BY <1>2 DEF OneConnection, Accepted
<1>10. CASE msgList' = msgList /\ down' = [down EXCEPT ![d] = down'[d]]
                               /\ (down'[d] # <<>> => Len(down'[d]) = 1)
  <2>1. \A e \in Clients : e # d => down'[e] = down[e]
    BY <1>2, <1>10 DEF TypeOK
  <2>2. CASE c # d
    BY <1>5, <1>6, <1>7, <1>8, <1>10, <2>1, <2>2, OwnKept
  <2>3. CASE c = d
    <3>1. Asking(c)' <=> Asking(c)
      BY <1>5, <1>10 DEF Asking
    <3>2. OneConnection(c)'
      BY <1>1, <1>5, <1>9, <2>3 DEF OneConnection, Accepted
    <3>3. OneMessage(c)'
      BY <1>1, <1>3, <1>5, <1>6, <1>8, <1>10, <2>3, <3>1 DEF OneMessage
    <3>4. OwnCwd(c)'
      BY <1>1, <1>5 DEF OwnCwd, InCwd
    <3> QED
      BY <3>2, <3>3, <3>4 DEF Own
  <2> QED
    BY <2>2, <2>3
<1>11. CASE PollAnswers(i)
  <2> DEFINE r == [text |-> Text(i), dir |-> None]
  <2>1. msgList' = msgList /\ down' = [down EXCEPT ![d] = Append(down[d], r)]
    BY <1>11 DEF PollAnswers
  <2>2. down'[d] = <<r>>
    BY <1>2, <1>3, <2>1 DEF TypeOK
  <2>3. Len(<<r>>) = 1
    OBVIOUS
  <2>4. down' = [down EXCEPT ![d] = down'[d]]
    BY <1>2, <2>1 DEF TypeOK
  <2> QED
    BY <1>10, <2>1, <2>2, <2>3, <2>4
<1>12. CASE PollIgnores(i)
  <2>1. msgList' = msgList /\ down' = down
    BY <1>12 DEF PollIgnores
  <2>2. down' = [down EXCEPT ![d] = down'[d]] /\ down'[d] = <<>>
    BY <1>2, <1>3, <2>1 DEF TypeOK
  <2> QED
    BY <1>10, <2>1, <2>2
<1>13. CASE PollQueues(i)
  <2>1. down' = down /\ msgList' = Append(msgList, [id |-> i, text |-> asked[d]])
    BY <1>4, <1>13 DEF PollQueues
  <2>2. [id |-> i, text |-> asked[d]] \in [id : Nat \ {0}, text : Messages]
    BY <1>4, <1>13, Lengths DEF PollQueues
  <2>3. /\ msgList' \in Seq([id : Nat \ {0}, text : Messages])
        /\ Len(msgList') = M + 1
        /\ \A n \in 1..M : msgList'[n] = msgList[n]
        /\ msgList'[M + 1] = [id |-> i, text |-> asked[d]]
    BY <2>1, <2>2, AppendProperties DEF TypeOK
  <2>4. DOMAIN msgList' = 1..(M + 1) /\ DOMAIN msgList = 1..M /\ M \in Nat
    BY <2>3, LenProperties, Lengths
  <2>5. CASE c # d
    <3>1. \A n \in DOMAIN msgList' : minis[msgList'[n].id].conn = c =>
            n \in DOMAIN msgList /\ msgList'[n] = msgList[n]
      BY <2>3, <2>4, <2>5
    <3>2. \A n, m \in DOMAIN msgList' :
            minis[msgList'[n].id].conn = c /\ minis[msgList'[m].id].conn = c => n = m
      BY <1>8, <3>1
    <3> QED
      BY <1>5, <1>6, <1>7, <2>1, <2>5, <3>1, <3>2, OwnKept
  <2>6. CASE c = d
    <3>1. OneConnection(c)'
      BY <1>1, <1>5, <1>9, <2>1, <2>6 DEF OneConnection, Accepted
    <3>2. \A n \in DOMAIN msgList' : minis'[msgList'[n].id].conn = c => n = M + 1
      BY <1>3, <1>5, <2>3, <2>4, <2>6 DEF Asking
    <3>3. OneMessage(c)'
      BY <1>1, <1>3, <1>5, <1>6, <2>1, <2>3, <2>6, <3>2 DEF OneMessage
    <3>4. OwnCwd(c)'
      BY <1>1, <1>5 DEF OwnCwd, InCwd
    <3> QED
      BY <3>1, <3>3, <3>4 DEF Own
  <2> QED
    BY <2>5, <2>6
<1> QED
  BY <1>11, <1>12, <1>13 DEF PollReads

(* After a script every client is where its own scripts or the deletion of *)
(* its object put it, and so is the context of its connection.             *)
LEMMA OwnRun ==
  ASSUME IInv, NEW c \in Clients,
         NEW m \in [id : Nat \ {0}, text : Messages], m.id \in DOMAIN minis, RunMsg(m),
         NEW i \in DOMAIN minis, minis[i].conn = c, here[c] = InCwd(i)
  PROVE  /\ here'[c] = InCwd(i)'
         /\ i = m.id => here'[c] = CwdAfter(m)
<1>1. \A j \in DOMAIN minis :
        minis'[j].cwd = IF j = m.id THEN CwdAfter(m)
                        ELSE IF minis[j].cwd \in Deleted(m.text) THEN None ELSE minis[j].cwd
  BY RunTypes
<1>2. here'[c] = IF c = minis[m.id].conn THEN After(m.text, here[c])
                 ELSE IF here[c] \in Deleted(m.text) THEN Root ELSE here[c]
  BY DEF RunMsg
<1>3. CASE i = m.id
  <2>1. here'[c] = CwdAfter(m)
    BY <1>2, <1>3 DEF CwdAfter
  <2>2. CwdAfter(m) \in Dirs
    BY RunTypes
  <2> QED
    BY <1>1, <1>3, <2>1, <2>2, RemoteAssumption DEF InCwd
<1>4. CASE i # m.id
  <2>1. c # minis[m.id].conn
    BY <1>4 DEF IInv, Own, OneConnection
  <2>2. Root \notin Deleted(m.text) /\ None \notin Deleted(m.text)
    <3>1. m.text \in Messages
      OBVIOUS
    <3>2. Root \in Dirs
      BY RemoteAssumption
    <3> QED
      BY <3>1, <3>2, Ran
  <2> QED
    BY <1>1, <1>2, <1>4, <2>1, <2>2 DEF InCwd
<1> QED
  BY <1>3, <1>4

LEMMA OwnAnswer ==
  ASSUME IInv, NEW c \in Clients, Answer
  PROVE  Own(c)'
<1> USE DEF IInv
<1> DEFINE m == Head(msgList)
           d == minis[m.id].conn
           N == Len(msgList)
<1>1. OneConnection(c) /\ OneMessage(c) /\ OwnCwd(c) /\ Shape
  BY DEF Own
<1>2. /\ N \in Nat \ {0} /\ m = msgList[1] /\ DOMAIN msgList = 1..N
      /\ DOMAIN msgList' = 1..(N - 1)
      /\ \A n \in 1..(N - 1) : msgList'[n] = msgList[n + 1]
  BY First, Lengths DEF Answer, TypeOK
<1>3. m.id \in DOMAIN minis /\ m \in [id : Nat \ {0}, text : Messages]
  BY Next1
<1>4. \/ RunMsg(m) /\ AnswerMsg(m, CwdAfter(m))
      \/ AnswerMsg(m, None) /\ UNCHANGED <<minis, objects>>
  BY DEF Answer
<1>5. UNCHANGED <<backlog, up, pc, asked>> /\ main' = main /\ main \in Serving
  BY DEF Answer, Serving, threads, shells
<1>6. \A n, k \in DOMAIN backlog : backlog[n] = c /\ backlog[k] = c => n = k
  BY <1>1 DEF OneConnection
<1>7. /\ DOMAIN minis' = DOMAIN minis
      /\ \A i \in DOMAIN minis : minis'[i].conn = minis[i].conn
      /\ \A i \in DOMAIN minis : minis[i].conn = c => here'[c] = InCwd(i)'
  <2>1. CASE RunMsg(m)
    <3>1. minis' \in [1..Len(minis) -> Mini]
          /\ \A i \in DOMAIN minis : minis'[i].conn = minis[i].conn
      BY <1>3, <2>1, RunTypes
    <3>2. \A i \in DOMAIN minis : minis[i].conn = c => here'[c] = InCwd(i)'
      BY <1>1, <1>3, <1>5, <2>1, OwnRun DEF OwnCwd
    <3> QED
      BY <3>1, <3>2, Lengths
  <2>2. CASE UNCHANGED <<minis, objects>>
    BY <1>1, <1>5, <2>2 DEF OwnCwd, InCwd, objects
  <2> QED
    BY <1>4, <2>1, <2>2
<1>8. \A n \in DOMAIN msgList' :
        /\ n + 1 \in DOMAIN msgList /\ n \in Nat /\ msgList'[n] = msgList[n + 1]
        /\ minis'[msgList'[n].id].conn = minis[msgList[n + 1].id].conn
  BY <1>1, <1>2, <1>7 DEF Shape
<1>9. \A n, k \in DOMAIN msgList' :
        minis'[msgList'[n].id].conn = c /\ minis'[msgList'[k].id].conn = c => n = k
  BY <1>1, <1>8 DEF OneMessage
<1>10. CASE d # c
  <2>1. down'[c] = down[c]
    BY <1>4, <1>10 DEF AnswerMsg, TypeOK
  <2>2. here'[c] \in {here[c], Root}
    BY <1>4, <1>10 DEF RunMsg, objects
  <2> QED
    BY <1>5, <1>6, <1>7, <1>8, <1>9, <2>1, <2>2, OwnStays
<1>11. CASE d = c
  <2>1. 1 \in DOMAIN msgList /\ Asking(c)
    BY <1>2, <1>11 DEF Asking
  <2>2. up[c] = <<>> /\ down[c] = <<>> /\ pc[c] \notin {"off", "greet", "idle"}
    BY <1>1, <2>1 DEF OneMessage
  <2>3. Len(down'[c]) = 1
    <3>1. ASSUME NEW dir, AnswerMsg(m, dir)
          PROVE  down'[c] = <<[text |-> m.text, dir |-> dir]>>
      <4>1. down' = [down EXCEPT ![c] = Append(<<>>, [text |-> m.text, dir |-> dir])]
        BY <1>11, <2>2, <3>1 DEF AnswerMsg
      <4> QED
        BY <4>1 DEF TypeOK
    <3>2. \A r : Len(<<r>>) = 1
      OBVIOUS
    <3>3. \E dir : AnswerMsg(m, dir)
      BY <1>4
    <3> QED
      BY <3>1, <3>2, <3>3
  <2>4. ~Asking(c)'
    <3> SUFFICES ASSUME NEW n \in DOMAIN msgList', minis'[msgList'[n].id].conn = c
                 PROVE  FALSE
      BY DEF Asking
    <3>1. n + 1 = 1
      BY <1>1, <1>2, <1>8, <1>11, <2>1 DEF OneMessage
    <3> QED
      BY <1>2, <3>1
  <2>5. Accepted(c)
    BY <1>3, <1>11 DEF Accepted
  <2>6. \A n \in DOMAIN backlog : backlog[n] # c
    BY <1>1, <2>5 DEF OneConnection
  <2>7. OneConnection(c)'
    BY <1>1, <1>5, <1>7, <2>2, <2>6 DEF OneConnection, Accepted
  <2>8. OneMessage(c)'
    BY <1>5, <1>9, <2>2, <2>3, <2>4 DEF OneMessage, Asking
  <2>9. OwnCwd(c)'
    BY <1>7 DEF OwnCwd
  <2> QED
    BY <2>7, <2>8, <2>9 DEF Own
<1> QED
  BY <1>10, <1>11

LEMMA OwnShell ==
  ASSUME IInv, NEW c \in Clients, NEW d \in Clients, Shell(d)
  PROVE  Own(c)'
<1> USE DEF IInv
<1>1. OneConnection(c) /\ OneMessage(c) /\ OwnCwd(c)
  BY DEF Own
<1>2. UNCHANGED <<minis, msgList, main>> /\ (backlog' = backlog \/ Connect(d))
  BY DEF Shell, Connect, Greet, SendMsg, Say, Receive, Leave, threads
<1>3. /\ (Asking(c)' <=> Asking(c)) /\ (Accepted(c)' <=> Accepted(c))
      /\ \A i \in DOMAIN minis : InCwd(i)' = InCwd(i)
  BY <1>2 DEF Asking, Accepted, InCwd
<1>4. \A n, m \in DOMAIN msgList :
        minis[msgList[n].id].conn = c /\ minis[msgList[m].id].conn = c => n = m
  BY <1>1 DEF OneMessage
<1>5. \A n, m \in DOMAIN backlog : backlog[n] = c /\ backlog[m] = c => n = m
  BY <1>1 DEF OneConnection
<1>6. CASE Connect(d)
  <2> DEFINE L == Len(backlog)
  <2>1. /\ backlog' \in Seq(Conns) /\ Len(backlog') = L + 1
        /\ \A n \in 1..L : backlog'[n] = backlog[n]
        /\ backlog'[L + 1] = d
    BY <1>6, AppendProperties DEF TypeOK, Connect, Conns
  <2>2. DOMAIN backlog' = 1..(L + 1) /\ DOMAIN backlog = 1..L /\ L \in Nat
    BY <2>1, LenProperties, Lengths
  <2>3. UNCHANGED <<up, down, asked, here>> /\ pc[d] = "off" /\ pc'[d] = "greet"
        /\ \A e \in Clients : e # d => pc'[e] = pc[e]
    BY <1>6 DEF Connect, TypeOK, objects
  <2>4. CASE c # d
    <3>1. \A n \in DOMAIN backlog' : backlog'[n] = c =>
            n \in DOMAIN backlog /\ backlog[n] = c
      BY <2>1, <2>2, <2>4
    <3>2. \A n, m \in DOMAIN backlog' : backlog'[n] = c /\ backlog'[m] = c => n = m
      BY <1>5, <3>1
    <3> QED
      BY <1>2, <1>3, <1>4, <2>3, <2>4, <3>1, <3>2, OwnKept
  <2>5. CASE c = d
    <3>1. ~Accepted(c) /\ here[c] = Root /\ down[c] = <<>>
          /\ \A n \in DOMAIN backlog : backlog[n] # c
      BY <1>1, <2>3, <2>5 DEF OneConnection, OneMessage
    <3>2. \A n \in DOMAIN backlog' : backlog'[n] = c => n = L + 1
      BY <2>1, <2>2, <3>1
    <3>3. OneConnection(c)'
      BY <1>1, <1>2, <1>3, <2>3, <2>5, <3>1, <3>2 DEF OneConnection
    <3>4. OneMessage(c)'
      BY <1>1, <1>2, <1>3, <2>3, <2>5 DEF OneMessage
    <3>5. OwnCwd(c)'
      BY <1>1, <1>2, <1>3, <2>3 DEF OwnCwd
    <3> QED
      BY <3>3, <3>4, <3>5 DEF Own
  <2> QED
    BY <2>4, <2>5
<1>7. CASE ~Connect(d) /\ c # d
  <2>1. /\ up'[c] = up[c] /\ down'[c] = down[c] /\ pc'[c] = pc[c]
        /\ asked'[c] = asked[c] /\ here'[c] = here[c]
    BY <1>7 DEF Shell, Greet, SendMsg, Say, Receive, Leave, TypeOK, objects
  <2> QED
    BY <1>2, <1>3, <1>4, <1>5, <1>7, <2>1, OwnKept
<1>8. CASE ~Connect(d) /\ c = d
  <2>1. backlog' = backlog
    BY <1>2, <1>8
  <2>2. CASE Greet(c)
    <3>1. up[c] = <<>> /\ down[c] = <<>> /\ ~Asking(c)
      BY <1>1, <2>2 DEF Greet, OneMessage
    <3>2. up'[c] = <<Handshake>> /\ down'[c] = <<>> /\ asked'[c] = Handshake
          /\ pc'[c] = "wait" /\ here' = here
      BY <2>2, <3>1 DEF Greet, Say, TypeOK, objects
    <3>3. pc[c] = "greet"
      BY <2>2 DEF Greet
    <3>4. OneConnection(c)'
      BY <1>1, <1>2, <1>3, <2>1, <3>2 DEF OneConnection
    <3>5. OneMessage(c)'
      BY <1>1, <1>2, <1>3, <3>1, <3>2 DEF OneMessage, Asking
    <3>6. OwnCwd(c)'
      BY <1>1, <1>2, <1>3, <3>2 DEF OwnCwd
    <3> QED
      BY <3>4, <3>5, <3>6 DEF Own
  <2>3. ASSUME NEW text \in Asks[c], SendMsg(c, text) PROVE Own(c)'
    <3>1. up[c] = <<>> /\ down[c] = <<>> /\ ~Asking(c) /\ pc[c] = "idle"
      BY <1>1, <2>3 DEF SendMsg, OneMessage
    <3>2. up'[c] = <<text>> /\ down'[c] = <<>> /\ asked'[c] = text
          /\ pc'[c] = "wait" /\ here' = here
      BY <2>3, <3>1 DEF SendMsg, Say, TypeOK, objects
    <3>4. \A n \in DOMAIN backlog : backlog[n] # c
      BY <1>1, <3>1 DEF OneConnection
    <3>5. OneConnection(c)'
      BY <1>1, <1>2, <1>3, <2>1, <3>2, <3>4 DEF OneConnection
    <3>6. \A n \in DOMAIN msgList : minis[msgList[n].id].conn # c
      BY <3>1 DEF Asking
    <3>7. OneMessage(c)'
      BY <1>2, <1>3, <3>1, <3>2, <3>6 DEF OneMessage
    <3>8. OwnCwd(c)'
      BY <1>1, <1>2, <1>3, <3>1, <3>2 DEF OwnCwd
    <3> QED
      BY <3>5, <3>7, <3>8 DEF Own
  <2>4. CASE Receive(c)
    <3>1. down[c] # <<>> /\ pc[c] = "wait" /\ pc'[c] = "idle"
          /\ UNCHANGED <<up, asked, here>> /\ down'[c] = Tail(down[c])
      BY <2>4 DEF Receive, TypeOK, objects
    <3>2. Len(down[c]) = 1 /\ ~Asking(c) /\ up[c] = <<>>
      BY <1>1, <3>1 DEF OneMessage
    <3>3. down'[c] = <<>>
      <4>1. down[c] \in Seq(Replies)
        BY DEF TypeOK
      <4>2. Tail(down[c]) \in Seq(Replies) /\ Len(Tail(down[c])) = 0
        BY <3>1, <3>2, <4>1, First
      <4> QED
        BY <3>1, <4>2, EmptySeq
    <3>4. \A n \in DOMAIN backlog : backlog[n] # c
      BY <1>1, <3>1 DEF OneConnection
    <3>5. OneConnection(c)'
      BY <1>1, <1>2, <1>3, <2>1, <3>1, <3>4 DEF OneConnection
    <3>6. OneMessage(c)'
      BY <1>1, <1>2, <1>3, <3>1, <3>2, <3>3 DEF OneMessage
    <3>7. OwnCwd(c)'
      BY <1>1, <1>2, <1>3, <3>1 DEF OwnCwd
    <3> QED
      BY <3>5, <3>6, <3>7 DEF Own
  <2>5. CASE Leave(c)
    <3>1. pc'[c] = "gone" /\ UNCHANGED <<up, down, asked, here>>
      BY <2>5 DEF Leave, TypeOK, objects
    <3>2. OneConnection(c)'
      BY <1>1, <1>2, <1>3, <2>1, <3>1 DEF OneConnection
    <3>3. OneMessage(c)'
      BY <1>1, <1>2, <1>3, <3>1 DEF OneMessage
    <3>4. OwnCwd(c)'
      BY <1>1, <1>2, <1>3, <3>1 DEF OwnCwd
    <3> QED
      BY <3>2, <3>3, <3>4 DEF Own
  <2> QED
    BY <1>8, <2>2, <2>3, <2>4, <2>5 DEF Shell
<1> QED
  BY <1>6, <1>7, <1>8

LEMMA OwnNext == ASSUME IInv, [Next]_vars, NEW c \in Clients PROVE Own(c)'
BY OwnQuiet, OwnCloses, OwnListener, OwnEnds, OwnReads, OwnAnswer, OwnShell
   DEF Next, MainStep, Listener

-----------------------------------------------------------------------------
(* The list neither shrinks nor changes where the listener works.          *)
LEMMA ShapeKept ==
  ASSUME IInv, DOMAIN minis' = DOMAIN minis, Len(minis') = Len(minis),
         UNCHANGED msgList,
         main' \in {"deleting", "done"} => lis' = "ended",
         lis' \in {"listen", "accept", "nonblock", "check"} => Len(minis) > 0,
         lis' \in {"listen", "accept"} =>
           /\ lis \in {"listen", "accept"}
           /\ minis'[Len(minis)].conn = NoConn /\ minis'[Len(minis)].cwd = Root
  PROVE  Shape'
BY DEF IInv, Shape

LEMMA ShapeQuiet ==
  ASSUME IInv,
         \/ ThreadStarted \/ Listen \/ While \/ ThreadHarakiri \/ Open \/ Opened
         \/ Trigger \/ EndPoll \/ EndTrigger \/ Join \/ WakeUp \/ UNCHANGED vars
         \/ \E i \in DOMAIN minis : PollNothing(i) \/ PollBlocks(i)
         \/ \E c \in Clients : Shell(c)
  PROVE  Shape'
<1> USE DEF IInv, Shape
<1>1. CASE ThreadStarted \/ Listen \/ While \/ ThreadHarakiri
  BY <1>1 DEF ThreadStarted, Listen, While, ThreadHarakiri
<1>2. CASE Open \/ Opened \/ Trigger \/ EndPoll \/ EndTrigger \/ Join \/ WakeUp
  BY <1>2 DEF Open, Opened, Trigger, EndPoll, EndTrigger, Join, WakeUp
<1>3. CASE UNCHANGED vars
  BY <1>3 DEF vars
<1>4. ASSUME NEW i \in DOMAIN minis, PollNothing(i) \/ PollBlocks(i) PROVE Shape'
  BY <1>4 DEF PollNothing, PollBlocks
<1>5. ASSUME NEW c \in Clients, Shell(c) PROVE Shape'
  <2>1. UNCHANGED <<main, lis, minis, msgList>>
    BY <1>5 DEF Shell, Connect, Greet, SendMsg, Say, Receive, Leave, threads
  <2> QED
    BY <2>1
<1> QED
  BY <1>1, <1>2, <1>3, <1>4, <1>5

LEMMA ShapeChanges ==
  ASSUME IInv,
         \/ CreateMiniServer \/ Accept \/ SetNonBlocking \/ Check
         \/ Close \/ Answer \/ DeleteServer
         \/ \E i \in DOMAIN minis : PollReads(i) \/ PollAborts(i) \/ PollEnds(i)
  PROVE  Shape'
<1> USE DEF IInv
<1>1. CASE CreateMiniServer
  <2> DEFINE L == Len(minis)
  <2>1. [conn |-> NoConn, blocking |-> FALSE, cwd |-> Root] \in Mini
    BY RemoteAssumption DEF Mini
  <2>2. minis' \in Seq(Mini) /\ Len(minis') = L + 1
        /\ minis'[L + 1] = [conn |-> NoConn, blocking |-> FALSE, cwd |-> Root]
    BY <1>1, <2>1, AppendProperties DEF TypeOK, CreateMiniServer
  <2>3. DOMAIN minis' = 1..(L + 1) /\ DOMAIN minis = 1..L /\ L \in Nat
    BY <2>2, LenProperties, Lengths
  <2>4. \A n \in DOMAIN msgList : msgList[n].id \in DOMAIN minis' /\ msgList[n].id # L + 1
    BY <2>3 DEF Shape
  <2>5. UNCHANGED <<msgList, main>> /\ lis = "create"
    BY <1>1 DEF CreateMiniServer
  <2> QED
    BY <2>2, <2>3, <2>4, <2>5 DEF Shape
<1>2. CASE Accept \/ SetNonBlocking
  <2>1. minis' \in [1..Len(minis) -> Mini]
    <3>1. CASE SetNonBlocking
      BY <3>1, Lengths DEF SetNonBlocking, Mini
    <3>2. CASE Accept
      <4>1. Head(backlog) \in Conns
        BY <3>2, First DEF TypeOK, Accept
      <4> QED
        BY <3>2, <4>1, Lengths DEF Accept, Mini
    <3> QED
      BY <1>2, <3>1, <3>2
  <2>2. Len(minis') = Len(minis) /\ DOMAIN minis' = DOMAIN minis
    BY <2>1, MinisKept, Lengths
  <2> QED
    BY <1>2, <2>2, ShapeKept DEF Accept, SetNonBlocking, Shape
<1>3. ASSUME NEW ids, CloseSockets(ids)
      PROVE  Len(minis') = Len(minis) /\ DOMAIN minis' = DOMAIN minis
             /\ \A i \in DOMAIN minis :
                  minis[i].conn = NoConn /\ minis[i].cwd = Root =>
                    minis'[i].conn = NoConn /\ minis'[i].cwd = Root
  <2>1. minis' \in [1..Len(minis) -> Mini]
    BY <1>3, TypeClosed
  <2>2. ASSUME NEW i \in DOMAIN minis
        PROVE  /\ [minis[i] EXCEPT !.conn = NoConn].conn = NoConn
               /\ [minis[i] EXCEPT !.conn = NoConn].cwd = minis[i].cwd
    BY Lengths DEF Mini
  <2> QED
    BY <1>3, <2>1, <2>2, MinisKept, Lengths DEF CloseSockets
<1>4. CASE Check
  <2>1. Len(minis') = Len(minis) /\ DOMAIN minis' = DOMAIN minis
    BY <1>3, <1>4 DEF Check
  <2> QED
    BY <1>4, <2>1, ShapeKept DEF Check, Shape
<1>5. ASSUME NEW i \in DOMAIN minis, PollEnds(i) PROVE Shape'
  <2>1. Len(minis') = Len(minis) /\ DOMAIN minis' = DOMAIN minis
        /\ \A j \in DOMAIN minis :
             minis[j].conn = NoConn /\ minis[j].cwd = Root =>
               minis'[j].conn = NoConn /\ minis'[j].cwd = Root
    BY <1>3, <1>5 DEF PollEnds
  <2>2. lis \in {"listen", "accept"} => Len(minis) \in DOMAIN minis
    BY Lengths DEF Shape
  <2> QED
    BY <1>5, <2>1, <2>2, ShapeKept DEF PollEnds, Shape
<1>6. CASE Close
  <2>1. minis' \in [1..Len(minis) -> Mini]
        /\ \A i \in DOMAIN minis : minis'[i].conn = minis[i].conn /\ minis'[i].cwd = Root
    <3>1. Root \in Dirs
      BY RemoteAssumption
    <3>2. \A i \in 1..Len(minis) :
            LET r == [minis[i] EXCEPT !.cwd = Root]
            IN  r \in Mini /\ r.conn = minis[i].conn /\ r.cwd = Root
      BY <3>1, Lengths DEF Mini
    <3> QED
      BY <1>6, <3>2, Lengths DEF Close
  <2>2. Len(minis') = Len(minis) /\ DOMAIN minis' = DOMAIN minis
    BY <2>1, MinisKept, Lengths
  <2>3. lis \in {"listen", "accept"} => Len(minis) \in DOMAIN minis
    BY Lengths DEF Shape
  <2> QED
    BY <1>6, <2>1, <2>2, <2>3, ShapeKept DEF Close, Shape
<1>7. CASE Answer
  <2> DEFINE m == Head(msgList)
             N == Len(msgList)
  <2>1. /\ N \in Nat \ {0} /\ m = msgList[1] /\ DOMAIN msgList = 1..N
        /\ DOMAIN msgList' = 1..(N - 1)
        /\ \A n \in 1..(N - 1) : msgList'[n] = msgList[n + 1]
    BY <1>7, First, Lengths DEF Answer, TypeOK
  <2>2. m.id \in DOMAIN minis /\ m \in [id : Nat \ {0}, text : Messages]
    BY <1>7, Next1
  <2>3. RunMsg(m) \/ minis' = minis
    BY <1>7 DEF Answer
  <2>4. /\ minis' \in [1..Len(minis) -> Mini]
        /\ \A i \in DOMAIN minis : i # m.id /\ minis[i].conn = NoConn /\ minis[i].cwd = Root
                                  => minis'[i].conn = NoConn /\ minis'[i].cwd = Root
    <3>1. CASE RunMsg(m)
      <4>1. Root \in Dirs /\ m.text \in Messages
        BY <2>2, RemoteAssumption
      <4>2. Root \notin Deleted(m.text)
        BY <4>1, Ran
      <4> QED
        BY <2>2, <3>1, <4>2, RunTypes
    <3>2. CASE minis' = minis
      BY <3>2, Lengths
    <3> QED
      BY <2>3, <3>1, <3>2
  <2>5. Len(minis') = Len(minis) /\ DOMAIN minis' = DOMAIN minis
    BY <2>4, MinisKept, Lengths
  <2>6. UNCHANGED <<main, lis>>
    BY <1>7 DEF Answer, threads
  <2>7. \A n \in DOMAIN msgList' : n + 1 \in DOMAIN msgList
                                   /\ msgList'[n] = msgList[n + 1]
    BY <2>1
  <2>8. 1 \in DOMAIN msgList
    BY <2>1
  <2>9. lis \in {"listen", "accept"} =>
          minis'[Len(minis)].conn = NoConn /\ minis'[Len(minis)].cwd = Root
    <3>1. lis \in {"listen", "accept"} => Len(minis) \in DOMAIN minis
      BY Lengths DEF Shape
    <3>2. lis \in {"listen", "accept"} => m.id # Len(minis)
      BY <2>1, <2>8 DEF Shape
    <3> QED
      BY <2>4, <3>1, <3>2 DEF Shape
  <2> QED
    BY <2>5, <2>6, <2>7, <2>9 DEF Shape
<1>8. ASSUME CloseAll, lis' = "ended" PROVE Shape'
  <2>1. minis' = <<>> /\ msgList' = <<>>
    BY <1>8 DEF CloseAll
  <2>2. DOMAIN msgList' = {}
    BY <2>1
  <2> QED
    BY <1>8, <2>1, <2>2 DEF Shape
<1>9. CASE DeleteServer
  <2>1. CloseAll /\ lis' = "ended"
    BY <1>9 DEF DeleteServer, Shape
  <2> QED
    BY <1>8, <2>1
<1>10. ASSUME NEW i \in DOMAIN minis, PollAborts(i) PROVE Shape'
  <2>1. CloseAll /\ lis' = "ended"
    BY <1>10 DEF PollAborts
  <2> QED
    BY <1>8, <2>1
<1>11. ASSUME NEW i \in DOMAIN minis, PollReads(i) PROVE Shape'
  <2> DEFINE c == minis[i].conn
             M == Len(msgList)
  <2>0. Takes(i) /\ Data(c)
    <3>1. Takes(i)
      BY <1>11 DEF PollReads, PollQueues, PollAnswers, PollIgnores
    <3> QED
      BY <3>1 DEF Takes
  <2>1. UNCHANGED <<lis, minis>> /\ main' = "poll" /\ c \in Clients
    BY <2>0 DEF Takes, Data
  <2>2. c # NoConn
    BY <2>1, RemoteAssumption
  <2>3. CASE msgList' = msgList
    BY <2>1, <2>3 DEF Shape
  <2>4. CASE PollQueues(i)
    <3>1. [id |-> i, text |-> Text(i)] \in [id : Nat \ {0}, text : Messages]
      BY <2>4, Lengths DEF PollQueues
    <3>2. msgList' = Append(msgList, [id |-> i, text |-> Text(i)])
      BY <2>4 DEF PollQueues
    <3>3. /\ msgList' \in Seq([id : Nat \ {0}, text : Messages])
          /\ Len(msgList') = M + 1
          /\ \A n \in 1..M : msgList'[n] = msgList[n]
          /\ msgList'[M + 1] = [id |-> i, text |-> Text(i)]
      BY <3>1, <3>2, AppendProperties DEF TypeOK
    <3>4. DOMAIN msgList' = 1..(M + 1) /\ DOMAIN msgList = 1..M /\ M \in Nat
      BY <3>3, LenProperties, Lengths
    <3>5. \A n \in DOMAIN msgList' :
            \/ n \in DOMAIN msgList /\ msgList'[n] = msgList[n]
            \/ msgList'[n].id = i
      BY <3>3, <3>4
    <3> QED
      BY <2>1, <2>2, <3>5 DEF Shape
  <2> QED
    BY <1>11, <2>3, <2>4 DEF PollReads, PollAnswers, PollIgnores
<1> QED
  BY <1>1, <1>2, <1>4, <1>5, <1>6, <1>7, <1>9, <1>10, <1>11

LEMMA InvNext == IInv /\ [Next]_vars => IInv'
<1> SUFFICES ASSUME IInv, [Next]_vars PROVE IInv'
  OBVIOUS
<1>1. TypeOK'
  BY TypeNext
<1>2. Shape'
  BY ShapeQuiet, ShapeChanges DEF Next, MainStep, Listener
<1>3. \A c \in Clients : Own(c)'
  BY OwnNext
<1> QED
  BY <1>1, <1>2, <1>3 DEF IInv

(* Only an answer fills down[c]: of a command from an empty queue, or of   *)
(* the message of c itself, in the place its context then is in.           *)
LEMMA MineReads ==
  ASSUME IInv, NEW c \in Clients, NEW i \in DOMAIN minis, PollReads(i),
         down'[c] # down[c]
  PROVE  down'[c] = <<AnswerTo(c)'>>
<1> USE DEF IInv
<1> DEFINE d == minis[i].conn
           r == [text |-> Text(i), dir |-> None]
<1>1. PollAnswers(i)
  BY DEF PollReads, PollQueues, PollIgnores
<1>2. Takes(i)
  BY <1>1 DEF PollAnswers
<1>3. Data(d) /\ asked' = asked
  BY <1>2 DEF Takes, shells
<1>4. d \in Clients /\ Text(i) = up[d][1] /\ up[d] # <<>>
  BY <1>3, Taken
<1>5. down' = [down EXCEPT ![d] = Append(down[d], r)]
  BY <1>1 DEF PollAnswers
<1>6. c = d
  BY <1>4, <1>5 DEF TypeOK
<1>7. up[c] = <<asked[c]>> /\ down[c] = <<>>
  BY <1>4, <1>6 DEF Own, OneMessage
<1>8. down'[c] = <<r>> /\ Text(i) = asked[c]
  BY <1>4, <1>5, <1>6, <1>7 DEF TypeOK
<1>9. asked[c] \notin Messages
  <2>1. asked[c].do \in {"handshake", "wrong port", "close"}
    BY <1>1, <1>8 DEF PollAnswers
  <2> QED
    BY <2>1 DEF Messages
<1> QED
  BY <1>3, <1>8, <1>9 DEF AnswerTo, IsScript

LEMMA MineAnswer ==
  ASSUME IInv, NEW c \in Clients, Answer, down'[c] # down[c]
  PROVE  down'[c] = <<AnswerTo(c)'>>
<1> USE DEF IInv
<1> DEFINE m == Head(msgList)
           d == minis[m.id].conn
<1>1. /\ m = msgList[1] /\ 1 \in DOMAIN msgList /\ m.id \in DOMAIN minis
      /\ m \in [id : Nat \ {0}, text : Messages]
  BY Next1
<1>2. asked' = asked /\ main \in Serving
  BY DEF Answer, shells, Serving
<1>3. ASSUME NEW dir, AnswerMsg(m, dir)
      PROVE  d = c /\ down'[c] = <<[text |-> asked[c], dir |-> dir]>> /\ m.text = asked[c]
  <2>1. d = c
    BY <1>3 DEF AnswerMsg, TypeOK
  <2>2. Asking(c)
    BY <1>1, <2>1 DEF Asking
  <2>3. m.text = asked[c] /\ down[c] = <<>>
    BY <1>1, <2>1, <2>2 DEF Own, OneMessage
  <2> QED
    BY <1>3, <2>1, <2>3 DEF AnswerMsg, TypeOK
<1>4. CASE m.text.do # "broken" /\ RunMsg(m) /\ AnswerMsg(m, CwdAfter(m))
  <2>1. d = c /\ down'[c] = <<[text |-> asked[c], dir |-> CwdAfter(m)]>> /\ m.text = asked[c]
    BY <1>3, <1>4
  <2>2. here[c] = InCwd(m.id)
    BY <1>1, <1>2, <2>1 DEF Own, OwnCwd
  <2>3. here'[c] = CwdAfter(m)
    BY <1>1, <1>4, <2>1, <2>2, OwnRun
  <2>4. IsScript(asked[c])
    BY <1>1, <1>4, <2>1 DEF IsScript
  <2> QED
    BY <1>2, <2>1, <2>3, <2>4 DEF AnswerTo, IsScript
<1>5. CASE m.text.do = "broken" /\ AnswerMsg(m, None)
  <2>1. down'[c] = <<[text |-> asked[c], dir |-> None]>> /\ m.text = asked[c]
    BY <1>3, <1>5
  <2>2. ~IsScript(asked[c])
    BY <1>5, <2>1 DEF IsScript
  <2> QED
    BY <1>2, <2>1, <2>2 DEF AnswerTo, IsScript
<1> QED
  BY <1>4, <1>5 DEF Answer

LEMMA MineShell ==
  ASSUME IInv, NEW c \in Clients, NEW d \in Clients, Shell(d),
         down'[c] # down[c]
  PROVE  down'[c] = <<>>
<1> USE DEF IInv
<1>1. Receive(d) /\ c = d
  BY DEF Shell, Connect, Greet, SendMsg, Say, Receive, Leave, TypeOK
<1>2. down[c] # <<>> /\ down'[c] = Tail(down[c])
  BY <1>1 DEF Receive, TypeOK
<1>3. Len(down[c]) = 1 /\ down[c] \in Seq(Replies)
  BY <1>2 DEF Own, OneMessage, TypeOK
<1>4. Tail(down[c]) \in Seq(Replies) /\ Len(Tail(down[c])) = 0
  BY <1>2, <1>3, First
<1> QED
  BY <1>2, <1>4, EmptySeq

LEMMA MineNext ==
  ASSUME IInv, [Next]_vars
  PROVE  [\A c \in Clients : down'[c] \notin {down[c], <<>>} => down'[c] = <<AnswerTo(c)'>>]_vars
<1> SUFFICES ASSUME NEW c \in Clients, down'[c] \notin {down[c], <<>>}
             PROVE  down'[c] = <<AnswerTo(c)'>>
  OBVIOUS
<1>1. CASE UNCHANGED down
  BY <1>1
<1>2. ASSUME NEW i \in DOMAIN minis, PollReads(i) PROVE down'[c] = <<AnswerTo(c)'>>
  BY <1>2, MineReads
<1>3. CASE Answer
  BY <1>3, MineAnswer
<1>4. ASSUME NEW d \in Clients, Shell(d) PROVE FALSE
  BY <1>4, MineShell
<1>5. ASSUME NEW i \in DOMAIN minis,
             PollNothing(i) \/ PollBlocks(i) \/ PollAborts(i) \/ PollEnds(i)
      PROVE  UNCHANGED down
  BY <1>5 DEF PollNothing, PollBlocks, PollAborts, PollEnds, sockets
<1>6. ASSUME Listener \/ CreateMiniServer PROVE UNCHANGED down
  BY <1>6 DEF Listener, CreateMiniServer, ThreadStarted, Listen, Accept, SetNonBlocking,
              Check, While, ThreadHarakiri, sockets
<1>7. ASSUME \/ Open \/ Close \/ Opened \/ Trigger \/ EndPoll \/ EndTrigger
             \/ WakeUp \/ Join \/ DeleteServer
      PROVE  UNCHANGED down
  BY <1>7 DEF Open, Close, Opened, Trigger, EndPoll, EndTrigger, WakeUp, Join,
              DeleteServer, sockets
<1>8. UNCHANGED vars => UNCHANGED down
  BY DEF vars
<1> QED
  BY <1>1, <1>2, <1>3, <1>4, <1>5, <1>6, <1>7, <1>8 DEF Next, MainStep

LEMMA Inductive == Spec => []IInv
BY InitInv, InvNext, PTL DEF Spec

-----------------------------------------------------------------------------
(* Every list and socket of the server and of the shells keeps its type,   *)
(* whatever is opened, polled and closed in whatever order.                *)
THEOREM TypeCorrect == Spec => []TypeOK
<1>1. IInv => TypeOK
  BY DEF IInv
<1> QED
  BY <1>1, Inductive, PTL

(* What a shell is sent answers its own last message, in the object its    *)
(* own scripts made the current one or, if any shell has deleted that      *)
(* since, in the kernel's, for any number of shells, objects and messages: *)
(* the ids of the miniservers never lead AnswerMsg or SetClientCwd to      *)
(* another connection.                                                     *)
THEOREM AnswersAreMine == Spec => AnswerIsMine
<1>1. IInv /\ [Next]_vars =>
        [\A c \in Clients : down'[c] \notin {down[c], <<>>} => down'[c] = <<AnswerTo(c)'>>]_vars
  BY MineNext
<1> QED
  BY <1>1, Inductive, PTL DEF Spec, AnswerIsMine
=============================================================================
