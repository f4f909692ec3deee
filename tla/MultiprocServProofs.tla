------------------------ MODULE MultiprocServProofs ------------------------
(***************************************************************************)
(* Proofs about MultiprocServ, for any number of clients, hosts and        *)
(* threads.                                                                *)
(***************************************************************************)
EXTENDS MultiprocServ, SequenceTheorems, FiniteSetTheorems, TLAPS

-----------------------------------------------------------------------------
(* The inductive invariant                                                 *)

\* main creates a thread for a connection that has none, and is within its limit.
Creating ==
  mpc = "create" =>
    /\ thread_num < MAX_THREADS
    /\ new_fd \in Clients
    /\ cpc[new_fd] # "idle" /\ tpc[new_fd] = "none"

\* A thread works on the connection it was created for, and with a host that
\* resolves.
OwnConnection(c) ==
  /\ tpc[c] \in {"fetch", "send"} => buf[c] \in Hosts
  /\ tpc[c] # "none" => load[c] = c /\ cpc[c] # "idle"
  /\ tpc[c] \notin {"none", "start"} => tfd[c] = c

TypeInv == TypeOK /\ Creating /\ \A c \in Clients : OwnConnection(c)

\* What is in transit and in the buffers is the name the client was given or a
\* beginning of it, and the thread's place says what the block list said of it.
Unread == {"none", "start", "hello", "recv"}
OwnName(c) ==
  /\ tpc[c] \in Unread =>
       /\ buf[c] = << >> /\ block_file[c] = "unset" /\ buf2[c] = NULL
       /\ up[c] \in {<< >>, name[c]}
  /\ cpc[c] \in {"idle", "connected"} => up[c] = << >> /\ tpc[c] \in Unread
  /\ Begins(buf[c], name[c])
  /\ tpc[c] = "deny" => Refusable(c)
  /\ tpc[c] \in {"connect", "fetch", "send"} => Servable(c)
  /\ buf2[c] # NULL => /\ buf2[c] = buf[c] /\ Servable(c)
                       /\ tpc[c] \in {"send", "close", "exited"}

\* What has been sent to the client at each place of its thread.  A client that
\* was there for its answer had been there for the greeting.
All(c) == got[c] \o down[c]
Denied(c) == All(c) = Greeting \o Refusal /\ tpc[c] = "exited" /\ Refusable(c)
Served(c) == /\ All(c) = Greeting \o PageOf(buf[c]) /\ tpc[c] \in {"close", "exited"}
             /\ buf[c] \in Hosts /\ Servable(c)
Stream(c) ==
  /\ tpc[c] \in {"none", "start", "hello"} => All(c) = << >>
  /\ tpc[c] \notin {"none", "start", "hello"} =>
       \/ All(c) = << >> /\ ClientGone(c)
       \/ All(c) = Greeting
       \/ Denied(c)
       \/ Served(c)

\* A thread that closes the connection has sent the page it has, and a client
\* in its second recv() has had something from the first.
Closed(c) == tpc[c] = "exited" /\ c \notin clientfds
Delivered(c) ==
  /\ tpc[c] = "close" \/ Closed(c) =>
       buf2[c] = NULL \/ ClientGone(c) \/ All(c) = Greeting \o PageOf(buf[c])
  /\ cpc[c] = "recv2" /\ proc = "running" => got[c] # << >>
  /\ cpc[c] = "done" /\ proc = "running" =>
       \/ Len(got[c]) > Pieces
       \/ numbytes[c] \in 1..(Pieces - 1)
       \/ numbytes[c] = 0 /\ Closed(c) /\ buf2[c] = NULL

NameInv      == \A c \in Clients : OwnName(c)
StreamsInv   == \A c \in Clients : Stream(c)
DeliveredInv == \A c \in Clients : Delivered(c)

\* The threads that exist, the ones that have a socket to a host, and the ones
\* that have opened the block list.
Started == {c \in Clients : tpc[c] # "none"}
Holding == Talking \cup {c \in Clients : Closed(c)}
Reading == {c \in Clients : block_file[c] = "open"}

\* Every open descriptor is that of a thread, or the one main has just accepted;
\* a thread keeps that of its client until it closes it.
CountInv ==
  /\ IsFiniteSet(Started) /\ Cardinality(Started) = thread_num
  /\ clientfds \subseteq Started \cup (IF mpc = "create" THEN {new_fd} ELSE {})
  /\ mpc = "create" => new_fd \in clientfds
  /\ \A c \in Started : tpc[c] # "exited" => c \in clientfds
  /\ hostfds <= Cardinality(Holding)

IInv == TypeInv /\ NameInv /\ StreamsInv /\ DeliveredInv /\ CountInv

-----------------------------------------------------------------------------
(* What the operators on streams return                                    *)

\* The messages the server sends are sequences of as many pieces, and no answer
\* begins like a greeting.
LEMMA MessageTypes ==
  /\ Pieces \in Nat \ {0}
  /\ Greeting \in Seq(Tokens) /\ Len(Greeting) = Pieces /\ Greeting # << >>
  /\ Refusal \in Seq(Tokens) /\ Len(Refusal) = Pieces /\ Refusal[1].kind = "blocked"
  /\ \A h \in Hosts : /\ PageOf(h) \in Seq(Tokens) /\ Len(PageOf(h)) = Pieces
                      /\ PageOf(h)[1].kind = "page"
<1>1. Pieces \in Nat /\ 1 \in 1..Pieces
  BY LimitAssumption
<1>2. ASSUME NEW k \in {"hello", "blocked", "page"}, NEW h \in Hosts \cup {NULL}
      PROVE  /\ Message(k, h) \in Seq(Tokens) /\ Len(Message(k, h)) = Pieces
             /\ Message(k, h)[1].kind = k
  BY <1>1, <1>2 DEF Message, Tokens
<1>3. Greeting # << >>
  <2>1. Len(Greeting) = Pieces
    BY <1>2 DEF Greeting
  <2> QED
    BY <1>1, <2>1
<1>4. Greeting \in Seq(Tokens) /\ Len(Greeting) = Pieces
  BY <1>2 DEF Greeting
<1>5. Refusal \in Seq(Tokens) /\ Len(Refusal) = Pieces /\ Refusal[1].kind = "blocked"
  BY <1>2 DEF Refusal
<1>6. \A h \in Hosts : /\ PageOf(h) \in Seq(Tokens) /\ Len(PageOf(h)) = Pieces
                       /\ PageOf(h)[1].kind = "page"
  BY <1>2 DEF PageOf
<1> QED
  BY <1>3, <1>4, <1>5, <1>6, LimitAssumption

\* Both parts of what recv() splits are sequences, and the first is a beginning.
LEMMA SplitTypes ==
  ASSUME NEW S, NEW q \in Seq(S), NEW n \in 0..Len(q)
  PROVE  /\ SubSeq(q, 1, n) \in Seq(S) /\ SubSeq(q, n + 1, Len(q)) \in Seq(S)
         /\ Begins(SubSeq(q, 1, n), q)
<1>1. Len(q) \in Nat /\ \A i \in 1..Len(q) : q[i] \in S
  BY LenProperties, ElementOfSeq
<1>2. SubSeq(q, 1, n) \in Seq(S) /\ Len(SubSeq(q, 1, n)) = n
  BY <1>1, SubSeqProperties
<1>3. SubSeq(q, n + 1, Len(q)) \in Seq(S)
  BY <1>1, SubSeqProperties
<1> QED
  BY <1>1, <1>2, <1>3 DEF Begins

\* Nothing is a beginning of every name.
LEMMA EmptyBegins == ASSUME NEW S, NEW q \in Seq(S) PROVE Begins(<< >>, q)
<1>1. Len(q) \in Nat /\ SubSeq(q, 1, 0) = << >>
  BY LenProperties, SubSeqEmpty
<1> QED
  BY <1>1 DEF Begins

\* What recv() takes from the head of what has arrived, and what it leaves, are
\* sequences.
LEMMA TakenTypes ==
  ASSUME NEW S, NEW g \in Seq(S), NEW d \in Seq(S), NEW n \in 1..Len(d)
  PROVE  /\ SubSeq(d, 1, n) \in Seq(S) /\ SubSeq(d, n + 1, Len(d)) \in Seq(S)
         /\ g \o SubSeq(d, 1, n) \in Seq(S)
         /\ Len(g \o SubSeq(d, 1, n)) = Len(g) + n
<1>1. Len(d) \in Nat /\ Len(g) \in Nat /\ \A i \in 1..Len(d) : d[i] \in S
  BY LenProperties, ElementOfSeq
<1>2. SubSeq(d, 1, n) \in Seq(S) /\ Len(SubSeq(d, 1, n)) = n
  BY <1>1, SubSeqProperties
<1>3. SubSeq(d, n + 1, Len(d)) \in Seq(S)
  BY <1>1, SubSeqProperties
<1> QED
  BY <1>1, <1>2, <1>3, ConcatProperties

\* What recv() takes is added to what has been received: the stream stays.
LEMMA StreamStays ==
  ASSUME NEW S, NEW g \in Seq(S), NEW d \in Seq(S), NEW n \in 1..Len(d)
  PROVE  (g \o SubSeq(d, 1, n)) \o SubSeq(d, n + 1, Len(d)) = g \o d
<1> DEFINE head == SubSeq(d, 1, n)
           rest == SubSeq(d, n + 1, Len(d))
<1>1. Len(d) \in Nat /\ \A i \in 1..Len(d) : d[i] \in S
  BY LenProperties, ElementOfSeq
<1>2. head \in Seq(S) /\ rest \in Seq(S)
  BY TakenTypes
<1>3. head \o rest = d
  BY <1>1, ConcatAdjacentSubSeq, SubSeqFull
<1> HIDE DEF head, rest
<1>4. (g \o head) \o rest = g \o (head \o rest)
  BY <1>2
<1> QED
  BY <1>3, <1>4 DEF head, rest

\* send() leaves sequences of tokens.
LEMMA SendsType ==
  ASSUME TypeOK, NEW f \in Clients, NEW m \in Seq(Tokens), Sends(f, m)
  PROVE  down' \in [Clients -> Seq(Tokens)]
<1>1. down[f] \o m \in Seq(Tokens)
  BY ConcatProperties DEF TypeOK
<1> QED
  BY <1>1 DEF Sends, TypeOK

-----------------------------------------------------------------------------
(* The steps                                                               *)

\* A step that ends the process and changes nothing else.
ProcessEnds ==
  /\ proc' \in {"returned", "exit", "sigpipe", "fault"}
  /\ UNCHANGED <<mpc, new_fd, thread_num, load, tpc, tfd, buf, block_file, buf2,
                 clientfds, hostfds, clientVars>>

\* Every step is one of these; the ones that end the process are alike.
LEMMA StepCases ==
  ASSUME [Next]_vars
  PROVE  \/ UNCHANGED vars
         \/ ProcessEnds
         \/ CreateThread
         \/ \E c \in Clients :
              \/ Accept(c)
              \/ Start(c) \/ SayHello(c) \/ Recv(c) \/ Check(c) \/ Deny(c) \/ Connect(c)
              \/ ConnectFails(c) \/ Fetch(c) \/ SendBack(c) \/ CloseClient(c)
              \/ \E h \in Names : ClientConnect(c, h)
              \/ ClientSend(c) \/ (\E n \in 1..(2 * Pieces) : ClientRecv(c, n))
              \/ ClientEof(c) \/ ClientReset(c) \/ ClientQuit(c)
<1>1. AcceptFails \/ MainReturns => ProcessEnds
  BY DEF AcceptFails, MainReturns, ProcessEnds
<1>2. \A c \in Clients : RecvFails(c) \/ ResolveFaults(c) \/ FetchFails(c) \/ SendKills(c)
                           => ProcessEnds
  BY DEF RecvFails, ResolveFaults, FetchFails, SendKills, Dies, ProcessEnds
<1> QED
  BY <1>1, <1>2
     DEF Next, Main, ConnectionThread, ThreadStep, Client, ClientStep, Finished

-----------------------------------------------------------------------------
(* Type correctness                                                        *)

\* The initial state is well typed.
LEMMA InitTypeInv == Init => TypeInv
<1> SUFFICES ASSUME Init PROVE TypeInv
  OBVIOUS
<1> << >> \in Seq(Tokens) /\ << >> \in Seq(STRING)
  BY EmptySeq
<1> QED
  BY LimitAssumption DEF Init, TypeInv, TypeOK, Creating, OwnConnection, ThreadPCs, ClientPCs

\* Every step keeps the state well typed, main within its limit, and each
\* thread on its own connection.
LEMMA NextTypeInv == TypeInv /\ [Next]_vars => TypeInv'
<1> SUFFICES ASSUME TypeInv, [Next]_vars PROVE TypeInv'
  OBVIOUS
<1> USE DEF serverVars, clientVars
<1>accept. ASSUME NEW c \in Clients, Accept(c) PROVE TypeInv'
  BY <1>accept DEF Accept, TypeInv, TypeOK, Creating, OwnConnection, ThreadPCs, ClientPCs
<1>create. ASSUME CreateThread PROVE TypeInv'
  BY <1>create, LimitAssumption
     DEF CreateThread, TypeInv, TypeOK, Creating, OwnConnection, ThreadPCs, ClientPCs
<1>start. ASSUME NEW c \in Clients, Start(c) PROVE TypeInv'
  <2>1. /\ tpc' \in [Clients -> ThreadPCs] /\ tpc[c] = "start" /\ tpc'[c] = "hello"
        /\ \A d \in Clients \ {c} : tpc'[d] = tpc[d]
    BY <1>start DEF Start, Goto, TypeInv, TypeOK, ThreadPCs
  <2>2. TypeOK'
    BY <1>start, <2>1 DEF Start, TypeInv, TypeOK, OwnConnection
  <2>3. Creating' /\ \A d \in Clients : OwnConnection(d)'
    BY <1>start, <2>1 DEF Start, TypeInv, TypeOK, Creating, OwnConnection
  <2> QED
    BY <2>2, <2>3 DEF TypeInv
<1>hello. ASSUME NEW c \in Clients, SayHello(c) PROVE TypeInv'
  <2>1. tfd[c] = c /\ tpc[c] = "hello"
    BY <1>hello DEF SayHello, TypeInv, OwnConnection
  <2>2. down' \in [Clients -> Seq(Tokens)]
    BY <1>hello, <2>1, MessageTypes, SendsType DEF SayHello, TypeInv
  <2> QED
    BY <1>hello, <2>1, <2>2
       DEF SayHello, Goto, TypeInv, TypeOK, Creating, OwnConnection, ThreadPCs, ClientPCs
<1>recv. ASSUME NEW c \in Clients, Recv(c) PROVE TypeInv'
  <2>1. tfd[c] = c /\ tpc[c] = "recv" /\ up[c] \in Seq(STRING)
    BY <1>recv DEF Recv, TypeInv, TypeOK, OwnConnection
  <2>2. PICK n \in 0..Len(up[c]) :
          /\ buf' = [buf EXCEPT ![c] = SubSeq(up[c], 1, n)]
          /\ up' = [up EXCEPT ![c] = SubSeq(up[c], n + 1, Len(up[c]))]
    BY <1>recv, <2>1 DEF Recv
  <2>3. SubSeq(up[c], 1, n) \in Seq(STRING) /\ SubSeq(up[c], n + 1, Len(up[c])) \in Seq(STRING)
    BY <2>1, SplitTypes
  <2>4. buf' \in [Clients -> Seq(STRING)] /\ up' \in [Clients -> Seq(STRING)]
    BY <2>2, <2>3 DEF TypeInv, TypeOK
  <2>5. /\ tpc' \in [Clients -> ThreadPCs] /\ tpc'[c] = "check"
        /\ \A d \in Clients \ {c} : tpc'[d] = tpc[d] /\ buf'[d] = buf[d]
    BY <1>recv DEF Recv, Goto, TypeInv, TypeOK, ThreadPCs
  <2>6. TypeOK'
    BY <1>recv, <2>4, <2>5 DEF Recv, TypeInv, TypeOK
  <2>7. Creating' /\ \A d \in Clients : OwnConnection(d)'
    BY <1>recv, <2>1, <2>5 DEF Recv, TypeInv, Creating, OwnConnection
  <2> QED
    BY <2>6, <2>7 DEF TypeInv
<1>check. ASSUME NEW c \in Clients, Check(c) PROVE TypeInv'
  <2>1. tpc[c] = "check" /\ tpc' \in [Clients -> ThreadPCs]
    BY <1>check DEF Check, Goto, TypeInv, TypeOK, ThreadPCs
  <2>2. /\ tpc'[c] \in {"deny", "connect"} /\ \A d \in Clients \ {c} : tpc'[d] = tpc[d]
        /\ block_file' \in [Clients -> {"unset", "open", "NULL"}]
    BY <1>check DEF Check, Goto, TypeInv, TypeOK
  <2> QED
    BY <1>check, <2>1, <2>2 DEF Check, TypeInv, TypeOK, Creating, OwnConnection
<1>deny. ASSUME NEW c \in Clients, Deny(c) PROVE TypeInv'
  <2>1. tfd[c] = c /\ tpc[c] = "deny"
    BY <1>deny DEF Deny, TypeInv, OwnConnection
  <2>2. down' \in [Clients -> Seq(Tokens)]
    BY <1>deny, <2>1, MessageTypes, SendsType DEF Deny, TypeInv
  <2> QED
    BY <1>deny, <2>1, <2>2
       DEF Deny, Goto, TypeInv, TypeOK, Creating, OwnConnection, ThreadPCs, ClientPCs
<1>connect. ASSUME NEW c \in Clients, Connect(c) PROVE TypeInv'
  <2>1. /\ tpc' \in [Clients -> ThreadPCs] /\ tpc[c] = "connect" /\ tpc'[c] = "fetch"
        /\ \A d \in Clients \ {c} : tpc'[d] = tpc[d]
    BY <1>connect DEF Connect, Goto, TypeInv, TypeOK, ThreadPCs
  <2>2. TypeOK'
    <3>1. hostfds' \in Nat
      BY <1>connect DEF Connect, TypeInv, TypeOK
    <3> QED
      BY <1>connect, <2>1, <3>1 DEF Connect, TypeInv, TypeOK
  <2>3. Creating' /\ \A d \in Clients : OwnConnection(d)'
    BY <1>connect, <2>1 DEF Connect, TypeInv, TypeOK, Creating, OwnConnection
  <2> QED
    BY <2>2, <2>3 DEF TypeInv
<1>fails. ASSUME NEW c \in Clients, ConnectFails(c) PROVE TypeInv'
  <2>1. /\ tpc' \in [Clients -> ThreadPCs] /\ tpc[c] = "connect" /\ tpc'[c] = "exited"
        /\ \A d \in Clients \ {c} : tpc'[d] = tpc[d]
    BY <1>fails DEF ConnectFails, Goto, TypeInv, TypeOK, ThreadPCs
  <2>2. TypeOK'
    BY <1>fails, <2>1 DEF ConnectFails, TypeInv, TypeOK
  <2>3. Creating' /\ \A d \in Clients : OwnConnection(d)'
    BY <1>fails, <2>1 DEF ConnectFails, TypeInv, TypeOK, Creating, OwnConnection
  <2> QED
    BY <2>2, <2>3 DEF TypeInv
<1>fetch. ASSUME NEW c \in Clients, Fetch(c) PROVE TypeInv'
  <2>1. /\ tpc' \in [Clients -> ThreadPCs] /\ tpc[c] = "fetch" /\ tpc'[c] = "send"
        /\ \A d \in Clients \ {c} : tpc'[d] = tpc[d]
    BY <1>fetch DEF Fetch, Goto, TypeInv, TypeOK, ThreadPCs
  <2>2. TypeOK'
    <3>1. buf[c] \in Hosts
      BY <2>1 DEF TypeInv, OwnConnection
    <3>2. buf2' \in [Clients -> Hosts \cup {NULL}]
      BY <1>fetch, <3>1 DEF Fetch, TypeInv, TypeOK
    <3> QED
      BY <1>fetch, <2>1, <3>2 DEF Fetch, TypeInv, TypeOK
  <2>3. Creating' /\ \A d \in Clients : OwnConnection(d)'
    BY <1>fetch, <2>1 DEF Fetch, TypeInv, TypeOK, Creating, OwnConnection
  <2> QED
    BY <2>2, <2>3 DEF TypeInv
<1>send. ASSUME NEW c \in Clients, SendBack(c) PROVE TypeInv'
  <2>1. tfd[c] = c /\ tpc[c] = "send"
    BY <1>send DEF SendBack, TypeInv, OwnConnection
  <2>3. buf2[c] # NULL => buf2[c] \in Hosts
    BY DEF TypeInv, TypeOK
  <2>2. down' \in [Clients -> Seq(Tokens)]
    BY <1>send, <2>1, MessageTypes, SendsType, <2>3 DEF SendBack, TypeInv, TypeOK
  <2> QED
    BY <1>send, <2>1, <2>2
       DEF SendBack, Goto, TypeInv, TypeOK, Creating, OwnConnection, ThreadPCs, ClientPCs
<1>close. ASSUME NEW c \in Clients, CloseClient(c) PROVE TypeInv'
  <2>1. /\ tpc' \in [Clients -> ThreadPCs] /\ tpc[c] = "close" /\ tpc'[c] = "exited"
        /\ \A d \in Clients \ {c} : tpc'[d] = tpc[d]
    BY <1>close DEF CloseClient, Goto, TypeInv, TypeOK, ThreadPCs
  <2>2. TypeOK'
    BY <1>close, <2>1 DEF CloseClient, TypeInv, TypeOK
  <2>3. Creating' /\ \A d \in Clients : OwnConnection(d)'
    BY <1>close, <2>1 DEF CloseClient, TypeInv, TypeOK, Creating, OwnConnection
  <2> QED
    BY <2>2, <2>3 DEF TypeInv
<1>client. ASSUME NEW c \in Clients, NEW h \in Names, ClientConnect(c, h) PROVE TypeInv'
  BY <1>client, NamesAssumption DEF ClientConnect, TypeInv, TypeOK, Creating, OwnConnection, ThreadPCs, ClientPCs
<1>name. ASSUME NEW c \in Clients, ClientSend(c) PROVE TypeInv'
  BY <1>name DEF ClientSend, TypeInv, TypeOK, Creating, OwnConnection, ThreadPCs, ClientPCs
<1>take. ASSUME NEW c \in Clients, NEW n \in 1..(2 * Pieces), ClientRecv(c, n) PROVE TypeInv'
  <2>1. /\ c \in Clients /\ got[c] \in Seq(Tokens) /\ down[c] \in Seq(Tokens)
        /\ n \in 1..Len(down[c])
    BY <1>take DEF ClientRecv, TypeInv, TypeOK
  <2>2. /\ got[c] \o SubSeq(down[c], 1, n) \in Seq(Tokens)
        /\ SubSeq(down[c], n + 1, Len(down[c])) \in Seq(Tokens)
    BY <2>1, TakenTypes
  <2>3. n \in Nat
    BY LimitAssumption
  <2> QED
    BY <1>take, <2>2, <2>3
       DEF ClientRecv, NextRecv, TypeInv, TypeOK, Creating, OwnConnection, ThreadPCs, ClientPCs
<1>eof. ASSUME NEW c \in Clients, ClientEof(c) PROVE TypeInv'
  BY <1>eof DEF ClientEof, NextRecv, TypeInv, TypeOK, Creating, OwnConnection, ThreadPCs, ClientPCs
<1>reset. ASSUME NEW c \in Clients, ClientReset(c) PROVE TypeInv'
  BY <1>reset DEF ClientReset, TypeInv, TypeOK, Creating, OwnConnection, ThreadPCs, ClientPCs
<1>quit. ASSUME NEW c \in Clients, ClientQuit(c) PROVE TypeInv'
  BY <1>quit DEF ClientQuit, TypeInv, TypeOK, Creating, OwnConnection, ThreadPCs, ClientPCs
<1>ends. ASSUME ProcessEnds PROVE TypeInv'
  BY <1>ends DEF ProcessEnds, TypeInv, TypeOK, Creating, OwnConnection, ThreadPCs, ClientPCs
<1>stutter. ASSUME UNCHANGED vars PROVE TypeInv'
  BY <1>stutter DEF vars, TypeInv, TypeOK, Creating, OwnConnection, ThreadPCs, ClientPCs
<1> QED
  BY <1>accept, <1>create, <1>start, <1>hello, <1>recv, <1>check, <1>deny, <1>connect, <1>fails,
     <1>fetch, <1>send, <1>close, <1>client, <1>name, <1>take, <1>eof, <1>reset, <1>quit, <1>ends,
     <1>stutter, StepCases

\* Type correctness, for every number of clients and threads: in particular main
\* never starts more than MAX_THREADS threads.
THEOREM TypeCorrect == Spec => []TypeOK
<1>1. TypeInv => TypeOK
  BY DEF TypeInv
<1> QED
  BY <1>1, InitTypeInv, NextTypeInv, PTL DEF Spec

-----------------------------------------------------------------------------
(* Names                                                                   *)

\* What the file's lines, with the last letter cut off, say of what was received.
LEMMA ListedReads ==
  /\ \A b \in Listed : \E line \in File :
       line.text = b \/ (~line.nl /\ Begins(b, line.text))
  /\ \A line \in File : line.nl => line.text \in Listed
<1>1. ASSUME NEW line \in File
      PROVE  /\ ~line.nl => Begins(Cut(line), line.text)
             /\ line.nl => Cut(line) = line.text
  <2>1. line.text \in Seq(STRING) /\ line.nl \in BOOLEAN
    BY FileAssumption DEF Lines
  <2>2. CASE ~line.nl
    <3>1. Len(line.text) \in Nat /\ Len(line.text) # 0
      BY <2>1, <2>2, FileAssumption, LenProperties, EmptySeq
    <3>2. Len(line.text) - 1 \in 0..Len(line.text)
      BY <3>1
    <3> QED
      BY <2>1, <2>2, <3>2, SplitTypes DEF Cut
  <2> QED
    BY <2>2 DEF Cut
<1> QED
  BY <1>1 DEF Listed

\* Every step keeps the names in transit and in the buffers the client's own.
LEMMA NextNameInv ==
  ASSUME TypeInv, NameInv, [Next]_vars
  PROVE  NameInv'
<1> USE NamesAssumption DEF serverVars, clientVars, Unread
<1>frame. \A d \in Clients : buf'[d] = buf[d] /\ block_file'[d] = block_file[d] =>
            (Refusable(d)' <=> Refusable(d)) /\ (Servable(d)' <=> Servable(d))
  BY DEF Refusable, Servable
<1>accept. ASSUME NEW c \in Clients, Accept(c) PROVE NameInv'
  BY <1>accept, <1>frame
     DEF Accept, NameInv, OwnName, TypeInv, TypeOK, Creating, OwnConnection
<1>create. ASSUME CreateThread PROVE NameInv'
  BY <1>create, <1>frame
     DEF CreateThread, NameInv, OwnName, TypeInv, TypeOK, Creating, OwnConnection
<1>start. ASSUME NEW c \in Clients, Start(c) PROVE NameInv'
  <2>1. tpc'[c] = "hello" /\ \A d \in Clients \ {c} : tpc'[d] = tpc[d]
    BY <1>start DEF Start, Goto, TypeInv, TypeOK
  <2>2. OwnName(c)'
    BY <1>start, <1>frame, <2>1 DEF Start, NameInv, OwnName
  <2>3. \A d \in Clients \ {c} : OwnName(d)'
    BY <1>start, <1>frame, <2>1 DEF Start, NameInv, OwnName
  <2> QED
    BY <2>2, <2>3 DEF NameInv
<1>hello. ASSUME NEW c \in Clients, SayHello(c) PROVE NameInv'
  <2>1. tpc'[c] = "recv" /\ \A d \in Clients \ {c} : tpc'[d] = tpc[d]
    BY <1>hello DEF SayHello, Goto, TypeInv, TypeOK
  <2>2. OwnName(c)'
    BY <1>hello, <1>frame, <2>1 DEF SayHello, NameInv, OwnName
  <2>3. \A d \in Clients \ {c} : OwnName(d)'
    BY <1>hello, <1>frame, <2>1 DEF SayHello, NameInv, OwnName
  <2> QED
    BY <2>2, <2>3 DEF NameInv
<1>recv. ASSUME NEW c \in Clients, Recv(c) PROVE NameInv'
  <2>1. tfd[c] = c /\ tpc[c] = "recv" /\ name[c] \in Seq(STRING)
    BY <1>recv DEF Recv, TypeInv, TypeOK, OwnConnection
  <2>2. up[c] \in Seq(STRING) /\ up[c] \in {<< >>, name[c]}
    BY <2>1 DEF TypeInv, TypeOK, NameInv, OwnName
  <2>3. PICK n \in 0..Len(up[c]) :
          /\ n = 0 => up[c] = << >> /\ ClientGone(c)
          /\ buf' = [buf EXCEPT ![c] = SubSeq(up[c], 1, n)]
    BY <1>recv, <2>1 DEF Recv
  <2>4. Begins(SubSeq(up[c], 1, n), name[c])
    <3>1. CASE up[c] = name[c]
      BY <2>1, <3>1, SplitTypes
    <3>2. CASE up[c] = << >>
      <4>1. SubSeq(up[c], 1, n) = << >>
        BY <3>2, SubSeqEmpty
      <4> QED
        BY <2>1, <4>1, EmptyBegins
    <3> QED
      BY <2>2, <3>1, <3>2
  <2>5. buf'[c] = SubSeq(up[c], 1, n) /\ \A d \in Clients \ {c} : buf'[d] = buf[d]
    BY <2>3 DEF TypeInv, TypeOK
  <2>6. /\ tpc'[c] = "check" /\ \A d \in Clients \ {c} : tpc'[d] = tpc[d]
        /\ \A d \in Clients \ {c} : up'[d] = up[d]
    BY <1>recv, <2>1 DEF Recv, Goto, TypeInv, TypeOK
  <2>7. OwnName(c)'
    <3>1. Begins(buf[c], name[c])'
      BY <1>recv, <2>4, <2>5 DEF Recv
    <3>2. buf2'[c] = NULL /\ cpc'[c] \notin {"idle", "connected"}
      <4>1. up[c] = << >> => ClientGone(c)
        BY <2>3, EmptySeq
      <4>2. up[c] # << >> => cpc[c] \notin {"idle", "connected"}
        BY DEF NameInv, OwnName
      <4>3. cpc[c] \notin {"idle", "connected"}
        BY <4>1, <4>2 DEF ClientGone
      <4> QED
        BY <1>recv, <2>1, <4>3 DEF Recv, NameInv, OwnName
    <3> QED
      BY <2>6, <3>1, <3>2 DEF OwnName
  <2>8. \A d \in Clients \ {c} : OwnName(d)'
    BY <1>recv, <1>frame, <2>5, <2>6 DEF Recv, NameInv, OwnName
  <2> QED
    BY <2>7, <2>8 DEF NameInv
<1>check. ASSUME NEW c \in Clients, Check(c) PROVE NameInv'
  <2>1. PICK f \in {"open", "NULL"} :
          /\ block_file' = [block_file EXCEPT ![c] = f]
          /\ Goto(c, IF f = "open" /\ buf[c] \in Listed THEN "deny" ELSE "connect")
    BY <1>check DEF Check
  <2>2. /\ block_file'[c] = f /\ \A d \in Clients \ {c} : block_file'[d] = block_file[d]
        /\ tpc'[c] = IF f = "open" /\ buf[c] \in Listed THEN "deny" ELSE "connect"
        /\ \A d \in Clients \ {c} : tpc'[d] = tpc[d]
    BY <2>1 DEF Goto, TypeInv, TypeOK
  <2>3. tpc'[c] = "deny" => Refusable(c)'
    BY <1>check, <2>2, ListedReads DEF Check, Refusable
  <2>4. tpc'[c] = "connect" => Servable(c)'
    BY <1>check, <2>2, ListedReads DEF Check, Servable
  <2>5. OwnName(c)'
    BY <1>check, <2>2, <2>3, <2>4 DEF Check, NameInv, OwnName, TypeInv, OwnConnection
  <2>6. \A d \in Clients \ {c} : OwnName(d)'
    BY <1>check, <1>frame, <2>2 DEF Check, NameInv, OwnName
  <2> QED
    BY <2>5, <2>6 DEF NameInv
<1>deny. ASSUME NEW c \in Clients, Deny(c) PROVE NameInv'
  <2>1. tpc'[c] = "exited" /\ \A d \in Clients \ {c} : tpc'[d] = tpc[d]
    BY <1>deny DEF Deny, Goto, TypeInv, TypeOK
  <2>2. OwnName(c)'
    BY <1>deny, <1>frame, <2>1 DEF Deny, NameInv, OwnName
  <2>3. \A d \in Clients \ {c} : OwnName(d)'
    BY <1>deny, <1>frame, <2>1 DEF Deny, NameInv, OwnName
  <2> QED
    BY <2>2, <2>3 DEF NameInv
<1>connect. ASSUME NEW c \in Clients, Connect(c) PROVE NameInv'
  <2>1. tpc'[c] = "fetch" /\ \A d \in Clients \ {c} : tpc'[d] = tpc[d]
    BY <1>connect DEF Connect, Goto, TypeInv, TypeOK
  <2>2. OwnName(c)'
    BY <1>connect, <1>frame, <2>1 DEF Connect, NameInv, OwnName
  <2>3. \A d \in Clients \ {c} : OwnName(d)'
    BY <1>connect, <1>frame, <2>1 DEF Connect, NameInv, OwnName
  <2> QED
    BY <2>2, <2>3 DEF NameInv
<1>fails. ASSUME NEW c \in Clients, ConnectFails(c) PROVE NameInv'
  <2>1. tpc'[c] = "exited" /\ \A d \in Clients \ {c} : tpc'[d] = tpc[d]
    BY <1>fails DEF ConnectFails, Goto, TypeInv, TypeOK
  <2>2. OwnName(c)'
    BY <1>fails, <1>frame, <2>1 DEF ConnectFails, NameInv, OwnName
  <2>3. \A d \in Clients \ {c} : OwnName(d)'
    BY <1>fails, <1>frame, <2>1 DEF ConnectFails, NameInv, OwnName
  <2> QED
    BY <2>2, <2>3 DEF NameInv
<1>fetch. ASSUME NEW c \in Clients, Fetch(c) PROVE NameInv'
  <2>1. /\ tpc'[c] = "send" /\ buf2'[c] \in {buf[c], NULL}
        /\ \A d \in Clients \ {c} : tpc'[d] = tpc[d] /\ buf2'[d] = buf2[d]
    BY <1>fetch DEF Fetch, Goto, TypeInv, TypeOK
  <2>2. OwnName(c)'
    BY <1>fetch, <1>frame, <2>1 DEF Fetch, NameInv, OwnName
  <2>3. \A d \in Clients \ {c} : OwnName(d)'
    BY <1>fetch, <1>frame, <2>1 DEF Fetch, NameInv, OwnName
  <2> QED
    BY <2>2, <2>3 DEF NameInv
<1>send. ASSUME NEW c \in Clients, SendBack(c) PROVE NameInv'
  <2>1. tpc'[c] = "close" /\ \A d \in Clients \ {c} : tpc'[d] = tpc[d]
    BY <1>send DEF SendBack, Goto, TypeInv, TypeOK
  <2>2. OwnName(c)'
    BY <1>send, <1>frame, <2>1 DEF SendBack, NameInv, OwnName
  <2>3. \A d \in Clients \ {c} : OwnName(d)'
    BY <1>send, <1>frame, <2>1 DEF SendBack, NameInv, OwnName
  <2> QED
    BY <2>2, <2>3 DEF NameInv
<1>close. ASSUME NEW c \in Clients, CloseClient(c) PROVE NameInv'
  <2>1. tpc'[c] = "exited" /\ \A d \in Clients \ {c} : tpc'[d] = tpc[d]
    BY <1>close DEF CloseClient, Goto, TypeInv, TypeOK
  <2>2. OwnName(c)'
    BY <1>close, <1>frame, <2>1 DEF CloseClient, NameInv, OwnName
  <2>3. \A d \in Clients \ {c} : OwnName(d)'
    BY <1>close, <1>frame, <2>1 DEF CloseClient, NameInv, OwnName
  <2> QED
    BY <2>2, <2>3 DEF NameInv
<1>client. ASSUME NEW c \in Clients, NEW h \in Names, ClientConnect(c, h) PROVE NameInv'
  <2>1. /\ cpc'[c] = "connected" /\ name'[c] = h
        /\ \A d \in Clients \ {c} : cpc'[d] = cpc[d] /\ name'[d] = name[d]
    BY <1>client DEF ClientConnect, TypeInv, TypeOK
  <2>2. buf[c] = << >> /\ up[c] = << >> /\ tpc[c] \in Unread
    BY <1>client DEF ClientConnect, NameInv, OwnName
  <2>3. Begins(<< >>, h)
    BY EmptyBegins
  <2>4. OwnName(c)'
    BY <1>client, <1>frame, <2>1, <2>2, <2>3 DEF ClientConnect, NameInv, OwnName
  <2>5. \A d \in Clients \ {c} : OwnName(d)'
    BY <1>client, <1>frame, <2>1 DEF ClientConnect, NameInv, OwnName
  <2> QED
    BY <2>4, <2>5 DEF NameInv
<1>name. ASSUME NEW c \in Clients, ClientSend(c) PROVE NameInv'
  <2>1. /\ cpc[c] = "connected" /\ cpc'[c] = "recv1" /\ up'[c] \in {up[c], name[c]}
        /\ \A d \in Clients \ {c} : cpc'[d] = cpc[d] /\ up'[d] = up[d]
    BY <1>name DEF ClientSend, TypeInv, TypeOK
  <2>2. OwnName(c)'
    BY <1>name, <1>frame, <2>1 DEF ClientSend, NameInv, OwnName
  <2>3. \A d \in Clients \ {c} : OwnName(d)'
    BY <1>name, <1>frame, <2>1 DEF ClientSend, NameInv, OwnName
  <2> QED
    BY <2>2, <2>3 DEF NameInv
<1>take. ASSUME NEW c \in Clients, NEW n \in 1..(2 * Pieces), ClientRecv(c, n) PROVE NameInv'
  <2>1. /\ cpc[c] \in {"recv1", "recv2"} /\ cpc'[c] \in {"recv2", "done"}
        /\ \A d \in Clients \ {c} : cpc'[d] = cpc[d]
    BY <1>take DEF ClientRecv, NextRecv, TypeInv, TypeOK
  <2>2. UNCHANGED <<tpc, buf, block_file, buf2, up, name>>
    BY <1>take DEF ClientRecv
  <2> QED
    BY <1>frame, <2>1, <2>2 DEF NameInv, OwnName
<1>eof. ASSUME NEW c \in Clients, ClientEof(c) PROVE NameInv'
  <2>1. /\ cpc'[c] \in {"recv2", "done", "dead"}
        /\ \A d \in Clients \ {c} : cpc'[d] = cpc[d]
    BY <1>eof DEF ClientEof, NextRecv, TypeInv, TypeOK
  <2>2. UNCHANGED <<tpc, buf, block_file, buf2, up, name>>
    BY <1>eof DEF ClientEof
  <2> QED
    BY <1>frame, <2>1, <2>2 DEF NameInv, OwnName
<1>reset. ASSUME NEW c \in Clients, ClientReset(c) PROVE NameInv'
  <2>1. /\ cpc'[c] \in {"recv2", "done", "dead"}
        /\ \A d \in Clients \ {c} : cpc'[d] = cpc[d]
    BY <1>reset DEF ClientReset, TypeInv, TypeOK
  <2>2. UNCHANGED <<tpc, buf, block_file, buf2, up, name>>
    BY <1>reset DEF ClientReset
  <2> QED
    BY <1>frame, <2>1, <2>2 DEF NameInv, OwnName
<1>quit. ASSUME NEW c \in Clients, ClientQuit(c) PROVE NameInv'
  <2>1. /\ cpc'[c] \in {"recv2", "done", "dead"}
        /\ \A d \in Clients \ {c} : cpc'[d] = cpc[d]
    BY <1>quit DEF ClientQuit, TypeInv, TypeOK
  <2>2. UNCHANGED <<tpc, buf, block_file, buf2, up, name>>
    BY <1>quit DEF ClientQuit
  <2> QED
    BY <1>frame, <2>1, <2>2 DEF NameInv, OwnName
<1>ends. ASSUME ProcessEnds PROVE NameInv'
  BY <1>ends, <1>frame
     DEF ProcessEnds, NameInv, OwnName, TypeInv, TypeOK, Creating, OwnConnection
<1>stutter. ASSUME UNCHANGED vars PROVE NameInv'
  BY <1>stutter, <1>frame
     DEF vars, NameInv, OwnName, TypeInv, TypeOK, Creating, OwnConnection
<1> QED
  BY <1>accept, <1>create, <1>start, <1>hello, <1>recv, <1>check, <1>deny, <1>connect, <1>fails,
     <1>fetch, <1>send, <1>close, <1>client, <1>name, <1>take, <1>eof, <1>reset, <1>quit, <1>ends,
     <1>stutter, StepCases

-----------------------------------------------------------------------------
(* Streams                                                                 *)

\* send() adds its message to the stream of its own client, unless that is gone.
LEMMA SendsToOne ==
  ASSUME TypeOK, NEW f \in Clients, NEW m \in Seq(Tokens), Sends(f, m), UNCHANGED got
  PROVE  /\ \A c \in Clients : c # f \/ ClientGone(f) => All(c)' = All(c)
         /\ ~ClientGone(f) => All(f)' = All(f) \o m
<1> DEFINE g == got[f]
           d == down[f]
<1>1. g \in Seq(Tokens) /\ d \in Seq(Tokens)
  BY DEF TypeOK
<1> HIDE DEF g, d
<1>2. g \o (d \o m) = (g \o d) \o m
  BY <1>1, ConcatAssociative
<1> QED
  BY <1>2 DEF g, d, Sends, All, TypeOK

\* recv() in the client leaves every stream as it is, and adds to what its own
\* client has received.
LEMMA TakeKeepsStream ==
  ASSUME TypeOK, NEW c \in Clients, NEW n \in 1..(2 * Pieces), ClientRecv(c, n)
  PROVE  /\ \A d \in Clients : All(d)' = All(d)
         /\ \A d \in Clients \ {c} : got'[d] = got[d]
         /\ got'[c] \in Seq(Tokens) /\ Len(got'[c]) = Len(got[c]) + n
<1> DEFINE g == got[c]
           d == down[c]
           taken == g \o SubSeq(d, 1, n)
           left  == SubSeq(d, n + 1, Len(d))
<1>1. g \in Seq(Tokens) /\ d \in Seq(Tokens) /\ n \in 1..Len(d)
  BY DEF ClientRecv, TypeOK
<1> HIDE DEF g, d
<1>2. taken \o left = g \o d
  BY <1>1, StreamStays
<1>3. taken \in Seq(Tokens) /\ Len(taken) = Len(g) + n
  BY <1>1, TakenTypes
<1>4. got' = [got EXCEPT ![c] = taken] /\ down' = [down EXCEPT ![c] = left]
  BY DEF ClientRecv, g, d
<1> HIDE DEF taken, left
<1>5. /\ got'[c] = taken /\ down'[c] = left
      /\ \A x \in Clients \ {c} : got'[x] = got[x] /\ down'[x] = down[x]
  BY <1>4 DEF TypeOK
<1> QED
  BY <1>2, <1>3, <1>5 DEF All, g, d

\* Every step keeps each stream in the order greeting, answer.
LEMMA NextStreamsInv ==
  ASSUME TypeInv, NameInv, StreamsInv, [Next]_vars
  PROVE  StreamsInv'
<1> USE DEF serverVars, clientVars
<1>all. UNCHANGED <<got, down>> => \A d \in Clients : All(d)' = All(d)
  BY DEF All
<1>frame. \A d \in Clients : buf'[d] = buf[d] /\ block_file'[d] = block_file[d] =>
            (Refusable(d)' <=> Refusable(d)) /\ (Servable(d)' <=> Servable(d))
  BY DEF Refusable, Servable
<1>gone. UNCHANGED cpc => \A d \in Clients : ClientGone(d)' = ClientGone(d)
  BY DEF ClientGone
\* The stream and the thread of d stay as they are.
<1>same. \A d \in Clients :
           /\ All(d)' = All(d) /\ (ClientGone(d) => ClientGone(d)')
           /\ tpc'[d] = tpc[d] /\ buf'[d] = buf[d] /\ block_file'[d] = block_file[d]
           => Stream(d)'
  BY <1>frame DEF StreamsInv, Stream, Denied, Served
\* The thread of d goes on without having sent an answer.
<1>goes. \A d \in Clients :
           /\ All(d)' = All(d) /\ (ClientGone(d) => ClientGone(d)')
           /\ tpc[d] \in {"recv", "check", "connect", "fetch", "send"}
           /\ tpc'[d] \notin {"none", "start", "hello"}
           => Stream(d)'
  BY DEF StreamsInv, Stream, Denied, Served
\* The thread of d has not sent anything.
<1>early. \A d \in Clients :
            /\ All(d)' = All(d)
            /\ tpc[d] \in {"none", "start"} /\ tpc'[d] \in {"start", "hello"}
            => Stream(d)'
  BY DEF StreamsInv, Stream
<1>accept. ASSUME NEW c \in Clients, Accept(c) PROVE StreamsInv'
  BY <1>accept, <1>all, <1>gone, <1>same DEF Accept, StreamsInv
<1>create. ASSUME CreateThread PROVE StreamsInv'
  <2>1. /\ new_fd \in Clients /\ tpc[new_fd] = "none" /\ tpc'[new_fd] = "start"
        /\ \A d \in Clients \ {new_fd} : tpc'[d] = tpc[d]
    BY <1>create DEF CreateThread, Creating, TypeInv, TypeOK
  <2> QED
    BY <1>create, <1>all, <1>gone, <1>same, <1>early, <2>1 DEF CreateThread, StreamsInv
<1>start. ASSUME NEW c \in Clients, Start(c) PROVE StreamsInv'
  <2>1. tpc'[c] = "hello" /\ \A d \in Clients \ {c} : tpc'[d] = tpc[d]
    BY <1>start DEF Start, Goto, TypeInv, TypeOK
  <2> QED
    BY <1>start, <1>all, <1>gone, <1>same, <1>early, <2>1 DEF Start, StreamsInv
<1>hello. ASSUME NEW c \in Clients, SayHello(c) PROVE StreamsInv'
  <2>1. tfd[c] = c /\ tpc[c] = "hello" /\ UNCHANGED <<got, cpc, buf, block_file>>
    BY <1>hello DEF SayHello, TypeInv, OwnConnection
  <2>2. /\ \A d \in Clients : d # c \/ ClientGone(c) => All(d)' = All(d)
        /\ ~ClientGone(c) => All(c)' = All(c) \o Greeting
    BY <1>hello, <2>1, MessageTypes, SendsToOne DEF SayHello, TypeInv
  <2>3. All(c) = << >> /\ << >> \o Greeting = Greeting
    BY <2>1, MessageTypes, ConcatEmptySeq DEF StreamsInv, Stream
  <2>4. tpc'[c] = "recv" /\ \A d \in Clients \ {c} : tpc'[d] = tpc[d]
    BY <1>hello DEF SayHello, Goto, TypeInv, TypeOK
  <2>5. Stream(c)'
    BY <1>gone, <2>1, <2>2, <2>3, <2>4 DEF Stream
  <2>6. \A d \in Clients \ {c} : Stream(d)'
    BY <1>gone, <1>same, <2>1, <2>2, <2>4
  <2> QED
    BY <2>5, <2>6 DEF StreamsInv
<1>recv. ASSUME NEW c \in Clients, Recv(c) PROVE StreamsInv'
  <2>1. tpc[c] = "recv" /\ tpc'[c] \in {"check", "deny", "connect"}
    BY <1>recv DEF Recv, Goto, TypeInv, TypeOK
  <2>2. \A d \in Clients \ {c} : tpc'[d] = tpc[d] /\ buf'[d] = buf[d]
    BY <1>recv DEF Recv, Goto, TypeInv, TypeOK
  <2> QED
    BY <1>recv, <1>all, <1>gone, <1>same, <1>goes, <2>1, <2>2 DEF Recv, StreamsInv
<1>check. ASSUME NEW c \in Clients, Check(c) PROVE StreamsInv'
  <2>1. tpc[c] = "check" /\ tpc'[c] \in {"check", "deny", "connect"}
    BY <1>check DEF Check, Goto, TypeInv, TypeOK
  <2>2. \A d \in Clients \ {c} : tpc'[d] = tpc[d] /\ block_file'[d] = block_file[d]
    BY <1>check DEF Check, Goto, TypeInv, TypeOK
  <2> QED
    BY <1>check, <1>all, <1>gone, <1>same, <1>goes, <2>1, <2>2 DEF Check, StreamsInv
<1>deny. ASSUME NEW c \in Clients, Deny(c) PROVE StreamsInv'
  <2>1. tfd[c] = c /\ tpc[c] = "deny" /\ UNCHANGED <<got, cpc, buf, block_file>>
    BY <1>deny DEF Deny, TypeInv, OwnConnection
  <2>2. /\ \A d \in Clients : d # c \/ ClientGone(c) => All(d)' = All(d)
        /\ ~ClientGone(c) => All(c)' = All(c) \o Refusal
    BY <1>deny, <2>1, MessageTypes, SendsToOne DEF Deny, TypeInv
  <2>3. All(c) = Greeting \/ (All(c) = << >> /\ ClientGone(c))
    BY <2>1 DEF StreamsInv, Stream, Denied, Served
  <2>4. tpc'[c] = "exited" /\ \A d \in Clients \ {c} : tpc'[d] = tpc[d]
    BY <1>deny DEF Deny, Goto, TypeInv, TypeOK
  <2>5. Refusable(c)'
    BY <1>frame, <2>1 DEF NameInv, OwnName
  <2>6. Stream(c)'
    BY <1>gone, <2>1, <2>2, <2>3, <2>4, <2>5 DEF Stream, Denied
  <2>7. \A d \in Clients \ {c} : Stream(d)'
    BY <1>gone, <1>same, <2>1, <2>2, <2>4
  <2> QED
    BY <2>6, <2>7 DEF StreamsInv
<1>connect. ASSUME NEW c \in Clients, Connect(c) PROVE StreamsInv'
  <2>1. /\ tpc[c] \in {"connect", "fetch"} /\ tpc'[c] = "fetch"
        /\ \A d \in Clients \ {c} : tpc'[d] = tpc[d]
    BY <1>connect DEF Connect, Goto, TypeInv, TypeOK
  <2> QED
    BY <1>connect, <1>all, <1>gone, <1>same, <1>goes, <2>1 DEF Connect, StreamsInv
<1>fails. ASSUME NEW c \in Clients, ConnectFails(c) PROVE StreamsInv'
  <2>1. /\ tpc[c] \in {"connect", "fetch"} /\ tpc'[c] = "exited"
        /\ \A d \in Clients \ {c} : tpc'[d] = tpc[d]
    BY <1>fails DEF ConnectFails, Goto, TypeInv, TypeOK
  <2> QED
    BY <1>fails, <1>all, <1>gone, <1>same, <1>goes, <2>1 DEF ConnectFails, StreamsInv
<1>fetch. ASSUME NEW c \in Clients, Fetch(c) PROVE StreamsInv'
  <2>1. /\ tpc[c] \in {"connect", "fetch"} /\ tpc'[c] = "send"
        /\ \A d \in Clients \ {c} : tpc'[d] = tpc[d]
    BY <1>fetch DEF Fetch, Goto, TypeInv, TypeOK
  <2> QED
    BY <1>fetch, <1>all, <1>gone, <1>same, <1>goes, <2>1 DEF Fetch, StreamsInv
<1>send. ASSUME NEW c \in Clients, SendBack(c) PROVE StreamsInv'
  <2>1. /\ tfd[c] = c /\ tpc[c] = "send" /\ buf[c] \in Hosts
        /\ UNCHANGED <<got, cpc, buf, block_file>>
    BY <1>send DEF SendBack, TypeInv, OwnConnection
  <2>2. tpc'[c] = "close" /\ \A d \in Clients \ {c} : tpc'[d] = tpc[d]
    BY <1>send DEF SendBack, Goto, TypeInv, TypeOK
  <2>3. CASE buf2[c] = NULL
    BY <1>send, <1>all, <1>gone, <1>same, <1>goes, <2>1, <2>2, <2>3 DEF SendBack, StreamsInv
  <2>4. CASE buf2[c] # NULL
    <3>1. buf2[c] = buf[c] /\ Servable(c)'
      BY <1>frame, <2>1, <2>4 DEF NameInv, OwnName
    <3>2. /\ \A d \in Clients : d # c \/ ClientGone(c) => All(d)' = All(d)
          /\ ~ClientGone(c) => All(c)' = All(c) \o PageOf(buf[c])
      BY <1>send, <2>1, <2>4, <3>1, MessageTypes, SendsToOne DEF SendBack, TypeInv
    <3>3. All(c) = Greeting \/ (All(c) = << >> /\ ClientGone(c))
      BY <2>1 DEF StreamsInv, Stream, Denied, Served
    <3>4. Stream(c)'
      BY <1>gone, <2>1, <2>2, <3>1, <3>2, <3>3 DEF Stream, Served
    <3>5. \A d \in Clients \ {c} : Stream(d)'
      BY <1>gone, <1>same, <2>1, <2>2, <3>2
    <3> QED
      BY <3>4, <3>5 DEF StreamsInv
  <2> QED
    BY <2>3, <2>4
<1>close. ASSUME NEW c \in Clients, CloseClient(c) PROVE StreamsInv'
  <2>1. /\ tpc[c] = "close" /\ tpc'[c] = "exited"
        /\ \A d \in Clients \ {c} : tpc'[d] = tpc[d]
    BY <1>close DEF CloseClient, Goto, TypeInv, TypeOK
  <2>2. UNCHANGED <<got, down, cpc, buf, block_file>>
    BY <1>close DEF CloseClient
  <2>3. Stream(c)'
    BY <1>all, <1>gone, <1>frame, <2>1, <2>2 DEF StreamsInv, Stream, Denied, Served
  <2>4. \A d \in Clients \ {c} : Stream(d)'
    BY <1>all, <1>gone, <1>same, <2>1, <2>2
  <2> QED
    BY <2>3, <2>4 DEF StreamsInv
\* A client's step leaves the threads alone, and no client comes back.
<1>leaves. ASSUME \A d \in Clients : All(d)' = All(d) /\ (ClientGone(d) => ClientGone(d)'),
                  UNCHANGED <<tpc, buf, block_file>>
           PROVE  StreamsInv'
  BY <1>leaves, <1>same DEF StreamsInv
<1>client. ASSUME NEW c \in Clients, NEW h \in Names, ClientConnect(c, h) PROVE StreamsInv'
  <2>1. \A d \in Clients : ClientGone(d) => ClientGone(d)'
    BY <1>client DEF ClientConnect, ClientGone, TypeInv, TypeOK
  <2> QED
    BY <1>client, <1>all, <1>leaves, <2>1 DEF ClientConnect
<1>name. ASSUME NEW c \in Clients, ClientSend(c) PROVE StreamsInv'
  <2>1. \A d \in Clients : ClientGone(d) => ClientGone(d)'
    BY <1>name DEF ClientSend, ClientGone, TypeInv, TypeOK
  <2> QED
    BY <1>name, <1>all, <1>leaves, <2>1 DEF ClientSend
<1>take. ASSUME NEW c \in Clients, NEW n \in 1..(2 * Pieces), ClientRecv(c, n) PROVE StreamsInv'
  <2>1. \A d \in Clients : All(d)' = All(d)
    BY <1>take, TakeKeepsStream DEF TypeInv
  <2>2. \A d \in Clients : ClientGone(d) => ClientGone(d)'
    BY <1>take DEF ClientRecv, NextRecv, ClientGone, TypeInv, TypeOK
  <2> QED
    BY <1>take, <1>leaves, <2>1, <2>2 DEF ClientRecv
<1>eof. ASSUME NEW c \in Clients, ClientEof(c) PROVE StreamsInv'
  <2>1. \A d \in Clients : ClientGone(d) => ClientGone(d)'
    BY <1>eof DEF ClientEof, NextRecv, ClientGone, TypeInv, TypeOK
  <2> QED
    BY <1>eof, <1>all, <1>leaves, <2>1 DEF ClientEof
<1>reset. ASSUME NEW c \in Clients, ClientReset(c) PROVE StreamsInv'
  <2>1. \A d \in Clients : ClientGone(d) => ClientGone(d)'
    BY <1>reset DEF ClientReset, ClientGone, TypeInv, TypeOK
  <2> QED
    BY <1>reset, <1>all, <1>leaves, <2>1 DEF ClientReset
<1>quit. ASSUME NEW c \in Clients, ClientQuit(c) PROVE StreamsInv'
  <2>1. \A d \in Clients : ClientGone(d) => ClientGone(d)'
    BY <1>quit DEF ClientQuit, ClientGone, TypeInv, TypeOK
  <2> QED
    BY <1>quit, <1>all, <1>leaves, <2>1 DEF ClientQuit
<1>ends. ASSUME ProcessEnds PROVE StreamsInv'
  BY <1>ends, <1>all, <1>gone, <1>leaves DEF ProcessEnds
<1>stutter. ASSUME UNCHANGED vars PROVE StreamsInv'
  BY <1>stutter, <1>all, <1>gone, <1>leaves DEF vars
<1> QED
  BY <1>accept, <1>create, <1>start, <1>hello, <1>recv, <1>check, <1>deny, <1>connect, <1>fails,
     <1>fetch, <1>send, <1>close, <1>client, <1>name, <1>take, <1>eof, <1>reset, <1>quit, <1>ends,
     <1>stutter, StepCases

-----------------------------------------------------------------------------
(* Delivery                                                                *)

\* A stream is nothing, a greeting, or a greeting and an answer.
LEMMA StreamLengths ==
  ASSUME NEW c \in Clients, Stream(c)
  PROVE  /\ All(c) # << >> \/ ClientGone(c) \/ tpc[c] \in {"none", "start", "hello"}
         /\ buf[c] \in Hosts => Len(Greeting \o PageOf(buf[c])) = 2 * Pieces
<1>1. \A m \in Seq(Tokens) : Len(m) = Pieces => Len(Greeting \o m) = 2 * Pieces
  BY MessageTypes, ConcatProperties
<1>2. Greeting \o Refusal # << >> /\ \A h \in Hosts : Greeting \o PageOf(h) # << >>
  <2>1. Len(Greeting \o Refusal) # 0 /\ \A h \in Hosts : Len(Greeting \o PageOf(h)) # 0
    BY <1>1, MessageTypes
  <2> QED
    BY <2>1, EmptySeq
<1> QED
  BY <1>1, <1>2, MessageTypes DEF Stream, Denied, Served

\* Every step keeps the promise to the clients that still read.
LEMMA NextDeliveredInv ==
  ASSUME TypeInv, NameInv, StreamsInv, DeliveredInv, [Next]_vars
  PROVE  DeliveredInv'
<1> USE DEF serverVars, clientVars
<1>all. UNCHANGED <<got, down>> => \A d \in Clients : All(d)' = All(d)
  BY DEF All
<1>gone. UNCHANGED cpc => \A d \in Clients : ClientGone(d)' = ClientGone(d)
  BY DEF ClientGone
\* The client of d, its stream and its thread stay as they are.
<1>same. \A d \in Clients :
           /\ All(d)' = All(d) /\ got'[d] = got[d] /\ numbytes'[d] = numbytes[d]
           /\ cpc'[d] = cpc[d] /\ buf'[d] = buf[d] /\ buf2'[d] = buf2[d] /\ tpc'[d] = tpc[d]
           /\ (Closed(d)' <=> Closed(d)) /\ (proc' = "running" => proc = "running")
           => Delivered(d)'
  BY DEF DeliveredInv, Delivered, ClientGone
\* The thread of d goes on; if it is about to close the connection, it has sent
\* the page it has.
<1>goes. \A d \in Clients :
           /\ got'[d] = got[d] /\ numbytes'[d] = numbytes[d] /\ cpc'[d] = cpc[d]
           /\ proc' = "running" => proc = "running"
           /\ tpc[d] # "exited"
           /\ tpc'[d] \in {"close", "exited"} =>
                 \/ buf2'[d] = NULL
                 \/ ClientGone(d)'
                 \/ All(d)' = Greeting \o PageOf(buf'[d])
           => Delivered(d)'
  BY DEF DeliveredInv, Delivered, Closed
<1>accept. ASSUME NEW c \in Clients, Accept(c) PROVE DeliveredInv'
  <2>1. \A d \in Clients : Closed(d)' <=> Closed(d)
    BY <1>accept DEF Accept, Closed
  <2> QED
    BY <1>accept, <1>all, <1>same, <2>1 DEF Accept, DeliveredInv
<1>create. ASSUME CreateThread PROVE DeliveredInv'
  <2>1. /\ new_fd \in Clients /\ tpc[new_fd] = "none" /\ tpc'[new_fd] = "start"
        /\ \A d \in Clients \ {new_fd} : tpc'[d] = tpc[d] /\ (Closed(d)' <=> Closed(d))
    BY <1>create DEF CreateThread, Creating, TypeInv, TypeOK, Closed
  <2> QED
    BY <1>create, <1>all, <1>same, <1>goes, <2>1 DEF CreateThread, DeliveredInv
<1>start. ASSUME NEW c \in Clients, Start(c) PROVE DeliveredInv'
  <2>1. /\ tpc[c] = "start" /\ tpc'[c] = "hello"
        /\ \A d \in Clients \ {c} : tpc'[d] = tpc[d] /\ (Closed(d)' <=> Closed(d))
    BY <1>start DEF Start, Goto, TypeInv, TypeOK, Closed
  <2> QED
    BY <1>start, <1>all, <1>same, <1>goes, <2>1 DEF Start, DeliveredInv
<1>hello. ASSUME NEW c \in Clients, SayHello(c) PROVE DeliveredInv'
  <2>1. /\ tpc[c] = "hello" /\ tpc'[c] = "recv"
        /\ \A d \in Clients \ {c} : tpc'[d] = tpc[d] /\ (Closed(d)' <=> Closed(d))
    BY <1>hello DEF SayHello, Goto, TypeInv, TypeOK, Closed
  <2>2. \A d \in Clients \ {c} : All(d)' = All(d)
    <3>1. tfd[c] = c
      BY <2>1 DEF TypeInv, OwnConnection
    <3> QED
      BY <1>hello, <3>1, MessageTypes, SendsToOne DEF SayHello, TypeInv
  <2> QED
    BY <1>hello, <1>same, <1>goes, <2>1, <2>2 DEF SayHello, DeliveredInv
<1>recv. ASSUME NEW c \in Clients, Recv(c) PROVE DeliveredInv'
  <2>1. /\ tpc[c] = "recv" /\ tpc'[c] = "check"
        /\ \A d \in Clients \ {c} : tpc'[d] = tpc[d] /\ buf'[d] = buf[d] /\ (Closed(d)' <=> Closed(d))
    BY <1>recv DEF Recv, Goto, TypeInv, TypeOK, Closed
  <2> QED
    BY <1>recv, <1>all, <1>same, <1>goes, <2>1 DEF Recv, DeliveredInv
<1>check. ASSUME NEW c \in Clients, Check(c) PROVE DeliveredInv'
  <2>1. /\ tpc[c] = "check" /\ tpc'[c] \in {"deny", "connect"}
        /\ \A d \in Clients \ {c} : tpc'[d] = tpc[d] /\ (Closed(d)' <=> Closed(d))
    BY <1>check DEF Check, Goto, TypeInv, TypeOK, Closed
  <2> QED
    BY <1>check, <1>all, <1>same, <1>goes, <2>1 DEF Check, DeliveredInv
<1>deny. ASSUME NEW c \in Clients, Deny(c) PROVE DeliveredInv'
  <2>1. /\ tpc[c] = "deny" /\ tpc'[c] = "exited"
        /\ \A d \in Clients \ {c} : tpc'[d] = tpc[d] /\ (Closed(d)' <=> Closed(d))
    BY <1>deny DEF Deny, Goto, TypeInv, TypeOK, Closed
  <2>2. \A d \in Clients \ {c} : All(d)' = All(d)
    <3>1. tfd[c] = c
      BY <2>1 DEF TypeInv, OwnConnection
    <3> QED
      BY <1>deny, <3>1, MessageTypes, SendsToOne DEF Deny, TypeInv
  <2>3. buf2[c] = NULL
    BY <2>1 DEF NameInv, OwnName
  <2> QED
    BY <1>deny, <1>same, <1>goes, <2>1, <2>2, <2>3 DEF Deny, DeliveredInv
<1>connect. ASSUME NEW c \in Clients, Connect(c) PROVE DeliveredInv'
  <2>1. /\ tpc[c] = "connect" /\ tpc'[c] = "fetch"
        /\ \A d \in Clients \ {c} : tpc'[d] = tpc[d] /\ (Closed(d)' <=> Closed(d))
    BY <1>connect DEF Connect, Goto, TypeInv, TypeOK, Closed
  <2> QED
    BY <1>connect, <1>all, <1>same, <1>goes, <2>1 DEF Connect, DeliveredInv
<1>fails. ASSUME NEW c \in Clients, ConnectFails(c) PROVE DeliveredInv'
  <2>1. /\ tpc[c] = "connect" /\ tpc'[c] = "exited"
        /\ \A d \in Clients \ {c} : tpc'[d] = tpc[d] /\ (Closed(d)' <=> Closed(d))
    BY <1>fails DEF ConnectFails, Goto, TypeInv, TypeOK, Closed
  <2>3. buf2[c] = NULL
    BY <2>1 DEF NameInv, OwnName
  <2> QED
    BY <1>fails, <1>all, <1>same, <1>goes, <2>1, <2>3 DEF ConnectFails, DeliveredInv
<1>fetch. ASSUME NEW c \in Clients, Fetch(c) PROVE DeliveredInv'
  <2>1. /\ tpc[c] = "fetch" /\ tpc'[c] = "send"
        /\ \A d \in Clients \ {c} : tpc'[d] = tpc[d] /\ buf2'[d] = buf2[d] /\ (Closed(d)' <=> Closed(d))
    BY <1>fetch DEF Fetch, Goto, TypeInv, TypeOK, Closed
  <2> QED
    BY <1>fetch, <1>all, <1>same, <1>goes, <2>1 DEF Fetch, DeliveredInv
<1>send. ASSUME NEW c \in Clients, SendBack(c) PROVE DeliveredInv'
  <2>1. /\ tpc[c] = "send" /\ tpc'[c] = "close" /\ tfd[c] = c /\ buf[c] \in Hosts
        /\ \A d \in Clients \ {c} : tpc'[d] = tpc[d] /\ (Closed(d)' <=> Closed(d))
    BY <1>send DEF SendBack, Goto, TypeInv, TypeOK, OwnConnection, Closed
  <2>2. CASE buf2[c] = NULL
    BY <1>send, <1>all, <1>same, <1>goes, <2>1, <2>2 DEF SendBack, DeliveredInv
  <2>3. CASE buf2[c] # NULL
    <3>1. buf2[c] = buf[c]
      BY <2>3 DEF NameInv, OwnName
    <3>2. /\ \A d \in Clients \ {c} : All(d)' = All(d)
          /\ ~ClientGone(c) => All(c)' = All(c) \o PageOf(buf[c])
      BY <1>send, <2>1, <2>3, <3>1, MessageTypes, SendsToOne DEF SendBack, TypeInv
    <3>3. All(c) = Greeting \/ ClientGone(c)
      BY <2>1 DEF StreamsInv, Stream, Denied, Served
    <3>4. ClientGone(c)' \/ All(c)' = Greeting \o PageOf(buf'[c])
      BY <1>send, <1>gone, <3>2, <3>3 DEF SendBack
    <3> QED
      BY <1>send, <1>same, <1>goes, <2>1, <3>2, <3>4 DEF SendBack, DeliveredInv
  <2> QED
    BY <2>2, <2>3
<1>close. ASSUME NEW c \in Clients, CloseClient(c) PROVE DeliveredInv'
  <2>1. tpc[c] = "close" /\ tfd[c] = c
    BY <1>close DEF CloseClient, TypeInv, OwnConnection
  <2>2. /\ tpc'[c] = "exited"
        /\ \A d \in Clients \ {c} : tpc'[d] = tpc[d] /\ (Closed(d)' <=> Closed(d))
    BY <1>close, <2>1 DEF CloseClient, Goto, TypeInv, TypeOK, Closed
  <2>3. buf2[c] = NULL \/ ClientGone(c) \/ All(c) = Greeting \o PageOf(buf[c])
    BY <2>1 DEF DeliveredInv, Delivered
  <2> QED
    BY <1>close, <1>all, <1>gone, <1>same, <1>goes, <2>1, <2>2, <2>3 DEF CloseClient, DeliveredInv
\* A client's step leaves every thread alone.
<1>closed. UNCHANGED <<tpc, clientfds>> => \A d \in Clients : Closed(d)' <=> Closed(d)
  BY DEF Closed
\* The client of d is not one that waits, and was not one that had gone.
<1>leaves. ASSUME NEW d \in Clients, UNCHANGED <<tpc, clientfds, buf, buf2>>, All(d)' = All(d),
                  cpc'[d] \notin {"recv2", "done"}, ClientGone(d) => ClientGone(d)'
           PROVE  Delivered(d)'
  BY <1>leaves, <1>closed DEF DeliveredInv, Delivered
<1>client. ASSUME NEW c \in Clients, NEW h \in Names, ClientConnect(c, h) PROVE DeliveredInv'
  <2>1. ~ClientGone(c) /\ cpc'[c] = "connected" /\ \A d \in Clients \ {c} : cpc'[d] = cpc[d]
    BY <1>client DEF ClientConnect, ClientGone, TypeInv, TypeOK
  <2> QED
    BY <1>client, <1>all, <1>closed, <1>same, <1>leaves, <2>1 DEF ClientConnect, DeliveredInv
<1>name. ASSUME NEW c \in Clients, ClientSend(c) PROVE DeliveredInv'
  <2>1. ~ClientGone(c) /\ cpc'[c] = "recv1" /\ \A d \in Clients \ {c} : cpc'[d] = cpc[d]
    BY <1>name DEF ClientSend, ClientGone, TypeInv, TypeOK
  <2> QED
    BY <1>name, <1>all, <1>closed, <1>same, <1>leaves, <2>1 DEF ClientSend, DeliveredInv
<1>reset. ASSUME NEW c \in Clients, ClientReset(c) PROVE DeliveredInv'
  <2>1. ~ClientGone(c) /\ cpc'[c] = "dead" /\ \A d \in Clients \ {c} : cpc'[d] = cpc[d]
    BY <1>reset DEF ClientReset, ClientGone, TypeInv, TypeOK
  <2> QED
    BY <1>reset, <1>all, <1>closed, <1>same, <1>leaves, <2>1 DEF ClientReset, DeliveredInv
<1>quit. ASSUME NEW c \in Clients, ClientQuit(c) PROVE DeliveredInv'
  <2>1. ~ClientGone(c) /\ cpc'[c] = "dead" /\ \A d \in Clients \ {c} : cpc'[d] = cpc[d]
    BY <1>quit DEF ClientQuit, ClientGone, TypeInv, TypeOK
  <2> QED
    BY <1>quit, <1>all, <1>closed, <1>same, <1>leaves, <2>1 DEF ClientQuit, DeliveredInv
<1>take. ASSUME NEW c \in Clients, NEW n \in 1..(2 * Pieces), ClientRecv(c, n) PROVE DeliveredInv'
  <2>1. /\ \A d \in Clients : All(d)' = All(d)
        /\ \A d \in Clients \ {c} : got'[d] = got[d]
        /\ got'[c] \in Seq(Tokens) /\ Len(got'[c]) = Len(got[c]) + n
    BY <1>take, TakeKeepsStream DEF TypeInv
  <2>2. /\ cpc[c] \in {"recv1", "recv2"} /\ numbytes'[c] = n
        /\ cpc'[c] = IF cpc[c] = "recv1" THEN "recv2" ELSE "done"
        /\ \A d \in Clients \ {c} : cpc'[d] = cpc[d] /\ numbytes'[d] = numbytes[d]
    BY <1>take DEF ClientRecv, NextRecv, TypeInv, TypeOK
  <2>3. /\ Len(got[c]) \in Nat /\ n \in Nat \ {0} /\ Pieces \in Nat \ {0}
        /\ got[c] # << >> => Len(got[c]) # 0
    BY LenProperties, EmptySeq, LimitAssumption DEF TypeInv, TypeOK
  <2>4. got'[c] # << >>
    BY <2>1, <2>3, EmptySeq
  <2>5. got[c] # << >> => Len(got'[c]) > Pieces \/ n \in 1..(Pieces - 1)
    BY <2>1, <2>3
  <2>6. UNCHANGED <<proc, tpc, clientfds, buf, buf2>>
    BY <1>take DEF ClientRecv
  <2>7. Delivered(c)'
    <3>1. ~ClientGone(c)
      BY <2>2 DEF ClientGone
    <3>2. CASE cpc[c] = "recv1"
      BY <1>closed, <2>1, <2>2, <2>4, <2>6, <3>1, <3>2 DEF DeliveredInv, Delivered
    <3>3. CASE cpc[c] = "recv2"
      BY <1>closed, <2>1, <2>2, <2>5, <2>6, <3>1, <3>3 DEF DeliveredInv, Delivered
    <3> QED
      BY <2>2, <3>2, <3>3
  <2>8. \A d \in Clients \ {c} : Delivered(d)'
    BY <1>closed, <1>same, <2>1, <2>2, <2>6
  <2> QED
    BY <2>7, <2>8 DEF DeliveredInv
<1>eof. ASSUME NEW c \in Clients, ClientEof(c) PROVE DeliveredInv'
  <2>1. /\ cpc[c] \in {"recv1", "recv2"} /\ numbytes'[c] = 0
        /\ cpc'[c] = IF cpc[c] = "recv1" THEN "recv2" ELSE "done"
        /\ \A d \in Clients \ {c} : cpc'[d] = cpc[d] /\ numbytes'[d] = numbytes[d]
    BY <1>eof DEF ClientEof, NextRecv, TypeInv, TypeOK
  <2>2. UNCHANGED <<proc, tpc, clientfds, buf, buf2, got, down>>
    BY <1>eof DEF ClientEof
  <2>3. All(c) = got[c]
    BY <1>eof, ConcatEmptySeq DEF ClientEof, All, TypeInv, TypeOK
  <2>4. proc # "running" \/ Closed(c)
    BY <1>eof DEF ClientEof, ServerClosed, Closed
  <2>5. ~ClientGone(c)
    BY <2>1 DEF ClientGone
  <2>6. Closed(c) => got[c] # << >>
    BY <2>3, <2>5, StreamLengths DEF StreamsInv, Closed
  <2>7. Closed(c) /\ buf2[c] # NULL => Len(got[c]) > Pieces
    <3>1. SUFFICES ASSUME Closed(c), buf2[c] # NULL PROVE Len(got[c]) > Pieces
      OBVIOUS
    <3>2. got[c] = Greeting \o PageOf(buf[c]) /\ buf[c] \in Hosts
      BY <2>3, <2>5, <3>1 DEF DeliveredInv, Delivered, NameInv, OwnName, TypeInv, TypeOK
    <3>3. Len(got[c]) = 2 * Pieces
      BY <3>2, StreamLengths DEF StreamsInv
    <3> QED
      BY <3>3, LimitAssumption
  <2>8. Delivered(c)'
    <3>1. CASE cpc[c] = "recv1"
      BY <1>all, <1>closed, <2>1, <2>2, <2>4, <2>5, <2>6, <3>1 DEF DeliveredInv, Delivered
    <3>2. CASE cpc[c] = "recv2"
      BY <1>all, <1>closed, <2>1, <2>2, <2>4, <2>5, <2>7, <3>2 DEF DeliveredInv, Delivered
    <3> QED
      BY <2>1, <3>1, <3>2
  <2>9. \A d \in Clients \ {c} : Delivered(d)'
    BY <1>all, <1>closed, <1>same, <2>1, <2>2
  <2> QED
    BY <2>8, <2>9 DEF DeliveredInv
<1>ends. ASSUME ProcessEnds PROVE DeliveredInv'
  BY <1>ends, <1>all, <1>closed, <1>same DEF ProcessEnds, DeliveredInv
<1>stutter. ASSUME UNCHANGED vars PROVE DeliveredInv'
  BY <1>stutter, <1>all, <1>closed, <1>same DEF vars, DeliveredInv
<1> QED
  BY <1>accept, <1>create, <1>start, <1>hello, <1>recv, <1>check, <1>deny, <1>connect, <1>fails,
     <1>fetch, <1>send, <1>close, <1>client, <1>name, <1>take, <1>eof, <1>reset, <1>quit, <1>ends,
     <1>stutter, StepCases

-----------------------------------------------------------------------------
(* Sockets                                                                 *)

\* There are no more threads with a socket to a host than there are threads.
LEMMA HoldingFinite ==
  ASSUME CountInv
  PROVE  IsFiniteSet(Holding) /\ Cardinality(Holding) \in Nat
<1>1. Holding \subseteq Started
  BY DEF Holding, Talking, Closed, Started
<1> QED
  BY <1>1, FS_Subset, FS_CardinalityType DEF CountInv

\* Every step keeps count of the threads and of the descriptors they hold.
LEMMA NextCountInv ==
  ASSUME TypeInv, CountInv, [Next]_vars
  PROVE  CountInv'
<1> USE DEF serverVars, clientVars
\* A step that neither opens nor closes anything.
<1>same. ASSUME UNCHANGED <<mpc, new_fd, thread_num, clientfds, hostfds>>,
                Started' = Started, Holding' = Holding,
                \A d \in Clients : tpc'[d] # "exited" => tpc[d] # "exited"
         PROVE  CountInv'
  BY <1>same DEF CountInv, Started
<1>quiet. ASSUME UNCHANGED <<mpc, new_fd, thread_num, clientfds, hostfds, tpc>>
          PROVE  CountInv'
  BY <1>quiet, <1>same DEF Started, Holding, Talking, Closed
<1>accept. ASSUME NEW c \in Clients, Accept(c) PROVE CountInv'
  <2>1. Started' = Started /\ Holding' = Holding
    BY <1>accept DEF Accept, Started, Holding, Talking, Closed
  <2>2. clientfds' \subseteq Started \cup {new_fd'} /\ new_fd' \in clientfds'
    BY <1>accept DEF Accept, CountInv
  <2> QED
    BY <1>accept, <2>1, <2>2 DEF Accept, CountInv
<1>create. ASSUME CreateThread PROVE CountInv'
  <2>1. /\ new_fd \in Clients /\ new_fd \notin Started /\ new_fd \in clientfds
        /\ Started' = Started \cup {new_fd} /\ Holding' = Holding
    BY <1>create
       DEF CreateThread, CountInv, Creating, Started, Holding, Talking, Closed, TypeInv, TypeOK
  <2>2. IsFiniteSet(Started') /\ Cardinality(Started') = Cardinality(Started) + 1
    BY <2>1, FS_AddElement DEF CountInv
  <2>3. clientfds' \subseteq Started'
    BY <1>create, <2>1 DEF CreateThread, CountInv
  <2>4. \A d \in Started' : tpc'[d] # "exited" => d \in clientfds'
    BY <1>create, <2>1 DEF CreateThread, CountInv, Started, TypeInv, TypeOK
  <2> QED
    BY <1>create, <2>1, <2>2, <2>3, <2>4 DEF CreateThread, CountInv
<1>start. ASSUME NEW c \in Clients, Start(c) PROVE CountInv'
  <2>1. Started' = Started /\ Holding' = Holding
    BY <1>start DEF Start, Goto, Started, Holding, Talking, Closed, TypeInv, TypeOK
  <2> QED
    BY <1>start, <1>same, <2>1 DEF Start, Goto, TypeInv, TypeOK
<1>hello. ASSUME NEW c \in Clients, SayHello(c) PROVE CountInv'
  <2>1. Started' = Started /\ Holding' = Holding
    BY <1>hello DEF SayHello, Goto, Started, Holding, Talking, Closed, TypeInv, TypeOK
  <2> QED
    BY <1>hello, <1>same, <2>1 DEF SayHello, Goto, TypeInv, TypeOK
<1>recv. ASSUME NEW c \in Clients, Recv(c) PROVE CountInv'
  <2>1. Started' = Started /\ Holding' = Holding
    BY <1>recv DEF Recv, Goto, Started, Holding, Talking, Closed, TypeInv, TypeOK
  <2> QED
    BY <1>recv, <1>same, <2>1 DEF Recv, Goto, TypeInv, TypeOK
<1>check. ASSUME NEW c \in Clients, Check(c) PROVE CountInv'
  <2>1. Started' = Started /\ Holding' = Holding
    BY <1>check DEF Check, Goto, Started, Holding, Talking, Closed, TypeInv, TypeOK
  <2> QED
    BY <1>check, <1>same, <2>1 DEF Check, Goto, TypeInv, TypeOK
<1>deny. ASSUME NEW c \in Clients, Deny(c) PROVE CountInv'
  <2>1. c \in Started /\ c \in clientfds
    BY <1>deny DEF Deny, CountInv, Started
  <2>2. Started' = Started /\ Holding' = Holding
    BY <1>deny, <2>1 DEF Deny, Goto, Started, Holding, Talking, Closed, TypeInv, TypeOK
  <2> QED
    BY <1>deny, <1>same, <2>2 DEF Deny, Goto, TypeInv, TypeOK
<1>connect. ASSUME NEW c \in Clients, Connect(c) PROVE CountInv'
  <2>1. c \in Started /\ c \notin Holding /\ Started' = Started /\ Holding' = Holding \cup {c}
    BY <1>connect DEF Connect, Goto, Started, Holding, Talking, Closed, TypeInv, TypeOK
  <2>2. Cardinality(Holding') = Cardinality(Holding) + 1 /\ Cardinality(Holding) \in Nat
    BY <2>1, HoldingFinite, FS_AddElement
  <2>3. hostfds' <= Cardinality(Holding')
    BY <1>connect, <2>2 DEF Connect, CountInv, TypeInv, TypeOK
  <2>4. \A d \in Started' : tpc'[d] # "exited" => d \in clientfds'
    BY <1>connect, <2>1 DEF Connect, Goto, CountInv, TypeInv, TypeOK
  <2> QED
    BY <1>connect, <2>1, <2>3, <2>4 DEF Connect, CountInv
<1>fails. ASSUME NEW c \in Clients, ConnectFails(c) PROVE CountInv'
  <2>1. c \in Started /\ c \in clientfds
    BY <1>fails DEF ConnectFails, CountInv, Started
  <2>2. Started' = Started /\ Holding' = Holding
    BY <1>fails, <2>1 DEF ConnectFails, Goto, Started, Holding, Talking, Closed, TypeInv, TypeOK
  <2> QED
    BY <1>fails, <1>same, <2>2 DEF ConnectFails, Goto, TypeInv, TypeOK
<1>fetch. ASSUME NEW c \in Clients, Fetch(c) PROVE CountInv'
  <2>1. Started' = Started /\ Holding' = Holding
    BY <1>fetch DEF Fetch, Goto, Started, Holding, Talking, Closed, TypeInv, TypeOK
  <2> QED
    BY <1>fetch, <1>same, <2>1 DEF Fetch, Goto, TypeInv, TypeOK
<1>send. ASSUME NEW c \in Clients, SendBack(c) PROVE CountInv'
  <2>1. Started' = Started /\ Holding' = Holding
    BY <1>send DEF SendBack, Goto, Started, Holding, Talking, Closed, TypeInv, TypeOK
  <2> QED
    BY <1>send, <1>same, <2>1 DEF SendBack, Goto, TypeInv, TypeOK
<1>close. ASSUME NEW c \in Clients, CloseClient(c) PROVE CountInv'
  <2>1. tfd[c] = c /\ tpc[c] = "close"
    BY <1>close DEF CloseClient, TypeInv, OwnConnection
  <2>2. Started' = Started /\ Holding' = Holding
    BY <1>close, <2>1 DEF CloseClient, Goto, Started, Holding, Talking, Closed, TypeInv, TypeOK
  <2>3. \A d \in Started' : tpc'[d] # "exited" => d \in clientfds'
    BY <1>close, <2>1, <2>2 DEF CloseClient, Goto, CountInv, TypeInv, TypeOK
  <2>4. mpc' = "create" => new_fd' \in clientfds'
    BY <1>close, <2>1 DEF CloseClient, CountInv, TypeInv, Creating
  <2> QED
    BY <1>close, <2>2, <2>3, <2>4 DEF CloseClient, CountInv
<1>client. ASSUME NEW c \in Clients, NEW h \in Names, ClientConnect(c, h) PROVE CountInv'
  BY <1>client, <1>quiet DEF ClientConnect
<1>name. ASSUME NEW c \in Clients, ClientSend(c) PROVE CountInv'
  BY <1>name, <1>quiet DEF ClientSend
<1>take. ASSUME NEW c \in Clients, NEW n \in 1..(2 * Pieces), ClientRecv(c, n) PROVE CountInv'
  BY <1>take, <1>quiet DEF ClientRecv
<1>eof. ASSUME NEW c \in Clients, ClientEof(c) PROVE CountInv'
  BY <1>eof, <1>quiet DEF ClientEof
<1>reset. ASSUME NEW c \in Clients, ClientReset(c) PROVE CountInv'
  BY <1>reset, <1>quiet DEF ClientReset
<1>quit. ASSUME NEW c \in Clients, ClientQuit(c) PROVE CountInv'
  BY <1>quit, <1>quiet DEF ClientQuit
<1>ends. ASSUME ProcessEnds PROVE CountInv'
  BY <1>ends, <1>quiet DEF ProcessEnds
<1>stutter. ASSUME UNCHANGED vars PROVE CountInv'
  BY <1>stutter, <1>quiet DEF vars
<1> QED
  BY <1>accept, <1>create, <1>start, <1>hello, <1>recv, <1>check, <1>deny, <1>connect, <1>fails,
     <1>fetch, <1>send, <1>close, <1>client, <1>name, <1>take, <1>eof, <1>reset, <1>quit, <1>ends,
     <1>stutter, StepCases

-----------------------------------------------------------------------------
(* The theorems                                                            *)

\* The initial state satisfies the inductive invariant.
LEMMA InitIInv == Init => IInv
<1> SUFFICES ASSUME Init PROVE IInv
  OBVIOUS
<1>1. \A c \in Clients : All(c) = << >>
  BY DEF Init, All
<1>2. Begins(<< >>, << >>)
  BY EmptyBegins, EmptySeq
<1>3. NameInv
  BY <1>2 DEF Init, NameInv, OwnName, Unread
<1>4. StreamsInv /\ DeliveredInv
  BY <1>1 DEF Init, StreamsInv, DeliveredInv, Stream, Delivered, Closed
<1>5. Started = {} /\ Holding = {}
  BY DEF Init, Started, Holding, Talking, Closed
<1>6. CountInv
  BY <1>5, FS_EmptySet DEF Init, CountInv
<1> QED
  BY <1>3, <1>4, <1>6, InitTypeInv DEF IInv

\* Every step keeps the inductive invariant.
LEMMA NextIInv == IInv /\ [Next]_vars => IInv'
<1> SUFFICES ASSUME IInv, [Next]_vars PROVE IInv'
  OBVIOUS
<1>1. TypeInv /\ NameInv /\ StreamsInv /\ DeliveredInv /\ CountInv
  BY DEF IInv
<1>2. TypeInv' /\ NameInv' /\ StreamsInv' /\ DeliveredInv' /\ CountInv'
  BY <1>1, NextTypeInv, NextNameInv, NextStreamsInv, NextDeliveredInv, NextCountInv
<1> QED
  BY <1>2 DEF IInv

\* The inductive invariant holds throughout.
THEOREM Invariance == Spec => []IInv
BY InitIInv, NextIInv, PTL DEF Spec

\* A client is greeted first and once and then gets at most one answer, and that
\* answers what the thread received of the client's own name, wherever TCP cut and
\* joined the messages, whether or not the block list could be opened and whatever
\* the other connections do: the heap payload of pthread_create gives each thread
\* its own connection.
THEOREM OwnAnswer == Spec => []AnswerMatchesRequest
<1>1. IInv => AnswerMatchesRequest
  <2> SUFFICES ASSUME IInv, NEW c \in Clients
               PROVE  \/ All(c) = << >>
                      \/ All(c) = Greeting
                      \/ All(c) = Greeting \o Refusal /\ Begins(buf[c], name[c]) /\ Refusable(c)
                      \/ /\ All(c) = Greeting \o PageOf(buf[c])
                         /\ Begins(buf[c], name[c]) /\ Servable(c)
    BY DEF AnswerMatchesRequest, All
  <2>1. Stream(c) /\ Begins(buf[c], name[c])
    BY DEF IInv, StreamsInv, NameInv, OwnName
  <2> QED
    BY <2>1 DEF Stream, Denied, Served
<1> QED
  BY <1>1, Invariance, PTL

\* A client that has called recv() twice has the beginning of its answer, however
\* the greeting and the answer were cut and joined, unless the greeting alone took
\* both calls or the connection was closed on a host that sent nothing.
THEOREM TwoReadsSuffice == Spec => []DoneHasAnswer
<1>1. IInv => DoneHasAnswer
  <2> SUFFICES ASSUME IInv, NEW c \in Clients, cpc[c] = "done", proc = "running",
                      ~(numbytes[c] \in 1..(Pieces - 1)),
                      ~(numbytes[c] = 0 /\ Closed(c) /\ buf2[c] = NULL)
               PROVE  \E j \in 1..Len(got[c]) : got[c][j].kind # "hello"
    BY DEF DoneHasAnswer, Closed
  <2>1. Len(got[c]) > Pieces
    BY DEF IInv, DeliveredInv, Delivered
  <2>2. got[c] \in Seq(Tokens) /\ down[c] \in Seq(Tokens) /\ Pieces \in Nat \ {0}
    BY LimitAssumption DEF IInv, TypeInv, TypeOK
  <2>3. /\ All(c)[Pieces + 1] = got[c][Pieces + 1] /\ Len(All(c)) > Pieces
        /\ Pieces + 1 \in 1..Len(got[c])
    <3> DEFINE g == got[c]
               d == down[c]
    <3>1. g \in Seq(Tokens) /\ d \in Seq(Tokens) /\ Len(g) > Pieces
      BY <2>1, <2>2
    <3> HIDE DEF g, d
    <3>2. Len(d) \in Nat /\ Len(g) \in Nat
      BY <3>1, LenProperties
    <3>3. Len(g \o d) = Len(g) + Len(d) /\ Pieces + 1 \in 1..Len(g)
      BY <2>2, <3>1, <3>2, ConcatProperties
    <3>4. (g \o d)[Pieces + 1] = g[Pieces + 1]
      BY <3>1, <3>2, <3>3, ConcatProperties
    <3>5. Len(g \o d) > Pieces
      BY <2>2, <3>1, <3>2, <3>3
    <3> QED
      BY <3>3, <3>4, <3>5 DEF g, d, All
  <2>4. \/ All(c) = Greeting \o Refusal
        \/ All(c) = Greeting \o PageOf(buf[c]) /\ buf[c] \in Hosts
    <3>1. All(c) # << >> /\ All(c) # Greeting
      BY <2>2, <2>3, MessageTypes, EmptySeq
    <3> QED
      BY <3>1 DEF IInv, StreamsInv, Stream, Denied, Served
  <2>5. All(c)[Pieces + 1].kind # "hello"
    <3>1. ASSUME NEW m \in Seq(Tokens), Len(m) = Pieces
          PROVE  (Greeting \o m)[Pieces + 1] = m[1]
      BY <2>2, <3>1, MessageTypes, ConcatProperties
    <3> QED
      BY <2>4, <3>1, MessageTypes
  <2> QED
    BY <2>3, <2>5
<1> QED
  BY <1>1, Invariance, PTL

\* The server never holds more than two descriptors per connection that is over
\* and three per connection whose host it is talking to, although every way out of
\* connection_thread leaves some open.
THEOREM SocketsBounded == Spec => []DescriptorsBounded
<1>1. IInv => DescriptorsBounded
  <2> SUFFICES ASSUME IInv PROVE DescriptorsBounded
    OBVIOUS
  <2> DEFINE creating == IF mpc = "create" THEN {new_fd} ELSE {}
             extra    == IF mpc = "create" THEN 1 ELSE 0
  <2>1. thread_num \in Nat /\ hostfds \in Nat /\ clientfds \subseteq Clients
    BY LimitAssumption DEF IInv, TypeInv, TypeOK
  <2>2. /\ IsFiniteSet(Started) /\ Cardinality(Started) = thread_num
        /\ hostfds <= Cardinality(Holding) /\ clientfds \subseteq Started \cup creating
    BY DEF IInv, CountInv
  <2>3. /\ IsFiniteSet(Started \cup creating)
        /\ Cardinality(Started \cup creating) \in Nat
        /\ Cardinality(Started \cup creating) <= thread_num + extra
    <3>1. CASE mpc = "create"
      <4>1. /\ IsFiniteSet(Started \cup {new_fd})
            /\ Cardinality(Started \cup {new_fd}) \in {thread_num, thread_num + 1}
        BY <2>2, FS_AddElement
      <4>2. Started \cup creating = Started \cup {new_fd} /\ extra = 1
        BY <3>1
      <4> QED
        BY <2>1, <4>1, <4>2
    <3>2. CASE mpc # "create"
      <4>1. Started \cup creating = Started
        BY <3>2
      <4> QED
        BY <2>1, <2>2, <3>2, <4>1, FS_CardinalityType
    <3> QED
      BY <3>1, <3>2
  <2>4. Holding \subseteq Started /\ Talking \subseteq Started
    BY DEF Holding, Talking, Closed, Started
  <2>5. clientfds \cap Holding \subseteq Talking
    BY DEF Holding, Closed
  <2>6. Reading \subseteq Started
    BY DEF Reading, Started, IInv, NameInv, OwnName, Unread
  <2> HIDE DEF creating
  <2>7. /\ IsFiniteSet(clientfds) /\ IsFiniteSet(Holding) /\ IsFiniteSet(Talking)
        /\ IsFiniteSet(Reading) /\ Cardinality(Reading) <= thread_num
    <3>1. clientfds \in SUBSET (Started \cup creating)
      BY <2>2
    <3> QED
      BY <2>2, <2>3, <2>4, <2>6, <3>1, FS_Subset
  <2>8. /\ Cardinality(clientfds) \in Nat /\ Cardinality(Holding) \in Nat
        /\ Cardinality(Talking) \in Nat /\ Cardinality(Reading) \in Nat
    BY <2>7, FS_CardinalityType
  <2>9. Cardinality(clientfds \cup Holding) =
          Cardinality(clientfds) + Cardinality(Holding) - Cardinality(clientfds \cap Holding)
    BY <2>7, FS_Union
  <2>10. /\ Cardinality(clientfds \cap Holding) \in Nat
         /\ Cardinality(clientfds \cap Holding) <= Cardinality(Talking)
    <3>1. clientfds \cap Holding \in SUBSET Talking
      BY <2>5
    <3> QED
      BY <2>7, <3>1, FS_Subset, FS_CardinalityType
  <2>11. /\ Cardinality(clientfds \cup Holding) \in Nat
         /\ Cardinality(clientfds \cup Holding) <= thread_num + extra
    <3>1. clientfds \cup Holding \in SUBSET (Started \cup creating)
      BY <2>2, <2>4
    <3>2. /\ IsFiniteSet(clientfds \cup Holding)
          /\ Cardinality(clientfds \cup Holding) <= Cardinality(Started \cup creating)
      BY <2>3, <3>1, FS_Subset
    <3>3. Cardinality(clientfds \cup Holding) \in Nat
      BY <3>2, FS_CardinalityType
    <3> QED
      BY <2>1, <2>3, <3>2, <3>3
  <2>12. Open = Cardinality(clientfds) + hostfds + Cardinality(Reading)
    BY DEF Open, Reading
  <2> QED
    BY <2>1, <2>2, <2>7, <2>8, <2>9, <2>10, <2>11, <2>12 DEF DescriptorsBounded
<1> QED
  BY <1>1, Invariance, PTL

=============================================================================
