--------------------------- MODULE MultiprocServ ---------------------------
(***************************************************************************)
(* The thread-per-connection proxy of multiproc_serv.c together with its   *)
(* client, multiproc_client.c.                                             *)
(*                                                                         *)
(* main accepts MAX_THREADS connections, gives each a connection_thread    *)
(* with a payload of its own on the heap, and returns, which ends the      *)
(* process and every thread in it.  A connection_thread greets its client, *)
(* receives a host name, refuses it or fetches the page of that host, and  *)
(* passes the page on.  The client sends its name and calls recv() exactly *)
(* twice.                                                                  *)
(*                                                                         *)
(* A connection, the thread main creates for it and the client at its      *)
(* other end bear the same name.  A host name is a sequence of letters and *)
(* every other message a sequence of pieces; a recv() returns any part of  *)
(* what has arrived, from its beginning: TCP may cut and join messages     *)
(* anywhere.                                                               *)
(***************************************************************************)
EXTENDS Naturals, Sequences, FiniteSets

CONSTANTS
  Clients,
  Names,        \* the names clients ask for
  Hosts,        \* the names that resolve
  File,         \* the lines of blocked_list.txt
  Pieces,       \* bound: the pieces a message may be cut into
  MAX_THREADS,
  NULL          \* no client, no page

\* A line, with or without the newline that ends it.
Lines == [text : Seq(STRING), nl : BOOLEAN]

ASSUME NamesAssumption ==
  /\ Names \subseteq Seq(STRING) /\ Hosts \subseteq Seq(STRING) \ {<< >>}
  /\ NULL \notin Hosts \cup Clients
ASSUME FileAssumption  == File \subseteq Lines /\ \A line \in File : line.nl \/ line.text # << >>
ASSUME LimitAssumption == MAX_THREADS \in Nat \ {0} /\ Pieces \in Nat \ {0}

VARIABLES
  proc,         \* "running", "returned" from main, or ended by "exit", "sigpipe", "fault"
  mpc,          \* main: "accept" or "create"
  new_fd,       \* main's local new_fd
  thread_num,
  load,         \* the payload of each thread: its new_fd
  tpc,          \* program counter of each connection_thread
  tfd,          \* its local new_fd
  buf,          \* its local buf: what has been received of a name
  block_file,   \* its local block_file: "unset", "open" or "NULL"
  buf2,         \* its local buf2: the host whose page was received (NULL: empty)
  clientfds,    \* connections whose server end is open
  hostfds,      \* the number of sockets sockfd2 that are open
  cpc,          \* program counter of each client
  name,         \* the host name on its command line
  up,           \* the letters on their way to the server
  down,         \* the pieces on their way to the client
  got,          \* the pieces the client has received
  numbytes      \* its local numbytes: how many the last recv() returned

serverVars == <<proc, mpc, new_fd, thread_num, load, tpc, tfd, buf, block_file, buf2,
                clientfds, hostfds>>
clientVars == <<cpc, name, up, down, got, numbytes>>
vars == <<serverVars, clientVars>>

Message(kind, host) == [i \in 1..Pieces |-> [kind |-> kind, host |-> host, part |-> i]]
Greeting  == Message("hello", NULL)
Refusal   == Message("blocked", NULL)
PageOf(h) == Message("page", h)

Tokens == [kind : {"hello", "blocked", "page"}, host : Hosts \cup {NULL}, part : 1..Pieces]

ThreadPCs == {"none", "start", "hello", "recv", "check", "deny", "connect", "fetch", "send",
              "close", "exited"}
ClientPCs == {"idle", "connected", "recv1", "recv2", "done", "dead"}

ClientGone(c) == cpc[c] \in {"done", "dead"}

\* The server's end of the connection is closed: by its thread, or because the
\* process has ended.  A connection main never accepted ends with the process.
ServerClosed(c) == proc # "running" \/ (tpc[c] = "exited" /\ c \notin clientfds)

\* The descriptors the process has open besides the listening socket.
Open == Cardinality(clientfds) + hostfds + Cardinality({c \in Clients : block_file[c] = "open"})

-----------------------------------------------------------------------------
(* main                                                                    *)

Accept(c) ==
  /\ mpc = "accept" /\ thread_num < MAX_THREADS
  /\ cpc[c] # "idle" /\ tpc[c] = "none"
  /\ new_fd' = c
  /\ clientfds' = clientfds \cup {c}
  /\ mpc' = "create"
  /\ UNCHANGED <<proc, thread_num, load, tpc, tfd, buf, block_file, buf2, hostfds, clientVars>>

\* accept() fails (the client has given up, the system is out of files): main
\* leaves its loop and returns.
AcceptFails ==
  /\ mpc = "accept" /\ thread_num < MAX_THREADS
  /\ \E c \in Clients : cpc[c] # "idle" /\ tpc[c] = "none"
  /\ proc' = "returned"
  /\ UNCHANGED <<mpc, new_fd, thread_num, load, tpc, tfd, buf, block_file, buf2, clientfds, hostfds,
                 clientVars>>

CreateThread ==
  /\ mpc = "create"
  /\ load' = [load EXCEPT ![new_fd] = new_fd]
  /\ tpc' = [tpc EXCEPT ![new_fd] = "start"]
  /\ thread_num' = thread_num + 1
  /\ mpc' = "accept"
  /\ UNCHANGED <<proc, new_fd, tfd, buf, block_file, buf2, clientfds, hostfds, clientVars>>

\* The loop is over after MAX_THREADS connections: main returns.
MainReturns ==
  /\ mpc = "accept" /\ thread_num = MAX_THREADS
  /\ proc' = "returned"
  /\ UNCHANGED <<mpc, new_fd, thread_num, load, tpc, tfd, buf, block_file, buf2, clientfds, hostfds,
                 clientVars>>

Main == (\E c \in Clients : Accept(c)) \/ AcceptFails \/ CreateThread \/ MainReturns

-----------------------------------------------------------------------------
(* connection_thread                                                       *)

Goto(c, pc) == tpc' = [tpc EXCEPT ![c] = pc]

\* The whole process ends in thread c.
Dies(why) ==
  /\ proc' = why
  /\ UNCHANGED <<mpc, new_fd, thread_num, load, tpc, tfd, buf, block_file, buf2, clientfds, hostfds,
                 clientVars>>

\* send(new_fd, ...): lost without a trace when the client has gone.
Sends(f, message) == down' = IF ClientGone(f) THEN down ELSE [down EXCEPT ![f] = @ \o message]

\* Mutant of Start: the thread reads main's variable instead of its payload.
StartShared(c) ==
  /\ tpc[c] = "start"
  /\ tfd' = [tfd EXCEPT ![c] = new_fd]
  /\ Goto(c, "hello")
  /\ UNCHANGED <<proc, mpc, new_fd, thread_num, load, buf, block_file, buf2, clientfds, hostfds, clientVars>>

Start(c) ==
  /\ tpc[c] = "start"
  /\ tfd' = [tfd EXCEPT ![c] = load[c]]
  /\ Goto(c, "hello")
  /\ UNCHANGED <<proc, mpc, new_fd, thread_num, load, buf, block_file, buf2, clientfds, hostfds, clientVars>>

SayHello(c) ==
  /\ tpc[c] = "hello"
  /\ Sends(tfd[c], Greeting)
  /\ Goto(c, "recv")
  /\ UNCHANGED <<proc, mpc, new_fd, thread_num, load, tfd, buf, block_file, buf2, clientfds, hostfds,
                 cpc, name, up, got, numbytes>>

\* One recv() returns the name or the part of it that has arrived or, when the
\* client has gone without sending one, zero bytes; buf[numbytes] = 0 ends it.
Recv(c) ==
  /\ tpc[c] = "recv"
  /\ \E n \in 0..Len(up[tfd[c]]) :
       /\ n = 0 => up[tfd[c]] = << >> /\ ClientGone(tfd[c])
       /\ buf' = [buf EXCEPT ![c] = SubSeq(up[tfd[c]], 1, n)]
       /\ up' = [up EXCEPT ![tfd[c]] = SubSeq(@, n + 1, Len(@))]
  /\ Goto(c, "check")
  /\ UNCHANGED <<proc, mpc, new_fd, thread_num, load, tfd, block_file, buf2, clientfds, hostfds,
                 cpc, name, down, got, numbytes>>

\* Mutant of RecvFails: the result -1 is not looked at, and buf holds whatever
\* was on the stack.
RecvUnchecked(c) ==
  /\ tpc[c] = "recv"
  /\ up[tfd[c]] = << >> /\ ClientGone(tfd[c]) /\ down[tfd[c]] # << >>
  /\ buf' = [buf EXCEPT ![c] = NULL]
  /\ Goto(c, "check")
  /\ UNCHANGED <<proc, mpc, new_fd, thread_num, load, tfd, block_file, buf2, clientfds, hostfds,
                 clientVars>>

\* The connection was reset by a client that left without reading the greeting.
RecvFails(c) ==
  /\ tpc[c] = "recv"
  /\ up[tfd[c]] = << >> /\ ClientGone(tfd[c]) /\ down[tfd[c]] # << >>
  /\ Dies("exit")

\* block_line[strlen(block_line)-1] = '\0': the newline, or a last letter.
Cut(line) == IF line.nl THEN line.text ELSE SubSeq(line.text, 1, Len(line.text) - 1)
Listed == {Cut(line) : line \in File}

\* blocked_list.txt is opened, and never closed, and the name compared with every
\* line of it; if it cannot be opened, nothing is blocked.
Check(c) ==
  /\ tpc[c] = "check"
  /\ \E f \in {"open", "NULL"} :
       /\ block_file' = [block_file EXCEPT ![c] = f]
       /\ Goto(c, IF f = "open" /\ buf[c] \in Listed THEN "deny" ELSE "connect")
  /\ UNCHANGED <<proc, mpc, new_fd, thread_num, load, tfd, buf, buf2, clientfds, hostfds,
                 clientVars>>

\* The refusal is sent and the thread exits; new_fd and block_file stay open.
Deny(c) ==
  /\ tpc[c] = "deny"
  /\ Sends(tfd[c], Refusal)
  /\ Goto(c, "exited")
  /\ UNCHANGED <<proc, mpc, new_fd, thread_num, load, tfd, buf, block_file, buf2, clientfds, hostfds,
                 cpc, name, up, got, numbytes>>

\* Mutant of Connect: the socket of an address that failed is not closed.
ConnectLeaky(c) ==
  /\ tpc[c] = "connect" /\ buf[c] \in Hosts
  /\ \E tried \in 1..2 : hostfds' = hostfds + tried
  /\ Goto(c, "fetch")
  /\ UNCHANGED <<proc, mpc, new_fd, thread_num, load, tfd, buf, block_file, buf2, clientfds, clientVars>>

\* One of the addresses of the host accepts the connection; the request is
\* written to it.  The sockets of the addresses tried before it are closed.
Connect(c) ==
  /\ tpc[c] = "connect" /\ buf[c] \in Hosts
  /\ hostfds' = hostfds + 1
  /\ Goto(c, "fetch")
  /\ UNCHANGED <<proc, mpc, new_fd, thread_num, load, tfd, buf, block_file, buf2, clientfds, clientVars>>

\* No address accepts, or no socket can be made: the thread exits, and new_fd
\* stays open.  The same when the name does not resolve and the uninitialised
\* servinfo2 happens to be NULL.
ConnectFails(c) ==
  /\ tpc[c] = "connect"
  /\ Goto(c, "exited")
  /\ UNCHANGED <<proc, mpc, new_fd, thread_num, load, tfd, buf, block_file, buf2, clientfds, hostfds,
                 clientVars>>

\* The name does not resolve and the uninitialised servinfo2 is followed.
ResolveFaults(c) == tpc[c] = "connect" /\ Dies("fault")

\* Mutant of Fetch: the page is read and then forgotten.
FetchAndClose(c) ==
  /\ tpc[c] = "fetch"
  /\ \E page \in {buf[c], NULL} : buf2' = [buf2 EXCEPT ![c] = page]
  /\ Goto(c, "close")
  /\ UNCHANGED <<proc, mpc, new_fd, thread_num, load, tfd, buf, block_file, clientfds, hostfds, clientVars>>

\* The host answers with a page, or closes the connection without one.
Fetch(c) ==
  /\ tpc[c] = "fetch"
  /\ \E page \in {buf[c], NULL} : buf2' = [buf2 EXCEPT ![c] = page]
  /\ Goto(c, "send")
  /\ UNCHANGED <<proc, mpc, new_fd, thread_num, load, tfd, buf, block_file, clientfds, hostfds, clientVars>>

\* recv() from the host fails.
FetchFails(c) == tpc[c] = "fetch" /\ Dies("exit")

SendBack(c) ==
  /\ tpc[c] = "send"
  /\ IF buf2[c] = NULL THEN UNCHANGED down ELSE Sends(tfd[c], PageOf(buf2[c]))
  /\ Goto(c, "close")
  /\ UNCHANGED <<proc, mpc, new_fd, thread_num, load, tfd, buf, block_file, buf2, clientfds, hostfds,
                 cpc, name, up, got, numbytes>>

\* A second send() to a client that has gone raises SIGPIPE, which is not
\* ignored here.
SendKills(c) ==
  /\ tpc[c] \in {"deny", "send"}
  /\ ClientGone(tfd[c])
  /\ tpc[c] = "send" => buf2[c] # NULL
  /\ Dies("sigpipe")

\* Mutant of CloseClient: the thread exits without closing new_fd.
ExitOpen(c) ==
  /\ tpc[c] = "close"
  /\ Goto(c, "exited")
  /\ UNCHANGED <<proc, mpc, new_fd, thread_num, load, tfd, buf, block_file, buf2, clientfds, hostfds,
                 clientVars>>

\* close(new_fd) and exit; sockfd2 and block_file stay open.
CloseClient(c) ==
  /\ tpc[c] = "close"
  /\ clientfds' = clientfds \ {tfd[c]}
  /\ Goto(c, "exited")
  /\ UNCHANGED <<proc, mpc, new_fd, thread_num, load, tfd, buf, block_file, buf2, hostfds, clientVars>>

\* What the thread does without waiting for its host.
ThreadStep(c) ==
  \/ Start(c) \/ SayHello(c) \/ Recv(c) \/ RecvFails(c) \/ Check(c) \/ Deny(c)
  \/ Connect(c) \/ ConnectFails(c) \/ ResolveFaults(c)
  \/ SendBack(c) \/ SendKills(c) \/ CloseClient(c)

ConnectionThread(c) == ThreadStep(c) \/ Fetch(c) \/ FetchFails(c)

-----------------------------------------------------------------------------
(* multiproc_client.c                                                      *)

\* The client connects to a running server.
ClientConnect(c, h) ==
  /\ cpc[c] = "idle" /\ proc = "running"
  /\ name' = [name EXCEPT ![c] = h]
  /\ cpc' = [cpc EXCEPT ![c] = "connected"]
  /\ UNCHANGED <<serverVars, up, down, got, numbytes>>

\* The name is sent; a failure is only reported.
ClientSend(c) ==
  /\ cpc[c] = "connected"
  /\ up' = IF ServerClosed(c) THEN up ELSE [up EXCEPT ![c] = name[c]]
  /\ cpc' = [cpc EXCEPT ![c] = "recv1"]
  /\ UNCHANGED <<serverVars, name, down, got, numbytes>>

NextRecv(c) == cpc' = [cpc EXCEPT ![c] = IF @ = "recv1" THEN "recv2" ELSE "done"]

\* One of the two calls of recv() returns the first n pieces that have arrived.
ClientRecv(c, n) ==
  /\ cpc[c] \in {"recv1", "recv2"}
  /\ n \in 1..Len(down[c])
  /\ got' = [got EXCEPT ![c] = @ \o SubSeq(down[c], 1, n)]
  /\ down' = [down EXCEPT ![c] = SubSeq(@, n + 1, Len(@))]
  /\ numbytes' = [numbytes EXCEPT ![c] = n]
  /\ NextRecv(c)
  /\ UNCHANGED <<serverVars, name, up>>

\* recv() returns 0: the server has closed its end.
ClientEof(c) ==
  /\ cpc[c] \in {"recv1", "recv2"}
  /\ down[c] = << >> /\ ServerClosed(c)
  /\ numbytes' = [numbytes EXCEPT ![c] = 0]
  /\ NextRecv(c)
  /\ UNCHANGED <<serverVars, name, up, down, got>>

\* recv() fails: the server's end was closed with letters of the name unread.
ClientReset(c) ==
  /\ cpc[c] \in {"recv1", "recv2"}
  /\ ServerClosed(c) /\ up[c] # << >>
  /\ cpc' = [cpc EXCEPT ![c] = "dead"]
  /\ UNCHANGED <<serverVars, name, up, down, got, numbytes>>

\* The user stops the client.
ClientQuit(c) ==
  /\ cpc[c] \in {"connected", "recv1", "recv2"}
  /\ cpc' = [cpc EXCEPT ![c] = "dead"]
  /\ UNCHANGED <<serverVars, name, up, down, got, numbytes>>

\* What the client does by itself, without its user.
ClientStep(c) ==
  \/ ClientSend(c)
  \/ \E n \in 1..(2 * Pieces) : ClientRecv(c, n)
  \/ ClientEof(c)
  \/ ClientReset(c)

Client(c) == (\E h \in Names : ClientConnect(c, h)) \/ ClientStep(c) \/ ClientQuit(c)

-----------------------------------------------------------------------------
(* The specification                                                       *)

Init ==
  /\ proc = "running" /\ mpc = "accept" /\ new_fd = NULL /\ thread_num = 0
  /\ load = [c \in Clients |-> NULL]
  /\ tpc = [c \in Clients |-> "none"]
  /\ tfd = [c \in Clients |-> NULL]
  /\ buf = [c \in Clients |-> << >>]
  /\ block_file = [c \in Clients |-> "unset"]
  /\ buf2 = [c \in Clients |-> NULL]
  /\ clientfds = {} /\ hostfds = 0
  /\ cpc = [c \in Clients |-> "idle"]
  /\ name = [c \in Clients |-> << >>] /\ up = [c \in Clients |-> << >>]
  /\ down = [c \in Clients |-> << >>] /\ got = [c \in Clients |-> << >>]
  /\ numbytes = [c \in Clients |-> 0]

\* No client is left and no thread has anything to do: main waits in accept().
Finished ==
  /\ \A c \in Clients : ClientGone(c) \/ cpc[c] = "idle"
  /\ proc = "running" => \A c \in Clients : tpc[c] = "exited"
  /\ UNCHANGED vars

Next ==
  \/ proc = "running" /\ Main
  \/ \E c \in Clients : proc = "running" /\ ConnectionThread(c)
  \/ \E c \in Clients : Client(c)
  \/ Finished

Spec == Init /\ [][Next]_vars

\* Every thread of the server and every client is scheduled; nothing is assumed
\* of the users and the hosts.
Fairness ==
  /\ WF_vars(proc = "running" /\ Main)
  /\ \A c \in Clients : WF_vars(proc = "running" /\ ThreadStep(c))
  /\ \A c \in Clients : WF_vars(ClientStep(c))

FairSpec == Spec /\ Fairness

-----------------------------------------------------------------------------
(* Properties                                                              *)

\* Every variable holds a value of its type.
TypeOK ==
  /\ proc \in {"running", "returned", "exit", "sigpipe", "fault"}
  /\ mpc \in {"accept", "create"}
  /\ new_fd \in Clients \cup {NULL}
  /\ thread_num \in 0..MAX_THREADS
  /\ load \in [Clients -> Clients \cup {NULL}]
  /\ tpc \in [Clients -> ThreadPCs]
  /\ tfd \in [Clients -> Clients \cup {NULL}]
  /\ buf \in [Clients -> Seq(STRING)]
  /\ block_file \in [Clients -> {"unset", "open", "NULL"}]
  /\ buf2 \in [Clients -> Hosts \cup {NULL}]
  /\ clientfds \subseteq Clients /\ hostfds \in Nat
  /\ cpc \in [Clients -> ClientPCs]
  /\ name \in [Clients -> Seq(STRING)]
  /\ up \in [Clients -> Seq(STRING)]
  /\ down \in [Clients -> Seq(Tokens)]
  /\ got \in [Clients -> Seq(Tokens)]
  /\ numbytes \in [Clients -> Nat]

\* Whatever the interleaving and the cuts, a client receives the greeting first
\* and once, then at most one answer, and the answer is to what arrived of its own
\* name: a refusal only when a line of the block list reads so, or the last one
\* does up to its last letter and has no newline; the page of that very host, and
\* only when no line that ends in a newline reads so or the list cannot be opened.
Begins(p, n) == Len(p) <= Len(n) /\ p = SubSeq(n, 1, Len(p))
Refusable(c) ==
  /\ block_file[c] = "open"
  /\ \E line \in File : line.text = buf[c] \/ (~line.nl /\ Begins(buf[c], line.text))
Servable(c) ==
  \/ block_file[c] = "NULL"
  \/ \A line \in File : line.nl => line.text # buf[c]
AnswerMatchesRequest ==
  \A c \in Clients : LET all == got[c] \o down[c] IN
    \/ all = << >>
    \/ all = Greeting
    \/ all = Greeting \o Refusal        /\ Begins(buf[c], name[c]) /\ Refusable(c)
    \/ all = Greeting \o PageOf(buf[c]) /\ Begins(buf[c], name[c]) /\ Servable(c)

\* A client that ends normally has the beginning of its answer, although it calls
\* recv() just twice and the messages may come joined or apart, unless the
\* greeting came cut and took both calls, or the host sent no page and the thread
\* has closed the connection, or the server process ended first.
DoneHasAnswer ==
  \A c \in Clients : cpc[c] = "done" =>
    \/ \E j \in 1..Len(got[c]) : got[c][j].kind # "hello"
    \/ numbytes[c] \in 1..(Pieces - 1)
    \/ numbytes[c] = 0 /\ tpc[c] = "exited" /\ c \notin clientfds /\ buf2[c] = NULL
    \/ proc # "running"

\* Threads leave descriptors open on all of their ways out, but a connection that
\* is over has cost two at most, and one whose host is being talked to three: with
\* room for 3 * MAX_THREADS of them the server does not run out.
Talking == {c \in Clients : tpc[c] \in {"fetch", "send", "close"}}
DescriptorsBounded ==
  Open <= 2 * thread_num + Cardinality(Talking) + (IF mpc = "create" THEN 1 ELSE 0)

\* A client whose thread has fetched the host's answer ends by itself: the
\* closing of new_fd makes up for a page that is empty or came along with the
\* greeting.
ServedClientsFinish == \A c \in Clients : tpc[c] = "send" ~> ClientGone(c)

\* "Get connection and send() back to original client" (multiproc_serv.c:92):
\* a page that has been received from the host reaches the client, unless that
\* client has been stopped.
PageSentBack ==
  \A c \in Clients :
    tpc[c] = "send" /\ buf2[c] # NULL ~>
      cpc[c] = "dead" \/ \E j \in 1..Len(got[c]) : got[c][j].kind = "page"

=============================================================================
