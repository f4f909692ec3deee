---------------------------- MODULE ProxyServer ----------------------------
(***************************************************************************)
(* The threaded CONNECT proxy of server.c, with the helpers of utils.c it  *)
(* calls.                                                                  *)
(*                                                                         *)
(* The process runs one main thread (the accept loop), one                 *)
(* HandleConnection thread per accepted connection and, for a connection   *)
(* that was let through, one HostToCli thread.  The threads share three    *)
(* things, and every hazard of this program is about one of them:          *)
(*   - main's local client_fd, whose address is the argument of every      *)
(*     HandleConnection thread (slot);                                     *)
(*   - HandleConnection's local array fds, whose address is the argument   *)
(*     of its HostToCli thread (the handler's cfd and dfd, as long as the  *)
(*     handler has not returned);                                          *)
(*   - the process's descriptor table: a descriptor is a number, and a     *)
(*     closed number is handed out again by the next accept or socket.     *)
(*                                                                         *)
(* A thread is named after the client whose accept made main create it.    *)
(* The sockets and their peers (kernel, browsers, web servers) are the     *)
(* environment.  Bytes are abstracted to tokens; a read returns any        *)
(* non-empty prefix of what has arrived, as TCP may.                       *)
(***************************************************************************)
EXTENDS Integers, Sequences, FiniteSets

CONSTANTS
  Clients,      \* the connections made to port 1358, and the threads serving them
  Hosts,        \* destination host names
  Blocked,      \* the hosts for which set_contains(blocked_set, .) is SET_TRUE
  MaxFd,        \* bound: descriptors the process may have open (RLIMIT_NOFILE)
  MaxChunks,    \* bound: data tokens a peer sends on one socket
  Talkers,      \* bound: the clients whose tunnels carry data
  Arrivals,     \* how fast clients connect: "any", "paced" or "serial"
  NoHost,       \* what a request without a "Host: name:port" line asks for
  NULL          \* no value: a free descriptor, no request yet, an empty field

ASSUME HostsAssumption    == /\ NoHost \notin Hosts /\ NULL \notin Hosts
                             /\ NoHost # NULL /\ Blocked \subseteq Hosts
ASSUME NullAssumption     == NULL \notin {"cli", "dst"} \X Clients
ASSUME BoundsAssumption   == MaxFd \in Nat \ {0} /\ MaxChunks \in Nat /\ Talkers \subseteq Clients
ASSUME ArrivalsAssumption == Arrivals \in {"any", "paced", "serial"}

VARIABLES
  fault,        \* "none", or what ended the process (the failed assert or memory fault)
  mpc,          \* main: "accept" or "create"
  slot,         \* main's local client_fd
  cur,          \* the client whose descriptor main has just accepted
  fdtab,        \* descriptor number -> socket, NULL when free
  hpc,          \* program counter of each HandleConnection thread
  cfd, dfd,     \* its locals client_fd and dest_fd
  host,         \* its local inf.hostname
  hbuf,         \* its local buffer
  rpc,          \* program counter of each HostToCli thread
  rcfd, rdfd,   \* its locals client_fd and dest_fd
  rbuf,         \* its local buffer
  heirs,        \* threads running on the stack a returned handler left behind
  cst,          \* where each client is: "idle", "waiting" for accept, "accepted"
  req,          \* the host each client's CONNECT asks for (NULL: not sent yet)
  inq,          \* per socket: tokens arrived and not yet read by the proxy
  outq,         \* per socket: tokens the proxy has delivered to the peer
  nsent,        \* per socket: data tokens the peer has sent
  shut,         \* per socket: the proxy has shut it down or closed it
  gone,         \* per socket: the peer has closed its end
  fin,          \* per socket: the peer sends no more, but still receives
  peer          \* per handler: the host its destination socket is connected to

mainVars  == <<mpc, slot, cur>>
handVars  == <<hpc, cfd, dfd, host, hbuf>>
relayVars == <<rpc, rcfd, rdfd, rbuf>>
sockVars  == <<inq, outq, nsent, shut, gone, fin, peer>>
envVars   == <<cst, req>>
vars == <<fault, mainVars, fdtab, handVars, relayVars, heirs, envVars, sockVars>>

-----------------------------------------------------------------------------
(* Descriptors, sockets and tokens                                         *)

\* Descriptor numbers above the standard streams and the listening socket.
Fds == 1..MaxFd

Cli(c) == <<"cli", c>>          \* the accepted socket of client c
Dst(c) == <<"dst", c>>          \* the socket handler c opens to a host
Socks == {"cli", "dst"} \X Clients

Token(kind, val) == [kind |-> kind, val |-> val]
RequestLine == Token("line", NULL)
HostLine(h) == Token("host", h)
OK200       == Token("200", NULL)
Forbidden   == Token("403", NULL)
Chunk(s, n) == Token("data", <<s[1], s[2], n>>)

Tokens == [kind : {"line", "host", "200", "403"}, val : Hosts \cup {NoHost, NULL}]
            \cup {Chunk(s, n) : s \in Socks, n \in 1..MaxChunks}

HandlerPCs == {"none", "start", "request", "deny", "denyshut", "denyclose",
               "socket", "connect", "reply", "read", "write", "shutcli",
               "closecli", "shutdst", "closedst", "done"}
RelayPCs == {"none", "start", "read", "write", "done"}
Faults == {"none", "client_fd", "parse", "dest_fd", "stack"}

\* POSIX: accept() and socket() return the lowest descriptor that is free.
FreeFds == {f \in Fds : fdtab[f] = NULL}
IsLowestFree(f) == f \in FreeFds /\ \A g \in FreeFds : f <= g

\* read(fd, ...) returns 0 or -1: a bad descriptor, end of stream, a reset.
ReadEnds(f) ==
  LET s == fdtab[f]
  IN  \/ s = NULL
      \/ s # NULL /\ gone[s]
      \/ s # NULL /\ (shut[s] \/ fin[s]) /\ inq[s] = << >>

\* read(fd, ...) returns the first k tokens of what has arrived.
ReadGets(f, k) == fdtab[f] # NULL /\ k \in 1..Len(inq[fdtab[f]])
Got(f, k)      == SubSeq(inq[fdtab[f]], 1, k)
Left(f, k)     == [inq EXCEPT ![fdtab[f]] = SubSeq(@, k + 1, Len(@))]

\* write(fd, ...): its result is ignored by every caller, and SIGPIPE too, so
\* what cannot be delivered is lost without a trace.  A peer that has only shut
\* down its sending side still receives.
Writable(f) == fdtab[f] # NULL /\ ~shut[fdtab[f]] /\ ~gone[fdtab[f]]
Written(f, buf) == IF Writable(f) THEN [outq EXCEPT ![fdtab[f]] = @ \o buf]
                                  ELSE outq

Shutdown(f) ==
  shut' = IF fdtab[f] = NULL THEN shut ELSE [shut EXCEPT ![fdtab[f]] = TRUE]
Close(f) ==
  /\ Shutdown(f)
  /\ fdtab' = [fdtab EXCEPT ![f] = NULL]

\* An assert or a memory fault in any thread ends the whole process.
Crash(why) ==
  /\ fault' = why
  /\ UNCHANGED <<mainVars, fdtab, handVars, relayVars, heirs, envVars, sockVars>>

-----------------------------------------------------------------------------
(* The environment: clients and destination hosts                          *)

ThreadsOver(c) == hpc[c] = "done" /\ rpc[c] \in {"none", "done"}

\* Client c is between its connect() and its handler's copy of the descriptor.
InFlight(c) == \/ cst[c] = "waiting"
               \/ cst[c] = "accepted" /\ hpc[c] \in {"none", "start"}

\* "paced": a client connects only when no other connection is in flight.
\* "serial": only when every earlier connection has been dealt with.
MayConnect ==
  /\ Arrivals # "any"   => \A d \in Clients : ~InFlight(d)
  /\ Arrivals = "serial" => \A d \in Clients : cst[d] = "idle" \/ ThreadsOver(d)

ClientConnect(c) ==
  /\ cst[c] = "idle"
  /\ MayConnect
  /\ cst' = [cst EXCEPT ![c] = "waiting"]
  /\ UNCHANGED <<fault, mainVars, fdtab, handVars, relayVars, heirs, req, sockVars>>

\* The client sends its CONNECT request, once.
ClientRequest(c, h) ==
  /\ cst[c] # "idle" /\ req[c] = NULL /\ ~gone[Cli(c)] /\ ~fin[Cli(c)] /\ ~shut[Cli(c)]
  /\ req' = [req EXCEPT ![c] = h]
  /\ inq' = [inq EXCEPT ![Cli(c)] = <<RequestLine, HostLine(h)>>]
  /\ UNCHANGED <<fault, mainVars, fdtab, handVars, relayVars, heirs, cst,
                 outq, nsent, shut, gone, fin, peer>>

PeerSend(s) ==
  /\ ~gone[s] /\ ~fin[s] /\ ~shut[s] /\ nsent[s] < MaxChunks
  /\ nsent' = [nsent EXCEPT ![s] = @ + 1]
  /\ inq' = [inq EXCEPT ![s] = Append(@, Chunk(s, nsent[s] + 1))]
  /\ UNCHANGED <<fault, mainVars, fdtab, handVars, relayVars, heirs, envVars,
                 outq, shut, gone, fin, peer>>

\* A client sends through the tunnel once it has been told the tunnel is up.
ClientSend(c) ==
  /\ c \in Talkers
  /\ \E i \in 1..Len(outq[Cli(c)]) : outq[Cli(c)][i] = OK200
  /\ PeerSend(Cli(c))

HostSend(c) == c \in Talkers /\ peer[c] # NULL /\ PeerSend(Dst(c))

\* The peer closes its end.  Once the proxy has shut the socket down it can no
\* longer tell whether the peer does.
PeerClose(s) ==
  /\ ~gone[s] /\ ~shut[s]
  /\ gone' = [gone EXCEPT ![s] = TRUE]
  /\ UNCHANGED <<fault, mainVars, fdtab, handVars, relayVars, heirs, envVars,
                 inq, outq, nsent, shut, fin, peer>>

\* The peer shuts down its sending side only: what it has sent can still be
\* read, then read() returns 0, and what is written to it still arrives.
PeerFin(s) ==
  /\ ~gone[s] /\ ~fin[s] /\ ~shut[s]
  /\ fin' = [fin EXCEPT ![s] = TRUE]
  /\ UNCHANGED <<fault, mainVars, fdtab, handVars, relayVars, heirs, envVars,
                 inq, outq, nsent, shut, gone, peer>>

ClientClose(c) == cst[c] # "idle" /\ PeerClose(Cli(c))
HostClose(c)   == peer[c] # NULL /\ PeerClose(Dst(c))
ClientFin(c)   == cst[c] # "idle" /\ PeerFin(Cli(c))
HostFin(c)     == peer[c] # NULL /\ PeerFin(Dst(c))

Env(c) ==
  \/ ClientConnect(c)
  \/ \E h \in Hosts \cup {NoHost} : ClientRequest(c, h)
  \/ ClientSend(c)
  \/ HostSend(c)
  \/ ClientClose(c)
  \/ HostClose(c)
  \/ ClientFin(c)
  \/ HostFin(c)

-----------------------------------------------------------------------------
(* main: the accept loop                                                   *)

\* accept() stores the new descriptor in the one variable client_fd whose
\* address earlier threads may still be about to read.
Accept(c, f) ==
  /\ mpc = "accept"
  /\ cst[c] = "waiting"
  /\ IsLowestFree(f)
  /\ slot' = f
  /\ fdtab' = [fdtab EXCEPT ![f] = Cli(c)]
  /\ cst' = [cst EXCEPT ![c] = "accepted"]
  /\ cur' = c
  /\ mpc' = "create"
  /\ UNCHANGED <<fault, handVars, relayVars, heirs, req, sockVars>>

\* No descriptor is left: accept() returns -1 and assert(client_fd > 0) aborts.
AcceptFails ==
  /\ mpc = "accept"
  /\ \E c \in Clients : cst[c] = "waiting"
  /\ FreeFds = {}
  /\ Crash("client_fd")

\* The stack a handler left behind while its HostToCli thread has not yet read
\* its argument: glibc gives it to a thread created from then on.
Orphaned == {c \in Clients : hpc[c] = "done" /\ rpc[c] = "start"}

CreateHandler ==
  /\ mpc = "create"
  /\ hpc' = [hpc EXCEPT ![cur] = "start"]
  /\ heirs' = [c \in Clients |-> IF c \in Orphaned THEN heirs[c] \cup {cur}
                                                   ELSE heirs[c]]
  /\ mpc' = "accept"
  /\ UNCHANGED <<fault, slot, cur, fdtab, cfd, dfd, host, hbuf, relayVars,
                 envVars, sockVars>>

Main ==
  \/ \E c \in Clients, f \in Fds : Accept(c, f)
  \/ AcceptFails
  \/ CreateHandler

-----------------------------------------------------------------------------
(* HandleConnection                                                        *)

HandlerGoto(c, pc) == hpc' = [hpc EXCEPT ![c] = pc]

\* int client_fd = *((int*)args): whatever main's variable holds by now.
HandlerStart(c) ==
  /\ hpc[c] = "start"
  /\ cfd' = [cfd EXCEPT ![c] = slot]
  /\ HandlerGoto(c, "request")
  /\ UNCHANGED <<fault, mainVars, fdtab, dfd, host, hbuf, relayVars, heirs,
                 envVars, sockVars>>

\* The hosts parseHost finds in a request: none when the bytes read so far do
\* not reach the Host line, or the line names no port.
ParsedHosts(buf) == {h \in Hosts : \E i \in 1..Len(buf) : buf[i] = HostLine(h)}

\* One read(); a result <= 0 is answered like a blocked host.
RequestEnds(c) ==
  /\ hpc[c] = "request"
  /\ ReadEnds(cfd[c])
  /\ HandlerGoto(c, "deny")
  /\ UNCHANGED <<fault, mainVars, fdtab, cfd, dfd, host, hbuf, relayVars, heirs,
                 envVars, sockVars>>

\* Mutant of ReadRequest: checkBlocklist is not called.
ReadRequestUnfiltered(c, k) ==
  /\ hpc[c] = "request"
  /\ ReadGets(cfd[c], k)
  /\ \E h \in ParsedHosts(Got(cfd[c], k)) : host' = [host EXCEPT ![c] = h]
  /\ HandlerGoto(c, "socket")
  /\ inq' = Left(cfd[c], k)
  /\ UNCHANGED <<fault, mainVars, fdtab, cfd, dfd, hbuf, relayVars, heirs,
                 envVars, outq, nsent, shut, gone, fin, peer>>

\* One read(), parseHost and checkBlocklist on what it returned.
ReadRequest(c, k) ==
  /\ hpc[c] = "request"
  /\ ReadGets(cfd[c], k)
  /\ \E h \in ParsedHosts(Got(cfd[c], k)) :
       /\ host' = [host EXCEPT ![c] = h]
       /\ HandlerGoto(c, IF h \in Blocked THEN "deny" ELSE "socket")
  /\ inq' = Left(cfd[c], k)
  /\ UNCHANGED <<fault, mainVars, fdtab, cfd, dfd, hbuf, relayVars, heirs,
                 envVars, outq, nsent, shut, gone, fin, peer>>

\* parseHost on bytes without "Host: " or without a colon after it: the NULL
\* that strstr returns is dereferenced, or assert(colon) fails.
ParseFails(c, k) ==
  /\ hpc[c] = "request"
  /\ ReadGets(cfd[c], k)
  /\ ParsedHosts(Got(cfd[c], k)) = {}
  /\ Crash("parse")

\* Mutant of DenyReply: the connection is shut without an answer.
DenySilently(c) ==
  /\ hpc[c] = "deny"
  /\ HandlerGoto(c, "denyshut")
  /\ UNCHANGED <<fault, mainVars, fdtab, cfd, dfd, host, hbuf, relayVars, heirs,
                 envVars, sockVars>>

DenyReply(c) ==
  /\ hpc[c] = "deny"
  /\ outq' = Written(cfd[c], <<Forbidden>>)
  /\ HandlerGoto(c, "denyshut")
  /\ UNCHANGED <<fault, mainVars, fdtab, cfd, dfd, host, hbuf, relayVars, heirs,
                 envVars, inq, nsent, shut, gone, fin, peer>>

\* connect_to_server: socket() takes the lowest free descriptor.
OpenSocket(c, f) ==
  /\ hpc[c] = "socket"
  /\ IsLowestFree(f)
  /\ dfd' = [dfd EXCEPT ![c] = f]
  /\ fdtab' = [fdtab EXCEPT ![f] = Dst(c)]
  /\ HandlerGoto(c, "connect")
  /\ UNCHANGED <<fault, mainVars, cfd, host, hbuf, relayVars, heirs, envVars,
                 sockVars>>

\* Mutant of OpenSocketFails: no assert looks at connect_to_server's -1.
OpenSocketUnchecked(c) ==
  /\ hpc[c] = "socket"
  /\ dfd' = [dfd EXCEPT ![c] = -1]
  /\ HandlerGoto(c, "connect")
  /\ UNCHANGED <<fault, mainVars, fdtab, cfd, host, hbuf, relayVars, heirs,
                 envVars, sockVars>>

\* The name does not resolve (the uninitialised result is dereferenced, or -1
\* is returned), or no descriptor is left (-1 is returned): the process dies,
\* at the latest at assert(dest_fd >= 0).
OpenSocketFails(c) == hpc[c] = "socket" /\ Crash("dest_fd")

Connect(c) ==
  /\ hpc[c] = "connect"
  /\ peer' = [peer EXCEPT ![c] = host[c]]
  /\ HandlerGoto(c, "reply")
  /\ UNCHANGED <<fault, mainVars, fdtab, cfd, dfd, host, hbuf, relayVars, heirs,
                 envVars, inq, outq, nsent, shut, gone, fin>>

\* connect() fails, connect_to_server returns -1, assert(dest_fd >= 0) aborts.
ConnectFails(c) == hpc[c] = "connect" /\ Crash("dest_fd")

\* Mutant of Reply: the answer goes to main's client_fd instead of the copy.
ReplyToSlot(c) ==
  /\ hpc[c] = "reply"
  /\ outq' = Written(slot, <<OK200>>)
  /\ rpc' = [rpc EXCEPT ![c] = "start"]
  /\ HandlerGoto(c, "read")
  /\ UNCHANGED <<fault, mainVars, fdtab, cfd, dfd, host, hbuf, rcfd, rdfd, rbuf,
                 heirs, envVars, inq, nsent, shut, gone, fin, peer>>

\* "200 OK" to the client, then pthread_create(HostToCli, fds).
Reply(c) ==
  /\ hpc[c] = "reply"
  /\ outq' = Written(cfd[c], <<OK200>>)
  /\ rpc' = [rpc EXCEPT ![c] = "start"]
  /\ HandlerGoto(c, "read")
  /\ UNCHANGED <<fault, mainVars, fdtab, cfd, dfd, host, hbuf, rcfd, rdfd, rbuf,
                 heirs, envVars, inq, nsent, shut, gone, fin, peer>>

ReadClient(c, k) ==
  /\ hpc[c] = "read"
  /\ ReadGets(cfd[c], k)
  /\ hbuf' = [hbuf EXCEPT ![c] = Got(cfd[c], k)]
  /\ inq' = Left(cfd[c], k)
  /\ HandlerGoto(c, "write")
  /\ UNCHANGED <<fault, mainVars, fdtab, cfd, dfd, host, relayVars, heirs,
                 envVars, outq, nsent, shut, gone, fin, peer>>

\* Mutant of ClientEnds: a read of 0 bytes does not leave the loop.
ClientEndIgnored(c) ==
  /\ hpc[c] = "read"
  /\ ReadEnds(cfd[c])
  /\ UNCHANGED vars

ClientEnds(c) ==
  /\ hpc[c] = "read"
  /\ ReadEnds(cfd[c])
  /\ HandlerGoto(c, "shutcli")
  /\ UNCHANGED <<fault, mainVars, fdtab, cfd, dfd, host, hbuf, relayVars, heirs,
                 envVars, sockVars>>

\* Mutant of WriteHost: the last token read is not written.
WriteHostShort(c) ==
  /\ hpc[c] = "write"
  /\ outq' = Written(dfd[c], SubSeq(hbuf[c], 1, Len(hbuf[c]) - 1))
  /\ hbuf' = [hbuf EXCEPT ![c] = << >>]
  /\ HandlerGoto(c, "read")
  /\ UNCHANGED <<fault, mainVars, fdtab, cfd, dfd, host, relayVars, heirs,
                 envVars, inq, nsent, shut, gone, fin, peer>>

WriteHost(c) ==
  /\ hpc[c] = "write"
  /\ outq' = Written(dfd[c], hbuf[c])
  /\ hbuf' = [hbuf EXCEPT ![c] = << >>]
  /\ HandlerGoto(c, "read")
  /\ UNCHANGED <<fault, mainVars, fdtab, cfd, dfd, host, relayVars, heirs,
                 envVars, inq, nsent, shut, gone, fin, peer>>

HandlerShutdown(c, from, f, to) ==
  /\ hpc[c] = from
  /\ Shutdown(f)
  /\ HandlerGoto(c, to)
  /\ UNCHANGED <<fault, mainVars, fdtab, cfd, dfd, host, hbuf, relayVars, heirs,
                 envVars, inq, outq, nsent, gone, fin, peer>>

HandlerClose(c, from, f, to) ==
  /\ hpc[c] = from
  /\ Close(f)
  /\ HandlerGoto(c, to)
  /\ UNCHANGED <<fault, mainVars, cfd, dfd, host, hbuf, relayVars, heirs,
                 envVars, inq, outq, nsent, gone, fin, peer>>

\* Mutant of DenyEnd: the return after the 403 is missing and the tunnel's
\* shutdown follows.
DenyFallsThrough(c) == \/ HandlerShutdown(c, "denyshut", cfd[c], "denyclose")
                       \/ HandlerClose(c, "denyclose", cfd[c], "shutcli")

DenyEnd(c) == \/ HandlerShutdown(c, "denyshut", cfd[c], "denyclose")
              \/ HandlerClose(c, "denyclose", cfd[c], "done")

\* Mutants of TunnelEnd: dest_fd is shut down but never closed; neither is.
TunnelEndLeaks(c) == \/ HandlerShutdown(c, "shutcli", cfd[c], "closecli")
                     \/ HandlerClose(c, "closecli", cfd[c], "shutdst")
                     \/ HandlerShutdown(c, "shutdst", dfd[c], "done")
TunnelEndShutsOnly(c) == \/ HandlerShutdown(c, "shutcli", cfd[c], "shutdst")
                         \/ HandlerShutdown(c, "shutdst", dfd[c], "done")

TunnelEnd(c) == \/ HandlerShutdown(c, "shutcli", cfd[c], "closecli")
                \/ HandlerClose(c, "closecli", cfd[c], "shutdst")
                \/ HandlerShutdown(c, "shutdst", dfd[c], "closedst")
                \/ HandlerClose(c, "closedst", dfd[c], "done")

\* The bound on k is what TLC enumerates: a queue never holds more tokens.
ReadSizes == 1..(MaxChunks + 2)

HandleConnection(c) ==
  \/ HandlerStart(c)
  \/ RequestEnds(c)
  \/ \E k \in ReadSizes : ReadRequest(c, k) \/ ParseFails(c, k) \/ ReadClient(c, k)
  \/ DenyReply(c)
  \/ DenyEnd(c)
  \/ \E f \in Fds : OpenSocket(c, f)
  \/ OpenSocketFails(c)
  \/ Connect(c)
  \/ ConnectFails(c)
  \/ Reply(c)
  \/ ClientEnds(c)
  \/ WriteHost(c)
  \/ TunnelEnd(c)

-----------------------------------------------------------------------------
(* HostToCli                                                               *)

\* fds is read while the handler's frame still exists, or after its return but
\* before anyone wrote over it.
RelayStart(c) ==
  /\ rpc[c] = "start"
  /\ rcfd' = [rcfd EXCEPT ![c] = cfd[c]]
  /\ rdfd' = [rdfd EXCEPT ![c] = dfd[c]]
  /\ rpc' = [rpc EXCEPT ![c] = "read"]
  /\ heirs' = [heirs EXCEPT ![c] = {}]
  /\ UNCHANGED <<fault, mainVars, fdtab, handVars, rbuf, envVars, sockVars>>

\* fds is read after the handler returned and a later handler, running on the
\* same stack, has filled its own fds in the same place.
RelayStartStale(c, d) ==
  /\ rpc[c] = "start" /\ hpc[c] = "done" /\ d \in heirs[c] /\ rpc[d] # "none"
  /\ rcfd' = [rcfd EXCEPT ![c] = cfd[d]]
  /\ rdfd' = [rdfd EXCEPT ![c] = dfd[d]]
  /\ rpc' = [rpc EXCEPT ![c] = "read"]
  /\ heirs' = [heirs EXCEPT ![c] = {}]
  /\ UNCHANGED <<fault, mainVars, fdtab, handVars, rbuf, envVars, sockVars>>

\* fds is read after the handler returned and its stack was unmapped.
RelayStartFaults(c) == rpc[c] = "start" /\ hpc[c] = "done" /\ Crash("stack")

ReadHost(c, k) ==
  /\ rpc[c] = "read"
  /\ ReadGets(rdfd[c], k)
  /\ rbuf' = [rbuf EXCEPT ![c] = Got(rdfd[c], k)]
  /\ inq' = Left(rdfd[c], k)
  /\ rpc' = [rpc EXCEPT ![c] = "write"]
  /\ UNCHANGED <<fault, mainVars, fdtab, handVars, rcfd, rdfd, heirs, envVars,
                 outq, nsent, shut, gone, fin, peer>>

\* Mutants of HostEnds: a read of 0 bytes does not leave the loop; the thread
\* closes dest_fd, which its handler closes too.
HostEndIgnored(c) == rpc[c] = "read" /\ ReadEnds(rdfd[c]) /\ UNCHANGED vars
HostEndCloses(c) ==
  /\ rpc[c] = "read"
  /\ ReadEnds(rdfd[c])
  /\ Close(rdfd[c])
  /\ rpc' = [rpc EXCEPT ![c] = "done"]
  /\ UNCHANGED <<fault, mainVars, handVars, rcfd, rdfd, rbuf, heirs, envVars,
                 inq, outq, nsent, gone, fin, peer>>

\* End of the host's stream: the thread returns; it closes nothing.
HostEnds(c) ==
  /\ rpc[c] = "read"
  /\ ReadEnds(rdfd[c])
  /\ rpc' = [rpc EXCEPT ![c] = "done"]
  /\ UNCHANGED <<fault, mainVars, fdtab, handVars, rcfd, rdfd, rbuf, heirs,
                 envVars, sockVars>>

\* Mutant of WriteClient: the buffer is written again.
WriteClientTwice(c) ==
  /\ rpc[c] = "write"
  /\ outq' = Written(rcfd[c], rbuf[c] \o rbuf[c])
  /\ rbuf' = [rbuf EXCEPT ![c] = << >>]
  /\ rpc' = [rpc EXCEPT ![c] = "read"]
  /\ UNCHANGED <<fault, mainVars, fdtab, handVars, rcfd, rdfd, heirs, envVars,
                 inq, nsent, shut, gone, fin, peer>>

WriteClient(c) ==
  /\ rpc[c] = "write"
  /\ outq' = Written(rcfd[c], rbuf[c])
  /\ rbuf' = [rbuf EXCEPT ![c] = << >>]
  /\ rpc' = [rpc EXCEPT ![c] = "read"]
  /\ UNCHANGED <<fault, mainVars, fdtab, handVars, rcfd, rdfd, heirs, envVars,
                 inq, nsent, shut, gone, fin, peer>>

HostToCli(c) ==
  \/ RelayStart(c)
  \/ \E d \in Clients : RelayStartStale(c, d)
  \/ RelayStartFaults(c)
  \/ \E k \in ReadSizes : ReadHost(c, k)
  \/ HostEnds(c)
  \/ WriteClient(c)

-----------------------------------------------------------------------------
(* The specification                                                       *)

Init ==
  /\ fault = "none"
  /\ mpc = "accept" /\ slot = 0 /\ cur = NULL
  /\ fdtab = [f \in Fds |-> NULL]
  /\ hpc = [c \in Clients |-> "none"]
  /\ cfd = [c \in Clients |-> 0] /\ dfd = [c \in Clients |-> 0]
  /\ host = [c \in Clients |-> NULL]
  /\ hbuf = [c \in Clients |-> << >>]
  /\ rpc = [c \in Clients |-> "none"]
  /\ rcfd = [c \in Clients |-> 0] /\ rdfd = [c \in Clients |-> 0]
  /\ rbuf = [c \in Clients |-> << >>]
  /\ heirs = [c \in Clients |-> {}]
  /\ cst = [c \in Clients |-> "idle"]
  /\ req = [c \in Clients |-> NULL]
  /\ inq = [s \in Socks |-> << >>] /\ outq = [s \in Socks |-> << >>]
  /\ nsent = [s \in Socks |-> 0]
  /\ shut = [s \in Socks |-> FALSE] /\ gone = [s \in Socks |-> FALSE]
  /\ fin = [s \in Socks |-> FALSE]
  /\ peer = [c \in Clients |-> NULL]

\* The process is gone, or every connection is over and main waits in accept
\* for a client that will not come: the only states in which nothing happens.
AllOver == \A c \in Clients : ThreadsOver(c)
Finished == (fault # "none" \/ AllOver) /\ UNCHANGED vars

Next ==
  \/ /\ fault = "none"
     /\ \/ Main
        \/ \E c \in Clients : Env(c) \/ HandleConnection(c) \/ HostToCli(c)
  \/ Finished

Spec == Init /\ [][Next]_vars

\* Fairness the platform gives: every thread is scheduled, a read, a write, a
\* connect and an accept that can return do return.  Nothing is assumed of the
\* clients and hosts.
Fairness ==
  /\ WF_vars(fault = "none" /\ Main)
  /\ \A c \in Clients : WF_vars(fault = "none" /\ HandleConnection(c))
  /\ \A c \in Clients : WF_vars(fault = "none" /\ HostToCli(c))

FairSpec == Spec /\ Fairness

-----------------------------------------------------------------------------
(* Properties                                                              *)

\* Every variable holds a value of its C type.
TypeOK ==
  /\ fault \in Faults
  /\ mpc \in {"accept", "create"}
  /\ slot \in Fds \cup {0}
  /\ cur \in Clients \cup {NULL}
  /\ fdtab \in [Fds -> Socks \cup {NULL}]
  /\ hpc \in [Clients -> HandlerPCs]
  /\ cfd \in [Clients -> Fds \cup {0}]
  /\ dfd \in [Clients -> Fds \cup {0}]
  /\ host \in [Clients -> Hosts \cup {NULL}]
  /\ hbuf \in [Clients -> Seq(Tokens)]
  /\ rpc \in [Clients -> RelayPCs]
  /\ rcfd \in [Clients -> Fds \cup {0}]
  /\ rdfd \in [Clients -> Fds \cup {0}]
  /\ rbuf \in [Clients -> Seq(Tokens)]
  /\ heirs \in [Clients -> SUBSET Clients]
  /\ cst \in [Clients -> {"idle", "waiting", "accepted"}]
  /\ req \in [Clients -> Hosts \cup {NoHost, NULL}]
  /\ inq \in [Socks -> Seq(Tokens)]
  /\ outq \in [Socks -> Seq(Tokens)]
  /\ nsent \in [Socks -> 0..MaxChunks]
  /\ shut \in [Socks -> BOOLEAN]
  /\ gone \in [Socks -> BOOLEAN]
  /\ fin \in [Socks -> BOOLEAN]
  /\ peer \in [Clients -> Hosts \cup {NULL}]

\* No interleaving of threads, however the descriptors get mixed up, makes the
\* proxy connect to a host on the block list (checkBlocklist guards connect).
BlockedNeverContacted == \A c \in Clients : peer[c] \notin Blocked

\* From its first read to its last close, a handler's client_fd denotes the
\* connection main created it for (server.c:53 "Get request from client").
HoldsClient == {"request", "deny", "denyshut", "denyclose", "socket", "connect",
                "reply", "read", "write", "shutcli", "closecli"}
ServesOwnClient ==
  \A c \in Clients : hpc[c] \in HoldsClient => fdtab[cfd[c]] = Cli(c)

\* A client is told 200 only when the tunnel made for it leads to the allowed
\* host it asked for, and 403 only when it asked for a blocked one or has shut
\* down its sending side and its handler has read no request (a read() of 0
\* bytes is answered with 403 too, server.c:56).
ReplyMatchesRequest ==
  \A c \in Clients : \A i \in 1..Len(outq[Cli(c)]) :
    /\ outq[Cli(c)][i] = OK200     => req[c] \in Hosts \ Blocked /\ peer[c] = req[c]
    /\ outq[Cli(c)][i] = Forbidden => \/ req[c] \in Blocked
                                      \/ fin[Cli(c)] /\ host[c] = NULL

NoneOpen(c) == \A f \in Fds : fdtab[f] \notin {Cli(c), Dst(c)}

\* A handler that has returned leaves no descriptor of its connection open.
NoDescriptorLeak ==
  \A c \in Clients : hpc[c] = "done" => NoneOpen(c)

\* A descriptor is closed only by the handler whose connection it belongs to,
\* never by a thread that holds a number someone else has been given.
OwnerCloses ==
  \A f \in Fds : fdtab[f] # NULL /\ fdtab'[f] # fdtab[f] =>
    \E c \in Clients : /\ fdtab[f] \in {Cli(c), Dst(c)}
                       /\ hpc[c] \in {"denyclose", "closecli", "closedst"}
                       /\ hpc'[c] # hpc[c]
NoForeignClose == [][OwnerCloses]_vars

\* The tunnel is a pair of faithful byte streams: the host has received exactly
\* a prefix of what its client sent, and the client the status line followed by
\* a prefix of what its host sent; nothing is lost in the middle, reordered,
\* duplicated or delivered to another connection.
IsStreamOf(q, s) == \A i \in 1..Len(q) : q[i] = Chunk(s, i)
TunnelIntegrity ==
  \A c \in Clients :
    /\ IsStreamOf(outq[Dst(c)], Cli(c))
    /\ outq[Cli(c)] \in {<< >>, <<Forbidden>>} \/
         /\ outq[Cli(c)][1] = OK200
         /\ IsStreamOf(Tail(outq[Cli(c)]), Dst(c))

Answered(c) == \E i \in 1..Len(outq[Cli(c)]) : outq[Cli(c)][i] \in {OK200, Forbidden}

\* Every request is answered, unless its client leaves or the process dies.
RequestsAnswered ==
  \A c \in Clients :
    req[c] # NULL ~> (Answered(c) \/ gone[Cli(c)] \/ fault # "none")

\* What a client or a host sends into the tunnel arrives at the other end,
\* unless one of the two leaves or the process dies; and a client that shuts
\* down its sending side ends its tunnel, whatever its host still has to say.
Arrives(from, to, n) ==
  \/ \E j \in 1..Len(outq[to]) : outq[to][j] = Chunk(from, n)
  \/ gone[from] \/ gone[to] \/ fault # "none"
TunnelDelivers ==
  \A c \in Clients, n \in 1..MaxChunks :
    /\ nsent[Cli(c)] >= n ~> Arrives(Cli(c), Dst(c), n)
    /\ nsent[Dst(c)] >= n ~> (Arrives(Dst(c), Cli(c), n) \/ fin[Cli(c)])

\* The client has left, or will send no more.
Departed(c) == gone[Cli(c)] \/ fin[Cli(c)]

\* When a client leaves or shuts down its sending side, both descriptors of its
\* connection are closed in the end, unless the process dies.
DepartureReleases ==
  \A c \in Clients :
    Departed(c) ~> (fault # "none" \/ (hpc[c] = "done" /\ NoneOpen(c)))

\* When a client leaves or shuts down its sending side, both of its threads
\* return in the end, unless the process dies: none is left blocked on a
\* descriptor that is no longer its own.
DepartureEndsThreads ==
  \A c \in Clients : Departed(c) ~> (fault # "none" \/ ThreadsOver(c))

\* The process runs out of descriptors only under load: when accept() fails,
\* every descriptor belongs to a connection whose handler is still running.
ExhaustedOnlyByLoad ==
  fault = "client_fd" =>
    \A f \in Fds : \E c \in Clients : fdtab[f] \in {Cli(c), Dst(c)} /\ hpc[c] # "done"

=============================================================================
