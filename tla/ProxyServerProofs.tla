------------------------- MODULE ProxyServerProofs -------------------------
(***************************************************************************)
(* Proofs about ProxyServer, for any number of clients, hosts, descriptors *)
(* and tokens.                                                             *)
(***************************************************************************)
EXTENDS ProxyServer, SequenceTheorems, TLAPS

-----------------------------------------------------------------------------
(* What the descriptor and token operators return                          *)

\* A socket of a client or a handler is a socket.
LEMMA SocketTypes ==
  ASSUME NEW c \in Clients
  PROVE  Cli(c) \in Socks /\ Dst(c) \in Socks
BY DEF Cli, Dst, Socks

\* The tokens the model writes are tokens.
LEMMA TokenTypes ==
  /\ RequestLine \in Tokens /\ OK200 \in Tokens /\ Forbidden \in Tokens
  /\ \A h \in Hosts \cup {NoHost} : HostLine(h) \in Tokens
  /\ \A s \in Socks, n \in 1..MaxChunks : Chunk(s, n) \in Tokens
BY DEF RequestLine, OK200, Forbidden, HostLine, Tokens, Token

\* What read() returns, and what it leaves, are sequences of tokens.
LEMMA ReadTypes ==
  ASSUME TypeOK, NEW f \in Fds, NEW k, ReadGets(f, k)
  PROVE  /\ Got(f, k) \in Seq(Tokens)
         /\ Left(f, k) \in [Socks -> Seq(Tokens)]
<1> DEFINE q == inq[fdtab[f]]
<1>1. fdtab[f] \in Socks /\ q \in Seq(Tokens) /\ Len(q) \in Nat
  BY LenProperties DEF TypeOK, ReadGets
<1>2. k \in 1..Len(q)
  BY DEF ReadGets
<1>3. \A i \in 1..Len(q) : q[i] \in Tokens
  BY <1>1, ElementOfSeq
<1>4. SubSeq(q, 1, k) \in Seq(Tokens)
  BY <1>1, <1>2, <1>3, SubSeqProperties
<1>5. SubSeq(q, k + 1, Len(q)) \in Seq(Tokens)
  BY <1>1, <1>2, <1>3, SubSeqProperties
<1> QED
  BY <1>1, <1>4, <1>5 DEF Got, Left, TypeOK

\* write() leaves sequences of tokens.
LEMMA WrittenType ==
  ASSUME TypeOK, NEW f \in Fds, NEW buf \in Seq(Tokens)
  PROVE  Written(f, buf) \in [Socks -> Seq(Tokens)]
<1>1. CASE Writable(f)
  <2>1. fdtab[f] \in Socks /\ outq[fdtab[f]] \in Seq(Tokens)
    BY <1>1 DEF Writable, TypeOK
  <2>2. outq[fdtab[f]] \o buf \in Seq(Tokens)
    BY <2>1, ConcatProperties
  <2> QED
    BY <1>1, <2>2 DEF Written, TypeOK
<1>2. CASE ~Writable(f)
  BY <1>2 DEF Written, TypeOK
<1> QED
  BY <1>1, <1>2

-----------------------------------------------------------------------------
(* Type correctness                                                        *)

TunnelPCs == {"connect", "reply", "read", "write", "shutcli", "closecli",
              "shutdst", "closedst", "done"}

\* How main, the clients and the threads advance together: a thread exists
\* exactly for the accepted clients, apart from the one main is creating.
Lifecycle ==
  /\ mpc = "create" => cur \in Clients /\ cst[cur] = "accepted" /\ hpc[cur] = "none"
  /\ \A c \in Clients : hpc[c] # "none" => cst[c] = "accepted"
  /\ \A c \in Clients : cst[c] = "accepted" /\ hpc[c] = "none" => mpc = "create" /\ cur = c
  /\ \A c \in Clients : rpc[c] # "none" => hpc[c] \in TunnelPCs

\* No thread uses a descriptor variable before it has been assigned.
DescriptorsSet ==
  /\ mpc = "create" \/ (\E c \in Clients : hpc[c] = "start") => slot \in Fds
  /\ \A c \in Clients :
       /\ hpc[c] \notin {"none", "start"} => cfd[c] \in Fds
       /\ hpc[c] \in TunnelPCs \ {"done"} \/ rpc[c] # "none" => dfd[c] \in Fds
       /\ rpc[c] \in {"read", "write", "done"} => rcfd[c] \in Fds /\ rdfd[c] \in Fds

TypeInv == TypeOK /\ Lifecycle /\ DescriptorsSet

\* The initial state is well typed.
LEMMA InitTypeInv == Init => TypeInv
<1> SUFFICES ASSUME Init PROVE TypeInv
  OBVIOUS
<1> << >> \in Seq(Tokens)
  BY EmptySeq
<1>1. TypeOK
  BY BoundsAssumption DEF Init, TypeOK, HandlerPCs, RelayPCs, Faults
<1>2. Lifecycle /\ DescriptorsSet
  BY DEF Init, Lifecycle, DescriptorsSet, TunnelPCs
<1> QED
  BY <1>1, <1>2 DEF TypeInv

\* Every step keeps the state well typed, the lifecycle of main, clients and
\* threads in order, and the descriptors set before they are used.
LEMMA NextTypeInv == TypeInv /\ [Next]_vars => TypeInv'
<1> SUFFICES ASSUME TypeOK, Lifecycle, DescriptorsSet, [Next]_vars
             PROVE  TypeOK' /\ Lifecycle' /\ DescriptorsSet'
  BY DEF TypeInv
<1> USE DEF mainVars, handVars, relayVars, sockVars, envVars
<1>crash. ASSUME NEW why \in Faults, Crash(why)
          PROVE  TypeOK' /\ Lifecycle' /\ DescriptorsSet'
  BY <1>crash DEF Crash, TypeOK, Lifecycle, DescriptorsSet
<1>connect. ASSUME NEW c \in Clients, ClientConnect(c) PROVE TypeOK' /\ Lifecycle' /\ DescriptorsSet'
  <2>t. TypeOK'
    BY <1>connect DEF ClientConnect, TypeOK
  <2>l. Lifecycle'
    BY <1>connect DEF ClientConnect, TypeOK, Lifecycle, TunnelPCs
  <2>d. DescriptorsSet'
    BY <1>connect DEF ClientConnect, TypeOK, Lifecycle, DescriptorsSet, TunnelPCs
  <2> QED
    BY <2>t, <2>l, <2>d
<1>request. ASSUME NEW c \in Clients, NEW h \in Hosts \cup {NoHost}, ClientRequest(c, h) PROVE TypeOK' /\ Lifecycle' /\ DescriptorsSet'
  <2>q. <<RequestLine, HostLine(h)>> \in Seq(Tokens)
    BY TokenTypes
  <2>t. TypeOK'
    BY <1>request, <2>q DEF ClientRequest, TypeOK
  <2>l. Lifecycle'
    BY <1>request DEF ClientRequest, TypeOK, Lifecycle, TunnelPCs
  <2>d. DescriptorsSet'
    BY <1>request DEF ClientRequest, TypeOK, Lifecycle, DescriptorsSet, TunnelPCs
  <2> QED
    BY <2>t, <2>l, <2>d
<1>psend. ASSUME NEW s \in Socks, PeerSend(s) PROVE TypeOK' /\ Lifecycle' /\ DescriptorsSet'
  <2>n. nsent[s] + 1 \in 1..MaxChunks
    BY <1>psend, BoundsAssumption DEF PeerSend, TypeOK
  <2>q. Append(inq[s], Chunk(s, nsent[s] + 1)) \in Seq(Tokens)
    BY <2>n, TokenTypes, AppendProperties DEF TypeOK
  <2>t. TypeOK'
    BY <1>psend, <2>q, <2>n DEF PeerSend, TypeOK
  <2>l. Lifecycle'
    BY <1>psend DEF PeerSend, TypeOK, Lifecycle, TunnelPCs
  <2>d. DescriptorsSet'
    BY <1>psend DEF PeerSend, TypeOK, Lifecycle, DescriptorsSet, TunnelPCs
  <2> QED
    BY <2>t, <2>l, <2>d
<1>pclose. ASSUME NEW s \in Socks, PeerClose(s) PROVE TypeOK' /\ Lifecycle' /\ DescriptorsSet'
  <2>t. TypeOK'
    BY <1>pclose DEF PeerClose, TypeOK
  <2>l. Lifecycle'
    BY <1>pclose DEF PeerClose, TypeOK, Lifecycle, TunnelPCs
  <2>d. DescriptorsSet'
    BY <1>pclose DEF PeerClose, TypeOK, Lifecycle, DescriptorsSet, TunnelPCs
  <2> QED
    BY <2>t, <2>l, <2>d
<1>pfin. ASSUME NEW s \in Socks, PeerFin(s) PROVE TypeOK' /\ Lifecycle' /\ DescriptorsSet'
  <2>t. TypeOK'
    BY <1>pfin DEF PeerFin, TypeOK
  <2>l. Lifecycle'
    BY <1>pfin DEF PeerFin, TypeOK, Lifecycle, TunnelPCs
  <2>d. DescriptorsSet'
    BY <1>pfin DEF PeerFin, TypeOK, Lifecycle, DescriptorsSet, TunnelPCs
  <2> QED
    BY <2>t, <2>l, <2>d
<1>accept. ASSUME NEW c \in Clients, NEW f \in Fds, Accept(c, f) PROVE TypeOK' /\ Lifecycle' /\ DescriptorsSet'
  <2>t. TypeOK'
    BY <1>accept, SocketTypes DEF Accept, TypeOK
  <2>l. Lifecycle'
    BY <1>accept DEF Accept, TypeOK, Lifecycle, TunnelPCs
  <2>d. DescriptorsSet'
    BY <1>accept DEF Accept, TypeOK, Lifecycle, DescriptorsSet, TunnelPCs
  <2> QED
    BY <2>t, <2>l, <2>d
<1>create. ASSUME CreateHandler PROVE TypeOK' /\ Lifecycle' /\ DescriptorsSet'
  <2>t. TypeOK'
    BY <1>create DEF CreateHandler, Orphaned, TypeOK, HandlerPCs, Lifecycle
  <2>l. Lifecycle'
    BY <1>create DEF CreateHandler, Orphaned, TypeOK, Lifecycle, TunnelPCs
  <2>d. DescriptorsSet'
    BY <1>create DEF CreateHandler, Orphaned, TypeOK, Lifecycle, DescriptorsSet, TunnelPCs
  <2> QED
    BY <2>t, <2>l, <2>d
<1>start. ASSUME NEW c \in Clients, HandlerStart(c) PROVE TypeOK' /\ Lifecycle' /\ DescriptorsSet'
  <2>t. TypeOK'
    BY <1>start DEF HandlerStart, HandlerGoto, TypeOK, HandlerPCs, DescriptorsSet
  <2>l. Lifecycle'
    BY <1>start DEF HandlerStart, HandlerGoto, TypeOK, Lifecycle, TunnelPCs
  <2>d. DescriptorsSet'
    BY <1>start DEF HandlerStart, HandlerGoto, TypeOK, Lifecycle, DescriptorsSet, TunnelPCs
  <2> QED
    BY <2>t, <2>l, <2>d
<1>rends. ASSUME NEW c \in Clients, RequestEnds(c) PROVE TypeOK' /\ Lifecycle' /\ DescriptorsSet'
  <2>t. TypeOK'
    BY <1>rends DEF RequestEnds, HandlerGoto, TypeOK, HandlerPCs
  <2>l. Lifecycle'
    BY <1>rends DEF RequestEnds, HandlerGoto, TypeOK, Lifecycle, TunnelPCs
  <2>d. DescriptorsSet'
    BY <1>rends DEF RequestEnds, HandlerGoto, TypeOK, Lifecycle, DescriptorsSet, TunnelPCs
  <2> QED
    BY <2>t, <2>l, <2>d
<1>rreq. ASSUME NEW c \in Clients, NEW k, ReadRequest(c, k) PROVE TypeOK' /\ Lifecycle' /\ DescriptorsSet'
  <2>h. PICK h \in Hosts : /\ host' = [host EXCEPT ![c] = h]
                          /\ HandlerGoto(c, IF h \in Blocked THEN "deny" ELSE "socket")
    BY <1>rreq DEF ReadRequest, ParsedHosts
  <2>f. cfd[c] \in Fds /\ Left(cfd[c], k) \in [Socks -> Seq(Tokens)]
    BY <1>rreq, ReadTypes DEF ReadRequest, DescriptorsSet
  <2>t. TypeOK'
    BY <1>rreq, <2>h, <2>f DEF ReadRequest, HandlerGoto, TypeOK, HandlerPCs
  <2>l. Lifecycle'
    BY <1>rreq, <2>h DEF ReadRequest, HandlerGoto, TypeOK, Lifecycle, TunnelPCs
  <2>d. DescriptorsSet'
    BY <1>rreq, <2>h DEF ReadRequest, HandlerGoto, TypeOK, Lifecycle, DescriptorsSet, TunnelPCs
  <2> QED
    BY <2>t, <2>l, <2>d
<1>deny. ASSUME NEW c \in Clients, DenyReply(c) PROVE TypeOK' /\ Lifecycle' /\ DescriptorsSet'
  <2>w. Written(cfd[c], <<Forbidden>>) \in [Socks -> Seq(Tokens)]
    <3>1. cfd[c] \in Fds
      BY <1>deny DEF DenyReply, DescriptorsSet, TunnelPCs
    <3>2. <<Forbidden>> \in Seq(Tokens)
      BY TokenTypes DEF TypeOK
    <3> QED
      BY <3>1, <3>2, WrittenType
  <2>t. TypeOK'
    BY <1>deny, <2>w DEF DenyReply, HandlerGoto, TypeOK, HandlerPCs
  <2>l. Lifecycle'
    BY <1>deny DEF DenyReply, HandlerGoto, TypeOK, Lifecycle, TunnelPCs
  <2>d. DescriptorsSet'
    BY <1>deny DEF DenyReply, HandlerGoto, TypeOK, Lifecycle, DescriptorsSet, TunnelPCs
  <2> QED
    BY <2>t, <2>l, <2>d
<1>open. ASSUME NEW c \in Clients, NEW f \in Fds, OpenSocket(c, f) PROVE TypeOK' /\ Lifecycle' /\ DescriptorsSet'
  <2>t. TypeOK'
    BY <1>open, SocketTypes DEF OpenSocket, HandlerGoto, TypeOK, HandlerPCs
  <2>l. Lifecycle'
    BY <1>open DEF OpenSocket, HandlerGoto, TypeOK, Lifecycle, TunnelPCs
  <2>d. DescriptorsSet'
    BY <1>open DEF OpenSocket, HandlerGoto, TypeOK, Lifecycle, DescriptorsSet, TunnelPCs
  <2> QED
    BY <2>t, <2>l, <2>d
<1>conn. ASSUME NEW c \in Clients, Connect(c) PROVE TypeOK' /\ Lifecycle' /\ DescriptorsSet'
  <2>t. TypeOK'
    BY <1>conn DEF Connect, HandlerGoto, TypeOK, HandlerPCs
  <2>l. Lifecycle'
    BY <1>conn DEF Connect, HandlerGoto, TypeOK, Lifecycle, TunnelPCs
  <2>d. DescriptorsSet'
    BY <1>conn DEF Connect, HandlerGoto, TypeOK, Lifecycle, DescriptorsSet, TunnelPCs
  <2> QED
    BY <2>t, <2>l, <2>d
<1>reply. ASSUME NEW c \in Clients, Reply(c) PROVE TypeOK' /\ Lifecycle' /\ DescriptorsSet'
  <2>w. Written(cfd[c], <<OK200>>) \in [Socks -> Seq(Tokens)]
    <3>1. cfd[c] \in Fds
      BY <1>reply DEF Reply, DescriptorsSet, TunnelPCs
    <3>2. <<OK200>> \in Seq(Tokens)
      BY TokenTypes DEF TypeOK
    <3> QED
      BY <3>1, <3>2, WrittenType
  <2>t. TypeOK'
    BY <1>reply, <2>w DEF Reply, HandlerGoto, TypeOK, HandlerPCs, RelayPCs
  <2>l. Lifecycle'
    BY <1>reply DEF Reply, HandlerGoto, TypeOK, Lifecycle, TunnelPCs
  <2>d. DescriptorsSet'
    BY <1>reply DEF Reply, HandlerGoto, TypeOK, Lifecycle, DescriptorsSet, TunnelPCs
  <2> QED
    BY <2>t, <2>l, <2>d
<1>rcli. ASSUME NEW c \in Clients, NEW k, ReadClient(c, k) PROVE TypeOK' /\ Lifecycle' /\ DescriptorsSet'
  <2>g. cfd[c] \in Fds
    BY <1>rcli DEF ReadClient, DescriptorsSet, TunnelPCs
  <2>r. Got(cfd[c], k) \in Seq(Tokens) /\ Left(cfd[c], k) \in [Socks -> Seq(Tokens)]
    BY <1>rcli, <2>g, ReadTypes DEF ReadClient
  <2>t. TypeOK'
    BY <1>rcli, <2>r DEF ReadClient, HandlerGoto, TypeOK, HandlerPCs
  <2>l. Lifecycle'
    BY <1>rcli DEF ReadClient, HandlerGoto, TypeOK, Lifecycle, TunnelPCs
  <2>d. DescriptorsSet'
    BY <1>rcli DEF ReadClient, HandlerGoto, TypeOK, Lifecycle, DescriptorsSet, TunnelPCs
  <2> QED
    BY <2>t, <2>l, <2>d
<1>cends. ASSUME NEW c \in Clients, ClientEnds(c) PROVE TypeOK' /\ Lifecycle' /\ DescriptorsSet'
  <2>t. TypeOK'
    BY <1>cends DEF ClientEnds, HandlerGoto, TypeOK, HandlerPCs
  <2>l. Lifecycle'
    BY <1>cends DEF ClientEnds, HandlerGoto, TypeOK, Lifecycle, TunnelPCs
  <2>d. DescriptorsSet'
    BY <1>cends DEF ClientEnds, HandlerGoto, TypeOK, Lifecycle, DescriptorsSet, TunnelPCs
  <2> QED
    BY <2>t, <2>l, <2>d
<1>whost. ASSUME NEW c \in Clients, WriteHost(c) PROVE TypeOK' /\ Lifecycle' /\ DescriptorsSet'
  <2>w. Written(dfd[c], hbuf[c]) \in [Socks -> Seq(Tokens)]
    <3>1. dfd[c] \in Fds
      BY <1>whost DEF WriteHost, DescriptorsSet, TunnelPCs
    <3>2. hbuf[c] \in Seq(Tokens)
      BY TokenTypes DEF TypeOK
    <3> QED
      BY <3>1, <3>2, WrittenType
  <2>t. TypeOK'
    BY <1>whost, <2>w, EmptySeq DEF WriteHost, HandlerGoto, TypeOK, HandlerPCs
  <2>l. Lifecycle'
    BY <1>whost DEF WriteHost, HandlerGoto, TypeOK, Lifecycle, TunnelPCs
  <2>d. DescriptorsSet'
    BY <1>whost DEF WriteHost, HandlerGoto, TypeOK, Lifecycle, DescriptorsSet, TunnelPCs
  <2> QED
    BY <2>t, <2>l, <2>d
<1>hshut. ASSUME NEW c \in Clients, NEW f \in Fds, NEW from, NEW to \in HandlerPCs,
            \/ from \in TunnelPCs \ {"done"} /\ to \in TunnelPCs
            \/ /\ from \in {"denyshut", "denyclose"} /\ to \in {"denyclose", "done"}
               /\ rpc[c] = "none",
            HandlerShutdown(c, from, f, to) PROVE TypeOK' /\ Lifecycle' /\ DescriptorsSet'
  <2>t. TypeOK'
    BY <1>hshut DEF HandlerShutdown, Shutdown, HandlerGoto, TypeOK
  <2>l. Lifecycle'
    BY <1>hshut DEF HandlerShutdown, Shutdown, HandlerGoto, TypeOK, Lifecycle, TunnelPCs
  <2>d. DescriptorsSet'
    BY <1>hshut DEF HandlerShutdown, Shutdown, HandlerGoto, TypeOK, Lifecycle, DescriptorsSet, TunnelPCs
  <2> QED
    BY <2>t, <2>l, <2>d
<1>hclose. ASSUME NEW c \in Clients, NEW f \in Fds, NEW from, NEW to \in HandlerPCs,
            \/ from \in TunnelPCs \ {"done"} /\ to \in TunnelPCs
            \/ /\ from \in {"denyshut", "denyclose"} /\ to \in {"denyclose", "done"}
               /\ rpc[c] = "none",
            HandlerClose(c, from, f, to) PROVE TypeOK' /\ Lifecycle' /\ DescriptorsSet'
  <2>t. TypeOK'
    BY <1>hclose DEF HandlerClose, Close, Shutdown, HandlerGoto, TypeOK
  <2>l. Lifecycle'
    BY <1>hclose DEF HandlerClose, Close, Shutdown, HandlerGoto, TypeOK, Lifecycle, TunnelPCs
  <2>d. DescriptorsSet'
    BY <1>hclose DEF HandlerClose, Close, Shutdown, HandlerGoto, TypeOK, Lifecycle, DescriptorsSet, TunnelPCs
  <2> QED
    BY <2>t, <2>l, <2>d
<1>dend. ASSUME NEW c \in Clients, DenyEnd(c) PROVE TypeOK' /\ Lifecycle' /\ DescriptorsSet'
  <2>1. cfd[c] \in Fds /\ rpc[c] = "none"
    BY <1>dend DEF DenyEnd, HandlerShutdown, HandlerClose, Lifecycle, DescriptorsSet, TypeOK, TunnelPCs
  <2> QED
    BY <1>dend, <2>1, <1>hshut, <1>hclose DEF DenyEnd, HandlerPCs
<1>tend. ASSUME NEW c \in Clients, TunnelEnd(c) PROVE TypeOK' /\ Lifecycle' /\ DescriptorsSet'
  <2>1. cfd[c] \in Fds /\ dfd[c] \in Fds
    BY <1>tend DEF TunnelEnd, HandlerShutdown, HandlerClose, DescriptorsSet, TunnelPCs
  <2> QED
    BY <1>tend, <2>1, <1>hshut, <1>hclose DEF TunnelEnd, HandlerPCs, TunnelPCs
<1>lstart. ASSUME NEW c \in Clients, RelayStart(c) PROVE TypeOK' /\ Lifecycle' /\ DescriptorsSet'
  <2>t. TypeOK'
    BY <1>lstart DEF RelayStart, TypeOK, RelayPCs
  <2>l. Lifecycle'
    BY <1>lstart DEF RelayStart, TypeOK, Lifecycle, TunnelPCs
  <2>d. DescriptorsSet'
    BY <1>lstart DEF RelayStart, TypeOK, Lifecycle, DescriptorsSet, TunnelPCs
  <2> QED
    BY <2>t, <2>l, <2>d
<1>lstale. ASSUME NEW c \in Clients, NEW d \in Clients, RelayStartStale(c, d) PROVE TypeOK' /\ Lifecycle' /\ DescriptorsSet'
  <2>t. TypeOK'
    BY <1>lstale DEF RelayStartStale, TypeOK, RelayPCs
  <2>l. Lifecycle'
    BY <1>lstale DEF RelayStartStale, TypeOK, Lifecycle, TunnelPCs
  <2>d. DescriptorsSet'
    BY <1>lstale DEF RelayStartStale, TypeOK, Lifecycle, DescriptorsSet, TunnelPCs
  <2> QED
    BY <2>t, <2>l, <2>d
<1>rhost. ASSUME NEW c \in Clients, NEW k, ReadHost(c, k) PROVE TypeOK' /\ Lifecycle' /\ DescriptorsSet'
  <2>g. rdfd[c] \in Fds
    BY <1>rhost DEF ReadHost, DescriptorsSet, TunnelPCs
  <2>r. Got(rdfd[c], k) \in Seq(Tokens) /\ Left(rdfd[c], k) \in [Socks -> Seq(Tokens)]
    BY <1>rhost, <2>g, ReadTypes DEF ReadHost
  <2>t. TypeOK'
    BY <1>rhost, <2>r DEF ReadHost, TypeOK, RelayPCs
  <2>l. Lifecycle'
    BY <1>rhost DEF ReadHost, TypeOK, Lifecycle, TunnelPCs
  <2>d. DescriptorsSet'
    BY <1>rhost DEF ReadHost, TypeOK, Lifecycle, DescriptorsSet, TunnelPCs
  <2> QED
    BY <2>t, <2>l, <2>d
<1>hends. ASSUME NEW c \in Clients, HostEnds(c) PROVE TypeOK' /\ Lifecycle' /\ DescriptorsSet'
  <2>t. TypeOK'
    BY <1>hends DEF HostEnds, TypeOK, RelayPCs
  <2>l. Lifecycle'
    BY <1>hends DEF HostEnds, TypeOK, Lifecycle, TunnelPCs
  <2>d. DescriptorsSet'
    BY <1>hends DEF HostEnds, TypeOK, Lifecycle, DescriptorsSet, TunnelPCs
  <2> QED
    BY <2>t, <2>l, <2>d
<1>wcli. ASSUME NEW c \in Clients, WriteClient(c) PROVE TypeOK' /\ Lifecycle' /\ DescriptorsSet'
  <2>w. Written(rcfd[c], rbuf[c]) \in [Socks -> Seq(Tokens)]
    <3>1. rcfd[c] \in Fds
      BY <1>wcli DEF WriteClient, DescriptorsSet, TunnelPCs
    <3>2. rbuf[c] \in Seq(Tokens)
      BY TokenTypes DEF TypeOK
    <3> QED
      BY <3>1, <3>2, WrittenType
  <2>t. TypeOK'
    BY <1>wcli, <2>w, EmptySeq DEF WriteClient, TypeOK, RelayPCs
  <2>l. Lifecycle'
    BY <1>wcli DEF WriteClient, TypeOK, Lifecycle, TunnelPCs
  <2>d. DescriptorsSet'
    BY <1>wcli DEF WriteClient, TypeOK, Lifecycle, DescriptorsSet, TunnelPCs
  <2> QED
    BY <2>t, <2>l, <2>d
<1>env. ASSUME NEW c \in Clients, Env(c) PROVE TypeOK' /\ Lifecycle' /\ DescriptorsSet'
  BY <1>env, <1>connect, <1>request, <1>psend, <1>pclose, <1>pfin, SocketTypes
     DEF Env, ClientSend, HostSend, ClientClose, HostClose, ClientFin, HostFin
<1>main. ASSUME Main PROVE TypeOK' /\ Lifecycle' /\ DescriptorsSet'
  BY <1>main, <1>accept, <1>create, <1>crash DEF Main, AcceptFails, Faults
<1>hand. ASSUME NEW c \in Clients, HandleConnection(c)
         PROVE  TypeOK' /\ Lifecycle' /\ DescriptorsSet'
  BY <1>hand, <1>start, <1>rends, <1>rreq, <1>deny, <1>open, <1>conn, <1>reply, <1>rcli,
     <1>cends, <1>whost, <1>dend, <1>tend, <1>crash
     DEF HandleConnection, ParseFails, OpenSocketFails, ConnectFails, Faults
<1>relay. ASSUME NEW c \in Clients, HostToCli(c) PROVE TypeOK' /\ Lifecycle' /\ DescriptorsSet'
  BY <1>relay, <1>lstart, <1>lstale, <1>rhost, <1>hends, <1>wcli, <1>crash
     DEF HostToCli, RelayStartFaults, Faults
<1>stay. CASE UNCHANGED vars
  BY <1>stay DEF vars, TypeOK, Lifecycle, DescriptorsSet
<1> QED
  BY <1>env, <1>main, <1>hand, <1>relay, <1>stay DEF Next, Finished

\* In every interleaving of main, the handlers and the relays, for any number
\* of connections and descriptors, every variable keeps its type: in particular
\* no thread ever reads, writes or closes with an unassigned descriptor.
THEOREM TypeCorrect == Spec => []TypeOK
<1>1. Init => TypeInv
  BY InitTypeInv
<1>2. TypeInv /\ [Next]_vars => TypeInv'
  BY NextTypeInv
<1>3. TypeInv => TypeOK
  BY DEF TypeInv
<1> QED
  BY <1>1, <1>2, <1>3, PTL DEF Spec

-----------------------------------------------------------------------------
(* The block list is enforced                                              *)

\* A handler that has passed checkBlocklist holds a name that is not blocked.
Screened ==
  \A c \in Clients : /\ hpc[c] \in {"socket", "connect"} => host[c] \notin Blocked
                     /\ peer[c] \notin Blocked

\* Whatever the arrival pattern, and however descriptors are confused between
\* threads, the proxy never connects to a blocked host.
THEOREM BlockListEnforced == Spec => []BlockedNeverContacted
<1> USE DEF mainVars, handVars, relayVars, sockVars, envVars
<1>1. Init => Screened
  BY HostsAssumption DEF Init, Screened
<1>2. TypeOK /\ Screened /\ [Next]_vars => Screened'
  <2> SUFFICES ASSUME TypeOK, Screened, [Next]_vars PROVE Screened'
    OBVIOUS
  <2>1. CASE UNCHANGED <<hpc, host, peer>>
    BY <2>1 DEF Screened
  <2>2. ASSUME NEW c \in Clients, NEW pc, pc \notin {"socket", "connect"},
               HandlerGoto(c, pc), UNCHANGED <<host, peer>>
        PROVE  Screened'
    BY <2>2 DEF HandlerGoto, Screened, TypeOK
  <2>3. ASSUME NEW c \in Clients, NEW k, ReadRequest(c, k) PROVE Screened'
    BY <2>3 DEF ReadRequest, HandlerGoto, Screened, TypeOK
  <2>4. ASSUME NEW c \in Clients, NEW f \in Fds, OpenSocket(c, f) PROVE Screened'
    BY <2>4 DEF OpenSocket, HandlerGoto, Screened, TypeOK
  <2>5. ASSUME NEW c \in Clients, Connect(c) PROVE Screened'
    BY <2>5 DEF Connect, HandlerGoto, Screened, TypeOK
  <2>6. ASSUME Main PROVE Screened'
    <3>1. CASE CreateHandler
      BY <3>1 DEF CreateHandler, Screened, TypeOK
    <3> QED
      BY <2>1, <2>6, <3>1 DEF Main, Accept, AcceptFails, Crash
  <2>7. ASSUME NEW c \in Clients, HandleConnection(c) PROVE Screened'
    <3>1. CASE DenyEnd(c) \/ TunnelEnd(c)
      BY <2>2, <3>1 DEF DenyEnd, TunnelEnd, HandlerShutdown, HandlerClose
    <3>2. CASE HandlerStart(c) \/ RequestEnds(c) \/ DenyReply(c) \/ Reply(c)
               \/ ClientEnds(c) \/ WriteHost(c) \/ \E k \in ReadSizes : ReadClient(c, k)
      BY <2>2, <3>2
         DEF HandlerStart, RequestEnds, DenyReply, Reply, ReadClient, ClientEnds, WriteHost
    <3>3. CASE OpenSocketFails(c) \/ ConnectFails(c) \/ \E k \in ReadSizes : ParseFails(c, k)
      BY <2>1, <3>3 DEF OpenSocketFails, ConnectFails, ParseFails, Crash
    <3> QED
      BY <2>3, <2>4, <2>5, <2>7, <3>1, <3>2, <3>3 DEF HandleConnection
  <2>8. ASSUME NEW c \in Clients, Env(c) \/ HostToCli(c) PROVE Screened'
    BY <2>1, <2>8
       DEF Env, ClientConnect, ClientRequest, ClientSend, HostSend, PeerSend, ClientClose,
           HostClose, PeerClose, ClientFin, HostFin, PeerFin, HostToCli, RelayStart, RelayStartStale, RelayStartFaults,
           ReadHost, HostEnds, WriteClient, Crash
  <2> QED
    BY <2>1, <2>6, <2>7, <2>8 DEF Next, Finished, vars
<1>3. Screened => BlockedNeverContacted
  BY DEF Screened, BlockedNeverContacted
<1>4. Init => TypeInv
  BY InitTypeInv
<1>5. TypeInv /\ [Next]_vars => TypeInv'
  BY NextTypeInv
<1>6. TypeInv => TypeOK
  BY DEF TypeInv
<1> QED
  BY <1>1, <1>2, <1>3, <1>4, <1>5, <1>6, PTL DEF Spec

-----------------------------------------------------------------------------
(* Who owns a descriptor, when connections do not overlap in main          *)

\* Two sockets are the same only if they are the same end of the same
\* connection, and none is NULL.
LEMMA SocketsDistinct ==
  \A c, d \in Clients : /\ Cli(c) = Cli(d) => c = d
                        /\ Dst(c) = Dst(d) => c = d
                        /\ Cli(c) # Dst(d)
                        /\ Cli(c) # NULL /\ Dst(c) # NULL
BY NullAssumption DEF Cli, Dst

HoldsDst == {"connect", "reply", "read", "write", "shutcli", "closecli", "shutdst",
             "closedst"}

\* At most one connection is between connect() and its handler's copy of
\* main's variable.
OneInFlight == \A c, d \in Clients : InFlight(c) /\ InFlight(d) => c = d

\* main's variable denotes the connection in flight.
SlotOwned == \A c \in Clients : cst[c] = "accepted" /\ hpc[c] \in {"none", "start"} =>
               fdtab[slot] = Cli(c)

\* A handler's descriptors denote its own two sockets while it holds them.
HandlerOwns == \A c \in Clients : /\ hpc[c] \in HoldsClient => fdtab[cfd[c]] = Cli(c)
                                  /\ hpc[c] \in HoldsDst    => fdtab[dfd[c]] = Dst(c)

\* No socket has two descriptors, and an open socket has a handler that has
\* not closed it yet.
TableOwned ==
  /\ \A f, g \in Fds : fdtab[f] # NULL /\ fdtab[f] = fdtab[g] => f = g
  /\ \A f \in Fds, c \in Clients :
       /\ fdtab[f] = Cli(c) =>
            cst[c] = "accepted" /\ hpc[c] \in {"none", "start"} \cup HoldsClient
       /\ fdtab[f] = Dst(c) => hpc[c] \in HoldsDst

OwnInv == OneInFlight /\ SlotOwned /\ HandlerOwns /\ TableOwned

\* What OwnInv depends on.
ownVars == <<cst, slot, hpc, cfd, dfd, fdtab>>

\* No connection is open at the start.
LEMMA InitOwnInv == Init => OwnInv
BY SocketsDistinct
   DEF Init, OwnInv, OneInFlight, SlotOwned, HandlerOwns, TableOwned, InFlight, HoldsClient,
       HoldsDst

\* With paced arrivals every step keeps descriptors with their owners.
LEMMA NextOwnInv ==
  ASSUME Arrivals # "any", TypeInv, OwnInv, [Next]_vars
  PROVE  OwnInv'
<1> USE DEF mainVars, handVars, relayVars, sockVars, envVars
<1> TypeOK /\ Lifecycle /\ DescriptorsSet
  BY DEF TypeInv
<1> OneInFlight /\ SlotOwned /\ HandlerOwns /\ TableOwned
  BY DEF OwnInv
<1> SUFFICES OneInFlight' /\ SlotOwned' /\ HandlerOwns' /\ TableOwned'
  BY DEF OwnInv
<1>same. ASSUME UNCHANGED ownVars
         PROVE  OneInFlight' /\ SlotOwned' /\ HandlerOwns' /\ TableOwned'
  BY <1>same DEF ownVars, OneInFlight, InFlight, SlotOwned, HandlerOwns, TableOwned
<1>connect. ASSUME NEW c \in Clients, ClientConnect(c)
            PROVE  OneInFlight' /\ SlotOwned' /\ HandlerOwns' /\ TableOwned'
  <2>1. OneInFlight'
    BY <1>connect DEF ClientConnect, MayConnect, OneInFlight, InFlight, TypeOK
  <2> QED
    BY <1>connect, <2>1 DEF ClientConnect, SlotOwned, HandlerOwns, TableOwned, TypeOK
<1>accept. ASSUME NEW c \in Clients, NEW f \in Fds, Accept(c, f)
           PROVE  OneInFlight' /\ SlotOwned' /\ HandlerOwns' /\ TableOwned'
  <2>1. fdtab[f] = NULL /\ hpc[c] = "none" /\ InFlight(c)
    BY <1>accept DEF Accept, IsLowestFree, FreeFds, Lifecycle, InFlight, TypeOK
  <2>2. OneInFlight'
    BY <1>accept, <2>1 DEF Accept, OneInFlight, InFlight, TypeOK
  <2>3. SlotOwned'
    BY <1>accept, <2>1 DEF Accept, SlotOwned, OneInFlight, InFlight, TypeOK
  <2>4. HandlerOwns'
    BY <1>accept, <2>1, SocketsDistinct
       DEF Accept, HandlerOwns, TypeOK, DescriptorsSet, HoldsClient, HoldsDst, TunnelPCs
  <2>5. TableOwned'
    <3>1. \A g \in Fds : fdtab[g] # Cli(c)
      BY <1>accept DEF TableOwned, Accept
    <3>2. \A g, h \in Fds : fdtab'[g] # NULL /\ fdtab'[g] = fdtab'[h] => g = h
      BY <1>accept, <3>1 DEF Accept, TableOwned, TypeOK
    <3> QED
      BY <1>accept, <2>1, <3>2, SocketsDistinct DEF Accept, TableOwned, TypeOK
  <2> QED
    BY <2>2, <2>3, <2>4, <2>5
<1>create. ASSUME CreateHandler
           PROVE  OneInFlight' /\ SlotOwned' /\ HandlerOwns' /\ TableOwned'
  <2>1. cur \in Clients /\ cst[cur] = "accepted" /\ hpc[cur] = "none"
    BY <1>create DEF CreateHandler, Lifecycle
  <2>2. OneInFlight' /\ SlotOwned'
    BY <1>create, <2>1 DEF CreateHandler, OneInFlight, InFlight, SlotOwned, TypeOK
  <2>3. HandlerOwns'
    BY <1>create, <2>1 DEF CreateHandler, HandlerOwns, TypeOK, HoldsClient, HoldsDst
  <2>4. TableOwned'
    BY <1>create, <2>1 DEF CreateHandler, TableOwned, TypeOK, HoldsClient, HoldsDst
  <2> QED
    BY <2>2, <2>3, <2>4
<1>start. ASSUME NEW c \in Clients, HandlerStart(c)
          PROVE  OneInFlight' /\ SlotOwned' /\ HandlerOwns' /\ TableOwned'
  <2>1. cst[c] = "accepted" /\ fdtab[slot] = Cli(c)
    BY <1>start DEF HandlerStart, Lifecycle, SlotOwned
  <2>2. OneInFlight' /\ SlotOwned'
    BY <1>start DEF HandlerStart, HandlerGoto, OneInFlight, InFlight, SlotOwned, TypeOK
  <2>3. HandlerOwns'
    BY <1>start, <2>1 DEF HandlerStart, HandlerGoto, HandlerOwns, TypeOK, HoldsDst
  <2>4. TableOwned'
    BY <1>start DEF HandlerStart, HandlerGoto, TableOwned, TypeOK, HoldsClient, HoldsDst
  <2> QED
    BY <2>2, <2>3, <2>4
<1>goto. ASSUME NEW c \in Clients, NEW pc \in HandlerPCs \ {"none", "start"},
                hpc[c] \notin {"none", "start"},
                hpc[c] \in HoldsClient <=> pc \in HoldsClient,
                hpc[c] \in HoldsDst <=> pc \in HoldsDst,
                HandlerGoto(c, pc), UNCHANGED <<cst, slot, cfd, dfd, fdtab>>
         PROVE  OneInFlight' /\ SlotOwned' /\ HandlerOwns' /\ TableOwned'
  <2>1. OneInFlight' /\ SlotOwned'
    BY <1>goto DEF HandlerGoto, OneInFlight, InFlight, SlotOwned, TypeOK
  <2>2. HandlerOwns'
    BY <1>goto DEF HandlerGoto, HandlerOwns, TypeOK
  <2>3. TableOwned'
    BY <1>goto DEF HandlerGoto, TableOwned, TypeOK
  <2> QED
    BY <2>1, <2>2, <2>3
<1>open. ASSUME NEW c \in Clients, NEW f \in Fds, OpenSocket(c, f)
         PROVE  OneInFlight' /\ SlotOwned' /\ HandlerOwns' /\ TableOwned'
  <2>1. fdtab[f] = NULL /\ hpc[c] = "socket"
    BY <1>open DEF OpenSocket, IsLowestFree, FreeFds
  <2>2. OneInFlight'
    BY <1>open DEF OpenSocket, HandlerGoto, OneInFlight, InFlight, TypeOK
  <2>3. SlotOwned'
    BY <1>open, <2>1, SocketsDistinct
       DEF OpenSocket, HandlerGoto, SlotOwned, TypeOK, DescriptorsSet, Lifecycle
  <2>4. HandlerOwns'
    BY <1>open, <2>1, SocketsDistinct
       DEF OpenSocket, HandlerGoto, HandlerOwns, TypeOK, DescriptorsSet, HoldsClient,
           HoldsDst, TunnelPCs
  <2>5. TableOwned'
    <3>1. \A g \in Fds : fdtab[g] # Dst(c)
      BY <2>1 DEF TableOwned, HoldsDst
    <3>2. \A g, h \in Fds : fdtab'[g] # NULL /\ fdtab'[g] = fdtab'[h] => g = h
      BY <1>open, <3>1 DEF OpenSocket, TableOwned, TypeOK
    <3> QED
      BY <1>open, <2>1, <3>2, SocketsDistinct
         DEF OpenSocket, HandlerGoto, TableOwned, TypeOK, HoldsClient, HoldsDst
  <2> QED
    BY <2>2, <2>3, <2>4, <2>5
<1>closecli. ASSUME NEW c \in Clients, NEW from \in {"denyclose", "closecli"},
                    NEW to \in HandlerPCs,
                    to = IF from = "closecli" THEN "shutdst" ELSE "done",
                    HandlerClose(c, from, cfd[c], to)
             PROVE  OneInFlight' /\ SlotOwned' /\ HandlerOwns' /\ TableOwned'
  <2>1. cfd[c] \in Fds /\ fdtab[cfd[c]] = Cli(c) /\ fdtab' = [fdtab EXCEPT ![cfd[c]] = NULL]
    BY <1>closecli DEF HandlerClose, Close, DescriptorsSet, HandlerOwns, HoldsClient
  <2>2. OneInFlight'
    BY <1>closecli DEF HandlerClose, HandlerGoto, OneInFlight, InFlight, TypeOK
  <2>3. SlotOwned'
    BY <1>closecli, <2>1, SocketsDistinct
       DEF HandlerClose, HandlerGoto, SlotOwned, TypeOK, DescriptorsSet, Lifecycle
  <2>4. HandlerOwns'
    BY <1>closecli, <2>1, SocketsDistinct
       DEF HandlerClose, HandlerGoto, HandlerOwns, TypeOK, DescriptorsSet, HoldsClient,
           HoldsDst, TunnelPCs
  <2>5. TableOwned'
    <3>1. \A g \in Fds : fdtab'[g] # Cli(c)
      BY <2>1, SocketsDistinct DEF TableOwned, TypeOK
    <3> QED
      BY <1>closecli, <2>1, <3>1, SocketsDistinct
         DEF HandlerClose, HandlerGoto, TableOwned, TypeOK, HoldsClient, HoldsDst
  <2> QED
    BY <2>2, <2>3, <2>4, <2>5
<1>closedst. ASSUME NEW c \in Clients, HandlerClose(c, "closedst", dfd[c], "done")
             PROVE  OneInFlight' /\ SlotOwned' /\ HandlerOwns' /\ TableOwned'
  <2>1. dfd[c] \in Fds /\ fdtab[dfd[c]] = Dst(c) /\ fdtab' = [fdtab EXCEPT ![dfd[c]] = NULL]
    BY <1>closedst DEF HandlerClose, Close, DescriptorsSet, HandlerOwns, HoldsDst, TunnelPCs
  <2>2. OneInFlight'
    BY <1>closedst DEF HandlerClose, HandlerGoto, OneInFlight, InFlight, TypeOK
  <2>3. SlotOwned'
    BY <1>closedst, <2>1, SocketsDistinct
       DEF HandlerClose, HandlerGoto, SlotOwned, TypeOK, DescriptorsSet, Lifecycle
  <2>4. HandlerOwns'
    BY <1>closedst, <2>1, SocketsDistinct
       DEF HandlerClose, HandlerGoto, HandlerOwns, TypeOK, DescriptorsSet, HoldsClient,
           HoldsDst, TunnelPCs
  <2>5. TableOwned'
    <3>1. \A g \in Fds : fdtab'[g] # Dst(c)
      BY <2>1, SocketsDistinct DEF TableOwned, TypeOK
    <3> QED
      BY <1>closedst, <2>1, <3>1, SocketsDistinct
         DEF HandlerClose, HandlerGoto, TableOwned, TypeOK, HoldsClient, HoldsDst
  <2> QED
    BY <2>2, <2>3, <2>4, <2>5
<1>rreq. ASSUME NEW c \in Clients, NEW k, ReadRequest(c, k)
         PROVE  OneInFlight' /\ SlotOwned' /\ HandlerOwns' /\ TableOwned'
  <2>1. PICK h \in Hosts : HandlerGoto(c, IF h \in Blocked THEN "deny" ELSE "socket")
    BY <1>rreq DEF ReadRequest, ParsedHosts
  <2> QED
    BY <1>rreq, <2>1, <1>goto DEF ReadRequest, HandlerPCs, HoldsClient, HoldsDst
<1>hand. ASSUME NEW c \in Clients, HandleConnection(c)
         PROVE  OneInFlight' /\ SlotOwned' /\ HandlerOwns' /\ TableOwned'
  <2>1. CASE RequestEnds(c) \/ DenyReply(c)
    BY <2>1, <1>goto DEF RequestEnds, DenyReply, HandlerPCs, HoldsClient, HoldsDst
  <2>2. CASE Connect(c) \/ Reply(c) \/ ClientEnds(c)
    BY <2>2, <1>goto DEF Connect, Reply, ClientEnds, HandlerPCs, HoldsClient, HoldsDst
  <2>3. CASE WriteHost(c) \/ \E k \in ReadSizes : ReadClient(c, k)
    BY <2>3, <1>goto DEF WriteHost, ReadClient, HandlerPCs, HoldsClient, HoldsDst
  <2>4. CASE OpenSocketFails(c) \/ ConnectFails(c) \/ \E k \in ReadSizes : ParseFails(c, k)
    BY <2>4, <1>same DEF OpenSocketFails, ConnectFails, ParseFails, Crash, ownVars
  <2>5. ASSUME NEW from, NEW f, NEW to, HandlerShutdown(c, from, f, to),
               <<from, to>> \in {<<"denyshut", "denyclose">>, <<"shutcli", "closecli">>,
                                 <<"shutdst", "closedst">>}
        PROVE  OneInFlight' /\ SlotOwned' /\ HandlerOwns' /\ TableOwned'
    BY <2>5, <1>goto DEF HandlerShutdown, HandlerPCs, HoldsClient, HoldsDst
  <2>6. CASE DenyEnd(c)
    BY <2>5, <2>6, <1>closecli DEF DenyEnd, HandlerPCs
  <2>7. CASE TunnelEnd(c)
    BY <2>5, <2>7, <1>closecli, <1>closedst DEF TunnelEnd, HandlerPCs
  <2> QED
    BY <1>hand, <1>start, <1>rreq, <1>open, <2>1, <2>2, <2>3, <2>4, <2>6, <2>7
       DEF HandleConnection
<1>env. ASSUME NEW c \in Clients, Env(c) \/ HostToCli(c)
        PROVE  OneInFlight' /\ SlotOwned' /\ HandlerOwns' /\ TableOwned'
  BY <1>env, <1>same, <1>connect
     DEF Env, ClientRequest, ClientSend, HostSend, PeerSend, ClientClose, HostClose, PeerClose, ClientFin, HostFin, PeerFin,
         HostToCli, RelayStart, RelayStartStale, RelayStartFaults, ReadHost, HostEnds,
         WriteClient, Crash, ownVars
<1>main. ASSUME Main PROVE OneInFlight' /\ SlotOwned' /\ HandlerOwns' /\ TableOwned'
  BY <1>main, <1>accept, <1>create, <1>same DEF Main, AcceptFails, Crash, ownVars
<1> QED
  BY <1>env, <1>main, <1>hand, <1>same DEF Next, Finished, vars, ownVars

\* When no two connections overlap between connect() and the handler's copy of
\* client_fd, a handler's descriptor denotes its own client from the first read
\* to the close, for any number of connections served at the same time.
THEOREM OwnClientServed == Arrivals # "any" => (Spec => []ServesOwnClient)
<1> SUFFICES ASSUME Arrivals # "any" PROVE Spec => []ServesOwnClient
  OBVIOUS
<1>1. Init => TypeInv /\ OwnInv
  BY InitTypeInv, InitOwnInv
<1>2. TypeInv /\ OwnInv /\ [Next]_vars => TypeInv' /\ OwnInv'
  BY NextTypeInv, NextOwnInv
<1>3. OwnInv => ServesOwnClient
  BY DEF OwnInv, HandlerOwns, ServesOwnClient
<1> QED
  BY <1>1, <1>2, <1>3, PTL DEF Spec

\* Under the same assumption a handler that has returned has closed both of
\* its descriptors, in spite of all the reuse of numbers in between.
THEOREM NothingLeaks == Arrivals # "any" => (Spec => []NoDescriptorLeak)
<1> SUFFICES ASSUME Arrivals # "any" PROVE Spec => []NoDescriptorLeak
  OBVIOUS
<1>1. Init => TypeInv /\ OwnInv
  BY InitTypeInv, InitOwnInv
<1>2. TypeInv /\ OwnInv /\ [Next]_vars => TypeInv' /\ OwnInv'
  BY NextTypeInv, NextOwnInv
<1>3. OwnInv => NoDescriptorLeak
  BY DEF OwnInv, TableOwned, NoDescriptorLeak, NoneOpen, HoldsClient, HoldsDst
<1> QED
  BY <1>1, <1>2, <1>3, PTL DEF Spec

\* A step that frees or reuses an open descriptor is its owner's close().
LEMMA StepOwnerCloses ==
  ASSUME TypeInv, OwnInv, [Next]_vars
  PROVE  OwnerCloses \/ UNCHANGED vars
<1> USE DEF mainVars, handVars, relayVars, sockVars, envVars
<1> TypeOK /\ DescriptorsSet /\ HandlerOwns
  BY DEF TypeInv, OwnInv
<1>same. ASSUME UNCHANGED fdtab PROVE OwnerCloses
  BY <1>same DEF OwnerCloses
<1>accept. ASSUME NEW c \in Clients, NEW f \in Fds, Accept(c, f) PROVE OwnerCloses
  BY <1>accept DEF Accept, IsLowestFree, FreeFds, OwnerCloses, TypeOK
<1>open. ASSUME NEW c \in Clients, NEW f \in Fds, OpenSocket(c, f) PROVE OwnerCloses
  BY <1>open DEF OpenSocket, IsLowestFree, FreeFds, OwnerCloses, TypeOK
<1>close. ASSUME NEW c \in Clients, NEW from \in {"denyclose", "closecli", "closedst"},
                 NEW to, to # from, NEW f \in Fds, HandlerClose(c, from, f, to),
                 fdtab[f] \in {Cli(c), Dst(c)}
          PROVE  OwnerCloses
  BY <1>close DEF HandlerClose, Close, HandlerGoto, OwnerCloses, TypeOK
<1>ends. ASSUME NEW c \in Clients, DenyEnd(c) \/ TunnelEnd(c) PROVE OwnerCloses
  <2>1. CASE UNCHANGED fdtab
    BY <2>1, <1>same
  <2>2. CASE HandlerClose(c, "denyclose", cfd[c], "done")
             \/ HandlerClose(c, "closecli", cfd[c], "shutdst")
    <3>1. cfd[c] \in Fds /\ fdtab[cfd[c]] = Cli(c)
      BY <2>2 DEF HandlerClose, DescriptorsSet, HandlerOwns, HoldsClient
    <3> QED
      BY <2>2, <3>1, <1>close
  <2>3. CASE HandlerClose(c, "closedst", dfd[c], "done")
    <3>1. dfd[c] \in Fds /\ fdtab[dfd[c]] = Dst(c)
      BY <2>3 DEF HandlerClose, DescriptorsSet, HandlerOwns, HoldsDst, TunnelPCs
    <3> QED
      BY <2>3, <3>1, <1>close
  <2> QED
    BY <1>ends, <2>1, <2>2, <2>3 DEF DenyEnd, TunnelEnd, HandlerShutdown
<1>hand. ASSUME NEW c \in Clients, HandleConnection(c) PROVE OwnerCloses
  BY <1>hand, <1>same, <1>open, <1>ends
     DEF HandleConnection, HandlerStart, RequestEnds, ReadRequest, ParseFails, DenyReply,
         OpenSocketFails, Connect, ConnectFails, Reply, ReadClient, ClientEnds, WriteHost, Crash
<1>rest. ASSUME NEW c \in Clients, Env(c) \/ HostToCli(c) PROVE OwnerCloses
  BY <1>rest, <1>same
     DEF Env, ClientConnect, ClientRequest, ClientSend, HostSend, PeerSend, ClientClose,
         HostClose, PeerClose, ClientFin, HostFin, PeerFin, HostToCli, RelayStart, RelayStartStale, RelayStartFaults,
         ReadHost, HostEnds, WriteClient, Crash
<1>main. ASSUME Main PROVE OwnerCloses
  BY <1>main, <1>accept, <1>same DEF Main, AcceptFails, CreateHandler, Crash
<1> QED
  BY <1>hand, <1>rest, <1>main DEF Next, Finished

\* Under the same assumption no thread closes a descriptor of another
\* connection, although every number is reused as soon as it is free.
THEOREM NobodyClosesForeign == Arrivals # "any" => (Spec => NoForeignClose)
<1> SUFFICES ASSUME Arrivals # "any" PROVE Spec => NoForeignClose
  OBVIOUS
<1>1. Init => TypeInv /\ OwnInv
  BY InitTypeInv, InitOwnInv
<1>2. TypeInv /\ OwnInv /\ [Next]_vars => TypeInv' /\ OwnInv'
  BY NextTypeInv, NextOwnInv
<1>3. TypeInv /\ OwnInv /\ [Next]_vars => [OwnerCloses]_vars
  BY StepOwnerCloses
<1> QED
  BY <1>1, <1>2, <1>3, PTL DEF Spec, NoForeignClose

\* Once accept() has failed for want of a descriptor, none is free: the process
\* has stopped and the table stays as it was.
TableFull == fault = "client_fd" => FreeFds = {}

\* accept() runs out of descriptors only when each of them belongs to a
\* connection whose handler has not returned.
THEOREM ExhaustionMeansLoad == Arrivals # "any" => (Spec => []ExhaustedOnlyByLoad)
<1> SUFFICES ASSUME Arrivals # "any" PROVE Spec => []ExhaustedOnlyByLoad
  OBVIOUS
<1> USE DEF mainVars, handVars, relayVars, sockVars, envVars
<1>1. Init => TypeInv /\ OwnInv /\ TableFull
  BY InitTypeInv, InitOwnInv DEF Init, TableFull
<1>2. TypeInv /\ OwnInv /\ [Next]_vars => TypeInv' /\ OwnInv'
  BY NextTypeInv, NextOwnInv
<1>3. TableFull /\ [Next]_vars => TableFull'
  <2> SUFFICES ASSUME TableFull, [Next]_vars PROVE TableFull'
    OBVIOUS
  <2>1. CASE fault' = "client_fd" /\ fault = "none"
    <3>1. AcceptFails
      BY <2>1
         DEF Next, Finished, vars, Main, Accept, CreateHandler, Env, ClientConnect,
             ClientRequest, ClientSend, HostSend, PeerSend, ClientClose, HostClose, PeerClose, ClientFin, HostFin, PeerFin,
             HandleConnection, HandlerStart, RequestEnds, ReadRequest, ParseFails, DenyReply,
             DenyEnd, OpenSocket, OpenSocketFails, Connect, ConnectFails, Reply, ReadClient,
             ClientEnds, WriteHost, TunnelEnd, HandlerShutdown, HandlerClose, HostToCli,
             RelayStart, RelayStartStale, RelayStartFaults, ReadHost, HostEnds, WriteClient, Crash
    <3> QED
      BY <3>1 DEF AcceptFails, Crash, FreeFds, TableFull
  <2>2. CASE UNCHANGED <<fault, fdtab>>
    BY <2>2 DEF TableFull, FreeFds
  <2>3. CASE fault' # "client_fd"
    BY <2>3 DEF TableFull
  <2> QED
    BY <2>1, <2>2, <2>3 DEF Next, Finished, vars
<1>4. TypeInv /\ OwnInv /\ TableFull => ExhaustedOnlyByLoad
  <2> SUFFICES ASSUME TypeInv, OwnInv, FreeFds = {}, NEW f \in Fds
               PROVE  \E c \in Clients : fdtab[f] \in {Cli(c), Dst(c)} /\ hpc[c] # "done"
    BY DEF TableFull, ExhaustedOnlyByLoad
  <2>1. fdtab[f] \in Socks
    BY DEF FreeFds, TypeInv, TypeOK
  <2>2. PICK c \in Clients : fdtab[f] \in {Cli(c), Dst(c)}
    BY <2>1 DEF Socks, Cli, Dst
  <2> QED
    BY <2>2 DEF OwnInv, TableOwned, HoldsClient, HoldsDst
<1> QED
  BY <1>1, <1>2, <1>3, <1>4, PTL DEF Spec

=============================================================================
