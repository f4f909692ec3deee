------------------------- MODULE ProxyTunnelProofs -------------------------
(***************************************************************************)
(* Proofs about what the clients and hosts of ProxyServer receive, for any *)
(* number of them and of descriptors: the answers (when connections do not *)
(* overlap in main) and the tunnels' data (when they follow each other).   *)
(***************************************************************************)
EXTENDS ProxyServerProofs

-----------------------------------------------------------------------------
(* Tokens in queues and buffers                                            *)

Has(q, a) == \E j \in 1..Len(q) : q[j] = a

\* What a short sequence holds.
LEMMA HasFew ==
  /\ \A a : ~Has(<< >>, a)
  /\ \A a, x : Has(<<x>>, a) <=> a = x
  /\ \A a, x, y : Has(<<x, y>>, a) <=> a = x \/ a = y
<1>1. \A a : ~Has(<< >>, a)
  BY DEF Has
<1>2. \A a, x : Has(<<x>>, a) <=> a = x
  BY DEF Has
<1>3. \A a, x, y : Has(<<x, y>>, a) <=> a = x \/ a = y
  <2> SUFFICES ASSUME NEW a, NEW x, NEW y PROVE Has(<<x, y>>, a) <=> a = x \/ a = y
    OBVIOUS
  <2>1. Len(<<x, y>>) = 2 /\ <<x, y>>[1] = x /\ <<x, y>>[2] = y
    OBVIOUS
  <2>2. 1..2 = {1, 2}
    OBVIOUS
  <2> QED
    BY <2>1, <2>2 DEF Has
<1> QED
  BY <1>1, <1>2, <1>3

\* What two joined sequences hold, one of them held.
LEMMA HasJoined ==
  ASSUME NEW q \in Seq(Tokens), NEW b \in Seq(Tokens), NEW a, Has(q \o b, a)
  PROVE  Has(q, a) \/ Has(b, a)
<1>1. PICK j \in 1..Len(q \o b) : (q \o b)[j] = a
  BY DEF Has
<1>2. Len(q) \in Nat /\ Len(b) \in Nat /\ Len(q \o b) = Len(q) + Len(b)
  BY LenProperties, ConcatProperties
<1>3. CASE j <= Len(q)
  <2>1. j \in 1..Len(q) /\ q[j] = a
    BY <1>1, <1>2, <1>3
  <2> QED
    BY <2>1 DEF Has
<1>4. CASE ~(j <= Len(q))
  <2>1. j - Len(q) \in 1..Len(b) /\ b[j - Len(q)] = a
    BY <1>1, <1>2, <1>4
  <2> QED
    BY <2>1 DEF Has
<1> QED
  BY <1>3, <1>4

\* Appending adds nothing but the new element.
LEMMA HasAppended ==
  ASSUME NEW q \in Seq(Tokens), NEW x \in Tokens, NEW a, Has(Append(q, x), a)
  PROVE  Has(q, a) \/ a = x
<1>1. Append(q, x) = q \o <<x>> /\ <<x>> \in Seq(Tokens)
  OBVIOUS
<1>2. Has(q, a) \/ Has(<<x>>, a)
  BY <1>1, HasJoined
<1>3. Has(<<x>>, a) => a = x
  BY HasFew
<1> QED
  BY <1>2, <1>3

\* Either part of a sequence that is cut holds only what the whole did.
LEMMA HasCut ==
  ASSUME NEW q \in Seq(Tokens), NEW k \in 1..Len(q), NEW a,
         Has(SubSeq(q, 1, k), a) \/ Has(SubSeq(q, k + 1, Len(q)), a)
  PROVE  Has(q, a)
<1>1. Len(q) \in Nat /\ k \in Nat
  BY LenProperties
<1>2. CASE Has(SubSeq(q, 1, k), a)
  <2>1. Len(SubSeq(q, 1, k)) = k /\ \A j \in 1..k : SubSeq(q, 1, k)[j] = q[j]
    BY <1>1
  <2>2. PICK j \in 1..k : q[j] = a
    BY <1>2, <2>1 DEF Has
  <2> QED
    BY <1>1, <2>2 DEF Has
<1>3. CASE Has(SubSeq(q, k + 1, Len(q)), a)
  <2>1. /\ Len(SubSeq(q, k + 1, Len(q))) = Len(q) - k
        /\ \A j \in 1..(Len(q) - k) : SubSeq(q, k + 1, Len(q))[j] = q[k + j]
    BY <1>1
  <2>2. PICK j \in 1..(Len(q) - k) : q[k + j] = a
    BY <1>3, <2>1 DEF Has
  <2>3. k + j \in 1..Len(q)
    BY <1>1
  <2> QED
    BY <2>2, <2>3 DEF Has
<1> QED
  BY <1>2, <1>3

\* A status line is neither data nor part of a request.
LEMMA TokensDiffer ==
  /\ OK200 # Forbidden /\ RequestLine \notin {OK200, Forbidden}
  /\ \A s, n : Chunk(s, n) \notin {OK200, Forbidden}
  /\ \A h : HostLine(h) \notin {OK200, Forbidden}
  /\ \A h : HostLine(h) # RequestLine
  /\ \A h, s, n : HostLine(h) # Chunk(s, n)
  /\ \A g, h : HostLine(g) = HostLine(h) => g = h
BY DEF OK200, Forbidden, RequestLine, Chunk, HostLine, Token

\* What read() takes, and what it leaves, had arrived.
LEMMA ReadHas ==
  ASSUME TypeOK, NEW f \in Fds, NEW k, ReadGets(f, k), NEW a
  PROVE  /\ fdtab[f] \in Socks
         /\ Has(Got(f, k), a) => Has(inq[fdtab[f]], a)
         /\ \A s \in Socks : Has(Left(f, k)[s], a) => Has(inq[s], a)
<1> DEFINE q == inq[fdtab[f]]
<1>1. fdtab[f] \in Socks /\ q \in Seq(Tokens) /\ k \in 1..Len(q)
  BY DEF TypeOK, ReadGets
<1>2. Left(f, k) = [inq EXCEPT ![fdtab[f]] = SubSeq(q, k + 1, Len(q))] /\ Got(f, k) = SubSeq(q, 1, k)
  BY DEF Left, Got
<1>3. \A s \in Socks : Left(f, k)[s] = IF s = fdtab[f] THEN SubSeq(q, k + 1, Len(q)) ELSE inq[s]
  BY <1>1, <1>2 DEF TypeOK
<1>4. /\ Has(SubSeq(q, 1, k), a) => Has(q, a)
      /\ Has(SubSeq(q, k + 1, Len(q)), a) => Has(q, a)
  <2> HIDE DEF q
  <2> QED
    BY <1>1, HasCut
<1> QED
  BY <1>1, <1>2, <1>3, <1>4

\* What has been delivered after write() had been before, or was written.
LEMMA WrittenHas ==
  ASSUME TypeOK, NEW f \in Fds, NEW buf \in Seq(Tokens), NEW s \in Socks, NEW a,
         Has(Written(f, buf)[s], a)
  PROVE  Has(outq[s], a) \/ (Has(buf, a) /\ Writable(f) /\ s = fdtab[f])
<1>1. CASE Writable(f) /\ s = fdtab[f]
  <2>1. outq[s] \in Seq(Tokens) /\ Written(f, buf)[s] = outq[s] \o buf
    BY <1>1 DEF Written, TypeOK
  <2> QED
    BY <1>1, <2>1, HasJoined
<1>2. CASE ~(Writable(f) /\ s = fdtab[f])
  <2>1. Written(f, buf)[s] = outq[s]
    BY <1>2 DEF Written, TypeOK
  <2> QED
    BY <2>1
<1> QED
  BY <1>1, <1>2

-----------------------------------------------------------------------------
(* The invariant behind the answers                                        *)

NoAnswerIn(q) == ~Has(q, OK200) /\ ~Has(q, Forbidden)

\* Status lines are written by handlers only: none is ever read from a socket.
NoneUnderWay ==
  /\ \A s \in Socks : NoAnswerIn(inq[s])
  /\ \A c \in Clients : NoAnswerIn(hbuf[c]) /\ NoAnswerIn(rbuf[c])

\* A Host line that a client's handler will read is that client's own.
OwnLines == \A c \in Clients, h \in Hosts : Has(inq[Cli(c)], HostLine(h)) => h = req[c]

\* A handler that opens a tunnel does so for the allowed host its client asked
\* for; one that refuses has read a blocked name, or its client sent none and
\* ended its stream, or nobody will hear it.
Mute(c) == fin[Cli(c)] /\ host[c] = NULL
Asked ==
  \A c \in Clients :
    /\ hpc[c] \in {"socket", "connect", "reply"} => host[c] = req[c] /\ req[c] \in Hosts \ Blocked
    /\ hpc[c] = "reply" => peer[c] = req[c]
    /\ hpc[c] = "deny" => req[c] \in Blocked \/ gone[Cli(c)] \/ shut[Cli(c)] \/ Mute(c)

\* Until its request has been read, a handler knows no host and has refused
\* nobody.
Early == {"none", "start", "request"}
NotYet ==
  \A c \in Clients : hpc[c] \in Early => host[c] = NULL /\ ~Has(outq[Cli(c)], Forbidden)

\* A client that has been told 200 has its tunnel, one that was told 403 asked
\* for a blocked host or sent no request.
Told ==
  \A c \in Clients :
    /\ Has(outq[Cli(c)], OK200)     => req[c] \in Hosts \ Blocked /\ peer[c] = req[c]
    /\ Has(outq[Cli(c)], Forbidden) => req[c] \in Blocked \/ Mute(c)

AnswerInv == NoneUnderWay /\ OwnLines /\ Asked /\ NotYet /\ Told

\* What AnswerInv depends on.
answerVars == <<inq, hbuf, rbuf, req, hpc, host, peer, gone, fin, shut, outq>>

\* Nothing has been said at the start.
LEMMA InitAnswerInv == Init => AnswerInv
BY HasFew, SocketTypes DEF Init, AnswerInv, NoneUnderWay, NoAnswerIn, OwnLines, Asked, Mute, NotYet, Early, Told

\* Every step keeps it, when connections do not overlap in main.
LEMMA NextAnswerInv ==
  ASSUME TypeInv, OwnInv, AnswerInv, [Next]_vars
  PROVE  AnswerInv'
<1> USE DEF mainVars, handVars, relayVars, sockVars, envVars
<1>inv. /\ TypeOK /\ DescriptorsSet /\ HandlerOwns
        /\ NoneUnderWay /\ OwnLines /\ Asked /\ NotYet /\ Told
  BY DEF TypeInv, OwnInv, AnswerInv
<1>soc. \A c \in Clients : Cli(c) \in Socks /\ Dst(c) \in Socks
  BY SocketTypes
<1>same. ASSUME UNCHANGED answerVars PROVE AnswerInv'
  BY <1>inv, <1>same
     DEF answerVars, AnswerInv, NoneUnderWay, NoAnswerIn, OwnLines, Asked, Mute, NotYet, Early, Told
<1>early. ASSUME \A d \in Clients : hpc'[d] \in Early => hpc[d] \in Early /\ host'[d] = host[d],
                 \A d \in Clients : Has(outq'[Cli(d)], Forbidden) =>
                   Has(outq[Cli(d)], Forbidden) \/ hpc'[d] \notin Early
          PROVE  NotYet'
  BY <1>inv, <1>early DEF NotYet
\* A thread goes on, and at most a socket is shut down.
<1>goto. ASSUME NEW c \in Clients, NEW pc, pc \notin {"socket", "connect", "reply", "deny"},
                pc \in Early => hpc[c] \in Early, HandlerGoto(c, pc), UNCHANGED <<inq, hbuf, rbuf, req, host, peer, gone, fin, outq>>,
                \A s \in Socks : shut[s] => shut'[s]
         PROVE  AnswerInv'
  <2>1. NoneUnderWay' /\ OwnLines' /\ Told'
    BY <1>inv, <1>goto DEF NoneUnderWay, NoAnswerIn, OwnLines, Told, Mute
  <2>2. Asked'
    BY <1>inv, <1>goto, <1>soc DEF HandlerGoto, Asked, Mute, TypeOK
  <2>3. NotYet'
    <3>1. \A d \in Clients : hpc'[d] \in Early => hpc[d] \in Early
      BY <1>inv, <1>goto DEF HandlerGoto, TypeOK
    <3> QED
      BY <1>early, <1>goto, <3>1
  <2> QED
    BY <2>1, <2>2, <2>3 DEF AnswerInv
<1>request. ASSUME NEW c \in Clients, NEW h \in Hosts \cup {NoHost}, ClientRequest(c, h)
            PROVE  AnswerInv'
  <2>1. /\ req[c] = NULL /\ NULL \notin Hosts /\ Blocked \subseteq Hosts
        /\ ~gone[Cli(c)] /\ ~fin[Cli(c)] /\ ~shut[Cli(c)]
    BY <1>request, HostsAssumption DEF ClientRequest
  <2>2. hpc[c] \notin {"socket", "connect", "reply", "deny"}
    BY <1>inv, <2>1 DEF Asked, Mute
  <2>3. ~Has(outq[Cli(c)], OK200) /\ ~Has(outq[Cli(c)], Forbidden)
    BY <1>inv, <2>1 DEF Told, Mute
  <2>4. /\ req' = [req EXCEPT ![c] = h]
        /\ inq' = [inq EXCEPT ![Cli(c)] = <<RequestLine, HostLine(h)>>]
        /\ UNCHANGED <<hbuf, rbuf, hpc, host, peer, gone, fin, shut, outq>>
    BY <1>request DEF ClientRequest
  <2>5. \A a : Has(inq'[Cli(c)], a) => a = RequestLine \/ a = HostLine(h)
    BY <1>inv, <1>soc, <2>4, HasFew DEF TypeOK
  <2>6. \A s \in Socks : s # Cli(c) => inq'[s] = inq[s]
    BY <1>inv, <2>4 DEF TypeOK
  <2>7. NoneUnderWay'
    <3>1. NoAnswerIn(inq'[Cli(c)])
      BY <2>5, TokensDiffer DEF NoAnswerIn
    <3> QED
      BY <1>inv, <2>4, <2>6, <3>1 DEF NoneUnderWay, NoAnswerIn
  <2>8. OwnLines'
    <3> SUFFICES ASSUME NEW d \in Clients, NEW g \in Hosts, Has(inq'[Cli(d)], HostLine(g))
                 PROVE  g = req'[d]
      BY DEF OwnLines
    <3>1. CASE d = c
      BY <1>inv, <2>4, <2>5, <3>1, TokensDiffer DEF TypeOK
    <3>2. CASE d # c
      BY <1>inv, <1>soc, <2>4, <2>6, <3>2, SocketsDistinct DEF OwnLines, TypeOK
    <3> QED
      BY <3>1, <3>2
  <2>9. Asked' /\ Told'
    BY <1>inv, <2>2, <2>3, <2>4 DEF Asked, Mute, Told, TypeOK
  <2>10. NotYet'
    BY <1>early, <2>4
  <2> QED
    BY <2>7, <2>8, <2>9, <2>10 DEF AnswerInv
<1>psend. ASSUME NEW s \in Socks, PeerSend(s) PROVE AnswerInv'
  <2> DEFINE x == Chunk(s, nsent[s] + 1)
  <2>1. /\ inq' = [inq EXCEPT ![s] = Append(@, x)]
        /\ UNCHANGED <<hbuf, rbuf, req, hpc, host, peer, gone, fin, shut, outq>>
    BY <1>psend DEF PeerSend
  <2>2. x \in Tokens
    <3>1. nsent[s] + 1 \in 1..MaxChunks
      BY <1>inv, <1>psend, BoundsAssumption DEF PeerSend, TypeOK
    <3> QED
      BY <3>1, TokenTypes
  <2>3. x \notin {OK200, Forbidden} /\ \A h : HostLine(h) # x
    BY TokensDiffer
  <2> HIDE DEF x
  <2>4. \A t \in Socks : \A a : Has(inq'[t], a) => Has(inq[t], a) \/ a = x
    <3>1. \A t \in Socks : inq[t] \in Seq(Tokens) /\ inq'[t] = IF t = s THEN Append(inq[t], x) ELSE inq[t]
      BY <1>inv, <2>1 DEF TypeOK
    <3> QED
      BY <2>2, <3>1, HasAppended
  <2>5. NoneUnderWay' /\ OwnLines'
    BY <1>inv, <1>soc, <2>1, <2>3, <2>4 DEF NoneUnderWay, NoAnswerIn, OwnLines
  <2>6. Asked' /\ Told'
    BY <1>inv, <2>1 DEF Asked, Mute, Told
  <2>7. NotYet'
    BY <1>early, <2>1
  <2> QED
    BY <2>5, <2>6, <2>7 DEF AnswerInv
<1>pclose. ASSUME NEW s \in Socks, PeerClose(s) PROVE AnswerInv'
  <2>1. /\ \A t \in Socks : gone[t] => gone'[t]
        /\ UNCHANGED <<inq, hbuf, rbuf, req, hpc, host, peer, fin, shut, outq>>
    BY <1>inv, <1>pclose DEF PeerClose, TypeOK
  <2>2. NoneUnderWay' /\ OwnLines' /\ Told'
    BY <1>inv, <2>1 DEF NoneUnderWay, NoAnswerIn, OwnLines, Told, Mute
  <2>3. Asked'
    BY <1>inv, <1>soc, <2>1 DEF Asked, Mute
  <2>4. NotYet'
    BY <1>early, <2>1
  <2> QED
    BY <2>2, <2>3, <2>4 DEF AnswerInv
<1>pfin. ASSUME NEW s \in Socks, PeerFin(s) PROVE AnswerInv'
  <2>1. /\ \A t \in Socks : fin[t] => fin'[t]
        /\ UNCHANGED <<inq, hbuf, rbuf, req, hpc, host, peer, gone, shut, outq>>
    BY <1>inv, <1>pfin DEF PeerFin, TypeOK
  <2>2. NoneUnderWay' /\ OwnLines' /\ Told'
    BY <1>inv, <1>soc, <2>1 DEF NoneUnderWay, NoAnswerIn, OwnLines, Told, Mute
  <2>3. Asked'
    BY <1>inv, <1>soc, <2>1 DEF Asked, Mute
  <2>4. NotYet'
    BY <1>early, <2>1
  <2> QED
    BY <2>2, <2>3, <2>4 DEF AnswerInv
\* What the handler holds when it is past its request.
<1>own. ASSUME NEW c \in Clients, hpc[c] \in HoldsClient
        PROVE  cfd[c] \in Fds /\ fdtab[cfd[c]] = Cli(c)
  BY <1>inv, <1>own DEF HandlerOwns, DescriptorsSet, HoldsClient
<1>rends. ASSUME NEW c \in Clients, RequestEnds(c) PROVE AnswerInv'
  <2>1. gone[Cli(c)] \/ shut[Cli(c)] \/ fin[Cli(c)]
    <3>1. fdtab[cfd[c]] = Cli(c) /\ ReadEnds(cfd[c])
      BY <1>rends, <1>own DEF RequestEnds, HoldsClient
    <3> QED
      BY <3>1, SocketsDistinct DEF ReadEnds
  <2>2. HandlerGoto(c, "deny") /\ UNCHANGED <<inq, hbuf, rbuf, req, host, peer, gone, fin, shut, outq>>
    BY <1>rends DEF RequestEnds
  <2>3. NoneUnderWay' /\ OwnLines' /\ Told'
    BY <1>inv, <2>2 DEF NoneUnderWay, NoAnswerIn, OwnLines, Told, Mute
  <2>4. Asked'
    <3>1. Mute(c) \/ gone[Cli(c)] \/ shut[Cli(c)]
      BY <1>inv, <1>rends, <2>1 DEF RequestEnds, NotYet, Early, Mute
    <3> QED
      BY <1>inv, <2>2, <3>1 DEF HandlerGoto, Asked, Mute, TypeOK
  <2>5. NotYet'
    <3>1. \A d \in Clients : hpc'[d] \in Early => hpc[d] \in Early
      BY <1>inv, <2>2 DEF HandlerGoto, Early, TypeOK
    <3> QED
      BY <1>early, <2>2, <3>1
  <2> QED
    BY <2>3, <2>4, <2>5 DEF AnswerInv
\* What a read does to the queues and buffers.
<1>read. ASSUME NEW f \in Fds, NEW k, ReadGets(f, k), inq' = Left(f, k), UNCHANGED req,
                \A c \in Clients : hbuf'[c] \in {hbuf[c], Got(f, k)} /\ rbuf'[c] \in {rbuf[c], Got(f, k)}
         PROVE  NoneUnderWay' /\ OwnLines'
  <2>1. \A a : /\ fdtab[f] \in Socks
               /\ Has(Got(f, k), a) => Has(inq[fdtab[f]], a)
               /\ \A s \in Socks : Has(Left(f, k)[s], a) => Has(inq[s], a)
    BY <1>inv, <1>read, ReadHas
  <2>2. NoAnswerIn(Got(f, k)) /\ \A s \in Socks : NoAnswerIn(inq'[s])
    BY <1>inv, <1>read, <2>1 DEF NoneUnderWay, NoAnswerIn
  <2>3. NoneUnderWay'
    BY <1>inv, <1>read, <2>2 DEF NoneUnderWay
  <2>4. OwnLines'
    BY <1>inv, <1>read, <1>soc, <2>1 DEF OwnLines
  <2> QED
    BY <2>3, <2>4
<1>rreq. ASSUME NEW c \in Clients, NEW k, ReadRequest(c, k) PROVE AnswerInv'
  <2>1. cfd[c] \in Fds /\ fdtab[cfd[c]] = Cli(c) /\ ReadGets(cfd[c], k)
    BY <1>rreq, <1>own DEF ReadRequest, HoldsClient
  <2>2. PICK h \in ParsedHosts(Got(cfd[c], k)) :
          /\ host' = [host EXCEPT ![c] = h]
          /\ HandlerGoto(c, IF h \in Blocked THEN "deny" ELSE "socket")
    BY <1>rreq DEF ReadRequest
  <2>3. h \in Hosts /\ Has(Got(cfd[c], k), HostLine(h))
    BY <2>2 DEF ParsedHosts, Has
  <2>4. h = req[c]
    <3>1. Has(inq[Cli(c)], HostLine(h))
      BY <1>inv, <2>1, <2>3, ReadHas
    <3> QED
      BY <1>inv, <2>3, <3>1 DEF OwnLines
  <2>5. inq' = Left(cfd[c], k) /\ UNCHANGED <<hbuf, rbuf, req, peer, gone, fin, shut, outq>>
    BY <1>rreq DEF ReadRequest
  <2>6. NoneUnderWay' /\ OwnLines'
    BY <1>read, <2>1, <2>5
  <2>7. Asked'
    BY <1>inv, <2>2, <2>3, <2>4, <2>5 DEF HandlerGoto, Asked, Mute, TypeOK
  <2>8. Told'
    <3>1. ~Has(outq[Cli(c)], Forbidden)
      BY <1>inv, <1>rreq DEF ReadRequest, NotYet, Early
    <3>2. \A d \in Clients : d # c => host'[d] = host[d]
      BY <1>inv, <2>2 DEF TypeOK
    <3> QED
      BY <1>inv, <2>5, <3>1, <3>2 DEF Told, Mute
  <2>9. NotYet'
    <3>1. \A d \in Clients : hpc'[d] \in Early => hpc[d] \in Early /\ host'[d] = host[d]
      BY <1>inv, <2>2 DEF HandlerGoto, Early, TypeOK
    <3> QED
      BY <1>early, <2>5, <3>1
  <2> QED
    BY <2>6, <2>7, <2>8, <2>9 DEF AnswerInv
<1>deny. ASSUME NEW c \in Clients, DenyReply(c) PROVE AnswerInv'
  <2>1. cfd[c] \in Fds /\ fdtab[cfd[c]] = Cli(c) /\ hpc[c] = "deny"
    BY <1>deny, <1>own DEF DenyReply, HoldsClient
  <2>2. /\ outq' = Written(cfd[c], <<Forbidden>>) /\ HandlerGoto(c, "denyshut")
        /\ UNCHANGED <<inq, hbuf, rbuf, req, host, peer, gone, fin, shut>>
    BY <1>deny DEF DenyReply
  <2>3. Writable(cfd[c]) => req[c] \in Blocked \/ Mute(c)
    BY <1>inv, <2>1 DEF Writable, Asked, Mute
  <2>4. \A s \in Socks : \A a : Has(outq'[s], a) =>
          Has(outq[s], a) \/ (a = Forbidden /\ Writable(cfd[c]) /\ s = Cli(c))
    <3>1. <<Forbidden>> \in Seq(Tokens)
      BY TokenTypes
    <3>2. ASSUME NEW s \in Socks, NEW a, Has(outq'[s], a)
          PROVE  Has(outq[s], a) \/ (Has(<<Forbidden>>, a) /\ Writable(cfd[c]) /\ s = fdtab[cfd[c]])
      <4> DEFINE buf == <<Forbidden>>
                 f   == cfd[c]
      <4>1. TypeOK /\ f \in Fds /\ buf \in Seq(Tokens) /\ Has(Written(f, buf)[s], a)
        BY <1>inv, <2>1, <2>2, <3>1, <3>2
      <4> HIDE DEF buf, f
      <4>2. Has(outq[s], a) \/ (Has(buf, a) /\ Writable(f) /\ s = fdtab[f])
        BY <4>1, WrittenHas
      <4> QED
        BY <4>2 DEF buf, f
    <3>3. \A a : Has(<<Forbidden>>, a) => a = Forbidden
      BY HasFew
    <3> QED
      BY <2>1, <3>2, <3>3
  <2>5. Told'
    BY <1>inv, <1>soc, <2>2, <2>3, <2>4, TokensDiffer, SocketsDistinct DEF Told, Mute
  <2>6. NoneUnderWay' /\ OwnLines'
    BY <1>inv, <2>2 DEF NoneUnderWay, NoAnswerIn, OwnLines
  <2>7. Asked'
    BY <1>inv, <2>2 DEF HandlerGoto, Asked, Mute, TypeOK
  <2>8. NotYet'
    <3>1. /\ hpc'[c] \notin Early
          /\ \A d \in Clients : hpc'[d] \in Early => hpc[d] \in Early
      BY <1>inv, <2>2 DEF HandlerGoto, Early, TypeOK
    <3>2. \A d \in Clients : Has(outq'[Cli(d)], Forbidden) => Has(outq[Cli(d)], Forbidden) \/ d = c
      BY <1>soc, <2>4, TokensDiffer, SocketsDistinct
    <3> QED
      BY <1>early, <2>2, <3>1, <3>2
  <2> QED
    BY <2>5, <2>6, <2>7, <2>8 DEF AnswerInv
<1>open. ASSUME NEW c \in Clients, NEW f \in Fds, OpenSocket(c, f) PROVE AnswerInv'
  <2>1. /\ hpc[c] = "socket" /\ HandlerGoto(c, "connect")
        /\ UNCHANGED <<inq, hbuf, rbuf, req, host, peer, gone, fin, shut, outq>>
    BY <1>open DEF OpenSocket
  <2>2. NoneUnderWay' /\ OwnLines' /\ Told'
    BY <1>inv, <2>1 DEF NoneUnderWay, NoAnswerIn, OwnLines, Told, Mute
  <2>3. Asked'
    BY <1>inv, <2>1 DEF HandlerGoto, Asked, Mute, TypeOK
  <2>4. NotYet'
    <3>1. \A d \in Clients : hpc'[d] \in Early => hpc[d] \in Early
      BY <1>inv, <2>1 DEF HandlerGoto, Early, TypeOK
    <3> QED
      BY <1>early, <2>1, <3>1
  <2> QED
    BY <2>2, <2>3, <2>4 DEF AnswerInv
<1>conn. ASSUME NEW c \in Clients, Connect(c) PROVE AnswerInv'
  <2>1. /\ hpc[c] = "connect" /\ HandlerGoto(c, "reply") /\ peer' = [peer EXCEPT ![c] = host[c]]
        /\ UNCHANGED <<inq, hbuf, rbuf, req, host, gone, fin, shut, outq>>
    BY <1>conn DEF Connect
  <2>2. NoneUnderWay' /\ OwnLines'
    BY <1>inv, <2>1 DEF NoneUnderWay, NoAnswerIn, OwnLines
  <2>3. Asked' /\ Told'
    BY <1>inv, <2>1 DEF HandlerGoto, Asked, Mute, Told, TypeOK
  <2>4. NotYet'
    <3>1. \A d \in Clients : hpc'[d] \in Early => hpc[d] \in Early
      BY <1>inv, <2>1 DEF HandlerGoto, Early, TypeOK
    <3> QED
      BY <1>early, <2>1, <3>1
  <2> QED
    BY <2>2, <2>3, <2>4 DEF AnswerInv
<1>reply. ASSUME NEW c \in Clients, Reply(c) PROVE AnswerInv'
  <2>1. cfd[c] \in Fds /\ fdtab[cfd[c]] = Cli(c) /\ hpc[c] = "reply"
    BY <1>reply, <1>own DEF Reply, HoldsClient
  <2>2. /\ outq' = Written(cfd[c], <<OK200>>) /\ HandlerGoto(c, "read")
        /\ UNCHANGED <<inq, hbuf, rbuf, req, host, peer, gone, fin, shut>>
    BY <1>reply DEF Reply
  <2>3. req[c] \in Hosts \ Blocked /\ peer[c] = req[c]
    BY <1>inv, <2>1 DEF Asked, Mute
  <2>4. \A s \in Socks : \A a : Has(outq'[s], a) => Has(outq[s], a) \/ (a = OK200 /\ s = Cli(c))
    <3>1. <<OK200>> \in Seq(Tokens)
      BY TokenTypes
    <3>2. ASSUME NEW s \in Socks, NEW a, Has(outq'[s], a)
          PROVE  Has(outq[s], a) \/ (Has(<<OK200>>, a) /\ Writable(cfd[c]) /\ s = fdtab[cfd[c]])
      <4> DEFINE buf == <<OK200>>
                 f   == cfd[c]
      <4>1. TypeOK /\ f \in Fds /\ buf \in Seq(Tokens) /\ Has(Written(f, buf)[s], a)
        BY <1>inv, <2>1, <2>2, <3>1, <3>2
      <4> HIDE DEF buf, f
      <4>2. Has(outq[s], a) \/ (Has(buf, a) /\ Writable(f) /\ s = fdtab[f])
        BY <4>1, WrittenHas
      <4> QED
        BY <4>2 DEF buf, f
    <3>3. \A a : Has(<<OK200>>, a) => a = OK200
      BY HasFew
    <3> QED
      BY <2>1, <3>2, <3>3
  <2>5. Told'
    BY <1>inv, <1>soc, <2>2, <2>3, <2>4, TokensDiffer, SocketsDistinct DEF Told, Mute
  <2>6. NoneUnderWay' /\ OwnLines'
    BY <1>inv, <2>2 DEF NoneUnderWay, NoAnswerIn, OwnLines
  <2>7. Asked'
    BY <1>inv, <2>2 DEF HandlerGoto, Asked, Mute, TypeOK
  <2>8. NotYet'
    <3>1. /\ hpc'[c] \notin Early
          /\ \A d \in Clients : hpc'[d] \in Early => hpc[d] \in Early
      BY <1>inv, <2>2 DEF HandlerGoto, Early, TypeOK
    <3>2. \A d \in Clients : Has(outq'[Cli(d)], Forbidden) => Has(outq[Cli(d)], Forbidden) \/ d = c
      BY <1>soc, <2>4, TokensDiffer, SocketsDistinct
    <3> QED
      BY <1>early, <2>2, <3>1, <3>2
  <2> QED
    BY <2>5, <2>6, <2>7, <2>8 DEF AnswerInv
<1>rcli. ASSUME NEW c \in Clients, NEW k, ReadClient(c, k) PROVE AnswerInv'
  <2>1. cfd[c] \in Fds /\ ReadGets(cfd[c], k)
    BY <1>rcli, <1>own DEF ReadClient, HoldsClient
  <2>2. /\ hbuf' = [hbuf EXCEPT ![c] = Got(cfd[c], k)] /\ inq' = Left(cfd[c], k)
        /\ HandlerGoto(c, "write") /\ UNCHANGED <<rbuf, req, host, peer, gone, fin, shut, outq>>
    BY <1>rcli DEF ReadClient
  <2>3. NoneUnderWay' /\ OwnLines'
    <3>1. \A d \in Clients : hbuf'[d] \in {hbuf[d], Got(cfd[c], k)}
      BY <1>inv, <2>2 DEF TypeOK
    <3> QED
      BY <1>read, <2>1, <2>2, <3>1
  <2>4. Asked' /\ Told'
    BY <1>inv, <2>2 DEF HandlerGoto, Asked, Mute, Told, TypeOK
  <2>5. NotYet'
    <3>1. \A d \in Clients : hpc'[d] \in Early => hpc[d] \in Early
      BY <1>inv, <2>2 DEF HandlerGoto, Early, TypeOK
    <3> QED
      BY <1>early, <2>2, <3>1
  <2> QED
    BY <2>3, <2>4, <2>5 DEF AnswerInv
\* What a write of relayed data does.
<1>write. ASSUME NEW f \in Fds, NEW buf \in Seq(Tokens), NoAnswerIn(buf), outq' = Written(f, buf),
                 UNCHANGED <<req, host, fin, peer>>
          PROVE  /\ Told'
                 /\ \A d \in Clients : Has(outq'[Cli(d)], Forbidden) => Has(outq[Cli(d)], Forbidden)
  <2>1. \A s \in Socks : \A a : Has(outq'[s], a) => Has(outq[s], a) \/ Has(buf, a)
    BY <1>inv, <1>write, WrittenHas
  <2> QED
    BY <1>inv, <1>soc, <1>write, <2>1 DEF Told, Mute, NoAnswerIn
<1>whost. ASSUME NEW c \in Clients, WriteHost(c) PROVE AnswerInv'
  <2>1. /\ hpc[c] = "write" /\ outq' = Written(dfd[c], hbuf[c]) /\ hbuf' = [hbuf EXCEPT ![c] = << >>]
        /\ HandlerGoto(c, "read") /\ UNCHANGED <<inq, rbuf, req, host, peer, gone, fin, shut>>
    BY <1>whost DEF WriteHost
  <2>2. dfd[c] \in Fds /\ hbuf[c] \in Seq(Tokens) /\ NoAnswerIn(hbuf[c])
    BY <1>inv, <2>1 DEF DescriptorsSet, TunnelPCs, TypeOK, NoneUnderWay
  <2>3. /\ Told'
        /\ \A d \in Clients : Has(outq'[Cli(d)], Forbidden) => Has(outq[Cli(d)], Forbidden)
    BY <1>write, <2>1, <2>2
  <2>4. NoneUnderWay' /\ OwnLines'
    BY <1>inv, <2>1, HasFew DEF NoneUnderWay, NoAnswerIn, OwnLines, TypeOK
  <2>5. Asked'
    BY <1>inv, <2>1 DEF HandlerGoto, Asked, Mute, TypeOK
  <2>6. NotYet'
    <3>1. \A d \in Clients : hpc'[d] \in Early => hpc[d] \in Early
      BY <1>inv, <2>1 DEF HandlerGoto, Early, TypeOK
    <3> QED
      BY <1>early, <2>1, <2>3, <3>1
  <2> QED
    BY <2>3, <2>4, <2>5, <2>6 DEF AnswerInv
<1>rhost. ASSUME NEW c \in Clients, NEW k, ReadHost(c, k) PROVE AnswerInv'
  <2>1. rdfd[c] \in Fds /\ ReadGets(rdfd[c], k)
    BY <1>inv, <1>rhost DEF ReadHost, DescriptorsSet
  <2>2. /\ rbuf' = [rbuf EXCEPT ![c] = Got(rdfd[c], k)] /\ inq' = Left(rdfd[c], k)
        /\ UNCHANGED <<hbuf, req, hpc, host, peer, gone, fin, shut, outq>>
    BY <1>rhost DEF ReadHost
  <2>3. NoneUnderWay' /\ OwnLines'
    <3>1. \A d \in Clients : rbuf'[d] \in {rbuf[d], Got(rdfd[c], k)}
      BY <1>inv, <2>2 DEF TypeOK
    <3> QED
      BY <1>read, <2>1, <2>2, <3>1
  <2>4. Asked' /\ Told'
    BY <1>inv, <2>2 DEF Asked, Mute, Told
  <2>5. NotYet'
    BY <1>early, <2>2
  <2> QED
    BY <2>3, <2>4, <2>5 DEF AnswerInv
<1>wcli. ASSUME NEW c \in Clients, WriteClient(c) PROVE AnswerInv'
  <2>1. /\ rpc[c] = "write" /\ outq' = Written(rcfd[c], rbuf[c]) /\ rbuf' = [rbuf EXCEPT ![c] = << >>]
        /\ UNCHANGED <<inq, hbuf, req, hpc, host, peer, gone, fin, shut>>
    BY <1>wcli DEF WriteClient
  <2>2. rcfd[c] \in Fds /\ rbuf[c] \in Seq(Tokens) /\ NoAnswerIn(rbuf[c])
    BY <1>inv, <2>1 DEF DescriptorsSet, TypeOK, NoneUnderWay
  <2>3. /\ Told'
        /\ \A d \in Clients : Has(outq'[Cli(d)], Forbidden) => Has(outq[Cli(d)], Forbidden)
    BY <1>write, <2>1, <2>2
  <2>4. NoneUnderWay' /\ OwnLines'
    BY <1>inv, <2>1, HasFew DEF NoneUnderWay, NoAnswerIn, OwnLines, TypeOK
  <2>5. Asked'
    BY <1>inv, <2>1 DEF Asked, Mute
  <2>6. NotYet'
    BY <1>early, <2>1, <2>3
  <2> QED
    BY <2>3, <2>4, <2>5, <2>6 DEF AnswerInv
<1>ends. ASSUME NEW c \in Clients, DenyEnd(c) \/ TunnelEnd(c) PROVE AnswerInv'
  <2>1. ASSUME NEW from, NEW f, NEW to, to \notin {"socket", "connect", "reply", "deny"} \cup Early,
               HandlerShutdown(c, from, f, to) \/ HandlerClose(c, from, f, to)
        PROVE  AnswerInv'
    <3>1. \A s \in Socks : shut[s] => shut'[s]
      BY <1>inv, <2>1 DEF HandlerShutdown, HandlerClose, Close, Shutdown, TypeOK
    <3> QED
      BY <1>goto, <2>1, <3>1 DEF HandlerShutdown, HandlerClose
  <2> QED
    BY <1>ends, <2>1 DEF DenyEnd, TunnelEnd, Early
<1>create. ASSUME CreateHandler PROVE AnswerInv'
  <2>1. cur \in Clients /\ HandlerGoto(cur, "start") /\ hpc[cur] \in Early
    BY <1>create DEF CreateHandler, HandlerGoto, TypeInv, Lifecycle, Early
  <2> QED
    BY <1>create, <1>goto, <2>1 DEF CreateHandler
<1>env. ASSUME NEW c \in Clients, Env(c) PROVE AnswerInv'
  BY <1>env, <1>same, <1>request, <1>psend, <1>pclose, <1>pfin, <1>soc
     DEF Env, ClientConnect, ClientSend, HostSend, ClientClose, HostClose, ClientFin, HostFin,
         answerVars
<1>main. ASSUME Main PROVE AnswerInv'
  BY <1>main, <1>same, <1>create DEF Main, Accept, AcceptFails, Crash, answerVars
<1>hand. ASSUME NEW c \in Clients, HandleConnection(c) PROVE AnswerInv'
  <2>1. CASE HandlerStart(c) \/ ClientEnds(c)
    BY <2>1, <1>goto DEF HandlerStart, ClientEnds, Early
  <2>2. CASE OpenSocketFails(c) \/ ConnectFails(c) \/ \E k \in ReadSizes : ParseFails(c, k)
    BY <2>2, <1>same DEF OpenSocketFails, ConnectFails, ParseFails, Crash, answerVars
  <2> QED
    BY <1>hand, <1>rends, <1>rreq, <1>deny, <1>open, <1>conn, <1>reply, <1>rcli, <1>whost,
       <1>ends, <2>1, <2>2
       DEF HandleConnection
<1>relay. ASSUME NEW c \in Clients, HostToCli(c) PROVE AnswerInv'
  BY <1>relay, <1>same, <1>rhost, <1>wcli
     DEF HostToCli, RelayStart, RelayStartStale, RelayStartFaults, HostEnds, Crash, answerVars
<1>stay. CASE UNCHANGED vars
  BY <1>stay, <1>same DEF vars, answerVars
<1> QED
  BY <1>env, <1>main, <1>hand, <1>relay, <1>stay DEF Next, Finished

\* When connections do not overlap between connect() and the handler's copy of
\* client_fd, a client is told 200 only when its tunnel leads to the allowed host
\* it asked for, and 403 only when it asked for a blocked one or shut down its
\* sending side without a request, although relays may still write to numbers
\* that have changed hands.
THEOREM AnswersTrue == Arrivals # "any" => (Spec => []ReplyMatchesRequest)
<1> SUFFICES ASSUME Arrivals # "any" PROVE Spec => []ReplyMatchesRequest
  OBVIOUS
<1>1. Init => TypeInv /\ OwnInv /\ AnswerInv
  BY InitTypeInv, InitOwnInv, InitAnswerInv
<1>2. TypeInv /\ OwnInv /\ AnswerInv /\ [Next]_vars => TypeInv' /\ OwnInv' /\ AnswerInv'
  BY NextTypeInv, NextOwnInv, NextAnswerInv
<1>3. AnswerInv => ReplyMatchesRequest
  BY DEF AnswerInv, Told, Mute, Has, ReplyMatchesRequest
<1> QED
  BY <1>1, <1>2, <1>3, PTL DEF Spec

-----------------------------------------------------------------------------
(* One connection at a time                                                *)

Busy(c) == cst[c] # "idle" /\ ~ThreadsOver(c)

\* One connection at a time has threads, so nobody inherits a stack, and what
\* a relay holds are its own handler's numbers, closed or not.
Alone ==
  /\ \A c, d \in Clients : Busy(c) /\ Busy(d) => c = d
  /\ \A c \in Clients :
       /\ heirs[c] = {}
       /\ rpc[c] \in {"start", "read", "write"} =>
            fdtab[cfd[c]] \in {Cli(c), NULL} /\ fdtab[dfd[c]] \in {Dst(c), NULL}
       /\ rpc[c] \in {"read", "write"} => rcfd[c] = cfd[c] /\ rdfd[c] = dfd[c]

\* What Alone depends on.
aloneVars == <<cst, hpc, rpc, heirs, fdtab, cfd, dfd, rcfd, rdfd>>

\* Nobody is connected at the start.
LEMMA InitAlone == Init => Alone
BY DEF Init, Alone, Busy

\* With serial arrivals every step keeps connections apart.
LEMMA NextAlone ==
  ASSUME Arrivals = "serial", TypeInv, OwnInv, Alone, [Next]_vars
  PROVE  Alone'
<1> USE DEF mainVars, handVars, relayVars, sockVars, envVars
<1>inv. TypeOK /\ Lifecycle /\ DescriptorsSet /\ HandlerOwns
  BY DEF TypeInv, OwnInv
<1>one. \A c, d \in Clients : Busy(c) /\ Busy(d) => c = d
  BY DEF Alone
<1>own. \A c \in Clients :
          /\ heirs[c] = {}
          /\ rpc[c] \in {"start", "read", "write"} =>
               fdtab[cfd[c]] \in {Cli(c), NULL} /\ fdtab[dfd[c]] \in {Dst(c), NULL}
          /\ rpc[c] \in {"read", "write"} => rcfd[c] = cfd[c] /\ rdfd[c] = dfd[c]
  BY DEF Alone
\* A thread that has not finished belongs to the busy connection.
<1>busy. ASSUME NEW c \in Clients, hpc[c] \notin {"none", "done"} \/ rpc[c] \notin {"none", "done"}
         PROVE  Busy(c)
  BY <1>inv, <1>busy DEF Busy, ThreadsOver, Lifecycle, TunnelPCs
<1>same. ASSUME UNCHANGED aloneVars PROVE Alone'
  BY <1>one, <1>own, <1>same DEF aloneVars, Alone, Busy, ThreadsOver
\* The handler goes on, with its descriptors as they are or closed.
<1>goto. ASSUME NEW c \in Clients, NEW pc, hpc[c] \notin {"none", "done"}, HandlerGoto(c, pc),
                UNCHANGED <<cst, rpc, heirs, cfd, dfd, rcfd, rdfd>>,
                \A f \in Fds : fdtab'[f] \in {fdtab[f], NULL}
         PROVE  Alone'
  <2>1. \A d \in Clients : Busy(d)' => Busy(d)
    BY <1>inv, <1>goto, <1>busy DEF Busy, ThreadsOver, HandlerGoto, TypeOK
  <2>2. \A d \in Clients : rpc[d] \in {"start", "read", "write"} => cfd[d] \in Fds /\ dfd[d] \in Fds
    BY <1>inv DEF Lifecycle, DescriptorsSet, TunnelPCs
  <2>3. \A d \in Clients : rpc[d] \in {"start", "read", "write"} =>
          fdtab'[cfd[d]] \in {Cli(d), NULL} /\ fdtab'[dfd[d]] \in {Dst(d), NULL}
    BY <1>own, <1>goto, <2>2
  <2> QED
    BY <1>one, <1>own, <1>goto, <2>1, <2>3 DEF Alone
\* The relay goes on.
<1>relay. ASSUME NEW c \in Clients, NEW pc \in {"read", "write", "done"},
                 rpc[c] \in {"read", "write"}, rpc' = [rpc EXCEPT ![c] = pc],
                 UNCHANGED <<cst, hpc, heirs, fdtab, cfd, dfd, rcfd, rdfd>>
          PROVE  Alone'
  <2>1. \A d \in Clients : Busy(d)' => Busy(d)
    BY <1>inv, <1>relay DEF Busy, ThreadsOver, TypeOK
  <2> QED
    BY <1>inv, <1>one, <1>own, <1>relay, <2>1 DEF Alone, TypeOK
<1>connect. ASSUME NEW c \in Clients, ClientConnect(c) PROVE Alone'
  <2>1. \A d \in Clients : ~Busy(d)
    BY <1>connect, ArrivalsAssumption DEF ClientConnect, MayConnect, Busy
  <2>2. \A d \in Clients : Busy(d)' => d = c
    BY <1>inv, <1>connect, <2>1 DEF ClientConnect, Busy, ThreadsOver, TypeOK
  <2> QED
    BY <1>own, <1>connect, <2>2 DEF ClientConnect, Alone
<1>accept. ASSUME NEW c \in Clients, NEW f \in Fds, Accept(c, f) PROVE Alone'
  <2>1. Busy(c) /\ hpc[c] = "none" /\ rpc[c] = "none"
    BY <1>inv, <1>accept DEF Accept, Busy, ThreadsOver, Lifecycle, TunnelPCs
  <2>2. \A d \in Clients : Busy(d)' => Busy(d)
    BY <1>inv, <1>accept, <2>1 DEF Accept, Busy, ThreadsOver, TypeOK
  <2>3. \A d \in Clients : rpc[d] \notin {"start", "read", "write"}
    BY <1>one, <1>busy, <2>1
  <2> QED
    BY <1>one, <1>own, <1>accept, <2>2, <2>3 DEF Accept, Alone
<1>create. ASSUME CreateHandler PROVE Alone'
  <2>1. cur \in Clients /\ cst[cur] = "accepted" /\ hpc[cur] = "none" /\ rpc[cur] = "none"
    BY <1>inv, <1>create DEF CreateHandler, Lifecycle, TunnelPCs
  <2>2. Busy(cur)
    BY <2>1 DEF Busy, ThreadsOver
  <2>3. Orphaned = {}
    BY <1>one, <1>busy, <2>1, <2>2 DEF Orphaned
  <2>4. heirs' = [c \in Clients |-> heirs[c]]
    BY <1>create, <2>3 DEF CreateHandler
  <2>5. \A d \in Clients : Busy(d)' => Busy(d)
    BY <1>inv, <1>create, <2>1, <2>2 DEF CreateHandler, Busy, ThreadsOver, TypeOK
  <2> QED
    BY <1>one, <1>own, <1>create, <2>4, <2>5 DEF CreateHandler, Alone
<1>start. ASSUME NEW c \in Clients, HandlerStart(c) PROVE Alone'
  <2>1. rpc[c] = "none"
    BY <1>inv, <1>start DEF HandlerStart, Lifecycle, TunnelPCs
  <2>2. \A d \in Clients : Busy(d)' => Busy(d)
    BY <1>inv, <1>start, <1>busy DEF HandlerStart, HandlerGoto, Busy, ThreadsOver, TypeOK
  <2> QED
    BY <1>inv, <1>one, <1>own, <1>start, <2>1, <2>2 DEF HandlerStart, Alone, TypeOK
<1>open. ASSUME NEW c \in Clients, NEW f \in Fds, OpenSocket(c, f) PROVE Alone'
  <2>1. Busy(c) /\ rpc[c] = "none"
    BY <1>inv, <1>open, <1>busy DEF OpenSocket, Lifecycle, TunnelPCs
  <2>2. \A d \in Clients : Busy(d)' => Busy(d)
    BY <1>inv, <1>open, <2>1 DEF OpenSocket, HandlerGoto, Busy, ThreadsOver, TypeOK
  <2>3. \A d \in Clients : rpc[d] \notin {"start", "read", "write"}
    BY <1>one, <1>busy, <2>1
  <2> QED
    BY <1>one, <1>own, <1>open, <2>2, <2>3 DEF OpenSocket, Alone
<1>reply. ASSUME NEW c \in Clients, Reply(c) PROVE Alone'
  <2>1. fdtab[cfd[c]] = Cli(c) /\ fdtab[dfd[c]] = Dst(c)
    BY <1>inv, <1>reply DEF Reply, HandlerOwns, HoldsClient, HoldsDst
  <2>2. \A d \in Clients : Busy(d)' => Busy(d)
    BY <1>inv, <1>reply, <1>busy DEF Reply, HandlerGoto, Busy, ThreadsOver, TypeOK
  <2> QED
    BY <1>inv, <1>one, <1>own, <1>reply, <2>1, <2>2 DEF Reply, Alone, TypeOK
<1>lstart. ASSUME NEW c \in Clients, RelayStart(c) PROVE Alone'
  <2>1. \A d \in Clients : Busy(d)' => Busy(d)
    BY <1>inv, <1>lstart DEF RelayStart, Busy, ThreadsOver, TypeOK
  <2> QED
    BY <1>inv, <1>one, <1>own, <1>lstart, <2>1 DEF RelayStart, Alone, TypeOK
<1>ends. ASSUME NEW c \in Clients, DenyEnd(c) \/ TunnelEnd(c) PROVE Alone'
  <2>1. ASSUME NEW from, NEW f \in Fds, NEW to, from \notin {"none", "done"},
               HandlerShutdown(c, from, f, to) \/ HandlerClose(c, from, f, to)
        PROVE  Alone'
    <3>1. \A g \in Fds : fdtab'[g] \in {fdtab[g], NULL}
      BY <1>inv, <2>1 DEF HandlerShutdown, HandlerClose, Close, TypeOK
    <3> QED
      BY <1>goto, <2>1, <3>1 DEF HandlerShutdown, HandlerClose
  <2>2. cfd[c] \in Fds
    BY <1>inv, <1>ends DEF DenyEnd, TunnelEnd, HandlerShutdown, HandlerClose, DescriptorsSet
  <2>3. CASE DenyEnd(c)
    BY <2>1, <2>2, <2>3 DEF DenyEnd
  <2>4. CASE TunnelEnd(c)
    <3>1. dfd[c] \in Fds
      BY <1>inv, <2>4 DEF TunnelEnd, HandlerShutdown, HandlerClose, DescriptorsSet, TunnelPCs
    <3> QED
      BY <2>1, <2>2, <2>4, <3>1 DEF TunnelEnd
  <2> QED
    BY <1>ends, <2>3, <2>4
<1>env. ASSUME NEW c \in Clients, Env(c) PROVE Alone'
  BY <1>env, <1>same, <1>connect
     DEF Env, ClientRequest, ClientSend, HostSend, PeerSend, ClientClose, HostClose, PeerClose, ClientFin, HostFin, PeerFin,
         aloneVars
<1>main. ASSUME Main PROVE Alone'
  BY <1>main, <1>same, <1>accept, <1>create DEF Main, AcceptFails, Crash, aloneVars
<1>hand. ASSUME NEW c \in Clients, HandleConnection(c) PROVE Alone'
  <2>1. CASE RequestEnds(c) \/ DenyReply(c) \/ Connect(c) \/ ClientEnds(c) \/ WriteHost(c)
             \/ \E k \in ReadSizes : ReadRequest(c, k) \/ ReadClient(c, k)
    BY <2>1, <1>goto
       DEF RequestEnds, DenyReply, Connect, ClientEnds, WriteHost, ReadRequest, ReadClient
  <2>2. CASE OpenSocketFails(c) \/ ConnectFails(c) \/ \E k \in ReadSizes : ParseFails(c, k)
    BY <2>2, <1>same DEF OpenSocketFails, ConnectFails, ParseFails, Crash, aloneVars
  <2> QED
    BY <1>hand, <1>start, <1>open, <1>reply, <1>ends, <2>1, <2>2 DEF HandleConnection
<1>rel. ASSUME NEW c \in Clients, HostToCli(c) PROVE Alone'
  <2>1. CASE HostEnds(c) \/ WriteClient(c) \/ \E k \in ReadSizes : ReadHost(c, k)
    BY <2>1, <1>relay DEF HostEnds, WriteClient, ReadHost
  <2>2. CASE \E d \in Clients : RelayStartStale(c, d)
    BY <2>2, <1>own DEF RelayStartStale
  <2> QED
    BY <1>rel, <1>same, <1>lstart, <2>1, <2>2 DEF HostToCli, RelayStartFaults, Crash, aloneVars
<1>stay. CASE UNCHANGED vars
  BY <1>stay, <1>same DEF vars, aloneVars
<1> QED
  BY <1>env, <1>main, <1>hand, <1>rel, <1>stay DEF Next, Finished

-----------------------------------------------------------------------------
(* The invariant behind the streams                                        *)

\* q is all that has been sent on s, in order.
Complete(q, s, n) == Len(q) = n /\ IsStreamOf(q, s)

\* What has been delivered, what the thread holds and what it has yet to read
\* are, in this order, all that has been sent on s.
Carried(out, buf, in, s, n) == Complete(out \o buf \o in, s, n)

\* The client's socket has been shut down when the handler is past it, the
\* host's is not while the tunnel is up.
ShutInTurn(c) ==
  /\ hpc[c] \in {"shutdst", "closedst", "done"} => shut[Cli(c)]
  /\ hpc[c] \notin {"denyshut", "denyclose", "shutdst", "closedst", "done"} => ~shut[Dst(c)]

\* Buffers are empty except between a read and the write that follows it.
BuffersEmpty(c) == /\ hpc[c] # "write" => hbuf[c] = << >>
                   /\ rpc[c] # "write" => rbuf[c] = << >>

\* Before the tunnel is up the client has sent its request at most, all of which
\* is read at once, and has been told nothing but 403.
BeforeTunnel(c) ==
  /\ hpc[c] \in {"none", "start", "request"} => inq[Cli(c)] \in {<< >>, <<RequestLine, HostLine(req[c])>>}
  /\ hpc[c] \in {"socket", "connect", "reply"} => rpc[c] = "none" /\ inq[Cli(c)] = << >>
  /\ hpc[c] \in {"read", "write"} => rpc[c] # "none"
  /\ rpc[c] # "none" => req[c] # NULL
  /\ rpc[c] = "none" =>
       /\ outq[Dst(c)] = << >> /\ nsent[Cli(c)] = 0
       /\ outq[Cli(c)] = << >> \/ (outq[Cli(c)] = <<Forbidden>> /\ hpc[c] \in {"denyshut", "denyclose", "done"})
       /\ Complete(inq[Dst(c)], Dst(c), nsent[Dst(c)])

\* From the client to its host, nothing is missing unless the host has left.
Up(c) ==
  /\ IsStreamOf(outq[Dst(c)], Cli(c))
  /\ hpc[c] \in {"read", "write"} /\ ~gone[Dst(c)] =>
       Carried(outq[Dst(c)], hbuf[c], inq[Cli(c)], Cli(c), nsent[Cli(c)])

\* From the host, behind the status line, nothing is missing unless the client
\* has left or its socket has been shut down.
Down(c) ==
  rpc[c] # "none" =>
    /\ outq[Cli(c)] # << >> => outq[Cli(c)][1] = OK200 /\ IsStreamOf(Tail(outq[Cli(c)]), Dst(c))
    /\ ~gone[Cli(c)] /\ ~shut[Cli(c)] =>
         /\ outq[Cli(c)] # << >>
         /\ Carried(Tail(outq[Cli(c)]), rbuf[c], inq[Dst(c)], Dst(c), nsent[Dst(c)])

Streams == \A c \in Clients :
             ShutInTurn(c) /\ BuffersEmpty(c) /\ BeforeTunnel(c) /\ Up(c) /\ Down(c)

\* Nothing has to be sent for nothing to be missing.
LEMMA CompleteEmpty == \A s : Complete(<< >>, s, 0)
BY DEF Complete, IsStreamOf

\* The beginning of a stream is one.
LEMMA StreamPrefix ==
  ASSUME NEW q \in Seq(Tokens), NEW b \in Seq(Tokens), NEW s, IsStreamOf(q \o b, s)
  PROVE  IsStreamOf(q, s)
<1>1. Len(q) \in Nat /\ Len(b) \in Nat /\ Len(q \o b) = Len(q) + Len(b)
  BY LenProperties, ConcatProperties
<1>2. \A i \in 1..Len(q) : i \in 1..Len(q \o b) /\ (q \o b)[i] = q[i]
  BY <1>1, ConcatProperties
<1> QED
  BY <1>2 DEF IsStreamOf

\* What a peer sends next continues the stream.
LEMMA CompleteSend ==
  ASSUME NEW q \in Seq(Tokens), NEW s, NEW n \in Nat, Chunk(s, n + 1) \in Tokens,
         Complete(q, s, n)
  PROVE  Complete(Append(q, Chunk(s, n + 1)), s, n + 1)
<1> DEFINE x == Chunk(s, n + 1)
<1>1. Len(q) = n /\ \A i \in 1..n : q[i] = Chunk(s, i)
  BY DEF Complete, IsStreamOf
<1>2. /\ Len(Append(q, x)) = n + 1 /\ Append(q, x)[n + 1] = x
      /\ \A i \in 1..n : Append(q, x)[i] = q[i]
  <2> HIDE DEF x
  <2>1. x \in Tokens
    BY DEF x
  <2> QED
    BY <1>1, <2>1, AppendProperties
<1>3. \A i \in 1..(n + 1) : i \in 1..n \/ i = n + 1
  OBVIOUS
<1> QED
  BY <1>1, <1>2, <1>3 DEF Complete, IsStreamOf

\* Joining token sequences is associative.
LEMMA TokensJoin ==
  \A a, b, c \in Seq(Tokens) : (a \o b) \o c = a \o (b \o c)
<1> SUFFICES ASSUME NEW a \in Seq(Tokens), NEW b \in Seq(Tokens), NEW c \in Seq(Tokens)
             PROVE  (a \o b) \o c = a \o (b \o c)
  OBVIOUS
<1> QED
  BY ConcatAssociative, SMTT(30)

\* A token added behind the second sequence is added behind both.
LEMMA JoinAppended ==
  ASSUME NEW q \in Seq(Tokens), NEW r \in Seq(Tokens), NEW x \in Tokens
  PROVE  Append(q \o r, x) = q \o Append(r, x)
<1> DEFINE t == <<x>>
<1>1. t \in Seq(Tokens) /\ q \o r \in Seq(Tokens)
  BY ConcatProperties
<1>2. Append(r, x) = r \o t /\ Append(q \o r, x) = (q \o r) \o t
  BY <1>1, AppendIsConcat
<1> HIDE DEF t
<1>3. (q \o r) \o t = q \o (r \o t)
  BY <1>1, TokensJoin, Zenon
<1> QED
  BY <1>2, <1>3, Zenon

\* At the start of a relay everything is still to be read.
LEMMA CarriedStart ==
  ASSUME NEW in \in Seq(Tokens), NEW s, NEW n, Complete(in, s, n)
  PROVE  Carried(<< >>, << >>, in, s, n)
<1>1. << >> \o << >> \o in = in
  BY ConcatEmptySeq, EmptySeq
<1> QED
  BY <1>1 DEF Carried

\* Sending adds at the end of what is to be read.
LEMMA CarriedSend ==
  ASSUME NEW out \in Seq(Tokens), NEW buf \in Seq(Tokens), NEW in \in Seq(Tokens), NEW s,
         NEW n \in Nat, Chunk(s, n + 1) \in Tokens, Carried(out, buf, in, s, n)
  PROVE  Carried(out, buf, Append(in, Chunk(s, n + 1)), s, n + 1)
<1> DEFINE x == Chunk(s, n + 1)
           q == out \o buf
<1>1. x \in Tokens /\ q \in Seq(Tokens) /\ q \o in \in Seq(Tokens)
  BY ConcatProperties
<1>2. Complete(Append(q \o in, x), s, n + 1)
  <2>1. Complete(q \o in, s, n)
    BY DEF Carried
  <2> HIDE DEF q
  <2> QED
    BY <1>1, <2>1, CompleteSend
<1>3. Append(q \o in, x) = q \o Append(in, x)
  <2> HIDE DEF q, x
  <2> QED
    BY <1>1, JoinAppended
<1> QED
  BY <1>2, <1>3 DEF Carried

\* A read into the empty buffer moves the first tokens from the queue to it.
LEMMA CarriedRead ==
  ASSUME NEW out \in Seq(Tokens), NEW in \in Seq(Tokens), NEW s, NEW n,
         NEW k \in 1..Len(in), Carried(out, << >>, in, s, n)
  PROVE  Carried(out, SubSeq(in, 1, k), SubSeq(in, k + 1, Len(in)), s, n)
<1> DEFINE a == SubSeq(in, 1, k)
           b == SubSeq(in, k + 1, Len(in))
<1>1. Len(in) \in Nat /\ k \in Nat /\ \A i \in 1..Len(in) : in[i] \in Tokens
  BY LenProperties, ElementOfSeq
<1>2. a \in Seq(Tokens) /\ b \in Seq(Tokens)
  BY <1>1, SubSeqProperties
<1>3. a \o b = in
  <2>1. SubSeq(in, 1, k) \o SubSeq(in, k + 1, Len(in)) = SubSeq(in, 1, Len(in))
    BY <1>1, ConcatAdjacentSubSeq
  <2> QED
    BY <2>1, SubSeqFull
<1>4. (out \o a) \o b = out \o (a \o b)
  <2> HIDE DEF a, b
  <2> QED
    BY <1>2, TokensJoin, Zenon
<1>5. out \o << >> = out
  BY ConcatEmptySeq
<1> QED
  BY <1>3, <1>4, <1>5 DEF Carried

\* A write delivers the buffer, and what has been delivered is a stream.
LEMMA CarriedWrite ==
  ASSUME NEW out \in Seq(Tokens), NEW buf \in Seq(Tokens), NEW in \in Seq(Tokens), NEW s,
         NEW n, Carried(out, buf, in, s, n)
  PROVE  Carried(out \o buf, << >>, in, s, n) /\ IsStreamOf(out \o buf, s)
<1> DEFINE q == out \o buf
<1>1. q \in Seq(Tokens) /\ IsStreamOf(q \o in, s)
  BY ConcatProperties DEF Carried, Complete
<1>2. q \o << >> = q /\ IsStreamOf(q, s)
  <2> HIDE DEF q
  <2> QED
    BY <1>1, ConcatEmptySeq, StreamPrefix
<1> QED
  BY <1>2 DEF Carried

\* What is written behind a first token stays behind it.
LEMMA TailJoined ==
  ASSUME NEW q \in Seq(Tokens), NEW b \in Seq(Tokens), q # << >>
  PROVE  /\ q \o b # << >> /\ (q \o b)[1] = q[1]
         /\ Tail(q \o b) = Tail(q) \o b /\ Tail(q) \in Seq(Tokens)
<1>1. Len(q) \in Nat \ {0} /\ Len(b) \in Nat /\ q \o b \in Seq(Tokens)
  BY LenProperties, ConcatProperties, EmptySeq
<1>2. Len(q \o b) = Len(q) + Len(b) /\ (q \o b)[1] = q[1]
  BY <1>1, ConcatProperties
<1>3. q \o b # << >>
  BY <1>1, <1>2
<1>4. /\ Tail(q) \in Seq(Tokens) /\ Len(Tail(q)) = Len(q) - 1
      /\ \A i \in 1..(Len(q) - 1) : Tail(q)[i] = q[i + 1]
  BY HeadTailProperties
<1>5. /\ Tail(q \o b) \in Seq(Tokens) /\ Len(Tail(q \o b)) = Len(q) + Len(b) - 1
      /\ \A i \in 1..(Len(q) + Len(b) - 1) : Tail(q \o b)[i] = (q \o b)[i + 1]
  BY <1>1, <1>2, <1>3, HeadTailProperties
<1>6. /\ Tail(q) \o b \in Seq(Tokens) /\ Len(Tail(q) \o b) = Len(q) - 1 + Len(b)
      /\ \A i \in 1..(Len(q) - 1 + Len(b)) :
           (Tail(q) \o b)[i] = IF i <= Len(q) - 1 THEN Tail(q)[i] ELSE b[i - (Len(q) - 1)]
  BY <1>1, <1>4, ConcatProperties
<1>7. \A i \in 1..(Len(q) + Len(b) - 1) : Tail(q \o b)[i] = (Tail(q) \o b)[i]
  <2> SUFFICES ASSUME NEW i \in 1..(Len(q) + Len(b) - 1) PROVE Tail(q \o b)[i] = (Tail(q) \o b)[i]
    OBVIOUS
  <2>1. (q \o b)[i + 1] = IF i + 1 <= Len(q) THEN q[i + 1] ELSE b[i + 1 - Len(q)]
    BY <1>1, ConcatProperties
  <2>2. CASE i <= Len(q) - 1
    BY <1>1, <1>4, <1>5, <1>6, <2>1, <2>2
  <2>3. CASE ~(i <= Len(q) - 1)
    BY <1>1, <1>5, <1>6, <2>1, <2>3
  <2> QED
    BY <2>2, <2>3
<1>8. Tail(q \o b) = Tail(q) \o b
  <2>1. Len(Tail(q \o b)) = Len(Tail(q) \o b)
    BY <1>1, <1>5, <1>6
  <2> QED
    BY <1>5, <1>6, <1>7, <2>1, SeqEqual
<1> QED
  BY <1>2, <1>3, <1>4, <1>8

\* Nothing has been sent at the start.
LEMMA InitStreams == Init => Streams
<1> SUFFICES ASSUME Init, NEW c \in Clients
             PROVE  ShutInTurn(c) /\ BuffersEmpty(c) /\ BeforeTunnel(c) /\ Up(c) /\ Down(c)
  BY DEF Streams
<1>1. Cli(c) \in Socks /\ Dst(c) \in Socks
  BY SocketTypes
<1>2. IsStreamOf(<< >>, Cli(c)) /\ Complete(<< >>, Dst(c), 0)
  BY CompleteEmpty DEF IsStreamOf
<1> QED
  BY <1>1, <1>2 DEF Init, ShutInTurn, BuffersEmpty, BeforeTunnel, Up, Down

\* What Streams depends on.
streamVars == <<hpc, rpc, req, hbuf, rbuf, inq, outq, nsent, shut, gone>>

\* Every step keeps the streams whole, when connections follow each other.
LEMMA NextStreams ==
  ASSUME TypeInv, OwnInv, AnswerInv, Alone, Streams, [Next]_vars
  PROVE  Streams'
<1> USE DEF mainVars, handVars, relayVars, sockVars, envVars
<1>inv. TypeOK /\ Lifecycle /\ DescriptorsSet /\ HandlerOwns /\ Asked
  BY DEF TypeInv, OwnInv, AnswerInv
<1>str. \A c \in Clients : ShutInTurn(c) /\ BuffersEmpty(c) /\ BeforeTunnel(c) /\ Up(c) /\ Down(c)
  BY DEF Streams
<1>soc. \A c \in Clients : Cli(c) \in Socks /\ Dst(c) \in Socks
  BY SocketTypes
<1>dom. /\ \A s \in Socks : inq[s] \in Seq(Tokens) /\ outq[s] \in Seq(Tokens) /\ nsent[s] \in Nat
        /\ \A c \in Clients : hbuf[c] \in Seq(Tokens) /\ rbuf[c] \in Seq(Tokens)
  BY <1>inv DEF TypeOK
<1> DEFINE Elsewhere(c) ==
      /\ \A d \in Clients : d # c => /\ hpc'[d] = hpc[d] /\ rpc'[d] = rpc[d] /\ req'[d] = req[d]
                                     /\ hbuf'[d] = hbuf[d] /\ rbuf'[d] = rbuf[d]
      /\ \A s \in Socks : s # Cli(c) /\ s # Dst(c) =>
           /\ inq'[s] = inq[s] /\ outq'[s] = outq[s] /\ nsent'[s] = nsent[s]
           /\ shut'[s] = shut[s] /\ gone'[s] = gone[s]
\* Sockets of different connections differ, and the two of one.
<1>apart. \A c, d \in Clients : d # c => /\ Cli(d) # Cli(c) /\ Cli(d) # Dst(c)
                                         /\ Dst(d) # Cli(c) /\ Dst(d) # Dst(c)
  BY SocketsDistinct
<1>pair. \A c \in Clients : Cli(c) # Dst(c)
  BY SocketsDistinct
\* A connection the step does not touch, and the one it is about.
<1>others. ASSUME NEW c \in Clients, Elsewhere(c),
                  ShutInTurn(c)', BuffersEmpty(c)', BeforeTunnel(c)', Up(c)', Down(c)'
           PROVE  Streams'
  <2>1. ASSUME NEW d \in Clients, d # c
        PROVE  ShutInTurn(d)' /\ BuffersEmpty(d)' /\ BeforeTunnel(d)' /\ Up(d)' /\ Down(d)'
    <3>1. /\ hpc'[d] = hpc[d] /\ rpc'[d] = rpc[d] /\ req'[d] = req[d]
          /\ hbuf'[d] = hbuf[d] /\ rbuf'[d] = rbuf[d]
          /\ \A s \in {Cli(d), Dst(d)} : /\ inq'[s] = inq[s] /\ outq'[s] = outq[s]
                                         /\ nsent'[s] = nsent[s] /\ shut'[s] = shut[s]
                                         /\ gone'[s] = gone[s]
      BY <1>others, <1>soc, <1>apart, <2>1
    <3>2. ShutInTurn(d)' /\ BuffersEmpty(d)'
      BY <1>str, <3>1 DEF ShutInTurn, BuffersEmpty
    <3>3. BeforeTunnel(d)'
      BY <1>str, <3>1 DEF BeforeTunnel
    <3>4. Up(d)' /\ Down(d)'
      BY <1>str, <3>1 DEF Up, Down
    <3> QED
      BY <3>2, <3>3, <3>4
  <2> QED
    BY <1>others, <2>1 DEF Streams
<1>same. ASSUME UNCHANGED streamVars PROVE Streams'
  <2>1. \A c \in Clients : ShutInTurn(c)' /\ BuffersEmpty(c)'
    BY <1>str, <1>same DEF streamVars, ShutInTurn, BuffersEmpty
  <2>2. \A c \in Clients : BeforeTunnel(c)'
    BY <1>str, <1>same DEF streamVars, BeforeTunnel
  <2>3. \A c \in Clients : Up(c)' /\ Down(c)'
    BY <1>str, <1>same DEF streamVars, Up, Down
  <2> QED
    BY <2>1, <2>2, <2>3 DEF Streams
\* A thread goes on without touching a socket.
<1>goto. ASSUME NEW c \in Clients, NEW pc, HandlerGoto(c, pc),
                <<hpc[c], pc>> \in {<<"none", "start">>, <<"start", "request">>, <<"request", "deny">>,
                                    <<"socket", "connect">>, <<"connect", "reply">>,
                                    <<"read", "shutcli">>},
                UNCHANGED <<rpc, req, hbuf, rbuf, inq, outq, nsent, shut, gone>>
         PROVE  Streams'
  <2>1. hpc' = [hpc EXCEPT ![c] = pc] /\ hpc'[c] = pc
    BY <1>inv, <1>goto DEF HandlerGoto, TypeOK
  <2>2. Elsewhere(c)
    BY <1>inv, <1>goto, <2>1 DEF TypeOK
  <2>3. ShutInTurn(c)' /\ BuffersEmpty(c)'
    BY <1>str, <1>goto, <2>1 DEF ShutInTurn, BuffersEmpty
  <2>4. BeforeTunnel(c)'
    BY <1>str, <1>goto, <2>1 DEF BeforeTunnel
  <2>5. Up(c)' /\ Down(c)'
    BY <1>str, <1>goto, <2>1 DEF Up, Down
  <2> QED
    BY <1>others, <2>2, <2>3, <2>4, <2>5
<1>relay. ASSUME NEW c \in Clients, NEW pc, rpc' = [rpc EXCEPT ![c] = pc],
                 <<rpc[c], pc>> \in {<<"start", "read">>, <<"read", "done">>},
                 UNCHANGED <<hpc, req, hbuf, rbuf, inq, outq, nsent, shut, gone>>
          PROVE  Streams'
  <2>1. rpc'[c] = pc
    BY <1>inv, <1>relay DEF TypeOK
  <2>2. Elsewhere(c)
    BY <1>inv, <1>relay DEF TypeOK
  <2>3. ShutInTurn(c)' /\ BuffersEmpty(c)'
    BY <1>str, <1>relay, <2>1 DEF ShutInTurn, BuffersEmpty
  <2>4. BeforeTunnel(c)'
    BY <1>str, <1>relay, <2>1 DEF BeforeTunnel
  <2>5. Up(c)' /\ Down(c)'
    BY <1>str, <1>relay, <2>1 DEF Up, Down
  <2> QED
    BY <1>others, <2>2, <2>3, <2>4, <2>5
<1>request. ASSUME NEW c \in Clients, NEW h \in Hosts \cup {NoHost}, ClientRequest(c, h)
            PROVE  Streams'
  <2>1. /\ req' = [req EXCEPT ![c] = h]
        /\ inq' = [inq EXCEPT ![Cli(c)] = <<RequestLine, HostLine(h)>>]
        /\ UNCHANGED <<hpc, rpc, hbuf, rbuf, outq, nsent, shut, gone>>
    BY <1>request DEF ClientRequest
  <2>2. /\ req'[c] = h /\ inq'[Cli(c)] = <<RequestLine, HostLine(h)>> /\ inq'[Dst(c)] = inq[Dst(c)]
        /\ h # NULL
    BY <1>inv, <1>soc, <1>pair, <2>1, HostsAssumption DEF TypeOK
  <2>3. Elsewhere(c)
    BY <1>inv, <2>1 DEF TypeOK
  <2>4. rpc[c] = "none" /\ hpc[c] \notin {"socket", "connect", "reply", "read", "write"}
    BY <1>inv, <1>str, <1>request, HostsAssumption DEF ClientRequest, BeforeTunnel, Asked
  <2>5. ShutInTurn(c)' /\ BuffersEmpty(c)'
    BY <1>str, <2>1 DEF ShutInTurn, BuffersEmpty
  <2>6. BeforeTunnel(c)'
    BY <1>str, <2>1, <2>2, <2>4 DEF BeforeTunnel
  <2>7. Up(c)' /\ Down(c)'
    BY <1>str, <2>1, <2>4 DEF Up, Down
  <2> QED
    BY <1>others, <2>3, <2>5, <2>6, <2>7
\* What a peer sends is the next token of its stream.
<1>chunk. ASSUME NEW s \in Socks, PeerSend(s) PROVE Chunk(s, nsent[s] + 1) \in Tokens
  <2>1. nsent[s] + 1 \in 1..MaxChunks
    BY <1>inv, <1>chunk, BoundsAssumption DEF PeerSend, TypeOK
  <2> QED
    BY <2>1, TokenTypes
<1>csend. ASSUME NEW c \in Clients, ClientSend(c) PROVE Streams'
  <2>1. /\ PeerSend(Cli(c))
        /\ nsent' = [nsent EXCEPT ![Cli(c)] = nsent[Cli(c)] + 1]
        /\ inq' = [inq EXCEPT ![Cli(c)] = Append(inq[Cli(c)], Chunk(Cli(c), nsent[Cli(c)] + 1))]
        /\ UNCHANGED <<hpc, rpc, req, hbuf, rbuf, outq, shut, gone>>
    BY <1>csend DEF ClientSend, PeerSend
  <2>2. /\ nsent'[Cli(c)] = nsent[Cli(c)] + 1 /\ nsent'[Dst(c)] = nsent[Dst(c)]
        /\ inq'[Cli(c)] = Append(inq[Cli(c)], Chunk(Cli(c), nsent[Cli(c)] + 1))
        /\ inq'[Dst(c)] = inq[Dst(c)]
    BY <1>inv, <1>soc, <1>pair, <2>1 DEF TypeOK
  <2>3. Elsewhere(c)
    BY <1>inv, <2>1 DEF TypeOK
  <2>4. rpc[c] # "none"
    <3>1. PICK i \in 1..Len(outq[Cli(c)]) : outq[Cli(c)][i] = OK200
      BY <1>csend DEF ClientSend
    <3>2. outq[Cli(c)] # << >> /\ outq[Cli(c)] # <<Forbidden>>
      <4>1. Has(outq[Cli(c)], OK200)
        BY <3>1 DEF Has
      <4>2. ~Has(<< >>, OK200) /\ ~Has(<<Forbidden>>, OK200)
        <5>1. Has(<<Forbidden>>, OK200) => OK200 = Forbidden
          BY HasFew
        <5> QED
          BY <5>1, HasFew, TokensDiffer
      <4> QED
        BY <4>1, <4>2
    <3> QED
      BY <1>str, <3>2 DEF BeforeTunnel
  <2>5. hpc[c] \notin {"none", "start", "request", "socket", "connect", "reply"}
    BY <1>inv, <1>str, <2>4 DEF Lifecycle, TunnelPCs, BeforeTunnel
  <2>6. ShutInTurn(c)' /\ BuffersEmpty(c)'
    BY <1>str, <2>1 DEF ShutInTurn, BuffersEmpty
  <2>7. BeforeTunnel(c)'
    BY <1>str, <2>1, <2>4, <2>5 DEF BeforeTunnel
  <2>8. Up(c)'
    <3>1. Carried(outq[Dst(c)], hbuf[c], inq[Cli(c)], Cli(c), nsent[Cli(c)]) =>
            Carried(outq[Dst(c)], hbuf[c], inq'[Cli(c)], Cli(c), nsent'[Cli(c)])
      BY <1>chunk, <1>dom, <1>soc, <2>1, <2>2, CarriedSend
    <3> QED
      BY <1>str, <2>1, <3>1 DEF Up
  <2>9. Down(c)'
    BY <1>str, <2>1, <2>2 DEF Down
  <2> QED
    BY <1>others, <2>3, <2>6, <2>7, <2>8, <2>9
<1>hsend. ASSUME NEW c \in Clients, HostSend(c) PROVE Streams'
  <2>1. /\ PeerSend(Dst(c))
        /\ nsent' = [nsent EXCEPT ![Dst(c)] = nsent[Dst(c)] + 1]
        /\ inq' = [inq EXCEPT ![Dst(c)] = Append(inq[Dst(c)], Chunk(Dst(c), nsent[Dst(c)] + 1))]
        /\ UNCHANGED <<hpc, rpc, req, hbuf, rbuf, outq, shut, gone>>
    BY <1>hsend DEF HostSend, PeerSend
  <2>2. /\ nsent'[Dst(c)] = nsent[Dst(c)] + 1 /\ nsent'[Cli(c)] = nsent[Cli(c)]
        /\ inq'[Dst(c)] = Append(inq[Dst(c)], Chunk(Dst(c), nsent[Dst(c)] + 1))
        /\ inq'[Cli(c)] = inq[Cli(c)]
    BY <1>inv, <1>soc, <1>pair, <2>1 DEF TypeOK
  <2>3. Elsewhere(c)
    BY <1>inv, <2>1 DEF TypeOK
  <2>4. ShutInTurn(c)' /\ BuffersEmpty(c)'
    BY <1>str, <2>1 DEF ShutInTurn, BuffersEmpty
  <2>5. BeforeTunnel(c)'
    <3>1. Complete(inq[Dst(c)], Dst(c), nsent[Dst(c)]) => Complete(inq'[Dst(c)], Dst(c), nsent'[Dst(c)])
      BY <1>chunk, <1>dom, <1>soc, <2>1, <2>2, CompleteSend
    <3> QED
      BY <1>str, <2>1, <2>2, <3>1 DEF BeforeTunnel
  <2>6. Up(c)'
    BY <1>str, <2>1, <2>2 DEF Up
  <2>7. Down(c)'
    <3>1. CASE outq[Cli(c)] = << >>
      BY <1>str, <2>1, <3>1 DEF Down
    <3>2. CASE outq[Cli(c)] # << >>
      <4>1. Tail(outq[Cli(c)]) \in Seq(Tokens)
        BY <1>dom, <1>soc, <3>2, HeadTailProperties
      <4>2. Carried(Tail(outq[Cli(c)]), rbuf[c], inq[Dst(c)], Dst(c), nsent[Dst(c)]) =>
              Carried(Tail(outq[Cli(c)]), rbuf[c], inq'[Dst(c)], Dst(c), nsent'[Dst(c)])
        <5> DEFINE out == Tail(outq[Cli(c)])
                   n == nsent[Dst(c)]
                   in == inq[Dst(c)]
        <5>1. /\ out \in Seq(Tokens) /\ rbuf[c] \in Seq(Tokens) /\ in \in Seq(Tokens) /\ n \in Nat
              /\ Chunk(Dst(c), n + 1) \in Tokens
              /\ inq'[Dst(c)] = Append(in, Chunk(Dst(c), n + 1)) /\ nsent'[Dst(c)] = n + 1
          BY <1>chunk, <1>dom, <1>soc, <2>1, <2>2, <4>1
        <5> HIDE DEF out, n, in
        <5>2. Carried(out, rbuf[c], in, Dst(c), n) =>
                Carried(out, rbuf[c], inq'[Dst(c)], Dst(c), nsent'[Dst(c)])
          BY <5>1, CarriedSend
        <5> QED
          BY <5>2 DEF out, n, in
      <4> QED
        BY <1>str, <2>1, <4>2 DEF Down
    <3> QED
      BY <3>1, <3>2
  <2> QED
    BY <1>others, <2>3, <2>4, <2>5, <2>6, <2>7
<1>pclose. ASSUME NEW c \in Clients, NEW s \in {Cli(c), Dst(c)}, PeerClose(s) PROVE Streams'
  <2>1. /\ gone' = [gone EXCEPT ![s] = TRUE]
        /\ UNCHANGED <<hpc, rpc, req, hbuf, rbuf, inq, outq, nsent, shut>>
    BY <1>pclose DEF PeerClose
  <2>2. gone'[Cli(c)] \in {gone[Cli(c)], TRUE} /\ gone'[Dst(c)] \in {gone[Dst(c)], TRUE}
    BY <1>inv, <1>soc, <2>1 DEF TypeOK
  <2>3. Elsewhere(c)
    BY <1>inv, <2>1 DEF TypeOK
  <2>4. ShutInTurn(c)' /\ BuffersEmpty(c)'
    BY <1>str, <2>1 DEF ShutInTurn, BuffersEmpty
  <2>5. BeforeTunnel(c)'
    BY <1>str, <2>1 DEF BeforeTunnel
  <2>6. Up(c)' /\ Down(c)'
    BY <1>str, <2>1, <2>2 DEF Up, Down
  <2> QED
    BY <1>others, <2>3, <2>4, <2>5, <2>6
\* What a read or a write on a descriptor of a known socket does.
<1>left. ASSUME NEW f \in Fds, NEW k, ReadGets(f, k), NEW t \in Socks, fdtab[f] = t
         PROVE  /\ k \in 1..Len(inq[t]) /\ Got(f, k) = SubSeq(inq[t], 1, k)
                /\ Left(f, k)[t] = SubSeq(inq[t], k + 1, Len(inq[t]))
                /\ \A s \in Socks : s # t => Left(f, k)[s] = inq[s]
  BY <1>inv, <1>left DEF ReadGets, Got, Left, TypeOK
<1>written. ASSUME NEW f \in Fds, NEW buf, NEW t \in Socks, fdtab[f] = t
            PROVE  /\ Written(f, buf)[t] = IF shut[t] \/ gone[t] THEN outq[t] ELSE outq[t] \o buf
                   /\ \A s \in Socks : s # t => Written(f, buf)[s] = outq[s]
  <2>1. t # NULL
    BY NullAssumption DEF Socks
  <2> QED
    BY <1>inv, <1>written, <2>1 DEF Written, Writable, TypeOK
<1>cli. ASSUME NEW c \in Clients, hpc[c] \in HoldsClient PROVE cfd[c] \in Fds /\ fdtab[cfd[c]] = Cli(c)
  BY <1>inv, <1>cli DEF HandlerOwns, DescriptorsSet, HoldsClient
<1>dst. ASSUME NEW c \in Clients, hpc[c] \in HoldsDst PROVE dfd[c] \in Fds /\ fdtab[dfd[c]] = Dst(c)
  BY <1>inv, <1>dst DEF HandlerOwns, DescriptorsSet, HoldsDst, TunnelPCs
<1>rreq. ASSUME NEW c \in Clients, NEW k, ReadRequest(c, k) PROVE Streams'
  <2>1. PICK h \in Hosts : /\ Has(Got(cfd[c], k), HostLine(h))
                           /\ HandlerGoto(c, IF h \in Blocked THEN "deny" ELSE "socket")
    BY <1>rreq DEF ReadRequest, ParsedHosts, Has
  <2>2. /\ hpc[c] = "request" /\ ReadGets(cfd[c], k) /\ inq' = Left(cfd[c], k)
        /\ UNCHANGED <<rpc, req, hbuf, rbuf, outq, nsent, shut, gone>>
    BY <1>rreq DEF ReadRequest
  <2>3. cfd[c] \in Fds /\ fdtab[cfd[c]] = Cli(c) /\ rpc[c] = "none"
    BY <1>inv, <1>cli, <2>2 DEF HoldsClient, Lifecycle, TunnelPCs
  <2>4. /\ k \in 1..Len(inq[Cli(c)]) /\ Got(cfd[c], k) = SubSeq(inq[Cli(c)], 1, k)
        /\ inq'[Cli(c)] = SubSeq(inq[Cli(c)], k + 1, Len(inq[Cli(c)]))
        /\ \A s \in Socks : s # Cli(c) => inq'[s] = inq[s]
    BY <1>left, <1>soc, <2>2, <2>3
  <2>5. inq[Cli(c)] = <<RequestLine, HostLine(req[c])>> /\ k \in 1..2
    <3>1. inq[Cli(c)] # << >>
      BY <2>4
    <3>2. inq[Cli(c)] = <<RequestLine, HostLine(req[c])>>
      BY <1>str, <2>2, <3>1 DEF BeforeTunnel
    <3> QED
      BY <2>4, <3>2
  <2>6. k = 2
    <3> SUFFICES ASSUME k # 2 PROVE FALSE
      OBVIOUS
    <3>1. k = 1
      BY <2>5
    <3>2. inq[Cli(c)][1] = RequestLine
      BY <2>5
    <3>3. Len(Got(cfd[c], k)) = 1 /\ Got(cfd[c], k)[1] = RequestLine
      <4>1. \A i \in 1..1 : inq[Cli(c)][i] \in Tokens
        BY <3>2, TokenTypes
      <4>2. Len(SubSeq(inq[Cli(c)], 1, 1)) = 1 /\ SubSeq(inq[Cli(c)], 1, 1)[1] = inq[Cli(c)][1]
        BY <4>1, SubSeqProperties
      <4> QED
        BY <2>4, <3>1, <3>2, <4>2
    <3>4. HostLine(h) = RequestLine
      BY <2>1, <3>3 DEF Has
    <3> QED
      BY <3>4, TokensDiffer
  <2>7. inq'[Cli(c)] = << >>
    <3>1. Len(inq[Cli(c)]) = 2
      BY <2>5
    <3> QED
      BY <2>4, <2>6, <3>1, SubSeqEmpty
  <2>8. hpc'[c] \in {"deny", "socket"} /\ \A d \in Clients : d # c => hpc'[d] = hpc[d]
    BY <1>inv, <2>1 DEF HandlerGoto, TypeOK
  <2>9. Elsewhere(c)
    BY <1>soc, <2>2, <2>4, <2>8
  <2>10. ShutInTurn(c)' /\ BuffersEmpty(c)'
    BY <1>str, <2>2, <2>8 DEF ShutInTurn, BuffersEmpty
  <2>11. BeforeTunnel(c)'
    BY <1>str, <1>soc, <1>pair, <2>2, <2>3, <2>4, <2>7, <2>8 DEF BeforeTunnel
  <2>12. Up(c)' /\ Down(c)'
    BY <1>str, <2>2, <2>3, <2>8 DEF Up, Down
  <2> QED
    BY <1>others, <2>9, <2>10, <2>11, <2>12
<1>deny. ASSUME NEW c \in Clients, DenyReply(c) PROVE Streams'
  <2>1. /\ hpc[c] = "deny" /\ outq' = Written(cfd[c], <<Forbidden>>) /\ HandlerGoto(c, "denyshut")
        /\ UNCHANGED <<rpc, req, hbuf, rbuf, inq, nsent, shut, gone>>
    BY <1>deny DEF DenyReply
  <2>2. cfd[c] \in Fds /\ fdtab[cfd[c]] = Cli(c) /\ rpc[c] = "none"
    BY <1>inv, <1>cli, <2>1 DEF HoldsClient, Lifecycle, TunnelPCs
  <2>3. outq[Cli(c)] = << >>
    BY <1>str, <2>1, <2>2 DEF BeforeTunnel
  <2>4. /\ outq'[Cli(c)] = IF shut[Cli(c)] \/ gone[Cli(c)] THEN outq[Cli(c)] ELSE outq[Cli(c)] \o <<Forbidden>>
        /\ \A s \in Socks : s # Cli(c) => outq'[s] = outq[s]
    BY <1>written, <1>soc, <2>1, <2>2
  <2>5. outq'[Cli(c)] \in {<< >>, <<Forbidden>>}
    <3>1. << >> \o <<Forbidden>> = <<Forbidden>>
      OBVIOUS
    <3> QED
      BY <2>3, <2>4, <3>1
  <2>6. hpc'[c] = "denyshut" /\ \A d \in Clients : d # c => hpc'[d] = hpc[d]
    BY <1>inv, <2>1 DEF HandlerGoto, TypeOK
  <2>7. Elsewhere(c)
    BY <1>soc, <2>1, <2>4, <2>6
  <2>8. ShutInTurn(c)' /\ BuffersEmpty(c)'
    BY <1>str, <2>1, <2>6 DEF ShutInTurn, BuffersEmpty
  <2>9. BeforeTunnel(c)'
    BY <1>str, <1>soc, <1>pair, <2>1, <2>2, <2>4, <2>5, <2>6 DEF BeforeTunnel
  <2>10. Up(c)' /\ Down(c)'
    BY <1>str, <1>soc, <1>pair, <2>1, <2>2, <2>4, <2>6 DEF Up, Down
  <2> QED
    BY <1>others, <2>7, <2>8, <2>9, <2>10
<1>reply. ASSUME NEW c \in Clients, Reply(c) PROVE Streams'
  <2>1. /\ hpc[c] = "reply" /\ outq' = Written(cfd[c], <<OK200>>) /\ HandlerGoto(c, "read")
        /\ rpc' = [rpc EXCEPT ![c] = "start"]
        /\ UNCHANGED <<req, hbuf, rbuf, inq, nsent, shut, gone>>
    BY <1>reply DEF Reply
  <2>2. cfd[c] \in Fds /\ fdtab[cfd[c]] = Cli(c)
    BY <1>cli, <2>1 DEF HoldsClient
  <2>3. /\ rpc[c] = "none" /\ inq[Cli(c)] = << >> /\ nsent[Cli(c)] = 0
        /\ outq[Cli(c)] = << >> /\ outq[Dst(c)] = << >> /\ hbuf[c] = << >> /\ rbuf[c] = << >>
        /\ Complete(inq[Dst(c)], Dst(c), nsent[Dst(c)])
    BY <1>str, <2>1 DEF BeforeTunnel, BuffersEmpty
  <2>4. /\ outq'[Cli(c)] = IF shut[Cli(c)] \/ gone[Cli(c)] THEN outq[Cli(c)] ELSE outq[Cli(c)] \o <<OK200>>
        /\ \A s \in Socks : s # Cli(c) => outq'[s] = outq[s]
    BY <1>written, <1>soc, <2>1, <2>2
  <2>5. outq'[Cli(c)] = IF shut[Cli(c)] \/ gone[Cli(c)] THEN << >> ELSE <<OK200>>
    <3>1. << >> \o <<OK200>> = <<OK200>>
      OBVIOUS
    <3> QED
      BY <2>3, <2>4, <3>1
  <2>6. /\ hpc'[c] = "read" /\ rpc'[c] = "start"
        /\ \A d \in Clients : d # c => hpc'[d] = hpc[d] /\ rpc'[d] = rpc[d]
    BY <1>inv, <2>1 DEF HandlerGoto, TypeOK
  <2>7. Elsewhere(c)
    BY <1>soc, <2>1, <2>4, <2>6
  <2>8. ShutInTurn(c)' /\ BuffersEmpty(c)'
    BY <1>str, <2>1, <2>3, <2>6 DEF ShutInTurn, BuffersEmpty
  <2>9. BeforeTunnel(c)'
    <3>1. req[c] # NULL
      BY <1>inv, <2>1, HostsAssumption DEF Asked
    <3> QED
      BY <2>1, <2>6, <3>1 DEF BeforeTunnel
  <2>10. Up(c)'
    <3>1. Carried(<< >>, << >>, << >>, Cli(c), 0)
      BY CarriedStart, CompleteEmpty, EmptySeq
    <3>2. outq'[Dst(c)] = << >>
      BY <1>soc, <1>pair, <2>3, <2>4
    <3> QED
      BY <1>str, <2>1, <2>3, <3>1, <3>2 DEF Up
  <2>11. Down(c)'
    <3>1. Tail(<<OK200>>) = << >> /\ <<OK200>>[1] = OK200 /\ <<OK200>> # << >>
      OBVIOUS
    <3>2. Carried(<< >>, << >>, inq[Dst(c)], Dst(c), nsent[Dst(c)])
      BY <1>dom, <1>soc, <2>3, CarriedStart
    <3>3. IsStreamOf(<< >>, Dst(c))
      BY DEF IsStreamOf
    <3> QED
      BY <2>1, <2>3, <2>5, <3>1, <3>2, <3>3 DEF Down
  <2> QED
    BY <1>others, <2>7, <2>8, <2>9, <2>10, <2>11
<1>rcli. ASSUME NEW c \in Clients, NEW k, ReadClient(c, k) PROVE Streams'
  <2>1. /\ hpc[c] = "read" /\ ReadGets(cfd[c], k) /\ inq' = Left(cfd[c], k)
        /\ hbuf' = [hbuf EXCEPT ![c] = Got(cfd[c], k)] /\ HandlerGoto(c, "write")
        /\ UNCHANGED <<rpc, req, rbuf, outq, nsent, shut, gone>>
    BY <1>rcli DEF ReadClient
  <2>2. cfd[c] \in Fds /\ fdtab[cfd[c]] = Cli(c) /\ hbuf[c] = << >> /\ rpc[c] # "none"
    BY <1>cli, <1>str, <2>1 DEF HoldsClient, BuffersEmpty, BeforeTunnel
  <2>3. /\ k \in 1..Len(inq[Cli(c)]) /\ Got(cfd[c], k) = SubSeq(inq[Cli(c)], 1, k)
        /\ inq'[Cli(c)] = SubSeq(inq[Cli(c)], k + 1, Len(inq[Cli(c)]))
        /\ \A s \in Socks : s # Cli(c) => inq'[s] = inq[s]
    <3>1. ReadGets(cfd[c], k) /\ cfd[c] \in Fds /\ fdtab[cfd[c]] = Cli(c) /\ Cli(c) \in Socks
      BY <1>soc, <2>1, <2>2, Zenon
    <3>2. /\ k \in 1..Len(inq[Cli(c)]) /\ Got(cfd[c], k) = SubSeq(inq[Cli(c)], 1, k)
          /\ Left(cfd[c], k)[Cli(c)] = SubSeq(inq[Cli(c)], k + 1, Len(inq[Cli(c)]))
          /\ \A s \in Socks : s # Cli(c) => Left(cfd[c], k)[s] = inq[s]
      BY <1>left, <3>1, Zenon
    <3> QED
      BY <2>1, <3>2, Zenon
  <2>4. /\ hpc'[c] = "write" /\ hbuf'[c] = SubSeq(inq[Cli(c)], 1, k)
        /\ \A d \in Clients : d # c => hpc'[d] = hpc[d] /\ hbuf'[d] = hbuf[d]
    BY <1>inv, <2>1, <2>3 DEF HandlerGoto, TypeOK
  <2>5. Elsewhere(c)
    BY <1>soc, <2>1, <2>3, <2>4
  <2>6. ShutInTurn(c)' /\ BuffersEmpty(c)'
    BY <1>str, <2>1, <2>4 DEF ShutInTurn, BuffersEmpty
  <2>7. BeforeTunnel(c)'
    BY <1>str, <2>1, <2>2, <2>4 DEF BeforeTunnel
  <2>8. Up(c)'
    <3>1. Carried(outq[Dst(c)], << >>, inq[Cli(c)], Cli(c), nsent[Cli(c)]) =>
            Carried(outq[Dst(c)], hbuf'[c], inq'[Cli(c)], Cli(c), nsent[Cli(c)])
      BY <1>dom, <1>soc, <2>3, <2>4, CarriedRead
    <3> QED
      BY <1>str, <2>1, <2>2, <3>1 DEF Up
  <2>9. Down(c)'
    BY <1>str, <1>soc, <1>pair, <2>1, <2>3 DEF Down
  <2> QED
    BY <1>others, <2>5, <2>6, <2>7, <2>8, <2>9
<1>whost. ASSUME NEW c \in Clients, WriteHost(c) PROVE Streams'
  <2>1. /\ hpc[c] = "write" /\ outq' = Written(dfd[c], hbuf[c]) /\ HandlerGoto(c, "read")
        /\ hbuf' = [hbuf EXCEPT ![c] = << >>]
        /\ UNCHANGED <<rpc, req, rbuf, inq, nsent, shut, gone>>
    BY <1>whost DEF WriteHost
  <2>2. dfd[c] \in Fds /\ fdtab[dfd[c]] = Dst(c) /\ ~shut[Dst(c)] /\ rpc[c] # "none"
    BY <1>dst, <1>str, <2>1 DEF HoldsDst, ShutInTurn, BeforeTunnel
  <2>3. /\ outq'[Dst(c)] = IF gone[Dst(c)] THEN outq[Dst(c)] ELSE outq[Dst(c)] \o hbuf[c]
        /\ \A s \in Socks : s # Dst(c) => outq'[s] = outq[s]
    BY <1>written, <1>soc, <2>1, <2>2
  <2>4. /\ hpc'[c] = "read" /\ hbuf'[c] = << >>
        /\ \A d \in Clients : d # c => hpc'[d] = hpc[d] /\ hbuf'[d] = hbuf[d]
    BY <1>inv, <2>1 DEF HandlerGoto, TypeOK
  <2>5. Elsewhere(c)
    BY <1>soc, <2>1, <2>3, <2>4
  <2>6. ShutInTurn(c)' /\ BuffersEmpty(c)'
    BY <1>str, <2>1, <2>4 DEF ShutInTurn, BuffersEmpty
  <2>7. BeforeTunnel(c)'
    BY <1>str, <2>1, <2>2, <2>4 DEF BeforeTunnel
  <2>8. Up(c)'
    <3>1. CASE gone[Dst(c)]
      BY <1>str, <2>1, <2>3, <3>1 DEF Up
    <3>2. CASE ~gone[Dst(c)]
      <4>1. Carried(outq[Dst(c)], hbuf[c], inq[Cli(c)], Cli(c), nsent[Cli(c)])
        BY <1>str, <2>1, <3>2 DEF Up
      <4>2. /\ Carried(outq'[Dst(c)], << >>, inq[Cli(c)], Cli(c), nsent[Cli(c)])
            /\ IsStreamOf(outq'[Dst(c)], Cli(c))
        BY <1>dom, <1>soc, <2>3, <3>2, <4>1, CarriedWrite
      <4> QED
        BY <2>1, <2>4, <4>2 DEF Up
    <3> QED
      BY <3>1, <3>2
  <2>9. Down(c)'
    BY <1>str, <1>soc, <1>pair, <2>1, <2>3 DEF Down
  <2> QED
    BY <1>others, <2>5, <2>6, <2>7, <2>8, <2>9
<1>rhost. ASSUME NEW c \in Clients, NEW k, ReadHost(c, k) PROVE Streams'
  <2>1. /\ rpc[c] = "read" /\ ReadGets(rdfd[c], k) /\ inq' = Left(rdfd[c], k)
        /\ rbuf' = [rbuf EXCEPT ![c] = Got(rdfd[c], k)] /\ rpc' = [rpc EXCEPT ![c] = "write"]
        /\ UNCHANGED <<hpc, req, hbuf, outq, nsent, shut, gone>>
    BY <1>rhost DEF ReadHost
  <2>2. rdfd[c] \in Fds /\ fdtab[rdfd[c]] = Dst(c) /\ rbuf[c] = << >>
    BY <1>inv, <1>str, <2>1 DEF DescriptorsSet, Alone, ReadGets, BuffersEmpty
  <2>3. /\ k \in 1..Len(inq[Dst(c)]) /\ Got(rdfd[c], k) = SubSeq(inq[Dst(c)], 1, k)
        /\ inq'[Dst(c)] = SubSeq(inq[Dst(c)], k + 1, Len(inq[Dst(c)]))
        /\ \A s \in Socks : s # Dst(c) => inq'[s] = inq[s]
    <3>1. ReadGets(rdfd[c], k) /\ rdfd[c] \in Fds /\ fdtab[rdfd[c]] = Dst(c) /\ Dst(c) \in Socks
      BY <1>soc, <2>1, <2>2, Zenon
    <3>2. /\ k \in 1..Len(inq[Dst(c)]) /\ Got(rdfd[c], k) = SubSeq(inq[Dst(c)], 1, k)
          /\ Left(rdfd[c], k)[Dst(c)] = SubSeq(inq[Dst(c)], k + 1, Len(inq[Dst(c)]))
          /\ \A s \in Socks : s # Dst(c) => Left(rdfd[c], k)[s] = inq[s]
      BY <1>left, <3>1, Zenon
    <3> QED
      BY <2>1, <3>2, Zenon
  <2>4. /\ rpc'[c] = "write" /\ rbuf'[c] = SubSeq(inq[Dst(c)], 1, k)
        /\ \A d \in Clients : d # c => rpc'[d] = rpc[d] /\ rbuf'[d] = rbuf[d]
    BY <1>inv, <2>1, <2>3 DEF TypeOK
  <2>5. Elsewhere(c)
    BY <1>soc, <2>1, <2>3, <2>4
  <2>6. ShutInTurn(c)' /\ BuffersEmpty(c)'
    BY <1>str, <2>1, <2>4 DEF ShutInTurn, BuffersEmpty
  <2>7. BeforeTunnel(c)'
    BY <1>str, <1>soc, <1>pair, <2>1, <2>3, <2>4 DEF BeforeTunnel
  <2>8. Up(c)'
    BY <1>str, <1>soc, <1>pair, <2>1, <2>3 DEF Up
  <2>9. Down(c)'
    <3>1. CASE outq[Cli(c)] = << >>
      BY <1>str, <2>1, <3>1 DEF Down
    <3>2. CASE outq[Cli(c)] # << >>
      <4>1. Tail(outq[Cli(c)]) \in Seq(Tokens)
        BY <1>dom, <1>soc, <3>2, HeadTailProperties
      <4>2. Carried(Tail(outq[Cli(c)]), << >>, inq[Dst(c)], Dst(c), nsent[Dst(c)]) =>
              Carried(Tail(outq[Cli(c)]), rbuf'[c], inq'[Dst(c)], Dst(c), nsent[Dst(c)])
        <5> DEFINE out == Tail(outq[Cli(c)])
                   in == inq[Dst(c)]
        <5>1. /\ out \in Seq(Tokens) /\ in \in Seq(Tokens) /\ k \in 1..Len(in)
              /\ rbuf'[c] = SubSeq(in, 1, k) /\ inq'[Dst(c)] = SubSeq(in, k + 1, Len(in))
          BY <1>dom, <1>soc, <2>3, <2>4, <4>1
        <5> HIDE DEF out, in
        <5>2. Carried(out, << >>, in, Dst(c), nsent[Dst(c)]) =>
                Carried(out, rbuf'[c], inq'[Dst(c)], Dst(c), nsent[Dst(c)])
          BY <5>1, CarriedRead
        <5> QED
          BY <5>2 DEF out, in
      <4> QED
        BY <1>str, <2>1, <2>2, <4>2 DEF Down
    <3> QED
      BY <3>1, <3>2
  <2> QED
    BY <1>others, <2>5, <2>6, <2>7, <2>8, <2>9
<1>wcli. ASSUME NEW c \in Clients, WriteClient(c) PROVE Streams'
  <2>1. /\ rpc[c] = "write" /\ outq' = Written(rcfd[c], rbuf[c]) /\ rpc' = [rpc EXCEPT ![c] = "read"]
        /\ rbuf' = [rbuf EXCEPT ![c] = << >>]
        /\ UNCHANGED <<hpc, req, hbuf, inq, nsent, shut, gone>>
    BY <1>wcli DEF WriteClient
  <2>2. rcfd[c] \in Fds /\ rcfd[c] = cfd[c] /\ fdtab[rcfd[c]] \in {Cli(c), NULL}
    BY <1>inv, <2>1 DEF DescriptorsSet, Alone
  \* A closed descriptor is that of a socket that was shut down.
  <2>3. fdtab[rcfd[c]] = NULL => shut[Cli(c)]
    <3>1. hpc[c] \in TunnelPCs /\ (hpc[c] \in HoldsClient => fdtab[rcfd[c]] = Cli(c))
      BY <1>inv, <1>cli, <2>1, <2>2 DEF Lifecycle
    <3> QED
      BY <1>str, <3>1, SocketsDistinct DEF TunnelPCs, HoldsClient, ShutInTurn
  <2>4. /\ outq'[Cli(c)] = IF shut[Cli(c)] \/ gone[Cli(c)] THEN outq[Cli(c)] ELSE outq[Cli(c)] \o rbuf[c]
        /\ \A s \in Socks : s # Cli(c) => outq'[s] = outq[s]
    <3>1. CASE fdtab[rcfd[c]] = Cli(c)
      BY <1>written, <1>soc, <2>1, <2>2, <3>1
    <3>2. CASE fdtab[rcfd[c]] = NULL
      BY <2>1, <2>3, <3>2 DEF Written, Writable
    <3> QED
      BY <2>2, <3>1, <3>2
  <2>5. /\ rpc'[c] = "read" /\ rbuf'[c] = << >>
        /\ \A d \in Clients : d # c => rpc'[d] = rpc[d] /\ rbuf'[d] = rbuf[d]
    BY <1>inv, <2>1 DEF TypeOK
  <2>6. Elsewhere(c)
    BY <1>soc, <2>1, <2>4, <2>5
  <2>7. ShutInTurn(c)' /\ BuffersEmpty(c)'
    BY <1>str, <2>1, <2>5 DEF ShutInTurn, BuffersEmpty
  <2>8. BeforeTunnel(c)'
    BY <1>str, <2>1, <2>5 DEF BeforeTunnel
  <2>9. Up(c)'
    BY <1>str, <1>soc, <1>pair, <2>1, <2>4 DEF Up
  <2>10. Down(c)'
    <3>1. CASE shut[Cli(c)] \/ gone[Cli(c)]
      BY <1>str, <2>1, <2>4, <3>1 DEF Down
    <3>2. CASE ~(shut[Cli(c)] \/ gone[Cli(c)])
      <4> DEFINE out == outq[Cli(c)]
      <4>1. /\ out \in Seq(Tokens) /\ out # << >> /\ out[1] = OK200
            /\ Carried(Tail(out), rbuf[c], inq[Dst(c)], Dst(c), nsent[Dst(c)])
            /\ rbuf[c] \in Seq(Tokens) /\ inq[Dst(c)] \in Seq(Tokens)
            /\ outq'[Cli(c)] = out \o rbuf[c]
        BY <1>str, <1>dom, <1>soc, <2>1, <2>4, <3>2 DEF Down
      <4> HIDE DEF out
      <4>2. /\ outq'[Cli(c)] # << >> /\ outq'[Cli(c)][1] = OK200
            /\ Tail(outq'[Cli(c)]) = Tail(out) \o rbuf[c] /\ Tail(out) \in Seq(Tokens)
        BY <4>1, TailJoined
      <4>3. /\ Carried(Tail(out) \o rbuf[c], << >>, inq[Dst(c)], Dst(c), nsent[Dst(c)])
            /\ IsStreamOf(Tail(out) \o rbuf[c], Dst(c))
        BY <4>1, <4>2, CarriedWrite
      <4> QED
        BY <2>1, <2>5, <4>2, <4>3 DEF Down
    <3> QED
      BY <3>1, <3>2
  <2> QED
    BY <1>others, <2>6, <2>7, <2>8, <2>9, <2>10
\* A shutdown or close of the handler, of one of its own two sockets.
<1>ends. ASSUME NEW c \in Clients, DenyEnd(c) \/ TunnelEnd(c) PROVE Streams'
  <2>1. ASSUME NEW t \in {Cli(c), Dst(c)}, NEW pc, HandlerGoto(c, pc), shut' = [shut EXCEPT ![t] = TRUE],
               <<hpc[c], t, pc>> \in {<<"denyshut", Cli(c), "denyclose">>, <<"denyclose", Cli(c), "done">>,
                                      <<"shutcli", Cli(c), "closecli">>, <<"closecli", Cli(c), "shutdst">>,
                                      <<"shutdst", Dst(c), "closedst">>, <<"closedst", Dst(c), "done">>},
               UNCHANGED <<rpc, req, hbuf, rbuf, inq, outq, nsent, gone>>
        PROVE  Streams'
    <3>1. hpc'[c] = pc /\ \A d \in Clients : d # c => hpc'[d] = hpc[d]
      BY <1>inv, <2>1 DEF HandlerGoto, TypeOK
    <3>2. \A s \in Socks : shut'[s] = IF s = t THEN TRUE ELSE shut[s]
      BY <1>inv, <2>1 DEF TypeOK
    <3>3. Elsewhere(c)
      BY <1>soc, <2>1, <3>1, <3>2
    <3>4. ShutInTurn(c)'
      BY <1>str, <1>soc, <1>pair, <2>1, <3>1, <3>2 DEF ShutInTurn
    <3>5. BuffersEmpty(c)'
      BY <1>str, <2>1, <3>1 DEF BuffersEmpty
    <3>6. BeforeTunnel(c)'
      BY <1>str, <2>1, <3>1 DEF BeforeTunnel
    <3>7. Up(c)'
      BY <1>str, <2>1, <3>1 DEF Up
    <3>8. Down(c)'
      BY <1>str, <1>soc, <2>1, <3>2 DEF Down
    <3> QED
      BY <1>others, <3>3, <3>4, <3>5, <3>6, <3>7, <3>8
  <2>2. ASSUME NEW from \in HoldsClient, NEW to,
               HandlerShutdown(c, from, cfd[c], to) \/ HandlerClose(c, from, cfd[c], to)
        PROVE  shut' = [shut EXCEPT ![Cli(c)] = TRUE]
    <3>1. fdtab[cfd[c]] = Cli(c) /\ Cli(c) # NULL
      BY <1>cli, <2>2, SocketsDistinct DEF HandlerShutdown, HandlerClose
    <3> QED
      BY <2>2, <3>1 DEF HandlerShutdown, HandlerClose, Close, Shutdown
  <2>3. ASSUME NEW from \in HoldsDst, NEW to,
               HandlerShutdown(c, from, dfd[c], to) \/ HandlerClose(c, from, dfd[c], to)
        PROVE  shut' = [shut EXCEPT ![Dst(c)] = TRUE]
    <3>1. fdtab[dfd[c]] = Dst(c) /\ Dst(c) # NULL
      BY <1>dst, <2>3, SocketsDistinct DEF HandlerShutdown, HandlerClose
    <3> QED
      BY <2>3, <3>1 DEF HandlerShutdown, HandlerClose, Close, Shutdown
  <2>4. CASE DenyEnd(c)
    <3>1. shut' = [shut EXCEPT ![Cli(c)] = TRUE]
      BY <2>2, <2>4 DEF DenyEnd, HoldsClient
    <3> QED
      BY <2>1, <2>4, <3>1 DEF DenyEnd, HandlerShutdown, HandlerClose
  <2>5. CASE TunnelEnd(c) /\ hpc[c] \in {"shutcli", "closecli"}
    <3>1. shut' = [shut EXCEPT ![Cli(c)] = TRUE]
      BY <2>2, <2>5 DEF TunnelEnd, HoldsClient, HandlerShutdown, HandlerClose
    <3> QED
      BY <2>1, <2>5, <3>1 DEF TunnelEnd, HandlerShutdown, HandlerClose
  <2>6. CASE TunnelEnd(c) /\ hpc[c] \in {"shutdst", "closedst"}
    <3>1. shut' = [shut EXCEPT ![Dst(c)] = TRUE]
      BY <2>3, <2>6 DEF TunnelEnd, HoldsDst, HandlerShutdown, HandlerClose
    <3> QED
      BY <2>1, <2>6, <3>1 DEF TunnelEnd, HandlerShutdown, HandlerClose
  <2>7. TunnelEnd(c) => hpc[c] \in {"shutcli", "closecli", "shutdst", "closedst"}
    BY DEF TunnelEnd, HandlerShutdown, HandlerClose
  <2> QED
    BY <1>ends, <2>4, <2>5, <2>6, <2>7
<1>env. ASSUME NEW c \in Clients, Env(c) PROVE Streams'
  BY <1>env, <1>same, <1>request, <1>csend, <1>hsend, <1>pclose
     DEF Env, ClientConnect, ClientClose, HostClose, ClientFin, HostFin, PeerFin, streamVars
<1>main. ASSUME Main PROVE Streams'
  <2>1. CASE CreateHandler
    <3>1. cur \in Clients /\ hpc[cur] = "none" /\ HandlerGoto(cur, "start")
      BY <1>inv, <2>1 DEF CreateHandler, HandlerGoto, Lifecycle
    <3> QED
      BY <1>goto, <2>1, <3>1 DEF CreateHandler
  <2> QED
    BY <1>main, <1>same, <2>1 DEF Main, Accept, AcceptFails, Crash, streamVars
<1>hand. ASSUME NEW c \in Clients, HandleConnection(c) PROVE Streams'
  <2>1. CASE HandlerStart(c) \/ RequestEnds(c) \/ Connect(c) \/ ClientEnds(c)
             \/ \E f \in Fds : OpenSocket(c, f)
    BY <2>1, <1>goto DEF HandlerStart, RequestEnds, Connect, ClientEnds, OpenSocket
  <2>2. CASE OpenSocketFails(c) \/ ConnectFails(c) \/ \E k \in ReadSizes : ParseFails(c, k)
    BY <2>2, <1>same DEF OpenSocketFails, ConnectFails, ParseFails, Crash, streamVars
  <2> QED
    BY <1>hand, <1>rreq, <1>deny, <1>reply, <1>rcli, <1>whost, <1>ends, <2>1, <2>2
       DEF HandleConnection
<1>rel. ASSUME NEW c \in Clients, HostToCli(c) PROVE Streams'
  <2>1. CASE RelayStart(c) \/ HostEnds(c) \/ \E d \in Clients : RelayStartStale(c, d)
    BY <2>1, <1>relay DEF RelayStart, RelayStartStale, HostEnds
  <2> QED
    BY <1>rel, <1>same, <1>rhost, <1>wcli, <2>1 DEF HostToCli, RelayStartFaults, Crash, streamVars
<1>stay. CASE UNCHANGED vars
  BY <1>stay, <1>same DEF vars, streamVars
<1> QED
  BY <1>env, <1>main, <1>hand, <1>rel, <1>stay DEF Next, Finished

\* When connections follow each other, the host receives exactly a prefix of
\* what its client sent and the client the status line and then a prefix of what
\* its host sent, whatever the threads' order, the sizes of the reads and the
\* moment at which either side leaves.
THEOREM TunnelsFaithful == Arrivals = "serial" => (Spec => []TunnelIntegrity)
<1> SUFFICES ASSUME Arrivals = "serial" PROVE Spec => []TunnelIntegrity
  OBVIOUS
<1> DEFINE Inv == TypeInv /\ OwnInv /\ AnswerInv /\ Alone /\ Streams
<1>1. Init => Inv
  BY InitTypeInv, InitOwnInv, InitAnswerInv, InitAlone, InitStreams
<1>2. Inv /\ [Next]_vars => Inv'
  <2> SUFFICES ASSUME TypeInv, OwnInv, AnswerInv, Alone, Streams, [Next]_vars PROVE Inv'
    OBVIOUS
  <2>1. TypeInv' /\ OwnInv' /\ AnswerInv'
    BY NextTypeInv, NextOwnInv, NextAnswerInv
  <2>2. Alone'
    BY NextAlone
  <2>3. Streams'
    BY NextStreams
  <2> QED
    BY <2>1, <2>2, <2>3
<1>3. Inv => TunnelIntegrity
  <2> SUFFICES ASSUME Streams, NEW c \in Clients
               PROVE  /\ IsStreamOf(outq[Dst(c)], Cli(c))
                      /\ outq[Cli(c)] \in {<< >>, <<Forbidden>>} \/
                           /\ outq[Cli(c)][1] = OK200
                           /\ IsStreamOf(Tail(outq[Cli(c)]), Dst(c))
    BY DEF TunnelIntegrity
  <2> QED
    BY DEF Streams, BeforeTunnel, Up, Down
<1> HIDE DEF Inv
<1> QED
  BY <1>1, <1>2, <1>3, PTL DEF Spec

=============================================================================
