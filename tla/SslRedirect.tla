---------------------------- MODULE SslRedirect ----------------------------
(***************************************************************************)
(* The TLS redirecting proxy of ssl-redirect.c: one CONNECT request, then  *)
(* a tunnel of two loops, main's from the client to the host and           *)
(* HostToCli's back.  Neither loop looks at what read() and write()        *)
(* return, so neither ends; SIGPIPE, which is not ignored, ends both.      *)
(***************************************************************************)
EXTENDS Listener

ASSUME BufferAssumption == NULL \notin Seq({"data"} \X Nat \X (Seq(STRING) \cup {NULL}))

VARIABLES
  csent,        \* pieces the client has sent into the tunnel
  cread, hread, \* pieces read from the client, from the host
  up, down,     \* the buffers of main and HostToCli; NULL while reading
  toHost        \* what the host has been sent

sslVars == <<csent, cread, hread, up, down, toHost>>

Tunnel == Running("ssl-redirect") /\ pc = "tunnel"

-----------------------------------------------------------------------------
(* The request                                                             *)

SslAccept(c) ==
  /\ Accepts(c)
  /\ UNCHANGED <<startVars, proc, name, clientVars, hostVars, sslVars>>

\* parseHost and checkBlocklist.
SslRequest ==
  /\ Arrived /\ request[cur].form = "port"
  /\ name' = request[cur].name
  /\ pc' = IF name' \in Range(blocked) THEN "deny" ELSE "connect"
  /\ UNCHANGED <<startVars, proc, cur, clientVars, hostVars, sslVars>>

\* Without a port the name runs on to the next colon, and resolves to nothing; in
\* a request that is cut, empty or has no Host line, there is nothing to find.
SslUnparsed ==
  /\ (Arrived /\ request[cur].form # "port") \/ Nothing
  /\ Dies("killed")
  /\ UNCHANGED <<cur, name, sslVars>>

\* 403, shutdown, close, return.
SslDeny ==
  /\ pc = "deny"
  /\ Sends(cur, <<Status(403)>>)
  /\ proc' = "exited"
  /\ UNCHANGED <<startVars, pc, cur, name, request, cend, hostVars, sslVars>>

SslConnect ==
  /\ pc = "connect" /\ Connects(name)
  /\ pc' = "reply"
  /\ UNCHANGED <<startVars, proc, cur, name, clientVars, sslVars>>

\* connect_to_server fails, and the assert with it.
SslConnectFails == pc = "connect" /\ Dies("killed") /\ UNCHANGED <<cur, name, sslVars>>

\* 200, then HostToCli is created.
SslReply ==
  /\ pc = "reply"
  /\ Sends(cur, <<Status(200)>>)
  /\ pc' = "tunnel"
  /\ UNCHANGED <<startVars, proc, cur, name, request, cend, hostVars, sslVars>>

-----------------------------------------------------------------------------
(* The tunnel                                                              *)

SslClientSend ==
  /\ Tunnel /\ cend[cur] = "open" /\ csent < MaxChunks
  /\ csent' = csent + 1
  /\ UNCHANGED <<listenVars, cread, hread, up, down, toHost>>

\* A read that has ended fills the buffer with nothing, and is written too.
ReadClient ==
  /\ up = NULL
  /\ \/ \E n \in (cread + 1)..csent : up' = Chunks(NULL, cread + 1, n) /\ cread' = n
     \/ cread = csent /\ cend[cur] # "open" /\ up' = << >> /\ cread' = cread
  /\ UNCHANGED <<listenVars, csent, hread, down, toHost>>

\* A write to a host that has closed is lost, or else raises SIGPIPE.
WriteHost ==
  /\ up # NULL /\ up' = NULL
  /\ toHost' = IF hend = "open" THEN toHost \o up ELSE toHost
  /\ UNCHANGED <<listenVars, csent, cread, hread, down>>

\* Mutant of ReadHost: the loop ends as soon as the client sends no more.
ReadHostWhileOpen ==
  /\ down = NULL /\ cend[cur] = "open"
  /\ \E n \in (hread + 1)..hsent : down' = Chunks(host, hread + 1, n) /\ hread' = n
  /\ UNCHANGED <<listenVars, csent, cread, up, toHost>>

\* Mutant of ReadHost: at the end of the stream the old buffer is written again.
ReadHostStale ==
  /\ down = NULL
  /\ \/ \E n \in (hread + 1)..hsent : down' = Chunks(host, hread + 1, n) /\ hread' = n
     \/ hread = hsent /\ hend # "open" /\ down' = Chunks(host, hread, hread) /\ hread' = hread
  /\ UNCHANGED <<listenVars, csent, cread, up, toHost>>

ReadHost ==
  /\ down = NULL
  /\ \/ \E n \in (hread + 1)..hsent : down' = Chunks(host, hread + 1, n) /\ hread' = n
     \/ hread = hsent /\ hend # "open" /\ down' = << >> /\ hread' = hread
  /\ UNCHANGED <<listenVars, csent, cread, up, toHost>>

WriteClient ==
  /\ down # NULL /\ down' = NULL
  /\ Sends(cur, down)
  /\ UNCHANGED <<startVars, proc, pc, cur, name, request, cend, hostVars,
                 csent, cread, hread, up, toHost>>

SigPipe ==
  /\ Running("ssl-redirect")
  /\ \/ pc = "tunnel" /\ up # NULL /\ hend # "open"
     \/ pc = "tunnel" /\ down # NULL /\ cend[cur] = "gone"
     \/ pc = "reply" /\ cend[cur] = "gone"
  /\ Dies("killed")
  /\ UNCHANGED <<cur, name, sslVars>>

CliToHost == Tunnel /\ (ReadClient \/ WriteHost)
HostToCli == Tunnel /\ (ReadHost \/ WriteClient)

SslMain ==
  /\ Running("ssl-redirect")
  /\ \/ (\E c \in Clients : SslAccept(c)) \/ SslRequest \/ SslUnparsed
     \/ SslDeny \/ SslConnect \/ SslConnectFails \/ SslReply

SslInit ==
  /\ csent = 0 /\ cread = 0 /\ hread = 0
  /\ up = NULL /\ down = NULL /\ toHost = << >>
SslNext == SslMain \/ SslClientSend \/ CliToHost \/ HostToCli \/ SigPipe
SslFairness ==
  LET v == <<listenVars, sslVars>>
  IN  WF_v(SslMain) /\ WF_v(CliToHost) /\ WF_v(HostToCli)

-----------------------------------------------------------------------------
(* Properties                                                              *)

\* The client's stream is the verdict on its request followed by what the host it
\* asked for has sent, in order and once, and the host's is what the client has sent: the
\* 200 of main and the data of HostToCli, written by two threads, never mix.
StreamsFaithful ==
  prog = "ssl-redirect" =>
    /\ IsPrefix(toHost, Chunks(NULL, 1, csent))
    /\ got[1] # << >> =>
         IF request[1].name \in Range(blocked) THEN got[1] = <<Status(403)>>
         ELSE IsPrefix(got[1], <<Status(200)>> \o Chunks(request[1].name, 1, hsent))

\* What a host sends arrives, also when the client has closed its sending side;
\* only a client that has left, or a SIGPIPE raised because the client's side
\* still had something to write to a host that has closed, prevents it.
HalfCloseDelivers ==
  \A n \in 1..MaxChunks :
    (Tunnel /\ hsent = n) ~>
      \/ Chunk(host, n) \in Range(got[1])
      \/ cend[1] = "gone"
      \/ hend # "open" /\ (csent > 0 \/ cend[1] = "fin")

=============================================================================
