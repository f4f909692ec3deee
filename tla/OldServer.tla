----------------------------- MODULE OldServer -----------------------------
(***************************************************************************)
(* The openssl bridge of old_server.c: the first line of one client's      *)
(* request goes to the standard input of an openssl s_client process, and  *)
(* what that prints between the headers of a 200 answer and its report on  *)
(* a session ticket goes back to the client.                               *)
(*                                                                         *)
(* openssl and the host behind it are external.  makeReq keeps both ends   *)
(* of both pipes open: its read() never sees the end of openssl's output,  *)
(* and openssl never sees the end of its input.                            *)
(***************************************************************************)
EXTENDS Listener

CONSTANTS
  PipeCap,      \* bound: tokens the pipe from openssl holds
  MaxTickets    \* bound: session tickets a host sends

ASSUME PipeAssumption == PipeCap \in Nat \ {0} /\ MaxTickets \in Nat

VARIABLES
  openssl,      \* "none", "handshake", "up", "ended"
  tickets,      \* the number of tickets it has reported
  said,         \* the answer of the host so far
  out,          \* its output, not yet read; beyond PipeCap: what it is blocked on writing
  told,         \* the request line has reached it
  buf           \* makeReq's buffer up to numRead; at last the page to write back

oldVars == <<openssl, tickets, said, out, told, buf>>

Verified(code) == <<"verify", code, NULL>>   \* "Verify return code: code"
Blank  == <<"blank", 0, NULL>>               \* the end of the headers
Ticket == <<"ticket", 0, NULL>>              \* "Post-Handshake New Session Ticket"

-----------------------------------------------------------------------------
(* openssl s_client and the host                                           *)

Prints(token) ==
  /\ Running("old_server") /\ Len(out) <= PipeCap
  /\ out' = Append(out, token)
  /\ UNCHANGED <<listenVars, told, buf>>

OVerify(code) ==
  /\ openssl = "handshake" /\ openssl' = "up"
  /\ Prints(Verified(code))
  /\ UNCHANGED <<tickets, said>>

OTicket ==
  /\ openssl = "up" /\ tickets < MaxTickets
  /\ tickets' = tickets + 1
  /\ Prints(Ticket)
  /\ UNCHANGED <<openssl, said>>

\* A status, the end of the headers, and the pieces of the body.
Following ==
  CASE Len(said) = 0 -> {Status(200), Status(404)}
    [] Len(said) = 1 -> {Blank}
    [] OTHER         -> {Chunk(name, n) : n \in {Len(said) - 1} \cap 1..MaxChunks}

OAnswer(token) ==
  /\ openssl = "up" /\ told
  /\ said' = Append(said, token)
  /\ Prints(token)
  /\ UNCHANGED <<openssl, tickets>>

\* The host closes, does not exist, or is not trusted.
OEnds ==
  /\ Running("old_server") /\ openssl \in {"handshake", "up"} /\ Len(out) <= PipeCap
  /\ openssl' = "ended"
  /\ UNCHANGED <<listenVars, tickets, said, out, told, buf>>

-----------------------------------------------------------------------------
(* main and makeReq                                                        *)

OAccept(c) ==
  /\ Accepts(c)
  /\ UNCHANGED <<startVars, proc, name, clientVars, hostVars, oldVars>>

\* The child of a request with no whole Host line fails before it runs openssl.
ORead ==
  /\ \/ /\ Arrived /\ request[cur].form \in {"port", "bare"}
        /\ openssl' = "handshake" /\ name' = request[cur].name
     \/ /\ (Arrived /\ request[cur].form \in {"none", "cut"}) \/ Nothing
        /\ openssl' = "ended" /\ UNCHANGED name
  /\ pc' = "verify"
  /\ UNCHANGED <<startVars, proc, cur, clientVars, hostVars, tickets, said, out, told, buf>>

\* The buffer after a read() of k tokens, and where the loop goes then.
With(k) == buf \o SubSeq(out, 1, k)
OReads(from, to, k, found) ==
  /\ pc = from /\ k <= Len(out)
  /\ buf' = With(k)
  /\ out' = SubSeq(out, k + 1, Len(out))
  /\ pc' = IF found THEN to ELSE from
  /\ UNCHANGED <<startVars, proc, cur, name, clientVars, hostVars, openssl, tickets, said, told>>

OReadVerify(k) == OReads("verify", "send", k, Verified(0) \in Range(With(k)))

\* The first line of the request; what was read along with the verdict is dropped.
OSend ==
  /\ pc = "send"
  /\ told' = (openssl = "up") /\ buf' = << >>
  /\ pc' = "response"
  /\ UNCHANGED <<startVars, proc, cur, name, clientVars, hostVars, openssl, tickets, said, out>>

\* The output from the first "200 OK" on, and its part before the next ticket.
FromOK(b) == LET at == SelectInSeq(b, LAMBDA t : t = Status(200))
             IN  IF at = 0 THEN << >> ELSE SubSeq(b, at, Len(b))
Complete(b) == Ticket \in Range(FromOK(b))
Response(b) == SubSeq(FromOK(b), 1, SelectInSeq(FromOK(b), LAMBDA t : t = Ticket) - 1)

\* Mutant of OReadResponse: only what was read last is searched.
OReadResponseLast(k) == OReads("response", "extract", k, Complete(SubSeq(out, 1, k)))

OReadResponse(k) == OReads("response", "extract", k, Complete(With(k)))

\* Mutant of OExtract: the page is taken to start at the status line.
OExtractAll ==
  /\ pc = "extract"
  /\ buf' = Response(buf) /\ pc' = "wait"
  /\ UNCHANGED <<startVars, proc, cur, name, clientVars, hostVars, openssl, tickets, said, out, told>>

\* The page starts behind the headers; if a ticket was reported before they had
\* ended, its length comes out negative, and memcpy() fails.
OExtract ==
  /\ pc = "extract"
  /\ IF Blank \in Range(Response(buf))
     THEN LET at == SelectInSeq(Response(buf), LAMBDA t : t = Blank)
          IN  buf' = SubSeq(Response(buf), at + 1, Len(Response(buf))) /\ pc' = "wait" /\ UNCHANGED proc
     ELSE proc' = "killed" /\ UNCHANGED <<pc, buf>>
  /\ UNCHANGED <<startVars, cur, name, clientVars, hostVars, openssl, tickets, said, out, told>>

\* waitpid()
OWait ==
  /\ pc = "wait" /\ openssl = "ended"
  /\ pc' = "write"
  /\ UNCHANGED <<startVars, proc, cur, name, clientVars, hostVars, oldVars>>

OWrite ==
  /\ pc = "write"
  /\ Sends(cur, buf)
  /\ proc' = "exited"
  /\ UNCHANGED <<startVars, pc, cur, name, request, cend, hostVars, oldVars>>

OInit ==
  /\ openssl = "none" /\ tickets = 0 /\ said = << >>
  /\ out = << >> /\ told = FALSE /\ buf = << >>
OMain ==
  /\ Running("old_server")
  /\ \/ (\E c \in Clients : OAccept(c)) \/ ORead
     \/ \E k \in 1..PipeCap : OReadVerify(k) \/ OReadResponse(k)
     \/ OSend \/ OExtract \/ OWait \/ OWrite
ONext == OMain \/ OTicket \/ OEnds \/ (\E code \in 0..1 : OVerify(code))
               \/ (\E token \in Following : OAnswer(token))
OFairness == WF_<<listenVars, oldVars>>(OMain)

\* Nobody will write to the pipe again, or openssl writes and nobody reads.
Hangs ==
  /\ Running("old_server")
  /\ \/ pc \in {"verify", "response"} /\ out = << >> /\ openssl = "ended"
     \/ pc = "wait" /\ Len(out) > PipeCap

-----------------------------------------------------------------------------
(* Properties                                                              *)

\* The client is sent the body of a 200 answer of the host it asked for, from its
\* beginning, and nothing else of what openssl prints, however reads, headers and tickets fall together.
BodyOnly ==
  prog = "old_server" /\ got[1] # << >> =>
    said[1] = Status(200) /\ IsPrefix(got[1], Chunks(request[1].name, 1, Len(said) - 2))

\* Once openssl has printed an answer and a ticket behind it, and has ended, the
\* program ends too: neither read() nor waitpid() keeps it.
AnswerEnds ==
  (Running("old_server") /\ pc = "response" /\ openssl = "ended" /\ Complete(buf \o out))
    ~> proc # "running"

=============================================================================
