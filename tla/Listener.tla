------------------------------ MODULE Listener ------------------------------
(***************************************************************************)
(* What redirect.c, ssl-redirect.c and old_server.c have in common: the    *)
(* block list is loaded, then one client after the other is accepted on    *)
(* port 1358 and its request is taken from a single read(), which waits    *)
(* for as long as the client neither sends one nor ends.  As all three     *)
(* bind that port, one of them runs at a time: prog says which.            *)
(*                                                                         *)
(* A name is a sequence of characters, as the programs compare prefixes    *)
(* and cut characters off; everything else on the wire is a token.         *)
(***************************************************************************)
EXTENDS Integers, Sequences, FiniteSets, SequencesExt

CONSTANTS
  Files,        \* the block lists explored; NULL: blocked_list.txt is missing
  Hosts,        \* the names that resolve
  Requests,     \* what a client's first segment may hold
  MaxClients,   \* bound: connections made
  MaxChunks,    \* bound: pieces of data sent on one connection
  NULL

Clients == 1..MaxClients

\* A line of the block list, with or without the newline that ends it.
Lines == [text : Seq(STRING), nl : BOOLEAN]

ASSUME BoundsAssumption == MaxClients \in Nat \ {0} /\ MaxChunks \in Nat \ {0}
ASSUME NamesAssumption ==
  /\ Hosts \subseteq Seq(STRING) /\ Files \ {NULL} \subseteq Seq(Lines)
  /\ Requests \subseteq [form : {"port", "bare", "cut", "none"}, name : Seq(STRING)]
  /\ NULL \notin Requests \cup Seq(STRING)

VARIABLES
  prog,         \* the program that runs
  file,         \* blocked_list.txt: lines, all but the last of which end in a newline
  blocked,      \* the names loaded from it
  proc,         \* "running", "exited", "killed" (assert, signal), "starved" (no descriptor)
  pc,           \* main's program counter
  cur,          \* the client accepted last
  name,         \* the host name parsed from its request
  request,      \* per client: its request, NULL before it has sent it
  got,          \* per client: what it has been sent
  cend,         \* per client: "away", "open", "fin" (sends no more), "gone"
  contacted,    \* the hosts connected to so far
  host,         \* the last of them, NULL before the first
  hsent, hend   \* pieces it has sent; "open", "closed", "reset"

startVars  == <<prog, file, blocked>>
clientVars == <<request, got, cend>>
hostVars   == <<contacted, host, hsent, hend>>
listenVars == <<startVars, proc, pc, cur, name, clientVars, hostVars>>

Running(p) == prog = p /\ proc = "running"

\* A piece of data comes from a host or, if h = NULL, from the client.
Status(code)    == <<"status", code, NULL>>
Chunk(h, n)     == <<"data", n, h>>
Chunks(h, m, n) == [i \in 1..(n - m + 1) |-> Chunk(h, m + i - 1)]

-----------------------------------------------------------------------------
(* The block list                                                          *)

\* Mutant of Cut: the line is taken to end in "\r\n".
CutCrLf(line) == IF line.text = << >> THEN << >> ELSE Front(line.text)

\* block_line[strlen(block_line)-1] = '\0': the newline, or a last letter.
Cut(line) == IF line.nl THEN line.text ELSE Front(line.text)

Load ==
  /\ proc = "running" /\ pc = "load"
  /\ IF file = NULL
     THEN proc' = "killed" /\ UNCHANGED <<pc, blocked>>
     ELSE /\ blocked' = [i \in DOMAIN file |-> Cut(file[i])]
          /\ pc' = "accept" /\ UNCHANGED proc
  /\ UNCHANGED <<prog, file, cur, name, clientVars, hostVars>>

-----------------------------------------------------------------------------
(* Clients and hosts                                                       *)

\* A request is a name and the form of its Host line: "port" (name:port),
\* "bare" (no port), "cut" (the segment ends within it) or "none".
Asks(form, who) == [form |-> form, name |-> who]

\* Whether a client comes before or after accept() is called makes no difference
\* to the program, nor whether it sends its request before or after it is accepted,
\* nor what it does once it is closed.
ClientConnect(c) ==
  /\ pc = "accept" /\ c = cur + 1 /\ cend[c] = "away"
  /\ cend' = [cend EXCEPT ![c] = "open"]
  /\ UNCHANGED <<startVars, proc, pc, cur, name, request, got, hostVars>>

ClientRequest(c, r) ==
  /\ pc = "read" /\ c = cur /\ request[c] = NULL /\ cend[c] = "open"
  /\ request' = [request EXCEPT ![c] = r]
  /\ UNCHANGED <<startVars, proc, pc, cur, name, got, cend, hostVars>>

ClientEnds(c, how) ==
  /\ pc # "accept" /\ c = cur /\ cend[c] # "gone" /\ cend[c] # how
  /\ cend' = [cend EXCEPT ![c] = how]
  /\ UNCHANGED <<startVars, proc, pc, cur, name, request, got, hostVars>>

HostSend ==
  /\ hend = "open" /\ hsent < MaxChunks
  /\ hsent' = hsent + 1
  /\ UNCHANGED <<startVars, proc, pc, cur, name, clientVars, contacted, host, hend>>

HostEnds(how) ==
  /\ hend = "open"
  /\ hend' = how
  /\ UNCHANGED <<startVars, proc, pc, cur, name, clientVars, contacted, host, hsent>>

World ==
  /\ proc = "running"
  /\ \/ \E c \in Clients : \/ ClientConnect(c)
                           \/ \E r \in Requests : ClientRequest(c, r)
                           \/ \E how \in {"fin", "gone"} : ClientEnds(c, how)
     \/ HostSend
     \/ \E how \in {"closed", "reset"} : HostEnds(how)

-----------------------------------------------------------------------------
(* Steps the programs share                                                *)

\* accept() returns the next client.
Accepts(c) == pc = "accept" /\ c = cur + 1 /\ cend[c] # "away" /\ cur' = c /\ pc' = "read"

\* read() returns the request; or 0, since the client sends nothing any more; or
\* -1, since it has reset the connection.
Arrived == pc = "read" /\ request[cur] # NULL
Nothing == pc = "read" /\ (cend[cur] = "gone" \/ (cend[cur] = "fin" /\ request[cur] = NULL))

Dies(how) == proc' = how /\ UNCHANGED <<startVars, pc, clientVars, hostVars>>

\* connect() succeeds.
Connects(h) ==
  /\ h \in Hosts
  /\ contacted' = contacted \cup {h} /\ host' = h
  /\ hsent' = 0 /\ hend' = "open"

\* What is written to a client that has gone is lost.
Sends(c, tokens) ==
  got' = IF cend[c] = "gone" THEN got ELSE [got EXCEPT ![c] = @ \o tokens]

ListenInit ==
  /\ prog \in {"redirect", "ssl-redirect", "old_server"}
  /\ file \in (IF prog = "old_server" THEN {<< >>} ELSE Files)
  /\ pc = (IF prog = "old_server" THEN "accept" ELSE "load")
  /\ blocked = << >> /\ proc = "running" /\ cur = 0 /\ name = << >>
  /\ request = [c \in Clients |-> NULL]
  /\ got = [c \in Clients |-> << >>] /\ cend = [c \in Clients |-> "away"]
  /\ contacted = {} /\ host = NULL /\ hsent = 0 /\ hend = "closed"

=============================================================================
