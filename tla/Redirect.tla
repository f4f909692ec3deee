------------------------------ MODULE Redirect ------------------------------
(***************************************************************************)
(* The redirecting proxy of redirect.c: a client that asks for a listed    *)
(* host is sent a redirection and the page of a refuge host, and the next  *)
(* client is accepted; the first client that asks for another host makes   *)
(* the program fetch a fixed page from it, answer 200 and return (the loop *)
(* behind that return is never reached).                                   *)
(*                                                                         *)
(* The socket of every refused request stays open.  gethostbyname() is     *)
(* external: it needs a descriptor for itself while it looks a name up.    *)
(***************************************************************************)
EXTENDS Listener

CONSTANTS
  Refuge,       \* cs241.cs.illinois.edu
  MaxFd         \* bound: descriptors besides the standard streams and the listening socket

ASSUME RefugeAssumption == Refuge \in Hosts
ASSUME MaxFdAssumption  == MaxFd \in Nat \ (0..2)

VARIABLES
  fds,          \* the number of descriptors open
  size          \* sendReq's result: how much of the page has been received

redirectVars == <<fds, size>>

-----------------------------------------------------------------------------
(* parseReq                                                                *)

\* The names the loop over hostBegin may end with: a request that is cut off
\* gives the part of the name that has arrived.
Parsed(r) ==
  CASE r.form \in {"port", "bare"} -> {r.name}
    [] r.form = "cut"              -> {SubSeq(r.name, 1, n) : n \in 0..Len(r.name)}
    [] r.form = "none"             -> {}

\* strncmp(block_arr[i], hostname, strlen(block_arr[i])) == 0 for some i.
Blocks(h) == \E i \in DOMAIN blocked : IsPrefix(blocked[i], h)
Refused == Blocks(name)

RAccept(c) ==
  /\ Accepts(c)
  /\ fds' = fds + 1
  /\ UNCHANGED <<startVars, proc, name, clientVars, hostVars, size>>

\* parseReq up to its verdict on h.
Judges(h) ==
  /\ name' = h /\ pc' = IF Blocks(h) THEN "refuge" ELSE "target"
  /\ UNCHANGED <<startVars, proc, cur, clientVars, hostVars, redirectVars>>

RRequest == Arrived /\ \E h \in Parsed(request[cur]) : Judges(h)

\* strstr() finds no Host line, and hostBegin points nowhere; or the loop runs
\* over the end of the request and of the stack.
RUnparsed ==
  /\ (Arrived /\ request[cur].form \in {"none", "cut"}) \/ Nothing
  /\ Dies("killed")
  /\ UNCHANGED <<cur, name, redirectVars>>

\* read() fails, which is not looked at: the buffer, a local of the loop, still
\* holds the request that was sent to the refuge for the client before.
RStale == pc = "read" /\ cend[cur] = "gone" /\ cur > 1 /\ Judges(Refuge)

\* Mutant of Target: the page is asked of the refused host itself.
TargetAsked == name

\* The host that parseReq is asked to connect to, first or the second time.
Target == IF pc = "refuge" THEN Refuge ELSE name
Connecting == pc = "target" \/ (pc = "refuge" /\ ~Blocks(Refuge))

RConnect ==
  /\ Connecting /\ fds + 2 <= MaxFd
  /\ Connects(Target)
  /\ fds' = fds + 1
  /\ pc' = "send"
  /\ UNCHANGED <<startVars, proc, cur, name, clientVars, size>>

\* gethostbyname() gives NULL, which is dereferenced; or connect() fails, and
\* writing to the unconnected socket raises SIGPIPE.
RConnectFails == Connecting /\ Dies("killed") /\ UNCHANGED <<cur, name, redirectVars>>

\* No descriptor is left for the socket, or none for gethostbyname(), which
\* gives NULL.  accept() gets there later: it needs only one.
RStarves ==
  /\ Connecting /\ fds + 2 > MaxFd
  /\ Dies("starved")
  /\ UNCHANGED <<cur, name, redirectVars>>

\* parseReq refuses the refuge as well: sendReq's write(-1, ...) gives -1, which
\* is added to sent, and the loop goes on.
RSpins ==
  /\ pc = "refuge" /\ Blocks(Refuge)
  /\ pc' = "spin"
  /\ UNCHANGED <<startVars, proc, cur, name, clientVars, hostVars, redirectVars>>

-----------------------------------------------------------------------------
(* sendReq and the answers                                                 *)

RSend ==
  /\ pc = "send" /\ hend # "reset"
  /\ pc' = "fetch"
  /\ UNCHANGED <<startVars, proc, cur, name, clientVars, hostVars, redirectVars>>

RReceived(n) ==
  /\ pc = "fetch"
  /\ size' = n
  /\ pc' = "answer"
  /\ UNCHANGED <<startVars, proc, cur, name, clientVars, hostVars, fds>>

\* Mutants of RFetch: a page of which nothing has arrived gets the size -1; the
\* request for an empty page is sent again.
RFetchNegative ==
  \/ hend = "closed" /\ RReceived(hsent)
  \/ hend = "reset" /\ RReceived(hsent - 1)
RFetchAgain ==
  \/ hend = "closed" /\ hsent > 0 /\ RReceived(hsent)
  \/ hend = "reset" /\ hsent > 0 /\ RReceived(hsent - 1)
  \/ /\ hend = "closed" /\ hsent = 0 /\ pc = "fetch" /\ pc' = "send"
     /\ UNCHANGED <<startVars, proc, cur, name, clientVars, hostVars, redirectVars>>

\* read() is called until it returns 0; a -1 before that makes the result one
\* shorter than what has been received.
RFetch ==
  \/ hend = "closed" /\ RReceived(hsent)
  \/ hend = "reset" /\ hsent > 0 /\ RReceived(hsent - 1)

\* SIGPIPE from a host that has reset the connection, or a result of size -1.
RHostResets ==
  /\ hend = "reset" /\ (pc = "send" \/ (pc = "fetch" /\ hsent = 0))
  /\ Dies("killed")
  /\ UNCHANGED <<cur, name, redirectVars>>

\* Mutant of RRefuse: the client is not closed.
RRefuseOpen ==
  /\ pc = "answer" /\ Refused
  /\ Sends(cur, <<Status(301)>> \o Chunks(host, 1, size))
  /\ pc' = "accept"
  /\ UNCHANGED <<startVars, proc, cur, name, request, cend, hostVars, redirectVars>>

\* 301 and the page; the client is closed, target_fd is not.
RRefuse ==
  /\ pc = "answer" /\ Refused
  /\ Sends(cur, <<Status(301)>> \o Chunks(host, 1, size))
  /\ fds' = fds - 1
  /\ pc' = "accept"
  /\ UNCHANGED <<startVars, proc, cur, name, request, cend, hostVars, size>>

\* Whatever the page, the client is told of a connection, and main returns.
RAllow ==
  /\ pc = "answer" /\ ~Refused
  /\ Sends(cur, <<Status(200)>>)
  /\ proc' = "exited"
  /\ UNCHANGED <<startVars, pc, cur, name, request, cend, hostVars, redirectVars>>

\* SIGPIPE from a client that has gone.
RClientGone ==
  /\ pc = "answer" /\ cend[cur] = "gone"
  /\ Dies("killed")
  /\ UNCHANGED <<cur, name, redirectVars>>

RInit == fds = 0 /\ size = 0
RNext ==
  /\ Running("redirect")
  /\ \/ (\E c \in Clients : RAccept(c)) \/ RRequest \/ RUnparsed \/ RStale
     \/ RConnect \/ RConnectFails \/ RStarves \/ RSpins
     \/ RSend \/ RFetch \/ RHostResets \/ RRefuse \/ RAllow \/ RClientGone
RFairness == WF_<<listenVars, redirectVars>>(RNext)

-----------------------------------------------------------------------------
(* Properties                                                              *)

\* A client whose request arrives whole is sent away if a line of the block list,
\* as it stands in the file, begins the name it asks for; it is sent away only then,
\* or if the last line has no newline and begins it without its last letter.  It is
\* sent the redirection first and behind it nothing but the refuge's page; any other
\* client is told of a connection and nothing else.
BeginsWith(texts, who) == \E text \in texts : IsPrefix(text, who)
Written == {file[i].text : i \in DOMAIN file}
Clipped == {Front(file[i].text) : i \in {j \in DOMAIN file : ~file[j].nl}}
VerdictFits ==
  prog = "redirect" =>
    \A c \in Clients : got[c] # << >> /\ request[c].form \in {"port", "bare"} =>
      \/ /\ BeginsWith(Written \cup Clipped, request[c].name)
         /\ got[c][1] = Status(301) /\ IsPrefix(Tail(got[c]), Chunks(Refuge, 1, MaxChunks))
      \/ ~BeginsWith(Written, request[c].name) /\ got[c] = <<Status(200)>>

\* The descriptors run out only when all but two of them have been left open by
\* earlier clients that were refused: each costs one, and no more.
StarvedByRefusals == proc = "starved" => cur - 1 >= MaxFd - 2

\* The program comes back to accept() again and again, unless a client that has
\* been accepted neither sends its request nor ends, or a host neither sends the end
\* of its page nor closes, or the refuge is itself on the list.
ComesBack ==
  \/ prog # "redirect"
  \/ []<>(pc = "accept" \/ proc # "running" \/ Blocks(Refuge))
  \/ <>[](pc = "read" /\ request[cur] = NULL /\ cend[cur] = "open")
  \/ <>[](hend = "open")

=============================================================================
