----------------------------- MODULE Prototypes -----------------------------
(***************************************************************************)
(* The three prototype servers on one port: whichever of them runs, with   *)
(* the block list, the clients and the hosts they share.                   *)
(***************************************************************************)
EXTENDS SslRedirect, Redirect, OldServer

vars == <<listenVars, sslVars, redirectVars, oldVars>>

Init == ListenInit /\ SslInit /\ RInit /\ OInit

\* The process is over, or waits for ever, or no client is left to accept.
Rests ==
  /\ proc # "running" \/ pc = "spin" \/ Hangs \/ (pc = "accept" /\ cur = MaxClients)
  /\ UNCHANGED vars

Next ==
  \/ (Load \/ World) /\ UNCHANGED <<sslVars, redirectVars, oldVars>>
  \/ SslNext /\ UNCHANGED <<redirectVars, oldVars>>
  \/ RNext   /\ UNCHANGED <<sslVars, oldVars>>
  \/ ONext   /\ UNCHANGED <<sslVars, redirectVars>>
  \/ Rests

Spec == Init /\ [][Next]_vars

\* The threads of the program are scheduled; clients, hosts and openssl may stop.
FairSpec == Spec /\ WF_listenVars(Load) /\ SslFairness /\ RFairness /\ OFairness

-----------------------------------------------------------------------------
(* Properties                                                              *)

Tokens == {"status", "data", "verify", "blank", "ticket"} \X Nat \X (Seq(STRING) \cup {NULL})

\* Every variable holds a value of its type; a size is never negative, and a
\* descriptor is never closed twice.
TypeOK ==
  /\ proc \in {"running", "exited", "killed", "starved"}
  /\ pc \in {"load", "accept", "read", "deny", "connect", "reply", "tunnel",
             "refuge", "target", "send", "fetch", "answer", "spin",
             "verify", "response", "extract", "wait", "write"}
  /\ cur \in 0..MaxClients
  /\ request \in [Clients -> Requests \cup {NULL}]
  /\ got \in [Clients -> Seq(Tokens)]
  /\ cend \in [Clients -> {"away", "open", "fin", "gone"}]
  /\ contacted \subseteq Hosts /\ host \in Hosts \cup {NULL}
  /\ hsent \in 0..MaxChunks /\ hend \in {"open", "closed", "reset"}
  /\ csent \in 0..MaxChunks /\ cread \in 0..csent /\ hread \in 0..MaxChunks
  /\ up \in Seq(Tokens) \cup {NULL} /\ down \in Seq(Tokens) \cup {NULL}
  /\ toHost \in Seq(Tokens)
  /\ fds \in 0..MaxFd /\ size \in 0..MaxChunks
  /\ openssl \in {"none", "handshake", "up", "ended"}
  /\ tickets \in 0..MaxTickets /\ told \in BOOLEAN
  /\ said \in Seq(Tokens) /\ out \in Seq(Tokens) /\ buf \in Seq(Tokens)

\* No host on the list is connected to.  ssl-redirect.c looks for the whole name,
\* and a last line without a newline has lost its last letter; redirect.c
\* looks for names that begin with an entry, so there such a line still counts.
ListedNeverContacted ==
  \A h \in contacted, i \in DOMAIN blocked :
    IF prog = "redirect" THEN ~IsPrefix(file[i].text, h)
    ELSE file[i].nl => file[i].text # h

=============================================================================
