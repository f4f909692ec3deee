-------------------------- MODULE PrototypesProofs --------------------------
(***************************************************************************)
(* Proofs about the three prototype servers, for every block list, any     *)
(* number of clients, hosts, requests, descriptors and pieces of data.     *)
(***************************************************************************)
EXTENDS Prototypes, SequenceTheorems, WellFoundedInduction, TLAPS

-----------------------------------------------------------------------------
(* The invariant                                                           *)

\* Where main can be in each of the programs.
PCs ==
  /\ prog \in {"redirect", "ssl-redirect", "old_server"}
  /\ prog = "redirect" =>
       pc \in {"load", "accept", "read", "refuge", "target", "send", "fetch", "answer", "spin"}
  /\ prog = "ssl-redirect" => pc \in {"load", "accept", "read", "deny", "connect", "reply", "tunnel"}
  /\ prog = "old_server" =>
       pc \in {"accept", "read", "verify", "send", "response", "extract", "wait", "write"}

\* The list is loaded before anybody is accepted, line by line.
Loaded ==
  /\ file = NULL \/ file \in Seq(Lines)
  /\ pc = "load" => cur = 0 /\ blocked = << >> /\ contacted = {}
  /\ pc # "load" => file \in Seq(Lines) /\ blocked = [i \in DOMAIN file |-> Cut(file[i])]

\* Past accept() there is a client.
Serving == name \in Seq(STRING) /\ (pc \notin {"load", "accept"} => cur \in Clients)

\* The sockets redirect.c has open: one per client it has refused, and those of
\* the client at hand.
Descriptors ==
  prog = "redirect" /\ proc = "running" =>
    /\ pc \in {"load", "accept"} => fds = cur /\ fds <= MaxFd - 2
    /\ pc \in {"read", "refuge", "target", "spin"} => fds = cur /\ fds <= MaxFd - 1
    /\ pc \in {"send", "fetch", "answer"} => fds = cur + 1 /\ fds <= MaxFd - 1

TypeInv == TypeOK /\ PCs /\ Loaded /\ Serving /\ Descriptors

\* Nobody connects to a name before it has been looked up.
Unlisted(h) == IF prog = "redirect" THEN ~Blocks(h) ELSE h \notin Range(blocked)
ListedInv ==
  /\ pc \in {"connect", "target"} => Unlisted(name)
  /\ \A h \in contacted : Unlisted(h)
  /\ prog = "old_server" => contacted = {}

\* redirect.c answers clients in turn, on the name each has asked for; only of one
\* that has gone may it judge another name, that of the request left in the buffer.
RedirectInv ==
  prog = "redirect" =>
    /\ \A c \in Clients : c > cur => got[c] = << >>
    /\ proc = "running" /\ pc # "accept" => \A c \in Clients : c = cur => got[c] = << >>
    /\ pc \notin {"load", "accept", "read"} /\ cend[cur] # "gone" /\ request[cur].form \in {"port", "bare"} =>
         name = request[cur].name
    /\ pc = "target" => ~Refused
    /\ pc \in {"send", "fetch", "answer"} /\ Refused => host = Refuge
    /\ VerdictFits

\* ssl-redirect.c serves one client.  What has been delivered, what a loop holds
\* and what it has yet to read are what was sent, unless the receiver has left.
UpInv ==
  /\ toHost = Chunks(NULL, 1, Len(toHost)) /\ Len(toHost) <= cread
  /\ hend = "open" => IF up = NULL THEN Len(toHost) = cread ELSE up = Chunks(NULL, Len(toHost) + 1, cread)
DownInv ==
  /\ hread <= hsent
  /\ got[1] # << >> => got[1] = <<Status(200)>> \o Chunks(host, 1, Len(got[1]) - 1) /\ Len(got[1]) <= hread + 1
  /\ cend[1] # "gone" =>
       /\ got[1] # << >>
       /\ IF down = NULL THEN Len(got[1]) = hread + 1 ELSE down = Chunks(host, Len(got[1]), hread)
TunnelInv ==
  prog = "ssl-redirect" =>
    /\ proc = "running" /\ pc = "accept" => cur = 0
    /\ pc \notin {"load", "accept"} => cur = 1
    /\ pc \notin {"load", "accept", "read"} => name = request[1].name
    /\ pc \in {"reply", "tunnel"} => host = name
    /\ pc = "deny" => /\ name \in Range(blocked)
                      /\ got[1] = << >> \/ (got[1] = <<Status(403)>> /\ proc = "exited")
    /\ pc \in {"connect", "reply", "tunnel"} => name \notin Range(blocked)
    /\ pc \notin {"deny", "tunnel"} => got[1] = << >>
    /\ pc # "tunnel" => /\ csent = 0 /\ cread = 0 /\ hread = 0
                        /\ up = NULL /\ down = NULL /\ toHost = << >>
    /\ pc = "tunnel" => UpInv /\ DownInv

\* What the host h of old_server.c says: a status, a blank line, then the body.
IsAnswer(s, h) ==
  \A j \in 1..Len(s) : /\ j = 1 => s[j] \in {Status(200), Status(404)}
                       /\ j = 2 => s[j] = Blank
                       /\ j > 2 => s[j] = Chunk(h, j - 2)

\* In openssl's output q the answer s begins at p and is printed without a gap
\* for m tokens: to its end so far, or until a ticket is reported.
ShowsAt(q, s, p, m) ==
  /\ \A i \in 1..(p - 1) : q[i] # Status(200)
  /\ p + m - 1 <= Len(q)
  /\ \A j \in 1..m : q[p + j - 1] = s[j]
  /\ IF p + m - 1 = Len(q) THEN m = Len(s) ELSE q[p + m] = Ticket
NoOK(q) == \A i \in 1..Len(q) : q[i] # Status(200)
Shows(q, s) ==
  /\ s = << >> \/ s[1] # Status(200) => NoOK(q)
  /\ s # << >> => \E p \in 1..Len(q), m \in 1..Len(s) : ShowsAt(q, s, p, m)

\* A page that has been cut out is the beginning of a body.
IsPage(page, s, h) ==
  page # << >> =>
    s # << >> /\ s[1] = Status(200) /\ Len(page) <= Len(s) - 2 /\ page = Chunks(h, 1, Len(page))

BridgeInv ==
  prog = "old_server" =>
    /\ IsAnswer(said, name)
    /\ openssl \in {"none", "handshake"} => said = << >>
    /\ openssl \in {"handshake", "up"} \/ said # << >> => name = request[1].name
    /\ pc \in {"accept", "read"} => openssl = "none"
    /\ proc = "running" /\ pc = "accept" => cur = 0
    /\ pc # "accept" => cur = 1
    /\ pc \in {"accept", "read", "verify", "send"} => said = << >> /\ told = FALSE /\ NoOK(out)
    /\ pc \in {"response", "extract"} => Shows(buf \o out, said)
    /\ pc = "extract" => Complete(buf)
    /\ pc \in {"wait", "write"} => IsPage(buf, said, name)
    /\ proc = "running" => got[1] = << >>
    /\ IsPage(got[1], said, name)

-----------------------------------------------------------------------------
(* Sequences of pieces, and prefixes                                       *)

Origins == Seq(STRING) \cup {NULL}
Pieces  == {"data"} \X Nat \X Origins

\* What Chunks returns.
LEMMA ChunksAre ==
  ASSUME NEW h \in Origins, NEW m \in Nat \ {0}, NEW n \in Nat, m <= n + 1
  PROVE  /\ Chunks(h, m, n) \in Seq(Pieces) /\ Len(Chunks(h, m, n)) = n - m + 1
         /\ \A i \in 1..(n - m + 1) : Chunks(h, m, n)[i] = Chunk(h, m + i - 1)
<1>1. \A i \in 1..(n - m + 1) : Chunk(h, m + i - 1) \in Pieces
  BY DEF Chunk, Pieces
<1>2. n - m + 1 \in Nat
  OBVIOUS
<1>3. Chunks(h, m, n) \in [1..(n - m + 1) -> Pieces]
  BY <1>1 DEF Chunks
<1>4. Chunks(h, m, n) \in Seq(Pieces)
  BY <1>2, <1>3
<1> QED
  BY <1>2, <1>3, <1>4 DEF Chunks

\* The pieces from the first on.
LEMMA FirstChunks ==
  ASSUME NEW h \in Origins, NEW n \in Nat
  PROVE  Chunks(h, 1, n) \in Seq(Pieces) /\ Len(Chunks(h, 1, n)) = n /\ \A i \in 1..n : Chunks(h, 1, n)[i] = Chunk(h, i)
<1>1. Chunks(h, 1, n) = [i \in 1..n |-> Chunk(h, i)]
  BY DEF Chunks
<1>2. \A i \in 1..n : Chunk(h, i) \in Pieces
  BY DEF Chunk, Pieces
<1>3. Chunks(h, 1, n) \in [1..n -> Pieces]
  BY <1>1, <1>2
<1>4. Chunks(h, 1, n) \in Seq(Pieces)
  BY <1>3
<1> QED
  BY <1>1, <1>3, <1>4

\* Data are tokens, and no data are NULL.
LEMMA PiecesAre ==
  /\ Seq(Pieces) \subseteq Seq(Tokens)
  /\ \A q \in Seq(Pieces) : q # NULL
<1>1. Pieces \subseteq Tokens
  BY DEF Pieces, Tokens, Origins
<1> QED
  BY <1>1, BufferAssumption, SeqMonotonic DEF Pieces, Origins

\* Pieces that follow each other join.
LEMMA ChunksJoin ==
  ASSUME NEW h \in Origins, NEW k \in Nat, NEW n \in Nat, k <= n
  PROVE  Chunks(h, 1, k) \o Chunks(h, k + 1, n) = Chunks(h, 1, n)
<1> DEFINE a == Chunks(h, 1, k)
           b == Chunks(h, k + 1, n)
           c == Chunks(h, 1, n)
<1>1. a \in Seq(Pieces) /\ Len(a) = k /\ \A i \in 1..k : a[i] = Chunk(h, i)
  BY FirstChunks
<1>2. b \in Seq(Pieces) /\ Len(b) = n - k /\ \A i \in 1..(n - k) : b[i] = Chunk(h, k + i)
  <2>1. /\ b \in Seq(Pieces) /\ Len(b) = n - (k + 1) + 1
        /\ \A i \in 1..(n - (k + 1) + 1) : b[i] = Chunk(h, (k + 1) + i - 1)
    <3>1. k + 1 \in Nat \ {0} /\ k + 1 <= n + 1
      OBVIOUS
    <3> QED
      BY <3>1, ChunksAre
  <2>2. n - (k + 1) + 1 = n - k /\ \A i \in Int : (k + 1) + i - 1 = k + i
    OBVIOUS
  <2> QED
    BY <2>1, <2>2
<1>3. c \in Seq(Pieces) /\ Len(c) = n /\ \A i \in 1..n : c[i] = Chunk(h, i)
  BY FirstChunks
<1> HIDE DEF a, b, c
<1>4. /\ a \o b \in Seq(Pieces) /\ Len(a \o b) = n
      /\ \A i \in 1..n : (a \o b)[i] = IF i <= k THEN a[i] ELSE b[i - k]
  <2>1. /\ a \o b \in Seq(Pieces) /\ Len(a \o b) = Len(a) + Len(b)
        /\ \A i \in 1..(Len(a) + Len(b)) : (a \o b)[i] = IF i <= Len(a) THEN a[i] ELSE b[i - Len(a)]
    BY <1>1, <1>2, ConcatProperties
  <2>2. Len(a) = k /\ Len(a) + Len(b) = n
    BY <1>1, <1>2
  <2> QED
    BY <2>1, <2>2
<1>5. \A i \in 1..n : (a \o b)[i] = c[i]
  <2> SUFFICES ASSUME NEW i \in 1..n PROVE (a \o b)[i] = c[i]
    OBVIOUS
  <2>1. CASE i <= k
    BY <1>1, <1>3, <1>4, <2>1
  <2>2. CASE ~(i <= k)
    <3>1. i - k \in 1..(n - k) /\ k + (i - k) = i
      BY <2>2
    <3>2. b[i - k] = Chunk(h, k + (i - k))
      BY <1>2, <3>1
    <3> QED
      BY <1>3, <1>4, <2>2, <3>1, <3>2
  <2> QED
    BY <2>1, <2>2
<1>6. a \o b = c
  BY <1>3, <1>4, <1>5, SeqEqual
<1> QED
  BY <1>6 DEF a, b, c

\* A prefix, element by element.
LEMMA PrefixElements ==
  ASSUME NEW S, NEW s \in Seq(S), NEW t \in Seq(S)
  PROVE  IsPrefix(s, t) <=> Len(s) <= Len(t) /\ \A i \in 1..Len(s) : s[i] = t[i]
<1>1. Len(s) \in Nat /\ Len(t) \in Nat /\ (\A i \in 1..Len(s) : s[i] \in S) /\ \A i \in 1..Len(t) : t[i] \in S
  BY LenProperties, ElementOfSeq
<1>2. SubSeq(s, 1, Len(s)) = s
  BY SubSeqFull
<1>3. CASE Len(s) <= Len(t)
  <2>1. /\ SubSeq(t, 1, Len(s)) \in Seq(S) /\ Len(SubSeq(t, 1, Len(s))) = Len(s)
        /\ \A i \in 1..Len(s) : SubSeq(t, 1, Len(s))[i] = t[i]
    BY <1>1, <1>3, SubSeqProperties
  <2>2. s = SubSeq(t, 1, Len(s)) <=> \A i \in 1..Len(s) : s[i] = t[i]
    BY <2>1, SeqEqual
  <2> QED
    BY <1>2, <1>3, <2>2 DEF IsPrefix
<1> QED
  BY <1>3 DEF IsPrefix

\* Fewer pieces are a prefix of more, also behind a status.
LEMMA ChunksPrefix ==
  ASSUME NEW h \in Origins, NEW k \in Nat, NEW n \in Nat, k <= n, NEW x \in Tokens
  PROVE  /\ IsPrefix(Chunks(h, 1, k), Chunks(h, 1, n))
         /\ IsPrefix(<<x>> \o Chunks(h, 1, k), <<x>> \o Chunks(h, 1, n))
<1> DEFINE a == Chunks(h, 1, k)
           b == Chunks(h, 1, n)
<1>1. /\ a \in Seq(Pieces) /\ Len(a) = k /\ \A i \in 1..k : a[i] = Chunk(h, i)
      /\ b \in Seq(Pieces) /\ Len(b) = n /\ \A i \in 1..n : b[i] = Chunk(h, i)
  <2>1. a \in Seq(Pieces) /\ Len(a) = k /\ \A i \in 1..k : a[i] = Chunk(h, i)
    BY FirstChunks
  <2>2. b \in Seq(Pieces) /\ Len(b) = n /\ \A i \in 1..n : b[i] = Chunk(h, i)
    BY FirstChunks
  <2> QED
    BY <2>1, <2>2
<1>2. a \in Seq(Tokens) /\ b \in Seq(Tokens) /\ <<x>> \in Seq(Tokens)
  BY <1>1, PiecesAre
<1> HIDE DEF a, b
<1>3. \A i \in 1..k : a[i] = b[i]
  BY <1>1
<1>4. IsPrefix(a, b)
  BY <1>1, <1>2, <1>3, PrefixElements
<1>5. /\ <<x>> \o a \in Seq(Tokens) /\ Len(<<x>> \o a) = 1 + k
      /\ \A i \in 1..(1 + k) : (<<x>> \o a)[i] = IF i <= 1 THEN <<x>>[i] ELSE a[i - 1]
  BY <1>1, <1>2, ConcatProperties
<1>6. /\ <<x>> \o b \in Seq(Tokens) /\ Len(<<x>> \o b) = 1 + n
      /\ \A i \in 1..(1 + n) : (<<x>> \o b)[i] = IF i <= 1 THEN <<x>>[i] ELSE b[i - 1]
  BY <1>1, <1>2, ConcatProperties
<1>7. \A i \in 1..(1 + k) : (<<x>> \o a)[i] = (<<x>> \o b)[i]
  <2> SUFFICES ASSUME NEW i \in 1..(1 + k) PROVE (<<x>> \o a)[i] = (<<x>> \o b)[i]
    OBVIOUS
  <2>1. ~(i <= 1) => a[i - 1] = b[i - 1]
    BY <1>3
  <2> QED
    BY <1>5, <1>6, <2>1
<1>8. IsPrefix(<<x>> \o a, <<x>> \o b)
  <2> DEFINE xa == <<x>> \o a
             xb == <<x>> \o b
  <2>1. /\ xa \in Seq(Tokens) /\ xb \in Seq(Tokens) /\ Len(xa) = 1 + k /\ Len(xb) = 1 + n
        /\ \A i \in 1..(1 + k) : xa[i] = xb[i]
    BY <1>5, <1>6, <1>7
  <2> HIDE DEF xa, xb
  <2>2. IsPrefix(xa, xb)
    BY <2>1, PrefixElements
  <2> QED
    BY <2>2 DEF xa, xb
<1> QED
  BY <1>4, <1>8 DEF a, b

\* What is loaded from a line is a prefix of it.
LEMMA CutIs ==
  ASSUME NEW line \in Lines
  PROVE  /\ Cut(line) \in Seq(STRING)
         /\ line.nl => Cut(line) = line.text
         /\ \A h \in Seq(STRING) : IsPrefix(line.text, h) => IsPrefix(Cut(line), h)
<1> DEFINE t == line.text
<1>1. t \in Seq(STRING) /\ line.nl \in BOOLEAN /\ Len(t) \in Nat
  BY LenProperties DEF Lines
<1>2. CASE line.nl
  BY <1>1, <1>2 DEF Cut
<1>3. CASE ~line.nl
  <2>1. Cut(line) = SubSeq(t, 1, Len(t) - 1)
    BY <1>3 DEF Cut, Front
  <2> DEFINE u == SubSeq(t, 1, Len(t) - 1)
  <2>2. CASE Len(t) = 0
    <3>1. u = << >>
      BY <2>2, SubSeqEmpty
    <3>2. \A h \in Seq(STRING) : IsPrefix(<< >>, h)
      <4> SUFFICES ASSUME NEW h \in Seq(STRING) PROVE IsPrefix(<< >>, h)
        OBVIOUS
      <4>1. << >> \in Seq(STRING) /\ Len(<< >>) = 0 /\ Len(h) \in Nat
        BY EmptySeq, LenProperties
      <4>2. SubSeq(<< >>, 1, 0) = << >> /\ SubSeq(h, 1, 0) = << >>
        BY SubSeqEmpty
      <4> QED
        BY <4>1, <4>2 DEF IsPrefix
    <3>3. Cut(line) = << >> /\ << >> \in Seq(STRING)
      BY <2>1, <3>1, EmptySeq
    <3> HIDE DEF t, u
    <3> QED
      BY <1>3, <3>2, <3>3
  <2>3. CASE Len(t) # 0
    <3>1. u \in Seq(STRING) /\ Len(u) = Len(t) - 1 /\ \A i \in 1..(Len(t) - 1) : u[i] = t[i]
      <4>1. \A i \in 1..(Len(t) - 1) : t[i] \in STRING
        BY <1>1, ElementOfSeq
      <4> QED
        BY <1>1, <2>3, <4>1, SubSeqProperties
    <3> HIDE DEF u
    <3>2. ASSUME NEW h \in Seq(STRING), IsPrefix(t, h) PROVE IsPrefix(u, h)
      <4>1. Len(t) <= Len(h) /\ \A i \in 1..Len(t) : t[i] = h[i]
        <5> HIDE DEF t
        <5> QED
          BY <1>1, <3>2, PrefixElements
      <4>2. Len(u) <= Len(h) /\ \A i \in 1..Len(u) : u[i] = h[i]
        <5> HIDE DEF t
        <5>1. Len(t) \in Nat /\ Len(h) \in Nat
          BY <1>1, LenProperties
        <5>2. Len(u) <= Len(h)
          BY <3>1, <4>1, <5>1
        <5>3. ASSUME NEW i \in 1..Len(u) PROVE u[i] = h[i]
          <6>1. i \in 1..(Len(t) - 1) /\ i \in 1..Len(t)
            BY <3>1, <5>1
          <6> QED
            BY <3>1, <4>1, <6>1, Zenon
        <5> QED
          BY <5>2, <5>3
      <4> QED
        BY <3>1, <4>2, PrefixElements
    <3> QED
      BY <1>3, <2>1, <3>1, <3>2 DEF u
  <2> QED
    BY <2>2, <2>3
<1> QED
  BY <1>1, <1>2, <1>3

\* A non-empty set of numbers has a least one.
LEMMA LeastExists ==
  ASSUME NEW T, T \subseteq Nat, T # {}
  PROVE  \E x \in T : \A y \in T : x <= y
<1>1. \E x \in T : \A y \in T : ~(<<y, x>> \in OpToRel(<, Nat))
  BY NatLessThanWellFounded, WFMin
<1>2. PICK x \in T : \A y \in T : ~(<<y, x>> \in OpToRel(<, Nat))
  BY <1>1
<1>3. \A y \in T : ~(y < x)
  BY <1>2 DEF OpToRel
<1> QED
  BY <1>3

\* Where SelectInSeq finds a token, as strstr() does: the first place that holds it.
First(q, x) == SelectInSeq(q, LAMBDA t : t = x)
LEMMA FirstAt ==
  ASSUME NEW S, NEW q \in Seq(S), NEW x
  PROVE  /\ x \in Range(q) => /\ First(q, x) \in 1..Len(q) /\ q[First(q, x)] = x
                              /\ \A i \in 1..(First(q, x) - 1) : q[i] # x
         /\ x \notin Range(q) => First(q, x) = 0
<1> DEFINE I == {i \in 1..Len(q) : q[i] = x}
<1>1. First(q, x) = IF I # {} THEN Min(I) ELSE 0
  BY DEF First, SelectInSeq
<1>2. Len(q) \in Nat /\ DOMAIN q = 1..Len(q)
  BY LenProperties
<1>3. x \in Range(q) <=> I # {}
  BY <1>2 DEF Range
<1>4. ASSUME I # {} PROVE Min(I) \in I /\ \A y \in I : Min(I) <= y
  <2>1. I \subseteq Nat
    BY <1>2
  <2> HIDE DEF I
  <2>2. \E z \in I : \A y \in I : z <= y
    BY <1>4, <2>1, LeastExists
  <2> QED
    BY <2>2 DEF Min
<1>5. ASSUME x \in Range(q)
      PROVE  /\ First(q, x) \in 1..Len(q) /\ q[First(q, x)] = x
             /\ \A i \in 1..(First(q, x) - 1) : q[i] # x
  <2>1. First(q, x) \in I /\ \A y \in I : First(q, x) <= y
    BY <1>1, <1>3, <1>4, <1>5
  <2>2. First(q, x) \in 1..Len(q) /\ q[First(q, x)] = x
    BY <2>1
  <2>3. ASSUME NEW i \in 1..(First(q, x) - 1), q[i] = x PROVE FALSE
    <3>1. i \in 1..Len(q) /\ i < First(q, x)
      BY <1>2, <2>2
    <3>2. i \in I
      BY <2>3, <3>1
    <3> QED
      BY <1>2, <2>1, <2>2, <3>1, <3>2
  <2> QED
    BY <2>2, <2>3
<1>6. ASSUME x \notin Range(q) PROVE First(q, x) = 0
  BY <1>1, <1>3, <1>6
<1> QED
  BY <1>5, <1>6

\* A part of a sequence, and its elements.
LEMMA PartIs ==
  ASSUME NEW S, NEW q \in Seq(S), NEW m \in Nat \ {0}, NEW n \in Int, n <= Len(q)
  PROVE  /\ SubSeq(q, m, n) \in Seq(S)
         /\ Len(SubSeq(q, m, n)) = IF m <= n THEN n - m + 1 ELSE 0
         /\ \A i \in 1..(n - m + 1) : SubSeq(q, m, n)[i] = q[m + i - 1]
<1>1. Len(q) \in Nat /\ \A i \in 1..Len(q) : q[i] \in S
  BY LenProperties, ElementOfSeq
<1>2. CASE m <= n
  <2>1. \A i \in m..n : q[i] \in S
    BY <1>1
  <2> QED
    BY <1>1, <1>2, <2>1, SubSeqProperties
<1>3. CASE ~(m <= n)
  <2>1. SubSeq(q, m, n) = << >>
    BY <1>3, SubSeqEmpty
  <2>2. 1..(n - m + 1) = {}
    BY <1>3
  <2> QED
    BY <1>3, <2>1, <2>2, EmptySeq
<1> QED
  BY <1>2, <1>3

\* What is cut out of the buffer is a part of it.
LEMMA ResponseType ==
  ASSUME NEW b \in Seq(Tokens)
  PROVE  FromOK(b) \in Seq(Tokens) /\ Response(b) \in Seq(Tokens)
<1>1. FromOK(b) \in Seq(Tokens)
  <2>1. FromOK(b) = IF First(b, Status(200)) = 0 THEN << >> ELSE SubSeq(b, First(b, Status(200)), Len(b))
    BY DEF FromOK, First
  <2>2. First(b, Status(200)) \in 0..Len(b) /\ Len(b) \in Nat
    BY FirstAt, LenProperties
  <2> DEFINE p == First(b, Status(200))
  <2> HIDE DEF p
  <2>3. p # 0 => SubSeq(b, p, Len(b)) \in Seq(Tokens)
    BY <2>2, PartIs DEF p
  <2> QED
    BY <2>1, <2>3, EmptySeq DEF p
<1>2. Response(b) \in Seq(Tokens)
  <2> DEFINE f == FromOK(b)
             at == First(f, Ticket)
  <2>1. Response(b) = SubSeq(f, 1, at - 1)
    BY DEF Response, First
  <2>2. f \in Seq(Tokens) /\ Len(f) \in Nat
    BY <1>1, LenProperties
  <2>3. at \in 0..Len(f)
    <3> HIDE DEF f
    <3> QED
      BY <2>2, FirstAt
  <2> HIDE DEF f, at
  <2>4. at - 1 \in Int /\ at - 1 <= Len(f)
    BY <2>2, <2>3
  <2>5. SubSeq(f, 1, at - 1) \in Seq(Tokens)
    BY <2>2, <2>4, PartIs
  <2> QED
    BY <2>1, <2>5
<1> QED
  BY <1>1, <1>2

-----------------------------------------------------------------------------
(* Type correctness                                                        *)

\* Each program takes its own steps, and only while it runs.
LEMMA OwnSteps ==
  /\ SslNext => prog = "ssl-redirect" /\ proc = "running" /\ prog' = prog
  /\ RNext   => prog = "redirect" /\ proc = "running" /\ prog' = prog
  /\ ONext   => prog = "old_server" /\ proc = "running" /\ prog' = prog
<1> USE DEF startVars, listenVars
<1>1. ASSUME SslNext PROVE prog = "ssl-redirect" /\ proc = "running" /\ prog' = prog
  <2>1. prog = "ssl-redirect" /\ proc = "running"
    BY <1>1 DEF SslNext, SslMain, SslClientSend, CliToHost, HostToCli, SigPipe, Tunnel, Running
  <2>2. prog' = prog
    BY <1>1 DEF SslNext, SslMain, SslAccept, SslRequest, SslUnparsed, SslDeny, SslConnect, SslConnectFails, SslReply,
                SslClientSend, CliToHost, ReadClient, WriteHost, HostToCli, ReadHost, WriteClient, SigPipe,
                Dies
  <2> QED
    BY <2>1, <2>2
<1>2. ASSUME RNext PROVE prog = "redirect" /\ proc = "running" /\ prog' = prog
  <2>1. prog = "redirect" /\ proc = "running"
    BY <1>2 DEF RNext, Running
  <2>2. prog' = prog
    BY <1>2 DEF RNext, RAccept, RRequest, Judges, RUnparsed, RStale, RConnect, RConnectFails, RStarves,
                RSpins, RSend, RFetch, RReceived, RHostResets, RRefuse, RAllow, RClientGone, Dies
  <2> QED
    BY <2>1, <2>2
<1>3. ASSUME ONext PROVE prog = "old_server" /\ proc = "running" /\ prog' = prog
  <2>1. prog = "old_server" /\ proc = "running"
    BY <1>3 DEF ONext, OMain, OVerify, OTicket, OAnswer, OEnds, Prints, Running
  <2>2. prog' = prog
    BY <1>3 DEF ONext, OMain, OAccept, ORead, OReadVerify, OReadResponse, OReads, OSend, OExtract, OWait,
                OWrite, OTicket, OEnds, OVerify, OAnswer, Prints
  <2> QED
    BY <2>1, <2>2
<1> QED
  BY <1>1, <1>2, <1>3

\* What is sent to a client leaves sequences of tokens.
LEMMA SendsType ==
  ASSUME TypeOK, NEW c \in Clients, NEW q \in Seq(Tokens), Sends(c, q)
  PROVE  got' \in [Clients -> Seq(Tokens)]
<1>1. got[c] \in Seq(Tokens) /\ got[c] \o q \in Seq(Tokens)
  BY ConcatProperties DEF TypeOK
<1> QED
  BY <1>1 DEF TypeOK, Sends

\* The initial state is well typed.
LEMMA InitTypeInv == Init => TypeInv
<1> SUFFICES ASSUME Init PROVE TypeInv
  OBVIOUS
<1>1. << >> \in Seq(Tokens) /\ << >> \in Seq(STRING) /\ << >> \in Seq(Lines)
  BY EmptySeq
<1>2. TypeOK
  <2>1. /\ 0 \in 0..MaxClients /\ 0 \in 0..MaxChunks /\ 0 \in 0..0
        /\ 0 \in 0..MaxFd /\ 0 \in 0..MaxTickets
    BY BoundsAssumption, MaxFdAssumption, PipeAssumption
  <2>2. /\ [c \in Clients |-> NULL] \in [Clients -> Requests \cup {NULL}]
        /\ [c \in Clients |-> << >>] \in [Clients -> Seq(Tokens)]
        /\ [c \in Clients |-> "away"] \in [Clients -> {"away", "open", "fin", "gone"}]
    BY <1>1
  <2>3. /\ proc \in {"running", "exited", "killed", "starved"} /\ pc \in {"load", "accept"}
        /\ cur = 0 /\ hsent = 0 /\ hend = "closed" /\ contacted = {} /\ host = NULL
        /\ request = [c \in Clients |-> NULL] /\ got = [c \in Clients |-> << >>]
        /\ cend = [c \in Clients |-> "away"]
    BY DEF Init, ListenInit
  <2>4. /\ csent = 0 /\ cread = 0 /\ hread = 0 /\ up = NULL /\ down = NULL /\ toHost = << >>
        /\ fds = 0 /\ size = 0
        /\ openssl = "none" /\ tickets = 0 /\ said = << >> /\ out = << >> /\ told = FALSE /\ buf = << >>
    BY DEF Init, SslInit, RInit, OInit
  <2> QED
    BY <1>1, <2>1, <2>2, <2>3, <2>4 DEF TypeOK
<1>3. PCs /\ Serving /\ Descriptors
  BY <1>1, MaxFdAssumption DEF Init, ListenInit, RInit, PCs, Serving, Descriptors
<1>4. Loaded
  <2>1. prog = "old_server" => blocked = [i \in DOMAIN file |-> Cut(file[i])]
    <3>1. << >> = [i \in DOMAIN << >> |-> Cut(<< >>[i])]
      OBVIOUS
    <3> QED
      BY <3>1 DEF Init, ListenInit
  <2> QED
    BY <1>1, <2>1, NamesAssumption DEF Init, ListenInit, Loaded
<1> QED
  BY <1>2, <1>3, <1>4 DEF TypeInv

\* Every step keeps the state well typed, main where its program can be, the
\* list as loaded, and the descriptors counted.
LEMMA NextTypeInv ==
  ASSUME TypeInv, [Next]_vars
  PROVE  TypeInv'
<1> USE DEF startVars, clientVars, hostVars, listenVars, sslVars, redirectVars, oldVars
<1>inv. TypeOK /\ PCs /\ Loaded /\ Serving /\ Descriptors
  BY DEF TypeInv
<1>bnd. /\ MaxClients \in Nat /\ MaxChunks \in Nat /\ MaxFd \in Nat /\ MaxFd > 2
        /\ PipeCap \in Nat /\ MaxTickets \in Nat
  BY BoundsAssumption, MaxFdAssumption, PipeAssumption
<1>tok. /\ \A code \in Nat : Status(code) \in Tokens /\ Verified(code) \in Tokens
        /\ Blank \in Tokens /\ Ticket \in Tokens /\ \A h \in Origins, n \in Nat : Chunk(h, n) \in Tokens
  BY DEF Status, Verified, Blank, Ticket, Chunk, Tokens, Origins
<1>emp. << >> \in Seq(Tokens)
  BY EmptySeq
<1>host. host \in Origins /\ name \in Origins /\ name \in Seq(STRING)
  BY <1>inv, NamesAssumption DEF TypeOK, Serving, Origins
\* The process ends.
<1>dies. ASSUME proc' \in {"exited", "killed", "starved"},
                UNCHANGED <<startVars, pc, name, request, cend, hostVars, sslVars, redirectVars, oldVars>>,
                cur' = cur, got' \in [Clients -> Seq(Tokens)]
         PROVE  TypeInv'
  <2>1. TypeOK'
    BY <1>inv, <1>dies DEF TypeOK
  <2>2. PCs' /\ Loaded' /\ Serving' /\ Descriptors'
    BY <1>inv, <1>dies DEF PCs, Loaded, Serving, Descriptors
  <2> QED
    BY <2>1, <2>2 DEF TypeInv
\* Main goes on, or something happens outside of it.
<1>goto. ASSUME UNCHANGED <<startVars, proc, cur, fds>>, name' \in Seq(STRING),
                pc' = pc \/ (pc \notin {"load", "accept"} /\ pc' \notin {"load", "accept"}),
                pc # "load" \/ UNCHANGED contacted,
                PCs', Descriptors', TypeOK'
         PROVE  TypeInv'
  <2>1. Loaded'
    BY <1>inv, <1>goto DEF Loaded
  <2>2. Serving'
    BY <1>inv, <1>goto DEF Serving
  <2> QED
    BY <1>goto, <2>1, <2>2 DEF TypeInv
<1>load. ASSUME Load, UNCHANGED <<sslVars, redirectVars, oldVars>> PROVE TypeInv'
  <2>1. CASE file = NULL
    BY <1>inv, <1>load, <1>dies, <2>1 DEF Load, TypeOK
  <2>2. CASE file # NULL
    <3>1. /\ pc = "load" /\ blocked' = [i \in DOMAIN file |-> Cut(file[i])] /\ pc' = "accept"
          /\ UNCHANGED <<prog, file, proc, cur, name, clientVars, hostVars>>
      BY <1>load, <2>2 DEF Load
    <3>2. TypeOK' /\ PCs' /\ Serving'
      BY <1>inv, <1>load, <3>1 DEF TypeOK, PCs, Serving
    <3>3. Loaded' /\ Descriptors'
      BY <1>inv, <1>load, <2>2, <3>1 DEF Loaded, Descriptors
    <3> QED
      BY <3>2, <3>3 DEF TypeInv
  <2> QED
    BY <2>1, <2>2
<1>world. ASSUME World, UNCHANGED <<sslVars, redirectVars, oldVars>> PROVE TypeInv'
  <2>1. ASSUME NEW c \in Clients, NEW r \in Requests, ClientRequest(c, r) PROVE TypeInv'
    <3>1. request' = [request EXCEPT ![c] = r] /\ UNCHANGED <<startVars, proc, pc, cur, name, got, cend, hostVars>>
      BY <2>1 DEF ClientRequest
    <3>2. TypeOK'
      BY <1>inv, <1>world, <3>1 DEF TypeOK
    <3>3. PCs' /\ Loaded' /\ Serving' /\ Descriptors'
      BY <1>inv, <1>world, <3>1 DEF PCs, Loaded, Serving, Descriptors
    <3> QED
      BY <3>2, <3>3 DEF TypeInv
  <2>2. ASSUME NEW c \in Clients, ClientConnect(c) \/ \E how \in {"fin", "gone"} : ClientEnds(c, how)
        PROVE  TypeInv'
    <3>1. PICK how \in {"open", "fin", "gone"} :
            cend' = [cend EXCEPT ![c] = how] /\ UNCHANGED <<startVars, proc, pc, cur, name, request, got, hostVars>>
      BY <2>2 DEF ClientConnect, ClientEnds
    <3>2. TypeOK'
      BY <1>inv, <1>world, <3>1 DEF TypeOK
    <3>3. PCs' /\ Loaded' /\ Serving' /\ Descriptors'
      BY <1>inv, <1>world, <3>1 DEF PCs, Loaded, Serving, Descriptors
    <3> QED
      BY <3>2, <3>3 DEF TypeInv
  <2>3. ASSUME HostSend \/ \E how \in {"closed", "reset"} : HostEnds(how) PROVE TypeInv'
    <3>1. TypeOK'
      BY <1>inv, <1>bnd, <1>world, <2>3 DEF HostSend, HostEnds, TypeOK
    <3>2. PCs' /\ Descriptors'
      BY <1>inv, <1>world, <2>3 DEF HostSend, HostEnds, PCs, Descriptors
    <3>3. Loaded' /\ Serving'
      BY <1>inv, <1>world, <2>3 DEF HostSend, HostEnds, Loaded, Serving
    <3> QED
      BY <3>1, <3>2, <3>3 DEF TypeInv
  <2> QED
    BY <1>world, <2>1, <2>2, <2>3 DEF World
\* accept(): the next client is at hand.
<1>accept. ASSUME NEW c \in Clients, Accepts(c), proc = "running",
                  UNCHANGED <<startVars, proc, name, clientVars, hostVars, sslVars, size, oldVars>>,
                  IF prog = "redirect" THEN fds' = fds + 1 ELSE fds' = fds
           PROVE  TypeInv'
  <2>1. pc = "accept" /\ pc' = "read" /\ cur' = c /\ c = cur + 1
    BY <1>accept DEF Accepts
  <2>2. PCs' /\ Loaded' /\ Serving'
    BY <1>inv, <1>accept, <2>1 DEF PCs, Loaded, Serving
  <2>3. prog = "redirect" => fds = cur /\ fds <= MaxFd - 2 /\ fds \in Nat /\ cur \in Nat
    BY <1>inv, <1>accept, <2>1 DEF Descriptors, TypeOK
  <2>4. Descriptors'
    BY <1>bnd, <1>accept, <2>1, <2>3 DEF Descriptors
  <2>5. fds' \in 0..MaxFd /\ cur' \in 0..MaxClients
    <3>1. fds \in 0..MaxFd /\ c \in 1..MaxClients
      BY <1>inv DEF TypeOK, Clients
    <3> QED
      BY <1>bnd, <1>accept, <2>1, <2>3, <3>1
  <2>6. TypeOK'
    BY <1>inv, <1>accept, <2>1, <2>5 DEF TypeOK
  <2> QED
    BY <2>2, <2>4, <2>6 DEF TypeInv
<1>names. \A r \in Requests : r.name \in Seq(STRING) /\ r.form \in {"port", "bare", "cut", "none"}
  BY NamesAssumption
<1>ssl. ASSUME SslNext, UNCHANGED <<redirectVars, oldVars>> PROVE TypeInv'
  <2>prog. prog = "ssl-redirect" /\ proc = "running"
    BY <1>ssl, OwnSteps
  <2>d. ASSUME prog' = prog PROVE Descriptors'
    BY <2>prog, <2>d DEF Descriptors
  <2>0. ASSUME NEW c \in Clients, SslAccept(c) PROVE TypeInv'
    BY <1>ssl, <1>accept, <2>0, <2>prog DEF SslAccept
  <2>1. ASSUME SslRequest PROVE TypeInv'
    <3>1. pc = "read" /\ cur \in Clients /\ request[cur] \in Requests
      BY <1>inv, <2>1 DEF SslRequest, Arrived, Serving, TypeOK
    <3>2. pc' \in {"deny", "connect"} /\ name' \in Seq(STRING)
      BY <1>names, <2>1, <3>1 DEF SslRequest
    <3>3. TypeOK'
      BY <1>inv, <1>ssl, <2>1, <3>2 DEF SslRequest, TypeOK
    <3>4. PCs'
      BY <2>1, <2>prog, <3>2 DEF SslRequest, PCs
    <3> QED
      BY <1>host, <1>ssl, <1>goto, <2>1, <2>d, <3>1, <3>2, <3>3, <3>4 DEF SslRequest
  <2>2. ASSUME SslUnparsed PROVE TypeInv'
    BY <1>inv, <1>ssl, <1>dies, <2>2 DEF SslUnparsed, Dies, TypeOK
  <2>3. ASSUME SslDeny PROVE TypeInv'
    <3>1. got' \in [Clients -> Seq(Tokens)]
      <4>1. cur \in Clients /\ <<Status(403)>> \in Seq(Tokens)
        BY <1>inv, <1>tok, <2>3 DEF SslDeny, Serving
      <4> QED
        BY <1>inv, <2>3, <4>1, SendsType DEF SslDeny
    <3> QED
      BY <1>inv, <1>ssl, <1>dies, <2>3, <3>1 DEF SslDeny, TypeOK
  <2>4. ASSUME SslConnect PROVE TypeInv'
    <3>1. TypeOK'
      BY <1>inv, <1>bnd, <1>ssl, <2>4 DEF SslConnect, Connects, TypeOK
    <3>2. PCs'
      BY <2>4, <2>prog DEF SslConnect, PCs
    <3> QED
      BY <1>host, <1>ssl, <1>goto, <2>4, <2>d, <3>1, <3>2 DEF SslConnect
  <2>5. ASSUME SslConnectFails \/ SigPipe PROVE TypeInv'
    BY <1>inv, <1>ssl, <1>dies, <2>5 DEF SslConnectFails, SigPipe, Dies, TypeOK
  <2>6. ASSUME SslReply PROVE TypeInv'
    <3>1. got' \in [Clients -> Seq(Tokens)]
      <4>1. cur \in Clients /\ <<Status(200)>> \in Seq(Tokens)
        BY <1>inv, <1>tok, <2>6 DEF SslReply, Serving
      <4> QED
        BY <1>inv, <2>6, <4>1, SendsType DEF SslReply
    <3>2. TypeOK'
      BY <1>inv, <1>ssl, <2>6, <3>1 DEF SslReply, TypeOK
    <3>3. PCs'
      BY <2>6, <2>prog DEF SslReply, PCs
    <3> QED
      BY <1>host, <1>ssl, <1>goto, <2>6, <2>d, <3>2, <3>3 DEF SslReply
  <2>same. ASSUME UNCHANGED listenVars, TypeOK' PROVE TypeInv'
    <3>1. PCs' /\ Descriptors'
      BY <1>inv, <1>ssl, <2>same DEF PCs, Descriptors
    <3> QED
      BY <1>host, <1>ssl, <1>goto, <2>same, <3>1
  <2>7. ASSUME SslClientSend PROVE TypeInv'
    <3>1. TypeOK'
      BY <1>inv, <1>bnd, <1>ssl, <2>7 DEF SslClientSend, TypeOK
    <3> QED
      BY <2>7, <2>same, <3>1 DEF SslClientSend
  <2>8. ASSUME ReadClient PROVE TypeInv'
    <3>1. up' \in Seq(Tokens) /\ cread' \in 0..csent
      <4>1. ASSUME NEW n \in (cread + 1)..csent, up' = Chunks(NULL, cread + 1, n), cread' = n
            PROVE  up' \in Seq(Tokens) /\ cread' \in 0..csent
        <5>1. cread + 1 \in Nat \ {0} /\ n \in Nat /\ cread + 1 <= n + 1 /\ n \in 0..csent /\ NULL \in Origins
          BY <1>inv, <1>bnd, <4>1 DEF TypeOK, Origins
        <5>2. Chunks(NULL, cread + 1, n) \in Seq(Pieces)
          BY <5>1, ChunksAre
        <5> QED
          BY <4>1, <5>1, <5>2, PiecesAre
      <4>2. ASSUME up' = << >>, cread' = cread PROVE up' \in Seq(Tokens) /\ cread' \in 0..csent
        BY <1>inv, <1>emp, <4>2 DEF TypeOK
      <4> QED
        BY <2>8, <4>1, <4>2 DEF ReadClient
    <3>2. TypeOK'
      BY <1>inv, <1>bnd, <1>ssl, <2>8, <3>1 DEF ReadClient, TypeOK
    <3> QED
      BY <2>8, <2>same, <3>2 DEF ReadClient
  <2>9. ASSUME WriteHost PROVE TypeInv'
    <3>1. toHost' \in Seq(Tokens)
      <4>1. up \in Seq(Tokens) /\ toHost \in Seq(Tokens)
        BY <1>inv, <2>9 DEF WriteHost, TypeOK
      <4>2. toHost \o up \in Seq(Tokens)
        BY <4>1, ConcatProperties
      <4> QED
        BY <2>9, <4>1, <4>2 DEF WriteHost
    <3>2. TypeOK'
      BY <1>inv, <1>ssl, <2>9, <3>1 DEF WriteHost, TypeOK
    <3> QED
      BY <2>9, <2>same, <3>2 DEF WriteHost
  <2>10. ASSUME ReadHost PROVE TypeInv'
    <3>1. down' \in Seq(Tokens) /\ hread' \in 0..MaxChunks
      <4>1. ASSUME NEW n \in (hread + 1)..hsent, down' = Chunks(host, hread + 1, n), hread' = n
            PROVE  down' \in Seq(Tokens) /\ hread' \in 0..MaxChunks
        <5>1. hread + 1 \in Nat \ {0} /\ n \in Nat /\ hread + 1 <= n + 1 /\ n \in 0..MaxChunks
          BY <1>inv, <1>bnd, <4>1 DEF TypeOK
        <5>2. Chunks(host, hread + 1, n) \in Seq(Pieces)
          BY <1>host, <5>1, ChunksAre
        <5> QED
          BY <4>1, <5>1, <5>2, PiecesAre
      <4>2. ASSUME down' = << >>, hread' = hread PROVE down' \in Seq(Tokens) /\ hread' \in 0..MaxChunks
        BY <1>inv, <1>emp, <4>2 DEF TypeOK
      <4> QED
        BY <2>10, <4>1, <4>2 DEF ReadHost
    <3>2. TypeOK'
      BY <1>inv, <1>ssl, <2>10, <3>1 DEF ReadHost, TypeOK
    <3> QED
      BY <2>10, <2>same, <3>2 DEF ReadHost
  <2>11. ASSUME Tunnel, WriteClient PROVE TypeInv'
    <3>1. got' \in [Clients -> Seq(Tokens)]
      <4>1. cur \in Clients /\ down \in Seq(Tokens)
        BY <1>inv, <2>11 DEF Tunnel, WriteClient, Serving, TypeOK
      <4> QED
        BY <1>inv, <2>11, <4>1, SendsType DEF WriteClient
    <3>2. TypeOK'
      BY <1>inv, <1>ssl, <2>11, <3>1 DEF WriteClient, TypeOK
    <3>3. PCs'
      BY <1>inv, <2>11 DEF WriteClient, PCs
    <3> QED
      BY <1>host, <1>ssl, <1>goto, <2>11, <2>d, <3>2, <3>3 DEF WriteClient
  <2> QED
    BY <1>ssl, <2>0, <2>1, <2>2, <2>3, <2>4, <2>5, <2>6, <2>7, <2>8, <2>9, <2>10, <2>11
       DEF SslNext, SslMain, CliToHost, HostToCli
<1>red. ASSUME RNext, UNCHANGED <<sslVars, oldVars>> PROVE TypeInv'
  <2>prog. prog = "redirect" /\ proc = "running"
    BY <1>red, OwnSteps
  <2>0. ASSUME NEW c \in Clients, RAccept(c) PROVE TypeInv'
    BY <1>red, <1>accept, <2>0, <2>prog DEF RAccept
  <2>judges. ASSUME NEW n \in Seq(STRING), pc = "read", Judges(n) PROVE TypeInv'
    <3>1. name' \in Seq(STRING) /\ pc' \in {"refuge", "target"}
      BY <2>judges DEF Judges
    <3>2. TypeOK'
      BY <1>inv, <1>red, <2>judges, <3>1 DEF Judges, TypeOK
    <3>3. PCs' /\ Descriptors'
      BY <1>inv, <2>judges, <2>prog, <3>1 DEF Judges, PCs, Descriptors
    <3> QED
      BY <1>host, <1>red, <1>goto, <2>judges, <3>1, <3>2, <3>3 DEF Judges
  <2>1. ASSUME RRequest PROVE TypeInv'
    <3>1. pc = "read" /\ cur \in Clients /\ request[cur] \in Requests
      BY <1>inv, <2>1 DEF RRequest, Arrived, Serving, TypeOK
    <3>2. PICK n \in Parsed(request[cur]) : Judges(n)
      BY <2>1 DEF RRequest
    <3>3. n \in Seq(STRING)
      <4>1. request[cur].name \in Seq(STRING)
        BY <1>names, <3>1
      <4>2. \A m \in 0..Len(request[cur].name) : SubSeq(request[cur].name, 1, m) \in Seq(STRING)
        <5> DEFINE r == request[cur].name
        <5> HIDE DEF r
        <5> SUFFICES ASSUME NEW m \in 0..Len(r) PROVE SubSeq(r, 1, m) \in Seq(STRING)
          BY DEF r
        <5>1. r \in Seq(STRING) /\ Len(r) \in Nat /\ \A i \in 1..m : r[i] \in STRING
          BY <4>1, LenProperties, ElementOfSeq DEF r
        <5> QED
          BY <5>1, SubSeqProperties
      <4> QED
        BY <1>names, <3>1, <4>1, <4>2 DEF Parsed
    <3> QED
      BY <2>judges, <3>1, <3>2, <3>3
  <2>2. ASSUME RUnparsed PROVE TypeInv'
    BY <1>inv, <1>red, <1>dies, <2>2 DEF RUnparsed, Dies, TypeOK
  <2>stale. ASSUME RStale PROVE TypeInv'
    <3>1. Refuge \in Seq(STRING)
      BY RefugeAssumption, NamesAssumption
    <3> QED
      BY <2>judges, <2>stale, <3>1 DEF RStale
  <2>3. ASSUME RConnect PROVE TypeInv'
    <3>1. pc \in {"refuge", "target"} /\ cur \in Clients /\ pc' = "send"
      BY <1>inv, <2>3 DEF RConnect, Connecting, Serving
    <3>2. fds' = fds + 1 /\ fds = cur /\ fds + 2 <= MaxFd
      BY <1>inv, <2>3, <2>prog, <3>1 DEF RConnect, Descriptors
    <3>3. TypeOK'
      BY <1>inv, <1>bnd, <1>red, <2>3, <3>2 DEF RConnect, Connects, TypeOK
    <3>4. PCs'
      BY <2>3, <2>prog DEF RConnect, PCs
    <3>5. Loaded' /\ Serving'
      BY <1>inv, <2>3, <3>1 DEF RConnect, Loaded, Serving
    <3>6. Descriptors'
      BY <1>inv, <1>bnd, <2>3, <3>1, <3>2 DEF RConnect, Descriptors, TypeOK
    <3> QED
      BY <3>3, <3>4, <3>5, <3>6 DEF TypeInv
  <2>4. ASSUME RConnectFails \/ RStarves \/ RHostResets \/ RClientGone PROVE TypeInv'
    BY <1>inv, <1>red, <1>dies, <2>4 DEF RConnectFails, RStarves, RHostResets, RClientGone, Dies, TypeOK
  <2>5. ASSUME RSpins PROVE TypeInv'
    <3>1. TypeOK'
      BY <1>inv, <1>red, <2>5 DEF RSpins, TypeOK
    <3>2. PCs' /\ Descriptors'
      BY <1>inv, <2>5, <2>prog DEF RSpins, PCs, Descriptors
    <3> QED
      BY <1>host, <1>red, <1>goto, <2>5, <3>1, <3>2 DEF RSpins
  <2>6. ASSUME RSend PROVE TypeInv'
    <3>1. TypeOK'
      BY <1>inv, <1>red, <2>6 DEF RSend, TypeOK
    <3>2. PCs' /\ Descriptors'
      BY <1>inv, <2>6, <2>prog DEF RSend, PCs, Descriptors
    <3> QED
      BY <1>host, <1>red, <1>goto, <2>6, <3>1, <3>2 DEF RSend
  <2>7. ASSUME RFetch PROVE TypeInv'
    <3>1. PICK n \in 0..MaxChunks : RReceived(n)
      BY <1>inv, <1>bnd, <2>7 DEF RFetch, TypeOK
    <3>2. TypeOK'
      BY <1>inv, <1>red, <3>1 DEF RReceived, TypeOK
    <3>3. PCs' /\ Descriptors'
      BY <1>inv, <3>1, <2>prog DEF RReceived, PCs, Descriptors
    <3> QED
      BY <1>host, <1>red, <1>goto, <3>1, <3>2, <3>3 DEF RReceived
  <2>8. ASSUME RRefuse PROVE TypeInv'
    <3>1. cur \in Clients /\ fds = cur + 1 /\ fds <= MaxFd - 1 /\ size \in Nat
      BY <1>inv, <1>bnd, <2>8, <2>prog DEF RRefuse, Serving, Descriptors, TypeOK
    <3>2. got' \in [Clients -> Seq(Tokens)]
      <4>1. Chunks(host, 1, size) \in Seq(Tokens) /\ <<Status(301)>> \in Seq(Tokens)
        BY <1>tok, <1>host, <3>1, FirstChunks, PiecesAre
      <4>2. <<Status(301)>> \o Chunks(host, 1, size) \in Seq(Tokens)
        BY <4>1, ConcatProperties
      <4> QED
        BY <1>inv, <2>8, <3>1, <4>2, SendsType DEF RRefuse
    <3>3. TypeOK'
      BY <1>inv, <1>bnd, <1>red, <2>8, <3>1, <3>2 DEF RRefuse, TypeOK, Clients
    <3>4. PCs' /\ Descriptors'
      BY <1>inv, <1>bnd, <2>8, <2>prog, <3>1 DEF RRefuse, PCs, Descriptors, Clients
    <3>5. Loaded' /\ Serving'
      BY <1>inv, <2>8 DEF RRefuse, Loaded, Serving
    <3> QED
      BY <3>3, <3>4, <3>5 DEF TypeInv
  <2>9. ASSUME RAllow PROVE TypeInv'
    <3>1. got' \in [Clients -> Seq(Tokens)]
      <4>1. cur \in Clients /\ <<Status(200)>> \in Seq(Tokens)
        BY <1>inv, <1>tok, <2>9 DEF RAllow, Serving
      <4> QED
        BY <1>inv, <2>9, <4>1, SendsType DEF RAllow
    <3> QED
      BY <1>inv, <1>red, <1>dies, <2>9, <3>1 DEF RAllow, TypeOK
  <2> QED
    BY <1>red, <2>0, <2>1, <2>2, <2>stale, <2>3, <2>4, <2>5, <2>6, <2>7, <2>8, <2>9 DEF RNext
<1>old. ASSUME ONext, UNCHANGED <<sslVars, redirectVars>> PROVE TypeInv'
  <2>prog. prog = "old_server" /\ proc = "running"
    BY <1>old, OwnSteps
  <2>d. ASSUME prog' = prog PROVE Descriptors'
    BY <2>prog, <2>d DEF Descriptors
  <2>same. ASSUME UNCHANGED listenVars, TypeOK' PROVE TypeInv'
    <3>1. PCs'
      BY <1>inv, <2>same DEF PCs
    <3> QED
      BY <1>host, <1>old, <1>goto, <2>d, <2>same, <3>1
  <2>prints. ASSUME NEW token \in Tokens, Prints(token),
                    openssl' \in {"none", "handshake", "up", "ended"}, tickets' \in 0..MaxTickets,
                    said' \in Seq(Tokens)
             PROVE  TypeInv'
    <3>1. out' \in Seq(Tokens)
      BY <1>inv, <2>prints, AppendProperties DEF Prints, TypeOK
    <3>0. UNCHANGED <<listenVars, told, buf>>
      BY <2>prints DEF Prints
    <3>2. TypeOK'
      BY <1>inv, <1>old, <2>prints, <3>0, <3>1 DEF TypeOK
    <3> QED
      BY <2>prints, <2>same, <3>2 DEF Prints
  <2>1. ASSUME NEW code \in 0..1, OVerify(code) PROVE TypeInv'
    <3>1. Verified(code) \in Tokens
      BY <1>tok
    <3> QED
      BY <1>inv, <2>1, <2>prints, <3>1 DEF OVerify, TypeOK
  <2>2. ASSUME OTicket PROVE TypeInv'
    <3>1. tickets' \in 0..MaxTickets
      BY <1>inv, <1>bnd, <2>2 DEF OTicket, TypeOK
    <3> QED
      BY <1>inv, <1>tok, <2>2, <2>prints, <3>1 DEF OTicket, TypeOK
  <2>3. ASSUME NEW token \in Following, OAnswer(token) PROVE TypeInv'
    <3>1. token \in Tokens
      <4>1. Len(said) \in Nat
        BY <1>inv, LenProperties DEF TypeOK
      <4> QED
        BY <1>tok, <1>bnd, <1>host, <2>3, <4>1 DEF Following
    <3>2. said' \in Seq(Tokens)
      BY <1>inv, <2>3, <3>1, AppendProperties DEF OAnswer, TypeOK
    <3> QED
      BY <1>inv, <2>3, <2>prints, <3>1, <3>2 DEF OAnswer, TypeOK
  <2>4. ASSUME OEnds PROVE TypeInv'
    <3>1. TypeOK'
      BY <1>inv, <1>old, <2>4 DEF OEnds, TypeOK
    <3> QED
      BY <2>4, <2>same, <3>1 DEF OEnds
  <2>5. ASSUME NEW c \in Clients, OAccept(c) PROVE TypeInv'
    BY <1>old, <1>accept, <2>5, <2>prog DEF OAccept
  <2>read. ASSUME ORead PROVE TypeInv'
    <3>1. pc = "read" /\ cur \in Clients /\ pc' = "verify" /\ openssl' \in {"handshake", "ended"}
      BY <1>inv, <2>read DEF ORead, Arrived, Nothing, Serving
    <3>2. name' \in Seq(STRING)
      <4>1. CASE UNCHANGED name
        BY <1>host, <4>1
      <4>2. CASE Arrived /\ name' = request[cur].name
        <5>1. request[cur] \in Requests
          BY <1>inv, <3>1, <4>2 DEF Arrived, TypeOK
        <5> QED
          BY <1>names, <4>2, <5>1
      <4> QED
        BY <2>read, <4>1, <4>2 DEF ORead
    <3>3. TypeOK'
      BY <1>inv, <1>old, <2>read, <3>1 DEF ORead, TypeOK
    <3>4. PCs'
      BY <2>prog, <2>read, <3>1 DEF ORead, PCs
    <3> QED
      BY <1>host, <1>old, <1>goto, <2>d, <2>read, <3>1, <3>2, <3>3, <3>4 DEF ORead
  <2>goto. ASSUME NEW to \in {"verify", "send", "response", "extract", "wait", "write"},
                  pc' = to, pc # "accept",
                  UNCHANGED <<startVars, proc, cur, name, clientVars, hostVars, openssl, tickets, said>>,
                  out' \in Seq(Tokens), buf' \in Seq(Tokens), told' \in BOOLEAN
           PROVE  TypeInv'
    <3>1. pc # "load"
      BY <1>inv, <2>prog DEF PCs
    <3>2. TypeOK'
      BY <1>inv, <1>old, <2>goto DEF TypeOK
    <3>3. PCs'
      BY <2>prog, <2>goto DEF PCs
    <3> QED
      BY <1>host, <1>old, <1>goto, <2>d, <2>goto, <3>1, <3>2, <3>3
  <2>6. ASSUME NEW k \in 1..PipeCap, OReadVerify(k) \/ OReadResponse(k) PROVE TypeInv'
    <3>1. /\ pc \in {"verify", "response"} /\ k <= Len(out)
          /\ pc' \in {"verify", "send", "response", "extract"}
          /\ buf' = buf \o SubSeq(out, 1, k) /\ out' = SubSeq(out, k + 1, Len(out))
          /\ UNCHANGED <<startVars, proc, cur, name, clientVars, hostVars, openssl, tickets, said, told>>
      BY <2>6 DEF OReadVerify, OReadResponse, OReads, With
    <3>2. out \in Seq(Tokens) /\ buf \in Seq(Tokens) /\ Len(out) \in Nat /\ told \in BOOLEAN
      BY <1>inv, LenProperties DEF TypeOK
    <3>3. \A i \in 1..Len(out) : out[i] \in Tokens
      BY <3>2, ElementOfSeq
    <3>4. SubSeq(out, 1, k) \in Seq(Tokens)
      BY <1>bnd, <3>1, <3>2, <3>3, SubSeqProperties
    <3>5. SubSeq(out, k + 1, Len(out)) \in Seq(Tokens)
      BY <1>bnd, <3>1, <3>2, <3>3, SubSeqProperties
    <3>6. buf' \in Seq(Tokens) /\ out' \in Seq(Tokens)
      BY <3>1, <3>2, <3>4, <3>5, ConcatProperties
    <3> QED
      BY <2>goto, <3>1, <3>2, <3>6
  <2>7. ASSUME OSend PROVE TypeInv'
    <3>1. told' \in BOOLEAN /\ out' \in Seq(Tokens) /\ buf' \in Seq(Tokens)
      BY <1>inv, <1>emp, <2>7 DEF OSend, TypeOK
    <3> QED
      BY <2>goto, <2>7, <3>1 DEF OSend
  <2>8. ASSUME OExtract PROVE TypeInv'
    <3>1. CASE Blank \in Range(Response(buf))
      <4>1. Response(buf) \in Seq(Tokens)
        BY <1>inv, ResponseType DEF TypeOK
      <4> DEFINE r == Response(buf)
                 at == First(r, Blank)
      <4>2. buf' = SubSeq(r, at + 1, Len(r)) /\ pc' = "wait" /\ UNCHANGED proc
        BY <2>8, <3>1 DEF OExtract, First
      <4>3. at \in 1..Len(r) /\ Len(r) \in Nat
        <5> HIDE DEF r
        <5> QED
          BY <3>1, <4>1, FirstAt, LenProperties DEF r
      <4> HIDE DEF r, at
      <4>4. buf' \in Seq(Tokens)
        BY <4>1, <4>2, <4>3, PartIs DEF r
      <4>5. told' \in BOOLEAN /\ out' \in Seq(Tokens)
        BY <1>inv, <2>8 DEF OExtract, TypeOK
      <4> QED
        BY <2>goto, <2>8, <4>2, <4>4, <4>5 DEF OExtract
    <3>2. CASE Blank \notin Range(Response(buf))
      BY <1>inv, <1>old, <1>dies, <2>8, <3>2 DEF OExtract, TypeOK
    <3> QED
      BY <3>1, <3>2
  <2>9. ASSUME OWait PROVE TypeInv'
    <3>1. told' \in BOOLEAN /\ out' \in Seq(Tokens) /\ buf' \in Seq(Tokens)
      BY <1>inv, <2>9 DEF OWait, TypeOK
    <3> QED
      BY <2>goto, <2>9, <3>1 DEF OWait
  <2>10. ASSUME OWrite PROVE TypeInv'
    <3>1. got' \in [Clients -> Seq(Tokens)]
      <4>1. cur \in Clients /\ buf \in Seq(Tokens)
        BY <1>inv, <2>10 DEF OWrite, Serving, TypeOK
      <4> QED
        BY <1>inv, <2>10, <4>1, SendsType DEF OWrite
    <3> QED
      BY <1>inv, <1>old, <1>dies, <2>10, <3>1 DEF OWrite, TypeOK
  <2> QED
    BY <1>old, <2>1, <2>2, <2>3, <2>4, <2>5, <2>read, <2>6, <2>7, <2>8, <2>9, <2>10 DEF ONext, OMain
<1>stay. CASE UNCHANGED vars
  BY <1>inv, <1>stay DEF vars, TypeInv, TypeOK, PCs, Loaded, Serving, Descriptors
<1> QED
  BY <1>load, <1>world, <1>ssl, <1>red, <1>old, <1>stay DEF Next, Rests

-----------------------------------------------------------------------------
(* The block list                                                          *)

\* Every step looks a name up before it connects to it.
LEMMA NextListedInv ==
  ASSUME TypeInv, ListedInv, [Next]_vars
  PROVE  ListedInv'
<1> USE DEF startVars, clientVars, hostVars, listenVars
<1>inv. PCs /\ Loaded
  BY DEF TypeInv
\* Nobody has been connected to, and no name looked up.
<1>same. ASSUME UNCHANGED <<startVars, name, contacted>>, pc' \in {"connect", "target"} => pc' = pc
         PROVE  ListedInv'
  BY <1>same DEF ListedInv, Unlisted, Blocks
<1>load. ASSUME Load PROVE ListedInv'
  <2>1. contacted' = {} /\ pc' \notin {"connect", "target"}
    BY <1>inv, <1>load DEF Load, Loaded
  <2> QED
    BY <2>1 DEF ListedInv
<1>world. ASSUME World PROVE ListedInv'
  BY <1>world, <1>same DEF World, ClientConnect, ClientRequest, ClientEnds, HostSend, HostEnds
\* A connection to a name that has been looked up.
<1>connects. ASSUME NEW h, Connects(h), Unlisted(h), prog # "old_server",
                    UNCHANGED startVars, pc' \notin {"connect", "target"}
             PROVE  ListedInv'
  BY <1>connects DEF ListedInv, Unlisted, Blocks, Connects
<1>ssl. ASSUME SslNext PROVE ListedInv'
  <2>prog. prog = "ssl-redirect"
    BY <1>ssl, OwnSteps
  <2>1. ASSUME SslRequest PROVE ListedInv'
    <3>1. UNCHANGED <<startVars, contacted>> /\ (pc' \in {"connect", "target"} => name' \notin Range(blocked))
      BY <2>1 DEF SslRequest
    <3> QED
      BY <2>prog, <3>1 DEF ListedInv, Unlisted
  <2>2. ASSUME SslConnect PROVE ListedInv'
    <3>1. Unlisted(name)
      BY <2>2 DEF SslConnect, ListedInv
    <3> QED
      BY <1>connects, <2>2, <2>prog, <3>1 DEF SslConnect
  <2>3. ASSUME (\E c \in Clients : SslAccept(c)) \/ SslUnparsed \/ SslDeny \/ SslConnectFails \/ SslReply
        PROVE  ListedInv'
    <3>1. UNCHANGED <<startVars, name, contacted>> /\ pc' \in {pc, "read", "tunnel"}
      BY <2>3 DEF SslAccept, Accepts, SslUnparsed, SslDeny, SslConnectFails, SslReply, Dies
    <3> QED
      BY <1>same, <3>1
  <2>4. ASSUME SslClientSend \/ CliToHost \/ HostToCli \/ SigPipe PROVE ListedInv'
    <3>1. UNCHANGED <<startVars, name, contacted, pc>>
      BY <2>4 DEF SslClientSend, CliToHost, ReadClient, WriteHost, HostToCli, ReadHost, WriteClient, SigPipe, Dies
    <3> QED
      BY <1>same, <3>1
  <2> QED
    BY <1>ssl, <2>1, <2>2, <2>3, <2>4 DEF SslNext, SslMain
<1>red. ASSUME RNext PROVE ListedInv'
  <2>prog. prog = "redirect"
    BY <1>red, OwnSteps
  <2>1. ASSUME NEW n, Judges(n) PROVE ListedInv'
    <3>1. UNCHANGED <<startVars, contacted>> /\ (pc' \in {"connect", "target"} => ~Blocks(name'))
      BY <2>1 DEF Judges
    <3>2. Blocks(name') <=> Blocks(name)'
      BY <3>1 DEF Blocks
    <3>3. \A h : Blocks(h)' <=> Blocks(h)
      BY <3>1 DEF Blocks
    <3> QED
      BY <2>prog, <3>1, <3>2, <3>3 DEF ListedInv, Unlisted
  <2>2. ASSUME RConnect PROVE ListedInv'
    <3>1. Unlisted(Target) /\ pc' = "send"
      BY <2>2, <2>prog DEF RConnect, Connecting, Target, ListedInv, Unlisted
    <3> QED
      BY <1>connects, <2>2, <2>prog, <3>1 DEF RConnect
  <2>3. ASSUME (\E c \in Clients : RAccept(c)) \/ RUnparsed PROVE ListedInv'
    <3>1. UNCHANGED <<startVars, name, contacted>> /\ pc' \in {pc, "read"}
      BY <2>3 DEF RAccept, Accepts, RUnparsed, Dies
    <3> QED
      BY <1>same, <3>1
  <2>4. ASSUME \/ RConnectFails \/ RStarves \/ RSpins \/ RSend \/ RFetch \/ RHostResets
               \/ RRefuse \/ RAllow \/ RClientGone
        PROVE  ListedInv'
    <3>1. UNCHANGED <<startVars, name, contacted>> /\ pc' \in {pc, "spin", "fetch", "answer", "accept"}
      BY <2>4 DEF RConnectFails, RStarves, RSpins, RSend, RFetch, RReceived, RHostResets, RRefuse, RAllow,
                  RClientGone, Dies
    <3> QED
      BY <1>same, <3>1
  <2> QED
    BY <1>red, <2>1, <2>2, <2>3, <2>4 DEF RNext, RRequest, RStale
<1>old. ASSUME ONext PROVE ListedInv'
  <2>prog. prog = "old_server" /\ contacted = {}
    BY <1>old, OwnSteps DEF ListedInv
  <2>1. ASSUME OMain PROVE UNCHANGED <<startVars, contacted>> /\ pc' \notin {"connect", "target"}
    <3>1. pc \notin {"connect", "target"}
      BY <1>inv, <2>prog DEF PCs
    <3> QED
      BY <2>1, <3>1
         DEF OMain, OAccept, Accepts, ORead, OReadVerify, OReadResponse, OReads, OSend, OExtract, OWait, OWrite
  <2>2. ASSUME ~OMain PROVE UNCHANGED <<startVars, name, contacted, pc>>
    BY <1>old, <2>2 DEF ONext, OTicket, OEnds, OVerify, OAnswer, Prints
  <2>3. ASSUME OMain PROVE ListedInv'
    BY <2>prog, <2>1, <2>3 DEF ListedInv
  <2> QED
    BY <1>same, <2>2, <2>3
<1>stay. CASE UNCHANGED vars
  BY <1>stay, <1>same DEF vars
<1> QED
  BY <1>load, <1>world, <1>ssl, <1>red, <1>old, <1>stay DEF Next, Rests

\* Descriptors run out in the step that needs the last two of them, and then
\* nothing changes any more.
LEMMA NextStarved ==
  ASSUME TypeInv, StarvedByRefusals, [Next]_vars
  PROVE  StarvedByRefusals'
<1> USE DEF startVars, clientVars, hostVars, listenVars
<1>1. CASE proc' # "starved"
  BY <1>1 DEF StarvedByRefusals
<1>2. CASE UNCHANGED vars
  BY <1>2 DEF vars, StarvedByRefusals
<1>3. CASE RNext /\ RStarves
  <2>1. pc \in {"refuge", "target"} /\ fds + 2 > MaxFd /\ cur' = cur
    BY <1>3 DEF RStarves, Connecting
  <2>2. fds = cur /\ fds <= MaxFd - 1 /\ fds \in Nat /\ MaxFd \in Nat
    BY <1>3, <2>1, MaxFdAssumption DEF RNext, Running, TypeInv, TypeOK, Descriptors
  <2> QED
    BY <2>1, <2>2 DEF StarvedByRefusals
<1>4. ASSUME proc' = "starved", ~UNCHANGED vars, ~(RNext /\ RStarves) PROVE FALSE
  <2>1. CASE Load \/ World
    BY <1>4, <2>1 DEF Load, World, ClientConnect, ClientRequest, ClientEnds, HostSend, HostEnds
  <2>2. CASE SslNext
    BY <1>4, <2>2 DEF SslNext, SslMain, SslAccept, SslRequest, SslUnparsed, SslDeny, SslConnect, SslConnectFails, SslReply,
                      SslClientSend, CliToHost, ReadClient, WriteHost, HostToCli, ReadHost, WriteClient, SigPipe,
                      Tunnel, Running, Dies
  <2>3. CASE RNext
    BY <1>4, <2>3 DEF RNext, RAccept, RRequest, Judges, RUnparsed, RStale, RConnect, RConnectFails, RSpins, RSend,
                      RFetch, RReceived, RHostResets, RRefuse, RAllow, RClientGone, Running, Dies
  <2>4. CASE ONext
    BY <1>4, <2>4 DEF ONext, OMain, OAccept, ORead, OReadVerify, OReadResponse, OReads, OSend, OExtract, OWait, OWrite,
                      OTicket, OEnds, OVerify, OAnswer, Prints, Running
  <2> QED
    BY <1>4, <2>1, <2>2, <2>3, <2>4 DEF Next, Rests
<1> QED
  BY <1>1, <1>2, <1>3, <1>4

-----------------------------------------------------------------------------
(* The answers of redirect.c                                               *)

\* Sends adds to one client's stream only.
LEMMA SendsIs ==
  ASSUME TypeOK, NEW c \in Clients, NEW q, Sends(c, q)
  PROVE  /\ \A d \in Clients : d # c => got'[d] = got[d]
         /\ got'[c] = IF cend[c] = "gone" THEN got[c] ELSE got[c] \o q
BY DEF TypeOK, Sends

\* The loaded list blocks what begins with a line of the file, and only what does,
\* or would if the last line had not lost its last letter.
LEMMA BlocksIs ==
  ASSUME Loaded, pc # "load", NEW h \in Seq(STRING)
  PROVE  /\ Blocks(h) => BeginsWith(Written \cup Clipped, h)
         /\ BeginsWith(Written, h) => Blocks(h)
<1>1. file \in Seq(Lines) /\ blocked = [i \in DOMAIN file |-> Cut(file[i])]
  BY DEF Loaded
<1>2. ASSUME NEW i \in DOMAIN file PROVE file[i] \in Lines
  BY <1>1, <1>2, LenProperties, ElementOfSeq
<1>3. ASSUME NEW i \in DOMAIN blocked, IsPrefix(blocked[i], h) PROVE BeginsWith(Written \cup Clipped, h)
  <2>1. i \in DOMAIN file /\ IsPrefix(Cut(file[i]), h)
    BY <1>1, <1>3
  <2>2. Cut(file[i]) \in Written \cup Clipped
    BY <2>1 DEF Cut, Written, Clipped
  <2> QED
    BY <2>1, <2>2 DEF BeginsWith
<1>4. ASSUME NEW i \in DOMAIN file, IsPrefix(file[i].text, h) PROVE Blocks(h)
  <2>1. IsPrefix(Cut(file[i]), h)
    BY <1>2, <1>4, CutIs
  <2> QED
    BY <1>1, <2>1 DEF Blocks
<1> QED
  BY <1>3, <1>4 DEF Blocks, BeginsWith, Written

\* A redirection and its page.
LEMMA PageIs ==
  ASSUME NEW h \in Origins, NEW n \in Nat, NEW m \in Nat, n <= m
  PROVE  LET q == <<Status(301)>> \o Chunks(h, 1, n)
         IN  q # << >> /\ q[1] = Status(301) /\ IsPrefix(Tail(q), Chunks(h, 1, m))
<1> DEFINE p == Chunks(h, 1, n)
           q == <<Status(301)>> \o p
<1>0. Status(301) \in Tokens
  BY DEF Status, Tokens
<1>1. p \in Seq(Tokens) /\ Status(301) \in Tokens
  BY <1>0, FirstChunks, PiecesAre
<1>2. IsPrefix(p, Chunks(h, 1, m))
  BY <1>1, ChunksPrefix
<1> HIDE DEF p
<1>3. Tail(q) = p /\ q # << >> /\ q[1] = Status(301)
  BY <1>1
<1> QED
  BY <1>2, <1>3 DEF p

\* The verdicts given so far stay fitting.
LEMMA VerdictsKept ==
  ASSUME VerdictFits, UNCHANGED <<prog, file, got>>,
         \A c \in Clients : got[c] # << >> => request'[c] = request[c]
  PROVE  VerdictFits'
<1>1. \A who : /\ BeginsWith(Written, who)' <=> BeginsWith(Written, who)
               /\ BeginsWith(Written \cup Clipped, who)' <=> BeginsWith(Written \cup Clipped, who)
  BY DEF BeginsWith, Written, Clipped
<1> QED
  BY <1>1 DEF VerdictFits

\* Every step keeps the verdicts fitting.
LEMMA NextRedirectInv ==
  ASSUME TypeInv, RedirectInv, [Next]_vars
  PROVE  RedirectInv'
<1> USE DEF startVars, clientVars, hostVars, listenVars
<1>inv. TypeOK /\ PCs /\ Loaded /\ Serving
  BY DEF TypeInv
<1>cli. Clients \subseteq Int /\ cur \in Int
  BY <1>inv DEF Clients, TypeOK
\* No answer is given.
<1>same. ASSUME UNCHANGED <<startVars, cur, name, request, got>>,
                proc' = "running" /\ pc' # "accept" => proc = "running" /\ pc # "accept",
                pc' \notin {"load", "accept", "read"} => pc \notin {"load", "accept", "read"},
                pc' = "target" => pc = "target",
                pc' \in {"send", "fetch", "answer"} => pc \in {"send", "fetch", "answer"} /\ UNCHANGED host,
                cend'[cur] # "gone" => cend[cur] # "gone"
         PROVE  RedirectInv'
  <2>1. VerdictFits => VerdictFits'
    BY <1>same, VerdictsKept
  <2>2. Refused' <=> Refused
    BY <1>same DEF Refused, Blocks
  <2> QED
    BY <1>same, <2>1, <2>2 DEF RedirectInv
<1>other. ASSUME prog # "redirect", prog' = prog PROVE RedirectInv'
  BY <1>other DEF RedirectInv
<1>load. ASSUME Load PROVE RedirectInv'
  <2>1. pc = "load" /\ pc' \in {"load", "accept"} /\ UNCHANGED <<prog, file, cur, request, got>>
    BY <1>load DEF Load
  <2>2. VerdictFits => VerdictFits'
    BY <2>1, VerdictsKept
  <2>3. proc' = "running" => pc' = "accept"
    BY <1>load DEF Load
  <2> QED
    BY <2>1, <2>2, <2>3 DEF RedirectInv
<1>world. ASSUME World PROVE RedirectInv'
  <2>1. ASSUME NEW c \in Clients, NEW r \in Requests, ClientRequest(c, r) PROVE RedirectInv'
    <3>1. /\ pc = "read" /\ c = cur /\ proc = "running"
          /\ UNCHANGED <<startVars, proc, pc, cur, name, got, hostVars, cend>>
          /\ \A d \in Clients : d # c => request'[d] = request[d]
      BY <1>inv, <1>world, <2>1 DEF World, ClientRequest, TypeOK
    <3>2. CASE prog # "redirect"
      BY <1>other, <3>1, <3>2
    <3>3. CASE prog = "redirect"
      <4>1. got[c] = << >>
        BY <3>1, <3>3 DEF RedirectInv
      <4>2. VerdictFits'
        <5>1. \A d \in Clients : got'[d] # << >> => request'[d] = request[d]
          BY <3>1, <4>1
        <5> QED
          BY <3>1, <3>3, <5>1, VerdictsKept DEF RedirectInv
      <4> QED
        BY <3>1, <3>3, <4>2 DEF RedirectInv
    <3> QED
      BY <3>2, <3>3
  <2>2. ASSUME NEW c \in Clients, NEW how, ClientEnds(c, how) PROVE RedirectInv'
    <3>1. UNCHANGED <<startVars, proc, pc, cur, name, request, got, hostVars>> /\ c = cur /\ cend[cur] # "gone"
      BY <2>2 DEF ClientEnds
    <3> QED
      BY <1>same, <3>1
  <2>3. ASSUME NEW c \in Clients, ClientConnect(c) PROVE RedirectInv'
    <3>1. UNCHANGED <<startVars, proc, pc, cur, name, request, got, hostVars>> /\ cend'[cur] = cend[cur]
      BY <1>inv, <1>cli, <2>3 DEF ClientConnect, TypeOK
    <3> QED
      BY <1>same, <3>1
  <2>4. ASSUME HostSend \/ \E how \in {"closed", "reset"} : HostEnds(how) PROVE RedirectInv'
    BY <2>4, <1>same DEF HostSend, HostEnds
  <2> QED
    BY <1>world, <2>1, <2>2, <2>3, <2>4 DEF World
<1>ssl. ASSUME SslNext PROVE RedirectInv'
  BY <1>ssl, <1>other, OwnSteps
<1>old. ASSUME ONext PROVE RedirectInv'
  BY <1>old, <1>other, OwnSteps
<1>red. ASSUME RNext PROVE RedirectInv'
  <2>prog. prog = "redirect" /\ proc = "running"
    BY <1>red, OwnSteps
  <2>later. \A d \in Clients : d >= cur + 1 => got[d] = << >>
    <3>1. \A d \in Clients : d > cur => got[d] = << >>
      BY <2>prog DEF RedirectInv
    <3>2. \A d \in Clients : d >= cur + 1 => d > cur
      BY <1>cli
    <3> QED
      BY <3>1, <3>2
  <2>0. ASSUME NEW c \in Clients, RAccept(c) PROVE RedirectInv'
    <3>1. pc' = "read" /\ c = cur + 1 /\ cur' = c /\ UNCHANGED <<startVars, request, got>>
      BY <2>0 DEF RAccept, Accepts
    <3>2. \A d \in Clients : d >= c => got[d] = << >>
      BY <2>later, <3>1
    <3>3. VerdictFits'
      BY <2>prog, <3>1, VerdictsKept DEF RedirectInv
    <3> QED
      BY <1>cli, <3>1, <3>2, <3>3 DEF RedirectInv
  <2>judges. ASSUME NEW n, pc = "read", Judges(n),
                    cend[cur] = "gone" \/ (request[cur].form \in {"port", "bare"} => n = request[cur].name)
             PROVE  RedirectInv'
    <3>1. /\ name' = n /\ pc' = IF Blocks(n) THEN "refuge" ELSE "target"
          /\ UNCHANGED <<startVars, proc, cur, request, got, cend>>
      BY <2>judges DEF Judges
    <3>2. Refused' <=> Blocks(n)
      BY <3>1 DEF Refused, Blocks
    <3>3. VerdictFits'
      BY <2>prog, <3>1, VerdictsKept DEF RedirectInv
    <3> QED
      BY <2>judges, <2>prog, <3>1, <3>2, <3>3 DEF RedirectInv
  <2>1. ASSUME RRequest PROVE RedirectInv'
    <3>1. PICK n \in Parsed(request[cur]) : Judges(n)
      BY <2>1 DEF RRequest
    <3>2. pc = "read" /\ (request[cur].form \in {"port", "bare"} => n = request[cur].name)
      BY <2>1, <3>1 DEF RRequest, Arrived, Parsed
    <3> QED
      BY <2>judges, <3>1, <3>2
  <2>2. ASSUME RStale PROVE RedirectInv'
    BY <2>judges, <2>2 DEF RStale
  <2>connects. ASSUME RConnect PROVE RedirectInv'
    <3>1. /\ pc \in {"refuge", "target"} /\ pc' = "send" /\ host' = IF pc = "refuge" THEN Refuge ELSE name
          /\ UNCHANGED <<startVars, proc, cur, name, request, got, cend>>
      BY <2>connects DEF RConnect, Connecting, Connects, Target
    <3>2. Refused' <=> Refused
      BY <3>1 DEF Refused, Blocks
    <3>3. Refused => host' = Refuge
      BY <2>prog, <3>1 DEF RedirectInv
    <3>4. VerdictFits'
      BY <2>prog, <3>1, VerdictsKept DEF RedirectInv
    <3> QED
      BY <2>prog, <3>1, <3>2, <3>3, <3>4 DEF RedirectInv
  <2>3. ASSUME \/ RUnparsed \/ RConnectFails \/ RStarves \/ RSpins \/ RSend \/ RFetch \/ RHostResets
               \/ RClientGone
        PROVE  RedirectInv'
    <3>1. UNCHANGED <<startVars, cur, name, request, got, cend, host>>
      BY <2>3 DEF RUnparsed, RConnectFails, RStarves, RSpins, RSend, RFetch, RReceived, RHostResets,
                  RClientGone, Dies
    <3>2. \/ pc' = pc /\ proc' # "running"
          \/ pc = "refuge" /\ pc' = "spin"
          \/ pc \in {"send", "fetch"} /\ pc' \in {"fetch", "answer"}
      BY <2>3 DEF RUnparsed, RConnectFails, RStarves, RSpins, RSend, RFetch, RReceived, RHostResets,
                  RClientGone, Dies
    <3> QED
      BY <1>same, <2>prog, <3>1, <3>2
  \* An answer, which is the client's first.
  <2>answer. ASSUME pc = "answer", NEW q, q # << >>, Sends(cur, q), UNCHANGED <<startVars, cur, name, request, cend, host>>,
                    (proc' # "running" /\ pc' = pc) \/ pc' = "accept",
                    IF Refused THEN q[1] = Status(301) /\ IsPrefix(Tail(q), Chunks(Refuge, 1, MaxChunks))
                               ELSE q = <<Status(200)>>,
                    q \in Seq(Tokens)
             PROVE  RedirectInv'
    <3>1. /\ cur \in Clients /\ got[cur] = << >> /\ name \in Seq(STRING)
          /\ cend[cur] # "gone" /\ request[cur].form \in {"port", "bare"} => name = request[cur].name
      BY <1>inv, <2>prog, <2>answer DEF Serving, RedirectInv
    <3>2. \A d \in Clients : d # cur => got'[d] = got[d]
      BY <1>inv, <2>answer, <3>1, SendsIs
    <3>3. got'[cur] = IF cend[cur] = "gone" THEN << >> ELSE q
      <4>1. << >> \o q = q
        BY <2>answer, ConcatEmptySeq
      <4>2. got'[cur] = IF cend[cur] = "gone" THEN got[cur] ELSE got[cur] \o q
        BY <1>inv, <2>answer, <3>1, SendsIs
      <4> QED
        BY <3>1, <4>1, <4>2, Zenon
    <3>4. /\ Refused => BeginsWith(Written \cup Clipped, name)
          /\ BeginsWith(Written, name) => Refused
      BY <1>inv, <2>answer, <3>1, BlocksIs DEF Refused
    <3>5. VerdictFits'
      <4>0. \A who : /\ BeginsWith(Written, who)' <=> BeginsWith(Written, who)
                     /\ BeginsWith(Written \cup Clipped, who)' <=> BeginsWith(Written \cup Clipped, who)
        BY <2>answer DEF BeginsWith, Written, Clipped
      <4>r. request' = request
        BY <2>answer
      <4> SUFFICES ASSUME NEW c \in Clients, got'[c] # << >>, request[c].form \in {"port", "bare"}
                   PROVE  \/ /\ BeginsWith(Written \cup Clipped, request[c].name)
                             /\ got'[c][1] = Status(301)
                             /\ IsPrefix(Tail(got'[c]), Chunks(Refuge, 1, MaxChunks))
                          \/ ~BeginsWith(Written, request[c].name) /\ got'[c] = <<Status(200)>>
        BY <4>0, <4>r DEF VerdictFits
      <4>1. CASE c = cur
        <5>1. got'[c] = q /\ name = request[c].name
          BY <3>1, <3>3, <4>1
        <5> QED
          BY <2>answer, <3>4, <5>1
      <4>2. CASE c # cur
        <5>1. got'[c] = got[c]
          BY <3>2, <4>2
        <5>2. VerdictFits
          BY <2>prog DEF RedirectInv
        <5> QED
          BY <2>prog, <5>1, <5>2 DEF VerdictFits
      <4> QED
        BY <4>1, <4>2
    <3>6. \A c \in Clients : c > cur => got'[c] = << >>
      BY <1>cli, <2>prog, <3>2 DEF RedirectInv
    <3>7. pc' = pc \/ pc' = "accept"
      BY <2>answer
    <3>8. proc' = "running" => pc' = "accept"
      BY <2>answer
    <3>9. Refused' <=> Refused
      BY <2>answer DEF Refused, Blocks
    <3>10. pc' = "answer" /\ Refused' => host' = Refuge
      BY <2>answer, <2>prog, <3>9 DEF RedirectInv
    <3> QED
      BY <2>answer, <2>prog, <3>1, <3>5, <3>6, <3>7, <3>8, <3>10 DEF RedirectInv
  <2>4. ASSUME RRefuse PROVE RedirectInv'
    <3> DEFINE q == <<Status(301)>> \o Chunks(host, 1, size)
    <3>1. pc = "answer" /\ Refused /\ Sends(cur, q) /\ pc' = "accept" /\ UNCHANGED <<startVars, cur, name, request, cend, host>>
      BY <2>4 DEF RRefuse
    <3>2. size \in Nat /\ MaxChunks \in Nat /\ size <= MaxChunks /\ host = Refuge /\ Refuge \in Origins
      BY <1>inv, <2>prog, <3>1, BoundsAssumption, RefugeAssumption, NamesAssumption
         DEF TypeOK, RedirectInv, Origins
    <3>3. q # << >> /\ q[1] = Status(301) /\ IsPrefix(Tail(q), Chunks(Refuge, 1, MaxChunks))
      BY <3>2, PageIs
    <3>4. q \in Seq(Tokens)
      <4>0. Status(301) \in Tokens
        BY DEF Status, Tokens
      <4>1. Chunks(host, 1, size) \in Seq(Tokens) /\ <<Status(301)>> \in Seq(Tokens)
        BY <3>2, <4>0, FirstChunks, PiecesAre
      <4> QED
        BY <4>1, ConcatProperties
    <3> HIDE DEF q
    <3> QED
      BY <2>answer, <3>1, <3>3, <3>4
  <2>5. ASSUME RAllow PROVE RedirectInv'
    <3> DEFINE q == <<Status(200)>>
    <3>1. /\ pc = "answer" /\ ~Refused /\ Sends(cur, q) /\ pc' = pc /\ proc' # "running"
          /\ UNCHANGED <<startVars, cur, name, request, cend, host>>
      BY <2>5 DEF RAllow
    <3>2. q # << >> /\ q \in Seq(Tokens)
      BY DEF Status, Tokens
    <3> QED
      BY <2>answer, <3>1, <3>2
  <2> QED
    BY <1>red, <2>0, <2>1, <2>2, <2>connects, <2>3, <2>4, <2>5 DEF RNext
<1>stay. CASE UNCHANGED vars
  BY <1>stay, <1>same DEF vars
<1> QED
  BY <1>load, <1>world, <1>ssl, <1>red, <1>old, <1>stay DEF Next, Rests

-----------------------------------------------------------------------------
(* The tunnel of ssl-redirect.c                                            *)

\* Output can be joined in either order.
LEMMA TokensJoin ==
  \A a, b, c \in Seq(Tokens) : (a \o b) \o c = a \o (b \o c)
<1> SUFFICES ASSUME NEW a \in Seq(Tokens), NEW b \in Seq(Tokens), NEW c \in Seq(Tokens)
             PROVE  (a \o b) \o c = a \o (b \o c)
  OBVIOUS
<1> QED
  BY ConcatAssociative, SMTT(30)

\* A status with k pieces behind it.
Stream(h, k) == <<Status(200)>> \o Chunks(h, 1, k)

\* The status and its pieces, and the next pieces.
LEMMA StreamJoins ==
  ASSUME NEW h \in Origins, NEW k \in Nat, NEW n \in Nat, k <= n
  PROVE  /\ Stream(h, k) \in Seq(Tokens) /\ Len(Stream(h, k)) = k + 1 /\ Stream(h, k) # << >>
         /\ Stream(h, k) \o Chunks(h, k + 1, n) = Stream(h, n)
<1> DEFINE g == Stream(h, k)
           s == <<Status(200)>>
           a == Chunks(h, 1, k)
           b == Chunks(h, k + 1, n)
<1>1. s \in Seq(Tokens) /\ Len(s) = 1
  BY DEF Status, Tokens
<1>2. a \in Seq(Tokens) /\ Len(a) = k
  BY FirstChunks, PiecesAre
<1>3. b \in Seq(Tokens)
  <2>1. k + 1 \in Nat \ {0} /\ k + 1 <= n + 1
    OBVIOUS
  <2>2. b \in Seq(Pieces)
    BY <2>1, ChunksAre
  <2> QED
    BY <2>2, PiecesAre
<1>4. a \o b = Chunks(h, 1, n)
  BY ChunksJoin
<1>5. g = s \o a /\ Stream(h, n) = s \o (a \o b)
  BY <1>4 DEF Stream
<1> HIDE DEF g, s, a, b
<1>6. g \in Seq(Tokens) /\ Len(g) = k + 1
  <2>1. s \o a \in Seq(Tokens) /\ Len(s \o a) = Len(s) + Len(a)
    BY <1>1, <1>2, ConcatProperties
  <2>2. Len(s) + Len(a) = k + 1
    BY <1>1, <1>2
  <2>3. Len(s \o a) = k + 1
    BY <2>1, <2>2
  <2> QED
    BY <1>5, <2>1, <2>3, Zenon
<1>7. (s \o a) \o b = s \o (a \o b)
  BY <1>1, <1>2, <1>3, TokensJoin, Zenon
<1>8. g # << >>
  BY <1>6, EmptySeq
<1> QED
  BY <1>5, <1>6, <1>7, <1>8 DEF g, b

\* The first answer.
LEMMA FirstSent ==
  ASSUME TypeOK, NEW c \in Clients, NEW x \in Tokens, Sends(c, <<x>>), got[c] = << >>
  PROVE  got'[c] = IF cend[c] = "gone" THEN << >> ELSE <<x>>
<1> DEFINE q == <<x>>
<1>1. q \in Seq(Tokens)
  OBVIOUS
<1>2. Sends(c, q)
  OBVIOUS
<1> HIDE DEF q
<1>3. << >> \o q = q
  BY <1>1, ConcatEmptySeq
<1>4. got'[c] = IF cend[c] = "gone" THEN << >> ELSE q
  BY <1>2, <1>3, SendsIs
<1> QED
  BY <1>4 DEF q

\* No pieces are the pieces before the first.
LEMMA NoChunks ==
  ASSUME NEW h \in Origins
  PROVE  /\ Chunks(h, 1, 0) = << >>
         /\ \A n \in Nat : Chunks(h, n + 1, n) = << >>
<1>1. \A n \in Nat : Chunks(h, n + 1, n) = << >>
  <2> SUFFICES ASSUME NEW n \in Nat PROVE Chunks(h, n + 1, n) = << >>
    OBVIOUS
  <2>1. n + 1 \in Nat \ {0} /\ n + 1 <= n + 1 /\ n - (n + 1) + 1 = 0
    OBVIOUS
  <2>2. Chunks(h, n + 1, n) \in Seq(Pieces) /\ Len(Chunks(h, n + 1, n)) = n - (n + 1) + 1
    BY <2>1, ChunksAre
  <2> QED
    BY <2>1, <2>2, EmptySeq
<1>2. Chunks(h, 1, 0) = << >>
  BY FirstChunks, EmptySeq
<1> QED
  BY <1>1, <1>2

\* Every step keeps the two streams of the tunnel.
LEMMA NextTunnelInv ==
  ASSUME TypeInv, TunnelInv, [Next]_vars
  PROVE  TunnelInv'
<1> USE DEF startVars, clientVars, hostVars, listenVars, sslVars
<1>inv. TypeOK /\ PCs /\ Loaded /\ Serving
  BY DEF TypeInv
<1>one. 1 \in Clients
  BY BoundsAssumption DEF Clients
<1>bnd. MaxChunks \in Nat /\ csent \in Nat /\ cread \in 0..csent /\ hread \in Nat /\ hsent \in Nat
  BY <1>inv, BoundsAssumption DEF TypeOK
<1>org. NULL \in Origins /\ host \in Origins
  BY <1>inv, NamesAssumption DEF TypeOK, Origins
<1>other. ASSUME prog # "ssl-redirect", prog' = prog PROVE TunnelInv'
  BY <1>other DEF TunnelInv
\* Nothing happens to the streams but that one of the four ends leaves.
<1>same. ASSUME UNCHANGED <<startVars, pc, cur, name, got, sslVars>>,
                proc' = proc \/ (proc' # "running" /\ pc # "deny"),
                request'[1] = request[1] \/ pc \in {"load", "accept", "read"}, UNCHANGED host,
                hsent' \in Nat, hsent' >= hsent,
                hend' = hend \/ hend' # "open", cend'[1] = cend[1] \/ cend'[1] = "gone" \/ cend[1] # "gone"
         PROVE  TunnelInv'
  <2>1. UpInv /\ pc = "tunnel" => UpInv'
    BY <1>same DEF UpInv
  <2>2. DownInv /\ pc = "tunnel" => DownInv'
    BY <1>same, <1>bnd DEF DownInv
  <2> QED
    BY <1>same, <2>1, <2>2 DEF TunnelInv
<1>load. ASSUME Load, UNCHANGED sslVars PROVE TunnelInv'
  <2>1. CASE prog # "ssl-redirect"
    BY <1>load, <1>other, <2>1 DEF Load
  <2>2. CASE prog = "ssl-redirect"
    <3>1. /\ pc = "load" /\ pc' \in {"load", "accept"} /\ cur = 0 /\ UNCHANGED <<prog, cur, got>>
      BY <1>inv, <1>load DEF Load, Loaded
    <3> QED
      BY <1>load, <2>2, <3>1 DEF TunnelInv
  <2> QED
    BY <2>1, <2>2
<1>world. ASSUME World, UNCHANGED sslVars PROVE TunnelInv'
  <2>1. ASSUME NEW c \in Clients, NEW r \in Requests, ClientRequest(c, r) PROVE TunnelInv'
    <3>1. pc = "read" /\ UNCHANGED <<startVars, proc, pc, cur, name, got, cend, hostVars>>
      BY <2>1 DEF ClientRequest
    <3> QED
      BY <1>same, <1>bnd, <1>world, <3>1
  <2>2. ASSUME NEW c \in Clients, ClientConnect(c) \/ \E how \in {"gone", "fin"} : ClientEnds(c, how)
        PROVE  TunnelInv'
    <3>1. /\ UNCHANGED <<startVars, proc, pc, cur, name, request, got, hostVars>>
          /\ cend'[1] = cend[1] \/ cend[1] # "gone"
      BY <1>inv, <1>one, <2>2 DEF ClientConnect, ClientEnds, TypeOK
    <3> QED
      BY <1>same, <1>bnd, <1>world, <3>1
  <2>3. ASSUME HostSend PROVE TunnelInv'
    <3>1. UNCHANGED <<startVars, proc, pc, cur, name, clientVars, host, hend>> /\ hsent' = hsent + 1
      BY <2>3 DEF HostSend
    <3> QED
      BY <1>same, <1>bnd, <1>world, <3>1
  <2>4. ASSUME NEW how \in {"closed", "reset"}, HostEnds(how) PROVE TunnelInv'
    <3>1. UNCHANGED <<startVars, proc, pc, cur, name, clientVars, host, hsent>> /\ hend' # "open"
      BY <2>4 DEF HostEnds
    <3> QED
      BY <1>same, <1>bnd, <1>world, <3>1
  <2> QED
    BY <1>world, <2>1, <2>2, <2>3, <2>4 DEF World
<1>red. ASSUME RNext PROVE TunnelInv'
  BY <1>red, <1>other, OwnSteps
<1>old. ASSUME ONext PROVE TunnelInv'
  BY <1>old, <1>other, OwnSteps
<1>ssl. ASSUME SslNext PROVE TunnelInv'
  <2>prog. prog = "ssl-redirect" /\ proc = "running"
    BY <1>ssl, OwnSteps
  \* The process ends before the client, or with it.
  <2>dies. ASSUME Dies("killed"), UNCHANGED <<name, sslVars>>, pc # "deny", cur' = cur
           PROVE  TunnelInv'
    <3>1. UNCHANGED <<startVars, pc, got, request, cend, host, hsent, hend>> /\ proc' = "killed"
      BY <2>dies DEF Dies
    <3>2. UpInv => UpInv'
      BY <2>dies, <3>1 DEF UpInv
    <3>3. DownInv => DownInv'
      BY <2>dies, <3>1 DEF DownInv
    <3> QED
      BY <2>prog, <2>dies, <3>1, <3>2, <3>3 DEF TunnelInv
  <2>0. ASSUME NEW c \in Clients, SslAccept(c) PROVE TunnelInv'
    <3>1. /\ pc = "accept" /\ pc' = "read" /\ c = cur + 1 /\ cur' = c
          /\ UNCHANGED <<startVars, got, sslVars>>
      BY <2>0 DEF SslAccept, Accepts
    <3>2. cur = 0 /\ c = 1
      BY <2>prog, <3>1 DEF TunnelInv
    <3> QED
      BY <2>prog, <3>1, <3>2 DEF TunnelInv
  <2>1. ASSUME SslRequest PROVE TunnelInv'
    <3>1. /\ pc = "read" /\ name' = request[cur].name
          /\ pc' = IF name' \in Range(blocked) THEN "deny" ELSE "connect"
          /\ UNCHANGED <<startVars, proc, cur, request, got, sslVars>>
      BY <2>1 DEF SslRequest, Arrived
    <3>2. cur = 1 /\ got[1] = << >>
      BY <2>prog, <3>1 DEF TunnelInv
    <3>3. csent = 0 /\ cread = 0 /\ hread = 0 /\ up = NULL /\ down = NULL /\ toHost = << >>
      BY <2>prog, <3>1 DEF TunnelInv
    <3> QED
      BY <2>prog, <3>1, <3>2, <3>3 DEF TunnelInv
  <2>2. ASSUME SslUnparsed PROVE TunnelInv'
    BY <2>dies, <2>2 DEF SslUnparsed, Arrived, Nothing
  <2>3. ASSUME SslDeny PROVE TunnelInv'
    <3>1. /\ pc = "deny" /\ Sends(cur, <<Status(403)>>) /\ proc' = "exited"
          /\ UNCHANGED <<startVars, pc, cur, name, request, sslVars>>
      BY <2>3 DEF SslDeny
    <3>2. cur = 1 /\ got[1] = << >>
      BY <2>prog, <3>1 DEF TunnelInv
    <3>3. Sends(1, <<Status(403)>>) /\ Status(403) \in Tokens
      BY <3>1, <3>2 DEF Status, Tokens
    <3>4. got'[1] \in {<< >>, <<Status(403)>>}
      BY <1>inv, <1>one, <3>2, <3>3, FirstSent
    <3> QED
      BY <2>prog, <3>1, <3>2, <3>4 DEF TunnelInv
  <2>4. ASSUME SslConnect PROVE TunnelInv'
    <3>1. pc = "connect" /\ pc' = "reply" /\ host' = name /\ UNCHANGED <<startVars, proc, cur, name, request, got, sslVars>>
      BY <2>4 DEF SslConnect, Connects
    <3> QED
      BY <2>prog, <3>1 DEF TunnelInv
  <2>5. ASSUME SslConnectFails \/ SigPipe PROVE TunnelInv'
    BY <2>dies, <2>5 DEF SslConnectFails, SigPipe
  <2>6. ASSUME SslReply PROVE TunnelInv'
    <3>1. /\ pc = "reply" /\ Sends(cur, <<Status(200)>>) /\ pc' = "tunnel"
          /\ UNCHANGED <<startVars, proc, cur, name, request, cend, host, hsent, hend, sslVars>>
      BY <2>6 DEF SslReply
    <3>2. /\ cur = 1 /\ got[1] = << >> /\ name = request[1].name /\ name \notin Range(blocked)
          /\ csent = 0 /\ cread = 0 /\ hread = 0 /\ up = NULL /\ down = NULL /\ toHost = << >>
      BY <2>prog, <3>1 DEF TunnelInv
    <3>3. <<Status(200)>> \o << >> = <<Status(200)>>
      <4>1. <<Status(200)>> \in Seq({Status(200)})
        OBVIOUS
      <4> QED
        BY <4>1, ConcatEmptySeq
    <3>4. got'[1] = IF cend[1] = "gone" THEN << >> ELSE <<Status(200)>>
      <4>1. Sends(1, <<Status(200)>>) /\ Status(200) \in Tokens
        BY <3>1, <3>2 DEF Status, Tokens
      <4> QED
        BY <1>inv, <1>one, <3>2, <4>1, FirstSent
    <3>5. Len(<< >>) = 0 /\ Len(<<Status(200)>>) = 1 /\ <<Status(200)>> # << >>
      BY EmptySeq
    <3>6. UpInv'
      BY <1>org, <3>1, <3>2, <3>5, NoChunks DEF UpInv
    <3>7. DownInv'
      <4>1. <<Status(200)>> = <<Status(200)>> \o Chunks(host, 1, 1 - 1)
        <5>1. 1 - 1 = 0
          OBVIOUS
        <5> QED
          BY <1>org, <3>3, <5>1, NoChunks, Zenon
      <4>2. hread' = 0 /\ hread' <= hsent' /\ down' = NULL /\ cend'[1] = cend[1] /\ host' = host
        BY <1>bnd, <3>1, <3>2
      <4>3. ASSUME got'[1] # << >>
            PROVE  got'[1] = <<Status(200)>> \o Chunks(host, 1, Len(got'[1]) - 1) /\ Len(got'[1]) = 1
        BY <3>4, <3>5, <4>1, <4>3
      <4>4. ASSUME cend'[1] # "gone" PROVE got'[1] # << >> /\ Len(got'[1]) = 1
        BY <3>4, <3>5, <4>2, <4>4
      <4> QED
        BY <4>2, <4>3, <4>4 DEF DownInv
    <3> QED
      BY <2>prog, <3>1, <3>2, <3>6, <3>7 DEF TunnelInv
  \* The two loops.
  <2>tunnel. ASSUME pc = "tunnel", UNCHANGED <<startVars, proc, pc, cur, name, request, host>>, UpInv', DownInv'
             PROVE  TunnelInv'
    BY <2>prog, <2>tunnel DEF TunnelInv
  <2>held. ASSUME pc = "tunnel" PROVE UpInv /\ DownInv /\ cur = 1
    BY <2>prog, <2>held DEF TunnelInv
  <2>to. toHost \in Seq(Tokens) /\ Len(toHost) \in Nat /\ got[1] \in Seq(Tokens) /\ Len(got[1]) \in Nat
    BY <1>inv, <1>one, LenProperties DEF TypeOK
  <2>7. ASSUME SslClientSend PROVE TunnelInv'
    <3>1. pc = "tunnel" /\ csent' = csent + 1 /\ UNCHANGED <<listenVars, cread, hread, up, down, toHost>>
      BY <2>7 DEF SslClientSend, Tunnel
    <3>2. UpInv' /\ DownInv'
      BY <1>bnd, <2>held, <2>to, <3>1 DEF UpInv, DownInv
    <3> QED
      BY <2>tunnel, <3>1, <3>2
  <2>8. ASSUME Tunnel, ReadClient PROVE TunnelInv'
    <3>1. pc = "tunnel" /\ up = NULL /\ UNCHANGED <<listenVars, csent, hread, down, toHost>>
      BY <2>8 DEF ReadClient, Tunnel
    <3>2. PICK n \in cread..csent : up' = Chunks(NULL, cread + 1, n) /\ cread' = n
      <4>1. CASE \E n \in (cread + 1)..csent : up' = Chunks(NULL, cread + 1, n) /\ cread' = n
        <5>1. (cread + 1)..csent \subseteq cread..csent
          BY <1>bnd
        <5> QED
          BY <4>1, <5>1, Zenon
      <4>2. CASE up' = << >> /\ cread' = cread
        <5>1. cread \in Nat /\ cread \in cread..csent
          BY <1>bnd
        <5>2. up' = Chunks(NULL, cread + 1, cread)
          BY <1>org, <4>2, <5>1, NoChunks, Zenon
        <5> QED
          BY <4>2, <5>1, <5>2, Zenon
      <4> QED
        BY <2>8, <4>1, <4>2, Zenon DEF ReadClient
    <3>3. up' # NULL
      <4>1. cread + 1 \in Nat \ {0} /\ n \in Nat /\ cread + 1 <= n + 1
        BY <1>bnd, <3>2
      <4>2. Chunks(NULL, cread + 1, n) \in Seq(Pieces)
        BY <1>org, <4>1, ChunksAre
      <4> QED
        BY <3>2, <4>2, PiecesAre
    <3>4. UpInv'
      BY <1>bnd, <2>held, <2>to, <3>1, <3>2, <3>3 DEF UpInv
    <3>5. DownInv'
      BY <2>held, <3>1 DEF DownInv
    <3> QED
      BY <2>tunnel, <3>1, <3>4, <3>5
  <2>9. ASSUME Tunnel, WriteHost PROVE TunnelInv'
    <3>1. /\ pc = "tunnel" /\ up # NULL /\ up' = NULL /\ UNCHANGED <<listenVars, csent, cread, hread, down>>
          /\ toHost' = IF hend = "open" THEN toHost \o up ELSE toHost
      BY <2>9 DEF WriteHost, Tunnel
    <3>2. DownInv'
      BY <2>held, <3>1 DEF DownInv
    <3>3. CASE hend = "open"
      <4>1. toHost = Chunks(NULL, 1, Len(toHost)) /\ up = Chunks(NULL, Len(toHost) + 1, cread) /\ toHost' = toHost \o up
        BY <2>held, <3>1, <3>3 DEF UpInv
      <4>2. Len(toHost) <= cread
        BY <2>held, <3>1 DEF UpInv
      <4>3. toHost \o up = Chunks(NULL, 1, cread) /\ Len(Chunks(NULL, 1, cread)) = cread
        <5>1. cread \in Nat
          BY <1>bnd
        <5> DEFINE k == Len(toHost)
        <5>2. k \in Nat /\ k <= cread /\ toHost = Chunks(NULL, 1, k) /\ up = Chunks(NULL, k + 1, cread)
          BY <2>to, <4>1, <4>2
        <5> HIDE DEF k
        <5>3. Chunks(NULL, 1, k) \o Chunks(NULL, k + 1, cread) = Chunks(NULL, 1, cread)
          BY <1>org, <5>1, <5>2, ChunksJoin
        <5>4. Len(Chunks(NULL, 1, cread)) = cread
          BY <1>org, <5>1, FirstChunks
        <5> QED
          BY <5>2, <5>3, <5>4, Zenon
      <4>4. UpInv'
        <5>1. toHost' = Chunks(NULL, 1, cread) /\ Len(toHost') = cread /\ cread <= cread
          BY <1>bnd, <4>1, <4>3
        <5> QED
          BY <3>1, <5>1 DEF UpInv
      <4> QED
        BY <2>tunnel, <3>1, <3>2, <4>4
    <3>4. CASE hend # "open"
      BY <2>held, <2>tunnel, <3>1, <3>2, <3>4 DEF UpInv
    <3> QED
      BY <3>3, <3>4
  <2>10. ASSUME Tunnel, ReadHost PROVE TunnelInv'
    <3>1. pc = "tunnel" /\ down = NULL /\ UNCHANGED <<listenVars, csent, cread, up, toHost>>
      BY <2>10 DEF ReadHost, Tunnel
    <3>2. hread <= hsent
      BY <2>held, <3>1 DEF DownInv
    <3>3. PICK n \in hread..hsent : down' = Chunks(host, hread + 1, n) /\ hread' = n
      BY <1>bnd, <2>10, <1>org, <3>2, NoChunks DEF ReadHost
    <3>4. down' # NULL
      <4>1. hread + 1 \in Nat \ {0} /\ n \in Nat /\ hread + 1 <= n + 1
        BY <1>bnd, <3>3
      <4>2. Chunks(host, hread + 1, n) \in Seq(Pieces)
        BY <1>org, <4>1, ChunksAre
      <4> QED
        BY <3>3, <4>2, PiecesAre
    <3>5. UpInv'
      BY <2>held, <3>1 DEF UpInv
    <3>6. DownInv'
      BY <1>bnd, <2>held, <2>to, <3>1, <3>2, <3>3, <3>4 DEF DownInv
    <3> QED
      BY <2>tunnel, <3>1, <3>5, <3>6
  <2>11. ASSUME Tunnel, WriteClient PROVE TunnelInv'
    <3>1. /\ pc = "tunnel" /\ down # NULL /\ down' = NULL /\ Sends(cur, down)
          /\ UNCHANGED <<startVars, proc, pc, cur, name, request, cend, host, hsent, hend, csent, cread, hread, up, toHost>>
      BY <2>11 DEF WriteClient, Tunnel
    <3>2. UpInv' /\ hread <= hsent
      BY <2>held, <3>1 DEF UpInv, DownInv
    <3>3. got'[1] = IF cend[1] = "gone" THEN got[1] ELSE got[1] \o down
      BY <1>inv, <1>one, <2>held, <3>1, SendsIs
    <3>4. CASE cend[1] = "gone"
      BY <2>held, <2>tunnel, <3>1, <3>2, <3>3, <3>4 DEF DownInv
    <3>5. CASE cend[1] # "gone"
      <4> DEFINE g == got[1]
                 k == Len(g) - 1
      <4>1. /\ g # << >> /\ g = <<Status(200)>> \o Chunks(host, 1, k) /\ Len(g) <= hread + 1
            /\ down = Chunks(host, Len(g), hread) /\ got'[1] = g \o down
        BY <2>held, <3>1, <3>3, <3>5 DEF DownInv
      <4>2. g \in Seq(Tokens) /\ Len(g) \in Nat
        BY <2>to
      <4> HIDE DEF g
      <4>3. k \in Nat /\ k <= hread /\ Len(g) = k + 1
        BY <1>bnd, <4>1, <4>2, EmptySeq
      <4> HIDE DEF k
      <4>4. g = Stream(host, k)
        BY <4>1 DEF Stream
      <4>5. got'[1] = Stream(host, hread)
        <5>1. Stream(host, k) \o Chunks(host, k + 1, hread) = Stream(host, hread)
          BY <1>bnd, <4>3, <1>org, StreamJoins
        <5>2. got'[1] = g \o Chunks(host, k + 1, hread)
          BY <4>1, <4>3, Zenon
        <5> QED
          BY <4>4, <5>1, <5>2, Zenon
      <4>6. Len(got'[1]) = hread + 1 /\ got'[1] # << >> /\ Len(got'[1]) - 1 = hread
        <5>1. hread <= hread
          BY <1>bnd
        <5>2. Len(got'[1]) = hread + 1 /\ got'[1] # << >>
          BY <1>bnd, <4>5, <5>1, <1>org, StreamJoins
        <5> QED
          BY <1>bnd, <5>2
      <4>7. DownInv'
        BY <1>bnd, <3>1, <3>2, <4>5, <4>6 DEF DownInv, Stream
      <4> QED
        BY <2>tunnel, <3>1, <3>2, <4>7
    <3> QED
      BY <3>4, <3>5
  <2> QED
    BY <1>ssl, <2>0, <2>1, <2>2, <2>3, <2>4, <2>5, <2>6, <2>7, <2>8, <2>9, <2>10, <2>11
       DEF SslNext, SslMain, CliToHost, HostToCli
<1>stay. CASE UNCHANGED vars
  BY <1>bnd, <1>stay, <1>same DEF vars
<1> QED
  BY <1>load, <1>world, <1>ssl, <1>red, <1>old, <1>stay DEF Next, Rests

-----------------------------------------------------------------------------
(* The page that old_server.c cuts out                                     *)

\* The tokens openssl prints are told apart.
LEMMA TokensApart ==
  /\ Status(200) # Ticket /\ Status(404) # Ticket /\ Blank # Ticket
  /\ Status(200) # Blank /\ Status(404) # Blank
  /\ \A h, n : Chunk(h, n) # Ticket /\ Chunk(h, n) # Blank /\ Chunk(h, n) # Status(200)
  /\ \A n : Verified(n) # Status(200)
  /\ Status(404) # Status(200)
BY DEF Status, Ticket, Blank, Chunk, Verified

\* A sequence with one more token.
LEMMA AppendIs ==
  ASSUME NEW q \in Seq(Tokens), NEW x \in Tokens
  PROVE  /\ Append(q, x) \in Seq(Tokens) /\ Len(Append(q, x)) = Len(q) + 1 /\ Len(q) \in Nat
         /\ \A i \in 1..Len(q) : Append(q, x)[i] = q[i]
         /\ Append(q, x)[Len(q) + 1] = x
BY AppendProperties, LenProperties

\* Printing on adds to the whole of the output.
LEMMA PrintedOn ==
  ASSUME NEW b \in Seq(Tokens), NEW o \in Seq(Tokens), NEW x \in Tokens
  PROVE  b \o Append(o, x) = Append(b \o o, x)
<1> DEFINE s == <<x>>
<1>1. s \in Seq(Tokens)
  OBVIOUS
<1>2. b \o o \in Seq(Tokens)
  BY ConcatProperties
<1>3. Append(o, x) = o \o s /\ Append(b \o o, x) = (b \o o) \o s
  BY <1>2
<1> HIDE DEF s
<1>4. (b \o o) \o s = b \o (o \o s)
  BY <1>1, TokensJoin, Zenon
<1> QED
  BY <1>3, <1>4, Zenon

\* A read moves output to the buffer.
LEMMA ReadOn ==
  ASSUME NEW b \in Seq(Tokens), NEW o \in Seq(Tokens), NEW k \in Nat, k <= Len(o)
  PROVE  (b \o SubSeq(o, 1, k)) \o SubSeq(o, k + 1, Len(o)) = b \o o
<1> DEFINE u == SubSeq(o, 1, k)
           v == SubSeq(o, k + 1, Len(o))
<1>0. Len(o) \in Nat
  BY LenProperties
<1>1. u \in Seq(Tokens)
  BY <1>0, PartIs
<1>2. v \in Seq(Tokens)
  BY <1>0, PartIs
<1>3. u \o v = o
  <2>1. 1 \in 1..(Len(o) + 1) /\ k \in (1 - 1)..Len(o) /\ Len(o) \in k..Len(o)
    BY <1>0
  <2>2. SubSeq(o, 1, k) \o SubSeq(o, k + 1, Len(o)) = SubSeq(o, 1, Len(o))
    BY <2>1, ConcatAdjacentSubSeq
  <2> QED
    BY <2>2, SubSeqFull
<1> HIDE DEF u, v
<1>4. (b \o u) \o v = b \o (u \o v)
  BY <1>1, <1>2, TokensJoin, Zenon
<1> QED
  BY <1>3, <1>4 DEF u, v

\* A token that is not part of the answer.
LEMMA ShowsOther ==
  ASSUME NEW q \in Seq(Tokens), NEW s \in Seq(Tokens), NEW x \in Tokens, Shows(q, s),
         x = Ticket \/ (s = << >> /\ x # Status(200))
  PROVE  Shows(Append(q, x), s)
<1> DEFINE r == Append(q, x)
<1>1. /\ r \in Seq(Tokens) /\ Len(r) = Len(q) + 1 /\ Len(q) \in Nat /\ (\A i \in 1..Len(q) : r[i] = q[i])
      /\ r[Len(q) + 1] = x
  BY AppendIs
<1>2. x # Status(200)
  BY TokensApart
<1> HIDE DEF r
<1>3. NoOK(q) => NoOK(r)
  <2> SUFFICES ASSUME NoOK(q), NEW i \in 1..Len(r) PROVE r[i] # Status(200)
    BY DEF NoOK
  <2>1. CASE i <= Len(q)
    BY <1>1, <2>1 DEF NoOK
  <2>2. CASE ~(i <= Len(q))
    BY <1>1, <1>2, <2>2
  <2> QED
    BY <2>1, <2>2
<1>4. ASSUME s # << >> PROVE \E p \in 1..Len(r), m \in 1..Len(s) : ShowsAt(r, s, p, m)
  <2>1. PICK p \in 1..Len(q), m \in 1..Len(s) : ShowsAt(q, s, p, m)
    BY <1>4 DEF Shows
  <2>2. Len(s) \in Nat
    BY LenProperties
  <2>3. p \in 1..Len(r) /\ p + m - 1 <= Len(q) /\ p + m - 1 # Len(r)
    BY <1>1, <2>1, <2>2 DEF ShowsAt
  <2>4. \A i \in 1..(p - 1) : r[i] # Status(200)
    <3> SUFFICES ASSUME NEW i \in 1..(p - 1) PROVE r[i] # Status(200)
      OBVIOUS
    <3>1. i \in 1..Len(q) /\ q[i] # Status(200)
      BY <1>1, <2>1 DEF ShowsAt
    <3> QED
      BY <1>1, <3>1
  <2>5. \A j \in 1..m : r[p + j - 1] = s[j]
    <3> SUFFICES ASSUME NEW j \in 1..m PROVE r[p + j - 1] = s[j]
      OBVIOUS
    <3>1. p + j - 1 \in 1..Len(q)
      BY <1>1, <2>2, <2>3
    <3> QED
      BY <1>1, <2>1, <3>1 DEF ShowsAt
  <2>6. r[p + m] = Ticket
    <3>1. CASE p + m - 1 = Len(q)
      <4>1. p + m = Len(q) + 1
        BY <1>1, <2>2, <3>1
      <4> QED
        BY <1>1, <1>4, <4>1
    <3>2. CASE p + m - 1 # Len(q)
      <4>0. p \in Nat \ {0} /\ m \in Nat /\ Len(q) \in Nat
        BY <1>1, <2>1, <2>2
      <4>1. p + m \in 1..Len(q)
        BY <2>3, <3>2, <4>0
      <4> QED
        BY <1>1, <2>1, <3>2, <4>1 DEF ShowsAt
    <3> QED
      BY <3>1, <3>2
  <2>7. ShowsAt(r, s, p, m)
    BY <1>1, <2>3, <2>4, <2>5, <2>6 DEF ShowsAt
  <2> QED
    BY <2>3, <2>7
<1> QED
  BY <1>3, <1>4 DEF Shows, r

\* The status, behind whatever has been printed before.
LEMMA ShowsFirst ==
  ASSUME NEW q \in Seq(Tokens), NEW x \in Tokens, Shows(q, << >>)
  PROVE  Shows(Append(q, x), <<x>>)
<1> DEFINE r == Append(q, x)
           s == <<x>>
<1>1. /\ r \in Seq(Tokens) /\ Len(r) = Len(q) + 1 /\ Len(q) \in Nat /\ (\A i \in 1..Len(q) : r[i] = q[i])
      /\ r[Len(q) + 1] = x
  BY AppendIs
<1>2. s # << >> /\ Len(s) = 1 /\ s[1] = x
  OBVIOUS
<1> HIDE DEF r, s
<1>3. \A i \in 1..Len(q) : q[i] # Status(200)
  BY DEF Shows, NoOK
<1>4. x # Status(200) => NoOK(r)
  <2> SUFFICES ASSUME x # Status(200), NEW i \in 1..Len(r) PROVE r[i] # Status(200)
    BY DEF NoOK
  <2>1. CASE i <= Len(q)
    BY <1>1, <1>3, <2>1
  <2>2. CASE ~(i <= Len(q))
    BY <1>1, <2>2
  <2> QED
    BY <2>1, <2>2
<1> DEFINE p == Len(q) + 1
<1>5. p \in 1..Len(r) /\ 1 \in 1..Len(s) /\ p + 1 - 1 = Len(r) /\ p - 1 = Len(q) /\ r[p] = x
  BY <1>1, <1>2
<1> HIDE DEF p
<1>6. ShowsAt(r, s, p, 1)
  <2>1. \A i \in 1..(p - 1) : r[i] # Status(200)
    BY <1>1, <1>3, <1>5
  <2>2. \A j \in 1..1 : r[p + j - 1] = s[j]
    <3> SUFFICES ASSUME NEW j \in 1..1 PROVE r[p + j - 1] = s[j]
      OBVIOUS
    <3>1. j = 1 /\ p + j - 1 = p
      BY <1>1, <1>5
    <3> QED
      BY <1>2, <1>5, <3>1
  <2>3. p + 1 - 1 <= Len(r)
    BY <1>1, <1>5
  <2> QED
    BY <1>2, <1>5, <2>1, <2>2, <2>3 DEF ShowsAt
<1>7. Shows(r, s)
  BY <1>2, <1>4, <1>5, <1>6 DEF Shows
<1> QED
  BY <1>7 DEF r, s

\* The answer goes on, right behind its beginning or behind a ticket.
LEMMA ShowsNext ==
  ASSUME NEW q \in Seq(Tokens), NEW s \in Seq(Tokens), s # << >>, NEW x \in Tokens, x # Status(200), Shows(q, s)
  PROVE  Shows(Append(q, x), Append(s, x))
<1> DEFINE r == Append(q, x)
           u == Append(s, x)
<1>1. /\ r \in Seq(Tokens) /\ Len(r) = Len(q) + 1 /\ Len(q) \in Nat /\ (\A i \in 1..Len(q) : r[i] = q[i])
      /\ r[Len(q) + 1] = x
  BY AppendIs
<1>2. /\ u \in Seq(Tokens) /\ Len(u) = Len(s) + 1 /\ Len(s) \in Nat \ {0} /\ (\A i \in 1..Len(s) : u[i] = s[i])
      /\ u[Len(s) + 1] = x
  BY AppendIs, EmptySeq
<1> HIDE DEF r, u
<1>3. u # << >> /\ u[1] = s[1]
  BY <1>2, EmptySeq
<1>4. NoOK(q) => NoOK(r)
  <2> SUFFICES ASSUME NoOK(q), NEW i \in 1..Len(r) PROVE r[i] # Status(200)
    BY DEF NoOK
  <2>1. CASE i <= Len(q)
    BY <1>1, <2>1 DEF NoOK
  <2>2. CASE ~(i <= Len(q))
    BY <1>1, <2>2
  <2> QED
    BY <2>1, <2>2
<1>5. PICK p \in 1..Len(q), m \in 1..Len(s) : ShowsAt(q, s, p, m)
  BY DEF Shows
<1>6. /\ p \in 1..Len(r) /\ p + m - 1 <= Len(q) /\ p \in Nat /\ m \in Nat
      /\ \A i \in 1..(p - 1) : r[i] # Status(200)
  <2>1. p \in 1..Len(r) /\ p + m - 1 <= Len(q) /\ p \in Nat /\ m \in Nat
    BY <1>1, <1>2, <1>5 DEF ShowsAt
  <2>2. ASSUME NEW i \in 1..(p - 1) PROVE r[i] # Status(200)
    <3>1. i \in 1..Len(q)
      BY <1>1, <2>2
    <3>2. q[i] # Status(200)
      BY <1>5, <2>2 DEF ShowsAt
    <3> QED
      BY <1>1, <3>1, <3>2
  <2> QED
    BY <2>1, <2>2
<1>7. \A j \in 1..m : r[p + j - 1] = u[j]
  <2> SUFFICES ASSUME NEW j \in 1..m PROVE r[p + j - 1] = u[j]
    OBVIOUS
  <2>1. p + j - 1 \in 1..Len(q) /\ j \in 1..Len(s)
    BY <1>1, <1>2, <1>6
  <2> QED
    BY <1>1, <1>2, <1>5, <2>1 DEF ShowsAt
<1>8. CASE p + m - 1 = Len(q)
  <2>1. m = Len(s) /\ m + 1 \in 1..Len(u) /\ p + (m + 1) - 1 = Len(r) /\ p + (m + 1) - 1 = Len(q) + 1
    BY <1>1, <1>2, <1>5, <1>6, <1>8 DEF ShowsAt
  <2>2. \A j \in 1..(m + 1) : r[p + j - 1] = u[j]
    <3> SUFFICES ASSUME NEW j \in 1..(m + 1) PROVE r[p + j - 1] = u[j]
      OBVIOUS
    <3>1. CASE j \in 1..m
      BY <1>7, <3>1
    <3>2. CASE j = m + 1
      BY <1>1, <1>2, <2>1, <3>2
    <3> QED
      BY <1>6, <3>1, <3>2
  <2>3. ShowsAt(r, u, p, m + 1)
    BY <1>1, <1>2, <1>6, <2>1, <2>2 DEF ShowsAt
  <2> QED
    BY <1>3, <1>4, <1>6, <2>1, <2>3 DEF Shows, r, u
<1>9. CASE p + m - 1 # Len(q)
  <2>0. p + m \in 1..Len(q)
    <3>1. p \in Nat \ {0} /\ m \in Nat /\ Len(q) \in Nat /\ p + m - 1 <= Len(q)
      BY <1>1, <1>6
    <3> QED
      BY <1>9, <3>1
  <2>1. p + m \in 1..Len(q) /\ q[p + m] = Ticket
    BY <1>5, <1>9, <2>0 DEF ShowsAt
  <2>2. r[p + m] = Ticket /\ p + m - 1 # Len(r) /\ p + m - 1 <= Len(r) /\ m \in 1..Len(u)
    BY <1>1, <1>2, <1>6, <2>1
  <2>3. ShowsAt(r, u, p, m)
    BY <1>6, <1>7, <2>2 DEF ShowsAt
  <2> QED
    BY <1>3, <1>4, <1>6, <2>2, <2>3 DEF Shows, r, u
<1> QED
  BY <1>8, <1>9

\* What is cut out of a buffer that holds a 200, the answer and a ticket behind
\* it is the body of that answer.
LEMMA CutOut ==
  ASSUME NEW b \in Seq(Tokens), NEW o \in Seq(Tokens), NEW s \in Seq(Tokens), NEW h \in Origins,
         IsAnswer(s, h), Shows(b \o o, s), Complete(b), Blank \in Range(Response(b))
  PROVE  IsPage(SubSeq(Response(b), First(Response(b), Blank) + 1, Len(Response(b))), s, h)
<1> DEFINE q == b \o o
           a == First(b, Status(200))
           f == FromOK(b)
           t == First(f, Ticket)
           r == Response(b)
           at == First(r, Blank)
           page == SubSeq(r, at + 1, Len(r))
<1>len. Len(b) \in Nat /\ Len(o) \in Nat /\ Len(s) \in Nat
  BY LenProperties
<1>1. /\ q \in Seq(Tokens) /\ Len(q) \in Nat /\ Len(q) >= Len(b)
      /\ \A i \in 1..Len(b) : q[i] = b[i]
  <2>1. /\ b \o o \in Seq(Tokens) /\ Len(b \o o) = Len(b) + Len(o)
        /\ \A i \in 1..(Len(b) + Len(o)) : (b \o o)[i] = IF i <= Len(b) THEN b[i] ELSE o[i - Len(b)]
    BY ConcatProperties
  <2> QED
    BY <1>len, <2>1
<1>2. f = IF a = 0 THEN << >> ELSE SubSeq(b, a, Len(b))
  BY DEF FromOK, First
<1>3. r = SubSeq(f, 1, t - 1)
  BY DEF Response, First
<1>4. Shows(q, s) /\ Ticket \in Range(f) /\ Blank \in Range(r)
  BY DEF Complete
<1>typ. f \in Seq(Tokens) /\ r \in Seq(Tokens) /\ Len(f) \in Nat /\ Len(r) \in Nat
  BY ResponseType, LenProperties
<1> HIDE DEF q, f, r
\* The answer has begun with a 200, and the buffer is cut there.
<1>5. a \in 1..Len(b) /\ b[a] = Status(200) /\ \A i \in 1..(a - 1) : b[i] # Status(200)
  <2>1. Status(200) \in Range(b)
    <3>1. ASSUME Status(200) \notin Range(b) PROVE FALSE
      <4>1. a = 0
        BY <3>1, FirstAt
      <4>2. f = << >>
        BY <1>2, <4>1
      <4> QED
        BY <1>4, <4>2 DEF Range
    <3> QED
      BY <3>1
  <2> QED
    BY <2>1, FirstAt
<1> HIDE DEF a
<1>6. Len(f) = Len(b) - a + 1 /\ \A i \in 1..Len(f) : f[i] = b[a + i - 1]
  <2>1. f = SubSeq(b, a, Len(b)) /\ a \in Nat \ {0} /\ Len(b) \in Int /\ Len(b) <= Len(b) /\ a <= Len(b)
    BY <1>len, <1>2, <1>5
  <2>2. /\ Len(f) = IF a <= Len(b) THEN Len(b) - a + 1 ELSE 0
        /\ \A i \in 1..(Len(b) - a + 1) : f[i] = b[a + i - 1]
    BY <2>1, PartIs
  <2> QED
    BY <2>1, <2>2
<1>7. s # << >> /\ s[1] = Status(200)
  <2>1. q[a] = Status(200) /\ a \in 1..Len(q)
    BY <1>len, <1>1, <1>5
  <2>2. ~NoOK(q)
    BY <2>1 DEF NoOK
  <2> QED
    BY <1>4, <2>2 DEF Shows
<1>8. PICK p \in 1..Len(q), m \in 1..Len(s) : ShowsAt(q, s, p, m)
  BY <1>4, <1>7 DEF Shows
<1>nat. p \in Nat \ {0} /\ m \in Nat \ {0} /\ m <= Len(s) /\ a \in Nat \ {0}
  BY <1>len, <1>1, <1>5, <1>8
<1>9. p = a
  <2>1. q[p] = Status(200)
    <3>1. 1 \in 1..m /\ p + 1 - 1 = p
      BY <1>nat
    <3>2. q[p + 1 - 1] = s[1]
      BY <1>8, <3>1 DEF ShowsAt
    <3> QED
      BY <1>7, <3>1, <3>2
  <2>2. ASSUME a < p PROVE FALSE
    <3>1. a \in 1..(p - 1) /\ q[a] = Status(200)
      BY <1>nat, <1>1, <1>5, <2>2
    <3> QED
      BY <1>8, <3>1 DEF ShowsAt
  <2>3. ASSUME p < a PROVE FALSE
    <3>1. p \in 1..(a - 1) /\ p \in 1..Len(b)
      BY <1>nat, <1>len, <1>5, <2>3
    <3>2. b[p] = Status(200)
      BY <1>1, <2>1, <3>1
    <3> QED
      BY <1>5, <3>1, <3>2
  <2> QED
    BY <1>nat, <2>2, <2>3
\* The first ticket behind it ends what has been printed of the answer.
<1>10. t \in 1..Len(f) /\ f[t] = Ticket /\ \A i \in 1..(t - 1) : f[i] # Ticket
  BY <1>typ, <1>4, FirstAt
<1> HIDE DEF t
<1>11. \A i \in 1..Len(f) : f[i] = q[p + i - 1]
  <2> SUFFICES ASSUME NEW i \in 1..Len(f) PROVE f[i] = q[p + i - 1]
    OBVIOUS
  <2>1. a + i - 1 \in 1..Len(b)
    BY <1>len, <1>typ, <1>5, <1>6
  <2> QED
    BY <1>1, <1>6, <1>9, <2>1
<1>12. t > m
  <2>1. ASSUME t <= m PROVE FALSE
    <3>1. t \in 1..m /\ t \in 1..Len(s)
      BY <1>typ, <1>nat, <1>len, <1>10, <2>1
    <3>2. s[t] = Ticket
      BY <1>8, <1>10, <1>11, <3>1 DEF ShowsAt
    <3> QED
      BY <1>len, <3>1, <3>2, TokensApart DEF IsAnswer
  <2> QED
    BY <1>typ, <1>nat, <1>10, <2>1
<1>13. t = m + 1
  <2>1. m + 1 \in 1..Len(f) /\ p + (m + 1) - 1 = p + m
    BY <1>typ, <1>nat, <1>10, <1>12
  <2>2. p + m <= Len(q)
    BY <1>len, <1>1, <1>5, <1>6, <1>9, <1>nat, <2>1
  <2>3. p + m - 1 # Len(q)
    BY <1>1, <1>nat, <2>2
  <2>4. f[m + 1] = Ticket
    BY <1>8, <1>11, <2>1, <2>3 DEF ShowsAt
  <2> QED
    BY <1>typ, <1>nat, <1>10, <1>12, <2>1, <2>4
<1>14. Len(r) = m /\ \A i \in 1..m : r[i] = s[i]
  <2>1. t - 1 = m /\ m \in Int /\ m <= Len(f)
    BY <1>typ, <1>nat, <1>10, <1>13
  <2>2. /\ Len(SubSeq(f, 1, m)) = IF 1 <= m THEN m - 1 + 1 ELSE 0
        /\ \A i \in 1..(m - 1 + 1) : SubSeq(f, 1, m)[i] = f[1 + i - 1]
    BY <1>typ, <2>1, PartIs
  <2>3. r = SubSeq(f, 1, m) /\ m - 1 + 1 = m /\ 1 <= m
    BY <1>nat, <1>3, <2>1
  <2>4. ASSUME NEW i \in 1..m PROVE r[i] = s[i]
    <3>1. 1 + i - 1 = i /\ i \in 1..Len(f)
      BY <1>nat, <1>typ, <2>1
    <3>2. r[i] = f[i]
      BY <2>2, <2>3, <3>1
    <3>3. f[i] = q[p + i - 1]
      BY <1>11, <3>1
    <3> QED
      BY <1>8, <3>2, <3>3 DEF ShowsAt
  <2> QED
    BY <2>2, <2>3, <2>4
\* The headers end with the answer's second token.
<1>15. at = 2 /\ m >= 2
  <2>1. at \in 1..Len(r) /\ r[at] = Blank
    BY <1>typ, <1>4, FirstAt
  <2> HIDE DEF at
  <2>2. at \in 1..m /\ at \in 1..Len(s) /\ s[at] = Blank
    BY <1>len, <1>nat, <1>14, <2>1
  <2>3. at # 1 /\ ~(at > 2)
    BY <2>2, TokensApart DEF IsAnswer
  <2> QED
    BY <1>nat, <2>2, <2>3
<1> HIDE DEF at
<1>16. page \in Seq(Tokens) /\ Len(page) = m - 2 /\ \A i \in 1..(m - 2) : page[i] = Chunk(h, i)
  <2>1. page = SubSeq(r, 3, m)
    BY <1>14, <1>15
  <2>2. /\ SubSeq(r, 3, m) \in Seq(Tokens) /\ Len(SubSeq(r, 3, m)) = IF 3 <= m THEN m - 3 + 1 ELSE 0
        /\ \A i \in 1..(m - 3 + 1) : SubSeq(r, 3, m)[i] = r[3 + i - 1]
    <3>1. 3 \in Nat \ {0} /\ m \in Int /\ m <= Len(r)
      BY <1>nat, <1>14
    <3> QED
      BY <1>typ, <3>1, PartIs
  <2>3. m - 3 + 1 = m - 2 /\ (~(3 <= m) => m - 2 = 0)
    BY <1>nat, <1>15
  <2>4. ASSUME NEW i \in 1..(m - 2) PROVE r[3 + i - 1] = Chunk(h, i)
    <3>1. 3 + i - 1 \in 1..m /\ 3 + i - 1 > 2 /\ (3 + i - 1) - 2 = i /\ 3 + i - 1 \in 1..Len(s)
      BY <1>nat, <1>len, <1>15
    <3>2. s[3 + i - 1] = Chunk(h, (3 + i - 1) - 2)
      BY <3>1 DEF IsAnswer
    <3> QED
      BY <1>14, <3>1, <3>2
  <2> QED
    BY <2>1, <2>2, <2>3, <2>4
<1> HIDE DEF page
<1>17. page = Chunks(h, 1, m - 2)
  <2> DEFINE n == m - 2
  <2>1. n \in Nat /\ Len(page) = n /\ \A i \in 1..n : page[i] = Chunk(h, i)
    BY <1>nat, <1>15, <1>16
  <2> HIDE DEF n
  <2>2. Chunks(h, 1, n) \in Seq(Tokens) /\ Len(Chunks(h, 1, n)) = n /\ \A i \in 1..n : Chunks(h, 1, n)[i] = Chunk(h, i)
    BY <2>1, FirstChunks, PiecesAre
  <2>3. page = Chunks(h, 1, n)
    BY <1>16, <2>1, <2>2, SeqEqual
  <2> QED
    BY <2>3 DEF n
<1>18. IsPage(page, s, h)
  BY <1>len, <1>nat, <1>7, <1>16, <1>17 DEF IsPage
<1> QED
  BY <1>18 DEF page, at, r

\* A host that goes on talking leaves a page the beginning of its body.
LEMMA PageStays ==
  ASSUME NEW page, NEW s \in Seq(Tokens), NEW h, NEW x \in Tokens, IsPage(page, s, h), Len(page) \in Int
  PROVE  IsPage(page, Append(s, x), h)
<1>1. /\ Len(Append(s, x)) = Len(s) + 1 /\ Len(s) \in Nat /\ Append(s, x) # << >>
      /\ s # << >> => Append(s, x)[1] = s[1]
  <2>1. /\ Append(s, x) \in Seq(Tokens) /\ Len(Append(s, x)) = Len(s) + 1 /\ Len(s) \in Nat
        /\ \A i \in 1..Len(s) : Append(s, x)[i] = s[i]
    BY AppendIs
  <2>2. s # << >> => 1 \in 1..Len(s)
    BY EmptySeq
  <2>3. Append(s, x) # << >>
    <3>1. Len(Append(s, x)) # 0 /\ Len(<< >>) = 0
      BY <2>1
    <3> QED
      BY <3>1, Zenon
  <2>4. s # << >> => Append(s, x)[1] = s[1]
    BY <2>1, <2>2
  <2> QED
    BY <2>1, <2>3, <2>4
<1> QED
  BY <1>1 DEF IsPage

\* Every step keeps the bridge's invariant.
LEMMA NextBridgeInv ==
  ASSUME TypeInv, BridgeInv, [Next]_vars
  PROVE  BridgeInv'
<1> USE DEF startVars, clientVars, hostVars, listenVars, oldVars
<1>inv. TypeOK /\ PCs /\ Serving
  BY DEF TypeInv
<1>one. 1 \in Clients
  BY BoundsAssumption DEF Clients
<1>typ. /\ said \in Seq(Tokens) /\ out \in Seq(Tokens) /\ buf \in Seq(Tokens) /\ got[1] \in Seq(Tokens)
        /\ buf \o out \in Seq(Tokens) /\ Len(buf) \in Int /\ Len(got[1]) \in Int
  BY <1>inv, <1>one, ConcatProperties, LenProperties DEF TypeOK
<1>org. name \in Origins
  BY <1>inv DEF Serving, Origins
<1>tok. /\ Ticket \in Tokens /\ Blank \in Tokens
        /\ \A n \in Nat : Status(n) \in Tokens /\ Verified(n) \in Tokens /\ Chunk(name, n) \in Tokens
  BY <1>org DEF Ticket, Blank, Status, Verified, Chunk, Tokens, Origins
<1>other. ASSUME prog # "old_server", prog' = prog PROVE BridgeInv'
  BY <1>other DEF BridgeInv
\* Nothing happens to the client, the output and the buffer.
<1>same. ASSUME UNCHANGED <<prog, pc, cur, name, got, said, out, told, buf>>, proc' = proc \/ proc' # "running",
                openssl' = openssl \/ (openssl' = "ended" /\ openssl # "none"),
                request'[1] = request[1] \/ pc \in {"accept", "read"}
         PROVE  BridgeInv'
  BY <1>same DEF BridgeInv
<1>load. ASSUME Load, UNCHANGED oldVars PROVE BridgeInv'
  <2>1. prog # "old_server" /\ prog' = prog
    BY <1>inv, <1>load DEF Load, PCs
  <2> QED
    BY <1>other, <2>1
<1>world. ASSUME World, UNCHANGED oldVars PROVE BridgeInv'
  <2>1. UNCHANGED <<prog, proc, pc, cur, name, got>> /\ (UNCHANGED request \/ pc = "read")
    BY <1>world DEF World, ClientConnect, ClientRequest, ClientEnds, HostSend, HostEnds
  <2> QED
    BY <1>world, <1>same, <2>1
<1>ssl. ASSUME SslNext PROVE BridgeInv'
  BY <1>ssl, <1>other, OwnSteps
<1>red. ASSUME RNext PROVE BridgeInv'
  BY <1>red, <1>other, OwnSteps
<1>old. ASSUME ONext PROVE BridgeInv'
  <2>prog. prog = "old_server" /\ proc = "running"
    BY <1>old, OwnSteps
  \* What openssl prints besides the answer.
  <2>prints. ASSUME NEW x \in Tokens, x # Status(200), Prints(x), UNCHANGED said,
                    openssl = "handshake" \/ (openssl = "up" /\ x = Ticket), openssl' = "up"
             PROVE  BridgeInv'
    <3>1. UNCHANGED <<prog, proc, pc, cur, name, request, got, told, buf>> /\ out' = Append(out, x)
      BY <2>prints DEF Prints
    <3>2. ASSUME NoOK(out) PROVE NoOK(out')
      <4>1. /\ Len(out') = Len(out) + 1 /\ Len(out) \in Nat /\ (\A i \in 1..Len(out) : out'[i] = out[i])
            /\ out'[Len(out) + 1] = x
        BY <1>typ, <2>prints, <3>1, AppendIs
      <4> SUFFICES ASSUME NEW i \in 1..Len(out') PROVE out'[i] # Status(200)
        BY DEF NoOK
      <4>2. CASE i <= Len(out)
        BY <3>2, <4>1, <4>2 DEF NoOK
      <4>3. CASE ~(i <= Len(out))
        BY <2>prints, <4>1, <4>3
      <4> QED
        BY <4>2, <4>3
    <3>3. ASSUME Shows(buf \o out, said) PROVE Shows(buf' \o out', said')
      <4>1. buf' \o out' = Append(buf \o out, x)
        BY <1>typ, <2>prints, <3>1, PrintedOn
      <4>2. x = Ticket \/ said = << >>
        BY <2>prog, <2>prints DEF BridgeInv
      <4>3. Shows(Append(buf \o out, x), said)
        BY <1>typ, <2>prints, <3>3, <4>2, ShowsOther
      <4> QED
        BY <2>prints, <4>1, <4>3
    <3> QED
      BY <2>prog, <2>prints, <3>1, <3>2, <3>3 DEF BridgeInv
  <2>1. ASSUME NEW code \in 0..1, OVerify(code) PROVE BridgeInv'
    <3>1. Verified(code) \in Tokens /\ Verified(code) # Status(200)
      BY <1>tok, TokensApart
    <3> QED
      BY <2>1, <2>prints, <3>1 DEF OVerify
  <2>2. ASSUME OTicket PROVE BridgeInv'
    BY <1>tok, <2>2, <2>prints, TokensApart DEF OTicket
  <2>3. ASSUME NEW x \in Following, OAnswer(x) PROVE BridgeInv'
    <3>1. /\ openssl = "up" /\ told /\ said' = Append(said, x) /\ out' = Append(out, x)
          /\ UNCHANGED <<prog, proc, pc, cur, name, request, got, told, buf, openssl>>
      BY <2>3 DEF OAnswer, Prints
    <3>2. Len(said) \in Nat /\ (said = << >> <=> Len(said) = 0)
      BY <1>typ, LenProperties, EmptySeq
    <3>n. /\ Len(said) = 0 \/ Len(said) = 1 \/ Len(said) > 1
          /\ Len(said) > 1 => Len(said) # 0 /\ Len(said) # 1 /\ Len(said) - 1 \in Nat
      <4> DEFINE n == Len(said)
      <4>1. n \in Nat
        BY <3>2
      <4> HIDE DEF n
      <4>2. /\ n = 0 \/ n = 1 \/ n > 1
            /\ n > 1 => n # 0 /\ n # 1 /\ n - 1 \in Nat
        BY <4>1
      <4> QED
        BY <4>2 DEF n
    <3>3. /\ Len(said) = 0 => x \in {Status(200), Status(404)}
          /\ Len(said) = 1 => x = Blank
          /\ Len(said) > 1 => x = Chunk(name, Len(said) - 1)
      <4>1. CASE Len(said) = 0
        BY <2>3, <4>1 DEF Following
      <4>2. CASE Len(said) = 1
        BY <2>3, <4>2 DEF Following
      <4>3. CASE Len(said) > 1
        <5>1. Len(said) # 0 /\ Len(said) # 1
          BY <3>n, <4>3
        <5>2. Following = {Chunk(name, n) : n \in {Len(said) - 1} \cap 1..MaxChunks}
          BY <5>1 DEF Following
        <5>3. PICK n \in {Len(said) - 1} \cap 1..MaxChunks : x = Chunk(name, n)
          BY <2>3, <5>2
        <5> QED
          BY <5>1, <5>3
      <4> QED
        BY <3>2, <4>1, <4>2, <4>3
    <3>4. x \in Tokens /\ (Len(said) > 0 => x # Status(200))
      <4>1. CASE Len(said) = 0
        BY <1>tok, <3>3, <4>1
      <4>2. CASE Len(said) = 1
        BY <1>tok, <3>3, <4>2, TokensApart
      <4>3. CASE Len(said) > 1
        <5>1. Len(said) - 1 \in Nat
          BY <3>n, <4>3
        <5> QED
          BY <1>tok, <3>3, <4>3, <5>1, TokensApart
      <4> QED
        BY <3>n, <4>1, <4>2, <4>3
    <3>5. /\ Len(said') = Len(said) + 1 /\ (\A i \in 1..Len(said) : said'[i] = said[i])
          /\ said'[Len(said) + 1] = x /\ said' \in Seq(Tokens)
      BY <1>typ, <3>1, <3>4, AppendIs
    <3>6. IsAnswer(said', name)
      <4> SUFFICES ASSUME NEW j \in 1..Len(said')
                   PROVE  /\ j = 1 => said'[j] \in {Status(200), Status(404)}
                          /\ j = 2 => said'[j] = Blank
                          /\ j > 2 => said'[j] = Chunk(name, j - 2)
        BY DEF IsAnswer
      <4>1. CASE j \in 1..Len(said)
        BY <2>prog, <3>5, <4>1 DEF BridgeInv, IsAnswer
      <4>2. CASE j = Len(said) + 1
        <5>1. said'[j] = x /\ j - 2 = Len(said) - 1
          BY <3>2, <3>5, <4>2
        <5> QED
          BY <3>2, <3>3, <4>2, <5>1
      <4> QED
        BY <3>2, <3>5, <4>1, <4>2
    <3>7. pc \notin {"accept", "read", "verify", "send"}
      BY <2>prog, <3>1 DEF BridgeInv
    <3>8. ASSUME Shows(buf \o out, said) PROVE Shows(buf' \o out', said')
      <4>1. buf' \o out' = Append(buf \o out, x)
        BY <1>typ, <3>1, <3>4, PrintedOn
      <4>2. CASE said = << >>
        <5>1. said' = <<x>>
          BY <3>1, <4>2
        <5>2. Shows(Append(buf \o out, x), <<x>>)
          BY <1>typ, <3>4, <3>8, <4>2, ShowsFirst
        <5> QED
          BY <4>1, <5>1, <5>2
      <4>3. CASE said # << >>
        <5>1. Shows(Append(buf \o out, x), Append(said, x))
          <6> DEFINE q == buf \o out
          <6>1. q \in Seq(Tokens) /\ Shows(q, said) /\ x \in Tokens /\ x # Status(200) /\ said \in Seq(Tokens)
            BY <1>typ, <3>2, <3>4, <3>8, <4>3
          <6> HIDE DEF q
          <6>2. Shows(Append(q, x), Append(said, x))
            BY <4>3, <6>1, ShowsNext
          <6> QED
            BY <6>2 DEF q
        <5> QED
          BY <3>1, <4>1, <5>1
      <4> QED
        BY <4>2, <4>3
    <3>9. (IsPage(buf, said, name) => IsPage(buf', said', name)) /\ (IsPage(got[1], said, name) => IsPage(got'[1], said', name))
      BY <1>typ, <3>1, <3>4, PageStays
    <3> QED
      BY <2>prog, <3>1, <3>6, <3>7, <3>8, <3>9 DEF BridgeInv
  <2>4. ASSUME OEnds PROVE BridgeInv'
    <3>1. /\ UNCHANGED <<prog, proc, pc, cur, name, request, got, said, out, told, buf>>
          /\ openssl # "none" /\ openssl' = "ended"
      BY <2>4 DEF OEnds
    <3> QED
      BY <1>same, <3>1
  <2>5. ASSUME NEW c \in Clients, OAccept(c) PROVE BridgeInv'
    <3>1. /\ pc = "accept" /\ pc' = "read" /\ c = cur + 1 /\ cur' = c
          /\ UNCHANGED <<prog, proc, name, request, got, oldVars>>
      BY <2>5 DEF OAccept, Accepts
    <3>2. cur = 0
      BY <2>prog, <3>1 DEF BridgeInv
    <3> QED
      BY <2>prog, <3>1, <3>2 DEF BridgeInv
  <2>read. ASSUME ORead PROVE BridgeInv'
    <3>1. /\ pc = "read" /\ pc' = "verify" /\ UNCHANGED <<prog, proc, cur, request, got, said, out, told, buf>>
          /\ openssl' = "ended" \/ (openssl' = "handshake" /\ name' = request[cur].name)
      BY <2>read DEF ORead, Arrived, Nothing
    <3>2. cur = 1 /\ said = << >> /\ got[1] = << >>
      BY <2>prog, <3>1 DEF BridgeInv
    <3>3. IsAnswer(<< >>, name') /\ IsPage(<< >>, << >>, name')
      BY DEF IsAnswer, IsPage
    <3> QED
      BY <2>prog, <3>1, <3>2, <3>3 DEF BridgeInv
  <2>6. ASSUME NEW k \in 1..PipeCap, OReadVerify(k) PROVE BridgeInv'
    <3>1. /\ pc = "verify" /\ pc' \in {"verify", "send"} /\ k <= Len(out) /\ out' = SubSeq(out, k + 1, Len(out))
          /\ UNCHANGED <<prog, proc, cur, name, request, got, openssl, said, told>>
      BY <2>6 DEF OReadVerify, OReads
    <3>2. NoOK(out) /\ k \in Nat \ {0} /\ Len(out) \in Nat
      BY <1>typ, <2>prog, <3>1, PipeAssumption, LenProperties DEF BridgeInv
    <3>3. NoOK(out')
      <4>1. /\ Len(out') = IF k + 1 <= Len(out) THEN Len(out) - (k + 1) + 1 ELSE 0
            /\ \A i \in 1..(Len(out) - (k + 1) + 1) : out'[i] = out[(k + 1) + i - 1]
        <5>1. k + 1 \in Nat \ {0} /\ Len(out) \in Int /\ Len(out) <= Len(out)
          BY <3>2
        <5>2. out \in Seq(Tokens) /\ out' = SubSeq(out, k + 1, Len(out))
          BY <1>typ, <3>1
        <5> DEFINE m == k + 1
        <5> HIDE DEF m
        <5>3. /\ Len(SubSeq(out, m, Len(out))) = IF m <= Len(out) THEN Len(out) - m + 1 ELSE 0
              /\ \A i \in 1..(Len(out) - m + 1) : SubSeq(out, m, Len(out))[i] = out[m + i - 1]
          BY <5>1, <5>2, PartIs DEF m
        <5> QED
          BY <5>2, <5>3, Zenon DEF m
      <4> SUFFICES ASSUME NEW i \in 1..Len(out') PROVE out'[i] # Status(200)
        BY DEF NoOK
      <4>2. i \in 1..(Len(out) - (k + 1) + 1) /\ (k + 1) + i - 1 \in 1..Len(out)
        BY <3>2, <4>1
      <4> QED
        BY <3>2, <4>1, <4>2 DEF NoOK
    <3> QED
      BY <2>prog, <3>1, <3>3 DEF BridgeInv
  <2>7. ASSUME NEW k \in 1..PipeCap, OReadResponse(k) PROVE BridgeInv'
    <3>1. /\ pc = "response" /\ k <= Len(out) /\ out' = SubSeq(out, k + 1, Len(out))
          /\ buf' = buf \o SubSeq(out, 1, k) /\ pc' = IF Complete(buf') THEN "extract" ELSE "response"
          /\ UNCHANGED <<prog, proc, cur, name, request, got, openssl, said, told>>
      BY <2>7 DEF OReadResponse, OReads, With
    <3>2. buf' \o out' = buf \o out
      <4>1. k \in Nat
        BY PipeAssumption
      <4>2. (buf \o SubSeq(out, 1, k)) \o SubSeq(out, k + 1, Len(out)) = buf \o out
        BY <1>typ, <3>1, <4>1, ReadOn
      <4> QED
        BY <3>1, <4>2
    <3> QED
      BY <2>prog, <3>1, <3>2 DEF BridgeInv
  <2>8. ASSUME OSend PROVE BridgeInv'
    <3>1. /\ pc = "send" /\ pc' = "response" /\ buf' = << >> /\ UNCHANGED <<prog, proc, cur, name, request, got, openssl, said, out>>
      BY <2>8 DEF OSend
    <3>2. said = << >> /\ NoOK(out)
      BY <2>prog, <3>1 DEF BridgeInv
    <3>3. buf' \o out' = out
      BY <1>typ, <3>1, ConcatEmptySeq
    <3>4. Shows(buf' \o out', said')
      BY <3>1, <3>2, <3>3 DEF Shows
    <3> QED
      BY <2>prog, <3>1, <3>4 DEF BridgeInv
  <2>9. ASSUME OExtract PROVE BridgeInv'
    <3>1. pc = "extract" /\ UNCHANGED <<prog, cur, name, request, got, openssl, said, out, told>>
      BY <2>9 DEF OExtract
    <3>2. CASE Blank \in Range(Response(buf))
      <4>1. /\ buf' = SubSeq(Response(buf), First(Response(buf), Blank) + 1, Len(Response(buf)))
            /\ pc' = "wait" /\ UNCHANGED proc
        BY <2>9, <3>2 DEF OExtract, First
      <4>2. IsAnswer(said, name) /\ Shows(buf \o out, said) /\ Complete(buf)
        BY <2>prog, <3>1 DEF BridgeInv
      <4>3. IsPage(buf', said, name)
        BY <1>typ, <1>org, <3>2, <4>1, <4>2, CutOut
      <4> QED
        BY <2>prog, <3>1, <4>1, <4>3 DEF BridgeInv
    <3>3. CASE Blank \notin Range(Response(buf))
      BY <1>same, <2>9, <3>1, <3>3 DEF OExtract
    <3> QED
      BY <3>2, <3>3
  <2>10. ASSUME OWait PROVE BridgeInv'
    <3>1. pc = "wait" /\ pc' = "write" /\ UNCHANGED <<prog, proc, cur, name, request, got, oldVars>>
      BY <2>10 DEF OWait
    <3> QED
      BY <2>prog, <3>1 DEF BridgeInv
  <2>11. ASSUME OWrite PROVE BridgeInv'
    <3>1. pc = "write" /\ Sends(cur, buf) /\ proc' = "exited" /\ UNCHANGED <<prog, pc, cur, name, request, oldVars>>
      BY <2>11 DEF OWrite
    <3>2. cur = 1 /\ got[1] = << >> /\ IsPage(buf, said, name)
      BY <2>prog, <3>1 DEF BridgeInv
    <3>3. got'[1] = << >> \/ got'[1] = buf
      <4>1. << >> \o buf = buf
        BY <1>typ, ConcatEmptySeq
      <4>2. Sends(1, buf)
        BY <3>1, <3>2
      <4> QED
        BY <1>inv, <1>one, <3>2, <4>1, <4>2, SendsIs
    <3>4. IsPage(got'[1], said, name)
      BY <3>2, <3>3 DEF IsPage
    <3> QED
      BY <2>prog, <3>1, <3>2, <3>4 DEF BridgeInv
  <2> QED
    BY <1>old, <2>1, <2>2, <2>3, <2>4, <2>5, <2>read, <2>6, <2>7, <2>8, <2>9, <2>10, <2>11 DEF ONext, OMain
<1>stay. CASE UNCHANGED vars
  BY <1>stay, <1>same DEF vars
<1> QED
  BY <1>load, <1>world, <1>ssl, <1>red, <1>old, <1>stay DEF Next, Rests

-----------------------------------------------------------------------------
(* The theorems                                                            *)

\* Everything that holds in every reachable state.
IInv == TypeInv /\ ListedInv /\ StarvedByRefusals /\ RedirectInv /\ TunnelInv /\ BridgeInv

\* It holds at the start.
LEMMA InitIInv == Init => IInv
<1> SUFFICES ASSUME Init PROVE IInv
  OBVIOUS
<1>0. 1 \in Clients
  BY BoundsAssumption DEF Clients
<1>1. TypeInv
  BY InitTypeInv
<1>2. ListedInv /\ StarvedByRefusals
  BY DEF Init, ListenInit, ListedInv, StarvedByRefusals
<1>3. RedirectInv
  <2>1. /\ pc \in {"load", "accept"} /\ cur = 0 /\ (pc # "accept" => prog # "old_server")
        /\ \A c \in Clients : got[c] = << >>
    BY DEF Init, ListenInit
  <2>2. VerdictFits
    BY <2>1 DEF VerdictFits
  <2> QED
    BY <2>1, <2>2 DEF RedirectInv
<1>4. TunnelInv
  BY <1>0 DEF Init, ListenInit, SslInit, TunnelInv
<1>5. BridgeInv
  <2>1. IsAnswer(<< >>, << >>) /\ NoOK(<< >>) /\ IsPage(<< >>, << >>, << >>)
    BY DEF IsAnswer, NoOK, IsPage
  <2> QED
    BY <1>0, <2>1 DEF Init, ListenInit, OInit, BridgeInv
<1> QED
  BY <1>1, <1>2, <1>3, <1>4, <1>5 DEF IInv

\* The inductive invariant holds in every reachable state.
THEOREM Invariance == Spec => []IInv
<1>1. Init => IInv
  BY InitIInv
<1>2. IInv /\ [Next]_vars => IInv'
  BY NextTypeInv, NextListedInv, NextStarved, NextRedirectInv, NextTunnelInv, NextBridgeInv DEF IInv
<1> QED
  BY <1>1, <1>2, PTL DEF Spec

\* Whichever prototype runs, its variables keep their types: no size is negative
\* and no more descriptors are closed than were opened.
THEOREM TypeCorrect == Spec => []TypeOK
<1>1. IInv => TypeOK
  BY DEF IInv, TypeInv
<1> QED
  BY <1>1, Invariance, PTL

\* Neither proxy ever connects to a host on its list, whatever the list and
\* the requests, with the reservation for a last line without a newline.
THEOREM ListHonoured == Spec => []ListedNeverContacted
<1>1. IInv => ListedNeverContacted
  <2> SUFFICES ASSUME IInv, NEW h \in contacted, NEW i \in DOMAIN blocked
               PROVE  IF prog = "redirect" THEN ~IsPrefix(file[i].text, h) ELSE file[i].nl => file[i].text # h
    BY DEF ListedNeverContacted
  <2>1. TypeOK /\ Loaded /\ Unlisted(h)
    BY DEF IInv, TypeInv, ListedInv
  <2>2. file \in Seq(Lines) /\ blocked = [j \in DOMAIN file |-> Cut(file[j])]
    BY <2>1 DEF Loaded
  <2>3. i \in DOMAIN file /\ blocked[i] = Cut(file[i]) /\ file[i] \in Lines
    BY <2>2, LenProperties, ElementOfSeq
  <2>4. h \in Seq(STRING)
    BY <2>1, NamesAssumption DEF TypeOK
  <2>5. CASE prog = "redirect"
    <3>1. ~IsPrefix(Cut(file[i]), h)
      BY <2>1, <2>3, <2>5 DEF Unlisted, Blocks
    <3> QED
      BY <2>3, <2>4, <2>5, <3>1, CutIs
  <2>6. CASE prog # "redirect"
    <3>1. Cut(file[i]) # h
      BY <2>1, <2>3, <2>6 DEF Unlisted, Range
    <3> QED
      BY <2>3, <2>6, <3>1, CutIs
  <2> QED
    BY <2>5, <2>6
<1> QED
  BY <1>1, Invariance, PTL

\* ssl-redirect.c never mixes, repeats or reorders the two streams of its tunnel,
\* and the verdict comes first, however its two loops take turns.
THEOREM TunnelFaithful == Spec => []StreamsFaithful
<1>1. IInv => StreamsFaithful
  <2> SUFFICES ASSUME IInv, prog = "ssl-redirect"
               PROVE  /\ IsPrefix(toHost, Chunks(NULL, 1, csent))
                      /\ got[1] # << >> =>
                           IF request[1].name \in Range(blocked) THEN got[1] = <<Status(403)>>
                           ELSE IsPrefix(got[1], <<Status(200)>> \o Chunks(request[1].name, 1, hsent))
    BY DEF StreamsFaithful
  <2>1. TypeOK /\ PCs /\ TunnelInv
    BY DEF IInv, TypeInv
  <2>2. /\ csent \in Nat /\ cread \in Nat /\ cread <= csent /\ hread \in Nat /\ hsent \in Nat
        /\ toHost \in Seq(Tokens) /\ Len(toHost) \in Nat
    BY <2>1, BoundsAssumption, LenProperties DEF TypeOK
  <2>3. Status(200) \in Tokens /\ NULL \in Origins
    BY DEF Status, Tokens, Origins
  <2>4. CASE pc # "tunnel"
    <3>1. toHost = Chunks(NULL, 1, 0) /\ 0 <= csent
      BY <2>1, <2>2, <2>3, <2>4, NoChunks DEF TunnelInv
    <3>2. IsPrefix(toHost, Chunks(NULL, 1, csent))
      BY <2>2, <2>3, <3>1, ChunksPrefix
    <3>3. got[1] # << >> => got[1] = <<Status(403)>> /\ request[1].name \in Range(blocked)
      BY <2>1, <2>4 DEF TunnelInv
    <3> QED
      BY <3>2, <3>3
  <2>5. CASE pc = "tunnel"
    <3>1. UpInv /\ DownInv /\ host = request[1].name /\ host \in Origins /\ request[1].name \notin Range(blocked)
      BY <2>1, <2>5, NamesAssumption DEF TunnelInv, TypeOK, Origins
    <3>2. IsPrefix(toHost, Chunks(NULL, 1, csent))
      <4> DEFINE k == Len(toHost)
      <4>1. toHost = Chunks(NULL, 1, k) /\ k \in Nat /\ k <= csent
        BY <2>2, <3>1 DEF UpInv
      <4> HIDE DEF k
      <4>2. IsPrefix(Chunks(NULL, 1, k), Chunks(NULL, 1, csent))
        BY <2>2, <2>3, <4>1, ChunksPrefix
      <4> QED
        BY <4>1, <4>2
    <3>3. ASSUME got[1] # << >> PROVE IsPrefix(got[1], <<Status(200)>> \o Chunks(request[1].name, 1, hsent))
      <4> DEFINE k == Len(got[1]) - 1
      <4>0. Len(got[1]) \in Nat \ {0}
        <5>1. got[1] \in Seq(Tokens)
          BY <2>1, BoundsAssumption DEF TypeOK, Clients
        <5> QED
          BY <3>3, <5>1, EmptySeq
      <4>1. got[1] = <<Status(200)>> \o Chunks(request[1].name, 1, k) /\ k \in Nat /\ k <= hsent
        BY <2>2, <3>1, <3>3, <4>0 DEF DownInv
      <4> HIDE DEF k
      <4>2. IsPrefix(<<Status(200)>> \o Chunks(request[1].name, 1, k), <<Status(200)>> \o Chunks(request[1].name, 1, hsent))
        BY <2>2, <2>3, <3>1, <4>1, ChunksPrefix
      <4> QED
        BY <4>1, <4>2
    <3> QED
      BY <3>1, <3>2, <3>3
  <2> QED
    BY <2>4, <2>5
<1> QED
  BY <1>1, Invariance, PTL

\* redirect.c sends away every client whose whole name begins with a line of the
\* block list as it was written, and no other but for the last letter of a line without
\* a newline; those it sends away get the redirection first and behind it pieces of the
\* refuge's page only, in order, whatever host it was connected to before.
THEOREM VerdictsFit == Spec => []VerdictFits
<1>1. IInv => VerdictFits
  BY DEF IInv, RedirectInv, VerdictFits
<1> QED
  BY <1>1, Invariance, PTL

\* A refused client costs redirect.c one descriptor and no more, so it starves
\* only after all but two have been left open.
THEOREM OneEachRefusal == Spec => []StarvedByRefusals
<1>1. IInv => StarvedByRefusals
  BY DEF IInv
<1> QED
  BY <1>1, Invariance, PTL

\* The client of old_server.c is sent the beginning of the body of a 200 answer of
\* the host it asked for and nothing else, wherever the reads cut openssl's output and whenever the
\* tickets are reported.
THEOREM OnlyBody == Spec => []BodyOnly
<1>1. IInv => BodyOnly
  <2> SUFFICES ASSUME IInv, prog = "old_server", got[1] # << >>
               PROVE  said[1] = Status(200) /\ IsPrefix(got[1], Chunks(request[1].name, 1, Len(said) - 2))
    BY DEF BodyOnly
  <2>1. TypeOK /\ IsPage(got[1], said, request[1].name) /\ request[1].name \in Origins
    <3>1. TypeOK /\ Serving /\ IsPage(got[1], said, name) /\ (said # << >> => name = request[1].name)
      BY DEF IInv, TypeInv, BridgeInv
    <3>2. said # << >>
      BY <3>1 DEF IsPage
    <3> QED
      BY <3>1, <3>2 DEF Serving, Origins
  <2>2. got[1] \in Seq(Tokens) /\ said \in Seq(Tokens)
    BY <2>1, BoundsAssumption DEF TypeOK, Clients
  <2> DEFINE k == Len(got[1])
             n == Len(said) - 2
  <2>3. said[1] = Status(200) /\ k <= n /\ got[1] = Chunks(request[1].name, 1, k)
    BY <2>1 DEF IsPage
  <2>4. k \in Nat /\ n \in Nat
    BY <2>2, <2>3, LenProperties
  <2>5. Status(200) \in Tokens
    BY DEF Status, Tokens
  <2> HIDE DEF k, n
  <2>6. IsPrefix(Chunks(request[1].name, 1, k), Chunks(request[1].name, 1, n))
    BY <2>1, <2>3, <2>4, <2>5, ChunksPrefix
  <2> QED
    BY <2>3, <2>6 DEF n
<1> QED
  BY <1>1, Invariance, PTL

=============================================================================
