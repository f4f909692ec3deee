# A TLA+ model of 296Proxy

296Proxy is a small family of C programs around one idea: a forward proxy that
refuses the hosts named in `blocked_list.txt`. The current proxy is `server.c`
(a CONNECT proxy with threads); the other servers are earlier prototypes; the
`Containers` directory holds a launcher that runs commands in namespaces.

This directory models the parts whose correctness depends on interleavings,
on the reuse of descriptor numbers, on the way TCP cuts messages, or on a data
structure with several moving parts. TLC checks the models on small instances;
TLAPS proves every safety property that holds of the models for all values of
their constants: any number of clients, hosts, descriptors and tokens, any block
list, hash function and table size.

## Inventory

| Part | State | Operations | Interacts with | What is hard |
|---|---|---|---|---|
| `server.c` main | `client_fd` (one variable for all connections), the listening socket | accept, `pthread_create` | hands `&client_fd` to every handler | the variable is overwritten while a new thread may not have read it |
| `server.c` HandleConnection | `client_fd`, `dest_fd`, `inf`, `buffer`, `fds` | read and parse the request, refuse or connect, answer, copy client to host, shut down and close both sockets | hands `fds` (on its stack) to HostToCli; shares both descriptors with it | the relay outlives the handler; numbers are reused after close |
| `server.c` HostToCli | copies of both descriptors, `buffer` | copy host to client until end of stream | writes to a descriptor the handler may have closed | stale descriptors, end of stream not passed on |
| `utils.c` | none | `connect_to_server`, `parseHost`, `write_all_to_socket`, `read_all_from_socket` | called by the handlers | unchecked results, requests that arrive in pieces |
| `set.c`, `set.h` | `nodes`, `number_nodes`, `used_nodes`, `hash_function` | init, add, remove, contains, clear, destroy, length, to_array; union, intersection, difference, subset, comparison of two sets | the block list of `server.c` | probe chains that wrap, relayout while growing or removing, failed `realloc` |
| block list loading (`server.c`, `ssl-redirect.c`, `redirect.c`) | the lines of `blocked_list.txt` | cut the last character, store the name | before the first accept | a last line without a newline, an empty line |
| `multiproc_serv.c`, `multiproc_client.c` | `thread_num`, one `payload` per thread; the client's two `recv` calls | accept, greet, receive a name, refuse or fetch, send back, close | threads share only the process; any of them can end it | joined messages, early return of main, `exit` and SIGPIPE in one thread |
| `Containers/container.c` | `containers`, `containerId`, the `checkpoint` pipe, `busyboxN` directories | launch (copy, clone, network set-up, record), child start, SIGINT clean-up | parent and children over a pipe, signals, one pair of network devices | SIGINT between clone and record, the pipe that works once, the device names that are used once |
| `ssl-redirect.c` | the block set, one client, one host, two buffers | request, refuse or connect, relay both ways | two threads share both sockets | end of stream that no loop notices, SIGPIPE |
| `redirect.c` | `block_arr`, the descriptors it leaves open | request, refuse (301 and a refuge page) or fetch and answer 200 | the refuge host | counts that a -1 is added to, a descriptor lost per refusal, a refuge that is itself listed |
| `old_server.c` | `buffer`, two pipes to an `openssl` child | start openssl, wait for its verdict, send a line, cut the page out of its output, wait for its end | openssl over pipes that both processes hold open | where the output is cut, everybody waiting for everybody |
| `client.c`, `Containers/test.c`, busybox, headers and libraries | - | straight-line examples, third-party files | - | not modelled |

Correctness, part by part: a handler talks to the client it was created for;
a blocked host is never contacted; what goes into a tunnel comes out at its
other end and nowhere else; what is opened is closed once and by its owner; a
request is answered; a client that leaves frees what it used. The set answers
like a mathematical set. The older proxy gives every client its own answer and
lets it end. A prototype contacts no listed host, mixes no streams, and waits
only for what can still come. The launcher gives every container its network
and its root, and cleans up after all of them.

## Modules

`ProxyServer` models `server.c` and the functions of `utils.c` it calls. One
variable per C variable that matters: `slot` is main's `client_fd`; `cfd`,
`dfd`, `host`, `hbuf` are the handler's locals, `rcfd`, `rdfd`, `rbuf` the
relay's; `hpc` and `rpc` are the program counters. `fdtab` is the process's
descriptor table: accept and socket take the lowest free number, close frees it,
and nothing ties a thread to the number it holds, exactly as in the process.
Each system call is an action of its own, because another thread may run
between any two of them. Clients and hosts (connect, send the request, send
data, shut down their sending side, leave) are the environment. A peer that has
only stopped sending (`fin`) makes `read()` return 0 and still receives what is
written to it; to one that has left (`gone`) writes are lost. Data are tokens; a read returns any non-empty
prefix of what has arrived, so a request may come in pieces. A failed assert, a
NULL dereference and a read of an unmapped stack end the process: `fault` says
why and nothing happens afterwards. The undefined read of `fds` after the
handler's return has three outcomes (`RelayStart`, `RelayStartStale`,
`RelayStartFaults`): the old values, the `fds` of a later handler on the same
stack, or a memory fault. A write is taken to complete: a peer that stops
reading for ever is not modelled, nor are signals (SIGPIPE is ignored and EINTR
is retried by every loop).

`Arrivals` states how clients connect. `"any"`: no restriction. `"paced"`: a
client connects only when no other connection is between its `connect()` and
its handler's copy of `client_fd`; tunnels still run side by side. `"serial"`:
only when the threads of all earlier connections are over. The program enforces
none of this; the three values separate what holds always from what holds as
long as connections do not meet in main, and from what needs the descriptor
numbers not to be reused under a running relay.

`KeySet` is what `set.h` promises: a mathematical set, each call atomic.
`SimpleSet` models `set.c`: the table, linear probing with wrap-around,
doubling above a quarter full, removal. A call is one step, except that the
loop of `__relayout_nodes` takes one step per slot, so that what holds in the
middle of it can be stated; no other call starts meanwhile, as in the
single-threaded callers. The hash function is a parameter and every function
over the chosen values is explored. `SimpleSet` is shown to implement `KeySet`,
with the stored keys as the abstract set (a removal counts when `set_remove`
returns).

`MultiprocServ` composes `multiproc_serv.c` with `multiproc_client.c`. A name
is a sequence of letters and every other message a sequence of pieces; a
`recv()` on either side returns any beginning of what has arrived, so messages
come cut and joined. A thread opens `block_file`, which may fail, compares what
it received with the lines as the loop cuts them, and leaves the file open. The
threads share nothing but the process: `proc` ends by main's return, by
`exit(1)`, by SIGPIPE or by the use of the uninitialised `servinfo2`.

`Container` models `container.c`: the launcher (`ppc` and its variables), one
process per container (`cpc`, `root`, `address`), and what they share: the
write ends of the `checkpoint` pipe, the one device pair, the directories. A
container starts with a copy of the launcher's memory, so a SIGINT that reaches
it runs the launcher's handler on the vector as it was at its `clone()`.
`system()` ignores SIGINT, so signals fall between commands. `cp`, `clone()`,
`ip link add` and `pivot_root` may fail, and the code goes on. `uncopied` and
`struck` are history variables. `SleepSuffices` says whether `sleep(1)`
outlasts the launcher's set-up; the pipe must do without it.

`Listener` holds what the three prototypes share: the block list as it is
loaded (names are sequences of characters, because the programs cut and compare
prefixes), clients with their requests, one host at a time. All three bind port
1358, so `prog` is chosen once. `accept()` and the `read()` of the request are
two steps: a client that has been accepted may stay silent for as long as it
likes. A request arrives in one read: with a whole `Host: name:port` line,
without the port, cut within the line, or without it. A piece of data names the
host it comes from, so a page of the wrong host shows.
`SslRedirect`, `Redirect` and `OldServer` each extend `Listener` with their
program, and `Prototypes` composes them. In `SslRedirect` the two relay loops
are separate processes with their buffers; a write to a peer that has gone is
lost or raises SIGPIPE. In `Redirect`, `fds` counts open descriptors, and
`sendReq` is abstracted to how much of the page it returns, with the arithmetic
of its errors; a `read()` that fails leaves the request of the client before in
the buffer, and it is parsed again (`RStale`). In `OldServer`, openssl and its host are external: they print
the verdict, tickets and an answer in any order the protocol allows, into a
pipe that holds `PipeCap` tokens.

`MCProxyServer`, `MCSimpleSet`, `MCMultiprocServ`, `MCContainer` and
`MCPrototypes` hold what only model checking needs; `ProxyServerProofs`,
`ProxyTunnelProofs`, `SimpleSetProofs`, `MultiprocServProofs`, `ContainerProofs`
and `PrototypesProofs` hold the theorems. Operators introduced by "Mutant of ..." are deliberately wrong
variants of the definition that follows them; no specification uses them. They
record, for each property, a bug of this code that the property would catch.

## Runs

| Run | Instance | Shows |
|---|---|---|
| `proxy_paced` | paced, 2 clients, 4 descriptors, no data | `TypeOK`, `BlockedNeverContacted` (proved for any arrivals), `ServesOwnClient`, `ReplyMatchesRequest`, `NoDescriptorLeak`, `NoForeignClose` with tunnels side by side |
| `proxy_scarce` | paced, fair, 2 clients, 2 descriptors | `ExhaustedOnlyByLoad`, `DepartureReleases` while numbers are reused at once |
| `proxy_serial` | serial, fair, 2 clients, 4 descriptors, 1 token each way in one of the tunnels | `TunnelIntegrity`, `TunnelDelivers`, `RequestsAnswered`, `DepartureEndsThreads` |
| `proxy_race` | any arrivals | violation of `ServesOwnClient`: two accepts before the first handler reads `client_fd` |
| `proxy_crossed` | paced | violation of `TunnelIntegrity`: a relay writes to a number that now belongs to another client |
| `set_calls` | 4 keys, all functions to {0, 1, 3, 7, 15}, initial sizes 2 and 4, up to 16, removals while no chain wraps | `TypeOK`, `Findable`, `NeverCircular`, `CountExact`, `RelayoutKeepsKeys`, `Implements` |
| `set_remove_wraps` | hashes 0 and 3, size 4 | violation of `Findable`: a removal cuts off a key that had wrapped to slot 0 |
| `multiproc` | 2 clients, MAX_THREADS 2, fair, messages of 2 pieces, a listed name of 2 letters that begins with another host's, a last line without a newline | `TypeOK`, `AnswerMatchesRequest`, `DoneHasAnswer`, `DescriptorsBounded`, `ServedClientsFinish` |
| `multiproc_returns` | 2 clients, MAX_THREADS 1, messages of 1 piece, fair | violation of `PageSentBack`: main returns under a thread that holds a page |
| `container` | 3 launches, fair, no help from `sleep(1)` | `TypeOK`, `FirstHasAddress` (the pipe works for the first container), `CleanExit`, `NotUnderfoot` (what SIGINT leaves and removes), `RootIsOwn`, `InterruptEnds` |
| `container_address` | 2 launches, `sleep(1)` long enough | violation of `AddressAssigned`: the second container finds the device names taken |
| `prototypes` | 3 clients, 6 requests, 5 block lists, 2 pieces of data, 4 descriptors, 2 tickets, fair | `TypeOK`, `ListedNeverContacted`; `StreamsFaithful`, `HalfCloseDelivers` (`ssl-redirect.c`); `VerdictFits`, `StarvedByRefusals`, `ComesBack` (`redirect.c`); `BodyOnly`, `AnswerEnds` (`old_server.c`) |

Bounds. Two clients are enough for the overlaps in question: a stale copy needs
the thread that holds it and the one that changed the value. Four descriptors
let two tunnels be open at once, two make every close followed by a reuse and
let accept fail; the theorems cover all other numbers. `proxy_paced` needs no
data, since its properties are about descriptors and answers. One data token
per socket suffices for crossing and duplication, and its loss shows in
`TunnelDelivers`; a stream is read and written by one thread, so order needs no
second token. `Talkers` bounds which tunnels carry data: in `proxy_serial` one
of the two, before or after the other, and in `proxy_crossed` both. In
`multiproc` two letters and two pieces are what a cut needs: the beginning of a
name may be another host's, and a greeting may take two calls. The hash values
are chosen so that homes collide, and chains reach the last slot, at each of
the sizes 2, 4, 8 and 16 the table passes through. `ReadSizes` is as large as a
queue can be. Three launches let a container be struck while one before it has
not pivoted and one after it is being launched. Three clients exhaust four
descriptors in `redirect.c`: one per refusal, two for the request at hand. Two
pieces of data and a pipe of two tokens let every read of `old_server.c` fall
before, between and after the parts of an answer, and let openssl block on its
output. For the safety properties these bounds are a first check only: the
proofs have none.

Fairness. `FairSpec` of `ProxyServer` assumes weak fairness of main, of each
handler and of each relay: threads are scheduled, and a system call that can
return does. Nothing is assumed of clients and hosts, so a property may not
rely on anybody's sending or leaving. In `MultiprocServ` the same holds for the
server's threads and for the client program, but not for its user or the hosts.
In `Container` the handler and the containers' processes are scheduled, and a
container's command ends some time; in `Prototypes` the threads of the program
are scheduled, and clients, hosts and openssl may stop at any point.

Deadlock is checked in every run; `Finished`, `Over` and `Rests` describe the
states in which nothing is left to do. `Rests` names the ways in which a
prototype waits for ever: `redirect.c` spins when its refuge is on the list, and
`old_server.c` waits for output that nobody will write, or for the end of an
openssl that is blocked on a full pipe (`Hangs`). The deadlock check is about
states in which nobody at all can move. A program that waits for a peer which
could still act, and need not, is not deadlocked: `redirect.c` in `read()` on a
silent client, or on a host that never ends its page. `ComesBack` names these
as its exceptions, and shows that there are no others.

`RequestsAnswered` and `DepartureEndsThreads` are stated for serial arrivals
only, because they fail otherwise: with paced arrivals a stale relay can read
from a number that now belongs to another client, and take its request or wait
on it for ever.

## Proofs

Every safety property of a passing run is a theorem for all values of the
constants. Each proof rests on an inductive invariant, named parts of which are
listed here; TLC checked every one of them on the run's instance before it was
proved. A property that fails without a restriction has that restriction as a
hypothesis, and a run that shows the failure.

`ProxyServerProofs`:

- `TypeCorrect`: `Spec => []TypeOK`. `TypeOK` is not inductive: a handler that
  reads with `cfd[c]` needs it to be a descriptor. `TypeInv` adds `Lifecycle`
  (how far main, a client and its threads may be apart) and `DescriptorsSet`
  (a descriptor variable is assigned before the thread uses it).
- `BlockListEnforced`: `Spec => []BlockedNeverContacted`, for every arrival
  pattern. The strengthening `Screened` says that a handler past
  `checkBlocklist` holds a name that is not blocked.
- `OwnClientServed`, `NothingLeaks`, `NobodyClosesForeign`,
  `ExhaustionMeansLoad`: under `Arrivals # "any"`. They rest on `OwnInv`:
  at most one connection is in flight (`OneInFlight`), main's variable denotes
  it (`SlotOwned`), a handler's numbers denote its own sockets (`HandlerOwns`),
  and an open socket has exactly one number and a handler that has yet to close
  it (`TableOwned`). The last part is what makes the others inductive: a number
  that is handed out again belonged to nobody. `ExhaustionMeansLoad` also uses
  that nothing changes after a failed accept (`TableFull`).

`ProxyTunnelProofs`, on top of these:

- `AnswersTrue`: `ReplyMatchesRequest` under `Arrivals # "any"`. Relays may
  write to numbers that have changed hands, so the argument is about tokens:
  nothing that is read from a socket is a status line (`NoneUnderWay`), a Host
  line that a handler will read is its own client's (`OwnLines`), so a handler
  at its answer has the verdict on what its client asked, or a client that has
  stopped sending without a request read (`Asked`), and so has whoever received
  it (`Told`).
- `TunnelsFaithful`: `TunnelIntegrity` under `Arrivals = "serial"`; the run
  `proxy_crossed` shows that `"paced"` is not enough. One connection has threads
  at a time (`Alone`), so a relay's numbers are its handler's or closed. Then
  for each direction, what was delivered, what is in the buffer and what is
  still queued are together exactly what was sent (`Up`, `Down`, while nobody
  has left; a prefix of it once the reader has), the buffers are empty outside a
  read and the write after it, and shutdown comes in the handler's order.

`SimpleSetProofs`, under `UsualSizes` (no set starts with one slot: its first
element would leave no place where a probe can stop; `set_init`, the only way
the programs create one, asks for 1024) and `CarefulRemovals` (nothing is
removed while a chain wraps, see `set_remove_wraps`):

- `NoNodeCutOff` (`Findable`), `ProbesEnd` (`NeverCircular`), `CountCorrect`,
  `TypeCorrect`, and `NoKeyLost` (`RelayoutKeepsKeys`).
- `RefinesKeySet`: `Spec => Implements`, that is, every step of the table maps
  to a call of `KeySet` with the same answer, or to a stutter.

The invariant says that no empty slot lies between a node and its home
(`Reached`), which `Findable` needs, that the table is at most a quarter full
but for the last element (`SizeInv`), which `NeverCircular` needs, and what
holds of both in the middle of `__relayout_nodes`. After a removal only slots
between the hole and the loop's index may be missing (`ShrinkInv`). After
doubling, the old half is in order up to the index, and nodes in the new half
follow each other without a gap (`LowerInv`); when the index is in the new half
there is an empty slot behind which nothing moves any more, and every chain
that wraps starts behind it (`UpperInvAt`). That slot exists because at most an
eighth of the table is used.

`MultiprocServProofs`: `TypeCorrect`, `OwnAnswer` (`AnswerMatchesRequest`),
`TwoReadsSuffice` (`DoneHasAnswer`), `SocketsBounded` (`DescriptorsBounded`).
The invariant follows a client's name, and what was cut from it, from its `send`
to its thread's buffers (`OwnName`), states how the greeting and the answer may
lie in the stream and in the two `recv` results (`Stream`, `Delivered`), and
counts descriptors, block files included, by the threads that hold them
(`CountInv`, with the cardinalities of those sets).

`ContainerProofs`: `TypeCorrect`, `PipeHoldsFirstBack` (`FirstHasAddress`),
`NothingLeftBehind` (`CleanExit`), `OwnRoot` (`RootIsOwn`), `RemovesOnlyTheDead`
(`NotUnderfoot`). The invariant ties the vector to the containers started
(`Recorded`), says that the handler is done with those before its index
(`Reaped`), that a directory is missing for a reason (`Rooted`) and how far the
network of the first container is when it has read the pipe (`Networked`).

`PrototypesProofs`: `TypeCorrect`, `ListHonoured` (`ListedNeverContacted`),
`TunnelFaithful` (`StreamsFaithful`), `VerdictsFit` (`VerdictFits`),
`OneEachRefusal` (`StarvedByRefusals`), `OnlyBody` (`BodyOnly`), for every block
list and every set of names. `Loaded` says that the names in memory are the cut
lines of the file; `ListedInv` that a name is looked up before it is connected
to; `Descriptors` that `redirect.c` has one socket open per refused client, plus
those of the client at hand; `RedirectInv` that the page being fetched for a
refused client is the refuge's, and what each client has been sent; `UpInv` and `DownInv` that delivered and held
pieces follow each other. `BodyOnly` depends on how `strstr` cuts: `Shows` says
that in what openssl has printed, read or not, the first 200 begins the answer,
which goes on without a gap to its end so far or to a ticket. `CutOut` shows from
this that the three searches find the status, the ticket and the blank line
where the answer has them. `FirstAt` is what a search returns, from the
well-foundedness of `<`.

Assumptions on the constants: `NullAssumption`, `HostsAssumption`,
`BoundsAssumption`, `ArrivalsAssumption` (`ProxyServer`); `HashAssumption`,
`SizeAssumption`, `RemovalsAssumption`, `NoNodeAssumption` (`SimpleSet`);
`NamesAssumption`, `FileAssumption`, `LimitAssumption` (`MultiprocServ`); `LimitAssumption`,
`SleepAssumption`, `NullAssumption` (`Container`); `BoundsAssumption`,
`NamesAssumption`, `BufferAssumption`, `RefugeAssumption`, `MaxFdAssumption`,
`PipeAssumption` (the prototypes). They give the constants their types and keep
`NULL` apart from values; TLC evaluates them in every run.

Model-checked only: liveness (`DepartureReleases`, `TunnelDelivers`,
`RequestsAnswered`, `DepartureEndsThreads`, `ServedClientsFinish`,
`InterruptEnds`, `HalfCloseDelivers`, `ComesBack`, `AnswerEnds`) and the absence
of deadlock, which are beyond the prover: they need fairness and ENABLED.

## What the violations say

1. `proxy_race`: `&client_fd` is shared. Two clients that connect close
   together can both be mapped to the second one's socket (`server.c:163`).
2. `proxy_crossed`: HostToCli keeps using the number of a closed client socket
   (`server.c:45`), and the number is soon somebody else's.
3. `set_remove_wraps`: `__relayout_nodes` does not wrap (`set.c:313`).
   `server.c` never removes, so its block list is not affected.
4. `multiproc_returns`: main's return ends the threads (`multiproc_serv.c:252`).
5. `container_address`: every launch uses the same two device names
   (`Containers/container.c:119`), so of several concurrent containers one has
   an address.

The runs that pass have their reservations in the properties.
`ReplyMatchesRequest`: a client that stops sending before its handler has read
a request is told 403 (`server.c:56`). `AnswerMatchesRequest`: the answer is to
what the one `recv()` returned of the name, so a listed name that arrives cut
is not refused, and the page of the host its beginning names comes back; when
`blocked_list.txt` cannot be opened nothing is refused (`multiproc_serv.c:62`,
`76`). `DoneHasAnswer`: a greeting that comes in two pieces leaves no `recv()`
for the answer. `DescriptorsBounded`: two descriptors stay open for every
connection, three while its host is being talked to. `VerdictFits`: a last line
without a newline also sends away names that begin with what is left of it.
`ComesBack`: one silent client keeps `redirect.c` from all others. `RootIsOwn`:
a container whose copy failed, or whose directory a later container's SIGINT
removed, runs on the host's root. `CleanExit`: the container between `clone()`
and `vector_push_back` may be left behind. `ListedNeverContacted`: with
whole-name comparison the host on a last line without a newline is not blocked.
`HalfCloseDelivers`: SIGPIPE on the way to a closed host cuts the way back too.

## Not modelled

The two-set operations of `set.c`: each is a walk over one table that calls
`set_contains` and `set_add`, which are modelled, and no program calls them.
`read_all_from_socket`, which nobody calls. A `pthread_create()` that fails
(`server.c:91` and `163`, `multiproc_serv.c:246`, `ssl-redirect.c:136`): no
program looks at its result, so the connection would stay open without a
thread. The loop of `redirect.c` behind the return of an allowed request, which
cannot be reached, and block lists of more than 100 lines, whose effect there
depends on the linker. Responses longer than the fixed buffers. `client.c` and
`test.c` (straight-line examples), FNV-1a itself (any hash function is
explored), users, mounts and name servers of a container, logging, and
third-party files.

## Plan

1. Done: `ProxyServer`, `SimpleSet` against `KeySet`, `MultiprocServ`,
   `Container` and the prototypes, with the proofs of their safety properties.
2. Next: an abstract specification of the block-listing proxy (what a client may
   be told and sent) that `ProxyServer` and `SslRedirect` are both shown to
   implement; action properties of `MultiprocServ` and of the prototypes (what
   has been sent to a client is never taken back) from the invariants above.
