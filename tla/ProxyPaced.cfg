SPECIFICATION Spec
CONSTANTS
  c1 = c1
  c2 = c2
  ok = ok
  bad = bad
  NoHost = NoHost
  NULL = NULL
  Clients = {c1, c2}
  Hosts = {ok, bad}
  Blocked = {bad}
  MaxFd = 4
  MaxChunks = 0
  Talkers = {}
  Arrivals = "paced"
SYMMETRY ClientSymmetry
INVARIANT TypeOK
INVARIANT BlockedNeverContacted
INVARIANT ServesOwnClient
INVARIANT ReplyMatchesRequest
INVARIANT NoDescriptorLeak
PROPERTY NoForeignClose
