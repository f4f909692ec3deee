SPECIFICATION Spec
CONSTANTS
  c1 = c1
  c2 = c2
  ok = ok
  bad = bad
  NoHost = NoHost
  NULL = NULL
  Clients = {c1, c2}
  Hosts = {ok, bad}
  Blocked = {bad}
  MaxFd = 4
  MaxChunks = 0
  Talkers = {}
  Arrivals = "any"
SYMMETRY ClientSymmetry
INVARIANT ServesOwnClient
