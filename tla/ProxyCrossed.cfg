SPECIFICATION Spec
CONSTANTS
  c1 = c1
  c2 = c2
  ok = ok
  bad = bad
  NoHost = NoHost
  NULL = NULL
  Clients = {c1, c2}
  Hosts = {ok, bad}
  Blocked = {bad}
  MaxFd = 4
  MaxChunks = 1
  Talkers = {c1, c2}
  Arrivals = "paced"
SYMMETRY ClientSymmetry
INVARIANT TunnelIntegrity
