SPECIFICATION FairSpec
CONSTANTS
  c1 = c1
  c2 = c2
  ok = ok
  bad = bad
  NoHost = NoHost
  NULL = NULL
  Clients = {c1, c2}
  Hosts = {ok, bad}
  Blocked = {bad}
  MaxFd = 2
  MaxChunks = 0
  Talkers = {}
  Arrivals = "paced"
INVARIANT ExhaustedOnlyByLoad
PROPERTY DepartureReleases
