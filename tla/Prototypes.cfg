SPECIFICATION FairSpec
CONSTANTS
  NULL = NULL
  Files <- SmallFiles
  Hosts <- SmallHosts
  Requests <- SmallRequests
  Refuge <- Haven
  MaxClients = 3
  MaxChunks = 2
  MaxFd = 4
  PipeCap = 2
  MaxTickets = 2
INVARIANT TypeOK
INVARIANT ListedNeverContacted
INVARIANT StreamsFaithful
INVARIANT VerdictFits
INVARIANT StarvedByRefusals
INVARIANT BodyOnly
PROPERTY HalfCloseDelivers
PROPERTY ComesBack
PROPERTY AnswerEnds
