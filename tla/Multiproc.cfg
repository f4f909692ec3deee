SPECIFICATION FairSpec
CONSTANTS
  c1 = c1
  c2 = c2
  NULL = NULL
  Clients = {c1, c2}
  Names <- SmallNames
  Hosts <- SmallHosts
  File <- SmallFile
  Pieces = 2
  MAX_THREADS = 2
INVARIANT TypeOK
INVARIANT AnswerMatchesRequest
INVARIANT DoneHasAnswer
INVARIANT DescriptorsBounded
PROPERTY ServedClientsFinish
