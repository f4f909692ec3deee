SPECIFICATION FairSpec
CONSTANTS
  c1 = c1
  c2 = c2
  NULL = NULL
  Clients = {c1, c2}
  Names <- LetterNames
  Hosts <- LetterNames
  File <- LetterFile
  Pieces = 1
  MAX_THREADS = 1
PROPERTY PageSentBack
