SPECIFICATION Spec
CONSTANTS
  k1 = k1
  k2 = k2
  k3 = k3
  k4 = k4
  NULL = NULL
  Keys = {k1, k2, k3, k4}
  Hashes = {0, 1, 3, 7, 15}
  HashFunctions <- AllHashFunctions
  InitSizes = {2, 4}
  MaxSize = 16
  Removals = "unwrapped"
SYMMETRY KeySymmetry
INVARIANT TypeOK
INVARIANT Findable
INVARIANT NeverCircular
INVARIANT CountExact
PROPERTY RelayoutKeepsKeys
PROPERTY Implements
