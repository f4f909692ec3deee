SPECIFICATION Spec
CONSTANTS
  k1 = k1
  k2 = k2
  k3 = k3
  k4 = k4
  NULL = NULL
  Keys = {k1, k2, k3, k4}
  Hashes = {0, 3}
  HashFunctions <- AllHashFunctions
  InitSizes = {4}
  MaxSize = 16
  Removals = "any"
SYMMETRY KeySymmetry
INVARIANT Findable
