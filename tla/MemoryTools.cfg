SPECIFICATION Spec
CONSTANTS
  Groups = 2
  Iterations = 3
  Sizes = {1, 2}
  Blocks = 2
  Rounds = 2
  MaxCacheThreads = 3
  CountsPerLine = 2
  CountRounds = 2
  Accesses = {1, 102}
  HalfPages = 2
  ListLength = 3
  MayFail = TRUE
INVARIANTS AllocatorInv CacheInv VmInv
PROPERTY Terminates
