SPECIFICATION FairSpec
CONSTANTS
  NumThreads = 2
  Tests = {"modes"}
  Platforms = {"linux"}
  Blocks = 1
  MaxFaults = 1
  MaxOps = 1
PROPERTY EndsInAnyCase
