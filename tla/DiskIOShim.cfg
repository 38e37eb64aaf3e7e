SPECIFICATION Spec
CONSTANTS
  NumThreads = 2
  Tests = {"pattern"}
  Platforms = {"apple"}
  Blocks = 1
  MaxFaults = 0
  MaxOps = 1
INVARIANT StartTogether
