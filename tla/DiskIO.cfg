SPECIFICATION FairSpec
CONSTANTS
  NumThreads = 3
  Tests = {"all"}
  Platforms = {"linux", "apple", "cpp"}
  Blocks = 2
  MaxFaults = 1
  MaxOps = 3
INVARIANTS TypeOK OthersStartTogether MixedIsOneThird WithinFile JoinedOrLeftEarly NoFileLeft
PROPERTIES Terminates
