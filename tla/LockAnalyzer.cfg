SPECIFICATION FairSpec
CONSTANTS
  NumThreads = 3
  LockTs = {"MUTEX", "SHARED", "SPIN", "ADAPTIVE"}
  SPIN_LIMIT = 1
  None = None
  MaxOps = 1
INVARIANTS TypeOK OtherLocksProtect AnalysisAddsUp DestroyedFree
PROPERTIES Terminates
