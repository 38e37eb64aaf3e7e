SPECIFICATION FairSpec
CONSTANTS
  NumThreads = 2
  LockTypes = {"MUTEX", "SPINLOCK", "RWLOCK"}
  Workloads = {"BALANCED", "HERD"}
  CreateMayFail = TRUE
  NoOne = NoOne
  MaxOps = 2
INVARIANTS TypeOK NoLostUpdate WaitersCounted HerdStartsTogether ReportAddsUp DestroyedWhenFree
PROPERTIES ImplementsLock Terminates
