SPECIFICATION Spec
CONSTANTS
  NumThreads = 2
  LockTypes = {"MUTEX"}
  Workloads = {"RANDOM"}
  CreateMayFail = FALSE
  NoOne = NoOne
  MaxOps = 1
PROPERTY MaxNeverDecreases
