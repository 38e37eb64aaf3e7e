SPECIFICATION Spec
CONSTANTS
  NumThreads = 2
  LockTs = {"ADAPTIVE"}
  SPIN_LIMIT = 1
  None = None
  MaxOps = 1
INVARIANT DataProtected
