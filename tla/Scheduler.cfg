SPECIFICATION FairSpec
CONSTANTS
  NumThreads = 3
  Programs = {"c", "cpp"}
  PipeSize = 2
  CpuBatch = 2
  IoBatch = 2
  MixedStep = 2
  MixedBatch = 3
  MemoryStep = 3
  MemoryBatch = 2
  MayFail = TRUE
  MaxRounds = 3
INVARIANTS TypeOK BatchesLoseNothing PipeIsDrained ReportIsRight
PROPERTIES Terminates
