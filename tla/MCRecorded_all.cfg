SPECIFICATION MCSpec
SYMMETRY Symmetry
CONSTRAINT SmallRun
ACTION_CONSTRAINT Calm
CONSTANTS
  Daemons = {d1, d2}
  Batches = {b1, b2, b3}
  NoBatch = NoBatch
  Sizes = {1, 2}
  MaxQueued = 1
  MaxQueuedBytes = 0
  MaxBatchBytes = 1
  DropOldest = {d1}
  ProcessLimit = 2
  MaxFaults = 1
  Kids = {"101"}
  Files = {"app"}
  Oversized <- MCOversized
  MaxRefused = 1
  MaxPasses = 1
  MaxExports = 1
  MaxImports = 2
INVARIANTS
  StoredWhole QueuedHasFile CountBound IngestedOncePerDaemon NothingStranded
  ReferencesHold  ReplayAgrees ProcessedWithEdges
CHECK_DEADLOCK FALSE
