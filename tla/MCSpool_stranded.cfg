SPECIFICATION FairSpec
CONSTANTS
  Daemons = {d1}
  Batches = {b1, b2, b3}
  NoBatch = NoBatch
  Sizes = {1}
  MaxQueued = 2
  MaxQueuedBytes = 0
  MaxBatchBytes = 0
  DropOldest = {d1}
  ProcessLimit = 1
  MaxFaults = 1
PROPERTIES Settles
