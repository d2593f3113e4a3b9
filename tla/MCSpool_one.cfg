SPECIFICATION FairSpec
CONSTANTS
  Daemons = {d1}
  Batches = {b1, b2, b3}
  NoBatch = NoBatch
  Sizes = {1, 2, 4}
  MaxQueued = 2
  MaxQueuedBytes = 3
  MaxBatchBytes = 2
  DropOldest = {d1}
  ProcessLimit = 2
  MaxFaults = 1
INVARIANTS
  BytesBound
PROPERTIES SettledForever  SettlesUnlessAbandoned
