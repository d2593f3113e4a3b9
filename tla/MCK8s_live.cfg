SPECIFICATION FairSpec
CONSTANTS
  Workers = {w1}
  Uids = {u1}
  NoPod = NoPod
  Names = {c1, c2}
  NoName = NoName
  Bindings = {b1, b2, b3, b4, b5}
  NoBinding = NoBinding
  MaxRetries = 1
  MaxStarts = 2
  MaxFaults = 1
  MaxRelists = 0
  MaxRestarts = 0
INVARIANTS
  OnePerContainer ClosedOnDelete Attributed
PROPERTIES EventuallyClosed EventuallyBound
CHECK_DEADLOCK FALSE
