SPECIFICATION Spec
CONSTANTS
  Workers = {w1, w2}
  Uids = {u1}
  NoPod = NoPod
  Names = {c1}
  NoName = NoName
  Bindings = {b1, b2}
  NoBinding = NoBinding
  MaxRetries = 1
  MaxStarts = 1
  MaxFaults = 0
  MaxRelists = 0
  MaxRestarts = 0
INVARIANTS
  ClosedOnDelete
CHECK_DEADLOCK FALSE
