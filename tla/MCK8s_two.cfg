SPECIFICATION Spec
SYMMETRY Symmetry
CONSTRAINT Small
CONSTANTS
  Workers = {w1, w2}
  Uids = {u1, u2}
  NoPod = NoPod
  Names = {c1}
  NoName = NoName
  Bindings = {b1, b2, b3}
  NoBinding = NoBinding
  MaxRetries = 1
  MaxStarts = 2
  MaxFaults = 0
  MaxRelists = 1
  MaxRestarts = 1
INVARIANTS
  PodExclusive Tracked
PROPERTIES CurrentScopeStays
CHECK_DEADLOCK FALSE
