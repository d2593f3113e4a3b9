SPECIFICATION Spec
SYMMETRY Symmetry
CONSTRAINT Small
CONSTANTS
  Writers = {w1, w2}
  Events = {1, 2}
  WithSession = {1}
  Orphans = {2}
  Engines = {"default", "edited"}
  Default = "default"
  Decide <- MCDecide
  MaxReplays = 2
  MaxFaults = 1
INVARIANTS DecisionsStandWhole ReplayedExactly
CHECK_DEADLOCK FALSE
