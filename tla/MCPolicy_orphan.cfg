SPECIFICATION Spec
SYMMETRY Symmetry
CONSTANTS
  Writers = {w1, w2}
  Events = {1, 2}
  WithSession = {1}
  Orphans = {2}
  Engines = {"default", "edited"}
  Default = "default"
  Decide <- MCDecide
  MaxReplays = 1
  MaxFaults = 0
INVARIANT OrphansExplained
CHECK_DEADLOCK FALSE
