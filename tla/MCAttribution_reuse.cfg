SPECIFICATION Spec
SYMMETRY Symmetry
CONSTRAINT Small
CONSTANTS
  Procs = {p1, p2, p3}
  Pids = {k1, k2}
  Scopes = {s1, s2}
  Delegated = {s1}
  NoScope = NoScope
  NoProc = NoProc
  NoPid = NoPid
  MaxOpenBindingAge = 3
  RingSize = 1
  PipeSize = 1
  MaxExtras = 1
INVARIANTS ExitBounds  CgroupJoins DeadScopeEnded
CHECK_DEADLOCK FALSE
