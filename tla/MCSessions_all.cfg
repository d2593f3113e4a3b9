SPECIFICATION Spec
CONSTRAINT Small
CONSTANTS
  MaxSessions = 2
  MaxExecs = 2
  MaxSnapshots = 3
  MaxIds = 4
  MaxEvents = 2
  MaxFaults = 2
INVARIANTS
  RowsMatchDocker QuarantineTaints  UnnamedIsGone BindingSpansExec IdleAtThink
PROPERTIES ResumedClean
CHECK_DEADLOCK FALSE
