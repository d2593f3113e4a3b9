SPECIFICATION MCSpec
CONSTRAINT Small
CONSTANTS
  s = s
  t = t
  r1 = r1
  r2 = r2
  Ingesters = {s, t}
  Transactional = {t}
  Dropping = {s}
  Runs = {r1, r2}
  NoRun = NoRun
  Configured <- MCConfigured
  NoOne = NoOne
  MaxEvents = 3
  MaxFaults = 1
  Clients = {c1, c2}
  Files = {1, 2}
  Ready = 2
  Budget = 2
  Policies = {"latest-ready", "smallest-delta"}
  MaxCount = 2
  MaxSnapshots = 2
  MaxAttempts = 3
  MaxEdits = 2
  MaxFailures = 1
INVARIANTS NamedAreKept    AttemptsWhole 
CHECK_DEADLOCK FALSE
