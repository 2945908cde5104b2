SPECIFICATION MCSpec
CONSTANTS
  Requests = {r1, r2, r3}
  Projects = {p1, p2, p3}
  Hosted = {p1, p2}
  Slots = 2
  Deadlines = {r1, r2}
  MaxActive = 1
  MaxQueued = 1
  Impatient = {r1, r2}
  Callers = {c1, c2, c3}
  Keys = {k1, k2, k3, k4}
  Reads = {k3, k4}
  QueryBatch = 2
  MaxKeys = 3
  MaxWaiters = 2
  MaxRunning = 2
  MaxStreak = 1
  MaxCommands = 1
  MaxJobs = 2
  None = None
  Unused = Unused
CHECK_DEADLOCK FALSE
INVARIANTS
  ObservationsAccounted
  AttemptsAccounted
  QueriesAccounted
PROPERTIES
  EveryWaiterServed
  ShutdownReturnsUndisturbed
  EveryAttemptAnswered
