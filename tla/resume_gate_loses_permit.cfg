SPECIFICATION FairSpec
CONSTANTS
  Requests = {r1, r2}
  Projects = {p1}
  MaxActive = 1
  MaxQueued = 2
  Impatient = {r1}
CHECK_DEADLOCK FALSE
PROPERTIES
  ShutdownReturns
