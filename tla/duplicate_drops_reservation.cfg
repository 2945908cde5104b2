SPECIFICATION BoundSpec
CONSTANTS
  Tasks = {t1}
  Clients = {c1, c2}
  OpIds = {o1, o2, o3}
  Branches = {b1}
  Paths = {p1}
  Oids = {x1}
  ContentKinds = {"tracked"}
  GitRefusedKinds = {"tracked"}
  MaxGeneration = 1
  MaxAttempts = 1
  MaxCrashes = 0
  MaxLosses = 0
  MaxUserSteps = 1
  UserMoves = {"switch"}
  Requests = {"cleanup", "launch"}
  None = None
  User = User
  Detached = Detached
SYMMETRY Interchangeable
INVARIANTS
  NoRemovalUnderSession
CHECK_DEADLOCK FALSE
