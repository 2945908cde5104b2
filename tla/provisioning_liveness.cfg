SPECIFICATION FairSpec
CONSTANTS
  Tasks = {t1}
  Clients = {c1, c2}
  OpIds = {o1}
  Branches = {b1}
  Paths = {p1}
  Oids = {x1, x2}
  ContentKinds = {}
  GitRefusedKinds = {}
  MaxGeneration = 1
  MaxAttempts = 2
  MaxCrashes = 1
  MaxLosses = 0
  MaxUserSteps = 2
  UserMoves = {"branch", "commit", "delete", "worktree", "directory", "switch"}
  Requests = {"provision", "dismiss"}
  None = None
  User = User
  Detached = Detached
INVARIANTS
  SingleProvisioner
PROPERTIES
  RollbackLosesNoCommit
  ProvisioningSettles
