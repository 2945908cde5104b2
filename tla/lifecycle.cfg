SPECIFICATION Spec
CONSTANTS
  Tasks = {t1, t2}
  Clients = {c1}
  OpIds = {o1, o2, o3}
  Branches = {b1}
  Paths = {p1}
  Oids = {x1}
  ContentKinds = {}
  GitRefusedKinds = {}
  MaxGeneration = 2
  MaxAttempts = 2
  MaxCrashes = 1
  MaxLosses = 1
  MaxUserSteps = 0
  UserMoves = {}
  Requests = {"provision", "dismiss", "cleanup", "bind", "release"}
  None = None
  User = User
  Detached = Detached
SYMMETRY Interchangeable
INVARIANTS
  TypeOK
  HoldingsExclusive
  ProofMatchesBinding
  ProvisioningJournalSound
  ReceiptCoversRelease
  OperationIdsExclusive
  NoForgottenCheckout
  CleanupJournalSound
  ReservedMeansIntact
PROPERTIES
  ImplementsBinding
