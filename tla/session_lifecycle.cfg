SPECIFICATION Spec
CONSTANTS
  Attempts = {a1, a2}
  MaxEpoch = 2
  MaxGeneration = 2
  MaxFaults = 1
  None = None
SYMMETRY AttemptSymmetry
INVARIANTS
  RunningHasProcess
  AgentOwned
  ResumeAccounted
  NoRunInHeldTree
  CloseExcludesRetry
  StoreLoads
