SPECIFICATION Spec
CONSTANTS
  Attempts = {a1, a2}
  MaxEpoch = 3
  MaxGeneration = 2
  MaxFaults = 0
  None = None
SYMMETRY AttemptSymmetry
INVARIANTS
  ReceiptFits
