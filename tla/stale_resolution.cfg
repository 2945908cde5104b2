SPECIFICATION FairSpec
CONSTANTS
  Workers = {w1, w2}
  OpIds = {o1}
  Managed = {TRUE, FALSE}
  MaxGeneration = 2
  LeafIds = {i1, i2}
  MaxRetries = 1
  MaxFaults = 1
  None = None
INVARIANTS
  NoRemovalUnderSession
  ResolutionJournalSound
  RemovesOnlyItsGeneration
  DiscardsAccounted
PROPERTIES
  EveryResolutionSettles
CHECK_DEADLOCK FALSE
