SPECIFICATION Spec
CONSTANTS
  Tasks = {t1, t2}
  Paths = {p1, p2, p3}
  OpIds = {o1, o2}
  Workers = {w1, w2}
  MaxRepairs = 1
  MaxFaults = 1
  MaxMoves = 2
  None = None
SYMMETRY Interchangeable
CHECK_DEADLOCK FALSE
INVARIANTS
  RepairJournalSound
  PathsExclusive
PROPERTIES
  MovesWithGeneration
