CONSTANTS
  Sessions = {s1, s2}
  Submissions = {p1, p2}
  Queueable = {p2}
  Wakes = {p1}
  Asked = {p2}
  AgentKinds = {TRUE, FALSE}
  None = None
  MaxDeliveries = 1
  MaxQueued = 1
  MaxIds = 3
  MaxSignals = 3
  MaxEpoch = 2
  MaxInput = 1
  MaxPresses = 2
SPECIFICATION Spec
CONSTRAINT SoloOrCrowded
INVARIANTS
  PastedOnceUnlessForgotten
  AdvancesAfterEnter
  NothingStranded
PROPERTY ConfirmedIsFinal
CHECK_DEADLOCK FALSE
