CONSTANTS
    Sessions = {s1}
    Submissions = {p1}
    Queueable = {}
    Wakes = {}
    Asked = {}
    AgentKinds = {TRUE}
    None = None
    MaxDeliveries = 1
    MaxQueued = 1
    MaxIds = 2
    MaxSignals = 3
    MaxEpoch = 1
    MaxInput = 0
    MaxPresses = 1
SPECIFICATION Spec
INVARIANT NoReplay
CHECK_DEADLOCK FALSE
