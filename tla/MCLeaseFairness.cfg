SPECIFICATION WatchedSpec
CONSTANTS
    p1 = p1
    p2 = p2
    none = none
    Proc = {p1, p2}
    None = none
    NKinds = 2
    MAX_QUEUE = 2
    MAX_WORKLOAD_QUEUE = 2
    EntrySlack = 5
    MaxRequests = 3
    Prompt = {}
    Faults = {"crash", "io"}
SYMMETRY Symmetric
INVARIANTS TurnsAreFair
PROPERTIES RefinesQueue
CHECK_DEADLOCK FALSE
