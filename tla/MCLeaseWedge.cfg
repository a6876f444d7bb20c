SPECIFICATION QuietSpec
CONSTANTS
    Proc = {1, 2, 3, 4, 5, 6, 7, 8}
    None = 0
    NKinds = 1
    MAX_QUEUE = 2
    MAX_WORKLOAD_QUEUE = 2
    EntrySlack = 5
    MaxRequests = 10
    Prompt = {}
    Faults = {"crash"}
INVARIANTS NeverWedged
CHECK_DEADLOCK FALSE
