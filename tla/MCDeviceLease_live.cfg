SPECIFICATION LiveSpec
CONSTANTS
    p1 = p1
    p2 = p2
    p3 = p3
    none = none
    Proc = {p1, p2}
    None = none
    NKinds = 1
    MAX_QUEUE = 2
    MAX_WORKLOAD_QUEUE = 2
    EntrySlack = 5
    MaxRequests = 3
    Prompt = {p1}
    Faults = {"crash"}
PROPERTIES RequestEnds RequestIsServed
CHECK_DEADLOCK FALSE
