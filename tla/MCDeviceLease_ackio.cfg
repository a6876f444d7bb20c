SPECIFICATION Spec
CONSTANTS
    p1 = p1
    p2 = p2
    p3 = p3
    none = none
    Proc = {p1, p2}
    None = none
    NKinds = 1
    MAX_QUEUE = 1
    MAX_WORKLOAD_QUEUE = 1
    EntrySlack = 5
    MaxRequests = 2
    Prompt = {}
    Faults = {"io"}
SYMMETRY Symmetric
INVARIANTS AcknowledgementIsKept
CHECK_DEADLOCK FALSE
