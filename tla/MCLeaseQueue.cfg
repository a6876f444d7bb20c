SPECIFICATION CountedSpec
CONSTANTS
    p1 = p1
    p2 = p2
    p3 = p3
    none = none
    Proc = {p1, p2, p3}
    None = none
    NKinds = 1
    MAX_QUEUE = 2
    MAX_WORKLOAD_QUEUE = 2
    EntrySlack = 3
    MaxRequests = 3
    Prompt = {}
    Faults = {"crash", "early_ack", "fork", "stall"}
SYMMETRY Symmetric
INVARIANTS Exclusive PlaceIsKept RefusalIsJust AcknowledgementIsKept
CHECK_DEADLOCK FALSE
