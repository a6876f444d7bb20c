SPECIFICATION Spec
CONSTANTS
    p1 = p1
    p2 = p2
    p3 = p3
    none = none
    Proc = {p1, p2}
    None = none
    NKinds = 2
    MAX_QUEUE = 2
    MAX_WORKLOAD_QUEUE = 1
    EntrySlack = 2
    MaxRequests = 3
    Prompt = {}
    Faults = {"crash", "fork", "guard_loss", "stall", "io"}
SYMMETRY Symmetric
INVARIANTS Exclusive LeaseIsCurrent RecordIsAccepted NeverLost
PROPERTIES QuarantineIsForGood RefinesContract
CHECK_DEADLOCK FALSE
