SPECIFICATION Spec
CONSTANTS
    Proc = {p1, p2}
    MaxObs = 2
    Depth = 1
    Absent = absent
    Malformed = malformed
    Intake = {i1, i2}
    MaxVersion = 2
    MaxTick = 2
    Limit = 2
    MaxSent = 3
    None = none
    Unknown = unknown
    NoLimit = nolimit
    Unmeasured = 99
    Hosts <- HostsInMind
    Size <- SizesInMind
    Peaks <- PeaksInMind
    ChatSizes = {1, 3}
    Devices = 2
INVARIANTS
    TypeOK
    CacheIsDurable
    LitterMeansKilled
    SuccessIsKept
    VisibleIsWhole
    RefusedLeavesNothing
    RecordedWasHeld
    ProbeIsBounded
    VerdictIsJust
    KnownIsTrue
    CollectedIsAccepted
PROPERTY MalformedIsKept
CHECK_DEADLOCK FALSE
SYMMETRY Symmetry
