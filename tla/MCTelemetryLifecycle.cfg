SPECIFICATION FairSpec
CONSTANTS
    Client = {c1, c2}
    Daemon = {d1, d2}
    None = None
INVARIANTS ReadyMeansSampled
PROPERTIES LiveRingIsKept DeathIsRepaired
CHECK_DEADLOCK FALSE
