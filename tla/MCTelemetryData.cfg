SPECIFICATION Spec
CONSTANTS
    Owner = {1, 2, 3}
    Panes <- MCPanes
    MaxOwners = 2
    MaxSize = 5
    Stale = 3
    Renewal = 2
    Pid = {1, 2, 3}
    Root = {2}
    MaxWork = 2
    MaxForks = 3
    MaxScans = 2
    Path = {p1, p2}
    Device = {d1, d2}
    Nothing = none
    Rescan = 3
    Reader = {r1}
    None = no
    Geometry <- MCGeometry
    MaxRun = 2
    MaxSequence = 4
    Faults = {"crash", "skip"}
INVARIANTS
    TypeOK
    PolledIsVisible
    ChargedOnce
    SensorsSettle
    RecordsAreWhole
    HistoryIsOneRun
CONSTRAINT Unraced
CHECK_DEADLOCK FALSE
