SPECIFICATION TicksSpec
CONSTANTS
    Pid = {1, 2, 3}
    Root = {2}
    MaxWork = 2
    MaxForks = 3
    MaxScans = 2
INVARIANT ReapedIsNotRecounted
CHECK_DEADLOCK FALSE
