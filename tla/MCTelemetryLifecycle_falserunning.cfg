SPECIFICATION FairSpec
CONSTANTS
    Client = {c1, c2}
    Daemon = {d1}
    None = None
PROPERTIES NoFalseRunning
CHECK_DEADLOCK FALSE
