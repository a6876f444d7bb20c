SPECIFICATION FairSpec
CONSTANTS
    Proc = {p1, p2, p3}
    None = none
    Inode = {i1, i2, i3, i4}
    Faults = {"crash", "removal", "foreign"}
INVARIANTS OneHome RefusedForCause PlacedIsComplete
PROPERTIES NeverRecreated OpenEnds
CHECK_DEADLOCK FALSE
