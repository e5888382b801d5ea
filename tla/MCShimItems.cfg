CONSTANTS
    Cops = {c1, c2, c3}
    Registry <- Modes
    VendorMayBeAway = FALSE
    MemoryMayFail = FALSE
    c1 = c1
    c2 = c2
    c3 = c3
SPECIFICATION Spec
INVARIANT ItemsFreedByTheirAllocator
CHECK_DEADLOCK FALSE
