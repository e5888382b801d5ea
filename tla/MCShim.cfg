CONSTANTS
    Cops = {c1, c2, c3}
    Registry <- Modes
    VendorMayBeAway = TRUE
    MemoryMayFail = TRUE
    c1 = c1
    c2 = c2
    c3 = c3
SPECIFICATION FairSpec
INVARIANTS TypeOK CallbackFollowsReplies
PROPERTY NoReplyIsStranded
CHECK_DEADLOCK FALSE
