CONSTANTS
    Threads = {t1, t2, t3}
    MaxSlots = 2
    FirstAlone = TRUE
    MaxCalls = 4
    t1 = t1
    t2 = t2
    t3 = t3
SPECIFICATION FairSpec
INVARIANTS TypeOK NoRegistrationLost SlotsInv
PROPERTY EveryRegistrationReturns
CHECK_DEADLOCK FALSE
