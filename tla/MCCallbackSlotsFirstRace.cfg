CONSTANTS
    Threads = {t1, t2, t3}
    MaxSlots = 2
    FirstAlone = FALSE
    MaxCalls = 2
    t1 = t1
    t2 = t2
    t3 = t3
SPECIFICATION Spec
INVARIANT NoRegistrationLost
CHECK_DEADLOCK FALSE
