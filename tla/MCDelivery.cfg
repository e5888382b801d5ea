CONSTANTS
    Links = {l1, l2}
    Callbacks = {f1}
    NoCb = NoCb
    Delays <- MCDelays
    CallbackTicks = 2
    SleepTicks = 1
    WaitTicks = 4
    CreateMayFail = TRUE
    MaxEvents = 2
    MaxRegistrations = 3
    MaxTime = 3
    l1 = l1
    l2 = l2
    f1 = f1
SPECIFICATION FairSpec
INVARIANTS TypeOK NoUseAfterFree AtMostOneStaleCall ShutdownInv
PROPERTIES ShutdownCompletes DueEventIsAnnounced
CHECK_DEADLOCK FALSE
