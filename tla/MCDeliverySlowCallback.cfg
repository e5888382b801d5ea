CONSTANTS
    Links = {l1}
    Callbacks = {f1}
    NoCb = NoCb
    Delays <- MCDelays
    CallbackTicks = 4
    SleepTicks = 1
    WaitTicks = 4
    CreateMayFail = FALSE
    MaxEvents = 2
    MaxRegistrations = 2
    MaxTime = 3
    l1 = l1
    l2 = l2
    f1 = f1
    f2 = f2
SPECIFICATION Spec
INVARIANT NoUseAfterFree
CHECK_DEADLOCK FALSE
