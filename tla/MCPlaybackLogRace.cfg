CONSTANTS
    Threads = {t1, t2}
    Links = {l1, l2}
    Requests <- MCRequests
    Recorded <- MCRecorded
    Delay <- MCDelay
    NrcDelay = 1
    NoCall = NoCall
    NoJob = NoJob
    AllocMayFail = FALSE
    OneReader = TRUE
    MaxCops = 2
    Horizon = 1
    MaxTime = 2
    t1 = t1
    t2 = t2
    l1 = l1
    l2 = l2
SPECIFICATION Spec
INVARIANT LogReadsLiveBuffer
