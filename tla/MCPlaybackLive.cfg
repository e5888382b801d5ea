CONSTANTS
    Threads = {t1, t2}
    Links = {l1, l2}
    Requests <- MCFewRequests
    Recorded <- MCFewRequests
    Delay <- MCFewDelay
    NrcDelay = 1
    NoCall = NoCall
    NoJob = NoJob
    AllocMayFail = FALSE
    OneReader = FALSE
    MaxCops = 2
    Horizon = 1
    MaxTime = 2
    t1 = t1
    t2 = t2
    l1 = l1
    l2 = l2
SPECIFICATION FairSpec
INVARIANT ReplyAccounting
PROPERTIES EveryReplyArrives CarSpec
