CONSTANTS
    Requests <- MCShortIds
    CanWord = 16
    DelayWord = 64
    MaxGap = 2
    Strays <- MCStrays
    Steps <- MCSetBack
    MaxFrames = 3
SPECIFICATION Spec
INVARIANT GapsAreBounded
CHECK_DEADLOCK FALSE
