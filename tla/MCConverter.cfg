CONSTANTS
    Requests <- MCShortIds
    CanWord = 16
    DelayWord = 64
    MaxGap = 2
    Strays <- MCStrays
    Steps <- MCSteps
    MaxFrames = 5
SPECIFICATION Spec
INVARIANTS LoaderReadsWhatWasWritten RepliesFollowTheirRequest DelaysAddUp GapsAreBounded FirstRecordingAnswers ConverterInv
CHECK_DEADLOCK FALSE
