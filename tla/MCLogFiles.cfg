SPECIFICATION FairSpec
CONSTANTS
    Threads = {t1, t2}
    Late = {t1}
    MaxSecond = 1
    MaxLines = 2
INVARIANTS TypeOK LinesAreWhole LogInv
PROPERTIES DetachEnds CallsReturn
CHECK_DEADLOCK FALSE
