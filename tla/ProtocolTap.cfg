SPECIFICATION FairSpec
CONSTANTS
    Frames <- LongAndTooLong
    FrameLimit = 1
    LogMax = 2
    MaxSent = 2
    MaxClears = 1
CHECK_DEADLOCK FALSE
INVARIANTS TypeOK LogFaithful
PROPERTIES Captured EverySentRecorded
