SPECIFICATION Spec
CONSTANTS
    MaxQueue = 1
    StopFlagInit <- MCAnyStopFlag
    FopenFails = TRUE
    MaxMsgs = 5
CHECK_DEADLOCK FALSE
INVARIANTS
    TypeOK
    NothingUnaccounted
    QueueBound
PROPERTIES
    OvertakenWaitInTmp
    LogReachesFile
    DestructorReturns
