SPECIFICATION Spec
CONSTANTS
    MaxQueue = 1
    StopFlagInit <- MCNoStopFlag
    FopenFails = FALSE
    MaxMsgs = 3
CHECK_DEADLOCK FALSE
INVARIANTS
    NothingLeftBehind
