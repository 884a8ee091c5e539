SPECIFICATION Spec
CONSTANTS
    main = main
    other = other
    w1 = w1
    w2 = w2
    f1 = f1
    f2 = f2
    c1 = c1
    NoTask = NoTask
    Callers <- MCTwoCallers
    WaitTasks <- MCTwoWaits
    Funcs <- MCTwoFuncs
    Chans <- MCOneChan
    InitListSize = 1
CHECK_DEADLOCK FALSE
INVARIANTS
    TypeOK
PROPERTIES
    RunCallReturns
    StopEndsRunningLoop
    DestructorJoins
    WaitOutlastsLoop
