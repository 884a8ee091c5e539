SPECIFICATION Spec
CONSTANTS
    t1 = t1
    t2 = t2
    f1 = f1
    f2 = f2
    f3 = f3
    c1 = c1
    Threads <- MCTwoThreads
    Funcs <- MCThreeFuncs
    Chans <- MCOneChan
    InitListSize = 1
INVARIANTS
    TypeOK
    NoLostWakeUp
PROPERTIES
    QueuedFuncRuns
    FunctorsRunInOrder
