SPECIFICATION Spec
CONSTANTS
    a = a
    b = b
    c = c
    d = d
    caller1 = caller1
    caller2 = caller2
    NoTask = NoTask
    Tasks <- MCFourTasks
    Callers <- MCTwoCallers
CHECK_DEADLOCK FALSE
INVARIANTS
    TypeOK
    AtMostOneAfterStop
PROPERTIES
    AcceptedTaskRuns
    JoinsOutsideWindow
    TasksRunInOrder
    SyncCoversEarlier
