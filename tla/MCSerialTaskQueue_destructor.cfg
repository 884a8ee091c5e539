SPECIFICATION Spec
CONSTANTS
    a = a
    b = b
    c = c
    d = d
    caller1 = caller1
    caller2 = caller2
    NoTask = NoTask
    Tasks <- MCThreeTasks
    Callers <- MCOneCaller
CHECK_DEADLOCK FALSE
PROPERTIES
    DestructorReturns
