SPECIFICATION Spec
CONSTANTS
    t1 = t1
    t2 = t2
    Timers <- MCTwoTimers
    Delays <- MCDelays
    Intervals <- MCIntervals
    Jumps <- MCJumps
    MaxTime = 5
INVARIANTS
    TypeOK
    HeapIsServed
PROPERTIES
    NeverEarly
    NoTimerLost
    TimerFires
