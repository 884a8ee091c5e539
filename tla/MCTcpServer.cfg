SPECIFICATION Spec
CONSTANTS
    Conns = {c1, c2}
    Threads = {t1}
    Acceptor = Acceptor
    IO = IO
    None = None
    StateInit <- AnyState
    FileLimits <- OneOrTwo
    MaxCalls = 2
    Quiet = {c2}
    MaxIn = 1
INVARIANTS
    TypeOK
    IndexAgrees
    WriteInterest
    ClosedIsNotRead
PROPERTIES
    StreamKept
    SentIsWritten
    ShutdownCompletes
    PeersAreServed
CHECK_DEADLOCK FALSE
