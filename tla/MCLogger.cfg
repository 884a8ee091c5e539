SPECIFICATION Spec
CONSTANTS
    NoLogger = NoLogger
    SIZE = 24
    kMaxNumericSize = 6
    Width <- MCWidth
    ThreadId = 7
    Errno = 9
    LineNumber = 42
    Items <- MCItems
    Seconds <- MCSeconds
    MaxItems = 3
INVARIANTS
    LineInBounds
    LineFaithful
