SPECIFICATION Spec
CONSTANTS
    p = p
    q = q
    Buffers <- MCBuffers
    Bytes <- MCBytes
    Zero = 0
    Data <- MCData
    Numbers <- MCNumbers
    Behind <- MCBehind
    Lens <- MCLens
    BUF_OFFSET = 1
    ExtSize = 2
    SizeMod = 65536
    MaxSize <- MCMaxSize
INVARIANTS
    IndicesInBounds
    CapacityFollowsVector
    NumbersReadBack
PROPERTIES
    BytesInOrder
