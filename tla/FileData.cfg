CONSTANTS
    File = {a, b}
    Link = {l}
    Target = {a}
    Cap = 3
    BatchCap = 2
    MaxChanges = 1
    MaxCalls = 2
    Handle = {h, i}
    Datum = {x, y}
    Zero = zero
    MaxSize = 3
    WriteBackCap = 3
    MaxRequests = 3
    MaxFailed = 1
    MaxPayload = 44
    MaxPaths = 2
    ChunkBytes = 20
    PipeCap = 10
    Piece = {7}
    Answer <- MCAnswer
    Batch <- MCBatch
    Listing <- MCListing
SPECIFICATION MCSpec
CHECK_DEADLOCK FALSE
INVARIANTS  CacheIsAccounted  FramesArriveWhole
