SPECIFICATION FairSpec
CONSTANTS
    Caller = {fuse, prefetch}
    Worker = {prefetch}
    MaxRequests = 3
    MaxFrames = 1
INVARIANTS WaitersAreOwed TableIsLive ClosedReleasesAll
PROPERTIES CloseReturns 
CHECK_DEADLOCK FALSE
