SPECIFICATION FairSpec
CONSTANTS
    p1 = p1
    p2 = p2
    p3 = p3
    p4 = p4
    NumRxFrag = 3
    Pbufs <- MCPbufs
    NoPbuf = NoPbuf
    FirstPbufs <- MCFirstPbufs
    MaxLen = 2
    MaxFrames = 4
    BadFrames = TRUE
    FatalOverrun = TRUE
INVARIANTS DmaInBounds RingKeepsPbufs InOrder
PROPERTY EventuallyRead
CHECK_DEADLOCK FALSE
