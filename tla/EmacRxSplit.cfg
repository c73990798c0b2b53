SPECIFICATION Spec
CONSTANTS
    p1 = p1
    p2 = p2
    p3 = p3
    p4 = p4
    NumRxFrag = 2
    Pbufs <- MCPbufs
    NoPbuf = NoPbuf
    FirstPbufs <- MCFirstPbufs
    MaxLen = 2
    MaxFrames = 5
    BadFrames = TRUE
    FatalOverrun = FALSE
INVARIANT FullPackets
CHECK_DEADLOCK FALSE
