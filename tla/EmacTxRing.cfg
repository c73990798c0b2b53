SPECIFICATION FairSpec
CONSTANTS
    NumTxFrag = 3
    Pbufs = {p1, p2}
    NoPbuf = NoPbuf
    MaxFrag = 2
    TxErrors = {"TX_UNDERRUN", "TX_ERR"}
INVARIANTS TxbUnique RefsCovered NoLeak DmaSafe FramesWhole
CONSTRAINT RingUnspoiled
PROPERTIES FramesReleased OutputReturns
CHECK_DEADLOCK FALSE
