SPECIFICATION Spec
CONSTANTS
    NumTxFrag = 3
    Pbufs = {p1, p2, p3}
    NoPbuf = NoPbuf
    MaxFrag = 1
    TxErrors = {}
PROPERTY QueueingAdds
CHECK_DEADLOCK FALSE
