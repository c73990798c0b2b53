SPECIFICATION SyslogSpec
CONSTANTS
    Senders = {s1}
    Blocks = {b1, b2}
    NULL = NULL
    Junk = Junk
    MaxMsgs = 4
    OtherUsers = TRUE
SYMMETRY BlockSymmetry
INVARIANTS SentInOrder FreesItsOwn
CHECK_DEADLOCK FALSE
