SPECIFICATION FairLinkSpec
CONSTANTS
    Modes = {"100F", "10F", "10H"}
    NoCable = NoCable
    MboxSize = 2
    MaxChanges = 2
    MdioTimeouts = FALSE
    NoMemory = FALSE
INVARIANTS OneSntpTask StackFollows
PROPERTIES LinkSettles SntpKeepsAsking
