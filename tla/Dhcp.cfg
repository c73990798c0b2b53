SPECIFICATION FairSpec
CONSTANTS
    Addresses = {a1, a2}
    None = None
    Leases = {150}
    RequestTries = 1
    RebootTries = 2
    MaxReplies = 2
    MaxTroubles = 1
INVARIANTS TimerRuns InLease
PROPERTIES AsksFirst GetsBound
