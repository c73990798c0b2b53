SPECIFICATION FairSpec
CONSTANTS
    idle = idle
    low = low
    mid = mid
    high = high
    queue = queue
    mutex = mutex
    Tasks <- MCTasks
    Idle = idle
    Base <- MCBase
    Queues = {queue}
    Mutexes = {mutex}
    Length <- MCLength
    IsrQueues = {queue}
    Sleepers = {mid}
    MutexWaits = {"forever"}
    None = None
INVARIANTS NoLostWakeup RunsHighest ListsAgree MutexInherits
PROPERTIES NoInversion TimedReturns
