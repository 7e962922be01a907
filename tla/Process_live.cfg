CONSTANTS
    NSlots = 4
    MaxGen = 0
    Signals = {28}
    WaitIds <- MCWaitIds
    WaitOptions <- MCWaitBlocking
    P_ALL = AnyChild
    LIST_POISON = poison
SPECIFICATION FairSpec
PROPERTIES QueuedRuns KilledExits
