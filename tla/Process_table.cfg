CONSTANTS
    NSlots = 5
    MaxGen = 1
    Signals = {}
    WaitIds <- MCWaitAny
    WaitOptions <- MCWaitOptions
    P_ALL = AnyChild
    LIST_POISON = poison
SPECIFICATION Spec
INVARIANTS ReadyQueueSound StatusNamesZombie NoMissedStatus ChildrenWalkable
PROPERTIES StalePidStaysStale
