CONSTANTS
    NSlots = 5
    MaxGen = 1
    Signals = {}
    WaitIds <- MCWaitAny
    WaitOptions <- MCWaitBlocking
    P_ALL = AnyChild
    LIST_POISON = poison
SPECIFICATION Spec
INVARIANT NoParentPanic
