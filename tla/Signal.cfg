SPECIFICATION FairSpec
CONSTANTS
    Signals <- MCSignals
    Sets <- MCSets
    Calls <- MCCalls
    MaxFrames = 2
INVARIANTS
    WokenBySignal
PROPERTIES
    KillStartsExit
    KillEnds
    DeliveredEventually
