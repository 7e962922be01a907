SPECIFICATION Spec
CONSTANTS
    NSlots = 3
    TimerIds = {1}
    Calls <- MCCalls
    Ticks <- MCTicks
    TickRange = 16
    FirstTick = 0
    MaxTime = 3
    MaxGen = 1
INVARIANT
    SleepOutcome
PROPERTY FiresOnTime
