SPECIFICATION FairSpec
CONSTANTS
    Readers = {1}
    Writers = {2, 3}
    PIPE_BUF = 2
    EINTR = 2
    EAGAIN = 1
    Lengths <- MCLengths
    MaxCalls = 3
    MaxSignals = 2
INVARIANTS
    SleepersCannotGoOn
    WriteReturnsWhatItWrote
PROPERTY EofSeen
