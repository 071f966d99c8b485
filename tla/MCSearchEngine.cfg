SPECIFICATION FairSpec
CONSTANTS
    a = a
    b = b
    NumProviders = 2
    NumChannels = 1
    Jobs = 2
    Timeout = 1
    AllTimeout = 2
    MaxTime = 2
    Links <- TwoLinks
    Kept <- OnlyA
    Retaining <- FirstProvider
    Streaming = TRUE
INVARIANTS TypeOK EverySourceOnce Accounting NothingLost OnTimeOnly
PROPERTIES AnswerFrozen ImplementsRun RunEnds StopEnds
