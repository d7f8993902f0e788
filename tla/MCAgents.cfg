SPECIFICATION FairSpec
CONSTANTS
    Tasks = 2
    Concurrency = 2
    Retries = 1
    Bounds <- MCBounds
INVARIANTS
    TypeOK
    OneAgentAtATime
    AnswerIsFinal
PROPERTIES
    OthersAreSpared
    SerialSpec
    EveryTaskAnswered
    NothingLeft
