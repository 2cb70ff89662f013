SPECIFICATION FairSpec
CONSTANTS
    r1 = r1
    Readers <- OneReader
    Stuck <- OneReader
    Lines = 4
    Long <- SecondLine
    MaxWrite = 3
    QueueSize = 1
    WireSize = 1
INVARIANTS LinesSurviveWrites NothingMissedAfterHello
PROPERTIES LossIsTold NoConnectionLeaks
CHECK_DEADLOCK FALSE
