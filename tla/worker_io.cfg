SPECIFICATION Spec
CONSTANTS
    WriteBufLen = 2
    ReadBufLen = 2
    Kernel = 2
    MaxOut = 3
    MaxIn = 3
    Terminators = {2}
    MaxLens <- Limits
    MaxCalls = 3
    MaxFaults = 1
    Programs <- MCPrograms
    InLens = {0, 1, 3}
    PipeLen = 1
    BufLen = 1
    MaxFailures = 1
INVARIANTS
    TypeOK
    FlushedIsSent
    StreamsIntact
    NoMutualWaiting
    FilterIsClean
PROPERTIES
    ReadsEndWhereAsked
    AnswerArrives
    WaitingEnds
\* A connection that is over, or a program that has ended, is left alone.
CHECK_DEADLOCK FALSE
