SPECIFICATION Spec
CONSTANTS
    WriteBufLen = 2
    ReadBufLen = 1
    Kernel = 2
    MaxOut = 2
    MaxIn = 0
    Terminators = {}
    MaxLens <- Limits
    MaxCalls = 2
    MaxFaults = 0
    Programs <- MCPrograms
    InLens = {0}
    PipeLen = 1
    BufLen = 1
    MaxFailures = 0
INVARIANTS
    EveryFlushPushes
\* A connection that is over, or a program that has ended, is left alone.
CHECK_DEADLOCK FALSE
