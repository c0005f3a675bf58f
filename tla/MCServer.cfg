SPECIFICATION FairSpec
CONSTANTS
    Workers = {w1, w2}
    Main = main
    Requests = {r1}
    Configs <- StartConfigs
    Lengths <- PostLengths
    MaxPiece = 2
    Modulus = 8
    MaxSignals = 2
    NaN = NaN
    Huge = Huge
    NoRequest = NoRequest
    NoSignal = NoSignal
    NoThread = NoThread
    StaticLogs = 2
    MaxCount = 3
CHECK_DEADLOCK FALSE
INVARIANTS
    TypeOK
    LiveHandlerStopped
    AnsweredOnce
    BodyComplete
    PrivilegesDropped
PROPERTIES
    LogSettled
    ShutdownEnds
