SPECIFICATION FairSpec
CONSTANTS
    Workers = {w1}
    Main = Main
    NoThread = NoThread
    SignalThreads <- AllThreads
    Apps = {a1, a2}
    MaxGen = 2
CHECK_DEADLOCK FALSE
PROPERTIES
    RequestAnswered
